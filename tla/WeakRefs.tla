------------------------------ MODULE WeakRefs ------------------------------
(***************************************************************************)
(* The handles of one actor: ActorRef, four strong senders dropped one     *)
(* after the other; ActorWeak::upgrade and is_alive, which take strong     *)
(* senders one after the other; and the runtime loop, which leaves when    *)
(* the last sender of the mailbox or of the terminate channel is gone.     *)
(* ActorRuntime takes each of these for a single step.                     *)
(*                                                                         *)
(* A handle is a slot of Refs: free, an ActorRef, or the strong senders    *)
(* that a call on an ActorWeak holds for the time being.                   *)
(***************************************************************************)
CONSTANTS
    Refs,       \* slots for handles
    First,      \* the one that spawn returns
    Sides       \* the secondary channels the actor was spawned with

Primaries == {"mail", "term"}
Chans     == Primaries \cup {"prio", "idle"}

ASSUME RefsAssumption == First \in Refs /\ Sides \subseteq {"prio", "idle"}

VARIABLES
    use,        \* what each slot is used for
    at,         \* the next step of the call made with it, "held" when none is
    has,        \* the strong senders in it
    answer,     \* what its last is_alive or upgrade said
    shut,       \* receivers closed or dropped
    loop,       \* the runtime loop
    deserted,   \* history: the loop left because a channel had no sender
    refused,    \* history: some is_alive or upgrade has said no
    late        \* history: the calls that began after that

refVars == <<use, at, has, answer, shut, loop, deserted, refused, late>>

\* Some strong sender of the channel exists.
Strong(ch) == \E r \in Refs : ch \in has[r]

RefsInit ==
    /\ use = [r \in Refs |-> IF r = First THEN "ref" ELSE "free"]
    /\ at = [r \in Refs |-> "held"]
    /\ has = [r \in Refs |-> IF r = First THEN Primaries \cup Sides ELSE {}]
    /\ answer = [r \in Refs |-> "none"]
    /\ shut = {} /\ loop = "running"
    /\ deserted = FALSE /\ refused = FALSE /\ late = {}

(***************************************************************************)
(* Clone and drop                                                          *)
(***************************************************************************)

\* Fault: the clone has no priority sender.
MutClone(r, s) ==
    /\ use[r] = "ref" /\ use[s] = "free"
    /\ use' = [use EXCEPT ![s] = "ref"]
    /\ has' = [has EXCEPT ![s] = has[r] \ {"prio"}]
    /\ answer' = [answer EXCEPT ![s] = "none"]
    /\ UNCHANGED <<at, shut, loop, deserted, refused, late>>

\* The original outlives the call, so that no count passes through zero.
Clone(r, s) ==
    /\ use[r] = "ref" /\ use[s] = "free"
    /\ use' = [use EXCEPT ![s] = "ref"]
    /\ has' = [has EXCEPT ![s] = has[r]]
    /\ answer' = [answer EXCEPT ![s] = "none"]
    /\ UNCHANGED <<at, shut, loop, deserted, refused, late>>

BeginDrop(r) ==
    /\ use[r] = "ref" /\ at[r] = "held"
    /\ use' = [use EXCEPT ![r] = "drop"]
    /\ UNCHANGED <<at, has, answer, shut, loop, deserted, refused, late>>

\* Fields drop in the order they are declared; the locals of a call that
\* returns, in the reverse order.
MayDrop(r, ch) ==
    /\ ch \in has[r]
    /\ \/ use[r] = "drop" /\ CASE ch = "mail" -> TRUE
                               [] ch = "prio" -> "mail" \notin has[r]
                               [] ch = "term" -> has[r] \cap {"mail", "prio"} = {}
                               [] ch = "idle" -> has[r] = {"idle"}
       \/ use[r] = "undo" /\ (ch = "mail" => "term" \notin has[r])

DropSender(r, ch) ==
    /\ MayDrop(r, ch)
    /\ has' = [has EXCEPT ![r] = @ \ {ch}]
    /\ UNCHANGED <<use, at, answer, shut, loop, deserted, refused, late>>

Dropped(r) ==
    /\ use[r] \in {"drop", "undo"} /\ has[r] = {}
    /\ use' = [use EXCEPT ![r] = "free"]
    /\ late' = late \ {r}
    /\ UNCHANGED <<at, has, answer, shut, loop, deserted, refused>>

(***************************************************************************)
(* ActorWeak::upgrade, ActorWeak::is_alive and ActorRef::is_alive          *)
(***************************************************************************)

Begun(r, step) ==
    /\ at' = [at EXCEPT ![r] = step]
    /\ answer' = [answer EXCEPT ![r] = "none"]
    /\ late' = IF refused THEN late \cup {r} ELSE late \ {r}
    /\ UNCHANGED <<has, shut, loop, deserted, refused>>

CallWeak(r, call) ==
    /\ use[r] = "free"
    /\ use' = [use EXCEPT ![r] = call]
    /\ Begun(r, "mail")

CallAlive(r) ==
    /\ use[r] = "ref" /\ at[r] = "held"
    /\ Begun(r, "mail_open")
    /\ UNCHANGED use

\* The answer is no: None, or false.  A weak call drops what it holds.
Refuse(r) ==
    /\ at' = [at EXCEPT ![r] = "held"]
    /\ answer' = [answer EXCEPT ![r] = "no"]
    /\ refused' = TRUE
    /\ use' = [use EXCEPT ![r] = IF @ = "ref" THEN "ref" ELSE "undo"]
    /\ UNCHANGED <<has, shut, loop, deserted, late>>

Goto(r, step) ==
    /\ at' = [at EXCEPT ![r] = step]
    /\ UNCHANGED <<use, answer, shut, loop, deserted, refused, late>>

\* WeakSender::upgrade: one more strong sender, unless there is none.
Take(r, ch) == has' = [has EXCEPT ![r] = @ \cup {ch}]

\* is_alive makes both upgrades before it looks at either.
TakeMail(r) ==
    /\ at[r] = "mail"
    /\ \/ Strong("mail") /\ Take(r, "mail") /\ Goto(r, "term")
       \/ ~Strong("mail") /\ use[r] = "probe" /\ Goto(r, "term") /\ UNCHANGED has
       \/ ~Strong("mail") /\ use[r] = "upgrade" /\ Refuse(r)

\* Fault: a missing terminate sender is passed over, as a priority sender is.
MutTakeTerm(r) ==
    /\ at[r] = "term"
    /\ IF Strong("term") THEN Take(r, "term") ELSE UNCHANGED has
    /\ Goto(r, "mail_open")

TakeTerm(r) ==
    /\ at[r] = "term"
    /\ \/ /\ Strong("term") /\ Take(r, "term")
          /\ Goto(r, IF "mail" \in has[r] THEN "mail_open" ELSE "half")
       \/ ~Strong("term") /\ Refuse(r)

\* Only one of the two could be upgraded.
Half(r) == at[r] = "half" /\ Refuse(r)

MailOpen(r) ==
    /\ at[r] = "mail_open"
    /\ \/ "mail" \in shut /\ Refuse(r)
       \/ "mail" \notin shut /\ Goto(r, "term_open") /\ UNCHANGED has

\* The answer is yes.  A weak is_alive drops what it holds.
Agree(r) ==
    /\ at' = [at EXCEPT ![r] = "held"]
    /\ answer' = [answer EXCEPT ![r] = "yes"]
    /\ use' = [use EXCEPT ![r] = IF @ = "probe" THEN "undo" ELSE "ref"]
    /\ UNCHANGED <<shut, loop, deserted, refused, late>>

\* Fault: upgrade does not ask the terminate receiver.
MutTermOpen(r) ==
    /\ at[r] = "term_open"
    /\ \/ "term" \in shut /\ use[r] # "upgrade" /\ Refuse(r)
       \/ use[r] = "upgrade" /\ Goto(r, "prio") /\ UNCHANGED has
       \/ "term" \notin shut /\ use[r] # "upgrade" /\ Agree(r) /\ UNCHANGED has

TermOpen(r) ==
    /\ at[r] = "term_open"
    /\ \/ "term" \in shut /\ Refuse(r)
       \/ "term" \notin shut /\ use[r] = "upgrade" /\ Goto(r, "prio") /\ UNCHANGED has
       \/ "term" \notin shut /\ use[r] # "upgrade" /\ Agree(r) /\ UNCHANGED has

\* The secondary senders are taken when there are any left.
TakeSide(r, ch) == has' = [has EXCEPT ![r] = IF Strong(ch) THEN @ \cup {ch} ELSE @]

TakePrio(r) == at[r] = "prio" /\ TakeSide(r, "prio") /\ Goto(r, "idle")

TakeIdle(r) == at[r] = "idle" /\ TakeSide(r, "idle") /\ Agree(r)

(***************************************************************************)
(* The runtime loop                                                        *)
(***************************************************************************)

\* recv() answers None on the mailbox or the terminate channel.
Desert(ch) ==
    /\ loop = "running" /\ ~Strong(ch)
    /\ loop' = "leaving" /\ deserted' = TRUE
    /\ UNCHANGED <<use, at, has, answer, shut, refused, late>>

\* recv() answers None on a secondary channel: the branch is switched off.
SideGone(ch) ==
    /\ loop = "running" /\ ~Strong(ch)
    /\ shut' = shut \cup {ch}
    /\ UNCHANGED <<use, at, has, answer, loop, deserted, refused, late>>

\* A stop, a kill or a failed hook.
Leave ==
    /\ loop = "running"
    /\ loop' = "leaving"
    /\ UNCHANGED <<use, at, has, answer, shut, deserted, refused, late>>

\* The terminate channel closes before the mailbox, the others at any time
\* from the first step of a stop on.
CloseRx(ch) ==
    /\ loop = "leaving" /\ ch \notin shut
    /\ ch = "mail" => "term" \in shut
    /\ shut' = shut \cup {ch}
    /\ UNCHANGED <<use, at, has, answer, loop, deserted, refused, late>>

CallStep(r) ==
    \/ TakeMail(r) \/ TakeTerm(r) \/ Half(r) \/ MailOpen(r) \/ TermOpen(r)
    \/ TakePrio(r) \/ TakeIdle(r)

RefsNext ==
    \/ \E r, s \in Refs : Clone(r, s)
    \/ \E r \in Refs : \/ BeginDrop(r) \/ Dropped(r) \/ CallAlive(r) \/ CallStep(r)
                       \/ \E ch \in Chans : DropSender(r, ch)
                       \/ \E call \in {"upgrade", "probe"} : CallWeak(r, call)
    \/ \E ch \in Primaries : Desert(ch)
    \/ \E ch \in Sides : SideGone(ch)
    \/ Leave \/ \E ch \in Primaries \cup Sides : CloseRx(ch)

RefsSpec == RefsInit /\ [][RefsNext]_refVars

(***************************************************************************)
(* Properties                                                              *)
(***************************************************************************)

Steps == {"held", "mail", "term", "half", "mail_open", "term_open", "prio", "idle"}

RefsTypeOK ==
    /\ use \in [Refs -> {"free", "ref", "drop", "undo", "upgrade", "probe"}]
    /\ at \in [Refs -> Steps]
    /\ has \in [Refs -> SUBSET Chans]
    /\ answer \in [Refs -> {"none", "yes", "no"}]
    /\ shut \subseteq Chans /\ loop \in {"running", "leaving"}
    /\ deserted \in BOOLEAN /\ refused \in BOOLEAN /\ late \subseteq Refs

\* Once any is_alive or upgrade has said no, none that begins afterwards says
\* yes, on whatever handle: a dead actor does not come back (actor_ref.rs,
\* upgrade and both is_alive, "so the two calls cannot disagree").
DeadIsFinal == \A r \in late : answer[r] # "yes"

\* When the loop left for want of senders, no ActorRef is left and no upgrade
\* makes another, though the loop looks at one channel and upgrade takes two
\* senders of which the last ActorRef drops one before the other.
NobodyLeftBehind == deserted => \A r \in Refs : use[r] # "ref"

\* Any two ActorRefs have the same secondary channels.  The upgrade that
\* loses one to the drop of the last ActorRef is not alone: nobody has it
\* then, and its receiver is dead (actor_ref.rs, upgrade, "best-effort").
SidesAgree == \A r, s \in Refs : use[r] = "ref" /\ use[s] = "ref" => has[r] = has[s]

(***************************************************************************)
(* The inductive invariant                                                 *)
(***************************************************************************)

\* What a slot holds at each step of its use.
SlotOK(r) ==
    /\ use[r] \in {"free", "drop", "undo"} => at[r] = "held"
    /\ use[r] = "free" => has[r] = {}
    /\ use[r] = "ref" => Primaries \subseteq has[r] /\ at[r] \in {"held", "mail_open", "term_open"}
    /\ use[r] = "upgrade" => at[r] \in Steps \ {"held", "half"}
    /\ use[r] = "probe" => at[r] \in Steps \ {"held", "prio", "idle"}
    /\ at[r] = "term" /\ use[r] = "upgrade" => "mail" \in has[r]
    /\ at[r] \in {"mail_open", "term_open", "prio", "idle"} => Primaries \subseteq has[r]

\* An ActorRef has a secondary channel exactly when anybody has; so has an
\* upgrade that took the first of them.
SidesOK(r) ==
    /\ use[r] = "ref" => \A ch \in {"prio", "idle"} : ch \in has[r] <=> Strong(ch)
    /\ at[r] = "idle" => ("prio" \in has[r] <=> Strong("prio"))

\* No upgrade can succeed any more.
Final == ~Strong("mail") \/ ~Strong("term") \/ "term" \in shut

\* A call that began after a refusal gets nowhere near a yes.
LateOK(r) ==
    r \in late => refused /\ answer[r] # "yes" /\ at[r] \notin {"prio", "idle"}

\* A probe goes on without a mailbox sender only when there is none.
HalfOK(r) ==
    at[r] = "half" \/ (at[r] = "term" /\ "mail" \notin has[r]) => ~Strong("mail")

HandlesInv ==
    /\ RefsTypeOK
    /\ \A r \in Refs : SlotOK(r) /\ SidesOK(r) /\ LateOK(r) /\ HalfOK(r)
    /\ "mail" \in shut => "term" \in shut
    /\ deserted => ~Strong("mail") \/ ~Strong("term")
    /\ refused => Final
=============================================================================
