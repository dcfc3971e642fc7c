---------------------------- MODULE ActorRuntime ----------------------------
(***************************************************************************)
(* One actor of rsActor: the task that runs run_actor_lifecycle, the four  *)
(* tokio channels between it and its ActorRefs, and the futures of the     *)
(* callers that tell, ask, stop, kill and subscribe.                       *)
(*                                                                         *)
(* One step of the task is one poll of a branch of the biased select!, one *)
(* return of a user hook, or one pop of a drain; the callers and the other *)
(* ActorRef holders run on other worker threads and move between any two   *)
(* of those steps.  A send is reserve-then-push, in two steps.             *)
(***************************************************************************)
EXTENDS Naturals, FiniteSets, Queues

CONSTANTS
    Calls,      \* the futures returned by tell, ask, stop and their variants
    Op,         \* Op[c]: "tell", "ask" or "stop"
    Chan,       \* Chan[c]: "mail" (regular mailbox) or "prio" (priority)
    Timed,      \* Timed[c]: the call carries a deadline
    Cap,        \* Cap["mail"], Cap["prio"]: capacities of the two mailboxes
    HasPrio,    \* SpawnOptions::with_priority
    HasIdle,    \* SpawnOptions::with_idle
    Streams,    \* the streams handed to subscribe_idle
    SubCap,     \* SpawnOptions::with_idle_capacity
    Null        \* no message is being handled

Mailboxes == {"mail", "prio"}

ASSUME NullAssumption == Null \notin Calls

ASSUME CallAssumption ==
    /\ Op \in [Calls -> {"tell", "ask", "stop"}]
    /\ Chan \in [Calls -> Mailboxes]
    /\ Timed \in [Calls -> BOOLEAN]
    /\ \A c \in Calls : Op[c] = "stop" => Chan[c] = "mail" /\ ~Timed[c]
    /\ \A c \in Calls : Chan[c] = "prio" => Timed[c]

ASSUME CapAssumption ==
    /\ Cap \in [Mailboxes -> Nat \ {0}]
    /\ SubCap \in Nat \ {0}
    /\ HasPrio \in BOOLEAN
    /\ HasIdle \in BOOLEAN

ASSUME ItemAssumption ==
    Calls \cap Streams = {} /\ "kill" \notin Calls \cup Streams

VARIABLES
    pc,         \* where the actor's task is
    cur,        \* the call whose handler is running, or Null
    cause,      \* why the loop was left: "none" while it was not
    result,     \* what the JoinHandle resolves to
    rx,         \* state of each receiver, seen through its senders
    buf,        \* the envelopes buffered in each mailbox
    waitq,      \* the senders queued on each mailbox's semaphore
    term,       \* Terminate signals buffered in the terminate channel
    stage,      \* where each call's future is
    fate,       \* where each call's message is
    letters,    \* dead letters recorded, per call and reason
    held,       \* some ActorRef is held outside calls, envelopes and the task
    stream,     \* where each idle stream is
    \* History variables: they record what happened and guard nothing.
    passed,     \* times the select served a lower branch while this waited
    due,        \* priority calls the graceful drain owes a handler run
    stalled,    \* priority calls unfinished when the quiet window expired
    raced       \* calls pushed after their mailbox was swept

taskVars == <<pc, cur, cause, result>>
chanVars == <<rx, buf, waitq, term>>
callVars == <<stage, fate, letters>>
refVars  == <<held, stream>>
histVars == <<passed, due, stalled, raced>>
vars == <<taskVars, chanVars, callVars, refVars, histVars>>

-----------------------------------------------------------------------------
(* Values *)

Receivers == {"mail", "prio", "term", "sub"}
RxStates == {"absent", "open", "closed", "gone"}
Causes == {"none", "kill", "refs", "stop", "idle"}
Reasons == {"ActorStopped", "Timeout", "ReplyDropped", "DiscardedAtShutdown"}

LoopPcs == {"poll_term", "poll_prio", "poll_sub", "poll_mail", "poll_idle",
            "parked"}
HandlerPcs == {"handler", "drain_handler"}
StopPcs == {"drain", "drain_wait", "drain_handler", "on_stop"}
ShutdownPcs == {"close_term", "close_mail", "sweep_mail", "close_prio",
                "sweep_prio", "close_sub", "drop_mail", "drop_prio", "done"}
Pcs == {"unpolled", "on_start", "on_idle"} \cup LoopPcs \cup HandlerPcs
         \cup StopPcs \cup ShutdownPcs

\* An abort or a runtime shutdown drops the task's future where it awaits.
AwaitPcs == {"unpolled", "on_start", "parked", "on_idle", "drain_wait",
             "on_stop"} \cup HandlerPcs
\* User code runs, and may panic.
HookPcs == {"on_start", "on_idle", "on_stop"} \cup HandlerPcs

Waiting == {"wait", "granted"}
GivenUp == {"errTimeout", "cancelled"}
Stages == {"idle", "permit", "awaiting", "ok", "errSend", "errReceive",
           "errNotEnabled"} \cup Waiting \cup GivenUp
InFlight == Waiting \cup {"permit", "awaiting"}

\* The final drain of the mailbox is over.
SweptPcs == [mail |-> {"close_prio", "sweep_prio", "close_sub", "drop_mail",
                       "drop_prio", "done"},
             prio |-> {"close_sub", "drop_mail", "drop_prio", "done"}]

\* unsent: with the caller; started/handled/broken: its handler runs, returned,
\* was unwound or dropped; swept: popped by the final drain; dropped: destroyed
\* with the receiver; leaked: pushed into a channel with no receiver.
Fates == {"unsent", "queued", "started", "handled", "broken", "swept",
          "dropped", "leaked"}
ReplyDropped == {"broken", "swept", "dropped"}

StreamStates == {"new", "permit", "queued", "merged", "ended", "returned",
                 "lost"}

Completed(k) == [how |-> "Completed", phase |-> "None", killed |-> k]
Failed(p, k) == [how |-> "Failed", phase |-> p, killed |-> k]
JoinError(h) == [how |-> h, phase |-> "None", killed |-> FALSE]
Running == [how |-> "Running", phase |-> "None", killed |-> FALSE]
Phases == {"None", "OnStart", "OnStop", "OnIdle", "OnIdleThenOnStop"}
Results == [how : {"Running", "Completed", "Failed", "Panicked", "Cancelled"},
            phase : Phases, killed : BOOLEAN]

Items == Calls \cup Streams \cup {"kill"}

-----------------------------------------------------------------------------
(* References and channels *)

PrioCalls == {c \in Calls : Chan[c] = "prio"}

\* A strong ActorRef exists: held by a user, borrowed by a call in flight,
\* inside an envelope, with the running handler, with the task until on_start
\* is over, or inside the StopGracefully message being acted on.
HasStrong ==
    \/ held
    \/ pc \in {"unpolled", "on_start"}
    \/ cur # Null
    \/ cause = "stop" /\ pc \in StopPcs
    \/ \E c \in Calls : stage[c] \in InFlight \/ fate[c] \in {"queued", "leaked"}
    \/ \E s \in Streams : stream[s] = "permit"

\* Code that holds an ActorRef is running and may start a call.
RefAvailable == held \/ pc = "on_start" \/ cur # Null

\* is_alive(): the priority channel is not asked.
IsAlive == rx["mail"] = "open" /\ rx["term"] = "open"

Permits(ch) == {c \in Calls : Chan[c] = ch /\ stage[c] \in {"granted", "permit"}}
Free(ch) == Cap[ch] - Len(buf[ch]) - Cardinality(Permits(ch))

\* A permit released to an open channel goes to the first queued sender.
GrantHead(ch, st) ==
    IF waitq[ch] = <<>> THEN st
    ELSE [st EXCEPT ![Head(waitq[ch])] = "granted"]
PopWaiter(ch) ==
    IF waitq[ch] = <<>> THEN waitq ELSE [waitq EXCEPT ![ch] = Tail(@)]

Record(ls, c, reason) == [ls EXCEPT ![c][reason] = @ + 1]

QueuedStreams == {s \in Streams : stream[s] = "queued"}
MergedStreams == {s \in Streams : stream[s] = "merged"}

-----------------------------------------------------------------------------
Init ==
    /\ pc = "unpolled" /\ cur = Null /\ cause = "none" /\ result = Running
    /\ rx = [r \in Receivers |->
               CASE r = "prio" /\ ~HasPrio -> "absent"
                 [] r = "sub" /\ ~HasIdle -> "absent"
                 [] OTHER -> "open"]
    /\ buf = [ch \in Mailboxes |-> <<>>]
    /\ waitq = [ch \in Mailboxes |-> <<>>]
    /\ term = 0
    /\ stage = [c \in Calls |-> "idle"]
    /\ fate = [c \in Calls |-> "unsent"]
    /\ letters = [c \in Calls |-> [r \in Reasons |-> 0]]
    /\ held = TRUE
    /\ stream = [s \in Streams |-> "new"]
    /\ passed = [x \in Items |-> 0]
    /\ due = {} /\ stalled = {} /\ raced = {}

-----------------------------------------------------------------------------
(* Callers.  A call's future moves through wait -> granted -> permit: queued *)
(* on the semaphore, handed a permit it has not yet polled, and past its     *)
(* last poll of the semaphore with the push still to come.                   *)

\* Mutant: every send treats a closed mailbox as success, as stop() does.
MutRefuse(c) ==
    /\ stage' = [stage EXCEPT ![c] = "ok"]
    /\ UNCHANGED <<letters, waitq>>

\* stop() treats a closed mailbox as success and records nothing.
Refuse(c) ==
    /\ stage' = [stage EXCEPT ![c] = IF Op[c] = "stop" THEN "ok" ELSE "errSend"]
    /\ letters' = IF Op[c] = "stop" THEN letters
                  ELSE Record(letters, c, "ActorStopped")
    /\ UNCHANGED waitq

StartCall(c) ==
    /\ stage[c] = "idle" /\ RefAvailable
    /\ \/ /\ rx[Chan[c]] = "absent"
          /\ stage' = [stage EXCEPT ![c] = "errNotEnabled"]
          /\ UNCHANGED <<letters, waitq>>
       \/ /\ rx[Chan[c]] \in {"closed", "gone"}
          /\ Refuse(c)
       \/ /\ rx[Chan[c]] = "open" /\ Free(Chan[c]) > 0
          /\ stage' = [stage EXCEPT ![c] = "permit"]
          /\ UNCHANGED <<letters, waitq>>
       \/ /\ rx[Chan[c]] = "open" /\ Free(Chan[c]) = 0
          /\ stage' = [stage EXCEPT ![c] = "wait"]
          /\ waitq' = [waitq EXCEPT ![Chan[c]] = Append(@, c)]
          /\ UNCHANGED letters
    /\ UNCHANGED <<taskVars, rx, buf, term, fate, refVars, histVars>>

\* The future is polled again after its waker ran: the semaphore looks at the
\* closed flag before it looks at the permit it was handed.
PollSend(c) ==
    /\ \/ /\ stage[c] = "granted" /\ rx[Chan[c]] = "open"
          /\ stage' = [stage EXCEPT ![c] = "permit"]
          /\ UNCHANGED <<letters, waitq>>
       \/ /\ stage[c] \in Waiting /\ rx[Chan[c]] # "open"
          /\ Refuse(c)
    /\ UNCHANGED <<taskVars, rx, buf, term, fate, refVars, histVars>>

\* Mutant: the new envelope is pushed in front of the others.
MutPush(c) ==
    LET ch == Chan[c] IN
    /\ stage[c] = "permit"
    /\ stage' = [stage EXCEPT ![c] = IF Op[c] = "ask" THEN "awaiting" ELSE "ok"]
    /\ IF rx[ch] = "gone"
       THEN fate' = [fate EXCEPT ![c] = "leaked"] /\ UNCHANGED buf
       ELSE /\ fate' = [fate EXCEPT ![c] = "queued"]
            /\ buf' = [buf EXCEPT ![ch] = <<c>> \o @]
    /\ raced' = IF pc \in SweptPcs[ch] THEN raced \cup {c} ELSE raced
    /\ UNCHANGED <<taskVars, rx, waitq, term, letters, refVars,
                   passed, due, stalled>>

\* The push does not look at the closed flag; after the receiver was dropped
\* nothing will ever pop the envelope, and the ActorRef inside it keeps the
\* channel allocated.
Push(c) ==
    LET ch == Chan[c] IN
    /\ stage[c] = "permit"
    /\ stage' = [stage EXCEPT ![c] = IF Op[c] = "ask" THEN "awaiting" ELSE "ok"]
    /\ IF rx[ch] = "gone"
       THEN fate' = [fate EXCEPT ![c] = "leaked"] /\ UNCHANGED buf
       ELSE /\ fate' = [fate EXCEPT ![c] = "queued"]
            /\ buf' = [buf EXCEPT ![ch] = Append(@, c)]
    /\ raced' = IF pc \in SweptPcs[ch] THEN raced \cup {c} ELSE raced
    /\ UNCHANGED <<taskVars, rx, waitq, term, letters, refVars,
                   passed, due, stalled>>

\* ask: the oneshot resolved, with the reply or because its sender was dropped.
ReceiveReply(c) ==
    /\ stage[c] = "awaiting"
    /\ \/ /\ fate[c] = "handled"
          /\ stage' = [stage EXCEPT ![c] = "ok"]
          /\ UNCHANGED letters
       \/ /\ fate[c] \in ReplyDropped
          /\ stage' = [stage EXCEPT ![c] = "errReceive"]
          /\ letters' = Record(letters, c, "ReplyDropped")
    /\ UNCHANGED <<taskVars, chanVars, fate, refVars, histVars>>

\* A suspended call's future is dropped: it leaves the semaphore's queue, or
\* returns the permit it was handed, which goes to the next queued sender.
DropFuture(c, outcome) ==
    /\ stage[c] \in Waiting \cup {"awaiting"}
    /\ LET st == [stage EXCEPT ![c] = outcome] IN
       IF stage[c] = "granted" /\ rx[Chan[c]] = "open"
       THEN stage' = GrantHead(Chan[c], st) /\ waitq' = PopWaiter(Chan[c])
       ELSE /\ stage' = st
            /\ waitq' = [waitq EXCEPT ![Chan[c]] = Without(@, c)]
    /\ UNCHANGED <<taskVars, rx, buf, term, fate, refVars, histVars>>

\* Mutant: a deadline that passes before the push is answered Error::Send.
MutTimeOut(c) ==
    /\ Timed[c]
    /\ DropFuture(c, IF stage[c] = "awaiting" THEN "errTimeout" ELSE "errSend")
    /\ letters' = Record(letters, c, "Timeout")

TimeOut(c) ==
    /\ Timed[c]
    /\ DropFuture(c, "errTimeout")
    /\ letters' = Record(letters, c, "Timeout")

Cancel(c) ==
    /\ DropFuture(c, "cancelled")
    /\ UNCHANGED letters

-----------------------------------------------------------------------------
(* Other users of an ActorRef or an ActorWeak. *)

\* kill(): try_send on the capacity-1 terminate channel; full or closed is fine.
Kill ==
    /\ RefAvailable
    /\ rx["term"] = "open" /\ term = 0
    /\ term' = 1
    /\ UNCHANGED <<taskVars, rx, buf, waitq, callVars, refVars, histVars>>

\* The last ActorRef not counted elsewhere in HasStrong is dropped.
DropRefs ==
    /\ held
    /\ held' = FALSE
    /\ UNCHANGED <<taskVars, chanVars, callVars, stream, histVars>>

\* ActorWeak::upgrade, or a handler cloning its actor_ref.
Upgrade ==
    /\ ~held /\ HasStrong
    /\ IsAlive
    /\ held' = TRUE
    /\ UNCHANGED <<taskVars, chanVars, callVars, stream, histVars>>

\* subscribe_idle: a try_send, which hands the stream back when it fails.
Subscribe(s) ==
    /\ stream[s] = "new" /\ RefAvailable
    /\ stream' = [stream EXCEPT ![s] =
         IF /\ rx["sub"] = "open"
            /\ Cardinality({t \in Streams : stream[t] \in {"permit", "queued"}})
                 < SubCap
         THEN "permit" ELSE "returned"]
    /\ UNCHANGED <<taskVars, chanVars, callVars, held, histVars>>

SubscribePush(s) ==
    /\ stream[s] = "permit"
    /\ stream' = [stream EXCEPT ![s] =
         IF pc \in {"drop_mail", "drop_prio", "done"} THEN "lost" ELSE "queued"]
    /\ UNCHANGED <<taskVars, chanVars, callVars, held, histVars>>

-----------------------------------------------------------------------------
(* The task: start, and the biased select! one branch at a time. *)

Goto(label) == pc' = label /\ UNCHANGED <<cur, cause, result>>

FirstPoll ==
    /\ pc = "unpolled"
    /\ Goto("on_start")
    /\ UNCHANGED <<chanVars, callVars, refVars, histVars>>

\* Mutant: the terminate branch is not the first of the biased select!.
MutLoopStart == "poll_prio"

\* The branch the select! polls first.
LoopStart == "poll_term"

\* on_start returned Ok: subscriptions queued meanwhile are installed, and the
\* task's own ActorRef is dropped.
OnStartOk ==
    /\ pc = "on_start"
    /\ Goto(LoopStart)
    /\ stream' = [s \in Streams |->
                    IF s \in QueuedStreams THEN "merged" ELSE stream[s]]
    /\ UNCHANGED <<chanVars, callVars, held, histVars>>

\* Leaving run_actor_lifecycle, by return or by unwinding, drops the idle
\* streams, the envelope being handled, and then the drain guard.
Leave(res) ==
    /\ pc' = "close_term" /\ result' = res /\ cur' = Null
    /\ fate' = IF cur = Null THEN fate ELSE [fate EXCEPT ![cur] = "broken"]
    /\ stream' = [s \in Streams |->
                    IF s \in MergedStreams THEN "lost" ELSE stream[s]]
    /\ UNCHANGED <<cause, chanVars, stage, letters, held, histVars>>

OnStartErr == pc = "on_start" /\ Leave(Failed("OnStart", FALSE))

HookPanic == pc \in HookPcs /\ Leave(JoinError("Panicked"))
Abort == pc \in AwaitPcs /\ Leave(JoinError("Cancelled"))

\* close() on one receiver, which may be absent or closed already.
Closed(rs, r) == IF rs[r] = "open" THEN [rs EXCEPT ![r] = "closed"] ELSE rs

\* Mutant: the terminate channel, which nobody reads now, is closed with the
\* subscriptions, before on_stop runs.
MutBeginStop(why) ==
    /\ cause' = why
    /\ rx' = Closed(Closed(rx, "sub"), "term")
    /\ pc' = "on_stop"
    /\ UNCHANGED <<cur, result, buf, waitq, callVars, refVars>>

\* The loop stops taking work for reason why: no new subscription is accepted.
BeginStop(why) ==
    /\ cause' = why
    /\ rx' = Closed(rx, "sub")
    /\ pc' = "on_stop"
    /\ UNCHANGED <<cur, result, buf, waitq, callVars, refVars>>

PollTerm ==
    /\ pc = "poll_term"
    /\ \/ /\ term > 0
          /\ term' = 0
          /\ BeginStop("kill")
       \/ /\ term = 0 /\ ~HasStrong
          /\ BeginStop("refs")
          /\ UNCHANGED term
       \/ /\ term = 0 /\ HasStrong
          /\ Goto("poll_prio")
          /\ UNCHANGED <<chanVars, callVars, refVars>>
    /\ UNCHANGED histVars

\* Everything waiting at a branch the select! polls before the one it serves.
Overtaken(branch) ==
    {x \in Items :
       \/ x = "kill" /\ term > 0
       \/ x \in Calls /\ fate[x] = "queued" /\ Chan[x] = "prio" /\ branch # "prio"
       \/ x \in QueuedStreams /\ branch \in {"mail", "idle"}
       \/ x \in Calls /\ fate[x] = "queued" /\ Chan[x] = "mail" /\ branch = "idle"}
Serve(branch) ==
    passed' = [x \in Items |->
                 IF x \in Overtaken(branch) THEN passed[x] + 1 ELSE passed[x]]

\* Mutant: a popped envelope's permit goes to no queued sender.
MutTakeHead(ch) ==
    /\ buf' = [buf EXCEPT ![ch] = Tail(@)]
    /\ UNCHANGED <<stage, waitq>>

\* Popping an envelope returns its permit, to the first queued sender if any.
TakeHead(ch) ==
    /\ buf' = [buf EXCEPT ![ch] = Tail(@)]
    /\ stage' = GrantHead(ch, stage)
    /\ waitq' = PopWaiter(ch)

\* process_envelope! begins: the handler of the first envelope is called.
StartHandler(ch, label) ==
    /\ buf[ch] # <<>>
    /\ TakeHead(ch)
    /\ cur' = Head(buf[ch])
    /\ fate' = [fate EXCEPT ![Head(buf[ch])] = "started"]
    /\ pc' = label
    /\ UNCHANGED <<cause, result, rx, term, letters, refVars>>

PollPrio ==
    /\ pc = "poll_prio"
    /\ \/ /\ rx["prio"] = "open"
          /\ StartHandler("prio", "handler")
          /\ Serve("prio")
       \/ /\ rx["prio"] = "open" /\ buf["prio"] = <<>> /\ ~HasStrong
          /\ rx' = [rx EXCEPT !["prio"] = "absent"]
          /\ Goto(LoopStart)
          /\ UNCHANGED <<buf, waitq, term, callVars, refVars, passed>>
       \/ /\ rx["prio"] = "absent" \/ (buf["prio"] = <<>> /\ HasStrong)
          /\ Goto("poll_sub")
          /\ UNCHANGED <<chanVars, callVars, refVars, passed>>
    /\ UNCHANGED <<due, stalled, raced>>

PollSub ==
    /\ pc = "poll_sub"
    /\ \/ /\ rx["sub"] = "open"
          /\ \E s \in QueuedStreams : stream' = [stream EXCEPT ![s] = "merged"]
          /\ Goto(LoopStart)
          /\ UNCHANGED rx
       \/ /\ rx["sub"] = "open" /\ QueuedStreams = {} /\ ~HasStrong
          /\ rx' = [rx EXCEPT !["sub"] = "absent"]
          /\ Goto(LoopStart)
          /\ UNCHANGED stream
       \/ /\ rx["sub"] = "absent" \/ (QueuedStreams = {} /\ HasStrong)
          /\ Goto("poll_mail")
          /\ UNCHANGED <<rx, stream>>
    /\ UNCHANGED <<buf, waitq, term, callVars, held, histVars>>

\* Graceful stop begins: the subscribe channel is closed, the priority channel
\* is closed (waking its queued senders into a Send error) and drained.
PrioDue == {c \in PrioCalls : fate[c] = "queued" \/ stage[c] = "permit"}
BeginGraceful(why) ==
    /\ cause' = why
    /\ rx' = Closed(Closed(rx, "sub"), "prio")
    /\ pc' = IF rx["prio"] = "open" THEN "drain" ELSE "on_stop"
    /\ due' = PrioDue
    /\ UNCHANGED <<cur, result, term, letters, refVars,
                   passed, stalled, raced>>

PollMail ==
    /\ pc = "poll_mail"
    /\ \/ /\ buf["mail"] # <<>> /\ Op[Head(buf["mail"])] # "stop"
          /\ StartHandler("mail", "handler")
          /\ Serve("mail")
          /\ UNCHANGED <<due, stalled, raced>>
       \/ /\ buf["mail"] # <<>> /\ Op[Head(buf["mail"])] = "stop"
          /\ BeginGraceful("stop")
          /\ buf' = [buf EXCEPT !["mail"] = Tail(@)]
          /\ stage' = GrantHead("mail", stage)
          /\ waitq' = [PopWaiter("mail") EXCEPT !["prio"] = <<>>]
          /\ fate' = [fate EXCEPT ![Head(buf["mail"])] = "handled"]
       \/ /\ buf["mail"] = <<>> /\ ~HasStrong
          /\ BeginGraceful("refs")
          /\ waitq' = [waitq EXCEPT !["prio"] = <<>>]
          /\ UNCHANGED <<buf, stage, fate>>
       \/ /\ buf["mail"] = <<>> /\ HasStrong
          /\ Goto("poll_idle")
          /\ UNCHANGED <<chanVars, callVars, refVars, histVars>>

\* SelectAll yields an event, removes a stream that ended, or is pending.
PollIdle ==
    /\ pc = "poll_idle"
    /\ \/ /\ MergedStreams # {}
          /\ Goto("on_idle")
          /\ Serve("idle")
          /\ UNCHANGED stream
       \/ /\ \E s \in MergedStreams : stream' = [stream EXCEPT ![s] = "ended"]
          /\ UNCHANGED <<taskVars, passed>>
       \/ /\ Goto("parked")
          /\ UNCHANGED <<stream, passed>>
    /\ UNCHANGED <<chanVars, callVars, held, due, stalled, raced>>

\* Mutant: a push into the mailbox does not wake the parked task.
MutBranchReady == term > 0 \/ ~HasStrong \/ MergedStreams # {}

\* Every branch registered the task's waker: any of them becoming ready polls
\* the select! again from the top.
BranchReady ==
    \/ term > 0 \/ ~HasStrong \/ buf["mail"] # <<>> \/ MergedStreams # {}
    \/ rx["prio"] = "open" /\ buf["prio"] # <<>>
    \/ rx["sub"] = "open" /\ QueuedStreams # {}

Wake ==
    /\ pc = "parked" /\ BranchReady
    /\ Goto(LoopStart)
    /\ UNCHANGED <<chanVars, callVars, refVars, histVars>>

\* The handler returned: the reply is sent (or on_tell_result called) and the
\* envelope's ActorRef dropped.
HandlerDone ==
    /\ pc \in HandlerPcs
    /\ fate' = [fate EXCEPT ![cur] = "handled"]
    /\ cur' = Null
    /\ pc' = IF pc = "handler" THEN LoopStart ELSE "drain"
    /\ UNCHANGED <<cause, result, chanVars, stage, letters, refVars, histVars>>

OnIdleOk ==
    /\ pc = "on_idle"
    /\ Goto(LoopStart)
    /\ UNCHANGED <<chanVars, callVars, refVars, histVars>>

OnIdleErr ==
    /\ pc = "on_idle"
    /\ BeginStop("idle")
    /\ UNCHANGED <<term, histVars>>

-----------------------------------------------------------------------------
(* The graceful drain of the closed priority channel, and on_stop. *)

\* Mutant: the drain polls with try_recv and ends when the buffer is empty.
MutDrainOver == buf["prio"] = <<>>

\* recv() on a closed channel answers None only when the buffer is empty and
\* every permit has been returned.
DrainOver == buf["prio"] = <<>> /\ Permits("prio") = {}

Drain ==
    /\ pc = "drain"
    /\ \/ StartHandler("prio", "drain_handler")
       \/ /\ DrainOver
          /\ Goto("on_stop")
          /\ UNCHANGED <<chanVars, callVars, refVars>>
       \/ /\ buf["prio"] = <<>> /\ ~DrainOver
          /\ Goto("drain_wait")
          /\ UNCHANGED <<chanVars, callVars, refVars>>
    /\ UNCHANGED histVars

\* A push wakes the parked recv(); a returned permit does not.
DrainWake ==
    /\ pc = "drain_wait" /\ buf["prio"] # <<>>
    /\ Goto("drain")
    /\ UNCHANGED <<chanVars, callVars, refVars, histVars>>

\* Mutant: the drain awaits recv() with no bound.
MutQuietTimer == FALSE

\* PRIORITY_DRAIN_QUIET_PERIOD elapsed.  The timeout polls recv() before its
\* timer, so a push can still land between the two.
QuietTimer == pc = "drain_wait"
DrainQuiet ==
    /\ QuietTimer
    /\ Goto("on_stop")
    /\ stalled' = PrioDue
    /\ UNCHANGED <<chanVars, callVars, refVars, passed, due, raced>>

OnStopOk ==
    /\ pc = "on_stop"
    /\ Leave(IF cause = "idle" THEN Failed("OnIdle", FALSE)
             ELSE Completed(cause = "kill"))

OnStopErr ==
    /\ pc = "on_stop"
    /\ Leave(IF cause = "idle" THEN Failed("OnIdleThenOnStop", FALSE)
             ELSE Failed("OnStop", cause = "kill"))

-----------------------------------------------------------------------------
(* LifecycleChannels::drop and discard_queued_messages. *)

CloseTerm ==
    /\ pc = "close_term"
    /\ rx' = [rx EXCEPT !["term"] = "closed"]
    /\ Goto("close_mail")
    /\ UNCHANGED <<buf, waitq, term, callVars, refVars, histVars>>

\* close(): queued senders are woken into a Send error.
CloseBox(ch) ==
    /\ rx' = Closed(rx, ch)
    /\ waitq' = [waitq EXCEPT ![ch] = <<>>]
    /\ UNCHANGED <<buf, term, callVars, refVars, histVars>>

CloseMail == pc = "close_mail" /\ Goto("sweep_mail") /\ CloseBox("mail")
ClosePrio == pc = "close_prio" /\ Goto("sweep_prio") /\ CloseBox("prio")

\* Mutant: every discarded envelope is recorded.
MutRecordsDiscard(c) == Op[c] # "stop"
\* Mutant: a discarded tell is not recorded.
MutForgetsDiscard(c) == Op[c] = "ask" /\ stage[c] \in GivenUp

\* A discarded tell is recorded; so is an ask whose caller is gone.  An ask
\* whose caller still waits is left to the caller's ReplyDropped record.
RecordsDiscard(c) ==
    Op[c] = "tell" \/ (Op[c] = "ask" /\ stage[c] \in GivenUp)

SweepOne(ch) ==
    LET c == Head(buf[ch]) IN
    /\ buf[ch] # <<>>
    /\ buf' = [buf EXCEPT ![ch] = Tail(@)]
    /\ fate' = [fate EXCEPT ![c] = "swept"]
    /\ letters' = IF RecordsDiscard(c)
                  THEN Record(letters, c, "DiscardedAtShutdown") ELSE letters
    /\ UNCHANGED <<taskVars, rx, waitq, term, stage, refVars, histVars>>

SweepEnd(ch, label) ==
    /\ buf[ch] = <<>>
    /\ Goto(label)
    /\ UNCHANGED <<chanVars, callVars, refVars, histVars>>

\* Mutant: the priority channel is not drained.
MutAfterMailSweep == "close_sub"
AfterMailSweep == IF rx["prio"] = "absent" THEN "close_sub" ELSE "close_prio"
SweepMail == pc = "sweep_mail" /\ (SweepOne("mail") \/ SweepEnd("mail", AfterMailSweep))
SweepPrio == pc = "sweep_prio" /\ (SweepOne("prio") \/ SweepEnd("prio", "close_sub"))

CloseSub ==
    /\ pc = "close_sub"
    /\ rx' = Closed(rx, "sub")
    /\ stream' = [s \in Streams |->
                    IF s \in QueuedStreams THEN "lost" ELSE stream[s]]
    /\ Goto("drop_mail")
    /\ UNCHANGED <<buf, waitq, term, callVars, held, histVars>>

\* Dropping a receiver destroys what was pushed since its sweep.
DropRx(ch, label) ==
    /\ Goto(label)
    /\ rx' = [rx EXCEPT ![ch] = IF @ = "absent" THEN "absent" ELSE "gone"]
    /\ fate' = [c \in Calls |-> IF Chan[c] = ch /\ fate[c] = "queued"
                                THEN "dropped" ELSE fate[c]]
    /\ buf' = [buf EXCEPT ![ch] = <<>>]
    /\ UNCHANGED <<waitq, term, stage, letters, refVars, histVars>>

DropMail == pc = "drop_mail" /\ DropRx("mail", "drop_prio")
DropPrio == pc = "drop_prio" /\ DropRx("prio", "done")

-----------------------------------------------------------------------------
(* Task steps that need no luck: user hooks return Ok or Err, never hang. *)
TaskStep ==
    \/ FirstPoll \/ OnStartOk \/ OnStartErr
    \/ PollTerm \/ PollPrio \/ PollSub \/ PollMail \/ PollIdle \/ Wake
    \/ HandlerDone \/ OnIdleOk \/ OnIdleErr
    \/ Drain \/ DrainWake \/ DrainQuiet \/ OnStopOk \/ OnStopErr
    \/ CloseTerm \/ CloseMail \/ SweepMail \/ ClosePrio \/ SweepPrio
    \/ CloseSub \/ DropMail \/ DropPrio

CallStep(c) ==
    StartCall(c) \/ PollSend(c) \/ Push(c) \/ ReceiveReply(c) \/ TimeOut(c) \/ Cancel(c)

RefStep ==
    \/ Kill \/ DropRefs \/ Upgrade
    \/ \E s \in Streams : Subscribe(s) \/ SubscribePush(s)

Next ==
    \/ TaskStep
    \/ HookPanic
    \/ Abort
    \/ \E c \in Calls : CallStep(c)
    \/ RefStep

Spec == Init /\ [][Next]_vars

\* The runtime polls a ready task; hooks return; a call whose waker ran is
\* polled, and the push that follows a permit is in the same poll.
Fairness ==
    /\ WF_vars(TaskStep)
    /\ \A c \in Calls : /\ WF_vars(PollSend(c))
                        /\ WF_vars(Push(c))
                        /\ WF_vars(ReceiveReply(c))
    /\ \A s \in Streams : WF_vars(SubscribePush(s))

FairSpec == Spec /\ Fairness

-----------------------------------------------------------------------------
(* Properties *)

\* Every variable stays in its set: the states run_actor_lifecycle, the channel
\* receivers and the callers' futures can be in.
TypeOK ==
    /\ pc \in Pcs
    /\ cur \in Calls \cup {Null}
    /\ cause \in Causes
    /\ result \in Results
    /\ rx \in [Receivers -> RxStates]
    /\ buf \in [Mailboxes -> Seq(Calls)]
    /\ waitq \in [Mailboxes -> Seq(Calls)]
    /\ term \in {0, 1}
    /\ stage \in [Calls -> Stages]
    /\ fate \in [Calls -> Fates]
    /\ letters \in [Calls -> [Reasons -> Nat]]
    /\ held \in BOOLEAN
    /\ stream \in [Streams -> StreamStates]
    /\ passed \in [Items -> Nat]
    /\ due \subseteq Calls /\ stalled \subseteq Calls /\ raced \subseteq Calls

\* What a caller was told agrees with what became of its message: Ok from tell
\* means it was admitted, Ok from ask that its handler returned; Error::Send
\* and a tell's Error::Timeout mean it was never delivered, whichever side of
\* the close or of the deadline the semaphore's grant fell; Error::Receive
\* means the handler did not complete.
OutcomeMatchesFate ==
    \A c \in Calls :
      /\ stage[c] = "errSend" => fate[c] = "unsent"
      /\ stage[c] = "errTimeout" /\ Op[c] = "tell" => fate[c] = "unsent"
      /\ stage[c] = "ok" /\ Op[c] = "tell" => fate[c] # "unsent"
      /\ stage[c] = "ok" /\ Op[c] = "ask" => fate[c] = "handled"
      /\ stage[c] = "errReceive" => fate[c] \in ReplyDropped

\* No message is counted lost twice for one reason or by both sides: the
\* drain's DiscardedAtShutdown and the caller's ReplyDropped exclude each other,
\* and a discarded message never ran.  Only Timeout may accompany a discard.
NoDoubleCount ==
    \A c \in Calls :
      /\ \A r \in Reasons : letters[c][r] <= 1
      /\ letters[c]["DiscardedAtShutdown"] = 1 =>
           /\ fate[c] = "swept"
           /\ letters[c]["ReplyDropped"] = 0 /\ letters[c]["ActorStopped"] = 0

\* When the JoinHandle resolves, a tell whose sender saw Ok was handled, was
\* interrupted in its handler, or left a DiscardedAtShutdown record, unless its
\* push raced past the drain on a permit granted before.
NoSilentLoss ==
    pc = "done" =>
      \A c \in Calls : Op[c] = "tell" /\ stage[c] = "ok" =>
         \/ fate[c] \in {"handled", "broken"}
         \/ letters[c]["DiscardedAtShutdown"] = 1
         \/ c \in raced

\* The biased select!: while a message, a subscription or a Terminate waits at
\* a branch of higher priority, at most one message or idle event of a lower
\* branch is served, the one whose poll the arrival narrowly missed.
ServedOnceBelow == \A x \in Items : passed[x] <= 1

\* A graceful stop runs the handler of every priority message admitted, or
\* holding its permit, when the stop began; the exception is a sender stalled
\* between its permit and its push for the whole quiet window.
GracefulDrain ==
    result.how \in {"Completed", "Failed"} /\ cause \in {"stop", "refs"} =>
      \A c \in due : fate[c] = "handled" \/ c \in stalled

\* Every handler and hook has returned or been dropped, and none will run.
HooksAreOver == pc \in ShutdownPcs /\ cur = Null /\ result # Running

\* is_alive() turns false, wait_stopped() resolves (the mailbox is closed) and a
\* send to the regular mailbox gets Error::Send only when the hooks are over.
\* A priority send gets it from the moment a graceful stop begins, while the
\* drained handlers and on_stop still run, but never while the loop serves.
\* Once the task is over no envelope is left in a mailbox, and no message is
\* half handled.
StoppedIsQuiet ==
    /\ ~IsAlive => HooksAreOver
    /\ \A c \in Calls : stage[c] = "errSend" =>
         HooksAreOver \/ (Chan[c] = "prio" /\ pc \in StopPcs)
    /\ pc = "done" => \A c \in Calls : fate[c] \notin {"queued", "started"}

\* No slot is handed out twice, and a sender waits in the semaphore's queue
\* only while every slot is taken.
NobodyWaitsForFree(ch) ==
    /\ Len(buf[ch]) + Cardinality(Permits(ch)) <= Cap[ch]
    /\ \A c \in Calls : stage[c] = "wait" /\ Chan[c] = ch =>
         InQueue(waitq[ch], c) /\ Free(ch) = 0

\* A mailbox that is open never holds more than its capacity, and no sender
\* sleeps beside a free slot: whoever returns a permit, the task by popping or
\* a caller by giving up between its grant and its next poll, hands it on.
NoLostWakeup == \A ch \in Mailboxes : rx[ch] = "open" => NobodyWaitsForFree(ch)

\* Once kill() was accepted the task ends, given hooks that return.
KillEnds == term > 0 ~> pc = "done"

\* Once a stop signal was admitted, or no ActorRef is left, the task ends even
\* if the drain's last permit is returned without a wakeup.
StopEnds ==
    /\ \A c \in Calls : (Op[c] = "stop" /\ fate[c] = "queued") ~> pc = "done"
    /\ ~HasStrong ~> pc = "done"

\* A message accepted by the mailbox does not stay there: it is handled or it
\* leaves with the mailbox, and so every ask returns, unless it was pushed into
\* a channel whose receiver is gone.
AskReturns ==
    \A c \in Calls :
      stage[c] = "awaiting" ~> stage[c] # "awaiting" \/ fate[c] = "leaked"

\* A sender waiting for room is eventually admitted or told the box is closed.
SendReturns == \A c \in Calls : stage[c] \in Waiting ~> stage[c] \notin Waiting

-----------------------------------------------------------------------------
(* Statements of the documentation that the code does not keep.            *)

\* actor.rs, "Panics", and discard_queued_messages: an ask that was admitted
\* always returns, because dropping its envelope wakes the caller.
AdmittedAskReturns ==
    \A c \in Calls : stage[c] = "awaiting" ~> stage[c] # "awaiting"

\* DeadLetterReason::DiscardedAtShutdown: of an ask that was admitted and never
\* processed, either the drain leaves a record or the waiting caller does.
DiscardedAskIsRecorded ==
    \A c \in Calls :
      Op[c] = "ask" /\ fate[c] = "swept" /\ stage[c] \notin InFlight =>
        letters[c]["DiscardedAtShutdown"] + letters[c]["ReplyDropped"] >= 1
=============================================================================
