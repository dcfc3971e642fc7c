--------------------------- MODULE MessageContract ---------------------------
(***************************************************************************)
(* What an actor promises of its messages, whatever its task, channels,    *)
(* threads and callers do inside: handlers run one at a time, in admission *)
(* order per mailbox, only while the actor is up; nothing admitted is lost *)
(* while it is up; a tell succeeds exactly when its message is admitted,   *)
(* an ask exactly when its handler returned, and a caller that gives up    *)
(* before admission withdraws its message.                                 *)
(***************************************************************************)
EXTENDS Queues

CONSTANTS Calls, Mailboxes

VARIABLES
    op,     \* each call: "tell", "ask" or "stop"
    chan,   \* the mailbox it is for
    msg,    \* each message: "new", "admitted", "running", "done" or "lost"
    out,    \* what the caller knows: "pending", "ok", "failed"
    box,    \* the admitted messages of each mailbox, oldest first
    up      \* hooks and handlers may still run

vars == <<op, chan, msg, out, box, up>>

Ops == {"tell", "ask", "stop"}

Init ==
    /\ op \in [Calls -> Ops]
    /\ chan \in [Calls -> Mailboxes]
    /\ msg = [c \in Calls |-> "new"]
    /\ out = [c \in Calls |-> "pending"]
    /\ box = [m \in Mailboxes |-> <<>>]
    /\ up = TRUE

\* What a call is stays the caller's choice until its message is admitted.
Make(c) ==
    /\ msg[c] = "new" /\ out[c] = "pending"
    /\ \E o \in Ops : op' = [op EXCEPT ![c] = o]
    /\ \E m \in Mailboxes : chan' = [chan EXCEPT ![c] = m]
    /\ UNCHANGED <<msg, out, box, up>>

Admit(c) ==
    /\ msg[c] = "new" /\ out[c] = "pending"
    /\ out' = [out EXCEPT ![c] = IF op[c] = "ask" THEN "pending" ELSE "ok"]
    /\ \/ /\ msg' = [msg EXCEPT ![c] = "admitted"]
          /\ box' = [box EXCEPT ![chan[c]] = Append(@, c)]
       \/ /\ ~up
          /\ msg' = [msg EXCEPT ![c] = "lost"]
          /\ UNCHANGED box
    /\ UNCHANGED <<op, chan, up>>

\* Refused, timed out or cancelled before admission: never delivered.  A stop
\* needs no delivery when the actor is already going down.
Withdraw(c) ==
    /\ msg[c] = "new" /\ out[c] = "pending"
    /\ \/ out' = [out EXCEPT ![c] = "failed"]
       \/ op[c] = "stop" /\ ~up /\ out' = [out EXCEPT ![c] = "ok"]
    /\ UNCHANGED <<op, chan, msg, box, up>>

Run(m) ==
    /\ up /\ box[m] # <<>>
    /\ \A c \in Calls : msg[c] # "running"
    /\ msg' = [msg EXCEPT ![Head(box[m])] =
                 IF op[Head(box[m])] = "stop" THEN "done" ELSE "running"]
    /\ box' = [box EXCEPT ![m] = Tail(@)]
    /\ UNCHANGED <<op, chan, out, up>>

Finish(c) ==
    /\ msg[c] = "running"
    /\ msg' = [msg EXCEPT ![c] = "done"]
    /\ UNCHANGED <<op, chan, out, box, up>>

\* The actor ends, interrupting the handler that runs, if any.  What waits in a
\* mailbox is lost with it, or stays to be discarded.
GoDown ==
    /\ up /\ up' = FALSE
    /\ \E gone \in SUBSET Mailboxes :
         /\ msg' = [c \in Calls |->
                      IF \/ msg[c] = "running"
                         \/ msg[c] = "admitted" /\ chan[c] \in gone
                      THEN "lost" ELSE msg[c]]
         /\ box' = [m \in Mailboxes |-> IF m \in gone THEN <<>> ELSE box[m]]
    /\ UNCHANGED <<op, chan, out>>

\* What is admitted and not run is lost only after the actor ended.
Discard(m) ==
    /\ ~up
    /\ \E n \in 1..Len(box[m]) :
         /\ msg' = [c \in Calls |->
                      IF \E i \in 1..n : box[m][i] = c THEN "lost" ELSE msg[c]]
         /\ box' = [box EXCEPT ![m] = SubSeq(@, n + 1, Len(@))]
    /\ UNCHANGED <<op, chan, out, up>>

Answer(c) ==
    /\ op[c] = "ask" /\ out[c] = "pending"
    /\ \/ msg[c] = "done" /\ out' = [out EXCEPT ![c] = "ok"]
       \/ msg[c] # "new" /\ out' = [out EXCEPT ![c] = "failed"]
    /\ UNCHANGED <<op, chan, msg, box, up>>

Next ==
    \/ \E c \in Calls : Make(c) \/ Admit(c) \/ Withdraw(c) \/ Finish(c) \/ Answer(c)
    \/ \E m \in Mailboxes : Run(m) \/ Discard(m)
    \/ GoDown

Spec == Init /\ [][Next]_vars

(***************************************************************************)
(* What the promises come to                                               *)
(***************************************************************************)

\* c was admitted to d's mailbox before d, and both wait in it.
Ahead(c, d) ==
    \E i, j \in 1..Len(box[chan[d]]) :
        i < j /\ box[chan[d]][i] = c /\ box[chan[d]][j] = d

\* Nobody is handled while a message admitted to the same mailbox before it
\* waits, nor ever gets ahead of it (actor.rs, run_actor_lifecycle: what recv()
\* gives is handled before the next recv()).
NoOvertaking ==
    [][\A c, d \in Calls : Ahead(c, d) =>
          ~Ahead(d, c)' /\ ~(msg[d] = "admitted" /\ msg'[d] \in {"running", "done"})]_vars

OneAtATime == \A c, d \in Calls : msg[c] = "running" /\ msg[d] = "running" => c = d

LostOnlyWhenDown == \A c \in Calls : (msg[c] = "lost" => ~up) /\ (msg[c] = "running" => up)

\* Who awaits no reply knows whether its message was admitted, but for a stop
\* of an actor that is going down; an ask's Ok says that it was handled.
AnswersFit ==
    \A c \in Calls :
      /\ op[c] # "ask" => /\ out[c] # "ok" => msg[c] = "new"
                          /\ out[c] = "ok" => msg[c] # "new" \/ (op[c] = "stop" /\ ~up)
      /\ op[c] = "ask" /\ out[c] = "ok" => msg[c] = "done"

\* Each admitted message waits once, in its own mailbox, and nothing else does.
AdmittedWaitOnce ==
    \A m \in Mailboxes :
      /\ Distinct(box[m])
      /\ \A c \in Calls : InQueue(box[m], c) <=> msg[c] = "admitted" /\ chan[c] = m

Promises == OneAtATime /\ LostOnlyWhenDown /\ AnswersFit /\ AdmittedWaitOnce

TypeOK ==
    /\ op \in [Calls -> Ops]
    /\ chan \in [Calls -> Mailboxes]
    /\ msg \in [Calls -> {"new", "admitted", "running", "done", "lost"}]
    /\ out \in [Calls -> {"pending", "ok", "failed"}]
    /\ box \in [Mailboxes -> Seq(Calls)]
    /\ up \in BOOLEAN
=============================================================================
