--------------------------- MODULE MCActorRuntime ---------------------------
(* Instances of ActorRuntime for TLC: a handful of calls of chosen kinds.   *)
EXTENDS ActorRuntimeContract, ActorRuntimeInvariant

CONSTANTS t1, t2, a1, p1, p2, q1, s1, z1

\* t: tell, a: ask (regular mailbox); p: tell_priority, q: ask_priority;
\* s: stop; z: an idle stream.
MCOp == [c \in Calls |-> CASE c \in {t1, t2, p1, p2} -> "tell"
                           [] c \in {a1, q1} -> "ask"
                           [] OTHER -> "stop"]
MCChan == [c \in Calls |-> IF c \in {p1, p2, q1} THEN "prio" ELSE "mail"]

\* PRIORITY_CHANNEL_CAPACITY is 1.  One slot in the mailbox makes senders wait;
\* two let it hold a queue.
MCCap == [ch \in Mailboxes |-> 1]
MCCapMail2 == [ch \in Mailboxes |-> IF ch = "mail" THEN 2 ELSE 1]

\* Deadlines on the priority calls, as the API demands, and on t2.
MCTimed == [c \in Calls |-> c \in {p1, p2, q1, t2}]
=============================================================================
