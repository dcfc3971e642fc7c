--------------------------- MODULE MCBlockingCalls ---------------------------
(* Instances of BlockingCalls for TLC.                                      *)
EXTENDS BlockingCallsContract

CONSTANTS c1, c2, c3

\* PRIORITY_CHANNEL_CAPACITY is 1, and one mailbox slot makes senders wait.
MCCap == [ch \in Mailboxes |-> 1]

\* c1 asks from a plain thread and keeps the actor busy, c2 is any call its
\* handler makes, c3 any call made from anywhere else.
MCReqs == [c \in Calls |->
    CASE c = c1 -> {[op |-> "blocking_ask", ctx |-> "thread", timed |-> FALSE]}
      [] c = c2 -> {r \in Requests : r.ctx = "handler"}
      [] OTHER -> {r \in Requests : r.ctx # "handler"}]
=============================================================================
