----------------------- MODULE BlockingCallsContract -----------------------
(* BlockingCalls implements MessageContract under this refinement mapping.  *)
EXTENDS BlockingCalls

\* The contract knows a call by whether it awaits a reply, and by its mailbox:
\* which thread makes it, and how that thread waits, are the detail.
OpOf(r) == IF r.op \in {"blocking_ask", "blocking_ask_priority"} THEN "ask" ELSE "tell"
ContractOp == [c \in Calls |-> OpOf(req[c])]

BoxOf(r) == IF r.op \in PrioOps THEN "prio" ELSE "mail"
ContractChan == [c \in Calls |-> BoxOf(req[c])]

MsgOf(f) == IF f = "unsent" THEN "new"
            ELSE IF f = "queued" THEN "admitted"
            ELSE IF f = "started" THEN "running"
            ELSE IF f = "handled" THEN "done" ELSE "lost"
ContractMsg == [c \in Calls |-> MsgOf(fate[c])]

OutOf(s) == IF s \in InCall \cup {"idle"} THEN "pending"
            ELSE IF s = "ok" THEN "ok" ELSE "failed"
ContractOut == [c \in Calls |-> OutOf(stage[c])]

ContractUp == loop # "down"

Contract == INSTANCE MessageContract
    WITH op <- ContractOp, chan <- ContractChan, msg <- ContractMsg,
         out <- ContractOut, box <- buf, up <- ContractUp

\* From whichever thread a call is made, and however that thread waits for it,
\* the actor keeps the promises that the async calls get: a message is admitted
\* in the order of its mailbox or withdrawn, handlers run one at a time, and
\* what the caller is told is what became of its message (actor_ref.rs, the
\* blocking_* family).
ImplementsContract == Contract!Spec
=============================================================================
