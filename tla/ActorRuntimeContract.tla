------------------------ MODULE ActorRuntimeContract ------------------------
(* ActorRuntime implements MessageContract under this refinement mapping.  *)
EXTENDS ActorRuntime

\* What the contract calls each fate of a message and each stage of a call.
MsgOf(f) == IF f = "unsent" THEN "new"
            ELSE IF f = "queued" THEN "admitted"
            ELSE IF f = "started" THEN "running"
            ELSE IF f = "handled" THEN "done" ELSE "lost"
ContractMsg == [c \in Calls |-> MsgOf(fate[c])]

OutOf(s) == IF s \in InFlight \cup {"idle"} THEN "pending"
            ELSE IF s = "ok" THEN "ok" ELSE "failed"
ContractOut == [c \in Calls |-> OutOf(stage[c])]

ContractUp == pc \notin ShutdownPcs

Contract == INSTANCE MessageContract
    WITH op <- Op, chan <- Chan, msg <- ContractMsg, out <- ContractOut,
         box <- buf, up <- ContractUp

\* Every behaviour of the task, the channels and the callers is a behaviour of
\* the contract: FIFO per mailbox, one handler at a time, no loss while the
\* actor is up, no handler after it is down, answers that match deliveries.
ImplementsContract == Contract!Spec
=============================================================================
