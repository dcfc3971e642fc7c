----------------------- MODULE ActorRuntimeInvariant -----------------------
(***************************************************************************)
(* The inductive invariant behind the safety properties of ActorRuntime.   *)
(* No safety property of it is inductive by itself: each needs to know     *)
(* where a call stands in the mailboxes, the semaphores and the task, and  *)
(* how far the shutdown has come.                                          *)
(***************************************************************************)
EXTENDS ActorRuntime

\* A mailbox buffers exactly the envelopes that are queued in it, each once.
BufferHoldsQueued ==
    \A ch \in Mailboxes :
      /\ Distinct(buf[ch])
      /\ \A c \in Calls :
           InQueue(buf[ch], c) <=> fate[c] = "queued" /\ Chan[c] = ch

\* Only waiting senders stand in a semaphore's queue, each once.
QueuedWait(wq, st) ==
    \A ch \in Mailboxes :
      /\ Distinct(wq[ch])
      /\ \A c \in Calls : InQueue(wq[ch], c) => st[c] = "wait" /\ Chan[c] = ch

\* And close() empties the queue.
WaitersWait ==
    /\ QueuedWait(waitq, stage)
    /\ \A ch \in Mailboxes : rx[ch] # "open" => waitq[ch] = <<>>

\* What the caller's future has seen bounds where its message can be.
StageBoundsFate ==
    \A c \in Calls :
      /\ stage[c] \in {"idle", "wait", "granted", "permit", "errSend",
                       "errNotEnabled"} => fate[c] = "unsent"
      /\ stage[c] = "awaiting" => Op[c] = "ask" /\ fate[c] # "unsent"
      /\ stage[c] \in GivenUp /\ Op[c] # "ask" => fate[c] = "unsent"
      /\ stage[c] = "ok" /\ Op[c] = "tell" => fate[c] # "unsent"
      /\ stage[c] = "ok" /\ Op[c] = "ask" => fate[c] = "handled"
      /\ stage[c] = "errReceive" => Op[c] = "ask" /\ fate[c] \in ReplyDropped

\* The caller's records follow from its outcome, the drain's from the fate.
LettersMatch ==
    \A c \in Calls :
      /\ letters[c]["ActorStopped"] = IF stage[c] = "errSend" THEN 1 ELSE 0
      /\ letters[c]["Timeout"] = IF stage[c] = "errTimeout" THEN 1 ELSE 0
      /\ letters[c]["ReplyDropped"] = IF stage[c] = "errReceive" THEN 1 ELSE 0
      /\ letters[c]["DiscardedAtShutdown"] \in {0, 1}
      /\ letters[c]["DiscardedAtShutdown"] = 1 =>
           fate[c] = "swept" /\ (Op[c] = "tell" \/ stage[c] \in GivenUp)
      /\ fate[c] = "swept" /\ Op[c] = "tell" =>
           letters[c]["DiscardedAtShutdown"] = 1

OneHandler ==
    /\ cur # Null <=> pc \in HandlerPcs
    /\ \A c \in Calls : fate[c] = "started" <=> cur = c

\* How far the task has come fixes what senders see of each receiver.
ServingPcs == {"unpolled", "on_start", "on_idle", "handler"} \cup LoopPcs
ReceiversFollowTask ==
    /\ result = Running <=> pc \notin ShutdownPcs
    /\ rx["term"] = "open" <=> pc \notin ShutdownPcs \ {"close_term"}
    /\ rx["mail"] =
         IF pc \in {"drop_prio", "done"} THEN "gone"
         ELSE IF pc \in ShutdownPcs \ {"close_term", "close_mail"} THEN "closed"
         ELSE "open"
    /\ pc \in ServingPcs => rx["prio"] \in {"open", "absent"}
    /\ pc \in SweptPcs["prio"] \cup {"sweep_prio"} => rx["prio"] # "open"
    /\ rx["prio"] = "gone" <=> pc = "done" /\ rx["prio"] # "absent"

\* A channel the loop gave up on has nobody left to use it.
AbsentIsUnused ==
    /\ rx["prio"] = "absent" =>
         \A c \in PrioCalls : stage[c] \notin InFlight /\ fate[c] # "queued"
    /\ rx["sub"] = "absent" =>
         \A s \in Streams : stream[s] \notin {"permit", "queued"}

\* Who was refused had found the receiver closed, and it stays so.
RefusedIsClosed ==
    \A c \in Calls : stage[c] = "errSend" => rx[Chan[c]] \in {"closed", "gone"}

\* What the final drain of a mailbox did not pop raced past it.
MissedIsRaced ==
    \A c \in Calls :
      /\ fate[c] \in {"dropped", "leaked"} => c \in raced
      /\ fate[c] = "queued" /\ pc \in SweptPcs[Chan[c]] => c \in raced

\* A receiver that was dropped took its buffer along.
GoneIsEmpty ==
    \A c \in Calls : rx[Chan[c]] = "gone" => fate[c] # "queued"

\* The graceful drain keeps what it owes in reach until it has paid.
DrainPays ==
    /\ pc \in ServingPcs => due = {}
    /\ pc \in {"drain", "drain_wait", "drain_handler"} =>
         \A c \in due : fate[c] = "handled" \/ cur = c \/ c \in PrioDue
    /\ pc = "on_stop" \/ (/\ result.how \in {"Completed", "Failed"}
                          /\ cause \in {"stop", "refs"}) =>
         \A c \in due : fate[c] = "handled" \/ c \in stalled

\* What was overtaken once is served before a branch below it is polled.
PassedIsNext ==
    /\ \A x \in Items : passed[x] \in {0, 1}
    /\ passed["kill"] = 1 =>
         /\ pc \notin LoopPcs \ {"poll_term"}
         /\ pc \in ServingPcs => term > 0
    /\ \A c \in Calls : fate[c] = "unsent" => passed[c] = 0
    /\ \A s \in Streams : stream[s] \in {"new", "permit"} => passed[s] = 0
    /\ \A c \in Calls : passed[c] = 1 /\ fate[c] = "queued" =>
         pc \notin IF Chan[c] = "prio"
                   THEN {"poll_sub", "poll_mail", "poll_idle", "parked"}
                   ELSE {"poll_idle", "parked"}
    /\ \A s \in Streams : passed[s] = 1 /\ stream[s] = "queued" =>
         pc \notin {"poll_mail", "poll_idle", "parked"}

\* An open mailbox's slots are free, hold an envelope, or are some sender's
\* permit; a sender stands in the queue only while none is free.
SlotsAccounted ==
    \A ch \in Mailboxes :
      /\ IsFiniteSet(Permits(ch))
      /\ rx[ch] = "open" => NobodyWaitsForFree(ch)

\* The inductive invariant: it holds initially, every step of the task, the
\* callers and the holders of references preserves it, and it implies
\* OutcomeMatchesFate, NoDoubleCount, NoSilentLoss, ServedOnceBelow,
\* GracefulDrain, StoppedIsQuiet and NoLostWakeup.
IInv ==
    /\ TypeOK
    /\ BufferHoldsQueued /\ WaitersWait
    /\ StageBoundsFate /\ LettersMatch
    /\ OneHandler /\ ReceiversFollowTask /\ AbsentIsUnused
    /\ MissedIsRaced /\ GoneIsEmpty /\ DrainPays /\ PassedIsNext
    /\ RefusedIsClosed /\ SlotsAccounted
=============================================================================
