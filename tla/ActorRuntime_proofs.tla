------------------------ MODULE ActorRuntime_proofs ------------------------
(* Type correctness of ActorRuntime, its safety properties from the        *)
(* inductive invariant of ActorRuntimeInvariant, and that it implements    *)
(* MessageContract, for all sets of calls and streams, all capacities and  *)
(* all spawn options.                                                      *)
EXTENDS ActorRuntimeInvariant, ActorRuntimeContract, Queues_proofs,
        FiniteSetTheorems

\* Granting and popping a waiter keep the types of stage and waitq.
LEMMA GrantTypes ==
    ASSUME NEW ch \in Mailboxes, NEW st \in [Calls -> Stages],
           waitq \in [Mailboxes -> Seq(Calls)]
    PROVE  /\ GrantHead(ch, st) \in [Calls -> Stages]
           /\ PopWaiter(ch) \in [Mailboxes -> Seq(Calls)]
BY DEF GrantHead, PopWaiter, Stages, Waiting

\* An actor that was just spawned.
LEMMA InitTypes == Init => TypeOK
<1> SUFFICES ASSUME Init PROVE TypeOK
  OBVIOUS
<1> USE DEF Init
<1>1. rx \in [Receivers -> RxStates]
  BY DEF Receivers, RxStates
<1>2. buf \in [Mailboxes -> Seq(Calls)] /\ waitq \in [Mailboxes -> Seq(Calls)]
  BY EmptySeq
<1>3. letters \in [Calls -> [Reasons -> Nat]]
  OBVIOUS
<1>4. stage \in [Calls -> Stages] /\ fate \in [Calls -> Fates]
  BY DEF Stages, Fates
<1>5. result \in Results
  BY DEF Results, Running, Phases
<1> QED
  BY <1>1, <1>2, <1>3, <1>4, <1>5 DEF TypeOK, Pcs, Causes, StreamStates

\* Closing a receiver and recording a letter keep their types.
LEMMA ClosedType ==
    ASSUME NEW rs \in [Receivers -> RxStates], NEW r \in Receivers
    PROVE  Closed(rs, r) \in [Receivers -> RxStates]
BY DEF Closed, RxStates

\* One more dead letter.
LEMMA RecordType ==
    ASSUME letters \in [Calls -> [Reasons -> Nat]],
           NEW c \in Calls, NEW r \in Reasons
    PROVE  Record(letters, c, r) \in [Calls -> [Reasons -> Nat]]
BY DEF Record

\* No step of the task, of a caller or of another ActorRef holder leaves TypeOK.
LEMMA TypeStep == TypeOK /\ [Next]_vars => TypeOK'
<1> SUFFICES ASSUME TypeOK, [Next]_vars PROVE TypeOK'
    OBVIOUS
<1> USE DEF TypeOK, taskVars, chanVars, callVars, refVars, histVars
<1>1. ASSUME NEW c \in Calls, StartCall(c) PROVE TypeOK'
  <2>1. Chan[c] \in Mailboxes
    BY CallAssumption
  <2>5. "ActorStopped" \in Reasons
    BY DEF Reasons
  <2>2. letters' \in [Calls -> [Reasons -> Nat]]
    BY <1>1, <2>5, RecordType DEF StartCall, Refuse
  <2>6. Append(waitq[Chan[c]], c) \in Seq(Calls)
    BY <2>1, AppendProperties
  <2>3. waitq' \in [Mailboxes -> Seq(Calls)]
    BY <1>1, <2>1, <2>6 DEF StartCall, Refuse
  <2>4. stage' \in [Calls -> Stages]
    BY <1>1 DEF StartCall, Refuse, Stages, Waiting
  <2> QED BY <1>1, <2>2, <2>3, <2>4 DEF StartCall
<1>2. ASSUME NEW c \in Calls, PollSend(c) PROVE TypeOK'
  <2>3. Record(letters, c, "ActorStopped") \in [Calls -> [Reasons -> Nat]]
    BY RecordType DEF Reasons
  <2>1. letters' \in [Calls -> [Reasons -> Nat]] /\ waitq' = waitq
    BY <1>2, <2>3 DEF PollSend, Refuse
  <2>2. stage' \in [Calls -> Stages]
    BY <1>2 DEF PollSend, Refuse, Stages, Waiting
  <2> QED BY <1>2, <2>1, <2>2 DEF PollSend
<1>3. ASSUME NEW c \in Calls, Push(c) PROVE TypeOK'
  <2>4. Chan[c] \in Mailboxes /\ Append(buf[Chan[c]], c) \in Seq(Calls)
    BY CallAssumption, AppendProperties
  <2>1. buf' \in [Mailboxes -> Seq(Calls)]
    BY <1>3, <2>4 DEF Push
  <2>2. stage' \in [Calls -> Stages] /\ fate' \in [Calls -> Fates]
    BY <1>3 DEF Push, Stages, Fates
  <2>3. raced' \subseteq Calls
    BY <1>3 DEF Push
  <2> QED BY <1>3, <2>1, <2>2, <2>3 DEF Push
<1>4. ASSUME NEW c \in Calls, ReceiveReply(c) PROVE TypeOK'
  <2>2. Record(letters, c, "ReplyDropped") \in [Calls -> [Reasons -> Nat]]
    BY RecordType DEF Reasons
  <2>1. letters' \in [Calls -> [Reasons -> Nat]]
    BY <1>4, <2>2 DEF ReceiveReply
  <2> QED BY <1>4, <2>1 DEF ReceiveReply, Stages
<1>5. ASSUME NEW c \in Calls, TimeOut(c) \/ Cancel(c) PROVE TypeOK'
  <2>1. letters' \in [Calls -> [Reasons -> Nat]]
    BY <1>5, RecordType DEF TimeOut, Cancel, Reasons
  <2>2. PICK out \in GivenUp : DropFuture(c, out)
    BY <1>5 DEF TimeOut, Cancel, GivenUp
  <2>3. [stage EXCEPT ![c] = out] \in [Calls -> Stages]
    BY DEF Stages
  <2>6. /\ Chan[c] \in Mailboxes /\ Without(waitq[Chan[c]], c) \in Seq(Calls)
        /\ PopWaiter(Chan[c]) \in [Mailboxes -> Seq(Calls)]
        /\ GrantHead(Chan[c], [stage EXCEPT ![c] = out]) \in [Calls -> Stages]
    BY <2>3, GrantTypes, WithoutType, CallAssumption
  <2>4. stage' \in [Calls -> Stages]
    BY <2>2, <2>3, <2>6 DEF DropFuture
  <2>5. waitq' \in [Mailboxes -> Seq(Calls)]
    BY <2>2, <2>6 DEF DropFuture
  <2> QED BY <2>1, <2>2, <2>4, <2>5 DEF DropFuture
<1>6. CASE Kill
  BY <1>6 DEF Kill
<1>7. CASE DropRefs \/ Upgrade
  BY <1>7 DEF DropRefs, Upgrade
<1>8. ASSUME NEW s \in Streams, Subscribe(s) \/ SubscribePush(s) PROVE TypeOK'
  BY <1>8 DEF Subscribe, SubscribePush, StreamStates
<1>9. CASE FirstPoll \/ OnStartOk
  BY <1>9 DEF FirstPoll, OnStartOk, Goto, LoopStart, Pcs, LoopPcs, StreamStates
<1>10. CASE OnStartErr \/ HookPanic \/ Abort \/ OnStopOk \/ OnStopErr
  <2>1. PICK res \in Results : Leave(res)
    BY <1>10 DEF OnStartErr, HookPanic, Abort, OnStopOk, OnStopErr,
                 Completed, Failed, JoinError, Results, Phases
  <2>2. fate' \in [Calls -> Fates]
    BY <2>1 DEF Leave, Fates
  <2>3. stream' \in [Streams -> StreamStates]
    BY <2>1 DEF Leave, StreamStates
  <2> QED BY <2>1, <2>2, <2>3 DEF Leave, Pcs, ShutdownPcs
<1>11. CASE PollTerm \/ OnIdleErr
  <2>1. rx' \in [Receivers -> RxStates]
    BY <1>11, ClosedType DEF PollTerm, OnIdleErr, BeginStop, Receivers
  <2> QED BY <1>11, <2>1 DEF PollTerm, OnIdleErr, BeginStop, Goto, Pcs, StopPcs,
                             LoopPcs, Causes
<1>12. ASSUME NEW ch \in Mailboxes, NEW label \in Pcs, StartHandler(ch, label)
       PROVE  /\ pc' \in Pcs /\ cur' \in Calls
              /\ buf' \in [Mailboxes -> Seq(Calls)]
              /\ waitq' \in [Mailboxes -> Seq(Calls)]
              /\ stage' \in [Calls -> Stages] /\ fate' \in [Calls -> Fates]
              /\ UNCHANGED <<cause, result, rx, term, letters, refVars>>
  <2>1. Head(buf[ch]) \in Calls /\ Tail(buf[ch]) \in Seq(Calls)
    BY <1>12, HeadTailProperties DEF StartHandler
  <2> QED BY <1>12, <2>1, GrantTypes DEF StartHandler, TakeHead, Fates
<1>13. ASSUME NEW b, Serve(b) PROVE passed' \in [Items -> Nat]
  BY <1>13 DEF Serve
<1>14. CASE PollPrio
  <2>1. CASE StartHandler("prio", "handler") /\ Serve("prio")
    <3>1. "handler" \in Pcs /\ "prio" \in Mailboxes
      BY DEF Pcs, HandlerPcs, Mailboxes
    <3> QED BY <1>14, <2>1, <3>1, <1>12, <1>13 DEF PollPrio
  <2>2. CASE ~(StartHandler("prio", "handler") /\ Serve("prio"))
    BY <1>14, <2>2 DEF PollPrio, Goto, LoopStart, Pcs, LoopPcs, Receivers, RxStates
  <2> QED BY <2>1, <2>2
<1>15. CASE PollSub
  BY <1>15 DEF PollSub, Goto, LoopStart, Pcs, LoopPcs, Receivers, RxStates,
               QueuedStreams, StreamStates
<1>16. ASSUME NEW why \in Causes, BeginGraceful(why)
       PROVE  /\ pc' \in Pcs /\ cause' \in Causes /\ due' \subseteq Calls
              /\ rx' \in [Receivers -> RxStates]
              /\ UNCHANGED <<cur, result, term, letters, refVars,
                             passed, stalled, raced>>
  <2>1. Closed(rx, "sub") \in [Receivers -> RxStates]
    BY ClosedType DEF Receivers
  <2>2. rx' \in [Receivers -> RxStates]
    BY <1>16, <2>1, ClosedType DEF BeginGraceful, Receivers
  <2> QED BY <1>16, <2>2 DEF BeginGraceful, PrioDue, PrioCalls, Pcs, StopPcs
<1>17. CASE PollMail
  <2>1. CASE StartHandler("mail", "handler") /\ Serve("mail")
             /\ UNCHANGED <<due, stalled, raced>>
    <3>1. "handler" \in Pcs /\ "mail" \in Mailboxes
      BY DEF Pcs, HandlerPcs, Mailboxes
    <3> QED BY <2>1, <3>1, <1>12, <1>13
  <2>2. CASE /\ BeginGraceful("stop") /\ buf["mail"] # <<>>
             /\ buf' = [buf EXCEPT !["mail"] = Tail(@)]
             /\ stage' = GrantHead("mail", stage)
             /\ waitq' = [PopWaiter("mail") EXCEPT !["prio"] = <<>>]
             /\ fate' = [fate EXCEPT ![Head(buf["mail"])] = "handled"]
    <3>1. Head(buf["mail"]) \in Calls /\ Tail(buf["mail"]) \in Seq(Calls)
      BY <2>2, HeadTailProperties DEF Mailboxes
    <3>2. buf' \in [Mailboxes -> Seq(Calls)] /\ fate' \in [Calls -> Fates]
      BY <2>2, <3>1 DEF Fates
    <3>3. stage' \in [Calls -> Stages] /\ waitq' \in [Mailboxes -> Seq(Calls)]
      BY <2>2, GrantTypes, EmptySeq DEF Mailboxes
    <3>4. "stop" \in Causes
      BY DEF Causes
    <3> QED BY <2>2, <3>2, <3>3, <3>4, <1>16
  <2>3. CASE /\ BeginGraceful("refs")
             /\ waitq' = [waitq EXCEPT !["prio"] = <<>>]
             /\ UNCHANGED <<buf, stage, fate>>
    <3>1. "refs" \in Causes /\ waitq' \in [Mailboxes -> Seq(Calls)]
      BY <2>3, EmptySeq DEF Causes
    <3> QED BY <2>3, <3>1, <1>16
  <2>4. CASE Goto("poll_idle") /\ UNCHANGED <<chanVars, callVars, refVars, histVars>>
    BY <2>4 DEF Goto, Pcs, LoopPcs
  <2> QED BY <1>17, <2>1, <2>2, <2>3, <2>4 DEF PollMail
<1>18. CASE PollIdle
  BY <1>18, <1>13 DEF PollIdle, Goto, Pcs, LoopPcs, MergedStreams, StreamStates
<1>19. CASE Wake \/ HandlerDone \/ OnIdleOk \/ DrainWake
  BY <1>19 DEF Wake, HandlerDone, OnIdleOk, DrainWake, Goto, LoopStart, Pcs,
               LoopPcs, StopPcs, Fates
<1>20. CASE Drain
  <2>1. "prio" \in Mailboxes /\ {"drain_handler", "on_stop", "drain_wait"} \subseteq Pcs
    BY DEF Mailboxes, Pcs, StopPcs
  <2> QED BY <1>20, <2>1, <1>12 DEF Drain, Goto
<1>21. CASE DrainQuiet
  BY <1>21 DEF DrainQuiet, Goto, PrioDue, PrioCalls, Pcs, StopPcs
<1>22. CASE CloseTerm \/ CloseMail \/ ClosePrio
  <2>1. rx' \in [Receivers -> RxStates] /\ pc' \in Pcs
    BY <1>22, ClosedType DEF CloseTerm, CloseMail, ClosePrio, CloseBox, Goto,
       Receivers, RxStates, Pcs, ShutdownPcs
  <2>2. waitq' \in [Mailboxes -> Seq(Calls)]
    BY <1>22, EmptySeq DEF CloseTerm, CloseMail, ClosePrio, CloseBox
  <2> QED BY <1>22, <2>1, <2>2 DEF CloseTerm, CloseMail, ClosePrio, CloseBox, Goto
<1>23. CASE SweepMail \/ SweepPrio
  <2>1. ASSUME NEW ch \in Mailboxes, SweepOne(ch) PROVE TypeOK'
    <3>1. Head(buf[ch]) \in Calls /\ Tail(buf[ch]) \in Seq(Calls)
      BY <2>1, HeadTailProperties DEF SweepOne
    <3>2. letters' \in [Calls -> [Reasons -> Nat]]
      BY <2>1, <3>1, RecordType DEF SweepOne, Reasons
    <3> QED BY <2>1, <3>1, <3>2 DEF SweepOne, Fates
  <2>2. ASSUME NEW ch, NEW label \in Pcs, SweepEnd(ch, label) PROVE TypeOK'
    BY <2>2 DEF SweepEnd, Goto
  <2>3. {"mail", "prio"} \subseteq Mailboxes /\ {"close_sub", "close_prio"} \subseteq Pcs
    BY DEF Mailboxes, Pcs, ShutdownPcs
  <2> QED BY <1>23, <2>1, <2>2, <2>3 DEF SweepMail, SweepPrio, AfterMailSweep
<1>24. CASE CloseSub
  <2>1. rx' \in [Receivers -> RxStates]
    BY <1>24, ClosedType DEF CloseSub, Receivers
  <2> QED BY <1>24, <2>1 DEF CloseSub, Goto, Pcs, ShutdownPcs, StreamStates
<1>25. CASE DropMail \/ DropPrio
  <2>1. PICK ch \in Mailboxes, label \in {"drop_prio", "done"} : DropRx(ch, label)
    BY <1>25 DEF DropMail, DropPrio, Mailboxes
  <2>2. buf' \in [Mailboxes -> Seq(Calls)]
    BY <2>1, EmptySeq DEF DropRx
  <2>3. fate' \in [Calls -> Fates]
    BY <2>1 DEF DropRx, Fates
  <2>4. rx' \in [Receivers -> RxStates]
    BY <2>1 DEF DropRx, RxStates
  <2> QED BY <2>1, <2>2, <2>3, <2>4 DEF DropRx, Goto, Pcs, ShutdownPcs
<1>26. CASE UNCHANGED vars
  BY <1>26 DEF vars
<1> QED
  BY <1>1, <1>2, <1>3, <1>4, <1>5, <1>6, <1>7, <1>8, <1>9, <1>10, <1>11,
     <1>14, <1>15, <1>17, <1>18, <1>19, <1>20, <1>21, <1>22, <1>23, <1>24,
     <1>25, <1>26 DEF Next, TaskStep, CallStep, RefStep

\* For all constants, every reachable state is well typed.
THEOREM TypeCorrect == Spec => []TypeOK
BY InitTypes, TypeStep, PTL DEF Spec

-----------------------------------------------------------------------------
(* What the shared operators do to the mailboxes and the semaphores *)

\* A released permit goes to one waiting sender, who leaves the queue.
LEMMA GrantEffect ==
    ASSUME waitq \in [Mailboxes -> Seq(Calls)], NEW st \in [Calls -> Stages],
           NEW ch \in Mailboxes, QueuedWait(waitq, st)
    PROVE  /\ \A c \in Calls :
                \/ GrantHead(ch, st)[c] = st[c]
                \/ st[c] = "wait" /\ GrantHead(ch, st)[c] = "granted" /\ Chan[c] = ch
           /\ QueuedWait(PopWaiter(ch), GrantHead(ch, st))
           /\ \A m \in Mailboxes : waitq[m] = <<>> => PopWaiter(ch)[m] = <<>>
<1>1. CASE waitq[ch] = <<>>
  BY <1>1 DEF GrantHead, PopWaiter
<1>2. CASE waitq[ch] # <<>>
  <2> DEFINE h == Head(waitq[ch])
  <2>1. waitq[ch] \in Seq(Calls) /\ Distinct(waitq[ch])
    BY DEF QueuedWait
  <2>2. /\ h \in Calls /\ InQueue(waitq[ch], h)
        /\ Distinct(Tail(waitq[ch])) /\ Tail(waitq[ch]) \in Seq(Calls)
        /\ \A d : InQueue(Tail(waitq[ch]), d) <=> InQueue(waitq[ch], d) /\ d # h
    BY <1>2, <2>1, TailQueue
  <2>3. st[h] = "wait" /\ Chan[h] = ch
    BY <2>2 DEF QueuedWait
  <2> HIDE DEF h
  <2>4. GrantHead(ch, st) = [st EXCEPT ![h] = "granted"]
    BY <1>2 DEF GrantHead, h
  <2>5. PopWaiter(ch) = [waitq EXCEPT ![ch] = Tail(@)]
    BY <1>2 DEF PopWaiter
  <2>6. \A m \in Mailboxes, c \in Calls :
          InQueue(PopWaiter(ch)[m], c) => InQueue(waitq[m], c) /\ c # h
    BY <2>2, <2>3, <2>5 DEF QueuedWait
  <2>7. QueuedWait(PopWaiter(ch), GrantHead(ch, st))
    BY <2>2, <2>4, <2>5, <2>6 DEF QueuedWait
  <2> QED BY <1>2, <2>2, <2>3, <2>4, <2>5, <2>7
<1> QED BY <1>1, <1>2

\* close() changes one open receiver and no other.
LEMMA ClosedEffect ==
    ASSUME NEW rs \in [Receivers -> RxStates], NEW r \in Receivers
    PROVE  /\ Closed(rs, r) \in [Receivers -> RxStates]
           /\ Closed(rs, r)[r] = IF rs[r] = "open" THEN "closed" ELSE rs[r]
           /\ \A m \in Receivers : m # r => Closed(rs, r)[m] = rs[m]
BY ClosedType DEF Closed

\* Popping the first envelope and moving its message on.
LEMMA TakeEffect ==
    ASSUME TypeOK, BufferHoldsQueued, NEW ch \in Mailboxes, buf[ch] # <<>>,
           NEW f, f # "queued",
           buf' = [buf EXCEPT ![ch] = Tail(@)],
           fate' = [fate EXCEPT ![Head(buf[ch])] = f]
    PROVE  /\ Head(buf[ch]) \in Calls /\ Chan[Head(buf[ch])] = ch
           /\ fate[Head(buf[ch])] = "queued"
           /\ BufferHoldsQueued'
<1> DEFINE h == Head(buf[ch])
<1>1. buf[ch] \in Seq(Calls) /\ Distinct(buf[ch]) /\ fate \in [Calls -> Fates]
  BY DEF TypeOK, BufferHoldsQueued
<1>2. /\ h \in Calls /\ InQueue(buf[ch], h)
      /\ Distinct(Tail(buf[ch]))
      /\ \A d : InQueue(Tail(buf[ch]), d) <=> InQueue(buf[ch], d) /\ d # h
  BY <1>1, TailQueue
<1>3. fate[h] = "queued" /\ Chan[h] = ch
  BY <1>2 DEF BufferHoldsQueued
<1> HIDE DEF h
<1>4. fate' = [fate EXCEPT ![h] = f] /\ buf \in [Mailboxes -> Seq(Calls)]
  BY DEF h, TypeOK
<1>5. BufferHoldsQueued'
  BY <1>1, <1>2, <1>3, <1>4 DEF BufferHoldsQueued
<1> QED BY <1>2, <1>3, <1>5 DEF h

-----------------------------------------------------------------------------
(* Each part of the invariant is preserved *)

\* An envelope enters a mailbox once, by its push, and leaves it by a pop.
LEMMA BufferStep ==
    ASSUME TypeOK, BufferHoldsQueued, StageBoundsFate, OneHandler, [Next]_vars
    PROVE  BufferHoldsQueued'
<1> USE DEF callVars, chanVars, taskVars, refVars
<1>1. ASSUME UNCHANGED <<buf, fate>> PROVE BufferHoldsQueued'
  BY <1>1 DEF BufferHoldsQueued
<1>2. ASSUME NEW c \in Calls, Push(c) PROVE BufferHoldsQueued'
  <2>1. /\ fate \in [Calls -> Fates] /\ buf \in [Mailboxes -> Seq(Calls)]
        /\ fate[c] = "unsent" /\ Chan[c] \in Mailboxes
    BY <1>2, CallAssumption DEF TypeOK, Push, StageBoundsFate
  <2>2. /\ Distinct(Append(buf[Chan[c]], c))
        /\ \A d : InQueue(Append(buf[Chan[c]], c), d) <=> InQueue(buf[Chan[c]], d) \/ d = c
    BY <2>1, AppendQueue DEF BufferHoldsQueued
  <2>3. CASE fate' = [fate EXCEPT ![c] = "leaked"] /\ UNCHANGED buf
    BY <2>1, <2>3 DEF BufferHoldsQueued
  <2>4. CASE /\ fate' = [fate EXCEPT ![c] = "queued"]
             /\ buf' = [buf EXCEPT ![Chan[c]] = Append(@, c)]
    BY <2>1, <2>2, <2>4 DEF BufferHoldsQueued
  <2> QED BY <1>2, <2>3, <2>4 DEF Push
<1>3. ASSUME NEW f, f # "queued", UNCHANGED buf,
             fate' = IF cur = Null THEN fate ELSE [fate EXCEPT ![cur] = f]
      PROVE  BufferHoldsQueued'
  <2>1. fate \in [Calls -> Fates] /\ (cur # Null => cur \in Calls /\ fate[cur] # "queued")
    BY DEF TypeOK, OneHandler
  <2> QED BY <1>3, <2>1 DEF BufferHoldsQueued
<1>4. ASSUME NEW ch \in Mailboxes, NEW label, StartHandler(ch, label)
      PROVE  BufferHoldsQueued'
  BY <1>4, TakeEffect DEF StartHandler, TakeHead
<1>5. ASSUME NEW ch \in Mailboxes, SweepOne(ch) PROVE BufferHoldsQueued'
  BY <1>5, TakeEffect DEF SweepOne
<1>6. ASSUME NEW ch \in Mailboxes, NEW label, DropRx(ch, label)
      PROVE  BufferHoldsQueued'
  <2>1. fate \in [Calls -> Fates] /\ buf \in [Mailboxes -> Seq(Calls)]
    BY DEF TypeOK
  <2> QED BY <1>6, <2>1, EmptyQueue DEF DropRx, BufferHoldsQueued
<1>7. "mail" \in Mailboxes /\ "prio" \in Mailboxes
  BY DEF Mailboxes
<1>8. CASE OnStartErr \/ HookPanic \/ Abort \/ OnStopOk \/ OnStopErr
  BY <1>8, <1>3 DEF OnStartErr, HookPanic, Abort, OnStopOk, OnStopErr, Leave
<1>9. CASE HandlerDone
  <2>1. cur # Null
    BY <1>9 DEF HandlerDone, OneHandler
  <2> QED BY <1>9, <2>1, <1>3 DEF HandlerDone
<1>10. CASE PollPrio \/ Drain
  BY <1>10, <1>1, <1>4, <1>7 DEF PollPrio, Drain
<1>11. CASE PollMail
  <2>1. CASE StartHandler("mail", "handler")
    BY <2>1, <1>4, <1>7
  <2>2. CASE /\ buf["mail"] # <<>>
             /\ buf' = [buf EXCEPT !["mail"] = Tail(@)]
             /\ fate' = [fate EXCEPT ![Head(buf["mail"])] = "handled"]
    BY <2>2, <1>7, TakeEffect
  <2> QED BY <1>11, <1>1, <2>1, <2>2 DEF PollMail
<1>12. CASE SweepMail \/ SweepPrio
  BY <1>12, <1>1, <1>5, <1>7 DEF SweepMail, SweepPrio, SweepEnd
<1>13. CASE DropMail \/ DropPrio
  BY <1>13, <1>6, <1>7 DEF DropMail, DropPrio
<1>14. ASSUME NEW c \in Calls,
              StartCall(c) \/ PollSend(c) \/ ReceiveReply(c) \/ TimeOut(c) \/ Cancel(c)
       PROVE  BufferHoldsQueued'
  BY <1>14, <1>1 DEF StartCall, PollSend, ReceiveReply, TimeOut, Cancel, DropFuture
<1>15. CASE RefStep
  BY <1>15, <1>1 DEF RefStep, Kill, DropRefs, Upgrade, Subscribe, SubscribePush
<1>16. CASE \/ FirstPoll \/ OnStartOk \/ PollTerm \/ PollSub \/ PollIdle \/ Wake
            \/ OnIdleOk \/ OnIdleErr \/ DrainWake \/ DrainQuiet
            \/ CloseTerm \/ CloseMail \/ ClosePrio \/ CloseSub
  BY <1>16, <1>1 DEF FirstPoll, OnStartOk, PollTerm, PollSub, PollIdle, Wake,
     OnIdleOk, OnIdleErr, DrainWake, DrainQuiet, CloseTerm, CloseMail, ClosePrio,
     CloseSub, CloseBox, BeginStop
<1>17. CASE UNCHANGED vars
  BY <1>17, <1>1 DEF vars
<1> QED BY <1>2, <1>8, <1>9, <1>10, <1>11, <1>12, <1>13, <1>14, <1>15, <1>16,
           <1>17 DEF Next, TaskStep, CallStep

\* A sender joins a semaphore's queue as it starts to wait, and leaves it when
\* it is granted, withdrawn, or woken by close().
LEMMA WaitersStep ==
    ASSUME TypeOK, WaitersWait, ReceiversFollowTask, [Next]_vars
    PROVE  WaitersWait'
<1> USE DEF callVars, chanVars, taskVars, refVars
<1>1. "mail" \in Mailboxes /\ "prio" \in Mailboxes /\ "term" \notin Mailboxes
      /\ "sub" \notin Mailboxes
  BY DEF Mailboxes
<1>2. /\ stage \in [Calls -> Stages] /\ waitq \in [Mailboxes -> Seq(Calls)]
      /\ Chan \in [Calls -> Mailboxes] /\ rx \in [Receivers -> RxStates]
      /\ QueuedWait(waitq, stage)
      /\ \A ch \in Mailboxes : rx[ch] # "open" => waitq[ch] = <<>>
  BY CallAssumption DEF TypeOK, WaitersWait
<1>3. ASSUME waitq' = waitq,
             \A c \in Calls, ch \in Mailboxes : InQueue(waitq[ch], c) => stage'[c] = "wait",
             \A ch \in Mailboxes : rx'[ch] # "open" => waitq[ch] = <<>>
      PROVE  WaitersWait'
  BY <1>2, <1>3 DEF WaitersWait, QueuedWait
<1>4. ASSUME UNCHANGED <<stage, waitq>>, \A ch \in Mailboxes : rx'[ch] = rx[ch]
      PROVE  WaitersWait'
  BY <1>2, <1>4 DEF WaitersWait
<1>5. ASSUME NEW c \in Calls, StartCall(c) PROVE WaitersWait'
  <2>1. \A ch \in Mailboxes : ~InQueue(waitq[ch], c)
    BY <1>2, <1>5 DEF QueuedWait, StartCall
  <2>2. CASE waitq' = waitq
    <3>1. \A d \in Calls : d # c => stage'[d] = stage[d]
      BY <1>2, <1>5 DEF StartCall, Refuse
    <3>2. rx' = rx
      BY <1>5 DEF StartCall
    <3> QED BY <1>2, <1>3, <2>1, <2>2, <3>1, <3>2 DEF QueuedWait
  <2>3. CASE /\ rx[Chan[c]] = "open"
             /\ stage' = [stage EXCEPT ![c] = "wait"]
             /\ waitq' = [waitq EXCEPT ![Chan[c]] = Append(@, c)]
    <3>1. Chan[c] \in Mailboxes /\ rx' = rx /\ Distinct(waitq[Chan[c]])
      BY <1>2, <1>5 DEF StartCall, QueuedWait
    <3>2. /\ Distinct(Append(waitq[Chan[c]], c))
          /\ \A d : InQueue(Append(waitq[Chan[c]], c), d)
                      <=> InQueue(waitq[Chan[c]], d) \/ d = c
      BY <1>2, <2>1, <3>1, AppendQueue
    <3>3. QueuedWait(waitq', stage')
      BY <1>2, <2>3, <3>1, <3>2 DEF QueuedWait
    <3>4. \A ch \in Mailboxes : rx[ch] # "open" => waitq'[ch] = <<>>
      BY <1>2, <2>3
    <3> QED BY <3>1, <3>3, <3>4 DEF WaitersWait
  <2> QED BY <1>5, <2>2, <2>3 DEF StartCall, Refuse
<1>6. ASSUME NEW c \in Calls, PollSend(c) \/ Push(c) \/ ReceiveReply(c)
      PROVE  WaitersWait'
  <2>1. /\ waitq' = waitq /\ rx' = rx
        /\ \A d \in Calls : d # c => stage'[d] = stage[d]
    BY <1>2, <1>6 DEF PollSend, Push, ReceiveReply, Refuse
  <2>2. \A ch \in Mailboxes : ~InQueue(waitq[ch], c)
    <3>1. CASE stage[c] # "wait"
      BY <3>1, <1>2 DEF QueuedWait
    <3>2. CASE waitq[Chan[c]] = <<>>
      BY <3>2, <1>2, EmptyQueue DEF QueuedWait
    <3> QED BY <1>2, <1>6, <3>1, <3>2 DEF PollSend, Push, ReceiveReply
  <2> QED BY <1>2, <1>3, <2>1, <2>2 DEF QueuedWait
<1>7. ASSUME NEW c \in Calls, NEW out \in GivenUp, DropFuture(c, out)
      PROVE  WaitersWait'
  <2> DEFINE st == [stage EXCEPT ![c] = out]
  <2>1. st \in [Calls -> Stages] /\ Chan[c] \in Mailboxes /\ rx' = rx
    BY <1>2, <1>7 DEF Stages, DropFuture
  <2>2. CASE stage[c] = "granted" /\ rx[Chan[c]] = "open"
    <3>1. QueuedWait(waitq, st)
      BY <1>2, <2>2 DEF QueuedWait
    <3>2. stage' = GrantHead(Chan[c], st) /\ waitq' = PopWaiter(Chan[c])
      BY <1>7, <2>2 DEF DropFuture
    <3> HIDE DEF st
    <3> QED BY <1>2, <2>1, <3>1, <3>2, GrantEffect DEF WaitersWait
  <2>3. CASE ~(stage[c] = "granted" /\ rx[Chan[c]] = "open")
    <3>1. stage' = st /\ waitq' = [waitq EXCEPT ![Chan[c]] = Without(@, c)]
      BY <1>7, <2>3 DEF DropFuture
    <3>2. /\ Distinct(Without(waitq[Chan[c]], c))
          /\ \A d : InQueue(Without(waitq[Chan[c]], c), d)
                      <=> InQueue(waitq[Chan[c]], d) /\ d # c
      BY <1>2, <2>1, WithoutQueue DEF QueuedWait
    <3>3. QueuedWait(waitq', stage')
      BY <1>2, <2>1, <3>1, <3>2 DEF QueuedWait
    <3>4. waitq[Chan[c]] = <<>> => Without(waitq[Chan[c]], c) = <<>>
      BY DEF Without
    <3>5. \A ch \in Mailboxes : rx[ch] # "open" => waitq'[ch] = <<>>
      BY <1>2, <3>1, <3>4
    <3> QED BY <2>1, <3>3, <3>5 DEF WaitersWait
  <2> QED BY <2>2, <2>3
<1>8. ASSUME NEW c \in Calls, TimeOut(c) \/ Cancel(c) PROVE WaitersWait'
  BY <1>7, <1>8 DEF TimeOut, Cancel, GivenUp
<1>9. ASSUME NEW ch \in Mailboxes, stage' = GrantHead(ch, stage),
             NEW wq, wq = PopWaiter(ch),
             \/ waitq' = wq /\ UNCHANGED rx
             \/ /\ waitq' = [wq EXCEPT !["prio"] = <<>>]
                /\ \A m \in Mailboxes \ {"prio"} : rx'[m] = rx[m]
      PROVE  WaitersWait'
  <2>1. /\ QueuedWait(wq, stage')
        /\ \A m \in Mailboxes : waitq[m] = <<>> => wq[m] = <<>>
    BY <1>2, <1>9, GrantEffect
  <2>2. wq \in [Mailboxes -> Seq(Calls)]
    BY <1>2, <1>9, GrantTypes
  <2>3. QueuedWait([wq EXCEPT !["prio"] = <<>>], stage')
    BY <2>1, <2>2, EmptyQueue DEF QueuedWait
  <2> QED BY <1>2, <1>9, <2>1, <2>2, <2>3 DEF WaitersWait
<1>10. ASSUME NEW ch \in Mailboxes, waitq' = [waitq EXCEPT ![ch] = <<>>],
              UNCHANGED stage, \A m \in Mailboxes \ {ch} : rx'[m] = rx[m]
       PROVE  WaitersWait'
  <2>1. QueuedWait(waitq', stage)
    BY <1>2, <1>10, EmptyQueue DEF QueuedWait
  <2> QED BY <1>2, <1>10, <2>1 DEF WaitersWait
<1>11. ASSUME NEW ch \in Mailboxes, NEW label, StartHandler(ch, label)
       PROVE  WaitersWait'
  BY <1>9, <1>11 DEF StartHandler, TakeHead
<1>12. CASE PollPrio
  <2>1. CASE /\ rx' = [rx EXCEPT !["prio"] = "absent"] /\ ~HasStrong
             /\ UNCHANGED <<stage, waitq>>
    <3>1. \A c \in Calls : stage[c] # "wait"
      BY <2>1 DEF HasStrong, InFlight, Waiting
    <3>2. waitq["prio"] = <<>>
      <4>1. CASE waitq["prio"] # <<>>
        <5>1. Head(waitq["prio"]) \in Calls /\ InQueue(waitq["prio"], Head(waitq["prio"]))
          BY <1>1, <1>2, <4>1, TailQueue DEF QueuedWait
        <5> QED BY <1>1, <1>2, <3>1, <5>1 DEF QueuedWait
      <4> QED BY <4>1
    <3>3. \A ch \in Mailboxes : rx'[ch] # "open" => waitq[ch] = <<>>
      BY <1>1, <1>2, <2>1, <3>2
    <3> QED BY <1>2, <1>3, <2>1, <3>3 DEF QueuedWait
  <2> QED BY <1>1, <1>4, <1>11, <1>12, <2>1 DEF PollPrio
<1>13. ASSUME NEW why, BeginGraceful(why)
       PROVE  \A m \in Mailboxes \ {"prio"} : rx'[m] = rx[m]
  <2>1. {"sub", "prio"} \subseteq Receivers /\ Mailboxes \subseteq Receivers
    BY DEF Receivers, Mailboxes
  <2>2. rx' = Closed(Closed(rx, "sub"), "prio")
    BY <1>13 DEF BeginGraceful
  <2> DEFINE once == Closed(rx, "sub")
  <2>3. /\ once \in [Receivers -> RxStates]
        /\ \A m \in Receivers : m # "sub" => once[m] = rx[m]
    BY <1>2, <2>1, ClosedEffect
  <2> HIDE DEF once
  <2>4. \A m \in Receivers : m # "prio" => Closed(once, "prio")[m] = once[m]
    BY <2>1, <2>3, ClosedEffect
  <2>5. rx' = Closed(once, "prio")
    BY <2>2 DEF once
  <2> QED BY <1>1, <2>1, <2>3, <2>4, <2>5
<1>14. CASE PollMail
  <2>1. CASE StartHandler("mail", "handler")
    BY <2>1, <1>1, <1>11
  <2>2. CASE /\ BeginGraceful("stop") /\ stage' = GrantHead("mail", stage)
             /\ waitq' = [PopWaiter("mail") EXCEPT !["prio"] = <<>>]
    BY <2>2, <1>1, <1>9, <1>13
  <2>3. CASE /\ BeginGraceful("refs") /\ waitq' = [waitq EXCEPT !["prio"] = <<>>]
             /\ UNCHANGED stage
    BY <2>3, <1>1, <1>10, <1>13
  <2>4. CASE UNCHANGED <<chanVars, callVars>>
    BY <2>4, <1>4
  <2> QED BY <1>14, <2>1, <2>2, <2>3, <2>4 DEF PollMail
<1>15. CASE Drain
  BY <1>15, <1>1, <1>4, <1>11 DEF Drain
<1>16. CASE CloseMail \/ ClosePrio
  <2>1. PICK ch \in Mailboxes : CloseBox(ch)
    BY <1>16, <1>1 DEF CloseMail, ClosePrio
  <2>2. \A m \in Mailboxes \ {ch} : rx'[m] = rx[m]
    BY <2>1, <1>2 DEF CloseBox, Closed
  <2> QED BY <2>1, <2>2, <1>10 DEF CloseBox
<1>17. CASE DropMail \/ DropPrio
  <2>1. PICK ch \in Mailboxes : (\E label : DropRx(ch, label)) /\ rx[ch] # "open"
    BY <1>17, <1>1 DEF DropMail, DropPrio, ReceiversFollowTask, SweptPcs, ShutdownPcs
  <2>2. \A m \in Mailboxes : rx'[m] # "open" => waitq[m] = <<>>
    BY <2>1, <1>2 DEF DropRx
  <2> QED BY <2>1, <2>2, <1>2, <1>3 DEF DropRx, QueuedWait
<1>18. CASE CloseTerm \/ CloseSub \/ PollTerm \/ OnIdleErr \/ PollSub
  <2>1. UNCHANGED <<stage, waitq>>
    BY <1>18 DEF CloseTerm, CloseSub, PollTerm, OnIdleErr, PollSub, BeginStop
  <2>2. {"sub", "term"} \subseteq Receivers /\ Mailboxes \subseteq Receivers
    BY DEF Receivers, Mailboxes
  <2>3. \/ rx' = rx \/ rx' = Closed(rx, "sub") \/ rx' = [rx EXCEPT !["sub"] = "absent"]
        \/ rx' = [rx EXCEPT !["term"] = "closed"]
    BY <1>18 DEF CloseTerm, CloseSub, PollTerm, OnIdleErr, PollSub, BeginStop
  <2>5. \A m \in Receivers : m # "sub" => Closed(rx, "sub")[m] = rx[m]
    BY <1>2, <2>2, ClosedEffect
  <2>4. \A m \in Mailboxes : rx'[m] = rx[m]
    BY <1>1, <1>2, <2>2, <2>3, <2>5
  <2> QED BY <1>4, <2>1, <2>4
<1>19. CASE RefStep
  BY <1>19, <1>4 DEF RefStep, Kill, DropRefs, Upgrade, Subscribe, SubscribePush
<1>20. CASE OnStartErr \/ HookPanic \/ Abort \/ OnStopOk \/ OnStopErr
  BY <1>20, <1>4 DEF OnStartErr, HookPanic, Abort, OnStopOk, OnStopErr, Leave
<1>21. CASE \/ FirstPoll \/ OnStartOk \/ PollIdle \/ Wake \/ HandlerDone
            \/ OnIdleOk \/ DrainWake \/ DrainQuiet
  BY <1>21, <1>4 DEF FirstPoll, OnStartOk, PollIdle, Wake, HandlerDone,
     OnIdleOk, DrainWake, DrainQuiet
<1>22. CASE SweepMail \/ SweepPrio
  BY <1>22, <1>4 DEF SweepMail, SweepPrio, SweepOne, SweepEnd
<1>23. CASE UNCHANGED vars
  BY <1>23, <1>4 DEF vars
<1> QED BY <1>5, <1>6, <1>8, <1>12, <1>14, <1>15, <1>16, <1>17, <1>18, <1>19,
           <1>20, <1>21, <1>22, <1>23 DEF Next, TaskStep, CallStep

\* A receiver that was closed, dropped or given up never opens again.
LEMMA OpenStays ==
    ASSUME TypeOK, [Next]_vars, NEW m \in Mailboxes, rx'[m] = "open"
    PROVE  rx[m] = "open"
<1> USE DEF chanVars
<1>1. /\ m \in Receivers /\ {"sub", "prio", "mail", "term"} \subseteq Receivers
      /\ rx \in [Receivers -> RxStates]
  BY DEF TypeOK, Mailboxes, Receivers
<1>2. ASSUME NEW rs \in [Receivers -> RxStates], NEW r \in Receivers,
             Closed(rs, r)[m] = "open"
      PROVE  rs[m] = "open"
  BY <1>1, <1>2, ClosedEffect
<1>3. Closed(rx, "sub") \in [Receivers -> RxStates]
  BY <1>1, ClosedType
<1>4. CASE rx' = rx
  BY <1>4
<1>5. CASE \E r \in Receivers : rx' = Closed(rx, r)
  BY <1>1, <1>2, <1>5
<1>6. CASE rx' = Closed(Closed(rx, "sub"), "prio")
  <2>1. Closed(rx, "sub")[m] = "open"
    BY <1>1, <1>2, <1>3, <1>6
  <2> QED BY <1>1, <1>2, <2>1
<1>7. CASE \E r \in Receivers, x \in RxStates \ {"open"} : rx' = [rx EXCEPT ![r] = x]
  BY <1>1, <1>7
<1>8. {"absent", "closed", "gone"} \subseteq RxStates \ {"open"}
  BY DEF RxStates
<1>9. CASE PollTerm \/ OnIdleErr \/ CloseSub
  BY <1>1, <1>4, <1>5, <1>9 DEF PollTerm, OnIdleErr, CloseSub, BeginStop
<1>10. CASE PollPrio \/ PollSub
  BY <1>1, <1>4, <1>7, <1>8, <1>10 DEF PollPrio, PollSub, StartHandler
<1>11. CASE PollMail
  BY <1>4, <1>6, <1>11 DEF PollMail, StartHandler, BeginGraceful
<1>12. CASE CloseTerm
  BY <1>1, <1>7, <1>8, <1>12 DEF CloseTerm
<1>13. CASE CloseMail \/ ClosePrio
  BY <1>1, <1>5, <1>13 DEF CloseMail, ClosePrio, CloseBox
<1>14. CASE DropMail \/ DropPrio
  <2>1. PICK ch \in Receivers :
          rx' = [rx EXCEPT ![ch] = IF @ = "absent" THEN "absent" ELSE "gone"]
    BY <1>1, <1>14 DEF DropMail, DropPrio, DropRx
  <2> QED BY <1>1, <1>7, <1>8, <2>1
<1>15. CASE \/ FirstPoll \/ OnStartOk \/ PollIdle \/ Wake \/ HandlerDone \/ OnIdleOk
            \/ Drain \/ DrainWake \/ DrainQuiet \/ SweepMail \/ SweepPrio
  BY <1>4, <1>15 DEF FirstPoll, OnStartOk, PollIdle, Wake, HandlerDone, OnIdleOk,
     Drain, DrainWake, DrainQuiet, SweepMail, SweepPrio, SweepOne, SweepEnd, StartHandler
<1>16. CASE OnStartErr \/ HookPanic \/ Abort \/ OnStopOk \/ OnStopErr \/ RefStep
  BY <1>4, <1>16 DEF OnStartErr, HookPanic, Abort, OnStopOk, OnStopErr, Leave,
     RefStep, Kill, DropRefs, Upgrade, Subscribe, SubscribePush
<1>17. ASSUME NEW c \in Calls, CallStep(c) PROVE rx' = rx
  BY <1>17 DEF CallStep, StartCall, PollSend, Push, ReceiveReply, TimeOut, Cancel,
     DropFuture
<1>18. CASE UNCHANGED vars
  BY <1>4, <1>18 DEF vars
<1> QED BY <1>4, <1>9, <1>10, <1>11, <1>12, <1>13, <1>14, <1>15, <1>16, <1>17,
           <1>18 DEF Next, TaskStep

\* The calls that hold a slot of ch when the callers are at stages st.
Holders(st, ch) == {c \in Calls : Chan[c] = ch /\ st[c] \in {"granted", "permit"}}

\* A step gives one slot of the open mailbox ch back: st are the callers'
\* stages before the slot is handed on.
GivesSlot(ch, st) ==
    /\ TypeOK /\ QueuedWait(waitq, stage) /\ QueuedWait(waitq, st)
    /\ NobodyWaitsForFree(ch)
    /\ IsFiniteSet(Permits(ch)) /\ IsFiniteSet(Holders(st, ch))
    /\ st \in [Calls -> Stages]
    /\ \A c \in Calls : st[c] = "wait" => stage[c] = "wait"
    /\ buf'[ch] \in Seq(Calls)
    /\ Len(buf'[ch]) + Cardinality(Holders(st, ch)) + 1
         = Len(buf[ch]) + Cardinality(Permits(ch))
    /\ stage' = GrantHead(ch, st) /\ waitq'[ch] = PopWaiter(ch)[ch]

\* It goes to the first who waits for one, if any, so that all are taken again.
LEMMA SlotHandedOn ==
    ASSUME NEW ch \in Mailboxes, NEW st, GivesSlot(ch, st)
    PROVE  IsFiniteSet(Permits(ch)') /\ NobodyWaitsForFree(ch)'
<1> DEFINE P == Cardinality(Permits(ch))
           H == Cardinality(Holders(st, ch))
<1>1. /\ waitq[ch] \in Seq(Calls) /\ waitq \in [Mailboxes -> Seq(Calls)]
      /\ Len(buf[ch]) \in Nat /\ Len(buf'[ch]) \in Nat /\ Cap[ch] \in Nat
      /\ P \in Nat /\ H \in Nat
  BY CapAssumption, FS_CardinalityType DEF TypeOK, GivesSlot
<1>13. /\ Cap[ch] \in Nat /\ P \in Nat /\ H \in Nat
       /\ Len(buf[ch]) \in Nat /\ Len(buf'[ch]) \in Nat
  BY <1>1
<1>2. Len(buf[ch]) + P <= Cap[ch]
  BY DEF NobodyWaitsForFree, GivesSlot
<1>4. Len(buf'[ch]) + H + 1 = Len(buf[ch]) + P
  BY DEF GivesSlot
<1>7. Free(ch) = Cap[ch] - Len(buf[ch]) - P
  BY DEF Free
<1>8. \A c \in Calls : stage[c] = "wait" /\ Chan[c] = ch =>
        InQueue(waitq[ch], c) /\ Free(ch) = 0
  BY DEF NobodyWaitsForFree, GivesSlot
<1>12. /\ \A c \in Calls : st[c] = "wait" => stage[c] = "wait"
       /\ QueuedWait(waitq, stage) /\ QueuedWait(waitq, st)
       /\ stage' = GrantHead(ch, st) /\ waitq'[ch] = PopWaiter(ch)[ch]
       /\ IsFiniteSet(Holders(st, ch)) /\ st \in [Calls -> Stages]
  BY DEF GivesSlot
<1> HIDE DEF P
<1>10. Cap[ch] - Len(buf[ch]) - P = 0 <=> Len(buf[ch]) + P = Cap[ch]
  BY <1>1, SlotSums
<1>9. Free(ch) = 0 => Len(buf[ch]) + P = Cap[ch]
  BY <1>7, <1>10
<1>3. \A c \in Calls : stage[c] = "wait" /\ Chan[c] = ch =>
        InQueue(waitq[ch], c) /\ Len(buf[ch]) + P = Cap[ch]
  BY <1>8, <1>9
<1>5. CASE waitq[ch] = <<>>
  <2>1. stage' = st /\ \A c \in Calls : ~(st[c] = "wait" /\ Chan[c] = ch)
    BY <1>3, <1>5, <1>12, EmptyQueue DEF GrantHead
  <2>2. Permits(ch)' = Holders(st, ch)
    BY <2>1 DEF Permits, Holders
  <2> HIDE DEF H
  <2>3. Len(buf'[ch]) + H <= Cap[ch]
    BY <1>1, <1>2, <1>4, SlotsLess
  <2>4. Len(buf'[ch]) + Cardinality(Permits(ch)') <= Cap[ch]
    BY <2>2, <2>3 DEF H
  <2> QED BY <1>12, <2>1, <2>2, <2>4 DEF NobodyWaitsForFree
<1>6. CASE waitq[ch] # <<>>
  <2> DEFINE h == Head(waitq[ch])
  <2>1. /\ h \in Calls /\ InQueue(waitq[ch], h)
        /\ \A d : InQueue(Tail(waitq[ch]), d) <=> InQueue(waitq[ch], d) /\ d # h
    BY <1>1, <1>6, <1>12, TailQueue DEF QueuedWait
  <2>2. st[h] = "wait" /\ Chan[h] = ch /\ stage[h] = "wait"
    BY <1>12, <2>1 DEF QueuedWait
  <2>3. Len(buf[ch]) + P = Cap[ch]
    BY <1>3, <2>1, <2>2
  <2>4. stage' = [st EXCEPT ![h] = "granted"] /\ waitq'[ch] = Tail(waitq[ch])
    BY <1>1, <1>6, <1>12 DEF GrantHead, PopWaiter
  <2> HIDE DEF h
  <2>5. Permits(ch)' = Holders(st, ch) \cup {h} /\ h \notin Holders(st, ch)
    BY <1>12, <2>1, <2>2, <2>4 DEF Permits, Holders
  <2>6. IsFiniteSet(Permits(ch)') /\ Cardinality(Permits(ch)') = H + 1
    BY <1>12, <2>5, FS_AddElement
  <2> DEFINE Q == Cardinality(Permits(ch)')
  <2>7. Q = H + 1 /\ Free(ch)' = Cap[ch] - Len(buf'[ch]) - Q
    BY <2>6 DEF Free
  <2>8. \A c \in Calls : stage'[c] = "wait" /\ Chan[c] = ch => InQueue(waitq'[ch], c)
    BY <1>3, <1>12, <2>1, <2>4
  <2> HIDE DEF Q, H
  <2>11. Len(buf'[ch]) + (H + 1) <= Cap[ch] /\ Cap[ch] - Len(buf'[ch]) - (H + 1) = 0
    <3> DEFINE k == Cap[ch]
               l == Len(buf[ch])
               m == Len(buf'[ch])
    <3>1. /\ k \in Nat /\ l \in Nat /\ P \in Nat /\ m \in Nat /\ H \in Nat
          /\ l + P = k /\ m + H + 1 = l + P
      BY <1>13, <1>4, <2>3
    <3> HIDE DEF k, l, m
    <3>2. m + (H + 1) <= k /\ k - m - (H + 1) = 0
      BY <3>1, SlotsFull
    <3> QED BY <3>2 DEF k, m
  <2>9. Len(buf'[ch]) + Q <= Cap[ch] /\ Free(ch)' = 0
    BY <2>7, <2>11
  <2>10. Len(buf'[ch]) + Cardinality(Permits(ch)') <= Cap[ch]
    BY <2>9 DEF Q
  <2> QED BY <2>6, <2>8, <2>9, <2>10 DEF NobodyWaitsForFree
<1> QED BY <1>5, <1>6

\* Handing a slot of one mailbox on leaves the senders to the other alone.
LEMMA GrantElsewhere ==
    ASSUME waitq \in [Mailboxes -> Seq(Calls)], NEW st \in [Calls -> Stages],
           NEW ch \in Mailboxes, QueuedWait(waitq, st),
           NEW c \in Calls, Chan[c] # ch
    PROVE  GrantHead(ch, st)[c] = st[c]
BY GrantEffect

\* A permit is acquired while a slot is free, given back when its sender gives
\* up and turned into an envelope by the push; an envelope's slot is given back
\* by the pop.  close() and the drop of a receiver leave nothing to wait for.
LEMMA SlotsStep ==
    ASSUME TypeOK, WaitersWait, ReceiversFollowTask, SlotsAccounted, [Next]_vars
    PROVE  SlotsAccounted'
<1> USE DEF callVars, chanVars, taskVars, refVars
<1>1. "mail" \in Mailboxes /\ "prio" \in Mailboxes
  BY DEF Mailboxes
<1>2. /\ stage \in [Calls -> Stages] /\ waitq \in [Mailboxes -> Seq(Calls)]
      /\ buf \in [Mailboxes -> Seq(Calls)]
      /\ Chan \in [Calls -> Mailboxes] /\ QueuedWait(waitq, stage)
  BY CallAssumption DEF TypeOK, WaitersWait
<1>3. ASSUME NEW m \in Mailboxes
      PROVE  /\ IsFiniteSet(Permits(m)) /\ Cardinality(Permits(m)) \in Nat
             /\ rx[m] = "open" => NobodyWaitsForFree(m)
             /\ rx'[m] = "open" => rx[m] = "open"
             /\ buf[m] \in Seq(Calls) /\ Len(buf[m]) \in Nat /\ Cap[m] \in Nat \ {0}
  BY <1>2, <1>3, OpenStays, FS_CardinalityType, CapAssumption DEF SlotsAccounted
<1> DEFINE Slots(m) == IsFiniteSet(Permits(m)') /\ (rx'[m] = "open" => NobodyWaitsForFree(m)')
<1>4. ASSUME NEW m \in Mailboxes,
             \A c \in Calls : Chan[c] = m =>
               (stage'[c] \in {"granted", "permit"} <=> stage[c] \in {"granted", "permit"}),
             rx'[m] = "open" =>
               /\ buf'[m] = buf[m]
               /\ \A c \in Calls : Chan[c] = m /\ stage'[c] = "wait" =>
                    stage[c] = "wait" /\ (InQueue(waitq[m], c) => InQueue(waitq'[m], c))
      PROVE  Slots(m)
  <2>1. Permits(m)' = Permits(m)
    BY <1>4 DEF Permits
  <2>2. CASE rx'[m] = "open"
    <3>1. NobodyWaitsForFree(m)
      BY <1>3, <2>2
    <3>2. buf'[m] = buf[m] /\ Free(m)' = Free(m)
      BY <1>4, <2>1, <2>2 DEF Free
    <3>3. NobodyWaitsForFree(m)'
      BY <1>4, <2>1, <2>2, <3>1, <3>2 DEF NobodyWaitsForFree
    <3> QED BY <1>3, <2>1, <3>3
  <2>3. CASE rx'[m] # "open"
    BY <1>3, <2>1, <2>3
  <2> QED BY <2>2, <2>3
<1>5. ASSUME NEW m \in Mailboxes, rx'[m] # "open",
             \A c \in Calls : Chan[c] = m /\ stage'[c] \in {"granted", "permit"} =>
               stage[c] \in {"granted", "permit"}
      PROVE  Slots(m)
  <2>1. Permits(m)' \in SUBSET Permits(m)
    BY <1>5 DEF Permits
  <2>2. IsFiniteSet(Permits(m))
    BY <1>3
  <2>3. IsFiniteSet(Permits(m)')
    BY <2>1, <2>2, FS_Subset
  <2> QED BY <1>5, <2>3
<1>6. ASSUME NEW m \in Mailboxes, UNCHANGED <<stage, waitq>>,
             rx'[m] = "open" => buf'[m] = buf[m]
      PROVE  Slots(m)
  BY <1>4, <1>6
<1>7. ASSUME NEW ch \in Mailboxes, rx[ch] = "open", buf[ch] # <<>>,
             buf'[ch] = Tail(buf[ch]),
             stage' = GrantHead(ch, stage), waitq'[ch] = PopWaiter(ch)[ch]
      PROVE  Slots(ch)
  <2>1. Holders(stage, ch) = Permits(ch)
    BY DEF Holders, Permits
  <2>2. buf'[ch] \in Seq(Calls) /\ Len(buf'[ch]) + 1 = Len(buf[ch])
    BY <1>3, <1>7
  <2>3. Len(buf'[ch]) + Cardinality(Permits(ch)) + 1 = Len(buf[ch]) + Cardinality(Permits(ch))
    BY <1>3, <2>2
  <2>4. GivesSlot(ch, stage)
    BY <1>2, <1>3, <1>7, <2>1, <2>2, <2>3 DEF GivesSlot
  <2> QED BY <2>4, SlotHandedOn
<1>8. ASSUME NEW ch \in Mailboxes, NEW m \in Mailboxes, m # ch,
             stage' = GrantHead(ch, stage),
             rx'[m] = "open" => buf'[m] = buf[m] /\ waitq'[m] = waitq[m]
      PROVE  Slots(m)
  <2>1. \A c \in Calls : Chan[c] = m => stage'[c] = stage[c]
    BY <1>2, <1>8, GrantElsewhere
  <2> QED BY <1>4, <1>8, <2>1
<1>9. ASSUME NEW ch \in Mailboxes, NEW m \in Mailboxes, m # ch
      PROVE  PopWaiter(ch)[m] = waitq[m]
  BY <1>2, <1>9 DEF PopWaiter
<1> HIDE DEF Slots
<1>10. ASSUME NEW c \in Calls, StartCall(c), NEW m \in Mailboxes PROVE Slots(m)
  <2>1. rx' = rx /\ buf' = buf /\ stage[c] = "idle" /\ Chan[c] \in Mailboxes
    BY <1>2, <1>10 DEF StartCall
  <2>2. CASE /\ stage'[c] \notin {"granted", "permit", "wait"}
             /\ waitq' = waitq /\ \A d \in Calls : d # c => stage'[d] = stage[d]
    BY <1>4, <2>1, <2>2
  <2>3. CASE Chan[c] # m /\ \A d \in Calls : d # c => stage'[d] = stage[d]
             /\ waitq'[m] = waitq[m]
    BY <1>4, <2>1, <2>3
  <2>4. CASE /\ Chan[c] = m /\ rx[m] = "open" /\ Free(m) > 0
             /\ stage' = [stage EXCEPT ![c] = "permit"]
    <3> DEFINE k == Cap[m]
               l == Len(buf[m])
               p == Cardinality(Permits(m))
    <3>1. k \in Nat /\ l \in Nat /\ p \in Nat /\ k - l - p > 0
      BY <1>3, <2>4 DEF Free
    <3>2. Permits(m)' = Permits(m) \cup {c} /\ c \notin Permits(m)
      BY <1>2, <2>1, <2>4 DEF Permits
    <3>3. IsFiniteSet(Permits(m)') /\ Cardinality(Permits(m)') = p + 1
      BY <1>3, <3>2, FS_AddElement
    <3> HIDE DEF k, l, p
    <3>4. l + (p + 1) <= k /\ k - l - p # 0
      BY <3>1
    <3>5. Len(buf'[m]) + Cardinality(Permits(m)') <= Cap[m] /\ Free(m) # 0
      BY <2>1, <3>3, <3>4 DEF k, l, p, Free
    <3>6. \A d \in Calls : stage[d] = "wait" /\ Chan[d] = m => Free(m) = 0
      BY <1>3, <2>4 DEF NobodyWaitsForFree
    <3>7. \A d \in Calls : stage'[d] = "wait" => stage[d] = "wait"
      BY <1>2, <2>4
    <3>8. NobodyWaitsForFree(m)'
      BY <3>5, <3>6, <3>7 DEF NobodyWaitsForFree
    <3> QED BY <3>3, <3>8 DEF Slots
  <2>5. CASE /\ Chan[c] = m /\ rx[m] = "open" /\ Free(m) = 0
             /\ stage' = [stage EXCEPT ![c] = "wait"]
             /\ waitq' = [waitq EXCEPT ![m] = Append(@, c)]
    <3>1. Permits(m)' = Permits(m)
      BY <1>2, <2>1, <2>5 DEF Permits
    <3>2. Free(m)' = 0 /\ Len(buf'[m]) = Len(buf[m])
      BY <2>1, <2>5, <3>1 DEF Free
    <3>3. waitq[m] \in Seq(Calls) /\ Distinct(waitq[m]) /\ ~InQueue(waitq[m], c)
      BY <1>2, <2>1 DEF QueuedWait
    <3>4. \A d : InQueue(Append(waitq[m], c), d) <=> InQueue(waitq[m], d) \/ d = c
      BY <3>3, AppendQueue
    <3>5. \A d \in Calls : stage[d] = "wait" /\ Chan[d] = m => InQueue(waitq[m], d)
      BY <1>3, <2>5 DEF NobodyWaitsForFree
    <3>6. \A d \in Calls : stage'[d] = "wait" /\ Chan[d] = m => InQueue(waitq'[m], d)
      BY <1>2, <2>5, <3>4, <3>5
    <3>7. Len(buf[m]) + Cardinality(Permits(m)) <= Cap[m]
      BY <1>3, <2>5 DEF NobodyWaitsForFree
    <3>8. NobodyWaitsForFree(m)'
      BY <3>1, <3>2, <3>6, <3>7 DEF NobodyWaitsForFree
    <3> QED BY <1>3, <3>1, <3>8 DEF Slots
  <2>6. \A d \in Calls : d # c => stage'[d] = stage[d]
    BY <1>2, <1>10 DEF StartCall, Refuse
  <2>7. \/ stage'[c] \notin {"granted", "permit", "wait"} /\ waitq' = waitq
        \/ /\ rx[Chan[c]] = "open" /\ Free(Chan[c]) > 0 /\ waitq' = waitq
           /\ stage' = [stage EXCEPT ![c] = "permit"]
        \/ /\ rx[Chan[c]] = "open" /\ Free(Chan[c]) = 0
           /\ stage' = [stage EXCEPT ![c] = "wait"]
           /\ waitq' = [waitq EXCEPT ![Chan[c]] = Append(@, c)]
    BY <1>2, <1>10 DEF StartCall, Refuse
  <2>8. Chan[c] # m => waitq'[m] = waitq[m]
    BY <1>2, <2>1, <2>7
  <2> QED BY <2>2, <2>3, <2>4, <2>5, <2>6, <2>7, <2>8
<1>11. ASSUME NEW c \in Calls, PollSend(c), NEW m \in Mailboxes PROVE Slots(m)
  <2>1. /\ rx' = rx /\ buf' = buf /\ waitq' = waitq
        /\ \A d \in Calls : d # c => stage'[d] = stage[d]
    BY <1>2, <1>11 DEF PollSend, Refuse
  <2>2. CASE stage[c] = "granted" /\ stage'[c] = "permit"
    BY <1>4, <2>1, <2>2
  <2>3. CASE rx[Chan[c]] # "open" /\ stage'[c] \notin {"granted", "permit", "wait"}
    <3>1. CASE m = Chan[c]
      BY <1>5, <2>1, <2>3, <3>1
    <3>2. CASE m # Chan[c]
      BY <1>4, <2>1, <3>2
    <3> QED BY <3>1, <3>2
  <2> QED BY <1>2, <1>11, <2>2, <2>3 DEF PollSend, Refuse
<1>12. ASSUME NEW c \in Calls, Push(c), NEW m \in Mailboxes PROVE Slots(m)
  <2>1. /\ rx' = rx /\ waitq' = waitq /\ stage[c] = "permit" /\ Chan[c] \in Mailboxes
        /\ \A d \in Calls : d # c => stage'[d] = stage[d]
        /\ stage'[c] \notin {"granted", "permit", "wait"}
    BY <1>2, <1>12 DEF Push
  <2>2. CASE m # Chan[c]
    <3>1. buf'[m] = buf[m]
      BY <1>2, <1>12, <2>2 DEF Push
    <3> QED BY <1>4, <2>1, <2>2, <3>1
  <2>3. CASE m = Chan[c] /\ rx[m] # "open"
    BY <1>5, <2>1, <2>3
  <2>4. CASE m = Chan[c] /\ rx[m] = "open"
    <3> DEFINE k == Cap[m]
               l == Len(buf[m])
               p == Cardinality(Permits(m))
               q == Cardinality(Permits(m)')
    <3>1. Permits(m)' = Permits(m) \ {c} /\ c \in Permits(m)
      BY <1>2, <2>1, <2>4 DEF Permits
    <3>2. IsFiniteSet(Permits(m)') /\ q = p - 1 /\ q \in Nat
      BY <1>3, <3>1, FS_RemoveElement, FS_CardinalityType
    <3>3. buf'[m] = Append(buf[m], c)
      BY <1>2, <1>12, <2>4 DEF Push
    <3>4. Len(buf'[m]) = l + 1
      BY <1>3, <3>3, AppendProperties
    <3>5. k \in Nat /\ l \in Nat /\ p \in Nat
      BY <1>3
    <3>6. NobodyWaitsForFree(m) /\ Free(m) = k - l - p /\ Free(m)' = k - Len(buf'[m]) - q
      BY <1>3, <2>4 DEF Free
    <3>7. l + p <= k
      BY <3>6 DEF NobodyWaitsForFree
    <3> HIDE DEF k, l, p, q
    <3>8. (l + 1) + q <= k /\ k - (l + 1) - q = k - l - p
      BY <3>2, <3>5, <3>7
    <3>9. Len(buf'[m]) + Cardinality(Permits(m)') <= Cap[m] /\ Free(m)' = Free(m)
      BY <3>4, <3>6, <3>8 DEF k, q
    <3>10. \A d \in Calls : stage'[d] = "wait" => stage[d] = "wait"
      BY <2>1
    <3>11. NobodyWaitsForFree(m)'
      BY <2>1, <3>6, <3>9, <3>10 DEF NobodyWaitsForFree
    <3> QED BY <3>2, <3>11 DEF Slots
  <2> QED BY <2>2, <2>3, <2>4
<1>13. ASSUME NEW c \in Calls, ReceiveReply(c), NEW m \in Mailboxes PROVE Slots(m)
  <2>1. /\ rx' = rx /\ waitq' = waitq /\ buf' = buf /\ stage[c] = "awaiting"
        /\ \A d \in Calls : d # c => stage'[d] = stage[d]
        /\ stage'[c] \notin {"granted", "permit", "wait"}
    BY <1>2, <1>13 DEF ReceiveReply
  <2> QED BY <1>4, <2>1
<1>14. ASSUME NEW c \in Calls, NEW out \in GivenUp, DropFuture(c, out), NEW m \in Mailboxes
       PROVE  Slots(m)
  <2> DEFINE st == [stage EXCEPT ![c] = out]
  <2>1. /\ rx' = rx /\ buf' = buf /\ Chan[c] \in Mailboxes
        /\ out \notin {"granted", "permit", "wait"} /\ st \in [Calls -> Stages]
    BY <1>2, <1>14 DEF DropFuture, GivenUp, Stages
  <2>2. CASE stage[c] = "granted" /\ rx[Chan[c]] = "open"
    <3>1. stage' = GrantHead(Chan[c], st) /\ waitq' = PopWaiter(Chan[c])
      BY <1>14, <2>2 DEF DropFuture
    <3>2. /\ QueuedWait(waitq, st) /\ \A d \in Calls : st[d] = "wait" => stage[d] = "wait"
          /\ \A d \in Calls : d # c => st[d] = stage[d]
      BY <1>2, <2>1, <2>2 DEF QueuedWait
    <3>3. CASE m = Chan[c]
      <4>1. Holders(st, m) = Permits(m) \ {c} /\ c \in Permits(m)
        BY <1>2, <2>1, <2>2, <3>3 DEF Holders, Permits
      <4> HIDE DEF st
      <4>2. /\ IsFiniteSet(Holders(st, m))
            /\ Cardinality(Holders(st, m)) = Cardinality(Permits(m)) - 1
            /\ Cardinality(Holders(st, m)) \in Nat
        BY <1>3, <4>1, FS_RemoveElement, FS_CardinalityType
      <4>3. Len(buf'[m]) = Len(buf[m]) /\ buf'[m] \in Seq(Calls)
        BY <1>3, <2>1
      <4>4. Len(buf'[m]) + Cardinality(Holders(st, m)) + 1
              = Len(buf[m]) + Cardinality(Permits(m))
        BY <1>3, <4>2, <4>3
      <4>5. NobodyWaitsForFree(m) /\ IsFiniteSet(Permits(m))
        BY <1>3, <2>2, <3>3
      <4>6. GivesSlot(m, st)
        BY <1>2, <2>1, <3>1, <3>2, <3>3, <4>2, <4>3, <4>4, <4>5 DEF GivesSlot
      <4> QED BY <4>6, SlotHandedOn DEF Slots
    <3>4. CASE m # Chan[c]
      <4> HIDE DEF st
      <4>1. \A d \in Calls : Chan[d] = m => stage'[d] = stage[d]
        BY <1>2, <2>1, <3>1, <3>2, <3>4, GrantElsewhere
      <4>2. waitq'[m] = waitq[m]
        BY <1>9, <2>1, <3>1, <3>4
      <4> QED BY <1>4, <2>1, <4>1, <4>2
    <3> QED BY <3>3, <3>4
  <2>3. CASE ~(stage[c] = "granted" /\ rx[Chan[c]] = "open")
    <3>1. /\ stage' = st /\ waitq' = [waitq EXCEPT ![Chan[c]] = Without(@, c)]
          /\ stage[c] \in {"wait", "granted", "awaiting"}
      BY <1>14, <2>3 DEF DropFuture, Waiting
    <3>2. \A d \in Calls : d # c => stage'[d] = stage[d]
      BY <1>2, <3>1
    <3>3. stage'[c] \notin {"granted", "permit", "wait"}
      BY <1>2, <2>1, <3>1
    <3>4. CASE m # Chan[c]
      <4>1. waitq'[m] = waitq[m]
        BY <1>2, <3>1, <3>4
      <4> QED BY <1>4, <2>1, <3>2, <3>4, <4>1
    <3>5. CASE m = Chan[c] /\ stage[c] = "granted"
      BY <1>5, <2>1, <2>3, <3>2, <3>3, <3>5
    <3>6. CASE m = Chan[c] /\ stage[c] # "granted"
      <4>1. \A d : InQueue(Without(waitq[m], c), d) <=> InQueue(waitq[m], d) /\ d # c
        BY <1>2, WithoutQueue DEF QueuedWait
      <4>2. waitq'[m] = Without(waitq[m], c)
        BY <1>2, <3>1, <3>6
      <4>3. \A d \in Calls : stage'[d] = "wait" =>
              stage[d] = "wait" /\ (InQueue(waitq[m], d) => InQueue(waitq'[m], d))
        BY <3>2, <3>3, <4>1, <4>2
      <4>4. stage[c] \notin {"granted", "permit"}
        BY <3>1, <3>6
      <4> QED BY <1>4, <2>1, <3>2, <3>3, <4>3, <4>4
    <3> QED BY <3>4, <3>5, <3>6
  <2> QED BY <2>2, <2>3
<1>15. ASSUME NEW c \in Calls, TimeOut(c) \/ Cancel(c), NEW m \in Mailboxes PROVE Slots(m)
  BY <1>14, <1>15 DEF TimeOut, Cancel, GivenUp
<1>16. ASSUME NEW ch \in Mailboxes, NEW label, StartHandler(ch, label), NEW m \in Mailboxes
       PROVE  Slots(m)
  <2>1. /\ rx' = rx /\ buf[ch] # <<>> /\ buf' = [buf EXCEPT ![ch] = Tail(@)]
        /\ stage' = GrantHead(ch, stage) /\ waitq' = PopWaiter(ch)
    BY <1>16 DEF StartHandler, TakeHead
  <2>2. CASE m # ch
    <3>1. buf'[m] = buf[m] /\ waitq'[m] = waitq[m]
      BY <1>2, <1>9, <2>1, <2>2
    <3> QED BY <1>8, <2>1, <2>2, <3>1
  <2>3. CASE m = ch /\ rx[ch] = "open"
    <3>1. buf'[ch] = Tail(buf[ch]) /\ waitq'[ch] = PopWaiter(ch)[ch]
      BY <1>2, <2>1
    <3> QED BY <1>7, <2>1, <2>3, <3>1
  <2>4. CASE m = ch /\ rx[ch] # "open"
    <3>1. waitq[ch] = <<>>
      BY <2>4 DEF WaitersWait
    <3>2. stage' = stage
      BY <2>1, <3>1 DEF GrantHead
    <3> QED BY <1>5, <2>1, <2>4, <3>2
  <2> QED BY <2>2, <2>3, <2>4
<1>17. CASE PollPrio
  <2>1. ASSUME NEW m \in Mailboxes PROVE Slots(m)
    <3>1. CASE \E label : StartHandler("prio", label)
      BY <1>1, <1>16, <3>1
    <3>2. CASE UNCHANGED <<stage, waitq, buf>>
      BY <1>6, <3>2
    <3> QED BY <1>17, <3>1, <3>2 DEF PollPrio
  <2> QED BY <2>1 DEF Slots, SlotsAccounted
<1>18. ASSUME NEW why, BeginGraceful(why)
       PROVE  rx'["prio"] # "open" /\ rx'["mail"] = rx["mail"]
  <2>1. /\ rx \in [Receivers -> RxStates] /\ rx' = Closed(Closed(rx, "sub"), "prio")
        /\ "sub" \in Receivers /\ "prio" \in Receivers /\ "mail" \in Receivers
    BY <1>18 DEF TypeOK, BeginGraceful, Receivers
  <2> DEFINE once == Closed(rx, "sub")
  <2>2. once \in [Receivers -> RxStates] /\ once["mail"] = rx["mail"]
    BY <2>1, ClosedEffect
  <2> HIDE DEF once
  <2>3. Closed(once, "prio")["prio"] # "open" /\ Closed(once, "prio")["mail"] = once["mail"]
    BY <2>1, <2>2, ClosedEffect
  <2> QED BY <2>1, <2>2, <2>3 DEF once
<1>19. CASE PollMail
  <2>1. rx["mail"] = "open" /\ Mailboxes = {"mail", "prio"}
    BY <1>19 DEF PollMail, ReceiversFollowTask, ShutdownPcs, Mailboxes
  <2>2. ASSUME NEW m \in Mailboxes PROVE Slots(m)
    <3>1. CASE StartHandler("mail", "handler")
      BY <1>1, <1>16, <3>1
    <3>2. CASE /\ BeginGraceful("stop") /\ buf["mail"] # <<>>
               /\ buf' = [buf EXCEPT !["mail"] = Tail(@)]
               /\ stage' = GrantHead("mail", stage)
               /\ waitq' = [PopWaiter("mail") EXCEPT !["prio"] = <<>>]
      <4>1. CASE m = "prio"
        <5>1. rx'["prio"] # "open"
          BY <1>18, <3>2
        <5> QED BY <1>1, <1>8, <3>2, <4>1, <5>1
      <4>2. CASE m = "mail"
        <5>1. PopWaiter("mail") \in [Mailboxes -> Seq(Calls)]
          BY <1>1, <1>2, GrantTypes
        <5>2. buf'["mail"] = Tail(buf["mail"]) /\ waitq'["mail"] = PopWaiter("mail")["mail"]
          BY <1>1, <1>2, <3>2, <5>1
        <5> QED BY <1>1, <1>7, <2>1, <3>2, <4>2, <5>2
      <4> QED BY <2>1, <4>1, <4>2
    <3>3. CASE /\ BeginGraceful("refs") /\ waitq' = [waitq EXCEPT !["prio"] = <<>>]
               /\ UNCHANGED <<stage, buf>>
      <4>1. CASE m = "prio"
        <5>1. rx'["prio"] # "open"
          BY <1>18, <3>3
        <5> QED BY <1>5, <3>3, <4>1, <5>1
      <4>2. CASE m = "mail"
        <5>1. waitq'["mail"] = waitq["mail"]
          BY <1>1, <1>2, <3>3
        <5> QED BY <1>4, <3>3, <4>2, <5>1
      <4> QED BY <2>1, <4>1, <4>2
    <3>4. CASE UNCHANGED <<chanVars, callVars>>
      BY <1>6, <3>4
    <3> QED BY <1>19, <3>1, <3>2, <3>3, <3>4 DEF PollMail
  <2> QED BY <2>2 DEF Slots, SlotsAccounted
<1>20. CASE Drain
  <2>1. ASSUME NEW m \in Mailboxes PROVE Slots(m)
    <3>1. CASE \E label : StartHandler("prio", label)
      BY <1>1, <1>16, <3>1
    <3>2. CASE UNCHANGED <<chanVars, callVars>>
      BY <1>6, <3>2
    <3> QED BY <1>20, <3>1, <3>2 DEF Drain
  <2> QED BY <2>1 DEF Slots, SlotsAccounted
<1>21. CASE CloseMail \/ ClosePrio
  <2>1. PICK ch \in Mailboxes : CloseBox(ch)
    BY <1>21, <1>1 DEF CloseMail, ClosePrio
  <2>2. /\ UNCHANGED <<stage, buf>> /\ \A m \in Mailboxes : m # ch => waitq'[m] = waitq[m]
        /\ rx'[ch] # "open"
    BY <2>1, <1>2 DEF CloseBox, Closed, TypeOK, Mailboxes, Receivers
  <2>3. ASSUME NEW m \in Mailboxes PROVE Slots(m)
    BY <1>4, <2>2
  <2> QED BY <2>3 DEF Slots, SlotsAccounted
<1>22. CASE DropMail \/ DropPrio
  <2>1. PICK ch \in Mailboxes : \E label : DropRx(ch, label)
    BY <1>22, <1>1 DEF DropMail, DropPrio
  <2>2. /\ UNCHANGED <<stage, waitq>> /\ \A m \in Mailboxes : m # ch => buf'[m] = buf[m]
        /\ rx'[ch] # "open"
    BY <2>1, <1>2 DEF DropRx, TypeOK, Mailboxes, Receivers
  <2>3. ASSUME NEW m \in Mailboxes PROVE Slots(m)
    BY <1>6, <2>2
  <2> QED BY <2>3 DEF Slots, SlotsAccounted
<1>23. CASE SweepMail \/ SweepPrio
  <2>1. /\ SweepMail => rx["mail"] # "open"
        /\ SweepPrio => rx["prio"] # "open"
    BY DEF SweepMail, SweepPrio, ReceiversFollowTask, ShutdownPcs, SweptPcs
  <2>2. /\ UNCHANGED <<stage, waitq>>
        /\ \A m \in Mailboxes : rx[m] = "open" => buf'[m] = buf[m]
    BY <1>2, <1>23, <2>1 DEF SweepMail, SweepPrio, SweepOne, SweepEnd, Mailboxes
  <2>3. ASSUME NEW m \in Mailboxes PROVE Slots(m)
    BY <1>3, <1>6, <2>2
  <2> QED BY <2>3 DEF Slots, SlotsAccounted
<1>24. ASSUME UNCHANGED <<stage, waitq, buf>> PROVE SlotsAccounted'
  BY <1>6, <1>24 DEF Slots, SlotsAccounted
<1>25. CASE CloseTerm \/ CloseSub \/ PollTerm \/ OnIdleErr \/ PollSub
  BY <1>24, <1>25 DEF CloseTerm, CloseSub, PollTerm, OnIdleErr, PollSub, BeginStop
<1>26. CASE RefStep
  BY <1>24, <1>26 DEF RefStep, Kill, DropRefs, Upgrade, Subscribe, SubscribePush
<1>27. CASE OnStartErr \/ HookPanic \/ Abort \/ OnStopOk \/ OnStopErr
  BY <1>24, <1>27 DEF OnStartErr, HookPanic, Abort, OnStopOk, OnStopErr, Leave
<1>28. CASE \/ FirstPoll \/ OnStartOk \/ PollIdle \/ Wake \/ HandlerDone
            \/ OnIdleOk \/ DrainWake \/ DrainQuiet
  BY <1>24, <1>28 DEF FirstPoll, OnStartOk, PollIdle, Wake, HandlerDone,
     OnIdleOk, DrainWake, DrainQuiet
<1>29. CASE UNCHANGED vars
  BY <1>24, <1>29 DEF vars
<1>30. ASSUME NEW c \in Calls, CallStep(c) PROVE SlotsAccounted'
  <2>1. ASSUME NEW m \in Mailboxes PROVE Slots(m)
    BY <1>10, <1>11, <1>12, <1>13, <1>15, <1>30 DEF CallStep
  <2> QED BY <2>1 DEF Slots, SlotsAccounted
<1> QED BY <1>17, <1>19, <1>20, <1>21, <1>22, <1>23, <1>25, <1>26, <1>27, <1>28,
           <1>29, <1>30 DEF Next, TaskStep

\* A handler runs for the one envelope the task took, and for no other.
LEMMA OneHandlerStep ==
    ASSUME TypeOK, BufferHoldsQueued, StageBoundsFate, OneHandler, [Next]_vars
    PROVE  OneHandler'
<1> USE DEF callVars, chanVars, taskVars, refVars
<1>1. fate \in [Calls -> Fates] /\ Null \notin Calls
  BY NullAssumption DEF TypeOK
<1>2. ASSUME UNCHANGED <<pc, cur>>, \A c \in Calls : fate[c] = "started" <=> fate'[c] = "started"
      PROVE  OneHandler'
  BY <1>2 DEF OneHandler
<1>3. ASSUME pc \notin HandlerPcs, pc' \notin HandlerPcs, UNCHANGED cur,
             \A c \in Calls : fate[c] = "started" <=> fate'[c] = "started"
      PROVE  OneHandler'
  BY <1>3 DEF OneHandler
<1>4. ASSUME NEW c \in Calls, CallStep(c) PROVE OneHandler'
  <2>1. CASE Push(c)
    BY <2>1, <1>1, <1>2 DEF Push, StageBoundsFate
  <2>2. CASE ~Push(c)
    BY <1>2, <1>4, <2>2 DEF CallStep, StartCall, PollSend, ReceiveReply, TimeOut,
       Cancel, DropFuture
  <2> QED BY <2>1, <2>2
<1>5. ASSUME NEW ch \in Mailboxes, NEW label \in HandlerPcs,
             StartHandler(ch, label), pc \notin HandlerPcs
      PROVE  OneHandler'
  <2>1. /\ Head(buf[ch]) \in Calls
        /\ fate' = [fate EXCEPT ![Head(buf[ch])] = "started"]
        /\ cur' = Head(buf[ch]) /\ pc' = label
    BY <1>5, TakeEffect DEF StartHandler, TakeHead
  <2>2. \A c \in Calls : fate[c] # "started"
    BY <1>1, <1>5 DEF OneHandler
  <2> QED BY <1>1, <2>1, <2>2 DEF OneHandler
<1>6. ASSUME NEW ch \in Mailboxes, NEW f, f # "queued", f # "started", buf[ch] # <<>>,
             buf' = [buf EXCEPT ![ch] = Tail(@)],
             fate' = [fate EXCEPT ![Head(buf[ch])] = f]
      PROVE  \A c \in Calls : fate[c] = "started" <=> fate'[c] = "started"
  BY <1>1, <1>6, TakeEffect
<1>7. "mail" \in Mailboxes /\ "prio" \in Mailboxes
  BY DEF Mailboxes
<1>8. CASE OnStartErr \/ HookPanic \/ Abort \/ OnStopOk \/ OnStopErr
  <2>1. /\ pc' = "close_term" /\ cur' = Null
        /\ fate' = IF cur = Null THEN fate ELSE [fate EXCEPT ![cur] = "broken"]
    BY <1>8 DEF OnStartErr, HookPanic, Abort, OnStopOk, OnStopErr, Leave
  <2> QED BY <1>1, <2>1 DEF OneHandler, HandlerPcs
<1>9. CASE HandlerDone
  BY <1>1, <1>9 DEF HandlerDone, OneHandler, HandlerPcs, LoopStart
<1>10. CASE PollPrio \/ Drain
  <2>1. /\ pc \notin HandlerPcs
        /\ {"handler", "drain_handler"} \subseteq HandlerPcs
    BY <1>10 DEF PollPrio, Drain, HandlerPcs
  <2>2. CASE StartHandler("prio", "handler") \/ StartHandler("prio", "drain_handler")
    BY <2>1, <2>2, <1>5, <1>7
  <2>3. CASE UNCHANGED <<cur, fate>> /\ pc' \in {LoopStart, "poll_sub", "on_stop", "drain_wait"}
    BY <2>1, <2>3, <1>3 DEF HandlerPcs, LoopStart
  <2> QED BY <1>10, <2>2, <2>3 DEF PollPrio, Drain, Goto
<1>11. CASE PollMail
  <2>1. pc \notin HandlerPcs /\ "handler" \in HandlerPcs
    BY <1>11 DEF PollMail, HandlerPcs
  <2>2. CASE StartHandler("mail", "handler")
    BY <2>1, <2>2, <1>5, <1>7
  <2>3. CASE /\ BeginGraceful("stop") /\ buf["mail"] # <<>>
             /\ buf' = [buf EXCEPT !["mail"] = Tail(@)]
             /\ fate' = [fate EXCEPT ![Head(buf["mail"])] = "handled"]
    <3>1. \A c \in Calls : fate[c] = "started" <=> fate'[c] = "started"
      BY <2>3, <1>6, <1>7
    <3> QED BY <2>1, <2>3, <3>1, <1>3 DEF BeginGraceful, HandlerPcs
  <2>4. CASE BeginGraceful("refs") /\ UNCHANGED fate
    BY <2>1, <2>4, <1>3 DEF BeginGraceful, HandlerPcs
  <2>5. CASE Goto("poll_idle") /\ UNCHANGED fate
    BY <2>1, <2>5, <1>3 DEF Goto, HandlerPcs
  <2> QED BY <1>11, <2>2, <2>3, <2>4, <2>5 DEF PollMail
<1>12. CASE SweepMail \/ SweepPrio
  <2>1. CASE SweepOne("mail") \/ SweepOne("prio")
    BY <2>1, <1>2, <1>6, <1>7 DEF SweepOne
  <2>2. CASE SweepEnd("mail", AfterMailSweep) \/ SweepEnd("prio", "close_sub")
    BY <1>3, <1>12, <2>2 DEF SweepMail, SweepPrio, SweepEnd, Goto, AfterMailSweep,
       HandlerPcs
  <2> QED BY <1>12, <2>1, <2>2 DEF SweepMail, SweepPrio
<1>13. CASE DropMail \/ DropPrio
  BY <1>1, <1>3, <1>13 DEF DropMail, DropPrio, DropRx, Goto, HandlerPcs
<1>14. CASE RefStep
  BY <1>2, <1>14 DEF RefStep, Kill, DropRefs, Upgrade, Subscribe, SubscribePush
<1>15. CASE \/ FirstPoll \/ OnStartOk \/ PollTerm \/ PollSub \/ PollIdle \/ Wake
            \/ OnIdleOk \/ OnIdleErr \/ DrainWake \/ DrainQuiet
  BY <1>3, <1>15 DEF FirstPoll, OnStartOk, PollTerm, PollSub, PollIdle, Wake,
     OnIdleOk, OnIdleErr, DrainWake, DrainQuiet, QuietTimer, BeginStop, Goto,
     HandlerPcs, LoopStart
<1>16. CASE CloseTerm \/ CloseMail \/ ClosePrio \/ CloseSub
  BY <1>3, <1>16 DEF CloseTerm, CloseMail, ClosePrio, CloseSub, CloseBox, Goto,
     HandlerPcs
<1>17. CASE UNCHANGED vars
  BY <1>2, <1>17 DEF vars
<1> QED BY <1>4, <1>8, <1>9, <1>10, <1>11, <1>12, <1>13, <1>14, <1>15, <1>16,
           <1>17 DEF Next, TaskStep

\* What a step of the task may do to the calls: grant a waiting sender its
\* permit, and move an admitted message on to an end it does not leave.
Serves ==
    \A c \in Calls :
      /\ \/ stage'[c] = stage[c]
         \/ stage[c] = "wait" /\ stage'[c] = "granted"
      /\ \/ fate'[c] = fate[c]
         \/ fate[c] = "queued" /\ fate'[c] \in {"started", "handled"}
         \/ /\ fate[c] = "queued" /\ fate'[c] = "dropped"
            /\ pc \in SweptPcs[Chan[c]]
         \/ /\ fate[c] = "queued" /\ fate'[c] = "swept"
            /\ SweepOne("mail") \/ SweepOne("prio")
         \/ fate[c] = "started" /\ fate'[c] \in {"handled", "broken"}

\* Every step that is not a call's own serves the calls.
LEMMA TaskServes ==
    ASSUME TypeOK, BufferHoldsQueued, WaitersWait, OneHandler,
           TaskStep \/ HookPanic \/ Abort \/ RefStep \/ UNCHANGED vars
    PROVE  Serves
<1> USE DEF callVars, chanVars, taskVars, refVars
<1>1. /\ fate \in [Calls -> Fates] /\ stage \in [Calls -> Stages]
      /\ waitq \in [Mailboxes -> Seq(Calls)] /\ QueuedWait(waitq, stage)
      /\ "mail" \in Mailboxes /\ "prio" \in Mailboxes
  BY DEF TypeOK, WaitersWait, Mailboxes
<1>2. ASSUME UNCHANGED <<stage, fate>> PROVE Serves
  BY <1>2 DEF Serves
<1>3. ASSUME NEW f \in {"started", "handled", "swept"}, NEW ch \in Mailboxes,
             f = "swept" => SweepOne("mail") \/ SweepOne("prio"),
             buf[ch] # <<>>, buf' = [buf EXCEPT ![ch] = Tail(@)],
             fate' = [fate EXCEPT ![Head(buf[ch])] = f],
             stage' = GrantHead(ch, stage) \/ stage' = stage
      PROVE  Serves
  <2>1. f # "queued" /\ Head(buf[ch]) \in Calls /\ fate[Head(buf[ch])] = "queued"
    BY <1>3, TakeEffect
  <2>2. \A c \in Calls : \/ stage'[c] = stage[c]
                         \/ stage[c] = "wait" /\ stage'[c] = "granted"
    BY <1>1, <1>3, GrantEffect
  <2> QED BY <1>1, <1>3, <2>1, <2>2 DEF Serves
<1>4. ASSUME NEW ch \in Mailboxes, NEW label, StartHandler(ch, label) PROVE Serves
  BY <1>3, <1>4 DEF StartHandler, TakeHead
<1>5. CASE OnStartErr \/ HookPanic \/ Abort \/ OnStopOk \/ OnStopErr
  <2>1. /\ stage' = stage
        /\ fate' = IF cur = Null THEN fate ELSE [fate EXCEPT ![cur] = "broken"]
    BY <1>5 DEF OnStartErr, HookPanic, Abort, OnStopOk, OnStopErr, Leave
  <2> QED BY <1>1, <2>1 DEF OneHandler, Serves
<1>6. CASE HandlerDone
  BY <1>1, <1>6 DEF HandlerDone, OneHandler, Serves
<1>7. CASE PollPrio \/ Drain
  BY <1>1, <1>2, <1>4, <1>7 DEF PollPrio, Drain
<1>8. CASE PollMail
  BY <1>1, <1>2, <1>3, <1>4, <1>8 DEF PollMail
<1>9. CASE SweepMail \/ SweepPrio
  <2>1. ASSUME NEW ch \in {"mail", "prio"}, SweepOne(ch) PROVE Serves
    <3>1. SweepOne("mail") \/ SweepOne("prio")
      BY <2>1
    <3> QED BY <1>1, <2>1, <3>1, <1>3 DEF SweepOne
  <2> QED BY <1>1, <1>2, <1>9, <2>1 DEF SweepMail, SweepPrio, SweepEnd
<1>10. CASE DropMail \/ DropPrio
  <2>1. PICK ch \in {"mail", "prio"} :
          (\E label : DropRx(ch, label)) /\ pc \in SweptPcs[ch]
    BY <1>10 DEF DropMail, DropPrio, SweptPcs
  <2> QED BY <2>1 DEF DropRx, Serves
<1>11. CASE RefStep
  BY <1>2, <1>11 DEF RefStep, Kill, DropRefs, Upgrade, Subscribe, SubscribePush
<1>12. CASE \/ FirstPoll \/ OnStartOk \/ PollTerm \/ PollSub \/ PollIdle \/ Wake
            \/ OnIdleOk \/ OnIdleErr \/ DrainWake \/ DrainQuiet
            \/ CloseTerm \/ CloseMail \/ ClosePrio \/ CloseSub
  BY <1>2, <1>12 DEF FirstPoll, OnStartOk, PollTerm, PollSub, PollIdle, Wake,
     OnIdleOk, OnIdleErr, DrainWake, DrainQuiet, CloseTerm, CloseMail, ClosePrio,
     CloseSub, CloseBox, BeginStop
<1>13. CASE UNCHANGED vars
  BY <1>2, <1>13 DEF vars
<1> QED BY <1>5, <1>6, <1>7, <1>8, <1>9, <1>10, <1>11, <1>12, <1>13 DEF TaskStep

\* A deadline or a cancellation ends its own call; a permit it gives back goes
\* to a waiting sender.
LEMMA GiveUpEffect ==
    ASSUME TypeOK, WaitersWait, NEW c \in Calls, NEW out \in GivenUp, DropFuture(c, out)
    PROVE  /\ stage'[c] = out /\ fate' = fate
           /\ \A d \in Calls : d # c =>
                \/ stage'[d] = stage[d]
                \/ stage[d] = "wait" /\ stage'[d] = "granted"
<1> DEFINE st == [stage EXCEPT ![c] = out]
<1>1. /\ stage \in [Calls -> Stages] /\ waitq \in [Mailboxes -> Seq(Calls)]
      /\ st \in [Calls -> Stages] /\ Chan[c] \in Mailboxes /\ QueuedWait(waitq, stage)
      /\ out # "wait"
  BY CallAssumption DEF TypeOK, WaitersWait, Stages, GivenUp
<1>2. fate' = fate
  BY DEF DropFuture
<1>3. CASE stage[c] = "granted" /\ rx[Chan[c]] = "open"
  <2>1. QueuedWait(waitq, st)
    BY <1>1, <1>3 DEF QueuedWait
  <2>2. stage' = GrantHead(Chan[c], st)
    BY <1>3 DEF DropFuture
  <2>3. st[c] = out /\ \A d \in Calls : d # c => st[d] = stage[d]
    BY <1>1
  <2> HIDE DEF st
  <2> QED BY <1>1, <1>2, <2>1, <2>2, <2>3, GrantEffect
<1>4. CASE ~(stage[c] = "granted" /\ rx[Chan[c]] = "open")
  BY <1>1, <1>2, <1>4 DEF DropFuture
<1> QED BY <1>3, <1>4

\* What a caller is told follows from what became of its message.
LEMMA StageStep ==
    ASSUME TypeOK, BufferHoldsQueued, WaitersWait, StageBoundsFate, OneHandler,
           [Next]_vars
    PROVE  StageBoundsFate'
<1>1. stage \in [Calls -> Stages] /\ fate \in [Calls -> Fates] /\ Op \in [Calls -> {"tell", "ask", "stop"}]
  BY CallAssumption DEF TypeOK
<1>2. CASE TaskStep \/ HookPanic \/ Abort \/ RefStep \/ UNCHANGED vars
  <2>1. Serves
    BY <1>2, TaskServes
  <2> QED BY <2>1 DEF Serves, StageBoundsFate, GivenUp, ReplyDropped
<1>3. ASSUME NEW c \in Calls, StartCall(c) \/ PollSend(c) PROVE StageBoundsFate'
  <2>1. /\ fate' = fate /\ fate[c] = "unsent" /\ \A d \in Calls : d # c => stage'[d] = stage[d]
        /\ \/ stage'[c] \in {"permit", "wait", "errSend", "errNotEnabled"}
           \/ stage'[c] = "ok" /\ Op[c] = "stop"
    BY <1>1, <1>3 DEF StartCall, PollSend, Refuse, StageBoundsFate, Waiting
  <2> QED BY <1>1, <2>1 DEF StageBoundsFate, GivenUp
<1>4. ASSUME NEW c \in Calls, Push(c) PROVE StageBoundsFate'
  <2>1. /\ stage' = [stage EXCEPT ![c] = IF Op[c] = "ask" THEN "awaiting" ELSE "ok"]
        /\ \E f \in {"leaked", "queued"} : fate' = [fate EXCEPT ![c] = f]
    BY <1>4 DEF Push
  <2> QED BY <1>1, <2>1 DEF StageBoundsFate, GivenUp
<1>5. ASSUME NEW c \in Calls, ReceiveReply(c) PROVE StageBoundsFate'
  BY <1>1, <1>5 DEF ReceiveReply, StageBoundsFate, GivenUp, callVars
<1>6. ASSUME NEW c \in Calls, TimeOut(c) \/ Cancel(c) PROVE StageBoundsFate'
  <2>1. PICK out \in GivenUp : DropFuture(c, out)
    BY <1>6 DEF TimeOut, Cancel, GivenUp
  <2>2. stage[c] \in Waiting \cup {"awaiting"}
    BY <2>1 DEF DropFuture
  <2>3. Op[c] # "ask" => fate[c] = "unsent"
    BY <2>2 DEF StageBoundsFate, Waiting
  <2>4. /\ stage'[c] = out /\ fate' = fate
        /\ \A d \in Calls : d # c => \/ stage'[d] = stage[d]
                                     \/ stage[d] = "wait" /\ stage'[d] = "granted"
    BY <2>1, GiveUpEffect
  <2> QED BY <2>3, <2>4 DEF StageBoundsFate, GivenUp
<1> QED BY <1>2, <1>3, <1>4, <1>5, <1>6 DEF Next, CallStep

\* The caller's three records are written with its outcome and the drain's with
\* the pop, which finds no record of the drain's yet.
LEMMA LettersStep ==
    ASSUME TypeOK, BufferHoldsQueued, WaitersWait, StageBoundsFate, LettersMatch,
           OneHandler, [Next]_vars
    PROVE  LettersMatch'
<1> USE DEF callVars, chanVars, taskVars, refVars
<1>1. /\ stage \in [Calls -> Stages] /\ fate \in [Calls -> Fates]
      /\ letters \in [Calls -> [Reasons -> Nat]]
      /\ Op \in [Calls -> {"tell", "ask", "stop"}]
      /\ Reasons = {"ActorStopped", "Timeout", "ReplyDropped", "DiscardedAtShutdown"}
  BY CallAssumption DEF TypeOK, Reasons
<1>2. \A c \in Calls, r \in Reasons :
        Record(letters, c, r) = [letters EXCEPT ![c] = [letters[c] EXCEPT ![r] = @ + 1]]
  BY <1>1 DEF Record
<1>3. ASSUME NEW ch \in Mailboxes, SweepOne(ch) PROVE LettersMatch'
  <2> DEFINE h == Head(buf[ch])
  <2>1. h \in Calls /\ fate[h] = "queued"
    BY <1>3, TakeEffect DEF SweepOne
  <2> HIDE DEF h
  <2>2. fate' = [fate EXCEPT ![h] = "swept"] /\ stage' = stage
    BY <1>3 DEF SweepOne, h
  <2>3. letters' = IF RecordsDiscard(h)
                   THEN [letters EXCEPT ![h] =
                           [letters[h] EXCEPT !["DiscardedAtShutdown"] = @ + 1]]
                   ELSE letters
    BY <1>1, <1>2, <1>3, <2>1 DEF SweepOne, h
  <2>4. letters[h]["DiscardedAtShutdown"] = 0
    BY <2>1 DEF LettersMatch
  <2>5. ASSUME NEW c \in Calls, c # h
        PROVE  letters'[c] = letters[c] /\ fate'[c] = fate[c]
    BY <1>1, <2>1, <2>2, <2>3, <2>5
  <2>6. \A r \in Reasons : letters'[h][r] =
           IF RecordsDiscard(h) /\ r = "DiscardedAtShutdown" THEN 1 ELSE letters[h][r]
    BY <1>1, <2>1, <2>3, <2>4
  <2>7. fate'[h] = "swept" /\ (RecordsDiscard(h) => Op[h] = "tell" \/ stage[h] \in GivenUp)
        /\ (Op[h] = "tell" => RecordsDiscard(h))
    BY <1>1, <2>1, <2>2 DEF RecordsDiscard
  <2> QED BY <1>1, <2>1, <2>2, <2>5, <2>6, <2>7 DEF LettersMatch
<1>4. CASE /\ TaskStep \/ HookPanic \/ Abort \/ RefStep \/ UNCHANGED vars
           /\ ~SweepOne("mail") /\ ~SweepOne("prio")
  <2>1. Serves
    BY <1>4, TaskServes
  <2>2. UNCHANGED letters
    BY <1>4 DEF TaskStep, RefStep, Kill, DropRefs, Upgrade, Subscribe, SubscribePush,
       FirstPoll, OnStartOk, PollTerm, PollSub, PollIdle, Wake, OnStartErr, HookPanic,
       Abort, OnStopOk, OnStopErr, Leave, PollPrio, PollMail, StartHandler, BeginGraceful,
       HandlerDone, Drain, SweepMail, SweepPrio, SweepEnd, DropMail, DropPrio, DropRx,
       OnIdleOk, OnIdleErr, DrainWake, DrainQuiet, CloseTerm, CloseMail, ClosePrio,
       CloseSub, CloseBox, BeginStop, vars
  <2> QED BY <1>4, <2>1, <2>2 DEF Serves, LettersMatch, GivenUp
<1>5. ASSUME NEW c \in Calls, NEW out \in Stages, NEW r \in Reasons,
             r # "DiscardedAtShutdown",
             stage[c] \notin GivenUp \cup {"errSend", "errReceive"},
             letters' = Record(letters, c, r), fate' = fate,
             <<out, r>> \in {<<"errSend", "ActorStopped">>, <<"errTimeout", "Timeout">>,
                             <<"errReceive", "ReplyDropped">>},
             stage'[c] = out,
             \A d \in Calls : d # c => \/ stage'[d] = stage[d]
                                       \/ stage[d] = "wait" /\ stage'[d] = "granted"
      PROVE  LettersMatch'
  <2>1. \A d \in Calls : d # c => letters'[d] = letters[d]
    BY <1>1, <1>2, <1>5
  <2>2. \A s \in Reasons : letters'[c][s] = IF s = r THEN letters[c][s] + 1 ELSE letters[c][s]
    BY <1>1, <1>2, <1>5
  <2>3. letters[c][r] = 0 /\ letters[c]["DiscardedAtShutdown"] = IF fate[c] = "swept" /\ Op[c] = "tell" THEN 1 ELSE letters[c]["DiscardedAtShutdown"]
    BY <1>1, <1>5 DEF LettersMatch, GivenUp
  <2> QED BY <1>1, <1>5, <2>1, <2>2, <2>3 DEF LettersMatch, GivenUp
<1>6. ASSUME NEW c \in Calls, UNCHANGED letters,
             stage[c] \notin GivenUp \cup {"errSend", "errReceive"},
             stage'[c] \notin {"errSend", "errReceive", "errTimeout"},
             fate' = fate \/ (stage[c] = "permit" /\ \E f \in {"queued", "leaked"} : fate' = [fate EXCEPT ![c] = f]),
             \A d \in Calls : d # c => \/ stage'[d] = stage[d]
                                       \/ stage[d] = "wait" /\ stage'[d] = "granted"
      PROVE  LettersMatch'
  <2>1. fate'[c] = "swept" <=> fate[c] = "swept"
    BY <1>1, <1>6 DEF StageBoundsFate
  <2>2. \A d \in Calls : d # c => fate'[d] = fate[d]
    BY <1>1, <1>6
  <2> QED BY <1>1, <1>6, <2>1, <2>2 DEF LettersMatch, GivenUp
<1>7. ASSUME NEW c \in Calls, StartCall(c) \/ PollSend(c) PROVE LettersMatch'
  <2>1. /\ stage[c] \notin GivenUp \cup {"errSend", "errReceive"} /\ fate' = fate
        /\ \A d \in Calls : d # c => stage'[d] = stage[d]
    BY <1>1, <1>7 DEF StartCall, PollSend, Refuse, GivenUp, Waiting
  <2>2. CASE Refuse(c) /\ Op[c] # "stop"
    <3>1. stage'[c] = "errSend" /\ letters' = Record(letters, c, "ActorStopped")
      BY <1>1, <2>2 DEF Refuse
    <3>2. "errSend" \in Stages /\ "ActorStopped" \in Reasons
      BY <1>1 DEF Stages
    <3> QED BY <1>5, <2>1, <3>1, <3>2
  <2>3. CASE ~(Refuse(c) /\ Op[c] # "stop")
    <3>1. stage'[c] \notin {"errSend", "errReceive", "errTimeout"} /\ UNCHANGED letters
      BY <1>1, <1>7, <2>3 DEF StartCall, PollSend, Refuse
    <3> QED BY <1>6, <2>1, <3>1
  <2> QED BY <2>2, <2>3
<1>8. ASSUME NEW c \in Calls, Push(c) PROVE LettersMatch'
  <2>1. /\ stage[c] = "permit" /\ UNCHANGED letters
        /\ stage' = [stage EXCEPT ![c] = IF Op[c] = "ask" THEN "awaiting" ELSE "ok"]
        /\ \E f \in {"queued", "leaked"} : fate' = [fate EXCEPT ![c] = f]
    BY <1>8 DEF Push
  <2> QED BY <1>1, <1>6, <2>1 DEF GivenUp
<1>9. ASSUME NEW c \in Calls, ReceiveReply(c) PROVE LettersMatch'
  <2>1. /\ stage[c] = "awaiting" /\ fate' = fate
        /\ \A d \in Calls : d # c => stage'[d] = stage[d]
    BY <1>1, <1>9 DEF ReceiveReply
  <2>2. CASE stage' = [stage EXCEPT ![c] = "ok"] /\ UNCHANGED letters
    BY <1>1, <1>6, <2>1, <2>2 DEF GivenUp
  <2>3. CASE /\ stage' = [stage EXCEPT ![c] = "errReceive"]
             /\ letters' = Record(letters, c, "ReplyDropped")
    BY <1>1, <1>5, <2>1, <2>3 DEF GivenUp, Stages
  <2> QED BY <1>9, <2>2, <2>3 DEF ReceiveReply
<1>10. ASSUME NEW c \in Calls, TimeOut(c) \/ Cancel(c) PROVE LettersMatch'
  <2>1. PICK out \in GivenUp : /\ DropFuture(c, out)
                               /\ \/ /\ out = "errTimeout"
                                     /\ letters' = Record(letters, c, "Timeout")
                                  \/ out = "cancelled" /\ UNCHANGED letters
    BY <1>10 DEF TimeOut, Cancel, GivenUp
  <2>2. stage[c] \notin GivenUp \cup {"errSend", "errReceive"}
    BY <2>1 DEF DropFuture, Waiting, GivenUp
  <2>3. /\ stage'[c] = out /\ fate' = fate
        /\ \A d \in Calls : d # c => \/ stage'[d] = stage[d]
                                     \/ stage[d] = "wait" /\ stage'[d] = "granted"
    BY <2>1, GiveUpEffect
  <2>4. out \in Stages /\ "Timeout" \in Reasons
    BY <1>1 DEF Stages
  <2>5. CASE out = "errTimeout" /\ letters' = Record(letters, c, "Timeout")
    BY <1>5, <2>2, <2>3, <2>4, <2>5
  <2>6. CASE out = "cancelled" /\ UNCHANGED letters
    BY <1>6, <2>2, <2>3, <2>6
  <2> QED BY <2>1, <2>5, <2>6
<1>11. "mail" \in Mailboxes /\ "prio" \in Mailboxes
  BY DEF Mailboxes
<1> QED BY <1>3, <1>4, <1>7, <1>8, <1>9, <1>10, <1>11 DEF Next, CallStep

\* The task closes, and at the end drops, its receivers in one order.
LEMMA ReceiversStep ==
    ASSUME TypeOK, ReceiversFollowTask, [Next]_vars
    PROVE  ReceiversFollowTask'
<1> USE DEF callVars, chanVars, taskVars, refVars
<1>1. rx \in [Receivers -> RxStates] /\ Receivers = {"mail", "prio", "term", "sub"}
  BY DEF TypeOK, Receivers
<1>2. ASSUME UNCHANGED <<pc, result, rx>> PROVE ReceiversFollowTask'
  BY <1>2 DEF ReceiversFollowTask
<1>3. ASSUME pc \notin ShutdownPcs, pc' \notin ShutdownPcs, UNCHANGED result,
             rx'["term"] = rx["term"], rx'["mail"] = rx["mail"],
             \/ rx'["prio"] = rx["prio"] /\ (pc' \in ServingPcs => pc \in ServingPcs)
             \/ rx'["prio"] = "absent"
             \/ rx["prio"] # "gone" /\ rx'["prio"] = Closed(rx, "prio")["prio"] /\ pc' \notin ServingPcs
      PROVE  ReceiversFollowTask'
  <2>1. /\ rx'["prio"] = "gone" => rx["prio"] = "gone"
        /\ pc' \in ServingPcs => rx'["prio"] \in {"open", "absent"}
    BY <1>1, <1>3 DEF Closed, ReceiversFollowTask
  <2>2. /\ pc' \notin {"drop_prio", "done"} \cup SweptPcs["prio"] \cup {"sweep_prio"}
        /\ pc \notin {"drop_prio", "done"} \cup SweptPcs["prio"] \cup {"sweep_prio"}
    BY <1>3 DEF ShutdownPcs, SweptPcs
  <2> QED BY <1>1, <1>3, <2>1, <2>2 DEF ReceiversFollowTask
<1>4. CASE RefStep \/ \E c \in Calls : CallStep(c)
  BY <1>2, <1>4 DEF RefStep, Kill, DropRefs, Upgrade, Subscribe, SubscribePush,
     CallStep, StartCall, PollSend, Push, ReceiveReply, TimeOut, Cancel, DropFuture
<1>5. CASE OnStartErr \/ HookPanic \/ Abort \/ OnStopOk \/ OnStopErr
  <2>1. /\ pc' = "close_term" /\ rx' = rx /\ result' # Running
        /\ pc \notin ShutdownPcs
    BY <1>5 DEF OnStartErr, HookPanic, Abort, OnStopOk, OnStopErr, Leave, Failed,
       Completed, JoinError, Running, HookPcs, AwaitPcs, HandlerPcs, ShutdownPcs
  <2> QED BY <1>1, <2>1 DEF ReceiversFollowTask, ShutdownPcs, SweptPcs, ServingPcs,
          LoopPcs
<1>6. ASSUME NEW ch, NEW label \in HandlerPcs, StartHandler(ch, label), pc \notin ShutdownPcs,
             label \in ServingPcs => pc \in ServingPcs
      PROVE  ReceiversFollowTask'
  BY <1>3, <1>6 DEF StartHandler, HandlerPcs, ShutdownPcs
<1>7. {"handler", "drain_handler"} = HandlerPcs
  BY DEF HandlerPcs
<1>8. CASE PollPrio
  <2>1. pc \notin ShutdownPcs /\ pc \in ServingPcs
    BY <1>8 DEF PollPrio, ShutdownPcs, ServingPcs, LoopPcs
  <2>2. CASE StartHandler("prio", "handler")
    BY <1>6, <1>7, <2>1, <2>2
  <2>3. CASE /\ pc' \in {LoopStart, "poll_sub"} /\ UNCHANGED result
             /\ rx' = rx \/ rx' = [rx EXCEPT !["prio"] = "absent"]
    BY <1>1, <1>3, <2>1, <2>3 DEF LoopStart, ShutdownPcs
  <2> QED BY <1>8, <2>2, <2>3 DEF PollPrio, Goto
<1>9. ASSUME NEW why, BeginGraceful(why), pc = "poll_mail" PROVE ReceiversFollowTask'
  <2>1. pc \notin ShutdownPcs /\ pc' \in {"drain", "on_stop"} /\ UNCHANGED result
    BY <1>9 DEF BeginGraceful, ShutdownPcs
  <2>2. pc' \notin ShutdownPcs /\ pc' \notin ServingPcs
    BY <2>1 DEF ShutdownPcs, ServingPcs, LoopPcs
  <2>3. rx' = Closed(Closed(rx, "sub"), "prio")
    BY <1>9 DEF BeginGraceful
  <2>4. /\ rx'["term"] = rx["term"] /\ rx'["mail"] = rx["mail"]
        /\ rx'["prio"] = Closed(rx, "prio")["prio"]
    BY <1>1, <2>3 DEF Closed
  <2>5. rx["prio"] # "gone"
    BY <1>9 DEF ReceiversFollowTask
  <2> QED BY <1>3, <2>1, <2>2, <2>4, <2>5
<1>10. CASE PollMail
  <2>1. pc \notin ShutdownPcs /\ pc \in ServingPcs
    BY <1>10 DEF PollMail, ShutdownPcs, ServingPcs, LoopPcs
  <2>2. CASE StartHandler("mail", "handler")
    BY <1>6, <1>7, <2>1, <2>2
  <2>3. CASE Goto("poll_idle") /\ rx' = rx
    BY <1>3, <2>1, <2>3 DEF Goto, ShutdownPcs
  <2> QED BY <1>9, <1>10, <2>2, <2>3 DEF PollMail
<1>11. CASE PollSub \/ PollTerm \/ OnIdleErr
  <2>1. pc \notin ShutdownPcs /\ pc \in ServingPcs /\ UNCHANGED result
    BY <1>11 DEF PollSub, PollTerm, OnIdleErr, ShutdownPcs, ServingPcs, LoopPcs, Goto,
       BeginStop
  <2>2. pc' \in {LoopStart, "poll_mail", "poll_prio", "on_stop"}
    BY <1>11 DEF PollSub, PollTerm, OnIdleErr, Goto, BeginStop
  <2>3. rx' \in {rx, Closed(rx, "sub"), [rx EXCEPT !["sub"] = "absent"]}
    BY <1>11 DEF PollSub, PollTerm, OnIdleErr, BeginStop
  <2>4. /\ rx'["term"] = rx["term"] /\ rx'["mail"] = rx["mail"] /\ rx'["prio"] = rx["prio"]
    BY <1>1, <2>3 DEF Closed
  <2>5. pc' \notin ShutdownPcs
    BY <2>2 DEF LoopStart, ShutdownPcs
  <2> QED BY <1>3, <2>1, <2>4, <2>5
<1>12. CASE Drain
  <2>1. pc \notin ShutdownPcs
    BY <1>12 DEF Drain, ShutdownPcs
  <2>2. CASE StartHandler("prio", "drain_handler")
    BY <1>6, <1>7, <2>1, <2>2 DEF ServingPcs, LoopPcs
  <2>3. CASE pc' \in {"on_stop", "drain_wait"} /\ UNCHANGED <<rx, result>>
    BY <1>3, <2>1, <2>3 DEF ServingPcs, LoopPcs, ShutdownPcs
  <2> QED BY <1>12, <2>2, <2>3 DEF Drain, Goto
<1>13. CASE \/ FirstPoll \/ OnStartOk \/ PollIdle \/ Wake \/ HandlerDone \/ OnIdleOk
            \/ DrainWake \/ DrainQuiet
  <2>1. /\ UNCHANGED <<rx, result>>
        /\ \/ /\ pc \in ServingPcs
              /\ pc' \in {"on_start", LoopStart, "on_idle", "parked", "poll_idle"}
           \/ pc \in {"drain_handler", "drain_wait"} /\ pc' \in {"drain", "on_stop"}
    BY <1>13 DEF FirstPoll, OnStartOk, PollIdle, Wake, HandlerDone, OnIdleOk, DrainWake,
       DrainQuiet, QuietTimer, Goto, ServingPcs, LoopPcs, HandlerPcs
  <2>2. pc \notin ShutdownPcs /\ pc' \notin ShutdownPcs
        /\ (pc' \in ServingPcs => pc \in ServingPcs)
    BY <2>1 DEF ServingPcs, LoopPcs, ShutdownPcs, LoopStart
  <2> QED BY <1>3, <2>1, <2>2
<1>14. CASE CloseTerm
  <2>1. /\ pc = "close_term" /\ pc' = "close_mail" /\ UNCHANGED result
        /\ rx' = [rx EXCEPT !["term"] = "closed"]
    BY <1>14 DEF CloseTerm, Goto
  <2> QED BY <1>1, <2>1 DEF ReceiversFollowTask, ShutdownPcs, SweptPcs, ServingPcs, LoopPcs
<1>15. CASE CloseMail \/ ClosePrio \/ CloseSub
  <2>1. PICK r \in {"mail", "prio", "sub"} :
          /\ pc = IF r = "mail" THEN "close_mail" ELSE IF r = "prio" THEN "close_prio" ELSE "close_sub"
          /\ pc' = IF r = "mail" THEN "sweep_mail" ELSE IF r = "prio" THEN "sweep_prio" ELSE "drop_mail"
          /\ rx' = Closed(rx, r) /\ UNCHANGED result
    BY <1>15 DEF CloseMail, ClosePrio, CloseSub, CloseBox, Goto
  <2>2. /\ rx'[r] # "open" /\ (rx[r] = "open" => rx'[r] = "closed")
        /\ (rx[r] # "open" => rx'[r] = rx[r])
        /\ \A x \in Receivers : x # r => rx'[x] = rx[x]
    BY <1>1, <2>1 DEF Closed
  <2> QED BY <1>1, <2>1, <2>2 DEF ReceiversFollowTask, ShutdownPcs, SweptPcs, ServingPcs,
          LoopPcs
<1>16. CASE SweepMail \/ SweepPrio
  <2>1. \/ UNCHANGED <<pc, rx, result>>
        \/ /\ UNCHANGED <<rx, result>>
           /\ \/ pc = "sweep_mail" /\ pc' = AfterMailSweep
              \/ pc = "sweep_prio" /\ pc' = "close_sub"
    BY <1>16 DEF SweepMail, SweepPrio, SweepOne, SweepEnd, Goto
  <2> QED BY <1>1, <1>2, <2>1 DEF ReceiversFollowTask, ShutdownPcs, SweptPcs, ServingPcs,
          LoopPcs, AfterMailSweep
<1>17. CASE DropMail \/ DropPrio
  <2>1. PICK r \in {"mail", "prio"} :
          /\ pc = IF r = "mail" THEN "drop_mail" ELSE "drop_prio"
          /\ pc' = IF r = "mail" THEN "drop_prio" ELSE "done"
          /\ rx' = [rx EXCEPT ![r] = IF @ = "absent" THEN "absent" ELSE "gone"]
          /\ UNCHANGED result
    BY <1>17 DEF DropMail, DropPrio, DropRx, Goto
  <2> QED BY <1>1, <2>1 DEF ReceiversFollowTask, ShutdownPcs, SweptPcs, ServingPcs,
          LoopPcs
<1>18. CASE UNCHANGED vars
  BY <1>2, <1>18 DEF vars
<1> QED BY <1>4, <1>5, <1>8, <1>10, <1>11, <1>12, <1>13, <1>14, <1>15, <1>16, <1>17,
           <1>18 DEF Next, TaskStep

\* The loop gives up on a channel only when no reference is left, and nobody
\* starts to use a channel that is absent.
LEMMA AbsentStep ==
    ASSUME TypeOK, BufferHoldsQueued, WaitersWait, OneHandler, AbsentIsUnused, [Next]_vars
    PROVE  AbsentIsUnused'
<1> USE DEF callVars, chanVars, taskVars, refVars
<1>1. /\ rx \in [Receivers -> RxStates] /\ Receivers = {"mail", "prio", "term", "sub"}
      /\ stage \in [Calls -> Stages] /\ fate \in [Calls -> Fates]
      /\ stream \in [Streams -> StreamStates] /\ PrioCalls \subseteq Calls
  BY DEF TypeOK, Receivers, PrioCalls
<1> DEFINE Idle(c) == stage[c] \notin InFlight /\ fate[c] # "queued"
           Out(s) == stream[s] \notin {"permit", "queued"}
<1>2. ASSUME rx'["prio"] = "absent" => rx["prio"] = "absent" \/ \A c \in PrioCalls : Idle(c),
             rx'["sub"] = "absent" => rx["sub"] = "absent" \/ \A s \in Streams : Out(s),
             \A c \in Calls : Idle(c) /\ Chan[c] = "prio" /\ rx'["prio"] = "absent" => Idle(c)',
             \A s \in Streams : Out(s) /\ rx'["sub"] = "absent" => Out(s)'
      PROVE  AbsentIsUnused'
  BY <1>1, <1>2 DEF AbsentIsUnused, PrioCalls
<1>3. ASSUME Serves PROVE \A c \in Calls : Idle(c) => Idle(c)'
  BY <1>3 DEF Serves, InFlight, Waiting
<1>4. ASSUME NEW c \in Calls, CallStep(c) PROVE AbsentIsUnused'
  <2>1. rx' = rx /\ stream' = stream
    BY <1>4 DEF CallStep, StartCall, PollSend, Push, ReceiveReply, TimeOut, Cancel, DropFuture
  <2>2. CASE StartCall(c)
    <3>1. \A d \in Calls : d # c => stage'[d] = stage[d]
      BY <1>1, <2>2 DEF StartCall, Refuse
    <3>2. fate' = fate /\ (Chan[c] = "prio" /\ rx["prio"] = "absent" => stage'[c] = "errNotEnabled")
      BY <1>1, <2>2 DEF StartCall
    <3> QED BY <1>1, <1>2, <2>1, <3>1, <3>2 DEF InFlight, Waiting
  <2>3. CASE PollSend(c) \/ Push(c) \/ ReceiveReply(c)
    <3>1. ~Idle(c)
      BY <2>3 DEF PollSend, Push, ReceiveReply, InFlight, Waiting
    <3>2. \A d \in Calls : d # c => stage'[d] = stage[d]
      BY <1>1, <2>3 DEF PollSend, Push, ReceiveReply, Refuse
    <3>3. \/ fate' = fate
          \/ \E f \in {"queued", "leaked"} : fate' = [fate EXCEPT ![c] = f]
      <4>1. CASE Push(c)
        BY <4>1 DEF Push
      <4>2. CASE PollSend(c) \/ ReceiveReply(c)
        BY <4>2 DEF PollSend, ReceiveReply
      <4> QED BY <2>3, <4>1, <4>2
    <3>4. \A d \in Calls : d # c => fate'[d] = fate[d]
      BY <1>1, <3>3
    <3> QED BY <1>1, <1>2, <2>1, <3>1, <3>2, <3>4
  <2>4. CASE TimeOut(c) \/ Cancel(c)
    <3>1. PICK out \in GivenUp : DropFuture(c, out)
      BY <2>4 DEF TimeOut, Cancel, GivenUp
    <3>2. /\ fate' = fate
          /\ \A d \in Calls : d # c => \/ stage'[d] = stage[d]
                                       \/ stage[d] = "wait" /\ stage'[d] = "granted"
      BY <3>1, GiveUpEffect
    <3>3. ~Idle(c)
      BY <3>1 DEF DropFuture, InFlight
    <3> QED BY <1>1, <1>2, <2>1, <3>2, <3>3 DEF InFlight, Waiting
  <2> QED BY <1>4, <2>2, <2>3, <2>4 DEF CallStep
<1>5. CASE PollPrio
  <2>1. Serves /\ stream' = stream
    BY <1>5, TaskServes DEF TaskStep, PollPrio, StartHandler
  <2>2. rx'["sub"] = rx["sub"]
    BY <1>1, <1>5 DEF PollPrio, StartHandler
  <2>3. rx'["prio"] = "absent" => rx["prio"] = "absent" \/ ~HasStrong
    BY <1>1, <1>5 DEF PollPrio, StartHandler
  <2>4. ~HasStrong => \A c \in Calls : Idle(c)
    BY DEF HasStrong
  <2> QED BY <1>1, <1>2, <1>3, <2>1, <2>2, <2>3, <2>4
<1>6. CASE PollSub
  <2>1. Serves /\ rx'["prio"] = rx["prio"]
    BY <1>1, <1>6, TaskServes DEF TaskStep, PollSub
  <2>2. \A s \in Streams : Out(s) => Out(s)'
    BY <1>1, <1>6 DEF PollSub, QueuedStreams
  <2>3. rx'["sub"] = "absent" => rx["sub"] = "absent" \/ \A s \in Streams : Out(s)
    BY <1>1, <1>6 DEF PollSub, QueuedStreams, HasStrong
  <2> QED BY <1>1, <1>2, <1>3, <2>1, <2>2, <2>3
<1>7. CASE RefStep
  <2>1. rx' = rx /\ UNCHANGED <<stage, fate>>
    BY <1>7 DEF RefStep, Kill, DropRefs, Upgrade, Subscribe, SubscribePush
  <2>2. \A s \in Streams : Out(s) /\ rx'["sub"] = "absent" => Out(s)'
    BY <1>1, <1>7 DEF RefStep, Kill, DropRefs, Upgrade, Subscribe, SubscribePush
  <2> QED BY <1>1, <1>2, <2>1, <2>2
<1>8. CASE (TaskStep /\ ~PollPrio /\ ~PollSub) \/ HookPanic \/ Abort \/ UNCHANGED vars
  <2>1. Serves
    BY <1>8, TaskServes
  <2>2. \A r \in {"prio", "sub"} : rx'[r] = "absent" => rx[r] = "absent"
    <3>1. CASE rx' = rx
      BY <3>1
    <3>2. CASE \E r \in Receivers : rx' = Closed(rx, r)
      BY <1>1, <3>2 DEF Closed
    <3>3. CASE rx' = Closed(Closed(rx, "sub"), "prio")
      BY <1>1, <3>3 DEF Closed
    <3>4. CASE CloseTerm \/ DropMail \/ DropPrio
      BY <1>1, <3>4 DEF CloseTerm, DropMail, DropPrio, DropRx
    <3> QED BY <1>1, <1>8, <3>1, <3>2, <3>3, <3>4 DEF TaskStep, FirstPoll, OnStartOk,
       OnStartErr, PollTerm, PollMail, PollIdle, Wake, HandlerDone, OnIdleOk, OnIdleErr, Drain,
       DrainWake, DrainQuiet, OnStopOk, OnStopErr, CloseMail, ClosePrio, CloseBox,
       SweepMail, SweepPrio, SweepOne, SweepEnd, CloseSub, HookPanic, Abort, Leave,
       StartHandler, BeginGraceful, BeginStop, vars
  <2>3. \A s \in Streams : Out(s) => Out(s)'
    BY <1>1, <1>8 DEF TaskStep, FirstPoll, OnStartOk, Goto, QueuedStreams, MergedStreams,
       OnStartErr, PollTerm, PollMail, PollIdle, Wake, HandlerDone, OnIdleOk, OnIdleErr, Drain,
       DrainWake, DrainQuiet, OnStopOk, OnStopErr, CloseTerm, CloseMail, ClosePrio, CloseBox,
       SweepMail, SweepPrio, SweepOne, SweepEnd, CloseSub, DropMail, DropPrio, DropRx,
       HookPanic, Abort, Leave, StartHandler, BeginGraceful, BeginStop, vars
  <2> QED BY <1>1, <1>2, <1>3, <2>1, <2>2, <2>3
<1> QED BY <1>4, <1>5, <1>6, <1>7, <1>8 DEF Next

\* What is queued behind the final drain, or destroyed with its receiver, was
\* pushed after the drain.
LEMMA MissedStep ==
    ASSUME TypeOK, BufferHoldsQueued, WaitersWait, OneHandler, ReceiversFollowTask,
           AbsentIsUnused, MissedIsRaced, [Next]_vars
    PROVE  MissedIsRaced'
<1> USE DEF callVars, chanVars, taskVars, refVars, histVars
<1>1. /\ fate \in [Calls -> Fates] /\ raced \subseteq Calls
      /\ Chan \in [Calls -> Mailboxes] /\ Mailboxes = {"mail", "prio"}
  BY CallAssumption DEF TypeOK, Mailboxes
<1>2. ASSUME NEW c \in Calls, Push(c) PROVE MissedIsRaced'
  <2>1. rx[Chan[c]] = "gone" => pc \in SweptPcs[Chan[c]]
    BY <1>1, <1>2 DEF ReceiversFollowTask, SweptPcs
  <2>2. /\ pc' = pc
        /\ raced' = IF pc \in SweptPcs[Chan[c]] THEN raced \cup {c} ELSE raced
        /\ \/ rx[Chan[c]] = "gone" /\ fate' = [fate EXCEPT ![c] = "leaked"]
           \/ fate' = [fate EXCEPT ![c] = "queued"]
    BY <1>2 DEF Push
  <2> QED BY <1>1, <2>1, <2>2 DEF MissedIsRaced
<1>3. ASSUME NEW c \in Calls, CallStep(c), ~Push(c) PROVE MissedIsRaced'
  BY <1>3 DEF CallStep, StartCall, PollSend, ReceiveReply, TimeOut, Cancel, DropFuture,
     MissedIsRaced
<1>4. ASSUME Serves, UNCHANGED raced,
             \A c \in Calls : fate[c] = "queued" /\ pc' \in SweptPcs[Chan[c]] =>
               pc \in SweptPcs[Chan[c]] \/ fate'[c] # "queued"
      PROVE  MissedIsRaced'
  BY <1>4 DEF Serves, MissedIsRaced
<1>5. CASE TaskStep \/ HookPanic \/ Abort \/ RefStep \/ UNCHANGED vars
  <2>1. Serves
    BY <1>5, TaskServes
  <2>2. UNCHANGED raced
    BY <1>5 DEF TaskStep, RefStep, Kill, DropRefs, Upgrade, Subscribe, SubscribePush,
       FirstPoll, OnStartOk, PollTerm, PollSub, PollIdle, Wake, OnStartErr, HookPanic,
       Abort, OnStopOk, OnStopErr, Leave, PollPrio, PollMail, StartHandler, BeginGraceful,
       HandlerDone, Drain, SweepMail, SweepPrio, SweepOne, SweepEnd, DropMail, DropPrio,
       DropRx, OnIdleOk, OnIdleErr, DrainWake, DrainQuiet, CloseTerm, CloseMail, ClosePrio,
       CloseSub, CloseBox, BeginStop, vars
  <2>3. CASE SweepEnd("mail", AfterMailSweep) /\ pc = "sweep_mail"
    <3>1. \A c \in Calls : Chan[c] = "mail" => fate[c] # "queued"
      BY <1>1, <2>3, EmptyQueue DEF SweepEnd, BufferHoldsQueued
    <3>2. pc' = "close_prio" \/ (pc' = "close_sub" /\ rx["prio"] = "absent")
      BY <2>3 DEF SweepEnd, Goto, AfterMailSweep
    <3>3. \A c \in Calls : Chan[c] = "prio" /\ rx["prio"] = "absent" => fate[c] # "queued"
      BY DEF AbsentIsUnused, PrioCalls
    <3> QED BY <1>1, <1>4, <2>1, <2>2, <3>1, <3>2, <3>3 DEF SweptPcs
  <2>4. CASE SweepEnd("prio", "close_sub") /\ pc = "sweep_prio"
    <3>1. \A c \in Calls : Chan[c] = "prio" => fate[c] # "queued"
      BY <1>1, <2>4, EmptyQueue DEF SweepEnd, BufferHoldsQueued
    <3>2. pc \in SweptPcs["mail"]
      BY <2>4 DEF SweptPcs
    <3> QED BY <1>1, <1>4, <2>1, <2>2, <3>1, <3>2
  <2>5. CASE pc' \notin SweptPcs["mail"]
    <3>1. pc' \notin SweptPcs["prio"]
      BY <2>5 DEF SweptPcs
    <3> QED BY <1>1, <1>4, <2>1, <2>2, <2>5, <3>1
  <2>6. CASE pc' = pc
    BY <1>4, <2>1, <2>2, <2>6
  <2>7. CASE ClosePrio \/ CloseSub \/ DropMail \/ DropPrio
    <3>1. \/ pc = "close_prio" /\ pc' = "sweep_prio"
          \/ pc = "close_sub" /\ pc' = "drop_mail"
          \/ pc = "drop_mail" /\ pc' = "drop_prio"
          \/ pc = "drop_prio" /\ pc' = "done"
      BY <2>7 DEF ClosePrio, CloseSub, DropMail, DropPrio, DropRx, Goto
    <3> QED BY <1>1, <1>4, <2>1, <2>2, <3>1 DEF SweptPcs
  <2>8. CASE \/ FirstPoll \/ OnStartOk \/ OnStartErr \/ PollTerm \/ PollPrio \/ PollSub
             \/ PollMail \/ PollIdle \/ Wake \/ HandlerDone \/ OnIdleOk \/ OnIdleErr
             \/ Drain \/ DrainWake \/ DrainQuiet \/ OnStopOk \/ OnStopErr \/ CloseTerm
             \/ CloseMail \/ HookPanic \/ Abort
    <3>1. pc' \in {"on_start", "poll_term", "close_term", "on_stop", "poll_prio", "poll_sub",
                   "handler", "poll_mail", "poll_idle", "on_idle", "parked", "drain",
                   "drain_wait", "drain_handler", "close_mail", "sweep_mail"}
      BY <2>8 DEF FirstPoll, OnStartOk, OnStartErr, PollTerm, PollPrio, PollSub, PollMail,
         PollIdle, Wake, HandlerDone, OnIdleOk, OnIdleErr, Drain, DrainWake, DrainQuiet,
         OnStopOk, OnStopErr, CloseTerm, CloseMail, HookPanic, Abort, Leave, Goto, LoopStart,
         StartHandler, BeginGraceful, BeginStop
    <3> QED BY <2>5, <3>1 DEF SweptPcs
  <2>9. CASE RefStep \/ UNCHANGED vars
    BY <2>6, <2>9 DEF RefStep, Kill, DropRefs, Upgrade, Subscribe, SubscribePush, vars
  <2>10. CASE SweepOne("mail") \/ SweepOne("prio")
    BY <2>6, <2>10 DEF SweepOne
  <2> QED BY <1>5, <2>3, <2>4, <2>7, <2>8, <2>9, <2>10 DEF TaskStep, SweepMail, SweepPrio
<1> QED BY <1>2, <1>3, <1>5 DEF Next

\* Nothing enters or stays in a mailbox whose receiver was dropped.
LEMMA GoneStep ==
    ASSUME TypeOK, BufferHoldsQueued, WaitersWait, StageBoundsFate, OneHandler,
           ReceiversFollowTask, GoneIsEmpty, [Next]_vars
    PROVE  GoneIsEmpty'
<1> USE DEF callVars, chanVars, taskVars, refVars, histVars
<1>1. /\ fate \in [Calls -> Fates] /\ rx \in [Receivers -> RxStates]
      /\ Chan \in [Calls -> Mailboxes] /\ Mailboxes \subseteq Receivers
      /\ Mailboxes = {"mail", "prio"}
  BY CallAssumption DEF TypeOK, Mailboxes, Receivers
<1>2. ASSUME NEW c \in Calls, CallStep(c) PROVE GoneIsEmpty'
  <2>1. CASE Push(c)
    <3>1. rx' = rx /\ fate' = [fate EXCEPT ![c] = IF rx[Chan[c]] = "gone" THEN "leaked" ELSE "queued"]
      BY <2>1 DEF Push
    <3> QED BY <1>1, <3>1 DEF GoneIsEmpty
  <2>2. CASE ~Push(c)
    BY <1>2, <2>2 DEF CallStep, StartCall, PollSend, ReceiveReply, TimeOut, Cancel,
       DropFuture, GoneIsEmpty
  <2> QED BY <2>1, <2>2
<1>3. CASE DropMail \/ DropPrio
  <2>1. PICK ch \in Mailboxes : \E label : DropRx(ch, label)
    BY <1>1, <1>3 DEF DropMail, DropPrio
  <2> QED BY <1>1, <2>1 DEF DropRx, GoneIsEmpty
<1>4. CASE /\ TaskStep \/ HookPanic \/ Abort \/ RefStep \/ UNCHANGED vars
           /\ ~DropMail /\ ~DropPrio
  <2>1. Serves
    BY <1>4, TaskServes
  <2>2. \A m \in Mailboxes : rx'[m] = "gone" => rx[m] = "gone"
    <3>1. CASE rx' = rx
      BY <3>1
    <3>2. CASE \E r \in Receivers : rx' = Closed(rx, r)
      BY <1>1, <3>2 DEF Closed
    <3>3. CASE rx' = Closed(Closed(rx, "sub"), "prio")
      BY <1>1, <3>3 DEF Closed
    <3>4. CASE CloseTerm \/ PollPrio \/ PollSub
      BY <1>1, <3>4 DEF CloseTerm, PollPrio, PollSub, StartHandler
    <3>5. "sub" \in Receivers
      BY DEF Receivers
    <3> QED BY <1>1, <1>4, <3>1, <3>2, <3>3, <3>4, <3>5 DEF TaskStep, FirstPoll, OnStartOk,
       OnStartErr, PollTerm, PollMail, PollIdle, Wake, HandlerDone, OnIdleOk, OnIdleErr, Drain,
       DrainWake, DrainQuiet, OnStopOk, OnStopErr, CloseMail, ClosePrio, CloseBox,
       SweepMail, SweepPrio, SweepOne, SweepEnd, CloseSub, HookPanic, Abort, Leave,
       StartHandler, BeginGraceful, BeginStop, RefStep, Kill, DropRefs, Upgrade, Subscribe,
       SubscribePush, vars
  <2> QED BY <1>1, <2>1, <2>2 DEF Serves, GoneIsEmpty
<1> QED BY <1>2, <1>3, <1>4 DEF Next, TaskStep

\* The graceful drain owes a handler run to what is queued or about to be
\* pushed, until it has run it or its quiet window has expired.
LEMMA DrainStep ==
    ASSUME TypeOK, BufferHoldsQueued, WaitersWait, StageBoundsFate, OneHandler,
           ReceiversFollowTask, AbsentIsUnused, DrainPays, [Next]_vars
    PROVE  DrainPays'
<1> USE DEF callVars, chanVars, taskVars, refVars, histVars
<1> DEFINE Owed(c) == fate[c] = "handled" \/ cur = c \/ c \in PrioDue
           Graceful == result.how \in {"Completed", "Failed"} /\ cause \in {"stop", "refs"}
           DrainPcs == {"drain", "drain_wait", "drain_handler"}
<1>1. /\ fate \in [Calls -> Fates] /\ stage \in [Calls -> Stages]
      /\ due \subseteq Calls /\ PrioCalls \subseteq Calls /\ Null \notin Calls
  BY NullAssumption DEF TypeOK, PrioCalls
<1>2. pc \notin ShutdownPcs => ~Graceful
  BY DEF ReceiversFollowTask, Running
<1>3. ASSUME NEW c \in Calls, CallStep(c) PROVE DrainPays'
  <2>1. UNCHANGED <<pc, cur, cause, result, due, stalled>>
    BY <1>3 DEF CallStep, StartCall, PollSend, Push, ReceiveReply, TimeOut, Cancel, DropFuture
  <2>2. CASE Push(c)
    <3>1. /\ stage[c] = "permit" /\ fate[c] = "unsent"
          /\ \A d \in Calls : d # c => fate'[d] = fate[d] /\ stage'[d] = stage[d]
          /\ rx[Chan[c]] # "gone" => fate'[c] = "queued"
      BY <1>1, <2>2 DEF Push, StageBoundsFate
    <3>2. c \in PrioCalls /\ pc \in DrainPcs => rx[Chan[c]] # "gone"
      BY DEF PrioCalls, ReceiversFollowTask
    <3>3. \A d \in Calls : fate[d] = "handled" => fate'[d] = "handled"
      BY <3>1
    <3>4. \A d \in due : Owed(d) /\ pc \in DrainPcs => Owed(d)'
      BY <1>1, <2>1, <3>1, <3>2 DEF PrioDue, PrioCalls
    <3> HIDE DEF Owed
    <3>5. pc \in DrainPcs => \A d \in due : Owed(d)
      BY DEF DrainPays, Owed
    <3> QED BY <1>1, <2>1, <3>3, <3>4, <3>5 DEF DrainPays, Owed
  <2>3. CASE ~Push(c)
    <3>1. fate' = fate
      BY <1>3, <2>3 DEF CallStep, StartCall, PollSend, ReceiveReply, TimeOut, Cancel,
         DropFuture
    <3>2. \A d \in Calls : stage[d] = "permit" => stage'[d] = "permit"
      <4>1. CASE TimeOut(c) \/ Cancel(c)
        <5>1. PICK out \in GivenUp : DropFuture(c, out)
          BY <4>1 DEF TimeOut, Cancel, GivenUp
        <5>2. stage[c] # "permit"
          BY <5>1 DEF DropFuture, Waiting
        <5> QED BY <5>1, <5>2, GiveUpEffect
      <4>2. CASE StartCall(c) \/ PollSend(c) \/ ReceiveReply(c)
        BY <1>1, <4>2 DEF StartCall, PollSend, ReceiveReply, Refuse, Waiting
      <4> QED BY <1>3, <2>3, <4>1, <4>2 DEF CallStep
    <3>3. \A d \in due : d \in PrioDue => d \in PrioDue'
      BY <1>1, <3>1, <3>2 DEF PrioDue, PrioCalls
    <3> QED BY <2>1, <3>1, <3>3 DEF DrainPays
  <2> QED BY <2>2, <2>3
<1>4. ASSUME UNCHANGED <<due, stalled>>, Serves,
             pc' \in ServingPcs => pc \in ServingPcs, pc' \notin DrainPcs,
             pc' = "on_stop" \/ Graceful' => Graceful \/ pc = "on_stop" \/ pc \in ServingPcs
      PROVE  DrainPays'
  <2>1. \A c \in Calls : fate[c] = "handled" => fate'[c] = "handled"
    BY <1>4 DEF Serves
  <2> QED BY <1>1, <1>4, <2>1 DEF DrainPays
<1>5. CASE RefStep \/ UNCHANGED vars
  <2>1. UNCHANGED <<pc, cur, cause, result, due, stalled, fate, stage>>
    BY <1>5 DEF RefStep, Kill, DropRefs, Upgrade, Subscribe, SubscribePush, vars
  <2>2. PrioDue' = PrioDue
    BY <2>1 DEF PrioDue, PrioCalls
  <2> QED BY <2>1, <2>2 DEF DrainPays
<1>6. CASE OnStartErr \/ HookPanic \/ Abort \/ OnStopOk \/ OnStopErr
  <2>1. Serves
    BY <1>6, TaskServes DEF TaskStep
  <2>2. /\ UNCHANGED <<due, stalled, cause>> /\ pc' = "close_term"
        /\ Graceful' => pc \in {"on_start", "on_stop"}
    BY <1>6 DEF OnStartErr, HookPanic, Abort, OnStopOk, OnStopErr, Leave, Failed,
       Completed, JoinError
  <2> QED BY <1>4, <2>1, <2>2 DEF ServingPcs, LoopPcs
<1>7. ASSUME NEW ch \in Mailboxes, StartHandler(ch, "handler"), pc \in ServingPcs,
             UNCHANGED <<due, stalled>>, Serves
      PROVE  DrainPays'
  <2>1. pc' = "handler" /\ UNCHANGED <<cause, result>>
    BY <1>7 DEF StartHandler
  <2> QED BY <1>4, <1>7, <2>1
<1>8. "mail" \in Mailboxes /\ "prio" \in Mailboxes
  BY DEF Mailboxes
<1>9. CASE PollPrio
  <2>1. Serves /\ UNCHANGED <<due, stalled>> /\ pc \in ServingPcs
    BY <1>9, TaskServes DEF TaskStep, PollPrio, ServingPcs, LoopPcs
  <2>2. CASE StartHandler("prio", "handler")
    BY <1>7, <1>8, <2>1, <2>2
  <2>3. CASE pc' \in {LoopStart, "poll_sub"} /\ UNCHANGED <<cause, result>>
    BY <1>4, <2>1, <2>3 DEF LoopStart
  <2> QED BY <1>9, <2>2, <2>3 DEF PollPrio, Goto
<1>10. ASSUME NEW why, BeginGraceful(why), pc = "poll_mail", Serves,
              \A c \in PrioCalls : fate'[c] = fate[c]
       PROVE  DrainPays'
  <2>1. /\ due' = PrioDue /\ UNCHANGED result
        /\ pc' = IF rx["prio"] = "open" THEN "drain" ELSE "on_stop"
    BY <1>10 DEF BeginGraceful
  <2>2. \A c \in PrioDue : c \in PrioDue'
    BY <1>1, <1>10 DEF PrioDue, Serves, PrioCalls
  <2>3. rx["prio"] # "open" => PrioDue = {}
    <3>1. rx["prio"] \in {"open", "absent"}
      BY <1>10 DEF ReceiversFollowTask, ServingPcs, LoopPcs
    <3> QED BY <3>1 DEF AbsentIsUnused, PrioDue, InFlight
  <2>4. ~Graceful'
    BY <1>10, <2>1 DEF ReceiversFollowTask, ShutdownPcs, Running
  <2> QED BY <2>1, <2>2, <2>3, <2>4 DEF DrainPays, ServingPcs, LoopPcs
<1>11. CASE PollMail
  <2>1. Serves /\ pc \in ServingPcs /\ pc = "poll_mail"
    BY <1>11, TaskServes DEF TaskStep, PollMail, ServingPcs, LoopPcs
  <2>2. CASE StartHandler("mail", "handler") /\ UNCHANGED <<due, stalled>>
    BY <1>7, <1>8, <2>1, <2>2
  <2>3. CASE /\ BeginGraceful("stop") /\ buf["mail"] # <<>>
             /\ buf' = [buf EXCEPT !["mail"] = Tail(@)]
             /\ fate' = [fate EXCEPT ![Head(buf["mail"])] = "handled"]
    <3>1. Head(buf["mail"]) \in Calls /\ Chan[Head(buf["mail"])] = "mail"
      BY <1>8, <2>3, TakeEffect
    <3>2. \A c \in PrioCalls : fate'[c] = fate[c]
      BY <1>1, <2>3, <3>1 DEF PrioCalls
    <3> QED BY <1>10, <2>1, <2>3, <3>2
  <2>4. CASE BeginGraceful("refs") /\ UNCHANGED fate
    BY <1>10, <2>1, <2>4
  <2>5. CASE Goto("poll_idle") /\ UNCHANGED <<due, stalled>>
    BY <1>4, <2>1, <2>5 DEF Goto
  <2> QED BY <1>11, <2>2, <2>3, <2>4, <2>5 DEF PollMail
<1>12. CASE Drain
  <2>1. /\ Serves /\ pc = "drain" /\ UNCHANGED <<due, stalled>> /\ cur = Null
    BY <1>12, TaskServes DEF TaskStep, Drain, OneHandler, HandlerPcs
  <2>2. \A c \in due : fate[c] = "handled" \/ c \in PrioDue
    BY <1>1, <2>1 DEF DrainPays
  <2>3. ~Graceful
    BY <1>2, <2>1 DEF ShutdownPcs
  <2>4. CASE StartHandler("prio", "drain_handler")
    <3> DEFINE h == Head(buf["prio"])
    <3>1. h \in Calls /\ fate[h] = "queued"
      BY <1>8, <2>4, TakeEffect DEF StartHandler, TakeHead
    <3>2. /\ pc' = "drain_handler" /\ cur' = h /\ UNCHANGED <<cause, result>>
          /\ fate' = [fate EXCEPT ![h] = "started"]
      BY <2>4 DEF StartHandler
    <3> HIDE DEF h
    <3>3. \A c \in due : Owed(c)'
      BY <1>1, <2>1, <2>2, <3>1, <3>2 DEF PrioDue, PrioCalls, Serves
    <3> QED BY <2>1, <2>3, <3>2, <3>3 DEF DrainPays, ServingPcs, LoopPcs
  <2>5. CASE DrainOver /\ Goto("on_stop") /\ UNCHANGED <<chanVars, callVars, refVars>>
    <3>1. PrioDue = {}
      BY <1>8, <2>5, EmptyQueue DEF DrainOver, Permits, PrioDue, PrioCalls, BufferHoldsQueued
    <3> QED BY <2>1, <2>2, <2>5, <3>1 DEF DrainPays, Goto, ServingPcs, LoopPcs
  <2>6. CASE Goto("drain_wait") /\ UNCHANGED <<chanVars, callVars, refVars>>
    <3>1. PrioDue' = PrioDue
      BY <2>6 DEF PrioDue, PrioCalls
    <3> QED BY <2>1, <2>2, <2>3, <2>6, <3>1 DEF DrainPays, Goto, ServingPcs, LoopPcs
  <2> QED BY <1>12, <2>4, <2>5, <2>6 DEF Drain
<1>13. CASE HandlerDone
  <2>1. Serves /\ UNCHANGED <<due, stalled, cause, result>> /\ cur \in Calls
    BY <1>13, TaskServes DEF TaskStep, HandlerDone, OneHandler, TypeOK
  <2>2. CASE pc = "handler"
    BY <1>4, <1>13, <2>1, <2>2 DEF HandlerDone, LoopStart, ServingPcs, LoopPcs
  <2>3. CASE pc = "drain_handler"
    <3>1. pc' = "drain" /\ fate' = [fate EXCEPT ![cur] = "handled"] /\ stage' = stage
      BY <1>13, <2>3 DEF HandlerDone
    <3>2. \A c \in due : fate'[c] = "handled" \/ c \in PrioDue'
      BY <1>1, <2>1, <2>3, <3>1 DEF DrainPays, PrioDue, PrioCalls
    <3>3. ~Graceful
      BY <1>2, <2>3 DEF ShutdownPcs
    <3> QED BY <2>1, <3>1, <3>2, <3>3 DEF DrainPays, ServingPcs, LoopPcs
  <2> QED BY <1>13, <2>2, <2>3 DEF HandlerDone, HandlerPcs
<1>14. CASE DrainWake \/ DrainQuiet
  <2>1. pc = "drain_wait" /\ UNCHANGED <<cause, result, cur, fate, stage, due>> /\ cur = Null
    BY <1>14 DEF DrainWake, DrainQuiet, QuietTimer, Goto, OneHandler, HandlerPcs
  <2>2. \A c \in due : fate[c] = "handled" \/ c \in PrioDue
    BY <1>1, <2>1 DEF DrainPays
  <2>3. PrioDue' = PrioDue /\ ~Graceful
    BY <1>2, <2>1 DEF PrioDue, PrioCalls, ShutdownPcs
  <2>4. \/ pc' = "drain"
        \/ pc' = "on_stop" /\ stalled' = PrioDue
    BY <1>14 DEF DrainWake, DrainQuiet, Goto
  <2> QED BY <2>1, <2>2, <2>3, <2>4 DEF DrainPays, ServingPcs, LoopPcs
<1>15. CASE \/ FirstPoll \/ OnStartOk \/ PollTerm \/ PollSub \/ PollIdle \/ Wake
            \/ OnIdleOk \/ OnIdleErr
  <2>1. Serves
    BY <1>15, TaskServes DEF TaskStep
  <2>2. pc \in ServingPcs /\ UNCHANGED <<due, stalled, result>>
    BY <1>15 DEF FirstPoll, OnStartOk, PollTerm, PollSub, PollIdle, Wake, OnIdleOk, OnIdleErr,
       ServingPcs, LoopPcs, Goto, BeginStop
  <2>3. pc' \in {"on_start", LoopStart, "poll_prio", "on_stop", "poll_mail", "on_idle",
                 "poll_idle", "parked"}
    BY <1>15 DEF FirstPoll, OnStartOk, PollTerm, PollSub, PollIdle, Wake, OnIdleOk, OnIdleErr,
       Goto, BeginStop
  <2> QED BY <1>4, <2>1, <2>2, <2>3 DEF LoopStart
<1>16. CASE \/ CloseTerm \/ CloseMail \/ SweepMail \/ ClosePrio \/ SweepPrio
            \/ CloseSub \/ DropMail \/ DropPrio
  <2>1. Serves
    BY <1>16, TaskServes DEF TaskStep
  <2>2. /\ UNCHANGED <<due, stalled, cause, result>>
        /\ \/ pc' = pc /\ pc \in {"sweep_mail", "sweep_prio"}
           \/ pc' \in {"close_mail", "sweep_mail", AfterMailSweep, "sweep_prio", "close_sub",
                       "drop_mail", "drop_prio", "done"}
    BY <1>16 DEF CloseTerm, CloseMail, SweepMail, ClosePrio, SweepPrio, CloseSub, DropMail,
       DropPrio, CloseBox, SweepOne, SweepEnd, DropRx, Goto
  <2> QED BY <1>4, <2>1, <2>2 DEF AfterMailSweep, ServingPcs, LoopPcs
<1> QED BY <1>3, <1>5, <1>6, <1>9, <1>11, <1>12, <1>13, <1>14, <1>15, <1>16 DEF Next, TaskStep

\* What a lower branch overtook once is served before a lower branch is polled.
LEMMA PassedStep ==
    ASSUME TypeOK, BufferHoldsQueued, WaitersWait, StageBoundsFate, OneHandler,
           AbsentIsUnused, PassedIsNext, [Next]_vars
    PROVE  PassedIsNext'
<1> USE DEF callVars, chanVars, taskVars, refVars, histVars
<1> DEFINE Below(c) == IF Chan[c] = "prio" THEN {"poll_sub", "poll_mail", "poll_idle", "parked"}
                       ELSE {"poll_idle", "parked"}
           SubBelow == {"poll_mail", "poll_idle", "parked"}
           Fresh(s) == stream[s] \in {"new", "permit"}
<1>1. /\ fate \in [Calls -> Fates] /\ stream \in [Streams -> StreamStates]
      /\ passed \in [Items -> Nat] /\ term \in {0, 1} /\ Calls \subseteq Items
      /\ Streams \subseteq Items /\ "kill" \in Items /\ QueuedStreams \subseteq Streams
      /\ Chan \in [Calls -> Mailboxes] /\ Mailboxes = {"mail", "prio"}
      /\ \A x \in Items : x \in Streams => x \notin Calls /\ x # "kill"
      /\ "kill" \notin Calls
  BY ItemAssumption, CallAssumption DEF TypeOK, Items, QueuedStreams, Mailboxes
<1>2. ASSUME UNCHANGED passed, term' \in {term, 1} \/ pc' \notin ServingPcs,
             pc' \in LoopPcs \ {"poll_term"} => passed["kill"] = 0,
             pc' \in ServingPcs => pc \in ServingPcs,
             \A c \in Calls : fate'[c] = "unsent" => fate[c] = "unsent",
             \A c \in Calls : fate'[c] = "queued" =>
               fate[c] = "unsent" \/ (fate[c] = "queued" /\ (pc' \in Below(c) => pc \in Below(c))),
             \A s \in Streams : Fresh(s)' => Fresh(s),
             \A s \in Streams : stream'[s] = "queued" =>
               Fresh(s) \/ (stream[s] = "queued" /\ (pc' \in SubBelow => pc \in SubBelow))
      PROVE  PassedIsNext'
  <2>1. \A x \in Items : passed'[x] \in {0, 1}
    BY <1>2 DEF PassedIsNext
  <2>2. passed'["kill"] = 1 =>
           pc' \notin LoopPcs \ {"poll_term"} /\ (pc' \in ServingPcs => term' > 0)
    BY <1>1, <1>2 DEF PassedIsNext
  <2> QED BY <1>2, <2>1, <2>2 DEF PassedIsNext
<1>3. ASSUME NEW branch, Serve(branch), \A x \in Overtaken(branch) : passed[x] = 0,
             pc \in LoopPcs \ {"poll_term"}, pc' \in {"handler", "on_idle"},
             UNCHANGED <<term, stream>>,
             \A c \in Calls : fate'[c] = "unsent" => fate[c] = "unsent"
      PROVE  PassedIsNext'
  <2>1. \A x \in Items : passed'[x] = IF x \in Overtaken(branch) THEN 1 ELSE passed[x]
    BY <1>1, <1>3 DEF Serve
  <2>2. \A x \in Items : passed'[x] \in {0, 1}
    BY <2>1 DEF PassedIsNext
  <2>3. passed["kill"] = 0
    BY <1>1, <1>3 DEF PassedIsNext
  <2>4. "kill" \in Overtaken(branch) => term > 0
    BY <1>1 DEF Overtaken
  <2>5. \A c \in Calls : c \in Overtaken(branch) => fate[c] = "queued"
    BY <1>1 DEF Overtaken
  <2>6. \A s \in Streams : s \in Overtaken(branch) => stream[s] = "queued"
    BY <1>1 DEF Overtaken, QueuedStreams
  <2>7. pc' \notin LoopPcs
    BY <1>3 DEF LoopPcs
  <2>8. passed'["kill"] = 1 => term' > 0
    BY <1>1, <1>3, <2>1, <2>3, <2>4
  <2>9. \A c \in Calls : fate'[c] = "unsent" => passed'[c] = 0
    BY <1>1, <1>3, <2>1, <2>5 DEF PassedIsNext
  <2>10. \A s \in Streams : Fresh(s)' => passed'[s] = 0
    BY <1>1, <1>3, <2>1, <2>6 DEF PassedIsNext
  <2>11. pc' \notin {"poll_sub", "poll_mail", "poll_idle", "parked"}
    BY <1>3
  <2> QED BY <2>2, <2>7, <2>8, <2>9, <2>10, <2>11 DEF PassedIsNext
<1>4. \A x \in Items : passed[x] # 1 => passed[x] = 0
  BY DEF PassedIsNext
<1>5. pc \in LoopPcs \ {"poll_term"} => passed["kill"] = 0
  BY <1>1, <1>4 DEF PassedIsNext
<1>6. ASSUME NEW c \in Calls, CallStep(c) PROVE PassedIsNext'
  <2>1. UNCHANGED <<passed, term, pc, stream>>
    BY <1>6 DEF CallStep, StartCall, PollSend, Push, ReceiveReply, TimeOut, Cancel, DropFuture
  <2>2. \/ fate' = fate
        \/ fate[c] = "unsent" /\ \E f \in {"queued", "leaked"} : fate' = [fate EXCEPT ![c] = f]
    <3>1. CASE Push(c)
      BY <3>1 DEF Push, StageBoundsFate
    <3>2. CASE ~Push(c)
      BY <1>6, <3>2 DEF CallStep, StartCall, PollSend, ReceiveReply, TimeOut, Cancel, DropFuture
    <3> QED BY <3>1, <3>2
  <2>3. \A d \in Calls : fate'[d] = fate[d] \/ (fate[d] = "unsent" /\ fate'[d] # "unsent")
    BY <1>1, <2>2
  <2> QED BY <1>2, <1>5, <2>1, <2>3
<1>7. CASE RefStep
  <2>1. UNCHANGED <<passed, pc, fate>> /\ term' \in {term, 1}
    BY <1>7 DEF RefStep, Kill, DropRefs, Upgrade, Subscribe, SubscribePush
  <2>2. \A s \in Streams : stream'[s] = stream[s] \/ (Fresh(s) /\ stream'[s] # "new")
    BY <1>1, <1>7 DEF RefStep, Kill, DropRefs, Upgrade, Subscribe, SubscribePush
  <2>3. \A s \in Streams : /\ Fresh(s)' => Fresh(s)
                           /\ stream'[s] = "queued" => Fresh(s) \/ stream[s] = "queued"
    BY <2>2
  <2> QED BY <1>2, <1>5, <2>1, <2>3
<1>8. ASSUME Serves PROVE \A c \in Calls : /\ fate'[c] = "unsent" => fate[c] = "unsent"
                                           /\ fate'[c] = "queued" => fate[c] = "queued"
  BY <1>8 DEF Serves
<1>9. ASSUME Serves, UNCHANGED passed, pc' \notin LoopPcs \ {"poll_term"},
             term' = term \/ pc' \notin ServingPcs, pc' \in ServingPcs => pc \in ServingPcs,
             \A s \in Streams : /\ Fresh(s)' => Fresh(s)
                                /\ stream'[s] = "queued" => stream[s] = "queued"
      PROVE  PassedIsNext'
  <2>1. \A c \in Calls : pc' \notin Below(c)
    BY <1>9 DEF LoopPcs
  <2>2. pc' \notin SubBelow
    BY <1>9 DEF LoopPcs
  <2> HIDE DEF Below, SubBelow, Fresh
  <2> QED BY <1>2, <1>8, <1>9, <2>1, <2>2
<1>10. CASE PollTerm
  <2>1. UNCHANGED <<passed, fate, stream>> /\ pc = "poll_term" /\ pc \in ServingPcs
    BY <1>10 DEF PollTerm, BeginStop, ServingPcs, LoopPcs
  <2>2. CASE BeginStop("kill") \/ BeginStop("refs")
    BY <1>2, <2>1, <2>2 DEF BeginStop, ServingPcs, LoopPcs
  <2>3. CASE term = 0 /\ term' = term /\ pc' = "poll_prio"
    <3>1. passed["kill"] = 0
      BY <1>1, <1>4, <2>1, <2>3 DEF PassedIsNext
    <3> QED BY <1>2, <2>1, <2>3, <3>1
  <2> QED BY <1>10, <2>2, <2>3 DEF PollTerm, Goto
<1>11. CASE PollPrio
  <2>1. Serves /\ pc \in LoopPcs \ {"poll_term"} /\ UNCHANGED <<term, stream>> /\ pc \in ServingPcs
    BY <1>11, TaskServes DEF TaskStep, PollPrio, StartHandler, LoopPcs, ServingPcs
  <2>2. CASE StartHandler("prio", "handler") /\ Serve("prio")
    <3>1. \A x \in Overtaken("prio") : passed[x] = 0
      BY <1>5, <2>1 DEF Overtaken, QueuedStreams
    <3>2. pc' = "handler"
      BY <2>2 DEF StartHandler
    <3> QED BY <1>3, <1>8, <2>1, <2>2, <3>1, <3>2
  <2>3. CASE pc' = LoopStart /\ UNCHANGED passed
    BY <1>9, <2>1, <2>3 DEF LoopStart
  <2>4. CASE /\ rx["prio"] = "absent" \/ buf["prio"] = <<>>
             /\ pc' = "poll_sub" /\ UNCHANGED <<passed, fate>>
    <3>1. \A c \in Calls : Chan[c] = "prio" => fate[c] # "queued"
      BY <1>1, <2>4, EmptyQueue DEF AbsentIsUnused, PrioCalls, BufferHoldsQueued
    <3> QED BY <1>1, <1>2, <1>5, <2>1, <2>4, <3>1
  <2> QED BY <1>11, <2>2, <2>3, <2>4 DEF PollPrio, Goto
<1>12. CASE PollSub
  <2>1. /\ UNCHANGED <<term, fate, passed>> /\ pc = "poll_sub"
        /\ pc \in LoopPcs \ {"poll_term"} /\ pc \in ServingPcs
    BY <1>12 DEF PollSub, LoopPcs, ServingPcs
  <2>2. \A s \in Streams : stream'[s] = stream[s] \/ stream'[s] = "merged"
    BY <1>1, <1>12 DEF PollSub
  <2>3. CASE pc' = LoopStart
    BY <1>2, <2>1, <2>2, <2>3 DEF LoopStart
  <2>4. CASE /\ rx["sub"] = "absent" \/ QueuedStreams = {}
             /\ pc' = "poll_mail" /\ UNCHANGED stream
    <3>1. \A s \in Streams : stream[s] # "queued"
      BY <2>4 DEF AbsentIsUnused, QueuedStreams
    <3> QED BY <1>2, <1>5, <2>1, <2>4, <3>1
  <2> QED BY <1>12, <2>3, <2>4 DEF PollSub, Goto
<1>13. CASE PollMail
  <2>1. /\ Serves /\ UNCHANGED <<term, stream>> /\ pc = "poll_mail"
        /\ pc \in LoopPcs \ {"poll_term"} /\ pc \in ServingPcs
    BY <1>13, TaskServes DEF TaskStep, PollMail, StartHandler, BeginGraceful, LoopPcs, ServingPcs
  <2>2. CASE StartHandler("mail", "handler") /\ Serve("mail")
    <3>1. \A c \in Calls : Chan[c] = "prio" /\ fate[c] = "queued" => passed[c] = 0
      BY <1>1, <1>4, <2>1 DEF PassedIsNext
    <3>2. \A s \in Streams : stream[s] = "queued" => passed[s] = 0
      BY <1>1, <1>4, <2>1 DEF PassedIsNext
    <3>3. \A x \in Overtaken("mail") : passed[x] = 0
      BY <1>5, <2>1, <3>1, <3>2 DEF Overtaken, QueuedStreams
    <3>4. pc' = "handler"
      BY <2>2 DEF StartHandler
    <3> QED BY <1>3, <1>8, <2>1, <2>2, <3>3, <3>4
  <2>3. CASE (BeginGraceful("stop") \/ BeginGraceful("refs")) /\ UNCHANGED passed
    <3>1. pc' \in {"drain", "on_stop"}
      BY <2>3 DEF BeginGraceful
    <3> QED BY <1>9, <2>1, <2>3, <3>1 DEF LoopPcs
  <2>4. CASE buf["mail"] = <<>> /\ pc' = "poll_idle" /\ UNCHANGED <<passed, fate>>
    <3>1. \A c \in Calls : Chan[c] = "mail" => fate[c] # "queued"
      BY <1>1, <2>4, EmptyQueue DEF BufferHoldsQueued
    <3>2. \A c \in Calls : fate[c] = "queued" => pc \in Below(c)
      BY <1>1, <2>1, <3>1
    <3> QED BY <1>2, <1>5, <2>1, <2>4, <3>2
  <2>5. BeginGraceful("stop") \/ BeginGraceful("refs") => UNCHANGED passed
    BY DEF BeginGraceful
  <2> QED BY <1>13, <2>2, <2>3, <2>4, <2>5 DEF PollMail, Goto
<1>14. CASE PollIdle
  <2>1. /\ UNCHANGED <<term, fate>> /\ pc = "poll_idle"
        /\ pc \in LoopPcs \ {"poll_term"} /\ pc \in ServingPcs
    BY <1>14 DEF PollIdle, LoopPcs, ServingPcs
  <2>2. CASE Goto("on_idle") /\ Serve("idle") /\ UNCHANGED stream
    <3>1. \A c \in Calls : fate[c] = "queued" => passed[c] = 0
      BY <1>1, <1>4, <2>1 DEF PassedIsNext
    <3>2. \A s \in Streams : stream[s] = "queued" => passed[s] = 0
      BY <1>1, <1>4, <2>1 DEF PassedIsNext
    <3>3. \A x \in Overtaken("idle") : passed[x] = 0
      BY <1>5, <2>1, <3>1, <3>2 DEF Overtaken, QueuedStreams
    <3> QED BY <1>3, <2>1, <2>2, <3>3 DEF Goto
  <2>3. CASE /\ pc' \in {"poll_idle", "parked"} /\ UNCHANGED passed
             /\ \A s \in Streams : stream'[s] = stream[s] \/ stream'[s] = "ended"
    BY <1>2, <1>5, <2>1, <2>3
  <2> QED BY <1>1, <1>14, <2>1, <2>2, <2>3 DEF PollIdle, Goto
<1>15. CASE FirstPoll \/ OnStartOk \/ Wake \/ HandlerDone \/ OnIdleOk \/ OnIdleErr
  <2>1. Serves
    BY <1>15, TaskServes DEF TaskStep
  <2>2. /\ UNCHANGED <<passed, term>>
        /\ \/ pc \in ServingPcs /\ pc' \in {"on_start", "poll_term", "on_stop"}
           \/ pc = "drain_handler" /\ pc' = "drain"
    BY <1>15 DEF FirstPoll, OnStartOk, Wake, HandlerDone, OnIdleOk, OnIdleErr, BeginStop, Goto,
       LoopStart, HandlerPcs, ServingPcs, LoopPcs
  <2>3. \A s \in Streams : stream'[s] = stream[s] \/ stream'[s] = "merged"
    BY <1>1, <1>15 DEF FirstPoll, OnStartOk, Wake, HandlerDone, OnIdleOk, OnIdleErr, BeginStop
  <2> QED BY <1>9, <2>1, <2>2, <2>3 DEF LoopPcs, ServingPcs
<1>16. CASE \/ OnStartErr \/ HookPanic \/ Abort \/ Drain \/ DrainWake \/ DrainQuiet
            \/ OnStopOk \/ OnStopErr \/ CloseTerm \/ CloseMail \/ SweepMail \/ ClosePrio
            \/ SweepPrio \/ CloseSub \/ DropMail \/ DropPrio
  <2>1. Serves
    BY <1>16, TaskServes DEF TaskStep
  <2>2. /\ UNCHANGED <<passed, term>>
        /\ \/ pc' = pc /\ pc \in {"sweep_mail", "sweep_prio"}
           \/ pc' \in {"close_term", "drain_handler", "on_stop", "drain_wait", "drain", "close_mail",
                       "sweep_mail", AfterMailSweep, "sweep_prio", "close_sub", "drop_mail",
                       "drop_prio", "done"}
    BY <1>16 DEF OnStartErr, HookPanic, Abort, Drain, DrainWake, DrainQuiet, OnStopOk, OnStopErr,
       CloseTerm, CloseMail, SweepMail, ClosePrio, SweepPrio, CloseSub, DropMail, DropPrio,
       Leave, StartHandler, CloseBox, SweepOne, SweepEnd, DropRx, Goto
  <2>3. \A s \in Streams : stream'[s] = stream[s] \/ stream'[s] = "lost"
    BY <1>1, <1>16 DEF OnStartErr, HookPanic, Abort, Drain, DrainWake, DrainQuiet, OnStopOk,
       OnStopErr, CloseTerm, CloseMail, SweepMail, ClosePrio, SweepPrio, CloseSub, DropMail,
       DropPrio, Leave, StartHandler, CloseBox, SweepOne, SweepEnd, DropRx
  <2> QED BY <1>9, <2>1, <2>2, <2>3 DEF LoopPcs, ServingPcs, AfterMailSweep
<1>17. CASE UNCHANGED vars
  BY <1>17 DEF vars, PassedIsNext
<1> QED BY <1>6, <1>7, <1>10, <1>11, <1>12, <1>13, <1>14, <1>15, <1>16, <1>17
        DEF Next, TaskStep

\* A send is refused only by a receiver that was closed, and none that was
\* closed opens again or counts as given up.
LEMMA RefusedStep ==
    ASSUME TypeOK, BufferHoldsQueued, WaitersWait, OneHandler, ReceiversFollowTask,
           AbsentIsUnused, RefusedIsClosed, [Next]_vars
    PROVE  RefusedIsClosed'
<1> USE DEF callVars, chanVars, taskVars, refVars
<1>1. /\ rx \in [Receivers -> RxStates] /\ stage \in [Calls -> Stages]
      /\ Chan \in [Calls -> Mailboxes] /\ Mailboxes = {"mail", "prio"}
      /\ {"mail", "prio", "sub", "term"} \subseteq Receivers
      /\ RxStates = {"absent", "open", "closed", "gone"}
  BY CallAssumption DEF TypeOK, Mailboxes, Receivers, RxStates
<1> DEFINE Shut(m) == rx[m] \in {"closed", "gone"}
<1>2. ASSUME NEW m \in Mailboxes, Shut(m) PROVE Shut(m)'
  <2>1. CASE rx' = rx
    BY <1>2, <2>1
  <2>2. CASE \E r \in Receivers : rx' = Closed(rx, r)
    BY <1>1, <1>2, <2>2 DEF Closed
  <2>3. CASE rx' = Closed(Closed(rx, "sub"), "prio")
    BY <1>1, <1>2, <2>3 DEF Closed
  <2>4. CASE PollPrio \/ PollSub \/ CloseTerm
    BY <1>1, <1>2, <2>4 DEF PollPrio, PollSub, StartHandler, CloseTerm
  <2>5. CASE DropMail \/ DropPrio
    BY <1>1, <1>2, <2>5 DEF DropMail, DropPrio, DropRx
  <2>6. ASSUME NEW c \in Calls, CallStep(c) PROVE rx' = rx
    BY <2>6 DEF CallStep, StartCall, PollSend, Push, ReceiveReply, TimeOut, Cancel, DropFuture
  <2> QED BY <1>1, <2>1, <2>2, <2>3, <2>4, <2>5, <2>6 DEF Next, TaskStep, FirstPoll,
     OnStartOk, OnStartErr, PollTerm, PollMail, PollIdle, Wake, HandlerDone, OnIdleOk, OnIdleErr,
     Drain, DrainWake, DrainQuiet, OnStopOk, OnStopErr, CloseMail, ClosePrio, CloseBox,
     SweepMail, SweepPrio, SweepOne, SweepEnd, CloseSub, HookPanic, Abort, Leave,
     StartHandler, BeginGraceful, BeginStop, RefStep, Kill, DropRefs, Upgrade, Subscribe,
     SubscribePush, vars
<1>3. ASSUME NEW d \in Calls, stage'[d] = "errSend"
      PROVE  stage[d] = "errSend" \/ Shut(Chan[d])
  <2>1. CASE TaskStep \/ HookPanic \/ Abort \/ RefStep \/ UNCHANGED vars
    <3>1. Serves
      BY <2>1, TaskServes
    <3> QED BY <1>3, <3>1 DEF Serves
  <2>2. ASSUME NEW c \in Calls, StartCall(c) PROVE stage[d] = "errSend" \/ Shut(Chan[d])
    BY <1>1, <1>3, <2>2 DEF StartCall, Refuse
  <2>3. ASSUME NEW c \in Calls, PollSend(c) PROVE stage[d] = "errSend" \/ Shut(Chan[d])
    <3>1. stage[c] \in InFlight
      BY <2>3 DEF PollSend, InFlight, Waiting
    <3>2. Chan[c] = "prio" => rx["prio"] # "absent"
      BY <3>1 DEF AbsentIsUnused, PrioCalls
    <3>3. CASE d # c
      BY <1>1, <1>3, <2>3, <3>3 DEF PollSend, Refuse
    <3>4. CASE d = c /\ stage'[c] = "permit"
      BY <1>3, <3>4
    <3>5. CASE d = c /\ rx[Chan[c]] # "open"
      <4>1. rx["mail"] # "absent"
        BY DEF ReceiversFollowTask
      <4> QED BY <1>1, <3>2, <3>5, <4>1
    <3> QED BY <1>1, <2>3, <3>3, <3>4, <3>5 DEF PollSend
  <2>4. ASSUME NEW c \in Calls, Push(c) \/ ReceiveReply(c) PROVE stage[d] = "errSend"
    BY <1>1, <1>3, <2>4 DEF Push, ReceiveReply
  <2>5. ASSUME NEW c \in Calls, TimeOut(c) \/ Cancel(c) PROVE stage[d] = "errSend"
    <3>1. PICK out \in GivenUp : DropFuture(c, out)
      BY <2>5 DEF TimeOut, Cancel, GivenUp
    <3> QED BY <1>3, <3>1, GiveUpEffect DEF GivenUp
  <2> QED BY <2>1, <2>2, <2>3, <2>4, <2>5 DEF Next, CallStep
<1> QED BY <1>1, <1>2, <1>3 DEF RefusedIsClosed

-----------------------------------------------------------------------------
(* The invariant and what it implies *)

\* An actor that was just spawned satisfies the invariant.
LEMMA InitInv == Init => IInv
<1> SUFFICES ASSUME Init PROVE IInv
  OBVIOUS
<1>1. TypeOK
  BY InitTypes
<1>2. /\ fate = [c \in Calls |-> "unsent"] /\ stage = [c \in Calls |-> "idle"]
      /\ pc = "unpolled" /\ cur = Null /\ cause = "none" /\ result = Running
      /\ buf = [ch \in Mailboxes |-> <<>>] /\ waitq = [ch \in Mailboxes |-> <<>>]
      /\ stream = [s \in Streams |-> "new"] /\ due = {}
      /\ passed = [x \in Items |-> 0]
  BY DEF Init
<1>3. BufferHoldsQueued
  BY <1>2, EmptyQueue DEF BufferHoldsQueued
<1>4. WaitersWait
  BY <1>2, EmptyQueue DEF WaitersWait, QueuedWait
<1>5. StageBoundsFate
  BY <1>2 DEF StageBoundsFate, GivenUp
<1>6. LettersMatch
  <2>1. \A c \in Calls, r \in Reasons : letters[c][r] = 0
    BY DEF Init
  <2> QED BY <1>2, <2>1 DEF LettersMatch, Reasons, GivenUp
<1>7. OneHandler
  BY <1>2, NullAssumption DEF OneHandler, HandlerPcs
<1>8. ReceiversFollowTask
  <2>1. /\ rx["term"] = "open" /\ rx["mail"] = "open"
        /\ rx["prio"] = IF HasPrio THEN "open" ELSE "absent"
    BY CapAssumption DEF Init, Receivers
  <2> QED BY <1>2, <2>1 DEF ReceiversFollowTask, ShutdownPcs, ServingPcs, SweptPcs
<1>9. AbsentIsUnused
  BY <1>2 DEF AbsentIsUnused, PrioCalls, InFlight, Waiting
<1>10. MissedIsRaced /\ GoneIsEmpty
  BY <1>2 DEF MissedIsRaced, GoneIsEmpty
<1>11. DrainPays
  BY <1>2 DEF DrainPays
<1>12. PassedIsNext
  BY <1>2 DEF PassedIsNext, Items, LoopPcs
<1>13. SlotsAccounted
  <2> SUFFICES ASSUME NEW ch \in Mailboxes
               PROVE  IsFiniteSet(Permits(ch)) /\ NobodyWaitsForFree(ch)
    BY DEF SlotsAccounted
  <2>1. Permits(ch) = {} /\ buf[ch] = <<>> /\ Cap[ch] \in Nat
    BY <1>2, CapAssumption DEF Permits
  <2>2. IsFiniteSet(Permits(ch)) /\ Cardinality(Permits(ch)) = 0 /\ Len(buf[ch]) = 0
    BY <2>1, FS_EmptySet
  <2>3. \A c \in Calls : stage[c] # "wait"
    BY <1>2
  <2> QED BY <2>1, <2>2, <2>3 DEF NobodyWaitsForFree
<1>14. RefusedIsClosed
  BY <1>2 DEF RefusedIsClosed
<1> QED BY <1>1, <1>3, <1>4, <1>5, <1>6, <1>7, <1>8, <1>9, <1>10, <1>11, <1>12, <1>13,
           <1>14
        DEF IInv

\* Every step of the system preserves it.
LEMMA InvStep == IInv /\ [Next]_vars => IInv'
<1> SUFFICES ASSUME IInv, [Next]_vars PROVE IInv'
  OBVIOUS
<1>1. /\ TypeOK /\ BufferHoldsQueued /\ WaitersWait /\ StageBoundsFate /\ LettersMatch
      /\ OneHandler /\ ReceiversFollowTask /\ AbsentIsUnused /\ MissedIsRaced
      /\ GoneIsEmpty /\ DrainPays /\ PassedIsNext /\ RefusedIsClosed /\ SlotsAccounted
  BY DEF IInv
<1>2. TypeOK'
  BY <1>1, TypeStep
<1>3. BufferHoldsQueued' /\ WaitersWait'
  BY <1>1, BufferStep, WaitersStep
<1>4. StageBoundsFate' /\ LettersMatch'
  BY <1>1, StageStep, LettersStep
<1>5. OneHandler' /\ ReceiversFollowTask' /\ AbsentIsUnused'
  BY <1>1, OneHandlerStep, ReceiversStep, AbsentStep
<1>6. MissedIsRaced' /\ GoneIsEmpty' /\ DrainPays' /\ PassedIsNext'
  BY <1>1, MissedStep, GoneStep, DrainStep, PassedStep
<1>7. RefusedIsClosed' /\ SlotsAccounted'
  BY <1>1, RefusedStep, SlotsStep
<1> QED BY <1>2, <1>3, <1>4, <1>5, <1>6, <1>7 DEF IInv

\* The strengthening is an invariant: mailboxes, semaphores, callers, records
\* and the task agree in every reachable state of any actor.
THEOREM InvCorrect == Spec => []IInv
<1>1. Init => IInv
  BY InitInv
<1>2. IInv /\ [Next]_vars => IInv'
  BY InvStep
<1> QED BY <1>1, <1>2, PTL DEF Spec

\* A caller's result never contradicts what became of its message, whichever
\* side of the close or of the deadline the semaphore's grant fell.
THEOREM OutcomeCorrect == Spec => []OutcomeMatchesFate
<1>1. IInv => OutcomeMatchesFate
  BY DEF IInv, StageBoundsFate, OutcomeMatchesFate, GivenUp
<1> QED BY <1>1, InvCorrect, PTL

\* No mailbox is over-filled and no sender sleeps beside a free slot, however
\* pops, pushes, grants, deadlines and cancellations interleave.
THEOREM WakeupCorrect == Spec => []NoLostWakeup
<1>1. IInv => NoLostWakeup
  BY DEF IInv, SlotsAccounted, NoLostWakeup
<1> QED BY <1>1, InvCorrect, PTL

\* Caller and drain never both record one message, and neither does so twice.
THEOREM CountCorrect == Spec => []NoDoubleCount
<1>1. IInv => NoDoubleCount
  <2> SUFFICES ASSUME IInv, NEW c \in Calls
               PROVE  /\ \A r \in Reasons : letters[c][r] <= 1
                      /\ letters[c]["DiscardedAtShutdown"] = 1 =>
                           /\ fate[c] = "swept"
                           /\ letters[c]["ReplyDropped"] = 0 /\ letters[c]["ActorStopped"] = 0
    BY DEF NoDoubleCount
  <2>1. \A r \in Reasons : letters[c][r] \in {0, 1}
    BY DEF IInv, LettersMatch, Reasons
  <2>2. ASSUME letters[c]["DiscardedAtShutdown"] = 1
        PROVE  /\ fate[c] = "swept"
               /\ letters[c]["ReplyDropped"] = 0 /\ letters[c]["ActorStopped"] = 0
    <3>1. fate[c] = "swept" /\ (Op[c] = "tell" \/ stage[c] \in GivenUp)
      BY <2>2 DEF IInv, LettersMatch
    <3>2. stage[c] # "errSend" /\ stage[c] # "errReceive"
      BY <3>1 DEF IInv, StageBoundsFate, GivenUp
    <3> QED BY <3>1, <3>2 DEF IInv, LettersMatch
  <2> QED BY <2>1, <2>2
<1> QED BY <1>1, InvCorrect, PTL

\* When the task is over, every acknowledged tell ran, was interrupted, left a
\* record or raced past the drain.
THEOREM LossCorrect == Spec => []NoSilentLoss
<1>1. IInv => NoSilentLoss
  <2> SUFFICES ASSUME IInv, pc = "done", NEW c \in Calls, Op[c] = "tell", stage[c] = "ok",
                      c \notin raced
               PROVE  \/ fate[c] \in {"handled", "broken"}
                      \/ letters[c]["DiscardedAtShutdown"] = 1
    BY DEF NoSilentLoss
  <2>1. fate[c] \in Fates /\ fate[c] # "unsent"
    BY DEF IInv, TypeOK, StageBoundsFate
  <2>2. fate[c] \notin {"dropped", "leaked", "queued"}
    <3>1. Chan[c] \in Mailboxes /\ pc \in SweptPcs["mail"] /\ pc \in SweptPcs["prio"]
      BY CallAssumption DEF SweptPcs
    <3> QED BY <3>1 DEF IInv, MissedIsRaced, Mailboxes
  <2>3. fate[c] # "started"
    BY NullAssumption DEF IInv, OneHandler, HandlerPcs
  <2>4. fate[c] = "swept" => letters[c]["DiscardedAtShutdown"] = 1
    BY DEF IInv, LettersMatch
  <2> QED BY <2>1, <2>2, <2>3, <2>4 DEF Fates
<1> QED BY <1>1, InvCorrect, PTL

\* The biased select! lets nothing overtake a waiting message, subscription or
\* Terminate of a higher branch more than once.
THEOREM OvertakingCorrect == Spec => []ServedOnceBelow
<1>1. IInv => ServedOnceBelow
  BY DEF IInv, PassedIsNext, ServedOnceBelow
<1> QED BY <1>1, InvCorrect, PTL

\* A graceful stop pays every priority message it owes a handler run.
THEOREM DrainCorrect == Spec => []GracefulDrain
<1>1. IInv => GracefulDrain
  BY DEF IInv, DrainPays, GracefulDrain
<1> QED BY <1>1, InvCorrect, PTL

\* No handle sees the actor dead, and no regular send is refused, before the last
\* hook is over, nor a priority send before the stop has begun; and the end
\* leaves no message behind.
THEOREM QuietCorrect == Spec => []StoppedIsQuiet
<1>1. IInv => StoppedIsQuiet
  <2> SUFFICES ASSUME IInv PROVE StoppedIsQuiet
    OBVIOUS
  <2>1. pc \in ShutdownPcs => HooksAreOver
    <3>1. pc \in ShutdownPcs => pc \notin HandlerPcs
      BY DEF ShutdownPcs, HandlerPcs
    <3> QED BY <3>1 DEF IInv, ReceiversFollowTask, OneHandler, HooksAreOver
  <2>3. rx["mail"] # "open" => pc \in ShutdownPcs
    BY DEF IInv, ReceiversFollowTask, ShutdownPcs
  <2>4. ~IsAlive => HooksAreOver
    BY <2>1, <2>3 DEF IsAlive, IInv, ReceiversFollowTask
  <2>5. ASSUME NEW c \in Calls, stage[c] = "errSend"
        PROVE  HooksAreOver \/ (Chan[c] = "prio" /\ pc \in StopPcs)
    <3>1. rx[Chan[c]] \in {"closed", "gone"} /\ Chan[c] \in {"mail", "prio"}
      BY <2>5, CallAssumption DEF IInv, RefusedIsClosed, Mailboxes
    <3>2. CASE Chan[c] = "mail"
      BY <2>1, <2>3, <3>1, <3>2
    <3>3. CASE Chan[c] = "prio"
      <4>1. pc \in Pcs \ ServingPcs
        BY <3>1, <3>3 DEF IInv, TypeOK, ReceiversFollowTask
      <4>2. pc \in StopPcs \cup ShutdownPcs
        BY <4>1 DEF Pcs, ServingPcs, HandlerPcs, StopPcs
      <4> QED BY <2>1, <3>3, <4>2
    <3> QED BY <3>1, <3>2, <3>3
  <2>2. ASSUME pc = "done", NEW c \in Calls PROVE fate[c] \notin {"queued", "started"}
    <3>1. fate[c] # "started"
      BY <2>2, NullAssumption DEF IInv, OneHandler, HandlerPcs
    <3>2. rx["mail"] = "gone" /\ rx["prio"] \in {"gone", "absent"}
      BY <2>2 DEF IInv, ReceiversFollowTask
    <3>3. Chan[c] \in {"mail", "prio"} /\ (Chan[c] = "prio" => c \in PrioCalls)
      BY CallAssumption DEF Mailboxes, PrioCalls
    <3>4. fate[c] # "queued"
      BY <3>2, <3>3 DEF IInv, GoneIsEmpty, AbsentIsUnused
    <3> QED BY <3>1, <3>4
  <2> QED BY <2>2, <2>4, <2>5 DEF StoppedIsQuiet
<1> QED BY <1>1, InvCorrect, PTL

(***************************************************************************)
(* ActorRuntime implements MessageContract: the mapping of                 *)
(* ActorRuntimeContract takes every step of the task, of a caller or of a  *)
(* holder of references to a step of the contract or to none.  Which one   *)
(* it is follows from the inductive invariant: an admission finds its      *)
(* message unsent, a run finds no other, a loss finds the actor down.      *)
(***************************************************************************)

\* What the mapping makes of each stage and of each fate.
LEMMA Outcomes ==
    /\ \A s \in {"idle", "permit", "awaiting", "wait", "granted"} : OutOf(s) = "pending"
    /\ OutOf("ok") = "ok"
    /\ \A s \in {"errSend", "errReceive", "errNotEnabled", "errTimeout", "cancelled"} :
          OutOf(s) = "failed"
  BY DEF OutOf, InFlight, Waiting

LEMMA Messages ==
    /\ MsgOf("unsent") = "new" /\ MsgOf("queued") = "admitted"
    /\ MsgOf("started") = "running" /\ MsgOf("handled") = "done"
    /\ \A f \in {"broken", "swept", "dropped", "leaked"} : MsgOf(f) = "lost"
  BY DEF MsgOf

\* A permit handed to a waiting sender tells its caller nothing.
LEMMA OutKept ==
    ASSUME NEW c \in Calls,
           stage'[c] = stage[c] \/ (stage[c] = "wait" /\ stage'[c] = "granted")
    PROVE  ContractOut'[c] = ContractOut[c]
  BY Outcomes DEF ContractOut

\* One message moves.
LEMMA MsgMoves ==
    ASSUME fate \in [Calls -> Fates], NEW c \in Calls, NEW f, fate' = [fate EXCEPT ![c] = f]
    PROVE  ContractMsg' = [ContractMsg EXCEPT ![c] = MsgOf(f)]
  BY DEF ContractMsg

\* One caller is told something.
LEMMA OutMoves ==
    ASSUME NEW c \in Calls,
           \A d \in Calls \ {c} : \/ stage'[d] = stage[d]
                                  \/ stage[d] = "wait" /\ stage'[d] = "granted"
    PROVE  ContractOut' = [ContractOut EXCEPT ![c] = OutOf(stage'[c])]
  <1>1. \A d \in Calls \ {c} : ContractOut'[d] = ContractOut[d]
    BY OutKept
  <1>. QED
    BY <1>1 DEF ContractOut

\* A fresh actor is a fresh contract.
LEMMA InitMaps == Init => Contract!Init
  <1>. SUFFICES ASSUME Init PROVE Contract!Init
    OBVIOUS
  <1>1. ContractMsg = [c \in Calls |-> "new"] /\ ContractOut = [c \in Calls |-> "pending"]
    BY Messages, Outcomes DEF Init, ContractMsg, ContractOut
  <1>2. ContractUp = TRUE
    BY DEF Init, ContractUp, ShutdownPcs
  <1>. QED
    BY <1>1, <1>2, CallAssumption DEF Contract!Init, Contract!Ops, Init

\* What the contract sees of a call that starts, or is polled while it waits,
\* is a refusal or nothing.
LEMMA StartMaps ==
    ASSUME IInv, NEW c \in Calls, StartCall(c) \/ PollSend(c)
    PROVE  Contract!Withdraw(c) \/ UNCHANGED Contract!vars
  <1>1. /\ stage \in [Calls -> Stages] /\ fate[c] = "unsent"
        /\ stage[c] \in {"idle", "wait", "granted"}
    BY DEF IInv, TypeOK, StageBoundsFate, StartCall, PollSend, Waiting
  <1>2. UNCHANGED <<ContractMsg, buf, ContractUp>>
    BY DEF StartCall, PollSend, taskVars, ContractMsg, ContractUp
  <1>3. ContractMsg[c] = "new" /\ ContractOut[c] = "pending"
    BY <1>1, Messages, Outcomes DEF ContractMsg, ContractOut
  <1>4. \A d \in Calls \ {c} : stage'[d] = stage[d]
    BY <1>1 DEF StartCall, PollSend, Refuse
  <1>5. ContractOut' = [ContractOut EXCEPT ![c] = OutOf(stage'[c])]
    BY <1>4, OutMoves
  <1>6. CASE stage'[c] \in {"permit", "wait"}
    <2>1. OutOf(stage'[c]) = "pending" /\ OutOf(stage[c]) = "pending"
      BY <1>1, <1>6, Outcomes
    <2>2. \A d \in Calls : OutOf(stage'[d]) = OutOf(stage[d])
      BY <1>4, <2>1
    <2>3. ContractOut' = ContractOut
      BY <2>2 DEF ContractOut
    <2>. QED
      BY <1>2, <2>3 DEF Contract!vars
  <1>7. CASE stage'[c] \in {"errSend", "errNotEnabled"}
    BY <1>2, <1>3, <1>5, <1>7, Outcomes DEF Contract!Withdraw
  <1>8. CASE stage'[c] = "ok" /\ Op[c] = "stop" /\ rx[Chan[c]] # "open"
    <2>1. Chan[c] = "mail"
      BY <1>8, CallAssumption
    <2>2. ~ContractUp
      BY <1>8, <2>1 DEF IInv, ReceiversFollowTask, ContractUp, ShutdownPcs
    <2>. QED
      BY <1>2, <1>3, <1>5, <1>8, <2>2, Outcomes DEF Contract!Withdraw
  <1>9. \/ stage'[c] \in {"permit", "wait", "errSend", "errNotEnabled"}
        \/ stage'[c] = "ok" /\ Op[c] = "stop" /\ rx[Chan[c]] # "open"
    <2>1. CASE StartCall(c)
      BY <1>1, <2>1 DEF StartCall, Refuse
    <2>2. CASE PollSend(c)
      BY <1>1, <2>2 DEF PollSend, Refuse
    <2>. QED
      BY <2>1, <2>2
  <1>. QED
    BY <1>6, <1>7, <1>8, <1>9

\* The push is the admission, into the mailbox or into one that is gone.
LEMMA PushMaps ==
    ASSUME IInv, NEW c \in Calls, Push(c)
    PROVE  Contract!Admit(c)
  <1>1. /\ stage \in [Calls -> Stages] /\ fate \in [Calls -> Fates]
        /\ fate[c] = "unsent" /\ stage[c] = "permit"
    BY DEF IInv, TypeOK, StageBoundsFate, Push
  <1>2. ContractMsg[c] = "new" /\ ContractOut[c] = "pending" /\ UNCHANGED ContractUp
    BY <1>1, Messages, Outcomes DEF ContractMsg, ContractOut, ContractUp, Push, taskVars
  <1>3. ContractOut' = [ContractOut EXCEPT ![c] = IF Op[c] = "ask" THEN "pending" ELSE "ok"]
    <2>1. /\ stage'[c] = IF Op[c] = "ask" THEN "awaiting" ELSE "ok"
          /\ \A d \in Calls \ {c} : stage'[d] = stage[d]
      BY <1>1 DEF Push
    <2>. QED
      BY <2>1, OutMoves, Outcomes
  <1>4. CASE rx[Chan[c]] = "gone"
    <2>1. ContractMsg' = [ContractMsg EXCEPT ![c] = "lost"] /\ buf' = buf
      BY <1>1, <1>4, MsgMoves, Messages DEF Push
    <2>2. ~ContractUp
      BY <1>4, CallAssumption DEF IInv, ReceiversFollowTask, ContractUp, Mailboxes, ShutdownPcs
    <2>. QED
      BY <1>2, <1>3, <2>1, <2>2 DEF Contract!Admit
  <1>5. CASE rx[Chan[c]] # "gone"
    <2>1. /\ ContractMsg' = [ContractMsg EXCEPT ![c] = "admitted"]
          /\ buf' = [buf EXCEPT ![Chan[c]] = Append(@, c)]
      BY <1>1, <1>5, MsgMoves, Messages DEF Push
    <2>. QED
      BY <1>2, <1>3, <2>1 DEF Contract!Admit
  <1>. QED
    BY <1>4, <1>5

\* The reply, or the news that there will be none.
LEMMA ReplyMaps ==
    ASSUME IInv, NEW c \in Calls, ReceiveReply(c)
    PROVE  Contract!Answer(c)
  <1>1. /\ stage \in [Calls -> Stages] /\ stage[c] = "awaiting"
        /\ Op[c] = "ask" /\ ContractOut[c] = "pending"
    BY Outcomes DEF IInv, TypeOK, StageBoundsFate, ReceiveReply, ContractOut
  <1>2. UNCHANGED <<ContractMsg, buf, ContractUp>>
    BY DEF ReceiveReply, taskVars, chanVars, ContractMsg, ContractUp
  <1>3. ContractOut' = [ContractOut EXCEPT ![c] = OutOf(stage'[c])]
    BY <1>1, OutMoves DEF ReceiveReply
  <1>4. CASE fate[c] = "handled" /\ stage'[c] = "ok"
    BY <1>1, <1>2, <1>3, <1>4, Messages, Outcomes DEF Contract!Answer, ContractMsg
  <1>5. CASE fate[c] \in ReplyDropped /\ stage'[c] = "errReceive"
    BY <1>1, <1>2, <1>3, <1>5, Messages, Outcomes DEF Contract!Answer, ContractMsg, ReplyDropped
  <1>. QED
    BY <1>1, <1>4, <1>5 DEF ReceiveReply

\* A call given up before its admission is withdrawn, after it unanswered.
LEMMA GiveUpMaps ==
    ASSUME IInv, NEW c \in Calls, TimeOut(c) \/ Cancel(c)
    PROVE  Contract!Withdraw(c) \/ Contract!Answer(c)
  <1>1. PICK out \in GivenUp : DropFuture(c, out)
    BY DEF TimeOut, Cancel, GivenUp
  <1>2. /\ stage'[c] = out
        /\ \A d \in Calls \ {c} : \/ stage'[d] = stage[d]
                                  \/ stage[d] = "wait" /\ stage'[d] = "granted"
    BY <1>1, GiveUpEffect DEF IInv
  <1>3. ContractOut' = [ContractOut EXCEPT ![c] = "failed"]
    BY <1>2, OutMoves, Outcomes DEF GivenUp
  <1>4. UNCHANGED <<ContractMsg, buf, ContractUp>>
    BY <1>1 DEF DropFuture, taskVars, ContractMsg, ContractUp
  <1>5. stage[c] \in {"wait", "granted", "awaiting"}
    BY <1>1 DEF DropFuture, Waiting
  <1>6. ContractOut[c] = "pending"
    BY <1>5, Outcomes DEF ContractOut
  <1>7. CASE stage[c] = "awaiting"
    <2>1. Op[c] = "ask" /\ fate[c] \in Fates \ {"unsent"}
      BY <1>7 DEF IInv, TypeOK, StageBoundsFate
    <2>2. ContractMsg[c] # "new"
      BY <2>1 DEF ContractMsg, MsgOf
    <2>. QED
      BY <1>3, <1>4, <1>6, <2>1, <2>2 DEF Contract!Answer
  <1>8. CASE stage[c] # "awaiting"
    <2>1. ContractMsg[c] = "new"
      BY <1>5, <1>8, Messages DEF IInv, StageBoundsFate, ContractMsg
    <2>. QED
      BY <1>3, <1>4, <1>6, <2>1 DEF Contract!Withdraw
  <1>. QED
    BY <1>7, <1>8

-----------------------------------------------------------------------------
(* The task *)

\* What a caller knows changes in its own steps only.
LEMMA TaskKeepsOut ==
    ASSUME IInv, TaskStep \/ HookPanic \/ Abort
    PROVE  ContractOut' = ContractOut
  <1>1. Serves
    BY TaskServes DEF IInv
  <1>2. ASSUME NEW c \in Calls PROVE ContractOut'[c] = ContractOut[c]
    BY <1>1, OutKept DEF Serves
  <1>. QED
    BY <1>2 DEF ContractOut

\* The handler of the first envelope is called, when none runs.
LEMMA HandlerMaps ==
    ASSUME IInv, NEW ch \in Mailboxes, NEW label, StartHandler(ch, label),
           ContractOut' = ContractOut, Op[Head(buf[ch])] # "stop",
           pc \notin ShutdownPcs \cup HandlerPcs, label \notin ShutdownPcs
    PROVE  Contract!Run(ch)
  <1> DEFINE h == Head(buf[ch])
  <1>1. h \in Calls /\ fate[h] = "queued" /\ buf[ch] # <<>> /\ buf' = [buf EXCEPT ![ch] = Tail(@)]
    BY TakeEffect DEF StartHandler, TakeHead, IInv
  <1>2. ContractMsg' = [ContractMsg EXCEPT ![h] = "running"]
    <2>1. fate \in [Calls -> Fates] /\ fate' = [fate EXCEPT ![h] = "started"]
      BY DEF StartHandler, IInv, TypeOK
    <2> HIDE DEF h
    <2>2. ContractMsg' = [ContractMsg EXCEPT ![h] = MsgOf("started")]
      BY <1>1, <2>1, MsgMoves
    <2>. QED
      BY <2>2, Messages
  <1>3. \A c \in Calls : ContractMsg[c] # "running"
    BY NullAssumption DEF IInv, OneHandler, ContractMsg, MsgOf
  <1>4. ContractUp /\ UNCHANGED ContractUp
    BY DEF StartHandler, ContractUp
  <1> HIDE DEF h
  <1>. QED
    BY <1>1, <1>2, <1>3, <1>4 DEF Contract!Run, h

\* A priority mailbox holds no stop.
LEMMA NoStopInPrio ==
    ASSUME IInv, buf["prio"] # <<>>
    PROVE  Op[Head(buf["prio"])] # "stop"
  <1>1. InQueue(buf["prio"], Head(buf["prio"])) /\ Head(buf["prio"]) \in Calls
    BY TailQueue DEF IInv, TypeOK, Mailboxes, BufferHoldsQueued
  <1>2. Chan[Head(buf["prio"])] = "prio"
    BY <1>1 DEF IInv, BufferHoldsQueued, Mailboxes
  <1>. QED
    BY <1>1, <1>2, CallAssumption

\* Leaving the lifecycle interrupts the handler that runs, if any.
LEMMA LeaveMaps ==
    ASSUME IInv, pc \notin ShutdownPcs, NEW res, Leave(res), ContractOut' = ContractOut
    PROVE  Contract!GoDown
  <1>1. ContractUp /\ ContractUp' = FALSE /\ buf' = buf
    BY DEF Leave, ContractUp, ShutdownPcs, chanVars
  <1>2. ASSUME NEW c \in Calls
        PROVE  ContractMsg'[c] = IF ContractMsg[c] = "running" THEN "lost" ELSE ContractMsg[c]
    <2>1. fate \in [Calls -> Fates] /\ (fate[c] = "started" <=> cur = c) /\ Null \notin Calls
      BY NullAssumption DEF IInv, TypeOK, OneHandler
    <2>2. fate'[c] = IF cur = c THEN "broken" ELSE fate[c]
      BY <2>1 DEF Leave
    <2>3. ContractMsg'[c] = MsgOf(fate'[c]) /\ ContractMsg[c] = MsgOf(fate[c])
      BY DEF ContractMsg
    <2>. QED
      BY <2>1, <2>2, <2>3 DEF MsgOf
  <1>3. ContractMsg' = [c \in Calls |->
                          IF ContractMsg[c] = "running" THEN "lost" ELSE ContractMsg[c]]
    BY <1>2 DEF ContractMsg
  <1>4. /\ {} \in SUBSET Mailboxes
        /\ ContractMsg' = [c \in Calls |->
                              IF \/ ContractMsg[c] = "running"
                                 \/ ContractMsg[c] = "admitted" /\ Chan[c] \in {}
                              THEN "lost" ELSE ContractMsg[c]]
    BY <1>3
  <1>5. buf' = [m \in Mailboxes |-> IF m \in {} THEN <<>> ELSE buf[m]]
    BY <1>1 DEF IInv, TypeOK
  <1>. QED
    BY <1>1, <1>4, <1>5 DEF Contract!GoDown

\* The final drain pops one envelope.
LEMMA SweepMaps ==
    ASSUME IInv, pc \in ShutdownPcs, NEW ch \in Mailboxes, SweepOne(ch),
           ContractOut' = ContractOut
    PROVE  Contract!Discard(ch)
  <1> DEFINE h == Head(buf[ch])
  <1>1. /\ h \in Calls /\ buf[ch] # <<>> /\ buf' = [buf EXCEPT ![ch] = Tail(@)]
        /\ buf[ch] \in Seq(Calls)
    BY TakeEffect DEF SweepOne, IInv, TypeOK
  <1>2. ContractMsg' = [ContractMsg EXCEPT ![h] = "lost"]
    <2>1. fate \in [Calls -> Fates] /\ fate' = [fate EXCEPT ![h] = "swept"]
      BY DEF SweepOne, IInv, TypeOK
    <2> HIDE DEF h
    <2>2. ContractMsg' = [ContractMsg EXCEPT ![h] = MsgOf("swept")]
      BY <1>1, <2>1, MsgMoves
    <2>. QED
      BY <2>2, Messages
  <1>3. ~ContractUp /\ UNCHANGED ContractUp
    BY DEF SweepOne, ContractUp, taskVars
  <1>4. 1 \in 1..Len(buf[ch]) /\ buf[ch][1] = h /\ \A i \in 1..1 : i = 1
    BY <1>1
  <1>5. Tail(buf[ch]) = SubSeq(buf[ch], 1 + 1, Len(buf[ch]))
    BY <1>1
  <1>6. ContractMsg' = [c \in Calls |->
                          IF \E i \in 1..1 : buf[ch][i] = c THEN "lost" ELSE ContractMsg[c]]
    <2> HIDE DEF h
    <2>1. \A c \in Calls : (\E i \in 1..1 : buf[ch][i] = c) <=> c = h
      BY <1>4
    <2>2. ContractMsg = [c \in Calls |-> ContractMsg[c]]
      BY DEF ContractMsg
    <2>. QED
      BY <1>2, <2>1, <2>2
  <1>. QED
    BY <1>1, <1>3, <1>4, <1>5, <1>6 DEF Contract!Discard

\* Dropping a receiver takes what is left in it, if anything is.
LEMMA DropMaps ==
    ASSUME IInv, pc \in ShutdownPcs, NEW ch \in Mailboxes, NEW label \in ShutdownPcs,
           DropRx(ch, label), ContractOut' = ContractOut
    PROVE  Contract!Discard(ch) \/ UNCHANGED Contract!vars
  <1>1. buf[ch] \in Seq(Calls) /\ buf \in [Mailboxes -> Seq(Calls)] /\ fate \in [Calls -> Fates]
    BY DEF IInv, TypeOK
  <1>2. \A c \in Calls : InQueue(buf[ch], c) <=> fate[c] = "queued" /\ Chan[c] = ch
    BY DEF IInv, BufferHoldsQueued
  <1>3. buf' = [buf EXCEPT ![ch] = <<>>] /\ ~ContractUp /\ UNCHANGED ContractUp
    BY DEF DropRx, ContractUp, Goto
  <1>4. ContractMsg' = [c \in Calls |->
                          IF InQueue(buf[ch], c) THEN "lost" ELSE ContractMsg[c]]
    <2>1. ASSUME NEW c \in Calls
          PROVE  ContractMsg'[c] = IF InQueue(buf[ch], c) THEN "lost" ELSE ContractMsg[c]
      <3>1. fate'[c] = IF Chan[c] = ch /\ fate[c] = "queued" THEN "dropped" ELSE fate[c]
        BY DEF DropRx
      <3>2. ContractMsg'[c] = MsgOf(fate'[c]) /\ ContractMsg[c] = MsgOf(fate[c])
        BY DEF ContractMsg
      <3>. QED
        BY <1>2, <3>1, <3>2, Messages
    <2>. QED
      BY <2>1 DEF ContractMsg
  <1>5. CASE buf[ch] = <<>>
    <2>1. buf' = buf
      BY <1>1, <1>3, <1>5
    <2>2. ContractMsg' = ContractMsg
      BY <1>4, <1>5 DEF InQueue, ContractMsg
    <2>. QED
      BY <1>3, <2>1, <2>2 DEF Contract!vars
  <1>6. CASE buf[ch] # <<>>
    <2> DEFINE n == Len(buf[ch])
    <2>1. n \in 1..Len(buf[ch]) /\ SubSeq(buf[ch], n + 1, Len(buf[ch])) = <<>>
      BY <1>1, <1>6
    <2>2. ContractMsg' = [c \in Calls |->
                            IF \E i \in 1..n : buf[ch][i] = c THEN "lost" ELSE ContractMsg[c]]
      BY <1>4 DEF InQueue
    <2> HIDE DEF n
    <2>. QED
      BY <1>3, <2>1, <2>2 DEF Contract!Discard
  <1>. QED
    BY <1>5, <1>6

\* One step of the task.
LEMMA TaskMaps ==
    ASSUME IInv, TaskStep \/ HookPanic \/ Abort
    PROVE  [Contract!Next]_(Contract!vars)
  <1>1. ContractOut' = ContractOut
    BY TaskKeepsOut
  <1>2. ASSUME UNCHANGED <<fate, buf, ContractUp>> PROVE UNCHANGED Contract!vars
    BY <1>1, <1>2 DEF Contract!vars, ContractMsg
  <1>3. "mail" \in Mailboxes /\ "prio" \in Mailboxes
    BY DEF Mailboxes
  <1>4. CASE OnStartErr \/ HookPanic \/ Abort \/ OnStopOk \/ OnStopErr
    <2>1. pc \notin ShutdownPcs
      BY <1>4 DEF OnStartErr, HookPanic, Abort, OnStopOk, OnStopErr, ShutdownPcs, HookPcs,
         AwaitPcs, HandlerPcs
    <2>2. \E res : Leave(res)
      BY <1>4 DEF OnStartErr, HookPanic, Abort, OnStopOk, OnStopErr
    <2>3. Contract!GoDown
      BY <1>1, <2>1, <2>2, LeaveMaps
    <2>. QED
      BY <2>3 DEF Contract!Next
  <1>5. ASSUME NEW ch \in Mailboxes, NEW label \in HandlerPcs, StartHandler(ch, label),
               pc \in {"poll_prio", "poll_mail", "drain"}, Op[Head(buf[ch])] # "stop"
        PROVE  Contract!Next
    <2>1. pc \notin ShutdownPcs \cup HandlerPcs /\ label \notin ShutdownPcs
      BY <1>5 DEF ShutdownPcs, HandlerPcs
    <2>2. Contract!Run(ch)
      BY <1>1, <1>5, <2>1, HandlerMaps
    <2>. QED
      BY <1>5, <2>2 DEF Contract!Next
  <1>6. CASE PollPrio \/ Drain
    <2>1. CASE StartHandler("prio", "handler") \/ StartHandler("prio", "drain_handler")
      <3>1. Op[Head(buf["prio"])] # "stop"
        BY <2>1, NoStopInPrio DEF StartHandler
      <3>2. pc \in {"poll_prio", "drain"} /\ {"handler", "drain_handler"} \subseteq HandlerPcs
        BY <1>6 DEF PollPrio, Drain, HandlerPcs
      <3>. QED
        BY <1>3, <1>5, <2>1, <3>1, <3>2
    <2>2. CASE /\ UNCHANGED <<fate, buf>> /\ pc \in {"poll_prio", "drain"}
               /\ pc' \in {LoopStart, "poll_sub", "on_stop", "drain_wait"}
      BY <1>2, <2>2 DEF ContractUp, ShutdownPcs, LoopStart
    <2>. QED
      BY <1>6, <2>1, <2>2 DEF PollPrio, Drain, Goto, callVars, chanVars
  <1>7. CASE PollMail
    <2>1. CASE StartHandler("mail", "handler") /\ Op[Head(buf["mail"])] # "stop"
      <3>1. pc = "poll_mail" /\ "handler" \in HandlerPcs
        BY <1>7 DEF PollMail, HandlerPcs
      <3>. QED
        BY <1>3, <1>5, <2>1, <3>1
    <2>2. CASE /\ buf["mail"] # <<>> /\ Op[Head(buf["mail"])] = "stop"
               /\ BeginGraceful("stop")
               /\ buf' = [buf EXCEPT !["mail"] = Tail(@)]
               /\ fate' = [fate EXCEPT ![Head(buf["mail"])] = "handled"]
      <3>1. Head(buf["mail"]) \in Calls /\ fate \in [Calls -> Fates]
        BY <1>3, <2>2, TakeEffect DEF IInv, TypeOK
      <3>2. ContractMsg' = [ContractMsg EXCEPT ![Head(buf["mail"])] = MsgOf("handled")]
        BY <2>2, <3>1, MsgMoves
      <3>3. ContractUp /\ UNCHANGED ContractUp
        BY <1>7, <2>2 DEF PollMail, BeginGraceful, ContractUp, ShutdownPcs
      <3>4. \A c \in Calls : ContractMsg[c] # "running"
        <4>1. pc \notin HandlerPcs
          BY <1>7 DEF PollMail, HandlerPcs
        <4>. QED
          BY <4>1, NullAssumption DEF IInv, OneHandler, ContractMsg, MsgOf
      <3>5. Contract!Run("mail")
        BY <1>1, <2>2, <3>2, <3>3, <3>4, Messages DEF Contract!Run
      <3>. QED
        BY <1>3, <3>5 DEF Contract!Next
    <2>3. CASE UNCHANGED <<fate, buf>> /\ (BeginGraceful("refs") \/ Goto("poll_idle"))
      <3>1. UNCHANGED ContractUp
        BY <1>7, <2>3 DEF PollMail, BeginGraceful, Goto, ContractUp, ShutdownPcs
      <3>. QED
        BY <1>2, <2>3, <3>1
    <2>. QED
      BY <1>7, <2>1, <2>2, <2>3 DEF PollMail, callVars, chanVars
  <1>8. CASE HandlerDone
    <2>1. cur \in Calls /\ fate[cur] = "started" /\ fate \in [Calls -> Fates]
      BY <1>8 DEF HandlerDone, IInv, OneHandler, TypeOK
    <2>2. ContractMsg[cur] = "running"
      BY <2>1, Messages DEF ContractMsg
    <2>3. ContractMsg' = [ContractMsg EXCEPT ![cur] = MsgOf("handled")]
      BY <1>8, <2>1, MsgMoves DEF HandlerDone
    <2>4. UNCHANGED <<buf, ContractUp>>
      BY <1>8 DEF HandlerDone, chanVars, ContractUp, HandlerPcs, ShutdownPcs, LoopStart
    <2>5. Contract!Finish(cur)
      BY <1>1, <2>2, <2>3, <2>4, Messages DEF Contract!Finish
    <2>. QED
      BY <2>1, <2>5 DEF Contract!Next
  <1>9. CASE SweepMail \/ SweepPrio
    <2>1. pc \in ShutdownPcs
      BY <1>9 DEF SweepMail, SweepPrio, ShutdownPcs
    <2>2. ASSUME NEW ch \in Mailboxes, SweepOne(ch) PROVE Contract!Next
      <3>1. Contract!Discard(ch)
        BY <1>1, <2>1, <2>2, SweepMaps
      <3>. QED
        BY <2>2, <3>1 DEF Contract!Next
    <2>3. CASE SweepEnd("mail", AfterMailSweep) \/ SweepEnd("prio", "close_sub")
      BY <1>2, <2>1, <2>3 DEF SweepEnd, Goto, AfterMailSweep, callVars, chanVars, ContractUp,
         ShutdownPcs
    <2>. QED
      BY <1>3, <1>9, <2>2, <2>3 DEF SweepMail, SweepPrio
  <1>10. CASE DropMail \/ DropPrio
    <2>1. pc \in ShutdownPcs /\ {"drop_prio", "done"} \subseteq ShutdownPcs
      BY <1>10 DEF DropMail, DropPrio, ShutdownPcs
    <2>2. PICK ch \in Mailboxes, label \in ShutdownPcs : DropRx(ch, label)
      BY <1>3, <1>10, <2>1 DEF DropMail, DropPrio
    <2>3. Contract!Discard(ch) \/ UNCHANGED Contract!vars
      BY <1>1, <2>1, <2>2, DropMaps
    <2>. QED
      BY <2>3 DEF Contract!Next
  <1>11. CASE CloseTerm \/ CloseMail \/ ClosePrio \/ CloseSub
    BY <1>2, <1>11 DEF CloseTerm, CloseMail, ClosePrio, CloseSub, CloseBox, Goto, callVars,
       ContractUp, ShutdownPcs
  <1>12. CASE \/ FirstPoll \/ OnStartOk \/ PollTerm \/ PollSub \/ PollIdle \/ Wake
              \/ OnIdleOk \/ OnIdleErr \/ DrainWake \/ DrainQuiet
    BY <1>2, <1>12 DEF FirstPoll, OnStartOk, PollTerm, PollSub, PollIdle, Wake, OnIdleOk,
       OnIdleErr, DrainWake, DrainQuiet, QuietTimer, BeginStop, Goto, callVars, chanVars,
       taskVars, ContractUp, ShutdownPcs, LoopStart
  <1>. QED
    BY <1>4, <1>6, <1>7, <1>8, <1>9, <1>10, <1>11, <1>12 DEF TaskStep

\* One step of the system.
LEMMA StepMaps ==
    ASSUME IInv, [Next]_vars
    PROVE  [Contract!Next]_(Contract!vars)
  <1>1. CASE TaskStep \/ HookPanic \/ Abort
    BY <1>1, TaskMaps
  <1>2. ASSUME NEW c \in Calls, CallStep(c) PROVE [Contract!Next]_(Contract!vars)
    <2>1. CASE StartCall(c) \/ PollSend(c)
      BY <2>1, StartMaps DEF Contract!Next
    <2>2. CASE Push(c)
      BY <2>2, PushMaps DEF Contract!Next
    <2>3. CASE ReceiveReply(c)
      BY <2>3, ReplyMaps DEF Contract!Next
    <2>4. CASE TimeOut(c) \/ Cancel(c)
      BY <2>4, GiveUpMaps DEF Contract!Next
    <2>. QED
      BY <1>2, <2>1, <2>2, <2>3, <2>4 DEF CallStep
  <1>3. CASE RefStep \/ UNCHANGED vars
    <2>1. UNCHANGED <<stage, fate, buf, pc>>
      BY <1>3 DEF RefStep, Kill, DropRefs, Upgrade, Subscribe, SubscribePush, vars, taskVars,
         chanVars, callVars
    <2>. QED
      BY <2>1 DEF Contract!vars, ContractMsg, ContractOut, ContractUp
  <1>. QED
    BY <1>1, <1>2, <1>3 DEF Next

\* The task, its channels and its callers implement what MessageContract
\* promises of an actor's messages, for any calls, capacities and streams.
THEOREM ContractCorrect == Spec => ImplementsContract
  <1>1. Init => Contract!Init
    BY InitMaps
  <1>2. IInv /\ [Next]_vars => [Contract!Next]_(Contract!vars)
    BY StepMaps
  <1>. QED
    BY <1>1, <1>2, InvCorrect, PTL DEF Spec, ImplementsContract, Contract!Spec

(* What the contract's own theorems say of the actor.                        *)

Kept == INSTANCE MessageContract_proofs
    WITH op <- Op, chan <- Chan, msg <- ContractMsg, out <- ContractOut,
         box <- buf, up <- ContractUp

LEMMA SameContract ==
    /\ Contract!Init <=> Kept!Init
    /\ [Contract!Next]_(Contract!vars) <=> [Kept!Next]_(Kept!vars)
  <1>1. Contract!Init <=> Kept!Init
    BY DEF Contract!Init, Contract!Ops, Kept!Init, Kept!Ops
  <1>2. Contract!Next <=> Kept!Next
    BY DEF Contract!Next, Contract!Make, Contract!Ops, Kept!Make, Kept!Ops, Contract!Admit, Contract!Withdraw, Contract!Run, Contract!Finish,
       Contract!GoDown, Contract!Discard, Contract!Answer,
       Kept!Next, Kept!Admit, Kept!Withdraw, Kept!Run, Kept!Finish, Kept!GoDown,
       Kept!Discard, Kept!Answer
  <1>. QED
    BY <1>1, <1>2 DEF Contract!vars, Kept!vars

LEMMA KeepsContract == Spec => Kept!Spec
  <1>1. Contract!Init => Kept!Init
    BY SameContract
  <1>2. [Contract!Next]_(Contract!vars) => [Kept!Next]_(Kept!vars)
    BY SameContract
  <1>. QED
    BY <1>1, <1>2, ContractCorrect, PTL DEF ImplementsContract, Contract!Spec, Kept!Spec

\* The actor handles one message at a time, loses none while it is up, and
\* what its callers are told fits.
THEOREM PromisesHold == Spec => []Contract!Promises
  <1>1. Kept!Spec => []Kept!Promises
    BY Kept!PromisesKept
  <1>2. Kept!Promises => Contract!Promises
    BY DEF Kept!Promises, Kept!OneAtATime, Kept!LostOnlyWhenDown, Kept!AnswersFit,
       Kept!AdmittedWaitOnce, Kept!Distinct, Kept!InQueue,
       Contract!Promises, Contract!OneAtATime, Contract!LostOnlyWhenDown,
       Contract!AnswersFit, Contract!AdmittedWaitOnce, Contract!Distinct, Contract!InQueue
  <1>. QED
    BY <1>1, <1>2, KeepsContract, PTL

\* Within a mailbox the actor serves messages in the order of their pushes:
\* none is passed by one that was pushed later.
THEOREM PushOrderHolds == Spec => Contract!NoOvertaking
  <1>1. Kept!Spec => Kept!NoOvertaking
    BY Kept!NobodyOvertakes
  <1>2. Kept!NoOvertaking => Contract!NoOvertaking
    BY PTL DEF Kept!NoOvertaking, Contract!NoOvertaking, Kept!Ahead, Contract!Ahead,
       Kept!vars, Contract!vars
  <1>. QED
    BY <1>1, <1>2, KeepsContract, PTL
=============================================================================
