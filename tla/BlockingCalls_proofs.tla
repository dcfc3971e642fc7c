------------------------- MODULE BlockingCalls_proofs -------------------------
(* The safety properties of BlockingCalls, for any calls, any requests and  *)
(* any capacities.                                                          *)
EXTENDS BlockingCallsContract, Queues_proofs, FiniteSetTheorems

-----------------------------------------------------------------------------
(* Types *)

\* The mailbox of a call is one of the two, and the loop's next source too.
LEMMA ChanTypes == (\A c \in Calls : Chan(c) \in Mailboxes) /\ Source \in Mailboxes
BY DEF Chan, Source, Mailboxes

\* Granting and popping a waiter keep the types of stage and waitq.
LEMMA GrantTypes ==
    ASSUME NEW ch \in Mailboxes, NEW st \in [Calls -> Stages],
           waitq \in [Mailboxes -> Seq(Calls)]
    PROVE  /\ GrantHead(ch, st) \in [Calls -> Stages]
           /\ PopWaiter(ch) \in [Mailboxes -> Seq(Calls)]
BY DEF GrantHead, PopWaiter, Stages, InCall, Waits

\* A new stage for one call.
LEMMA BecomeType ==
    ASSUME TypeOK, NEW c \in Calls, NEW s \in Stages, Become(c, s)
    PROVE  /\ stage' \in [Calls -> Stages]
           /\ stage'[c] = s
           /\ \A d \in Calls \ {c} : stage'[d] = stage[d]
BY DEF TypeOK, Become

\* One more letter of one call.
LEMMA RecordType ==
    ASSUME TypeOK, NEW c \in Calls, NEW r \in Reasons, Record(c, r)
    PROVE  /\ letters' \in [Calls -> [Reasons -> Nat]]
           /\ letters'[c][r] = letters[c][r] + 1
           /\ \A s \in Reasons \ {r} : letters'[c][s] = letters[c][s]
           /\ \A d \in Calls \ {c} : letters'[d] = letters[d]
BY DEF TypeOK, Record

LEMMA InitTypes == Init => TypeOK
<1> SUFFICES ASSUME Init PROVE TypeOK
  OBVIOUS
<1>1. NoRequest \in Requests
  BY DEF NoRequest, Requests, Ops, Contexts, PrioOps
<1>2. <<>> \in Seq(Calls)
  OBVIOUS
<1>3. buf \in [Mailboxes -> Seq(Calls)] /\ waitq \in [Mailboxes -> Seq(Calls)]
  BY <1>2 DEF Init
<1>4. stage \in [Calls -> Stages] /\ fate \in [Calls -> Fates]
  BY DEF Init, Stages, Fates
<1>5. req \in [Calls -> Requests]
  BY <1>1 DEF Init
<1>6. letters \in [Calls -> [Reasons -> Nat]]
  BY DEF Init
<1> QED BY <1>3, <1>4, <1>5, <1>6 DEF Init, TypeOK

\* What any step of a call but Begin and the push does to stages and letters.
CallMoves(c) ==
    /\ UNCHANGED <<rtVars, actorVars, buf, req, fate>>
    /\ stage' \in [Calls -> Stages]
    /\ waitq' \in [Mailboxes -> Seq(Calls)]
    /\ letters' \in [Calls -> [Reasons -> Nat]]

\* Every step of a call but Begin and the push keeps these types.
LEMMA MoveTypes ==
    ASSUME TypeOK, NEW c \in Calls, CallStep(c) \/ Cancel(c), ~Push(c)
    PROVE  CallMoves(c)
<1> USE DEF mailVars, callVars, Stages, InCall, Busy, Waits, Panics, Returned, Reasons
<1>1. stage \in [Calls -> Stages] /\ waitq \in [Mailboxes -> Seq(Calls)]
      /\ letters \in [Calls -> [Reasons -> Nat]] /\ Chan(c) \in Mailboxes
  BY ChanTypes DEF TypeOK
<1>2. ASSUME Refused(c)
      PROVE  stage' \in [Calls -> Stages] /\ letters' \in [Calls -> [Reasons -> Nat]]
  BY <1>2, BecomeType, RecordType DEF Refused
<1>3. ASSUME Unavailable(c)
      PROVE  stage' \in [Calls -> Stages] /\ letters' \in [Calls -> [Reasons -> Nat]]
  BY <1>3, BecomeType, RecordType DEF Unavailable
<1>4. CASE TrySend(c)
  BY <1>1, <1>2, <1>4, BecomeType DEF TrySend, NotEnabled, CallMoves
<1>5. CASE AskDisabled(c)
  BY <1>1, <1>5, BecomeType DEF AskDisabled, NotEnabled, CallMoves
<1>6. CASE WaitHere(c) \/ RefuseToPark(c)
  BY <1>1, <1>6, BecomeType DEF WaitHere, RefuseToPark, CallMoves
<1>7. CASE SpawnWorker(c)
  BY <1>1, <1>3, <1>7, BecomeType DEF SpawnWorker, CallMoves
<1>8. CASE BuildRuntime(c)
  BY <1>1, <1>3, <1>8, BecomeType DEF BuildRuntime, CallMoves
<1>9. CASE PollFirst(c)
  <2>1. Append(waitq[Chan(c)], c) \in Seq(Calls)
    BY <1>1, AppendProperties
  <2>2. waitq' \in [Mailboxes -> Seq(Calls)]
    BY <1>1, <1>9, <2>1 DEF PollFirst
  <2>3. stage' \in [Calls -> Stages] /\ letters' \in [Calls -> [Reasons -> Nat]]
    BY <1>1, <1>2, <1>9, BecomeType DEF PollFirst
  <2> QED BY <1>9, <2>2, <2>3 DEF PollFirst, CallMoves
<1>10. CASE PollSend(c)
  BY <1>1, <1>2, <1>10, BecomeType DEF PollSend, CallMoves
<1>11. CASE ReceiveReply(c)
  BY <1>1, <1>11, BecomeType, RecordType DEF ReceiveReply, CallMoves
<1>12. CASE TimeOut(c) \/ Cancel(c)
  <2>1. PICK out \in {"errTimeout", "cancelled"} : GiveUp(c, out)
    BY <1>12 DEF TimeOut, Cancel
  <2>2. [stage EXCEPT ![c] = out] \in [Calls -> Stages]
    BY <1>1
  <2>3. /\ Without(waitq[Chan(c)], c) \in Seq(Calls)
        /\ PopWaiter(Chan(c)) \in [Mailboxes -> Seq(Calls)]
        /\ GrantHead(Chan(c), [stage EXCEPT ![c] = out]) \in [Calls -> Stages]
    BY <1>1, <2>2, GrantTypes, WithoutType
  <2>4. stage' \in [Calls -> Stages] /\ waitq' \in [Mailboxes -> Seq(Calls)]
    BY <1>1, <2>1, <2>2, <2>3 DEF GiveUp
  <2>5. letters' \in [Calls -> [Reasons -> Nat]]
    BY <1>1, <1>12, RecordType DEF TimeOut, Cancel
  <2> QED BY <2>1, <2>4, <2>5 DEF GiveUp, CallMoves
<1> QED BY <1>4, <1>5, <1>6, <1>7, <1>8, <1>9, <1>10, <1>11, <1>12 DEF CallStep

\* What Take takes is a call.
LEMMA SourceHead ==
    ASSUME TypeOK, buf[Source] # <<>>
    PROVE  Head(buf[Source]) \in Calls /\ Tail(buf[Source]) \in Seq(Calls)
<1>1. buf[Source] \in Seq(Calls)
  BY ChanTypes DEF TypeOK
<1> QED BY <1>1, HeadTailProperties

LEMMA TypeStep == TypeOK /\ [Next]_vars => TypeOK'
<1> SUFFICES ASSUME TypeOK, [Next]_vars PROVE TypeOK'
  OBVIOUS
<1> USE DEF rtVars, actorVars, mailVars, callVars
<1>1. ASSUME NEW c \in Calls, NEW r \in Requests, Begin(c, r) PROVE TypeOK'
  <2>1. "called" \in Stages
    BY DEF Stages, InCall, Busy
  <2>2. stage' \in [Calls -> Stages]
    BY <1>1, <2>1, BecomeType DEF Begin
  <2> QED BY <1>1, <2>2 DEF Begin, TypeOK
<1>2. ASSUME NEW c \in Calls, CallStep(c) \/ Cancel(c), ~Push(c) PROVE TypeOK'
  BY <1>2, MoveTypes DEF CallMoves, TypeOK
<1>3. ASSUME NEW c \in Calls, Push(c) PROVE TypeOK'
  <2>1. Chan(c) \in Mailboxes /\ buf \in [Mailboxes -> Seq(Calls)]
    BY ChanTypes DEF TypeOK
  <2>2. Append(buf[Chan(c)], c) \in Seq(Calls)
    BY <2>1, AppendProperties
  <2>3. stage' \in [Calls -> Stages]
    BY <1>3, BecomeType DEF Push, Stages, InCall, Waits, Returned
  <2>4. buf' \in [Mailboxes -> Seq(Calls)] /\ fate' \in [Calls -> Fates]
    BY <1>3, <2>1, <2>2 DEF Push, TypeOK, Fates
  <2> QED BY <1>3, <2>3, <2>4 DEF Push, TypeOK
<1>4. CASE Take
  <2>1. Head(buf[Source]) \in Calls /\ Tail(buf[Source]) \in Seq(Calls)
    BY <1>4, SourceHead DEF Take
  <2>2. stage' \in [Calls -> Stages] /\ waitq' \in [Mailboxes -> Seq(Calls)]
    BY <1>4, ChanTypes, GrantTypes DEF Take, TypeOK
  <2> QED BY <1>4, <2>1, <2>2 DEF Take, TypeOK, Fates
<1>5. CASE HandlerReturns
  BY <1>5 DEF HandlerReturns, TypeOK, Fates
<1>6. CASE ObserveKill \/ Unwind
  <2>1. GoDown
    BY <1>6 DEF ObserveKill, Unwind
  <2>2. fate' \in [Calls -> Fates]
    BY <2>1 DEF GoDown, TypeOK, Fates
  <2>3. buf' \in [Mailboxes -> Seq(Calls)] /\ waitq' \in [Mailboxes -> Seq(Calls)]
    <3>1. <<>> \in Seq(Calls)
      OBVIOUS
    <3> QED BY <2>1, <3>1 DEF GoDown
  <2> QED BY <2>1, <2>2, <2>3 DEF GoDown, TypeOK
<1>7. CASE Kill
  BY <1>7 DEF Kill, TypeOK
<1>8. CASE UNCHANGED vars
  BY <1>8 DEF vars, TypeOK
<1> QED BY <1>1, <1>2, <1>3, <1>4, <1>5, <1>6, <1>7, <1>8 DEF Next, LoopStep, CallStep

\* Every variable stays in its set, for any calls, requests and capacities.
THEOREM TypeCorrect == Spec => []TypeOK
<1> QED BY InitTypes, TypeStep, PTL DEF Spec

-----------------------------------------------------------------------------
(* What a step of one call leaves alone *)

\* A released permit goes to one waiting sender, who leaves the queue.
LEMMA GrantEffect ==
    ASSUME waitq \in [Mailboxes -> Seq(Calls)], NEW st \in [Calls -> Stages],
           NEW ch \in Mailboxes, QueuedWait(waitq, st)
    PROVE  /\ \A c \in Calls :
                \/ GrantHead(ch, st)[c] = st[c]
                \/ st[c] = "wait" /\ GrantHead(ch, st)[c] = "granted"
           /\ QueuedWait(PopWaiter(ch), GrantHead(ch, st))
           /\ \A m \in Mailboxes : waitq[m] = <<>> => PopWaiter(ch)[m] = <<>>
<1>1. CASE waitq[ch] = <<>>
  BY <1>1 DEF GrantHead, PopWaiter
<1>2. CASE waitq[ch] # <<>>
  <2> DEFINE h == Head(waitq[ch])
  <2>1. waitq[ch] \in Seq(Calls) /\ Distinct(waitq[ch])
    BY DEF QueuedWait
  <2>2. /\ h \in Calls /\ InQueue(waitq[ch], h)
        /\ Distinct(Tail(waitq[ch])) /\ Tail(waitq[ch]) \in Seq(Calls)
        /\ \A d : InQueue(Tail(waitq[ch]), d) <=> InQueue(waitq[ch], d) /\ d # h
    BY <1>2, <2>1, TailQueue
  <2>3. st[h] = "wait" /\ Chan(h) = ch
    BY <2>2 DEF QueuedWait
  <2> HIDE DEF h
  <2>4. GrantHead(ch, st) = [st EXCEPT ![h] = "granted"]
    BY <1>2 DEF GrantHead, h
  <2>5. PopWaiter(ch) = [waitq EXCEPT ![ch] = Tail(@)]
    BY <1>2 DEF PopWaiter
  <2>6. \A m \in Mailboxes, c \in Calls :
          InQueue(PopWaiter(ch)[m], c) => InQueue(waitq[m], c) /\ c # h
    BY <2>2, <2>3, <2>5 DEF QueuedWait
  <2>7. QueuedWait(PopWaiter(ch), GrantHead(ch, st))
    BY <2>2, <2>4, <2>5, <2>6 DEF QueuedWait
  <2> QED BY <1>2, <2>2, <2>3, <2>4, <2>5, <2>7
<1> QED BY <1>1, <1>2

\* A future that gives up leaves the queue, or passes its permit on.
LEMMA GiveUpEffect ==
    ASSUME TypeOK, QueuedWait(waitq, stage), NEW c \in Calls,
           NEW out \in {"errTimeout", "cancelled"}, GiveUp(c, out)
    PROVE  /\ stage[c] \in {"wait", "granted", "awaiting"} /\ stage'[c] = out
           /\ \A d \in Calls \ {c} :
                stage'[d] = stage[d] \/ (stage[d] = "wait" /\ stage'[d] = "granted")
           /\ QueuedWait(waitq, stage)'
           /\ DownHasNoWaiters => DownHasNoWaiters'
<1> DEFINE st == [stage EXCEPT ![c] = out]
<1>1. /\ stage \in [Calls -> Stages] /\ waitq \in [Mailboxes -> Seq(Calls)]
      /\ Chan(c) \in Mailboxes /\ req' = req /\ loop' = loop
  BY ChanTypes DEF TypeOK, GiveUp, actorVars
<1>2. st \in [Calls -> Stages] /\ st[c] = out /\ \A d \in Calls \ {c} : st[d] = stage[d]
  BY <1>1 DEF Stages, Returned
<1> HIDE DEF st
<1>3. \A d : Chan(d)' = Chan(d)
  BY <1>1 DEF Chan, OnPrio
<1>4. CASE stage[c] = "granted"
  <2>1. stage' = GrantHead(Chan(c), st) /\ waitq' = PopWaiter(Chan(c))
    BY <1>4 DEF GiveUp, st
  <2>2. QueuedWait(waitq, st)
    BY <1>2, <1>4 DEF QueuedWait
  <2>7. /\ \A d \in Calls :
             \/ GrantHead(Chan(c), st)[d] = st[d]
             \/ st[d] = "wait" /\ GrantHead(Chan(c), st)[d] = "granted"
        /\ QueuedWait(PopWaiter(Chan(c)), GrantHead(Chan(c), st))
        /\ \A m \in Mailboxes : waitq[m] = <<>> => PopWaiter(Chan(c))[m] = <<>>
    BY <1>1, <1>2, <2>2, GrantEffect
  <2>3. QueuedWait(waitq, stage)'
    BY <1>3, <2>1, <2>7 DEF QueuedWait
  <2>4. stage'[c] = out
    BY <1>2, <2>1, <2>7
  <2>5. \A d \in Calls \ {c} :
          stage'[d] = stage[d] \/ (stage[d] = "wait" /\ stage'[d] = "granted")
    BY <1>2, <2>1, <2>7
  <2>6. DownHasNoWaiters => DownHasNoWaiters'
    BY <1>1, <2>1, <2>7 DEF DownHasNoWaiters
  <2> QED BY <1>4, <2>3, <2>4, <2>5, <2>6
<1>5. CASE stage[c] # "granted"
  <2>1. stage' = st /\ waitq' = [waitq EXCEPT ![Chan(c)] = Without(@, c)]
    BY <1>5 DEF GiveUp, st
  <2>2. /\ Distinct(Without(waitq[Chan(c)], c))
        /\ \A d : InQueue(Without(waitq[Chan(c)], c), d)
                    <=> InQueue(waitq[Chan(c)], d) /\ d # c
    BY <1>1, WithoutQueue DEF QueuedWait
  <2>3. QueuedWait(waitq, stage)'
    BY <1>1, <1>2, <1>3, <2>1, <2>2 DEF QueuedWait
  <2>4. waitq[Chan(c)] = <<>> => Without(waitq[Chan(c)], c) = <<>>
    BY EmptyQueue DEF Without, InQueue
  <2> QED BY <1>1, <1>2, <2>1, <2>3, <2>4 DEF GiveUp, DownHasNoWaiters
<1> QED BY <1>4, <1>5

-----------------------------------------------------------------------------
(* The part of the invariant that speaks of one call *)

BoundsFate(c) ==
    /\ stage[c] \in {"idle", "worker", "wait", "granted"} \cup Busy =>
         fate[c] = "unsent"
    /\ stage[c] = "awaiting" => IsAsk(c) /\ fate[c] # "unsent"
TellsFate(c) ==
    /\ stage[c] \in {"errSend", "errRuntime", "errNotEnabled"} \cup Panics
         => fate[c] = "unsent"
    /\ stage[c] \in {"errTimeout", "cancelled"} /\ ~IsAsk(c) => fate[c] = "unsent"
    /\ stage[c] = "errReceive" => fate[c] = "lost"
    /\ stage[c] = "ok" => fate[c] # "unsent"
    /\ stage[c] = "ok" /\ IsAsk(c) => fate[c] = "handled"
OneLetter(c) ==
    \A r \in Reasons : letters[c][r] = IF Fits(r, stage[c]) THEN 1 ELSE 0
DriverStage(c) ==
    HoldsDriver(c) =>
      \/ IsAsync(c)
      \/ IsAsk(c) /\ stage[c] = "called"
      \/ ~IsAsk(c) /\ stage[c] \in {"called", "full", "permit"}

CallOK(c) == BoundsFate(c) /\ TellsFate(c) /\ OneLetter(c) /\ DriverStage(c)

LEMMA CallByCall ==
    (\A c \in Calls : CallOK(c)) <=>
      (StageBoundsFate /\ OutcomeTellsFate /\ OneLetterPerFailure /\ DriverStages)
BY DEF CallOK, BoundsFate, TellsFate, OneLetter, DriverStage,
       StageBoundsFate, OutcomeTellsFate, OneLetterPerFailure, DriverStages

\* A call under way leaves no letter when it moves on without failing.
LEMMA QuietLetters ==
    ASSUME NEW c \in Calls, OneLetter(c), stage[c] \in {"idle"} \cup InCall,
           letters'[c] = letters[c],
           stage'[c] \notin {"errSend", "errTimeout", "errReceive", "errRuntime"}
    PROVE  OneLetter(c)'
BY DEF OneLetter, Fits, InCall, Busy, Waits

\* And one letter when it fails.
LEMMA OneMoreLetter ==
    ASSUME TypeOK, NEW c \in Calls, OneLetter(c), stage[c] \in InCall,
           NEW r \in Reasons, Record(c, r), Fits(r, stage'[c])
    PROVE  OneLetter(c)'
<1>1. \A s \in Reasons : letters[c][s] = 0
  BY DEF OneLetter, Fits, InCall, Busy, Waits
<1>2. /\ letters'[c][r] = 1
      /\ \A s \in Reasons \ {r} : letters'[c][s] = 0
  BY <1>1, RecordType
<1>3. \A s \in Reasons : Fits(s, stage'[c]) => s = r
  BY DEF Fits
<1> QED BY <1>2, <1>3 DEF OneLetter, Fits

\* What the rest of a call's part needs to know of a step that moves only its
\* stage: from where to where, and what may hold the driver.
LEMMA StageMoves ==
    ASSUME NEW c \in Calls, CallOK(c), UNCHANGED <<flavor, req, fate>>,
           OneLetter(c)',
           \/ /\ stage[c] \in Busy \cup {"worker", "wait", "granted"}
              /\ stage'[c] \in {"errSend", "errRuntime", "errNotEnabled"} \cup Panics
           \/ /\ stage[c] \in {"called", "poll", "wait", "granted"}
              /\ stage'[c] \in {"poll", "permit", "wait", "granted"}
              /\ HoldsDriver(c) =>
                   IsAsync(c) \/ (~IsAsk(c) /\ stage'[c] = "permit")
           \/ stage[c] = "called" /\ ~IsAsk(c) /\ stage'[c] = "full"
           \/ /\ stage[c] \in {"called", "full", "worker"}
              /\ stage'[c] \in {"poll", "worker"}
              /\ ~HoldsDriver(c)
    PROVE  CallOK(c)'
<1> USE DEF InCall, Busy, Waits, Panics
<1>1. (IsAsk(c)' <=> IsAsk(c)) /\ (IsAsync(c)' <=> IsAsync(c))
      /\ (OnDriver(c)' <=> OnDriver(c))
  BY DEF IsAsk, IsAsync, OnDriver
<1>2. BoundsFate(c)'
  BY <1>1 DEF CallOK, BoundsFate
<1>3. TellsFate(c)'
  BY <1>1 DEF CallOK, BoundsFate, TellsFate
<1>4. DriverStage(c)'
  BY <1>1 DEF CallOK, DriverStage, HoldsDriver
<1> QED BY <1>2, <1>3, <1>4 DEF CallOK

\* The call that steps keeps its part of the invariant.
LEMMA OwnCall ==
    ASSUME TypeOK, QueuedWait(waitq, stage), NEW c \in Calls, CallOK(c),
           CallStep(c) \/ Cancel(c)
    PROVE  CallOK(c)'
<1> USE DEF rtVars, actorVars, mailVars, callVars
<1>1. OneLetter(c) /\ DriverStage(c) /\ stage \in [Calls -> Stages]
  BY DEF CallOK, TypeOK
<1>2. ASSUME Refused(c), stage[c] \in {"called", "poll", "wait", "granted"},
             UNCHANGED <<flavor, req, fate>>
      PROVE  CallOK(c)'
  <2>1. stage'[c] = "errSend" /\ Record(c, "ActorStopped")
    BY <1>1, <1>2 DEF Refused, Become
  <2>2. OneLetter(c)'
    BY <1>1, <1>2, <2>1, OneMoreLetter DEF Fits, Reasons, InCall, Busy, Waits
  <2> QED BY <1>2, <2>1, <2>2, StageMoves DEF Busy
<1>3. ASSUME Unavailable(c), stage[c] \in {"called", "full", "worker"},
             UNCHANGED <<flavor, req, fate>>
      PROVE  CallOK(c)'
  <2>1. stage'[c] = "errRuntime" /\ Record(c, "RuntimeUnavailable")
    BY <1>1, <1>3 DEF Unavailable, Become
  <2>2. OneLetter(c)'
    BY <1>1, <1>3, <2>1, OneMoreLetter DEF Fits, Reasons, InCall, Busy, Waits
  <2> QED BY <1>3, <2>1, <2>2, StageMoves DEF Busy
<1>4. ASSUME NEW s, Become(c, s), UNCHANGED letters, stage[c] \in InCall,
             s \notin {"errSend", "errTimeout", "errReceive", "errRuntime"}
      PROVE  OneLetter(c)' /\ stage'[c] = s
  BY <1>1, <1>4, QuietLetters DEF Become
<1>5. CASE TrySend(c)
  <2>1. stage[c] = "called" /\ ~IsAsk(c) /\ UNCHANGED <<flavor, req, fate>>
    BY <1>5 DEF TrySend
  <2>2. CASE Refused(c)
    BY <1>2, <2>1, <2>2
  <2>3. CASE NotEnabled(c)
    BY <1>4, <2>1, <2>3, StageMoves DEF NotEnabled, InCall, Busy
  <2>4. CASE Become(c, "permit") /\ UNCHANGED letters
    BY <1>4, <2>1, <2>4, StageMoves DEF InCall, Busy
  <2>5. CASE Become(c, "panicDeadlock") /\ UNCHANGED letters
    BY <1>4, <2>1, <2>5, StageMoves DEF InCall, Busy, Panics
  <2>6. CASE IsAsync(c) /\ Become(c, "poll") /\ UNCHANGED letters
    BY <1>4, <2>1, <2>6, StageMoves DEF InCall, Busy
  <2>7. CASE Become(c, "full") /\ UNCHANGED letters
    BY <1>4, <2>1, <2>7, StageMoves DEF InCall, Busy
  <2> QED BY <1>5, <2>2, <2>3, <2>4, <2>5, <2>6, <2>7 DEF TrySend
<1>6. CASE AskDisabled(c)
  BY <1>4, <1>6, StageMoves DEF AskDisabled, NotEnabled, InCall, Busy
<1>7. ASSUME Dispatches(c) PROVE stage[c] \in {"called", "full"}
  BY <1>7 DEF Dispatches
<1>8. CASE WaitHere(c)
  <2>1. ~HoldsDriver(c)
    BY <1>8 DEF WaitHere, InMultiThread, MayPark, HoldsDriver
  <2> QED BY <1>4, <1>7, <1>8, <2>1, StageMoves DEF WaitHere, InCall, Busy
<1>9. CASE RefuseToPark(c)
  BY <1>4, <1>7, <1>9, StageMoves DEF RefuseToPark, InCall, Busy, Panics
<1>10. CASE SpawnWorker(c)
  <2>1. ~HoldsDriver(c) /\ stage[c] \in {"called", "full"}
        /\ UNCHANGED <<flavor, req, fate>>
    BY <1>7, <1>10 DEF SpawnWorker, MayPark, HoldsDriver
  <2>2. CASE Become(c, "worker") /\ UNCHANGED letters
    BY <1>4, <2>1, <2>2, StageMoves DEF InCall, Busy
  <2> QED BY <1>3, <1>10, <2>1, <2>2 DEF SpawnWorker
<1>11. CASE BuildRuntime(c)
  <2>1. ~IsAsync(c) => ~HoldsDriver(c)
    BY <1>1, <1>11 DEF BuildRuntime, DriverStage
  <2>2. ~HoldsDriver(c) /\ stage[c] = "worker" /\ UNCHANGED <<flavor, req, fate>>
    BY <1>11, <2>1 DEF BuildRuntime, HoldsDriver, Busy
  <2>3. CASE Become(c, "poll") /\ UNCHANGED letters
    BY <1>4, <2>2, <2>3, StageMoves DEF InCall, Waits
  <2> QED BY <1>3, <1>11, <2>2, <2>3 DEF BuildRuntime
<1>12. ASSUME HoldsDriver(c), stage[c] \in {"poll", "wait", "granted"}
       PROVE  IsAsync(c)
  BY <1>1, <1>12 DEF DriverStage
<1>13. CASE PollFirst(c)
  <2>1. stage[c] = "poll" /\ UNCHANGED <<flavor, req, fate>>
    BY <1>13 DEF PollFirst
  <2>2. CASE Refused(c)
    BY <1>2, <2>1, <2>2
  <2>3. CASE Become(c, "panicDeadlock") /\ UNCHANGED letters
    BY <1>4, <2>1, <2>3, StageMoves DEF InCall, Busy, Panics
  <2>4. CASE Become(c, "permit") /\ UNCHANGED letters
    BY <1>4, <1>12, <2>1, <2>4, StageMoves DEF InCall, Busy
  <2>5. CASE Become(c, "wait") /\ UNCHANGED letters
    BY <1>4, <1>12, <2>1, <2>5, StageMoves DEF InCall, Busy
  <2> QED BY <1>13, <2>2, <2>3, <2>4, <2>5 DEF PollFirst
<1>14. CASE PollSend(c)
  <2>1. stage[c] \in {"wait", "granted"} /\ UNCHANGED <<flavor, req, fate>>
    BY <1>14 DEF PollSend
  <2>2. CASE Refused(c)
    BY <1>2, <2>1, <2>2
  <2>3. CASE Become(c, "permit") /\ UNCHANGED letters
    BY <1>4, <1>12, <2>1, <2>3, StageMoves DEF InCall, Waits
  <2> QED BY <1>14, <2>2, <2>3 DEF PollSend
<1>15. ASSUME UNCHANGED <<flavor, req>>
       PROVE  (IsAsk(c)' <=> IsAsk(c)) /\ (IsAsync(c)' <=> IsAsync(c))
              /\ (OnDriver(c)' <=> OnDriver(c))
  BY <1>15 DEF IsAsk, IsAsync, OnDriver
<1>16. CASE Push(c)
  <2>1. stage[c] = "permit" /\ UNCHANGED <<flavor, req, letters>>
    BY <1>16 DEF Push
  <2>2. stage'[c] = IF IsAsk(c) THEN "awaiting" ELSE "ok"
    BY <1>1, <1>16 DEF Push, Become
  <2>3. fate'[c] \in {"leaked", "queued"}
    BY <1>16 DEF Push, TypeOK
  <2>4. OneLetter(c)'
    BY <1>1, <2>1, <2>2, QuietLetters DEF InCall, Busy
  <2>5. BoundsFate(c)' /\ TellsFate(c)'
    BY <1>15, <2>1, <2>2, <2>3 DEF BoundsFate, TellsFate, Busy, Panics
  <2>6. HoldsDriver(c)' => HoldsDriver(c) /\ IsAsk(c) /\ ~IsAsync(c)
    BY <1>15, <2>1, <2>2 DEF HoldsDriver, InCall, Busy, Waits, IsAsk, IsAsync
  <2>7. DriverStage(c)'
    BY <1>1, <2>1, <2>6 DEF DriverStage
  <2> QED BY <2>4, <2>5, <2>7 DEF CallOK
<1>17. CASE ReceiveReply(c)
  <2>1. stage[c] = "awaiting" /\ IsAsk(c) /\ UNCHANGED <<flavor, req, fate>>
    BY <1>17 DEF ReceiveReply, CallOK, BoundsFate
  <2>2. CASE fate[c] = "handled" /\ Become(c, "ok") /\ UNCHANGED letters
    <3>1. OneLetter(c)' /\ stage'[c] = "ok"
      BY <1>4, <2>1, <2>2 DEF InCall, Waits
    <3> QED BY <1>15, <2>1, <2>2, <3>1
            DEF CallOK, BoundsFate, TellsFate, DriverStage, HoldsDriver,
                InCall, Busy, Waits, Panics
  <2>3. CASE fate[c] = "lost" /\ Become(c, "errReceive") /\ Record(c, "ReplyDropped")
    <3>1. stage'[c] = "errReceive"
      BY <1>1, <2>3 DEF Become
    <3>2. OneLetter(c)'
      BY <1>1, <2>1, <2>3, <3>1, OneMoreLetter DEF Fits, Reasons, InCall, Waits
    <3> QED BY <1>15, <2>1, <2>3, <3>1, <3>2
            DEF CallOK, BoundsFate, TellsFate, DriverStage, HoldsDriver,
                InCall, Busy, Waits, Panics
  <2> QED BY <1>17, <2>2, <2>3 DEF ReceiveReply
<1>18. CASE TimeOut(c) \/ Cancel(c)
  <2>1. PICK out \in {"errTimeout", "cancelled"} :
          /\ GiveUp(c, out)
          /\ IF out = "errTimeout" THEN Record(c, "Timeout") ELSE UNCHANGED letters
    BY <1>18 DEF TimeOut, Cancel
  <2>2. /\ stage[c] \in {"wait", "granted", "awaiting"} /\ stage'[c] = out
        /\ UNCHANGED <<flavor, req, fate>>
    BY <2>1, GiveUpEffect DEF GiveUp
  <2>3. OneLetter(c)'
    <3>1. CASE out = "errTimeout"
      BY <1>1, <2>1, <2>2, <3>1, OneMoreLetter DEF Fits, Reasons, InCall, Waits
    <3>2. CASE out = "cancelled"
      BY <1>1, <2>1, <2>2, <3>2, QuietLetters DEF InCall, Waits
    <3> QED BY <3>1, <3>2
  <2> QED BY <1>15, <2>2, <2>3
          DEF CallOK, BoundsFate, TellsFate, DriverStage, HoldsDriver,
              InCall, Busy, Waits, Panics
<1> QED BY <1>5, <1>6, <1>8, <1>9, <1>10, <1>11, <1>13, <1>14, <1>16, <1>17, <1>18
        DEF CallStep

-----------------------------------------------------------------------------
(* The other calls *)

\* What any step may do to a call that does not step itself: grant its send a
\* permit, and move its message along inside the actor.
Bystander(d) ==
    /\ flavor' = flavor /\ req'[d] = req[d] /\ letters'[d] = letters[d]
    /\ stage'[d] = stage[d] \/ (stage[d] = "wait" /\ stage'[d] = "granted")
    /\ \/ fate'[d] = fate[d]
       \/ fate[d] = "queued" /\ fate'[d] \in {"started", "lost"}
       \/ fate[d] = "started" /\ fate'[d] \in {"handled", "lost"}

LEMMA BystanderOK ==
    ASSUME NEW d \in Calls, CallOK(d), Bystander(d)
    PROVE  CallOK(d)'
<1> USE DEF InCall, Busy, Waits, Panics
<1>1. (IsAsk(d)' <=> IsAsk(d)) /\ (IsAsync(d)' <=> IsAsync(d))
      /\ (OnDriver(d)' <=> OnDriver(d))
  BY DEF Bystander, IsAsk, IsAsync, OnDriver
<1>2. BoundsFate(d)'
  BY <1>1 DEF CallOK, Bystander, BoundsFate
<1>3. TellsFate(d)'
  BY <1>1 DEF CallOK, Bystander, TellsFate
<1>4. OneLetter(d)'
  BY DEF CallOK, Bystander, OneLetter, Fits
<1>5. DriverStage(d)'
  BY <1>1 DEF CallOK, Bystander, DriverStage, HoldsDriver
<1> QED BY <1>2, <1>3, <1>4, <1>5 DEF CallOK

\* A step of one call is a step of no other.
LEMMA OthersStandBy ==
    ASSUME TypeOK, QueuedWait(waitq, stage), NEW c \in Calls,
           CallStep(c) \/ Cancel(c), NEW d \in Calls \ {c}
    PROVE  Bystander(d)
<1> USE DEF rtVars, actorVars, mailVars, callVars
<1>1. ASSUME NEW s, Become(c, s) PROVE stage'[d] = stage[d]
  BY <1>1 DEF Become, TypeOK
<1>2. ASSUME NEW r, Record(c, r) PROVE letters'[d] = letters[d]
  BY <1>2 DEF Record, TypeOK
<1>3. CASE TrySend(c) \/ AskDisabled(c) \/ WaitHere(c) \/ RefuseToPark(c)
  BY <1>1, <1>2, <1>3
     DEF TrySend, AskDisabled, WaitHere, RefuseToPark, NotEnabled, Refused, Bystander
<1>4. CASE SpawnWorker(c) \/ BuildRuntime(c) \/ PollFirst(c) \/ PollSend(c)
  BY <1>1, <1>2, <1>4
     DEF SpawnWorker, BuildRuntime, PollFirst, PollSend, Unavailable, Refused, Bystander
<1>5. CASE Push(c) \/ ReceiveReply(c)
  BY <1>1, <1>2, <1>5 DEF Push, ReceiveReply, Bystander, TypeOK
<1>6. CASE TimeOut(c) \/ Cancel(c)
  <2>1. PICK out \in {"errTimeout", "cancelled"} : GiveUp(c, out)
    BY <1>6 DEF TimeOut, Cancel
  <2>2. stage'[d] = stage[d] \/ (stage[d] = "wait" /\ stage'[d] = "granted")
    BY <2>1, GiveUpEffect
  <2>3. letters'[d] = letters[d]
    BY <1>2, <1>6 DEF TimeOut, Cancel
  <2> QED BY <2>1, <2>2, <2>3 DEF GiveUp, Bystander
<1> QED BY <1>3, <1>4, <1>5, <1>6 DEF CallStep

\* What Take hands to the actor is a call queued in the mailbox it is taken from.
LEMMA TakeEffect ==
    ASSUME BlockInv, Take
    PROVE  /\ Head(buf[Source]) \in Calls /\ Chan(Head(buf[Source])) = Source
           /\ fate[Head(buf[Source])] = "queued"
           /\ Distinct(Tail(buf[Source]))
           /\ \A d : InQueue(Tail(buf[Source]), d) <=>
                       InQueue(buf[Source], d) /\ d # Head(buf[Source])
<1>1. /\ Source \in Mailboxes /\ buf[Source] \in Seq(Calls)
      /\ Distinct(buf[Source]) /\ buf[Source] # <<>>
  BY ChanTypes DEF BlockInv, TypeOK, BufferHoldsQueued, Take
<1> QED BY <1>1, TailQueue DEF BlockInv, BufferHoldsQueued

\* The loop's steps are the step of no call.
LEMMA LoopStandsBy ==
    ASSUME BlockInv, LoopStep, NEW d \in Calls
    PROVE  Bystander(d)
<1> USE DEF rtVars
<1>1. CASE Take
  <2>1. stage'[d] = stage[d] \/ (stage[d] = "wait" /\ stage'[d] = "granted")
    BY <1>1, ChanTypes, GrantEffect DEF Take, BlockInv, TypeOK
  <2>2. fate'[d] = fate[d] \/ (fate[d] = "queued" /\ fate'[d] = "started")
    BY <1>1, TakeEffect DEF Take, BlockInv, TypeOK
  <2> QED BY <1>1, <2>1, <2>2 DEF Take, Bystander
<1>2. CASE HandlerReturns
  <2>1. cur \in Calls /\ fate[cur] = "started"
    BY <1>2 DEF HandlerReturns, BlockInv, OneHandler, TypeOK
  <2> QED BY <1>2, <2>1 DEF HandlerReturns, Bystander, BlockInv, TypeOK
<1>3. CASE ObserveKill \/ Unwind
  BY <1>3 DEF ObserveKill, Unwind, GoDown, Bystander
<1> QED BY <1>1, <1>2, <1>3 DEF LoopStep

\* A call that begins has left no trace.
LEMMA BeginOK ==
    ASSUME TypeOK, NEW c \in Calls, NEW r \in Requests, Begin(c, r),
           \A d \in Calls : CallOK(d)
    PROVE  \A d \in Calls : CallOK(d)'
<1> USE DEF rtVars, mailVars
<1>1. /\ stage'[c] = "called" /\ stage[c] = "idle" /\ fate'[c] = "unsent"
      /\ letters'[c] = letters[c] /\ flavor' = flavor
  BY DEF Begin, Become, TypeOK, CallOK, BoundsFate
<1>2. OneLetter(c)'
  BY <1>1, QuietLetters DEF CallOK
<1>3. BoundsFate(c)' /\ TellsFate(c)' /\ DriverStage(c)'
  BY <1>1 DEF BoundsFate, TellsFate, DriverStage, Panics
<1>4. ASSUME NEW d \in Calls \ {c} PROVE Bystander(d)
  BY DEF Begin, Become, TypeOK, Bystander
<1> QED BY <1>2, <1>3, <1>4, BystanderOK DEF CallOK

\* Every step keeps the part of the invariant that goes call by call.
LEMMA CallsStep ==
    ASSUME BlockInv, [Next]_vars
    PROVE  \A d \in Calls : CallOK(d)'
<1> USE DEF rtVars, actorVars, mailVars, callVars
<1>1. TypeOK /\ QueuedWait(waitq, stage) /\ \A d \in Calls : CallOK(d)
  BY CallByCall DEF BlockInv
<1>2. ASSUME NEW c \in Calls, NEW r \in Requests, Begin(c, r)
      PROVE  \A d \in Calls : CallOK(d)'
  BY <1>1, <1>2, BeginOK
<1>3. ASSUME NEW c \in Calls, CallStep(c) \/ Cancel(c), NEW d \in Calls
      PROVE  CallOK(d)'
  <2>1. CASE d = c
    BY <1>1, <1>3, <2>1, OwnCall
  <2>2. CASE d # c
    <3>1. Bystander(d)
      BY <1>1, <1>3, <2>2, OthersStandBy
    <3> QED BY <1>1, <3>1, BystanderOK
  <2> QED BY <2>1, <2>2
<1>4. CASE LoopStep
  BY <1>1, <1>4, LoopStandsBy, BystanderOK
<1>5. CASE Kill \/ UNCHANGED vars
  BY <1>1, <1>5, BystanderOK DEF Kill, vars, Bystander
<1> QED BY <1>2, <1>3, <1>4, <1>5 DEF Next

-----------------------------------------------------------------------------
(* The mailboxes, their semaphores and the handler *)

\* Chan depends on nothing but the call's request.
LEMMA SameChan ==
    ASSUME NEW d \in Calls, req'[d] = req[d]
    PROVE  Chan(d)' = Chan(d)
BY DEF Chan, OnPrio

\* An envelope enters a mailbox by its push and leaves it by Take or the drop.
LEMMA BufferStep ==
    ASSUME BlockInv, [Next]_vars
    PROVE  BufferHoldsQueued'
<1> USE DEF rtVars, actorVars, mailVars, callVars
<1>1. /\ fate \in [Calls -> Fates] /\ buf \in [Mailboxes -> Seq(Calls)]
      /\ req \in [Calls -> Requests] /\ BufferHoldsQueued
  BY DEF BlockInv, TypeOK
<1>2. ASSUME UNCHANGED <<buf, fate, req>> PROVE BufferHoldsQueued'
  BY <1>1, <1>2, SameChan DEF BufferHoldsQueued
<1>3. ASSUME NEW c \in Calls, NEW r \in Requests, Begin(c, r)
      PROVE  BufferHoldsQueued'
  <2>1. /\ buf' = buf /\ fate' = fate /\ fate[c] = "unsent"
        /\ \A d \in Calls \ {c} : req'[d] = req[d]
    BY <1>1, <1>3 DEF Begin, BlockInv, StageBoundsFate
  <2> QED BY <1>1, <2>1, SameChan DEF BufferHoldsQueued
<1>4. ASSUME NEW c \in Calls, CallStep(c) \/ Cancel(c), ~Push(c)
      PROVE  BufferHoldsQueued'
  BY <1>2, <1>4, MoveTypes DEF CallMoves, BlockInv
<1>5. ASSUME NEW c \in Calls, Push(c) PROVE BufferHoldsQueued'
  <2>1. fate[c] = "unsent" /\ Chan(c) \in Mailboxes /\ req' = req
    BY <1>5, ChanTypes DEF Push, BlockInv, StageBoundsFate, Busy
  <2>2. /\ Distinct(Append(buf[Chan(c)], c))
        /\ \A d : InQueue(Append(buf[Chan(c)], c), d) <=> InQueue(buf[Chan(c)], d) \/ d = c
    BY <1>1, <2>1, AppendQueue DEF BufferHoldsQueued
  <2>3. CASE fate' = [fate EXCEPT ![c] = "leaked"] /\ UNCHANGED buf
    BY <1>1, <2>1, <2>3, SameChan DEF BufferHoldsQueued
  <2>4. CASE /\ fate' = [fate EXCEPT ![c] = "queued"]
             /\ buf' = [buf EXCEPT ![Chan(c)] = Append(@, c)]
    BY <1>1, <2>1, <2>2, <2>4, SameChan DEF BufferHoldsQueued
  <2> QED BY <1>5, <2>3, <2>4 DEF Push
<1>6. CASE Take
  <2> DEFINE h == Head(buf[Source])
             t == Tail(buf[Source])
  <2>1. /\ h \in Calls /\ Chan(h) = Source /\ fate[h] = "queued" /\ Distinct(t)
        /\ \A d : InQueue(t, d) <=> InQueue(buf[Source], d) /\ d # h
    BY <1>6, TakeEffect
  <2>2. /\ Source \in Mailboxes /\ req' = req
        /\ buf' = [buf EXCEPT ![Source] = t] /\ fate' = [fate EXCEPT ![h] = "started"]
    BY <1>6, ChanTypes DEF Take
  <2> HIDE DEF h, t
  <2> QED BY <1>1, <2>1, <2>2, SameChan DEF BufferHoldsQueued
<1>7. CASE HandlerReturns
  <2>1. cur \in Calls /\ fate[cur] = "started"
    BY <1>7 DEF HandlerReturns, BlockInv, OneHandler, TypeOK
  <2> QED BY <1>1, <1>7, <2>1, SameChan DEF HandlerReturns, BufferHoldsQueued
<1>8. CASE ObserveKill \/ Unwind
  BY <1>1, <1>8, EmptyQueue DEF ObserveKill, Unwind, GoDown, BufferHoldsQueued
<1>9. CASE Kill \/ UNCHANGED vars
  BY <1>2, <1>9 DEF Kill, vars
<1> QED BY <1>3, <1>4, <1>5, <1>6, <1>7, <1>8, <1>9 DEF Next, LoopStep

\* A sender queues when its first poll finds no room, and leaves the queue when
\* it is granted a permit, gives up, or the semaphore closes.
LEMMA WaitersStep ==
    ASSUME BlockInv, [Next]_vars
    PROVE  QueuedWait(waitq, stage)' /\ DownHasNoWaiters'
<1> USE DEF rtVars, actorVars, mailVars, callVars
<1>1. /\ stage \in [Calls -> Stages] /\ waitq \in [Mailboxes -> Seq(Calls)]
      /\ req \in [Calls -> Requests]
      /\ QueuedWait(waitq, stage) /\ DownHasNoWaiters
  BY DEF BlockInv, TypeOK
<1>2. ASSUME UNCHANGED <<waitq, stage, req, loop>>
      PROVE  QueuedWait(waitq, stage)' /\ DownHasNoWaiters'
  BY <1>1, <1>2, SameChan DEF QueuedWait, DownHasNoWaiters
<1>3. ASSUME NEW c \in Calls, UNCHANGED <<waitq, loop>>, NEW s, Become(c, s),
             \A ch \in Mailboxes : ~InQueue(waitq[ch], c),
             \A d \in Calls \ {c} : req'[d] = req[d]
      PROVE  QueuedWait(waitq, stage)' /\ DownHasNoWaiters'
  BY <1>1, <1>3, SameChan DEF Become, QueuedWait, DownHasNoWaiters
<1>4. ASSUME NEW c \in Calls, stage[c] # "wait" \/ loop = "down"
      PROVE  \A ch \in Mailboxes : ~InQueue(waitq[ch], c)
  BY <1>1, <1>4, EmptyQueue DEF QueuedWait, DownHasNoWaiters
<1>5. ASSUME NEW c \in Calls, NEW r \in Requests, Begin(c, r)
      PROVE  QueuedWait(waitq, stage)' /\ DownHasNoWaiters'
  BY <1>1, <1>3, <1>4, <1>5 DEF Begin
<1>6. ASSUME NEW c \in Calls, TrySend(c) \/ AskDisabled(c) \/ WaitHere(c)
                  \/ RefuseToPark(c) \/ SpawnWorker(c) \/ BuildRuntime(c)
      PROVE  QueuedWait(waitq, stage)' /\ DownHasNoWaiters'
  <2>1. stage[c] # "wait" /\ UNCHANGED <<waitq, loop, req>>
    BY <1>6 DEF TrySend, AskDisabled, WaitHere, RefuseToPark, SpawnWorker,
                BuildRuntime, Dispatches
  <2>2. \E s : Become(c, s)
    BY <1>6 DEF TrySend, AskDisabled, WaitHere, RefuseToPark, SpawnWorker,
                BuildRuntime, NotEnabled, Refused, Unavailable
  <2> QED BY <1>3, <1>4, <2>1, <2>2
<1>7. ASSUME NEW c \in Calls, PollSend(c) \/ Push(c) \/ ReceiveReply(c)
      PROVE  QueuedWait(waitq, stage)' /\ DownHasNoWaiters'
  <2>1. (stage[c] # "wait" \/ loop = "down") /\ UNCHANGED <<waitq, loop, req>>
    BY <1>7 DEF PollSend, Push, ReceiveReply, Refused
  <2>2. \E s : Become(c, s)
    BY <1>7 DEF PollSend, Push, ReceiveReply, Refused
  <2> QED BY <1>3, <1>4, <2>1, <2>2
<1>8. ASSUME NEW c \in Calls, PollFirst(c)
      PROVE  QueuedWait(waitq, stage)' /\ DownHasNoWaiters'
  <2>1. stage[c] = "poll" /\ UNCHANGED <<loop, req>>
    BY <1>8 DEF PollFirst
  <2>2. CASE waitq' = waitq
    <3>1. \E s : Become(c, s)
      BY <1>8 DEF PollFirst, Refused
    <3> QED BY <1>3, <1>4, <2>1, <2>2, <3>1
  <2>3. CASE /\ IsFull(c) /\ Become(c, "wait")
             /\ waitq' = [waitq EXCEPT ![Chan(c)] = Append(@, c)]
    <3>1. /\ Chan(c) \in Mailboxes /\ ~InQueue(waitq[Chan(c)], c)
          /\ \A ch \in Mailboxes : ~InQueue(waitq[ch], c)
      BY <1>4, <2>1, ChanTypes
    <3>2. /\ Distinct(Append(waitq[Chan(c)], c))
          /\ \A d : InQueue(Append(waitq[Chan(c)], c), d)
                      <=> InQueue(waitq[Chan(c)], d) \/ d = c
      BY <1>1, <3>1, AppendQueue DEF QueuedWait
    <3>3. \A ch \in Mailboxes, d \in Calls :
            InQueue(waitq'[ch], d) =>
              InQueue(waitq[ch], d) \/ (d = c /\ ch = Chan(c))
      BY <1>1, <2>3, <3>1, <3>2
    <3>4. \A ch \in Mailboxes : Distinct(waitq'[ch])
      BY <1>1, <2>3, <3>1, <3>2 DEF QueuedWait
    <3>5. stage'[c] = "wait" /\ \A d \in Calls \ {c} : stage'[d] = stage[d]
      BY <1>1, <2>3 DEF Become
    <3>6. QueuedWait(waitq, stage)'
      BY <1>1, <2>1, <3>1, <3>3, <3>4, <3>5, SameChan DEF QueuedWait
    <3> QED BY <2>1, <2>3, <3>6 DEF IsFull, DownHasNoWaiters
  <2> QED BY <1>8, <2>2, <2>3 DEF PollFirst
<1>9. ASSUME NEW c \in Calls, TimeOut(c) \/ Cancel(c)
      PROVE  QueuedWait(waitq, stage)' /\ DownHasNoWaiters'
  <2>1. PICK out \in {"errTimeout", "cancelled"} : GiveUp(c, out)
    BY <1>9 DEF TimeOut, Cancel
  <2> QED BY <1>1, <2>1, GiveUpEffect DEF BlockInv
<1>10. CASE Take
  <2>1. /\ stage' = GrantHead(Source, stage) /\ waitq' = PopWaiter(Source)
        /\ req' = req /\ loop' = "handler" /\ Source \in Mailboxes
    BY <1>10, ChanTypes DEF Take
  <2>2. QueuedWait(PopWaiter(Source), GrantHead(Source, stage))
    BY <1>1, <2>1, GrantEffect
  <2> QED BY <2>1, <2>2, SameChan DEF QueuedWait, DownHasNoWaiters
<1>11. CASE HandlerReturns
  BY <1>1, <1>11, SameChan DEF HandlerReturns, QueuedWait, DownHasNoWaiters
<1>12. CASE ObserveKill \/ Unwind
  BY <1>1, <1>12, EmptyQueue
     DEF ObserveKill, Unwind, GoDown, QueuedWait, DownHasNoWaiters
<1>13. CASE Kill \/ UNCHANGED vars
  BY <1>2, <1>13 DEF Kill, vars
<1> QED BY <1>5, <1>6, <1>7, <1>8, <1>9, <1>10, <1>11, <1>12, <1>13
        DEF Next, LoopStep, CallStep

\* One message is handled at a time.
LEMMA OneHandlerStep ==
    ASSUME BlockInv, [Next]_vars
    PROVE  OneHandler'
<1> USE DEF rtVars, actorVars, mailVars, callVars
<1>1. fate \in [Calls -> Fates] /\ cur \in Calls \cup {Null} /\ OneHandler
  BY DEF BlockInv, TypeOK
<1>2. ASSUME UNCHANGED <<loop, cur, fate>> PROVE OneHandler'
  BY <1>1, <1>2 DEF OneHandler
<1>3. ASSUME NEW c \in Calls, NEW r \in Requests, Begin(c, r) PROVE OneHandler'
  BY <1>2, <1>3 DEF Begin
<1>4. ASSUME NEW c \in Calls, CallStep(c) \/ Cancel(c), ~Push(c)
      PROVE  OneHandler'
  BY <1>2, <1>4, MoveTypes DEF CallMoves, BlockInv
<1>5. ASSUME NEW c \in Calls, Push(c) PROVE OneHandler'
  <2>1. fate[c] = "unsent" /\ cur # c /\ UNCHANGED <<loop, cur>>
    BY <1>1, <1>5 DEF Push, BlockInv, StageBoundsFate, Busy, OneHandler
  <2> QED BY <1>1, <1>5, <2>1 DEF Push, OneHandler
<1>6. CASE Take
  <2>1. Head(buf[Source]) \in Calls /\ fate[Head(buf[Source])] = "queued"
    BY <1>6, TakeEffect
  <2>2. cur = Null /\ Null \notin Calls
    BY <1>1, <1>6, ParameterAssumption DEF Take, OneHandler
  <2> QED BY <1>1, <1>6, <2>1, <2>2 DEF Take, OneHandler
<1>7. CASE HandlerReturns
  BY <1>1, <1>7, ParameterAssumption DEF HandlerReturns, OneHandler
<1>8. CASE ObserveKill \/ Unwind
  BY <1>1, <1>8, ParameterAssumption DEF ObserveKill, Unwind, GoDown, OneHandler
<1>9. CASE Kill \/ UNCHANGED vars
  BY <1>2, <1>9 DEF Kill, vars
<1> QED BY <1>3, <1>4, <1>5, <1>6, <1>7, <1>8, <1>9 DEF Next, LoopStep

-----------------------------------------------------------------------------
(* The theorems *)

LEMMA InitInv == Init => BlockInv
<1> SUFFICES ASSUME Init PROVE BlockInv
  OBVIOUS
<1>1. TypeOK
  BY InitTypes
<1>2. BufferHoldsQueued /\ QueuedWait(waitq, stage) /\ DownHasNoWaiters
  BY EmptyQueue DEF Init, BufferHoldsQueued, QueuedWait, DownHasNoWaiters
<1>3. OneHandler
  BY ParameterAssumption DEF Init, OneHandler
<1>4. ASSUME NEW c \in Calls PROVE CallOK(c)
  BY DEF Init, CallOK, BoundsFate, TellsFate, OneLetter, DriverStage,
         HoldsDriver, Fits, InCall, Busy, Waits, Panics
<1> QED BY <1>1, <1>2, <1>3, <1>4, CallByCall DEF BlockInv

LEMMA InvStep == BlockInv /\ [Next]_vars => BlockInv'
<1> SUFFICES ASSUME BlockInv, [Next]_vars PROVE BlockInv'
  OBVIOUS
<1>1. TypeOK'
  BY TypeStep DEF BlockInv
<1>2. (StageBoundsFate /\ OutcomeTellsFate /\ OneLetterPerFailure /\ DriverStages)'
  BY CallsStep
     DEF CallOK, BoundsFate, TellsFate, OneLetter, DriverStage,
         StageBoundsFate, OutcomeTellsFate, OneLetterPerFailure, DriverStages
<1> QED BY <1>1, <1>2, BufferStep, WaitersStep, OneHandlerStep DEF BlockInv

\* The invariant holds for any calls, requests and capacities: a call stands in
\* a semaphore's queue only while it waits, an envelope in its mailbox only while
\* it is queued, and one message is handled at a time.
THEOREM InvCorrect == Spec => []BlockInv
<1> QED BY InitInv, InvStep, PTL DEF Spec

\* However many calls are made, none waits on the only driver of the runtime.
THEOREM NoParkedDriver == Spec => []DriverNeverParks
<1>1. BlockInv => DriverNeverParks
  BY DEF BlockInv, DriverStages, DriverNeverParks, HoldsDriver, Busy
<1> QED BY <1>1, InvCorrect, PTL

\* On every path of the blocking_* family, the outcome tells the message's fate.
THEOREM OutcomeCorrect == Spec => []OutcomeTellsFate
<1>1. BlockInv => OutcomeTellsFate
  BY DEF BlockInv
<1> QED BY <1>1, InvCorrect, PTL

\* And every failed call leaves exactly one dead letter, of the right reason.
THEOREM LettersCorrect == Spec => []OneLetterPerFailure
<1>1. BlockInv => OneLetterPerFailure
  BY DEF BlockInv
<1> QED BY <1>1, InvCorrect, PTL

-----------------------------------------------------------------------------
(* The slots of the mailboxes *)

\* While the actor is up, a mailbox's slots are free, hold an envelope, or are
\* some sender's permit; a sender stands in the queue only while none is free.
SlotsOK(m) ==
    IsFiniteSet(Permits(m)) /\ (loop # "down" => NobodyWaitsForFree(m))
SlotsAccounted == \A m \in Mailboxes : SlotsOK(m)

HoldsSlot(d, m) == Chan(d) = m /\ stage[d] \in {"granted", "permit"}
QueuesFor(d, m) == Chan(d) = m /\ stage[d] = "wait"

\* The slots of m are untouched, and nobody queues for them who did not.
LEMMA SlotsKept ==
    ASSUME NEW m \in Mailboxes, SlotsOK(m),
           \A d \in Calls : HoldsSlot(d, m)' <=> HoldsSlot(d, m),
           loop' # "down" =>
             /\ loop # "down" /\ buf'[m] = buf[m]
             /\ \A d \in Calls : QueuesFor(d, m)' =>
                  QueuesFor(d, m) /\ (InQueue(waitq[m], d) => InQueue(waitq'[m], d))
    PROVE  SlotsOK(m)'
<1>1. Permits(m)' = Permits(m)
  BY DEF Permits, HoldsSlot
<1>2. CASE loop' # "down"
  <2>1. NobodyWaitsForFree(m) /\ buf'[m] = buf[m]
    BY <1>2 DEF SlotsOK
  <2>2. Free(m)' = Free(m)
    BY <1>1, <2>1 DEF Free
  <2>3. NobodyWaitsForFree(m)'
    BY <1>1, <1>2, <2>1, <2>2 DEF NobodyWaitsForFree, QueuesFor
  <2> QED BY <1>1, <2>3 DEF SlotsOK
<1>3. CASE loop' = "down"
  BY <1>1, <1>3 DEF SlotsOK
<1> QED BY <1>2, <1>3

\* Once the actor is down, permits can only be given back.
LEMMA SlotsWhenDown ==
    ASSUME NEW m \in Mailboxes, SlotsOK(m), loop' = "down",
           \A d \in Calls : HoldsSlot(d, m)' => HoldsSlot(d, m)
    PROVE  SlotsOK(m)'
<1>1. Permits(m)' \in SUBSET Permits(m) /\ IsFiniteSet(Permits(m))
  BY DEF Permits, HoldsSlot, SlotsOK
<1>2. IsFiniteSet(Permits(m)')
  BY <1>1, FS_Subset
<1> QED BY <1>2 DEF SlotsOK

\* What the counting needs to know of an open mailbox.
LEMMA SlotTypes ==
    ASSUME TypeOK, NEW m \in Mailboxes, SlotsOK(m)
    PROVE  /\ Cap[m] \in Nat /\ Len(buf[m]) \in Nat /\ Cardinality(Permits(m)) \in Nat
           /\ buf[m] \in Seq(Calls) /\ IsFiniteSet(Permits(m))
BY ParameterAssumption, FS_CardinalityType DEF SlotsOK, TypeOK

\* The calls that hold a slot of ch when the callers are at stages st.
Holders(st, ch) == {d \in Calls : Chan(d) = ch /\ st[d] \in {"granted", "permit"}}

\* A step gives one slot of ch back while the actor is up: st are the callers'
\* stages before the slot is handed on.
GivesSlot(ch, st) ==
    /\ TypeOK /\ SlotsOK(ch) /\ loop # "down"
    /\ QueuedWait(waitq, stage) /\ QueuedWait(waitq, st)
    /\ IsFiniteSet(Holders(st, ch)) /\ st \in [Calls -> Stages]
    /\ \A d \in Calls : st[d] = "wait" => stage[d] = "wait"
    /\ buf'[ch] \in Seq(Calls) /\ req' = req
    /\ Len(buf'[ch]) + Cardinality(Holders(st, ch)) + 1
         = Len(buf[ch]) + Cardinality(Permits(ch))
    /\ stage' = GrantHead(ch, st) /\ waitq' = PopWaiter(ch)

\* It goes to the first who waits for one, if any, so that all are taken again.
LEMMA SlotHandedOn ==
    ASSUME NEW ch \in Mailboxes, NEW st, GivesSlot(ch, st)
    PROVE  SlotsOK(ch)'
<1> DEFINE k == Cap[ch]
           l == Len(buf[ch])
           p == Cardinality(Permits(ch))
           m == Len(buf'[ch])
           n == Cardinality(Holders(st, ch))
<1>1. /\ k \in Nat /\ l \in Nat /\ p \in Nat /\ m \in Nat /\ n \in Nat
      /\ waitq \in [Mailboxes -> Seq(Calls)] /\ waitq[ch] \in Seq(Calls)
  BY SlotTypes, FS_CardinalityType DEF GivesSlot, TypeOK
<1>2. /\ NobodyWaitsForFree(ch) /\ Free(ch) = k - l - p
      /\ m + n + 1 = l + p /\ l + p <= k
  BY DEF GivesSlot, SlotsOK, NobodyWaitsForFree, Free
<1>3. /\ \A d \in Calls : st[d] = "wait" => stage[d] = "wait"
      /\ QueuedWait(waitq, stage) /\ QueuedWait(waitq, st)
      /\ stage' = GrantHead(ch, st) /\ waitq' = PopWaiter(ch)
      /\ IsFiniteSet(Holders(st, ch)) /\ st \in [Calls -> Stages]
      /\ \A d \in Calls : Chan(d)' = Chan(d)
  BY SameChan DEF GivesSlot
<1> HIDE DEF k, l, p
<1>4. k - l - p = 0 <=> l + p = k
  BY <1>1, SlotSums
<1>5. \A d \in Calls : stage[d] = "wait" /\ Chan(d) = ch =>
        InQueue(waitq[ch], d) /\ l + p = k
  BY <1>2, <1>4 DEF NobodyWaitsForFree
<1>6. CASE waitq[ch] = <<>>
  <2>1. stage' = st /\ \A d \in Calls : ~(st[d] = "wait" /\ Chan(d) = ch)
    BY <1>3, <1>5, <1>6, EmptyQueue DEF GrantHead
  <2>2. Permits(ch)' = Holders(st, ch)
    BY <1>3, <2>1 DEF Permits, Holders
  <2> HIDE DEF m, n
  <2>3. m + n <= k
    BY <1>1, <1>2, SlotsLess
  <2>4. Len(buf'[ch]) + Cardinality(Permits(ch)') <= Cap[ch]
    BY <2>2, <2>3 DEF k, m, n
  <2>5. NobodyWaitsForFree(ch)'
    BY <1>3, <2>1, <2>4 DEF NobodyWaitsForFree
  <2> QED BY <1>3, <2>2, <2>5 DEF SlotsOK
<1>7. CASE waitq[ch] # <<>>
  <2> DEFINE h == Head(waitq[ch])
  <2>1. /\ h \in Calls /\ InQueue(waitq[ch], h)
        /\ \A d : InQueue(Tail(waitq[ch]), d) <=> InQueue(waitq[ch], d) /\ d # h
    BY <1>1, <1>3, <1>7, TailQueue DEF QueuedWait
  <2>2. st[h] = "wait" /\ Chan(h) = ch /\ stage[h] = "wait"
    BY <1>3, <2>1 DEF QueuedWait
  <2>3. l + p = k
    BY <1>5, <2>1, <2>2
  <2>4. stage' = [st EXCEPT ![h] = "granted"] /\ waitq'[ch] = Tail(waitq[ch])
    BY <1>1, <1>3, <1>7 DEF GrantHead, PopWaiter
  <2> HIDE DEF h
  <2>5. Permits(ch)' = Holders(st, ch) \cup {h} /\ h \notin Holders(st, ch)
    BY <1>3, <2>1, <2>2, <2>4 DEF Permits, Holders
  <2>6. IsFiniteSet(Permits(ch)') /\ Cardinality(Permits(ch)') = n + 1
    BY <1>3, <2>5, FS_AddElement
  <2>7. \A d \in Calls : stage'[d] = "wait" /\ Chan(d) = ch => InQueue(waitq'[ch], d)
    BY <1>3, <1>5, <2>1, <2>4
  <2> HIDE DEF m, n
  <2>8. m + (n + 1) <= k /\ k - m - (n + 1) = 0
    BY <1>1, <1>2, <2>3, SlotsFull
  <2>9. Len(buf'[ch]) + Cardinality(Permits(ch)') <= Cap[ch] /\ Free(ch)' = 0
    BY <2>6, <2>8 DEF k, m, Free
  <2>10. NobodyWaitsForFree(ch)'
    BY <1>3, <2>7, <2>9 DEF NobodyWaitsForFree
  <2> QED BY <2>6, <2>10 DEF SlotsOK
<1> QED BY <1>6, <1>7

\* A slot of one mailbox that is handed on is none of the other's.
LEMMA HandedOnElsewhere ==
    ASSUME TypeOK, NEW st \in [Calls -> Stages], NEW ch \in Mailboxes, QueuedWait(waitq, st),
           NEW m \in Mailboxes \ {ch}
    PROVE  /\ PopWaiter(ch)[m] = waitq[m]
           /\ \A d \in Calls : Chan(d) = m => GrantHead(ch, st)[d] = st[d]
<1>1. waitq \in [Mailboxes -> Seq(Calls)] /\ waitq[ch] \in Seq(Calls)
  BY DEF TypeOK
<1>2. CASE waitq[ch] = <<>>
  BY <1>2 DEF GrantHead, PopWaiter
<1>3. CASE waitq[ch] # <<>>
  <2>1. Head(waitq[ch]) \in Calls /\ Chan(Head(waitq[ch])) = ch
    BY <1>1, <1>3, TailQueue DEF QueuedWait
  <2> QED BY <1>1, <1>3, <2>1 DEF GrantHead, PopWaiter
<1> QED BY <1>2, <1>3

\* A sender that finds room takes a slot.
LEMMA SlotTaken ==
    ASSUME TypeOK, NEW c \in Calls, HasRoom(c), Become(c, "permit"),
           stage[c] \notin {"granted", "permit", "wait"},
           UNCHANGED <<loop, buf, waitq, req>>, NEW m \in Mailboxes, SlotsOK(m)
    PROVE  SlotsOK(m)'
<1>1. /\ stage'[c] = "permit" /\ \A d \in Calls \ {c} : stage'[d] = stage[d]
      /\ \A d \in Calls : Chan(d)' = Chan(d)
  BY SameChan DEF Become, TypeOK
<1>2. CASE Chan(c) # m
  <2>1. \A d \in Calls : /\ HoldsSlot(d, m)' <=> HoldsSlot(d, m)
                         /\ QueuesFor(d, m)' => QueuesFor(d, m)
    BY <1>1, <1>2 DEF HoldsSlot, QueuesFor
  <2> QED BY <2>1, SlotsKept DEF HasRoom
<1>3. CASE Chan(c) = m
  <2> DEFINE k == Cap[m]
             l == Len(buf[m])
             p == Cardinality(Permits(m))
  <2>1. k \in Nat /\ l \in Nat /\ p \in Nat /\ k - l - p > 0
    BY <1>3, SlotTypes DEF HasRoom, Free
  <2>2. Permits(m)' = Permits(m) \cup {c} /\ c \notin Permits(m)
    BY <1>1, <1>3 DEF Permits
  <2>3. IsFiniteSet(Permits(m)') /\ Cardinality(Permits(m)') = p + 1
    BY <2>2, SlotTypes, FS_AddElement
  <2>4. NobodyWaitsForFree(m) /\ Free(m) = k - l - p
    BY DEF HasRoom, SlotsOK, Free
  <2> HIDE DEF k, l, p
  <2>5. l + (p + 1) <= k /\ k - l - p # 0
    BY <2>1
  <2>6. Len(buf'[m]) + Cardinality(Permits(m)') <= Cap[m]
    BY <2>3, <2>5 DEF k, l
  <2>7. \A d \in Calls : ~(stage'[d] = "wait" /\ Chan(d)' = m)
    BY <1>1, <2>4, <2>5 DEF NobodyWaitsForFree
  <2>8. NobodyWaitsForFree(m)'
    BY <2>6, <2>7 DEF NobodyWaitsForFree
  <2> QED BY <2>3, <2>8 DEF SlotsOK
<1> QED BY <1>2, <1>3

\* A sender that finds none queues for one.
LEMMA SlotAwaited ==
    ASSUME TypeOK, QueuedWait(waitq, stage), NEW c \in Calls, IsFull(c), Become(c, "wait"),
           stage[c] = "poll", waitq' = [waitq EXCEPT ![Chan(c)] = Append(@, c)],
           UNCHANGED <<loop, buf, req>>, NEW m \in Mailboxes, SlotsOK(m)
    PROVE  SlotsOK(m)'
<1>1. /\ stage'[c] = "wait" /\ \A d \in Calls \ {c} : stage'[d] = stage[d]
      /\ \A d \in Calls : Chan(d)' = Chan(d)
      /\ waitq \in [Mailboxes -> Seq(Calls)]
  BY SameChan DEF Become, TypeOK
<1>2. CASE Chan(c) # m
  <2>1. \A d \in Calls : /\ HoldsSlot(d, m)' <=> HoldsSlot(d, m)
                         /\ QueuesFor(d, m)' => QueuesFor(d, m)
    BY <1>1, <1>2 DEF HoldsSlot, QueuesFor
  <2>2. waitq'[m] = waitq[m]
    BY <1>1, <1>2
  <2> QED BY <2>1, <2>2, SlotsKept DEF IsFull
<1>3. CASE Chan(c) = m
  <2> DEFINE k == Cap[m]
             l == Len(buf[m])
             p == Cardinality(Permits(m))
  <2>1. Permits(m)' = Permits(m)
    BY <1>1, <1>3 DEF Permits
  <2>2. NobodyWaitsForFree(m) /\ Free(m) = k - l - p /\ ~(Free(m) > 0)
    BY <1>3 DEF IsFull, SlotsOK, Free
  <2>3. k \in Nat /\ l \in Nat /\ p \in Nat /\ l + p <= k
    BY <2>2, SlotTypes DEF NobodyWaitsForFree
  <2> HIDE DEF k, l, p
  <2>4. Free(m) = 0
    BY <2>2, <2>3
  <2>5. Free(m)' = 0
    BY <2>1, <2>4 DEF Free
  <2>6. waitq[m] \in Seq(Calls) /\ Distinct(waitq[m]) /\ ~InQueue(waitq[m], c)
    BY <1>1 DEF QueuedWait
  <2>7. \A d : InQueue(Append(waitq[m], c), d) <=> InQueue(waitq[m], d) \/ d = c
    BY <2>6, AppendQueue
  <2>8. waitq'[m] = Append(waitq[m], c)
    BY <1>1, <1>3
  <2>9. \A d \in Calls : stage'[d] = "wait" /\ Chan(d)' = m => InQueue(waitq'[m], d)
    BY <1>1, <2>2, <2>7, <2>8 DEF NobodyWaitsForFree
  <2>10. NobodyWaitsForFree(m)'
    BY <2>1, <2>2, <2>5, <2>9 DEF NobodyWaitsForFree
  <2> QED BY <2>1, <2>10 DEF SlotsOK
<1> QED BY <1>2, <1>3

\* The push turns a permit into an envelope.
LEMMA SlotFilled ==
    ASSUME TypeOK, NEW c \in Calls, Push(c), NEW m \in Mailboxes, SlotsOK(m)
    PROVE  SlotsOK(m)'
<1>1. /\ stage[c] = "permit" /\ stage'[c] \notin {"granted", "permit", "wait"}
      /\ \A d \in Calls \ {c} : stage'[d] = stage[d]
      /\ loop' = loop /\ waitq' = waitq /\ \A d \in Calls : Chan(d)' = Chan(d)
      /\ buf \in [Mailboxes -> Seq(Calls)]
  BY SameChan DEF Push, Become, TypeOK, actorVars
<1>2. CASE loop = "down"
  <2>1. \A d \in Calls : HoldsSlot(d, m)' => HoldsSlot(d, m)
    BY <1>1 DEF HoldsSlot
  <2> QED BY <1>1, <1>2, <2>1, SlotsWhenDown
<1>3. CASE loop # "down" /\ Chan(c) # m
  <2>1. \A d \in Calls : /\ HoldsSlot(d, m)' <=> HoldsSlot(d, m)
                         /\ QueuesFor(d, m)' => QueuesFor(d, m)
    BY <1>1, <1>3 DEF HoldsSlot, QueuesFor
  <2>2. buf'[m] = buf[m]
    BY <1>1, <1>3 DEF Push
  <2> QED BY <1>1, <1>3, <2>1, <2>2, SlotsKept
<1>4. CASE loop # "down" /\ Chan(c) = m
  <2> DEFINE k == Cap[m]
             l == Len(buf[m])
             p == Cardinality(Permits(m))
             q == Cardinality(Permits(m)')
  <2>1. Permits(m)' = Permits(m) \ {c} /\ c \in Permits(m)
    BY <1>1, <1>4 DEF Permits
  <2>2. IsFiniteSet(Permits(m)') /\ q = p - 1 /\ q \in Nat
    BY <2>1, SlotTypes, FS_RemoveElement, FS_CardinalityType
  <2>3. buf'[m] = Append(buf[m], c)
    BY <1>1, <1>4 DEF Push
  <2>4. Len(buf'[m]) = l + 1 /\ k \in Nat /\ l \in Nat /\ p \in Nat
    BY <2>3, SlotTypes, AppendProperties
  <2>5. NobodyWaitsForFree(m) /\ Free(m) = k - l - p /\ Free(m)' = k - (l + 1) - q
    BY <1>4, <2>4 DEF SlotsOK, Free
  <2>6. l + p <= k
    BY <2>5 DEF NobodyWaitsForFree
  <2> HIDE DEF k, l, p, q
  <2>7. (l + 1) + q <= k /\ k - (l + 1) - q = k - l - p
    BY <2>2, <2>4, <2>6
  <2>8. Len(buf'[m]) + Cardinality(Permits(m)') <= Cap[m] /\ Free(m)' = Free(m)
    BY <2>4, <2>5, <2>7 DEF k, q
  <2>9. \A d \in Calls : stage'[d] = "wait" => stage[d] = "wait"
    BY <1>1
  <2>10. NobodyWaitsForFree(m)'
    BY <1>1, <2>5, <2>8, <2>9 DEF NobodyWaitsForFree
  <2> QED BY <2>2, <2>10 DEF SlotsOK
<1> QED BY <1>2, <1>3, <1>4

\* A future that gives up leaves the queue, or hands its permit on.
LEMMA SlotGivenUp ==
    ASSUME BlockInv, NEW c \in Calls, NEW out \in {"errTimeout", "cancelled"}, GiveUp(c, out),
           NEW m \in Mailboxes, SlotsOK(m)
    PROVE  SlotsOK(m)'
<1> DEFINE st == [stage EXCEPT ![c] = out]
<1>1. /\ TypeOK /\ QueuedWait(waitq, stage) /\ waitq \in [Mailboxes -> Seq(Calls)]
      /\ Chan(c) \in Mailboxes /\ UNCHANGED <<loop, buf, req>>
      /\ \A d \in Calls : Chan(d)' = Chan(d)
  BY ChanTypes, SameChan DEF BlockInv, TypeOK, GiveUp, actorVars
<1>2. /\ st \in [Calls -> Stages] /\ st[c] \notin {"granted", "permit", "wait"}
      /\ \A d \in Calls \ {c} : st[d] = stage[d]
  BY <1>1 DEF TypeOK, Stages, Returned
<1>3. CASE stage[c] = "granted"
  <2>1. stage' = GrantHead(Chan(c), st) /\ waitq' = PopWaiter(Chan(c))
    BY <1>3 DEF GiveUp
  <2> HIDE DEF st
  <2>2. QueuedWait(waitq, st) /\ \A d \in Calls : st[d] = "wait" => stage[d] = "wait"
    BY <1>1, <1>2, <1>3 DEF QueuedWait
  <2>3. CASE loop = "down"
    <3>1. stage' = st
      BY <1>1, <2>1, <2>3 DEF BlockInv, DownHasNoWaiters, GrantHead
    <3>2. \A d \in Calls : HoldsSlot(d, m)' => HoldsSlot(d, m)
      BY <1>1, <1>2, <3>1 DEF HoldsSlot
    <3> QED BY <1>1, <2>3, <3>2, SlotsWhenDown
  <2>4. CASE loop # "down" /\ Chan(c) # m
    <3>1. waitq'[m] = waitq[m] /\ \A d \in Calls : Chan(d) = m => stage'[d] = st[d]
      BY <1>1, <1>2, <2>1, <2>2, <2>4, HandedOnElsewhere
    <3>2. \A d \in Calls : /\ HoldsSlot(d, m)' <=> HoldsSlot(d, m)
                           /\ QueuesFor(d, m)' => QueuesFor(d, m)
      BY <1>1, <1>2, <2>4, <3>1 DEF HoldsSlot, QueuesFor
    <3> QED BY <1>1, <2>4, <3>1, <3>2, SlotsKept
  <2>5. CASE loop # "down" /\ Chan(c) = m
    <3>1. Holders(st, m) = Permits(m) \ {c} /\ c \in Permits(m)
      BY <1>2, <1>3, <2>5 DEF Holders, Permits
    <3>2. /\ IsFiniteSet(Holders(st, m))
          /\ Cardinality(Holders(st, m)) = Cardinality(Permits(m)) - 1
          /\ Cardinality(Holders(st, m)) \in Nat
      BY <1>1, <3>1, SlotTypes, FS_RemoveElement, FS_CardinalityType
    <3>3. buf'[m] = buf[m] /\ buf'[m] \in Seq(Calls) /\ Len(buf[m]) \in Nat
      BY <1>1, SlotTypes
    <3>4. Len(buf'[m]) + Cardinality(Holders(st, m)) + 1
            = Len(buf[m]) + Cardinality(Permits(m))
      BY <1>1, <3>2, <3>3, SlotTypes
    <3>5. GivesSlot(m, st)
      BY <1>1, <1>2, <2>1, <2>2, <2>5, <3>2, <3>3, <3>4 DEF GivesSlot
    <3> QED BY <3>5, SlotHandedOn
  <2> QED BY <2>3, <2>4, <2>5
<1>4. CASE stage[c] # "granted"
  <2>1. /\ stage' = st /\ waitq' = [waitq EXCEPT ![Chan(c)] = Without(@, c)]
        /\ stage[c] \in {"wait", "awaiting"}
    BY <1>4 DEF GiveUp
  <2> HIDE DEF st
  <2>2. \A d : InQueue(Without(waitq[Chan(c)], c), d) <=> InQueue(waitq[Chan(c)], d) /\ d # c
    BY <1>1, WithoutQueue DEF QueuedWait
  <2>3. \A d \in Calls : HoldsSlot(d, m)' <=> HoldsSlot(d, m)
    BY <1>1, <1>2, <2>1 DEF HoldsSlot
  <2>4. \A d \in Calls \ {c} : InQueue(waitq[m], d) => InQueue(waitq'[m], d)
    BY <1>1, <2>1, <2>2
  <2>5. \A d \in Calls : QueuesFor(d, m)' => QueuesFor(d, m) /\ d # c
    BY <1>1, <1>2, <2>1 DEF QueuesFor
  <2>6. CASE loop = "down"
    BY <1>1, <2>3, <2>6, SlotsWhenDown
  <2>7. CASE loop # "down"
    BY <1>1, <2>3, <2>4, <2>5, <2>7, SlotsKept
  <2> QED BY <2>6, <2>7
<1> QED BY <1>3, <1>4

\* The loop that takes a message hands its slot on.
LEMMA SlotPopped ==
    ASSUME BlockInv, Take, NEW m \in Mailboxes, SlotsOK(m)
    PROVE  SlotsOK(m)'
<1>1. /\ TypeOK /\ QueuedWait(waitq, stage) /\ stage \in [Calls -> Stages]
      /\ Source \in Mailboxes /\ buf \in [Mailboxes -> Seq(Calls)]
      /\ loop # "down" /\ loop' # "down" /\ req' = req /\ buf[Source] # <<>>
      /\ buf' = [buf EXCEPT ![Source] = Tail(@)]
      /\ stage' = GrantHead(Source, stage) /\ waitq' = PopWaiter(Source)
      /\ \A d \in Calls : Chan(d)' = Chan(d)
  BY ChanTypes, SameChan DEF BlockInv, TypeOK, Take
<1>2. CASE m # Source
  <2>1. waitq'[m] = waitq[m] /\ \A d \in Calls : Chan(d) = m => stage'[d] = stage[d]
    BY <1>1, <1>2, HandedOnElsewhere
  <2>2. \A d \in Calls : /\ HoldsSlot(d, m)' <=> HoldsSlot(d, m)
                         /\ QueuesFor(d, m)' => QueuesFor(d, m)
    BY <1>1, <2>1 DEF HoldsSlot, QueuesFor
  <2>3. buf'[m] = buf[m]
    BY <1>1, <1>2
  <2> QED BY <1>1, <2>1, <2>2, <2>3, SlotsKept
<1>3. CASE m = Source
  <2>1. Holders(stage, m) = Permits(m)
    BY DEF Holders, Permits
  <2>2. buf[m] \in Seq(Calls) /\ buf[m] # <<>> /\ buf'[m] = Tail(buf[m])
    BY <1>1, <1>3
  <2>3. buf'[m] \in Seq(Calls) /\ Len(buf'[m]) + 1 = Len(buf[m]) /\ Len(buf'[m]) \in Nat
    BY <2>2
  <2>4. Len(buf'[m]) + Cardinality(Holders(stage, m)) + 1
          = Len(buf[m]) + Cardinality(Permits(m))
    BY <1>1, <2>1, <2>3, SlotTypes
  <2>5. IsFiniteSet(Holders(stage, m))
    BY <1>1, <2>1, SlotTypes
  <2>6. GivesSlot(m, stage)
    BY <1>1, <1>3, <2>3, <2>4, <2>5 DEF GivesSlot
  <2> QED BY <2>6, SlotHandedOn
<1> QED BY <1>2, <1>3

\* Any other move of a call is from and to stages without a slot, or takes up
\* the permit that it was granted.
LEMMA SlotUntouched ==
    ASSUME NEW c \in Calls, UNCHANGED <<loop, buf, waitq>>,
           \A d \in Calls \ {c} : stage'[d] = stage[d] /\ Chan(d)' = Chan(d),
           \/ {stage[c], stage'[c]} \cap {"granted", "permit", "wait"} = {}
           \/ stage[c] = "granted" /\ stage'[c] = "permit" /\ Chan(c)' = Chan(c)
           \/ loop = "down" /\ stage'[c] \notin {"granted", "permit"},
           NEW m \in Mailboxes, SlotsOK(m)
    PROVE  SlotsOK(m)'
<1>1. CASE loop = "down" /\ stage'[c] \notin {"granted", "permit"}
  <2>1. \A d \in Calls : HoldsSlot(d, m)' => HoldsSlot(d, m)
    BY <1>1 DEF HoldsSlot
  <2> QED BY <1>1, <2>1, SlotsWhenDown
<1>2. CASE ~(loop = "down" /\ stage'[c] \notin {"granted", "permit"})
  <2>1. \A d \in Calls : /\ HoldsSlot(d, m)' <=> HoldsSlot(d, m)
                         /\ QueuesFor(d, m)' => QueuesFor(d, m)
    BY <1>2 DEF HoldsSlot, QueuesFor
  <2> QED BY <2>1, SlotsKept
<1> QED BY <1>1, <1>2

\* The steps of a call that only change its stage.
LEMMA StageOnly ==
    ASSUME TypeOK, NEW c \in Calls,
           \/ TrySend(c) /\ ~(HasRoom(c) /\ Become(c, "permit"))
           \/ AskDisabled(c) \/ WaitHere(c) \/ RefuseToPark(c) \/ SpawnWorker(c)
           \/ BuildRuntime(c) \/ PollSend(c) \/ ReceiveReply(c)
           \/ PollFirst(c) /\ (SelfAsk(c) \/ Refused(c)),
           NEW m \in Mailboxes, SlotsOK(m)
    PROVE  SlotsOK(m)'
<1> USE DEF mailVars, actorVars, callVars
<1>1. UNCHANGED <<loop, buf, req, waitq>> /\ stage \in [Calls -> Stages]
  BY DEF TypeOK, TrySend, AskDisabled, WaitHere, RefuseToPark, SpawnWorker,
     BuildRuntime, PollSend, ReceiveReply, PollFirst, HasRoom, IsFull, Refused
<1>2. PICK s : Become(c, s) /\
        \/ {stage[c], s} \cap {"granted", "permit", "wait"} = {}
        \/ stage[c] = "granted" /\ s = "permit"
        \/ loop = "down" /\ s \notin {"granted", "permit"}
  <2>1. CASE TrySend(c) \/ AskDisabled(c)
    BY <2>1 DEF TrySend, AskDisabled, NotEnabled, Refused
  <2>2. CASE WaitHere(c) \/ RefuseToPark(c) \/ SpawnWorker(c) \/ BuildRuntime(c)
    BY <2>2 DEF WaitHere, RefuseToPark, SpawnWorker, BuildRuntime, Unavailable, Dispatches
  <2>3. CASE PollSend(c) \/ ReceiveReply(c)
    BY <2>3 DEF PollSend, Refused, ReceiveReply
  <2>4. CASE PollFirst(c) /\ (SelfAsk(c) \/ Refused(c))
    BY <2>4 DEF PollFirst, Refused, HasRoom, IsFull
  <2> QED BY <2>1, <2>2, <2>3, <2>4
<1>3. stage'[c] = s /\ \A d \in Calls \ {c} : stage'[d] = stage[d]
  BY <1>1, <1>2 DEF Become
<1>4. \A d \in Calls : Chan(d)' = Chan(d)
  BY <1>1, SameChan
<1> QED BY <1>1, <1>2, <1>3, <1>4, SlotUntouched

LEMMA SlotsStep ==
    ASSUME BlockInv, SlotsAccounted, [Next]_vars
    PROVE  SlotsAccounted'
<1> USE DEF rtVars, actorVars, mailVars, callVars
<1>1. TypeOK /\ QueuedWait(waitq, stage) /\ stage \in [Calls -> Stages] /\ req \in [Calls -> Requests]
  BY DEF BlockInv, TypeOK
<1>2. SUFFICES ASSUME NEW m \in Mailboxes PROVE SlotsOK(m)'
  BY DEF SlotsAccounted
<1>3. SlotsOK(m)
  BY DEF SlotsAccounted
<1>4. ASSUME NEW c \in Calls, NEW r \in Requests, Begin(c, r) PROVE SlotsOK(m)'
  <2>1. /\ stage[c] = "idle" /\ stage'[c] = "called" /\ UNCHANGED <<loop, buf, waitq>>
        /\ \A d \in Calls \ {c} : stage'[d] = stage[d] /\ req'[d] = req[d]
    BY <1>1, <1>4 DEF Begin, Become
  <2> QED BY <1>3, <2>1, SameChan, SlotUntouched
<1>5. ASSUME NEW c \in Calls, TrySend(c) PROVE SlotsOK(m)'
  <2>1. CASE HasRoom(c) /\ Become(c, "permit")
    BY <1>1, <1>3, <1>5, <2>1, SlotTaken DEF TrySend
  <2>2. CASE ~(HasRoom(c) /\ Become(c, "permit"))
    BY <1>1, <1>3, <1>5, <2>2, StageOnly
  <2> QED BY <2>1, <2>2
<1>6. ASSUME NEW c \in Calls, PollFirst(c) PROVE SlotsOK(m)'
  <2>1. CASE SelfAsk(c) \/ Refused(c)
    BY <1>1, <1>3, <1>6, <2>1, StageOnly
  <2>2. CASE ~(SelfAsk(c) \/ Refused(c))
    <3>1. stage[c] = "poll" /\ UNCHANGED <<loop, buf, req>>
      BY <1>6 DEF PollFirst
    <3>2. CASE HasRoom(c) /\ Become(c, "permit") /\ waitq' = waitq
      BY <1>1, <1>3, <3>1, <3>2, SlotTaken
    <3>3. CASE /\ IsFull(c) /\ Become(c, "wait")
               /\ waitq' = [waitq EXCEPT ![Chan(c)] = Append(@, c)]
      BY <1>1, <1>3, <3>1, <3>3, SlotAwaited
    <3> QED BY <1>6, <2>2, <3>2, <3>3 DEF PollFirst
  <2> QED BY <2>1, <2>2
<1>7. ASSUME NEW c \in Calls,
             \/ AskDisabled(c) \/ WaitHere(c) \/ RefuseToPark(c) \/ SpawnWorker(c)
             \/ BuildRuntime(c) \/ PollSend(c) \/ ReceiveReply(c)
      PROVE  SlotsOK(m)'
  BY <1>1, <1>3, <1>7, StageOnly
<1>8. ASSUME NEW c \in Calls, Push(c) PROVE SlotsOK(m)'
  BY <1>1, <1>3, <1>8, SlotFilled
<1>9. ASSUME NEW c \in Calls, TimeOut(c) \/ Cancel(c) PROVE SlotsOK(m)'
  BY <1>3, <1>9, SlotGivenUp DEF TimeOut, Cancel
<1>10. CASE Take
  BY <1>3, <1>10, SlotPopped
<1>11. ASSUME UNCHANGED <<stage, req>>,
              loop' = "down" \/ (loop # "down" /\ UNCHANGED <<buf, waitq>>)
       PROVE  SlotsOK(m)'
  <2>1. \A d \in Calls : Chan(d)' = Chan(d)
    BY <1>11, SameChan
  <2>2. \A d \in Calls : /\ HoldsSlot(d, m)' <=> HoldsSlot(d, m)
                         /\ QueuesFor(d, m)' => QueuesFor(d, m)
    BY <1>11, <2>1 DEF HoldsSlot, QueuesFor
  <2> QED BY <1>3, <1>11, <2>2, SlotsKept, SlotsWhenDown
<1>12. CASE HandlerReturns \/ ObserveKill \/ Unwind
  BY <1>11, <1>12 DEF HandlerReturns, ObserveKill, Unwind, GoDown
<1>13. CASE Kill
  BY <1>11, <1>13 DEF Kill
<1>14. CASE UNCHANGED vars
  BY <1>11, <1>14 DEF vars
<1> QED BY <1>4, <1>5, <1>6, <1>7, <1>8, <1>9, <1>10, <1>12, <1>13, <1>14
        DEF Next, LoopStep, CallStep

\* Whoever gives a slot back, on whichever thread, hands it on: no mailbox
\* overflows and no sender sleeps beside a free slot.
THEOREM WakeupCorrect == Spec => []NoLostWakeup
<1>1. Init => SlotsAccounted
  <2> SUFFICES ASSUME Init, NEW m \in Mailboxes PROVE SlotsOK(m)
    BY DEF SlotsAccounted
  <2>1. Permits(m) = {} /\ Len(buf[m]) = 0
    BY DEF Init, Permits
  <2>2. IsFiniteSet(Permits(m)) /\ Cardinality(Permits(m)) = 0
    BY <2>1, FS_EmptySet
  <2>3. Cap[m] \in Nat /\ \A c \in Calls : stage[c] # "wait"
    BY ParameterAssumption DEF Init
  <2> QED BY <2>1, <2>2, <2>3 DEF SlotsOK, NobodyWaitsForFree
<1>2. BlockInv /\ SlotsAccounted /\ [Next]_vars => SlotsAccounted'
  BY SlotsStep
<1>3. SlotsAccounted => NoLostWakeup
  BY DEF SlotsAccounted, SlotsOK, NoLostWakeup
<1> QED BY <1>1, <1>2, <1>3, InvCorrect, PTL DEF Spec

-----------------------------------------------------------------------------
(* BlockingCalls implements MessageContract: which thread makes a call and   *)
(* how that thread waits for it is invisible there, and every step is one of *)
(* the contract or none.  The inductive invariant says which one: a call     *)
(* that fails before its push has an unsent message, what is pushed was      *)
(* unsent, and when a message is taken no handler runs.                      *)

LEMMA Outcomes ==
    /\ \A s \in InCall \cup {"idle"} : OutOf(s) = "pending"
    /\ OutOf("ok") = "ok"
    /\ \A s \in Panics \cup (Returned \ {"ok"}) : OutOf(s) = "failed"
BY DEF OutOf, InCall, Busy, Waits, Panics, Returned

LEMMA Messages ==
    /\ MsgOf("unsent") = "new" /\ MsgOf("queued") = "admitted"
    /\ MsgOf("started") = "running" /\ MsgOf("handled") = "done"
    /\ MsgOf("lost") = "lost" /\ MsgOf("leaked") = "lost"
BY DEF MsgOf

LEMMA Kinds ==
    ASSUME NEW c \in Calls
    PROVE  /\ ContractOp[c] = (IF IsAsk(c) THEN "ask" ELSE "tell")
           /\ ContractChan[c] = Chan(c)
           /\ ContractMsg[c] = MsgOf(fate[c]) /\ ContractOut[c] = OutOf(stage[c])
BY DEF ContractOp, ContractChan, ContractMsg, ContractOut, OpOf, BoxOf, IsAsk, Chan, OnPrio

\* One message moves.
LEMMA MsgMoves ==
    ASSUME fate \in [Calls -> Fates], NEW c \in Calls, NEW f, fate' = [fate EXCEPT ![c] = f]
    PROVE  ContractMsg' = [ContractMsg EXCEPT ![c] = MsgOf(f)]
BY DEF ContractMsg

\* A permit handed to a waiting sender tells its caller nothing.
LEMMA OutKept ==
    ASSUME NEW d \in Calls,
           stage'[d] = stage[d] \/ (stage[d] = "wait" /\ stage'[d] = "granted")
    PROVE  ContractOut'[d] = ContractOut[d]
BY Outcomes DEF ContractOut, InCall, Waits

\* One caller is told something.
LEMMA OutMoves ==
    ASSUME NEW c \in Calls, \A d \in Calls \ {c} : Bystander(d)
    PROVE  ContractOut' = [ContractOut EXCEPT ![c] = OutOf(stage'[c])]
<1>1. \A d \in Calls \ {c} : ContractOut'[d] = ContractOut[d]
  BY OutKept DEF Bystander
<1> QED BY <1>1 DEF ContractOut

\* Nobody is told anything.
LEMMA OutStays ==
    ASSUME \A d \in Calls : Bystander(d)
    PROVE  ContractOut' = ContractOut
<1>1. \A d \in Calls : ContractOut'[d] = ContractOut[d]
  BY OutKept DEF Bystander
<1> QED BY <1>1 DEF ContractOut

\* A fresh actor is a fresh contract.
LEMMA InitMaps == Init => Contract!Init
<1> SUFFICES ASSUME Init PROVE Contract!Init
  OBVIOUS
<1>1. ContractMsg = [c \in Calls |-> "new"] /\ ContractOut = [c \in Calls |-> "pending"]
  BY Messages, Outcomes DEF Init, ContractMsg, ContractOut
<1>2. ContractUp = TRUE /\ buf = [m \in Mailboxes |-> <<>>]
  BY DEF Init, ContractUp
<1>3. ContractOp \in [Calls -> Contract!Ops] /\ ContractChan \in [Calls -> Mailboxes]
  BY DEF ContractOp, ContractChan, OpOf, BoxOf, Contract!Ops, Mailboxes
<1> QED BY <1>1, <1>2, <1>3 DEF Contract!Init

\* Beginning a call makes it: what it is, and which mailbox it is for.
LEMMA BeginMaps ==
    ASSUME BlockInv, NEW c \in Calls, NEW r \in Requests, Begin(c, r)
    PROVE  Contract!Make(c)
<1>1. /\ stage \in [Calls -> Stages] /\ req \in [Calls -> Requests]
      /\ stage[c] = "idle" /\ fate[c] = "unsent" /\ stage' = [stage EXCEPT ![c] = "called"]
  BY DEF BlockInv, TypeOK, StageBoundsFate, Begin, Become
<1>2. ContractMsg[c] = "new" /\ ContractOut[c] = "pending"
  BY <1>1, Kinds, Messages, Outcomes
<1>3. OpOf(r) \in Contract!Ops /\ ContractOp' = [ContractOp EXCEPT ![c] = OpOf(r)]
  BY <1>1 DEF Begin, ContractOp, OpOf, Contract!Ops
<1>4. BoxOf(r) \in Mailboxes /\ ContractChan' = [ContractChan EXCEPT ![c] = BoxOf(r)]
  BY <1>1 DEF Begin, ContractChan, BoxOf, Mailboxes
<1>5. UNCHANGED <<ContractMsg, buf, ContractUp>>
  BY DEF Begin, mailVars, ContractMsg, ContractUp
<1>6. ContractOut' = ContractOut
  <2>1. "called" \in InCall
    BY DEF InCall, Busy
  <2>2. \A d \in Calls : OutOf(stage'[d]) = OutOf(stage[d])
    BY <1>1, <2>1, Outcomes
  <2> QED BY <2>2 DEF ContractOut
<1> QED BY <1>2, <1>3, <1>4, <1>5, <1>6 DEF Contract!Make

\* The push is the admission, into the mailbox or into one that is gone.
LEMMA PushMaps ==
    ASSUME BlockInv, NEW c \in Calls, Push(c)
    PROVE  Contract!Admit(c)
<1>1. /\ stage \in [Calls -> Stages] /\ fate \in [Calls -> Fates]
      /\ stage[c] = "permit" /\ fate[c] = "unsent"
  BY DEF BlockInv, TypeOK, StageBoundsFate, Push, Busy
<1>2. ContractMsg[c] = "new" /\ ContractOut[c] = "pending"
  BY <1>1, Kinds, Messages, Outcomes DEF InCall, Busy
<1>3. UNCHANGED <<ContractOp, ContractChan, ContractUp>>
  BY DEF Push, actorVars, ContractOp, ContractChan, ContractUp
<1>4. ContractOut' = [ContractOut EXCEPT ![c] = IF ContractOp[c] = "ask" THEN "pending" ELSE "ok"]
  <2>1. stage'[c] = IF IsAsk(c) THEN "awaiting" ELSE "ok"
    BY <1>1 DEF Push, Become
  <2>2. \A d \in Calls \ {c} : Bystander(d)
    BY OthersStandBy DEF CallStep, BlockInv
  <2>3. OutOf(stage'[c]) = IF ContractOp[c] = "ask" THEN "pending" ELSE "ok"
    BY <2>1, Kinds, Outcomes DEF InCall, Waits
  <2> QED BY <2>2, <2>3, OutMoves
<1>5. CASE loop = "down"
  <2>1. fate' = [fate EXCEPT ![c] = "leaked"]
    BY <1>5 DEF Push
  <2>2. ContractMsg' = [ContractMsg EXCEPT ![c] = "lost"]
    <3>1. ContractMsg' = [ContractMsg EXCEPT ![c] = MsgOf("leaked")]
      BY <1>1, <2>1, MsgMoves
    <3> QED BY <3>1, Messages
  <2>3. buf' = buf /\ ~ContractUp
    BY <1>5 DEF Push, ContractUp
  <2> QED BY <1>2, <1>3, <1>4, <2>2, <2>3 DEF Contract!Admit
<1>6. CASE loop # "down"
  <2>1. fate' = [fate EXCEPT ![c] = "queued"]
    BY <1>6 DEF Push
  <2>2. ContractMsg' = [ContractMsg EXCEPT ![c] = "admitted"]
    <3>1. ContractMsg' = [ContractMsg EXCEPT ![c] = MsgOf("queued")]
      BY <1>1, <2>1, MsgMoves
    <3> QED BY <3>1, Messages
  <2>3. buf' = [buf EXCEPT ![ContractChan[c]] = Append(@, c)]
    BY <1>6, Kinds DEF Push
  <2> QED BY <1>2, <1>3, <1>4, <2>2, <2>3 DEF Contract!Admit
<1> QED BY <1>5, <1>6

\* How a caller's own step, but for the beginning and the push, moves its call:
\* it stays under way, ends before the push, or ends with the reply.
LEMMA CallerMoves ==
    ASSUME BlockInv, NEW c \in Calls, CallStep(c) \/ Cancel(c), ~Push(c)
    PROVE  \/ stage[c] \in InCall /\ stage'[c] \in InCall
           \/ /\ stage[c] \in InCall \ {"awaiting"}
              /\ stage'[c] \in Panics \cup (Returned \ {"ok"})
           \/ /\ stage[c] = "awaiting"
              /\ \/ stage'[c] \in Returned \ {"ok"}
                 \/ stage'[c] = "ok" /\ fate[c] = "handled"
<1>1. stage \in [Calls -> Stages]
  BY DEF BlockInv, TypeOK
<1>2. \A s : Become(c, s) => stage'[c] = s
  BY <1>1 DEF Become
<1>3. /\ {"called", "full", "poll", "permit", "worker", "wait", "granted"} \subseteq InCall \ {"awaiting"}
      /\ {"errSend", "errReceive", "errTimeout", "errRuntime", "errNotEnabled", "cancelled"}
           \subseteq Returned \ {"ok"}
      /\ {"panicGuard", "panicDeadlock"} \subseteq Panics
  BY DEF InCall, Busy, Waits, Returned, Panics
<1>4. CASE TrySend(c) \/ AskDisabled(c)
  BY <1>2, <1>3, <1>4 DEF TrySend, AskDisabled, NotEnabled, Refused
<1>5. CASE WaitHere(c) \/ RefuseToPark(c) \/ SpawnWorker(c) \/ BuildRuntime(c)
  BY <1>2, <1>3, <1>5
     DEF WaitHere, RefuseToPark, SpawnWorker, BuildRuntime, Unavailable, Dispatches
<1>6. CASE PollFirst(c) \/ PollSend(c)
  BY <1>2, <1>3, <1>6 DEF PollFirst, PollSend, Refused
<1>7. CASE ReceiveReply(c)
  BY <1>2, <1>3, <1>7 DEF ReceiveReply
<1>8. CASE TimeOut(c) \/ Cancel(c)
  <2>1. PICK out \in {"errTimeout", "cancelled"} : GiveUp(c, out)
    BY <1>8 DEF TimeOut, Cancel
  <2>2. stage[c] \in {"wait", "granted", "awaiting"} /\ stage'[c] = out
    BY <2>1, GiveUpEffect DEF BlockInv
  <2> QED BY <1>3, <2>1, <2>2
<1> QED BY <1>4, <1>5, <1>6, <1>7, <1>8 DEF CallStep

\* What the contract sees of it: a withdrawal, an answer, or nothing.
LEMMA CallerMaps ==
    ASSUME BlockInv, NEW c \in Calls, CallStep(c) \/ Cancel(c), ~Push(c)
    PROVE  Contract!Withdraw(c) \/ Contract!Answer(c) \/ UNCHANGED Contract!vars
<1>1. UNCHANGED <<rtVars, actorVars, buf, req, fate>>
  BY MoveTypes DEF BlockInv, CallMoves
<1>2. UNCHANGED <<ContractOp, ContractChan, ContractMsg, buf, ContractUp>>
  BY <1>1 DEF ContractOp, ContractChan, ContractMsg, ContractUp, actorVars
<1>3. ContractOut' = [ContractOut EXCEPT ![c] = OutOf(stage'[c])]
  <2>1. \A d \in Calls \ {c} : Bystander(d)
    BY OthersStandBy DEF BlockInv
  <2> QED BY <2>1, OutMoves
<1>4. CASE stage[c] \in InCall /\ stage'[c] \in InCall
  <2>1. OutOf(stage'[c]) = ContractOut[c]
    BY <1>4, Kinds, Outcomes
  <2>2. ContractOut' = ContractOut
    BY <1>3, <2>1 DEF ContractOut
  <2> QED BY <1>2, <2>2 DEF Contract!vars
<1>5. CASE /\ stage[c] \in InCall \ {"awaiting"}
           /\ stage'[c] \in Panics \cup (Returned \ {"ok"})
  <2>1. fate[c] = "unsent"
    BY <1>5 DEF BlockInv, StageBoundsFate, InCall, Waits
  <2>2. ContractMsg[c] = "new" /\ ContractOut[c] = "pending"
    BY <1>5, <2>1, Kinds, Messages, Outcomes
  <2>3. OutOf(stage'[c]) = "failed"
    BY <1>5, Outcomes
  <2> QED BY <1>2, <1>3, <2>2, <2>3 DEF Contract!Withdraw
<1>6. CASE stage[c] = "awaiting"
  <2>1. IsAsk(c) /\ fate[c] \in Fates \ {"unsent"}
    BY <1>6 DEF BlockInv, TypeOK, StageBoundsFate
  <2>2. ContractOp[c] = "ask" /\ ContractOut[c] = "pending" /\ ContractMsg[c] # "new"
    BY <1>6, <2>1, Kinds, Outcomes DEF InCall, Waits, MsgOf
  <2>3. CASE stage'[c] \in Returned \ {"ok"}
    BY <1>2, <1>3, <2>2, <2>3, Outcomes DEF Contract!Answer
  <2>4. CASE stage'[c] = "ok" /\ fate[c] = "handled"
    <3>1. ContractMsg[c] = "done"
      BY <2>4, Kinds, Messages
    <3> QED BY <1>2, <1>3, <2>2, <2>4, <3>1, Outcomes DEF Contract!Answer
  <2> QED BY <1>4, <1>6, <2>3, <2>4, CallerMoves
<1> QED BY <1>4, <1>5, <1>6, CallerMoves

-----------------------------------------------------------------------------
(* The loop *)

\* What a caller knows changes in its own steps only.
LEMMA LoopKeeps ==
    ASSUME BlockInv, LoopStep
    PROVE  UNCHANGED <<ContractOp, ContractChan, ContractOut>>
<1>1. \A d \in Calls : Bystander(d)
  BY LoopStandsBy
<1>2. \A d \in Calls : req'[d] = req[d]
  BY <1>1 DEF Bystander
<1>3. ContractOut' = ContractOut
  BY <1>1, OutStays
<1> QED BY <1>2, <1>3 DEF ContractOp, ContractChan

\* The loop takes a message only when none is being handled.
LEMMA TakeMaps ==
    ASSUME BlockInv, Take
    PROVE  Contract!Run(Source)
<1> DEFINE h == Head(buf[Source])
<1>1. /\ h \in Calls /\ fate[h] = "queued" /\ Source \in Mailboxes /\ buf[Source] # <<>>
      /\ fate \in [Calls -> Fates]
  BY ChanTypes, TakeEffect DEF Take, BlockInv, TypeOK
<1>2. /\ fate' = [fate EXCEPT ![h] = "started"]
      /\ buf' = [buf EXCEPT ![Source] = Tail(@)]
      /\ ContractUp /\ ContractUp' = ContractUp
  BY DEF Take, ContractUp
<1>3. UNCHANGED <<ContractOp, ContractChan, ContractOut>>
  BY LoopKeeps DEF LoopStep
<1>4. \A c \in Calls : ContractMsg[c] # "running"
  <2>1. \A c \in Calls : fate[c] # "started"
    BY ParameterAssumption DEF BlockInv, OneHandler, Take
  <2> QED BY <2>1, Kinds DEF MsgOf
<1> HIDE DEF h
<1>5. ContractMsg' = [ContractMsg EXCEPT ![h] = "running"]
  <2>1. fate' = [fate EXCEPT ![h] = "started"]
    BY <1>2
  <2>2. ContractMsg' = [ContractMsg EXCEPT ![h] = MsgOf("started")]
    BY <1>1, <2>1, MsgMoves
  <2> QED BY <2>2, Messages
<1>6. ContractOp[h] # "stop"
  BY <1>1, Kinds
<1> QED BY <1>1, <1>2, <1>3, <1>4, <1>5, <1>6 DEF Contract!Run, h

LEMMA ReturnMaps ==
    ASSUME BlockInv, HandlerReturns
    PROVE  cur \in Calls /\ Contract!Finish(cur)
<1>1. cur \in Calls /\ fate[cur] = "started" /\ fate \in [Calls -> Fates]
  BY DEF HandlerReturns, BlockInv, OneHandler, TypeOK
<1>2. ContractMsg[cur] = "running"
  BY <1>1, Kinds, Messages
<1>3. ContractMsg' = [ContractMsg EXCEPT ![cur] = "done"]
  <2>1. fate' = [fate EXCEPT ![cur] = "handled"]
    BY DEF HandlerReturns
  <2>2. ContractMsg' = [ContractMsg EXCEPT ![cur] = MsgOf("handled")]
    BY <1>1, <2>1, MsgMoves
  <2> QED BY <2>2, Messages
<1>4. UNCHANGED <<ContractOp, ContractChan, ContractOut>>
  BY LoopKeeps DEF LoopStep
<1>5. UNCHANGED <<buf, ContractUp>>
  BY DEF HandlerReturns, mailVars, ContractUp
<1> QED BY <1>1, <1>2, <1>3, <1>4, <1>5 DEF Contract!Finish

\* The task ends with its receivers: every mailbox is emptied at once.
LEMMA DownMaps ==
    ASSUME BlockInv, ObserveKill \/ Unwind
    PROVE  Contract!GoDown
<1>1. GoDown /\ loop # "down"
  BY DEF ObserveKill, Unwind
<1>2. ContractUp = TRUE /\ ContractUp' = FALSE
  BY <1>1 DEF GoDown, ContractUp
<1>3. UNCHANGED <<ContractOp, ContractChan, ContractOut>>
  BY LoopKeeps DEF LoopStep
<1>4. buf' = [m \in Mailboxes |-> IF m \in Mailboxes THEN <<>> ELSE buf[m]]
  BY <1>1 DEF GoDown
<1>5. ContractMsg' = [c \in Calls |->
                        IF \/ ContractMsg[c] = "running"
                           \/ ContractMsg[c] = "admitted" /\ ContractChan[c] \in Mailboxes
                        THEN "lost" ELSE ContractMsg[c]]
  <2>1. ASSUME NEW c \in Calls
        PROVE  MsgOf(fate'[c]) = IF \/ ContractMsg[c] = "running"
                                    \/ ContractMsg[c] = "admitted" /\ ContractChan[c] \in Mailboxes
                                 THEN "lost" ELSE ContractMsg[c]
    <3>1. fate'[c] = IF fate[c] \in {"queued", "started"} THEN "lost" ELSE fate[c]
      BY <1>1 DEF GoDown
    <3>2. ContractMsg[c] = MsgOf(fate[c]) /\ ContractChan[c] \in Mailboxes
      BY Kinds, ChanTypes
    <3> QED BY <3>1, <3>2 DEF MsgOf
  <2> QED BY <2>1 DEF ContractMsg
<1> QED BY <1>2, <1>3, <1>4, <1>5 DEF Contract!GoDown

\* One step of the system.
LEMMA StepMaps ==
    ASSUME BlockInv, [Next]_vars
    PROVE  [Contract!Next]_(Contract!vars)
<1>1. ASSUME NEW c \in Calls, NEW r \in Requests, Begin(c, r) PROVE Contract!Next
  BY <1>1, BeginMaps DEF Contract!Next
<1>2. ASSUME NEW c \in Calls, CallStep(c) \/ Cancel(c) PROVE [Contract!Next]_(Contract!vars)
  <2>1. CASE Push(c)
    BY <2>1, PushMaps DEF Contract!Next
  <2>2. CASE ~Push(c)
    BY <1>2, <2>2, CallerMaps DEF Contract!Next
  <2> QED BY <2>1, <2>2
<1>3. CASE LoopStep
  <2>1. Source \in Mailboxes
    BY ChanTypes
  <2>2. CASE Take
    BY <2>1, <2>2, TakeMaps DEF Contract!Next
  <2>3. CASE HandlerReturns
    BY <2>3, ReturnMaps DEF Contract!Next
  <2>4. CASE ObserveKill \/ Unwind
    BY <2>4, DownMaps DEF Contract!Next
  <2> QED BY <1>3, <2>2, <2>3, <2>4 DEF LoopStep
<1>4. CASE Kill \/ UNCHANGED vars
  <2>1. UNCHANGED <<req, stage, fate, buf, loop>>
    BY <1>4 DEF Kill, vars, rtVars, actorVars, mailVars, callVars
  <2> QED BY <2>1 DEF Contract!vars, ContractOp, ContractChan, ContractMsg, ContractOut, ContractUp
<1> QED BY <1>1, <1>2, <1>3, <1>4 DEF Next

\* Whatever threads call, and however each of them waits, the blocking methods
\* and the actor keep the contract of an actor's messages.
THEOREM ContractCorrect == Spec => ImplementsContract
<1>1. Init => Contract!Init
  BY InitMaps
<1>2. BlockInv /\ [Next]_vars => [Contract!Next]_(Contract!vars)
  BY StepMaps
<1> QED BY <1>1, <1>2, InvCorrect, PTL DEF Spec, ImplementsContract, Contract!Spec

(* What the contract's own theorems say of the blocking calls.               *)

Kept == INSTANCE MessageContract_proofs
    WITH op <- ContractOp, chan <- ContractChan, msg <- ContractMsg,
         out <- ContractOut, box <- buf, up <- ContractUp

LEMMA SameContract ==
    /\ Contract!Init <=> Kept!Init
    /\ [Contract!Next]_(Contract!vars) <=> [Kept!Next]_(Kept!vars)
<1>1. Contract!Init <=> Kept!Init
  BY DEF Contract!Init, Contract!Ops, Kept!Init, Kept!Ops
<1>2. Contract!Next <=> Kept!Next
  BY DEF Contract!Next, Contract!Make, Contract!Ops, Kept!Make, Kept!Ops, Contract!Admit,
     Contract!Withdraw, Contract!Run, Contract!Finish, Contract!GoDown, Contract!Discard,
     Contract!Answer, Kept!Next, Kept!Admit, Kept!Withdraw, Kept!Run, Kept!Finish,
     Kept!GoDown, Kept!Discard, Kept!Answer
<1> QED BY <1>1, <1>2 DEF Contract!vars, Kept!vars

LEMMA KeepsContract == Spec => Kept!Spec
<1>1. Contract!Init => Kept!Init
  BY SameContract
<1>2. [Contract!Next]_(Contract!vars) => [Kept!Next]_(Kept!vars)
  BY SameContract
<1> QED BY <1>1, <1>2, ContractCorrect, PTL DEF ImplementsContract, Contract!Spec, Kept!Spec

\* A blocking tell that returns Ok was admitted, a blocking ask that returns Ok
\* was handled, one handler runs at a time, and no message is lost while the
\* actor is up: whichever thread waits, and wherever.
THEOREM PromisesHold == Spec => []Contract!Promises
<1>1. Kept!Spec => []Kept!Promises
  BY Kept!PromisesKept
<1>2. Kept!Promises => Contract!Promises
  BY DEF Kept!Promises, Kept!OneAtATime, Kept!LostOnlyWhenDown, Kept!AnswersFit,
     Kept!AdmittedWaitOnce, Kept!Distinct, Kept!InQueue,
     Contract!Promises, Contract!OneAtATime, Contract!LostOnlyWhenDown,
     Contract!AnswersFit, Contract!AdmittedWaitOnce, Contract!Distinct, Contract!InQueue
<1> QED BY <1>1, <1>2, KeepsContract, PTL

\* Messages of one mailbox are handled in the order of their pushes, whichever
\* threads pushed them.
THEOREM PushOrderHolds == Spec => Contract!NoOvertaking
<1>1. Kept!Spec => Kept!NoOvertaking
  BY Kept!NobodyOvertakes
<1>2. Kept!NoOvertaking => Contract!NoOvertaking
  BY PTL DEF Kept!NoOvertaking, Contract!NoOvertaking, Kept!Ahead, Contract!Ahead,
     Kept!vars, Contract!vars
<1> QED BY <1>1, <1>2, KeepsContract, PTL
=============================================================================
