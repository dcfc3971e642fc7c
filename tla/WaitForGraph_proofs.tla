------------------------- MODULE WaitForGraph_proofs -------------------------
(***************************************************************************)
(* Theorems about WaitForGraph, for any actors, any finite set of asks     *)
(* between them and any capacities: the wait-for graph holds the edges of  *)
(* the asks under way and no others, no set of actors ever waits on        *)
(* itself, and without priority asks the detector panics on nothing else.  *)
(***************************************************************************)
EXTENDS WaitForGraphDetector, FiniteSetTheorems, TLAPS

\* What a step of the detector, of an ask or of a task may be.
Step(c) ==
    \/ Register(c) \/ Refuse(c)
    \/ \E o \in Owners : Peek(c, o) \/ Claim(c, o) \/ Erase(c, o)
    \/ Send(c) \/ SendFails(c) \/ GiveUp(c) \/ AfterFailure(c) \/ Resume(c)
    \/ TakeEnvelope(c) \/ Answer(c) \/ Discard(c)

Quiet(a) == HookStart(a) \/ HookEnd(a) \/ BeginStop(a) \/ Unwind(a) \/ Down(a)

LEMMA NextCases ==
    ASSUME Next
    PROVE (\E c \in Asks : Step(c)) \/ (\E a \in Actors : Quiet(a))
  BY DEF Next, EdgeStep, AskStep, ActorStep, RemoveOnce, Step, Quiet

\* A hook, a stop or a crash touches no edge and no ask.
LEMMA QuietEffect ==
    ASSUME TypeOK, NEW a \in Actors, Quiet(a)
    PROVE  /\ UNCHANGED <<edgeVars, askVars>>
           /\ up' \in [Actors -> {"running", "unwinding", "down"}]
           /\ stopping' \in [Actors -> BOOLEAN]
           /\ busy' \in [Actors -> Asks \cup {"idle", "hook"}]
           /\ \A x \in Actors : busy'[x] \in Asks => busy'[x] = busy[x]
<1> USE DEF TypeOK
<1>1. ASSUME NEW v \in {"idle", "hook"}, busy' = [busy EXCEPT ![a] = v]
      PROVE  /\ busy' \in [Actors -> Asks \cup {"idle", "hook"}]
             /\ \A x \in Actors : busy'[x] \in Asks => busy'[x] = busy[x]
  <2>1. v \notin Asks
    BY NameAssumption
  <2> QED BY <1>1, <2>1
<1>2. CASE HookStart(a)
  BY <1>1, <1>2 DEF HookStart
<1>3. CASE HookEnd(a)
  BY <1>1, <1>3 DEF HookEnd
<1>4. CASE BeginStop(a)
  BY <1>4 DEF BeginStop
<1>5. CASE Unwind(a)
  BY <1>5 DEF Unwind
<1>6. CASE Down(a)
  BY <1>6 DEF Down
<1> QED BY <1>2, <1>3, <1>4, <1>5, <1>6 DEF Quiet

LEMMA TypeInit == Init => TypeOK
  BY AskAssumption, NameAssumption DEF Init, TypeOK, Futures, Places, DropStates, InDrop, Owners

LEMMA TypeStep == ASSUME TypeOK, [Next]_vars PROVE TypeOK'
<1> USE AskAssumption DEF TypeOK, Futures, Places, DropStates, InDrop
<1>1. ASSUME NEW c \in Asks, Register(c) PROVE TypeOK'
  BY <1>1 DEF Register, actorVars
<1>2. ASSUME NEW c \in Asks, Refuse(c) PROVE TypeOK'
  BY <1>2 DEF Refuse, edgeVars
<1>3. ASSUME NEW c \in Asks, NEW o \in Owners, Peek(c, o) PROVE TypeOK'
  <2>1. PICK next \in {"lock", "done"} : own' = [own EXCEPT ![c][o] = next]
    BY <1>3 DEF Peek
  <2>2. own' \in [Asks -> [Owners -> DropStates]]
    BY <2>1
  <2> QED BY <1>3, <2>2 DEF Peek, actorVars, askVars
<1>4. ASSUME NEW c \in Asks, NEW o \in Owners, Claim(c, o) PROVE TypeOK'
  <2>1. \E next \in {"erase", "done"} : own' = [own EXCEPT ![c][o] = next]
    BY <1>4 DEF Claim
  <2>2. own' \in [Asks -> [Owners -> DropStates]]
    BY <2>1
  <2>3. /\ lock' = lock \/ lock' = <<c, o>>
        /\ removed' = removed \/ removed' = [removed EXCEPT ![c] = TRUE]
    BY <1>4 DEF Claim
  <2>4. lock' \in (Asks \X Owners) \cup {Null}
    BY <2>3
  <2>5. removed' \in [Asks -> BOOLEAN]
    BY <2>3
  <2>6. UNCHANGED <<graph, askVars, actorVars>>
    BY <1>4 DEF Claim
  <2> QED BY <2>2, <2>4, <2>5, <2>6 DEF actorVars, askVars
<1>5. ASSUME NEW c \in Asks, NEW o \in Owners, Erase(c, o) PROVE TypeOK'
  <2>1. \E n \in Nat : graph' = [graph EXCEPT ![Caller[c]][Callee[c]] = n]
    <3>1. graph[Caller[c]][Callee[c]] \in Nat
      OBVIOUS
    <3>2. CASE graph[Caller[c]][Callee[c]] = 0
      BY <1>5, <3>2 DEF Erase
    <3>3. CASE graph[Caller[c]][Callee[c]] # 0
      <4>1. graph[Caller[c]][Callee[c]] - 1 \in Nat
        BY <3>1, <3>3
      <4>2. graph' = [graph EXCEPT ![Caller[c]][Callee[c]] = graph[Caller[c]][Callee[c]] - 1]
        BY <1>5, <3>3 DEF Erase
      <4> QED BY <4>1, <4>2
    <3> QED BY <3>2, <3>3
  <2>2. graph' \in [Actors -> [Actors -> Nat]]
    BY <2>1
  <2> QED BY <1>5, <2>2 DEF Erase, actorVars, askVars
<1>6. ASSUME NEW c \in Asks, Send(c) PROVE TypeOK'
  BY <1>6 DEF Send, edgeVars, actorVars
<1>7. ASSUME NEW c \in Asks, Abandon(c) PROVE TypeOK'
  BY <1>7 DEF Abandon, actorVars, Owners
<1>8. ASSUME NEW c \in Asks, Leave(c) PROVE TypeOK'
  BY <1>8 DEF Leave, actorVars, Owners
<1>9. ASSUME NEW c \in Asks, TakeEnvelope(c) PROVE TypeOK'
  BY <1>9 DEF TakeEnvelope, edgeVars
<1>10. ASSUME NEW c \in Asks, Release(c), busy' \in [Actors -> Asks \cup {"idle", "hook"}],
              UNCHANGED <<up, stopping>>
       PROVE TypeOK'
  BY <1>10 DEF Release, Owners
<1>11. ASSUME NEW c \in Asks, Answer(c) PROVE TypeOK'
  BY <1>10, <1>11 DEF Answer
<1>12. ASSUME NEW c \in Asks, Discard(c) PROVE TypeOK'
  BY <1>10, <1>12 DEF Discard, actorVars
<1>13. ASSUME NEW a \in Actors, Quiet(a) PROVE TypeOK'
  BY <1>13, QuietEffect DEF edgeVars, askVars
<1>14. ASSUME NEW c \in Asks, Step(c) PROVE TypeOK'
  BY <1>14, <1>1, <1>2, <1>3, <1>4, <1>5, <1>6, <1>7, <1>8, <1>9, <1>11, <1>12
     DEF Step, SendFails, GiveUp, AfterFailure, Resume
<1>15. CASE UNCHANGED vars
  BY <1>15 DEF vars, edgeVars, askVars, actorVars
<1> QED BY <1>13, <1>14, <1>15, NextCases

-----------------------------------------------------------------------------
(* The owners of an edge *)

OwnersInv ==
    /\ EraserHasLock
    /\ FlagIsClaim
    /\ OwnersComeTogether
    /\ HandsFull
    /\ HandlerHasEnvelope

LEMMA OwnersInit == Init => OwnersInv
  BY NameAssumption DEF Init, OwnersInv, EraserHasLock, FlagIsClaim,
     OwnersComeTogether, HandsFull, Holding, HandlerHasEnvelope, Owners

LEMMA OwnersStep == ASSUME TypeOK, OwnersInv, [Next]_vars PROVE OwnersInv'
<1> USE AskAssumption, NameAssumption
    DEF OwnersInv, EraserHasLock, FlagIsClaim, OwnersComeTogether, HandsFull,
        Holding, HandlerHasEnvelope, Owners
<1> USE DEF TypeOK
<1>1. ASSUME NEW c \in Asks, Register(c) PROVE OwnersInv'
  BY <1>1 DEF Register, actorVars
<1>2. ASSUME NEW c \in Asks, Refuse(c) PROVE OwnersInv'
  BY <1>2 DEF Refuse, edgeVars
<1>3. ASSUME NEW c \in Asks, NEW o \in Owners, Peek(c, o) PROVE OwnersInv'
  BY <1>3 DEF Peek, actorVars, askVars
<1>4. ASSUME NEW c \in Asks, NEW o \in Owners, Claim(c, o) PROVE OwnersInv'
  <2>1. CASE removed[c]
    <3>1. /\ own' = [own EXCEPT ![c][o] = "done"]
          /\ own[c][o] = "lock"
          /\ UNCHANGED <<lock, removed, fut, env, answered, busy>>
      BY <1>4, <2>1 DEF Claim, actorVars, askVars
    <3>2. EraserHasLock'
      BY <3>1
    <3>3. FlagIsClaim' /\ OwnersComeTogether'
      BY <2>1, <3>1
    <3>4. HandsFull' /\ HandlerHasEnvelope'
      BY <3>1
    <3> QED BY <3>2, <3>3, <3>4
  <2>2. CASE ~removed[c]
    <3>1. /\ own' = [own EXCEPT ![c][o] = "erase"]
          /\ lock = Null /\ lock' = <<c, o>>
          /\ removed' = [removed EXCEPT ![c] = TRUE]
          /\ own[c][o] = "lock"
          /\ UNCHANGED <<fut, env, answered, busy>>
      BY <1>4, <2>2 DEF Claim, actorVars, askVars
    <3>2. EraserHasLock'
      BY <3>1
    <3>3. FlagIsClaim' /\ OwnersComeTogether'
      BY <3>1
    <3>4. HandsFull' /\ HandlerHasEnvelope'
      BY <3>1
    <3> QED BY <3>2, <3>3, <3>4
  <2> QED BY <2>1, <2>2
<1>5. ASSUME NEW c \in Asks, NEW o \in Owners, Erase(c, o) PROVE OwnersInv'
  BY <1>5 DEF Erase, actorVars, askVars
<1>6. ASSUME NEW c \in Asks, Send(c) PROVE OwnersInv'
  BY <1>6 DEF Send, edgeVars, actorVars
<1>7. ASSUME NEW c \in Asks, fut[c] = "sending", Abandon(c) PROVE OwnersInv'
  BY <1>7 DEF Abandon, actorVars
<1>8. ASSUME NEW c \in Asks, fut[c] \in {"failing", "awaiting"}, Leave(c) PROVE OwnersInv'
  BY <1>8 DEF Leave, actorVars
<1>9. ASSUME NEW c \in Asks, TakeEnvelope(c) PROVE OwnersInv'
  BY <1>9 DEF TakeEnvelope, edgeVars
<1>11. ASSUME NEW c \in Asks, Answer(c) PROVE OwnersInv'
  BY <1>11 DEF Answer, Release
<1>12. ASSUME NEW c \in Asks, Discard(c) PROVE OwnersInv'
  BY <1>12 DEF Discard, Release, actorVars
<1>13. ASSUME NEW a \in Actors, Quiet(a) PROVE OwnersInv'
  <2>1. HandlerHasEnvelope'
    <3>1. UNCHANGED env
      BY <1>13, QuietEffect DEF askVars
    <3>2. \A x \in Actors : busy'[x] \in Asks => busy'[x] = busy[x]
      BY <1>13, QuietEffect
    <3> QED BY <3>1, <3>2
  <2> QED BY <1>13, <2>1, QuietEffect DEF edgeVars, askVars
<1>14. ASSUME NEW c \in Asks, Step(c) PROVE OwnersInv'
  BY <1>14, <1>1, <1>2, <1>3, <1>4, <1>5, <1>6, <1>7, <1>8, <1>9, <1>11, <1>12
     DEF Step, SendFails, GiveUp, AfterFailure, Resume
<1>15. CASE UNCHANGED vars
  BY <1>15 DEF vars, edgeVars, askVars, actorVars
<1> QED BY <1>13, <1>14, <1>15, NextCases

-----------------------------------------------------------------------------
(* Hooks and the asks they hold *)

HooksInv == GuardInHook /\ AnsweredOnce

LEMMA HooksInit == Init => HooksInv
  BY DEF Init, HooksInv, GuardInHook, AnsweredOnce, Owners, InDrop

\* The drop of a token that was answered runs on the thread that answered.
LEMMA DropperIsStopped ==
    ASSUME HooksInv, NEW c \in Asks, answered[c], ThreadFree(Callee[c])
    PROVE  own[c]["token"] \notin InDrop
  BY DEF HooksInv, AnsweredOnce, ThreadFree, ThreadOf, Owners

LEMMA HooksStep == ASSUME TypeOK, OwnersInv, HooksInv, [Next]_vars PROVE HooksInv'
<1> USE AskAssumption, NameAssumption DEF HooksInv, GuardInHook, AnsweredOnce, Owners, InDrop, TypeOK
<1>1. ASSUME NEW c \in Asks, Register(c) PROVE HooksInv'
  BY <1>1 DEF Register, InHook, actorVars, OwnersInv, HandsFull, Holding
<1>2. ASSUME NEW c \in Asks, Refuse(c) PROVE HooksInv'
  BY <1>2 DEF Refuse, InHook, edgeVars, OwnersInv, HandsFull, Holding
<1>3. ASSUME NEW c \in Asks, NEW o \in Owners, Peek(c, o) PROVE HooksInv'
  BY <1>3 DEF Peek, actorVars, askVars
<1>4. ASSUME NEW c \in Asks, NEW o \in Owners, Claim(c, o) PROVE HooksInv'
  <2>1. /\ \E next \in {"erase", "done"} : own' = [own EXCEPT ![c][o] = next]
        /\ own[c][o] = "lock"
        /\ UNCHANGED <<fut, env, answered, up, busy>>
    BY <1>4 DEF Claim, actorVars, askVars
  <2> QED BY <2>1
<1>5. ASSUME NEW c \in Asks, NEW o \in Owners, Erase(c, o) PROVE HooksInv'
  BY <1>5 DEF Erase, actorVars, askVars
<1>6. ASSUME NEW c \in Asks, Send(c) PROVE HooksInv'
  BY <1>6 DEF Send, edgeVars, actorVars, OwnersInv, HandsFull, Holding
<1>7. ASSUME NEW c \in Asks, fut[c] = "sending", Abandon(c) PROVE HooksInv'
  BY <1>7 DEF Abandon, actorVars, OwnersInv, HandsFull, Holding
<1>8. ASSUME NEW c \in Asks, fut[c] \in {"failing", "awaiting"}, Leave(c) PROVE HooksInv'
  BY <1>8 DEF Leave, actorVars, OwnersInv, HandsFull, Holding
<1>9. ASSUME NEW c \in Asks, TakeEnvelope(c) PROVE HooksInv'
  <2>1. \A d \in Asks : answered[d] /\ Callee[d] = Callee[c] => own[d]["token"] \notin InDrop
    BY <1>9, DropperIsStopped DEF TakeEnvelope
  <2> QED BY <1>9, <2>1 DEF TakeEnvelope, edgeVars
<1>10. ASSUME NEW c \in Asks, Answer(c) PROVE HooksInv'
  <2>1. env[c] = "running"
    BY <1>10 DEF Answer, OwnersInv, HandlerHasEnvelope
  <2>2. \A d \in Asks : Caller[d] = Callee[c] => own[d]["guard"] \in {"none", "done"}
    BY <1>10 DEF Answer, AsksOver, OwnersInv, OwnersComeTogether
  <2>3. /\ busy' = [busy EXCEPT ![Callee[c]] = "idle"]
        /\ own' = [own EXCEPT ![c]["token"] = "drop"]
        /\ env' = [env EXCEPT ![c] = "left"]
        /\ answered' = [answered EXCEPT ![c] = TRUE]
        /\ UNCHANGED <<fut, up>>
    BY <1>10 DEF Answer, Release
  <2> QED BY <2>1, <2>2, <2>3
<1>11. ASSUME NEW c \in Asks, Discard(c) PROVE HooksInv'
  BY <1>11 DEF Discard, Release, actorVars
<1>12. ASSUME NEW a \in Actors, Quiet(a) PROVE HooksInv'
  <2>1. UNCHANGED <<own, fut, env, answered>>
    BY <1>12, QuietEffect DEF edgeVars, askVars
  <2>2. CASE HookStart(a)
    <3>1. \A d \in Asks : answered[d] /\ Callee[d] = a => own[d]["token"] \notin InDrop
      BY <2>2, DropperIsStopped DEF HookStart
    <3> QED BY <2>1, <2>2, <3>1 DEF HookStart
  <2>3. CASE HookEnd(a)
    <3>1. \A d \in Asks : Caller[d] = a => own[d]["guard"] \in {"none", "done"}
      BY <2>3 DEF HookEnd, AsksOver, OwnersInv, OwnersComeTogether
    <3> QED BY <2>1, <2>3, <3>1 DEF HookEnd
  <2>4. CASE BeginStop(a) \/ Unwind(a) \/ Down(a)
    BY <2>1, <2>4 DEF BeginStop, Unwind, Down
  <2> QED BY <1>12, <2>2, <2>3, <2>4 DEF Quiet
<1>13. ASSUME NEW c \in Asks, Step(c) PROVE HooksInv'
  BY <1>13, <1>1, <1>2, <1>3, <1>4, <1>5, <1>6, <1>7, <1>8, <1>9, <1>10, <1>11
     DEF Step, SendFails, GiveUp, AfterFailure, Resume
<1>14. CASE UNCHANGED vars
  BY <1>14 DEF vars, edgeVars, askVars, actorVars
<1> QED BY <1>12, <1>13, <1>14, NextCases

-----------------------------------------------------------------------------
(* The entries of the graph *)

\* Only the registration and the removal of an edge change which edges are in
\* the graph, and the graph itself.
LEMMA EdgesKept ==
    ASSUME TypeOK, OwnersInv, [Next]_vars,
           \A c \in Asks : ~Register(c) /\ \A o \in Owners : ~Erase(c, o)
    PROVE  graph' = graph /\ \A c \in Asks : InGraph(c)' <=> InGraph(c)
<1> USE DEF InGraph, OwnersInv, FlagIsClaim, OwnersComeTogether, HandsFull,
            Holding, HandlerHasEnvelope, Owners, TypeOK
<1> DEFINE Kept2 == graph' = graph /\ \A c \in Asks : InGraph(c)' <=> InGraph(c)
<1>2. ASSUME NEW c \in Asks, Refuse(c) PROVE Kept2
  BY <1>2 DEF Refuse, edgeVars
<1>3. ASSUME NEW c \in Asks, NEW o \in Owners, Peek(c, o) PROVE Kept2
  BY <1>3 DEF Peek
<1>4. ASSUME NEW c \in Asks, NEW o \in Owners, Claim(c, o) PROVE Kept2
  <2>1. CASE removed[c]
    BY <1>4, <2>1 DEF Claim
  <2>2. CASE ~removed[c]
    <3>1. /\ own' = [own EXCEPT ![c][o] = "erase"] /\ own[c][o] = "lock"
          /\ removed' = [removed EXCEPT ![c] = TRUE]
          /\ graph' = graph
      BY <1>4, <2>2 DEF Claim
    <3>2. InGraph(c) /\ InGraph(c)'
      BY <2>2, <3>1
    <3>3. \A d \in Asks : d # c => (InGraph(d)' <=> InGraph(d))
      BY <3>1
    <3> QED BY <3>1, <3>2, <3>3
  <2> QED BY <2>1, <2>2
<1>6. ASSUME NEW c \in Asks, Send(c) PROVE Kept2
  BY <1>6 DEF Send, edgeVars
<1>7. ASSUME NEW c \in Asks, fut[c] = "sending", Abandon(c) PROVE Kept2
  BY <1>7 DEF Abandon
<1>8. ASSUME NEW c \in Asks, fut[c] \in {"failing", "awaiting"}, Leave(c) PROVE Kept2
  BY <1>8 DEF Leave
<1>9. ASSUME NEW c \in Asks, TakeEnvelope(c) PROVE Kept2
  BY <1>9 DEF TakeEnvelope, edgeVars
<1>11. ASSUME NEW c \in Asks, Answer(c) PROVE Kept2
  <2>1. env[c] = "running"
    BY <1>11, AskAssumption DEF Answer
  <2> QED BY <1>11, <2>1 DEF Answer, Release
<1>12. ASSUME NEW c \in Asks, Discard(c) PROVE Kept2
  BY <1>12 DEF Discard, Release
<1>13. ASSUME NEW a \in Actors, Quiet(a) PROVE Kept2
  BY <1>13, QuietEffect DEF edgeVars
<1>14. ASSUME NEW c \in Asks, Step(c) PROVE Kept2
  BY <1>14, <1>2, <1>3, <1>4, <1>6, <1>7, <1>8, <1>9, <1>11, <1>12
     DEF Step, SendFails, GiveUp, AfterFailure, Resume
<1>15. CASE UNCHANGED vars
  BY <1>15 DEF vars, edgeVars
<1> QED BY <1>13, <1>14, <1>15, NextCases

Live(x, y) == {c \in AsksBetween(x, y) : InGraph(c)}

LEMMA LiveFinite ==
    \A x, y \in Actors : IsFiniteSet(Live(x, y)) /\ Cardinality(Live(x, y)) \in Nat
<1> TAKE x \in Actors, y \in Actors
<1>1. Live(x, y) \subseteq Asks
  BY DEF Live, AsksBetween
<1> QED BY <1>1, FiniteAssumption, FS_Subset, FS_CardinalityType

LEMMA CountStep ==
    ASSUME TypeOK, OwnersInv, EntriesCounted, [Next]_vars
    PROVE  EntriesCounted'
<1> USE AskAssumption DEF TypeOK, EntriesCounted
<1>1. ASSUME NEW c \in Asks, Register(c) PROVE EntriesCounted'
  <2>1. ~InGraph(c) /\ InGraph(c)' /\ \A d \in Asks : d # c => (InGraph(d)' <=> InGraph(d))
    <3>1. \A o \in Owners : own[c][o] = "none" /\ own'[c][o] = "held"
      BY <1>1 DEF Register, OwnersInv, OwnersComeTogether
    <3>2. ~removed[c] /\ removed' = removed
      BY <1>1, <3>1 DEF Register, OwnersInv, FlagIsClaim
    <3>3. \A d \in Asks : d # c => own'[d] = own[d]
      BY <1>1 DEF Register
    <3> QED BY <3>1, <3>2, <3>3 DEF InGraph, Owners
  <2>2. TAKE x \in Actors, y \in Actors
  <2>3. CASE Caller[c] = x /\ Callee[c] = y
    <3>1. Live(x, y)' = Live(x, y) \cup {c} /\ c \notin Live(x, y)
      BY <2>1, <2>3 DEF Live, AsksBetween
    <3>2. graph'[x][y] = graph[x][y] + 1
      BY <1>1, <2>3 DEF Register
    <3>3. Cardinality(Live(x, y)') = Cardinality(Live(x, y)) + 1
      <4>1. IsFiniteSet(Live(x, y))
        BY LiveFinite
      <4>2. Cardinality(Live(x, y) \cup {c}) = Cardinality(Live(x, y)) + 1
        BY <3>1, <4>1, FS_AddElement
      <4> QED BY <3>1, <4>2
    <3> QED BY <3>2, <3>3 DEF Live
  <2>4. CASE ~(Caller[c] = x /\ Callee[c] = y)
    <3>1. Live(x, y)' = Live(x, y)
      BY <2>1, <2>4 DEF Live, AsksBetween
    <3>2. graph'[x][y] = graph[x][y]
      BY <1>1, <2>4 DEF Register
    <3> QED BY <3>1, <3>2 DEF Live
  <2> QED BY <2>3, <2>4
<1>2. ASSUME NEW c \in Asks, NEW o \in Owners, Erase(c, o) PROVE EntriesCounted'
  <2>1. /\ InGraph(c) /\ ~InGraph(c)'
        /\ \A d \in Asks : d # c => (InGraph(d)' <=> InGraph(d))
    BY <1>2 DEF Erase, InGraph, OwnersInv, OwnersComeTogether, FlagIsClaim,
       EraserHasLock, Owners
  <2>2. TAKE x \in Actors, y \in Actors
  <2>3. CASE Caller[c] = x /\ Callee[c] = y
    <3>1. Live(x, y)' = Live(x, y) \ {c} /\ c \in Live(x, y)
      BY <2>1, <2>3 DEF Live, AsksBetween
    <3>2. Cardinality(Live(x, y)') = Cardinality(Live(x, y)) - 1
      <4>1. IsFiniteSet(Live(x, y))
        BY LiveFinite
      <4>2. Cardinality(Live(x, y) \ {c}) = Cardinality(Live(x, y)) - 1
        BY <3>1, <4>1, FS_RemoveElement
      <4> QED BY <3>1, <4>2
    <3>3. Cardinality(Live(x, y)) # 0
      BY <3>1, LiveFinite, FS_EmptySet
    <3>4. graph[x][y] # 0
      BY <3>3 DEF Live
    <3>5. graph'[x][y] = graph[x][y] - 1
      BY <1>2, <2>3, <3>4 DEF Erase
    <3> QED BY <3>2, <3>5 DEF Live
  <2>4. CASE ~(Caller[c] = x /\ Callee[c] = y)
    <3>1. Live(x, y)' = Live(x, y)
      BY <2>1, <2>4 DEF Live, AsksBetween
    <3>2. graph'[x][y] = graph[x][y]
      BY <1>2, <2>4 DEF Erase
    <3> QED BY <3>1, <3>2 DEF Live
  <2> QED BY <2>3, <2>4
<1>3. CASE \A c \in Asks : ~Register(c) /\ \A o \in Owners : ~Erase(c, o)
  <2>1. \A x, y \in Actors : Live(x, y)' = Live(x, y)
    BY <1>3, EdgesKept DEF Live, AsksBetween
  <2> QED BY <1>3, <2>1, EdgesKept DEF Live
<1> QED BY <1>1, <1>2, <1>3

-----------------------------------------------------------------------------
(* Cycles *)

\* Fewer edges close no new cycle.
LEMMA FewerEdges ==
    ASSUME NEW N, NEW E, NEW F, F \subseteq E, Acyclic(N, E)
    PROVE  Acyclic(N, F)
  BY DEF Acyclic

\* The nodes reached from b hold b, and no edge leaves them.
LEMMA ReachedIsClosed ==
    ASSUME NEW N, NEW E, E \subseteq N \X N, NEW b \in N
    PROVE  LET R == {y \in N : Reaches(N, E, b, y)} IN b \in R /\ Closed(R, E)
<1> DEFINE R == {y \in N : Reaches(N, E, b, y)}
<1>1. b \in R
  BY DEF Reaches
<1>2. ASSUME NEW e \in E, e[1] \in R PROVE e[2] \in R
  <2>1. ASSUME NEW S \in SUBSET N, b \in S, Closed(S, E) PROVE e[2] \in S
    <3>1. e[1] \in S
      BY <1>2, <2>1 DEF Reaches
    <3> QED BY <2>1, <3>1 DEF Closed
  <2>2. e[2] \in N
    OBVIOUS
  <2> QED BY <2>1, <2>2 DEF Reaches
<1> QED BY <1>1, <1>2 DEF Closed

\* An edge from a to b closes no cycle when b does not reach a.
LEMMA SafeEdge ==
    ASSUME NEW N, NEW E, E \subseteq N \X N, Acyclic(N, E),
           NEW a \in N, NEW b \in N, ~Reaches(N, E, b, a)
    PROVE  Acyclic(N, E \cup {<<a, b>>})
<1> DEFINE F == E \cup {<<a, b>>}
<1> DEFINE R == {y \in N : Reaches(N, E, b, y)}
<1>1. b \in R /\ a \notin R
  BY ReachedIsClosed
<1>2. \A x \in R, y \in N : <<x, y>> \in E => y \in R
  BY ReachedIsClosed DEF Closed
<1>3. SUFFICES ASSUME NEW S \in (SUBSET N) \ {{}},
                      \A x \in S : \E y \in S : <<x, y>> \in F
               PROVE  FALSE
  BY DEF Acyclic
<1>4. CASE b \notin S \/ a \notin S
  <2>1. \A x \in S : \E y \in S : <<x, y>> \in E
    BY <1>3, <1>4
  <2> QED BY <2>1 DEF Acyclic
<1>5. CASE b \in S /\ a \in S
  <2>1. S \cap R \in (SUBSET N) \ {{}}
    BY <1>1, <1>5
  <2>2. \A x \in S \cap R : \E y \in S \cap R : <<x, y>> \in E
    <3> TAKE x \in S \cap R
    <3>1. PICK y \in S : <<x, y>> \in F
      BY <1>3
    <3>2. <<x, y>> \in E
      BY <1>1, <3>1
    <3>3. y \in R
      BY <1>2, <3>2
    <3> QED BY <3>2, <3>3
  <2> QED BY <2>1, <2>2 DEF Acyclic
<1> QED BY <1>4, <1>5

\* What register_ask_edge lets through closes no path: without a key in the
\* map the callee waits for nobody.
LEMMA CheckSuffices ==
    ASSUME NEW a \in Actors, NEW b \in Actors, ~ClosesCycle(a, b)
    PROVE  ~Reaches(Actors, Edges, b, a)
<1>1. CASE HasEdges(b)
  BY <1>1 DEF ClosesCycle
<1>2. CASE ~HasEdges(b)
  <2>1. Closed({b}, Edges)
    BY <1>2 DEF Closed, Edges, HasEdges
  <2>2. a \notin {b}
    BY DEF ClosesCycle
  <2> QED BY <2>1, <2>2 DEF Reaches
<1> QED BY <1>1, <1>2

LEMMA AcyclicStep ==
    ASSUME TypeOK, OwnersInv, GraphAcyclic, [Next]_vars
    PROVE  GraphAcyclic'
<1> USE AskAssumption DEF TypeOK
<1>1. ASSUME NEW c \in Asks, Register(c) PROVE GraphAcyclic'
  <2>1. Edges' \subseteq Edges \cup {<<Caller[c], Callee[c]>>}
    BY <1>1 DEF Edges, Register
  <2>2. ~Reaches(Actors, Edges, Callee[c], Caller[c])
    BY <1>1, CheckSuffices DEF Register
  <2>3. Edges \subseteq Actors \X Actors
    BY DEF Edges
  <2>4. Acyclic(Actors, Edges \cup {<<Caller[c], Callee[c]>>})
    BY <2>2, <2>3, SafeEdge DEF GraphAcyclic
  <2> QED BY <2>1, <2>4, FewerEdges DEF GraphAcyclic
<1>2. ASSUME NEW c \in Asks, NEW o \in Owners, Erase(c, o) PROVE GraphAcyclic'
  <2>1. Edges' \subseteq Edges
    BY <1>2 DEF Edges, Erase
  <2> QED BY <2>1, FewerEdges DEF GraphAcyclic
<1>3. CASE \A c \in Asks : ~Register(c) /\ \A o \in Owners : ~Erase(c, o)
  <2>1. Edges' = Edges
    BY <1>3, EdgesKept DEF Edges
  <2> QED BY <2>1 DEF GraphAcyclic
<1> QED BY <1>1, <1>2, <1>3

LEMMA GraphInit == Init => EntriesCounted /\ GraphAcyclic
<1> SUFFICES ASSUME Init PROVE EntriesCounted /\ GraphAcyclic
  OBVIOUS
<1>1. \A x, y \in Actors : Live(x, y) = {}
  BY DEF Init, Live, AsksBetween, InGraph, Owners
<1>2. EntriesCounted
  BY <1>1, FS_EmptySet DEF EntriesCounted, Live, Init
<1>3. Edges = {}
  BY DEF Init, Edges
<1>4. Acyclic(Actors, {})
  <2> SUFFICES ASSUME NEW S \in (SUBSET Actors) \ {{}}
               PROVE  \E x \in S : \A y \in S : <<x, y>> \notin {}
    BY DEF Acyclic
  <2>1. S # {}
    OBVIOUS
  <2>2. PICK x : x \in S
    BY <2>1, Zenon
  <2> QED BY <2>2
<1> QED BY <1>2, <1>3, <1>4 DEF GraphAcyclic

\* A panic of register_ask_edge is the only way to be refused.
LEMMA OnlyRefuseRefuses ==
    ASSUME TypeOK, [Next]_vars, NEW c \in Asks, fut[c] = "new", fut'[c] = "refused"
    PROVE  Refuse(c)
<1> USE DEF TypeOK
<1>1. ASSUME NEW d \in Asks, Step(d), ~Refuse(d) PROVE fut'[c] # "refused"
  <2>1. CASE \E v \in Futures \ {"refused"} : fut' = [fut EXCEPT ![d] = v]
    BY <2>1
  <2>2. CASE fut' = fut
    BY <2>2
  <2>3. fut' = fut \/ \E v \in Futures \ {"refused"} : fut' = [fut EXCEPT ![d] = v]
    BY <1>1 DEF Step, Register, Peek, Claim, Erase, Send, SendFails, GiveUp, AfterFailure,
       Resume, Abandon, Leave, TakeEnvelope, Answer, Discard, Release, askVars, Futures
  <2> QED BY <2>1, <2>2, <2>3
<1>2. ASSUME NEW d \in Asks, Refuse(d) PROVE d = c
  BY <1>2 DEF Refuse
<1>3. ASSUME NEW a \in Actors, Quiet(a) PROVE fut' = fut
  BY <1>3, QuietEffect DEF askVars
<1>4. CASE UNCHANGED vars
  BY <1>4 DEF vars, askVars
<1> QED BY <1>1, <1>2, <1>3, <1>4, NextCases

-----------------------------------------------------------------------------
(* Theorems *)

\* The graph, the flags, the owners and the asks always agree, and the graph
\* has no cycle.
THEOREM WaitInvCorrect == Spec => []WaitInv
<1>1. Init => WaitInv
  BY TypeInit, OwnersInit, GraphInit, HooksInit DEF WaitInv, OwnersInv, HooksInv
<1>2. WaitInv /\ [Next]_vars => WaitInv'
  BY TypeStep, OwnersStep, CountStep, AcyclicStep, HooksStep DEF WaitInv, OwnersInv, HooksInv
<1> QED BY <1>1, <1>2, PTL DEF Spec

\* The graph at every point where a registration can look at it: no edge of an
\* ask under way is missing, none outlives the first of its owners.
THEOREM EdgesCorrect == Spec => []EdgesMatchAsks
<1>1. WaitInv => EdgesMatchAsks
  <2> SUFFICES ASSUME WaitInv, lock = Null, NEW x \in Actors, NEW y \in Actors
               PROVE  /\ Cardinality({c \in AsksBetween(x, y) : Kept(c)}) <= graph[x][y]
                      /\ graph[x][y] <= Cardinality({c \in AsksBetween(x, y) : Unremoved(c)})
    BY DEF EdgesMatchAsks
  <2> DEFINE K == {c \in AsksBetween(x, y) : Kept(c)}
             U == {c \in AsksBetween(x, y) : Unremoved(c)}
  <2>1. graph[x][y] = Cardinality(Live(x, y))
    BY DEF WaitInv, EntriesCounted, Live
  <2>2. \A c \in Asks, o \in Owners : own[c][o] # "erase"
    BY NameAssumption DEF WaitInv, EraserHasLock
  <2>3. K \subseteq Live(x, y)
    BY DEF WaitInv, FlagIsClaim, Live, AsksBetween, InGraph, Kept, Owners
  <2>4. Live(x, y) \subseteq U
    BY <2>2 DEF WaitInv, FlagIsClaim, OwnersComeTogether, Live, AsksBetween,
       InGraph, Unremoved, Owners
  <2>5. IsFiniteSet(U)
    <3>1. U \subseteq Asks
      BY DEF AsksBetween
    <3> QED BY <3>1, FiniteAssumption, FS_Subset
  <2>6. Cardinality(K) <= Cardinality(Live(x, y))
    BY <2>3, LiveFinite, FS_Subset
  <2>7. Cardinality(Live(x, y)) <= Cardinality(U)
    BY <2>4, <2>5, FS_Subset
  <2> QED BY <2>1, <2>6, <2>7
<1> QED BY <1>1, WaitInvCorrect, PTL

\* Asks let through by the detector never deadlock, whoever runs them, however
\* many a handler has in flight, and whatever times out or crashes.
THEOREM NoDeadlockCorrect == Spec => []NoDeadlockedSet
<1>1. WaitInv => NoDeadlockedSet
  <2> SUFFICES ASSUME WaitInv PROVE NoDeadlockedSet
    OBVIOUS
  <2>1. ASSUME NEW c \in Asks, Waits(c)
        PROVE  <<Caller[c], Callee[c]>> \in Edges
    <3>1. Kept(c)
      BY <2>1 DEF WaitInv, HandsFull, Holding, Waits, Pending, Kept, Owners
    <3>2. InGraph(c)
      BY <3>1 DEF WaitInv, FlagIsClaim, InGraph, Kept, Owners
    <3>3. Caller[c] \in Actors /\ Callee[c] \in Actors
      BY AskAssumption
    <3>4. c \in Live(Caller[c], Callee[c])
      BY <3>2 DEF Live, AsksBetween
    <3>5. Cardinality(Live(Caller[c], Callee[c])) # 0
      BY <3>3, <3>4, LiveFinite, FS_EmptySet
    <3>6. graph[Caller[c]][Callee[c]] = Cardinality(Live(Caller[c], Callee[c]))
      BY <3>3 DEF WaitInv, EntriesCounted, Live
    <3> QED BY <3>3, <3>5, <3>6, LiveFinite DEF Edges
  <2>2. EdgesOf({c \in Asks : Waits(c)}) \subseteq Edges
    BY <2>1 DEF EdgesOf
  <2> QED BY <2>2, FewerEdges DEF WaitInv, GraphAcyclic, NoDeadlockedSet
<1> QED BY <1>1, WaitInvCorrect, PTL

\* When no ask goes through a priority channel, which a graceful stop closes
\* under its caller, the detector never cries wolf: a path of edges back to
\* the caller is a path of asks that hold their callers up, because each actor
\* on it is in a hook, and so has answered none of the asks that lead to it.
THEOREM PanicCorrect == ASSUME Priority = {} PROVE Spec => PanicIsDeadlock
<1> DEFINE Held == {d \in Asks : Waits(d) \/ GivesUp(d)}
<1>1. ASSUME WaitInv, lock = Null, NEW x \in Actors, NEW y \in Actors,
             <<x, y>> \in Edges, busy[y] # "idle"
      PROVE  busy[x] # "idle" /\ <<x, y>> \in EdgesOf(Held)
  <2>1. PICK d \in Asks : Caller[d] = x /\ Callee[d] = y /\ InGraph(d)
    <3>1. graph[x][y] > 0
      BY <1>1 DEF Edges
    <3>2. Cardinality(Live(x, y)) # 0
      BY <1>1, <3>1 DEF WaitInv, EntriesCounted, Live
    <3>3. Live(x, y) # {}
      BY <3>2, FS_EmptySet
    <3> QED BY <3>3 DEF Live, AsksBetween
  <2>2. \A o \in Owners : own[d][o] \notin {"none", "erase", "done"}
    BY <1>1, <2>1, NameAssumption
       DEF WaitInv, EraserHasLock, FlagIsClaim, OwnersComeTogether, InGraph, Owners
  <2>3. busy[x] # "idle"
    BY <2>1, <2>2, <1>1 DEF WaitInv, GuardInHook, Owners
  <2>4. busy[y] # "idle" /\ up[y] # "down"
    BY <1>1 DEF WaitInv, GuardInHook
  <2>5. ~answered[d]
    BY <1>1, <2>1, <2>2, <2>4
       DEF WaitInv, TypeOK, AnsweredOnce, DropStates, InDrop, Owners
  <2>6. Pending(d)
    BY <2>1, <2>4, <2>5 DEF Pending, Open
  <2>7. fut[d] \in {"sending", "failing", "awaiting", "left"}
    BY <1>1, <2>2 DEF WaitInv, TypeOK, OwnersComeTogether, Futures, Owners
  <2>8. d \in Held
    BY <2>2, <2>6, <2>7 DEF Waits, GivesUp, Owners
  <2> QED BY <2>1, <2>3, <2>8 DEF EdgesOf
<1>2. ASSUME WaitInv, NEW c \in Asks, Refuse(c)
      PROVE  Reaches(Actors, EdgesOf(Held), Callee[c], Caller[c])
  <2> SUFFICES ASSUME NEW S \in SUBSET Actors, Callee[c] \in S, Closed(S, EdgesOf(Held))
               PROVE  Caller[c] \in S
    BY DEF Reaches
  <2> DEFINE T == S \cup {x \in Actors : busy[x] = "idle"}
  <2>1. lock = Null /\ busy[Caller[c]] # "idle" /\ ClosesCycle(Caller[c], Callee[c])
    BY <1>2 DEF Refuse, InHook
  <2>2. Closed(T, Edges)
    <3> SUFFICES ASSUME NEW e \in Edges, e[1] \in T, e[2] \notin T PROVE FALSE
      BY DEF Closed
    <3>1. e = <<e[1], e[2]>> /\ e[1] \in Actors /\ e[2] \in Actors
      BY DEF Edges
    <3>2. busy[e[1]] # "idle" /\ <<e[1], e[2]>> \in EdgesOf(Held)
      BY <1>1, <1>2, <2>1, <3>1
    <3>3. e[1] \in S
      BY <3>2
    <3> QED BY <3>2, <3>3 DEF Closed
  <2>3. CASE Caller[c] = Callee[c]
    BY <2>3
  <2>4. CASE Reaches(Actors, Edges, Callee[c], Caller[c])
    <3>1. T \in SUBSET Actors /\ Callee[c] \in T
      OBVIOUS
    <3>2. Caller[c] \in T
      BY <2>2, <2>4, <3>1 DEF Reaches
    <3> QED BY <2>1, <3>2
  <2> QED BY <2>1, <2>3, <2>4 DEF ClosesCycle
<1>3. ASSUME WaitInv, [Next]_vars, NEW c \in Asks, fut[c] = "new", fut'[c] = "refused"
      PROVE  Reaches(Actors, EdgesOf(Held), Callee[c], Caller[c])
  <2>1. Refuse(c)
    BY <1>3, OnlyRefuseRefuses DEF WaitInv
  <2> QED BY <1>2, <1>3, <2>1
<1>4. WaitInv /\ [Next]_vars =>
          \A c \in Asks : fut[c] = "new" /\ fut'[c] = "refused" =>
              Reaches(Actors, EdgesOf(Held), Callee[c], Caller[c])
  BY <1>3
<1> QED BY <1>4, WaitInvCorrect, PTL DEF Spec, PanicIsDeadlock

-----------------------------------------------------------------------------
(* WaitForGraph implements AskDetector.                                      *)

\* The pairs counted in the graph are the edges that are in.
LEMMA EdgesAreIn ==
    ASSUME WaitInv
    PROVE  /\ Detector!EdgesIn = Edges
           /\ \A c \in Asks : InGraph(c) <=> EdgeState(c) = "in"
<1> USE AskAssumption
<1>1. ASSUME NEW c \in Asks PROVE InGraph(c) <=> EdgeState(c) = "in"
  BY DEF WaitInv, OwnersComeTogether, EdgeState, InGraph, Owners
<1>2. Detector!EdgesIn = {<<Caller[c], Callee[c]>> : c \in {d \in Asks : InGraph(d)}}
  BY <1>1 DEF Detector!EdgesIn, DetectorEdge
<1>3. ASSUME NEW x \in Actors, NEW y \in Actors
      PROVE  <<x, y>> \in Edges <=> \E c \in Asks : InGraph(c) /\ Caller[c] = x /\ Callee[c] = y
  <2>1. graph[x][y] = Cardinality(Live(x, y)) /\ Cardinality(Live(x, y)) \in Nat
    BY LiveFinite DEF WaitInv, EntriesCounted, Live
  <2>2. Cardinality(Live(x, y)) = 0 <=> Live(x, y) = {}
    BY LiveFinite, FS_EmptySet
  <2>3. <<x, y>> \in Edges <=> graph[x][y] > 0
    BY DEF Edges
  <2>4. Live(x, y) = {} <=> ~\E c \in Asks : InGraph(c) /\ Caller[c] = x /\ Callee[c] = y
    BY DEF Live, AsksBetween
  <2> QED BY <2>1, <2>2, <2>3, <2>4
<1>4. Edges \subseteq Actors \X Actors
  BY DEF Edges
<1>5. {<<Caller[c], Callee[c]>> : c \in {d \in Asks : InGraph(d)}} = Edges
  BY <1>3, <1>4
<1> QED BY <1>1, <1>2, <1>5

\* The check of the key and the search look for a path over these edges.
LEMMA CheckIsSearch ==
    ASSUME WaitInv, NEW c \in Asks
    PROVE  ClosesCycle(Caller[c], Callee[c]) <=> Detector!WouldClose(c)
<1>1. Caller[c] \in Actors /\ Callee[c] \in Actors
  BY AskAssumption
<1>2. ~ClosesCycle(Caller[c], Callee[c]) => ~Reaches(Actors, Edges, Callee[c], Caller[c])
  BY <1>1, CheckSuffices
<1>3. ClosesCycle(Caller[c], Callee[c]) => Reaches(Actors, Edges, Callee[c], Caller[c])
  BY DEF ClosesCycle, Reaches
<1>4. Detector!WouldClose(c) <=> Reaches(Actors, Edges, Callee[c], Caller[c])
  BY EdgesAreIn DEF Detector!WouldClose, Detector!Reaches, Detector!Closed, Reaches, Closed
<1> QED BY <1>2, <1>3, <1>4

\* A channel that closed stays closed.
LEMMA ClosedStays ==
    ASSUME TypeOK, [Next]_vars, NEW c \in Asks, Open(c)'
    PROVE  Open(c)
<1> USE AskAssumption DEF TypeOK, Open
<1>1. ASSUME NEW d \in Asks, Step(d), ~Refuse(d) PROVE UNCHANGED <<up, stopping>>
  BY <1>1 DEF Step, Register, Peek, Claim, Erase, Send, SendFails, GiveUp, AfterFailure,
     Resume, Abandon, Leave, TakeEnvelope, Answer, Discard, actorVars
<1>2. ASSUME NEW d \in Asks, Refuse(d) PROVE Open(c)
  BY <1>2 DEF Refuse
<1>3. ASSUME NEW a \in Actors, Quiet(a) PROVE Open(c)
  BY <1>3 DEF Quiet, HookStart, HookEnd, BeginStop, Unwind, Down
<1>4. CASE UNCHANGED vars
  BY <1>4 DEF vars, actorVars
<1> QED BY <1>1, <1>2, <1>3, <1>4, NextCases

\* How far a step takes ask c, when it neither enters nor sends.
Further(c) ==
    /\ fut'[c] \in {"sending", "awaiting"} => fut'[c] = fut[c]
    /\ env'[c] \in {"queued", "running"} => env[c] \in {"queued", "running"}
    /\ answered[c] => answered'[c]

LEMMA AsksGoFurther ==
    ASSUME TypeOK, OwnersInv, [Next]_vars, NEW c \in Asks, ~Register(c), ~Send(c)
    PROVE  Further(c)
<1> USE AskAssumption DEF TypeOK, Further
<1>1. ASSUME NEW d \in Asks, Register(d) \/ Send(d) PROVE Further(c)
  <2>1. d # c
    BY <1>1
  <2> QED BY <1>1, <2>1 DEF Register, Send
<1>2. ASSUME NEW d \in Asks, \/ Refuse(d)
                             \/ \E o \in Owners : Peek(d, o) \/ Claim(d, o) \/ Erase(d, o)
      PROVE  Further(c)
  BY <1>2 DEF Refuse, Peek, Claim, Erase, askVars
<1>3. ASSUME NEW d \in Asks, Abandon(d) \/ Leave(d) PROVE Further(c)
  BY <1>3 DEF Abandon, Leave
<1>4. ASSUME NEW d \in Asks, TakeEnvelope(d) \/ Answer(d) \/ Discard(d) PROVE Further(c)
  BY <1>4 DEF TakeEnvelope, Answer, Discard, Release
<1>5. ASSUME NEW d \in Asks, Step(d) PROVE Further(c)
  BY <1>1, <1>2, <1>3, <1>4, <1>5 DEF Step, SendFails, GiveUp, AfterFailure, Resume
<1>6. ASSUME NEW a \in Actors, Quiet(a) PROVE Further(c)
  BY <1>6, QuietEffect DEF askVars
<1>7. CASE UNCHANGED vars
  BY <1>7 DEF vars, askVars
<1> QED BY <1>5, <1>6, <1>7, NextCases

\* Once an ask has left its caller's way it does not come back into it.
LEMMA WaitsEnd ==
    ASSUME TypeOK, OwnersInv, [Next]_vars, NEW c \in Asks, Waits(c)', ~Register(c)
    PROVE  Waits(c)
<1>1. CASE Send(c)
  BY <1>1 DEF Send, Waits, Pending, TypeOK
<1>2. CASE ~Send(c)
  <2>1. Further(c)
    BY <1>2, AsksGoFurther
  <2>2. fut[c] \in {"sending", "awaiting"} /\ ~answered[c]
    BY <2>1 DEF Further, Waits, Pending
  <2>3. Open(c)' => Open(c)
    BY ClosedStays
  <2>4. Open(c) \/ env[c] \in {"queued", "running"}
    BY <2>1, <2>3 DEF Further, Waits, Pending
  <2> QED BY <2>2, <2>4 DEF Waits, Pending
<1> QED BY <1>1, <1>2

\* Nobody waits on an edge whose entry is being erased: its caller has left, or
\* its envelope is gone and a reply, or none, is on its way.
LEMMA ErasedIsLeft ==
    ASSUME WaitInv, NEW c \in Asks, NEW o \in Owners, own[c][o] \in InDrop \cup {"done"}
    PROVE  ~Waits(c)
BY DEF WaitInv, HandsFull, Holding, Waits, Pending, Owners, InDrop

LEMMA DetectorInit == Init => Detector!Init
<1> SUFFICES ASSUME Init PROVE Detector!Init
  OBVIOUS
<1>1. DetectorEdge = [c \in Asks |-> "new"]
  BY DEF Init, DetectorEdge, EdgeState
<1>2. DetectorWaiting = {}
  BY DEF Init, DetectorWaiting, Waits
<1> QED BY <1>1, <1>2 DEF Detector!Init

\* The check and the insertion are one step of the detector.
LEMMA RegisterEnters ==
    ASSUME WaitInv, NEW c \in Asks, Register(c)
    PROVE  Detector!Enter(c)
<1>1. TypeOK /\ OwnersInv /\ [Next]_vars
  BY DEF WaitInv, OwnersInv, Next, EdgeStep
<1>2. DetectorEdge[c] = "new" /\ ~Detector!WouldClose(c)
  BY CheckIsSearch DEF Register, DetectorEdge, EdgeState
<1>3. InGraph(c)' /\ fut'[c] = "sending"
  <2>1. ~removed'[c]
    BY <1>1 DEF Register, TypeOK, OwnersInv, FlagIsClaim, OwnersComeTogether, Owners
  <2>2. own'[c]["guard"] = "held" /\ fut'[c] = "sending"
    BY <1>1 DEF Register, TypeOK, Owners
  <2> QED BY <2>1, <2>2 DEF InGraph
<1>4. \A d \in Asks \ {c} : EdgeState(d)' = EdgeState(d)
  BY <1>1 DEF Register, TypeOK, EdgeState, InGraph
<1>5. DetectorEdge' = [DetectorEdge EXCEPT ![c] = "in"]
  BY <1>3, <1>4 DEF DetectorEdge, EdgeState
<1>6. \A d \in Asks \ {c} : Waits(d)' <=> Waits(d)
  BY <1>1 DEF Register, TypeOK, Waits, Pending, Open, actorVars
<1>7. ~Waits(c)
  BY DEF Register, Waits
<1>8. DetectorWaiting' \in {DetectorWaiting, DetectorWaiting \cup {c}}
  BY <1>6, <1>7 DEF DetectorWaiting
<1> QED BY <1>2, <1>5, <1>8 DEF Detector!Enter

LEMMA RefuseRefuses ==
    ASSUME WaitInv, NEW c \in Asks, Refuse(c)
    PROVE  Detector!Refuse(c)
<1>1. DetectorEdge[c] = "new" /\ Detector!WouldClose(c)
  BY CheckIsSearch DEF Refuse, DetectorEdge, EdgeState
<1>2. \A d \in Asks \ {c} : EdgeState(d)' = EdgeState(d)
  BY DEF WaitInv, TypeOK, Refuse, edgeVars, EdgeState, InGraph
<1>3. EdgeState(c)' = "refused"
  BY DEF WaitInv, TypeOK, Refuse, EdgeState
<1>4. DetectorEdge' = [DetectorEdge EXCEPT ![c] = "refused"]
  BY <1>2, <1>3 DEF DetectorEdge
<1>5. \A d \in Asks : Waits(d)' <=> Waits(d)
  BY AskAssumption DEF WaitInv, TypeOK, Refuse, Waits, Pending, Open
<1>6. DetectorWaiting' = DetectorWaiting
  BY <1>5 DEF DetectorWaiting
<1> QED BY <1>1, <1>4, <1>6 DEF Detector!Refuse

\* The erased entry takes one edge out, that of an ask nobody waits on.
LEMMA EraseTakesOut ==
    ASSUME WaitInv, NEW c \in Asks, NEW o \in Owners, Erase(c, o)
    PROVE  Detector!TakeOut(c)
<1>1. /\ InGraph(c) /\ ~InGraph(c)'
      /\ \A d \in Asks : d # c => (InGraph(d)' <=> InGraph(d))
  BY DEF Erase, InGraph, WaitInv, TypeOK, OwnersComeTogether, FlagIsClaim, EraserHasLock, Owners
<1>2. DetectorEdge[c] = "in" /\ c \notin DetectorWaiting
  BY <1>1, EdgesAreIn, ErasedIsLeft DEF DetectorEdge, DetectorWaiting, Erase, InDrop
<1>3. fut' = fut /\ fut[c] \notin {"new", "refused"}
  BY <1>2 DEF Erase, askVars, DetectorEdge, EdgeState
<1>4. DetectorEdge' = [DetectorEdge EXCEPT ![c] = "out"]
  BY <1>1, <1>3 DEF DetectorEdge, EdgeState
<1>5. DetectorWaiting' = DetectorWaiting
  BY DEF Erase, askVars, actorVars, DetectorWaiting, Waits, Pending, Open
<1> QED BY <1>2, <1>4, <1>5 DEF Detector!TakeOut

\* Everything else lets some callers go on, or is no step of the detector.
LEMMA OtherStops ==
    ASSUME WaitInv, [Next]_vars,
           \A c \in Asks : /\ ~Register(c) /\ ~Refuse(c)
                           /\ \A o \in Owners : ~Erase(c, o)
    PROVE  Detector!StopWaiting
<1>1. TypeOK /\ OwnersInv
  BY DEF WaitInv, OwnersInv
<1>2. \A c \in Asks : InGraph(c)' <=> InGraph(c)
  BY <1>1, EdgesKept
<1>3. ASSUME NEW c \in Asks
      PROVE  fut'[c] = fut[c] \/ {fut[c], fut'[c]} \cap {"new", "refused"} = {}
  <2> USE DEF TypeOK
  <2>1. ASSUME NEW d \in Asks, Step(d)
        PROVE  fut' = fut \/ \E v : /\ fut' = [fut EXCEPT ![d] = v]
                                    /\ {fut[d], v} \cap {"new", "refused"} = {}
    BY <1>1, <2>1 DEF Step, Peek, Claim, Send, SendFails, GiveUp, AfterFailure,
       Resume, Abandon, Leave, TakeEnvelope, Answer, Discard, Release, askVars
  <2>2. ASSUME NEW a \in Actors, Quiet(a) PROVE fut' = fut
    BY <1>1, <2>2, QuietEffect DEF askVars
  <2>3. CASE UNCHANGED vars
    BY <2>3 DEF vars, askVars
  <2> QED BY <1>1, <2>1, <2>2, <2>3, NextCases
<1>4. \A c \in Asks : EdgeState(c)' = EdgeState(c)
  BY <1>2, <1>3 DEF EdgeState
<1>5. DetectorEdge' = DetectorEdge
  BY <1>4 DEF DetectorEdge
<1>6. DetectorWaiting' \in SUBSET DetectorWaiting
  BY <1>1, WaitsEnd DEF DetectorWaiting
<1> QED BY <1>5, <1>6 DEF Detector!StopWaiting

\* The graph, its mutex, its counts, and the two owners of each edge implement
\* one atomic set of edges: whatever the interleaving of registrations and
\* drops, the check and the insertion are one step, and an edge leaves once,
\* when nobody waits on it any more.
THEOREM DetectorCorrect == Spec => ImplementsDetector
<1>1. Init => Detector!Init
  BY DetectorInit
<1>2. WaitInv /\ [Next]_vars => [Detector!Next]_(Detector!vars)
  BY RegisterEnters, RefuseRefuses, EraseTakesOut, OtherStops DEF Detector!Next
<1> QED BY <1>1, <1>2, WaitInvCorrect, PTL DEF Spec, ImplementsDetector, Detector!Spec
=============================================================================
