------------------------- MODULE GraphOutput_proofs -------------------------
(***************************************************************************)
(* rsactor-graph from the finished graph to the written output: the focus, *)
(* the drawing and the call to Graphviz, for graphs of any size and shape, *)
(* for any command line and for texts and pipes of any length.             *)
(***************************************************************************)
EXTENDS GraphOutput, FiniteSetTheorems, TLAPS

(***************************************************************************)
(* The call to Graphviz                                                    *)
(*                                                                         *)
(* PipeInv counts the output that is on its way and ties the places of the *)
(* caller, of the feeding thread and of the process to one another.        *)
(***************************************************************************)

LEMMA PipeStart == PipeInit => PipeInv
  BY PipeAssumption DEF PipeInit, PipeInv, PipeTypeOK, Returned, Alive

LEMMA PipeStep ==
    ASSUME PipeInv,
           \/ PipeNext
           \/ caller = "idle" /\ StartCall
           \/ UNCHANGED pipeVars
    PROVE  PipeInv'
  <1>1. CASE SpawnDot
    <2>1. CASE caller' \in {"missing", "io"} /\ UNCHANGED <<writer, dot>>
      BY <1>1, <2>1 DEF PipeInv, PipeTypeOK, Returned, Alive, SpawnDot
    <2>2. CASE caller' = "reading" /\ writer' = "writing" /\ dot' = "ready"
      BY <1>1, <2>2 DEF PipeInv, PipeTypeOK, Returned, Alive, SpawnDot
    <2>. QED
      BY <1>1, <2>1, <2>2 DEF SpawnDot
  <1>2. CASE Feed
    BY <1>2, PipeAssumption DEF PipeInv, PipeTypeOK, Returned, Alive, Feed, CanFeed
  <1>3. CASE EndFeed
    BY <1>3, PipeAssumption DEF PipeInv, PipeTypeOK, Returned, Alive, EndFeed, CanEndFeed
  <1>4. CASE Read
    BY <1>4, PipeAssumption DEF PipeInv, PipeTypeOK, Returned, Alive, Read, CanRead
  <1>5. CASE Reap
    BY <1>5, PipeAssumption DEF PipeInv, PipeTypeOK, Returned, Alive, Reap, CanReap
  <1>6. CASE Join
    BY <1>6, PipeAssumption DEF PipeInv, PipeTypeOK, Returned, Alive, Join, CanJoin
  <1>7. CASE DotTakes
    BY <1>7, PipeAssumption DEF PipeInv, PipeTypeOK, Returned, Alive, DotTakes, CanTake
  <1>8. CASE DotTurns
    BY <1>8, PipeAssumption DEF PipeInv, PipeTypeOK, Returned, Alive, DotTurns, CanTurn
  <1>9. CASE DotEmits
    BY <1>9, PipeAssumption DEF PipeInv, PipeTypeOK, Returned, Alive, DotEmits, CanEmit
  <1>10. CASE DotExits
    BY <1>10, PipeAssumption DEF PipeInv, PipeTypeOK, Returned, Alive, DotExits, CanExit
  <1>11. CASE DotFails
    BY <1>11, PipeAssumption DEF PipeInv, PipeTypeOK, Returned, Alive, DotFails
  <1>12. CASE caller = "idle" /\ StartCall
    BY <1>12 DEF PipeInv, PipeTypeOK, Returned, Alive, StartCall
  <1>13. CASE UNCHANGED pipeVars
    BY <1>13 DEF pipeVars, PipeInv, PipeTypeOK
  <1>. QED
    BY <1>1, <1>2, <1>3, <1>4, <1>5, <1>6, <1>7,
       <1>8, <1>9, <1>10, <1>11, <1>12, <1>13 DEF PipeNext

\* Somebody can always move.
LEMMA SomebodyMoves == PipeInv => NeverStuck
  <1>. SUFFICES ASSUME PipeInv, caller \in {"reading", "joining"} PROVE NeverStuck
    BY DEF NeverStuck
  <1>1. CASE caller = "joining"
    BY <1>1 DEF PipeInv, NeverStuck, CanEndFeed, CanJoin
  <1>2. CASE caller = "reading" /\ outPipe > 0
    BY <1>2 DEF NeverStuck, CanRead
  <1>3. CASE caller = "reading" /\ outPipe = 0 /\ dot \notin Alive
    BY <1>3 DEF NeverStuck, CanReap
  <1>4. CASE dot = "emitting" /\ outPipe = 0
    BY <1>4, PipeAssumption DEF NeverStuck, CanEmit
  <1>5. CASE dot = "ready"
    BY <1>5, PipeAssumption
       DEF PipeInv, PipeTypeOK, Alive, NeverStuck, CanTurn, CanTake, CanExit, CanFeed, CanEndFeed
  <1>. QED
    BY <1>1, <1>2, <1>3, <1>4, <1>5 DEF PipeInv, PipeTypeOK, Alive

LEMMA ReturnIsComplete == PipeInv => SvgIsComplete
  BY PipeAssumption DEF PipeInv, PipeTypeOK, Returned, SvgIsComplete

(***************************************************************************)
(* The search for the focus                                                *)
(***************************************************************************)

\* A ball grows with its radius.
LEMMA BallGrows ==
    ASSUME NEW graph, NEW start, NEW c \in Int, NEW d \in Int, c <= d
    PROVE  Ball(graph, start, c) \subseteq Ball(graph, start, d)
<1>1. 0..c \subseteq 0..d
  OBVIOUS
<1> QED BY <1>1 DEF Ball

LEMMA BallIsIds == \A graph, start, d : Ball(graph, start, d) \subseteq Ids(graph)
BY DEF Ball

LEMMA NoBall == \A graph, start : Ball(graph, start, -1) = {}
BY DEF Ball

LEMMA BallZero ==
    ASSUME NEW graph, NEW start \in Ids(graph)
    PROVE  Ball(graph, start, 0) = {start}
<1>1. ASSUME NEW id \in Ball(graph, start, 0) PROVE id = start
  BY <1>1 DEF Ball, IsWalk
<1>2. start \in Ball(graph, start, 0)
  <2>1. [i \in 0..0 |-> start] \in [0..0 -> Ids(graph)]
    OBVIOUS
  <2>2. IsWalk(graph, [i \in 0..0 |-> start], 0, start, start)
    BY DEF IsWalk
  <2>3. \E w \in [0..0 -> Ids(graph)] : IsWalk(graph, w, 0, start, start)
    BY <2>1, <2>2
  <2> QED BY <2>3 DEF Ball
<1> QED BY <1>1, <1>2

\* The neighbours of a node of the graph are nodes of it.
LEMMA NeighboursAreIds ==
    ASSUME NEW graph, IsGraph(graph), NEW id
    PROVE  Neighbours(graph.edges, id) \subseteq Ids(graph)
BY DEF IsGraph, Neighbours

\* A walk that is one edge longer leads to a neighbour.
LEMMA BallStep ==
    ASSUME NEW graph, IsGraph(graph), NEW start, NEW d \in Nat
    PROVE  Ball(graph, start, d + 1)
             = Ball(graph, start, d) \cup
               UNION {Neighbours(graph.edges, id) : id \in Ball(graph, start, d)}
<1> DEFINE N(id) == Neighbours(graph.edges, id)
           B(r)  == Ball(graph, start, r)
<1>1. B(d) \subseteq B(d + 1)
  BY BallGrows
<1>2. ASSUME NEW x \in B(d), NEW y \in N(x) PROVE y \in B(d + 1)
  <2>1. PICK m \in 0..d : \E w \in [0..m -> Ids(graph)] : IsWalk(graph, w, m, start, x)
    BY DEF Ball
  <2>2. PICK w \in [0..m -> Ids(graph)] : IsWalk(graph, w, m, start, x)
    BY <2>1
  <2>3. y \in Ids(graph)
    BY <1>2, NeighboursAreIds
  <2> DEFINE v == [i \in 0..(m + 1) |-> IF i <= m THEN w[i] ELSE y]
  <2>4. v \in [0..(m + 1) -> Ids(graph)] /\ m + 1 \in 0..(d + 1)
    BY <2>3
  <2>5. v[0] = start /\ v[m + 1] = y
    BY <2>2 DEF IsWalk
  <2>6. ASSUME NEW i \in 1..(m + 1) PROVE v[i] \in N(v[i - 1])
    <3>1. CASE i <= m
      BY <2>2, <3>1 DEF IsWalk
    <3>2. CASE i = m + 1
      BY <1>2, <2>2, <3>2 DEF IsWalk
    <3> QED BY <3>1, <3>2
  <2>7. IsWalk(graph, v, m + 1, start, y)
    BY <2>5, <2>6 DEF IsWalk
  <2> HIDE DEF v
  <2> QED BY <2>3, <2>4, <2>7 DEF Ball
<1>3. ASSUME NEW y \in B(d + 1), y \notin B(d)
      PROVE  \E x \in B(d) : y \in N(x)
  <2>1. PICK m \in 0..(d + 1) : \E w \in [0..m -> Ids(graph)] : IsWalk(graph, w, m, start, y)
    BY DEF Ball
  <2>2. PICK w \in [0..m -> Ids(graph)] : IsWalk(graph, w, m, start, y)
    BY <2>1
  <2>3. y \in Ids(graph)
    BY BallIsIds
  <2>4. m = d + 1
    <3>1. m \notin 0..d
      BY <1>3, <2>2, <2>3 DEF Ball
    <3> QED BY <3>1
  <2> DEFINE v == [i \in 0..d |-> w[i]]
  <2>5. v \in [0..d -> Ids(graph)] /\ w[d] \in Ids(graph)
    BY <2>4
  <2>6. IsWalk(graph, v, d, start, w[d])
    BY <2>2, <2>4 DEF IsWalk
  <2>7. w[d] \in B(d)
    <3> HIDE DEF v
    <3> QED BY <2>5, <2>6 DEF Ball
  <2>8. y \in N(w[d])
    <3>1. d + 1 \in 1..m /\ (d + 1) - 1 = d
      BY <2>4
    <3> QED BY <2>2, <2>4, <3>1 DEF IsWalk
  <2> QED BY <2>7, <2>8
<1> HIDE DEF N, B
<1>4. \A y : y \in B(d + 1) <=> y \in B(d) \/ \E x \in B(d) : y \in N(x)
  BY <1>1, <1>2, <1>3
<1> QED BY <1>4 DEF N, B

\* Exactly one actor matches, and the search starts there.
LEMMA FocusMeasures ==
    ASSUME OutputInv, Focus, stage' = "search"
    PROVE  SearchInv'
<1>1. /\ Cardinality(Matching(out, command.focus)) = 1
      /\ \E a \in Matching(out, command.focus) : distance' = [id \in {a.id} |-> 0]
      /\ step' = 1 /\ UNCHANGED <<command, out>>
  BY DEF Focus, End
<1>2. IsFiniteSet(Matching(out, command.focus))
  <2>1. Matching(out, command.focus) \subseteq out.nodes
    BY DEF Matching, Actors
  <2> QED BY <2>1, FS_Subset DEF OutputInv, IsGraph
<1>3. PICK a : Matching(out, command.focus) = {a}
  BY <1>1, <1>2, FS_Singleton
<1>4. a \in Actors(out) /\ a.id \in Ids(out)
  BY <1>3 DEF Matching, Actors, Ids
<1>5. distance' = [id \in {a.id} |-> 0]
  BY <1>1, <1>3
<1>6. Ball(out, a.id, 0) = {a.id}
  BY <1>4, BallZero
<1>7. Measured(a.id)'
  <2>1. (step - 1)' = 0
    BY <1>1
  <2>2. DOMAIN distance' = Ball(out, a.id, 0) /\ \A id \in DOMAIN distance' : distance'[id] = 0
    BY <1>5, <1>6
  <2> QED BY <1>1, <2>1, <2>2 DEF Measured
<1> QED BY <1>1, <1>3, <1>4, <1>7 DEF SearchInv, OutputInv, CommandOK

\* A level of the search measures the next ball.
LEMMA WidenMeasures ==
    ASSUME OutputInv, Widen
    PROVE  SearchInv'
<1> DEFINE next == Unreached(out.edges, distance, step)
<1>1. /\ stage = "search" /\ step <= command.depth /\ step' = step + 1
      /\ distance' = [id \in DOMAIN distance \cup next |-> IF id \in next THEN step ELSE distance[id]]
      /\ UNCHANGED <<command, stage, out>>
  BY DEF Widen
<1>2. step \in Nat \ {0} /\ command.depth \in Nat
  BY <1>1 DEF OutputInv, SearchInv, CommandOK
<1>3. PICK a \in Actors(out) : Matching(out, command.focus) = {a} /\ Measured(a.id)
  BY <1>1 DEF OutputInv, SearchInv
<1> DEFINE B(d) == Ball(out, a.id, d)
           N(id) == Neighbours(out.edges, id)
<1>4. /\ DOMAIN distance = B(step - 1)
      /\ \A id \in DOMAIN distance : distance[id] \in Nat
      /\ \A id \in DOMAIN distance : \A d \in 0..(step - 1) : distance[id] <= d <=> id \in B(d)
  BY <1>3 DEF Measured
<1>5. \A y : y \in next <=> /\ y \notin B(step - 1)
                           /\ \E x \in B(step - 1) : distance[x] = step - 1 /\ y \in N(x)
  <2> DEFINE touched == UNION {N(id) : id \in {x \in DOMAIN distance : distance[x] = step - 1}}
  <2>1. next = touched \ DOMAIN distance
    BY DEF Unreached
  <2>2. DOMAIN distance = B(step - 1)
    BY <1>4
  <2>3. \A y : y \in touched <=> \E x \in DOMAIN distance : distance[x] = step - 1 /\ y \in N(x)
    <3> HIDE DEF N
    <3> QED OBVIOUS
  <2> HIDE DEF next, N, B, touched
  <2> QED BY <2>1, <2>2, <2>3
<1>6. B(step) = B(step - 1) \cup UNION {N(id) : id \in B(step - 1)}
  <2>1. IsGraph(out) /\ step - 1 \in Nat /\ (step - 1) + 1 = step
    BY <1>2 DEF OutputInv
  <2> QED BY <2>1, BallStep
<1> HIDE DEF next
<1>7. \A c, d \in Int : c <= d => B(c) \subseteq B(d)
  BY BallGrows
<1>8. ASSUME NEW x \in B(step - 1), NEW y \in N(x), y \notin B(step - 1)
      PROVE  distance[x] = step - 1
  <2>1. distance[x] <= step - 1 /\ distance[x] \in Nat
    BY <1>2, <1>4
  <2>2. CASE step = 1
    BY <2>1, <2>2
  <2>3. CASE step >= 2
    <3>1. step - 2 \in Nat /\ step - 2 \in 0..(step - 1) /\ (step - 2) + 1 = step - 1
      BY <1>2, <2>3
    <3>2. x \notin B(step - 2)
      <4>1. IsGraph(out)
        BY DEF OutputInv
      <4>2. B(step - 1) = B(step - 2) \cup UNION {N(id) : id \in B(step - 2)}
        BY <3>1, <4>1, BallStep
      <4> HIDE DEF B, N
      <4> QED BY <1>8, <4>2
    <3>3. ~(distance[x] <= step - 2)
      BY <1>4, <3>1, <3>2
    <3> QED BY <1>2, <2>1, <3>3
  <2> QED BY <1>2, <2>2, <2>3
<1> HIDE DEF B, N
<1>9. \A y : y \in next <=> y \in B(step) /\ y \notin B(step - 1)
  BY <1>5, <1>6, <1>8
<1>10. B(step - 1) \subseteq B(step)
  BY <1>6
<1>11. DOMAIN distance' = B(step)
  BY <1>1, <1>4, <1>9, <1>10
<1>12. ASSUME NEW id \in B(step)
       PROVE  /\ distance'[id] \in Nat
              /\ \A d \in 0..step : distance'[id] <= d <=> id \in B(d)
  <2>1. CASE id \in next
    <3>1. distance'[id] = step
      BY <1>1, <2>1
    <3>2. ASSUME NEW d \in 0..step PROVE step <= d <=> id \in B(d)
      <4>1. CASE d = step
        BY <4>1
      <4>2. CASE d \in 0..(step - 1)
        <5>1. B(d) \subseteq B(step - 1)
          BY <1>2, <1>7, <4>2
        <5> QED BY <1>2, <1>9, <2>1, <4>2, <5>1
      <4> QED BY <1>2, <4>1, <4>2
    <3> QED BY <1>2, <3>1, <3>2
  <2>2. CASE id \notin next
    <3>1. id \in B(step - 1) /\ distance'[id] = distance[id]
      BY <1>1, <1>4, <1>9, <2>2
    <3>2. distance[id] \in Nat /\ distance[id] <= step - 1
      BY <1>2, <1>4, <3>1
    <3>3. ASSUME NEW d \in 0..step PROVE distance[id] <= d <=> id \in B(d)
      <4>1. CASE d = step
        BY <1>2, <3>2, <4>1
      <4>2. CASE d \in 0..(step - 1)
        BY <1>4, <3>1, <4>2
      <4> QED BY <1>2, <4>1, <4>2
    <3> QED BY <3>1, <3>2, <3>3
  <2> QED BY <2>1, <2>2
<1>13. Measured(a.id)'
  <2>1. (step - 1)' = step
    BY <1>1, <1>2
  <2> QED BY <1>1, <1>11, <1>12, <2>1 DEF Measured, B
<1>14. step' \in 1..(command'.depth + 1)
  BY <1>1, <1>2
<1> QED BY <1>1, <1>3, <1>13, <1>14 DEF SearchInv

\* The search is over when it has measured the ball of the given depth, and
\* what is kept is that ball with the edges of the one before.
LEMMA NarrowIsFocus ==
    ASSUME OutputInv, stage = "search", step > command.depth
    PROVE  \E a \in Actors(out) : /\ Matching(out, command.focus) = {a}
                                  /\ IsFocus(Narrow(out, distance, command.depth), out, a.id, command.depth)
<1> DEFINE depth == command.depth
           narrow == Narrow(out, distance, depth)
<1>1. depth \in Nat /\ step = depth + 1 /\ step - 1 = depth
  BY DEF OutputInv, SearchInv, CommandOK
<1>2. PICK a \in Actors(out) : Matching(out, command.focus) = {a} /\ Measured(a.id)
  BY DEF OutputInv, SearchInv
<1> DEFINE B(d) == Ball(out, a.id, d)
<1>3. /\ DOMAIN distance = B(depth)
      /\ \A id \in B(depth) : distance[id] \in Nat
      /\ \A id \in B(depth) : \A d \in 0..depth : distance[id] <= d <=> id \in B(d)
  BY <1>1, <1>2 DEF Measured
<1>4. \A id : id \in B(depth - 1) <=> id \in B(depth) /\ distance[id] < depth
  <2>1. CASE depth = 0
    BY <1>3, <2>1, NoBall
  <2>2. CASE depth >= 1
    <3>1. B(depth - 1) \subseteq B(depth)
      BY <1>1, BallGrows
    <3>2. depth - 1 \in 0..depth
      BY <1>1, <2>2
    <3> HIDE DEF B
    <3>3. \A id \in B(depth) : distance[id] <= depth - 1 <=> id \in B(depth - 1)
      BY <1>3, <3>2
    <3> QED BY <1>1, <1>3, <2>2, <3>1, <3>3
  <2> QED BY <1>1, <2>1, <2>2
<1>5. ASSUME NEW e \in out.edges, {e.from, e.to} \cap B(depth - 1) # {}
      PROVE  e.from \in B(depth) /\ e.to \in B(depth)
  <2>1. CASE depth = 0
    BY <1>5, <2>1, NoBall
  <2>2. CASE depth >= 1
    <3>1. B(depth) = B(depth - 1) \cup UNION {Neighbours(out.edges, id) : id \in B(depth - 1)}
      <4>1. IsGraph(out) /\ depth - 1 \in Nat /\ (depth - 1) + 1 = depth
        BY <1>1, <2>2 DEF OutputInv
      <4> QED BY <4>1, BallStep
    <3>2. e.from \in Neighbours(out.edges, e.to) /\ e.to \in Neighbours(out.edges, e.from)
      BY DEF Neighbours
    <3> HIDE DEF B
    <3> QED BY <1>5, <3>1, <3>2
  <2> QED BY <1>1, <2>1, <2>2
<1>6. /\ narrow.nodes = {n \in out.nodes : n.id \in DOMAIN distance}
      /\ narrow.edges = {e \in out.edges :
                          /\ e.from \in DOMAIN distance /\ e.to \in DOMAIN distance
                          /\ \/ e.from \in DOMAIN distance /\ distance[e.from] < depth
                             \/ e.to \in DOMAIN distance /\ distance[e.to] < depth}
  BY DEF Narrow, OutputInv, IsGraph
<1> HIDE DEF B, narrow
<1>7. narrow.nodes = {n \in out.nodes : n.id \in B(depth)}
  BY <1>3, <1>6
<1>8. narrow.edges = {e \in out.edges : {e.from, e.to} \cap B(depth - 1) # {}}
  BY <1>3, <1>4, <1>5, <1>6
<1>9. IsFocus(narrow, out, a.id, depth)
  BY <1>7, <1>8 DEF IsFocus, B
<1> QED BY <1>2, <1>9 DEF narrow

\* What is kept of a graph is a graph.
LEMMA NarrowIsGraph ==
    ASSUME IsGraph(out), NEW depth
    PROVE  IsGraph(Narrow(out, distance, depth))
<1> DEFINE narrow == Narrow(out, distance, depth)
<1>1. /\ DOMAIN narrow = DOMAIN out
      /\ narrow.nodes = {n \in out.nodes : n.id \in DOMAIN distance}
      /\ narrow.edges \subseteq {e \in out.edges : e.from \in DOMAIN distance /\ e.to \in DOMAIN distance}
  BY DEF Narrow, IsGraph
<1> HIDE DEF narrow
<1>2. IsFiniteSet(narrow.nodes)
  BY <1>1, FS_Subset DEF IsGraph
<1>3. \A e \in narrow.edges : {e.from, e.to} \subseteq Ids(narrow)
  BY <1>1 DEF IsGraph, Ids
<1> QED BY <1>1, <1>2, <1>3 DEF IsGraph, narrow

(***************************************************************************)
(* The inductive invariant                                                 *)
(***************************************************************************)

LEMMA OutputStart == OutputInit => OutputInv
<1> SUFFICES ASSUME OutputInit PROVE OutputInv
  OBVIOUS
<1>1. PipeInv
  BY PipeStart DEF OutputInit
<1> QED BY <1>1 DEF OutputInit, OutputInv, SearchInv, CallInv, PipeInit

LEMMA OutputStep == ASSUME OutputInv, [OutputNext]_outputVars PROVE OutputInv'
<1>1. CASE Focus
  <2>1. UNCHANGED <<command, out, pipeVars>> /\ stage = "focus" /\ stage' \in {"render", "search", "done"}
    BY <1>1 DEF Focus, End
  <2>2. SearchInv'
    BY <1>1, FocusMeasures DEF SearchInv
  <2>3. CallInv'
    BY <2>1, PipeStep DEF OutputInv, CallInv, pipeVars
  <2> QED BY <2>1, <2>2, <2>3 DEF OutputInv, CommandOK
<1>2. CASE Widen
  <2>1. UNCHANGED <<command, stage, out, pipeVars>>
    BY <1>2 DEF Widen
  <2>2. SearchInv'
    BY <1>2, WidenMeasures
  <2>3. CallInv'
    BY <2>1, PipeStep DEF OutputInv, CallInv, pipeVars
  <2> QED BY <2>1, <2>2, <2>3 DEF OutputInv, CommandOK
<1>3. CASE KeepNear
  <2>1. /\ UNCHANGED <<command, pipeVars>> /\ stage = "search" /\ stage' = "render"
        /\ out' = Narrow(out, distance, command.depth)
    BY <1>3 DEF KeepNear
  <2>2. IsGraph(out')
    BY <2>1, NarrowIsGraph DEF OutputInv
  <2>3. CallInv'
    BY <2>1, PipeStep DEF OutputInv, CallInv, pipeVars
  <2> QED BY <2>1, <2>2, <2>3 DEF OutputInv, CommandOK, SearchInv
<1>4. CASE CallDot
  <2>1. /\ UNCHANGED <<command, out>> /\ stage = "render" /\ stage' = "svg" /\ StartCall
        /\ caller = "idle"
    BY <1>4 DEF CallDot, OutputInv, CallInv
  <2>2. PipeInv'
    BY <2>1, PipeStep DEF OutputInv, CallInv
  <2> QED BY <2>1, <2>2 DEF OutputInv, CommandOK, SearchInv, CallInv
<1>5. CASE Pipe
  <2>1. UNCHANGED <<command, stage, out>> /\ stage = "svg" /\ PipeNext
    BY <1>5 DEF Pipe, viewVars
  <2>2. PipeInv'
    BY <2>1, PipeStep DEF OutputInv, CallInv
  <2> QED BY <2>1, <2>2 DEF OutputInv, CommandOK, SearchInv, CallInv
<1>6. CASE Render \/ SvgReturns
  <2>1. UNCHANGED <<command, out, pipeVars>> /\ stage' = "done"
    BY <1>6 DEF Render, SvgReturns, Write, End
  <2>2. PipeInv'
    BY <2>1, PipeStep DEF OutputInv, CallInv
  <2> QED BY <2>1, <2>2 DEF OutputInv, CommandOK, SearchInv, CallInv
<1>7. CASE Exited \/ UNCHANGED outputVars
  <2>1. UNCHANGED <<command, stage, out, distance, step>> /\ UNCHANGED pipeVars
    BY <1>7 DEF Exited, outputVars, viewVars
  <2>2. PipeInv'
    BY <2>1, PipeStep DEF OutputInv, CallInv
  <2>3. SearchInv'
    BY <2>1 DEF OutputInv, SearchInv, Measured
  <2> QED BY <2>1, <2>2, <2>3 DEF OutputInv, CommandOK, CallInv, pipeVars
<1> QED BY <1>1, <1>2, <1>3, <1>4, <1>5, <1>6, <1>7 DEF OutputNext

LEMMA OutputInvCorrect == OutputSpec => []OutputInv
BY OutputStart, OutputStep, PTL DEF OutputSpec

\* The end of a run: somebody can always move while Graphviz is called
\* (dot_to_svg, the feeding thread).
THEOREM PipeNeverStuck == OutputSpec => []NeverStuck
<1>1. OutputInv => NeverStuck
  BY SomebodyMoves DEF OutputInv, CallInv
<1> QED BY <1>1, OutputInvCorrect, PTL

\* An SVG that is returned is the whole of it (dot_to_svg, the feeder's error
\* and the exit status).
THEOREM SvgReturnedIsComplete == OutputSpec => []SvgIsComplete
<1>1. OutputInv => SvgIsComplete
  BY ReturnIsComplete DEF OutputInv, CallInv
<1> QED BY <1>1, OutputInvCorrect, PTL

(***************************************************************************)
(* The focus and the drawing                                               *)
(***************************************************************************)

\* The search by levels ends with the neighbourhood of the one actor that
\* matches, in graphs with any cycles, for any depth (view.rs, focus).
THEOREM FocusCorrect == OutputSpec => FocusIsNeighbourhood
<1>1. ASSUME OutputInv, [OutputNext]_outputVars, stage = "search", stage' # "search"
      PROVE  \E a \in Actors(out) : /\ Matching(out, command.focus) = {a}
                                    /\ IsFocus(out', out, a.id, command.depth)
  <2>1. KeepNear
    BY <1>1 DEF OutputNext, Focus, Widen, Render, CallDot, Pipe, SvgReturns, Exited, outputVars, viewVars
  <2>2. step > command.depth /\ out' = Narrow(out, distance, command.depth)
    BY <2>1 DEF KeepNear
  <2> QED BY <1>1, <2>2, NarrowIsFocus
<1> QED BY <1>1, OutputInvCorrect, PTL DEF OutputSpec, FocusIsNeighbourhood

\* The place of an edge in the drawing.
Place(groupFns, e) ==
  LET remap == Remap(out, groupFns)
  IN <<DrawnId(remap, e.from), DrawnId(remap, e.to), ArrowClass(e.kind)>>

Covered(groupFns, p) ==
  \E e \in out.edges : /\ Place(groupFns, e)[3] # "holds"
                       /\ <<Place(groupFns, e)[1], Place(groupFns, e)[2]>> = <<p[1], p[2]>>

LEMMA ArrowsOfEdges ==
    ASSUME NEW groupFns, NEW holds
    PROVE  LET remap == Remap(out, groupFns)
               drawn == ToDot(out, groupFns, holds)
           IN /\ drawn.nodes = {DrawnId(remap, n.id) : n \in out.nodes}
              /\ \A a \in drawn.arrows : \E e \in out.edges :
                    a.from = DrawnId(remap, e.from) /\ a.to = DrawnId(remap, e.to)
              /\ \A e \in out.edges :
                    LET p == Place(groupFns, e)
                    IN p[3] # "holds" \/ holds = "all" \/ (holds = "uncovered" /\ ~Covered(groupFns, p))
                         => \E a \in drawn.arrows : a.from = p[1] /\ a.to = p[2] /\ a.class = p[3]
<1> DEFINE drawn   == ToDot(out, groupFns, holds)
           At(e)   == Place(groupFns, e)
           places  == {At(e) : e \in out.edges}
           covered == {<<p[1], p[2]>> : p \in {q \in places : q[3] # "holds"}}
           Drawn(p) == \/ p[3] # "holds" \/ holds = "all"
                       \/ holds = "uncovered" /\ <<p[1], p[2]>> \notin covered
           AnArrow(p) == Arrow(p[1], p[2], p[3], {e \in out.edges : At(e) = p})
<1>1. /\ drawn.nodes = {DrawnId(Remap(out, groupFns), n.id) : n \in out.nodes}
      /\ drawn.arrows = {AnArrow(p) : p \in {q \in places : Drawn(q)}}
  BY Zenon DEF ToDot, Place
<1>2. \A p : AnArrow(p).from = p[1] /\ AnArrow(p).to = p[2] /\ AnArrow(p).class = p[3]
  BY DEF Arrow
<1>3. \A p : <<p[1], p[2]>> \in covered <=> Covered(groupFns, p)
  BY DEF Covered
<1> HIDE DEF drawn, AnArrow, covered
<1>4. \A a \in drawn.arrows : \E e \in out.edges : a.from = At(e)[1] /\ a.to = At(e)[2]
  <2> TAKE a \in drawn.arrows
  <2>1. PICK e \in out.edges : a = AnArrow(At(e))
    BY <1>1
  <2> QED BY <1>2, <2>1
<1>5. \A e \in out.edges : Drawn(At(e)) =>
        \E a \in drawn.arrows : a.from = At(e)[1] /\ a.to = At(e)[2] /\ a.class = At(e)[3]
  <2> SUFFICES ASSUME NEW e \in out.edges, Drawn(At(e))
               PROVE  \E a \in drawn.arrows : a.from = At(e)[1] /\ a.to = At(e)[2] /\ a.class = At(e)[3]
    OBVIOUS
  <2>1. AnArrow(At(e)) \in drawn.arrows
    BY <1>1
  <2> QED BY <1>2, <2>1
<1>6. \A e : At(e)[1] = DrawnId(Remap(out, groupFns), e.from) /\ At(e)[2] = DrawnId(Remap(out, groupFns), e.to)
  BY DEF Place
<1> QED BY <1>1, <1>3, <1>4, <1>5, <1>6 DEF drawn

\* Graph and drawing are closed: no edge, no arrow has a missing end, whatever
\* was kept of the graph and whatever is drawn as one.
LEMMA OutputEnds == ASSUME OutputInv PROVE EdgesHaveNodes
<1>1. IsGraph(out)
  BY DEF OutputInv
<1> QED BY <1>1, ArrowsOfEdges DEF EdgesHaveNodes, IsGraph, Ids

\* No edge or arrow has a missing end, and nothing that joins two nodes is left
\* out of the drawing, for any grouping and any mode but `none` for holds edges
\* (view.rs, keep_neighborhood; render.rs, to_dot_with).
THEOREM DrawingCorrect == OutputSpec => []NothingHidden
<1>1. ASSUME OutputInv PROVE EdgesAreDrawn
  <2>1. command.holds \in {"all", "uncovered", "none"}
    BY <1>1 DEF OutputInv, CommandOK
  <2>2. \A k : ArrowClass(k) = "holds" <=> k = "holds"
    BY DEF ArrowClass
  <2> DEFINE groupFns == command.groupFns
             remap    == Remap(out, groupFns)
             arrows   == ToDot(out, groupFns, command.holds).arrows
  <2>3. SUFFICES ASSUME NEW e \in out.edges, ~(command.holds = "none" /\ e.kind = "holds")
                 PROVE  \E a \in arrows : /\ a.from = DrawnId(remap, e.from)
                                          /\ a.to = DrawnId(remap, e.to)
                                          /\ a.class = ArrowClass(e.kind) \/ e.kind = "holds"
    BY DEF EdgesAreDrawn
  <2>4. \A f : /\ Place(groupFns, f)[1] = DrawnId(remap, f.from)
               /\ Place(groupFns, f)[2] = DrawnId(remap, f.to)
               /\ Place(groupFns, f)[3] = ArrowClass(f.kind)
    BY DEF Place
  <2>5. CASE e.kind = "holds" /\ Covered(groupFns, Place(groupFns, e))
    <3>1. PICK f \in out.edges : /\ Place(groupFns, f)[3] # "holds"
                                 /\ Place(groupFns, f)[1] = Place(groupFns, e)[1]
                                 /\ Place(groupFns, f)[2] = Place(groupFns, e)[2]
      BY <2>5 DEF Covered
    <3>2. \E a \in arrows : a.from = Place(groupFns, f)[1] /\ a.to = Place(groupFns, f)[2]
      BY <3>1, ArrowsOfEdges
    <3> QED BY <2>4, <2>5, <3>1, <3>2
  <2>6. CASE ~(e.kind = "holds" /\ Covered(groupFns, Place(groupFns, e)))
    <3>1. \/ Place(groupFns, e)[3] # "holds" \/ command.holds = "all"
          \/ command.holds = "uncovered" /\ ~Covered(groupFns, Place(groupFns, e))
      BY <2>1, <2>2, <2>3, <2>4, <2>6
    <3>2. \E a \in arrows : /\ a.from = Place(groupFns, e)[1] /\ a.to = Place(groupFns, e)[2]
                            /\ a.class = Place(groupFns, e)[3]
      BY <3>1, ArrowsOfEdges
    <3> QED BY <2>4, <3>2
  <2> QED BY <2>5, <2>6
<1>2. OutputInv => NothingHidden
  BY <1>1, OutputEnds DEF NothingHidden
<1> QED BY <1>2, OutputInvCorrect, PTL
=============================================================================
