-------------------------- MODULE PathSearch_proofs --------------------------
(***************************************************************************)
(* The search of the wait-for graph answers reachability, for any actors,  *)
(* any graph and any order of the entries.                                 *)
(***************************************************************************)
EXTENDS PathSearch, SequenceTheorems, FiniteSetTheorems, TLAPS

LEMMA EndInNodes ==
    ASSUME NEW path \in Seq(Nodes), path # <<>>
    PROVE  Len(path) \in Nat \ {0} /\ End(path) \in Nodes
<1>1. Len(path) \in Nat \ {0}
  BY EmptySeq
<1> QED BY <1>1, ElementOfSeq DEF End

LEMMA EndOfAppend ==
    ASSUME NEW path \in Seq(Nodes), NEW n \in Nodes
    PROVE  /\ Append(path, n) \in Seq(Nodes)
           /\ Append(path, n) # <<>>
           /\ End(Append(path, n)) = n
  BY DEF End

LEMMA ListIsSeq ==
    ASSUME TypeOK, NEW n \in Nodes
    PROVE  /\ DOMAIN graph[n] = 1..Len(graph[n])
           /\ Len(graph[n]) \in Nat
           /\ \A i \in 1..Len(graph[n]) : graph[n][i] \in Nodes
<1>0. graph[n] \in Lists
  BY DEF TypeOK
<1>1. PICK m \in 0..MaxEdges : graph[n] \in [1..m -> Nodes]
  BY <1>0, Zenon DEF Lists
<1>2. m \in Nat
  BY <1>1, MaxEdgesAssumption
<1>3. graph[n] \in Seq(Nodes)
  BY <1>1, <1>2
<1> QED BY <1>3, LenProperties, ElementOfSeq

\* What pop leaves.
LEMMA PopEffect ==
    ASSUME TypeOK, StackReached, stack # <<>>
    PROVE  /\ Top \in Seq(Nodes) /\ Top # <<>>
           /\ Reaches(Nodes, Edges, start, End(Top))
           /\ Rest \in Seq(Seq(Nodes))
           /\ DOMAIN Rest = 1..Len(Rest) /\ Len(Rest) = Len(stack) - 1
           /\ \A i \in DOMAIN Rest : i \in DOMAIN stack /\ Rest[i] = stack[i]
           /\ \A i \in DOMAIN stack : stack[i] = Top \/ i \in DOMAIN Rest
<1>1. Len(stack) \in Nat \ {0} /\ DOMAIN stack = 1..Len(stack)
  BY EmptySeq, LenProperties DEF TypeOK
<1>2. \A i \in 1..Len(stack) : stack[i] \in Seq(Nodes)
  BY ElementOfSeq DEF TypeOK
<1>3. /\ Rest \in Seq(Seq(Nodes))
      /\ Len(Rest) = Len(stack) - 1
      /\ \A i \in 1..Len(stack) - 1 : Rest[i] = stack[i]
  BY <1>1, <1>2, SubSeqProperties DEF Rest
<1>4. DOMAIN Rest = 1..Len(Rest)
  BY <1>3, LenProperties
<1>5. Top \in Seq(Nodes) /\ Top # <<>> /\ Reaches(Nodes, Edges, start, End(Top))
  BY <1>1, <1>2 DEF Top, StackReached
<1>6. \A i \in DOMAIN stack : i = Len(stack) \/ i \in DOMAIN Rest
  BY <1>1, <1>3, <1>4
<1> QED BY <1>1, <1>3, <1>4, <1>5, <1>6 DEF Top

\* What the pushes of one expansion add.
LEMMA ExtensionEffect ==
    ASSUME TypeOK, NEW path \in Seq(Nodes), path # <<>>
    PROVE  /\ Extensions(path) \in Seq(Seq(Nodes))
           /\ DOMAIN Extensions(path) = DOMAIN graph[End(path)]
           /\ \A i \in DOMAIN Extensions(path) :
                 /\ Extensions(path)[i] # <<>>
                 /\ End(Extensions(path)[i]) = graph[End(path)][i]
<1> DEFINE n == End(path)
<1>1. n \in Nodes
  BY EndInNodes
<1>2. /\ DOMAIN graph[n] = 1..Len(graph[n])
      /\ Len(graph[n]) \in Nat
      /\ \A i \in 1..Len(graph[n]) : graph[n][i] \in Nodes
  BY <1>1, ListIsSeq
<1>3. \A i \in 1..Len(graph[n]) : /\ Append(path, graph[n][i]) \in Seq(Nodes)
                                  /\ Append(path, graph[n][i]) # <<>>
                                  /\ End(Append(path, graph[n][i])) = graph[n][i]
  BY <1>2, EndOfAppend
<1>4. Extensions(path) = [i \in 1..Len(graph[n]) |-> Append(path, graph[n][i])]
  BY <1>2 DEF Extensions
<1> HIDE DEF n
<1>5. Extensions(path) \in [1..Len(graph[n]) -> Seq(Nodes)]
  BY <1>3, <1>4
<1>6. Extensions(path) \in Seq(Seq(Nodes))
  BY <1>2, <1>5
<1> QED BY <1>2, <1>3, <1>4, <1>6 DEF n

\* The stack after an expansion holds what was below the top, and the new
\* paths.
LEMMA PushEffect ==
    ASSUME TypeOK, StackReached, stack # <<>>
    PROVE  LET new == Push(Top) IN
           /\ new \in Seq(Seq(Nodes))
           /\ \A i \in DOMAIN new :
                 \/ \E j \in DOMAIN Rest : new[i] = Rest[j]
                 \/ \E j \in DOMAIN Extensions(Top) : new[i] = Extensions(Top)[j]
           /\ \A j \in DOMAIN Rest : \E i \in DOMAIN new : new[i] = Rest[j]
           /\ \A j \in DOMAIN Extensions(Top) :
                 \E i \in DOMAIN new : new[i] = Extensions(Top)[j]
<1> DEFINE X == Extensions(Top)
           new == Rest \o X
<1>1. Rest \in Seq(Seq(Nodes)) /\ X \in Seq(Seq(Nodes))
  BY PopEffect, ExtensionEffect
<1> HIDE DEF X
<1>2. /\ Len(Rest) \in Nat /\ DOMAIN Rest = 1..Len(Rest)
      /\ Len(X) \in Nat /\ DOMAIN X = 1..Len(X)
  BY <1>1, LenProperties
<1>3. /\ new \in Seq(Seq(Nodes))
      /\ Len(new) = Len(Rest) + Len(X)
      /\ \A i \in 1..Len(Rest) + Len(X) :
            new[i] = IF i <= Len(Rest) THEN Rest[i] ELSE X[i - Len(Rest)]
  BY <1>1, ConcatProperties
<1> HIDE DEF new
<1>4. DOMAIN new = 1..Len(Rest) + Len(X)
  BY <1>3, LenProperties
<1>5. ASSUME NEW i \in DOMAIN new
      PROVE  (\E j \in DOMAIN Rest : new[i] = Rest[j]) \/ (\E j \in DOMAIN X : new[i] = X[j])
  <2>1. CASE i <= Len(Rest)
    BY <1>2, <1>3, <1>4, <2>1
  <2>2. CASE i > Len(Rest)
    <3>1. i - Len(Rest) \in DOMAIN X
      BY <1>2, <1>4, <2>2
    <3> QED BY <1>2, <1>3, <1>4, <2>2, <3>1
  <2> QED BY <1>2, <1>4, <2>1, <2>2
<1>6. ASSUME NEW j \in DOMAIN Rest PROVE \E i \in DOMAIN new : new[i] = Rest[j]
  <2>1. j \in DOMAIN new
    BY <1>2, <1>4
  <2>2. new[j] = Rest[j]
    BY <1>2, <1>3, <1>4, <2>1
  <2> QED BY <2>1, <2>2
<1>7. ASSUME NEW j \in DOMAIN X PROVE \E i \in DOMAIN new : new[i] = X[j]
  <2>1. j + Len(Rest) \in DOMAIN new
    BY <1>2, <1>4
  <2>2. new[j + Len(Rest)] = X[j]
    BY <1>2, <1>3, <1>4, <2>1
  <2> QED BY <2>1, <2>2
<1>8. Push(Top) = new
  BY DEF Push, new, X
<1> QED BY <1>3, <1>5, <1>6, <1>7, <1>8 DEF X

-----------------------------------------------------------------------------
(* The invariant *)

\* A node reached by an edge from what start reaches is reached.
LEMMA OneMore ==
    ASSUME NEW N, NEW E, NEW x, NEW e \in E, Reaches(N, E, x, e[1])
    PROVE  Reaches(N, E, x, e[2])
  BY DEF Reaches, Closed

\* An entry of a node's list is an edge.
LEMMA EntryIsEdge ==
    ASSUME TypeOK, NEW n \in Nodes, NEW i \in DOMAIN graph[n]
    PROVE  <<n, graph[n][i]>> \in Edges
  BY ListIsSeq DEF Edges

LEMMA SearchInit == Init => SearchInv
<1> SUFFICES ASSUME Init PROVE SearchInv
  OBVIOUS
<1>1. stack = <<<<start>>>> /\ start \in Nodes
  BY DEF Init
<1>2. End(stack[1]) = start /\ stack[1] # <<>> /\ DOMAIN stack = {1}
  BY <1>1 DEF End
<1>3. TypeOK
  <2>1. <<start>> \in Seq(Nodes) /\ stack \in Seq(Seq(Nodes))
    BY <1>1
  <2> QED BY <2>1 DEF Init, TypeOK
<1>4. StackReached
  BY <1>2 DEF StackReached, Reaches
<1>5. FrontierComplete
  BY <1>2 DEF FrontierComplete, Covered, Init
<1> QED BY <1>3, <1>4, <1>5 DEF SearchInv, FoundReached, Init

\* Everything covered stays covered when the top of the stack goes, if its
\* end is visited by then.
LEMMA CoveredKept ==
    ASSUME TypeOK, StackReached, stack # <<>>, NEW n, Covered(n),
           visited \subseteq visited', End(Top) \in visited',
           \A j \in DOMAIN Rest : \E i \in DOMAIN stack' : stack'[i] = Rest[j]
    PROVE  Covered(n)'
<1>1. CASE n \in visited
  BY <1>1 DEF Covered
<1>2. ASSUME NEW i \in DOMAIN stack, End(stack[i]) = n PROVE Covered(n)'
  <2>1. CASE stack[i] = Top
    BY <1>2, <2>1 DEF Covered
  <2>2. CASE i \in DOMAIN Rest
    <3>1. PICK k \in DOMAIN stack' : stack'[k] = Rest[i]
      BY <2>2
    <3>2. End(stack'[k]) = n
      BY <1>2, <2>2, <3>1, PopEffect
    <3> QED BY <3>2 DEF Covered
  <2> QED BY <2>1, <2>2, PopEffect
<1> QED BY <1>1, <1>2 DEF Covered

LEMMA SearchStep == ASSUME SearchInv, [Next]_vars PROVE SearchInv'
<1> USE DEF SearchInv
<1>1. CASE Arrive
  <2>1. /\ found' = Top /\ stack' = Rest /\ stack # <<>>
        /\ UNCHANGED <<graph, start, target, visited>>
        /\ End(Top) = target /\ pops' = pops + 1
    BY <1>1 DEF Arrive, Searching
  <2>2. TypeOK'
    BY <2>1, PopEffect DEF TypeOK
  <2>3. StackReached'
    BY <2>1, PopEffect DEF StackReached, Edges
  <2>4. FoundReached'
    BY <2>1, PopEffect DEF FoundReached, Edges
  <2>5. FrontierComplete'
    BY <2>1, PopEffect DEF FrontierComplete
  <2> QED BY <2>2, <2>3, <2>4, <2>5
<1>2. CASE Skip
  <2>1. /\ stack' = Rest /\ stack # <<>> /\ found = <<>>
        /\ UNCHANGED <<graph, start, target, visited, found>>
        /\ End(Top) \in visited /\ pops' = pops + 1
    BY <1>2 DEF Skip, Searching, Seen
  <2>2. TypeOK'
    BY <2>1, PopEffect DEF TypeOK
  <2>3. StackReached'
    BY <2>1, PopEffect DEF StackReached, Edges
  <2>4. FoundReached'
    BY <2>1 DEF FoundReached, Edges
  <2>5. \A n : Covered(n) => Covered(n)'
    BY <2>1, CoveredKept
  <2>6. Edges' = Edges
    BY <2>1 DEF Edges
  <2>7. FrontierComplete'
    BY <2>1, <2>5, <2>6 DEF FrontierComplete
  <2> QED BY <2>2, <2>3, <2>4, <2>7
<1>3. CASE Expand
  <2>1. /\ stack' = Push(Top) /\ stack # <<>> /\ found = <<>>
        /\ UNCHANGED <<graph, start, target, found>>
        /\ visited' = visited \cup {End(Top)} /\ pops' = pops + 1
        /\ End(Top) # target
    BY <1>3 DEF Expand, Searching
  <2>2. End(Top) \in Nodes /\ Top \in Seq(Nodes) /\ Top # <<>>
    BY <2>1, PopEffect, EndInNodes
  <2>3. TypeOK'
    BY <2>1, <2>2, PushEffect DEF TypeOK
  <2>4. Edges' = Edges
    BY <2>1 DEF Edges
  <2>5. \A j \in DOMAIN Rest :
            Rest[j] # <<>> /\ Reaches(Nodes, Edges, start, End(Rest[j]))
    BY <2>1, PopEffect DEF StackReached
  <2>6. ASSUME NEW j \in DOMAIN Extensions(Top)
        PROVE  /\ Extensions(Top)[j] # <<>>
               /\ Reaches(Nodes, Edges, start, End(Extensions(Top)[j]))
    <3>1. j \in DOMAIN graph[End(Top)] /\ Extensions(Top)[j] # <<>>
          /\ End(Extensions(Top)[j]) = graph[End(Top)][j]
      BY <2>2, ExtensionEffect
    <3>2. <<End(Top), graph[End(Top)][j]>> \in Edges
      BY <2>2, <3>1, EntryIsEdge
    <3>3. Reaches(Nodes, Edges, start, End(Top))
      BY <2>1, PopEffect
    <3>4. Reaches(Nodes, Edges, start, graph[End(Top)][j])
      <4> DEFINE e == <<End(Top), graph[End(Top)][j]>>
      <4>1. e[1] = End(Top) /\ e[2] = graph[End(Top)][j] /\ e \in Edges
        BY <3>2
      <4> HIDE DEF e
      <4> QED BY <3>3, <4>1, OneMore
    <3> QED BY <3>1, <3>4
  <2>7. StackReached'
    BY <2>1, <2>4, <2>5, <2>6, PushEffect DEF StackReached
  <2>8. \A n : Covered(n) => Covered(n)'
    BY <2>1, PushEffect, CoveredKept
  <2>9. ASSUME NEW e \in Edges, e[1] = End(Top) PROVE Covered(e[2])'
    <3>1. PICK i \in DOMAIN graph[End(Top)] : graph[End(Top)][i] = e[2]
      BY <2>9 DEF Edges
    <3>2. i \in DOMAIN Extensions(Top) /\ End(Extensions(Top)[i]) = e[2]
      BY <2>2, <3>1, ExtensionEffect
    <3>3. PICK k \in DOMAIN stack' : stack'[k] = Extensions(Top)[i]
      BY <2>1, <3>2, PushEffect
    <3> QED BY <3>2, <3>3 DEF Covered
  <2>10. FrontierComplete'
    BY <2>1, <2>4, <2>8, <2>9 DEF FrontierComplete
  <2>11. FoundReached'
    BY <2>1 DEF FoundReached, Edges
  <2> QED BY <2>3, <2>7, <2>10, <2>11
<1>4. CASE UNCHANGED vars
  BY <1>4 DEF vars, TypeOK, StackReached, FrontierComplete, FoundReached, Covered, Edges
<1> QED BY <1>1, <1>2, <1>3, <1>4 DEF Next

\* The search keeps its invariant on every graph.
THEOREM SearchInvCorrect == Spec => []SearchInv
  BY SearchInit, SearchStep, PTL DEF Spec

\* When the search ends, it has found a path exactly if there is one: the
\* answer register_ask_edge acts on is reachability.
THEOREM AnswerCorrect == Spec => []AnswerIsReachability
<1>1. SearchInv => AnswerIsReachability
  <2> SUFFICES ASSUME SearchInv, ~Searching, found = <<>>
               PROVE  ~Reaches(Nodes, Edges, start, target)
    BY DEF AnswerIsReachability, SearchInv, FoundReached
  <2>1. stack = <<>>
    BY DEF Searching
  <2>2. \A n : Covered(n) => n \in visited
    BY <2>1 DEF Covered
  <2>3. start \in visited /\ target \notin visited /\ Closed(visited, Edges)
    BY <2>2 DEF SearchInv, FrontierComplete, Closed
  <2> QED BY <2>3 DEF Reaches, SearchInv, TypeOK
<1> QED BY <1>1, SearchInvCorrect, PTL

-----------------------------------------------------------------------------
(* The path *)

\* A kept path that ends where nothing was expanded yet has no node twice.
LEMMA KeptIsSimple ==
    ASSUME NEW path \in Seq(Nodes), path # <<>>, Kept(path), End(path) \notin visited
    PROVE  /\ path[1] = start
           /\ \A i \in 1..Len(path) - 1 : <<path[i], path[i + 1]>> \in Edges
           /\ \A i, j \in 1..Len(path) : path[i] = path[j] => i = j
<1>1. Len(path) \in Nat \ {0}
  BY EndInNodes
<1>2. \A i \in 1..Len(path) - 1 : path[i] # path[Len(path)]
  BY DEF Kept, End
<1> QED BY <1>1, <1>2 DEF Kept

\* The paths that an expansion adds are kept rightly, once it is made.
LEMMA ExtensionKept ==
    ASSUME SearchInv, stack # <<>>, Kept(Top), Expand,
           NEW i \in DOMAIN Extensions(Top), NEW x, x = Extensions(Top)[i]
    PROVE  Kept(x)'
<1> DEFINE n == Len(Top)
<1>1. Top \in Seq(Nodes) /\ Top # <<>>
  BY PopEffect DEF SearchInv
<1>2. n \in Nat \ {0} /\ End(Top) \in Nodes
  BY <1>1, EndInNodes
<1>3. graph[End(Top)][i] \in Nodes /\ i \in DOMAIN graph[End(Top)]
  BY <1>1, <1>2, ExtensionEffect, ListIsSeq DEF SearchInv
<1>4. x = Append(Top, graph[End(Top)][i])
  BY <1>3 DEF Extensions
<1>5. Len(x) = n + 1 /\ x[n + 1] = graph[End(Top)][i] /\ \A j \in 1..n : x[j] = Top[j]
  BY <1>1, <1>2, <1>3, <1>4, AppendProperties
<1>6. <<End(Top), graph[End(Top)][i]>> \in Edges
  BY <1>2, <1>3 DEF Edges
<1>7. UNCHANGED <<graph, start>> /\ visited' = visited \cup {End(Top)} /\ End(Top) \notin visited
  BY DEF Expand, Seen
<1>8. UNCHANGED Edges
  BY <1>7 DEF Edges
<1>9. /\ Top[1] = start
      /\ \A j \in 1..n - 1 : <<Top[j], Top[j + 1]>> \in Edges
      /\ \A j, k \in 1..n : Top[j] = Top[k] => j = k
  BY <1>1, <1>7, KeptIsSimple
<1>10. \A j \in 1..n : Top[j] \in visited'
  <2> TAKE j \in 1..n
  <2>1. CASE j = n
    BY <2>1, <1>7 DEF End
  <2>2. CASE j # n
    <3>1. j \in 1..n - 1
      BY <2>2, <1>2
    <3> QED BY <3>1, <1>7 DEF Kept
  <2> QED BY <2>1, <2>2
<1>11. x[1] = start
  BY <1>2, <1>5, <1>9
<1>12. \A j \in 1..n : x[j] \in visited' /\ <<x[j], x[j + 1]>> \in Edges
  <2> TAKE j \in 1..n
  <2>1. CASE j = n
    BY <2>1, <1>2, <1>5, <1>6, <1>10 DEF End
  <2>2. CASE j # n
    BY <2>2, <1>2, <1>5, <1>9, <1>10
  <2> QED BY <2>1, <2>2
<1>13. \A j, k \in 1..n : x[j] = x[k] => j = k
  BY <1>5, <1>9
<1>14. Len(x) - 1 = n
  BY <1>2, <1>5
<1> QED BY <1>7, <1>8, <1>11, <1>12, <1>13, <1>14 DEF Kept

LEMMA PathStep == PathInv /\ [Next]_vars => PathInv'
<1> SUFFICES ASSUME PathInv, [Next]_vars PROVE PathInv'
  OBVIOUS
<1> USE DEF PathInv
<1>1. SearchInv'
  BY SearchStep
<1>2. ASSUME stack # <<>>
      PROVE  /\ Top \in Seq(Nodes) /\ Top # <<>> /\ Kept(Top)
             /\ \A i \in DOMAIN Rest : Kept(Rest[i])
  <2>1. stack \in Seq(Seq(Nodes)) /\ Len(stack) \in DOMAIN stack
    BY <1>2, EmptySeq, LenProperties DEF SearchInv, TypeOK
  <2> QED BY <1>2, <2>1, PopEffect DEF SearchInv, Top
<1>3. ASSUME UNCHANGED <<graph, start, visited>>, NEW path, Kept(path) PROVE Kept(path)'
  BY <1>3 DEF Kept, Edges
<1> DEFINE AllKept == \A i \in DOMAIN stack : Kept(stack[i])
<1>0. ASSUME \A i \in DOMAIN stack' : \A path : path = stack'[i] => Kept(path)'
      PROVE  AllKept'
  BY <1>0 DEF Kept
<1> HIDE DEF AllKept
<1>4. CASE Arrive
  <2>1. stack # <<>> /\ UNCHANGED <<graph, start, target, visited>> /\ found' = Top /\ stack' = Rest
        /\ End(Top) = target /\ found = <<>>
    BY <1>4 DEF Arrive, Searching
  <2>2. AllKept'
    BY <1>0, <1>2, <1>3, <2>1
  <2>3. End(Top) \notin visited
    BY <2>1 DEF SearchInv, FrontierComplete
  <2>4. /\ Top[1] = start
        /\ \A i \in 1..Len(Top) - 1 : <<Top[i], Top[i + 1]>> \in Edges
        /\ \A i, j \in 1..Len(Top) : Top[i] = Top[j] => i = j
    BY <1>2, <2>1, <2>3, KeptIsSimple
  <2>5. PathIsReal'
    BY <2>1, <2>4 DEF PathIsReal, Edges, End
  <2> QED BY <1>1, <2>2, <2>5 DEF AllKept
<1>5. CASE Skip
  <2>1. stack # <<>> /\ UNCHANGED <<graph, start, target, visited, found>> /\ stack' = Rest
    BY <1>5 DEF Skip, Searching
  <2>2. AllKept'
    BY <1>0, <1>2, <1>3, <2>1
  <2>3. PathIsReal'
    BY <2>1 DEF PathIsReal, Edges, End
  <2> QED BY <1>1, <2>2, <2>3 DEF AllKept
<1>6. CASE Expand
  <2>1. stack # <<>> /\ UNCHANGED <<graph, start, target, found>> /\ stack' = Push(Top)
        /\ visited' = visited \cup {End(Top)} /\ found = <<>>
    BY <1>6 DEF Expand, Searching
  <2>2. ASSUME NEW path, Kept(path) PROVE Kept(path)'
    BY <2>1, <2>2 DEF Kept, Edges
  <2>3. \A i \in DOMAIN Extensions(Top) : \A x : x = Extensions(Top)[i] => Kept(x)'
    BY <1>2, <1>6, <2>1, ExtensionKept
  <2>4. AllKept'
    BY <1>0, <1>2, <2>1, <2>2, <2>3, PushEffect DEF SearchInv
  <2>5. PathIsReal'
    BY <2>1 DEF PathIsReal
  <2> QED BY <1>1, <2>4, <2>5 DEF AllKept
<1>7. CASE UNCHANGED vars
  BY <1>1, <1>3, <1>7 DEF vars, PathIsReal, Edges, End
<1> QED BY <1>4, <1>5, <1>6, <1>7 DEF Next

\* The path that is reported is a simple path of the graph from the callee
\* to the caller.
THEOREM PathCorrect == Spec => []PathIsReal
<1>1. Init => PathInv
  <2>1. ASSUME Init PROVE stack = <<<<start>>>> /\ found = <<>>
    BY <2>1 DEF Init
  <2> QED BY <2>1, SearchInit DEF PathInv, Kept, PathIsReal
<1>2. PathInv => PathIsReal
  BY DEF PathInv
<1> QED BY <1>1, <1>2, PathStep, PTL DEF Spec

-----------------------------------------------------------------------------
(* The work *)

LEMMA EdgesFinite ==
    ASSUME NEW S \in SUBSET Nodes
    PROVE  IsFiniteSet(EdgesOf(S)) /\ Cardinality(EdgesOf(S)) \in Nat
<1>1. IsFiniteSet(S \X (1..MaxEdges))
  <2>1. IsFiniteSet(S)
    BY FS_Subset, NodesAssumption
  <2>2. IsFiniteSet(1..MaxEdges)
    BY FS_Interval, MaxEdgesAssumption
  <2> QED BY <2>1, <2>2, FS_Product
<1>2. EdgesOf(S) \in SUBSET (S \X (1..MaxEdges))
  BY DEF EdgesOf
<1> QED BY <1>1, <1>2, FS_Subset, FS_CardinalityType

\* The entries in one more list come on top of those counted before.
LEMMA OneMoreList ==
    ASSUME TypeOK, NEW n \in Nodes, n \notin visited
    PROVE  Cardinality(EdgesOf(visited \cup {n})) = Cardinality(EdgesOf(visited)) + Len(graph[n])
<1> DEFINE new == {n} \X (1..Len(graph[n]))
<1>1. /\ DOMAIN graph[n] = 1..Len(graph[n]) /\ Len(graph[n]) \in 0..MaxEdges
      /\ visited \in SUBSET Nodes
  <2>0. graph[n] \in Lists
    BY DEF TypeOK
  <2>1. PICK m \in 0..MaxEdges : graph[n] \in [1..m -> Nodes]
    BY <2>0, Zenon DEF Lists
  <2>2. m \in Nat /\ DOMAIN graph[n] = 1..m
    BY <2>1, MaxEdgesAssumption
  <2>3. Len(graph[n]) = m
    BY <2>1, <2>2, ListIsSeq
  <2> QED BY <2>2, <2>3 DEF TypeOK
<1>2. IsFiniteSet(new) /\ Cardinality(new) = Len(graph[n])
  <2> DEFINE k == Len(graph[n])
  <2>1. k \in Nat
    BY <1>1, MaxEdgesAssumption
  <2>2. IsFiniteSet({n}) /\ Cardinality({n}) = 1
    BY FS_Singleton
  <2> HIDE DEF k
  <2>3. IsFiniteSet(1..k) /\ Cardinality(1..k) = k
    BY <2>1, FS_Interval
  <2>4. IsFiniteSet({n} \X (1..k)) /\ Cardinality({n} \X (1..k)) = Cardinality({n}) * Cardinality(1..k)
    BY <2>2, <2>3, FS_Product, Zenon
  <2>5. 1 * k = k
    BY <2>1
  <2> QED BY <2>2, <2>3, <2>4, <2>5, Zenon DEF k
<1>3. EdgesOf(visited \cup {n}) = EdgesOf(visited) \cup new
  BY <1>1, MaxEdgesAssumption DEF EdgesOf
<1>4. EdgesOf(visited) \cap new = {}
  BY DEF EdgesOf
<1>5. IsFiniteSet(EdgesOf(visited)) /\ Cardinality(EdgesOf(visited)) \in Nat
  BY <1>1, EdgesFinite
<1> HIDE DEF new
<1>6. Cardinality(EdgesOf(visited) \cup new)
        = Cardinality(EdgesOf(visited)) + Cardinality(new) - Cardinality(EdgesOf(visited) \cap new)
  BY <1>2, <1>5, FS_Union
<1>7. Cardinality(EdgesOf(visited) \cap new) = 0
  BY <1>4, FS_EmptySet
<1>8. Len(graph[n]) \in Nat
  BY <1>1, MaxEdgesAssumption
<1>9. \A a, k \in Nat : a + k - 0 = a + k
  OBVIOUS
<1> QED BY <1>2, <1>3, <1>5, <1>6, <1>7, <1>8, <1>9, Zenon

LEMMA WorkStep == WorkInv /\ [Next]_vars => WorkInv'
<1> SUFFICES ASSUME WorkInv, [Next]_vars PROVE WorkInv'
  OBVIOUS
<1> USE DEF WorkInv
<1>1. SearchInv'
  BY SearchStep
<1>2. ASSUME stack # <<>>
      PROVE  /\ Top \in Seq(Nodes) /\ Top # <<>> /\ End(Top) \in Nodes
             /\ Rest \in Seq(Seq(Nodes)) /\ Len(Rest) = Len(stack) - 1 /\ Len(stack) \in Nat
  <2>1. stack \in Seq(Seq(Nodes)) /\ Len(stack) \in Nat \ {0}
    BY <1>2, EmptySeq DEF SearchInv, TypeOK
  <2>2. Top \in Seq(Nodes) /\ Top # <<>> /\ Rest \in Seq(Seq(Nodes))
    BY <1>2, PopEffect DEF SearchInv
  <2>3. Len(Rest) = Len(stack) - 1
    BY <1>2, PopEffect DEF SearchInv
  <2> QED BY <2>1, <2>2, <2>3, EndInNodes
<1>3. pops \in Nat /\ visited \in SUBSET Nodes /\ Cardinality(EdgesOf(visited)) \in Nat
  BY EdgesFinite DEF SearchInv, TypeOK
<1>4. CASE Arrive \/ Skip
  <2>1. stack # <<>> /\ UNCHANGED <<graph, visited>> /\ stack' = Rest /\ pops' = pops + 1
    BY <1>4 DEF Arrive, Skip, Searching
  <2>2. UNCHANGED EdgesOf(visited)
    BY <2>1 DEF EdgesOf
  <2>3. Cardinality(EdgesOf(visited)') = Cardinality(EdgesOf(visited))
    BY <2>2
  <2>4. Len(stack') = Len(stack) - 1 /\ Len(stack) \in Nat
    BY <1>2, <2>1
  <2>5. pops' + Len(stack') = pops + Len(stack)
    BY <1>3, <2>1, <2>4
  <2> QED BY <1>1, <2>3, <2>5
<1>5. CASE Expand
  <2>1. /\ stack # <<>> /\ UNCHANGED graph /\ stack' = Push(Top) /\ pops' = pops + 1
        /\ visited' = visited \cup {End(Top)} /\ End(Top) \notin visited
    BY <1>5 DEF Expand, Searching, Seen
  <2>2. EdgesOf(visited)' = EdgesOf(visited \cup {End(Top)})
    BY <2>1 DEF EdgesOf
  <2>3. Cardinality(EdgesOf(visited)') = Cardinality(EdgesOf(visited)) + Len(graph[End(Top)])
    BY <1>2, <2>1, <2>2, OneMoreList DEF SearchInv
  <2>4. /\ Extensions(Top) \in Seq(Seq(Nodes)) /\ DOMAIN Extensions(Top) = DOMAIN graph[End(Top)]
        /\ DOMAIN graph[End(Top)] = 1..Len(graph[End(Top)]) /\ Len(graph[End(Top)]) \in Nat
    BY <1>2, <2>1, ExtensionEffect, ListIsSeq DEF SearchInv
  <2>5. Len(Extensions(Top)) = Len(graph[End(Top)])
    BY <2>4, LenProperties
  <2>6. Len(Rest \o Extensions(Top)) = Len(Rest) + Len(Extensions(Top))
    BY <1>2, <2>1, <2>4, ConcatProperties
  <2>7. Len(stack') = Len(stack) - 1 + Len(graph[End(Top)]) /\ Len(stack) \in Nat
    BY <1>2, <2>1, <2>5, <2>6 DEF Push
  <2>9. pops \in Nat /\ Len(stack) \in Nat /\ Len(graph[End(Top)]) \in Nat
        /\ Cardinality(EdgesOf(visited)) \in Nat
    BY <1>3, <2>4, <2>7
  <2>10. (pops + 1) + (Len(stack) - 1 + Len(graph[End(Top)]))
           = 1 + (Cardinality(EdgesOf(visited)) + Len(graph[End(Top)]))
    <3>1. pops + Len(stack) = 1 + Cardinality(EdgesOf(visited))
      BY DEF WorkInv
    <3>2. PICK p \in Nat, l \in Nat, c \in Nat, k \in Nat :
            p = pops /\ l = Len(stack) /\ c = Cardinality(EdgesOf(visited)) /\ k = Len(graph[End(Top)])
      BY <2>9, Zenon
    <3>3. p + l = 1 + c
      BY <3>1, <3>2, Zenon
    <3>4. (p + 1) + (l - 1 + k) = 1 + (c + k)
      BY <3>3
    <3> QED BY <3>2, <3>4, Zenon
  <2>11. pops' = pops + 1 /\ Len(stack') = Len(stack) - 1 + Len(graph[End(Top)])
    BY <2>1, <2>7
  <2>12. pops' + Len(stack') = 1 + Cardinality(EdgesOf(visited)')
    BY <2>3, <2>10, <2>11, Zenon
  <2> QED BY <1>1, <2>12
<1>6. CASE UNCHANGED vars
  BY <1>1, <1>6 DEF vars, EdgesOf
<1> QED BY <1>4, <1>5, <1>6 DEF Next

\* The search pops one path for the start and at most one for each entry of
\* the graph.
THEOREM WorkCorrect == Spec => []WorkIsLinear
<1>1. Init => WorkInv
  <2>1. ASSUME Init PROVE stack = <<<<start>>>> /\ visited = {} /\ pops = 0
    BY <2>1 DEF Init
  <2>2. EdgesOf({}) = {}
    BY DEF EdgesOf
  <2> QED BY <2>1, <2>2, SearchInit, FS_EmptySet DEF WorkInv
<1>2. WorkInv => WorkIsLinear
  <2> SUFFICES ASSUME WorkInv PROVE WorkIsLinear
    OBVIOUS
  <2>1. visited \in SUBSET Nodes /\ pops \in Nat /\ Len(stack) \in Nat
    BY DEF WorkInv, SearchInv, TypeOK
  <2>2. EdgesOf(visited) \in SUBSET EdgesOf(Nodes)
    BY <2>1 DEF EdgesOf
  <2>3. IsFiniteSet(EdgesOf(Nodes)) /\ Cardinality(EdgesOf(Nodes)) \in Nat
    BY EdgesFinite
  <2>4. Cardinality(EdgesOf(visited)) <= Cardinality(EdgesOf(Nodes))
    BY <2>2, <2>3, FS_Subset
  <2>5. Cardinality(EdgesOf(visited)) \in Nat
    BY <2>1, EdgesFinite
  <2> QED BY <2>1, <2>3, <2>4, <2>5 DEF WorkInv, WorkIsLinear
<1> QED BY <1>1, <1>2, WorkStep, PTL DEF Spec
=============================================================================
