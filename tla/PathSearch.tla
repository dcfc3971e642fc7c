----------------------------- MODULE PathSearch -----------------------------
(***************************************************************************)
(* The depth-first search of the wait-for graph: find_path, which keeps a  *)
(* stack of partial paths, and has_path, which keeps of each path only its *)
(* end and runs through the same steps.  WaitForGraph takes the answer to  *)
(* be Reaches; here is why it may.                                         *)
(***************************************************************************)
EXTENDS Naturals, Sequences, FiniteSets, Reachability

CONSTANTS
    Nodes,      \* actor identities
    MaxEdges    \* bound of this model: entries in one actor's Vec

ASSUME MaxEdgesAssumption == MaxEdges \in Nat
ASSUME NodesAssumption    == IsFiniteSet(Nodes)

Lists == UNION {[1..n -> Nodes] : n \in 0..MaxEdges}

VARIABLES
    graph,      \* the Vec of callees under each key, empty for an absent key
    start, target,
    stack,      \* partial paths still to be followed, the top one last
    visited,    \* nodes whose edges were pushed
    found,      \* the path returned, <<>> while there is none
    pops        \* history: paths popped so far

vars == <<graph, start, target, stack, visited, found, pops>>

Edges == {e \in Nodes \X Nodes : \E i \in DOMAIN graph[e[1]] : graph[e[1]][i] = e[2]}

End(path) == path[Len(path)]

TypeOK ==
    /\ graph \in [Nodes -> Lists]
    /\ start \in Nodes /\ target \in Nodes
    /\ stack \in Seq(Seq(Nodes))
    /\ visited \subseteq Nodes
    /\ found \in Seq(Nodes)
    /\ pops \in Nat

\* Called with the callee and the caller of a new ask, which differ: the
\* self-ask was checked before.
Init ==
    /\ graph \in [Nodes -> Lists]
    /\ start \in Nodes
    /\ target \in Nodes \ {start}
    /\ stack = <<<<start>>>>
    /\ visited = {}
    /\ found = <<>>
    /\ pops = 0

Top == stack[Len(stack)]
Rest == SubSeq(stack, 1, Len(stack) - 1)

Extensions(path) ==
    LET edges == graph[End(path)]
    IN  [i \in DOMAIN edges |-> Append(path, edges[i])]

\* Mutant: a node is expanded each time it is popped.
MutSeen(n) == FALSE
\* HashSet::insert returned false.
Seen(n) == n \in visited

\* Mutant: the new paths replace the stack.
MutPush(path) == Extensions(path)
\* Mutant: the paths are pushed without their first node.
MutExtend(path) == Rest \o [i \in DOMAIN graph[End(path)] |-> <<graph[End(path)][i]>>]
Push(path) == Rest \o Extensions(path)

Searching == found = <<>> /\ stack # <<>>

Arrive ==
    /\ Searching
    /\ End(Top) = target
    /\ found' = Top
    /\ stack' = Rest
    /\ pops' = pops + 1
    /\ UNCHANGED <<graph, start, target, visited>>

Skip ==
    /\ Searching
    /\ End(Top) # target
    /\ Seen(End(Top))
    /\ stack' = Rest
    /\ pops' = pops + 1
    /\ UNCHANGED <<graph, start, target, visited, found>>

Expand ==
    /\ Searching
    /\ End(Top) # target
    /\ ~Seen(End(Top))
    /\ visited' = visited \cup {End(Top)}
    /\ stack' = Push(Top)
    /\ pops' = pops + 1
    /\ UNCHANGED <<graph, start, target, found>>

Next == Arrive \/ Skip \/ Expand

Spec == Init /\ [][Next]_vars

-----------------------------------------------------------------------------
(* Properties *)

\* A search that is over has found a path exactly when there is one
\* (has_path, deadlock.rs:227-244; find_path, 271-295).
AnswerIsReachability ==
    ~Searching => (found # <<>> <=> Reaches(Nodes, Edges, start, target))

\* The path in the panic message is a cycle once the new edge is put in front
\* of it: edges of the graph from the callee to the caller, no node twice
\* (format_cycle_path, deadlock.rs:251-266).
PathIsReal ==
    found # <<>> =>
        /\ found[1] = start /\ End(found) = target
        /\ \A i \in 1..Len(found) - 1 : <<found[i], found[i + 1]>> \in Edges
        /\ \A i, j \in 1..Len(found) : found[i] = found[j] => i = j

\* The entries in the lists of S.
EdgesOf(S) == {e \in S \X (1..MaxEdges) : e[2] \in DOMAIN graph[e[1]]}

\* No edge is followed twice, whatever branches or cycles the graph has
\* (deadlock.rs:222-224, "cannot cause unbounded traversal").
WorkIsLinear == pops <= 1 + Cardinality(EdgesOf(Nodes))

-----------------------------------------------------------------------------
(* The inductive invariant *)

Covered(n) == n \in visited \/ \E i \in DOMAIN stack : End(stack[i]) = n

\* A path that is kept ends at a node that start reaches.
StackReached ==
    \A i \in DOMAIN stack : stack[i] # <<>> /\ Reaches(Nodes, Edges, start, End(stack[i]))

\* What is visited leads only to what is visited or still to be followed.
FrontierComplete ==
    found = <<>> =>
        /\ Covered(start)
        /\ target \notin visited
        /\ \A e \in Edges : e[1] \in visited => Covered(e[2])

FoundReached == found # <<>> => Reaches(Nodes, Edges, start, target)

\* What is left on the stack and what was visited decide the answer.
SearchInv == TypeOK /\ StackReached /\ FrontierComplete /\ FoundReached

\* A path that is kept comes from start over nodes that were all expanded,
\* each of them once; only its end may be any node.
Kept(path) ==
    /\ path[1] = start
    /\ \A i \in 1..Len(path) - 1 : path[i] \in visited /\ <<path[i], path[i + 1]>> \in Edges
    /\ \A i, j \in 1..Len(path) - 1 : path[i] = path[j] => i = j

PathInv == SearchInv /\ (\A i \in DOMAIN stack : Kept(stack[i])) /\ PathIsReal

\* Every path pushed was popped or is still there.
WorkInv == SearchInv /\ pops + Len(stack) = 1 + Cardinality(EdgesOf(visited))
=============================================================================
