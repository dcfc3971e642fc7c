---------------------------- MODULE Reachability ----------------------------
(***************************************************************************)
(* Paths and cycles of a relation E, a set of pairs over the nodes N,      *)
(* without recursion: what is reached from x is what lies in every set     *)
(* that holds x and that no edge leaves.                                   *)
(***************************************************************************)

Closed(S, E) == \A e \in E : e[1] \in S => e[2] \in S

\* A path of zero or more edges leads from x to y.
Reaches(N, E, x, y) == \A S \in SUBSET N : x \in S /\ Closed(S, E) => y \in S

\* No set of nodes in which every node has a successor: over a finite N, no
\* cycle.
Acyclic(N, E) ==
    \A S \in (SUBSET N) \ {{}} : \E x \in S : \A y \in S : <<x, y>> \notin E
=============================================================================
