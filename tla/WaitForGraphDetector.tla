------------------------ MODULE WaitForGraphDetector ------------------------
(* WaitForGraph implements AskDetector under this refinement mapping.        *)
EXTENDS WaitForGraph

\* An edge is in from its registration until the entry is erased: a swapped
\* flag, or a lock that is held, takes nothing out yet.
EdgeState(c) ==
    IF fut[c] \in {"new", "refused"} THEN fut[c]
    ELSE IF InGraph(c) THEN "in" ELSE "out"
DetectorEdge == [c \in Asks |-> EdgeState(c)]
DetectorWaiting == {c \in Asks : Waits(c)}

Detector == INSTANCE AskDetector WITH edge <- DetectorEdge, waiting <- DetectorWaiting

\* The mutex, the count of each pair of actors, the flag and the two owners of
\* an edge act as one atomic set of edges: the check and the insertion are one
\* step, and each edge leaves once, when nobody waits on it any more
\* (deadlock.rs, register_ask_edge and AskEdge::remove_once).
ImplementsDetector == Detector!Spec
=============================================================================
