----------------------------- MODULE AskDetector -----------------------------
(***************************************************************************)
(* What the deadlock detector promises of the asks between actors, with no *)
(* mutex, no reference counts and no flags: an ask enters in one step,     *)
(* which looks for a path back to its caller and adds its edge, or is      *)
(* refused because there is one; its edge is taken out once, not before    *)
(* its caller has stopped waiting for it, and never comes back.            *)
(***************************************************************************)
EXTENDS Reachability

CONSTANTS Actors, Asks, Caller, Callee

VARIABLES
    edge,       \* each ask's edge: "new", "in", "out", or "refused"
    waiting     \* the asks that hold their callers up

vars == <<edge, waiting>>

EdgesIn == {<<Caller[c], Callee[c]>> : c \in {d \in Asks : edge[d] = "in"}}
WouldClose(c) == Reaches(Actors, EdgesIn, Callee[c], Caller[c])

Init ==
    /\ edge = [c \in Asks |-> "new"]
    /\ waiting = {}

\* An ask of an actor that is gone enters, and waits for nothing.
Enter(c) ==
    /\ edge[c] = "new" /\ ~WouldClose(c)
    /\ edge' = [edge EXCEPT ![c] = "in"]
    /\ waiting' \in {waiting, waiting \cup {c}}

Refuse(c) ==
    /\ edge[c] = "new" /\ WouldClose(c)
    /\ edge' = [edge EXCEPT ![c] = "refused"]
    /\ UNCHANGED waiting

\* Replies, timeouts, and the end of an actor, which frees all who wait for it.
StopWaiting ==
    /\ waiting' \in SUBSET waiting
    /\ UNCHANGED edge

TakeOut(c) ==
    /\ edge[c] = "in" /\ c \notin waiting
    /\ edge' = [edge EXCEPT ![c] = "out"]
    /\ UNCHANGED waiting

Next == StopWaiting \/ \E c \in Asks : Enter(c) \/ Refuse(c) \/ TakeOut(c)

Spec == Init /\ [][Next]_vars
=============================================================================
