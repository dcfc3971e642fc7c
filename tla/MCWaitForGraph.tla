--------------------------- MODULE MCWaitForGraph ---------------------------
(* Instances of WaitForGraph for TLC: which actor asks which.               *)
EXTENDS WaitForGraphDetector

CONSTANTS A, B, D,                          \* actors
          ab, ab2, ba, aa, bd, da,          \* asks, named for caller and callee
          MaxOut                            \* bound: actors stopping, unwinding or down

MCCaller == [c \in Asks |-> CASE c \in {ab, ab2, aa} -> A
                              [] c \in {ba, bd} -> B
                              [] OTHER -> D]
MCCallee == [c \in Asks |-> CASE c \in {ab, ab2} -> B
                              [] c \in {ba, aa, da} -> A
                              [] OTHER -> D]

FewOut == Cardinality({x \in Actors : stopping[x] \/ up[x] # "running"}) <= MaxOut
=============================================================================
