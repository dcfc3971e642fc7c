CONSTANTS
    A = A  B = B  D = D
    ab = ab  ab2 = ab2  ba = ba  aa = aa  bd = bd  da = da
    Null = Null
    Actors = {A, B, D}
    Asks = {ab, bd, da, aa}
    Priority = {}
    Room = 1
    MaxOut = 2
    Caller <- MCCaller
    Callee <- MCCallee
SPECIFICATION Spec
INVARIANTS
    NoDeadlockedSet
PROPERTIES
    ImplementsDetector
    PanicIsDeadlock
CONSTRAINT FewOut
CHECK_DEADLOCK FALSE
