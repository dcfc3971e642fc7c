CONSTANTS
    A = A  B = B  D = D
    ab = ab  ab2 = ab2  ba = ba  aa = aa  bd = bd  da = da
    Null = Null
    Actors = {A, B}
    Asks = {ab, ab2, ba}
    Priority = {ba}
    Room = 1
    MaxOut = 2
    Caller <- MCCaller
    Callee <- MCCallee
SPECIFICATION FairSpec
INVARIANTS
    EdgesMatchAsks
PROPERTIES
    TrackedAskReturns
CHECK_DEADLOCK FALSE
