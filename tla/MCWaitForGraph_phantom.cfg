CONSTANTS
    A = A  B = B  D = D
    ab = ab  ab2 = ab2  ba = ba  aa = aa  bd = bd  da = da
    Null = Null
    Actors = {A, B}
    Asks = {ab, ba}
    Priority = {ab}
    Room = 1
    MaxOut = 2
    Caller <- MCCaller
    Callee <- MCCallee
SPECIFICATION Spec
PROPERTIES
    PanicIsDeadlock
CHECK_DEADLOCK FALSE
