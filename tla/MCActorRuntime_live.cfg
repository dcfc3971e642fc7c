CONSTANTS
    t1 = t1  t2 = t2  a1 = a1  p1 = p1  p2 = p2  q1 = q1  s1 = s1  z1 = z1
    Null = Null
    Calls = {p1, q1, s1}
    Op <- MCOp
    Chan <- MCChan
    Timed <- MCTimed
    Cap <- MCCap
    HasPrio = TRUE
    HasIdle = FALSE
    Streams = {}
    SubCap = 1
SPECIFICATION FairSpec
INVARIANTS
    GracefulDrain
    StoppedIsQuiet
PROPERTIES
    KillEnds
    AskReturns
    SendReturns
    StopEnds
CHECK_DEADLOCK FALSE
