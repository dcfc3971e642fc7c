CONSTANTS
    t1 = t1  t2 = t2  a1 = a1  p1 = p1  p2 = p2  q1 = q1  s1 = s1  z1 = z1
    Null = Null
    Calls = {a1}
    Op <- MCOp
    Chan <- MCChan
    Timed <- MCTimed
    Cap <- MCCap
    HasPrio = FALSE
    HasIdle = FALSE
    Streams = {}
    SubCap = 1
SPECIFICATION FairSpec
PROPERTIES
    AdmittedAskReturns
CHECK_DEADLOCK FALSE
