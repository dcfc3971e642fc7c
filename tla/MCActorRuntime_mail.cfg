CONSTANTS
    t1 = t1  t2 = t2  a1 = a1  p1 = p1  p2 = p2  q1 = q1  s1 = s1  z1 = z1
    Null = Null
    Calls = {t2, a1, s1}
    Op <- MCOp
    Chan <- MCChan
    Timed <- MCTimed
    Cap <- MCCapMail2
    HasPrio = TRUE
    HasIdle = TRUE
    Streams = {z1}
    SubCap = 1
SPECIFICATION Spec
INVARIANTS
    NoLostWakeup
    OutcomeMatchesFate
    NoDoubleCount
    NoSilentLoss
    StoppedIsQuiet
    ServedOnceBelow
PROPERTIES
    ImplementsContract
CHECK_DEADLOCK FALSE
