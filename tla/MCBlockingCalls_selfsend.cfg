CONSTANTS
    c1 = c1  c2 = c2  c3 = c3
    Null = Null
    Calls = {c1, c2, c3}
    Reqs <- MCReqs
    Cap <- MCCap
SPECIFICATION Spec
PROPERTIES
    SelfSendPanicIsDeadlock
CHECK_DEADLOCK FALSE
