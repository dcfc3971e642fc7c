CONSTANTS
    n1 = n1  n2 = n2  n3 = n3
    Nodes = {n1, n2, n3}
    MaxEdges = 2
    r1 = r1  r2 = r2  r3 = r3
    Refs = {r1, r2, r3}
    First = r1
    Sides = {"prio", "idle"}
    Kinds = {"message", "idle"}
    Durations = {1, 9}
    Clocks = {0, 2}
    Flags = {"f", "g"}
    Blocks <- MCBlocks
    MaxU64 = 7
    MaxRecords = 2
SPECIFICATION PartsSpec
SYMMETRY Slots
INVARIANTS
    AnswerIsReachability
    PathIsReal
    WorkIsLinear
    DeadIsFinal
    NobodyLeftBehind
    SidesAgree
    AverageWithinMax
    QuietReadIsExact
    GeneratedFits
CHECK_DEADLOCK FALSE
