SPECIFICATION Spec
CONSTANTS
    a = a
    b = b
    Procs = {a}
    Symbols = {a}
    MaxOrders = 2
    DailyCap = 1
    OpenCap = 2
    FlatReads = 2
    ReadFailures = 2
    MaxNow = 3
    OpenTimes = {0, 2}
    Faults = {"safety","timeout","reject","refuse","gate","clear","misread","read","raise","crash"}
    MaxFaults = 1
INVARIANTS StopKept DailyCapHolds OnePerSymbol CopiedExitIsStrategy CardFollowsPosition
CHECK_DEADLOCK FALSE
