SPECIFICATION LiveSpec
CONSTANTS
    a = a
    b = b
    Procs = {a}
    Symbols = {a}
    MaxOrders = 1
    DailyCap = 1
    OpenCap = 2
    FlatReads = 2
    ReadFailures = 2
    MaxNow = 0
    OpenTimes = {0}
    Faults = {"low","bare","close","limit","kill","crash"}
    MaxFaults = 1
PROPERTIES ExitIsCopied LowIsClosed BareIsClosed
CHECK_DEADLOCK FALSE
