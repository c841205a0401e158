SPECIFICATION LiveSpec
CONSTANTS
    N = 1
    Slices = 2
    SliceOf <- ByKind
    WriteBudget = 1
    Attempts = 2
    Threshold = 2
    MaxFaults = 2
INVARIANTS BookedIsReal
PROPERTIES RowsConverge BareIsHandled
