SPECIFICATION LiveSpec
CONSTANTS
    Proposals = {p1}
    Symbols = {s1}
    SymbolOf <- OneSymbol
    QueueIds = {q1}
    ExecIds = {e1, e2}
    t1 = t1
    t2 = t2
    procA = procA
    procB = procB
    Threads = {t1, t2}
    Procs = {procA, procB}
    ProcOf <- OneProcess
    Route = "alpaca"
    Fallback = FALSE
    Requests = {"list", "approve", "reject", "enqueue", "process"}
    Events = {"lost", "halt", "expiry"}
CHECK_DEADLOCK FALSE
INVARIANTS DoneItemReleasesSymbol
PROPERTIES NoResubmission QueuedItemIsPickedUp ClaimedItemIsResolved
