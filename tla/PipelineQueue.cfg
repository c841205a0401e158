SPECIFICATION Spec
CONSTANTS
    Proposals = {p1, p2}
    Symbols = {s1}
    SymbolOf <- OneSymbol
    QueueIds = {q1, q2}
    ExecIds = {e1}
    t1 = t1
    t2 = t2
    procA = procA
    procB = procB
    Threads = {t1, t2}
    Procs = {procA, procB}
    ProcOf <- TwoProcesses
    Route = "alpaca"
    Fallback = FALSE
    Requests = {"approve", "enqueue", "process"}
    Events = {"slow", "lost"}
CHECK_DEADLOCK FALSE
INVARIANTS OneOpenItemPerSymbol ReferencesAgree ExecutedItemHasOrder
SYMMETRY Symmetry
