SPECIFICATION Spec
CONSTANTS
    Proposals = {p1}
    Symbols = {s1}
    SymbolOf <- OneSymbol
    QueueIds = {q1}
    ExecIds = {e1, e2}
    t1 = t1
    t2 = t2
    procA = procA
    procB = procB
    Threads = {t1, t2}
    Procs = {procA, procB}
    ProcOf <- TwoProcesses
    Route = "alpaca"
    Fallback = FALSE
    Requests = {"approve", "enqueue", "execute", "process"}
    Events = {"crash", "error", "lost", "slow"}
CHECK_DEADLOCK FALSE
INVARIANTS TypeOK OrderRecordedOnce ExecutedHasOwnExecution
SYMMETRY Symmetry
