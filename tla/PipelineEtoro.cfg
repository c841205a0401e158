SPECIFICATION Spec
CONSTANTS
    Proposals = {p1}
    Symbols = {s1}
    SymbolOf <- OneSymbol
    QueueIds = {q1, q2}
    ExecIds = {e1, e2, e3}
    t1 = t1
    t2 = t2
    procA = procA
    procB = procB
    Threads = {t1, t2}
    Procs = {procA, procB}
    ProcOf <- OneProcess
    Route = "etoro"
    Fallback = TRUE
    Requests = {"approve", "enqueue", "process"}
    Events = {"crash", "slow"}
CHECK_DEADLOCK FALSE
INVARIANTS OneLiveOrderPerProposal
SYMMETRY Symmetry
