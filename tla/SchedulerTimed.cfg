SPECIFICATION Spec
CONSTANTS
    N = 2
    Interval <- TwoUnits
    Timeout <- TwoUnits
    Tick = 1
    Stale = 3
    Grace = 2
    MaxTime = 14
    MaxGen = 2
CHECK_DEADLOCK FALSE
INVARIANTS NoOverlap BoundedWorkerNotHung NoStarvation
