SPECIFICATION LiveSpec
CONSTANTS
    None = None
    Keys <- MCKeys
    Entries = {"mirror1"}
    CloseOf <- MCCloseOf
    Payloads = {p1}
    Callers = {s, a}
    Traders <- MCTraders
    MaxResumes = 1
    Days = 2
    MaxEvents = 1
    Operator = {"pause", "kill", "resume"}
    Faults = {"refuse", "giveup", "drop", "alpaca", "lookup", "etoro", "mirror"}
INVARIANTS ResumesBounded TripsOnce
PROPERTIES SubmitsAtMostOnce BreakerHeals
CHECK_DEADLOCK FALSE
