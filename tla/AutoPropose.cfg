SPECIFICATION Spec
CONSTANTS
    None = None
    Ids = {i1, i2}
    Symbols = {s1, s2}
    GroupOf <- MCGroupOf
    Threads = {t1}
    MaxTrades = 3
    MaxOpen = 2
    Heat = 2
    GroupCap = 2
    Leave = 1
    LeaveInGroup = 1
    MaxOnly = 2
    Events = {"human"}
    MaxFaults = 1
SYMMETRY Symmetry
INVARIANTS  OnlyLeavesPlaces OnlyNeverWaits
PROPERTIES OnlyAvoidsEtoro
