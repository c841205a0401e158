SPECIFICATION LiveSpec
CONSTANTS
    Commands = {"scan", "deep", "status", "cancel", "other"}
    MaxUpdates = 3
    Batch = 2
    MaxCrashes = 1
    MaxErrors = 1
    MaxPools = 3
CHECK_DEADLOCK FALSE
INVARIANTS TakenOnce
PROPERTIES RefusedIsBusy CommandsAreAnswered
