SPECIFICATION LiveSpec
CONSTANTS
    Last = 2
    JobTimeout = 8
    Reserve = 2
    GuardSetup = 0
    ScanSetup = 1
    Prestart <- MCPrestart
    MinScan = 2
    Interval <- MCInterval
    LockTimeout = 9
    TickWait = 2
    MaxMaintain = 1
    MaxPre = 2
    MaxSetup = 2
    Overshoot = 1
    MaxPost = 1
INVARIANTS TypeOK BucketsFit AdmittedIsScanned
PROPERTIES DueIsScanned
