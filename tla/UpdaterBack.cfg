SPECIFICATION Spec
CONSTANTS
    Updates <- BrokenOnly
    InstallSettle = 1
    InstallMax = 2
    Prove = 1
    JournalMax = 7
    MaxTries = 2
    MaxFloor = 1
    MaxDelay = 2
    SinceCap = 3
INVARIANTS
    BackMeansInstalled
CHECK_DEADLOCK FALSE
