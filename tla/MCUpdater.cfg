SPECIFICATION FairSpec
CONSTANTS
    Updates <- AllUpdates
    InstallSettle = 1
    InstallMax = 1
    Prove = 1
    JournalMax = 4
    MaxTries = 2
    MaxFloor = 1
    MaxDelay = 2
    SinceCap = 2
INVARIANTS
    TypeOK
    CommitMeansInstalled
    TriesTheWayBack
PROPERTIES
    Transactional
    UpdateEnds
CHECK_DEADLOCK FALSE
