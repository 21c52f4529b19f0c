SPECIFICATION FairSpec
CONSTANTS
    Jobs = {a, b}
    NoJob = NoJob
    MaxRuns = 2
    MaxInputs = 2
    Capacity = 2
INVARIANTS
    TypeOK
    OneWorker
    SignalsMatch
    CleanupWaits
    NothingStranded
    BuffersHeld
PROPERTIES
    AnswerArrives
    ExitEnds
CHECK_DEADLOCK FALSE
