SPECIFICATION Spec
CONSTANTS
    Jobs = {a}
    NoJob = NoJob
    MaxRuns = 2
    MaxInputs = 1
    Capacity = 2
INVARIANTS
    BusyWhileWritten
CHECK_DEADLOCK FALSE
