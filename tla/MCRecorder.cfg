CONSTANTS
    RecordLimit = 2
    SyncEvery = 2
    ShutdownWait = 1
    MaxLines = 5
    Horizon = 6
SPECIFICATION Spec
CHECK_DEADLOCK FALSE
INVARIANTS
    NothingReordered
    SyncedOnTime
PROPERTY IsDurableLog
