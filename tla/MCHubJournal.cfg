CONSTANTS
    NumSources = 1
    Messages = {refused, closed, broken}
    MessagesPerOutage = 2
    StaleAfter = 2
    StillTalking = 1
    QuietHold = 1
    RecordLimit = 1
    Recorded = FALSE
    Lateness = 1
    Horizon = 7
    Positions <- GoodAndVoid
SPECIFICATION Spec
SYMMETRY Alike
CHECK_DEADLOCK FALSE
INVARIANTS
    EachOnceAnOutage
    OutageIsTold
    QuietOnTime
    ConnectedIsExact
    ShownOnTime
PROPERTY RecoveryIsTold
