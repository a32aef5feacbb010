CONSTANTS
    NumSources = 1
    Messages = {"refused"}
    MessagesPerOutage = 1
    StaleAfter = 2
    StillTalking = 1
    QuietHold = 1
    RecordLimit = 2
    Recorded = TRUE
    Lateness = 0
    Horizon = 3
    Positions <- GoodOnly
SPECIFICATION Spec
CHECK_DEADLOCK FALSE
PROPERTY CatchUpIsTold
