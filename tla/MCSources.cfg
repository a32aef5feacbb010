SPECIFICATION Spec
CONSTANTS
    Sources = {s1, s2}
    Skip = Skip
    Recordings <- MCRecordings
    Room = 1
    Retry = 1
    MaxLines = 2
    MaxFails = 1
CHECK_DEADLOCK FALSE
INVARIANT NoneEarly
PROPERTY FollowsLinks
PROPERTY StopsWithHub
PROPERTY CarriesOn
