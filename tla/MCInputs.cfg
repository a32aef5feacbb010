SPECIFICATION Spec
CONSTANTS
    Sentences <- MCSentences
    Angles <- MCAngles
    Times <- MCTimes
    AisMessages <- MCAisMessages
    HubMessages <- MCHubMessages
    Values <- MCValues
    Tracks <- MCTracks
    Ages = {0, 1, 3}
    Table = 3
    Ranges <- MCRanges
    NotFinite = NotFinite
    MaxCount = 300
    Round = 8
    Width <- MCWidth
    Direction <- MCDirection
    Stopped = 1
    DANGER_CPA = 1
    DANGER_TCPA = 2
    LostAfter = 3
    Grain = 2
CHECK_DEADLOCK FALSE
INVARIANT DamageIsCaught
INVARIANT PositionAsSent
INVARIANT WholeOrNothing
INVARIANT HubIsRead
INVARIANT NeverMisread
INVARIANT ClosestIsClosest
INVARIANT OneOrder
