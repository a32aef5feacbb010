CONSTANTS
    Mmsis = {m1, m2, m3}
    MAX_VESSELS = 2
    LOST_AFTER = 2
    Fields = {name, callsign}
    Values = {v1, v2}
    Lateness = 0
    Horizon = 3
SPECIFICATION Spec
SYMMETRY Alike
CHECK_DEADLOCK FALSE
INVARIANTS
    AllAboutAreKept
    PlacedIsKept
    LostLeavesOnTime
    SaysItsLast
