CONSTANTS
    StaleAfter = 2
    Horizon = 6
    MaxHeard = 4
    Positions <- MCPositions
SPECIFICATION HSpec
CHECK_DEADLOCK FALSE
INVARIANT SpeedIsCurrent
