CONSTANTS
    Keys = {k1, k2, k3}
    PENDING = 2
    MaxCount = 3
    MaxMessages = 3
    MaxNoise = 1
SPECIFICATION HSpec
CHECK_DEADLOCK FALSE
SYMMETRY Alike
INVARIANTS
    TypeOK
    NeverWithAHole
    JoinedOverLossOnly
PROPERTY ArrivedIsJoined
