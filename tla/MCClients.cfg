CONSTANTS
    Apps = {a1, a2}
    Queue = 3
    MaxState = 2
    MaxTargets = 1
SPECIFICATION Spec
INVARIANTS
    NothingSkipped
PROPERTIES
    NothingAfterTorn
    LeftIsLetGo
    Delivered
