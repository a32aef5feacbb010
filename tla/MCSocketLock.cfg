CONSTANTS
    Hubs = {h1, h2, h3}
    MaxFiles = 7
SPECIFICATION LockSpec
SYMMETRY Alike
CHECK_DEADLOCK FALSE
INVARIANTS
    OneHub
    ServedAtPath
PROPERTY TakesOnlySockets
