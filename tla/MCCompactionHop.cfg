SPECIFICATION Spec
CONSTANTS
    Key = {1}
    NumLevels = 3
    MaxMemCompactLevel = 1
    MaxUpdates = 3
    MaxSnapshots = 1
INVARIANTS
    NeverHop
CHECK_DEADLOCK FALSE
