SPECIFICATION Spec
CONSTANTS
    Key = {1, 2, 3}
    NumLevels = 2
    MaxMemCompactLevel = 1
    MaxUpdates = 5
    MaxSnapshots = 0
CONSTRAINT OuterKeysFirst
INVARIANTS
    MustNotOverlap
CHECK_DEADLOCK FALSE
