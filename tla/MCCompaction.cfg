SPECIFICATION Spec
CONSTANTS
    Key = {1, 2}
    NumLevels = 3
    MaxMemCompactLevel = 1
    MaxUpdates = 4
    MaxSnapshots = 1
INVARIANTS
    CompactionTypeOK
    KeepsVisible
    ReadsSurviveCompaction
CHECK_DEADLOCK FALSE
