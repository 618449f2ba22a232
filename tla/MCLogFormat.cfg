SPECIFICATION LogSpec
CONSTANTS
    kBlockSize = 5
    kHeaderSize = 2
    Lengths = {0, 1, 3, 7}
    MaxRecords = 3
    MaxFailures = 1
INVARIANTS
    LogTypeOK
    PrefixSurvives
    NeverForged
CHECK_DEADLOCK FALSE
