SPECIFICATION LogSpec
CONSTANTS
    kBlockSize = 5
    kHeaderSize = 2
    Lengths = {1, 3}
    MaxRecords = 2
    MaxFailures = 1
INVARIANTS
    NoWritesLost
CHECK_DEADLOCK FALSE
