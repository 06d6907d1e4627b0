SPECIFICATION SpecStreams
CONSTANTS
    PP = 2
    M = 2
    Owners = 2
    Buckets = 2
    MaxBlocks = 9
INVARIANTS
    ReadsAsWritten
CHECK_DEADLOCK FALSE
