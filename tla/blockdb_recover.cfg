SPECIFICATION Spec
CONSTANTS
    FileSize = 2
    CacheLength = 9
    Sizes = {1, 2}
    None = None
    MaxBlocks = 4
    MaxRollbacks = 0
    MaxFlushes = 1
    MaxFaults = 1
INVARIANT
    RecoveryStarts
CHECK_DEADLOCK FALSE
