SPECIFICATION Spec
CONSTANTS
    FileSize = 2
    CacheLength = 2
    Sizes = {1, 2}
    None = None
    MaxBlocks = 4
    MaxRollbacks = 0
    MaxFlushes = 1
    MaxFaults = 0
INVARIANT
    EvictedIsFlushed
CHECK_DEADLOCK FALSE
