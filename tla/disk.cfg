SPECIFICATION MCSpec
CONSTANTS
    FileSize = 2
    CacheLength = 2
    Sizes = {1, 2}
    None = None
    Keep = Keep
    NoBatch = NoBatch
    MaxBlocks = 5
    MaxRollbacks = 2
    MaxFlushes = 3
    MaxFaults = 2
INVARIANTS
    TypeOK
    FilesMatchLedger
    BlocksReadable
    WritersOnDisk
    IndexAgrees
    OnroadAgrees
    ReceivedInOrder
CONSTRAINT FlushKeepsBuffers
CHECK_DEADLOCK FALSE
