SPECIFICATION Spec
CONSTANTS
    Addr = {a1}
    Balance = {}
    Storage = {1}
    Value = {v1}
    Blank = Blank
    None = None
    Keep = Keep
    NoBatch = NoBatch
    RetainHeight = 4
    CacheGap = 2
    DeleteAtOnce = 2
    MaxHeight = 3
    MaxBlocks = 2
    MaxRollbacks = 2
    MaxFlushes = 1
    MaxCrashes = 1
SYMMETRY Symmetry
INVARIANTS
    ViewCorrect
    HistoryCorrect
    DiskConfirmed
    RedoMatches
CHECK_DEADLOCK FALSE
