SPECIFICATION Spec
CONSTANTS
    Addr = {a1, a2}
    Balance = {t1}
    Storage = {}
    Value = {v1}
    Blank = Blank
    None = None
    Keep = Keep
    NoBatch = NoBatch
    RetainHeight = 1
    CacheGap = 1
    DeleteAtOnce = 1
    MaxHeight = 3
    MaxBlocks = 2
    MaxRollbacks = 2
    MaxFlushes = 1
    MaxCrashes = 0
SYMMETRY Symmetry
INVARIANTS
    TypeOK
    ViewCorrect
    HistoryCorrect
    DiskConfirmed
    RedoMatches
CHECK_DEADLOCK FALSE
