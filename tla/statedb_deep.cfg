SPECIFICATION Spec
CONSTANTS
    Addr = {a1}
    Balance = {}
    Storage = {1}
    Value = {v1}
    Blank = Blank
    None = None
    Keep = Keep
    NoBatch = NoBatch
    RetainHeight = 1
    CacheGap = 1
    DeleteAtOnce = 1
    MaxHeight = 3
    MaxBlocks = 2
    MaxRollbacks = 2
    MaxFlushes = 0
    MaxCrashes = 0
SYMMETRY Symmetry
INVARIANTS
    ViewCorrect
