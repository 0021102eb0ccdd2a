SPECIFICATION MCSpec
CONSTANTS
    id1 = id1  id2 = id2  id3 = id3
    None = None
    Accounts <- MCAccounts
    Length = 2
    Snapshots = 2
    Shapes <- MCShapes
    MaxLevel = 3
    MaxVersion = 2
    MaxOwn = 1
    Blocks <- Chain
    BranchIds <- Ids
    LimitLongestNum = 3
    MaxFree = 2
    MaxRollbacks = 1
SYMMETRY Symmetry
INVARIANTS TypeOK  CheckOnlyInWindow Readable CompoundHeld Forest
    QuotaWindow GlobalQuota CacheAgrees InOrder
PROPERTIES IndexHeld KeepsBlocks
CHECK_DEADLOCK FALSE
