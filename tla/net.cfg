SPECIFICATION MCSpec
INVARIANTS  WaitGroupExact TasksCover
PROPERTIES  ConstructReturns MajorityWins
CONSTANTS
    Peers = {"p", "q", "r"}
    Hashes = {1, 2, 3, 9}
    Black = {9}
    MaxMsgs = 3
    Lists <- MCLists
    Target = 3
    Window = 1
    MaxTasks = 1
    MaxBatch = 2
    MaxQueueLength = 0
    Ids = {1, 2}
    MaxFaults = 1
    MaxRetries = 1
    MaxHeight = 4
    Sizes = {1, 3}
    MaxSnapshotChunksOneTask = 2
    MaxSizeOneTask = 2
CHECK_DEADLOCK FALSE
