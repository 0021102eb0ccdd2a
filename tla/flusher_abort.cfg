SPECIFICATION FairSpec
CONSTANTS
    Key = {k1, k2}
    Value = {v1}
    None = None
    Keep = Keep
    NoBatch = NoBatch
    Stores = {index, state}
    Faults = {"panic"}
    MaxOps = 1
    MaxFaults = 1
PROPERTY AbortReturns
CHECK_DEADLOCK FALSE
