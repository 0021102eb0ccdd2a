SPECIFICATION FairSpec
CONSTANTS
    Key = {k1, k2}
    Value = {v1}
    None = None
    Keep = Keep
    NoBatch = NoBatch
    Stores = {index, state}
    Faults = {"sync", "commit", "clean"}
    MaxOps = 2
    MaxFaults = 2
PROPERTY EventuallyDurable
