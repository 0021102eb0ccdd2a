SPECIFICATION Spec
CONSTANTS
    Key = {k1, k2}
    Value = {v1}
    None = None
    Keep = Keep
    NoBatch = NoBatch
    Stores = {index, state}
    Faults = {"write"}
    MaxOps = 2
    MaxFaults = 1
INVARIANT NeverPreparedTwice
