SPECIFICATION Spec
CONSTANTS
    Key = {k1, k2}
    Value = {v1}
    None = None
    Keep = Keep
    NoBatch = NoBatch
    Stores = {index, state}
    Faults = {"crash", "panic", "write", "sync", "commit", "redo", "clean"}
    MaxOps = 3
    MaxFaults = 2
SYMMETRY Symmetry
INVARIANTS TypeOK CrashConsistent NothingLost StopSavesAll
CHECK_DEADLOCK FALSE
PROPERTY LedgerSpec
