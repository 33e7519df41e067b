SPECIFICATION Spec
CONSTANTS
    Always = TRUE
    Defers = FALSE
    Pending = FALSE
    FrozenCap = 2
    Faults = {"power", "fsync"}
    MaxBatch = 2
    MaxSeg = 2
    MaxFail = 2
INVARIANT NeverRefused
CHECK_DEADLOCK TRUE
