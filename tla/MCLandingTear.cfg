SPECIFICATION Spec
CONSTANTS
    Always = TRUE
    Defers = TRUE
    Pending = FALSE
    FrozenCap = 2
    Faults = {"power", "tear"}
    MaxBatch = 2
    MaxSeg = 3
    MaxFail = 1
INVARIANT NeverRefused
CHECK_DEADLOCK TRUE
