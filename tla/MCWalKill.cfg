SPECIFICATION Spec
CONSTANTS
    SyncEvery = 3
    SealRotatesWal = FALSE
    RecycleWal = FALSE
    FrozenCap = 2
    Failures = {"kill", "power"}
    MaxBatch = 4
    MaxFile = 2
    MaxFail = 2
INVARIANT NeverRefused
CHECK_DEADLOCK TRUE
