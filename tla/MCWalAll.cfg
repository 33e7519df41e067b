SPECIFICATION AllSpec
CONSTANTS
    SyncEvery = 2
    SealRotatesWal = TRUE
    RecycleWal = TRUE
    FrozenCap = 2
    Failures = {"kill"}
    MaxBatch = 4
    MaxFile = 3
    MaxFail = 2
INVARIANTS TypesOK NeverRefused PowerLossCounted KillLosesNothing
PROPERTIES KeepsPromises Reopens
CHECK_DEADLOCK TRUE
