SPECIFICATION AllSpec
CONSTANTS
    MaxKey = 3
    SyncEvery = 1
    FrozenCap = 1
    MergeParallel = 1
    TierPieces = 0
    Loose = {"gap"}
    MaxWrite = 5
    MaxFail = 1
INVARIANT ReadsRight
CHECK_DEADLOCK FALSE
