SPECIFICATION AllSpec
CONSTANTS
    MaxKey = 4
    SyncEvery = 1
    FrozenCap = 2
    MergeParallel = 2
    TierPieces = 2
    Loose = {}
    MaxWrite = 5
    MaxFail = 1
INVARIANTS TypeOK ReadsRight Tiles MergesWhole PrefixKept
CHECK_DEADLOCK FALSE
