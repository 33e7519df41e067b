SPECIFICATION AllSpec
CONSTANTS
    Always = FALSE
    Defers = TRUE
    Pending = FALSE
    FrozenCap = 1
    Faults = {"kill", "write", "land", "fsync", "dirsync", "publish"}
    MaxBatch = 2
    MaxSeg = 3
    MaxFail = 2
INVARIANTS NeverRefused OneHome
PROPERTY FlushAnswered
CHECK_DEADLOCK TRUE
