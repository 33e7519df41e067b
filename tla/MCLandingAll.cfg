SPECIFICATION AllSpec
CONSTANTS
    Always = TRUE
    Defers = TRUE
    Pending = FALSE
    FrozenCap = 2
    Faults = {"power", "write", "land"}
    MaxBatch = 3
    MaxSeg = 3
    MaxFail = 2
INVARIANTS TypeOK NeverRefused OneHome AckedKept CrashSafe
PROPERTIES PublishesDurable FlushAnswered NoStall OwedPaid
CHECK_DEADLOCK TRUE
