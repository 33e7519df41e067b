SPECIFICATION Spec
CONSTANTS
    FrozenCap = 2
    Faults = {"seal", "land", "publish", "merge"}
    MaxBatch = 3
    MaxFail = 1
INVARIANTS TypeOK OldestLands OneHome OkWhole NoFalseAlarm OnePartition
PROPERTY CallReturns
CHECK_DEADLOCK TRUE
