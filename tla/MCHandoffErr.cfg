SPECIFICATION Spec
CONSTANTS
    FrozenCap = 2
    Faults = {"publish", "merge"}
    MaxBatch = 3
    MaxFail = 1
INVARIANT AllOrNone
CHECK_DEADLOCK TRUE
