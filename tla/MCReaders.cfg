SPECIFICATION Spec
CONSTANTS
    Thread = {t1, t2, t3}
    t1 = t1
    t2 = t2
    t3 = t3
    NSlots = 3
    MaxBuf = 1
    MaxEpoch = 2
    MaxThing = 1
SYMMETRY Threads
INVARIANTS TypeOK NoUseAfterFree RetiredOnce PinsCover
CHECK_DEADLOCK TRUE
