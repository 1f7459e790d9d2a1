CONSTANTS
    Processes = {p1, p2, p3}
    MaxLocks = 1
    MayCrash = FALSE
SPECIFICATION LockSpec
INVARIANTS
    MutualExclusion
CHECK_DEADLOCK FALSE
