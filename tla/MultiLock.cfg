CONSTANTS
    Processes = {p1, p2, p3}
    MaxLocks = 2
    MayCrash = TRUE
SPECIFICATION LockFairSpec
INVARIANTS
    ExclusivePerSemaphore
PROPERTIES
    WaitersEnter
CHECK_DEADLOCK FALSE
