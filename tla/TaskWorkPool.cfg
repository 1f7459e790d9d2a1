CONSTANTS
    Slots = {w1, w2, w3}
    Started = {w1, w2}
    MinThreads = 1
    MaxThreads = 3
    MaxJobs = 3
SPECIFICATION Spec
INVARIANTS
    CountNeverWraps
    ListSound
    TakenJobKept
CHECK_DEADLOCK FALSE
