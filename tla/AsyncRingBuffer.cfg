CONSTANTS
    w1 = w1
    w2 = w2
    Writers <- MCWriters
    Items <- MCItems
    Main = main
    NoThread = none
    Cap = 1
    FileCap = 1
SPECIFICATION FairSpec
INVARIANTS
    ScheduledIsQueued
    FlushedWasConstructed
PROPERTIES
    PollsEnd
CHECK_DEADLOCK FALSE
