CONSTANTS
    Threads = {t1, t2, t3}
    Clients = {c1}
    Funcs = {TRUE, FALSE}
SPECIFICATION FairSpec
INVARIANTS
    DoneMeansAllRan
    NoLostWakeup
    ResetLeavesNoThread
PROPERTIES
    ReadyBeforeStart
    ForkJoinSpec
    OperationsReturn
