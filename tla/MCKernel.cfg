CONSTANTS
    Slabs = {s1, s2, s3}
    num = 3
    batchcount = 2
    PAGE_SIZE = 2
    PTE_SIZE = 2
    PMD_SIZE = 2
    PGD_SIZE = 2
    Physical = {21}
    MaxCalls = 2
    Timers = {a, b}
    N_TV = 4
    N_TV1 = 2
    N_TV2 = 2
    NumObjects = 3
    ById = {t1, t2}
    Walker = w
    Calls = 1
    MaxDeletes = 2
    Cap = 7
    ItemSize = 3
    Total = 36
SPECIFICATION KernelSpec
INVARIANTS
    OnePlaceEach
    SlabsAccounted
    FiresOnTime
    FreedInUseOnlyByTwoDeletes
    WalkSeesAll
    ReadsInOrder
PROPERTIES
    PoolSpec
    RemapsExactly
    ReadersReturn
CHECK_DEADLOCK FALSE
