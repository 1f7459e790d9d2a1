CONSTANTS
    Inodes = {i1, i2}
    WordBits = 3
    GroupBits = 9
    NrGroups = 3
    NrReserved = 1
    StartBit = 2
    Direct = 3
    PerBlock = 2
    BlockSize = 2
    BlocksPerPage = 2
    MaxLen = 5
    Names = {"a", "b", "c"}
    EntryLen <- MCEntryLen
    PAGE_SIZE = 10
    NrPages = 3
    NrEntries = 6
SPECIFICATION FileSystemSpec
INVARIANTS
    BlocksAccounted
    DiskHoldsFile
    SearchIsFirstClear
    FoundWhereWritten
    WalksPreorder
    FreesChildrenFirst
CHECK_DEADLOCK FALSE
