CONSTANTS
    None = None
    Producers = {p1, p2}
    Consumers = {c1, c2}
    Values = {v1, v2}
    RequestedCap = 2
    DefaultCapacity = 3
SPECIFICATION FairSpec
INVARIANTS
    NoLostWakeup
PROPERTIES
    FifoSpec
    KeepsMoving
