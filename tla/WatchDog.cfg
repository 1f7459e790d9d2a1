CONSTANTS
    Timeout = 2
    TouchLimit = 2
SPECIFICATION DogFairSpec
PROPERTIES
    SilenceIsNoticed
    ThreadsEnd
    HungIsReal
CHECK_DEADLOCK FALSE
