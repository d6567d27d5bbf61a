SPECIFICATION FairSpec
CONSTANTS
    MaxMsg = 3
    Malformed <- OneMalformed
    MaxOpens = 2
    MaxLosses = 1
INVARIANTS
    FifoUntilReconnect
    AckedIsAccounted
    NullUse
PROPERTIES
    CloseEnds
    EventuallyApplied
CHECK_DEADLOCK FALSE
