SPECIFICATION FairSpec
CONSTANTS
    NumThreads = 1
    QueueSize = 1
    MayFail = FALSE
    Spurious = FALSE
    MaxConns = 1
PROPERTIES
    StopEnds
CHECK_DEADLOCK FALSE
