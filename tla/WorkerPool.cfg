SPECIFICATION FairSpec
CONSTANTS
    NumThreads = 2
    QueueSize = 2
    MayFail = TRUE
    Spurious = TRUE
    MaxConns = 4
INVARIANTS
    Accounted
    NobodySleepsOnWork
    ThreadsEndFirst
PROPERTIES
    Served
CHECK_DEADLOCK FALSE
