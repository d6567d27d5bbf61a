SPECIFICATION FairSpec
CONSTANTS
    KeepAlive = {TRUE, FALSE}
    Service = {TRUE, FALSE}
    Lengths = {0, 2}
    BufSize = 5
    MaxConns = 2
    MaxMsgs = 2
INVARIANTS
    OrderlyServed
    HandlersTidy
PROPERTIES
    WorkerEnds
CHECK_DEADLOCK FALSE
