SPECIFICATION Spec
CONSTANTS
    KeepAlive = {FALSE}
    Service = {TRUE}
    Lengths = {0}
    BufSize = 5
    MaxConns = 2
    MaxMsgs = 2
INVARIANTS
    FromTheClient
CHECK_DEADLOCK FALSE
