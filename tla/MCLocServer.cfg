SPECIFICATION Spec
CONSTANTS
    d1 = d1
    d2 = d2
    c1 = c1
    c2 = c2
    p1 = p1
    p2 = p2
    None = None
    Device <- MCDevice
    Pos <- MCPos
    Cell <- MCCell
    Report <- MCReport
    Updater = {"u1"}
    DefaultGrid <- MCDefault
    Configured <- MCConfigured
    DbSync = {TRUE, FALSE}
    Unacknowledged = TRUE
    MaxReports = 3
    MaxLosses = 1
    MaxCrashes = 1
INVARIANTS
    PoolInMap
    PoolCoversTables
    TablesAgreeAtRest
PROPERTIES
    ImplementsLastLocation
