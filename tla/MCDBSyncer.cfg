SPECIFICATION FairSpec
CONSTANTS
    d1 = d1
    d2 = d2
    Device <- MCDevice
    Loc <- MCLoc
    Unacknowledged = TRUE
    MaxReports = 4
    MaxLosses = 2
    MaxCrashes = 2
INVARIANTS
    TypeOK
    InOrder
    OneSnapshot
    SnapshotCoversLog
    DroppedByFaults
    AheadIsAFault
PROPERTIES
    SnapshotMonotone
    EventuallyWritten
