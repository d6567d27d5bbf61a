SPECIFICATION FairSpec
CONSTANTS
    d1 = d1
    d2 = d2
    Device <- MCDevice
    Loc <- MCLoc
    Unacknowledged = FALSE
    MaxReports = 2
    MaxLosses = 1
    MaxCrashes = 0
PROPERTIES
    Reconnects
