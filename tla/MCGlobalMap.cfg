SPECIFICATION Spec
CONSTANTS
    d1 = d1
    d2 = d2
    c1 = c1
    c2 = c2
    p1 = p1
    p2 = p2
    p3 = p3
    u1 = u1
    u2 = u2
    None = None
    MaxReports = 3
    Device <- MCDevice
    Pos <- MCPos
    Cell <- MCCell
    Report <- MCReport
    Updater <- MCUpdater
    Querier = {"q1"}
    DefaultGrid <- MCGrid
SYMMETRY Symmetry
INVARIANTS
    FiledIsFound
    QueryFinds
CHECK_DEADLOCK FALSE
