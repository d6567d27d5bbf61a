CONSTANTS
    ReadLen = 6
    HeadLen = 6
    UriPieces = 5
    PatternLen = 4
    StrLen = 3
    Origin <- MCOrigin
    CellSize <- MCCellSize
    Kids = 3
    Tags = 4
    Fields = 2
    Letters = {"a", "b", "x", "version", "encoding", "standalone", "NaviMSG", "dev_id", "user_id", "roadlink", "group_ids", "gps", "GPS", "config", "lon", "lat", "time", "speed", "direction", "link_id", "location", "locations", "result", "code", "error"}
    Digits = {"0", "1", "2"}
    MaxRegion = 8
    Bad = Bad
    MaxInt = 32767
    TabSize = 4
    MaxTag = 14
    MaxLevel = 2
INIT Init
NEXT Next
INVARIANTS
    RequestRead
    ValuesRead
    PathStaysBelowRoot
    RulesApplied
    PageSent
    QueryAnswered
    XmlParsed
    CharactersKept
    InputRead
CHECK_DEADLOCK FALSE
