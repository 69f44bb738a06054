SPECIFICATION ListSpec
CONSTANTS
    Lists <- WebList
    ServerSize <- WebServerSize
    MaxRows = 5
    NoAnswer = NoAnswer
    Clipped <- ClippedLists
    DeadEnds <- DeadEndLists
INVARIANTS ListTypeOK NoDeadEnd EveryRowReachable
