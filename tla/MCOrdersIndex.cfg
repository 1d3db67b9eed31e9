SPECIFICATION FairIndexSpec
CONSTANTS
    Ids = {1, 2, 3}
    MaxClock = 1
    Limits = {0, 1, 2, 3}
    DefaultPageSize = 2
    MaxPageSize = 2
    NoCursor = NoCursor
    NotBase64Json = NotBase64Json
    WrongTypes = WrongTypes
INVARIANTS
    IndexTypeOK
    WalkIsOrdered
    WalkIsComplete
    AnsweredIsListed
PROPERTY
    WalkEnds
