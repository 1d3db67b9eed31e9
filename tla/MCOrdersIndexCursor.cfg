SPECIFICATION IndexSpec
CONSTANTS
    Ids = {1, 2, 3}
    MaxClock = 1
    Limits = {0, 1, 2, 3}
    DefaultPageSize = 2
    MaxPageSize = 2
    NoCursor = NoCursor
    NotBase64Json = NotBase64Json
    WrongTypes = WrongTypes
INVARIANT
    MalformedCursorIsRejected
