SPECIFICATION ReadsSpec
CONSTANTS
    Calls = {r1, r2, r3}
    MaxCatalog = 2
    Ttl = 2
    QueryTime = 2
    NoEntry = NoEntry
    MaxId = 5
    Limits = {0, 1, 5}
    DefaultPageSize = 2
    MaxPageSize = 3
INVARIANTS
    CacheTypeOK
    PagesTypeOK
    WalkShowsAll
    TotalIsOfTheCategory
    NothingComesAgain
PROPERTIES
    AnswersAreRecent
    CacheCatchesUp
    WalkComesToAnEnd
