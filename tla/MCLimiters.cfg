SPECIFICATION LimitersSpec
CONSTANTS
    Calls = {c1, c2, c3}
    MaxConcurrent = 2
    Requests = {q1, q2, q3}
    Clients = {k1, k2}
    ConcurrencyPermitLimit = 2
    PermitLimit = 2
    SegmentsPerWindow = 2
INVARIANTS
    ApiTypeOK
    InFlightCountsHolders
    HandlersAreCapped
PROPERTIES
    ImplementsSlotPool
    SlotsReturn
    ImplementsPermitPool
    PermitsReturn
