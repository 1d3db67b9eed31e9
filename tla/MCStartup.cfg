SPECIFICATION StartupSpec
CONSTANTS
    OrdersInstances = {o1, o2}
    MaxAttempts = 2
    CatalogInstances = {c1, c2}
INVARIANTS
    OrdersStartTypeOK
    ServesOverIndex
    CatalogStartTypeOK
    SeededOnce
    ServesSeeded
PROPERTIES
    StartsFailForCause
    OrdersStartsEnd
