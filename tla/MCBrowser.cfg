SPECIFICATION BrowserSpec
CONSTANTS
    Tabs = {t1, t2}
    Products = {p1, p2}
    Snapshots = {s1}
    NotASnapshot = NotASnapshot
    Unreadable = Unreadable
    NoTab = NoTab
    One = 2
    MaxQuantity = 2
    MayNotSave = TRUE
    Paths = {a, b}
    Urls = {u, v}
    Placeholder = Placeholder
    Absent = Absent
    NullPath = NullPath
INVARIANTS
    CartTypeOK
    PersistedCart
    FallbackIsExact
PROPERTIES
    ReloadRestoresCart
    ImageSettles
