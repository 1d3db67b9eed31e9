SPECIFICATION CheckoutSpec
CONSTANTS
    Tabs = {t1}
    Products = {p1, p2}
    Snapshots = {s1, s2}
    NotASnapshot = NotASnapshot
    Unreadable = Unreadable
    NoTab = NoTab
    One = 2
    MaxQuantity = 3
    MayNotSave = FALSE
    Submits = {r1, r2}
    Forms = {blank, good, picky}
    EmptyForm = blank
    ClientValid = {good, picky}
    ServerValid = {good}
    MaxIndexed = 1
    None = None
    Unused = Unused
    MayLeave = FALSE
    MayBreak = FALSE
PROPERTIES
    SnapshotIsKept
    ImplementsShop
