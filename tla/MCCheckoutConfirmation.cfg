SPECIFICATION CheckoutSpec
CONSTANTS
    Tabs = {t1}
    Products = {p1}
    Snapshots = {s1}
    NotASnapshot = NotASnapshot
    Unreadable = Unreadable
    NoTab = NoTab
    One = 1
    MaxQuantity = 2
    MayNotSave = FALSE
    Submits = {r1, r2}
    Forms = {blank, good, picky}
    EmptyForm = blank
    ClientValid = {good, picky}
    ServerValid = {good}
    MaxIndexed = 2
    None = None
    Unused = Unused
    MayLeave = TRUE
    MayBreak = TRUE
PROPERTY
    SuccessShowsConfirmation
