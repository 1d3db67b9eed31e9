SPECIFICATION FairCheckoutSpec
CONSTANTS
    Tabs = {t1}
    Products = {p1}
    Snapshots = {s1}
    NotASnapshot = NotASnapshot
    Unreadable = Unreadable
    NoTab = NoTab
    One = 2
    MaxQuantity = 3
    MayNotSave = TRUE
    Submits = {r1, r2}
    Forms = {blank, good, picky}
    EmptyForm = blank
    ClientValid = {good, picky}
    ServerValid = {good}
    MaxIndexed = 1
    None = None
    Unused = Unused
    MayLeave = TRUE
    MayBreak = TRUE
INVARIANTS
    CheckoutTypeOK
    OrdersAreSubmitted
    ConfirmedIsPlacedAndCleared
    ErrorShowsTheFailedCart
PROPERTIES
    AnsweredIsConfirmed
    SubmitEnds
