SPECIFICATION Spec
CONSTANTS
    Assets = {"XLM", "A", "B", "C"}
    XLM = "XLM"
    Listings <- MCListings
    MaxHops = 2
    MaxPrice = 3
    Unreadable = Unreadable
    Unpriced = Unpriced
INVARIANTS
    TypeOK
    RoutesAreReal
    OneRowEach
    AsReference
CHECK_DEADLOCK FALSE
