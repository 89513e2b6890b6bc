\* Both market orders at once; no restart.
SPECIFICATION Spec
CONSTANTS
    Qty = 2
    NoOrder = NoOrder
    NoOwner = NoOwner
    Modes = {"CONCURRENT"}
    Requests = {"c1"}
    PriceReports = {TRUE}
    MaxCrashes = 0
    Heals = FALSE
PROPERTIES
    HedgingNeverAddsExposure
    PromiseKept
CHECK_DEADLOCK FALSE
