\* Liveness once the faults end.
SPECIFICATION FairSpec
CONSTANTS
    Qty = 2
    NoOrder = NoOrder
    NoOwner = NoOwner
    Modes = {"CONTRACT_FIRST"}
    Requests = {"c1"}
    PriceReports = {TRUE}
    MaxCrashes = 1
    Heals = TRUE
PROPERTIES
    EventuallyConcluded
    OwnershipIsReleased
CHECK_DEADLOCK FALSE
