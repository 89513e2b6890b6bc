\* One market order first; two competing confirmations and one restart.
SPECIFICATION Spec
CONSTANTS
    Qty = 2
    NoOrder = NoOrder
    NoOwner = NoOwner
    Modes = {"CONTRACT_FIRST", "SPOT_FIRST"}
    Requests = {"c1", "c2"}
    PriceReports = {TRUE, FALSE}
    MaxCrashes = 1
    Heals = FALSE
INVARIANTS
    OneOperation
    ExecutionIsConfirmed
PROPERTIES
    ConclusionIsFinal
    PromiseKept
CHECK_DEADLOCK FALSE
