\* Both market orders at once; one restart.
SPECIFICATION Spec
CONSTANTS
    Qty = 2
    NoOrder = NoOrder
    NoOwner = NoOwner
    Modes = {"CONCURRENT"}
    Requests = {"c1"}
    PriceReports = {TRUE}
    MaxCrashes = 1
    Heals = FALSE
INVARIANTS
    TypeOK
    AtMostOneSubmission
    NotSubmittedIsTrue
    EvidenceIsTrue
    FailedMeansFlat
    HedgedMeansBalanced
CHECK_DEADLOCK FALSE
