\* Two strategies, exchanges that change twice while values are read.
SPECIFICATION Spec
CONSTANTS
    Strategies = {s1, s2}
    SpotMarkets <- SpotListings
    ContractMarkets <- ContractListings
    Settings <- AccountSettings
    Prices = {1}
    Averages = {1}
    Balances = {20}
    Requested = {13}
    Compatible = TRUE
    MaxChanges = 2
SYMMETRY Symmetry
INVARIANTS
    TypeOK
    ConfirmedIsFresh
CHECK_DEADLOCK FALSE
