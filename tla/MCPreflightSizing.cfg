\* One strategy over many pairs of listings, two prices.
SPECIFICATION Spec
CONSTANTS
    Strategies = {s1}
    SpotMarkets <- ManySpots
    ContractMarkets <- ManyContracts
    Settings <- CrossSettings
    Prices = {1, 2}
    Averages = {1, 3}
    Balances = {30}
    Requested = {5, 12}
    Compatible = TRUE
    MaxChanges = 0
INVARIANTS
    QuantityIsTheLargestTradable
    ConfirmedCanBeOrdered
    HedgingOrderIsNotRefused
CHECK_DEADLOCK FALSE
