\* One Bitget market whose pages shift, one of which lacks records.
SPECIFICATION Spec
CONSTANTS
    Exchange = "bitget"
    MarketSeq <- OneMarket
    PageSize = 2
    MaxTime = 3
    MaxFlips = 1
    MaxFaults = 1
    MaxGlitches = 1
    MaxRestarts = 1
    NoTask = NoTask
INVARIANTS
    TypeOK
    ProofIsTrue
    OneTaskPerLease
