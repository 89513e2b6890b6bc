\* One market that may close once, long enough for a walk that a restart interrupts to leave a gap.
SPECIFICATION FairSpec
CONSTANTS
    Exchange = "okx"
    MarketSeq <- OneMarket
    PageSize = 1
    MaxTime = 4
    MaxFlips = 1
    MaxFaults = 0
    MaxGlitches = 0
    MaxRestarts = 1
    NoTask = NoTask
PROPERTIES
    EverySettlementIsStored
    EveryCategoryIsServed
