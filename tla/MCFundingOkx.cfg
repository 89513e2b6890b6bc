\* One OKX market that closes and returns; one restart.
SPECIFICATION Spec
CONSTANTS
    Exchange = "okx"
    MarketSeq <- OneMarket
    PageSize = 1
    MaxTime = 3
    MaxFlips = 2
    MaxFaults = 1
    MaxGlitches = 0
    MaxRestarts = 1
    NoTask = NoTask
INVARIANTS
    RowsReadable
    WorkerIsNeverRefused
PROPERTIES
    AnswerIsNeverStale
    PromiseKept
