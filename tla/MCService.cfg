\* Two processes that may be launched on one database, signals, a crash, a failed construction.
SPECIFICATION FairSpec
CONSTANTS
    Processes = {p1, p2}
    Strategies = {s1}
    NoProcess = NoProcess
    MaxStops = 2
    MaxCrashes = 1
    MaxFaults = 1
INVARIANTS
    TypeOK
    NobodyUsesAClosedDatabase
    OneProcessWorks
    PhaseIsTrue
    FundingStatusIsTrue
PROPERTIES
    ShutdownEnds
    ConfirmedIsConcluded
