\* Every old database, confirmations over a clock that is set back, one statement or commit that
\* fails, the process dying twice.
SPECIFICATION Spec
CONSTANTS
    Strategies = {s1, s2}
    MaxTime = 2
    MaxClockSteps = 1
    MaxFaults = 1
    MaxCrashes = 2
INVARIANTS
    TypeOK
    DatabaseIsWhole
    SubmittedIsDurable
PROPERTIES
    MigrationKeepsRecords
    AnswerIsTrue
CHECK_DEADLOCK FALSE
