\* One row written while the clock was behind, and the round that reads it.
SPECIFICATION Spec
CONSTANTS
    Strategies = {s1, s2}
    MaxTime = 1
    MaxClockSteps = 1
    MaxFaults = 0
    MaxCrashes = 0
INVARIANTS
    RecoveryIsIsolated
CHECK_DEADLOCK FALSE
