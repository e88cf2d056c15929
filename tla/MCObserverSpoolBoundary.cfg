SPECIFICATION Spec
CONSTANTS
    MaxBoots = 2
    MaxSequence = 5
    MaxBytes = 11
    PriorityReserve = 8
    MaxMishaps = 1
    MaxFaults = 0
INVARIANT CrashCreatesGap
CHECK_DEADLOCK FALSE
