SPECIFICATION Spec
CONSTANTS
    MaxBoots = 2
    MaxSequence = 5
    MaxBytes = 11
    PriorityReserve = 8
    MaxMishaps = 2
    MaxFaults = 1
INVARIANTS
    NoEvidenceLost
    CrashNeverFences
    BoundaryFirst
CHECK_DEADLOCK FALSE
