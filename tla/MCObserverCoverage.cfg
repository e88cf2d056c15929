SPECIFICATION Spec
CONSTANTS
    MaxChanges = 1
    MaxCrashes = 1
    MaxFaults = 1
    MaxBreaks = 1
    MaxDrops = 1
    MaxMishaps = 3
    Unlogged = {1}
INVARIANTS
    NoCoverageConflict
    ReducersAgree
    StaleIsSignalled
    GapsAreExact
CHECK_DEADLOCK FALSE
