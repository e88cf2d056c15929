SPECIFICATION Spec
CONSTANTS
    MaxChanges = 1
    MaxCrashes = 1
    MaxFaults = 0
    MaxBreaks = 0
    MaxDrops = 0
    MaxMishaps = 4
    Unlogged = {}
INVARIANTS
    OwnProofsHold
CHECK_DEADLOCK FALSE
