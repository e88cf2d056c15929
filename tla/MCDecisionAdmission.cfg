SPECIFICATION FairSpec
CONSTANTS
    NumCandidates = 2
    Page = 1
    Batch = 1
    FreshFor = 0
    LeaseFor = 0
    MaxClock = 1
    MaxCrashes = 0
    MaxFaults = 0
    MaxApprovals = 1
    HashesAgree = FALSE
PROPERTY StandingIsDecided
CHECK_DEADLOCK FALSE
