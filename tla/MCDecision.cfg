SPECIFICATION FairSpec
CONSTANTS
    NumCandidates = 2
    Page = 1
    Batch = 1
    FreshFor = 0
    LeaseFor = 0
    MaxClock = 1
    MaxCrashes = 1
    MaxFaults = 1
    MaxApprovals = 1
    HashesAgree = TRUE
INVARIANTS JournalReopens PlansAreDecided ReceiptsMatchPlans FeedbackIsHistory
PROPERTIES CommitsAreCurrent ManualIsSettled StandingIsDecided
CHECK_DEADLOCK FALSE
