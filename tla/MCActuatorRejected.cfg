CONSTANTS
    Plans = {1}
    Containers = {c1}
    Target <- OneContainer
    MaxActive = 1
    ApprovalTTL = 2
    TTL = 2
    ApplyTimeout = 1
    IoTimeout = 1
    Stall = 1
    AuditSlack = 1
    SuspendAllowed = TRUE
SPECIFICATION Spec
PROPERTY
    RejectedWasNeverApplied
