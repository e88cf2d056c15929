CONSTANTS
    Plans = {1, 2}
    Containers = {c1, c2}
    Target <- OwnContainers
    MaxActive = 2
    ApprovalTTL = 2
    TTL = 2
    ApplyTimeout = 1
    IoTimeout = 1
    Stall = 1
    AuditSlack = 1
    SuspendAllowed = TRUE
SPECIFICATION LiveSpec
PROPERTY
    AttemptIsSettled
