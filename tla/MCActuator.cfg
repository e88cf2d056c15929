CONSTANTS
    Plans = {1, 2}
    Containers = {c1, c2}
    Target <- OwnContainers
    MaxActive = 1
    ApprovalTTL = 1
    TTL = 1
    ApplyTimeout = 3
    IoTimeout = 1
    Stall = 1
    AuditSlack = 0
    SuspendAllowed = FALSE
SPECIFICATION Spec
CONSTRAINT FaultsGoOn
INVARIANTS
    DenyIsAccounted
    AppliedAtMostOnce
    ContainmentLimits
    DenyWithinWindow
PROPERTIES
    MutationGuarded
    ImplementsContainment
