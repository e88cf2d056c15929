SPECIFICATION FairSpec
CONSTANTS
  Target = 2
  MaxAge = 0
  MaxRun = 2
  MaxUncertainty = 0
  MaxEvents = 3
  Kinds = {"routine", "kept"}
  MaxRequests = 2
  MaxTime = 2
  MaxFaults = 1
  MaxBacklog = 1
  PathEvents = 4
INVARIANTS
    RemovedIsTombstoned
    FencedIsStranded
PROPERTY
    RetentionSettles
CHECK_DEADLOCK FALSE
