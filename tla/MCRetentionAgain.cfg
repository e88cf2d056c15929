SPECIFICATION RunningSpec
CONSTANTS
  Target = 2
  MaxAge = 1
  MaxRun = 1
  MaxUncertainty = 0
  Kinds = {"routine"}
  MaxEvents = 3
  MaxRequests = 3
  MaxTime = 2
  MaxFaults = 0
  MaxBacklog = 1
  PathEvents = 4
PROPERTIES
  RetentionKeepsUp
CHECK_DEADLOCK FALSE
