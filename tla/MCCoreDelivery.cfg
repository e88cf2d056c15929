CONSTANTS
  MaxEvents = 3
  MaxTriggers = 2
  MaxGaps = 1
  Budget = 2
  PageLimit = 2
  PathEvents = 2
  MaxCrashes = 1
  MaxLost = 1
  MaxIoErrors = 1
  MaxRepairs = 1
  MaxRequestRecords = 5
SPECIFICATION Spec
INVARIANTS
    ProofBeforeAck
    AckAlwaysRecovers
PROPERTY
    ConvergesUndisturbed
CHECK_DEADLOCK FALSE
