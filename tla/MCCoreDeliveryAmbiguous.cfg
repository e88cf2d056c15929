CONSTANTS
  MaxEvents = 3
  MaxTriggers = 2
  MaxGaps = 0
  Budget = 2
  PageLimit = 3
  PathEvents = 4
  MaxCrashes = 0
  MaxLost = 1
  MaxIoErrors = 0
  MaxRepairs = 0
  MaxRequestRecords = 9
SPECIFICATION Spec
PROPERTY DeliveryConverges
CHECK_DEADLOCK FALSE
