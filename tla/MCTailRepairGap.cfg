SPECIFICATION Spec
CONSTANTS
  MaxRecords = 2
  MaxEvents = 3
  MaxGaps = 1
  MaxPath = 4
  MaxCrashes = 1
  MaxFaults = 0
PROPERTIES
  RepairCompletes
CHECK_DEADLOCK FALSE
