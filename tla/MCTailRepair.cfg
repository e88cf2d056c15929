SPECIFICATION Spec
CONSTANTS
  MaxRecords = 2
  MaxEvents = 3
  MaxGaps = 1
  MaxPath = 3
  MaxCrashes = 2
  MaxFaults = 1
INVARIANTS
    AcceptedSurvives
    CutIsExplained
PROPERTY
    RepairCompletesWithoutGaps
CHECK_DEADLOCK FALSE
