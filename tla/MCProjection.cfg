CONSTANTS
  Keys = {"connect", "probe"}
  Box <- MCBox
  Direct <- MCDirect
  Targets = {"t"}
  Gaps = {"docker_reconcile_gap", "falco_adapter_stop"}
  MaxSeq = 5
  MaxFaults = 1
  MaxOrders = 1
  MaxDisturbed = 2
  Legacy = TRUE
SPECIFICATION Spec
INVARIANTS
    ImageExact
    RetirementKeepsDecisions
CHECK_DEADLOCK FALSE
