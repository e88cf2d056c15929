CONSTANTS
  Keys = {"connect", "probe"}
  Box <- MCBox
  Direct <- MCDirect
  Targets = {"t"}
  Gaps = {"docker_reconcile_gap", "falco_adapter_stop"}
  MaxSeq = 2
  MaxFaults = 0
  MaxOrders = 0
  MaxDisturbed = 2
  Legacy = FALSE
SPECIFICATION Spec
INVARIANTS
  RetiredIsRebuilt
CHECK_DEADLOCK FALSE
