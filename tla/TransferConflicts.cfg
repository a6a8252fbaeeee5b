SPECIFICATION Spec
CONSTANTS
  Transfers = {t1}
  MaxParallel = 1
  MaxPending = 0
  MaxItems = 2
  MaxDecisions = 2
  Calls = {"cancel", "conflict", "shutdown"}
  Faults = {"throw"}
CHECK_DEADLOCK FALSE
PROPERTIES
  DecisionFitsConflict
