SPECIFICATION Spec
CONSTANTS
  Transfers = {t1}
  MaxParallel = 1
  MaxPending = 0
  MaxItems = 1
  MaxDecisions = 0
  Calls = {"shutdown"}
  Faults = {}
CHECK_DEADLOCK FALSE
INVARIANT SuccessSurvives
