SPECIFICATION Spec
CONSTANTS
  Transfers = {t1}
  MaxParallel = 1
  MaxPending = 0
  MaxItems = 1
  MaxDecisions = 1
  Calls = {"cancel", "list", "get", "shutdown", "crash"}
  Faults = {"history", "launch", "throw"}
CHECK_DEADLOCK FALSE
INVARIANTS
  TypeOK
  CompletedIsRecorded
PROPERTIES
  TerminalIsFinal
