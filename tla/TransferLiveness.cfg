SPECIFICATION FairSpec
CONSTANTS
  Transfers = {t1}
  MaxParallel = 1
  MaxPending = 0
  MaxItems = 1
  MaxDecisions = 1
  Calls = {"cancel", "conflict", "list", "shutdown"}
  Faults = {}
CHECK_DEADLOCK FALSE
PROPERTIES
  
  EndedIsShown
  ShutdownReturns
