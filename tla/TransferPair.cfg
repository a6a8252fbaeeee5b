SPECIFICATION Spec
CONSTANTS
  Transfers = {t1, t2}
  MaxParallel = 1
  MaxPending = 1
  MaxItems = 0
  MaxDecisions = 0
  Calls = {"cancel", "shutdown", "crash"}
  Faults = {"launch", "throw"}
SYMMETRY Symmetry
CHECK_DEADLOCK FALSE
INVARIANTS
  PermitsConserved
  ShutdownReachesEveryWorker
  ShutdownQuiesces
  AdmissionConserved
  NoOrphanedRow
