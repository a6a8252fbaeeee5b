SPECIFICATION FairSpec
CONSTANTS
  Transfers = {t1, t2, t3}
  Remote = {t1, t2}
  Retained = 1
  Reconcilers = {c1, c2}
  Listing = TRUE
  MaxCrashes = 2
CHECK_DEADLOCK FALSE
INVARIANTS
  StageRecordKept

  
