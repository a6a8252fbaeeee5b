SPECIFICATION ScopedSpec
CONSTANTS
  Tasks = {t1, t2}
  Approvals = {a1}
  Effectful = {"restart"}
  Custom = {"deploy"}
  Tables = {"locked", "open"}
  Risks = {"low"}
  Requests = {r1, r2}
  Connections = {c1, c2}
  Reports = {"running", "cancelled"}
  MaxUses = 2
SYMMETRY Symmetry
CHECK_DEADLOCK FALSE
INVARIANTS
  UsesAreTasks
  EffectIsDecided
  
PROPERTIES
  ClaimIsAuthorised
  CancelledIsNotHanded
