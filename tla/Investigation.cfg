SPECIFICATION Spec
CONSTANTS
  Plans = {1, 2}
  Forms <- TaskForms
  MaxAttempts = 1
  Workers = {w1}
  Outcomes = {"success", "fatal"}
CHECK_DEADLOCK FALSE
INVARIANTS
  PlanInOrder
  PlanIsAuthorised
PROPERTIES
  CompletedIsVerified
  
