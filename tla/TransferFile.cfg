SPECIFICATION Spec
CONSTANTS
  Directions = {"upload", "download"}
  Policies = {"ask", "skip", "overwrite"}
  Faults = {"io", "lost", "history", "corrupt", "coarse", "crash"}
  MaxVersion = 2
CHECK_DEADLOCK FALSE
INVARIANTS
  StageIsTracked
  ResidueReported
PROPERTY Publication
