SPECIFICATION Spec
CONSTANTS
  HostWorkers = {1, 2}
  MaxSpawns = 2
  MaxIds = 3
  MaxAsks = 1
  CanWedge = FALSE
  Requests <- MCRequests
  Lanes <- MCLanes
  QueueLimit <- MCQueueLimit
  ByteLimit = 3
  WaiterLimit = 2
CHECK_DEADLOCK FALSE
INVARIANTS
  AnswersFindAskers
  EverythingCountsOnce
PROPERTIES
  
  AnsweredUntilClosed
