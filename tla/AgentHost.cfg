SPECIFICATION AgentHostSpec
CONSTANTS
  Offers <- MCOffers
  ActionWorkers = {w1, w2}
  MaxTickets = 1
  MaxObserved = 1
  MaxReplays = 1
  MaxAsked = 2
  MaxServed = 3
  MaxEnds = 1
  Files = {1, 2}
  Owners = {t1, t2}
  ScanLimit = 1
  MaxJobs = 3
  Servers = {s1, s2}
  HttpServers = {s2}
  Tools = {x}
  Lane = lane
  McpWorkers = {w1}
  MaxSessions = 2
  MaxRequests = 4
  Schedules = {s1}
  WatchTask <- MCWatchTask
  Interval = 1
  Window = 2
  Cooldown = 0
  MaxConcurrent = 2
  MaxTicks = 2
  MaxRun = 1
  MaxTime = 2
  MaxUpdates = 1
  MaxFrames = 2
CHECK_DEADLOCK FALSE
INVARIANTS
  ActsAsApproved
  SessionsAreOwned
PROPERTIES
  BackupLedgerIsTrue
  InspectionsAreTracked
