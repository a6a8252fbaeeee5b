SPECIFICATION DesktopSpec
CONSTANTS
  LoginServers = {a, b}
  MaxSecrets = 2
  MaxKeys = 1
  MaxHeaders = 2
  Versions = {1, 2}
  MaxStoreFaults = 2
  Terminals = {t1, t2}
  MaxTerminals = 2
  MaxPrompts = 2
  MaxPending = 1
  OAuthServers = {m, n}
  DeviceServers = {n}
  DpopServers = {m, n}
  MaxConnects = 2
  MaxFlows = 2
  MaxDevicePolls = 2
  Lifetime = 3
  MaxPause = 2
  Paths = {p, q}
  Stages = {d1, d2, d3}
  MaxHandles = 2
  MaxPicks = 2
  MaxPrepared = 1
  Hosts = {h1}
  Endpoints = {e1, e2}
  Keys = {k1, k2}
  Certified = {k1}
  Visitors = {v1}
  RouterLane = lane
  Resolvers = 1
  MaxProbes = 2
  MaxKeyChanges = 1
  Editors = {g1, g2}
  Contents = {c1, c2, c3}
  Short = {c1, c2}
  MaxMtime = 1
  MaxWrites = 1
CHECK_DEADLOCK FALSE
INVARIANTS
  
  SessionsAreCounted
  TokenIsConsented
  LocalFilesAreOwned
PROPERTIES
  TrustIsKept
  ReplaceIsGuarded
