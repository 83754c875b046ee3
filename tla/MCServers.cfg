SPECIFICATION MCSpec
CONSTANTS
  Components = {"groups", "queries", "routes", "sessions"}
  Servers = {s1, s2}
  WtSize = 1
  TruncateAt = 1
  TruncateCrash = FALSE
  MaxMsgs = 3
  MaxFails = 1
  MaxCrashes = 1
  NoFile = NoFile
  Users = {u1}
  Groups = {g1}
  BatchSize = 2
  MaxLog = 12
  MaxBlock = 0
  MaxStarts = 1
  EmptyStop = FALSE
  Limits = {0, 1, 2, 3, 4}
  HardLimits = {4, 6}
  p1 = p1
  d1 = d1
  v1 = v1
  user = user
  room = room
  ChanSize = 1
  WireSize = 1
  Conns = {n1, n2}
  c1 = c1
  c2 = c2
  c3 = c3
  phone = phone
  pad = pad
  MaxLogins = 1
  MaxChanges = 2
  SessionFailures = 1
  None = None
SYMMETRY Symmetry
INVARIANTS
  ServersTypeOK
  NoneOvertaken
  DuplicatesExplained
  AckIsOwn
  SyncLeavesNoGap
  HardLimitKeepsDirect
  
  
  
  ForbiddenAgrees
  DeviceIDsDiffer
PROPERTY DeviceKeepsID
CHECK_DEADLOCK FALSE
