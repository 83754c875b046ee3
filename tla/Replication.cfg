SPECIFICATION Spec
CONSTANTS
  BlockSize = 8
  ChanSize = 1
  CacheSize = 2
  LiveRollover = FALSE
  MaxMsgs = 4
  MaxBlock = 1
  MaxConns = 2
INVARIANTS
  TypeOK
  SlaveFaithful
  HolesExplained
CHECK_DEADLOCK FALSE
