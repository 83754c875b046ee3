SPECIFICATION Spec
CONSTANTS
  BlockSize = 6
  ChanSize = 1
  CacheSize = 2
  LiveRollover = TRUE
  MaxMsgs = 3
  MaxBlock = 1
  MaxConns = 1
INVARIANT
  BatchFromOneBlock
CHECK_DEADLOCK FALSE
