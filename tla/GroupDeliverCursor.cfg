SPECIFICATION Spec
CONSTANTS
  Servers = {s1}
  WtSize = 1
  TruncateAt = 1
  TruncateCrash = TRUE
  MaxMsgs = 3
  MaxFails = 0
  MaxCrashes = 1
PROPERTY AllDispatched
CHECK_DEADLOCK FALSE
