SPECIFICATION Spec
CONSTANTS
  p1 = p1
  d1 = d1
  v1 = v1
  user = user
  room = room
  Clients = {p1, d1, v1}
  Keys = {user, room}
  Rooms = {room}
  Online = {p1}
  RoutingChanSize = 1
  WireSize = 1
  RoutingConns = {1}
  BlockSize = 8
  ChanSize = 1
  CacheSize = 2
  LiveRollover = FALSE
  MaxMsgs = 3
  MaxBlock = 0
  MaxConns = 1
  sender = sender
  receiver = receiver
  s1 = s1
  phone = phone
  Logins = 2
  PeerMsgs = 2
  PeerFailures = 0
  SyncLimit = 1
  MESSAGE_QUEUE_LIMIT = 2
  PwtSize = 1
  StorageServers = {s1}
  GroupMsgs = 2
  TruncateAt = 0
  MaxFails = 1
  MaxCrashes = 1
  None = None
PROPERTIES
  NoClientStuck
  
  SaveReturns
  
  
  AllDispatched
CHECK_DEADLOCK FALSE
