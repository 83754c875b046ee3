SPECIFICATION Spec
CONSTANTS
  Components = {"group", "relationship", "key", "peer", "super"}
  Deliverers = {l1, l2}
  Connections = {k1}
  Manager = manager
  MaxWrites = 2
  MaxLost = 1
  None = None
  Uids = {u1}
  Servers = {1, 2}
  c1 = c1
  c2 = c2
  c3 = c3
  phone = phone
  ChanSize = 1
  MaxKey = 2
  SyncKeyFailures = 1
  sender = sender
  receiver = receiver
  Senders = {s1, s2}
  FirstKinds = {"im", "support"}
  SecondKinds = {"im", "customer", "http", "system"}
  desktop = desktop
  MaxFailures = 1
  SyncLimit = 1
  MESSAGE_QUEUE_LIMIT = 2
  PwtSize = 1
  Members = {phone, desktop}
  Away = {phone}
  GroupMsgs = 2
  Delivers = {1, 2}
  GroupKinds = {"client", "http"}
  DtSize = 1
  MaxForgets = 1
SYMMETRY Symmetry
INVARIANTS
  TypeOK
  GroupExact
  NoStrangers
  RelationshipExact
  FailsOpen
  KeyIsNewest
  
  
  
  
  AckTellsKey
PROPERTY KeyGoesBackByRaceOnly
CHECK_DEADLOCK FALSE
