SPECIFICATION Spec
CONSTANTS
  u1 = u1
  u2 = u2
  g1 = g1
  NoFile = NoFile
  Users = {u1, u2}
  Groups = {g1}
  BatchSize = 2
  MaxLog = 6
  MaxBlock = 2
  MaxStarts = 3
  EmptyStop = FALSE
SYMMETRY Symmetry
INVARIANTS
  TypeOK
  PeerIndexExact
  PeerChainsComplete
  NewCountExact
  GroupQueuesSound
  GroupIndexRecreated
PROPERTY ImplementsQueues
CHECK_DEADLOCK FALSE
