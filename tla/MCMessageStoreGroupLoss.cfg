SPECIFICATION Spec
CONSTANTS
  u1 = u1
  u2 = u2
  g1 = g1
  NoFile = NoFile
  Users = {u1}
  Groups = {g1}
  BatchSize = 2
  MaxLog = 6
  MaxBlock = 0
  MaxStarts = 3
  EmptyStop = FALSE
INVARIANT GroupIndexRebuilt
CHECK_DEADLOCK FALSE
