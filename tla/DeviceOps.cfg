SPECIFICATION Spec
CONSTANTS
  t1 = t1
  t2 = t2
  Tasks = {t1, t2}
  MaxStarts = 2
  Levels = {1, 2}
  Found <- MCFound
  Wanted <- MCWanted
  Sessions = {s1}
  NoSession = NoSession
  Sockets = {k1, k2}
  NoSocket = NoSocket
  Ops <- MCOps
  Advertised = {"read", "capture", "brightness"}
  TaskCapacity = 2
  SessionCapacity = 2
  ArtifactCapacity = 1
  ReadSlots = 2
  MaxOpenings = 1
  MaxTroubles = 2
INVARIANTS
  TypeOK
  NoneLeftBehind
  ArtifactsAccounted
  RunsOnce
PROPERTY
  FailedSetRestores
CHECK_DEADLOCK FALSE
SYMMETRY MCSymmetry
