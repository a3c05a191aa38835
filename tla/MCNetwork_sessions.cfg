SPECIFICATION Spec
CONSTANTS
  s1 = s1
  s2 = s2
  s3 = s3
  s4 = s4
  o1 = o1
  o2 = o2
  o3 = o3
  o4 = o4
  Sockets = {s1, s2, s3, s4}
  Overlappeds = {o1, o2, o3, o4}
  t1 = t1
  t2 = t2
  d1 = d1
  Sessions = {t1, t2}
  EventThreads = {}
  Senders = {d1}
  ReadyCount = 1
  MaxConn = 3
  MaxOpen = 2
  MayFail = {"accept", "receiveReady", "acceptEx"}
  NoSocket = NoSocket
  NoOverlapped = NoOverlapped
INVARIANTS
  TypeOK
  ExclusiveOverlapped
  Armed
  UncontestedSocketOnce
  PoolBudget
SYMMETRY Symmetry
CHECK_DEADLOCK FALSE
