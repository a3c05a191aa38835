SPECIFICATION Spec
CONSTANTS
  s1 = s1
  s2 = s2
  s3 = s3
  o1 = o1
  o2 = o2
  o3 = o3
  o4 = o4
  Sockets = {s1, s2, s3}
  Overlappeds = {o1, o2, o3, o4}
  t1 = t1
  e1 = e1
  d1 = d1
  Sessions = {t1}
  EventThreads = {e1}
  Senders = {d1}
  ReadyCount = 1
  MaxConn = 2
  MaxOpen = 2
  MayFail = {"send", "acceptEx", "sendCall"}
  NoSocket = NoSocket
  NoOverlapped = NoOverlapped
INVARIANTS
  ExclusiveOverlapped
  
  
SYMMETRY Symmetry
CHECK_DEADLOCK FALSE
