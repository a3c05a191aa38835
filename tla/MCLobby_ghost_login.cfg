SPECIFICATION Spec
CONSTANTS
  Sockets = {s1}
  Sessions = {t1}
  Timer = timer
  Accounts = {a1}
  NoAccount = NoAccount
  Capacity = 2
  UserQueueMax = 8
  GameQueueMax = 8
  MaxConn = 2
  MayFail <- NoProcedures
INVARIANTS
  ActiveIsConnected
CHECK_DEADLOCK FALSE
