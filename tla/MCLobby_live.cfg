SPECIFICATION FairSpec
CONSTANTS
  Sockets = {s1}
  Sessions = {t1}
  Timer = timer
  Accounts = {a1}
  NoAccount = NoAccount
  Capacity = 2
  UserQueueMax = 2
  GameQueueMax = 1
  MaxConn = 2
  MayFail <- AllProcedures
INVARIANTS
  ItemsWillCome
PROPERTIES
  
  DisconnectLogsOut
  ItemsKeepComing
CHECK_DEADLOCK FALSE
