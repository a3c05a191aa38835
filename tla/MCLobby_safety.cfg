SPECIFICATION Spec
CONSTANTS
  Sockets = {s1, s2}
  Sessions = {t1}
  Timer = timer
  Accounts = {a1, a2}
  NoAccount = NoAccount
  Capacity = 2
  UserQueueMax = 3
  GameQueueMax = 0
  MaxConn = 2
  MayFail <- NoProcedures
SYMMETRY LobbySymmetry
INVARIANTS
  TypeOK
  OneSocketPerAccount
  RecordedIsActive
  LogOutOnce
CHECK_DEADLOCK FALSE
