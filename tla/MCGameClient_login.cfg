SPECIFICATION FairSpec
CONSTANTS
  Users = {u1}
  Addresses = {k1, k2, k3}
  NoAddress = NoAddress
  NoUser = NoUser
  AuthThreads = 2
  LobbyThreads = 2
  Faults = TRUE
INVARIANTS
  TypeOK
  UserOnce
  Reachable
PROPERTIES
  LogsIn
CHECK_DEADLOCK FALSE
