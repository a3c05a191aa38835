SPECIFICATION FairSpec
CONSTANTS
  large = large
  small = small
  Lobbies = {large, small}
  Shared = asd
  NoLobby = NoLobby
  NoRecord = NoRecord
  Clients = {c1}
  Capacity <- MCCapacity
  MaxSize <- MCMaxSize
  QueueMax = 1
  MaxPages = 2
  Faults = TRUE
INVARIANTS
  TypeOK
  BestOfScan
  PortHasRoom
PROPERTIES
  Answered
