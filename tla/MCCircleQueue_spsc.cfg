SPECIFICATION Spec
CONSTANTS
  N = 4
  Values = {v1, v2, v3, v4}
  NoItem = NoItem
  Producers = {producer}
  Consumers = {consumer}
INVARIANTS
  TypeOK
  NoSlotRace
  NothingLost
PROPERTY
  FifoRefinement
