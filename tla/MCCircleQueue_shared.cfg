SPECIFICATION Spec
CONSTANTS
  N = 3
  Values = {v1, v2}
  NoItem = NoItem
  Producers = {session, dbWorker}
  Consumers = {worker}
INVARIANT
  NothingLost
