SPECIFICATION Spec
CONSTANTS
  potion = potion
  sword = sword
  Workers = {w1, w2}
  Accounts = {a1, a2}
  Piles = {potion}
  Singles = {sword}
  PileCountMax <- PilesOfTwo
  BreakMoneyAmount <- Prices
  Capacity = 3
  MaxAdd = 2
  MaxRemove = 1
  MaxTasks = 3
  MaxRows = 2
  NoGuid = NoGuid
SYMMETRY InventorySymmetry
INVARIANTS
  TypeOK
  CapacityOvershoot
  PileOvershoot
PROPERTIES
  StockRefinement
CHECK_DEADLOCK FALSE
