SPECIFICATION Spec
CONSTANTS
  BlockNull = 20
  MaxKey = 7
  DataCapacity = 1
  BlockWords = 24
  MaxBlocks = 20
  StaleMax = 0
  TornMeta = FALSE
  Garbage = Garbage
  Keys <- MCKeys
  Capacities <- MCCapacities
INVARIANTS RangeFindsEveryKey
