SPECIFICATION Spec
CONSTANTS
  BlockNull = 20
  MaxKey = 7
  DataCapacity = 1
  BlockWords = 6
  MaxBlocks = 20
  StaleMax = 1
  TornMeta = TRUE
  Garbage = Garbage
  Capacity = 1
  Inputs <- MCFewTables
  Ranges <- MCFewRanges
  MaxLoads = 2
INVARIANTS  NodesAreWritten
