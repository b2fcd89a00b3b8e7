SPECIFICATION FairSpec
CONSTANTS
  BlockNull = 20
  MaxKey = 7
  DataCapacity = 2
  BlockWords = 23
  MaxBlocks = 20
  StaleMax = 0
  TornMeta = FALSE
  Garbage = Garbage
  Capacity = 1
  Inputs <- MCTables
  Ranges <- MCRanges
  MaxLoads = 1
INVARIANTS ScanIsExact IndexIsExactOrEmpty QueriesReadEachBlockOnce
PROPERTIES LoadEnds QueryEnds
