SPECIFICATION Spec
CONSTANTS
  BlockNull = 20
  MaxKey = 7
  DataCapacity = 1
  BlockWords = 23
  MaxBlocks = 20
  StaleMax = 0
  TornMeta = FALSE
  Garbage = Garbage
  Capacity = 2
  Inputs <- MCOneTable
  Ranges <- MCWholeRange
  MaxLoads = 2
INVARIANTS QueryReturnsEveryMatch
