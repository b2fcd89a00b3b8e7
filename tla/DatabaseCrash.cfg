SPECIFICATION Spec
CONSTANTS
  BlockNull = 20
  MaxKey = 7
  DataCapacity = 1
  BlockWords = 23
  MaxBlocks = 20
  StaleMax = 1
  TornMeta = FALSE
  Garbage = Garbage
  Capacity = 1
  Inputs <- MCFewTables
  Ranges <- MCFewRanges
  MaxLoads = 3
INVARIANTS DatabaseTypeOK WritesKeepTheKind ScanIsExact IndexIsExactOrEmpty
PROPERTIES LoadsAreAtomic
