SPECIFICATION FairSpec
CONSTANTS
  MinDegree = 2
  StrayIds = {0, 9}
  Tables <- MCTables
  AppendAfterReload = FALSE
INVARIANTS TypeOK CopiesAreCurrent ChainIsWhole TreeIsSound SearchIsExact RangeIsExact
PROPERTIES ImplementsKeySet AllocatingLosesNoKey TreeCallsEnd
