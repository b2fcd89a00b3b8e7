SPECIFICATION Spec
CONSTANTS
  MinDegree = 2
  StrayIds = {0}
  Tables <- MCTables
  AppendAfterReload = TRUE
PROPERTIES AllocatingLosesNoKey
