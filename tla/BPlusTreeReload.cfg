SPECIFICATION Spec
CONSTANTS
  MinDegree = 3
  StrayIds = {0}
  Tables <- MCRising
  AppendAfterReload = FALSE
INVARIANTS ReloadFindsEveryKey
