SPECIFICATION FairSpec
CONSTANTS
  a = a
  p = p
  q = q
  NoTree = NoTree
  UrlTrees = {a}
  JobTrees <- MCJobTrees
  WithViewpoint = {q}
  UrlView = FALSE
  MaxFaults = 1
INVARIANTS JobsConsistent QueryCurrent
PROPERTIES JobSettles
CHECK_DEADLOCK FALSE
