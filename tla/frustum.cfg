SPECIFICATION FairSpec
CONSTANTS
  Cells <- MCCells
  Views <- MCViews
  Roots <- MCRoots
  Kids <- MCKids
  InFrustum <- MCInFrustum
  Detail <- MCDetail
  Desired = 4
  MinLevel <- MCMinLevel
  MaxLevel = 3
  BatchLimit = 1
  CacheSize = 4
  Failing = {"b", "b1"}
  FirstView = "near"
  MaxMoves = 3
INVARIANTS RequestsCurrent NoHolesNoOverlap
PROPERTY SettlesOnCamera
CHECK_DEADLOCK FALSE
