SPECIFICATION Spec
CONSTANTS
  Nodes <- MCNodes
  Root = "root"
  Kids <- MCKids
  Files <- MCFiles
  FileOf <- MCFileOf
  Side <- MCSide
  Stop <- MCStop
  PointIn <- MCPointIn
  MaxEvict = 3
INVARIANTS HandlesOwned ResultsExact
PROPERTIES Terminates
CHECK_DEADLOCK FALSE
