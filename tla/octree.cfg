SPECIFICATION Spec
CONSTANTS
  Levels = 4
  Unit = 1
  Bits = 4
  Wide = 256
  MinCell = 2
  Width = 2
  Points = {0, 3, 4, 5, 12}
  MaxPoints = 3
  Ways = {"addPoint", "TreeFastCache"}
  Evicting = {"addPoint"}
INVARIANTS CountExact SummaryNear ChangesFlagged QueryExact
CHECK_DEADLOCK FALSE
