SPECIFICATION FairSpec
CONSTANTS
  Views <- MCViews
  Turns = {0, 4}
  Pans = {0, 4}
  Wheels <- MCWheels
  Closest = 1
  Farthest = 400
  MaxFrames = 3
  MaxEvents = 3
INVARIANTS
  DriftBounded
  OneMotion
  ProfileSound
PROPERTIES
  ViewSettles
CHECK_DEADLOCK FALSE
