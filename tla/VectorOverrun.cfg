SPECIFICATION Spec
CONSTANTS
  InitialSize = 3
  Pushes = 3
  Pops = 3
  MorePushes = 5
INVARIANT WritesInBounds
CHECK_DEADLOCK FALSE
