SPECIFICATION XSpec
CONSTANTS
  producers = 1
  consumers = 1
  loops = 3
  max = 2
  fill_cv = fill
  empty_cv = empty
  after_wait = "test"
  MaxSpurious = 0
INVARIANTS
  NumFullCounts
CHECK_DEADLOCK FALSE
