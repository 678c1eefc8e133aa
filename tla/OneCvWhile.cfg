SPECIFICATION Spec
CONSTANTS
  producers = 1
  consumers = 2
  loops = 2
  max = 1
  fill_cv = cv
  empty_cv = cv
  after_wait = "test"
  MaxSpurious = 0
INVARIANTS
  NeverStuck
CHECK_DEADLOCK FALSE
