SPECIFICATION Spec
CONSTANTS
  producers = 1
  consumers = 2
  loops = 2
  max = 1
  fill_cv = fill
  empty_cv = empty
  after_wait = "op"
  MaxSpurious = 0
INVARIANTS
  NoEnsureFailure
CHECK_DEADLOCK FALSE
