SPECIFICATION Spec
CONSTANTS
  num_threads = 2
INVARIANTS
  BeforeBeforeAfter
CHECK_DEADLOCK FALSE
