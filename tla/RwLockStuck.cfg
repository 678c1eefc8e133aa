SPECIFICATION Spec
CONSTANTS
  Readers = {r1, r2}
  Writers = {w1}
  loops = 1
INVARIANTS
  NeverStuck
CHECK_DEADLOCK FALSE
