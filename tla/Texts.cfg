SPECIFICATION Spec
CONSTANTS
  MaxProc = 2
  MAXLINES = 2
  numvals = 3
  Values = {0, 1}
  luckynum = 1
INVARIANTS
  SomeTextIsRight
CHECK_DEADLOCK FALSE
