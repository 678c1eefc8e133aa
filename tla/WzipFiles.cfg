SPECIFICATION Spec
CONSTANTS
  Letters = {"a", "b"}
  MaxLength = 2
  MaxFiles = 2
INVARIANT SingleStream
CHECK_DEADLOCK FALSE
