SPECIFICATION FairSpec
CONSTANTS
  num_threads = 3
  loops = 2
  VECTOR_SIZE = 2
  Programs = {"deadlock", "global-order", "avoid-hold-and-wait", "try-wait", "nolock"}
INVARIANTS
  DeadlockFree
  NoLostAdd
  WholeVectors
PROPERTIES
  Termination
  ImplementsAtomicAdd
CHECK_DEADLOCK FALSE
