SPECIFICATION FairSpec
CONSTANTS
  producers = 2
  consumers = 2
  loops = 2
  max = 2
  fill_cv = fill
  empty_cv = empty
  after_wait = "test"
  MaxSpurious = 1
INVARIANTS
  TypeOK
  RingConsistent
  NoEnsureFailure
  NeverStuck
  ExitComplete
  EosLast
  OneMarkerPerConsumer
  CountsAddUp
PROPERTIES
  ImplementsQueue
  Termination
  ImplementsFairQueue
CHECK_DEADLOCK FALSE
