SPECIFICATION MCSpec
CONSTANTS
  Threads = {0, 1, 2}
  Getters = {g1}
  NUMCPUS = 2
  threshold = 3
  Amounts = {1, 2}
  Updates = 2
  Enqueuers = {e1, e2}
  Dequeuers = {d1, d2}
  Node = {n1, n2, n3}
  NULL = NULL
  MaxEnqueue = 3
  Callers = {t1, t2, t3}
  Keys = {0, 1, 2}
  BUCKETS = 2
  MaxInsert = 2
  Readers = {r1, r2, r3}
  Writers = {w1, w2}
  loops = 2
  Programs = {"deadlock", "deadlock_global", "race", "signal", "signal_cv"}
SYMMETRY Symmetry
INVARIANTS
  NothingLost
  BoundedLag
  NoUseAfterFree
  NoLeak
  LookupCorrect
  OneWriterOrManyReaders
  WritesCounted
  StopsOnlyWhenDone
PROPERTIES
  GetMonotonic
  ImplementsFifo
CHECK_DEADLOCK FALSE
