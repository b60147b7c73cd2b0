CONSTANTS
  t1 = t1
  t2 = t2
  t3 = t3
  p1 = p1
  p2 = p2
  Threads <- TwoThreads
  Pages <- OnePage
  Backends = {"fdatasync", "dsync", "uring"}
  BufferRecords = 2
  MaxInFlight = 2
  MaxLsn = 4
  MayFail = TRUE
  ResetIsAlone = TRUE
SPECIFICATION Spec
CHECK_DEADLOCK FALSE
SYMMETRY Symmetry
INVARIANTS AckedIsStable DurableHasNoGap CleanCloseLosesNothing
