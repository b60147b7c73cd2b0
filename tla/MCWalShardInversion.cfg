CONSTANTS
  t1 = t1
  t2 = t2
  t3 = t3
  p1 = p1
  p2 = p2
  Threads <- TwoThreads
  Pages <- TwoPages
  Backends = {"fdatasync"}
  BufferRecords = 2
  MaxInFlight = 1
  MaxLsn = 2
  MayFail = FALSE
  ResetIsAlone = TRUE
SPECIFICATION Spec
CHECK_DEADLOCK FALSE
SYMMETRY Symmetry
INVARIANTS AckedIsStable
