CONSTANTS
  t1 = t1
  t2 = t2
  t3 = t3
  p1 = p1
  p2 = p2
  Threads <- TwoThreads
  Pages <- OnePage
  Backends = {"fdatasync", "dsync", "uring"}
  BufferRecords = 1
  MaxInFlight = 2
  MaxLsn = 2
  MayFail = TRUE
  ResetIsAlone = TRUE
SPECIFICATION LiveSpec
CHECK_DEADLOCK FALSE
PROPERTIES FlushAnswers ShutdownWithoutSyncerCompletes
