SPECIFICATION OSpec
CONSTANTS
  t1 = t1  t2 = t2  t3 = t3  t4 = t4
  a = a  b = b  c = c  d = d
  Nil = Nil
  TX <- ChainTX
  IBAN <- ChainIBAN
  Deb <- ChainDeb
  Cred <- ChainCred
  MaxWorkers = 3
  ChanBuffer = 1
  MayFail = TRUE
  MayShutDown = TRUE
INVARIANTS
  TypeOK
  SlotsExact
  ParallelOnlyByMergeOrSteal
  HeldOnce
  DrainAlone
  OvertakenOnlyInMerge
PROPERTIES
  QueueKept
CHECK_DEADLOCK FALSE
