SPECIFICATION Spec
CONSTANTS
  t1 = t1  t2 = t2  t3 = t3  t4 = t4
  a = a  b = b  c = c  d = d
  Nil = Nil
  TX <- ChainTX
  IBAN <- ChainIBAN
  Deb <- StarDeb
  Cred <- StarCred
  MaxWorkers = 2
  ChanBuffer = 1
  MayFail = FALSE
  MayShutDown = FALSE
PROPERTIES
  AcceptedIsProcessed
CHECK_DEADLOCK FALSE
