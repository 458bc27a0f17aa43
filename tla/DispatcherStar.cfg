SPECIFICATION Spec
CONSTANTS
  t1 = t1  t2 = t2  t3 = t3  t4 = t4
  a = a  b = b  c = c  d = d
  Nil = Nil
  TX <- ChainTX
  IBAN <- ChainIBAN
  Deb <- StarDeb
  Cred <- StarCred
  MaxWorkers = 2
  ChanBuffer = 2
  MayFail = TRUE
  MayShutDown = TRUE
INVARIANTS
  SerialPerAccount
  WgAccountsForGroup
PROPERTIES
  OneLineKept
  AddsReturn
  ShutdownCompletes
  WorkersExit
CHECK_DEADLOCK FALSE
