SPECIFICATION Spec
CONSTANTS
  p1 = p1
  p2 = p2
  TX <- OneTX
  Ete <- Distinct
  BatchSize = 2
  MaxFaults = 1
  MaxCrashes = 0
  MaxStubCrashes = 0
  MaxTroubles = 1
CHECK_DEADLOCK FALSE
PROPERTIES ResultIsFinal
