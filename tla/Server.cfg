SPECIFICATION SSpec
CONSTANTS
  p1 = p1
  p2 = p2
  TX <- TwoTX
  Ete <- Distinct
  Environments <- Deployments
  MaxLives = 2
CHECK_DEADLOCK FALSE
INVARIANTS STypeOK RefusedOnlyAfterTimeout NoWorkerWithoutPool RecoveryMeetsNoRequest ConfirmedSurvives
PROPERTIES StartEnds StopEnds OutboxDrains
