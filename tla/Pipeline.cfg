SPECIFICATION Spec
CONSTANTS
  p1 = p1
  p2 = p2
  TX <- TwoTX
  Ete <- Repeated
  BatchSize = 2
  MaxFaults = 1
  MaxCrashes = 1
  MaxStubCrashes = 1
  MaxTroubles = 2
CHECK_DEADLOCK FALSE
INVARIANTS TypeOK TablesAgree SentIsInTopic RepeatedOnlyForFailures NoneForgotten
PROPERTIES FinalWhileUntroubled KeepsPromises PendingIsAsked
