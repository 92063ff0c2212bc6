SPECIFICATION FairSpec
CHECK_DEADLOCK FALSE
CONSTANTS
  ClientNames = {"a"}
  Scenarios <- MCScenarios
  OutputQueue = 1
  MaxEvents = 2
  MaxRefs = 2
  MaxResps = 1
INVARIANTS
  ResponseAnnounced
