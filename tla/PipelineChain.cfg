CONSTANTS
  N = 2
  Identity = FALSE
  MaxRecords = 3
  Cap = 1
  Timing = "prompt"
  Faults = {"source", "transformer", "destination", "cancel"}
SPECIFICATION FairSpec
INVARIANTS TypeOK InOrder NoSilentLoss
PROPERTIES CancelEnds HealthyEnds StreamSpec
