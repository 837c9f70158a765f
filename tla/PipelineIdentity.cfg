CONSTANTS
  N = 1
  Identity = TRUE
  MaxRecords = 3
  Cap = 1
  Timing = "prompt"
  Faults = {"source", "destination", "cancel"}
SPECIFICATION FairSpec
PROPERTIES Termination
