CONSTANTS
  N = 2
  Identity = FALSE
  MaxRecords = 2
  Cap = 1
  Timing = "prompt"
  Faults = {"transformer"}
SPECIFICATION FairSpec
PROPERTIES FailureEnds
CHECK_DEADLOCK FALSE
