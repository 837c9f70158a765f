CONSTANTS
  N = 2
  Identity = FALSE
  MaxRecords = 2
  Cap = 1
  Timing = "slow"
  Faults = {"source"}
SPECIFICATION FairSpec
INVARIANTS NoSilentLoss
