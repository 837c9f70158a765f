CONSTANTS
  Tables = {"a", "b", "c", "p"}
  Parent <- MCParent
  NoTable = "none"
  Incremental = {"a"}
  StateBackend = TRUE
  ND = 1
  ODS = {1}
  WithSummary = {}
  Transformers <- NoneAtAll
  Name <- Unchanged
  NoMigrate = TRUE
  MaxMessages = 5
  PipeCap = 1
  Faults = {"source"}
SPECIFICATION FairSpec
INVARIANTS IncrementalKept
