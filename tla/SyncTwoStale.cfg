CONSTANTS
  Tables = {"a"}
  Parent <- MCParent
  NoTable = "none"
  Incremental = {}
  StateBackend = FALSE
  ND = 2
  ODS = {1, 2}
  WithSummary = {}
  Transformers <- OneEach
  Name <- Prefixed
  NoMigrate = FALSE
  MaxMessages = 2
  PipeCap = 1
  Faults = {}
SPECIFICATION FairSpec
INVARIANTS StaleTablesCleaned
