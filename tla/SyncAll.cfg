CONSTANTS
  Tables = {"a", "b"}
  Parent <- MCParent
  NoTable = "none"
  Incremental = {}
  StateBackend = FALSE
  ND = 2
  ODS = {1}
  WithSummary = {1}
  Transformers <- TwoAndOne
  Name <- Mixed
  NoMigrate = FALSE
  MaxMessages = 4
  PipeCap = 1
  Faults = {"init", "source", "schema", "transformer", "destination", "close"}
SPECIFICATION FairSpec
INVARIANTS TypeOK StaleTablesCleaned CompleteOnSuccess MigrateBeforeInsert SummaryIsLast StaleAfterAllRows FailedSyncKeepsRows
PROPERTIES SyncEnds PathIsStream
