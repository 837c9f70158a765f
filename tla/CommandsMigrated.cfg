SPECIFICATION CommandsSpec
CONSTANTS
  Docs <- SomeDocs
  Inputs <- SomeInputs
  Speaks <- SomeSpeaks
  GivenKeys = {"k"}
  MaxCommands = 2
INVARIANT MigratedForSync
CHECK_DEADLOCK FALSE
