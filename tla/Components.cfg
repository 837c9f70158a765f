SPECIFICATION Spec
CONSTANTS
  Destinations = {"postgresql", "cockroachdb", "duckdb", "sqlite", "mysql", "mssql", "snowflake", "clickhouse", "bigquery"}
  Tables <- TwoTables
  Requests <- TableRequests
  Engines = {"meilisearch", "mongodb", "neo4j", "elasticsearch"}
  Collections <- TwoTables
  Layouts <- SomeLayouts
  Writers = {"postgresql", "duckdb", "sqlite", "mysql", "mssql", "mongodb", "snowflake", "bigquery", "gremlin", "neo4j", "clickhouse", "kafka", "elasticsearch", "meilisearch"}
  RowKeys = {"k1", "k2"}
  Sources = {"s1", "s2"}
  MaxBatch = 2
  MaxSyncs = 3
  BatchSize = 1
  Tries = 2
  Deleters = {"postgresql", "sqlite", "clickhouse"}
  Messages <- SomeMessages
  MaxMessages = 2
  ValueStores = {"mongodb", "neo4j", "gremlin", "meilisearch", "elasticsearch", "sqlite", "mysql", "mssql", "duckdb", "postgresql", "snowflake", "clickhouse", "bigquery"}
  MaxRows = 2
  Page = 1
  Stores = {"s3", "gcs", "azblob", "file"}
  StoreTables = {"t", "u"}
  MaxBatches = 2
  MaxStoreSyncs = 2
  Databases = {"duckdb", "sqlite", "mysql", "mssql", "postgresql", "cockroachdb", "cratedb", "snowflake", "clickhouse", "bigquery"}
  MaxLists = 2
  MaxItems = 4
  ItemBatch = 2
  Transformations <- SomeTransformations
  MaxTransformations = 3
  Contents <- SomeContents
  Sensitives <- SomeSensitives
  Docs <- SomeDocs
  Inputs <- SomeInputs
  Speaks <- SomeSpeaks
  GivenKeys = {"k"}
  MaxCommands = 2
  Points <- SomePoints
  Exporters = {"x", "y"}
  MaxPosts = 2
  MaxTicks = 1
  Targets <- TwoTargets
  MaxBuilds = 2
  MaxRuns = 3
  Pictures <- TwoPictures
INVARIANTS
  TypeOK TableFits NotRefusedLater IndexFits ValuesKept
  Written DeletesMeant
  ObjectsAreBatches
  NoItemMissed RecordFits SensitiveHidden
  LegacyRows
  TelemetryComplete FinalIsWhole
PROPERTIES
  SafeKeeps OnlyStaleGo
CHECK_DEADLOCK FALSE
