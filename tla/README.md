# CloudQuery in TLA+

This directory holds TLA+ models of the CloudQuery CLI and its plugins, TLC
configurations that check them on small instances, and TLAPS proofs. Paths below
are relative to the root of the repository (`src/`). The core is the record path
of `cloudquery sync` under protocol v3, which is proved about as well as checked.
Around it stand the other commands, what the destinations do to tables, rows,
objects and values, a source with a cursor, and the transformer plugins.

    tlc -config PipelineChain.cfg Pipeline.tla
    tlc -config Components.cfg MCComponents.tla
    tlapm PipelineProofs.tla

`PROJECT.json` maps every definition to the lines it models, lists the runs, one
mutant per checked property, the findings and the hazards.

## The system

`cloudquery sync` starts one process per plugin and talks to it over gRPC. A
*source* streams messages (migrate table, insert, delete record, error). Each
*destination* has a write stream. Between them, per destination, is a chain of
*transformer* plugins, each a bidirectional stream. The CLI's goroutines move
messages between the streams; that is where concurrency, ordering and partial
failure meet.

| Component | State | Operations | Hard behaviour | Correct when |
|---|---|---|---|---|
| Transformer pipeline (`cli/internal/transformerpipeline`) | per client `isClosed`, two channels, one stream | `Send`, `OnOutput`, `RunBlocking`, `Close` | one second timers, blocked sends, end of stream through the chain, a failing stage | order kept; nothing lost silently; always ends |
| Sync v3 (`cli/cmd/sync_v3.go`, `summary.go`, `errors.go`) | tables seen, tables to clean, tables skipped, counters, write streams | source loop, pipelines, delete-stale, summaries, close | two paths to one write stream, several destinations, errors that arrive at close only | stale rows deleted after all rows, never after a failure; success means complete |
| Table name changer (`cli/internal/tablenamechanger`) | map old name to new | `LearnTableNameChange`, `UpdateTableName`, `UpdateTableNames` | changes the map it is given | every name translated for every destination |
| Commands (`cli/cmd/sync.go`, `sync_v1.go`, `sync_v2.go`, `migrate*.go`, ...) | running plugins, one source stream, write streams | read specs, start plugins, migrate, sync, delete stale, close | versions of the protocol, an error at close, two lists of transformers | what is reported is stored; no row goes before its source has ended |
| Record transformer (`cli/internal/transformer`) | none | schema and record | columns and keys by write mode | what it makes can be migrated to |
| Spec reader (`cli/internal/specs/v0`) | sources, destinations, transformers | load, expand, defaults, cross checks | duplicates, references, order | each name that is used has a plugin |
| Telemetry receiver (`cli/internal/otel`) | metrics and durations per table | concurrent requests, file writer | several locks, shared structs, shutdown | the file is complete; a duration is the largest |
| Publish (`cli/cmd/plugin_publish.go`, `cli/internal/publish`) | a draft in the registry | some twenty calls in a row | failure anywhere, another try with another build | a final version is one build |
| HackerNews source (`plugins/source/hackernews`) | cursor in a state backend | search, fetch batches, save the cursor | crashes, a moving end and start | no item is skipped |
| Transformer plugins (`plugins/transformer`) | none | transform schema, transform record | a list of transformations of whose results the next are given, JSON keys that change | records fit the schema; sensitive values are hidden |
| Firehose destination (`plugins/destination/firehose`) | current batch | add, send, retry failed records | three limits, partial failure | each record sent, within limits, with the retries documented |
| Destinations with tables (postgresql, duckdb, sqlite, mysql, mssql, snowflake, clickhouse, bigquery) | tables of a database | migrate, write a batch, delete stale, delete records, read | failure between two statements, retries, dialects, types that do not exist | tables fit; no row lost or doubled; values read as written |
| Destinations with indexes (mongodb, neo4j, gremlin, meilisearch, elasticsearch), kafka | indexes, documents, topics | configure indexes, write, delete stale, read | requests that fail one by one, clients that send them again | indexes fit; the same for rows and values |
| Object stores (s3, gcs, azblob, file) | open objects | one object per table and batch | names made of a path, empty objects | each batch is in an object |
| Other sources, login, docs, analytics, scaffold, scripts | none | HTTP calls, files, output | none | |

How they interact: the source goroutine of sync v3 calls `Send` of every pipeline
(inserts) and writes to every write stream directly (migrate, delete). The
function registered with `OnOutput` writes inserts to the same write stream, from
another goroutine. A pipeline is closed by the source goroutine's deferred calls,
and by its own `OnOutput` function on an error. `eg.Wait` joins the source
goroutine and one `RunBlocking` per destination. Delete-stale, summaries and
`CloseAndRecv` follow sequentially. The destinations share nothing with each other or
with the CLI but the messages of their write stream, nor do the source, the
transformer plugins and the commands: each of those is a model of its own.

## Modules

| Module | Models | Composed of |
|---|---|---|
| `RecordStream` | abstract: what the record path of one destination promises | |
| `Pipeline` | `transformerpipeline/pipeline.go`, `identity.go`, and the feeder goroutine of `sync_v3.go` | refines `RecordStream` |
| `PipelineProofs` | theorems about `Pipeline` | extends `Pipeline` |
| `SyncV3` | `sync_v3.go`, `summary.go`, `errors.go`, `table_name_changer.go` | takes each pipeline as a `RecordStream`, and is checked to |
| `MCSyncV3` | tables and transformers' names for TLC | extends `SyncV3` |
| `SyncV3Proofs` | theorems about `SyncV3` | extends `SyncV3` |
| `Firehose` | `plugins/destination/firehose/client/write.go` | |
| `FirehoseProofs` | theorems about `Firehose` | extends `Firehose` |
| `Maps` | maps that grow, in the receiver, the commands and wherever objects and columns are added; tables of types | operators |
| `RecordTransformer` | `cli/internal/transformer` | operators |
| `Dialects`, `Migrations` | migration of tables by eight destinations: what differs, and the procedure | extends `RecordTransformer`, for the tables there are |
| `MigrationProofs` | theorems about `Migrations`, `Indexes` and `ColumnTypes` | extends these |
| `Indexes` | migration of indexes by mongodb, neo4j, meilisearch, elasticsearch | |
| `Writers` | `WriteTableBatch` and `DeleteStale` of fourteen destinations | |
| `Deletions` | `DeleteRecords` of postgresql, sqlite, clickhouse | |
| `ColumnTypes` | SQL types of Arrow types, and back | |
| `Cells`, `Documents` | what is stored of values, and what `Read` makes of it, for thirteen destinations | `Documents` extends `Cells` |
| `ObjectStores` | s3, gcs, azblob, file | |
| `HackerNews` | `items_fetch.go` | |
| `Transformers` | the basic transformer plugin, with jsonflattener between its steps | |
| `PluginProofs` | theorems about `HackerNews`, `Writers`, `ObjectStores`, `Deletions`, `Transformers` and `Documents` | extends these |
| `SpecReader`, `Commands` | `cli/internal/specs/v0`; `sync.go`, `sync_v1.go`, `sync_v2.go`, `migrate*.go`, `tables.go`, `test_connection.go`, `validate_config.go` | `Commands` extends `SpecReader` |
| `MCCommands` | specs and plugins for TLC | extends `Commands` |
| `Receiver` | `cli/internal/otel` | |
| `Publish` | `plugin_publish.go`, `addon_publish.go`, `cli/internal/publish` | |
| `CliProofs` | theorems about `Receiver`, `Publish` and `Commands` | extends these |
| `LibraryProofs` | lemmas on folds, flattened sequences, maps, least numbers and smallest sets | extended by the proof modules below `SyncV3Proofs` |
| `MCComponents` | tables, messages, recipes for TLC | the modules above, one behaviour each; extends `MCCommands` |
| `ComponentProofs` | theorems about `MCComponents`, from those about each module | extends it, `MigrationProofs`, `PluginProofs`, `CliProofs` |

### Pipeline

One action per step a goroutine takes between two points where it can block.

- The feeder (`sync_v3.go:450-497`): `FeedRecord` is the part of `Send` up to its
  select, including the early return when `isClosed` is set; `SendReturns` and
  `SendTick` are the two cases of that select; `SourceEnds` is the end of the
  source's stream. `FeederReturns` includes the deferred `Close`.
- `SendGoroutine` is the goroutine `Send` starts. `SendTick` can leave it behind,
  holding its record, and the model keeps it running.
- Stage *i* is `clientWrappers[i-1]`. `Receive` and `ReceiveErr` are its receive
  goroutine, which holds a record (`recvRec`) or an error (`recvErr`) until the
  loop takes it. `SelectTick`, `SelectRecord` and `SelectErr` are the cases of the
  loop's select, `Forward` and `Output` are `nextSendFn` for inner stages and the
  last one.
- `NextClose` calls `CloseSend` on the next client. `Close` sets the flag of the
  first wrapper only, as the code does.

A record is its number. Every direction of a stream buffers up to `Cap` records,
after which `Send` blocks. The identity client has an unbuffered channel, so its
send and receive are one step. Transformers answer one record with one record, in
order (`plugins/transformer/*`); they are external, and fail only by `Faults`.
Channels of capacity one that carry only the loop's result are folded into the
step that reads them. `passed` is a history variable.

*Time.* `TickPossible` says when the one second timer of a loop may win its
select. Timing `"prompt"`: only when nothing is on its way to that select, that
is, a record or an error arrives within the second. Timing `"slow"`: a transformer
may hold a record for longer, while the CLI's own goroutines stay prompt. The
code justifies neither; both are checked, and they differ (below).

### SyncV3

`pc` is where `syncConnectionV3` is, `src` where its source goroutine is,
`broke[d]` what has failed in the pipeline of destination *d*, and `pstate[d]` what its
`RunBlocking` has returned. One message is
received by `ReceiveInsert`, `ReceiveDelete`, `ReceiveMigrate` or `ReceiveError`
and then handed to the destinations one by one (`FanoutInsert`, `FanoutDirect`),
because other goroutines run in between. `PipeDeliver` is the `OnOutput` function,
`StaleBegin` and `StaleSend` are `UpdateTableNames` and `deleteStale`,
`SummaryBegin` and `SummaryRow` are `sendSummary`, `CloseDest` the closing loop.

`Send` on a gRPC client stream that has already failed may still return nil
(`Lost`) or an error (`Refused`); only `CloseAndRecv` reports the failure for
certain. `HandleSendError` calls it and always returns an error.

Each pipeline is reduced to counters: records in (`sentTo`), records out
(`passedOn`), closed, broken, returned. Property `PathIsStream` checks that this
reduction is again a `RecordStream`, the specification that `Pipeline`
implements when no transformer is slow. `Transformers[d]` is how many transformers
a destination has. When one breaks (`PipeBreaks`), or the `OnOutput` function returns an
error, the loop of that client returns. `Send` then fails only if it was the first
transformer's stream that broke; behind a later one the pipeline fills up, and `Send`
waits. `RunBlocking` returns the error (`PipeFails`) when every loop has returned: with one
transformer or none that is certain, with more it may never happen, as `Pipeline` shows,
and then the source goroutine or `eg.Wait` may wait for ever. `PipeFails` is therefore fair
only for the former, and `SyncEnds` says so.

Assumptions on the source, from `plugin-sdk` as used here: one migrate message
per table, parents first, and no row of a table before its migrate message.

Left out: progress bar, analytics, the summary file, console output, the metrics
of `otel`, the fallback for a schema without a table name.

### Firehose

`Write` runs alone in its goroutine; what is hard here is not concurrency but
three limits, tested at different places, and a service that stores part of a
call. `pc = "row"` is the pair of loops over messages and rows, `pc = "send"` is
inside `sendBatch`, and `after` says to which of its three calls it returns: the
row that did not fit is still to be added (`"append"`), the batch was full
(`"reset"`), or it was the last (`"end"`). `sending` is its parameter `batch`
after `getFailedRecords`, `count` its parameter of the same name: the recursion
of `sendBatch` is a loop.

A row is its number, with a size taken from `Sizes`; a batch is a set of rows.
`PutRecordBatch` stores any subset of what it is given and refuses the rest; when
it returns an error, what it stored is not known. Retries inside the AWS SDK, which
can store a record twice when an answer is lost, are outside this code and left
out. `WriteMigrateTable` and `WriteDeleteStale` messages are ignored by the code.

### Migrations and Dialects

All destinations with tables migrate in one shape, which is `Migrations`: list,
compare, refuse or start, then statement by statement (`Execute`), table after
table or, in snowflake, clickhouse and bigquery, in goroutines. What differs is in
`Dialects`: how a table is normalized, which changes are refused in safe mode, and
which statements are executed for which changes. The wanted tables are the ones the
CLI makes of a source's table (`RecordTransformer`) for the options of
`sync_v3.go`. Any statement may fail, and the program stop before it; the next
request finds what was left. `Indexes` is the same for destinations without
columns. There, what a request does depends on what the server has by then, so
requests (`tasks`) are evaluated when they arrive.

### Writers and Deletions

Syncs of two sources write a batch each to one table and delete what is stale. A
write is a sequence of statements, different for each of fourteen destinations;
`ExecuteStep`, `RetryStep`, `FailStep` and `Crash` are what may happen to the next
of them. A statement that fails may have been applied. `Again` marks those that a client repeats:
postgresql and clickhouse repeat what was not executed, but kafka (`Producer.Retry.Max`)
and elasticsearch (`RetryOnStatus`) send again what some or all of was taken, and kafka has
no idempotence and elasticsearch makes a new id for a document without a key (`SentTwice`).
Documents of a table without a key are in an index of each day, and `DeleteStale` of
elasticsearch asks for another one (`Addressed`). The table is a bag of rows,
a row being a key, the sync and the source it came from, and its place in the batch.
`Deletions` is the one statement that postgresql makes of a message and its
relations, and the statements of sqlite and clickhouse.

### ColumnTypes, Cells and Documents

`ColumnTypes` creates a column of an Arrow type, lists it, and compares with the
type the next sync wants. `Documents` writes a column in batches of rows and reads
it. A value is a class: those that some conversion treats unlike the others, such
as an integer over 2^53, a time with microseconds, a text that is the word `null`.
What is given to a driver for a type, and what is taken from it, are two switches
over the types in the code and two functions here (`SQLiteWrites`, `SQLiteReads`,
and so on); a type missing in one of them is a value that cannot be read. No `Read` asks for
an order, so rows come in any (`Orders`; gremlin's is that of a Go map); elasticsearch is asked
for one page of 100 (`Page`). meilisearch reads page after page until the last; a limit of
the server on how far that goes is not modelled. The tables of
types are records joined by `++` of `Maps`, so SQL types have names that fields can have:
`tinyint_3_unsigned`, `DateTime64_6`, `double` for `double precision`.

### ObjectStores, HackerNews, Transformers

`ObjectStores` begins at the spec, as what is validated and filled in decides which
objects get the same name. `HackerNews` is a run of `fetchItems` after the other,
each of which may stop anywhere, while items appear and are deleted and a relative
`start_time` moves. `Transformers` applies a list of transformations to the schema
first and then to a record of one row, as the plugin does. A cell remembers which
column of the source it is from, and of its parts which are left, under which key, and
what has become of them (`Was`). The parts of a JSON cell are the values at paths; the
paths `p`, `P`, `pQ` and so on tell keys that a change of case changes, and the part `word`
stands for `true`, `null` or an escape, which upper case makes no JSON. What the source says
is sensitive (`Sensitives`) is columns and paths, kept in the metadata of the schema under
the names of the source.

### Commands, Receiver, Publish

`Commands` reads specs (`SpecReader`), starts plugins, and runs up to two commands
one after the other on the same destinations. The syncs of protocols 1 and 2 are
modelled call by call, with streams that break at any time and are heard of only
at their end. Protocol 2 closes each stream behind its delete-stale and returns the error;
protocol 1 reports its success (`Report`) and closes after that (`CloseAll`), where an error is
only logged. A sync of protocol 3 is one step, as `SyncV3` is about it. `Receiver`
has requests of several plugins, the renderer and the shutdown. `Publish` runs the
command up to three times, with either of two builds, failing anywhere.

## Runs

`Pipeline`:

| Run | Question | Instance |
|---|---|---|
| `pipeline_chain` | are order and completeness kept in a chain, does it implement `RecordStream`, does it end when nothing fails or when cancelled | 2 stages, 3 records, buffers of 1, every fault |
| `pipeline_identity` | order, completeness, and an end in every case, without transformers | 3 records; source and destination may fail, cancellation |
| `pipeline_slow` | *violated* (`NoSilentLoss`): a slow transformer's record is lost | 2 stages, 2 records |
| `pipeline_hang_transformer` | *violated* (`FailureEnds`): a failed stage hangs the chain | 2 stages, 2 records |

`SyncV3`:

| Run | Question | Instance |
|---|---|---|
| `sync_all` | what a successful sync has written, in which order; what a failed one may not do; does it end, unless something fails in a pipeline of two transformers; are its pipelines record streams | 2 destinations, one with two transformers and one with one; one cleans and writes a summary; a parent and a child table; a renaming transformer; every fault |
| `sync_incremental` | an incremental table keeps its whole family, and nothing of it is cleaned, also with `--no-migrate` | 4 tables: three generations and one apart; names unchanged |
| `sync_two_stale` | *violated* (`StaleTablesCleaned`): the second destination is not cleaned | 2 cleaning destinations |

`Firehose`:

| Run | Question | Instance |
|---|---|---|
| `firehose` | does any call exceed a limit, is a row sent twice or forgotten, does `Write` return | 4 rows, 2 tries, any answers |
| `firehose_last_try` | *violated* (`GivesUpWithRecords`): a last try that succeeds is reported as a failure | 2 rows, 2 tries |

The others:

| Run | Question | Instance |
|---|---|---|
| `components` | what migrations, writes, deletions, uploads, transformations, commands, metrics and publications leave behind when any step fails; what is read of what was written | see below |
| `commands_migrated` | *violated* (`MigratedForSync`): `migrate` and `sync` chain transformers in different orders | the specs of `components`, 2 commands |
| `hackernews_start` | *violated* (`AtLeastOnce`): the first item after `start_time` is not fetched | 3 items |

The components in `components` share no state, so their behaviours need not be
interleaved: each initial state of `MCComponents` chooses one of them, the variables
of the others stay as they are, and the states are those of the components added
up, not multiplied. One run instead of twelve keeps the instance and its tables in
one place. Its properties are conjunctions over the components where several
have one in common (`TypeOK`, `SafeKeeps`, `ValuesKept`). Numbers of syncs, runs,
commands and requests are bounded and the model then stops, so deadlock is not
checked; nobody waits for anybody in these models.

| Component | Property | Says |
|---|---|---|
| `Migrations` | `TableFits` | a migration that succeeded left the wanted columns, types and key, whatever it found and whatever failed before |
| | `NotRefusedLater` | a safe migration that was broken off can be repeated |
| | `SafeKeeps` | a safe migration drops no table (and no index, `Indexes`) |
| `Indexes` | `IndexFits` | a migration that succeeded left an index over the wanted key and columns |
| `Writers` | `Written` | a write that succeeded stored every record once, the last of each key; no key twice, even between statements; without a key kafka and elasticsearch at least once |
| | `OnlyStaleGo` | rows go for a row of their key, or as stale ones of the same source; afterwards none of those is left, where the destination deletes them |
| `Deletions` | `DeletesMeant` | exactly the selected rows go, with their relations at any depth |
| `ColumnTypes`, `Documents` | `ValuesKept` | a listed type is the wanted one; every row is read once, as it was written, in any order |
| `ObjectStores` | `ObjectsAreBatches` | no batch replaces another; no empty object beside rows |
| `HackerNews` | `NoItemMissed` | what the saved cursor has passed was handed on, deleted, or is too old |
| `Transformers` | `RecordFits` | records have the columns, keys and types of the schema, each with its own cell |
| | `SensitiveHidden` | no value of a sensitive column, or at a sensitive path, leaves |
| `Commands` | `LegacyRows` | what protocols 1 and 2 report is stored, or its stream broke after the report and that was logged; no row is lost before its source has come to its end |
| `Receiver` | `TelemetryComplete` | the closed file has all that was consumed before the shutdown; durations are the largest |
| `Publish` | `FinalIsWhole` | a final version is of one build in all its parts |

Why the bounds are enough. The pipeline's hazards need a stage that is first and
one that is not (two stages have both), a full buffer (`Cap` = 1, three or more
records fill slots and buffers of a stage; six fill a chain of two), and a record
in every place while a timer fires. All of order and loss is proved for every
bound. For the sync, one message of each kind after the migrate messages is
enough to put a row in a pipeline while a direct message passes it; two
destinations are enough for one to differ from the other; three generations are
enough to tell "parent" from "ancestor". For Firehose, sizes 1, 2, 4 and 5 with limits of
2 records, 3 bytes per batch and 4 per record give rows that fit, that
fill a batch, that exceed a batch but not the limit of a record, and that are
left out; four rows make a second batch after either limit was reached, and two
tries are enough for a first, a last and one too many.

In `components` the tables have a column of each kind that a dialect treats in its
own way, alone and in every combination of key, NOT NULL and unique, and two
tables are enough for one to fail after or beside another. Three syncs of two
sources, of at most two records and two keys, give a repeated key, a row of another
source, a row of an earlier sync, and a retry of each statement. Kafka and elasticsearch without a key, where a retry may store
rows again, have two syncs (`FewSyncs`); nothing is ever deleted there. Two rows in one
record or in two tell the row of a null from those beside and behind it, and a page of one row
(`Page`, 100 in the code) those that elasticsearch gives from those it does not. Deletions
have three generations and where clauses of up to two groups. Four items in batches
of two have a full, a last and an empty batch and a search of two steps. Three
transformations reach a column that one adds or renames and another removes, or a path whose
case one changes and another hides; a JSON cell holds a path in lower case, or one in both cases
with a word beside it. Two
commands are a migration and a sync, or a sync and the next. Two exporters with
two points each make a row that is changed while it is rendered. Three runs with
two builds make a draft of one that another goes on with.

Every property of a passing run has a mutant: a variant of a modelled definition,
as a plausible bug would change it, under which TLC finds the property violated.
Mutants stand just before the definition they vary.

### Findings

1. **A slow transformer's record is dropped** (`pipeline.go:156`). The first loop
   returns one second after `Close` if nothing came out of its transformer in
   that second, even though records went in. It closes the next client, every
   loop returns nil, and the sync reports success with a record missing.
2. **A failing transformer hangs a chain** (`pipeline.go:169`). Its loop returns
   the error but neither closes the pipeline nor the next client, and only the
   first wrapper's flag is ever set. The next loop waits for ever.
3. **A failing destination hangs a chain** (`pipeline.go:112`). The first loop
   blocks in the `Send` to a stage that is no longer read. It is a second way to
   break `FailureEnds` and has no run of its own; TLC shows it with `Faults =
   {"destination"}` and `MaxRecords = 6`.
4. **Only the first destination is cleaned** (`table_name_changer.go:29`).
   `UpdateTableNames` deletes from the map it is given, which all
   overwrite-delete-stale destinations share.
5. **`--no-migrate` cleans under the old name** (`sync_v3.go:556`). Names are
   learned after the `continue`. It is a second way to break `StaleTablesCleaned` and has no
   run of its own; TLC shows it with `NoMigrate = TRUE`, `ND = 1` and `ODS = {1}` in `SyncTwoStale.cfg`.
6. **Firehose gives up although the last try succeeded** (`write.go:109`). The
   retry limit is tested before the test for an empty batch, so a batch that the
   last allowed call completed is an error, and with `max_retries: 1` every
   batch is.
7. **The first item after `start_time` is skipped** (`items_fetch.go:72`). The cursor
   means the last item fetched, and is set to the first one that is wanted.

8. **elasticsearch keeps stale rows without a key** (`delete_stale.go:38`). They are in an
   index of each day, `DeleteStale` asks for the index with the name of the table, and
   `index_not_found_exception` counts as success.
9. **Protocol 1 reports what is not written** (`sync_v1.go:115`). The streams are closed
   behind "Sync completed successfully", and what `CloseAndRecv` returns is only logged.
10. **Delete-stale takes rows that were given again** (`sync_v2.go:244`, `sync_v1.go:183`). It is
    called before the stream with their new versions is closed; when the destination then
    fails, neither is there.
11. **Two orders of transformers** (`migrate.go:190`, `sync.go:395`). `migrate` chains them as
    the destination lists them, `sync` as they come in the files; the tables of one are
    not those that the other, with `--no-migrate`, writes to.

Findings 8, 9 and 10 have no run of their own: the model does what the code does, and the
properties of `components` name them as the exceptions they make, in the table below.

From the hangs of 2 and 3 cancelling the command still helps (`CancelEnds`).

### What the properties let pass

Where the code is known not to do what a property says, the property names the case and is checked for all others. These are the places to
look at in a review:

| Property | Lets pass | Because |
|---|---|---|
| `TableFits` | `PassedOver` | postgresql forgets other changes when a key moves to `_cq_id`; snowflake a type beside a change of key or NOT NULL |
| | `Misread` | sqlite takes a table that it failed to list for missing |
| | `ProcFits`, second case | mssql skips an unchanged table, and with it a procedure that an earlier call left behind |
| `NotRefusedLater` | cockroachdb | the key and NOT NULL are changed in two transactions |
| `IndexFits` | `ColumnsFit` | meilisearch skips an index that has no attribute but wanted ones (`index.go:109` compares the union with the wanted ones by length, although the comment speaks of "the same filtered attributes"), so a new column does not become filterable; a broken call of meilisearch leaves the sortable columns unset for good |
| | `alien`, `found` | mongodb and neo4j leave an index that has the key or the name; elasticsearch leaves the mapping of existing indices |
| `Written` | `OtherWinner` | with a repeated key in a batch mssql and snowflake, and duckdb with lists, do not store the last |
| | `SentTwice` | kafka and, without a key, elasticsearch may have a record twice: their clients send again what was taken |
| `OnlyStaleGo` | duckdb with lists | rows are deleted before they are inserted again |
| | the same second | sqlite and elasticsearch compare seconds |
| | `DeletesStale` | kafka, bigquery and meilisearch delete no stale rows; of elasticsearch finding 8 |
| `DeletesMeant` | `Meant` | sqlite and clickhouse ignore relations and are not atomic; postgresql needs parents first, and a last group of predicates that is not empty |
| `ValuesKept` | `WithoutUint64` | some databases list an unsigned column as a signed one |
| | `Asked` | elasticsearch gives one page of 100 rows and is silent about the rest |
| | `KnownLoss` | mongodb keeps milliseconds, mysql, duckdb, postgresql and bigquery microseconds, mssql 100 ns, elasticsearch eight digits; neo4j moves the values behind a null up; gremlin and postgresql strip NUL; numbers of JSON over 2^53 are rounded by mongodb, postgresql and meilisearch, integers by meilisearch and elasticsearch; snowflake reads the text `null` as a null; clickhouse turns nulls inside lists and structs beside a null one into zeros; bigquery has no nulls in lists, and reads an empty one as null |
| | `KnownFailure` | elasticsearch refuses times of day without a fraction; snowflake cannot read an empty list, or one of JSON objects with several members |
| `ObjectsAreBatches` | `OverwritesInGCS` | gcs accepts a path with variables but without `{{UUID}}` while batching is on (`spec.go:107`), which s3 and file refuse: batches replace each other, against the comment on `no_rotate` |
| `NoItemMissed` | `skipped` | finding 7 |
| `RecordFits` | removing or upper case before flattening | a null in a JSON column has become the text `(null)` by then, or `true` has become `TRUE`; the flattener fails on what is no JSON |
| `SensitiveHidden` | rename, flatten before it | sensitive columns are known by their names in the source |
| | a change of case before it | a path is looked up under its key in the source, and is not found when the case of the whole column was changed |
| `LegacyRows` | `logged` | finding 9 |
| | `ended` | finding 10 |
| `StaleTablesCleaned` | only in its instance: one cleaning destination, no `--no-migrate` | findings 4 and 5 |
| `SyncEnds` | `broke`, with more than one transformer | findings 2 and 3 |
| `TelemetryComplete` | after `quit` | the servers are shut down after the file is closed |
| `FinalIsWhole` | `unseen` | errors in the streams of Docker are not read with `--log-console` |


## Fairness

Weak fairness of each goroutine: the Go scheduler runs every goroutine that can
run. Of each transformer that has not failed, on the assumption that it answers
at some time. Of the feeder as a whole, and the model bounds the source's
messages, so the source's stream ends. Firehose is one goroutine, with weak
fairness of all it does: the service answers every call, with whatever result.

No fault has to happen: wherever a fair action may fail it may also go on, except
that the feeder's stream breaks once the command is cancelled. In the sync `SourceFails`
and `PipeBreaks` are in no fair action. `PipeFails` reports what has failed already, and is fair
where the pipeline has one loop: that returns, and `RunBlocking` with it. No order between goroutines is
assumed. `Termination`
therefore says that the run ends whether or not a fault happens. For a chain it
does not hold; `HealthyEnds` and `CancelEnds` say what does: a run ends when
no stage and no destination has failed, and when it was cancelled.

`Terminated` stutters once the run has ended, so that TLC's deadlock check finds
every other stop; `pipeline_hang_transformer` turns it off, as the hang itself is what it
shows as a violation of `FailureEnds`.

## Proofs

`PipelineProofs` proves, for every `N`, `Cap`, `MaxRecords` and set of faults, from
`PipelineAssumption` only:

- `TypeCorrect` and `OrderKept`: `TypeOK` and `InOrder`, for either timing. The
  inductive invariant is `FlowInv`. `InOrder` alone is not inductive: it does not
  say what is in the buffers. `Flow` describes one stage as a window of
  consecutive records, spread over its places (loop, receive goroutine, stream
  out, stream in) from the exit to the entry, and the record counts at the two
  ends. Each kind of move inside a window is a lemma about `Flow` alone
  (`FlowEnter`, `FlowTransform`, `FlowReceive`, `FlowSelect`, `FlowLeave`,
  `FlowIdentity`). One lemma per moving action lifts it to the stages.
- `NothingLost`: `NoSilentLoss`, when timing is prompt. The invariant is `DrainInv`
  on top of `FlowInv`: a stage that returned without an error has passed on
  everything that entered the pipeline, and nothing can enter any more. By
  induction along the chain this needs `CloseSend` only ever called by a stage
  that has itself drained, and a timer that fires only on the closed first stage
  with nothing on its way. The second fails with a slow transformer: finding 1.
- `PipelineImplementsStream`: the refinement of `RecordStream` under the mapping in
  `Pipeline`, when timing is prompt. Steps offer a record, deliver one, end the
  run, or stutter (`StepKinds`); after the end nothing the outcome depends on
  changes (`FinishedStays`).

`SyncV3Proofs` proves, for every number of destinations, tables and messages and
any faults, from `SyncAssumption` only:

- `SyncInvariant`: `SyncInv`, the conjunction of `TypeOK` and four parts. None of the
  properties is inductive without them, as each relates the end of a sync to
  what happened to every row before. `FanInv` says how many inserts each pipeline
  was offered in each phase of the source's goroutine, one fewer for the
  destinations the loop has not reached; and that a pipeline that returned
  without an error was closed and is empty. `PhaseInv`: after `eg.Wait` nobody
  has failed, and before it there is no stale message. `WroteInv`: a write stream
  holds, among other messages, the first `passedOn[d]` inserts in order under
  their new names, all of them unless it is down, and a stale message only after
  all the source's. `CloseInv`: a destination already closed was not down.
- `SyncTypeCorrect`, `FailureKeepsRows` (`FailedSyncKeepsRows`), `StaleRowsLast`
  (`StaleAfterAllRows`) and `SuccessIsComplete` (`CompleteOnSuccess`) follow from it.
- `MigrationsFirst`: `MigrateBeforeInsert`. Rows and migrate messages reach the
  same stream on different paths. `MigrateInv` adds that a table is migrated at
  each destination the loop has passed before the source can send its first row.
- `PathImplementsStream`: a destination's path, as the counters of `SyncV3` describe
  it, implements `RecordStream` (`PathIsStream`). With `PipelineImplementsStream` this
  closes the composition: what the sync takes a pipeline to be is what the
  pipeline was shown to do.

What happens to stale rows needs more, `StaleInv` (`StaleInvariant`): what the map of a
destination that renames has learned from the migrate messages handed on, that
`skippedFromDeleteStale` has every kept table once a row of it or of an ancestor was
seen, and that each stale message has the name of a table to be cleaned. From it:

- `KeptRowsSurvive`: `IncrementalKept`, if no transformer gives a table that is
  cleaned the name of one that is kept (`NamesApart`). The hypothesis is needed: the
  code skips tables and deletes names.
- `AllStaleCleaned`: `StaleTablesCleaned`, if at most one destination cleans, and
  with `--no-migrate` if none renames (`CleansAlone`). This is how far findings 4
  and 5 reach: what they break holds as soon as neither applies.
- `SummaryComesLast`: `SummaryIsLast`, from `SyncInv` alone.

`FirehoseProofs` proves, for every value of the limits, any sizes and any answers,
from `FirehoseAssumption` only, `FirehoseInvariant` and from it `FirehoseTypeCorrect`,
`RecordLimitKept` (`RecordLimit`), `NoRowSentTwice` (`NoRowTwice`) and `WriteIsComplete`
(`CompleteOnOk`). `BatchInv` bounds the batch between rows, where it is not yet
full, and inside `sendBatch`, where it may be; a retry sends part of it. `StoreInv`
says where each row is: stored, in the batch, or the one row that waits
for the batch to be sent; and which part of the batch is stored already.
`ByteLimitKept` (`ByteLimit`) rests on `BytesInv`, that `batchSize` is the sum of the
sizes in the batch, and on lemmas about that sum: it does not depend on the order in
which rows are taken, and is not greater for a part of them (`SumSubset`), which is
what a retry sends.

`PluginProofs` proves about `HackerNews`, for any number of items and any size of a batch, from
`HackerNewsAssumption` only, `CursorInvariant` and from it `NoItemIsMissed`
(`NoItemMissed`). `NoItemMissed` speaks of the saved cursor only and is not inductive:
`SearchInv` adds that every item before `low` is too old and the run's cursor still the
saved one, `FetchInv` that nothing before the run's cursor is left to do and that of
the batch behind it each item is being fetched, handed on or gone, which is what
`SaveCursor` needs when `fetching` is empty; `CursorInv` keeps all cursors within the
items there are. `DoneTo` only grows with `deleted`, `sent` and `start_time`, so nothing
that the API does between two steps disturbs it.

About `Transformers` it proves, for any transformations and any length of the list, any contents
of JSON cells and any sensitive columns and paths, over
the rows that the model's source sends (three columns, any of them null), from
`BasicAssumption` only, `BasicInvariant` and from it:

- `RecordsFitTables`: `RecordFits`. The invariant says that the schema of what has been made of
  the record is one that the transformations still to come lead from to the promise
  (`Leads`): `TransformSchema` and `Transform` run the same functions, and each of them makes
  of a record without its rows what it makes of the record, without its rows (`Good`, one
  lemma per kind; `ApplyTransforms` joins them). The exception is where the code looks at
  values to decide whether it can go on: the flattener refuses a JSON column that
  holds no JSON, be it the text `(null)`, which only `remove_columns` writes, or a word in
  upper case (`AllJSON`, `Spoils`, `MayFail`).
- `SensitiveValuesHidden`: `SensitiveHidden`. Every cell of a record was added or is what is left
  of a cell of the source's (`Descends`, `From`, which also says in what way parts may have
  changed), so what is hidden stays hidden (`SafeFor`). That it is hidden once needs that each
  sensitive column is the first of its name (`FirstNamed`), as the code finds columns by
  name, and for a path that its value is still under its key (`UnderKey`). A rename or
  a flattener changes the former, and a change of case of the whole column the latter
  (`Renames`, `Rekeys`); the code's other steps add names behind those there are.

`MigrationProofs` proves that safe mode keeps what there is (`SafeKeepsTables` and
`SafeKeepsIndexes`, action properties), for any destinations, tables and
requests that `MigrationsAssumption` and `IndexesAssumption` allow, and for tables left
by whatever calls and failures there were before. For tables (`SafeMigrationsDropNothing`)
the invariant `MigrateInv` says that what a call in safe mode has yet to execute has no
`drop` in it: a change that is not refused is one for which every dialect's plan is made
of statements that keep the table (`PostgresPlan` to `BigQueryPlan`, one lemma per
dialect; `StatementsIn` joins them). The second half is what the statements do: none of
them but `drop` leaves a table without columns (`EffectColumns`). For indexes
(`SafeMigrationsKeepIndexes`) the requests are evaluated one after the other, and the answer
to one may put others in front of the rest: `FollowIn` shows that in safe mode those
delete nothing either, although mongodb and neo4j first try and then ask what is in the
way.

It also proves what the statements of a plan add up to (`MigratedTablesFit`: `TableFits`,
`NeverRefusedLater`: `NotRefusedLater`). The invariant
`FitInv` says of each table, at any time between the check and the end of a call, that
what is wanted (`new`), the table there is and the rest `p` of the plan fit together
(`Stands`): either the table is yet to be made by `p` (`Remaking`), or it has only changes
the dialect can make (`CanChange`), `p` has only statements that alter (`AlterOps`,
`PlanSuits`), and for every difference that is left there is a statement in `p` (`Remains`).
A plan is read as the set of its statements (`Has`), so that the argument has
one case per statement and not one per order. `StatementsFit` shows that what each dialect plans
is such a plan (one lemma per dialect), `AlteringStep` and `ProgressStep` that any
statement, with the row it takes in `Effect`, keeps this true of what is left; a table whose plan
is empty then has no difference left (`FinishedFits`). When a statement fails the rest of the plan
may be lost, `Remains` with it, but `CanChange` stays, and that is why the same request is not
refused later (`StandsNotRefused`). Two properties of the code come out as needed here: the
columns of a key are NOT NULL on postgresql and cockroachdb (`KeyNotNull`), and on mssql a
column of strings is not "large" only when it is one of the key (`Suited`). The last conjunct of
`MigrationsAssumption` is that requests have finitely many columns with the fields of
`schema.Column`.

For indexes the same is proved of the requests of a call (`MigratedIndexesFit`: `IndexFits`).
`FittingInv` says of each table that an index which is not
as wanted has a request that waits for it (`IndexStands`, one part per destination). A request
only `Awaits` others: those that its answer puts in front (`Follow`) and those that are behind it
come in pairs (`Paired`), so that after a deletion the creation is still to come, and after the
creation the configuration. Three facts are about meilisearch only: `filter` and `sort` are sent as soon as
`configure` has asked for them (`Early`), an index whose attributes differ has been broken off at
(`SortedWhole`), and one that is taken for configured has no other columns, which is about
the lengths that the code compares (`ConfiguredMeans`) and needs the third conjunct of
`IndexesAssumption`: a table has finitely many columns. When a request fails nothing waits any
more, and the next call asks again, but for neo4j in forced mode, where it is the answer
to drop and create.

About `ColumnTypes` it proves `TypesAreAlwaysKept` (`TypesKept`, one half of `ValuesKept`), for any of the
ten databases, any Arrow type and lists of any depth, from `TypesAssumption`. The invariant `TypesInv`
is short: the column was created from the wanted type, and what is listed is one of the names
its database lists that column by. The work is in what the types are then: per database,
which SQL type each Arrow type becomes once it is normalized (`normalizeTable`), by which
names that may be listed, and that every one of them leads back (`Relisted`); and that no integer type
becomes a smaller one (`Roomy`). One lemma per database (`DuckDBKeeps` and the others; clickhouse
has `ClickHouseStays`) goes through its tables; bigquery is not asked for the way
back (`BigQueryRoomy`), as its migration compares BigQuery's own types.

Of the destinations `PluginProofs` proves:

- `BatchesAreKept`: `ObjectsAreBatches`, from `ObjectStoresAssumption`, for any tables and
  batches. `StoreInv` adds what is open and under which name (`NamesInv`), that only a
  migration makes objects without rows (`EmptyInv`) and that every batch which has
  ended is in the object of its name (`EndedInv`). It needs that two batches have two
  names (`NamesApart`), which follows from what `Validate` and `SetDefaults` leave of a
  path (`SpecShape`), but for gcs as in the table above.
- `DeletesAreMeant`: `DeletesMeant`, from `DeletionsAssumption`, for any messages, number of
  predicates and relations, and length of the batch, over the rows of three generations.
  `DeleteInv` says that the rows left are those that the first messages, executed
  one after the other, leave. For postgresql the statement of a message collects rows
  relation by relation, each time from those collected before; the property looks from
  each row up to its ancestors. `DeletedAre` and `MeantAre` show that both are the rows
  whose line, within the tables of the message, has a selected row; `RelationAdds` is the step, and
  needs that a relation comes after the one of its parent and only once, which is
  what `ValidRelations` says.

About `Writers` it proves, from `WritersAssumption`, for any of the destinations, any number of
syncs, sources, keys and records, any size of what postgresql sends together and any
number of attempts:

- `RowsAreWritten`: `Written`. The invariant `WriteInv` relates the batch, the statements that
  are left and the table. `Between` says that the statements take the records of the
  batch in their order (`RowsInOrder`), that a row of this sync is a record of the batch from
  before those still to come (`OfThisSync`), that duckdb has deleted what it is about to insert
  again (`Clean`), and that a key has one row, or a record is there once (`OneEachOf`) unless it may be sent
  again without an id;
  `WriteProgress`, as long as nothing has failed, that each record is in a statement to come
  or has a row of its key from this sync which is not older. None of this needs
  to know the destination, but for one lemma each: that what its write begins with are
  statements of the whole batch in order (`PlanOfPostgres` to `PlanOfDuckDB`, `OnePlan` for the
  others; `WritePlan` joins them). `Chunks` is that of postgresql, where the arithmetic of
  the last, shorter chunk is. The other half is what statements do: rows are executed one
  after the other, and `AfterSteps` gives the bag after each of them. The exceptions that
  the property makes for a key that is twice in a batch are what the proof needs:
  snowflake's merge, the procedure of mssql and duckdb with lists are where a record need
  not replace an earlier one (`AllCover`).
- `StaleRowsGo`: `OnlyStaleGo`, from the same invariant, and `InstantIs` about the destinations
  that compare times in seconds.
- `WritersTypeCorrect`: `WriteTypeOK`.

Of values, it proves `RowsReadBack` (`ReadBack`, the other half of `ValuesKept`), for any of the thirteen
destinations, any type of column, any values and any number and size of records, from
`DocumentsAssumption`. It goes from the inside out:

- A scalar is stored with a kind that `Read` takes for the type, and what comes back is
  the value, or its class is one that `ScalarLoss` names for this destination (`DocumentScalars`,
  `CellScalars`, joined by `Scalars`). This is where the two switches of each destination meet.
- A row is a scalar, a null or a list. Lists are so element by element, as a list or as a
  text (`ListsStored`, `Rows`); the exceptions are those of `KnownLoss` and `KnownFailure` above.
- A column of a record has the rows of the record, in order (`ColumnsRight`), but for neo4j,
  which leaves nulls out (`WithoutNullsKeeps`, `Neo4jColumns`: the rows before the first null
  stay where they are), and clickhouse (`sanitizeNested`, `ClickHouseColumns`).
- The records one after the other are the answer, each row at its place (`RowsWritten`; the
  lengths agree record by record, `FlattenAlike`). What `Read` gives is these rows in
  some order, or a page of them.

`DocInv` then says that before `Read` every row is stored in a form that it takes, and that it
is read as the value of its place or is one of those lost.

`CliProofs` proves, from `ReceiverAssumption`, `PublishAssumption` and `CommandsAssumption`:

- `TelemetryIsComplete`: `TelemetryComplete`, for any exporters and points. `PlacesInv`
  makes values comparable (a value is the place of its point in what was consumed),
  `RenderInv` says that the rows which the last rendering has read are not older than
  those of the moment `quit` was closed, and `LargestInv` is about the durations.
- `FinalIsAlwaysWhole`: `FinalIsWhole`, for any targets, builds and failing runs, and
  `FinalStays`, that no step changes a final version. `PublishInv` says, per step of a
  run, which parts of the draft are of the build of this run by now; it is an invariant
  although a run may find the draft of another, as each step overwrites what it is about.
- `LegacyRowsKept`: `LegacyRows`, for any specs, plugins and keys, and any number of commands one
  after the other. The invariant `CommandsInv` says where the loops over sources and
  destinations are (`ControlInv`), that the streams hold rows of this source and command
  only (`StreamsInv`), and how far each destination is (`DeliveredInv`): unless its stream is
  failing, every row fetched is stored or on its stream, and a destination of protocol 2 that
  is closed has all of them stored and none that is stale. `ReportsInv` is about the sources
  that were reported: those before this one, and this one too while protocol 1 closes its
  streams, after which each destination has the rows or is in `logged`. That what was
  reported is stored is not inductive without it, as
  destinations are closed one after another and later sources write to the same tables
  (`GrowsKeeps`, `TouchesKeeps`: what they do leaves other sources' rows as they are). That the
  destinations of a source are each there once (`DestsAreOnce`) comes from the spec
  reader: whatever the documents, those it accepts have distinct names (`SpecsAreSound`).
- `ClientsAreFound`: `ClientsFound`. `ClientsInv` says which plugins run while a command does; that
  these are all it looks up comes from the spec reader again, and from the order in which
  `sync` takes transformers being a selection of the documents (`OrderIsOf`).

`ComponentProofs` carries these results over to `MCComponents`. A behaviour of its `Spec` is one
of every component, as `Others` keeps the variables of all but the one that moves
(`RunMigrates` to `RunPublishes`, one lemma per component). So `Spec` has all that is proved of
the components: `RunTypeCorrect` (`TypeOK`), `SafeMigrationsKeep`, `RunTablesFit`, `RunIndexesFit`,
`RunRowsKept`, `RunValuesKept` (`ValuesKept`), `RunRecordsRight` and `RunCliRight`; with them every
property of `components` is a theorem.

`LibraryProofs` has what they share: `FoldLeft` and `FlattenSeq` are defined by recursion in
the community modules, and what they give is shown by looking at a smallest
counterexample (`LeastNumber`, `SmallestSet`, from the well-foundedness of the numbers and
of the subsets of a finite set). This is induction without the induction theorems of the
library, which take an operator as a parameter and cannot be used with the provers
here. The maps of the models are those of `Maps` where something is proved about them, as the
provers know nothing of `@@` and `:>`. A table of many parts is looked up part by part
(`OverIn`, `OverAt`, `SameIn`, `SameHas`), and sequences of sequences are compared part by part
(`FlattenAlike`, `FlattenedAlike`).

The invariants of `Pipeline`, `SyncV3`, `Firehose`, `HackerNews` and `Commands` were checked with
TLC on the instances above before they were proved; of the other components the properties were.
Only model-checked: liveness (`Termination`, `HealthyEnds`, `FailureEnds`,
`CancelEnds`, `SyncEnds`, `WriteEnds`), as liveness under fairness needs reasoning
about `ENABLED` that the prover does not support; `StaleTablesCleaned` and
`IncrementalKept` beyond the hypotheses above (the former is false in general, finding 4).
`RECURSIVE` operators are out of the prover's reach as well; no module declares one.
Of `components` nothing is only model-checked.

## Not modelled

- Embeddings and performance indexes of postgresql, partitions, TTLs and engines of
  clickhouse, partitioning of bigquery, topics of kafka: options that add to a
  statement without changing what the properties are about.
- Formats of files (csv, json, parquet) and the connection tests: libraries, and one
  call whose result is printed.
- Shards, the location of the summary, progress bar and analytics of `sync`: output.
- `init`, `ai`, `install`, `doc`, login and accounts: dialogues, downloads and pages
  without a state that a step of another actor could disturb.
- Plugins in other languages, thin sources, the test destination, scaffold and
  scripts.
- The plugin SDK, from which batches, delete-stale and the state backend come, is
  not part of the repository; it is modelled from how the plugins use it, as are the
  databases and services.

## Plan

1. Done: `RecordStream`, `Pipeline`, `SyncV3`, `Firehose` and their proofs, and the
   proof of `NoItemMissed` of `HackerNews`.
2. Done: the source's cursor, the destinations, the telemetry receiver, the commands
   and the transformer plugins, checked in `components`.
3. Done: the proofs of `SafeKeeps`, `ObjectsAreBatches`, `DeletesMeant`, `TelemetryComplete`,
   `FinalIsWhole`, `Written`, `OnlyStaleGo`, `RecordFits`, `SensitiveHidden`, `LegacyRows`,
   and of what is left of `SyncV3` and `Firehose` but liveness.
4. Done: `TableFits` and `NotRefusedLater`, by the effect of whole plans, `IndexFits`, by that
   of the requests of a call, and the composed run.
5. Done: `ValuesKept`, by cases over the types and values of each destination.
