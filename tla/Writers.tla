------------------------------ MODULE Writers -------------------------------
(***************************************************************************)
(* WriteTableBatch and DeleteStale of the destinations with tables, labels *)
(* or indexes: plugins/destination/{postgresql, duckdb, sqlite, mysql,     *)
(* mssql, mongodb, snowflake, bigquery, gremlin, neo4j, clickhouse, kafka, *)
(* elasticsearch, meilisearch}/client.                                     *)
(*                                                                         *)
(* Syncs of two sources write one batch each to the same table and then    *)
(* delete what is stale. A write is a sequence of statements, which differ *)
(* by destination, and so does what each of them does to the rows of the   *)
(* table. Any statement can fail, applied or not, some are tried again,    *)
(* and the program may stop before any of them. What the databases do with *)
(* a statement is external; batches are cut by the SDK.                    *)
(***************************************************************************)
EXTENDS Naturals, Sequences, Bags, SequencesExt

CONSTANTS
  Writers,      \* the destinations of this instance
  RowKeys,      \* values of the primary key
  Sources,      \* sources that sync to the table
  MaxBatch,     \* records in a batch, at most
  MaxSyncs,     \* syncs, at most
  BatchSize,    \* postgresql: rows sent together
  Tries         \* attempts of a statement that is retried

ASSUME WritersAssumption ==
  /\ Writers \subseteq {"postgresql", "duckdb", "sqlite", "mysql", "mssql", "mongodb",
                        "snowflake", "bigquery", "gremlin", "neo4j", "clickhouse",
                        "kafka", "elasticsearch", "meilisearch"}
  /\ Sources # {} /\ {MaxBatch, MaxSyncs, BatchSize, Tries} \subseteq Nat \ {0}

VARIABLES
  writer,    \* the destination
  keyed,     \* the table has a primary key
  lists,     \* the table has a column with a list
  sync,      \* number of the last sync, which is its sync time
  src,       \* the source it reads
  batch,     \* its records
  stored,    \* the bag of rows in the table
  steps,     \* statements left to execute
  stage,     \* "idle", "write", "delete"
  broken,    \* the last call has failed
  repeats    \* some batch had a key twice

writeVars == <<writer, keyed, lists, sync, src, batch, stored, steps, stage, broken, repeats>>

\* The n-th record of a batch; id is _cq_id, which every sync makes anew.
Record(key, source, s, n) ==
  [key |-> key, src |-> source, sync |-> s, n |-> n, id |-> <<s, n>>]

KeysOf(rows) == {rows[i].key : i \in DOMAIN rows}
Held(b) == {r.key : r \in DOMAIN b}

RepeatsOf(rows, keys) == \E i, j \in DOMAIN rows : i # j /\ rows[i].key = rows[j].key /\ rows[i].key \in keys
Repeats(rows) == RepeatsOf(rows, KeysOf(rows))

-----------------------------------------------------------------------------
(* Statements. tries counts the attempts that are left, split says that    *)
(* its rows succeed or fail one by one, so that it may be tried again with *)
(* some of them taken.                                                     *)

Do(op, rows) == [op |-> op, rows |-> rows, tries |-> 1, split |-> FALSE]
Again(s)     == [s EXCEPT !.tries = Tries]
Split(s)     == [s EXCEPT !.split = TRUE]

\* InsertBatch: a chunk is sent as soon as it has BatchSize rows, in one
\* implicit transaction, and again after a deadlock.
PostgresChunks(rows) ==
  LET n == (Len(rows) + BatchSize - 1) \div BatchSize
  IN  [i \in 1..n |-> SubSeq(rows, (i - 1) * BatchSize + 1,
                             IF i = n THEN Len(rows) ELSE i * BatchSize)]

PostgresWrite(rows) ==
  LET chunks == PostgresChunks(rows)
  IN  [i \in DOMAIN chunks |-> Again(Do(IF keyed THEN "upsert" ELSE "append", chunks[i]))]

\* Mutant: the rows are deleted when they have been inserted.
DuckDBInsertDelete(rows) == <<Again(Do("insertNew", rows)), Do("deleteKeys", rows)>>

\* List columns cannot be updated, so rows with them are deleted and
\* inserted again. The temporary table is dropped when the call returns.
DuckDBDeleteInsert(rows) == <<Do("deleteKeys", rows), Again(Do("insertNew", rows))>>

DuckDBWrite(rows) ==
  IF ~keyed THEN <<Do("append", rows)>>
  ELSE IF lists
  THEN <<Do("createTmp", << >>)>> \o DuckDBDeleteInsert(rows) \o <<Do("dropTmp", << >>)>>
  ELSE <<Do("createTmp", << >>), Again(Do("upsertNotUnique", rows)), Do("dropTmp", << >>)>>

\* One transaction.
SQLiteWrite(rows) == <<Do(IF keyed THEN "upsert" ELSE "append", rows)>>

\* One statement for all rows.
MySQLWrite(rows) == <<Do(IF keyed THEN "upsert" ELSE "append", rows)>>

\* A procedure updates the rows there are and inserts the others.
MSSQLWrite(rows) == <<Do(IF keyed THEN "tvp" ELSE "append", rows)>>

\* In order, and up to the first that fails.
MongoDBWrite(rows) ==
  [i \in DOMAIN rows |-> Do(IF keyed THEN "upsert" ELSE "append", <<rows[i]>>)]

\* A file is put into the stage, then merged or copied into the table.
SnowflakeWrite(rows) ==
  <<Do("put", << >>), Do(IF keyed THEN "merge" ELSE "append", rows)>>

\* Keys are not looked at. A table that is not there yet is waited for.
BigQueryWrite(rows) == <<Again(Do("append", rows))>>

\* All columns are the key of a table without one.
GremlinWrite(rows) == <<Again(Do(IF keyed THEN "upsert" ELSE "addMissing", rows))>>

Neo4jWrite(rows) == <<Again(Do(IF keyed THEN "upsert" ELSE "append", rows))>>

\* Sent again as a whole while the server has too many queries.
ClickHouseWrite(rows) == <<Again(Do("append", rows))>>

\* SendMessages: every message is sent, fails and is sent again for itself.
KafkaWrite(rows) == [i \in DOMAIN rows |-> Again(Split(Do("append", <<rows[i]>>)))]

\* Mutant: every document has a new id.
ElasticsearchNewIDs(rows) == <<Again(Split(Do("append", rows)))>>

\* The bulk request has an error when one of its documents has. The client
\* sends it again after some statuses; a document without a key has another
\* id then.
ElasticsearchWrite(rows) == <<Again(Split(Do(IF keyed THEN "upsert" ELSE "append", rows)))>>

\* Documents of a table without a key have a random one.
MeilisearchWrite(rows) == <<Do(IF keyed THEN "upsert" ELSE "append", rows)>>

WriteSteps(rows) ==
  CASE writer = "postgresql"    -> PostgresWrite(rows)
    [] writer = "duckdb"        -> DuckDBWrite(rows)
    [] writer = "sqlite"        -> SQLiteWrite(rows)
    [] writer = "mysql"         -> MySQLWrite(rows)
    [] writer = "mssql"         -> MSSQLWrite(rows)
    [] writer = "mongodb"       -> MongoDBWrite(rows)
    [] writer = "snowflake"     -> SnowflakeWrite(rows)
    [] writer = "bigquery"      -> BigQueryWrite(rows)
    [] writer = "gremlin"       -> GremlinWrite(rows)
    [] writer = "neo4j"         -> Neo4jWrite(rows)
    [] writer = "clickhouse"    -> ClickHouseWrite(rows)
    [] writer = "kafka"         -> KafkaWrite(rows)
    [] writer = "elasticsearch" -> ElasticsearchWrite(rows)
    [] writer = "meilisearch"   -> MeilisearchWrite(rows)

-----------------------------------------------------------------------------
(* What a statement makes of the rows b: the set of the possible outcomes, *)
(* empty when the database refuses it.                                     *)

Without(b, keys) == [r \in {x \in DOMAIN b : x.key \notin keys} |-> b[r]]
Insert(b, r)  == b (+) SetToBag({r})
Replace(b, r) == Insert(Without(b, {r.key}), r)

\* The rows of a key as one of its records, but with the id they had.
KeepID(b, r) ==
  LET old == {x \in DOMAIN b : x.key = r.key}
  IN  Replace(b, IF old = {} THEN r ELSE [r EXCEPT !.id = (CHOOSE x \in old : TRUE).id])

InsertNew(b, r) == IF r.key \in Held(b) THEN b ELSE Insert(b, r)
InsertMissing(b, r) == IF r \in DOMAIN b THEN b ELSE Insert(b, r)

\* What a statement on the table b makes of the rows x with one of its rows.
RowStep(op, b, x, r) ==
  CASE op = "append"          -> Insert(x, r)
    [] op = "addMissing"      -> InsertMissing(x, r)
    [] op = "upsert"          -> Replace(x, r)
    [] op = "upsertNotUnique" -> KeepID(x, r)
    [] op = "insertNew"       -> InsertNew(x, r)
    [] op = "merge"           -> IF r.key \in Held(b) THEN Replace(x, r) ELSE Insert(x, r)
    [] OTHER                  -> x

\* After all of the rows, but those that are not taken.
AfterRows(op, b, rows, taken) ==
  FoldLeft(LAMBDA x, r : IF r \in taken THEN RowStep(op, b, x, r) ELSE x, b, rows)

\* One record of each key.
OneEach(rows) == {c \in [KeysOf(rows) -> Range(rows)] : \A k \in DOMAIN c : c[k].key = k}

RowsClash(op, rows, b) ==
  \/ op = "upsertNotUnique" /\ Repeats(rows)
  \/ op = "merge" /\ RepeatsOf(rows, Held(b))
  \/ op = "tvp" /\ RepeatsOf(rows, KeysOf(rows) \ Held(b))

Outcomes(op, rows, b) ==
  IF RowsClash(op, rows, b) THEN {}
  ELSE CASE op = "deleteKeys" -> {Without(b, KeysOf(rows))}
         [] op = "tvp"        -> {Without(b, KeysOf(rows)) (+) SetToBag(Range(c)) : c \in OneEach(rows)}
         [] OTHER             -> {AfterRows(op, b, rows, Range(rows))}

\* When each row is sent for itself, any of them may be refused.
Kept(op, rows, b) == {AfterRows(op, b, rows, taken) : taken \in SUBSET Range(rows)}

-----------------------------------------------------------------------------
(* DeleteStale: the rows of the source from before the sync. kafka and     *)
(* bigquery ignore the message, meilisearch refuses it. elasticsearch has  *)
(* the rows of a table without a key in an index of each day, but deletes  *)
(* from the index with the name of the table; that there is none is no     *)
(* error.                                                                  *)

Addressed == writer = "elasticsearch" => keyed

DeletesStale == writer \notin {"kafka", "bigquery", "meilisearch"} /\ Addressed

\* The time as it is compared: sqlite's datetime() and the RFC 3339 of
\* elasticsearch have no fractions. Two syncs may be within a second.
Instant(s) == IF writer \in {"sqlite", "elasticsearch"} THEN s \div 2 ELSE s

\* Mutant: the rows of every source.
StaleOfAll(b) == {r \in DOMAIN b : Instant(r.sync) < Instant(sync)}

Stale(b) == {r \in DOMAIN b : r.src = src /\ Instant(r.sync) < Instant(sync)}

DeleteStale(b) == [r \in DOMAIN b \ Stale(b) |-> b[r]]

-----------------------------------------------------------------------------
(* Syncs. *)

WriteInit ==
  /\ writer \in Writers /\ keyed \in BOOLEAN /\ lists \in BOOLEAN
  /\ lists => writer = "duckdb"
  /\ sync = 0 /\ src = CHOOSE s \in Sources : TRUE
  /\ batch = << >> /\ stored = EmptyBag /\ steps = << >>
  /\ stage = "idle" /\ broken = FALSE /\ repeats = FALSE

BeginSync(source) ==
  /\ stage = "idle" /\ sync < MaxSyncs
  /\ sync' = sync + 1 /\ src' = source
  /\ \E keys \in SeqOf(RowKeys, MaxBatch) :
       /\ keys # << >>
       /\ batch' = [i \in DOMAIN keys |-> Record(keys[i], source, sync', i)]
  /\ steps' = WriteSteps(batch')
  /\ repeats' = (repeats \/ Repeats(batch'))
  /\ stage' = "write" /\ broken' = FALSE
  /\ UNCHANGED <<writer, keyed, lists, stored>>

ExecuteStep ==
  /\ stage = "write" /\ steps # << >>
  /\ stored' \in Outcomes(Head(steps).op, Head(steps).rows, stored)
  /\ steps' = Tail(steps)
  /\ UNCHANGED <<writer, keyed, lists, sync, src, batch, stage, broken, repeats>>

\* The statement is tried again: it was not executed, or, where its rows are
\* taken one by one, some or all of them were and only the answer was lost.
RetryStep ==
  /\ stage = "write" /\ steps # << >> /\ Head(steps).tries > 1
  /\ LET s == Head(steps) IN
       stored' \in {stored} \cup (IF s.split THEN Kept(s.op, s.rows, stored) ELSE {})
  /\ steps' = [steps EXCEPT ![1].tries = @ - 1]
  /\ UNCHANGED <<writer, keyed, lists, sync, src, batch, stage, broken, repeats>>

\* The write ends with an error: the statement was not executed, or only its
\* answer was lost, or some of its rows were refused. duckdb still drops its
\* temporary table, and kafka sends the other messages.
FailStep ==
  /\ stage = "write" /\ steps # << >> /\ Head(steps).op # "dropTmp"
  /\ LET s == Head(steps) IN
       stored' \in {stored} \cup Outcomes(s.op, s.rows, stored)
                     \cup (IF s.split THEN Kept(s.op, s.rows, stored) ELSE {})
  /\ steps' = IF writer = "kafka" THEN Tail(steps)
              ELSE IF Last(steps).op = "dropTmp" THEN <<Last(steps)>> ELSE << >>
  /\ broken' = TRUE
  /\ UNCHANGED <<writer, keyed, lists, sync, src, batch, stage, repeats>>

\* That it failed to is not reported: the result that the deferred function
\* sets has no name.
DropFails ==
  /\ stage = "write" /\ steps # << >> /\ Head(steps).op = "dropTmp"
  /\ steps' = Tail(steps)
  /\ UNCHANGED <<writer, keyed, lists, sync, src, batch, stored, stage, broken, repeats>>

\* The program stops.
Crash ==
  /\ stage # "idle"
  /\ stage' = "idle" /\ steps' = << >> /\ batch' = << >> /\ broken' = TRUE
  /\ UNCHANGED <<writer, keyed, lists, sync, src, stored, repeats>>

WriteReturned == stage = "write" /\ steps = << >>

\* After the write comes the delete-stale, when the write mode wants one.
EndWrite ==
  /\ WriteReturned
  /\ stage' \in (IF broken THEN {"idle"} ELSE {"idle", "delete"})
  /\ batch' = << >>
  /\ UNCHANGED <<writer, keyed, lists, sync, src, stored, steps, broken, repeats>>

ExecuteDelete ==
  /\ stage = "delete"
  /\ stored' = IF DeletesStale THEN DeleteStale(stored) ELSE stored
  /\ stage' = "idle"
  /\ UNCHANGED <<writer, keyed, lists, sync, src, batch, steps, broken, repeats>>

DeleteFails ==
  /\ stage = "delete" /\ writer \notin {"kafka", "bigquery"}
  /\ stage' = "idle" /\ broken' = TRUE
  /\ UNCHANGED <<writer, keyed, lists, sync, src, batch, stored, steps, repeats>>

WriteNext ==
  \/ \E s \in Sources : BeginSync(s)
  \/ ExecuteStep \/ RetryStep \/ FailStep \/ DropFails \/ Crash \/ EndWrite
  \/ ExecuteDelete \/ DeleteFails

WriteSpec == WriteInit /\ [][WriteNext]_writeVars

-----------------------------------------------------------------------------
(* Properties. *)

KeyedRows == keyed /\ writer \notin {"bigquery", "clickhouse", "kafka"}

\* Rows are bags of records of syncs that have begun.
WriteTypeOK ==
  /\ writer \in Writers /\ {keyed, lists, broken, repeats} \subseteq BOOLEAN
  /\ sync \in 0..MaxSyncs /\ src \in Sources
  /\ IsABag(stored) /\ \A r \in DOMAIN stored :
       r.key \in RowKeys /\ r.src \in Sources /\ r.sync \in 1..sync /\ r.n \in 1..MaxBatch
  /\ stage \in {"idle", "write", "delete"} /\ (steps # << >> => stage = "write")
  /\ \A i \in DOMAIN steps : steps[i].tries \in 1..Tries

LastOf(k) == batch[Max({i \in DOMAIN batch : batch[i].key = k})]

\* With a repeated key the record that wins is not the last: duckdb inserts
\* the first into a table with lists, snowflake all of them, and the
\* procedure of mssql any.
OtherWinner == repeats /\ (writer \in {"snowflake", "mssql"} \/ (writer = "duckdb" /\ lists))

\* duckdb does not update a column that is unique, which _cq_id is, so a row
\* that was there keeps the _cq_id of the sync it came with.
SameRecord(r, s) ==
  r.sync = s.sync /\ r.n = s.n /\ (writer # "duckdb" \/ lists => r.id = s.id)

\* kafka writes without idempotence, and elasticsearch makes an id for every
\* document without a key: what was taken and is sent again is there twice.
SentTwice == writer = "kafka" \/ (writer = "elasticsearch" /\ ~keyed)

\* A write that has succeeded has stored the last record of every key, and
\* one without keys every record: once, or at least once.
AllWritten ==
  WriteReturned /\ ~broken =>
    IF KeyedRows
    THEN \A k \in KeysOf(batch) :
           \/ \E r \in DOMAIN stored : SameRecord(r, LastOf(k))
           \/ OtherWinner
    ELSE \A i \in DOMAIN batch : batch[i] \in DOMAIN stored /\ (stored[batch[i]] = 1 \/ SentTwice)

\* A table with a key has one row of each key, also between the statements
\* and when a write has failed; one without has no record twice, but where
\* it may be sent twice.
NoDoubles ==
  \/ \A r \in DOMAIN stored :
       stored[r] = 1 /\ (KeyedRows => \A s \in DOMAIN stored : s.key = r.key => s = r)
  \/ writer = "snowflake" /\ repeats
  \/ SentTwice

\* Every record is written, and none twice but by kafka and, without a key,
\* by elasticsearch.
Written == AllWritten /\ NoDoubles

Recent(r) == r.sync = sync \/ (writer \in {"sqlite", "elasticsearch"} /\ r.sync + 1 = sync)

\* A row goes only for a row of its key, or by delete-stale when it is of the
\* same source and an earlier sync. duckdb deletes the rows of a table with
\* lists before it inserts them. When delete-stale has been executed no row
\* of an earlier sync of the source is left, but of the same second where
\* fractions are not compared, and but where nothing is deleted: kafka,
\* bigquery, meilisearch, and elasticsearch without a key.
OnlyStaleGo ==
  [][/\ \A r \in DOMAIN stored \ DOMAIN stored' :
          \/ r.key \in Held(stored') /\ stage = "write"
          \/ stage = "delete" /\ r.src = src /\ r.sync < sync
          \/ writer = "duckdb" /\ lists
     /\ ExecuteDelete /\ DeletesStale => \A r \in DOMAIN stored' : r.src = src => Recent(r)]_writeVars
=============================================================================
