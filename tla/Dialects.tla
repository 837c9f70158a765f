------------------------------ MODULE Dialects ------------------------------
(***************************************************************************)
(* What the destinations with tables make of a wanted table, which changes *)
(* of a table they can make, and with which statements:                    *)
(* plugins/destination/{postgresql, duckdb, sqlite, mysql, mssql,          *)
(* snowflake, clickhouse, bigquery}/client.                                *)
(*                                                                         *)
(* Every destination has three operators: X(col) is the column as the      *)
(* destination compares it, XRefuses(new, old) says that a safe migration  *)
(* from old to new is refused, and XMigrate(new, old) is the sequence of   *)
(* its statements. The effect of a statement is Effect, at the end; the    *)
(* databases and schema.Table.GetChanges of the SDK are external.          *)
(*                                                                         *)
(* A table is a function from column names to columns, and NoTable none.   *)
(* Left out: partitions, TTLs, indexes, embeddings, table descriptions.    *)
(***************************************************************************)
EXTENDS Naturals, Sequences, FiniteSets, SequencesExt, RecordTransformer, Maps

NoTable == << >>

Postgres == {"postgresql", "cockroachdb"}

\* Three of them migrate their tables in goroutines of an errgroup.
Concurrent == {"snowflake", "clickhouse", "bigquery"}

-----------------------------------------------------------------------------
(* schema.Table.GetChanges(old), and statements. *)

Keys(table) == {c \in DOMAIN table : table[c].pk}

Adds(new, old)    == DOMAIN new \ DOMAIN old
Removes(new, old) == DOMAIN old \ DOMAIN new
Updates(new, old) ==
  {c \in DOMAIN new \cap DOMAIN old :
     \/ new[c].type # old[c].type
     \/ new[c].notNull # old[c].notNull
     \/ new[c].pk # old[c].pk}
Deuniques(new, old) ==
  {c \in DOMAIN new \cap DOMAIN old : ~new[c].unique /\ old[c].unique}
MovesToCqID(new, old) ==
  Keys(new) = {CqID} /\ CqID \notin Keys(old) /\ Keys(old) # {}

OptionalColumns(table, columns) ==
  \A c \in columns : ~table[c].pk /\ ~table[c].notNull

PlainAddsAndRemoves(new, old) ==
  /\ OptionalColumns(new, Adds(new, old))
  /\ OptionalColumns(old, Removes(new, old))

\* A statement is an operation and, for some, its column.
Stmt(op, c) == [op |-> op, col |-> c]
ForEach(op, columns) == [i \in 1..Cardinality(columns) |-> Stmt(op, SetToSeq(columns)[i])]
Once(op, needed) == IF needed THEN <<Stmt(op, CqID)>> ELSE << >>

Create   == <<Stmt("create", CqID)>>
Recreate == <<Stmt("drop", CqID), Stmt("create", CqID)>>

\* What every MigrateTable does with a table that is not there, that it can
\* alter, and that it cannot.
Migrate(old, can, altering) ==
  IF old = NoTable THEN Create ELSE IF can THEN altering ELSE Recreate

KeysAreNotNull(col) == [col EXCEPT !.notNull = @ \/ col.pk]

-----------------------------------------------------------------------------
(* postgresql, and CockroachDB behind it. *)

Postgresql(col) == KeysAreNotNull(col)

\* A move to _cq_id comes with updates of the columns of the old key.
PostgresCan(new, old) ==
  LET sameType == {c \in Updates(new, old) : new[c].type = old[c].type}
      adding   == {c \in sameType : new[c].pk /\ ~old[c].pk}
      removing == {c \in sameType : ~new[c].pk /\ old[c].pk}
  IN  /\ PlainAddsAndRemoves(new, old)
      /\ \A c \in Updates(new, old) :
           MovesToCqID(new, old) /\ (adding = {CqID} \/ c \in removing)

PostgresRefuses(new, old) == old # NoTable /\ ~PostgresCan(new, old)

\* NOT NULL of the old key's columns goes with the key, on CockroachDB in a
\* transaction of its own after it.
MigrateToCQID(d, old) ==
  IF d = "cockroachdb"
  THEN <<Stmt("moveKey", CqID)>> \o ForEach("nullable", Keys(old))
  ELSE <<Stmt("move", CqID)>>

PostgresAutoMigrate(d, new, old) ==
  ForEach("add", Adds(new, old))
    \o (IF MovesToCqID(new, old) THEN MigrateToCQID(d, old) ELSE << >>)
    \o ForEach("notUnique", Deuniques(new, old))

PostgresMigrate(d, new, old) ==
  Migrate(old, PostgresCan(new, old), PostgresAutoMigrate(d, new, old))

-----------------------------------------------------------------------------
(* duckdb *)

DuckDB(col) == KeysAreNotNull(col)

\* Mutant: a new column of the key is taken for a plain one.
DuckDBCanAddKeys(new, old) ==
  /\ \A c \in Adds(new, old) : new[c].pk \/ ~new[c].notNull
  /\ OptionalColumns(old, Removes(new, old))
  /\ Updates(new, old) = {} /\ Deuniques(new, old) = {}

DuckDBCan(new, old) ==
  /\ PlainAddsAndRemoves(new, old)
  /\ Updates(new, old) = {} /\ Deuniques(new, old) = {}

DuckDBRefuses(new, old) == old # NoTable /\ ~DuckDBCan(new, old)

DuckDBAutoMigrate(new, old) == ForEach("add", Adds(new, old))

DuckDBMigrate(new, old) ==
  Migrate(old, DuckDBCan(new, old), DuckDBAutoMigrate(new, old))

-----------------------------------------------------------------------------
(* sqlite: keys are not NOT NULL by themselves. *)

SQLite(col) == col

SQLiteCan(new, old) ==
  /\ PlainAddsAndRemoves(new, old)
  /\ Updates(new, old) = {} /\ ~MovesToCqID(new, old)

\* The changes are asked for from the wanted table to the old one.
SQLiteRefuses(new, old) == old # NoTable /\ ~SQLiteCan(old, new)

SQLiteAutoMigrate(new, old) == ForEach("add", Adds(new, old))

SQLiteMigrate(new, old) ==
  Migrate(old, SQLiteCan(new, old), SQLiteAutoMigrate(new, old))

-----------------------------------------------------------------------------
(* mysql *)

MySQL(col) == KeysAreNotNull(col)

MySQLCan(new, old) ==
  /\ PlainAddsAndRemoves(new, old)
  /\ Updates(new, old) = {} /\ ~MovesToCqID(new, old)

\* As sqlite.
MySQLRefuses(new, old) == old # NoTable /\ ~MySQLCan(old, new)

MySQLAutoMigrate(new, old) ==
  ForEach("add", Adds(new, old)) \o ForEach("notUnique", Deuniques(new, old))

MySQLMigrate(new, old) ==
  Migrate(old, MySQLCan(new, old), MySQLAutoMigrate(new, old))

-----------------------------------------------------------------------------
(* mssql: a key cannot have unlimited length, and tables with a key are    *)
(* written by a procedure that takes the table's columns.                  *)

MSSQL(col) ==
  [KeysAreNotNull(col) EXCEPT !.type = IF @ = "str" /\ ~col.pk THEN "large" ELSE @]

\* unsafeChanges
MSSQLCan(new, old) ==
  /\ PlainAddsAndRemoves(new, old)
  /\ \A c \in Updates(new, old) : old[c].type = "str" /\ new[c].type = "large"
  /\ Deuniques(new, old) = {} /\ ~MovesToCqID(new, old)

MSSQLRefuses(new, old) == old # NoTable /\ ~MSSQLCan(new, old)

\* The procedure, and the type of its argument, are dropped and made again.
EnsureTVP(new) ==
  IF Keys(new) = {} THEN << >> ELSE <<Stmt("dropProc", CqID), Stmt("addProc", CqID)>>

MSSQLAutoMigrate(new, old) ==
  IF Adds(new, old) = {} /\ Removes(new, old) = {} /\ Updates(new, old) = {} THEN << >>
  ELSE ForEach("add", Adds(new, old)) \o ForEach("retype", Updates(new, old)) \o EnsureTVP(new)

MSSQLMigrate(new, old) ==
  IF old # NoTable /\ MSSQLCan(new, old) THEN MSSQLAutoMigrate(new, old)
  ELSE (IF old = NoTable THEN Create ELSE Recreate) \o EnsureTVP(new)

-----------------------------------------------------------------------------
(* snowflake *)

Snowflake(col) == col

SnowflakeCan(new, old) ==
  /\ \A c \in Adds(new, old) : ~new[c].notNull
  /\ \A c \in Removes(new, old) : ~old[c].notNull
  /\ \A c \in Updates(new, old) :
       (old[c].notNull /\ ~new[c].notNull) \/ old[c].pk # new[c].pk

SnowflakeRefuses(new, old) == old # NoTable /\ ~SnowflakeCan(new, old)

DropsKey(new, old) ==
  \E c \in Keys(old) : c \in Removes(new, old) \/ (c \in Updates(new, old) /\ ~new[c].pk)
AddsKey(new, old) ==
  \E c \in Keys(new) : c \in Adds(new, old) \/ (c \in Updates(new, old) /\ ~old[c].pk)

SnowflakeAutoMigrate(new, old) ==
  Once("dropKey", DropsKey(new, old))
    \o Once("addKey", AddsKey(new, old))
    \o ForEach("notUnique", Deuniques(new, old))
    \o ForEach("add", Adds(new, old))
    \o ForEach("nullable", {c \in Updates(new, old) : old[c].notNull /\ ~new[c].notNull})

SnowflakeMigrate(new, old) ==
  Migrate(old, SnowflakeCan(new, old), SnowflakeAutoMigrate(new, old))

-----------------------------------------------------------------------------
(* clickhouse: no keys, but NOT NULL columns make the sorting key. There   *)
(* is no Nullable() of a compound type, and no sorting by one.             *)

IsCompound(col) == col.type = "list"

ClickHouse(col) ==
  [col EXCEPT !.pk = FALSE, !.unique = FALSE, !.notNull = @ \/ IsCompound(col)]

SortKey(table) == {c \in DOMAIN table : table[c].notNull /\ ~IsCompound(table[c])}

\* needsTableDrop, of every change.
ClickHouseKeeps(new, old) ==
  /\ \A c \in Adds(new, old) : IsCompound(new[c]) \/ ~new[c].notNull
  /\ \A c \in Removes(new, old) : ~old[c].notNull
  /\ Updates(new, old) = {}

SortKeyChanges(new, old) == SortKey(new) # SortKey(old)

\* forceMigrationNeeded
ClickHouseForces(new, old) == ~ClickHouseKeeps(new, old) \/ SortKeyChanges(new, old)

ClickHouseRefuses(new, old) == old # NoTable /\ ClickHouseForces(new, old)

ClickHouseAutoMigrate(new, old) == ForEach("add", Adds(new, old))

ClickHouseMigrate(new, old) ==
  Migrate(old, ~ClickHouseForces(new, old), ClickHouseAutoMigrate(new, old))

-----------------------------------------------------------------------------
(* bigquery: no keys, nothing required, and tables are merged in place, in *)
(* safe and in forced mode alike.                                          *)

BigQuery(col) == [col EXCEPT !.pk = FALSE, !.unique = FALSE, !.notNull = FALSE]

\* mergeSchemas
BigQueryCanMerge(new, old) ==
  \A c \in DOMAIN new \cap DOMAIN old : new[c].type = old[c].type

BigQueryMigrate(new, old) ==
  IF old = NoTable THEN Create
  ELSE Once(IF BigQueryCanMerge(new, old) THEN "merge" ELSE "cannotMerge", TRUE)

-----------------------------------------------------------------------------
(* By the name of the destination. *)

Normal(d, col) ==
  CASE d \in Postgres     -> Postgresql(col)
    [] d = "duckdb"       -> DuckDB(col)
    [] d = "sqlite"       -> SQLite(col)
    [] d = "mysql"        -> MySQL(col)
    [] d = "mssql"        -> MSSQL(col)
    [] d = "snowflake"    -> Snowflake(col)
    [] d = "clickhouse"   -> ClickHouse(col)
    [] d = "bigquery"     -> BigQuery(col)

NormalTable(d, table) == [c \in DOMAIN table |-> Normal(d, table[c])]

Refuses(d, new, old) ==
  CASE d \in Postgres     -> PostgresRefuses(new, old)
    [] d = "duckdb"       -> DuckDBRefuses(new, old)
    [] d = "sqlite"       -> SQLiteRefuses(new, old)
    [] d = "mysql"        -> MySQLRefuses(new, old)
    [] d = "mssql"        -> MSSQLRefuses(new, old)
    [] d = "snowflake"    -> SnowflakeRefuses(new, old)
    [] d = "clickhouse"   -> ClickHouseRefuses(new, old)
    [] d = "bigquery"     -> FALSE

\* A table without columns is skipped.
Statements(d, new, old) ==
  IF new = NoTable THEN << >> ELSE
  CASE d \in Postgres     -> PostgresMigrate(d, new, old)
    [] d = "duckdb"       -> DuckDBMigrate(new, old)
    [] d = "sqlite"       -> SQLiteMigrate(new, old)
    [] d = "mysql"        -> MySQLMigrate(new, old)
    [] d = "mssql"        -> MSSQLMigrate(new, old)
    [] d = "snowflake"    -> SnowflakeMigrate(new, old)
    [] d = "clickhouse"   -> ClickHouseMigrate(new, old)
    [] d = "bigquery"     -> BigQueryMigrate(new, old)

-----------------------------------------------------------------------------
(* What the statements do. *)

\* CREATE TABLE: SQLite and SQL Server are not given UNIQUE, and MySQL gives
\* none to a column of the key.
Created(d, col) ==
  [col EXCEPT !.unique = @ /\ d \notin {"sqlite", "mssql"} /\ ~(d = "mysql" /\ col.pk)]

\* ALTER TABLE ADD: four destinations give a name and a type only.
Added(d, col) ==
  IF d \in Postgres \cup {"duckdb", "sqlite"}
  THEN [col EXCEPT !.pk = FALSE, !.notNull = FALSE, !.unique = FALSE]
  ELSE [Created(d, col) EXCEPT !.pk = FALSE]

\* What the database refuses: a second key or one over a column it has not,
\* another type for a column of the key, to drop what is not there.
Possible(s, table, new) ==
  /\ s.op # "cannotMerge"
  /\ s.op = "addKey" => Keys(table) = {} /\ Keys(new) \subseteq DOMAIN table
  /\ s.op = "retype" => ~table[s.col].pk

\* Mutant: the columns of the old key stay NOT NULL.
MovedNotNull(c, col) == [col EXCEPT !.pk = c = CqID, !.notNull = @ \/ c = CqID]

\* A column when the key moves to _cq_id.
Moved(c, col) == [col EXCEPT !.pk = c = CqID, !.notNull = (@ /\ ~col.pk) \/ c = CqID]

\* CREATE TABLE IF NOT EXISTS leaves a table alone.
Effect(d, s, table, new) ==
  CASE s.op = "create"    -> IF table = NoTable THEN [c \in DOMAIN new |-> Created(d, new[c])] ELSE table
    [] s.op = "drop"      -> NoTable
    [] s.op = "merge"     -> table ++ new
    [] s.op = "add"       -> table ++ [c \in {s.col} |-> Added(d, new[c])]
    [] s.op = "move"      -> [c \in DOMAIN table |-> Moved(c, table[c])]
    [] s.op = "moveKey"   ->
         [c \in DOMAIN table |-> [Moved(c, table[c]) EXCEPT !.notNull = table[c].notNull \/ c = CqID]]
    [] s.op = "nullable"  -> [table EXCEPT ![s.col].notNull = FALSE]
    [] s.op = "notUnique" -> [table EXCEPT ![s.col].unique = FALSE]
    [] s.op = "retype"    -> [table EXCEPT ![s.col].type = new[s.col].type,
                                           ![s.col].notNull = new[s.col].notNull]
    [] s.op = "dropKey"   -> [c \in DOMAIN table |-> [table[c] EXCEPT !.pk = FALSE]]
    [] s.op = "addKey"    -> [c \in DOMAIN table |-> [table[c] EXCEPT !.pk = c \in Keys(new)]]
    [] s.op \in {"dropProc", "addProc"} -> table

\* The columns a table's insert procedure takes.
ProcEffect(s, columns, new) ==
  CASE s.op = "dropProc" -> {}
    [] s.op = "addProc"  -> DOMAIN new
    [] OTHER             -> columns
=============================================================================
