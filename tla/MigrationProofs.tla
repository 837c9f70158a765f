-------------------------- MODULE MigrationProofs ---------------------------
(***************************************************************************)
(* Proofs about Migrations and Indexes, for any destinations, tables and   *)
(* requests, whatever there was before and whatever statements have failed.*)
(*                                                                         *)
(* In safe mode MigrateTables drops nothing, neither a table nor an index: *)
(* what a call in safe mode has yet to do is made of statements that keep  *)
(* what they find.                                                         *)
(*                                                                         *)
(* A call that succeeds leaves what was wanted, tables and indexes, and    *)
(* one in safe mode that breaks off can be repeated: at any time, what has *)
(* yet to be done is what is missing.                                      *)
(*                                                                         *)
(* And about ColumnTypes, for any of its databases and lists of any depth: *)
(* a column that is listed has the type that was asked for.                *)
(***************************************************************************)
EXTENDS Migrations, Indexes, ColumnTypes, LibraryProofs

-----------------------------------------------------------------------------
(* Migrations: the plans of the dialects. *)

SafeOps == {"create", "merge", "cannotMerge", "add", "move", "moveKey", "nullable", "notUnique",
            "retype", "dropKey", "addKey", "dropProc", "addProc"}
Ops == SafeOps \cup {"drop"}

\* The names of columns.
ColumnNames == {CqID} \cup UNION {DOMAIN r : r \in UNION {Requests[t] : t \in Names}}

Plans(ops) == Seq([op : ops, col : ColumnNames])

LEMMA SetToSeqIn ==
  ASSUME NEW S, IsFiniteSet(S)
  PROVE  Cardinality(S) \in Nat /\ SetToSeq(S) \in [1..Cardinality(S) -> S]
<1>1. Cardinality(S) \in Nat /\ ExistsBijection(1..Cardinality(S), S)
  BY FS_CardinalityType
<1>2. PICK f \in Bijection(1..Cardinality(S), S) : TRUE
  BY <1>1 DEF ExistsBijection
<1>3. f \in [1..Cardinality(S) -> S] /\ IsInjective(f)
  BY <1>2 DEF Bijection, Injection, IsInjective
<1> QED BY <1>1, <1>3 DEF SetToSeq

LEMMA ForEachIn ==
  ASSUME NEW ops, NEW op \in ops, NEW S, IsFiniteSet(S), S \subseteq ColumnNames
  PROVE  ForEach(op, S) \in Plans(ops)
<1>1. \A i \in 1..Cardinality(S) : SetToSeq(S)[i] \in ColumnNames
  BY SetToSeqIn
<1>2. Cardinality(S) \in Nat
  BY SetToSeqIn
<1> DEFINE n == Cardinality(S)
           T == [op : ops, col : ColumnNames]
<1>3. \A i \in 1..n : Stmt(op, SetToSeq(S)[i]) \in T
  BY <1>1 DEF Stmt
<1>4. ForEach(op, S) = [i \in 1..n |-> Stmt(op, SetToSeq(S)[i])]
  BY DEF ForEach
<1> HIDE DEF n, T
<1>5. n \in Nat
  BY <1>2 DEF n
<1>6. ForEach(op, S) \in [1..n -> T]
  BY <1>3, <1>4
<1>7. ForEach(op, S) \in Seq(T)
  BY <1>5, <1>6
<1> QED BY <1>7 DEF Plans, T

LEMMA OnceIn ==
  ASSUME NEW ops, NEW op \in ops, NEW b \in BOOLEAN
  PROVE  Once(op, b) \in Plans(ops)
<1>1. Stmt(op, CqID) \in [op : ops, col : ColumnNames]
  BY DEF Stmt, ColumnNames
<1>2. <<Stmt(op, CqID)>> \in Plans(ops) /\ << >> \in Plans(ops)
  BY <1>1 DEF Plans
<1> QED BY <1>2 DEF Once

LEMMA ThenIn ==
  ASSUME NEW ops, NEW p \in Plans(ops), NEW q \in Plans(ops)
  PROVE  p \o q \in Plans(ops)
BY DEF Plans

LEMMA NothingIn ==
  ASSUME NEW ops
  PROVE  << >> \in Plans(ops)
BY DEF Plans

LEMMA CreateIn ==
  /\ Create \in Plans(SafeOps)
  /\ Recreate \in Plans(Ops)
BY DEF Create, Recreate, Plans, Stmt, ColumnNames, Ops, SafeOps

LEMMA MoreOps ==
  ASSUME NEW p \in Plans(SafeOps)
  PROVE  p \in Plans(Ops)
<1> DEFINE S == [op : SafeOps, col : ColumnNames]
           T == [op : Ops, col : ColumnNames]
<1>1. S \subseteq T
  BY DEF Ops
<1>2. p \in Seq(S)
  BY DEF Plans
<1> HIDE DEF S, T
<1>3. p \in [1..Len(p) -> T] /\ Len(p) \in Nat
  BY <1>1, <1>2
<1>4. p \in Seq(T)
  BY <1>3
<1> QED BY <1>4 DEF Plans, T

\* The columns of a table are some of the names, and finitely many.
IsTable(table) == DOMAIN table \subseteq ColumnNames /\ IsFiniteSet(DOMAIN table)

LEMMA ChangesFinite ==
  ASSUME NEW new, NEW old, IsTable(new), IsTable(old), NEW S,
         S \subseteq DOMAIN new \/ S \subseteq DOMAIN old
  PROVE  IsFiniteSet(S) /\ S \subseteq ColumnNames
BY FS_Subset DEF IsTable

LEMMA ChangesIn ==
  ASSUME NEW new, NEW old, IsTable(new), IsTable(old), NEW op \in SafeOps
  PROVE  /\ ForEach(op, Adds(new, old)) \in Plans(SafeOps)
         /\ ForEach(op, Updates(new, old)) \in Plans(SafeOps)
         /\ ForEach(op, Deuniques(new, old)) \in Plans(SafeOps)
         /\ ForEach(op, Keys(old)) \in Plans(SafeOps)
         /\ ForEach(op, {c \in Updates(new, old) : old[c].notNull /\ ~new[c].notNull}) \in Plans(SafeOps)
<1>1. /\ Adds(new, old) \subseteq DOMAIN new /\ Updates(new, old) \subseteq DOMAIN new
      /\ Deuniques(new, old) \subseteq DOMAIN new /\ Keys(old) \subseteq DOMAIN old
  BY DEF Adds, Updates, Deuniques, Keys
<1>2. ForEach(op, Adds(new, old)) \in Plans(SafeOps)
  BY <1>1, ChangesFinite, ForEachIn
<1>3. ForEach(op, Updates(new, old)) \in Plans(SafeOps)
  BY <1>1, ChangesFinite, ForEachIn
<1>4. ForEach(op, Deuniques(new, old)) \in Plans(SafeOps)
  BY <1>1, ChangesFinite, ForEachIn
<1>5. ForEach(op, Keys(old)) \in Plans(SafeOps)
  BY <1>1, ChangesFinite, ForEachIn
<1> DEFINE S == {c \in Updates(new, old) : old[c].notNull /\ ~new[c].notNull}
<1>6. ForEach(op, S) \in Plans(SafeOps)
  <2>1. S \subseteq DOMAIN new
    BY <1>1
  <2> HIDE DEF S
  <2> QED BY <2>1, ChangesFinite, ForEachIn
<1> QED BY <1>2, <1>3, <1>4, <1>5, <1>6

-----------------------------------------------------------------------------
(* What a table is altered with never drops it. *)

LEMMA AutoMigrateIn ==
  ASSUME NEW d, NEW new, NEW old, IsTable(new), IsTable(old)
  PROVE  /\ PostgresAutoMigrate(d, new, old) \in Plans(SafeOps)
         /\ DuckDBAutoMigrate(new, old) \in Plans(SafeOps)
         /\ SQLiteAutoMigrate(new, old) \in Plans(SafeOps)
         /\ MySQLAutoMigrate(new, old) \in Plans(SafeOps)
         /\ EnsureTVP(new) \in Plans(SafeOps)
         /\ MSSQLAutoMigrate(new, old) \in Plans(SafeOps)
         /\ SnowflakeAutoMigrate(new, old) \in Plans(SafeOps)
         /\ ClickHouseAutoMigrate(new, old) \in Plans(SafeOps)
<1>1. \A op \in SafeOps :
        /\ ForEach(op, Adds(new, old)) \in Plans(SafeOps)
        /\ ForEach(op, Updates(new, old)) \in Plans(SafeOps)
        /\ ForEach(op, Deuniques(new, old)) \in Plans(SafeOps)
        /\ ForEach(op, Keys(old)) \in Plans(SafeOps)
        /\ ForEach(op, {c \in Updates(new, old) : old[c].notNull /\ ~new[c].notNull}) \in Plans(SafeOps)
  BY ChangesIn
<1>2. {"add", "nullable", "notUnique", "retype", "dropKey", "addKey", "move", "moveKey", "dropProc", "addProc"}
        \subseteq SafeOps
  BY DEF SafeOps
<1>3. /\ ForEach("add", Adds(new, old)) \in Plans(SafeOps)
      /\ ForEach("nullable", Keys(old)) \in Plans(SafeOps)
      /\ ForEach("notUnique", Deuniques(new, old)) \in Plans(SafeOps)
      /\ ForEach("retype", Updates(new, old)) \in Plans(SafeOps)
      /\ ForEach("nullable", {c \in Updates(new, old) : old[c].notNull /\ ~new[c].notNull}) \in Plans(SafeOps)
  BY <1>1, <1>2
<1>4. <<Stmt("move", CqID)>> \in Plans(SafeOps) /\ <<Stmt("moveKey", CqID)>> \in Plans(SafeOps)
  BY DEF Plans, Stmt, SafeOps, ColumnNames
<1>5. MigrateToCQID(d, old) \in Plans(SafeOps)
  BY <1>3, <1>4, ThenIn DEF MigrateToCQID
<1>6. PostgresAutoMigrate(d, new, old) \in Plans(SafeOps)
  <2> DEFINE m == IF MovesToCqID(new, old) THEN MigrateToCQID(d, old) ELSE << >>
  <2>1. m \in Plans(SafeOps)
    BY <1>5, NothingIn
  <2>2. PostgresAutoMigrate(d, new, old) =
          ForEach("add", Adds(new, old)) \o m \o ForEach("notUnique", Deuniques(new, old))
    BY DEF PostgresAutoMigrate
  <2> HIDE DEF m
  <2> QED BY <1>3, <2>1, <2>2, ThenIn
<1>7. EnsureTVP(new) \in Plans(SafeOps)
  <2> DEFINE T == [op : SafeOps, col : ColumnNames]
  <2>1. Stmt("dropProc", CqID) \in T /\ Stmt("addProc", CqID) \in T
    BY DEF Stmt, SafeOps, ColumnNames
  <2> HIDE DEF T
  <2>2. <<Stmt("dropProc", CqID), Stmt("addProc", CqID)>> \in Seq(T) /\ << >> \in Seq(T)
    BY <2>1
  <2> QED BY <2>2 DEF EnsureTVP, Plans, T
<1>8. MSSQLAutoMigrate(new, old) \in Plans(SafeOps)
  BY <1>3, <1>7, ThenIn, NothingIn DEF MSSQLAutoMigrate
<1>9. SnowflakeAutoMigrate(new, old) \in Plans(SafeOps)
  <2>1. Once("dropKey", DropsKey(new, old)) \in Plans(SafeOps)
        /\ Once("addKey", AddsKey(new, old)) \in Plans(SafeOps)
    BY <1>2, OnceIn DEF DropsKey, AddsKey
  <2> QED BY <1>3, <2>1, ThenIn DEF SnowflakeAutoMigrate
<1>10. MySQLAutoMigrate(new, old) \in Plans(SafeOps)
  BY <1>3, ThenIn DEF MySQLAutoMigrate
<1>11. /\ DuckDBAutoMigrate(new, old) \in Plans(SafeOps)
       /\ SQLiteAutoMigrate(new, old) \in Plans(SafeOps)
       /\ ClickHouseAutoMigrate(new, old) \in Plans(SafeOps)
  BY <1>3 DEF DuckDBAutoMigrate, SQLiteAutoMigrate, ClickHouseAutoMigrate
<1> QED BY <1>6, <1>7, <1>8, <1>9, <1>10, <1>11

-----------------------------------------------------------------------------
(* A migration that is not refused in safe mode drops nothing; no plan has *)
(* a statement that is not of Ops.                                         *)

LEMMA PostgresPlan ==
  ASSUME NEW d, NEW new, NEW old, IsTable(new), IsTable(old)
  PROVE  /\ PostgresMigrate(d, new, old) \in Plans(Ops)
         /\ ~PostgresRefuses(new, old) => PostgresMigrate(d, new, old) \in Plans(SafeOps)
<1>1. CASE old = NoTable
  <2>1. PostgresMigrate(d, new, old) = Create
    BY <1>1 DEF PostgresMigrate, Migrate
  <2> QED BY <2>1, CreateIn, MoreOps
<1>2. CASE old # NoTable /\ PostgresCan(new, old)
  <2>1. PostgresMigrate(d, new, old) = PostgresAutoMigrate(d, new, old)
    BY <1>2 DEF PostgresMigrate, Migrate
  <2> QED BY <2>1, AutoMigrateIn, MoreOps
<1>3. CASE old # NoTable /\ ~PostgresCan(new, old)
  <2>1. PostgresMigrate(d, new, old) = Recreate
    BY <1>3 DEF PostgresMigrate, Migrate
  <2> QED BY <1>3, <2>1, CreateIn DEF PostgresRefuses
<1> QED BY <1>1, <1>2, <1>3

LEMMA DuckDBPlan ==
  ASSUME NEW new, NEW old, IsTable(new), IsTable(old)
  PROVE  /\ DuckDBMigrate(new, old) \in Plans(Ops)
         /\ ~DuckDBRefuses(new, old) => DuckDBMigrate(new, old) \in Plans(SafeOps)
<1>1. CASE old = NoTable
  <2>1. DuckDBMigrate(new, old) = Create
    BY <1>1 DEF DuckDBMigrate, Migrate
  <2> QED BY <2>1, CreateIn, MoreOps
<1>2. CASE old # NoTable /\ DuckDBCan(new, old)
  <2>1. DuckDBMigrate(new, old) = DuckDBAutoMigrate(new, old)
    BY <1>2 DEF DuckDBMigrate, Migrate
  <2> QED BY <2>1, AutoMigrateIn, MoreOps
<1>3. CASE old # NoTable /\ ~DuckDBCan(new, old)
  <2>1. DuckDBMigrate(new, old) = Recreate
    BY <1>3 DEF DuckDBMigrate, Migrate
  <2> QED BY <1>3, <2>1, CreateIn DEF DuckDBRefuses
<1> QED BY <1>1, <1>2, <1>3

\* The check asks for the changes from the wanted table to the old one, the
\* migration for those from the old to the wanted.
LEMMA EitherWay ==
  ASSUME NEW new, NEW old
  PROVE  /\ SQLiteCan(old, new) => SQLiteCan(new, old)
         /\ MySQLCan(old, new) => MySQLCan(new, old)
<1>1. Adds(new, old) = Removes(old, new) /\ Removes(new, old) = Adds(old, new)
  BY DEF Adds, Removes
<1>2. PlainAddsAndRemoves(old, new) => PlainAddsAndRemoves(new, old)
  BY <1>1 DEF PlainAddsAndRemoves
<1>3. Updates(new, old) = Updates(old, new)
  BY DEF Updates
<1>4. ASSUME PlainAddsAndRemoves(old, new), Updates(old, new) = {}
      PROVE  ~MovesToCqID(new, old)
  <2>1. SUFFICES ASSUME MovesToCqID(new, old) PROVE FALSE
    OBVIOUS
  <2>2. CqID \in DOMAIN new /\ new[CqID].pk /\ CqID \notin Keys(old)
    BY <2>1 DEF MovesToCqID, Keys
  <2>3. CASE CqID \in DOMAIN old
    <3>1. new[CqID].pk = old[CqID].pk
      BY <1>4, <2>2, <2>3 DEF Updates
    <3> QED BY <2>2, <2>3, <3>1 DEF Keys
  <2>4. CASE CqID \notin DOMAIN old
    BY <1>4, <2>2, <2>4 DEF PlainAddsAndRemoves, OptionalColumns, Removes
  <2> QED BY <2>3, <2>4
<1> QED BY <1>2, <1>3, <1>4 DEF SQLiteCan, MySQLCan

LEMMA SQLitePlan ==
  ASSUME NEW new, NEW old, IsTable(new), IsTable(old)
  PROVE  /\ SQLiteMigrate(new, old) \in Plans(Ops)
         /\ ~SQLiteRefuses(new, old) => SQLiteMigrate(new, old) \in Plans(SafeOps)
<1>1. CASE old = NoTable
  <2>1. SQLiteMigrate(new, old) = Create
    BY <1>1 DEF SQLiteMigrate, Migrate
  <2> QED BY <2>1, CreateIn, MoreOps
<1>2. CASE old # NoTable /\ SQLiteCan(new, old)
  <2>1. SQLiteMigrate(new, old) = SQLiteAutoMigrate(new, old)
    BY <1>2 DEF SQLiteMigrate, Migrate
  <2> QED BY <2>1, AutoMigrateIn, MoreOps
<1>3. CASE old # NoTable /\ ~SQLiteCan(new, old)
  <2>1. SQLiteMigrate(new, old) = Recreate
    BY <1>3 DEF SQLiteMigrate, Migrate
  <2> QED BY <1>3, <2>1, CreateIn, EitherWay DEF SQLiteRefuses
<1> QED BY <1>1, <1>2, <1>3

LEMMA MySQLPlan ==
  ASSUME NEW new, NEW old, IsTable(new), IsTable(old)
  PROVE  /\ MySQLMigrate(new, old) \in Plans(Ops)
         /\ ~MySQLRefuses(new, old) => MySQLMigrate(new, old) \in Plans(SafeOps)
<1>1. CASE old = NoTable
  <2>1. MySQLMigrate(new, old) = Create
    BY <1>1 DEF MySQLMigrate, Migrate
  <2> QED BY <2>1, CreateIn, MoreOps
<1>2. CASE old # NoTable /\ MySQLCan(new, old)
  <2>1. MySQLMigrate(new, old) = MySQLAutoMigrate(new, old)
    BY <1>2 DEF MySQLMigrate, Migrate
  <2> QED BY <2>1, AutoMigrateIn, MoreOps
<1>3. CASE old # NoTable /\ ~MySQLCan(new, old)
  <2>1. MySQLMigrate(new, old) = Recreate
    BY <1>3 DEF MySQLMigrate, Migrate
  <2> QED BY <1>3, <2>1, CreateIn, EitherWay DEF MySQLRefuses
<1> QED BY <1>1, <1>2, <1>3

LEMMA MSSQLPlan ==
  ASSUME NEW new, NEW old, IsTable(new), IsTable(old)
  PROVE  /\ MSSQLMigrate(new, old) \in Plans(Ops)
         /\ ~MSSQLRefuses(new, old) => MSSQLMigrate(new, old) \in Plans(SafeOps)
<1>1. MSSQLMigrate(new, old) \in {Create \o EnsureTVP(new), MSSQLAutoMigrate(new, old)}
      \/ /\ old # NoTable /\ ~MSSQLCan(new, old)
         /\ MSSQLMigrate(new, old) = Recreate \o EnsureTVP(new)
  BY DEF MSSQLMigrate
<1>2. /\ EnsureTVP(new) \in Plans(SafeOps) /\ EnsureTVP(new) \in Plans(Ops)
      /\ MSSQLAutoMigrate(new, old) \in Plans(SafeOps)
  BY AutoMigrateIn, MoreOps
<1>3. Create \o EnsureTVP(new) \in Plans(SafeOps) /\ Recreate \o EnsureTVP(new) \in Plans(Ops)
  BY <1>2, CreateIn, ThenIn
<1> QED BY <1>1, <1>2, <1>3, MoreOps DEF MSSQLRefuses

LEMMA SnowflakePlan ==
  ASSUME NEW new, NEW old, IsTable(new), IsTable(old)
  PROVE  /\ SnowflakeMigrate(new, old) \in Plans(Ops)
         /\ ~SnowflakeRefuses(new, old) => SnowflakeMigrate(new, old) \in Plans(SafeOps)
<1>1. CASE old = NoTable
  <2>1. SnowflakeMigrate(new, old) = Create
    BY <1>1 DEF SnowflakeMigrate, Migrate
  <2> QED BY <2>1, CreateIn, MoreOps
<1>2. CASE old # NoTable /\ SnowflakeCan(new, old)
  <2>1. SnowflakeMigrate(new, old) = SnowflakeAutoMigrate(new, old)
    BY <1>2 DEF SnowflakeMigrate, Migrate
  <2> QED BY <2>1, AutoMigrateIn, MoreOps
<1>3. CASE old # NoTable /\ ~SnowflakeCan(new, old)
  <2>1. SnowflakeMigrate(new, old) = Recreate
    BY <1>3 DEF SnowflakeMigrate, Migrate
  <2> QED BY <1>3, <2>1, CreateIn DEF SnowflakeRefuses
<1> QED BY <1>1, <1>2, <1>3

LEMMA ClickHousePlan ==
  ASSUME NEW new, NEW old, IsTable(new), IsTable(old)
  PROVE  /\ ClickHouseMigrate(new, old) \in Plans(Ops)
         /\ ~ClickHouseRefuses(new, old) => ClickHouseMigrate(new, old) \in Plans(SafeOps)
<1>1. CASE old = NoTable
  <2>1. ClickHouseMigrate(new, old) = Create
    BY <1>1 DEF ClickHouseMigrate, Migrate
  <2> QED BY <2>1, CreateIn, MoreOps
<1>2. CASE old # NoTable /\ ~ClickHouseForces(new, old)
  <2>1. ClickHouseMigrate(new, old) = ClickHouseAutoMigrate(new, old)
    BY <1>2 DEF ClickHouseMigrate, Migrate
  <2> QED BY <2>1, AutoMigrateIn, MoreOps
<1>3. CASE old # NoTable /\ ClickHouseForces(new, old)
  <2>1. ClickHouseMigrate(new, old) = Recreate
    BY <1>3 DEF ClickHouseMigrate, Migrate
  <2> QED BY <1>3, <2>1, CreateIn DEF ClickHouseRefuses
<1> QED BY <1>1, <1>2, <1>3

LEMMA BigQueryPlan ==
  ASSUME NEW new, NEW old
  PROVE  BigQueryMigrate(new, old) \in Plans(SafeOps)
<1>1. BigQueryMigrate(new, old) \in {Create, Once("merge", TRUE), Once("cannotMerge", TRUE)}
  BY DEF BigQueryMigrate
<1>2. "merge" \in SafeOps /\ "cannotMerge" \in SafeOps
  BY DEF SafeOps
<1> QED BY <1>1, <1>2, CreateIn, OnceIn

Known == Postgres \cup {"duckdb", "sqlite", "mysql", "mssql", "snowflake", "clickhouse", "bigquery"}

LEMMA StatementsIn ==
  ASSUME NEW d \in Known, NEW new, NEW old, IsTable(new), IsTable(old)
  PROVE  /\ Statements(d, new, old) \in Plans(Ops)
         /\ ~Refuses(d, new, old) => Statements(d, new, old) \in Plans(SafeOps)
<1>0. d \in {"postgresql", "cockroachdb", "duckdb", "sqlite", "mysql", "mssql", "snowflake", "clickhouse", "bigquery"}
  BY DEF Known, Postgres
<1>1. CASE new = NoTable
  <2>1. Statements(d, new, old) = << >>
    BY <1>1, Zenon DEF Statements
  <2> QED BY <2>1, NothingIn
<1> SUFFICES ASSUME new # NoTable
             PROVE  /\ Statements(d, new, old) \in Plans(Ops)
                    /\ ~Refuses(d, new, old) => Statements(d, new, old) \in Plans(SafeOps)
  BY <1>1
<1>2. CASE d \in Postgres
  <2>1. d \notin {"duckdb", "sqlite", "mysql", "mssql", "snowflake", "clickhouse", "bigquery"}
    BY <1>2 DEF Postgres
  <2>2. /\ Statements(d, new, old) = PostgresMigrate(d, new, old)
        /\ Refuses(d, new, old) = PostgresRefuses(new, old)
    BY <1>2, <2>1, Zenon DEF Statements, Refuses
  <2> QED BY <2>2, PostgresPlan
<1>3. CASE d = "duckdb"
  <2>1. d \notin Postgres
    BY <1>3 DEF Postgres
  <2>2. Statements(d, new, old) = DuckDBMigrate(new, old) /\ Refuses(d, new, old) = DuckDBRefuses(new, old)
    BY <1>3, <2>1, Zenon DEF Statements, Refuses
  <2> QED BY <2>2, DuckDBPlan
<1>4. CASE d = "sqlite"
  <2>1. d \notin Postgres
    BY <1>4 DEF Postgres
  <2>2. Statements(d, new, old) = SQLiteMigrate(new, old) /\ Refuses(d, new, old) = SQLiteRefuses(new, old)
    BY <1>4, <2>1, Zenon DEF Statements, Refuses
  <2> QED BY <2>2, SQLitePlan
<1>5. CASE d = "mysql"
  <2>1. d \notin Postgres
    BY <1>5 DEF Postgres
  <2>2. Statements(d, new, old) = MySQLMigrate(new, old) /\ Refuses(d, new, old) = MySQLRefuses(new, old)
    BY <1>5, <2>1, Zenon DEF Statements, Refuses
  <2> QED BY <2>2, MySQLPlan
<1>6. CASE d = "mssql"
  <2>1. d \notin Postgres
    BY <1>6 DEF Postgres
  <2>2. Statements(d, new, old) = MSSQLMigrate(new, old) /\ Refuses(d, new, old) = MSSQLRefuses(new, old)
    BY <1>6, <2>1, Zenon DEF Statements, Refuses
  <2> QED BY <2>2, MSSQLPlan
<1>7. CASE d = "snowflake"
  <2>1. d \notin Postgres
    BY <1>7 DEF Postgres
  <2>2. Statements(d, new, old) = SnowflakeMigrate(new, old) /\ Refuses(d, new, old) = SnowflakeRefuses(new, old)
    BY <1>7, <2>1, Zenon DEF Statements, Refuses
  <2> QED BY <2>2, SnowflakePlan
<1>8. CASE d = "clickhouse"
  <2>1. d \notin Postgres
    BY <1>8 DEF Postgres
  <2>2. Statements(d, new, old) = ClickHouseMigrate(new, old) /\ Refuses(d, new, old) = ClickHouseRefuses(new, old)
    BY <1>8, <2>1, Zenon DEF Statements, Refuses
  <2> QED BY <2>2, ClickHousePlan
<1>9. CASE d = "bigquery"
  <2>1. d \notin Postgres
    BY <1>9 DEF Postgres
  <2>2. Statements(d, new, old) = BigQueryMigrate(new, old)
    BY <1>9, <2>1, Zenon DEF Statements
  <2> QED BY <2>2, BigQueryPlan, MoreOps
<1> QED BY <1>0, <1>2, <1>3, <1>4, <1>5, <1>6, <1>7, <1>8, <1>9 DEF Postgres

-----------------------------------------------------------------------------
(* What a statement does to the columns there are. *)

LEMMA EffectColumns ==
  ASSUME NEW d, NEW s \in [op : Ops, col : ColumnNames], s.op # "cannotMerge", NEW table, NEW new,
         NEW E, E = Effect(d, s, table, new)
  PROVE  \/ s.op = "drop" /\ DOMAIN E = {}
         \/ table = NoTable /\ DOMAIN E = DOMAIN new
         \/ DOMAIN E \in {DOMAIN table, DOMAIN table \cup DOMAIN new, DOMAIN table \cup {s.col}}
<1>1. CASE s.op = "create"
  <2>1. E = IF table = NoTable THEN [c \in DOMAIN new |-> Created(d, new[c])] ELSE table
    BY <1>1, Zenon DEF Effect
  <2>2. DOMAIN E = IF table = NoTable THEN DOMAIN new ELSE DOMAIN table
    BY <2>1
  <2> QED BY <2>2, <1>1
<1>2. CASE s.op = "merge"
  <2>1. E = table ++ new
    BY <1>2, Zenon DEF Effect
  <2>2. DOMAIN E = DOMAIN table \cup DOMAIN new
    BY <2>1 DEF ++
  <2> QED BY <2>2, <1>2
<1>3. CASE s.op = "add"
  <2>1. E = table ++ [c \in {s.col} |-> Added(d, new[c])]
    BY <1>3, Zenon DEF Effect
  <2>2. DOMAIN E = DOMAIN table \cup {s.col}
    BY <2>1 DEF ++
  <2> QED BY <2>2, <1>3
<1>4. CASE s.op = "move"
  <2>1. E = [c \in DOMAIN table |-> Moved(c, table[c])]
    BY <1>4, Zenon DEF Effect
  <2>2. DOMAIN E = DOMAIN table
    BY <2>1
  <2> QED BY <2>2, <1>4
<1>5. CASE s.op = "moveKey"
  <2>1. E = [c \in DOMAIN table |-> [Moved(c, table[c]) EXCEPT !.notNull = table[c].notNull \/ c = CqID]]
    BY <1>5, Zenon DEF Effect
  <2>2. DOMAIN E = DOMAIN table
    BY <2>1
  <2> QED BY <2>2, <1>5
<1>6. CASE s.op = "nullable"
  <2>1. E = [table EXCEPT ![s.col].notNull = FALSE]
    BY <1>6, Zenon DEF Effect
  <2>2. DOMAIN E = DOMAIN table
    BY <2>1
  <2> QED BY <2>2, <1>6
<1>7. CASE s.op = "notUnique"
  <2>1. E = [table EXCEPT ![s.col].unique = FALSE]
    BY <1>7, Zenon DEF Effect
  <2>2. DOMAIN E = DOMAIN table
    BY <2>1
  <2> QED BY <2>2, <1>7
<1>8. CASE s.op = "retype"
  <2>1. E = [table EXCEPT ![s.col].type = new[s.col].type, ![s.col].notNull = new[s.col].notNull]
    BY <1>8, Zenon DEF Effect
  <2>2. DOMAIN E = DOMAIN table
    BY <2>1
  <2> QED BY <2>2, <1>8
<1>9. CASE s.op = "dropKey"
  <2>1. E = [c \in DOMAIN table |-> [table[c] EXCEPT !.pk = FALSE]]
    BY <1>9, Zenon DEF Effect
  <2>2. DOMAIN E = DOMAIN table
    BY <2>1
  <2> QED BY <2>2, <1>9
<1>10. CASE s.op = "addKey"
  <2>1. E = [c \in DOMAIN table |-> [table[c] EXCEPT !.pk = c \in Keys(new)]]
    BY <1>10, Zenon DEF Effect
  <2>2. DOMAIN E = DOMAIN table
    BY <2>1
  <2> QED BY <2>2, <1>10
<1>11. CASE s.op = "drop"
  <2>1. E = NoTable
    BY <1>11, Zenon DEF Effect
  <2> QED BY <1>11, <2>1 DEF NoTable
<1>12. CASE s.op \in {"dropProc", "addProc"}
  <2>1. E = table
    BY <1>12, Zenon DEF Effect
  <2> QED BY <2>1
<1> QED BY <1>1, <1>2, <1>3, <1>4, <1>5, <1>6, <1>7, <1>8, <1>9, <1>10, <1>11, <1>12 DEF Ops, SafeOps

LEMMA NoColumns ==
  ASSUME NEW f, DOMAIN f = {}, f = [x \in DOMAIN f |-> f[x]]
  PROVE  f = NoTable
BY DEF NoTable

LEMMA EffectFunction ==
  ASSUME NEW d, NEW s \in [op : Ops, col : ColumnNames], s.op # "cannotMerge", NEW table, NEW new,
         table = [c \in DOMAIN table |-> table[c]]
  PROVE  LET E == Effect(d, s, table, new) IN E = [c \in DOMAIN E |-> E[c]]
<1> DEFINE E == Effect(d, s, table, new)
<1> SUFFICES E = [c \in DOMAIN E |-> E[c]]
  OBVIOUS
<1>1. CASE s.op = "create"
  <2>1. E = IF table = NoTable THEN [c \in DOMAIN new |-> Created(d, new[c])] ELSE table
    BY <1>1, Zenon DEF Effect
  <2> QED BY <2>1 DEF ++
<1>2. CASE s.op = "merge"
  <2>1. E = table ++ new
    BY <1>2, Zenon DEF Effect
  <2> QED BY <2>1 DEF ++
<1>3. CASE s.op = "add"
  <2>1. E = table ++ [c \in {s.col} |-> Added(d, new[c])]
    BY <1>3, Zenon DEF Effect
  <2> QED BY <2>1 DEF ++
<1>4. CASE s.op = "move"
  <2>1. E = [c \in DOMAIN table |-> Moved(c, table[c])]
    BY <1>4, Zenon DEF Effect
  <2> QED BY <2>1 DEF ++
<1>5. CASE s.op = "moveKey"
  <2>1. E = [c \in DOMAIN table |-> [Moved(c, table[c]) EXCEPT !.notNull = table[c].notNull \/ c = CqID]]
    BY <1>5, Zenon DEF Effect
  <2> QED BY <2>1 DEF ++
<1>6. CASE s.op = "nullable"
  <2>1. E = [table EXCEPT ![s.col].notNull = FALSE]
    BY <1>6, Zenon DEF Effect
  <2> QED BY <2>1 DEF ++
<1>7. CASE s.op = "notUnique"
  <2>1. E = [table EXCEPT ![s.col].unique = FALSE]
    BY <1>7, Zenon DEF Effect
  <2> QED BY <2>1 DEF ++
<1>8. CASE s.op = "retype"
  <2>1. E = [table EXCEPT ![s.col].type = new[s.col].type, ![s.col].notNull = new[s.col].notNull]
    BY <1>8, Zenon DEF Effect
  <2> QED BY <2>1 DEF ++
<1>9. CASE s.op = "dropKey"
  <2>1. E = [c \in DOMAIN table |-> [table[c] EXCEPT !.pk = FALSE]]
    BY <1>9, Zenon DEF Effect
  <2> QED BY <2>1 DEF ++
<1>10. CASE s.op = "addKey"
  <2>1. E = [c \in DOMAIN table |-> [table[c] EXCEPT !.pk = c \in Keys(new)]]
    BY <1>10, Zenon DEF Effect
  <2> QED BY <2>1 DEF ++
<1>11. CASE s.op = "drop"
  <2>1. E = NoTable
    BY <1>11, Zenon DEF Effect
  <2> QED BY <2>1 DEF NoTable
<1>12. CASE s.op \in {"dropProc", "addProc"}
  <2>1. E = table
    BY <1>12, Zenon DEF Effect
  <2> QED BY <2>1
<1> QED BY <1>1, <1>2, <1>3, <1>4, <1>5, <1>6, <1>7, <1>8, <1>9, <1>10, <1>11, <1>12 DEF Ops, SafeOps

-----------------------------------------------------------------------------
(* The invariant of Migrations. *)

IsWhole(table) == IsTable(table) /\ table = [c \in DOMAIN table |-> table[c]]

\* Plans are for the time between the check and the end of a call, and those
\* of a call in safe mode have no drop.
PlansInv ==
  /\ todo \in [Names -> Plans(Ops)]
  /\ \A t \in Names : todo[t] # << >> => phase = "migrate"
  /\ ~force => todo \in [Names -> Plans(SafeOps)]

TablesInv ==
  /\ dest \in Known
  /\ DOMAIN have = Names
  /\ \A t \in Names : IsWhole(have[t])
  /\ \A t \in Names : IsWhole(seen[t])
  /\ \A t \in Names : IsTable(want[t])

MigrateInv == TablesInv /\ PlansInv

LEMMA NoTableIsWhole == IsWhole(NoTable)
BY FS_EmptySet DEF IsWhole, IsTable, NoTable

LEMMA WantedIsTable ==
  ASSUME NEW t \in Names, IsTable(want[t])
  PROVE  IsTable(Wanted(t))
BY DEF IsTable, Wanted, NormalTable

LEMMA RequestedIsTable ==
  ASSUME NEW t \in Names, NEW r \in Requests[t]
  PROVE  IsTable(r)
BY MigrationsAssumption DEF IsTable, ColumnNames, Names

LEMMA EmptyPlans == [t \in Names |-> << >>] \in [Names -> Plans(Ops)] /\ [t \in Names |-> << >>] \in [Names -> Plans(SafeOps)]
BY NothingIn

LEMMA IdlePlans ==
  ASSUME PlansInv, \A t \in Names : todo[t] = << >>
  PROVE  todo \in [Names -> Plans(SafeOps)]
BY NothingIn DEF PlansInv

LEMMA MigrateInitInv == MigrateInit => MigrateInv
<1> SUFFICES ASSUME MigrateInit PROVE MigrateInv
  OBVIOUS
<1>1. dest \in Known /\ have = [t \in Names |-> NoTable] /\ want = [t \in Names |-> NoTable]
      /\ seen = [t \in Names |-> NoTable] /\ todo = [t \in Names |-> << >>]
  BY MigrationsAssumption DEF MigrateInit, Empty, Known
<1>2. IsTable(NoTable)
  BY NoTableIsWhole DEF IsWhole
<1>3. TablesInv
  BY <1>1, <1>2, NoTableIsWhole DEF TablesInv
<1>4. PlansInv
  BY <1>1, EmptyPlans DEF PlansInv
<1> QED BY <1>3, <1>4 DEF MigrateInv

LEMMA ReturnInv ==
  ASSUME MigrateInv, Return, \A t \in Names : todo[t] = << >>
  PROVE  MigrateInv'
<1>1. dest' = dest /\ have' = have /\ todo' = todo /\ want' = [t \in Names |-> NoTable]
      /\ seen' = [t \in Names |-> NoTable]
  BY DEF Return, Empty
<1>2. IsTable(NoTable)
  BY NoTableIsWhole DEF IsWhole
<1>3. (\A t \in Names : IsWhole(have[t]))' /\ DOMAIN have' = Names /\ dest' \in Known
  BY <1>1 DEF MigrateInv, TablesInv
<1>4. (\A t \in Names : IsWhole(seen[t]))' /\ (\A t \in Names : IsTable(want[t]))'
  BY <1>1, <1>2, NoTableIsWhole
<1>5. TablesInv'
  BY <1>3, <1>4 DEF TablesInv
<1>6. todo \in [Names -> Plans(SafeOps)] /\ todo \in [Names -> Plans(Ops)]
  BY IdlePlans DEF MigrateInv, PlansInv
<1>7. PlansInv'
  BY <1>1, <1>6 DEF PlansInv
<1> QED BY <1>5, <1>7 DEF MigrateInv

LEMMA RequestInv ==
  ASSUME MigrateInv, Request
  PROVE  MigrateInv'
<1>1. dest' = dest /\ have' = have /\ todo' = todo /\ seen' = seen /\ phase = "idle"
  BY DEF Request
<1>2. \A t \in Names : want'[t] \in Requests[t]
  BY DEF Request
<1>3. (\A t \in Names : IsTable(want[t]))'
  BY <1>2, RequestedIsTable
<1>4. (\A t \in Names : IsWhole(have[t]))' /\ (\A t \in Names : IsWhole(seen[t]))' /\ DOMAIN have' = Names /\ dest' \in Known
  BY <1>1 DEF MigrateInv, TablesInv
<1>5. TablesInv'
  BY <1>3, <1>4 DEF TablesInv
<1>6. \A t \in Names : todo[t] = << >>
  BY <1>1 DEF MigrateInv, PlansInv
<1>7. todo \in [Names -> Plans(SafeOps)] /\ todo \in [Names -> Plans(Ops)]
  BY <1>6, IdlePlans DEF MigrateInv, PlansInv
<1>8. PlansInv'
  BY <1>1, <1>6, <1>7 DEF PlansInv
<1> QED BY <1>5, <1>8 DEF MigrateInv

LEMMA ListingsWhole ==
  ASSUME TablesInv, NEW listed \in Listings, NEW t \in Names
  PROVE  IsWhole(listed[t])
<1>1. IsWhole(have[t]) /\ IsWhole(NoTable)
  BY NoTableIsWhole DEF TablesInv
<1>2. listed[t] \in {have[t], NoTable}
  BY DEF Listings, SQLiteListings, TablesInv
<1> QED BY <1>1, <1>2

LEMMA StartInv ==
  ASSUME MigrateInv, Start
  PROVE  MigrateInv'
<1>1. dest' = dest /\ have' = have /\ want' = want /\ force' = force /\ phase' = "migrate"
      /\ seen' \in Listings
  BY DEF Start
<1>2. \A t \in Names : IsWhole(seen'[t])
  BY <1>1, ListingsWhole DEF MigrateInv
<1>3. TablesInv'
  <2>1. (\A t \in Names : IsWhole(have[t]))' /\ (\A t \in Names : IsTable(want[t]))'
        /\ DOMAIN have' = Names /\ dest' \in Known
    BY <1>1 DEF MigrateInv, TablesInv
  <2> QED BY <1>2, <2>1 DEF TablesInv
<1>4. ASSUME NEW t \in Names
      PROVE  /\ Statements(dest, Wanted(t), seen'[t]) \in Plans(Ops)
             /\ ~force => Statements(dest, Wanted(t), seen'[t]) \in Plans(SafeOps)
  <2>1. IsTable(Wanted(t)) /\ IsTable(seen'[t]) /\ dest \in Known
    BY <1>2, WantedIsTable DEF MigrateInv, TablesInv, IsWhole
  <2>2. ~force => ~Refuses(dest, Wanted(t), seen'[t])
    BY DEF Start, Refused
  <2> QED BY <2>1, <2>2, StatementsIn
<1>5. todo' = [t \in Names |-> Statements(dest, Wanted(t), seen'[t])]
  BY DEF Start
<1>6. PlansInv'
  <2> DEFINE p(t) == Statements(dest, Wanted(t), seen'[t])
  <2>1. todo' = [t \in Names |-> p(t)]
    BY <1>5
  <2>2. \A t \in Names : p(t) \in Plans(Ops) /\ (~force => p(t) \in Plans(SafeOps))
    BY <1>4
  <2> HIDE DEF p
  <2> QED BY <1>1, <2>1, <2>2 DEF PlansInv
<1> QED BY <1>3, <1>6 DEF MigrateInv

\* The head of a plan, and what is left of it.
LEMMA PlanParts ==
  ASSUME NEW ops, NEW p \in Plans(ops), p # << >>
  PROVE  Head(p) \in [op : ops, col : ColumnNames] /\ Tail(p) \in Plans(ops)
<1> DEFINE T == [op : ops, col : ColumnNames]
<1>1. p \in Seq(T)
  BY DEF Plans
<1> HIDE DEF T
<1>2. Head(p) \in T /\ Tail(p) \in Seq(T)
  BY <1>1, HeadTailProperties
<1> QED BY <1>2 DEF Plans, T

LEMMA ExecuteInv ==
  ASSUME MigrateInv, NEW t \in Names, Execute(t)
  PROVE  MigrateInv'
<1> DEFINE s == Head(todo[t])
           E == Effect(dest, s, have[t], Wanted(t))
<1>1. /\ dest' = dest /\ want' = want /\ force' = force /\ phase' = phase /\ seen' = seen
      /\ todo[t] # << >> /\ s.op # "cannotMerge"
      /\ have' = [have EXCEPT ![t] = E]
      /\ todo' = [todo EXCEPT ![t] = Tail(@)]
  BY DEF Execute, Turn, Possible
<1>2. s \in [op : Ops, col : ColumnNames] /\ Tail(todo[t]) \in Plans(Ops)
  BY <1>1, PlanParts DEF MigrateInv, PlansInv
<1>3. ~force => Tail(todo[t]) \in Plans(SafeOps)
  BY <1>1, PlanParts DEF MigrateInv, PlansInv
<1>4. IsWhole(have[t]) /\ IsTable(Wanted(t))
  BY WantedIsTable DEF MigrateInv, TablesInv
<1> HIDE DEF s
<1>5. E = [c \in DOMAIN E |-> E[c]]
  BY <1>1, <1>2, <1>4, EffectFunction DEF IsWhole
<1>6. IsTable(E)
  <2>0. E = Effect(dest, s, have[t], Wanted(t))
    OBVIOUS
  <2> HIDE DEF E
  <2>1. DOMAIN E = {} \/ DOMAIN E \in {DOMAIN Wanted(t), DOMAIN have[t],
                                       DOMAIN have[t] \cup DOMAIN Wanted(t), DOMAIN have[t] \cup {s.col}}
    <3>1. s \in [op : Ops, col : ColumnNames] /\ s.op # "cannotMerge"
      BY <1>1, <1>2
    <3>2. \/ s.op = "drop" /\ DOMAIN E = {}
          \/ have[t] = NoTable /\ DOMAIN E = DOMAIN Wanted(t)
          \/ DOMAIN E \in {DOMAIN have[t], DOMAIN have[t] \cup DOMAIN Wanted(t), DOMAIN have[t] \cup {s.col}}
      BY <2>0, <3>1, EffectColumns, Zenon
    <3> QED BY <3>2
  <2>2. s.col \in ColumnNames
    BY <1>2
  <2>3. DOMAIN E \subseteq ColumnNames
    BY <1>4, <2>1, <2>2 DEF IsTable, IsWhole
  <2>4. IsFiniteSet(DOMAIN have[t]) /\ IsFiniteSet(DOMAIN Wanted(t))
    BY <1>4 DEF IsTable, IsWhole
  <2>5. IsFiniteSet(DOMAIN have[t] \cup DOMAIN Wanted(t)) /\ IsFiniteSet(DOMAIN have[t] \cup {s.col}) /\ IsFiniteSet({})
    BY <2>4, FS_Union, FS_AddElement, FS_EmptySet
  <2> HIDE DEF E
  <2> QED BY <2>1, <2>3, <2>4, <2>5 DEF IsTable
<1> HIDE DEF E
<1>7. TablesInv'
  <2>1. \A u \in Names : IsWhole(have'[u])
    BY <1>1, <1>5, <1>6 DEF MigrateInv, TablesInv, IsWhole
  <2>2. (\A u \in Names : IsWhole(seen[u]))' /\ (\A u \in Names : IsTable(want[u]))' /\ DOMAIN have' = Names /\ dest' \in Known
    BY <1>1 DEF MigrateInv, TablesInv
  <2> QED BY <2>1, <2>2 DEF TablesInv
<1>8. PlansInv'
  <2>1. todo' \in [Names -> Plans(Ops)]
    BY <1>1, <1>2 DEF MigrateInv, PlansInv
  <2>2. ~force' => todo' \in [Names -> Plans(SafeOps)]
    BY <1>1, <1>3 DEF MigrateInv, PlansInv
  <2>3. phase' = "migrate"
    BY <1>1 DEF MigrateInv, PlansInv
  <2> QED BY <2>1, <2>2, <2>3 DEF PlansInv
<1> QED BY <1>7, <1>8 DEF MigrateInv

LEMMA FailInv ==
  ASSUME MigrateInv, NEW t \in Names, Fail(t)
  PROVE  MigrateInv'
<1>1. /\ dest' = dest /\ have' = have /\ want' = want /\ force' = force /\ phase' = phase /\ seen' = seen
      /\ todo[t] # << >>
      /\ todo' \in {[todo EXCEPT ![t] = << >>], [u \in Names |-> << >>]}
  BY DEF Fail, Turn
<1>2. TablesInv'
  BY <1>1 DEF MigrateInv, TablesInv
<1>3. phase' = "migrate"
  BY <1>1 DEF MigrateInv, PlansInv
<1>4. \A ops : todo \in [Names -> Plans(ops)] => todo' \in [Names -> Plans(ops)]
  BY <1>1, NothingIn
<1>5. PlansInv'
  BY <1>1, <1>3, <1>4 DEF MigrateInv, PlansInv
<1> QED BY <1>2, <1>5 DEF MigrateInv

LEMMA MigrateStep == MigrateInv /\ [MigrateNext]_migrateVars => MigrateInv'
<1> SUFFICES ASSUME MigrateInv, [MigrateNext]_migrateVars PROVE MigrateInv'
  OBVIOUS
<1>1. ASSUME phase = "list" \/ Done PROVE \A t \in Names : todo[t] = << >>
  BY <1>1 DEF MigrateInv, PlansInv, Done
<1>2. CASE ListFails
  BY <1>1, <1>2, ReturnInv DEF ListFails
<1>3. CASE Refuse
  BY <1>1, <1>3, ReturnInv DEF Refuse
<1>4. CASE Finish
  BY <1>1, <1>4, ReturnInv DEF Finish
<1>5. CASE UNCHANGED migrateVars
  BY <1>5 DEF migrateVars, MigrateInv, TablesInv, PlansInv
<1> QED BY <1>2, <1>3, <1>4, <1>5, RequestInv, StartInv, ExecuteInv, FailInv DEF MigrateNext

\* Nothing but a drop makes a table go, and in safe mode no plan has one.
LEMMA SafeStep ==
  ASSUME MigrateInv, [MigrateNext]_migrateVars, ~force, NEW t \in Names, have[t] # NoTable
  PROVE  have'[t] # NoTable
<1>1. CASE have' = have
  BY <1>1
<1>2. ASSUME NEW u \in Names, Execute(u) PROVE have'[t] # NoTable
  <2> DEFINE s == Head(todo[u])
             E == Effect(dest, s, have[u], Wanted(u))
  <2>1. have' = [have EXCEPT ![u] = E] /\ todo[u] # << >> /\ s.op # "cannotMerge"
    BY <1>2 DEF Execute, Turn, Possible
  <2>2. CASE u # t
    BY <2>1, <2>2 DEF MigrateInv, TablesInv
  <2>3. CASE u = t
    <3>1. s \in [op : SafeOps, col : ColumnNames]
      BY <2>1, PlanParts DEF MigrateInv, PlansInv
    <3>2. s \in [op : Ops, col : ColumnNames] /\ s.op # "drop"
      BY <3>1 DEF Ops, SafeOps
    <3>3. DOMAIN have[t] # {}
      BY NoColumns DEF MigrateInv, TablesInv, IsWhole
    <3>6. E = Effect(dest, s, have[t], Wanted(t))
      BY <2>3
    <3> HIDE DEF s, E
    <3>4. DOMAIN E # {}
      <4>1. s \in [op : Ops, col : ColumnNames] /\ s.op # "cannotMerge"
        BY <2>1, <3>2
      <4>2. \/ s.op = "drop" /\ DOMAIN E = {}
            \/ have[t] = NoTable /\ DOMAIN E = DOMAIN Wanted(t)
            \/ DOMAIN E \in {DOMAIN have[t], DOMAIN have[t] \cup DOMAIN Wanted(t), DOMAIN have[t] \cup {s.col}}
        BY <3>6, <4>1, EffectColumns, Zenon
      <4> QED BY <3>2, <3>3, <4>2 DEF NoTable
    <3>5. have'[t] = E
      BY <2>1, <2>3 DEF MigrateInv, TablesInv
    <3> QED BY <3>4, <3>5 DEF NoTable
  <2> QED BY <2>2, <2>3
<1>3. CASE Request \/ ListFails \/ Refuse \/ Start \/ Finish \/ (\E u \in Names : Fail(u)) \/ UNCHANGED migrateVars
  <2>1. have' = have
    BY <1>3 DEF Request, ListFails, Refuse, Start, Finish, Fail, Return, migrateVars
  <2> QED BY <2>1
<1> QED BY <1>2, <1>3 DEF MigrateNext

\* Plans are made between the check and the end of a call; in safe mode none
\* of them drops a table.
THEOREM MigrateInvariant == MigrateSpec => []MigrateInv
BY MigrateInitInv, MigrateStep, PTL DEF MigrateSpec

\* In safe mode no table is ever dropped: for all dialects, whatever the
\* tables were before, and whatever statements have failed.
THEOREM SafeMigrationsDropNothing == MigrateSpec => SafeKeepsTables
<1>1. MigrateInv /\ [MigrateNext]_migrateVars =>
        [~force => \A t \in Names : have[t] # NoTable => have'[t] # NoTable]_migrateVars
  BY SafeStep
<1> QED BY <1>1, MigrateInvariant, PTL DEF MigrateSpec, SafeKeepsTables

-----------------------------------------------------------------------------
(* Migrations: what a plan leaves behind. A plan is known by the statements *)
(* it has, whatever their order; only the drop of a table that is made     *)
(* again comes first.                                                      *)

Has(p, op, c) == \E i \in DOMAIN p : p[i].op = op /\ p[i].col = c

\* PassedOver, for any two tables.
PassedBy(d, new, old) ==
  \/ /\ d \in Postgres /\ MovesToCqID(new, old)
     /\ \E c \in Updates(new, old) \ {CqID} :
          new[c].type # old[c].type \/ ~old[c].pk \/ new[c].notNull
  \/ /\ d = "snowflake"
     /\ \E c \in DOMAIN old :
          \/ c \in DOMAIN new /\ new[c].type # old[c].type
          \/ c \in DOMAIN new /\ new[c].notNull /\ ~old[c].notNull
          \/ old[c].pk /\ (c \in DOMAIN new => ~new[c].pk)

\* What a table is altered with, and all that a plan may have.
AlterOps(d) ==
  CASE d = "postgresql"                           -> {"add", "move", "notUnique"}
    [] d = "cockroachdb"                          -> {"add", "moveKey", "nullable", "notUnique"}
    [] d \in {"duckdb", "sqlite", "clickhouse"}   -> {"add"}
    [] d = "mysql"                                -> {"add", "notUnique"}
    [] d = "mssql"                                -> {"add", "retype", "dropProc", "addProc"}
    [] d = "snowflake"                            -> {"addKey", "notUnique", "add", "nullable"}
    [] d = "bigquery"                             -> {"merge", "cannotMerge"}

\* CockroachDB between the two transactions of a move: the columns of the old
\* key are still NOT NULL.
HalfMoved(new, table) ==
  /\ PlainAddsAndRemoves(new, table) /\ Keys(table) = Keys(new)
  /\ \A c \in Updates(new, table) : new[c].type = table[c].type /\ ~new[c].notNull

\* The changes from a table to the wanted one can be made.
CanChange(d, new, table) ==
  CASE d = "postgresql"  -> PostgresCan(new, table)
    [] d = "cockroachdb" -> PostgresCan(new, table) \/ HalfMoved(new, table)
    [] d = "duckdb"      -> DuckDBCan(new, table)
    [] d = "sqlite"      -> SQLiteCan(new, table)
    [] d = "mysql"       -> MySQLCan(new, table)
    [] d = "mssql"       -> MSSQLCan(new, table)
    [] d = "snowflake"   -> SnowflakeCan(new, table)
    [] d = "clickhouse"  -> ~ClickHouseForces(new, table)
    [] d = "bigquery"    -> TRUE

\* The statements of a plan fit the two tables, whichever of them are left.
PlanSuits(new, table, p) ==
  \A c \in ColumnNames :
    /\ Has(p, "add", c) => c \in DOMAIN new
    /\ Has(p, "nullable", c) => c \in DOMAIN new /\ ~new[c].notNull
    /\ Has(p, "retype", c) => c \in DOMAIN table /\ table[c].pk
    /\ Has(p, "move", c) \/ Has(p, "moveKey", c) => Keys(new) = {CqID} /\ CqID \in DOMAIN table
    /\ Has(p, "merge", c) => BigQueryCanMerge(new, table)

Altering(d, new, table, p) ==
  /\ p \in Plans(AlterOps(d))
  /\ CanChange(d, new, table) /\ ~PassedBy(d, new, table)
  /\ PlanSuits(new, table, p)

\* What is different has a statement that is left.
Remains(d, new, table, p) ==
  /\ d # "bigquery" => \A c \in Adds(new, table) : Has(p, "add", c)
  /\ d = "postgresql" /\ MovesToCqID(new, table) => Has(p, "move", CqID)
  /\ d = "cockroachdb" /\ MovesToCqID(new, table) =>
       Has(p, "moveKey", CqID) /\ \A c \in Keys(table) : table[c].notNull => Has(p, "nullable", c)
  /\ d = "cockroachdb" /\ ~MovesToCqID(new, table) =>
       \A c \in Updates(new, table) : Has(p, "nullable", c)
  /\ d = "mssql" => \A c \in Updates(new, table) : Has(p, "retype", c)
  /\ d = "snowflake" /\ AddsKey(new, table) => Has(p, "addKey", CqID)
  /\ d = "bigquery" =>
       \/ Has(p, "cannotMerge", CqID)
       \/ BigQueryCanMerge(new, table) /\ (Has(p, "merge", CqID) \/ Adds(new, table) = {})

\* A table is made, or made again.
TVP == <<Stmt("dropProc", CqID), Stmt("addProc", CqID)>>
Remaking(d, table, p) ==
  \/ p = Recreate
  \/ p = Create /\ table = NoTable
  \/ d = "mssql" /\ p = <<Stmt("drop", CqID), Stmt("create", CqID), Stmt("dropProc", CqID), Stmt("addProc", CqID)>>
  \/ d = "mssql" /\ p = <<Stmt("create", CqID), Stmt("dropProc", CqID), Stmt("addProc", CqID)>> /\ table = NoTable

\* Columns. (No prover knows "large", which mssql makes of a type, for a string.)
TableColumns == [type : STRING \cup {"large"}, pk : BOOLEAN, notNull : BOOLEAN, unique : BOOLEAN]
Columned(table) == \A c \in DOMAIN table : table[c] \in TableColumns

-----------------------------------------------------------------------------
(* Statements of a plan. *)

LEMMA PlanIsSeq ==
  ASSUME NEW ops, NEW p \in Plans(ops)
  PROVE  /\ Len(p) \in Nat /\ DOMAIN p = 1..Len(p)
         /\ \A i \in 1..Len(p) : p[i] \in [op : ops, col : ColumnNames]
<1> DEFINE T == [op : ops, col : ColumnNames]
<1>1. p \in Seq(T)
  BY DEF Plans
<1> HIDE DEF T
<1>2. Len(p) \in Nat /\ DOMAIN p = 1..Len(p) /\ \A i \in 1..Len(p) : p[i] \in T
  BY <1>1
<1> QED BY <1>2 DEF T

LEMMA HasNothing ==
  ASSUME NEW op, NEW c
  PROVE  ~Has(<< >>, op, c)
BY DEF Has

LEMMA HasIn ==
  ASSUME NEW ops, NEW p \in Plans(ops), NEW op, NEW c, Has(p, op, c)
  PROVE  op \in ops /\ c \in ColumnNames
BY PlanIsSeq DEF Has

LEMMA HasTail ==
  ASSUME NEW ops, NEW p \in Plans(ops), p # << >>, NEW op, NEW c
  PROVE  /\ Has(Tail(p), op, c) => Has(p, op, c)
         /\ Has(p, op, c) => Has(Tail(p), op, c) \/ (Head(p).op = op /\ Head(p).col = c)
         /\ Has(p, Head(p).op, Head(p).col)
<1> DEFINE T == [op : ops, col : ColumnNames]
<1>1. p \in Seq(T)
  BY DEF Plans
<1> HIDE DEF T
<1>2. /\ Len(p) \in Nat /\ Len(p) >= 1 /\ DOMAIN p = 1..Len(p)
      /\ DOMAIN Tail(p) = 1..(Len(p) - 1) /\ \A i \in 1..(Len(p) - 1) : Tail(p)[i] = p[i + 1]
      /\ Head(p) = p[1]
  BY <1>1
<1>3. Has(Tail(p), op, c) => Has(p, op, c)
  BY <1>2 DEF Has
<1>4. ASSUME Has(p, op, c) PROVE Has(Tail(p), op, c) \/ (Head(p).op = op /\ Head(p).col = c)
  <2>1. PICK i \in 1..Len(p) : p[i].op = op /\ p[i].col = c
    BY <1>2, <1>4 DEF Has
  <2>2. CASE i = 1
    BY <1>2, <2>1, <2>2
  <2>3. CASE i # 1
    <3>1. i - 1 \in 1..(Len(p) - 1) /\ Tail(p)[i - 1] = p[i]
      BY <1>2, <2>1, <2>3
    <3> QED BY <1>2, <2>1, <3>1 DEF Has
  <2> QED BY <2>2, <2>3
<1>5. Has(p, Head(p).op, Head(p).col)
  BY <1>2 DEF Has
<1> QED BY <1>3, <1>4, <1>5

LEMMA HasJoin ==
  ASSUME NEW ops, NEW p \in Plans(ops), NEW q \in Plans(ops), NEW op, NEW c
  PROVE  Has(p \o q, op, c) <=> Has(p, op, c) \/ Has(q, op, c)
<1> DEFINE T == [op : ops, col : ColumnNames]
<1>1. p \in Seq(T) /\ q \in Seq(T)
  BY DEF Plans
<1> HIDE DEF T
<1>2. /\ Len(p) \in Nat /\ Len(q) \in Nat /\ DOMAIN p = 1..Len(p) /\ DOMAIN q = 1..Len(q)
      /\ DOMAIN (p \o q) = 1..(Len(p) + Len(q))
      /\ \A i \in 1..(Len(p) + Len(q)) : (p \o q)[i] = IF i <= Len(p) THEN p[i] ELSE q[i - Len(p)]
  BY <1>1
<1>3. ASSUME Has(p, op, c) PROVE Has(p \o q, op, c)
  <2>1. PICK i \in 1..Len(p) : p[i].op = op /\ p[i].col = c
    BY <1>2, <1>3 DEF Has
  <2>2. i \in 1..(Len(p) + Len(q)) /\ (p \o q)[i] = p[i]
    BY <1>2, <2>1
  <2> QED BY <1>2, <2>1, <2>2 DEF Has
<1>4. ASSUME Has(q, op, c) PROVE Has(p \o q, op, c)
  <2>1. PICK i \in 1..Len(q) : q[i].op = op /\ q[i].col = c
    BY <1>2, <1>4 DEF Has
  <2>2. Len(p) + i \in 1..(Len(p) + Len(q)) /\ (p \o q)[Len(p) + i] = q[i]
    BY <1>2, <2>1
  <2> QED BY <1>2, <2>1, <2>2 DEF Has
<1>5. ASSUME Has(p \o q, op, c) PROVE Has(p, op, c) \/ Has(q, op, c)
  <2>1. PICK i \in 1..(Len(p) + Len(q)) : (p \o q)[i].op = op /\ (p \o q)[i].col = c
    BY <1>2, <1>5 DEF Has
  <2>2. CASE i <= Len(p)
    BY <1>2, <2>1, <2>2 DEF Has
  <2>3. CASE ~(i <= Len(p))
    <3>1. i - Len(p) \in 1..Len(q) /\ (p \o q)[i] = q[i - Len(p)]
      BY <1>2, <2>1, <2>3
    <3> QED BY <1>2, <2>1, <3>1 DEF Has
  <2> QED BY <2>2, <2>3
<1> QED BY <1>3, <1>4, <1>5

LEMMA SetToSeqOnto ==
  ASSUME NEW S, IsFiniteSet(S), NEW c \in S
  PROVE  \E i \in 1..Cardinality(S) : SetToSeq(S)[i] = c
<1> DEFINE good(f) == f \in [1..Cardinality(S) -> S] /\ IsInjective(f)
<1>1. Cardinality(S) \in Nat /\ ExistsBijection(1..Cardinality(S), S)
  BY FS_CardinalityType
<1>2. PICK f \in Bijection(1..Cardinality(S), S) : TRUE
  BY <1>1 DEF ExistsBijection
<1>3. good(f)
  BY <1>2 DEF Bijection, Injection, IsInjective
<1>4. good(SetToSeq(S))
  BY <1>3 DEF SetToSeq
<1>5. SetToSeq(S) \in Injection(1..Cardinality(S), S)
  BY <1>4 DEF Injection, IsInjective
<1>6. IsFiniteSet(1..Cardinality(S)) /\ Cardinality(1..Cardinality(S)) = Cardinality(S)
  BY <1>1, FS_Interval
<1>7. SetToSeq(S) \in Surjection(1..Cardinality(S), S)
  <2> DEFINE g == SetToSeq(S)  n == Cardinality(S)
             R == {g[i] : i \in 1..n}
  <2>1. R \subseteq S
    BY <1>4
  <2>2. g \in Injection(1..n, R)
    BY <1>5 DEF Injection
  <2>3. g \in Surjection(1..n, R)
    BY <2>2 DEF Surjection, Injection
  <2>4. g \in Bijection(1..n, R)
    BY <2>2, <2>3 DEF Bijection
  <2>5. ExistsBijection(1..n, R)
    BY <2>4 DEF ExistsBijection
  <2> HIDE DEF g, R, n
  <2>6. IsFiniteSet(R)
    BY <2>1, FS_Subset
  <2>7. Cardinality(R) = n
    BY <2>5, <2>6, <1>1, FS_CountingElements DEF n
  <2>8. R = S
    BY <2>1, <2>6, <2>7, FS_Subset DEF n
  <2> QED BY <2>3, <2>8 DEF g, n
<1> QED BY <1>7 DEF Surjection

LEMMA HasForEach ==
  ASSUME NEW S, IsFiniteSet(S), NEW o, NEW op, NEW c
  PROVE  Has(ForEach(o, S), op, c) <=> op = o /\ c \in S
<1> DEFINE n == Cardinality(S)
           g == SetToSeq(S)
           p == [i \in 1..n |-> Stmt(o, g[i])]
<1>1. ForEach(o, S) = p /\ DOMAIN p = 1..n /\ \A i \in 1..n : p[i].op = o /\ p[i].col = g[i]
  BY DEF ForEach, Stmt
<1>2. \A i \in 1..n : g[i] \in S
  BY SetToSeqIn
<1>3. \A x \in S : \E i \in 1..n : g[i] = x
  BY SetToSeqOnto
<1> HIDE DEF n, g, p
<1> QED BY <1>1, <1>2, <1>3 DEF Has

LEMMA HasOnce ==
  ASSUME NEW o, NEW b \in BOOLEAN, NEW op, NEW c
  PROVE  Has(Once(o, b), op, c) <=> b /\ op = o /\ c = CqID
<1>1. CASE b
  <2>1. Once(o, b) = <<Stmt(o, CqID)>>
    BY <1>1 DEF Once
  <2> DEFINE p == <<Stmt(o, CqID)>>
  <2>2. DOMAIN p = {1} /\ p[1].op = o /\ p[1].col = CqID
    BY DEF Stmt
  <2> HIDE DEF p
  <2>3. Has(p, op, c) <=> op = o /\ c = CqID
    BY <2>2 DEF Has
  <2> QED BY <1>1, <2>1, <2>3 DEF p
<1>2. CASE ~b
  BY <1>2, HasNothing DEF Once
<1> QED BY <1>1, <1>2

-----------------------------------------------------------------------------
(* Columns. *)

LEMMA FieldsOf ==
  ASSUME NEW col \in TableColumns
  PROVE  /\ col.pk \in BOOLEAN /\ col.notNull \in BOOLEAN /\ col.unique \in BOOLEAN
BY DEF TableColumns

LEMMA TableFields ==
  ASSUME NEW table, Columned(table), NEW c, c \in DOMAIN table
  PROVE  /\ table[c].pk \in BOOLEAN /\ table[c].notNull \in BOOLEAN /\ table[c].unique \in BOOLEAN
<1>1. table[c] \in TableColumns
  BY DEF Columned
<1> QED BY <1>1, FieldsOf

\* What holds of the tables of a destination, the wanted ones and those that
\* it has made.
Suited(d, table) ==
  /\ Columned(table)
  /\ d \in {"clickhouse", "bigquery"} => \A c \in DOMAIN table : ~table[c].pk
  /\ d = "mssql" => \A c \in DOMAIN table : table[c].type = "str" => table[c].pk

KeyNotNull(table) == \A c \in DOMAIN table : table[c].pk => table[c].notNull

LEMMA NormalColumn ==
  ASSUME NEW d \in Known, NEW col \in TableColumns
  PROVE  LET n == Normal(d, col) IN
         /\ n \in TableColumns
         /\ d \in Postgres => (n.pk => n.notNull)
         /\ d \in {"clickhouse", "bigquery"} => ~n.pk
         /\ d = "mssql" => (n.type = "str" => n.pk)
<1> DEFINE n == Normal(d, col)
<1>0. d \in {"postgresql", "cockroachdb", "duckdb", "sqlite", "mysql", "mssql", "snowflake", "clickhouse", "bigquery"}
  BY DEF Known, Postgres
<1>1. CASE d \in Postgres \cup {"duckdb", "mysql"}
  <2>1. d \notin {"clickhouse", "bigquery", "mssql", "sqlite", "snowflake"}
    BY <1>1 DEF Postgres
  <2>2. n = KeysAreNotNull(col)
    <3>1. CASE d \in Postgres
      <4>0. d \notin {"duckdb", "mysql"}
        BY <3>1 DEF Postgres
      <4>1. n = Postgresql(col)
        BY <3>1, <4>0, <2>1, Zenon DEF Normal
      <4> QED BY <4>1 DEF Postgresql
    <3>2. CASE d = "duckdb"
      <4>1. d \notin Postgres
        BY <3>2 DEF Postgres
      <4> QED BY <3>2, <4>1, Zenon DEF Normal, DuckDB
    <3>3. CASE d = "mysql"
      <4>1. d \notin Postgres
        BY <3>3 DEF Postgres
      <4> QED BY <3>3, <4>1, Zenon DEF Normal, MySQL
    <3> QED BY <1>1, <3>1, <3>2, <3>3
  <2> HIDE DEF n
  <2>3. n \in TableColumns /\ (n.pk => n.notNull)
    BY <2>2, FieldsOf DEF KeysAreNotNull, TableColumns
  <2> QED BY <2>1, <2>3 DEF n
<1>2. CASE d = "mssql"
  <2>1. d \notin Postgres
    BY <1>2 DEF Postgres
  <2>2. n = MSSQL(col)
    BY <1>2, <2>1, Zenon DEF Normal
  <2> HIDE DEF n
  <2> DEFINE k == KeysAreNotNull(col)
  <2>3. k \in TableColumns /\ k.pk = col.pk
    BY FieldsOf DEF KeysAreNotNull, TableColumns
  <2>4. n = [k EXCEPT !.type = IF k.type = "str" /\ ~col.pk THEN "large" ELSE k.type]
    BY <2>2 DEF MSSQL
  <2> HIDE DEF k
  <2>6. col.pk \in BOOLEAN
    BY FieldsOf
  <2>5. n \in TableColumns /\ (n.type = "str" => n.pk)
    <3>1. CASE k.type = "str" /\ ~col.pk
      <4>0. (IF k.type = "str" /\ ~col.pk THEN "large" ELSE k.type) = "large"
        BY <3>1
      <4>1. n = [k EXCEPT !.type = "large"]
        BY <2>4, <4>0, Zenon
      <4>2. n \in TableColumns /\ n.type = "large"
        BY <2>3, <4>1 DEF TableColumns
      <4> QED BY <4>2
    <3>2. CASE ~(k.type = "str" /\ ~col.pk)
      <4>1. n = k
        BY <2>3, <2>4, <3>2 DEF TableColumns
      <4> QED BY <2>3, <2>6, <3>2, <4>1
    <3> QED BY <3>1, <3>2
  <2> QED BY <1>2, <2>1, <2>5 DEF n
<1>3. CASE d \in {"sqlite", "snowflake"}
  <2>1. d \notin Postgres
    BY <1>3 DEF Postgres
  <2>2. n = col
    BY <1>3, <2>1, Zenon DEF Normal, SQLite, Snowflake
  <2> HIDE DEF n
  <2>3. n \in TableColumns
    BY <2>2
  <2> QED BY <1>3, <2>1, <2>3 DEF n
<1>4. CASE d = "clickhouse"
  <2>1. d \notin Postgres
    BY <1>4 DEF Postgres
  <2>2. n = ClickHouse(col)
    BY <1>4, <2>1, Zenon DEF Normal
  <2> HIDE DEF n
  <2>3. IsCompound(col) \in BOOLEAN
    BY DEF IsCompound
  <2>4. n \in TableColumns /\ ~n.pk
    BY <2>2, <2>3, FieldsOf DEF ClickHouse, TableColumns
  <2> QED BY <1>4, <2>1, <2>4 DEF n
<1>5. CASE d = "bigquery"
  <2>1. d \notin Postgres
    BY <1>5 DEF Postgres
  <2>2. n = BigQuery(col)
    BY <1>5, <2>1, Zenon DEF Normal
  <2> HIDE DEF n
  <2>3. n \in TableColumns /\ ~n.pk
    BY <2>2, FieldsOf DEF BigQuery, TableColumns
  <2> QED BY <1>5, <2>1, <2>3 DEF n
<1> QED BY <1>0, <1>1, <1>2, <1>3, <1>4, <1>5 DEF Postgres

LEMMA NormalSuits ==
  ASSUME NEW d \in Known, NEW r, Columned(r)
  PROVE  Suited(d, NormalTable(d, r)) /\ (d \in Postgres => KeyNotNull(NormalTable(d, r)))
<1> DEFINE n == NormalTable(d, r)
<1>1. DOMAIN n = DOMAIN r /\ \A c \in DOMAIN r : n[c] = Normal(d, r[c])
  BY DEF NormalTable
<1> HIDE DEF n
<1>2. \A c \in DOMAIN r : r[c] \in TableColumns
  BY DEF Columned
<1>3. \A c \in DOMAIN n : 
         /\ n[c] \in TableColumns
         /\ d \in Postgres => (n[c].pk => n[c].notNull)
         /\ d \in {"clickhouse", "bigquery"} => ~n[c].pk
         /\ d = "mssql" => (n[c].type = "str" => n[c].pk)
  BY <1>1, <1>2, NormalColumn
<1>4. Suited(d, n)
  BY <1>3 DEF Suited, Columned
<1>5. d \in Postgres => KeyNotNull(n)
  BY <1>3 DEF KeyNotNull
<1> QED BY <1>4, <1>5 DEF n

LEMMA CreatedColumn ==
  ASSUME NEW d, NEW col \in TableColumns, NEW e, e = Created(d, col)
  PROVE  /\ e \in TableColumns /\ e.type = col.type /\ e.pk = col.pk /\ e.notNull = col.notNull
         /\ e.unique => col.unique
<1> DEFINE u == col.unique /\ d \notin {"sqlite", "mssql"} /\ ~(d = "mysql" /\ col.pk)
<1>1. u \in BOOLEAN /\ e = [col EXCEPT !.unique = u] /\ (u => col.unique)
  BY DEF Created
<1> HIDE DEF u
<1> QED BY <1>1 DEF TableColumns

AddedAs(d, col, e) ==
  /\ e \in TableColumns /\ e.type = col.type /\ e.pk = FALSE /\ (e.unique => col.unique)
  /\ d \in Postgres \cup {"duckdb", "sqlite"} => e.notNull = FALSE
  /\ d \notin Postgres \cup {"duckdb", "sqlite"} => e.notNull = col.notNull

LEMMA AddedColumn ==
  ASSUME NEW d, NEW col \in TableColumns, NEW e, e = Added(d, col)
  PROVE  AddedAs(d, col, e)
<1>1. CASE d \in Postgres \cup {"duckdb", "sqlite"}
  <2>1. e = [col EXCEPT !.pk = FALSE, !.notNull = FALSE, !.unique = FALSE]
    BY <1>1 DEF Added
  <2> QED BY <1>1, <2>1 DEF TableColumns, AddedAs
<1>2. CASE d \notin Postgres \cup {"duckdb", "sqlite"}
  <2> DEFINE C == Created(d, col)
  <2>1. e = [C EXCEPT !.pk = FALSE]
    BY <1>2 DEF Added
  <2>2. C \in TableColumns /\ C.type = col.type /\ C.notNull = col.notNull /\ (C.unique => col.unique)
    BY CreatedColumn
  <2> HIDE DEF C
  <2>3. e \in TableColumns /\ e.type = C.type /\ e.pk = FALSE /\ e.notNull = C.notNull /\ e.unique = C.unique
    BY <2>1, <2>2 DEF TableColumns
  <2> QED BY <1>2, <2>2, <2>3 DEF AddedAs
<1> QED BY <1>1, <1>2

-----------------------------------------------------------------------------
(* Statements one by one. *)

IsFcn(table) == table = [c \in DOMAIN table |-> table[c]]

Grown(d, c, table, new, E) ==
  /\ DOMAIN E = DOMAIN table \cup {c}
  /\ \A x \in DOMAIN table : E[x] = table[x]
  /\ c \in DOMAIN table => E = table
  /\ c \notin DOMAIN table => AddedAs(d, new[c], E[c])

\* A column added to a table that has none of its name.
LEMMA AddIs ==
  ASSUME NEW d, NEW s, s.op = "add", NEW table, IsFcn(table), NEW new, Columned(new), s.col \in DOMAIN new,
         NEW E, E = Effect(d, s, table, new)
  PROVE  Grown(d, s.col, table, new, E)
<1> DEFINE a == [c \in {s.col} |-> Added(d, new[c])]
<1>1. E = table ++ a
  BY Zenon DEF Effect
<1>2. DOMAIN a = {s.col} /\ a[s.col] = Added(d, new[s.col])
  OBVIOUS
<1> HIDE DEF a
<1>3. E = [x \in DOMAIN table \cup {s.col} |-> IF x \in DOMAIN table THEN table[x] ELSE a[x]]
  BY <1>1, <1>2 DEF ++
<1>4. s.col \in DOMAIN table => E = table
  <2>1. SUFFICES ASSUME s.col \in DOMAIN table PROVE E = table
    OBVIOUS
  <2>2. DOMAIN table \cup {s.col} = DOMAIN table
    BY <2>1
  <2>3. E = [x \in DOMAIN table |-> table[x]]
    BY <1>3, <2>2
  <2> QED BY <2>3 DEF IsFcn
<1>5. s.col \notin DOMAIN table => AddedAs(d, new[s.col], E[s.col])
  <2>1. SUFFICES ASSUME s.col \notin DOMAIN table PROVE AddedAs(d, new[s.col], E[s.col])
    OBVIOUS
  <2>2. E[s.col] = Added(d, new[s.col])
    BY <1>2, <1>3, <2>1
  <2>3. new[s.col] \in TableColumns
    BY DEF Columned
  <2> QED BY <2>2, <2>3, AddedColumn
<1> QED BY <1>3, <1>4, <1>5 DEF Grown

LEMMA MoveIs ==
  ASSUME NEW d, NEW s, s.op \in {"move", "moveKey"}, NEW table, Columned(table), NEW new,
         NEW E, E = Effect(d, s, table, new)
  PROVE  /\ DOMAIN E = DOMAIN table /\ Columned(E)
         /\ \A c \in DOMAIN table :
              /\ E[c].type = table[c].type /\ E[c].pk = (c = CqID)
              /\ E[c].notNull = (c = CqID \/ (table[c].notNull /\ (s.op = "move" => ~table[c].pk)))
<1> DEFINE n(c) == IF s.op = "move" THEN (table[c].notNull /\ ~table[c].pk) \/ c = CqID
                                    ELSE table[c].notNull \/ c = CqID
<1>a. s.op = "move" => E = [c \in DOMAIN table |-> Moved(c, table[c])]
  BY Zenon DEF Effect
<1>b. s.op = "moveKey" =>
        E = [c \in DOMAIN table |-> [Moved(c, table[c]) EXCEPT !.notNull = table[c].notNull \/ c = CqID]]
  BY Zenon DEF Effect
<1>1. DOMAIN E = DOMAIN table
  BY <1>a, <1>b
<1>2. \A c \in DOMAIN table : table[c] \in TableColumns
  BY DEF Columned
<1>3. ASSUME NEW c \in DOMAIN table
      PROVE  E[c] = [table[c] EXCEPT !.pk = c = CqID, !.notNull = n(c)]
  <2>1. CASE s.op = "move"
    <3>1. E[c] = Moved(c, table[c])
      BY <2>1, <1>a
    <3> QED BY <2>1, <3>1 DEF Moved
  <2>2. CASE s.op = "moveKey"
    <3>1. E[c] = [Moved(c, table[c]) EXCEPT !.notNull = table[c].notNull \/ c = CqID]
      BY <2>2, <1>b
    <3>2. s.op # "move"
      BY <2>2
    <3> QED BY <3>1, <3>2, <1>2 DEF Moved, TableColumns
  <2> QED BY <2>1, <2>2
<1>4. \A c \in DOMAIN table : n(c) \in BOOLEAN /\ n(c) = (c = CqID \/ (table[c].notNull /\ (s.op = "move" => ~table[c].pk)))
  BY <1>2, FieldsOf
<1> HIDE DEF n
<1>5. ASSUME NEW c \in DOMAIN table
      PROVE  E[c] \in TableColumns /\ E[c].type = table[c].type /\ E[c].pk = (c = CqID) /\ E[c].notNull = n(c)
  <2>1. n(c) \in BOOLEAN /\ (c = CqID) \in BOOLEAN /\ table[c] \in TableColumns
    BY <1>2, <1>4
  <2> QED BY <2>1, <1>3 DEF TableColumns
<1>6. Columned(E)
  BY <1>1, <1>5 DEF Columned
<1> QED BY <1>1, <1>4, <1>5, <1>6

Cleared(s, table, E) ==
  /\ DOMAIN E = DOMAIN table /\ Columned(E)
  /\ \A c \in DOMAIN table :
       /\ E[c].type = table[c].type /\ E[c].pk = table[c].pk /\ (E[c].unique => table[c].unique)
       /\ s.op = "nullable" /\ c = s.col => E[c].notNull = FALSE
       /\ ~(s.op = "nullable" /\ c = s.col) => E[c].notNull = table[c].notNull

\* A statement that clears a mark of a column.
LEMMA ClearIs ==
  ASSUME NEW d, NEW s, s.op \in {"nullable", "notUnique"}, NEW table, Columned(table), NEW new,
         NEW E, E = Effect(d, s, table, new)
  PROVE  Cleared(s, table, E)
<1>a. s.op = "nullable" => E = [table EXCEPT ![s.col].notNull = FALSE]
  BY Zenon DEF Effect
<1>b. s.op = "notUnique" => E = [table EXCEPT ![s.col].unique = FALSE]
  BY Zenon DEF Effect
<1>1. DOMAIN E = DOMAIN table
  BY <1>a, <1>b
<1>2. \A c \in DOMAIN table : table[c] \in TableColumns
  BY DEF Columned
<1>3. ASSUME NEW c \in DOMAIN table
      PROVE  /\ E[c] \in TableColumns /\ E[c].type = table[c].type /\ E[c].pk = table[c].pk
             /\ E[c].unique => table[c].unique
             /\ s.op = "nullable" /\ c = s.col => E[c].notNull = FALSE
             /\ ~(s.op = "nullable" /\ c = s.col) => E[c].notNull = table[c].notNull
  <2>1. CASE c # s.col
    <3>1. E[c] = table[c]
      BY <2>1, <1>a, <1>b
    <3> QED BY <1>2, <2>1, <3>1
  <2>2. CASE c = s.col /\ s.op = "nullable"
    <3>1. E[c] = [table[c] EXCEPT !.notNull = FALSE]
      BY <2>2, <1>a
    <3> QED BY <1>2, <2>2, <3>1 DEF TableColumns
  <2>3. CASE c = s.col /\ s.op = "notUnique"
    <3>1. E[c] = [table[c] EXCEPT !.unique = FALSE]
      BY <2>3, <1>b
    <3>2. s.op # "nullable"
      BY <2>3
    <3> QED BY <1>2, <3>1, <3>2 DEF TableColumns
  <2> QED BY <2>1, <2>2, <2>3
<1>4. Columned(E)
  BY <1>1, <1>3 DEF Columned
<1> QED BY <1>1, <1>3, <1>4 DEF Cleared

LEMMA OtherKey ==
  ASSUME NEW col \in TableColumns, NEW b \in BOOLEAN, NEW e, e = [col EXCEPT !.pk = b]
  PROVE  e \in TableColumns /\ e.type = col.type /\ e.notNull = col.notNull /\ e.pk = b
BY DEF TableColumns

LEMMA KeyIs ==
  ASSUME NEW d, NEW s, s.op \in {"addKey", "dropKey"}, NEW table, Columned(table), NEW new,
         NEW E, E = Effect(d, s, table, new)
  PROVE  /\ DOMAIN E = DOMAIN table /\ Columned(E)
         /\ \A c \in DOMAIN table :
              /\ E[c].type = table[c].type /\ E[c].notNull = table[c].notNull
              /\ E[c].pk = (s.op = "addKey" /\ c \in Keys(new))
<1> DEFINE k(c) == s.op = "addKey" /\ c \in Keys(new)
<1>a. s.op = "addKey" => E = [c \in DOMAIN table |-> [table[c] EXCEPT !.pk = c \in Keys(new)]]
  BY Zenon DEF Effect
<1>b. s.op = "dropKey" => E = [c \in DOMAIN table |-> [table[c] EXCEPT !.pk = FALSE]]
  BY Zenon DEF Effect
<1>1. DOMAIN E = DOMAIN table
  BY <1>a, <1>b
<1>2. \A c \in DOMAIN table : table[c] \in TableColumns
  BY DEF Columned
<1>3. ASSUME NEW c \in DOMAIN table
      PROVE  E[c] = [table[c] EXCEPT !.pk = k(c)]
  <2>1. CASE s.op = "addKey"
    <3>1. E[c] = [table[c] EXCEPT !.pk = c \in Keys(new)]
      BY <2>1, <1>a
    <3>2. (c \in Keys(new)) = k(c)
      BY <2>1
    <3> QED BY <3>1, <3>2
  <2>2. CASE s.op = "dropKey"
    <3>1. E[c] = [table[c] EXCEPT !.pk = FALSE]
      BY <2>2, <1>b
    <3>2. FALSE = k(c)
      BY <2>2
    <3> QED BY <3>1, <3>2
  <2> QED BY <2>1, <2>2
<1>4. \A c : k(c) \in BOOLEAN
  OBVIOUS
<1>5. \A c : k(c) = (s.op = "addKey" /\ c \in Keys(new))
  OBVIOUS
<1> HIDE DEF k
<1>6. ASSUME NEW c \in DOMAIN table
      PROVE  E[c] \in TableColumns /\ E[c].type = table[c].type /\ E[c].notNull = table[c].notNull /\ E[c].pk = k(c)
  <2>1. k(c) \in BOOLEAN /\ table[c] \in TableColumns
    BY <1>2, <1>4
  <2>2. E[c] = [table[c] EXCEPT !.pk = k(c)]
    BY <1>3
  <2> QED BY <2>1, <2>2, OtherKey
<1>7. Columned(E)
  BY <1>1, <1>6 DEF Columned
<1> QED BY <1>1, <1>5, <1>6, <1>7

LEMMA CreateIs ==
  ASSUME NEW d, NEW s, s.op = "create", NEW table, table = NoTable, NEW new, Columned(new),
         NEW E, E = Effect(d, s, table, new)
  PROVE  /\ DOMAIN E = DOMAIN new /\ Columned(E)
         /\ \A c \in DOMAIN new :
              /\ E[c].type = new[c].type /\ E[c].pk = new[c].pk /\ E[c].notNull = new[c].notNull
              /\ E[c].unique => new[c].unique
<1>0. E = IF table = NoTable THEN [c \in DOMAIN new |-> Created(d, new[c])] ELSE table
  BY Zenon DEF Effect
<1>1. E = [c \in DOMAIN new |-> Created(d, new[c])]
  BY <1>0
<1>2. \A c \in DOMAIN new : new[c] \in TableColumns
  BY DEF Columned
<1>3. \A c \in DOMAIN new :
        /\ E[c] \in TableColumns /\ E[c].type = new[c].type /\ E[c].pk = new[c].pk /\ E[c].notNull = new[c].notNull
        /\ E[c].unique => new[c].unique
  <2> TAKE c \in DOMAIN new
  <2>1. E[c] = Created(d, new[c]) /\ new[c] \in TableColumns
    BY <1>1, <1>2
  <2> QED BY <2>1, CreatedColumn
<1> QED BY <1>1, <1>3 DEF Columned

\* No statement of a plan makes a table of which this does not hold.
LEMMA SuitedStep ==
  ASSUME NEW d \in Known, NEW s \in [op : Ops, col : ColumnNames], s.op \notin {"cannotMerge", "retype"},
         NEW table, IsFcn(table), Suited(d, table), NEW new, Suited(d, new),
         s.op = "add" => s.col \in DOMAIN new,
         d \in {"mssql", "clickhouse", "bigquery"} => s.op \notin {"move", "moveKey", "dropKey", "addKey"},
         d = "mssql" /\ s.op = "add" /\ s.col \notin DOMAIN table => ~new[s.col].pk,
         NEW E, E = Effect(d, s, table, new)
  PROVE  Suited(d, E)
<1>0. s.op \in Ops /\ s.op \notin {"cannotMerge", "retype"} /\ Columned(table) /\ Columned(new)
  BY DEF Suited
<1>a. \A c \in DOMAIN table :
        /\ table[c] \in TableColumns
        /\ d \in {"clickhouse", "bigquery"} => ~table[c].pk
        /\ d = "mssql" => (table[c].type = "str" => table[c].pk)
  BY DEF Suited, Columned
<1>b. \A c \in DOMAIN new :
        /\ new[c] \in TableColumns
        /\ d \in {"clickhouse", "bigquery"} => ~new[c].pk
        /\ d = "mssql" => (new[c].type = "str" => new[c].pk)
  BY DEF Suited, Columned
<1>1. CASE s.op = "create"
  <2>1. CASE table = NoTable
    <3>1. /\ DOMAIN E = DOMAIN new /\ Columned(E)
          /\ \A c \in DOMAIN new : E[c].type = new[c].type /\ E[c].pk = new[c].pk
      BY <1>0, <1>1, <2>1, CreateIs
    <3> QED BY <1>b, <3>1 DEF Suited
  <2>2. CASE table # NoTable
    <3>1. E = IF table = NoTable THEN [c \in DOMAIN new |-> Created(d, new[c])] ELSE table
      BY <1>1, Zenon DEF Effect
    <3> QED BY <2>2, <3>1
  <2> QED BY <2>1, <2>2
<1>2. CASE s.op = "drop"
  <2>1. E = NoTable
    BY <1>2, Zenon DEF Effect
  <2> QED BY <2>1 DEF NoTable, Suited, Columned
<1>3. CASE s.op = "merge"
  <2>1. E = table ++ new
    BY <1>3, Zenon DEF Effect
  <2>2. \A c \in DOMAIN E : (c \in DOMAIN table /\ E[c] = table[c]) \/ (c \in DOMAIN new /\ E[c] = new[c])
    BY <2>1 DEF ++
  <2>3. \A c \in DOMAIN E :
          /\ E[c] \in TableColumns
          /\ d \in {"clickhouse", "bigquery"} => ~E[c].pk
          /\ d = "mssql" => (E[c].type = "str" => E[c].pk)
    BY <1>a, <1>b, <2>2
  <2> QED BY <2>3 DEF Suited, Columned
<1>4. CASE s.op = "add"
  <2>0. s.col \in DOMAIN new
    BY <1>4
  <2>g. Grown(d, s.col, table, new, E)
    BY <1>0, <1>4, <2>0, AddIs
  <2>1. DOMAIN E = DOMAIN table \cup {s.col} /\ \A c \in DOMAIN table : E[c] = table[c]
    BY <2>g DEF Grown
  <2>2. ASSUME s.col \notin DOMAIN table
        PROVE  E[s.col] \in TableColumns /\ E[s.col].type = new[s.col].type /\ E[s.col].pk = FALSE
    BY <2>g, <2>2 DEF Grown, AddedAs
  <2>3. ASSUME NEW c \in DOMAIN E
        PROVE  /\ E[c] \in TableColumns
               /\ d \in {"clickhouse", "bigquery"} => ~E[c].pk
               /\ d = "mssql" => (E[c].type = "str" => E[c].pk)
    <3>1. CASE c \in DOMAIN table
      BY <1>a, <2>1, <3>1
    <3>2. CASE c \notin DOMAIN table
      <4>1. c = s.col /\ s.col \notin DOMAIN table
        BY <2>1, <3>2
      <4>2. d = "mssql" => new[s.col].type # "str"
        BY <1>4, <1>b, <4>1
      <4> QED BY <2>2, <4>1, <4>2
    <3> QED BY <3>1, <3>2
  <2> QED BY <2>3 DEF Suited, Columned
<1>5. CASE s.op \in {"move", "moveKey"}
  <2>1. Columned(E)
    BY <1>0, <1>5, MoveIs
  <2> QED BY <1>5, <2>1 DEF Suited
<1>6. CASE s.op \in {"addKey", "dropKey"}
  <2>1. Columned(E)
    BY <1>0, <1>6, KeyIs
  <2> QED BY <1>6, <2>1 DEF Suited
<1>7. CASE s.op \in {"nullable", "notUnique"}
  <2>0. Cleared(s, table, E)
    BY <1>0, <1>7, ClearIs
  <2>1. /\ DOMAIN E = DOMAIN table /\ Columned(E)
        /\ \A c \in DOMAIN table : E[c].type = table[c].type /\ E[c].pk = table[c].pk
    BY <2>0 DEF Cleared
  <2> QED BY <1>a, <2>1 DEF Suited
<1>8. CASE s.op \in {"dropProc", "addProc"}
  <2>1. E = table
    BY <1>8, Zenon DEF Effect
  <2> QED BY <2>1
<1> QED BY <1>0, <1>1, <1>2, <1>3, <1>4, <1>5, <1>6, <1>7, <1>8 DEF Ops, SafeOps

-----------------------------------------------------------------------------
(* Statements that change nothing between a table and the wanted one but   *)
(* the columns that are not there.                                         *)

Alike(new, table, E) ==
  /\ DOMAIN table \subseteq DOMAIN E /\ DOMAIN E \subseteq DOMAIN table \cup DOMAIN new
  /\ \A x \in DOMAIN table :
       /\ E[x].type = table[x].type /\ E[x].pk = table[x].pk /\ E[x].notNull = table[x].notNull
       /\ E[x].unique => table[x].unique
  /\ \A x \in DOMAIN E : x \notin DOMAIN table =>
       /\ E[x].type = new[x].type /\ E[x].pk = new[x].pk /\ E[x].notNull = new[x].notNull
       /\ E[x].unique => new[x].unique

LEMMA AlikeChanges ==
  ASSUME NEW new, NEW table, NEW E, Alike(new, table, E)
  PROVE  /\ Adds(new, E) = Adds(new, table) \ DOMAIN E /\ Removes(new, E) = Removes(new, table)
         /\ Updates(new, E) = Updates(new, table)
         /\ Deuniques(new, E) \subseteq Deuniques(new, table)
         /\ OptionalColumns(table, Removes(new, table)) => OptionalColumns(E, Removes(new, E))
<1>1. Adds(new, E) = Adds(new, table) \ DOMAIN E /\ Removes(new, E) = Removes(new, table)
  BY DEF Alike, Adds, Removes
<1>2. Updates(new, E) = Updates(new, table)
  <2>1. ASSUME NEW c PROVE c \in Updates(new, E) <=> c \in Updates(new, table)
    <3>1. CASE c \in DOMAIN table
      BY <3>1 DEF Alike, Updates
    <3>2. CASE c \notin DOMAIN table
      BY <3>2 DEF Alike, Updates
    <3> QED BY <3>1, <3>2
  <2> QED BY <2>1
<1>3. Deuniques(new, E) \subseteq Deuniques(new, table)
  BY DEF Alike, Deuniques
<1>4. OptionalColumns(table, Removes(new, table)) => OptionalColumns(E, Removes(new, E))
  BY <1>1 DEF Alike, OptionalColumns, Removes
<1> QED BY <1>1, <1>2, <1>3, <1>4

LEMMA AlikeKeys ==
  ASSUME NEW new, NEW table, NEW E, Alike(new, table, E), \A c \in Adds(new, table) : ~new[c].pk
  PROVE  Keys(E) = Keys(table)
BY DEF Alike, Keys, Adds

LEMMA AlikePlain ==
  ASSUME NEW new, NEW table, NEW E, Alike(new, table, E), PlainAddsAndRemoves(new, table)
  PROVE  PlainAddsAndRemoves(new, E) /\ Keys(E) = Keys(table)
<1>1. OptionalColumns(new, Adds(new, E)) /\ OptionalColumns(E, Removes(new, E))
  BY AlikeChanges DEF PlainAddsAndRemoves, OptionalColumns
<1>2. \A c \in Adds(new, table) : ~new[c].pk
  BY DEF PlainAddsAndRemoves, OptionalColumns
<1> QED BY <1>1, <1>2, AlikeKeys DEF PlainAddsAndRemoves

LEMMA AlikeMoves ==
  ASSUME NEW new, NEW table, NEW E, Keys(E) = Keys(table)
  PROVE  MovesToCqID(new, E) <=> MovesToCqID(new, table)
BY DEF MovesToCqID

LEMMA AlikePostgres ==
  ASSUME NEW new, NEW table, NEW E, Alike(new, table, E), PostgresCan(new, table)
  PROVE  PostgresCan(new, E)
<1> DEFINE adding(t) == {c \in {x \in Updates(new, t) : new[x].type = t[x].type} : new[c].pk /\ ~t[c].pk}
           removing(t) == {c \in {x \in Updates(new, t) : new[x].type = t[x].type} : ~new[c].pk /\ t[c].pk}
<1>1. Updates(new, E) = Updates(new, table) /\ Updates(new, table) \subseteq DOMAIN table
  BY AlikeChanges DEF Updates
<1>2. \A c \in DOMAIN table : E[c].type = table[c].type /\ E[c].pk = table[c].pk
  BY DEF Alike
<1>3. adding(E) = adding(table) /\ removing(E) = removing(table)
  BY <1>1, <1>2
<1>4. PlainAddsAndRemoves(new, table)
      /\ \A c \in Updates(new, table) : MovesToCqID(new, table) /\ (adding(table) = {CqID} \/ c \in removing(table))
  BY DEF PostgresCan
<1>5. PlainAddsAndRemoves(new, E) /\ (MovesToCqID(new, E) <=> MovesToCqID(new, table))
  BY <1>4, AlikePlain, AlikeMoves
<1>6. \A c \in Updates(new, E) : MovesToCqID(new, E) /\ (adding(E) = {CqID} \/ c \in removing(E))
  <2> HIDE DEF adding, removing
  <2> QED BY <1>1, <1>3, <1>4, <1>5
<1> QED BY <1>5, <1>6 DEF PostgresCan

LEMMA AlikeHalfMoved ==
  ASSUME NEW new, NEW table, NEW E, Alike(new, table, E), HalfMoved(new, table)
  PROVE  HalfMoved(new, E)
<1>1. PlainAddsAndRemoves(new, E) /\ Keys(E) = Keys(table) /\ Updates(new, E) = Updates(new, table)
  BY AlikePlain, AlikeChanges DEF HalfMoved
<1>2. \A c \in Updates(new, table) : E[c].type = table[c].type
  BY DEF Alike, Updates
<1> QED BY <1>1, <1>2 DEF HalfMoved

LEMMA AlikeClickHouse ==
  ASSUME NEW new, NEW table, NEW E, Alike(new, table, E), ~ClickHouseForces(new, table)
  PROVE  ~ClickHouseForces(new, E)
<1>1. /\ \A c \in Adds(new, table) : IsCompound(new[c]) \/ ~new[c].notNull
      /\ \A c \in Removes(new, table) : ~table[c].notNull
      /\ Updates(new, table) = {} /\ SortKey(new) = SortKey(table)
  BY DEF ClickHouseForces, ClickHouseKeeps, SortKeyChanges
<1>2. /\ Adds(new, E) \subseteq Adds(new, table) /\ Removes(new, E) = Removes(new, table)
      /\ Updates(new, E) = {}
  BY <1>1, AlikeChanges
<1>3. \A c \in Removes(new, E) : ~E[c].notNull
  BY <1>1, <1>2 DEF Alike, Removes
<1>4. SortKey(E) = SortKey(table)
  <2>1. ASSUME NEW c PROVE c \in SortKey(E) <=> c \in SortKey(table)
    <3>1. CASE c \in DOMAIN table
      BY <3>1 DEF Alike, SortKey, IsCompound
    <3>2. CASE c \notin DOMAIN table
      <4>1. CASE c \in DOMAIN E
        <5>1. c \in Adds(new, table) /\ E[c].type = new[c].type /\ E[c].notNull = new[c].notNull
          BY <3>2, <4>1 DEF Alike, Adds
        <5> QED BY <1>1, <3>2, <5>1 DEF SortKey, IsCompound
      <4> QED BY <3>2, <4>1 DEF SortKey
    <3> QED BY <3>1, <3>2
  <2> QED BY <2>1
<1> QED BY <1>1, <1>2, <1>3, <1>4 DEF ClickHouseForces, ClickHouseKeeps, SortKeyChanges

LEMMA AlterOpsAre ==
  ASSUME NEW d
  PROVE  /\ d = "postgresql" => AlterOps(d) = {"add", "move", "notUnique"}
         /\ d = "cockroachdb" => AlterOps(d) = {"add", "moveKey", "nullable", "notUnique"}
         /\ d \in {"duckdb", "sqlite", "clickhouse"} => AlterOps(d) = {"add"}
         /\ d = "mysql" => AlterOps(d) = {"add", "notUnique"}
         /\ d = "mssql" => AlterOps(d) = {"add", "retype", "dropProc", "addProc"}
         /\ d = "snowflake" => AlterOps(d) = {"addKey", "notUnique", "add", "nullable"}
         /\ d = "bigquery" => AlterOps(d) = {"merge", "cannotMerge"}
<1>1. d = "postgresql" => AlterOps(d) = {"add", "move", "notUnique"}
  BY Zenon DEF AlterOps
<1>2. d = "cockroachdb" => AlterOps(d) = {"add", "moveKey", "nullable", "notUnique"}
  BY Zenon DEF AlterOps
<1>3. d \in {"duckdb", "sqlite", "clickhouse"} => AlterOps(d) = {"add"}
  BY Zenon DEF AlterOps
<1>4. d = "mysql" => AlterOps(d) = {"add", "notUnique"}
  BY Zenon DEF AlterOps
<1>5. d = "mssql" => AlterOps(d) = {"add", "retype", "dropProc", "addProc"}
  BY Zenon DEF AlterOps
<1>6. d = "snowflake" => AlterOps(d) = {"addKey", "notUnique", "add", "nullable"}
  BY Zenon DEF AlterOps
<1>7. d = "bigquery" => AlterOps(d) = {"merge", "cannotMerge"}
  BY Zenon DEF AlterOps
<1> QED BY <1>1, <1>2, <1>3, <1>4, <1>5, <1>6, <1>7

LEMMA CanIs ==
  ASSUME NEW d, NEW new, NEW table
  PROVE  /\ d = "postgresql" => (CanChange(d, new, table) <=> PostgresCan(new, table))
         /\ d = "cockroachdb" => (CanChange(d, new, table) <=> PostgresCan(new, table) \/ HalfMoved(new, table))
         /\ d = "duckdb" => (CanChange(d, new, table) <=> DuckDBCan(new, table))
         /\ d = "sqlite" => (CanChange(d, new, table) <=> SQLiteCan(new, table))
         /\ d = "mysql" => (CanChange(d, new, table) <=> MySQLCan(new, table))
         /\ d = "mssql" => (CanChange(d, new, table) <=> MSSQLCan(new, table))
         /\ d = "snowflake" => (CanChange(d, new, table) <=> SnowflakeCan(new, table))
         /\ d = "clickhouse" => (CanChange(d, new, table) <=> ~ClickHouseForces(new, table))
         /\ d = "bigquery" => CanChange(d, new, table)
<1>1. d = "postgresql" => (CanChange(d, new, table) <=> PostgresCan(new, table))
  BY Zenon DEF CanChange
<1>2. d = "cockroachdb" => (CanChange(d, new, table) <=> PostgresCan(new, table) \/ HalfMoved(new, table))
  BY Zenon DEF CanChange
<1>3. d = "duckdb" => (CanChange(d, new, table) <=> DuckDBCan(new, table))
  BY Zenon DEF CanChange
<1>4. d = "sqlite" => (CanChange(d, new, table) <=> SQLiteCan(new, table))
  BY Zenon DEF CanChange
<1>5. d = "mysql" => (CanChange(d, new, table) <=> MySQLCan(new, table))
  BY Zenon DEF CanChange
<1>6. d = "mssql" => (CanChange(d, new, table) <=> MSSQLCan(new, table))
  BY Zenon DEF CanChange
<1>7. d = "snowflake" => (CanChange(d, new, table) <=> SnowflakeCan(new, table))
  BY Zenon DEF CanChange
<1>8. d = "clickhouse" => (CanChange(d, new, table) <=> ~ClickHouseForces(new, table))
  BY Zenon DEF CanChange
<1>9. d = "bigquery" => CanChange(d, new, table)
  BY Zenon DEF CanChange
<1> QED BY <1>1, <1>2, <1>3, <1>4, <1>5, <1>6, <1>7, <1>8, <1>9

Destination == {"postgresql", "cockroachdb", "duckdb", "sqlite", "mysql", "mssql", "snowflake", "clickhouse", "bigquery"}

LEMMA KnownAre == Known = Destination
BY DEF Known, Postgres, Destination

LEMMA CanAlike ==
  ASSUME NEW d \in Known, d # "snowflake", NEW new, NEW table, NEW E, Alike(new, table, E),
         CanChange(d, new, table)
  PROVE  CanChange(d, new, E)
<1>0. d \in Destination
  BY KnownAre
<1>1. CASE d = "postgresql"
  BY <1>1, CanIs, AlikePostgres
<1>2. CASE d = "cockroachdb"
  BY <1>2, CanIs, AlikePostgres, AlikeHalfMoved
<1>3. CASE d = "duckdb"
  BY <1>3, CanIs, AlikePlain, AlikeChanges DEF DuckDBCan
<1>4. CASE d = "sqlite"
  BY <1>4, CanIs, AlikePlain, AlikeChanges, AlikeMoves DEF SQLiteCan
<1>5. CASE d = "mysql"
  BY <1>5, CanIs, AlikePlain, AlikeChanges, AlikeMoves DEF MySQLCan
<1>6. CASE d = "mssql"
  <2>1. MSSQLCan(new, table)
    BY <1>6, CanIs
  <2>2. /\ PlainAddsAndRemoves(new, E) /\ ~MovesToCqID(new, E)
        /\ Updates(new, E) = Updates(new, table) /\ Deuniques(new, E) = {}
    BY <2>1, AlikePlain, AlikeChanges, AlikeMoves DEF MSSQLCan
  <2>3. \A c \in Updates(new, table) : E[c].type = table[c].type
    BY DEF Alike, Updates
  <2> QED BY <1>6, <2>1, <2>2, <2>3, CanIs DEF MSSQLCan
<1>7. CASE d = "clickhouse"
  BY <1>7, CanIs, AlikeClickHouse
<1>8. CASE d = "bigquery"
  BY <1>8, CanIs
<1> QED BY <1>0, <1>1, <1>2, <1>3, <1>4, <1>5, <1>6, <1>7, <1>8 DEF Destination

LEMMA PostgresPlain ==
  ASSUME NEW d \in Postgres, NEW new, NEW table, CanChange(d, new, table)
  PROVE  PlainAddsAndRemoves(new, table)
<1>1. PostgresCan(new, table) \/ HalfMoved(new, table)
  BY CanIs DEF Postgres
<1> QED BY <1>1 DEF PostgresCan, HalfMoved

LEMMA PassedAlike ==
  ASSUME NEW d, d # "snowflake", NEW new, NEW table, NEW E, Alike(new, table, E), CanChange(d, new, table),
         ~PassedBy(d, new, table)
  PROVE  ~PassedBy(d, new, E)
<1>1. SUFFICES ASSUME d \in Postgres, MovesToCqID(new, E), NEW c \in Updates(new, E) \ {CqID},
                      new[c].type # E[c].type \/ ~E[c].pk \/ new[c].notNull
               PROVE  FALSE
  BY DEF PassedBy
<1>2. MovesToCqID(new, table) /\ c \in Updates(new, table)
  BY <1>1, PostgresPlain, AlikePlain, AlikeMoves, AlikeChanges
<1>3. E[c].type = table[c].type /\ E[c].pk = table[c].pk
  BY <1>2 DEF Alike, Updates
<1> QED BY <1>1, <1>2, <1>3 DEF PassedBy

\* What is left of a plan.
LEMMA RestHas ==
  ASSUME NEW ops, NEW p \in Plans(ops), p # << >>
  PROVE  /\ Tail(p) \in Plans(ops) /\ Head(p).op \in ops
         /\ \A op, c : Has(Tail(p), op, c) => Has(p, op, c)
         /\ \A op, c : Has(p, op, c) /\ ~(op = Head(p).op /\ c = Head(p).col) => Has(Tail(p), op, c)
         /\ Has(p, Head(p).op, Head(p).col)
<1>1. Tail(p) \in Plans(ops) /\ Head(p) \in [op : ops, col : ColumnNames]
  BY PlanParts
<1>2. \A op, c : Has(Tail(p), op, c) => Has(p, op, c)
  BY HasTail
<1>3. \A op, c : Has(p, op, c) /\ ~(op = Head(p).op /\ c = Head(p).col) => Has(Tail(p), op, c)
  BY HasTail
<1>4. Has(p, Head(p).op, Head(p).col)
  BY HasTail
<1> QED BY <1>1, <1>2, <1>3, <1>4

LEMMA AlteringAlike ==
  ASSUME NEW d \in Known, d # "snowflake", NEW new, NEW table, NEW E, Alike(new, table, E),
         NEW p, p # << >>, Altering(d, new, table, p)
  PROVE  Altering(d, new, E, Tail(p))
<1>1. Tail(p) \in Plans(AlterOps(d)) /\ \A op, c : Has(Tail(p), op, c) => Has(p, op, c)
  BY RestHas DEF Altering
<1>2. CanChange(d, new, E) /\ ~PassedBy(d, new, E)
  BY CanAlike, PassedAlike DEF Altering
<1>3. BigQueryCanMerge(new, table) => BigQueryCanMerge(new, E)
  BY DEF BigQueryCanMerge, Alike
<1>4. DOMAIN table \subseteq DOMAIN E /\ \A c \in DOMAIN table : E[c].pk = table[c].pk
  BY DEF Alike
<1>5. PlanSuits(new, table, p)
  BY DEF Altering
<1>6. ASSUME NEW c \in ColumnNames
      PROVE  /\ Has(Tail(p), "add", c) => c \in DOMAIN new
             /\ Has(Tail(p), "nullable", c) => c \in DOMAIN new /\ ~new[c].notNull
             /\ Has(Tail(p), "retype", c) => c \in DOMAIN E /\ E[c].pk
             /\ Has(Tail(p), "move", c) \/ Has(Tail(p), "moveKey", c) => Keys(new) = {CqID} /\ CqID \in DOMAIN E
             /\ Has(Tail(p), "merge", c) => BigQueryCanMerge(new, E)
  <2>1. /\ Has(p, "add", c) => c \in DOMAIN new
        /\ Has(p, "nullable", c) => c \in DOMAIN new /\ ~new[c].notNull
        /\ Has(p, "retype", c) => c \in DOMAIN table /\ table[c].pk
        /\ Has(p, "move", c) \/ Has(p, "moveKey", c) => Keys(new) = {CqID} /\ CqID \in DOMAIN table
        /\ Has(p, "merge", c) => BigQueryCanMerge(new, table)
    BY <1>5 DEF PlanSuits
  <2> QED BY <1>1, <1>3, <1>4, <2>1
<1>7. PlanSuits(new, E, Tail(p))
  BY <1>6 DEF PlanSuits
<1> QED BY <1>1, <1>2, <1>7 DEF Altering

LEMMA RemainsAlike ==
  ASSUME NEW d \in Known, d \notin {"snowflake", "bigquery"}, NEW new, NEW table, NEW E, Alike(new, table, E),
         NEW p, p # << >>, Altering(d, new, table, p), Remains(d, new, table, p),
         Head(p).op \in {"add", "notUnique", "dropProc", "addProc"},
         Head(p).op = "add" => Head(p).col \in DOMAIN E
  PROVE  Remains(d, new, E, Tail(p))
<1>1. \A op, c : Has(p, op, c) /\ ~(op = Head(p).op /\ c = Head(p).col) => Has(Tail(p), op, c)
  BY RestHas DEF Altering
<1>2. \A op \in {"move", "moveKey", "nullable", "retype"} : \A c : Has(p, op, c) => Has(Tail(p), op, c)
  BY <1>1
<1>3. Adds(new, E) = Adds(new, table) \ DOMAIN E /\ Updates(new, E) = Updates(new, table)
  BY AlikeChanges
<1>4. \A c \in Adds(new, E) : Has(Tail(p), "add", c)
  BY <1>1, <1>3 DEF Remains
<1>5. d = "postgresql" /\ MovesToCqID(new, E) => Has(Tail(p), "move", CqID)
  <2>1. SUFFICES ASSUME d = "postgresql", MovesToCqID(new, E) PROVE Has(Tail(p), "move", CqID)
    OBVIOUS
  <2>2. d \in Postgres /\ CanChange(d, new, table)
    BY <2>1 DEF Postgres, Altering
  <2>3. MovesToCqID(new, table)
    BY <2>1, <2>2, PostgresPlain, AlikePlain, AlikeMoves
  <2> QED BY <1>2, <2>1, <2>3 DEF Remains
<1>6. d = "cockroachdb" =>
        /\ MovesToCqID(new, E) =>
             Has(Tail(p), "moveKey", CqID) /\ \A c \in Keys(E) : E[c].notNull => Has(Tail(p), "nullable", c)
        /\ ~MovesToCqID(new, E) => \A c \in Updates(new, E) : Has(Tail(p), "nullable", c)
  <2>1. SUFFICES ASSUME d = "cockroachdb"
        PROVE  /\ MovesToCqID(new, E) =>
                    Has(Tail(p), "moveKey", CqID) /\ \A c \in Keys(E) : E[c].notNull => Has(Tail(p), "nullable", c)
               /\ ~MovesToCqID(new, E) => \A c \in Updates(new, E) : Has(Tail(p), "nullable", c)
    OBVIOUS
  <2>2. d \in Postgres /\ CanChange(d, new, table)
    BY <2>1 DEF Postgres, Altering
  <2>3. (MovesToCqID(new, E) <=> MovesToCqID(new, table)) /\ Keys(E) = Keys(table)
    BY <2>1, <2>2, PostgresPlain, AlikePlain, AlikeMoves
  <2>4. \A c \in Keys(table) : E[c].notNull = table[c].notNull
    BY DEF Alike, Keys
  <2>5. /\ MovesToCqID(new, table) =>
             Has(p, "moveKey", CqID) /\ \A c \in Keys(table) : table[c].notNull => Has(p, "nullable", c)
        /\ ~MovesToCqID(new, table) => \A c \in Updates(new, table) : Has(p, "nullable", c)
    BY <2>1 DEF Remains
  <2> QED BY <1>2, <1>3, <2>3, <2>4, <2>5
<1>7. d = "mssql" => \A c \in Updates(new, E) : Has(Tail(p), "retype", c)
  BY <1>2, <1>3 DEF Remains
<1> QED BY <1>4, <1>5, <1>6, <1>7 DEF Remains

LEMMA CanPlain ==
  ASSUME NEW d \in Known, d \notin {"snowflake", "clickhouse", "bigquery"}, NEW new, NEW table,
         CanChange(d, new, table)
  PROVE  PlainAddsAndRemoves(new, table)
<1>0. d \in Destination
  BY KnownAre
<1>1. CASE d \in {"postgresql", "cockroachdb"}
  BY <1>1, PostgresPlain DEF Postgres
<1>2. CASE d = "duckdb"
  BY <1>2, CanIs DEF DuckDBCan
<1>3. CASE d = "sqlite"
  BY <1>3, CanIs DEF SQLiteCan
<1>4. CASE d = "mysql"
  BY <1>4, CanIs DEF MySQLCan
<1>5. CASE d = "mssql"
  BY <1>5, CanIs DEF MSSQLCan
<1> QED BY <1>0, <1>1, <1>2, <1>3, <1>4, <1>5 DEF Destination

LEMMA UnchangedAlike ==
  ASSUME NEW new, NEW table
  PROVE  Alike(new, table, table)
BY DEF Alike

LEMMA GrownAlike ==
  ASSUME NEW d \in Known, d \notin {"snowflake", "bigquery"}, NEW new, Suited(d, new), NEW table,
         CanChange(d, new, table), NEW c, c \in DOMAIN new, NEW E, Grown(d, c, table, new, E)
  PROVE  Alike(new, table, E)
<1>1. CASE c \in DOMAIN table
  BY <1>1, UnchangedAlike DEF Grown
<1>2. CASE c \notin DOMAIN table
  <2>1. /\ DOMAIN E = DOMAIN table \cup {c} /\ AddedAs(d, new[c], E[c])
        /\ \A x \in DOMAIN table : E[x] = table[x]
    BY <1>2 DEF Grown
  <2>2. new[c].pk \in BOOLEAN /\ new[c].notNull \in BOOLEAN
    BY TableFields DEF Suited
  <2>3. c \in Adds(new, table)
    BY <1>2 DEF Adds
  <2>4. ~new[c].pk
    BY <2>3, CanPlain DEF Suited, PlainAddsAndRemoves, OptionalColumns
  <2>5. d \in Postgres \cup {"duckdb", "sqlite"} => ~new[c].notNull
    <3>1. d \in Postgres \cup {"duckdb", "sqlite"} => d \notin {"snowflake", "clickhouse", "bigquery"}
      BY DEF Postgres
    <3> QED BY <2>3, <3>1, CanPlain DEF PlainAddsAndRemoves, OptionalColumns
  <2>6. E[c].type = new[c].type /\ E[c].pk = new[c].pk /\ E[c].notNull = new[c].notNull /\ (E[c].unique => new[c].unique)
    BY <2>1, <2>2, <2>4, <2>5 DEF AddedAs
  <2> QED BY <2>1, <2>6 DEF Alike
<1> QED BY <1>1, <1>2

\* What a statement of a plan leaves, of the plan and of the table.
StepFits(d, new, table, p, E) ==
  /\ Altering(d, new, E, Tail(p))
  /\ Remains(d, new, table, p) => Remains(d, new, E, Tail(p))

\* For all of the next lemmas.
LEMMA HeadSuits ==
  ASSUME NEW d, NEW new, NEW table, NEW p, p # << >>, Altering(d, new, table, p)
  PROVE  LET s == Head(p) IN
         /\ s.op \in AlterOps(d) /\ s.col \in ColumnNames
         /\ s.op = "add" => s.col \in DOMAIN new
         /\ s.op = "nullable" => s.col \in DOMAIN new /\ ~new[s.col].notNull
         /\ s.op = "retype" => s.col \in DOMAIN table /\ table[s.col].pk
         /\ s.op \in {"move", "moveKey"} => Keys(new) = {CqID} /\ CqID \in DOMAIN table
         /\ s.op = "merge" => BigQueryCanMerge(new, table)
<1> DEFINE s == Head(p)
<1>1. p \in Plans(AlterOps(d)) /\ PlanSuits(new, table, p)
  BY DEF Altering
<1>2. s.op \in AlterOps(d) /\ s.col \in ColumnNames /\ Has(p, s.op, s.col)
  BY <1>1, RestHas, PlanParts
<1> HIDE DEF s
<1>3. /\ Has(p, "add", s.col) => s.col \in DOMAIN new
      /\ Has(p, "nullable", s.col) => s.col \in DOMAIN new /\ ~new[s.col].notNull
      /\ Has(p, "retype", s.col) => s.col \in DOMAIN table /\ table[s.col].pk
      /\ Has(p, "move", s.col) \/ Has(p, "moveKey", s.col) => Keys(new) = {CqID} /\ CqID \in DOMAIN table
      /\ Has(p, "merge", s.col) => BigQueryCanMerge(new, table)
  BY <1>1, <1>2 DEF PlanSuits
<1> QED BY <1>2, <1>3 DEF s

LEMMA AlikeStep ==
  ASSUME NEW d \in Known, d \notin {"snowflake", "bigquery"}, NEW new, Suited(d, new),
         NEW table, IsFcn(table), Suited(d, table), NEW p, p # << >>, Altering(d, new, table, p),
         Head(p).op \in {"add", "notUnique", "dropProc", "addProc"},
         NEW E, E = Effect(d, Head(p), table, new)
  PROVE  StepFits(d, new, table, p, E)
<1> DEFINE s == Head(p)
<1>0. Columned(table) /\ Columned(new) /\ CanChange(d, new, table)
  BY DEF Suited, Altering
<1>1. Alike(new, table, E) /\ (s.op = "add" => s.col \in DOMAIN E)
  <2>1. CASE s.op = "add"
    <3>1. s.col \in DOMAIN new
      BY <2>1, HeadSuits
    <3>2. Grown(d, s.col, table, new, E)
      BY <1>0, <2>1, <3>1, AddIs
    <3>3. s.col \in DOMAIN E
      BY <3>2 DEF Grown
    <3>4. Alike(new, table, E)
      <4> HIDE DEF s
      <4> QED BY <1>0, <3>1, <3>2, GrownAlike
    <3> QED BY <3>3, <3>4
  <2>2. CASE s.op = "notUnique"
    <3>1. Cleared(s, table, E)
      BY <1>0, <2>2, ClearIs
    <3>2. Alike(new, table, E)
      BY <2>2, <3>1 DEF Cleared, Alike
    <3> QED BY <2>2, <3>2
  <2>3. CASE s.op \in {"dropProc", "addProc"}
    <3>1. E = table
      BY <2>3, Zenon DEF Effect
    <3> QED BY <2>3, <3>1, UnchangedAlike
  <2> QED BY <2>1, <2>2, <2>3
<1>2. Altering(d, new, E, Tail(p))
  BY <1>1, AlteringAlike
<1>3. Remains(d, new, table, p) => Remains(d, new, E, Tail(p))
  BY <1>1, RemainsAlike
<1> QED BY <1>2, <1>3 DEF StepFits

LEMMA MergeStep ==
  ASSUME NEW new, NEW table, NEW p, p # << >>, Altering("bigquery", new, table, p),
         Head(p).op = "merge", NEW E, E = Effect("bigquery", Head(p), table, new)
  PROVE  StepFits("bigquery", new, table, p, E)
<1>1. E = table ++ new
  BY Zenon DEF Effect
<1>2. Alike(new, table, E) /\ Adds(new, E) = {}
  BY <1>1 DEF ++, Alike, Adds
<1>3. "bigquery" \in Known
  BY DEF Known
<1>4. Altering("bigquery", new, E, Tail(p))
  BY <1>2, <1>3, AlteringAlike
<1>5. BigQueryCanMerge(new, E)
  BY <1>2, HeadSuits DEF BigQueryCanMerge, Alike
<1>6. Remains("bigquery", new, E, Tail(p))
  BY <1>2, <1>5 DEF Remains
<1> QED BY <1>4, <1>6 DEF StepFits

LEMMA SuitsRest ==
  ASSUME NEW d, d \in {"postgresql", "cockroachdb", "snowflake"}, NEW new, NEW table, NEW p, p # << >>,
         p \in Plans(AlterOps(d)), PlanSuits(new, table, p), NEW E, DOMAIN table \subseteq DOMAIN E
  PROVE  Tail(p) \in Plans(AlterOps(d)) /\ PlanSuits(new, E, Tail(p))
<1>1. Tail(p) \in Plans(AlterOps(d)) /\ \A op, c : Has(Tail(p), op, c) => Has(p, op, c)
  BY RestHas
<1>2. "retype" \notin AlterOps(d) /\ "merge" \notin AlterOps(d)
  BY AlterOpsAre
<1>3. \A c : ~Has(Tail(p), "retype", c) /\ ~Has(Tail(p), "merge", c)
  BY <1>1, <1>2, HasIn
<1>4. ASSUME NEW c \in ColumnNames
      PROVE  /\ Has(Tail(p), "add", c) => c \in DOMAIN new
             /\ Has(Tail(p), "nullable", c) => c \in DOMAIN new /\ ~new[c].notNull
             /\ Has(Tail(p), "move", c) \/ Has(Tail(p), "moveKey", c) => Keys(new) = {CqID} /\ CqID \in DOMAIN E
  <2>1. /\ Has(p, "add", c) => c \in DOMAIN new
        /\ Has(p, "nullable", c) => c \in DOMAIN new /\ ~new[c].notNull
        /\ Has(p, "move", c) \/ Has(p, "moveKey", c) => Keys(new) = {CqID} /\ CqID \in DOMAIN table
    BY DEF PlanSuits
  <2> QED BY <1>1, <2>1
<1>5. PlanSuits(new, E, Tail(p))
  BY <1>3, <1>4 DEF PlanSuits
<1> QED BY <1>1, <1>5

\* What there is of a table whose key is already where it is to be.
LEMMA KeysAgree ==
  ASSUME NEW new, NEW table, Columned(new), Columned(table), PlainAddsAndRemoves(new, table),
         \A c \in DOMAIN new : c \in DOMAIN table => new[c].pk = table[c].pk
  PROVE  Keys(new) = Keys(table)
<1>1. ASSUME NEW c PROVE c \in Keys(new) <=> c \in Keys(table)
  <2>1. CASE c \in DOMAIN new /\ c \in DOMAIN table
    BY <2>1 DEF Keys
  <2>2. CASE c \in DOMAIN new /\ c \notin DOMAIN table
    BY <2>2 DEF Keys, PlainAddsAndRemoves, OptionalColumns, Adds
  <2>3. CASE c \notin DOMAIN new /\ c \in DOMAIN table
    BY <2>3 DEF Keys, PlainAddsAndRemoves, OptionalColumns, Removes
  <2>4. CASE c \notin DOMAIN new /\ c \notin DOMAIN table
    BY <2>4 DEF Keys
  <2> QED BY <2>1, <2>2, <2>3, <2>4
<1> QED BY <1>1

\* The columns of a table that is to have its key moved, or has had.
LEMMA BeforeMove ==
  ASSUME NEW d \in Postgres, NEW new, NEW table, Columned(new), Columned(table), KeyNotNull(new),
         CanChange(d, new, table), ~PassedBy(d, new, table), Keys(new) = {CqID}, CqID \in DOMAIN table,
         NEW c, c \in DOMAIN new, c \in DOMAIN table
  PROVE  /\ new[c].type = table[c].type
         /\ c # CqID => \/ table[c].pk /\ ~new[c].notNull
                        \/ ~table[c].pk /\ new[c].notNull = table[c].notNull
                        \/ d = "cockroachdb" /\ ~table[c].pk /\ ~new[c].notNull /\ c \in Updates(new, table)
                           /\ ~MovesToCqID(new, table)
<1>1. /\ new[c].pk \in BOOLEAN /\ table[c].pk \in BOOLEAN
      /\ new[c].notNull \in BOOLEAN /\ table[c].notNull \in BOOLEAN
  BY TableFields
<1>2. c # CqID => ~new[c].pk
  BY DEF Keys
<1>3. CASE c \notin Updates(new, table)
  <2>1. new[c].type = table[c].type /\ new[c].notNull = table[c].notNull /\ new[c].pk = table[c].pk
    BY <1>3 DEF Updates
  <2> QED BY <1>1, <1>2, <2>1
<1>4. CASE c \in Updates(new, table) /\ PostgresCan(new, table)
  <2>1. MovesToCqID(new, table)
    BY <1>4 DEF PostgresCan
  <2>2. c # CqID => new[c].type = table[c].type /\ table[c].pk /\ ~new[c].notNull
    BY <1>4, <2>1 DEF PassedBy
  <2>3. c = CqID => new[c].type = table[c].type
    BY <1>4 DEF PostgresCan
  <2> QED BY <2>2, <2>3
<1>5. CASE c \in Updates(new, table) /\ ~PostgresCan(new, table)
  <2>1. d = "cockroachdb" /\ HalfMoved(new, table)
    BY <1>5, CanIs DEF Postgres
  <2>2. Keys(table) = {CqID} /\ new[c].type = table[c].type /\ ~new[c].notNull
    BY <1>5, <2>1 DEF HalfMoved
  <2>3. ~MovesToCqID(new, table) /\ (c # CqID => ~table[c].pk)
    BY <2>2, <1>5 DEF MovesToCqID, Keys
  <2> QED BY <1>5, <2>1, <2>2, <2>3
<1> QED BY <1>3, <1>4, <1>5

LEMMA MovedPlain ==
  ASSUME NEW d \in Postgres, NEW s, s.op \in {"move", "moveKey"}, NEW new, NEW table,
         Columned(new), Columned(table), PlainAddsAndRemoves(new, table), Keys(new) = {CqID}, CqID \in DOMAIN table,
         NEW E, E = Effect(d, s, table, new)
  PROVE  PlainAddsAndRemoves(new, E) /\ Keys(E) = {CqID} /\ ~MovesToCqID(new, E) /\ DOMAIN E = DOMAIN table
<1>1. /\ DOMAIN E = DOMAIN table
      /\ \A c \in DOMAIN table :
           /\ E[c].type = table[c].type /\ E[c].pk = (c = CqID)
           /\ E[c].notNull = (c = CqID \/ (table[c].notNull /\ (s.op = "move" => ~table[c].pk)))
  BY MoveIs
<1>2. CqID \in DOMAIN new
  BY DEF Keys
<1>3. Adds(new, E) = Adds(new, table) /\ Removes(new, E) = Removes(new, table)
  BY <1>1 DEF Adds, Removes
<1>4. ASSUME NEW c \in Removes(new, table) PROVE ~E[c].pk /\ ~E[c].notNull
  <2>1. c \in DOMAIN table /\ c # CqID /\ ~table[c].notNull
    BY <1>2 DEF Removes, PlainAddsAndRemoves, OptionalColumns
  <2> QED BY <1>1, <2>1
<1>5. PlainAddsAndRemoves(new, E)
  BY <1>3, <1>4 DEF PlainAddsAndRemoves, OptionalColumns
<1>6. Keys(E) = {CqID}
  BY <1>1 DEF Keys
<1> QED BY <1>1, <1>5, <1>6 DEF MovesToCqID

LEMMA MoveStep ==
  ASSUME NEW new, Suited("postgresql", new), KeyNotNull(new), NEW table, Suited("postgresql", table),
         NEW p, p # << >>, Altering("postgresql", new, table, p),
         Head(p).op = "move", NEW E, E = Effect("postgresql", Head(p), table, new)
  PROVE  StepFits("postgresql", new, table, p, E)
<1> DEFINE d == "postgresql"
           s == Head(p)
<1>0. /\ Columned(table) /\ Columned(new) /\ CanChange(d, new, table) /\ ~PassedBy(d, new, table) /\ d \in Postgres
      /\ p \in Plans(AlterOps(d)) /\ PlanSuits(new, table, p)
  BY DEF Suited, Altering, Postgres
<1>1. Keys(new) = {CqID} /\ CqID \in DOMAIN table
  BY HeadSuits
<1>2. PlainAddsAndRemoves(new, table)
  BY <1>0, PostgresPlain
<1>3. PlainAddsAndRemoves(new, E) /\ Keys(E) = {CqID} /\ ~MovesToCqID(new, E) /\ DOMAIN E = DOMAIN table
  BY <1>0, <1>1, <1>2, MovedPlain
<1>4. \A c \in DOMAIN table :
        /\ E[c].type = table[c].type /\ E[c].pk = (c = CqID)
        /\ E[c].notNull = (c = CqID \/ (table[c].notNull /\ (s.op = "move" => ~table[c].pk)))
  BY <1>0, MoveIs
<1>5. Updates(new, E) = {}
  <2>1. ASSUME NEW c \in DOMAIN new, c \in DOMAIN table
        PROVE  E[c].type = new[c].type /\ E[c].pk = new[c].pk /\ E[c].notNull = new[c].notNull
    <3>1. /\ new[c].pk \in BOOLEAN /\ table[c].pk \in BOOLEAN
          /\ new[c].notNull \in BOOLEAN /\ table[c].notNull \in BOOLEAN
      BY <1>0, <2>1, TableFields
    <3>2. /\ new[c].type = table[c].type
          /\ c # CqID => \/ table[c].pk /\ ~new[c].notNull
                         \/ ~table[c].pk /\ new[c].notNull = table[c].notNull
      BY <1>0, <1>1, <2>1, BeforeMove
    <3>3. CASE c = CqID
      <4>1. new[c].pk /\ new[c].notNull
        BY <1>1, <3>3 DEF Keys, KeyNotNull
      <4> QED BY <1>4, <2>1, <3>1, <3>2, <3>3, <4>1
    <3>4. CASE c # CqID
      <4>1. ~new[c].pk
        BY <1>1, <3>4 DEF Keys
      <4> QED BY <1>4, <2>1, <3>1, <3>2, <3>4, <4>1
    <3> QED BY <3>3, <3>4
  <2> QED BY <1>3, <2>1 DEF Updates
<1>6. CanChange(d, new, E) /\ ~PassedBy(d, new, E)
  BY <1>3, <1>5, CanIs DEF PostgresCan, PassedBy
<1>7. Altering(d, new, E, Tail(p))
  BY <1>0, <1>3, <1>6, SuitsRest DEF Altering
<1>8. ASSUME Remains(d, new, table, p) PROVE Remains(d, new, E, Tail(p))
  <2>1. \A c \in Adds(new, E) : Has(Tail(p), "add", c)
    <3>1. \A c \in Adds(new, table) : Has(p, "add", c)
      BY <1>8 DEF Remains
    <3>2. Adds(new, E) = Adds(new, table)
      BY <1>3 DEF Adds
    <3> QED BY <1>0, <3>1, <3>2, RestHas
  <2> QED BY <1>3, <2>1 DEF Remains
<1> QED BY <1>7, <1>8 DEF StepFits

LEMMA MoveKeyStep ==
  ASSUME NEW new, Suited("cockroachdb", new), KeyNotNull(new), NEW table, Suited("cockroachdb", table),
         NEW p, p # << >>, Altering("cockroachdb", new, table, p),
         Head(p).op = "moveKey", NEW E, E = Effect("cockroachdb", Head(p), table, new)
  PROVE  StepFits("cockroachdb", new, table, p, E)
<1> DEFINE d == "cockroachdb"
           s == Head(p)
<1>0. /\ Columned(table) /\ Columned(new) /\ CanChange(d, new, table) /\ ~PassedBy(d, new, table) /\ d \in Postgres
      /\ p \in Plans(AlterOps(d)) /\ PlanSuits(new, table, p)
  BY DEF Suited, Altering, Postgres
<1>1. Keys(new) = {CqID} /\ CqID \in DOMAIN table
  BY HeadSuits
<1>2. PlainAddsAndRemoves(new, table)
  BY <1>0, PostgresPlain
<1>3. PlainAddsAndRemoves(new, E) /\ Keys(E) = {CqID} /\ ~MovesToCqID(new, E) /\ DOMAIN E = DOMAIN table
  BY <1>0, <1>1, <1>2, MovedPlain
<1>4. \A c \in DOMAIN table :
        /\ E[c].type = table[c].type /\ E[c].pk = (c = CqID)
        /\ E[c].notNull = (c = CqID \/ (table[c].notNull /\ (s.op = "move" => ~table[c].pk)))
  BY <1>0, MoveIs
<1>5. ASSUME NEW c \in Updates(new, E)
      PROVE  /\ new[c].type = E[c].type /\ ~new[c].notNull /\ table[c].notNull /\ c \in Updates(new, table)
             /\ MovesToCqID(new, table) => table[c].pk
  <2>1. c \in DOMAIN new /\ c \in DOMAIN table
    BY <1>3 DEF Updates
  <2>2. /\ new[c].pk \in BOOLEAN /\ table[c].pk \in BOOLEAN
        /\ new[c].notNull \in BOOLEAN /\ table[c].notNull \in BOOLEAN
    BY <1>0, <2>1, TableFields
  <2>3. /\ new[c].type = table[c].type
        /\ c # CqID => \/ table[c].pk /\ ~new[c].notNull
                       \/ ~table[c].pk /\ new[c].notNull = table[c].notNull
                       \/ /\ ~table[c].pk /\ ~new[c].notNull /\ c \in Updates(new, table)
                          /\ ~MovesToCqID(new, table)
    BY <1>0, <1>1, <2>1, BeforeMove
  <2>4. E[c].type = new[c].type
    BY <1>4, <2>1, <2>3
  <2>5. new[c].notNull # E[c].notNull \/ new[c].pk # E[c].pk
    BY <2>4 DEF Updates
  <2>6. c # CqID
    <3>1. c = CqID => new[c].pk /\ new[c].notNull
      BY <1>1 DEF Keys, KeyNotNull
    <3> QED BY <1>4, <2>1, <2>2, <2>5, <3>1
  <2>7. ~new[c].pk
    BY <1>1, <2>1, <2>6 DEF Keys
  <2>8. E[c].pk = FALSE /\ E[c].notNull = table[c].notNull
    BY <1>4, <2>1, <2>2, <2>6
  <2>9. new[c].notNull # table[c].notNull
    BY <2>2, <2>5, <2>7, <2>8
  <2>10. ~new[c].notNull /\ table[c].notNull
    BY <2>2, <2>3, <2>6, <2>9
  <2>11. c \in Updates(new, table)
    BY <2>1, <2>9 DEF Updates
  <2>12. MovesToCqID(new, table) => table[c].pk
    BY <2>3, <2>6, <2>9
  <2> QED BY <2>4, <2>10, <2>11, <2>12
<1>6. HalfMoved(new, E)
  BY <1>1, <1>3, <1>5 DEF HalfMoved
<1>7. CanChange(d, new, E) /\ ~PassedBy(d, new, E)
  BY <1>3, <1>6, CanIs DEF PassedBy
<1>8. Altering(d, new, E, Tail(p))
  BY <1>0, <1>3, <1>7, SuitsRest DEF Altering
<1>9. ASSUME Remains(d, new, table, p) PROVE Remains(d, new, E, Tail(p))
  <2>0. \A op, c : Has(p, op, c) /\ op # "moveKey" => Has(Tail(p), op, c)
    BY <1>0, RestHas
  <2>1. \A c \in Adds(new, E) : Has(Tail(p), "add", c)
    <3>1. \A c \in Adds(new, table) : Has(p, "add", c)
      BY <1>9 DEF Remains
    <3>2. Adds(new, E) = Adds(new, table)
      BY <1>3 DEF Adds
    <3> QED BY <2>0, <3>1, <3>2
  <2>2. ASSUME NEW c \in Updates(new, E) PROVE Has(Tail(p), "nullable", c)
    <3>1. Has(p, "nullable", c)
      <4>1. CASE MovesToCqID(new, table)
        <5>1. c \in Keys(table) /\ table[c].notNull
          BY <1>3, <1>5, <4>1 DEF Keys, Updates
        <5> QED BY <1>9, <4>1, <5>1 DEF Remains
      <4>2. CASE ~MovesToCqID(new, table)
        BY <1>5, <1>9, <4>2 DEF Remains
      <4> QED BY <4>1, <4>2
    <3> QED BY <2>0, <3>1
  <2> QED BY <1>3, <2>1, <2>2 DEF Remains
<1> QED BY <1>8, <1>9 DEF StepFits

\* A column of the old key that may be null again.
LEMMA NullableCan ==
  ASSUME NEW new, Columned(new), NEW table, Columned(table), NEW s, s.op = "nullable",
         s.col \in DOMAIN new, ~new[s.col].notNull, NEW E, Cleared(s, table, E)
  PROVE  /\ Adds(new, E) = Adds(new, table) /\ Removes(new, E) = Removes(new, table) /\ Keys(E) = Keys(table)
         /\ Updates(new, E) \subseteq Updates(new, table)
         /\ \A c \in Updates(new, table) : new[c].pk # table[c].pk => c \in Updates(new, E)
         /\ PlainAddsAndRemoves(new, table) => PlainAddsAndRemoves(new, E)
<1>1. /\ DOMAIN E = DOMAIN table
      /\ \A c \in DOMAIN table :
           /\ E[c].type = table[c].type /\ E[c].pk = table[c].pk
           /\ c = s.col => E[c].notNull = FALSE
           /\ c # s.col => E[c].notNull = table[c].notNull
  BY DEF Cleared
<1>2. Adds(new, E) = Adds(new, table) /\ Removes(new, E) = Removes(new, table) /\ Keys(E) = Keys(table)
  BY <1>1 DEF Adds, Removes, Keys
<1>3. Updates(new, E) \subseteq Updates(new, table)
  <2>1. SUFFICES ASSUME NEW c \in Updates(new, E) PROVE c \in Updates(new, table)
    OBVIOUS
  <2>2. c \in DOMAIN new /\ c \in DOMAIN table
    BY <1>1 DEF Updates
  <2>3. new[c].notNull \in BOOLEAN
    BY <2>2, TableFields
  <2>4. c = s.col => new[c].notNull = E[c].notNull
    BY <1>1, <2>2, <2>3
  <2> QED BY <1>1, <2>2, <2>4 DEF Updates
<1>4. \A c \in Updates(new, table) : new[c].pk # table[c].pk => c \in Updates(new, E)
  BY <1>1 DEF Updates
<1>5. ASSUME NEW c \in Removes(new, table) PROVE E[c].pk = table[c].pk /\ (E[c].notNull => table[c].notNull)
  BY <1>1 DEF Removes
<1>6. PlainAddsAndRemoves(new, table) => PlainAddsAndRemoves(new, E)
  BY <1>2, <1>5 DEF PlainAddsAndRemoves, OptionalColumns
<1> QED BY <1>2, <1>3, <1>4, <1>6

LEMMA NullablePostgres ==
  ASSUME NEW new, Columned(new), NEW table, Columned(table), NEW s, s.op = "nullable",
         s.col \in DOMAIN new, ~new[s.col].notNull, NEW E, Cleared(s, table, E), PostgresCan(new, table)
  PROVE  PostgresCan(new, E)
<1> DEFINE adding(t) == {c \in {x \in Updates(new, t) : new[x].type = t[x].type} : new[c].pk /\ ~t[c].pk}
           removing(t) == {c \in {x \in Updates(new, t) : new[x].type = t[x].type} : ~new[c].pk /\ t[c].pk}
<1>1. /\ Keys(E) = Keys(table) /\ Updates(new, E) \subseteq Updates(new, table)
      /\ \A c \in Updates(new, table) : new[c].pk # table[c].pk => c \in Updates(new, E)
      /\ PlainAddsAndRemoves(new, table) => PlainAddsAndRemoves(new, E)
  BY NullableCan
<1>2. \A c \in Updates(new, table) : E[c].type = table[c].type /\ E[c].pk = table[c].pk
  BY DEF Cleared, Updates
<1>3. adding(E) = adding(table) /\ removing(E) = removing(table)
  <2>1. ASSUME NEW c \in Updates(new, table) PROVE (new[c].pk <=> ~table[c].pk) => new[c].pk # table[c].pk
    OBVIOUS
  <2>2. ASSUME NEW c PROVE c \in adding(E) <=> c \in adding(table)
    BY <1>1, <1>2, <2>1
  <2>3. ASSUME NEW c PROVE c \in removing(E) <=> c \in removing(table)
    BY <1>1, <1>2, <2>1
  <2> QED BY <2>2, <2>3
<1>4. PlainAddsAndRemoves(new, table)
      /\ \A c \in Updates(new, table) : MovesToCqID(new, table) /\ (adding(table) = {CqID} \/ c \in removing(table))
  BY DEF PostgresCan
<1>5. PlainAddsAndRemoves(new, E) /\ (MovesToCqID(new, E) <=> MovesToCqID(new, table))
  BY <1>1, <1>4, AlikeMoves
<1>6. \A c \in Updates(new, E) : MovesToCqID(new, E) /\ (adding(E) = {CqID} \/ c \in removing(E))
  <2> HIDE DEF adding, removing
  <2> QED BY <1>1, <1>3, <1>4, <1>5
<1> QED BY <1>5, <1>6 DEF PostgresCan

LEMMA CockroachNullableStep ==
  ASSUME NEW new, Suited("cockroachdb", new), NEW table, Suited("cockroachdb", table),
         NEW p, p # << >>, Altering("cockroachdb", new, table, p),
         Head(p).op = "nullable", NEW E, E = Effect("cockroachdb", Head(p), table, new)
  PROVE  StepFits("cockroachdb", new, table, p, E)
<1> DEFINE d == "cockroachdb"
           s == Head(p)
<1>0. /\ Columned(table) /\ Columned(new) /\ CanChange(d, new, table) /\ ~PassedBy(d, new, table) /\ d \in Postgres
      /\ p \in Plans(AlterOps(d)) /\ PlanSuits(new, table, p)
  BY DEF Suited, Altering, Postgres
<1>1. s.col \in DOMAIN new /\ ~new[s.col].notNull
  BY HeadSuits
<1>2. Cleared(s, table, E)
  BY <1>0, ClearIs
<1>3. /\ Adds(new, E) = Adds(new, table) /\ Keys(E) = Keys(table)
      /\ Updates(new, E) \subseteq Updates(new, table)
      /\ PlainAddsAndRemoves(new, table) => PlainAddsAndRemoves(new, E)
  BY <1>0, <1>1, <1>2, NullableCan
<1>4. \A c \in Updates(new, table) : E[c].type = table[c].type /\ E[c].pk = table[c].pk
  BY <1>2 DEF Cleared, Updates
<1>5. MovesToCqID(new, E) <=> MovesToCqID(new, table)
  BY <1>3, AlikeMoves
<1>6. CanChange(d, new, E)
  <2>1. CASE PostgresCan(new, table)
    BY <1>0, <1>1, <1>2, <2>1, NullablePostgres, CanIs
  <2>2. CASE HalfMoved(new, table)
    <3>1. HalfMoved(new, E)
      BY <1>3, <1>4, <2>2 DEF HalfMoved
    <3> QED BY <3>1, CanIs
  <2> QED BY <1>0, <2>1, <2>2, CanIs
<1>7. ~PassedBy(d, new, E)
  BY <1>0, <1>3, <1>4, <1>5 DEF PassedBy
<1>8. Altering(d, new, E, Tail(p))
  BY <1>0, <1>2, <1>6, <1>7, SuitsRest DEF Altering, Cleared
<1>9. ASSUME Remains(d, new, table, p) PROVE Remains(d, new, E, Tail(p))
  <2>0. \A op, c : Has(p, op, c) /\ ~(op = "nullable" /\ c = s.col) => Has(Tail(p), op, c)
    BY <1>0, RestHas
  <2>1. \A c \in Adds(new, E) : Has(Tail(p), "add", c)
    BY <1>3, <1>9, <2>0 DEF Remains
  <2>2. ASSUME MovesToCqID(new, E)
        PROVE  Has(Tail(p), "moveKey", CqID) /\ \A c \in Keys(E) : E[c].notNull => Has(Tail(p), "nullable", c)
    <3>1. Has(p, "moveKey", CqID) /\ \A c \in Keys(table) : table[c].notNull => Has(p, "nullable", c)
      BY <1>5, <1>9, <2>2 DEF Remains
    <3>2. ASSUME NEW c \in Keys(E), E[c].notNull PROVE Has(Tail(p), "nullable", c)
      <4>1. c \in Keys(table) /\ c # s.col /\ table[c].notNull
        BY <1>2, <1>3, <3>2 DEF Cleared, Keys
      <4> QED BY <2>0, <3>1, <4>1
    <3> QED BY <2>0, <3>1, <3>2
  <2>3. ASSUME ~MovesToCqID(new, E), NEW c \in Updates(new, E) PROVE Has(Tail(p), "nullable", c)
    <3>1. c \in Updates(new, table) /\ c \in DOMAIN new /\ c \in DOMAIN table
      BY <1>3 DEF Updates
    <3>2. Has(p, "nullable", c)
      BY <1>5, <1>9, <2>3, <3>1 DEF Remains
    <3>3. HalfMoved(new, table)
      BY <1>0, <1>5, <2>3, <3>1, CanIs DEF PostgresCan
    <3>4. c # s.col
      <4>1. SUFFICES ASSUME c = s.col PROVE FALSE
        OBVIOUS
      <4>2. /\ new[c].pk \in BOOLEAN /\ table[c].pk \in BOOLEAN
            /\ new[c].notNull \in BOOLEAN
        BY <1>0, <3>1, TableFields
      <4>3. new[c].type = table[c].type /\ Keys(table) = Keys(new)
        BY <3>1, <3>3 DEF HalfMoved
      <4>4. new[c].pk = table[c].pk
        BY <3>1, <4>2, <4>3 DEF Keys
      <4>5. E[c].notNull = FALSE /\ E[c].type = table[c].type /\ E[c].pk = table[c].pk
        BY <1>2, <3>1, <4>1 DEF Cleared
      <4>6. new[c].notNull = E[c].notNull
        BY <1>1, <4>1, <4>2, <4>5
      <4> QED BY <2>3, <4>3, <4>4, <4>5, <4>6 DEF Updates
    <3> QED BY <2>0, <3>2, <3>4
  <2> QED BY <2>1, <2>2, <2>3 DEF Remains
<1> QED BY <1>8, <1>9 DEF StepFits

-----------------------------------------------------------------------------
(* Snowflake. *)

LEMMA SnowflakePassed ==
  ASSUME NEW new, NEW table
  PROVE  ~PassedBy("snowflake", new, table) <=>
           \A c \in DOMAIN table :
             /\ c \in DOMAIN new => new[c].type = table[c].type
             /\ c \in DOMAIN new /\ new[c].notNull => table[c].notNull
             /\ table[c].pk => c \in DOMAIN new /\ new[c].pk
BY DEF PassedBy, Postgres

LEMMA AddsKeyMeans ==
  ASSUME NEW new, Columned(new), NEW table, Columned(table)
  PROVE  AddsKey(new, table) <=> ~(Keys(new) \subseteq Keys(table))
<1>1. ASSUME NEW c \in Keys(new)
      PROVE  (c \in Adds(new, table) \/ (c \in Updates(new, table) /\ ~table[c].pk)) <=> c \notin Keys(table)
  <2>1. c \in DOMAIN new /\ new[c].pk
    BY DEF Keys
  <2>2. CASE c \in DOMAIN table
    <3>1. table[c].pk \in BOOLEAN /\ new[c].pk \in BOOLEAN
      BY <2>1, <2>2, TableFields
    <3>2. ~table[c].pk => c \in Updates(new, table)
      BY <2>1, <2>2, <3>1 DEF Updates
    <3> QED BY <2>2, <3>2 DEF Keys, Adds
  <2>3. CASE c \notin DOMAIN table
    BY <2>1, <2>3 DEF Keys, Adds
  <2> QED BY <2>2, <2>3
<1> QED BY <1>1 DEF AddsKey

\* A column that is there is one that can be changed.
SnowflakeFits(new, table) ==
  \A c \in DOMAIN table :
    /\ c \in DOMAIN new => new[c].type = table[c].type
    /\ c \in DOMAIN new /\ new[c].notNull => table[c].notNull
    /\ table[c].pk => c \in DOMAIN new /\ new[c].pk
    /\ c \notin DOMAIN new => ~table[c].notNull

LEMMA SnowflakeMeans ==
  ASSUME NEW new, Columned(new), NEW table, Columned(table)
  PROVE  CanChange("snowflake", new, table) /\ ~PassedBy("snowflake", new, table) <=>
           SnowflakeFits(new, table) /\ \A c \in Adds(new, table) : ~new[c].notNull
<1>1. CanChange("snowflake", new, table) <=> SnowflakeCan(new, table)
  BY CanIs
<1>2. ASSUME SnowflakeCan(new, table), ~PassedBy("snowflake", new, table)
      PROVE  SnowflakeFits(new, table) /\ \A c \in Adds(new, table) : ~new[c].notNull
  BY <1>2, SnowflakePassed DEF SnowflakeCan, SnowflakeFits, Removes
<1>3. ASSUME SnowflakeFits(new, table), \A c \in Adds(new, table) : ~new[c].notNull
      PROVE  SnowflakeCan(new, table) /\ ~PassedBy("snowflake", new, table)
  <2>1. ~PassedBy("snowflake", new, table)
    BY <1>3, SnowflakePassed DEF SnowflakeFits
  <2>2. \A c \in Removes(new, table) : ~table[c].notNull
    BY <1>3 DEF SnowflakeFits, Removes
  <2>3. ASSUME NEW c \in Updates(new, table)
        PROVE  (table[c].notNull /\ ~new[c].notNull) \/ table[c].pk # new[c].pk
    <3>1. c \in DOMAIN new /\ c \in DOMAIN table
      BY DEF Updates
    <3>2. new[c].type = table[c].type /\ (new[c].notNull => table[c].notNull)
      BY <1>3, <3>1 DEF SnowflakeFits
    <3>3. new[c].notNull \in BOOLEAN /\ table[c].notNull \in BOOLEAN
      BY <3>1, TableFields
    <3>4. new[c].notNull # table[c].notNull \/ new[c].pk # table[c].pk
      BY <3>2 DEF Updates
    <3> QED BY <3>2, <3>3, <3>4
  <2> QED BY <1>3, <2>1, <2>2, <2>3 DEF SnowflakeCan
<1> QED BY <1>1, <1>2, <1>3

LEMMA SnowflakeRemains ==
  ASSUME NEW new, NEW table, NEW p
  PROVE  Remains("snowflake", new, table, p) <=>
           /\ \A c \in Adds(new, table) : Has(p, "add", c)
           /\ AddsKey(new, table) => Has(p, "addKey", CqID)
BY DEF Remains

LEMMA SnowflakeStep ==
  ASSUME NEW new, Suited("snowflake", new), NEW table, IsFcn(table), Suited("snowflake", table),
         NEW p, p # << >>, Altering("snowflake", new, table, p), Possible(Head(p), table, new),
         Head(p).op = "addKey" => Head(p).col = CqID,
         NEW E, E = Effect("snowflake", Head(p), table, new)
  PROVE  StepFits("snowflake", new, table, p, E)
<1> DEFINE d == "snowflake"
           s == Head(p)
<1>0. /\ Columned(table) /\ Columned(new) /\ CanChange(d, new, table) /\ ~PassedBy(d, new, table)
      /\ p \in Plans(AlterOps(d)) /\ PlanSuits(new, table, p)
  BY DEF Suited, Altering
<1>1. SnowflakeFits(new, table) /\ \A c \in Adds(new, table) : ~new[c].notNull
  BY <1>0, SnowflakeMeans
<1>2. s.op \in {"addKey", "notUnique", "add", "nullable"}
  BY HeadSuits, AlterOpsAre
<1>r. \A op, c : Has(p, op, c) /\ ~(op = s.op /\ c = s.col) => Has(Tail(p), op, c)
  BY <1>0, RestHas
<1> DEFINE Goal == /\ DOMAIN table \subseteq DOMAIN E /\ Columned(E)
                   /\ SnowflakeFits(new, E) /\ Adds(new, E) \subseteq Adds(new, table)
                   /\ s.op = "add" => Adds(new, E) \subseteq Adds(new, table) \ {s.col}
                   /\ Keys(table) \subseteq Keys(E)
                   /\ s.op = "addKey" => Keys(new) \subseteq Keys(E)
<1>6. Goal
  <2>3. CASE s.op = "add"
    <3>0. s.col \in DOMAIN new
      BY <2>3, HeadSuits
    <3>1. Grown(d, s.col, table, new, E)
      BY <1>0, <2>3, <3>0, AddIs
    <3> HIDE DEF s
    <3>2. DOMAIN E = DOMAIN table \cup {s.col} /\ \A c \in DOMAIN table : E[c] = table[c]
      BY <3>1 DEF Grown
    <3>3. ASSUME s.col \notin DOMAIN table
          PROVE  E[s.col] \in TableColumns /\ E[s.col].type = new[s.col].type /\ E[s.col].pk = FALSE /\ E[s.col].notNull = new[s.col].notNull
      BY <3>1, <3>3 DEF Grown, AddedAs, Postgres
    <3>4. Columned(E)
      BY <1>0, <3>2, <3>3 DEF Columned
    <3>5. SnowflakeFits(new, E)
      <4>1. ASSUME NEW c \in DOMAIN E
            PROVE  /\ c \in DOMAIN new => new[c].type = E[c].type
                   /\ c \in DOMAIN new /\ new[c].notNull => E[c].notNull
                   /\ E[c].pk => c \in DOMAIN new /\ new[c].pk
                   /\ c \notin DOMAIN new => ~E[c].notNull
        <5>1. CASE c \in DOMAIN table
          BY <1>1, <3>2, <5>1 DEF SnowflakeFits
        <5>2. CASE c \notin DOMAIN table
          <6>1. c = s.col
            BY <3>2, <5>2
          <6> QED BY <3>0, <3>3, <5>2, <6>1
        <5> QED BY <5>1, <5>2
      <4> QED BY <4>1 DEF SnowflakeFits
    <3>6. Adds(new, E) \subseteq Adds(new, table) \ {s.col}
      BY <3>2 DEF Adds
    <3>7. Keys(table) \subseteq Keys(E)
      BY <3>2 DEF Keys
    <3> QED BY <2>3, <3>2, <3>4, <3>5, <3>6, <3>7
  <2>4. CASE s.op \in {"nullable", "notUnique"}
    <3>0. s.op = "nullable" => s.col \in DOMAIN new /\ ~new[s.col].notNull
      BY HeadSuits
    <3>1. Cleared(s, table, E)
      BY <1>0, <2>4, ClearIs
    <3> HIDE DEF s
    <3>2. /\ DOMAIN E = DOMAIN table /\ Columned(E)
          /\ \A c \in DOMAIN table :
               /\ E[c].type = table[c].type /\ E[c].pk = table[c].pk
               /\ E[c].notNull = table[c].notNull \/ (E[c].notNull = FALSE /\ s.op = "nullable" /\ c = s.col)
      BY <3>1 DEF Cleared
    <3>3. SnowflakeFits(new, E)
      BY <1>1, <3>0, <3>2 DEF SnowflakeFits
    <3>4. Adds(new, E) = Adds(new, table) /\ Keys(table) \subseteq Keys(E)
      BY <3>2 DEF Adds, Keys
    <3> QED BY <2>4, <3>2, <3>3, <3>4
  <2>5. CASE s.op = "addKey"
    <3>0. Keys(table) = {} /\ Keys(new) \subseteq DOMAIN table
      BY <2>5 DEF Possible
    <3>1. /\ DOMAIN E = DOMAIN table /\ Columned(E)
          /\ \A c \in DOMAIN table :
               /\ E[c].type = table[c].type /\ E[c].notNull = table[c].notNull
               /\ E[c].pk = (s.op = "addKey" /\ c \in Keys(new))
      BY <1>0, <2>5, KeyIs
    <3>2. \A c \in DOMAIN table : E[c].pk <=> c \in Keys(new)
      BY <2>5, <3>1
    <3>3. SnowflakeFits(new, E)
      BY <1>1, <3>1, <3>2 DEF SnowflakeFits, Keys
    <3>4. Adds(new, E) = Adds(new, table) /\ Keys(new) \subseteq Keys(E)
      BY <3>0, <3>1, <3>2 DEF Adds, Keys
    <3> QED BY <2>5, <3>0, <3>1, <3>3, <3>4
  <2> QED BY <1>2, <2>3, <2>4, <2>5
<1>7. CanChange(d, new, E) /\ ~PassedBy(d, new, E)
  BY <1>0, <1>1, <1>6, SnowflakeMeans
<1>8. Altering(d, new, E, Tail(p))
  BY <1>0, <1>6, <1>7, SuitsRest DEF Altering
<1>9. ASSUME Remains(d, new, table, p) PROVE Remains(d, new, E, Tail(p))
  <2>1. /\ \A c \in Adds(new, table) : Has(p, "add", c)
        /\ AddsKey(new, table) => Has(p, "addKey", CqID)
    BY <1>9, SnowflakeRemains
  <2>2. \A c \in Adds(new, E) : Has(Tail(p), "add", c)
    BY <1>6, <1>r, <2>1
  <2>3. AddsKey(new, E) => Has(Tail(p), "addKey", CqID)
    <3>1. SUFFICES ASSUME ~(Keys(new) \subseteq Keys(E)) PROVE Has(Tail(p), "addKey", CqID)
      BY <1>0, <1>6, AddsKeyMeans
    <3>2. ~(Keys(new) \subseteq Keys(table)) /\ s.op # "addKey"
      BY <1>6, <3>1
    <3> QED BY <1>0, <1>r, <2>1, <3>2, AddsKeyMeans
  <2> QED BY <2>2, <2>3, SnowflakeRemains
<1> QED BY <1>8, <1>9 DEF StepFits

-----------------------------------------------------------------------------
(* Any destination. *)

LEMMA AlteringStep ==
  ASSUME NEW d \in Known, NEW new, Suited(d, new), d \in Postgres => KeyNotNull(new),
         NEW table, IsFcn(table), Suited(d, table), NEW p, p # << >>, Altering(d, new, table, p),
         Possible(Head(p), table, new), Head(p).op = "addKey" => Head(p).col = CqID,
         NEW E, E = Effect(d, Head(p), table, new)
  PROVE  StepFits(d, new, table, p, E)
<1> DEFINE s == Head(p)
<1>0. d \in Destination /\ s.op \in AlterOps(d)
  BY KnownAre, HeadSuits
<1>1. CASE d \notin {"snowflake", "bigquery"} /\ s.op \in {"add", "notUnique", "dropProc", "addProc"}
  BY <1>1, AlikeStep
<1>2. CASE d = "postgresql" /\ s.op = "move"
  BY <1>2, MoveStep DEF Postgres
<1>3. CASE d = "cockroachdb" /\ s.op = "moveKey"
  BY <1>3, MoveKeyStep DEF Postgres
<1>4. CASE d = "cockroachdb" /\ s.op = "nullable"
  BY <1>4, CockroachNullableStep
<1>5. CASE d = "snowflake"
  BY <1>5, SnowflakeStep
<1>6. CASE d = "bigquery"
  <2>1. s.op \in {"merge", "cannotMerge"} /\ s.op # "cannotMerge"
    BY <1>0, <1>6, AlterOpsAre DEF Possible
  <2> QED BY <1>6, <2>1, MergeStep
<1>7. s.op # "retype"
  <2>1. s.op = "retype" => s.col \in DOMAIN table /\ table[s.col].pk
    BY HeadSuits
  <2> QED BY <2>1 DEF Possible
<1> HIDE DEF s
<1>8. \/ d = "postgresql" /\ s.op \in {"add", "move", "notUnique"}
      \/ d = "cockroachdb" /\ s.op \in {"add", "moveKey", "nullable", "notUnique"}
      \/ d \in {"duckdb", "sqlite", "clickhouse"} /\ s.op = "add"
      \/ d = "mysql" /\ s.op \in {"add", "notUnique"}
      \/ d = "mssql" /\ s.op \in {"add", "dropProc", "addProc"}
      \/ d \in {"snowflake", "bigquery"}
  <2>1. CASE d \in {"postgresql", "cockroachdb", "mysql"}
    BY <1>0, <2>1, AlterOpsAre
  <2>2. CASE d \in {"duckdb", "sqlite", "clickhouse", "mssql"}
    BY <1>0, <1>7, <2>2, AlterOpsAre
  <2>3. CASE d \in {"snowflake", "bigquery"}
    BY <2>3
  <2> QED BY <1>0, <2>1, <2>2, <2>3 DEF Destination
<1> QED BY <1>1, <1>2, <1>3, <1>4, <1>5, <1>6, <1>8

\* A table that has just been made.
Made(new, E) ==
  /\ DOMAIN E = DOMAIN new
  /\ \A c \in DOMAIN new :
       /\ E[c].type = new[c].type /\ E[c].pk = new[c].pk /\ E[c].notNull = new[c].notNull
       /\ E[c].unique => new[c].unique

LEMMA MadeDiffers ==
  ASSUME NEW new, NEW E, Made(new, E)
  PROVE  /\ Adds(new, E) = {} /\ Removes(new, E) = {} /\ Updates(new, E) = {} /\ Deuniques(new, E) = {}
         /\ Keys(E) = Keys(new) /\ ~MovesToCqID(new, E) /\ PlainAddsAndRemoves(new, E)
         /\ SortKey(E) = SortKey(new) /\ ~AddsKey(new, E) /\ BigQueryCanMerge(new, E)
<1>1. Adds(new, E) = {} /\ Removes(new, E) = {}
  BY DEF Made, Adds, Removes
<1>2. Updates(new, E) = {} /\ Deuniques(new, E) = {}
  BY DEF Made, Updates, Deuniques
<1>3. Keys(E) = Keys(new)
  BY DEF Made, Keys
<1>4. ~MovesToCqID(new, E) /\ PlainAddsAndRemoves(new, E)
  BY <1>1, <1>3 DEF MovesToCqID, PlainAddsAndRemoves, OptionalColumns
<1>5. SortKey(E) = SortKey(new)
  BY DEF Made, SortKey, IsCompound
<1>6. ~AddsKey(new, E) /\ BigQueryCanMerge(new, E)
  BY <1>1, <1>2 DEF AddsKey, BigQueryCanMerge, Made
<1> QED BY <1>1, <1>2, <1>3, <1>4, <1>5, <1>6

LEMMA MadeCan ==
  ASSUME NEW d \in Known, NEW new, NEW E, Made(new, E)
  PROVE  CanChange(d, new, E) /\ ~PassedBy(d, new, E)
<1>0. d \in Destination
  BY KnownAre
<1>1. /\ Adds(new, E) = {} /\ Removes(new, E) = {} /\ Updates(new, E) = {} /\ Deuniques(new, E) = {}
      /\ ~MovesToCqID(new, E) /\ PlainAddsAndRemoves(new, E) /\ SortKey(E) = SortKey(new)
  BY MadeDiffers
<1>2. PostgresCan(new, E) /\ DuckDBCan(new, E) /\ SQLiteCan(new, E) /\ MySQLCan(new, E)
  BY <1>1 DEF PostgresCan, DuckDBCan, SQLiteCan, MySQLCan
<1>3. MSSQLCan(new, E) /\ SnowflakeCan(new, E) /\ ~ClickHouseForces(new, E)
  BY <1>1 DEF MSSQLCan, SnowflakeCan, ClickHouseForces, ClickHouseKeeps, SortKeyChanges
<1>4. CanChange(d, new, E)
  BY <1>0, <1>2, <1>3, CanIs DEF Destination
<1>5. ~PassedBy(d, new, E)
  BY <1>1 DEF PassedBy, Made
<1> QED BY <1>4, <1>5

\* A plan that leaves tables alone.
Resting(p) ==
  \A c : \A op \in {"add", "nullable", "retype", "move", "moveKey", "merge"} : ~Has(p, op, c)

LEMMA MadeFits ==
  ASSUME NEW d \in Known, NEW new, NEW E, Made(new, E), NEW p \in Plans(AlterOps(d)), Resting(p)
  PROVE  Altering(d, new, E, p) /\ Remains(d, new, E, p)
<1>1. PlanSuits(new, E, p)
  BY DEF PlanSuits, Resting
<1>2. Altering(d, new, E, p)
  BY <1>1, MadeCan DEF Altering
<1>3. Remains(d, new, E, p)
  BY MadeDiffers DEF Remains
<1> QED BY <1>2, <1>3

LEMMA MadeByCreate ==
  ASSUME NEW d, NEW s, s.op = "create", NEW new, Columned(new), NEW table, table = NoTable,
         NEW E, E = Effect(d, s, table, new)
  PROVE  Made(new, E)
BY CreateIs DEF Made

LEMMA RestingPlans ==
  ASSUME NEW d \in Known
  PROVE  /\ << >> \in Plans(AlterOps(d)) /\ Resting(<< >>)
         /\ d = "mssql" => TVP \in Plans(AlterOps(d)) /\ Resting(TVP)
<1>1. << >> \in Plans(AlterOps(d)) /\ Resting(<< >>)
  BY HasNothing, NothingIn DEF Resting
<1>2. ASSUME d = "mssql" PROVE TVP \in Plans(AlterOps(d)) /\ Resting(TVP)
  <2>1. AlterOps(d) = {"add", "retype", "dropProc", "addProc"}
    BY <1>2, AlterOpsAre
  <2> DEFINE T == [op : {"add", "retype", "dropProc", "addProc"}, col : ColumnNames]
             a == Stmt("dropProc", CqID)
             b == Stmt("addProc", CqID)
  <2>2. a \in T /\ b \in T /\ a.op = "dropProc" /\ b.op = "addProc"
    BY DEF Stmt, ColumnNames
  <2> HIDE DEF T, a, b
  <2>3. <<a, b>> \in Seq(T) /\ DOMAIN <<a, b>> = {1, 2} /\ <<a, b>>[1] = a /\ <<a, b>>[2] = b
    BY <2>2
  <2>4. Resting(<<a, b>>)
    BY <2>2, <2>3 DEF Resting, Has
  <2> QED BY <2>1, <2>3, <2>4 DEF TVP, Plans, T, a, b
<1> QED BY <1>1, <1>2

LEMMA RemakingParts ==
  ASSUME NEW d, NEW table, NEW p, p # << >>, Remaking(d, table, p)
  PROVE  \/ Head(p) = Stmt("drop", CqID) /\ \A E : E = NoTable => Remaking(d, E, Tail(p))
         \/ /\ Head(p) = Stmt("create", CqID) /\ table = NoTable
            /\ Tail(p) = << >> \/ (d = "mssql" /\ Tail(p) = TVP)
<1>1. CASE p = Recreate
  <2>1. Head(p) = Stmt("drop", CqID) /\ Tail(p) = Create
    BY <1>1 DEF Recreate, Create
  <2> QED BY <2>1 DEF Remaking
<1>2. CASE p = Create /\ table = NoTable
  BY <1>2 DEF Create
<1>3. CASE d = "mssql" /\ p = <<Stmt("drop", CqID), Stmt("create", CqID), Stmt("dropProc", CqID), Stmt("addProc", CqID)>>
  <2>1. Head(p) = Stmt("drop", CqID) /\ Tail(p) = <<Stmt("create", CqID), Stmt("dropProc", CqID), Stmt("addProc", CqID)>>
    BY <1>3
  <2> QED BY <1>3, <2>1 DEF Remaking
<1>4. CASE d = "mssql" /\ p = <<Stmt("create", CqID), Stmt("dropProc", CqID), Stmt("addProc", CqID)>> /\ table = NoTable
  <2>1. Head(p) = Stmt("create", CqID) /\ Tail(p) = TVP
    BY <1>4 DEF TVP
  <2> QED BY <1>4, <2>1
<1> QED BY <1>1, <1>2, <1>3, <1>4 DEF Remaking

\* What a call is doing with a table, made again or altered. Statements that
\* a failed one has left out are missed.
Progress(d, new, table, p, halted) ==
  \/ Remaking(d, table, p)
  \/ Altering(d, new, table, p) /\ (halted \/ Remains(d, new, table, p))

LEMMA ProgressStep ==
  ASSUME NEW d \in Known, NEW new, Suited(d, new), d \in Postgres => KeyNotNull(new),
         NEW table, IsFcn(table), Suited(d, table), NEW p, p # << >>, NEW halted, Progress(d, new, table, p, halted),
         Possible(Head(p), table, new), Head(p).op = "addKey" => Head(p).col = CqID,
         NEW E, E = Effect(d, Head(p), table, new)
  PROVE  Progress(d, new, E, Tail(p), halted)
<1>1. CASE Altering(d, new, table, p) /\ (halted \/ Remains(d, new, table, p))
  <2>1. StepFits(d, new, table, p, E)
    BY <1>1, AlteringStep
  <2> QED BY <1>1, <2>1 DEF StepFits, Progress
<1>2. CASE Remaking(d, table, p)
  <2>1. CASE Head(p) = Stmt("drop", CqID) /\ \A x : x = NoTable => Remaking(d, x, Tail(p))
    <3>1. Head(p).op = "drop"
      BY <2>1 DEF Stmt
    <3>2. E = NoTable
      BY <3>1, Zenon DEF Effect
    <3> QED BY <2>1, <3>2 DEF Progress
  <2>2. CASE /\ Head(p) = Stmt("create", CqID) /\ table = NoTable
             /\ Tail(p) = << >> \/ (d = "mssql" /\ Tail(p) = TVP)
    <3>1. Head(p).op = "create" /\ Columned(new)
      BY <2>2 DEF Stmt, Suited
    <3>2. Made(new, E)
      BY <2>2, <3>1, MadeByCreate
    <3>3. Tail(p) \in Plans(AlterOps(d)) /\ Resting(Tail(p))
      BY <2>2, RestingPlans
    <3>4. Altering(d, new, E, Tail(p)) /\ Remains(d, new, E, Tail(p))
      BY <3>2, <3>3, MadeFits
    <3> QED BY <3>4 DEF Progress
  <2> QED BY <1>2, <2>1, <2>2, RemakingParts
<1> QED BY <1>1, <1>2 DEF Progress

\* Statements that no plan has.
PlanBasics(d, new, p) ==
  \A c \in ColumnNames :
    /\ Has(p, "add", c) => c \in DOMAIN new
    /\ Has(p, "addKey", c) => c = CqID
    /\ Has(p, "retype", c) \/ Has(p, "dropProc", c) \/ Has(p, "addProc", c) => d = "mssql"

LEMMA BasicsRest ==
  ASSUME NEW d, NEW new, NEW p \in Plans(Ops), p # << >>, PlanBasics(d, new, p)
  PROVE  /\ PlanBasics(d, new, Tail(p))
         /\ Head(p).op = "add" => Head(p).col \in DOMAIN new
         /\ Head(p).op = "addKey" => Head(p).col = CqID
         /\ Head(p).op \in {"retype", "dropProc", "addProc"} => d = "mssql"
<1>1. /\ \A op, c : Has(Tail(p), op, c) => Has(p, op, c)
      /\ Has(p, Head(p).op, Head(p).col) /\ Head(p).col \in ColumnNames
  BY RestHas, PlanParts
<1>2. PlanBasics(d, new, Tail(p))
  BY <1>1 DEF PlanBasics
<1> DEFINE s == Head(p)
<1>3. s.col \in ColumnNames /\ Has(p, s.op, s.col)
  BY <1>1
<1> HIDE DEF s
<1>4. /\ Has(p, "add", s.col) => s.col \in DOMAIN new
      /\ Has(p, "addKey", s.col) => s.col = CqID
      /\ Has(p, "retype", s.col) \/ Has(p, "dropProc", s.col) \/ Has(p, "addProc", s.col) => d = "mssql"
  BY <1>3 DEF PlanBasics
<1>5. /\ s.op = "add" => s.col \in DOMAIN new
      /\ s.op = "addKey" => s.col = CqID
      /\ s.op \in {"retype", "dropProc", "addProc"} => d = "mssql"
  BY <1>3, <1>4
<1> QED BY <1>2, <1>5 DEF s

LEMMA SuitedNext ==
  ASSUME NEW d \in Known, NEW new, Suited(d, new), NEW table, IsFcn(table), Suited(d, table),
         NEW p \in Plans(Ops), p # << >>, PlanBasics(d, new, p), Possible(Head(p), table, new),
         NEW halted, d \in {"mssql", "clickhouse", "bigquery"} => Progress(d, new, table, p, halted),
         NEW E, E = Effect(d, Head(p), table, new)
  PROVE  Suited(d, E)
<1> DEFINE s == Head(p)
<1>1. s \in [op : Ops, col : ColumnNames] /\ s.op # "cannotMerge"
  BY PlanParts DEF Possible
<1>2. (s.op = "add" => s.col \in DOMAIN new) /\ (s.op = "retype" => d = "mssql")
  BY BasicsRest
<1>3. ASSUME d \in {"mssql", "clickhouse", "bigquery"}
      PROVE  /\ s.op \notin {"move", "moveKey", "dropKey", "addKey", "retype"}
             /\ d = "mssql" /\ s.op = "add" /\ s.col \notin DOMAIN table => ~new[s.col].pk
  <2>1. CASE Altering(d, new, table, p)
    <3>1. s.op \in {"add", "retype", "dropProc", "addProc", "merge", "cannotMerge"}
      BY <1>3, <2>1, HeadSuits, AlterOpsAre
    <3>2. s.op # "retype"
      <4>1. s.op = "retype" => s.col \in DOMAIN table /\ table[s.col].pk
        BY <2>1, HeadSuits
      <4> QED BY <4>1 DEF Possible
    <3>3. ASSUME d = "mssql", s.op = "add", s.col \notin DOMAIN table PROVE ~new[s.col].pk
      <4>1. s.col \in Adds(new, table)
        BY <1>2, <3>3 DEF Adds
      <4>2. PlainAddsAndRemoves(new, table)
        BY <2>1, <3>3, CanPlain DEF Altering
      <4> QED BY <4>1, <4>2 DEF PlainAddsAndRemoves, OptionalColumns
    <3> HIDE DEF s
    <3> QED BY <3>1, <3>2, <3>3
  <2>2. CASE Remaking(d, table, p)
    <3>1. Head(p) = Stmt("drop", CqID) \/ Head(p) = Stmt("create", CqID)
      BY <2>2, RemakingParts
    <3>2. s.op \in {"drop", "create"}
      BY <3>1 DEF Stmt
    <3> HIDE DEF s
    <3> QED BY <3>2
  <2> QED BY <1>3, <2>1, <2>2 DEF Progress
<1>4. E = Effect(d, s, table, new)
  OBVIOUS
<1> HIDE DEF s
<1>5. s.op # "retype"
  BY <1>2, <1>3
<1> QED BY <1>1, <1>2, <1>3, <1>4, <1>5, SuitedStep

-----------------------------------------------------------------------------
(* The statements of the plans. *)

LEMMA PlanOf ==
  ASSUME NEW ops, NEW p \in Plans(SafeOps), \A op, c : Has(p, op, c) => op \in ops
  PROVE  p \in Plans(ops)
<1> DEFINE T == [op : ops, col : ColumnNames]
<1>1. Len(p) \in Nat /\ DOMAIN p = 1..Len(p) /\ \A i \in 1..Len(p) : p[i] \in [op : SafeOps, col : ColumnNames]
  BY PlanIsSeq
<1>2. ASSUME NEW i \in 1..Len(p) PROVE p[i] \in T
  <2>1. Has(p, p[i].op, p[i].col)
    BY <1>1 DEF Has
  <2>2. p[i].op \in ops
    BY <2>1
  <2> QED BY <1>1, <2>2
<1>3. p \in Seq([op : SafeOps, col : ColumnNames])
  BY DEF Plans
<1> HIDE DEF T
<1>4. p \in [1..Len(p) -> T]
  BY <1>1, <1>2, <1>3
<1>5. p \in Seq(T)
  BY <1>1, <1>4
<1> QED BY <1>5 DEF Plans, T

\* What there is of a plan's parts.
LEMMA HasChanges ==
  ASSUME NEW new, NEW old, IsTable(new), IsTable(old), NEW o, NEW op, NEW c
  PROVE  /\ Has(ForEach(o, Adds(new, old)), op, c) <=> op = o /\ c \in Adds(new, old)
         /\ Has(ForEach(o, Updates(new, old)), op, c) <=> op = o /\ c \in Updates(new, old)
         /\ Has(ForEach(o, Deuniques(new, old)), op, c) <=> op = o /\ c \in Deuniques(new, old)
         /\ Has(ForEach(o, Keys(old)), op, c) <=> op = o /\ c \in Keys(old)
         /\ Has(ForEach(o, {x \in Updates(new, old) : old[x].notNull /\ ~new[x].notNull}), op, c)
              <=> op = o /\ c \in Updates(new, old) /\ old[c].notNull /\ ~new[c].notNull
<1> DEFINE S == {x \in Updates(new, old) : old[x].notNull /\ ~new[x].notNull}
<1>1. /\ Adds(new, old) \subseteq DOMAIN new /\ Updates(new, old) \subseteq DOMAIN new
      /\ Deuniques(new, old) \subseteq DOMAIN new /\ Keys(old) \subseteq DOMAIN old
      /\ S \subseteq DOMAIN new
  BY DEF Adds, Updates, Deuniques, Keys
<1>2. c \in S <=> c \in Updates(new, old) /\ old[c].notNull /\ ~new[c].notNull
  OBVIOUS
<1> HIDE DEF S
<1>3. Has(ForEach(o, Adds(new, old)), op, c) <=> op = o /\ c \in Adds(new, old)
  BY <1>1, ChangesFinite, HasForEach
<1>4. Has(ForEach(o, Updates(new, old)), op, c) <=> op = o /\ c \in Updates(new, old)
  BY <1>1, ChangesFinite, HasForEach
<1>5. Has(ForEach(o, Deuniques(new, old)), op, c) <=> op = o /\ c \in Deuniques(new, old)
  BY <1>1, ChangesFinite, HasForEach
<1>6. Has(ForEach(o, Keys(old)), op, c) <=> op = o /\ c \in Keys(old)
  BY <1>1, ChangesFinite, HasForEach
<1>7. Has(ForEach(o, S), op, c) <=> op = o /\ c \in S
  BY <1>1, ChangesFinite, HasForEach
<1> QED BY <1>2, <1>3, <1>4, <1>5, <1>6, <1>7 DEF S

LEMMA SafeNames ==
  /\ "add" \in SafeOps /\ "nullable" \in SafeOps /\ "notUnique" \in SafeOps /\ "retype" \in SafeOps
  /\ "dropKey" \in SafeOps /\ "addKey" \in SafeOps /\ "move" \in SafeOps /\ "moveKey" \in SafeOps
  /\ "merge" \in SafeOps /\ "cannotMerge" \in SafeOps /\ "dropProc" \in SafeOps /\ "addProc" \in SafeOps
BY DEF SafeOps

LEMMA MigrateToCQIDHas ==
  ASSUME NEW d, NEW new, NEW old, IsTable(new), IsTable(old), NEW op, NEW c
  PROVE  /\ MigrateToCQID(d, old) \in Plans(SafeOps)
         /\ d = "cockroachdb" =>
              (Has(MigrateToCQID(d, old), op, c) <=> (op = "moveKey" /\ c = CqID) \/ (op = "nullable" /\ c \in Keys(old)))
         /\ d # "cockroachdb" =>
              (Has(MigrateToCQID(d, old), op, c) <=> op = "move" /\ c = CqID)
<1>1. /\ Once("moveKey", TRUE) \in Plans(SafeOps) /\ Once("move", TRUE) \in Plans(SafeOps)
      /\ ForEach("nullable", Keys(old)) \in Plans(SafeOps)
  BY SafeNames, OnceIn, ChangesIn
<1>2. MigrateToCQID(d, old) =
        IF d = "cockroachdb" THEN Once("moveKey", TRUE) \o ForEach("nullable", Keys(old)) ELSE Once("move", TRUE)
  BY DEF MigrateToCQID, Once
<1>3. /\ Has(Once("moveKey", TRUE), op, c) <=> op = "moveKey" /\ c = CqID
      /\ Has(Once("move", TRUE), op, c) <=> op = "move" /\ c = CqID
  BY HasOnce
<1>4. Has(ForEach("nullable", Keys(old)), op, c) <=> op = "nullable" /\ c \in Keys(old)
  BY HasChanges
<1> DEFINE a == Once("moveKey", TRUE)
           b == ForEach("nullable", Keys(old))
           m == Once("move", TRUE)
<1> HIDE DEF a, b, m
<1>5. a \in Plans(SafeOps) /\ b \in Plans(SafeOps) /\ m \in Plans(SafeOps)
  BY <1>1 DEF a, b, m
<1>6. Has(a \o b, op, c) <=> Has(a, op, c) \/ Has(b, op, c)
  BY <1>5, HasJoin
<1>7. a \o b \in Plans(SafeOps)
  BY <1>5, ThenIn
<1>8. MigrateToCQID(d, old) = IF d = "cockroachdb" THEN a \o b ELSE m
  BY <1>2 DEF a, b, m
<1>9. CASE d = "cockroachdb"
  <2>1. MigrateToCQID(d, old) = a \o b
    BY <1>8, <1>9
  <2>2. Has(a \o b, op, c) <=> (op = "moveKey" /\ c = CqID) \/ (op = "nullable" /\ c \in Keys(old))
    BY <1>3, <1>4, <1>6 DEF a, b
  <2> QED BY <1>7, <1>9, <2>1, <2>2
<1>10. CASE d # "cockroachdb"
  <2>1. MigrateToCQID(d, old) = m
    BY <1>8, <1>10
  <2>2. Has(m, op, c) <=> op = "move" /\ c = CqID
    BY <1>3 DEF m
  <2> QED BY <1>5, <1>10, <2>1, <2>2
<1> QED BY <1>9, <1>10

\* Three parts, one after the other.
LEMMA HasThree ==
  ASSUME NEW ops, NEW p \in Plans(ops), NEW q \in Plans(ops), NEW r \in Plans(ops), NEW op, NEW c
  PROVE  /\ p \o q \o r \in Plans(ops)
         /\ Has(p \o q \o r, op, c) <=> Has(p, op, c) \/ Has(q, op, c) \/ Has(r, op, c)
<1>1. p \o q \in Plans(ops) /\ (Has(p \o q, op, c) <=> Has(p, op, c) \/ Has(q, op, c))
  BY ThenIn, HasJoin
<1> DEFINE pq == p \o q
<1> HIDE DEF pq
<1>2. pq \in Plans(ops)
  BY <1>1 DEF pq
<1>3. pq \o r \in Plans(ops) /\ (Has(pq \o r, op, c) <=> Has(pq, op, c) \/ Has(r, op, c))
  BY <1>2, ThenIn, HasJoin
<1> QED BY <1>1, <1>3 DEF pq

LEMMA PostgresHas ==
  ASSUME NEW d, NEW new, NEW old, IsTable(new), IsTable(old), NEW op, NEW c
  PROVE  Has(PostgresAutoMigrate(d, new, old), op, c) <=>
           \/ op = "add" /\ c \in Adds(new, old)
           \/ MovesToCqID(new, old) /\ Has(MigrateToCQID(d, old), op, c)
           \/ op = "notUnique" /\ c \in Deuniques(new, old)
<1> DEFINE a == ForEach("add", Adds(new, old))
           m == IF MovesToCqID(new, old) THEN MigrateToCQID(d, old) ELSE << >>
           u == ForEach("notUnique", Deuniques(new, old))
<1>1. PostgresAutoMigrate(d, new, old) = a \o m \o u
  BY DEF PostgresAutoMigrate
<1>2. a \in Plans(SafeOps) /\ u \in Plans(SafeOps)
  BY SafeNames, ChangesIn
<1>3. m \in Plans(SafeOps)
  BY MigrateToCQIDHas, NothingIn
<1>4. /\ Has(a, op, c) <=> op = "add" /\ c \in Adds(new, old)
      /\ Has(u, op, c) <=> op = "notUnique" /\ c \in Deuniques(new, old)
  BY HasChanges
<1>5. Has(m, op, c) <=> MovesToCqID(new, old) /\ Has(MigrateToCQID(d, old), op, c)
  BY HasNothing
<1> HIDE DEF a, m, u
<1>6. Has(a \o m \o u, op, c) <=> Has(a, op, c) \/ Has(m, op, c) \/ Has(u, op, c)
  BY <1>2, <1>3, HasThree
<1> QED BY <1>1, <1>4, <1>5, <1>6

LEMMA MySQLHas ==
  ASSUME NEW new, NEW old, IsTable(new), IsTable(old), NEW op, NEW c
  PROVE  Has(MySQLAutoMigrate(new, old), op, c) <=>
           (op = "add" /\ c \in Adds(new, old)) \/ (op = "notUnique" /\ c \in Deuniques(new, old))
<1> DEFINE a == ForEach("add", Adds(new, old))
           u == ForEach("notUnique", Deuniques(new, old))
<1>1. MySQLAutoMigrate(new, old) = a \o u
  BY DEF MySQLAutoMigrate
<1>2. a \in Plans(SafeOps) /\ u \in Plans(SafeOps)
  BY SafeNames, ChangesIn
<1>3. /\ Has(a, op, c) <=> op = "add" /\ c \in Adds(new, old)
      /\ Has(u, op, c) <=> op = "notUnique" /\ c \in Deuniques(new, old)
  BY HasChanges
<1> HIDE DEF a, u
<1>4. Has(a \o u, op, c) <=> Has(a, op, c) \/ Has(u, op, c)
  BY <1>2, HasJoin
<1> QED BY <1>1, <1>3, <1>4

LEMMA TVPHas ==
  ASSUME NEW new, NEW op, NEW c
  PROVE  Has(EnsureTVP(new), op, c) => op \in {"dropProc", "addProc"}
<1> DEFINE a == Stmt("dropProc", CqID)
           b == Stmt("addProc", CqID)
<1>1. a.op = "dropProc" /\ b.op = "addProc"
  BY DEF Stmt
<1>2. EnsureTVP(new) \in {<< >>, <<a, b>>}
  BY DEF EnsureTVP
<1> HIDE DEF a, b
<1>3. Has(<<a, b>>, op, c) => op \in {"dropProc", "addProc"}
  <2>1. DOMAIN <<a, b>> = {1, 2} /\ <<a, b>>[1] = a /\ <<a, b>>[2] = b
    OBVIOUS
  <2> QED BY <1>1, <2>1 DEF Has
<1> QED BY <1>2, <1>3, HasNothing

LEMMA MSSQLHas ==
  ASSUME NEW new, NEW old, IsTable(new), IsTable(old), NEW op, NEW c
  PROVE  /\ Has(MSSQLAutoMigrate(new, old), op, c) =>
              \/ op = "add" /\ c \in Adds(new, old)
              \/ op = "retype" /\ c \in Updates(new, old)
              \/ op \in {"dropProc", "addProc"}
         /\ c \in Adds(new, old) => Has(MSSQLAutoMigrate(new, old), "add", c)
         /\ c \in Updates(new, old) => Has(MSSQLAutoMigrate(new, old), "retype", c)
<1> DEFINE a == ForEach("add", Adds(new, old))
           r == ForEach("retype", Updates(new, old))
           v == EnsureTVP(new)
<1>1. a \in Plans(SafeOps) /\ r \in Plans(SafeOps) /\ v \in Plans(SafeOps)
  BY SafeNames, ChangesIn, AutoMigrateIn
<1>2. \A o : /\ Has(a, o, c) <=> o = "add" /\ c \in Adds(new, old)
             /\ Has(r, o, c) <=> o = "retype" /\ c \in Updates(new, old)
  BY HasChanges
<1>3. Has(v, op, c) => op \in {"dropProc", "addProc"}
  BY TVPHas
<1>4. \/ /\ Adds(new, old) = {} /\ Updates(new, old) = {}
         /\ MSSQLAutoMigrate(new, old) = << >>
      \/ MSSQLAutoMigrate(new, old) = a \o r \o v
  BY DEF MSSQLAutoMigrate
<1> HIDE DEF a, r, v
<1>5. \A o : Has(a \o r \o v, o, c) <=> Has(a, o, c) \/ Has(r, o, c) \/ Has(v, o, c)
  BY <1>1, HasThree
<1> QED BY <1>2, <1>3, <1>4, <1>5, HasNothing

LEMMA SnowflakeHas ==
  ASSUME NEW new, NEW old, IsTable(new), IsTable(old), NEW op, NEW c
  PROVE  Has(SnowflakeAutoMigrate(new, old), op, c) <=>
           \/ op = "dropKey" /\ c = CqID /\ DropsKey(new, old)
           \/ op = "addKey" /\ c = CqID /\ AddsKey(new, old)
           \/ op = "notUnique" /\ c \in Deuniques(new, old)
           \/ op = "add" /\ c \in Adds(new, old)
           \/ op = "nullable" /\ c \in Updates(new, old) /\ old[c].notNull /\ ~new[c].notNull
<1> DEFINE k == Once("dropKey", DropsKey(new, old))
           l == Once("addKey", AddsKey(new, old))
           u == ForEach("notUnique", Deuniques(new, old))
           a == ForEach("add", Adds(new, old))
           n == ForEach("nullable", {x \in Updates(new, old) : old[x].notNull /\ ~new[x].notNull})
<1>0. DropsKey(new, old) \in BOOLEAN /\ AddsKey(new, old) \in BOOLEAN
  BY DEF DropsKey, AddsKey
<1>1. k \in Plans(SafeOps) /\ l \in Plans(SafeOps)
  BY <1>0, SafeNames, OnceIn
<1>2. u \in Plans(SafeOps) /\ a \in Plans(SafeOps) /\ n \in Plans(SafeOps)
  BY SafeNames, ChangesIn
<1>3. /\ Has(k, op, c) <=> DropsKey(new, old) /\ op = "dropKey" /\ c = CqID
      /\ Has(l, op, c) <=> AddsKey(new, old) /\ op = "addKey" /\ c = CqID
  BY <1>0, HasOnce
<1>4. /\ Has(u, op, c) <=> op = "notUnique" /\ c \in Deuniques(new, old)
      /\ Has(a, op, c) <=> op = "add" /\ c \in Adds(new, old)
      /\ Has(n, op, c) <=> op = "nullable" /\ c \in Updates(new, old) /\ old[c].notNull /\ ~new[c].notNull
  <2>1. Has(u, op, c) <=> op = "notUnique" /\ c \in Deuniques(new, old)
    BY HasChanges
  <2>2. Has(a, op, c) <=> op = "add" /\ c \in Adds(new, old)
    BY HasChanges
  <2>3. Has(n, op, c) <=> op = "nullable" /\ c \in Updates(new, old) /\ old[c].notNull /\ ~new[c].notNull
    BY HasChanges
  <2> QED BY <2>1, <2>2, <2>3
<1>5. SnowflakeAutoMigrate(new, old) = k \o l \o u \o a \o n
  BY DEF SnowflakeAutoMigrate
<1> HIDE DEF k, l, u, a, n
<1> DEFINE h == k \o l \o u
<1>6. h \in Plans(SafeOps) /\ (Has(h, op, c) <=> Has(k, op, c) \/ Has(l, op, c) \/ Has(u, op, c))
  BY <1>1, <1>2, HasThree
<1>7. SnowflakeAutoMigrate(new, old) = h \o a \o n
  BY <1>5
<1> HIDE DEF h
<1>8. Has(h \o a \o n, op, c) <=> Has(h, op, c) \/ Has(a, op, c) \/ Has(n, op, c)
  BY <1>2, <1>6, HasThree
<1> QED BY <1>3, <1>4, <1>6, <1>7, <1>8

-----------------------------------------------------------------------------
(* A plan, when it is made. *)

StartFits(d, new, old, p) ==
  /\ PlanBasics(d, new, p)
  /\ PassedBy(d, new, old) \/ Progress(d, new, old, p, FALSE)

\* Plans that only add columns, or change of them what no property is about.
LEMMA AddsFit ==
  ASSUME NEW d \in {"duckdb", "sqlite", "mysql", "clickhouse"}, NEW new, NEW old,
         IsTable(new), IsTable(old), CanChange(d, new, old), NEW p \in Plans(SafeOps),
         \A op, c : Has(p, op, c) <=>
           (op = "add" /\ c \in Adds(new, old)) \/ (d = "mysql" /\ op = "notUnique" /\ c \in Deuniques(new, old))
  PROVE  StartFits(d, new, old, p)
<1>1. /\ \A c : Has(p, "add", c) <=> c \in Adds(new, old)
      /\ \A op, c : Has(p, op, c) => op = "add" \/ (d = "mysql" /\ op = "notUnique")
  OBVIOUS
<1>2. \A op, c : Has(p, op, c) => op \in AlterOps(d)
  BY <1>1, AlterOpsAre
<1>3. p \in Plans(AlterOps(d))
  BY <1>2, PlanOf
<1>4. ~PassedBy(d, new, old)
  BY DEF PassedBy, Postgres
<1>5. PlanSuits(new, old, p)
  BY <1>1 DEF PlanSuits, Adds
<1>6. Remains(d, new, old, p)
  BY <1>1 DEF Remains
<1>7. PlanBasics(d, new, p)
  BY <1>1 DEF PlanBasics, Adds
<1> QED BY <1>3, <1>4, <1>5, <1>6, <1>7 DEF StartFits, Progress, Altering

LEMMA PostgresFits ==
  ASSUME NEW d \in Postgres, NEW new, NEW old, IsTable(new), IsTable(old), Columned(new), Columned(old),
         PostgresCan(new, old)
  PROVE  StartFits(d, new, old, PostgresAutoMigrate(d, new, old))
<1> DEFINE p == PostgresAutoMigrate(d, new, old)
<1>1. p \in Plans(SafeOps)
  BY AutoMigrateIn
<1>2. \A op, c : Has(p, op, c) <=>
        \/ op = "add" /\ c \in Adds(new, old)
        \/ MovesToCqID(new, old) /\ Has(MigrateToCQID(d, old), op, c)
        \/ op = "notUnique" /\ c \in Deuniques(new, old)
  BY PostgresHas
<1> HIDE DEF p
<1>3. \A op, c :
        /\ d = "cockroachdb" =>
              (Has(MigrateToCQID(d, old), op, c) <=> (op = "moveKey" /\ c = CqID) \/ (op = "nullable" /\ c \in Keys(old)))
        /\ d # "cockroachdb" =>
              (Has(MigrateToCQID(d, old), op, c) <=> op = "move" /\ c = CqID)
  BY MigrateToCQIDHas
<1>4. \A op, c : Has(p, op, c) <=>
        \/ op = "add" /\ c \in Adds(new, old)
        \/ d = "cockroachdb" /\ MovesToCqID(new, old) /\ ((op = "moveKey" /\ c = CqID) \/ (op = "nullable" /\ c \in Keys(old)))
        \/ d # "cockroachdb" /\ MovesToCqID(new, old) /\ op = "move" /\ c = CqID
        \/ op = "notUnique" /\ c \in Deuniques(new, old)
  BY <1>2, <1>3
<1>5. PlanBasics(d, new, p)
  BY <1>4 DEF PlanBasics, Adds
<1>6. SUFFICES ASSUME ~PassedBy(d, new, old) PROVE Progress(d, new, old, p, FALSE)
  BY <1>5 DEF StartFits, p
<1>7. p \in Plans(AlterOps(d))
  <2>1. CASE d = "postgresql"
    BY <1>1, <1>4, <2>1, AlterOpsAre, PlanOf
  <2>2. CASE d = "cockroachdb"
    BY <1>1, <1>4, <2>2, AlterOpsAre, PlanOf
  <2> QED BY <2>1, <2>2 DEF Postgres
<1>8. CanChange(d, new, old)
  BY CanIs DEF Postgres
<1>9. ASSUME MovesToCqID(new, old)
      PROVE  /\ Keys(new) = {CqID} /\ CqID \in DOMAIN old
             /\ \A c \in Keys(old) : c \in DOMAIN new /\ ~new[c].notNull
  <2>1. Keys(new) = {CqID} /\ CqID \in DOMAIN new /\ new[CqID].pk /\ CqID \notin Keys(old)
    BY <1>9 DEF MovesToCqID, Keys
  <2>2. PlainAddsAndRemoves(new, old)
    BY DEF PostgresCan
  <2>3. CqID \in DOMAIN old
    BY <2>1, <2>2 DEF PlainAddsAndRemoves, OptionalColumns, Adds
  <2>4. ASSUME NEW c \in Keys(old) PROVE c \in DOMAIN new /\ ~new[c].notNull
    <3>1. c \in DOMAIN old /\ old[c].pk /\ c # CqID
      BY <2>1 DEF Keys
    <3>2. c \in DOMAIN new
      BY <2>2, <3>1 DEF PlainAddsAndRemoves, OptionalColumns, Removes
    <3>3. ~new[c].pk
      BY <2>1, <3>1, <3>2 DEF Keys
    <3>4. c \in Updates(new, old)
      BY <3>1, <3>2, <3>3 DEF Updates
    <3> QED BY <1>6, <1>9, <3>1, <3>2, <3>4 DEF PassedBy
  <2> QED BY <2>1, <2>3, <2>4
<1>10. PlanSuits(new, old, p)
  <2>1. ASSUME NEW c \in ColumnNames
        PROVE  /\ Has(p, "add", c) => c \in DOMAIN new
               /\ Has(p, "nullable", c) => c \in DOMAIN new /\ ~new[c].notNull
               /\ Has(p, "move", c) \/ Has(p, "moveKey", c) => Keys(new) = {CqID} /\ CqID \in DOMAIN old
               /\ ~Has(p, "retype", c) /\ ~Has(p, "merge", c)
    BY <1>4, <1>9 DEF Adds
  <2> QED BY <2>1 DEF PlanSuits
<1>11. Remains(d, new, old, p)
  <2>1. \A c \in Adds(new, old) : Has(p, "add", c)
    BY <1>4
  <2>2. d = "postgresql" /\ MovesToCqID(new, old) => Has(p, "move", CqID)
    BY <1>4
  <2>3. d = "cockroachdb" /\ MovesToCqID(new, old) =>
          Has(p, "moveKey", CqID) /\ \A c \in Keys(old) : old[c].notNull => Has(p, "nullable", c)
    BY <1>4
  <2>4. ~MovesToCqID(new, old) => Updates(new, old) = {}
    BY DEF PostgresCan
  <2> QED BY <2>1, <2>2, <2>3, <2>4 DEF Remains, Postgres
<1> QED BY <1>6, <1>7, <1>8, <1>10, <1>11 DEF Progress, Altering

LEMMA MSSQLFits ==
  ASSUME NEW new, NEW old, IsTable(new), IsTable(old), Suited("mssql", old), MSSQLCan(new, old)
  PROVE  StartFits("mssql", new, old, MSSQLAutoMigrate(new, old))
<1> DEFINE p == MSSQLAutoMigrate(new, old)
<1>1. p \in Plans(SafeOps)
  BY AutoMigrateIn
<1>2. \A op, c : Has(p, op, c) =>
        \/ op = "add" /\ c \in Adds(new, old)
        \/ op = "retype" /\ c \in Updates(new, old)
        \/ op \in {"dropProc", "addProc"}
  BY MSSQLHas
<1>3. /\ \A c \in Adds(new, old) : Has(p, "add", c)
      /\ \A c \in Updates(new, old) : Has(p, "retype", c)
  BY MSSQLHas
<1> HIDE DEF p
<1>4. PlanBasics("mssql", new, p)
  BY <1>2 DEF PlanBasics, Adds
<1>5. p \in Plans(AlterOps("mssql"))
  BY <1>1, <1>2, AlterOpsAre, PlanOf
<1>6. CanChange("mssql", new, old)
  BY CanIs
<1>7. ~PassedBy("mssql", new, old)
  BY DEF PassedBy, Postgres
<1>8. \A c \in Updates(new, old) : c \in DOMAIN old /\ old[c].pk
  BY DEF MSSQLCan, Suited, Updates
<1>9. PlanSuits(new, old, p)
  BY <1>2, <1>8 DEF PlanSuits, Adds
<1>10. Remains("mssql", new, old, p)
  BY <1>3 DEF Remains
<1> QED BY <1>4, <1>5, <1>6, <1>7, <1>9, <1>10 DEF StartFits, Progress, Altering, p

LEMMA SnowflakePlanFits ==
  ASSUME NEW new, NEW old, IsTable(new), IsTable(old), SnowflakeCan(new, old)
  PROVE  StartFits("snowflake", new, old, SnowflakeAutoMigrate(new, old))
<1> DEFINE p == SnowflakeAutoMigrate(new, old)
<1>1. p \in Plans(SafeOps)
  BY AutoMigrateIn
<1>2. \A op, c : Has(p, op, c) <=>
        \/ op = "dropKey" /\ c = CqID /\ DropsKey(new, old)
        \/ op = "addKey" /\ c = CqID /\ AddsKey(new, old)
        \/ op = "notUnique" /\ c \in Deuniques(new, old)
        \/ op = "add" /\ c \in Adds(new, old)
        \/ op = "nullable" /\ c \in Updates(new, old) /\ old[c].notNull /\ ~new[c].notNull
  BY SnowflakeHas
<1> HIDE DEF p
<1>3. PlanBasics("snowflake", new, p)
  BY <1>2 DEF PlanBasics, Adds
<1>4. SUFFICES ASSUME ~PassedBy("snowflake", new, old) PROVE Progress("snowflake", new, old, p, FALSE)
  BY <1>3 DEF StartFits, p
<1>5. ~DropsKey(new, old)
  <2>1. \A c \in DOMAIN old : old[c].pk => c \in DOMAIN new /\ new[c].pk
    BY <1>4, SnowflakePassed
  <2> QED BY <2>1 DEF DropsKey, Keys, Removes
<1>6. p \in Plans(AlterOps("snowflake"))
  BY <1>1, <1>2, <1>5, AlterOpsAre, PlanOf
<1>7. CanChange("snowflake", new, old)
  BY CanIs
<1>8. PlanSuits(new, old, p)
  BY <1>2 DEF PlanSuits, Adds, Updates
<1>9. Remains("snowflake", new, old, p)
  BY <1>2, SnowflakeRemains
<1> QED BY <1>4, <1>6, <1>7, <1>8, <1>9 DEF Progress, Altering

LEMMA BigQueryFits ==
  ASSUME NEW new, NEW old, NEW o \in {"merge", "cannotMerge"}, o = "merge" <=> BigQueryCanMerge(new, old),
         NEW p \in Plans(SafeOps), \A op, c : Has(p, op, c) <=> op = o /\ c = CqID
  PROVE  StartFits("bigquery", new, old, p)
<1>4. PlanBasics("bigquery", new, p)
  BY DEF PlanBasics
<1>5. p \in Plans(AlterOps("bigquery"))
  BY AlterOpsAre, PlanOf
<1>6. CanChange("bigquery", new, old) /\ ~PassedBy("bigquery", new, old)
  BY CanIs DEF PassedBy, Postgres
<1>7. PlanSuits(new, old, p)
  BY DEF PlanSuits
<1>8. Remains("bigquery", new, old, p)
  BY DEF Remains
<1> QED BY <1>4, <1>5, <1>6, <1>7, <1>8 DEF StartFits, Progress, Altering

LEMMA BigQueryPlanFits ==
  ASSUME NEW new, NEW old, old # NoTable
  PROVE  StartFits("bigquery", new, old, BigQueryMigrate(new, old))
<1>1. "merge" \in SafeOps /\ "cannotMerge" \in SafeOps
  BY SafeNames
<1>2. \A o \in {"merge", "cannotMerge"} :
        Once(o, TRUE) \in Plans(SafeOps) /\ \A op, c : Has(Once(o, TRUE), op, c) <=> op = o /\ c = CqID
  BY <1>1, OnceIn, HasOnce
<1>3. CASE BigQueryCanMerge(new, old)
  <2>1. BigQueryMigrate(new, old) = Once("merge", TRUE)
    BY <1>3, Zenon DEF BigQueryMigrate
  <2>2. StartFits("bigquery", new, old, Once("merge", TRUE))
    BY <1>2, <1>3, BigQueryFits
  <2> QED BY <2>1, <2>2
<1>4. CASE ~BigQueryCanMerge(new, old)
  <2>1. BigQueryMigrate(new, old) = Once("cannotMerge", TRUE)
    BY <1>4, Zenon DEF BigQueryMigrate
  <2>2. StartFits("bigquery", new, old, Once("cannotMerge", TRUE))
    BY <1>2, <1>4, BigQueryFits
  <2> QED BY <2>1, <2>2
<1> QED BY <1>3, <1>4

LEMMA RemakeFits ==
  ASSUME NEW d, NEW new, NEW old, NEW p, Remaking(d, old, p)
  PROVE  StartFits(d, new, old, p)
<1> DEFINE r == Stmt("drop", CqID)
           k == Stmt("create", CqID)
           x == Stmt("dropProc", CqID)
           y == Stmt("addProc", CqID)
<1>1. r.op = "drop" /\ k.op = "create" /\ x.op = "dropProc" /\ y.op = "addProc"
  BY DEF Stmt
<1>2. p \in {<<r, k>>, <<k>>} \/ (d = "mssql" /\ p \in {<<r, k, x, y>>, <<k, x, y>>})
  BY DEF Remaking, Recreate, Create
<1> HIDE DEF r, k, x, y
<1>3. ASSUME NEW op, NEW c, Has(p, op, c)
      PROVE  op \in {"drop", "create"} \/ (d = "mssql" /\ op \in {"dropProc", "addProc"})
  <2>1. PICK i \in DOMAIN p : p[i].op = op
    BY <1>3 DEF Has
  <2>2. CASE p = <<r, k>>
    <3>1. i \in {1, 2} /\ p[1] = r /\ p[2] = k
      BY <2>1, <2>2
    <3> QED BY <1>1, <2>1, <3>1
  <2>3. CASE p = <<k>>
    <3>1. p[i] = k
      BY <2>1, <2>3
    <3> QED BY <1>1, <2>1, <3>1
  <2>4. CASE d = "mssql" /\ p = <<r, k, x, y>>
    <3>1. i \in {1, 2, 3, 4} /\ p[1] = r /\ p[2] = k /\ p[3] = x /\ p[4] = y
      BY <2>1, <2>4
    <3> QED BY <1>1, <2>1, <2>4, <3>1
  <2>5. CASE d = "mssql" /\ p = <<k, x, y>>
    <3>1. i \in {1, 2, 3} /\ p[1] = k /\ p[2] = x /\ p[3] = y
      BY <2>1, <2>5
    <3> QED BY <1>1, <2>1, <2>5, <3>1
  <2> QED BY <1>2, <2>2, <2>3, <2>4, <2>5
<1>4. PlanBasics(d, new, p)
  BY <1>3 DEF PlanBasics
<1> QED BY <1>4 DEF StartFits, Progress

LEMMA MakesAgain ==
  ASSUME NEW d, NEW old
  PROVE  Remaking(d, old, Recreate) /\ (old = NoTable => Remaking(d, old, Create))
BY DEF Remaking

LEMMA JoinTwo ==
  ASSUME NEW S, NEW r \in S, NEW k \in S, NEW x \in S, NEW y \in S
  PROVE  <<r, k>> \o <<x, y>> = <<r, k, x, y>> /\ <<k>> \o <<x, y>> = <<k, x, y>>
<1>1. <<r, k>> \o <<x, y>> = <<r, k, x, y>>
  <2> DEFINE a == <<r, k>> \o <<x, y>>
             b == <<r, k, x, y>>
  <2>1. a \in Seq(S) /\ b \in Seq(S) /\ Len(a) = 4 /\ Len(b) = 4
    OBVIOUS
  <2>2. a[1] = b[1] /\ a[2] = b[2] /\ a[3] = b[3] /\ a[4] = b[4]
    OBVIOUS
  <2> HIDE DEF a, b
  <2>3. \A i \in 1..4 : a[i] = b[i]
    BY <2>2
  <2>4. a = b
    BY <2>1, <2>3, SeqEqual
  <2> QED BY <2>4 DEF a, b
<1>2. <<k>> \o <<x, y>> = <<k, x, y>>
  <2> DEFINE a == <<k>> \o <<x, y>>
             b == <<k, x, y>>
  <2>1. a \in Seq(S) /\ b \in Seq(S) /\ Len(a) = 3 /\ Len(b) = 3
    OBVIOUS
  <2>2. a[1] = b[1] /\ a[2] = b[2] /\ a[3] = b[3]
    OBVIOUS
  <2> HIDE DEF a, b
  <2>3. \A i \in 1..3 : a[i] = b[i]
    BY <2>2
  <2>4. a = b
    BY <2>1, <2>3, SeqEqual
  <2> QED BY <2>4 DEF a, b
<1> QED BY <1>1, <1>2

LEMMA MSSQLMakesAgain ==
  ASSUME NEW new, NEW old
  PROVE  /\ Remaking("mssql", old, Recreate \o EnsureTVP(new))
         /\ old = NoTable => Remaking("mssql", old, Create \o EnsureTVP(new))
<1> DEFINE r == Stmt("drop", CqID)
           k == Stmt("create", CqID)
           x == Stmt("dropProc", CqID)
           y == Stmt("addProc", CqID)
<1> HIDE DEF r, k, x, y
<1>1. EnsureTVP(new) \in {<< >>, <<x, y>>}
  BY DEF EnsureTVP, x, y
<1>2. Recreate = <<r, k>> /\ Create = <<k>>
  BY DEF Recreate, Create, r, k
<1>3. /\ <<r, k>> \o <<x, y>> = <<r, k, x, y>> /\ <<k>> \o <<x, y>> = <<k, x, y>>
      /\ <<r, k>> \o << >> = <<r, k>> /\ <<k>> \o << >> = <<k>>
  <2> DEFINE S == {r, k, x, y}
  <2>1. r \in S /\ k \in S /\ x \in S /\ y \in S
    OBVIOUS
  <2> HIDE DEF S
  <2> QED BY <2>1, JoinTwo
<1>4. /\ Recreate \o EnsureTVP(new) \in {Recreate, <<r, k, x, y>>}
      /\ Create \o EnsureTVP(new) \in {Create, <<k, x, y>>}
  BY <1>1, <1>2, <1>3
<1> QED BY <1>4 DEF Remaking, r, k, x, y

\* The same for all that share the shape.
LEMMA MigrateShape ==
  ASSUME NEW d, NEW new, NEW old, NEW can \in BOOLEAN, NEW altering,
         old # NoTable /\ can => StartFits(d, new, old, altering)
  PROVE  StartFits(d, new, old, Migrate(old, can, altering))
<1>1. CASE old = NoTable
  <2>1. Migrate(old, can, altering) = Create
    BY <1>1 DEF Migrate
  <2> QED BY <1>1, <2>1, MakesAgain, RemakeFits
<1>2. CASE old # NoTable /\ can
  <2>1. Migrate(old, can, altering) = altering
    BY <1>2 DEF Migrate
  <2> QED BY <1>2, <2>1
<1>3. CASE old # NoTable /\ ~can
  <2>1. Migrate(old, can, altering) = Recreate
    BY <1>3 DEF Migrate
  <2> QED BY <2>1, MakesAgain, RemakeFits
<1> QED BY <1>1, <1>2, <1>3

LEMMA MigratesFit ==
  ASSUME NEW d \in Known, NEW new, NEW old, IsTable(new), IsTable(old), Suited(d, new), Suited(d, old)
  PROVE  /\ d \in Postgres => StartFits(d, new, old, PostgresMigrate(d, new, old))
         /\ d = "duckdb" => StartFits(d, new, old, DuckDBMigrate(new, old))
         /\ d = "sqlite" => StartFits(d, new, old, SQLiteMigrate(new, old))
         /\ d = "mysql" => StartFits(d, new, old, MySQLMigrate(new, old))
         /\ d = "mssql" => StartFits(d, new, old, MSSQLMigrate(new, old))
         /\ d = "snowflake" => StartFits(d, new, old, SnowflakeMigrate(new, old))
         /\ d = "clickhouse" => StartFits(d, new, old, ClickHouseMigrate(new, old))
         /\ d = "bigquery" => StartFits(d, new, old, BigQueryMigrate(new, old))
<1>0. Columned(new) /\ Columned(old)
  BY DEF Suited
<1>a. \A op, c : Has(ForEach("add", Adds(new, old)), op, c) <=> op = "add" /\ c \in Adds(new, old)
  BY HasChanges
<1>b. ForEach("add", Adds(new, old)) \in Plans(SafeOps)
  BY SafeNames, ChangesIn
<1>1. ASSUME d \in Postgres PROVE StartFits(d, new, old, PostgresMigrate(d, new, old))
  <2>1. PostgresCan(new, old) => StartFits(d, new, old, PostgresAutoMigrate(d, new, old))
    BY <1>0, <1>1, PostgresFits
  <2>2. PostgresCan(new, old) \in BOOLEAN
    BY DEF PostgresCan
  <2> QED BY <2>1, <2>2, MigrateShape DEF PostgresMigrate
<1>2. ASSUME d = "duckdb" PROVE StartFits(d, new, old, DuckDBMigrate(new, old))
  <2>1. DuckDBCan(new, old) => StartFits(d, new, old, DuckDBAutoMigrate(new, old))
    <3>1. SUFFICES ASSUME DuckDBCan(new, old) PROVE StartFits(d, new, old, ForEach("add", Adds(new, old)))
      BY DEF DuckDBAutoMigrate
    <3>2. CanChange(d, new, old)
      BY <1>2, <3>1, CanIs
    <3> QED BY <1>a, <1>b, <1>2, <3>2, AddsFit
  <2>2. DuckDBCan(new, old) \in BOOLEAN
    BY DEF DuckDBCan
  <2> QED BY <2>1, <2>2, MigrateShape DEF DuckDBMigrate
<1>3. ASSUME d = "sqlite" PROVE StartFits(d, new, old, SQLiteMigrate(new, old))
  <2>1. SQLiteCan(new, old) => StartFits(d, new, old, SQLiteAutoMigrate(new, old))
    <3>1. SUFFICES ASSUME SQLiteCan(new, old) PROVE StartFits(d, new, old, ForEach("add", Adds(new, old)))
      BY DEF SQLiteAutoMigrate
    <3>2. CanChange(d, new, old)
      BY <1>3, <3>1, CanIs
    <3> QED BY <1>a, <1>b, <1>3, <3>2, AddsFit
  <2>2. SQLiteCan(new, old) \in BOOLEAN
    BY DEF SQLiteCan
  <2> QED BY <2>1, <2>2, MigrateShape DEF SQLiteMigrate
<1>4. ASSUME d = "mysql" PROVE StartFits(d, new, old, MySQLMigrate(new, old))
  <2>1. MySQLCan(new, old) => StartFits(d, new, old, MySQLAutoMigrate(new, old))
    <3>1. SUFFICES ASSUME MySQLCan(new, old) PROVE StartFits(d, new, old, MySQLAutoMigrate(new, old))
      OBVIOUS
    <3>2. CanChange(d, new, old)
      BY <1>4, <3>1, CanIs
    <3>3. /\ MySQLAutoMigrate(new, old) \in Plans(SafeOps)
          /\ \A op, c : Has(MySQLAutoMigrate(new, old), op, c) <=>
               (op = "add" /\ c \in Adds(new, old)) \/ (op = "notUnique" /\ c \in Deuniques(new, old))
      BY AutoMigrateIn, MySQLHas
    <3> QED BY <1>4, <3>2, <3>3, AddsFit
  <2>2. MySQLCan(new, old) \in BOOLEAN
    BY DEF MySQLCan
  <2> QED BY <2>1, <2>2, MigrateShape DEF MySQLMigrate
<1>5. ASSUME d = "mssql" PROVE StartFits(d, new, old, MSSQLMigrate(new, old))
  <2>1. CASE old # NoTable /\ MSSQLCan(new, old)
    <3>1. MSSQLMigrate(new, old) = MSSQLAutoMigrate(new, old)
      BY <2>1 DEF MSSQLMigrate
    <3> QED BY <1>5, <2>1, <3>1, MSSQLFits
  <2>2. CASE ~(old # NoTable /\ MSSQLCan(new, old)) /\ old = NoTable
    <3>1. MSSQLMigrate(new, old) = Create \o EnsureTVP(new)
      BY <2>2 DEF MSSQLMigrate
    <3> QED BY <1>5, <2>2, <3>1, MSSQLMakesAgain, RemakeFits
  <2>3. CASE ~(old # NoTable /\ MSSQLCan(new, old)) /\ old # NoTable
    <3>1. MSSQLMigrate(new, old) = Recreate \o EnsureTVP(new)
      BY <2>3 DEF MSSQLMigrate
    <3> QED BY <1>5, <3>1, MSSQLMakesAgain, RemakeFits
  <2> QED BY <2>1, <2>2, <2>3
<1>6. ASSUME d = "snowflake" PROVE StartFits(d, new, old, SnowflakeMigrate(new, old))
  <2>1. SnowflakeCan(new, old) => StartFits(d, new, old, SnowflakeAutoMigrate(new, old))
    BY <1>6, SnowflakePlanFits
  <2>2. SnowflakeCan(new, old) \in BOOLEAN
    BY DEF SnowflakeCan
  <2> QED BY <2>1, <2>2, MigrateShape DEF SnowflakeMigrate
<1>7. ASSUME d = "clickhouse" PROVE StartFits(d, new, old, ClickHouseMigrate(new, old))
  <2>1. ~ClickHouseForces(new, old) => StartFits(d, new, old, ClickHouseAutoMigrate(new, old))
    <3>1. SUFFICES ASSUME ~ClickHouseForces(new, old) PROVE StartFits(d, new, old, ForEach("add", Adds(new, old)))
      BY DEF ClickHouseAutoMigrate
    <3>2. CanChange(d, new, old)
      BY <1>7, <3>1, CanIs
    <3> QED BY <1>a, <1>b, <1>7, <3>2, AddsFit
  <2>2. (~ClickHouseForces(new, old)) \in BOOLEAN
    OBVIOUS
  <2> QED BY <2>1, <2>2, MigrateShape DEF ClickHouseMigrate
<1>8. ASSUME d = "bigquery" PROVE StartFits(d, new, old, BigQueryMigrate(new, old))
  <2>1. CASE old = NoTable
    <3>1. BigQueryMigrate(new, old) = Create
      BY <2>1, Zenon DEF BigQueryMigrate
    <3> QED BY <2>1, <3>1, MakesAgain, RemakeFits
  <2>2. CASE old # NoTable
    BY <1>8, <2>2, BigQueryPlanFits
  <2> QED BY <2>1, <2>2
<1> QED BY <1>1, <1>2, <1>3, <1>4, <1>5, <1>6, <1>7, <1>8

LEMMA StatementsFit ==
  ASSUME NEW d \in Known, NEW new, NEW old, IsTable(new), IsTable(old), Suited(d, new), Suited(d, old),
         new # NoTable
  PROVE  StartFits(d, new, old, Statements(d, new, old))
<1>0. d \in Destination
  BY KnownAre
<1>1. CASE d \in Postgres
  <2>1. d \notin {"duckdb", "sqlite", "mysql", "mssql", "snowflake", "clickhouse", "bigquery"}
    BY <1>1 DEF Postgres
  <2>2. Statements(d, new, old) = PostgresMigrate(d, new, old)
    BY <1>1, <2>1, Zenon DEF Statements
  <2> QED BY <1>1, <2>2, MigratesFit
<1>2. CASE d \notin Postgres
  <2>1. /\ d = "duckdb" => Statements(d, new, old) = DuckDBMigrate(new, old)
        /\ d = "sqlite" => Statements(d, new, old) = SQLiteMigrate(new, old)
        /\ d = "mysql" => Statements(d, new, old) = MySQLMigrate(new, old)
        /\ d = "mssql" => Statements(d, new, old) = MSSQLMigrate(new, old)
    BY <1>2, Zenon DEF Statements
  <2>2. /\ d = "snowflake" => Statements(d, new, old) = SnowflakeMigrate(new, old)
        /\ d = "clickhouse" => Statements(d, new, old) = ClickHouseMigrate(new, old)
        /\ d = "bigquery" => Statements(d, new, old) = BigQueryMigrate(new, old)
    BY <1>2, Zenon DEF Statements
  <2> QED BY <1>0, <1>2, <2>1, <2>2, MigratesFit DEF Destination, Postgres
<1> QED BY <1>1, <1>2

-----------------------------------------------------------------------------
(* A table between the check and the end of a call: w is the wanted table  *)
(* as the destination compares it, old what was listed, table what there   *)
(* is, p the plan that is left, columns those of the procedure.            *)

PlanStands(d, new, old, table, p, inForce, halted) ==
  \/ PassedBy(d, new, old)
  \/ d = "sqlite" /\ old = NoTable
  \/ new = NoTable /\ p = << >> /\ (inForce \/ ~Refuses(d, new, table))
  \/ halted /\ p = << >> /\ (inForce \/ table = NoTable)
  \/ Progress(d, new, table, p, halted)

EndsWithProc(p) == p[Len(p)].op = "addProc"

ProcStands(d, new, old, p, columns, halted) ==
  d = "mssql" /\ Keys(new) # {} /\ Statements(d, new, old) # << >> /\ ~halted =>
    (p = << >> => columns = DOMAIN new) /\ (p # << >> => EndsWithProc(p))

Stands(d, new, old, table, p, columns, inForce, halted) ==
  /\ PlanBasics(d, new, p)
  /\ PlanStands(d, new, old, table, p, inForce, halted)
  /\ ProcStands(d, new, old, p, columns, halted)

LEMMA LastStays ==
  ASSUME NEW ops, NEW p \in Plans(ops), p # << >>
  PROVE  /\ Tail(p) # << >> => (EndsWithProc(Tail(p)) <=> EndsWithProc(p))
         /\ Tail(p) = << >> => (EndsWithProc(p) <=> Head(p).op = "addProc")
<1> DEFINE T == [op : ops, col : ColumnNames]
<1>1. p \in Seq(T)
  BY DEF Plans
<1> HIDE DEF T
<1>2. /\ Len(p) \in Nat /\ Len(p) >= 1 /\ Len(Tail(p)) = Len(p) - 1
      /\ \A i \in 1..(Len(p) - 1) : Tail(p)[i] = p[i + 1]
      /\ Head(p) = p[1]
  BY <1>1
<1>3. ASSUME Tail(p) # << >> PROVE EndsWithProc(Tail(p)) <=> EndsWithProc(p)
  <2>0. Tail(p) \in Seq(T)
    BY <1>1, HeadTailProperties
  <2>1. Len(Tail(p)) # 0
    BY <1>3, <2>0, EmptySeq
  <2>2. Len(p) - 1 \in 1..(Len(p) - 1) /\ (Len(p) - 1) + 1 = Len(p)
    BY <1>2, <2>1
  <2>3. Tail(p)[Len(p) - 1] = p[Len(p)]
    BY <1>2, <2>2
  <2> QED BY <1>2, <2>3 DEF EndsWithProc
<1>4. ASSUME Tail(p) = << >> PROVE EndsWithProc(p) <=> Head(p).op = "addProc"
  <2>1. Len(p) - 1 = 0
    BY <1>2, <1>4
  <2>2. Len(p) = 1
    BY <1>2, <2>1
  <2> QED BY <1>2, <2>2 DEF EndsWithProc
<1> QED BY <1>3, <1>4

ExecuteStands(d, new, old, E, rest, columns, renewed, inForce, halted) ==
  /\ Stands(d, new, old, E, rest, renewed, inForce, halted)
  /\ Suited(d, E)
  /\ renewed # {} => d = "mssql" \/ columns # {}

LEMMA StandsExecute ==
  ASSUME NEW d \in Known, NEW new, Suited(d, new), d \in Postgres => KeyNotNull(new),
         NEW old, NEW table, IsFcn(table), Suited(d, table), NEW p \in Plans(Ops), p # << >>,
         NEW columns, NEW inForce, NEW halted, Stands(d, new, old, table, p, columns, inForce, halted),
         Possible(Head(p), table, new), NEW E, E = Effect(d, Head(p), table, new),
         NEW renewed, renewed = ProcEffect(Head(p), columns, new)
  PROVE  ExecuteStands(d, new, old, E, Tail(p), columns, renewed, inForce, halted)
<1>1. /\ PlanBasics(d, new, p) /\ PlanStands(d, new, old, table, p, inForce, halted)
      /\ ProcStands(d, new, old, p, columns, halted)
  BY DEF Stands
<1>2. /\ PlanBasics(d, new, Tail(p))
      /\ Head(p).op = "addKey" => Head(p).col = CqID
      /\ Head(p).op \in {"retype", "dropProc", "addProc"} => d = "mssql"
  BY <1>1, BasicsRest
<1>3. PassedBy(d, new, old) \/ (d = "sqlite" /\ old = NoTable) \/ Progress(d, new, table, p, halted)
  BY <1>1 DEF PlanStands
<1>4. Progress(d, new, table, p, halted) => Progress(d, new, E, Tail(p), halted)
  BY <1>2, ProgressStep
<1>5. PlanStands(d, new, old, E, Tail(p), inForce, halted)
  BY <1>3, <1>4 DEF PlanStands
<1>6. d \in {"mssql", "clickhouse", "bigquery"} => Progress(d, new, table, p, halted)
  BY <1>3 DEF PassedBy, Postgres
<1>7. Suited(d, E)
  BY <1>1, <1>6, SuitedNext
<1>8. renewed \in {{}, columns} \/ (Head(p).op = "addProc" /\ renewed = DOMAIN new)
  <2>1. CASE Head(p).op = "dropProc"
    BY <2>1, Zenon DEF ProcEffect
  <2>2. CASE Head(p).op = "addProc"
    BY <2>2, Zenon DEF ProcEffect
  <2>3. CASE Head(p).op # "dropProc" /\ Head(p).op # "addProc"
    BY <2>3, Zenon DEF ProcEffect
  <2> QED BY <2>1, <2>2, <2>3
<1>9. Head(p).op = "addProc" => renewed = DOMAIN new
  BY Zenon DEF ProcEffect
<1>10. ProcStands(d, new, old, Tail(p), renewed, halted)
  BY <1>1, <1>9, LastStays DEF ProcStands
<1> QED BY <1>2, <1>5, <1>7, <1>8, <1>10 DEF Stands, ExecuteStands

LEMMA BasicsNothing ==
  ASSUME NEW d, NEW new
  PROVE  PlanBasics(d, new, << >>)
BY HasNothing DEF PlanBasics

\* Without a drop, only a table that is not there is made.
LEMMA RemakingSafe ==
  ASSUME NEW d, NEW table, NEW p \in Plans(SafeOps), Remaking(d, table, p)
  PROVE  table = NoTable
<1>1. p # << >>
  <2> DEFINE r == Stmt("drop", CqID)
             k == Stmt("create", CqID)
             x == Stmt("dropProc", CqID)
             y == Stmt("addProc", CqID)
  <2>1. p \in {<<r, k>>, <<k>>, <<r, k, x, y>>, <<k, x, y>>}
    BY DEF Remaking, Recreate, Create
  <2> HIDE DEF r, k, x, y
  <2> QED BY <2>1
<1>2. Head(p).op \in SafeOps
  BY <1>1, PlanParts
<1>3. Stmt("drop", CqID).op = "drop" /\ "drop" \notin SafeOps
  BY DEF Stmt, SafeOps
<1> QED BY <1>1, <1>2, <1>3, RemakingParts

LEMMA StandsFail ==
  ASSUME NEW d, NEW new, NEW old, NEW table, NEW p \in Plans(Ops), NEW columns,
         NEW inForce \in BOOLEAN, ~inForce => p \in Plans(SafeOps),
         NEW halted, Stands(d, new, old, table, p, columns, inForce, halted)
  PROVE  /\ Stands(d, new, old, table, p, columns, inForce, TRUE)
         /\ Stands(d, new, old, table, << >>, columns, inForce, TRUE)
<1>1. PlanBasics(d, new, p) /\ PlanStands(d, new, old, table, p, inForce, halted)
  BY DEF Stands
<1>2. \A q : ProcStands(d, new, old, q, columns, TRUE)
  BY DEF ProcStands
<1>3. PlanStands(d, new, old, table, p, inForce, TRUE)
  BY <1>1 DEF PlanStands, Progress
<1>4. PlanStands(d, new, old, table, << >>, inForce, TRUE)
  <2>1. CASE Remaking(d, table, p)
    <3>1. inForce \/ table = NoTable
      BY <2>1, RemakingSafe
    <3> QED BY <3>1 DEF PlanStands
  <2>2. CASE Altering(d, new, table, p)
    <3>1. << >> \in Plans(AlterOps(d)) /\ CanChange(d, new, table) /\ ~PassedBy(d, new, table)
      BY <2>2, NothingIn DEF Altering
    <3>2. PlanSuits(new, table, << >>)
      BY HasNothing DEF PlanSuits
    <3> QED BY <3>1, <3>2 DEF Altering, Progress, PlanStands
  <2> QED BY <1>1, <2>1, <2>2 DEF PlanStands, Progress
<1> QED BY <1>1, <1>2, <1>3, <1>4, BasicsNothing DEF Stands

LEMMA MSSQLEnds ==
  ASSUME NEW new, NEW old, IsTable(new), IsTable(old), Keys(new) # {}, MSSQLMigrate(new, old) # << >>
  PROVE  EndsWithProc(MSSQLMigrate(new, old))
<1> DEFINE T == [op : Ops, col : ColumnNames]
           x == Stmt("dropProc", CqID)
           y == Stmt("addProc", CqID)
<1>1. EnsureTVP(new) = <<x, y>> /\ y.op = "addProc"
  BY DEF EnsureTVP, Stmt
<1>2. PICK q \in Plans(Ops) : MSSQLMigrate(new, old) = q \o EnsureTVP(new)
  <2>1. CASE old # NoTable /\ MSSQLCan(new, old)
    <3>1. MSSQLMigrate(new, old) = MSSQLAutoMigrate(new, old)
      BY <2>1 DEF MSSQLMigrate
    <3>2. ForEach("add", Adds(new, old)) \in Plans(SafeOps) /\ ForEach("retype", Updates(new, old)) \in Plans(SafeOps)
      BY SafeNames, ChangesIn
    <3> DEFINE q == ForEach("add", Adds(new, old)) \o ForEach("retype", Updates(new, old))
    <3>3. q \in Plans(Ops)
      BY <3>2, ThenIn, MoreOps
    <3>4. MSSQLMigrate(new, old) = q \o EnsureTVP(new)
      BY <3>1 DEF MSSQLAutoMigrate
    <3> QED BY <3>3, <3>4
  <2>2. CASE ~(old # NoTable /\ MSSQLCan(new, old))
    <3>1. MSSQLMigrate(new, old) \in {Create \o EnsureTVP(new), Recreate \o EnsureTVP(new)}
      BY <2>2 DEF MSSQLMigrate
    <3> QED BY <3>1, CreateIn, MoreOps
  <2> QED BY <2>1, <2>2
<1>3. x \in T /\ y \in T
  BY DEF Stmt, Ops, SafeOps, ColumnNames
<1> HIDE DEF x, y
<1>4. q \in Seq(T)
  BY <1>2 DEF Plans
<1> HIDE DEF T
<1>5. <<x, y>> \in Seq(T) /\ Len(<<x, y>>) = 2 /\ <<x, y>>[2] = y
  BY <1>3
<1> DEFINE v == <<x, y>>
<1> HIDE DEF v
<1>6. v \in Seq(T) /\ Len(v) = 2 /\ v[2] = y
  BY <1>5 DEF v
<1>7. /\ Len(q) \in Nat /\ Len(q \o v) = Len(q) + 2
      /\ \A i \in 1..(Len(q) + 2) : (q \o v)[i] = IF i <= Len(q) THEN q[i] ELSE v[i - Len(q)]
  <2>1. v \in Seq(T) /\ Len(v) = 2
    BY <1>6
  <2>2. /\ Len(q \o v) = Len(q) + Len(v)
        /\ \A i \in 1..(Len(q) + Len(v)) : (q \o v)[i] = IF i <= Len(q) THEN q[i] ELSE v[i - Len(q)]
    BY <1>4, <2>1, ConcatProperties
  <2>3. Len(q) \in Nat
    BY <1>4, LenProperties
  <2> QED BY <2>1, <2>2, <2>3
<1>8. (q \o v)[Len(q) + 2] = v[2]
  BY <1>7
<1>9. EndsWithProc(q \o v)
  BY <1>1, <1>6, <1>7, <1>8 DEF EndsWithProc
<1> QED BY <1>1, <1>2, <1>9 DEF v

LEMMA StandsStart ==
  ASSUME NEW d \in Known, NEW new, Suited(d, new), IsTable(new), NEW table,
         NEW old, IsTable(old), Suited(d, old), old = table \/ (d = "sqlite" /\ old = NoTable),
         NEW columns, NEW inForce \in BOOLEAN, ~(~inForce /\ Refuses(d, new, old)), NEW halted
  PROVE  Stands(d, new, old, table, Statements(d, new, old), columns, inForce, halted)
<1> DEFINE p == Statements(d, new, old)
<1>1. CASE new = NoTable
  <2>1. p = << >>
    BY <1>1, Zenon DEF Statements
  <2>2. PlanBasics(d, new, p)
    BY <2>1, BasicsNothing
  <2>3. PlanStands(d, new, old, table, p, inForce, halted)
    BY <1>1, <2>1 DEF PlanStands
  <2>4. ProcStands(d, new, old, p, columns, halted)
    BY <2>1 DEF ProcStands
  <2> QED BY <2>2, <2>3, <2>4 DEF Stands
<1>2. CASE new # NoTable
  <2>1. PlanBasics(d, new, p) /\ (PassedBy(d, new, old) \/ Progress(d, new, old, p, FALSE))
    BY <1>2, StatementsFit DEF StartFits
  <2>2. Progress(d, new, old, p, FALSE) => Progress(d, new, old, p, halted)
    BY DEF Progress
  <2>3. PlanStands(d, new, old, table, p, inForce, halted)
    BY <2>1, <2>2 DEF PlanStands
  <2>4. ProcStands(d, new, old, p, columns, halted)
    <3>1. SUFFICES ASSUME d = "mssql", Keys(new) # {}, p # << >> PROVE EndsWithProc(p)
      BY DEF ProcStands
    <3>2. d \notin Postgres
      BY <3>1 DEF Postgres
    <3>3. p = MSSQLMigrate(new, old)
      BY <1>2, <3>1, <3>2, Zenon DEF Statements
    <3> QED BY <3>1, <3>3, MSSQLEnds
  <2> QED BY <2>1, <2>3, <2>4 DEF Stands
<1> QED BY <1>1, <1>2

-----------------------------------------------------------------------------
(* A table at the end of a call. *)

LEMMA KeysOfUnchanged ==
  ASSUME NEW new, NEW table, Columned(new), Columned(table), PlainAddsAndRemoves(new, table), Updates(new, table) = {}
  PROVE  Keys(new) = Keys(table)
<1>1. \A c \in DOMAIN new : c \in DOMAIN table => new[c].pk = table[c].pk
  BY DEF Updates
<1> QED BY <1>1, KeysAgree

LEMMA NothingRemains ==
  ASSUME NEW d \in Known, NEW new, NEW table, CanChange(d, new, table), Remains(d, new, table, << >>)
  PROVE  /\ Adds(new, table) = {}
         /\ d \notin {"snowflake", "bigquery"} => Updates(new, table) = {}
         /\ d = "snowflake" => ~AddsKey(new, table)
         /\ d = "bigquery" => BigQueryCanMerge(new, table)
<1>0. d \in Destination /\ \A op, c : ~Has(<< >>, op, c)
  BY KnownAre, HasNothing
<1>1. Adds(new, table) = {}
  BY <1>0 DEF Remains
<1>2. d = "snowflake" => ~AddsKey(new, table)
  BY <1>0 DEF Remains
<1>3. d = "bigquery" => BigQueryCanMerge(new, table)
  BY <1>0 DEF Remains
<1>4. ASSUME d \notin {"snowflake", "bigquery"} PROVE Updates(new, table) = {}
  <2>1. CASE d = "postgresql"
    <3>1. ~MovesToCqID(new, table)
      BY <1>0, <2>1 DEF Remains
    <3> QED BY <2>1, <3>1, CanIs DEF PostgresCan
  <2>2. CASE d = "cockroachdb"
    <3>1. ~MovesToCqID(new, table)
      BY <1>0, <2>2 DEF Remains
    <3> QED BY <1>0, <2>2, <3>1 DEF Remains
  <2>3. CASE d = "duckdb"
    BY <2>3, CanIs DEF DuckDBCan
  <2>4. CASE d = "sqlite"
    BY <2>4, CanIs DEF SQLiteCan
  <2>5. CASE d = "mysql"
    BY <2>5, CanIs DEF MySQLCan
  <2>6. CASE d = "mssql"
    BY <1>0, <2>6 DEF Remains
  <2>7. CASE d = "clickhouse"
    BY <2>7, CanIs DEF ClickHouseForces, ClickHouseKeeps
  <2> QED BY <1>0, <1>4, <2>1, <2>2, <2>3, <2>4, <2>5, <2>6, <2>7 DEF Destination
<1> QED BY <1>1, <1>2, <1>3, <1>4

FitsAll(new, table) ==
  /\ \A c \in DOMAIN new : c \in DOMAIN table /\ table[c].type = new[c].type
  /\ Keys(table) = Keys(new)

LEMMA FinishedFits ==
  ASSUME NEW d \in Known, NEW new, Suited(d, new), NEW table, Suited(d, table),
         Altering(d, new, table, << >>), Remains(d, new, table, << >>)
  PROVE  FitsAll(new, table)
<1>0. /\ Columned(new) /\ Columned(table) /\ CanChange(d, new, table) /\ ~PassedBy(d, new, table)
      /\ d \in Destination
  BY KnownAre DEF Suited, Altering
<1>1. /\ Adds(new, table) = {}
      /\ d \notin {"snowflake", "bigquery"} => Updates(new, table) = {}
      /\ d = "snowflake" => ~AddsKey(new, table)
      /\ d = "bigquery" => BigQueryCanMerge(new, table)
  BY <1>0, NothingRemains
<1>2. \A c \in DOMAIN new : c \in DOMAIN table
  BY <1>1 DEF Adds
<1>3. CASE d \notin {"snowflake", "bigquery"}
  <2>1. \A c \in DOMAIN new : table[c].type = new[c].type
    BY <1>1, <1>2, <1>3 DEF Updates
  <2>2. Keys(table) = Keys(new)
    <3>1. CASE d = "clickhouse"
      BY <3>1 DEF Suited, Keys
    <3>2. CASE d # "clickhouse"
      BY <1>0, <1>1, <1>3, <3>2, CanPlain, KeysOfUnchanged
    <3> QED BY <3>1, <3>2
  <2> QED BY <1>2, <2>1, <2>2 DEF FitsAll
<1>4. CASE d = "bigquery"
  <2>1. \A c \in DOMAIN new : table[c].type = new[c].type
    BY <1>1, <1>2, <1>4 DEF BigQueryCanMerge
  <2>2. Keys(table) = Keys(new)
    BY <1>4 DEF Suited, Keys
  <2> QED BY <1>2, <2>1, <2>2 DEF FitsAll
<1>5. CASE d = "snowflake"
  <2>1. SnowflakeFits(new, table)
    BY <1>0, <1>5, SnowflakeMeans
  <2>2. Keys(new) \subseteq Keys(table)
    BY <1>0, <1>1, <1>5, AddsKeyMeans
  <2>3. \A c \in DOMAIN new : table[c].type = new[c].type
    BY <1>2, <2>1 DEF SnowflakeFits
  <2>4. Keys(table) \subseteq Keys(new)
    BY <2>1 DEF SnowflakeFits, Keys
  <2> QED BY <1>2, <2>2, <2>3, <2>4 DEF FitsAll
<1> QED BY <1>3, <1>4, <1>5

LEMMA RefusesIs ==
  ASSUME NEW d \in Known, NEW new, NEW table
  PROVE  /\ d \in Postgres => (Refuses(d, new, table) <=> PostgresRefuses(new, table))
         /\ d = "duckdb" => (Refuses(d, new, table) <=> DuckDBRefuses(new, table))
         /\ d = "sqlite" => (Refuses(d, new, table) <=> SQLiteRefuses(new, table))
         /\ d = "mysql" => (Refuses(d, new, table) <=> MySQLRefuses(new, table))
         /\ d = "mssql" => (Refuses(d, new, table) <=> MSSQLRefuses(new, table))
         /\ d = "snowflake" => (Refuses(d, new, table) <=> SnowflakeRefuses(new, table))
         /\ d = "clickhouse" => (Refuses(d, new, table) <=> ClickHouseRefuses(new, table))
         /\ d = "bigquery" => ~Refuses(d, new, table)
<1>1. CASE d \in Postgres
  <2>1. d \notin {"duckdb", "sqlite", "mysql", "mssql", "snowflake", "clickhouse", "bigquery"}
    BY <1>1 DEF Postgres
  <2>2. Refuses(d, new, table) <=> PostgresRefuses(new, table)
    BY <1>1, <2>1, Zenon DEF Refuses
  <2> QED BY <1>1, <2>1, <2>2
<1>2. CASE d \notin Postgres
  <2>1. /\ d = "duckdb" => (Refuses(d, new, table) <=> DuckDBRefuses(new, table))
        /\ d = "sqlite" => (Refuses(d, new, table) <=> SQLiteRefuses(new, table))
        /\ d = "mysql" => (Refuses(d, new, table) <=> MySQLRefuses(new, table))
        /\ d = "mssql" => (Refuses(d, new, table) <=> MSSQLRefuses(new, table))
    BY <1>2, Zenon DEF Refuses
  <2>2. /\ d = "snowflake" => (Refuses(d, new, table) <=> SnowflakeRefuses(new, table))
        /\ d = "clickhouse" => (Refuses(d, new, table) <=> ClickHouseRefuses(new, table))
        /\ d = "bigquery" => ~Refuses(d, new, table)
    BY <1>2, Zenon DEF Refuses
  <2> QED BY <1>2, <2>1, <2>2
<1> QED BY <1>1, <1>2

LEMMA NoTableNotRefused ==
  ASSUME NEW d \in Known, NEW new
  PROVE  ~Refuses(d, new, NoTable)
BY RefusesIs, KnownAre DEF Destination, Postgres, PostgresRefuses, DuckDBRefuses, SQLiteRefuses, MySQLRefuses,
   MSSQLRefuses, SnowflakeRefuses, ClickHouseRefuses

LEMMA FitIsNotRefused ==
  ASSUME NEW d \in Known, NEW new, NEW table, CanChange(d, new, table),
         d = "cockroachdb" => PostgresCan(new, table)
  PROVE  ~Refuses(d, new, table)
<1>0. d \in Destination
  BY KnownAre
<1>1. d \in {"postgresql", "cockroachdb"} => ~Refuses(d, new, table)
  BY RefusesIs, CanIs DEF Postgres, PostgresRefuses
<1>2. d = "duckdb" => ~Refuses(d, new, table)
  BY RefusesIs, CanIs DEF DuckDBRefuses
<1>3. d = "sqlite" => ~Refuses(d, new, table)
  BY RefusesIs, CanIs, EitherWay DEF SQLiteRefuses
<1>4. d = "mysql" => ~Refuses(d, new, table)
  BY RefusesIs, CanIs, EitherWay DEF MySQLRefuses
<1>5. d = "mssql" => ~Refuses(d, new, table)
  BY RefusesIs, CanIs DEF MSSQLRefuses
<1>6. d = "snowflake" => ~Refuses(d, new, table)
  BY RefusesIs, CanIs DEF SnowflakeRefuses
<1>7. d = "clickhouse" => ~Refuses(d, new, table)
  BY RefusesIs, CanIs DEF ClickHouseRefuses
<1>8. d = "bigquery" => ~Refuses(d, new, table)
  BY RefusesIs
<1> QED BY <1>0, <1>1, <1>2, <1>3, <1>4, <1>5, <1>6, <1>7, <1>8 DEF Destination

LEMMA NotRemaking ==
  ASSUME NEW d, NEW table
  PROVE  ~Remaking(d, table, << >>)
<1>1. Recreate # << >> /\ Create # << >>
  BY DEF Recreate, Create
<1> QED BY <1>1 DEF Remaking

\* What is asked of a table at the end of a call.
EndFits(d, new, old, table, columns) ==
  \/ PassedBy(d, new, old)
  \/ d = "sqlite" /\ old = NoTable
  \/ /\ \A c \in DOMAIN new : c \in DOMAIN table /\ table[c].type = new[c].type
     /\ DOMAIN new # {} => Keys(table) = Keys(new)
     /\ d = "mssql" /\ Keys(new) # {} => columns = DOMAIN new \/ Statements(d, new, old) = << >>

LEMMA StandsFits ==
  ASSUME NEW d \in Known, NEW new, Suited(d, new), NEW old, NEW table, Suited(d, table),
         NEW columns, NEW inForce, NEW halted, ~halted, Stands(d, new, old, table, << >>, columns, inForce, halted)
  PROVE  EndFits(d, new, old, table, columns)
<1>1. PlanStands(d, new, old, table, << >>, inForce, halted) /\ ProcStands(d, new, old, << >>, columns, halted)
  BY DEF Stands
<1>2. d = "mssql" /\ Keys(new) # {} => columns = DOMAIN new \/ Statements(d, new, old) = << >>
  BY <1>1 DEF ProcStands
<1>3. CASE new = NoTable
  <2>1. DOMAIN new = {}
    BY <1>3 DEF NoTable
  <2> QED BY <1>2, <2>1 DEF EndFits
<1>4. CASE Progress(d, new, table, << >>, halted)
  <2>1. Altering(d, new, table, << >>) /\ Remains(d, new, table, << >>)
    BY <1>4, NotRemaking DEF Progress
  <2>2. FitsAll(new, table)
    BY <2>1, FinishedFits
  <2> QED BY <1>2, <2>2 DEF FitsAll, EndFits
<1> QED BY <1>1, <1>3, <1>4 DEF PlanStands, EndFits

\* And one in safe mode, failed or not, can be asked for again.
LEMMA StandsNotRefused ==
  ASSUME NEW d \in Known, NEW new, Suited(d, new), NEW old, NEW table, Suited(d, table),
         NEW columns, NEW inForce, ~inForce, NEW halted, Stands(d, new, old, table, << >>, columns, inForce, halted)
  PROVE  \/ PassedBy(d, new, old)
         \/ d = "sqlite" /\ old = NoTable
         \/ d = "cockroachdb" /\ halted
         \/ ~Refuses(d, new, table)
<1>1. PlanStands(d, new, old, table, << >>, inForce, halted)
  BY DEF Stands
<1>2. CASE table = NoTable
  BY <1>2, NoTableNotRefused
<1>3. CASE Progress(d, new, table, << >>, halted) /\ ~(d = "cockroachdb" /\ halted)
  <2>1. CanChange(d, new, table)
    BY <1>3, NotRemaking DEF Progress, Altering
  <2>2. ASSUME d = "cockroachdb" PROVE PostgresCan(new, table)
    <3>1. Remains(d, new, table, << >>)
      BY <1>3, <2>2, NotRemaking DEF Progress
    <3>2. Updates(new, table) = {}
      BY <2>1, <2>2, <3>1, NothingRemains
    <3>3. PlainAddsAndRemoves(new, table)
      BY <2>1, <2>2, CanPlain
    <3> QED BY <3>2, <3>3 DEF PostgresCan
  <2> QED BY <2>1, <2>2, FitIsNotRefused
<1> QED BY <1>1, <1>2, <1>3 DEF PlanStands

-----------------------------------------------------------------------------
(* The invariant of Migrations, of all tables. *)

FitInv ==
  /\ dest \in Destinations /\ DOMAIN proc = Names
  /\ force \in BOOLEAN /\ failed \in BOOLEAN /\ phase \in {"idle", "list", "migrate"}
  /\ \A t \in Names : Suited(dest, have[t])
  /\ \A t \in Names : want[t] \in Requests[t] \cup {NoTable}
  /\ \A t \in Names : seen[t] # NoTable => phase = "migrate"
  /\ \A t \in Names : proc[t] # {} => dest = "mssql"
  /\ phase = "migrate" => \A t \in Names :
       Stands(dest, NormalTable(dest, want[t]), seen[t], have[t], todo[t], proc[t], force, failed)

LEMMA NoTableSuits ==
  ASSUME NEW d
  PROVE  Suited(d, NoTable)
BY DEF Suited, Columned, NoTable

LEMMA RequestSuits ==
  ASSUME NEW d \in Known, NEW t \in Names, NEW w \in Requests[t] \cup {NoTable}
  PROVE  Suited(d, NormalTable(d, w)) /\ (d \in Postgres => KeyNotNull(NormalTable(d, w)))
<1>1. Columned(w)
  <2>1. CASE w = NoTable
    BY <2>1 DEF Columned, NoTable
  <2>2. CASE w \in Requests[t]
    <3>1. \A c \in DOMAIN w : w[c] \in [type : STRING, pk : BOOLEAN, notNull : BOOLEAN, unique : BOOLEAN]
      BY <2>2, MigrationsAssumption DEF Names
    <3> QED BY <3>1 DEF Columned, TableColumns
  <2> QED BY <2>1, <2>2
<1> QED BY <1>1, NormalSuits

LEMMA FitInit == MigrateInit => FitInv
<1> SUFFICES ASSUME MigrateInit PROVE FitInv
  OBVIOUS
<1>1. /\ dest \in Destinations /\ phase = "idle" /\ force = FALSE /\ failed = FALSE
      /\ have = [t \in Names |-> NoTable] /\ want = [t \in Names |-> NoTable]
      /\ seen = [t \in Names |-> NoTable] /\ proc = [t \in Names |-> {}]
  BY DEF MigrateInit, Empty
<1>2. Suited(dest, NoTable)
  BY NoTableSuits
<1> QED BY <1>1, <1>2 DEF FitInv

LEMMA ReturnFits ==
  ASSUME FitInv, Return
  PROVE  FitInv'
<1>1. /\ dest' = dest /\ have' = have /\ proc' = proc /\ phase' = "idle" /\ force' = FALSE /\ failed' = FALSE
      /\ want' = [t \in Names |-> NoTable] /\ seen' = [t \in Names |-> NoTable]
  BY DEF Return, Empty
<1>2. (\A t \in Names : Suited(dest, have[t]))' /\ (\A t \in Names : proc[t] # {} => dest = "mssql")'
  BY <1>1 DEF FitInv
<1>3. (\A t \in Names : want[t] \in Requests[t] \cup {NoTable})' /\ (\A t \in Names : seen[t] # NoTable => phase = "migrate")'
  BY <1>1
<1> QED BY <1>1, <1>2, <1>3 DEF FitInv

LEMMA RequestFits ==
  ASSUME FitInv, Request
  PROVE  FitInv'
<1>1. /\ dest' = dest /\ have' = have /\ proc' = proc /\ seen' = seen /\ phase = "idle" /\ phase' = "list"
      /\ force' \in BOOLEAN /\ failed' = failed /\ \A t \in Names : want'[t] \in Requests[t]
  BY DEF Request
<1>2. (\A t \in Names : Suited(dest, have[t]))' /\ (\A t \in Names : proc[t] # {} => dest = "mssql")'
  BY <1>1 DEF FitInv
<1>3. (\A t \in Names : want[t] \in Requests[t] \cup {NoTable})' /\ (\A t \in Names : seen[t] # NoTable => phase = "migrate")'
  BY <1>1 DEF FitInv
<1> QED BY <1>1, <1>2, <1>3 DEF FitInv

LEMMA StartsFit ==
  ASSUME MigrateInv, FitInv, Start
  PROVE  FitInv'
<1>1. /\ dest' = dest /\ have' = have /\ proc' = proc /\ want' = want /\ force' = force /\ failed' = failed
      /\ phase' = "migrate" /\ seen' \in Listings
      /\ todo' = [t \in Names |-> Statements(dest, Wanted(t), seen'[t])]
      /\ \A t \in Names : ~Refused(t, seen'[t])
  BY DEF Start
<1>2. (\A t \in Names : Suited(dest, have[t]))' /\ (\A t \in Names : proc[t] # {} => dest = "mssql")'
  BY <1>1 DEF FitInv
<1>3. (\A t \in Names : want[t] \in Requests[t] \cup {NoTable})' /\ (\A t \in Names : seen[t] # NoTable => phase = "migrate")'
  BY <1>1 DEF FitInv
<1>4. ASSUME NEW t \in Names
      PROVE  Stands(dest, NormalTable(dest, want[t]), seen'[t], have[t], todo'[t], proc[t], force, failed)
  <2> DEFINE new == NormalTable(dest, want[t])
             old == seen'[t]
             p == todo'[t]
  <2>1. Wanted(t) = new /\ p = Statements(dest, new, old)
    BY <1>1 DEF Wanted
  <2>2. dest \in Known /\ IsTable(new) /\ IsTable(old) /\ force \in BOOLEAN
    <3>1. IsTable(Wanted(t)) /\ dest \in Known
      BY WantedIsTable DEF MigrateInv, TablesInv
    <3>2. IsWhole(old)
      BY <1>1, ListingsWhole DEF MigrateInv
    <3> QED BY <2>1, <3>1, <3>2 DEF IsWhole, FitInv
  <2>3. Suited(dest, new) /\ Suited(dest, have[t])
    BY <2>2, RequestSuits DEF FitInv
  <2>4. old = have[t] \/ (dest = "sqlite" /\ old = NoTable)
    BY <1>1 DEF Listings, SQLiteListings, MigrateInv, TablesInv
  <2>5. Suited(dest, old)
    BY <2>3, <2>4, NoTableSuits
  <2>6. ~(~force /\ Refuses(dest, new, old))
    BY <1>1, <2>1 DEF Refused
  <2> HIDE DEF new, old, p
  <2>7. Stands(dest, new, old, have[t], Statements(dest, new, old), proc[t], force, failed)
    BY <2>2, <2>3, <2>4, <2>5, <2>6, StandsStart
  <2>8. Stands(dest, new, old, have[t], p, proc[t], force, failed)
    BY <2>1, <2>7
  <2> QED BY <2>8 DEF new, old, p
<1>5. (\A t \in Names : Stands(dest, NormalTable(dest, want[t]), seen[t], have[t], todo[t], proc[t], force, failed))'
  BY <1>1, <1>4
<1> QED BY <1>1, <1>2, <1>3, <1>5 DEF FitInv

LEMMA ExecuteFits ==
  ASSUME MigrateInv, FitInv, NEW t \in Names, Execute(t)
  PROVE  FitInv'
<1> DEFINE new == NormalTable(dest, want[t])
           p == todo[t]
           E == Effect(dest, Head(p), have[t], new)
           renewed == ProcEffect(Head(p), proc[t], new)
<1>0. Wanted(t) = new
  BY DEF Wanted
<1>1. /\ dest' = dest /\ want' = want /\ force' = force /\ seen' = seen /\ phase' = phase /\ failed' = failed
      /\ p # << >> /\ Possible(Head(p), have[t], new)
      /\ have' = [have EXCEPT ![t] = E] /\ proc' = [proc EXCEPT ![t] = renewed]
      /\ todo' = [todo EXCEPT ![t] = Tail(p)]
  BY <1>0 DEF Execute, Turn
<1>2. /\ dest \in Known /\ IsFcn(have[t]) /\ p \in Plans(Ops) /\ phase = "migrate"
      /\ DOMAIN have = Names /\ DOMAIN todo = Names /\ DOMAIN proc = Names
  BY <1>1 DEF MigrateInv, TablesInv, PlansInv, IsWhole, IsFcn, FitInv
<1>3. /\ Suited(dest, have[t]) /\ (proc[t] # {} => dest = "mssql")
      /\ \A u \in Names : Stands(dest, NormalTable(dest, want[u]), seen[u], have[u], todo[u], proc[u], force, failed)
  BY <1>2 DEF FitInv
<1>4. Suited(dest, new) /\ (dest \in Postgres => KeyNotNull(new))
  BY <1>2, RequestSuits DEF FitInv
<1>5. Stands(dest, new, seen[t], have[t], p, proc[t], force, failed)
  BY <1>3
<1> HIDE DEF new, p
<1>6. /\ Stands(dest, new, seen[t], E, Tail(p), renewed, force, failed) /\ Suited(dest, E)
      /\ renewed # {} => dest = "mssql"
  <2>1. E = Effect(dest, Head(p), have[t], new) /\ renewed = ProcEffect(Head(p), proc[t], new)
    OBVIOUS
  <2> HIDE DEF E, renewed
  <2>2. ExecuteStands(dest, new, seen[t], E, Tail(p), proc[t], renewed, force, failed)
    BY <1>1, <1>2, <1>3, <1>4, <1>5, <2>1, StandsExecute
  <2> QED BY <1>3, <2>2 DEF ExecuteStands
<1> HIDE DEF E, renewed
<1>7. \A u \in Names : Suited(dest, have'[u]) /\ (proc'[u] # {} => dest = "mssql")
  BY <1>1, <1>2, <1>6 DEF FitInv
<1>8. ASSUME NEW u \in Names
      PROVE  Stands(dest, NormalTable(dest, want[u]), seen[u], have'[u], todo'[u], proc'[u], force, failed)
  <2>1. CASE u = t
    <3>1. have'[t] = E /\ todo'[t] = Tail(p) /\ proc'[t] = renewed
      BY <1>1, <1>2
    <3> QED BY <1>6, <2>1, <3>1 DEF new
  <2>2. CASE u # t
    <3>1. have'[u] = have[u] /\ todo'[u] = todo[u] /\ proc'[u] = proc[u]
      BY <1>1, <1>2, <2>2
    <3> QED BY <1>3, <3>1
  <2> QED BY <2>1, <2>2
<1>9. (\A u \in Names : Stands(dest, NormalTable(dest, want[u]), seen[u], have[u], todo[u], proc[u], force, failed))'
  BY <1>1, <1>8
<1>10. (\A u \in Names : Suited(dest, have[u]))' /\ (\A u \in Names : proc[u] # {} => dest = "mssql")'
  BY <1>1, <1>7
<1>11. (\A u \in Names : want[u] \in Requests[u] \cup {NoTable})' /\ (\A u \in Names : seen[u] # NoTable => phase = "migrate")'
  BY <1>1 DEF FitInv
<1>12. DOMAIN proc' = Names
  BY <1>1, <1>2
<1> QED BY <1>1, <1>2, <1>9, <1>10, <1>11, <1>12 DEF FitInv

LEMMA FailFits ==
  ASSUME MigrateInv, FitInv, NEW t \in Names, Fail(t)
  PROVE  FitInv'
<1>1. /\ dest' = dest /\ have' = have /\ proc' = proc /\ want' = want /\ force' = force /\ seen' = seen
      /\ phase' = phase /\ failed' = TRUE /\ todo[t] # << >>
      /\ todo' \in {[todo EXCEPT ![t] = << >>], [u \in Names |-> << >>]}
  BY DEF Fail, Turn
<1>2. /\ phase = "migrate" /\ todo \in [Names -> Plans(Ops)] /\ (~force => todo \in [Names -> Plans(SafeOps)])
      /\ force \in BOOLEAN
  BY <1>1 DEF MigrateInv, PlansInv, FitInv
<1>3. ASSUME NEW u \in Names
      PROVE  Stands(dest, NormalTable(dest, want[u]), seen[u], have[u], todo'[u], proc[u], force, TRUE)
  <2>1. Stands(dest, NormalTable(dest, want[u]), seen[u], have[u], todo[u], proc[u], force, failed)
    BY <1>2 DEF FitInv
  <2>2. todo[u] \in Plans(Ops) /\ (~force => todo[u] \in Plans(SafeOps))
    BY <1>2
  <2>3. todo'[u] \in {todo[u], << >>}
    BY <1>1, <1>2
  <2> QED BY <1>2, <2>1, <2>2, <2>3, StandsFail
<1>4. (\A u \in Names : Stands(dest, NormalTable(dest, want[u]), seen[u], have[u], todo[u], proc[u], force, failed))'
  BY <1>1, <1>3
<1>5. (\A u \in Names : Suited(dest, have[u]))' /\ (\A u \in Names : proc[u] # {} => dest = "mssql")'
  BY <1>1 DEF FitInv
<1>6. (\A u \in Names : want[u] \in Requests[u] \cup {NoTable})' /\ (\A u \in Names : seen[u] # NoTable => phase = "migrate")'
  BY <1>1 DEF FitInv
<1> QED BY <1>1, <1>2, <1>4, <1>5, <1>6 DEF FitInv

LEMMA FitStep == MigrateInv /\ FitInv /\ [MigrateNext]_migrateVars => FitInv'
<1> SUFFICES ASSUME MigrateInv, FitInv, [MigrateNext]_migrateVars PROVE FitInv'
  OBVIOUS
<1>1. CASE ListFails
  BY <1>1, ReturnFits DEF ListFails
<1>2. CASE Refuse
  BY <1>2, ReturnFits DEF Refuse
<1>3. CASE Finish
  BY <1>3, ReturnFits DEF Finish
<1>4. CASE UNCHANGED migrateVars
  <2>1. /\ dest' = dest /\ have' = have /\ proc' = proc /\ want' = want /\ force' = force /\ seen' = seen
        /\ todo' = todo /\ phase' = phase /\ failed' = failed
    BY <1>4 DEF migrateVars
  <2> QED BY <2>1 DEF FitInv
<1> QED BY <1>1, <1>2, <1>3, <1>4, RequestFits, StartsFit, ExecuteFits, FailFits DEF MigrateNext

LEMMA FitMeans ==
  ASSUME MigrateInv, FitInv, Done, NEW t \in Names
  PROVE  /\ Stands(dest, Wanted(t), seen[t], have[t], << >>, proc[t], force, failed)
         /\ dest \in Known /\ Suited(dest, Wanted(t)) /\ Suited(dest, have[t])
         /\ PassedOver(t) <=> PassedBy(dest, Wanted(t), seen[t])
<1>1. dest \in Known /\ phase = "migrate" /\ todo[t] = << >> /\ Wanted(t) = NormalTable(dest, want[t])
  BY DEF MigrateInv, TablesInv, Done, Wanted
<1>2. Stands(dest, Wanted(t), seen[t], have[t], << >>, proc[t], force, failed)
  BY <1>1 DEF FitInv
<1>3. Suited(dest, Wanted(t)) /\ Suited(dest, have[t])
  BY <1>1, RequestSuits DEF FitInv
<1>4. PassedOver(t) <=> PassedBy(dest, Wanted(t), seen[t])
  BY DEF PassedOver, PassedBy, Postgres
<1> QED BY <1>1, <1>2, <1>3, <1>4

LEMMA FitTables == MigrateInv /\ FitInv => TableFits
<1> SUFFICES ASSUME MigrateInv, FitInv, Done, ~failed, NEW t \in Names
             PROVE  (TypesFit(t) /\ KeyFits(t) /\ ProcFits(t)) \/ PassedOver(t) \/ Misread(t)
  BY DEF TableFits
<1>1. /\ Stands(dest, Wanted(t), seen[t], have[t], << >>, proc[t], force, failed)
      /\ dest \in Known /\ Suited(dest, Wanted(t)) /\ Suited(dest, have[t])
      /\ PassedOver(t) <=> PassedBy(dest, Wanted(t), seen[t])
  BY FitMeans
<1>2. EndFits(dest, Wanted(t), seen[t], have[t], proc[t])
  BY <1>1, StandsFits
<1> QED BY <1>1, <1>2 DEF EndFits, TypesFit, KeyFits, ProcFits, Misread

LEMMA FitNotRefused == MigrateInv /\ FitInv => NotRefusedLater
<1> SUFFICES ASSUME MigrateInv, FitInv, Done, NEW t \in Names, Refused(t, have[t])
             PROVE  PassedOver(t) \/ Misread(t) \/ (dest = "cockroachdb" /\ failed)
  BY DEF NotRefusedLater
<1>1. /\ Stands(dest, Wanted(t), seen[t], have[t], << >>, proc[t], force, failed)
      /\ dest \in Known /\ Suited(dest, Wanted(t)) /\ Suited(dest, have[t])
      /\ PassedOver(t) <=> PassedBy(dest, Wanted(t), seen[t])
  BY FitMeans
<1>2. ~force /\ Refuses(dest, Wanted(t), have[t])
  BY DEF Refused
<1>3. \/ PassedBy(dest, Wanted(t), seen[t])
      \/ dest = "sqlite" /\ seen[t] = NoTable
      \/ dest = "cockroachdb" /\ failed
  BY <1>1, <1>2, StandsNotRefused
<1> QED BY <1>1, <1>3 DEF Misread

LEMMA FitTypes == MigrateInv /\ FitInv => MigrateTypeOK
<1> SUFFICES ASSUME MigrateInv, FitInv PROVE MigrateTypeOK
  OBVIOUS
<1>1. ASSUME NEW t \in Names, NEW c \in DOMAIN have[t]
      PROVE  {have[t][c].pk, have[t][c].notNull, have[t][c].unique} \subseteq BOOLEAN
  <2>1. Columned(have[t])
    BY DEF FitInv, Suited
  <2> QED BY <2>1, TableFields
<1>2. \A t \in Names : todo[t] # << >> => phase = "migrate"
  BY DEF MigrateInv, PlansInv
<1> QED BY <1>1, <1>2 DEF FitInv, MigrateTypeOK

\* Between the check and the end of a call every table is one that the rest
\* of its plan makes fit, or one that the call leaves as it is for a reason
\* that is known.
THEOREM FitInvariant == MigrateSpec => [](MigrateInv /\ FitInv)
<1>1. MigrateInit => FitInv
  BY FitInit
<1> QED BY <1>1, MigrateInvariant, FitStep, PTL DEF MigrateSpec

\* A call that has succeeded leaves the wanted columns, types and keys, and
\* the procedure of mssql: for all dialects, whatever the tables were before
\* and whatever statements of earlier calls have failed.
THEOREM MigratedTablesFit == MigrateSpec => []TableFits
BY FitInvariant, FitTables, PTL

\* A call in safe mode that was let through, and has done its statements or
\* broken off between any two, is let through when it is asked for again.
THEOREM NeverRefusedLater == MigrateSpec => []NotRefusedLater
BY FitInvariant, FitNotRefused, PTL

\* The types of the columns, requests and plans.
THEOREM MigrationsAreTyped == MigrateSpec => []MigrateTypeOK
BY FitInvariant, FitTypes, PTL

-----------------------------------------------------------------------------
(* The invariant of indexes. *)

KeepingOps == {"begin", "create", "configure", "filter", "sort", "createUnique", "createMissing", "list", "put"}
IndexOps   == KeepingOps \cup {"delete", "createAgain"}

TaskLists(ops) == Seq({Task(op, t) : op \in ops, t \in CollectionNames})

IsIndex(i) == i = [key |-> i.key, filter |-> i.filter, sort |-> i.sort, there |-> i.there]

IndexesInv == DOMAIN index = CollectionNames /\ \A t \in CollectionNames : IsIndex(index[t])

\* What a call has yet to do; nothing of it drops an index in safe mode.
TasksInv == tasks \in TaskLists(IndexOps) /\ (~forced => tasks \in TaskLists(KeepingOps))

IndexInv == engine \in Engines /\ IndexesInv /\ TasksInv

-----------------------------------------------------------------------------
(* Lists of tasks. *)

LEMMA TaskListOf ==
  ASSUME NEW ops, NEW op \in ops, NEW t \in CollectionNames
  PROVE  <<Task(op, t)>> \in TaskLists(ops)
<1> DEFINE S == {Task(o, u) : o \in ops, u \in CollectionNames}
<1>1. Task(op, t) \in S
  OBVIOUS
<1> HIDE DEF S
<1>2. <<Task(op, t)>> \in Seq(S)
  BY <1>1
<1> QED BY <1>2 DEF TaskLists, S

LEMMA NoTasks ==
  ASSUME NEW ops
  PROVE  << >> \in TaskLists(ops)
BY DEF TaskLists

LEMMA TaskListsJoin ==
  ASSUME NEW ops, NEW p \in TaskLists(ops), NEW q \in TaskLists(ops)
  PROVE  p \o q \in TaskLists(ops)
BY ConcatProperties DEF TaskLists

LEMMA MoreTasks ==
  ASSUME NEW p \in TaskLists(KeepingOps)
  PROVE  p \in TaskLists(IndexOps)
<1> DEFINE S == {Task(o, u) : o \in KeepingOps, u \in CollectionNames}
           T == {Task(o, u) : o \in IndexOps, u \in CollectionNames}
<1>1. S \subseteq T
  BY DEF IndexOps
<1>2. p \in Seq(S)
  BY DEF TaskLists
<1> HIDE DEF S, T
<1>3. p \in [1..Len(p) -> T] /\ Len(p) \in Nat
  BY <1>1, <1>2
<1>4. p \in Seq(T)
  BY <1>3
<1> QED BY <1>4 DEF TaskLists, T

\* A task that is sent is of the kinds its list has.
LEMMA SentTask ==
  ASSUME NEW ops, NEW op, NEW t, tasks \in TaskLists(ops), Sending(op, t)
  PROVE  op \in ops /\ t \in CollectionNames /\ Tail(tasks) \in TaskLists(ops)
<1> DEFINE S == {Task(o, u) : o \in ops, u \in CollectionNames}
<1>1. tasks \in Seq(S) /\ tasks # << >> /\ Head(tasks) = Task(op, t)
  BY DEF TaskLists, Sending
<1> HIDE DEF S
<1>2. Head(tasks) \in S /\ Tail(tasks) \in Seq(S)
  BY <1>1, HeadTailProperties
<1>3. PICK o \in ops, u \in CollectionNames : Task(op, t) = Task(o, u)
  BY <1>1, <1>2 DEF S
<1>4. op = o /\ t = u
  BY <1>3 DEF Task
<1> QED BY <1>2, <1>3, <1>4 DEF TaskLists, S

\* The requests of a loop over tables are of the kinds that those of each
\* table are of.
LEMMA InOrderIn ==
  ASSUME NEW ops, NEW n \in Nat, NEW order \in [1..n -> CollectionNames], NEW tables, NEW requests,
         \A t \in CollectionNames : t \in tables => requests[t] \in TaskLists(ops)
  PROVE  InOrder(order, tables, requests) \in TaskLists(ops)
<1> DEFINE S == {Task(o, u) : o \in ops, u \in CollectionNames}
           s == [i \in DOMAIN order |-> IF order[i] \in tables THEN requests[order[i]] ELSE << >>]
<1>1. \A i \in 1..n : s[i] \in Seq(S)
  BY DEF TaskLists
<1>2. s = [i \in 1..n |-> s[i]]
  OBVIOUS
<1> HIDE DEF S, s
<1>3. FlattenSeq(s) \in Seq(S)
  BY <1>1, <1>2, FlattenIn
<1>4. InOrder(order, tables, requests) = FlattenSeq(s)
  BY DEF InOrder, s
<1> QED BY <1>3, <1>4 DEF TaskLists, S

LEMMA CollectionsFinite == Len(Collections) \in Nat /\ IsFiniteSet(CollectionNames)
<1>1. Len(Collections) \in Nat /\ DOMAIN Collections = 1..Len(Collections)
  BY IndexesAssumption
<1>2. IsFiniteSet(DOMAIN Collections)
  BY <1>1, FS_Interval
<1>3. Collections \in Surjection(DOMAIN Collections, CollectionNames)
  BY IndexesAssumption DEF Surjection, CollectionNames, Range
<1> QED BY <1>1, <1>2, <1>3, FS_Surjection

-----------------------------------------------------------------------------
(* The requests of a call. *)

LEMMA MeilisearchTasksIn ==
  ASSUME NEW order \in SetToSeqs(CollectionNames)
  PROVE  /\ MeilisearchTasks(order) \in TaskLists(IndexOps)
         /\ ToRecreate = {} => MeilisearchTasks(order) \in TaskLists(KeepingOps)
<1> DEFINE thereNow == {t \in CollectionNames : index[t].there}
           p == InOrder(order, CollectionNames \ thereNow, [t \in CollectionNames |-> createIndex(t)])
           q == InOrder(order, thereNow \ ToRecreate, [t \in CollectionNames |-> <<Task("configure", t)>>])
           r == InOrder(order, ToRecreate, [t \in CollectionNames |-> recreateIndex(t)])
<1>1. Cardinality(CollectionNames) \in Nat /\ order \in [1..Cardinality(CollectionNames) -> CollectionNames]
  BY CollectionsFinite, FS_CardinalityType DEF SetToSeqs
<1>2. \A t \in CollectionNames : createIndex(t) \in TaskLists(KeepingOps)
  <2> TAKE t \in CollectionNames
  <2>1. <<Task("create", t)>> \in TaskLists(KeepingOps) /\ <<Task("configure", t)>> \in TaskLists(KeepingOps)
    BY TaskListOf DEF KeepingOps
  <2>2. createIndex(t) = <<Task("create", t)>> \o <<Task("configure", t)>>
    BY DEF createIndex
  <2> QED BY <2>1, <2>2, TaskListsJoin
<1>3. \A t \in CollectionNames : <<Task("configure", t)>> \in TaskLists(KeepingOps)
  BY TaskListOf DEF KeepingOps
<1>4. \A t \in CollectionNames : recreateIndex(t) \in TaskLists(IndexOps)
  <2> TAKE t \in CollectionNames
  <2>1. <<Task("delete", t)>> \in TaskLists(IndexOps)
    BY TaskListOf DEF IndexOps
  <2> QED BY <2>1, <1>2, MoreTasks, TaskListsJoin DEF recreateIndex
<1>5. p \in TaskLists(KeepingOps)
  BY <1>1, <1>2, InOrderIn
<1>6. q \in TaskLists(KeepingOps)
  BY <1>1, <1>3, InOrderIn
<1>7. r \in TaskLists(IndexOps)
  BY <1>1, <1>4, InOrderIn
<1>8. ToRecreate = {} => r \in TaskLists(KeepingOps)
  BY <1>1, InOrderIn
<1>9. MeilisearchTasks(order) = (p \o q) \o r
  BY DEF MeilisearchTasks
<1> HIDE DEF p, q, r
<1>10. p \o q \in TaskLists(KeepingOps)
  BY <1>5, <1>6, TaskListsJoin
<1>11. (p \o q) \o r \in TaskLists(IndexOps)
  BY <1>7, <1>10, MoreTasks, TaskListsJoin
<1>12. ToRecreate = {} => (p \o q) \o r \in TaskLists(KeepingOps)
  BY <1>8, <1>10, TaskListsJoin
<1> QED BY <1>9, <1>11, <1>12

LEMMA TasksForIn ==
  ASSUME NEW t \in CollectionNames, engine \in {"mongodb", "neo4j", "elasticsearch"}
  PROVE  /\ TasksFor(t) \in TaskLists(IndexOps)
         /\ ~forced => TasksFor(t) \in TaskLists(KeepingOps)
<1>1. \A op \in KeepingOps : <<Task(op, t)>> \in TaskLists(KeepingOps)
  BY TaskListOf
<1>2. << >> \in TaskLists(KeepingOps)
  BY NoTasks
<1>3. CASE engine = "mongodb"
  <2>1. TasksFor(t) = getIndexTemplates(t)
    BY <1>3, Zenon DEF TasksFor
  <2>2. getIndexTemplates(t) \in TaskLists(KeepingOps)
    BY <1>1, <1>2 DEF getIndexTemplates, KeepingOps
  <2> QED BY <2>1, <2>2, MoreTasks
<1>4. CASE engine = "neo4j"
  <2>1. TasksFor(t) = createIndexQuery(t)
    BY <1>4, Zenon DEF TasksFor
  <2>2. createIndexQuery(t) \in TaskLists(KeepingOps)
    BY <1>1, <1>2 DEF createIndexQuery, KeepingOps
  <2> QED BY <2>1, <2>2, MoreTasks
<1>5. CASE engine = "elasticsearch"
  <2>1. TasksFor(t) = deleteIndices(t) \o <<Task("put", t)>>
    BY <1>5, Zenon DEF TasksFor, ElasticsearchTasks
  <2>2. <<Task("put", t)>> \in TaskLists(KeepingOps) /\ <<Task("list", t)>> \in TaskLists(KeepingOps)
    BY <1>1 DEF KeepingOps
  <2>3. CASE ~forced
    <3>1. deleteIndices(t) = << >>
      BY <2>3 DEF deleteIndices
    <3> QED BY <1>2, <2>1, <2>2, <3>1, TaskListsJoin, MoreTasks
  <2>4. CASE forced
    <3>1. <<Task("delete", t)>> \in TaskLists(IndexOps)
      BY TaskListOf DEF IndexOps
    <3>2. <<Task("list", t)>> \in TaskLists(IndexOps) /\ << >> \in TaskLists(IndexOps)
      BY <1>2, <2>2, MoreTasks
    <3>3. <<Task("list", t)>> \o <<Task("delete", t)>> \in TaskLists(IndexOps)
          /\ << >> \o <<Task("delete", t)>> \in TaskLists(IndexOps)
      BY <3>1, <3>2, TaskListsJoin
    <3>4. deleteIndices(t) \in {<<Task("list", t)>> \o <<Task("delete", t)>>, << >> \o <<Task("delete", t)>>}
      BY <2>4 DEF deleteIndices
    <3>5. deleteIndices(t) \in TaskLists(IndexOps)
      BY <3>3, <3>4
    <3> QED BY <2>1, <2>2, <2>4, <3>5, MoreTasks, TaskListsJoin
  <2> QED BY <2>3, <2>4
<1> QED BY <1>3, <1>4, <1>5

LEMMA FollowIn ==
  ASSUME NEW op \in IndexOps, NEW t \in CollectionNames
  PROVE  /\ Follow(op, t) \in TaskLists(IndexOps)
         /\ op \in KeepingOps /\ (op = "createUnique" => ~isIndexConflictError(t))
              => Follow(op, t) \in TaskLists(KeepingOps)
<1>1. CASE op = "configure"
  <2>1. Follow(op, t) = IF ConfiguredAlready(t) THEN << >> ELSE <<Task("filter", t), Task("sort", t)>>
    BY <1>1, Zenon DEF Follow
  <2>2. <<Task("filter", t)>> \in TaskLists(KeepingOps) /\ <<Task("sort", t)>> \in TaskLists(KeepingOps)
    BY TaskListOf DEF KeepingOps
  <2>3. <<Task("filter", t)>> \o <<Task("sort", t)>> \in TaskLists(KeepingOps)
    BY <2>2, TaskListsJoin
  <2>4. <<Task("filter", t), Task("sort", t)>> = <<Task("filter", t)>> \o <<Task("sort", t)>>
    OBVIOUS
  <2>5. Follow(op, t) \in TaskLists(KeepingOps)
    BY <2>1, <2>3, <2>4, NoTasks
  <2> QED BY <2>5, MoreTasks
<1>2. CASE op = "createUnique"
  <2>1. Follow(op, t) = IF isIndexConflictError(t) THEN migrateTableOnConflict(t) ELSE << >>
    BY <1>2, Zenon DEF Follow
  <2>2. <<Task("delete", t)>> \in TaskLists(IndexOps) /\ <<Task("create", t)>> \in TaskLists(IndexOps)
    BY TaskListOf DEF IndexOps, KeepingOps
  <2>3. <<Task("delete", t)>> \o <<Task("create", t)>> \in TaskLists(IndexOps)
    BY <2>2, TaskListsJoin
  <2>4. migrateTableOnConflict(t) = <<Task("delete", t)>> \o <<Task("create", t)>>
    BY DEF migrateTableOnConflict
  <2> QED BY <1>2, <2>1, <2>3, <2>4, NoTasks
<1>3. CASE op \notin {"configure", "createUnique"}
  <2>1. Follow(op, t) = << >>
    BY <1>3, Zenon DEF Follow
  <2> QED BY <2>1, NoTasks
<1> QED BY <1>1, <1>2, <1>3

\* What the server makes of a request.
LEMMA SentIs ==
  ASSUME NEW op \in IndexOps, NEW t, IsIndex(index[t])
  PROVE  /\ IsIndex(Sent(op, t))
         /\ op # "delete" /\ index[t].there =>
              /\ Sent(op, t).there /\ Sent(op, t).key = index[t].key
              /\ index[t].filter \subseteq Sent(op, t).filter
<1>1. CASE op \in {"create", "createMissing", "createAgain", "createUnique"}
  <2>1. Sent(op, t) = IF index[t].there \/ (engine = "mongodb" /\ isIndexOptionsConflictError(t)) THEN index[t]
                      ELSE Index(KeyOf(t), {}, {})
    BY <1>1, Zenon DEF Sent
  <2>2. IsIndex(Index(KeyOf(t), {}, {}))
    BY DEF Index, IsIndex
  <2> QED BY <2>1, <2>2
<1>2. CASE op = "delete"
  <2>1. Sent(op, t) = IF engine = "elasticsearch" /\ index[t].key # KeyOf(t) THEN index[t] ELSE NoIndex
    BY <1>2, Zenon DEF Sent
  <2>2. IsIndex(NoIndex)
    BY DEF NoIndex, IsIndex
  <2> QED BY <1>2, <2>1, <2>2
<1>3. CASE op = "filter"
  <2>1. Sent(op, t) = [index[t] EXCEPT !.filter = Attributes(t)]
    BY <1>3, Zenon DEF Sent
  <2>2. Sent(op, t) = [key |-> index[t].key, filter |-> Attributes(t), sort |-> index[t].sort, there |-> index[t].there]
    BY <2>1 DEF IsIndex
  <2>3. index[t].filter \subseteq Attributes(t)
    BY DEF Attributes
  <2> QED BY <2>2, <2>3 DEF IsIndex
<1>4. CASE op = "sort"
  <2>1. Sent(op, t) = [index[t] EXCEPT !.sort = index[t].filter]
    BY <1>4, Zenon DEF Sent
  <2>2. Sent(op, t) = [key |-> index[t].key, filter |-> index[t].filter, sort |-> index[t].filter, there |-> index[t].there]
    BY <2>1 DEF IsIndex
  <2> QED BY <2>2 DEF IsIndex
<1>5. CASE op \notin {"create", "createMissing", "createAgain", "createUnique", "delete", "filter", "sort"}
  <2>1. Sent(op, t) = index[t]
    BY <1>5, Zenon DEF Sent
  <2> QED BY <2>1
<1> QED BY <1>1, <1>2, <1>3, <1>4, <1>5

-----------------------------------------------------------------------------
(* The steps. *)

LEMMA IndexInitInv == IndexInit => IndexInv
<1> SUFFICES ASSUME IndexInit PROVE IndexInv
  OBVIOUS
<1>1. IsIndex(NoIndex) /\ IsIndex(Index({"own"}, {}, {}))
  BY DEF IsIndex, NoIndex, Index
<1>2. index \in [CollectionNames -> {NoIndex, Index({"own"}, {}, {})}]
  BY DEF IndexInit
<1>3. IndexesInv
  BY <1>1, <1>2 DEF IndexesInv
<1> QED BY <1>3, NoTasks DEF IndexInit, IndexInv, TasksInv

LEMMA StartOthersInv ==
  ASSUME IndexInv, StartOthers
  PROVE  IndexInv'
<1> DEFINE s == [i \in DOMAIN Collections |-> TasksFor(Collections[i])]
<1>1. /\ engine' = engine /\ index' = index /\ forced' = forced /\ engine # "meilisearch"
      /\ tasks' = FlattenSeq(s)
  BY DEF StartOthers
<1>2. engine \in {"mongodb", "neo4j", "elasticsearch"}
  BY <1>1, IndexesAssumption DEF IndexInv
<1>3. DOMAIN Collections = 1..Len(Collections) /\ Len(Collections) \in Nat
      /\ \A i \in DOMAIN Collections : Collections[i] \in CollectionNames
  BY IndexesAssumption DEF CollectionNames, Range
<1>4. \A i \in 1..Len(Collections) :
        /\ s[i] \in TaskLists(IndexOps)
        /\ ~forced => s[i] \in TaskLists(KeepingOps)
  BY <1>2, <1>3, TasksForIn
<1>5. s = [i \in 1..Len(Collections) |-> s[i]]
  BY <1>3
<1> HIDE DEF s
<1>6. ASSUME NEW ops, \A i \in 1..Len(Collections) : s[i] \in TaskLists(ops)
      PROVE  FlattenSeq(s) \in TaskLists(ops)
  <2> DEFINE S == {Task(o, u) : o \in ops, u \in CollectionNames}
  <2>1. \A i \in 1..Len(Collections) : s[i] \in Seq(S)
    BY <1>6 DEF TaskLists
  <2> HIDE DEF S
  <2>2. FlattenSeq(s) \in Seq(S)
    BY <1>3, <1>5, <2>1, FlattenIn
  <2> QED BY <2>2 DEF TaskLists, S
<1>7. FlattenSeq(s) \in TaskLists(IndexOps) /\ (~forced => FlattenSeq(s) \in TaskLists(KeepingOps))
  BY <1>4, <1>6
<1> QED BY <1>1, <1>7 DEF IndexInv, IndexesInv, TasksInv

LEMMA ApplyInv ==
  ASSUME IndexInv, NEW op \in IndexOps, NEW t \in CollectionNames, ApplyTask(op, t)
  PROVE  IndexesInv'
<1>1. index' = [index EXCEPT ![t] = Sent(op, t)]
  BY DEF ApplyTask
<1>2. IsIndex(Sent(op, t))
  BY SentIs DEF IndexInv, IndexesInv
<1>3. \A u \in CollectionNames : IsIndex(index'[u])
  BY <1>1, <1>2 DEF IndexInv, IndexesInv
<1> QED BY <1>1, <1>3 DEF IndexInv, IndexesInv

LEMMA SendInv ==
  ASSUME IndexInv, NEW op, NEW t, SendTask(op, t)
  PROVE  IndexInv'
<1>1. /\ Sending(op, t) /\ (op = "createUnique" => forced \/ ~isIndexConflictError(t)) /\ ApplyTask(op, t)
      /\ tasks' = Follow(op, t) \o Tail(tasks) /\ engine' = engine /\ forced' = forced
  BY DEF SendTask
<1>2. op \in IndexOps /\ t \in CollectionNames /\ Tail(tasks) \in TaskLists(IndexOps)
  BY <1>1, SentTask DEF IndexInv, TasksInv
<1>3. ~forced => op \in KeepingOps /\ Tail(tasks) \in TaskLists(KeepingOps)
  BY <1>1, SentTask DEF IndexInv, TasksInv
<1>4. IndexesInv'
  BY <1>1, <1>2, ApplyInv
<1>5. tasks' \in TaskLists(IndexOps)
  BY <1>1, <1>2, FollowIn, TaskListsJoin
<1>6. ~forced => tasks' \in TaskLists(KeepingOps)
  BY <1>1, <1>2, <1>3, FollowIn, TaskListsJoin
<1> QED BY <1>1, <1>4, <1>5, <1>6 DEF IndexInv, TasksInv

LEMMA FailTaskInv ==
  ASSUME IndexInv, NEW op, NEW t, FailTask(op, t)
  PROVE  IndexInv'
<1>1. /\ Sending(op, t) /\ (ApplyTask(op, t) \/ index' = index) /\ engine' = engine /\ forced' = forced
      /\ \/ tasks' = << >>
         \/ forced /\ tasks' = DropAndCreate(t) \o Tail(tasks)
  BY DEF FailTask
<1>2. op \in IndexOps /\ t \in CollectionNames /\ Tail(tasks) \in TaskLists(IndexOps)
  BY <1>1, SentTask DEF IndexInv, TasksInv
<1>3. IndexesInv'
  BY <1>1, <1>2, ApplyInv DEF IndexInv, IndexesInv
<1>4. DropAndCreate(t) \in TaskLists(IndexOps)
  <2>1. <<Task("delete", t)>> \in TaskLists(IndexOps) /\ <<Task("createAgain", t)>> \in TaskLists(IndexOps)
    BY <1>2, TaskListOf DEF IndexOps
  <2>2. DropAndCreate(t) = <<Task("delete", t)>> \o <<Task("createAgain", t)>>
    BY DEF DropAndCreate
  <2> QED BY <2>1, <2>2, TaskListsJoin
<1>5. TasksInv'
  BY <1>1, <1>2, <1>4, NoTasks, TaskListsJoin DEF IndexInv, TasksInv
<1> QED BY <1>1, <1>3, <1>5 DEF IndexInv

LEMMA IndexStep == IndexInv /\ [IndexNext]_indexVars => IndexInv'
<1> SUFFICES ASSUME IndexInv, [IndexNext]_indexVars PROVE IndexInv'
  OBVIOUS
<1>1. CASE AskIndexes
  <2>1. tasks' = <<Task("begin", Head(Collections))>> /\ engine' = engine /\ index' = index
    BY <1>1 DEF AskIndexes
  <2>2. Head(Collections) \in CollectionNames
    BY IndexesAssumption DEF CollectionNames, Range
  <2>3. tasks' \in TaskLists(KeepingOps)
    BY <2>1, <2>2, TaskListOf DEF KeepingOps
  <2> QED BY <2>1, <2>3, MoreTasks DEF IndexInv, IndexesInv, TasksInv
<1>2. CASE StartMeilisearch
  <2>1. /\ engine' = engine /\ index' = index /\ forced' = forced /\ (forced \/ ToRecreate = {})
        /\ \E order \in SetToSeqs(CollectionNames) : tasks' = MeilisearchTasks(order)
    BY <1>2 DEF StartMeilisearch
  <2> QED BY <2>1, MeilisearchTasksIn DEF IndexInv, IndexesInv, TasksInv
<1>3. CASE RefuseMeilisearch
  BY <1>3, NoTasks DEF RefuseMeilisearch, IndexInv, IndexesInv, TasksInv
<1>4. CASE StartOthers
  BY <1>4, StartOthersInv
<1>5. ASSUME NEW t \in CollectionNames, RefuseMongoDB(t) PROVE IndexInv'
  BY <1>5, NoTasks DEF RefuseMongoDB, IndexInv, IndexesInv, TasksInv
<1>6. ASSUME NEW t \in CollectionNames, WriteDocument(t) PROVE IndexInv'
  <2>1. /\ index' = [index EXCEPT ![t] = Index(KeyOf(t), template[t], {})]
        /\ engine' = engine /\ forced' = forced /\ tasks' = tasks
    BY <1>6 DEF WriteDocument
  <2>2. IsIndex(Index(KeyOf(t), template[t], {}))
    BY DEF IsIndex, Index
  <2>3. \A u \in CollectionNames : IsIndex(index'[u])
    BY <2>1, <2>2 DEF IndexInv, IndexesInv
  <2>4. IndexesInv'
    BY <2>1, <2>3 DEF IndexInv, IndexesInv
  <2> QED BY <2>1, <2>4 DEF IndexInv, TasksInv
<1>7. CASE ReturnIndexes
  BY <1>7 DEF ReturnIndexes, IndexInv, IndexesInv, TasksInv
<1>8. CASE UNCHANGED indexVars
  BY <1>8 DEF indexVars, IndexInv, IndexesInv, TasksInv
<1> QED BY <1>1, <1>2, <1>3, <1>4, <1>5, <1>6, <1>7, <1>8, SendInv, FailTaskInv DEF IndexNext

\* A request of a call in safe mode keeps every index and its columns.
LEMMA KeepsStep ==
  ASSUME IndexInv, [IndexNext]_indexVars, running, ~forced, NEW t \in CollectionNames, index[t].there
  PROVE  /\ index'[t].there /\ index'[t].key = index[t].key
         /\ index[t].filter \subseteq index'[t].filter
<1>1. CASE index' = index
  BY <1>1
<1>2. ASSUME NEW op, NEW u, Sending(op, u), ApplyTask(op, u)
      PROVE  /\ index'[t].there /\ index'[t].key = index[t].key
             /\ index[t].filter \subseteq index'[t].filter
  <2>1. op \in KeepingOps /\ u \in CollectionNames
    BY <1>2, SentTask DEF IndexInv, TasksInv
  <2>2. index' = [index EXCEPT ![u] = Sent(op, u)]
    BY <1>2 DEF ApplyTask
  <2>3. CASE u # t
    BY <2>2, <2>3 DEF IndexInv, IndexesInv
  <2>4. CASE u = t
    <3>1. op \in IndexOps /\ op # "delete"
      BY <2>1 DEF IndexOps, KeepingOps
    <3>2. index'[t] = Sent(op, t)
      BY <2>2, <2>4 DEF IndexInv, IndexesInv
    <3>3. IsIndex(index[t])
      BY DEF IndexInv, IndexesInv
    <3> QED BY <3>1, <3>2, <3>3, SentIs
  <2> QED BY <2>3, <2>4
<1>3. index' = index \/ \E op, u : Sending(op, u) /\ ApplyTask(op, u)
  <2>1. CASE AskIndexes \/ StartMeilisearch \/ RefuseMeilisearch \/ StartOthers \/ ReturnIndexes \/ UNCHANGED indexVars
    BY <2>1 DEF AskIndexes, StartMeilisearch, RefuseMeilisearch, StartOthers, ReturnIndexes, indexVars
  <2>2. ASSUME NEW u \in CollectionNames, RefuseMongoDB(u) \/ WriteDocument(u) PROVE index' = index
    BY <2>2 DEF RefuseMongoDB, WriteDocument
  <2>3. ASSUME NEW op, NEW u, SendTask(op, u) \/ FailTask(op, u)
        PROVE  index' = index \/ (Sending(op, u) /\ ApplyTask(op, u))
    BY <2>3 DEF SendTask, FailTask
  <2> QED BY <2>1, <2>2, <2>3 DEF IndexNext
<1> QED BY <1>1, <1>2, <1>3

\* Nothing that a call has to do in safe mode drops an index.
THEOREM IndexInvariant == IndexSpec => []IndexInv
BY IndexInitInv, IndexStep, PTL DEF IndexSpec

\* In safe mode no index is dropped and none loses a column.
THEOREM SafeMigrationsKeepIndexes == IndexSpec => SafeKeepsIndexes
<1>1. IndexInv /\ [IndexNext]_indexVars =>
        [running /\ ~forced =>
           \A t \in CollectionNames : index[t].there =>
             /\ index'[t].there /\ index'[t].key = index[t].key
             /\ index[t].filter \subseteq index'[t].filter]_indexVars
  BY KeepsStep
<1> QED BY <1>1, IndexInvariant, PTL DEF IndexSpec, SafeKeepsIndexes

-----------------------------------------------------------------------------
(* The requests of a list, and those that come right behind others. *)

Awaits(p, op, t) == \E i \in DOMAIN p : p[i] = Task(op, t)

\* Requests that come right behind others.
Pairs(e) ==
  CASE e = "meilisearch"   -> {<<"delete", "create">>, <<"create", "configure">>, <<"filter", "sort">>}
    [] e = "mongodb"       -> {<<"delete", "create">>}
    [] e = "neo4j"         -> {<<"delete", "createAgain">>}
    [] e = "elasticsearch" -> {}

Paired(pairs, p) ==
  \A i \in DOMAIN p : \A q \in pairs :
    p[i].op = q[1] => i + 1 \in DOMAIN p /\ p[i + 1] = Task(q[2], p[i].table)

OpsOf(e) ==
  CASE e = "meilisearch"   -> {"create", "configure", "filter", "sort", "delete"}
    [] e = "mongodb"       -> {"createUnique", "delete", "create"}
    [] e = "neo4j"         -> {"createMissing", "delete", "createAgain"}
    [] e = "elasticsearch" -> {"list", "delete", "put"}

-----------------------------------------------------------------------------
(* Sequences that are joined. *)

LEMMA FlattenJoins ==
  ASSUME NEW U, NEW s \in Seq(U), Len(s) # 0
  PROVE  \E f : Joined(f, s, Len(s)) /\ FlattenSeq(s) = f[Len(s)]
<1> DEFINE f == CHOOSE f : f = [i \in 1..Len(s) |-> IF i = 1 THEN s[i] ELSE f[i - 1] \o s[i]]
<1>0. Len(s) \in Nat
  OBVIOUS
<1>1. FlattenSeq(s) = f[Len(s)]
  BY DEF FlattenSeq
<1>2. \E g : g = [i \in 1..Len(s) |-> IF i = 1 THEN s[i] ELSE g[i - 1] \o s[i]]
  BY <1>0, JoinedExists DEF Joined
<1>3. f = [i \in 1..Len(s) |-> IF i = 1 THEN s[i] ELSE f[i - 1] \o s[i]]
  BY <1>2
<1> HIDE DEF f
<1>4. Joined(f, s, Len(s))
  BY <1>3 DEF Joined
<1> QED BY <1>1, <1>4

\* A set that is closed under joining has what is joined of its sequences.
LEMMA FlattenStays ==
  ASSUME NEW U, << >> \in U, \A p \in U, q \in U : p \o q \in U,
         NEW n \in Nat, NEW s, s = [i \in 1..n |-> s[i]], \A i \in 1..n : s[i] \in U
  PROVE  FlattenSeq(s) \in U
<1>1. s \in Seq(U) /\ Len(s) = n
  <2>1. s \in [1..n -> U]
    OBVIOUS
  <2> QED BY <2>1
<1>2. CASE n = 0
  <2>1. s = << >>
    BY <1>1, <1>2
  <2>2. FlattenSeq(s) = s
    BY <1>1, <1>2 DEF FlattenSeq
  <2> QED BY <2>1, <2>2
<1>3. CASE n # 0
  <2>1. PICK f : Joined(f, s, n) /\ FlattenSeq(s) = f[n]
    BY <1>1, <1>3, FlattenJoins
  <2> DEFINE T == {i \in 0..n : i = 0 \/ f[i] \in U}
  <2>2. \A i \in 1..n : f[i] = IF i = 1 THEN s[i] ELSE f[i - 1] \o s[i]
    BY <2>1, Zenon DEF Joined
  <2>3. ASSUME NEW i \in 0..n, i < n, i \in T PROVE i + 1 \in T
    <3>1. i + 1 \in 1..n /\ (i + 1) - 1 = i
      BY <2>3
    <3>2. f[i + 1] = IF i + 1 = 1 THEN s[i + 1] ELSE f[i] \o s[i + 1]
      BY <2>2, <3>1
    <3>3. s[i + 1] \in U
      BY <3>1
    <3>4. i # 0 => f[i] \in U
      BY <2>3
    <3>5. f[i + 1] \in U
      BY <3>2, <3>3, <3>4
    <3> QED BY <3>1, <3>5
  <2>4. T = 0..n
    <3>1. T \in SUBSET (0..n) /\ 0 \in T
      OBVIOUS
    <3> HIDE DEF T
    <3> QED BY <2>3, <3>1, Upwards
  <2>5. n \in T
    BY <2>4
  <2> QED BY <1>3, <2>1, <2>5
<1> QED BY <1>2, <1>3

\* What is in one of the sequences is in what is joined of them.
LEMMA FlattenHas ==
  ASSUME NEW S, NEW U, \A p \in Seq(S), q \in U : p \o q \in U /\ q \o p \in U,
         NEW n \in Nat, NEW s, s = [i \in 1..n |-> s[i]], \A i \in 1..n : s[i] \in Seq(S),
         NEW k \in 1..n, s[k] \in U
  PROVE  FlattenSeq(s) \in U
<1>1. s \in Seq(Seq(S)) /\ Len(s) = n
  <2>1. s \in [1..n -> Seq(S)]
    OBVIOUS
  <2> QED BY <2>1
<1>2. n # 0
  OBVIOUS
<1>3. PICK f : Joined(f, s, n) /\ FlattenSeq(s) = f[n]
  BY <1>1, <1>2, FlattenJoins
<1>4. \A i \in 1..n : f[i] = IF i = 1 THEN s[i] ELSE f[i - 1] \o s[i]
  BY <1>3, Zenon DEF Joined
<1>5. \A i \in 1..n : f[i] \in Seq(S)
  BY <1>3, JoinedIn
<1> DEFINE T == {i \in 0..n : i < k \/ f[i] \in U}
<1>6. ASSUME NEW i \in 0..n, i < n, i \in T PROVE i + 1 \in T
  <2>1. i + 1 \in 1..n /\ (i + 1) - 1 = i
    BY <1>6
  <2>2. f[i + 1] = IF i + 1 = 1 THEN s[i + 1] ELSE f[i] \o s[i + 1]
    BY <1>4, <2>1
  <2>3. CASE i + 1 < k
    BY <2>1, <2>3
  <2>4. CASE i + 1 = k
    <3>1. i + 1 # 1 => f[i] \in Seq(S)
      <4>1. i + 1 # 1 => i \in 1..n
        BY <2>1
      <4> QED BY <1>5, <4>1
    <3>2. f[i + 1] \in U
      BY <2>2, <2>4, <3>1
    <3> QED BY <2>1, <3>2
  <2>5. CASE i + 1 > k
    <3>1. i + 1 # 1 /\ ~(i < k)
      BY <2>5
    <3>2. f[i] \in U
      BY <1>6, <3>1
    <3>3. f[i + 1] \in U
      BY <2>1, <2>2, <3>1, <3>2
    <3> QED BY <2>1, <3>3
  <2> QED BY <2>1, <2>3, <2>4, <2>5
<1>7. T = 0..n
  <2>1. T \in SUBSET (0..n) /\ 0 \in T
    OBVIOUS
  <2> HIDE DEF T
  <2> QED BY <1>6, <2>1, Upwards
<1>8. n \in T
  BY <1>7
<1> QED BY <1>3, <1>8

-----------------------------------------------------------------------------
(* What a list of requests awaits. *)

LEMMA TaskIs ==
  ASSUME NEW op, NEW t, NEW o, NEW u
  PROVE  Task(op, t).op = op /\ Task(op, t).table = t /\ (Task(op, t) = Task(o, u) <=> op = o /\ t = u)
BY DEF Task

\* A list of requests as a sequence.
LEMMA TaskListIs ==
  ASSUME NEW ops, NEW p \in TaskLists(ops)
  PROVE  /\ Len(p) \in Nat /\ DOMAIN p = 1..Len(p)
         /\ \A i \in 1..Len(p) : /\ p[i] = Task(p[i].op, p[i].table)
                                 /\ p[i].op \in ops /\ p[i].table \in CollectionNames
<1> DEFINE S == {Task(o, u) : o \in ops, u \in CollectionNames}
<1>1. p \in Seq(S)
  BY DEF TaskLists
<1>2. \A x \in S : x = Task(x.op, x.table) /\ x.op \in ops /\ x.table \in CollectionNames
  BY TaskIs
<1> HIDE DEF S
<1>3. Len(p) \in Nat /\ DOMAIN p = 1..Len(p) /\ \A i \in 1..Len(p) : p[i] \in S
  BY <1>1
<1> QED BY <1>2, <1>3

LEMMA TaskListParts ==
  ASSUME NEW ops, NEW p \in TaskLists(ops), p # << >>
  PROVE  /\ Len(p) >= 1 /\ Head(p) = p[1] /\ Tail(p) \in TaskLists(ops)
         /\ DOMAIN Tail(p) = 1..(Len(p) - 1) /\ \A i \in 1..(Len(p) - 1) : Tail(p)[i] = p[i + 1]
<1> DEFINE S == {Task(o, u) : o \in ops, u \in CollectionNames}
<1>1. p \in Seq(S)
  BY DEF TaskLists
<1> HIDE DEF S
<1>2. /\ Len(p) >= 1 /\ Head(p) = p[1] /\ Tail(p) \in Seq(S)
      /\ DOMAIN Tail(p) = 1..(Len(p) - 1) /\ \A i \in 1..(Len(p) - 1) : Tail(p)[i] = p[i + 1]
  BY <1>1
<1> QED BY <1>2 DEF TaskLists, S

LEMMA TaskListJoin ==
  ASSUME NEW ops, NEW p \in TaskLists(ops), NEW q \in TaskLists(ops)
  PROVE  /\ p \o q \in TaskLists(ops) /\ DOMAIN (p \o q) = 1..(Len(p) + Len(q))
         /\ \A i \in 1..Len(p) : (p \o q)[i] = p[i]
         /\ \A i \in 1..Len(q) : (p \o q)[Len(p) + i] = q[i]
         /\ \A i \in 1..(Len(p) + Len(q)) : i > Len(p) => i - Len(p) \in 1..Len(q) /\ (p \o q)[i] = q[i - Len(p)]
<1> DEFINE S == {Task(o, u) : o \in ops, u \in CollectionNames}
<1>1. p \in Seq(S) /\ q \in Seq(S)
  BY DEF TaskLists
<1> HIDE DEF S
<1>2. /\ Len(p) \in Nat /\ Len(q) \in Nat
      /\ DOMAIN (p \o q) = 1..(Len(p) + Len(q))
      /\ \A i \in 1..(Len(p) + Len(q)) : (p \o q)[i] = IF i <= Len(p) THEN p[i] ELSE q[i - Len(p)]
  BY <1>1
<1> DEFINE m == Len(p)  n == Len(q)  r == p \o q
<1>3. r \in TaskLists(ops)
  BY TaskListsJoin
<1>4. m \in Nat /\ n \in Nat /\ DOMAIN r = 1..(m + n)
      /\ \A i \in 1..(m + n) : r[i] = IF i <= m THEN p[i] ELSE q[i - m]
  BY <1>2
<1> HIDE DEF m, n, r
<1>5. \A i \in 1..m : r[i] = p[i]
  BY <1>4
<1>6. \A i \in 1..n : r[m + i] = q[i]
  <2> TAKE i \in 1..n
  <2>1. m + i \in 1..(m + n) /\ ~(m + i <= m) /\ (m + i) - m = i
    BY <1>4
  <2> QED BY <1>4, <2>1
<1>7. \A i \in 1..(m + n) : i > m => i - m \in 1..n /\ r[i] = q[i - m]
  BY <1>4
<1> QED BY <1>3, <1>4, <1>5, <1>6, <1>7 DEF m, n, r

TwoJoined(p, q) ==
  /\ DOMAIN (p \o q) = 1..(Len(p) + Len(q))
  /\ \A i \in 1..Len(p) : (p \o q)[i] = p[i]
  /\ \A i \in 1..Len(q) : (p \o q)[Len(p) + i] = q[i]
  /\ \A i \in 1..(Len(p) + Len(q)) : i > Len(p) => i - Len(p) \in 1..Len(q) /\ (p \o q)[i] = q[i - Len(p)]

LEMMA TwoJoin ==
  ASSUME NEW ops, NEW p \in TaskLists(ops), NEW q \in TaskLists(ops)
  PROVE  TwoJoined(p, q)
BY TaskListJoin DEF TwoJoined

LEMMA AwaitsNothing ==
  ASSUME NEW op, NEW t
  PROVE  ~Awaits(<< >>, op, t)
BY DEF Awaits

LEMMA AwaitsIn ==
  ASSUME NEW ops, NEW p \in TaskLists(ops), NEW op, NEW t, Awaits(p, op, t)
  PROVE  op \in ops /\ t \in CollectionNames
<1>1. PICK i \in 1..Len(p) : p[i] = Task(op, t)
  BY TaskListIs DEF Awaits
<1> QED BY <1>1, TaskListIs, TaskIs

LEMMA AwaitsTail ==
  ASSUME NEW ops, NEW p \in TaskLists(ops), p # << >>, NEW op, NEW t
  PROVE  Awaits(p, op, t) <=> Awaits(Tail(p), op, t) \/ Head(p) = Task(op, t)
<1> DEFINE n == Len(p)
<1>1. n \in Nat /\ n >= 1 /\ DOMAIN p = 1..n
  BY TaskListIs, TaskListParts
<1>2. Head(p) = p[1] /\ DOMAIN Tail(p) = 1..(n - 1) /\ \A i \in 1..(n - 1) : Tail(p)[i] = p[i + 1]
  BY TaskListParts
<1> HIDE DEF n
<1>3. ASSUME Awaits(p, op, t) PROVE Awaits(Tail(p), op, t) \/ Head(p) = Task(op, t)
  <2>1. PICK i \in 1..n : p[i] = Task(op, t)
    BY <1>1, <1>3 DEF Awaits
  <2>2. CASE i = 1
    BY <1>2, <2>1, <2>2
  <2>3. CASE i # 1
    <3>1. i - 1 \in 1..(n - 1) /\ (i - 1) + 1 = i
      BY <1>1, <2>1, <2>3
    <3>2. Tail(p)[i - 1] = p[i]
      BY <1>2, <3>1
    <3> QED BY <1>2, <2>1, <3>1, <3>2 DEF Awaits
  <2> QED BY <2>2, <2>3
<1>4. ASSUME Awaits(Tail(p), op, t) PROVE Awaits(p, op, t)
  <2>1. PICK i \in 1..(n - 1) : Tail(p)[i] = Task(op, t)
    BY <1>2, <1>4 DEF Awaits
  <2>2. i + 1 \in 1..n /\ p[i + 1] = Task(op, t)
    BY <1>1, <1>2, <2>1
  <2> QED BY <1>1, <2>2 DEF Awaits
<1>5. Head(p) = Task(op, t) => Awaits(p, op, t)
  <2>1. 1 \in 1..n
    BY <1>1
  <2> QED BY <1>1, <1>2, <2>1 DEF Awaits
<1> QED BY <1>3, <1>4, <1>5

LEMMA AwaitsJoin ==
  ASSUME NEW ops, NEW p \in TaskLists(ops), NEW q \in TaskLists(ops), NEW op, NEW t
  PROVE  Awaits(p \o q, op, t) <=> Awaits(p, op, t) \/ Awaits(q, op, t)
<1> DEFINE m == Len(p)  n == Len(q)  r == p \o q
<1>1. m \in Nat /\ n \in Nat /\ DOMAIN p = 1..m /\ DOMAIN q = 1..n
  BY TaskListIs
<1>2. /\ DOMAIN r = 1..(m + n)
      /\ \A i \in 1..m : r[i] = p[i]
      /\ \A i \in 1..n : r[m + i] = q[i]
      /\ \A i \in 1..(m + n) : i > m => i - m \in 1..n /\ r[i] = q[i - m]
  BY TaskListJoin
<1> HIDE DEF m, n, r
<1>3. ASSUME Awaits(p, op, t) PROVE Awaits(r, op, t)
  <2>1. PICK i \in 1..m : p[i] = Task(op, t)
    BY <1>1, <1>3 DEF Awaits
  <2>2. i \in 1..(m + n) /\ r[i] = p[i]
    BY <1>1, <1>2, <2>1
  <2> QED BY <1>2, <2>1, <2>2 DEF Awaits
<1>4. ASSUME Awaits(q, op, t) PROVE Awaits(r, op, t)
  <2>1. PICK i \in 1..n : q[i] = Task(op, t)
    BY <1>1, <1>4 DEF Awaits
  <2>2. m + i \in 1..(m + n) /\ r[m + i] = q[i]
    BY <1>1, <1>2, <2>1
  <2> QED BY <1>2, <2>1, <2>2 DEF Awaits
<1>5. ASSUME Awaits(r, op, t) PROVE Awaits(p, op, t) \/ Awaits(q, op, t)
  <2>1. PICK i \in 1..(m + n) : r[i] = Task(op, t)
    BY <1>2, <1>5 DEF Awaits
  <2>2. CASE i > m
    BY <1>1, <1>2, <2>1, <2>2 DEF Awaits
  <2>3. CASE ~(i > m)
    <3>1. i \in 1..m
      BY <1>1, <2>1, <2>3
    <3> QED BY <1>1, <1>2, <2>1, <3>1 DEF Awaits
  <2> QED BY <2>2, <2>3
<1> QED BY <1>3, <1>4, <1>5 DEF r

LEMMA AwaitsOne ==
  ASSUME NEW o, NEW u, NEW op, NEW t
  PROVE  Awaits(<<Task(o, u)>>, op, t) <=> op = o /\ t = u
<1> DEFINE x == Task(o, u)
<1>1. DOMAIN <<x>> = {1} /\ <<x>>[1] = x
  OBVIOUS
<1> HIDE DEF x
<1>2. Awaits(<<x>>, op, t) <=> x = Task(op, t)
  BY <1>1 DEF Awaits
<1> QED BY <1>2, TaskIs DEF x

-----------------------------------------------------------------------------
(* What comes right behind a request. *)

LEMMA PairedNothing ==
  ASSUME NEW pairs
  PROVE  Paired(pairs, << >>)
BY DEF Paired

LEMMA PairedTail ==
  ASSUME NEW ops, NEW p \in TaskLists(ops), p # << >>, NEW pairs, Paired(pairs, p)
  PROVE  /\ Paired(pairs, Tail(p))
         /\ \A q \in pairs : Head(p).op = q[1] => Awaits(Tail(p), q[2], Head(p).table)
<1> DEFINE n == Len(p)  r == Tail(p)
<1>1. n \in Nat /\ n >= 1 /\ DOMAIN p = 1..n
  BY TaskListIs, TaskListParts
<1>2. Head(p) = p[1] /\ DOMAIN r = 1..(n - 1) /\ \A i \in 1..(n - 1) : r[i] = p[i + 1]
  BY TaskListParts
<1>3. \A i \in 1..n : \A q \in pairs : p[i].op = q[1] => i + 1 \in 1..n /\ p[i + 1] = Task(q[2], p[i].table)
  BY <1>1 DEF Paired
<1> HIDE DEF n, r
<1>4. ASSUME NEW i \in 1..(n - 1), NEW q \in pairs, r[i].op = q[1]
      PROVE  i + 1 \in 1..(n - 1) /\ r[i + 1] = Task(q[2], r[i].table)
  <2>1. i + 1 \in 1..n /\ r[i] = p[i + 1]
    BY <1>1, <1>2
  <2>2. (i + 1) + 1 \in 1..n /\ p[(i + 1) + 1] = Task(q[2], p[i + 1].table)
    BY <1>3, <1>4, <2>1
  <2>3. i + 1 \in 1..(n - 1)
    BY <1>1, <2>2
  <2> QED BY <1>2, <2>1, <2>2, <2>3
<1>5. Paired(pairs, r)
  BY <1>2, <1>4 DEF Paired
<1>6. ASSUME NEW q \in pairs, Head(p).op = q[1] PROVE Awaits(r, q[2], Head(p).table)
  <2>1. 1 \in 1..n
    BY <1>1
  <2>2. 1 + 1 \in 1..n /\ p[1 + 1] = Task(q[2], p[1].table)
    BY <1>2, <1>3, <1>6, <2>1
  <2>3. 1 \in 1..(n - 1)
    BY <1>1, <2>2
  <2>4. r[1] = Task(q[2], Head(p).table)
    BY <1>2, <2>2, <2>3
  <2> QED BY <1>2, <2>3, <2>4 DEF Awaits
<1> QED BY <1>5, <1>6 DEF r

LEMMA PairedJoin ==
  ASSUME NEW ops, NEW p \in TaskLists(ops), NEW q \in TaskLists(ops), NEW pairs, Paired(pairs, p), Paired(pairs, q)
  PROVE  Paired(pairs, p \o q)
<1> DEFINE m == Len(p)  n == Len(q)  r == p \o q
<1>1. m \in Nat /\ n \in Nat /\ DOMAIN p = 1..m /\ DOMAIN q = 1..n
  BY TaskListIs
<1>2. /\ DOMAIN r = 1..(m + n)
      /\ \A i \in 1..m : r[i] = p[i]
      /\ \A i \in 1..n : r[m + i] = q[i]
      /\ \A i \in 1..(m + n) : i > m => i - m \in 1..n /\ r[i] = q[i - m]
  BY TaskListJoin
<1> HIDE DEF m, n, r
<1>3. ASSUME NEW i \in 1..(m + n), NEW x \in pairs, r[i].op = x[1]
      PROVE  i + 1 \in 1..(m + n) /\ r[i + 1] = Task(x[2], r[i].table)
  <2>1. CASE i > m
    <3>1. i - m \in 1..n /\ r[i] = q[i - m]
      BY <1>2, <2>1
    <3>2. (i - m) + 1 \in 1..n /\ q[(i - m) + 1] = Task(x[2], q[i - m].table)
      BY <1>1, <1>3, <3>1 DEF Paired
    <3>3. m + ((i - m) + 1) = i + 1 /\ i + 1 \in 1..(m + n)
      BY <1>1, <3>2
    <3> QED BY <1>2, <3>1, <3>2, <3>3
  <2>2. CASE ~(i > m)
    <3>1. i \in 1..m /\ r[i] = p[i]
      BY <1>1, <1>2, <2>2
    <3>2. i + 1 \in 1..m /\ p[i + 1] = Task(x[2], p[i].table)
      BY <1>1, <1>3, <3>1 DEF Paired
    <3>3. i + 1 \in 1..(m + n) /\ r[i + 1] = p[i + 1]
      BY <1>1, <1>2, <3>2
    <3> QED BY <3>1, <3>2, <3>3
  <2> QED BY <2>1, <2>2
<1>4. Paired(pairs, r)
  BY <1>2, <1>3 DEF Paired
<1> QED BY <1>4 DEF r

\* A request in front of others.
LEMMA PairedFirst ==
  ASSUME NEW ops, NEW f \in TaskLists(ops), NEW x, NEW t, Len(f) = 1, f[1] = Task(x, t),
         NEW p \in TaskLists(ops), NEW pairs, Paired(pairs, p),
         \A q \in pairs : x = q[1] => p # << >> /\ Head(p) = Task(q[2], t)
  PROVE  Paired(pairs, f \o p)
<1> DEFINE n == Len(p)  r == f \o p
<1>0. Len(f) = 1 /\ f[1] = Task(x, t)
  OBVIOUS
<1>1. n \in Nat /\ DOMAIN p = 1..n
  BY TaskListIs
<1>7. TwoJoined(f, p)
  BY TwoJoin
<1>2. /\ DOMAIN r = 1..(1 + n)
      /\ \A i \in 1..1 : r[i] = f[i]
      /\ \A i \in 1..n : r[1 + i] = p[i]
      /\ \A i \in 1..(1 + n) : i > 1 => i - 1 \in 1..n /\ r[i] = p[i - 1]
  BY <1>0, <1>7 DEF TwoJoined
<1>3. p # << >> => n >= 1 /\ Head(p) = p[1]
  BY TaskListParts
<1> HIDE DEF n, r
<1>4. r[1] = Task(x, t)
  <2>1. 1 \in 1..1
    OBVIOUS
  <2> QED BY <1>0, <1>2, <2>1
<1>5. ASSUME NEW i \in 1..(1 + n), NEW q \in pairs, r[i].op = q[1]
      PROVE  i + 1 \in 1..(1 + n) /\ r[i + 1] = Task(q[2], r[i].table)
  <2>1. CASE i > 1
    <3>1. i - 1 \in 1..n /\ r[i] = p[i - 1]
      BY <1>2, <2>1
    <3>2. (i - 1) + 1 \in 1..n /\ p[(i - 1) + 1] = Task(q[2], p[i - 1].table)
      BY <1>1, <1>5, <3>1 DEF Paired
    <3>3. 1 + ((i - 1) + 1) = i + 1 /\ i + 1 \in 1..(1 + n)
      BY <1>1, <3>2
    <3> QED BY <1>2, <3>1, <3>2, <3>3
  <2>2. CASE ~(i > 1)
    <3>1. i = 1
      BY <2>2, <1>1
    <3>2. x = q[1] /\ r[i].table = t
      BY <1>4, <1>5, <3>1, TaskIs
    <3>3. n >= 1 /\ p[1] = Task(q[2], t)
      BY <1>3, <3>2
    <3>4. 1 \in 1..n /\ r[1 + 1] = p[1] /\ 1 + 1 \in 1..(1 + n)
      BY <1>1, <1>2, <3>3
    <3> QED BY <3>1, <3>2, <3>3, <3>4
  <2> QED BY <2>1, <2>2
<1>6. Paired(pairs, r)
  BY <1>2, <1>5 DEF Paired
<1> QED BY <1>6 DEF r

LEMMA PairedFront ==
  ASSUME NEW ops, NEW x \in ops, NEW t \in CollectionNames, NEW p \in TaskLists(ops), NEW pairs, Paired(pairs, p),
         \A q \in pairs : x = q[1] => p # << >> /\ Head(p) = Task(q[2], t)
  PROVE  Paired(pairs, <<Task(x, t)>> \o p)
<1>1. <<Task(x, t)>> \in TaskLists(ops) /\ Len(<<Task(x, t)>>) = 1 /\ <<Task(x, t)>>[1] = Task(x, t)
  BY TaskListOf
<1> QED BY <1>1, PairedFirst

\* What is sent at the head of a list.
LEMMA PairedTwo ==
  ASSUME NEW ops, NEW x \in ops, NEW y \in ops, NEW t \in CollectionNames, NEW pairs,
         \A q \in pairs : (x = q[1] => y = q[2]) /\ y # q[1]
  PROVE  /\ <<Task(x, t), Task(y, t)>> = <<Task(x, t)>> \o <<Task(y, t)>>
         /\ <<Task(x, t), Task(y, t)>> \in TaskLists(ops)
         /\ Paired(pairs, <<Task(x, t), Task(y, t)>>)
<1>1. <<Task(x, t)>> \in TaskLists(ops) /\ <<Task(y, t)>> \in TaskLists(ops)
  BY TaskListOf
<1>2. <<Task(x, t), Task(y, t)>> = <<Task(x, t)>> \o <<Task(y, t)>>
  OBVIOUS
<1>3. Paired(pairs, <<Task(y, t)>> \o << >>)
  BY NoTasks, PairedNothing, PairedFront
<1>4. <<Task(y, t)>> \o << >> = <<Task(y, t)>> /\ <<Task(y, t)>> # << >> /\ Head(<<Task(y, t)>>) = Task(y, t)
  OBVIOUS
<1>5. Paired(pairs, <<Task(x, t)>> \o <<Task(y, t)>>)
  BY <1>1, <1>3, <1>4, PairedFront
<1>6. <<Task(x, t)>> \o <<Task(y, t)>> \in TaskLists(ops)
  BY <1>1, TaskListsJoin
<1> QED BY <1>2, <1>5, <1>6

-----------------------------------------------------------------------------
(* The requests a call starts with. *)

LEMMA OnceEach ==
  ASSUME NEW S, IsFiniteSet(S), NEW g \in [1..Cardinality(S) -> S],
         \A i, j \in 1..Cardinality(S) : i # j => g[i] # g[j], NEW c \in S
  PROVE  \E i \in 1..Cardinality(S) : g[i] = c
<1> DEFINE n == Cardinality(S)
           R == {g[i] : i \in 1..n}
<1>1. n \in Nat /\ IsFiniteSet(1..n) /\ Cardinality(1..n) = n
  BY FS_CardinalityType, FS_Interval
<1>2. R \subseteq S
  OBVIOUS
<1>3. g \in Injection(1..n, R)
  BY DEF Injection, IsInjective
<1>4. g \in Surjection(1..n, R)
  BY <1>3 DEF Surjection, Injection
<1>5. g \in Bijection(1..n, R)
  BY <1>3, <1>4 DEF Bijection
<1>6. ExistsBijection(1..n, R)
  BY <1>5 DEF ExistsBijection
<1> HIDE DEF R, n
<1>7. IsFiniteSet(R)
  BY <1>2, FS_Subset
<1>8. Cardinality(R) = n
  BY <1>1, <1>6, <1>7, FS_CountingElements DEF n
<1>9. R = S
  BY <1>2, <1>7, <1>8, FS_Subset DEF n
<1> QED BY <1>9 DEF R, n

\* The requests of each table, joined.
LEMMA JoinedTables ==
  ASSUME NEW ops, NEW pairs, NEW n \in Nat, NEW s, s = [i \in 1..n |-> s[i]],
         \A i \in 1..n : s[i] \in TaskLists(ops) /\ Paired(pairs, s[i])
  PROVE  /\ FlattenSeq(s) \in TaskLists(ops) /\ Paired(pairs, FlattenSeq(s))
         /\ \A op, t : \A k \in 1..n : Awaits(s[k], op, t) => Awaits(FlattenSeq(s), op, t)
<1> DEFINE S == {Task(o, u) : o \in ops, u \in CollectionNames}
           U == {p \in TaskLists(ops) : Paired(pairs, p)}
<1>1. << >> \in U
  BY NoTasks, PairedNothing
<1>2. \A p \in U, q \in U : p \o q \in U
  BY TaskListsJoin, PairedJoin
<1>3. \A i \in 1..n : s[i] \in U
  OBVIOUS
<1>4. FlattenSeq(s) \in U
  <2> HIDE DEF U
  <2> QED BY <1>1, <1>2, <1>3, FlattenStays
<1>5. ASSUME NEW op, NEW t, NEW k \in 1..n, Awaits(s[k], op, t)
      PROVE  Awaits(FlattenSeq(s), op, t)
  <2> DEFINE V == {p \in TaskLists(ops) : Awaits(p, op, t)}
  <2>1. \A p \in TaskLists(ops), q \in V : p \o q \in V /\ q \o p \in V
    BY TaskListsJoin, AwaitsJoin
  <2>2. TaskLists(ops) = Seq(S)
    BY DEF TaskLists
  <2>3. s[k] \in V
    BY <1>5
  <2> HIDE DEF V, S
  <2>4. FlattenSeq(s) \in V
    BY <2>1, <2>2, <2>3, FlattenHas
  <2> QED BY <2>4 DEF V
<1> QED BY <1>4, <1>5

LEMMA InOrderIs ==
  ASSUME NEW ops, NEW pairs, NEW n \in Nat, NEW order \in [1..n -> CollectionNames], NEW tables, NEW requests,
         \A t \in CollectionNames : t \in tables => requests[t] \in TaskLists(ops) /\ Paired(pairs, requests[t])
  PROVE  /\ InOrder(order, tables, requests) \in TaskLists(ops)
         /\ Paired(pairs, InOrder(order, tables, requests))
         /\ \A op, t : \A k \in 1..n :
              order[k] \in tables /\ Awaits(requests[order[k]], op, t) => Awaits(InOrder(order, tables, requests), op, t)
<1> DEFINE s == [i \in DOMAIN order |-> IF order[i] \in tables THEN requests[order[i]] ELSE << >>]
<1>1. \A i \in 1..n : s[i] \in TaskLists(ops) /\ Paired(pairs, s[i])
  <2> TAKE i \in 1..n
  <2>1. CASE order[i] \in tables
    BY <2>1
  <2>2. CASE order[i] \notin tables
    <3>1. s[i] = << >>
      BY <2>2
    <3> HIDE DEF s
    <3> QED BY <3>1, NoTasks, PairedNothing
  <2> QED BY <2>1, <2>2
<1>2. s = [i \in 1..n |-> s[i]]
  OBVIOUS
<1>3. \A k \in 1..n : order[k] \in tables => s[k] = requests[order[k]]
  OBVIOUS
<1>4. InOrder(order, tables, requests) = FlattenSeq(s)
  BY DEF InOrder
<1> HIDE DEF s
<1>5. /\ FlattenSeq(s) \in TaskLists(ops) /\ Paired(pairs, FlattenSeq(s))
      /\ \A op, t : \A k \in 1..n : Awaits(s[k], op, t) => Awaits(FlattenSeq(s), op, t)
  BY <1>1, <1>2, JoinedTables
<1> QED BY <1>3, <1>4, <1>5

Served(ops, pairs, p, n, order, tables, requests) ==
  /\ p \in TaskLists(ops) /\ Paired(pairs, p)
  /\ \A op, t : \A k \in 1..n : order[k] \in tables /\ Awaits(requests[order[k]], op, t) => Awaits(p, op, t)

LEMMA InOrderServes ==
  ASSUME NEW ops, NEW pairs, NEW n \in Nat, NEW order \in [1..n -> CollectionNames], NEW tables, NEW requests,
         \A t \in CollectionNames : requests[t] \in TaskLists(ops) /\ Paired(pairs, requests[t])
  PROVE  Served(ops, pairs, InOrder(order, tables, requests), n, order, tables, requests)
BY InOrderIs DEF Served

SearchOps   == {"create", "configure", "delete"}
SearchPairs == {<<"delete", "create">>, <<"create", "configure">>, <<"filter", "sort">>}

\* What meilisearch starts with for a table.
StartOf(p, t) ==
  /\ index[t].there /\ ~canMigrate(t) => Awaits(p, "delete", t)
  /\ ~index[t].there \/ ~canMigrate(t) => Awaits(p, "create", t)
  /\ Awaits(p, "configure", t)

LEMMA CreateRequests ==
  ASSUME NEW t \in CollectionNames
  PROVE  /\ createIndex(t) \in TaskLists(SearchOps) /\ Paired(SearchPairs, createIndex(t))
         /\ Awaits(createIndex(t), "create", t) /\ Awaits(createIndex(t), "configure", t)
         /\ recreateIndex(t) \in TaskLists(SearchOps) /\ Paired(SearchPairs, recreateIndex(t))
         /\ Awaits(recreateIndex(t), "delete", t) /\ Awaits(recreateIndex(t), "create", t)
         /\ Awaits(recreateIndex(t), "configure", t)
         /\ <<Task("configure", t)>> \in TaskLists(SearchOps) /\ Paired(SearchPairs, <<Task("configure", t)>>)
<1> DEFINE a == <<Task("delete", t)>>  b == <<Task("create", t)>>  c == <<Task("configure", t)>>
<1>1. a \in TaskLists(SearchOps) /\ b \in TaskLists(SearchOps) /\ c \in TaskLists(SearchOps)
  BY TaskListOf DEF SearchOps
<1>2. Awaits(a, "delete", t) /\ Awaits(b, "create", t) /\ Awaits(c, "configure", t)
  BY AwaitsOne
<1>3. createIndex(t) = b \o c /\ recreateIndex(t) = a \o createIndex(t)
  BY DEF createIndex, recreateIndex
<1>4. "delete" \in SearchOps /\ "create" \in SearchOps /\ "configure" \in SearchOps
  BY DEF SearchOps
<1>5. Paired(SearchPairs, c)
  <2>1. \A q \in SearchPairs : "configure" # q[1]
    BY DEF SearchPairs
  <2>2. Paired(SearchPairs, <<Task("configure", t)>> \o << >>)
    BY <1>4, <2>1, NoTasks, PairedNothing, PairedFront
  <2>3. <<Task("configure", t)>> \o << >> = c
    OBVIOUS
  <2> QED BY <2>2, <2>3
<1>6. Paired(SearchPairs, b \o c)
  <2>1. \A q \in SearchPairs : "create" = q[1] => q[2] = "configure"
    BY DEF SearchPairs
  <2>2. c # << >> /\ Head(c) = Task("configure", t)
    OBVIOUS
  <2> HIDE DEF c
  <2> QED BY <1>1, <1>4, <1>5, <2>1, <2>2, PairedFront
<1> DEFINE d == createIndex(t)
<1>7. Head(d) = Task("create", t) /\ d # << >>
  BY DEF createIndex
<1> HIDE DEF a, b, c
<1>8. d \in TaskLists(SearchOps) /\ Paired(SearchPairs, d) /\ Awaits(d, "create", t) /\ Awaits(d, "configure", t)
  BY <1>1, <1>2, <1>3, <1>6, TaskListsJoin, AwaitsJoin
<1> HIDE DEF d
<1>9. Paired(SearchPairs, a \o d)
  <2>1. \A q \in SearchPairs : "delete" = q[1] => q[2] = "create"
    BY DEF SearchPairs
  <2> QED BY <1>4, <1>7, <1>8, <2>1, PairedFront DEF a
<1>10. a \o d \in TaskLists(SearchOps) /\ Awaits(a \o d, "delete", t) /\ Awaits(a \o d, "create", t)
       /\ Awaits(a \o d, "configure", t)
  BY <1>1, <1>2, <1>8, TaskListsJoin, AwaitsJoin
<1> QED BY <1>1, <1>3, <1>5, <1>8, <1>9, <1>10 DEF c, d

LEMMA MeilisearchStart ==
  ASSUME NEW order \in SetToSeqs(CollectionNames)
  PROVE  /\ MeilisearchTasks(order) \in TaskLists(SearchOps) /\ Paired(SearchPairs, MeilisearchTasks(order))
         /\ \A t \in CollectionNames : StartOf(MeilisearchTasks(order), t)
<1> DEFINE thereNow == {t \in CollectionNames : index[t].there}
           fresh == [t \in CollectionNames |-> createIndex(t)]
           kept == [t \in CollectionNames |-> <<Task("configure", t)>>]
           again == [t \in CollectionNames |-> recreateIndex(t)]
           p == InOrder(order, CollectionNames \ thereNow, fresh)
           q == InOrder(order, thereNow \ ToRecreate, kept)
           r == InOrder(order, ToRecreate, again)
           n == Cardinality(CollectionNames)
<1>1. n \in Nat /\ order \in [1..n -> CollectionNames]
  BY CollectionsFinite, FS_CardinalityType DEF SetToSeqs
<1>2. \A t \in CollectionNames : \E k \in 1..n : order[k] = t
  BY CollectionsFinite, OnceEach DEF SetToSeqs
<1>3. \A t \in CollectionNames : fresh[t] = createIndex(t) /\ kept[t] = <<Task("configure", t)>> /\ again[t] = recreateIndex(t)
  OBVIOUS
<1>4. MeilisearchTasks(order) = (p \o q) \o r
  BY DEF MeilisearchTasks
<1>5. \A t \in CollectionNames : (t \in thereNow <=> index[t].there) /\ (t \in ToRecreate <=> index[t].there /\ ~canMigrate(t))
  BY DEF ToRecreate
<1>6. Served(SearchOps, SearchPairs, p, n, order, CollectionNames \ thereNow, fresh)
  <2>1. \A t \in CollectionNames : fresh[t] \in TaskLists(SearchOps) /\ Paired(SearchPairs, fresh[t])
    BY <1>3, CreateRequests
  <2> HIDE DEF thereNow, fresh, n
  <2> QED BY <1>1, <2>1, InOrderServes
<1>7. Served(SearchOps, SearchPairs, q, n, order, thereNow \ ToRecreate, kept)
  <2>1. \A t \in CollectionNames : kept[t] \in TaskLists(SearchOps) /\ Paired(SearchPairs, kept[t])
    BY <1>3, CreateRequests
  <2> HIDE DEF thereNow, kept, n
  <2> QED BY <1>1, <2>1, InOrderServes
<1>8. Served(SearchOps, SearchPairs, r, n, order, ToRecreate, again)
  <2>1. \A t \in CollectionNames : again[t] \in TaskLists(SearchOps) /\ Paired(SearchPairs, again[t])
    BY <1>3, CreateRequests
  <2> HIDE DEF thereNow, again, n
  <2> QED BY <1>1, <2>1, InOrderServes
<1> HIDE DEF p, q, r, fresh, kept, again, thereNow, n
<1>9. p \o q \in TaskLists(SearchOps) /\ Paired(SearchPairs, p \o q)
  BY <1>6, <1>7, TaskListsJoin, PairedJoin DEF Served
<1>10. (p \o q) \o r \in TaskLists(SearchOps) /\ Paired(SearchPairs, (p \o q) \o r)
  BY <1>8, <1>9, TaskListsJoin, PairedJoin DEF Served
<1>11. \A op, t : Awaits(p, op, t) \/ Awaits(q, op, t) \/ Awaits(r, op, t) => Awaits((p \o q) \o r, op, t)
  BY <1>6, <1>7, <1>8, <1>9, AwaitsJoin DEF Served
<1>12. ASSUME NEW t \in CollectionNames PROVE StartOf((p \o q) \o r, t)
  <2>1. PICK k \in 1..n : order[k] = t
    BY <1>2
  <2>2. CASE ~index[t].there
    <3>1. Awaits(p, "create", t) /\ Awaits(p, "configure", t)
      BY <1>3, <1>5, <1>6, <2>1, <2>2, CreateRequests DEF Served
    <3> QED BY <1>11, <2>2, <3>1 DEF StartOf
  <2>3. CASE index[t].there /\ canMigrate(t)
    <3>1. Awaits(kept[t], "configure", t)
      BY <1>3, AwaitsOne
    <3>2. Awaits(q, "configure", t)
      BY <1>5, <1>7, <2>1, <2>3, <3>1 DEF Served
    <3> QED BY <1>11, <2>3, <3>2 DEF StartOf
  <2>4. CASE index[t].there /\ ~canMigrate(t)
    <3>1. Awaits(again[t], "delete", t) /\ Awaits(again[t], "create", t) /\ Awaits(again[t], "configure", t)
      BY <1>3, CreateRequests
    <3>2. Awaits(r, "delete", t) /\ Awaits(r, "create", t) /\ Awaits(r, "configure", t)
      BY <1>5, <1>8, <2>1, <2>4, <3>1 DEF Served
    <3> QED BY <1>11, <2>4, <3>2 DEF StartOf
  <2> QED BY <2>2, <2>3, <2>4
<1> QED BY <1>4, <1>10, <1>12

LEMMA EnginesOf ==
  /\ OpsOf("meilisearch") = {"create", "configure", "filter", "sort", "delete"}
  /\ OpsOf("mongodb") = {"createUnique", "delete", "create"}
  /\ OpsOf("neo4j") = {"createMissing", "delete", "createAgain"}
  /\ OpsOf("elasticsearch") = {"list", "delete", "put"}
  /\ Pairs("meilisearch") = SearchPairs /\ Pairs("mongodb") = {<<"delete", "create">>}
  /\ Pairs("neo4j") = {<<"delete", "createAgain">>} /\ Pairs("elasticsearch") = {}
<1>1. OpsOf("meilisearch") = {"create", "configure", "filter", "sort", "delete"} /\ Pairs("meilisearch") = SearchPairs
  BY Zenon DEF OpsOf, Pairs, SearchPairs
<1>2. OpsOf("mongodb") = {"createUnique", "delete", "create"} /\ Pairs("mongodb") = {<<"delete", "create">>}
  BY Zenon DEF OpsOf, Pairs
<1>3. OpsOf("neo4j") = {"createMissing", "delete", "createAgain"} /\ Pairs("neo4j") = {<<"delete", "createAgain">>}
  BY Zenon DEF OpsOf, Pairs
<1>4. OpsOf("elasticsearch") = {"list", "delete", "put"} /\ Pairs("elasticsearch") = {}
  BY Zenon DEF OpsOf, Pairs
<1> QED BY <1>1, <1>2, <1>3, <1>4

\* One request that nothing has to follow.
LEMMA OneRequest ==
  ASSUME NEW ops, NEW op \in ops, NEW t \in CollectionNames, NEW pairs, \A q \in pairs : op # q[1]
  PROVE  <<Task(op, t)>> \in TaskLists(ops) /\ Paired(pairs, <<Task(op, t)>>) /\ Awaits(<<Task(op, t)>>, op, t)
<1>1. Paired(pairs, <<Task(op, t)>> \o << >>)
  BY NoTasks, PairedNothing, PairedFront
<1>2. <<Task(op, t)>> \o << >> = <<Task(op, t)>>
  OBVIOUS
<1> QED BY <1>1, <1>2, TaskListOf, AwaitsOne

\* What the others start with for a table.
OthersStartOf(p, t) ==
  /\ engine = "mongodb" /\ layout[t].key # {} => Awaits(p, "createUnique", t)
  /\ engine = "neo4j" /\ layout[t].key # {} => Awaits(p, "createMissing", t)
  /\ engine = "elasticsearch" => Awaits(p, "put", t) /\ (forced => Awaits(p, "delete", t))

Sendable(p) == p \in TaskLists(OpsOf(engine)) /\ Paired(Pairs(engine), p)

LEMMA SendableNothing == Sendable(<< >>)
BY NoTasks, PairedNothing DEF Sendable

LEMMA SendableJoin ==
  ASSUME NEW p, Sendable(p), NEW q, Sendable(q)
  PROVE  /\ Sendable(p \o q)
         /\ \A op, t : Awaits(p \o q, op, t) <=> Awaits(p, op, t) \/ Awaits(q, op, t)
BY TaskListsJoin, PairedJoin, AwaitsJoin DEF Sendable

LEMMA TasksForStart ==
  ASSUME NEW t \in CollectionNames, engine \in {"mongodb", "neo4j", "elasticsearch"}
  PROVE  Sendable(TasksFor(t)) /\ OthersStartOf(TasksFor(t), t)
<1>1. CASE engine = "mongodb"
  <2>1. TasksFor(t) = getIndexTemplates(t)
    BY <1>1, Zenon DEF TasksFor
  <2>2. CASE layout[t].key = {}
    <3>1. TasksFor(t) = << >>
      BY <2>1, <2>2 DEF getIndexTemplates
    <3> QED BY <1>1, <2>2, <3>1, SendableNothing DEF OthersStartOf
  <2>3. CASE layout[t].key # {}
    <3>1. TasksFor(t) = <<Task("createUnique", t)>>
      BY <2>1, <2>3 DEF getIndexTemplates
    <3>2. Sendable(<<Task("createUnique", t)>>) /\ Awaits(<<Task("createUnique", t)>>, "createUnique", t)
      BY <1>1, EnginesOf, OneRequest DEF Sendable
    <3> QED BY <1>1, <3>1, <3>2 DEF OthersStartOf
  <2> QED BY <2>2, <2>3
<1>2. CASE engine = "neo4j"
  <2>1. TasksFor(t) = createIndexQuery(t)
    BY <1>2, Zenon DEF TasksFor
  <2>2. CASE layout[t].key = {}
    <3>1. TasksFor(t) = << >>
      BY <2>1, <2>2 DEF createIndexQuery
    <3> QED BY <1>2, <2>2, <3>1, SendableNothing DEF OthersStartOf
  <2>3. CASE layout[t].key # {}
    <3>1. TasksFor(t) = <<Task("createMissing", t)>>
      BY <2>1, <2>3 DEF createIndexQuery
    <3>2. Sendable(<<Task("createMissing", t)>>) /\ Awaits(<<Task("createMissing", t)>>, "createMissing", t)
      BY <1>2, EnginesOf, OneRequest DEF Sendable
    <3> QED BY <1>2, <3>1, <3>2 DEF OthersStartOf
  <2> QED BY <2>2, <2>3
<1>3. CASE engine = "elasticsearch"
  <2> DEFINE a == <<Task("list", t)>>  b == <<Task("delete", t)>>  c == <<Task("put", t)>>  d == deleteIndices(t)
  <2>1. TasksFor(t) = d \o c
    BY <1>3, Zenon DEF TasksFor, ElasticsearchTasks
  <2>2. Sendable(a)
    BY <1>3, EnginesOf, OneRequest DEF Sendable
  <2>3. Sendable(b) /\ Awaits(b, "delete", t)
    BY <1>3, EnginesOf, OneRequest DEF Sendable
  <2>4. Sendable(c) /\ Awaits(c, "put", t)
    BY <1>3, EnginesOf, OneRequest DEF Sendable
  <2>5. /\ ~forced => d = << >>
        /\ forced => d \in {a \o b, << >> \o b}
    BY DEF deleteIndices
  <2> HIDE DEF a, b, c, d
  <2>6. Sendable(a \o b) /\ Awaits(a \o b, "delete", t)
    BY <2>2, <2>3, SendableJoin
  <2>7. Sendable(<< >> \o b) /\ Awaits(<< >> \o b, "delete", t)
    BY <2>3, SendableNothing, SendableJoin
  <2>8. Sendable(d) /\ (forced => Awaits(d, "delete", t))
    BY <2>5, <2>6, <2>7, SendableNothing
  <2>9. Sendable(d \o c) /\ Awaits(d \o c, "put", t) /\ (forced => Awaits(d \o c, "delete", t))
    BY <2>4, <2>8, SendableJoin
  <2> QED BY <1>3, <2>1, <2>9 DEF OthersStartOf
<1> QED BY <1>1, <1>2, <1>3

AllOf(ops, pairs, p, n, s) ==
  /\ p \in TaskLists(ops) /\ Paired(pairs, p)
  /\ \A op, t : \A k \in 1..n : Awaits(s[k], op, t) => Awaits(p, op, t)

LEMMA JoinedAll ==
  ASSUME NEW ops, NEW pairs, NEW n \in Nat, NEW s, s = [i \in 1..n |-> s[i]],
         \A i \in 1..n : s[i] \in TaskLists(ops) /\ Paired(pairs, s[i])
  PROVE  AllOf(ops, pairs, FlattenSeq(s), n, s)
BY JoinedTables DEF AllOf

LEMMA OthersStart ==
  ASSUME engine \in {"mongodb", "neo4j", "elasticsearch"},
         NEW p, p = FlattenSeq([i \in DOMAIN Collections |-> TasksFor(Collections[i])])
  PROVE  Sendable(p) /\ \A t \in CollectionNames : OthersStartOf(p, t)
<1> DEFINE s == [i \in DOMAIN Collections |-> TasksFor(Collections[i])]
           n == Len(Collections)
<1>1. n \in Nat /\ DOMAIN Collections = 1..n /\ \A i \in 1..n : Collections[i] \in CollectionNames
  BY IndexesAssumption DEF CollectionNames, Range
<1>2. \A i \in 1..n : s[i] = TasksFor(Collections[i])
  BY <1>1
<1>3. \A i \in 1..n : s[i] \in TaskLists(OpsOf(engine)) /\ Paired(Pairs(engine), s[i])
  BY <1>1, <1>2, TasksForStart DEF Sendable
<1>4. s = [i \in 1..n |-> s[i]]
  BY <1>1
<1>5. p = FlattenSeq(s)
  OBVIOUS
<1> HIDE DEF s, n
<1>6. AllOf(OpsOf(engine), Pairs(engine), p, n, s)
  BY <1>1, <1>3, <1>4, <1>5, JoinedAll
<1>7. ASSUME NEW t \in CollectionNames PROVE OthersStartOf(p, t)
  <2>1. PICK k \in 1..n : Collections[k] = t
    BY <1>1 DEF CollectionNames, Range
  <2>2. OthersStartOf(s[k], t)
    BY <1>2, <2>1, TasksForStart
  <2> QED BY <1>6, <2>2 DEF AllOf, OthersStartOf
<1> QED BY <1>6, <1>7 DEF AllOf, Sendable

-----------------------------------------------------------------------------
(* The invariant of IndexFits. *)

Untouched(t) == index[t] = found[t] /\ (torn \/ found[t].sort = found[t].filter)
Configured(t) == layout[t].columns \subseteq index[t].filter /\ index[t].filter = index[t].sort

MeilisearchFits(t) ==
  /\ index[t].there /\ index[t].key # HashKey => Awaits(tasks, "delete", t)
  /\ ~index[t].there => Awaits(tasks, "create", t)
  /\ ColumnsFit(t) \/ Awaits(tasks, "configure", t) \/ Awaits(tasks, "sort", t)
  /\ Awaits(tasks, "sort", t) => Awaits(tasks, "filter", t) \/ layout[t].columns \subseteq index[t].filter
  /\ Awaits(tasks, "configure", t) =>
       Untouched(t) \/ index[t].filter = {} \/ Configured(t) \/ Awaits(tasks, "sort", t)

MongoDBFits(t) ==
  layout[t].key # {} =>
    /\ index[t].there /\ index[t].key # layout[t].key =>
         Awaits(tasks, "createUnique", t) \/ Awaits(tasks, "delete", t)
    /\ ~index[t].there /\ alien[t] # layout[t].key =>
         Awaits(tasks, "createUnique", t) \/ Awaits(tasks, "create", t)

Neo4jFits(t) ==
  /\ index[t].there => index[t].key = layout[t].key \/ index[t] = found[t]
  /\ ~index[t].there /\ layout[t].key # {} =>
       Awaits(tasks, "createMissing", t) \/ Awaits(tasks, "createAgain", t)

ElasticsearchFits(t) ==
  /\ template[t] = layout[t].columns \/ Awaits(tasks, "put", t)
  /\ forced /\ index[t].there /\ index[t].key = KeyOf(t) => Awaits(tasks, "delete", t)

IndexStands(t) ==
  /\ engine = "meilisearch" => MeilisearchFits(t)
  /\ engine = "mongodb" => MongoDBFits(t)
  /\ engine = "neo4j" => Neo4jFits(t)
  /\ engine = "elasticsearch" => ElasticsearchFits(t)

SortedWhole(t) == torn \/ index[t].sort = index[t].filter \/ (~Begun /\ Awaits(tasks, "sort", t))

\* filter and sort are sent as soon as configure has asked for them.
Early(p) ==
  \A i \in DOMAIN p :
    /\ p[i].op = "filter" => i = 1
    /\ p[i].op = "sort" => i = 1 \/ (i = 2 /\ p[1].op = "filter")

FittingInv ==
  /\ wrong \/ ~running => tasks = << >>
  /\ engine = "meilisearch" => \A t \in CollectionNames : SortedWhole(t) /\ IsFiniteSet(index[t].filter)
  /\ running => layout \in [CollectionNames -> Layouts]
  /\ DOMAIN template = CollectionNames
  /\ Begun => tasks = <<Task("begin", Head(Collections))>> /\ index = found
  /\ ~Begun => Sendable(tasks) /\ (engine = "meilisearch" => Early(tasks))
  /\ running /\ ~Begun /\ ~wrong => \A t \in CollectionNames : IndexStands(t)

-----------------------------------------------------------------------------
(* What a request does, and what follows on it. *)

LEMMA SentOf ==
  ASSUME NEW op, NEW t, IsIndex(index[t])
  PROVE  /\ op \in {"create", "createMissing", "createAgain", "createUnique"} =>
              /\ index[t].there \/ (engine = "mongodb" /\ isIndexOptionsConflictError(t)) => Sent(op, t) = index[t]
              /\ ~index[t].there /\ ~(engine = "mongodb" /\ isIndexOptionsConflictError(t)) =>
                   Sent(op, t) = Index(KeyOf(t), {}, {})
         /\ op = "delete" => Sent(op, t) = NoIndex \/ (engine = "elasticsearch" /\ index[t].key # KeyOf(t) /\ Sent(op, t) = index[t])
         /\ op = "filter" => Sent(op, t) = [key |-> index[t].key, filter |-> Attributes(t), sort |-> index[t].sort, there |-> index[t].there]
         /\ op = "sort" => Sent(op, t) = [key |-> index[t].key, filter |-> index[t].filter, sort |-> index[t].filter, there |-> index[t].there]
         /\ op \in {"configure", "list", "put"} => Sent(op, t) = index[t]
<1>1. ASSUME op \in {"create", "createMissing", "createAgain", "createUnique"}
      PROVE  /\ index[t].there \/ (engine = "mongodb" /\ isIndexOptionsConflictError(t)) => Sent(op, t) = index[t]
             /\ ~index[t].there /\ ~(engine = "mongodb" /\ isIndexOptionsConflictError(t)) =>
                  Sent(op, t) = Index(KeyOf(t), {}, {})
  <2>1. Sent(op, t) = IF index[t].there \/ (engine = "mongodb" /\ isIndexOptionsConflictError(t)) THEN index[t]
                      ELSE Index(KeyOf(t), {}, {})
    BY <1>1, Zenon DEF Sent
  <2> QED BY <2>1, Zenon
<1>2. ASSUME op = "delete"
      PROVE  Sent(op, t) = NoIndex \/ (engine = "elasticsearch" /\ index[t].key # KeyOf(t) /\ Sent(op, t) = index[t])
  <2>1. Sent(op, t) = IF engine = "elasticsearch" /\ index[t].key # KeyOf(t) THEN index[t] ELSE NoIndex
    BY <1>2, Zenon DEF Sent
  <2> QED BY <2>1, Zenon
<1>3. ASSUME op = "filter"
      PROVE  Sent(op, t) = [key |-> index[t].key, filter |-> Attributes(t), sort |-> index[t].sort, there |-> index[t].there]
  <2>1. Sent(op, t) = [index[t] EXCEPT !.filter = Attributes(t)]
    BY <1>3, Zenon DEF Sent
  <2> QED BY <2>1 DEF IsIndex
<1>4. ASSUME op = "sort"
      PROVE  Sent(op, t) = [key |-> index[t].key, filter |-> index[t].filter, sort |-> index[t].filter, there |-> index[t].there]
  <2>1. Sent(op, t) = [index[t] EXCEPT !.sort = index[t].filter]
    BY <1>4, Zenon DEF Sent
  <2> QED BY <2>1 DEF IsIndex
<1>5. ASSUME op \in {"configure", "list", "put"} PROVE Sent(op, t) = index[t]
  <2>1. op \notin {"create", "createMissing", "createAgain", "createUnique"} /\ op \notin {"delete", "filter", "sort"}
    BY <1>5
  <2> QED BY <2>1, Zenon DEF Sent
<1> QED BY <1>1, <1>2, <1>3, <1>4, <1>5

LEMMA KeyOfIs ==
  ASSUME NEW t
  PROVE  /\ engine = "meilisearch" => KeyOf(t) = HashKey
         /\ engine \in {"mongodb", "neo4j"} => KeyOf(t) = layout[t].key
<1>1. engine = "meilisearch" => KeyOf(t) = HashKey
  <2>1. engine = "meilisearch" => engine # "elasticsearch"
    OBVIOUS
  <2> QED BY <2>1, Zenon DEF KeyOf
<1>2. engine \in {"mongodb", "neo4j"} => KeyOf(t) = layout[t].key
  <2>1. engine \in {"mongodb", "neo4j"} => engine # "meilisearch" /\ engine # "elasticsearch"
    OBVIOUS
  <2> QED BY <2>1, Zenon DEF KeyOf
<1> QED BY <1>1, <1>2

\* The requests that follow on one.
Follows(op, t, o) ==
  \/ op = "configure" /\ ~ConfiguredAlready(t) /\ o \in {"filter", "sort"}
  \/ op = "createUnique" /\ isIndexConflictError(t) /\ o \in {"delete", "create"}

LEMMA TwoRequests ==
  ASSUME NEW x, NEW y, NEW t, NEW o, NEW u
  PROVE  Awaits(<<Task(x, t), Task(y, t)>>, o, u) <=> u = t /\ o \in {x, y}
<1> DEFINE a == Task(x, t)  b == Task(y, t)  p == <<a, b>>
<1>1. DOMAIN p = 1..2 /\ p[1] = a /\ p[2] = b
  OBVIOUS
<1> HIDE DEF a, b, p
<1>2. Awaits(p, o, u) <=> a = Task(o, u) \/ b = Task(o, u)
  BY <1>1 DEF Awaits
<1> QED BY <1>2, TaskIs DEF a, b, p

LEMMA FollowIs ==
  ASSUME engine \in {"meilisearch", "mongodb", "neo4j", "elasticsearch"}, NEW op \in OpsOf(engine), NEW t \in CollectionNames
  PROVE  /\ Sendable(Follow(op, t))
         /\ \A o, u : Awaits(Follow(op, t), o, u) <=> u = t /\ Follows(op, t, o)
<1>1. CASE op = "configure"
  <2>1. Follow(op, t) = IF ConfiguredAlready(t) THEN << >> ELSE <<Task("filter", t), Task("sort", t)>>
    BY <1>1, Zenon DEF Follow
  <2>2. engine = "meilisearch"
    BY <1>1, EnginesOf
  <2>3. Sendable(<<Task("filter", t), Task("sort", t)>>)
    <3>1. "filter" \in OpsOf(engine) /\ "sort" \in OpsOf(engine)
      BY <2>2, EnginesOf
    <3>2. \A q \in Pairs(engine) : ("filter" = q[1] => "sort" = q[2]) /\ "sort" # q[1]
      BY <2>2, EnginesOf DEF SearchPairs
    <3> QED BY <3>1, <3>2, PairedTwo DEF Sendable
  <2>4. CASE ConfiguredAlready(t)
    <3>1. Follow(op, t) = << >>
      BY <2>1, <2>4
    <3> QED BY <1>1, <2>4, <3>1, SendableNothing, AwaitsNothing DEF Follows
  <2>5. CASE ~ConfiguredAlready(t)
    <3>1. Follow(op, t) = <<Task("filter", t), Task("sort", t)>>
      BY <2>1, <2>5
    <3> QED BY <1>1, <2>3, <2>5, <3>1, TwoRequests DEF Follows
  <2> QED BY <2>4, <2>5
<1>2. CASE op = "createUnique"
  <2>1. Follow(op, t) = IF isIndexConflictError(t) THEN migrateTableOnConflict(t) ELSE << >>
    BY <1>2, Zenon DEF Follow
  <2>2. engine = "mongodb"
    BY <1>2, EnginesOf
  <2>3. Sendable(<<Task("delete", t), Task("create", t)>>)
    <3>1. "delete" \in OpsOf(engine) /\ "create" \in OpsOf(engine)
      BY <2>2, EnginesOf
    <3>2. \A q \in Pairs(engine) : ("delete" = q[1] => "create" = q[2]) /\ "create" # q[1]
      BY <2>2, EnginesOf
    <3> QED BY <3>1, <3>2, PairedTwo DEF Sendable
  <2>4. CASE ~isIndexConflictError(t)
    <3>1. Follow(op, t) = << >>
      BY <2>1, <2>4
    <3> QED BY <1>2, <2>4, <3>1, SendableNothing, AwaitsNothing DEF Follows
  <2>5. CASE isIndexConflictError(t)
    <3>1. Follow(op, t) = <<Task("delete", t), Task("create", t)>>
      BY <2>1, <2>5 DEF migrateTableOnConflict
    <3> QED BY <1>2, <2>3, <2>5, <3>1, TwoRequests DEF Follows
  <2> QED BY <2>4, <2>5
<1>3. CASE op \notin {"configure", "createUnique"}
  <2>1. Follow(op, t) = << >>
    BY <1>3, Zenon DEF Follow
  <2> QED BY <1>3, <2>1, SendableNothing, AwaitsNothing DEF Follows
<1> QED BY <1>1, <1>2, <1>3

\* What is awaited when the first request has been sent.
Sends(op, t, p) ==
  /\ Sendable(p)
  /\ \A o, u : Awaits(p, o, u) => (u = t /\ Follows(op, t, o)) \/ Awaits(tasks, o, u)
  /\ \A o, u : Awaits(tasks, o, u) => Awaits(p, o, u) \/ (o = op /\ u = t)
  /\ \A o : Follows(op, t, o) => Awaits(p, o, t)
  /\ \A q \in Pairs(engine) : op = q[1] => Awaits(p, q[2], t)

LEMMA FirstSent ==
  ASSUME engine \in {"meilisearch", "mongodb", "neo4j", "elasticsearch"}, Sendable(tasks), NEW op, NEW t, Sending(op, t)
  PROVE  /\ op \in OpsOf(engine) /\ t \in CollectionNames /\ Awaits(tasks, op, t)
         /\ Sends(op, t, Follow(op, t) \o Tail(tasks))
<1>1. tasks \in TaskLists(OpsOf(engine)) /\ tasks # << >> /\ Head(tasks) = Task(op, t) /\ Paired(Pairs(engine), tasks)
  BY DEF Sendable, Sending
<1>2. op \in OpsOf(engine) /\ t \in CollectionNames
  BY <1>1, SentTask
<1>3. \A o, u : Awaits(tasks, o, u) <=> Awaits(Tail(tasks), o, u) \/ Task(op, t) = Task(o, u)
  BY <1>1, AwaitsTail
<1>4. \A o, u : Awaits(tasks, o, u) <=> Awaits(Tail(tasks), o, u) \/ (o = op /\ u = t)
  BY <1>3, TaskIs
<1>5. Tail(tasks) \in TaskLists(OpsOf(engine))
  BY <1>1, TaskListParts
<1>6. /\ Paired(Pairs(engine), Tail(tasks))
      /\ \A q \in Pairs(engine) : Head(tasks).op = q[1] => Awaits(Tail(tasks), q[2], Head(tasks).table)
  BY <1>1, PairedTail
<1>7. Head(tasks).op = op /\ Head(tasks).table = t
  BY <1>1, TaskIs
<1>8. Sendable(Tail(tasks))
  BY <1>5, <1>6 DEF Sendable
<1> DEFINE f == Follow(op, t)  r == Tail(tasks)
<1>9. Sendable(f) /\ \A o, u : Awaits(f, o, u) <=> u = t /\ Follows(op, t, o)
  BY <1>2, FollowIs
<1> HIDE DEF f, r
<1>10. Sendable(f \o r) /\ \A o, u : Awaits(f \o r, o, u) <=> Awaits(f, o, u) \/ Awaits(r, o, u)
  BY <1>8, <1>9, SendableJoin DEF r
<1>11. \A q \in Pairs(engine) : op = q[1] => Awaits(r, q[2], t)
  BY <1>6, <1>7 DEF r
<1>12. \A o, u : Awaits(tasks, o, u) <=> Awaits(r, o, u) \/ (o = op /\ u = t)
  BY <1>4 DEF r
<1>13. Sends(op, t, f \o r)
  BY <1>9, <1>10, <1>11, <1>12 DEF Sends
<1> QED BY <1>2, <1>4, <1>13 DEF f, r

-----------------------------------------------------------------------------
(* A request is sent, and its table is one that the rest makes fit. *)

LEMMA NoBegin ==
  ASSUME engine \in {"meilisearch", "mongodb", "neo4j", "elasticsearch"}, NEW p, Sendable(p), p # << >>
  PROVE  Head(p).op # "begin"
<1>1. p \in TaskLists(OpsOf(engine))
  BY DEF Sendable
<1>2. Head(p) = p[1] /\ 1 \in 1..Len(p)
  BY <1>1, TaskListIs, TaskListParts
<1>3. Head(p).op \in OpsOf(engine)
  BY <1>1, <1>2, TaskListIs
<1> QED BY <1>3, EnginesOf

\* What is sent in a call, and what stays.
LEMMA SendParts ==
  ASSUME IndexInv, FittingInv, NEW op, NEW t, SendTask(op, t)
  PROVE  /\ running /\ ~wrong /\ ~Begun /\ Sendable(tasks)
         /\ op \in OpsOf(engine) /\ t \in CollectionNames /\ Awaits(tasks, op, t)
         /\ Sends(op, t, tasks') /\ index'[t] = Sent(op, t)
         /\ \A u : u # t => index'[u] = index[u]
         /\ op = "createUnique" => forced \/ ~isIndexConflictError(t)
         /\ op = "create" /\ engine = "mongodb" => ~isIndexOptionsConflictError(t)
         /\ engine' = engine /\ alien' = alien /\ layout' = layout /\ forced' = forced /\ found' = found
         /\ running' = running /\ wrong' = wrong /\ torn' = torn
         /\ template' = IF op = "put" THEN [template EXCEPT ![t] = layout[t].columns] ELSE template
<1>1. /\ Sending(op, t) /\ ApplyTask(op, t) /\ tasks' = Follow(op, t) \o Tail(tasks)
      /\ op = "createUnique" => forced \/ ~isIndexConflictError(t)
      /\ op = "create" /\ engine = "mongodb" => ~isIndexOptionsConflictError(t)
      /\ engine' = engine /\ alien' = alien /\ layout' = layout /\ forced' = forced /\ found' = found
      /\ running' = running /\ wrong' = wrong /\ torn' = torn
  BY DEF SendTask
<1>2. tasks # << >> /\ ~Begun
  BY <1>1 DEF Sending
<1>3. running /\ ~wrong /\ Sendable(tasks)
  BY <1>2 DEF FittingInv
<1>4. engine \in {"meilisearch", "mongodb", "neo4j", "elasticsearch"}
  BY IndexesAssumption DEF IndexInv
<1>5. op \in OpsOf(engine) /\ t \in CollectionNames /\ Awaits(tasks, op, t) /\ Sends(op, t, tasks')
  BY <1>1, <1>3, <1>4, FirstSent
<1>6. index' = [index EXCEPT ![t] = Sent(op, t)] /\ DOMAIN index = CollectionNames
  BY <1>1 DEF ApplyTask, IndexInv, IndexesInv
<1>7. index'[t] = Sent(op, t) /\ \A u : u # t => index'[u] = index[u]
  BY <1>5, <1>6
<1>8. template' = IF op = "put" THEN [template EXCEPT ![t] = layout[t].columns] ELSE template
  BY <1>1 DEF ApplyTask
<1> QED BY <1>1, <1>2, <1>3, <1>5, <1>7, <1>8

LEMMA ColumnsFinite ==
  ASSUME FittingInv, running, NEW t \in CollectionNames
  PROVE  IsFiniteSet(layout[t].columns)
<1>1. layout[t] \in Layouts
  BY DEF FittingInv
<1> QED BY <1>1, IndexesAssumption

\* An index that is taken for configured has no other columns.
LEMMA ConfiguredMeans ==
  ASSUME NEW t, IsFiniteSet(layout[t].columns), IsFiniteSet(index[t].filter), ConfiguredAlready(t)
  PROVE  index[t].filter # {} /\ index[t].filter \subseteq layout[t].columns
<1> DEFINE a == layout[t].columns  b == a \cup index[t].filter
<1>1. index[t].filter # {} /\ Cardinality(b) = Cardinality(a)
  BY DEF ConfiguredAlready, Attributes
<1>2. IsFiniteSet(b) /\ a \subseteq b
  BY FS_Union
<1> HIDE DEF a, b
<1>3. a = b
  BY <1>1, <1>2, FS_Subset
<1> QED BY <1>1, <1>3 DEF a, b

-----------------------------------------------------------------------------
(* meilisearch. *)

LEMMA EarlyStart ==
  ASSUME NEW p \in TaskLists(SearchOps)
  PROVE  Early(p)
<1>1. \A i \in DOMAIN p : p[i].op \in SearchOps
  BY TaskListIs
<1> QED BY <1>1 DEF Early, SearchOps

LEMMA EarlyTail ==
  ASSUME NEW ops, NEW p \in TaskLists(ops), p # << >>, Early(p)
  PROVE  /\ Early(Tail(p))
         /\ Head(p).op # "filter" => \A i \in DOMAIN Tail(p) : Tail(p)[i].op \notin {"filter", "sort"}
         /\ Head(p).op \notin {"filter", "sort"} => \A u : ~Awaits(p, "sort", u)
<1> DEFINE n == Len(p)  r == Tail(p)
<1>1. n \in Nat /\ n >= 1 /\ DOMAIN p = 1..n
  BY TaskListIs, TaskListParts
<1>2. Head(p) = p[1] /\ DOMAIN r = 1..(n - 1) /\ \A i \in 1..(n - 1) : r[i] = p[i + 1]
  BY TaskListParts
<1>3. \A i \in 1..n : (p[i].op = "filter" => i = 1) /\ (p[i].op = "sort" => i = 1 \/ (i = 2 /\ p[1].op = "filter"))
  BY <1>1 DEF Early
<1> HIDE DEF n, r
<1>4. \A i \in 1..(n - 1) : r[i].op # "filter" /\ (r[i].op = "sort" => i = 1 /\ p[1].op = "filter")
  <2> TAKE i \in 1..(n - 1)
  <2>1. i + 1 \in 1..n /\ r[i] = p[i + 1] /\ i + 1 # 1 /\ (i + 1 = 2 => i = 1)
    BY <1>1, <1>2
  <2> QED BY <1>3, <2>1
<1>5. Early(r)
  BY <1>2, <1>4 DEF Early
<1>6. ASSUME Head(p).op # "filter" PROVE \A i \in DOMAIN r : r[i].op \notin {"filter", "sort"}
  BY <1>2, <1>4, <1>6
<1>7. ASSUME Head(p).op \notin {"filter", "sort"}, NEW u, Awaits(p, "sort", u) PROVE FALSE
  <2>1. PICK i \in 1..n : p[i] = Task("sort", u)
    BY <1>1, <1>7 DEF Awaits
  <2>2. p[i].op = "sort"
    BY <2>1, TaskIs
  <2>3. i = 1 \/ p[1].op = "filter"
    BY <1>3, <2>2
  <2> QED BY <1>2, <1>7, <2>2, <2>3
<1> QED BY <1>5, <1>6, <1>7 DEF r

LEMMA EarlyFront ==
  ASSUME NEW ops, NEW p \in TaskLists(ops), \A i \in DOMAIN p : p[i].op \notin {"filter", "sort"},
         NEW f \in TaskLists(ops), Len(f) = 2, f[1].op = "filter", f[2].op = "sort"
  PROVE  Early(f \o p)
<1> DEFINE m == Len(f)  n == Len(p)  r == f \o p
<1>1. n \in Nat /\ m = 2 /\ DOMAIN p = 1..n
  BY TaskListIs
<1>2. TwoJoined(f, p)
  BY TwoJoin
<1>3. /\ DOMAIN r = 1..(m + n)
      /\ \A i \in 1..m : r[i] = f[i]
      /\ \A i \in 1..(m + n) : i > m => i - m \in 1..n /\ r[i] = p[i - m]
  BY <1>2 DEF TwoJoined
<1> HIDE DEF m, n, r
<1>4. r[1] = f[1] /\ r[2] = f[2]
  <2>1. 1 \in 1..m /\ 2 \in 1..m
    BY <1>1
  <2> QED BY <1>3, <2>1
<1>5. ASSUME NEW i \in 1..(m + n)
      PROVE  (r[i].op = "filter" => i = 1) /\ (r[i].op = "sort" => i = 1 \/ (i = 2 /\ r[1].op = "filter"))
  <2>1. CASE i > m
    <3>1. i - m \in 1..n /\ r[i] = p[i - m]
      BY <1>3, <2>1
    <3> QED BY <1>1, <3>1
  <2>2. CASE ~(i > m)
    <3>1. i = 1 \/ i = 2
      BY <1>1, <2>2
    <3> QED BY <1>4, <3>1
  <2> QED BY <2>1, <2>2
<1>6. Early(r)
  BY <1>3, <1>5 DEF Early
<1> QED BY <1>6 DEF r

LEMMA EarlySent ==
  ASSUME IndexInv, FittingInv, engine = "meilisearch", NEW op, NEW t, SendTask(op, t)
  PROVE  /\ Early(tasks')
         /\ op \notin {"filter", "sort"} => ~Awaits(tasks, "sort", t)
         /\ op = "sort" => ~Awaits(tasks, "filter", t)
<1>1. /\ ~Begun /\ Sendable(tasks) /\ op \in OpsOf(engine) /\ t \in CollectionNames
  BY SendParts
<1>2. Early(tasks)
  BY <1>1 DEF FittingInv
<1>3. tasks \in TaskLists(OpsOf(engine)) /\ tasks # << >> /\ Head(tasks) = Task(op, t)
      /\ tasks' = Follow(op, t) \o Tail(tasks)
  BY <1>1 DEF Sendable, SendTask, Sending
<1>4. Head(tasks).op = op
  BY <1>3, TaskIs
<1>5. /\ Early(Tail(tasks))
      /\ Head(tasks).op # "filter" => \A i \in DOMAIN Tail(tasks) : Tail(tasks)[i].op \notin {"filter", "sort"}
      /\ Head(tasks).op \notin {"filter", "sort"} => \A u : ~Awaits(tasks, "sort", u)
  BY <1>2, <1>3, EarlyTail
<1>6. op # "createUnique"
  BY <1>1, EnginesOf
<1>7. Tail(tasks) \in TaskLists(OpsOf(engine))
  BY <1>3, TaskListParts
<1>8. ASSUME Follow(op, t) = << >> PROVE Early(tasks')
  <2> DEFINE S == {Task(o, u) : o \in OpsOf(engine), u \in CollectionNames}  r == Tail(tasks)
  <2>1. r \in Seq(S)
    BY <1>7 DEF TaskLists
  <2> HIDE DEF S, r
  <2>2. << >> \o r = r
    BY <2>1
  <2>3. tasks' = r
    BY <1>3, <1>8, <2>2 DEF r
  <2> QED BY <1>4, <1>5, <2>3 DEF r
<1>9. ASSUME op = "configure", ~ConfiguredAlready(t) PROVE Early(tasks')
  <2> DEFINE f == <<Task("filter", t), Task("sort", t)>>
  <2>1. Follow(op, t) = IF ConfiguredAlready(t) THEN << >> ELSE f
    BY <1>9, Zenon DEF Follow
  <2>2. Follow(op, t) = f
    BY <1>9, <2>1
  <2>3. f \in TaskLists(OpsOf(engine))
    <3>1. Sendable(Follow(op, t))
      BY <1>1, FollowIs
    <3> QED BY <2>2, <3>1 DEF Sendable
  <2>4. Len(f) = 2 /\ f[1].op = "filter" /\ f[2].op = "sort"
    BY TaskIs
  <2>5. \A i \in DOMAIN Tail(tasks) : Tail(tasks)[i].op \notin {"filter", "sort"}
    BY <1>4, <1>5, <1>9
  <2> HIDE DEF f
  <2>6. Early(f \o Tail(tasks))
    BY <1>7, <2>3, <2>4, <2>5, EarlyFront
  <2> QED BY <1>3, <1>4, <1>5, <1>9, <2>2, <2>6
<1>10. op = "configure" /\ ConfiguredAlready(t) => Follow(op, t) = << >>
  <2> SUFFICES ASSUME op = "configure", ConfiguredAlready(t) PROVE Follow(op, t) = << >>
    OBVIOUS
  <2>1. Follow(op, t) = IF ConfiguredAlready(t) THEN << >> ELSE <<Task("filter", t), Task("sort", t)>>
    BY Zenon DEF Follow
  <2> QED BY <2>1
<1>11. op \notin {"configure", "createUnique"} => Follow(op, t) = << >>
  <2> SUFFICES ASSUME op \notin {"configure", "createUnique"} PROVE Follow(op, t) = << >>
    OBVIOUS
  <2> QED BY Zenon DEF Follow
<1>12. ASSUME op = "sort", Awaits(tasks, "filter", t) PROVE FALSE
  <2>1. Awaits(Tail(tasks), "filter", t) \/ Head(tasks) = Task("filter", t)
    BY <1>3, <1>12, AwaitsTail
  <2>2. Task("sort", t) # Task("filter", t)
    BY TaskIs
  <2>3. PICK i \in DOMAIN Tail(tasks) : Tail(tasks)[i] = Task("filter", t)
    BY <1>3, <1>12, <2>1, <2>2 DEF Awaits
  <2>4. Tail(tasks)[i].op = "filter"
    BY <2>3, TaskIs
  <2> QED BY <1>4, <1>5, <1>12, <2>4
<1>13. Early(tasks')
  BY <1>6, <1>8, <1>9, <1>10, <1>11
<1>14. op \notin {"filter", "sort"} => ~Awaits(tasks, "sort", t)
  BY <1>4, <1>5
<1> QED BY <1>12, <1>13, <1>14

\* What has to follow a request that waits waits as well.
LEMMA AwaitsPair ==
  ASSUME NEW p, Sendable(p), NEW x, NEW y, <<x, y>> \in Pairs(engine), NEW t, Awaits(p, x, t)
  PROVE  Awaits(p, y, t)
<1>1. PICK i \in DOMAIN p : p[i] = Task(x, t)
  BY DEF Awaits
<1>2. p[i].op = x /\ p[i].table = t
  BY <1>1, TaskIs
<1>3. \A q \in Pairs(engine) : p[i].op = q[1] => i + 1 \in DOMAIN p /\ p[i + 1] = Task(q[2], p[i].table)
  BY DEF Sendable, Paired
<1>4. <<x, y>>[1] = x /\ <<x, y>>[2] = y
  OBVIOUS
<1>5. i + 1 \in DOMAIN p /\ p[i + 1] = Task(y, t)
  BY <1>2, <1>3, <1>4
<1> QED BY <1>5 DEF Awaits

LEMMA MeilisearchSent ==
  ASSUME IndexInv, FittingInv, engine = "meilisearch", NEW op, NEW t, SendTask(op, t)
  PROVE  MeilisearchFits(t)' /\ SortedWhole(t)' /\ IsFiniteSet(index'[t].filter)
<1> DEFINE i == index[t]
           j == index'[t]
           w == layout[t].columns
           a(o) == Awaits(tasks, o, t)
           b(o) == Awaits(tasks', o, t)
<1>1. /\ running /\ ~wrong /\ ~Begun /\ Sendable(tasks)
      /\ op \in OpsOf(engine) /\ t \in CollectionNames /\ Awaits(tasks, op, t)
      /\ Sends(op, t, tasks') /\ index'[t] = Sent(op, t)
      /\ engine' = engine /\ layout' = layout /\ found' = found /\ running' = running /\ torn' = torn
  BY SendParts
<1>0. /\ op \notin {"filter", "sort"} => ~a("sort")
      /\ op = "sort" => ~a("filter")
  BY EarlySent
<1>2. op \in {"create", "configure", "filter", "sort", "delete"}
  BY <1>1, EnginesOf
<1>3. /\ \A o : b(o) => Follows(op, t, o) \/ a(o)
      /\ \A o : a(o) => b(o) \/ o = op
      /\ \A o : Follows(op, t, o) => b(o)
      /\ \A q \in Pairs(engine) : op = q[1] => b(q[2])
  BY <1>1 DEF Sends
<1>4. /\ op = "delete" => b("create")
      /\ op = "create" => b("configure")
      /\ op = "filter" => b("sort")
      /\ op = "delete" => b("configure")
  <2>1. /\ <<"delete", "create">> \in Pairs(engine) /\ <<"create", "configure">> \in Pairs(engine)
        /\ <<"filter", "sort">> \in Pairs(engine)
    BY EnginesOf DEF SearchPairs
  <2>2. b("create") => b("configure")
    BY <1>1, <2>1, AwaitsPair DEF Sends
  <2>3. \A x, y : <<x, y>>[1] = x /\ <<x, y>>[2] = y
    OBVIOUS
  <2> HIDE DEF b
  <2> QED BY <1>3, <2>1, <2>2, <2>3
<1>5. /\ op # "configure" => \A o : b(o) => a(o)
      /\ op = "configure" /\ ConfiguredAlready(t) => \A o : b(o) => a(o)
      /\ op = "configure" /\ ~ConfiguredAlready(t) => b("filter") /\ b("sort")
  <2> HIDE DEF a, b
  <2> QED BY <1>2, <1>3 DEF Follows
<1>6. IsIndex(i) /\ IsFiniteSet(i.filter) /\ IsFiniteSet(w)
  BY <1>1, ColumnsFinite DEF IndexInv, IndexesInv, FittingInv
<1>7. MeilisearchFits(t) /\ SortedWhole(t)
  BY <1>1 DEF FittingInv, IndexStands
<1>8. /\ i.there /\ i.key # HashKey => a("delete")
      /\ ~i.there => a("create")
      /\ ColumnsFit(t) \/ a("configure") \/ a("sort")
      /\ a("sort") => a("filter") \/ w \subseteq i.filter
      /\ a("configure") => Untouched(t) \/ i.filter = {} \/ Configured(t) \/ a("sort")
      /\ torn \/ i.sort = i.filter \/ a("sort")
  BY <1>7 DEF MeilisearchFits, SortedWhole
<1>9. ColumnsFit(t) <=> Configured(t) \/ (found[t].filter # {} /\ found[t].filter \subseteq w /\ Untouched(t))
  BY DEF ColumnsFit, Configured, Untouched
<1>10. /\ (Configured(t) <=> w \subseteq i.filter /\ i.filter = i.sort)
       /\ (Untouched(t) <=> i = found[t] /\ (torn \/ found[t].sort = found[t].filter))
       /\ (Configured(t)' <=> w \subseteq j.filter /\ j.filter = j.sort)
       /\ (Untouched(t)' <=> j = found[t] /\ (torn \/ found[t].sort = found[t].filter))
  BY <1>1 DEF Configured, Untouched
<1>11. (ColumnsFit(t))' <=> Configured(t)' \/ (found[t].filter # {} /\ found[t].filter \subseteq w /\ Untouched(t)')
  BY <1>1 DEF ColumnsFit, Configured, Untouched
<1>12. ~Begun'
  BY <1>1, NoBegin DEF Sends, Begun
<1>13. /\ (MeilisearchFits(t)' <=>
             /\ j.there /\ j.key # HashKey => b("delete")
             /\ ~j.there => b("create")
             /\ (ColumnsFit(t))' \/ b("configure") \/ b("sort")
             /\ b("sort") => b("filter") \/ w \subseteq j.filter
             /\ b("configure") => Untouched(t)' \/ j.filter = {} \/ Configured(t)' \/ b("sort"))
       /\ (torn \/ j.sort = j.filter \/ b("sort")) => SortedWhole(t)'
  BY <1>1, <1>12 DEF MeilisearchFits, SortedWhole, HashKey
<1>14. /\ op = "create" /\ i.there => j = i
       /\ op = "create" /\ ~i.there => j = Index(HashKey, {}, {})
       /\ op = "delete" => j = NoIndex
       /\ op = "filter" => j = [key |-> i.key, filter |-> Attributes(t), sort |-> i.sort, there |-> i.there]
       /\ op = "sort" => j = [key |-> i.key, filter |-> i.filter, sort |-> i.filter, there |-> i.there]
       /\ op = "configure" => j = i
  BY <1>1, <1>6, SentOf, KeyOfIs
<1>15. op = "configure" /\ ConfiguredAlready(t) => i.filter # {} /\ i.filter \subseteq w
  BY <1>6, ConfiguredMeans
<1>16. Attributes(t) = w \cup i.filter /\ IsFiniteSet(Attributes(t))
  BY <1>6, FS_Union DEF Attributes
<1> DEFINE now == Untouched(t)  then == Untouched(t)'  was == Configured(t)  is == Configured(t)'
           fits == ColumnsFit(t)  fit == (ColumnsFit(t))'
<1>17. (op = "create" /\ i.there) \/ op = "configure" => i = j
  BY <1>14
<1>18. op = "create" /\ ~i.there => j.there /\ j.key = HashKey /\ j.filter = {} /\ j.sort = {}
  BY <1>14 DEF Index
<1>19. op = "delete" => ~j.there /\ j.filter = {} /\ j.sort = {}
  BY <1>14 DEF NoIndex
<1>20. op = "filter" => j.key = i.key /\ j.there = i.there /\ j.sort = i.sort /\ j.filter = Attributes(t)
  BY <1>14
<1>21. op = "sort" => j.key = i.key /\ j.there = i.there /\ j.sort = i.filter /\ j.filter = i.filter
  BY <1>14
<1>22. IsFiniteSet({})
  BY FS_EmptySet
<1>23. i = j => (then <=> now) /\ (is <=> was) /\ (fit <=> fits)
  BY <1>9, <1>10, <1>11
<1>30. IsFiniteSet(j.filter)
  <2> HIDE DEF i, j
  <2> QED BY <1>2, <1>6, <1>16, <1>17, <1>18, <1>19, <1>20, <1>21, <1>22
<1> DEFINE r == MeilisearchFits(t)' /\ (torn \/ j.sort = j.filter \/ b("sort"))
<1>31. ASSUME op = "create" /\ i.there PROVE r
  <2>1. /\ ~b("sort") /\ (a("delete") => b("delete")) /\ b("configure") /\ ~a("sort") /\ a("configure")
    <3> HIDE DEF a, b
    <3> QED BY <1>0, <1>3, <1>4, <1>5, <1>31
  <2>2. j.there /\ j.key = i.key /\ j.filter = i.filter /\ j.sort = i.sort /\ (then <=> now) /\ (is <=> was)
    BY <1>17, <1>23, <1>31
  <2> HIDE DEF a, b, i, j, w
  <2> QED BY <1>8, <1>13, <1>31, <2>1, <2>2
<1>32. ASSUME op = "create" /\ ~i.there PROVE r
  <2> HIDE DEF a, b, i, j, w
  <2> QED BY <1>0, <1>3, <1>4, <1>5, <1>8, <1>13, <1>18, <1>32
<1>33. ASSUME op = "configure" /\ ConfiguredAlready(t) PROVE r
  <2>1. b("configure") => a("configure")
    <3> HIDE DEF a, b
    <3> QED BY <1>5, <1>33
  <2>2. fits
    <3>1. ~a("sort") /\ a("configure")
      BY <1>0, <1>1, <1>33
    <3>2. now \/ was
      <4> HIDE DEF a, i
      <4> QED BY <1>8, <1>15, <1>33, <3>1
    <3>3. now => found[t].filter # {} /\ found[t].filter \subseteq w
      BY <1>10, <1>15, <1>33
    <3> QED BY <1>9, <3>2, <3>3
  <2>3. ~b("sort") /\ (a("delete") => b("delete")) /\ (a("create") => b("create"))
    <3> HIDE DEF a, b
    <3> QED BY <1>0, <1>3, <1>5, <1>33
  <2>4. j.there = i.there /\ j.key = i.key /\ j.filter = i.filter /\ j.sort = i.sort /\ (then <=> now) /\ (is <=> was) /\ fit
    BY <1>17, <1>23, <1>33, <2>2
  <2>5. ~a("sort")
    BY <1>0, <1>33
  <2> HIDE DEF a, b, i, j, w
  <2> QED BY <1>8, <1>13, <2>1, <2>3, <2>4, <2>5
<1>34. ASSUME op = "configure" /\ ~ConfiguredAlready(t) PROVE r
  <2> HIDE DEF a, b, i, j, w
  <2> QED BY <1>0, <1>3, <1>5, <1>8, <1>13, <1>17, <1>23, <1>34
<1>35. ASSUME op = "filter" PROVE r
  <2>1. w \subseteq j.filter
    BY <1>16, <1>20, <1>35
  <2> HIDE DEF a, b, i, j, w
  <2> QED BY <1>3, <1>4, <1>5, <1>8, <1>13, <1>20, <1>35, <2>1
<1>36. ASSUME op = "sort" PROVE r
  <2>1. w \subseteq i.filter
    BY <1>0, <1>1, <1>8, <1>36
  <2>2. is /\ fit
    BY <1>10, <1>11, <1>21, <1>36, <2>1
  <2>3. (a("delete") => b("delete")) /\ (a("create") => b("create"))
    <3> HIDE DEF a, b
    <3> QED BY <1>3, <1>36
  <2>4. j.key = i.key /\ j.there = i.there /\ j.sort = j.filter /\ w \subseteq j.filter
    BY <1>21, <1>36, <2>1
  <2> HIDE DEF a, b, i, j, w
  <2> QED BY <1>8, <1>13, <2>2, <2>3, <2>4
<1>37. ASSUME op = "delete" PROVE r
  <2> HIDE DEF a, b, i, j, w
  <2> QED BY <1>0, <1>3, <1>4, <1>5, <1>8, <1>13, <1>19, <1>37
<1>38. r
  BY <1>2, <1>31, <1>32, <1>33, <1>34, <1>35, <1>36, <1>37
<1> QED BY <1>13, <1>30, <1>38

LEMMA MongoDBSent ==
  ASSUME IndexInv, FittingInv, engine = "mongodb", NEW op, NEW t, SendTask(op, t)
  PROVE  MongoDBFits(t)'
<1> DEFINE i == index[t]
           j == index'[t]
           k == layout[t].key
           a(o) == Awaits(tasks, o, t)
           b(o) == Awaits(tasks', o, t)
<1>1. /\ running /\ ~wrong /\ ~Begun /\ op \in OpsOf(engine) /\ t \in CollectionNames
      /\ Sends(op, t, tasks') /\ index'[t] = Sent(op, t)
      /\ op = "create" /\ engine = "mongodb" => ~isIndexOptionsConflictError(t)
      /\ engine' = engine /\ layout' = layout /\ alien' = alien
  BY SendParts
<1>2. op \in {"createUnique", "delete", "create"}
  BY <1>1, EnginesOf
<1>3. /\ \A o : a(o) => b(o) \/ o = op
      /\ \A o : Follows(op, t, o) => b(o)
  BY <1>1 DEF Sends
<1>4. op = "delete" => b("create")
  <2>1. <<"delete", "create">> \in Pairs(engine) /\ <<"delete", "create">>[1] = "delete" /\ <<"delete", "create">>[2] = "create"
    BY EnginesOf
  <2> QED BY <1>1, <2>1 DEF Sends
<1>5. op = "createUnique" /\ isIndexConflictError(t) => b("delete") /\ b("create")
  <2> HIDE DEF b
  <2> QED BY <1>3 DEF Follows
<1>6. IsIndex(i)
  BY <1>1 DEF IndexInv, IndexesInv
<1>7. MongoDBFits(t)
  BY <1>1 DEF FittingInv, IndexStands
<1>8. k # {} => /\ i.there /\ i.key # k => a("createUnique") \/ a("delete")
                /\ ~i.there /\ alien[t] # k => a("createUnique") \/ a("create")
  BY <1>7 DEF MongoDBFits
<1>9. MongoDBFits(t)' <=>
        (k # {} => /\ j.there /\ j.key # k => b("createUnique") \/ b("delete")
                   /\ ~j.there /\ alien[t] # k => b("createUnique") \/ b("create"))
  BY <1>1 DEF MongoDBFits
<1>10. /\ isIndexConflictError(t) <=> i.there /\ i.key # k
       /\ isIndexOptionsConflictError(t) <=> ~i.there /\ alien[t] = k
  BY DEF isIndexConflictError, isIndexOptionsConflictError
<1>11. /\ op \in {"createUnique", "create"} =>
            /\ i.there \/ isIndexOptionsConflictError(t) => j = i
            /\ ~i.there /\ ~isIndexOptionsConflictError(t) => j.there /\ j.key = k
       /\ op = "delete" => ~j.there
  <2>1. KeyOf(t) = k
    BY KeyOfIs
  <2> QED BY <1>1, <1>6, <2>1, SentOf DEF Index, NoIndex
<1> DEFINE r == k # {} => /\ j.there /\ j.key # k => b("createUnique") \/ b("delete")
                          /\ ~j.there /\ alien[t] # k => b("createUnique") \/ b("create")
<1>12. ASSUME op = "createUnique" PROVE r
  <2> HIDE DEF a, b, i, j, k
  <2> QED BY <1>5, <1>10, <1>11, <1>12
<1>13. ASSUME op = "delete" PROVE r
  <2> HIDE DEF a, b, i, j, k
  <2> QED BY <1>4, <1>11, <1>13
<1>14. ASSUME op = "create" PROVE r
  <2>1. (a("createUnique") => b("createUnique")) /\ (a("delete") => b("delete"))
    <3> HIDE DEF a, b
    <3> QED BY <1>3, <1>14
  <2>2. ~isIndexOptionsConflictError(t)
    BY <1>1, <1>14
  <2> HIDE DEF a, b, i, j, k
  <2> QED BY <1>8, <1>11, <1>14, <2>1, <2>2
<1> QED BY <1>2, <1>9, <1>12, <1>13, <1>14

\* The index of neo4j is sent or not; the second request follows all the same.
LEMMA Neo4jSent ==
  ASSUME NEW t, IsIndex(index[t]), engine = "neo4j", NEW op \in OpsOf(engine),
         index'[t] \in {index[t], Sent(op, t)}, layout' = layout, found' = found, NEW p, tasks' = p,
         \A o : Awaits(tasks, o, t) => Awaits(p, o, t) \/ o = op,
         index'[t] = Sent(op, t) \/ Awaits(p, op, t) \/ Awaits(p, "createAgain", t),
         op = "delete" => Awaits(p, "createAgain", t), Neo4jFits(t)
  PROVE  Neo4jFits(t)'
<1> DEFINE i == index[t]
           j == index'[t]
           k == layout[t].key
           a(o) == Awaits(tasks, o, t)
           b(o) == Awaits(p, o, t)
<1>1. op \in {"createMissing", "delete", "createAgain"}
  BY EnginesOf
<1>2. /\ i.there => i.key = k \/ i = found[t]
      /\ ~i.there /\ k # {} => a("createMissing") \/ a("createAgain")
  BY DEF Neo4jFits
<1>3. Neo4jFits(t)' <=>
        /\ j.there => j.key = k \/ j = found[t]
        /\ ~j.there /\ k # {} => b("createMissing") \/ b("createAgain")
  BY DEF Neo4jFits
<1>4. /\ op \in {"createMissing", "createAgain"} /\ j = Sent(op, t) =>
            /\ i.there => j = i
            /\ ~i.there => j.there /\ j.key = k
      /\ op = "delete" /\ j = Sent(op, t) => ~j.there
  <2>1. KeyOf(t) = k
    BY KeyOfIs
  <2> QED BY <2>1, SentOf DEF Index, NoIndex
<1>5. (op = "delete" => b("createAgain")) /\ (j = Sent(op, t) \/ b(op) \/ b("createAgain"))
  OBVIOUS
<1>6. (a("createMissing") => b("createMissing") \/ op = "createMissing") /\ (a("createAgain") => b("createAgain") \/ op = "createAgain")
  OBVIOUS
<1>7. j = i \/ j = Sent(op, t)
  OBVIOUS
<1> DEFINE s == Sent(op, t)
           r == /\ j.there => j.key = k \/ j = found[t]
                /\ ~j.there /\ k # {} => b("createMissing") \/ b("createAgain")
<1>8. ASSUME op = "delete" PROVE r
  <2> HIDE DEF a, b, i, j, k, s
  <2> QED BY <1>2, <1>4, <1>5, <1>7, <1>8 DEF s
<1>9. ASSUME op # "delete" PROVE r
  <2>1. /\ j = s /\ i.there => j = i
        /\ j = s /\ ~i.there => j.there /\ j.key = k
    BY <1>1, <1>4, <1>9
  <2>2. j = s \/ b("createMissing") \/ b("createAgain")
    <3> HIDE DEF a, b, i, j, k, s
    <3> QED BY <1>1, <1>5, <1>9 DEF s
  <2>3. j = i \/ j = s
    BY <1>7
  <2> HIDE DEF a, b, i, j, k, s
  <2> QED BY <1>2, <1>6, <2>1, <2>2, <2>3
<1> QED BY <1>3, <1>8, <1>9

LEMMA ElasticsearchSent ==
  ASSUME IndexInv, FittingInv, engine = "elasticsearch", NEW op, NEW t, SendTask(op, t)
  PROVE  ElasticsearchFits(t)'
<1> DEFINE i == index[t]
           j == index'[t]
           a(o) == Awaits(tasks, o, t)
           b(o) == Awaits(tasks', o, t)
<1>1. /\ running /\ ~wrong /\ ~Begun /\ op \in OpsOf(engine) /\ t \in CollectionNames
      /\ Sends(op, t, tasks') /\ index'[t] = Sent(op, t)
      /\ engine' = engine /\ layout' = layout /\ forced' = forced
      /\ template' = IF op = "put" THEN [template EXCEPT ![t] = layout[t].columns] ELSE template
  BY SendParts
<1>2. op \in {"list", "delete", "put"}
  BY <1>1, EnginesOf
<1>3. \A o : a(o) => b(o) \/ o = op
  BY <1>1 DEF Sends
<1>4. IsIndex(i) /\ DOMAIN template = CollectionNames /\ ElasticsearchFits(t)
  BY <1>1 DEF IndexInv, IndexesInv, FittingInv, IndexStands
<1>5. KeyOf(t)' = KeyOf(t)
  BY <1>1 DEF KeyOf, getIndexNamePattern
<1>6. /\ template[t] = layout[t].columns \/ a("put")
      /\ forced /\ i.there /\ i.key = KeyOf(t) => a("delete")
  BY <1>4 DEF ElasticsearchFits
<1>7. ElasticsearchFits(t)' <=>
        /\ template'[t] = layout[t].columns \/ b("put")
        /\ forced /\ j.there /\ j.key = KeyOf(t) => b("delete")
  BY <1>1, <1>5 DEF ElasticsearchFits
<1>8. /\ op = "put" => template'[t] = layout[t].columns
      /\ op # "put" => template'[t] = template[t]
  BY <1>1, <1>4
<1>9. /\ op \in {"list", "put"} => j = i
      /\ op = "delete" => ~j.there \/ (i.key # KeyOf(t) /\ j = i)
  BY <1>1, <1>4, SentOf DEF NoIndex
<1>10. /\ a("put") => b("put") \/ op = "put"
       /\ a("delete") => b("delete") \/ op = "delete"
  BY <1>3
<1> HIDE DEF a, b, i, j
<1> QED BY <1>2, <1>6, <1>7, <1>8, <1>9, <1>10

\* A table that a step is not about.
LEMMA OthersStand ==
  ASSUME NEW u, IndexStands(u), index'[u] = index[u], template'[u] = template[u],
         engine' = engine, alien' = alien, layout' = layout, forced' = forced, found' = found, torn' = torn,
         \A o : Awaits(tasks', o, u) <=> Awaits(tasks, o, u)
  PROVE  IndexStands(u)'
<1>1. (ColumnsFit(u))' <=> ColumnsFit(u)
  BY DEF ColumnsFit
<1>2. Untouched(u)' <=> Untouched(u)
  BY DEF Untouched
<1>3. Configured(u)' <=> Configured(u)
  BY DEF Configured
<1>4. KeyOf(u)' = KeyOf(u)
  BY DEF KeyOf, getIndexNamePattern
<1>5. MeilisearchFits(u) => MeilisearchFits(u)'
  BY <1>1, <1>2, <1>3 DEF MeilisearchFits
<1>6. MongoDBFits(u) => MongoDBFits(u)'
  BY DEF MongoDBFits
<1>7. Neo4jFits(u) => Neo4jFits(u)'
  BY DEF Neo4jFits
<1>8. ElasticsearchFits(u) => ElasticsearchFits(u)'
  BY <1>4 DEF ElasticsearchFits
<1> QED BY <1>5, <1>6, <1>7, <1>8 DEF IndexStands

LEMMA SendKeeps ==
  ASSUME IndexInv, FittingInv, NEW op, NEW t, SendTask(op, t)
  PROVE  FittingInv'
<1>1. /\ running /\ ~wrong /\ ~Begun /\ op \in OpsOf(engine) /\ t \in CollectionNames
      /\ Sends(op, t, tasks') /\ index'[t] = Sent(op, t)
      /\ \A u : u # t => index'[u] = index[u]
      /\ engine' = engine /\ alien' = alien /\ layout' = layout /\ forced' = forced /\ found' = found
      /\ running' = running /\ wrong' = wrong /\ torn' = torn
      /\ template' = IF op = "put" THEN [template EXCEPT ![t] = layout[t].columns] ELSE template
  BY SendParts
<1>2. /\ layout \in [CollectionNames -> Layouts] /\ DOMAIN template = CollectionNames
      /\ \A u \in CollectionNames : IndexStands(u)
      /\ engine = "meilisearch" => \A u \in CollectionNames : SortedWhole(u) /\ IsFiniteSet(index[u].filter)
  BY <1>1 DEF FittingInv
<1>3. engine \in {"meilisearch", "mongodb", "neo4j", "elasticsearch"}
  BY IndexesAssumption DEF IndexInv
<1>4. Sendable(tasks') /\ ~Begun'
  BY <1>1, <1>3, NoBegin DEF Sends, Begun
<1>5. ASSUME NEW u \in CollectionNames, u # t
      PROVE  index'[u] = index[u] /\ template'[u] = template[u] /\ \A o : Awaits(tasks', o, u) <=> Awaits(tasks, o, u)
  <2>1. \A o : Awaits(tasks', o, u) <=> Awaits(tasks, o, u)
    BY <1>1, <1>5 DEF Sends
  <2>2. template'[u] = template[u]
    BY <1>1, <1>2, <1>5
  <2> QED BY <1>1, <1>5, <2>1, <2>2
<1>6. engine = "meilisearch" => MeilisearchFits(t)' /\ SortedWhole(t)' /\ IsFiniteSet(index'[t].filter)
  BY MeilisearchSent
<1>7. engine = "mongodb" => MongoDBFits(t)'
  BY MongoDBSent
<1>8. engine = "elasticsearch" => ElasticsearchFits(t)'
  BY ElasticsearchSent
<1>9. engine = "neo4j" => Neo4jFits(t)'
  <2> SUFFICES ASSUME engine = "neo4j" PROVE Neo4jFits(t)'
    OBVIOUS
  <2>1. IsIndex(index[t]) /\ Neo4jFits(t)
    BY <1>1, <1>2 DEF IndexInv, IndexesInv, IndexStands
  <2>2. \A o : Awaits(tasks, o, t) => Awaits(tasks', o, t) \/ o = op
    BY <1>1 DEF Sends
  <2>3. op = "delete" => Awaits(tasks', "createAgain", t)
    <3>1. <<"delete", "createAgain">> \in Pairs(engine) /\ <<"delete", "createAgain">>[1] = "delete"
          /\ <<"delete", "createAgain">>[2] = "createAgain"
      BY EnginesOf
    <3> QED BY <1>1, <3>1 DEF Sends
  <2> DEFINE p == tasks'
  <2>4. tasks' = p
    OBVIOUS
  <2> HIDE DEF p
  <2> QED BY <1>1, <2>1, <2>2, <2>3, <2>4, Neo4jSent
<1>10. IndexStands(t)'
  BY <1>1, <1>6, <1>7, <1>8, <1>9 DEF IndexStands
<1>11. ASSUME NEW u \in CollectionNames PROVE IndexStands(u)'
  <2>1. CASE u = t
    BY <1>10, <2>1
  <2>2. CASE u # t
    BY <1>1, <1>2, <1>5, <2>2, OthersStand
  <2> QED BY <2>1, <2>2
<1>12. ASSUME engine = "meilisearch", NEW u \in CollectionNames PROVE SortedWhole(u)' /\ IsFiniteSet(index'[u].filter)
  <2>1. CASE u = t
    BY <1>6, <1>12, <2>1
  <2>2. CASE u # t
    <3>1. SortedWhole(u) /\ IsFiniteSet(index[u].filter)
      BY <1>2, <1>12
    <3>2. SortedWhole(u)'
      BY <1>1, <1>4, <1>5, <2>2, <3>1 DEF SortedWhole
    <3> QED BY <1>5, <2>2, <3>1, <3>2
  <2> QED BY <2>1, <2>2
<1>13. engine = "meilisearch" => Early(tasks')
  BY EarlySent
<1>14. DOMAIN template' = CollectionNames
  BY <1>1, <1>2
<1> QED
  <2>1. (\A u \in CollectionNames : IndexStands(u))'
    BY <1>11
  <2>2. (engine = "meilisearch" => \A u \in CollectionNames : SortedWhole(u) /\ IsFiniteSet(index[u].filter))'
    BY <1>1, <1>12
  <2>3. (engine = "meilisearch" => Early(tasks))'
    BY <1>1, <1>13
  <2>4. Sendable(tasks)'
    BY <1>1, <1>4 DEF Sendable
  <2> QED BY <1>1, <1>2, <1>4, <1>14, <2>1, <2>2, <2>3, <2>4 DEF FittingInv

\* A request fails, or its answer.
LEMMA FailKeeps ==
  ASSUME IndexInv, FittingInv, NEW op, NEW t, FailTask(op, t)
  PROVE  FittingInv'
<1>1. /\ Sending(op, t) /\ (ApplyTask(op, t) \/ (index' = index /\ template' = template))
      /\ \/ tasks' = << >> /\ wrong' = TRUE /\ torn' = TRUE
         \/ op = "createMissing" /\ forced /\ tasks' = DropAndCreate(t) \o Tail(tasks) /\ wrong' = wrong /\ torn' = torn
      /\ engine' = engine /\ alien' = alien /\ layout' = layout /\ forced' = forced /\ found' = found /\ running' = running
  BY DEF FailTask
<1>2. tasks # << >> /\ ~Begun
  BY <1>1 DEF Sending
<1>3. running /\ ~wrong /\ Sendable(tasks)
  BY <1>2 DEF FittingInv
<1>4. engine \in {"meilisearch", "mongodb", "neo4j", "elasticsearch"}
  BY IndexesAssumption DEF IndexInv
<1>5. op \in OpsOf(engine) /\ t \in CollectionNames
  BY <1>1, <1>3, <1>4, FirstSent
<1>6. /\ layout \in [CollectionNames -> Layouts] /\ DOMAIN template = CollectionNames
      /\ \A u \in CollectionNames : IndexStands(u)
      /\ engine = "meilisearch" => \A u \in CollectionNames : SortedWhole(u) /\ IsFiniteSet(index[u].filter)
  BY <1>2, <1>3 DEF FittingInv
<1>7. DOMAIN index = CollectionNames /\ \A u \in CollectionNames : IsIndex(index[u])
  BY DEF IndexInv, IndexesInv
<1>8. /\ index'[t] \in {index[t], Sent(op, t)}
      /\ \A u \in CollectionNames : u # t => index'[u] = index[u] /\ template'[u] = template[u]
      /\ DOMAIN template' = CollectionNames
  BY <1>1, <1>5, <1>6, <1>7 DEF ApplyTask
<1>9. ASSUME tasks' = << >>, wrong' = TRUE, torn' = TRUE PROVE FittingInv'
  <2>1. Sendable(tasks')  /\ ~Begun' /\ Early(tasks')
    BY <1>9, SendableNothing DEF Begun, Early
  <2>2. ASSUME engine = "meilisearch", NEW u \in CollectionNames PROVE IsFiniteSet(index'[u].filter)
    <3>1. IsFiniteSet(index[u].filter) /\ IsFiniteSet(layout[u].columns)
      BY <1>3, <1>6, <2>2, ColumnsFinite
    <3>2. index'[u] \in {index[u], Sent(op, u)}
      BY <1>8
    <3>3. op \in {"create", "configure", "filter", "sort", "delete"}
      BY <1>5, <2>2, EnginesOf
    <3>4. IsFiniteSet(Attributes(u)) /\ IsFiniteSet({})
      BY <3>1, FS_Union, FS_EmptySet DEF Attributes
    <3>5. Sent(op, u).filter \in {index[u].filter, {}, Attributes(u)}
      BY <1>7, <3>3, SentOf DEF Index, NoIndex
    <3> QED BY <3>1, <3>2, <3>4, <3>5
  <2>3. (\A u \in CollectionNames : SortedWhole(u))'
    BY <1>9 DEF SortedWhole
  <2>4. (engine = "meilisearch" => \A u \in CollectionNames : SortedWhole(u) /\ IsFiniteSet(index[u].filter))'
    BY <1>1, <2>2, <2>3
  <2>5. Sendable(tasks)' /\ Early(tasks)'
    BY <1>1, <2>1 DEF Sendable
  <2> QED BY <1>1, <1>3, <1>6, <1>8, <1>9, <2>1, <2>4, <2>5 DEF FittingInv
<1>10. ASSUME op = "createMissing", forced, tasks' = DropAndCreate(t) \o Tail(tasks), wrong' = wrong, torn' = torn
       PROVE  FittingInv'
  <2>1. engine = "neo4j"
    BY <1>4, <1>5, <1>10, EnginesOf
  <2>2. tasks \in TaskLists(OpsOf(engine)) /\ Paired(Pairs(engine), tasks) /\ Head(tasks) = Task(op, t)
    BY <1>1, <1>3 DEF Sendable, Sending
  <2> DEFINE d == DropAndCreate(t)  r == Tail(tasks)
  <2>3. Sendable(r)
    BY <1>2, <2>2, TaskListParts, PairedTail DEF Sendable
  <2>4. \A o, u : Awaits(tasks, o, u) <=> Awaits(r, o, u) \/ (o = op /\ u = t)
    <3>1. \A o, u : Awaits(tasks, o, u) <=> Awaits(r, o, u) \/ Task(op, t) = Task(o, u)
      BY <1>2, <2>2, AwaitsTail
    <3> QED BY <3>1, TaskIs
  <2>5. d = <<Task("delete", t), Task("createAgain", t)>>
    BY DEF DropAndCreate
  <2>6. Sendable(d)
    <3>1. "delete" \in OpsOf(engine) /\ "createAgain" \in OpsOf(engine)
      BY <2>1, EnginesOf
    <3>2. \A q \in Pairs(engine) : ("delete" = q[1] => "createAgain" = q[2]) /\ "createAgain" # q[1]
      BY <2>1, EnginesOf
    <3> QED BY <1>5, <2>5, <3>1, <3>2, PairedTwo DEF Sendable
  <2>7. \A o, u : Awaits(d, o, u) <=> u = t /\ o \in {"delete", "createAgain"}
    BY <2>5, TwoRequests
  <2> HIDE DEF d, r
  <2>8. Sendable(d \o r) /\ \A o, u : Awaits(d \o r, o, u) <=> Awaits(d, o, u) \/ Awaits(r, o, u)
    BY <2>3, <2>6, SendableJoin
  <2> DEFINE p == d \o r
  <2>9. tasks' = p
    BY <1>10 DEF d, r
  <2> HIDE DEF p
  <2>10. /\ \A o : Awaits(tasks, o, t) => Awaits(p, o, t) \/ o = op
         /\ Awaits(p, "createAgain", t)
         /\ \A u : u # t => \A o : Awaits(p, o, u) <=> Awaits(tasks, o, u)
    BY <2>4, <2>7, <2>8 DEF p
  <2>11. Sendable(p) /\ p = tasks' /\ ~Begun'
    <3>1. Sendable(p)
      BY <2>8 DEF p
    <3> QED BY <1>4, <2>9, <3>1, NoBegin DEF Begun
  <2>12. Neo4jFits(t)'
    <3>1. IsIndex(index[t]) /\ Neo4jFits(t)
      BY <1>5, <1>6, <1>7, <2>1 DEF IndexStands
    <3> QED BY <1>1, <1>5, <1>8, <2>1, <2>9, <2>10, <3>1, Neo4jSent
  <2>13. IndexStands(t)'
    BY <1>1, <2>1, <2>12 DEF IndexStands
  <2>14. ASSUME NEW u \in CollectionNames PROVE IndexStands(u)'
    <3>1. CASE u = t
      BY <2>13, <3>1
    <3>2. CASE u # t
      BY <1>1, <1>6, <1>8, <1>10, <2>9, <2>10, <3>2, OthersStand
    <3> QED BY <3>1, <3>2
  <2>15. (\A u \in CollectionNames : IndexStands(u))'
    BY <2>14
  <2>16. Sendable(tasks)'
    BY <1>1, <2>11 DEF Sendable
  <2> QED BY <1>1, <1>3, <1>6, <1>8, <1>10, <2>1, <2>11, <2>15, <2>16 DEF FittingInv
<1> QED BY <1>1, <1>9, <1>10

LEMMA TasksAmong ==
  ASSUME NEW ops, NEW more, ops \subseteq more, NEW p \in TaskLists(ops)
  PROVE  p \in TaskLists(more)
<1> DEFINE S == {Task(o, u) : o \in ops, u \in CollectionNames}
           T == {Task(o, u) : o \in more, u \in CollectionNames}
<1>1. S \subseteq T
  OBVIOUS
<1>2. p \in Seq(S)
  BY DEF TaskLists
<1> HIDE DEF S, T
<1>3. p \in Seq(T)
  BY <1>1, <1>2
<1> QED BY <1>3 DEF T, TaskLists

LEMMA FittingInit == IndexInit => FittingInv
<1> SUFFICES ASSUME IndexInit PROVE FittingInv
  OBVIOUS
<1>1. tasks = << >> /\ ~running /\ index = found /\ ~Begun /\ Early(tasks) /\ Sendable(tasks)
  BY SendableNothing DEF IndexInit, Begun, Early
<1>2. ASSUME NEW t \in CollectionNames PROVE SortedWhole(t) /\ IsFiniteSet(index[t].filter)
  <2>1. index[t] \in {NoIndex, Index({"own"}, {}, {})}
    BY DEF IndexInit
  <2>2. index[t].filter = {} /\ index[t].sort = {}
    BY <2>1 DEF NoIndex, Index
  <2> QED BY <2>2, FS_EmptySet DEF SortedWhole
<1>3. DOMAIN template = CollectionNames
  BY DEF IndexInit
<1> QED BY <1>1, <1>2, <1>3 DEF FittingInv

\* A call begins.
LEMMA AskKeeps ==
  ASSUME FittingInv, AskIndexes
  PROVE  FittingInv'
<1>1. /\ ~running /\ layout' \in [CollectionNames -> Layouts] /\ found' = index /\ running' = TRUE
      /\ wrong' = FALSE /\ tasks' = <<Task("begin", Head(Collections))>>
      /\ engine' = engine /\ index' = index /\ template' = template /\ torn' = torn
  BY DEF AskIndexes
<1>2. tasks = << >>
  BY <1>1 DEF FittingInv
<1>3. Begun'
  <2>1. tasks' # << >> /\ Head(tasks') = Task("begin", Head(Collections))
    BY <1>1
  <2> QED BY <1>1, <2>1, TaskIs DEF Begun
<1>4. engine = "meilisearch" => \A t \in CollectionNames : SortedWhole(t) /\ IsFiniteSet(index[t].filter)
  BY DEF FittingInv
<1>5. ASSUME engine = "meilisearch", NEW t \in CollectionNames PROVE SortedWhole(t)' /\ IsFiniteSet(index'[t].filter)
  <2>1. torn \/ index[t].sort = index[t].filter
    BY <1>2, <1>4, <1>5, AwaitsNothing DEF SortedWhole
  <2> QED BY <1>1, <1>4, <1>5, <2>1 DEF SortedWhole
<1>6. (engine = "meilisearch" => \A t \in CollectionNames : SortedWhole(t) /\ IsFiniteSet(index[t].filter))'
  BY <1>1, <1>5
<1>7. DOMAIN template = CollectionNames
  BY DEF FittingInv
<1> QED BY <1>1, <1>3, <1>6, <1>7 DEF FittingInv

\* meilisearch has looked at all indexes.
LEMMA StartMeilisearchKeeps ==
  ASSUME IndexInv, FittingInv, StartMeilisearch
  PROVE  FittingInv'
<1>1. /\ Begun /\ engine = "meilisearch" /\ \E order \in SetToSeqs(CollectionNames) : tasks' = MeilisearchTasks(order)
      /\ engine' = engine /\ index' = index /\ template' = template /\ layout' = layout /\ found' = found
      /\ running' = running /\ wrong' = wrong /\ torn' = torn
  BY DEF StartMeilisearch
<1>2. running /\ index = found /\ ~wrong /\ tasks # << >>
  BY <1>1 DEF FittingInv, Begun
<1>3. PICK order \in SetToSeqs(CollectionNames) : tasks' = MeilisearchTasks(order)
  BY <1>1
<1> DEFINE p == MeilisearchTasks(order)
<1>4. p \in TaskLists(SearchOps) /\ Paired(SearchPairs, p) /\ \A t \in CollectionNames : StartOf(p, t)
  BY MeilisearchStart
<1> HIDE DEF p
<1>5. tasks' = p
  BY <1>3 DEF p
<1>6. OpsOf(engine) = {"create", "configure", "filter", "sort", "delete"} /\ Pairs(engine) = SearchPairs
  BY <1>1, EnginesOf
<1>7. SearchOps \subseteq OpsOf(engine)
  BY <1>6 DEF SearchOps
<1>8. Sendable(p)
  BY <1>4, <1>6, <1>7, TasksAmong DEF Sendable
<1>9. ~Begun'
  BY <1>1, <1>5, <1>8, NoBegin DEF Begun
<1>10. Early(p)
  BY <1>4, EarlyStart
<1>11. \A t \in CollectionNames : ~Awaits(p, "sort", t)
  BY <1>4, AwaitsIn DEF SearchOps
<1>12. ASSUME NEW t \in CollectionNames PROVE SortedWhole(t)' /\ IsFiniteSet(index'[t].filter) /\ MeilisearchFits(t)'
  <2>1. SortedWhole(t) /\ IsFiniteSet(index[t].filter)
    BY <1>1 DEF FittingInv
  <2>2. torn \/ index[t].sort = index[t].filter
    BY <1>1, <2>1 DEF SortedWhole
  <2>3. Untouched(t)'
    BY <1>1, <1>2, <2>2 DEF Untouched
  <2>4. /\ index[t].there /\ index[t].key # HashKey => Awaits(p, "delete", t)
        /\ ~index[t].there => Awaits(p, "create", t)
        /\ Awaits(p, "configure", t)
    BY <1>4 DEF StartOf, canMigrate
  <2>5. MeilisearchFits(t)'
    BY <1>1, <1>5, <1>11, <2>3, <2>4 DEF MeilisearchFits, HashKey
  <2> QED BY <1>1, <2>1, <2>2, <2>5 DEF SortedWhole
<1>13. (\A t \in CollectionNames : IndexStands(t))'
  <2>1. ASSUME NEW t \in CollectionNames PROVE IndexStands(t)'
    BY <1>1, <1>12 DEF IndexStands
  <2> QED BY <2>1
<1>14. (engine = "meilisearch" => \A t \in CollectionNames : SortedWhole(t) /\ IsFiniteSet(index[t].filter))'
  BY <1>12
<1>15. Sendable(tasks)' /\ Early(tasks)'
  BY <1>1, <1>5, <1>8, <1>10 DEF Sendable
<1>16. (wrong \/ ~running => tasks = << >>)' /\ (running => layout \in [CollectionNames -> Layouts] /\ DOMAIN template = CollectionNames)'
  BY <1>1, <1>2 DEF FittingInv
<1> QED BY <1>1, <1>2, <1>9, <1>13, <1>14, <1>15, <1>16 DEF FittingInv

\* The others have theirs, table after table.
LEMMA StartOthersKeeps ==
  ASSUME IndexInv, FittingInv, StartOthers
  PROVE  FittingInv'
<1> DEFINE p == FlattenSeq([i \in DOMAIN Collections |-> TasksFor(Collections[i])])
<1>1. /\ Begun /\ engine # "meilisearch" /\ tasks' = p
      /\ engine' = engine /\ index' = index /\ template' = template /\ layout' = layout /\ found' = found
      /\ alien' = alien /\ forced' = forced /\ running' = running /\ wrong' = wrong /\ torn' = torn
  BY DEF StartOthers
<1>2. running /\ index = found /\ ~wrong
  BY <1>1 DEF FittingInv, Begun
<1>3. engine \in {"mongodb", "neo4j", "elasticsearch"}
  BY <1>1, IndexesAssumption DEF IndexInv
<1>4. Sendable(p) /\ \A t \in CollectionNames : OthersStartOf(p, t)
  BY <1>3, OthersStart
<1> HIDE DEF p
<1>5. ~Begun'
  BY <1>1, <1>3, <1>4, NoBegin DEF Begun
<1>6. ASSUME NEW t \in CollectionNames PROVE IndexStands(t)'
  <2>1. /\ engine = "mongodb" /\ layout[t].key # {} => Awaits(p, "createUnique", t)
        /\ engine = "neo4j" /\ layout[t].key # {} => Awaits(p, "createMissing", t)
        /\ engine = "elasticsearch" => Awaits(p, "put", t) /\ (forced => Awaits(p, "delete", t))
    BY <1>4 DEF OthersStartOf
  <2>2. engine = "mongodb" => MongoDBFits(t)'
    BY <1>1, <2>1 DEF MongoDBFits
  <2>3. engine = "neo4j" => Neo4jFits(t)'
    BY <1>1, <1>2, <2>1 DEF Neo4jFits
  <2>4. engine = "elasticsearch" => ElasticsearchFits(t)'
    BY <1>1, <2>1 DEF ElasticsearchFits
  <2> QED BY <1>1, <2>2, <2>3, <2>4 DEF IndexStands
<1>7. (\A t \in CollectionNames : IndexStands(t))'
  BY <1>6
<1>8. Sendable(tasks)'
  BY <1>1, <1>4 DEF Sendable
<1>9. (wrong \/ ~running => tasks = << >>)' /\ (running => layout \in [CollectionNames -> Layouts] /\ DOMAIN template = CollectionNames)'
  BY <1>1, <1>2 DEF FittingInv
<1> QED BY <1>1, <1>5, <1>7, <1>8, <1>9 DEF FittingInv

\* A call that is refused, or returns, and a document that is written.
LEMMA RefuseKeeps ==
  ASSUME IndexInv, FittingInv, RefuseMeilisearch \/ \E t \in CollectionNames : RefuseMongoDB(t)
  PROVE  FittingInv'
<1>1. /\ running /\ tasks' = << >> /\ wrong' = TRUE /\ engine' = engine /\ index' = index /\ template' = template
      /\ layout' = layout /\ running' = running /\ torn' = torn
      /\ Begun \/ \E t \in CollectionNames : Sending("createUnique", t)
  <2>1. CASE RefuseMeilisearch
    BY <2>1 DEF RefuseMeilisearch, Begun
  <2>2. CASE \E t \in CollectionNames : RefuseMongoDB(t)
    <3>1. running
      BY <2>2 DEF RefuseMongoDB, Sending, FittingInv
    <3> QED BY <2>2, <3>1 DEF RefuseMongoDB
  <2> QED BY <2>1, <2>2
<1>2. engine \in {"meilisearch", "mongodb", "neo4j", "elasticsearch"}
  BY IndexesAssumption DEF IndexInv
<1>3. engine = "meilisearch" => Begun
  <2> SUFFICES ASSUME engine = "meilisearch", NEW t \in CollectionNames, Sending("createUnique", t) PROVE FALSE
    BY <1>1
  <2>1. Sendable(tasks)
    BY DEF Sending, FittingInv
  <2>2. "createUnique" \in OpsOf(engine)
    BY <1>2, <2>1, FirstSent
  <2> QED BY <2>2, EnginesOf
<1>4. ASSUME engine = "meilisearch", NEW t \in CollectionNames PROVE SortedWhole(t)' /\ IsFiniteSet(index'[t].filter)
  <2>1. SortedWhole(t) /\ IsFiniteSet(index[t].filter)
    BY <1>4 DEF FittingInv
  <2> QED BY <1>1, <1>3, <1>4, <2>1 DEF SortedWhole
<1>5. (engine = "meilisearch" => \A t \in CollectionNames : SortedWhole(t) /\ IsFiniteSet(index[t].filter))'
  BY <1>1, <1>4
<1>6. ~Begun' /\ Sendable(tasks') /\ Early(tasks')
  BY <1>1, SendableNothing DEF Begun, Early
<1>7. Sendable(tasks)' /\ Early(tasks)'
  BY <1>1, <1>6 DEF Sendable
<1>8. (wrong \/ ~running => tasks = << >>)' /\ (running => layout \in [CollectionNames -> Layouts] /\ DOMAIN template = CollectionNames)'
  BY <1>1 DEF FittingInv
<1> QED BY <1>1, <1>5, <1>6, <1>7, <1>8 DEF FittingInv

LEMMA RestKeeps ==
  ASSUME FittingInv, tasks = << >>, tasks' = << >>, running' = FALSE, engine' = engine, torn' = torn,
         index' = index \/ engine = "elasticsearch", template' = template
  PROVE  FittingInv'
<1>1. ~Begun /\ ~Begun' /\ Early(tasks')
  BY DEF Begun, Early
<1>2. Sendable(tasks') /\ \A t : ~Awaits(tasks, "sort", t)
  BY SendableNothing, AwaitsNothing
<1>3. ASSUME engine = "meilisearch", NEW t \in CollectionNames PROVE SortedWhole(t)' /\ IsFiniteSet(index'[t].filter)
  <2>1. index' = index
    BY <1>3
  <2>2. SortedWhole(t) /\ IsFiniteSet(index[t].filter)
    BY <1>3 DEF FittingInv
  <2> QED BY <1>1, <1>2, <2>1, <2>2 DEF SortedWhole
<1>4. (engine = "meilisearch" => \A t \in CollectionNames : SortedWhole(t) /\ IsFiniteSet(index[t].filter))'
  BY <1>3
<1>5. Sendable(tasks)' /\ Early(tasks)'
  BY <1>1, <1>2 DEF Sendable
<1> QED BY <1>1, <1>4, <1>5 DEF FittingInv

LEMMA FittingSame ==
  ASSUME FittingInv, UNCHANGED indexVars
  PROVE  FittingInv'
<1>1. /\ engine' = engine /\ index' = index /\ alien' = alien /\ template' = template /\ layout' = layout
      /\ forced' = forced /\ found' = found /\ tasks' = tasks /\ running' = running /\ wrong' = wrong /\ torn' = torn
  BY DEF indexVars
<1>2. Begun' <=> Begun
  BY <1>1 DEF Begun
<1>3. ASSUME NEW t \in CollectionNames, IndexStands(t) PROVE IndexStands(t)'
  BY <1>1, <1>3, OthersStand
<1>4. ASSUME NEW t, SortedWhole(t) PROVE SortedWhole(t)'
  BY <1>1, <1>2, <1>4 DEF SortedWhole
<1>5. Sendable(tasks)' <=> Sendable(tasks)
  BY <1>1 DEF Sendable
<1>6. (engine = "meilisearch" => \A t \in CollectionNames : SortedWhole(t) /\ IsFiniteSet(index[t].filter))'
  BY <1>1, <1>4 DEF FittingInv
<1>7. (running /\ ~Begun /\ ~wrong => \A t \in CollectionNames : IndexStands(t))'
  BY <1>1, <1>2, <1>3 DEF FittingInv
<1> QED BY <1>1, <1>2, <1>5, <1>6, <1>7 DEF FittingInv

LEMMA FittingStep == IndexInv /\ FittingInv /\ [IndexNext]_indexVars => FittingInv'
<1> SUFFICES ASSUME IndexInv, FittingInv, [IndexNext]_indexVars PROVE FittingInv'
  OBVIOUS
<1>1. ASSUME NEW t \in CollectionNames, WriteDocument(t) PROVE FittingInv'
  <2>1. ~running /\ tasks' = tasks /\ running' = running /\ engine' = engine /\ torn' = torn /\ template' = template /\ engine = "elasticsearch"
    BY <1>1 DEF WriteDocument
  <2>2. tasks = << >> /\ running' = FALSE
    BY <2>1, <1>1 DEF FittingInv, WriteDocument
  <2> QED BY <2>1, <2>2, RestKeeps
<1>2. CASE ReturnIndexes
  BY <1>2, RestKeeps DEF ReturnIndexes
<1>3. CASE UNCHANGED indexVars
  BY <1>3, FittingSame
<1>4. CASE RefuseMeilisearch \/ \E t \in CollectionNames : RefuseMongoDB(t)
  BY <1>4, RefuseKeeps
<1> QED BY <1>1, <1>2, <1>3, <1>4, AskKeeps, StartMeilisearchKeeps, StartOthersKeeps, SendKeeps, FailKeeps DEF IndexNext

LEMMA FittingMeans == IndexInv /\ FittingInv => IndexFits
<1> SUFFICES ASSUME IndexInv, FittingInv, Migrated, NEW t \in CollectionNames
             PROVE  CASE engine = "meilisearch"   -> index[t].key = HashKey /\ ColumnsFit(t)
                      [] engine = "mongodb"       -> layout[t].key # {} => layout[t].key \in {index[t].key, alien[t]}
                      [] engine = "neo4j"         ->
                           layout[t].key # {} => index[t].key = layout[t].key \/ (found[t].there /\ index[t] = found[t])
                      [] engine = "elasticsearch" ->
                           /\ template[t] = layout[t].columns
                           /\ forced => ~index[t].there \/ index[t].key # KeyOf(t)
  BY DEF IndexFits
<1>1. tasks = << >> /\ ~Begun /\ running /\ ~wrong
  BY DEF Migrated, Begun
<1>2. IndexStands(t) /\ \A o : ~Awaits(tasks, o, t)
  BY <1>1, AwaitsNothing DEF FittingInv
<1>3. engine = "meilisearch" => index[t].key = HashKey /\ ColumnsFit(t)
  BY <1>2 DEF IndexStands, MeilisearchFits
<1>4. engine = "mongodb" => (layout[t].key # {} => layout[t].key \in {index[t].key, alien[t]})
  BY <1>2 DEF IndexStands, MongoDBFits
<1>5. engine = "neo4j" => (layout[t].key # {} => index[t].key = layout[t].key \/ (found[t].there /\ index[t] = found[t]))
  BY <1>2 DEF IndexStands, Neo4jFits
<1>6. engine = "elasticsearch" => /\ template[t] = layout[t].columns
                                  /\ forced => ~index[t].there \/ index[t].key # KeyOf(t)
  BY <1>2 DEF IndexStands, ElasticsearchFits
<1>7. engine \in {"meilisearch", "mongodb", "neo4j", "elasticsearch"}
  BY IndexesAssumption DEF IndexInv
<1> QED BY <1>3, <1>4, <1>5, <1>6, <1>7

\* The invariant of a call: an index that is not as wanted has a request
\* that waits for it, and what a request needs is behind it.
THEOREM FittingInvariant == IndexSpec => [](IndexInv /\ FittingInv)
BY IndexInitInv, IndexStep, FittingInit, FittingStep, PTL DEF IndexSpec

\* A call that succeeds leaves the indexes that were wanted, whatever it found
\* and whatever failed before.
THEOREM MigratedIndexesFit == IndexSpec => []IndexFits
BY FittingInvariant, FittingMeans, PTL

-----------------------------------------------------------------------------
(* ColumnTypes. Two tables take a type of Arrow to one of SQL, and one of  *)
(* SQL to one of Arrow, with what is taken where a table has nothing. A    *)
(* type stays if it is what the type it is created with is listed as,      *)
(* under each of its names.                                                *)

SQLNames(d, sql) == Aliases(d, sql) \cup {sql}
Stays(d, toSql, other, toArrow, noCase, types) ==
  \A t \in types : \A name \in SQLNames(d, Among(toSql, t, other)) : Among(toArrow, name, noCase) = t

ListedAs(toArrow, noCase) == {toArrow[s] : s \in DOMAIN toArrow} \cup {noCase}

\* What CrateDB has for the types of Arrow, and for lists of them.
CrateDBListsAs == {"string", "timestamp_us", "bool", "int16", "int32", "int64", "float32", "float64"}
CrateDBAs == CrateDBListsAs \cup {"json", "inet"}

HasRoom(base, as) ==
  /\ Bits[base][1] <= Among(Bits, as, <<64, 64>>)[1]
  /\ Bits[base][2] <= Among(Bits, as, <<64, 64>>)[2]

LEMMA DuckDBTypes ==
  /\ Stays("duckdb", arrowToDuckDB, "varchar", duckDBToArrow, "string", ListedAs(duckDBToArrow, "string"))
  /\ \A t \in DOMAIN Bits : HasRoom(t, Among(duckDBToArrow, Among(arrowToDuckDB, t, "varchar"), "string"))
<1>1. Stays("duckdb", arrowToDuckDB, "varchar", duckDBToArrow, "string", ListedAs(duckDBToArrow, "string"))
  BY OverIn, OverAt, SameIn, SameHas, SMTT(60)
     DEF Stays, SQLNames, Aliases, ListedAs, Among, arrowToDuckDB, duckDBToArrow, Signed, Unsigned, Timestamps, Times
<1>2. \A t \in DOMAIN Bits : HasRoom(t, Among(duckDBToArrow, Among(arrowToDuckDB, t, "varchar"), "string"))
  BY OverIn, OverAt, SameIn, SameHas, SMTT(60)
     DEF HasRoom, Bits, Among, arrowToDuckDB, duckDBToArrow, Signed, Unsigned, Timestamps, Times
<1> QED BY <1>1, <1>2

LEMMA MySQLTypes ==
  /\ Stays("mysql", arrowTypeToMySqlStr, "text", mySQLTypeToArrowType, "string", ListedAs(mySQLTypeToArrowType, "string"))
  /\ \A t \in DOMAIN Bits : HasRoom(t, Among(mySQLTypeToArrowType, Among(arrowTypeToMySqlStr, t, "text"), "string"))
<1>1. Stays("mysql", arrowTypeToMySqlStr, "text", mySQLTypeToArrowType, "string", ListedAs(mySQLTypeToArrowType, "string"))
  BY OverIn, OverAt, SameIn, SameHas, SMTT(60)
     DEF Stays, SQLNames, Aliases, ListedAs, Among, arrowTypeToMySqlStr, mySQLTypeToArrowType, Signed, Unsigned, Timestamps, Times
<1>2. \A t \in DOMAIN Bits : HasRoom(t, Among(mySQLTypeToArrowType, Among(arrowTypeToMySqlStr, t, "text"), "string"))
  BY OverIn, OverAt, SameIn, SameHas, SMTT(60)
     DEF HasRoom, Bits, Among, arrowTypeToMySqlStr, mySQLTypeToArrowType, Signed, Unsigned, Timestamps, Times
<1> QED BY <1>1, <1>2

LEMMA MSSQLTypes ==
  /\ Stays("mssql", SQLType, "nvarchar_max", SchemaType, "large_string", ListedAs(SchemaType, "large_string"))
  /\ \A t \in DOMAIN Bits \ {"uint64"} : HasRoom(t, Among(SchemaType, Among(SQLType, t, "nvarchar_max"), "large_string"))
<1>1. Stays("mssql", SQLType, "nvarchar_max", SchemaType, "large_string", ListedAs(SchemaType, "large_string"))
  BY OverIn, OverAt, SameIn, SameHas, SMTT(60)
     DEF Stays, SQLNames, Aliases, ListedAs, Among, SQLType, SchemaType, Upscaled, Signed, Unsigned, Timestamps, Times
<1>2. \A t \in DOMAIN Bits \ {"uint64"} : HasRoom(t, Among(SchemaType, Among(SQLType, t, "nvarchar_max"), "large_string"))
  BY OverIn, OverAt, SameIn, SameHas, SMTT(60)
     DEF HasRoom, Bits, Among, SQLType, SchemaType, Upscaled, Signed, Unsigned, Timestamps, Times
<1> QED BY <1>1, <1>2

LEMMA PostgreSQLTypes ==
  /\ Stays("postgresql", ArrowToPg10, "text", Pg10ToArrow, "string", ListedAs(Pg10ToArrow, "string"))
  /\ \A t \in DOMAIN Bits : HasRoom(t, Among(Pg10ToArrow, Among(ArrowToPg10, t, "text"), "string"))
<1>1. Stays("postgresql", ArrowToPg10, "text", Pg10ToArrow, "string", ListedAs(Pg10ToArrow, "string"))
  BY OverIn, OverAt, SameIn, SameHas, SMTT(60)
     DEF Stays, SQLNames, Aliases, ListedAs, Among, ArrowToPg10, Pg10ToArrow, Signed, Unsigned, Timestamps, Times
<1>2. \A t \in DOMAIN Bits : HasRoom(t, Among(Pg10ToArrow, Among(ArrowToPg10, t, "text"), "string"))
  BY OverIn, OverAt, SameIn, SameHas, SMTT(60)
     DEF HasRoom, Bits, Among, ArrowToPg10, Pg10ToArrow, Signed, Unsigned, Timestamps, Times
<1> QED BY <1>1, <1>2

LEMMA CockroachDBTypes ==
  /\ Stays("cockroachdb", ArrowToCockroach, "text", CockroachToArrow, "string", ListedAs(CockroachToArrow, "string"))
  /\ \A t \in DOMAIN Bits : HasRoom(t, Among(CockroachToArrow, Among(ArrowToCockroach, t, "text"), "string"))
<1>1. Stays("cockroachdb", ArrowToCockroach, "text", CockroachToArrow, "string", ListedAs(CockroachToArrow, "string"))
  BY OverIn, OverAt, SameIn, SameHas, SMTT(60)
     DEF Stays, SQLNames, Aliases, ListedAs, Among, ArrowToCockroach, CockroachToArrow, ArrowToPg10, Pg10ToArrow, Signed, Unsigned, Timestamps, Times
<1>2. \A t \in DOMAIN Bits : HasRoom(t, Among(CockroachToArrow, Among(ArrowToCockroach, t, "text"), "string"))
  BY OverIn, OverAt, SameIn, SameHas, SMTT(60)
     DEF HasRoom, Bits, Among, ArrowToCockroach, CockroachToArrow, ArrowToPg10, Pg10ToArrow, Signed, Unsigned, Timestamps, Times
<1> QED BY <1>1, <1>2

LEMMA CrateDBTypes ==
  /\ Stays("cratedb", ArrowToCrateDB, "text", CrateDBToArrow, "string", CrateDBAs)
  /\ \A t \in ArrowTypes : Among(CrateDBToArrow, Among(ArrowToCrateDB, t, "text"), "string") \in CrateDBAs
  /\ \A t \in DOMAIN Bits : HasRoom(t, Among(CrateDBToArrow, Among(ArrowToCrateDB, t, "text"), "string"))
<1>1. Stays("cratedb", ArrowToCrateDB, "text", CrateDBToArrow, "string", CrateDBAs)
  BY OverIn, OverAt, SameIn, SameHas, SMTT(60)
     DEF Stays, SQLNames, Aliases, CrateDBAs, CrateDBListsAs, Among, ArrowToCrateDB, CrateDBToArrow, ArrowToPg10, Pg10ToArrow, Signed, Unsigned, Timestamps, Times
<1>2. \A t \in ArrowTypes : Among(CrateDBToArrow, Among(ArrowToCrateDB, t, "text"), "string") \in CrateDBAs
  BY OverIn, OverAt, SameIn, SameHas, SMTT(60)
     DEF ArrowTypes, CrateDBAs, CrateDBListsAs, Among, ArrowToCrateDB, CrateDBToArrow, ArrowToPg10, Pg10ToArrow, Signed, Unsigned, Timestamps, Times
<1>3. \A t \in DOMAIN Bits : HasRoom(t, Among(CrateDBToArrow, Among(ArrowToCrateDB, t, "text"), "string"))
  BY OverIn, OverAt, SameIn, SameHas, SMTT(60)
     DEF HasRoom, Bits, Among, ArrowToCrateDB, CrateDBToArrow, ArrowToPg10, Pg10ToArrow, Signed, Unsigned, Timestamps, Times
<1> QED BY <1>1, <1>2, <1>3

LEMMA CrateDBListsTypes ==
  /\ Stays("cratedb", ArrowToCrateDB, "text", Pg10ToArrow, "string", CrateDBListsAs)
  /\ \A t \in ArrowTypes : Among(Pg10ToArrow, Among(ArrowToCrateDB, t, "text"), "string") \in CrateDBListsAs
  /\ \A t \in DOMAIN Bits : HasRoom(t, Among(Pg10ToArrow, Among(ArrowToCrateDB, t, "text"), "string"))
<1>1. Stays("cratedb", ArrowToCrateDB, "text", Pg10ToArrow, "string", CrateDBListsAs)
  BY OverIn, OverAt, SameIn, SameHas, SMTT(60)
     DEF Stays, SQLNames, Aliases, CrateDBAs, CrateDBListsAs, Among, ArrowToCrateDB, Pg10ToArrow, ArrowToPg10, Signed, Unsigned, Timestamps, Times
<1>2. \A t \in ArrowTypes : Among(Pg10ToArrow, Among(ArrowToCrateDB, t, "text"), "string") \in CrateDBListsAs
  BY OverIn, OverAt, SameIn, SameHas, SMTT(60)
     DEF ArrowTypes, CrateDBAs, CrateDBListsAs, Among, ArrowToCrateDB, Pg10ToArrow, ArrowToPg10, Signed, Unsigned, Timestamps, Times
<1>3. \A t \in DOMAIN Bits : HasRoom(t, Among(Pg10ToArrow, Among(ArrowToCrateDB, t, "text"), "string"))
  BY OverIn, OverAt, SameIn, SameHas, SMTT(60)
     DEF HasRoom, Bits, Among, ArrowToCrateDB, Pg10ToArrow, ArrowToPg10, Signed, Unsigned, Timestamps, Times
<1> QED BY <1>1, <1>2, <1>3

LEMMA SnowflakeTypes ==
  /\ Stays("snowflake", SchemaTypeToSnowflake, "text", SnowflakeToSchemaType, "string", ListedAs(SnowflakeToSchemaType, "string"))
<1>1. Stays("snowflake", SchemaTypeToSnowflake, "text", SnowflakeToSchemaType, "string", ListedAs(SnowflakeToSchemaType, "string"))
  BY OverIn, OverAt, SameIn, SameHas, SMTT(60)
     DEF Stays, SQLNames, Aliases, ListedAs, Among, SchemaTypeToSnowflake, SnowflakeToSchemaType, Signed, Unsigned, Timestamps, Times
<1> QED BY <1>1

LEMMA ClickHouseTypes ==
  /\ Stays("clickhouse", ColumnType, "String", fieldFromColumn, "string", ListedAs(fieldFromColumn, "string"))
  /\ \A t \in DOMAIN Bits : HasRoom(t, Among(fieldFromColumn, Among(ColumnType, t, "String"), "string"))
<1>1. Stays("clickhouse", ColumnType, "String", fieldFromColumn, "string", ListedAs(fieldFromColumn, "string"))
  BY OverIn, OverAt, SameIn, SameHas, SMTT(60)
     DEF Stays, SQLNames, Aliases, ListedAs, Among, ColumnType, fieldFromColumn, Signed, Unsigned, Timestamps, Times
<1>2. \A t \in DOMAIN Bits : HasRoom(t, Among(fieldFromColumn, Among(ColumnType, t, "String"), "string"))
  BY OverIn, OverAt, SameIn, SameHas, SMTT(60)
     DEF HasRoom, Bits, Among, ColumnType, fieldFromColumn, Signed, Unsigned, Timestamps, Times
<1> QED BY <1>1, <1>2

\* What TypesKept says of a column: how it is listed, and what it holds.
Relisted(d, t) ==
  \A name \in SQLNames(d, CreatedType(d, Normalized(d, t)).base) :
    Listed(d, Typed(name, CreatedType(d, Normalized(d, t)).lists)) = Normalized(d, t)
Roomy(d, t) ==
  t.base \in DOMAIN Bits /\ (t.base = "uint64" => d \notin WithoutUint64) =>
    /\ Bits[t.base][1] <= Holds(d, CreatedType(d, Normalized(d, t)))[1]
    /\ Bits[t.base][2] <= Holds(d, CreatedType(d, Normalized(d, t)))[2]

LEMMA BitsAre == \A t \in DOMAIN Bits : Bits[t][1] \in 0..64 /\ Bits[t][2] \in 0..64
BY DEF Bits

LEMMA ListedIn ==
  ASSUME NEW toArrow, NEW noCase, NEW sql
  PROVE  Among(toArrow, sql, noCase) \in ListedAs(toArrow, noCase)
BY DEF Among, ListedAs

LEMMA RelistedAs ==
  ASSUME NEW d, NEW base, NEW n, NEW toSql, NEW other, NEW toArrow, NEW noCase, NEW types,
         Stays(d, toSql, other, toArrow, noCase, types),
         Among(toArrow, Among(toSql, base, other), noCase) \in types,
         \A t : CreatedType(d, Typed(t, n)) = Typed(Among(toSql, t, other), n),
         \A s : Listed(d, Typed(s, n)) = Typed(Among(toArrow, s, noCase), n),
         Normalized(d, Typed(base, n)) = Listed(d, CreatedType(d, Typed(base, n)))
  PROVE  /\ Relisted(d, Typed(base, n))
         /\ Listed(d, CreatedType(d, Normalized(d, Typed(base, n)))).base = Among(toArrow, Among(toSql, base, other), noCase)
<1> DEFINE t == Among(toArrow, Among(toSql, base, other), noCase)
           s == Among(toSql, t, other)
<1>1. Normalized(d, Typed(base, n)) = Typed(t, n)
  OBVIOUS
<1>2. CreatedType(d, Typed(t, n)) = Typed(s, n)
  OBVIOUS
<1>3. \A name \in SQLNames(d, s) : Among(toArrow, name, noCase) = t
  BY DEF Stays
<1>4. s \in SQLNames(d, s)
  BY DEF SQLNames
<1>5. Listed(d, Typed(s, n)) = Typed(t, n)
  BY <1>3, <1>4
<1> HIDE DEF t, s
<1>6. CreatedType(d, Typed(t, n)).base = s /\ CreatedType(d, Typed(t, n)).lists = n
  BY <1>2 DEF Typed
<1>7. \A name \in SQLNames(d, s) : Listed(d, Typed(name, n)) = Typed(t, n)
  BY <1>3
<1>8. Relisted(d, Typed(base, n))
  BY <1>1, <1>6, <1>7 DEF Relisted
<1>9. Listed(d, CreatedType(d, Normalized(d, Typed(base, n)))).base = t
  BY <1>1, <1>2, <1>5 DEF Typed
<1> QED BY <1>8, <1>9 DEF t

LEMMA RoomyAs ==
  ASSUME NEW d, NEW base, NEW n, d \notin {"snowflake", "bigquery"},
         NEW as, Listed(d, CreatedType(d, Normalized(d, Typed(base, n)))).base = as,
         base \in DOMAIN Bits /\ (base = "uint64" => d \notin WithoutUint64) => HasRoom(base, as)
  PROVE  Roomy(d, Typed(base, n))
<1>1. Holds(d, CreatedType(d, Normalized(d, Typed(base, n)))) = Among(Bits, as, <<64, 64>>)
  BY DEF Holds
<1>2. Typed(base, n).base = base
  BY DEF Typed
<1> QED BY <1>1, <1>2 DEF Roomy, HasRoom

LEMMA SnowflakeRoomy == ASSUME NEW t PROVE Roomy("snowflake", t)
BY BitsAre DEF Roomy, Holds

LEMMA DuckDBKeeps ==
  ASSUME NEW base \in ArrowTypes, NEW n \in Nat
  PROVE  Relisted("duckdb", Typed(base, n)) /\ Roomy("duckdb", Typed(base, n))
<1>1. \A t : CreatedType("duckdb", Typed(t, n)) = Typed(Among(arrowToDuckDB, t, "varchar"), n)
  BY DEF CreatedType, Typed, ListColumn
<1>2. \A s : Listed("duckdb", Typed(s, n)) = Typed(Among(duckDBToArrow, s, "string"), n)
  BY DEF Listed, Typed
<1>3. Normalized("duckdb", Typed(base, n)) = Listed("duckdb", CreatedType("duckdb", Typed(base, n)))
  BY DEF Normalized
<1>4. /\ Relisted("duckdb", Typed(base, n))
     /\ Listed("duckdb", CreatedType("duckdb", Normalized("duckdb", Typed(base, n)))).base = Among(duckDBToArrow, Among(arrowToDuckDB, base, "varchar"), "string")
  BY <1>1, <1>2, <1>3, DuckDBTypes, ListedIn, RelistedAs
<1>5. Roomy("duckdb", Typed(base, n))
  BY <1>4, DuckDBTypes, RoomyAs DEF WithoutUint64
<1> QED BY <1>4, <1>5

LEMMA MySQLKeeps ==
  ASSUME NEW base \in ArrowTypes, NEW n \in Nat
  PROVE  Relisted("mysql", Typed(base, n)) /\ Roomy("mysql", Typed(base, n))
<1>1. CASE n = 0
  <2>1. \A t : CreatedType("mysql", Typed(t, n)) = Typed(Among(arrowTypeToMySqlStr, t, "text"), n)
    BY <1>1 DEF CreatedType, Typed, ListColumn
  <2>2. \A s : Listed("mysql", Typed(s, n)) = Typed(Among(mySQLTypeToArrowType, s, "string"), n)
    BY <1>1 DEF Listed, Typed
  <2>3. Normalized("mysql", Typed(base, n)) = Listed("mysql", CreatedType("mysql", Typed(base, n)))
    BY DEF Normalized
  <2>4. /\ Relisted("mysql", Typed(base, n))
       /\ Listed("mysql", CreatedType("mysql", Normalized("mysql", Typed(base, n)))).base = Among(mySQLTypeToArrowType, Among(arrowTypeToMySqlStr, base, "text"), "string")
    BY <2>1, <2>2, <2>3, MySQLTypes, ListedIn, RelistedAs
  <2>5. Roomy("mysql", Typed(base, n))
    BY <2>4, MySQLTypes, RoomyAs DEF WithoutUint64
  <2> QED BY <2>4, <2>5
<1>2. CASE n > 0
  <2>1. Normalized("mysql", Typed(base, n)) = Typed("json", 0)
    <3>1. CreatedType("mysql", Typed(base, n)) = Typed("json", 0)
      BY <1>2 DEF CreatedType, Typed, ListColumn
    <3>2. Among(mySQLTypeToArrowType, "json", "string") = "json"
      BY DEF Among, mySQLTypeToArrowType
    <3>3. Listed("mysql", Typed("json", 0)) = Typed("json", 0)
      BY <3>2 DEF Listed, Typed
    <3> QED BY <3>1, <3>3 DEF Normalized
  <2>2. Among(arrowTypeToMySqlStr, "json", "text") = "json"
    BY OverIn, OverAt, SameIn, SameHas DEF Among, arrowTypeToMySqlStr, mySQLTypeToArrowType, Timestamps, Signed, Unsigned
  <2>3. CreatedType("mysql", Typed("json", 0)) = Typed("json", 0)
    BY <2>2 DEF CreatedType, Typed
  <2>4. \A name \in SQLNames("mysql", "json") : Among(mySQLTypeToArrowType, name, "string") = "json"
    BY DEF SQLNames, Aliases, Among, mySQLTypeToArrowType
  <2>5. \A name \in SQLNames("mysql", "json") : Listed("mysql", Typed(name, 0)) = Typed("json", 0)
    BY <2>4 DEF Listed, Typed
  <2>6. Relisted("mysql", Typed(base, n))
    BY <2>1, <2>3, <2>5 DEF Relisted, Typed
  <2>7. Listed("mysql", CreatedType("mysql", Normalized("mysql", Typed(base, n)))).base = "json"
    BY <2>1, <2>3, <2>5 DEF SQLNames, Typed
  <2>8. base \in DOMAIN Bits => HasRoom(base, "json")
    BY BitsAre DEF HasRoom, Among, Bits
  <2>9. Roomy("mysql", Typed(base, n))
    BY <2>7, <2>8, RoomyAs
  <2> QED BY <2>6, <2>9
<1> QED BY <1>1, <1>2

LEMMA MSSQLKeeps ==
  ASSUME NEW base \in ArrowTypes, NEW n \in Nat
  PROVE  Relisted("mssql", Typed(base, n)) /\ Roomy("mssql", Typed(base, n))
<1>1. CASE n = 0
  <2>1. \A t : CreatedType("mssql", Typed(t, n)) = Typed(Among(SQLType, t, "nvarchar_max"), n)
    BY <1>1 DEF CreatedType, Typed, ListColumn
  <2>2. \A s : Listed("mssql", Typed(s, n)) = Typed(Among(SchemaType, s, "large_string"), n)
    BY <1>1 DEF Listed, Typed
  <2>3. Normalized("mssql", Typed(base, n)) = Listed("mssql", CreatedType("mssql", Typed(base, n)))
    BY DEF Normalized
  <2>4. /\ Relisted("mssql", Typed(base, n))
       /\ Listed("mssql", CreatedType("mssql", Normalized("mssql", Typed(base, n)))).base = Among(SchemaType, Among(SQLType, base, "nvarchar_max"), "large_string")
    BY <2>1, <2>2, <2>3, MSSQLTypes, ListedIn, RelistedAs
  <2>5. Roomy("mssql", Typed(base, n))
    BY <2>4, MSSQLTypes, RoomyAs DEF WithoutUint64
  <2> QED BY <2>4, <2>5
<1>2. CASE n > 0
  <2>1. Normalized("mssql", Typed(base, n)) = Typed("large_string", 0)
    <3>1. CreatedType("mssql", Typed(base, n)) = Typed("nvarchar_max", 0)
      BY <1>2 DEF CreatedType, Typed, ListColumn
    <3>2. Among(SchemaType, "nvarchar_max", "large_string") = "large_string"
      BY DEF Among, SchemaType
    <3>3. Listed("mssql", Typed("nvarchar_max", 0)) = Typed("large_string", 0)
      BY <3>2 DEF Listed, Typed
    <3> QED BY <3>1, <3>3 DEF Normalized
  <2>2. Among(SQLType, "large_string", "nvarchar_max") = "nvarchar_max"
    BY OverIn, OverAt, SameIn, SameHas DEF Among, SQLType, SchemaType, Upscaled, Timestamps, Signed, Unsigned
  <2>3. CreatedType("mssql", Typed("large_string", 0)) = Typed("nvarchar_max", 0)
    BY <2>2 DEF CreatedType, Typed
  <2>4. \A name \in SQLNames("mssql", "nvarchar_max") : Among(SchemaType, name, "large_string") = "large_string"
    BY DEF SQLNames, Aliases, Among, SchemaType
  <2>5. \A name \in SQLNames("mssql", "nvarchar_max") : Listed("mssql", Typed(name, 0)) = Typed("large_string", 0)
    BY <2>4 DEF Listed, Typed
  <2>6. Relisted("mssql", Typed(base, n))
    BY <2>1, <2>3, <2>5 DEF Relisted, Typed
  <2>7. Listed("mssql", CreatedType("mssql", Normalized("mssql", Typed(base, n)))).base = "large_string"
    BY <2>1, <2>3, <2>5 DEF SQLNames, Typed
  <2>8. base \in DOMAIN Bits => HasRoom(base, "large_string")
    BY BitsAre DEF HasRoom, Among, Bits
  <2>9. Roomy("mssql", Typed(base, n))
    BY <2>7, <2>8, RoomyAs
  <2> QED BY <2>6, <2>9
<1> QED BY <1>1, <1>2

LEMMA PostgreSQLKeeps ==
  ASSUME NEW base \in ArrowTypes, NEW n \in Nat
  PROVE  Relisted("postgresql", Typed(base, n)) /\ Roomy("postgresql", Typed(base, n))
<1>1. \A t : CreatedType("postgresql", Typed(t, n)) = Typed(Among(ArrowToPg10, t, "text"), n)
  BY DEF CreatedType, Typed, ListColumn
<1>2. \A s : Listed("postgresql", Typed(s, n)) = Typed(Among(Pg10ToArrow, s, "string"), n)
  BY DEF Listed, Typed
<1>3. Normalized("postgresql", Typed(base, n)) = Listed("postgresql", CreatedType("postgresql", Typed(base, n)))
  BY DEF Normalized
<1>4. /\ Relisted("postgresql", Typed(base, n))
     /\ Listed("postgresql", CreatedType("postgresql", Normalized("postgresql", Typed(base, n)))).base = Among(Pg10ToArrow, Among(ArrowToPg10, base, "text"), "string")
  BY <1>1, <1>2, <1>3, PostgreSQLTypes, ListedIn, RelistedAs
<1>5. Roomy("postgresql", Typed(base, n))
  BY <1>4, PostgreSQLTypes, RoomyAs DEF WithoutUint64
<1> QED BY <1>4, <1>5

LEMMA CockroachDBKeeps ==
  ASSUME NEW base \in ArrowTypes, NEW n \in Nat
  PROVE  Relisted("cockroachdb", Typed(base, n)) /\ Roomy("cockroachdb", Typed(base, n))
<1>1. \A t : CreatedType("cockroachdb", Typed(t, n)) = Typed(Among(ArrowToCockroach, t, "text"), n)
  BY DEF CreatedType, Typed, ListColumn
<1>2. \A s : Listed("cockroachdb", Typed(s, n)) = Typed(Among(CockroachToArrow, s, "string"), n)
  BY DEF Listed, Typed
<1>3. Normalized("cockroachdb", Typed(base, n)) = Listed("cockroachdb", CreatedType("cockroachdb", Typed(base, n)))
  BY DEF Normalized
<1>4. /\ Relisted("cockroachdb", Typed(base, n))
     /\ Listed("cockroachdb", CreatedType("cockroachdb", Normalized("cockroachdb", Typed(base, n)))).base = Among(CockroachToArrow, Among(ArrowToCockroach, base, "text"), "string")
  BY <1>1, <1>2, <1>3, CockroachDBTypes, ListedIn, RelistedAs
<1>5. Roomy("cockroachdb", Typed(base, n))
  BY <1>4, CockroachDBTypes, RoomyAs DEF WithoutUint64
<1> QED BY <1>4, <1>5

LEMMA CrateDBKeeps ==
  ASSUME NEW base \in ArrowTypes, NEW n \in Nat
  PROVE  Relisted("cratedb", Typed(base, n)) /\ Roomy("cratedb", Typed(base, n))
<1>1. CASE n = 0
  <2>1. \A t : CreatedType("cratedb", Typed(t, n)) = Typed(Among(ArrowToCrateDB, t, "text"), n)
    BY <1>1 DEF CreatedType, Typed, ListColumn
  <2>2. \A s : Listed("cratedb", Typed(s, n)) = Typed(Among(CrateDBToArrow, s, "string"), n)
    BY <1>1 DEF Listed, Typed
  <2>3. Normalized("cratedb", Typed(base, n)) = Listed("cratedb", CreatedType("cratedb", Typed(base, n)))
    BY DEF Normalized
  <2>4. /\ Relisted("cratedb", Typed(base, n))
       /\ Listed("cratedb", CreatedType("cratedb", Normalized("cratedb", Typed(base, n)))).base = Among(CrateDBToArrow, Among(ArrowToCrateDB, base, "text"), "string")
    BY <2>1, <2>2, <2>3, CrateDBTypes, RelistedAs
  <2>5. Roomy("cratedb", Typed(base, n))
    BY <2>4, CrateDBTypes, RoomyAs DEF WithoutUint64
  <2> QED BY <2>4, <2>5
<1>2. CASE n # 0
  <2>1. \A t : CreatedType("cratedb", Typed(t, n)) = Typed(Among(ArrowToCrateDB, t, "text"), n)
    BY <1>2 DEF CreatedType, Typed, ListColumn
  <2>2. \A s : Listed("cratedb", Typed(s, n)) = Typed(Among(Pg10ToArrow, s, "string"), n)
    BY <1>2 DEF Listed, Typed
  <2>3. Normalized("cratedb", Typed(base, n)) = Listed("cratedb", CreatedType("cratedb", Typed(base, n)))
    BY DEF Normalized
  <2>4. /\ Relisted("cratedb", Typed(base, n))
       /\ Listed("cratedb", CreatedType("cratedb", Normalized("cratedb", Typed(base, n)))).base = Among(Pg10ToArrow, Among(ArrowToCrateDB, base, "text"), "string")
    BY <2>1, <2>2, <2>3, CrateDBListsTypes, RelistedAs
  <2>5. Roomy("cratedb", Typed(base, n))
    BY <2>4, CrateDBListsTypes, RoomyAs DEF WithoutUint64
  <2> QED BY <2>4, <2>5
<1> QED BY <1>1, <1>2

LEMMA SnowflakeKeeps ==
  ASSUME NEW base \in ArrowTypes, NEW n \in Nat
  PROVE  Relisted("snowflake", Typed(base, n)) /\ Roomy("snowflake", Typed(base, n))
<1>1. CASE n = 0
  <2>1. \A t : CreatedType("snowflake", Typed(t, n)) = Typed(Among(SchemaTypeToSnowflake, t, "text"), n)
    BY <1>1 DEF CreatedType, Typed, ListColumn
  <2>2. \A s : Listed("snowflake", Typed(s, n)) = Typed(Among(SnowflakeToSchemaType, s, "string"), n)
    BY <1>1 DEF Listed, Typed
  <2>3. Normalized("snowflake", Typed(base, n)) = Listed("snowflake", CreatedType("snowflake", Typed(base, n)))
    BY DEF Normalized
  <2>4. /\ Relisted("snowflake", Typed(base, n))
       /\ Listed("snowflake", CreatedType("snowflake", Normalized("snowflake", Typed(base, n)))).base = Among(SnowflakeToSchemaType, Among(SchemaTypeToSnowflake, base, "text"), "string")
    BY <2>1, <2>2, <2>3, SnowflakeTypes, ListedIn, RelistedAs
  <2>5. Roomy("snowflake", Typed(base, n))
    BY SnowflakeRoomy
  <2> QED BY <2>4, <2>5
<1>2. CASE n > 0
  <2>1. Normalized("snowflake", Typed(base, n)) = Typed("json", 0)
    <3>1. CreatedType("snowflake", Typed(base, n)) = Typed("array", 0)
      BY <1>2 DEF CreatedType, Typed, ListColumn
    <3>2. Among(SnowflakeToSchemaType, "array", "string") = "json"
      BY DEF Among, SnowflakeToSchemaType
    <3>3. Listed("snowflake", Typed("array", 0)) = Typed("json", 0)
      BY <3>2 DEF Listed, Typed
    <3> QED BY <3>1, <3>3 DEF Normalized
  <2>2. Among(SchemaTypeToSnowflake, "json", "text") = "variant"
    BY OverIn, OverAt, SameIn, SameHas DEF Among, SchemaTypeToSnowflake, SnowflakeToSchemaType, Timestamps, Signed, Unsigned
  <2>3. CreatedType("snowflake", Typed("json", 0)) = Typed("variant", 0)
    BY <2>2 DEF CreatedType, Typed
  <2>4. \A name \in SQLNames("snowflake", "variant") : Among(SnowflakeToSchemaType, name, "string") = "json"
    BY DEF SQLNames, Aliases, Among, SnowflakeToSchemaType
  <2>5. \A name \in SQLNames("snowflake", "variant") : Listed("snowflake", Typed(name, 0)) = Typed("json", 0)
    BY <2>4 DEF Listed, Typed
  <2>6. Relisted("snowflake", Typed(base, n))
    BY <2>1, <2>3, <2>5 DEF Relisted, Typed
  <2>7. Roomy("snowflake", Typed(base, n))
    BY SnowflakeRoomy
  <2> QED BY <2>6, <2>7
<1> QED BY <1>1, <1>2

LEMMA ClickHouseStays ==
  ASSUME NEW base \in ArrowTypes, NEW n \in Nat
  PROVE  Relisted("clickhouse", Typed(base, n)) /\ Roomy("clickhouse", Typed(base, n))
<1>1. \A t : CreatedType("clickhouse", Typed(t, n)) = Typed(Among(ColumnType, t, "String"), n)
  BY DEF CreatedType, Typed, ListColumn
<1>2. \A s : Listed("clickhouse", Typed(s, n)) = Typed(Among(fieldFromColumn, s, "string"), n)
  BY DEF Listed, Typed
<1>3. Normalized("clickhouse", Typed(base, n)) = Listed("clickhouse", CreatedType("clickhouse", Typed(base, n)))
  BY DEF Normalized
<1>4. /\ Relisted("clickhouse", Typed(base, n))
     /\ Listed("clickhouse", CreatedType("clickhouse", Normalized("clickhouse", Typed(base, n)))).base = Among(fieldFromColumn, Among(ColumnType, base, "String"), "string")
  BY <1>1, <1>2, <1>3, ClickHouseTypes, ListedIn, RelistedAs
<1>5. Roomy("clickhouse", Typed(base, n))
  BY <1>4, ClickHouseTypes, RoomyAs DEF WithoutUint64
<1> QED BY <1>4, <1>5

LEMMA SQLiteTypes ==
  \A t \in {"int64", "float64", "timestamp_us", "bool", "large_string"} :
    sqliteTypeToArrowType[Among(arrowTypeToSqliteStr, t, "text")] = t
BY OverIn, OverAt, SameIn, SameHas, SMTT(60)
   DEF Among, arrowTypeToSqliteStr, sqliteTypeToArrowType, Signed, Unsigned, Timestamps

LEMMA SQLiteKeeps ==
  ASSUME NEW base \in ArrowTypes, NEW n \in Nat
  PROVE  Relisted("sqlite", Typed(base, n)) /\ Roomy("sqlite", Typed(base, n))
<1> DEFINE types == {"int64", "float64", "timestamp_us", "bool", "large_string"}
           t == IF n = 0 THEN Among(arrowTypeToSqlite, base, "large_string") ELSE "large_string"
           s == Among(arrowTypeToSqliteStr, t, "text")
<1>1. t \in types
  <2>1. Among(arrowTypeToSqlite, base, "large_string") \in types
    BY OverIn, OverAt, SameIn, SameHas, SMTT(60)
       DEF Among, arrowTypeToSqlite, ArrowTypes, Signed, Unsigned, Timestamps, Times
  <2> QED BY <2>1
<1>2. base \in DOMAIN Bits /\ base # "uint64" => HasRoom(base, t)
  <2>1. base \in DOMAIN Bits => Among(arrowTypeToSqlite, base, "large_string") = "int64"
    BY OverIn, OverAt, SameIn, SameHas, SMTT(60)
       DEF Among, arrowTypeToSqlite, Bits, Signed, Unsigned, Timestamps
  <2>2. base \in DOMAIN Bits => t \in {"int64", "large_string"}
    BY <2>1
  <2> HIDE DEF t
  <2> QED BY <2>2 DEF HasRoom, Among, Bits
<1>3. Normalized("sqlite", Typed(base, n)) = Typed(t, 0)
  BY DEF Normalized, Typed
<1> HIDE DEF t
<1>4. sqliteTypeToArrowType[s] = t
  BY <1>1, SQLiteTypes
<1>5. CreatedType("sqlite", Typed(t, 0)) = Typed(s, 0)
  BY DEF CreatedType, Typed
<1> HIDE DEF s
<1>6. SQLNames("sqlite", s) = {s}
  BY DEF SQLNames, Aliases
<1>7. Listed("sqlite", Typed(s, 0)) = Typed(t, 0)
  BY <1>4 DEF Listed, Typed
<1>8. Relisted("sqlite", Typed(base, n))
  BY <1>3, <1>5, <1>6, <1>7 DEF Relisted, Typed
<1>9. Listed("sqlite", CreatedType("sqlite", Normalized("sqlite", Typed(base, n)))).base = t
  BY <1>3, <1>5, <1>7 DEF Typed
<1>10. Roomy("sqlite", Typed(base, n))
  BY <1>2, <1>9, RoomyAs DEF WithoutUint64
<1> QED BY <1>8, <1>10

LEMMA BigQueryRoomy ==
  ASSUME NEW base \in ArrowTypes, NEW n \in Nat
  PROVE  Roomy("bigquery", Typed(base, n))
<1> DEFINE sql == Among(DataTypeToBigQueryType, base, "STRING")
<1>1. base = "uint64" => sql = "NUMERIC"
  BY OverIn, OverAt, SameIn, SameHas, SMTT(60)
     DEF Among, DataTypeToBigQueryType, Signed, Unsigned, Timestamps, Times
<1> HIDE DEF sql
<1>2. CreatedType("bigquery", Typed(base, n)).base = sql
  BY DEF CreatedType, Typed, sql, ListColumn
<1>3. Normalized("bigquery", Typed(base, n)) = Typed(base, n) /\ Typed(base, n).base = base
  BY DEF Normalized, Typed
<1>4. Holds("bigquery", CreatedType("bigquery", Typed(base, n))) = IF sql = "INTEGER" THEN <<63, 63>> ELSE <<64, 64>>
  BY <1>2 DEF Holds, Among
<1>5. \A t \in DOMAIN Bits : t # "uint64" => Bits[t][1] <= 63 /\ Bits[t][2] <= 63
  BY DEF Bits
<1>6. CASE sql = "INTEGER"
  BY <1>1, <1>3, <1>4, <1>5, <1>6 DEF Roomy
<1>7. CASE sql # "INTEGER"
  BY <1>3, <1>4, <1>7, BitsAre DEF Roomy
<1> QED BY <1>6, <1>7

-----------------------------------------------------------------------------

\* Only the first sync makes the column, from the wanted type, and only then
\* a second one lists it.
TypesInv ==
  /\ database \in Databases
  /\ \E base \in ArrowTypes, n \in Nat : wantedType = Typed(base, n)
  /\ columnType \in {NoType, CreatedType(database, Normalized(database, wantedType))}
  /\ listedType # NoType =>
       /\ columnType # NoType
       /\ \E name \in Aliases(database, columnType.base) : listedType = Listed(database, Typed(name, columnType.lists))

LEMMA TypesStart ==
  ASSUME TypesInit
  PROVE  TypesInv
<1>1. \E base \in ArrowTypes, n \in Nat : wantedType = Typed(base, n)
  BY TypesAssumption DEF TypesInit
<1> QED BY <1>1 DEF TypesInit, TypesInv

LEMMA TypesStep ==
  ASSUME TypesInv, [TypesNext]_typeVars
  PROVE  TypesInv'
<1>1. CASE CreateColumn
  <2>1. UNCHANGED <<database, wantedType, listedType>> /\ columnType = NoType
    BY <1>1 DEF CreateColumn
  <2>2. listedType = NoType
    BY <2>1 DEF TypesInv
  <2> QED BY <1>1, <2>1, <2>2 DEF CreateColumn, TypesInv
<1>2. CASE ListColumns
  BY <1>2 DEF ListColumns, TypesInv
<1>3. CASE UNCHANGED typeVars
  BY <1>3 DEF typeVars, TypesInv
<1> QED BY <1>1, <1>2, <1>3 DEF TypesNext

LEMMA TypesAreKept ==
  ASSUME TypesInv
  PROVE  TypesKept
<1>1. PICK base \in ArrowTypes, n \in Nat : wantedType = Typed(base, n)
  BY DEF TypesInv
<1>2. Roomy(database, wantedType) /\ (database # "bigquery" => Relisted(database, wantedType))
  BY <1>1, TypesAssumption, DuckDBKeeps, SQLiteKeeps, MySQLKeeps, MSSQLKeeps, PostgreSQLKeeps,
     CockroachDBKeeps, CrateDBKeeps, SnowflakeKeeps, ClickHouseStays, BigQueryRoomy DEF TypesInv
<1>3. SUFFICES ASSUME columnType # NoType
               PROVE  /\ wantedType.base \in DOMAIN Bits /\ (wantedType.base = "uint64" => database \notin WithoutUint64) =>
                           /\ Bits[wantedType.base][1] <= Holds(database, columnType)[1]
                           /\ Bits[wantedType.base][2] <= Holds(database, columnType)[2]
                      /\ listedType # NoType /\ database # "bigquery" =>
                           listedType = Normalized(database, wantedType)
  BY DEF TypesKept
<1>4. columnType = CreatedType(database, Normalized(database, wantedType))
  BY <1>3 DEF TypesInv
<1>5. wantedType.base \in DOMAIN Bits /\ (wantedType.base = "uint64" => database \notin WithoutUint64) =>
        /\ Bits[wantedType.base][1] <= Holds(database, columnType)[1]
        /\ Bits[wantedType.base][2] <= Holds(database, columnType)[2]
  BY <1>2, <1>4 DEF Roomy
<1>6. ASSUME listedType # NoType, database # "bigquery"
      PROVE  listedType = Normalized(database, wantedType)
  <2>1. PICK name \in Aliases(database, columnType.base) : listedType = Listed(database, Typed(name, columnType.lists))
    BY <1>6 DEF TypesInv
  <2>2. name \in SQLNames(database, columnType.base)
    BY <2>1 DEF SQLNames
  <2> QED BY <1>2, <1>4, <1>6, <2>1, <2>2 DEF Relisted
<1> QED BY <1>5, <1>6

\* Every integer column has room for the values of its type, and a column that
\* no one changed is listed with the type that a migration asks for: for any
\* of the ten databases, any type of Arrow and lists of any depth.
THEOREM TypesAreAlwaysKept == TypesSpec => []TypesKept
<1>1. TypesInit => TypesInv
  BY TypesStart
<1>2. TypesInv /\ [TypesNext]_typeVars => TypesInv'
  BY TypesStep
<1>3. TypesInv => TypesKept
  BY TypesAreKept
<1> QED BY <1>1, <1>2, <1>3, PTL DEF TypesSpec
=============================================================================
