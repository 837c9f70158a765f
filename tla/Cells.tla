------------------------------- MODULE Cells --------------------------------
(***************************************************************************)
(* What the destinations with column types make of a column's values when  *)
(* they write it, and what their Read makes of the column again:           *)
(* transformer.go and read.go of plugins/destination/{sqlite, mysql,       *)
(* duckdb, postgresql, snowflake, bigquery}/client, mssql/queries, and     *)
(* typeconv of clickhouse. Documents, the module of the destinations       *)
(* without column types, writes and reads tables of both kinds.            *)
(*                                                                         *)
(* A type is the base of a list or not, and a value the class of values    *)
(* that some conversion treats unlike the others. The databases and their  *)
(* drivers, and what Arrow's arrays and builders do, are external.         *)
(***************************************************************************)
EXTENDS Naturals, Sequences, SequencesExt, Maps

CellStores == {"sqlite", "mysql", "mssql", "duckdb", "postgresql", "snowflake", "clickhouse", "bigquery"}

-----------------------------------------------------------------------------
(* Types and values. *)

SmallInts  == {"int8", "int16", "int32"}
SmallUints == {"uint8", "uint16", "uint32"}
Ints       == SmallInts \cup SmallUints \cup {"int64", "uint64"}
Stamps     == {"timestamp_s", "timestamp_ms", "timestamp_us", "timestamp_ns"}
Clocks     == {"time32_ms", "time64_us"}
Texts      == {"string", "large_string"}
Floats     == {"float32", "float64"}
Bytes      == {"binary", "large_binary"}

\* The types that have no case of their own anywhere, as inet does.
BaseTypes ==
  Ints \cup Stamps \cup Clocks \cup Texts \cup Floats \cup Bytes \cup {"bool", "json", "struct", "uuid", "inet"}
ListTypes == {"string", "int64", "timestamp_ns", "json"}

NoValue == [kind |-> "null"]

\* Integers over 2^53 are no float64, and those over 2^63 no int64, in JSON as
\* well; times are named after their last digit, and "second" has no fraction;
\* a text may be the word null, a JSON object have several members, and a
\* struct have a time that is null.
Classes(base) ==
  CASE base = "int64"        -> {"small", "over53"}
    [] base = "uint64"       -> {"small", "over53", "over63"}
    [] base = "timestamp_ms" -> {"second", "ms"}
    [] base = "timestamp_us" -> {"ms", "us"}
    [] base = "timestamp_ns" -> {"us", "ns"}
    [] base \in Clocks       -> {"second", "ms"}
    [] base \in Texts        -> {"text", "nul", "nullword"}
    [] base = "json"         -> {"value", "members", "over53"}
    [] base = "struct"       -> {"value", "partial"}
    [] OTHER                 -> {"value"}

\* Where a list is kept as text, Arrow reads it again: its integers are small.
ElementClasses(base) == IF base = "int64" THEN {"small"} ELSE Classes(base)

Value(class)  == [kind |-> "value", is |-> class]
List(seq)     == [kind |-> "list", elements |-> seq]
ListText(seq) == [kind |-> "string", elements |-> seq]

Nullable(classes) == {NoValue} \cup {Value(c) : c \in classes}
ValuesOf(t) ==
  IF t.list THEN {NoValue} \cup {List(s) : s \in SeqOf(Nullable(ElementClasses(t.base)), 2)}
  ELSE Nullable(Classes(t.base))

Stored(kind, class) == [kind |-> kind, is |-> class]
WithoutNulls(values) ==
  LET upTo[n \in 0..Len(values)] ==
        IF n = 0 THEN << >>
        ELSE IF values[n] # NoValue THEN Append(upTo[n - 1], values[n]) ELSE upTo[n - 1]
  IN  upTo[Len(values)]

\* What conversions do to a class.
Milliseconds(class) == IF class \in {"us", "ns"} THEN "ms" ELSE class
Microseconds(class) == IF class = "ns" THEN "us" ELSE class
Float(class)        == IF class \in {"over53", "over63"} THEN "rounded" ELSE class
Stripped(class)     == IF class = "nul" THEN "text" ELSE class
AsInt64(class)      == IF class = "over63" THEN "negative" ELSE class

\* Mutant: read as it is stored.
AsStored(class) == class
AsUint64(class)     == IF class = "negative" THEN "over63" ELSE class

-----------------------------------------------------------------------------
(* Kinds: what is given to the driver for a type, and what Read asks the   *)
(* driver for or takes from it. These are two switches over the types in   *)
(* the code of each destination; what has no case of its own is a string.  *)

KindIn(table, base) == Among(table, base, "string")

Numbers == Same(Ints, "int") ++ Same(Floats, "float") ++ [bool |-> "bool"]

SQLiteWrites == Numbers ++ Same(Bytes, "bytes")
SQLiteReads  == Numbers ++ Same(Bytes, "bytes")

MySQLWrites == Numbers ++ Same(Bytes \cup {"uuid"}, "bytes") ++ Same(Stamps, "time")
MySQLReads  == Numbers ++ Same(Bytes \cup {"uuid"}, "bytes") ++ Same(Stamps, "time")

MSSQLWrites == Numbers ++ Same(Bytes \cup {"uuid"}, "bytes") ++ Same(Stamps, "time")
MSSQLReads  == Numbers ++ Same(Bytes \cup {"uuid"}, "bytes") ++ Same(Stamps, "time")

\* A column of uuids or of JSON takes strings, and gives them back.
DuckDBWrites == Numbers ++ Same(Bytes, "bytes") ++ Same(Stamps, "time")
DuckDBReads  == Numbers ++ Same(Bytes, "bytes") ++ Same(Stamps, "time")

PostgreSQLWrites ==
  Numbers ++ Same(Bytes \cup {"json"}, "bytes") ++ Same(Stamps, "time")
    ++ Same(Clocks, "clock") ++ [uuid |-> "uuid"]
PostgreSQLReads ==
  Numbers ++ Same(Bytes \cup {"json"}, "bytes") ++ Same(Stamps, "time")
    ++ Same(Clocks, "clock") ++ [uuid |-> "uuid"]

\* A file of JSON is copied into the columns, whose integers are read as text.
SnowflakeWrites == Same(Floats, "float") ++ Same(Bytes, "bytes") ++ Same(Stamps, "time") ++ [bool |-> "bool"]
SnowflakeReads  == Same(Floats, "float") ++ Same(Bytes, "bytes") ++ Same(Stamps, "time") ++ [bool |-> "bool"]

ClickHouseWrites == Numbers ++ Same(Stamps \cup Clocks, "time") ++ [uuid |-> "uuid", struct |-> "tuple"]
ClickHouseReads  == Numbers ++ Same(Stamps \cup Clocks, "time") ++ [uuid |-> "uuid", struct |-> "tuple"]

BigQueryWrites ==
  Numbers ++ Same(Bytes, "bytes") ++ Same(Stamps, "time") ++ Same(Clocks, "clock") ++ [struct |-> "tuple"]
BigQueryReads ==
  Numbers ++ Same(Bytes, "bytes") ++ Same(Stamps, "time") ++ Same(Clocks, "clock") ++ [struct |-> "tuple"]

CellWrites ==
  [sqlite |-> SQLiteWrites, mysql |-> MySQLWrites, mssql |-> MSSQLWrites, duckdb |-> DuckDBWrites,
   postgresql |-> PostgreSQLWrites, snowflake |-> SnowflakeWrites, clickhouse |-> ClickHouseWrites,
   bigquery |-> BigQueryWrites]

CellReads ==
  [sqlite |-> SQLiteReads, mysql |-> MySQLReads, mssql |-> MSSQLReads, duckdb |-> DuckDBReads,
   postgresql |-> PostgreSQLReads, snowflake |-> SnowflakeReads, clickhouse |-> ClickHouseReads,
   bigquery |-> BigQueryReads]

-----------------------------------------------------------------------------
(* Writing. *)

\* The last digits that a column of times has no place for.
Places(database, class) ==
  CASE database \in {"mysql", "duckdb", "postgresql", "bigquery"} -> Microseconds(class)
    [] database = "mssql" /\ class = "ns"                         -> "100ns"
    [] OTHER                                                      -> class

\* sqlite and mssql have no unsigned integers. postgresql has no NUL in a text,
\* and takes the numbers of JSON for floats when it looks for one. bigquery
\* takes a null time in a struct for the beginning of 1970.
CellClass(database, base, class) ==
  CASE base \in Stamps                                             -> Places(database, class)
    [] database \in {"sqlite", "mssql"} /\ base = "uint64"         -> AsInt64(class)
    [] database = "postgresql" /\ base \in Texts                   -> Stripped(class)
    [] database = "postgresql" /\ base = "json"                    -> Float(class)
    [] database = "bigquery" /\ base = "struct" /\ class = "partial" -> "zero"
    [] OTHER                                                        -> class

CellScalar(database, base, v) ==
  IF v = NoValue THEN NoValue
  ELSE Stored(KindIn(CellWrites[database], base), CellClass(database, base, v.is))

\* clickhouse: a list or struct is not null but empty. For that the marks of
\* all nulls of a record are removed, those inside the other rows included.
sanitizeNested(t, values) ==
  LET zero(v) == IF v = NoValue \/ v = Value("partial") THEN Value("zero") ELSE v IN
  IF (~t.list /\ t.base # "struct") \/ NoValue \notin Range(values) THEN values
  ELSE [i \in DOMAIN values |->
          IF ~t.list THEN zero(values[i])
          ELSE IF values[i] = NoValue THEN List(<< >>)
          ELSE List([j \in DOMAIN values[i].elements |-> zero(values[i].elements[j])])]

\* bigquery: there are no nulls in a repeated column, and without values it is
\* empty. Where there are no columns of lists, a list is a text.
CellValue(database, t, v) ==
  LET elements == IF v = NoValue THEN << >>
                  ELSE IF database = "bigquery" THEN WithoutNulls(v.elements) ELSE v.elements
  IN  IF ~t.list THEN CellScalar(database, t.base, v)
      ELSE IF v = NoValue /\ database # "bigquery" THEN NoValue
      ELSE IF database \in {"sqlite", "mysql", "mssql"} THEN ListText(elements)
      ELSE List([i \in DOMAIN elements |-> CellScalar(database, t.base, elements[i])])

CellColumn(database, t, values) ==
  LET column == IF database = "clickhouse" THEN sanitizeNested(t, values) ELSE values
  IN  [i \in DOMAIN column |-> CellValue(database, t, column[i])]

-----------------------------------------------------------------------------
(* Reading. *)

\* snowflake prints a list, an element on each line, and one that is empty on
\* the first; a JSON object of several members has several lines as well.
snowflakeStrToArray(base, elements) ==
  elements # << >> /\ ~(base = "json" /\ \E i \in DOMAIN elements : elements[i] # NoValue /\ elements[i].is = "members")

CanReadCell(database, base, s) == s = NoValue \/ s.kind = KindIn(CellReads[database], base)

\* snowflake: null is printed as a word.
ReadCell(database, base, s) ==
  IF s = NoValue \/ (database = "snowflake" /\ s = Stored("string", "nullword")) THEN NoValue
  ELSE IF database \in {"sqlite", "mssql"} /\ base = "uint64" THEN Value(AsUint64(s.is))
  ELSE Value(s.is)
=============================================================================
