---------------------------- MODULE ColumnTypes ----------------------------
(***************************************************************************)
(* The types of columns: which SQL type a destination creates a column of  *)
(* an Arrow type with, and which Arrow type it takes the column of a       *)
(* listed table for: types.go of plugins/destination/{duckdb, sqlite,      *)
(* mysql, snowflake, bigquery}/client, of mssql/queries, pgarrow of        *)
(* postgresql and typeconv of clickhouse.                                  *)
(*                                                                         *)
(* A column is wanted by a first sync, which creates it, and by a second   *)
(* one, which lists the table and compares. A type that is listed as       *)
(* another than the wanted one is a change of type for every sync from     *)
(* then on: refused in safe mode, a table dropped in forced mode.          *)
(*                                                                         *)
(* A type is the base of a number of nested lists. Precisions of decimals, *)
(* the members of maps and structs, and time zones are left out. SQL types *)
(* have names like tinyint_3_unsigned for TINYINT(3) UNSIGNED; those of    *)
(* postgresql are short for double precision, timestamp and time without   *)
(* time zone, numeric(20,0) and numeric(p,s).                              *)
(***************************************************************************)
EXTENDS Naturals, Sequences, Maps

CONSTANTS Databases, MaxLists

ASSUME TypesAssumption ==
  /\ Databases \subseteq {"duckdb", "sqlite", "mysql", "mssql", "postgresql", "cockroachdb", "cratedb",
                            "snowflake", "clickhouse", "bigquery"}
  /\ MaxLists \in Nat

VARIABLES database, wantedType, columnType, listedType

typeVars == <<database, wantedType, columnType, listedType>>

Typed(base, lists) == [base |-> base, lists |-> lists]
NoType == Typed("none", 0)

Signed     == {"int8", "int16", "int32", "int64"}
Unsigned   == {"uint8", "uint16", "uint32", "uint64"}
Timestamps == {"timestamp_s", "timestamp_ms", "timestamp_us", "timestamp_ns"}
Times      == {"time32_s", "time32_ms", "time64_us", "time64_ns"}
ArrowTypes ==
  Signed \cup Unsigned \cup Timestamps \cup Times \cup
  {"bool", "float16", "float32", "float64", "decimal", "string", "large_string",
   "binary", "large_binary", "fixed_binary", "date32", "date64", "duration",
   "uuid", "json", "inet", "mac", "map", "struct"}

-----------------------------------------------------------------------------
(* duckdb *)

\* The three smaller unsigned types share one: none is smaller than they are.
arrowToDuckDB ==
  [bool |-> "boolean", int8 |-> "tinyint", int16 |-> "smallint", int32 |-> "integer", int64 |-> "bigint",
   uint64 |-> "ubigint", float32 |-> "float", float64 |-> "double", uuid |-> "uuid"]
    ++ Same({"uint8", "uint16", "uint32"}, "uinteger") ++ Same({"binary", "large_binary"}, "blob")
    ++ Same({"json", "struct", "map"}, "json") ++ Same(Timestamps \cup {"date32", "date64"}, "timestamp")

duckDBToArrow ==
  [tinyint |-> "int8", smallint |-> "int16", integer |-> "int32", bigint |-> "int64",
   uinteger |-> "uint32", ubigint |-> "uint64", boolean |-> "bool", double |-> "float64", float |-> "float32",
   blob |-> "binary", timestamp |-> "timestamp_us", json |-> "json", uuid |-> "uuid"]

-----------------------------------------------------------------------------
(* sqlite: a table is created from the normalised types, so that a blob is *)
(* a text column already.                                                  *)

arrowTypeToSqliteStr ==
  Same({"binary", "large_binary"}, "blob") ++ Same(Signed \cup Unsigned, "integer")
    ++ Same({"float16", "float32", "float64"}, "real") ++ Same(Timestamps, "timestamp") ++ [bool |-> "boolean"]

arrowTypeToSqlite ==
  Same(Signed \cup Unsigned, "int64") ++ Same({"float16", "float32", "float64"}, "float64")
    ++ Same(Timestamps, "timestamp_us") ++ [bool |-> "bool"]

sqliteTypeToArrowType ==
  [integer |-> "int64", real |-> "float64", text |-> "large_string", blob |-> "large_binary",
   boolean |-> "bool", timestamp |-> "timestamp_us"]

-----------------------------------------------------------------------------
(* mysql *)

arrowTypeToMySqlStr ==
  [bool |-> "tinyint_1", int8 |-> "tinyint", int16 |-> "smallint", int32 |-> "int", int64 |-> "bigint",
   uint8 |-> "tinyint_unsigned", uint16 |-> "smallint_unsigned", uint32 |-> "int_unsigned",
   uint64 |-> "bigint_unsigned", float32 |-> "float", float64 |-> "double", uuid |-> "binary_16"]
    ++ Same({"binary", "large_binary"}, "blob") ++ Same(Timestamps, "datetime_6") ++ Same({"struct", "json"}, "json")

\* By the beginning of the name: a display width changes nothing, but for
\* the one of bool.
mySQLTypeToArrowType ==
  [tinyint |-> "int8", smallint |-> "int16", int |-> "int32", bigint |-> "int64",
   tinyint_unsigned |-> "uint8", smallint_unsigned |-> "uint16", int_unsigned |-> "uint32", bigint_unsigned |-> "uint64",
   tinyint_4 |-> "int8", smallint_6 |-> "int16", int_11 |-> "int32", bigint_20 |-> "int64",
   tinyint_3_unsigned |-> "uint8", smallint_5_unsigned |-> "uint16", int_10_unsigned |-> "uint32",
   bigint_20_unsigned |-> "uint64", float |-> "float32", double |-> "float64",
   tinyint_1 |-> "bool", binary_16 |-> "uuid", datetime_6 |-> "timestamp_us", json |-> "json", blob |-> "binary"]

-----------------------------------------------------------------------------
(* mssql *)

\* Mutant: by the number of bits, whatever the sign.
SameBits ==
  Same({"int8", "int16", "uint16"}, "smallint") ++ Same({"int32", "uint32"}, "int")
    ++ Same({"int64", "uint64"}, "bigint")

\* There are no unsigned types but the smallest: the next larger one is taken.
Upscaled ==
  Same({"int8", "int16"}, "smallint") ++ Same({"uint16", "int32"}, "int")
    ++ Same({"uint32", "int64", "uint64"}, "bigint")

SQLType ==
  [bool |-> "bit", uint8 |-> "tinyint", float32 |-> "real", float64 |-> "float",
   fixed_binary |-> "varbinary_n", uuid |-> "uniqueidentifier"]
    ++ Upscaled ++ Same({"binary", "large_binary"}, "varbinary_max") ++ Same(Timestamps, "datetime2")

SchemaType ==
  [bit |-> "bool", tinyint |-> "uint8", smallint |-> "int16", int |-> "int32", bigint |-> "int64",
   real |-> "float32", float |-> "float64", uniqueidentifier |-> "uuid", datetime2 |-> "timestamp_ns",
   varbinary_n |-> "fixed_binary", varbinary_max |-> "large_binary"]

-----------------------------------------------------------------------------
(* postgresql, and the two databases that speak its protocol. *)

ArrowToPg10 ==
  [bool |-> "boolean", int32 |-> "int", int64 |-> "bigint", uint16 |-> "int", uint32 |-> "bigint",
   uint64 |-> "numeric_20", float32 |-> "real", float64 |-> "double", decimal |-> "numeric_p",
   uuid |-> "uuid", json |-> "jsonb", mac |-> "macaddr", inet |-> "inet"]
    ++ Same({"int8", "int16", "uint8"}, "smallint") ++ Same({"binary", "large_binary"}, "bytea")
    ++ Same(Timestamps, "timestamp") ++ Same(Times, "time")
    ++ Same({"date32", "date64"}, "date")

ArrowToCockroach ==
  Same({"int8", "int16", "uint8"}, "int2") ++ Same({"int32", "int64", "uint16", "uint32"}, "int8")
    ++ [mac |-> "text"] ++ ArrowToPg10

ArrowToCrateDB ==
  Same({"uint64", "decimal", "binary", "large_binary", "uuid", "mac"} \cup Times, "text")
    ++ Same({"date32", "date64"}, "timestamp") ++ [json |-> "object", inet |-> "ip"] ++ ArrowToPg10

Pg10ToArrow ==
  [boolean |-> "bool", smallint |-> "int16", int2 |-> "int16", integer |-> "int32", int |-> "int32",
   bigint |-> "int64", int8 |-> "int64", real |-> "float32", uuid |-> "uuid", bytea |-> "binary",
   date |-> "date32", jsonb |-> "json", inet |-> "inet", macaddr |-> "mac",
   double |-> "float64", timestamp |-> "timestamp_us", time |-> "time64_us", numeric_20 |-> "uint64",
   numeric_p |-> "decimal"]

CockroachToArrow == [int |-> "int64", integer |-> "int64", macaddr |-> "string"] ++ Pg10ToArrow

CrateDBToArrow == [object |-> "json", ip |-> "inet", uuid |-> "string", macaddr |-> "string"] ++ Pg10ToArrow

-----------------------------------------------------------------------------
(* snowflake: a list is an array, which is listed as JSON. *)

SchemaTypeToSnowflake ==
  Same(Signed \cup Unsigned, "number") ++ Same({"float32", "float64"}, "float") ++ [bool |-> "boolean"]
    ++ Same({"binary", "large_binary"}, "binary") ++ Same(Timestamps, "timestamp_tz")
    ++ Same({"json", "struct"}, "variant")

SnowflakeToSchemaType ==
  [timestamp_tz |-> "timestamp_ns", number |-> "int64", boolean |-> "bool", float |-> "float64",
   binary |-> "binary", variant |-> "json", array |-> "json"]

-----------------------------------------------------------------------------
(* clickhouse: a map whose key can be one is kept, a struct is a tuple. *)

ColumnType ==
  [bool |-> "Bool", int8 |-> "Int8", int16 |-> "Int16", int32 |-> "Int32", int64 |-> "Int64",
   uint8 |-> "UInt8", uint16 |-> "UInt16", uint32 |-> "UInt32", uint64 |-> "UInt64", float64 |-> "Float64",
   fixed_binary |-> "FixedString_n", date32 |-> "Date32", date64 |-> "DateTime", decimal |-> "Decimal_p",
   uuid |-> "UUID", map |-> "Map", struct |-> "Tuple"]
    ++ Same({"float16", "float32"}, "Float32")
    ++ Same({"time32_s", "timestamp_s"}, "DateTime64_0") ++ Same({"time32_ms", "timestamp_ms"}, "DateTime64_3")
    ++ Same({"time64_us", "timestamp_us"}, "DateTime64_6") ++ Same({"time64_ns", "timestamp_ns"}, "DateTime64_9")

fieldFromColumn ==
  [Bool |-> "bool", Int8 |-> "int8", Int16 |-> "int16", Int32 |-> "int32", Int64 |-> "int64",
   UInt8 |-> "uint8", UInt16 |-> "uint16", UInt32 |-> "uint32", UInt64 |-> "uint64",
   Float32 |-> "float32", Float64 |-> "float64", Date32 |-> "date32", DateTime |-> "timestamp_s",
   UUID |-> "uuid", Map |-> "map", Tuple |-> "struct",
   FixedString_n |-> "fixed_binary", Decimal_p |-> "decimal", DateTime64_0 |-> "timestamp_s",
   DateTime64_3 |-> "timestamp_ms", DateTime64_6 |-> "timestamp_us", DateTime64_9 |-> "timestamp_ns"]

-----------------------------------------------------------------------------
(* bigquery: only creates, its migration compares BigQuery's own types. *)

DataTypeToBigQueryType ==
  [bool |-> "BOOLEAN", uint64 |-> "NUMERIC", decimal |-> "BIGNUMERIC", struct |-> "RECORD", duration |-> "INTEGER"]
    ++ Same({"json", "map"}, "JSON") ++ Same(Signed \cup Unsigned, "INTEGER")
    ++ Same({"float16", "float32", "float64"}, "FLOAT") ++ Same({"date32", "date64"}, "DATE")
    ++ Same(Timestamps, "TIMESTAMP") ++ Same(Times, "TIME") ++ Same({"binary", "large_binary"}, "BYTES")

-----------------------------------------------------------------------------
(* A column of a database. *)

\* Those without a type for lists keep them in one column of this type.
ListColumn == [sqlite |-> "text", mysql |-> "json", mssql |-> "nvarchar_max", snowflake |-> "array"]

CreatedType(d, t) ==
  IF t.lists > 0 /\ d \in DOMAIN ListColumn THEN Typed(ListColumn[d], 0)
  ELSE LET base ==
             CASE d = "duckdb"      -> Among(arrowToDuckDB, t.base, "varchar")
               [] d = "sqlite"      -> Among(arrowTypeToSqliteStr, t.base, "text")
               [] d = "mysql"       -> Among(arrowTypeToMySqlStr, t.base, "text")
               [] d = "mssql"       -> Among(SQLType, t.base, "nvarchar_max")
               [] d = "postgresql"  -> Among(ArrowToPg10, t.base, "text")
               [] d = "cockroachdb" -> Among(ArrowToCockroach, t.base, "text")
               [] d = "cratedb"     -> Among(ArrowToCrateDB, t.base, "text")
               [] d = "snowflake"   -> Among(SchemaTypeToSnowflake, t.base, "text")
               [] d = "clickhouse"  -> Among(ColumnType, t.base, "String")
               [] d = "bigquery"    -> Among(DataTypeToBigQueryType, t.base, "STRING")
       \* A column is repeated or not: BigQuery has no lists of lists.
       IN  Typed(base, IF d = "bigquery" /\ t.lists > 1 THEN 1 ELSE t.lists)

\* CrateDB's lists go through the types of postgresql.
Listed(d, sql) ==
  LET base ==
        CASE d = "duckdb"      -> Among(duckDBToArrow, sql.base, "string")
          [] d = "sqlite"      -> sqliteTypeToArrowType[sql.base]
          [] d = "mysql"       -> Among(mySQLTypeToArrowType, sql.base, "string")
          [] d = "mssql"       -> Among(SchemaType, sql.base, "large_string")
          [] d = "postgresql"  -> Among(Pg10ToArrow, sql.base, "string")
          [] d = "cockroachdb" -> Among(CockroachToArrow, sql.base, "string")
          [] d = "cratedb"     -> Among(IF sql.lists > 0 THEN Pg10ToArrow ELSE CrateDBToArrow, sql.base, "string")
          [] d = "snowflake"   -> Among(SnowflakeToSchemaType, sql.base, "string")
          [] d = "clickhouse"  -> Among(fieldFromColumn, sql.base, "string")
          [] d = "bigquery"    -> sql.base
  IN  Typed(base, sql.lists)

\* The table as a migration compares it and creates it.
Normalized(d, t) ==
  CASE d = "bigquery"                  -> t
    [] d = "sqlite" /\ t.lists = 0     -> Typed(Among(arrowTypeToSqlite, t.base, "large_string"), 0)
    [] d = "sqlite" /\ t.lists > 0     -> Typed("large_string", 0)
    [] OTHER                           -> Listed(d, CreatedType(d, t))

\* The names under which a database lists a type it was given another for.
Aliases(d, base) ==
  LET names == [int |-> "integer", int2 |-> "smallint", int8 |-> "bigint"]
      widths == [tinyint |-> "tinyint_4", smallint |-> "smallint_6", int |-> "int_11", bigint |-> "bigint_20",
                 tinyint_unsigned |-> "tinyint_3_unsigned", smallint_unsigned |-> "smallint_5_unsigned",
                 int_unsigned |-> "int_10_unsigned", bigint_unsigned |-> "bigint_20_unsigned"]
  IN  CASE d \in {"postgresql", "cockroachdb", "cratedb"} -> {Among(names, base, base)}
        [] d = "mysql" -> {base, Among(widths, base, base)}
        [] OTHER -> {base}

-----------------------------------------------------------------------------
(* The machine. *)

TypesInit ==
  /\ database \in Databases
  /\ wantedType \in {Typed(t, n) : t \in ArrowTypes, n \in 0..MaxLists}
  /\ columnType = NoType
  /\ listedType = NoType

\* MigrateTables of the first sync.
CreateColumn ==
  /\ columnType = NoType
  /\ columnType' = CreatedType(database, Normalized(database, wantedType))
  /\ UNCHANGED <<database, wantedType, listedType>>

\* MigrateTables of the second one.
ListColumns ==
  /\ columnType # NoType /\ listedType = NoType
  /\ \E name \in Aliases(database, columnType.base) :
       listedType' = Listed(database, Typed(name, columnType.lists))
  /\ UNCHANGED <<database, wantedType, columnType>>

TypesNext == CreateColumn \/ ListColumns

TypesSpec == TypesInit /\ [][TypesNext]_typeVars

-----------------------------------------------------------------------------
(* Properties. *)

\* Powers of two between which the values of an integer type are.
Bits ==
  [int8 |-> <<7, 7>>, int16 |-> <<15, 15>>, int32 |-> <<31, 31>>, int64 |-> <<63, 63>>,
   uint8 |-> <<0, 8>>, uint16 |-> <<0, 16>>, uint32 |-> <<0, 32>>, uint64 |-> <<0, 64>>]

\* A column holds what its listed type holds; the numbers of Snowflake and
\* BigQuery, and columns of text, hold more.
Holds(d, sql) ==
  IF d = "snowflake" THEN <<64, 64>>
  ELSE IF d = "bigquery" THEN Among([INTEGER |-> <<63, 63>>], sql.base, <<64, 64>>)
  ELSE Among(Bits, Listed(d, sql).base, <<64, 64>>)

\* mssql and sqlite have no unsigned type of 64 bits and use the signed one.
WithoutUint64 == {"mssql", "sqlite"}

\* Every value of an integer column has room in the column it is written to,
\* and a column that no one changed is listed with the very type that a
\* migration asks for, under each name its database may list it by: otherwise
\* every sync would see a changed type and fail, or drop the table
\* (normalizeTable, normalizeColumns and CanonizedTables exist for it).
TypesKept ==
  columnType # NoType =>
    /\ wantedType.base \in DOMAIN Bits /\ (wantedType.base = "uint64" => database \notin WithoutUint64) =>
         /\ Bits[wantedType.base][1] <= Holds(database, columnType)[1]
         /\ Bits[wantedType.base][2] <= Holds(database, columnType)[2]
    /\ listedType # NoType /\ database # "bigquery" =>
         listedType = Normalized(database, wantedType)

=============================================================================
