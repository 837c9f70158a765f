----------------------------- MODULE Documents ------------------------------
(***************************************************************************)
(* What the destinations make of a column's values when they write it, and *)
(* what their Read makes of them again: those without column types, which  *)
(* are plugins/destination/{mongodb, neo4j, gremlin, meilisearch,          *)
(* elasticsearch}/client, and those of module Cells.                       *)
(*                                                                         *)
(* Records are columnar; the documents, nodes and vertices that are stored *)
(* are rows.                                                               *)
(***************************************************************************)
EXTENDS Cells

CONSTANTS
  ValueStores,   \* the destinations of this instance
  MaxRows,       \* rows in all records, at most
  Page           \* rows that elasticsearch is asked for, 100 in the code

ASSUME DocumentsAssumption ==
  /\ ValueStores \subseteq CellStores \cup {"mongodb", "neo4j", "gremlin", "meilisearch", "elasticsearch"}
  /\ MaxRows \in Nat /\ Page \in Nat

VARIABLES
  documents,   \* the destination
  complete,    \* gremlin: CompleteTypes of the spec
  ofType,      \* the type of the column
  batches,     \* the records of a batch, each a sequence of values
  nodes,       \* the rows as they are stored
  places,       \* where in nodes the rows are that Read comes by, in its order
  answer,      \* and what it makes of them
  docStage     \* "write", "read", "end", "refused", "unreadable"

docVars == <<documents, complete, ofType, batches, nodes, places, answer, docStage>>

-----------------------------------------------------------------------------
(* mongodb: BSON. *)

MongoKinds ==
  Same(SmallInts \cup {"uint8", "uint16"}, "int32") ++ Same({"int64", "uint32", "uint64"}, "int64")
    ++ Same(Floats, "double") ++ Same(Bytes, "binary") ++ Same(Stamps, "datetime")
    ++ Same({"json", "struct"}, "document") ++ [bool |-> "bool"]

\* CustomUnit64 wraps around to a negative int64, and back when it is read; the
\* numbers of JSON are floats.
MongoValue(base, class) ==
  Stored(KindIn(MongoKinds, base),
         CASE base \in Stamps -> Milliseconds(class)
           [] base = "uint64" -> AsInt64(class)
           [] base = "json"   -> Float(class)
           [] OTHER           -> class)

-----------------------------------------------------------------------------
(* neo4j: has no nulls in collections. *)

Neo4jKinds ==
  Same(Ints, "int64") ++ Same(Floats, "double") ++ Same(Bytes, "bytes")
    ++ Same(Stamps, "time") ++ [bool |-> "bool"]

\* The values of a column without the nulls are given to the rows in order.
Neo4jColumn(values) ==
  LET kept == WithoutNulls(values)
  IN  [i \in DOMAIN values |-> IF i \in DOMAIN kept THEN kept[i] ELSE NoValue]

-----------------------------------------------------------------------------
(* gremlin: most types are strings, and strings are without NUL. The sync  *)
(* time, which is stored as a time, is left out.                           *)

GremlinKinds ==
  Same({"int16", "int32", "int64"}, "int64") ++ Same(Floats, "double")
    ++ Same(Bytes, "bytes") ++ [bool |-> "bool"]

GremlinValue(base, class) ==
  Stored(KindIn(GremlinKinds, base), IF base \in Texts THEN Stripped(class) ELSE class)

-----------------------------------------------------------------------------
(* meilisearch and elasticsearch: JSON, whose numbers are read as float64. *)

JSONKinds ==
  Same(Ints \cup Floats, "number") ++ Same({"json", "struct"}, "object") ++ [bool |-> "bool"]

Refusal == Stored("refused", "none")

\* The layout for nanoseconds has eight digits. A time without a fraction is
\* padded with zeros after its seconds: the mapping refuses it where it has a
\* format, and Read where it is text.
ElasticsearchValue(base, class) ==
  CASE base = "timestamp_ns" /\ class = "ns"     -> Stored("string", "ns10")
    [] base = "time32_ms" /\ class = "second"    -> Refusal
    [] base = "time64_us" /\ class = "second"    -> Stored("string", "malformed")
    [] base = "json"                             -> Stored("string", class)
    [] OTHER                                     -> Stored(KindIn(JSONKinds, base), class)

-----------------------------------------------------------------------------
(* The rows of a record. *)

StoreScalar(base, v) ==
  IF v = NoValue THEN NoValue
  ELSE CASE documents = "mongodb"       -> MongoValue(base, v.is)
         [] documents = "neo4j"         -> Stored(KindIn(Neo4jKinds, base), v.is)
         [] documents = "gremlin"       -> GremlinValue(base, v.is)
         [] documents = "meilisearch"   -> Stored(KindIn(JSONKinds, base), v.is)
         [] documents = "elasticsearch" -> ElasticsearchValue(base, v.is)
         [] OTHER                       -> CellScalar(documents, base, v)

\* gremlin makes a string of a list unless it is asked for complete types;
\* a NUL in one is escaped.
StoreValue(v) ==
  IF v.kind # "list" THEN StoreScalar(ofType.base, v)
  ELSE IF documents = "gremlin" /\ ~complete THEN ListText(v.elements)
  ELSE LET elements == IF documents = "neo4j" THEN WithoutNulls(v.elements) ELSE v.elements
       IN  List([i \in DOMAIN elements |-> StoreScalar(ofType.base, elements[i])])

transformValues(record) ==
  LET column == IF documents = "neo4j" THEN Neo4jColumn(record) ELSE record
  IN  IF documents \in CellStores THEN CellColumn(documents, ofType, record)
      ELSE [i \in DOMAIN column |-> StoreValue(column[i])]

-----------------------------------------------------------------------------
(* Read: every builder takes one kind, and panics on another; those that   *)
(* have no case take strings. *)

KindRead(base) ==
  CASE documents = "mongodb"       -> KindIn(MongoKinds, base)
    [] documents = "neo4j"         -> KindIn(Neo4jKinds, base)
    [] documents = "gremlin"       -> KindIn(GremlinKinds, base)
    [] documents = "meilisearch"   -> KindIn(JSONKinds, base)
    [] documents = "elasticsearch" -> IF base = "json" THEN "string" ELSE KindIn(JSONKinds, base)

\* Numbers in JSON are read as floats: of elasticsearch those in a column of
\* JSON, which is a string there, are not.
Rounds(base) ==
  \/ documents \in {"meilisearch", "elasticsearch"} /\ base \in Ints
  \/ documents = "meilisearch" /\ base = "json"

CanRead(base, s) ==
  IF documents \in CellStores THEN CanReadCell(documents, base, s)
  ELSE s = NoValue \/ (s.kind = KindRead(base) /\ s.is # "malformed")

ReadScalar(base, s) ==
  IF documents \in CellStores THEN ReadCell(documents, base, s)
  ELSE IF s = NoValue THEN NoValue
  ELSE IF Rounds(base) THEN Value(Float(s.is))
  ELSE IF documents = "mongodb" /\ base = "uint64" THEN Value(AsUint64(s.is))
  ELSE Value(s.is)

CanReadRow(s) ==
  IF s.kind = "list"
  THEN /\ \A i \in DOMAIN s.elements : CanRead(ofType.base, s.elements[i])
       /\ documents = "snowflake" => snowflakeStrToArray(ofType.base, s.elements)
  ELSE IF ofType.list THEN s = NoValue \/ s.kind = "string" ELSE CanRead(ofType.base, s)

\* A repeated column of bigquery that is empty reads as null.
reverseTransform(s) ==
  IF documents = "bigquery" /\ s = List(<< >>) THEN NoValue
  ELSE IF s.kind = "list" THEN List([i \in DOMAIN s.elements |-> ReadScalar(ofType.base, s.elements[i])])
  ELSE IF ofType.list /\ s # NoValue THEN List(s.elements)
  ELSE ReadScalar(ofType.base, s)

-----------------------------------------------------------------------------
(* A batch is written and the table is read.                               *)

DocInit ==
  /\ documents \in ValueStores
  /\ complete \in BOOLEAN /\ (complete => documents = "gremlin")
  /\ ofType \in [base : BaseTypes, list : {FALSE}] \cup [base : ListTypes, list : {TRUE}]
  /\ batches = << >> /\ nodes = << >> /\ places = << >> /\ answer = << >>
  /\ docStage = "write"

\* The SDK has put together records of any number of rows.
Collect ==
  /\ docStage = "write"
  /\ \E record \in SeqOf(ValuesOf(ofType), MaxRows - Len(FlattenSeq(batches))) \ {<< >>} :
       batches' = Append(batches, record)
  /\ UNCHANGED <<documents, complete, ofType, nodes, places, answer, docStage>>

WriteDocuments ==
  /\ docStage = "write" /\ batches # << >>
  /\ LET new == FlattenSeq([i \in DOMAIN batches |-> transformValues(batches[i])])
     IN  IF Refusal \in Range(new)
         THEN docStage' = "refused" /\ nodes' = nodes
         ELSE docStage' = "read" /\ nodes' = new
  /\ UNCHANGED <<documents, complete, ofType, batches, places, answer>>

\* No Read asks for an order: a database has its own, and that of gremlin is
\* the one of a map of Go. elasticsearch is asked for one page.
Asked(n) == IF documents = "elasticsearch" /\ Page < n THEN Page ELSE n

\* Mutant: a page is asked for twice, and the next one not.
PageTwice(n) == [1..Asked(n) -> 1..n]

Orders(n) == {f \in [1..Asked(n) -> 1..n] : IsInjective(f)}

ReadDocuments ==
  /\ docStage = "read"
  /\ places' \in Orders(Len(nodes))
  /\ IF \A i \in DOMAIN places' : CanReadRow(nodes[places'[i]])
     THEN docStage' = "end" /\ answer' = [i \in DOMAIN places' |-> reverseTransform(nodes[places'[i]])]
     ELSE docStage' = "unreadable" /\ answer' = answer
  /\ UNCHANGED <<documents, complete, ofType, batches, nodes>>

DocNext == Collect \/ WriteDocuments \/ ReadDocuments

DocSpec == DocInit /\ [][DocNext]_docVars

-----------------------------------------------------------------------------
(* Properties. *)

AllValues == FlattenSeq(batches)

ClassOf(v) == IF v = NoValue THEN "null" ELSE v.is
ClassesIn(v) == IF v.kind = "list" THEN {ClassOf(e) : e \in Range(v.elements)} ELSE {ClassOf(v)}

RecordStart(b) == Len(FlattenSeq(SubSeq(batches, 1, b - 1)))

\* The row i of all has a null at or before it in its record, or anywhere.
AfterNull(i) ==
  \E b \in DOMAIN batches : \E j \in DOMAIN batches[b] :
    batches[b][j] = NoValue /\ RecordStart(b) + j <= i /\ i <= RecordStart(b) + Len(batches[b])
BesideNull(i) ==
  \E b \in DOMAIN batches :
    NoValue \in Range(batches[b]) /\ RecordStart(b) < i /\ i <= RecordStart(b) + Len(batches[b])

\* What is known to be lost: mongodb keeps milliseconds, neo4j moves the values
\* behind a null up and leaves nulls out of lists, gremlin and postgresql strip
\* NULs, large numbers of JSON are rounded, elasticsearch cuts the last digit
\* of nanoseconds and databases cut what they have no place for; snowflake has
\* a word for null that is a text as well, clickhouse takes the nulls inside
\* lists and structs away with those of whole ones, and bigquery has neither
\* nulls in lists nor empty lists.
KnownLoss(i) ==
  LET v == AllValues[i]
      has(classes) == ClassesIn(v) \cap classes # {}
      nested == ofType.list \/ ofType.base = "struct"
  IN
  CASE documents = "mongodb"           -> has({"us", "ns"}) \/ (ofType.base = "json" /\ has({"over53"}))
    [] documents = "neo4j"             -> AfterNull(i) \/ (v.kind = "list" /\ has({"null"}))
    [] documents = "gremlin"           -> has({"nul"}) /\ (v.kind = "list" => complete)
    [] documents = "meilisearch"       -> has({"over53", "over63"})
    [] documents = "elasticsearch"     -> has({"ns"}) \/ (ofType.base \in Ints /\ has({"over53", "over63"}))
    [] documents \in {"mysql", "mssql"} -> ~ofType.list /\ has({"ns"})
    [] documents = "duckdb"            -> has({"ns"})
    [] documents = "postgresql"        -> has({"ns", "nul"}) \/ (ofType.base = "json" /\ has({"over53"}))
    [] documents = "snowflake"         -> has({"nullword"})
    [] documents = "clickhouse"        -> nested /\ BesideNull(i) /\ has({"null", "partial"})
    [] documents = "bigquery"          -> has({"ns", "partial"}) \/ (v.kind = "list" /\ (v.elements = << >> \/ has({"null"})))
    [] OTHER                           -> FALSE

\* And what is refused or cannot be read, each with the whole batch: times of
\* elasticsearch without a fraction, and with the whole table: lists that
\* snowflake prints in another form.
KnownFailure ==
  \E i \in DOMAIN AllValues : LET v == AllValues[i] IN
    \/ documents = "elasticsearch" /\ ofType.base \in Clocks /\ v = Value("second")
    \/ documents = "snowflake" /\ v.kind = "list" /\ (v.elements = << >> \/ (ofType.base = "json" /\ "members" \in ClassesIn(v)))

\* Rows that were written are read as they were, in any order and each once, but
\* for what is known to be lost: all of them, except that elasticsearch gives a
\* page and is silent about the rest.
ReadBack ==
  /\ docStage = "end" =>
       /\ IsInjective(places) /\ DOMAIN places = 1..Asked(Len(AllValues)) /\ Range(places) \subseteq DOMAIN AllValues
       /\ DOMAIN answer = DOMAIN places
       /\ \A i \in DOMAIN answer : answer[i] = AllValues[places[i]] \/ KnownLoss(places[i])
  /\ docStage \in {"refused", "unreadable"} => KnownFailure
=============================================================================
