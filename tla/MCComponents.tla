--------------------------- MODULE MCComponents  ---------------------------
(***************************************************************************)
(* The components that share no state with each other, in one instance: a  *)
(* behaviour is one of component, and the variables of the others stay.    *)
(***************************************************************************)
EXTENDS Migrations, Indexes, Writers, Deletions, Documents, ObjectStores, ColumnTypes,
        HackerNews, Transformers, MCCommands, Receiver, Publish

VARIABLE component

-----------------------------------------------------------------------------
(* Small tables for Migrations: every table that the columns the CLI adds  *)
(* and the options of sync_v3.go make of a few source tables.              *)

\* cq_id is the key when a table has no other.
SourceTable(columns) ==
  (CqID :> Column("uuid", \A c \in DOMAIN columns : ~columns[c].pk, TRUE, TRUE)) @@ columns

DefaultOptions == Options("overwrite", "default", FALSE, FALSE)

\* Pairs of the options and the columns of a source: one column of every
\* kind with the default options, and a string column with the others.
Syncs ==
  {<<DefaultOptions, << >> >>}
    \cup ({DefaultOptions} \X {("a" :> c) : c \in
             {Column("str", pk, notNull, FALSE) : pk, notNull \in BOOLEAN}
               \cup {Column("int", pk, FALSE, FALSE) : pk \in BOOLEAN}
               \cup {Column("list", FALSE, FALSE, FALSE)}})
    \cup ({Options("append", "default", FALSE, FALSE), Options("overwrite", "cq-id-only", FALSE, FALSE),
           Options("overwrite", "default", TRUE, FALSE), Options("overwrite", "default", FALSE, TRUE)}
            \X {("a" :> Column("str", pk, TRUE, FALSE)) : pk \in BOOLEAN})

TwoTables == <<"t", "u">>

TableRequests ==
  [t |-> {TransformSchema(s[1], SourceTable(s[2])) : s \in Syncs},
   u |-> {TransformSchema(Options("overwrite", "default", FALSE, n), SourceTable(<< >>)) : n \in BOOLEAN}]

\* For Indexes: tables without a key, with one and with another, and columns
\* that come and go.
SomeLayouts ==
  {[key |-> {}, columns |-> {"a"}], [key |-> {"a"}, columns |-> {"a"}], [key |-> {"a", "b"}, columns |-> {"a", "b"}]}

-----------------------------------------------------------------------------
(* Messages for Deletions: every where clause of up to two groups, with    *)
(* relations in the order of their parents and in the other.               *)

Group(type, predicates) == [type |-> type, predicates |-> predicates]
IsA == [column |-> "a", value |-> 0]
IsB == [column |-> "b", value |-> 1]
SomeGroups == {Group("AND", << >>), Group("AND", <<IsA>>), Group("AND", <<IsA, IsB>>), Group("OR", <<IsA, IsB>>)}

OfT     == [table |-> "child", parent |-> "t"]
OfChild == [table |-> "grandchild", parent |-> "child"]

SomeMessages ==
  [table : {"t"}, where : SeqOf(SomeGroups, 2), relations : {<< >>, <<OfT, OfChild>>, <<OfChild, OfT>>}]
    \cup [table : {"child"}, where : {<< >>, <<Group("AND", <<IsA>>)>>}, relations : {<< >>, <<OfChild>>}]

-----------------------------------------------------------------------------
(* Transformations for Transformers: each kind, on whole columns and on a  *)
(* path, and names that are taken already.                                 *)

Transformation(kind, tables, columns, name, value) ==
  [kind |-> kind, tables |-> tables, columns |-> columns, name |-> name, value |-> value,
   template |-> IF kind = "change_table_names" THEN <<"OldName", "x">> ELSE << >>]

EveryTable == <<"*">>

SomeTransformations ==
  {Transformation("remove_columns", EveryTable, c, "", "") : c \in
     {{<<"s", "">>}, {<<"j", "p">>, <<"j", "pQ">>}, {<<"id", "">>, <<"s", "">>, <<"j", "">>}, {<<"s", "p">>}}}
    \cup {Transformation("obfuscate_columns", EveryTable, c, "", "") : c \in
            {{<<"id", "">>}, {<<"s", "">>}, {<<"j", "p">>}, {<<"j", "">>, <<"j", "p">>}}}
    \cup {Transformation("drop_rows", EveryTable, {<<"s", "">>}, "", v) : v \in {"", "v"}}
    \cup {Transformation("add_column", EveryTable, {}, "s", "v"),
          Transformation("add_column", EveryTable, {}, "n", ""),
          Transformation("add_current_timestamp_column", <<"t">>, {}, "n", ""),
          Transformation("add_primary_keys", <<"t">>, {<<"s", "">>}, "", ""),
          Transformation("obfuscate_sensitive_columns", EveryTable, {}, "", ""),
          Transformation("change_table_names", EveryTable, {}, "", ""),
          Transformation("rename_column", <<"t">>, {}, "s", "j"),
          Transformation("flatten", EveryTable, {}, "", ""),
          Transformation("uppercase", EveryTable, {<<"j", "">>}, "", ""),
          Transformation("lowercase", EveryTable, {<<"j", "">>}, "", ""),
          Transformation("lowercase", <<"t", "x">>, {<<"j", "p">>}, "", "")}

\* A cell whose key is in lower case, and one whose key is not, with a word.
SomeContents   == {{"p"}, {"pQ", "word"}}
SomeSensitives == {{<<"s", "">>, <<"j", "">>}, {<<"s", "">>, <<"j", "p">>, <<"j", "pQ">>}}

-----------------------------------------------------------------------------
(* Metrics for Receiver, two of which share a name, and builds for Publish. *)

Point(table, client, name, value) ==
  [table |-> table, client |-> client, name |-> name, value |-> value, sum |-> name # "gauge"]

SomePoints ==
  {Point("t", "u", "duration", 1), Point("t", "", "duration", 2), Point("tu", "", "resources", 1), Point("t", "u", "gauge", 1)}

TwoTargets == <<"a", "b">>
TwoPictures == <<{"i"}, {"i", "j"}>>

-----------------------------------------------------------------------------
(* The instance. *)

MigrateRest    == MigrateInit /\ dest = "sqlite"
IndexRest      == IndexInit /\ engine = "elasticsearch"
WriteRest      == WriteInit /\ writer = "sqlite" /\ ~keyed
DeleteRest     == DeleteInit /\ deleter = "sqlite"
DocRest        == DocInit /\ documents = "mongodb" /\ ofType = [base |-> "bool", list |-> FALSE]
StoreRest      == StoreInit /\ store = "azblob" /\ spec.noRotate
TypesRest      == TypesInit /\ database = "duckdb" /\ wantedType = Typed("bool", 0)
HackerNewsRest == HackerNewsInit /\ latest = 1 /\ startTime = 0
BasicRest      == BasicInit /\ rec = SourceRecord({"j"}, {"p"}, {<<"s", "">>, <<"j", "">>})
CommandsRest   == CommandsInit /\ input = (CHOOSE i \in Inputs : TRUE) /\ speaks = (CHOOSE s \in Speaks : TRUE)
PublishRest    == PublishInit /\ package.kind = "addon"

Init ==
  /\ component \in {"migrations", "indexes", "writers", "deletions", "documents", "stores", "types",
                    "hackernews", "transformers", "commands", "receiver", "publish"}
  /\ IF component = "migrations" THEN MigrateInit ELSE MigrateRest
  /\ IF component = "indexes" THEN IndexInit ELSE IndexRest
  /\ IF component = "writers" THEN WriteInit ELSE WriteRest
  /\ IF component = "deletions" THEN DeleteInit ELSE DeleteRest
  /\ IF component = "documents" THEN DocInit ELSE DocRest
  /\ IF component = "stores" THEN StoreInit ELSE StoreRest
  /\ IF component = "types" THEN TypesInit ELSE TypesRest
  /\ IF component = "hackernews" THEN HackerNewsInit ELSE HackerNewsRest
  /\ IF component = "transformers" THEN BasicInit ELSE BasicRest
  /\ IF component = "commands" THEN CommandsInit ELSE CommandsRest
  /\ IF component = "publish" THEN PublishInit ELSE PublishRest
  /\ ReceiverInit

Keep(c, v) == IF component = c THEN TRUE ELSE UNCHANGED v

Others ==
  /\ Keep("migrations", migrateVars) /\ Keep("indexes", indexVars)
  /\ Keep("writers", writeVars) /\ Keep("deletions", deleteVars) /\ Keep("documents", docVars)
  /\ Keep("stores", storeVars) /\ Keep("types", typeVars) /\ Keep("hackernews", hnVars)
  /\ Keep("transformers", basicVars) /\ Keep("commands", commandVars)
  /\ Keep("receiver", receiverVars) /\ Keep("publish", publishVars)

\* What is sent twice makes many tables, so its destinations have two syncs.
FewSyncs == SentTwice => sync' <= 2

Next ==
  /\ UNCHANGED component
  /\ Others
  /\ \/ component = "migrations" /\ MigrateNext
     \/ component = "indexes" /\ IndexNext
     \/ component = "writers" /\ WriteNext /\ FewSyncs
     \/ component = "deletions" /\ DeleteNext
     \/ component = "documents" /\ DocNext
     \/ component = "stores" /\ StoreNext
     \/ component = "types" /\ TypesNext
     \/ component = "hackernews" /\ HackerNewsNext
     \/ component = "transformers" /\ BasicNext
     \/ component = "commands" /\ CommandsNext
     \/ component = "receiver" /\ ReceiverNext
     \/ component = "publish" /\ PublishNext

vars == <<component, migrateVars, indexVars, writeVars, deleteVars, docVars, storeVars, typeVars,
          hnVars, basicVars, commandVars, receiverVars, publishVars>>

Spec == Init /\ [][Next]_vars

-----------------------------------------------------------------------------
(* Properties that two components share; each is stated and explained in   *)
(* its module.                                                             *)

\* One type invariant for all.
TypeOK ==
  CASE component = "migrations" -> MigrateTypeOK
    [] component = "writers"    -> WriteTypeOK
    [] OTHER                    -> ClientsFound

\* No value is lost for want of a type, whether the destination has types for
\* columns or not.
ValuesKept == TypesKept /\ ReadBack

\* A safe migration drops neither a table nor an index.
SafeKeeps == SafeKeepsTables /\ SafeKeepsIndexes

=============================================================================
