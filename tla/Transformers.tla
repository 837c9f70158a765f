-------------------------- MODULE Transformers --------------------------------
(***************************************************************************)
(* plugins/transformer/basic: a list of transformations, each of which     *)
(* changes the schema and the rows of the tables its globs match.          *)
(* TransformSchema runs them on an empty record, Transform on the records. *)
(* plugins/transformer/jsonflattener works in the same way, and stands     *)
(* between them as a transformation of its own ("flatten"), as the chain   *)
(* of transformers puts it.                                                *)
(*                                                                         *)
(* A record here has one row: no transformation looks at two rows at once. *)
(* A cell is a function from its parts to what is left of them. A JSON     *)
(* cell has a part for every path that transformations may name, under the *)
(* key it has now, and may have the part "word": true, null or an escape,  *)
(* which are JSON in lower case only. Every cell has the part "rest", and  *)
(* null has none. "of" says which column of the source a column or a cell  *)
(* comes from, and "at" which path a value comes from.                     *)
(***************************************************************************)
EXTENDS Integers, Sequences, SequencesExt, FiniteSetsExt

CONSTANTS
  Transformations,  \* transformations that a spec may list
  MaxTransformations,
  Contents,         \* what a JSON cell of the source may have besides the rest
  Sensitives        \* what the source may say is sensitive: columns and paths

ASSUME BasicAssumption ==
  MaxTransformations \in Nat /\ \A refs \in Sensitives : \A c \in refs : c[1] # "added"

VARIABLES
  recipe,      \* the transformations of the spec
  rec,         \* the record: table name, columns, and the cells of its row
  done,        \* transformations that were applied to it
  promise,     \* what TransformSchema made of the table
  outcome      \* "validate", "schema", "transform", "sent", "skipped", "failed"

basicVars == <<recipe, rec, done, promise, outcome>>

Failed == [name |-> <<"failed">>, columns |-> << >>, row |-> << >>]
Null   == << >>

-----------------------------------------------------------------------------
(* spec.Validate. *)

Fields(t) ==
  (IF t.columns = {} THEN {} ELSE {"columns"}) \cup (IF t.name = "" THEN {} ELSE {"name"})
    \cup (IF t.value = "" THEN {} ELSE {"value"}) \cup (IF t.template = << >> THEN {} ELSE {"template"})

Needed ==
  [remove_columns |-> {"columns"}, add_primary_keys |-> {"columns"}, obfuscate_columns |-> {"columns"},
   add_column |-> {"name", "value"}, add_current_timestamp_column |-> {"name"},
   obfuscate_sensitive_columns |-> {}, change_table_names |-> {"template"},
   rename_column |-> {"name", "value"}, uppercase |-> {"columns"}, lowercase |-> {"columns"},
   drop_rows |-> {"columns"}, flatten |-> {}]

Permitted(kind) ==
  CASE kind = "add_column" -> {"columns", "name", "value"}
    [] kind = "drop_rows"  -> {"columns", "name", "value", "template"}
    [] OTHER -> Needed[kind]

Valid(t) == t.kind \in DOMAIN Needed /\ Needed[t.kind] \subseteq Fields(t) /\ Fields(t) \subseteq Permitted(t.kind)

-----------------------------------------------------------------------------
(* RecordUpdater. *)

Columns(r)    == DOMAIN r.columns
HasColumn(r, name) == \E i \in Columns(r) : r.columns[i].name = name

\* colIndicesByNames: of columns with the same name it finds the first.
Named(r, names) ==
  {i \in Columns(r) : r.columns[i].name \in names /\ \A k \in 1..i - 1 : r.columns[k].name # r.columns[i].name}

\* splitJSONColumns: a name without a path is a column, if there is one; a
\* path counts unless its whole column is listed as well.
PlainNames(refs) == {c[1] : c \in {d \in refs : d[2] = ""}}
Plain(r, refs)   == Named(r, PlainNames(refs))
Pathed(r, refs)  ==
  {i \in Columns(r) : /\ \E c \in refs : c[1] = r.columns[i].name /\ c[2] # ""
                      /\ r.columns[i].name \notin PlainNames(refs)}

\* The columns and cells of the positions that are kept, in order.
Positions(n, keep) ==
  LET upTo[k \in 0..n] ==
        IF k = 0 THEN << >> ELSE IF k \in keep THEN Append(upTo[k - 1], k) ELSE upTo[k - 1]
  IN  upTo[n]
OnlyColumns(r, keep) ==
  LET p == Positions(Len(r.columns), keep)
  IN  [r EXCEPT !.columns = [i \in DOMAIN p |-> r.columns[p[i]]],
                !.row = IF r.row = << >> THEN << >> ELSE [i \in DOMAIN p |-> r.row[p[i]]]]

PathsIn(refs, name) == {c[2] : c \in {d \in refs : d[1] = name /\ d[2] # ""}}

\* Every cell of the columns through f, which is given the paths of its column.
MapCells(r, which, refs, f(_, _)) ==
  [r EXCEPT !.row = [i \in DOMAIN r.row |->
     IF i \in which THEN [r.row[i] EXCEPT !.parts = f(r.row[i], PathsIn(refs, r.columns[i].name))] ELSE r.row[i]]]

Was(at, is) == [at |-> at, is |-> is]
NullText    == [rest |-> Was("rest", "(null)")]

\* gjson.Valid, and what json.Unmarshal reads.
IsJSON(cell) == cell.parts # NullText /\ \A k \in DOMAIN cell.parts : cell.parts[k] # Was("word", "CLEAR")

\* sjson.Delete, in JSON only. A null cell is read as the text "(null)", which is
\* no JSON and is written back as it is.
WithoutPath(cell, paths) ==
  IF cell.parts = Null THEN NullText
  ELSE IF ~IsJSON(cell) THEN cell.parts
  ELSE [k \in DOMAIN cell.parts \ paths |-> cell.parts[k]]

\* Mutant: the columns go from the schema and the first cells from the row.
RemoveColumnsFirst(r, t) ==
  LET whole == Plain(r, t.columns)
      after == OnlyColumns(r, Columns(r) \ whole)
  IN  IF whole = Columns(r) THEN Failed
      ELSE [after EXCEPT !.row = IF r.row = << >> THEN << >> ELSE SubSeq(r.row, 1, Len(after.columns))]

RemoveColumns(r, t) ==
  LET whole == Plain(r, t.columns)
      after == OnlyColumns(r, Columns(r) \ whole)
      paths == Pathed(after, t.columns)
  IN  IF (whole # {} /\ whole = Columns(r)) \/ \E i \in paths : after.columns[i].type # "json"
      THEN Failed
      ELSE MapCells(after, paths, t.columns, WithoutPath)

AddColumn(r, column) ==
  [r EXCEPT !.columns = Append(@, column),
            !.row = IF @ = << >> THEN << >>
                    ELSE Append(@, [of |-> column.of, type |-> column.type, parts |-> [rest |-> Was("rest", "clear")]])]

NewColumn(name, type, null) ==
  [name |-> name, type |-> type, null |-> null, pk |-> FALSE, unique |-> FALSE, of |-> "added", keys |-> {}]

\* An obfuscated JSON cell is a new object; an obfuscated path stays where it
\* is, if it is there: gjson.Get does not mind what else is in the text.
Hidden(cell, paths) == IF cell.parts = Null THEN Null ELSE [rest |-> Was("rest", "hidden")]
HiddenPath(cell, paths) ==
  IF cell.parts = Null THEN Null
  ELSE [k \in DOMAIN cell.parts |-> IF k \in paths THEN Was(cell.parts[k].at, "hidden") ELSE cell.parts[k]]

\* Mutant: only the columns of strings.
ObfuscateStrings(r, refs) ==
  MapCells(r, {i \in Plain(r, refs) : r.columns[i].type = "string"}, refs, Hidden)

ObfuscateColumns(r, refs) ==
  LET whole == Plain(r, refs)
      paths == Pathed(r, refs)
  IN  IF \/ \E i \in whole : r.columns[i].type \notin {"string", "json", "binary"}
         \/ \E i \in paths : r.columns[i].type # "json"
      THEN Failed
      ELSE MapCells(MapCells(r, whole, refs, Hidden), paths, refs, HiddenPath)

\* The names are those of the source's table, in the metadata of the schema.
ObfuscateSensitiveColumns(r) == ObfuscateColumns(r, r.sensitive)

\* ToUpper and ToLower: of a JSON text, they change its keys and words as well.
\* The value at a path is a string.
Letters == {"clear", "CLEAR"}
Cased(upper, v) == IF v.is \in Letters THEN Was(v.at, IF upper THEN "CLEAR" ELSE "clear") ELSE v

UpperKeys == [p |-> "P", pq |-> "PQ", pQ |-> "PQ"]
LowerKeys == [P |-> "p", PQ |-> "pq", pQ |-> "pq"]
CasedKey(upper, k) ==
  LET keys == IF upper THEN UpperKeys ELSE LowerKeys IN IF k \in DOMAIN keys THEN keys[k] ELSE k

CasedCell(upper, cell) ==
  IF cell.parts = Null THEN Null
  ELSE [k \in {CasedKey(upper, l) : l \in DOMAIN cell.parts} |->
          Cased(upper, cell.parts[CHOOSE l \in DOMAIN cell.parts : CasedKey(upper, l) = k])]
CasedPath(upper, cell, paths) ==
  IF cell.parts = Null THEN Null
  ELSE [k \in DOMAIN cell.parts |-> IF k \in paths THEN Cased(upper, cell.parts[k]) ELSE cell.parts[k]]

ChangeCase(r, t) ==
  LET upper == t.kind = "uppercase"
      whole == Plain(r, t.columns)
      paths == Pathed(r, t.columns)
      Whole(cell, of) == CasedCell(upper, cell)
      Path(cell, of)  == CasedPath(upper, cell, of)
  IN  IF \/ \E i \in whole : r.columns[i].type \notin {"string", "json"}
         \/ \E i \in paths : r.columns[i].type # "json"
      THEN Failed
      ELSE MapCells(MapCells(r, whole, t.columns, Whole), paths, t.columns, Path)

\* A row goes when a listed column is null, or is the value that is given.
Drops(cell, value) == IF value = "" THEN cell.parts = Null ELSE cell.parts # Null /\ cell.parts["rest"].is = "clear"
DropRows(r, t) ==
  IF \E i \in DOMAIN r.row : r.columns[i].name \in PlainNames(t.columns) /\ Drops(r.row[i], t.value)
  THEN [r EXCEPT !.row = << >>]
  ELSE r

-----------------------------------------------------------------------------
(* The JSON flattener: a column for every key of a column's type schema. *)

\* The value under the key, or under the key that is it in snake case.
Flattened(cell) ==
  IF "p" \in DOMAIN cell.parts THEN [rest |-> cell.parts["p"]]
  ELSE IF "P" \in DOMAIN cell.parts THEN [rest |-> cell.parts["P"]]
  ELSE Null

\* Of columns with the same name, the last is read.
LastNamed(r, name) == Max({i \in Columns(r) : r.columns[i].name = name})

FlatColumn(c)  == [NewColumn(c.name \o "__p", "string", TRUE) EXCEPT !.of = c.of]
FlatCell(cell) == [of |-> cell.of, type |-> "string", parts |-> Flattened(cell)]

FlattenJSONFields(r) ==
  LET names == {r.columns[i].name : i \in {k \in Columns(r) : r.columns[k].keys # {}}}
      from  == {LastNamed(r, n) : n \in names}
      p     == Positions(Len(r.columns), from)
  IN  IF \E i \in from : r.columns[i].type # "json" \/ (r.row # << >> /\ ~IsJSON(r.row[i])) THEN Failed
      ELSE [r EXCEPT !.columns = @ \o [k \in DOMAIN p |-> FlatColumn(r.columns[p[k]])],
                     !.row = IF @ = << >> THEN << >> ELSE @ \o [k \in DOMAIN p |-> FlatCell(r.row[p[k]])]]

-----------------------------------------------------------------------------
(* SchemaUpdater. *)

RenameColumn(r, old, new) ==
  [r EXCEPT !.columns = [i \in Columns(r) |-> IF @[i].name = old THEN [@[i] EXCEPT !.name = new] ELSE @[i]]]

\* The template may keep the old name.
ChangeTableName(r, template) == [r EXCEPT !.name = IF template[1] = "OldName" THEN @ \o Tail(template) ELSE template]

AddPrimaryKeys(r, names) ==
  IF \E c \in names : ~HasColumn(r, c) THEN Failed
  ELSE LET new == Named(r, names)
       IN  [r EXCEPT !.columns = [i \in Columns(r) |-> [r.columns[i] EXCEPT !.pk = @ \/ i \in new, !.unique = FALSE]]]

-----------------------------------------------------------------------------
(* Transformer. *)

Matches(t, r) == t.tables \in {<<"*">>, r.name}

Apply(t, r) ==
  CASE r = Failed \/ ~Matches(t, r)  -> r
    [] OTHER ->
       CASE t.kind = "remove_columns"      -> RemoveColumns(r, t)
         [] t.kind = "add_column"          -> AddColumn(r, NewColumn(t.name, "string", FALSE))
         [] t.kind = "add_current_timestamp_column" -> AddColumn(r, NewColumn(t.name, "timestamp", TRUE))
         [] t.kind = "add_primary_keys"    -> AddPrimaryKeys(r, PlainNames(t.columns))
         [] t.kind = "obfuscate_columns"   -> ObfuscateColumns(r, t.columns)
         [] t.kind = "obfuscate_sensitive_columns" -> ObfuscateSensitiveColumns(r)
         [] t.kind = "change_table_names"  -> ChangeTableName(r, t.template)
         [] t.kind = "rename_column"       -> RenameColumn(r, t.name, t.value)
         [] t.kind \in {"uppercase", "lowercase"} -> ChangeCase(r, t)
         [] t.kind = "drop_rows"           -> DropRows(r, t)
         [] t.kind = "flatten"             -> FlattenJSONFields(r)

-----------------------------------------------------------------------------
(* Client. *)

SourceColumns ==
  << [name |-> "id", type |-> "int",    null |-> FALSE, pk |-> TRUE,  unique |-> TRUE,  of |-> "id", keys |-> {}],
     [name |-> "s",  type |-> "string", null |-> TRUE,  pk |-> FALSE, unique |-> FALSE, of |-> "s", keys |-> {}],
     [name |-> "j",  type |-> "json",   null |-> TRUE,  pk |-> FALSE, unique |-> FALSE, of |-> "j", keys |-> {"p"}] >>

Cell(c, isNull, held) ==
  [of |-> c.of, type |-> c.type,
   parts |-> IF isNull THEN Null
             ELSE [k \in {"rest"} \cup (IF c.type = "json" THEN held ELSE {}) |-> Was(k, "clear")]]

SourceRecord(nulls, held, sensitive) ==
  [name |-> <<"t">>, sensitive |-> sensitive, columns |-> SourceColumns,
   row |-> [i \in DOMAIN SourceColumns |-> Cell(SourceColumns[i], SourceColumns[i].name \in nulls, held)]]

BasicInit ==
  /\ recipe = << >> /\ done = 0 /\ promise = Failed /\ outcome = "validate"
  /\ \E nulls \in SUBSET {"s", "j"}, held \in Contents, sensitive \in Sensitives :
       rec = SourceRecord(nulls, held, sensitive)

\* The client is made of a spec with valid transformations.
NewTransformer ==
  /\ outcome = "validate"
  /\ \E n \in 0..MaxTransformations : \E ts \in [1..n -> Transformations] :
       /\ recipe' = ts
       /\ outcome' = IF \A i \in 1..n : Valid(ts[i]) THEN "schema" ELSE "failed"
  /\ UNCHANGED <<rec, done, promise>>

EmptyRecord(r) == [r EXCEPT !.row = << >>]

\* Every transformation gets what the one before has made.
Transformed(r, ts) ==
  LET after[n \in 0..Len(ts)] == IF n = 0 THEN r ELSE Apply(ts[n], after[n - 1])
  IN  after[Len(ts)]

\* The table is migrated before its records come.
TransformSchemas ==
  /\ outcome = "schema"
  /\ promise' = Transformed(EmptyRecord(rec), recipe)
  /\ outcome' = IF promise' = Failed THEN "failed" ELSE "transform"
  /\ UNCHANGED <<recipe, rec, done>>

TransformOnce ==
  /\ outcome = "transform" /\ done < Len(recipe)
  /\ rec' = Apply(recipe[done + 1], rec)
  /\ done' = done + 1
  /\ outcome' = IF rec' = Failed THEN "failed" ELSE outcome
  /\ UNCHANGED <<recipe, promise>>

\* Records without rows are not sent on.
SendRecord ==
  /\ outcome = "transform" /\ done = Len(recipe)
  /\ outcome' = IF rec.row = << >> THEN "skipped" ELSE "sent"
  /\ UNCHANGED <<recipe, rec, done, promise>>

BasicNext == NewTransformer \/ TransformSchemas \/ TransformOnce \/ SendRecord

BasicSpec == BasicInit /\ [][BasicNext]_basicVars

-----------------------------------------------------------------------------
(* Properties. *)

\* What leaves fits the table that was migrated: the same table, columns, keys
\* and types, and under every column the cell that belongs there. No record
\* fails once its table has passed TransformSchema; but for one with a cell that
\* is no JSON any more when it comes to the flattener, because a null was made
\* the text "(null)" or upper case was made of words.
RecordFits ==
  /\ outcome = "sent" =>
       /\ EmptyRecord(rec) = promise
       /\ Len(rec.row) = Len(promise.columns)
       /\ \A i \in DOMAIN rec.row : rec.row[i].of = promise.columns[i].of /\ rec.row[i].type = promise.columns[i].type
  /\ rec = Failed =>
       \E i, k \in 1..done : i < k /\ recipe[i].kind \in {"remove_columns", "uppercase"} /\ recipe[k].kind = "flatten"

\* The transformation i finds the sensitive column or path c by its name, which
\* stays that of the source's table.
Finds(i, c) ==
  /\ recipe[i].kind = "obfuscate_sensitive_columns" /\ recipe[i].tables = <<"*">>
  /\ \A k \in 1..i - 1 :
       /\ recipe[k].kind \notin {"rename_column", "flatten"}
       /\ c[2] # "" /\ recipe[k].kind \in {"uppercase", "lowercase"} => c[1] \notin PlainNames(recipe[k].columns)

\* A recipe with obfuscate_sensitive_columns for every table lets no sensitive
\* value out, wherever it stands between the others; but for a rename or a
\* flattener before it, or, for the value at a path, a change of the case of its
\* whole column, which changes the path.
SensitiveHidden ==
  outcome = "sent" =>
    \A c \in rec.sensitive : (\E i \in DOMAIN recipe : Finds(i, c)) =>
      \A i \in DOMAIN rec.row : rec.row[i].of = c[1] =>
        \A k \in DOMAIN rec.row[i].parts : LET v == rec.row[i].parts[k] IN
          c[2] \in {"", v.at} => v.is \in {"hidden", "(null)"}
=============================================================================
