------------------------------ MODULE Indexes -------------------------------
(***************************************************************************)
(* MigrateTables of the destinations that have no columns but indexes:     *)
(* plugins/destination/{meilisearch, mongodb, neo4j, elasticsearch}/client.*)
(*                                                                         *)
(* As in Migrations a call is a sequence of requests, any of which may     *)
(* fail, and the program may stop before any of them. Two things differ:   *)
(* what a request does depends on what the server has when it arrives, and *)
(* only meilisearch looks at all tables before it changes one.             *)
(*                                                                         *)
(* An index of a table has a key, and the columns that one can filter and  *)
(* sort by (meilisearch), the columns of its mapping (elasticsearch), or   *)
(* neither. The servers are external.                                      *)
(***************************************************************************)
EXTENDS Naturals, Sequences, FiniteSets, SequencesExt, FiniteSetsExt, TLC

CONSTANTS
  Engines,          \* the destinations of this instance
  Collections,      \* names of the tables, in the order of the messages
  Layouts           \* the tables there are: their keys and columns

\* A sync has tables, and a table finitely many columns.
ASSUME IndexesAssumption ==
  /\ Engines \subseteq {"meilisearch", "mongodb", "neo4j", "elasticsearch"}
  /\ Collections \in Seq(STRING) \ {<< >>}
  /\ \A l \in Layouts : IsFiniteSet(l.columns)

VARIABLES
  engine,    \* the destination
  index,     \* index[t]: the index of t, or NoIndex
  alien,     \* mongodb: the key of an index with another name that someone made
  template,  \* elasticsearch: the columns an index of t will be made with
  layout,    \* layout[t]: the table of the message
  forced,    \* MigrateForce
  found,     \* the indexes there were when the call began
  tasks,     \* requests to send, each of a table
  running,   \* a call has begun and not returned
  wrong,     \* a request of the call has failed
  torn       \* some call has broken off before

indexVars == <<engine, index, alien, template, layout, forced, found, tasks, running, wrong, torn>>

NoIndex == [key |-> {}, filter |-> {}, sort |-> {}, there |-> FALSE]
Index(key, filter, sort) == [key |-> key, filter |-> filter, sort |-> sort, there |-> TRUE]

CollectionNames == Range(Collections)
Task(op, t)     == [op |-> op, table |-> t]

-----------------------------------------------------------------------------
(* meilisearch: the key is a hash of the table's key, which WriteTableBatch *)
(* adds to every document.                                                 *)

HashKey == {"_cq_pk_hash_uuid"}

canMigrate(t) == index[t].key = HashKey

ToRecreate == {t \in CollectionNames : index[t].there /\ ~canMigrate(t)}

\* Mutant: a new index is not configured.
CreateOnly(t) == <<Task("create", t)>>

createIndex(t)   == <<Task("create", t), Task("configure", t)>>
recreateIndex(t) == <<Task("delete", t)>> \o createIndex(t)

\* The tables come out of a map, so their order within each of the three
\* loops is any.
InOrder(order, tables, requests) ==
  FlattenSeq([i \in DOMAIN order |-> IF order[i] \in tables THEN requests[order[i]] ELSE << >>])

MeilisearchTasks(order) ==
  LET have == {t \in CollectionNames : index[t].there}
  IN  InOrder(order, CollectionNames \ have, [t \in CollectionNames |-> createIndex(t)])
        \o InOrder(order, have \ ToRecreate, [t \in CollectionNames |-> <<Task("configure", t)>>])
        \o InOrder(order, ToRecreate, [t \in CollectionNames |-> recreateIndex(t)])

\* configureIndex asks again for what the index has, adds it to what is
\* wanted, and takes the result for the former when it is as long as the
\* latter.
Attributes(t) == layout[t].columns \cup index[t].filter
ConfiguredAlready(t) ==
  index[t].filter # {} /\ Cardinality(Attributes(t)) = Cardinality(layout[t].columns)

-----------------------------------------------------------------------------
(* mongodb: one unique index, over the key.                                *)

getIndexTemplates(t) == IF layout[t].key = {} THEN << >> ELSE <<Task("createUnique", t)>>

isIndexConflictError(t) == index[t].there /\ index[t].key # layout[t].key

\* The same key under another name: nothing is created, and when the old
\* index was dropped for it the call fails.
isIndexOptionsConflictError(t) == ~index[t].there /\ alien[t] = layout[t].key

migrateTableOnConflict(t) == <<Task("delete", t), Task("create", t)>>

-----------------------------------------------------------------------------
(* neo4j: an index over the key, IF NOT EXISTS under its name.             *)

createIndexQuery(t) == IF layout[t].key = {} THEN << >> ELSE <<Task("createMissing", t)>>

\* In forced mode the answer to a failed request is to drop and create.
DropAndCreate(t) == <<Task("delete", t), Task("createAgain", t)>>

-----------------------------------------------------------------------------
(* elasticsearch: an index is made from the template by the first document *)
(* that is written to it. Tables without a key have one index a day.       *)

getIndexNamePattern(t) == IF layout[t].key = {} THEN "daily" ELSE "table"

deleteIndices(t) ==
  IF ~forced THEN << >>
  ELSE (IF getIndexNamePattern(t) = "daily" THEN <<Task("list", t)>> ELSE << >>) \o <<Task("delete", t)>>

ElasticsearchTasks(t) == deleteIndices(t) \o <<Task("put", t)>>

-----------------------------------------------------------------------------
(* What the requests do. *)

\* The key of an index on the server of the destination.
KeyOf(t) ==
  CASE engine = "meilisearch"   -> HashKey
    [] engine = "elasticsearch" -> {getIndexNamePattern(t)}
    [] OTHER                    -> layout[t].key

Sent(op, t) ==
  CASE op \in {"create", "createMissing", "createAgain", "createUnique"} ->
         IF index[t].there \/ (engine = "mongodb" /\ isIndexOptionsConflictError(t)) THEN index[t]
         ELSE Index(KeyOf(t), {}, {})
    \* Indices of the other pattern have other names.
    [] op = "delete" ->
         IF engine = "elasticsearch" /\ index[t].key # KeyOf(t) THEN index[t] ELSE NoIndex
    [] op = "filter" -> [index[t] EXCEPT !.filter = Attributes(t)]
    [] op = "sort"   -> [index[t] EXCEPT !.sort = index[t].filter]
    [] OTHER         -> index[t]

\* The requests that follow on an answer.
Follow(op, t) ==
  CASE op = "configure"    -> IF ConfiguredAlready(t) THEN << >> ELSE <<Task("filter", t), Task("sort", t)>>
    [] op = "createUnique" -> IF isIndexConflictError(t) THEN migrateTableOnConflict(t) ELSE << >>
    [] OTHER               -> << >>

-----------------------------------------------------------------------------
(* MigrateTables. *)

IndexInit ==
  /\ engine \in Engines
  /\ index \in [CollectionNames -> {NoIndex} \cup IF engine = "meilisearch" THEN {Index({"own"}, {}, {})} ELSE {}]
  /\ alien \in [CollectionNames -> {{}} \cup IF engine = "mongodb" THEN {l.key : l \in Layouts} ELSE {}]
  /\ template = [t \in CollectionNames |-> {}]
  /\ layout = [t \in CollectionNames |-> CHOOSE l \in Layouts : TRUE]
  /\ forced = FALSE /\ found = index /\ tasks = << >>
  /\ running = FALSE /\ wrong = FALSE /\ torn = FALSE

AskIndexes ==
  /\ ~running
  /\ layout' \in [CollectionNames -> Layouts]
  /\ forced' \in BOOLEAN
  /\ found' = index /\ running' = TRUE /\ wrong' = FALSE
  /\ tasks' = <<Task("begin", Head(Collections))>>
  /\ UNCHANGED <<engine, index, alien, template, torn>>

Begun == running /\ tasks # << >> /\ Head(tasks).op = "begin"

StartMeilisearch ==
  /\ Begun /\ engine = "meilisearch"
  /\ forced \/ ToRecreate = {}
  /\ \E order \in SetToSeqs(CollectionNames) : tasks' = MeilisearchTasks(order)
  /\ UNCHANGED <<engine, index, alien, template, layout, forced, found, running, wrong, torn>>

RefuseMeilisearch ==
  /\ Begun /\ engine = "meilisearch"
  /\ ~forced /\ ToRecreate # {}
  /\ tasks' = << >> /\ wrong' = TRUE
  /\ UNCHANGED <<engine, index, alien, template, layout, forced, found, running, torn>>

TasksFor(t) ==
  CASE engine = "mongodb"       -> getIndexTemplates(t)
    [] engine = "neo4j"         -> createIndexQuery(t)
    [] engine = "elasticsearch" -> ElasticsearchTasks(t)

StartOthers ==
  /\ Begun /\ engine # "meilisearch"
  /\ tasks' = FlattenSeq([i \in DOMAIN Collections |-> TasksFor(Collections[i])])
  /\ UNCHANGED <<engine, index, alien, template, layout, forced, found, running, wrong, torn>>

Sending(op, t) == tasks # << >> /\ ~Begun /\ Head(tasks) = Task(op, t)

\* Table after table: what was done for the tables before stays.
RefuseMongoDB(t) ==
  /\ Sending("createUnique", t) /\ isIndexConflictError(t) /\ ~forced
  /\ tasks' = << >> /\ wrong' = TRUE
  /\ UNCHANGED <<engine, index, alien, template, layout, forced, found, running, torn>>

ApplyTask(op, t) ==
  /\ index' = [index EXCEPT ![t] = Sent(op, t)]
  /\ template' = IF op = "put" THEN [template EXCEPT ![t] = layout[t].columns] ELSE template

SendTask(op, t) ==
  /\ Sending(op, t)
  /\ op = "createUnique" => forced \/ ~isIndexConflictError(t)
  /\ op = "create" /\ engine = "mongodb" => ~isIndexOptionsConflictError(t)
  /\ ApplyTask(op, t)
  /\ tasks' = Follow(op, t) \o Tail(tasks)
  /\ UNCHANGED <<engine, alien, layout, forced, found, running, wrong, torn>>

\* A request fails, or only its answer does, or the program stops. neo4j goes
\* on in forced mode.
FailTask(op, t) ==
  /\ Sending(op, t)
  /\ ApplyTask(op, t) \/ UNCHANGED <<index, template>>
  /\ \/ tasks' = << >> /\ wrong' = TRUE /\ torn' = TRUE
     \/ op = "createMissing" /\ forced /\ tasks' = DropAndCreate(t) \o Tail(tasks) /\ UNCHANGED <<wrong, torn>>
  /\ UNCHANGED <<engine, alien, layout, forced, found, running>>

ReturnIndexes ==
  /\ running /\ tasks = << >>
  /\ running' = FALSE
  /\ UNCHANGED <<engine, index, alien, template, layout, forced, found, tasks, wrong, torn>>

\* elasticsearch: a document is written to the index of its table.
WriteDocument(t) ==
  /\ ~running /\ ~wrong /\ engine = "elasticsearch" /\ template[t] # {}
  /\ ~index[t].there \/ index[t].key # KeyOf(t)
  /\ index' = [index EXCEPT ![t] = Index(KeyOf(t), template[t], {})]
  /\ UNCHANGED <<engine, alien, template, layout, forced, found, tasks, running, wrong, torn>>

IndexNext ==
  \/ AskIndexes \/ StartMeilisearch \/ RefuseMeilisearch \/ StartOthers
  \/ \E t \in CollectionNames : RefuseMongoDB(t) \/ WriteDocument(t)
  \/ \E task \in Range(tasks) : SendTask(task.op, task.table) \/ FailTask(task.op, task.table)
  \/ ReturnIndexes

IndexSpec == IndexInit /\ [][IndexNext]_indexVars

-----------------------------------------------------------------------------
(* Properties. *)

Migrated == running /\ tasks = << >> /\ ~wrong

\* An index that has some of the wanted columns is taken for configured, so a
\* new column of a table is not added. One that a call broke off at has the
\* columns to filter by and not those to sort by, and is taken for configured
\* as well.
ColumnsFit(t) ==
  \/ layout[t].columns \subseteq index[t].filter /\ index[t].filter = index[t].sort
  \/ found[t].filter # {} /\ found[t].filter \subseteq layout[t].columns /\ index[t] = found[t]
       /\ (torn \/ found[t].sort = found[t].filter)

\* A migration that succeeds leaves every table with an index over the key
\* of the messages that can be filtered by its columns, whatever it found and
\* whatever failed before; neo4j leaves an index alone that has the name.
IndexFits ==
  Migrated =>
    \A t \in CollectionNames :
      CASE engine = "meilisearch"   -> index[t].key = HashKey /\ ColumnsFit(t)
        [] engine = "mongodb"       -> layout[t].key # {} => layout[t].key \in {index[t].key, alien[t]}
        [] engine = "neo4j"         ->
             layout[t].key # {} => index[t].key = layout[t].key \/ (found[t].there /\ index[t] = found[t])
        [] engine = "elasticsearch" ->
             /\ template[t] = layout[t].columns
             /\ forced => ~index[t].there \/ index[t].key # KeyOf(t)

\* In safe mode no index is dropped and none loses a column, and a refused
\* call of meilisearch changes nothing.
SafeKeepsIndexes ==
  [][running /\ ~forced =>
       \A t \in CollectionNames : index[t].there =>
         /\ index'[t].there /\ index'[t].key = index[t].key
         /\ index[t].filter \subseteq index'[t].filter]_indexVars
=============================================================================
