-------------------------- MODULE ComponentProofs ---------------------------
(***************************************************************************)
(* Proofs about MCComponents, the run that holds many components, each of  *)
(* which moves in behaviours of its own: what is proved about a component  *)
(* by itself holds in the run as well, because what another one does is a  *)
(* stutter of it, and its first state there is one of its own.             *)
(***************************************************************************)
EXTENDS MCComponents, MigrationProofs, PluginProofs, CliProofs

-----------------------------------------------------------------------------
(* The run behaves as each of its components. *)

LEMMA RunMigrates == Spec => MigrateSpec
<1>1. Init => MigrateInit
  BY DEF Init, MigrateRest
<1>2. [Next]_vars => [MigrateNext]_migrateVars
  <2>1. CASE UNCHANGED vars
    BY <2>1 DEF vars
  <2>2. CASE Next /\ component = "migrations"
    BY <2>2 DEF Next
  <2>3. CASE Next /\ component # "migrations"
    BY <2>3 DEF Next, Others, Keep
  <2> QED BY <2>1, <2>2, <2>3
<1> QED BY <1>1, <1>2, PTL DEF Spec, MigrateSpec

LEMMA RunIndexes == Spec => IndexSpec
<1>1. Init => IndexInit
  BY DEF Init, IndexRest
<1>2. [Next]_vars => [IndexNext]_indexVars
  <2>1. CASE UNCHANGED vars
    BY <2>1 DEF vars
  <2>2. CASE Next /\ component = "indexes"
    BY <2>2 DEF Next
  <2>3. CASE Next /\ component # "indexes"
    BY <2>3 DEF Next, Others, Keep
  <2> QED BY <2>1, <2>2, <2>3
<1> QED BY <1>1, <1>2, PTL DEF Spec, IndexSpec

LEMMA RunWrites == Spec => WriteSpec
<1>1. Init => WriteInit
  BY DEF Init, WriteRest
<1>2. [Next]_vars => [WriteNext]_writeVars
  <2>1. CASE UNCHANGED vars
    BY <2>1 DEF vars
  <2>2. CASE Next /\ component = "writers"
    BY <2>2 DEF Next
  <2>3. CASE Next /\ component # "writers"
    BY <2>3 DEF Next, Others, Keep
  <2> QED BY <2>1, <2>2, <2>3
<1> QED BY <1>1, <1>2, PTL DEF Spec, WriteSpec

LEMMA RunDeletes == Spec => DeleteSpec
<1>1. Init => DeleteInit
  BY DEF Init, DeleteRest
<1>2. [Next]_vars => [DeleteNext]_deleteVars
  <2>1. CASE UNCHANGED vars
    BY <2>1 DEF vars
  <2>2. CASE Next /\ component = "deletions"
    BY <2>2 DEF Next
  <2>3. CASE Next /\ component # "deletions"
    BY <2>3 DEF Next, Others, Keep
  <2> QED BY <2>1, <2>2, <2>3
<1> QED BY <1>1, <1>2, PTL DEF Spec, DeleteSpec

LEMMA RunStores == Spec => StoreSpec
<1>1. Init => StoreInit
  BY DEF Init, StoreRest
<1>2. [Next]_vars => [StoreNext]_storeVars
  <2>1. CASE UNCHANGED vars
    BY <2>1 DEF vars
  <2>2. CASE Next /\ component = "stores"
    BY <2>2 DEF Next
  <2>3. CASE Next /\ component # "stores"
    BY <2>3 DEF Next, Others, Keep
  <2> QED BY <2>1, <2>2, <2>3
<1> QED BY <1>1, <1>2, PTL DEF Spec, StoreSpec

LEMMA RunCreatesTypes == Spec => TypesSpec
<1>1. Init => TypesInit
  BY DEF Init, TypesRest
<1>2. [Next]_vars => [TypesNext]_typeVars
  <2>1. CASE UNCHANGED vars
    BY <2>1 DEF vars
  <2>2. CASE Next /\ component = "types"
    BY <2>2 DEF Next
  <2>3. CASE Next /\ component # "types"
    BY <2>3 DEF Next, Others, Keep
  <2> QED BY <2>1, <2>2, <2>3
<1> QED BY <1>1, <1>2, PTL DEF Spec, TypesSpec

LEMMA RunStoresDocuments == Spec => DocSpec
<1>1. Init => DocInit
  BY DEF Init, DocRest
<1>2. [Next]_vars => [DocNext]_docVars
  <2>1. CASE UNCHANGED vars
    BY <2>1 DEF vars
  <2>2. CASE Next /\ component = "documents"
    BY <2>2 DEF Next
  <2>3. CASE Next /\ component # "documents"
    BY <2>3 DEF Next, Others, Keep
  <2> QED BY <2>1, <2>2, <2>3
<1> QED BY <1>1, <1>2, PTL DEF Spec, DocSpec

LEMMA RunReadsNews == Spec => HackerNewsSpec
<1>1. Init => HackerNewsInit
  BY DEF Init, HackerNewsRest
<1>2. [Next]_vars => [HackerNewsNext]_hnVars
  <2>1. CASE UNCHANGED vars
    BY <2>1 DEF vars
  <2>2. CASE Next /\ component = "hackernews"
    BY <2>2 DEF Next
  <2>3. CASE Next /\ component # "hackernews"
    BY <2>3 DEF Next, Others, Keep
  <2> QED BY <2>1, <2>2, <2>3
<1> QED BY <1>1, <1>2, PTL DEF Spec, HackerNewsSpec

LEMMA RunTransforms == Spec => BasicSpec
<1>1. Init => BasicInit
  BY DEF Init, BasicRest
<1>2. [Next]_vars => [BasicNext]_basicVars
  <2>1. CASE UNCHANGED vars
    BY <2>1 DEF vars
  <2>2. CASE Next /\ component = "transformers"
    BY <2>2 DEF Next
  <2>3. CASE Next /\ component # "transformers"
    BY <2>3 DEF Next, Others, Keep
  <2> QED BY <2>1, <2>2, <2>3
<1> QED BY <1>1, <1>2, PTL DEF Spec, BasicSpec

LEMMA RunCommands == Spec => CommandsSpec
<1>1. Init => CommandsInit
  BY DEF Init, CommandsRest
<1>2. [Next]_vars => [CommandsNext]_commandVars
  <2>1. CASE UNCHANGED vars
    BY <2>1 DEF vars
  <2>2. CASE Next /\ component = "commands"
    BY <2>2 DEF Next
  <2>3. CASE Next /\ component # "commands"
    BY <2>3 DEF Next, Others, Keep
  <2> QED BY <2>1, <2>2, <2>3
<1> QED BY <1>1, <1>2, PTL DEF Spec, CommandsSpec

LEMMA RunReceives == Spec => ReceiverSpec
<1>1. Init => ReceiverInit
  BY DEF Init
<1>2. [Next]_vars => [ReceiverNext]_receiverVars
  <2>1. CASE UNCHANGED vars
    BY <2>1 DEF vars
  <2>2. CASE Next /\ component = "receiver"
    BY <2>2 DEF Next
  <2>3. CASE Next /\ component # "receiver"
    BY <2>3 DEF Next, Others, Keep
  <2> QED BY <2>1, <2>2, <2>3
<1> QED BY <1>1, <1>2, PTL DEF Spec, ReceiverSpec

LEMMA RunPublishes == Spec => PublishSpec
<1>1. Init => PublishInit
  BY DEF Init, PublishRest
<1>2. [Next]_vars => [PublishNext]_publishVars
  <2>1. CASE UNCHANGED vars
    BY <2>1 DEF vars
  <2>2. CASE Next /\ component = "publish"
    BY <2>2 DEF Next
  <2>3. CASE Next /\ component # "publish"
    BY <2>3 DEF Next, Others, Keep
  <2> QED BY <2>1, <2>2, <2>3
<1> QED BY <1>1, <1>2, PTL DEF Spec, PublishSpec

-----------------------------------------------------------------------------
(* So it has all of their properties. *)

\* The variables of the component that moves are of their types, and every
\* plugin that sync or migrate looks up by its name is running.
THEOREM RunTypeCorrect == Spec => []TypeOK
<1>1. ASSUME MigrateTypeOK, WriteTypeOK, ClientsFound PROVE TypeOK
  <2>1. CASE component = "migrations"
    BY <1>1, <2>1, Zenon DEF TypeOK
  <2>2. CASE component = "writers"
    BY <1>1, <2>2, Zenon DEF TypeOK
  <2>3. CASE component # "migrations" /\ component # "writers"
    BY <1>1, <2>3, Zenon DEF TypeOK
  <2> QED BY <2>1, <2>2, <2>3
<1>2. MigrateTypeOK /\ WriteTypeOK /\ ClientsFound => TypeOK
  BY <1>1
<1> QED
  BY <1>2, RunMigrates, RunWrites, RunCommands, MigrationsAreTyped, WritersTypeCorrect, ClientsAreFound, PTL

\* Both: no call of MigrateTables in safe mode drops a table or an index.
THEOREM SafeMigrationsKeep == Spec => SafeKeeps
BY RunMigrates, RunIndexes, SafeMigrationsDropNothing, SafeMigrationsKeepIndexes, PTL DEF SafeKeeps

\* A call of MigrateTables leaves the tables that were wanted, or tables that
\* can be asked for again.
THEOREM RunTablesFit == Spec => [](TableFits /\ NotRefusedLater)
BY RunMigrates, MigratedTablesFit, NeverRefusedLater, PTL

\* A call that succeeds leaves the indexes that were wanted.
THEOREM RunIndexesFit == Spec => []IndexFits
BY RunIndexes, MigratedIndexesFit, PTL

\* What was written without an error is there, once, the batches are in their
\* objects, deletes take what they mean, and a row goes for a newer one or
\* because it is stale.
THEOREM RunRowsKept == Spec => [](Written /\ ObjectsAreBatches /\ DeletesMeant) /\ OnlyStaleGo
BY RunWrites, RunStores, RunDeletes, RowsAreWritten, BatchesAreKept, DeletesAreMeant, StaleRowsGo, PTL

\* Columns are listed with the types that were asked for, and values are read as
\* they were written, but for what is known to be lost.
THEOREM RunValuesKept == Spec => []ValuesKept
BY RunCreatesTypes, RunStoresDocuments, TypesAreAlwaysKept, RowsReadBack, PTL DEF ValuesKept

\* The source misses no item, and a transformer sends records of the promised
\* tables, without the values it is to hide.
THEOREM RunRecordsRight == Spec => [](NoItemMissed /\ RecordFits /\ SensitiveHidden)
BY RunReadsNews, RunTransforms, NoItemIsMissed, RecordsFitTables, SensitiveValuesHidden, PTL

\* The commands keep rows and store what they report but for streams that broke
\* and were logged, the receiver shows all it knew, and a final version is of
\* one build.
THEOREM RunCliRight == Spec => [](LegacyRows /\ TelemetryComplete /\ FinalIsWhole)
BY RunCommands, RunReceives, RunPublishes, LegacyRowsKept, TelemetryIsComplete, FinalIsAlwaysWhole, PTL
=============================================================================
