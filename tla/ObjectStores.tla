---------------------------- MODULE ObjectStores ----------------------------
(***************************************************************************)
(* plugins/destination/{s3, gcs, azblob, file}/client: tables are written  *)
(* as objects, one for each batch of a table, under names that the path of *)
(* the spec makes of the table, a UUID and the time or the sync.           *)
(*                                                                         *)
(* batch_size, batch_size_bytes and batch_timeout are one parameter. A     *)
(* batch is cut by the SDK's StreamingBatchWriter, which is external, as   *)
(* are the stores. An object is the set of the batches it holds.           *)
(***************************************************************************)
EXTENDS Naturals, Maps

CONSTANTS
  Stores,        \* the destinations of this instance
  StoreTables,   \* tables that are written
  MaxBatches,    \* batches of a table in a sync, at most
  MaxStoreSyncs  \* syncs, at most

ASSUME ObjectStoresAssumption ==
  /\ Stores \subseteq {"s3", "gcs", "azblob", "file"}
  /\ {MaxBatches, MaxStoreSyncs} \subseteq Nat

VARIABLES
  store,        \* the destination
  spec,         \* its spec: what the path contains, and how it batches
  storeSync,    \* number of the sync, 0 before the first
  made,         \* made[t]: batches of t begun in this sync
  open,         \* open[t]: the name a batch of t is being written to
  initialized,  \* s3: initializedTables
  objects,      \* the objects
  storeFailed   \* the sync has failed

storeVars == <<store, spec, storeSync, made, open, initialized, objects, storeFailed>>

NoName == << >>

-----------------------------------------------------------------------------
(* Spec. *)

Specs ==
  {s \in [table : BOOLEAN, uuid : BOOLEAN, time : BOOLEAN,
          noRotate : BOOLEAN, batch : {"unset", "zero", "some"}, empties : BOOLEAN] :
     s.empties => store = "s3"}

BatchingEnabled(s) == ~s.noRotate /\ s.batch # "zero"

\* Mutant: a path without a UUID is taken as well.
ValidateNoUUID(s) == s.noRotate => s.batch # "some"

\* gcs and azblob do not look for a UUID in the path.
Validate(s) ==
  /\ s.noRotate => s.batch # "some"
  /\ store \in {"s3", "file"} => /\ s.noRotate => ~s.uuid
                                 /\ BatchingEnabled(s) => s.uuid

DefaultBatch(s) ==
  IF s.batch # "unset" THEN s ELSE [s EXCEPT !.batch = IF s.noRotate THEN "zero" ELSE "some"]

\* s3 and file add what is missing to a path without the table, azblob takes
\* the path for a directory.
DefaultPath(s) ==
  CASE store = "s3"     -> IF s.table THEN s
                           ELSE [s EXCEPT !.table = TRUE, !.uuid = @ \/ ~s.noRotate]
    [] store = "file"   -> [s EXCEPT !.table = TRUE]
    [] store = "azblob" -> [s EXCEPT !.table = TRUE, !.uuid = ~s.noRotate, !.time = FALSE]
    [] store = "gcs"    -> s

SetDefaults(s) == DefaultBatch(DefaultPath(s))

\* ReplacePathVariables. gcs takes a path without variables for a directory.
PathVariables(s) ==
  IF store = "gcs" /\ ~s.table /\ ~s.uuid /\ ~s.time
  THEN [s EXCEPT !.table = TRUE, !.uuid = ~s.noRotate]
  ELSE s

\* A UUID is as good as the sync, the table and the batch.
ObjectName(t, sync, n) ==
  LET p == PathVariables(spec)
  IN  [table |-> IF p.table THEN t ELSE "",
       time  |-> IF p.time THEN sync ELSE 0,
       uuid  |-> IF p.uuid THEN <<sync, t, n>> ELSE << >>]

-----------------------------------------------------------------------------
(* Syncs. *)

StoreInit ==
  /\ store \in Stores
  /\ spec \in {SetDefaults(s) : s \in {x \in Specs : Validate(x)}}
  /\ storeSync = 0
  /\ made = [t \in StoreTables |-> 0] /\ open = [t \in StoreTables |-> NoName]
  /\ initialized = [t \in StoreTables |-> NoName]
  /\ objects = << >> /\ storeFailed = FALSE

\* A sync is a process of its own. s3's MigrateTable writes an object without
\* rows for each table, and keeps its name.
BeginStoreSync ==
  /\ storeSync < MaxStoreSyncs /\ \A t \in StoreTables : open[t] = NoName
  /\ storeSync' = storeSync + 1
  /\ made' = [t \in StoreTables |-> 0]
  /\ initialized' = [t \in StoreTables |-> IF spec.empties THEN ObjectName(t, storeSync', 0) ELSE NoName]
  /\ objects' = [n \in {initialized'[t] : t \in StoreTables} \ {NoName} |-> {}] ++ objects
  /\ storeFailed' = FALSE
  /\ UNCHANGED <<store, spec, open>>

\* The first record of a batch names its object. Without batching there is
\* one batch of a table.
BeginBatch(t) ==
  /\ storeSync > 0 /\ ~storeFailed /\ open[t] = NoName
  /\ made[t] < IF spec.batch = "some" THEN MaxBatches ELSE 1
  /\ made' = [made EXCEPT ![t] = @ + 1]
  /\ open' = [open EXCEPT ![t] =
       IF initialized[t] # NoName THEN initialized[t] ELSE ObjectName(t, storeSync, made'[t])]
  /\ initialized' = [initialized EXCEPT ![t] = NoName]
  /\ UNCHANGED <<store, spec, storeSync, objects, storeFailed>>

Batch(t) == <<storeSync, t, made[t]>>

Content(n) == IF n \in DOMAIN objects THEN objects[n] ELSE {}

\* The end of a batch completes the upload, which replaces an object of that
\* name; a file is appended to.
EndBatch(t) ==
  /\ open[t] # NoName
  /\ objects' = Put(objects, open[t], (IF store = "file" THEN Content(open[t]) ELSE {}) \cup {Batch(t)})
  /\ open' = [open EXCEPT ![t] = NoName]
  /\ UNCHANGED <<store, spec, storeSync, made, initialized, storeFailed>>

\* An upload that fails leaves no object, a file what was written of it.
FailBatch(t) ==
  /\ open[t] # NoName
  /\ storeFailed' = TRUE
  /\ open' = [u \in StoreTables |-> NoName]
  /\ objects' \in {objects} \cup
       (IF store = "file" THEN {Put(objects, open[t], Content(open[t]) \cup {Batch(t)})} ELSE {})
  /\ UNCHANGED <<store, spec, storeSync, made, initialized>>

StoreNext ==
  \/ BeginStoreSync
  \/ \E t \in StoreTables : BeginBatch(t) \/ EndBatch(t) \/ FailBatch(t)

StoreSpec == StoreInit /\ [][StoreNext]_storeVars

-----------------------------------------------------------------------------
(* Properties. *)

Ended(t) == made[t] - (IF open[t] = NoName THEN 0 ELSE 1)

\* Every batch of this sync that was written is in an object: none has
\* replaced another (the comment on no_rotate in every spec.go).
BatchesKept ==
  ~storeFailed =>
    \A t \in StoreTables : \A n \in 1..Ended(t) :
      \E o \in DOMAIN objects : <<storeSync, t, n>> \in objects[o]

\* gcs takes a path with variables but without a UUID, and then a batch
\* replaces the one before it, and one table another.
OverwritesInGCS == store = "gcs" /\ spec \in {s \in Specs : ~s.uuid /\ (s.table \/ s.time)}

BatchesKeptElsewhere == BatchesKept \/ OverwritesInGCS

\* Of s3: a table that has rows has no object without rows beside them.
NoEmptyObjectLeft ==
  ~storeFailed =>
    \A t \in StoreTables : Ended(t) > 0 =>
      \A o \in DOMAIN objects : o.table = t /\ objects[o] = {} =>
        o \notin {ObjectName(t, storeSync, n) : n \in 0..MaxBatches}

\* The objects of a sync that did not fail are its batches: none has replaced
\* another, but for gcs, and the object that a migration made for a table
\* without rows is used when the table has some.
ObjectsAreBatches == BatchesKeptElsewhere /\ NoEmptyObjectLeft
=============================================================================
