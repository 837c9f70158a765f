------------------------- MODULE RecordTransformer -------------------------
(***************************************************************************)
(* cli/internal/transformer/transformer.go: the columns the CLI adds to a  *)
(* source's table, and the constraints it changes, before a destination    *)
(* sees the table or a record of it.                                       *)
(*                                                                         *)
(* A table is a function from the names of its columns to their type and   *)
(* constraints; the order of columns is left out. "sync_time" stands for   *)
(* _cq_sync_time and _cq_source_name, which are treated alike.             *)
(***************************************************************************)
EXTENDS TLC

CqID == "cq_id"
SyncTime == "sync_time"
GroupID == "sync_group_id"

\* A column as arrow.Field has it: Nullable is ~notNull.
Column(type, pk, notNull, unique) ==
  [type |-> type, pk |-> pk, notNull |-> notNull, unique |-> unique]

\* The options sync_v3.go chooses for a destination by its spec.
Options(writeMode, pkMode, group, cqColumnsNotNull) ==
  [removePks        |-> writeMode = "append" \/ pkMode = "cq-id-only",
   removeUnique     |-> writeMode = "append",
   cqIDPrimaryKey   |-> writeMode # "append" /\ pkMode = "cq-id-only",
   withSyncGroupID  |-> group,
   cqColumnsNotNull |-> cqColumnsNotNull]

\* A source that sends the columns itself keeps its own.
AddColumns(o, table) ==
  table
    @@ (SyncTime :> Column("time", FALSE, o.cqColumnsNotNull, FALSE))
    @@ (IF o.withSyncGroupID
        THEN GroupID :> Column("str", TRUE, TRUE, FALSE)
        ELSE << >>)

\* The group's key goes with the others when primary keys are removed.
TransformSchema(o, table) ==
  LET added == AddColumns(o, table)
  IN  [c \in DOMAIN added |->
        [added[c] EXCEPT
          !.unique = @ /\ ~o.removeUnique,
          !.pk = (@ /\ ~o.removePks) \/ (c = CqID /\ o.cqIDPrimaryKey)]]

\* Transform: the columns of a record, which carries the same schema.
Transform(o, record, cell) ==
  record @@ (SyncTime :> cell) @@ (IF o.withSyncGroupID THEN GroupID :> cell ELSE << >>)
=============================================================================
