------------------------------ MODULE Deletions -----------------------------
(***************************************************************************)
(* DeleteRecords of the three destinations that have it:                   *)
(* plugins/destination/{postgresql, sqlite, clickhouse}/client/delete.go.  *)
(*                                                                         *)
(* A message deletes the rows of a table that its where clause selects,    *)
(* and names the relations whose rows should go with them. postgresql      *)
(* makes one statement of a message and sends all messages together, the   *)
(* others execute one statement per message. Rows are those of a table, of *)
(* its relation and of the relation's relation; the databases are external.*)
(***************************************************************************)
EXTENDS Naturals, Sequences, FiniteSets, SequencesExt, TLC

CONSTANTS
  Deleters,         \* the destinations of this instance
  Messages,         \* the messages there are
  MaxMessages       \* messages in a batch, at most

\* The relations that a message may name: of a table, the table of its parents.
TableRelations == {[table |-> "child", parent |-> "t"], [table |-> "grandchild", parent |-> "child"]}

ASSUME DeletionsAssumption ==
  /\ MaxMessages \in Nat
  /\ \A m \in Messages : m.relations \in Seq(TableRelations)

VARIABLES
  deleter,    \* the destination
  rows,       \* the rows that are left
  atFirst,    \* the rows before the batch
  messages,   \* the batch
  next,       \* the message whose statement is next
  fate        \* "none", "deleting", "deleted", "failed"

deleteVars == <<deleter, rows, atFirst, messages, next, fate>>

-----------------------------------------------------------------------------
(* Rows: parent is the _cq_id of the row that a row belongs to.            *)

TableRow(table, id, parent, a, b) ==
  [table |-> table, id |-> id, parent |-> parent, a |-> a, b |-> b]

AllRows ==
  {TableRow("t", 1, 0, 0, 0), TableRow("t", 2, 0, 0, 1), TableRow("t", 3, 0, 1, 1),
   TableRow("child", 4, 1, 0, 0), TableRow("child", 5, 3, 0, 0),
   TableRow("grandchild", 6, 4, 0, 0), TableRow("grandchild", 7, 5, 0, 0)}

-----------------------------------------------------------------------------
(* Where clauses: groups, joined by AND, of predicates, joined by the type  *)
(* of the group. Every predicate is an equality.                           *)

Satisfies(r, p) == r[p.column] = p.value

InGroup(r, g) ==
  \/ g.predicates = << >>
  \/ g.type = "AND" /\ \A p \in Range(g.predicates) : Satisfies(r, p)
  \/ g.type = "OR"  /\ \E p \in Range(g.predicates) : Satisfies(r, p)

Selected(r, m) == r.table = m.table /\ \A g \in Range(m.where) : InGroup(r, g)

\* A group without predicates is left out, but the AND before it is not: the
\* clause has no end when the last group is empty.
WellFormed(m) == m.where # << >> => Last(m.where).predicates # << >>

-----------------------------------------------------------------------------
(* The statements. *)

\* generateDeleteCTE: a name can be used once, after it was defined.
ValidRelations(m) ==
  \A i \in DOMAIN m.relations :
    LET earlier == {m.table} \cup {m.relations[j].table : j \in 1..(i - 1)}
    IN  m.relations[i].parent \in earlier /\ m.relations[i].table \notin earlier

\* Mutant: every relation is looked up in the table of the message.
DeletedWithFirst(m, b) ==
  LET first == {r \in b : Selected(r, m)}
      step(deleted, relation) ==
        deleted \cup {r \in b : r.table = relation.table
                        /\ \E p \in first : p.id = r.parent}
  IN  FoldLeft(step, first, m.relations)

\* generateRelationsDelete: the rows whose parent the named CTE has deleted;
\* all of them see the rows from before the statement.
AlsoDeleted(b, deleted, relation) ==
  deleted \cup {r \in b : r.table = relation.table
                  /\ \E p \in deleted : p.table = relation.parent /\ p.id = r.parent}

DeletedWith(m, b) ==
  FoldLeft(LAMBDA deleted, relation : AlsoDeleted(b, deleted, relation), {r \in b : Selected(r, m)}, m.relations)

CanDelete(m) == WellFormed(m) /\ (deleter = "postgresql" => ValidRelations(m))

\* Only postgresql looks at the relations.
AfterDelete(m, b) ==
  IF deleter = "postgresql" THEN b \ DeletedWith(m, b) ELSE {r \in b : ~Selected(r, m)}

-----------------------------------------------------------------------------
(* Batches. *)

DeleteAll(some) == FoldLeft(LAMBDA b, m : AfterDelete(m, b), rows, some)

DeleteInit ==
  /\ deleter \in Deleters
  /\ rows = AllRows /\ atFirst = AllRows
  /\ messages = << >> /\ next = 1 /\ fate = "none"

BeginDelete ==
  /\ fate = "none"
  /\ messages' \in SeqOf(Messages, MaxMessages) \ {<< >>}
  /\ fate' = "deleting"
  /\ UNCHANGED <<deleter, rows, atFirst, next>>

\* DeleteRecordsBatch: the statements of a batch are one transaction.
DeleteBatch ==
  /\ fate = "deleting" /\ deleter = "postgresql"
  /\ \A i \in DOMAIN messages : CanDelete(messages[i])
  /\ rows' = DeleteAll(messages)
  /\ fate' = "deleted"
  /\ UNCHANGED <<deleter, atFirst, messages, next>>

\* DeleteRecord of sqlite and of clickhouse, one message.
DeleteOne ==
  /\ fate = "deleting" /\ deleter # "postgresql"
  /\ next \in DOMAIN messages /\ CanDelete(messages[next])
  /\ rows' = AfterDelete(messages[next], rows)
  /\ next' = next + 1
  /\ UNCHANGED <<deleter, atFirst, messages, fate>>

EndDelete ==
  /\ fate = "deleting" /\ next \notin DOMAIN messages
  /\ fate' = "deleted"
  /\ UNCHANGED <<deleter, rows, atFirst, messages, next>>

\* The server is not reached or refuses a statement, or the answer is lost.
\* clickhouse is asked again while it has too many queries, which changes
\* nothing.
DeleteFailed ==
  /\ fate = "deleting" /\ next \in DOMAIN messages
  /\ LET sent == IF deleter = "postgresql" THEN messages ELSE <<messages[next]>>
     IN  rows' = rows \/ ((\A m \in Range(sent) : CanDelete(m)) /\ rows' = DeleteAll(sent))
  /\ fate' = "failed"
  /\ UNCHANGED <<deleter, atFirst, messages, next>>

DeleteNext == BeginDelete \/ DeleteBatch \/ DeleteOne \/ EndDelete \/ DeleteFailed

DeleteSpec == DeleteInit /\ [][DeleteNext]_deleteVars

-----------------------------------------------------------------------------
(* Properties. *)

\* The row itself, its parent and its parent's parent, as far as the tables
\* of the message go.
Line(r, m, b) ==
  LET tables == {m.table} \cup {m.relations[i].table : i \in DOMAIN m.relations}
      up(s)  == s \cup {p \in b : p.table \in tables /\ \E c \in s : p.id = c.parent}
  IN  IF r.table \in tables THEN up(up({r})) ELSE {}

\* sqlite and clickhouse leave the rows of the relations behind.
Meant(d, b, m) ==
  IF d = "postgresql" THEN {r \in b : \E p \in Line(r, m, b) : Selected(p, m)}
  ELSE {r \in b : Selected(r, m)}

Left(d, first, some) == FoldLeft(LAMBDA b, m : b \ Meant(d, b, m), first, some)

Expected(n) == Left(deleter, atFirst, SubSeq(messages, 1, n))

\* A batch that succeeds has deleted what its messages select, one after the
\* other, and on postgresql whatever belongs to it in the tables of the
\* message's relations at any depth; nothing else. When it fails postgresql
\* has deleted all of that or nothing, the others what the first messages
\* meant.
DeletesMeant ==
  /\ fate = "none" => rows = atFirst
  /\ fate = "deleted" => rows = Expected(Len(messages))
  /\ deleter = "postgresql" => rows \in {atFirst, Expected(Len(messages))}
  /\ \E n \in 0..Len(messages) : rows = Expected(n)
=============================================================================
