----------------------------- MODULE Migrations -----------------------------
(***************************************************************************)
(* MigrateTables of the destinations that keep tables with a schema, see   *)
(* Dialects for what differs between them.                                 *)
(*                                                                         *)
(* They share one shape. The tables of the database are listed and         *)
(* compared with the tables that are wanted; when a table in safe mode     *)
(* needs changes the destination cannot make, the whole call is refused;   *)
(* then each table is created, altered, or dropped and created, statement  *)
(* by statement. A statement may fail and the program may stop before any  *)
(* of them; what has been executed stays, and a later sync starts from it. *)
(***************************************************************************)
EXTENDS Dialects

CONSTANTS
  Destinations,     \* the destinations of this instance
  Tables,           \* names of the tables, in the order of the messages
  Requests          \* Requests[t]: the tables that t may be asked to be

ASSUME MigrationsAssumption ==
  /\ Destinations \subseteq Postgres \cup {"duckdb", "sqlite", "mysql", "mssql",
                                          "snowflake", "clickhouse", "bigquery"}
  /\ Tables \in Seq(STRING)
  /\ \A t \in Range(Tables) : \A r \in Requests[t] :
       /\ IsFiniteSet(DOMAIN r)
       /\ \A c \in DOMAIN r : r[c] \in [type : STRING, pk : BOOLEAN, notNull : BOOLEAN, unique : BOOLEAN]

VARIABLES
  dest,      \* the destination
  have,      \* the tables in the database
  proc,      \* mssql: the columns each table's insert procedure takes
  want,      \* the tables of the messages
  force,     \* MigrateForce
  seen,      \* what listing the tables returned
  todo,      \* todo[t]: statements to execute for t
  phase,     \* "idle", "list", "migrate"
  failed     \* a statement has failed

migrateVars == <<dest, have, proc, want, force, seen, todo, phase, failed>>

Names == Range(Tables)

Wanted(t) == NormalTable(dest, want[t])

Refused(t, old) == ~force /\ Refuses(dest, Wanted(t), old)

-----------------------------------------------------------------------------
(* MigrateTables. *)

Empty == [t \in Names |-> NoTable]

MigrateInit ==
  /\ dest \in Destinations
  /\ have = Empty /\ proc = [t \in Names |-> {}]
  /\ want = Empty /\ force = FALSE /\ seen = Empty
  /\ todo = [t \in Names |-> << >>]
  /\ phase = "idle" /\ failed = FALSE

\* The next sync asks for its tables.
Request ==
  /\ phase = "idle"
  /\ want' \in {w \in [Names -> UNION Range(Requests)] : \A t \in Names : w[t] \in Requests[t]}
  /\ force' \in BOOLEAN
  /\ phase' = "list"
  /\ UNCHANGED <<dest, have, proc, seen, todo, failed>>

\* sqliteTables looks at the result before the error, so a table it failed
\* to list is taken for none.
SQLiteListings == {have} \cup {[have EXCEPT ![t] = NoTable] : t \in Names}

\* What listing the tables may return.
Listings == IF dest = "sqlite" THEN SQLiteListings ELSE {have}

Return ==
  /\ want' = Empty /\ force' = FALSE /\ seen' = Empty
  /\ phase' = "idle" /\ failed' = FALSE
  /\ UNCHANGED <<dest, have, proc, todo>>

ListFails == phase = "list" /\ dest # "sqlite" /\ Return

Refuse ==
  /\ phase = "list"
  /\ \E listed \in Listings, t \in Names : Refused(t, listed[t])
  /\ Return

\* Mutant: only the first table is looked at before tables are changed.
StartUnchecked ==
  /\ phase = "list"
  /\ seen' \in Listings
  /\ ~Refused(Head(Tables), seen'[Head(Tables)])
  /\ todo' = [t \in Names |-> Statements(dest, Wanted(t), seen'[t])]
  /\ phase' = "migrate"
  /\ UNCHANGED <<dest, have, proc, want, force, failed>>

Start ==
  /\ phase = "list"
  /\ seen' \in Listings
  /\ \A t \in Names : ~Refused(t, seen'[t])
  /\ todo' = [t \in Names |-> Statements(dest, Wanted(t), seen'[t])]
  /\ phase' = "migrate"
  /\ UNCHANGED <<dest, have, proc, want, force, failed>>

Turn(t) ==
  /\ todo[t] # << >>
  /\ \/ dest \in Concurrent
     \/ \A i \in 1..(CHOOSE n \in DOMAIN Tables : Tables[n] = t) - 1 : todo[Tables[i]] = << >>

Execute(t) ==
  /\ Turn(t) /\ Possible(Head(todo[t]), have[t], Wanted(t))
  /\ have' = [have EXCEPT ![t] = Effect(dest, Head(todo[t]), @, Wanted(t))]
  /\ proc' = [proc EXCEPT ![t] = ProcEffect(Head(todo[t]), @, Wanted(t))]
  /\ todo' = [todo EXCEPT ![t] = Tail(@)]
  /\ UNCHANGED <<dest, want, force, seen, phase, failed>>

\* A statement fails, or the program is stopped before it. The other
\* goroutines of an errgroup end with what they are at.
Fail(t) ==
  /\ Turn(t)
  /\ failed' = TRUE
  /\ todo' = IF dest \in Concurrent THEN [todo EXCEPT ![t] = << >>] ELSE [u \in Names |-> << >>]
  /\ UNCHANGED <<dest, have, proc, want, force, seen, phase>>

Done == phase = "migrate" /\ \A t \in Names : todo[t] = << >>

\* Mutant: the call returns when the first goroutine is done.
FinishWithFirst ==
  /\ phase = "migrate"
  /\ \E t \in Names : todo[t] = << >>
  /\ Return

Finish == Done /\ Return

MigrateNext ==
  \/ Request \/ ListFails \/ Refuse \/ Start
  \/ \E t \in Names : Execute(t) \/ Fail(t)
  \/ Finish

MigrateSpec == MigrateInit /\ [][MigrateNext]_migrateVars

-----------------------------------------------------------------------------
(* Properties. *)

\* The tables and statements are what the types of the code allow.
MigrateTypeOK ==
  /\ dest \in Destinations
  /\ \A t \in Names :
       /\ \A c \in DOMAIN have[t] :
            {have[t][c].pk, have[t][c].notNull, have[t][c].unique} \subseteq BOOLEAN
       /\ want[t] \in Requests[t] \cup {NoTable}
       /\ seen[t] # NoTable => phase = "migrate"
       /\ todo[t] # << >> => phase = "migrate"
       /\ proc[t] # {} => dest = "mssql"
  /\ force \in BOOLEAN /\ failed \in BOOLEAN
  /\ phase \in {"idle", "list", "migrate"}

\* sqlite's CREATE TABLE IF NOT EXISTS does nothing for a table it missed.
Misread(t) == dest = "sqlite" /\ seen[t] = NoTable

TypesFit(t) ==
  \A c \in DOMAIN Wanted(t) : c \in DOMAIN have[t] /\ have[t][c].type = Wanted(t)[c].type

KeyFits(t) == DOMAIN Wanted(t) # {} => Keys(have[t]) = Keys(Wanted(t))

\* What is known not to hold: postgresql leaves other changes out when the
\* key moves to _cq_id, and snowflake the type of a column whose key or NOT
\* NULL also changes, a NOT NULL that comes with a change of the key, and the
\* rest of a key it has dropped a column of.
PassedOver(t) ==
  LET new == Wanted(t) old == seen[t] IN
  \/ /\ dest \in {"postgresql", "cockroachdb"} /\ MovesToCqID(new, old)
     /\ \E c \in Updates(new, old) \ {CqID} :
          new[c].type # old[c].type \/ ~old[c].pk \/ new[c].notNull
  \/ /\ dest = "snowflake"
     /\ \E c \in DOMAIN old :
          \/ c \in DOMAIN new /\ new[c].type # old[c].type
          \/ c \in DOMAIN new /\ new[c].notNull /\ ~old[c].notNull
          \/ old[c].pk /\ (c \in DOMAIN new => ~new[c].pk)

\* A table that has all that is wanted is skipped, and its procedure with it:
\* one that was made for fewer columns in the meantime, or not made again
\* because a call broke off, stays.
ProcFits(t) ==
  dest = "mssql" /\ Keys(Wanted(t)) # {} =>
    proc[t] = DOMAIN Wanted(t) \/ Statements(dest, Wanted(t), seen[t]) = << >>

\* A migration that succeeds leaves a table with the wanted columns, types
\* and key, and a procedure that takes them, whatever it found and whatever
\* failed before.
TableFits ==
  Done /\ ~failed =>
    \A t \in Names :
      (TypesFit(t) /\ KeyFits(t) /\ ProcFits(t)) \/ PassedOver(t) \/ Misread(t)

\* In safe mode no table is ever dropped, also where the check and the
\* migration compare the tables in opposite directions (sqlite, mysql).
SafeKeepsTables ==
  [][~force => \A t \in Names : have[t] # NoTable => have'[t] # NoTable]_migrateVars

\* After a safe migration that was not refused, done or broken off, the same
\* one is not refused either: the next sync can go on with it. CockroachDB
\* moves a key and drops NOT NULL in two transactions, and stays refused
\* when it is stopped between them.
NotRefusedLater ==
  Done => \A t \in Names :
    ~Refused(t, have[t]) \/ PassedOver(t) \/ Misread(t) \/ (dest = "cockroachdb" /\ failed)
=============================================================================
