------------------------------- MODULE SyncV3 -------------------------------
(***************************************************************************)
(* cli/cmd/sync_v3.go: one sync of one source into ND destinations.        *)
(*                                                                         *)
(* Goroutines: the one that reads the source's stream (src), one pipeline  *)
(* run per destination (pstate), and the caller, which waits for them and  *)
(* then deletes stale rows, sends the summaries and closes the             *)
(* destinations (pc). The pipeline of a destination is the record stream   *)
(* of RecordStream.tla, which Pipeline.tla implements; plugins and gRPC    *)
(* streams are external.                                                   *)
(*                                                                         *)
(* Destination d is destinations[d-1]. Every insert carries one row; the   *)
(* k-th insert of the source is record k.                                  *)
(***************************************************************************)
EXTENDS Naturals, Sequences, FiniteSets

CONSTANTS
  Tables,        \* tables of the source
  Parent,        \* Parent[t]: the parent of t, or NoTable
  NoTable,
  Incremental,   \* tables with IsIncremental
  StateBackend,  \* isStateBackendEnabled
  ND,            \* how many destinations
  ODS,           \* destinations with write_mode overwrite-delete-stale
  WithSummary,   \* destinations with send_sync_summary
  Transformers,  \* Transformers[d]: how many transformers d has
  Name,          \* Name[d][t]: what d's transformers make of the name t
  NoMigrate,     \* --no-migrate
  MaxMessages,   \* bound: messages of the source's stream
  PipeCap,       \* bound: records inside one pipeline
  Faults         \* which of the faults named below happen

Dests  == 1..ND
Names  == {Name[d][t] : d \in Dests, t \in Tables} \cup Tables

ASSUME SyncAssumption ==
  /\ IsFiniteSet(Tables) /\ NoTable \notin Tables
  /\ Parent \in [Tables -> Tables \cup {NoTable}]
  /\ Incremental \subseteq Tables
  /\ StateBackend \in BOOLEAN /\ NoMigrate \in BOOLEAN
  /\ ND \in Nat \ {0}
  /\ ODS \subseteq Dests /\ WithSummary \subseteq Dests
  /\ Transformers \in [Dests -> Nat]
  /\ DOMAIN Name = Dests /\ \A d \in Dests : DOMAIN Name[d] = Tables
  /\ MaxMessages \in Nat /\ PipeCap \in Nat \ {0}
  /\ Faults \subseteq {"init", "source", "schema", "transformer", "destination", "close"}

VARIABLES
  pc,           \* "init", "wait", "stale", "staleSend", "summary", "summaryRow",
                \* "close", "done"
  src,          \* source goroutine: "recv", "fanout", "done"
  srcErr,       \* it returned an error
  msg,          \* the message it is fanning out
  dst,          \* the loop variable over the destinations
  received,     \* messages received so far
  inserts,      \* history: the tables of the inserts received
  migrated,     \* tables with a MigrateTable message (part of sourceTables)
  skipped,      \* skippedFromDeleteStale
  staleTables,  \* tablesForDeleteStale
  learned,      \* learned[d]: the keys of tableNameChanges[d]
  sentTo,       \* calls of the pipeline's Send for d
  passedOn,     \* records that left d's pipeline
  closed,       \* the pipeline's Close was called
  broke,        \* what has failed in it: "none", the "first" transformer, a
                \* "later" one, or its "output"
  pstate,       \* RunBlocking: "run", or what it returned: "ok", "err"
  down,         \* d's write stream has failed
  streamClosed, \* CloseAndRecv was called on it
  wrote,        \* the messages d's write stream accepted
  staleLeft,    \* tables deleteStale has still to send
  metaErr,      \* metadataDataErrors # nil
  ret           \* what syncConnectionV3 returned: "none", "ok", "err"

sourceVars == <<src, srcErr, msg, received, inserts>>
tableVars  == <<migrated, skipped, staleTables, learned>>
pipeVars   == <<sentTo, passedOn, closed, broke, pstate>>
writeVars  == <<down, streamClosed, wrote>>
mainVars   == <<pc, staleLeft, metaErr, ret>>
vars == <<sourceVars, dst, tableVars, pipeVars, writeVars, mainVars>>

Kinds   == {"insert", "migrate", "delete", "stale", "summaryTable", "summary"}
\* What a write stream carries: k is the record of an insert, the number of
\* resources of a summary, else 0.
Written == [kind : Kinds, name : Names \cup {NoTable}, k : 0..MaxMessages]

TypeOK ==
  /\ pc \in {"init", "wait", "stale", "staleSend", "summary", "summaryRow", "close", "done"}
  /\ src \in {"recv", "fanout", "done"} /\ srcErr \in BOOLEAN
  /\ msg \in [kind : {"none", "insert", "migrate", "delete"}, table : Tables \cup {NoTable}]
  /\ dst \in Dests
  /\ received \in 0..MaxMessages
  /\ inserts \in Seq(Tables) /\ Len(inserts) <= received
  /\ migrated \subseteq Tables /\ skipped \subseteq Tables /\ staleTables \subseteq Tables
  /\ learned \in [Dests -> SUBSET Tables]
  /\ sentTo \in [Dests -> 0..MaxMessages] /\ passedOn \in [Dests -> 0..MaxMessages]
  /\ closed \in [Dests -> BOOLEAN] /\ pstate \in [Dests -> {"run", "ok", "err"}]
  /\ broke \in [Dests -> {"none", "first", "later", "output"}]
  /\ down \in [Dests -> BOOLEAN] /\ streamClosed \in [Dests -> BOOLEAN]
  /\ wrote \in [Dests -> Seq(Written)]
  /\ staleLeft \subseteq Names
  /\ metaErr \in BOOLEAN /\ ret \in {"none", "ok", "err"}

NoMsg == [kind |-> "none", table |-> NoTable]

Init ==
  /\ pc = "init" /\ src = "recv" /\ srcErr = FALSE /\ msg = NoMsg /\ dst = 1
  /\ received = 0 /\ inserts = <<>>
  /\ migrated = {} /\ skipped = {} /\ staleTables = {}
  /\ learned = [d \in Dests |-> {}]
  /\ sentTo = [d \in Dests |-> 0] /\ passedOn = [d \in Dests |-> 0]
  /\ closed = [d \in Dests |-> FALSE]
  /\ broke = [d \in Dests |-> "none"] /\ pstate = [d \in Dests |-> "run"]
  /\ down = [d \in Dests |-> FALSE] /\ streamClosed = [d \in Dests |-> FALSE]
  /\ wrote = [d \in Dests |-> <<>>]
  /\ staleLeft = {} /\ metaErr = FALSE /\ ret = "none"

-----------------------------------------------------------------------------
(* Send on a destination's write stream (safeWriteClient). *)

Message(kind, name, k) == [kind |-> kind, name |-> name, k |-> k]

\* Send returns nil and the destination gets the message.
Accepted(d, m) ==
  /\ ~down[d] /\ ~streamClosed[d]
  /\ wrote' = [wrote EXCEPT ![d] = Append(@, m)]

\* Send returns nil, but the stream has already failed: the message is lost.
Lost(d) == down[d] /\ ~streamClosed[d] /\ UNCHANGED wrote

SendOK(d, m) == Accepted(d, m) \/ Lost(d)

\* Send returns an error.
Refused(d) == (down[d] \/ streamClosed[d]) /\ UNCHANGED wrote

\* handleSendError: it calls CloseAndRecv and always returns an error.
HandleSendError(d) == streamClosed' = [streamClosed EXCEPT ![d] = TRUE]

-----------------------------------------------------------------------------
(* syncConnectionV3 up to the start of its goroutines. *)

Return(result) == pc' = "done" /\ ret' = result

\* Plugins are initialized, streams opened, goroutines started; any call may fail.
Start ==
  /\ pc = "init"
  /\ \/ pc' = "wait" /\ UNCHANGED ret
     \/ "init" \in Faults /\ Return("err")
  /\ UNCHANGED <<sourceVars, dst, tableVars, pipeVars, writeVars, staleLeft, metaErr>>

-----------------------------------------------------------------------------
(* The goroutine that reads the source's stream. *)

\* It returns; the deferred calls close every pipeline.
SourceReturns(failed) ==
  /\ src' = "done" /\ srcErr' = failed
  /\ closed' = [d \in Dests |-> TRUE]

Receives ==
  /\ pc = "wait" /\ src = "recv" /\ received < MaxMessages
  /\ received' = received + 1
  /\ dst' = 1
  /\ UNCHANGED <<srcErr, learned, pipeVars, writeVars, mainVars>>

\* The source sends a table's inserts and deletes after its migrate message.
ReceiveInsert(t) ==
  /\ Receives /\ t \in migrated
  /\ inserts' = Append(inserts, t)
  /\ msg' = [kind |-> "insert", table |-> t] /\ src' = "fanout"
  /\ UNCHANGED <<migrated, skipped, staleTables>>

ReceiveDelete(t) ==
  /\ Receives /\ t \in migrated
  /\ msg' = [kind |-> "delete", table |-> t] /\ src' = "fanout"
  /\ UNCHANGED <<inserts, migrated, skipped, staleTables>>

\* The error is counted, and nothing else happens.
ReceiveError ==
  /\ Receives
  /\ UNCHANGED <<src, msg, inserts, migrated, skipped, staleTables>>

\* Mutant: relations of skipped tables are not skipped.
SkipStaleNotChildren(t) == StateBackend /\ t \in Incremental

\* An incremental table with a state backend and, by its parent, every
\* descendant of it, is left out of delete-stale.
SkipStale(t) ==
  StateBackend /\ (t \in Incremental \/ (Parent[t] # NoTable /\ Parent[t] \in skipped))

\* Mutant: the migrate message of a child table is not passed on.
ReceiveMigrateParentOnly(t) ==
  /\ Receives
  /\ t \notin migrated /\ Parent[t] \in migrated \cup {NoTable}
  /\ migrated' = migrated \cup {t}
  /\ IF SkipStale(t)
     THEN skipped' = skipped \cup {t} /\ UNCHANGED staleTables
     ELSE staleTables' = staleTables \cup {t} /\ UNCHANGED skipped
  /\ IF NoMigrate \/ Parent[t] # NoTable
     THEN UNCHANGED <<src, msg>>
     ELSE msg' = [kind |-> "migrate", table |-> t] /\ src' = "fanout"
  /\ UNCHANGED inserts

\* The source sends parents before their children.
ReceiveMigrate(t) ==
  /\ Receives
  /\ t \notin migrated /\ Parent[t] \in migrated \cup {NoTable}
  /\ migrated' = migrated \cup {t}
  /\ IF SkipStale(t)
     THEN skipped' = skipped \cup {t} /\ UNCHANGED staleTables
     ELSE staleTables' = staleTables \cup {t} /\ UNCHANGED skipped
  /\ IF NoMigrate
     THEN UNCHANGED <<src, msg>>
     ELSE msg' = [kind |-> "migrate", table |-> t] /\ src' = "fanout"
  /\ UNCHANGED inserts

\* The loop over the destinations goes on.
NextDest ==
  /\ IF dst < ND
     THEN dst' = dst + 1 /\ UNCHANGED src
     ELSE src' = "recv" /\ UNCHANGED dst
  /\ UNCHANGED <<srcErr, closed>>

\* Mutant: Send waits for its goroutine only.
FanoutInsertWaits ==
  /\ src = "fanout" /\ msg.kind = "insert"
  /\ sentTo' = [sentTo EXCEPT ![dst] = @ + 1]
  /\ sentTo[dst] - passedOn[dst] < PipeCap
  /\ NextDest
  /\ UNCHANGED <<msg, received, inserts, tableVars, passedOn, broke, pstate, writeVars,
                 mainVars>>

\* An insert goes into the destination's pipeline. Send refuses it with
\* ErrPipelineClosed, on which the goroutine returns nil, or with the error of
\* the first transformer's stream. It blocks while the pipeline is full: when a
\* later transformer has failed nothing empties or closes it any more.
FanoutInsert ==
  /\ src = "fanout" /\ msg.kind = "insert"
  /\ sentTo' = [sentTo EXCEPT ![dst] = @ + 1]
  /\ \/ closed[dst] /\ SourceReturns(FALSE) /\ UNCHANGED dst
     \/ ~closed[dst] /\ broke[dst] = "first" /\ SourceReturns(TRUE) /\ UNCHANGED dst
     \/ /\ ~closed[dst] /\ broke[dst] # "first"
        /\ sentTo[dst] - passedOn[dst] < PipeCap
        /\ NextDest
  /\ UNCHANGED <<msg, received, inserts, tableVars, passedOn, broke, pstate, writeVars,
                 mainVars>>

\* A migrate or delete message does not pass the pipeline: the transformers'
\* TransformSchema gives the name, and the message is written at once.
FanoutDirect ==
  /\ src = "fanout" /\ msg.kind \in {"migrate", "delete"}
  /\ learned' = IF msg.kind = "migrate"
                THEN [learned EXCEPT ![dst] = @ \cup {msg.table}] ELSE learned
  /\ \/ /\ SendOK(dst, Message(msg.kind, Name[dst][msg.table], 0))
        /\ NextDest
        /\ UNCHANGED streamClosed
     \/ Refused(dst) /\ HandleSendError(dst) /\ SourceReturns(TRUE) /\ UNCHANGED dst
  /\ UNCHANGED <<msg, received, inserts, migrated, skipped, staleTables, sentTo,
                 passedOn, broke, pstate, down, mainVars>>

\* The stream ends.
SourceEnds ==
  /\ pc = "wait" /\ src = "recv" /\ SourceReturns(FALSE)
  /\ UNCHANGED <<msg, received, inserts, dst, tableVars, sentTo, passedOn, broke,
                 pstate, writeVars, mainVars>>

\* The stream breaks; a message cannot be decoded or encoded; or a
\* TransformSchema call fails.
SourceFails ==
  /\ pc = "wait" /\ SourceReturns(TRUE)
  /\ \/ "source" \in Faults /\ src # "done"
     \/ "schema" \in Faults /\ src = "fanout" /\ msg.kind \in {"migrate", "delete"}
  /\ UNCHANGED <<msg, received, inserts, dst, tableVars, sentTo, passedOn, broke,
                 pstate, writeVars, mainVars>>

-----------------------------------------------------------------------------
(* The pipelines, each the record stream of one destination. *)

InPipe(d) == sentTo[d] - passedOn[d]

\* The function registered with OnOutput: the next record goes to the write
\* stream, and an error of the stream closes the pipeline.
PipeDeliver(d) ==
  /\ pc = "wait" /\ pstate[d] = "run" /\ broke[d] # "output" /\ InPipe(d) > 0
  /\ LET k == passedOn[d] + 1 IN
       \/ /\ SendOK(d, Message("insert", Name[d][inserts[k]], k))
          /\ passedOn' = [passedOn EXCEPT ![d] = k]
          /\ UNCHANGED <<closed, broke, streamClosed>>
       \/ /\ Refused(d) /\ HandleSendError(d)
          /\ closed' = [closed EXCEPT ![d] = TRUE]
          /\ broke' = [broke EXCEPT ![d] = "output"]
          /\ UNCHANGED passedOn
  /\ UNCHANGED <<sourceVars, dst, tableVars, sentTo, pstate, down, mainVars>>

\* A transformer's stream breaks while a loop still uses it: the loop returns
\* the error, and closes neither the pipeline nor the next client.
PipeBreaks(d) ==
  /\ "transformer" \in Faults /\ pc = "wait" /\ pstate[d] = "run"
  /\ \/ /\ Transformers[d] > 0 /\ broke[d] \in {"none", "later"}
        /\ broke' = [broke EXCEPT ![d] = "first"]
     \/ /\ Transformers[d] > 1 /\ broke[d] = "none"
        /\ broke' = [broke EXCEPT ![d] = "later"]
  /\ UNCHANGED <<sourceVars, dst, tableVars, sentTo, passedOn, closed, pstate, writeVars,
                 mainVars>>

\* RunBlocking returns the first error when every client's loop has returned.
\* With more than one transformer some may wait for ever: it depends on what
\* they hold, see Pipeline.
PipeFails(d) ==
  /\ pstate[d] = "run" /\ broke[d] # "none"
  /\ pstate' = [pstate EXCEPT ![d] = "err"]
  /\ UNCHANGED <<sourceVars, dst, tableVars, sentTo, passedOn, closed, broke, writeVars,
                 mainVars>>

\* Mutant: a closed pipeline returns at once.
PipeEndsEarly(d) ==
  /\ pstate[d] = "run" /\ broke[d] = "none" /\ closed[d]
  /\ pstate' = [pstate EXCEPT ![d] = "ok"]
  /\ UNCHANGED <<sourceVars, dst, tableVars, sentTo, passedOn, closed, broke, writeVars,
                 mainVars>>

\* A closed pipeline that has passed on every record returns.
PipeEnds(d) ==
  /\ pstate[d] = "run" /\ broke[d] = "none" /\ closed[d] /\ InPipe(d) = 0
  /\ pstate' = [pstate EXCEPT ![d] = "ok"]
  /\ UNCHANGED <<sourceVars, dst, tableVars, sentTo, passedOn, closed, broke, writeVars,
                 mainVars>>

DestinationFails(d) ==
  /\ "destination" \in Faults /\ pc \notin {"init", "done"} /\ ~down[d] /\ ~streamClosed[d]
  /\ down' = [down EXCEPT ![d] = TRUE]
  /\ UNCHANGED <<sourceVars, dst, tableVars, pipeVars, streamClosed, wrote, mainVars>>

-----------------------------------------------------------------------------
(* syncConnectionV3 after its goroutines. *)

\* Mutants: only the source's goroutine is waited for; the errors of the
\* pipelines are not looked at.
WaitForSource ==
  /\ pc = "wait" /\ src = "done"
  /\ dst' = 1
  /\ IF srcErr \/ \E d \in Dests : pstate[d] = "err"
     THEN Return("err")
     ELSE pc' = "stale" /\ UNCHANGED ret
  /\ UNCHANGED <<sourceVars, tableVars, pipeVars, writeVars, staleLeft, metaErr>>

WaitIgnoresPipelines ==
  /\ pc = "wait" /\ src = "done" /\ \A d \in Dests : pstate[d] # "run"
  /\ dst' = 1
  /\ IF srcErr THEN Return("err") ELSE pc' = "stale" /\ UNCHANGED ret
  /\ UNCHANGED <<sourceVars, tableVars, pipeVars, writeVars, staleLeft, metaErr>>

\* eg.Wait: all have returned; the first error is returned.
Wait ==
  /\ pc = "wait" /\ src = "done" /\ \A d \in Dests : pstate[d] # "run"
  /\ dst' = 1
  /\ IF srcErr \/ \E d \in Dests : pstate[d] = "err"
     THEN Return("err")
     ELSE pc' = "stale" /\ UNCHANGED ret
  /\ UNCHANGED <<sourceVars, tableVars, pipeVars, writeVars, staleLeft, metaErr>>

\* Mutant: the loop runs one destination too far.
LoopNextOneMore(loop, after) ==
  IF dst <= ND THEN pc' = loop /\ dst' = dst + 1 ELSE pc' = after /\ dst' = 1

\* One of the caller's loops over the destinations goes on, or the next one starts.
LoopNext(loop, after) ==
  IF dst < ND THEN pc' = loop /\ dst' = dst + 1 ELSE pc' = after /\ dst' = 1

\* Mutant: the name the source uses.
UpdateTableNameKeeps(d, t) == t

\* UpdateTableName and UpdateTableNames of the tableNameChanger.
UpdateTableName(d, t) == IF t \in learned[d] THEN Name[d][t] ELSE t
UpdateTableNames(d, tables) == {UpdateTableName(d, t) : t \in tables}

\* UpdateTableNames deletes the renamed tables from the map it is given, which
\* is tablesForDeleteStale itself.
StaleBegin ==
  /\ pc = "stale"
  /\ IF dst \in ODS
     THEN /\ staleLeft' = UpdateTableNames(dst, staleTables)
          /\ staleTables' = staleTables \ learned[dst]
          /\ pc' = "staleSend" /\ UNCHANGED dst
     ELSE LoopNext("stale", "summary") /\ UNCHANGED <<staleLeft, staleTables>>
  /\ UNCHANGED <<sourceVars, migrated, skipped, learned, pipeVars, writeVars, metaErr, ret>>

\* deleteStale: one message per table, in any order. Its error is returned as it is.
StaleSend ==
  /\ pc = "staleSend"
  /\ \/ staleLeft = {} /\ LoopNext("stale", "summary") /\ UNCHANGED <<wrote, staleLeft, ret>>
     \/ \E n \in staleLeft :
          /\ SendOK(dst, Message("stale", n, 0))
          /\ staleLeft' = staleLeft \ {n}
          /\ UNCHANGED <<pc, dst, ret>>
     \/ /\ staleLeft # {} /\ Refused(dst) /\ Return("err")
        /\ UNCHANGED <<dst, staleLeft>>
  /\ UNCHANGED <<sourceVars, tableVars, pipeVars, down, streamClosed, metaErr>>

\* sendSummary, its first part: the migrate message, unless NoMigrate. An error
\* is kept, and the loop goes on with the next destination.
SummaryBegin ==
  /\ pc = "summary"
  /\ \/ /\ dst \notin WithSummary /\ LoopNext("summary", "close")
        /\ UNCHANGED <<wrote, streamClosed, metaErr>>
     \/ /\ dst \in WithSummary
        /\ IF NoMigrate THEN UNCHANGED wrote
           ELSE SendOK(dst, Message("summaryTable", NoTable, 0))
        /\ pc' = "summaryRow" /\ UNCHANGED <<dst, streamClosed, metaErr>>
     \/ /\ dst \in WithSummary /\ ~NoMigrate
        /\ Refused(dst) /\ HandleSendError(dst) /\ metaErr' = TRUE
        /\ LoopNext("summary", "close")
  /\ UNCHANGED <<sourceVars, tableVars, pipeVars, down, staleLeft, ret>>

\* Mutant: the summary counts the messages of the source.
SummaryRowCountsMessages ==
  /\ pc = "summaryRow"
  /\ \/ SendOK(dst, Message("summary", NoTable, received)) /\ UNCHANGED <<streamClosed, metaErr>>
     \/ Refused(dst) /\ HandleSendError(dst) /\ metaErr' = TRUE
  /\ LoopNext("summary", "close")
  /\ UNCHANGED <<sourceVars, tableVars, pipeVars, down, staleLeft, ret>>

\* Its second part: the summary itself, with the number of resources.
SummaryRow ==
  /\ pc = "summaryRow"
  /\ \/ SendOK(dst, Message("summary", NoTable, Len(inserts))) /\ UNCHANGED <<streamClosed, metaErr>>
     \/ Refused(dst) /\ HandleSendError(dst) /\ metaErr' = TRUE
  /\ LoopNext("summary", "close")
  /\ UNCHANGED <<sourceVars, tableVars, pipeVars, down, staleLeft, ret>>

\* Mutant: the error of CloseAndRecv is only logged.
CloseDestLogs ==
  /\ pc = "close"
  /\ \/ metaErr /\ Return("err") /\ UNCHANGED <<dst, streamClosed>>
     \/ /\ ~metaErr
        /\ streamClosed' = [streamClosed EXCEPT ![dst] = TRUE]
        /\ \/ "close" \in Faults /\ Return("err") /\ UNCHANGED dst
           \/ dst < ND /\ dst' = dst + 1 /\ UNCHANGED <<pc, ret>>
           \/ dst = ND /\ Return("ok") /\ UNCHANGED dst
  /\ UNCHANGED <<sourceVars, tableVars, pipeVars, down, wrote, staleLeft, metaErr>>

\* Close: the errors of the summaries are returned first; then, for each
\* destination, the write stream is closed, which reports its failure, and the
\* plugin is told to close.
CloseDest ==
  /\ pc = "close"
  /\ \/ metaErr /\ Return("err") /\ UNCHANGED <<dst, streamClosed>>
     \/ ~metaErr /\ down[dst] /\ Return("err") /\ UNCHANGED dst /\ HandleSendError(dst)
     \/ /\ ~metaErr /\ ~down[dst]
        /\ streamClosed' = [streamClosed EXCEPT ![dst] = TRUE]
        /\ \/ "close" \in Faults /\ Return("err") /\ UNCHANGED dst
           \/ dst < ND /\ dst' = dst + 1 /\ UNCHANGED <<pc, ret>>
           \/ dst = ND /\ Return("ok") /\ UNCHANGED dst
  /\ UNCHANGED <<sourceVars, tableVars, pipeVars, down, wrote, staleLeft, metaErr>>

Terminated == pc = "done" /\ UNCHANGED vars

SourceStep ==
  \/ \E t \in Tables : ReceiveInsert(t) \/ ReceiveDelete(t) \/ ReceiveMigrate(t)
  \/ ReceiveError \/ FanoutInsert \/ FanoutDirect \/ SourceEnds
PipeStep(d) == PipeDeliver(d) \/ PipeEnds(d)
MainStep ==
  \/ Start \/ Wait \/ StaleBegin \/ StaleSend
  \/ SummaryBegin \/ SummaryRow \/ CloseDest

Next ==
  \/ SourceStep \/ SourceFails
  \/ \E d \in Dests : PipeStep(d) \/ PipeBreaks(d) \/ PipeFails(d) \/ DestinationFails(d)
  \/ MainStep
  \/ Terminated

Spec == Init /\ [][Next]_vars

\* The source's stream ends, and every goroutine keeps running. The only loop
\* of a pipeline with one client, or none, returns what has failed.
Fairness ==
  /\ WF_vars(SourceStep) /\ WF_vars(MainStep)
  /\ \A d \in Dests : WF_vars(PipeStep(d))
  /\ \A d \in Dests : Transformers[d] <= 1 => WF_vars(PipeFails(d))

FairSpec == Spec /\ Fairness

-----------------------------------------------------------------------------
(* Properties. *)

\* d's write stream got, before its k-th message, every insert up to record n.
GotInserts(d, k, n) ==
  \A r \in 1..n : \E j \in 1..(k - 1) : wrote[d][j].kind = "insert" /\ wrote[d][j].k = r

(* Stale rows are deleted at a destination only when every insert that the
   source sent has been handed to that destination (eg.Wait before deleteStale):
   the rows of this sync are then marked as current. *)
StaleAfterAllRows ==
  \A d \in Dests : \A k \in 1..Len(wrote[d]) :
    wrote[d][k].kind = "stale" => GotInserts(d, k, Len(inserts))

(* A sync whose source failed, or the pipeline of one of its destinations,
   deletes no stale rows at any destination: they are the rows of the last good
   sync. *)
FailedSyncKeepsRows ==
  srcErr \/ (\E d \in Dests : broke[d] # "none") =>
    \A d \in Dests : \A k \in 1..Len(wrote[d]) : wrote[d][k].kind # "stale"

\* t or one of its ancestors is incremental.
Kept[t \in Tables] ==
  t \in Incremental \/ (Parent[t] # NoTable /\ Kept[Parent[t]])

(* With a state backend the rows of an incremental table and of all its
   descendants survive every sync, under any name a transformer gives them. *)
IncrementalKept ==
  \A d \in Dests, t \in Tables : StateBackend /\ Kept[t] =>
    \A k \in 1..Len(wrote[d]) : wrote[d][k].kind = "stale" => wrote[d][k].name # Name[d][t]

(* When the sync succeeds, every destination with overwrite-delete-stale was
   told to delete the stale rows of every table that was migrated and is not
   kept, under the name the table's rows have at that destination. *)
StaleTablesCleaned ==
  ret = "ok" =>
    \A d \in ODS, t \in migrated : ~(StateBackend /\ Kept[t]) =>
      \E k \in 1..Len(wrote[d]) : wrote[d][k] = Message("stale", Name[d][t], 0)

(* When the sync succeeds, every destination got every insert of the source, each
   once and in the source's order (CloseAndRecv reports what Send did not). *)
CompleteOnSuccess ==
  ret = "ok" =>
    \A d \in Dests :
      /\ \A k \in 1..Len(inserts) : \E j \in 1..Len(wrote[d]) :
           wrote[d][j] = Message("insert", Name[d][inserts[k]], k)
      /\ \A i, j \in 1..Len(wrote[d]) :
           i < j /\ wrote[d][i].kind = "insert" /\ wrote[d][j].kind = "insert" =>
             wrote[d][i].k < wrote[d][j].k

(* A destination gets no row of a table before the table's migrate message,
   although rows take the pipeline and migrate messages do not. *)
MigrateBeforeInsert ==
  ~NoMigrate =>
    \A d \in Dests : \A k \in 1..Len(wrote[d]) : wrote[d][k].kind = "insert" =>
      \E j \in 1..(k - 1) : wrote[d][j] = Message("migrate", wrote[d][k].name, 0)

(* A destination's summary comes after its delete-stale messages and after
   exactly as many rows as it reports. *)
SummaryIsLast ==
  \A d \in Dests : \A k \in 1..Len(wrote[d]) : wrote[d][k].kind = "summary" =>
    /\ k = Len(wrote[d])
    /\ wrote[d][k].k = Cardinality({j \in 1..k : wrote[d][j].kind = "insert"})

(* The sync ends, whatever fails in the source, in the destinations and in
   pipelines with one transformer or none: neither the source's goroutine nor a
   pipeline waits for ever for the other. Only a failure in a pipeline of more
   transformers may leave it waiting. *)
SyncEnds == <>(pc = "done" \/ \E d \in Dests : Transformers[d] > 1 /\ broke[d] # "none")

(* What the rest of this module takes a pipeline for: it behaves as the abstract
   record stream that Pipeline implements (stated for the first destination;
   all are alike). *)
Path == INSTANCE RecordStream WITH
  offered <- sentTo[1],
  arrived <- [k \in 1..passedOn[1] |-> k],
  outcome <- IF src # "done" \/ pstate[1] = "run" THEN "open"
             ELSE IF srcErr \/ pstate[1] = "err" THEN "failed" ELSE "ok"

PathIsStream == Path!Spec
=============================================================================
