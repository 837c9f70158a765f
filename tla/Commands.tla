------------------------------ MODULE Commands ------------------------------
(***************************************************************************)
(* cli/cmd: the commands over a set of specs. Each reads the specs, starts *)
(* the plugins, and does its work; sync and migrate go through the sources *)
(* in order, and take the newest protocol both sides speak. A sync of      *)
(* protocol 3 is the subject of SyncV3 and one step here; those of the     *)
(* older protocols (sync_v1.go, sync_v2.go) are modelled call by call.     *)
(*                                                                         *)
(* The plugins are external. A destination has a stream of rows that it    *)
(* writes when it likes, breaks at any time, and loses what it has not     *)
(* written. Every call may fail, and the command with it.                  *)
(***************************************************************************)
EXTENDS SpecReader, Maps

CONSTANTS
  Docs,         \* documents that files may hold
  Inputs,       \* what may be on the command line: paths
  Speaks,       \* protocols of the plugins: functions of kind and name
  GivenKeys,    \* the keys of the rows that a source can give
  MaxCommands   \* commands, at most

ASSUME CommandsAssumption ==
  /\ MaxCommands \in Nat
  /\ Inputs \subseteq Seq([dir : BOOLEAN, files : Seq([yaml : BOOLEAN, hidden : BOOLEAN, docs : Seq(Docs)])])
  /\ \A doc \in Docs :
       /\ {"kind", "name", "registry", "destinations"} \subseteq DOMAIN doc /\ doc.destinations \in Seq(STRING)
       /\ doc.kind = "destination" => \A s \in Speaks : doc.name \in DOMAIN s["destination"]

VARIABLES
  input, speaks,  \* do not change: the same specs and plugins throughout
  commands,       \* commands so far: the time of the last
  command, noMigrate,
  reader,         \* what the spec reader returned
  clients,        \* names of the running plugins, by kind
  cmdStage,       \* "idle", or what comes next
  srcNo, dstNo,   \* where the loops over sources and destinations are
  fetched,        \* keys the source has given
  queues,         \* rows sent on the stream of a destination, not written
  failing,        \* destinations that will not write what they are sent
  ended,          \* sources whose stream came to its end
  result,         \* of the last command: "none", "ok", "failed"
  reported,       \* what a source has given, and was reported as synced
  logged,         \* sources and destinations of streams that broke, where that was only logged
  tableRows,      \* rows of a destination: source, key, time
  before,         \* those when the command began
  tableSchema, rowSchema  \* of a destination's tables for a source, and of the rows it was sent last

fixedVars == <<input, speaks>>
runVars == <<reader, clients, srcNo, dstNo, fetched, queues, failing>>
reportVars == <<ended, reported, logged>>
dbVars == <<tableRows, tableSchema, rowSchema>>
commandVars == <<input, speaks, commands, command, noMigrate, reader, clients, cmdStage, srcNo, dstNo,
                 fetched, queues, failing, ended, result, reported, logged, tableRows, before, tableSchema, rowSchema>>

-----------------------------------------------------------------------------
(* Versions and destinations. *)

\* -1 and -2: one side is too old. With no common version the difference is
\* only in the message.
FindMaxCommonVersion(plugin, cli) ==
  IF plugin \cap cli # {} THEN Max(plugin \cap cli)
  ELSE IF plugin # {} /\ Min(plugin) > Max(cli) THEN -2 ELSE -1

Source == reader.source[srcNo]

\* In the order of the files, once each.
NamedDocs(docs, names) ==
  LET upTo[n \in 0..Len(docs)] ==
        IF n = 0 THEN << >>
        ELSE IF docs[n].name \in names THEN Append(upTo[n - 1], docs[n]) ELSE upTo[n - 1]
  IN  upTo[Len(docs)]

Dests == NamedDocs(reader.destination, ToSet(Source.destinations))
Dest == Dests[dstNo]

Version == FindMaxCommonVersion(speaks["source"][Source.name], 0..3)
Understands(d, v) == v \in speaks["destination"][d.name]

\* sync takes the transformers of a destination in the order of the files,
\* migrate in the order of the destination.
SyncTransformers(d) ==
  LET docs == NamedDocs(reader.transformer, ToSet(d.transformers)) IN [i \in DOMAIN docs |-> docs[i].name]
TransformersOf(d) == IF command = "migrate" THEN d.transformers ELSE SyncTransformers(d)

\* getSourceV2DestV3DestinationsTransformers: keys are changed for new
\* destinations only.
SchemaKeys(d) == IF d.write = "append" THEN "none" ELSE IF d.pk = "cq-id-only" THEN "cq_id" ELSE "source"
Raw == [protocol |-> 1, keys |-> "source", by |-> << >>]
SchemaV2(d) == IF Understands(d, 3) THEN [protocol |-> 2, keys |-> SchemaKeys(d), by |-> << >>] ELSE Raw
SchemaV3(d) == [protocol |-> 3, keys |-> SchemaKeys(d), by |-> TransformersOf(d)]

SchemaFor(d) == CASE Version = 3 -> SchemaV3(d) [] Version = 2 -> SchemaV2(d) [] OTHER -> Raw

\* The specs of the old protocols know no Docker registry.
Translatable(doc) == doc.registry # "docker"

-----------------------------------------------------------------------------
(* Rows. *)

Row(k) == [source |-> Source.name, key |-> k, time |-> commands]

Store(d, rows, db) ==
  rows \cup (IF d.write = "append" THEN db
             ELSE {r \in db : ~\E n \in rows : n.source = r.source /\ n.key = r.key})

IsStale(r) == r.source = Source.name /\ r.time < commands

DestNamed(n) == CHOOSE d \in ToSet(reader.destination) : d.name = n

-----------------------------------------------------------------------------
(* Beginning and end. *)

CommandsInit ==
  /\ input \in Inputs /\ speaks \in Speaks
  /\ commands = 0 /\ command = "none" /\ noMigrate = FALSE /\ cmdStage = "idle"
  /\ reader = NewReader /\ clients = [k \in Kinds |-> {}] /\ srcNo = 0 /\ dstNo = 0
  /\ fetched = {} /\ queues = << >> /\ failing = {} /\ result = "none"
  /\ ended = {} /\ reported = << >> /\ logged = {}
  /\ tableRows = [n \in DOMAIN speaks["destination"] |-> {}] /\ before = tableRows
  /\ tableSchema = [n \in DOMAIN tableRows |-> << >>] /\ rowSchema = tableSchema

Relaxed == {"tables", "test-connection", "install"}
Syncing == {"sync", "migrate"}
Checking == {"tables", "test-connection", "validate-config", "install"}

\* Nothing of a command outlives it but rows and tables: plugins are
\* terminated, and what their streams held may be written or not.
EndRest(r) ==
  /\ result' = r /\ cmdStage' = "idle"
  /\ reader' = NewReader /\ clients' = [k \in Kinds |-> {}] /\ srcNo' = 0 /\ dstNo' = 0
  /\ fetched' = {} /\ queues' = << >> /\ failing' = {}
  /\ UNCHANGED <<fixedVars, commands, command, noMigrate>>

Run(c) ==
  /\ cmdStage = "idle" /\ commands < MaxCommands
  /\ commands' = commands + 1 /\ command' = c
  /\ noMigrate' \in (IF c = "sync" THEN BOOLEAN ELSE {FALSE})
  /\ reader' = SpecsOf(input, c \in Relaxed)
  /\ cmdStage' = "specs" /\ result' = "none" /\ before' = tableRows
  /\ ended' = {} /\ reported' = << >> /\ logged' = {}
  /\ UNCHANGED <<fixedVars, clients, srcNo, dstNo, fetched, queues, failing, dbVars>>

\* Behind the report of protocol 1 nothing fails a command.
CommandFails ==
  /\ cmdStage \notin {"idle", "closeAll"}
  /\ \E written \in [DOMAIN queues -> SUBSET UNION {queues[n] : n \in DOMAIN queues}] :
       /\ \A n \in DOMAIN queues : written[n] \subseteq queues[n]
       /\ tableRows' = [n \in DOMAIN tableRows |->
            IF n \in DOMAIN queues THEN Store(DestNamed(n), written[n], tableRows[n]) ELSE tableRows[n]]
  /\ EndRest("failed")
  /\ UNCHANGED <<reportVars, before, tableSchema, rowSchema>>

CommandEnds ==
  \/ cmdStage = "source" /\ srcNo > Len(reader.source)
  \/ cmdStage = "check" /\ (command = "tables" =>
       \A s \in ToSet(reader.source) : FindMaxCommonVersion(speaks["source"][s.name], {2, 3}) \in {2, 3})

EndCommand == CommandEnds /\ EndRest("ok") /\ UNCHANGED <<reportVars, before, dbVars>>

\* The plugins of a kind after the other; tables wants sources only, the
\* checks no transformers.
Wants(k) ==
  /\ command = "tables" => k = "source"
  /\ command \in {"test-connection", "validate-config"} => k # "transformer"

StartPlugins ==
  /\ cmdStage = "specs" /\ ~reader.error
  /\ clients' = [k \in Kinds |-> IF Wants(k) THEN DocNames(reader[k]) ELSE {}]
  /\ IF command \in Syncing THEN cmdStage' = "source" /\ srcNo' = 1 ELSE cmdStage' = "check" /\ srcNo' = 0
  /\ UNCHANGED <<fixedVars, commands, command, noMigrate, reader, dstNo, fetched, queues, failing,
                 result, reportVars, dbVars, before>>

-----------------------------------------------------------------------------
(* Sources. *)

RestOfCommand == <<fixedVars, commands, command, noMigrate, reader, clients, result, before>>

NextSource ==
  /\ srcNo' = srcNo + 1 /\ cmdStage' = "source" /\ dstNo' = 0
  /\ fetched' = {} /\ queues' = << >> /\ failing' = {}

\* The switch over versions, for both commands.
Dispatch ==
  /\ cmdStage = "source" /\ srcNo <= Len(reader.source)
  /\ CASE Version = 3 -> (\A d \in ToSet(Dests) : Understands(d, 3)) /\ cmdStage' = "v3"
       [] Version = 2 -> (\A d \in ToSet(Dests) : Understands(d, 1)) /\ cmdStage' = "init"
       [] Version = 1 -> cmdStage' = "init"
       [] OTHER -> FALSE
  /\ UNCHANGED <<RestOfCommand, srcNo, dstNo, fetched, queues, failing, reportVars, dbVars>>

\* Protocol 3: every table is migrated, and every row of a sync written.
ConnectionV3 ==
  /\ cmdStage = "v3"
  /\ LET names == DocNames(Dests) IN
     /\ tableSchema' = IF noMigrate THEN tableSchema ELSE
          [n \in DOMAIN tableSchema |-> IF n \in names
             THEN Put(tableSchema[n], Source.name, SchemaV3(DestNamed(n))) ELSE tableSchema[n]]
     /\ IF command = "migrate" THEN UNCHANGED <<rowSchema, tableRows, ended>> ELSE
          /\ rowSchema' = [n \in DOMAIN rowSchema |-> IF n \in names
               THEN Put(rowSchema[n], Source.name, SchemaV3(DestNamed(n))) ELSE rowSchema[n]]
          /\ \E keys \in SUBSET GivenKeys :
               /\ ended' = ended \cup {Source.name}
               /\ tableRows' = [n \in DOMAIN tableRows |-> IF n \in names
                    THEN Store(DestNamed(n), {Row(k) : k \in keys},
                               {r \in tableRows[n] : DestNamed(n).write = "overwrite-delete-stale" => ~IsStale(r)})
                    ELSE tableRows[n]]
  /\ NextSource /\ UNCHANGED <<RestOfCommand, reported, logged>>

-----------------------------------------------------------------------------
(* Protocols 1 and 2. *)

Going(s, i) ==
  /\ cmdStage' = s /\ dstNo' = i
  /\ UNCHANGED <<RestOfCommand, srcNo>>

\* From one destination to the next, and from the last to another cmdStage.
GoOn(s, then) == IF dstNo < Len(Dests) THEN Going(s, dstNo + 1) ELSE Going(then, 1)

InitSource ==
  /\ cmdStage = "init" /\ Translatable(Source) /\ Going("configure", 1)
  /\ UNCHANGED <<fetched, queues, failing, reportVars, dbVars>>

\* migrate configures a destination when its turn has come, sync all of them
\* before the first is migrated.
Configure ==
  /\ cmdStage = "configure" /\ Translatable(Dest)
  /\ IF command = "migrate" THEN Going("migrate", dstNo)
     ELSE GoOn("configure", IF noMigrate THEN "open" ELSE "migrate")
  /\ UNCHANGED <<fetched, queues, failing, reportVars, dbVars>>

MigrateTables ==
  /\ cmdStage = "migrate"
  /\ tableSchema' = [tableSchema EXCEPT ![Dest.name] = Put(@, Source.name, SchemaFor(Dest))]
  /\ IF command = "migrate" /\ dstNo = Len(Dests) THEN NextSource /\ UNCHANGED RestOfCommand
     ELSE /\ GoOn(IF command = "migrate" THEN "configure" ELSE "migrate", "open")
          /\ UNCHANGED <<fetched, queues, failing>>
  /\ UNCHANGED <<reportVars, tableRows, rowSchema>>

\* Write and its first message, with the tables. The source has begun.
OpenStream ==
  /\ cmdStage = "open"
  /\ queues' = Put(queues, Dest.name, {})
  /\ rowSchema' = [rowSchema EXCEPT ![Dest.name] = Put(@, Source.name, SchemaFor(Dest))]
  /\ GoOn("open", "stream")
  /\ UNCHANGED <<fetched, failing, reportVars, tableRows, tableSchema>>

\* A row of the source to every destination.
Receive ==
  /\ cmdStage = "stream"
  /\ \E k \in GivenKeys \ fetched :
       /\ fetched' = fetched \cup {k}
       /\ queues' = [n \in DOMAIN queues |-> IF n \in failing THEN queues[n] ELSE queues[n] \cup {Row(k)}]
  /\ Going("stream", dstNo) /\ UNCHANGED <<failing, reportVars, dbVars>>

\* The plugin writes a batch, or stops.
DestinationWrites ==
  /\ \E n \in DOMAIN queues :
       /\ queues[n] # {}
       /\ \/ tableRows' = [tableRows EXCEPT ![n] = Store(DestNamed(n), queues[n], @)] /\ UNCHANGED failing
          \/ failing' = failing \cup {n} /\ UNCHANGED tableRows
       /\ queues' = [queues EXCEPT ![n] = {}]
  /\ Going(cmdStage, dstNo) /\ UNCHANGED <<fetched, reportVars, tableSchema, rowSchema>>

\* io.EOF
SourceEnds ==
  /\ cmdStage = "stream" /\ ended' = ended \cup {Source.name}
  /\ Going("stale", 1) /\ UNCHANGED <<fetched, queues, failing, reported, logged, dbVars>>

\* Protocol 2 closes the stream of a destination behind its DeleteStale.
SendDeleteStale ==
  /\ cmdStage = "stale"
  /\ tableRows' = IF Dest.write = "overwrite-delete-stale"
               THEN [tableRows EXCEPT ![Dest.name] = {r \in @ : ~IsStale(r)}] ELSE tableRows
  /\ IF Version = 2 THEN Going("close", dstNo) ELSE GoOn("stale", "report")
  /\ UNCHANGED <<fetched, queues, failing, reportVars, tableSchema, rowSchema>>

Flush(n) == [tableRows EXCEPT ![n] = Store(DestNamed(n), queues[n], @)]

\* CloseAndRecv waits for the plugin to write all, and Close follows. The
\* last destination's is the end of the source, which reports its success.
CloseOne ==
  /\ tableRows' = Flush(Dest.name)
  /\ IF dstNo < Len(Dests)
     THEN /\ Going("stale", dstNo + 1) /\ queues' = [queues EXCEPT ![Dest.name] = {}]
          /\ UNCHANGED <<fetched, failing, reported>>
     ELSE /\ reported' = Put(reported, Source.name, fetched)
          /\ NextSource /\ UNCHANGED RestOfCommand
  /\ UNCHANGED <<ended, logged, tableSchema, rowSchema>>

\* Mutant: the error of CloseAndRecv is not looked at.
CloseStreamAnyway == cmdStage = "close" /\ CloseOne

CloseStream == cmdStage = "close" /\ Dest.name \notin failing /\ CloseOne

\* Protocol 1, behind GetMetrics: it reports its success before its streams
\* are closed.
Report ==
  /\ cmdStage = "report" /\ reported' = Put(reported, Source.name, fetched)
  /\ Going("closeAll", 1) /\ UNCHANGED <<fetched, queues, failing, ended, logged, dbVars>>

\* The deferred CloseAndRecv of each stream waits too, but its error is only
\* logged.
CloseAll ==
  /\ cmdStage = "closeAll"
  /\ tableRows' = [n \in DOMAIN tableRows |-> IF n \in DOMAIN queues THEN Flush(n)[n] ELSE tableRows[n]]
  /\ logged' = logged \cup {<<Source.name, n>> : n \in failing}
  /\ NextSource /\ UNCHANGED <<RestOfCommand, ended, reported, tableSchema, rowSchema>>

CommandsNext ==
  \/ \E c \in Syncing \cup Checking : Run(c)
  \/ CommandFails \/ EndCommand \/ StartPlugins \/ Dispatch \/ ConnectionV3
  \/ InitSource \/ Configure \/ MigrateTables \/ OpenStream \/ Receive \/ DestinationWrites
  \/ SourceEnds \/ SendDeleteStale \/ CloseStream \/ Report \/ CloseAll

CommandsSpec == CommandsInit /\ [][CommandsNext]_commandVars

-----------------------------------------------------------------------------
(* Properties. *)

\* Every plugin that a command looks up by its name is running: ClientByName
\* returns nil for others, and the commands use what it returns.
ClientsFound ==
  cmdStage \notin {"idle", "specs"} /\ command \in Syncing =>
    \A s \in ToSet(reader.source) :
      /\ s.name \in clients["source"] /\ ToSet(s.destinations) \subseteq clients["destination"]
      /\ \A d \in ToSet(reader.destination) : ToSet(TransformersOf(d)) \subseteq clients["transformer"]

SyncSpecs == SpecsOf(input, FALSE)

Covers(rows, r) == \E w \in rows : w.source = r.source /\ w.key = r.key /\ w.time >= r.time

\* The rows of the old protocols. What was reported as synced is in each
\* destination of the source; with protocol 1, which reports before it closes,
\* it may still be on the stream, or lost with a stream that broke, which is
\* only logged. With delete-stale no older row is left. All this whatever else
\* of the command fails.
ReportedIsStored ==
  \A s \in DOMAIN reported : \A d \in ToSet(SyncSpecs.destination) :
    (\E x \in ToSet(SyncSpecs.source) : x.name = s /\ d.name \in ToSet(x.destinations)) =>
      /\ \A k \in reported[s] :
           \/ [source |-> s, key |-> k, time |-> commands] \in tableRows[d.name]
           \/ <<s, d.name>> \in logged
           \/ cmdStage = "closeAll" /\ s = Source.name /\ (d.name \in failing \/ Row(k) \in queues[d.name])
      /\ d.write = "overwrite-delete-stale" => \A r \in tableRows[d.name] : r.source = s => r.time = commands

\* Whatever fails, a row that was there before the command is there, or a
\* newer one in its place, unless its source came to its end and the
\* destination deletes what is stale.
FailedKeepsRows ==
  \A n \in DOMAIN tableRows : \A r \in before[n] :
    \/ Covers(tableRows[n], r)
    \/ /\ r.source \in ended
       /\ \E d \in ToSet(SyncSpecs.destination) : d.name = n /\ d.write = "overwrite-delete-stale"

LegacyRows == ReportedIsStored /\ FailedKeepsRows

\* What --no-migrate is for: behind a sync the rows that it sent are those that
\* the tables were made for, by it or by a migrate of the same specs.
MigratedForSync ==
  cmdStage = "idle" /\ command = "sync" /\ result = "ok" =>
    \A n \in DOMAIN tableSchema : \A s \in DOMAIN tableSchema[n] \cap DOMAIN rowSchema[n] :
      tableSchema[n][s] = rowSchema[n][s]
=============================================================================
