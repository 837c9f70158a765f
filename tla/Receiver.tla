------------------------------ MODULE Receiver ------------------------------
(***************************************************************************)
(* cli/internal/otel: the receiver of the metrics of the source plugins.   *)
(* Requests arrive at any time, from several sources at once, and their    *)
(* points are kept per table and client. A goroutine renders what is known *)
(* to the metrics file at every tick, and a last time before it closes the *)
(* file; the duration of a table goes to the summary of the sync as well.  *)
(*                                                                         *)
(* A point is a table, a client, the name of its metric and a value. The   *)
(* rendered text is the rows it shows, by key.                             *)
(***************************************************************************)
EXTENDS Integers, Sequences, SequencesExt, FiniteSetsExt, Maps

CONSTANTS
  Points,       \* points there may be
  Exporters,    \* requests that are handled at the same time
  MaxPosts,     \* requests, at most
  MaxTicks      \* ticks of the ticker, at most

ASSUME ReceiverAssumption ==
  MaxPosts \in Nat /\ MaxTicks \in Nat /\ \A p \in Points : p.value \in Int

VARIABLES
  handling,     \* what is left of the request of an exporter
  consumed,     \* points consumed, in their order
  metricsMap,   \* by key and name, the place in consumed of the value kept
  durations,    \* TableDurations
  posts, ticks,
  renderer,     \* "wait", "read", "closed"
  toRead,       \* keys of the pointers that were copied and not yet read
  page,         \* the rows read
  file,         \* the rows in the file
  quit,         \* quit is closed
  last,         \* the rendering that reads is the last
  atQuit        \* metricsMap when quit was closed

receiverVars == <<handling, consumed, metricsMap, durations, posts, ticks, renderer, toRead, page,
                  file, quit, last, atQuit>>

ReceiverInit ==
  /\ handling = [e \in Exporters |-> << >>] /\ consumed = << >>
  /\ metricsMap = << >> /\ durations = << >> /\ posts = 0 /\ ticks = 0
  /\ renderer = "wait" /\ toRead = {} /\ page = << >> /\ file = << >>
  /\ quit = FALSE /\ last = FALSE /\ atQuit = << >>

SumOnly(p) == IF p.sum THEN <<p>> ELSE << >>

\* ConsumeMetrics takes the points of sums, one after the other.
Post ==
  /\ posts < MaxPosts /\ posts' = posts + 1
  /\ \E e \in Exporters, p, q \in Points :
       /\ handling[e] = << >>
       /\ handling' = [handling EXCEPT ![e] = SumOnly(p) \o SumOnly(q)]
  /\ UNCHANGED <<consumed, metricsMap, durations, ticks, renderer, toRead, page, file, quit, last, atQuit>>

\* One name for a table of a client: the two are joined.
Key(p) == p.table \o p.client

\* TableDurations.Set, whose Get and Add nothing separates: the caller holds
\* the lock of the tables.
SetDuration(d, p) ==
  IF p.table \in DOMAIN d /\ p.value <= d[p.table] THEN d ELSE Put(d, p.table, p.value)

\* The function newMetricConsumer returns, under its lock.
Consume ==
  /\ \E e \in Exporters :
       /\ handling[e] # << >>
       /\ LET p == Head(handling[e])
              row == IF Key(p) \in DOMAIN metricsMap THEN metricsMap[Key(p)] ELSE << >>
          IN  /\ consumed' = Append(consumed, p)
              /\ metricsMap' = Put(metricsMap, Key(p), Put(row, p.name, Len(consumed) + 1))
              /\ durations' = IF p.name = "duration" THEN SetDuration(durations, p) ELSE durations
       /\ handling' = [handling EXCEPT ![e] = Tail(@)]
  /\ UNCHANGED <<posts, ticks, renderer, toRead, page, file, quit, last, atQuit>>

\* renderTable copies the pointers under the lock.
BeginRender ==
  /\ renderer' = "read" /\ toRead' = DOMAIN metricsMap /\ page' = << >>
  /\ UNCHANGED <<handling, consumed, metricsMap, durations, posts, file, quit, atQuit>>

Tick == renderer = "wait" /\ ticks < MaxTicks /\ ticks' = ticks + 1 /\ last' = FALSE /\ BeginRender

\* Mutant: the file is closed as it is.
QuitAtOnce ==
  /\ renderer = "wait" /\ quit /\ renderer' = "closed"
  /\ UNCHANGED <<handling, consumed, metricsMap, durations, posts, ticks, toRead, page, file, quit, last, atQuit>>

\* Of a tick and the quit, select takes either.
LastRender == renderer = "wait" /\ quit /\ last' = TRUE /\ BeginRender /\ UNCHANGED ticks

\* and reads what they point to without it, row by row.
ReadRow ==
  /\ renderer = "read"
  /\ \E k \in toRead : toRead' = toRead \ {k} /\ page' = Put(page, k, metricsMap[k])
  /\ UNCHANGED <<handling, consumed, metricsMap, durations, posts, ticks, renderer, file, quit, last, atQuit>>

WriteFile ==
  /\ renderer = "read" /\ toRead = {}
  /\ file' = page /\ page' = << >> /\ renderer' = IF last THEN "closed" ELSE "wait"
  /\ UNCHANGED <<handling, consumed, metricsMap, durations, posts, ticks, toRead, quit, last, atQuit>>

\* Consumer.Shutdown closes quit and waits for the file. The servers are shut
\* down after it: requests come in until the end.
Quit ==
  /\ ~quit /\ quit' = TRUE /\ atQuit' = metricsMap
  /\ UNCHANGED <<handling, consumed, metricsMap, durations, posts, ticks, renderer, toRead, page, file, last>>

ReceiverNext ==
  \/ Post \/ Consume \/ Tick \/ LastRender \/ ReadRow \/ WriteFile \/ Quit

ReceiverSpec == ReceiverInit /\ [][ReceiverNext]_receiverVars

-----------------------------------------------------------------------------
(* Properties. *)

\* The closed file has a row for everything that was consumed before quit,
\* with values that are not older; what comes between quit and the end of the
\* servers may be missing.
FileShowsAll ==
  renderer = "closed" =>
    \A k \in DOMAIN atQuit :
      k \in DOMAIN file /\ \A n \in DOMAIN atQuit[k] : n \in DOMAIN file[k] /\ file[k][n] >= atQuit[k][n]

\* In whatever order the clients report it, the duration of a table is that
\* of its slowest client.
DurationsAreLargest ==
  \A t \in {p.table : p \in Points} :
    LET values == {p.value : p \in {q \in ToSet(consumed) : q.table = t /\ q.name = "duration"}}
    IN  IF values = {} THEN t \notin DOMAIN durations
        ELSE t \in DOMAIN durations /\ durations[t] = Max(values)

TelemetryComplete == FileShowsAll /\ DurationsAreLargest
=============================================================================
