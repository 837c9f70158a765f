----------------------------- MODULE CliProofs ------------------------------
(***************************************************************************)
(* Proofs about three parts of the CLI. Of Receiver, for any points,       *)
(* exporters and numbers of requests and ticks: the closed file shows all  *)
(* that was known when quit was closed, and the durations are the largest  *)
(* that were reported. Of Publish, for any targets, builds and numbers of  *)
(* runs: a version that is final is of one build in all its parts. Of      *)
(* Commands, for any specs, plugins, keys and number of commands: what the *)
(* old protocols reported is stored, the rows of sync fit the tables of    *)
(* migrate, and the plugins that are looked up are running.                *)
(***************************************************************************)
EXTENDS Receiver, Publish, Commands, LibraryProofs

-----------------------------------------------------------------------------
(* Receiver. *)

\* A map of rows, and one with the same or newer values.
RowAtLeast(old, new) == \A n \in DOMAIN old : n \in DOMAIN new /\ new[n] >= old[n]
AtLeast(old, new) == \A k \in DOMAIN old : k \in DOMAIN new /\ RowAtLeast(old[k], new[k])

\* Values are places in consumed, so what comes later is newer.
PlacesInv ==
  /\ consumed \in Seq(Points) /\ \A e \in Exporters : handling[e] \in Seq(Points)
  /\ DOMAIN handling = Exporters
  /\ \A k \in DOMAIN metricsMap : \A n \in DOMAIN metricsMap[k] : metricsMap[k][n] \in 1..Len(consumed)

\* Quit is closed before the last rendering begins, which ends with the file
\* closed; what it has read is not older than what there was at quit.
RenderInv ==
  /\ renderer \in {"wait", "read", "closed"}
  /\ \A k \in DOMAIN atQuit : \A n \in DOMAIN atQuit[k] : atQuit[k][n] \in Nat
  /\ quit => AtLeast(atQuit, metricsMap)
  /\ renderer = "read" => toRead \subseteq DOMAIN metricsMap
  /\ renderer = "closed" \/ (renderer = "read" /\ last) => quit
  /\ renderer = "read" /\ last =>
       \A k \in DOMAIN atQuit : k \in toRead \/ (k \in DOMAIN page /\ RowAtLeast(atQuit[k], page[k]))
  /\ renderer = "closed" => AtLeast(atQuit, file)

Reported(t) == {p.value : p \in {q \in ToSet(consumed) : q.table = t /\ q.name = "duration"}}

\* The duration of a table is one that was reported and none was larger.
LargestInv ==
  \A t \in {p.table : p \in Points} :
    /\ t \in DOMAIN durations <=> Reported(t) # {}
    /\ t \in DOMAIN durations => durations[t] \in Reported(t) /\ \A v \in Reported(t) : durations[t] >= v

ReceiverInv == PlacesInv /\ RenderInv /\ LargestInv

-----------------------------------------------------------------------------
(* The operators. *)

\* Of the points of a request those of sums are taken.
LEMMA SumOnlyType ==
  ASSUME NEW p \in Points, NEW q \in Points
  PROVE  SumOnly(p) \o SumOnly(q) \in Seq(Points)
<1>1. SumOnly(p) \in Seq(Points) /\ SumOnly(q) \in Seq(Points)
  BY DEF SumOnly
<1> QED BY <1>1

LEMMA AtLeastRefl ==
  ASSUME NEW m, \A k \in DOMAIN m : \A n \in DOMAIN m[k] : m[k][n] \in Nat
  PROVE  AtLeast(m, m)
BY DEF AtLeast, RowAtLeast

\* The consumer changes one value of one row, for a later place.
LEMMA MetricsMapGrows ==
  ASSUME NEW m, NEW len \in Nat, NEW k, NEW name,
         \A j \in DOMAIN m : \A n \in DOMAIN m[j] : m[j][n] \in 1..len,
         NEW row, row = IF k \in DOMAIN m THEN m[k] ELSE << >>,
         NEW new, new = Put(m, k, Put(row, name, len + 1))
  PROVE  /\ AtLeast(m, new)
         /\ \A j \in DOMAIN new : \A n \in DOMAIN new[j] : new[j][n] \in 1..(len + 1)
<1> DEFINE newRow == Put(row, name, len + 1)
<1>1. DOMAIN new = DOMAIN m \cup {k} /\ new[k] = newRow /\ \A j \in DOMAIN m \ {k} : new[j] = m[j]
  BY DEF Put
<1>2. /\ DOMAIN newRow = DOMAIN row \cup {name} /\ newRow[name] = len + 1
      /\ \A n \in DOMAIN row \ {name} : newRow[n] = row[n]
  BY DEF Put
<1> HIDE DEF newRow
<1>3. \A n \in DOMAIN row : row[n] \in 1..len
  OBVIOUS
<1>4. \A n \in DOMAIN newRow : newRow[n] \in 1..(len + 1)
  BY <1>2, <1>3
<1>5. k \in DOMAIN m => RowAtLeast(m[k], newRow)
  BY <1>2, <1>3 DEF RowAtLeast
<1>6. \A j \in DOMAIN m \ {k} : RowAtLeast(m[j], new[j])
  BY <1>1 DEF RowAtLeast
<1> QED BY <1>1, <1>4, <1>5, <1>6 DEF AtLeast

LEMMA AtLeastTrans ==
  ASSUME NEW a, NEW b, NEW c, AtLeast(a, b), AtLeast(b, c),
         \A k \in DOMAIN a : \A n \in DOMAIN a[k] : a[k][n] \in Nat,
         \A k \in DOMAIN b : \A n \in DOMAIN b[k] : b[k][n] \in Nat,
         \A k \in DOMAIN c : \A n \in DOMAIN c[k] : c[k][n] \in Nat
  PROVE  AtLeast(a, c)
BY DEF AtLeast, RowAtLeast

\* One more point is reported, if it is a duration of the table.
LEMMA ReportedNext ==
  ASSUME NEW p \in Points, consumed \in Seq(Points), consumed' = Append(consumed, p), NEW t
  PROVE  Reported(t)' = IF p.table = t /\ p.name = "duration" THEN Reported(t) \cup {p.value} ELSE Reported(t)
<1>1. ToSet(consumed') = ToSet(consumed) \cup {p}
  <2>1. DOMAIN consumed' = DOMAIN consumed \cup {Len(consumed) + 1}
    BY AppendProperties
  <2>2. \A i \in DOMAIN consumed : consumed'[i] = consumed[i]
    BY AppendProperties
  <2>3. consumed'[Len(consumed) + 1] = p
    BY AppendProperties
  <2> QED BY <2>1, <2>2, <2>3 DEF ToSet
<1> QED BY <1>1 DEF Reported

-----------------------------------------------------------------------------
(* Every step keeps the invariant. *)

LEMMA PlacesNext ==
  ASSUME ReceiverInv, [ReceiverNext]_receiverVars
  PROVE  PlacesInv'
<1>0. PlacesInv
  BY DEF ReceiverInv
<1>1. CASE Post
  <2>1. PICK e \in Exporters, p \in Points, q \in Points :
           handling' = [handling EXCEPT ![e] = SumOnly(p) \o SumOnly(q)]
    BY <1>1 DEF Post
  <2>2. SumOnly(p) \o SumOnly(q) \in Seq(Points)
    BY SumOnlyType
  <2> QED BY <1>0, <1>1, <2>1, <2>2 DEF PlacesInv, Post
<1>2. CASE Consume
  <2>1. PICK e \in Exporters :
          /\ handling[e] # << >> /\ handling' = [handling EXCEPT ![e] = Tail(@)]
          /\ consumed' = Append(consumed, Head(handling[e]))
          /\ metricsMap' = Put(metricsMap, Key(Head(handling[e])),
               Put(IF Key(Head(handling[e])) \in DOMAIN metricsMap THEN metricsMap[Key(Head(handling[e]))] ELSE << >>,
                   Head(handling[e]).name, Len(consumed) + 1))
    BY <1>2 DEF Consume
  <2>2. handling[e] \in Seq(Points) /\ consumed \in Seq(Points)
    BY <1>0 DEF PlacesInv
  <2>3. Head(handling[e]) \in Points /\ Tail(handling[e]) \in Seq(Points)
    BY <2>1, <2>2, HeadTailProperties
  <2>4. consumed' \in Seq(Points) /\ Len(consumed') = Len(consumed) + 1 /\ Len(consumed) \in Nat
    BY <2>1, <2>2, <2>3, AppendProperties, LenProperties
  <2>5. \A k \in DOMAIN metricsMap' : \A n \in DOMAIN metricsMap'[k] : metricsMap'[k][n] \in 1..(Len(consumed) + 1)
    BY <1>0, <2>1, <2>4, MetricsMapGrows DEF PlacesInv
  <2>6. (\A x \in Exporters : handling'[x] \in Seq(Points)) /\ DOMAIN handling' = Exporters
    BY <1>0, <2>1, <2>3 DEF PlacesInv
  <2> QED BY <2>4, <2>5, <2>6 DEF PlacesInv
<1>3. CASE Tick \/ LastRender \/ ReadRow \/ WriteFile \/ Quit
  BY <1>0, <1>3 DEF PlacesInv, Tick, LastRender, BeginRender, ReadRow, WriteFile, Quit
<1>4. CASE UNCHANGED receiverVars
  BY <1>0, <1>4 DEF PlacesInv, receiverVars
<1> QED BY <1>1, <1>2, <1>3, <1>4 DEF ReceiverNext

LEMMA RenderNext ==
  ASSUME ReceiverInv, [ReceiverNext]_receiverVars
  PROVE  RenderInv'
<1>0. PlacesInv /\ RenderInv
  BY DEF ReceiverInv
<1>a. \A k \in DOMAIN metricsMap : \A n \in DOMAIN metricsMap[k] : metricsMap[k][n] \in Nat
  <2>1. Len(consumed) \in Nat
    BY <1>0, LenProperties DEF PlacesInv
  <2> QED BY <1>0, <2>1 DEF PlacesInv
<1>1. CASE Post
  BY <1>0, <1>1 DEF RenderInv, Post
<1>2. CASE Consume
  <2>1. /\ AtLeast(metricsMap, metricsMap')
        /\ \A k \in DOMAIN metricsMap' : \A n \in DOMAIN metricsMap'[k] : metricsMap'[k][n] \in Nat
    <3>1. PICK e \in Exporters :
          metricsMap' = Put(metricsMap, Key(Head(handling[e])),
            Put(IF Key(Head(handling[e])) \in DOMAIN metricsMap THEN metricsMap[Key(Head(handling[e]))] ELSE << >>,
                Head(handling[e]).name, Len(consumed) + 1))
      BY <1>2 DEF Consume
    <3>2. Len(consumed) \in Nat
      BY <1>0, LenProperties DEF PlacesInv
    <3>3. /\ AtLeast(metricsMap, metricsMap')
          /\ \A k \in DOMAIN metricsMap' : \A n \in DOMAIN metricsMap'[k] : metricsMap'[k][n] \in 1..(Len(consumed) + 1)
      BY <1>0, <3>1, <3>2, MetricsMapGrows DEF PlacesInv
    <3> QED BY <3>2, <3>3
  <2>2. /\ UNCHANGED <<renderer, toRead, page, file, quit, last, atQuit>>
        /\ quit => AtLeast(atQuit, metricsMap')
    <3>1. UNCHANGED <<renderer, toRead, page, file, quit, last, atQuit>>
      BY <1>2 DEF Consume
    <3>2. ASSUME quit PROVE AtLeast(atQuit, metricsMap')
      <4>1. AtLeast(atQuit, metricsMap) /\ \A k \in DOMAIN atQuit : \A n \in DOMAIN atQuit[k] : atQuit[k][n] \in Nat
        BY <1>0, <3>2 DEF RenderInv
      <4> QED BY <1>a, <2>1, <4>1, AtLeastTrans
    <3> QED BY <3>1, <3>2
  <2>3. DOMAIN metricsMap \subseteq DOMAIN metricsMap'
    BY <2>1 DEF AtLeast
  <2> QED BY <1>0, <2>2, <2>3 DEF RenderInv
<1>3. CASE Tick \/ LastRender
  <2>1. /\ renderer' = "read" /\ toRead' = DOMAIN metricsMap /\ (last' => quit)
        /\ UNCHANGED <<metricsMap, quit, atQuit>> /\ renderer = "wait"
    BY <1>3 DEF Tick, LastRender, BeginRender
  <2>2. quit => DOMAIN atQuit \subseteq DOMAIN metricsMap
    BY <1>0 DEF RenderInv, AtLeast
  <2> QED BY <1>0, <2>1, <2>2 DEF RenderInv
<1>4. CASE ReadRow
  <2>1. PICK k \in toRead : toRead' = toRead \ {k} /\ page' = Put(page, k, metricsMap[k])
    BY <1>4 DEF ReadRow
  <2>2. DOMAIN page' = DOMAIN page \cup {k} /\ page'[k] = metricsMap[k] /\ \A j \in DOMAIN page \ {k} : page'[j] = page[j]
    BY <2>1 DEF Put
  <2>3. renderer = "read" /\ UNCHANGED <<metricsMap, renderer, quit, last, atQuit>>
    BY <1>4 DEF ReadRow
  <2>4. ASSUME last, NEW j \in DOMAIN atQuit
        PROVE  j \in toRead' \/ (j \in DOMAIN page' /\ RowAtLeast(atQuit[j], page'[j]))
    <3>1. CASE j = k
      BY <1>0, <2>2, <2>3, <2>4, <3>1 DEF RenderInv, AtLeast
    <3>2. CASE j # k
      BY <1>0, <2>1, <2>2, <2>3, <2>4, <3>2 DEF RenderInv
    <3> QED BY <3>1, <3>2
  <2> QED BY <1>0, <2>1, <2>3, <2>4 DEF RenderInv
<1>5. CASE WriteFile
  <2>1. /\ renderer = "read" /\ toRead = {} /\ file' = page /\ renderer' = (IF last THEN "closed" ELSE "wait")
        /\ UNCHANGED <<metricsMap, quit, last, atQuit>>
    BY <1>5 DEF WriteFile
  <2>2. last => AtLeast(atQuit, page)
    BY <1>0, <2>1 DEF RenderInv, AtLeast
  <2> QED BY <1>0, <2>1, <2>2 DEF RenderInv
<1>6. CASE Quit
  <2>1. ~quit /\ quit' = TRUE /\ atQuit' = metricsMap /\ UNCHANGED <<metricsMap, renderer, toRead, page, file, last>>
    BY <1>6 DEF Quit
  <2>2. AtLeast(metricsMap, metricsMap)
    BY <1>a, AtLeastRefl
  <2> QED BY <1>0, <1>a, <2>1, <2>2 DEF RenderInv
<1>7. CASE UNCHANGED receiverVars
  BY <1>0, <1>7 DEF RenderInv, receiverVars
<1> QED BY <1>1, <1>2, <1>3, <1>4, <1>5, <1>6, <1>7 DEF ReceiverNext

LEMMA LargestNext ==
  ASSUME ReceiverInv, [ReceiverNext]_receiverVars
  PROVE  LargestInv'
<1>0. PlacesInv /\ LargestInv
  BY DEF ReceiverInv
<1>1. ASSUME UNCHANGED <<consumed, durations>> PROVE LargestInv'
  BY <1>0, <1>1 DEF LargestInv, Reported
<1>2. CASE Consume
  <2>1. PICK e \in Exporters :
          /\ handling[e] # << >> /\ consumed' = Append(consumed, Head(handling[e]))
          /\ durations' = IF Head(handling[e]).name = "duration" THEN SetDuration(durations, Head(handling[e])) ELSE durations
    BY <1>2 DEF Consume
  <2> DEFINE p == Head(handling[e])
  <2>2. p \in Points /\ consumed \in Seq(Points)
    BY <1>0, <2>1, HeadTailProperties DEF PlacesInv
  <2> SUFFICES ASSUME NEW t \in {q.table : q \in Points}
               PROVE  /\ t \in DOMAIN durations' <=> Reported(t)' # {}
                      /\ t \in DOMAIN durations' =>
                           durations'[t] \in Reported(t)' /\ \A v \in Reported(t)' : durations'[t] >= v
    BY DEF LargestInv
  <2>3. /\ t \in DOMAIN durations <=> Reported(t) # {}
        /\ t \in DOMAIN durations => durations[t] \in Reported(t) /\ \A v \in Reported(t) : durations[t] >= v
    BY <1>0 DEF LargestInv
  <2>4. Reported(t)' = IF p.table = t /\ p.name = "duration" THEN Reported(t) \cup {p.value} ELSE Reported(t)
    BY <2>1, <2>2, ReportedNext
  <2>5. durations' = IF p.name = "duration" THEN SetDuration(durations, p) ELSE durations
    BY <2>1
  <2>6. p.value \in Int /\ Reported(t) \subseteq Int
    <3>1. ToSet(consumed) \subseteq Points
      BY <2>2, ElementOfSeq DEF ToSet
    <3> QED BY <2>2, <3>1, ReceiverAssumption DEF Reported
  <2> HIDE DEF p
  <2>7. CASE p.name # "duration"
    BY <2>3, <2>4, <2>5, <2>7
  <2>8. CASE p.name = "duration" /\ p.table \in DOMAIN durations /\ p.value <= durations[p.table]
    BY <2>3, <2>4, <2>5, <2>6, <2>8 DEF SetDuration
  <2>9. CASE p.name = "duration" /\ ~(p.table \in DOMAIN durations /\ p.value <= durations[p.table])
    <3>1. durations' = Put(durations, p.table, p.value)
      BY <2>5, <2>9 DEF SetDuration
    <3>2. /\ DOMAIN durations' = DOMAIN durations \cup {p.table} /\ durations'[p.table] = p.value
          /\ \A u \in DOMAIN durations \ {p.table} : durations'[u] = durations[u]
      BY <3>1 DEF Put
    <3>3. CASE t # p.table
      BY <2>3, <2>4, <3>2, <3>3
    <3>4. CASE t = p.table
      <4>1. Reported(t)' = Reported(t) \cup {p.value}
        BY <2>4, <2>9, <3>4
      <4>2. \A v \in Reported(t) : p.value >= v
        BY <2>3, <2>6, <2>9, <3>4
      <4> QED BY <2>6, <3>2, <3>4, <4>1, <4>2
    <3> QED BY <3>3, <3>4
  <2> QED BY <2>7, <2>8, <2>9
<1>3. CASE Post \/ Tick \/ LastRender \/ ReadRow \/ WriteFile \/ Quit \/ UNCHANGED receiverVars
  BY <1>1, <1>3 DEF Post, Tick, LastRender, BeginRender, ReadRow, WriteFile, Quit, receiverVars
<1> QED BY <1>2, <1>3 DEF ReceiverNext

LEMMA ReceiverInitInv == ReceiverInit => ReceiverInv
<1> SUFFICES ASSUME ReceiverInit PROVE ReceiverInv
  OBVIOUS
<1>1. PlacesInv
  BY DEF ReceiverInit, PlacesInv
<1>2. RenderInv
  BY DEF ReceiverInit, RenderInv
<1>3. \A t : Reported(t) = {}
  BY DEF ReceiverInit, Reported, ToSet
<1>4. LargestInv
  BY <1>3 DEF ReceiverInit, LargestInv
<1> QED BY <1>1, <1>2, <1>4 DEF ReceiverInv

-----------------------------------------------------------------------------
(* The results. *)

\* What the receiver knows, renders and reports, in every state.
THEOREM ReceiverInvariant == ReceiverSpec => []ReceiverInv
<1>1. ReceiverInv /\ [ReceiverNext]_receiverVars => ReceiverInv'
  BY PlacesNext, RenderNext, LargestNext DEF ReceiverInv
<1> QED BY <1>1, ReceiverInitInv, PTL DEF ReceiverSpec

\* Requests come in while the file is rendered row by row without the lock,
\* and until the servers are down: yet the closed file has all that was
\* consumed before quit, and a table the duration of its slowest client.
THEOREM TelemetryIsComplete == ReceiverSpec => []TelemetryComplete
<1>1. ReceiverInv => TelemetryComplete
  <2> SUFFICES ASSUME ReceiverInv PROVE TelemetryComplete
    OBVIOUS
  <2>1. FileShowsAll
    BY DEF ReceiverInv, RenderInv, AtLeast, RowAtLeast, FileShowsAll
  <2>2. ASSUME NEW t \in {p.table : p \in Points}
        PROVE  IF Reported(t) = {} THEN t \notin DOMAIN durations
               ELSE t \in DOMAIN durations /\ durations[t] = Max(Reported(t))
    <3>1. /\ t \in DOMAIN durations <=> Reported(t) # {}
          /\ t \in DOMAIN durations => durations[t] \in Reported(t) /\ \A v \in Reported(t) : durations[t] >= v
      BY DEF ReceiverInv, LargestInv
    <3>2. Reported(t) \subseteq Int
      <4>1. ToSet(consumed) \subseteq Points
        BY ElementOfSeq DEF ReceiverInv, PlacesInv, ToSet
      <4> QED BY <4>1, ReceiverAssumption DEF Reported
    <3>3. ASSUME Reported(t) # {} PROVE durations[t] = Max(Reported(t))
      <4>1. \A x \in Reported(t) : (\A v \in Reported(t) : x >= v) => x = durations[t]
        BY <3>1, <3>2, <3>3
      <4> QED BY <3>1, <3>3, <4>1 DEF Max
    <3> QED BY <3>1, <3>3
  <2>3. DurationsAreLargest
    BY <2>2 DEF DurationsAreLargest, Reported
  <2> QED BY <2>1, <2>3 DEF TelemetryComplete
<1> QED BY <1>1, ReceiverInvariant, PTL

-----------------------------------------------------------------------------
(* Publish. *)

Addon == package.kind = "addon"

\* The steps that come after others, within a run.
PastTargets == {"ui", "uploadUI", "finalizeUI", "finalize"}
PastDocs    == {"upload", "load", "push", "manifest"} \cup PastTargets
PastImages  == IF Addon THEN {"draft", "upload", "finalize"} ELSE {"docs"} \cup PastDocs
PastTables  == {"images", "uploadImages", "docs"} \cup PastDocs
PastDraft   == IF Addon THEN {"upload", "finalize"} ELSE {"tables"} \cup PastTables

OfTargets == [DOMAIN Targets -> 0..MaxBuilds]

HubVersions ==
  [is : {"none", "draft", "final"}, draft : 0..MaxBuilds, tables : 0..MaxBuilds, docs : 0..MaxBuilds,
   assets : OfTargets, ui : 0..MaxBuilds, by : 0..MaxBuilds]

PublishTypeOK ==
  /\ package \in [kind : {"native", "docker"}, tables : BOOLEAN, ui : BOOLEAN]
       \cup [kind : {"addon"}, tables : {FALSE}, ui : {FALSE}]
  /\ flags \in [console : BOOLEAN, finalize : BOOLEAN]
  /\ build \in 0..MaxBuilds
  /\ todoTargets \in 0..Len(Targets)
  /\ hub \in HubVersions
  /\ local \in OfTargets /\ registry \in OfTargets /\ unseen \in BOOLEAN

\* The steps of a run are those of the package.
StepInv ==
  /\ pubStep \in {"idle", "draft", "tables", "images", "uploadImages", "docs", "upload", "load", "push",
                  "manifest", "ui", "uploadUI", "finalizeUI", "finalize"}
  /\ pubStep = "tables" => package.tables
  /\ pubStep = "docs" => ~Addon
  /\ pubStep = "upload" => package.kind # "docker"
  /\ pubStep \in {"load", "push", "manifest"} => package.kind = "docker"
  /\ pubStep \in {"ui", "uploadUI", "finalizeUI"} => package.ui
  /\ pubStep \in {"upload", "load", "push"} => todoTargets > 0 \/ Len(Targets) = 0

\* What a run has done is of its build, step by step and target by target.
\* unseen stands for what a stream of Docker said.
RunInv ==
  /\ pubStep \in PastDraft => hub.is = "draft" /\ hub.draft = build /\ (Addon => hub.docs = build)
  /\ package.tables /\ pubStep \in PastTables => hub.tables = build
  /\ pubStep = "uploadImages" => Pictures[build] \subseteq bucket \cup uploads
  /\ pubStep \in PastImages => Pictures[build] \subseteq bucket
  /\ ~Addon /\ pubStep \in PastDocs => hub.docs = build
  /\ package.ui /\ pubStep = "finalize" => hub.ui = build

TargetInv ==
  \A i \in DOMAIN Targets :
    /\ pubStep = "upload" /\ i < Target => hub.assets[i] = build
    /\ ~unseen /\ pubStep = "load" /\ i < Target => local[i] = build
    /\ ~unseen /\ pubStep = "push" => local[i] = build /\ (i < Target => registry[i] = build)
    /\ ~unseen /\ pubStep = "manifest" => registry[i] = build
    /\ ~unseen /\ pubStep \in PastTargets => hub.assets[i] = build

\* A final version is not touched any more, by whatever runs.
FinalInv ==
  hub.is = "final" => pubStep \in {"idle", "draft"} \/ (Addon /\ pubStep \in {"images", "uploadImages"})

PublishInv == PublishTypeOK /\ StepInv /\ RunInv /\ TargetInv /\ FinalInv /\ FinalIsWhole

-----------------------------------------------------------------------------
(* The order of the steps. *)

\* One step of those that do not repeat.
LEMMA AfterAt ==
  ASSUME NEW i \in 1..Len(Steps), DOMAIN Steps = 1..Len(Steps), \A k \in 1..Len(Steps) : Steps[k] = Steps[i] => k = i
  PROVE  After(Steps[i]) = IF i < Len(Steps) THEN Steps[i + 1] ELSE "finalize"
<1>1. (CHOOSE k \in DOMAIN Steps : Steps[k] = Steps[i]) = i
  OBVIOUS
<1> QED BY <1>1 DEF After

LEMMA StepsAt ==
  ASSUME ~Addon, package.kind \in {"native", "docker"}, package.tables \in BOOLEAN, package.ui \in BOOLEAN,
         NEW n, n = IF package.tables THEN 2 ELSE 1,
         NEW m, m = IF package.kind = "native" THEN n + 3 ELSE n + 5
  PROVE  /\ DOMAIN Steps = 1..Len(Steps) /\ Len(Steps) = m + (IF package.ui THEN 3 ELSE 0)
         /\ Steps[1] = "draft" /\ (package.tables => Steps[2] = "tables")
         /\ Steps[n + 1] = "images" /\ Steps[n + 2] = "docs"
         /\ package.kind = "native" => Steps[n + 3] = "upload"
         /\ package.kind = "docker" => Steps[n + 3] = "load" /\ Steps[n + 4] = "push" /\ Steps[n + 5] = "manifest"
         /\ package.ui => Steps[m + 1] = "ui" /\ Steps[m + 2] = "uploadUI" /\ Steps[m + 3] = "finalizeUI"
<1> DEFINE a == <<"draft">> \o (IF package.tables THEN <<"tables">> ELSE << >>)
           b == a \o <<"images", "docs">>
           c == b \o (IF package.kind = "native" THEN <<"upload">> ELSE <<"load", "push", "manifest">>)
           d == c \o (IF package.ui THEN <<"ui", "uploadUI", "finalizeUI">> ELSE << >>)
<1>0. Steps = d
  BY DEF Steps, Addon
<1>1. DOMAIN a = 1..n /\ Len(a) = n /\ a[1] = "draft" /\ (package.tables => a[2] = "tables") /\ a \in Seq({"draft", "tables"})
  <2>1. CASE package.tables
    BY <2>1
  <2>2. CASE ~package.tables
    BY <2>2
  <2> QED BY <2>1, <2>2
<1> HIDE DEF a
<1>2. /\ DOMAIN b = 1..(n + 2) /\ Len(b) = n + 2 /\ b[1] = "draft" /\ (package.tables => b[2] = "tables")
      /\ b[n + 1] = "images" /\ b[n + 2] = "docs"
      /\ b \in Seq({"draft", "tables", "images", "docs"})
  BY <1>1
<1> HIDE DEF b
<1>3. /\ DOMAIN c = 1..m /\ Len(c) = m /\ c[1] = "draft" /\ (package.tables => c[2] = "tables")
      /\ c[n + 1] = "images" /\ c[n + 2] = "docs"
      /\ package.kind = "native" => c[n + 3] = "upload"
      /\ package.kind = "docker" => c[n + 3] = "load" /\ c[n + 4] = "push" /\ c[n + 5] = "manifest"
      /\ c \in Seq({"draft", "tables", "images", "docs", "upload", "load", "push", "manifest"})
  <2>1. CASE package.kind = "native"
    <3>1. c = b \o <<"upload">> /\ m = n + 3
      BY <2>1
    <3> HIDE DEF c
    <3> QED BY <1>2, <2>1, <3>1
  <2>2. CASE package.kind = "docker"
    <3>1. c = b \o <<"load", "push", "manifest">> /\ m = n + 5
      BY <2>2
    <3> HIDE DEF c
    <3> QED BY <1>2, <2>2, <3>1
  <2> QED BY <2>1, <2>2
<1> HIDE DEF c
<1>4. /\ DOMAIN d = 1..Len(d) /\ Len(d) = m + (IF package.ui THEN 3 ELSE 0) /\ d[1] = "draft" /\ (package.tables => d[2] = "tables")
      /\ d[n + 1] = "images" /\ d[n + 2] = "docs"
      /\ package.kind = "native" => d[n + 3] = "upload"
      /\ package.kind = "docker" => d[n + 3] = "load" /\ d[n + 4] = "push" /\ d[n + 5] = "manifest"
      /\ package.ui => d[m + 1] = "ui" /\ d[m + 2] = "uploadUI" /\ d[m + 3] = "finalizeUI"
  BY <1>3
<1> QED BY <1>0, <1>4

EndOfTargets == IF package.ui THEN "ui" ELSE "finalize"

LEMMA AfterOfPlugin ==
  ASSUME ~Addon, package.kind \in {"native", "docker"}, package.tables \in BOOLEAN, package.ui \in BOOLEAN
  PROVE  /\ Steps[1] = "draft" /\ After("draft") = (IF package.tables THEN "tables" ELSE "images")
         /\ package.tables => After("tables") = "images"
         /\ After("images") = "docs"
         /\ After("docs") = IF package.kind = "native" THEN "upload" ELSE "load"
         /\ package.kind = "native" => After("upload") = EndOfTargets
         /\ package.kind = "docker" => After("load") = "push" /\ After("push") = "manifest" /\ After("manifest") = EndOfTargets
         /\ package.ui => After("ui") = "uploadUI" /\ After("uploadUI") = "finalizeUI" /\ After("finalizeUI") = "finalize"
<1> DEFINE n == IF package.tables THEN 2 ELSE 1
           m == IF package.kind = "native" THEN n + 3 ELSE n + 5
           s == Steps
<1>1. /\ DOMAIN s = 1..Len(s) /\ Len(s) = m + (IF package.ui THEN 3 ELSE 0)
      /\ s[1] = "draft" /\ (package.tables => s[2] = "tables")
      /\ s[n + 1] = "images" /\ s[n + 2] = "docs"
      /\ package.kind = "native" => s[n + 3] = "upload"
      /\ package.kind = "docker" => s[n + 3] = "load" /\ s[n + 4] = "push" /\ s[n + 5] = "manifest"
      /\ package.ui => s[m + 1] = "ui" /\ s[m + 2] = "uploadUI" /\ s[m + 3] = "finalizeUI"
  BY StepsAt
<1>2. n \in {1, 2} /\ (n = 2 <=> package.tables) /\ m \in Nat
      /\ (package.kind = "native" => m = n + 3) /\ (package.kind = "docker" => m = n + 5)
  OBVIOUS
<1> HIDE DEF s, n, m
<1>3. \A i, k \in 1..Len(s) : s[i] = s[k] => i = k
  <2>1. CASE package.kind = "native"
    BY <1>1, <1>2, <2>1
  <2>2. CASE package.kind = "docker"
    BY <1>1, <1>2, <2>2
  <2> QED BY <2>1, <2>2
<1>4. \A i \in 1..Len(s) : After(s[i]) = IF i < Len(s) THEN s[i + 1] ELSE "finalize"
  BY <1>1, <1>3, AfterAt DEF s
<1>5. s[1] = "draft" /\ After(s[1]) = s[2] /\ After(s[n + 1]) = s[n + 2] /\ After(s[n + 2]) = s[n + 3]
      /\ s[2] = (IF package.tables THEN "tables" ELSE "images")
  BY <1>1, <1>2, <1>4
<1>6. package.tables => After(s[2]) = s[3]
  BY <1>1, <1>2, <1>4
<1>7. package.kind = "docker" => After(s[n + 3]) = s[n + 4] /\ After(s[n + 4]) = s[n + 5]
  BY <1>1, <1>2, <1>4
<1>8. After(s[m]) = EndOfTargets
  BY <1>1, <1>2, <1>4 DEF EndOfTargets
<1>9. package.ui => After(s[m + 1]) = s[m + 2] /\ After(s[m + 2]) = s[m + 3] /\ After(s[m + 3]) = "finalize"
  BY <1>1, <1>2, <1>4
<1>10. s[1] = Steps[1]
  BY DEF s
<1>11. /\ Steps[1] = "draft" /\ After("draft") = (IF package.tables THEN "tables" ELSE "images")
       /\ package.tables => After("tables") = "images"
       /\ After("images") = "docs"
       /\ After("docs") = IF package.kind = "native" THEN "upload" ELSE "load"
  BY <1>1, <1>2, <1>5, <1>6, <1>10
<1>12. /\ package.kind = "native" => After("upload") = EndOfTargets
       /\ package.kind = "docker" => After("load") = "push" /\ After("push") = "manifest" /\ After("manifest") = EndOfTargets
  BY <1>1, <1>2, <1>7, <1>8
<1>13. package.ui => After("ui") = "uploadUI" /\ After("uploadUI") = "finalizeUI" /\ After("finalizeUI") = "finalize"
  BY <1>1, <1>9
<1> QED BY <1>11, <1>12, <1>13

LEMMA AfterOfAddon ==
  ASSUME Addon
  PROVE  Steps[1] = "images" /\ After("images") = "draft" /\ After("draft") = "upload" /\ After("upload") = "finalize"
<1>1. Steps = <<"images", "draft", "upload">>
  BY DEF Steps, Addon
<1>2. \A i \in 1..3 : After(Steps[i]) = IF i < 3 THEN Steps[i + 1] ELSE "finalize"
  BY <1>1, AfterAt
<1> QED BY <1>1, <1>2

-----------------------------------------------------------------------------
(* Every action keeps the invariant. *)

\* A run may end anywhere.
LEMMA RunEnds ==
  ASSUME PublishInv, EndPublish, UNCHANGED <<package, flags, build>>, hub' \in HubVersions,
         local' \in OfTargets, registry' \in OfTargets, unseen' \in BOOLEAN, FinalIsWhole'
  PROVE  PublishInv'
<1>1. PublishTypeOK /\ pubStep' = "idle" /\ todoTargets' = 0
  BY DEF PublishInv, EndPublish
<1>2. PublishTypeOK'
  <2>1. 0 \in 0..Len(Targets)
    BY PublishAssumption
  <2> QED BY <1>1, <2>1 DEF PublishTypeOK
<1>3. StepInv'
  BY <1>1 DEF StepInv
<1>4. RunInv'
  BY <1>1 DEF RunInv, PastDraft, PastTables, PastImages, PastDocs, PastTargets
<1>5. TargetInv'
  BY <1>1 DEF TargetInv, PastTargets
<1>6. FinalInv'
  BY <1>1 DEF FinalInv
<1> QED BY <1>2, <1>3, <1>4, <1>5, <1>6 DEF PublishInv

\* What a version that is not final is made of says nothing yet.
LEMMA CallEnds ==
  ASSUME PublishInv, EndPublish, hub' = hub \/ hub'.is # "final", hub' \in HubVersions,
         UNCHANGED <<package, flags, build, local, registry, unseen>>, bucket \subseteq bucket'
  PROVE  PublishInv'
<1>1. PublishTypeOK /\ FinalIsWhole
  BY DEF PublishInv
<1>2. FinalIsWhole'
  BY <1>1 DEF FinalIsWhole
<1>3. local' \in OfTargets /\ registry' \in OfTargets /\ unseen' \in BOOLEAN
  BY <1>1 DEF PublishTypeOK
<1> QED BY <1>2, <1>3, RunEnds

LEMMA StepBegins ==
  ASSUME NEW step, PublishTypeOK, Begin(step), UNCHANGED <<package, flags, build>>, hub' \in HubVersions,
         local' \in OfTargets, registry' \in OfTargets, unseen' \in BOOLEAN
  PROVE  PublishTypeOK' /\ pubStep' = step /\ (todoTargets' > 0 \/ Len(Targets) = 0) /\ Target' = 1
<1>1. Len(Targets) \in Nat
  BY PublishAssumption
<1>2. pubStep' = step /\ todoTargets' = Len(Targets) /\ Len(Targets) \in 0..Len(Targets)
  BY <1>1 DEF Begin
<1>3. PublishTypeOK'
  BY <1>2 DEF PublishTypeOK
<1> QED BY <1>1, <1>2, <1>3 DEF Target

\* An addon has no tables and no UI.
LEMMA PackageKinds ==
  ASSUME PublishTypeOK
  PROVE  /\ Addon => ~package.tables /\ ~package.ui /\ package.kind = "addon"
         /\ ~Addon => package.kind \in {"native", "docker"}
         /\ package.tables \in BOOLEAN /\ package.ui \in BOOLEAN
BY DEF PublishTypeOK, Addon

LEMMA RunPublishKeeps == ASSUME PublishInv, RunPublish PROVE PublishInv'
<1>0. PublishTypeOK /\ FinalInv /\ FinalIsWhole /\ (pubStep = "idle")
  BY DEF PublishInv, RunPublish, Here
<1>1. /\ Begin(Steps[1]) /\ UNCHANGED <<package, hub, bucket, local, registry>>
      /\ build' \in 1..MaxBuilds /\ flags' \in [console : BOOLEAN, finalize : BOOLEAN]
      /\ unseen' = (unseen /\ hub.is = "final")
  BY DEF RunPublish
<1>2. pubStep' = (IF Addon THEN "images" ELSE "draft")
  <2>1. CASE Addon
    BY <1>1, <2>1, AfterOfAddon DEF Begin
  <2>2. CASE ~Addon
    <3>1. package.kind \in {"native", "docker"} /\ package.tables \in BOOLEAN /\ package.ui \in BOOLEAN
      BY <1>0, <2>2 DEF PublishTypeOK, Addon
    <3> QED BY <1>1, <2>2, <3>1, AfterOfPlugin DEF Begin
  <2> QED BY <2>1, <2>2
<1>3. PublishTypeOK'
  <2>1. todoTargets' \in 0..Len(Targets) /\ build' \in 0..MaxBuilds
    BY <1>1, PublishAssumption DEF Begin
  <2>2. unseen' \in BOOLEAN
    BY <1>0, <1>1 DEF PublishTypeOK
  <2> QED BY <1>0, <1>1, <2>1, <2>2 DEF PublishTypeOK
<1>4. StepInv'
  BY <1>2 DEF StepInv, Addon
<1>5. RunInv'
  BY <1>0, <1>1, <1>2, PackageKinds DEF RunInv, PastDraft, PastTables, PastImages, PastDocs, PastTargets, Addon
<1>6. TargetInv'
  BY <1>2 DEF TargetInv, PastTargets
<1>7. FinalInv'
  BY <1>1, <1>2 DEF FinalInv, Addon
<1>8. FinalIsWhole'
  BY <1>0, <1>1 DEF FinalIsWhole, PublishTypeOK
<1> QED BY <1>3, <1>4, <1>5, <1>6, <1>7, <1>8 DEF PublishInv

LEMMA CreateDraftKeeps == ASSUME PublishInv, CreateDraft PROVE PublishInv'
<1>0. PublishTypeOK /\ StepInv /\ RunInv /\ pubStep = "draft"
  BY DEF PublishInv, CreateDraft, Here
<1> DEFINE c == [hub EXCEPT !.is = "draft", !.draft = build,
                            !.docs = IF package.kind = "addon" THEN build ELSE @]
<1>1. CASE hub.is = "final"
  <2>1. EndPublish /\ UNCHANGED <<package, flags, build, hub, bucket, local, registry, unseen>>
    BY <1>1 DEF CreateDraft
  <2> QED BY <1>0, <2>1, CallEnds DEF PublishTypeOK
<1>2. CASE hub.is # "final"
  <2>1. Call(c, Begin(After("draft")))
    BY <1>2 DEF CreateDraft
  <2>2. /\ c \in HubVersions /\ c.is = "draft" /\ c.draft = build /\ (Addon => c.docs = build)
        /\ hub \in HubVersions
    BY <1>0 DEF PublishTypeOK, HubVersions, Addon
  <2> HIDE DEF c
  <2>3. hub' \in {hub, c} /\ UNCHANGED <<package, flags, build, bucket, local, registry, unseen>>
    BY <2>1 DEF Call
  <2>4. CASE EndPublish
    BY <1>2, <2>2, <2>3, <2>4, CallEnds
  <2>5. CASE hub' = c /\ Begin(After("draft"))
    <3>1. /\ PublishTypeOK' /\ pubStep' = After("draft") /\ (todoTargets' > 0 \/ Len(Targets) = 0) /\ Target' = 1
      BY <1>0, <2>2, <2>3, <2>5, StepBegins DEF PublishTypeOK
    <3>2. pubStep' = IF Addon THEN "upload" ELSE IF package.tables THEN "tables" ELSE "images"
      BY <1>0, <3>1, PackageKinds, AfterOfAddon, AfterOfPlugin
    <3>3. StepInv'
      BY <1>0, <2>3, <3>1, <3>2, PackageKinds DEF StepInv, Addon
    <3>4. RunInv'
      BY <1>0, <2>2, <2>3, <2>5, <3>2, PackageKinds
      DEF RunInv, PastDraft, PastTables, PastImages, PastDocs, PastTargets, Addon
    <3>5. TargetInv'
      <4>1. pubStep' \in {"upload", "tables", "images"} /\ Target' = 1
        BY <3>1, <3>2
      <4>2. \A i \in DOMAIN Targets : i \in Nat /\ ~(i < 1)
        BY PublishAssumption
      <4> QED BY <4>1, <4>2 DEF TargetInv, PastTargets
    <3>6. FinalIsWhole' /\ FinalInv'
      BY <2>2, <2>5 DEF FinalIsWhole, FinalInv
    <3> QED BY <3>1, <3>3, <3>4, <3>5, <3>6 DEF PublishInv
  <2> QED BY <2>1, <2>4, <2>5 DEF Call
<1> QED BY <1>1, <1>2

LEMMA UploadTablesKeeps == ASSUME PublishInv, UploadTables PROVE PublishInv'
<1>0. PublishTypeOK /\ StepInv /\ RunInv /\ FinalInv /\ pubStep = "tables"
  BY DEF PublishInv, UploadTables, Here
<1> DEFINE c == [hub EXCEPT !.tables = build]
<1>1. Call(c, Begin(After("tables")))
  BY DEF UploadTables
<1>2. /\ c \in HubVersions /\ c.is = hub.is /\ c.draft = hub.draft /\ c.docs = hub.docs /\ c.ui = hub.ui
      /\ c.assets = hub.assets /\ c.tables = build /\ hub \in HubVersions /\ hub.is # "final"
  BY <1>0 DEF PublishTypeOK, HubVersions, FinalInv
<1> HIDE DEF c
<1>3. hub' \in {hub, c} /\ UNCHANGED <<package, flags, build, bucket, local, registry, unseen>>
  BY <1>1 DEF Call
<1>4. CASE EndPublish
  BY <1>2, <1>3, <1>4, CallEnds
<1>5. CASE hub' = c /\ Begin(After("tables"))
  <2>1. PublishTypeOK' /\ pubStep' = After("tables")
    BY <1>0, <1>2, <1>3, <1>5, StepBegins DEF PublishTypeOK
  <2>2. pubStep' = "images" /\ ~Addon
    BY <1>0, <2>1, PackageKinds, AfterOfPlugin DEF StepInv
  <2>3. StepInv'
    BY <2>2 DEF StepInv
  <2>4. RunInv'
    BY <1>0, <1>2, <1>3, <1>5, <2>2 DEF RunInv, PastDraft, PastTables, PastImages, PastDocs, PastTargets, Addon
  <2>5. TargetInv'
    BY <2>2 DEF TargetInv, PastTargets
  <2>6. FinalIsWhole' /\ FinalInv'
    BY <1>2, <1>5 DEF FinalIsWhole, FinalInv
  <2> QED BY <2>1, <2>3, <2>4, <2>5, <2>6 DEF PublishInv
<1> QED BY <1>1, <1>4, <1>5 DEF Call

LEMMA UploadDocsKeeps == ASSUME PublishInv, UploadDocs PROVE PublishInv'
<1>0. PublishTypeOK /\ StepInv /\ RunInv /\ FinalInv /\ pubStep = "docs"
  BY DEF PublishInv, UploadDocs, Here
<1> DEFINE c == [hub EXCEPT !.docs = build]
<1>1. Call(c, Begin(After("docs")))
  BY DEF UploadDocs
<1>2. /\ c \in HubVersions /\ c.is = hub.is /\ c.draft = hub.draft /\ c.tables = hub.tables /\ c.ui = hub.ui
      /\ c.assets = hub.assets /\ c.docs = build /\ hub \in HubVersions /\ hub.is # "final"
  BY <1>0 DEF PublishTypeOK, HubVersions, FinalInv
<1> HIDE DEF c
<1>3. hub' \in {hub, c} /\ UNCHANGED <<package, flags, build, bucket, local, registry, unseen>>
  BY <1>1 DEF Call
<1>4. CASE EndPublish
  BY <1>2, <1>3, <1>4, CallEnds
<1>5. CASE hub' = c /\ Begin(After("docs"))
  <2>1. PublishTypeOK' /\ pubStep' = After("docs") /\ (todoTargets' > 0 \/ Len(Targets) = 0) /\ Target' = 1
    BY <1>0, <1>2, <1>3, <1>5, StepBegins DEF PublishTypeOK
  <2>2. pubStep' = (IF package.kind = "native" THEN "upload" ELSE "load") /\ ~Addon
        /\ package.kind \in {"native", "docker"}
    BY <1>0, <2>1, PackageKinds, AfterOfPlugin DEF StepInv
  <2>3. StepInv'
    BY <1>3, <2>1, <2>2 DEF StepInv
  <2>4. RunInv'
    BY <1>0, <1>2, <1>3, <1>5, <2>2 DEF RunInv, PastDraft, PastTables, PastImages, PastDocs, PastTargets, Addon
  <2>5. TargetInv'
    BY <2>1, <2>2, PublishAssumption DEF TargetInv, PastTargets
  <2>6. FinalIsWhole' /\ FinalInv'
    BY <1>2, <1>5 DEF FinalIsWhole, FinalInv
  <2> QED BY <2>1, <2>3, <2>4, <2>5, <2>6 DEF PublishInv
<1> QED BY <1>1, <1>4, <1>5 DEF Call

LEMMA PrepareImagesKeeps == ASSUME PublishInv, PrepareImages PROVE PublishInv'
<1>0. PublishTypeOK /\ StepInv /\ RunInv /\ FinalInv /\ FinalIsWhole /\ pubStep = "images"
  BY DEF PublishInv, PrepareImages, Here
<1>1. UNCHANGED <<package, flags, build, hub, bucket, local, registry, unseen>>
  BY DEF PrepareImages
<1>2. CASE EndPublish
  BY <1>0, <1>1, <1>2, CallEnds DEF PublishTypeOK
<1>3. CASE pubStep' = "uploadImages" /\ uploads' = Pictures[build] \ bucket /\ UNCHANGED todoTargets
  <2>1. PublishTypeOK'
    BY <1>0, <1>1, <1>3 DEF PublishTypeOK
  <2>2. StepInv'
    BY <1>3 DEF StepInv
  <2>3. RunInv'
    BY <1>0, <1>1, <1>3 DEF RunInv, PastDraft, PastTables, PastImages, PastDocs, PastTargets, Addon
  <2>4. TargetInv'
    BY <1>3 DEF TargetInv, PastTargets
  <2>5. FinalInv' /\ FinalIsWhole'
    BY <1>0, <1>1, <1>3 DEF FinalInv, FinalIsWhole, Addon
  <2> QED BY <2>1, <2>2, <2>3, <2>4, <2>5 DEF PublishInv
<1> QED BY <1>2, <1>3 DEF PrepareImages

LEMMA UploadImagesKeeps == ASSUME PublishInv, UploadImages PROVE PublishInv'
<1>0. PublishTypeOK /\ StepInv /\ RunInv /\ FinalInv /\ FinalIsWhole /\ pubStep = "uploadImages"
  BY DEF PublishInv, UploadImages, Here
<1>1. UNCHANGED <<package, flags, build, hub, local, registry, unseen>>
  BY DEF UploadImages
<1>2. ASSUME NEW p \in uploads, bucket' \in {bucket, bucket \cup {p}}, EndPublish PROVE PublishInv'
  BY <1>0, <1>1, <1>2, CallEnds DEF PublishTypeOK
<1>3. ASSUME NEW p \in uploads, bucket' \in {bucket, bucket \cup {p}},
             p \in bucket', uploads' = uploads \ {p}, UNCHANGED <<pubStep, todoTargets>>
      PROVE  PublishInv'
  <2>1. PublishTypeOK' /\ StepInv'
    BY <1>0, <1>1, <1>3 DEF PublishTypeOK, StepInv
  <2>2. RunInv'
    BY <1>0, <1>1, <1>3 DEF RunInv, PastDraft, PastTables, PastImages, PastDocs, PastTargets, Addon
  <2>3. TargetInv'
    BY <1>0, <1>3 DEF TargetInv, PastTargets
  <2>4. FinalInv' /\ FinalIsWhole'
    BY <1>0, <1>1, <1>3 DEF FinalInv, FinalIsWhole, Addon
  <2> QED BY <2>1, <2>2, <2>3, <2>4 DEF PublishInv
<1>4. CASE uploads = {} /\ Begin(After("images")) /\ UNCHANGED bucket
  <2>1. PublishTypeOK' /\ pubStep' = After("images")
    BY <1>0, <1>1, <1>4, StepBegins DEF PublishTypeOK
  <2>2. pubStep' = IF Addon THEN "draft" ELSE "docs"
    BY <1>0, <2>1, PackageKinds, AfterOfAddon, AfterOfPlugin
  <2>3. StepInv'
    BY <1>1, <2>2 DEF StepInv, Addon
  <2>4. RunInv'
    BY <1>0, <1>1, <1>4, <2>2, PackageKinds
    DEF RunInv, PastDraft, PastTables, PastImages, PastDocs, PastTargets, Addon
  <2>5. TargetInv'
    BY <2>2 DEF TargetInv, PastTargets
  <2>6. FinalInv' /\ FinalIsWhole'
    BY <1>0, <1>1, <1>4, <2>2 DEF FinalInv, FinalIsWhole, Addon
  <2> QED BY <2>1, <2>3, <2>4, <2>5, <2>6 DEF PublishInv
<1> QED BY <1>2, <1>3, <1>4 DEF UploadImages

\* On to the next target, or to the next step after the last.
LEMMA NextTargetIs ==
  ASSUME NEW step, PublishTypeOK, todoTargets > 0 \/ Len(Targets) = 0, NextTarget(step)
  PROVE  /\ DOMAIN Targets = 1..Len(Targets) /\ Len(Targets) \in Nat /\ Target \in Nat
         /\ \/ /\ UNCHANGED pubStep /\ todoTargets' \in 0..Len(Targets) /\ todoTargets' > 0
               /\ Target' = Target + 1
            \/ Begin(After(step)) /\ \A i \in DOMAIN Targets : i < Target \/ i = Target
<1>1. Len(Targets) \in Nat /\ DOMAIN Targets = 1..Len(Targets) /\ todoTargets \in 0..Len(Targets)
  BY PublishAssumption DEF PublishTypeOK
<1>2. Target \in Nat
  BY <1>1 DEF Target
<1>3. CASE todoTargets > 1
  <2>1. todoTargets' = todoTargets - 1 /\ UNCHANGED pubStep
    BY <1>3 DEF NextTarget
  <2>2. todoTargets' \in 0..Len(Targets) /\ todoTargets' > 0 /\ Target' = Target + 1
    BY <1>1, <1>3, <2>1 DEF Target
  <2> QED BY <1>1, <1>2, <2>1, <2>2
<1>4. CASE ~(todoTargets > 1)
  <2>1. Begin(After(step))
    BY <1>4 DEF NextTarget
  <2>2. \A i \in DOMAIN Targets : i < Target \/ i = Target
    BY <1>1, <1>4 DEF Target
  <2> QED BY <1>1, <1>2, <2>1, <2>2
<1> QED BY <1>3, <1>4

LEMMA UploadBinaryKeeps == ASSUME PublishInv, UploadBinary PROVE PublishInv'
<1>0. /\ PublishTypeOK /\ StepInv /\ RunInv /\ TargetInv /\ FinalInv /\ pubStep = "upload"
      /\ todoTargets > 0 \/ Len(Targets) = 0
  BY DEF PublishInv, UploadBinary, Here, StepInv
<1> DEFINE c == [hub EXCEPT !.assets[Target] = build]
<1>1. Call(c, NextTarget("upload"))
  BY DEF UploadBinary
<1>2. /\ c \in HubVersions /\ c.is = hub.is /\ c.draft = hub.draft /\ c.tables = hub.tables /\ c.ui = hub.ui
      /\ c.docs = hub.docs /\ hub \in HubVersions /\ hub.is # "final"
  BY <1>0 DEF PublishTypeOK, HubVersions, FinalInv, OfTargets
<1>3. \A i \in DOMAIN Targets : c.assets[i] = IF i = Target THEN build ELSE hub.assets[i]
  BY <1>0 DEF PublishTypeOK, HubVersions, OfTargets
<1> HIDE DEF c
<1>4. hub' \in {hub, c} /\ UNCHANGED <<package, flags, build, bucket, local, registry, unseen>>
  BY <1>1 DEF Call
<1>5. CASE EndPublish
  BY <1>2, <1>4, <1>5, CallEnds
<1>6. CASE hub' = c /\ NextTarget("upload")
  <2>1. /\ DOMAIN Targets = 1..Len(Targets) /\ Len(Targets) \in Nat /\ Target \in Nat
        /\ \/ /\ UNCHANGED pubStep /\ todoTargets' \in 0..Len(Targets) /\ todoTargets' > 0
              /\ Target' = Target + 1
           \/ Begin(After("upload")) /\ \A i \in DOMAIN Targets : i < Target \/ i = Target
    BY <1>0, <1>6, NextTargetIs
  <2>2. FinalIsWhole' /\ FinalInv'
    BY <1>2, <1>6 DEF FinalIsWhole, FinalInv
  <2>3. CASE UNCHANGED pubStep /\ todoTargets' \in 0..Len(Targets) /\ todoTargets' > 0 /\ Target' = Target + 1
    <3>1. PublishTypeOK' /\ StepInv'
      BY <1>0, <1>2, <1>4, <1>6, <2>3 DEF PublishTypeOK, StepInv
    <3>2. RunInv'
      BY <1>0, <1>2, <1>4, <1>6, <2>3 DEF RunInv, PastDraft, PastTables, PastImages, PastDocs, PastTargets, Addon
    <3>3. TargetInv'
      BY <1>0, <1>3, <1>4, <1>6, <2>1, <2>3 DEF TargetInv, PastTargets
    <3> QED BY <2>2, <3>1, <3>2, <3>3 DEF PublishInv
  <2>4. CASE Begin(After("upload")) /\ \A i \in DOMAIN Targets : i < Target \/ i = Target
    <3>1. PublishTypeOK' /\ pubStep' = After("upload")
      BY <1>0, <1>2, <1>4, <1>6, <2>4, StepBegins DEF PublishTypeOK
    <3>2. pubStep' = EndOfTargets
      BY <1>0, <3>1, PackageKinds, AfterOfAddon, AfterOfPlugin DEF StepInv, EndOfTargets
    <3>3. StepInv'
      BY <1>4, <3>2 DEF StepInv, EndOfTargets
    <3>4. RunInv'
      BY <1>0, <1>2, <1>4, <1>6, <3>2, PackageKinds
      DEF RunInv, PastDraft, PastTables, PastImages, PastDocs, PastTargets, Addon, EndOfTargets
    <3>5. TargetInv'
      BY <1>0, <1>3, <1>4, <1>6, <2>4, <3>2 DEF TargetInv, PastTargets, EndOfTargets
    <3> QED BY <2>2, <3>1, <3>3, <3>4, <3>5 DEF PublishInv
  <2> QED BY <2>1, <2>3, <2>4
<1> QED BY <1>1, <1>5, <1>6 DEF Call

\* A run goes on to the next target, or with the next step.
LEMMA TargetDone ==
  ASSUME PublishInv, NEW step, NextTarget(step), pubStep = step, step \in {"load", "push"},
         UNCHANGED <<package, flags, build, hub, bucket>>,
         local' \in OfTargets, registry' \in OfTargets, unseen' \in BOOLEAN, unseen => unseen',
         \A i \in DOMAIN Targets :
           IF step = "load" THEN (i < Target \/ i = Target) /\ ~unseen' => local'[i] = build
           ELSE local' = local /\ ((i < Target \/ i = Target) /\ ~unseen' => registry'[i] = build)
  PROVE  PublishInv'
<1>0. /\ PublishTypeOK /\ StepInv /\ RunInv /\ TargetInv /\ FinalInv /\ package.kind = "docker" /\ ~Addon
      /\ todoTargets > 0 \/ Len(Targets) = 0
  BY DEF PublishInv, StepInv, Addon
<1>1. /\ DOMAIN Targets = 1..Len(Targets) /\ Len(Targets) \in Nat /\ Target \in Nat
      /\ \/ /\ UNCHANGED pubStep /\ todoTargets' \in 0..Len(Targets) /\ todoTargets' > 0
            /\ Target' = Target + 1
         \/ Begin(After(step)) /\ \A i \in DOMAIN Targets : i < Target \/ i = Target
  BY <1>0, NextTargetIs
<1>2. FinalIsWhole' /\ FinalInv'
  BY <1>0 DEF FinalIsWhole, FinalInv
<1>3. CASE UNCHANGED pubStep /\ todoTargets' \in 0..Len(Targets) /\ todoTargets' > 0 /\ Target' = Target + 1
  <2>1. PublishTypeOK' /\ StepInv'
    BY <1>0, <1>3 DEF PublishTypeOK, StepInv
  <2>2. RunInv'
    BY <1>0, <1>3 DEF RunInv, PastDraft, PastTables, PastImages, PastDocs, PastTargets, Addon
  <2>3. TargetInv'
    BY <1>0, <1>1, <1>3 DEF TargetInv, PastTargets
  <2> QED BY <1>2, <2>1, <2>2, <2>3 DEF PublishInv
<1>4. CASE Begin(After(step)) /\ \A i \in DOMAIN Targets : i < Target \/ i = Target
  <2>1. PublishTypeOK' /\ pubStep' = After(step) /\ (todoTargets' > 0 \/ Len(Targets) = 0) /\ Target' = 1
    BY <1>0, <1>4, StepBegins DEF PublishTypeOK
  <2>2. pubStep' = IF step = "load" THEN "push" ELSE "manifest"
    BY <1>0, <2>1, PackageKinds, AfterOfPlugin
  <2>3. StepInv'
    BY <1>0, <2>1, <2>2 DEF StepInv
  <2>4. RunInv'
    BY <1>0, <2>2 DEF RunInv, PastDraft, PastTables, PastImages, PastDocs, PastTargets, Addon
  <2>5. TargetInv'
    BY <1>0, <1>1, <1>4, <2>1, <2>2 DEF TargetInv, PastTargets
  <2> QED BY <1>2, <2>1, <2>3, <2>4, <2>5 DEF PublishInv
<1> QED BY <1>1, <1>3, <1>4

LEMMA LoadImageKeeps == ASSUME PublishInv, LoadImage PROVE PublishInv'
<1>0. /\ PublishTypeOK /\ TargetInv /\ pubStep = "load"
      /\ UNCHANGED <<package, flags, build, hub, bucket, registry>>
  BY DEF PublishInv, LoadImage, Here
<1>1. CASE EndPublish /\ UNCHANGED <<local, unseen>>
  BY <1>0, <1>1, CallEnds DEF PublishTypeOK
<1>2. CASE NextTarget("load") /\ local' = [local EXCEPT ![Target] = build] /\ UNCHANGED unseen
  <2>1. local' \in OfTargets /\ \A i \in DOMAIN Targets : local'[i] = IF i = Target THEN build ELSE local[i]
    BY <1>0, <1>2 DEF PublishTypeOK, OfTargets
  <2>2. \A i \in DOMAIN Targets : (i < Target \/ i = Target) /\ ~unseen' => local'[i] = build
    BY <1>0, <1>2, <2>1 DEF TargetInv
  <2>3. unseen' \in BOOLEAN /\ registry' \in OfTargets /\ (unseen => unseen')
    BY <1>0, <1>2 DEF PublishTypeOK
  <2> QED BY <1>0, <1>2, <2>1, <2>2, <2>3, TargetDone
<1>3. CASE NextTarget("load") /\ unseen' = TRUE /\ UNCHANGED local
  BY <1>0, <1>3, TargetDone DEF PublishTypeOK
<1> QED BY <1>1, <1>2, <1>3 DEF LoadImage

LEMMA PushImageKeeps == ASSUME PublishInv, PushImage PROVE PublishInv'
<1>0. /\ PublishTypeOK /\ TargetInv /\ pubStep = "push"
      /\ UNCHANGED <<package, flags, build, hub, bucket, local>>
  BY DEF PublishInv, PushImage, Here
<1>1. CASE EndPublish /\ UNCHANGED <<registry, unseen>>
  BY <1>0, <1>1, CallEnds DEF PublishTypeOK
<1>2. CASE NextTarget("push") /\ registry' = [registry EXCEPT ![Target] = local[Target]] /\ UNCHANGED unseen
  <2>1. registry' \in OfTargets /\ \A i \in DOMAIN Targets : registry'[i] = IF i = Target THEN local[i] ELSE registry[i]
    BY <1>0, <1>2 DEF PublishTypeOK, OfTargets
  <2>2. \A i \in DOMAIN Targets : (i < Target \/ i = Target) /\ ~unseen' => registry'[i] = build
    BY <1>0, <1>2, <2>1 DEF TargetInv
  <2>3. unseen' \in BOOLEAN /\ local' \in OfTargets /\ (unseen => unseen')
    BY <1>0, <1>2 DEF PublishTypeOK
  <2> QED BY <1>0, <1>2, <2>1, <2>2, <2>3, TargetDone
<1>3. CASE NextTarget("push") /\ unseen' = TRUE /\ UNCHANGED registry
  BY <1>0, <1>3, TargetDone DEF PublishTypeOK
<1> QED BY <1>1, <1>2, <1>3 DEF PushImage

LEMMA PushManifestKeeps == ASSUME PublishInv, PushManifest PROVE PublishInv'
<1>0. PublishTypeOK /\ StepInv /\ RunInv /\ TargetInv /\ FinalInv /\ pubStep = "manifest" /\ package.kind = "docker" /\ ~Addon
  BY DEF PublishInv, PushManifest, Here, StepInv, Addon
<1>1. CASE EndPublish /\ UNCHANGED <<package, flags, build, hub, bucket, local, registry, unseen>>
  BY <1>0, <1>1, CallEnds DEF PublishTypeOK
<1> DEFINE c == [hub EXCEPT !.assets = registry]
<1>2. CASE Call(c, Begin(After("manifest")))
  <2>1. /\ c \in HubVersions /\ c.is = hub.is /\ c.draft = hub.draft /\ c.tables = hub.tables /\ c.ui = hub.ui
        /\ c.docs = hub.docs /\ c.assets = registry /\ hub \in HubVersions /\ hub.is # "final"
    BY <1>0 DEF PublishTypeOK, HubVersions, FinalInv
  <2> HIDE DEF c
  <2>2. hub' \in {hub, c} /\ UNCHANGED <<package, flags, build, bucket, local, registry, unseen>>
    BY <1>2 DEF Call
  <2>3. CASE EndPublish
    BY <2>1, <2>2, <2>3, CallEnds
  <2>4. CASE hub' = c /\ Begin(After("manifest"))
    <3>1. PublishTypeOK' /\ pubStep' = After("manifest")
      BY <1>0, <2>1, <2>2, <2>4, StepBegins DEF PublishTypeOK
    <3>2. pubStep' = EndOfTargets
      BY <1>0, <3>1, PackageKinds, AfterOfPlugin
    <3>3. StepInv'
      BY <2>2, <3>2 DEF StepInv, EndOfTargets
    <3>4. RunInv'
      BY <1>0, <2>1, <2>2, <2>4, <3>2
      DEF RunInv, PastDraft, PastTables, PastImages, PastDocs, PastTargets, Addon, EndOfTargets
    <3>5. TargetInv'
      BY <1>0, <2>1, <2>2, <2>4, <3>2 DEF TargetInv, PastTargets, EndOfTargets
    <3>6. FinalIsWhole' /\ FinalInv'
      BY <2>1, <2>4 DEF FinalIsWhole, FinalInv
    <3> QED BY <3>1, <3>3, <3>4, <3>5, <3>6 DEF PublishInv
  <2> QED BY <1>2, <2>3, <2>4 DEF Call
<1> QED BY <1>1, <1>2 DEF PushManifest

LEMMA UIKeeps == ASSUME PublishInv, PrepareUI \/ UploadUI PROVE PublishInv'
<1>0. /\ PublishTypeOK /\ StepInv /\ RunInv /\ TargetInv /\ FinalInv /\ pubStep \in {"ui", "uploadUI"}
      /\ package.ui /\ ~Addon /\ package.kind \in {"native", "docker"} /\ package.tables \in BOOLEAN
      /\ UNCHANGED <<package, flags, build, hub, bucket, local, registry, unseen>>
  BY PackageKinds DEF PublishInv, PrepareUI, UploadUI, Here, StepInv
<1>1. CASE EndPublish
  BY <1>0, <1>1, CallEnds DEF PublishTypeOK
<1>2. CASE /\ pubStep' \in {pubStep, After(pubStep)} /\ todoTargets' \in {todoTargets, Len(Targets)}
  <2>1. pubStep' \in {"ui", "uploadUI", "finalizeUI"}
    BY <1>0, <1>2, AfterOfPlugin
  <2>2. PublishTypeOK'
    <3>1. todoTargets' \in 0..Len(Targets)
      BY <1>0, <1>2, PublishAssumption DEF PublishTypeOK
    <3> QED BY <1>0, <3>1 DEF PublishTypeOK
  <2>3. StepInv'
    BY <1>0, <2>1 DEF StepInv
  <2>4. RunInv'
    BY <1>0, <2>1 DEF RunInv, PastDraft, PastTables, PastImages, PastDocs, PastTargets, Addon
  <2>5. TargetInv'
    BY <1>0, <2>1 DEF TargetInv, PastTargets
  <2>6. FinalIsWhole' /\ FinalInv'
    BY <1>0 DEF FinalIsWhole, FinalInv
  <2> QED BY <2>2, <2>3, <2>4, <2>5, <2>6 DEF PublishInv
<1>3. EndPublish \/ (pubStep' \in {pubStep, After(pubStep)} /\ todoTargets' \in {todoTargets, Len(Targets)})
  BY <1>0 DEF PrepareUI, UploadUI, Here, Begin
<1> QED BY <1>1, <1>2, <1>3

LEMMA FinalizeUIKeeps == ASSUME PublishInv, FinalizeUI PROVE PublishInv'
<1>0. /\ PublishTypeOK /\ StepInv /\ RunInv /\ TargetInv /\ FinalInv /\ pubStep = "finalizeUI"
      /\ package.ui /\ ~Addon /\ package.kind \in {"native", "docker"} /\ package.tables \in BOOLEAN
  BY PackageKinds DEF PublishInv, FinalizeUI, Here, StepInv
<1> DEFINE c == [hub EXCEPT !.ui = build]
<1>1. Call(c, Begin(After("finalizeUI")))
  BY DEF FinalizeUI
<1>2. /\ c \in HubVersions /\ c.is = hub.is /\ c.draft = hub.draft /\ c.tables = hub.tables /\ c.ui = build
      /\ c.docs = hub.docs /\ c.assets = hub.assets /\ hub \in HubVersions /\ hub.is # "final"
  BY <1>0 DEF PublishTypeOK, HubVersions, FinalInv
<1> HIDE DEF c
<1>3. hub' \in {hub, c} /\ UNCHANGED <<package, flags, build, bucket, local, registry, unseen>>
  BY <1>1 DEF Call
<1>4. CASE EndPublish
  BY <1>2, <1>3, <1>4, CallEnds
<1>5. CASE hub' = c /\ Begin(After("finalizeUI"))
  <2>1. PublishTypeOK' /\ pubStep' = After("finalizeUI")
    BY <1>0, <1>2, <1>3, <1>5, StepBegins DEF PublishTypeOK
  <2>2. pubStep' = "finalize"
    BY <1>0, <2>1, AfterOfPlugin
  <2>3. StepInv'
    BY <2>2 DEF StepInv
  <2>4. RunInv'
    BY <1>0, <1>2, <1>3, <1>5, <2>2 DEF RunInv, PastDraft, PastTables, PastImages, PastDocs, PastTargets, Addon
  <2>5. TargetInv'
    BY <1>0, <1>2, <1>3, <1>5, <2>2 DEF TargetInv, PastTargets
  <2>6. FinalIsWhole' /\ FinalInv'
    BY <1>2, <1>5 DEF FinalIsWhole, FinalInv
  <2> QED BY <2>1, <2>3, <2>4, <2>5, <2>6 DEF PublishInv
<1> QED BY <1>1, <1>4, <1>5 DEF Call

\* Here the version becomes final, and must be whole.
LEMMA FinalizeKeeps == ASSUME PublishInv, Finalize PROVE PublishInv'
<1>0. PublishTypeOK /\ RunInv /\ TargetInv /\ FinalInv /\ pubStep = "finalize"
  BY DEF PublishInv, Finalize, Here
<1> DEFINE c == [hub EXCEPT !.is = "final", !.by = build]
<1>1. /\ c \in HubVersions /\ c.is = "final" /\ c.by = build /\ c.draft = hub.draft /\ c.tables = hub.tables
      /\ c.ui = hub.ui /\ c.docs = hub.docs /\ c.assets = hub.assets /\ hub \in HubVersions /\ hub.is # "final"
  BY <1>0 DEF PublishTypeOK, HubVersions, FinalInv
<1>2. Call(c, EndPublish) \/ (EndPublish /\ UNCHANGED <<package, flags, build, hub, bucket, local, registry, unseen>>)
  BY DEF Finalize
<1> HIDE DEF c
<1>3. EndPublish /\ hub' \in {hub, c} /\ UNCHANGED <<package, flags, build, bucket, local, registry, unseen>>
  BY <1>2 DEF Call
<1>4. CASE hub' = hub
  BY <1>1, <1>3, <1>4, CallEnds
<1>5. CASE hub' = c
  <2>1. hub.draft = build /\ hub.docs = build /\ Pictures[build] \subseteq bucket
    BY <1>0 DEF RunInv, PastDraft, PastTables, PastImages, PastDocs, PastTargets
  <2>2. (package.tables => hub.tables = build) /\ (package.ui => hub.ui = build)
    BY <1>0, PackageKinds DEF RunInv, PastTables, PastDocs, PastTargets
  <2>3. ~unseen => \A i \in DOMAIN Targets : hub.assets[i] = build
    BY <1>0 DEF TargetInv, PastTargets
  <2>4. FinalIsWhole'
    BY <1>1, <1>3, <1>5, <2>1, <2>2, <2>3 DEF FinalIsWhole
  <2>5. local' \in OfTargets /\ registry' \in OfTargets /\ unseen' \in BOOLEAN /\ hub' \in HubVersions
    BY <1>0, <1>1, <1>3, <1>5 DEF PublishTypeOK
  <2> QED BY <1>3, <2>4, <2>5, RunEnds
<1> QED BY <1>3, <1>4, <1>5

LEMMA PublishInitInv == PublishInit => PublishInv
<1> SUFFICES ASSUME PublishInit PROVE PublishInv
  OBVIOUS
<1>1. NoTargets \in OfTargets /\ 0 \in 0..MaxBuilds /\ 0 \in 0..Len(Targets)
  BY PublishAssumption DEF NoTargets, OfTargets
<1>2. PublishTypeOK
  BY <1>1 DEF PublishInit, PublishTypeOK, HubVersions
<1>3. StepInv /\ RunInv /\ TargetInv
  BY DEF PublishInit, StepInv, RunInv, TargetInv, PastDraft, PastTables, PastImages, PastDocs, PastTargets
<1>4. FinalInv /\ FinalIsWhole
  BY DEF PublishInit, FinalInv, FinalIsWhole
<1> QED BY <1>2, <1>3, <1>4 DEF PublishInv

-----------------------------------------------------------------------------
(* The results. *)

\* How far a run is, and what of the version is of its build.
THEOREM PublishInvariant == PublishSpec => []PublishInv
<1>1. PublishInv /\ [PublishNext]_publishVars => PublishInv'
  <2> SUFFICES ASSUME PublishInv, [PublishNext]_publishVars PROVE PublishInv'
    OBVIOUS
  <2>1. CASE UNCHANGED publishVars
    <3>1. PublishTypeOK'
      BY <2>1 DEF PublishInv, publishVars, PublishTypeOK
    <3>3. StepInv'
      BY <2>1 DEF PublishInv, publishVars, StepInv, Addon
    <3>4. RunInv'
      BY <2>1 DEF PublishInv, publishVars, RunInv, PastDraft, PastTables, PastImages, Addon
    <3>2. TargetInv' /\ FinalInv' /\ FinalIsWhole'
      BY <2>1 DEF PublishInv, publishVars, TargetInv, FinalInv, FinalIsWhole, PastTargets, Addon, Target
    <3> QED BY <3>1, <3>2, <3>3, <3>4 DEF PublishInv
  <2> QED BY <2>1, RunPublishKeeps, CreateDraftKeeps, UploadTablesKeeps, UploadDocsKeeps, PrepareImagesKeeps,
             UploadImagesKeeps, UploadBinaryKeeps, LoadImageKeeps, PushImageKeeps, PushManifestKeeps, UIKeeps,
             FinalizeUIKeeps, FinalizeKeeps DEF PublishNext
<1> QED BY <1>1, PublishInitInv, PTL DEF PublishSpec

\* A version that is final is whole: every part is of the build it was
\* finalized with, whatever failed in however many runs before, with whichever
\* builds, and whether or not the answers arrived.
THEOREM FinalIsAlwaysWhole == PublishSpec => []FinalIsWhole
<1>1. PublishInv => FinalIsWhole
  BY DEF PublishInv
<1> QED BY <1>1, PublishInvariant, PTL

\* A version that is final stays as it is, also when the command is run again
\* with a new build.
THEOREM FinalStays == PublishSpec => [][hub.is = "final" => hub' = hub]_publishVars
<1>1. PublishInv /\ [PublishNext]_publishVars => [hub.is = "final" => hub' = hub]_publishVars
  <2> SUFFICES ASSUME PublishInv, PublishNext, hub.is = "final" PROVE hub' = hub
    OBVIOUS
  <2>1. pubStep \in {"idle", "draft", "images", "uploadImages"}
    BY DEF PublishInv, FinalInv
  <2> QED BY <2>1 DEF PublishNext, RunPublish, CreateDraft, UploadTables, PrepareImages, UploadImages, UploadDocs,
       UploadBinary, LoadImage, PushImage, PushManifest, PrepareUI, UploadUI, FinalizeUI, Finalize, Here
<1> QED BY <1>1, PublishInvariant, PTL DEF PublishSpec

-----------------------------------------------------------------------------
(* Commands: what is invariant. The operators take the state as parameters. *)

\* The specs were read without an error.
Fine(rd) == ~rd.error

RowOf(s, k, t) == [source |-> s, key |-> k, time |-> t]

SourceSteps == {"source", "v3", "init", "configure", "migrate", "open", "stream", "stale", "close", "report", "closeAll"}
Unsent      == {"source", "v3", "init", "configure", "migrate"}

DestsOf(rd, i)  == NamedDocs(rd.destination, ToSet(rd.source[i].destinations))
VersionOf(sp, s) == FindMaxCommonVersion(sp["source"][s], 0..3)

\* Where the loops over sources and destinations are.
ControlInv(in, sp, c, com, st, rd, i, j) ==
  /\ in \in Inputs /\ sp \in Speaks /\ c \in Nat
  /\ st \in {"idle", "specs", "check"} \cup SourceSteps
  /\ rd = IF st = "idle" THEN NewReader ELSE SpecsOf(in, com \in Relaxed)
  /\ st \notin {"idle", "specs"} => Fine(rd)
  /\ st \in SourceSteps => com \in Syncing /\ i \in Nat \ {0} /\ (com = "migrate" => st \in Unsent)
  /\ st \in SourceSteps \ {"source"} => i <= Len(rd.source)
  /\ st \in SourceSteps \ {"source", "v3", "init"} => j \in 1..Len(DestsOf(rd, i))
  /\ st = "v3" => VersionOf(sp, rd.source[i].name) = 3
  /\ st = "close" => VersionOf(sp, rd.source[i].name) = 2

\* What is on the streams: rows of this source and command.
StreamsInv(c, st, rd, i, j, fet, q) ==
  /\ st \in Unsent \cup {"idle", "specs", "check", "open"} => fet = {}
  /\ st \in Unsent \cup {"idle", "specs", "check"} => q = << >>
  /\ st \in SourceSteps \ Unsent =>
       /\ DOMAIN q \subseteq DocNames(DestsOf(rd, i))
       /\ \A n \in DOMAIN q : \A r \in q[n] : \E k \in fet : r = RowOf(rd.source[i].name, k, c)
       /\ st = "open" => \A m \in 1..j - 1 : DestsOf(rd, i)[m].name \in DOMAIN q
       /\ st # "open" => \A m \in 1..Len(DestsOf(rd, i)) : DestsOf(rd, i)[m].name \in DOMAIN q

\* A destination that has all rows of the source, and no stale ones.
HasRows(rows, s, keys, c) == \A k \in keys : RowOf(s, k, c) \in rows
NoneStale(d, rows, s, c)  == d.write = "overwrite-delete-stale" => \A r \in rows : r.source = s => r.time = c

\* The m-th destination is rid of stale rows.
IsCleaned(st, m, j) == st \in {"report", "closeAll"} \/ (st # "stream" /\ m <= j /\ (m = j => st = "close"))

\* How far a destination is with the rows of the source.
DeliveredInv(sp, c, st, rd, i, j, fet, q, fail, rows) ==
  st \in {"stream", "stale", "close", "report", "closeAll"} =>
    \A m \in 1..Len(DestsOf(rd, i)) :
      LET d == DestsOf(rd, i)[m]
          s == rd.source[i].name
      IN  /\ d.name \in fail \/ HasRows(rows[d.name] \cup q[d.name], s, fet, c)
          /\ st \in {"stale", "close"} /\ m < j /\ VersionOf(sp, s) = 2 => q[d.name] = {} /\ HasRows(rows[d.name], s, fet, c)
          /\ IsCleaned(st, m, j) => NoneStale(d, rows[d.name], s, c)

\* Every row has a time, and every destination a table.
RowsInv(sp, c, rows, bef) ==
  /\ rows = [n \in DOMAIN sp["destination"] |-> rows[n]] /\ DOMAIN bef = DOMAIN rows
  /\ \A n \in DOMAIN rows : \A r \in rows[n] \cup bef[n] : r.time \in Nat /\ r.time <= c

\* No row is lost but to a newer one, or at the end of its source where stale
\* rows are deleted.
MayGo(in, n) == \E d \in ToSet(SpecsOf(in, FALSE).destination) : d.name = n /\ d.write = "overwrite-delete-stale"
KeptRows(in, end, rows, bef) ==
  \A n \in DOMAIN rows : \A r \in bef[n] : Covers(rows[n], r) \/ (r.source \in end /\ MayGo(in, n))
KeptInv(in, st, rd, i, end, rows, bef) ==
  KeptRows(in, end, rows, bef) /\ (st \in {"stale", "close", "report", "closeAll"} => rd.source[i].name \in end)

\* Sources before the i-th that were reported: their rows are there, unless a
\* stream broke and that was logged.
ReportedSources(c, rd, i, rep, log, rows) ==
  \A s \in DOMAIN rep : \E m \in 1..i - 1 :
    /\ m <= Len(rd.source) /\ s = rd.source[m].name
    /\ \A d \in ToSet(rd.destination) : d.name \in ToSet(rd.source[m].destinations) =>
         /\ <<s, d.name>> \in log \/ HasRows(rows[d.name], s, rep[s], c)
         /\ NoneStale(d, rows[d.name], s, c)

\* While protocol 1 closes its streams, the source is reported as well.
ReportsInv(in, c, st, rd, i, fet, rep, log, rows) ==
  /\ st \in {"specs", "check"} => rep = << >>
  /\ st \in SourceSteps \ {"closeAll"} => ReportedSources(c, rd, i, rep, log, rows)
  /\ st = "closeAll" => \E old : rep = Put(old, rd.source[i].name, fet) /\ ReportedSources(c, rd, i, old, log, rows)
  /\ st = "idle" =>
       /\ ReportedSources(c, SpecsOf(in, FALSE), Len(SpecsOf(in, FALSE).source) + 1, rep, log, rows)
       /\ rep # << >> => Fine(SpecsOf(in, FALSE))

CommandsInv ==
  /\ ControlInv(input, speaks, commands, command, cmdStage, reader, srcNo, dstNo)
  /\ StreamsInv(commands, cmdStage, reader, srcNo, dstNo, fetched, queues)
  /\ DeliveredInv(speaks, commands, cmdStage, reader, srcNo, dstNo, fetched, queues, failing, tableRows)
  /\ RowsInv(speaks, commands, tableRows, before)
  /\ KeptInv(input, cmdStage, reader, srcNo, ended, tableRows, before)
  /\ ReportsInv(input, commands, cmdStage, reader, srcNo, fetched, reported, logged, tableRows)

-----------------------------------------------------------------------------
(* Commands: documents that are selected. *)

SelectSteps(f, docs, names, n) ==
  f = [m \in 0..n |-> IF m = 0 THEN << >>
                      ELSE IF docs[m].name \in names THEN Append(f[m - 1], docs[m]) ELSE f[m - 1]]

LEMMA SelectStepsExist ==
  ASSUME NEW docs, NEW names, NEW n \in Nat
  PROVE  \E f : SelectSteps(f, docs, names, n)
<1> DEFINE T == {m \in 0..n : \E f : SelectSteps(f, docs, names, m)}
           Then(s, m) == IF docs[m].name \in names THEN Append(s, docs[m]) ELSE s
<1>0. \A f, m : SelectSteps(f, docs, names, m) <=> f = [l \in 0..m |-> IF l = 0 THEN << >> ELSE Then(f[l - 1], l)]
  BY DEF SelectSteps
<1> HIDE DEF Then
<1>1. 0 \in T
  <2> DEFINE g == [l \in 0..0 |-> << >>]
  <2>1. g = [l \in 0..0 |-> IF l = 0 THEN << >> ELSE Then(g[l - 1], l)]
    OBVIOUS
  <2> HIDE DEF g
  <2>2. SelectSteps(g, docs, names, 0)
    BY <1>0, <2>1
  <2> QED BY <2>2
<1>2. ASSUME NEW m \in 0..n, m < n, m \in T PROVE m + 1 \in T
  <2>1. PICK f : SelectSteps(f, docs, names, m)
    BY <1>2
  <2>2. f = [l \in 0..m |-> IF l = 0 THEN << >> ELSE Then(f[l - 1], l)]
    BY <1>0, <2>1
  <2> DEFINE g == [l \in 0..m + 1 |-> IF l = m + 1 THEN Then(f[m], m + 1) ELSE f[l]]
  <2>3. \A l \in 0..m : f[l] = IF l = 0 THEN << >> ELSE Then(f[l - 1], l)
    BY <2>2
  <2>4. ASSUME NEW l \in 0..m + 1 PROVE g[l] = IF l = 0 THEN << >> ELSE Then(g[l - 1], l)
    <3>1. CASE l = m + 1
      <4>1. g[l] = Then(f[m], m + 1) /\ g[l - 1] = f[m] /\ l # 0
        BY <3>1
      <4> QED BY <3>1, <4>1
    <3>2. CASE l # m + 1
      <4>1. l \in 0..m /\ g[l] = f[l] /\ (l # 0 => g[l - 1] = f[l - 1])
        BY <3>2
      <4> QED BY <2>3, <4>1
    <3> QED BY <3>1, <3>2
  <2>5. g = [l \in 0..m + 1 |-> g[l]]
    OBVIOUS
  <2> HIDE DEF g
  <2>6. g = [l \in 0..m + 1 |-> IF l = 0 THEN << >> ELSE Then(g[l - 1], l)]
    BY <2>4, <2>5
  <2>7. SelectSteps(g, docs, names, m + 1)
    <3> HIDE DEF T
    <3> QED BY <1>0, <2>6, Zenon
  <2>8. m + 1 \in 0..n
    BY <1>2
  <2> QED BY <2>7, <2>8
<1>3. T \in SUBSET (0..n)
  OBVIOUS
<1>4. n \in T
  <2> HIDE DEF T
  <2>1. T = 0..n
    BY <1>1, <1>2, <1>3, Upwards
  <2> QED BY <2>1
<1> QED BY <1>4

\* A list of documents of which no two have the same name.
NamedOnce(docs) ==
  /\ Len(docs) \in Nat /\ DOMAIN docs = 1..Len(docs)
  /\ \A i, k \in 1..Len(docs) : docs[i].name = docs[k].name => i = k

\* What is selected of the first m documents.
SelectedOf(s, docs, names, m) ==
  /\ s \in Seq({docs[i] : i \in 1..Len(docs)})
  /\ \A x \in 1..Len(s) : \E k \in 1..m : s[x] = docs[k] /\ docs[k].name \in names
  /\ \A k \in 1..m : docs[k].name \in names => \E x \in 1..Len(s) : s[x] = docs[k]
  /\ \A x, y \in 1..Len(s) : s[x].name = s[y].name => x = y

LEMMA SelectNext ==
  ASSUME NEW docs, NamedOnce(docs), NEW names, NEW s, NEW m \in 0..Len(docs), m < Len(docs), SelectedOf(s, docs, names, m)
  PROVE  SelectedOf(IF docs[m + 1].name \in names THEN Append(s, docs[m + 1]) ELSE s, docs, names, m + 1)
<1>0. Len(docs) \in Nat /\ m \in Nat /\ m + 1 \in 1..Len(docs) /\ 1..m + 1 = 1..m \cup {m + 1}
  BY DEF NamedOnce
<1>1. CASE docs[m + 1].name \in names
  <2> DEFINE S == {docs[i] : i \in 1..Len(docs)}
             e == docs[m + 1]
             t == Append(s, e)
  <2>1. e \in S /\ s \in Seq(S)
    BY <1>0 DEF SelectedOf
  <2>2. t \in Seq(S) /\ Len(t) = Len(s) + 1 /\ t[Len(s) + 1] = e /\ (\A x \in 1..Len(s) : t[x] = s[x]) /\ Len(s) \in Nat
    <3> HIDE DEF S, e
    <3> QED BY <2>1
  <2> HIDE DEF t
  <2>3. \A x \in 1..Len(t) : x \in 1..Len(s) \/ x = Len(s) + 1
    BY <2>2
  <2>4. \A x \in 1..Len(t) : \E k \in 1..m + 1 : t[x] = docs[k] /\ docs[k].name \in names
    <3> SUFFICES ASSUME NEW x \in 1..Len(t) PROVE \E k \in 1..m + 1 : t[x] = docs[k] /\ docs[k].name \in names
      OBVIOUS
    <3>1. CASE x = Len(s) + 1
      BY <1>0, <1>1, <2>2, <3>1
    <3>2. CASE x # Len(s) + 1
      <4>1. x \in 1..Len(s) /\ t[x] = s[x]
        BY <2>2, <2>3, <3>2
      <4>2. PICK k \in 1..m : s[x] = docs[k] /\ docs[k].name \in names
        BY <4>1 DEF SelectedOf
      <4> QED BY <1>0, <4>1, <4>2
    <3> QED BY <3>1, <3>2
  <2>5. \A k \in 1..m + 1 : docs[k].name \in names => \E x \in 1..Len(t) : t[x] = docs[k]
    <3> SUFFICES ASSUME NEW k \in 1..m + 1, docs[k].name \in names PROVE \E x \in 1..Len(t) : t[x] = docs[k]
      OBVIOUS
    <3>1. CASE k = m + 1
      <4>1. Len(s) + 1 \in 1..Len(t)
        BY <2>2
      <4> QED BY <2>2, <3>1, <4>1
    <3>2. CASE k # m + 1
      <4>1. PICK x \in 1..Len(s) : s[x] = docs[k]
        BY <1>0, <3>2 DEF SelectedOf
      <4>2. x \in 1..Len(t)
        BY <2>2
      <4> QED BY <2>2, <4>1, <4>2
    <3> QED BY <3>1, <3>2
  <2>6. \A x \in 1..Len(s) : s[x].name # e.name
    <3> SUFFICES ASSUME NEW x \in 1..Len(s), s[x].name = e.name PROVE FALSE
      OBVIOUS
    <3>1. PICK k \in 1..m : s[x] = docs[k]
      BY DEF SelectedOf
    <3>2. k \in 1..Len(docs) /\ k # m + 1
      BY <1>0
    <3> QED BY <1>0, <3>1, <3>2 DEF NamedOnce
  <2>7. \A x, y \in 1..Len(t) : t[x].name = t[y].name => x = y
    <3> HIDE DEF e
    <3> QED BY <2>2, <2>3, <2>6 DEF SelectedOf
  <2> HIDE DEF e
  <2>8. SelectedOf(t, docs, names, m + 1)
    BY <2>2, <2>4, <2>5, <2>7 DEF SelectedOf
  <2> QED BY <1>1, <2>8 DEF t, e
<1>2. CASE docs[m + 1].name \notin names
  <2>1. SelectedOf(s, docs, names, m + 1)
    BY <1>0, <1>2 DEF SelectedOf
  <2> QED BY <1>2, <2>1
<1> QED BY <1>1, <1>2

LEMMA SelectedIs ==
  ASSUME NEW docs, NamedOnce(docs), NEW names
  PROVE  SelectedOf(NamedDocs(docs, names), docs, names, Len(docs))
<1> DEFINE n == Len(docs)
           f == CHOOSE f : SelectSteps(f, docs, names, n)
           T == {m \in 0..n : SelectedOf(f[m], docs, names, m)}
<1>0. n \in Nat
  BY DEF NamedOnce
<1>1. NamedDocs(docs, names) = f[n]
  BY DEF NamedDocs, SelectSteps
<1>2. SelectSteps(f, docs, names, n)
  BY <1>0, SelectStepsExist
<1> HIDE DEF f
<1>3. \A m \in 0..n : f[m] = IF m = 0 THEN << >>
                             ELSE IF docs[m].name \in names THEN Append(f[m - 1], docs[m]) ELSE f[m - 1]
  BY <1>2 DEF SelectSteps
<1>4. 0 \in T
  <2>1. f[0] = << >>
    BY <1>0, <1>3
  <2>2. SelectedOf(<< >>, docs, names, 0)
    BY DEF SelectedOf
  <2> QED BY <1>0, <2>1, <2>2
<1>5. ASSUME NEW m \in 0..n, m < n, m \in T PROVE m + 1 \in T
  <2>1. SelectedOf(f[m], docs, names, m)
    BY <1>5
  <2>2. m + 1 \in 0..n /\ m + 1 # 0 /\ (m + 1) - 1 = m
    BY <1>0, <1>5
  <2>3. f[m + 1] = IF docs[m + 1].name \in names THEN Append(f[m], docs[m + 1]) ELSE f[m]
    BY <1>3, <2>2
  <2>4. SelectedOf(f[m + 1], docs, names, m + 1)
    BY <1>5, <2>1, <2>3, SelectNext
  <2> QED BY <2>2, <2>4
<1>6. T \in SUBSET (0..n)
  OBVIOUS
<1> HIDE DEF T
<1>7. T = 0..n
  BY <1>0, <1>4, <1>5, <1>6, Upwards
<1>8. n \in T
  BY <1>0, <1>7
<1> QED BY <1>1, <1>8 DEF T

-----------------------------------------------------------------------------
(* Commands: what the spec reader returns. *)

Given == {DocDefaults(d) : d \in Docs}
Readers == [error : BOOLEAN, source : Seq(Given), destination : Seq(Given), transformer : Seq(Given)]

LEMMA DefaultsKeep ==
  ASSUME NEW d \in Docs
  PROVE  /\ DocDefaults(d) \in Given
         /\ DocDefaults(d).kind = d.kind /\ DocDefaults(d).name = d.name
         /\ DocDefaults(d).destinations = d.destinations
<1> DEFINE x == [d EXCEPT !.registry = IF @ = "" THEN "cloudquery" ELSE @]
<1>1. DocDefaults(d) = x
  BY DEF DocDefaults
<1>2. {"kind", "name", "registry", "destinations"} \subseteq DOMAIN d
  BY CommandsAssumption
<1>3. x.kind = d.kind /\ x.name = d.name /\ x.destinations = d.destinations
  BY <1>2
<1> QED BY <1>1, <1>3 DEF Given

ReaderOf(e, s, d, t) == [error |-> e, source |-> s, destination |-> d, transformer |-> t]

\* What is changed of a reader.
LEMMA ReaderExcept ==
  ASSUME NEW e, NEW s, NEW d, NEW t, NEW x
  PROVE  /\ [ReaderOf(e, s, d, t) EXCEPT !.error = x] = ReaderOf(x, s, d, t)
         /\ [ReaderOf(e, s, d, t) EXCEPT !.source = x] = ReaderOf(e, x, d, t)
         /\ [ReaderOf(e, s, d, t) EXCEPT !.destination = x] = ReaderOf(e, s, x, t)
         /\ [ReaderOf(e, s, d, t) EXCEPT !.transformer = x] = ReaderOf(e, s, d, x)
<1>1. [ReaderOf(e, s, d, t) EXCEPT !.error = x] = ReaderOf(x, s, d, t)
  BY DEF ReaderOf
<1>2. [ReaderOf(e, s, d, t) EXCEPT !.source = x] = ReaderOf(e, x, d, t)
  BY DEF ReaderOf
<1>3. [ReaderOf(e, s, d, t) EXCEPT !.destination = x] = ReaderOf(e, s, x, t)
  BY DEF ReaderOf
<1>4. [ReaderOf(e, s, d, t) EXCEPT !.transformer = x] = ReaderOf(e, s, d, x)
  BY DEF ReaderOf
<1> QED BY <1>1, <1>2, <1>3, <1>4

LEMMA ReaderFields ==
  ASSUME NEW e, NEW s, NEW d, NEW t
  PROVE  LET u == ReaderOf(e, s, d, t)
         IN  /\ u.error = e /\ u.source = s /\ u.destination = d /\ u.transformer = t
             /\ u["source"] = s /\ u["destination"] = d /\ u["transformer"] = t
             /\ (e \in BOOLEAN /\ s \in Seq(Given) /\ d \in Seq(Given) /\ t \in Seq(Given) => u \in Readers)
BY DEF ReaderOf, Readers

LEMMA ReaderParts ==
  ASSUME NEW u \in Readers
  PROVE  \E e \in BOOLEAN, s \in Seq(Given), d \in Seq(Given), t \in Seq(Given) : u = ReaderOf(e, s, d, t)
BY DEF ReaderOf, Readers

\* The reader with one document more.
AddedTo(u, k, x) == [u EXCEPT ![k] = Append(@, x)]

LEMMA AddedIs ==
  ASSUME NEW u \in Readers, NEW k \in Kinds, NEW x \in Given
  PROVE  /\ AddedTo(u, k, x) \in Readers /\ AddedTo(u, k, x).error = u.error
         /\ AddedTo(u, k, x)[k] = Append(u[k], x) /\ u[k] \in Seq(Given)
         /\ \A l \in Kinds : l # k => AddedTo(u, k, x)[l] = u[l]
<1>0. PICK e \in BOOLEAN, s \in Seq(Given), d \in Seq(Given), t \in Seq(Given) : u = ReaderOf(e, s, d, t)
  BY ReaderParts
<1> DEFINE y == AddedTo(u, k, x) ss == Append(s, x) dd == Append(d, x) tt == Append(t, x)
<1>1. ss \in Seq(Given) /\ dd \in Seq(Given) /\ tt \in Seq(Given)
  OBVIOUS
<1>2. u.error = e /\ u.source = s /\ u.destination = d /\ u.transformer = t
      /\ u["source"] = s /\ u["destination"] = d /\ u["transformer"] = t
  BY <1>0, ReaderFields
<1>3. CASE k = "source"
  <2>1. AddedTo(u, k, x) = [u EXCEPT !.source = Append(u.source, x)]
    BY <1>3 DEF AddedTo
  <2>2. AddedTo(u, k, x) = [ReaderOf(e, s, d, t) EXCEPT !.source = ss]
    BY <1>0, <1>2, <2>1, Zenon DEF ss, dd, tt
  <2> HIDE DEF ss, dd, tt
  <2>3. y = ReaderOf(e, ss, d, t)
    BY <2>2 DEF ReaderOf
  <2> HIDE DEF y
  <2>4. y \in Readers /\ y.error = e /\ y["source"] = ss /\ y["destination"] = d /\ y["transformer"] = t
    BY <1>1, <2>3 DEF ReaderOf, Readers
  <2>5. y \in Readers /\ y.error = u.error /\ y[k] = Append(u[k], x) /\ u[k] \in Seq(Given)
        /\ \A l \in Kinds : l # k => y[l] = u[l]
    BY <1>2, <1>3, <2>4 DEF Kinds, ss
  <2> QED BY <2>5 DEF y
<1>4. CASE k = "destination"
  <2>1. AddedTo(u, k, x) = [u EXCEPT !.destination = Append(u.destination, x)]
    BY <1>4 DEF AddedTo
  <2>2. AddedTo(u, k, x) = [ReaderOf(e, s, d, t) EXCEPT !.destination = dd]
    BY <1>0, <1>2, <2>1, Zenon DEF ss, dd, tt
  <2> HIDE DEF ss, dd, tt
  <2>3. y = ReaderOf(e, s, dd, t)
    BY <2>2 DEF ReaderOf
  <2> HIDE DEF y
  <2>4. y \in Readers /\ y.error = e /\ y["source"] = s /\ y["destination"] = dd /\ y["transformer"] = t
    BY <1>1, <2>3 DEF ReaderOf, Readers
  <2>5. y \in Readers /\ y.error = u.error /\ y[k] = Append(u[k], x) /\ u[k] \in Seq(Given)
        /\ \A l \in Kinds : l # k => y[l] = u[l]
    BY <1>2, <1>4, <2>4 DEF Kinds, dd
  <2> QED BY <2>5 DEF y
<1>5. CASE k = "transformer"
  <2>1. AddedTo(u, k, x) = [u EXCEPT !.transformer = Append(u.transformer, x)]
    BY <1>5 DEF AddedTo
  <2>2. AddedTo(u, k, x) = [ReaderOf(e, s, d, t) EXCEPT !.transformer = tt]
    BY <1>0, <1>2, <2>1, Zenon DEF ss, dd, tt
  <2> HIDE DEF ss, dd, tt
  <2>3. y = ReaderOf(e, s, d, tt)
    BY <2>2 DEF ReaderOf
  <2> HIDE DEF y
  <2>4. y \in Readers /\ y.error = e /\ y["source"] = s /\ y["destination"] = d /\ y["transformer"] = tt
    BY <1>1, <2>3 DEF ReaderOf, Readers
  <2>5. y \in Readers /\ y.error = u.error /\ y[k] = Append(u[k], x) /\ u[k] \in Seq(Given)
        /\ \A l \in Kinds : l # k => y[l] = u[l]
    BY <1>2, <1>5, <2>4 DEF Kinds, tt
  <2> QED BY <2>5 DEF y
<1> QED BY <1>3, <1>4, <1>5 DEF Kinds

\* Every name once, and every document one that was accepted.
Accepted(x, k, relaxed) == \E d \in Docs : x = DocDefaults(d) /\ d.kind = k /\ ValidDoc(x, relaxed)
ReaderIs(u, relaxed) ==
  /\ u \in Readers
  /\ \A k \in Kinds : NamedOnce(u[k]) /\ \A i \in 1..Len(u[k]) : Accepted(u[k][i], k, relaxed)

Fails(u, doc, relaxed) ==
  \/ u.error \/ ~Expands(doc) \/ doc.kind \notin Kinds
  \/ DocDefaults(doc).name \in DocNames(u[DocDefaults(doc).kind]) \/ ~ValidDoc(DocDefaults(doc), relaxed)

LEMMA LoadSpecIs ==
  ASSUME NEW u, NEW doc, NEW relaxed
  PROVE  LoadSpec(u, doc, relaxed) = IF Fails(u, doc, relaxed) THEN [u EXCEPT !.error = TRUE]
                                     ELSE AddedTo(u, DocDefaults(doc).kind, DocDefaults(doc))
BY DEF LoadSpec, Fails, AddedTo

LEMMA ErrorIs ==
  ASSUME NEW u \in Readers, NEW b \in BOOLEAN
  PROVE  LET x == [u EXCEPT !.error = b]
         IN  x \in Readers /\ x.error = b /\ \A k \in Kinds : x[k] = u[k]
<1>1. PICK e \in BOOLEAN, s \in Seq(Given), d \in Seq(Given), t \in Seq(Given) : u = ReaderOf(e, s, d, t)
  BY ReaderParts
<1>2. [u EXCEPT !.error = b] = ReaderOf(b, s, d, t)
  BY <1>1, ReaderExcept
<1> QED BY <1>1, <1>2, ReaderFields DEF Kinds

LEMMA NamedAppend ==
  ASSUME NEW s \in Seq(Given), NamedOnce(s), NEW x \in Given, x.name \notin DocNames(s)
  PROVE  NamedOnce(Append(s, x))
<1> DEFINE t == Append(s, x) n == Len(s)
<1>1. n \in Nat /\ DOMAIN s = 1..n /\ t \in Seq(Given) /\ Len(t) = n + 1 /\ t[n + 1] = x
      /\ (\A i \in 1..n : t[i] = s[i]) /\ DOMAIN t = 1..n + 1
  OBVIOUS
<1>2. \A i \in 1..n : s[i].name # x.name
  BY <1>1 DEF DocNames, ToSet
<1> HIDE DEF t, n
<1>3. \A i \in 1..n + 1 : i = n + 1 \/ i \in 1..n
  BY <1>1
<1>4. \A i, k \in 1..n : s[i].name = s[k].name => i = k
  BY DEF NamedOnce, n
<1>5. NamedOnce(t)
  BY <1>1, <1>2, <1>3, <1>4 DEF NamedOnce
<1> QED BY <1>5 DEF t

LEMMA LoadSpecReads ==
  ASSUME NEW relaxed \in BOOLEAN, NEW u, ReaderIs(u, relaxed), NEW doc \in Docs
  PROVE  ReaderIs(LoadSpec(u, doc, relaxed), relaxed)
<1>1. CASE Fails(u, doc, relaxed)
  <2> DEFINE x == [u EXCEPT !.error = TRUE]
  <2>1. x \in Readers /\ \A k \in Kinds : x[k] = u[k]
    BY ErrorIs DEF ReaderIs
  <2>2. LoadSpec(u, doc, relaxed) = x
    BY <1>1, LoadSpecIs
  <2> HIDE DEF x
  <2> QED BY <2>1, <2>2 DEF ReaderIs
<1>2. CASE ~Fails(u, doc, relaxed)
  <2> DEFINE d == DocDefaults(doc) k == doc.kind x == AddedTo(u, k, d)
  <2>1. d \in Given /\ d.kind = k /\ d.name = doc.name
    BY DefaultsKeep
  <2>2. k \in Kinds /\ d.name \notin DocNames(u[k]) /\ ValidDoc(d, relaxed)
    BY <1>2, <2>1 DEF Fails
  <2>3. LoadSpec(u, doc, relaxed) = x
    BY <1>2, <2>1, LoadSpecIs
  <2>4. Accepted(d, k, relaxed)
    BY <2>2 DEF Accepted
  <2> HIDE DEF d, k, x
  <2>5. x \in Readers /\ x[k] = Append(u[k], d) /\ u[k] \in Seq(Given) /\ \A l \in Kinds : l # k => x[l] = u[l]
    BY <2>1, <2>2, AddedIs DEF x, ReaderIs
  <2>6. NamedOnce(x[k])
    BY <2>1, <2>2, <2>5, NamedAppend DEF ReaderIs
  <2>7. \A i \in 1..Len(x[k]) : Accepted(x[k][i], k, relaxed)
    <3> DEFINE s == u[k]
    <3>1. s \in Seq(Given) /\ x[k] = Append(s, d) /\ \A i \in 1..Len(s) : Accepted(s[i], k, relaxed)
      BY <2>2, <2>5 DEF ReaderIs
    <3> HIDE DEF s
    <3>2. \A i \in 1..Len(Append(s, d)) : Append(s, d)[i] = IF i \in 1..Len(s) THEN s[i] ELSE d
      BY <2>1, <3>1
    <3> QED BY <2>4, <3>1, <3>2
  <2>8. ASSUME NEW l \in Kinds PROVE NamedOnce(x[l]) /\ \A i \in 1..Len(x[l]) : Accepted(x[l][i], l, relaxed)
    <3>1. CASE l = k
      BY <2>6, <2>7, <3>1
    <3>2. CASE l # k
      BY <2>5, <3>2 DEF ReaderIs
    <3> QED BY <3>1, <3>2
  <2> QED BY <2>3, <2>5, <2>8 DEF ReaderIs
<1> QED BY <1>1, <1>2

\* What is accepted is accepted for commands that are less strict as well.
LEMMA LoadSpecSame ==
  ASSUME NEW u \in Readers, NEW doc \in Docs
  PROVE  LoadSpec(u, doc, FALSE).error \/ LoadSpec(u, doc, TRUE) = LoadSpec(u, doc, FALSE)
<1>1. CASE Fails(u, doc, FALSE)
  <2>1. [u EXCEPT !.error = TRUE].error = TRUE
    BY ErrorIs
  <2> QED BY <1>1, <2>1, LoadSpecIs
<1>2. CASE ~Fails(u, doc, FALSE)
  <2>1. ~Fails(u, doc, TRUE)
    BY <1>2 DEF Fails, ValidDoc
  <2> QED BY <1>2, <2>1, LoadSpecIs
<1> QED BY <1>1, <1>2

ReadStep(docs, relaxed, f, r) == IF r = {} THEN NewReader ELSE LoadSpec(f[r \ {Max(r)}], docs[Max(r)], relaxed)
ReadSteps(docs, relaxed, f) == f = [r \in SUBSET DOMAIN docs |-> ReadStep(docs, relaxed, f, r)]
ReadAll(docs, relaxed) == FoldLeft(LAMBDA u, doc : LoadSpec(u, doc, relaxed), NewReader, docs)

LEMMA NothingRead == \A relaxed \in BOOLEAN : ReaderIs(NewReader, relaxed)
<1>1. NewReader = ReaderOf(FALSE, << >>, << >>, << >>)
  BY DEF NewReader, ReaderOf
<1>2. << >> \in Seq(Given)
  OBVIOUS
<1>3. NamedOnce(<< >>) /\ Len(<< >>) = 0
  BY DEF NamedOnce
<1>4. NewReader \in Readers /\ \A k \in Kinds : NewReader[k] = << >>
  BY <1>1, <1>2 DEF Readers, Kinds, ReaderOf
<1> QED BY <1>3, <1>4 DEF ReaderIs

Loading(relaxed) == [x \in Readers \X Docs |-> LoadSpec(x[1], x[2], relaxed)]

LEMMA LoadingIs ==
  ASSUME NEW relaxed \in BOOLEAN, NEW u \in Readers, NEW doc \in Docs
  PROVE  Loading(relaxed)[<<u, doc>>] = LoadSpec(u, doc, relaxed)
BY DEF Loading

LEMMA LoadSpecIn ==
  ASSUME NEW relaxed \in BOOLEAN, NEW u \in Readers, NEW doc \in Docs
  PROVE  LoadSpec(u, doc, relaxed) \in Readers
<1>1. CASE Fails(u, doc, relaxed)
  BY <1>1, LoadSpecIs, ErrorIs
<1>2. CASE ~Fails(u, doc, relaxed)
  <2>1. DocDefaults(doc) \in Given /\ DocDefaults(doc).kind = doc.kind /\ doc.kind \in Kinds
    BY <1>2, DefaultsKeep DEF Fails
  <2> QED BY <1>2, <2>1, LoadSpecIs, AddedIs
<1> QED BY <1>1, <1>2

LEMMA ReadAllIs ==
  ASSUME NEW docs \in Seq(Docs), NEW relaxed \in BOOLEAN
  PROVE  \E f : ReadSteps(docs, relaxed, f) /\ ReadAll(docs, relaxed) = f[DOMAIN docs]
<1> DEFINE f == CHOOSE f : ReadSteps(docs, relaxed, f)
<1>1. ReadAll(docs, relaxed) = f[DOMAIN docs]
  BY DEF ReadAll, FoldLeft, MapThenFoldSet, ReadSteps, ReadStep
<1>2. PICK h : Folds(h, Loading(relaxed), NewReader, docs)
  BY FoldsExist
<1>3. NewReader \in Readers
  BY NothingRead DEF ReaderIs
<1>4. Loading(relaxed) \in [Readers \X Docs -> Readers]
  BY LoadSpecIn DEF Loading
<1>5. ASSUME NEW r \in SUBSET DOMAIN docs PROVE h[r] = ReadStep(docs, relaxed, h, r)
  <2>1. h[r] = StepOf(h, Loading(relaxed), NewReader, docs, r)
    BY <1>2, FoldsAt
  <2>2. CASE r = {}
    BY <2>1, <2>2 DEF StepOf, ReadStep
  <2>3. CASE r # {}
    <3> DEFINE p == r \ {Max(r)} m == docs[Max(r)]
    <3>1. p \in SUBSET DOMAIN docs /\ m \in Docs
      BY <2>3, LastPosition
    <3> HIDE DEF p, m
    <3>2. h[p] \in Readers
      BY <1>2, <1>3, <1>4, <3>1, FoldsIn
    <3>3. Loading(relaxed)[<<h[p], m>>] = LoadSpec(h[p], m, relaxed)
      BY <3>1, <3>2, LoadingIs
    <3> QED BY <2>1, <2>3, <3>3 DEF StepOf, ReadStep, p, m
  <2> QED BY <2>2, <2>3
<1>6. h = [r \in SUBSET DOMAIN docs |-> h[r]]
  BY <1>2 DEF Folds
<1>7. ReadSteps(docs, relaxed, h)
  BY <1>5, <1>6 DEF ReadSteps
<1>8. ReadSteps(docs, relaxed, f)
  BY <1>7
<1> QED BY <1>1, <1>8

\* The relation of what a strict and a less strict reader have read.
BothRead(u, w) == ReaderIs(u, FALSE) /\ ReaderIs(w, TRUE) /\ (u.error \/ u = w)

LEMMA BothReadNext ==
  ASSUME NEW u, NEW w, BothRead(u, w), NEW doc \in Docs
  PROVE  BothRead(LoadSpec(u, doc, FALSE), LoadSpec(w, doc, TRUE))
<1>1. ReaderIs(LoadSpec(u, doc, FALSE), FALSE) /\ ReaderIs(LoadSpec(w, doc, TRUE), TRUE)
  BY LoadSpecReads DEF BothRead
<1>2. u \in Readers
  BY DEF BothRead, ReaderIs
<1>3. CASE u.error
  <2>1. Fails(u, doc, FALSE)
    BY <1>3 DEF Fails
  <2>2. LoadSpec(u, doc, FALSE).error = TRUE
    BY <1>2, <2>1, LoadSpecIs, ErrorIs
  <2> QED BY <1>1, <2>2 DEF BothRead
<1>4. CASE ~u.error
  <2>1. w = u
    BY <1>4 DEF BothRead
  <2> QED BY <1>1, <1>2, <2>1, LoadSpecSame DEF BothRead
<1> QED BY <1>3, <1>4

LEMMA AllRead ==
  ASSUME NEW docs \in Seq(Docs)
  PROVE  BothRead(ReadAll(docs, FALSE), ReadAll(docs, TRUE))
<1>1. PICK f : ReadSteps(docs, FALSE, f) /\ ReadAll(docs, FALSE) = f[DOMAIN docs]
  BY ReadAllIs
<1>2. PICK g : ReadSteps(docs, TRUE, g) /\ ReadAll(docs, TRUE) = g[DOMAIN docs]
  BY ReadAllIs
<1>3. \A r \in SUBSET DOMAIN docs : f[r] = ReadStep(docs, FALSE, f, r) /\ g[r] = ReadStep(docs, TRUE, g, r)
  <2>1. f = [r \in SUBSET DOMAIN docs |-> ReadStep(docs, FALSE, f, r)]
    BY <1>1 DEF ReadSteps
  <2>2. g = [r \in SUBSET DOMAIN docs |-> ReadStep(docs, TRUE, g, r)]
    BY <1>2 DEF ReadSteps
  <2>3. \A r \in SUBSET DOMAIN docs : f[r] = ReadStep(docs, FALSE, f, r)
    BY <2>1
  <2>4. \A r \in SUBSET DOMAIN docs : g[r] = ReadStep(docs, TRUE, g, r)
    BY <2>2
  <2> QED BY <2>3, <2>4
<1> DEFINE T == {r \in SUBSET DOMAIN docs : ~BothRead(f[r], g[r])}
<1>4. IsFiniteSet(DOMAIN docs)
  <2>1. Len(docs) \in Nat /\ DOMAIN docs = 1..Len(docs)
    OBVIOUS
  <2> QED BY <2>1, FS_Interval
<1>5. ASSUME T # {} PROVE FALSE
  <2>1. PICK r \in T : \A p \in T : p \subseteq r => p = r
    <3>1. T \subseteq SUBSET DOMAIN docs
      OBVIOUS
    <3> HIDE DEF T
    <3> QED BY <1>4, <1>5, <3>1, SmallestSet
  <2>2. r \in SUBSET DOMAIN docs /\ ~BothRead(f[r], g[r])
    BY <2>1
  <2>3. r # {}
    <3>1. ASSUME r = {} PROVE FALSE
      <4>1. f[r] = NewReader /\ g[r] = NewReader
        BY <1>3, <2>2, <3>1 DEF ReadStep
      <4>2. BothRead(NewReader, NewReader)
        BY NothingRead DEF BothRead
      <4> QED BY <2>2, <4>1, <4>2
    <3> QED BY <3>1
  <2> DEFINE p == r \ {Max(r)} m == docs[Max(r)]
  <2>4. Max(r) \in r /\ p \in SUBSET DOMAIN docs /\ m \in Docs
    BY <2>2, <2>3, LastPosition
  <2>5. BothRead(f[p], g[p])
    BY <2>1, <2>4
  <2>6. f[r] = LoadSpec(f[p], m, FALSE) /\ g[r] = LoadSpec(g[p], m, TRUE)
    BY <1>3, <2>2, <2>3 DEF ReadStep
  <2> HIDE DEF p, m
  <2> QED BY <2>2, <2>4, <2>5, <2>6, BothReadNext
<1>6. DOMAIN docs \in SUBSET DOMAIN docs
  OBVIOUS
<1> QED BY <1>1, <1>2, <1>5, <1>6

PathSet == [dir : BOOLEAN, files : Seq([yaml : BOOLEAN, hidden : BOOLEAN, docs : Seq(Docs)])]

LEMMA LoadSpecsIn ==
  ASSUME NEW path \in PathSet
  PROVE  LoadSpecs(path) \in Seq(Docs)
<1> DEFINE files == path.files n == Len(files)
           Part(i) == IF path.dir /\ (files[i].hidden \/ ~files[i].yaml) THEN << >> ELSE files[i].docs
           s == [i \in DOMAIN files |-> Part(i)]
<1>1. files \in Seq([yaml : BOOLEAN, hidden : BOOLEAN, docs : Seq(Docs)])
  BY DEF PathSet
<1> HIDE DEF files
<1>2. n \in Nat /\ DOMAIN files = 1..n /\ \A i \in 1..n : files[i].docs \in Seq(Docs)
  <2> DEFINE F == [yaml : BOOLEAN, hidden : BOOLEAN, docs : Seq(Docs)]
  <2>1. files \in Seq(F) /\ \A f \in F : f.docs \in Seq(Docs)
    BY <1>1
  <2> HIDE DEF F
  <2>2. n \in Nat /\ DOMAIN files = 1..n /\ \A i \in 1..n : files[i] \in F
    BY <2>1
  <2> QED BY <2>1, <2>2
<1>3. \A i \in 1..n : Part(i) \in Seq(Docs)
  <2> TAKE i \in 1..n
  <2>1. files[i].docs \in Seq(Docs) /\ << >> \in Seq(Docs)
    BY <1>2
  <2> QED BY <2>1
<1> HIDE DEF n, Part
<1>4. s = [i \in 1..n |-> s[i]] /\ \A i \in 1..n : s[i] \in Seq(Docs)
  BY <1>2, <1>3
<1>5. LoadSpecs(path) = FlattenSeq(s)
  BY DEF LoadSpecs, files, Part
<1> HIDE DEF s
<1> QED BY <1>2, <1>4, <1>5, FlattenIn

LEMMA AllSpecsIn ==
  ASSUME NEW paths \in Inputs
  PROVE  AllSpecs(paths) \in Seq(Docs)
<1> DEFINE n == Len(paths) s == [i \in DOMAIN paths |-> LoadSpecs(paths[i])]
<1>1. paths \in Seq(PathSet)
  BY CommandsAssumption DEF PathSet
<1>2. n \in Nat /\ DOMAIN paths = 1..n /\ \A i \in 1..n : paths[i] \in PathSet
  BY <1>1
<1> HIDE DEF n
<1>3. \A i \in 1..n : LoadSpecs(paths[i]) \in Seq(Docs)
  BY <1>2, LoadSpecsIn
<1>4. s = [i \in 1..n |-> s[i]] /\ \A i \in 1..n : s[i] \in Seq(Docs)
  BY <1>2, <1>3
<1>5. AllSpecs(paths) = FlattenSeq(s)
  BY DEF AllSpecs
<1> HIDE DEF s
<1> QED BY <1>2, <1>4, <1>5, FlattenIn

\* The lists of a reader.
Lists(u) == <<u.source, u.destination, u.transformer>>

LEMMA SpecsOfIs ==
  ASSUME NEW in \in Inputs, NEW relaxed \in BOOLEAN
  PROVE  /\ BothRead(Initialize(in, FALSE), Initialize(in, TRUE))
         /\ Lists(SpecsOf(in, relaxed)) = Lists(Initialize(in, relaxed))
         /\ SpecsOf(in, FALSE).error <=> Initialize(in, FALSE).error \/ ~ValidateSpecs(Initialize(in, FALSE))
<1>1. BothRead(Initialize(in, FALSE), Initialize(in, TRUE))
  <2>1. Initialize(in, FALSE) = ReadAll(AllSpecs(in), FALSE) /\ Initialize(in, TRUE) = ReadAll(AllSpecs(in), TRUE)
    BY DEF Initialize, ReadAll
  <2> QED BY <2>1, AllSpecsIn, AllRead
<1>2. Initialize(in, FALSE) \in Readers /\ Initialize(in, TRUE) \in Readers
  BY <1>1 DEF BothRead, ReaderIs
<1>3. ASSUME NEW rel \in BOOLEAN
      PROVE  /\ Lists(SpecsOf(in, rel)) = Lists(Initialize(in, rel))
             /\ SpecsOf(in, rel).error <=>
                  Initialize(in, rel).error \/ ~(IF rel THEN RelaxedValidate(Initialize(in, rel)) ELSE ValidateSpecs(Initialize(in, rel)))
  <2> DEFINE u == Initialize(in, rel)
             b == u.error \/ ~(IF rel THEN RelaxedValidate(u) ELSE ValidateSpecs(u))
             x == [u EXCEPT !.error = b]
  <2>1. SpecsOf(in, rel) = x
    BY DEF SpecsOf
  <2>2. u \in Readers /\ b \in BOOLEAN
    BY <1>2
  <2> HIDE DEF u, b
  <2>3. x.error = b /\ \A k \in Kinds : x[k] = u[k]
    BY <2>2, ErrorIs
  <2> HIDE DEF x
  <2>4. x["source"] = u["source"] /\ x["destination"] = u["destination"] /\ x["transformer"] = u["transformer"]
    BY <2>3 DEF Kinds
  <2>5. Lists(x) = Lists(u)
    BY <2>4 DEF Lists
  <2> QED BY <2>1, <2>3, <2>5 DEF u, b
<1>4. SpecsOf(in, FALSE).error <=> Initialize(in, FALSE).error \/ ~ValidateSpecs(Initialize(in, FALSE))
  BY <1>3
<1> QED BY <1>1, <1>3, <1>4

\* What they have accepted.
SoundSpecs(rd, sp) ==
  /\ NamedOnce(rd.source) /\ NamedOnce(rd.destination) /\ NamedOnce(rd.transformer)
  /\ \A d \in ToSet(rd.destination) : d.name \in DOMAIN sp["destination"]
  /\ \A s \in ToSet(rd.source) : /\ s.destinations \in Seq(STRING) /\ s.destinations # << >>
                                 /\ ToSet(s.destinations) \subseteq DocNames(rd.destination)
  /\ \A d \in ToSet(rd.destination) : ToSet(d.transformers) \subseteq DocNames(rd.transformer)

LEMMA SpecsAreSound ==
  ASSUME NEW in \in Inputs, NEW sp \in Speaks, ~SpecsOf(in, FALSE).error
  PROVE  SoundSpecs(SpecsOf(in, FALSE), sp)
<1> DEFINE u == Initialize(in, FALSE) rd == SpecsOf(in, FALSE)
<1>1. ReaderIs(u, FALSE) /\ ValidateSpecs(u)
  BY SpecsOfIs DEF BothRead
<1>2. rd.source = u.source /\ rd.destination = u.destination /\ rd.transformer = u.transformer
  BY SpecsOfIs DEF Lists
<1> HIDE DEF u, rd
<1>3. /\ NamedOnce(u["source"]) /\ NamedOnce(u["destination"]) /\ NamedOnce(u["transformer"])
      /\ \A i \in 1..Len(u["source"]) : Accepted(u["source"][i], "source", FALSE)
      /\ \A i \in 1..Len(u["destination"]) : Accepted(u["destination"][i], "destination", FALSE)
  BY <1>1 DEF ReaderIs, Kinds
<1>4. NamedOnce(rd.source) /\ NamedOnce(rd.destination) /\ NamedOnce(rd.transformer)
  BY <1>2, <1>3
<1>5. (\A s \in ToSet(rd.source) : Accepted(s, "source", FALSE))
      /\ \A d \in ToSet(rd.destination) : Accepted(d, "destination", FALSE)
  <2>1. u["source"] = rd.source /\ u["destination"] = rd.destination
    BY <1>2
  <2>2. ToSet(rd.source) = {rd.source[i] : i \in 1..Len(rd.source)}
        /\ ToSet(rd.destination) = {rd.destination[i] : i \in 1..Len(rd.destination)}
    BY <1>4 DEF ToSet, NamedOnce
  <2> QED BY <1>3, <2>1, <2>2
<1>6. ASSUME NEW d \in ToSet(rd.destination) PROVE d.name \in DOMAIN sp["destination"]
  <2>1. PICK doc \in Docs : d = DocDefaults(doc) /\ doc.kind = "destination"
    BY <1>5 DEF Accepted
  <2>2. d.name = doc.name
    BY <2>1, DefaultsKeep
  <2> QED BY <2>1, <2>2, CommandsAssumption
<1>7. ASSUME NEW s \in ToSet(rd.source) PROVE s.destinations \in Seq(STRING) /\ s.destinations # << >>
  <2>1. PICK doc \in Docs : s = DocDefaults(doc) /\ doc.kind = "source" /\ ValidDoc(s, FALSE)
    BY <1>5 DEF Accepted
  <2>2. s.destinations = doc.destinations /\ s.kind = "source"
    BY <2>1, DefaultsKeep
  <2>3. s.destinations # << >>
    BY <2>1, <2>2 DEF ValidDoc
  <2>4. doc.destinations \in Seq(STRING)
    BY CommandsAssumption
  <2> QED BY <2>2, <2>3, <2>4
<1>8. \A s \in ToSet(rd.source) : ToSet(s.destinations) \subseteq DocNames(rd.destination)
  BY <1>1, <1>2 DEF ValidateSpecs
<1>9. \A d \in ToSet(rd.destination) : ToSet(d.transformers) \subseteq DocNames(rd.transformer)
  BY <1>1, <1>2 DEF ValidateSpecs
<1> QED BY <1>4, <1>6, <1>7, <1>8, <1>9 DEF SoundSpecs, rd

\* The destinations of a source: each once, and at least one.
DestsAre(rd, i) ==
  LET ds == DestsOf(rd, i) IN
  /\ Len(ds) \in Nat \ {0} /\ DOMAIN ds = 1..Len(ds)
  /\ \A m \in 1..Len(ds) : ds[m] \in ToSet(rd.destination) /\ ds[m].name \in ToSet(rd.source[i].destinations)
  /\ \A d \in ToSet(rd.destination) : d.name \in ToSet(rd.source[i].destinations) => \E m \in 1..Len(ds) : ds[m] = d
  /\ \A m, l \in 1..Len(ds) : ds[m].name = ds[l].name => m = l
  /\ \A d, e \in ToSet(rd.destination) : d.name = e.name => d = e

LEMMA DestsAreOnce ==
  ASSUME NEW rd, NEW sp, SoundSpecs(rd, sp), NEW i \in 1..Len(rd.source)
  PROVE  DestsAre(rd, i)
<1> DEFINE docs == rd.destination names == ToSet(rd.source[i].destinations) ds == NamedDocs(docs, names)
<1>1. NamedOnce(docs) /\ SelectedOf(ds, docs, names, Len(docs))
  BY SelectedIs DEF SoundSpecs
<1>2. rd.source[i] \in ToSet(rd.source)
  BY DEF SoundSpecs, NamedOnce, ToSet
<1>3. names # {} /\ names \subseteq DocNames(docs)
  <2>1. rd.source[i].destinations \in Seq(STRING) /\ rd.source[i].destinations # << >>
    BY <1>2 DEF SoundSpecs
  <2>2. rd.source[i].destinations[1] \in names
    BY <2>1 DEF ToSet
  <2> QED BY <1>2, <2>2 DEF SoundSpecs
<1> HIDE DEF docs, names, ds
<1>4. ToSet(docs) = {docs[k] : k \in 1..Len(docs)}
  BY <1>1 DEF NamedOnce, ToSet
<1>5. Len(ds) \in Nat /\ DOMAIN ds = 1..Len(ds)
  BY <1>1 DEF SelectedOf
<1>6. \A m \in 1..Len(ds) : ds[m] \in ToSet(docs) /\ ds[m].name \in names
  BY <1>1, <1>4 DEF SelectedOf
<1>7. ASSUME NEW d \in ToSet(docs), d.name \in names PROVE \E m \in 1..Len(ds) : ds[m] = d
  <2>1. PICK k \in 1..Len(docs) : d = docs[k]
    BY <1>4
  <2> QED BY <1>1, <1>7, <2>1 DEF SelectedOf
<1>8. Len(ds) # 0
  <2>1. PICK n \in names : TRUE
    BY <1>3
  <2>2. PICK d \in ToSet(docs) : d.name = n
    BY <1>3, <2>1 DEF DocNames
  <2>3. PICK m \in 1..Len(ds) : ds[m] = d
    BY <1>7, <2>1, <2>2
  <2> QED BY <1>5, <2>3
<1>9. \A m, l \in 1..Len(ds) : ds[m].name = ds[l].name => m = l
  BY <1>1 DEF SelectedOf
<1>10. \A d, e \in ToSet(docs) : d.name = e.name => d = e
  BY <1>1, <1>4 DEF NamedOnce
<1> QED BY <1>5, <1>6, <1>7, <1>8, <1>9, <1>10 DEF DestsAre, DestsOf, docs, names, ds

-----------------------------------------------------------------------------
(* Commands: rows. *)

\* Rows of s are added or go, those of others do not change.
SameElse(new, old, s) == \A r : r.source # s => (r \in new <=> r \in old)
Touches(new, old, s, c) ==
  SameElse(new, old, s) /\ \A r \in new : r \in old \/ \E k : r = RowOf(s, k, c)

\* Rows go for newer ones of their key.
Grows(new, old, s, c) ==
  /\ Touches(new, old, s, c)
  /\ \A k : RowOf(s, k, c) \in old => RowOf(s, k, c) \in new
  /\ \A r \in old : r \in new \/ \E w \in new : w.source = r.source /\ w.key = r.key /\ w.time = c

LEMMA RowIs == \A s, k, c : RowOf(s, k, c).source = s /\ RowOf(s, k, c).key = k /\ RowOf(s, k, c).time = c
BY DEF RowOf

LEMMA GrowsNot == \A rows, s, c : Grows(rows, rows, s, c)
BY DEF Grows, Touches, SameElse

LEMMA StoreGrows ==
  ASSUME NEW d, NEW s, NEW c, NEW rows, \A r \in rows : \E k : r = RowOf(s, k, c), NEW old
  PROVE  Grows(Store(d, rows, old), old, s, c) /\ rows \subseteq Store(d, rows, old)
<1> DEFINE new == Store(d, rows, old)
           gone == {r \in old : \E n \in rows : n.source = r.source /\ n.key = r.key}
<1>1. \A r : r \in new => r \in rows \/ r \in old
  BY DEF Store
<1>2. rows \subseteq new
  BY DEF Store
<1>3. \A r \in old : r \in new \/ \E w \in rows : w.source = r.source /\ w.key = r.key
  BY DEF Store
<1> HIDE DEF new
<1>4. \A r \in rows : r.source = s /\ r.time = c /\ r = RowOf(s, r.key, c)
  BY RowIs
<1>5. SameElse(new, old, s)
  BY <1>1, <1>3, <1>4 DEF SameElse
<1>6. \A r \in new : r \in old \/ \E k : r = RowOf(s, k, c)
  BY <1>1
<1>7. ASSUME NEW k, RowOf(s, k, c) \in old PROVE RowOf(s, k, c) \in new
  <2>1. SUFFICES ASSUME NEW w \in rows, w.source = RowOf(s, k, c).source, w.key = RowOf(s, k, c).key
                 PROVE  RowOf(s, k, c) \in new
    BY <1>3, <1>7
  <2>2. w = RowOf(s, k, c)
    BY <1>4, <2>1, RowIs
  <2> QED BY <1>2, <2>2
<1>8. \A r \in old : r \in new \/ \E w \in new : w.source = r.source /\ w.key = r.key /\ w.time = c
  BY <1>2, <1>3, <1>4
<1> QED BY <1>2, <1>5, <1>6, <1>7, <1>8 DEF Grows, Touches, new

LEMMA TouchesAgain ==
  ASSUME NEW s, NEW c, NEW new, NEW mid, NEW old, Touches(new, mid, s, c), Touches(mid, old, s, c)
  PROVE  Touches(new, old, s, c)
<1>1. SameElse(new, old, s)
  BY DEF Touches, SameElse
<1>2. \A r \in new : r \in old \/ \E k : r = RowOf(s, k, c)
  BY DEF Touches
<1> QED BY <1>1, <1>2 DEF Touches

LEMMA GrowsKeeps ==
  ASSUME NEW s, NEW c \in Nat, NEW new, NEW old, Grows(new, old, s, c), NEW keys, NEW d
  PROVE  /\ HasRows(old, s, keys, c) => HasRows(new, s, keys, c)
         /\ NoneStale(d, old, s, c) => NoneStale(d, new, s, c)
         /\ \A r : r.time \in Nat /\ r.time <= c /\ Covers(old, r) => Covers(new, r)
<1>1. HasRows(old, s, keys, c) => HasRows(new, s, keys, c)
  BY DEF Grows, HasRows
<1>2. NoneStale(d, old, s, c) => NoneStale(d, new, s, c)
  BY RowIs DEF Grows, Touches, NoneStale
<1>3. ASSUME NEW r, r.time \in Nat, r.time <= c, Covers(old, r) PROVE Covers(new, r)
  <2>1. PICK w \in old : w.source = r.source /\ w.key = r.key /\ w.time >= r.time
    BY <1>3 DEF Covers
  <2>2. w \in new \/ \E v \in new : v.source = w.source /\ v.key = w.key /\ v.time = c
    BY DEF Grows
  <2>3. CASE w \in new
    BY <2>1, <2>3 DEF Covers
  <2>4. ASSUME NEW v \in new, v.source = w.source, v.key = w.key, v.time = c PROVE Covers(new, r)
    BY <1>3, <2>1, <2>4 DEF Covers
  <2> QED BY <2>2, <2>3, <2>4
<1> QED BY <1>1, <1>2, <1>3

\* What is true of another source stays so.
LEMMA TouchesKeeps ==
  ASSUME NEW s, NEW c, NEW new, NEW old, Touches(new, old, s, c), NEW z, z # s, NEW keys, NEW d, NEW r
  PROVE  /\ HasRows(old, z, keys, c) => HasRows(new, z, keys, c)
         /\ NoneStale(d, old, z, c) => NoneStale(d, new, z, c)
         /\ r.source # s /\ Covers(old, r) => Covers(new, r)
<1>1. HasRows(old, z, keys, c) => HasRows(new, z, keys, c)
  BY RowIs DEF Touches, SameElse, HasRows
<1>2. NoneStale(d, old, z, c) => NoneStale(d, new, z, c)
  BY DEF Touches, SameElse, NoneStale
<1>3. r.source # s /\ Covers(old, r) => Covers(new, r)
  BY DEF Touches, SameElse, Covers
<1> QED BY <1>1, <1>2, <1>3

-----------------------------------------------------------------------------
(* The invariants about rows, when rows change. *)

RowsTouched(new, old, s, c) ==
  new = [n \in DOMAIN old |-> new[n]] /\ \A n \in DOMAIN old : Touches(new[n], old[n], s, c)
RowsGrow(new, old, s, c) ==
  new = [n \in DOMAIN old |-> new[n]] /\ \A n \in DOMAIN old : Grows(new[n], old[n], s, c)

LEMMA GrowIsTouch == \A new, old, s, c : RowsGrow(new, old, s, c) => RowsTouched(new, old, s, c)
BY DEF RowsGrow, RowsTouched, Grows

LEMMA NoRowsGrow == \A rows, s, c, N : rows = [n \in N |-> rows[n]] => RowsGrow(rows, rows, s, c)
<1> TAKE rows, s, c, N
<1> HAVE rows = [n \in N |-> rows[n]]
<1>1. DOMAIN rows = N
  OBVIOUS
<1> QED BY <1>1, GrowsNot DEF RowsGrow

LEMMA RowsStay ==
  ASSUME NEW sp, NEW c \in Nat, NEW rows, NEW bef, RowsInv(sp, c, rows, bef), NEW s, NEW new, RowsTouched(new, rows, s, c)
  PROVE  RowsInv(sp, c, new, bef)
<1>1. DOMAIN rows = DOMAIN sp["destination"] /\ DOMAIN bef = DOMAIN rows /\ DOMAIN new = DOMAIN rows
  BY DEF RowsInv, RowsTouched
<1>2. ASSUME NEW n \in DOMAIN rows, NEW r \in new[n] \cup bef[n] PROVE r.time \in Nat /\ r.time <= c
  <2>1. CASE r \in rows[n] \cup bef[n]
    BY <2>1 DEF RowsInv
  <2>2. CASE r \notin rows[n] \cup bef[n]
    <3>1. PICK k : r = RowOf(s, k, c)
      BY <1>2, <2>2 DEF RowsTouched, Touches
    <3> QED BY <3>1, RowIs
  <2> QED BY <2>1, <2>2
<1> QED BY <1>1, <1>2 DEF RowsInv, RowsTouched

LEMMA KeptGrows ==
  ASSUME NEW sp, NEW c \in Nat, NEW rows, NEW bef, RowsInv(sp, c, rows, bef), NEW s, NEW new, RowsGrow(new, rows, s, c),
         NEW in, NEW end, KeptRows(in, end, rows, bef)
  PROVE  KeptRows(in, end, new, bef)
<1>1. DOMAIN new = DOMAIN rows
  BY DEF RowsGrow
<1>2. ASSUME NEW n \in DOMAIN rows, NEW r \in bef[n], ~(r.source \in end /\ MayGo(in, n)) PROVE Covers(new[n], r)
  <2>1. Covers(rows[n], r) /\ r.time \in Nat /\ r.time <= c
    BY <1>2 DEF KeptRows, RowsInv
  <2>2. Grows(new[n], rows[n], s, c)
    BY DEF RowsGrow
  <2> QED BY <2>1, <2>2, GrowsKeeps
<1> QED BY <1>1, <1>2 DEF KeptRows

LEMMA KeptTouched ==
  ASSUME NEW sp, NEW c \in Nat, NEW rows, NEW bef, RowsInv(sp, c, rows, bef), NEW s, NEW new, RowsTouched(new, rows, s, c),
         NEW in, \A n \in DOMAIN rows : MayGo(in, n) \/ Grows(new[n], rows[n], s, c),
         NEW end, NEW more, end \subseteq more, s \in more, KeptRows(in, end, rows, bef)
  PROVE  KeptRows(in, more, new, bef)
<1>1. DOMAIN new = DOMAIN rows
  BY DEF RowsTouched
<1>2. ASSUME NEW n \in DOMAIN rows, NEW r \in bef[n], ~(r.source \in more /\ MayGo(in, n)) PROVE Covers(new[n], r)
  <2>1. Covers(rows[n], r) /\ r.time \in Nat /\ r.time <= c
    BY <1>2 DEF KeptRows, RowsInv
  <2>2. CASE r.source # s
    <3>1. Touches(new[n], rows[n], s, c)
      BY DEF RowsTouched
    <3> QED BY <2>1, <2>2, <3>1, TouchesKeeps
  <2>3. CASE r.source = s
    <3>1. Grows(new[n], rows[n], s, c)
      BY <1>2, <2>3
    <3> QED BY <2>1, <3>1, GrowsKeeps
  <2> QED BY <2>2, <2>3
<1> QED BY <1>1, <1>2 DEF KeptRows

\* A destination that has what was reported of a source, or whose stream broke.
IsReported(d, c, s, keys, log, rows) ==
  /\ <<s, d.name>> \in log \/ HasRows(rows[d.name], s, keys, c)
  /\ NoneStale(d, rows[d.name], s, c)

LEMMA ReportedIs == \A c, rd, i, rep, log, rows :
  ReportedSources(c, rd, i, rep, log, rows) <=>
    \A s \in DOMAIN rep : \E m \in 1..i - 1 :
      /\ m <= Len(rd.source) /\ s = rd.source[m].name
      /\ \A d \in ToSet(rd.destination) : d.name \in ToSet(rd.source[m].destinations) =>
           IsReported(d, c, s, rep[s], log, rows)
BY DEF ReportedSources, IsReported

LEMMA ReportedStays ==
  ASSUME NEW sp, NEW rd, SoundSpecs(rd, sp), NEW i \in 1..Len(rd.source), NEW c, NEW rep, NEW log, NEW log2, log \subseteq log2,
         NEW rows, NEW bef, RowsInv(sp, c, rows, bef), ReportedSources(c, rd, i, rep, log, rows),
         NEW new, RowsTouched(new, rows, rd.source[i].name, c)
  PROVE  ReportedSources(c, rd, i, rep, log2, new) /\ ReportedSources(c, rd, i + 1, rep, log2, new)
<1>0. Len(rd.source) \in Nat
  BY DEF SoundSpecs, NamedOnce
<1>1. ASSUME NEW s \in DOMAIN rep
      PROVE  \E m \in 1..i - 1 :
               /\ m <= Len(rd.source) /\ s = rd.source[m].name
               /\ \A d \in ToSet(rd.destination) : d.name \in ToSet(rd.source[m].destinations) =>
                    IsReported(d, c, s, rep[s], log2, new)
  <2>1. PICK m \in 1..i - 1 :
               /\ m <= Len(rd.source) /\ s = rd.source[m].name
               /\ \A d \in ToSet(rd.destination) : d.name \in ToSet(rd.source[m].destinations) =>
                    IsReported(d, c, s, rep[s], log, rows)
    BY ReportedIs
  <2>2. s # rd.source[i].name
    <3>1. m \in 1..Len(rd.source) /\ m # i
      BY <1>0, <2>1
    <3> QED BY <2>1, <3>1 DEF SoundSpecs, NamedOnce
  <2>3. ASSUME NEW d \in ToSet(rd.destination), d.name \in ToSet(rd.source[m].destinations)
        PROVE  IsReported(d, c, s, rep[s], log2, new)
    <3>1. d.name \in DOMAIN rows
      BY DEF SoundSpecs, RowsInv
    <3>2. Touches(new[d.name], rows[d.name], rd.source[i].name, c)
      BY <3>1 DEF RowsTouched
    <3>3. (<<s, d.name>> \in log \/ HasRows(rows[d.name], s, rep[s], c)) /\ NoneStale(d, rows[d.name], s, c)
      BY <2>1, <2>3 DEF IsReported
    <3>4. HasRows(rows[d.name], s, rep[s], c) => HasRows(new[d.name], s, rep[s], c)
      BY <2>2, <3>2, TouchesKeeps
    <3>5. NoneStale(d, new[d.name], s, c)
      BY <2>2, <3>2, <3>3, TouchesKeeps
    <3> QED BY <3>3, <3>4, <3>5 DEF IsReported
  <2> QED BY <2>1, <2>3
<1>2. ReportedSources(c, rd, i, rep, log2, new)
  BY <1>1, ReportedIs
<1>3. \A m \in 1..i - 1 : m \in 1..(i + 1) - 1
  BY <1>0
<1> QED BY <1>1, <1>2, <1>3, ReportedIs

\* What was reported before the i-th source was reported before the end.
LEMMA ReportedAll ==
  ASSUME NEW rd, Len(rd.source) \in Nat, NEW i \in Nat \ {0}, NEW c, NEW rep, NEW log, NEW rows,
         ReportedSources(c, rd, i, rep, log, rows)
  PROVE  ReportedSources(c, rd, Len(rd.source) + 1, rep, log, rows)
<1>1. \A m \in 1..i - 1 : m <= Len(rd.source) => m \in 1..(Len(rd.source) + 1) - 1
  OBVIOUS
<1> QED BY <1>1, ReportedIs

-----------------------------------------------------------------------------
(* The steps of a command. *)

LEMMA Words ==
  /\ Source = reader.source[srcNo]
  /\ Dests = DestsOf(reader, srcNo) /\ Dest = DestsOf(reader, srcNo)[dstNo]
  /\ \A k : Row(k) = RowOf(reader.source[srcNo].name, k, commands)
  /\ Version = VersionOf(speaks, reader.source[srcNo].name)
  /\ \A r : IsStale(r) <=> r.source = reader.source[srcNo].name /\ r.time < commands
BY DEF Source, Dests, Dest, DestsOf, Row, RowOf, Version, VersionOf, IsStale

LEMMA InSource ==
  ASSUME NEW in, NEW sp, NEW c, NEW com, NEW st, NEW rd, NEW i, NEW j, ControlInv(in, sp, c, com, st, rd, i, j),
         st \in SourceSteps
  PROVE  /\ in \in Inputs /\ sp \in Speaks /\ c \in Nat /\ com \in Syncing /\ i \in Nat \ {0}
         /\ rd = SpecsOf(in, FALSE) /\ Fine(rd) /\ SoundSpecs(rd, sp) /\ Len(rd.source) \in Nat
         /\ st # "source" => i \in 1..Len(rd.source) /\ DestsAre(rd, i)
<1>1. in \in Inputs /\ sp \in Speaks /\ c \in Nat /\ com \in Syncing /\ i \in Nat \ {0} /\ Fine(rd)
  BY DEF ControlInv, SourceSteps
<1>2. (com \in Relaxed) = FALSE
  BY <1>1 DEF Syncing, Relaxed
<1>3. rd = SpecsOf(in, FALSE)
  BY <1>2 DEF ControlInv, SourceSteps
<1>4. SoundSpecs(rd, sp)
  BY <1>1, <1>3, SpecsAreSound DEF Fine
<1>5. Len(rd.source) \in Nat
  BY <1>4 DEF SoundSpecs, NamedOnce
<1>6. ASSUME st # "source" PROVE i \in 1..Len(rd.source) /\ DestsAre(rd, i)
  <2>1. i <= Len(rd.source)
    BY <1>6 DEF ControlInv
  <2>2. i \in 1..Len(rd.source)
    BY <1>1, <1>5, <2>1
  <2> QED BY <1>4, <2>2, DestsAreOnce
<1> QED BY <1>1, <1>3, <1>4, <1>5, <1>6

LEMMA NothingThere == DOMAIN << >> = {}
OBVIOUS

\* From the last step for a source to the next source.
LEMMA ToNextSource ==
  ASSUME NEW in, NEW sp, NEW c, NEW com, NEW st, NEW rd, NEW i, NEW j, ControlInv(in, sp, c, com, st, rd, i, j),
         st \in SourceSteps, NEW fail, NEW rows
  PROVE  /\ ControlInv(in, sp, c, com, "source", rd, i + 1, 0)
         /\ StreamsInv(c, "source", rd, i + 1, 0, {}, << >>)
         /\ DeliveredInv(sp, c, "source", rd, i + 1, 0, {}, << >>, fail, rows)
<1>1. ControlInv(in, sp, c, com, "source", rd, i + 1, 0)
  BY DEF ControlInv, SourceSteps, Unsent
<1>2. StreamsInv(c, "source", rd, i + 1, 0, {}, << >>)
  BY NothingThere DEF StreamsInv, Unsent, SourceSteps
<1>3. DeliveredInv(sp, c, "source", rd, i + 1, 0, {}, << >>, fail, rows)
  BY DEF DeliveredInv
<1> QED BY <1>1, <1>2, <1>3

\* From one step for a source to another, before anything is sent.
LEMMA ToUnsent ==
  ASSUME NEW in, NEW sp, NEW c, NEW com, NEW st, NEW rd, NEW i, NEW j, ControlInv(in, sp, c, com, st, rd, i, j),
         st \in SourceSteps, i <= Len(rd.source), NEW st2 \in {"v3", "init", "configure", "migrate"}, NEW j2,
         st2 \in {"configure", "migrate"} => j2 \in 1..Len(DestsOf(rd, i)),
         st2 = "v3" => VersionOf(sp, rd.source[i].name) = 3, NEW fail, NEW rows
  PROVE  /\ ControlInv(in, sp, c, com, st2, rd, i, j2)
         /\ StreamsInv(c, st2, rd, i, j2, {}, << >>)
         /\ DeliveredInv(sp, c, st2, rd, i, j2, {}, << >>, fail, rows)
<1>1. ControlInv(in, sp, c, com, st2, rd, i, j2)
  BY DEF ControlInv, SourceSteps, Unsent
<1>2. StreamsInv(c, st2, rd, i, j2, {}, << >>)
  BY NothingThere DEF StreamsInv, Unsent, SourceSteps
<1>3. DeliveredInv(sp, c, st2, rd, i, j2, {}, << >>, fail, rows)
  BY DEF DeliveredInv
<1> QED BY <1>1, <1>2, <1>3

\* At the end of a command.
LEMMA ToIdle ==
  ASSUME NEW in, NEW sp, NEW c, NEW com, NEW st, NEW rd, NEW i, NEW j, ControlInv(in, sp, c, com, st, rd, i, j),
         NEW fail, NEW rows, NEW rep, NEW log,
         rep = << >> \/ (rd = SpecsOf(in, FALSE) /\ Fine(rd) /\ Len(rd.source) \in Nat /\ i \in Nat \ {0}
                         /\ ReportedSources(c, rd, i, rep, log, rows))
  PROVE  /\ ControlInv(in, sp, c, com, "idle", NewReader, 0, 0)
         /\ StreamsInv(c, "idle", NewReader, 0, 0, {}, << >>)
         /\ DeliveredInv(sp, c, "idle", NewReader, 0, 0, {}, << >>, fail, rows)
         /\ ReportsInv(in, c, "idle", NewReader, 0, {}, rep, log, rows)
<1>1. ControlInv(in, sp, c, com, "idle", NewReader, 0, 0)
  BY DEF ControlInv, SourceSteps
<1>2. StreamsInv(c, "idle", NewReader, 0, 0, {}, << >>)
  BY NothingThere DEF StreamsInv, Unsent, SourceSteps
<1>3. DeliveredInv(sp, c, "idle", NewReader, 0, 0, {}, << >>, fail, rows)
  BY DEF DeliveredInv
<1>4. ReportedSources(c, SpecsOf(in, FALSE), Len(SpecsOf(in, FALSE).source) + 1, rep, log, rows)
  <2>1. CASE rep = << >>
    BY <2>1, NothingThere, ReportedIs
  <2>2. CASE rep # << >>
    BY <2>2, ReportedAll
  <2> QED BY <2>1, <2>2
<1>5. ReportsInv(in, c, "idle", NewReader, 0, {}, rep, log, rows)
  BY <1>4 DEF ReportsInv, SourceSteps
<1> QED BY <1>1, <1>2, <1>3, <1>5

LEMMA CommandsInitInv == CommandsInit => CommandsInv
<1> SUFFICES ASSUME CommandsInit PROVE CommandsInv
  OBVIOUS
<1> DEFINE N == DOMAIN speaks["destination"]
<1>1. input \in Inputs /\ speaks \in Speaks /\ commands = 0 /\ cmdStage = "idle" /\ reader = NewReader
      /\ srcNo = 0 /\ dstNo = 0 /\ fetched = {} /\ queues = << >> /\ tableRows = [n \in N |-> {}] /\ before = tableRows /\ reported = << >>
  BY DEF CommandsInit
<1>2. ControlInv(input, speaks, commands, command, cmdStage, reader, srcNo, dstNo)
  BY <1>1 DEF ControlInv, SourceSteps
<1>3. StreamsInv(commands, cmdStage, reader, srcNo, dstNo, fetched, queues)
      /\ DeliveredInv(speaks, commands, cmdStage, reader, srcNo, dstNo, fetched, queues, failing, tableRows)
      /\ ReportsInv(input, commands, cmdStage, reader, srcNo, fetched, reported, logged, tableRows)
  BY <1>1, <1>2, ToIdle
<1>4. RowsInv(speaks, commands, tableRows, before)
  BY <1>1 DEF RowsInv
<1>5. KeptInv(input, cmdStage, reader, srcNo, ended, tableRows, before)
  BY <1>1 DEF KeptInv, KeptRows
<1> QED BY <1>2, <1>3, <1>4, <1>5 DEF CommandsInv

LEMMA BeginInv ==
  ASSUME CommandsInv, NEW c \in Syncing \cup Checking, Run(c)
  PROVE  CommandsInv'
<1>1. cmdStage = "idle" /\ commands' = commands + 1 /\ command' = c /\ reader' = SpecsOf(input, c \in Relaxed)
      /\ cmdStage' = "specs" /\ ended' = {} /\ reported' = << >> /\ logged' = {} /\ before' = tableRows
      /\ input' = input /\ speaks' = speaks /\ srcNo' = srcNo /\ dstNo' = dstNo /\ fetched' = fetched
      /\ queues' = queues /\ failing' = failing /\ tableRows' = tableRows
  BY DEF Run, fixedVars, dbVars
<1>2. ControlInv(input, speaks, commands + 1, c, "specs", SpecsOf(input, c \in Relaxed), srcNo, dstNo)
  <2>1. input \in Inputs /\ speaks \in Speaks /\ commands + 1 \in Nat
    BY DEF CommandsInv, ControlInv
  <2> QED BY <2>1 DEF ControlInv, SourceSteps
<1>3. StreamsInv(commands + 1, "specs", reader', srcNo, dstNo, fetched, queues)
  BY <1>1 DEF CommandsInv, StreamsInv, Unsent, SourceSteps
<1>4. DeliveredInv(speaks, commands + 1, "specs", reader', srcNo, dstNo, fetched, queues, failing, tableRows)
      /\ ReportsInv(input, commands + 1, "specs", reader', srcNo, fetched, << >>, {}, tableRows)
  BY DEF DeliveredInv, ReportsInv, SourceSteps
<1>5. commands \in Nat /\ RowsInv(speaks, commands, tableRows, before)
  BY DEF CommandsInv, ControlInv
<1>6. \A n \in DOMAIN tableRows : \A r \in tableRows[n] : r.time \in Nat /\ r.time <= commands
  BY <1>5 DEF RowsInv
<1>7. RowsInv(speaks, commands + 1, tableRows, tableRows)
  <2>1. \A n \in DOMAIN tableRows : \A r \in tableRows[n] \cup tableRows[n] : r.time \in Nat /\ r.time <= commands + 1
    BY <1>5, <1>6
  <2> QED BY <1>5, <2>1 DEF RowsInv
<1>8. KeptInv(input, "specs", reader', srcNo, {}, tableRows, tableRows)
  BY <1>6 DEF KeptInv, KeptRows, Covers
<1> QED BY <1>1, <1>2, <1>3, <1>4, <1>7, <1>8, NothingThere DEF CommandsInv

LEMMA QueuesHold ==
  ASSUME CommandsInv, NEW n \in DOMAIN queues, NEW r \in queues[n]
  PROVE  \E k \in fetched : r = RowOf(reader.source[srcNo].name, k, commands)
<1>1. cmdStage \in SourceSteps \ Unsent
  <2>1. cmdStage \in {"idle", "specs", "check"} \cup SourceSteps
    BY DEF CommandsInv, ControlInv
  <2>2. queues # << >>
    BY NothingThere
  <2> QED BY <2>1, <2>2 DEF CommandsInv, StreamsInv
<1> QED BY <1>1 DEF CommandsInv, StreamsInv

LEMMA CommandFailsInv ==
  ASSUME CommandsInv, CommandFails
  PROVE  CommandsInv'
<1>1. PICK written \in [DOMAIN queues -> SUBSET UNION {queues[n] : n \in DOMAIN queues}] :
       /\ \A n \in DOMAIN queues : written[n] \subseteq queues[n]
       /\ tableRows' = [n \in DOMAIN tableRows |->
            IF n \in DOMAIN queues THEN Store(DestNamed(n), written[n], tableRows[n]) ELSE tableRows[n]]
  BY DEF CommandFails
<1>2. cmdStage' = "idle" /\ reader' = NewReader /\ srcNo' = 0 /\ dstNo' = 0 /\ fetched' = {} /\ queues' = << >>
      /\ input' = input /\ speaks' = speaks /\ commands' = commands /\ command' = command
      /\ ended' = ended /\ reported' = reported /\ before' = before /\ logged' = logged
  BY DEF CommandFails, EndRest, fixedVars, reportVars
<1> DEFINE s == reader.source[srcNo].name
<1>3. RowsGrow(tableRows', tableRows, s, commands)
  <2>1. ASSUME NEW n \in DOMAIN tableRows PROVE Grows(tableRows'[n], tableRows[n], s, commands)
    <3>1. CASE n \in DOMAIN queues
      <4>1. tableRows'[n] = Store(DestNamed(n), written[n], tableRows[n])
        BY <1>1, <3>1
      <4>2. \A r \in written[n] : \E k : r = RowOf(s, k, commands)
        BY <1>1, <3>1, QueuesHold
      <4> QED BY <4>1, <4>2, StoreGrows
    <3>2. CASE n \notin DOMAIN queues
      <4>1. tableRows'[n] = tableRows[n]
        BY <1>1, <3>2
      <4> QED BY <4>1, GrowsNot
    <3> QED BY <3>1, <3>2
  <2>2. tableRows' = [n \in DOMAIN tableRows |-> tableRows'[n]]
    BY <1>1
  <2> QED BY <2>1, <2>2 DEF RowsGrow
<1> HIDE DEF s
<1>4. ControlInv(input, speaks, commands, command, cmdStage, reader, srcNo, dstNo)
      /\ RowsInv(speaks, commands, tableRows, before) /\ KeptRows(input, ended, tableRows, before) /\ commands \in Nat
  BY DEF CommandsInv, KeptInv, ControlInv
<1>5. RowsInv(speaks, commands, tableRows', before)
  BY <1>3, <1>4, RowsStay, GrowIsTouch
<1>6. KeptInv(input, "idle", NewReader, 0, ended, tableRows', before)
  <2>1. KeptRows(input, ended, tableRows', before)
    BY <1>3, <1>4, KeptGrows
  <2> QED BY <2>1 DEF KeptInv
<1>9. reported = << >> \/ (reader = SpecsOf(input, FALSE) /\ Fine(reader) /\ Len(reader.source) \in Nat /\ srcNo \in Nat \ {0}
                           /\ ReportedSources(commands, reader, srcNo, reported, logged, tableRows'))
  <2>1. cmdStage \in {"specs", "check"} \cup (SourceSteps \ {"closeAll"})
    BY <1>4 DEF CommandFails, ControlInv
  <2>2. CASE cmdStage \in {"specs", "check"}
    BY <2>2 DEF CommandsInv, ReportsInv
  <2>3. CASE cmdStage \in SourceSteps \ {"closeAll"}
    <3>1. reader = SpecsOf(input, FALSE) /\ Fine(reader) /\ Len(reader.source) \in Nat /\ srcNo \in Nat \ {0} /\ SoundSpecs(reader, speaks)
          /\ (cmdStage # "source" => srcNo \in 1..Len(reader.source))
      BY <1>4, <2>3, InSource
    <3>2. ReportedSources(commands, reader, srcNo, reported, logged, tableRows)
      BY <2>3 DEF CommandsInv, ReportsInv
    <3>3. CASE cmdStage = "source"
      <4>1. queues = << >>
        BY <3>3 DEF CommandsInv, StreamsInv, Unsent
      <4>2. \A n \in DOMAIN tableRows : tableRows'[n] = tableRows[n]
        BY <1>1, <4>1, NothingThere
      <4>3. tableRows = [n \in DOMAIN speaks["destination"] |-> tableRows[n]] /\ DOMAIN tableRows = DOMAIN speaks["destination"]
        BY <1>4 DEF RowsInv
      <4>4. tableRows' = tableRows
        BY <1>3, <4>2, <4>3 DEF RowsGrow
      <4> QED BY <3>1, <3>2, <4>4
    <3>4. CASE cmdStage # "source"
      BY <1>3, <1>4, <3>1, <3>2, <3>4, ReportedStays, GrowIsTouch DEF s
    <3> QED BY <3>3, <3>4
  <2> QED BY <2>1, <2>2, <2>3
<1>7. /\ ControlInv(input, speaks, commands, command, "idle", NewReader, 0, 0)
      /\ StreamsInv(commands, "idle", NewReader, 0, 0, {}, << >>)
      /\ DeliveredInv(speaks, commands, "idle", NewReader, 0, 0, {}, << >>, failing', tableRows')
      /\ ReportsInv(input, commands, "idle", NewReader, 0, {}, reported, logged, tableRows')
  BY <1>4, <1>9, ToIdle
<1> QED BY <1>2, <1>4, <1>5, <1>6, <1>7 DEF CommandsInv

\* Steps that leave rows and reports alone.
LEMMA NothingMoves ==
  ASSUME NEW in, NEW c, NEW st \in SourceSteps \ {"closeAll"}, NEW st2 \in SourceSteps \ {"closeAll"}, NEW rd, NEW i,
         NEW end, NEW end2, NEW rows, NEW bef, NEW fet, NEW fet2, NEW rep, NEW log,
         KeptInv(in, st, rd, i, end, rows, bef), ReportsInv(in, c, st, rd, i, fet, rep, log, rows),
         end \subseteq end2, st2 \in {"stale", "close", "report"} => rd.source[i].name \in end2
  PROVE  KeptInv(in, st2, rd, i, end2, rows, bef) /\ ReportsInv(in, c, st2, rd, i, fet2, rep, log, rows)
<1>1. KeptRows(in, end2, rows, bef)
  BY DEF KeptInv, KeptRows
<1>2. st2 \notin {"specs", "check", "idle", "closeAll"}
  BY DEF SourceSteps
<1> QED BY <1>1, <1>2 DEF KeptInv, ReportsInv

LEMMA EndCommandInv ==
  ASSUME CommandsInv, EndCommand
  PROVE  CommandsInv'
<1>1. cmdStage' = "idle" /\ reader' = NewReader /\ srcNo' = 0 /\ dstNo' = 0 /\ fetched' = {} /\ queues' = << >>
      /\ input' = input /\ speaks' = speaks /\ commands' = commands /\ command' = command
      /\ ended' = ended /\ reported' = reported /\ before' = before /\ logged' = logged
      /\ tableRows' = tableRows
  BY DEF EndCommand, EndRest, fixedVars, dbVars, reportVars
<1>2. ControlInv(input, speaks, commands, command, cmdStage, reader, srcNo, dstNo)
      /\ RowsInv(speaks, commands, tableRows, before) /\ KeptRows(input, ended, tableRows, before)
  BY DEF CommandsInv, KeptInv
<1>3. KeptInv(input, "idle", NewReader, 0, ended, tableRows, before)
  BY <1>2 DEF KeptInv
<1>5. reported = << >> \/ (reader = SpecsOf(input, FALSE) /\ Fine(reader) /\ Len(reader.source) \in Nat /\ srcNo \in Nat \ {0}
                           /\ ReportedSources(commands, reader, srcNo, reported, logged, tableRows))
  <2>1. CASE cmdStage = "source"
    <3>1. cmdStage \in SourceSteps \ {"closeAll"}
      BY <2>1 DEF SourceSteps
    <3>2. ReportedSources(commands, reader, srcNo, reported, logged, tableRows)
      BY <3>1 DEF CommandsInv, ReportsInv
    <3> QED BY <1>2, <3>1, <3>2, InSource
  <2>2. CASE cmdStage = "check"
    BY <2>2 DEF CommandsInv, ReportsInv
  <2> QED BY <2>1, <2>2 DEF EndCommand, CommandEnds
<1>4. /\ ControlInv(input, speaks, commands, command, "idle", NewReader, 0, 0)
      /\ StreamsInv(commands, "idle", NewReader, 0, 0, {}, << >>)
      /\ DeliveredInv(speaks, commands, "idle", NewReader, 0, 0, {}, << >>, failing', tableRows)
      /\ ReportsInv(input, commands, "idle", NewReader, 0, {}, reported, logged, tableRows)
  BY <1>2, <1>5, ToIdle
<1> QED BY <1>1, <1>2, <1>3, <1>4 DEF CommandsInv

LEMMA StartPluginsInv ==
  ASSUME CommandsInv, StartPlugins
  PROVE  CommandsInv'
<1>1. cmdStage = "specs" /\ Fine(reader) /\ reader' = reader /\ dstNo' = dstNo /\ fetched' = fetched /\ queues' = queues
      /\ input' = input /\ speaks' = speaks /\ commands' = commands /\ command' = command /\ failing' = failing
      /\ ended' = ended /\ reported' = reported /\ before' = before /\ logged' = logged
      /\ tableRows' = tableRows
  BY DEF StartPlugins, fixedVars, dbVars, reportVars, Fine
<1>2. IF command \in Syncing THEN cmdStage' = "source" /\ srcNo' = 1 ELSE cmdStage' = "check" /\ srcNo' = 0
  BY DEF StartPlugins
<1>3. ControlInv(input, speaks, commands, command, "specs", reader, srcNo, dstNo)
      /\ fetched = {} /\ queues = << >> /\ reported = << >>
      /\ RowsInv(speaks, commands, tableRows, before) /\ KeptRows(input, ended, tableRows, before)
  BY <1>1 DEF CommandsInv, KeptInv, StreamsInv, ReportsInv
<1>4. ControlInv(input, speaks, commands, command, cmdStage', reader, srcNo', dstNo)
  BY <1>1, <1>2, <1>3 DEF ControlInv, SourceSteps, Unsent
<1>5. StreamsInv(commands, cmdStage', reader, srcNo', dstNo, {}, << >>)
  BY <1>2, NothingThere DEF StreamsInv, Unsent, SourceSteps
<1>6. DeliveredInv(speaks, commands, cmdStage', reader, srcNo', dstNo, {}, << >>, failing, tableRows)
  BY <1>2 DEF DeliveredInv
<1>7. KeptInv(input, cmdStage', reader, srcNo', ended, tableRows, before)
  BY <1>2, <1>3 DEF KeptInv
<1>8. ReportsInv(input, commands, cmdStage', reader, srcNo', {}, << >>, logged, tableRows)
  BY <1>2, NothingThere, ReportedIs DEF ReportsInv
<1> QED BY <1>1, <1>3, <1>4, <1>5, <1>6, <1>7, <1>8 DEF CommandsInv

LEMMA DispatchInv ==
  ASSUME CommandsInv, Dispatch
  PROVE  CommandsInv'
<1>1. cmdStage = "source" /\ srcNo <= Len(reader.source) /\ srcNo' = srcNo
      /\ reader' = reader /\ dstNo' = dstNo /\ fetched' = fetched /\ queues' = queues
      /\ input' = input /\ speaks' = speaks /\ commands' = commands /\ command' = command /\ failing' = failing
      /\ ended' = ended /\ reported' = reported /\ before' = before /\ logged' = logged
      /\ tableRows' = tableRows
  BY DEF Dispatch, RestOfCommand, fixedVars, dbVars, reportVars
<1>2. (Version = 3 /\ cmdStage' = "v3") \/ cmdStage' = "init"
  <2>1. CASE Version = 3
    BY <2>1 DEF Dispatch
  <2>2. CASE Version # 3
    BY <2>2 DEF Dispatch
  <2> QED BY <2>1, <2>2
<1>3. ControlInv(input, speaks, commands, command, "source", reader, srcNo, dstNo)
      /\ fetched = {} /\ queues = << >>
      /\ RowsInv(speaks, commands, tableRows, before) /\ KeptInv(input, "source", reader, srcNo, ended, tableRows, before)
      /\ ReportsInv(input, commands, "source", reader, srcNo, fetched, reported, logged, tableRows)
  BY <1>1 DEF CommandsInv, StreamsInv, Unsent
<1> DEFINE st == cmdStage'
<1>4. st \in {"v3", "init"} /\ (st = "v3" => VersionOf(speaks, reader.source[srcNo].name) = 3)
  BY <1>2, Words
<1> HIDE DEF st
<1>5. /\ ControlInv(input, speaks, commands, command, st, reader, srcNo, dstNo)
      /\ StreamsInv(commands, st, reader, srcNo, dstNo, {}, << >>)
      /\ DeliveredInv(speaks, commands, st, reader, srcNo, dstNo, {}, << >>, failing, tableRows)
  <2>1. "source" \in SourceSteps
    BY DEF SourceSteps
  <2> QED BY <1>1, <1>3, <1>4, <2>1, ToUnsent
<1>6. KeptInv(input, st, reader, srcNo, ended, tableRows, before) /\ ReportsInv(input, commands, st, reader, srcNo, fetched, reported, logged, tableRows)
  <2>1. "source" \in SourceSteps \ {"closeAll"} /\ st \in SourceSteps \ {"closeAll"} /\ st \notin {"stale", "close", "report"}
    BY <1>4 DEF SourceSteps
  <2> QED BY <1>3, <2>1, NothingMoves
<1> QED BY <1>1, <1>3, <1>5, <1>6 DEF CommandsInv, st

-----------------------------------------------------------------------------
(* Commands: the steps up to the streams. *)

LEMMA DestNamedIs ==
  ASSUME NEW d \in ToSet(reader.destination), \A e, f \in ToSet(reader.destination) : e.name = f.name => e = f
  PROVE  DestNamed(d.name) = d
BY DEF DestNamed

\* A step at a source: what is known of it.
LEMMA AtSource ==
  ASSUME CommandsInv, cmdStage \in SourceSteps \ {"source"}
  PROVE  /\ commands \in Nat /\ command \in Syncing /\ srcNo \in Nat \ {0} /\ srcNo <= Len(reader.source)
         /\ srcNo \in 1..Len(reader.source) /\ reader = SpecsOf(input, FALSE) /\ Fine(reader)
         /\ SoundSpecs(reader, speaks) /\ DestsAre(reader, srcNo)
         /\ \A d \in ToSet(reader.destination) : DestNamed(d.name) = d
<1>1. ControlInv(input, speaks, commands, command, cmdStage, reader, srcNo, dstNo)
  BY DEF CommandsInv
<1>2. cmdStage \in SourceSteps /\ cmdStage # "source"
  OBVIOUS
<1> DEFINE in == input sp == speaks c == commands com == command st == cmdStage rd == reader i == srcNo j == dstNo
<1>3. ControlInv(in, sp, c, com, st, rd, i, j) /\ st \in SourceSteps /\ st # "source"
  BY <1>1, <1>2
<1> HIDE DEF in, sp, c, com, st, rd, i, j
<1>4. c \in Nat /\ com \in Syncing /\ i \in Nat \ {0} /\ rd = SpecsOf(in, FALSE) /\ Fine(rd) /\ SoundSpecs(rd, sp)
      /\ i \in 1..Len(rd.source) /\ DestsAre(rd, i) /\ Len(rd.source) \in Nat
  BY <1>3, InSource
<1>5. \A d \in ToSet(rd.destination) : DestNamed(d.name) = d
  BY <1>4, DestNamedIs DEF DestsAre, rd
<1>6. i <= Len(rd.source)
  <2> DEFINE n == Len(rd.source)
  <2>1. i \in 1..n /\ n \in Nat
    BY <1>4
  <2> HIDE DEF n
  <2>2. i <= n
    BY <2>1
  <2> QED BY <2>2 DEF n
<1> QED BY <1>4, <1>5, <1>6 DEF in, sp, c, com, st, rd, i, j

LEMMA DestNameKnown ==
  ASSUME CommandsInv, cmdStage \in SourceSteps \ {"source"}, NEW n \in DocNames(DestsOf(reader, srcNo))
  PROVE  DestNamed(n) \in ToSet(reader.destination) /\ DestNamed(n).name = n
<1>0. DOMAIN DestsOf(reader, srcNo) = 1..Len(DestsOf(reader, srcNo))
  BY AtSource DEF DestsAre
<1>1. PICK m \in 1..Len(DestsOf(reader, srcNo)) : n = DestsOf(reader, srcNo)[m].name
  BY <1>0 DEF DocNames, ToSet
<1>2. DestsOf(reader, srcNo)[m] \in ToSet(reader.destination)
  BY <1>1, AtSource DEF DestsAre
<1> QED BY <1>1, <1>2, AtSource

LEMMA ConnectionV3Inv ==
  ASSUME CommandsInv, ConnectionV3
  PROVE  CommandsInv'
<1> DEFINE s == reader.source[srcNo].name
           names == DocNames(DestsOf(reader, srcNo))
<1>1. cmdStage = "v3" /\ cmdStage' = "source" /\ srcNo' = srcNo + 1 /\ dstNo' = 0
      /\ fetched' = {} /\ queues' = << >> /\ failing' = {} /\ reported' = reported /\ logged' = logged
      /\ input' = input /\ speaks' = speaks /\ commands' = commands /\ command' = command
      /\ reader' = reader /\ before' = before
  BY Words DEF ConnectionV3, NextSource, RestOfCommand, fixedVars
<1>2. ControlInv(input, speaks, commands, command, cmdStage, reader, srcNo, dstNo)
      /\ RowsInv(speaks, commands, tableRows, before) /\ KeptRows(input, ended, tableRows, before)
      /\ ReportedSources(commands, reader, srcNo, reported, logged, tableRows)
      /\ cmdStage \in SourceSteps \ {"source"}
  <2>1. cmdStage \in SourceSteps \ {"source"}
    BY <1>1 DEF SourceSteps
  <2> QED BY <1>1, <2>1, AtSource DEF CommandsInv, KeptInv, ReportsInv
<1>3. /\ commands \in Nat /\ SoundSpecs(reader, speaks) /\ srcNo \in 1..Len(reader.source)
      /\ reader = SpecsOf(input, FALSE) /\ Fine(reader)
  BY <1>2, AtSource
<1>5. \A n \in names : DestNamed(n) \in ToSet(reader.destination) /\ DestNamed(n).name = n
  BY <1>2, DestNameKnown
<1>6. /\ RowsTouched(tableRows', tableRows, s, commands)
      /\ KeptRows(input, ended', tableRows', before)
  <2>1. CASE command = "migrate"
    <3>1. tableRows' = tableRows /\ ended' = ended
      BY <2>1 DEF ConnectionV3
    <3> QED BY <1>2, <3>1, NoRowsGrow, GrowIsTouch DEF RowsInv
  <2>2. CASE command # "migrate"
    <3>1. PICK keys \in SUBSET GivenKeys :
            /\ ended' = ended \cup {s}
            /\ tableRows' = [n \in DOMAIN tableRows |-> IF n \in names
                 THEN Store(DestNamed(n), {Row(k) : k \in keys},
                            {r \in tableRows[n] : DestNamed(n).write = "overwrite-delete-stale" => ~IsStale(r)})
                 ELSE tableRows[n]]
      BY <2>2, Words DEF ConnectionV3
    <3>2. ASSUME NEW n \in DOMAIN tableRows
          PROVE  /\ Touches(tableRows'[n], tableRows[n], s, commands)
                 /\ MayGo(input, n) \/ Grows(tableRows'[n], tableRows[n], s, commands)
      <4>1. CASE n \in names
        <5> DEFINE old == {r \in tableRows[n] : DestNamed(n).write = "overwrite-delete-stale" => ~IsStale(r)}
                   rows == {Row(k) : k \in keys}
        <5>1. tableRows'[n] = Store(DestNamed(n), rows, old)
          BY <3>1, <4>1
        <5>2. Touches(old, tableRows[n], s, commands)
          <6>1. old \subseteq tableRows[n] /\ \A r \in tableRows[n] : r.source # s => r \in old
            BY Words
          <6> HIDE DEF old
          <6> QED BY <6>1 DEF Touches, SameElse
        <5>3. \A r \in rows : \E k : r = RowOf(s, k, commands)
          BY Words
        <5>6. MayGo(input, n) \/ old = tableRows[n]
          BY <1>3, <1>5, <4>1 DEF MayGo
        <5> HIDE DEF old, rows
        <5>4. Grows(Store(DestNamed(n), rows, old), old, s, commands)
          BY <5>3, StoreGrows
        <5>5. Touches(Store(DestNamed(n), rows, old), old, s, commands)
          BY <5>4 DEF Grows
        <5> QED BY <1>3, <5>1, <5>2, <5>4, <5>5, <5>6, TouchesAgain
      <4>2. CASE n \notin names
        <5>1. tableRows'[n] = tableRows[n]
          BY <3>1, <4>2
        <5> QED BY <5>1, GrowsNot DEF Grows
      <4> QED BY <4>1, <4>2
    <3>3. tableRows' = [n \in DOMAIN tableRows |-> tableRows'[n]]
      BY <3>1
    <3>4. RowsTouched(tableRows', tableRows, s, commands)
      BY <3>2, <3>3 DEF RowsTouched
    <3>5. ended \subseteq ended' /\ s \in ended'
      BY <3>1
    <3> HIDE DEF s
    <3>6. KeptRows(input, ended', tableRows', before)
      BY <1>2, <1>3, <3>2, <3>4, <3>5, KeptTouched
    <3> QED BY <3>4, <3>6
  <2> QED BY <2>1, <2>2
<1>9. KeptInv(input, "source", reader, srcNo + 1, ended', tableRows', before)
  BY <1>6 DEF KeptInv
<1>10. ReportsInv(input, commands, "source", reader, srcNo + 1, {}, reported, logged, tableRows')
  <2>1. ReportedSources(commands, reader, srcNo + 1, reported, logged, tableRows')
    BY <1>2, <1>3, <1>6, ReportedStays
  <2> QED BY <2>1 DEF ReportsInv
<1>11. RowsInv(speaks, commands, tableRows', before)
  BY <1>2, <1>3, <1>6, RowsStay
<1>12. /\ ControlInv(input, speaks, commands, command, "source", reader, srcNo + 1, 0)
       /\ StreamsInv(commands, "source", reader, srcNo + 1, 0, {}, << >>)
       /\ DeliveredInv(speaks, commands, "source", reader, srcNo + 1, 0, {}, << >>, {}, tableRows')
  BY <1>2, ToNextSource
<1> HIDE DEF s, names
<1> QED BY <1>1, <1>3, <1>9, <1>10, <1>11, <1>12 DEF CommandsInv

\* Before anything is sent.
LEMMA AtUnsent ==
  ASSUME CommandsInv, cmdStage \in {"init", "configure", "migrate"}
  PROVE  /\ fetched = {} /\ queues = << >> /\ cmdStage \in SourceSteps \ {"source"}
         /\ ControlInv(input, speaks, commands, command, cmdStage, reader, srcNo, dstNo)
         /\ RowsInv(speaks, commands, tableRows, before) /\ KeptInv(input, cmdStage, reader, srcNo, ended, tableRows, before)
         /\ ReportsInv(input, commands, cmdStage, reader, srcNo, fetched, reported, logged, tableRows)
         /\ reader = SpecsOf(input, FALSE) /\ Fine(reader) /\ DestsAre(reader, srcNo) /\ srcNo <= Len(reader.source)
         /\ cmdStage # "init" => dstNo \in 1..Len(DestsOf(reader, srcNo))
<1>1. cmdStage \in SourceSteps \ {"source"}
  BY DEF SourceSteps
<1>2. fetched = {} /\ queues = << >>
  BY DEF CommandsInv, StreamsInv, Unsent
<1>3. cmdStage # "init" => dstNo \in 1..Len(DestsOf(reader, srcNo))
  BY <1>1 DEF CommandsInv, ControlInv
<1> QED BY <1>1, <1>2, <1>3, AtSource DEF CommandsInv

LEMMA ToOpen ==
  ASSUME NEW in, NEW sp, NEW c, NEW com, NEW st, NEW rd, NEW i, NEW j, ControlInv(in, sp, c, com, st, rd, i, j),
         st \in {"configure", "migrate"}, com # "migrate", DestsAre(rd, i), NEW fail, NEW rows
  PROVE  /\ ControlInv(in, sp, c, com, "open", rd, i, 1)
         /\ StreamsInv(c, "open", rd, i, 1, {}, << >>)
         /\ DeliveredInv(sp, c, "open", rd, i, 1, {}, << >>, fail, rows)
<1>1. 1 \in 1..Len(DestsOf(rd, i))
  BY DEF DestsAre
<1>2. ControlInv(in, sp, c, com, "open", rd, i, 1)
  BY <1>1 DEF ControlInv, SourceSteps, Unsent
<1>3. StreamsInv(c, "open", rd, i, 1, {}, << >>)
  BY NothingThere DEF StreamsInv, Unsent, SourceSteps
<1>4. DeliveredInv(sp, c, "open", rd, i, 1, {}, << >>, fail, rows)
  BY DEF DeliveredInv
<1> QED BY <1>2, <1>3, <1>4

\* A step to st2, with nothing sent yet, and no report.
LEMMA GoneOn ==
  ASSUME CommandsInv, cmdStage \in {"init", "configure", "migrate"},
         NEW st \in {"configure", "migrate", "open"}, NEW j,
         st = "open" => j = 1 /\ command # "migrate" /\ cmdStage # "init",
         st # "open" => j \in 1..Len(DestsOf(reader, srcNo))
  PROVE  /\ ControlInv(input, speaks, commands, command, st, reader, srcNo, j)
         /\ StreamsInv(commands, st, reader, srcNo, j, fetched, queues)
         /\ DeliveredInv(speaks, commands, st, reader, srcNo, j, fetched, queues, failing, tableRows)
         /\ KeptInv(input, st, reader, srcNo, ended, tableRows, before)
         /\ ReportsInv(input, commands, st, reader, srcNo, fetched, reported, logged, tableRows)
<1>1. st \in SourceSteps \ {"closeAll"} /\ st \notin {"stale", "close", "report"} /\ st # "v3" /\ cmdStage \in SourceSteps \ {"closeAll"}
  BY DEF SourceSteps
<1>2. KeptInv(input, st, reader, srcNo, ended, tableRows, before) /\ ReportsInv(input, commands, st, reader, srcNo, fetched, reported, logged, tableRows)
  <2>1. /\ KeptInv(input, cmdStage, reader, srcNo, ended, tableRows, before)
        /\ ReportsInv(input, commands, cmdStage, reader, srcNo, fetched, reported, logged, tableRows)
    BY AtUnsent
  <2> QED BY <1>1, <2>1, NothingMoves
<1>3. CASE st = "open"
  <2>1. /\ ControlInv(input, speaks, commands, command, cmdStage, reader, srcNo, dstNo) /\ DestsAre(reader, srcNo)
        /\ fetched = {} /\ queues = << >> /\ cmdStage \in {"configure", "migrate"} /\ command # "migrate" /\ j = 1
    BY <1>3, AtUnsent
  <2>2. /\ ControlInv(input, speaks, commands, command, "open", reader, srcNo, 1)
        /\ StreamsInv(commands, "open", reader, srcNo, 1, {}, << >>)
        /\ DeliveredInv(speaks, commands, "open", reader, srcNo, 1, {}, << >>, failing, tableRows)
    BY <2>1, ToOpen
  <2> QED BY <1>2, <1>3, <2>1, <2>2
<1>4. CASE st # "open"
  <2>1. st \in {"v3", "init", "configure", "migrate"} /\ st # "v3" /\ cmdStage \in SourceSteps /\ j \in 1..Len(DestsOf(reader, srcNo))
    BY <1>1, <1>4
  <2>2. /\ ControlInv(input, speaks, commands, command, cmdStage, reader, srcNo, dstNo) /\ srcNo <= Len(reader.source)
        /\ fetched = {} /\ queues = << >>
    BY AtUnsent
  <2>3. /\ ControlInv(input, speaks, commands, command, st, reader, srcNo, j)
        /\ StreamsInv(commands, st, reader, srcNo, j, {}, << >>)
        /\ DeliveredInv(speaks, commands, st, reader, srcNo, j, {}, << >>, failing, tableRows)
    BY <2>1, <2>2, ToUnsent
  <2> QED BY <1>2, <2>2, <2>3
<1> QED BY <1>3, <1>4

LEMMA InitSourceInv ==
  ASSUME CommandsInv, InitSource
  PROVE  CommandsInv'
<1>1. cmdStage = "init" /\ cmdStage' = "configure" /\ dstNo' = 1 /\ srcNo' = srcNo
      /\ reader' = reader /\ fetched' = fetched /\ queues' = queues
      /\ input' = input /\ speaks' = speaks /\ commands' = commands /\ command' = command /\ failing' = failing
      /\ ended' = ended /\ reported' = reported /\ before' = before /\ logged' = logged
      /\ tableRows' = tableRows
  BY DEF InitSource, Going, RestOfCommand, fixedVars, dbVars, reportVars
<1>2. 1 \in 1..Len(DestsOf(reader, srcNo))
  <2>1. DestsAre(reader, srcNo)
    BY <1>1, AtUnsent
  <2>2. Len(DestsOf(reader, srcNo)) \in Nat \ {0}
    BY <2>1 DEF DestsAre
  <2> QED BY <2>2
<1>3. /\ ControlInv(input, speaks, commands, command, "configure", reader, srcNo, 1)
      /\ StreamsInv(commands, "configure", reader, srcNo, 1, fetched, queues)
      /\ DeliveredInv(speaks, commands, "configure", reader, srcNo, 1, fetched, queues, failing, tableRows)
      /\ KeptInv(input, "configure", reader, srcNo, ended, tableRows, before)
      /\ ReportsInv(input, commands, "configure", reader, srcNo, fetched, reported, logged, tableRows)
  BY <1>1, <1>2, GoneOn
<1> QED BY <1>1, <1>3 DEF CommandsInv

LEMMA GoingOn ==
  ASSUME NEW s, NEW then, GoOn(s, then), dstNo \in 1..Len(DestsOf(reader, srcNo)), Len(DestsOf(reader, srcNo)) \in Nat
  PROVE  /\ \/ cmdStage' = s /\ dstNo' = dstNo + 1 /\ dstNo + 1 \in 1..Len(DestsOf(reader, srcNo))
            \/ cmdStage' = then /\ dstNo' = 1 /\ dstNo = Len(DestsOf(reader, srcNo))
         /\ srcNo' = srcNo /\ reader' = reader /\ input' = input /\ speaks' = speaks
         /\ commands' = commands /\ command' = command /\ before' = before
<1>1. CASE dstNo < Len(Dests)
  BY <1>1, Words DEF GoOn, Going, RestOfCommand, fixedVars
<1>2. CASE ~(dstNo < Len(Dests))
  BY <1>2, Words DEF GoOn, Going, RestOfCommand, fixedVars
<1> QED BY <1>1, <1>2

LEMMA ConfigureInv ==
  ASSUME CommandsInv, Configure
  PROVE  CommandsInv'
<1>1. cmdStage = "configure"
      /\ fetched' = fetched /\ queues' = queues /\ failing' = failing
      /\ ended' = ended /\ reported' = reported /\ logged' = logged
      /\ tableRows' = tableRows
  BY DEF Configure, dbVars, reportVars
<1>2. dstNo \in 1..Len(DestsOf(reader, srcNo)) /\ Len(DestsOf(reader, srcNo)) \in Nat /\ 1 \in 1..Len(DestsOf(reader, srcNo))
  <2>1. DestsAre(reader, srcNo) /\ dstNo \in 1..Len(DestsOf(reader, srcNo))
    BY <1>1, AtUnsent
  <2>2. Len(DestsOf(reader, srcNo)) \in Nat \ {0}
    BY <2>1 DEF DestsAre
  <2> QED BY <2>1, <2>2
<1>3. /\ srcNo' = srcNo /\ reader' = reader /\ input' = input /\ speaks' = speaks
      /\ commands' = commands /\ command' = command /\ before' = before
      /\ cmdStage' \in {"configure", "migrate", "open"}
      /\ cmdStage' = "open" => dstNo' = 1 /\ command # "migrate"
      /\ cmdStage' # "open" => dstNo' \in 1..Len(DestsOf(reader, srcNo))
  <2>1. CASE command = "migrate"
    BY <1>2, <2>1 DEF Configure, Going, RestOfCommand, fixedVars
  <2>2. CASE command # "migrate"
    <3> DEFINE then == IF noMigrate THEN "open" ELSE "migrate"
    <3>1. GoOn("configure", then) /\ then \in {"open", "migrate"}
      BY <2>2 DEF Configure
    <3> HIDE DEF then
    <3> QED BY <1>2, <2>2, <3>1, GoingOn
  <2> QED BY <2>1, <2>2
<1> DEFINE st == cmdStage' j == dstNo'
<1> HIDE DEF st, j
<1>4. /\ ControlInv(input, speaks, commands, command, st, reader, srcNo, j)
      /\ StreamsInv(commands, st, reader, srcNo, j, fetched, queues)
      /\ DeliveredInv(speaks, commands, st, reader, srcNo, j, fetched, queues, failing, tableRows)
      /\ KeptInv(input, st, reader, srcNo, ended, tableRows, before)
      /\ ReportsInv(input, commands, st, reader, srcNo, fetched, reported, logged, tableRows)
  <2>1. st \in {"configure", "migrate", "open"} /\ (st = "open" => j = 1 /\ command # "migrate")
        /\ (st # "open" => j \in 1..Len(DestsOf(reader, srcNo)))
    BY <1>3 DEF st, j
  <2> QED BY <1>1, <2>1, GoneOn
<1> QED BY <1>1, <1>3, <1>4 DEF CommandsInv, st, j

LEMMA MigrateTablesInv ==
  ASSUME CommandsInv, MigrateTables
  PROVE  CommandsInv'
<1>1. cmdStage = "migrate" /\ ended' = ended /\ reported' = reported /\ logged' = logged /\ tableRows' = tableRows
  BY DEF MigrateTables, reportVars
<1>2. /\ dstNo \in 1..Len(DestsOf(reader, srcNo)) /\ Len(DestsOf(reader, srcNo)) \in Nat
  BY <1>1, AtUnsent DEF DestsAre
<1>4. CASE command = "migrate" /\ dstNo = Len(Dests)
  <2>1. cmdStage' = "source" /\ srcNo' = srcNo + 1 /\ dstNo' = 0
      /\ fetched' = {} /\ queues' = << >> /\ failing' = {}
      /\ input' = input /\ speaks' = speaks /\ commands' = commands /\ command' = command
      /\ reader' = reader /\ before' = before
    BY <1>4 DEF MigrateTables, NextSource, RestOfCommand, fixedVars
  <2>2. /\ ControlInv(input, speaks, commands, command, "source", reader, srcNo + 1, 0)
        /\ StreamsInv(commands, "source", reader, srcNo + 1, 0, {}, << >>)
        /\ DeliveredInv(speaks, commands, "source", reader, srcNo + 1, 0, {}, << >>, {}, tableRows)
    BY <1>1, AtUnsent, ToNextSource
  <2>3. cmdStage \in SourceSteps \ {"source"} /\ cmdStage # "closeAll"
    BY <1>1 DEF SourceSteps
  <2>4. RowsTouched(tableRows, tableRows, reader.source[srcNo].name, commands)
    BY NoRowsGrow, GrowIsTouch DEF CommandsInv, RowsInv
  <2>5. ReportsInv(input, commands, "source", reader, srcNo + 1, {}, reported, logged, tableRows)
    <3>1. ReportedSources(commands, reader, srcNo, reported, logged, tableRows)
      BY <2>3 DEF CommandsInv, ReportsInv
    <3>2. RowsInv(speaks, commands, tableRows, before)
      BY DEF CommandsInv
    <3>3. ReportedSources(commands, reader, srcNo + 1, reported, logged, tableRows)
      BY <2>3, <2>4, <3>1, <3>2, AtSource, ReportedStays
    <3> QED BY <3>3 DEF ReportsInv
  <2>6. KeptInv(input, "source", reader, srcNo + 1, ended, tableRows, before)
    BY DEF CommandsInv, KeptInv
  <2> QED BY <1>1, <2>1, <2>2, <2>5, <2>6 DEF CommandsInv
<1>5. CASE ~(command = "migrate" /\ dstNo = Len(Dests))
  <2> DEFINE next == IF command = "migrate" THEN "configure" ELSE "migrate"
             st == cmdStage' j == dstNo'
  <2>1. GoOn(next, "open") /\ fetched' = fetched /\ queues' = queues /\ failing' = failing
    BY <1>5 DEF MigrateTables
  <2>2. next \in {"configure", "migrate"} /\ (command = "migrate" => dstNo # Len(DestsOf(reader, srcNo)))
    BY <1>5, Words
  <2> HIDE DEF next
  <2>3. /\ \/ cmdStage' = next /\ dstNo' = dstNo + 1 /\ dstNo + 1 \in 1..Len(DestsOf(reader, srcNo))
           \/ cmdStage' = "open" /\ dstNo' = 1 /\ dstNo = Len(DestsOf(reader, srcNo))
        /\ srcNo' = srcNo /\ reader' = reader /\ input' = input /\ speaks' = speaks
        /\ commands' = commands /\ command' = command /\ before' = before
    BY <1>2, <2>1, GoingOn
  <2>4. st \in {"configure", "migrate", "open"} /\ (st = "open" => j = 1 /\ command # "migrate")
        /\ (st # "open" => j \in 1..Len(DestsOf(reader, srcNo)))
    BY <2>2, <2>3
  <2> HIDE DEF st, j
  <2>5. /\ ControlInv(input, speaks, commands, command, st, reader, srcNo, j)
        /\ StreamsInv(commands, st, reader, srcNo, j, fetched, queues)
        /\ DeliveredInv(speaks, commands, st, reader, srcNo, j, fetched, queues, failing, tableRows)
        /\ KeptInv(input, st, reader, srcNo, ended, tableRows, before)
        /\ ReportsInv(input, commands, st, reader, srcNo, fetched, reported, logged, tableRows)
    BY <1>1, <2>4, GoneOn
  <2> QED BY <1>1, <2>1, <2>3, <2>5 DEF CommandsInv, st, j
<1> QED BY <1>4, <1>5

-----------------------------------------------------------------------------
(* Commands: while the streams are there. *)

\* While the streams are there: what is known of the source.
AtStreams(in, sp, c, com, st, rd, i, j) ==
  /\ in \in Inputs /\ sp \in Speaks /\ c \in Nat /\ com \in Syncing /\ com # "migrate"
  /\ rd = SpecsOf(in, FALSE) /\ Fine(rd) /\ SoundSpecs(rd, sp)
  /\ i \in 1..Len(rd.source) /\ DestsAre(rd, i) /\ j \in 1..Len(DestsOf(rd, i))

LEMMA ToStreams ==
  ASSUME NEW in, NEW sp, NEW c, NEW com, NEW st, NEW rd, NEW i, NEW j, ControlInv(in, sp, c, com, st, rd, i, j),
         st \in SourceSteps \ Unsent
  PROVE  AtStreams(in, sp, c, com, st, rd, i, j)
<1>1. st \in SourceSteps /\ st # "source"
  BY DEF Unsent
<1>2. c \in Nat /\ com \in Syncing /\ rd = SpecsOf(in, FALSE) /\ Fine(rd) /\ SoundSpecs(rd, sp)
  BY <1>1, InSource
<1>4. i \in 1..Len(rd.source)
  <2>1. i \in Nat \ {0} /\ Len(rd.source) \in Nat
    BY <1>1, InSource
  <2>2. i <= Len(rd.source)
    BY <1>1 DEF ControlInv
  <2> QED BY <2>1, <2>2
<1>5. DestsAre(rd, i)
  BY <1>2, <1>4, DestsAreOnce
<1>3. in \in Inputs /\ sp \in Speaks /\ com # "migrate" /\ j \in 1..Len(DestsOf(rd, i))
  BY DEF ControlInv, Unsent
<1> QED BY <1>2, <1>3, <1>4, <1>5 DEF AtStreams

\* A step from stream to stream, or to stale.
LEMMA ControlStays ==
  ASSUME NEW in, NEW sp, NEW c, NEW com, NEW st, NEW rd, NEW i, NEW j, ControlInv(in, sp, c, com, st, rd, i, j),
         st \in SourceSteps \ Unsent, NEW st2 \in SourceSteps \ Unsent, NEW j2 \in 1..Len(DestsOf(rd, i)),
         st2 = "close" => VersionOf(sp, rd.source[i].name) = 2
  PROVE  ControlInv(in, sp, c, com, st2, rd, i, j2)
<1>1. st2 \notin {"idle", "specs", "check", "source", "v3"}
  BY DEF SourceSteps, Unsent
<1> QED BY <1>1 DEF ControlInv, SourceSteps, Unsent

LEMMA StreamSteps == SourceSteps \ Unsent = {"open", "stream", "stale", "close", "report", "closeAll"}
BY DEF SourceSteps, Unsent

LEMMA OtherDest ==
  ASSUME NEW rd, NEW i, DestsAre(rd, i), NEW m \in 1..Len(DestsOf(rd, i)), NEW j \in 1..Len(DestsOf(rd, i)), m # j
  PROVE  DestsOf(rd, i)[m].name # DestsOf(rd, i)[j].name
BY DEF DestsAre

\* The rows on the streams are of this source, and each is one it gave.
OnStreams(s, c, fet, q) == \A n \in DOMAIN q : \A r \in q[n] : \E k \in fet : r = RowOf(s, k, c)

LEMMA StreamsAre ==
  ASSUME NEW c, NEW st \in SourceSteps \ Unsent, NEW rd, NEW i, NEW j, NEW fet, NEW q
  PROVE  StreamsInv(c, st, rd, i, j, fet, q) <=>
           /\ st = "open" => fet = {}
           /\ DOMAIN q \subseteq DocNames(DestsOf(rd, i)) /\ OnStreams(rd.source[i].name, c, fet, q)
           /\ st = "open" => \A m \in 1..j - 1 : DestsOf(rd, i)[m].name \in DOMAIN q
           /\ st # "open" => \A m \in 1..Len(DestsOf(rd, i)) : DestsOf(rd, i)[m].name \in DOMAIN q
<1>1. st \notin Unsent \cup {"idle", "specs", "check"}
  BY DEF SourceSteps
<1>2. st \in Unsent \cup {"idle", "specs", "check", "open"} <=> st = "open"
  BY <1>1
<1> QED BY <1>1, <1>2 DEF StreamsInv, OnStreams

LEMMA OpenDelivered ==
  ASSUME NEW sp, NEW c, NEW st \in {"open", "stream"}, NEW rd, NEW i, NEW j, NEW q, NEW fail, NEW rows
  PROVE  DeliveredInv(sp, c, st, rd, i, j, {}, q, fail, rows)
BY DEF DeliveredInv, HasRows, IsCleaned

LEMMA OpenStreams ==
  ASSUME NEW c, NEW rd, NEW i, NEW j, NEW q, StreamsInv(c, "open", rd, i, j, {}, q), DestsAre(rd, i), j \in 1..Len(DestsOf(rd, i)),
         NEW n, n = DestsOf(rd, i)[j].name, NEW st, NEW j2,
         (st = "open" /\ j2 = j + 1) \/ (st = "stream" /\ j = Len(DestsOf(rd, i)))
  PROVE  StreamsInv(c, st, rd, i, j2, {}, Put(q, n, {}))
<1> DEFINE p == Put(q, n, {})
<1>1. DOMAIN p = DOMAIN q \cup {n} /\ \A y \in DOMAIN p : p[y] = IF y = n THEN {} ELSE q[y]
  BY DEF Put
<1>2. "open" \in SourceSteps \ Unsent /\ st \in SourceSteps \ Unsent
  BY DEF SourceSteps, Unsent
<1>3. /\ DOMAIN q \subseteq DocNames(DestsOf(rd, i)) /\ OnStreams(rd.source[i].name, c, {}, q)
      /\ \A m \in 1..j - 1 : DestsOf(rd, i)[m].name \in DOMAIN q
  BY <1>2, StreamsAre
<1>4. Len(DestsOf(rd, i)) \in Nat /\ DOMAIN DestsOf(rd, i) = 1..Len(DestsOf(rd, i)) /\ j \in Nat /\ j >= 1
  <2>1. Len(DestsOf(rd, i)) \in Nat /\ DOMAIN DestsOf(rd, i) = 1..Len(DestsOf(rd, i))
    BY DEF DestsAre
  <2> DEFINE L == Len(DestsOf(rd, i))
  <2>2. L \in Nat /\ j \in 1..L
    BY <2>1
  <2> HIDE DEF L
  <2>3. j \in Nat /\ j >= 1
    BY <2>2
  <2> QED BY <2>1, <2>3
<1>5. n \in DocNames(DestsOf(rd, i))
  BY <1>4 DEF DocNames, ToSet
<1> HIDE DEF p
<1>6. OnStreams(rd.source[i].name, c, {}, p)
  BY <1>1, <1>3 DEF OnStreams
<1>7. \A m \in 1..j : DestsOf(rd, i)[m].name \in DOMAIN p
  <2>0. j \in Nat
    BY <1>4
  <2>1. \A m \in 1..j : m = j \/ m \in 1..j - 1
    BY <2>0
  <2> QED BY <1>1, <1>3, <2>1
<1>8. st = "open" => \A m \in 1..j2 - 1 : DestsOf(rd, i)[m].name \in DOMAIN p
  <2>1. st = "open" => j2 - 1 = j
    BY <1>4
  <2> QED BY <1>7, <2>1
<1>9. st # "open" => \A m \in 1..Len(DestsOf(rd, i)) : DestsOf(rd, i)[m].name \in DOMAIN p
  BY <1>7
<1>10. DOMAIN p \subseteq DocNames(DestsOf(rd, i))
  BY <1>1, <1>3, <1>5
<1>11. StreamsInv(c, st, rd, i, j2, {}, p)
  BY <1>2, <1>6, <1>8, <1>9, <1>10, StreamsAre
<1> QED BY <1>11 DEF p

\* One destination of DeliveredInv.
HasDelivered(two, c, st, s, d, m, j, fet, q, fail, rows) ==
  /\ d.name \in fail \/ HasRows(rows[d.name] \cup q[d.name], s, fet, c)
  /\ st \in {"stale", "close"} /\ m < j /\ two = 2 => q[d.name] = {} /\ HasRows(rows[d.name], s, fet, c)
  /\ IsCleaned(st, m, j) => NoneStale(d, rows[d.name], s, c)

LEMMA DeliveredIs ==
  ASSUME NEW sp, NEW c, NEW st, NEW rd, NEW i, NEW j, NEW fet, NEW q, NEW fail, NEW rows
  PROVE  DeliveredInv(sp, c, st, rd, i, j, fet, q, fail, rows) <=>
           (st \in {"stream", "stale", "close", "report", "closeAll"} =>
              \A m \in 1..Len(DestsOf(rd, i)) :
                HasDelivered(VersionOf(sp, rd.source[i].name), c, st, rd.source[i].name, DestsOf(rd, i)[m], m, j, fet, q, fail, rows))
BY DEF DeliveredInv, HasDelivered

LEMMA StreamsStay ==
  ASSUME NEW c, NEW st \in SourceSteps \ Unsent, st # "open", NEW rd, NEW i, NEW j, NEW fet, NEW q,
         DOMAIN q \subseteq DocNames(DestsOf(rd, i)), OnStreams(rd.source[i].name, c, fet, q),
         \A m \in 1..Len(DestsOf(rd, i)) : DestsOf(rd, i)[m].name \in DOMAIN q
  PROVE  StreamsInv(c, st, rd, i, j, fet, q)
BY StreamsAre

LEMMA Streaming ==
  ASSUME CommandsInv, cmdStage \in SourceSteps \ Unsent
  PROVE  /\ AtStreams(input, speaks, commands, command, cmdStage, reader, srcNo, dstNo)
         /\ ControlInv(input, speaks, commands, command, cmdStage, reader, srcNo, dstNo)
         /\ StreamsInv(commands, cmdStage, reader, srcNo, dstNo, fetched, queues)
         /\ DeliveredInv(speaks, commands, cmdStage, reader, srcNo, dstNo, fetched, queues, failing, tableRows)
         /\ RowsInv(speaks, commands, tableRows, before)
         /\ KeptInv(input, cmdStage, reader, srcNo, ended, tableRows, before) /\ KeptRows(input, ended, tableRows, before)
         /\ ReportsInv(input, commands, cmdStage, reader, srcNo, fetched, reported, logged, tableRows)
<1>1. AtStreams(input, speaks, commands, command, cmdStage, reader, srcNo, dstNo)
  BY ToStreams DEF CommandsInv
<1>2. reader = SpecsOf(input, FALSE)
  BY <1>1 DEF AtStreams
<1>3. KeptRows(input, ended, tableRows, before)
  BY DEF CommandsInv, KeptInv
<1> QED BY <1>1, <1>2, <1>3 DEF CommandsInv

\* The rows have grown, the streams are there still.
LEMMA RowsGrown ==
  ASSUME NEW in, NEW sp, NEW c, NEW com, NEW st \in SourceSteps \ Unsent, NEW rd, NEW i, NEW j, AtStreams(in, sp, c, com, st, rd, i, j),
         NEW rows, NEW bef, RowsInv(sp, c, rows, bef), NEW end, KeptInv(in, st, rd, i, end, rows, bef),
         NEW fet, NEW rep, NEW log, ReportsInv(in, c, st, rd, i, fet, rep, log, rows),
         NEW new, RowsGrow(new, rows, rd.source[i].name, c)
  PROVE  RowsInv(sp, c, new, bef) /\ KeptInv(in, st, rd, i, end, new, bef) /\ ReportsInv(in, c, st, rd, i, fet, rep, log, new)
<1>1. c \in Nat /\ SoundSpecs(rd, sp) /\ i \in 1..Len(rd.source)
  BY DEF AtStreams
<1>2. st \in SourceSteps /\ st \notin {"specs", "check", "idle"}
  BY DEF SourceSteps
<1>3. RowsTouched(new, rows, rd.source[i].name, c)
  BY GrowIsTouch
<1>4. RowsInv(sp, c, new, bef)
  BY <1>1, <1>3, RowsStay
<1>5. KeptRows(in, end, new, bef)
  BY <1>1, KeptGrows DEF KeptInv
<1>6. \A old : ReportedSources(c, rd, i, old, log, rows) => ReportedSources(c, rd, i, old, log, new)
  BY <1>1, <1>3, ReportedStays
<1>7. ReportsInv(in, c, st, rd, i, fet, rep, log, new)
  BY <1>2, <1>6 DEF ReportsInv
<1> QED BY <1>4, <1>5, <1>7 DEF KeptInv

LEMMA DestIsKnown ==
  ASSUME NEW in, NEW sp, NEW c, NEW com, NEW st, NEW rd, NEW i, NEW j, AtStreams(in, sp, c, com, st, rd, i, j),
         NEW rows, NEW bef, RowsInv(sp, c, rows, bef), NEW m \in 1..Len(DestsOf(rd, i))
  PROVE  DestsOf(rd, i)[m] \in ToSet(rd.destination) /\ DestsOf(rd, i)[m].name \in DOMAIN rows
<1>1. DestsOf(rd, i)[m] \in ToSet(rd.destination)
  BY DEF AtStreams, DestsAre
<1>2. DestsOf(rd, i)[m].name \in DOMAIN sp["destination"]
  BY <1>1 DEF AtStreams, SoundSpecs
<1> QED BY <1>1, <1>2 DEF RowsInv

\* What a destination does with its stream.
Taken(q2, q, fail2, rows2) ==
  /\ DOMAIN q2 = DOMAIN q
  /\ \A n \in DOMAIN q : q2[n] = q[n] \/ (q[n] # {} /\ q2[n] = {} /\ (n \in fail2 \/ q[n] \subseteq rows2[n]))

LEMMA TakenDelivered ==
  ASSUME NEW in, NEW sp, NEW c, NEW com, NEW st, NEW rd, NEW i, NEW j, AtStreams(in, sp, c, com, st, rd, i, j),
         NEW rows, NEW bef, RowsInv(sp, c, rows, bef), NEW fet, NEW q, StreamsInv(c, st, rd, i, j, fet, q), st # "open",
         NEW fail, DeliveredInv(sp, c, st, rd, i, j, fet, q, fail, rows), NEW fail2, fail \subseteq fail2,
         NEW q2, NEW rows2, Taken(q2, q, fail2, rows2), RowsGrow(rows2, rows, rd.source[i].name, c)
  PROVE  DeliveredInv(sp, c, st, rd, i, j, fet, q2, fail2, rows2)
<1> DEFINE s == rd.source[i].name two == VersionOf(sp, s)
<1>1. SUFFICES ASSUME st \in {"stream", "stale", "close", "report", "closeAll"}, NEW m \in 1..Len(DestsOf(rd, i))
               PROVE  HasDelivered(two, c, st, s, DestsOf(rd, i)[m], m, j, fet, q2, fail2, rows2)
  BY DeliveredIs
<1> DEFINE d == DestsOf(rd, i)[m] n == d.name
<1>2. HasDelivered(two, c, st, s, d, m, j, fet, q, fail, rows)
  BY <1>1, DeliveredIs
<1>3. n \in DOMAIN rows
  BY DestIsKnown
<1>4. n \in DOMAIN q
  BY <1>1 DEF StreamsInv, SourceSteps, Unsent
<1>5. c \in Nat
  BY DEF AtStreams
<1>6. Grows(rows2[n], rows[n], s, c)
  BY <1>3 DEF RowsGrow
<1>7. q2[n] = q[n] \/ (q[n] # {} /\ q2[n] = {} /\ (n \in fail2 \/ q[n] \subseteq rows2[n]))
  BY <1>4 DEF Taken
<1> HIDE DEF s, two, d
<1>8. /\ HasRows(rows[n], s, fet, c) => HasRows(rows2[n], s, fet, c)
      /\ NoneStale(d, rows[n], s, c) => NoneStale(d, rows2[n], s, c)
  BY <1>5, <1>6, GrowsKeeps
<1>9. n \in fail2 \/ HasRows(rows2[n] \cup q2[n], s, fet, c)
  <2>1. CASE n \in fail
    BY <2>1
  <2>2. CASE n \notin fail /\ n \notin fail2
    <3>1. HasRows(rows[n] \cup q[n], s, fet, c)
      BY <1>2, <2>2 DEF HasDelivered
    <3>2. \A k : RowOf(s, k, c) \in rows[n] => RowOf(s, k, c) \in rows2[n]
      BY <1>6 DEF Grows
    <3>3. q[n] \subseteq rows2[n] \cup q2[n]
      BY <1>7, <2>2
    <3> QED BY <3>1, <3>2, <3>3 DEF HasRows
  <2> QED BY <2>1, <2>2
<1>10. st \in {"stale", "close"} /\ m < j /\ two = 2 => q2[n] = {} /\ HasRows(rows2[n], s, fet, c)
  BY <1>2, <1>7, <1>8 DEF HasDelivered
<1>11. IsCleaned(st, m, j) => NoneStale(d, rows2[n], s, c)
  BY <1>2, <1>8 DEF HasDelivered
<1>12. HasDelivered(two, c, st, s, d, m, j, fet, q2, fail2, rows2)
  BY <1>9, <1>10, <1>11 DEF HasDelivered
<1> QED BY <1>12 DEF d

LEMMA ReceiveInv ==
  ASSUME CommandsInv, Receive
  PROVE  CommandsInv'
<1> DEFINE s == reader.source[srcNo].name
<1>1. PICK k \in GivenKeys \ fetched :
        /\ fetched' = fetched \cup {k}
        /\ queues' = [n \in DOMAIN queues |-> IF n \in failing THEN queues[n] ELSE queues[n] \cup {RowOf(s, k, commands)}]
  BY Words DEF Receive
<1>2. cmdStage = "stream" /\ cmdStage' = cmdStage /\ dstNo' = dstNo /\ srcNo' = srcNo
      /\ reader' = reader /\ input' = input /\ speaks' = speaks /\ commands' = commands /\ command' = command /\ failing' = failing
      /\ ended' = ended /\ reported' = reported /\ before' = before /\ logged' = logged
      /\ tableRows' = tableRows
  BY DEF Receive, Going, RestOfCommand, fixedVars, dbVars, reportVars
<1>3. cmdStage \in SourceSteps \ Unsent
  BY <1>2, StreamSteps
<1>4. /\ StreamsInv(commands, cmdStage, reader, srcNo, dstNo, fetched, queues)
      /\ DeliveredInv(speaks, commands, cmdStage, reader, srcNo, dstNo, fetched, queues, failing, tableRows)
  BY <1>3, Streaming
<1> DEFINE q2 == queues' fet2 == fetched \cup {k}
<1>5. /\ DOMAIN q2 = DOMAIN queues
      /\ \A n \in DOMAIN queues : n \in failing => q2[n] = queues[n]
      /\ \A n \in DOMAIN queues : n \notin failing => q2[n] = queues[n] \cup {RowOf(s, k, commands)}
  BY <1>1
<1> HIDE DEF q2, s
<1>6. StreamsInv(commands, cmdStage, reader, srcNo, dstNo, fet2, q2)
  <2>1. /\ DOMAIN queues \subseteq DocNames(DestsOf(reader, srcNo)) /\ OnStreams(s, commands, fetched, queues)
        /\ \A m \in 1..Len(DestsOf(reader, srcNo)) : DestsOf(reader, srcNo)[m].name \in DOMAIN queues
    BY <1>2, <1>3, <1>4, StreamsAre DEF s
  <2>2. OnStreams(s, commands, fet2, q2)
    BY <1>5, <2>1 DEF OnStreams
  <2>3. DOMAIN q2 \subseteq DocNames(DestsOf(reader, srcNo))
        /\ \A m \in 1..Len(DestsOf(reader, srcNo)) : DestsOf(reader, srcNo)[m].name \in DOMAIN q2
    BY <1>5, <2>1
  <2> HIDE DEF fet2
  <2> QED BY <1>2, <1>3, <2>2, <2>3, StreamsStay DEF s
<1>7. DeliveredInv(speaks, commands, cmdStage, reader, srcNo, dstNo, fet2, q2, failing, tableRows)
  <2>1. SUFFICES ASSUME NEW m \in 1..Len(DestsOf(reader, srcNo))
                 PROVE  HasDelivered(VersionOf(speaks, s), commands, cmdStage, s, DestsOf(reader, srcNo)[m], m, dstNo, fet2, q2, failing, tableRows)
    BY DeliveredIs DEF s
  <2> DEFINE d == DestsOf(reader, srcNo)[m] n == d.name two == VersionOf(speaks, s)
  <2>2. HasDelivered(two, commands, cmdStage, s, d, m, dstNo, fetched, queues, failing, tableRows)
    BY <1>2, <1>4, DeliveredIs DEF s
  <2>3. n \in DOMAIN queues
    BY <1>2, <1>3, <1>4, StreamsAre
  <2> HIDE DEF d, two
  <2>4. n \in failing \/ HasRows(tableRows[n] \cup q2[n], s, fet2, commands)
    BY <1>5, <2>2, <2>3 DEF HasDelivered, HasRows
  <2>5. HasDelivered(two, commands, cmdStage, s, d, m, dstNo, fet2, q2, failing, tableRows)
    BY <1>2, <2>4 DEF HasDelivered, IsCleaned
  <2> QED BY <2>5 DEF d, two
<1>8. ReportsInv(input, commands, cmdStage, reader, srcNo, fet2, reported, logged, tableRows)
  <2>1. cmdStage # "closeAll"
    BY <1>2
  <2> QED BY <1>2, <2>1 DEF CommandsInv, ReportsInv
<1> QED BY <1>1, <1>2, <1>6, <1>7, <1>8 DEF CommandsInv, q2

LEMMA OpenStreamInv ==
  ASSUME CommandsInv, OpenStream
  PROVE  CommandsInv'
<1> DEFINE d == DestsOf(reader, srcNo)[dstNo]
           n == d.name q2 == Put(queues, n, {}) st == cmdStage' j == dstNo'
<1>1. cmdStage = "open" /\ queues' = q2
      /\ GoOn("open", "stream") /\ fetched' = fetched /\ failing' = failing
      /\ ended' = ended /\ reported' = reported /\ logged' = logged /\ tableRows' = tableRows
  BY Words DEF OpenStream, reportVars
<1>2. cmdStage \in SourceSteps \ Unsent
  BY <1>1, StreamSteps
<1>3. AtStreams(input, speaks, commands, command, cmdStage, reader, srcNo, dstNo)
  BY <1>2, Streaming
<1>4. /\ dstNo \in 1..Len(DestsOf(reader, srcNo)) /\ Len(DestsOf(reader, srcNo)) \in Nat /\ 1 \in 1..Len(DestsOf(reader, srcNo))
      /\ DestsAre(reader, srcNo) /\ d \in ToSet(reader.destination) /\ reader = SpecsOf(input, FALSE) /\ Fine(reader)
      /\ command # "migrate"
  <2>1. DestsAre(reader, srcNo) /\ dstNo \in 1..Len(DestsOf(reader, srcNo)) /\ reader = SpecsOf(input, FALSE) /\ Fine(reader)
        /\ command # "migrate"
    BY <1>3 DEF AtStreams
  <2>2. Len(DestsOf(reader, srcNo)) \in Nat \ {0} /\ d \in ToSet(reader.destination)
    BY <2>1 DEF DestsAre
  <2>3. 1 \in 1..Len(DestsOf(reader, srcNo))
    BY <2>2
  <2> QED BY <2>1, <2>2, <2>3
<1>6. /\ \/ cmdStage' = "open" /\ dstNo' = dstNo + 1 /\ dstNo + 1 \in 1..Len(DestsOf(reader, srcNo))
         \/ cmdStage' = "stream" /\ dstNo' = 1 /\ dstNo = Len(DestsOf(reader, srcNo))
      /\ srcNo' = srcNo /\ reader' = reader /\ input' = input /\ speaks' = speaks
      /\ commands' = commands /\ command' = command /\ before' = before
  BY <1>1, <1>4, GoingOn
<1> HIDE DEF d, q2
<1>7. st \in {"open", "stream"} /\ j \in 1..Len(DestsOf(reader, srcNo))
      /\ ((st = "open" /\ j = dstNo + 1) \/ (st = "stream" /\ dstNo = Len(DestsOf(reader, srcNo))))
  BY <1>4, <1>6
<1> HIDE DEF st, j, n
<1>8. st \in SourceSteps \ Unsent /\ st # "close"
  BY <1>7, StreamSteps
<1>9. ControlInv(input, speaks, commands, command, st, reader, srcNo, j)
  <2>1. ControlInv(input, speaks, commands, command, cmdStage, reader, srcNo, dstNo)
    BY DEF CommandsInv
  <2> QED BY <1>2, <1>7, <1>8, <2>1, ControlStays
<1>10. fetched = {}
  BY <1>1 DEF CommandsInv, StreamsInv
<1>11. StreamsInv(commands, st, reader, srcNo, j, fetched, q2)
  <2>1. StreamsInv(commands, "open", reader, srcNo, dstNo, {}, queues)
    BY <1>1, <1>10 DEF CommandsInv
  <2>2. n = DestsOf(reader, srcNo)[dstNo].name
    BY DEF n, d
  <2>3. StreamsInv(commands, st, reader, srcNo, j, {}, Put(queues, n, {}))
    BY <1>4, <1>7, <2>1, <2>2, OpenStreams
  <2> QED BY <1>10, <2>3 DEF q2
<1>12. DeliveredInv(speaks, commands, st, reader, srcNo, j, fetched, q2, failing, tableRows)
  BY <1>7, <1>10, OpenDelivered
<1>13. KeptInv(input, st, reader, srcNo, ended, tableRows, before) /\ ReportsInv(input, commands, st, reader, srcNo, fetched, reported, logged, tableRows)
  <2>1. st \notin {"stale", "close", "report"} /\ cmdStage \in SourceSteps \ {"closeAll"} /\ st \in SourceSteps \ {"closeAll"}
    BY <1>1, <1>2, <1>7, <1>8
  <2>2. KeptInv(input, cmdStage, reader, srcNo, ended, tableRows, before) /\ ReportsInv(input, commands, cmdStage, reader, srcNo, fetched, reported, logged, tableRows)
    BY DEF CommandsInv
  <2> QED BY <2>1, <2>2, NothingMoves
<1>14. RowsInv(speaks, commands, tableRows, before)
  BY DEF CommandsInv
<1> QED BY <1>1, <1>4, <1>6, <1>9, <1>11, <1>12, <1>13, <1>14 DEF CommandsInv, st, j

LEMMA DestinationWritesInv ==
  ASSUME CommandsInv, DestinationWrites
  PROVE  CommandsInv'
<1>1. PICK n \in DOMAIN queues :
        /\ queues[n] # {}
        /\ \/ tableRows' = [tableRows EXCEPT ![n] = Store(DestNamed(n), queues[n], @)] /\ failing' = failing
           \/ failing' = failing \cup {n} /\ tableRows' = tableRows
        /\ queues' = [queues EXCEPT ![n] = {}]
  BY DEF DestinationWrites
<1>2. cmdStage' = cmdStage /\ dstNo' = dstNo /\ srcNo' = srcNo
      /\ reader' = reader /\ input' = input /\ speaks' = speaks /\ commands' = commands /\ command' = command
      /\ ended' = ended /\ reported' = reported /\ before' = before /\ logged' = logged
      /\ fetched' = fetched
  BY DEF DestinationWrites, Going, RestOfCommand, fixedVars, reportVars
<1>3. cmdStage \in SourceSteps \ Unsent
  <2>1. cmdStage \in {"idle", "specs", "check"} \cup SourceSteps
    BY DEF CommandsInv, ControlInv
  <2>2. queues # << >>
    BY NothingThere
  <2> QED BY <2>1, <2>2 DEF CommandsInv, StreamsInv
<1>4. fetched # {}
  BY <1>1, QueuesHold
<1>5. cmdStage # "open"
  BY <1>4 DEF CommandsInv, StreamsInv
<1> DEFINE s == reader.source[srcNo].name rows2 == tableRows' fail2 == failing' q2 == queues'
<1>6. /\ AtStreams(input, speaks, commands, command, cmdStage, reader, srcNo, dstNo)
      /\ StreamsInv(commands, cmdStage, reader, srcNo, dstNo, fetched, queues)
      /\ DeliveredInv(speaks, commands, cmdStage, reader, srcNo, dstNo, fetched, queues, failing, tableRows)
      /\ RowsInv(speaks, commands, tableRows, before)
      /\ KeptInv(input, cmdStage, reader, srcNo, ended, tableRows, before)
      /\ ReportsInv(input, commands, cmdStage, reader, srcNo, fetched, reported, logged, tableRows)
  BY <1>3, Streaming
<1>7. tableRows = [x \in DOMAIN speaks["destination"] |-> tableRows[x]]
  BY <1>6 DEF RowsInv
<1>8. \A r \in queues[n] : \E k : r = RowOf(s, k, commands)
  BY QueuesHold
<1>9. Grows(Store(DestNamed(n), queues[n], tableRows[n]), tableRows[n], s, commands)
      /\ queues[n] \subseteq Store(DestNamed(n), queues[n], tableRows[n])
  <2> HIDE DEF s
  <2> QED BY <1>8, StoreGrows
<1>10. n \in DOMAIN tableRows
  <2>1. n \in DocNames(DestsOf(reader, srcNo))
    BY <1>3, <1>6, StreamsAre
  <2>2. cmdStage \in SourceSteps \ {"source"}
    BY <1>3 DEF Unsent
  <2>3. DestNamed(n) \in ToSet(reader.destination) /\ DestNamed(n).name = n
    BY <2>1, <2>2, DestNameKnown
  <2>4. n \in DOMAIN speaks["destination"]
    BY <1>6, <2>3 DEF AtStreams, SoundSpecs
  <2> QED BY <1>7, <2>4
<1> HIDE DEF s
<1>11. RowsGrow(rows2, tableRows, s, commands)
  <2>1. CASE rows2 = tableRows
    BY <1>7, <2>1, NoRowsGrow
  <2>2. CASE rows2 = [tableRows EXCEPT ![n] = Store(DestNamed(n), queues[n], @)]
    <3>1. \A x \in DOMAIN tableRows : Grows(rows2[x], tableRows[x], s, commands)
      BY <1>9, <2>2, GrowsNot
    <3>2. rows2 = [x \in DOMAIN tableRows |-> rows2[x]]
      BY <2>2
    <3> HIDE DEF rows2
    <3> QED BY <3>1, <3>2 DEF RowsGrow
  <2> QED BY <1>1, <2>1, <2>2
<1>12. Taken(q2, queues, fail2, rows2) /\ failing \subseteq fail2
  <2>1. DOMAIN q2 = DOMAIN queues /\ q2[n] = {} /\ \A x \in DOMAIN queues : x # n => q2[x] = queues[x]
    BY <1>1
  <2>2. (n \in fail2 \/ queues[n] \subseteq rows2[n]) /\ failing \subseteq fail2
    BY <1>1, <1>9, <1>10
  <2> HIDE DEF q2, fail2, rows2
  <2> QED BY <1>1, <2>1, <2>2 DEF Taken
<1>13. OnStreams(s, commands, fetched, q2) /\ DOMAIN q2 = DOMAIN queues
  <2>1. OnStreams(s, commands, fetched, queues)
    BY <1>3, <1>6, StreamsAre DEF s
  <2>2. DOMAIN q2 = DOMAIN queues /\ \A x \in DOMAIN queues : q2[x] = {} \/ q2[x] = queues[x]
    BY <1>1
  <2> HIDE DEF q2
  <2> QED BY <2>1, <2>2 DEF OnStreams
<1> HIDE DEF q2, fail2, rows2
<1>14. StreamsInv(commands, cmdStage, reader, srcNo, dstNo, fetched, q2)
  <2>1. DOMAIN queues \subseteq DocNames(DestsOf(reader, srcNo))
        /\ \A m \in 1..Len(DestsOf(reader, srcNo)) : DestsOf(reader, srcNo)[m].name \in DOMAIN queues
    BY <1>3, <1>5, <1>6, StreamsAre
  <2>2. DOMAIN q2 \subseteq DocNames(DestsOf(reader, srcNo))
        /\ \A m \in 1..Len(DestsOf(reader, srcNo)) : DestsOf(reader, srcNo)[m].name \in DOMAIN q2
    BY <1>13, <2>1
  <2>3. OnStreams(reader.source[srcNo].name, commands, fetched, q2)
    BY <1>13 DEF s
  <2> QED BY <1>3, <1>5, <2>2, <2>3, StreamsStay
<1>15. RowsGrow(rows2, tableRows, reader.source[srcNo].name, commands)
  BY <1>11 DEF s
<1>16. DeliveredInv(speaks, commands, cmdStage, reader, srcNo, dstNo, fetched, q2, fail2, rows2)
  BY <1>5, <1>6, <1>12, <1>15, TakenDelivered
<1>17. RowsInv(speaks, commands, rows2, before) /\ KeptInv(input, cmdStage, reader, srcNo, ended, rows2, before)
       /\ ReportsInv(input, commands, cmdStage, reader, srcNo, fetched, reported, logged, rows2)
  BY <1>3, <1>6, <1>15, RowsGrown
<1> QED BY <1>2, <1>14, <1>16, <1>17 DEF CommandsInv, q2, fail2, rows2

LEMMA SourceEndsInv ==
  ASSUME CommandsInv, SourceEnds
  PROVE  CommandsInv'
<1> DEFINE s == reader.source[srcNo].name end == ended \cup {s}
<1>1. cmdStage = "stream" /\ cmdStage' = "stale" /\ dstNo' = 1 /\ srcNo' = srcNo /\ ended' = end
      /\ reader' = reader /\ input' = input /\ speaks' = speaks /\ commands' = commands /\ command' = command
      /\ queues' = queues /\ failing' = failing /\ reported' = reported /\ before' = before
      /\ logged' = logged /\ fetched' = fetched /\ tableRows' = tableRows
  BY Words DEF SourceEnds, Going, RestOfCommand, fixedVars, dbVars
<1>2. cmdStage \in SourceSteps \ Unsent /\ "stale" \in SourceSteps \ Unsent
  BY <1>1, StreamSteps
<1>3. /\ AtStreams(input, speaks, commands, command, cmdStage, reader, srcNo, dstNo)
      /\ ControlInv(input, speaks, commands, command, cmdStage, reader, srcNo, dstNo)
      /\ StreamsInv(commands, cmdStage, reader, srcNo, dstNo, fetched, queues)
      /\ DeliveredInv(speaks, commands, cmdStage, reader, srcNo, dstNo, fetched, queues, failing, tableRows)
      /\ RowsInv(speaks, commands, tableRows, before)
      /\ KeptInv(input, cmdStage, reader, srcNo, ended, tableRows, before)
      /\ ReportsInv(input, commands, cmdStage, reader, srcNo, fetched, reported, logged, tableRows)
  BY <1>2, Streaming
<1>4. 1 \in 1..Len(DestsOf(reader, srcNo))
  <2>1. DestsAre(reader, srcNo)
    BY <1>3 DEF AtStreams
  <2>2. Len(DestsOf(reader, srcNo)) \in Nat \ {0}
    BY <2>1 DEF DestsAre
  <2> QED BY <2>2
<1>5. ControlInv(input, speaks, commands, command, "stale", reader, srcNo, 1)
  BY <1>2, <1>3, <1>4, ControlStays
<1>6. StreamsInv(commands, "stale", reader, srcNo, 1, fetched, queues)
  <2>1. /\ DOMAIN queues \subseteq DocNames(DestsOf(reader, srcNo)) /\ OnStreams(reader.source[srcNo].name, commands, fetched, queues)
        /\ \A m \in 1..Len(DestsOf(reader, srcNo)) : DestsOf(reader, srcNo)[m].name \in DOMAIN queues
    BY <1>1, <1>2, <1>3, StreamsAre
  <2> QED BY <1>2, <2>1, StreamsStay
<1>7. DeliveredInv(speaks, commands, "stale", reader, srcNo, 1, fetched, queues, failing, tableRows)
  <2>1. SUFFICES ASSUME NEW m \in 1..Len(DestsOf(reader, srcNo))
                 PROVE  HasDelivered(VersionOf(speaks, s), commands, "stale", s, DestsOf(reader, srcNo)[m], m, 1, fetched, queues, failing, tableRows)
    BY DeliveredIs
  <2> DEFINE d == DestsOf(reader, srcNo)[m] two == VersionOf(speaks, s)
  <2>2. HasDelivered(two, commands, cmdStage, s, d, m, dstNo, fetched, queues, failing, tableRows)
    BY <1>1, <1>3, DeliveredIs
  <2>3. ~(m < 1) /\ (m <= 1 => m = 1)
    <3> DEFINE L == Len(DestsOf(reader, srcNo))
    <3>1. m \in 1..L
      OBVIOUS
    <3> HIDE DEF L
    <3> QED BY <3>1
  <2> HIDE DEF d, two, s
  <2>4. HasDelivered(two, commands, "stale", s, d, m, 1, fetched, queues, failing, tableRows)
    BY <2>2, <2>3 DEF HasDelivered, IsCleaned
  <2> QED BY <2>4 DEF d, two
<1>8. KeptInv(input, "stale", reader, srcNo, end, tableRows, before) /\ ReportsInv(input, commands, "stale", reader, srcNo, fetched, reported, logged, tableRows)
  <2>1. cmdStage \in SourceSteps \ {"closeAll"} /\ "stale" \in SourceSteps \ {"closeAll"}
    BY <1>1, <1>2
  <2> QED BY <1>3, <2>1, NothingMoves
<1>9. reader = SpecsOf(input, FALSE)
  BY <1>3 DEF AtStreams
<1> HIDE DEF end
<1> QED BY <1>1, <1>3, <1>5, <1>6, <1>7, <1>8, <1>9 DEF CommandsInv

\* The rows of a destination but for the stale ones, where those go.
Fresh(d, rows, s, c) == {r \in rows : d.write = "overwrite-delete-stale" => ~(r.source = s /\ r.time < c)}

LEMMA FreshIs ==
  ASSUME NEW d, NEW rows, NEW s, NEW c \in Nat, \A r \in rows : r.time \in Nat /\ r.time <= c, NEW keys
  PROVE  /\ Touches(Fresh(d, rows, s, c), rows, s, c) /\ NoneStale(d, Fresh(d, rows, s, c), s, c)
         /\ \A k : RowOf(s, k, c) \in rows => RowOf(s, k, c) \in Fresh(d, rows, s, c)
<1> DEFINE new == Fresh(d, rows, s, c)
<1>1. \A r \in new : r \in rows /\ (d.write = "overwrite-delete-stale" => ~(r.source = s /\ r.time < c))
  BY DEF Fresh
<1>2. \A r \in rows : r.source # s \/ ~(r.time < c) => r \in new
  BY DEF Fresh
<1> HIDE DEF new
<1>3. Touches(new, rows, s, c)
  BY <1>1, <1>2 DEF Touches, SameElse
<1>4. NoneStale(d, new, s, c)
  <2>1. SUFFICES ASSUME d.write = "overwrite-delete-stale", NEW r \in new, r.source = s PROVE r.time = c
    BY DEF NoneStale
  <2>2. r.time \in Nat /\ r.time <= c /\ ~(r.time < c)
    BY <1>1, <2>1
  <2> QED BY <2>2
<1>5. \A k : RowOf(s, k, c) \in rows => RowOf(s, k, c) \in new
  BY <1>2, RowIs
<1> QED BY <1>3, <1>4, <1>5 DEF new

\* Only the rows of a destination change.
OneChanges(rows2, rows, n, new) ==
  /\ rows2 = [x \in DOMAIN rows |-> rows2[x]] /\ rows2[n] = new /\ \A x \in DOMAIN rows : x # n => rows2[x] = rows[x]

LEMMA OneTouched ==
  ASSUME NEW rows2, NEW rows, NEW n, NEW new, OneChanges(rows2, rows, n, new), NEW s, NEW c
  PROVE  /\ Touches(new, rows[n], s, c) => RowsTouched(rows2, rows, s, c)
         /\ Grows(new, rows[n], s, c) => RowsGrow(rows2, rows, s, c)
<1>1. \A x : Grows(rows[x], rows[x], s, c) /\ Touches(rows[x], rows[x], s, c)
  BY GrowsNot DEF Grows
<1>2. \A x \in DOMAIN rows : rows2[x] = rows[x] \/ (x = n /\ rows2[x] = new)
  BY DEF OneChanges
<1>3. Touches(new, rows[n], s, c) => RowsTouched(rows2, rows, s, c)
  BY <1>1, <1>2 DEF OneChanges, RowsTouched
<1>4. Grows(new, rows[n], s, c) => RowsGrow(rows2, rows, s, c)
  BY <1>1, <1>2 DEF OneChanges, RowsGrow
<1> QED BY <1>3, <1>4

\* Its stale rows are gone: on to its close, or to the next destination.
LEMMA FreshDelivered ==
  ASSUME NEW in, NEW sp, NEW c, NEW com, NEW rd, NEW i, NEW j, AtStreams(in, sp, c, com, "stale", rd, i, j),
         NEW rows, NEW bef, RowsInv(sp, c, rows, bef), NEW fet, NEW q,
         NEW fail, DeliveredInv(sp, c, "stale", rd, i, j, fet, q, fail, rows),
         NEW d, d = DestsOf(rd, i)[j], NEW rows2, OneChanges(rows2, rows, d.name, Fresh(d, rows[d.name], rd.source[i].name, c)),
         NEW st, NEW j2,
         \/ st = "close" /\ j2 = j
         \/ st = "stale" /\ j2 = j + 1 /\ VersionOf(sp, rd.source[i].name) # 2
         \/ st = "report" /\ j = Len(DestsOf(rd, i))
  PROVE  DeliveredInv(sp, c, st, rd, i, j2, fet, q, fail, rows2)
<1> DEFINE s == rd.source[i].name two == VersionOf(sp, s)
<1>1. SUFFICES ASSUME NEW m \in 1..Len(DestsOf(rd, i))
               PROVE  HasDelivered(two, c, st, s, DestsOf(rd, i)[m], m, j2, fet, q, fail, rows2)
  BY DeliveredIs
<1> DEFINE e == DestsOf(rd, i)[m] n == e.name
<1>2. HasDelivered(two, c, "stale", s, e, m, j, fet, q, fail, rows)
  BY DeliveredIs
<1>3. n \in DOMAIN rows /\ d.name \in DOMAIN rows
  <2>1. j \in 1..Len(DestsOf(rd, i))
    BY DEF AtStreams
  <2> QED BY <2>1, DestIsKnown
<1>4. c \in Nat /\ j \in Nat /\ m \in Nat
  <2>1. c \in Nat /\ j \in 1..Len(DestsOf(rd, i)) /\ DestsAre(rd, i)
    BY DEF AtStreams
  <2> DEFINE L == Len(DestsOf(rd, i))
  <2>2. j \in 1..L /\ m \in 1..L
    BY <2>1
  <2> HIDE DEF L
  <2>3. j \in Nat /\ m \in Nat
    BY <2>2
  <2> QED BY <2>1, <2>3
<1>5. /\ NoneStale(d, rows2[d.name], s, c)
      /\ \A k : RowOf(s, k, c) \in rows[d.name] => RowOf(s, k, c) \in rows2[d.name]
  <2>1. \A r \in rows[d.name] : r.time \in Nat /\ r.time <= c
    BY <1>3 DEF RowsInv
  <2>2. rows2[d.name] = Fresh(d, rows[d.name], s, c)
    BY DEF OneChanges
  <2> HIDE DEF s
  <2> QED BY <1>4, <2>1, <2>2, FreshIs
<1>6. n # d.name => rows2[n] = rows[n]
  BY <1>3 DEF OneChanges
<1>7. m # j => n # d.name
  <2>1. j \in 1..Len(DestsOf(rd, i)) /\ DestsAre(rd, i)
    BY DEF AtStreams
  <2> QED BY <2>1, OtherDest
<1>8. m = j => e = d
  OBVIOUS
<1> HIDE DEF s, two, e
<1>9. \A k : RowOf(s, k, c) \in rows[n] => RowOf(s, k, c) \in rows2[n]
  BY <1>5, <1>6
<1>10. n \in fail \/ HasRows(rows2[n] \cup q[n], s, fet, c)
  BY <1>2, <1>9 DEF HasDelivered, HasRows
<1>11. st \in {"stale", "close"} /\ m < j2 /\ two = 2 => q[n] = {} /\ HasRows(rows2[n], s, fet, c)
  <2>1. SUFFICES ASSUME st \in {"stale", "close"}, m < j2, two = 2 PROVE q[n] = {} /\ HasRows(rows2[n], s, fet, c)
    OBVIOUS
  <2>2. m < j
    BY <2>1 DEF two, s
  <2>3. rows2[n] = rows[n]
    BY <1>4, <1>6, <1>7, <2>2
  <2> QED BY <1>2, <2>1, <2>2, <2>3 DEF HasDelivered
<1>12. IsCleaned(st, m, j2) => NoneStale(e, rows2[n], s, c)
  <2>1. SUFFICES ASSUME IsCleaned(st, m, j2) PROVE NoneStale(e, rows2[n], s, c)
    OBVIOUS
  <2>2. m <= j
    <3>1. CASE st = "report"
      BY <1>4, <3>1
    <3>2. CASE st # "report"
      BY <1>4, <2>1, <3>2 DEF IsCleaned
    <3> QED BY <3>1, <3>2
  <2>3. CASE m = j
    BY <1>5, <1>8, <2>3
  <2>4. CASE m # j
    <3>1. rows2[n] = rows[n]
      BY <1>6, <1>7, <2>4
    <3>2. IsCleaned("stale", m, j)
      BY <2>2, <2>4 DEF IsCleaned
    <3> QED BY <1>2, <3>1, <3>2 DEF HasDelivered
  <2> QED BY <2>3, <2>4
<1>13. HasDelivered(two, c, st, s, e, m, j2, fet, q, fail, rows2)
  BY <1>10, <1>11, <1>12 DEF HasDelivered
<1> QED BY <1>13 DEF e

LEMMA SendDeleteStaleInv ==
  ASSUME CommandsInv, SendDeleteStale
  PROVE  CommandsInv'
<1> DEFINE s == reader.source[srcNo].name d == DestsOf(reader, srcNo)[dstNo] n == d.name
           rows2 == tableRows' st == cmdStage' j == dstNo'
<1>1. cmdStage = "stale"
      /\ rows2 = (IF d.write = "overwrite-delete-stale"
                  THEN [tableRows EXCEPT ![n] = {r \in @ : ~(r.source = s /\ r.time < commands)}] ELSE tableRows)
      /\ ended' = ended /\ queues' = queues /\ failing' = failing /\ reported' = reported
      /\ logged' = logged /\ fetched' = fetched
  BY Words DEF SendDeleteStale, reportVars
<1>2. cmdStage \in SourceSteps \ Unsent
  BY <1>1, StreamSteps
<1>3. /\ AtStreams(input, speaks, commands, command, "stale", reader, srcNo, dstNo)
      /\ ControlInv(input, speaks, commands, command, cmdStage, reader, srcNo, dstNo)
      /\ StreamsInv(commands, cmdStage, reader, srcNo, dstNo, fetched, queues)
      /\ DeliveredInv(speaks, commands, "stale", reader, srcNo, dstNo, fetched, queues, failing, tableRows)
      /\ RowsInv(speaks, commands, tableRows, before)
      /\ KeptInv(input, cmdStage, reader, srcNo, ended, tableRows, before)
      /\ ReportsInv(input, commands, cmdStage, reader, srcNo, fetched, reported, logged, tableRows)
  BY <1>1, <1>2, Streaming
<1>4. /\ dstNo \in 1..Len(DestsOf(reader, srcNo)) /\ Len(DestsOf(reader, srcNo)) \in Nat
      /\ DestsAre(reader, srcNo) /\ reader = SpecsOf(input, FALSE) /\ SoundSpecs(reader, speaks)
      /\ commands \in Nat /\ srcNo \in 1..Len(reader.source)
  <2>1. DestsAre(reader, srcNo) /\ dstNo \in 1..Len(DestsOf(reader, srcNo)) /\ reader = SpecsOf(input, FALSE)
        /\ SoundSpecs(reader, speaks) /\ commands \in Nat /\ srcNo \in 1..Len(reader.source)
    BY <1>3 DEF AtStreams
  <2>2. Len(DestsOf(reader, srcNo)) \in Nat
    BY <2>1 DEF DestsAre
  <2> QED BY <2>1, <2>2
<1>5. n \in DOMAIN tableRows /\ tableRows = [x \in DOMAIN tableRows |-> tableRows[x]]
  <2>1. n \in DOMAIN tableRows
    BY <1>3, <1>4, DestIsKnown
  <2> QED BY <1>3, <2>1 DEF RowsInv
<1> HIDE DEF s, d
<1>6. OneChanges(rows2, tableRows, n, Fresh(d, tableRows[n], s, commands))
  <2>1. CASE d.write = "overwrite-delete-stale"
    <3>1. Fresh(d, tableRows[n], s, commands) = {r \in tableRows[n] : ~(r.source = s /\ r.time < commands)}
      BY <2>1 DEF Fresh
    <3>2. rows2 = [tableRows EXCEPT ![n] = Fresh(d, tableRows[n], s, commands)]
      BY <1>1, <2>1, <3>1
    <3> HIDE DEF rows2
    <3>3. rows2[n] = Fresh(d, tableRows[n], s, commands)
      BY <1>5, <3>2
    <3>4. \A x \in DOMAIN tableRows : x # n => rows2[x] = tableRows[x]
      BY <3>2
    <3>5. rows2 = [x \in DOMAIN tableRows |-> rows2[x]]
      BY <3>2
    <3> QED BY <3>3, <3>4, <3>5 DEF OneChanges
  <2>2. CASE d.write # "overwrite-delete-stale"
    <3>1. Fresh(d, tableRows[n], s, commands) = tableRows[n]
      BY <2>2 DEF Fresh
    <3>2. rows2 = tableRows
      BY <1>1, <2>2
    <3> HIDE DEF rows2
    <3> QED BY <1>5, <3>1, <3>2 DEF OneChanges
  <2> QED BY <2>1, <2>2
<1>7. RowsTouched(rows2, tableRows, s, commands)
  <2>1. \A r \in tableRows[n] : r.time \in Nat /\ r.time <= commands
    BY <1>3, <1>5 DEF RowsInv
  <2> DEFINE old == tableRows[n] new == Fresh(d, old, s, commands)
  <2>2. \A r \in old : r.time \in Nat /\ r.time <= commands
    BY <2>1
  <2> HIDE DEF old
  <2>3. Touches(new, old, s, commands)
    BY <1>4, <2>2, FreshIs
  <2> HIDE DEF new, rows2
  <2>4. OneChanges(rows2, tableRows, n, new) /\ Touches(new, tableRows[n], s, commands)
    BY <1>6, <2>3 DEF new, old
  <2> QED BY <2>4, OneTouched
<1>8. /\ \/ st = "close" /\ j = dstNo /\ VersionOf(speaks, s) = 2
         \/ st = "stale" /\ j = dstNo + 1 /\ j \in 1..Len(DestsOf(reader, srcNo)) /\ VersionOf(speaks, s) # 2
         \/ st = "report" /\ j = 1 /\ dstNo = Len(DestsOf(reader, srcNo))
      /\ srcNo' = srcNo /\ reader' = reader /\ input' = input /\ speaks' = speaks
      /\ commands' = commands /\ command' = command /\ before' = before
  <2>1. CASE Version = 2
    BY <2>1, Words DEF SendDeleteStale, Going, RestOfCommand, fixedVars, s
  <2>2. CASE Version # 2
    <3>1. GoOn("stale", "report")
      BY <2>2 DEF SendDeleteStale
    <3>2. /\ \/ cmdStage' = "stale" /\ dstNo' = dstNo + 1 /\ dstNo + 1 \in 1..Len(DestsOf(reader, srcNo))
             \/ cmdStage' = "report" /\ dstNo' = 1 /\ dstNo = Len(DestsOf(reader, srcNo))
          /\ srcNo' = srcNo /\ reader' = reader /\ input' = input /\ speaks' = speaks
          /\ commands' = commands /\ command' = command /\ before' = before
      BY <1>4, <3>1, GoingOn
    <3>3. VersionOf(speaks, s) # 2
      BY <2>2, Words DEF s
    <3> QED BY <3>2, <3>3
  <2> QED BY <2>1, <2>2
<1> HIDE DEF st, j, n
<1>9. st \in {"stale", "close", "report"} /\ st \in SourceSteps \ Unsent /\ st # "open"
      /\ (st = "close" => VersionOf(speaks, s) = 2)
  BY <1>8, StreamSteps
<1>10. j \in 1..Len(DestsOf(reader, srcNo))
  <2> DEFINE L == Len(DestsOf(reader, srcNo))
  <2>1. dstNo \in 1..L /\ L \in Nat /\ (j = dstNo \/ j \in 1..L \/ j = 1)
    BY <1>4, <1>8
  <2> HIDE DEF L
  <2>2. j \in 1..L
    BY <2>1
  <2> QED BY <2>2 DEF L
<1>11. ControlInv(input, speaks, commands, command, st, reader, srcNo, j)
  BY <1>2, <1>3, <1>9, <1>10, ControlStays DEF s
<1>12. StreamsInv(commands, st, reader, srcNo, j, fetched, queues)
  <2>1. /\ DOMAIN queues \subseteq DocNames(DestsOf(reader, srcNo)) /\ OnStreams(reader.source[srcNo].name, commands, fetched, queues)
        /\ \A m \in 1..Len(DestsOf(reader, srcNo)) : DestsOf(reader, srcNo)[m].name \in DOMAIN queues
    BY <1>1, <1>2, <1>3, StreamsAre
  <2> QED BY <1>9, <2>1, StreamsStay
<1> HIDE DEF rows2
<1>13. DeliveredInv(speaks, commands, st, reader, srcNo, j, fetched, queues, failing, rows2)
  <2>1. \/ st = "close" /\ j = dstNo
        \/ st = "stale" /\ j = dstNo + 1 /\ VersionOf(speaks, reader.source[srcNo].name) # 2
        \/ st = "report" /\ dstNo = Len(DestsOf(reader, srcNo))
    BY <1>8 DEF s
  <2>2. d = DestsOf(reader, srcNo)[dstNo]
        /\ OneChanges(rows2, tableRows, d.name, Fresh(d, tableRows[d.name], reader.source[srcNo].name, commands))
    BY <1>6 DEF d, s, n
  <2> QED BY <1>3, <2>1, <2>2, FreshDelivered
<1>14. RowsInv(speaks, commands, rows2, before)
  BY <1>3, <1>4, <1>7, RowsStay
<1>15. KeptInv(input, st, reader, srcNo, ended, rows2, before)
  <2>1. s \in ended /\ KeptRows(input, ended, tableRows, before)
    BY <1>1, <1>3 DEF KeptInv, s
  <2>2. d \in ToSet(SpecsOf(input, FALSE).destination) /\ d.name = n
    BY <1>3, <1>4, DestIsKnown DEF d, n
  <2>3. \A x \in DOMAIN tableRows : MayGo(input, x) \/ Grows(rows2[x], tableRows[x], s, commands)
    <3>1. CASE d.write = "overwrite-delete-stale"
      <4>1. MayGo(input, n)
        BY <2>2, <3>1 DEF MayGo
      <4>2. \A x \in DOMAIN tableRows : x # n => rows2[x] = tableRows[x]
        BY <1>6 DEF OneChanges
      <4> QED BY <4>1, <4>2, GrowsNot
    <3>2. CASE d.write # "overwrite-delete-stale"
      <4>1. rows2 = tableRows
        BY <1>1, <3>2 DEF rows2
      <4> QED BY <4>1, GrowsNot
    <3> QED BY <3>1, <3>2
  <2>4. KeptRows(input, ended, rows2, before)
    BY <1>3, <1>4, <1>7, <2>1, <2>3, KeptTouched
  <2> QED BY <2>1, <2>4 DEF KeptInv, s
<1>16. ReportsInv(input, commands, st, reader, srcNo, fetched, reported, logged, rows2)
  <2>1. ReportedSources(commands, reader, srcNo, reported, logged, tableRows)
    BY <1>1, <1>2, <1>3 DEF ReportsInv
  <2>2. RowsTouched(rows2, tableRows, reader.source[srcNo].name, commands)
    BY <1>7 DEF s
  <2>3. ReportedSources(commands, reader, srcNo, reported, logged, rows2)
    BY <1>3, <1>4, <2>1, <2>2, ReportedStays
  <2>4. st \notin {"specs", "check", "idle", "closeAll"}
    BY <1>9
  <2> QED BY <2>3, <2>4 DEF ReportsInv
<1> QED BY <1>1, <1>3, <1>4, <1>8, <1>11, <1>12, <1>13, <1>14, <1>15, <1>16 DEF CommandsInv, rows2, st, j

\* A stream was closed in order: the destination has all its rows.
LEMMA ClosedDelivered ==
  ASSUME NEW in, NEW sp, NEW c, NEW com, NEW rd, NEW i, NEW j, AtStreams(in, sp, c, com, "close", rd, i, j),
         NEW rows, NEW bef, RowsInv(sp, c, rows, bef), NEW fet, NEW q,
         NEW fail, DeliveredInv(sp, c, "close", rd, i, j, fet, q, fail, rows), VersionOf(sp, rd.source[i].name) = 2,
         NEW d, d = DestsOf(rd, i)[j], d.name \notin fail, NEW new, OneChanges(new, rows, d.name, new[d.name]),
         Grows(new[d.name], rows[d.name], rd.source[i].name, c), q[d.name] \subseteq new[d.name],
         NEW m \in 1..Len(DestsOf(rd, i)), m <= j
  PROVE  /\ HasRows(new[DestsOf(rd, i)[m].name], rd.source[i].name, fet, c)
         /\ NoneStale(DestsOf(rd, i)[m], new[DestsOf(rd, i)[m].name], rd.source[i].name, c)
<1> DEFINE s == rd.source[i].name two == VersionOf(sp, s) e == DestsOf(rd, i)[m] n == e.name
<1>1. HasDelivered(two, c, "close", s, e, m, j, fet, q, fail, rows)
  BY DeliveredIs
<1>2. n \in DOMAIN rows /\ c \in Nat /\ j \in 1..Len(DestsOf(rd, i)) /\ DestsAre(rd, i)
  <2>1. n \in DOMAIN rows
    BY DestIsKnown
  <2>2. c \in Nat /\ j \in 1..Len(DestsOf(rd, i)) /\ DestsAre(rd, i)
    BY DEF AtStreams
  <2> QED BY <2>1, <2>2
<1>3. two = 2
  OBVIOUS
<1>4. NoneStale(e, rows[n], s, c)
  <2>1. IsCleaned("close", m, j)
    BY DEF IsCleaned
  <2> QED BY <1>1, <2>1 DEF HasDelivered
<1>5. CASE m = j
  <2>1. e = d
    BY <1>5
  <2> HIDE DEF s, two, e
  <2>2. Grows(new[n], rows[n], s, c) /\ q[n] \subseteq new[n] /\ n \notin fail
    BY <2>1 DEF s
  <2>3. HasRows(rows[n] \cup q[n], s, fet, c)
    BY <1>1, <2>2 DEF HasDelivered
  <2>4. HasRows(new[n], s, fet, c)
    BY <2>2, <2>3 DEF HasRows, Grows
  <2>5. NoneStale(e, new[n], s, c)
    BY <1>2, <1>4, <2>2, GrowsKeeps
  <2> QED BY <2>4, <2>5 DEF s, e
<1>6. CASE m # j
  <2>1. n # d.name
    BY <1>2, <1>6, OtherDest
  <2>2. m < j
    <3> DEFINE L == Len(DestsOf(rd, i))
    <3>1. m \in 1..L /\ j \in 1..L
      BY <1>2
    <3> HIDE DEF L
    <3> QED BY <1>6, <3>1
  <2> HIDE DEF s, two, e
  <2>3. new[n] = rows[n]
    BY <1>2, <2>1 DEF OneChanges
  <2>4. HasRows(rows[n], s, fet, c)
    BY <1>1, <1>3, <2>2 DEF HasDelivered
  <2>5. HasRows(new[n], s, fet, c) /\ NoneStale(e, new[n], s, c)
    BY <1>4, <2>3, <2>4
  <2> QED BY <2>5 DEF s, e
<1> QED BY <1>5, <1>6

\* The rows of the source were reported, and it goes on to the next.
LEMMA ReportedGrows ==
  ASSUME NEW sp, NEW c, NEW rd, SoundSpecs(rd, sp), NEW i \in 1..Len(rd.source), DestsAre(rd, i), NEW rep, NEW log, NEW rows, NEW keys,
         ReportedSources(c, rd, i + 1, rep, log, rows),
         \A m \in 1..Len(DestsOf(rd, i)) : IsReported(DestsOf(rd, i)[m], c, rd.source[i].name, keys, log, rows)
  PROVE  ReportedSources(c, rd, i + 1, Put(rep, rd.source[i].name, keys), log, rows)
<1> DEFINE s == rd.source[i].name rep2 == Put(rep, s, keys)
<1>1. DOMAIN rep2 = DOMAIN rep \cup {s} /\ \A y \in DOMAIN rep2 : rep2[y] = IF y = s THEN keys ELSE rep[y]
  BY DEF Put
<1>2. Len(rd.source) \in Nat
  BY DEF SoundSpecs, NamedOnce
<1>3. i \in 1..(i + 1) - 1 /\ i <= Len(rd.source)
  <2> DEFINE L == Len(rd.source)
  <2>1. i \in 1..L /\ L \in Nat
    BY <1>2
  <2> HIDE DEF L
  <2>2. i \in 1..(i + 1) - 1 /\ i <= L
    BY <2>1
  <2> QED BY <2>2 DEF L
<1>4. ASSUME NEW d \in ToSet(rd.destination), d.name \in ToSet(rd.source[i].destinations)
      PROVE  IsReported(d, c, s, keys, log, rows)
  <2>1. PICK m \in 1..Len(DestsOf(rd, i)) : DestsOf(rd, i)[m] = d
    BY <1>4 DEF DestsAre
  <2> QED BY <2>1
<1> HIDE DEF rep2
<1>5. ASSUME NEW z \in DOMAIN rep2
      PROVE  \E m \in 1..(i + 1) - 1 :
               /\ m <= Len(rd.source) /\ z = rd.source[m].name
               /\ \A d \in ToSet(rd.destination) : d.name \in ToSet(rd.source[m].destinations) =>
                    IsReported(d, c, z, rep2[z], log, rows)
  <2>1. CASE z = s
    <3>1. rep2[z] = keys
      BY <1>1, <1>5, <2>1
    <3> QED BY <1>3, <1>4, <2>1, <3>1
  <2>2. CASE z # s
    <3>1. z \in DOMAIN rep /\ rep2[z] = rep[z]
      BY <1>1, <1>5, <2>2
    <3> QED BY <3>1, ReportedIs
  <2> QED BY <2>1, <2>2
<1>6. ReportedSources(c, rd, i + 1, rep2, log, rows)
  BY <1>5, ReportedIs
<1> QED BY <1>6 DEF rep2, s

LEMMA CloseStreamInv ==
  ASSUME CommandsInv, CloseStream
  PROVE  CommandsInv'
<1> DEFINE s == reader.source[srcNo].name d == DestsOf(reader, srcNo)[dstNo] n == d.name rows2 == tableRows'
<1>1. cmdStage = "close" /\ n \notin failing
      /\ rows2 = [tableRows EXCEPT ![n] = Store(DestNamed(n), queues[n], @)]
      /\ ended' = ended /\ logged' = logged
  BY Words DEF CloseStream, CloseOne, Flush
<1>2. cmdStage \in SourceSteps \ Unsent /\ "stale" \in SourceSteps \ Unsent /\ cmdStage \in SourceSteps /\ "stale" \in SourceSteps
  BY <1>1, StreamSteps
<1>3. /\ AtStreams(input, speaks, commands, command, "close", reader, srcNo, dstNo)
      /\ ControlInv(input, speaks, commands, command, cmdStage, reader, srcNo, dstNo)
      /\ StreamsInv(commands, cmdStage, reader, srcNo, dstNo, fetched, queues)
      /\ DeliveredInv(speaks, commands, "close", reader, srcNo, dstNo, fetched, queues, failing, tableRows)
      /\ RowsInv(speaks, commands, tableRows, before)
      /\ KeptInv(input, cmdStage, reader, srcNo, ended, tableRows, before)
      /\ ReportsInv(input, commands, cmdStage, reader, srcNo, fetched, reported, logged, tableRows)
  BY <1>1, <1>2, Streaming
<1>4. /\ dstNo \in 1..Len(DestsOf(reader, srcNo)) /\ Len(DestsOf(reader, srcNo)) \in Nat
      /\ DestsAre(reader, srcNo) /\ reader = SpecsOf(input, FALSE) /\ SoundSpecs(reader, speaks)
      /\ commands \in Nat /\ srcNo \in 1..Len(reader.source)
  <2>1. DestsAre(reader, srcNo) /\ dstNo \in 1..Len(DestsOf(reader, srcNo)) /\ reader = SpecsOf(input, FALSE)
        /\ SoundSpecs(reader, speaks) /\ commands \in Nat /\ srcNo \in 1..Len(reader.source)
    BY <1>3 DEF AtStreams
  <2>2. Len(DestsOf(reader, srcNo)) \in Nat
    BY <2>1 DEF DestsAre
  <2> QED BY <2>1, <2>2
<1>5. VersionOf(speaks, reader.source[srcNo].name) = 2
  BY <1>1, <1>3 DEF ControlInv
<1>6. n \in DOMAIN tableRows /\ tableRows = [x \in DOMAIN tableRows |-> tableRows[x]]
  <2>1. n \in DOMAIN tableRows
    BY <1>3, <1>4, DestIsKnown
  <2> QED BY <1>3, <2>1 DEF RowsInv
<1>7. /\ DOMAIN queues \subseteq DocNames(DestsOf(reader, srcNo)) /\ OnStreams(s, commands, fetched, queues)
      /\ \A m \in 1..Len(DestsOf(reader, srcNo)) : DestsOf(reader, srcNo)[m].name \in DOMAIN queues
  BY <1>1, <1>2, <1>3, StreamsAre
<1>8. n \in DOMAIN queues
  BY <1>4, <1>7
<1> HIDE DEF s, d
<1>9. Grows(Store(DestNamed(n), queues[n], tableRows[n]), tableRows[n], s, commands)
      /\ queues[n] \subseteq Store(DestNamed(n), queues[n], tableRows[n])
  <2>1. \A r \in queues[n] : \E k : r = RowOf(s, k, commands)
    BY <1>7, <1>8 DEF OnStreams
  <2> QED BY <2>1, StoreGrows
<1>10. OneChanges(rows2, tableRows, n, rows2[n]) /\ rows2[n] = Store(DestNamed(n), queues[n], tableRows[n])
  <2>1. rows2[n] = Store(DestNamed(n), queues[n], tableRows[n])
    BY <1>1, <1>6
  <2>2. \A x \in DOMAIN tableRows : x # n => rows2[x] = tableRows[x]
    BY <1>1
  <2>3. rows2 = [x \in DOMAIN tableRows |-> rows2[x]]
    BY <1>1
  <2> HIDE DEF rows2
  <2> QED BY <2>1, <2>2, <2>3 DEF OneChanges
<1> HIDE DEF rows2, n
<1>11. Grows(rows2[n], tableRows[n], s, commands) /\ queues[n] \subseteq rows2[n]
  BY <1>9, <1>10
<1>12. RowsGrow(rows2, tableRows, s, commands)
  <2> DEFINE new == rows2[n]
  <2>1. OneChanges(rows2, tableRows, n, new) /\ Grows(new, tableRows[n], s, commands)
    BY <1>10, <1>11
  <2> HIDE DEF new
  <2> QED BY <2>1, OneTouched
<1>13. RowsInv(speaks, commands, rows2, before) /\ KeptInv(input, cmdStage, reader, srcNo, ended, rows2, before)
       /\ ReportsInv(input, commands, cmdStage, reader, srcNo, fetched, reported, logged, rows2)
  <2>1. RowsGrow(rows2, tableRows, reader.source[srcNo].name, commands)
    BY <1>12 DEF s
  <2>2. AtStreams(input, speaks, commands, command, cmdStage, reader, srcNo, dstNo)
    BY <1>1, <1>3
  <2> QED BY <1>2, <1>3, <2>1, <2>2, RowsGrown
<1>14. ASSUME NEW m \in 1..Len(DestsOf(reader, srcNo)), m <= dstNo
       PROVE  /\ HasRows(rows2[DestsOf(reader, srcNo)[m].name], s, fetched, commands)
              /\ NoneStale(DestsOf(reader, srcNo)[m], rows2[DestsOf(reader, srcNo)[m].name], s, commands)
  <2>1. d = DestsOf(reader, srcNo)[dstNo] /\ d.name \notin failing /\ OneChanges(rows2, tableRows, d.name, rows2[d.name])
        /\ Grows(rows2[d.name], tableRows[d.name], reader.source[srcNo].name, commands) /\ queues[d.name] \subseteq rows2[d.name]
    BY <1>1, <1>10, <1>11 DEF d, s, n
  <2>2. /\ HasRows(rows2[DestsOf(reader, srcNo)[m].name], reader.source[srcNo].name, fetched, commands)
        /\ NoneStale(DestsOf(reader, srcNo)[m], rows2[DestsOf(reader, srcNo)[m].name], reader.source[srcNo].name, commands)
    BY <1>3, <1>5, <1>14, <2>1, ClosedDelivered
  <2> QED BY <2>2 DEF s
<1>15. CASE dstNo < Len(Dests)
  <2> DEFINE q2 == queues'
  <2>1. cmdStage' = "stale" /\ dstNo' = dstNo + 1 /\ q2 = [queues EXCEPT ![n] = {}]
        /\ fetched' = fetched /\ failing' = failing /\ reported' = reported
        /\ srcNo' = srcNo /\ reader' = reader /\ input' = input /\ speaks' = speaks
        /\ commands' = commands /\ command' = command /\ before' = before
    BY <1>15, Words DEF CloseStream, CloseOne, Going, RestOfCommand, fixedVars, n, d
  <2>2. dstNo + 1 \in 1..Len(DestsOf(reader, srcNo))
    <3> DEFINE L == Len(DestsOf(reader, srcNo))
    <3>1. dstNo \in 1..L /\ L \in Nat /\ dstNo < L
      BY <1>4, <1>15, Words
    <3> HIDE DEF L
    <3>2. dstNo + 1 \in 1..L
      BY <3>1
    <3> QED BY <3>2 DEF L
  <2>3. ControlInv(input, speaks, commands, command, "stale", reader, srcNo, dstNo + 1)
    BY <1>2, <1>3, <2>2, ControlStays
  <2>4. DOMAIN q2 = DOMAIN queues /\ \A x \in DOMAIN queues : q2[x] = IF x = n THEN {} ELSE queues[x]
    BY <1>8, <2>1
  <2> HIDE DEF q2
  <2>5. StreamsInv(commands, "stale", reader, srcNo, dstNo + 1, fetched, q2)
    <3>1. OnStreams(reader.source[srcNo].name, commands, fetched, q2)
      BY <1>7, <2>4 DEF OnStreams, s
    <3>2. DOMAIN q2 \subseteq DocNames(DestsOf(reader, srcNo))
          /\ \A m \in 1..Len(DestsOf(reader, srcNo)) : DestsOf(reader, srcNo)[m].name \in DOMAIN q2
      BY <1>7, <2>4
    <3> QED BY <1>2, <3>1, <3>2, StreamsStay
  <2>6. DeliveredInv(speaks, commands, "stale", reader, srcNo, dstNo + 1, fetched, q2, failing, rows2)
    <3>1. SUFFICES ASSUME NEW m \in 1..Len(DestsOf(reader, srcNo))
                   PROVE  HasDelivered(VersionOf(speaks, s), commands, "stale", s, DestsOf(reader, srcNo)[m], m, dstNo + 1, fetched, q2, failing, rows2)
      BY DeliveredIs DEF s
    <3> DEFINE e == DestsOf(reader, srcNo)[m] x == e.name two == VersionOf(speaks, s)
    <3>2. HasDelivered(two, commands, "close", s, e, m, dstNo, fetched, queues, failing, tableRows)
      BY <1>3, DeliveredIs DEF s
    <3>3. x \in DOMAIN queues /\ x \in DOMAIN tableRows
      BY <1>3, <1>7, DestIsKnown
    <3>4. m = dstNo => x = n
      BY DEF n, d
    <3>5. m # dstNo => x # n
      BY <1>4, OtherDest DEF n, d
    <3>6. m \in Nat /\ dstNo \in Nat
      <4> DEFINE L == Len(DestsOf(reader, srcNo))
      <4>1. dstNo \in 1..L /\ m \in 1..L
        BY <1>4
      <4> HIDE DEF L
      <4> QED BY <4>1
    <3>7. m <= dstNo => HasRows(rows2[x], s, fetched, commands) /\ NoneStale(e, rows2[x], s, commands)
      BY <1>14
    <3>8. x # n => rows2[x] = tableRows[x] /\ q2[x] = queues[x]
      BY <1>10, <2>4, <3>3 DEF OneChanges
    <3>9. x = n => q2[x] = {}
      BY <2>4, <3>3
    <3> HIDE DEF e, two
    <3>10. x \in failing \/ HasRows(rows2[x] \cup q2[x], s, fetched, commands)
      <4>1. CASE m = dstNo
        BY <3>6, <3>7, <4>1 DEF HasRows
      <4>2. CASE m # dstNo
        BY <3>2, <3>5, <3>8, <4>2 DEF HasDelivered
      <4> QED BY <4>1, <4>2
    <3>11. m < dstNo + 1 => q2[x] = {} /\ HasRows(rows2[x], s, fetched, commands)
      <4>1. SUFFICES ASSUME m < dstNo + 1 PROVE q2[x] = {} /\ HasRows(rows2[x], s, fetched, commands)
        OBVIOUS
      <4>2. m <= dstNo
        BY <3>6, <4>1
      <4>3. q2[x] = {}
        <5>1. CASE m = dstNo
          BY <3>4, <3>9, <5>1
        <5>2. CASE m # dstNo
          <6>1. m < dstNo
            BY <3>6, <4>2, <5>2
          <6>2. two = 2
            BY <1>5 DEF two, s
          <6> QED BY <3>2, <3>5, <3>8, <5>2, <6>1, <6>2 DEF HasDelivered
        <5> QED BY <5>1, <5>2
      <4> QED BY <3>7, <4>2, <4>3
    <3>12. IsCleaned("stale", m, dstNo + 1) => NoneStale(e, rows2[x], s, commands)
      BY <3>6, <3>7 DEF IsCleaned
    <3>13. HasDelivered(two, commands, "stale", s, e, m, dstNo + 1, fetched, q2, failing, rows2)
      BY <3>10, <3>11, <3>12 DEF HasDelivered
    <3> QED BY <3>13 DEF e, two
  <2>7. KeptInv(input, "stale", reader, srcNo, ended, rows2, before) /\ ReportsInv(input, commands, "stale", reader, srcNo, fetched, reported, logged, rows2)
    <3>1. reader.source[srcNo].name \in ended
      BY <1>1, <1>3 DEF KeptInv
    <3>2. cmdStage \in SourceSteps \ {"closeAll"} /\ "stale" \in SourceSteps \ {"closeAll"}
      BY <1>1, <1>2
    <3> QED BY <1>13, <3>1, <3>2, NothingMoves
  <2> QED BY <1>1, <1>3, <1>4, <1>13, <2>1, <2>3, <2>5, <2>6, <2>7 DEF CommandsInv, rows2, q2
<1>16. CASE ~(dstNo < Len(Dests))
  <2>1. cmdStage' = "source" /\ srcNo' = srcNo + 1 /\ dstNo' = 0 /\ reported' = Put(reported, s, fetched)
      /\ fetched' = {} /\ queues' = << >> /\ failing' = {}
      /\ input' = input /\ speaks' = speaks /\ commands' = commands /\ command' = command
      /\ reader' = reader /\ before' = before
    BY <1>16, Words DEF CloseStream, CloseOne, NextSource, RestOfCommand, fixedVars, s
  <2>2. /\ ControlInv(input, speaks, commands, command, "source", reader, srcNo + 1, 0)
        /\ StreamsInv(commands, "source", reader, srcNo + 1, 0, {}, << >>)
        /\ DeliveredInv(speaks, commands, "source", reader, srcNo + 1, 0, {}, << >>, {}, rows2)
    BY <1>2, <1>3, ToNextSource
  <2>3. KeptInv(input, "source", reader, srcNo + 1, ended, rows2, before)
    BY <1>13 DEF KeptInv
  <2>4. \A m \in 1..Len(DestsOf(reader, srcNo)) :
           IsReported(DestsOf(reader, srcNo)[m], commands, reader.source[srcNo].name, fetched, logged, rows2)
    <3>1. ASSUME NEW m \in 1..Len(DestsOf(reader, srcNo)) PROVE m <= dstNo
      <4> DEFINE L == Len(DestsOf(reader, srcNo))
      <4>1. dstNo \in 1..L /\ L \in Nat /\ ~(dstNo < L) /\ m \in 1..L
        BY <1>4, <1>16, Words
      <4> HIDE DEF L
      <4> QED BY <4>1
    <3> QED BY <1>14, <3>1 DEF s, IsReported
  <2>5. ReportedSources(commands, reader, srcNo + 1, reported, logged, rows2)
    <3>1. ReportedSources(commands, reader, srcNo, reported, logged, tableRows)
      BY <1>1, <1>2, <1>3 DEF ReportsInv
    <3>2. RowsTouched(rows2, tableRows, reader.source[srcNo].name, commands)
      BY <1>12, GrowIsTouch DEF s
    <3> QED BY <1>3, <1>4, <3>1, <3>2, ReportedStays
  <2>6. ReportedSources(commands, reader, srcNo + 1, Put(reported, s, fetched), logged, rows2)
    <3>1. ReportedSources(commands, reader, srcNo + 1, Put(reported, reader.source[srcNo].name, fetched), logged, rows2)
      BY <1>4, <2>4, <2>5, ReportedGrows
    <3> QED BY <3>1 DEF s
  <2>7. ReportsInv(input, commands, "source", reader, srcNo + 1, {}, Put(reported, s, fetched), logged, rows2)
    BY <2>6 DEF ReportsInv
  <2> QED BY <1>1, <1>3, <1>4, <1>13, <2>1, <2>2, <2>3, <2>7 DEF CommandsInv, rows2
<1> QED BY <1>15, <1>16

-----------------------------------------------------------------------------
(* Commands: every step, and what follows. *)

\* The streams of protocol 1, when it reports and when it closes them.
LEMMA ReportInv ==
  ASSUME CommandsInv, Report
  PROVE  CommandsInv'
<1> DEFINE s == reader.source[srcNo].name
<1>1. cmdStage = "report" /\ cmdStage' = "closeAll" /\ dstNo' = 1 /\ srcNo' = srcNo /\ reported' = Put(reported, s, fetched)
      /\ reader' = reader /\ input' = input /\ speaks' = speaks /\ commands' = commands /\ command' = command
      /\ queues' = queues /\ failing' = failing /\ ended' = ended /\ before' = before
      /\ logged' = logged /\ fetched' = fetched /\ tableRows' = tableRows
  BY Words DEF Report, Going, RestOfCommand, fixedVars, dbVars
<1>2. cmdStage \in SourceSteps \ Unsent /\ "closeAll" \in SourceSteps \ Unsent
  BY <1>1, StreamSteps
<1>3. /\ AtStreams(input, speaks, commands, command, cmdStage, reader, srcNo, dstNo)
      /\ ControlInv(input, speaks, commands, command, cmdStage, reader, srcNo, dstNo)
      /\ StreamsInv(commands, cmdStage, reader, srcNo, dstNo, fetched, queues)
      /\ DeliveredInv(speaks, commands, cmdStage, reader, srcNo, dstNo, fetched, queues, failing, tableRows)
      /\ RowsInv(speaks, commands, tableRows, before)
      /\ KeptInv(input, cmdStage, reader, srcNo, ended, tableRows, before)
      /\ ReportsInv(input, commands, cmdStage, reader, srcNo, fetched, reported, logged, tableRows)
  BY <1>2, Streaming
<1>4. 1 \in 1..Len(DestsOf(reader, srcNo))
  <2>1. DestsAre(reader, srcNo)
    BY <1>3 DEF AtStreams
  <2>2. Len(DestsOf(reader, srcNo)) \in Nat \ {0}
    BY <2>1 DEF DestsAre
  <2> QED BY <2>2
<1>5. ControlInv(input, speaks, commands, command, "closeAll", reader, srcNo, 1)
  BY <1>2, <1>3, <1>4, ControlStays
<1>6. StreamsInv(commands, "closeAll", reader, srcNo, 1, fetched, queues)
  <2>1. /\ DOMAIN queues \subseteq DocNames(DestsOf(reader, srcNo)) /\ OnStreams(reader.source[srcNo].name, commands, fetched, queues)
        /\ \A m \in 1..Len(DestsOf(reader, srcNo)) : DestsOf(reader, srcNo)[m].name \in DOMAIN queues
    BY <1>1, <1>2, <1>3, StreamsAre
  <2> QED BY <1>2, <2>1, StreamsStay
<1>7. DeliveredInv(speaks, commands, "closeAll", reader, srcNo, 1, fetched, queues, failing, tableRows)
  <2>1. SUFFICES ASSUME NEW m \in 1..Len(DestsOf(reader, srcNo))
                 PROVE  HasDelivered(VersionOf(speaks, s), commands, "closeAll", s, DestsOf(reader, srcNo)[m], m, 1, fetched, queues, failing, tableRows)
    BY DeliveredIs
  <2> DEFINE d == DestsOf(reader, srcNo)[m] two == VersionOf(speaks, s)
  <2>2. HasDelivered(two, commands, "report", s, d, m, dstNo, fetched, queues, failing, tableRows)
    BY <1>1, <1>3, DeliveredIs
  <2> HIDE DEF d, two, s
  <2>3. HasDelivered(two, commands, "closeAll", s, d, m, 1, fetched, queues, failing, tableRows)
    BY <2>2 DEF HasDelivered, IsCleaned
  <2> QED BY <2>3 DEF d, two
<1>8. KeptInv(input, "closeAll", reader, srcNo, ended, tableRows, before)
  BY <1>1, <1>3 DEF KeptInv
<1>9. ReportsInv(input, commands, "closeAll", reader, srcNo, fetched, Put(reported, s, fetched), logged, tableRows)
  <2>1. ReportedSources(commands, reader, srcNo, reported, logged, tableRows)
    BY <1>1, <1>2, <1>3 DEF ReportsInv
  <2> QED BY <2>1 DEF ReportsInv
<1> HIDE DEF s
<1> QED BY <1>1, <1>3, <1>5, <1>6, <1>7, <1>8, <1>9 DEF CommandsInv

LEMMA CloseAllInv ==
  ASSUME CommandsInv, CloseAll
  PROVE  CommandsInv'
<1> DEFINE s == reader.source[srcNo].name rows2 == tableRows' log2 == logged'
<1>1. cmdStage = "closeAll" /\ cmdStage' = "source" /\ srcNo' = srcNo + 1 /\ dstNo' = 0
      /\ fetched' = {} /\ queues' = << >> /\ failing' = {}
      /\ input' = input /\ speaks' = speaks /\ commands' = commands /\ command' = command
      /\ reader' = reader /\ before' = before /\ ended' = ended /\ reported' = reported
      /\ log2 = logged \cup {<<s, x>> : x \in failing}
  BY Words DEF CloseAll, NextSource, RestOfCommand, fixedVars
<1>2. rows2 = [x \in DOMAIN tableRows |-> IF x \in DOMAIN queues
                 THEN [tableRows EXCEPT ![x] = Store(DestNamed(x), queues[x], @)][x] ELSE tableRows[x]]
  BY DEF CloseAll, Flush
<1>3. cmdStage \in SourceSteps \ Unsent /\ cmdStage \in SourceSteps
  BY <1>1, StreamSteps
<1>4. /\ AtStreams(input, speaks, commands, command, cmdStage, reader, srcNo, dstNo)
      /\ ControlInv(input, speaks, commands, command, cmdStage, reader, srcNo, dstNo)
      /\ StreamsInv(commands, cmdStage, reader, srcNo, dstNo, fetched, queues)
      /\ DeliveredInv(speaks, commands, cmdStage, reader, srcNo, dstNo, fetched, queues, failing, tableRows)
      /\ RowsInv(speaks, commands, tableRows, before)
      /\ KeptInv(input, cmdStage, reader, srcNo, ended, tableRows, before)
      /\ ReportsInv(input, commands, cmdStage, reader, srcNo, fetched, reported, logged, tableRows)
  BY <1>3, Streaming
<1>5. /\ reader = SpecsOf(input, FALSE) /\ SoundSpecs(reader, speaks)
      /\ commands \in Nat /\ srcNo \in 1..Len(reader.source) /\ DestsAre(reader, srcNo)
  BY <1>4 DEF AtStreams
<1>6. RowsGrow(rows2, tableRows, s, commands)
  <2>1. ASSUME NEW x \in DOMAIN tableRows PROVE Grows(rows2[x], tableRows[x], s, commands)
    <3>1. CASE x \in DOMAIN queues
      <4>1. rows2[x] = Store(DestNamed(x), queues[x], tableRows[x])
        BY <1>2, <3>1
      <4>2. \A r \in queues[x] : \E k : r = RowOf(s, k, commands)
        BY <3>1, QueuesHold
      <4> HIDE DEF rows2, s
      <4> QED BY <4>1, <4>2, StoreGrows
    <3>2. CASE x \notin DOMAIN queues
      <4>1. rows2[x] = tableRows[x]
        BY <1>2, <3>2
      <4> HIDE DEF rows2, s
      <4> QED BY <4>1, GrowsNot
    <3> QED BY <3>1, <3>2
  <2>2. rows2 = [x \in DOMAIN tableRows |-> rows2[x]]
    BY <1>2
  <2> HIDE DEF rows2
  <2> QED BY <2>1, <2>2 DEF RowsGrow
<1> HIDE DEF rows2, log2
<1>7. RowsGrow(rows2, tableRows, reader.source[srcNo].name, commands)
  BY <1>6
<1>8. RowsInv(speaks, commands, rows2, before) /\ KeptInv(input, cmdStage, reader, srcNo, ended, rows2, before)
      /\ ReportsInv(input, commands, cmdStage, reader, srcNo, fetched, reported, logged, rows2)
  BY <1>3, <1>4, <1>7, RowsGrown
<1>9. /\ ControlInv(input, speaks, commands, command, "source", reader, srcNo + 1, 0)
      /\ StreamsInv(commands, "source", reader, srcNo + 1, 0, {}, << >>)
      /\ DeliveredInv(speaks, commands, "source", reader, srcNo + 1, 0, {}, << >>, {}, rows2)
  BY <1>3, <1>4, ToNextSource
<1>10. KeptInv(input, "source", reader, srcNo + 1, ended, rows2, before)
  BY <1>8 DEF KeptInv
<1>11. \A m \in 1..Len(DestsOf(reader, srcNo)) :
          IsReported(DestsOf(reader, srcNo)[m], commands, s, fetched, log2, rows2)
  <2>1. SUFFICES ASSUME NEW m \in 1..Len(DestsOf(reader, srcNo))
                 PROVE  IsReported(DestsOf(reader, srcNo)[m], commands, s, fetched, log2, rows2)
    OBVIOUS
  <2> DEFINE d == DestsOf(reader, srcNo)[m] x == d.name
  <2>2. HasDelivered(VersionOf(speaks, s), commands, "closeAll", s, d, m, dstNo, fetched, queues, failing, tableRows)
    BY <1>1, <1>4, DeliveredIs
  <2>3. x \in DOMAIN tableRows /\ x \in DOMAIN queues
    <3>1. x \in DOMAIN tableRows
      BY <1>4, DestIsKnown
    <3>2. x \in DOMAIN queues
      BY <1>1, <1>3, <1>4, StreamsAre
    <3> QED BY <3>1, <3>2
  <2> HIDE DEF d, s
  <2>4. queues[x] \subseteq rows2[x] /\ Grows(rows2[x], tableRows[x], s, commands)
    <3>1. rows2[x] = Store(DestNamed(x), queues[x], tableRows[x])
      BY <1>2, <2>3 DEF rows2
    <3>2. \A y \in queues[x] : \E k : y = RowOf(s, k, commands)
      BY <2>3, QueuesHold DEF s
    <3> HIDE DEF x, rows2
    <3> QED BY <3>1, <3>2, StoreGrows
  <2>5. NoneStale(d, rows2[x], s, commands)
    <3>1. NoneStale(d, tableRows[x], s, commands)
      BY <2>2 DEF HasDelivered, IsCleaned
    <3> QED BY <1>5, <2>4, <3>1, GrowsKeeps
  <2>6. <<s, x>> \in log2 \/ HasRows(rows2[x], s, fetched, commands)
    <3>1. CASE x \in failing
      BY <1>1, <3>1 DEF log2
    <3>2. CASE x \notin failing
      <4>1. HasRows(tableRows[x] \cup queues[x], s, fetched, commands)
        BY <2>2, <3>2 DEF HasDelivered
      <4> QED BY <2>4, <4>1 DEF HasRows, Grows
    <3> QED BY <3>1, <3>2
  <2>7. IsReported(d, commands, s, fetched, log2, rows2)
    BY <2>5, <2>6 DEF IsReported
  <2> QED BY <2>7 DEF d
<1>12. ReportsInv(input, commands, "source", reader, srcNo + 1, {}, reported, log2, rows2)
  <2>1. PICK old : reported = Put(old, s, fetched) /\ ReportedSources(commands, reader, srcNo, old, logged, tableRows)
    BY <1>1, <1>4 DEF ReportsInv
  <2>2. RowsTouched(rows2, tableRows, reader.source[srcNo].name, commands) /\ logged \subseteq log2
    BY <1>1, <1>7, GrowIsTouch
  <2>3. ReportedSources(commands, reader, srcNo + 1, old, log2, rows2)
    BY <1>4, <1>5, <2>1, <2>2, ReportedStays
  <2>4. ReportedSources(commands, reader, srcNo + 1, Put(old, reader.source[srcNo].name, fetched), log2, rows2)
    BY <1>5, <1>11, <2>3, ReportedGrows
  <2> QED BY <2>1, <2>4 DEF ReportsInv
<1> QED BY <1>1, <1>4, <1>5, <1>8, <1>9, <1>10, <1>12 DEF CommandsInv, rows2, log2

LEMMA CommandsStep == CommandsInv /\ [CommandsNext]_commandVars => CommandsInv'
<1> SUFFICES ASSUME CommandsInv, [CommandsNext]_commandVars PROVE CommandsInv'
  OBVIOUS
<1>1. ASSUME NEW c \in Syncing \cup Checking, Run(c) PROVE CommandsInv'
  BY <1>1, BeginInv
<1>2. CASE CommandFails
  BY <1>2, CommandFailsInv
<1>3. CASE EndCommand
  BY <1>3, EndCommandInv
<1>4. CASE StartPlugins
  BY <1>4, StartPluginsInv
<1>5. CASE Dispatch
  BY <1>5, DispatchInv
<1>6. CASE ConnectionV3
  BY <1>6, ConnectionV3Inv
<1>7. CASE InitSource
  BY <1>7, InitSourceInv
<1>8. CASE Configure
  BY <1>8, ConfigureInv
<1>9. CASE MigrateTables
  BY <1>9, MigrateTablesInv
<1>10. CASE OpenStream
  BY <1>10, OpenStreamInv
<1>11. CASE Receive
  BY <1>11, ReceiveInv
<1>12. CASE DestinationWrites
  BY <1>12, DestinationWritesInv
<1>13. CASE SourceEnds
  BY <1>13, SourceEndsInv
<1>14. CASE SendDeleteStale
  BY <1>14, SendDeleteStaleInv
<1>15. CASE CloseStream
  BY <1>15, CloseStreamInv
<1>16. CASE CloseAll
  BY <1>16, CloseAllInv
<1>17. CASE Report
  BY <1>17, ReportInv
<1>18. CASE UNCHANGED commandVars
  BY <1>18 DEF commandVars, CommandsInv
<1> QED
  BY <1>1, <1>2, <1>3, <1>4, <1>5, <1>6, <1>7, <1>8, <1>9, <1>10, <1>11, <1>12, <1>13, <1>14, <1>15, <1>16, <1>17, <1>18 DEF CommandsNext

\* What was reported of a source, for one of its destinations.
LEMMA AtReported ==
  ASSUME NEW sp, NEW c, NEW rd, SoundSpecs(rd, sp), NEW i, NEW rep, NEW log, NEW rows, ReportedSources(c, rd, i, rep, log, rows),
         NEW s \in DOMAIN rep, NEW d \in ToSet(rd.destination), NEW x \in ToSet(rd.source), x.name = s, d.name \in ToSet(x.destinations)
  PROVE  IsReported(d, c, s, rep[s], log, rows) /\ \E m \in 1..i - 1 : m \in 1..Len(rd.source) /\ rd.source[m] = x
<1>1. Len(rd.source) \in Nat /\ DOMAIN rd.source = 1..Len(rd.source)
      /\ \A a, b \in 1..Len(rd.source) : rd.source[a].name = rd.source[b].name => a = b
  BY DEF SoundSpecs, NamedOnce
<1>2. PICK m \in 1..i - 1 :
        /\ m <= Len(rd.source) /\ s = rd.source[m].name
        /\ \A e \in ToSet(rd.destination) : e.name \in ToSet(rd.source[m].destinations) => IsReported(e, c, s, rep[s], log, rows)
  BY ReportedIs
<1>3. PICK l \in 1..Len(rd.source) : x = rd.source[l]
  BY <1>1 DEF ToSet
<1>4. m \in 1..Len(rd.source)
  <2> DEFINE L == Len(rd.source)
  <2>1. m \in 1..i - 1 /\ m <= L /\ L \in Nat
    BY <1>1, <1>2
  <2> HIDE DEF L
  <2>2. m \in 1..L
    BY <2>1
  <2> QED BY <2>2 DEF L
<1>5. l = m
  BY <1>1, <1>2, <1>3, <1>4
<1> QED BY <1>2, <1>3, <1>4, <1>5

LEMMA LegacyFollows == CommandsInv => LegacyRows
<1> SUFFICES ASSUME CommandsInv PROVE LegacyRows
  OBVIOUS
<1>1. FailedKeepsRows
  <2>1. KeptRows(input, ended, tableRows, before)
    BY DEF CommandsInv, KeptInv
  <2> QED BY <2>1 DEF FailedKeepsRows, KeptRows, MayGo, SyncSpecs
<1>2. /\ cmdStage \in {"idle", "specs", "check"} \cup SourceSteps
      /\ ControlInv(input, speaks, commands, command, cmdStage, reader, srcNo, dstNo)
      /\ ReportsInv(input, commands, cmdStage, reader, srcNo, fetched, reported, logged, tableRows)
  BY DEF CommandsInv, ControlInv
<1> DEFINE rd == SyncSpecs
<1>3. ReportedIsStored
  <2>1. SUFFICES ASSUME NEW s \in DOMAIN reported, NEW d \in ToSet(rd.destination),
                        NEW x \in ToSet(rd.source), x.name = s, d.name \in ToSet(x.destinations)
                 PROVE  /\ \A k \in reported[s] :
                             \/ RowOf(s, k, commands) \in tableRows[d.name]
                             \/ <<s, d.name>> \in logged
                             \/ cmdStage = "closeAll" /\ s = Source.name /\ (d.name \in failing \/ Row(k) \in queues[d.name])
                        /\ NoneStale(d, tableRows[d.name], s, commands)
    BY DEF ReportedIsStored, NoneStale, RowOf
  <2>2. SUFFICES ASSUME ~IsReported(d, commands, s, reported[s], logged, tableRows)
                 PROVE  /\ \A k \in reported[s] :
                             \/ RowOf(s, k, commands) \in tableRows[d.name]
                             \/ cmdStage = "closeAll" /\ s = Source.name /\ (d.name \in failing \/ Row(k) \in queues[d.name])
                        /\ NoneStale(d, tableRows[d.name], s, commands)
    BY DEF IsReported, HasRows
  <2>3. reported # << >>
    BY NothingThere
  <2>4. rd = SpecsOf(input, FALSE) /\ SoundSpecs(rd, speaks)
    <3>1. CASE cmdStage = "idle"
      <4>1. Fine(rd) /\ input \in Inputs /\ speaks \in Speaks
        BY <1>2, <2>3, <3>1 DEF ReportsInv, ControlInv, SyncSpecs
      <4> QED BY <4>1, SpecsAreSound DEF Fine, SyncSpecs
    <3>2. CASE cmdStage \in SourceSteps
      BY <1>2, <3>2, InSource DEF SyncSpecs
    <3>3. CASE cmdStage \in {"specs", "check"}
      BY <1>2, <2>3, <3>3 DEF ReportsInv
    <3> QED BY <1>2, <3>1, <3>2, <3>3
  <2> HIDE DEF rd
  <2>5. cmdStage = "closeAll"
    <3>1. CASE cmdStage = "idle"
      <4> DEFINE i == Len(rd.source) + 1
      <4>1. ReportedSources(commands, rd, i, reported, logged, tableRows)
        BY <1>2, <2>4, <3>1 DEF ReportsInv
      <4> HIDE DEF i
      <4>2. IsReported(d, commands, s, reported[s], logged, tableRows)
        BY <2>1, <2>4, <4>1, AtReported
      <4> QED BY <2>2, <4>2
    <3>2. CASE cmdStage \in SourceSteps \ {"closeAll"}
      <4>1. ReportedSources(commands, rd, srcNo, reported, logged, tableRows)
        BY <1>2, <2>4, <3>2, InSource DEF ReportsInv
      <4>2. IsReported(d, commands, s, reported[s], logged, tableRows)
        BY <2>1, <2>4, <4>1, AtReported
      <4> QED BY <2>2, <4>2
    <3>3. CASE cmdStage \in {"specs", "check"}
      BY <1>2, <2>3, <3>3 DEF ReportsInv
    <3> QED BY <1>2, <3>1, <3>2, <3>3
  <2>6. reader = rd /\ cmdStage \in SourceSteps \ Unsent /\ cmdStage \in SourceSteps
    BY <1>2, <2>4, <2>5, InSource, StreamSteps
  <2>7. /\ AtStreams(input, speaks, commands, command, cmdStage, reader, srcNo, dstNo)
        /\ DeliveredInv(speaks, commands, cmdStage, reader, srcNo, dstNo, fetched, queues, failing, tableRows)
    BY <2>6, Streaming
  <2> DEFINE z == reader.source[srcNo].name
  <2>8. PICK old : reported = Put(old, z, fetched) /\ ReportedSources(commands, rd, srcNo, old, logged, tableRows)
    BY <1>2, <2>5, <2>6 DEF ReportsInv
  <2>9. CASE s # z
    <3>1. s \in DOMAIN old /\ reported[s] = old[s]
      <4> HIDE DEF z
      <4> QED BY <2>8, <2>9 DEF Put
    <3>2. IsReported(d, commands, s, old[s], logged, tableRows)
      BY <2>1, <2>4, <2>8, <3>1, AtReported
    <3> QED BY <2>2, <3>1, <3>2
  <2>10. CASE s = z
    <3>1. reported[s] = fetched
      <4> HIDE DEF z
      <4> QED BY <2>8, <2>10 DEF Put
    <3>2. srcNo \in 1..Len(rd.source) /\ x = rd.source[srcNo]
      <4>1. srcNo \in 1..Len(rd.source) /\ NamedOnce(rd.source)
        BY <2>4, <2>6, <2>7 DEF AtStreams, SoundSpecs
      <4>2. PICK l \in 1..Len(rd.source) : x = rd.source[l]
        BY <4>1 DEF ToSet, NamedOnce
      <4> QED BY <2>1, <2>6, <2>10, <4>1, <4>2 DEF NamedOnce
    <3>3. PICK m \in 1..Len(DestsOf(rd, srcNo)) : DestsOf(rd, srcNo)[m] = d
      BY <2>1, <2>6, <2>7, <3>2 DEF AtStreams, DestsAre
    <3>4. HasDelivered(VersionOf(speaks, z), commands, "closeAll", z, d, m, dstNo, fetched, queues, failing, tableRows)
      BY <2>5, <2>6, <2>7, <3>3, DeliveredIs
    <3>5. Source.name = z /\ \A k : Row(k) = RowOf(z, k, commands)
      BY Words
    <3> HIDE DEF z
    <3>6. NoneStale(d, tableRows[d.name], s, commands)
      BY <2>10, <3>4 DEF HasDelivered, IsCleaned
    <3>7. d.name \in failing \/ HasRows(tableRows[d.name] \cup queues[d.name], s, fetched, commands)
      BY <2>10, <3>4 DEF HasDelivered
    <3> QED BY <2>5, <2>10, <3>1, <3>5, <3>6, <3>7 DEF HasRows
  <2> QED BY <2>9, <2>10
<1> QED BY <1>1, <1>3 DEF LegacyRows

\* The running plugins are those of the kinds that the command wants, by the
\* names that were read, for as long as it runs.
ClientsInv ==
  cmdStage \notin {"idle", "specs"} => clients = [k \in Kinds |-> IF Wants(k) THEN DocNames(reader[k]) ELSE {}]

LEMMA ClientsStay ==
  ASSUME ClientsInv, UNCHANGED <<reader, clients, command>>, cmdStage \notin {"idle", "specs"} \/ cmdStage' = cmdStage
  PROVE  ClientsInv'
BY DEF ClientsInv, Wants

LEMMA ClientsNext ==
  ASSUME ClientsInv, [CommandsNext]_commandVars
  PROVE  ClientsInv'
<1>1. ASSUME NEW c, Run(c) PROVE ClientsInv'
  BY <1>1 DEF Run, ClientsInv
<1>2. CASE CommandFails
  BY <1>2 DEF CommandFails, EndRest, ClientsInv
<1>3. CASE EndCommand
  BY <1>3 DEF EndCommand, EndRest, ClientsInv
<1>4. CASE StartPlugins
  <2>1. clients' = [k \in Kinds |-> IF Wants(k) THEN DocNames(reader[k]) ELSE {}] /\ reader' = reader /\ command' = command
    BY <1>4 DEF StartPlugins
  <2> QED BY <2>1 DEF ClientsInv, Wants
<1>5. CASE Dispatch
  BY <1>5, ClientsStay DEF Dispatch, RestOfCommand
<1>6. CASE ConnectionV3
  BY <1>6, ClientsStay DEF ConnectionV3, RestOfCommand
<1>7. CASE InitSource
  BY <1>7, ClientsStay DEF InitSource, Going, RestOfCommand
<1>8. CASE Configure
  BY <1>8, ClientsStay DEF Configure, GoOn, Going, RestOfCommand
<1>9. CASE MigrateTables
  BY <1>9, ClientsStay DEF MigrateTables, GoOn, Going, RestOfCommand
<1>10. CASE OpenStream
  BY <1>10, ClientsStay DEF OpenStream, GoOn, Going, RestOfCommand
<1>11. CASE Receive
  BY <1>11, ClientsStay DEF Receive, Going, RestOfCommand
<1>12. CASE DestinationWrites
  <2>1. UNCHANGED <<reader, clients, command>> /\ cmdStage' = cmdStage
    BY <1>12 DEF DestinationWrites, Going, RestOfCommand
  <2> QED BY <2>1, ClientsStay
<1>13. CASE SourceEnds
  BY <1>13, ClientsStay DEF SourceEnds, Going, RestOfCommand
<1>14. CASE SendDeleteStale
  <2>1. UNCHANGED <<reader, clients, command>> /\ cmdStage = "stale"
    BY <1>14 DEF SendDeleteStale, GoOn, Going, RestOfCommand
  <2> QED BY <2>1, ClientsStay
<1>15. CASE CloseStream
  <2>1. UNCHANGED <<reader, clients, command>> /\ cmdStage = "close"
    BY <1>15 DEF CloseStream, CloseOne, Going, RestOfCommand
  <2> QED BY <2>1, ClientsStay
<1>16. CASE CloseAll
  BY <1>16, ClientsStay DEF CloseAll, RestOfCommand
<1>17. CASE Report
  BY <1>17, ClientsStay DEF Report, Going, RestOfCommand
<1>18. CASE UNCHANGED commandVars
  BY <1>18, ClientsStay DEF commandVars
<1> QED
  BY <1>1, <1>2, <1>3, <1>4, <1>5, <1>6, <1>7, <1>8, <1>9, <1>10, <1>11, <1>12, <1>13, <1>14, <1>15, <1>16, <1>17, <1>18 DEF CommandsNext

\* The names that sync takes of the transformers are names of transformers.
LEMMA OrderIsOf ==
  ASSUME NEW docs, NamedOnce(docs), NEW names
  PROVE  ToSet([i \in DOMAIN NamedDocs(docs, names) |-> NamedDocs(docs, names)[i].name]) \subseteq DocNames(docs)
<1> DEFINE s == NamedDocs(docs, names)
           o == [i \in DOMAIN s |-> s[i].name]
<1>1. SelectedOf(s, docs, names, Len(docs))
  BY SelectedIs
<1> HIDE DEF s
<1>2. DOMAIN s = 1..Len(s)
  BY <1>1 DEF SelectedOf
<1>3. ASSUME NEW x \in ToSet(o) PROVE x \in DocNames(docs)
  <2>1. PICK i \in 1..Len(s) : x = s[i].name
    BY <1>2, <1>3 DEF ToSet
  <2>2. PICK k \in 1..Len(docs) : s[i] = docs[k]
    BY <1>1 DEF SelectedOf
  <2>3. docs[k] \in ToSet(docs)
    BY DEF ToSet, NamedOnce
  <2> QED BY <2>1, <2>2, <2>3 DEF DocNames
<1> QED BY <1>3 DEF s

LEMMA ClientsFollow == CommandsInv /\ ClientsInv => ClientsFound
<1> SUFFICES ASSUME CommandsInv, ClientsInv, cmdStage \notin {"idle", "specs"}, command \in Syncing,
                    NEW s \in ToSet(reader.source)
             PROVE  /\ s.name \in clients["source"] /\ ToSet(s.destinations) \subseteq clients["destination"]
                    /\ \A d \in ToSet(reader.destination) : ToSet(TransformersOf(d)) \subseteq clients["transformer"]
  BY DEF ClientsFound
<1>1. \A k \in Kinds : Wants(k)
  BY DEF Wants, Syncing
<1>2. clients["source"] = DocNames(reader["source"]) /\ clients["destination"] = DocNames(reader["destination"])
      /\ clients["transformer"] = DocNames(reader["transformer"])
  BY <1>1 DEF ClientsInv, Kinds
<1>3. command \notin Relaxed /\ input \in Inputs /\ speaks \in Speaks
  BY DEF CommandsInv, ControlInv, Syncing, Relaxed
<1>4. reader = SpecsOf(input, FALSE) /\ ~SpecsOf(input, FALSE).error
  <2>1. reader = SpecsOf(input, command \in Relaxed) /\ ~reader.error
    BY DEF CommandsInv, ControlInv, Fine
  <2>2. (command \in Relaxed) = FALSE
    BY <1>3
  <2> QED BY <2>1, <2>2
<1>5. SoundSpecs(reader, speaks)
  BY <1>3, <1>4, SpecsAreSound
<1>6. s.name \in clients["source"] /\ ToSet(s.destinations) \subseteq clients["destination"]
  BY <1>2, <1>5 DEF SoundSpecs, DocNames
<1>7. ASSUME NEW d \in ToSet(reader.destination) PROVE ToSet(TransformersOf(d)) \subseteq clients["transformer"]
  <2>1. CASE command = "migrate"
    BY <1>2, <1>5, <2>1 DEF TransformersOf, SoundSpecs
  <2>2. CASE command # "migrate"
    <3>1. TransformersOf(d) = SyncTransformers(d)
      BY <2>2 DEF TransformersOf
    <3>2. NamedOnce(reader.transformer)
      BY <1>5 DEF SoundSpecs
    <3>3. ToSet(SyncTransformers(d)) \subseteq DocNames(reader.transformer)
      BY <3>2, OrderIsOf DEF SyncTransformers
    <3> QED BY <1>2, <3>1, <3>3
  <2> QED BY <2>1, <2>2
<1> QED BY <1>6, <1>7

\* Commands: CommandsInv is invariant.
THEOREM CommandsInvariant == CommandsSpec => []CommandsInv
<1>1. CommandsInit => CommandsInv
  BY CommandsInitInv
<1>2. CommandsInv /\ [CommandsNext]_commandVars => CommandsInv'
  BY CommandsStep
<1> QED BY <1>1, <1>2, PTL DEF CommandsSpec

\* Commands, protocols 1 and 2: what was reported as synced is stored, or on a
\* stream that protocol 1 is closing still, or its stream broke and that was
\* logged; no row is lost but to a newer one, or at the end of its source where
\* stale rows are deleted.
THEOREM LegacyRowsKept == CommandsSpec => []LegacyRows
<1>1. CommandsInv => LegacyRows
  BY LegacyFollows
<1> QED BY <1>1, CommandsInvariant, PTL

\* Commands: every plugin that sync or migrate looks up by its name is running.
THEOREM ClientsAreFound == CommandsSpec => []ClientsFound
<1>1. CommandsInit => ClientsInv
  BY DEF CommandsInit, ClientsInv
<1>2. ClientsInv /\ [CommandsNext]_commandVars => ClientsInv'
  BY ClientsNext
<1>3. CommandsInv /\ ClientsInv => ClientsFound
  BY ClientsFollow
<1> QED BY <1>1, <1>2, <1>3, CommandsInvariant, PTL DEF CommandsSpec
=============================================================================
