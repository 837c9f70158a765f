---------------------------- MODULE SyncV3Proofs ----------------------------
(***************************************************************************)
(* Proofs about SyncV3, for any number of destinations, tables and         *)
(* messages and any faults: no stale row is deleted after a failure, nor   *)
(* before every row of the sync was handed over; success means complete;   *)
(* what is kept and what is cleaned; a summary is last and counts right.   *)
(***************************************************************************)
EXTENDS SyncV3, Integers, SequenceTheorems, FunctionTheorems, FiniteSetTheorems, TLAPS

(* The inserts in a write stream w of destination d, when n of the source's
   inserts ins have left d's pipeline: among the first n, with the right name,
   in order, none twice. *)
Rows(d, ins, n, w) ==
  \A j \in 1..Len(w) : w[j].kind = "insert" =>
    /\ w[j].k \in 1..n
    /\ w[j] = Message("insert", Name[d][ins[w[j].k]], w[j].k)
    /\ \A i \in 1..(j - 1) : w[i].kind = "insert" => w[i].k < w[j].k

\* All of the first n are there.
AllRows(d, ins, n, w) ==
  \A k \in 1..n : \E j \in 1..Len(w) : w[j] = Message("insert", Name[d][ins[k]], k)

\* A stale message in w comes after the first n inserts.
StaleAfter(n, w) ==
  \A k \in 1..Len(w) : w[k].kind = "stale" =>
    \A r \in 1..n : \E j \in 1..(k - 1) : w[j].kind = "insert" /\ w[j].k = r

NoStale(w) == \A k \in 1..Len(w) : w[k].kind # "stale"

\* The source's goroutine has returned an error, or something in a pipeline failed.
AnyError == srcErr \/ \E d \in Dests : broke[d] # "none"

\* After eg.Wait, and not yet returned.
PastWait == pc \in {"stale", "staleSend", "summary", "summaryRow", "close"}

(* The source's goroutine offers every insert to each pipeline in turn; a
   pipeline is closed by the end of the source's goroutine or by an error. *)
FanInv ==
  /\ src = "recv" => \A d \in Dests : sentTo[d] = Len(inserts)
  /\ src = "fanout" =>
       /\ pc = "wait" /\ msg.table \in Tables
       /\ \A d \in Dests :
            sentTo[d] = IF msg.kind = "insert" /\ d >= dst THEN Len(inserts) - 1 ELSE Len(inserts)
  /\ src = "done" /\ ~AnyError => \A d \in Dests : sentTo[d] = Len(inserts)
  /\ \A d \in Dests :
       /\ passedOn[d] <= sentTo[d] /\ sentTo[d] <= Len(inserts)
       /\ closed[d] => src = "done" \/ broke[d] # "none"
       /\ pstate[d] = "ok" => closed[d] /\ passedOn[d] = sentTo[d] /\ broke[d] = "none"
       /\ pstate[d] = "err" => broke[d] # "none"

(* After eg.Wait all goroutines have returned without an error, and before it
   no stale message is sent. *)
PhaseInv ==
  /\ PastWait \/ ret = "ok" => src = "done" /\ ~AnyError /\ \A d \in Dests : pstate[d] = "ok"
  /\ pc \in {"init", "wait"} \/ AnyError => \A d \in Dests : NoStale(wrote[d])
  /\ ret = "ok" => pc = "done"

WroteInv ==
  \A d \in Dests :
    /\ Rows(d, inserts, passedOn[d], wrote[d])
    /\ ~down[d] => AllRows(d, inserts, passedOn[d], wrote[d])
    /\ StaleAfter(Len(inserts), wrote[d])

\* A destination whose stream was closed without an error has not failed.
CloseInv ==
  /\ pc = "close" => \A d \in Dests : d < dst => ~down[d] /\ streamClosed[d]
  /\ ret = "ok" => \A d \in Dests : ~down[d] /\ streamClosed[d]

SyncInv == TypeOK /\ FanInv /\ PhaseInv /\ WroteInv /\ CloseInv

-----------------------------------------------------------------------------
(* What one more message does to the contents of a write stream. *)

LEMMA Appended ==
  ASSUME NEW w \in Seq(Written), NEW m \in Written
  PROVE  /\ Append(w, m) \in Seq(Written) /\ Len(w) \in Nat
         /\ Len(Append(w, m)) = Len(w) + 1
         /\ \A j \in 1..Len(w) : Append(w, m)[j] = w[j]
         /\ Append(w, m)[Len(w) + 1] = m
BY AppendProperties, LenProperties

(* A message that is no insert leaves the inserts as they are. *)
LEMMA RowsOther ==
  ASSUME NEW d, NEW ins, NEW n, NEW w \in Seq(Written), NEW m \in Written, m.kind # "insert",
         Rows(d, ins, n, w)
  PROVE  /\ Rows(d, ins, n, Append(w, m))
         /\ AllRows(d, ins, n, w) => AllRows(d, ins, n, Append(w, m))
<1> DEFINE v == Append(w, m)
<1>1. /\ Len(w) \in Nat /\ Len(v) = Len(w) + 1 /\ v[Len(w) + 1] = m
      /\ \A j \in 1..Len(w) : v[j] = w[j]
  BY Appended
<1> HIDE DEF v
<1>2. Rows(d, ins, n, v)
  <2> SUFFICES ASSUME NEW j \in 1..Len(v), v[j].kind = "insert"
      PROVE  /\ v[j].k \in 1..n
             /\ v[j] = Message("insert", Name[d][ins[v[j].k]], v[j].k)
             /\ \A i \in 1..(j - 1) : v[i].kind = "insert" => v[i].k < v[j].k
    BY DEF Rows
  <2>1. j \in 1..Len(w) /\ \A i \in 1..(j - 1) : i \in 1..Len(w)
    BY <1>1
  <2>2. v[j] = w[j] /\ \A i \in 1..(j - 1) : v[i] = w[i]
    BY <1>1, <2>1
  <2> QED BY <2>1, <2>2 DEF Rows
<1>3. AllRows(d, ins, n, w) => AllRows(d, ins, n, v)
  BY <1>1 DEF AllRows
<1> QED BY <1>2, <1>3 DEF v

(* The next insert extends them by one. *)
LEMMA RowsNext ==
  ASSUME NEW d, NEW ins, NEW n \in Nat, NEW w \in Seq(Written), NEW m \in Written,
         m = Message("insert", Name[d][ins[n + 1]], n + 1), Rows(d, ins, n, w)
  PROVE  /\ Rows(d, ins, n + 1, Append(w, m))
         /\ AllRows(d, ins, n, w) => AllRows(d, ins, n + 1, Append(w, m))
<1> DEFINE v == Append(w, m)
<1>1. /\ Len(w) \in Nat /\ Len(v) = Len(w) + 1 /\ v[Len(w) + 1] = m
      /\ \A j \in 1..Len(w) : v[j] = w[j]
  BY Appended
<1> HIDE DEF v
<1>2. m.kind = "insert" /\ m.k = n + 1
  BY DEF Message
<1>3. Rows(d, ins, n + 1, v)
  <2> SUFFICES ASSUME NEW j \in 1..Len(v), v[j].kind = "insert"
      PROVE  /\ v[j].k \in 1..(n + 1)
             /\ v[j] = Message("insert", Name[d][ins[v[j].k]], v[j].k)
             /\ \A i \in 1..(j - 1) : v[i].kind = "insert" => v[i].k < v[j].k
    BY DEF Rows
  <2>1. CASE j = Len(w) + 1
    <3>1. v[j] = m /\ \A i \in 1..(j - 1) : i \in 1..Len(w) /\ v[i] = w[i]
      BY <1>1, <2>1
    <3>2. \A i \in 1..(j - 1) : v[i].kind = "insert" => v[i].k \in 1..n
      BY <3>1 DEF Rows
    <3>3. \A i \in 1..(j - 1) : v[i].kind = "insert" => v[i].k < n + 1
      BY <3>2
    <3> QED BY <1>2, <3>1, <3>3
  <2>2. CASE j # Len(w) + 1
    <3>1. j \in 1..Len(w) /\ \A i \in 1..(j - 1) : i \in 1..Len(w)
      BY <1>1, <2>2
    <3>2. v[j] = w[j] /\ \A i \in 1..(j - 1) : v[i] = w[i]
      BY <1>1, <3>1
    <3> QED BY <3>1, <3>2 DEF Rows
  <2> QED BY <2>1, <2>2
<1>4. AllRows(d, ins, n, w) => AllRows(d, ins, n + 1, v)
  <2> SUFFICES ASSUME AllRows(d, ins, n, w), NEW k \in 1..(n + 1)
      PROVE  \E j \in 1..Len(v) : v[j] = Message("insert", Name[d][ins[k]], k)
    BY DEF AllRows
  <2>1. CASE k = n + 1
    BY <1>1, <2>1
  <2>2. CASE k # n + 1
    <3>1. PICK j \in 1..Len(w) : w[j] = Message("insert", Name[d][ins[k]], k)
      BY <2>2 DEF AllRows
    <3> QED BY <1>1, <3>1
  <2> QED BY <2>1, <2>2
<1> QED BY <1>3, <1>4 DEF v

(* When the source sends one more insert, those that have left are the same. *)
LEMMA RowsReceive ==
  ASSUME NEW d, NEW ins \in Seq(Tables), NEW t \in Tables, NEW n \in Nat, n <= Len(ins),
         NEW w, Rows(d, ins, n, w)
  PROVE  /\ Rows(d, Append(ins, t), n, w)
         /\ AllRows(d, ins, n, w) => AllRows(d, Append(ins, t), n, w)
<1>1. \A k \in 1..n : Append(ins, t)[k] = ins[k]
  BY AppendProperties, LenProperties
<1> QED
  BY <1>1 DEF Rows, AllRows

(* A message that is not stale, and a stale message after all inserts. *)
LEMMA StaleKept ==
  ASSUME NEW n, NEW w \in Seq(Written), NEW m \in Written, StaleAfter(n, w),
         m.kind # "stale" \/ \A r \in 1..n : \E j \in 1..Len(w) : w[j].kind = "insert" /\ w[j].k = r
  PROVE  StaleAfter(n, Append(w, m))
<1> DEFINE v == Append(w, m)
<1>1. /\ Len(w) \in Nat /\ Len(v) = Len(w) + 1 /\ v[Len(w) + 1] = m
      /\ \A j \in 1..Len(w) : v[j] = w[j]
  BY Appended
<1> HIDE DEF v
<1> SUFFICES ASSUME NEW k \in 1..Len(v), v[k].kind = "stale", NEW r \in 1..n
    PROVE  \E j \in 1..(k - 1) : v[j].kind = "insert" /\ v[j].k = r
  BY DEF StaleAfter, v
<1>2. CASE k = Len(w) + 1
  BY <1>1, <1>2
<1>3. CASE k # Len(w) + 1
  <2>1. k \in 1..Len(w) /\ v[k] = w[k]
    BY <1>1, <1>3
  <2>2. PICK j \in 1..(k - 1) : w[j].kind = "insert" /\ w[j].k = r
    BY <2>1 DEF StaleAfter
  <2> QED BY <1>1, <2>1, <2>2
<1> QED BY <1>2, <1>3

LEMMA NoStaleKept ==
  ASSUME NEW w \in Seq(Written), NEW m \in Written, NoStale(w), m.kind # "stale"
  PROVE  NoStale(Append(w, m))
BY Appended DEF NoStale

-----------------------------------------------------------------------------
(* Types. *)

LEMMA MessageType ==
  ASSUME NEW kind \in Kinds, NEW name \in Names \cup {NoTable}, NEW k \in 0..MaxMessages
  PROVE  Message(kind, name, k) \in Written /\ Message(kind, name, k).kind = kind
BY DEF Message, Written

LEMMA NameType ==
  ASSUME NEW d \in Dests, NEW t \in Tables
  PROVE  Name[d][t] \in Names /\ t \in Names
BY DEF Names

(* A call of Send appends its message to one stream, or leaves all as they are. *)
LEMMA SendEffect ==
  ASSUME NEW d \in Dests, NEW m \in Written, wrote \in [Dests -> Seq(Written)],
         SendOK(d, m) \/ Refused(d)
  PROVE  /\ wrote' \in [Dests -> Seq(Written)]
         /\ \A e \in Dests : e # d => wrote'[e] = wrote[e]
         /\ wrote'[d] = wrote[d] \/ (~down[d] /\ wrote'[d] = Append(wrote[d], m))
<1>1. CASE Accepted(d, m)
  <2>1. Append(wrote[d], m) \in Seq(Written)
    BY AppendProperties
  <2> QED BY <1>1, <2>1 DEF Accepted
<1>2. CASE wrote' = wrote
  BY <1>2
<1> QED BY <1>1, <1>2 DEF SendOK, Lost, Refused

(* The loops over the destinations. *)
LEMMA LoopType ==
  ASSUME dst \in Dests, NEW loop, NEW after, LoopNext(loop, after)
  PROVE  dst' \in Dests /\ pc' \in {loop, after}
BY SyncAssumption DEF LoopNext, Dests

LEMMA NextDestEffect ==
  ASSUME dst \in Dests, NextDest, src = "fanout"
  PROVE  /\ dst' \in Dests /\ UNCHANGED <<srcErr, closed>>
         /\ \/ dst < ND /\ dst' = dst + 1 /\ src' = "fanout"
            \/ dst = ND /\ dst' = dst /\ src' = "recv"
BY SyncAssumption DEF NextDest, Dests

LEMMA TypeInit == Init => TypeOK
<1> SUFFICES ASSUME Init PROVE TypeOK
  OBVIOUS
<1>1. 1 \in Dests /\ 0 \in 0..MaxMessages
  BY SyncAssumption DEF Dests
<1>2. <<>> \in Seq(Tables) /\ Len(<<>>) = 0 /\ <<>> \in Seq(Written)
  OBVIOUS
<1>3. /\ wrote \in [Dests -> Seq(Written)] /\ learned \in [Dests -> SUBSET Tables]
      /\ sentTo \in [Dests -> 0..MaxMessages] /\ passedOn \in [Dests -> 0..MaxMessages]
  BY <1>1, <1>2 DEF Init
<1>4. /\ closed \in [Dests -> BOOLEAN] /\ pstate \in [Dests -> {"run", "ok", "err"}]
      /\ down \in [Dests -> BOOLEAN] /\ streamClosed \in [Dests -> BOOLEAN]
  BY DEF Init
<1>7. broke \in [Dests -> {"none", "first", "later", "output"}]
  BY DEF Init
<1>5. msg \in [kind : {"none", "insert", "migrate", "delete"}, table : Tables \cup {NoTable}]
  BY DEF Init, NoMsg
<1>6. inserts \in Seq(Tables) /\ Len(inserts) <= received
  BY <1>2 DEF Init
<1> QED BY <1>1, <1>3, <1>4, <1>5, <1>6, <1>7 DEF Init, TypeOK

LEMMA TypeNext ==
  ASSUME TypeOK, FanInv, [Next]_vars
  PROVE  TypeOK'
<1> USE SyncAssumption
<1> USE DEF TypeOK
<1>1. CASE Start
  BY <1>1 DEF Start, Return, sourceVars, tableVars, pipeVars, writeVars
<1>a. ASSUME Receives
      PROVE  /\ received' \in 0..MaxMessages /\ dst' \in Dests
             /\ Len(inserts) \in Nat /\ Len(inserts) < received'
             /\ UNCHANGED <<srcErr, learned, pipeVars, writeVars, mainVars>>
  BY <1>a, LenProperties DEF Receives, Dests
<1>b. ASSUME Receives, inserts' \in Seq(Tables), Len(inserts') <= received',
             src' \in {"recv", "fanout", "done"},
             msg' \in [kind : {"none", "insert", "migrate", "delete"}, table : Tables \cup {NoTable}],
             migrated' \subseteq Tables, skipped' \subseteq Tables, staleTables' \subseteq Tables
      PROVE  TypeOK'
  BY <1>a, <1>b DEF pipeVars, writeVars, mainVars
<1>2. ASSUME NEW t \in Tables, ReceiveInsert(t) PROVE TypeOK'
  <2>1. Append(inserts, t) \in Seq(Tables) /\ Len(Append(inserts, t)) = Len(inserts) + 1
    BY AppendProperties
  <2>2. Receives /\ inserts' = Append(inserts, t)
    BY <1>2 DEF ReceiveInsert
  <2>3. inserts' \in Seq(Tables) /\ Len(inserts') <= received'
    BY <1>a, <2>1, <2>2
  <2>4. /\ src' = "fanout" /\ UNCHANGED <<migrated, skipped, staleTables>>
        /\ msg' \in [kind : {"none", "insert", "migrate", "delete"}, table : Tables \cup {NoTable}]
    BY <1>2 DEF ReceiveInsert
  <2> QED BY <1>b, <2>2, <2>3, <2>4
<1>3. ASSUME NEW t \in Tables, ReceiveDelete(t) PROVE TypeOK'
  <2>1. Receives /\ UNCHANGED <<inserts, migrated, skipped, staleTables>> /\ src' = "fanout"
    BY <1>3 DEF ReceiveDelete
  <2>2. msg' \in [kind : {"none", "insert", "migrate", "delete"}, table : Tables \cup {NoTable}]
    BY <1>3 DEF ReceiveDelete
  <2>3. Len(inserts') <= received'
    BY <1>a, <2>1
  <2> QED BY <1>b, <2>1, <2>2, <2>3
<1>4. ASSUME NEW t \in Tables, ReceiveMigrate(t) PROVE TypeOK'
  <2>1. /\ msg' \in [kind : {"none", "insert", "migrate", "delete"}, table : Tables \cup {NoTable}]
        /\ src' \in {"recv", "fanout", "done"}
    BY <1>4 DEF ReceiveMigrate, Receives
  <2>2. migrated' \subseteq Tables /\ skipped' \subseteq Tables /\ staleTables' \subseteq Tables
    BY <1>4 DEF ReceiveMigrate
  <2>3. Receives /\ UNCHANGED inserts
    BY <1>4 DEF ReceiveMigrate
  <2>4. Len(inserts') <= received'
    BY <1>a, <2>3
  <2> QED BY <1>b, <2>1, <2>2, <2>3, <2>4
<1>5. CASE ReceiveError
  <2>1. Receives /\ UNCHANGED <<src, msg, inserts, migrated, skipped, staleTables>>
    BY <1>5 DEF ReceiveError
  <2>2. Len(inserts') <= received'
    BY <1>a, <2>1
  <2> QED BY <1>b, <2>1, <2>2
<1>6. CASE FanoutInsert
  <2>0. src = "fanout" /\ msg.kind = "insert" /\ dst \in Dests /\ Len(inserts) \in Nat
    BY <1>6, LenProperties DEF FanoutInsert
  <2>a. sentTo[dst] = Len(inserts) - 1
    BY <2>0 DEF FanInv, Dests
  <2>1. sentTo[dst] + 1 \in 0..MaxMessages
    BY <2>0, <2>a
  <2>2. sentTo' \in [Dests -> 0..MaxMessages]
    BY <1>6, <2>1 DEF FanoutInsert
  <2>3. /\ src' \in {"recv", "fanout", "done"} /\ srcErr' \in BOOLEAN
        /\ dst' \in Dests /\ closed' \in [Dests -> BOOLEAN]
    <3>1. CASE SourceReturns(FALSE) /\ UNCHANGED dst
      BY <3>1 DEF SourceReturns
    <3>2. CASE SourceReturns(TRUE) /\ UNCHANGED dst
      BY <3>2 DEF SourceReturns
    <3>3. CASE NextDest
      BY <1>6, <3>3, NextDestEffect DEF FanoutInsert
    <3> QED BY <1>6, <3>1, <3>2, <3>3 DEF FanoutInsert
  <2> QED BY <1>6, <2>2, <2>3 DEF FanoutInsert, tableVars, writeVars, mainVars
<1>7. CASE FanoutDirect
  <2> DEFINE m == Message(msg.kind, Name[dst][msg.table], 0)
  <2>1. m \in Written
    BY <1>7, MessageType, NameType DEF FanoutDirect, Kinds, FanInv
  <2>2. wrote' \in [Dests -> Seq(Written)]
    BY <1>7, <2>1, SendEffect DEF FanoutDirect
  <2>3. learned' \in [Dests -> SUBSET Tables]
    BY <1>7 DEF FanoutDirect, FanInv
  <2>4. /\ src' \in {"recv", "fanout", "done"} /\ srcErr' \in BOOLEAN
        /\ dst' \in Dests /\ closed' \in [Dests -> BOOLEAN]
        /\ streamClosed' \in [Dests -> BOOLEAN]
    <3>1. CASE HandleSendError(dst) /\ SourceReturns(TRUE) /\ UNCHANGED dst
      BY <3>1 DEF SourceReturns, HandleSendError
    <3>2. CASE NextDest /\ UNCHANGED streamClosed
      BY <1>7, <3>2, NextDestEffect DEF FanoutDirect
    <3> QED BY <1>7, <3>1, <3>2 DEF FanoutDirect
  <2> QED BY <1>7, <2>2, <2>3, <2>4 DEF FanoutDirect, mainVars
<1>8. CASE SourceEnds
  BY <1>8 DEF SourceEnds, SourceReturns, tableVars, writeVars, mainVars
<1>9. CASE SourceFails
  BY <1>9 DEF SourceFails, SourceReturns, tableVars, writeVars, mainVars
<1>10. ASSUME NEW d \in Dests, PipeDeliver(d) PROVE TypeOK'
  <2> DEFINE k == passedOn[d] + 1
             m == Message("insert", Name[d][inserts[k]], k)
  <2>1. k \in 1..Len(inserts) /\ k \in 0..MaxMessages
    BY <1>10, LenProperties DEF PipeDeliver, InPipe, FanInv
  <2>2. inserts[k] \in Tables
    BY <2>1, ElementOfSeq
  <2>3. m \in Written
    BY <2>1, <2>2, MessageType, NameType DEF Kinds
  <2>4. wrote' \in [Dests -> Seq(Written)]
    BY <1>10, <2>3, SendEffect DEF PipeDeliver
  <2>5. /\ passedOn' \in [Dests -> 0..MaxMessages] /\ closed' \in [Dests -> BOOLEAN]
        /\ broke' \in [Dests -> {"none", "first", "later", "output"}] /\ streamClosed' \in [Dests -> BOOLEAN]
    <3>1. CASE passedOn' = [passedOn EXCEPT ![d] = k] /\ UNCHANGED <<closed, broke, streamClosed>>
      BY <2>1, <3>1
    <3>2. CASE /\ HandleSendError(d) /\ closed' = [closed EXCEPT ![d] = TRUE]
               /\ broke' = [broke EXCEPT ![d] = "output"] /\ UNCHANGED passedOn
      BY <3>2 DEF HandleSendError
    <3> QED BY <1>10, <3>1, <3>2 DEF PipeDeliver
  <2> QED BY <1>10, <2>4, <2>5 DEF PipeDeliver, sourceVars, tableVars, mainVars
<1>11. ASSUME NEW d \in Dests, PipeEnds(d) \/ PipeFails(d) \/ PipeBreaks(d) PROVE TypeOK'
  <2>1. /\ pstate' \in [Dests -> {"run", "ok", "err"}]
        /\ broke' \in [Dests -> {"none", "first", "later", "output"}]
    <3>1. CASE PipeEnds(d)
      BY <3>1 DEF PipeEnds
    <3>2. CASE PipeFails(d)
      BY <3>2 DEF PipeFails
    <3>3. CASE PipeBreaks(d)
      <4>1. pstate' = pstate /\ \E x \in {"first", "later"} : broke' = [broke EXCEPT ![d] = x]
        BY <3>3 DEF PipeBreaks
      <4>2. /\ pstate \in [Dests -> {"run", "ok", "err"}]
            /\ broke \in [Dests -> {"none", "first", "later", "output"}]
        BY DEF TypeOK
      <4> QED BY <4>1, <4>2
    <3> QED BY <1>11, <3>1, <3>2, <3>3
  <2>2. UNCHANGED <<sourceVars, dst, tableVars, sentTo, passedOn, closed, writeVars, mainVars>>
    BY <1>11 DEF PipeEnds, PipeFails, PipeBreaks
  <2> QED BY <2>1, <2>2 DEF sourceVars, tableVars, writeVars, mainVars
<1>12. ASSUME NEW d \in Dests, DestinationFails(d) PROVE TypeOK'
  BY <1>12 DEF DestinationFails, sourceVars, tableVars, pipeVars, mainVars
<1>13. CASE Wait
  <2>a. ret \in {"none", "ok", "err"} /\ 1 \in Dests
    BY DEF Dests
  <2> HIDE DEF TypeOK
  <2>1. pc' \in {"stale", "done"} /\ ret' \in {"none", "ok", "err"} /\ dst' \in Dests
    BY <1>13, <2>a DEF Wait, Return
  <2> USE DEF TypeOK
  <2>2. UNCHANGED <<sourceVars, tableVars, pipeVars, writeVars, staleLeft, metaErr>>
    BY <1>13 DEF Wait
  <2> QED BY <2>1, <2>2 DEF sourceVars, tableVars, pipeVars, writeVars
<1>14. CASE StaleBegin
  <2>1. UpdateTableNames(dst, staleTables) \subseteq Names
    BY NameType DEF UpdateTableNames, UpdateTableName
  <2>2. staleLeft' \subseteq Names /\ staleTables' \subseteq Tables
    BY <1>14, <2>1 DEF StaleBegin
  <2>3. pc' \in {"stale", "staleSend", "summary"} /\ dst' \in Dests
    BY <1>14, LoopType DEF StaleBegin
  <2> QED BY <1>14, <2>2, <2>3 DEF StaleBegin, sourceVars, pipeVars, writeVars
<1>15. CASE StaleSend
  <2>1. wrote' \in [Dests -> Seq(Written)]
    <3>1. \A n \in staleLeft : Message("stale", n, 0) \in Written
      BY MessageType DEF Kinds
    <3> QED BY <1>15, <3>1, SendEffect DEF StaleSend, Refused
  <2>2. /\ pc' \in {"staleSend", "stale", "summary", "done"} /\ dst' \in Dests
        /\ ret' \in {"none", "ok", "err"} /\ staleLeft' \subseteq Names
    BY <1>15, LoopType DEF StaleSend, Return
  <2> QED BY <1>15, <2>1, <2>2 DEF StaleSend, sourceVars, tableVars, pipeVars
<1>16. CASE SummaryBegin
  <2>1. Message("summaryTable", NoTable, 0) \in Written
    <3>1. "summaryTable" \in Kinds /\ 0 \in 0..MaxMessages
      BY DEF Kinds
    <3> QED BY <3>1, MessageType
  <2>2. wrote' \in [Dests -> Seq(Written)]
    BY <1>16, <2>1, SendEffect DEF SummaryBegin
  <2>3. pc' \in {"summary", "summaryRow", "close"} /\ dst' \in Dests
    BY <1>16, LoopType DEF SummaryBegin
  <2>4. metaErr' \in BOOLEAN /\ streamClosed' \in [Dests -> BOOLEAN]
    BY <1>16 DEF SummaryBegin, HandleSendError
  <2> QED BY <1>16, <2>2, <2>3, <2>4 DEF SummaryBegin, sourceVars, tableVars, pipeVars
<1>17. CASE SummaryRow
  <2>1. Message("summary", NoTable, Len(inserts)) \in Written
    <3>1. "summary" \in Kinds /\ Len(inserts) \in 0..MaxMessages
      BY LenProperties DEF Kinds
    <3> QED BY <3>1, MessageType
  <2>2. wrote' \in [Dests -> Seq(Written)]
    BY <1>17, <2>1, SendEffect DEF SummaryRow
  <2>3. pc' \in {"summaryRow", "summary", "close"} /\ dst' \in Dests
    BY <1>17, LoopType DEF SummaryRow
  <2>4. metaErr' \in BOOLEAN /\ streamClosed' \in [Dests -> BOOLEAN]
    BY <1>17 DEF SummaryRow, HandleSendError
  <2> QED BY <1>17, <2>2, <2>3, <2>4 DEF SummaryRow, sourceVars, tableVars, pipeVars
<1>18. CASE CloseDest
  <2>1. /\ pc' \in {"close", "done"} /\ ret' \in {"none", "ok", "err"}
        /\ streamClosed' \in [Dests -> BOOLEAN]
    BY <1>18 DEF CloseDest, Return, HandleSendError
  <2>2. dst' \in Dests
    BY <1>18 DEF CloseDest, Dests
  <2> QED BY <1>18, <2>1, <2>2 DEF CloseDest, sourceVars, tableVars, pipeVars
<1>19. CASE UNCHANGED vars
  BY <1>19 DEF vars, sourceVars, tableVars, pipeVars, writeVars, mainVars
<1> QED
  BY <1>1, <1>2, <1>3, <1>4, <1>5, <1>6, <1>7, <1>8, <1>9, <1>10, <1>11, <1>12, <1>13, <1>14,
     <1>15, <1>16, <1>17, <1>18, <1>19
  DEF Next, SourceStep, PipeStep, MainStep, Terminated

-----------------------------------------------------------------------------
(* The source's goroutine and the pipelines. *)

LEMMA FanInit == Init => FanInv
<1> SUFFICES ASSUME Init PROVE FanInv
  OBVIOUS
<1>1. Len(inserts) = 0
  BY DEF Init
<1>2. \A d \in Dests : sentTo[d] = 0 /\ passedOn[d] = 0 /\ closed[d] = FALSE /\ pstate[d] = "run" /\ broke[d] = "none"
  BY DEF Init
<1> QED BY <1>1, <1>2 DEF Init, FanInv

LEMMA FanNext ==
  ASSUME TypeOK, FanInv, [Next]_vars
  PROVE  FanInv'
<1>0. Len(inserts) \in Nat /\ \A d \in Dests : sentTo[d] \in Nat /\ passedOn[d] \in Nat
  BY LenProperties, SyncAssumption DEF TypeOK
<1>1. ASSUME NEW t \in Tables, ReceiveInsert(t) PROVE FanInv'
  <2>1. Len(inserts') = Len(inserts) + 1
    BY <1>1, AppendProperties DEF ReceiveInsert, TypeOK
  <2>2. /\ src = "recv" /\ src' = "fanout" /\ pc' = "wait" /\ dst' = 1
        /\ msg'.kind = "insert" /\ msg'.table \in Tables
        /\ UNCHANGED <<sentTo, passedOn, closed, broke, pstate>>
    BY <1>1 DEF ReceiveInsert, Receives, pipeVars, mainVars
  <2> QED BY <1>0, <2>1, <2>2 DEF FanInv, Dests
<1>2. ASSUME NEW t \in Tables, ReceiveDelete(t) \/ ReceiveMigrate(t) PROVE FanInv'
  <2>1. /\ src = "recv" /\ pc' = "wait" /\ UNCHANGED <<inserts, sentTo, passedOn, closed, broke, pstate>>
        /\ src' = "recv" \/ (src' = "fanout" /\ msg'.kind # "insert" /\ msg'.table \in Tables)
    BY <1>2 DEF ReceiveDelete, ReceiveMigrate, Receives, pipeVars, mainVars
  <2> QED BY <1>0, <2>1 DEF FanInv
<1>3. CASE ReceiveError
  BY <1>3 DEF ReceiveError, Receives, pipeVars, mainVars, FanInv
<1>4. CASE FanoutInsert
  <2>1. /\ src = "fanout" /\ msg.kind = "insert" /\ dst \in Dests
        /\ UNCHANGED <<pc, msg, inserts, passedOn, broke, pstate>>
    BY <1>4 DEF FanoutInsert, mainVars, TypeOK
  <2>2. /\ pc = "wait" /\ msg.table \in Tables /\ sentTo'[dst] = Len(inserts)
        /\ \A d \in Dests : d # dst => sentTo'[d] = sentTo[d]
    <3>1. sentTo \in [Dests -> 0..MaxMessages] /\ sentTo' = [sentTo EXCEPT ![dst] = sentTo[dst] + 1]
      BY <1>4 DEF FanoutInsert, TypeOK
    <3>2. sentTo[dst] = Len(inserts) - 1
      BY <1>0, <2>1 DEF FanInv, Dests
    <3>3. sentTo'[dst] = Len(inserts)
      BY <1>0, <2>1, <3>1, <3>2
    <3> QED BY <2>1, <3>1, <3>3 DEF FanInv
  <2>3. /\ \A d \in Dests : passedOn[d] <= sentTo'[d] /\ sentTo'[d] <= Len(inserts)
        /\ \A d \in Dests : pstate[d] = "ok" => FALSE
    BY <1>0, <2>1, <2>2 DEF FanInv, Dests
  <2>4. CASE SourceReturns(FALSE) /\ closed[dst]
    <3>1. broke[dst] # "none" /\ src' = "done"
      BY <2>1, <2>4 DEF FanInv, SourceReturns
    <3> QED BY <2>1, <2>3, <3>1 DEF FanInv, AnyError
  <2>5. CASE SourceReturns(TRUE)
    BY <2>1, <2>3, <2>5 DEF FanInv, AnyError, SourceReturns
  <2>6. CASE NextDest
    <3>1. \/ dst < ND /\ dst' = dst + 1 /\ src' = "fanout"
          \/ dst = ND /\ src' = "recv"
      BY <2>1, <2>6, NextDestEffect
    <3>2. \A d \in Dests : closed'[d] => broke'[d] # "none"
      BY <2>1, <2>6 DEF NextDest, FanInv
    <3>3. ASSUME dst < ND, dst' = dst + 1, src' = "fanout" PROVE FanInv'
      <4>1. \A d \in Dests : sentTo'[d] = IF d >= dst' THEN Len(inserts) - 1 ELSE Len(inserts)
        BY <1>0, <2>1, <2>2, <3>3 DEF FanInv, Dests
      <4> QED BY <2>1, <2>2, <2>3, <3>2, <3>3, <4>1 DEF FanInv
    <3>4. ASSUME dst = ND, src' = "recv" PROVE FanInv'
      <4>1. \A d \in Dests : sentTo'[d] = Len(inserts)
        BY <1>0, <2>1, <2>2, <3>4, SyncAssumption DEF FanInv, Dests
      <4> QED BY <2>1, <2>2, <2>3, <3>2, <3>4, <4>1 DEF FanInv
    <3> QED BY <3>1, <3>3, <3>4
  <2> QED BY <1>4, <2>4, <2>5, <2>6 DEF FanoutInsert
<1>5. CASE FanoutDirect
  <2>1. /\ src = "fanout" /\ msg.kind # "insert" /\ dst \in Dests
        /\ UNCHANGED <<pc, msg, inserts, sentTo, passedOn, broke, pstate>>
    BY <1>5 DEF FanoutDirect, mainVars, TypeOK
  <2>2. CASE SourceReturns(TRUE)
    BY <2>1, <2>2 DEF FanInv, AnyError, SourceReturns
  <2>3. CASE NextDest
    <3>1. (src' = "fanout" \/ src' = "recv") /\ closed' = closed
      BY <2>1, <2>3, NextDestEffect
    <3> QED BY <2>1, <3>1 DEF FanInv
  <2> QED BY <1>5, <2>2, <2>3 DEF FanoutDirect
<1>6. CASE SourceEnds
  BY <1>6 DEF SourceEnds, SourceReturns, FanInv
<1>7. CASE SourceFails
  BY <1>7 DEF SourceFails, SourceReturns, FanInv, AnyError
<1>8. ASSUME NEW d \in Dests, PipeDeliver(d) PROVE FanInv'
  <2>1. /\ pstate[d] = "run" /\ passedOn[d] + 1 <= sentTo[d]
        /\ UNCHANGED <<pc, src, srcErr, msg, dst, inserts, sentTo, pstate>>
    BY <1>0, <1>8 DEF PipeDeliver, InPipe, sourceVars, mainVars
  <2>2. CASE passedOn' = [passedOn EXCEPT ![d] = passedOn[d] + 1] /\ UNCHANGED <<closed, broke>>
    BY <1>0, <2>1, <2>2 DEF FanInv, AnyError, TypeOK
  <2>3. CASE /\ closed' = [closed EXCEPT ![d] = TRUE]
             /\ broke' = [broke EXCEPT ![d] = "output"] /\ UNCHANGED passedOn
    <3>1. AnyError'
      BY <2>3 DEF AnyError, TypeOK
    <3> QED BY <2>1, <2>3, <3>1 DEF FanInv, TypeOK
  <2> QED BY <1>8, <2>2, <2>3 DEF PipeDeliver
<1>9. ASSUME NEW d \in Dests, PipeEnds(d) PROVE FanInv'
  <2>1. /\ pstate[d] = "run" /\ broke[d] = "none" /\ closed[d] /\ passedOn[d] = sentTo[d]
        /\ pstate' = [pstate EXCEPT ![d] = "ok"]
        /\ UNCHANGED <<pc, src, srcErr, msg, dst, inserts, sentTo, passedOn, closed, broke>>
    BY <1>0, <1>9 DEF PipeEnds, InPipe, sourceVars, mainVars
  <2>2. AnyError => AnyError'
    BY <2>1 DEF AnyError, TypeOK
  <2> QED BY <2>1, <2>2 DEF FanInv, TypeOK
<1>10. ASSUME NEW d \in Dests, PipeFails(d) \/ PipeBreaks(d) PROVE FanInv'
  <2>1. /\ pstate[d] = "run"
        /\ \/ broke[d] # "none" /\ pstate' = [pstate EXCEPT ![d] = "err"] /\ broke' = broke
           \/ pstate' = pstate /\ \E x \in {"first", "later"} : broke' = [broke EXCEPT ![d] = x]
        /\ UNCHANGED <<pc, src, srcErr, msg, dst, inserts, sentTo, passedOn, closed>>
    BY <1>10 DEF PipeFails, PipeBreaks, sourceVars, mainVars
  <2>2. AnyError'
    BY <2>1 DEF AnyError, TypeOK
  <2> QED BY <2>1, <2>2 DEF FanInv, TypeOK
<1>11. ASSUME NEW d \in Dests, DestinationFails(d) PROVE FanInv'
  BY <1>11 DEF DestinationFails, sourceVars, pipeVars, mainVars, FanInv, AnyError
<1>12. CASE Start \/ Wait \/ StaleBegin \/ StaleSend \/ SummaryBegin \/ SummaryRow \/ CloseDest
  <2>1. UNCHANGED <<src, srcErr, msg, inserts, sentTo, passedOn, closed, broke, pstate>>
    BY <1>12 DEF Start, Wait, StaleBegin, StaleSend, SummaryBegin, SummaryRow, CloseDest,
                 sourceVars, pipeVars
  <2>2. src # "fanout"
    BY <1>12 DEF Start, Wait, StaleBegin, StaleSend, SummaryBegin, SummaryRow, CloseDest,
                 FanInv
  <2> QED BY <2>1, <2>2 DEF FanInv, AnyError
<1>13. CASE UNCHANGED vars
  BY <1>13 DEF vars, sourceVars, pipeVars, mainVars, FanInv, AnyError
<1> QED
  BY <1>1, <1>2, <1>3, <1>4, <1>5, <1>6, <1>7, <1>8, <1>9, <1>10, <1>11, <1>12, <1>13
  DEF Next, SourceStep, PipeStep, MainStep, Terminated

(* What the steps of the source's goroutine, other than a new insert, leave alone. *)
LEMMA SourceFrame ==
  ASSUME FanInv,
         \/ \E t \in Tables : ReceiveInsert(t) \/ ReceiveDelete(t) \/ ReceiveMigrate(t)
         \/ ReceiveError \/ FanoutInsert \/ FanoutDirect \/ SourceEnds \/ SourceFails
  PROVE  pc = "wait" /\ UNCHANGED <<pc, ret, passedOn, broke, pstate, down>>
BY DEF FanInv, ReceiveInsert, ReceiveDelete, ReceiveMigrate, ReceiveError, Receives, FanoutInsert,
       FanoutDirect, SourceEnds, SourceFails, pipeVars, writeVars, mainVars

LEMMA SourceWrites ==
  ASSUME \/ \E t \in Tables : ReceiveInsert(t) \/ ReceiveDelete(t) \/ ReceiveMigrate(t)
         \/ ReceiveError \/ FanoutInsert \/ SourceEnds \/ SourceFails
  PROVE  UNCHANGED wrote
BY DEF ReceiveInsert, ReceiveDelete, ReceiveMigrate, ReceiveError, Receives, FanoutInsert,
       SourceEnds, SourceFails, writeVars

(* A migrate or delete message goes to the stream of the loop's destination. *)
LEMMA DirectWrites ==
  ASSUME TypeOK, FanInv, FanoutDirect
  PROVE  \E m \in Written :
           /\ m.kind # "stale" /\ m.kind # "insert" /\ dst \in Dests
           /\ \A e \in Dests : e # dst => wrote'[e] = wrote[e]
           /\ wrote'[dst] = wrote[dst] \/ (~down[dst] /\ wrote'[dst] = Append(wrote[dst], m))
<1> DEFINE m == Message(msg.kind, Name[dst][msg.table], 0)
<1>1. msg.kind \in Kinds /\ msg.kind # "stale" /\ msg.kind # "insert" /\ 0 \in 0..MaxMessages
  BY SyncAssumption DEF FanoutDirect, Kinds
<1>2. Name[dst][msg.table] \in Names \cup {NoTable} /\ dst \in Dests
  BY NameType DEF FanoutDirect, FanInv, TypeOK
<1>3. m \in Written /\ m.kind = msg.kind
  BY <1>1, <1>2, MessageType
<1>4. wrote \in [Dests -> Seq(Written)] /\ (SendOK(dst, m) \/ Refused(dst))
  BY DEF FanoutDirect, TypeOK
<1> HIDE DEF m
<1>5. /\ \A e \in Dests : e # dst => wrote'[e] = wrote[e]
      /\ wrote'[dst] = wrote[dst] \/ (~down[dst] /\ wrote'[dst] = Append(wrote[dst], m))
  BY <1>2, <1>3, <1>4, SendEffect
<1> QED BY <1>1, <1>2, <1>3, <1>5

(* A pipeline hands over the next insert, or nothing. *)
LEMMA PipeWrites ==
  ASSUME TypeOK, FanInv, NEW d \in Dests, PipeDeliver(d)
  PROVE  /\ pc = "wait" /\ pstate[d] = "run" /\ UNCHANGED <<pc, ret, src, srcErr, inserts, down>>
         /\ \/ UNCHANGED <<wrote, passedOn>>
            \/ /\ passedOn' = [passedOn EXCEPT ![d] = passedOn[d] + 1]
               /\ \A e \in Dests : e # d => wrote'[e] = wrote[e]
               /\ \E m \in Written :
                    /\ m = Message("insert", Name[d][inserts[passedOn[d] + 1]], passedOn[d] + 1)
                    /\ \/ down[d] /\ wrote'[d] = wrote[d]
                       \/ ~down[d] /\ wrote'[d] = Append(wrote[d], m)
<1> DEFINE k == passedOn[d] + 1
           m == Message("insert", Name[d][inserts[k]], k)
<1>1. k \in 1..Len(inserts) /\ k \in 0..MaxMessages
  BY LenProperties, SyncAssumption DEF PipeDeliver, InPipe, FanInv, TypeOK
<1>2. inserts[k] \in Tables
  BY <1>1, ElementOfSeq DEF TypeOK
<1>3. m \in Written
  BY <1>1, <1>2, MessageType, NameType DEF Kinds
<1>4. pc = "wait" /\ pstate[d] = "run" /\ UNCHANGED <<pc, ret, src, srcErr, inserts, down>>
  BY DEF PipeDeliver, sourceVars, mainVars
<1>5. \/ SendOK(d, m) /\ passedOn' = [passedOn EXCEPT ![d] = k]
      \/ Refused(d) /\ UNCHANGED passedOn
  BY DEF PipeDeliver
<1> HIDE DEF m, k
<1>6. CASE Refused(d) /\ UNCHANGED passedOn
  BY <1>4, <1>6 DEF Refused
<1>7. CASE Lost(d) /\ passedOn' = [passedOn EXCEPT ![d] = k]
  BY <1>3, <1>4, <1>7 DEF Lost, k, m
<1>8. CASE Accepted(d, m) /\ passedOn' = [passedOn EXCEPT ![d] = k]
  <2>1. wrote'[d] = Append(wrote[d], m) /\ ~down[d] /\ \A e \in Dests : e # d => wrote'[e] = wrote[e]
    BY <1>8 DEF Accepted, TypeOK
  <2> QED BY <1>3, <1>4, <1>8, <2>1 DEF k, m
<1> QED BY <1>5, <1>6, <1>7, <1>8 DEF SendOK

-----------------------------------------------------------------------------
(* The phases of syncConnectionV3. *)

LEMMA PhaseInit == Init => PhaseInv
BY LenProperties DEF Init, PhaseInv, PastWait, NoStale

LEMMA PhaseNext ==
  ASSUME TypeOK, FanInv, PhaseInv, [Next]_vars
  PROVE  PhaseInv'
<1>1. CASE \/ \E t \in Tables : ReceiveInsert(t) \/ ReceiveDelete(t) \/ ReceiveMigrate(t)
           \/ ReceiveError \/ FanoutInsert \/ FanoutDirect \/ SourceEnds \/ SourceFails
  <2>1. pc = "wait" /\ UNCHANGED <<pc, ret>>
    BY <1>1, SourceFrame
  <2>2. \A d \in Dests : NoStale(wrote'[d])
    <3>1. \A d \in Dests : NoStale(wrote[d])
      BY <2>1 DEF PhaseInv
    <3>2. CASE FanoutDirect
      <4>1. PICK m \in Written :
              /\ m.kind # "stale" /\ m.kind # "insert" /\ dst \in Dests
              /\ \A e \in Dests : e # dst => wrote'[e] = wrote[e]
              /\ wrote'[dst] = wrote[dst] \/ (~down[dst] /\ wrote'[dst] = Append(wrote[dst], m))
        BY <3>2, DirectWrites
      <4>2. NoStale(Append(wrote[dst], m))
        BY <3>1, <4>1, NoStaleKept DEF TypeOK
      <4> QED BY <3>1, <4>1, <4>2
    <3>3. CASE UNCHANGED wrote
      BY <3>1, <3>3
    <3> QED BY <1>1, <3>2, <3>3, SourceWrites
  <2> QED BY <2>1, <2>2 DEF PhaseInv, PastWait
<1>2. ASSUME NEW d \in Dests, PipeDeliver(d) PROVE PhaseInv'
  <2>1. pc = "wait" /\ UNCHANGED <<pc, ret>>
    BY <1>2, PipeWrites
  <2>2. \A e \in Dests : NoStale(wrote[e])
    BY <2>1 DEF PhaseInv
  <2>3. CASE UNCHANGED wrote
    BY <2>1, <2>2, <2>3 DEF PhaseInv, PastWait
  <2>4. CASE \E m \in Written :
               /\ m = Message("insert", Name[d][inserts[passedOn[d] + 1]], passedOn[d] + 1)
               /\ \/ down[d] /\ wrote'[d] = wrote[d]
                  \/ ~down[d] /\ wrote'[d] = Append(wrote[d], m)
    <3>1. PICK m \in Written :
             /\ m.kind # "stale"
             /\ wrote'[d] = wrote[d] \/ wrote'[d] = Append(wrote[d], m)
      BY <2>4 DEF Message
    <3>2. NoStale(Append(wrote[d], m))
      BY <2>2, <3>1, NoStaleKept DEF TypeOK
    <3>3. \A e \in Dests : e # d => wrote'[e] = wrote[e]
      BY <1>2, PipeWrites
    <3> QED BY <2>1, <2>2, <3>1, <3>2, <3>3 DEF PhaseInv, PastWait
  <2> QED BY <1>2, <2>3, <2>4, PipeWrites
<1>3. ASSUME NEW d \in Dests, PipeEnds(d) PROVE PhaseInv'
  <2>1. /\ pstate[d] = "run" /\ pstate' = [pstate EXCEPT ![d] = "ok"]
        /\ UNCHANGED <<pc, ret, src, srcErr, wrote, broke>>
    BY <1>3 DEF PipeEnds, sourceVars, writeVars, mainVars
  <2>2. AnyError' <=> AnyError
    BY <2>1 DEF AnyError, TypeOK
  <2>3. ~PastWait /\ ret # "ok"
    BY <2>1 DEF PhaseInv
  <2> QED BY <2>1, <2>2, <2>3 DEF PhaseInv, PastWait
<1>4. ASSUME NEW d \in Dests, PipeFails(d) \/ PipeBreaks(d) PROVE PhaseInv'
  <2>1. pstate[d] = "run" /\ (pc = "wait" \/ UNCHANGED <<srcErr, broke>>)
    BY <1>4 DEF PipeFails, PipeBreaks, sourceVars
  <2>2. UNCHANGED <<pc, ret, wrote>>
    BY <1>4 DEF PipeFails, PipeBreaks, writeVars, mainVars
  <2>3. ~PastWait /\ ret # "ok"
    BY <2>1 DEF PhaseInv, PastWait
  <2>4. pc = "wait" \/ (AnyError' <=> AnyError)
    BY <2>1 DEF AnyError
  <2>5. (pc' \in {"init", "wait"} \/ AnyError') => \A e \in Dests : NoStale(wrote'[e])
    BY <2>2, <2>4 DEF PhaseInv
  <2> QED BY <2>2, <2>3, <2>5 DEF PhaseInv, PastWait
<1>5. ASSUME NEW d \in Dests, DestinationFails(d) PROVE PhaseInv'
  BY <1>5 DEF DestinationFails, sourceVars, pipeVars, mainVars, PhaseInv, PastWait, AnyError
<1>6. CASE Start
  BY <1>6 DEF Start, Return, sourceVars, pipeVars, writeVars, PhaseInv, PastWait, AnyError, TypeOK
<1>7. CASE Wait
  <2>1. /\ pc = "wait" /\ src = "done" /\ ret # "ok" /\ UNCHANGED <<src, srcErr, broke, pstate, wrote>>
        /\ (AnyError /\ pc' = "done" /\ ret' = "err") \/ (~AnyError /\ pc' = "stale" /\ ret' = ret)
    <3>1. AnyError <=> srcErr \/ \E d \in Dests : pstate[d] = "err"
      BY <1>7 DEF Wait, AnyError, FanInv, TypeOK
    <3> QED BY <1>7, <3>1 DEF Wait, Return, sourceVars, pipeVars, writeVars, PhaseInv
  <2>2. AnyError' <=> AnyError
    BY <2>1 DEF AnyError
  <2>3. ~AnyError => \A d \in Dests : pstate'[d] = "ok"
    BY <1>7 DEF Wait, pipeVars, AnyError, TypeOK, FanInv
  <2> QED BY <2>1, <2>2, <2>3 DEF PhaseInv, PastWait
<1>8. CASE StaleBegin \/ StaleSend \/ SummaryBegin \/ SummaryRow \/ CloseDest
  <2>1. PastWait /\ UNCHANGED <<src, srcErr, broke, pstate>>
    BY <1>8 DEF StaleBegin, StaleSend, SummaryBegin, SummaryRow, CloseDest, PastWait,
                sourceVars, pipeVars
  <2>2. pc' \notin {"init", "wait"} /\ (ret' = "ok" => pc' = "done")
    <3>1. ret # "ok"
      BY <2>1 DEF PastWait, PhaseInv
    <3> QED BY <1>8, <3>1
        DEF StaleBegin, StaleSend, SummaryBegin, SummaryRow, CloseDest, LoopNext, Return
  <2>3. ~AnyError' /\ src' = "done" /\ \A d \in Dests : pstate'[d] = "ok"
    BY <2>1 DEF PhaseInv, AnyError
  <2> QED BY <2>2, <2>3 DEF PhaseInv
<1>9. CASE UNCHANGED vars
  BY <1>9 DEF vars, sourceVars, pipeVars, writeVars, mainVars, PhaseInv, PastWait, AnyError
<1> QED
  BY <1>1, <1>2, <1>3, <1>4, <1>5, <1>6, <1>7, <1>8, <1>9
  DEF Next, SourceStep, PipeStep, MainStep, Terminated

-----------------------------------------------------------------------------
(* Close. *)

LEMMA CloseInit == Init => CloseInv
BY DEF Init, CloseInv

LEMMA CloseNext ==
  ASSUME TypeOK, FanInv, PhaseInv, CloseInv, [Next]_vars
  PROVE  CloseInv'
<1>1. CASE \/ \E t \in Tables : ReceiveInsert(t) \/ ReceiveDelete(t) \/ ReceiveMigrate(t)
           \/ ReceiveError \/ FanoutInsert \/ FanoutDirect \/ SourceEnds \/ SourceFails
  <2>1. pc = "wait" /\ UNCHANGED <<pc, ret>>
    BY <1>1, SourceFrame
  <2> QED BY <2>1 DEF CloseInv, PhaseInv
<1>2. ASSUME NEW d \in Dests, PipeDeliver(d) PROVE CloseInv'
  BY <1>2, PipeWrites DEF CloseInv, PhaseInv
<1>3. ASSUME NEW d \in Dests, PipeEnds(d) \/ PipeFails(d) \/ PipeBreaks(d) PROVE CloseInv'
  BY <1>3 DEF PipeEnds, PipeFails, PipeBreaks, CloseInv, writeVars, mainVars
<1>4. ASSUME NEW d \in Dests, DestinationFails(d) PROVE CloseInv'
  BY <1>4 DEF DestinationFails, CloseInv, PhaseInv, mainVars, TypeOK
<1>5. CASE Start \/ Wait \/ StaleBegin \/ StaleSend
  BY <1>5 DEF Start, Wait, StaleBegin, StaleSend, LoopNext, Return, CloseInv, PhaseInv
<1>6. CASE SummaryBegin \/ SummaryRow
  <2>1. ret # "ok" /\ ret' = ret
    BY <1>6 DEF SummaryBegin, SummaryRow, PhaseInv
  <2>2. pc' = "close" => dst' = 1
    BY <1>6 DEF SummaryBegin, SummaryRow, LoopNext
  <2> QED BY <2>1, <2>2, SyncAssumption DEF CloseInv, Dests
<1>7. CASE CloseDest
  <2>1. CASE Return("err") \/ (~metaErr /\ down[dst])
    BY <1>7, <2>1 DEF CloseDest, Return, CloseInv
  <2>2. CASE ~Return("err") /\ ~(~metaErr /\ down[dst])
    <3>1. /\ ~down[dst] /\ dst \in Dests /\ down' = down
          /\ streamClosed' = [streamClosed EXCEPT ![dst] = TRUE]
          /\ (dst < ND /\ dst' = dst + 1 /\ UNCHANGED <<pc, ret>>) \/ (dst = ND /\ Return("ok"))
      BY <1>7, <2>2 DEF CloseDest, TypeOK
    <3>2. \A d \in Dests : d < dst + 1 => ~down'[d] /\ streamClosed'[d]
      <4>1. \A d \in Dests : d < dst + 1 => d < dst \/ d = dst
        BY <3>1, SyncAssumption DEF Dests
      <4> QED BY <1>7, <3>1, <4>1 DEF CloseDest, CloseInv, TypeOK
    <3>3. pc = "close" /\ ret # "ok"
      BY <1>7 DEF CloseDest, PhaseInv
    <3>4. CASE dst < ND /\ dst' = dst + 1 /\ UNCHANGED <<pc, ret>>
      BY <3>2, <3>3, <3>4 DEF CloseInv
    <3>5. CASE dst = ND /\ Return("ok")
      <4>1. \A d \in Dests : d < dst + 1
        BY <3>5, SyncAssumption DEF Dests
      <4> QED BY <3>2, <3>5, <4>1 DEF CloseInv, Return
    <3> QED BY <3>1, <3>4, <3>5
  <2> QED BY <2>1, <2>2
<1>8. CASE UNCHANGED vars
  BY <1>8 DEF vars, writeVars, mainVars, CloseInv
<1> QED
  BY <1>1, <1>2, <1>3, <1>4, <1>5, <1>6, <1>7, <1>8
  DEF Next, SourceStep, PipeStep, MainStep, Terminated

-----------------------------------------------------------------------------
(* The contents of the write streams. *)

LEMMA WroteInit == Init => WroteInv
<1> SUFFICES ASSUME Init, NEW d \in Dests PROVE
      /\ Rows(d, inserts, passedOn[d], wrote[d])
      /\ ~down[d] => AllRows(d, inserts, passedOn[d], wrote[d])
      /\ StaleAfter(Len(inserts), wrote[d])
  BY DEF WroteInv
<1>1. wrote[d] = <<>> /\ Len(wrote[d]) = 0 /\ passedOn[d] = 0 /\ Len(inserts) = 0
  BY DEF Init
<1> QED BY <1>1 DEF Rows, AllRows, StaleAfter

\* WroteInv for one stream, in one state.
Wrote(d, ins, n, failed, w) ==
  /\ Rows(d, ins, n, w)
  /\ ~failed => AllRows(d, ins, n, w)
  /\ StaleAfter(Len(ins), w)

LEMMA WroteInvIs == WroteInv <=> \A d \in Dests : Wrote(d, inserts, passedOn[d], down[d], wrote[d])
BY DEF WroteInv, Wrote

(* A message that is neither an insert nor stale leaves it. *)
LEMMA WroteOther ==
  ASSUME NEW d, NEW ins, NEW n, NEW failed, NEW w \in Seq(Written), NEW m \in Written,
         m.kind # "insert", m.kind # "stale", Wrote(d, ins, n, failed, w)
  PROVE  Wrote(d, ins, n, failed, Append(w, m))
BY RowsOther, StaleKept DEF Wrote

LEMMA WroteNext ==
  ASSUME TypeOK, FanInv, PhaseInv, WroteInv, [Next]_vars
  PROVE  WroteInv'
<1> DEFINE W(d) == Wrote(d, inserts, passedOn[d], down[d], wrote[d])
<1> SUFFICES \A d \in Dests : W(d)'
  BY DEF WroteInv, Wrote
<1>0. \A d \in Dests : W(d) /\ wrote[d] \in Seq(Written)
  BY WroteInvIs DEF TypeOK
<1>a. Len(inserts) \in Nat /\ \A d \in Dests : passedOn[d] \in Nat /\ passedOn[d] <= Len(inserts)
  BY LenProperties, SyncAssumption DEF TypeOK, FanInv
<1>1. ASSUME NEW t \in Tables, ReceiveInsert(t), NEW d \in Dests PROVE W(d)'
  <2>1. pc = "wait" /\ UNCHANGED <<passedOn, down, wrote>> /\ inserts' = Append(inserts, t)
    BY <1>1, SourceFrame, SourceWrites DEF ReceiveInsert
  <2>2. StaleAfter(Len(inserts'), wrote[d])
    BY <2>1 DEF PhaseInv, NoStale, StaleAfter
  <2>3. /\ Rows(d, inserts', passedOn[d], wrote[d])
        /\ ~down[d] => AllRows(d, inserts', passedOn[d], wrote[d])
    BY <1>0, <1>a, <2>1, RowsReceive DEF Wrote, TypeOK
  <2> QED BY <2>1, <2>2, <2>3 DEF Wrote
<1>2. ASSUME UNCHANGED <<inserts, passedOn, wrote, down>>, NEW d \in Dests PROVE W(d)'
  BY <1>0, <1>2
<1>3. CASE \/ \E t \in Tables : ReceiveDelete(t) \/ ReceiveMigrate(t)
           \/ ReceiveError \/ FanoutInsert \/ SourceEnds \/ SourceFails
  <2>1. UNCHANGED <<passedOn, down, wrote>>
    BY <1>3, SourceFrame, SourceWrites
  <2>2. UNCHANGED inserts
    BY <1>3 DEF ReceiveDelete, ReceiveMigrate, ReceiveError, Receives, FanoutInsert, SourceEnds, SourceFails
  <2> QED BY <1>2, <2>1, <2>2
<1>4. ASSUME NEW e \in Dests, NEW m \in Written, m.kind # "insert", m.kind # "stale",
             UNCHANGED <<inserts, passedOn, down>>,
             \A f \in Dests : f # e => wrote'[f] = wrote[f],
             wrote'[e] = wrote[e] \/ wrote'[e] = Append(wrote[e], m),
             NEW d \in Dests
      PROVE  W(d)'
  <2>1. CASE wrote'[d] = wrote[d]
    BY <1>0, <1>4, <2>1
  <2>2. CASE d = e /\ wrote'[e] = Append(wrote[e], m)
    <3>1. Wrote(d, inserts, passedOn[d], down[d], Append(wrote[d], m))
      BY <1>0, <1>4, WroteOther
    <3> QED BY <1>4, <2>2, <3>1
  <2> QED BY <1>4, <2>1, <2>2
<1>5. CASE FanoutDirect
  <2>1. PICK m \in Written :
           /\ m.kind # "stale" /\ m.kind # "insert" /\ dst \in Dests
           /\ \A e \in Dests : e # dst => wrote'[e] = wrote[e]
           /\ wrote'[dst] = wrote[dst] \/ (~down[dst] /\ wrote'[dst] = Append(wrote[dst], m))
    BY <1>5, DirectWrites
  <2>2. UNCHANGED <<inserts, passedOn, down>>
    BY <1>5 DEF FanoutDirect
  <2> QED BY <1>4, <2>1, <2>2
<1>6. ASSUME NEW e \in Dests, PipeDeliver(e), NEW d \in Dests PROVE W(d)'
  <2>1. UNCHANGED <<inserts, down>>
    BY <1>6, PipeWrites
  <2>2. CASE UNCHANGED <<wrote, passedOn>>
    BY <1>0, <2>1, <2>2
  <2>3. CASE /\ passedOn' = [passedOn EXCEPT ![e] = passedOn[e] + 1]
             /\ \A f \in Dests : f # e => wrote'[f] = wrote[f]
             /\ \E m \in Written :
                  /\ m = Message("insert", Name[e][inserts[passedOn[e] + 1]], passedOn[e] + 1)
                  /\ \/ down[e] /\ wrote'[e] = wrote[e]
                     \/ ~down[e] /\ wrote'[e] = Append(wrote[e], m)
    <3>1. CASE d # e
      <4>1. passedOn'[d] = passedOn[d] /\ wrote'[d] = wrote[d]
        BY <2>3, <3>1 DEF TypeOK
      <4> QED BY <1>0, <2>1, <4>1
    <3>2. CASE d = e
      <4>1. passedOn'[d] = passedOn[d] + 1
        BY <2>3, <3>2 DEF TypeOK
      <4>2. PICK m \in Written :
                  /\ m = Message("insert", Name[d][inserts[passedOn[d] + 1]], passedOn[d] + 1)
                  /\ \/ down[d] /\ wrote'[d] = wrote[d]
                     \/ ~down[d] /\ wrote'[d] = Append(wrote[d], m)
        BY <2>3, <3>2
      <4>3. /\ Rows(d, inserts, passedOn[d] + 1, Append(wrote[d], m))
            /\ ~down[d] => AllRows(d, inserts, passedOn[d] + 1, Append(wrote[d], m))
        BY <1>0, <1>a, <4>2, RowsNext DEF Wrote
      <4>4. StaleAfter(Len(inserts), Append(wrote[d], m))
        BY <1>0, <4>2, StaleKept DEF Wrote, Message
      <4>5. Rows(d, inserts, passedOn[d] + 1, wrote[d])
        BY <1>0, <1>a DEF Wrote, Rows
      <4> QED BY <1>0, <2>1, <4>1, <4>2, <4>3, <4>4, <4>5 DEF Wrote
    <3> QED BY <3>1, <3>2
  <2> QED BY <1>6, <2>2, <2>3, PipeWrites
<1>7. ASSUME NEW e \in Dests, PipeEnds(e) \/ PipeFails(e) \/ PipeBreaks(e), NEW d \in Dests PROVE W(d)'
  <2>1. UNCHANGED <<inserts, passedOn, wrote, down>>
    BY <1>7 DEF PipeEnds, PipeFails, PipeBreaks, sourceVars, writeVars
  <2> QED BY <1>2, <2>1
<1>8. ASSUME NEW e \in Dests, DestinationFails(e), NEW d \in Dests PROVE W(d)'
  <2>1. UNCHANGED <<inserts, passedOn, wrote>> /\ (down'[d] = down[d] \/ down'[d])
    BY <1>8 DEF DestinationFails, sourceVars, pipeVars, TypeOK
  <2> QED BY <1>0, <2>1 DEF Wrote
<1>9. CASE Start \/ Wait \/ StaleBegin \/ CloseDest
  <2>1. UNCHANGED <<inserts, passedOn, wrote, down>>
    BY <1>9 DEF Start, Wait, StaleBegin, CloseDest, sourceVars, pipeVars, writeVars
  <2> QED BY <1>2, <2>1
<1>10. CASE StaleSend
  <2>1. UNCHANGED <<inserts, passedOn, down>> /\ dst \in Dests /\ pc = "staleSend"
    BY <1>10 DEF StaleSend, sourceVars, pipeVars, TypeOK
  <2>2. CASE UNCHANGED wrote
    BY <1>2, <2>1, <2>2
  <2>3. ASSUME NEW n \in staleLeft, Accepted(dst, Message("stale", n, 0)), NEW d \in Dests PROVE W(d)'
    <3> DEFINE m == Message("stale", n, 0)
    <3>1. CASE d # dst
      BY <1>0, <2>1, <2>3, <3>1 DEF Accepted, TypeOK
    <3>2. CASE d = dst
      <4>1. m \in Written /\ m.kind = "stale"
        BY MessageType, SyncAssumption DEF Kinds, TypeOK
      <4>2. ~down[d] /\ wrote'[d] = Append(wrote[d], m)
        BY <2>3, <3>2 DEF Accepted, TypeOK
      <4> HIDE DEF m
      <4>3. passedOn[d] = Len(inserts)
        BY <2>1 DEF PhaseInv, PastWait, FanInv
      <4>4. \A r \in 1..Len(inserts) : \E j \in 1..Len(wrote[d]) : wrote[d][j].kind = "insert" /\ wrote[d][j].k = r
        <5>1. AllRows(d, inserts, Len(inserts), wrote[d])
          BY <1>0, <4>2, <4>3 DEF Wrote
        <5>2. \A r \in 1..Len(inserts) :
                \E j \in 1..Len(wrote[d]) : wrote[d][j] = Message("insert", Name[d][inserts[r]], r)
          BY <5>1 DEF AllRows
        <5>3. ASSUME NEW r \in 1..Len(inserts)
              PROVE  \E j \in 1..Len(wrote[d]) : wrote[d][j].kind = "insert" /\ wrote[d][j].k = r
          <6>1. PICK j \in 1..Len(wrote[d]) : wrote[d][j] = Message("insert", Name[d][inserts[r]], r)
            BY <5>2
          <6> QED BY <6>1 DEF Message
        <5> QED BY <5>3
      <4>5. StaleAfter(Len(inserts), Append(wrote[d], m))
        BY <1>0, <4>1, <4>4, StaleKept DEF Wrote
      <4>6. /\ Rows(d, inserts, passedOn[d], Append(wrote[d], m))
            /\ AllRows(d, inserts, passedOn[d], Append(wrote[d], m))
        BY <1>0, <4>1, <4>2, RowsOther DEF Wrote
      <4> QED BY <2>1, <4>2, <4>5, <4>6 DEF Wrote
    <3> QED BY <3>1, <3>2
  <2> QED BY <1>10, <2>2, <2>3 DEF StaleSend, SendOK, Lost, Refused
<1>11. CASE SummaryBegin
  <2>1. UNCHANGED <<inserts, passedOn, down>> /\ dst \in Dests
    BY <1>11 DEF SummaryBegin, sourceVars, pipeVars, TypeOK
  <2>2. CASE UNCHANGED wrote
    BY <1>2, <2>1, <2>2
  <2>3. CASE Accepted(dst, Message("summaryTable", NoTable, 0))
    <3>1. "summaryTable" \in Kinds /\ 0 \in 0..MaxMessages
      BY SyncAssumption DEF Kinds
    <3>2. Message("summaryTable", NoTable, 0) \in Written /\ Message("summaryTable", NoTable, 0).kind = "summaryTable"
      BY <3>1, MessageType
    <3> QED BY <1>4, <2>1, <2>3, <3>2 DEF Accepted, TypeOK
  <2> QED BY <1>11, <2>2, <2>3 DEF SummaryBegin, SendOK, Lost, Refused
<1>12. CASE SummaryRow
  <2>1. UNCHANGED <<inserts, passedOn, down>> /\ dst \in Dests
    BY <1>12 DEF SummaryRow, sourceVars, pipeVars, TypeOK
  <2>2. CASE UNCHANGED wrote
    BY <1>2, <2>1, <2>2
  <2>3. CASE Accepted(dst, Message("summary", NoTable, Len(inserts)))
    <3>1. "summary" \in Kinds /\ Len(inserts) \in 0..MaxMessages
      BY LenProperties, SyncAssumption DEF Kinds, TypeOK
    <3>2. /\ Message("summary", NoTable, Len(inserts)) \in Written
          /\ Message("summary", NoTable, Len(inserts)).kind = "summary"
      BY <3>1, MessageType
    <3> QED BY <1>4, <2>1, <2>3, <3>2 DEF Accepted, TypeOK
  <2> QED BY <1>12, <2>2, <2>3 DEF SummaryRow, SendOK, Lost, Refused
<1>13. CASE UNCHANGED vars
  BY <1>2, <1>13 DEF vars, sourceVars, pipeVars, writeVars
<1> QED
  BY <1>1, <1>3, <1>5, <1>6, <1>7, <1>8, <1>9, <1>10, <1>11, <1>12, <1>13
  DEF Next, SourceStep, PipeStep, MainStep, Terminated

-----------------------------------------------------------------------------
(* The results. *)

\* SyncInv holds in every state of every run.
THEOREM SyncInvariant == Spec => []SyncInv
<1>1. Init => SyncInv
  BY TypeInit, FanInit, PhaseInit, WroteInit, CloseInit DEF SyncInv
<1>2. SyncInv /\ [Next]_vars => SyncInv'
  BY TypeNext, FanNext, PhaseNext, WroteNext, CloseNext DEF SyncInv
<1> QED BY <1>1, <1>2, PTL DEF Spec

\* Every variable of the sync keeps its type.
THEOREM SyncTypeCorrect == Spec => []TypeOK
<1>1. SyncInv => TypeOK
  BY DEF SyncInv
<1> QED BY <1>1, SyncInvariant, PTL

(* After a failure of the source or in a pipeline no destination is ever
   told to delete stale rows (eg.Wait returns the error before deleteStale). *)
THEOREM FailureKeepsRows == Spec => []FailedSyncKeepsRows
<1>1. SyncInv => FailedSyncKeepsRows
  BY DEF SyncInv, PhaseInv, AnyError, NoStale, FailedSyncKeepsRows
<1> QED BY <1>1, SyncInvariant, PTL

(* Stale rows are deleted at a destination only after every insert that the
   source sent was handed to it (eg.Wait before deleteStale). *)
THEOREM StaleRowsLast == Spec => []StaleAfterAllRows
<1>1. SyncInv => StaleAfterAllRows
  <2> SUFFICES ASSUME SyncInv, NEW d \in Dests, NEW k \in 1..Len(wrote[d]), wrote[d][k].kind = "stale"
      PROVE  GotInserts(d, k, Len(inserts))
    BY DEF StaleAfterAllRows
  <2>1. StaleAfter(Len(inserts), wrote[d])
    BY DEF SyncInv, WroteInv
  <2> QED BY <2>1 DEF StaleAfter, GotInserts
<1> QED BY <1>1, SyncInvariant, PTL

(* When the sync succeeds, every destination has every insert once, in the
   source's order, under the name its transformers give the table: what Send
   did not report, CloseAndRecv does. *)
THEOREM SuccessIsComplete == Spec => []CompleteOnSuccess
<1>1. SyncInv => CompleteOnSuccess
  <2> SUFFICES ASSUME SyncInv, ret = "ok", NEW d \in Dests
      PROVE  /\ \A k \in 1..Len(inserts) : \E j \in 1..Len(wrote[d]) :
                  wrote[d][j] = Message("insert", Name[d][inserts[k]], k)
             /\ \A i, j \in 1..Len(wrote[d]) :
                  i < j /\ wrote[d][i].kind = "insert" /\ wrote[d][j].kind = "insert" =>
                    wrote[d][i].k < wrote[d][j].k
    BY DEF CompleteOnSuccess
  <2>1. ~down[d] /\ passedOn[d] = Len(inserts)
    BY DEF SyncInv, CloseInv, PhaseInv, FanInv
  <2>2. Rows(d, inserts, passedOn[d], wrote[d]) /\ AllRows(d, inserts, Len(inserts), wrote[d])
    BY <2>1 DEF SyncInv, WroteInv
  <2>3. \A i, j \in 1..Len(wrote[d]) : i < j => i \in 1..(j - 1)
    BY LenProperties DEF SyncInv, TypeOK
  <2> QED BY <2>2, <2>3 DEF Rows, AllRows
<1> QED BY <1>1, SyncInvariant, PTL

-----------------------------------------------------------------------------
(* Migrations before rows. *)

\* The stream w of destination d has the migrate message of table t.
Has(d, t, w) == \E j \in 1..Len(w) : w[j] = Message("migrate", Name[d][t], 0)

\* Every insert in w comes after the migrate message of the same name.
MigratedFirst(w) ==
  \A k \in 1..Len(w) : w[k].kind = "insert" =>
    \E j \in 1..(k - 1) : w[j] = Message("migrate", w[k].name, 0)

(* A table's migrate message has gone to all destinations, but for those the
   loop has not reached, before the source's goroutine takes the next message. *)
MigrateInv ==
  ~NoMigrate =>
    \A d \in Dests :
      /\ MigratedFirst(wrote[d])
      /\ \A k \in 1..Len(inserts) : down[d] \/ Has(d, inserts[k], wrote[d])
      /\ \A t \in migrated :
           \/ src = "done"
           \/ src = "fanout" /\ msg.kind = "migrate" /\ t = msg.table /\ d >= dst
           \/ down[d]
           \/ Has(d, t, wrote[d])

LEMMA HasKept ==
  ASSUME NEW w \in Seq(Written), NEW m \in Written, NEW d, NEW t, Has(d, t, w)
  PROVE  Has(d, t, Append(w, m))
BY Appended DEF Has

LEMMA HasAppended ==
  ASSUME NEW w \in Seq(Written), NEW m \in Written, NEW d, NEW t,
         m = Message("migrate", Name[d][t], 0)
  PROVE  Has(d, t, Append(w, m))
<1>1. Len(w) + 1 \in 1..Len(Append(w, m)) /\ Append(w, m)[Len(w) + 1] = m
  BY Appended
<1> QED BY <1>1 DEF Has

LEMMA MigratedFirstKept ==
  ASSUME NEW w \in Seq(Written), NEW m \in Written, MigratedFirst(w),
         m.kind = "insert" => \E j \in 1..Len(w) : w[j] = Message("migrate", m.name, 0)
  PROVE  MigratedFirst(Append(w, m))
<1> DEFINE v == Append(w, m)
<1>1. /\ Len(w) \in Nat /\ Len(v) = Len(w) + 1 /\ v[Len(w) + 1] = m
      /\ \A j \in 1..Len(w) : v[j] = w[j]
  BY Appended
<1> HIDE DEF v
<1> SUFFICES ASSUME NEW k \in 1..Len(v), v[k].kind = "insert"
    PROVE  \E j \in 1..(k - 1) : v[j] = Message("migrate", v[k].name, 0)
  BY DEF MigratedFirst, v
<1>2. CASE k = Len(w) + 1
  <2>1. PICK j \in 1..Len(w) : w[j] = Message("migrate", m.name, 0)
    BY <1>1, <1>2
  <2> QED BY <1>1, <1>2, <2>1
<1>3. CASE k # Len(w) + 1
  <2>1. k \in 1..Len(w) /\ v[k] = w[k]
    BY <1>1, <1>3
  <2>2. PICK j \in 1..(k - 1) : w[j] = Message("migrate", w[k].name, 0)
    BY <2>1 DEF MigratedFirst
  <2> QED BY <1>1, <2>1, <2>2
<1> QED BY <1>2, <1>3

LEMMA MigrateInit == Init => MigrateInv
<1> SUFFICES ASSUME Init, NEW d \in Dests PROVE
      /\ MigratedFirst(wrote[d])
      /\ \A k \in 1..Len(inserts) : FALSE
      /\ \A t \in migrated : FALSE
  BY DEF MigrateInv
<1>1. wrote[d] = <<>> /\ Len(wrote[d]) = 0 /\ Len(inserts) = 0 /\ migrated = {}
  BY DEF Init
<1> QED BY <1>1 DEF MigratedFirst

(* A message that is no insert keeps MigrateInv, when nothing else changes but
   which tables are still owed their message. *)
LEMMA MigrateSend ==
  ASSUME TypeOK, NEW e \in Dests, NEW m \in Written, m.kind # "insert",
         \A f \in Dests : f # e => wrote'[f] = wrote[f],
         wrote'[e] = wrote[e] \/ wrote'[e] = Append(wrote[e], m),
         NEW d \in Dests, MigratedFirst(wrote[d])
  PROVE  /\ MigratedFirst(wrote'[d])
         /\ \A t : Has(d, t, wrote[d]) => Has(d, t, wrote'[d])
<1>1. CASE wrote'[d] = wrote[d]
  BY <1>1
<1>2. CASE d = e /\ wrote'[e] = Append(wrote[e], m)
  <2>1. wrote[d] \in Seq(Written)
    BY DEF TypeOK
  <2>2. MigratedFirst(Append(wrote[d], m))
    BY <2>1, MigratedFirstKept
  <2>3. \A t : Has(d, t, wrote[d]) => Has(d, t, Append(wrote[d], m))
    BY <2>1, HasKept
  <2> QED BY <1>2, <2>2, <2>3
<1> QED BY <1>1, <1>2

LEMMA MigrateNext ==
  ASSUME TypeOK, FanInv, MigrateInv, [Next]_vars
  PROVE  MigrateInv'
<1> DEFINE Done(d) == \A k \in 1..Len(inserts) : down[d] \/ Has(d, inserts[k], wrote[d])
           Owed(d, t) == \/ src = "done"
                         \/ src = "fanout" /\ msg.kind = "migrate" /\ t = msg.table /\ d >= dst
           Told(d) == \A t \in migrated : Owed(d, t) \/ down[d] \/ Has(d, t, wrote[d])
           M(d) == MigratedFirst(wrote[d]) /\ Done(d) /\ Told(d)
<1> SUFFICES ASSUME ~NoMigrate, NEW d \in Dests PROVE M(d)'
  BY DEF MigrateInv
<1>0. M(d)
  BY DEF MigrateInv
<1>a. wrote[d] \in Seq(Written)
  BY DEF TypeOK
<1>1. ASSUME NEW t \in Tables, ReceiveInsert(t) PROVE M(d)'
  <2>1. /\ t \in migrated /\ src = "recv" /\ src' = "fanout" /\ inserts' = Append(inserts, t)
        /\ UNCHANGED <<migrated, wrote, down>>
    BY <1>1 DEF ReceiveInsert, Receives, writeVars
  <2>2. \A u \in migrated : down[d] \/ Has(d, u, wrote[d])
    BY <1>0, <2>1
  <2>3. ASSUME NEW k \in 1..Len(inserts') PROVE down[d] \/ Has(d, inserts'[k], wrote[d])
    <3>1. /\ Len(inserts) \in Nat /\ Len(inserts') = Len(inserts) + 1 /\ inserts'[Len(inserts) + 1] = t
          /\ \A j \in 1..Len(inserts) : inserts'[j] = inserts[j]
      BY <2>1, AppendProperties, LenProperties DEF TypeOK
    <3>2. CASE k = Len(inserts) + 1
      BY <2>1, <2>2, <3>1, <3>2
    <3>3. CASE k # Len(inserts) + 1
      <4>1. k \in 1..Len(inserts)
        BY <3>1, <3>3
      <4> QED BY <1>0, <3>1, <4>1
    <3> QED BY <3>2, <3>3
  <2> QED BY <1>0, <2>1, <2>2, <2>3
<1>2. ASSUME NEW t \in Tables, ReceiveDelete(t) \/ ReceiveMigrate(t) PROVE M(d)'
  <2>1. src = "recv" /\ UNCHANGED <<inserts, wrote, down>> /\ dst' = 1
    BY <1>2 DEF ReceiveDelete, ReceiveMigrate, Receives, writeVars
  <2>2. \A u \in migrated : down[d] \/ Has(d, u, wrote[d])
    BY <1>0, <2>1
  <2>3. CASE ReceiveDelete(t)
    BY <1>0, <2>1, <2>2, <2>3 DEF ReceiveDelete
  <2>4. CASE ReceiveMigrate(t)
    <3>1. /\ migrated' = migrated \cup {t} /\ src' = "fanout"
          /\ msg'.kind = "migrate" /\ msg'.table = t /\ d >= dst'
      BY <2>1, <2>4, SyncAssumption DEF ReceiveMigrate, Dests
    <3> QED BY <1>0, <2>1, <2>2, <3>1
  <2> QED BY <1>2, <2>3, <2>4
<1>3. CASE ReceiveError
  BY <1>0, <1>3 DEF ReceiveError, Receives, writeVars
<1>4. CASE FanoutInsert
  <2>1. src = "fanout" /\ msg.kind = "insert" /\ UNCHANGED <<msg, inserts, migrated, wrote, down>>
    BY <1>4 DEF FanoutInsert, tableVars, writeVars
  <2> QED BY <1>0, <2>1
<1>5. CASE FanoutDirect
  <2>1. src = "fanout" /\ dst \in Dests /\ UNCHANGED <<msg, inserts, migrated, down>>
    BY <1>5 DEF FanoutDirect, TypeOK
  <2>2. PICK m \in Written :
           /\ m.kind # "stale" /\ m.kind # "insert" /\ dst \in Dests
           /\ \A e \in Dests : e # dst => wrote'[e] = wrote[e]
           /\ wrote'[dst] = wrote[dst] \/ (~down[dst] /\ wrote'[dst] = Append(wrote[dst], m))
    BY <1>5, DirectWrites
  <2>3. MigratedFirst(wrote'[d]) /\ \A t : Has(d, t, wrote[d]) => Has(d, t, wrote'[d])
    BY <1>0, <2>2, MigrateSend
  <2>4. Done(d)'
    BY <1>0, <2>1, <2>3
  <2>5. CASE SourceReturns(TRUE)
    BY <2>3, <2>4, <2>5 DEF SourceReturns
  <2>6. CASE NextDest /\ SendOK(dst, Message(msg.kind, Name[dst][msg.table], 0))
    <3>1. \/ dst < ND /\ dst' = dst + 1 /\ src' = "fanout"
          \/ dst = ND /\ src' = "recv"
      BY <2>1, <2>6, NextDestEffect
    <3>2. ASSUME msg.kind = "migrate" PROVE d = dst => down[d] \/ Has(d, msg.table, wrote'[d])
      <4>1. CASE Lost(dst)
        BY <4>1 DEF Lost
      <4>2. CASE Accepted(dst, Message(msg.kind, Name[dst][msg.table], 0))
        <5> DEFINE n == Message("migrate", Name[dst][msg.table], 0)
        <5>1. n \in Written
          <6>1. "migrate" \in Kinds /\ 0 \in 0..MaxMessages
            BY SyncAssumption DEF Kinds
          <6>2. Name[dst][msg.table] \in Names \cup {NoTable}
            BY <2>1, NameType DEF FanInv
          <6> QED BY <6>1, <6>2, MessageType
        <5>2. d = dst => wrote'[d] = Append(wrote[d], n)
          BY <3>2, <4>2 DEF Accepted, TypeOK
        <5> HIDE DEF n
        <5>3. d = dst => Has(d, msg.table, Append(wrote[d], n))
          BY <1>a, <5>1, HasAppended DEF n
        <5> QED BY <5>2, <5>3
      <4> QED BY <2>6, <4>1, <4>2 DEF SendOK
    <3>3. ASSUME NEW t \in migrated PROVE Owed(d, t)' \/ down[d] \/ Has(d, t, wrote'[d])
      <4>1. CASE msg.kind = "migrate" /\ t = msg.table /\ d >= dst
        <5>1. CASE d = dst
          BY <3>2, <4>1, <5>1
        <5>2. CASE d # dst
          <6>1. dst < ND /\ d >= dst + 1
            BY <2>1, <4>1, <5>2, SyncAssumption DEF Dests
          <6> QED BY <2>1, <3>1, <4>1, <6>1, SyncAssumption DEF Dests
        <5> QED BY <5>1, <5>2
      <4>2. CASE down[d] \/ Has(d, t, wrote[d])
        BY <2>3, <4>2
      <4> QED BY <1>0, <2>1, <4>1, <4>2
    <3> QED BY <2>1, <2>3, <2>4, <3>3
  <2> QED BY <1>5, <2>5, <2>6 DEF FanoutDirect
<1>6. CASE SourceEnds \/ SourceFails
  BY <1>0, <1>6 DEF SourceEnds, SourceFails, SourceReturns, tableVars, writeVars
<1>7. ASSUME NEW e \in Dests, PipeDeliver(e) PROVE M(d)'
  <2>1. UNCHANGED <<src, msg, dst, inserts, migrated, down>>
    BY <1>7 DEF PipeDeliver, sourceVars, tableVars
  <2>2. CASE wrote'[d] = wrote[d]
    BY <1>0, <2>1, <2>2
  <2>3. CASE wrote'[d] # wrote[d]
    <3>1. PICK m \in Written :
             /\ d = e /\ ~down[d] /\ wrote'[d] = Append(wrote[d], m)
             /\ m = Message("insert", Name[d][inserts[passedOn[d] + 1]], passedOn[d] + 1)
      BY <1>7, <2>3, PipeWrites
    <3>2. passedOn[d] + 1 \in 1..Len(inserts)
      <4>1. /\ Len(inserts) \in Nat /\ passedOn[d] \in Nat /\ sentTo[d] \in Nat
        BY <3>1, LenProperties, SyncAssumption DEF TypeOK
      <4>2. passedOn[d] < sentTo[d] /\ sentTo[d] <= Len(inserts)
        BY <1>7, <3>1, <4>1 DEF PipeDeliver, InPipe, FanInv
      <4> QED BY <4>1, <4>2
    <3>3. \E j \in 1..Len(wrote[d]) : wrote[d][j] = Message("migrate", m.name, 0)
      <4>1. Has(d, inserts[passedOn[d] + 1], wrote[d])
        BY <1>0, <3>1, <3>2
      <4>2. m.name = Name[d][inserts[passedOn[d] + 1]]
        BY <3>1 DEF Message
      <4> QED BY <4>1, <4>2 DEF Has
    <3>4. MigratedFirst(wrote'[d])
      BY <1>0, <1>a, <3>1, <3>3, MigratedFirstKept
    <3>5. \A t : Has(d, t, wrote[d]) => Has(d, t, wrote'[d])
      BY <1>a, <3>1, HasKept
    <3> QED BY <1>0, <2>1, <3>4, <3>5
  <2> QED BY <2>2, <2>3
<1>8. ASSUME NEW e \in Dests, PipeEnds(e) \/ PipeFails(e) \/ PipeBreaks(e) \/ DestinationFails(e) PROVE M(d)'
  <2>1. UNCHANGED <<src, msg, dst, inserts, migrated, wrote>> /\ (down[d] => down'[d])
    BY <1>8 DEF PipeEnds, PipeFails, PipeBreaks, DestinationFails, sourceVars, tableVars, writeVars, TypeOK
  <2> QED BY <1>0, <2>1
<1>9. CASE Start \/ Wait \/ StaleBegin \/ StaleSend \/ SummaryBegin \/ SummaryRow \/ CloseDest
  <2>1. src # "fanout" /\ UNCHANGED <<src, msg, inserts, migrated, down>>
    BY <1>9 DEF Start, Wait, StaleBegin, StaleSend, SummaryBegin, SummaryRow, CloseDest,
                FanInv, sourceVars, tableVars, writeVars
  <2>2. MigratedFirst(wrote'[d]) /\ \A t : Has(d, t, wrote[d]) => Has(d, t, wrote'[d])
    <3>1. CASE UNCHANGED wrote
      BY <1>0, <3>1
    <3>2. ASSUME NEW m \in Written, m.kind # "insert", Accepted(dst, m)
          PROVE  MigratedFirst(wrote'[d]) /\ \A t : Has(d, t, wrote[d]) => Has(d, t, wrote'[d])
      <4>1. /\ dst \in Dests /\ wrote'[dst] = Append(wrote[dst], m)
            /\ \A f \in Dests : f # dst => wrote'[f] = wrote[f]
        BY <3>2 DEF Accepted, TypeOK
      <4> QED BY <1>0, <3>2, <4>1, MigrateSend
    <3>3. CASE StaleSend
      <4>1. \A n \in staleLeft : Message("stale", n, 0) \in Written /\ Message("stale", n, 0).kind # "insert"
        BY MessageType, SyncAssumption DEF Kinds, TypeOK
      <4> QED BY <3>1, <3>2, <3>3, <4>1 DEF StaleSend, SendOK, Lost, Refused
    <3>4. CASE SummaryBegin
      <4>1. "summaryTable" \in Kinds /\ 0 \in 0..MaxMessages
        BY SyncAssumption DEF Kinds
      <4>2. /\ Message("summaryTable", NoTable, 0) \in Written
            /\ Message("summaryTable", NoTable, 0).kind # "insert"
        BY <4>1, MessageType
      <4> QED BY <3>1, <3>2, <3>4, <4>2 DEF SummaryBegin, SendOK, Lost, Refused
    <3>5. CASE SummaryRow
      <4>1. "summary" \in Kinds /\ Len(inserts) \in 0..MaxMessages
        BY LenProperties, SyncAssumption DEF Kinds, TypeOK
      <4>2. /\ Message("summary", NoTable, Len(inserts)) \in Written
            /\ Message("summary", NoTable, Len(inserts)).kind # "insert"
        BY <4>1, MessageType
      <4> QED BY <3>1, <3>2, <3>5, <4>2 DEF SummaryRow, SendOK, Lost, Refused
    <3>6. CASE Start \/ Wait \/ StaleBegin \/ CloseDest
      BY <3>1, <3>6 DEF Start, Wait, StaleBegin, CloseDest, writeVars
    <3> QED BY <1>9, <3>3, <3>4, <3>5, <3>6
  <2> QED BY <1>0, <2>1, <2>2
<1>10. CASE UNCHANGED vars
  BY <1>0, <1>10 DEF vars, sourceVars, tableVars, writeVars
<1> QED
  BY <1>1, <1>2, <1>3, <1>4, <1>5, <1>6, <1>7, <1>8, <1>9, <1>10
  DEF Next, SourceStep, PipeStep, MainStep, Terminated

(* No destination gets a row of a table before the table's migrate message,
   although rows go through the pipelines and migrate messages do not: the
   source's goroutine has written the migrate message to every destination
   before it takes the next message. *)
THEOREM MigrationsFirst == Spec => []MigrateBeforeInsert
<1>1. Init => MigrateInv
  BY MigrateInit
<1>2. SyncInv /\ MigrateInv /\ [Next]_vars => MigrateInv'
  BY MigrateNext DEF SyncInv
<1>3. MigrateInv => MigrateBeforeInsert
  BY DEF MigrateInv, MigratedFirst, MigrateBeforeInsert
<1> QED BY <1>1, <1>2, <1>3, SyncInvariant, PTL DEF Spec

-----------------------------------------------------------------------------
(* The summary. *)

(* A step appends at most one message to a stream: the source's goroutine and
   the pipelines before eg.Wait's return, then deleteStale and sendSummary to
   the destination of their loop. *)
LEMMA WriteStep ==
  ASSUME SyncInv, [Next]_vars, NEW d \in Dests
  PROVE  \/ wrote'[d] = wrote[d]
         \/ \E m \in Written :
              /\ ~down[d] /\ wrote'[d] = Append(wrote[d], m)
              /\ \/ pc = "wait" /\ m.kind \notin {"stale", "summary"}
                 \/ /\ StaleSend /\ d = dst
                    /\ \E n \in staleLeft : m = Message("stale", n, 0) /\ staleLeft' = staleLeft \ {n}
                 \/ SummaryBegin /\ d = dst /\ m.kind = "summaryTable"
                 \/ SummaryRow /\ d = dst /\ m = Message("summary", NoTable, Len(inserts))
<1> DEFINE Appends(m) == ~down[d] /\ wrote'[d] = Append(wrote[d], m)
<1>0. TypeOK /\ FanInv
  BY DEF SyncInv
<1>a. ASSUME NEW m, Accepted(dst, m) PROVE wrote'[d] = wrote[d] \/ (d = dst /\ Appends(m))
  BY <1>0, <1>a DEF Accepted, TypeOK
<1>1. CASE FanoutDirect
  <2>1. PICK m \in Written :
           /\ m.kind # "stale" /\ m.kind # "insert" /\ dst \in Dests
           /\ \A e \in Dests : e # dst => wrote'[e] = wrote[e]
           /\ wrote'[dst] = wrote[dst] \/ (~down[dst] /\ wrote'[dst] = Append(wrote[dst], m))
    BY <1>0, <1>1, DirectWrites
  <2>2. CASE Accepted(dst, Message(msg.kind, Name[dst][msg.table], 0))
    <3> DEFINE n == Message(msg.kind, Name[dst][msg.table], 0)
    <3>1. n.kind \notin {"stale", "summary"} /\ pc = "wait"
      BY <1>0, <1>1 DEF FanoutDirect, FanInv, Message
    <3>2. n \in Written
      <4>1. msg.kind \in Kinds /\ 0 \in 0..MaxMessages
        BY <1>1, SyncAssumption DEF FanoutDirect, Kinds
      <4>2. Name[dst][msg.table] \in Names \cup {NoTable}
        BY <1>0, <1>1, NameType DEF FanoutDirect, FanInv, TypeOK
      <4> QED BY <4>1, <4>2, MessageType
    <3> HIDE DEF n
    <3>3. wrote'[d] = wrote[d] \/ (d = dst /\ Appends(n))
      BY <1>a, <2>2 DEF n
    <3> QED BY <3>1, <3>2, <3>3
  <2>3. CASE UNCHANGED wrote
    BY <2>3
  <2> QED BY <1>1, <2>2, <2>3 DEF FanoutDirect, SendOK, Lost, Refused
<1>2. ASSUME NEW e \in Dests, PipeDeliver(e)
      PROVE  wrote'[d] = wrote[d] \/ \E m \in Written : Appends(m) /\ pc = "wait" /\ m.kind = "insert"
  <2>1. pc = "wait"
    BY <1>0, <1>2, PipeWrites
  <2>2. CASE UNCHANGED wrote
    BY <2>2
  <2>3. CASE /\ \A f \in Dests : f # e => wrote'[f] = wrote[f]
             /\ \E m \in Written :
                  /\ m = Message("insert", Name[e][inserts[passedOn[e] + 1]], passedOn[e] + 1)
                  /\ \/ down[e] /\ wrote'[e] = wrote[e]
                     \/ ~down[e] /\ wrote'[e] = Append(wrote[e], m)
    <3>1. PICK m \in Written :
             /\ m.kind = "insert"
             /\ \/ wrote'[e] = wrote[e]
                \/ ~down[e] /\ wrote'[e] = Append(wrote[e], m)
      BY <2>3 DEF Message
    <3> QED BY <2>1, <2>3, <3>1
  <2> QED BY <1>0, <1>2, <2>2, <2>3, PipeWrites
<1>3. CASE StaleSend
  <2>1. CASE UNCHANGED wrote
    BY <2>1
  <2>2. ASSUME NEW n \in staleLeft, Accepted(dst, Message("stale", n, 0)), staleLeft' = staleLeft \ {n}
        PROVE  \/ wrote'[d] = wrote[d]
               \/ \E m \in Written : /\ Appends(m) /\ d = dst
                                     /\ m = Message("stale", n, 0)
    <3>1. Message("stale", n, 0) \in Written
      BY <1>0, MessageType, SyncAssumption DEF Kinds, TypeOK
    <3> QED BY <1>a, <2>2, <3>1
  <2> QED BY <1>3, <2>1, <2>2 DEF StaleSend, SendOK, Lost, Refused
<1>4. CASE SummaryBegin
  <2>1. CASE UNCHANGED wrote
    BY <2>1
  <2>2. CASE Accepted(dst, Message("summaryTable", NoTable, 0))
    <3>1. "summaryTable" \in Kinds /\ 0 \in 0..MaxMessages
      BY SyncAssumption DEF Kinds
    <3>2. /\ Message("summaryTable", NoTable, 0) \in Written
          /\ Message("summaryTable", NoTable, 0).kind = "summaryTable"
      BY <3>1, MessageType
    <3> QED BY <1>4, <1>a, <2>2, <3>2
  <2> QED BY <1>4, <2>1, <2>2 DEF SummaryBegin, SendOK, Lost, Refused
<1>5. CASE SummaryRow
  <2>1. CASE UNCHANGED wrote
    BY <2>1
  <2>2. CASE Accepted(dst, Message("summary", NoTable, Len(inserts)))
    <3>1. "summary" \in Kinds /\ Len(inserts) \in 0..MaxMessages
      BY <1>0, LenProperties, SyncAssumption DEF Kinds, TypeOK
    <3>2. Message("summary", NoTable, Len(inserts)) \in Written
      BY <3>1, MessageType
    <3> QED BY <1>5, <1>a, <2>2, <3>2
  <2> QED BY <1>5, <2>1, <2>2 DEF SummaryRow, SendOK, Lost, Refused
<1>6. CASE ~(FanoutDirect \/ (\E e \in Dests : PipeDeliver(e)) \/ StaleSend \/ SummaryBegin \/ SummaryRow)
  <2>1. UNCHANGED wrote
    BY <1>6 DEF Next, SourceStep, ReceiveInsert, ReceiveDelete, ReceiveMigrate, ReceiveError,
         Receives, FanoutInsert, SourceEnds, SourceFails, PipeStep, PipeEnds, PipeFails, PipeBreaks,
         DestinationFails, MainStep, Start, Wait, StaleBegin, CloseDest, Terminated, vars, writeVars
  <2> QED BY <2>1
<1> QED BY <1>1, <1>2, <1>3, <1>4, <1>5, <1>6

Inserts(w)   == {j \in 1..Len(w) : w[j].kind = "insert"}
NoSummary(w) == \A j \in 1..Len(w) : w[j].kind # "summary"

(* A stream that has all of the first n inserts has n of them: their numbers
   are a bijection to 1..n. *)
LEMMA InsertsCounted ==
  ASSUME NEW d, NEW ins, NEW n \in Nat, NEW w \in Seq(Written),
         Rows(d, ins, n, w), AllRows(d, ins, n, w)
  PROVE  Cardinality(Inserts(w)) = n
<1> DEFINE S == Inserts(w)
           f == [j \in S |-> w[j].k]
<1>1. Len(w) \in Nat
  BY LenProperties
<1>2. f \in [S -> 1..n]
  BY DEF Rows, Inserts
<1>3. ASSUME NEW i \in S, NEW j \in S, f[i] = f[j] PROVE i = j
  <2>1. \A k \in S : w[k].k \in Int
    BY DEF Rows, Inserts
  <2>2. CASE i < j
    BY <1>1, <1>3, <2>1, <2>2 DEF Rows, Inserts
  <2>3. CASE j < i
    BY <1>1, <1>3, <2>1, <2>3 DEF Rows, Inserts
  <2> QED BY <1>1, <2>2, <2>3 DEF Inserts
<1>4. ASSUME NEW k \in 1..n PROVE \E j \in S : f[j] = k
  <2>1. PICK j \in 1..Len(w) : w[j] = Message("insert", Name[d][ins[k]], k)
    BY DEF AllRows
  <2> QED BY <2>1 DEF Inserts, Message
<1>5. f \in Bijection(S, 1..n)
  <2> HIDE DEF f, S
  <2> QED BY <1>2, <1>3, <1>4, Fun_IsBij
<1>6. ExistsBijection(1..n, S)
  <2> HIDE DEF f, S
  <2>1. ExistsBijection(S, 1..n)
    BY <1>5, Fun_ExistsBij
  <2> QED BY <2>1, Fun_ExistsBijSymmetric
<1>7. IsFiniteSet(1..n) /\ Cardinality(1..n) = n
  BY FS_Interval
<1> QED BY <1>6, <1>7, FS_Bijection

(* A destination has no summary before its turn, and nothing after it. *)
SummaryInv ==
  \A d \in Dests :
    /\ \A k \in 1..Len(wrote[d]) : wrote[d][k].kind = "summary" =>
         k = Len(wrote[d]) /\ wrote[d][k].k = Cardinality(Inserts(wrote[d]))
    /\ \/ pc \in {"init", "wait", "stale", "staleSend"}
       \/ pc \in {"summary", "summaryRow"} /\ d >= dst
       => NoSummary(wrote[d])

LEMMA SummaryNext ==
  ASSUME SyncInv, SummaryInv, [Next]_vars
  PROVE  SummaryInv'
<1> DEFINE Before(d) == \/ pc \in {"init", "wait", "stale", "staleSend"}
                        \/ pc \in {"summary", "summaryRow"} /\ d >= dst
           Last(d) == \A k \in 1..Len(wrote[d]) : wrote[d][k].kind = "summary" =>
                        k = Len(wrote[d]) /\ wrote[d][k].k = Cardinality(Inserts(wrote[d]))
<1> SUFFICES ASSUME NEW d \in Dests PROVE Last(d)' /\ (Before(d)' => NoSummary(wrote[d])')
  BY DEF SummaryInv
<1>0. /\ wrote[d] \in Seq(Written) /\ Len(wrote[d]) \in Nat /\ TypeOK
      /\ Last(d) /\ (Before(d) => NoSummary(wrote[d])) /\ d \in Nat /\ dst \in Nat /\ ND \in Nat
  <2>1. TypeOK /\ wrote[d] \in Seq(Written) /\ d \in Nat /\ dst \in Nat /\ ND \in Nat
    <3>1. TypeOK
      BY DEF SyncInv
    <3>2. wrote[d] \in Seq(Written) /\ dst \in 1..ND
      BY <3>1 DEF TypeOK, Dests
    <3> QED BY <3>1, <3>2, SyncAssumption DEF Dests
  <2>2. Last(d) /\ (Before(d) => NoSummary(wrote[d]))
    BY DEF SummaryInv
  <2> QED BY <2>1, <2>2, LenProperties
<1>1. Before(d)' => Before(d)
  <2>1. CASE pc' = pc /\ dst' = dst
    BY <2>1
  <2>2. CASE \/ \E t \in Tables : ReceiveInsert(t) \/ ReceiveDelete(t) \/ ReceiveMigrate(t)
             \/ ReceiveError \/ FanoutInsert \/ FanoutDirect \/ SourceEnds \/ SourceFails
    BY <2>2, SourceFrame DEF SyncInv
  <2>3. CASE \E e \in Dests : PipeDeliver(e) \/ PipeEnds(e) \/ PipeFails(e) \/ PipeBreaks(e) \/ DestinationFails(e)
    BY <2>1, <2>3 DEF PipeDeliver, PipeEnds, PipeFails, PipeBreaks, DestinationFails, sourceVars, mainVars
  <2>4. CASE Start \/ Wait \/ StaleBegin \/ StaleSend
    BY <2>4 DEF Start, Wait, StaleBegin, StaleSend
  <2>5. CASE SummaryBegin \/ SummaryRow \/ CloseDest
    BY <1>0, <2>5 DEF SummaryBegin, SummaryRow, CloseDest, LoopNext, Return
  <2>6. CASE UNCHANGED vars
    BY <2>1, <2>6 DEF vars, mainVars
  <2> QED BY <2>2, <2>3, <2>4, <2>5, <2>6 DEF Next, SourceStep, PipeStep, MainStep, Terminated
<1>2. CASE wrote'[d] = wrote[d]
  BY <1>0, <1>1, <1>2
<1>3. ASSUME NEW m \in Written, wrote'[d] = Append(wrote[d], m), Before(d)
      PROVE  /\ m.kind # "summary" => NoSummary(wrote'[d])
             /\ m.kind = "summary" /\ m.k = Cardinality(Inserts(wrote[d])) => Last(d)'
  <2>1. /\ Len(wrote'[d]) = Len(wrote[d]) + 1 /\ wrote'[d][Len(wrote[d]) + 1] = m
        /\ \A j \in 1..Len(wrote[d]) : wrote'[d][j] = wrote[d][j]
    BY <1>0, <1>3, Appended
  <2>2. ASSUME m.kind # "insert" PROVE Inserts(wrote'[d]) = Inserts(wrote[d])
    <3>1. \A j \in 1..(Len(wrote[d]) + 1) : j \in 1..Len(wrote[d]) \/ j = Len(wrote[d]) + 1
      BY <1>0
    <3>2. \A j \in 1..Len(wrote[d]) : j \in 1..(Len(wrote[d]) + 1)
      BY <1>0
    <3> QED BY <2>1, <2>2, <3>1, <3>2 DEF Inserts
  <2> QED BY <1>0, <1>3, <2>1, <2>2 DEF NoSummary
<1>4. ASSUME NEW m \in Written, wrote'[d] = Append(wrote[d], m), Before(d), m.kind # "summary"
      PROVE  Last(d)' /\ NoSummary(wrote'[d])
  BY <1>3, <1>4 DEF NoSummary
<1>5. ASSUME NEW m \in Written, wrote'[d] = Append(wrote[d], m), ~down[d], SummaryRow, d = dst,
             m = Message("summary", NoTable, Len(inserts))
      PROVE  Last(d)' /\ ~Before(d)'
  <2>1. Before(d) /\ m.kind = "summary" /\ m.k = Len(inserts)
    BY <1>0, <1>5 DEF SummaryRow, Message
  <2>2. passedOn[d] = Len(inserts) /\ Len(inserts) \in Nat
    BY <1>5, LenProperties DEF SummaryRow, SyncInv, PhaseInv, PastWait, FanInv, TypeOK
  <2>3. Cardinality(Inserts(wrote[d])) = Len(inserts)
    BY <1>0, <1>5, <2>2, InsertsCounted DEF SyncInv, WroteInv
  <2>4. ~Before(d)'
    BY <1>0, <1>5 DEF SummaryRow, LoopNext
  <2> QED BY <1>3, <1>5, <2>1, <2>3, <2>4
<1>6. ASSUME NEW m \in Written, wrote'[d] = Append(wrote[d], m), ~down[d],
             \/ pc = "wait" /\ m.kind \notin {"stale", "summary"}
             \/ StaleSend /\ d = dst /\ m.kind = "stale"
             \/ SummaryBegin /\ d = dst /\ m.kind = "summaryTable"
      PROVE  Last(d)' /\ NoSummary(wrote'[d])
  <2>1. Before(d) /\ m.kind # "summary"
    BY <1>0, <1>6 DEF StaleSend, SummaryBegin
  <2> QED BY <1>4, <1>6, <2>1
<1>7. CASE wrote'[d] # wrote[d]
  <2>1. PICK m \in Written :
              /\ ~down[d] /\ wrote'[d] = Append(wrote[d], m)
              /\ \/ pc = "wait" /\ m.kind \notin {"stale", "summary"}
                 \/ /\ StaleSend /\ d = dst
                    /\ \E n \in staleLeft : m = Message("stale", n, 0) /\ staleLeft' = staleLeft \ {n}
                 \/ SummaryBegin /\ d = dst /\ m.kind = "summaryTable"
                 \/ SummaryRow /\ d = dst /\ m = Message("summary", NoTable, Len(inserts))
    BY <1>7, WriteStep
  <2>2. (\E n \in staleLeft : m = Message("stale", n, 0)) => m.kind = "stale"
    BY DEF Message
  <2> QED BY <1>5, <1>6, <2>1, <2>2
<1> QED BY <1>2, <1>7

LEMMA SummaryInit == Init => SummaryInv
<1> SUFFICES ASSUME Init, NEW d \in Dests
    PROVE  Len(wrote[d]) = 0
  BY DEF SummaryInv, NoSummary
<1> QED BY DEF Init

(* A destination's summary is the last message it gets, after its delete-stale
   messages, and reports exactly the rows it got: sendSummary runs after
   eg.Wait and after the loop that deletes stale rows. *)
THEOREM SummaryComesLast == Spec => []SummaryIsLast
<1>1. Init => SummaryInv
  BY SummaryInit
<1>2. SyncInv /\ SummaryInv /\ [Next]_vars => SummaryInv'
  BY SummaryNext
<1>3. SummaryInv => SummaryIsLast
  <2> SUFFICES ASSUME SummaryInv, NEW d \in Dests, NEW k \in 1..Len(wrote[d]), wrote[d][k].kind = "summary"
      PROVE  /\ k = Len(wrote[d])
             /\ wrote[d][k].k = Cardinality({j \in 1..k : wrote[d][j].kind = "insert"})
    BY DEF SummaryIsLast
  <2> QED BY DEF SummaryInv, Inserts
<1> QED BY <1>1, <1>2, <1>3, SyncInvariant, PTL DEF Spec

-----------------------------------------------------------------------------
(* Which tables are cleaned. *)

(* Kept satisfies its equation, also if a table were its own ancestor: the
   least set of tables that the equation allows gives a solution. *)
LEMMA KeptIs ==
  ASSUME NEW t \in Tables
  PROVE  Kept[t] <=> t \in Incremental \/ (Parent[t] # NoTable /\ Kept[Parent[t]])
<1> DEFINE Rule(u, S) == u \in Incremental \/ (Parent[u] # NoTable /\ Parent[u] \in S)
           Closed(S)  == \A u \in Tables : Rule(u, S) => u \in S
           K == {u \in Tables : \A S \in SUBSET Tables : Closed(S) => u \in S}
           F == [u \in Tables |-> u \in K]
           Solves(f) == f = [u \in Tables |-> u \in Incremental \/ (Parent[u] # NoTable /\ f[Parent[u]])]
<1>1. Closed(K)
  OBVIOUS
<1>2. ASSUME NEW u \in K PROVE Rule(u, K)
  <2> SUFFICES ASSUME ~Rule(u, K) PROVE FALSE
    OBVIOUS
  <2>1. Closed(K \ {u})
    BY <1>1
  <2>2. K \ {u} \in SUBSET Tables
    OBVIOUS
  <2> QED BY <1>2, <2>1, <2>2
<1>3. \A u \in Tables : u \in K <=> Rule(u, K)
  BY <1>1, <1>2
<1>4. \A u \in Tables : Parent[u] # NoTable => Parent[u] \in Tables
  BY SyncAssumption
<1> HIDE DEF K
<1>5. \A u \in Tables : F[u] = (u \in Incremental \/ (Parent[u] # NoTable /\ F[Parent[u]]))
  <2> SUFFICES ASSUME NEW u \in Tables
      PROVE  F[u] = (u \in Incremental \/ (Parent[u] # NoTable /\ F[Parent[u]]))
    OBVIOUS
  <2>1. F[u] = (u \in K)
    BY Zenon
  <2>2. Parent[u] # NoTable => F[Parent[u]] = (Parent[u] \in K)
    BY <1>4, Zenon
  <2>3. (u \in K) = (u \in Incremental \/ (Parent[u] # NoTable /\ Parent[u] \in K))
    BY <1>3
  <2> QED BY <2>1, <2>2, <2>3, Zenon
<1>6. Solves(F)
  BY <1>5
<1>7. Solves(Kept)
  BY <1>6, Zenon DEF Kept
<1> QED BY <1>7, Zenon

(* After its migrate message went to a destination, the destination's
   tableNameChanger knows the table; --no-migrate sends no migrate message. *)
LearnInv ==
  /\ srcErr => src = "done"
  /\ NoMigrate => /\ src = "fanout" => msg.kind # "migrate"
                  /\ \A d \in Dests : learned[d] = {}
  /\ ~NoMigrate =>
       \A d \in Dests, t \in migrated :
         \/ t \in learned[d]
         \/ src = "fanout" /\ msg.kind = "migrate" /\ t = msg.table /\ d >= dst
         \/ AnyError

LEMMA LearnInit == Init => LearnInv
BY DEF Init, LearnInv

LEMMA ErrorStays ==
  ASSUME TypeOK, FanInv, LearnInv, AnyError, [Next]_vars
  PROVE  AnyError'
<1>1. CASE FanoutInsert
  <2>1. src = "fanout" /\ dst \in Dests /\ UNCHANGED broke
    BY <1>1 DEF FanoutInsert, TypeOK
  <2> QED BY <2>1 DEF AnyError, LearnInv
<1>2. CASE FanoutDirect \/ SourceEnds
  <2>1. src # "done" /\ UNCHANGED broke
    BY <1>2 DEF FanoutDirect, SourceEnds
  <2> QED BY <2>1 DEF AnyError, LearnInv
<1>3. CASE SourceFails
  BY <1>3 DEF SourceFails, SourceReturns, AnyError
<1>4. ASSUME NEW d \in Dests, PipeDeliver(d) \/ PipeEnds(d) \/ PipeFails(d) \/ PipeBreaks(d) PROVE AnyError'
  <2>1. UNCHANGED srcErr /\ \A e \in Dests : broke[e] # "none" => broke'[e] # "none"
    BY <1>4 DEF PipeDeliver, PipeEnds, PipeFails, PipeBreaks, sourceVars, TypeOK
  <2> QED BY <2>1 DEF AnyError
<1>5. CASE ~(FanoutInsert \/ FanoutDirect \/ SourceEnds \/ SourceFails
             \/ \E d \in Dests : PipeDeliver(d) \/ PipeEnds(d) \/ PipeFails(d) \/ PipeBreaks(d))
  <2>1. UNCHANGED <<srcErr, broke>>
    BY <1>5 DEF Next, SourceStep, ReceiveInsert, ReceiveDelete, ReceiveMigrate, ReceiveError,
         Receives, PipeStep, DestinationFails, MainStep, Start, Wait, StaleBegin, StaleSend,
         SummaryBegin, SummaryRow, CloseDest, Terminated, vars, sourceVars, pipeVars
  <2> QED BY <2>1 DEF AnyError
<1> QED BY <1>1, <1>2, <1>3, <1>4, <1>5

LEMMA LearnNext ==
  ASSUME TypeOK, FanInv, LearnInv, [Next]_vars
  PROVE  LearnInv'
<1> DEFINE Owed(d, t) == src = "fanout" /\ msg.kind = "migrate" /\ t = msg.table /\ d >= dst
           L == /\ srcErr => src = "done"
                /\ NoMigrate => /\ src = "fanout" => msg.kind # "migrate"
                                /\ \A d \in Dests : learned[d] = {}
           M == \A d \in Dests, t \in migrated : t \in learned[d] \/ Owed(d, t) \/ AnyError
<1> SUFFICES L' /\ (~NoMigrate => M')
  BY DEF LearnInv
<1>0. L /\ (~NoMigrate => M) /\ (AnyError => AnyError')
  BY ErrorStays DEF LearnInv
<1>a. \A d \in Dests : d \in Nat /\ d >= 1 /\ d <= ND
  BY SyncAssumption DEF Dests
<1>b. dst \in Dests /\ dst \in Nat /\ learned \in [Dests -> SUBSET Tables]
  BY <1>a DEF TypeOK
<1> HIDE DEF AnyError
<1>1. ASSUME NEW t \in Tables, ReceiveInsert(t) \/ ReceiveDelete(t) PROVE L' /\ (~NoMigrate => M')
  <2>1. src = "recv" /\ src' = "fanout" /\ msg'.kind # "migrate" /\ UNCHANGED <<srcErr, learned, migrated>>
    BY <1>1 DEF ReceiveInsert, ReceiveDelete, Receives
  <2> QED BY <1>0, <2>1
<1>2. ASSUME NEW t \in Tables, ReceiveMigrate(t) PROVE L' /\ (~NoMigrate => M')
  <2>1. src = "recv" /\ migrated' = migrated \cup {t} /\ dst' = 1 /\ UNCHANGED <<srcErr, learned>>
    BY <1>2 DEF ReceiveMigrate, Receives
  <2>2. /\ NoMigrate => src' = "recv"
        /\ ~NoMigrate => src' = "fanout" /\ msg'.kind = "migrate" /\ msg'.table = t
    BY <1>2, <2>1 DEF ReceiveMigrate
  <2> QED BY <1>0, <1>a, <2>1, <2>2
<1>3. CASE ReceiveError
  BY <1>0, <1>3 DEF ReceiveError, Receives
<1>4. CASE FanoutInsert
  <2>1. /\ src = "fanout" /\ msg.kind = "insert" /\ UNCHANGED <<msg, learned, migrated>>
        /\ src' = "done" \/ UNCHANGED srcErr
    BY <1>4 DEF FanoutInsert, tableVars, SourceReturns, NextDest
  <2> QED BY <1>0, <2>1
<1>5. CASE FanoutDirect
  <2>1. src = "fanout" /\ UNCHANGED <<msg, migrated>>
    BY <1>5 DEF FanoutDirect
  <2>2. /\ \A d \in Dests : learned[d] \subseteq learned'[d]
        /\ msg.kind = "migrate" => msg.table \in learned'[dst]
        /\ msg.kind # "migrate" => learned' = learned
    BY <1>5, <1>b DEF FanoutDirect
  <2>3. CASE SourceReturns(TRUE)
    <3>1. AnyError' /\ src' = "done"
      BY <2>3 DEF SourceReturns, AnyError
    <3> QED BY <1>0, <2>1, <2>2, <3>1
  <2>4. CASE NextDest
    <3>1. /\ UNCHANGED srcErr /\ srcErr = FALSE
          /\ \/ dst < ND /\ dst' = dst + 1 /\ src' = "fanout"
             \/ dst = ND /\ src' = "recv"
      BY <1>0, <1>b, <2>1, <2>4, NextDestEffect DEF TypeOK
    <3>2. ASSUME ~NoMigrate, NEW d \in Dests, NEW t \in migrated, Owed(d, t)
          PROVE  t \in learned'[d] \/ Owed(d, t)'
      <4>1. CASE d = dst
        BY <2>2, <3>2, <4>1
      <4>2. CASE d # dst
        <5>1. d \in Nat /\ d <= ND /\ d >= dst /\ ND \in Nat
          BY <1>a, <3>2, SyncAssumption
        <5>2. dst < ND /\ d >= dst + 1
          BY <1>b, <4>2, <5>1
        <5> QED BY <1>b, <2>1, <3>1, <3>2, <5>2
      <4> QED BY <4>1, <4>2
    <3> QED BY <1>0, <2>1, <2>2, <3>1, <3>2
  <2> QED BY <1>5, <2>3, <2>4 DEF FanoutDirect
<1>6. CASE SourceEnds \/ SourceFails
  <2>1. src' = "done" /\ UNCHANGED <<learned, migrated>>
    BY <1>6 DEF SourceEnds, SourceFails, SourceReturns, tableVars
  <2>2. AnyError' \/ (SourceEnds /\ src = "recv")
    BY <1>6 DEF SourceEnds, SourceFails, SourceReturns, AnyError
  <2> QED BY <1>0, <2>1, <2>2
<1>7. ASSUME NEW d \in Dests, PipeStep(d) \/ PipeFails(d) \/ PipeBreaks(d) \/ DestinationFails(d) PROVE L' /\ (~NoMigrate => M')
  <2>1. UNCHANGED <<src, srcErr, msg, dst, learned, migrated>>
    BY <1>7 DEF PipeStep, PipeDeliver, PipeEnds, PipeFails, PipeBreaks, DestinationFails, sourceVars, tableVars
  <2> QED BY <1>0, <2>1
<1>8. CASE MainStep
  <2>1. UNCHANGED <<src, srcErr, msg, learned, migrated>> /\ src # "fanout"
    BY <1>8 DEF MainStep, Start, Wait, StaleBegin, StaleSend, SummaryBegin, SummaryRow, CloseDest,
                FanInv, sourceVars, tableVars
  <2> QED BY <1>0, <2>1
<1>9. CASE UNCHANGED vars
  <2>1. UNCHANGED <<src, srcErr, msg, dst, learned, migrated>>
    BY <1>9 DEF vars, sourceVars, tableVars
  <2> QED BY <1>0, <2>1
<1> QED
  BY <1>1, <1>2, <1>3, <1>4, <1>5, <1>6, <1>7, <1>8, <1>9 DEF Next, SourceStep, Terminated

\* The migrated tables whose stale rows are to be deleted.
Cleanable == {t \in migrated : ~(StateBackend /\ Kept[t])}

(* skippedFromDeleteStale has the migrated tables that are kept, although each
   is entered by a look at its parent only; tablesForDeleteStale has the others,
   until a destination's UpdateTableNames deletes from it. *)
SkipInv ==
  /\ \A t \in migrated : Parent[t] \in migrated \cup {NoTable}
  /\ skipped = {t \in migrated : StateBackend /\ Kept[t]}
  /\ staleTables \subseteq Cleanable
  /\ \/ pc \in {"init", "wait"}
     \/ NoMigrate
     \/ pc = "stale" /\ \A e \in ODS : e >= dst
     => staleTables = Cleanable
  /\ pc = "staleSend" => dst \in ODS

LEMMA SkipInit == Init => SkipInv
BY DEF Init, SkipInv, Cleanable

LEMMA SkipNext ==
  ASSUME TypeOK, FanInv, LearnInv, SkipInv, [Next]_vars
  PROVE  SkipInv'
<1> DEFINE All == \/ pc \in {"init", "wait"}
                  \/ NoMigrate
                  \/ pc = "stale" /\ \A e \in ODS : e >= dst
           S == /\ \A t \in migrated : Parent[t] \in migrated \cup {NoTable}
                /\ skipped = {t \in migrated : StateBackend /\ Kept[t]}
                /\ staleTables \subseteq Cleanable
                /\ All => staleTables = Cleanable
                /\ pc = "staleSend" => dst \in ODS
<1> SUFFICES S'
  BY DEF SkipInv
<1>0. S
  BY DEF SkipInv
<1>a. ODS \subseteq Dests /\ (\A d \in Dests : d \in Nat /\ d >= 1) /\ dst \in Dests
  BY SyncAssumption DEF Dests, TypeOK
<1>1. ASSUME NEW t \in Tables, ReceiveMigrate(t) PROVE S'
  <2>1. /\ pc = "wait" /\ pc' = "wait" /\ migrated' = migrated \cup {t} /\ t \notin migrated
        /\ Parent[t] \in migrated \cup {NoTable}
    BY <1>1 DEF ReceiveMigrate, Receives, mainVars
  <2>2. SkipStale(t) <=> StateBackend /\ Kept[t]
    BY <1>0, <2>1, KeptIs DEF SkipStale
  <2>3. CASE SkipStale(t)
    <3>1. skipped' = skipped \cup {t} /\ staleTables' = staleTables
      BY <1>1, <2>3 DEF ReceiveMigrate
    <3> QED BY <1>0, <2>1, <2>2, <2>3, <3>1 DEF Cleanable
  <2>4. CASE ~SkipStale(t)
    <3>1. staleTables' = staleTables \cup {t} /\ skipped' = skipped
      BY <1>1, <2>4 DEF ReceiveMigrate
    <3> QED BY <1>0, <2>1, <2>2, <2>4, <3>1 DEF Cleanable
  <2> QED BY <2>3, <2>4
<1>2. CASE \/ \E t \in Tables : ReceiveInsert(t) \/ ReceiveDelete(t)
           \/ ReceiveError \/ FanoutInsert \/ FanoutDirect \/ SourceEnds \/ SourceFails
  <2>1. UNCHANGED <<migrated, skipped, staleTables>>
    BY <1>2 DEF ReceiveInsert, ReceiveDelete, ReceiveError, FanoutInsert, FanoutDirect,
                SourceEnds, SourceFails, tableVars
  <2>2. pc = "wait" /\ pc' = "wait"
    BY <1>2, SourceFrame
  <2> QED BY <1>0, <2>1, <2>2 DEF Cleanable
<1>3. ASSUME UNCHANGED <<pc, dst, tableVars>> PROVE S'
  BY <1>0, <1>3 DEF Cleanable, tableVars
<1>4. ASSUME NEW d \in Dests, PipeStep(d) \/ PipeFails(d) \/ PipeBreaks(d) \/ DestinationFails(d) PROVE S'
  BY <1>3, <1>4 DEF PipeStep, PipeDeliver, PipeEnds, PipeFails, PipeBreaks, DestinationFails, mainVars
<1>5. CASE Start
  BY <1>0, <1>5 DEF Start, Return, tableVars, Cleanable
<1>6. CASE Wait
  BY <1>0, <1>6 DEF Wait, Return, tableVars, Cleanable
<1>7. CASE StaleBegin
  <2>1. pc = "stale" /\ UNCHANGED <<migrated, skipped, learned>>
    BY <1>7 DEF StaleBegin
  <2>2. CASE dst \in ODS
    <3>1. pc' = "staleSend" /\ dst' = dst /\ staleTables' = staleTables \ learned[dst]
      BY <1>7, <2>2 DEF StaleBegin
    <3>2. NoMigrate => staleTables' = staleTables
      BY <1>a, <3>1 DEF LearnInv
    <3> QED BY <1>0, <2>1, <2>2, <3>1, <3>2 DEF Cleanable
  <2>3. CASE dst \notin ODS
    <3>1. staleTables' = staleTables /\ LoopNext("stale", "summary")
      BY <1>7, <2>3 DEF StaleBegin
    <3>2. All' => All
      BY <1>a, <2>1, <3>1 DEF LoopNext
    <3> QED BY <1>0, <2>1, <3>1, <3>2 DEF Cleanable, LoopNext
  <2> QED BY <2>2, <2>3
<1>8. CASE StaleSend
  <2>1. pc = "staleSend" /\ dst \in ODS /\ UNCHANGED tableVars
    BY <1>0, <1>8 DEF StaleSend
  <2>2. /\ pc' = "staleSend" => dst' = dst
        /\ pc' = "stale" => dst' = dst + 1
        /\ pc' \notin {"init", "wait"}
    BY <1>8, <2>1 DEF StaleSend, LoopNext, Return
  <2>3. All' => NoMigrate
    BY <1>a, <2>1, <2>2
  <2> QED BY <1>0, <2>1, <2>2, <2>3 DEF Cleanable, tableVars
<1>9. CASE SummaryBegin \/ SummaryRow \/ CloseDest
  <2>1. UNCHANGED tableVars /\ pc' \notin {"init", "wait", "stale", "staleSend"}
    BY <1>9 DEF SummaryBegin, SummaryRow, CloseDest, LoopNext, Return
  <2> QED BY <1>0, <2>1 DEF Cleanable, tableVars
<1>10. CASE UNCHANGED vars
  BY <1>3, <1>10 DEF vars, mainVars
<1> QED
  BY <1>1, <1>2, <1>4, <1>5, <1>6, <1>7, <1>8, <1>9, <1>10
  DEF Next, SourceStep, MainStep, Terminated

\* The name under which a destination deletes the stale rows of table t.
StaleName(d, t) == IF NoMigrate THEN t ELSE Name[d][t]

(* Whatever deleteStale sends or has sent is the name of a table that is not
   kept. *)
NamesInv ==
  /\ pc = "staleSend" => \A n \in staleLeft : \E t \in Cleanable : n = StaleName(dst, t)
  /\ \A d \in Dests : \A k \in 1..Len(wrote[d]) : wrote[d][k].kind = "stale" =>
       \E t \in Cleanable : wrote[d][k].name = StaleName(d, t)

(* After eg.Wait every name that UpdateTableName is asked for is known, unless
   no migrate message was sent. *)
LEMMA Learned ==
  ASSUME TypeOK, FanInv, PhaseInv, LearnInv, PastWait, NEW d \in Dests, NEW t \in migrated
  PROVE  UpdateTableName(d, t) = StaleName(d, t)
<1>1. src = "done" /\ ~AnyError
  BY DEF PhaseInv
<1>2. CASE NoMigrate
  BY <1>2 DEF LearnInv, UpdateTableName, StaleName
<1>3. CASE ~NoMigrate
  <2>1. t \in learned[d]
    BY <1>1, <1>3 DEF LearnInv
  <2> QED BY <1>3, <2>1 DEF UpdateTableName, StaleName
<1> QED BY <1>2, <1>3

\* Tables are only added to those to be cleaned, and none after eg.Wait.
LEMMA CleanableGrows ==
  ASSUME [Next]_vars
  PROVE  /\ Cleanable \subseteq Cleanable'
         /\ pc # "wait" => Cleanable' = Cleanable
<1>1. migrated \subseteq migrated' /\ (pc # "wait" => migrated' = migrated)
  <2>1. CASE \E t \in Tables : ReceiveMigrate(t)
    BY <2>1 DEF ReceiveMigrate, Receives
  <2>2. CASE ~(\E t \in Tables : ReceiveMigrate(t))
    <3>1. UNCHANGED migrated
      BY <2>2 DEF Next, SourceStep, ReceiveInsert, ReceiveDelete, ReceiveError, Receives,
         FanoutInsert, FanoutDirect, SourceEnds, SourceFails, PipeStep, PipeDeliver, PipeEnds, PipeFails, PipeBreaks,
         DestinationFails, MainStep, Start, Wait, StaleBegin, StaleSend, SummaryBegin, SummaryRow,
         CloseDest, Terminated, vars, tableVars
    <3> QED BY <3>1
  <2> QED BY <2>1, <2>2
<1> QED BY <1>1 DEF Cleanable

LEMMA NamesInit == Init => NamesInv
<1> SUFFICES ASSUME Init
    PROVE  pc # "staleSend" /\ \A d \in Dests : Len(wrote[d]) = 0
  BY DEF NamesInv
<1> QED BY DEF Init

LEMMA NamesNext ==
  ASSUME SyncInv, LearnInv, SkipInv, NamesInv, [Next]_vars
  PROVE  NamesInv'
<1> USE DEF SyncInv
<1>0. TypeOK /\ dst \in Dests
  BY DEF TypeOK
<1>1. ASSUME pc' = "staleSend", NEW n \in staleLeft' PROVE \E t \in Cleanable' : n = StaleName(dst', t)
  <2>1. CASE StaleBegin
    <3>1. pc = "stale" /\ dst' = dst /\ staleLeft' = UpdateTableNames(dst, staleTables)
      BY <1>1, <2>1 DEF StaleBegin, LoopNext
    <3>2. PICK t \in staleTables : n = UpdateTableName(dst, t)
      BY <1>1, <3>1 DEF UpdateTableNames
    <3>3. t \in Cleanable /\ t \in migrated
      BY <3>2 DEF SkipInv, Cleanable
    <3>4. UpdateTableName(dst, t) = StaleName(dst, t)
      BY <1>0, <3>1, <3>3, Learned DEF PastWait
    <3> QED BY <3>1, <3>2, <3>3, <3>4, CleanableGrows
  <2>2. CASE ~StaleBegin
    <3>1. pc = "staleSend" /\ dst' = dst /\ staleLeft' \subseteq staleLeft
      BY <1>0, <1>1, <2>2
      DEF Next, SourceStep, ReceiveInsert, ReceiveDelete, ReceiveMigrate, ReceiveError, Receives,
         FanoutInsert, FanoutDirect, SourceEnds, SourceFails, PipeStep, PipeDeliver, PipeEnds, PipeFails, PipeBreaks,
         DestinationFails, MainStep, Start, Wait, StaleSend, SummaryBegin, SummaryRow,
         CloseDest, Terminated, LoopNext, NextDest, Return, vars, sourceVars, mainVars, FanInv
    <3> QED BY <1>1, <3>1, CleanableGrows DEF NamesInv
  <2> QED BY <2>1, <2>2
<1>2. ASSUME NEW d \in Dests, NEW k \in 1..Len(wrote'[d]), wrote'[d][k].kind = "stale"
      PROVE  \E t \in Cleanable' : wrote'[d][k].name = StaleName(d, t)
  <2>0. wrote[d] \in Seq(Written)
    BY <1>0 DEF TypeOK
  <2>1. ASSUME k \in 1..Len(wrote[d]), wrote'[d][k] = wrote[d][k]
        PROVE  \E t \in Cleanable' : wrote'[d][k].name = StaleName(d, t)
    BY <1>2, <2>1, CleanableGrows DEF NamesInv
  <2>2. CASE wrote'[d] = wrote[d]
    BY <1>2, <2>1, <2>2
  <2>3. ASSUME NEW m \in Written, wrote'[d] = Append(wrote[d], m),
               m.kind = "stale" => \E t \in Cleanable' : m.name = StaleName(d, t)
        PROVE  \E t \in Cleanable' : wrote'[d][k].name = StaleName(d, t)
    <3>1. /\ Len(wrote[d]) \in Nat /\ Len(wrote'[d]) = Len(wrote[d]) + 1
          /\ wrote'[d][Len(wrote[d]) + 1] = m
          /\ \A j \in 1..Len(wrote[d]) : wrote'[d][j] = wrote[d][j]
      BY <2>0, <2>3, Appended
    <3>2. CASE k = Len(wrote[d]) + 1
      BY <1>2, <2>3, <3>1, <3>2
    <3>3. CASE k # Len(wrote[d]) + 1
      BY <1>2, <2>1, <3>1, <3>3
    <3> QED BY <3>2, <3>3
  <2>4. ASSUME NEW n \in staleLeft, StaleSend, d = dst, NEW m, m = Message("stale", n, 0)
        PROVE  \E t \in Cleanable' : m.name = StaleName(d, t)
    BY <2>4, CleanableGrows DEF StaleSend, NamesInv, Message
  <2> QED BY <2>2, <2>3, <2>4, WriteStep DEF Message
<1> QED BY <1>1, <1>2 DEF NamesInv

\* All of this holds together.
StaleInv == SyncInv /\ LearnInv /\ SkipInv /\ NamesInv

\* StaleInv holds in every state of every run.
THEOREM StaleInvariant == Spec => []StaleInv
<1>1. Init => LearnInv /\ SkipInv /\ NamesInv
  BY LearnInit, SkipInit, NamesInit
<1>2. SyncInv /\ LearnInv /\ SkipInv /\ NamesInv /\ [Next]_vars => LearnInv' /\ SkipInv' /\ NamesInv'
  BY LearnNext, SkipNext, NamesNext DEF SyncInv
<1> QED BY <1>1, <1>2, SyncInvariant, PTL DEF Spec, StaleInv

(* No transformer gives a table that is cleaned the name of one that is kept. *)
NamesApart ==
  \A d \in Dests, t, u \in Tables : Kept[t] /\ ~Kept[u] => StaleName(d, u) # Name[d][t]

(* The rows of an incremental table and of its descendants survive every sync
   with a state backend, however the source orders its tables, provided that no
   transformer gives another table the name of one of them: skippedFromDeleteStale
   is about tables, deleteStale about names. *)
THEOREM KeptRowsSurvive ==
  ASSUME NamesApart
  PROVE  Spec => []IncrementalKept
<1>1. StaleInv => IncrementalKept
  <2> SUFFICES ASSUME StaleInv, NEW d \in Dests, NEW t \in Tables, StateBackend, Kept[t],
                      NEW k \in 1..Len(wrote[d]), wrote[d][k].kind = "stale",
                      wrote[d][k].name = Name[d][t]
      PROVE  FALSE
    BY DEF IncrementalKept
  <2>1. PICK u \in Cleanable : wrote[d][k].name = StaleName(d, u)
    BY DEF StaleInv, NamesInv
  <2>2. u \in Tables /\ ~Kept[u]
    BY DEF Cleanable, StaleInv, SyncInv, TypeOK
  <2> QED BY <2>1, <2>2 DEF NamesApart
<1> QED BY <1>1, StaleInvariant, PTL

(* UpdateTableNames deletes what it renames from the map it is given, so only
   the first destination that cleans gets the tables; and without migrate
   messages nothing is renamed. *)
CleansAlone ==
  IF NoMigrate THEN \A d \in ODS, t \in Tables : Name[d][t] = t
  ELSE \A d, e \in ODS : d = e

ToldStale(d, t, w) == \E k \in 1..Len(w) : w[k] = Message("stale", Name[d][t], 0)

(* A destination that cleans has got, or is about to get, a stale message for
   every table to be cleaned. *)
CleanInv ==
  \A d \in ODS :
    /\ \/ pc \in {"stale", "staleSend"} /\ d < dst
       \/ pc \in {"summary", "summaryRow", "close"}
       \/ ret = "ok"
       => \A t \in Cleanable : down[d] \/ ToldStale(d, t, wrote[d])
    /\ pc = "staleSend" /\ d = dst =>
         \A t \in Cleanable : down[d] \/ ToldStale(d, t, wrote[d]) \/ Name[d][t] \in staleLeft

LEMMA CleanInit == Init => CleanInv
BY SyncAssumption DEF Init, CleanInv, Cleanable

\* What a stream has got it keeps, and a stream that has failed stays so.
LEMMA ToldKept ==
  ASSUME SyncInv, [Next]_vars, NEW d \in Dests, NEW t, down[d] \/ ToldStale(d, t, wrote[d])
  PROVE  down'[d] \/ ToldStale(d, t, wrote'[d])
<1>1. down[d] => down'[d]
  <2>1. CASE \E e \in Dests : DestinationFails(e)
    BY <2>1 DEF DestinationFails, SyncInv, TypeOK
  <2>2. CASE ~(\E e \in Dests : DestinationFails(e))
    <3>1. UNCHANGED down
      BY <2>2 DEF Next, SourceStep, ReceiveInsert, ReceiveDelete, ReceiveMigrate, ReceiveError, Receives,
         FanoutInsert, FanoutDirect, SourceEnds, SourceFails, PipeStep, PipeDeliver, PipeEnds, PipeFails, PipeBreaks,
         MainStep, Start, Wait, StaleBegin, StaleSend, SummaryBegin, SummaryRow,
         CloseDest, Terminated, vars, writeVars
    <3> QED BY <3>1
  <2> QED BY <2>1, <2>2
<1>2. ToldStale(d, t, wrote[d]) => ToldStale(d, t, wrote'[d])
  <2>1. wrote[d] \in Seq(Written)
    BY DEF SyncInv, TypeOK
  <2>2. CASE wrote'[d] = wrote[d]
    BY <2>2
  <2>3. ASSUME NEW m \in Written, wrote'[d] = Append(wrote[d], m)
        PROVE  ToldStale(d, t, wrote[d]) => ToldStale(d, t, wrote'[d])
    BY <2>1, <2>3, Appended DEF ToldStale
  <2> QED BY <2>2, <2>3, WriteStep
<1> QED BY <1>1, <1>2

LEMMA CleanNext ==
  ASSUME StaleInv, CleanInv, CleansAlone, [Next]_vars
  PROVE  CleanInv'
<1> DEFINE After(d) == \/ pc \in {"stale", "staleSend"} /\ d < dst
                       \/ pc \in {"summary", "summaryRow", "close"}
                       \/ ret = "ok"
           Told(d, t) == down[d] \/ ToldStale(d, t, wrote[d])
           C(d) == /\ After(d) => \A t \in Cleanable : Told(d, t)
                   /\ pc = "staleSend" /\ d = dst =>
                        \A t \in Cleanable : Told(d, t) \/ Name[d][t] \in staleLeft
<1> SUFFICES ASSUME NEW d \in ODS PROVE C(d)'
  BY DEF CleanInv
<1>0. C(d)
  BY DEF CleanInv
<1>a. /\ SyncInv /\ TypeOK /\ FanInv /\ PhaseInv /\ LearnInv /\ SkipInv
      /\ d \in Dests /\ d \in Nat /\ d >= 1 /\ d <= ND /\ dst \in Nat /\ ND \in Nat
  <2>1. SyncInv /\ TypeOK /\ FanInv /\ PhaseInv /\ LearnInv /\ SkipInv
    BY DEF StaleInv, SyncInv
  <2>2. d \in Dests /\ dst \in Dests
    BY <2>1, SyncAssumption DEF TypeOK
  <2> QED BY <2>1, <2>2, SyncAssumption DEF Dests
<1>b. \A t : Told(d, t) => Told(d, t)'
  BY <1>a, ToldKept
<1>c. pc # "wait" => Cleanable' = Cleanable
  BY CleanableGrows
<1> HIDE DEF Told
<1>1. ASSUME pc' = pc, dst' = dst, ret' = ret, staleLeft' = staleLeft, pc # "wait" PROVE C(d)'
  BY <1>0, <1>b, <1>c, <1>1
<1>2. CASE \/ \E t \in Tables : ReceiveInsert(t) \/ ReceiveDelete(t) \/ ReceiveMigrate(t)
           \/ ReceiveError \/ FanoutInsert \/ FanoutDirect \/ SourceEnds \/ SourceFails
  <2>1. pc = "wait" /\ UNCHANGED <<pc, ret>>
    BY <1>2, <1>a, SourceFrame
  <2> QED BY <1>a, <2>1 DEF PhaseInv
<1>3. ASSUME NEW e \in Dests, PipeStep(e) \/ PipeFails(e) \/ PipeBreaks(e) \/ DestinationFails(e) PROVE C(d)'
  <2>1. UNCHANGED <<dst, mainVars>>
    BY <1>3 DEF PipeStep, PipeDeliver, PipeEnds, PipeFails, PipeBreaks, DestinationFails, sourceVars
  <2>2. CASE pc = "wait"
    BY <1>a, <2>1, <2>2 DEF PhaseInv, mainVars
  <2> QED BY <1>1, <2>1, <2>2 DEF mainVars
<1>4. CASE Start
  BY <1>4, <1>a DEF Start, Return, PhaseInv
<1>5. CASE Wait
  <2>1. dst' = 1 /\ (pc' = "stale" \/ pc' = "done") /\ ret' # "ok"
    BY <1>5, <1>a DEF Wait, Return, PhaseInv
  <2> QED BY <1>a, <2>1
<1>6. CASE StaleBegin
  <2>1. pc = "stale" /\ ret' = ret /\ ret # "ok"
    BY <1>6, <1>a DEF StaleBegin, PhaseInv
  <2>2. CASE dst \in ODS
    <3>1. pc' = "staleSend" /\ dst' = dst /\ staleLeft' = UpdateTableNames(dst, staleTables)
      BY <1>6, <2>2 DEF StaleBegin
    <3>2. ASSUME d = dst, NEW t \in Cleanable PROVE Name[d][t] \in staleLeft'
      <4>1. staleTables = Cleanable
        <5>1. ~NoMigrate => \A e \in ODS : e >= dst
          BY <1>a, <2>2 DEF CleansAlone
        <5> QED BY <1>a, <2>1, <5>1 DEF SkipInv
      <4>2. t \in migrated /\ t \in Tables
        BY <1>a, <3>2 DEF Cleanable, TypeOK
      <4>3. UpdateTableName(d, t) = StaleName(d, t)
        BY <1>a, <2>1, <4>2, Learned DEF PastWait
      <4>4. StaleName(d, t) = Name[d][t]
        BY <4>2 DEF StaleName, CleansAlone
      <4> QED BY <3>1, <3>2, <4>1, <4>3, <4>4 DEF UpdateTableNames
    <3> QED BY <1>0, <1>b, <1>c, <2>1, <3>1, <3>2
  <2>3. CASE dst \notin ODS
    <3>1. LoopNext("stale", "summary") /\ d # dst
      BY <1>6, <2>3 DEF StaleBegin
    <3>2. After(d)' => After(d)
      BY <1>a, <2>1, <3>1 DEF LoopNext
    <3>3. pc' # "staleSend"
      BY <3>1 DEF LoopNext
    <3> QED BY <1>0, <1>b, <1>c, <2>1, <3>2, <3>3
  <2> QED BY <2>2, <2>3
<1>7. CASE StaleSend
  <2>1. pc = "staleSend" /\ ret # "ok"
    BY <1>7, <1>a DEF StaleSend, PhaseInv
  <2>2. CASE staleLeft = {} /\ LoopNext("stale", "summary") /\ UNCHANGED ret
    <3>1. After(d)' => d <= dst /\ pc' # "staleSend"
      BY <1>a, <2>1, <2>2 DEF LoopNext
    <3>2. pc' # "staleSend"
      BY <2>2 DEF LoopNext
    <3>3. d <= dst => \A t \in Cleanable : Told(d, t)
      BY <1>0, <1>a, <2>1, <2>2
    <3> QED BY <1>b, <1>c, <2>1, <3>1, <3>2, <3>3
  <2>3. ASSUME NEW n \in staleLeft, SendOK(dst, Message("stale", n, 0)), staleLeft' = staleLeft \ {n},
               UNCHANGED <<pc, dst, ret, down>>
        PROVE  C(d)'
    <3>1. ASSUME d = dst, NEW t \in Cleanable, Name[d][t] = n PROVE Told(d, t)'
      <4>1. CASE Lost(dst)
        BY <2>3, <3>1, <4>1 DEF Lost, Told
      <4>2. CASE Accepted(dst, Message("stale", n, 0))
        <5>1. wrote[d] \in Seq(Written) /\ Message("stale", n, 0) \in Written
          <6>1. n \in Names /\ 0 \in 0..MaxMessages
            BY <1>a, <2>3, SyncAssumption DEF TypeOK
          <6> QED BY <1>a, <6>1, MessageType DEF Kinds, TypeOK
        <5>2. wrote'[d] = Append(wrote[d], Message("stale", n, 0))
          BY <1>a, <3>1, <4>2 DEF Accepted, TypeOK
        <5>3. Len(wrote[d]) + 1 \in 1..Len(wrote'[d]) /\ wrote'[d][Len(wrote[d]) + 1] = Message("stale", n, 0)
          BY <5>1, <5>2, Appended
        <5> QED BY <3>1, <5>3 DEF Told, ToldStale
      <4> QED BY <2>3, <4>1, <4>2 DEF SendOK
    <3> QED BY <1>0, <1>b, <1>c, <2>1, <2>3, <3>1
  <2>4. CASE Return("err")
    BY <2>1, <2>4 DEF Return
  <2> QED BY <1>7, <2>2, <2>3, <2>4 DEF StaleSend
<1>8. CASE SummaryBegin \/ SummaryRow \/ CloseDest
  <2>1. After(d) /\ pc # "wait"
    BY <1>8 DEF SummaryBegin, SummaryRow, CloseDest
  <2>2. pc' # "staleSend"
    BY <1>8 DEF SummaryBegin, SummaryRow, CloseDest, LoopNext, Return
  <2> QED BY <1>0, <1>b, <1>c, <2>1, <2>2
<1>9. CASE UNCHANGED vars
  <2>1. UNCHANGED <<pc, dst, ret, staleLeft, migrated, down, wrote>>
    BY <1>9 DEF vars, sourceVars, mainVars, tableVars, writeVars
  <2> QED BY <1>0, <2>1 DEF Cleanable, Told
<1> QED
  BY <1>2, <1>3, <1>4, <1>5, <1>6, <1>7, <1>8, <1>9
  DEF Next, SourceStep, MainStep, Terminated

(* A sync that succeeds has told every destination with overwrite-delete-stale
   to clean every table that is to be cleaned, under its name there, provided
   that migrate messages were sent and it is the only such destination, or that
   none were sent and nothing is renamed: UpdateTableNames knows a new name only
   from a migrate message and takes what it renames from the map all share. *)
THEOREM AllStaleCleaned ==
  ASSUME CleansAlone
  PROVE  Spec => []StaleTablesCleaned
<1>1. Init => CleanInv
  BY CleanInit
<1>2. StaleInv /\ CleanInv /\ [Next]_vars => CleanInv'
  BY CleanNext
<1>3. StaleInv /\ CleanInv => StaleTablesCleaned
  <2> SUFFICES ASSUME StaleInv, CleanInv, ret = "ok", NEW d \in ODS, NEW t \in migrated,
                      ~(StateBackend /\ Kept[t])
      PROVE  \E k \in 1..Len(wrote[d]) : wrote[d][k] = Message("stale", Name[d][t], 0)
    BY DEF StaleTablesCleaned
  <2>1. d \in Dests /\ ~down[d]
    BY SyncAssumption DEF StaleInv, SyncInv, CloseInv
  <2> QED BY <2>1 DEF CleanInv, Cleanable, ToldStale
<1> QED BY <1>1, <1>2, <1>3, StaleInvariant, PTL DEF Spec

-----------------------------------------------------------------------------
(* What the sync takes a pipeline for. *)

\* The outcome of the path of the first destination.
Open == src # "done" \/ pstate[1] = "run"
Bad  == srcErr \/ pstate[1] = "err"

\* The records that have left its pipeline, when n have.
Upto(n) == [k \in 1..n |-> k]

LEMMA UptoNext ==
  ASSUME NEW n \in Nat
  PROVE  /\ Len(Upto(n)) = n
         /\ Upto(n + 1) = Append(Upto(n), Len(Upto(n)) + 1)
<1>1. Upto(n) \in Seq(Nat) /\ Upto(n + 1) \in Seq(Nat) /\ Len(Upto(n)) = n /\ Len(Upto(n + 1)) = n + 1
  BY DEF Upto
<1>2. Append(Upto(n), n + 1) \in Seq(Nat) /\ Len(Append(Upto(n), n + 1)) = n + 1
  BY <1>1, AppendProperties
<1>3. \A k \in 1..(n + 1) : Append(Upto(n), n + 1)[k] = Upto(n + 1)[k]
  BY <1>1, AppendProperties DEF Upto
<1> QED BY <1>1, <1>2, <1>3, SeqEqual

LEMMA PathInit == Init => Path!Init
<1> SUFFICES ASSUME Init PROVE Path!Init
  OBVIOUS
<1>1. 1 \in Dests
  BY SyncAssumption DEF Dests
<1>2. [k \in 1..0 |-> k] = <<>>
  OBVIOUS
<1> QED BY <1>1, <1>2 DEF Init, Path!Init

\* A step takes a record into the pipeline, out of it, or neither.
LEMMA PathSteps ==
  ASSUME TypeOK, FanInv, Open, [Next]_vars
  PROVE  \/ /\ sentTo'[1] = sentTo[1] + 1 /\ passedOn'[1] = passedOn[1]
            /\ Open' \/ Bad'
         \/ /\ sentTo'[1] = sentTo[1] /\ passedOn'[1] = passedOn[1] + 1
            /\ passedOn[1] < sentTo[1] /\ Open'
         \/ UNCHANGED <<sentTo[1], passedOn[1]>>
<1>0. 1 \in Dests
  BY SyncAssumption DEF Dests
<1>1. CASE FanoutInsert
  <2>1. CASE dst # 1
    BY <1>1, <2>1 DEF FanoutInsert, TypeOK
  <2>2. CASE dst = 1
    <3>1. sentTo'[1] = sentTo[1] + 1 /\ passedOn' = passedOn /\ pstate' = pstate /\ src = "fanout"
      BY <1>0, <1>1, <2>2 DEF FanoutInsert, TypeOK
    <3>2. CASE closed[1] /\ SourceReturns(FALSE)
      <4>1. pstate[1] # "ok"
        BY <1>0, <3>1, <3>2 DEF FanInv
      <4> QED BY <1>0, <3>1, <4>1 DEF Open, Bad, TypeOK
    <3>3. CASE SourceReturns(TRUE)
      BY <3>1, <3>3 DEF SourceReturns, Bad
    <3>4. CASE NextDest
      <4>1. src' # "done"
        BY <1>0, <2>2, <3>1, <3>4, NextDestEffect
      <4> QED BY <3>1, <4>1 DEF Open
    <3> QED BY <1>1, <2>2, <3>2, <3>3, <3>4 DEF FanoutInsert
  <2> QED BY <2>1, <2>2
<1>2. ASSUME NEW d \in Dests, PipeDeliver(d)
      PROVE  \/ /\ sentTo'[1] = sentTo[1] /\ passedOn'[1] = passedOn[1] + 1
                /\ passedOn[1] < sentTo[1] /\ Open'
             \/ UNCHANGED <<sentTo[1], passedOn[1]>>
  <2>1. sentTo' = sentTo /\ pstate[d] = "run" /\ passedOn[d] < sentTo[d]
    BY <1>2, SyncAssumption DEF PipeDeliver, InPipe, TypeOK
  <2>2. CASE UNCHANGED passedOn
    BY <2>1, <2>2
  <2>3. CASE passedOn' = [passedOn EXCEPT ![d] = passedOn[d] + 1] /\ UNCHANGED pstate
    BY <1>0, <2>1, <2>3 DEF TypeOK, Open
  <2> QED BY <1>2, <2>2, <2>3 DEF PipeDeliver
<1>3. CASE ~FanoutInsert /\ ~(\E d \in Dests : PipeDeliver(d))
  <2>1. UNCHANGED <<sentTo, passedOn>>
    BY <1>3 DEF Next, SourceStep, ReceiveInsert, ReceiveDelete, ReceiveMigrate, ReceiveError,
         Receives, FanoutDirect, SourceEnds, SourceFails, PipeStep, PipeEnds, PipeFails, PipeBreaks,
         DestinationFails, MainStep, Start, Wait, StaleBegin, StaleSend, SummaryBegin,
         SummaryRow, CloseDest, Terminated, vars, pipeVars
  <2> QED BY <2>1
<1> QED BY <1>1, <1>2, <1>3

\* Nothing happens to a path that has an outcome.
LEMMA PathEnded ==
  ASSUME TypeOK, ~Open, [Next]_vars
  PROVE  UNCHANGED <<src, srcErr, sentTo[1], passedOn[1], pstate[1]>>
<1>1. src = "done" /\ pstate[1] # "run" /\ 1 \in Dests
  BY SyncAssumption DEF Open, Dests
<1>2. ASSUME NEW d \in Dests, PipeDeliver(d)
      PROVE  UNCHANGED <<src, srcErr, sentTo[1], passedOn[1], pstate[1]>>
  BY <1>1, <1>2 DEF PipeDeliver, sourceVars, TypeOK
<1>3. ASSUME NEW d \in Dests, PipeEnds(d) \/ PipeFails(d) \/ PipeBreaks(d)
      PROVE  UNCHANGED <<src, srcErr, sentTo[1], passedOn[1], pstate[1]>>
  BY <1>1, <1>3 DEF PipeEnds, PipeFails, PipeBreaks, sourceVars, TypeOK
<1>4. CASE ~(\E d \in Dests : PipeDeliver(d) \/ PipeEnds(d) \/ PipeFails(d) \/ PipeBreaks(d))
  <2>1. UNCHANGED <<src, srcErr, sentTo, passedOn, pstate>>
    BY <1>1, <1>4 DEF Next, SourceStep, ReceiveInsert, ReceiveDelete, ReceiveMigrate, ReceiveError,
         Receives, FanoutInsert, FanoutDirect, SourceEnds, SourceFails, PipeStep,
         DestinationFails, MainStep, Start, Wait, StaleBegin, StaleSend, SummaryBegin,
         SummaryRow, CloseDest, Terminated, vars, sourceVars, pipeVars
  <2> QED BY <2>1
<1> QED BY <1>2, <1>3, <1>4

LEMMA PathStep ==
  ASSUME SyncInv, SyncInv', [Next]_vars
  PROVE  [Path!Next]_(Path!vars)
<1>0. 1 \in Dests /\ passedOn[1] \in Nat /\ sentTo[1] \in Nat
  <2>1. 1 \in Dests
    BY SyncAssumption DEF Dests
  <2> QED BY <2>1, SyncAssumption DEF SyncInv, TypeOK
<1>2. CASE ~Open
  <2>1. UNCHANGED <<src, srcErr, sentTo[1], passedOn[1], pstate[1]>>
    BY <1>2, PathEnded DEF SyncInv
  <2> QED BY <2>1 DEF Path!vars, Open, Bad
<1>3. CASE Open
  <2>0. (~Open' /\ ~Bad') => passedOn'[1] = sentTo'[1]
    BY <1>0 DEF SyncInv, TypeOK, FanInv, Open, Bad
  <2>1. CASE sentTo'[1] = sentTo[1] + 1 /\ passedOn'[1] = passedOn[1] /\ (Open' \/ Bad')
    <3>1. CASE Open'
      BY <1>3, <2>1, <3>1 DEF Path!Next, Path!Offer, Open
    <3>2. CASE ~Open' /\ Bad'
      BY <1>3, <2>1, <3>2 DEF Path!Next, Path!Fail, Open, Bad
    <3> QED BY <2>1, <3>1, <3>2
  <2>2. CASE /\ sentTo'[1] = sentTo[1] /\ passedOn'[1] = passedOn[1] + 1
             /\ passedOn[1] < sentTo[1] /\ Open'
    <3>1. Len(Upto(passedOn[1])) = passedOn[1] /\ Upto(passedOn'[1]) = Append(Upto(passedOn[1]), Len(Upto(passedOn[1])) + 1)
      BY <1>0, <2>2, UptoNext
    <3> QED BY <1>3, <2>2, <3>1 DEF Path!Next, Path!Arrive, Open, Upto
  <2>3. CASE UNCHANGED <<sentTo[1], passedOn[1]>>
    <3>1. CASE Open'
      BY <1>3, <2>3, <3>1 DEF Path!vars, Open
    <3>2. CASE ~Open' /\ Bad'
      BY <1>3, <2>3, <3>2 DEF Path!Next, Path!Fail, Open, Bad
    <3>3. CASE ~Open' /\ ~Bad'
      <4>1. Len(Upto(passedOn[1])) = sentTo[1]
        BY <1>0, <2>0, <2>3, <3>3, UptoNext
      <4> QED BY <1>3, <2>3, <3>3, <4>1 DEF Path!Next, Path!Succeed, Open, Bad, Upto
    <3> QED BY <3>1, <3>2, <3>3
  <2> QED BY <1>3, <2>1, <2>2, <2>3, PathSteps DEF SyncInv
<1> QED BY <1>2, <1>3

(* The counters that stand for the first destination's pipeline behave as the
   record stream that Pipeline is proved to implement: in order, complete when
   the run succeeds, and nothing after the end. *)
THEOREM PathImplementsStream == Spec => PathIsStream
<1>1. SyncInv /\ SyncInv' /\ [Next]_vars => [Path!Next]_(Path!vars)
  BY PathStep
<1> QED BY <1>1, PathInit, SyncInvariant, PTL DEF Spec, PathIsStream, Path!Spec
=============================================================================
