--------------------------- MODULE PipelineProofs ---------------------------
(***************************************************************************)
(* Proofs about Pipeline, for every number of stages, every buffer size    *)
(* and every number of records: the order of the records whatever fails,   *)
(* and, when no transformer is slow, that none is lost silently and that   *)
(* the pipeline implements RecordStream.                                   *)
(***************************************************************************)
EXTENDS Pipeline, Integers, SequenceTheorems, TLAPS

\* Whether a slot holds a record.
Held(r) == IF r = 0 THEN 0 ELSE 1

\* s holds the records that follow record b.
After(s, b) == \A k \in 1..Len(s) : s[k] = b + k

(* The places of one stage: n and o are the two directions of its stream, r the
   receive goroutine's slot, q the loop's. Every record that entered the stage
   has left it or is at one of its places, and the places hold consecutive
   records, the oldest at the exit. *)
Flow(entered, left, q, r, o, n) ==
  /\ entered \in 0..MaxRecords /\ left \in 0..MaxRecords
  /\ q \in Slot /\ r \in Slot /\ o \in Seq(Records) /\ n \in Seq(Records)
  /\ left + Held(q) + Held(r) + Len(o) + Len(n) = entered
  /\ q # 0 => q = left + 1
  /\ r # 0 => r = left + Held(q) + 1
  /\ After(o, left + Held(q) + Held(r))
  /\ After(n, left + Held(q) + Held(r) + Len(o))

StageFlow(i) ==
  /\ Flow(passed[i - 1], passed[i], req[i], recvRec[i], out[i], in[i])
  /\ passed[i - 1] <= passed[0]

(* The feeder is at most one record ahead of the first stage: the record that
   Send's goroutine holds. *)
FeederFlow ==
  /\ sent \in {passed[0], passed[0] + 1}
  /\ feeder = "recv" => sendg = "none" /\ sent = passed[0]
  /\ feeder = "send" => sendg # "none"
  /\ sendg = "blocked" => sent = passed[0] + 1
  /\ sendg = "ok" => sent = passed[0]

Delivery == Len(delivered) = passed[N] /\ InOrder

IdentityStream == Identity => in[1] = <<>> /\ out[1] = <<>>

FlowInv ==
  /\ TypeOK
  /\ FeederFlow
  /\ Delivery
  /\ IdentityStream
  /\ \A i \in Stages : StageFlow(i)

\* Stage i has returned without an error.
DoneOK(i) == loop[i] = "done" /\ ~loopErr[i]

(* A stage that returns without an error leaves nothing behind it: neither in
   the stages before it nor with the feeder. *)
StageDrained(i) ==
  /\ isClosed[i] => i = 1
  /\ eof[i] => i > 1 /\ DoneOK(i - 1)
  /\ recvErr[i] = "eof" => eof[i] /\ in[i] = <<>> /\ out[i] = <<>> /\ recvRec[i] = 0
  /\ loopErr[i] => loop[i] = "done"
  /\ DoneOK(i) => isClosed[1] /\ sendg # "blocked" /\ passed[i] = passed[0]

(* The pipeline is closed by the feeder's return, or by an error of the last
   stage; a feeder that returned without an error has sent everything, or the
   last stage failed. *)
FeederDrained ==
  /\ isClosed[1] => feeder = "done" \/ loopErr[N]
  /\ feeder = "done" /\ ~feederErr => sent = passed[0] \/ loopErr[N]

DrainInv == FeederDrained /\ \A i \in Stages : StageDrained(i)

-----------------------------------------------------------------------------
(* Sequences of consecutive records. *)

(* A stream that gets the next record still holds consecutive records. *)
LEMMA AppendAfter ==
  ASSUME NEW s \in Seq(Records), NEW b \in Nat, After(s, b),
         NEW r \in Records, r = b + Len(s) + 1
  PROVE  /\ Append(s, r) \in Seq(Records)
         /\ Len(Append(s, r)) = Len(s) + 1
         /\ After(Append(s, r), b)
BY AppendProperties DEF After, Records

(* So does one whose first record is taken; that record is the next one. *)
LEMMA TailAfter ==
  ASSUME NEW s \in Seq(Records), NEW b \in Nat, After(s, b), s # <<>>
  PROVE  /\ Head(s) = b + 1 /\ Head(s) \in Records
         /\ Tail(s) \in Seq(Records)
         /\ Len(Tail(s)) = Len(s) - 1
         /\ After(Tail(s), b + 1)
<1>1. Len(s) \in Nat /\ Len(s) > 0
  BY EmptySeq, LenProperties
<1>2. Head(s) = s[1] /\ Head(s) \in Records /\ Tail(s) \in Seq(Records)
      /\ Len(Tail(s)) = Len(s) - 1 /\ \A k \in 1..Len(Tail(s)) : Tail(s)[k] = s[k + 1]
  BY HeadTailProperties
<1> QED
  BY <1>1, <1>2 DEF After

(* The moves of a record through a stage: it enters the stream, ... *)
LEMMA FlowEnter ==
  ASSUME NEW e, NEW l, NEW q, NEW r, NEW o, NEW n, Flow(e, l, q, r, o, n), e < MaxRecords
  PROVE  Flow(e + 1, l, q, r, o, Append(n, e + 1))
<1> DEFINE b == l + Held(q) + Held(r) + Len(o)
<1>1. b \in Nat /\ Len(n) \in Nat /\ e = b + Len(n) /\ e + 1 \in Records
      /\ n \in Seq(Records) /\ After(n, b) /\ e + 1 = b + Len(n) + 1
  BY PipelineAssumption, LenProperties DEF Flow, Held, Records
<1>2. Append(n, e + 1) \in Seq(Records) /\ Len(Append(n, e + 1)) = Len(n) + 1
      /\ After(Append(n, e + 1), b)
  <2> HIDE DEF b
  <2> QED BY <1>1, AppendAfter
<1> QED
  BY <1>1, <1>2, PipelineAssumption DEF Flow

(* ... is transformed, ... *)
LEMMA FlowTransform ==
  ASSUME NEW e, NEW l, NEW q, NEW r, NEW o, NEW n, Flow(e, l, q, r, o, n), n # <<>>
  PROVE  Flow(e, l, q, r, Append(o, Head(n)), Tail(n))
<1> DEFINE b == l + Held(q) + Held(r)
<1>1. b \in Nat /\ Len(o) \in Nat /\ Len(n) \in Nat /\ b + Len(o) \in Nat
      /\ n \in Seq(Records) /\ o \in Seq(Records) /\ After(o, b) /\ After(n, b + Len(o))
  BY LenProperties DEF Flow, Held
<1> HIDE DEF b
<1>2. /\ Head(n) = b + Len(o) + 1 /\ Head(n) \in Records
      /\ Tail(n) \in Seq(Records) /\ Len(Tail(n)) = Len(n) - 1
      /\ After(Tail(n), b + Len(o) + 1)
  BY <1>1, TailAfter
<1>3. /\ Append(o, Head(n)) \in Seq(Records)
      /\ Len(Append(o, Head(n))) = Len(o) + 1
      /\ After(Append(o, Head(n)), b)
  BY <1>1, <1>2, AppendAfter
<1>4. b + Len(Append(o, Head(n))) = b + Len(o) + 1
      /\ b + (Len(o) + 1) + (Len(n) - 1) = b + Len(o) + Len(n)
  BY <1>1, <1>3
<1>5. After(Tail(n), b + Len(Append(o, Head(n))))
  BY <1>2, <1>4
<1> QED
  BY <1>2, <1>3, <1>4, <1>5 DEF Flow, b

(* ... is received, ... *)
LEMMA FlowReceive ==
  ASSUME NEW e, NEW l, NEW q, NEW o, NEW n, Flow(e, l, q, 0, o, n), o # <<>>
  PROVE  Flow(e, l, q, Head(o), Tail(o), n) /\ Head(o) # 0
<1> DEFINE b == l + Held(q)
<1>1. b \in Nat /\ Len(o) \in Nat /\ Len(n) \in Nat
      /\ o \in Seq(Records) /\ After(o, b) /\ After(n, b + Len(o))
  BY LenProperties DEF Flow, Held
<1>2. b + Len(o) + Len(n) = e
  BY <1>1 DEF Flow, Held
<1> HIDE DEF b
<1>3. /\ Head(o) = b + 1 /\ Head(o) \in Records
      /\ Tail(o) \in Seq(Records) /\ Len(Tail(o)) = Len(o) - 1
      /\ After(Tail(o), b + 1)
  BY <1>1, TailAfter
<1>4. /\ Head(o) \in Slot /\ Head(o) # 0 /\ Held(Head(o)) = 1
      /\ b + 1 + Len(Tail(o)) = b + Len(o)
  BY <1>1, <1>3 DEF Slot, Records, Held
<1> QED
  BY <1>1, <1>2, <1>3, <1>4 DEF Flow, b

(* ... is selected by the loop, ... *)
LEMMA FlowSelect ==
  ASSUME NEW e, NEW l, NEW r, NEW o, NEW n, Flow(e, l, 0, r, o, n)
  PROVE  Flow(e, l, r, 0, o, n)
BY LenProperties, PipelineAssumption DEF Flow, Held, Slot

(* ... and leaves the stage. *)
LEMMA FlowLeave ==
  ASSUME NEW e, NEW l, NEW q, NEW r, NEW o, NEW n, Flow(e, l, q, r, o, n), q # 0
  PROVE  Flow(e, l + 1, 0, r, o, n) /\ q = l + 1 /\ l + 1 <= e
BY LenProperties, PipelineAssumption DEF Flow, Held, Slot

(* The identity client has no stream: the record enters in the receive slot. *)
LEMMA FlowIdentity ==
  ASSUME NEW e, NEW l, NEW q, Flow(e, l, q, 0, <<>>, <<>>), e < MaxRecords
  PROVE  Flow(e + 1, l, q, e + 1, <<>>, <<>>)
BY EmptySeq, PipelineAssumption DEF Flow, Held, Slot, After

-----------------------------------------------------------------------------
(* FlowInv is an inductive invariant of Spec. *)

LEMMA FlowInit == Init => FlowInv
<1> SUFFICES ASSUME Init PROVE FlowInv
  OBVIOUS
<1> USE PipelineAssumption
<1>1. <<>> \in Seq(Records) /\ Len(<<>>) = 0
  BY EmptySeq
<1>2. TypeOK
  <2>1. /\ in \in [Stages -> Seq(Records)] /\ out \in [Stages -> Seq(Records)]
        /\ delivered \in Seq(Records)
    BY <1>1 DEF Init
  <2>2. /\ recvRec \in [Stages -> Slot] /\ req \in [Stages -> Slot]
        /\ passed \in [0..N -> 0..MaxRecords] /\ sent \in 0..MaxRecords
    BY DEF Init, Slot
  <2> QED
    BY <2>1, <2>2 DEF Init, TypeOK
<1>3. FeederFlow /\ Delivery /\ IdentityStream
  BY <1>1 DEF Init, FeederFlow, Delivery, InOrder, IdentityStream, Stages
<1>4. ASSUME NEW i \in Stages PROVE StageFlow(i)
  <2>1. /\ passed[i - 1] = 0 /\ passed[i] = 0 /\ passed[0] = 0
        /\ req[i] = 0 /\ recvRec[i] = 0 /\ out[i] = <<>> /\ in[i] = <<>>
    BY DEF Init, Stages
  <2> QED
    BY <1>1, <2>1 DEF StageFlow, Flow, Held, After, Slot
<1> QED
  BY <1>2, <1>3, <1>4 DEF FlowInv

(* What the steps below use of the types. *)
LEMMA StageTypes ==
  ASSUME TypeOK, NEW i \in Stages
  PROVE  /\ i \in Nat /\ i > 0 /\ i \in 0..N /\ i - 1 \in 0..N /\ 0 \in 0..N /\ N \in 0..N
         /\ 1 \in Stages /\ N \in Stages
         /\ passed[i] \in 0..MaxRecords /\ passed[i - 1] \in 0..MaxRecords
         /\ passed[0] \in 0..MaxRecords
BY PipelineAssumption DEF TypeOK, Stages

(* A stage keeps its flow when its places stay as they are, also while records
   enter the first stage. *)
LEMMA OtherFlow ==
  ASSUME TypeOK, NEW i \in Stages, StageFlow(i),
         in'[i] = in[i], out'[i] = out[i], req'[i] = req[i], recvRec'[i] = recvRec[i],
         passed'[i] = passed[i], passed'[i - 1] = passed[i - 1],
         passed'[0] \in {passed[0], passed[0] + 1}
  PROVE  StageFlow(i)'
<1>1. Flow(passed'[i - 1], passed'[i], req'[i], recvRec'[i], out'[i], in'[i])
  BY DEF StageFlow
<1>2. passed'[i - 1] <= passed'[0]
  BY StageTypes DEF StageFlow
<1> QED
  BY <1>1, <1>2 DEF StageFlow

(* The record that Send holds enters the first stream. *)
LEMMA SendGoroutineFlow == FlowInv /\ SendGoroutine => FlowInv'
<1> SUFFICES ASSUME FlowInv, SendGoroutine PROVE FlowInv'
  OBVIOUS
<1>1. TypeOK /\ FeederFlow /\ Delivery /\ IdentityStream /\ \A i \in Stages : StageFlow(i)
  BY DEF FlowInv
<1>2. /\ sent = passed[0] + 1 /\ passed[0] < MaxRecords /\ 1 \in Stages /\ 0 \in 0..N
      /\ passed[0] \in Nat
  BY <1>1, PipelineAssumption DEF SendGoroutine, FeederFlow, TypeOK, Stages
<1>a. CASE UNCHANGED <<in, passed>> /\ sendg' = "err"
  <2>1. TypeOK' /\ FeederFlow' /\ Delivery' /\ IdentityStream'
    BY <1>a, <1>1 DEF SendGoroutine, TypeOK, FeederFlow, Delivery, InOrder,
         IdentityStream, feederVars, recvVars, loopVars, destVars
  <2>2. \A i \in Stages : StageFlow(i)'
    BY <1>a, <1>1 DEF SendGoroutine, recvVars, loopVars, StageFlow
  <2> QED BY <2>1, <2>2 DEF FlowInv
<1>b. CASE /\ in' = [in EXCEPT ![1] = Append(@, sent)]
           /\ passed' = [passed EXCEPT ![0] = sent]
           /\ sendg' = "ok"
  <2>1. /\ passed'[0] = sent /\ in'[1] = Append(in[1], sent)
        /\ UNCHANGED <<out, req, recvRec>>
    BY <1>b, <1>1, <1>2 DEF SendGoroutine, TypeOK, recvVars, loopVars
  <2>2. ASSUME NEW i \in Stages PROVE StageFlow(i)'
    <3>1. i \in 0..N /\ i - 1 \in 0..N /\ i # 0 /\ (i # 1 => i - 1 # 0)
      BY PipelineAssumption DEF Stages
    <3>2. passed'[i] = passed[i] /\ (i # 1 => passed'[i - 1] = passed[i - 1] /\ in'[i] = in[i])
      BY <1>b, <1>1, <3>1 DEF TypeOK
    <3>3. CASE i = 1
      <4>1. Flow(passed[0], passed[1], req[1], recvRec[1], out[1], in[1])
        BY <1>1, <1>2 DEF StageFlow
      <4>2. Flow(passed[0] + 1, passed[1], req[1], recvRec[1], out[1], Append(in[1], passed[0] + 1))
        BY <4>1, <1>2, FlowEnter
      <4>3. i - 1 = 0
        BY <3>3
      <4>4. Flow(passed'[i - 1], passed'[i], req'[i], recvRec'[i], out'[i], in'[i])
        BY <2>1, <1>2, <3>2, <3>3, <4>2, <4>3
      <4>5. passed'[i - 1] <= passed'[0]
        BY <1>2, <2>1, <4>3
      <4> QED
        BY <4>4, <4>5 DEF StageFlow
    <3>4. CASE i # 1
      BY <1>1, <1>2, <2>1, <3>2, <3>4, OtherFlow
    <3> QED BY <3>3, <3>4
  <2>3. TypeOK'
    <3>1. in'[1] \in Seq(Records)
      BY <2>2, <1>2 DEF StageFlow, Flow
    <3> QED
      BY <1>b, <1>1, <1>2, <3>1 DEF TypeOK, SendGoroutine, feederVars, recvVars, loopVars, destVars
  <2>4. FeederFlow'
    BY <1>b, <1>1, <1>2, <2>1 DEF FeederFlow, SendGoroutine, feederVars
  <2>5. Delivery' /\ IdentityStream'
    BY <1>b, <1>1, PipelineAssumption DEF TypeOK, Delivery, InOrder, IdentityStream, SendGoroutine, destVars
  <2> QED BY <2>2, <2>3, <2>4, <2>5 DEF FlowInv
<1> QED
  BY <1>a, <1>b DEF SendGoroutine

(* A record moves inside one stage, from place to place. *)
LEMMA MoveFlow ==
  ASSUME FlowInv, NEW i \in Stages,
         Flow(passed[i - 1], passed[i], req'[i], recvRec'[i], out'[i], in'[i]),
         \A j \in Stages \ {i} : /\ in'[j] = in[j] /\ out'[j] = out[j]
                                 /\ req'[j] = req[j] /\ recvRec'[j] = recvRec[j],
         UNCHANGED <<sent, sendg, feeder, delivered, passed>>,
         IdentityStream', TypeOK'
  PROVE  FlowInv'
<1>1. FeederFlow' /\ Delivery'
  BY DEF FlowInv, FeederFlow, Delivery, InOrder
<1>2. ASSUME NEW j \in Stages PROVE StageFlow(j)'
  <2>1. StageFlow(j) /\ TypeOK
    BY DEF FlowInv
  <2>2. CASE j = i
    BY <2>1, <2>2 DEF StageFlow
  <2>3. CASE j # i
    BY <2>1, <2>3, OtherFlow
  <2> QED BY <2>2, <2>3
<1> QED
  BY <1>1, <1>2 DEF FlowInv

(* A transformer answers a record. *)
LEMMA TransformFlow == ASSUME NEW i \in Stages, FlowInv, Transform(i) PROVE FlowInv'
<1>1. TypeOK /\ StageFlow(i)
  BY DEF FlowInv
<1>2. /\ in'[i] = Tail(in[i]) /\ out'[i] = Append(out[i], Head(in[i]))
      /\ \A j \in Stages \ {i} : in'[j] = in[j] /\ out'[j] = out[j]
      /\ UNCHANGED <<req, recvRec, sent, sendg, feeder, delivered, passed>>
  BY <1>1 DEF Transform, TypeOK, feederVars, recvVars, loopVars, destVars
<1>3. Flow(passed[i - 1], passed[i], req'[i], recvRec'[i], out'[i], in'[i])
  <2>1. Flow(passed[i - 1], passed[i], req[i], recvRec[i], out[i], in[i]) /\ in[i] # <<>>
    BY <1>1 DEF StageFlow, Transform
  <2> QED BY <1>2, <2>1, FlowTransform
<1>4. TypeOK'
  <2>1. in'[i] \in Seq(Records) /\ out'[i] \in Seq(Records)
    BY <1>3 DEF Flow
  <2>2. in' \in [Stages -> Seq(Records)] /\ out' \in [Stages -> Seq(Records)]
    BY <1>1, <2>1 DEF TypeOK, Transform
  <2> QED
    BY <1>1, <2>2 DEF TypeOK, Transform, feederVars, recvVars, loopVars, destVars
<1>5. IdentityStream'
  BY DEF Transform, IdentityStream
<1> QED
  BY <1>2, <1>3, <1>4, <1>5, MoveFlow

(* The loop takes the record of the receive goroutine. *)
LEMMA SelectRecordFlow == ASSUME NEW i \in Stages, FlowInv, SelectRecord(i) PROVE FlowInv'
<1>1. TypeOK /\ StageFlow(i) /\ req[i] = 0
  BY DEF FlowInv, TypeOK, SelectRecord
<1>2. /\ req'[i] = recvRec[i] /\ recvRec'[i] = 0
      /\ \A j \in Stages \ {i} : req'[j] = req[j] /\ recvRec'[j] = recvRec[j]
      /\ UNCHANGED <<in, out, sent, sendg, feeder, delivered, passed>>
  BY <1>1 DEF SelectRecord, TypeOK, feederVars, streamVars, destVars
<1>3. Flow(passed[i - 1], passed[i], req'[i], recvRec'[i], out'[i], in'[i])
  BY <1>1, <1>2, FlowSelect DEF StageFlow
<1>4. TypeOK'
  <2>1. req' \in [Stages -> Slot] /\ recvRec' \in [Stages -> Slot]
    BY <1>1, <1>2, <1>3 DEF TypeOK, SelectRecord, Flow
  <2>2. \A j \in Stages : /\ loop'[j] = "send" => req'[j] # 0
                          /\ loop'[j] = "select" => req'[j] = 0
    BY <1>1 DEF TypeOK, SelectRecord
  <2> QED
    BY <1>1, <2>1, <2>2 DEF TypeOK, SelectRecord, feederVars, streamVars, destVars
<1>5. IdentityStream'
  BY <1>2 DEF FlowInv, IdentityStream
<1> QED
  BY <1>2, <1>3, <1>4, <1>5, MoveFlow

(* The receive goroutine gets a record from the stream, or the identity client
   the one that Send holds. *)
LEMMA ReceiveFlow == ASSUME NEW i \in Stages, FlowInv, Receive(i) PROVE FlowInv'
<1>1. TypeOK /\ FeederFlow /\ Delivery /\ IdentityStream /\ StageFlow(i)
  BY DEF FlowInv
<1>a. CASE /\ ~Identity /\ out[i] # <<>>
           /\ recvRec' = [recvRec EXCEPT ![i] = Head(out[i])]
           /\ out' = [out EXCEPT ![i] = Tail(@)]
           /\ UNCHANGED <<sendg, passed>>
  <2>1. /\ out'[i] = Tail(out[i]) /\ recvRec'[i] = Head(out[i])
        /\ \A j \in Stages \ {i} : out'[j] = out[j] /\ recvRec'[j] = recvRec[j]
        /\ UNCHANGED <<req, in, sent, sendg, feeder, delivered, passed>>
    BY <1>1, <1>a DEF Receive, TypeOK, feederVars, loopVars, destVars
  <2>2. Flow(passed[i - 1], passed[i], req'[i], recvRec'[i], out'[i], in'[i])
    <3>1. Flow(passed[i - 1], passed[i], req[i], 0, out[i], in[i])
      BY <1>1 DEF StageFlow, Receive
    <3> QED BY <1>a, <2>1, <3>1, FlowReceive
  <2>3. TypeOK'
    <3>1. out'[i] \in Seq(Records) /\ recvRec'[i] \in Slot
      BY <2>2 DEF Flow
    <3>2. out' \in [Stages -> Seq(Records)] /\ recvRec' \in [Stages -> Slot]
      BY <1>1, <1>a, <3>1 DEF TypeOK
    <3> QED
      BY <1>1, <1>a, <3>2 DEF TypeOK, Receive, feederVars, loopVars, destVars
  <2>4. IdentityStream'
    BY <1>a DEF IdentityStream
  <2> QED
    BY <2>1, <2>2, <2>3, <2>4, MoveFlow
<1>b. CASE /\ Identity /\ sendg = "blocked"
           /\ recvRec' = [recvRec EXCEPT ![i] = sent]
           /\ passed' = [passed EXCEPT ![0] = sent]
           /\ sendg' = "ok"
           /\ UNCHANGED out
  <2>1. /\ i = 1 /\ Stages = {1} /\ N = 1 /\ in[1] = <<>> /\ out[1] = <<>>
    BY <1>1, <1>b, PipelineAssumption DEF Stages, IdentityStream
  <2>2. /\ sent = passed[0] + 1 /\ passed[0] < MaxRecords /\ passed[0] \in Nat
    BY <1>1, <1>b, PipelineAssumption DEF FeederFlow, TypeOK
  <2>3. /\ recvRec'[1] = sent /\ passed'[0] = sent /\ passed'[1] = passed[1]
        /\ UNCHANGED <<req, in, out, sent, feeder, delivered>>
    BY <1>1, <1>b, <2>1 DEF Receive, TypeOK, feederVars, loopVars, destVars
  <2>4. Flow(passed'[0], passed'[1], req'[1], recvRec'[1], out'[1], in'[1])
    <3>1. Flow(passed[0], passed[1], req[1], 0, <<>>, <<>>)
      BY <1>1, <2>1 DEF StageFlow, Receive
    <3> QED BY <2>1, <2>2, <2>3, <3>1, FlowIdentity
  <2>5. \A j \in Stages : StageFlow(j)'
    <3>1. passed'[0] <= passed'[0]
      BY <2>2, <2>3
    <3>2. Flow(passed'[1 - 1], passed'[1], req'[1], recvRec'[1], out'[1], in'[1])
      BY <2>4
    <3>3. passed'[1 - 1] <= passed'[0]
      BY <3>1
    <3>4. StageFlow(1)'
      BY <3>2, <3>3 DEF StageFlow
    <3> QED BY <2>1, <3>4
  <2>6. TypeOK'
    <3>1. recvRec' \in [Stages -> Slot] /\ passed' \in [0..N -> 0..MaxRecords]
      BY <1>1, <1>b, <2>1, <2>2 DEF TypeOK, Slot
    <3> QED
      BY <1>1, <1>b, <3>1 DEF TypeOK, Receive, feederVars, loopVars, destVars
  <2>7. FeederFlow'
    BY <1>1, <1>b, <2>2, <2>3 DEF FeederFlow
  <2>8. Delivery' /\ IdentityStream'
    BY <1>1, <2>1, <2>3 DEF Delivery, InOrder, IdentityStream
  <2> QED
    BY <2>5, <2>6, <2>7, <2>8 DEF FlowInv
<1> QED
  BY <1>a, <1>b DEF Receive

(* A step that moves no record, and keeps the types and the feeder's part. *)
LEMMA StillFlow ==
  ASSUME FlowInv, UNCHANGED <<in, out, req, recvRec, passed, delivered>>, TypeOK', FeederFlow'
  PROVE  FlowInv'
<1>1. Delivery' /\ IdentityStream'
  BY DEF FlowInv, Delivery, InOrder, IdentityStream
<1>2. \A i \in Stages : StageFlow(i)'
  BY DEF FlowInv, StageFlow
<1> QED
  BY <1>1, <1>2 DEF FlowInv

(* What leaves a stage: the next record, while the stage has not passed on all. *)
LEMMA LeaveFlow ==
  ASSUME FlowInv, NEW i \in Stages, loop[i] = "send"
  PROVE  /\ req[i] = passed[i] + 1 /\ passed[i] \in Nat /\ passed[i] < MaxRecords
         /\ passed[i] + 1 <= passed[i - 1] /\ passed[i] + 1 <= passed[0]
         /\ Flow(passed[i - 1], passed[i] + 1, 0, recvRec[i], out[i], in[i])
<1>1. TypeOK /\ StageFlow(i) /\ req[i] # 0
  BY DEF FlowInv, TypeOK
<1>2. Flow(passed[i - 1], passed[i], req[i], recvRec[i], out[i], in[i])
  BY <1>1 DEF StageFlow
<1>3. /\ Flow(passed[i - 1], passed[i] + 1, 0, recvRec[i], out[i], in[i])
      /\ req[i] = passed[i] + 1 /\ passed[i] + 1 <= passed[i - 1]
  BY <1>1, <1>2, FlowLeave
<1>4. /\ passed[i] \in 0..MaxRecords /\ passed[i - 1] \in 0..MaxRecords
      /\ passed[0] \in 0..MaxRecords /\ passed[i - 1] <= passed[0]
  BY <1>1, StageTypes DEF StageFlow
<1> QED
  BY <1>3, <1>4, PipelineAssumption

(* A record goes from a stage to the next one. *)
LEMMA ForwardFlow ==
  ASSUME NEW i \in Stages, FlowInv, Forward(i)
  PROVE  FlowInv'
<1>1. TypeOK /\ FeederFlow /\ Delivery /\ IdentityStream /\ \A j \in Stages : StageFlow(j)
  BY DEF FlowInv
<1>2. i \in Nat /\ i > 0 /\ i < N /\ i + 1 \in Stages /\ N \in Nat /\ i \in 0..N
  BY PipelineAssumption DEF Forward, Stages
<1>a. CASE /\ in' = [in EXCEPT ![i + 1] = Append(@, req[i])]
           /\ passed' = [passed EXCEPT ![i] = @ + 1]
           /\ loop' = [loop EXCEPT ![i] = "select"]
           /\ req' = [req EXCEPT ![i] = 0]
           /\ UNCHANGED loopErr
  <2>1. /\ req[i] = passed[i] + 1 /\ passed[i] \in Nat /\ passed[i] < MaxRecords
        /\ passed[i] + 1 <= passed[0]
        /\ Flow(passed[i - 1], passed[i] + 1, 0, recvRec[i], out[i], in[i])
    BY LeaveFlow DEF Forward
  <2>2. /\ passed'[i] = passed[i] + 1 /\ req'[i] = 0
        /\ in'[i + 1] = Append(in[i + 1], req[i])
        /\ \A j \in 0..N : j # i => passed'[j] = passed[j]
        /\ \A j \in Stages : j # i => req'[j] = req[j]
        /\ \A j \in Stages : j # i + 1 => in'[j] = in[j]
        /\ UNCHANGED <<out, recvRec, feeder, sent, sendg, delivered>>
    BY <1>1, <1>2, <1>a DEF Forward, TypeOK, feederVars, recvVars, destVars
  <2>3. /\ passed'[0] = passed[0] /\ passed[0] \in Nat /\ passed'[N] = passed[N]
    <3>1. 0 \in 0..N /\ N \in 0..N /\ 0 # i /\ N # i
      BY <1>2
    <3>2. passed[0] \in Nat
      BY <1>1, <3>1, PipelineAssumption DEF TypeOK
    <3> QED BY <2>2, <3>1, <3>2
  <2>4. ASSUME NEW j \in Stages PROVE StageFlow(j)'
    <3>1. j \in Nat /\ j > 0 /\ j \in 0..N /\ j - 1 \in 0..N
      BY <1>1, StageTypes
    <3>2. CASE j = i
      <4>1. /\ i - 1 # i /\ i # i + 1 /\ passed'[i - 1] = passed[i - 1] /\ in'[i] = in[i]
        BY <1>2, <2>2, <3>1, <3>2
      <4>2. Flow(passed'[i - 1], passed'[i], req'[i], recvRec'[i], out'[i], in'[i])
        BY <2>1, <2>2, <4>1
      <4>3. passed'[i - 1] <= passed'[0]
        BY <1>1, <2>3, <4>1 DEF StageFlow
      <4> QED BY <3>2, <4>2, <4>3 DEF StageFlow
    <3>3. CASE j = i + 1
      <4>1. /\ j - 1 = i /\ j # i /\ passed'[j] = passed[j] /\ req'[j] = req[j]
        BY <1>2, <2>2, <3>1, <3>3
      <4>2. Flow(passed[i], passed[j], req[j], recvRec[j], out[j], in[j])
        BY <1>1, <4>1 DEF StageFlow
      <4>3. Flow(passed[i] + 1, passed[j], req[j], recvRec[j], out[j], Append(in[j], passed[i] + 1))
        BY <2>1, <4>2, FlowEnter
      <4>4. Flow(passed'[j - 1], passed'[j], req'[j], recvRec'[j], out'[j], in'[j])
        BY <2>1, <2>2, <3>3, <4>1, <4>3
      <4>5. passed'[j - 1] <= passed'[0]
        BY <2>1, <2>2, <2>3, <4>1
      <4> QED BY <4>4, <4>5 DEF StageFlow
    <3>4. CASE j # i /\ j # i + 1
      <4>1. j - 1 # i
        BY <1>2, <3>1, <3>4
      <4> QED
        BY <1>1, <2>2, <2>3, <3>1, <3>4, <4>1, OtherFlow
    <3> QED BY <3>2, <3>3, <3>4
  <2>5. TypeOK'
    <3>1. in'[i + 1] \in Seq(Records)
      BY <1>2, <2>4 DEF StageFlow, Flow
    <3>2. passed[i] + 1 \in 0..MaxRecords /\ 0 \in Slot
      BY <2>1, PipelineAssumption DEF Slot
    <3>3. /\ in' \in [Stages -> Seq(Records)]
          /\ passed' \in [0..N -> 0..MaxRecords]
          /\ req' \in [Stages -> Slot]
          /\ loop' \in [Stages -> {"select", "send", "done"}]
      BY <1>1, <1>2, <1>a, <2>2, <3>1, <3>2 DEF TypeOK
    <3>4. \A j \in Stages : /\ loop'[j] = "send" => req'[j] # 0
                            /\ loop'[j] = "select" => req'[j] = 0
      BY <1>1, <1>a DEF TypeOK
    <3> QED
      BY <1>1, <1>a, <3>3, <3>4 DEF TypeOK, Forward, feederVars, recvVars, destVars
  <2>6. FeederFlow' /\ Delivery'
    BY <1>1, <2>2, <2>3 DEF FeederFlow, Delivery, InOrder
  <2>7. IdentityStream'
    BY <1>2, PipelineAssumption DEF IdentityStream
  <2> QED BY <2>4, <2>5, <2>6, <2>7 DEF FlowInv
<1>b. CASE LoopReturns(i, TRUE) /\ UNCHANGED <<in, passed, req>>
  <2>1. TypeOK'
    BY <1>1, <1>b DEF TypeOK, Forward, LoopReturns, feederVars, recvVars, destVars
  <2>2. FeederFlow'
    BY <1>1, <1>b DEF Forward, FeederFlow, feederVars
  <2> QED
    BY <1>b, <2>1, <2>2, StillFlow DEF Forward, recvVars, destVars
<1> QED
  BY <1>a, <1>b DEF Forward

(* A record leaves the last stage: it is delivered. *)
LEMMA OutputFlow == FlowInv /\ Output => FlowInv'
<1> SUFFICES ASSUME FlowInv, Output PROVE FlowInv'
  OBVIOUS
<1>1. TypeOK /\ FeederFlow /\ Delivery /\ IdentityStream /\ \A j \in Stages : StageFlow(j)
  BY DEF FlowInv
<1>2. N \in Nat /\ N > 0 /\ N \in Stages /\ N \in 0..N
  BY PipelineAssumption DEF Stages
<1>a. CASE /\ delivered' = Append(delivered, req[N])
           /\ passed' = [passed EXCEPT ![N] = @ + 1]
           /\ loop' = [loop EXCEPT ![N] = "select"]
           /\ req' = [req EXCEPT ![N] = 0]
           /\ UNCHANGED <<loopErr, isClosed>>
  <2>1. /\ req[N] = passed[N] + 1 /\ passed[N] \in Nat /\ passed[N] < MaxRecords
        /\ Flow(passed[N - 1], passed[N] + 1, 0, recvRec[N], out[N], in[N])
    BY <1>2, LeaveFlow DEF Output
  <2>2. /\ passed'[N] = passed[N] + 1 /\ req'[N] = 0
        /\ \A j \in 0..N : j # N => passed'[j] = passed[j]
        /\ \A j \in Stages : j # N => req'[j] = req[j]
        /\ UNCHANGED <<in, out, recvRec, feeder, sent, sendg>>
    BY <1>1, <1>2, <1>a DEF Output, TypeOK, feederVars, streamVars, recvVars
  <2>3. passed'[0] = passed[0] /\ passed[0] \in Nat
    BY <1>1, <1>2, <2>2, StageTypes
  <2>4. ASSUME NEW j \in Stages PROVE StageFlow(j)'
    <3>1. j \in Nat /\ j > 0 /\ j \in 0..N /\ j - 1 \in 0..N /\ j - 1 # N
      BY <1>1, StageTypes
    <3>2. CASE j = N
      <4>1. passed'[N - 1] = passed[N - 1]
        BY <2>2, <3>1, <3>2
      <4>2. Flow(passed'[N - 1], passed'[N], req'[N], recvRec'[N], out'[N], in'[N])
        BY <2>1, <2>2, <4>1
      <4>3. passed'[N - 1] <= passed'[0]
        BY <1>1, <1>2, <2>3, <4>1 DEF StageFlow
      <4> QED BY <3>2, <4>2, <4>3 DEF StageFlow
    <3>3. CASE j # N
      BY <1>1, <2>2, <2>3, <3>1, <3>3, OtherFlow
    <3> QED BY <3>2, <3>3
  <2>5. /\ delivered' \in Seq(Records) /\ Len(delivered') = passed'[N]
        /\ After(delivered', 0)
    <3>1. /\ delivered \in Seq(Records) /\ Len(delivered) = passed[N]
          /\ After(delivered, 0) /\ req[N] \in Records
      BY <1>1, <2>1, PipelineAssumption DEF TypeOK, Delivery, InOrder, After, Records
    <3>2. req[N] = 0 + Len(delivered) + 1
      BY <2>1, <3>1
    <3> QED
      BY <1>a, <2>1, <2>2, <3>1, <3>2, AppendAfter
  <2>6. TypeOK'
    <3>1. passed[N] + 1 \in 0..MaxRecords /\ 0 \in Slot
      BY <2>1, PipelineAssumption DEF Slot
    <3>2. /\ passed' \in [0..N -> 0..MaxRecords]
          /\ req' \in [Stages -> Slot]
          /\ loop' \in [Stages -> {"select", "send", "done"}]
      BY <1>1, <1>2, <1>a, <3>1 DEF TypeOK
    <3>3. \A j \in Stages : /\ loop'[j] = "send" => req'[j] # 0
                            /\ loop'[j] = "select" => req'[j] = 0
      BY <1>1, <1>a DEF TypeOK
    <3> QED
      BY <1>1, <1>a, <2>5, <3>2, <3>3 DEF TypeOK, Output, feederVars, streamVars, recvVars
  <2>7. Delivery'
    BY <2>5 DEF Delivery, InOrder, After
  <2>8. FeederFlow' /\ IdentityStream'
    BY <1>1, <2>2, <2>3 DEF FeederFlow, IdentityStream
  <2> QED BY <2>4, <2>6, <2>7, <2>8 DEF FlowInv
<1>b. CASE Close /\ LoopReturns(N, TRUE) /\ UNCHANGED <<delivered, passed, req>>
  <2>1. TypeOK'
    BY <1>1, <1>b DEF TypeOK, Output, Close, LoopReturns, feederVars, streamVars, recvVars
  <2>2. FeederFlow'
    BY <1>1, <1>b DEF Output, FeederFlow, feederVars
  <2> QED
    BY <1>b, <2>1, <2>2, StillFlow DEF Output, streamVars, recvVars
<1> QED
  BY <1>a, <1>b DEF Output

LEMMA FlowNext == FlowInv /\ [Next]_vars => FlowInv'
<1> SUFFICES ASSUME FlowInv, [Next]_vars PROVE FlowInv'
  OBVIOUS
<1>1. TypeOK /\ FeederFlow
  BY DEF FlowInv
<1> USE DEF feederVars, streamVars, recvVars, loopVars, destVars
<1>2. CASE FeedRecord
  <2>1. passed[0] \in Nat
    BY <1>1, PipelineAssumption, StageTypes DEF Stages, TypeOK
  <2>2. TypeOK'
    <3>1. sent' \in 0..MaxRecords
      BY <1>1, <1>2, PipelineAssumption DEF FeedRecord, TypeOK
    <3>2. isClosed' \in [Stages -> BOOLEAN]
      BY <1>1, <1>2 DEF FeedRecord, FeederReturns, Close, TypeOK
    <3> QED
      BY <1>1, <1>2, <3>1, <3>2 DEF FeedRecord, FeederReturns, TypeOK
  <2>3. FeederFlow'
    BY <1>1, <1>2, <2>1 DEF FeedRecord, FeederReturns, FeederFlow
  <2> QED BY <1>2, <2>2, <2>3, StillFlow DEF FeedRecord
<1>3. CASE SendReturns
  <2>1. TypeOK'
    BY <1>1, <1>3 DEF SendReturns, FeederReturns, Close, TypeOK
  <2>2. FeederFlow'
    BY <1>1, <1>3 DEF SendReturns, FeederReturns, FeederFlow
  <2> QED BY <1>3, <2>1, <2>2, StillFlow DEF SendReturns
<1>4. CASE SendTick
  <2>1. TypeOK'
    BY <1>1, <1>4 DEF SendTick, FeederReturns, Close, TypeOK
  <2>2. FeederFlow'
    BY <1>1, <1>4 DEF SendTick, FeederReturns, FeederFlow
  <2> QED BY <1>4, <2>1, <2>2, StillFlow DEF SendTick
<1>5. CASE SourceEnds
  <2>1. TypeOK'
    BY <1>1, <1>5 DEF SourceEnds, FeederReturns, Close, TypeOK
  <2>2. FeederFlow'
    BY <1>1, <1>5 DEF SourceEnds, FeederReturns, FeederFlow
  <2> QED BY <1>5, <2>1, <2>2, StillFlow DEF SourceEnds
<1>6. ASSUME NEW i \in Stages, SelectTick(i) PROVE FlowInv'
  <2>1. TypeOK'
    BY <1>1, <1>6, PipelineAssumption DEF SelectTick, NextClose, LoopReturns, TypeOK
  <2>2. FeederFlow'
    BY <1>1, <1>6 DEF SelectTick, FeederFlow
  <2> QED BY <1>6, <2>1, <2>2, StillFlow DEF SelectTick
<1>7. ASSUME NEW i \in Stages, SelectErr(i) PROVE FlowInv'
  <2>1. TypeOK'
    BY <1>1, <1>7, PipelineAssumption DEF SelectErr, NextClose, LoopReturns, TypeOK
  <2>2. FeederFlow'
    BY <1>1, <1>7 DEF SelectErr, FeederFlow
  <2> QED BY <1>7, <2>1, <2>2, StillFlow DEF SelectErr
<1>8. ASSUME NEW i \in Stages, ReceiveErr(i) PROVE FlowInv'
  <2>1. TypeOK'
    BY <1>1, <1>8 DEF ReceiveErr, TypeOK
  <2>2. FeederFlow'
    BY <1>1, <1>8 DEF ReceiveErr, FeederFlow
  <2> QED BY <1>8, <2>1, <2>2, StillFlow DEF ReceiveErr
<1>9. CASE Fault
  <2>1. UNCHANGED <<feeder, feederErr, sent, sendg, isClosed, in, out, eof, recvRec, recvErr,
                    loop, req, loopErr, delivered, passed>>
    BY <1>9 DEF Fault, TransformerFails, DestinationFails, Cancel
  <2>2. /\ broken' \in [Stages -> BOOLEAN] /\ destDown' \in BOOLEAN
        /\ cancelled' \in BOOLEAN
    BY <1>1, <1>9, PipelineAssumption DEF Fault, TransformerFails, DestinationFails, Cancel, TypeOK
  <2>3. TypeOK' /\ FeederFlow'
    BY <1>1, <2>1, <2>2 DEF TypeOK, FeederFlow
  <2> QED BY <2>1, <2>3, StillFlow
<1>10. CASE UNCHANGED vars
  <2>1. TypeOK' /\ FeederFlow'
    BY <1>1, <1>10 DEF TypeOK, FeederFlow, vars
  <2> QED BY <1>10, <2>1, StillFlow DEF vars
<1> QED
  BY <1>2, <1>3, <1>4, <1>5, <1>6, <1>7, <1>8, <1>9, <1>10, SendGoroutineFlow, TransformFlow,
     SelectRecordFlow, ReceiveFlow, ForwardFlow, OutputFlow
     DEF Next, FeederStep, LoopStep, RecvStep, Terminated

THEOREM FlowInvariant == Spec => []FlowInv
BY FlowInit, FlowNext, PTL DEF Spec

(* Every variable keeps its type, for every size of the pipeline. *)
THEOREM TypeCorrect == Spec => []TypeOK
BY FlowInvariant, PTL DEF FlowInv

(* Records reach the destination in the source's order, none twice and none
   left out in between, whatever fails, in a pipeline of any length, with
   buffers of any size and timers that fire at any time. *)
THEOREM OrderKept == Spec => []InOrder
BY FlowInvariant, PTL DEF FlowInv, Delivery

-----------------------------------------------------------------------------
(* When no transformer is slow, DrainInv is an invariant too: the timer of a
   closed stage fires only when nothing is on its way. *)

LEMMA DrainInit == Init => DrainInv
BY PipelineAssumption DEF Init, DrainInv, FeederDrained, StageDrained, DoneOK, Stages

(* A stage with nothing at its places has passed on all that entered it. *)
LEMMA EmptyStage ==
  ASSUME FlowInv, NEW i \in Stages,
         in[i] = <<>>, out[i] = <<>>, recvRec[i] = 0, req[i] = 0
  PROVE  passed[i] = passed[i - 1]
<1>1. Flow(passed[i - 1], passed[i], 0, 0, <<>>, <<>>)
  BY DEF FlowInv, StageFlow
<1> QED
  BY <1>1, EmptySeq, PipelineAssumption DEF Flow, Held

(* The feeder's steps. *)
LEMMA FeederDrain == FlowInv /\ DrainInv /\ FeederStep => DrainInv'
<1> SUFFICES ASSUME FlowInv, DrainInv, FeederStep PROVE DrainInv'
  OBVIOUS
<1>1. TypeOK /\ FeederFlow /\ FeederDrained /\ 1 \in Stages
  BY PipelineAssumption DEF FlowInv, DrainInv, Stages
<1>2. UNCHANGED <<in, out, eof, recvRec, recvErr, loop, loopErr, passed>>
  BY DEF FeederStep, FeedRecord, SendReturns, SendTick, SourceEnds, streamVars, recvVars, loopVars
<1>3. /\ \A j \in Stages : isClosed'[j] => isClosed[j] \/ j = 1
      /\ isClosed[1] => isClosed'[1]
      /\ sendg' = "blocked" => sendg = "blocked" \/ ~isClosed[1]
  BY <1>1 DEF FeederStep, FeedRecord, SendReturns, SendTick, SourceEnds, FeederReturns, Close,
     TypeOK
<1>4. FeederDrained'
  BY <1>1, <1>2 DEF FeederDrained, FeederFlow, FeederStep, FeedRecord, SendReturns, SendTick,
     SourceEnds, FeederReturns, Close, TypeOK
<1>5. ASSUME NEW j \in Stages PROVE StageDrained(j)'
  BY <1>2, <1>3 DEF DrainInv, StageDrained, DoneOK
<1> QED
  BY <1>4, <1>5 DEF DrainInv

(* A record enters the first stage: no stage has returned without an error. *)
LEMMA EnterDrain ==
  ASSUME FlowInv, DrainInv, SendGoroutine \/ (\E i \in Stages : Receive(i))
  PROVE  DrainInv'
<1>1. TypeOK /\ FeederFlow /\ FeederDrained /\ 1 \in Stages /\ \A j \in Stages : StageDrained(j)
  BY PipelineAssumption DEF FlowInv, DrainInv, Stages
<1>2. UNCHANGED <<feeder, feederErr, sent, isClosed, eof, recvErr, loop, loopErr>>
  BY DEF SendGoroutine, Receive, feederVars, recvVars, loopVars
<1>3. \/ sendg = "blocked" /\ (passed' = passed \/ passed'[0] = sent)
      \/ UNCHANGED <<sendg, passed>>
  BY <1>1, PipelineAssumption DEF SendGoroutine, Receive, TypeOK
<1>4. /\ sendg' = "blocked" => sendg = "blocked"
      /\ \A j \in Stages : recvErr[j] = "eof" =>
           in'[j] = in[j] /\ out'[j] = out[j] /\ recvRec'[j] = recvRec[j]
  BY <1>1 DEF SendGoroutine, Receive, TypeOK, StageDrained, recvVars
<1>5. FeederDrained'
  BY <1>1, <1>2, <1>3 DEF FeederDrained, FeederFlow
<1>6. ASSUME NEW j \in Stages PROVE StageDrained(j)'
  BY <1>1, <1>2, <1>3, <1>4 DEF StageDrained, DoneOK
<1> QED
  BY <1>5, <1>6 DEF DrainInv

(* Steps that neither end a loop nor pass on a record. *)
LEMMA QuietDrain ==
  ASSUME FlowInv, DrainInv,
         \/ \E i \in Stages : ReceiveErr(i) \/ SelectRecord(i) \/ Transform(i)
         \/ Fault
         \/ UNCHANGED vars
  PROVE  DrainInv'
<1>1. TypeOK /\ FeederDrained /\ \A j \in Stages : StageDrained(j)
  BY DEF FlowInv, DrainInv
<1>2. UNCHANGED <<feeder, feederErr, sent, sendg, isClosed, eof, loopErr, passed>>
  BY DEF ReceiveErr, SelectRecord, Transform, Fault, TransformerFails, DestinationFails, Cancel,
     vars, feederVars, streamVars, loopVars
<1>3. \A j \in Stages : (loop[j] = "done" <=> loop'[j] = "done")
  BY <1>1 DEF ReceiveErr, SelectRecord, Transform, Fault, TransformerFails, DestinationFails,
     Cancel, vars, loopVars, TypeOK
<1>4. \A j \in Stages : recvErr'[j] = "eof" =>
        eof[j] /\ in'[j] = <<>> /\ out'[j] = <<>> /\ recvRec'[j] = 0
  <2>1. CASE \E i \in Stages : ReceiveErr(i)
    BY <1>1, <2>1 DEF ReceiveErr, streamVars, StageDrained, TypeOK
  <2>2. CASE \E i \in Stages : SelectRecord(i)
    BY <1>1, <2>2 DEF SelectRecord, streamVars, StageDrained, TypeOK
  <2>3. CASE \E i \in Stages : Transform(i)
    BY <1>1, <2>3 DEF Transform, recvVars, StageDrained, TypeOK
  <2>4. CASE Fault \/ UNCHANGED vars
    BY <1>1, <2>4 DEF Fault, TransformerFails, DestinationFails, Cancel, vars, recvVars,
       streamVars, StageDrained
  <2> QED BY <2>1, <2>2, <2>3, <2>4
<1>5. FeederDrained'
  BY <1>1, <1>2 DEF FeederDrained
<1>6. ASSUME NEW j \in Stages PROVE StageDrained(j)'
  <2>1. j - 1 \in Stages \/ ~(j > 1)
    BY PipelineAssumption DEF Stages
  <2> QED
    BY <1>1, <1>2, <1>3, <1>4, <2>1 DEF StageDrained, DoneOK
<1> QED
  BY <1>5, <1>6 DEF DrainInv

(* A stage passes a record on, or fails to: it is not one that has returned. *)
LEMMA LeaveDrain ==
  ASSUME FlowInv, DrainInv, NEW i \in Stages, Forward(i) \/ (i = N /\ Output)
  PROVE  DrainInv'
<1>1. TypeOK /\ FeederDrained /\ N \in Stages /\ \A j \in Stages : StageDrained(j)
  BY PipelineAssumption DEF FlowInv, DrainInv, Stages
<1>2. /\ loop[i] = "send" /\ i \in Nat /\ i > 0 /\ N \in Nat
      /\ UNCHANGED <<feeder, feederErr, sent, sendg, out, eof, recvRec, recvErr>>
  <2>1. i \in Nat /\ i > 0 /\ N \in Nat
    BY PipelineAssumption DEF Stages
  <2>2. CASE Forward(i)
    BY <2>1, <2>2 DEF Forward, feederVars, recvVars
  <2>3. CASE i = N /\ Output
    BY <2>1, <2>3 DEF Output, feederVars, streamVars, recvVars
  <2> QED BY <2>2, <2>3
<1>3. /\ \A j \in Stages \ {i} : loop'[j] = loop[j] /\ loopErr'[j] = loopErr[j]
      /\ ~DoneOK(i)' /\ (loopErr'[i] => loop'[i] = "done") /\ ~DoneOK(i) /\ ~loopErr[i]
  BY <1>1, <1>2 DEF Forward, Output, LoopReturns, TypeOK, DoneOK, StageDrained
<1>4. /\ \A j \in Stages : isClosed'[j] => isClosed[j] \/ j = 1
      /\ isClosed[1] => isClosed'[1]
      /\ isClosed' = isClosed \/ loopErr'[N]
  <2>1. CASE Forward(i)
    BY <2>1 DEF Forward
  <2>2. CASE i = N /\ Output
    BY <1>1, <2>2 DEF Output, LoopReturns, Close, TypeOK
  <2> QED BY <2>1, <2>2
<1>5. /\ passed'[0] = passed[0]
      /\ \A j \in Stages \ {i} : passed'[j] = passed[j] /\ (j # i + 1 => in'[j] = in[j])
      /\ in'[i] = in[i]
  <2>1. /\ Stages \subseteq 0..N /\ 0 \in 0..N /\ 0 # i /\ i # i + 1
    BY <1>2 DEF Stages
  <2>2. CASE Forward(i)
    BY <1>1, <2>1, <2>2 DEF Forward, TypeOK
  <2>3. CASE i = N /\ Output
    BY <1>1, <2>1, <2>3 DEF Output, streamVars, TypeOK
  <2> QED BY <2>2, <2>3
<1>6. FeederDrained'
  BY <1>1, <1>2, <1>3, <1>4, <1>5 DEF FeederDrained
<1>7. ASSUME NEW j \in Stages PROVE StageDrained(j)'
  <2>1. /\ j - 1 \in Stages \/ ~(j > 1)
        /\ j = i + 1 => j - 1 = i /\ j > 1
    BY <1>2 DEF Stages
  <2>2. /\ eof[j] => DoneOK(j - 1)'
        /\ j = i + 1 => ~eof[j]
    BY <1>1, <1>3, <2>1 DEF StageDrained, DoneOK
  <2>3. recvErr[j] = "eof" => in'[j] = in[j]
    BY <1>1, <1>2, <1>5, <2>2 DEF StageDrained
  <2> QED
    BY <1>1, <1>2, <1>3, <1>4, <1>5, <2>1, <2>2, <2>3 DEF StageDrained, DoneOK
<1> QED
  BY <1>6, <1>7 DEF DrainInv

(* A loop ends from its select: with an error, or with nothing left behind it. *)
LEMMA SelectDrain ==
  ASSUME Timing = "prompt", FlowInv, DrainInv, NEW i \in Stages, SelectTick(i) \/ SelectErr(i)
  PROVE  DrainInv'
<1>1. TypeOK /\ FeederDrained /\ N \in Stages /\ \A j \in Stages : StageDrained(j)
  BY PipelineAssumption DEF FlowInv, DrainInv, Stages
<1>2. /\ loop[i] = "select" /\ req[i] = 0 /\ i \in Nat /\ i > 0 /\ N \in Nat
      /\ UNCHANGED <<feeder, feederErr, sent, sendg, isClosed, in, out, recvRec, recvErr, passed>>
  <2>1. i \in Nat /\ i > 0 /\ N \in Nat
    BY PipelineAssumption DEF Stages
  <2>2. CASE SelectTick(i)
    BY <1>1, <2>1, <2>2 DEF SelectTick, feederVars, recvVars, destVars, TypeOK
  <2>3. CASE SelectErr(i)
    BY <1>1, <2>1, <2>3 DEF SelectErr, feederVars, recvVars, destVars, TypeOK
  <2> QED BY <2>2, <2>3
<1>3. /\ \A j \in Stages \ {i} : loop'[j] = loop[j] /\ loopErr'[j] = loopErr[j]
      /\ loop'[i] = "done" /\ ~DoneOK(i) /\ ~loopErr[i]
  BY <1>1, <1>2 DEF SelectTick, SelectErr, LoopReturns, TypeOK, DoneOK, StageDrained
<1>4. DoneOK(i)' => isClosed[1] /\ sendg # "blocked" /\ passed[i] = passed[0]
  <2>1. CASE SelectTick(i)
    <3>1. i = 1 /\ isClosed[1] /\ Quiet(i)
      BY <1>1, <2>1 DEF SelectTick, TickPossible, StageDrained
    <3>2. passed[i] = passed[i - 1] /\ i - 1 = 0
      BY <1>2, <3>1, EmptyStage DEF Quiet
    <3> QED BY <3>1, <3>2 DEF Quiet
  <2>2. CASE SelectErr(i) /\ recvErr[i] = "eof"
    <3>1. /\ in[i] = <<>> /\ out[i] = <<>> /\ recvRec[i] = 0
          /\ i - 1 \in Stages /\ DoneOK(i - 1)
      BY <1>1, <1>2, <2>2 DEF StageDrained, Stages
    <3>2. passed[i] = passed[i - 1]
      BY <1>2, <3>1, EmptyStage
    <3> QED BY <1>1, <3>1, <3>2 DEF StageDrained
  <2>3. CASE SelectErr(i) /\ recvErr[i] # "eof"
    BY <1>1, <2>3 DEF SelectErr, LoopReturns, DoneOK, TypeOK
  <2> QED BY <2>1, <2>2, <2>3
<1>5. \A j \in Stages : eof'[j] => eof[j] \/ (j = i + 1 /\ DoneOK(i)')
  BY <1>1, <1>2 DEF SelectTick, SelectErr, NextClose, LoopReturns, DoneOK, TypeOK, Stages
<1>6. \A j \in Stages : eof[j] => eof'[j]
  BY <1>1, <1>2 DEF SelectTick, SelectErr, NextClose, TypeOK, Stages
<1>7. FeederDrained'
  BY <1>1, <1>2, <1>3 DEF FeederDrained
<1>8. ASSUME NEW j \in Stages PROVE StageDrained(j)'
  <2>1. /\ j - 1 \in Stages \/ ~(j > 1)
        /\ j = i + 1 => j - 1 = i /\ j > 1
    BY <1>2 DEF Stages
  <2>2. eof'[j] => j > 1 /\ DoneOK(j - 1)'
    BY <1>1, <1>3, <1>5, <2>1 DEF StageDrained, DoneOK
  <2>3. DoneOK(j)' => isClosed[1] /\ sendg # "blocked" /\ passed[j] = passed[0]
    BY <1>1, <1>3, <1>4 DEF StageDrained, DoneOK
  <2> QED
    BY <1>1, <1>2, <1>3, <1>6, <2>2, <2>3 DEF StageDrained
<1> QED
  BY <1>7, <1>8 DEF DrainInv

LEMMA DrainNext == Timing = "prompt" /\ FlowInv /\ DrainInv /\ [Next]_vars => DrainInv'
<1>1. N \in Stages
  BY PipelineAssumption DEF Stages
<1> QED
  BY <1>1, FeederDrain, EnterDrain, QuietDrain, LeaveDrain, SelectDrain
     DEF Next, LoopStep, RecvStep, Terminated

THEOREM DrainInvariant == Timing = "prompt" /\ Spec => []DrainInv
<1> SUFFICES ASSUME Timing = "prompt" PROVE Spec => []DrainInv
  OBVIOUS
<1>1. FlowInv /\ DrainInv /\ [Next]_vars => DrainInv'
  BY DrainNext
<1> QED
  BY <1>1, DrainInit, FlowInvariant, PTL DEF Spec

(* When no transformer holds a record for longer than the timer's second, a run
   that ends without an error has delivered every record that the feeder sent. *)
THEOREM NothingLost == Timing = "prompt" /\ Spec => []NoSilentLoss
<1>1. FlowInv /\ DrainInv => NoSilentLoss
  BY PipelineAssumption DEF FlowInv, Delivery, DrainInv, FeederDrained, StageDrained, DoneOK,
     NoSilentLoss, Finished, Failed, Stages
<1> QED
  BY <1>1, FlowInvariant, DrainInvariant, PTL

-----------------------------------------------------------------------------
(* When no transformer is slow, the pipeline implements RecordStream. *)

(* Once the run has ended, what still runs (a transformer, a receive goroutine,
   the goroutine of the last Send) does not change its outcome. *)
LEMMA FinishedStays ==
  ASSUME Finished, [Next]_vars
  PROVE  UNCHANGED <<sent, delivered, feeder, feederErr, loop, loopErr>>
<1>1. N \in Stages /\ feeder = "done" /\ \A i \in Stages : loop[i] = "done"
  BY PipelineAssumption DEF Finished, Stages
<1>2. ~FeederStep /\ ~Output /\ \A i \in Stages : ~LoopStep(i)
  BY <1>1 DEF FeederStep, FeedRecord, SendReturns, SendTick, SourceEnds, Output, LoopStep,
     SelectTick, SelectRecord, SelectErr, Forward
<1>3. \/ SendGoroutine
      \/ \E i \in Stages : Receive(i) \/ ReceiveErr(i) \/ Transform(i)
      \/ Fault
      \/ UNCHANGED vars
  BY <1>2 DEF Next, RecvStep, Terminated
<1> QED
  BY <1>3 DEF SendGoroutine, Receive, ReceiveErr, Transform, Fault, TransformerFails,
     DestinationFails, Cancel, vars, feederVars, loopVars, destVars

(* Before that, a step offers a record, delivers one, or changes neither. *)
LEMMA StepKinds ==
  ASSUME FlowInv, DrainInv, [Next]_vars
  PROVE  \/ /\ sent' = sent + 1 /\ delivered' = delivered
            /\ Finished' => Failed'
         \/ /\ Len(delivered) < sent /\ delivered' = Append(delivered, Len(delivered) + 1)
            /\ sent' = sent /\ ~Finished'
         \/ UNCHANGED <<sent, delivered>>
<1>1. TypeOK /\ FeederFlow /\ Delivery /\ FeederDrained /\ N \in Stages
  BY PipelineAssumption DEF FlowInv, DrainInv, Stages
<1>2. CASE FeedRecord
  <2>1. sent' = sent + 1 /\ delivered' = delivered /\ loopErr' = loopErr
    BY <1>2 DEF FeedRecord, destVars, loopVars
  <2>2. feeder' = "done" => loopErr[N]
    BY <1>1, <1>2 DEF FeedRecord, FeederDrained
  <2> QED
    BY <1>1, <2>1, <2>2 DEF Finished, Failed
<1>3. CASE Output
  <2>1. CASE UNCHANGED delivered
    BY <1>3, <2>1 DEF Output, feederVars
  <2>2. CASE delivered' = Append(delivered, req[N]) /\ loop' = [loop EXCEPT ![N] = "select"]
    <3>1. req[N] = Len(delivered) + 1 /\ Len(delivered) < sent
      <4>1. /\ req[N] = passed[N] + 1 /\ passed[N] \in Nat /\ passed[N] + 1 <= passed[0]
        BY <1>1, <1>3, LeaveFlow DEF Output
      <4>2. passed[0] \in 0..MaxRecords
        BY <1>1, StageTypes
      <4> QED
        BY <1>1, <4>1, <4>2, PipelineAssumption DEF Delivery, FeederFlow
    <3>2. ~Finished' /\ sent' = sent
      BY <1>1, <1>3, <2>2 DEF Finished, TypeOK, Output, feederVars
    <3> QED BY <2>2, <3>1, <3>2
  <2> QED BY <1>3, <2>1, <2>2 DEF Output
<1>4. CASE ~FeedRecord /\ ~Output
  BY <1>4 DEF Next, FeederStep, SendReturns, SendTick, SourceEnds, FeederReturns,
     LoopStep, SelectTick, SelectRecord, SelectErr, Forward, RecvStep, Receive, ReceiveErr,
     SendGoroutine, Transform, Fault, TransformerFails, DestinationFails, Cancel, Terminated,
     vars, feederVars, destVars
<1> QED
  BY <1>2, <1>3, <1>4

LEMMA StreamInit == Init => Stream!Init
BY DEF Init, Finished, Stream!Init

LEMMA StreamStep ==
  ASSUME FlowInv, DrainInv, NoSilentLoss', [Next]_vars
  PROVE  [Stream!Next]_(Stream!vars)
<1>1. CASE Finished
  <2>1. UNCHANGED <<sent, delivered, feeder, feederErr, loop, loopErr>>
    BY <1>1, FinishedStays
  <2>2. (Finished' <=> Finished) /\ (Failed' <=> Failed)
    BY <2>1 DEF Finished, Failed
  <2> QED
    BY <2>1, <2>2 DEF Stream!vars
<1>2. CASE ~Finished
  <2>1. CASE /\ sent' = sent + 1 /\ delivered' = delivered
             /\ Finished' => Failed'
    BY <1>2, <2>1 DEF Stream!Next, Stream!Offer, Stream!Fail
  <2>2. CASE /\ Len(delivered) < sent /\ delivered' = Append(delivered, Len(delivered) + 1)
             /\ sent' = sent /\ ~Finished'
    BY <1>2, <2>2 DEF Stream!Next, Stream!Arrive
  <2>3. CASE UNCHANGED <<sent, delivered>>
    <3>1. CASE ~Finished'
      BY <1>2, <2>3, <3>1 DEF Stream!vars
    <3>2. CASE Finished' /\ Failed'
      BY <1>2, <2>3, <3>2 DEF Stream!Next, Stream!Fail
    <3>3. CASE Finished' /\ ~Failed'
      BY <1>2, <2>3, <3>3 DEF Stream!Next, Stream!Succeed, NoSilentLoss
    <3> QED BY <3>1, <3>2, <3>3
  <2> QED
    BY <2>1, <2>2, <2>3, StepKinds
<1> QED
  BY <1>1, <1>2

(* When no transformer is slow, the pipeline is the record stream that sync_v3
   takes it for: in order, complete, and honest about failure. *)
THEOREM PipelineImplementsStream == Timing = "prompt" /\ Spec => StreamSpec
<1>1. FlowInv /\ DrainInv /\ NoSilentLoss' /\ [Next]_vars => [Stream!Next]_(Stream!vars)
  BY StreamStep
<1> QED
  BY <1>1, StreamInit, FlowInvariant, DrainInvariant, NothingLost, PTL
     DEF Spec, StreamSpec, Stream!Spec
=============================================================================
