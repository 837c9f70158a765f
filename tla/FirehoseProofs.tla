---------------------------- MODULE FirehoseProofs --------------------------
(***************************************************************************)
(* Proofs about Firehose, for any limits, any sizes of rows and any answers*)
(* of the service: no batch is over its limits, no row is sent again that  *)
(* is stored, and none is missing when Write returns nil.                  *)
(***************************************************************************)
EXTENDS Firehose, LibraryProofs

-----------------------------------------------------------------------------
(* Firehose. *)

\* Between two rows the batch is not full; what is sent comes from it.
BatchInv ==
  /\ IsFiniteSet(batch)
  /\ pc \in {"start", "row"} => Cardinality(batch) < MaxBatchRecords
  /\ pc = "send" => sending \subseteq batch /\ Cardinality(batch) <= MaxBatchRecords

(* A row is in the batch or stored, except for the one that waits for the batch
   to be sent; of the batch exactly the rows in sending are not stored. *)
StoreInv ==
  /\ twice = {}
  /\ pc \in {"start", "row"} =>
       /\ stored \cap batch = {}
       /\ \A k \in Rows : Fits(k) => k \in stored \cup batch
  /\ pc = "send" =>
       /\ stored \cap sending = {} /\ batch \ sending \subseteq stored
       /\ \A k \in Rows : Fits(k) => k \in stored \cup batch \/ (after = "append" /\ k = Len(size))
       /\ after = "append" => Len(size) # 0 /\ Len(size) \notin stored \cup batch
  /\ ret = "ok" => pc = "done" /\ \A k \in Rows : Fits(k) => k \in stored

FirehoseInv == TypeOK /\ BatchInv /\ StoreInv

-----------------------------------------------------------------------------

\* What one more row does to the history of sizes.
LEMMA RowAppended ==
  ASSUME TypeOK, NEW bytes \in Sizes, Receive(bytes)
  PROVE  /\ Len(size) \in Nat /\ Len(size') = Len(size) + 1 /\ Len(size') <= MaxRows
         /\ size' \in Seq(Sizes) /\ size'[Len(size) + 1] = bytes
         /\ \A k \in Rows : size'[k] = size[k]
         /\ Rows' = Rows \cup {Len(size) + 1} /\ Len(size) + 1 \notin Rows
<1>1. /\ Len(size) \in Nat /\ Len(size') = Len(size) + 1 /\ size' \in Seq(Sizes)
      /\ size'[Len(size) + 1] = bytes /\ \A k \in Rows : size'[k] = size[k]
  BY AppendProperties, LenProperties DEF TypeOK, Receive, Rows
<1>2. Rows' = Rows \cup {Len(size) + 1} /\ Len(size) + 1 \notin Rows
  BY <1>1 DEF Rows
<1>3. Len(size) < MaxRows
  BY DEF Receive
<1> QED BY <1>1, <1>2, <1>3, FirehoseAssumption

\* A row that is not in the batch adds one to it.
LEMMA CardinalityAdded ==
  ASSUME NEW records, IsFiniteSet(records), NEW k, k \notin records
  PROVE  /\ IsFiniteSet(records \cup {k}) /\ Cardinality(records) \in Nat
         /\ Cardinality(records \cup {k}) = Cardinality(records) + 1
BY FS_AddElement, FS_CardinalityType

(* What Add does, whether it sends the batch or not. *)
LEMMA AddEffect ==
  ASSUME NEW k, NEW bytes, NEW records, NEW before, Add(k, bytes, records, before),
         IsFiniteSet(records), k \notin records, Cardinality(records) < MaxBatchRecords
  PROVE  /\ batch' = records \cup {k} /\ batchSize' = before + bytes
         /\ IsFiniteSet(batch') /\ Cardinality(batch') <= MaxBatchRecords
         /\ \/ /\ pc' = "row" /\ UNCHANGED sendVars
               /\ Cardinality(batch') < MaxBatchRecords
            \/ pc' = "send" /\ sending' = batch' /\ count' = 0 /\ after' = "reset"
<1>1. /\ IsFiniteSet(records \cup {k}) /\ Cardinality(records) \in Nat
      /\ Cardinality(records \cup {k}) = Cardinality(records) + 1
  BY CardinalityAdded
<1>2. batch' = records \cup {k} /\ batchSize' = before + bytes
  BY DEF Add
<1>3. CASE Cardinality(records) + 1 >= MaxBatchRecords
  BY <1>1, <1>2, <1>3, FirehoseAssumption DEF Add, SendBatch
<1>4. CASE ~(Cardinality(records) + 1 >= MaxBatchRecords)
  BY <1>1, <1>2, <1>4, FirehoseAssumption DEF Add
<1> QED BY <1>3, <1>4

LEMMA FirehoseInit == Init => FirehoseInv
<1> SUFFICES ASSUME Init PROVE FirehoseInv
  OBVIOUS
<1>1. size \in Seq(Sizes) /\ Len(size) = 0 /\ Rows = {}
  BY DEF Init, Rows
<1>2. TypeOK
  <2>1. Len(size) <= MaxRows /\ 0 \in 0..MaxRetries /\ 0 \in Nat
    BY <1>1, FirehoseAssumption
  <2> QED BY <1>1, <2>1 DEF Init, TypeOK
<1>3. BatchInv
  BY FS_EmptySet, FirehoseAssumption DEF Init, BatchInv
<1>4. StoreInv
  BY <1>1 DEF Init, StoreInv
<1> QED BY <1>2, <1>3, <1>4 DEF FirehoseInv

\* A step that keeps the history, the batch and the call, and does not return "ok".
LEMMA Stopped ==
  ASSUME FirehoseInv, pc' = "done", ret' = "err", gaveUp' \in BOOLEAN, twice' = {},
         stored' \subseteq Rows, UNCHANGED <<size, batchVars, sendVars>>
  PROVE  FirehoseInv'
BY DEF FirehoseInv, TypeOK, BatchInv, StoreInv, Rows, batchVars, sendVars

LEMMA FirehoseNext ==
  ASSUME FirehoseInv, [Next]_vars
  PROVE  FirehoseInv'
<1> USE FirehoseAssumption
<1>0. TypeOK /\ BatchInv /\ StoreInv
  BY DEF FirehoseInv
<1>1. CASE Start
  <2>1. CASE Return("err")
    BY <1>0, <1>1, <2>1, Stopped DEF Start, Return, serviceVars, TypeOK, StoreInv
  <2>2. CASE pc' = "row" /\ UNCHANGED ret
    BY <1>0, <1>1, <2>2 DEF Start, FirehoseInv, TypeOK, BatchInv, StoreInv, Rows, Fits, batchVars, sendVars, serviceVars
  <2> QED BY <1>1, <2>1, <2>2 DEF Start
<1>2. CASE BadMessage
  BY <1>0, <1>2, Stopped DEF BadMessage, Return, serviceVars, TypeOK, StoreInv
<1>3. CASE LastBatch
  <2>1. /\ pc = "row" /\ pc' = "send" /\ sending' = batch /\ count' = 0 /\ after' = "end"
        /\ UNCHANGED <<size, batch, batchSize, stored, twice, ret, gaveUp>>
    BY <1>3 DEF LastBatch, SendBatch, batchVars, serviceVars
  <2>2. TypeOK'
    BY <1>0, <2>1 DEF TypeOK, Rows
  <2>3. BatchInv'
    BY <1>0, <2>1, FS_CardinalityType DEF BatchInv
  <2>4. StoreInv'
    BY <1>0, <2>1 DEF StoreInv, Rows, Fits
  <2> QED BY <2>2, <2>3, <2>4 DEF FirehoseInv
<1>4. ASSUME NEW bytes \in Sizes, SkipRow(bytes) PROVE FirehoseInv'
  <2>1. /\ pc = "row" /\ pc' = "row" /\ Receive(bytes) /\ bytes > MaxRecordSizeBytes
        /\ UNCHANGED <<batch, batchSize, sending, count, after, stored, twice, ret, gaveUp>>
    BY <1>4 DEF SkipRow, Receive, batchVars, sendVars, serviceVars
  <2>2. /\ size' \in Seq(Sizes) /\ Len(size') <= MaxRows /\ Rows' = Rows \cup {Len(size) + 1}
        /\ size'[Len(size) + 1] = bytes /\ \A k \in Rows : size'[k] = size[k]
    BY <1>0, <2>1, RowAppended
  <2>3. TypeOK'
    BY <1>0, <2>1, <2>2 DEF TypeOK
  <2>4. BatchInv'
    BY <1>0, <2>1 DEF BatchInv
  <2>5. \A k \in Rows' : Fits(k)' => k \in Rows /\ Fits(k)
    <3>1. bytes \in Nat /\ ~(bytes <= MaxRecordSizeBytes)
      BY <2>1
    <3> QED BY <2>2, <3>1 DEF Fits
  <2>6. StoreInv'
    BY <1>0, <2>1, <2>5 DEF StoreInv
  <2> QED BY <2>3, <2>4, <2>6 DEF FirehoseInv
<1>5. ASSUME NEW bytes \in Sizes, AddRow(bytes) PROVE FirehoseInv'
  <2> DEFINE k == Len(size) + 1
  <2>1. pc = "row" /\ Receive(bytes) /\ UNCHANGED <<stored, twice, ret, gaveUp>>
    BY <1>5 DEF AddRow, Receive, serviceVars
  <2>2. /\ size' \in Seq(Sizes) /\ Len(size') <= MaxRows /\ Rows' = Rows \cup {k}
        /\ Len(size') = k /\ k # 0 /\ k \notin Rows /\ \A j \in Rows : size'[j] = size[j]
    BY <1>0, <2>1, RowAppended
  <2>3. \A j \in Rows' : Fits(j)' => j = k \/ (j \in Rows /\ Fits(j))
    BY <2>2 DEF Fits
  <2>4. k \notin stored \cup batch
    BY <1>0, <2>2 DEF TypeOK
  <2> HIDE DEF k
  <2>5. CASE SendBatch(batch, "append") /\ UNCHANGED batchVars
    <3>1. /\ pc' = "send" /\ sending' = batch /\ count' = 0 /\ after' = "append"
          /\ UNCHANGED <<batch, batchSize>>
      BY <2>5 DEF SendBatch, batchVars
    <3>2. TypeOK'
      BY <1>0, <2>1, <2>2, <3>1 DEF TypeOK
    <3>3. BatchInv'
      BY <1>0, <2>1, <3>1, FS_CardinalityType DEF BatchInv
    <3>4. StoreInv'
      BY <1>0, <2>1, <2>2, <2>3, <2>4, <3>1 DEF StoreInv
    <3> QED BY <3>2, <3>3, <3>4 DEF FirehoseInv
  <2>6. CASE Add(k, bytes, batch, batchSize)
    <3>1. IsFiniteSet(batch) /\ k \notin batch /\ Cardinality(batch) < MaxBatchRecords
      BY <1>0, <2>1, <2>4 DEF BatchInv
    <3>2. /\ batch' = batch \cup {k} /\ batchSize' = batchSize + bytes
          /\ IsFiniteSet(batch') /\ Cardinality(batch') <= MaxBatchRecords
          /\ \/ pc' = "row" /\ UNCHANGED sendVars /\ Cardinality(batch') < MaxBatchRecords
             \/ pc' = "send" /\ sending' = batch' /\ count' = 0 /\ after' = "reset"
      BY <2>6, <3>1, AddEffect
    <3>3. TypeOK'
      BY <1>0, <2>1, <2>2, <3>2 DEF TypeOK, sendVars
    <3>4. BatchInv'
      BY <3>2 DEF BatchInv
    <3>5. StoreInv'
      BY <1>0, <2>1, <2>2, <2>3, <2>4, <3>2 DEF StoreInv
    <3> QED BY <3>3, <3>4, <3>5 DEF FirehoseInv
  <2> QED BY <1>5, <2>5, <2>6 DEF AddRow, k
<1>6. CASE GiveUp
  BY <1>0, <1>6, Stopped DEF GiveUp, Return, serviceVars, TypeOK, StoreInv
<1>7. CASE PutRecordBatch
  <2>1. PICK rows \in SUBSET sending : Stores(rows) /\ sending' = FailedRecords(rows)
    BY <1>7 DEF PutRecordBatch
  <2>2. /\ pc = "send" /\ count < MaxRetries /\ count' = count + 1
        /\ stored' = stored \cup rows /\ twice' = twice \cup (rows \cap stored) /\ sending' = sending \ rows
        /\ UNCHANGED <<pc, size, batch, batchSize, after, ret, gaveUp>>
    BY <1>7, <2>1 DEF PutRecordBatch, Calling, Stores, FailedRecords, batchVars
  <2>3. rows \subseteq sending /\ sending \subseteq batch /\ sending \subseteq Rows /\ stored \cap sending = {}
    BY <1>0, <2>1, <2>2 DEF BatchInv, StoreInv, TypeOK
  <2>4. TypeOK'
    BY <1>0, <2>2, <2>3 DEF TypeOK, Rows
  <2>5. BatchInv'
    BY <1>0, <2>2, <2>3 DEF BatchInv
  <2>6. StoreInv'
    BY <1>0, <2>2, <2>3 DEF StoreInv, Rows, Fits
  <2> QED BY <2>4, <2>5, <2>6 DEF FirehoseInv
<1>8. CASE PutRecordBatchFails
  <2>1. PICK rows \in SUBSET sending : Stores(rows)
    BY <1>8 DEF PutRecordBatchFails
  <2>2. rows \cap stored = {} /\ rows \subseteq Rows
    BY <1>0, <1>8, <2>1 DEF PutRecordBatchFails, Calling, StoreInv, TypeOK
  <2> QED BY <1>0, <1>8, <2>1, <2>2, Stopped DEF PutRecordBatchFails, Return, Stores, TypeOK, StoreInv
<1>9. CASE Sent
  <2>1. pc = "send" /\ sending = {} /\ UNCHANGED <<size, stored, twice, gaveUp>>
    BY <1>9 DEF Sent, serviceVars
  <2>2. batch \subseteq stored /\ Rows' = Rows /\ \A k : Fits(k)' <=> Fits(k)
    BY <1>0, <2>1 DEF StoreInv, Rows, Fits
  <2>3. CASE after = "append" /\ Add(Len(size), size[Len(size)], {}, 0) /\ UNCHANGED ret
    <3> DEFINE k == Len(size)
    <3>1. k \in Rows /\ size[k] \in Nat /\ k \notin stored \cup batch
      <4>1. Len(size) \in Nat /\ Len(size) # 0 /\ k \notin stored \cup batch /\ size \in Seq(Sizes)
        BY <1>0, <2>1, <2>3, LenProperties DEF StoreInv, TypeOK
      <4>2. k \in 1..Len(size)
        BY <4>1
      <4> QED BY <4>1, <4>2, ElementOfSeq DEF Rows
    <3>2. /\ batch' = {} \cup {k} /\ batchSize' = 0 + size[k]
          /\ IsFiniteSet(batch') /\ Cardinality(batch') <= MaxBatchRecords
          /\ \/ pc' = "row" /\ UNCHANGED sendVars /\ Cardinality(batch') < MaxBatchRecords
             \/ pc' = "send" /\ sending' = batch' /\ count' = 0 /\ after' = "reset"
      <4>1. IsFiniteSet({}) /\ k \notin {} /\ Cardinality({}) < MaxBatchRecords
        BY FS_EmptySet
      <4> QED BY <2>3, <4>1, AddEffect
    <3> HIDE DEF k
    <3>3. TypeOK'
      BY <1>0, <2>1, <2>2, <2>3, <3>1, <3>2 DEF TypeOK, sendVars
    <3>4. BatchInv'
      BY <3>2 DEF BatchInv
    <3>5. StoreInv'
      <4>1. \A j \in Rows : Fits(j) => j \in stored \/ j = k
        BY <1>0, <2>1, <2>2 DEF StoreInv, k
      <4> QED BY <1>0, <2>1, <2>2, <2>3, <3>1, <3>2, <4>1 DEF StoreInv
    <3> QED BY <3>3, <3>4, <3>5 DEF FirehoseInv
  <2>4. CASE after = "reset" /\ batch' = {} /\ batchSize' = 0 /\ pc' = "row" /\ UNCHANGED <<sendVars, ret>>
    <3>1. TypeOK'
      BY <1>0, <2>1, <2>2, <2>4 DEF TypeOK, sendVars
    <3>2. BatchInv'
      BY <2>4, FS_EmptySet DEF BatchInv
    <3>3. StoreInv'
      BY <1>0, <2>1, <2>2, <2>4 DEF StoreInv
    <3> QED BY <3>1, <3>2, <3>3 DEF FirehoseInv
  <2>5. CASE after = "end" /\ Return("ok") /\ UNCHANGED <<batchVars, sendVars>>
    <3>1. TypeOK'
      BY <1>0, <2>1, <2>2, <2>5 DEF TypeOK, Return, batchVars, sendVars
    <3>2. BatchInv'
      BY <1>0, <2>5 DEF BatchInv, Return, batchVars
    <3>3. StoreInv'
      BY <1>0, <2>1, <2>2, <2>5 DEF StoreInv, Return
    <3> QED BY <3>1, <3>2, <3>3 DEF FirehoseInv
  <2> QED BY <1>9, <2>3, <2>4, <2>5 DEF Sent
<1>10. CASE UNCHANGED vars
  BY <1>10 DEF vars, batchVars, sendVars, serviceVars, FirehoseInv, TypeOK, BatchInv, StoreInv, Rows, Fits
<1> QED
  BY <1>1, <1>2, <1>3, <1>4, <1>5, <1>6, <1>7, <1>8, <1>9, <1>10 DEF Next, Terminated

-----------------------------------------------------------------------------
(* Sums over finite sets. *)

\* The sum of z[k], k in S, as MapThenSumSet takes it: element by element.
SumOf(z, S) == MapThenSumSet(LAMBDA k : z[k], S)

First(s) == CHOOSE x \in s : TRUE
\* g has the sums of all subsets of S.
Sums(g, z, S) ==
  g = [s \in SUBSET S |-> IF s = {} THEN 0 ELSE z[First(s)] + g[s \ {First(s)}]]

LEMMA SumIs ==
  ASSUME NEW z, NEW S
  PROVE  SumOf(z, S) = (CHOOSE g : Sums(g, z, S))[S]
BY DEF SumOf, MapThenSumSet, MapThenFoldSet, Sums, First

LEMMA FirstIn ==
  ASSUME NEW s, s # {}
  PROVE  First(s) \in s
BY DEF First

LEMMA SumsAt ==
  ASSUME NEW g, NEW z, NEW S, Sums(g, z, S), NEW s \in SUBSET S
  PROVE  g[s] = IF s = {} THEN 0 ELSE z[First(s)] + g[s \ {First(s)}]
<1>1. g[s] = [r \in SUBSET S |-> IF r = {} THEN 0 ELSE z[First(r)] + g[r \ {First(r)}]][s]
  BY Zenon DEF Sums
<1> QED BY <1>1, Zenon

\* There is one solution at most, and there is one.
LEMMA SumsAgree ==
  ASSUME NEW z, NEW A, NEW B, IsFiniteSet(A), NEW f, NEW g, Sums(f, z, A), Sums(g, z, B),
         NEW s, s \subseteq A, s \subseteq B
  PROVE  f[s] = g[s]
<1> DEFINE T == {r \in SUBSET A : r \subseteq B /\ f[r] # g[r]}
<1> SUFFICES ASSUME T # {} PROVE FALSE
  OBVIOUS
<1>1. PICK r \in T : \A q \in T : q \subseteq r => q = r
  <2>1. T \subseteq SUBSET A
    OBVIOUS
  <2> HIDE DEF T
  <2> QED BY <2>1, SmallestSet
<1>2. r \in SUBSET A /\ r \in SUBSET B /\ f[r] # g[r]
  BY <1>1
<1>3. /\ f[r] = IF r = {} THEN 0 ELSE z[First(r)] + f[r \ {First(r)}]
      /\ g[r] = IF r = {} THEN 0 ELSE z[First(r)] + g[r \ {First(r)}]
  <2> HIDE DEF T
  <2>1. f[r] = IF r = {} THEN 0 ELSE z[First(r)] + f[r \ {First(r)}]
    BY <1>2, SumsAt
  <2>2. g[r] = IF r = {} THEN 0 ELSE z[First(r)] + g[r \ {First(r)}]
    BY <1>2, SumsAt
  <2> QED BY <2>1, <2>2
<1>4. CASE r = {}
  BY <1>2, <1>3, <1>4
<1>5. CASE r # {}
  <2>1. First(r) \in r
    BY <1>5, FirstIn
  <2>2. f[r \ {First(r)}] = g[r \ {First(r)}]
    <3>1. r \ {First(r)} \notin T
      BY <1>1, <2>1
    <3> QED BY <1>2, <3>1
  <2> QED BY <1>2, <1>3, <1>5, <2>2
<1> QED BY <1>4, <1>5

LEMMA SumsExist ==
  ASSUME NEW z, NEW S, IsFiniteSet(S)
  PROVE  \E g : Sums(g, z, S)
<1> DEFINE T == {r \in SUBSET S : ~ \E g : Sums(g, z, r)}
<1> SUFFICES ASSUME T # {} PROVE FALSE
  OBVIOUS
<1>1. PICK r \in T : \A q \in T : q \subseteq r => q = r
  <2>1. T \subseteq SUBSET S
    OBVIOUS
  <2> HIDE DEF T
  <2> QED BY <2>1, SmallestSet
<1>2. r \in SUBSET S /\ IsFiniteSet(r) /\ ~ \E g : Sums(g, z, r)
  BY <1>1, FS_Subset
<1> DEFINE G(q) == CHOOSE g : Sums(g, z, q)
           Rest(q) == q \ {First(q)}
           h == [s \in SUBSET r |-> IF s = {} THEN 0 ELSE z[First(s)] + G(Rest(s))[Rest(s)]]
<1>3. ASSUME NEW q \in SUBSET r, q # r PROVE Sums(G(q), z, q)
  <2>1. \E g : Sums(g, z, q)
    BY <1>1, <1>3
  <2> QED BY <2>1
<1>4. ASSUME NEW s \in SUBSET r, s # {} PROVE h[Rest(s)] = G(Rest(s))[Rest(s)]
  <2> DEFINE q == Rest(s)
  <2>1. q \in SUBSET r /\ q # r /\ IsFiniteSet(q)
    BY <1>2, <1>4, FirstIn, FS_Subset
  <2>2. h[q] = IF q = {} THEN 0 ELSE z[First(q)] + G(Rest(q))[Rest(q)]
    BY <2>1
  <2>3. G(q)[q] = IF q = {} THEN 0 ELSE z[First(q)] + G(q)[Rest(q)]
    BY <1>3, <2>1, SumsAt
  <2>4. ASSUME q # {} PROVE G(q)[Rest(q)] = G(Rest(q))[Rest(q)]
    <3>1. Rest(q) \in SUBSET r /\ Rest(q) # r /\ Rest(q) \subseteq q
      BY <2>1, <2>4, FirstIn
    <3>2. Sums(G(q), z, q) /\ Sums(G(Rest(q)), z, Rest(q))
      BY <1>3, <2>1, <3>1
    <3> HIDE DEF G, Rest, q
    <3> QED BY <2>1, <3>1, <3>2, SumsAgree
  <2> QED BY <2>2, <2>3, <2>4
<1>5. Sums(h, z, r)
  <2>1. ASSUME NEW s \in SUBSET r
        PROVE  h[s] = IF s = {} THEN 0 ELSE z[First(s)] + h[s \ {First(s)}]
    <3>1. h[s] = IF s = {} THEN 0 ELSE z[First(s)] + G(Rest(s))[Rest(s)]
      OBVIOUS
    <3>2. s # {} => h[Rest(s)] = G(Rest(s))[Rest(s)]
      BY <1>4
    <3> HIDE DEF h, G
    <3> QED BY <3>1, <3>2
  <2>2. h = [s \in SUBSET r |-> h[s]]
    OBVIOUS
  <2> HIDE DEF h
  <2>3. [s \in SUBSET r |-> h[s]] = [s \in SUBSET r |-> IF s = {} THEN 0 ELSE z[First(s)] + h[s \ {First(s)}]]
    BY <2>1
  <2> QED BY <2>2, <2>3 DEF Sums
<1> QED BY <1>2, <1>5

(* The sum is taken element by element. *)
LEMMA SumFirst ==
  ASSUME NEW z, NEW S, IsFiniteSet(S)
  PROVE  SumOf(z, S) = IF S = {} THEN 0 ELSE z[First(S)] + SumOf(z, S \ {First(S)})
<1> DEFINE g == CHOOSE f : Sums(f, z, S)
           R == S \ {First(S)}
           h == CHOOSE f : Sums(f, z, R)
<1>1. Sums(g, z, S) /\ Sums(h, z, R)
  <2>1. IsFiniteSet(R)
    BY FS_Subset
  <2>2. (\E f : Sums(f, z, S)) /\ (\E f : Sums(f, z, R))
    BY <2>1, SumsExist
  <2> HIDE DEF R
  <2> QED BY <2>2, Zenon
<1>2. SumOf(z, S) = g[S] /\ SumOf(z, R) = h[R]
  BY SumIs
<1>3. R \subseteq S
  OBVIOUS
<1> HIDE DEF g, h, R
<1>4. g[R] = h[R]
  BY <1>1, <1>3, SumsAgree
<1>5. g[S] = IF S = {} THEN 0 ELSE z[First(S)] + g[S \ {First(S)}]
  BY <1>1, SumsAt
<1> QED BY <1>2, <1>4, <1>5 DEF R

(* A sum of naturals is one; it does not depend on the order; it grows with the
   set; and it depends on the elements' values only. *)
LEMMA SumType ==
  ASSUME NEW z, NEW S, IsFiniteSet(S), \A k \in S : z[k] \in Nat
  PROVE  SumOf(z, S) \in Nat
<1> DEFINE T == {r \in SUBSET S : SumOf(z, r) \notin Nat}
<1> SUFFICES ASSUME T # {} PROVE FALSE
  OBVIOUS
<1>1. PICK r \in T : \A q \in T : q \subseteq r => q = r
  <2>1. T \subseteq SUBSET S
    OBVIOUS
  <2> HIDE DEF T
  <2> QED BY <2>1, SmallestSet
<1>2. r \in SUBSET S /\ IsFiniteSet(r) /\ SumOf(z, r) \notin Nat
  BY <1>1, FS_Subset
<1>3. SumOf(z, r) = IF r = {} THEN 0 ELSE z[First(r)] + SumOf(z, r \ {First(r)})
  BY <1>2, SumFirst
<1>4. ASSUME r # {} PROVE SumOf(z, r \ {First(r)}) \in Nat /\ z[First(r)] \in Nat
  <2>1. First(r) \in r
    BY <1>4, FirstIn
  <2>2. r \ {First(r)} \notin T
    BY <1>1, <2>1
  <2> QED BY <1>2, <2>1, <2>2
<1> HIDE DEF T
<1> QED BY <1>2, <1>3, <1>4

LEMMA SumAny ==
  ASSUME NEW z, NEW S, IsFiniteSet(S), \A k \in S : z[k] \in Nat, NEW x \in S
  PROVE  SumOf(z, S) = z[x] + SumOf(z, S \ {x})
<1> DEFINE T == {r \in SUBSET S : \E y \in r : SumOf(z, r) # z[y] + SumOf(z, r \ {y})}
<1> SUFFICES ASSUME T # {} PROVE FALSE
  OBVIOUS
<1>1. PICK r \in T : \A q \in T : q \subseteq r => q = r
  <2>1. T \subseteq SUBSET S
    OBVIOUS
  <2> HIDE DEF T
  <2> QED BY <2>1, SmallestSet
<1>2. PICK y \in r : SumOf(z, r) # z[y] + SumOf(z, r \ {y})
  BY <1>1
<1>3. r \subseteq S /\ r # {} /\ IsFiniteSet(r)
  BY <1>1, <1>2, FS_Subset
<1> DEFINE f == First(r)
           rest == (r \ {f}) \ {y}
<1>4. f \in r /\ SumOf(z, r) = z[f] + SumOf(z, r \ {f})
  BY <1>3, FirstIn, SumFirst
<1> HIDE DEF f
<1>5. y # f
  BY <1>2, <1>4
<1>6. SumOf(z, r \ {f}) = z[y] + SumOf(z, rest)
  <2>1. r \ {f} \notin T /\ r \ {f} \in SUBSET S /\ y \in r \ {f}
    BY <1>1, <1>3, <1>4, <1>5
  <2> QED BY <2>1
<1>7. SumOf(z, r \ {y}) = z[f] + SumOf(z, rest)
  <2>1. r \ {y} \notin T /\ r \ {y} \in SUBSET S /\ f \in r \ {y} /\ (r \ {y}) \ {f} = rest
    BY <1>1, <1>2, <1>3, <1>4, <1>5
  <2> QED BY <2>1
<1>8. IsFiniteSet(rest) /\ rest \subseteq S /\ z[f] \in Nat /\ z[y] \in Nat
  BY <1>3, <1>4, FS_Subset
<1>9. SumOf(z, rest) \in Nat
  <2> HIDE DEF rest
  <2> QED BY <1>8, SumType
<1> HIDE DEF T, rest
<1> QED BY <1>2, <1>4, <1>6, <1>7, <1>8, <1>9

LEMMA SumSubset ==
  ASSUME NEW z, NEW S, IsFiniteSet(S), \A k \in S : z[k] \in Nat, NEW A \in SUBSET S
  PROVE  SumOf(z, A) <= SumOf(z, S)
<1> DEFINE T == {r \in SUBSET S : A \subseteq r /\ ~(SumOf(z, A) <= SumOf(z, r))}
<1> SUFFICES ASSUME T # {} PROVE FALSE
  OBVIOUS
<1>1. PICK r \in T : \A q \in T : q \subseteq r => q = r
  <2>1. T \subseteq SUBSET S
    OBVIOUS
  <2> HIDE DEF T
  <2> QED BY <2>1, SmallestSet
<1>2. r \subseteq S /\ A \subseteq r /\ ~(SumOf(z, A) <= SumOf(z, r)) /\ IsFiniteSet(r) /\ IsFiniteSet(A)
  BY <1>1, FS_Subset
<1>3. SumOf(z, A) \in Nat
  BY <1>2, SumType
<1>4. PICK x \in r : x \notin A
  BY <1>2, <1>3
<1>5. SumOf(z, r) = z[x] + SumOf(z, r \ {x})
  BY <1>2, SumAny
<1>6. SumOf(z, A) <= SumOf(z, r \ {x})
  <2>1. r \ {x} \notin T /\ A \subseteq r \ {x} /\ r \ {x} \in SUBSET S
    BY <1>1, <1>2, <1>4
  <2> QED BY <2>1
<1>7. SumOf(z, r \ {x}) \in Nat /\ z[x] \in Nat
  <2>1. IsFiniteSet(r \ {x})
    BY <1>2, FS_Subset
  <2>2. \A k \in r \ {x} : z[k] \in Nat
    BY <1>2
  <2> QED BY <1>2, <2>1, <2>2, SumType
<1> HIDE DEF T
<1> QED BY <1>2, <1>3, <1>5, <1>6, <1>7

LEMMA SumEqual ==
  ASSUME NEW z, NEW y, NEW S, IsFiniteSet(S), \A k \in S : z[k] = y[k]
  PROVE  SumOf(z, S) = SumOf(y, S)
<1> DEFINE T == {r \in SUBSET S : SumOf(z, r) # SumOf(y, r)}
<1> SUFFICES ASSUME T # {} PROVE FALSE
  OBVIOUS
<1>1. PICK r \in T : \A q \in T : q \subseteq r => q = r
  <2>1. T \subseteq SUBSET S
    OBVIOUS
  <2> HIDE DEF T
  <2> QED BY <2>1, SmallestSet
<1>2. r \in SUBSET S /\ IsFiniteSet(r) /\ SumOf(z, r) # SumOf(y, r)
  BY <1>1, FS_Subset
<1>3. SumOf(z, r) = IF r = {} THEN 0 ELSE z[First(r)] + SumOf(z, r \ {First(r)})
  BY <1>2, SumFirst
<1>4. SumOf(y, r) = IF r = {} THEN 0 ELSE y[First(r)] + SumOf(y, r \ {First(r)})
  BY <1>2, SumFirst
<1>5. ASSUME r # {} PROVE SumOf(z, r \ {First(r)}) = SumOf(y, r \ {First(r)}) /\ z[First(r)] = y[First(r)]
  <2>1. First(r) \in r
    BY <1>5, FirstIn
  <2>2. r \ {First(r)} \notin T
    BY <1>1, <2>1
  <2> QED BY <1>2, <2>1, <2>2
<1> HIDE DEF T
<1> QED BY <1>2, <1>3, <1>4, <1>5

-----------------------------------------------------------------------------
(* The bytes of a batch. *)

\* batchSize is what the batch has; a batch over the limit is a single row.
BytesInv ==
  /\ batchSize = SumOf(size, batch)
  /\ pc # "done" => batchSize <= MaxBatchSizeBytes \/ Cardinality(batch) = 1

LEMMA BytesIs == \A rows : Bytes(rows) = SumOf(size, rows)
BY DEF Bytes, SumOf

LEMMA BytesInit == Init => BytesInv
<1> SUFFICES ASSUME Init PROVE BytesInv
  OBVIOUS
<1>1. SumOf(size, {}) = 0
  BY FS_EmptySet, SumFirst
<1>2. SumOf(size, batch) = 0
  BY <1>1 DEF Init
<1> QED BY <1>2, FirehoseAssumption DEF Init, BytesInv

\* One more row adds its bytes.
LEMMA RowAdded ==
  ASSUME NEW z, NEW records, IsFiniteSet(records), NEW k, k \notin records,
         \A j \in records : z[j] \in Nat, z[k] \in Nat
  PROVE  SumOf(z, records \cup {k}) = SumOf(z, records) + z[k] /\ SumOf(z, records) \in Nat
<1> DEFINE more == records \cup {k}
<1>1. IsFiniteSet(more) /\ (\A j \in more : z[j] \in Nat) /\ k \in more /\ more \ {k} = records
  BY FS_AddElement
<1>2. SumOf(z, records) \in Nat
  BY SumType
<1> HIDE DEF more
<1>3. SumOf(z, more) = z[k] + SumOf(z, more \ {k})
  BY <1>1, SumAny
<1> QED BY <1>1, <1>2, <1>3 DEF more

LEMMA BytesNext ==
  ASSUME FirehoseInv, BytesInv, [Next]_vars
  PROVE  BytesInv'
<1> USE FirehoseAssumption
<1>0. TypeOK /\ BatchInv /\ StoreInv
  BY DEF FirehoseInv
<1>a. /\ size \in Seq(Sizes) /\ batch \subseteq Rows /\ IsFiniteSet(batch)
      /\ \A k \in Rows : size[k] \in Nat
  <2>1. \A k \in Rows : size[k] \in Sizes
    BY <1>0, ElementOfSeq DEF TypeOK, Rows
  <2> QED BY <1>0, <2>1 DEF TypeOK, BatchInv
<1>b. batchSize = SumOf(size, batch) /\ batchSize \in Nat
  BY <1>0 DEF BytesInv, TypeOK
<1>1. ASSUME UNCHANGED <<size, batch, batchSize>>, pc # "done" \/ pc' = "done" PROVE BytesInv'
  BY <1>1 DEF BytesInv
<1>2. CASE Start \/ BadMessage \/ LastBatch \/ GiveUp \/ PutRecordBatch \/ PutRecordBatchFails
  BY <1>1, <1>2 DEF Start, BadMessage, LastBatch, GiveUp, PutRecordBatch, PutRecordBatchFails,
                    Calling, Return, batchVars
<1>3. ASSUME NEW bytes \in Sizes, Receive(bytes)
      PROVE  /\ Len(size) + 1 \notin batch /\ size'[Len(size) + 1] = bytes /\ bytes \in Nat
             /\ \A j \in batch : size[j] \in Nat /\ size'[j] = size[j]
  <2>1. Len(size) + 1 \notin Rows /\ size'[Len(size) + 1] = bytes /\ \A k \in Rows : size'[k] = size[k]
    BY <1>0, <1>3, RowAppended
  <2> QED BY <1>a, <2>1
<1>4. ASSUME NEW bytes \in Sizes, Receive(bytes), UNCHANGED batchVars PROVE BytesInv'
  <2>1. SumOf(size', batch) = SumOf(size, batch)
    <3>1. \A j \in batch : size'[j] = size[j]
      BY <1>3, <1>4
    <3> HIDE DEF batchVars
    <3> QED BY <1>a, <3>1, SumEqual
  <2>2. batch' = batch /\ batchSize' = batchSize /\ pc = "row"
    BY <1>4 DEF batchVars, Receive
  <2> QED BY <1>b, <2>1, <2>2 DEF BytesInv
<1>5. ASSUME NEW bytes \in Sizes, SkipRow(bytes) PROVE BytesInv'
  BY <1>4, <1>5 DEF SkipRow
<1>6. ASSUME NEW bytes \in Sizes, AddRow(bytes) PROVE BytesInv'
  <2> DEFINE k == Len(size) + 1
  <2>1. pc = "row" /\ Receive(bytes)
    BY <1>6 DEF AddRow, Receive
  <2>2. CASE UNCHANGED batchVars
    BY <1>4, <2>1, <2>2
  <2>3. CASE bytes + batchSize <= MaxBatchSizeBytes /\ Add(k, bytes, batch, batchSize)
    <3>1. batch' = batch \cup {k} /\ batchSize' = batchSize + bytes
      BY <2>3 DEF Add
    <3>2. SumOf(size', batch \cup {k}) = SumOf(size, batch) + size'[k] /\ size'[k] = bytes
      <4>1. /\ k \notin batch /\ size'[k] = bytes /\ bytes \in Nat
            /\ \A j \in batch : size[j] \in Nat /\ size'[j] = size[j]
        BY <1>3, <2>1
      <4> HIDE DEF k
      <4> DEFINE y == size'
      <4>2. IsFiniteSet(batch) /\ k \notin batch /\ y[k] \in Nat
        BY <1>a, <4>1
      <4>3. \A j \in batch : size[j] \in Nat /\ y[j] = size[j]
        BY <4>1
      <4> HIDE DEF y
      <4>4. SumOf(y, batch \cup {k}) = SumOf(size, batch) + y[k]
        <5>1. SumOf(y, batch) = SumOf(size, batch)
          BY <4>2, <4>3, SumEqual
        <5>2. \A j \in batch : y[j] \in Nat
          BY <4>3
        <5> QED BY <4>2, <5>1, <5>2, RowAdded
      <4> QED BY <4>1, <4>4 DEF y
    <3> HIDE DEF k
    <3>3. bytes \in Nat
      OBVIOUS
    <3> QED BY <1>b, <2>3, <3>1, <3>2, <3>3 DEF BytesInv
  <2>4. bytes \in Nat /\ (bytes + batchSize > MaxBatchSizeBytes <=> ~(bytes + batchSize <= MaxBatchSizeBytes))
    BY <1>b
  <2> QED BY <1>6, <2>2, <2>3, <2>4 DEF AddRow
<1>7. CASE Sent
  <2>1. pc = "send" /\ UNCHANGED size
    BY <1>7 DEF Sent
  <2>2. SumOf(size, {}) = 0
    BY FS_EmptySet, SumFirst
  <2>4. CASE after = "append" /\ Add(Len(size), size[Len(size)], {}, 0)
    <3> DEFINE k == Len(size)
    <3>1. batch' = {k} /\ batchSize' = size[k]
      <4>1. size[k] \in Nat
        <5>1. Len(size) \in Nat /\ Len(size) # 0
          BY <1>0, <2>1, <2>4, LenProperties DEF StoreInv, TypeOK
        <5>2. k \in Rows
          BY <5>1 DEF Rows
        <5> QED BY <1>a, <5>2
      <4> QED BY <2>4, <4>1 DEF Add
    <3>2. size[k] \in Nat
      BY <1>0, <2>1, <2>4, <1>a, LenProperties DEF StoreInv, TypeOK, Rows
    <3> HIDE DEF k
    <3>3. SumOf(size, {} \cup {k}) = SumOf(size, {}) + size[k]
      <4>1. IsFiniteSet({}) /\ k \notin {} /\ \A j \in {} : size[j] \in Nat
        BY FS_EmptySet
      <4> QED BY <3>2, <4>1, RowAdded
    <3>4. Cardinality({k}) = 1 /\ {} \cup {k} = {k}
      BY FS_Singleton
    <3> QED BY <2>1, <2>2, <3>1, <3>2, <3>3, <3>4 DEF BytesInv
  <2>5. CASE batch' = {} /\ batchSize' = 0
    BY <2>1, <2>2, <2>5 DEF BytesInv
  <2>6. CASE Return("ok") /\ UNCHANGED batchVars
    BY <1>1, <2>1, <2>6 DEF Return, batchVars
  <2> QED BY <1>7, <2>4, <2>5, <2>6 DEF Sent
<1>8. CASE UNCHANGED vars
  BY <1>1, <1>8 DEF vars, batchVars
<1>9. CASE Terminated
  BY <1>8, <1>9 DEF Terminated
<1> QED BY <1>2, <1>5, <1>6, <1>7, <1>8, <1>9 DEF Next

-----------------------------------------------------------------------------
(* The results. *)

\* FirehoseInv holds in every state of every run.
THEOREM FirehoseInvariant == Spec => []FirehoseInv
<1> QED BY FirehoseInit, FirehoseNext, PTL DEF Spec

\* Every variable of the writer keeps its type.
THEOREM FirehoseTypeCorrect == Spec => []TypeOK
<1>1. FirehoseInv => TypeOK
  BY DEF FirehoseInv
<1> QED BY <1>1, FirehoseInvariant, PTL

(* No call of PutRecordBatch, first or repeated, has more records than
   max_batch_records. *)
THEOREM RecordLimitKept == Spec => []RecordLimit
<1>1. FirehoseInv => RecordLimit
  <2> SUFFICES ASSUME FirehoseInv, Calling PROVE Cardinality(sending) <= MaxBatchRecords
    BY DEF RecordLimit
  <2>1. IsFiniteSet(batch) /\ sending \in SUBSET batch /\ Cardinality(batch) <= MaxBatchRecords
    BY DEF FirehoseInv, BatchInv, Calling
  <2>2. /\ Cardinality(sending) <= Cardinality(batch) /\ IsFiniteSet(sending)
    BY <2>1, FS_Subset
  <2>3. Cardinality(sending) \in Nat /\ Cardinality(batch) \in Nat
    BY <2>1, <2>2, FS_CardinalityType
  <2> QED BY <2>1, <2>2, <2>3, FirehoseAssumption
<1> QED BY <1>1, FirehoseInvariant, PTL

\* No row is sent again that the service has answered to have stored.
THEOREM NoRowSentTwice == Spec => []NoRowTwice
<1>1. FirehoseInv => NoRowTwice
  BY DEF FirehoseInv, StoreInv, NoRowTwice
<1> QED BY <1>1, FirehoseInvariant, PTL

\* When Write returns nil, every row that is not too large is stored.
THEOREM WriteIsComplete == Spec => []CompleteOnOk
<1>1. FirehoseInv => CompleteOnOk
  BY DEF FirehoseInv, StoreInv, CompleteOnOk
<1> QED BY <1>1, FirehoseInvariant, PTL

(* No call of PutRecordBatch, first or repeated, has more bytes than
   max_batch_size_bytes, but for a single record that is larger by itself: the
   code counts bytes as rows come and starts at zero with each batch. *)
THEOREM ByteLimitKept == Spec => []ByteLimit
<1>1. Init => BytesInv
  BY BytesInit
<1>2. FirehoseInv /\ BytesInv /\ [Next]_vars => BytesInv'
  BY BytesNext
<1>3. FirehoseInv /\ BytesInv => ByteLimit
  <2> SUFFICES ASSUME FirehoseInv, BytesInv, Calling
      PROVE  Bytes(sending) <= MaxBatchSizeBytes \/ Cardinality(sending) = 1
    BY DEF ByteLimit
  <2>1. /\ IsFiniteSet(batch) /\ sending \in SUBSET batch /\ sending # {} /\ pc = "send"
        /\ batchSize \in Nat
    BY DEF FirehoseInv, BatchInv, TypeOK, Calling
  <2>2. \A k \in batch : size[k] \in Nat
    <3>1. \A k \in Rows : size[k] \in Sizes
      BY ElementOfSeq DEF FirehoseInv, TypeOK, Rows
    <3> QED BY <3>1, FirehoseAssumption DEF FirehoseInv, TypeOK
  <2>3. CASE batchSize <= MaxBatchSizeBytes
    <3>1. SumOf(size, sending) <= SumOf(size, batch)
      BY <2>1, <2>2, SumSubset
    <3>2. SumOf(size, sending) \in Nat
      <4>1. IsFiniteSet(sending) /\ \A k \in sending : size[k] \in Nat
        BY <2>1, <2>2, FS_Subset
      <4> QED BY <4>1, SumType
    <3>3. SumOf(size, batch) = batchSize /\ Bytes(sending) = SumOf(size, sending)
      BY BytesIs DEF BytesInv
    <3> QED BY <2>1, <2>3, <3>1, <3>2, <3>3, FirehoseAssumption
  <2>4. CASE Cardinality(batch) = 1
    <3>1. /\ IsFiniteSet(sending) /\ Cardinality(sending) <= 1
      BY <2>1, <2>4, FS_Subset
    <3>2. Cardinality(sending) \in Nat /\ Cardinality(sending) # 0
      BY <2>1, <3>1, FS_CardinalityType, FS_EmptySet
    <3> QED BY <3>1, <3>2
  <2> QED BY <2>1, <2>3, <2>4 DEF BytesInv
<1> QED BY <1>1, <1>2, <1>3, FirehoseInvariant, PTL DEF Spec
=============================================================================
