------------------------------ MODULE Firehose ------------------------------
(***************************************************************************)
(* plugins/destination/firehose/client/write.go: rows are collected into   *)
(* batches within the limits of the spec, and the records of a batch that  *)
(* the service refuses are sent again.                                     *)
(*                                                                         *)
(* Row k is the k-th row of the inserts, and size[k] the bytes of its JSON *)
(* object. A batch is the set of its rows: the service keeps no order      *)
(* among records of which some are sent again. Migrate and delete messages *)
(* are ignored by the code and left out here. PutRecordBatch is external.  *)
(***************************************************************************)
EXTENDS Naturals, Sequences, FiniteSets, FiniteSetsExt

CONSTANTS
  MaxRetries,          \* of the spec; SetDefaults makes each at least 1
  MaxRecordSizeBytes,
  MaxBatchSizeBytes,
  MaxBatchRecords,
  Sizes,               \* the sizes that rows have
  MaxRows              \* bound: rows of a sync

ASSUME FirehoseAssumption ==
  /\ MaxRetries \in Nat \ {0} /\ MaxRecordSizeBytes \in Nat \ {0}
  /\ MaxBatchSizeBytes \in Nat \ {0} /\ MaxBatchRecords \in Nat \ {0}
  /\ Sizes \subseteq Nat \ {0}
  /\ MaxRows \in Nat

VARIABLES
  pc,         \* "start", "row" (the loop), "send" (in sendBatch), "done"
  size,       \* history: the sizes of the rows so far
  batch,      \* recordsBatchInput.Records
  batchSize,
  sending,    \* what this call of sendBatch has to send
  count,
  after,      \* where its caller goes on: "append", "reset", "end"
  stored,     \* rows the service has
  twice,      \* history: rows it got more than once
  ret,        \* what Write returned: "none", "ok", "err"
  gaveUp      \* history: the error was "max retries reached"

batchVars == <<batch, batchSize>>
sendVars  == <<sending, count, after>>
serviceVars == <<stored, twice>>
vars == <<pc, size, batchVars, sendVars, serviceVars, ret, gaveUp>>

Rows == 1..Len(size)
Fits(k) == size[k] <= MaxRecordSizeBytes

TypeOK ==
  /\ pc \in {"start", "row", "send", "done"}
  /\ size \in Seq(Sizes) /\ Len(size) <= MaxRows
  /\ batch \subseteq Rows /\ batchSize \in Nat
  /\ sending \subseteq Rows /\ count \in 0..MaxRetries
  /\ after \in {"append", "reset", "end"}
  /\ stored \subseteq Rows /\ twice \subseteq Rows
  /\ ret \in {"none", "ok", "err"} /\ gaveUp \in BOOLEAN

Init ==
  /\ pc = "start" /\ size = <<>> /\ batch = {} /\ batchSize = 0
  /\ sending = {} /\ count = 0 /\ after = "end"
  /\ stored = {} /\ twice = {} /\ ret = "none" /\ gaveUp = FALSE

Return(result) == pc' = "done" /\ ret' = result

-----------------------------------------------------------------------------
(* Write. *)

\* The ARN of the spec need not have the two parts Write wants.
Start ==
  /\ pc = "start"
  /\ \/ pc' = "row" /\ UNCHANGED ret
     \/ Return("err")
  /\ UNCHANGED <<size, batchVars, sendVars, serviceVars, gaveUp>>

SendBatch(records, next) ==
  /\ pc' = "send" /\ sending' = records /\ count' = 0 /\ after' = next

\* Mutant: a batch is full when it has more than MaxBatchRecords.
AddLate(k, bytes, records, before) ==
  /\ batch' = records \cup {k}
  /\ batchSize' = before + bytes
  /\ IF Cardinality(records) + 1 > MaxBatchRecords
     THEN SendBatch(records \cup {k}, "reset")
     ELSE pc' = "row" /\ UNCHANGED sendVars

\* Row k is added to a batch of these records, which is sent when it is full.
Add(k, bytes, records, before) ==
  /\ batch' = records \cup {k}
  /\ batchSize' = before + bytes
  /\ IF Cardinality(records) + 1 >= MaxBatchRecords
     THEN SendBatch(records \cup {k}, "reset")
     ELSE pc' = "row" /\ UNCHANGED sendVars

Receive(bytes) ==
  /\ pc = "row" /\ Len(size) < MaxRows
  /\ size' = Append(size, bytes)
  /\ UNCHANGED <<serviceVars, ret, gaveUp>>

\* A row that is too large is left out.
SkipRow(bytes) ==
  /\ Receive(bytes) /\ bytes > MaxRecordSizeBytes
  /\ UNCHANGED <<pc, batchVars, sendVars>>

\* Mutant: the batch is sent one row too late.
AddRowLate(bytes) ==
  /\ Receive(bytes) /\ bytes <= MaxRecordSizeBytes
  /\ IF batchSize > MaxBatchSizeBytes
     THEN SendBatch(batch, "append") /\ UNCHANGED batchVars
     ELSE Add(Len(size) + 1, bytes, batch, batchSize)

\* The batch is sent first when the row would exceed its size.
AddRow(bytes) ==
  /\ Receive(bytes) /\ bytes <= MaxRecordSizeBytes
  /\ IF bytes + batchSize > MaxBatchSizeBytes
     THEN SendBatch(batch, "append") /\ UNCHANGED batchVars
     ELSE Add(Len(size) + 1, bytes, batch, batchSize)

\* A row cannot be marshalled, or a message is of an unknown type.
BadMessage ==
  /\ pc = "row" /\ Return("err")
  /\ UNCHANGED <<size, batchVars, sendVars, serviceVars, gaveUp>>

\* The channel is closed: the last batch is sent.
LastBatch ==
  /\ pc = "row" /\ SendBatch(batch, "end")
  /\ UNCHANGED <<size, batchVars, serviceVars, ret, gaveUp>>

-----------------------------------------------------------------------------
(* sendBatch. *)

\* Mutant: one try too many.
CallingOnceMore == pc = "send" /\ count <= MaxRetries /\ sending # {}

\* It is about to call PutRecordBatch.
Calling == pc = "send" /\ count < MaxRetries /\ sending # {}

\* The limit of tries is looked at before the records that are left.
GiveUp ==
  /\ pc = "send" /\ count >= MaxRetries
  /\ Return("err") /\ gaveUp' = TRUE
  /\ UNCHANGED <<size, batchVars, sendVars, serviceVars>>

Stores(rows) ==
  /\ stored' = stored \cup rows
  /\ twice' = twice \cup (rows \cap stored)

\* Mutant: all records are sent again when one was refused.
FailedRecordsAll(rows) == IF rows = sending THEN {} ELSE sending

\* getFailedRecords: those without a RecordId, when the service stores rows.
FailedRecords(rows) == sending \ rows

\* Mutant: the count starts again at the limit.
PutRecordBatchForgets ==
  /\ Calling
  /\ \E rows \in SUBSET sending : Stores(rows) /\ sending' = FailedRecords(rows)
  /\ count' = (count + 1) % MaxRetries
  /\ UNCHANGED <<pc, size, batchVars, after, ret, gaveUp>>

PutRecordBatch ==
  /\ Calling
  /\ \E rows \in SUBSET sending : Stores(rows) /\ sending' = FailedRecords(rows)
  /\ count' = count + 1
  /\ UNCHANGED <<pc, size, batchVars, after, ret, gaveUp>>

\* It returns an error; what the service stored is not known.
PutRecordBatchFails ==
  /\ Calling
  /\ \E rows \in SUBSET sending : Stores(rows)
  /\ Return("err")
  /\ UNCHANGED <<size, batchVars, sendVars, gaveUp>>

\* Mutant: the row that did not fit is forgotten.
SentForgetsRow ==
  /\ pc = "send" /\ count < MaxRetries /\ sending = {}
  /\ \/ /\ after \in {"append", "reset"}
        /\ batch' = {} /\ batchSize' = 0 /\ pc' = "row"
        /\ UNCHANGED <<sendVars, ret>>
     \/ after = "end" /\ Return("ok") /\ UNCHANGED <<batchVars, sendVars>>
  /\ UNCHANGED <<size, serviceVars, gaveUp>>

\* No record is left: the caller goes on.
Sent ==
  /\ pc = "send" /\ count < MaxRetries /\ sending = {}
  /\ \/ after = "append" /\ Add(Len(size), size[Len(size)], {}, 0) /\ UNCHANGED ret
     \/ /\ after = "reset"
        /\ batch' = {} /\ batchSize' = 0 /\ pc' = "row"
        /\ UNCHANGED <<sendVars, ret>>
     \/ after = "end" /\ Return("ok") /\ UNCHANGED <<batchVars, sendVars>>
  /\ UNCHANGED <<size, serviceVars, gaveUp>>

Terminated == pc = "done" /\ UNCHANGED vars

Next ==
  \/ Start \/ BadMessage \/ LastBatch
  \/ \E bytes \in Sizes : SkipRow(bytes) \/ AddRow(bytes)
  \/ GiveUp \/ PutRecordBatch \/ PutRecordBatchFails \/ Sent
  \/ Terminated

Spec == Init /\ [][Next]_vars

\* The goroutine runs on, and the service answers every call.
FairSpec == Spec /\ WF_vars(Next)

-----------------------------------------------------------------------------
(* Properties. *)

(* No call has more records than max_batch_records, whichever limit made the
   code send the batch, nor does a retry. *)
RecordLimit == Calling => Cardinality(sending) <= MaxBatchRecords

Bytes(rows) == MapThenSumSet(LAMBDA k : size[k], rows)

(* No call has more bytes than max_batch_size_bytes, except for a record that is
   larger than that by itself, which goes alone. *)
ByteLimit ==
  Calling => Bytes(sending) <= MaxBatchSizeBytes \/ Cardinality(sending) = 1

(* The service gets no row twice: a retry has only the records it refused, and a
   batch is emptied before the next one. *)
NoRowTwice == twice = {}

(* When Write returns nil, the service has every row that is not too large. *)
CompleteOnOk == ret = "ok" => \A k \in Rows : Fits(k) => k \in stored

(* Write returns, also when the service refuses the same record for ever. *)
WriteEnds == <>(pc = "done")

(* Amount of retries to perform when writing a batch: writing it fails for want
   of retries only when a record is still to be sent. *)
GivesUpWithRecords == gaveUp => sending # {}
=============================================================================
