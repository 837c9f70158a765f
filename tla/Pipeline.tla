------------------------------ MODULE Pipeline ------------------------------
(***************************************************************************)
(* cli/internal/transformerpipeline: the pipeline of transform clients of  *)
(* one destination, with the goroutine of sync_v3.go that feeds it.        *)
(*                                                                         *)
(* Goroutines: the feeder (the caller of Send), one send goroutine per     *)
(* call of Send, and per client a main loop (startBlocking) and a receive  *)
(* goroutine. The transformer plugins, the destination and the gRPC        *)
(* streams between them are external. Record k is the k-th record of the   *)
(* source; stage i is clientWrappers[i-1].                                 *)
(***************************************************************************)
EXTENDS Naturals, Sequences

CONSTANTS
  N,           \* how many clientWrappers the pipeline has
  Identity,    \* TRUE when no transformer is configured (identityTransformer)
  MaxRecords,  \* bound: records the source may offer
  Cap,         \* bound: messages one direction of a gRPC stream buffers
  Timing,      \* "prompt" or "slow", see TickPossible
  Faults       \* which of "source", "transformer", "destination", "cancel" happen

ASSUME PipelineAssumption ==
  /\ N \in Nat \ {0}
  /\ Identity \in BOOLEAN
  /\ Identity => N = 1
  /\ MaxRecords \in Nat
  /\ Cap \in Nat \ {0}
  /\ Timing \in {"prompt", "slow"}
  /\ Faults \subseteq {"source", "transformer", "destination", "cancel"}

Stages  == 1..N
Records == 1..MaxRecords
Slot    == 0..MaxRecords     \* a record, or 0 for none

VARIABLES
  feeder,     \* "recv" (between two Sends), "send" (inside Send), "done"
  feederErr,  \* the feeder returned an error
  sent,       \* records the feeder has called Send with
  sendg,      \* Send's goroutine: "none", "blocked", "ok", "err"
  isClosed,   \* clientWrapper.isClosed
  in, out,    \* the two directions of each transform stream
  eof,        \* CloseSend was called on the stream
  broken,     \* the stream has ended with an error
  recvRec,    \* the record the receive goroutine offers on recvCh
  recvErr,    \* the error it offers on errCh: "nil", "eof", "err"
  loop,       \* startBlocking: "select", "send" (in nextSendFn), "done"
  req,        \* the record startBlocking passes to nextSendFn
  loopErr,    \* startBlocking returned an error
  delivered,  \* records written to the destination's write stream
  destDown,   \* the write stream has failed
  cancelled,  \* the command's context is cancelled
  passed      \* history: records that stage i has passed on; passed[0]: entered

feederVars == <<feeder, feederErr, sent>>
streamVars == <<in, out, eof, broken>>
recvVars   == <<recvRec, recvErr>>
loopVars   == <<loop, req, loopErr>>
destVars   == <<delivered, destDown>>
vars == <<feederVars, sendg, isClosed, streamVars, recvVars, loopVars, destVars,
          cancelled, passed>>

TypeOK ==
  /\ feeder \in {"recv", "send", "done"}
  /\ feederErr \in BOOLEAN
  /\ sent \in 0..MaxRecords
  /\ sendg \in {"none", "blocked", "ok", "err"}
  /\ isClosed \in [Stages -> BOOLEAN]
  /\ in \in [Stages -> Seq(Records)]
  /\ out \in [Stages -> Seq(Records)]
  /\ eof \in [Stages -> BOOLEAN]
  /\ broken \in [Stages -> BOOLEAN]
  /\ recvRec \in [Stages -> Slot]
  /\ recvErr \in [Stages -> {"nil", "eof", "err"}]
  /\ loop \in [Stages -> {"select", "send", "done"}]
  /\ req \in [Stages -> Slot]
  /\ loopErr \in [Stages -> BOOLEAN]
  /\ delivered \in Seq(Records)
  /\ destDown \in BOOLEAN
  /\ cancelled \in BOOLEAN
  /\ passed \in [0..N -> 0..MaxRecords]
  /\ \A i \in Stages : loop[i] = "send" => req[i] # 0
  /\ \A i \in Stages : loop[i] = "select" => req[i] = 0

Init ==
  /\ feeder = "recv" /\ feederErr = FALSE /\ sent = 0
  /\ sendg = "none"
  /\ isClosed = [i \in Stages |-> FALSE]
  /\ in = [i \in Stages |-> <<>>] /\ out = [i \in Stages |-> <<>>]
  /\ eof = [i \in Stages |-> FALSE] /\ broken = [i \in Stages |-> FALSE]
  /\ recvRec = [i \in Stages |-> 0] /\ recvErr = [i \in Stages |-> "nil"]
  /\ loop = [i \in Stages |-> "select"] /\ req = [i \in Stages |-> 0]
  /\ loopErr = [i \in Stages |-> FALSE]
  /\ delivered = <<>> /\ destDown = FALSE
  /\ cancelled = FALSE
  /\ passed = [i \in 0..N |-> 0]

-----------------------------------------------------------------------------
(* The feeder: the goroutine of sync_v3.go that reads the source's stream. *)

(* Mutant: Close sets the flag of every wrapper. *)
CloseAll == isClosed' = [i \in Stages |-> TRUE]

(* Close: only the first wrapper's flag is ever set. *)
Close == isClosed' = [isClosed EXCEPT ![1] = TRUE]

(* The feeder returns; its deferred calls close the pipeline. *)
FeederReturns(failed) ==
  /\ feeder' = "done"
  /\ feederErr' = failed
  /\ Close

(* An insert arrives and Send is called: with the pipeline closed it returns
   ErrPipelineClosed and the feeder returns nil, else a goroutine sends. *)
FeedRecord ==
  /\ feeder = "recv" /\ sent < MaxRecords /\ ~cancelled
  /\ sent' = sent + 1
  /\ \/ /\ isClosed[1]
        /\ FeederReturns(FALSE)
        /\ UNCHANGED sendg
     \/ /\ ~isClosed[1]
        /\ feeder' = "send" /\ sendg' = "blocked"
        /\ UNCHANGED <<feederErr, isClosed>>
  /\ UNCHANGED <<streamVars, recvVars, loopVars, destVars, cancelled, passed>>

(* Send's select takes the goroutine's result from sendCh. *)
SendReturns ==
  /\ feeder = "send" /\ sendg \in {"ok", "err"}
  /\ sendg' = "none"
  /\ \/ sendg = "ok" /\ feeder' = "recv" /\ UNCHANGED <<feederErr, isClosed>>
     \/ sendg = "err" /\ FeederReturns(TRUE)
  /\ UNCHANGED <<sent, streamVars, recvVars, loopVars, destVars, cancelled, passed>>

(* Mutant: the timer gives up waiting for the goroutine and reports success. *)
SendTickForgets ==
  /\ feeder = "send"
  /\ feeder' = "recv"
  /\ UNCHANGED <<feederErr, sent, sendg, isClosed, streamVars, recvVars, loopVars,
                 destVars, cancelled, passed>>

(* Send's one second timer finds the pipeline closed; the goroutine stays. *)
SendTick ==
  /\ feeder = "send" /\ isClosed[1]
  /\ FeederReturns(FALSE)
  /\ UNCHANGED <<sent, sendg, streamVars, recvVars, loopVars, destVars, cancelled, passed>>

(* The source's stream ends, or breaks. *)
SourceEnds ==
  /\ feeder = "recv"
  /\ \/ ~cancelled /\ FeederReturns(FALSE)
     \/ (cancelled \/ "source" \in Faults) /\ FeederReturns(TRUE)
  /\ UNCHANGED <<sent, sendg, streamVars, recvVars, loopVars, destVars, cancelled, passed>>

(* Send's goroutine: client.Send on the first stream, which blocks while the
   stream's buffer is full. The identity client has no buffer: its Send
   completes in Receive. *)
SendGoroutine ==
  /\ sendg = "blocked" /\ ~Identity
  /\ \/ /\ ~broken[1] /\ Len(in[1]) < Cap
        /\ in' = [in EXCEPT ![1] = Append(@, sent)]
        /\ passed' = [passed EXCEPT ![0] = sent]
        /\ sendg' = "ok"
     \/ /\ broken[1]
        /\ sendg' = "err"
        /\ UNCHANGED <<in, passed>>
  /\ UNCHANGED <<feederVars, isClosed, out, eof, broken, recvVars, loopVars,
                 destVars, cancelled>>

-----------------------------------------------------------------------------
(* The receive goroutine of stage i. *)

(* Recv returns a record, which the goroutine then offers on recvCh. *)
Receive(i) ==
  /\ recvRec[i] = 0 /\ recvErr[i] = "nil"
  /\ \/ /\ ~Identity /\ out[i] # <<>>
        /\ recvRec' = [recvRec EXCEPT ![i] = Head(out[i])]
        /\ out' = [out EXCEPT ![i] = Tail(@)]
        /\ UNCHANGED <<sendg, passed>>
     \/ /\ Identity /\ sendg = "blocked"
        /\ recvRec' = [recvRec EXCEPT ![i] = sent]
        /\ passed' = [passed EXCEPT ![0] = sent]
        /\ sendg' = "ok"
        /\ UNCHANGED out
  /\ UNCHANGED <<feederVars, isClosed, in, eof, broken, recvErr, loopVars,
                 destVars, cancelled>>

(* Recv returns io.EOF after the last record, or the error that broke the
   stream; the goroutine then offers it on errCh. *)
ReceiveErr(i) ==
  /\ recvRec[i] = 0 /\ recvErr[i] = "nil"
  /\ \/ /\ eof[i] /\ ~broken[i] /\ in[i] = <<>> /\ out[i] = <<>>
        /\ recvErr' = [recvErr EXCEPT ![i] = "eof"]
     \/ /\ broken[i]
        /\ recvErr' = [recvErr EXCEPT ![i] = "err"]
  /\ UNCHANGED <<feederVars, sendg, isClosed, streamVars, recvRec, loopVars,
                 destVars, cancelled, passed>>

-----------------------------------------------------------------------------
(* startBlocking of stage i. *)

(* Mutant: nextClose is a no-op for every stage. *)
NextCloseNothing(i) == eof' = eof

(* nextClose: CloseSend on the next client; the last stage has none. *)
NextClose(i) ==
  eof' = IF i < N THEN [eof EXCEPT ![i + 1] = TRUE] ELSE eof

(* The loop returns. *)
LoopReturns(i, failed) ==
  /\ loop' = [loop EXCEPT ![i] = "done"]
  /\ loopErr' = [loopErr EXCEPT ![i] = failed]

(* Nothing is on its way to the select of stage i. *)
Quiet(i) ==
  /\ in[i] = <<>> /\ out[i] = <<>> /\ recvRec[i] = 0 /\ recvErr[i] = "nil"
  /\ i = 1 => sendg # "blocked"

(* When the one second timer of stage i may win the select. "prompt": a
   record or an error that is on its way arrives within the second. "slow":
   the stage's goroutines are prompt, but its transformer may hold a record
   for longer than a second. *)
TickPossible(i) ==
  \/ Timing = "prompt" /\ Quiet(i)
  \/ Timing = "slow" /\ out[i] = <<>> /\ recvRec[i] = 0 /\ recvErr[i] = "nil"

(* Mutant: the timer does not look at isClosed. *)
SelectTickOpen(i) ==
  /\ loop[i] = "select" /\ TickPossible(i)
  /\ NextClose(i)
  /\ LoopReturns(i, FALSE)
  /\ UNCHANGED <<feederVars, sendg, isClosed, in, out, broken, recvVars, req,
                 destVars, cancelled, passed>>

(* The timer fires on a closed wrapper. On an open one the loop repeats. *)
SelectTick(i) ==
  /\ loop[i] = "select" /\ isClosed[i] /\ TickPossible(i)
  /\ NextClose(i)
  /\ LoopReturns(i, FALSE)
  /\ UNCHANGED <<feederVars, sendg, isClosed, in, out, broken, recvVars, req,
                 destVars, cancelled, passed>>

(* Mutant: recvCh is closed on an error, and its zero value is passed on. *)
SelectRecordZero(i) ==
  /\ loop[i] = "select" /\ (recvRec[i] # 0 \/ recvErr[i] # "nil")
  /\ loop' = [loop EXCEPT ![i] = "send"]
  /\ req' = [req EXCEPT ![i] = recvRec[i]]
  /\ recvRec' = [recvRec EXCEPT ![i] = 0]
  /\ UNCHANGED <<feederVars, sendg, isClosed, streamVars, recvErr, loopErr,
                 destVars, cancelled, passed>>

(* A record from recvCh goes to nextSendFn. *)
SelectRecord(i) ==
  /\ loop[i] = "select" /\ recvRec[i] # 0
  /\ loop' = [loop EXCEPT ![i] = "send"]
  /\ req' = [req EXCEPT ![i] = recvRec[i]]
  /\ recvRec' = [recvRec EXCEPT ![i] = 0]
  /\ UNCHANGED <<feederVars, sendg, isClosed, streamVars, recvErr, loopErr,
                 destVars, cancelled, passed>>

(* An error from errCh: io.EOF closes the next client, any other is returned. *)
SelectErr(i) ==
  /\ loop[i] = "select"
  /\ \/ recvErr[i] = "eof" /\ NextClose(i) /\ LoopReturns(i, FALSE)
     \/ recvErr[i] = "err" /\ LoopReturns(i, TRUE) /\ UNCHANGED eof
  /\ UNCHANGED <<feederVars, sendg, isClosed, in, out, broken, recvVars, req,
                 destVars, cancelled, passed>>

(* Mutant: a failed stream is waited for, not reported. *)
ForwardWaits(i) ==
  /\ i < N /\ loop[i] = "send"
  /\ ~broken[i + 1] /\ Len(in[i + 1]) < Cap
  /\ in' = [in EXCEPT ![i + 1] = Append(@, req[i])]
  /\ passed' = [passed EXCEPT ![i] = @ + 1]
  /\ loop' = [loop EXCEPT ![i] = "select"]
  /\ req' = [req EXCEPT ![i] = 0]
  /\ UNCHANGED <<feederVars, sendg, isClosed, out, eof, broken, recvVars,
                 loopErr, destVars, cancelled>>

(* nextSendFn of a stage with a successor: Send on the next client. *)
Forward(i) ==
  /\ i < N /\ loop[i] = "send"
  /\ \/ /\ ~broken[i + 1] /\ Len(in[i + 1]) < Cap
        /\ in' = [in EXCEPT ![i + 1] = Append(@, req[i])]
        /\ passed' = [passed EXCEPT ![i] = @ + 1]
        /\ loop' = [loop EXCEPT ![i] = "select"]
        /\ req' = [req EXCEPT ![i] = 0]
        /\ UNCHANGED loopErr
     \/ /\ broken[i + 1]
        /\ LoopReturns(i, TRUE)
        /\ UNCHANGED <<in, passed, req>>
  /\ UNCHANGED <<feederVars, sendg, isClosed, out, eof, broken, recvVars,
                 destVars, cancelled>>

(* Mutant: a destination error is returned without closing the pipeline. *)
OutputNoClose ==
  /\ loop[N] = "send"
  /\ \/ /\ ~destDown
        /\ delivered' = Append(delivered, req[N])
        /\ passed' = [passed EXCEPT ![N] = @ + 1]
        /\ loop' = [loop EXCEPT ![N] = "select"]
        /\ req' = [req EXCEPT ![N] = 0]
        /\ UNCHANGED loopErr
     \/ /\ destDown
        /\ LoopReturns(N, TRUE)
        /\ UNCHANGED <<delivered, passed, req>>
  /\ UNCHANGED <<feederVars, sendg, isClosed, streamVars, recvVars, destDown,
                 cancelled>>

(* nextSendFn of the last stage: the function registered with OnOutput. Its
   error closes the pipeline. *)
Output ==
  /\ loop[N] = "send"
  /\ \/ /\ ~destDown
        /\ delivered' = Append(delivered, req[N])
        /\ passed' = [passed EXCEPT ![N] = @ + 1]
        /\ loop' = [loop EXCEPT ![N] = "select"]
        /\ req' = [req EXCEPT ![N] = 0]
        /\ UNCHANGED <<loopErr, isClosed>>
     \/ /\ destDown
        /\ Close
        /\ LoopReturns(N, TRUE)
        /\ UNCHANGED <<delivered, passed, req>>
  /\ UNCHANGED <<feederVars, sendg, streamVars, recvVars, destDown, cancelled>>

-----------------------------------------------------------------------------
(* The environment: transformer plugins, destination, cancellation. *)

(* A transformer answers its records one by one and in order. *)
Transform(i) ==
  /\ ~Identity /\ ~broken[i]
  /\ in[i] # <<>> /\ Len(out[i]) < Cap
  /\ out' = [out EXCEPT ![i] = Append(@, Head(in[i]))]
  /\ in' = [in EXCEPT ![i] = Tail(@)]
  /\ UNCHANGED <<feederVars, sendg, isClosed, eof, broken, recvVars, loopVars,
                 destVars, cancelled, passed>>

TransformerFails(i) ==
  /\ "transformer" \in Faults /\ ~Identity /\ ~broken[i]
  /\ broken' = [broken EXCEPT ![i] = TRUE]
  /\ UNCHANGED <<feederVars, sendg, isClosed, in, out, eof, recvVars, loopVars,
                 destVars, cancelled, passed>>

DestinationFails ==
  /\ "destination" \in Faults /\ ~destDown
  /\ destDown' = TRUE
  /\ UNCHANGED <<feederVars, sendg, isClosed, streamVars, recvVars, loopVars,
                 delivered, cancelled, passed>>

(* Every gRPC stream is made with the command's context: cancelling it breaks
   them all. The channel of the identity client does not know the context. *)
Cancel ==
  /\ "cancel" \in Faults /\ ~cancelled
  /\ cancelled' = TRUE
  /\ destDown' = TRUE
  /\ broken' = [i \in Stages |-> ~Identity]
  /\ UNCHANGED <<feederVars, sendg, isClosed, in, out, eof, recvVars, loopVars,
                 delivered, passed>>

(* eg.Wait in sync_v3.go: the feeder and every stage have returned. *)
Finished == feeder = "done" /\ \A i \in Stages : loop[i] = "done"

(* eg.Wait returns an error. *)
Failed == feederErr \/ \E i \in Stages : loopErr[i]

Terminated == Finished /\ UNCHANGED vars

FeederStep  == FeedRecord \/ SendReturns \/ SendTick \/ SourceEnds
LoopStep(i) == SelectTick(i) \/ SelectRecord(i) \/ SelectErr(i) \/ Forward(i)
RecvStep(i) == Receive(i) \/ ReceiveErr(i)
Fault       == (\E i \in Stages : TransformerFails(i)) \/ DestinationFails \/ Cancel

Next ==
  \/ FeederStep
  \/ SendGoroutine
  \/ \E i \in Stages : LoopStep(i) \/ RecvStep(i) \/ Transform(i)
  \/ Output
  \/ Fault
  \/ Terminated

Spec == Init /\ [][Next]_vars

(* Every goroutine keeps running; a transformer that has not failed answers;
   the source's stream ends. No fault has to happen. *)
Fairness ==
  /\ WF_vars(FeederStep)
  /\ WF_vars(SendGoroutine)
  /\ WF_vars(Output)
  /\ \A i \in Stages :
       WF_vars(LoopStep(i)) /\ WF_vars(RecvStep(i)) /\ WF_vars(Transform(i))

FairSpec == Spec /\ Fairness

-----------------------------------------------------------------------------
(* Properties. *)

(* Records reach the destination in the order of the source's stream, none
   twice and none left out in between, whatever fails and whenever a timer
   fires (startBlocking, OnOutput). *)
InOrder == \A k \in 1..Len(delivered) : delivered[k] = k

(* When the pipeline's run ends without an error, every record that the
   feeder sent has reached the destination (RunBlocking after Close). *)
NoSilentLoss == Finished /\ ~Failed => Len(delivered) = sent

(* The run always ends: no goroutine waits forever for another one. *)
Termination == <>Finished

(* In a chain of transformers it ends unless a transformer or the destination
   fails. *)
HealthyEnds == <>(Finished \/ destDown \/ \E i \in Stages : broken[i])

(* Once a transformer or the destination fails, the sync ends. *)
FailureEnds == (destDown \/ \E i \in Stages : broken[i]) ~> Finished

(* Once the command is cancelled, the sync ends. *)
CancelEnds == cancelled ~> Finished

(* The pipeline implements the abstract record stream. *)
Stream == INSTANCE RecordStream WITH
  offered <- sent,
  arrived <- delivered,
  outcome <- IF ~Finished THEN "open" ELSE IF Failed THEN "failed" ELSE "ok"

StreamSpec == Stream!Spec
=============================================================================
