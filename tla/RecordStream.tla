---------------------------- MODULE RecordStream ----------------------------
(***************************************************************************)
(* What a destination's record path promises to sync_v3: the records that  *)
(* the source offers arrive at the destination's write stream in the order *)
(* they were offered, none twice, none skipped; and the path reports       *)
(* success only when every offered record has arrived.                     *)
(*                                                                         *)
(* Pipeline refines this specification (see Pipeline!Stream).              *)
(***************************************************************************)
EXTENDS Naturals, Sequences

VARIABLES
  offered,   \* how many records the source has offered; record k is the k-th
  arrived,   \* the records at the destination, in the order of arrival
  outcome    \* "open", then "ok" or "failed"

vars == <<offered, arrived, outcome>>

Init ==
  /\ offered = 0
  /\ arrived = <<>>
  /\ outcome = "open"

Offer ==
  /\ outcome = "open"
  /\ offered' = offered + 1
  /\ UNCHANGED <<arrived, outcome>>

Arrive ==
  /\ outcome = "open"
  /\ Len(arrived) < offered
  /\ arrived' = Append(arrived, Len(arrived) + 1)
  /\ UNCHANGED <<offered, outcome>>

Succeed ==
  /\ outcome = "open"
  /\ Len(arrived) = offered
  /\ outcome' = "ok"
  /\ UNCHANGED <<offered, arrived>>

(* The path may fail at any time, also while it refuses one more record. *)
Fail ==
  /\ outcome = "open"
  /\ outcome' = "failed"
  /\ offered' \in {offered, offered + 1}
  /\ UNCHANGED arrived

Next == Offer \/ Arrive \/ Succeed \/ Fail

Spec == Init /\ [][Next]_vars
=============================================================================
