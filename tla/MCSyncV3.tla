------------------------------ MODULE MCSyncV3 ------------------------------
(***************************************************************************)
(* Instances of SyncV3 for TLC. Table "b" is a child of "a", "c" of "b";   *)
(* "p" is a table on its own.                                              *)
(***************************************************************************)
EXTENDS SyncV3

Family   == [a |-> "none", b |-> "a", c |-> "b", p |-> "none"]
MCParent == [t \in Tables |-> Family[t]]

\* How many transformers the destinations have.
TwoAndOne == [d \in Dests |-> IF d = 1 THEN 2 ELSE 1]
OneEach   == [d \in Dests |-> 1]
NoneAtAll == [d \in Dests |-> 0]

\* No transformer changes a name.
Unchanged == [d \in Dests |-> [t \in Tables |-> t]]

\* The transformers of every destination add a prefix.
Prefixed  == [d \in Dests |-> [t \in Tables |-> "x_" \o t]]

\* Only those of the first destination do.
Mixed     == [d \in Dests |-> [t \in Tables |-> IF d = 1 THEN "x_" \o t ELSE t]]
=============================================================================
