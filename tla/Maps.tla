-------------------------------- MODULE Maps --------------------------------
(***************************************************************************)
(* Maps that grow: the @@ and :> of TLC, of which the provers know nothing,*)
(* with a definition.                                                      *)
(***************************************************************************)

\* The places of f with the values of f, and the others of g with those of g.
f ++ g == [x \in DOMAIN f \cup DOMAIN g |-> IF x \in DOMAIN f THEN f[x] ELSE g[x]]

\* A table of some rows with one value, and what a table has for x, or other.
Same(rows, v) == [x \in rows |-> v]
Among(table, x, other) == IF x \in DOMAIN table THEN table[x] ELSE other

\* m[x] = v
Put(m, x, v) == [y \in DOMAIN m \cup {x} |-> IF y = x THEN v ELSE m[y]]
=============================================================================
