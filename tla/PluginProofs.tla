---------------------------- MODULE PluginProofs ----------------------------
(***************************************************************************)
(* Proofs about plugins. HackerNews, a source, for any number of items and *)
(* any size of a batch: no item up to the cursor that is saved is missing. *)
(* Writers, of destinations, for any number of syncs, sources and keys,    *)
(* any size of a batch and of what postgresql sends together, and any      *)
(* number of attempts: a write that has succeeded has stored every record, *)
(* none is there twice, and no row goes but for one of its key or because  *)
(* it is stale. ObjectStores and Deletions, of destinations too, for any   *)
(* tables, batches, messages and options: every batch that was sent is     *)
(* kept, and the messages delete what they mean. Transformers, for any     *)
(* list of transformations: a record that is sent fits the table that was  *)
(* promised, and obfuscate_sensitive_columns hides what it is to. Documents*)
(* and Cells, for records of any number of rows: Read gives them back, but *)
(* for what is known to be lost.                                           *)
(*                                                                         *)
(* Of Writers, first come the bags of rows and what a statement does to    *)
(* them, row by row (RowStep) and with all of its rows (AfterRows, a       *)
(* fold). Then the statements of each destination: WritePlan says that     *)
(* they write all records of the batch, in order. What then holds from one *)
(* statement to the next (Between, WriteProgress) gives the invariant      *)
(* (WriteInv).                                                             *)
(***************************************************************************)
EXTENDS HackerNews, Writers, ObjectStores, Deletions, Transformers, Documents, LibraryProofs

-----------------------------------------------------------------------------
(* HackerNews. *)

\* Every variable keeps its type, and every number is that of an item or 0.
HackerNewsTypeOK ==
  /\ latest \in Nat \ {0} /\ deleted \subseteq Nat /\ startTime \in Nat \cup {Unset}
  /\ saved \in Nat /\ hnStage \in {"idle", "search", "fetch"}
  /\ cursor \in Nat /\ maxID \in Nat /\ low \in Nat /\ high \in Nat
  /\ fetching \subseteq Nat /\ sent \subseteq Nat /\ skipped \subseteq Nat

\* Nothing up to item n has to be fetched any more.
DoneTo(n) ==
  \A i \in 1..n : i \in sent \cup deleted \cup skipped \/ i <= startTime

\* The cursor was never set to an item that there is not.
CursorInv ==
  /\ saved <= latest
  /\ hnStage # "idle" => saved <= maxID /\ cursor <= maxID /\ maxID <= latest

\* The search goes on between two items; those before low are too old.
SearchInv ==
  hnStage = "search" =>
    /\ cursor = saved
    /\ 1 <= low /\ low <= high /\ high <= maxID
    /\ \A i \in 1..low - 1 : i <= startTime

\* Of the batch behind the cursor, what is not fetched any more was handed on
\* or is gone.
FetchInv ==
  hnStage = "fetch" =>
    /\ DoneTo(cursor)
    /\ NextBatch(cursor, maxID) \subseteq fetching \cup sent \cup deleted

HackerNewsInv == HackerNewsTypeOK /\ CursorInv /\ SearchInv /\ FetchInv /\ DoneTo(saved)

-----------------------------------------------------------------------------

\* The two bounds that the code takes by an if.
LEMMA MaxOfTwo ==
  ASSUME NEW a \in Nat, NEW b \in Nat
  PROVE  /\ Max({a, b}) \in {a, b}
         /\ Max({a, b}) >= a /\ Max({a, b}) >= b
<1>1. \E m \in {a, b} : \A y \in {a, b} : m >= y
  <2>1. CASE a >= b
    BY <2>1
  <2>2. CASE b >= a
    BY <2>2
  <2> QED BY <2>1, <2>2
<1> QED BY <1>1 DEF Max

LEMMA MinOfTwo ==
  ASSUME NEW a \in Nat, NEW b \in Nat
  PROVE  /\ Min({a, b}) \in {a, b}
         /\ Min({a, b}) <= a /\ Min({a, b}) <= b
<1>1. \E m \in {a, b} : \A y \in {a, b} : m =< y
  <2>1. CASE a <= b
    BY <2>1
  <2>2. CASE b <= a
    BY <2>2
  <2> QED BY <2>1, <2>2
<1> QED BY <1>1 DEF Min

\* Half way between two items there is an item, and it is not the last.
LEMMA MiddleBetween ==
  ASSUME low \in Nat, high \in Nat, low < high
  PROVE  Middle \in Nat /\ low <= Middle /\ Middle < high
BY DEF Middle

LEMMA HackerNewsStarts == HackerNewsInit => HackerNewsInv
<1> SUFFICES ASSUME HackerNewsInit PROVE HackerNewsInv
  OBVIOUS
<1> USE HackerNewsAssumption
<1>1. HackerNewsTypeOK
  BY DEF HackerNewsInit, HackerNewsTypeOK
<1>2. CursorInv /\ SearchInv /\ FetchInv /\ DoneTo(saved)
  BY DEF HackerNewsInit, CursorInv, SearchInv, FetchInv, DoneTo
<1> QED BY <1>1, <1>2 DEF HackerNewsInv

LEMMA HackerNewsSteps ==
  ASSUME HackerNewsInv, [HackerNewsNext]_hnVars
  PROVE  HackerNewsInv'
<1> USE HackerNewsAssumption
<1>0. HackerNewsTypeOK /\ CursorInv /\ SearchInv /\ FetchInv /\ DoneTo(saved)
  BY DEF HackerNewsInv
<1> USE DEF HackerNewsTypeOK
<1>1. CASE NewItem
  <2>1. HackerNewsTypeOK' /\ CursorInv' /\ SearchInv'
    BY <1>0, <1>1 DEF NewItem, CursorInv, SearchInv
  <2>2. FetchInv' /\ DoneTo(saved)'
    BY <1>0, <1>1 DEF NewItem, FetchInv, DoneTo, NextBatch
  <2> QED BY <2>1, <2>2 DEF HackerNewsInv
<1>2. CASE DeleteItem
  <2>1. deleted \subseteq deleted'
    BY <1>2 DEF DeleteItem
  <2>2. HackerNewsTypeOK' /\ CursorInv' /\ SearchInv'
    BY <1>0, <1>2 DEF DeleteItem, CursorInv, SearchInv
  <2>3. FetchInv' /\ DoneTo(saved)'
    BY <1>0, <1>2, <2>1 DEF DeleteItem, FetchInv, DoneTo, NextBatch
  <2> QED BY <2>2, <2>3 DEF HackerNewsInv
<1>3. CASE TimePasses
  <2>1. HackerNewsTypeOK' /\ CursorInv' /\ SearchInv' /\ FetchInv'
    BY <1>0, <1>3 DEF TimePasses, CursorInv, SearchInv, FetchInv
  <2>2. DoneTo(saved)'
    BY <1>0, <1>3 DEF TimePasses, DoneTo, Unset
  <2> QED BY <2>1, <2>2 DEF HackerNewsInv
<1>4. CASE RunFails
  <2>1. HackerNewsTypeOK' /\ CursorInv' /\ SearchInv' /\ FetchInv'
    BY <1>0, <1>4 DEF RunFails, ResetRun, CursorInv, SearchInv, FetchInv
  <2>2. DoneTo(saved)'
    BY <1>0, <1>4 DEF RunFails, DoneTo
  <2> QED BY <2>1, <2>2 DEF HackerNewsInv
<1>5. CASE BeginRun
  <2>1. HackerNewsTypeOK' /\ CursorInv' /\ SearchInv'
    BY <1>0, <1>5 DEF BeginRun, CursorInv, SearchInv, NextBatch
  <2>2. FetchInv' /\ DoneTo(saved)'
    BY <1>0, <1>5 DEF BeginRun, FetchInv, DoneTo, NextBatch
  <2> QED BY <2>1, <2>2 DEF HackerNewsInv
<1>6. CASE Search
  <2>1. /\ hnStage = "search" /\ low < high
        /\ Middle \in Nat /\ low <= Middle /\ Middle < high
    BY <1>0, <1>6, MiddleBetween DEF Search
  <2>2. UNCHANGED <<latest, deleted, startTime, saved, hnStage, cursor, maxID, fetching, sent, skipped>>
    BY <1>6 DEF Search
  <2>3. CASE Middle > startTime
    <3>1. low' = low /\ high' = Middle
      BY <1>6, <2>3 DEF Search
    <3>2. SearchInv'
      BY <1>0, <2>1, <2>2, <3>1 DEF SearchInv, CursorInv
    <3> QED BY <1>0, <2>1, <2>2, <3>1, <3>2 DEF HackerNewsInv, CursorInv, FetchInv, DoneTo
  <2>4. CASE ~(Middle > startTime)
    <3>1. low' = Middle + 1 /\ high' = high
      BY <1>6, <2>4 DEF Search
    <3>2. SearchInv'
      BY <1>0, <2>1, <2>2, <2>4, <3>1 DEF SearchInv, CursorInv, Unset
    <3> QED BY <1>0, <2>1, <2>2, <3>1, <3>2 DEF HackerNewsInv, CursorInv, FetchInv, DoneTo
  <2> QED BY <2>3, <2>4
<1>7. CASE Found
  <2>1. /\ hnStage = "search" /\ cursor = saved /\ low <= maxID /\ cursor <= maxID
        /\ \A i \in 1..low - 1 : i <= startTime
    BY <1>0, <1>7 DEF Found, SearchInv, CursorInv
  <2>2. cursor' \in {cursor, low} /\ cursor' >= cursor /\ cursor' >= low
    BY <1>0, <1>7, MaxOfTwo DEF Found
  <2>3. HackerNewsTypeOK' /\ CursorInv' /\ SearchInv'
    BY <1>0, <1>7, <2>1, <2>2 DEF Found, CursorInv, SearchInv, NextBatch
  <2>4. skipped \subseteq skipped' /\ DoneTo(saved)'
    BY <1>0, <1>7 DEF Found, DoneTo
  <2>5. DoneTo(cursor)'
    <3>1. CASE cursor' = cursor
      BY <2>1, <2>4, <3>1, <1>7 DEF Found, DoneTo
    <3>2. CASE cursor' = low /\ low > cursor
      <4>1. low \in skipped' \/ low <= startTime
        BY <1>0, <1>7, <3>2 DEF Found, Unset
      <4> QED BY <1>0, <1>7, <2>1, <2>4, <3>2, <4>1 DEF Found, DoneTo
    <3> QED BY <1>0, <2>2, <3>1, <3>2
  <2>6. FetchInv'
    BY <1>7, <2>5 DEF Found, FetchInv
  <2> QED BY <2>3, <2>4, <2>6 DEF HackerNewsInv
<1>8. CASE FetchItem
  <2>1. PICK i \in fetching : /\ fetching' = fetching \ {i}
                              /\ sent' = IF i \in deleted THEN sent ELSE sent \cup {i}
    BY <1>8 DEF FetchItem
  <2>2. HackerNewsTypeOK' /\ CursorInv' /\ SearchInv'
    BY <1>0, <1>8, <2>1 DEF FetchItem, CursorInv, SearchInv
  <2>3. sent \subseteq sent' /\ fetching \cup sent \cup deleted \subseteq fetching' \cup sent' \cup deleted
    BY <2>1
  <2>4. DoneTo(saved)' /\ FetchInv'
    BY <1>0, <1>8, <2>3 DEF FetchItem, FetchInv, DoneTo, NextBatch
  <2> QED BY <2>2, <2>4 DEF HackerNewsInv
<1>9. CASE SaveCursor
  <2>1. /\ hnStage = "fetch" /\ fetching = {} /\ cursor < maxID
        /\ saved' = cursor' /\ fetching' = NextBatch(cursor', maxID)
        /\ UNCHANGED <<latest, deleted, startTime, hnStage, maxID, low, high, sent, skipped>>
    BY <1>9 DEF SaveCursor
  <2>2. /\ cursor' \in {cursor + ItemBatch, maxID}
        /\ cursor' <= cursor + ItemBatch /\ cursor' <= maxID
    BY <1>0, <1>9, MinOfTwo DEF SaveCursor
  <2>3. HackerNewsTypeOK' /\ CursorInv' /\ SearchInv'
    BY <1>0, <2>1, <2>2 DEF CursorInv, SearchInv, NextBatch
  <2>4. DoneTo(cursor)'
    <3> SUFFICES ASSUME NEW i \in 1..cursor'
                 PROVE  i \in sent \cup deleted \cup skipped \/ i <= startTime
      BY <2>1 DEF DoneTo
    <3>1. CASE i <= cursor
      BY <1>0, <2>1, <3>1 DEF FetchInv, DoneTo
    <3>2. CASE i > cursor
      <4>1. i \in NextBatch(cursor, maxID)
        BY <1>0, <2>2, <3>2 DEF NextBatch
      <4> QED BY <1>0, <2>1, <4>1 DEF FetchInv
    <3> QED BY <1>0, <2>2, <3>1, <3>2
  <2>5. FetchInv' /\ DoneTo(saved)'
    BY <2>1, <2>4 DEF FetchInv, DoneTo
  <2> QED BY <2>3, <2>5 DEF HackerNewsInv
<1>10. CASE EndRun
  <2>1. HackerNewsTypeOK' /\ CursorInv' /\ SearchInv' /\ FetchInv'
    BY <1>0, <1>10 DEF EndRun, ResetRun, CursorInv, SearchInv, FetchInv
  <2>2. DoneTo(saved)'
    BY <1>0, <1>10 DEF EndRun, DoneTo
  <2> QED BY <2>1, <2>2 DEF HackerNewsInv
<1>11. CASE UNCHANGED hnVars
  BY <1>0, <1>11 DEF hnVars, HackerNewsInv, CursorInv, SearchInv, FetchInv, DoneTo, NextBatch
<1> QED BY <1>1, <1>2, <1>3, <1>4, <1>5, <1>6, <1>7, <1>8, <1>9, <1>10, <1>11 DEF HackerNewsNext

(* In every state the saved cursor has only passed what is done with, and so has
   the cursor of a run; the batch behind it is being fetched (fetchItems). *)
THEOREM CursorInvariant == HackerNewsSpec => []HackerNewsInv
<1>1. HackerNewsInit => HackerNewsInv
  BY HackerNewsStarts
<1>2. HackerNewsInv /\ [HackerNewsNext]_hnVars => HackerNewsInv'
  BY HackerNewsSteps
<1> QED BY <1>1, <1>2, PTL DEF HackerNewsSpec

(* Whatever runs fail or stop and whenever items appear or go, no item up to the
   saved cursor is left out, but for the one that a run took for the start. *)
THEOREM NoItemIsMissed == HackerNewsSpec => []NoItemMissed
<1>1. HackerNewsInv => NoItemMissed
  BY DEF HackerNewsInv, DoneTo, NoItemMissed
<1> QED BY <1>1, CursorInvariant, PTL

-----------------------------------------------------------------------------
(* The rows that there may be in the s-th sync, and the bags of them.      *)

RowsOf(s) == [key : RowKeys, src : Sources, sync : 1..s, n : 1..MaxBatch, id : (1..s) \X (1..MaxBatch)]
BagsOf(s) == UNION {[D -> Nat \ {0}] : D \in SUBSET RowsOf(s)}

\* A bag of rows counts each of them.
LEMMA BagIs ==
  ASSUME NEW s, NEW b
  PROVE  b \in BagsOf(s) <=> /\ b = [r \in DOMAIN b |-> b[r]] /\ DOMAIN b \subseteq RowsOf(s)
                             /\ \A r \in DOMAIN b : b[r] \in Nat \ {0}
<1>1. ASSUME b \in BagsOf(s)
      PROVE  /\ b = [r \in DOMAIN b |-> b[r]] /\ DOMAIN b \subseteq RowsOf(s)
             /\ \A r \in DOMAIN b : b[r] \in Nat \ {0}
  <2>1. PICK D \in SUBSET RowsOf(s) : b \in [D -> Nat \ {0}]
    BY <1>1 DEF BagsOf
  <2> QED BY <2>1
<1>2. ASSUME b = [r \in DOMAIN b |-> b[r]], DOMAIN b \subseteq RowsOf(s),
             \A r \in DOMAIN b : b[r] \in Nat \ {0}
      PROVE  b \in BagsOf(s)
  <2>1. b \in [DOMAIN b -> Nat \ {0}]
    BY <1>2
  <2> QED BY <1>2, <2>1 DEF BagsOf
<1> QED BY <1>1, <1>2

(* What the steps of a row do. *)
LEMMA InsertIs ==
  ASSUME NEW s, NEW b \in BagsOf(s), NEW r \in RowsOf(s)
  PROVE  /\ Insert(b, r) \in BagsOf(s)
         /\ \A x : x \in DOMAIN Insert(b, r) <=> x \in DOMAIN b \/ x = r
         /\ \A x \in DOMAIN b : x # r => Insert(b, r)[x] = b[x]
         /\ r \notin DOMAIN b => Insert(b, r)[r] = 1
<1>1. /\ b = [x \in DOMAIN b |-> b[x]] /\ DOMAIN b \subseteq RowsOf(s)
      /\ \A x \in DOMAIN b : b[x] \in Nat \ {0}
  BY BagIs
<1> DEFINE c == [x \in DOMAIN b \cup {r} |->
                   (IF x \in DOMAIN b THEN b[x] ELSE 0) + (IF x \in {r} THEN 1 ELSE 0)]
<1>2. Insert(b, r) = c
  BY DEF Insert, SetToBag, (+)
<1>3. \A x \in DOMAIN c : c[x] \in Nat \ {0}
  BY <1>1
<1>4. c = [x \in DOMAIN c |-> c[x]] /\ DOMAIN c = DOMAIN b \cup {r}
      /\ (\A x \in DOMAIN b : x # r => c[x] = b[x]) /\ (r \notin DOMAIN b => c[r] = 1)
  BY <1>1
<1> HIDE DEF c
<1>5. c \in BagsOf(s)
  BY <1>1, <1>3, <1>4, BagIs
<1> QED BY <1>2, <1>4, <1>5

\* What is left without the rows of some keys.
LEMMA WithoutIs ==
  ASSUME NEW s, NEW b \in BagsOf(s), NEW keys
  PROVE  /\ Without(b, keys) \in BagsOf(s)
         /\ \A x : x \in DOMAIN Without(b, keys) <=> x \in DOMAIN b /\ x.key \notin keys
         /\ \A x \in DOMAIN Without(b, keys) : Without(b, keys)[x] = b[x]
<1>1. /\ b = [x \in DOMAIN b |-> b[x]] /\ DOMAIN b \subseteq RowsOf(s)
      /\ \A x \in DOMAIN b : b[x] \in Nat \ {0}
  BY BagIs
<1> DEFINE c == Without(b, keys)
<1>2. c = [x \in DOMAIN c |-> c[x]] /\ (\A x : x \in DOMAIN c <=> x \in DOMAIN b /\ x.key \notin keys)
      /\ \A x \in DOMAIN c : c[x] = b[x]
  BY <1>1 DEF Without
<1> HIDE DEF c
<1>3. c \in BagsOf(s)
  BY <1>1, <1>2, BagIs
<1> QED BY <1>2, <1>3 DEF c

\* The rows of its key are replaced by the record.
LEMMA ReplaceIs ==
  ASSUME NEW s, NEW b \in BagsOf(s), NEW r \in RowsOf(s)
  PROVE  /\ Replace(b, r) \in BagsOf(s)
         /\ \A x : x \in DOMAIN Replace(b, r) <=> (x \in DOMAIN b /\ x.key # r.key) \/ x = r
         /\ \A x \in DOMAIN b : x.key # r.key => Replace(b, r)[x] = b[x]
         /\ Replace(b, r)[r] = 1
<1> DEFINE w == Without(b, {r.key})
<1>1. w \in BagsOf(s) /\ (\A x : x \in DOMAIN w <=> x \in DOMAIN b /\ x.key # r.key) /\ \A x \in DOMAIN w : w[x] = b[x]
  <2> DEFINE keys == {r.key}
  <2>1. \A x : x.key \notin keys <=> x.key # r.key
    OBVIOUS
  <2> HIDE DEF keys
  <2>2. /\ Without(b, keys) \in BagsOf(s)
        /\ \A x : x \in DOMAIN Without(b, keys) <=> x \in DOMAIN b /\ x.key \notin keys
        /\ \A x \in DOMAIN Without(b, keys) : Without(b, keys)[x] = b[x]
    BY WithoutIs
  <2> QED BY <2>1, <2>2 DEF keys
<1>2. Replace(b, r) = Insert(w, r)
  BY DEF Replace
<1> HIDE DEF w
<1>3. r \notin DOMAIN w
  BY <1>1
<1> QED BY <1>1, <1>2, <1>3, InsertIs

\* The same record, but for its id.
SameButID(x, r) == x.key = r.key /\ x.src = r.src /\ x.sync = r.sync /\ x.n = r.n

\* A record with another id takes their place.
LEMMA KeepIDIs ==
  ASSUME NEW s, NEW b \in BagsOf(s), NEW r \in RowsOf(s)
  PROVE  \E k \in RowsOf(s) : SameButID(k, r) /\ KeepID(b, r) = Replace(b, k)
<1> DEFINE old == {x \in DOMAIN b : x.key = r.key}
           k == IF old = {} THEN r ELSE [r EXCEPT !.id = (CHOOSE x \in old : TRUE).id]
           y == CHOOSE x \in old : TRUE
<1>1. KeepID(b, r) = Replace(b, k)
  BY DEF KeepID
<1>2. CASE old = {}
  <2>1. k = r
    BY <1>2
  <2> QED BY <1>1, <2>1 DEF SameButID
<1>3. CASE old # {}
  <2>1. y \in old
    BY <1>3
  <2>2. y \in RowsOf(s)
    BY <2>1, BagIs
  <2>3. k = [r EXCEPT !.id = y.id]
    BY <1>3
  <2> HIDE DEF y, k
  <2>4. k \in RowsOf(s) /\ SameButID(k, r)
    BY <2>2, <2>3 DEF RowsOf, SameButID
  <2> QED BY <1>1, <2>4
<1> QED BY <1>2, <1>3

\* What each kind of statement does with one of its rows.
LEMMA RowStepIs ==
  ASSUME NEW op, NEW b, NEW x, NEW r
  PROVE  /\ op = "append" => RowStep(op, b, x, r) = Insert(x, r)
         /\ op = "addMissing" => RowStep(op, b, x, r) = IF r \in DOMAIN x THEN x ELSE Insert(x, r)
         /\ op = "upsert" => RowStep(op, b, x, r) = Replace(x, r)
         /\ op = "upsertNotUnique" => RowStep(op, b, x, r) = KeepID(x, r)
         /\ op = "insertNew" => RowStep(op, b, x, r) = IF r.key \in Held(x) THEN x ELSE Insert(x, r)
         /\ op = "merge" => RowStep(op, b, x, r) = IF r.key \in Held(b) THEN Replace(x, r) ELSE Insert(x, r)
         /\ op \notin {"append", "addMissing", "upsert", "upsertNotUnique", "insertNew", "merge"} =>
              RowStep(op, b, x, r) = x
<1>1. op = "append" => RowStep(op, b, x, r) = Insert(x, r)
  BY Zenon DEF RowStep
<1>2. op = "addMissing" => RowStep(op, b, x, r) = InsertMissing(x, r)
  BY Zenon DEF RowStep
<1>3. op = "upsert" => RowStep(op, b, x, r) = Replace(x, r)
  BY Zenon DEF RowStep
<1>4. op = "upsertNotUnique" => RowStep(op, b, x, r) = KeepID(x, r)
  BY Zenon DEF RowStep
<1>5. op = "insertNew" => RowStep(op, b, x, r) = InsertNew(x, r)
  BY Zenon DEF RowStep
<1>6. op = "merge" => RowStep(op, b, x, r) = IF r.key \in Held(b) THEN Replace(x, r) ELSE Insert(x, r)
  BY Zenon DEF RowStep
<1>7. op \notin {"append", "addMissing", "upsert", "upsertNotUnique", "insertNew", "merge"} =>
        RowStep(op, b, x, r) = x
  BY Zenon DEF RowStep
<1> QED BY <1>1, <1>2, <1>3, <1>4, <1>5, <1>6, <1>7 DEF InsertMissing, InsertNew

\* Of every step: rows come from the record, and no key is lost.
LEMMA StepKeeps ==
  ASSUME NEW s, NEW op, NEW b, NEW x \in BagsOf(s), NEW r \in RowsOf(s)
  PROVE  /\ RowStep(op, b, x, r) \in BagsOf(s)
         /\ \A z \in DOMAIN RowStep(op, b, x, r) :
              z \in DOMAIN x \/ (SameButID(z, r) /\ (op \notin {"upsertNotUnique"} => z = r))
         /\ Held(x) \subseteq Held(RowStep(op, b, x, r))
<1> DEFINE y == RowStep(op, b, x, r)
           Kinds == {"append", "addMissing", "upsert", "upsertNotUnique", "insertNew", "merge"}
<1>0. SameButID(r, r)
  BY DEF SameButID
<1>1. CASE y = Insert(x, r)
  <2>1. y \in BagsOf(s) /\ \A z : z \in DOMAIN y <=> z \in DOMAIN x \/ z = r
    BY <1>1, InsertIs
  <2> HIDE DEF y
  <2>2. Held(x) \subseteq Held(y)
    BY <2>1 DEF Held
  <2>3. \A z \in DOMAIN y : z \in DOMAIN x \/ (SameButID(z, r) /\ (op \notin {"upsertNotUnique"} => z = r))
    BY <1>0, <2>1
  <2> QED BY <2>1, <2>2, <2>3 DEF y
<1>2. ASSUME NEW k \in RowsOf(s), SameButID(k, r), y = Replace(x, k)
      PROVE  /\ y \in BagsOf(s) /\ \A z \in DOMAIN y : z \in DOMAIN x \/ z = k
             /\ Held(x) \subseteq Held(y)
  <2>1. y \in BagsOf(s) /\ \A z : z \in DOMAIN y <=> (z \in DOMAIN x /\ z.key # k.key) \/ z = k
    BY <1>2, ReplaceIs
  <2> HIDE DEF y
  <2>2. Held(x) \subseteq Held(y)
    BY <2>1 DEF Held
  <2> QED BY <2>1, <2>2
<1>3. CASE y = Replace(x, r)
  BY <1>0, <1>2, <1>3
<1>4. CASE y = x
  BY <1>4
<1>5. CASE op = "upsertNotUnique"
  <2>1. PICK k \in RowsOf(s) : SameButID(k, r) /\ KeepID(x, r) = Replace(x, k)
    BY KeepIDIs
  <2>2. y = Replace(x, k)
    BY <1>5, <2>1, RowStepIs
  <2>3. /\ y \in BagsOf(s) /\ \A z \in DOMAIN y : z \in DOMAIN x \/ z = k
        /\ Held(x) \subseteq Held(y)
    BY <1>2, <2>1, <2>2
  <2> HIDE DEF y
  <2> QED BY <1>5, <2>1, <2>3 DEF y
<1>6. ASSUME op \notin {"upsertNotUnique"}
      PROVE  y = Insert(x, r) \/ y = Replace(x, r) \/ y = x
  <2>1. CASE op \in {"append", "addMissing", "upsert"}
    BY <2>1, RowStepIs
  <2>2. CASE op \in {"insertNew", "merge"}
    BY <2>2, RowStepIs
  <2>3. CASE op \notin {"append", "addMissing", "upsert", "upsertNotUnique", "insertNew", "merge"}
    BY <2>3, RowStepIs
  <2> QED BY <1>6, <2>1, <2>2, <2>3
<1> HIDE DEF y
<1> QED BY <1>1, <1>3, <1>4, <1>5, <1>6 DEF y

\* A table with a key has one row of each key.
Single(x) == \A z \in DOMAIN x : x[z] = 1 /\ \A w \in DOMAIN x : w.key = z.key => w = z

\* The steps after which the key of the record has a row of this record.
CoversKey(op, b, x, r) ==
  \/ op \in {"upsert", "upsertNotUnique"}
  \/ op = "merge" /\ (r.key \in Held(b) \/ r.key \notin Held(x))
  \/ op = "insertNew" /\ r.key \notin Held(x)

\* In a table with a key one row of each key stays one.
LEMMA StepKeyed ==
  ASSUME NEW s, NEW op, NEW b, NEW x \in BagsOf(s), NEW r \in RowsOf(s), Single(x),
         CoversKey(op, b, x, r) \/ op = "insertNew"
  PROVE  /\ Single(RowStep(op, b, x, r))
         /\ \A k : k \in Held(RowStep(op, b, x, r)) <=> k \in Held(x) \/ k = r.key
         /\ \A z \in DOMAIN x : z.key # r.key => z \in DOMAIN RowStep(op, b, x, r)
         /\ CoversKey(op, b, x, r) => \E z \in DOMAIN RowStep(op, b, x, r) : SameButID(z, r)
<1> DEFINE y == RowStep(op, b, x, r)
<1>0. SameButID(r, r)
  BY DEF SameButID
<1>1. ASSUME NEW k \in RowsOf(s), SameButID(k, r), y = Replace(x, k)
      PROVE  /\ Single(y) /\ (\A q : q \in Held(y) <=> q \in Held(x) \/ q = r.key)
             /\ \A z \in DOMAIN x : z.key # r.key => z \in DOMAIN y
             /\ \E z \in DOMAIN y : SameButID(z, r)
  <2>0. /\ \A z : z \in DOMAIN Replace(x, k) <=> (z \in DOMAIN x /\ z.key # k.key) \/ z = k
        /\ \A z \in DOMAIN x : z.key # k.key => Replace(x, k)[z] = x[z]
        /\ Replace(x, k)[k] = 1
    BY ReplaceIs
  <2>1. /\ \A z : z \in DOMAIN y <=> (z \in DOMAIN x /\ z.key # k.key) \/ z = k
        /\ k.key = r.key
        /\ \A z \in DOMAIN x : z.key # k.key => y[z] = x[z]
        /\ y[k] = 1
    BY <1>1, <2>0 DEF SameButID
  <2> HIDE DEF y
  <2>2. (\A q : q \in Held(y) <=> q \in Held(x) \/ q = r.key)
    BY <2>1 DEF Held
  <2>3. Single(y)
    BY <2>1 DEF Single
  <2> QED BY <1>1, <2>1, <2>2, <2>3
<1>2. ASSUME r.key \notin Held(x), y = Insert(x, r)
      PROVE  /\ Single(y) /\ (\A q : q \in Held(y) <=> q \in Held(x) \/ q = r.key)
             /\ \A z \in DOMAIN x : z.key # r.key => z \in DOMAIN y
             /\ \E z \in DOMAIN y : SameButID(z, r)
  <2>0. r \notin DOMAIN x
    BY <1>2 DEF Held
  <2>1. /\ \A z : z \in DOMAIN y <=> z \in DOMAIN x \/ z = r
        /\ \A z \in DOMAIN x : y[z] = x[z]
        /\ y[r] = 1
    BY <1>2, <2>0, InsertIs
  <2> HIDE DEF y
  <2>2. (\A q : q \in Held(y) <=> q \in Held(x) \/ q = r.key)
    BY <2>1 DEF Held
  <2>3. Single(y)
    BY <1>2, <2>1 DEF Single, Held
  <2> QED BY <1>0, <2>1, <2>2, <2>3
<1>3. CASE op = "upsertNotUnique"
  <2>1. PICK k \in RowsOf(s) : SameButID(k, r) /\ KeepID(x, r) = Replace(x, k)
    BY KeepIDIs
  <2>2. y = Replace(x, k)
    BY <1>3, <2>1, RowStepIs
  <2> QED BY <1>1, <2>1, <2>2
<1>4. CASE op = "upsert"
  <2>1. y = Replace(x, r)
    BY <1>4, RowStepIs
  <2> QED BY <1>0, <1>1, <2>1
<1>5. CASE op = "merge"
  <2>1. y = IF r.key \in Held(b) THEN Replace(x, r) ELSE Insert(x, r)
    BY <1>5, RowStepIs
  <2>2. r.key \in Held(b) \/ r.key \notin Held(x)
    BY <1>5 DEF CoversKey
  <2>3. CASE r.key \in Held(b)
    BY <1>0, <1>1, <2>1, <2>3
  <2>4. CASE r.key \notin Held(b)
    BY <1>2, <2>1, <2>2, <2>4
  <2> QED BY <2>3, <2>4
<1>6. CASE op = "insertNew" /\ r.key \notin Held(x)
  <2>1. y = Insert(x, r)
    BY <1>6, RowStepIs
  <2> QED BY <1>2, <1>6, <2>1
<1>7. CASE op = "insertNew" /\ r.key \in Held(x)
  <2>1. y = x
    BY <1>7, RowStepIs
  <2>2. ~CoversKey(op, b, x, r)
    BY <1>7 DEF CoversKey
  <2> HIDE DEF y
  <2> QED BY <1>7, <2>1, <2>2 DEF y
<1> QED BY <1>3, <1>4, <1>5, <1>6, <1>7 DEF CoversKey

\* A table without one has no record twice.
NoneTwice(x) == \A z \in DOMAIN x : x[z] = 1

\* In one without, a record that is new is added.
LEMMA StepUnkeyed ==
  ASSUME NEW s, NEW op, NEW b, NEW x \in BagsOf(s), NEW r \in RowsOf(s), NoneTwice(x),
         (op = "append" /\ r \notin DOMAIN x) \/ op = "addMissing"
  PROVE  /\ NoneTwice(RowStep(op, b, x, r))
         /\ \A z : z \in DOMAIN RowStep(op, b, x, r) <=> z \in DOMAIN x \/ z = r
<1> DEFINE y == RowStep(op, b, x, r)
<1>1. (y = Insert(x, r) /\ r \notin DOMAIN x) \/ (y = x /\ r \in DOMAIN x)
  BY RowStepIs
<1>2. CASE y = Insert(x, r) /\ r \notin DOMAIN x
  <2>1. /\ \A z : z \in DOMAIN y <=> z \in DOMAIN x \/ z = r
        /\ \A z \in DOMAIN x : y[z] = x[z]
        /\ y[r] = 1
    BY <1>2, InsertIs
  <2> HIDE DEF y
  <2> QED BY <2>1 DEF NoneTwice, y
<1>3. CASE y = x /\ r \in DOMAIN x
  BY <1>3 DEF NoneTwice
<1> QED BY <1>1, <1>2, <1>3

-----------------------------------------------------------------------------
(* After all rows of a statement. *)

TakeStep(op, b, taken, x, r) == IF r \in taken THEN RowStep(op, b, x, r) ELSE x
Taking(s, op, b, taken) == [p \in BagsOf(s) \X RowsOf(s) |-> TakeStep(op, b, taken, p[1], p[2])]

LEMMA TakingAt ==
  ASSUME NEW s, NEW op, NEW b, NEW taken, NEW x \in BagsOf(s), NEW r \in RowsOf(s)
  PROVE  Taking(s, op, b, taken)[<<x, r>>] = TakeStep(op, b, taken, x, r)
BY DEF Taking

LEMMA TakingType ==
  ASSUME NEW s, NEW op, NEW b, NEW taken
  PROVE  Taking(s, op, b, taken) \in [BagsOf(s) \X RowsOf(s) -> BagsOf(s)]
<1>1. \A x \in BagsOf(s), r \in RowsOf(s) : TakeStep(op, b, taken, x, r) \in BagsOf(s)
  BY StepKeeps DEF TakeStep
<1>2. \A p \in BagsOf(s) \X RowsOf(s) : TakeStep(op, b, taken, p[1], p[2]) \in BagsOf(s)
  BY <1>1
<1> QED BY <1>2 DEF Taking

TakenStep(op, b, taken, recs, g, q) ==
  IF q = {} THEN b ELSE TakeStep(op, b, taken, g[q \ {Max(q)}], recs[Max(q)])

LEMMA TakingSteps ==
  ASSUME NEW s, NEW op, NEW b \in BagsOf(s), NEW taken, NEW recs \in Seq(RowsOf(s)),
         NEW h, Folds(h, Taking(s, op, b, taken), b, recs), NEW q \in SUBSET DOMAIN recs
  PROVE  h[q] = TakenStep(op, b, taken, recs, h, q)
<1>1. h[q] = StepOf(h, Taking(s, op, b, taken), b, recs, q)
  BY FoldsAt, Zenon
<1>2. \A p \in SUBSET DOMAIN recs : h[p] \in BagsOf(s)
  BY TakingType, FoldsIn, Zenon
<1>3. CASE q = {}
  BY <1>1, <1>3 DEF StepOf, TakenStep
<1>4. CASE q # {}
  <2>1. recs[Max(q)] \in RowsOf(s) /\ q \ {Max(q)} \in SUBSET DOMAIN recs
    BY <1>4, LastPosition
  <2>2. h[q \ {Max(q)}] \in BagsOf(s)
    BY <1>2, <2>1
  <2>3. h[q] = Taking(s, op, b, taken)[<<h[q \ {Max(q)}], recs[Max(q)]>>]
    BY <1>1, <1>4 DEF StepOf
  <2> DEFINE c == h[q \ {Max(q)}]
             m == recs[Max(q)]
  <2>4. c \in BagsOf(s) /\ m \in RowsOf(s) /\ h[q] = Taking(s, op, b, taken)[<<c, m>>]
    BY <2>1, <2>2, <2>3
  <2>5. h[q] = TakeStep(op, b, taken, c, m)
    <3> HIDE DEF c, m
    <3> QED BY <2>4, TakingAt
  <2> QED BY <1>4, <2>5 DEF TakenStep
<1> QED BY <1>3, <1>4

\* AfterRows is a fold of LibraryProofs, of a function on bags and rows.
LEMMA AfterIsFold ==
  ASSUME NEW s, NEW op, NEW b \in BagsOf(s), NEW taken, NEW recs \in Seq(RowsOf(s))
  PROVE  AfterRows(op, b, recs, taken) = Fold(Taking(s, op, b, taken), b, recs)
<1> DEFINE Is(g) == g = [q \in SUBSET DOMAIN recs |-> TakenStep(op, b, taken, recs, g, q)]
           f == CHOOSE g : Is(g)
           F == Taking(s, op, b, taken)
<1>1. AfterRows(op, b, recs, taken) = f[DOMAIN recs]
  BY DEF AfterRows, FoldLeft, MapThenFoldSet, TakenStep, TakeStep
<1>2. PICK h : Folds(h, F, b, recs) /\ Fold(F, b, recs) = h[DOMAIN recs]
  BY FoldOf
<1>3. ASSUME NEW q \in SUBSET DOMAIN recs PROVE h[q] = TakenStep(op, b, taken, recs, h, q)
  <2>1. Folds(h, Taking(s, op, b, taken), b, recs)
    BY <1>2
  <2> QED BY <2>1, TakingSteps
<1>4. h = [q \in SUBSET DOMAIN recs |-> h[q]]
  BY <1>2 DEF Folds
<1>5. Is(h)
  BY <1>3, <1>4
<1>6. Is(f)
  <2> HIDE DEF Is
  <2> QED BY <1>5
<1>7. \A q \in SUBSET DOMAIN recs : f[q] = TakenStep(op, b, taken, recs, f, q)
  <2> HIDE DEF f
  <2>1. f = [q \in SUBSET DOMAIN recs |-> TakenStep(op, b, taken, recs, f, q)]
    BY <1>6
  <2> QED BY <2>1
<1> HIDE DEF f
<1>8. f[{}] = h[{}]
  BY <1>3, <1>7 DEF TakenStep
<1>9. \A q \in SUBSET DOMAIN recs : q # {} /\ f[q \ {Max(q)}] = h[q \ {Max(q)}] => f[q] = h[q]
  BY <1>3, <1>7 DEF TakenStep
<1>10. f[DOMAIN recs] = h[DOMAIN recs]
  <2> HIDE DEF Is
  <2> QED BY <1>8, <1>9, SameFolds
<1> QED BY <1>1, <1>2, <1>10

\* Row after row, from the table b.
RowByRow(f, op, b, taken, recs) ==
  /\ f[0] = b
  /\ \A i \in DOMAIN recs : f[i] = TakeStep(op, b, taken, f[i - 1], recs[i])

RunsTo(s, op, b, taken, recs, c) ==
  \E f \in [0..Len(recs) -> BagsOf(s)] : RowByRow(f, op, b, taken, recs) /\ f[Len(recs)] = c

\* So there are bags from b to what is left, one for each row.
LEMMA AfterSteps ==
  ASSUME NEW s, NEW op, NEW b \in BagsOf(s), NEW taken, NEW recs \in Seq(RowsOf(s))
  PROVE  RunsTo(s, op, b, taken, recs, AfterRows(op, b, recs, taken))
<1> DEFINE F == Taking(s, op, b, taken)
           P(i) == SubSeq(recs, 1, i)
           f == [i \in 0..Len(recs) |-> Fold(F, b, P(i))]
<1>1. F \in [BagsOf(s) \X RowsOf(s) -> BagsOf(s)]
  BY TakingType
<1>2. \A i \in 0..Len(recs) : P(i) \in Seq(RowsOf(s))
  OBVIOUS
<1>3. P(0) = << >> /\ P(Len(recs)) = recs
  OBVIOUS
<1>4. \A i \in 1..Len(recs) : P(i) = Append(P(i - 1), recs[i]) /\ recs[i] \in RowsOf(s) /\ i - 1 \in 0..Len(recs)
  OBVIOUS
<1> HIDE DEF F, P
<1>5. \A i \in 0..Len(recs) : f[i] \in BagsOf(s)
  BY <1>1, <1>2, FoldIn
<1>6. f[0] = b
  BY <1>3, FoldNothing
<1>7. ASSUME NEW i \in 1..Len(recs)
      PROVE  f[i] = TakeStep(op, b, taken, f[i - 1], recs[i])
  <2>0. i \in 0..Len(recs) /\ i - 1 \in 0..Len(recs) /\ P(i) = Append(P(i - 1), recs[i])
    BY <1>4
  <2>1. f[i] = Fold(F, b, P(i)) /\ f[i - 1] = Fold(F, b, P(i - 1))
    BY <2>0
  <2>2. f[i - 1] \in BagsOf(s) /\ recs[i] \in RowsOf(s) /\ P(i - 1) \in Seq(RowsOf(s))
    BY <1>2, <1>4, <1>5, <2>0
  <2> DEFINE p == P(i - 1)
             m == recs[i]
             x == f[i - 1]
  <2>3. p \in Seq(RowsOf(s)) /\ m \in RowsOf(s) /\ x \in BagsOf(s)
        /\ x = Fold(F, b, p) /\ f[i] = Fold(F, b, Append(p, m))
    BY <2>0, <2>1, <2>2
  <2> HIDE DEF p, m, f, x
  <2>4. Fold(F, b, Append(p, m)) = F[<<Fold(F, b, p), m>>]
    BY <2>3, FoldNext
  <2>5. F[<<x, m>>] = TakeStep(op, b, taken, x, m)
    BY <2>3, TakingAt DEF F
  <2> QED BY <2>3, <2>4, <2>5 DEF m, x
<1>8. f[Len(recs)] = AfterRows(op, b, recs, taken)
  BY <1>3, AfterIsFold DEF F
<1>9. f \in [0..Len(recs) -> BagsOf(s)]
  BY <1>5
<1>10. DOMAIN recs = 1..Len(recs)
  OBVIOUS
<1> HIDE DEF f
<1> QED BY <1>6, <1>7, <1>8, <1>9, <1>10 DEF RowByRow, RunsTo

\* A row of the table that a statement with these records has made.
MadeBy(z, op, recs) == \E i \in DOMAIN recs : SameButID(z, recs[i]) /\ (op \notin {"upsertNotUnique"} => z = recs[i])

\* The rows of the keys that were there have a row still; new ones are records.
LEMMA AfterKeeps ==
  ASSUME NEW s, NEW op, NEW b \in BagsOf(s), NEW taken, NEW recs \in Seq(RowsOf(s)),
         NEW c, c = AfterRows(op, b, recs, taken)
  PROVE  /\ c \in BagsOf(s) /\ Held(b) \subseteq Held(c)
         /\ \A z \in DOMAIN c : z \in DOMAIN b \/ MadeBy(z, op, recs)
<1> DEFINE From(z, i) == SameButID(z, recs[i]) /\ (op \notin {"upsertNotUnique"} => z = recs[i])
           n == Len(recs)
<1>1. PICK f \in [0..n -> BagsOf(s)] : RowByRow(f, op, b, taken, recs) /\ f[n] = c
  BY AfterSteps DEF RunsTo
<1>2. n \in Nat /\ DOMAIN recs = 1..n /\ \A i \in 1..n : recs[i] \in RowsOf(s)
  OBVIOUS
<1> DEFINE T == {i \in 0..n : /\ Held(b) \subseteq Held(f[i])
                              /\ \A z \in DOMAIN f[i] : z \in DOMAIN b \/ \E j \in 1..n : From(z, j)}
<1>3. 0 \in T
  BY <1>1, <1>2 DEF RowByRow
<1>4. ASSUME NEW i \in 0..n, i < n, i \in T PROVE i + 1 \in T
  <2> DEFINE x == f[i]
             r == recs[i + 1]
             y == f[i + 1]
  <2>1. i + 1 \in 1..n /\ (i + 1) - 1 = i /\ i + 1 \in 0..n
    BY <1>2, <1>4
  <2>2. x \in BagsOf(s) /\ r \in RowsOf(s) /\ y = TakeStep(op, b, taken, x, r)
    BY <1>1, <1>2, <2>1 DEF RowByRow
  <2>3. Held(b) \subseteq Held(x) /\ \A z \in DOMAIN x : z \in DOMAIN b \/ \E j \in 1..n : From(z, j)
    BY <1>4
  <2>4. \A z \in DOMAIN y : z \in DOMAIN x \/ From(z, i + 1)
    <3> HIDE DEF x, y
    <3> QED BY <2>2, StepKeeps DEF TakeStep, r
  <2>5. Held(x) \subseteq Held(y)
    <3> HIDE DEF x, y, r
    <3> QED BY <2>2, StepKeeps DEF TakeStep
  <2> HIDE DEF x, r, From
  <2>6. \A z \in DOMAIN f[i + 1] : z \in DOMAIN b \/ \E j \in 1..n : From(z, j)
    BY <2>1, <2>3, <2>4
  <2>7. Held(b) \subseteq Held(f[i + 1])
    BY <2>3, <2>5
  <2> QED BY <2>1, <2>6, <2>7
<1>5. T = 0..n
  <2>1. T \in SUBSET (0..n)
    OBVIOUS
  <2> HIDE DEF T
  <2> QED BY <1>2, <1>3, <1>4, <2>1, Upwards
<1>6. n \in T
  BY <1>2, <1>5
<1> QED BY <1>1, <1>2, <1>6 DEF MadeBy

\* A table with a key: one row of each key stays one.
LEMMA AfterSingle ==
  ASSUME NEW s, NEW op, NEW b \in BagsOf(s), NEW taken, NEW recs \in Seq(RowsOf(s)),
         NEW c, c = AfterRows(op, b, recs, taken),
         op \in {"upsert", "upsertNotUnique", "insertNew", "merge"}, Single(b),
         op = "merge" => ~Repeats(recs)
  PROVE  Single(c)
<1> DEFINE n == Len(recs)
<1>1. PICK f \in [0..n -> BagsOf(s)] : RowByRow(f, op, b, taken, recs) /\ f[n] = c
  BY AfterSteps DEF RunsTo
<1>2. n \in Nat /\ DOMAIN recs = 1..n /\ \A i \in 1..n : recs[i] \in RowsOf(s)
  OBVIOUS
<1>a. op = "merge" => \A i, j \in 1..n : i # j => recs[i].key # recs[j].key
  BY <1>2 DEF Repeats, RepeatsOf, KeysOf
<1> DEFINE T == {i \in 0..n : /\ Single(f[i])
                              /\ \A k \in Held(f[i]) : k \in Held(b) \/ \E j \in 1..i : recs[j].key = k}
<1>3. 0 \in T
  BY <1>1, <1>2 DEF RowByRow
<1>4. ASSUME NEW i \in 0..n, i < n, i \in T PROVE i + 1 \in T
  <2> DEFINE x == f[i]
             r == recs[i + 1]
             y == f[i + 1]
  <2>1. i + 1 \in 1..n /\ (i + 1) - 1 = i /\ i + 1 \in 0..n
    BY <1>2, <1>4
  <2>2. x \in BagsOf(s) /\ r \in RowsOf(s) /\ y = TakeStep(op, b, taken, x, r)
    BY <1>1, <1>2, <2>1 DEF RowByRow
  <2>3. Single(x) /\ \A k \in Held(x) : k \in Held(b) \/ \E j \in 1..i : recs[j].key = k
    BY <1>4
  <2>4. CoversKey(op, b, x, r) \/ op = "insertNew"
    <3>1. CASE op = "merge"
      <4>1. \A j \in 1..i : j \in 1..n /\ j # i + 1
        BY <1>2, <2>1
      <4> QED BY <1>a, <2>1, <2>3, <3>1, <4>1 DEF CoversKey
    <3> QED BY <3>1 DEF CoversKey
  <2>5. Single(y) /\ \A k \in Held(y) : k \in Held(x) \/ k = r.key
    <3> HIDE DEF x, y, r
    <3> QED BY <2>2, <2>3, <2>4, StepKeyed DEF TakeStep
  <2>6. i + 1 \in 1..(i + 1) /\ \A j \in 1..i : j \in 1..(i + 1)
    BY <1>2
  <2>7. \A k \in Held(y) : k \in Held(b) \/ \E j \in 1..(i + 1) : recs[j].key = k
    <3> HIDE DEF x, y
    <3> QED BY <2>3, <2>5, <2>6
  <2> QED BY <2>1, <2>5, <2>7
<1>5. T = 0..n
  <2>1. T \in SUBSET (0..n)
    OBVIOUS
  <2> HIDE DEF T
  <2> QED BY <1>2, <1>3, <1>4, <2>1, Upwards
<1>6. n \in T
  BY <1>2, <1>5
<1> QED BY <1>1, <1>6

\* A row of the key k from the s-th sync, of its n-th record or a later one.
HasRow(x, k, s, n) == \E z \in DOMAIN x : z.key = k /\ z.sync = s /\ z.n >= n

\* A record is stored, and it does not take the place of a later one.
LEMMA StepHas ==
  ASSUME NEW s, NEW op, NEW b, NEW x \in BagsOf(s), NEW r \in RowsOf(s), Single(x), CoversKey(op, b, x, r)
  PROVE  /\ HasRow(RowStep(op, b, x, r), r.key, r.sync, r.n)
         /\ \A k, n : HasRow(x, k, r.sync, n) /\ (r.key = k => r.n >= n) =>
              HasRow(RowStep(op, b, x, r), k, r.sync, n)
<1> DEFINE y == RowStep(op, b, x, r)
<1>1. PICK z \in DOMAIN y : SameButID(z, r)
  BY StepKeyed
<1>2. \A w \in DOMAIN x : w.key # r.key => w \in DOMAIN y
  BY StepKeyed
<1> HIDE DEF y
<1>3. r.n \in Int
  BY DEF RowsOf
<1>4. HasRow(y, r.key, r.sync, r.n)
  BY <1>1, <1>3 DEF HasRow, SameButID
<1>5. ASSUME NEW k, NEW n, HasRow(x, k, r.sync, n), r.key = k => r.n >= n
      PROVE  HasRow(y, k, r.sync, n)
  <2>1. CASE r.key = k
    BY <1>1, <1>5, <2>1 DEF HasRow, SameButID
  <2>2. CASE r.key # k
    BY <1>2, <1>5, <2>2 DEF HasRow
  <2> QED BY <2>1, <2>2
<1> QED BY <1>4, <1>5 DEF y

\* What makes every row of a statement take effect.
AllCover(op, b, recs) ==
  \/ op \in {"upsert", "upsertNotUnique"}
  \/ /\ ~Repeats(recs)
     /\ op = "merge" \/ (op = "insertNew" /\ \A i \in DOMAIN recs : recs[i].key \notin Held(b))

\* The rows have the numbers of a batch of the sync t.
Numbered(recs, t) ==
  /\ \A i \in DOMAIN recs : recs[i].sync = t
  /\ \A i, j \in DOMAIN recs : i < j => recs[i].n < recs[j].n

\* c has these rows or later ones of their keys, and no older ones than b.
HasAll(b, recs, t, c) ==
  /\ \A i \in DOMAIN recs : HasRow(c, recs[i].key, t, recs[i].n)
  /\ \A k : \A n \in Nat : HasRow(b, k, t, n) /\ (\A i \in DOMAIN recs : n <= recs[i].n) => HasRow(c, k, t, n)

\* So are all rows of a statement, in their order.
LEMMA AfterHas ==
  ASSUME NEW s, NEW op, NEW b \in BagsOf(s), NEW recs \in Seq(RowsOf(s)), NEW t \in Nat,
         NEW c, c = AfterRows(op, b, recs, Range(recs)), Single(b), AllCover(op, b, recs),
         Numbered(recs, t)
  PROVE  HasAll(b, recs, t, c)
<1> DEFINE n == Len(recs)
           taken == Range(recs)
<1>1. PICK f \in [0..n -> BagsOf(s)] : RowByRow(f, op, b, taken, recs) /\ f[n] = c
  <2> HIDE DEF taken
  <2>1. c = AfterRows(op, b, recs, taken)
    BY DEF taken
  <2>2. RunsTo(s, op, b, taken, recs, c)
    BY <2>1, AfterSteps, Zenon
  <2> QED BY <2>2 DEF RunsTo
<1>2. n \in Nat /\ DOMAIN recs = 1..n /\ \A i \in 1..n : recs[i] \in RowsOf(s) /\ recs[i] \in taken
  BY DEF Range
<1> HIDE DEF taken
<1>a. \A i, j \in 1..n : i < j => recs[i].n < recs[j].n
  BY <1>2 DEF Numbered
<1>b. \A i \in 1..n : recs[i].n \in Int
  BY <1>2 DEF RowsOf
<1>c. op \in {"merge", "insertNew"} => \A i, j \in 1..n : i # j => recs[i].key # recs[j].key
  BY <1>2 DEF Repeats, RepeatsOf, KeysOf, AllCover
<1> DEFINE Before(q, m) == HasRow(b, q, t, m) /\ (\A j \in 1..n : m <= recs[j].n)
           T == {i \in 0..n : /\ Single(f[i])
                              /\ \A k \in Held(f[i]) : k \in Held(b) \/ \E j \in 1..i : recs[j].key = k
                              /\ \A j \in 1..i : HasRow(f[i], recs[j].key, t, recs[j].n)
                              /\ \A q : \A m \in Nat : Before(q, m) => HasRow(f[i], q, t, m)}
<1>3. 0 \in T
  <2>1. f[0] = b /\ 0 \in 0..n
    BY <1>1, <1>2 DEF RowByRow
  <2>2. 1..0 = {}
    OBVIOUS
  <2> QED BY <2>1, <2>2
<1>4. ASSUME NEW i \in 0..n, i < n, i \in T PROVE i + 1 \in T
  <2> DEFINE x == f[i]
             r == recs[i + 1]
             y == f[i + 1]
  <2>1. i + 1 \in 1..n /\ (i + 1) - 1 = i /\ i + 1 \in 0..n
    BY <1>2, <1>4
  <2>2. x \in BagsOf(s) /\ r \in RowsOf(s) /\ r.sync = t /\ y = RowStep(op, b, x, r)
    BY <1>1, <1>2, <2>1 DEF RowByRow, TakeStep, Numbered
  <2>3. /\ Single(x) /\ \A k \in Held(x) : k \in Held(b) \/ \E j \in 1..i : recs[j].key = k
        /\ \A j \in 1..i : HasRow(x, recs[j].key, t, recs[j].n)
        /\ \A q : \A m \in Nat : Before(q, m) => HasRow(x, q, t, m)
    BY <1>4
  <2>4. \A j \in 1..i : j \in 1..n /\ j < i + 1
    BY <1>2, <2>1
  <2>5. CoversKey(op, b, x, r)
    <3>1. CASE op = "merge"
      BY <1>c, <2>1, <2>3, <2>4, <3>1 DEF CoversKey
    <3>2. CASE op = "insertNew"
      <4>1. r.key \notin Held(b)
        BY <1>2, <2>1, <3>2 DEF AllCover
      <4> QED BY <1>c, <2>1, <2>3, <2>4, <3>2, <4>1 DEF CoversKey
    <3> QED BY <3>1, <3>2 DEF CoversKey, AllCover
  <2>6. Single(y) /\ \A k \in Held(y) : k \in Held(x) \/ k = r.key
    <3> HIDE DEF x, y, r
    <3> QED BY <2>2, <2>3, <2>5, StepKeyed
  <2>7. /\ HasRow(y, r.key, t, r.n)
        /\ \A k, m : HasRow(x, k, t, m) /\ (r.key = k => r.n >= m) => HasRow(y, k, t, m)
    <3> HIDE DEF x, y, r
    <3> QED BY <2>2, <2>3, <2>5, StepHas
  <2>8. \A j \in 1..(i + 1) : j \in 1..i \/ j = i + 1
    BY <1>2
  <2>9. i + 1 \in 1..(i + 1) /\ \A j \in 1..i : j \in 1..(i + 1)
    BY <1>2
  <2>10. \A k \in Held(y) : k \in Held(b) \/ \E j \in 1..(i + 1) : recs[j].key = k
    <3> HIDE DEF x, y
    <3> QED BY <2>3, <2>6, <2>9
  <2>11. \A j \in 1..(i + 1) : HasRow(y, recs[j].key, t, recs[j].n)
    <3>1. \A j \in 1..i : recs[j].n < r.n /\ recs[j].n \in Int /\ r.n \in Int
      BY <1>a, <1>b, <2>1, <2>4
    <3>2. \A j \in 1..i : r.n >= recs[j].n
      BY <3>1
    <3> HIDE DEF x, y
    <3> QED BY <2>3, <2>7, <2>8, <3>2
  <2>12. \A q : \A m \in Nat : Before(q, m) => HasRow(y, q, t, m)
    <3>1. ASSUME NEW q, NEW m \in Nat, Before(q, m) PROVE r.n >= m
      BY <1>b, <2>1, <3>1
    <3> HIDE DEF x, y, r
    <3> QED BY <2>3, <2>7, <3>1
  <2> HIDE DEF Before
  <2> QED BY <2>1, <2>6, <2>10, <2>11, <2>12
<1>5. T = 0..n
  <2>1. T \in SUBSET (0..n)
    OBVIOUS
  <2> HIDE DEF T
  <2> QED BY <1>2, <1>3, <1>4, <2>1, Upwards
<1>6. n \in T
  BY <1>2, <1>5
<1>7. \A i \in DOMAIN recs : HasRow(c, recs[i].key, t, recs[i].n)
  BY <1>1, <1>2, <1>6
<1>8. \A k : \A m \in Nat : HasRow(b, k, t, m) /\ (\A i \in DOMAIN recs : m <= recs[i].n) => HasRow(c, k, t, m)
  BY <1>1, <1>2, <1>6
<1> QED BY <1>7, <1>8 DEF HasAll

\* A table without a key: the new records are added, each of them once.
LEMMA AfterOnce ==
  ASSUME NEW s, NEW op, NEW b \in BagsOf(s), NEW taken, NEW recs \in Seq(RowsOf(s)),
         NEW c, c = AfterRows(op, b, recs, taken), NoneTwice(b),
         op \in {"append", "addMissing"},
         \A i \in DOMAIN recs : recs[i] \notin DOMAIN b,
         \A i, j \in DOMAIN recs : i < j => recs[i].n < recs[j].n
  PROVE  /\ NoneTwice(c) /\ DOMAIN b \subseteq DOMAIN c
         /\ \A i \in DOMAIN recs : recs[i] \in taken => recs[i] \in DOMAIN c
<1> DEFINE n == Len(recs)
<1>1. PICK f \in [0..n -> BagsOf(s)] : RowByRow(f, op, b, taken, recs) /\ f[n] = c
  BY AfterSteps DEF RunsTo
<1>2. n \in Nat /\ DOMAIN recs = 1..n /\ \A i \in 1..n : recs[i] \in RowsOf(s)
  OBVIOUS
<1>a. \A i, j \in 1..n : i < j => recs[i] # recs[j]
  <2>1. \A i \in 1..n : recs[i].n \in Int
    BY <1>2 DEF RowsOf
  <2> QED BY <1>2, <2>1
<1> DEFINE T == {i \in 0..n : /\ NoneTwice(f[i]) /\ DOMAIN b \subseteq DOMAIN f[i]
                              /\ \A j \in 1..i : recs[j] \in taken => recs[j] \in DOMAIN f[i]
                              /\ \A z \in DOMAIN f[i] : z \in DOMAIN b \/ \E j \in 1..i : z = recs[j]}
<1>3. 0 \in T
  <2>1. f[0] = b /\ 0 \in 0..n
    BY <1>1, <1>2 DEF RowByRow
  <2>2. 1..0 = {}
    OBVIOUS
  <2> QED BY <2>1, <2>2
<1>4. ASSUME NEW i \in 0..n, i < n, i \in T PROVE i + 1 \in T
  <2> DEFINE x == f[i]
             r == recs[i + 1]
             y == f[i + 1]
  <2>1. i + 1 \in 1..n /\ (i + 1) - 1 = i /\ i + 1 \in 0..n
    BY <1>2, <1>4
  <2>2. x \in BagsOf(s) /\ r \in RowsOf(s) /\ y = TakeStep(op, b, taken, x, r)
    BY <1>1, <1>2, <2>1 DEF RowByRow
  <2>3. /\ NoneTwice(x) /\ DOMAIN b \subseteq DOMAIN x
        /\ \A j \in 1..i : recs[j] \in taken => recs[j] \in DOMAIN x
        /\ \A z \in DOMAIN x : z \in DOMAIN b \/ \E j \in 1..i : z = recs[j]
    BY <1>4
  <2>4. \A j \in 1..i : j \in 1..n /\ j < i + 1
    BY <1>2, <2>1
  <2>5. r \notin DOMAIN x
    BY <1>2, <1>a, <2>1, <2>3, <2>4
  <2>6. /\ NoneTwice(y)
        /\ \A z : z \in DOMAIN y <=> z \in DOMAIN x \/ (z = r /\ r \in taken)
    <3> HIDE DEF x, y, r
    <3> QED BY <2>2, <2>3, <2>5, StepUnkeyed DEF TakeStep
  <2>8. \A j \in 1..(i + 1) : j \in 1..i \/ j = i + 1
    BY <1>2
  <2>9. i + 1 \in 1..(i + 1) /\ \A j \in 1..i : j \in 1..(i + 1)
    BY <1>2
  <2>10. /\ DOMAIN b \subseteq DOMAIN y
         /\ \A j \in 1..(i + 1) : recs[j] \in taken => recs[j] \in DOMAIN y
         /\ \A z \in DOMAIN y : z \in DOMAIN b \/ \E j \in 1..(i + 1) : z = recs[j]
    <3> HIDE DEF x, y
    <3> QED BY <2>3, <2>6, <2>8, <2>9
  <2> QED BY <2>1, <2>6, <2>10
<1>5. T = 0..n
  <2>1. T \in SUBSET (0..n)
    OBVIOUS
  <2> HIDE DEF T
  <2> QED BY <1>2, <1>3, <1>4, <2>1, Upwards
<1>6. n \in T
  BY <1>2, <1>5
<1> QED BY <1>1, <1>2, <1>6

\* However often they are there already, records are added.
LEMMA AfterAppended ==
  ASSUME NEW s, NEW b \in BagsOf(s), NEW taken, NEW recs \in Seq(RowsOf(s)),
         NEW c, c = AfterRows("append", b, recs, taken)
  PROVE  /\ DOMAIN b \subseteq DOMAIN c
         /\ \A i \in DOMAIN recs : recs[i] \in taken => recs[i] \in DOMAIN c
<1> DEFINE n == Len(recs)
<1>1. PICK f \in [0..n -> BagsOf(s)] : RowByRow(f, "append", b, taken, recs) /\ f[n] = c
  BY AfterSteps DEF RunsTo
<1>2. n \in Nat /\ DOMAIN recs = 1..n /\ \A i \in 1..n : recs[i] \in RowsOf(s)
  OBVIOUS
<1> DEFINE T == {i \in 0..n : /\ DOMAIN b \subseteq DOMAIN f[i]
                              /\ \A j \in 1..i : recs[j] \in taken => recs[j] \in DOMAIN f[i]}
<1>3. 0 \in T
  <2>1. f[0] = b /\ 0 \in 0..n
    BY <1>1, <1>2 DEF RowByRow
  <2>2. 1..0 = {}
    OBVIOUS
  <2> QED BY <2>1, <2>2
<1>4. ASSUME NEW i \in 0..n, i < n, i \in T PROVE i + 1 \in T
  <2> DEFINE x == f[i]
             r == recs[i + 1]
             y == f[i + 1]
  <2>1. i + 1 \in 1..n /\ (i + 1) - 1 = i /\ i + 1 \in 0..n
    BY <1>2, <1>4
  <2>2. x \in BagsOf(s) /\ r \in RowsOf(s) /\ y = TakeStep("append", b, taken, x, r)
    BY <1>1, <1>2, <2>1 DEF RowByRow
  <2>3. /\ DOMAIN b \subseteq DOMAIN x
        /\ \A j \in 1..i : recs[j] \in taken => recs[j] \in DOMAIN x
    BY <1>4
  <2>4. \A z : z \in DOMAIN y <=> z \in DOMAIN x \/ (z = r /\ r \in taken)
    <3> HIDE DEF x, y, r
    <3>1. RowStep("append", b, x, r) = Insert(x, r)
      BY RowStepIs
    <3>2. \A z : z \in DOMAIN Insert(x, r) <=> z \in DOMAIN x \/ z = r
      BY <2>2, InsertIs
    <3> QED BY <2>2, <3>1, <3>2 DEF TakeStep
  <2>5. \A j \in 1..(i + 1) : j \in 1..i \/ j = i + 1
    BY <1>2
  <2>6. /\ DOMAIN b \subseteq DOMAIN y
        /\ \A j \in 1..(i + 1) : recs[j] \in taken => recs[j] \in DOMAIN y
    <3> HIDE DEF x, y
    <3> QED BY <2>3, <2>4, <2>5
  <2> QED BY <2>1, <2>6
<1>5. T = 0..n
  <2>1. T \in SUBSET (0..n)
    OBVIOUS
  <2> HIDE DEF T
  <2> QED BY <1>2, <1>3, <1>4, <2>1, Upwards
<1>6. n \in T
  BY <1>2, <1>5
<1> QED BY <1>1, <1>2, <1>6

-----------------------------------------------------------------------------
(* The statements of a write. *)

Silent == {"createTmp", "dropTmp", "put"}
Writes(op) == op \notin Silent \cup {"deleteKeys"}
Keyed(w, k) == k /\ w \notin {"bigquery", "clickhouse", "kafka"}
Twice(w, k) == w = "kafka" \/ (w = "elasticsearch" /\ ~k)

WriteOps == Silent \cup {"deleteKeys", "append", "addMissing", "upsert", "upsertNotUnique", "insertNew", "merge", "tvp"}
StepSet(s) == [op : WriteOps, rows : Seq(RowsOf(s)), tries : 1..Tries, split : BOOLEAN]

\* What the destination w does with a table with (k) or without a key, and
\* with lists (l).
Fits(w, k, l, op) ==
  /\ IF Keyed(w, k)
     THEN op \in Silent \cup {"deleteKeys", "upsert", "upsertNotUnique", "insertNew", "merge", "tvp"}
     ELSE op \in Silent \cup {"append", "addMissing"}
  /\ op \in {"deleteKeys", "insertNew"} => w = "duckdb" /\ l
  /\ op \in {"upsertNotUnique"} => w = "duckdb" /\ ~l
  /\ op = "merge" => w = "snowflake"
  /\ op = "addMissing" => w = "gremlin"
  /\ op = "tvp" => w = "mssql"

FromBatch(recs, b) ==
  /\ \A p \in DOMAIN recs : \E m \in DOMAIN b : recs[p] = b[m]
  /\ \A p, q \in DOMAIN recs : p < q => recs[p].n < recs[q].n

\* A statement whose rows are taken one by one writes them as they are, the
\* whole batch where they have keys.
SplitOK(w, k, b, st) ==
  IF Keyed(w, k) THEN st.op = "upsert" /\ st.rows = b ELSE st.op = "append" /\ Twice(w, k)

StepOK(w, k, l, b, st) ==
  /\ Fits(w, k, l, st.op) /\ FromBatch(st.rows, b)
  /\ st.op \in Silent => st.rows = << >>
  /\ st.split => SplitOK(w, k, b, st)

\* The records are written in their order.
RowsInOrder(W) ==
  \A i, j \in DOMAIN W : i < j /\ Writes(W[i].op) /\ Writes(W[j].op) =>
    \A p \in DOMAIN W[i].rows, q \in DOMAIN W[j].rows : W[i].rows[p].n < W[j].rows[q].n

\* Where rows are deleted the whole batch is inserted next, and only there.
Deleting(W, b) ==
  \A i \in DOMAIN W :
    /\ W[i].op = "deleteKeys" =>
         W[i].rows = b /\ i + 1 \in DOMAIN W /\ W[i + 1].op = "insertNew" /\ W[i + 1].rows = b
    /\ W[i].op = "insertNew" /\ i # 1 => W[i - 1].op = "deleteKeys"

StepsOK(W, s, w, k, l, b) ==
  /\ W \in Seq(StepSet(s))
  /\ \A i \in DOMAIN W : StepOK(w, k, l, b, W[i])
  /\ RowsInOrder(W) /\ Deleting(W, b)

Pending(W, r) == \E i \in DOMAIN W : Writes(W[i].op) /\ \E p \in DOMAIN W[i].rows : W[i].rows[p] = r

\* The records of a batch, numbered.
IsBatch(b, s) ==
  /\ b \in Seq(RowsOf(s))
  /\ \A m \in DOMAIN b : b[m].n = m /\ b[m].sync = s

WritePlans(W, s, w, k, l, b) == StepsOK(W, s, w, k, l, b) /\ \A m \in DOMAIN b : Pending(W, b[m])

LEMMA BatchFromItself ==
  ASSUME NEW s, NEW b, IsBatch(b, s)
  PROVE  FromBatch(b, b) /\ FromBatch(<< >>, b)
<1>1. DOMAIN b = 1..Len(b) /\ Len(b) \in Nat
  BY DEF IsBatch
<1> QED BY <1>1 DEF FromBatch, IsBatch

\* One statement for the whole batch.
LEMMA OneStatement ==
  ASSUME NEW s, NEW w, NEW k, NEW l, NEW b, IsBatch(b, s), NEW st \in StepSet(s),
         st.rows = b, Fits(w, k, l, st.op), Writes(st.op), st.op \notin {"insertNew"},
         st.split => SplitOK(w, k, b, st)
  PROVE  WritePlans(<<st>>, s, w, k, l, b)
<1> DEFINE W == <<st>>
<1>1. W \in Seq(StepSet(s)) /\ DOMAIN W = 1..1 /\ W[1] = st
  OBVIOUS
<1> HIDE DEF W
<1>2. StepOK(w, k, l, b, st)
  BY BatchFromItself DEF StepOK, Writes
<1>3. RowsInOrder(W)
  BY <1>1 DEF RowsInOrder
<1>4. Deleting(W, b)
  BY <1>1 DEF Deleting, Writes
<1>5. \A m \in DOMAIN b : Pending(W, b[m])
  BY <1>1 DEF Pending
<1> QED BY <1>1, <1>2, <1>3, <1>4, <1>5 DEF WritePlans, StepsOK, W

\* A statement before it or around it.
LEMMA AfterSilent ==
  ASSUME NEW s, NEW w, NEW k, NEW l, NEW b, IsBatch(b, s), NEW st \in StepSet(s),
         st.rows = b, Fits(w, k, l, st.op), Writes(st.op), st.op \notin {"insertNew"},
         ~st.split,
         NEW first \in StepSet(s), first.op \in Silent, first.rows = << >>, ~first.split,
         NEW W, W \in Seq(StepSet(s)), DOMAIN W \in {1..2, 1..3}, W[1] = first, W[2] = st,
         3 \in DOMAIN W => W[3].op \in Silent /\ W[3].rows = << >> /\ ~W[3].split
  PROVE  WritePlans(W, s, w, k, l, b)
<1>0. \A i \in DOMAIN W : i = 1 \/ i = 2 \/ i = 3
  OBVIOUS
<1>a. Fits(w, k, l, first.op) /\ (3 \in DOMAIN W => Fits(w, k, l, W[3].op))
  BY DEF Fits, Silent
<1>1. ASSUME NEW i \in DOMAIN W PROVE StepOK(w, k, l, b, W[i])
  <2>1. CASE i = 2
    BY <2>1, BatchFromItself DEF StepOK, Writes
  <2>2. CASE i # 2
    BY <1>0, <1>a, <2>2, BatchFromItself DEF StepOK
  <2> QED BY <2>1, <2>2
<1>2. \A i \in DOMAIN W : i # 2 => ~Writes(W[i].op) /\ W[i].op \notin {"deleteKeys", "insertNew"}
  BY <1>0 DEF Writes, Silent
<1>3. RowsInOrder(W)
  BY <1>2 DEF RowsInOrder
<1>4. Deleting(W, b)
  BY <1>2 DEF Deleting, Writes
<1>5. \A m \in DOMAIN b : Pending(W, b[m])
  BY DEF Pending
<1> QED BY <1>1, <1>3, <1>4, <1>5 DEF WritePlans, StepsOK

\* The statements that Do, Again and Split make.
LEMMA DoIs ==
  ASSUME NEW s, NEW op \in WriteOps, NEW recs \in Seq(RowsOf(s))
  PROVE  /\ Do(op, recs) \in StepSet(s) /\ Do(op, recs).op = op /\ Do(op, recs).rows = recs
         /\ ~Do(op, recs).split
         /\ Again(Do(op, recs)) \in StepSet(s) /\ Again(Do(op, recs)).op = op
         /\ Again(Do(op, recs)).rows = recs /\ ~Again(Do(op, recs)).split
         /\ Again(Split(Do(op, recs))) \in StepSet(s) /\ Again(Split(Do(op, recs))).op = op
         /\ Again(Split(Do(op, recs))).rows = recs
<1>1. Tries \in Nat /\ Tries >= 1 /\ 1 \in 1..Tries /\ Tries \in 1..Tries
  <2>1. Tries \in Nat \ {0}
    BY WritersAssumption
  <2> QED BY <2>1
<1> DEFINE d == Do(op, recs)
<1>2. d = [op |-> op, rows |-> recs, tries |-> 1, split |-> FALSE]
  BY DEF Do
<1> HIDE DEF d
<1>3. d \in StepSet(s)
  BY <1>1, <1>2 DEF StepSet
<1>4. d.op = op /\ d.rows = recs /\ ~d.split
  BY <1>2
<1>5. Again(d) \in StepSet(s) /\ Again(d).op = op /\ Again(d).rows = recs /\ ~Again(d).split
  BY <1>1, <1>3, <1>4 DEF Again, StepSet
<1>6. Again(Split(d)) \in StepSet(s) /\ Again(Split(d)).op = op /\ Again(Split(d)).rows = recs
  <2> DEFINE e == Split(d)
  <2>1. e \in StepSet(s) /\ e.op = op /\ e.rows = recs
    BY <1>3, <1>4 DEF Split, StepSet
  <2> HIDE DEF e
  <2>2. Again(e) \in StepSet(s) /\ Again(e).op = op /\ Again(e).rows = recs
    BY <1>1, <2>1 DEF Again, StepSet
  <2> QED BY <2>2 DEF e
<1> QED BY <1>3, <1>4, <1>5, <1>6 DEF d

LEMMA SilentIs ==
  ASSUME NEW s, NEW op \in Silent
  PROVE  /\ Do(op, << >>) \in StepSet(s) /\ Do(op, << >>).op = op
         /\ Do(op, << >>).rows = << >> /\ ~Do(op, << >>).split
<1> DEFINE none == << >>
<1>1. none \in Seq(RowsOf(s)) /\ op \in WriteOps
  BY DEF WriteOps
<1> HIDE DEF none
<1>2. Do(op, none) \in StepSet(s) /\ Do(op, none).op = op /\ Do(op, none).rows = none /\ ~Do(op, none).split
  BY <1>1, DoIs
<1> QED BY <1>2 DEF none

\* A record is to come still, or it is one of the first statement.
OneTaken(W) ==
  \A r : Pending(W, r) =>
    Pending(Tail(W), r) \/ (Writes(W[1].op) /\ \E p \in DOMAIN W[1].rows : W[1].rows[p] = r)

\* What holds for the statements holds without the first of them.
LEMMA TailOK ==
  ASSUME NEW s, NEW w, NEW k, NEW l, NEW b, NEW W, StepsOK(W, s, w, k, l, b), W # << >>
  PROVE  /\ StepsOK(Tail(W), s, w, k, l, b)
         /\ OneTaken(W)
<1> DEFINE V == Tail(W)
           n == Len(W)
<1>1. /\ W \in Seq(StepSet(s)) /\ n \in Nat /\ n > 0 /\ DOMAIN W = 1..n /\ V \in Seq(StepSet(s))
      /\ DOMAIN V = 1..(n - 1) /\ \A i \in 1..(n - 1) : V[i] = W[i + 1] /\ i + 1 \in 1..n
  BY DEF StepsOK
<1> HIDE DEF V, n
<1>2. \A i \in DOMAIN V : StepOK(w, k, l, b, V[i])
  BY <1>1 DEF StepsOK
<1>3. RowsInOrder(V)
  <2>1. RowsInOrder(W)
    BY DEF StepsOK
  <2>2. ASSUME NEW i \in DOMAIN V, NEW j \in DOMAIN V, i < j, Writes(V[i].op), Writes(V[j].op),
               NEW p \in DOMAIN V[i].rows, NEW q \in DOMAIN V[j].rows
        PROVE  V[i].rows[p].n < V[j].rows[q].n
    <3>1. i + 1 \in DOMAIN W /\ j + 1 \in DOMAIN W /\ i + 1 < j + 1 /\ V[i] = W[i + 1] /\ V[j] = W[j + 1]
      BY <1>1, <2>2
    <3> QED BY <2>1, <2>2, <3>1 DEF RowsInOrder
  <2> QED BY <2>2 DEF RowsInOrder
<1>4. Deleting(V, b)
  <2>1. Deleting(W, b)
    BY DEF StepsOK
  <2>2. ASSUME NEW i \in DOMAIN V, V[i].op = "deleteKeys"
        PROVE  V[i].rows = b /\ i + 1 \in DOMAIN V /\ V[i + 1].op = "insertNew" /\ V[i + 1].rows = b
    <3>1. W[i + 1].rows = b /\ (i + 1) + 1 \in DOMAIN W
          /\ W[(i + 1) + 1].op = "insertNew" /\ W[(i + 1) + 1].rows = b
      BY <1>1, <2>1, <2>2 DEF Deleting
    <3> QED BY <1>1, <3>1
  <2>3. ASSUME NEW i \in DOMAIN V, V[i].op = "insertNew", i # 1
        PROVE  V[i - 1].op = "deleteKeys"
    <3>1. i + 1 # 1 /\ (i + 1) - 1 = i /\ i - 1 \in 1..(n - 1) /\ (i - 1) + 1 = i
      BY <1>1, <2>3
    <3>2. i + 1 \in DOMAIN W /\ W[i + 1].op = "insertNew" /\ i + 1 # 1
      BY <1>1, <2>3, <3>1
    <3>3. W[(i + 1) - 1].op = "deleteKeys"
      BY <2>1, <3>2 DEF Deleting
    <3> QED BY <1>1, <3>1, <3>3
  <2> QED BY <2>2, <2>3 DEF Deleting
<1>5. ASSUME NEW r, Pending(W, r)
      PROVE  Pending(V, r) \/ (Writes(W[1].op) /\ \E p \in DOMAIN W[1].rows : W[1].rows[p] = r)
  <2>1. PICK i \in DOMAIN W : Writes(W[i].op) /\ \E p \in DOMAIN W[i].rows : W[i].rows[p] = r
    BY <1>5 DEF Pending
  <2>2. CASE i = 1
    BY <2>1, <2>2
  <2>3. CASE i # 1
    <3>1. i - 1 \in DOMAIN V /\ V[i - 1] = W[i]
      BY <1>1, <2>3
    <3> QED BY <2>1, <3>1 DEF Pending
  <2> QED BY <2>2, <2>3
<1> QED BY <1>1, <1>2, <1>3, <1>4, <1>5 DEF StepsOK, OneTaken, V

-----------------------------------------------------------------------------
\* The i-th chunk has the rows from First(i) on.
First(i) == (i - 1) * BatchSize

InChunk(C, i, p, recs) ==
  /\ p \in Nat /\ 1 <= p /\ p <= BatchSize
  /\ First(i) + p \in 1..Len(recs) /\ C[i][p] = recs[First(i) + p]

Cut(C, n, recs) ==
  /\ \A i \in 1..n : \A p \in DOMAIN C[i] : InChunk(C, i, p, recs)
  /\ \A m \in 1..Len(recs) : \E i \in 1..n : \E p \in DOMAIN C[i] : C[i][p] = recs[m]

\* The chunks of postgresql are the batch, cut.
LEMMA Chunks ==
  ASSUME NEW S, NEW recs \in Seq(S), NEW W, W = PostgresChunks(recs), NEW n, n = Len(W)
  PROVE  n \in Nat /\ W \in Seq(Seq(S)) /\ Cut(W, n, recs)
<1> DEFINE B == BatchSize
           L == Len(recs)
           k == (L + B - 1) \div B
           Upto(i) == IF i = k THEN L ELSE i * B
           V == [i \in 1..k |-> SubSeq(recs, First(i) + 1, Upto(i))]
<1>1. B \in Nat \ {0} /\ L \in Nat /\ B >= 1
  BY WritersAssumption
<1>2. k \in Nat /\ k * B <= L + B - 1 /\ L + B - 1 < k * B + B
  <2> HIDE DEF B, L
  <2> QED BY <1>1, Z3
<1>3. W = V
  BY DEF PostgresChunks, First
<1> HIDE DEF k
<1>4. \A i \in 1..k : First(i) \in Nat /\ First(i) + B = i * B /\ i * B \in Nat
  <2> HIDE DEF B
  <2>1. ASSUME NEW i \in 1..k PROVE i - 1 \in Nat /\ (i - 1) * B \in Nat /\ (i - 1) * B + B = i * B
    BY <1>1, <1>2, Z3
  <2> QED BY <1>1, <2>1 DEF First, B
<1>5. \A i \in 1..k : i < k => i * B <= L
  <2> HIDE DEF B, L
  <2>1. ASSUME NEW i \in 1..k, i < k PROVE i * B <= (k - 1) * B
    BY <1>1, <1>2, <2>1, Z3
  <2>2. (k - 1) * B = k * B - B
    BY <1>1, <1>2, Z3
  <2> QED BY <1>1, <1>2, <2>1, <2>2
<1>6. k \in 1..k => First(k) < L /\ L <= k * B
  <2> DEFINE e == k * B
  <2>1. k \in 1..k => First(k) + B = e /\ First(k) \in Nat
    BY <1>4
  <2>2. e \in Nat
    <3> HIDE DEF B
    <3> QED BY <1>1, <1>2
  <2>3. e <= L + B - 1 /\ L + B - 1 < e + B
    BY <1>2
  <2> HIDE DEF e, B, L
  <2>4. k \in 1..k => First(k) < L /\ L <= e
    BY <1>1, <2>1, <2>2, <2>3
  <2> QED BY <2>4 DEF e, B, L
<1>7. \A i \in 1..k : Upto(i) \in Nat /\ Upto(i) <= L /\ Upto(i) <= i * B
  <2>1. ASSUME NEW i \in 1..k PROVE Upto(i) \in Nat /\ Upto(i) <= L /\ Upto(i) <= i * B
    <3> DEFINE e == i * B
    <3>a. e \in Nat
      BY <1>4, <2>1
    <3>b. i = k => L <= e
      BY <1>6, <2>1, Zenon
    <3>c. i # k => i < k
      BY <1>2, <2>1
    <3>d. i # k => e <= L
      BY <1>5, <2>1, <3>c, Zenon
    <3>1. e \in Nat /\ (i = k => L <= e) /\ (i # k => e <= L)
      BY <3>a, <3>b, <3>d
    <3>2. Upto(i) = IF i = k THEN L ELSE e
      OBVIOUS
    <3> HIDE DEF e, Upto, B, L
    <3>3. Upto(i) \in Nat /\ Upto(i) <= L /\ Upto(i) <= e
      BY <1>1, <3>1, <3>2
    <3> QED BY <3>3 DEF e, B, L
  <2> QED BY <2>1
<1>8. ASSUME NEW i \in 1..k
      PROVE  V[i] \in Seq(S) /\ DOMAIN V[i] = 1..(Upto(i) - First(i))
             /\ \A p \in DOMAIN V[i] : V[i][p] = recs[First(i) + p]
  <2> DEFINE a == First(i) + 1
             z == Upto(i)
  <2>0. First(i) \in Nat
    BY <1>4
  <2>a. V[i] = SubSeq(recs, a, z)
    BY Zenon
  <2>b. a \in Nat /\ a >= 1
    BY <2>0
  <2>1. V[i] = SubSeq(recs, a, z) /\ a \in Nat /\ a >= 1
    BY <2>a, <2>b
  <2>5. z \in Nat /\ z <= L
    BY <1>7
  <2>2. z - a + 1 = z - First(i)
    <3> HIDE DEF z
    <3> QED BY <2>0, <2>5
  <2>3. a - 1 = First(i)
    BY <2>0
  <2> HIDE DEF a, z, V
  <2>4. V[i] \in Seq(S) /\ DOMAIN V[i] = 1..(z - a + 1) /\ \A p \in DOMAIN V[i] : V[i][p] = recs[a - 1 + p]
    BY <1>1, <2>1, <2>5
  <2> QED BY <2>0, <2>2, <2>3, <2>4 DEF z
<1>9. n = k /\ DOMAIN V = 1..k /\ V \in Seq(Seq(S))
  <2>1. V \in [1..k -> Seq(S)]
    BY <1>8
  <2> HIDE DEF V
  <2> QED BY <1>2, <1>3, <2>1
<1> HIDE DEF V, Upto
<1>10. ASSUME NEW i \in 1..n, NEW p \in DOMAIN W[i]
       PROVE  InChunk(W, i, p, recs)
  <2> DEFINE u == Upto(i)
             e == i * B
             a == First(i)
  <2>1. i \in 1..k /\ p \in DOMAIN V[i] /\ W[i] = V[i]
    BY <1>3, <1>9
  <2>2. p \in 1..(u - a) /\ V[i][p] = recs[a + p]
    BY <1>8, <2>1
  <2>3. u \in Nat /\ u <= L /\ u <= e /\ a \in Nat /\ a + B = e /\ e \in Nat
    BY <1>4, <1>7, <2>1
  <2> HIDE DEF u, e, a, B, L
  <2>4. p \in Nat /\ 1 <= p /\ p <= B /\ a + p \in 1..L
    BY <1>1, <2>2, <2>3
  <2> QED BY <2>1, <2>2, <2>4 DEF a, B, L, InChunk
<1>11. ASSUME NEW m \in 1..L
       PROVE  \E i \in 1..n : \E p \in DOMAIN W[i] : W[i][p] = recs[m]
  <2> DEFINE q == (m - 1) \div B
             i == q + 1
             p == m - First(i)
  <2>1. q \in Nat /\ q * B <= m - 1 /\ m - 1 < q * B + B
    <3>1. m - 1 \in Nat
      OBVIOUS
    <3> DEFINE a == m - 1
    <3> HIDE DEF B, a
    <3>2. (a \div B) \in Nat /\ (a \div B) * B <= a /\ a < (a \div B) * B + B
      BY <1>1, <3>1, Z3 DEF a
    <3> QED BY <3>2 DEF a
  <2> HIDE DEF q
  <2>2. First(i) = q * B
    BY <2>1 DEF First
  <2>3. i \in 1..k
    <3>1. ASSUME q >= k PROVE FALSE
      <4>1. q * B >= k * B
        <5> HIDE DEF B
        <5> QED BY <1>1, <1>2, <2>1, <3>1, Z3
      <4>2. q * B \in Nat /\ k * B \in Nat
        <5> HIDE DEF B
        <5> QED BY <1>1, <1>2, <2>1
      <4> QED BY <1>1, <1>2, <2>1, <4>1, <4>2
    <3> QED BY <1>2, <2>1, <3>1
  <2>4. p \in 1..(Upto(i) - First(i)) /\ First(i) + p = m
    <3>1. i * B = First(i) + B /\ First(i) \in Nat
      BY <1>4, <2>3
    <3>2. m <= i * B
      BY <1>1, <2>1, <2>2, <3>1
    <3>3. m <= Upto(i)
      BY <3>2 DEF Upto
    <3>4. First(i) <= m - 1 /\ Upto(i) \in Nat
      BY <1>7, <2>1, <2>2, <2>3
    <3> QED BY <3>1, <3>3, <3>4
  <2> HIDE DEF p, i
  <2>5. p \in DOMAIN V[i] /\ V[i][p] = recs[First(i) + p]
    BY <1>8, <2>3, <2>4
  <2> QED BY <1>3, <1>9, <2>3, <2>4, <2>5
<1>12. Cut(W, n, recs)
  <2> HIDE DEF V
  <2> QED BY <1>10, <1>11 DEF Cut
<1>13. n \in Nat /\ W \in Seq(Seq(S))
  BY <1>2, <1>3, <1>9
<1> QED BY <1>12, <1>13

\* The same statement for one part of the batch after the other.
Parts(W, n, op, s, b) ==
  /\ \A i \in 1..n : W[i] \in StepSet(s) /\ W[i].op = op /\ FromBatch(W[i].rows, b)
  /\ \A i, j \in 1..n : i < j =>
       \A p \in DOMAIN W[i].rows, q \in DOMAIN W[j].rows : W[i].rows[p].n < W[j].rows[q].n
  /\ \A m \in DOMAIN b : \E i \in 1..n : \E p \in DOMAIN W[i].rows : W[i].rows[p] = b[m]

\* Statements with one part of the batch each.
LEMMA ManyStatements ==
  ASSUME NEW s, NEW w, NEW k, NEW l, NEW b, IsBatch(b, s), NEW n \in Nat,
         NEW W, W = [i \in 1..n |-> W[i]],
         NEW op, Fits(w, k, l, op), Writes(op), op \notin {"insertNew"},
         Parts(W, n, op, s, b), \A i \in 1..n : W[i].split => SplitOK(w, k, b, W[i])
  PROVE  WritePlans(W, s, w, k, l, b)
<1>1. DOMAIN W = 1..n /\ W \in Seq(StepSet(s))
  <2>1. W \in [1..n -> StepSet(s)]
    BY DEF Parts
  <2> QED BY <2>1
<1>2. \A i \in DOMAIN W : StepOK(w, k, l, b, W[i])
  BY <1>1 DEF StepOK, Writes, Parts
<1>3. RowsInOrder(W)
  BY <1>1 DEF RowsInOrder, Parts
<1>4. Deleting(W, b)
  BY <1>1 DEF Deleting, Writes, Parts
<1>5. \A m \in DOMAIN b : Pending(W, b[m])
  BY <1>1 DEF Pending, Parts
<1> QED BY <1>1, <1>2, <1>3, <1>4, <1>5 DEF WritePlans, StepsOK

\* postgresql.
LEMMA PlanOfPostgres ==
  ASSUME NEW s, NEW b, IsBatch(b, s), writer = "postgresql",
         keyed \in BOOLEAN, lists \in BOOLEAN
  PROVE  WritePlans(PostgresWrite(b), s, writer, keyed, lists, b)
<1> DEFINE C == PostgresChunks(b)
           n == Len(C)
           op == IF keyed THEN "upsert" ELSE "append"
           W == [i \in 1..n |-> Again(Do(op, C[i]))]
           L == Len(b)
<1>1. b \in Seq(RowsOf(s)) /\ DOMAIN b = 1..L /\ L \in Nat
  BY DEF IsBatch
<1>2. n \in Nat /\ C \in Seq(Seq(RowsOf(s))) /\ Cut(C, n, b)
  <2> HIDE DEF C
  <2>1. C = PostgresChunks(b) /\ n = Len(C)
    BY DEF C
  <2> HIDE DEF n
  <2> QED BY <1>1, <2>1, Chunks
<1>a. /\ \A i \in 1..n : \A p \in DOMAIN C[i] : InChunk(C, i, p, b)
      /\ \A m \in DOMAIN b : \E i \in 1..n : \E p \in DOMAIN C[i] : C[i][p] = b[m]
  <2> HIDE DEF C, n
  <2> QED BY <1>1, <1>2 DEF Cut
<1>3. PostgresWrite(b) = W
  <2>1. DOMAIN C = 1..n
    BY <1>2
  <2> QED BY <2>1 DEF PostgresWrite
<1>4. op \in WriteOps /\ Fits(writer, keyed, lists, op) /\ Writes(op) /\ op \notin {"insertNew"}
  <2>1. op \in {"upsert", "append"} /\ (keyed <=> op = "upsert")
    OBVIOUS
  <2> HIDE DEF op
  <2>2. Keyed(writer, keyed) <=> keyed
    BY DEF Keyed
  <2>3. op \in WriteOps /\ Writes(op) /\ op \notin {"insertNew"}
    <3>1. CASE op = "upsert"
      BY <3>1 DEF Writes, Silent, WriteOps
    <3>2. CASE op = "append"
      BY <3>2 DEF Writes, Silent, WriteOps
    <3> QED BY <2>1, <3>1, <3>2
  <2>4. Fits(writer, keyed, lists, op)
    BY <2>1, <2>2 DEF Fits
  <2> QED BY <2>3, <2>4
<1> HIDE DEF C, op
<1>5. ASSUME NEW i \in 1..n
      PROVE  W[i] \in StepSet(s) /\ W[i].op = op /\ ~W[i].split /\ W[i].rows = C[i]
  <2> DEFINE c == C[i]
  <2>1. c \in Seq(RowsOf(s)) /\ W[i] = Again(Do(op, c))
    BY <1>2, <1>5
  <2> HIDE DEF c
  <2>2. Again(Do(op, c)) \in StepSet(s) /\ Again(Do(op, c)).op = op /\ Again(Do(op, c)).rows = c
        /\ ~Again(Do(op, c)).split
    BY <1>4, <2>1, DoIs
  <2> HIDE DEF W
  <2> QED BY <2>1, <2>2 DEF c
<1>6. W = [i \in 1..n |-> W[i]]
  OBVIOUS
<1> HIDE DEF W, n
<1>7. \A i \in 1..n : First(i) \in Nat
  <2>1. BatchSize \in Nat
    BY WritersAssumption
  <2>2. ASSUME NEW i \in 1..n PROVE First(i) \in Nat
    <3>1. i - 1 \in Nat
      BY <1>2
    <3> QED BY <2>1, <3>1 DEF First
  <2> QED BY <2>2
<1>8. ASSUME NEW i \in 1..n PROVE FromBatch(W[i].rows, b)
  <2>1. \A p \in DOMAIN C[i] : First(i) + p \in DOMAIN b /\ C[i][p] = b[First(i) + p] /\ p \in Nat
                               /\ C[i][p].n = First(i) + p
    BY <1>1, <1>a DEF IsBatch, InChunk
  <2>2. \A p, q \in DOMAIN C[i] : p < q => First(i) + p < First(i) + q
    BY <1>7, <2>1
  <2> QED BY <1>5, <2>1, <2>2 DEF FromBatch
<1>9. ASSUME NEW i \in 1..n, NEW j \in 1..n, i < j,
             NEW p \in DOMAIN W[i].rows, NEW q \in DOMAIN W[j].rows
      PROVE  W[i].rows[p].n < W[j].rows[q].n
  <2>1. p \in DOMAIN C[i] /\ q \in DOMAIN C[j] /\ W[i].rows[p] = C[i][p] /\ W[j].rows[q] = C[j][q]
    BY <1>5
  <2>2. W[i].rows[p].n = First(i) + p /\ W[j].rows[q].n = First(j) + q
        /\ p \in Nat /\ p <= BatchSize /\ q \in Nat /\ q >= 1
    BY <1>1, <1>a, <2>1 DEF IsBatch, InChunk
  <2>3. First(i) + BatchSize <= First(j)
    <3>1. BatchSize \in Nat /\ i \in Nat /\ j - 1 \in Nat /\ i <= j - 1 /\ i - 1 \in Nat
      BY <1>2, <1>9, WritersAssumption
    <3>2. i * BatchSize <= (j - 1) * BatchSize
      BY <3>1, Z3
    <3>3. (i - 1) * BatchSize + BatchSize = i * BatchSize
      BY <3>1, Z3
    <3> QED BY <3>2, <3>3 DEF First
  <2>4. First(i) \in Nat /\ First(j) \in Nat /\ BatchSize \in Nat
    BY <1>7, WritersAssumption
  <2>5. First(i) + p < First(j) + q
    BY <2>2, <2>3, <2>4
  <2> QED BY <2>2, <2>5
<1>10. ASSUME NEW m \in DOMAIN b PROVE \E i \in 1..n : \E p \in DOMAIN W[i].rows : W[i].rows[p] = b[m]
  <2>1. PICK i \in 1..n : \E p \in DOMAIN C[i] : C[i][p] = b[m]
    BY <1>a
  <2>2. W[i].rows = C[i]
    BY <1>5
  <2> QED BY <2>1, <2>2
<1>11. Parts(W, n, op, s, b)
  BY <1>5, <1>8, <1>9, <1>10 DEF Parts
<1> QED BY <1>2, <1>3, <1>4, <1>5, <1>6, <1>11, ManyStatements

\* mongodb.
LEMMA MongoDBPlan ==
  ASSUME NEW s, NEW b, IsBatch(b, s), writer = "mongodb",
         keyed \in BOOLEAN, lists \in BOOLEAN
  PROVE  WritePlans(MongoDBWrite(b), s, writer, keyed, lists, b)
<1> DEFINE op == IF keyed THEN "upsert" ELSE "append"
           n == Len(b)
           W == [i \in 1..n |-> Do(op, <<b[i]>>)]
<1>1. b \in Seq(RowsOf(s)) /\ DOMAIN b = 1..n /\ n \in Nat
  BY DEF IsBatch
<1>2. MongoDBWrite(b) = W
  BY <1>1 DEF MongoDBWrite
<1>3. op \in WriteOps /\ Fits(writer, keyed, lists, op) /\ Writes(op) /\ op \notin {"insertNew"}
  <2>1. op \in {"upsert", "append"} /\ (keyed <=> op = "upsert")
    OBVIOUS
  <2> HIDE DEF op
  <2>2. Keyed(writer, keyed) <=> keyed
    BY DEF Keyed
  <2>3. op \in WriteOps /\ Writes(op) /\ op \notin {"insertNew"}
    <3>1. CASE op = "upsert"
      BY <3>1 DEF Writes, Silent, WriteOps
    <3>2. CASE op = "append"
      BY <3>2 DEF Writes, Silent, WriteOps
    <3> QED BY <2>1, <3>1, <3>2
  <2>4. Fits(writer, keyed, lists, op)
    BY <2>1, <2>2 DEF Fits
  <2> QED BY <2>3, <2>4
<1> HIDE DEF op
<1>4. ASSUME NEW i \in 1..n
      PROVE  W[i] \in StepSet(s) /\ W[i].op = op /\ ~W[i].split /\ W[i].rows = <<b[i]>>
  <2> DEFINE c == <<b[i]>>
  <2>0. c \in Seq(RowsOf(s))
    BY <1>1, <1>4
  <2>1. W[i] = Do(op, c)
    OBVIOUS
  <2> HIDE DEF c
  <2>2. Do(op, c) \in StepSet(s) /\ Do(op, c).op = op /\ Do(op, c).rows = c /\ ~Do(op, c).split
    BY <1>3, <2>0, DoIs
  <2> HIDE DEF W
  <2> QED BY <2>1, <2>2 DEF c
<1>5. W = [i \in 1..n |-> W[i]]
  OBVIOUS
<1> HIDE DEF W, n
<1>6. \A i \in 1..n : DOMAIN W[i].rows = {1} /\ W[i].rows[1] = b[i] /\ b[i].n = i
  BY <1>1, <1>4 DEF IsBatch
<1>7. \A i \in 1..n : FromBatch(W[i].rows, b)
  BY <1>1, <1>6 DEF FromBatch
<1>8. \A i, j \in 1..n : i < j =>
        \A p \in DOMAIN W[i].rows, q \in DOMAIN W[j].rows : W[i].rows[p].n < W[j].rows[q].n
  BY <1>6
<1>9. \A m \in DOMAIN b : \E i \in 1..n : \E p \in DOMAIN W[i].rows : W[i].rows[p] = b[m]
  BY <1>1, <1>6
<1>10. Parts(W, n, op, s, b)
  BY <1>4, <1>7, <1>8, <1>9 DEF Parts
<1> QED BY <1>1, <1>2, <1>3, <1>4, <1>5, <1>10, ManyStatements

\* kafka.
LEMMA KafkaPlan ==
  ASSUME NEW s, NEW b, IsBatch(b, s), writer = "kafka",
         keyed \in BOOLEAN, lists \in BOOLEAN
  PROVE  WritePlans(KafkaWrite(b), s, writer, keyed, lists, b)
<1> DEFINE n == Len(b)
           W == [i \in 1..n |-> Again(Split(Do("append", <<b[i]>>)))]
<1>1. b \in Seq(RowsOf(s)) /\ DOMAIN b = 1..n /\ n \in Nat
  BY DEF IsBatch
<1>2. KafkaWrite(b) = W
  BY <1>1 DEF KafkaWrite
<1>3. /\ "append" \in WriteOps /\ Fits(writer, keyed, lists, "append") /\ Writes("append")
      /\ ~Keyed(writer, keyed) /\ Twice(writer, keyed)
  BY DEF WriteOps, Fits, Writes, Silent, Keyed, Twice
<1>4. ASSUME NEW i \in 1..n
      PROVE  W[i] \in StepSet(s) /\ W[i].op = "append" /\ W[i].rows = <<b[i]>>
  <2> DEFINE c == <<b[i]>>
  <2>0. c \in Seq(RowsOf(s))
    BY <1>1, <1>4
  <2>1. W[i] = Again(Split(Do("append", c)))
    OBVIOUS
  <2> HIDE DEF c, W
  <2>2. /\ Again(Split(Do("append", c))) \in StepSet(s) /\ Again(Split(Do("append", c))).op = "append"
        /\ Again(Split(Do("append", c))).rows = c
    BY <1>3, <2>0, DoIs
  <2> QED BY <2>1, <2>2 DEF c
<1>5. W = [i \in 1..n |-> W[i]]
  OBVIOUS
<1> HIDE DEF W, n
<1>6. \A i \in 1..n : DOMAIN W[i].rows = {1} /\ W[i].rows[1] = b[i] /\ b[i].n = i
  BY <1>1, <1>4 DEF IsBatch
<1>7. \A i \in 1..n : FromBatch(W[i].rows, b)
  BY <1>1, <1>6 DEF FromBatch
<1>8. \A i, j \in 1..n : i < j =>
        \A p \in DOMAIN W[i].rows, q \in DOMAIN W[j].rows : W[i].rows[p].n < W[j].rows[q].n
  BY <1>6
<1>9. \A m \in DOMAIN b : \E i \in 1..n : \E p \in DOMAIN W[i].rows : W[i].rows[p] = b[m]
  BY <1>1, <1>6
<1>10. Parts(W, n, "append", s, b)
  BY <1>4, <1>7, <1>8, <1>9 DEF Parts
<1>11. \A i \in 1..n : SplitOK(writer, keyed, b, W[i])
  BY <1>3, <1>4 DEF SplitOK
<1> QED BY <1>1, <1>2, <1>3, <1>5, <1>10, <1>11, ManyStatements

\* duckdb, with lists and without.
LEMMA DuckDBListPlan ==
  ASSUME NEW s, NEW b, IsBatch(b, s), writer = "duckdb", keyed, lists
  PROVE  WritePlans(DuckDBWrite(b), s, writer, keyed, lists, b)
<1> DEFINE c == Do("createTmp", << >>)
           d == Do("deleteKeys", b)
           i == Again(Do("insertNew", b))
           e == Do("dropTmp", << >>)
           W == DuckDBWrite(b)
<1>0. b \in Seq(RowsOf(s)) /\ << >> \in Seq(RowsOf(s)) /\ {"createTmp", "deleteKeys", "insertNew", "dropTmp"} \subseteq WriteOps
  BY DEF IsBatch, WriteOps, Silent
<1>1. c \in StepSet(s) /\ c.op = "createTmp" /\ c.rows = << >> /\ ~c.split
  BY SilentIs DEF Silent
<1>2. d \in StepSet(s) /\ d.op = "deleteKeys" /\ d.rows = b /\ ~d.split
  BY <1>0, DoIs
<1>3. i \in StepSet(s) /\ i.op = "insertNew" /\ i.rows = b /\ ~i.split
  BY <1>0, DoIs
<1>4. e \in StepSet(s) /\ e.op = "dropTmp" /\ e.rows = << >> /\ ~e.split
  BY SilentIs DEF Silent
<1>5. W = <<c>> \o <<d, i>> \o <<e>>
  BY DEF DuckDBWrite, DuckDBDeleteInsert
<1> HIDE DEF c, d, i, e, W
<1>6. W \in Seq(StepSet(s)) /\ DOMAIN W = 1..4 /\ W[1] = c /\ W[2] = d /\ W[3] = i /\ W[4] = e
  BY <1>1, <1>2, <1>3, <1>4, <1>5
<1>7. \A j \in DOMAIN W : j = 1 \/ j = 2 \/ j = 3 \/ j = 4
  BY <1>6
<1>8. Keyed(writer, keyed)
  BY DEF Keyed
<1>9. Fits(writer, keyed, lists, "createTmp") /\ Fits(writer, keyed, lists, "deleteKeys")
      /\ Fits(writer, keyed, lists, "insertNew") /\ Fits(writer, keyed, lists, "dropTmp")
  BY <1>8 DEF Fits, Silent
<1>10. StepOK(writer, keyed, lists, b, c)
  BY <1>1, <1>9, BatchFromItself DEF StepOK
<1>11. StepOK(writer, keyed, lists, b, d)
  BY <1>2, <1>9, BatchFromItself DEF StepOK, Silent
<1>12. StepOK(writer, keyed, lists, b, i)
  BY <1>3, <1>9, BatchFromItself DEF StepOK, Silent
<1>13. StepOK(writer, keyed, lists, b, e)
  BY <1>4, <1>9, BatchFromItself DEF StepOK
<1>14. \A j \in DOMAIN W : StepOK(writer, keyed, lists, b, W[j])
  BY <1>6, <1>7, <1>10, <1>11, <1>12, <1>13
<1>15. \A j \in DOMAIN W : Writes(W[j].op) => j = 3
  BY <1>1, <1>2, <1>4, <1>6, <1>7 DEF Writes, Silent
<1>16. RowsInOrder(W)
  BY <1>15 DEF RowsInOrder
<1>17. Deleting(W, b)
  <2>1. \A j \in DOMAIN W : W[j].op = "deleteKeys" => j = 2
    BY <1>1, <1>3, <1>4, <1>6, <1>7
  <2>2. \A j \in DOMAIN W : W[j].op = "insertNew" => j = 3
    BY <1>1, <1>2, <1>4, <1>6, <1>7
  <2> QED BY <1>2, <1>3, <1>6, <2>1, <2>2 DEF Deleting
<1>18. Writes(W[3].op)
  BY <1>3, <1>6 DEF Writes, Silent
<1>19. \A m \in DOMAIN b : Pending(W, b[m])
  BY <1>3, <1>6, <1>18 DEF Pending
<1> QED BY <1>6, <1>14, <1>16, <1>17, <1>19 DEF WritePlans, StepsOK, W

LEMMA PlanOfDuckDB ==
  ASSUME NEW s, NEW b, IsBatch(b, s), writer = "duckdb", keyed \in BOOLEAN, lists \in BOOLEAN
  PROVE  WritePlans(DuckDBWrite(b), s, writer, keyed, lists, b)
<1>0. b \in Seq(RowsOf(s)) /\ << >> \in Seq(RowsOf(s))
      /\ {"createTmp", "append", "upsertNotUnique", "dropTmp"} \subseteq WriteOps
  BY DEF IsBatch, WriteOps, Silent
<1>1. CASE ~keyed
  <2> DEFINE st == Do("append", b)
  <2>1. DuckDBWrite(b) = <<st>>
    BY <1>1 DEF DuckDBWrite
  <2>2. st \in StepSet(s) /\ st.op = "append" /\ st.rows = b /\ ~st.split
    BY <1>0, DoIs
  <2> HIDE DEF st
  <2>3. Fits(writer, keyed, lists, st.op) /\ Writes(st.op) /\ st.op \notin {"insertNew"}
    BY <1>1, <2>2 DEF Fits, Writes, Silent, Keyed
  <2> QED BY <2>1, <2>2, <2>3, OneStatement
<1>2. CASE keyed /\ lists
  BY <1>2, DuckDBListPlan
<1>3. CASE keyed /\ ~lists
  <2> DEFINE c == Do("createTmp", << >>)
             i == Again(Do("upsertNotUnique", b))
             e == Do("dropTmp", << >>)
             W == DuckDBWrite(b)
  <2>1. c \in StepSet(s) /\ c.op = "createTmp" /\ c.rows = << >> /\ ~c.split
    BY SilentIs DEF Silent
  <2>2. i \in StepSet(s) /\ i.op = "upsertNotUnique" /\ i.rows = b /\ ~i.split
    BY <1>0, DoIs
  <2>3. e \in StepSet(s) /\ e.op = "dropTmp" /\ e.rows = << >> /\ ~e.split
    BY SilentIs DEF Silent
  <2>4. W = <<c, i, e>>
    BY <1>3 DEF DuckDBWrite
  <2> HIDE DEF c, i, e, W
  <2>5. W \in Seq(StepSet(s)) /\ DOMAIN W = 1..3 /\ W[1] = c /\ W[2] = i /\ W[3] = e
    BY <2>1, <2>2, <2>3, <2>4
  <2>6. Keyed(writer, keyed)
    BY <1>3 DEF Keyed
  <2>7. Fits(writer, keyed, lists, i.op) /\ Writes(i.op) /\ i.op \notin {"insertNew"} /\ c.op \in Silent /\ e.op \in Silent
    BY <1>3, <2>1, <2>2, <2>3, <2>6 DEF Fits, Writes, Silent
  <2>8. WritePlans(W, s, writer, keyed, lists, b)
    BY <2>1, <2>2, <2>3, <2>5, <2>7, AfterSilent
  <2> QED BY <2>8 DEF W
<1> QED BY <1>1, <1>2, <1>3

\* The others write with one statement, which may have one before it.
LEMMA OnePlan ==
  ASSUME NEW s, NEW b, IsBatch(b, s), NEW op \in WriteOps, Fits(writer, keyed, lists, op), Writes(op),
         op \notin {"insertNew"}
  PROVE  /\ WritePlans(<<Do(op, b)>>, s, writer, keyed, lists, b)
         /\ WritePlans(<<Again(Do(op, b))>>, s, writer, keyed, lists, b)
         /\ writer = "elasticsearch" /\ op \in {"append", "upsert"} =>
              WritePlans(<<Again(Split(Do(op, b)))>>, s, writer, keyed, lists, b)
         /\ WritePlans(<<Do("put", << >>), Do(op, b)>>, s, writer, keyed, lists, b)
<1>0. b \in Seq(RowsOf(s)) /\ << >> \in Seq(RowsOf(s)) /\ "put" \in WriteOps /\ "put" \in Silent
  BY DEF IsBatch, WriteOps, Silent
<1>1. WritePlans(<<Do(op, b)>>, s, writer, keyed, lists, b)
  <2> DEFINE st == Do(op, b)
  <2>1. st \in StepSet(s) /\ st.op = op /\ st.rows = b /\ ~st.split
    BY <1>0, DoIs
  <2> HIDE DEF st
  <2>2. WritePlans(<<st>>, s, writer, keyed, lists, b)
    BY <2>1, OneStatement
  <2> QED BY <2>2 DEF st
<1>2. WritePlans(<<Again(Do(op, b))>>, s, writer, keyed, lists, b)
  <2> DEFINE st == Again(Do(op, b))
  <2>1. st \in StepSet(s) /\ st.op = op /\ st.rows = b /\ ~st.split
    BY <1>0, DoIs
  <2> HIDE DEF st
  <2>2. WritePlans(<<st>>, s, writer, keyed, lists, b)
    BY <2>1, OneStatement
  <2> QED BY <2>2 DEF st
<1>3. ASSUME writer = "elasticsearch", op \in {"append", "upsert"}
      PROVE  WritePlans(<<Again(Split(Do(op, b)))>>, s, writer, keyed, lists, b)
  <2> DEFINE st == Again(Split(Do(op, b)))
  <2>1. st \in StepSet(s) /\ st.op = op /\ st.rows = b
    BY <1>0, DoIs
  <2> HIDE DEF st
  <2>a. SplitOK(writer, keyed, b, st)
    BY <1>3, <2>1 DEF SplitOK, Fits, Keyed, Twice, Silent
  <2>2. WritePlans(<<st>>, s, writer, keyed, lists, b)
    BY <1>3, <2>1, <2>a, OneStatement
  <2> QED BY <2>2 DEF st
<1>4. WritePlans(<<Do("put", << >>), Do(op, b)>>, s, writer, keyed, lists, b)
  <2> DEFINE c == Do("put", << >>)
             st == Do(op, b)
             W == <<c, st>>
  <2>1. st \in StepSet(s) /\ st.op = op /\ st.rows = b /\ ~st.split
    BY <1>0, DoIs
  <2>2. c \in StepSet(s) /\ c.op = "put" /\ c.rows = << >> /\ ~c.split
    BY SilentIs DEF Silent
  <2> HIDE DEF c, st
  <2>3. W \in Seq(StepSet(s)) /\ DOMAIN W = 1..2 /\ W[1] = c /\ W[2] = st /\ 3 \notin DOMAIN W
    BY <2>1, <2>2
  <2> HIDE DEF W
  <2>4. WritePlans(W, s, writer, keyed, lists, b)
    BY <1>0, <2>1, <2>2, <2>3, AfterSilent
  <2> QED BY <2>4 DEF W, c, st
<1> QED BY <1>1, <1>2, <1>3, <1>4

\* What is written is the batch.
LEMMA WritePlan ==
  ASSUME NEW s, NEW b, IsBatch(b, s), writer \in Writers, keyed \in BOOLEAN, lists \in BOOLEAN
  PROVE  WritePlans(WriteSteps(b), s, writer, keyed, lists, b)
<1> DEFINE P(W) == WritePlans(W, s, writer, keyed, lists, b)
           op == IF Keyed(writer, keyed) THEN "upsert" ELSE "append"
           IsOf(o) == o \in WriteOps /\ Fits(writer, keyed, lists, o) /\ Writes(o) /\ o \notin {"insertNew"}
<1>0. writer \in {"postgresql", "duckdb", "sqlite", "mysql", "mssql", "mongodb", "snowflake", "bigquery", "gremlin",
                  "neo4j", "clickhouse", "kafka", "elasticsearch", "meilisearch"}
  BY WritersAssumption
<1>1. CASE writer = "postgresql"
  <2>1. WriteSteps(b) = PostgresWrite(b)
    BY <1>1, Zenon DEF WriteSteps
  <2> QED BY <1>1, <2>1, PlanOfPostgres
<1>2. CASE writer = "duckdb"
  <2>1. WriteSteps(b) = DuckDBWrite(b)
    BY <1>2, Zenon DEF WriteSteps
  <2> QED BY <1>2, <2>1, PlanOfDuckDB
<1>3. CASE writer = "mongodb"
  <2>1. WriteSteps(b) = MongoDBWrite(b)
    BY <1>3, Zenon DEF WriteSteps
  <2> QED BY <1>3, <2>1, MongoDBPlan
<1>4. ~Keyed(writer, keyed) => IsOf("append") /\ (writer = "gremlin" => IsOf("addMissing"))
  BY DEF WriteOps, Fits, Writes, Silent
<1>5. Keyed(writer, keyed) => IsOf("upsert")
  BY DEF WriteOps, Fits, Writes, Silent
<1>6. CASE writer = "sqlite"
  <2>1. WriteSteps(b) = <<Do(IF keyed THEN "upsert" ELSE "append", b)>>
    BY <1>6, Zenon DEF WriteSteps, SQLiteWrite
  <2> QED BY <1>4, <1>5, <1>6, <2>1, OnePlan DEF Keyed
<1>7. CASE writer = "mysql"
  <2>1. WriteSteps(b) = <<Do(IF keyed THEN "upsert" ELSE "append", b)>>
    BY <1>7, Zenon DEF WriteSteps, MySQLWrite
  <2> QED BY <1>4, <1>5, <1>7, <2>1, OnePlan DEF Keyed
<1>8. CASE writer = "mssql"
  <2>1. WriteSteps(b) = <<Do(IF keyed THEN "tvp" ELSE "append", b)>>
    BY <1>8, Zenon DEF WriteSteps, MSSQLWrite
  <2>2. Keyed(writer, keyed) => IsOf("tvp")
    BY <1>8 DEF WriteOps, Fits, Writes, Silent
  <2> QED BY <1>4, <1>8, <2>1, <2>2, OnePlan DEF Keyed
<1>9. CASE writer = "snowflake"
  <2>1. WriteSteps(b) = <<Do("put", << >>), Do(IF keyed THEN "merge" ELSE "append", b)>>
    BY <1>9, Zenon DEF WriteSteps, SnowflakeWrite
  <2>2. Keyed(writer, keyed) => IsOf("merge")
    BY <1>9 DEF WriteOps, Fits, Writes, Silent
  <2> QED BY <1>4, <1>9, <2>1, <2>2, OnePlan DEF Keyed
<1>10. CASE writer = "bigquery"
  <2>1. WriteSteps(b) = <<Again(Do("append", b))>>
    BY <1>10, Zenon DEF WriteSteps, BigQueryWrite
  <2> QED BY <1>4, <1>10, <2>1, OnePlan DEF Keyed
<1>11. CASE writer = "gremlin"
  <2>1. WriteSteps(b) = <<Again(Do(IF keyed THEN "upsert" ELSE "addMissing", b))>>
    BY <1>11, Zenon DEF WriteSteps, GremlinWrite
  <2> QED BY <1>4, <1>5, <1>11, <2>1, OnePlan DEF Keyed
<1>12. CASE writer = "neo4j"
  <2>1. WriteSteps(b) = <<Again(Do(IF keyed THEN "upsert" ELSE "append", b))>>
    BY <1>12, Zenon DEF WriteSteps, Neo4jWrite
  <2> QED BY <1>4, <1>5, <1>12, <2>1, OnePlan DEF Keyed
<1>13. CASE writer = "clickhouse"
  <2>1. WriteSteps(b) = <<Again(Do("append", b))>>
    BY <1>13, Zenon DEF WriteSteps, ClickHouseWrite
  <2> QED BY <1>4, <1>13, <2>1, OnePlan DEF Keyed
<1>14. CASE writer = "kafka"
  <2>1. WriteSteps(b) = KafkaWrite(b)
    BY <1>14, Zenon DEF WriteSteps
  <2> QED BY <1>14, <2>1, KafkaPlan
<1>15. CASE writer = "elasticsearch"
  <2>1. WriteSteps(b) = <<Again(Split(Do(IF keyed THEN "upsert" ELSE "append", b)))>>
    BY <1>15, Zenon DEF WriteSteps, ElasticsearchWrite
  <2> QED BY <1>4, <1>5, <1>15, <2>1, OnePlan DEF Keyed
<1>16. CASE writer = "meilisearch"
  <2>1. WriteSteps(b) = <<Do(IF keyed THEN "upsert" ELSE "append", b)>>
    BY <1>16, Zenon DEF WriteSteps, MeilisearchWrite
  <2> QED BY <1>4, <1>5, <1>16, <2>1, OnePlan DEF Keyed
<1> QED BY <1>0, <1>1, <1>2, <1>3, <1>6, <1>7, <1>8, <1>9, <1>10, <1>11, <1>12, <1>13, <1>14, <1>15, <1>16

-----------------------------------------------------------------------------
(* What a statement makes of the table. *)

\* No rows, no change.
LEMMA AfterNone ==
  ASSUME NEW s, NEW op, NEW b \in BagsOf(s), NEW taken
  PROVE  AfterRows(op, b, << >>, taken) = b
<1> DEFINE none == << >>
<1>1. none \in Seq(RowsOf(s)) /\ Len(none) = 0
  OBVIOUS
<1> HIDE DEF none
<1>2. RunsTo(s, op, b, taken, none, AfterRows(op, b, none, taken))
  BY <1>1, AfterSteps
<1>3. AfterRows(op, b, none, taken) = b
  BY <1>1, <1>2 DEF RowByRow, RunsTo
<1> QED BY <1>3 DEF none

\* What the outcomes of a statement are, by its kind.
LEMMA OutcomeIs ==
  ASSUME NEW op, NEW recs, NEW b, NEW c \in Outcomes(op, recs, b)
  PROVE  /\ ~RowsClash(op, recs, b)
         /\ op = "deleteKeys" => c = Without(b, KeysOf(recs))
         /\ op = "tvp" => \E d \in OneEach(recs) : c = Without(b, KeysOf(recs)) (+) SetToBag(Range(d))
         /\ op \notin {"deleteKeys", "tvp"} => c = AfterRows(op, b, recs, Range(recs))
<1>1. ~RowsClash(op, recs, b)
  BY Zenon DEF Outcomes
<1>2. ASSUME op = "deleteKeys" PROVE c = Without(b, KeysOf(recs))
  <2>1. c \in {Without(b, KeysOf(recs))}
    BY <1>1, <1>2, Zenon DEF Outcomes
  <2> QED BY <2>1
<1>3. ASSUME op = "tvp"
      PROVE  \E d \in OneEach(recs) : c = Without(b, KeysOf(recs)) (+) SetToBag(Range(d))
  <2>1. c \in {Without(b, KeysOf(recs)) (+) SetToBag(Range(d)) : d \in OneEach(recs)}
    BY <1>1, <1>3, Zenon DEF Outcomes
  <2> QED BY <2>1
<1>4. ASSUME op \notin {"deleteKeys", "tvp"} PROVE c = AfterRows(op, b, recs, Range(recs))
  <2>1. c \in {AfterRows(op, b, recs, Range(recs))}
    BY <1>1, <1>4, Zenon DEF Outcomes
  <2> QED BY <2>1
<1> QED BY <1>1, <1>2, <1>3, <1>4

LEMMA KeptIs ==
  ASSUME NEW op, NEW recs, NEW b, NEW c \in Kept(op, recs, b)
  PROVE  \E taken \in SUBSET Range(recs) : c = AfterRows(op, b, recs, taken)
BY DEF Kept

\* The procedure of mssql.
LEMMA TvpIs ==
  ASSUME NEW s, NEW b \in BagsOf(s), NEW recs \in Seq(RowsOf(s)), NEW d \in OneEach(recs),
         NEW c, c = Without(b, KeysOf(recs)) (+) SetToBag(Range(d))
  PROVE  /\ c \in BagsOf(s) /\ Held(b) \subseteq Held(c)
         /\ \A z \in DOMAIN c : z \in DOMAIN b \/ \E i \in DOMAIN recs : z = recs[i]
         /\ \A z \in DOMAIN b : z.key \notin KeysOf(recs) => z \in DOMAIN c
         /\ \A k \in KeysOf(recs) : d[k] \in DOMAIN c /\ d[k].key = k /\ \E i \in DOMAIN recs : d[k] = recs[i]
         /\ Single(b) => Single(c)
<1> DEFINE K == KeysOf(recs)
           w == Without(b, K)
           R == Range(d)
           v == [x \in DOMAIN w \cup R |-> (IF x \in DOMAIN w THEN w[x] ELSE 0) + (IF x \in R THEN 1 ELSE 0)]
<1>1. c = v
  BY DEF SetToBag, (+)
<1>2. DOMAIN d = K /\ \A k \in K : d[k].key = k /\ \E i \in DOMAIN recs : d[k] = recs[i]
  BY DEF OneEach, Range
<1>3. \A x \in R : x.key \in K /\ x \in RowsOf(s) /\ (\E i \in DOMAIN recs : x = recs[i]) /\ \A y \in R : x.key = y.key => x = y
  BY <1>2 DEF Range
<1>4. \A k \in K : d[k] \in R
  BY <1>2 DEF Range
<1> HIDE DEF R
<1>5. /\ w \in BagsOf(s) /\ \A x : x \in DOMAIN w <=> x \in DOMAIN b /\ x.key \notin K
      /\ \A x \in DOMAIN w : w[x] = b[x]
  <2> HIDE DEF K
  <2> QED BY WithoutIs
<1> HIDE DEF w, K
<1>6. w = [x \in DOMAIN w |-> w[x]] /\ DOMAIN w \subseteq RowsOf(s) /\ \A x \in DOMAIN w : w[x] \in Nat \ {0}
  BY <1>5, BagIs
<1>7. \A x \in DOMAIN w : x \notin R /\ v[x] = w[x]
  BY <1>3, <1>5, <1>6
<1>8. \A x \in R : x \notin DOMAIN w /\ v[x] = 1
  BY <1>3, <1>5
<1>9. v = [x \in DOMAIN v |-> v[x]] /\ \A x : x \in DOMAIN v <=> x \in DOMAIN w \/ x \in R
  OBVIOUS
<1> HIDE DEF v
<1>10. v \in BagsOf(s)
  <2>1. \A x \in DOMAIN v : v[x] \in Nat \ {0} /\ x \in RowsOf(s)
    BY <1>3, <1>6, <1>7, <1>8, <1>9
  <2> QED BY <1>9, <2>1, BagIs
<1>11. \A z \in DOMAIN b : z.key \notin K => z \in DOMAIN v
  BY <1>5, <1>9
<1>12. \A k \in K : d[k] \in DOMAIN v
  BY <1>4, <1>9
<1>13. Held(b) \subseteq Held(v)
  BY <1>2, <1>11, <1>12 DEF Held
<1>14. \A z \in DOMAIN v : z \in DOMAIN b \/ \E i \in DOMAIN recs : z = recs[i]
  BY <1>3, <1>5, <1>9
<1>15. ASSUME Single(b) PROVE Single(v)
  BY <1>3, <1>5, <1>7, <1>8, <1>9, <1>15 DEF Single
<1> QED BY <1>1, <1>2, <1>10, <1>11, <1>12, <1>13, <1>14, <1>15 DEF K

\* Only the delete of keys takes away keys; new rows are records.
LEMMA OutcomeKeeps ==
  ASSUME NEW s, NEW op, NEW b \in BagsOf(s), NEW recs \in Seq(RowsOf(s)),
         NEW c \in Outcomes(op, recs, b) \cup Kept(op, recs, b)
  PROVE  /\ c \in BagsOf(s) /\ (op \notin {"deleteKeys"} => Held(b) \subseteq Held(c))
         /\ \A z \in DOMAIN c : z \in DOMAIN b \/ MadeBy(z, op, recs)
<1>1. CASE op = "deleteKeys" /\ c = Without(b, KeysOf(recs))
  <2> DEFINE K == KeysOf(recs)
  <2> HIDE DEF K
  <2>1. Without(b, K) \in BagsOf(s) /\ \A x : x \in DOMAIN Without(b, K) <=> x \in DOMAIN b /\ x.key \notin K
    BY WithoutIs
  <2>2. c = Without(b, K)
    BY <1>1 DEF K
  <2> QED BY <1>1, <2>1, <2>2
<1>2. ASSUME NEW d \in OneEach(recs), c = Without(b, KeysOf(recs)) (+) SetToBag(Range(d))
      PROVE  /\ c \in BagsOf(s) /\ Held(b) \subseteq Held(c)
             /\ \A z \in DOMAIN c : z \in DOMAIN b \/ MadeBy(z, op, recs)
  BY <1>2, TvpIs DEF SameButID, MadeBy
<1>3. ASSUME NEW taken, c = AfterRows(op, b, recs, taken)
      PROVE  /\ c \in BagsOf(s) /\ Held(b) \subseteq Held(c)
             /\ \A z \in DOMAIN c : z \in DOMAIN b \/ MadeBy(z, op, recs)
  BY <1>3, AfterKeeps
<1>4. CASE c \in Kept(op, recs, b)
  <2>1. \E taken : c = AfterRows(op, b, recs, taken)
    BY <1>4, KeptIs
  <2> QED BY <1>3, <2>1
<1>5. CASE c \in Outcomes(op, recs, b)
  BY <1>1, <1>2, <1>3, <1>5, OutcomeIs
<1> QED BY <1>4, <1>5

KeyedOps == {"upsert", "upsertNotUnique", "insertNew", "merge"}

\* In a table with a key each key has one row still.
LEMMA OutcomeSingle ==
  ASSUME NEW s, NEW op, NEW b \in BagsOf(s), NEW recs \in Seq(RowsOf(s)),
         NEW c, c \in Outcomes(op, recs, b) \/ (c \in Kept(op, recs, b) /\ op \in {"upsert"}),
         op \in KeyedOps \cup {"deleteKeys", "tvp"} \/ (op \in Silent /\ recs = << >>),
         op = "merge" => ~Repeats(recs), Single(b)
  PROVE  Single(c)
<1>1. CASE op \in Silent /\ recs = << >>
  <2>1. c = AfterRows(op, b, recs, Range(recs))
    <3>1. c \in Outcomes(op, recs, b) /\ op \notin {"deleteKeys", "tvp"}
      BY <1>1 DEF Silent
    <3> QED BY <3>1, OutcomeIs
  <2>2. c = b
    BY <1>1, <2>1, AfterNone
  <2> QED BY <2>2
<1>2. CASE op = "deleteKeys"
  <2> DEFINE K == KeysOf(recs)
  <2> HIDE DEF K
  <2>1. /\ \A x : x \in DOMAIN Without(b, K) <=> x \in DOMAIN b /\ x.key \notin K
        /\ \A x \in DOMAIN Without(b, K) : Without(b, K)[x] = b[x]
    BY WithoutIs
  <2>2. c \in Outcomes(op, recs, b)
    BY <1>2
  <2>3. c = Without(b, K)
    BY <1>2, <2>2, OutcomeIs DEF K
  <2> QED BY <2>1, <2>3 DEF Single
<1>3. CASE op = "tvp"
  <2>1. c \in Outcomes(op, recs, b)
    BY <1>3
  <2>2. \E d \in OneEach(recs) : c = Without(b, KeysOf(recs)) (+) SetToBag(Range(d))
    BY <1>3, <2>1, OutcomeIs
  <2> QED BY <2>2, TvpIs
<1>4. CASE op \in KeyedOps
  <2>1. \E taken : c = AfterRows(op, b, recs, taken)
    <3>1. CASE c \in Outcomes(op, recs, b)
      BY <1>4, <3>1, OutcomeIs DEF KeyedOps
    <3>2. CASE c \in Kept(op, recs, b)
      BY <3>2, KeptIs
    <3> QED BY <3>1, <3>2
  <2> QED BY <1>4, <2>1, AfterSingle DEF KeyedOps
<1> QED BY <1>1, <1>2, <1>3, <1>4

\* A statement that has succeeded has stored its rows.
LEMMA OutcomeHas ==
  ASSUME NEW s, NEW op, NEW b \in BagsOf(s), NEW recs \in Seq(RowsOf(s)), NEW t \in Nat,
         NEW c \in Outcomes(op, recs, b), Single(b), op \in KeyedOps \cup {"tvp"},
         op \in {"merge", "insertNew", "tvp"} => ~Repeats(recs),
         op \in {"insertNew"} => \A i \in DOMAIN recs : recs[i].key \notin Held(b),
         Numbered(recs, t)
  PROVE  HasAll(b, recs, t, c)
<1>1. CASE op \in KeyedOps
  <2>1. c = AfterRows(op, b, recs, Range(recs))
    <3>1. op \notin {"deleteKeys", "tvp"}
      BY <1>1 DEF KeyedOps
    <3> QED BY <3>1, OutcomeIs
  <2>2. AllCover(op, b, recs)
    BY <1>1 DEF AllCover, KeyedOps
  <2> QED BY <2>1, <2>2, AfterHas
<1>2. CASE op = "tvp"
  <2>1. PICK d \in OneEach(recs) : c = Without(b, KeysOf(recs)) (+) SetToBag(Range(d))
    BY <1>2, OutcomeIs
  <2>2. /\ \A z \in DOMAIN b : z.key \notin KeysOf(recs) => z \in DOMAIN c
        /\ \A k \in KeysOf(recs) : d[k] \in DOMAIN c /\ d[k].key = k /\ \E i \in DOMAIN recs : d[k] = recs[i]
    BY <2>1, TvpIs
  <2>3. \A i \in DOMAIN recs : recs[i].n \in Int /\ recs[i].key \in KeysOf(recs)
    <3>1. \A i \in DOMAIN recs : recs[i] \in RowsOf(s)
      OBVIOUS
    <3>2. \A z \in RowsOf(s) : z.n \in Int
      BY DEF RowsOf
    <3> QED BY <3>1, <3>2 DEF KeysOf
  <2>4. \A i, j \in DOMAIN recs : recs[i].key = recs[j].key => i = j
    BY <1>2, <2>3 DEF Repeats, RepeatsOf
  <2>5. ASSUME NEW i \in DOMAIN recs PROVE HasRow(c, recs[i].key, t, recs[i].n)
    <3>1. d[recs[i].key] \in DOMAIN c /\ d[recs[i].key] = recs[i]
      BY <2>2, <2>3, <2>4
    <3> QED BY <2>3, <3>1 DEF HasRow, Numbered
  <2>6. ASSUME NEW k, NEW n \in Nat, HasRow(b, k, t, n), \A i \in DOMAIN recs : n <= recs[i].n
        PROVE  HasRow(c, k, t, n)
    <3>1. CASE k \in KeysOf(recs)
      <4>1. PICK i \in DOMAIN recs : recs[i].key = k
        BY <3>1 DEF KeysOf
      <4>2. d[k] \in DOMAIN c /\ d[k] = recs[i]
        BY <2>2, <2>4, <3>1, <4>1
      <4> QED BY <2>3, <2>6, <4>1, <4>2 DEF HasRow, Numbered
    <3>2. CASE k \notin KeysOf(recs)
      BY <2>2, <2>6, <3>2 DEF HasRow
    <3> QED BY <3>1, <3>2
  <2> QED BY <2>5, <2>6 DEF HasAll
<1> QED BY <1>1, <1>2

\* In a table without a key it has added them, each of them once.
LEMMA OutcomeOnce ==
  ASSUME NEW s, NEW op, NEW b \in BagsOf(s), NEW recs \in Seq(RowsOf(s)),
         NEW c \in Outcomes(op, recs, b) \cup Kept(op, recs, b), NoneTwice(b),
         op \in {"append", "addMissing"} \/ (op \in Silent /\ recs = << >>),
         \A i \in DOMAIN recs : recs[i] \notin DOMAIN b,
         \A i, j \in DOMAIN recs : i < j => recs[i].n < recs[j].n
  PROVE  /\ NoneTwice(c) /\ DOMAIN b \subseteq DOMAIN c
         /\ c \in Outcomes(op, recs, b) => \A i \in DOMAIN recs : recs[i] \in DOMAIN c
<1>0. op \notin {"deleteKeys", "tvp"}
  BY DEF Silent
<1>1. \E taken : c = AfterRows(op, b, recs, taken) /\ (c \in Outcomes(op, recs, b) => taken = Range(recs))
  <2>1. CASE c \in Outcomes(op, recs, b)
    BY <1>0, <2>1, OutcomeIs
  <2>2. CASE c \notin Outcomes(op, recs, b)
    BY <2>2, KeptIs
  <2> QED BY <2>1, <2>2
<1>2. PICK taken : c = AfterRows(op, b, recs, taken) /\ (c \in Outcomes(op, recs, b) => taken = Range(recs))
  BY <1>1
<1>3. CASE op \in Silent /\ recs = << >>
  <2>1. c = b
    BY <1>2, <1>3, AfterNone
  <2> QED BY <1>3, <2>1
<1>4. CASE op \in {"append", "addMissing"}
  <2>1. /\ NoneTwice(c) /\ DOMAIN b \subseteq DOMAIN c
        /\ \A i \in DOMAIN recs : recs[i] \in taken => recs[i] \in DOMAIN c
    BY <1>2, <1>4, AfterOnce
  <2>2. \A i \in DOMAIN recs : recs[i] \in Range(recs)
    BY DEF Range
  <2> QED BY <1>2, <2>1, <2>2
<1> QED BY <1>3, <1>4

-----------------------------------------------------------------------------
(* What holds between the statements of a write: of its batch b, the       *)
(* statements W that are left and the rows x of the table.                 *)

\* The rows of this sync are records of the batch, of before those to come,
\* but those that may have been taken before a statement is tried again.
OfThisSync(b, W, x, s, w, l) ==
  \A z \in DOMAIN x : z.sync = s =>
    /\ \E m \in DOMAIN b : SameButID(z, b[m]) /\ (w # "duckdb" \/ l => z = b[m])
    /\ \A i \in DOMAIN W : Writes(W[i].op) /\ ~W[i].split => \A p \in DOMAIN W[i].rows : z.n < W[i].rows[p].n

\* duckdb has deleted what it inserts again.
Clean(W, x) ==
  W # << >> /\ W[1].op = "insertNew" => \A p \in DOMAIN W[1].rows : W[1].rows[p].key \notin Held(x)

\* A key has one row, or a record is there once.
OneEachOf(w, k, again, x) ==
  IF Keyed(w, k) THEN Single(x) \/ (w = "snowflake" /\ again) ELSE NoneTwice(x) \/ Twice(w, k)

Excused(w, l, again) == again /\ (w \in {"snowflake", "mssql"} \/ (w = "duckdb" /\ l))

\* A record has been written or is to come.
WriteProgress(b, W, x, s, w, k, l, again) ==
  \A m \in DOMAIN b :
    \/ Pending(W, b[m])
    \/ IF Keyed(w, k) THEN HasRow(x, b[m].key, s, m) \/ Excused(w, l, again) ELSE b[m] \in DOMAIN x

StatementOf(W, x, c) ==
  c \in Outcomes(W[1].op, W[1].rows, x) \/ (W[1].split /\ c \in Kept(W[1].op, W[1].rows, x))

Between(b, W, x, s, w, k, l, again) ==
  /\ s \in Nat /\ IsBatch(b, s) /\ (Repeats(b) => again) /\ StepsOK(W, s, w, k, l, b) /\ x \in BagsOf(s)
  /\ OfThisSync(b, W, x, s, w, l) /\ Clean(W, x) /\ OneEachOf(w, k, again, x)

\* The rows of the first statement.
LEMMA HeadIs ==
  ASSUME NEW b, NEW W, NEW x, NEW s, NEW w, NEW k, NEW l, NEW again, Between(b, W, x, s, w, k, l, again),
         W # << >>
  PROVE  /\ W[1] \in StepSet(s) /\ StepOK(w, k, l, b, W[1]) /\ W[1].rows \in Seq(RowsOf(s)) /\ 1 \in DOMAIN W
         /\ \A p \in DOMAIN W[1].rows : W[1].rows[p].sync = s /\ W[1].rows[p].n \in Nat
         /\ Repeats(W[1].rows) => again
         /\ Numbered(W[1].rows, s)
<1>1. W \in Seq(StepSet(s)) /\ 1 \in DOMAIN W
  BY DEF Between, StepsOK
<1>2. W[1] \in StepSet(s) /\ StepOK(w, k, l, b, W[1])
  BY <1>1 DEF Between, StepsOK
<1> DEFINE recs == W[1].rows
<1>3. recs \in Seq(RowsOf(s)) /\ FromBatch(recs, b)
  BY <1>2 DEF StepSet, StepOK
<1>4. IsBatch(b, s) /\ b \in Seq(RowsOf(s)) /\ s \in Nat
  BY DEF Between, IsBatch
<1> HIDE DEF recs
<1>5. \A p \in DOMAIN recs : \E m \in DOMAIN b : recs[p] = b[m] /\ b[m].sync = s /\ b[m].n = m /\ m \in Nat
  BY <1>3, <1>4 DEF FromBatch, IsBatch
<1>6. ASSUME Repeats(recs) PROVE Repeats(b)
  <2>1. PICK p, q \in DOMAIN recs : p # q /\ recs[p].key = recs[q].key
    BY <1>6 DEF Repeats, RepeatsOf
  <2>2. PICK i \in DOMAIN b : recs[p] = b[i] /\ b[i].n = i
    BY <1>5
  <2>3. PICK j \in DOMAIN b : recs[q] = b[j] /\ b[j].n = j
    BY <1>5
  <2>4. p \in Int /\ q \in Int /\ i \in Int /\ j \in Int
    BY <1>3, <1>4
  <2>5. i # j
    BY <1>3, <2>1, <2>2, <2>3, <2>4 DEF FromBatch
  <2> QED BY <2>1, <2>2, <2>3, <2>5 DEF Repeats, RepeatsOf, KeysOf
<1>7. Numbered(recs, s)
  BY <1>3, <1>5 DEF Numbered, FromBatch
<1> QED BY <1>1, <1>2, <1>3, <1>5, <1>6, <1>7 DEF recs, Between

\* The rows of the first statement are not in the table yet.
LEMMA HeadFresh ==
  ASSUME NEW b, NEW W, NEW x, NEW s, NEW w, NEW k, NEW l, NEW again, Between(b, W, x, s, w, k, l, again),
         W # << >>, Writes(W[1].op), ~W[1].split
  PROVE  /\ \A p \in DOMAIN W[1].rows : W[1].rows[p] \notin DOMAIN x
         /\ \A q, m : HasRow(x, q, s, m) /\ m \in Nat => \A p \in DOMAIN W[1].rows : m <= W[1].rows[p].n
<1>1. /\ 1 \in DOMAIN W /\ \A p \in DOMAIN W[1].rows : W[1].rows[p].sync = s /\ W[1].rows[p].n \in Nat
  BY HeadIs
<1>2. \A z \in DOMAIN x : z.sync = s => \A p \in DOMAIN W[1].rows : z.n < W[1].rows[p].n
  BY <1>1 DEF Between, OfThisSync
<1>3. \A z \in DOMAIN x : z.n \in Nat
  <2>1. DOMAIN x \subseteq RowsOf(s)
    BY BagIs DEF Between
  <2>2. MaxBatch \in Nat
    BY WritersAssumption
  <2> QED BY <2>1, <2>2 DEF RowsOf
<1>4. \A p \in DOMAIN W[1].rows : W[1].rows[p] \notin DOMAIN x
  BY <1>1, <1>2, <1>3
<1>5. \A q, m : HasRow(x, q, s, m) /\ m \in Nat => \A p \in DOMAIN W[1].rows : m <= W[1].rows[p].n
  BY <1>1, <1>2, <1>3 DEF HasRow
<1> QED BY <1>4, <1>5

\* What a statement leaves in the table.
LEMMA StatementKeeps ==
  ASSUME NEW b, NEW W, NEW x, NEW s, NEW w, NEW k, NEW l, NEW again, Between(b, W, x, s, w, k, l, again),
         W # << >>, NEW c, StatementOf(W, x, c)
  PROVE  /\ c \in BagsOf(s)
         /\ \A z \in DOMAIN c : z \in DOMAIN x \/ (Writes(W[1].op) /\ MadeBy(z, W[1].op, W[1].rows))
         /\ W[1].op \notin {"deleteKeys"} => Held(x) \subseteq Held(c)
         /\ W[1].op \in {"deleteKeys"} => w = "duckdb" /\ l
<1> DEFINE op == W[1].op
           recs == W[1].rows
<1>1. recs \in Seq(RowsOf(s)) /\ StepOK(w, k, l, b, W[1]) /\ x \in BagsOf(s)
  BY HeadIs DEF Between
<1>2. c \in Outcomes(op, recs, x) \cup Kept(op, recs, x)
  BY DEF StatementOf
<1>3. /\ op \in Silent => recs = << >>
      /\ W[1].split => op \in {"append", "upsert"}
      /\ op \in {"deleteKeys"} => w = "duckdb" /\ l
  BY <1>1 DEF StepOK, Fits, SplitOK
<1>4. c \in Kept(op, recs, x) /\ c \notin Outcomes(op, recs, x) => op \in {"append", "upsert"}
  BY <1>3 DEF StatementOf
<1> HIDE DEF op, recs
<1>5. /\ c \in BagsOf(s) /\ (op \notin {"deleteKeys"} => Held(x) \subseteq Held(c))
      /\ \A z \in DOMAIN c : z \in DOMAIN x \/ MadeBy(z, op, recs)
  BY <1>1, <1>2, OutcomeKeeps
<1>6. ASSUME op \in Silent, NEW z, MadeBy(z, op, recs) PROVE FALSE
  BY <1>3, <1>6 DEF MadeBy
<1>7. ASSUME op \in {"deleteKeys"}, NEW z \in DOMAIN c PROVE z \in DOMAIN x
  <2> DEFINE K == KeysOf(recs)
  <2> HIDE DEF K
  <2>1. c = Without(x, K)
    BY <1>2, <1>4, <1>7, OutcomeIs DEF K
  <2> QED BY <1>1, <1>7, <2>1, WithoutIs
<1> QED BY <1>3, <1>5, <1>6, <1>7 DEF op, recs, Writes

\* A statement leaves one row of each key, or each record once.
LEMMA StatementOnce ==
  ASSUME NEW b, NEW W, NEW x, NEW s, NEW w, NEW k, NEW l, NEW again, Between(b, W, x, s, w, k, l, again),
         W # << >>, NEW c, StatementOf(W, x, c)
  PROVE  OneEachOf(w, k, again, c)
<1> DEFINE op == W[1].op
           recs == W[1].rows
<1>1. /\ recs \in Seq(RowsOf(s)) /\ StepOK(w, k, l, b, W[1]) /\ x \in BagsOf(s)
      /\ Numbered(recs, s) /\ (Repeats(recs) => again)
  BY HeadIs DEF Between
<1>2. c \in Outcomes(op, recs, x) \/ (W[1].split /\ c \in Kept(op, recs, x))
  BY DEF StatementOf
<1>3. /\ op \in Silent => recs = << >>
      /\ W[1].split => op \in {"append", "upsert"} /\ (Keyed(w, k) \/ Twice(w, k))
      /\ Fits(w, k, l, op)
  BY <1>1 DEF StepOK, SplitOK
<1>4. OneEachOf(w, k, again, x)
  BY DEF Between
<1>5. Writes(op) /\ ~W[1].split => \A p \in DOMAIN recs : recs[p] \notin DOMAIN x
  BY HeadFresh
<1>6. \A p, q \in DOMAIN recs : p < q => recs[p].n < recs[q].n
  BY <1>1 DEF Numbered
<1> HIDE DEF op, recs
<1>7. CASE Keyed(w, k)
  <2>1. op \in KeyedOps \cup {"deleteKeys", "tvp"} \/ (op \in Silent /\ recs = << >>)
    BY <1>3, <1>7 DEF Fits, KeyedOps
  <2>2. op = "merge" => w = "snowflake"
    BY <1>3 DEF Fits
  <2>3. CASE w = "snowflake" /\ again
    BY <1>7, <2>3 DEF OneEachOf
  <2>4. CASE Single(x) /\ ~(w = "snowflake" /\ again)
    <3>1. c \in Outcomes(op, recs, x) \/ (c \in Kept(op, recs, x) /\ op \in {"upsert"})
      BY <1>2, <1>3, <1>7 DEF Fits, Silent
    <3>2. Single(c)
      BY <1>1, <2>1, <2>2, <2>4, <3>1, OutcomeSingle
    <3> QED BY <1>7, <3>2 DEF OneEachOf
  <2> QED BY <1>4, <1>7, <2>3, <2>4 DEF OneEachOf
<1>8. CASE ~Keyed(w, k) /\ Twice(w, k)
  BY <1>8 DEF OneEachOf
<1>9. CASE ~Keyed(w, k) /\ ~Twice(w, k)
  <2>1. op \in {"append", "addMissing"} \/ (op \in Silent /\ recs = << >>)
    BY <1>3, <1>9 DEF Fits
  <2>2. \A p \in DOMAIN recs : recs[p] \notin DOMAIN x
    BY <1>3, <1>5, <1>9, <2>1 DEF Writes, Silent
  <2>3. c \in Outcomes(op, recs, x) \cup Kept(op, recs, x) /\ NoneTwice(x)
    BY <1>2, <1>4, <1>9 DEF OneEachOf
  <2>4. NoneTwice(c)
    BY <1>1, <1>6, <2>1, <2>2, <2>3, OutcomeOnce
  <2> QED BY <1>9, <2>4 DEF OneEachOf
<1> QED BY <1>7, <1>8, <1>9

\* The rows of this sync that a statement leaves are from before those to come.
LEMMA StatementFresh ==
  ASSUME NEW b, NEW W, NEW x, NEW s, NEW w, NEW k, NEW l, NEW again, Between(b, W, x, s, w, k, l, again),
         W # << >>, NEW c, StatementOf(W, x, c)
  PROVE  OfThisSync(b, Tail(W), c, s, w, l)
<1> DEFINE V == Tail(W)
           op == W[1].op
           recs == W[1].rows
           Old(z) == \E m \in DOMAIN b : SameButID(z, b[m]) /\ (w # "duckdb" \/ l => z = b[m])
           Less(z) == \A i \in DOMAIN V : Writes(V[i].op) /\ ~V[i].split => \A p \in DOMAIN V[i].rows : z.n < V[i].rows[p].n
<1>1. 1 \in DOMAIN W /\ StepOK(w, k, l, b, W[1])
  BY HeadIs
<1>2. \A i \in DOMAIN V : i + 1 \in DOMAIN W /\ 1 < i + 1 /\ V[i] = W[i + 1]
  BY <1>1 DEF Between, StepsOK
<1>3. \A z \in DOMAIN c : z \in DOMAIN x \/ (Writes(op) /\ MadeBy(z, op, recs))
  BY StatementKeeps
<1>4. OfThisSync(b, W, x, s, w, l) /\ RowsInOrder(W)
  BY DEF Between, StepsOK
<1> HIDE DEF V
<1>5. ASSUME NEW z \in DOMAIN x, z.sync = s PROVE Old(z) /\ Less(z)
  <2>1. Old(z) /\ \A i \in DOMAIN W : Writes(W[i].op) /\ ~W[i].split => \A p \in DOMAIN W[i].rows : z.n < W[i].rows[p].n
    BY <1>4, <1>5 DEF OfThisSync
  <2> QED BY <1>2, <2>1
<1>6. ASSUME NEW z, Writes(op), MadeBy(z, op, recs) PROVE Old(z) /\ Less(z)
  <2>1. PICK p \in DOMAIN recs : SameButID(z, recs[p]) /\ (op \notin {"upsertNotUnique"} => z = recs[p])
    BY <1>6 DEF MadeBy
  <2>2. PICK m \in DOMAIN b : recs[p] = b[m]
    BY <1>1 DEF StepOK, FromBatch
  <2>3. w # "duckdb" \/ l => op \notin {"upsertNotUnique"}
    BY <1>1 DEF StepOK, Fits
  <2>4. Old(z)
    BY <2>1, <2>2, <2>3
  <2>5. ASSUME NEW i \in DOMAIN V, Writes(V[i].op), ~V[i].split, NEW q \in DOMAIN V[i].rows PROVE z.n < V[i].rows[q].n
    <3>1. z.n = recs[p].n
      BY <2>1 DEF SameButID
    <3>2. i + 1 \in DOMAIN W /\ 1 < i + 1 /\ Writes(W[i + 1].op) /\ q \in DOMAIN W[i + 1].rows /\ V[i] = W[i + 1]
      BY <1>2, <2>5
    <3>3. recs[p].n < W[i + 1].rows[q].n
      BY <1>1, <1>4, <1>6, <3>2 DEF RowsInOrder
    <3> QED BY <3>1, <3>2, <3>3
  <2> QED BY <2>4, <2>5
<1> QED BY <1>3, <1>5, <1>6 DEF OfThisSync, V

\* duckdb inserts what it has just deleted.
LEMMA StatementClean ==
  ASSUME NEW b, NEW W, NEW x, NEW s, NEW w, NEW k, NEW l, NEW again, Between(b, W, x, s, w, k, l, again),
         W # << >>, NEW c, c \in Outcomes(W[1].op, W[1].rows, x)
  PROVE  Clean(Tail(W), c)
<1> DEFINE V == Tail(W)
           op == W[1].op
<1>1. 1 \in DOMAIN W /\ x \in BagsOf(s) /\ Deleting(W, b)
  BY HeadIs DEF Between, StepsOK
<1>2. V # << >> => 1 + 1 \in DOMAIN W /\ V[1] = W[1 + 1]
  BY <1>1 DEF Between, StepsOK
<1> HIDE DEF V
<1>3. ASSUME V # << >>, V[1].op = "insertNew", NEW p \in DOMAIN V[1].rows PROVE V[1].rows[p].key \notin Held(c)
  <2>1. W[1 + 1].op = "insertNew" /\ (1 + 1) - 1 = 1 /\ 1 + 1 # 1
    BY <1>2, <1>3
  <2>2. op = "deleteKeys"
    BY <1>1, <1>2, <1>3, <2>1 DEF Deleting
  <2>3. W[1].rows = b /\ W[1 + 1].rows = b
    BY <1>1, <2>2 DEF Deleting
  <2>4. V[1].rows[p].key \in KeysOf(b)
    BY <1>2, <1>3, <2>3 DEF KeysOf
  <2> DEFINE K == KeysOf(b)
  <2>5. c = Without(x, K)
    BY <2>2, <2>3, OutcomeIs
  <2> HIDE DEF K
  <2>6. \A z \in DOMAIN c : z.key \notin K
    BY <1>1, <2>5, WithoutIs
  <2> QED BY <2>4, <2>6 DEF Held, K
<1> QED BY <1>3 DEF Clean, V

\* A statement writes the records that it takes from those to come.
LEMMA StatementProgress ==
  ASSUME NEW b, NEW W, NEW x, NEW s, NEW w, NEW k, NEW l, NEW again, Between(b, W, x, s, w, k, l, again),
         W # << >>, NEW c, c \in Outcomes(W[1].op, W[1].rows, x), WriteProgress(b, W, x, s, w, k, l, again)
  PROVE  WriteProgress(b, Tail(W), c, s, w, k, l, again)
<1> DEFINE V == Tail(W)
           op == W[1].op
           recs == W[1].rows
           Has(y, m) == IF Keyed(w, k) THEN HasRow(y, b[m].key, s, m) \/ Excused(w, l, again) ELSE b[m] \in DOMAIN y
<1>0. c \in Outcomes(op, recs, x)
  OBVIOUS
<1>1. /\ 1 \in DOMAIN W /\ x \in BagsOf(s) /\ recs \in Seq(RowsOf(s)) /\ StepOK(w, k, l, b, W[1])
      /\ Numbered(recs, s) /\ (Repeats(recs) => again) /\ s \in Nat /\ IsBatch(b, s) /\ W[1] \in StepSet(s)
  BY HeadIs DEF Between, StepsOK
<1>2. \A m \in DOMAIN b : Pending(W, b[m]) => Pending(V, b[m]) \/ (Writes(op) /\ \E p \in DOMAIN recs : recs[p] = b[m])
  <2>1. StepsOK(W, s, w, k, l, b)
    BY DEF Between
  <2>2. OneTaken(W)
    BY <2>1, TailOK
  <2> QED BY <2>2 DEF OneTaken
<1>3. /\ op \in Silent => recs = << >>
      /\ Fits(w, k, l, op)
      /\ W[1].split => SplitOK(w, k, b, W[1])
  BY <1>1 DEF StepOK
<1>4. Writes(op) /\ ~W[1].split =>
                    /\ \A p \in DOMAIN recs : recs[p] \notin DOMAIN x
                    /\ \A q, m : HasRow(x, q, s, m) /\ m \in Nat => \A p \in DOMAIN recs : m <= recs[p].n
  BY HeadFresh
<1>5. \A m \in DOMAIN b : m \in Nat /\ b[m].n = m
  BY <1>1 DEF IsBatch
<1>6. \A m \in DOMAIN b : Pending(W, b[m]) \/ Has(x, m)
  BY DEF WriteProgress
<1>a. OneEachOf(w, k, again, x) /\ Clean(W, x) /\ Deleting(W, b)
  BY DEF Between, StepsOK
<1>7. CASE op \in {"deleteKeys"}
  <2>1. 1 + 1 \in DOMAIN W /\ W[1 + 1].op = "insertNew" /\ W[1 + 1].rows = b
    BY <1>1, <1>7, <1>a DEF Deleting
  <2>2. 1 \in DOMAIN V /\ V[1] = W[1 + 1]
    BY <2>1 DEF Between, StepsOK
  <2> HIDE DEF V
  <2>3. Writes("insertNew")
    BY DEF Writes, Silent
  <2>4. \A m \in DOMAIN b : Pending(V, b[m])
    BY <2>1, <2>2, <2>3 DEF Pending
  <2> QED BY <2>4 DEF WriteProgress, V
<1> HIDE DEF V
<1>8. CASE op \in Silent
  <2>1. op \notin {"deleteKeys", "tvp"}
    BY <1>8 DEF Silent
  <2>2. c = AfterRows(op, x, recs, Range(recs)) /\ recs = << >>
    BY <1>3, <1>8, <2>1, OutcomeIs
  <2> DEFINE none == Range(recs)
  <2>3. c = AfterRows(op, x, << >>, none)
    BY <2>2
  <2> HIDE DEF none
  <2>4. c = x
    BY <1>1, <2>3, AfterNone
  <2>5. ~Writes(op)
    BY <1>8 DEF Writes
  <2> QED BY <1>2, <1>6, <2>4, <2>5 DEF WriteProgress, V
<1>9. CASE Writes(op) /\ Keyed(w, k)
  <2>1. op \in KeyedOps \cup {"tvp"}
    BY <1>3, <1>9 DEF Fits, Writes, KeyedOps
  <2>2. CASE Excused(w, l, again)
    BY <1>9, <2>2 DEF WriteProgress, V
  <2>3. CASE ~Excused(w, l, again)
    <3>1. /\ op \in {"merge"} => w = "snowflake"
          /\ op \in {"tvp"} => w = "mssql"
          /\ op \in {"insertNew"} => w = "duckdb" /\ l
      BY <1>3 DEF Fits
    <3>2. op \in {"merge", "insertNew", "tvp"} => ~Repeats(recs)
      BY <1>1, <2>3, <3>1 DEF Excused
    <3>3. op \in {"insertNew"} => \A p \in DOMAIN recs : recs[p].key \notin Held(x)
      BY <1>1, <1>a DEF Clean
    <3>4. Single(x)
      BY <1>9, <1>a, <2>3 DEF OneEachOf, Excused
    <3>5. HasAll(x, recs, s, c)
      <4> HIDE DEF op, recs
      <4> QED BY <1>0, <1>1, <2>1, <3>2, <3>3, <3>4, OutcomeHas
    <3>6. ASSUME NEW m \in DOMAIN b PROVE Pending(V, b[m]) \/ HasRow(c, b[m].key, s, m)
      <4>1. CASE \E p \in DOMAIN recs : recs[p] = b[m]
        BY <1>5, <3>5, <4>1 DEF HasAll
      <4>2. CASE HasRow(x, b[m].key, s, m)
        <5>1. CASE W[1].split
          <6>1. recs = b
            BY <1>3, <1>9, <5>1 DEF SplitOK
          <6> QED BY <1>5, <3>5, <6>1 DEF HasAll
        <5>2. CASE ~W[1].split
          <6>1. \A p \in DOMAIN recs : m <= recs[p].n
            BY <1>4, <1>5, <1>9, <4>2, <5>2
          <6> QED BY <1>5, <3>5, <4>2, <6>1 DEF HasAll
        <5> QED BY <5>1, <5>2
      <4> QED BY <1>2, <1>6, <1>9, <2>3, <4>1, <4>2
    <3> QED BY <1>9, <3>6 DEF WriteProgress, V
  <2> QED BY <2>2, <2>3
<1>10. CASE Writes(op) /\ ~Keyed(w, k)
  <2>1. op \in {"append", "addMissing"}
    BY <1>3, <1>10 DEF Fits, Writes
  <2>2. ~W[1].split /\ ~Twice(w, k) => NoneTwice(x)
    BY <1>10, <1>a DEF OneEachOf
  <2>3. \A p, q \in DOMAIN recs : p < q => recs[p].n < recs[q].n
    BY <1>1 DEF Numbered
  <2>4. DOMAIN x \subseteq DOMAIN c /\ \A p \in DOMAIN recs : recs[p] \in DOMAIN c
    <3>1. CASE op = "append"
      <4>1. c = AfterRows("append", x, recs, Range(recs))
        <5>1. op \notin {"deleteKeys", "tvp"}
          BY <3>1
        <5> HIDE DEF recs
        <5> QED BY <1>0, <3>1, <5>1, OutcomeIs
      <4>2. \A p \in DOMAIN recs : recs[p] \in Range(recs)
        BY DEF Range
      <4> DEFINE taken == Range(recs)
      <4> HIDE DEF recs, taken
      <4>3. c = AfterRows("append", x, recs, taken)
        BY <4>1 DEF taken
      <4>4. DOMAIN x \subseteq DOMAIN c /\ \A p \in DOMAIN recs : recs[p] \in taken => recs[p] \in DOMAIN c
        BY <1>1, <4>3, AfterAppended
      <4> QED BY <4>2, <4>4 DEF taken
    <3>2. CASE op = "addMissing"
      <4>1. ~W[1].split
        BY <1>3, <1>10, <3>2 DEF SplitOK
      <4>2. ~Twice(w, k)
        BY <1>3, <3>2 DEF Fits, Twice
      <4>3. \A p \in DOMAIN recs : recs[p] \notin DOMAIN x
        BY <1>4, <1>10, <4>1
      <4> HIDE DEF op, recs
      <4> QED BY <1>0, <1>1, <2>1, <2>2, <2>3, <4>1, <4>2, <4>3, OutcomeOnce
    <3> QED BY <2>1, <3>1, <3>2
  <2>5. \A m \in DOMAIN b : Pending(V, b[m]) \/ b[m] \in DOMAIN c
    BY <1>2, <1>6, <1>10, <2>4
  <2> QED BY <1>10, <2>5 DEF WriteProgress, V
<1> QED BY <1>7, <1>8, <1>9, <1>10 DEF Writes

\* Together: what holds between the statements holds after one more.
LEMMA StatementBetween ==
  ASSUME NEW b, NEW W, NEW x, NEW s, NEW w, NEW k, NEW l, NEW again, Between(b, W, x, s, w, k, l, again),
         W # << >>, NEW c, c \in Outcomes(W[1].op, W[1].rows, x)
  PROVE  Between(b, Tail(W), c, s, w, k, l, again)
<1>1. StatementOf(W, x, c)
  BY DEF StatementOf
<1>2. s \in Nat /\ IsBatch(b, s) /\ (Repeats(b) => again) /\ StepsOK(W, s, w, k, l, b)
  BY DEF Between
<1>3. StepsOK(Tail(W), s, w, k, l, b)
  BY <1>2, TailOK
<1>4. c \in BagsOf(s)
  BY <1>1, StatementKeeps
<1>5. OfThisSync(b, Tail(W), c, s, w, l)
  BY <1>1, StatementFresh
<1>6. Clean(Tail(W), c)
  BY StatementClean
<1>7. OneEachOf(w, k, again, c)
  BY <1>1, StatementOnce
<1> QED BY <1>2, <1>3, <1>4, <1>5, <1>6, <1>7 DEF Between

\* Where the failed statement has rows left, the others go on.
LEMMA SkippedBetween ==
  ASSUME NEW b, NEW W, NEW x, NEW s, NEW w, NEW k, NEW l, NEW again, Between(b, W, x, s, w, k, l, again),
         W # << >>, NEW c, c = x \/ StatementOf(W, x, c), w = "kafka"
  PROVE  Between(b, Tail(W), c, s, w, k, l, again)
<1> DEFINE V == Tail(W)
<1>1. s \in Nat /\ IsBatch(b, s) /\ (Repeats(b) => again) /\ StepsOK(W, s, w, k, l, b)
  BY DEF Between
<1>2. StepsOK(V, s, w, k, l, b)
  BY <1>1, TailOK
<1>3. \A i \in DOMAIN V : i + 1 \in DOMAIN W /\ V[i] = W[i + 1]
  BY <1>1 DEF StepsOK
<1> HIDE DEF V
<1>4. c \in BagsOf(s) /\ OneEachOf(w, k, again, c)
  BY StatementKeeps, StatementOnce DEF Between
<1>5. OfThisSync(b, V, c, s, w, l)
  <2>1. CASE c = x
    <3>1. OfThisSync(b, W, x, s, w, l)
      BY DEF Between
    <3> QED BY <1>3, <2>1, <3>1 DEF OfThisSync
  <2>2. CASE StatementOf(W, x, c)
    BY <2>2, StatementFresh DEF V
  <2> QED BY <2>1, <2>2
<1>6. Clean(V, c)
  <2>1. \A i \in DOMAIN V : V[i].op # "insertNew"
    BY <1>2 DEF StepsOK, StepOK, Fits
  <2>2. V # << >> => 1 \in DOMAIN V
    BY <1>2 DEF StepsOK
  <2> QED BY <2>1, <2>2 DEF Clean
<1> QED BY <1>1, <1>2, <1>4, <1>5, <1>6 DEF Between, V

\* Otherwise nothing is left to do but the drop of the temporary table.
LEMMA FailedBetween ==
  ASSUME NEW b, NEW W, NEW x, NEW s, NEW w, NEW k, NEW l, NEW again, Between(b, W, x, s, w, k, l, again),
         W # << >>, NEW c, c = x \/ StatementOf(W, x, c),
         NEW V, V = << >> \/ (V = <<Last(W)>> /\ Last(W).op \in {"dropTmp"})
  PROVE  Between(b, V, c, s, w, k, l, again)
<1>1. s \in Nat /\ IsBatch(b, s) /\ (Repeats(b) => again) /\ StepsOK(W, s, w, k, l, b)
  BY DEF Between
<1>2. W \in Seq(StepSet(s)) /\ Len(W) \in DOMAIN W /\ Last(W) = W[Len(W)]
  BY <1>1 DEF StepsOK, Last
<1>3. /\ V \in Seq(StepSet(s)) /\ \A i \in DOMAIN V : i = 1 /\ V[i] = Last(W)
      /\ V[1] = Last(W) \/ V = << >>
  <2> DEFINE e == Last(W)
  <2>1. e \in StepSet(s)
    BY <1>2
  <2> HIDE DEF e
  <2>2. CASE V = << >>
    BY <2>2
  <2>3. CASE V = <<e>>
    BY <2>1, <2>3
  <2> QED BY <2>2, <2>3 DEF e
<1>4. \A i \in DOMAIN V : V[i].op \in {"dropTmp"} /\ StepOK(w, k, l, b, V[i])
  BY <1>1, <1>2, <1>3 DEF StepsOK
<1>5. \A i \in DOMAIN V : ~Writes(V[i].op) /\ V[i].op \notin {"deleteKeys", "insertNew"}
  BY <1>4 DEF Silent, Writes
<1>6. StepsOK(V, s, w, k, l, b)
  BY <1>3, <1>4, <1>5 DEF StepsOK, RowsInOrder, Deleting
<1>7. c \in BagsOf(s)
  BY StatementKeeps DEF Between
<1>8. OneEachOf(w, k, again, c)
  BY StatementOnce DEF Between
<1>9. OfThisSync(b, V, c, s, w, l)
  <2>1. OfThisSync(b, W, c, s, w, l) \/ OfThisSync(b, Tail(W), c, s, w, l)
    BY StatementFresh DEF Between
  <2> QED BY <1>5, <2>1 DEF OfThisSync
<1>10. Clean(V, c)
  <2>1. V # << >> => V[1].op # "insertNew"
    BY <1>3, <1>4
  <2> QED BY <2>1 DEF Clean
<1> QED BY <1>1, <1>6, <1>7, <1>8, <1>9, <1>10 DEF Between

\* How often a statement is tried does not matter.
AsMany(W, V, s) ==
  /\ V \in Seq(StepSet(s)) /\ DOMAIN V = DOMAIN W
  /\ \A i \in DOMAIN W : V[i].op = W[i].op /\ V[i].rows = W[i].rows /\ V[i].split = W[i].split

\* Trying a statement again.
LEMMA SameBetween ==
  ASSUME NEW b, NEW W, NEW x, NEW s, NEW w, NEW k, NEW l, NEW again, Between(b, W, x, s, w, k, l, again),
         NEW V, AsMany(W, V, s)
  PROVE  /\ Between(b, V, x, s, w, k, l, again)
         /\ WriteProgress(b, W, x, s, w, k, l, again) => WriteProgress(b, V, x, s, w, k, l, again)
<1>1. /\ V \in Seq(StepSet(s)) /\ DOMAIN V = DOMAIN W /\ W \in Seq(StepSet(s))
      /\ \A i \in DOMAIN W : V[i].op = W[i].op /\ V[i].rows = W[i].rows /\ V[i].split = W[i].split
  BY DEF AsMany, Between, StepsOK
<1>2. \A i \in DOMAIN V : StepOK(w, k, l, b, V[i])
  BY <1>1 DEF Between, StepsOK, StepOK, SplitOK
<1>3. RowsInOrder(V)
  BY <1>1 DEF Between, StepsOK, RowsInOrder
<1>4. Deleting(V, b)
  <2>1. Deleting(W, b)
    BY DEF Between, StepsOK
  <2>2. ASSUME NEW i \in DOMAIN V, V[i].op = "deleteKeys"
        PROVE  V[i].rows = b /\ i + 1 \in DOMAIN V /\ V[i + 1].op = "insertNew" /\ V[i + 1].rows = b
    BY <1>1, <2>1, <2>2 DEF Deleting
  <2>3. ASSUME NEW i \in DOMAIN V, V[i].op = "insertNew", i # 1 PROVE V[i - 1].op = "deleteKeys"
    <3>1. i - 1 \in DOMAIN W
      BY <1>1, <2>3
    <3> QED BY <1>1, <2>1, <2>3, <3>1 DEF Deleting
  <2> QED BY <2>2, <2>3 DEF Deleting
<1>5. StepsOK(V, s, w, k, l, b)
  BY <1>1, <1>2, <1>3, <1>4 DEF StepsOK
<1>6. OfThisSync(b, V, x, s, w, l)
  <2>1. OfThisSync(b, W, x, s, w, l)
    BY DEF Between
  <2> QED BY <1>1, <2>1 DEF OfThisSync
<1>7. Clean(V, x)
  <2>1. Clean(W, x)
    BY DEF Between
  <2>2. V # << >> => W # << >> /\ 1 \in DOMAIN W
    BY <1>1
  <2> QED BY <1>1, <2>1, <2>2 DEF Clean
<1>8. \A r : Pending(W, r) => Pending(V, r)
  BY <1>1 DEF Pending
<1>9. Between(b, V, x, s, w, k, l, again)
  BY <1>5, <1>6, <1>7 DEF Between
<1>10. WriteProgress(b, W, x, s, w, k, l, again) => WriteProgress(b, V, x, s, w, k, l, again)
  BY <1>8 DEF WriteProgress
<1> QED BY <1>9, <1>10

\* Some rows of the first statement have been taken before it is tried again.
LEMMA ResentBetween ==
  ASSUME NEW b, NEW W, NEW x, NEW s, NEW w, NEW k, NEW l, NEW again, Between(b, W, x, s, w, k, l, again),
         W # << >>, W[1].split, NEW c, c \in Kept(W[1].op, W[1].rows, x)
  PROVE  /\ Between(b, W, c, s, w, k, l, again)
         /\ WriteProgress(b, W, x, s, w, k, l, again) => WriteProgress(b, W, c, s, w, k, l, again)
<1> DEFINE op == W[1].op
           recs == W[1].rows
<1>1. /\ StatementOf(W, x, c) /\ s \in Nat /\ IsBatch(b, s) /\ (Repeats(b) => again)
      /\ StepsOK(W, s, w, k, l, b) /\ x \in BagsOf(s)
  BY DEF Between, StatementOf
<1>2. /\ recs \in Seq(RowsOf(s)) /\ StepOK(w, k, l, b, W[1]) /\ W \in Seq(StepSet(s)) /\ 1 \in DOMAIN W
  BY HeadIs DEF Between, StepsOK
<1>3. SplitOK(w, k, b, W[1]) /\ op \in {"append", "upsert"} /\ Writes(op)
  BY <1>2 DEF StepOK, SplitOK, Writes, Silent
<1>4. c \in BagsOf(s) /\ OneEachOf(w, k, again, c)
  BY <1>1, StatementKeeps, StatementOnce
<1>5. OfThisSync(b, W, c, s, w, l)
  <2>1. OfThisSync(b, Tail(W), c, s, w, l)
    BY <1>1, StatementFresh
  <2>2. \A i \in DOMAIN W : i = 1 \/ (i - 1 \in DOMAIN Tail(W) /\ Tail(W)[i - 1] = W[i])
    BY <1>2
  <2> QED BY <2>1, <2>2 DEF OfThisSync
<1>6. Clean(W, c)
  BY <1>3 DEF Clean
<1>7. Between(b, W, c, s, w, k, l, again)
  BY <1>1, <1>4, <1>5, <1>6 DEF Between
<1>8. ASSUME WriteProgress(b, W, x, s, w, k, l, again) PROVE WriteProgress(b, W, c, s, w, k, l, again)
  <2>1. CASE Keyed(w, k)
    <3>1. recs = b
      BY <1>3, <2>1 DEF SplitOK
    <3>2. \A m \in DOMAIN b : Pending(W, b[m])
      BY <1>2, <1>3, <3>1 DEF Pending
    <3> QED BY <3>2 DEF WriteProgress
  <2>2. CASE ~Keyed(w, k)
    <3>1. op = "append"
      BY <1>3, <2>2 DEF SplitOK
    <3> HIDE DEF op, recs
    <3>2. PICK taken : c = AfterRows(op, x, recs, taken)
      <4>1. c \in Kept(op, recs, x)
        BY DEF op, recs
      <4> QED BY <4>1, KeptIs
    <3>3. DOMAIN x \subseteq DOMAIN c
      BY <1>1, <1>2, <3>1, <3>2, AfterAppended
    <3> QED BY <1>8, <2>2, <3>3 DEF WriteProgress
  <2> QED BY <2>1, <2>2
<1> QED BY <1>7, <1>8

\* The first statement of a write inserts nothing that has to be deleted first.
LEMMA FirstIsNoInsert ==
  ASSUME NEW s, NEW b, IsBatch(b, s), writer \in Writers, keyed \in BOOLEAN, lists \in BOOLEAN,
         NEW W, W = WriteSteps(b), W # << >>
  PROVE  W[1].op # "insertNew"
<1> SUFFICES ASSUME W[1].op = "insertNew" PROVE FALSE
  OBVIOUS
<1>1. StepsOK(W, s, writer, keyed, lists, b)
  BY WritePlan DEF WritePlans
<1>2. Fits(writer, keyed, lists, W[1].op)
  BY <1>1 DEF StepsOK, StepOK
<1>3. writer = "duckdb" /\ lists /\ keyed
  BY <1>2 DEF Fits, Keyed, Silent
<1>4. W = DuckDBWrite(b)
  BY <1>3, Zenon DEF WriteSteps
<1>5. W = <<Do("createTmp", << >>)>> \o DuckDBDeleteInsert(b) \o <<Do("dropTmp", << >>)>>
  BY <1>3, <1>4 DEF DuckDBWrite
<1>6. W[1] = Do("createTmp", << >>)
  <2> DEFINE d == DuckDBDeleteInsert(b)
             c == Do("createTmp", << >>)
             e == Do("dropTmp", << >>)
  <2>1. d \in Seq({d[1], d[2]})
    BY DEF DuckDBDeleteInsert
  <2> HIDE DEF d, c, e
  <2>2. (<<c>> \o d \o <<e>>)[1] = c
    <3> DEFINE S == {c, e, d[1], d[2]}
    <3>1. <<c>> \in Seq(S) /\ <<e>> \in Seq(S) /\ d \in Seq(S)
      BY <2>1
    <3> QED BY <3>1
  <2> QED BY <1>5, <2>2 DEF d, c, e
<1>7. W[1].op = "createTmp"
  BY <1>6, SilentIs DEF Silent
<1> QED BY <1>7

-----------------------------------------------------------------------------
(* The invariant. *)

InWrite ==
  /\ Between(batch, steps, stored, sync, writer, keyed, lists, repeats)
  /\ ~broken => WriteProgress(batch, steps, stored, sync, writer, keyed, lists, repeats)

WriteTypes ==
  /\ writer \in Writers /\ keyed \in BOOLEAN /\ lists \in BOOLEAN /\ broken \in BOOLEAN /\ repeats \in BOOLEAN
  /\ sync \in 0..MaxSyncs /\ src \in Sources /\ stage \in {"idle", "write", "delete"}
  /\ stored \in BagsOf(sync)

WriteInv ==
  /\ WriteTypes
  /\ OneEachOf(writer, keyed, repeats, stored)
  /\ IF stage = "write" THEN InWrite ELSE steps = << >> /\ batch = << >>

\* A new sync: no row is from it yet.
LEMMA BagsGrow ==
  ASSUME NEW s \in Nat, NEW x \in BagsOf(s)
  PROVE  x \in BagsOf(s + 1) /\ \A z \in DOMAIN x : z.sync # s + 1
<1>1. /\ x = [r \in DOMAIN x |-> x[r]] /\ DOMAIN x \subseteq RowsOf(s)
      /\ \A r \in DOMAIN x : x[r] \in Nat \ {0}
  BY BagIs
<1>2. 1..s \subseteq 1..(s + 1)
  OBVIOUS
<1>3. RowsOf(s) \subseteq RowsOf(s + 1)
  <2> DEFINE A == 1..s
             B == 1..(s + 1)
             N == 1..MaxBatch
  <2>1. A \X N \subseteq B \X N
    BY <1>2
  <2> HIDE DEF A, B, N
  <2>2. [key : RowKeys, src : Sources, sync : A, n : N, id : A \X N]
        \subseteq [key : RowKeys, src : Sources, sync : B, n : N, id : B \X N]
    <3> HIDE <1>1
    <3>1. A \subseteq B
      BY <1>2 DEF A, B
    <3> DEFINE P == A \X N
               Q == B \X N
    <3> HIDE DEF P, Q
    <3>2. P \subseteq Q
      BY <2>1 DEF P, Q
    <3>3. [key : RowKeys, src : Sources, sync : A, n : N, id : P] \subseteq [key : RowKeys, src : Sources, sync : B, n : N, id : Q]
      BY <3>1, <3>2
    <3> QED BY <3>3 DEF P, Q
  <2> QED BY <2>2 DEF RowsOf, A, B, N
<1>4. \A z \in RowsOf(s) : z.sync # s + 1
  BY DEF RowsOf
<1> QED BY <1>1, <1>3, <1>4, BagIs

\* Each action keeps the invariant.
LEMMA WriteBegins ==
  ASSUME NEW source \in Sources, WriteInv, BeginSync(source)
  PROVE  WriteInv'
<1> DEFINE s == sync + 1
<1>1. /\ sync \in Nat /\ s \in Nat /\ s \in 0..MaxSyncs /\ s \in 1..s /\ sync' = s /\ MaxBatch \in Nat
  <2>1. MaxSyncs \in Nat /\ MaxBatch \in Nat
    BY WritersAssumption
  <2>2. sync \in 0..MaxSyncs /\ sync < MaxSyncs /\ sync' = sync + 1
    BY DEF WriteInv, WriteTypes, BeginSync
  <2> QED BY <2>1, <2>2
<1>2. PICK keys \in SeqOf(RowKeys, MaxBatch) :
        batch' = [i \in DOMAIN keys |-> Record(keys[i], source, s, i)]
  BY <1>1 DEF BeginSync
<1>3. PICK n \in 0..MaxBatch : keys \in [1..n -> RowKeys]
  BY DEF SeqOf
<1> DEFINE b == batch'
           W == steps'
           again == repeats'
<1>4. b \in Seq(RowsOf(s)) /\ DOMAIN b = 1..n /\ \A i \in DOMAIN b : b[i].n = i /\ b[i].sync = s
  <2>1. \A i \in 1..n : Record(keys[i], source, s, i) \in RowsOf(s)
                         /\ Record(keys[i], source, s, i).n = i /\ Record(keys[i], source, s, i).sync = s
    <3> TAKE i \in 1..n
    <3>1. i \in 1..MaxBatch /\ keys[i] \in RowKeys
      BY <1>1, <1>3
    <3> QED BY <1>1, <3>1 DEF Record, RowsOf
  <2>2. b = [i \in 1..n |-> Record(keys[i], source, s, i)]
    BY <1>2, <1>3
  <2> HIDE DEF b
  <2>3. n \in Nat
    BY <1>1
  <2> QED BY <2>1, <2>2, <2>3
<1>5. IsBatch(b, s)
  BY <1>4 DEF IsBatch
<1>6. /\ writer' = writer /\ keyed' = keyed /\ lists' = lists /\ stored' = stored /\ W = WriteSteps(b)
      /\ again = (repeats \/ Repeats(b)) /\ stage' = "write" /\ broken' = FALSE /\ src' = source
  BY DEF BeginSync, writeVars
<1>7. WriteTypes /\ OneEachOf(writer, keyed, repeats, stored)
  BY DEF WriteInv
<1>8. stored \in BagsOf(s) /\ \A z \in DOMAIN stored : z.sync # s
  BY <1>1, <1>7, BagsGrow DEF WriteTypes
<1>9. Repeats(b) \in BOOLEAN
  BY DEF Repeats, RepeatsOf
<1> HIDE DEF b, W, again, s
<1>10. WritePlans(WriteSteps(b), s, writer, keyed, lists, b)
  BY <1>5, <1>7, WritePlan DEF WriteTypes
<1>11. StepsOK(W, s, writer, keyed, lists, b) /\ \A m \in DOMAIN b : Pending(W, b[m])
  BY <1>6, <1>10 DEF WritePlans
<1>12. OfThisSync(b, W, stored, s, writer, lists)
  BY <1>8 DEF OfThisSync
<1>13. Clean(W, stored)
  BY <1>5, <1>6, <1>7, FirstIsNoInsert DEF Clean, WriteTypes
<1>14. OneEachOf(writer, keyed, again, stored)
  BY <1>6, <1>7 DEF OneEachOf
<1>15. Between(b, W, stored, s, writer, keyed, lists, again)
  BY <1>1, <1>5, <1>6, <1>8, <1>11, <1>12, <1>13, <1>14 DEF Between
<1>16. WriteProgress(b, W, stored, s, writer, keyed, lists, again)
  BY <1>11 DEF WriteProgress
<1>17. InWrite'
  BY <1>1, <1>6, <1>15, <1>16 DEF InWrite, b, W, again
<1>18. WriteTypes'
  BY <1>1, <1>6, <1>7, <1>8, <1>9 DEF WriteTypes, again
<1>19. OneEachOf(writer, keyed, repeats, stored)'
  BY <1>6, <1>14 DEF again
<1> QED BY <1>6, <1>17, <1>18, <1>19 DEF WriteInv

LEMMA WriteExecutes ==
  ASSUME WriteInv, ExecuteStep
  PROVE  WriteInv'
<1> DEFINE c == stored'
<1>1. WriteTypes /\ stage = "write" /\ InWrite /\ steps # << >>
  BY DEF WriteInv, ExecuteStep
<1>2. Head(steps) = steps[1]
  BY <1>1
<1>3. /\ c \in Outcomes(steps[1].op, steps[1].rows, stored) /\ steps' = Tail(steps)
      /\ UNCHANGED <<writer, keyed, lists, sync, src, batch, stage, broken, repeats>>
  BY <1>2 DEF ExecuteStep
<1> HIDE DEF c
<1>4. Between(batch, steps, stored, sync, writer, keyed, lists, repeats)
  BY <1>1 DEF InWrite
<1>5. Between(batch, Tail(steps), c, sync, writer, keyed, lists, repeats)
  BY <1>1, <1>3, <1>4, StatementBetween
<1>7. ~broken => WriteProgress(batch, Tail(steps), c, sync, writer, keyed, lists, repeats)
  BY <1>1, <1>3, <1>4, StatementProgress DEF InWrite
<1>8. InWrite'
  BY <1>3, <1>5, <1>7 DEF InWrite, c
<1>9. c \in BagsOf(sync) /\ OneEachOf(writer, keyed, repeats, c)
  BY <1>5 DEF Between
<1>10. WriteTypes'
  BY <1>1, <1>3, <1>9 DEF WriteTypes, c
<1> QED BY <1>1, <1>3, <1>8, <1>9, <1>10 DEF WriteInv, c

LEMMA WriteRetries ==
  ASSUME WriteInv, RetryStep
  PROVE  WriteInv' /\ (stored' = stored \/ StatementOf(steps, stored, stored'))
<1> DEFINE W == steps
           V == steps'
           x == stored
           c == stored'
<1>1. WriteTypes /\ stage = "write" /\ InWrite /\ W # << >>
  BY DEF WriteInv, RetryStep
<1>2. /\ Head(W).tries > 1 /\ V = [W EXCEPT ![1].tries = @ - 1]
      /\ c \in {x} \cup (IF Head(W).split THEN Kept(Head(W).op, Head(W).rows, x) ELSE {})
      /\ UNCHANGED <<writer, keyed, lists, sync, src, batch, stage, broken, repeats>>
  BY DEF RetryStep
<1>3. Between(batch, W, x, sync, writer, keyed, lists, repeats)
  BY <1>1 DEF InWrite
<1>4. W \in Seq(StepSet(sync)) /\ Tries \in Nat
  BY <1>3, WritersAssumption DEF Between, StepsOK
<1> HIDE DEF W, V, x, c
<1>5. Head(W) = W[1] /\ 1 \in DOMAIN W /\ W[1] \in StepSet(sync)
  BY <1>1, <1>4
<1> DEFINE st == [W[1] EXCEPT !.tries = @ - 1]
<1>6. st \in StepSet(sync) /\ st.op = W[1].op /\ st.rows = W[1].rows /\ st.split = W[1].split
  <2>1. W[1].tries \in 1..Tries /\ W[1].tries > 1
    BY <1>2, <1>5 DEF StepSet
  <2>2. W[1].tries - 1 \in 1..Tries
    BY <1>4, <2>1
  <2> QED BY <1>5, <2>2 DEF StepSet
<1>7. V = [W EXCEPT ![1] = st]
  BY <1>2
<1> HIDE DEF st
<1>8. AsMany(W, V, sync)
  BY <1>4, <1>5, <1>6, <1>7 DEF AsMany
<1>9. c = x \/ (W[1].split /\ c \in Kept(W[1].op, W[1].rows, x))
  BY <1>2, <1>5
<1>10. ~broken => WriteProgress(batch, W, x, sync, writer, keyed, lists, repeats)
  BY <1>1 DEF InWrite, W, x
<1>11. /\ Between(batch, W, c, sync, writer, keyed, lists, repeats)
       /\ ~broken => WriteProgress(batch, W, c, sync, writer, keyed, lists, repeats)
  <2>1. CASE c = x
    BY <1>3, <1>10, <2>1
  <2>2. CASE W[1].split /\ c \in Kept(W[1].op, W[1].rows, x)
    BY <1>1, <1>3, <1>10, <2>2, ResentBetween
  <2> QED BY <1>9, <2>1, <2>2
<1>12. /\ Between(batch, V, c, sync, writer, keyed, lists, repeats)
       /\ ~broken => WriteProgress(batch, V, c, sync, writer, keyed, lists, repeats)
  BY <1>8, <1>11, SameBetween
<1>13. InWrite'
  BY <1>2, <1>12 DEF InWrite, V, c
<1>14. c \in BagsOf(sync) /\ OneEachOf(writer, keyed, repeats, c)
  BY <1>12 DEF Between
<1>15. WriteTypes'
  BY <1>1, <1>2, <1>14 DEF WriteTypes, c
<1>16. c = x \/ StatementOf(W, x, c)
  BY <1>9 DEF StatementOf
<1> QED BY <1>1, <1>2, <1>13, <1>14, <1>15, <1>16 DEF WriteInv, W, c, x

LEMMA WriteFails ==
  ASSUME WriteInv, FailStep
  PROVE  WriteInv' /\ (stored' = stored \/ StatementOf(steps, stored, stored'))
<1> DEFINE c == stored'
           V == steps'
<1>1. WriteTypes /\ stage = "write" /\ InWrite /\ steps # << >>
  BY DEF WriteInv, FailStep
<1>2. Head(steps) = steps[1]
  BY <1>1
<1>3. /\ c \in {stored} \cup Outcomes(steps[1].op, steps[1].rows, stored)
                 \cup (IF steps[1].split THEN Kept(steps[1].op, steps[1].rows, stored) ELSE {})
      /\ V = IF writer = "kafka" THEN Tail(steps)
             ELSE IF Last(steps).op = "dropTmp" THEN <<Last(steps)>> ELSE << >>
      /\ broken' = TRUE
      /\ UNCHANGED <<writer, keyed, lists, sync, src, batch, stage, repeats>>
  BY <1>2 DEF FailStep
<1> HIDE DEF c, V
<1>4. Between(batch, steps, stored, sync, writer, keyed, lists, repeats)
  BY <1>1 DEF InWrite
<1>5. c = stored \/ StatementOf(steps, stored, c)
  BY <1>3 DEF StatementOf
<1>6. Between(batch, V, c, sync, writer, keyed, lists, repeats)
  <2>1. CASE writer = "kafka"
    BY <1>1, <1>3, <1>4, <1>5, <2>1, SkippedBetween
  <2>2. CASE writer # "kafka"
    <3>1. V = << >> \/ (V = <<Last(steps)>> /\ Last(steps).op \in {"dropTmp"})
      BY <1>3, <2>2
    <3> QED BY <1>1, <1>4, <1>5, <3>1, FailedBetween
  <2> QED BY <2>1, <2>2
<1>8. InWrite'
  BY <1>3, <1>6 DEF InWrite, c, V
<1>9. c \in BagsOf(sync) /\ OneEachOf(writer, keyed, repeats, c)
  BY <1>6 DEF Between
<1>10. WriteTypes'
  BY <1>1, <1>3, <1>9 DEF WriteTypes, c
<1> QED BY <1>1, <1>3, <1>5, <1>8, <1>9, <1>10 DEF WriteInv, c

\* A drop of the temporary table does nothing to the rows.
LEMMA SilentOutcome ==
  ASSUME NEW s, NEW op \in Silent, NEW x \in BagsOf(s)
  PROVE  x \in Outcomes(op, << >>, x)
<1> DEFINE none == << >>
<1>1. AfterRows(op, x, none, Range(none)) = x
  <2> DEFINE taken == Range(none)
  <2> HIDE DEF taken
  <2> QED BY AfterNone
<1>2. ~RowsClash(op, none, x)
  BY DEF RowsClash, Silent
<1>3. op # "deleteKeys" /\ op # "tvp"
  BY DEF Silent
<1>4. x \in {AfterRows(op, x, none, Range(none))}
  BY <1>1
<1> HIDE DEF none
<1>5. Outcomes(op, none, x) = {AfterRows(op, x, none, Range(none))}
  BY <1>2, <1>3, Zenon DEF Outcomes
<1> QED BY <1>4, <1>5 DEF none

LEMMA WriteDrops ==
  ASSUME WriteInv, DropFails
  PROVE  WriteInv'
<1>1. WriteTypes /\ stage = "write" /\ InWrite /\ steps # << >>
  BY DEF WriteInv, DropFails
<1>2. Head(steps) = steps[1]
  BY <1>1
<1>3. /\ steps[1].op = "dropTmp" /\ steps' = Tail(steps)
      /\ UNCHANGED <<writer, keyed, lists, sync, src, batch, stored, stage, broken, repeats>>
  BY <1>2 DEF DropFails
<1>4. Between(batch, steps, stored, sync, writer, keyed, lists, repeats)
  BY <1>1 DEF InWrite
<1>5. steps[1].op \in Silent /\ steps[1].rows = << >>
  BY <1>1, <1>3, <1>4, HeadIs DEF StepOK, Silent
<1>6. stored \in Outcomes(steps[1].op, steps[1].rows, stored)
  BY <1>1, <1>5, SilentOutcome DEF WriteTypes
<1>7. ExecuteStep
  BY <1>1, <1>2, <1>3, <1>6 DEF ExecuteStep
<1> QED BY <1>7, WriteExecutes

LEMMA WriteDeletes ==
  ASSUME WriteInv, ExecuteDelete
  PROVE  /\ WriteInv'
         /\ \A r : r \in DOMAIN stored' <=> r \in DOMAIN stored /\ ~(DeletesStale /\ r \in Stale(stored))
<1> DEFINE c == stored'
           D == DOMAIN stored \ Stale(stored)
           y == [r \in D |-> stored[r]]
<1>1. WriteTypes /\ stage = "delete" /\ OneEachOf(writer, keyed, repeats, stored)
      /\ steps = << >> /\ batch = << >>
  BY DEF WriteInv, ExecuteDelete
<1>2. /\ c = IF DeletesStale THEN y ELSE stored
      /\ stage' = "idle" /\ UNCHANGED <<writer, keyed, lists, sync, src, batch, steps, broken, repeats>>
  BY DEF ExecuteDelete, DeleteStale
<1>3. /\ stored = [r \in DOMAIN stored |-> stored[r]] /\ DOMAIN stored \subseteq RowsOf(sync)
      /\ \A r \in DOMAIN stored : stored[r] \in Nat \ {0}
  BY <1>1, BagIs DEF WriteTypes
<1>4. y = [r \in DOMAIN y |-> y[r]] /\ DOMAIN y = D /\ \A r \in D : r \in DOMAIN stored /\ y[r] = stored[r]
  OBVIOUS
<1>5. y \in BagsOf(sync)
  <2>1. DOMAIN y \subseteq RowsOf(sync) /\ \A r \in DOMAIN y : y[r] \in Nat \ {0}
    BY <1>3, <1>4
  <2> HIDE DEF y, D
  <2> QED BY <1>4, <2>1, BagIs
<1> HIDE DEF c, y
<1>6. OneEachOf(writer, keyed, repeats, y)
  BY <1>1, <1>4 DEF OneEachOf, Single, NoneTwice
<1>7. c \in BagsOf(sync) /\ OneEachOf(writer, keyed, repeats, c)
  BY <1>1, <1>2, <1>5, <1>6 DEF WriteTypes
<1>8. WriteTypes'
  BY <1>1, <1>2, <1>7 DEF WriteTypes, c
<1>9. \A r : r \in DOMAIN c <=> r \in DOMAIN stored /\ ~(DeletesStale /\ r \in Stale(stored))
  BY <1>2, <1>4
<1> QED BY <1>1, <1>2, <1>7, <1>8, <1>9 DEF WriteInv, c

LEMMA WriteEnds ==
  ASSUME WriteInv, Crash \/ EndWrite \/ DeleteFails \/ UNCHANGED writeVars
  PROVE  WriteInv'
<1>1. WriteTypes /\ OneEachOf(writer, keyed, repeats, stored)
  BY DEF WriteInv
<1>2. CASE Crash
  <2>1. WriteTypes'
    BY <1>1, <1>2 DEF WriteTypes, Crash
  <2> QED BY <1>1, <1>2, <2>1 DEF WriteInv, Crash
<1>3. CASE EndWrite
  <2>1. WriteTypes' /\ stage' # "write"
    BY <1>1, <1>3 DEF WriteTypes, EndWrite
  <2> QED BY <1>1, <1>3, <2>1 DEF WriteInv, EndWrite, WriteReturned
<1>4. CASE DeleteFails
  <2>1. WriteTypes'
    BY <1>1, <1>4 DEF WriteTypes, DeleteFails
  <2> QED BY <1>1, <1>4, <2>1 DEF WriteInv, DeleteFails
<1>5. CASE UNCHANGED writeVars
  <2>1. /\ writer' = writer /\ keyed' = keyed /\ lists' = lists /\ sync' = sync /\ src' = src /\ batch' = batch
        /\ stored' = stored /\ steps' = steps /\ stage' = stage /\ broken' = broken /\ repeats' = repeats
    BY <1>5 DEF writeVars
  <2>2. WriteTypes'
    BY <1>1, <2>1 DEF WriteTypes
  <2>3. InWrite => InWrite'
    BY <2>1 DEF InWrite
  <2> QED BY <1>1, <2>1, <2>2, <2>3 DEF WriteInv
<1> QED BY <1>2, <1>3, <1>4, <1>5

LEMMA WriteStarts ==
  ASSUME WriteInit PROVE WriteInv
<1>1. stored = EmptyBag /\ DOMAIN stored = {} /\ stored = [r \in DOMAIN stored |-> stored[r]]
  <2>1. EmptyBag = [r \in {} |-> EmptyBag[r]] /\ DOMAIN EmptyBag = {}
    BY DEF EmptyBag, SetToBag
  <2>2. stored = EmptyBag
    BY DEF WriteInit
  <2> QED BY <2>1, <2>2
<1>2. stored \in BagsOf(sync)
  <2>1. DOMAIN stored \subseteq RowsOf(sync) /\ \A r \in DOMAIN stored : stored[r] \in Nat \ {0}
    BY <1>1
  <2>2. stored = [r \in DOMAIN stored |-> stored[r]]
    BY <1>1
  <2> HIDE <1>1
  <2> QED BY <2>1, <2>2, BagIs
<1>3. OneEachOf(writer, keyed, repeats, stored)
  BY <1>1 DEF OneEachOf, Single, NoneTwice
<1>4. WriteTypes
  <2>1. MaxSyncs \in Nat
    BY WritersAssumption
  <2>2. src \in Sources
    BY WritersAssumption DEF WriteInit
  <2>3. sync \in 0..MaxSyncs
    BY <2>1 DEF WriteInit
  <2> QED BY <1>2, <2>2, <2>3 DEF WriteTypes, WriteInit
<1> QED BY <1>3, <1>4 DEF WriteInv, WriteInit

LEMMA WriteInvSteps ==
  ASSUME WriteInv, [WriteNext]_writeVars PROVE WriteInv'
BY WriteBegins, WriteExecutes, WriteRetries, WriteFails, WriteDrops, WriteDeletes, WriteEnds DEF WriteNext

\* The table and the statements that are left fit together in every state.
THEOREM WriteInvariant == WriteSpec => []WriteInv
BY WriteStarts, WriteInvSteps, PTL DEF WriteSpec

\* When no statement is left, no record is to come: all are written.
LEMMA InvWritten ==
  ASSUME WriteInv PROVE Written
<1>1. WriteTypes /\ OneEachOf(writer, keyed, repeats, stored)
  BY DEF WriteInv
<1>2. NoDoubles
  <2>1. (KeyedRows <=> Keyed(writer, keyed)) /\ (SentTwice <=> Twice(writer, keyed))
    BY <1>1 DEF KeyedRows, Keyed, WriteTypes, SentTwice, Twice
  <2> QED BY <1>1, <2>1 DEF NoDoubles, OneEachOf, Single, NoneTwice
<1>3. AllWritten
  <2> SUFFICES ASSUME WriteReturned, ~broken
               PROVE  IF KeyedRows
                      THEN \A k \in KeysOf(batch) : (\E r \in DOMAIN stored : SameRecord(r, LastOf(k))) \/ OtherWinner
                      ELSE \A i \in DOMAIN batch : batch[i] \in DOMAIN stored /\ (stored[batch[i]] = 1 \/ SentTwice)
    BY DEF AllWritten
  <2>1. /\ Between(batch, << >>, stored, sync, writer, keyed, lists, repeats)
        /\ WriteProgress(batch, << >>, stored, sync, writer, keyed, lists, repeats)
    BY DEF WriteReturned, WriteInv, InWrite
  <2>2. \A r : ~Pending(<< >>, r)
    BY DEF Pending
  <2>3. KeyedRows <=> Keyed(writer, keyed)
    BY DEF KeyedRows, Keyed
  <2>4. CASE ~KeyedRows
    <3>1. \A i \in DOMAIN batch : batch[i] \in DOMAIN stored
      BY <2>1, <2>2, <2>3, <2>4 DEF WriteProgress
    <3>2. NoneTwice(stored) \/ SentTwice
      BY <1>1, <2>3, <2>4 DEF OneEachOf, SentTwice, Twice
    <3> QED BY <2>4, <3>1, <3>2 DEF NoneTwice
  <2>5. CASE KeyedRows
    <3> SUFFICES ASSUME NEW k \in KeysOf(batch), ~OtherWinner
                 PROVE  \E r \in DOMAIN stored : SameRecord(r, LastOf(k))
      BY <2>5
    <3>1. batch \in Seq(RowsOf(sync)) /\ \A m \in DOMAIN batch : batch[m].n = m /\ batch[m].sync = sync
      BY <2>1 DEF Between, IsBatch
    <3> DEFINE R == {i \in DOMAIN batch : batch[i].key = k}
               M == Max(R)
    <3>2. R \subseteq 1..Len(batch) /\ R # {} /\ Len(batch) \in Nat
      BY <3>1 DEF KeysOf
    <3>3. M \in R /\ \A i \in R : i <= M
      <4> HIDE DEF R
      <4> QED BY <3>2, MaxIs
    <3>4. M \in DOMAIN batch /\ batch[M].key = k /\ M \in Int
          /\ \A i \in DOMAIN batch : i \in Int /\ (batch[i].key = k => i <= M)
      BY <3>1, <3>3
    <3>5. LastOf(k) = batch[M]
      BY DEF LastOf
    <3> HIDE DEF R, M
    <3>6. ~Excused(writer, lists, repeats)
      BY DEF OtherWinner, Excused
    <3>7. HasRow(stored, batch[M].key, sync, M)
      BY <2>1, <2>2, <2>3, <2>5, <3>4, <3>6 DEF WriteProgress
    <3>8. PICK z \in DOMAIN stored : z.key = k /\ z.sync = sync /\ z.n >= M
      BY <3>4, <3>7 DEF HasRow
    <3>9. PICK m \in DOMAIN batch : SameButID(z, batch[m]) /\ (writer # "duckdb" \/ lists => z = batch[m])
      BY <2>1, <3>8 DEF Between, OfThisSync
    <3>10. m = M
      BY <3>1, <3>4, <3>8, <3>9 DEF SameButID
    <3> QED BY <3>5, <3>8, <3>9, <3>10 DEF SameRecord, SameButID
  <2> QED BY <2>4, <2>5
<1> QED BY <1>2, <1>3 DEF Written

\* Written: a write that succeeds has stored the last record of every key, or
\* every record of a table without keys, whatever failed before, was tried
\* again or was cut short; and none is there twice, but where a record that
\* was taken is sent again: by kafka, and by elasticsearch without a key.
THEOREM RowsAreWritten == WriteSpec => []Written
BY WriteInvariant, InvWritten, PTL

LEMMA InvWriteTypeOK ==
  ASSUME WriteInv PROVE WriteTypeOK
<1>1. WriteTypes /\ (stage # "write" => steps = << >>)
  BY DEF WriteInv
<1>2. /\ stored = [r \in DOMAIN stored |-> stored[r]] /\ DOMAIN stored \subseteq RowsOf(sync)
      /\ \A r \in DOMAIN stored : stored[r] \in Nat \ {0}
  BY <1>1, BagIs DEF WriteTypes
<1>3. IsABag(stored)
  BY <1>2 DEF IsABag
<1>4. \A r \in DOMAIN stored : r.key \in RowKeys /\ r.src \in Sources /\ r.sync \in 1..sync /\ r.n \in 1..MaxBatch
  BY <1>2 DEF RowsOf
<1>5. \A i \in DOMAIN steps : steps[i].tries \in 1..Tries
  <2>1. CASE stage = "write"
    <3>1. steps \in Seq(StepSet(sync))
      BY <2>1 DEF WriteInv, InWrite, Between, StepsOK
    <3>2. \A i \in DOMAIN steps : steps[i] \in StepSet(sync)
      BY <3>1
    <3> QED BY <3>2 DEF StepSet
  <2>2. CASE stage # "write"
    BY <1>1, <2>2
  <2> QED BY <2>1, <2>2
<1>6. {keyed, lists, broken, repeats} \subseteq BOOLEAN
  BY <1>1 DEF WriteTypes
<1> QED BY <1>1, <1>3, <1>4, <1>5, <1>6 DEF WriteTypeOK, WriteTypes

\* The rows are bags of records of the syncs that have begun.
THEOREM WritersTypeCorrect == WriteSpec => []WriteTypeOK
BY WriteInvariant, InvWriteTypeOK, PTL

\* What a statement takes away is of a key it leaves, or of a duckdb with lists.
LEMMA StatementGoes ==
  ASSUME WriteInv, stage = "write", steps # << >>, StatementOf(steps, stored, stored'),
         NEW r \in DOMAIN stored \ DOMAIN stored'
  PROVE  r.key \in Held(stored') \/ (writer = "duckdb" /\ lists)
<1> DEFINE c == stored'
<1>1. Between(batch, steps, stored, sync, writer, keyed, lists, repeats)
  BY DEF WriteInv, InWrite
<1>2. r.key \in Held(stored)
  BY DEF Held
<1>3. StatementOf(steps, stored, c)
  OBVIOUS
<1> HIDE DEF c
<1>4. /\ steps[1].op \notin {"deleteKeys"} => Held(stored) \subseteq Held(c)
      /\ steps[1].op \in {"deleteKeys"} => writer = "duckdb" /\ lists
  BY <1>1, <1>3, StatementKeeps
<1> QED BY <1>2, <1>4 DEF c

\* What is older is of an earlier sync, and what is not is of this one or,
\* where fractions are not compared, of the one before.
LEMMA InstantIs ==
  ASSUME sync \in Nat, NEW s \in 1..sync
  PROVE  /\ Instant(s) < Instant(sync) => s < sync
         /\ ~(Instant(s) < Instant(sync)) => s = sync \/ (writer \in {"sqlite", "elasticsearch"} /\ s + 1 = sync)
BY DEF Instant

\* OnlyStaleGo: a row goes for a row of its key, or because delete-stale finds it
\* stale; after delete-stale no row of an earlier sync of the source is left,
\* where delete-stale deletes: not of kafka, bigquery and meilisearch, nor of
\* elasticsearch without a key.
THEOREM StaleRowsGo == WriteSpec => OnlyStaleGo
<1> DEFINE Gone == \A r \in DOMAIN stored \ DOMAIN stored' :
                     \/ r.key \in Held(stored') /\ stage = "write"
                     \/ stage = "delete" /\ r.src = src /\ r.sync < sync
                     \/ writer = "duckdb" /\ lists
           Stays == ExecuteDelete /\ DeletesStale => \A r \in DOMAIN stored' : r.src = src => Recent(r)
<1>1. WriteInv /\ [WriteNext]_writeVars => [Gone /\ Stays]_writeVars
  <2> SUFFICES ASSUME WriteInv, WriteNext PROVE Gone /\ Stays
    OBVIOUS
  <2>1. sync \in Nat /\ \A r \in DOMAIN stored : r.sync \in 1..sync
    <3>1. MaxSyncs \in Nat /\ sync \in 0..MaxSyncs /\ stored \in BagsOf(sync)
      BY WritersAssumption DEF WriteInv, WriteTypes
    <3>2. DOMAIN stored \subseteq RowsOf(sync)
      BY <3>1, BagIs
    <3> QED BY <3>1, <3>2 DEF RowsOf
  <2>2. CASE ExecuteDelete
    <3>1. /\ stage = "delete"
          /\ \A r : r \in DOMAIN stored' <=> r \in DOMAIN stored /\ ~(DeletesStale /\ r \in Stale(stored))
      BY <2>2, WriteDeletes DEF ExecuteDelete
    <3>2. Gone
      BY <2>1, <3>1, InstantIs DEF Stale
    <3>3. Stays
      BY <2>1, <3>1, InstantIs DEF Stale, Recent
    <3> QED BY <3>2, <3>3
  <2>3. CASE ~ExecuteDelete
    <3>1. Stays
      BY <2>3
    <3>2. CASE ExecuteStep
      <4>1. stage = "write" /\ steps # << >> /\ stored' \in Outcomes(steps[1].op, steps[1].rows, stored)
        <5>1. steps # << >> => Head(steps) = steps[1]
          OBVIOUS
        <5> QED BY <3>2, <5>1 DEF ExecuteStep
      <4>2. StatementOf(steps, stored, stored')
        BY <4>1 DEF StatementOf
      <4>3. Gone
        BY <4>1, <4>2, StatementGoes
      <4> QED BY <3>1, <4>3
    <3>3. CASE FailStep \/ RetryStep
      <4>1. stage = "write" /\ steps # << >>
        BY <3>3 DEF FailStep, RetryStep
      <4>2. stored' = stored \/ StatementOf(steps, stored, stored')
        BY <3>3, WriteFails, WriteRetries
      <4>3. Gone
        BY <4>1, <4>2, StatementGoes
      <4> QED BY <3>1, <4>3
    <3>4. CASE ~ExecuteStep /\ ~FailStep /\ ~RetryStep
      <4>1. stored' = stored
        BY <2>3, <3>4 DEF WriteNext, BeginSync, DropFails, Crash, EndWrite, DeleteFails
      <4>2. Gone
        BY <4>1
      <4> QED BY <3>1, <4>2
    <3> QED BY <3>2, <3>3, <3>4
  <2> QED BY <2>2, <2>3
<1> QED BY <1>1, WriteInvariant, PTL DEF WriteSpec, OnlyStaleGo

-----------------------------------------------------------------------------
(* ObjectStores. *)

\* The name of the n-th batch of t in this sync; s3 has made one with the table.
NameOf(t, n) == ObjectName(t, storeSync, IF spec.empties /\ n = 1 THEN 0 ELSE n)

StoreTypeInv ==
  /\ store \in Stores /\ spec \in {SetDefaults(s) : s \in {x \in Specs : Validate(x)}}
  /\ storeSync \in Nat /\ storeFailed \in BOOLEAN
  /\ made \in [StoreTables -> Nat]
  /\ DOMAIN open = StoreTables /\ DOMAIN initialized = StoreTables

\* Where the next batch goes.
NamesInv ==
  \A t \in StoreTables :
    /\ made[t] <= IF spec.batch = "some" THEN MaxBatches ELSE 1
    /\ open[t] # NoName => made[t] > 0 /\ open[t] = NameOf(t, made[t]) /\ ~storeFailed
    /\ initialized[t] =
         IF spec.empties /\ storeSync > 0 /\ made[t] = 0 THEN ObjectName(t, storeSync, 0) ELSE NoName

\* Only a migration makes an object without rows.
EmptyInv ==
  \A o \in DOMAIN objects : objects[o] = {} =>
    spec.empties /\ \E t \in StoreTables, s \in Nat : o = ObjectName(t, s, 0)

\* A batch that has ended is in the object of its name.
EndedInv ==
  ~storeFailed /\ ~OverwritesInGCS =>
    \A t \in StoreTables : \A n \in 1..Ended(t) :
      NameOf(t, n) \in DOMAIN objects /\ <<storeSync, t, n>> \in objects[NameOf(t, n)]

StoreInv == StoreTypeInv /\ NamesInv /\ EmptyInv /\ EndedInv

-----------------------------------------------------------------------------
LEMMA SpecShape ==
  ASSUME StoreTypeInv
  PROVE  /\ spec \in [table : BOOLEAN, uuid : BOOLEAN, time : BOOLEAN,
                      noRotate : BOOLEAN, batch : {"zero", "some"}, empties : BOOLEAN]
         /\ spec.empties => store = "s3" /\ spec.table
         /\ store \in {"s3", "file"} => (spec.uuid \/ spec.batch # "some") /\ spec.table
         /\ store = "azblob" => (spec.uuid \/ spec.noRotate) /\ spec.table
         /\ spec.noRotate => spec.batch # "some"
<1>1. PICK s \in Specs : Validate(s) /\ spec = SetDefaults(s)
  BY DEF StoreTypeInv
<1>2. store \in {"s3", "gcs", "azblob", "file"}
  BY ObjectStoresAssumption DEF StoreTypeInv
<1>3. s \in [table : BOOLEAN, uuid : BOOLEAN, time : BOOLEAN, noRotate : BOOLEAN,
             batch : {"unset", "zero", "some"}, empties : BOOLEAN]
  /\ (s.empties => store = "s3")
  BY DEF Specs
<1>a. /\ store = "s3" => DefaultPath(s) = IF s.table THEN s
                                          ELSE [s EXCEPT !.table = TRUE, !.uuid = @ \/ ~s.noRotate]
      /\ store = "file" => DefaultPath(s) = [s EXCEPT !.table = TRUE]
      /\ store = "azblob" => DefaultPath(s) =
           [s EXCEPT !.table = TRUE, !.uuid = ~s.noRotate, !.time = FALSE]
      /\ store = "gcs" => DefaultPath(s) = s
  BY Zenon DEF DefaultPath
<1> DEFINE d == DefaultPath(s)
<1>b. spec = DefaultBatch(d)
  BY <1>1 DEF SetDefaults
<1>c. /\ d \in [table : BOOLEAN, uuid : BOOLEAN, time : BOOLEAN, noRotate : BOOLEAN,
               batch : {"unset", "zero", "some"}, empties : BOOLEAN]
      /\ d.noRotate = s.noRotate /\ d.batch = s.batch /\ d.empties = s.empties
      /\ store \in {"s3", "file", "azblob"} => d.table
      /\ store \in {"s3", "file"} /\ s.uuid => d.uuid
      /\ store = "azblob" => (d.uuid \/ d.noRotate)
  <2>1. CASE store = "s3" /\ s.table
    BY <1>3, <1>a, <2>1
  <2>2. CASE store = "s3" /\ ~s.table
    BY <1>3, <1>a, <2>2
  <2>3. CASE store = "file"
    BY <1>3, <1>a, <2>3
  <2>4. CASE store = "azblob"
    BY <1>3, <1>a, <2>4
  <2>5. CASE store = "gcs"
    BY <1>3, <1>a, <2>5
  <2> QED BY <1>2, <2>1, <2>2, <2>3, <2>4, <2>5
<1>d. /\ s.noRotate => s.batch # "some"
      /\ store \in {"s3", "file"} => (s.noRotate => ~s.uuid)
      /\ store \in {"s3", "file"} => (~s.noRotate /\ s.batch # "zero" => s.uuid)
  BY <1>1 DEF Validate, BatchingEnabled
<1> HIDE DEF d
<1>4. CASE d.batch # "unset"
  BY <1>2, <1>3, <1>b, <1>c, <1>d, <1>4 DEF DefaultBatch
<1>5. CASE d.batch = "unset"
  BY <1>2, <1>3, <1>b, <1>c, <1>d, <1>5 DEF DefaultBatch
<1> QED BY <1>4, <1>5

LEMMA NameIsNoNoName ==
  ASSUME NEW t, NEW s, NEW n
  PROVE  ObjectName(t, s, n) # NoName
<1>1. "table" \in DOMAIN ObjectName(t, s, n)
  BY DEF ObjectName
<1>2. "table" \notin DOMAIN NoName
  BY DEF NoName
<1> QED BY <1>1, <1>2

LEMMA PathShape ==
  ASSUME StoreTypeInv
  PROVE  /\ PathVariables(spec).table \in BOOLEAN /\ PathVariables(spec).uuid \in BOOLEAN
         /\ spec.empties => PathVariables(spec) = spec
         /\ ~OverwritesInGCS =>
              \/ PathVariables(spec).uuid
              \/ PathVariables(spec).table /\ spec.batch # "some"
<1>1. PathVariables(spec) = IF store = "gcs" /\ ~spec.table /\ ~spec.uuid /\ ~spec.time
                            THEN [spec EXCEPT !.table = TRUE, !.uuid = ~spec.noRotate]
                            ELSE spec
  BY DEF PathVariables
<1>2. store \in {"s3", "gcs", "azblob", "file"}
  BY ObjectStoresAssumption DEF StoreTypeInv
<1> USE SpecShape
<1>3. CASE store = "gcs" /\ ~spec.table /\ ~spec.uuid /\ ~spec.time
  <2>1. PathVariables(spec) = [spec EXCEPT !.table = TRUE, !.uuid = ~spec.noRotate]
    BY <1>1, <1>3
  <2>2. /\ PathVariables(spec).table = TRUE /\ PathVariables(spec).uuid = ~spec.noRotate
    BY <2>1
  <2> QED BY <2>2, <1>3
<1>4. CASE ~(store = "gcs" /\ ~spec.table /\ ~spec.uuid /\ ~spec.time)
  <2>1. PathVariables(spec) = spec
    BY <1>1, <1>4
  <2>2. CASE store # "gcs"
    BY <2>1, <2>2, <1>2
  <2>3. CASE store = "gcs" /\ ~OverwritesInGCS
    <3>1. spec \in Specs
      BY <2>3 DEF Specs
    <3> QED BY <2>1, <2>3, <3>1, <1>4 DEF OverwritesInGCS
  <2> QED BY <2>1, <2>2, <2>3
<1> QED BY <1>3, <1>4

LEMMA NameParts ==
  ASSUME StoreTypeInv, NEW t, NEW s, NEW n
  PROVE  /\ PathVariables(spec).table => ObjectName(t, s, n).table = t
         /\ PathVariables(spec).uuid => /\ ObjectName(t, s, n).uuid[1] = s
                                        /\ ObjectName(t, s, n).uuid[2] = t
                                        /\ ObjectName(t, s, n).uuid[3] = n
BY PathShape DEF ObjectName

LEMMA NamesApart ==
  ASSUME StoreTypeInv, NamesInv, ~OverwritesInGCS,
         NEW t \in StoreTables, NEW n \in 1..made[t],
         NEW u \in StoreTables, NEW m \in 1..made[u],
         NameOf(t, n) = NameOf(u, m)
  PROVE  t = u /\ n = m
<1>0. made[t] \in Nat /\ made[u] \in Nat
  BY DEF StoreTypeInv
<1>1. CASE PathVariables(spec).uuid
  <2> DEFINE k == IF spec.empties /\ n = 1 THEN 0 ELSE n
             l == IF spec.empties /\ m = 1 THEN 0 ELSE m
  <2>1. ObjectName(t, storeSync, k) = ObjectName(u, storeSync, l)
    BY DEF NameOf
  <2>2. /\ ObjectName(t, storeSync, k).uuid[2] = t /\ ObjectName(t, storeSync, k).uuid[3] = k
        /\ ObjectName(u, storeSync, l).uuid[2] = u /\ ObjectName(u, storeSync, l).uuid[3] = l
    <3> HIDE DEF k, l
    <3> QED BY <1>1, NameParts
  <2>3. t = u /\ k = l
    BY <2>1, <2>2
  <2> QED BY <2>3, <1>0
<1>2. CASE PathVariables(spec).table /\ spec.batch # "some"
  <2>1. t = u
    BY <1>2, NameParts DEF NameOf
  <2>2. made[t] <= 1 /\ made[u] <= 1
    BY <1>2 DEF NamesInv
  <2> QED BY <2>1, <2>2, <1>0
<1> QED BY <1>1, <1>2, PathShape

LEMMA StoreTypeStep == StoreTypeInv /\ [StoreNext]_storeVars => StoreTypeInv'
<1> SUFFICES ASSUME StoreTypeInv, [StoreNext]_storeVars PROVE StoreTypeInv'
  OBVIOUS
<1> USE DEF StoreTypeInv
<1>1. store' = store /\ spec' = spec
  BY DEF StoreNext, BeginStoreSync, BeginBatch, EndBatch, FailBatch, storeVars
<1>2. (spec \in {SetDefaults(s) : s \in {x \in Specs : Validate(x)}})'
  <2>1. \A s : DefaultPath(s)' = DefaultPath(s)
    BY <1>1, Zenon DEF DefaultPath
  <2>2. PICK s \in Specs : Validate(s) /\ spec = SetDefaults(s)
    OBVIOUS
  <2>3. SetDefaults(s)' = SetDefaults(s)
    BY <2>1 DEF SetDefaults, DefaultBatch
  <2>4. Specs' = Specs /\ Validate(s)' = Validate(s)
    BY <1>1 DEF Specs, Validate, BatchingEnabled
  <2> QED BY <1>1, <2>2, <2>3, <2>4
<1>3. CASE BeginStoreSync
  <2>1. storeSync' = storeSync + 1 /\ storeFailed' = FALSE /\ open' = open
    BY <1>3 DEF BeginStoreSync
  <2>2. made' = [t \in StoreTables |-> 0]
    BY <1>3 DEF BeginStoreSync
  <2>3. DOMAIN initialized' = StoreTables
    BY <1>3 DEF BeginStoreSync
  <2>4. (store \in Stores)' /\ (storeFailed \in BOOLEAN)'
    BY <1>1, <2>1
  <2>7. storeSync \in Nat
    OBVIOUS
  <2>8. storeSync' \in Nat
    BY <2>1, <2>7
  <2>5. (made \in [StoreTables -> Nat])'
    BY <2>2
  <2>6. (DOMAIN open = StoreTables)'
    BY <2>1
  <2> QED BY <1>2, <2>3, <2>4, <2>5, <2>6, <2>8
<1>4. ASSUME NEW t \in StoreTables, BeginBatch(t) PROVE StoreTypeInv'
  BY <1>1, <1>2, <1>4 DEF BeginBatch
<1>5. ASSUME NEW t \in StoreTables, EndBatch(t) PROVE StoreTypeInv'
  BY <1>1, <1>2, <1>5 DEF EndBatch
<1>6. ASSUME NEW t \in StoreTables, FailBatch(t) PROVE StoreTypeInv'
  BY <1>1, <1>2, <1>6 DEF FailBatch
<1>7. CASE UNCHANGED storeVars
  BY <1>1, <1>2, <1>7 DEF storeVars
<1> QED BY <1>3, <1>4, <1>5, <1>6, <1>7 DEF StoreNext

LEMMA NameStays ==
  ASSUME [StoreNext]_storeVars
  PROVE  /\ \A t, s, n : ObjectName(t, s, n)' = ObjectName(t, s, n)
         /\ spec' = spec /\ store' = store
         /\ OverwritesInGCS' = OverwritesInGCS
<1>1. store' = store /\ spec' = spec
  BY DEF StoreNext, BeginStoreSync, BeginBatch, EndBatch, FailBatch, storeVars
<1>2. OverwritesInGCS' = OverwritesInGCS
  BY <1>1 DEF OverwritesInGCS, Specs
<1> QED BY <1>1, <1>2 DEF ObjectName, PathVariables

LEMMA NamesStep ==
  StoreTypeInv /\ NamesInv /\ [StoreNext]_storeVars => NamesInv'
<1> SUFFICES ASSUME StoreTypeInv, NamesInv, [StoreNext]_storeVars,
                    NEW u \in StoreTables
             PROVE  (/\ made[u] <= IF spec.batch = "some" THEN MaxBatches ELSE 1
                     /\ open[u] # NoName => made[u] > 0 /\ open[u] = NameOf(u, made[u]) /\ ~storeFailed
                     /\ initialized[u] =
                          IF spec.empties /\ storeSync > 0 /\ made[u] = 0 THEN ObjectName(u, storeSync, 0) ELSE NoName)'
  BY DEF NamesInv
<1>0. made \in [StoreTables -> Nat] /\ storeSync \in Nat /\ spec.empties \in BOOLEAN
      /\ DOMAIN open = StoreTables /\ DOMAIN initialized = StoreTables
      /\ MaxBatches \in Nat
  BY SpecShape, ObjectStoresAssumption DEF StoreTypeInv
<1>1. /\ made[u] <= IF spec.batch = "some" THEN MaxBatches ELSE 1
      /\ open[u] # NoName => made[u] > 0 /\ open[u] = NameOf(u, made[u]) /\ ~storeFailed
      /\ initialized[u] =
           IF spec.empties /\ storeSync > 0 /\ made[u] = 0 THEN ObjectName(u, storeSync, 0) ELSE NoName
  BY DEF NamesInv
<1>2. spec' = spec /\ \A t, s, n : ObjectName(t, s, n)' = ObjectName(t, s, n)
  BY NameStays
<1>3. \A n : storeSync' = storeSync => NameOf(u, n)' = NameOf(u, n)
  BY <1>2 DEF NameOf
<1>4. CASE BeginStoreSync
  <2>1. made'[u] = 0 /\ open'[u] = NoName /\ storeSync' = storeSync + 1
    BY <1>4 DEF BeginStoreSync
  <2>2. initialized'[u] = IF spec.empties THEN ObjectName(u, storeSync', 0) ELSE NoName
    BY <1>4 DEF BeginStoreSync
  <2>3. storeSync' > 0
    BY <2>1, <1>0
  <2>4. initialized'[u] = IF spec.empties THEN ObjectName(u, storeSync, 0)' ELSE NoName
    BY <2>2, <1>2 DEF ObjectName
  <2> QED BY <2>1, <2>3, <2>4, <1>0, <1>2
<1>5. ASSUME NEW t \in StoreTables, BeginBatch(t), u # t
      PROVE  made'[u] = made[u] /\ open'[u] = open[u] /\ initialized'[u] = initialized[u]
             /\ storeSync' = storeSync /\ storeFailed' = storeFailed
  BY <1>5, <1>0 DEF BeginBatch
<1>6. ASSUME BeginBatch(u)
      PROVE  /\ made'[u] = made[u] + 1
             /\ made[u] < IF spec.batch = "some" THEN MaxBatches ELSE 1
             /\ open'[u] = IF initialized[u] # NoName THEN initialized[u]
                           ELSE ObjectName(u, storeSync, made[u] + 1)
             /\ initialized'[u] = NoName
             /\ storeSync' = storeSync /\ ~storeFailed' /\ ~storeFailed /\ storeSync > 0
  BY <1>6, <1>0 DEF BeginBatch
<1>7. ASSUME NEW t \in StoreTables, EndBatch(t) \/ FailBatch(t)
      PROVE  made'[u] = made[u] /\ initialized'[u] = initialized[u] /\ storeSync' = storeSync
             /\ open'[u] \in {NoName, open[u]} /\ (open'[u] # NoName => storeFailed' = storeFailed)
  <2>1. CASE EndBatch(t)
    BY <2>1, <1>0 DEF EndBatch
  <2>2. CASE FailBatch(t)
    BY <2>2, <1>0 DEF FailBatch
  <2> QED BY <1>7, <2>1, <2>2
<1>8. ASSUME made'[u] = made[u], initialized'[u] = initialized[u], storeSync' = storeSync,
             open'[u] \in {NoName, open[u]}, open'[u] # NoName => storeFailed' = storeFailed
      PROVE  (/\ made[u] <= IF spec.batch = "some" THEN MaxBatches ELSE 1
              /\ open[u] # NoName => made[u] > 0 /\ open[u] = NameOf(u, made[u]) /\ ~storeFailed
              /\ initialized[u] =
                   IF spec.empties /\ storeSync > 0 /\ made[u] = 0 THEN ObjectName(u, storeSync, 0) ELSE NoName)'
  <2>1. (made[u] <= IF spec.batch = "some" THEN MaxBatches ELSE 1)'
    BY <1>1, <1>2, <1>8
  <2>2. (open[u] # NoName => made[u] > 0 /\ open[u] = NameOf(u, made[u]) /\ ~storeFailed)'
    BY <1>1, <1>3, <1>8
  <2>3. (initialized[u] = IF spec.empties /\ storeSync > 0 /\ made[u] = 0
                          THEN ObjectName(u, storeSync, 0) ELSE NoName)'
    BY <1>1, <1>2, <1>8
  <2> QED BY <2>1, <2>2, <2>3
<1>9. CASE BeginBatch(u)
  <2>1. (made[u] <= IF spec.batch = "some" THEN MaxBatches ELSE 1)' /\ (made[u] > 0)'
    BY <1>6, <1>9, <1>2, <1>0
  <2>2. (open[u] = NameOf(u, made[u]))'
    <3>1. NameOf(u, made[u])' = ObjectName(u, storeSync, IF spec.empties /\ made[u] + 1 = 1 THEN 0 ELSE made[u] + 1)
      BY <1>6, <1>9, <1>2 DEF NameOf, ObjectName
    <3>2. CASE initialized[u] # NoName
      <4>1. spec.empties /\ made[u] = 0 /\ initialized[u] = ObjectName(u, storeSync, 0)
        BY <3>2, <1>1
      <4> QED BY <3>1, <3>2, <4>1, <1>6, <1>9
    <3>3. CASE initialized[u] = NoName
      <4>1. ~(spec.empties /\ made[u] = 0)
        BY <3>3, <1>1, <1>6, <1>9, NameIsNoNoName
      <4> QED BY <3>1, <3>3, <4>1, <1>6, <1>9, <1>0
    <3> QED BY <3>2, <3>3
  <2>3. (initialized[u] = IF spec.empties /\ storeSync > 0 /\ made[u] = 0
                          THEN ObjectName(u, storeSync, 0) ELSE NoName)'
    <3>1. made'[u] # 0 /\ initialized'[u] = NoName
      BY <1>6, <1>9, <1>0
    <3> QED BY <3>1
  <2> QED BY <2>1, <2>2, <2>3, <1>6, <1>9
<1>10. CASE UNCHANGED storeVars
  BY <1>8, <1>10 DEF storeVars
<1> QED BY <1>4, <1>5, <1>7, <1>8, <1>9, <1>10 DEF StoreNext

LEMMA EmptyStep ==
  StoreTypeInv /\ EmptyInv /\ [StoreNext]_storeVars => EmptyInv'
<1> SUFFICES ASSUME StoreTypeInv, EmptyInv, [StoreNext]_storeVars PROVE EmptyInv'
  OBVIOUS
<1> SUFFICES ASSUME NEW o \in DOMAIN objects', objects'[o] = {}
             PROVE  spec.empties /\ \E t \in StoreTables, s \in Nat : o = ObjectName(t, s, 0)
  <2>1. spec' = spec /\ \A t, s, n : ObjectName(t, s, n)' = ObjectName(t, s, n)
    BY NameStays
  <2> QED BY <2>1 DEF EmptyInv
<1>1. ASSUME o \in DOMAIN objects, objects[o] = {}
      PROVE  spec.empties /\ \E t \in StoreTables, s \in Nat : o = ObjectName(t, s, 0)
  BY <1>1 DEF EmptyInv
<1>2. CASE BeginStoreSync
  <2> DEFINE new == [n \in {initialized'[t] : t \in StoreTables} \ {NoName} |-> {}]
  <2>1. objects' = new ++ objects
    BY <1>2 DEF BeginStoreSync
  <2>2. CASE o \in DOMAIN new
    <3>1. PICK t \in StoreTables : o = initialized'[t] /\ o # NoName
      BY <2>2
    <3>2. initialized'[t] = IF spec.empties THEN ObjectName(t, storeSync', 0) ELSE NoName
      BY <1>2 DEF BeginStoreSync
    <3>3. storeSync' \in Nat
      BY StoreTypeStep DEF StoreTypeInv
    <3> QED BY <3>1, <3>2, <3>3
  <2>3. CASE o \notin DOMAIN new
    <3>1. DOMAIN objects' = DOMAIN new \cup DOMAIN objects
          /\ objects'[o] = IF o \in DOMAIN new THEN new[o] ELSE objects[o]
      <4> HIDE DEF new
      <4> QED BY <2>1 DEF ++
    <3>2. o \in DOMAIN objects /\ objects[o] = {}
      BY <3>1, <2>3
    <3> QED BY <3>2, <1>1
  <2> QED BY <2>2, <2>3
<1>3. ASSUME NEW n, NEW v, v # {}, objects' = Put(objects, n, v)
      PROVE  o \in DOMAIN objects /\ objects[o] = {}
  BY <1>3 DEF Put
<1>4. ASSUME NEW t \in StoreTables, EndBatch(t)
      PROVE  spec.empties /\ \E u \in StoreTables, s \in Nat : o = ObjectName(u, s, 0)
  <2> DEFINE v == (IF store = "file" THEN Content(open[t]) ELSE {}) \cup {Batch(t)}
  <2>1. objects' = Put(objects, open[t], v) /\ v # {}
    BY <1>4 DEF EndBatch
  <2> HIDE DEF v
  <2> QED BY <2>1, <1>3, <1>1
<1>5. ASSUME NEW t \in StoreTables, FailBatch(t)
      PROVE  spec.empties /\ \E u \in StoreTables, s \in Nat : o = ObjectName(u, s, 0)
  <2> DEFINE v == Content(open[t]) \cup {Batch(t)}
  <2>1. objects' = objects \/ objects' = Put(objects, open[t], v)
    BY <1>5 DEF FailBatch
  <2>2. v # {}
    OBVIOUS
  <2> HIDE DEF v
  <2> QED BY <2>1, <2>2, <1>3, <1>1
<1>6. ASSUME NEW t \in StoreTables, BeginBatch(t)
      PROVE  objects' = objects
  BY <1>6 DEF BeginBatch
<1>7. CASE UNCHANGED storeVars
  BY <1>1, <1>7 DEF storeVars
<1> QED BY <1>1, <1>2, <1>4, <1>5, <1>6, <1>7 DEF StoreNext

LEMMA EndedCounts ==
  ASSUME StoreTypeInv, NamesInv, NEW t \in StoreTables
  PROVE  Ended(t) \in Nat /\ Ended(t) <= made[t] /\ made[t] \in Nat
BY DEF StoreTypeInv, NamesInv, Ended

LEMMA KeptStep ==
  StoreTypeInv /\ NamesInv /\ EndedInv /\ [StoreNext]_storeVars => EndedInv'
<1> SUFFICES ASSUME StoreTypeInv, NamesInv, EndedInv, [StoreNext]_storeVars PROVE EndedInv'
  OBVIOUS
<1>0. made \in [StoreTables -> Nat] /\ DOMAIN open = StoreTables
  BY DEF StoreTypeInv
<1>1. spec' = spec /\ OverwritesInGCS' = OverwritesInGCS
      /\ \A t, s, n : ObjectName(t, s, n)' = ObjectName(t, s, n)
  BY NameStays
<1>2. SUFFICES ASSUME ~storeFailed', ~OverwritesInGCS,
                      NEW u \in StoreTables, NEW n \in 1..Ended(u)'
               PROVE  (NameOf(u, n) \in DOMAIN objects /\ <<storeSync, u, n>> \in objects[NameOf(u, n)])'
  BY <1>1 DEF EndedInv
<1>3. ASSUME ~storeFailed, storeSync' = storeSync
      PROVE  /\ NameOf(u, n)' = NameOf(u, n)
             /\ n \in 1..Ended(u) =>
                  NameOf(u, n) \in DOMAIN objects /\ <<storeSync, u, n>> \in objects[NameOf(u, n)]
  BY <1>1, <1>2, <1>3 DEF EndedInv, NameOf
<1>4. CASE BeginStoreSync
  <2>1. Ended(u)' = 0
    BY <1>4 DEF BeginStoreSync, Ended
  <2> QED BY <2>1, <1>2
<1>5. ASSUME NEW t \in StoreTables, BeginBatch(t)
      PROVE  (NameOf(u, n) \in DOMAIN objects /\ <<storeSync, u, n>> \in objects[NameOf(u, n)])'
  <2>1. objects' = objects /\ storeSync' = storeSync /\ ~storeFailed /\ open[t] = NoName
    BY <1>5 DEF BeginBatch
  <2>2. Ended(u)' = Ended(u)
    <3>1. CASE u # t
      BY <1>0, <1>5, <3>1 DEF BeginBatch, Ended
    <3>2. CASE u = t
      <4>1. made'[t] = made[t] + 1
        BY <1>0, <1>5 DEF BeginBatch
      <4>2. open'[t] = IF initialized[t] # NoName THEN initialized[t]
                       ELSE ObjectName(t, storeSync, made'[t])
        BY <1>0, <1>5 DEF BeginBatch
      <4>3. open'[t] # NoName
        BY <4>2, NameIsNoNoName
      <4> QED BY <1>0, <2>1, <3>2, <4>1, <4>3 DEF Ended
    <3> QED BY <3>1, <3>2
  <2> QED BY <1>2, <1>3, <2>1, <2>2
<1>6. ASSUME NEW t \in StoreTables, EndBatch(t)
      PROVE  (NameOf(u, n) \in DOMAIN objects /\ <<storeSync, u, n>> \in objects[NameOf(u, n)])'
  <2> DEFINE v == (IF store = "file" THEN Content(open[t]) ELSE {}) \cup {Batch(t)}
  <2>1. /\ objects' = Put(objects, open[t], v) /\ <<storeSync, t, made[t]>> \in v
        /\ storeSync' = storeSync /\ made' = made /\ storeFailed' = storeFailed /\ open[t] # NoName
    BY <1>6 DEF EndBatch, Batch
  <2> HIDE DEF v
  <2>2. open[t] = NameOf(t, made[t]) /\ made[t] > 0
    BY <2>1 DEF NamesInv
  <2>3. DOMAIN objects' = DOMAIN objects \cup {open[t]}
        /\ objects'[open[t]] = v
        /\ \A o \in DOMAIN objects : o # open[t] => objects'[o] = objects[o]
    BY <2>1 DEF Put
  <2>4. CASE u = t /\ n = made[t]
    <3>1. NameOf(u, n)' = open[t] /\ storeSync' = storeSync
      BY <1>2, <1>3, <2>1, <2>2, <2>4
    <3> QED BY <3>1, <2>1, <2>3, <2>4
  <2>5. CASE ~(u = t /\ n = made[t])
    <3>1. n \in 1..Ended(u)
      <4>1. CASE u # t
        <5>1. Ended(u)' = Ended(u)
          BY <1>0, <1>6, <4>1 DEF EndBatch, Ended
        <5> QED BY <5>1, <1>2
      <4>2. CASE u = t
        <5>1. Ended(u)' = made[t] /\ Ended(u) = made[t] - 1
          BY <1>0, <1>6, <4>2, <2>1 DEF EndBatch, Ended
        <5> QED BY <5>1, <4>2, <2>5, <1>0, <1>2
      <4> QED BY <4>1, <4>2
    <3>2. n \in 1..made[u] /\ made[t] \in 1..made[t]
      BY <3>1, EndedCounts, <2>2, <1>0
    <3>3. NameOf(u, n) # NameOf(t, made[t])
      BY <1>2, <2>5, <3>2, NamesApart
    <3>4. NameOf(u, n) \in DOMAIN objects /\ <<storeSync, u, n>> \in objects[NameOf(u, n)]
          /\ NameOf(u, n)' = NameOf(u, n)
      BY <1>2, <1>3, <2>1, <3>1
    <3> QED BY <2>1, <2>2, <2>3, <3>3, <3>4
  <2> QED BY <2>4, <2>5
<1>7. ASSUME NEW t \in StoreTables, FailBatch(t)
      PROVE  FALSE
  BY <1>2, <1>7 DEF FailBatch
<1>8. CASE UNCHANGED storeVars
  <2>1. Ended(u)' = Ended(u)
    BY <1>8 DEF storeVars, Ended
  <2>2. objects' = objects /\ storeSync' = storeSync /\ ~storeFailed
    BY <1>2, <1>8 DEF storeVars
  <2> QED BY <1>2, <1>3, <2>1, <2>2
<1> QED BY <1>4, <1>5, <1>6, <1>7, <1>8 DEF StoreNext

LEMMA StoreInvGives == StoreInv => ObjectsAreBatches
<1> SUFFICES ASSUME StoreInv PROVE ObjectsAreBatches
  OBVIOUS
<1> USE DEF StoreInv
<1>1. BatchesKeptElsewhere
  BY DEF BatchesKeptElsewhere, BatchesKept, EndedInv
<1>2. ASSUME ~storeFailed, NEW t \in StoreTables, Ended(t) > 0,
             NEW o \in DOMAIN objects, o.table = t, objects[o] = {},
             NEW n \in 0..MaxBatches, o = ObjectName(t, storeSync, n)
      PROVE  FALSE
  <2>1. PICK u \in StoreTables, s \in Nat : spec.empties /\ o = ObjectName(u, s, 0)
    BY <1>2 DEF EmptyInv
  <2>2. store = "s3" /\ PathVariables(spec) = spec /\ spec.table /\ ~OverwritesInGCS
    BY <2>1, SpecShape, PathShape DEF OverwritesInGCS
  <2>3. 1 \in 1..Ended(t)
    BY <1>2, EndedCounts
  <2>4. objects[ObjectName(t, storeSync, 0)] # {}
    <3>1. NameOf(t, 1) = ObjectName(t, storeSync, 0)
      BY <2>1 DEF NameOf
    <3> QED BY <1>2, <2>2, <2>3, <3>1 DEF EndedInv
  <2>5. CASE spec.uuid
    <3>1. o.uuid[3] = n
      BY <1>2, <2>2, <2>5, NameParts
    <3>2. o.uuid[3] = 0
      BY <2>1, <2>2, <2>5, NameParts
    <3> QED BY <1>2, <2>4, <3>1, <3>2
  <2>6. CASE ~spec.uuid
    <3>1. ObjectName(t, storeSync, n) = ObjectName(t, storeSync, 0)
      BY <2>2, <2>6 DEF ObjectName
    <3> QED BY <1>2, <2>4, <3>1
  <2> QED BY <2>5, <2>6
<1>3. NoEmptyObjectLeft
  BY <1>2 DEF NoEmptyObjectLeft
<1> QED BY <1>1, <1>3 DEF ObjectsAreBatches

LEMMA StoreInitInv == StoreInit => StoreInv
<1> SUFFICES ASSUME StoreInit PROVE StoreInv
  OBVIOUS
<1> USE DEF StoreInit
<1>1. StoreTypeInv
  BY DEF StoreTypeInv
<1>2. NamesInv
  <2>1. MaxBatches \in Nat
    BY ObjectStoresAssumption
  <2> QED BY <2>1 DEF NamesInv
<1>3. EmptyInv
  BY DEF EmptyInv
<1>4. EndedInv
  BY DEF EndedInv, Ended
<1> QED BY <1>1, <1>2, <1>3, <1>4 DEF StoreInv

\* The names of objects are apart, those without rows are a migration's.
THEOREM StoreInvariant == StoreSpec => []StoreInv
<1>1. StoreInv /\ [StoreNext]_storeVars => StoreInv'
  BY StoreTypeStep, NamesStep, EmptyStep, KeptStep DEF StoreInv
<1> QED BY <1>1, StoreInitInv, PTL DEF StoreSpec

\* Whatever the tables, the path of the spec and the number of batches and
\* syncs, the objects of a sync that did not fail are its batches.
THEOREM BatchesAreKept == StoreSpec => []ObjectsAreBatches
BY StoreInvariant, StoreInvGives, PTL

-----------------------------------------------------------------------------
(* Deletions. *)

\* Of the rows, the parents are in the table above.
LEMMA Parents ==
  ASSUME NEW r \in AllRows, NEW p \in AllRows, p.id = r.parent
  PROVE  \/ r.table = "child" /\ p.table = "t"
         \/ r.table = "grandchild" /\ p.table = "child"
BY DEF AllRows, TableRow

\* What the messages mean, as a function that Fold takes.
Meaning(d) == [p \in (SUBSET AllRows) \X Messages |-> p[1] \ Meant(d, p[1], p[2])]

LEMMA MeaningType ==
  ASSUME NEW d
  PROVE  /\ Meaning(d) \in [(SUBSET AllRows) \X Messages -> SUBSET AllRows]
         /\ \A b \in SUBSET AllRows, m \in Messages : Meaning(d)[<<b, m>>] = b \ Meant(d, b, m)
BY DEF Meaning

\* The steps of a fold over messages.
LeftStep(d, first, some, g, r) ==
  IF r = {} THEN first ELSE g[r \ {Max(r)}] \ Meant(d, g[r \ {Max(r)}], some[Max(r)])

LEMMA MeaningSteps ==
  ASSUME NEW d, NEW first \in SUBSET AllRows, NEW some \in Seq(Messages),
         NEW h, Folds(h, Meaning(d), first, some), NEW r \in SUBSET DOMAIN some
  PROVE  /\ h[r] = LeftStep(d, first, some, h, r)
         /\ h[r] \in SUBSET AllRows
<1>1. h[r] = StepOf(h, Meaning(d), first, some, r)
  BY FoldsAt, Zenon
<1>2. \A q \in SUBSET DOMAIN some : h[q] \in SUBSET AllRows
  BY MeaningType, FoldsIn, Zenon
<1>3. CASE r = {}
  BY <1>1, <1>2, <1>3 DEF StepOf, LeftStep
<1>4. CASE r # {}
  <2>1. some[Max(r)] \in Messages /\ r \ {Max(r)} \in SUBSET DOMAIN some
    BY <1>4, LastPosition
  <2>2. h[r \ {Max(r)}] \in SUBSET AllRows
    BY <1>2, <2>1
  <2>3. h[r] = Meaning(d)[<<h[r \ {Max(r)}], some[Max(r)]>>]
    BY <1>1, <1>4 DEF StepOf
  <2> DEFINE c == h[r \ {Max(r)}]
             m == some[Max(r)]
  <2>4. c \in SUBSET AllRows /\ m \in Messages /\ h[r] = Meaning(d)[<<c, m>>]
    BY <2>1, <2>2, <2>3
  <2>5. h[r] = c \ Meant(d, c, m)
    <3> HIDE DEF c, m
    <3> QED BY <2>4, MeaningType
  <2> QED BY <1>2, <1>4, <2>5 DEF LeftStep
<1> QED BY <1>3, <1>4

LEMMA LeftIs ==
  ASSUME NEW d, NEW first \in SUBSET AllRows, NEW some \in Seq(Messages)
  PROVE  Left(d, first, some) = Fold(Meaning(d), first, some)
<1> DEFINE Is(g) == g = [r \in SUBSET DOMAIN some |-> LeftStep(d, first, some, g, r)]
           f == CHOOSE g : Is(g)
<1>1. Left(d, first, some) = f[DOMAIN some]
  BY DEF Left, FoldLeft, MapThenFoldSet, LeftStep
<1>2. PICK h : Folds(h, Meaning(d), first, some) /\ Fold(Meaning(d), first, some) = h[DOMAIN some]
  BY FoldOf
<1>3. ASSUME NEW r \in SUBSET DOMAIN some PROVE h[r] = LeftStep(d, first, some, h, r)
  <2>1. Folds(h, Meaning(d), first, some)
    BY <1>2
  <2> QED BY <2>1, MeaningSteps
<1>4. h = [r \in SUBSET DOMAIN some |-> h[r]]
  BY <1>2 DEF Folds
<1>5. Is(h)
  <2> QED BY <1>3, <1>4
<1>6. Is(f)
  <2> HIDE DEF Is
  <2> QED BY <1>5
<1>7. \A r \in SUBSET DOMAIN some : f[r] = LeftStep(d, first, some, f, r)
  <2> HIDE DEF f
  <2>1. f = [r \in SUBSET DOMAIN some |-> LeftStep(d, first, some, f, r)]
    BY <1>6
  <2> QED BY <2>1
<1> HIDE DEF f
<1>8. f[{}] = h[{}]
  BY <1>3, <1>7 DEF LeftStep
<1>9. \A r \in SUBSET DOMAIN some : r # {} /\ f[r \ {Max(r)}] = h[r \ {Max(r)}] => f[r] = h[r]
  BY <1>3, <1>7 DEF LeftStep
<1>10. f[DOMAIN some] = h[DOMAIN some]
  <2> HIDE DEF Is
  <2> QED BY <1>8, <1>9, SameFolds
<1> QED BY <1>1, <1>2, <1>10

\* Message after message.
LEMMA LeftNothing ==
  ASSUME NEW d, NEW first \in SUBSET AllRows
  PROVE  Left(d, first, << >>) = first
<1>1. << >> \in Seq(Messages)
  OBVIOUS
<1>2. Left(d, first, << >>) = Fold(Meaning(d), first, << >>)
  BY <1>1, LeftIs
<1> QED BY <1>2, FoldNothing

LEMMA LeftIn ==
  ASSUME NEW d, NEW first \in SUBSET AllRows, NEW some \in Seq(Messages)
  PROVE  Left(d, first, some) \in SUBSET AllRows
<1>1. Fold(Meaning(d), first, some) \in SUBSET AllRows
  BY MeaningType, FoldIn, Zenon
<1> QED BY <1>1, LeftIs

LEMMA LeftNext ==
  ASSUME NEW d, NEW first \in SUBSET AllRows, NEW some \in Seq(Messages), NEW m \in Messages
  PROVE  Left(d, first, Append(some, m)) = Left(d, first, some) \ Meant(d, Left(d, first, some), m)
<1> DEFINE b == Left(d, first, some)
<1>1. Append(some, m) \in Seq(Messages)
  OBVIOUS
<1>2. b \in SUBSET AllRows
  BY LeftIn
<1>3. Left(d, first, Append(some, m)) = Fold(Meaning(d), first, Append(some, m))
  BY <1>1, LeftIs
<1>4. Fold(Meaning(d), first, Append(some, m)) = Meaning(d)[<<Fold(Meaning(d), first, some), m>>]
  BY FoldNext
<1>5. b = Fold(Meaning(d), first, some)
  BY LeftIs
<1> HIDE DEF b
<1>6. Meaning(d)[<<b, m>>] = b \ Meant(d, b, m)
  BY <1>2, MeaningType
<1> QED BY <1>3, <1>4, <1>5, <1>6 DEF b

LEMMA LeftOne ==
  ASSUME NEW d, NEW b \in SUBSET AllRows, NEW m \in Messages
  PROVE  Left(d, b, <<m>>) = b \ Meant(d, b, m)
<1> DEFINE e == << >>
<1>1. e \in Seq(Messages) /\ <<m>> = Append(e, m)
  OBVIOUS
<1>2. Left(d, b, e) = b
  BY LeftNothing
<1> HIDE DEF e
<1>3. Left(d, b, Append(e, m)) = Left(d, b, e) \ Meant(d, Left(d, b, e), m)
  BY <1>1, LeftNext
<1> QED BY <1>1, <1>2, <1>3

-----------------------------------------------------------------------------
(* The statement of postgresql. *)

\* The tables of the first k relations and of the message.
Reached(m, k) == {m.table} \cup {m.relations[i].table : i \in 1..k}

\* The rows whose line, in those tables, has a row that the message selects.
WithSelected(b, m, T) ==
  {r \in b : /\ r.table \in T
             /\ \/ Selected(r, m)
                \/ \E p \in b : /\ p.id = r.parent /\ p.table \in T
                                /\ Selected(p, m) \/ \E q \in b : q.id = p.parent /\ q.table \in T /\ Selected(q, m)}

\* A relation adds the rows of its table.
LEMMA RelationAdds ==
  ASSUME NEW b \in SUBSET AllRows, NEW m, NEW T, m.table \in T,
         NEW relation \in TableRelations, relation.parent \in T, relation.table \notin T,
         \* every table reached is the message's or comes with its parents
         \A t \in T : t = m.table \/ (t = "child" /\ "t" \in T) \/ (t = "grandchild" /\ "child" \in T)
  PROVE  AlsoDeleted(b, WithSelected(b, m, T), relation) = WithSelected(b, m, T \cup {relation.table})
<1> DEFINE X == relation.table
           Y == relation.parent
           D == WithSelected(b, m, T)
           E == WithSelected(b, m, T \cup {X})
<1>1. (X = "child" /\ Y = "t") \/ (X = "grandchild" /\ Y = "child")
  BY DEF TableRelations
<1>2. \A r, p \in b : p.id = r.parent => \/ r.table = "child" /\ p.table = "t"
                                         \/ r.table = "grandchild" /\ p.table = "child"
  BY Parents
<1>3. \A r : Selected(r, m) => r.table = m.table
  BY DEF Selected
<1>4. X # m.table
  OBVIOUS
<1> HIDE DEF X, Y
<1>5. ASSUME NEW r \in b, r.table # X PROVE r \in D <=> r \in E
  BY <1>1, <1>2, <1>3, <1>4, <1>5 DEF WithSelected
<1>6. ASSUME NEW r \in b, r.table = X
      PROVE  r \in E <=> \E p \in D : p.table = Y /\ p.id = r.parent
  BY <1>1, <1>2, <1>3, <1>4, <1>6 DEF WithSelected
<1>7. \A r \in D : r \in b /\ r.table # X
  BY DEF WithSelected, X
<1>8. E \subseteq b
  BY DEF WithSelected
<1>9. AlsoDeleted(b, D, relation) = D \cup {r \in b : r.table = X /\ \E p \in D : p.table = Y /\ p.id = r.parent}
  BY DEF AlsoDeleted, X, Y
<1> HIDE DEF D, E
<1>10. AlsoDeleted(b, D, relation) = E
  BY <1>5, <1>6, <1>7, <1>8, <1>9
<1> QED BY <1>10 DEF D, E, X

\* What the relations add, as a function that Fold takes, and its steps.
Adding(b) == [p \in (SUBSET AllRows) \X TableRelations |-> AlsoDeleted(b, p[1], p[2])]

LEMMA AddingType ==
  ASSUME NEW b \in SUBSET AllRows
  PROVE  /\ Adding(b) \in [(SUBSET AllRows) \X TableRelations -> SUBSET AllRows]
         /\ \A c \in SUBSET AllRows, e \in TableRelations : Adding(b)[<<c, e>>] = AlsoDeleted(b, c, e)
<1>1. \A c \in SUBSET AllRows, e \in TableRelations : AlsoDeleted(b, c, e) \in SUBSET AllRows
  BY DEF AlsoDeleted
<1> QED BY <1>1 DEF Adding

AddStep(b, first, relations, g, r) ==
  IF r = {} THEN first ELSE AlsoDeleted(b, g[r \ {Max(r)}], relations[Max(r)])

LEMMA AddSteps ==
  ASSUME NEW b \in SUBSET AllRows, NEW first \in SUBSET AllRows, NEW relations \in Seq(TableRelations),
         NEW h, Folds(h, Adding(b), first, relations), NEW r \in SUBSET DOMAIN relations
  PROVE  h[r] = AddStep(b, first, relations, h, r)
<1>1. h[r] = StepOf(h, Adding(b), first, relations, r)
  BY FoldsAt, Zenon
<1>2. \A q \in SUBSET DOMAIN relations : h[q] \in SUBSET AllRows
  BY AddingType, FoldsIn, Zenon
<1>3. CASE r = {}
  BY <1>1, <1>3 DEF StepOf, AddStep
<1>4. CASE r # {}
  <2>1. relations[Max(r)] \in TableRelations /\ r \ {Max(r)} \in SUBSET DOMAIN relations
    BY <1>4, LastPosition
  <2> DEFINE c == h[r \ {Max(r)}]
             e == relations[Max(r)]
  <2>2. c \in SUBSET AllRows /\ e \in TableRelations
    BY <1>2, <2>1
  <2>3. h[r] = Adding(b)[<<c, e>>]
    BY <1>1, <1>4 DEF StepOf
  <2>4. Adding(b)[<<c, e>>] = AlsoDeleted(b, c, e)
    <3> HIDE DEF c, e
    <3> QED BY <2>2, AddingType
  <2> QED BY <1>4, <2>3, <2>4 DEF AddStep
<1> QED BY <1>3, <1>4

LEMMA DeletedWithIs ==
  ASSUME NEW b \in SUBSET AllRows, NEW m, m.relations \in Seq(TableRelations)
  PROVE  DeletedWith(m, b) = Fold(Adding(b), {r \in b : Selected(r, m)}, m.relations)
<1> DEFINE first == {r \in b : Selected(r, m)}
           some == m.relations
           Is(g) == g = [r \in SUBSET DOMAIN some |-> AddStep(b, first, some, g, r)]
           f == CHOOSE g : Is(g)
<1>0. first \in SUBSET AllRows /\ some \in Seq(TableRelations)
  OBVIOUS
<1>1. DeletedWith(m, b) = f[DOMAIN some]
  BY DEF DeletedWith, FoldLeft, MapThenFoldSet, AddStep
<1> HIDE DEF first, some
<1>2. PICK h : Folds(h, Adding(b), first, some) /\ Fold(Adding(b), first, some) = h[DOMAIN some]
  BY <1>0, FoldOf
<1>3. ASSUME NEW r \in SUBSET DOMAIN some PROVE h[r] = AddStep(b, first, some, h, r)
  <2>1. Folds(h, Adding(b), first, some)
    BY <1>2
  <2> QED BY <1>0, <2>1, AddSteps
<1>4. h = [r \in SUBSET DOMAIN some |-> h[r]]
  BY <1>2 DEF Folds
<1>5. Is(h)
  <2> QED BY <1>3, <1>4
<1>6. Is(f)
  <2> HIDE DEF Is
  <2> QED BY <1>5
<1>7. \A r \in SUBSET DOMAIN some : f[r] = AddStep(b, first, some, f, r)
  <2> HIDE DEF f
  <2>1. f = [r \in SUBSET DOMAIN some |-> AddStep(b, first, some, f, r)]
    BY <1>6
  <2> QED BY <2>1
<1> HIDE DEF f
<1>8. f[{}] = h[{}]
  BY <1>3, <1>7 DEF AddStep
<1>9. \A r \in SUBSET DOMAIN some : r # {} /\ f[r \ {Max(r)}] = h[r \ {Max(r)}] => f[r] = h[r]
  BY <1>3, <1>7 DEF AddStep
<1>10. f[DOMAIN some] = h[DOMAIN some]
  <2> HIDE DEF Is
  <2> QED BY <1>0, <1>8, <1>9, SameFolds
<1> QED BY <1>1, <1>2, <1>10 DEF first, some

\* Relation after relation: what is deleted with a message whose relations
\* are valid is every row whose line has a row that it selects.
LEMMA NothingReached ==
  ASSUME NEW b \in SUBSET AllRows, NEW m
  PROVE  WithSelected(b, m, Reached(m, 0)) = {r \in b : Selected(r, m)}
<1>1. Reached(m, 0) = {m.table}
  BY DEF Reached
<1>2. \A r, p \in b : p.id = r.parent => p.table # r.table
  BY Parents
<1>3. \A r : Selected(r, m) => r.table = m.table
  BY DEF Selected
<1> DEFINE T == Reached(m, 0)
<1> HIDE DEF T
<1>4. ASSUME NEW r \in b PROVE r \in WithSelected(b, m, T) <=> Selected(r, m)
  BY <1>1, <1>2, <1>3 DEF WithSelected, T
<1>5. WithSelected(b, m, T) \subseteq b
  BY DEF WithSelected
<1> QED BY <1>4, <1>5 DEF T

LEMMA DeletedAre ==
  ASSUME NEW b \in SUBSET AllRows, NEW m, m.relations \in Seq(TableRelations), ValidRelations(m)
  PROVE  DeletedWith(m, b) = WithSelected(b, m, Reached(m, Len(m.relations)))
<1> DEFINE some == m.relations
           first == {r \in b : Selected(r, m)}
           After(k) == Fold(Adding(b), first, SubSeq(some, 1, k))
           Wrong == {k \in 0..Len(some) : After(k) # WithSelected(b, m, Reached(m, k))}
<1>0. first \in SUBSET AllRows /\ some \in Seq(TableRelations) /\ Len(some) \in Nat /\ DOMAIN some = 1..Len(some)
  OBVIOUS
<1>v. \A i \in 1..Len(some) : some[i].parent \in Reached(m, i - 1) /\ some[i].table \notin Reached(m, i - 1)
  BY <1>0 DEF ValidRelations, Reached
<1>r. \A k : Reached(m, k) = {m.table} \cup {some[i].table : i \in 1..k}
  BY DEF Reached
<1> HIDE DEF first, some
<1>1. ASSUME Wrong # {} PROVE FALSE
  <2>1. PICK k \in Wrong : \A n \in Wrong : k <= n
    <3>1. Wrong \subseteq Nat
      BY <1>0
    <3> HIDE DEF Wrong
    <3> QED BY <1>1, <3>1, LeastNumber
  <2>2. k \in 0..Len(some) /\ k \in Nat /\ After(k) # WithSelected(b, m, Reached(m, k))
    BY <1>0, <2>1
  <2>3. CASE k = 0
    <3>1. SubSeq(some, 1, 0) = << >>
      BY <1>0
    <3>2. After(0) = first
      BY <3>1, FoldNothing
    <3> QED BY <2>2, <2>3, <3>2, NothingReached DEF first
  <2>4. CASE k # 0
    <3> DEFINE j == k - 1
               T == Reached(m, j)
               e == some[k]
               s == SubSeq(some, 1, j)
    <3>1. j \in 0..Len(some) /\ j \in Nat /\ k = j + 1 /\ k \in 1..Len(some) /\ ~ (k <= j)
      BY <1>0, <2>2, <2>4
    <3>2. After(j) = WithSelected(b, m, T)
      <4>1. j \notin Wrong
        <5> HIDE DEF Wrong, j
        <5> QED BY <2>1, <3>1
      <4> QED BY <3>1, <4>1
    <3>3. e \in TableRelations /\ s \in Seq(TableRelations)
      BY <1>0, <3>1
    <3>4. SubSeq(some, 1, k) = Append(s, e)
      BY <1>0, <3>1
    <3>5. After(k) = Adding(b)[<<After(j), e>>]
      <4> HIDE DEF s, e, j
      <4>1. Fold(Adding(b), first, Append(s, e)) = Adding(b)[<<Fold(Adding(b), first, s), e>>]
        BY <3>3, FoldNext
      <4> QED BY <3>4, <4>1 DEF s
    <3>6. After(k) = AlsoDeleted(b, WithSelected(b, m, T), e)
      <4>1. WithSelected(b, m, T) \in SUBSET AllRows
        BY DEF WithSelected
      <4> HIDE DEF e, T, After
      <4> QED BY <3>2, <3>3, <3>5, <4>1, AddingType
    <3>7. m.table \in T /\ e.parent \in T /\ e.table \notin T
      BY <1>v, <1>r, <3>1
    <3>8. \A t \in T : t = m.table \/ (t = "child" /\ "t" \in T) \/ (t = "grandchild" /\ "child" \in T)
      <4> SUFFICES ASSUME NEW t \in T, t # m.table
                   PROVE  (t = "child" /\ "t" \in T) \/ (t = "grandchild" /\ "child" \in T)
        OBVIOUS
      <4>1. PICK i \in 1..j : t = some[i].table
        BY <1>r
      <4>2. i \in 1..Len(some) /\ some[i] \in TableRelations
        BY <1>0, <3>1, <4>1
      <4>3. some[i].parent \in Reached(m, i - 1)
        BY <1>v, <4>2
      <4>4. Reached(m, i - 1) \subseteq T
        <5>1. 1..(i - 1) \subseteq 1..j
          BY <3>1, <4>1
        <5> QED BY <1>r, <5>1
      <4> QED BY <4>1, <4>2, <4>3, <4>4 DEF TableRelations
    <3>9. AlsoDeleted(b, WithSelected(b, m, T), e) = WithSelected(b, m, T \cup {e.table})
      <4> HIDE DEF T, e
      <4> QED BY <3>3, <3>7, <3>8, RelationAdds
    <3>10. T \cup {e.table} = Reached(m, k)
      <4>1. 1..k = 1..j \cup {k}
        BY <3>1
      <4> QED BY <1>r, <4>1
    <3> QED BY <2>2, <3>6, <3>9, <3>10
  <2> QED BY <2>3, <2>4
<1>2. Len(some) \notin Wrong /\ Len(some) \in 0..Len(some)
  BY <1>0, <1>1
<1>3. SubSeq(some, 1, Len(some)) = some
  BY <1>0
<1>4. DeletedWith(m, b) = Fold(Adding(b), first, some)
  BY DeletedWithIs DEF some, first
<1> QED BY <1>2, <1>3, <1>4 DEF some

LEMMA MeantAre ==
  ASSUME NEW b \in SUBSET AllRows, NEW m, m.relations \in Seq(TableRelations)
  PROVE  Meant("postgresql", b, m) = WithSelected(b, m, Reached(m, Len(m.relations)))
<1> DEFINE T == Reached(m, Len(m.relations))
           up(s) == s \cup {p \in b : p.table \in T /\ \E c \in s : p.id = c.parent}
<1>1. T = {m.table} \cup {m.relations[i].table : i \in DOMAIN m.relations}
  BY DEF Reached
<1>2. \A r : Line(r, m, b) = IF r.table \in T THEN up(up({r})) ELSE {}
  BY <1>1 DEF Line
<1>3. \A r : Selected(r, m) => r.table \in T
  BY <1>1 DEF Selected
<1> HIDE DEF T
<1>4. ASSUME NEW r \in b, r.table \in T
      PROVE  up(up({r})) = {r} \cup {p \in b : p.table \in T /\ p.id = r.parent}
                              \cup {q \in b : q.table \in T /\ \E p \in b : p.table \in T /\ p.id = r.parent /\ q.id = p.parent}
  <2>1. up({r}) = {r} \cup {p \in b : p.table \in T /\ p.id = r.parent}
    OBVIOUS
  <2> QED BY <2>1
<1>5. ASSUME NEW r \in b
      PROVE  (\E p \in Line(r, m, b) : Selected(p, m)) <=> r \in WithSelected(b, m, T)
  <2>1. CASE r.table \in T
    <3> HIDE DEF up
    <3>1. Line(r, m, b) = up(up({r}))
      BY <1>2, <2>1
    <3>2. \A p : p \in Line(r, m, b) <=>
             \/ p = r
             \/ p \in b /\ p.table \in T /\ p.id = r.parent
             \/ p \in b /\ p.table \in T /\ \E q \in b : q.table \in T /\ q.id = r.parent /\ p.id = q.parent
      BY <1>4, <2>1, <3>1
    <3>3. (\E p \in Line(r, m, b) : Selected(p, m)) <=>
             \/ Selected(r, m)
             \/ \E p \in b : p.table \in T /\ p.id = r.parent /\ Selected(p, m)
             \/ \E p \in b : /\ p.table \in T /\ Selected(p, m)
                             /\ \E q \in b : q.table \in T /\ q.id = r.parent /\ p.id = q.parent
      BY <3>2, Zenon
    <3>4. r \in WithSelected(b, m, T) <=>
             \/ Selected(r, m)
             \/ \E p \in b : /\ p.id = r.parent /\ p.table \in T
                             /\ Selected(p, m) \/ \E q \in b : q.id = p.parent /\ q.table \in T /\ Selected(q, m)
      BY <2>1 DEF WithSelected
    <3> QED BY <3>3, <3>4, Zenon
  <2>2. CASE r.table \notin T
    BY <1>2, <2>2 DEF WithSelected
  <2> QED BY <2>1, <2>2
<1>6. Meant("postgresql", b, m) = {r \in b : \E p \in Line(r, m, b) : Selected(p, m)}
  BY DEF Meant
<1>7. WithSelected(b, m, T) \subseteq b
  BY DEF WithSelected
<1> QED BY <1>5, <1>6, <1>7 DEF T

\* A statement that can be made deletes what its message means.
LEMMA AfterDeleteIs ==
  ASSUME NEW b \in SUBSET AllRows, NEW m \in Messages, CanDelete(m)
  PROVE  AfterDelete(m, b) = b \ Meant(deleter, b, m)
<1>1. m.relations \in Seq(TableRelations)
  BY DeletionsAssumption
<1>2. CASE deleter = "postgresql"
  <2>1. ValidRelations(m)
    BY <1>2 DEF CanDelete
  <2> QED BY <1>1, <1>2, <2>1, DeletedAre, MeantAre DEF AfterDelete
<1>3. CASE deleter # "postgresql"
  BY <1>3 DEF AfterDelete, Meant
<1> QED BY <1>2, <1>3

\* The statements of some messages that can all be made delete what the
\* messages mean, one after the other.
DeleteStep(some, g, r) ==
  IF r = {} THEN rows ELSE AfterDelete(some[Max(r)], g[r \ {Max(r)}])

LEMMA DeleteAllIs ==
  ASSUME rows \in SUBSET AllRows, NEW some \in Seq(Messages), \A i \in DOMAIN some : CanDelete(some[i])
  PROVE  DeleteAll(some) = Left(deleter, rows, some)
<1> DEFINE Is(g) == g = [r \in SUBSET DOMAIN some |-> DeleteStep(some, g, r)]
           f == CHOOSE g : Is(g)
<1>1. DeleteAll(some) = f[DOMAIN some]
  BY DEF DeleteAll, FoldLeft, MapThenFoldSet, DeleteStep
<1>2. PICK h : Folds(h, Meaning(deleter), rows, some) /\ Fold(Meaning(deleter), rows, some) = h[DOMAIN some]
  BY FoldOf
<1>3. ASSUME NEW r \in SUBSET DOMAIN some
      PROVE  h[r] = LeftStep(deleter, rows, some, h, r) /\ h[r] \in SUBSET AllRows
  <2>1. Folds(h, Meaning(deleter), rows, some)
    BY <1>2
  <2> QED BY <2>1, MeaningSteps
<1>4. ASSUME NEW r \in SUBSET DOMAIN some PROVE h[r] = DeleteStep(some, h, r)
  <2>1. CASE r = {}
    BY <1>3, <2>1 DEF LeftStep, DeleteStep
  <2>2. CASE r # {}
    <3> DEFINE c == h[r \ {Max(r)}]
               m == some[Max(r)]
    <3>1. m \in Messages /\ Max(r) \in DOMAIN some /\ r \ {Max(r)} \in SUBSET DOMAIN some
      BY <2>2, LastPosition
    <3>2. c \in SUBSET AllRows /\ CanDelete(m)
      BY <1>3, <3>1
    <3>3. h[r] = c \ Meant(deleter, c, m)
      BY <1>3, <2>2 DEF LeftStep
    <3>4. AfterDelete(m, c) = c \ Meant(deleter, c, m)
      <4> HIDE DEF c, m
      <4> QED BY <3>1, <3>2, AfterDeleteIs
    <3> QED BY <2>2, <3>3, <3>4 DEF DeleteStep
  <2> QED BY <2>1, <2>2
<1>5. h = [r \in SUBSET DOMAIN some |-> h[r]]
  BY <1>2 DEF Folds
<1>6. Is(h)
  BY <1>4, <1>5
<1>7. Is(f)
  <2> HIDE DEF Is
  <2> QED BY <1>6
<1>8. \A r \in SUBSET DOMAIN some : f[r] = DeleteStep(some, f, r)
  <2> HIDE DEF f
  <2>1. f = [r \in SUBSET DOMAIN some |-> DeleteStep(some, f, r)]
    BY <1>7
  <2> QED BY <2>1
<1> HIDE DEF f
<1>9. f[{}] = h[{}]
  BY <1>4, <1>8 DEF DeleteStep
<1>10. \A r \in SUBSET DOMAIN some : r # {} /\ f[r \ {Max(r)}] = h[r \ {Max(r)}] => f[r] = h[r]
  BY <1>4, <1>8 DEF DeleteStep
<1>11. f[DOMAIN some] = h[DOMAIN some]
  <2> HIDE DEF Is
  <2> QED BY <1>9, <1>10, SameFolds
<1>12. Left(deleter, rows, some) = Fold(Meaning(deleter), rows, some)
  BY LeftIs
<1> QED BY <1>1, <1>2, <1>11, <1>12

\* What is left after the first n messages, one message after the other.
LEMMA LeftFirst ==
  ASSUME NEW d, NEW first \in SUBSET AllRows, NEW some \in Seq(Messages)
  PROVE  /\ Left(d, first, SubSeq(some, 1, 0)) = first
         /\ SubSeq(some, 1, Len(some)) = some
         /\ \A n \in 0..Len(some) : Left(d, first, SubSeq(some, 1, n)) \in SUBSET AllRows
         /\ \A n \in 1..Len(some) :
              LET b == Left(d, first, SubSeq(some, 1, n - 1))
              IN  Left(d, first, SubSeq(some, 1, n)) = b \ Meant(d, b, some[n])
<1>1. SubSeq(some, 1, 0) = << >> /\ SubSeq(some, 1, Len(some)) = some
  OBVIOUS
<1>2. Left(d, first, SubSeq(some, 1, 0)) = first
  BY <1>1, LeftNothing
<1>3. ASSUME NEW n \in 0..Len(some) PROVE Left(d, first, SubSeq(some, 1, n)) \in SUBSET AllRows
  <2>1. SubSeq(some, 1, n) \in Seq(Messages)
    OBVIOUS
  <2> QED BY <2>1, LeftIn
<1>4. ASSUME NEW n \in 1..Len(some)
      PROVE  Left(d, first, SubSeq(some, 1, n)) =
               Left(d, first, SubSeq(some, 1, n - 1)) \ Meant(d, Left(d, first, SubSeq(some, 1, n - 1)), some[n])
  <2> DEFINE s == SubSeq(some, 1, n - 1)
             m == some[n]
  <2>1. s \in Seq(Messages) /\ m \in Messages /\ SubSeq(some, 1, n) = Append(s, m)
    OBVIOUS
  <2> HIDE DEF s, m
  <2>2. Left(d, first, Append(s, m)) = Left(d, first, s) \ Meant(d, Left(d, first, s), m)
    BY <2>1, LeftNext
  <2> QED BY <2>1, <2>2 DEF s, m
<1> QED BY <1>1, <1>2, <1>3, <1>4

-----------------------------------------------------------------------------
(* The inductive invariant. *)

DeleteInv ==
  /\ atFirst = AllRows
  /\ messages \in Seq(Messages) /\ next \in 1..(Len(messages) + 1)
  /\ fate \in {"none", "deleting", "deleted", "failed"}
  /\ fate = "none" => messages = << >> /\ rows = atFirst
  /\ fate = "deleting" => messages # << >> /\ rows = Expected(next - 1) /\ (deleter = "postgresql" => next = 1)
  /\ fate = "deleted" => rows = Expected(Len(messages))
  /\ fate = "failed" => /\ \E n \in 0..Len(messages) : rows = Expected(n)
                        /\ deleter = "postgresql" => rows \in {atFirst, Expected(Len(messages))}

LEMMA DeleteInitInv == DeleteInit => DeleteInv
<1> SUFFICES ASSUME DeleteInit PROVE DeleteInv
  OBVIOUS
<1> DEFINE e == << >>
<1>1. e \in Seq(Messages) /\ Len(e) = 0
  OBVIOUS
<1> HIDE DEF e
<1>2. atFirst = AllRows /\ rows = AllRows /\ messages = e /\ next = 1 /\ fate = "none"
  BY DEF DeleteInit, e
<1> QED BY <1>1, <1>2 DEF DeleteInv, e

LEMMA DeleteNextInv ==
  ASSUME DeleteInv, [DeleteNext]_deleteVars
  PROVE  DeleteInv'
<1> DEFINE n == Len(messages)
<1>0. /\ atFirst \in SUBSET AllRows /\ atFirst = AllRows /\ messages \in Seq(Messages)
      /\ n \in Nat /\ DOMAIN messages = 1..n /\ next \in 1..(n + 1)
  BY DEF DeleteInv
<1>f. /\ Expected(0) = atFirst
      /\ SubSeq(messages, 1, n) = messages
      /\ \A i \in 0..n : Expected(i) \in SUBSET AllRows
      /\ \A i \in 1..n : Expected(i) = Expected(i - 1) \ Meant(deleter, Expected(i - 1), messages[i])
  BY <1>0, LeftFirst DEF Expected
<1>1. CASE BeginDelete
  <2>1. messages' \in Seq(Messages) /\ messages' # << >>
    BY <1>1 DEF BeginDelete, SeqOf
  <2>2. rows = atFirst /\ next = 1
    BY <1>1 DEF DeleteInv, BeginDelete
  <2>3. UNCHANGED <<deleter, rows, atFirst, next>> /\ fate' = "deleting"
    BY <1>1 DEF BeginDelete
  <2>4. Left(deleter, atFirst, SubSeq(messages', 1, 0)) = atFirst
    BY <1>0, <2>1, LeftFirst
  <2>5. rows' = Expected(next - 1)'
    BY <2>2, <2>3, <2>4 DEF Expected
  <2>6. Len(messages') \in Nat
    BY <2>1
  <2> QED BY <1>0, <2>1, <2>2, <2>3, <2>5, <2>6 DEF DeleteInv
<1>2. CASE DeleteBatch
  <2>1. fate = "deleting" /\ deleter = "postgresql" /\ rows' = DeleteAll(messages) /\ fate' = "deleted"
        /\ UNCHANGED <<deleter, atFirst, messages, next>> /\ \A i \in DOMAIN messages : CanDelete(messages[i])
    BY <1>2 DEF DeleteBatch
  <2>2. rows = atFirst
    BY <1>f, <2>1 DEF DeleteInv
  <2>3. DeleteAll(messages) = Left(deleter, rows, messages)
    BY <1>0, <2>1, <2>2, DeleteAllIs
  <2>4. rows' = Expected(n)'
    BY <1>f, <2>1, <2>2, <2>3 DEF Expected
  <2> QED BY <1>0, <2>1, <2>4 DEF DeleteInv
<1>3. CASE DeleteOne
  <2>1. fate = "deleting" /\ deleter # "postgresql" /\ rows' = AfterDelete(messages[next], rows) /\ next' = next + 1
        /\ UNCHANGED <<deleter, atFirst, messages, fate>> /\ next \in DOMAIN messages /\ CanDelete(messages[next])
    BY <1>3 DEF DeleteOne
  <2>2. rows = Expected(next - 1) /\ messages # << >>
    BY <2>1 DEF DeleteInv
  <2>3. rows \in SUBSET AllRows /\ messages[next] \in Messages
    BY <1>0, <1>f, <2>1, <2>2
  <2>4. rows' = rows \ Meant(deleter, rows, messages[next])
    BY <2>1, <2>3, AfterDeleteIs
  <2>5. rows' = Expected(next)
    BY <1>0, <1>f, <2>1, <2>2, <2>4
  <2>6. rows' = Expected(next - 1)'
    BY <1>0, <2>1, <2>5 DEF Expected
  <2> QED BY <1>0, <2>1, <2>2, <2>6 DEF DeleteInv
<1>4. CASE EndDelete
  <2>1. fate = "deleting" /\ next \notin DOMAIN messages /\ fate' = "deleted"
        /\ UNCHANGED <<deleter, rows, atFirst, messages, next>>
    BY <1>4 DEF EndDelete
  <2>2. rows = Expected(next - 1) /\ next = n + 1
    BY <1>0, <2>1 DEF DeleteInv
  <2>3. rows' = Expected(n)'
    BY <1>0, <2>1, <2>2 DEF Expected
  <2> QED BY <1>0, <2>1, <2>3 DEF DeleteInv
<1>5. CASE DeleteFailed
  <2> DEFINE sending == IF deleter = "postgresql" THEN messages ELSE <<messages[next]>>
  <2>1. fate = "deleting" /\ next \in DOMAIN messages /\ fate' = "failed"
        /\ UNCHANGED <<deleter, atFirst, messages, next>>
        /\ (rows' = rows \/ ((\A m \in Range(sending) : CanDelete(m)) /\ rows' = DeleteAll(sending)))
    BY <1>5 DEF DeleteFailed
  <2>2. rows = Expected(next - 1) /\ (deleter = "postgresql" => next = 1)
    BY <2>1 DEF DeleteInv
  <2>3. rows \in SUBSET AllRows /\ messages[next] \in Messages
    BY <1>0, <1>f, <2>1, <2>2
  <2>4. CASE rows' = rows
    <3>1. rows' = Expected(next - 1)' /\ next - 1 \in 0..n
      BY <1>0, <2>1, <2>2, <2>4 DEF Expected
    <3>2. deleter = "postgresql" => rows' = atFirst'
      BY <1>f, <2>1, <2>2, <2>4
    <3>3. \E i \in 0..n : rows' = Expected(i)'
      BY <2>1, <3>1 DEF Expected
    <3> QED BY <1>0, <2>1, <3>2, <3>3 DEF DeleteInv
  <2>5. CASE (\A m \in Range(sending) : CanDelete(m)) /\ rows' = DeleteAll(sending)
    <3>1. sending \in Seq(Messages)
      BY <1>0, <2>3
    <3>2. \A i \in DOMAIN sending : CanDelete(sending[i])
      BY <2>5 DEF Range
    <3>3. DeleteAll(sending) = Left(deleter, rows, sending)
      <4> HIDE DEF sending
      <4> QED BY <2>3, <3>1, <3>2, DeleteAllIs
    <3>4. CASE deleter = "postgresql"
      <4>1. rows' = Left(deleter, atFirst, messages)
        BY <1>f, <2>2, <2>5, <3>3, <3>4
      <4>2. rows' = Expected(n)'
        BY <1>f, <2>1, <4>1 DEF Expected
      <4>3. \E i \in 0..n : rows' = Expected(i)'
        BY <1>0, <2>1, <4>2 DEF Expected
      <4> QED BY <1>0, <2>1, <4>2, <4>3 DEF DeleteInv
    <3>5. CASE deleter # "postgresql"
      <4>1. rows' = Left(deleter, rows, <<messages[next]>>)
        BY <2>5, <3>3, <3>5
      <4>2. rows' = rows \ Meant(deleter, rows, messages[next])
        BY <2>3, <4>1, LeftOne
      <4>3. rows' = Expected(next)
        BY <1>0, <1>f, <2>1, <2>2, <4>2
      <4>4. \E i \in 0..n : rows' = Expected(i)'
        BY <1>0, <2>1, <4>3 DEF Expected
      <4> QED BY <1>0, <2>1, <3>5, <4>4 DEF DeleteInv
    <3> QED BY <3>4, <3>5
  <2> QED BY <2>1, <2>4, <2>5
<1>6. CASE UNCHANGED deleteVars
  <2>1. UNCHANGED <<deleter, rows, atFirst, messages, next, fate>>
    BY <1>6 DEF deleteVars
  <2> QED BY <2>1 DEF DeleteInv, Expected
<1> QED BY <1>1, <1>2, <1>3, <1>4, <1>5, <1>6 DEF DeleteNext

LEMMA DeleteInvMeans == DeleteInv => DeletesMeant
<1> SUFFICES ASSUME DeleteInv PROVE DeletesMeant
  OBVIOUS
<1> DEFINE n == Len(messages)
<1>0. atFirst \in SUBSET AllRows /\ messages \in Seq(Messages) /\ n \in Nat /\ next \in 1..(n + 1)
  BY DEF DeleteInv
<1>1. Expected(0) = atFirst
  BY <1>0, LeftFirst DEF Expected
<1>2. \E i \in 0..n : rows = Expected(i)
  BY <1>0, <1>1 DEF DeleteInv
<1>3. deleter = "postgresql" => rows \in {atFirst, Expected(n)}
  BY <1>0, <1>1 DEF DeleteInv
<1> QED BY <1>2, <1>3 DEF DeleteInv, DeletesMeant

\* The invariant of the deletions.
THEOREM DeleteInvariant == DeleteSpec => []DeleteInv
BY DeleteInitInv, DeleteNextInv, PTL DEF DeleteSpec

\* A batch of deletions that succeeds has deleted exactly what its messages
\* select one after the other and, on postgresql, what hangs from it in the
\* tables of the relations; one that fails has deleted what the first
\* messages meant, on postgresql all or nothing. For every set of messages
\* and every length of the batch.
THEOREM DeletesAreMeant == DeleteSpec => []DeletesMeant
BY DeleteInvariant, DeleteInvMeans, PTL

-----------------------------------------------------------------------------
(* Transformers: lists, of elements that need not be of a set. *)

IsList(s, n) == n \in Nat /\ s = [i \in 1..n |-> s[i]]

LEMMA ListIs ==
  ASSUME NEW n \in Nat, NEW s, s = [i \in 1..n |-> s[i]]
  PROVE  /\ s \in Seq({s[i] : i \in 1..n}) /\ Len(s) = n /\ DOMAIN s = 1..n
         /\ s = << >> <=> n = 0
<1>1. s \in [1..n -> {s[i] : i \in 1..n}]
  OBVIOUS
<1>2. s \in Seq({s[i] : i \in 1..n})
  BY <1>1
<1>3. DOMAIN s = 1..n /\ Len(s) = n
  BY <1>1, <1>2
<1>4. s = << >> <=> n = 0
  BY <1>2, <1>3
<1> QED BY <1>2, <1>3, <1>4

LEMMA EmptyList == \A f : DOMAIN f = {} /\ f = [i \in {} |-> f[i]] => f = << >>
<1> TAKE f
<1> HAVE DOMAIN f = {} /\ f = [i \in {} |-> f[i]]
<1>1. f = [i \in 1..0 |-> f[i]]
  OBVIOUS
<1> QED BY <1>1, ListIs

LEMMA AppendIs ==
  ASSUME NEW n \in Nat, NEW s, s = [i \in 1..n |-> s[i]], NEW x
  PROVE  Append(s, x) = [i \in 1..n + 1 |-> IF i = n + 1 THEN x ELSE s[i]]
<1> DEFINE S == {s[i] : i \in 1..n} \cup {x}
<1>1. s \in [1..n -> S] /\ x \in S
  OBVIOUS
<1> HIDE DEF S
<1>2. s \in Seq(S) /\ Len(s) = n
  BY <1>1
<1>3. Append(s, x) \in Seq(S) /\ Len(Append(s, x)) = n + 1
      /\ \A i \in 1..n + 1 : Append(s, x)[i] = IF i = n + 1 THEN x ELSE s[i]
  BY <1>1, <1>2
<1>4. Append(s, x) = [i \in 1..n + 1 |-> Append(s, x)[i]]
  BY <1>3
<1> QED BY <1>3, <1>4

LEMMA JoinIs ==
  ASSUME NEW m \in Nat, NEW s, s = [i \in 1..m |-> s[i]], NEW n \in Nat, NEW t, t = [i \in 1..n |-> t[i]]
  PROVE  s \o t = [i \in 1..m + n |-> IF i <= m THEN s[i] ELSE t[i - m]]
<1> DEFINE S == {s[i] : i \in 1..m} \cup {t[i] : i \in 1..n}
<1>1. s \in [1..m -> S] /\ t \in [1..n -> S]
  OBVIOUS
<1> HIDE DEF S
<1>2. s \in Seq(S) /\ Len(s) = m /\ t \in Seq(S) /\ Len(t) = n
  BY <1>1
<1>3. s \o t \in Seq(S) /\ Len(s \o t) = m + n
      /\ \A i \in 1..m + n : (s \o t)[i] = IF i <= m THEN s[i] ELSE t[i - m]
  BY <1>2
<1>4. s \o t = [i \in 1..m + n |-> (s \o t)[i]]
  BY <1>3
<1> QED BY <1>3, <1>4

-----------------------------------------------------------------------------
(* Records. *)

Rec(n, s, c, w) == [name |-> n, sensitive |-> s, columns |-> c, row |-> w]

IsColumn(c) ==
  c = [name |-> c.name, type |-> c.type, null |-> c.null, pk |-> c.pk, unique |-> c.unique, of |-> c.of, keys |-> c.keys]
IsCell(c) == c = [of |-> c.of, type |-> c.type, parts |-> c.parts]

\* The columns, and a row with the cell of each.
ColumnsTyped(c, n) == n \in Nat \ {0} /\ c = [i \in 1..n |-> c[i]] /\ \A i \in 1..n : IsColumn(c[i])
RowFits(w, c, n) ==
  w # << >> => /\ w = [i \in 1..n |-> w[i]]
               /\ \A i \in 1..n : IsCell(w[i]) /\ w[i].of = c[i].of /\ w[i].type = c[i].type

\* The columns that are sensitive, or have sensitive paths.
NamesIn(refs) == {c[1] : c \in refs}

Fitting(r) ==
  /\ r = Rec(r.name, r.sensitive, r.columns, r.row) /\ "added" \notin NamesIn(r.sensitive)
  /\ ColumnsTyped(r.columns, Len(r.columns)) /\ RowFits(r.row, r.columns, Len(r.columns))

LEMMA RecordFields ==
  ASSUME NEW n, NEW s, NEW c, NEW w
  PROVE  /\ Rec(n, s, c, w).name = n /\ Rec(n, s, c, w).sensitive = s
         /\ Rec(n, s, c, w).columns = c /\ Rec(n, s, c, w).row = w
         /\ Rec(n, s, c, w) # Failed
         /\ EmptyRecord(Rec(n, s, c, w)) = Rec(n, s, c, << >>)
<1>1. "sensitive" \in DOMAIN Rec(n, s, c, w) /\ "sensitive" \notin DOMAIN Failed
  BY DEF Rec, Failed
<1>2. EmptyRecord(Rec(n, s, c, w)) = Rec(n, s, c, << >>)
  BY DEF EmptyRecord, Rec
<1> QED BY <1>1, <1>2 DEF Rec

LEMMA FittingRecord ==
  ASSUME NEW n, NEW s, "added" \notin NamesIn(s), NEW m \in Nat \ {0}, NEW c, NEW w, ColumnsTyped(c, m), RowFits(w, c, m)
  PROVE  Fitting(Rec(n, s, c, w))
<1>1. Len(c) = m
  BY ListIs DEF ColumnsTyped
<1> QED BY <1>1, RecordFields DEF Fitting

LEMMA EmptyFits ==
  ASSUME NEW r, Fitting(r)
  PROVE  /\ EmptyRecord(r) = Rec(r.name, r.sensitive, r.columns, << >>)
         /\ EmptyRecord(r).name = r.name /\ EmptyRecord(r).sensitive = r.sensitive
         /\ EmptyRecord(r).columns = r.columns /\ EmptyRecord(r).row = << >>
         /\ EmptyRecord(r) # Failed /\ r # Failed
         /\ Columns(r) = 1..Len(r.columns) /\ Len(r.columns) \in Nat \ {0}
         /\ (r.row # << >> => DOMAIN r.row = 1..Len(r.columns))
<1> DEFINE n == r.name s == r.sensitive c == r.columns w == r.row
<1>1. r = Rec(n, s, c, w)
  BY DEF Fitting
<1>2. DOMAIN r.columns = 1..Len(r.columns) /\ Len(r.columns) \in Nat \ {0}
  BY DEF Fitting, ColumnsTyped
<1>3. r.row # << >> => DOMAIN r.row = 1..Len(r.columns)
  BY DEF Fitting, RowFits
<1>4. EmptyRecord(Rec(n, s, c, w)) = Rec(n, s, c, << >>) /\ Rec(n, s, c, w) # Failed
  BY RecordFields
<1>5. EmptyRecord(r) = Rec(n, s, c, << >>) /\ r # Failed
  <2> HIDE DEF n, s, c, w
  <2> QED BY <1>1, <1>4
<1>6. /\ Rec(n, s, c, << >>).name = n /\ Rec(n, s, c, << >>).sensitive = s /\ Rec(n, s, c, << >>).columns = c
      /\ Rec(n, s, c, << >>).row = << >> /\ Rec(n, s, c, << >>) # Failed
  BY RecordFields
<1> QED BY <1>2, <1>3, <1>5, <1>6 DEF Columns

-----------------------------------------------------------------------------
(* What becomes of cells. *)

(* A cell may lose or keep its parts ("quiet"), or become the text "(null)" *)
(* ("lossy"); parts may move to other keys ("shifted"), and become upper case *)
(* as well ("loud").                                                        *)

Quiet == "quiet"
Lossy == "lossy"
Shifted == "shifted"
Loud  == "loud"

MarksIn(way)   == IF way = Lossy THEN {"hidden", "(null)"} ELSE {"hidden"}
LettersIn(way) == IF way = Loud THEN Letters ELSE {"clear"}
Moves(way)     == way \in {Shifted, Loud}

\* What the part v may be, if the part w was it.
Becomes(v, w, way) == v.at = w.at /\ (v = w \/ (v.is \in LettersIn(way) /\ w.is \in Letters))

\* Every part of new is a mark, or what has become of some part of old.
From(new, old, way) ==
  \A k \in DOMAIN new :
    \/ new[k].is \in MarksIn(way)
    \/ \E l \in DOMAIN old : (k = l \/ Moves(way)) /\ Becomes(new[k], old[l], way)

LEMMA FromItself == \A p, way : From(p, p, way)
BY DEF From, Becomes

LEMMA BecomesAgain ==
  ASSUME NEW u, NEW v, NEW w, NEW way, Becomes(u, v, way), Becomes(v, w, way)
  PROVE  Becomes(u, w, way)
<1>1. u.at = w.at
  BY DEF Becomes
<1>2. LettersIn(way) \subseteq Letters
  BY DEF LettersIn, Letters
<1>3. CASE u = v
  BY <1>3
<1>4. CASE u.is \in LettersIn(way) /\ v.is \in Letters
  <2>1. w.is \in Letters
    BY <1>4 DEF Becomes
  <2> QED BY <1>1, <1>4, <2>1 DEF Becomes
<1> QED BY <1>3, <1>4 DEF Becomes

LEMMA FromAgain ==
  ASSUME NEW p, NEW q, NEW o, NEW way, From(p, q, way), From(q, o, way)
  PROVE  From(p, o, way)
<1>1. \A m \in MarksIn(way) : m \notin Letters
  BY DEF MarksIn, Letters
<1> SUFFICES ASSUME NEW k \in DOMAIN p, p[k].is \notin MarksIn(way)
             PROVE  \E l \in DOMAIN o : (k = l \/ Moves(way)) /\ Becomes(p[k], o[l], way)
  BY DEF From
<1>2. PICK l \in DOMAIN q : (k = l \/ Moves(way)) /\ Becomes(p[k], q[l], way)
  BY DEF From
<1>3. q[l].is \notin MarksIn(way)
  BY <1>1, <1>2 DEF Becomes
<1>4. PICK m \in DOMAIN o : (l = m \/ Moves(way)) /\ Becomes(q[l], o[m], way)
  BY <1>3 DEF From
<1>5. Becomes(p[k], o[m], way)
  BY <1>2, <1>4, BecomesAgain
<1> QED BY <1>2, <1>4, <1>5

\* x is r with other parts in its cells.
Touched(x, r, way) ==
  /\ x = Rec(r.name, r.sensitive, r.columns, x.row)
  /\ DOMAIN x.row = DOMAIN r.row /\ x.row = [i \in DOMAIN r.row |-> x.row[i]]
  /\ \A i \in DOMAIN r.row :
       /\ IsCell(x.row[i]) /\ x.row[i].of = r.row[i].of /\ x.row[i].type = r.row[i].type
       /\ From(x.row[i].parts, r.row[i].parts, way)

\* Every cell of x was added, or is what has become of one of r.
Descends(x, r, way) ==
  /\ x.sensitive = r.sensitive
  /\ \A i \in DOMAIN x.row :
       \/ x.row[i].of = "added" /\ From(x.row[i].parts, [rest |-> Was("rest", "clear")], way)
       \/ \E j \in DOMAIN r.row : x.row[i].of = r.row[j].of /\ From(x.row[i].parts, r.row[j].parts, way)

LEMMA TouchedFits ==
  ASSUME NEW r, Fitting(r), NEW x, NEW way, Touched(x, r, way)
  PROVE  /\ Fitting(x) /\ EmptyRecord(x) = EmptyRecord(r) /\ Descends(x, r, way) /\ x.columns = r.columns
         /\ (r.row = << >> => x = EmptyRecord(r))
<1> DEFINE n == r.name s == r.sensitive c == r.columns w == x.row m == Len(r.columns)
<1>1. x = Rec(n, s, c, w) /\ "added" \notin NamesIn(s) /\ m \in Nat \ {0} /\ ColumnsTyped(c, m)
  BY DEF Touched, Fitting, ColumnsTyped
<1>2. RowFits(w, c, m)
  <2>1. CASE r.row = << >>
    <3>1. DOMAIN w = {} /\ w = [i \in {} |-> w[i]]
      BY <2>1 DEF Touched
    <3> QED BY <3>1, EmptyList DEF RowFits
  <2>2. CASE r.row # << >>
    <3>1. DOMAIN r.row = 1..m
      BY <2>2, EmptyFits
    <3>2. \A i \in 1..m : r.row[i].of = c[i].of /\ r.row[i].type = c[i].type
      BY <2>2 DEF Fitting, RowFits
    <3> QED BY <3>1, <3>2 DEF RowFits, Touched
  <2> QED BY <2>1, <2>2
<1>3. Descends(x, r, way)
  <2>1. x.sensitive = r.sensitive
    <3> HIDE DEF n, s, c, w
    <3>1. x.sensitive = s
      BY <1>1, RecordFields
    <3> QED BY <3>1 DEF s
  <2> QED BY <2>1 DEF Descends, Touched
<1>4. EmptyRecord(r) = Rec(n, s, c, << >>)
  BY EmptyFits
<1>5. r.row = << >> => w = << >>
  BY EmptyList DEF Touched
<1>6. Fitting(x) /\ EmptyRecord(x) = EmptyRecord(r) /\ x.columns = c /\ (w = << >> => x = EmptyRecord(r))
  <2> HIDE DEF n, s, c, w, m
  <2>1. Fitting(Rec(n, s, c, w))
    BY <1>1, <1>2, FittingRecord
  <2> QED BY <2>1, <1>1, <1>4, RecordFields
<1> QED BY <1>3, <1>5, <1>6

LEMMA TouchedAgain ==
  ASSUME NEW r, NEW y, NEW x, NEW way, Touched(y, r, way), Touched(x, y, way)
  PROVE  Touched(x, r, way)
<1> DEFINE n == r.name s == r.sensitive c == r.columns w == y.row
<1>1. y.name = n /\ y.sensitive = s /\ y.columns = c
  <2>1. y = Rec(n, s, c, w)
    BY DEF Touched
  <2> HIDE DEF n, s, c, w
  <2> QED BY <2>1, RecordFields
<1>2. ASSUME NEW i \in DOMAIN r.row PROVE From(x.row[i].parts, r.row[i].parts, way)
  <2>1. From(x.row[i].parts, y.row[i].parts, way) /\ From(y.row[i].parts, r.row[i].parts, way)
    BY DEF Touched
  <2> QED BY <2>1, FromAgain
<1> QED BY <1>1, <1>2 DEF Touched

\* r with the parts g in the cells of which.
Through(r, which, g) ==
  [r EXCEPT !.row = [i \in DOMAIN r.row |-> IF i \in which THEN [r.row[i] EXCEPT !.parts = g[i]] ELSE r.row[i]]]
AllFrom(g, r, way) == \A i \in DOMAIN r.row : From(g[i], r.row[i].parts, way)

LEMMA CellsThrough ==
  ASSUME NEW r, Fitting(r), NEW which, NEW way, NEW g, AllFrom(g, r, way)
  PROVE  Touched(Through(r, which, g), r, way)
<1> DEFINE w == [i \in DOMAIN r.row |-> IF i \in which THEN [r.row[i] EXCEPT !.parts = g[i]] ELSE r.row[i]]
           x == [r EXCEPT !.row = w]
<1>1. ASSUME NEW i \in DOMAIN r.row
      PROVE  /\ IsCell(w[i]) /\ w[i].of = r.row[i].of /\ w[i].type = r.row[i].type
             /\ From(w[i].parts, r.row[i].parts, way)
  <2>0. From(g[i], r.row[i].parts, way)
    BY DEF AllFrom
  <2>1. r.row # << >>
    OBVIOUS
  <2>2. IsCell(r.row[i])
    BY <2>1, EmptyFits DEF Fitting, RowFits
  <2>3. CASE i \in which
    <3>1. w[i] = [r.row[i] EXCEPT !.parts = g[i]]
      BY <2>3
    <3> HIDE DEF w
    <3>2. w[i] = [of |-> r.row[i].of, type |-> r.row[i].type, parts |-> g[i]]
      BY <2>2, <3>1 DEF IsCell
    <3> QED BY <2>0, <3>2 DEF IsCell
  <2>4. CASE i \notin which
    <3>1. w[i] = r.row[i]
      BY <2>4
    <3> HIDE DEF w
    <3> QED BY <2>2, <3>1, FromItself
  <2> QED BY <2>3, <2>4
<1>2. DOMAIN w = DOMAIN r.row /\ w = [i \in DOMAIN r.row |-> w[i]]
  OBVIOUS
<1>3. x = Rec(r.name, r.sensitive, r.columns, w)
  <2> HIDE DEF w
  <2> QED BY DEF Fitting, Rec
<1> HIDE DEF w
<1>4. x.row = w
  BY <1>3, RecordFields
<1> HIDE DEF x
<1>5. Touched(x, r, way)
  BY <1>1, <1>2, <1>3, <1>4 DEF Touched
<1> QED BY <1>5 DEF x, w, Through

LEMMA WithoutPathFrom == \A cell, paths : From(WithoutPath(cell, paths), cell.parts, Lossy)
<1> TAKE cell, paths
<1>1. CASE cell.parts = Null
  <2>1. WithoutPath(cell, paths) = NullText
    BY <1>1 DEF WithoutPath
  <2>2. \A k \in DOMAIN NullText : NullText[k].is \in MarksIn(Lossy)
    BY DEF NullText, Was, MarksIn
  <2> QED BY <2>1, <2>2 DEF From
<1>2. CASE cell.parts # Null /\ ~IsJSON(cell)
  BY <1>2, FromItself DEF WithoutPath
<1>3. CASE cell.parts # Null /\ IsJSON(cell)
  <2> DEFINE q == WithoutPath(cell, paths)
  <2>1. DOMAIN q \subseteq DOMAIN cell.parts /\ \A k \in DOMAIN q : q[k] = cell.parts[k]
    BY <1>3 DEF WithoutPath
  <2> HIDE DEF q
  <2>2. From(q, cell.parts, Lossy)
    BY <2>1 DEF From, Becomes
  <2> QED BY <2>2 DEF q
<1> QED BY <1>1, <1>2, <1>3

LEMMA HiddenFrom ==
  \A cell, paths : From(Hidden(cell, paths), cell.parts, Quiet) /\ From(HiddenPath(cell, paths), cell.parts, Quiet)
<1> TAKE cell, paths
<1>0. "hidden" \in MarksIn(Quiet)
  BY DEF MarksIn
<1>1. From(Hidden(cell, paths), cell.parts, Quiet)
  BY <1>0 DEF From, Hidden, Null, Was
<1>2. From(HiddenPath(cell, paths), cell.parts, Quiet)
  <2>1. CASE cell.parts = Null
    BY <2>1 DEF From, HiddenPath, Null
  <2>2. CASE cell.parts # Null
    <3> DEFINE q == HiddenPath(cell, paths)
    <3>1. DOMAIN q = DOMAIN cell.parts /\ \A k \in DOMAIN q : q[k].is = "hidden" \/ q[k] = cell.parts[k]
      BY <2>2 DEF HiddenPath, Was
    <3> HIDE DEF q
    <3>2. From(q, cell.parts, Quiet)
      BY <1>0, <3>1 DEF From, Becomes
    <3> QED BY <3>2 DEF q
  <2> QED BY <2>1, <2>2
<1> QED BY <1>1, <1>2

\* Upper case is loud; lower case only moves what a path names.
CaseWay(upper) == IF upper THEN Loud ELSE Shifted

LEMMA CasedIs ==
  ASSUME NEW upper, NEW v
  PROVE  Becomes(Cased(upper, v), v, CaseWay(upper))
<1>1. CASE v.is \in Letters
  BY <1>1 DEF Becomes, Cased, Was, CaseWay, LettersIn, Letters, Loud, Shifted
<1>2. CASE v.is \notin Letters
  BY <1>2 DEF Becomes, Cased
<1> QED BY <1>1, <1>2

LEMMA CasedFrom ==
  ASSUME NEW upper
  PROVE  \A cell, paths : /\ From(CasedCell(upper, cell), cell.parts, CaseWay(upper))
                          /\ From(CasedPath(upper, cell, paths), cell.parts, CaseWay(upper))
<1> TAKE cell, paths
<1> DEFINE p == cell.parts
<1>0. Moves(CaseWay(upper))
  BY DEF Moves, CaseWay
<1>1. CASE p = Null
  BY <1>1 DEF From, CasedCell, CasedPath, Null
<1>2. CASE p # Null
  <2>1. From(CasedCell(upper, cell), p, CaseWay(upper))
    <3> DEFINE L(k) == CHOOSE l \in DOMAIN p : CasedKey(upper, l) = k
               q == [k \in {CasedKey(upper, l) : l \in DOMAIN p} |-> Cased(upper, p[L(k)])]
    <3>1. CasedCell(upper, cell) = q
      BY <1>2 DEF CasedCell
    <3>2. \A k \in DOMAIN q : L(k) \in DOMAIN p /\ q[k] = Cased(upper, p[L(k)])
      OBVIOUS
    <3> HIDE DEF q, p, L
    <3>3. \A k \in DOMAIN q : Becomes(q[k], p[L(k)], CaseWay(upper))
      BY <3>2, CasedIs
    <3>4. From(q, p, CaseWay(upper))
      BY <1>0, <3>2, <3>3 DEF From
    <3> QED BY <3>1, <3>4
  <2>2. From(CasedPath(upper, cell, paths), p, CaseWay(upper))
    <3> DEFINE q == CasedPath(upper, cell, paths)
    <3>1. DOMAIN q = DOMAIN p /\ \A k \in DOMAIN p : q[k] = Cased(upper, p[k]) \/ q[k] = p[k]
      BY <1>2 DEF CasedPath
    <3> HIDE DEF p, q
    <3>2. \A k \in DOMAIN p : Becomes(q[k], p[k], CaseWay(upper))
      <4>1. \A v : Becomes(v, v, CaseWay(upper))
        BY DEF Becomes
      <4> QED BY <3>1, <4>1, CasedIs
    <3>3. From(q, p, CaseWay(upper))
      BY <1>0, <3>1, <3>2 DEF From
    <3> QED BY <3>3 DEF q
  <2> QED BY <2>1, <2>2
<1> QED BY <1>1, <1>2

CasedCells(r, which, refs, upper) == MapCells(r, which, refs, LAMBDA cell, of : CasedCell(upper, cell))
CasedPaths(r, which, refs, upper) == MapCells(r, which, refs, LAMBDA cell, of : CasedPath(upper, cell, of))

LEMMA WithoutTouches ==
  ASSUME NEW r, Fitting(r), NEW which, NEW refs
  PROVE  Touched(MapCells(r, which, refs, WithoutPath), r, Lossy)
<1> DEFINE g == [i \in DOMAIN r.row |-> WithoutPath(r.row[i], PathsIn(refs, r.columns[i].name))]
<1>1. \A i \in DOMAIN r.row : g[i] = WithoutPath(r.row[i], PathsIn(refs, r.columns[i].name)) /\ From(g[i], r.row[i].parts, Lossy)
  BY WithoutPathFrom
<1> HIDE DEF g
<1>2. MapCells(r, which, refs, WithoutPath) = Through(r, which, g)
  BY <1>1 DEF MapCells, Through
<1>3. AllFrom(g, r, Lossy)
  BY <1>1 DEF AllFrom
<1> QED BY <1>2, <1>3, CellsThrough

LEMMA HidingTouches ==
  ASSUME NEW r, Fitting(r), NEW which, NEW refs
  PROVE  Touched(MapCells(r, which, refs, Hidden), r, Quiet)
<1> DEFINE g == [i \in DOMAIN r.row |-> Hidden(r.row[i], PathsIn(refs, r.columns[i].name))]
<1>1. \A i \in DOMAIN r.row : g[i] = Hidden(r.row[i], PathsIn(refs, r.columns[i].name)) /\ From(g[i], r.row[i].parts, Quiet)
  BY HiddenFrom
<1> HIDE DEF g
<1>2. MapCells(r, which, refs, Hidden) = Through(r, which, g)
  BY <1>1 DEF MapCells, Through
<1>3. AllFrom(g, r, Quiet)
  BY <1>1 DEF AllFrom
<1> QED BY <1>2, <1>3, CellsThrough

LEMMA HidingPathsTouches ==
  ASSUME NEW r, Fitting(r), NEW which, NEW refs
  PROVE  Touched(MapCells(r, which, refs, HiddenPath), r, Quiet)
<1> DEFINE g == [i \in DOMAIN r.row |-> HiddenPath(r.row[i], PathsIn(refs, r.columns[i].name))]
<1>1. \A i \in DOMAIN r.row : g[i] = HiddenPath(r.row[i], PathsIn(refs, r.columns[i].name)) /\ From(g[i], r.row[i].parts, Quiet)
  BY HiddenFrom
<1> HIDE DEF g
<1>2. MapCells(r, which, refs, HiddenPath) = Through(r, which, g)
  BY <1>1 DEF MapCells, Through
<1>3. AllFrom(g, r, Quiet)
  BY <1>1 DEF AllFrom
<1> QED BY <1>2, <1>3, CellsThrough

LEMMA CasingTouches ==
  ASSUME NEW r, Fitting(r), NEW which, NEW refs, NEW upper
  PROVE  Touched(CasedCells(r, which, refs, upper), r, CaseWay(upper))
<1> DEFINE g == [i \in DOMAIN r.row |-> CasedCell(upper, r.row[i])]
<1>1. \A i \in DOMAIN r.row : g[i] = CasedCell(upper, r.row[i]) /\ From(g[i], r.row[i].parts, CaseWay(upper))
  BY CasedFrom
<1> HIDE DEF g
<1>2. CasedCells(r, which, refs, upper) = Through(r, which, g)
  BY <1>1 DEF CasedCells, MapCells, Through
<1>3. AllFrom(g, r, CaseWay(upper))
  BY <1>1 DEF AllFrom
<1> QED BY <1>2, <1>3, CellsThrough

LEMMA CasingPathsTouches ==
  ASSUME NEW r, Fitting(r), NEW which, NEW refs, NEW upper
  PROVE  Touched(CasedPaths(r, which, refs, upper), r, CaseWay(upper))
<1> DEFINE g == [i \in DOMAIN r.row |-> CasedPath(upper, r.row[i], PathsIn(refs, r.columns[i].name))]
<1>1. \A i \in DOMAIN r.row : g[i] = CasedPath(upper, r.row[i], PathsIn(refs, r.columns[i].name)) /\ From(g[i], r.row[i].parts, CaseWay(upper))
  BY CasedFrom
<1> HIDE DEF g
<1>2. CasedPaths(r, which, refs, upper) = Through(r, which, g)
  BY <1>1 DEF CasedPaths, MapCells, Through
<1>3. AllFrom(g, r, CaseWay(upper))
  BY <1>1 DEF AllFrom
<1> QED BY <1>2, <1>3, CellsThrough

LEMMA DescendsAgain ==
  ASSUME NEW r, NEW y, NEW x, NEW way, Descends(y, r, way), Descends(x, y, way)
  PROVE  Descends(x, r, way)
<1> SUFFICES ASSUME NEW i \in DOMAIN x.row
             PROVE  \/ x.row[i].of = "added" /\ From(x.row[i].parts, [rest |-> Was("rest", "clear")], way)
                    \/ \E j \in DOMAIN r.row : x.row[i].of = r.row[j].of /\ From(x.row[i].parts, r.row[j].parts, way)
  BY DEF Descends
<1>1. CASE x.row[i].of = "added" /\ From(x.row[i].parts, [rest |-> Was("rest", "clear")], way)
  BY <1>1
<1>2. CASE \E j \in DOMAIN y.row : x.row[i].of = y.row[j].of /\ From(x.row[i].parts, y.row[j].parts, way)
  <2>1. PICK j \in DOMAIN y.row : x.row[i].of = y.row[j].of /\ From(x.row[i].parts, y.row[j].parts, way)
    BY <1>2
  <2>2. CASE y.row[j].of = "added" /\ From(y.row[j].parts, [rest |-> Was("rest", "clear")], way)
    <3>1. From(x.row[i].parts, [rest |-> Was("rest", "clear")], way)
      BY <2>1, <2>2, FromAgain
    <3> QED BY <2>1, <2>2, <3>1
  <2>3. CASE \E l \in DOMAIN r.row : y.row[j].of = r.row[l].of /\ From(y.row[j].parts, r.row[l].parts, way)
    <3>1. PICK l \in DOMAIN r.row : y.row[j].of = r.row[l].of /\ From(y.row[j].parts, r.row[l].parts, way)
      BY <2>3
    <3>2. From(x.row[i].parts, r.row[l].parts, way)
      BY <2>1, <3>1, FromAgain
    <3> QED BY <2>1, <3>1, <3>2
  <2> QED BY <2>2, <2>3 DEF Descends
<1> QED BY <1>1, <1>2 DEF Descends

-----------------------------------------------------------------------------
(* The columns that are kept. *)

PositionsTo(f, keep, n) ==
  f = [k \in 0..n |-> IF k = 0 THEN << >> ELSE IF k \in keep THEN Append(f[k - 1], k) ELSE f[k - 1]]

LEMMA KeptExists ==
  ASSUME NEW keep, NEW n \in Nat
  PROVE  \E f : PositionsTo(f, keep, n)
<1> DEFINE T == {m \in 0..n : \E f : PositionsTo(f, keep, m)}
<1>1. 0 \in T
  <2> DEFINE g == [k \in 0..0 |-> << >>]
  <2>1. g = [k \in 0..0 |-> IF k = 0 THEN << >> ELSE IF k \in keep THEN Append(g[k - 1], k) ELSE g[k - 1]]
    OBVIOUS
  <2>2. PositionsTo(g, keep, 0)
    BY <2>1 DEF PositionsTo
  <2> QED BY <2>2
<1>2. ASSUME NEW m \in 0..n, m < n, m \in T PROVE m + 1 \in T
  <2>1. PICK f : PositionsTo(f, keep, m)
    BY <1>2
  <2> DEFINE last == IF m + 1 \in keep THEN Append(f[m], m + 1) ELSE f[m]
             g == [k \in 0..m + 1 |-> IF k = m + 1 THEN last ELSE f[k]]
  <2>2. \A k \in 0..m : f[k] = IF k = 0 THEN << >> ELSE IF k \in keep THEN Append(f[k - 1], k) ELSE f[k - 1]
    BY <2>1 DEF PositionsTo
  <2>3. ASSUME NEW k \in 0..m + 1
        PROVE  g[k] = IF k = 0 THEN << >> ELSE IF k \in keep THEN Append(g[k - 1], k) ELSE g[k - 1]
    <3>1. CASE k = m + 1
      <4>1. g[k] = last /\ g[k - 1] = f[m] /\ k # 0
        BY <3>1
      <4> QED BY <3>1, <4>1
    <3>2. CASE k # m + 1
      <4>1. k \in 0..m /\ g[k] = f[k] /\ (k # 0 => g[k - 1] = f[k - 1])
        BY <3>2
      <4> QED BY <2>2, <4>1
    <3> QED BY <3>1, <3>2
  <2>4. g = [k \in 0..m + 1 |-> g[k]]
    OBVIOUS
  <2> HIDE DEF g
  <2>5. PositionsTo(g, keep, m + 1)
    BY <2>3, <2>4 DEF PositionsTo
  <2> QED BY <1>2, <2>5
<1> HIDE DEF T
<1>3. T \in SUBSET (0..n)
  BY DEF T
<1>4. T = 0..n
  BY <1>1, <1>2, <1>3, Upwards
<1> QED BY <1>4 DEF T

\* p lists, in order, positions of keep up to n, and at least one of them.
Picks(p, m, keep, n) ==
  /\ IsList(p, m)
  /\ \A i \in 1..m : p[i] \in keep /\ p[i] \in 1..n
  /\ \A i, k \in 1..m : i < k => p[i] < p[k]
  /\ keep \cap (1..n) # {} => m # 0

LEMMA PositionsAre ==
  ASSUME NEW n \in Nat, NEW keep
  PROVE  \E m \in Nat : Picks(Positions(n, keep), m, keep, n)
<1> DEFINE f == CHOOSE f : PositionsTo(f, keep, n)
           T == {k \in 0..n : \E m \in Nat : Picks(f[k], m, keep, k)}
<1>1. Positions(n, keep) = f[n]
  BY DEF Positions, PositionsTo
<1>2. PositionsTo(f, keep, n)
  <2>1. \E g : PositionsTo(g, keep, n)
    BY KeptExists
  <2> QED BY <2>1
<1> HIDE DEF f
<1>3. \A k \in 0..n : f[k] = IF k = 0 THEN << >> ELSE IF k \in keep THEN Append(f[k - 1], k) ELSE f[k - 1]
  BY <1>2 DEF PositionsTo
<1>4. 0 \in T
  <2>1. f[0] = << >>
    BY <1>3
  <2>2. << >> = [i \in 1..0 |-> << >>[i]]
    OBVIOUS
  <2>3. Picks(f[0], 0, keep, 0)
    BY <2>1, <2>2 DEF Picks, IsList
  <2> QED BY <2>3
<1>5. ASSUME NEW k \in 0..n, k < n, k \in T PROVE k + 1 \in T
  <2>0. k + 1 \in 0..n /\ k + 1 # 0 /\ (k + 1) - 1 = k
    BY <1>5
  <2>1. PICK m \in Nat : Picks(f[k], m, keep, k)
    BY <1>5
  <2>2. CASE k + 1 \in keep
    <3>1. f[k + 1] = Append(f[k], k + 1)
      BY <1>3, <2>0, <2>2
    <3>2. f[k] = [i \in 1..m |-> f[k][i]]
      BY <2>1 DEF Picks, IsList
    <3> DEFINE q == f[k + 1]
    <3>3. q = [i \in 1..m + 1 |-> IF i = m + 1 THEN k + 1 ELSE f[k][i]]
      BY <3>1, <3>2, AppendIs
    <3> HIDE DEF q
    <3>4. \A i \in 1..m : q[i] = f[k][i] /\ q[i] \in keep /\ q[i] \in 1..k
      BY <2>1, <3>3 DEF Picks
    <3>5. q[m + 1] = k + 1 /\ IsList(q, m + 1)
      BY <3>3 DEF IsList
    <3>6. ASSUME NEW i \in 1..m + 1 PROVE q[i] \in keep /\ q[i] \in 1..k + 1
      BY <3>4, <3>5, <2>2
    <3>7. ASSUME NEW i \in 1..m + 1, NEW j \in 1..m + 1, i < j PROVE q[i] < q[j]
      <4>1. CASE j = m + 1
        BY <3>4, <3>5, <3>7, <4>1
      <4>2. CASE j # m + 1
        <5>1. i \in 1..m /\ j \in 1..m
          BY <3>7, <4>2
        <5>2. f[k][i] < f[k][j]
          BY <5>1, <2>1, <3>7 DEF Picks
        <5> QED BY <5>1, <5>2, <3>4
      <4> QED BY <4>1, <4>2
    <3>8. Picks(q, m + 1, keep, k + 1)
      BY <3>5, <3>6, <3>7 DEF Picks
    <3> QED BY <1>5, <3>8 DEF q
  <2>3. CASE k + 1 \notin keep
    <3>1. f[k + 1] = f[k]
      BY <1>3, <2>0, <2>3
    <3>2. keep \cap (1..k + 1) = keep \cap (1..k)
      BY <2>3
    <3>3. Picks(f[k], m, keep, k + 1)
      BY <2>1, <3>2 DEF Picks
    <3> QED BY <1>5, <3>1, <3>3
  <2> QED BY <2>2, <2>3
<1> HIDE DEF T
<1>6. T \in SUBSET (0..n)
  BY DEF T
<1>7. T = 0..n
  BY <1>4, <1>5, <1>6, Upwards
<1> QED BY <1>1, <1>7 DEF T

-----------------------------------------------------------------------------
(* Each transformation: x is what it makes of r, and y of the schema of r. *)

Good(x, y, r, way) ==
  \/ x = Failed /\ y = Failed
  \/ Fitting(x) /\ EmptyRecord(x) = y /\ Descends(x, r, way)

\* Columns of sensitive values have the names they have in the source.
FirstNamed(r) ==
  \A i \in Columns(r) : r.columns[i].of \in NamesIn(r.sensitive) =>
    r.columns[i].name = r.columns[i].of /\ \A k \in 1..i - 1 : r.columns[k].name # r.columns[i].name

LEMMA SameColumns ==
  ASSUME NEW r, NEW x, x.columns = r.columns, x.sensitive = r.sensitive, FirstNamed(r)
  PROVE  FirstNamed(x)
BY DEF FirstNamed, Columns

LEMMA TouchedGood ==
  ASSUME NEW r, Fitting(r), NEW x, NEW way, Touched(x, r, way)
  PROVE  Good(x, EmptyRecord(r), r, way) /\ (FirstNamed(r) => FirstNamed(x))
<1>1. Fitting(x) /\ EmptyRecord(x) = EmptyRecord(r) /\ Descends(x, r, way) /\ x.columns = r.columns
  BY TouchedFits
<1> QED BY <1>1, SameColumns DEF Good, Descends

LEMMA OnlyColumnsGood ==
  ASSUME NEW r, Fitting(r), NEW keep, keep \cap Columns(r) # {}, NEW way
  PROVE  /\ Fitting(OnlyColumns(r, keep)) /\ EmptyRecord(OnlyColumns(r, keep)) = OnlyColumns(EmptyRecord(r), keep)
         /\ Descends(OnlyColumns(r, keep), r, way)
         /\ FirstNamed(r) => FirstNamed(OnlyColumns(r, keep))
<1> DEFINE n == Len(r.columns)
           p == Positions(n, keep)
           e == EmptyRecord(r)
           x == OnlyColumns(r, keep)
           y == OnlyColumns(e, keep)
           c == [i \in DOMAIN p |-> r.columns[p[i]]]
           w == IF r.row = << >> THEN << >> ELSE [i \in DOMAIN p |-> r.row[p[i]]]
<1>1. Columns(r) = 1..n /\ n \in Nat \ {0} /\ e = Rec(r.name, r.sensitive, r.columns, << >>)
      /\ e.columns = r.columns /\ e.row = << >>
  BY EmptyFits
<1>2. PICK m \in Nat : Picks(p, m, keep, n)
  BY <1>1, PositionsAre
<1>3. m # 0 /\ DOMAIN p = 1..m
  BY <1>1, <1>2, ListIs DEF Picks, IsList
<1>4. x = Rec(r.name, r.sensitive, c, w)
  <2>1. x = [r EXCEPT !.columns = c, !.row = w]
    BY DEF OnlyColumns
  <2> HIDE DEF c, w, x
  <2> QED BY <2>1 DEF Fitting, Rec
<1>5. y = Rec(r.name, r.sensitive, c, << >>)
  <2>1. Positions(Len(e.columns), keep) = p
    BY <1>1
  <2>2. y = [e EXCEPT !.columns = c, !.row = << >>]
    BY <1>1, <2>1 DEF OnlyColumns
  <2> HIDE DEF c, y, e
  <2> QED BY <2>2, <1>1 DEF Rec
<1>6. \A i \in 1..m : p[i] \in 1..n /\ p[i] \in keep
  BY <1>2 DEF Picks
<1> HIDE DEF p
<1>7. ColumnsTyped(c, m)
  BY <1>1, <1>3, <1>6 DEF Fitting, ColumnsTyped
<1>8. RowFits(w, c, m)
  BY <1>1, <1>3, <1>6 DEF Fitting, RowFits
<1>9. \A i \in DOMAIN w : p[i] \in DOMAIN r.row /\ w[i] = r.row[p[i]]
  <2>1. r.row # << >> => DOMAIN r.row = 1..n
    BY EmptyFits
  <2> QED BY <2>1, <1>3, <1>6
<1>10. "added" \notin NamesIn(r.sensitive)
  BY DEF Fitting
<1>11. FirstNamed(r) => FirstNamed(x)
  <2> SUFFICES ASSUME FirstNamed(r), NEW i \in 1..m, c[i].of \in NamesIn(r.sensitive)
               PROVE  c[i].name = c[i].of /\ \A k \in 1..i - 1 : c[k].name # c[i].name
    <3>1. x.columns = c /\ x.sensitive = r.sensitive
      <4> HIDE DEF c, w, x
      <4> QED BY <1>4, RecordFields
    <3>2. DOMAIN c = 1..m
      BY <1>3
    <3> HIDE DEF c, x
    <3> QED BY <3>1, <3>2 DEF FirstNamed, Columns
  <2>1. c[i] = r.columns[p[i]] /\ p[i] \in 1..n
    BY <1>3, <1>6
  <2>2. r.columns[p[i]].name = r.columns[p[i]].of /\ \A k \in 1..p[i] - 1 : r.columns[k].name # r.columns[p[i]].name
    BY <2>1, <1>1 DEF FirstNamed
  <2>3. ASSUME NEW k \in 1..i - 1 PROVE c[k].name # c[i].name
    <3>1. k \in 1..m /\ k < i
      OBVIOUS
    <3>2. p[k] < p[i] /\ p[k] \in 1..n
      BY <3>1, <1>2, <1>6 DEF Picks
    <3>3. p[k] \in 1..p[i] - 1 /\ c[k] = r.columns[p[k]]
      BY <3>1, <3>2, <2>1, <1>3
    <3> QED BY <2>1, <2>2, <3>3
  <2> QED BY <2>1, <2>2, <2>3
<1> HIDE DEF c, w, x, y, e
<1>12. Fitting(x) /\ EmptyRecord(x) = y /\ x.row = w /\ x.sensitive = r.sensitive
  BY <1>3, <1>4, <1>5, <1>7, <1>8, <1>10, FittingRecord, RecordFields
<1>13. Descends(x, r, way)
  <2>1. \A i \in DOMAIN x.row : p[i] \in DOMAIN r.row /\ x.row[i].of = r.row[p[i]].of
                               /\ From(x.row[i].parts, r.row[p[i]].parts, way)
    BY <1>9, <1>12, FromItself
  <2> QED BY <2>1, <1>12 DEF Descends
<1> QED BY <1>11, <1>12, <1>13 DEF x, y, e

LEMMA SameNames ==
  ASSUME NEW r, Fitting(r), NEW names, NEW refs
  PROVE  /\ Named(EmptyRecord(r), names) = Named(r, names)
         /\ Plain(EmptyRecord(r), refs) = Plain(r, refs)
         /\ Pathed(EmptyRecord(r), refs) = Pathed(r, refs)
         /\ Columns(EmptyRecord(r)) = Columns(r)
<1>1. EmptyRecord(r).columns = r.columns
  BY EmptyFits
<1> DEFINE e == EmptyRecord(r)
<1> HIDE DEF e
<1>2. e.columns = r.columns
  BY <1>1 DEF e
<1>3. Columns(e) = Columns(r) /\ \A s : Named(e, s) = Named(r, s)
  BY <1>2 DEF Columns, Named
<1>4. Plain(e, refs) = Plain(r, refs) /\ Pathed(e, refs) = Pathed(r, refs)
  BY <1>2, <1>3 DEF Plain, Pathed
<1> QED BY <1>3, <1>4 DEF e

LEMMA RemoveGood ==
  ASSUME NEW r, Fitting(r), NEW t
  PROVE  /\ Good(RemoveColumns(r, t), RemoveColumns(EmptyRecord(r), t), r, Lossy)
         /\ RemoveColumns(r, t) # Failed /\ FirstNamed(r) => FirstNamed(RemoveColumns(r, t))
<1> DEFINE e == EmptyRecord(r)
           whole == Plain(r, t.columns)
           keep == Columns(r) \ whole
           remaining == OnlyColumns(r, keep)
           paths == Pathed(remaining, t.columns)
           bad == (whole # {} /\ whole = Columns(r)) \/ \E i \in paths : remaining.columns[i].type # "json"
           remainingEmpty == OnlyColumns(e, keep)
<1>1. RemoveColumns(r, t) = IF bad THEN Failed ELSE MapCells(remaining, paths, t.columns, WithoutPath)
  BY DEF RemoveColumns
<1>2. Columns(e) = Columns(r) /\ Plain(e, t.columns) = whole
  BY SameNames
<1>3. CASE whole = Columns(r)
  <2>1. Columns(r) # {}
    BY EmptyFits
  <2>2. RemoveColumns(r, t) = Failed /\ RemoveColumns(e, t) = Failed
    BY <1>2, <1>3, <2>1 DEF RemoveColumns
  <2> QED BY <2>2 DEF Good
<1>4. CASE whole # Columns(r)
  <2>1. keep \cap Columns(r) # {}
    BY <1>4 DEF Plain, Named
  <2>2. Fitting(remaining) /\ EmptyRecord(remaining) = remainingEmpty /\ Descends(remaining, r, Lossy)
        /\ (FirstNamed(r) => FirstNamed(remaining))
    <3> HIDE DEF keep
    <3> QED BY <2>1, OnlyColumnsGood
  <2>3. Pathed(remainingEmpty, t.columns) = paths /\ remainingEmpty.columns = remaining.columns /\ remainingEmpty.row = << >>
        /\ Fitting(remainingEmpty)
    <3> HIDE DEF remaining, remainingEmpty
    <3>1. Fitting(Rec(remaining.name, remaining.sensitive, remaining.columns, << >>))
      <4>1. ColumnsTyped(remaining.columns, Len(remaining.columns)) /\ Len(remaining.columns) \in Nat \ {0}
        BY <2>2 DEF Fitting, ColumnsTyped
      <4> DEFINE nn == remaining.name ss == remaining.sensitive cc == remaining.columns mm == Len(remaining.columns)
      <4>2. "added" \notin NamesIn(ss) /\ ColumnsTyped(cc, mm) /\ mm \in Nat \ {0} /\ RowFits(<< >>, cc, mm)
        BY <2>2, <4>1 DEF Fitting, RowFits
      <4> DEFINE none == << >>
      <4>3. RowFits(none, cc, mm)
        BY <4>2
      <4> HIDE DEF nn, ss, cc, mm, none
      <4>4. Fitting(Rec(nn, ss, cc, none))
        BY <4>2, <4>3, FittingRecord
      <4> QED BY <4>4 DEF nn, ss, cc, mm, none
    <3> QED BY <2>2, <3>1, SameNames, EmptyFits
  <2>4. Touched(MapCells(remaining, paths, t.columns, WithoutPath), remaining, Lossy)
    <3> HIDE DEF remaining, paths
    <3> QED BY <2>2, WithoutTouches
  <2>5. MapCells(remainingEmpty, paths, t.columns, WithoutPath) = remainingEmpty
    <3> HIDE DEF remainingEmpty, paths
    <3>1. Touched(MapCells(remainingEmpty, paths, t.columns, WithoutPath), remainingEmpty, Lossy)
      BY <2>3, WithoutTouches
    <3>2. EmptyRecord(remainingEmpty) = remainingEmpty
      <4>1. remainingEmpty = Rec(remainingEmpty.name, remainingEmpty.sensitive, remainingEmpty.columns, << >>)
        BY <2>3 DEF Fitting
      <4> QED BY <2>3, <4>1, EmptyFits
    <3> QED BY <2>3, <3>1, <3>2, TouchedFits
  <2>6. RemoveColumns(e, t) = IF bad THEN Failed ELSE remainingEmpty
    <3>1. RemoveColumns(e, t) =
            IF (whole # {} /\ whole = Columns(r)) \/ \E i \in Pathed(remainingEmpty, t.columns) : remainingEmpty.columns[i].type # "json"
            THEN Failed ELSE MapCells(remainingEmpty, Pathed(remainingEmpty, t.columns), t.columns, WithoutPath)
      <4> HIDE DEF whole, e
      <4> QED BY <1>2 DEF RemoveColumns, whole
    <3> HIDE DEF remainingEmpty, paths, whole, remaining
    <3> QED BY <2>3, <2>5, <3>1
  <2>7. LET x == MapCells(remaining, paths, t.columns, WithoutPath)
        IN  /\ Fitting(x) /\ EmptyRecord(x) = remainingEmpty /\ Descends(x, r, Lossy)
            /\ FirstNamed(r) => FirstNamed(x)
    <3> DEFINE x == MapCells(remaining, paths, t.columns, WithoutPath)
    <3> HIDE DEF remaining, remainingEmpty, paths, x
    <3>1. Touched(x, remaining, Lossy)
      BY <2>4 DEF x
    <3>2. Fitting(x) /\ EmptyRecord(x) = EmptyRecord(remaining) /\ Descends(x, remaining, Lossy) /\ x.columns = remaining.columns
      BY <2>2, <3>1, TouchedFits
    <3>3. Descends(x, r, Lossy)
      BY <2>2, <3>2, DescendsAgain
    <3>4. FirstNamed(remaining) => FirstNamed(x)
      BY <3>2, SameColumns DEF Descends
    <3> QED BY <2>2, <3>2, <3>3, <3>4 DEF x
  <2> HIDE DEF remaining, remainingEmpty, paths, bad, whole
  <2> QED BY <1>1, <2>6, <2>7 DEF Good
<1> QED BY <1>3, <1>4

\* What only changes cells, or says from the columns that it cannot.
LEMMA CellsGood ==
  ASSUME NEW r, Fitting(r), NEW x, NEW y, NEW z, NEW way, Touched(z, r, way), NEW bad \in BOOLEAN,
         x = (IF bad THEN Failed ELSE z), y = (IF bad THEN Failed ELSE EmptyRecord(r))
  PROVE  Good(x, y, r, way) /\ (x # Failed /\ FirstNamed(r) => FirstNamed(x))
BY TouchedGood DEF Good

LEMMA EmptyTwice ==
  ASSUME NEW r, Fitting(r)
  PROVE  /\ Fitting(EmptyRecord(r)) /\ EmptyRecord(EmptyRecord(r)) = EmptyRecord(r)
         /\ \A x, way : Touched(x, EmptyRecord(r), way) => x = EmptyRecord(r)
<1> DEFINE n == r.name s == r.sensitive c == r.columns m == Len(r.columns) none == << >>
           e == EmptyRecord(r)
<1>1. "added" \notin NamesIn(s) /\ ColumnsTyped(c, m) /\ m \in Nat \ {0} /\ RowFits(none, c, m)
  BY DEF Fitting, RowFits, ColumnsTyped
<1>2. e = Rec(n, s, c, none) /\ e.row = << >>
  BY EmptyFits
<1> HIDE DEF n, s, c, m, e
<1>3. Fitting(Rec(n, s, c, none))
  <2> HIDE DEF none
  <2> QED BY <1>1, FittingRecord
<1>4. EmptyRecord(e) = e
  <2>1. EmptyRecord(Rec(n, s, c, none)) = Rec(n, s, c, none)
    BY RecordFields
  <2> QED BY <1>2, <2>1
<1>5. Fitting(e)
  BY <1>2, <1>3
<1>6. ASSUME NEW x, NEW way, Touched(x, e, way) PROVE x = e
  BY <1>2, <1>4, <1>5, <1>6, TouchedFits
<1> QED BY <1>4, <1>5, <1>6 DEF e

LEMMA ObfuscateGood ==
  ASSUME NEW r, Fitting(r), NEW refs
  PROVE  /\ Good(ObfuscateColumns(r, refs), ObfuscateColumns(EmptyRecord(r), refs), r, Quiet)
         /\ ObfuscateColumns(r, refs) # Failed /\ FirstNamed(r) => FirstNamed(ObfuscateColumns(r, refs))
<1> DEFINE e == EmptyRecord(r)
           whole == Plain(r, refs)
           paths == Pathed(r, refs)
           bad == \/ \E i \in whole : r.columns[i].type \notin {"string", "json", "binary"}
                  \/ \E i \in paths : r.columns[i].type # "json"
           y1 == MapCells(r, whole, refs, Hidden)
           z == MapCells(y1, paths, refs, HiddenPath)
           y2 == MapCells(e, whole, refs, Hidden)
           z2 == MapCells(y2, paths, refs, HiddenPath)
<1>1. ObfuscateColumns(r, refs) = IF bad THEN Failed ELSE z
  BY DEF ObfuscateColumns
<1>2. e.columns = r.columns /\ Plain(e, refs) = whole /\ Pathed(e, refs) = paths
  BY EmptyFits, SameNames
<1>3. ObfuscateColumns(e, refs) = IF bad THEN Failed ELSE z2
  <2> HIDE DEF e, whole, paths
  <2> QED BY <1>2 DEF ObfuscateColumns
<1> HIDE DEF whole, paths
<1>4. Touched(y1, r, Quiet) /\ Fitting(y1)
  BY HidingTouches, TouchedFits
<1>5. Touched(z, y1, Quiet)
  <2> HIDE DEF y1
  <2> QED BY <1>4, HidingPathsTouches
<1>6. Touched(z, r, Quiet)
  <2> HIDE DEF y1, z
  <2> QED BY <1>4, <1>5, TouchedAgain
<1>7. y2 = e
  BY EmptyTwice, HidingTouches
<1>8. z2 = e
  <2> HIDE DEF y2
  <2>1. Touched(MapCells(e, paths, refs, HiddenPath), e, Quiet)
    BY EmptyTwice, HidingPathsTouches
  <2> QED BY <1>7, <2>1, EmptyTwice
<1>9. bad \in BOOLEAN
  OBVIOUS
<1> HIDE DEF bad, z, z2
<1> QED BY <1>1, <1>3, <1>6, <1>8, <1>9, CellsGood

LEMMA ChangeCaseGood ==
  ASSUME NEW r, Fitting(r), NEW t
  PROVE  /\ Good(ChangeCase(r, t), ChangeCase(EmptyRecord(r), t), r, CaseWay(t.kind = "uppercase"))
         /\ ChangeCase(r, t) # Failed /\ FirstNamed(r) => FirstNamed(ChangeCase(r, t))
<1> DEFINE e == EmptyRecord(r)
           upper == t.kind = "uppercase"
           whole == Plain(r, t.columns)
           paths == Pathed(r, t.columns)
           bad == \/ \E i \in whole : r.columns[i].type \notin {"string", "json"}
                  \/ \E i \in paths : r.columns[i].type # "json"
           y1 == CasedCells(r, whole, t.columns, upper)
           z == CasedPaths(y1, paths, t.columns, upper)
           y2 == CasedCells(e, whole, t.columns, upper)
           z2 == CasedPaths(y2, paths, t.columns, upper)
<1>1. ChangeCase(r, t) = IF bad THEN Failed ELSE z
  BY DEF ChangeCase, CasedCells, CasedPaths, MapCells
<1>2. e.columns = r.columns /\ Plain(e, t.columns) = whole /\ Pathed(e, t.columns) = paths
  BY EmptyFits, SameNames
<1>3. ChangeCase(e, t) = IF bad THEN Failed ELSE z2
  <2> HIDE DEF e, whole, paths
  <2> QED BY <1>2 DEF ChangeCase, CasedCells, CasedPaths, MapCells
<1> HIDE DEF whole, paths, upper
<1>4. Touched(y1, r, CaseWay(upper)) /\ Fitting(y1)
  BY CasingTouches, TouchedFits
<1>5. Touched(z, y1, CaseWay(upper))
  <2> HIDE DEF y1
  <2> QED BY <1>4, CasingPathsTouches
<1>6. Touched(z, r, CaseWay(upper))
  <2> HIDE DEF y1, z
  <2> QED BY <1>4, <1>5, TouchedAgain
<1>7. y2 = e
  BY EmptyTwice, CasingTouches
<1>8. z2 = e
  <2> HIDE DEF y2
  <2>1. Touched(CasedPaths(e, paths, t.columns, upper), e, CaseWay(upper))
    BY EmptyTwice, CasingPathsTouches
  <2> QED BY <1>7, <2>1, EmptyTwice
<1>9. bad \in BOOLEAN
  OBVIOUS
<1> HIDE DEF bad, z, z2
<1> QED BY <1>1, <1>3, <1>6, <1>8, <1>9, CellsGood DEF upper

\* A record with other columns, and the same cells.
LEMMA RelabelledGood ==
  ASSUME NEW r, Fitting(r), NEW n, NEW c, ColumnsTyped(c, Len(r.columns)),
         \A i \in 1..Len(r.columns) : c[i].of = r.columns[i].of /\ c[i].type = r.columns[i].type
  PROVE  /\ Good(Rec(n, r.sensitive, c, r.row), Rec(n, r.sensitive, c, << >>), r, Quiet)
         /\ Rec(n, r.sensitive, c, r.row) # Failed
<1> DEFINE s == r.sensitive w == r.row m == Len(r.columns) x == Rec(n, s, c, w)
<1>1. m \in Nat \ {0} /\ "added" \notin NamesIn(s)
  BY DEF Fitting, ColumnsTyped
<1>2. RowFits(w, c, m)
  BY DEF Fitting, RowFits
<1> HIDE DEF s, w, m
<1>3. Fitting(x) /\ EmptyRecord(x) = Rec(n, s, c, << >>) /\ x # Failed /\ x.sensitive = s /\ x.row = w
  BY <1>1, <1>2, FittingRecord, RecordFields DEF m
<1> HIDE DEF x
<1>4. Descends(x, r, Quiet)
  BY <1>3, FromItself DEF Descends, s, w
<1> QED BY <1>3, <1>4 DEF Good, x, s, w

LEMMA RenameColumnGood ==
  ASSUME NEW r, Fitting(r), NEW old, NEW new
  PROVE  Good(RenameColumn(r, old, new), RenameColumn(EmptyRecord(r), old, new), r, Quiet)
<1> DEFINE e == EmptyRecord(r)
           n == Len(r.columns)
           c == [i \in Columns(r) |-> IF r.columns[i].name = old THEN [r.columns[i] EXCEPT !.name = new] ELSE r.columns[i]]
<1>1. Columns(r) = 1..n /\ n \in Nat \ {0} /\ e = Rec(r.name, r.sensitive, r.columns, << >>)
      /\ e.columns = r.columns /\ Columns(e) = Columns(r)
  BY EmptyFits, SameNames
<1>2. RenameColumn(r, old, new) = Rec(r.name, r.sensitive, c, r.row)
  <2>1. RenameColumn(r, old, new) = [r EXCEPT !.columns = c]
    BY DEF RenameColumn
  <2> HIDE DEF c
  <2> QED BY <2>1 DEF Fitting, Rec
<1>3. RenameColumn(e, old, new) = Rec(r.name, r.sensitive, c, << >>)
  <2>1. RenameColumn(e, old, new) = [e EXCEPT !.columns = c]
    BY <1>1 DEF RenameColumn
  <2> HIDE DEF c, e
  <2> QED BY <1>1, <2>1 DEF Rec
<1>4. ASSUME NEW i \in 1..n PROVE IsColumn(c[i]) /\ c[i].of = r.columns[i].of /\ c[i].type = r.columns[i].type
  <2>1. IsColumn(r.columns[i])
    BY DEF Fitting, ColumnsTyped
  <2>2. CASE r.columns[i].name = old
    <3>1. c[i] = [r.columns[i] EXCEPT !.name = new]
      BY <1>1, <2>2
    <3> HIDE DEF c
    <3> DEFINE a == r.columns[i]
    <3>2. c[i] = [name |-> new, type |-> a.type, null |-> a.null, pk |-> a.pk, unique |-> a.unique, of |-> a.of, keys |-> a.keys]
      BY <2>1, <3>1 DEF IsColumn
    <3> QED BY <3>2 DEF IsColumn
  <2>3. CASE r.columns[i].name # old
    <3>1. c[i] = r.columns[i]
      BY <1>1, <2>3
    <3> QED BY <2>1, <3>1
  <2> QED BY <2>2, <2>3
<1>5. ColumnsTyped(c, n)
  BY <1>1, <1>4 DEF ColumnsTyped
<1> HIDE DEF c
<1> QED BY <1>2, <1>3, <1>4, <1>5, RelabelledGood

LEMMA AddPrimaryKeysGood ==
  ASSUME NEW r, Fitting(r), NEW names
  PROVE  /\ Good(AddPrimaryKeys(r, names), AddPrimaryKeys(EmptyRecord(r), names), r, Quiet)
         /\ AddPrimaryKeys(r, names) # Failed /\ FirstNamed(r) => FirstNamed(AddPrimaryKeys(r, names))
<1> DEFINE e == EmptyRecord(r)
           n == Len(r.columns)
           new == Named(r, names)
           bad == \E d \in names : ~HasColumn(r, d)
           c == [i \in Columns(r) |-> [r.columns[i] EXCEPT !.pk = r.columns[i].pk \/ i \in new, !.unique = FALSE]]
<1>1. Columns(r) = 1..n /\ n \in Nat \ {0} /\ e = Rec(r.name, r.sensitive, r.columns, << >>)
      /\ e.columns = r.columns /\ Columns(e) = Columns(r) /\ Named(e, names) = new
  BY EmptyFits, SameNames
<1>2. ~bad => AddPrimaryKeys(r, names) = Rec(r.name, r.sensitive, c, r.row)
  <2>1. ~bad => AddPrimaryKeys(r, names) = [r EXCEPT !.columns = c]
    BY DEF AddPrimaryKeys
  <2> HIDE DEF c, bad
  <2> QED BY <2>1 DEF Fitting, Rec
<1>3. bad <=> \E d \in names : ~HasColumn(e, d)
  BY <1>1 DEF HasColumn
<1>4. ~bad => AddPrimaryKeys(e, names) = Rec(r.name, r.sensitive, c, << >>)
  <2>1. ~bad => AddPrimaryKeys(e, names) = [e EXCEPT !.columns = c]
    BY <1>1, <1>3 DEF AddPrimaryKeys
  <2> HIDE DEF c, e, bad
  <2> QED BY <1>1, <2>1 DEF Rec
<1>5. bad => AddPrimaryKeys(r, names) = Failed /\ AddPrimaryKeys(e, names) = Failed
  BY <1>3 DEF AddPrimaryKeys
<1>6. ASSUME NEW i \in 1..n
      PROVE  IsColumn(c[i]) /\ c[i].of = r.columns[i].of /\ c[i].type = r.columns[i].type /\ c[i].name = r.columns[i].name
  <2>1. IsColumn(r.columns[i])
    BY DEF Fitting, ColumnsTyped
  <2> DEFINE a == r.columns[i]
             k == (a.pk \/ i \in new)
  <2>2. c[i] = [a EXCEPT !.pk = k, !.unique = FALSE]
    BY <1>1
  <2> HIDE DEF c, k
  <2>3. c[i] = [name |-> a.name, type |-> a.type, null |-> a.null, pk |-> k, unique |-> FALSE, of |-> a.of, keys |-> a.keys]
    BY <2>1, <2>2 DEF IsColumn
  <2> QED BY <2>3 DEF IsColumn
<1>7. ColumnsTyped(c, n)
  BY <1>1, <1>6 DEF ColumnsTyped
<1>8. DOMAIN c = Columns(r)
  OBVIOUS
<1> HIDE DEF c
<1>9. FirstNamed(r) => FirstNamed(Rec(r.name, r.sensitive, c, r.row))
  <2> DEFINE x == Rec(r.name, r.sensitive, c, r.row)
  <2>1. x.columns = c /\ x.sensitive = r.sensitive
    BY RecordFields
  <2> HIDE DEF x
  <2>2. \A i \in 1..n : \A k \in 1..i - 1 : k \in 1..n
    BY <1>1
  <2>3. FirstNamed(r) => FirstNamed(x)
    BY <1>1, <1>6, <1>8, <2>1, <2>2 DEF FirstNamed, Columns
  <2> QED BY <2>3 DEF x
<1>10. Good(Rec(r.name, r.sensitive, c, r.row), Rec(r.name, r.sensitive, c, << >>), r, Quiet)
  BY <1>6, <1>7, RelabelledGood
<1> HIDE DEF bad
<1> QED BY <1>2, <1>4, <1>5, <1>9, <1>10 DEF Good

LEMMA ChangeTableNameGood ==
  ASSUME NEW r, Fitting(r), NEW template
  PROVE  /\ Good(ChangeTableName(r, template), ChangeTableName(EmptyRecord(r), template), r, Quiet)
         /\ FirstNamed(r) => FirstNamed(ChangeTableName(r, template))
<1> DEFINE e == EmptyRecord(r)
           n == IF template[1] = "OldName" THEN r.name \o Tail(template) ELSE template
<1>1. e = Rec(r.name, r.sensitive, r.columns, << >>) /\ e.name = r.name
  BY EmptyFits
<1>2. ChangeTableName(r, template) = Rec(n, r.sensitive, r.columns, r.row)
  <2>1. ChangeTableName(r, template) = [r EXCEPT !.name = n]
    BY DEF ChangeTableName
  <2> HIDE DEF n
  <2> QED BY <2>1 DEF Fitting, Rec
<1>3. ChangeTableName(e, template) = Rec(n, r.sensitive, r.columns, << >>)
  <2>1. ChangeTableName(e, template) = [e EXCEPT !.name = n]
    BY <1>1 DEF ChangeTableName
  <2> HIDE DEF n, e
  <2> QED BY <1>1, <2>1 DEF Rec
<1>4. ColumnsTyped(r.columns, Len(r.columns))
  BY DEF Fitting
<1> HIDE DEF n
<1> DEFINE c == r.columns
<1>5. Good(Rec(n, r.sensitive, c, r.row), Rec(n, r.sensitive, c, << >>), r, Quiet)
  <2>1. \A i \in 1..Len(r.columns) : c[i].of = r.columns[i].of /\ c[i].type = r.columns[i].type
    OBVIOUS
  <2>2. ColumnsTyped(c, Len(r.columns))
    BY <1>4
  <2> HIDE DEF c
  <2> QED BY <2>1, <2>2, RelabelledGood
<1>6. FirstNamed(r) => FirstNamed(Rec(n, r.sensitive, r.columns, r.row))
  BY SameColumns, RecordFields
<1> QED BY <1>2, <1>3, <1>5, <1>6

\* Columns and cells after those of r.
Extends(c, w, r, k, way) ==
  LET n == Len(r.columns) IN
  /\ c = [i \in 1..n + k |-> c[i]] /\ (\A i \in 1..n : c[i] = r.columns[i])
  /\ \A i \in n + 1..n + k : IsColumn(c[i])
  /\ r.row = << >> => w = << >>
  /\ r.row # << >> =>
       /\ w = [i \in 1..n + k |-> w[i]] /\ \A i \in 1..n : w[i] = r.row[i]
       /\ \A i \in n + 1..n + k :
            /\ IsCell(w[i]) /\ w[i].of = c[i].of /\ w[i].type = c[i].type
            /\ \/ w[i].of = "added" /\ From(w[i].parts, [rest |-> Was("rest", "clear")], way)
               \/ \E j \in 1..n : w[i].of = r.row[j].of /\ From(w[i].parts, r.row[j].parts, way)

LEMMA ExtendedGood ==
  ASSUME NEW r, Fitting(r), NEW way, NEW k \in Nat, NEW c, NEW w, Extends(c, w, r, k, way)
  PROVE  /\ Good(Rec(r.name, r.sensitive, c, w), Rec(r.name, r.sensitive, c, << >>), r, way)
         /\ Rec(r.name, r.sensitive, c, w) # Failed
<1> DEFINE n == Len(r.columns) m == n + k s == r.sensitive x == Rec(r.name, s, c, w)
<1>1. n \in Nat \ {0} /\ m \in Nat \ {0} /\ "added" \notin NamesIn(s) /\ (r.row # << >> => DOMAIN r.row = 1..n)
  BY EmptyFits DEF Fitting
<1>2. \A i \in 1..m : i \in 1..n \/ i \in n + 1..n + k
  BY <1>1
<1>3. ASSUME NEW i \in 1..m PROVE IsColumn(c[i])
  <2>1. CASE i \in 1..n
    BY <2>1 DEF Extends, Fitting, ColumnsTyped
  <2>2. CASE i \in n + 1..n + k
    BY <2>2 DEF Extends
  <2> QED BY <1>2, <2>1, <2>2
<1>4. ColumnsTyped(c, m)
  BY <1>1, <1>3 DEF ColumnsTyped, Extends
<1>5. ASSUME NEW i \in 1..m, r.row # << >> PROVE IsCell(w[i]) /\ w[i].of = c[i].of /\ w[i].type = c[i].type
  <2>1. CASE i \in 1..n
    BY <1>5, <2>1 DEF Extends, Fitting, RowFits
  <2>2. CASE i \in n + 1..n + k
    BY <1>5, <2>2 DEF Extends
  <2> QED BY <1>2, <2>1, <2>2
<1>6. RowFits(w, c, m)
  BY <1>5 DEF RowFits, Extends
<1>7. ASSUME NEW i \in DOMAIN w
      PROVE  \/ w[i].of = "added" /\ From(w[i].parts, [rest |-> Was("rest", "clear")], way)
             \/ \E j \in DOMAIN r.row : w[i].of = r.row[j].of /\ From(w[i].parts, r.row[j].parts, way)
  <2>1. r.row # << >> /\ DOMAIN w = 1..m /\ DOMAIN r.row = 1..n
    BY <1>1 DEF Extends
  <2>2. CASE i \in 1..n
    BY <2>1, <2>2, FromItself DEF Extends
  <2>3. CASE i \in n + 1..n + k
    BY <2>1, <2>3 DEF Extends
  <2> QED BY <1>2, <2>1, <2>2, <2>3
<1> HIDE DEF m, x, s
<1>8. Fitting(x) /\ EmptyRecord(x) = Rec(r.name, s, c, << >>) /\ x # Failed /\ x.sensitive = s /\ x.row = w
  BY <1>1, <1>4, <1>6, FittingRecord, RecordFields DEF x
<1>9. Descends(x, r, way)
  BY <1>7, <1>8 DEF Descends, s
<1> QED BY <1>8, <1>9 DEF Good, x, s

LEMMA AddColumnGood ==
  ASSUME NEW r, Fitting(r), NEW column, IsColumn(column), column.of = "added"
  PROVE  /\ Good(AddColumn(r, column), AddColumn(EmptyRecord(r), column), r, Quiet)
         /\ FirstNamed(r) => FirstNamed(AddColumn(r, column))
<1> DEFINE e == EmptyRecord(r)
           n == Len(r.columns)
           cell == [of |-> column.of, type |-> column.type, parts |-> [rest |-> Was("rest", "clear")]]
           c == Append(r.columns, column)
           w == IF r.row = << >> THEN << >> ELSE Append(r.row, cell)
<1>1. Columns(r) = 1..n /\ n \in Nat \ {0} /\ e = Rec(r.name, r.sensitive, r.columns, << >>)
      /\ e.columns = r.columns /\ e.row = << >>
  BY EmptyFits
<1>2. AddColumn(r, column) = Rec(r.name, r.sensitive, c, w)
  <2>1. AddColumn(r, column) = [r EXCEPT !.columns = c, !.row = w]
    BY DEF AddColumn
  <2> HIDE DEF c, w
  <2> QED BY <2>1 DEF Fitting, Rec
<1>3. AddColumn(e, column) = Rec(r.name, r.sensitive, c, << >>)
  <2>1. AddColumn(e, column) = [e EXCEPT !.columns = c, !.row = << >>]
    BY <1>1 DEF AddColumn
  <2> HIDE DEF c, e
  <2> QED BY <1>1, <2>1 DEF Rec
<1>4. c = [i \in 1..n + 1 |-> IF i = n + 1 THEN column ELSE r.columns[i]]
  <2>1. r.columns = [i \in 1..n |-> r.columns[i]]
    BY DEF Fitting, ColumnsTyped
  <2> QED BY <1>1, <2>1, AppendIs
<1>5. r.row # << >> => w = [i \in 1..n + 1 |-> IF i = n + 1 THEN cell ELSE r.row[i]]
  <2> SUFFICES ASSUME r.row # << >> PROVE Append(r.row, cell) = [i \in 1..n + 1 |-> IF i = n + 1 THEN cell ELSE r.row[i]]
    OBVIOUS
  <2>1. r.row = [i \in 1..n |-> r.row[i]]
    BY DEF Fitting, RowFits
  <2> HIDE DEF cell
  <2> QED BY <1>1, <2>1, AppendIs
<1>6. IsCell(cell) /\ cell.of = "added" /\ cell.type = column.type /\ From(cell.parts, [rest |-> Was("rest", "clear")], Quiet)
  BY FromItself DEF IsCell
<1>7. r.row = << >> => w = << >>
  OBVIOUS
<1> HIDE DEF c, w, cell
<1>8. \A i \in n + 1..n + 1 : i = n + 1
  BY <1>1
<1>9. \A i \in 1..n : i \in 1..n + 1 /\ i # n + 1
  BY <1>1
<1>10. c = [i \in 1..n + 1 |-> c[i]] /\ \A i \in 1..n : c[i] = r.columns[i]
  BY <1>4, <1>9
<1>11. c[n + 1] = column
  BY <1>1, <1>4
<1>12. r.row # << >> => w = [i \in 1..n + 1 |-> w[i]] /\ (\A i \in 1..n : w[i] = r.row[i]) /\ w[n + 1] = cell
  BY <1>1, <1>5, <1>9
<1>13. Extends(c, w, r, 1, Quiet)
  BY <1>6, <1>7, <1>8, <1>10, <1>11, <1>12 DEF Extends
<1>14. Good(Rec(r.name, r.sensitive, c, w), Rec(r.name, r.sensitive, c, << >>), r, Quiet)
  BY <1>13, ExtendedGood
<1>15. FirstNamed(r) => FirstNamed(Rec(r.name, r.sensitive, c, w))
  <2> DEFINE x == Rec(r.name, r.sensitive, c, w)
  <2>1. x.columns = c /\ x.sensitive = r.sensitive /\ DOMAIN c = 1..n + 1
    BY <1>10, RecordFields
  <2>2. "added" \notin NamesIn(r.sensitive)
    BY DEF Fitting
  <2> HIDE DEF x
  <2> SUFFICES ASSUME FirstNamed(r), NEW i \in 1..n + 1, c[i].of \in NamesIn(r.sensitive)
               PROVE  c[i].name = c[i].of /\ \A k \in 1..i - 1 : c[k].name # c[i].name
    BY <2>1 DEF FirstNamed, Columns, x
  <2>3. i \in 1..n /\ \A k \in 1..i - 1 : k \in 1..n
    BY <1>1, <1>11, <2>2
  <2> QED BY <1>1, <1>10, <2>3 DEF FirstNamed
<1> QED BY <1>2, <1>3, <1>14, <1>15

LEMMA NewColumnIs ==
  ASSUME NEW name, NEW type, NEW null
  PROVE  IsColumn(NewColumn(name, type, null)) /\ NewColumn(name, type, null).of = "added"
BY DEF IsColumn, NewColumn

LEMMA DropRowsGood ==
  ASSUME NEW r, Fitting(r), NEW t
  PROVE  /\ Good(DropRows(r, t), DropRows(EmptyRecord(r), t), r, Quiet)
         /\ FirstNamed(r) => FirstNamed(DropRows(r, t))
<1> DEFINE e == EmptyRecord(r)
<1>1. e.row = << >> /\ Fitting(e) /\ EmptyRecord(e) = e /\ e.columns = r.columns /\ e.sensitive = r.sensitive
  BY EmptyFits, EmptyTwice
<1>2. DropRows(e, t) = e
  <2> HIDE DEF e
  <2>1. DOMAIN e.row = {}
    BY <1>1
  <2> QED BY <2>1 DEF DropRows
<1>3. DropRows(r, t) = e \/ DropRows(r, t) = r
  BY DEF DropRows, EmptyRecord
<1>4. Good(r, e, r, Quiet)
  BY FromItself DEF Good, Descends
<1>5. Good(e, e, r, Quiet)
  <2> HIDE DEF e
  <2>1. Descends(e, r, Quiet)
    BY <1>1 DEF Descends
  <2> QED BY <1>1, <2>1 DEF Good
<1>6. FirstNamed(r) => FirstNamed(e)
  <2> HIDE DEF e
  <2> QED BY <1>1, SameColumns
<1> QED BY <1>2, <1>3, <1>4, <1>5, <1>6

\* What makes a cell no JSON.
Odd(v) == v.is = "(null)" \/ v = Was("word", "CLEAR")
AllJSON(r) == \A i \in DOMAIN r.row : \A k \in DOMAIN r.row[i].parts : ~Odd(r.row[i].parts[k])

LEMMA FlattenedFrom == \A cell : From(Flattened(cell), cell.parts, Shifted)
<1> TAKE cell
<1>0. Moves(Shifted) /\ \A v : Becomes(v, v, Shifted)
  BY DEF Moves, Becomes
<1>1. ASSUME NEW k \in DOMAIN cell.parts PROVE From([rest |-> cell.parts[k]], cell.parts, Shifted)
  BY <1>0 DEF From
<1>2. From(Null, cell.parts, Shifted)
  BY DEF From, Null
<1> QED BY <1>1, <1>2 DEF Flattened

LEMMA FlattenGood ==
  ASSUME NEW r, Fitting(r)
  PROVE  \/ Good(FlattenJSONFields(r), FlattenJSONFields(EmptyRecord(r)), r, Shifted)
         \/ FlattenJSONFields(r) = Failed /\ ~AllJSON(r)
<1> DEFINE e == EmptyRecord(r)
           n == Len(r.columns)
           names == {r.columns[i].name : i \in {k \in Columns(r) : r.columns[k].keys # {}}}
           from == {LastNamed(r, d) : d \in names}
           p == Positions(n, from)
           wrong == \E i \in from : r.columns[i].type # "json"
           odd == \E i \in from : r.row # << >> /\ ~IsJSON(r.row[i])
           C == [k \in DOMAIN p |-> FlatColumn(r.columns[p[k]])]
           W == [k \in DOMAIN p |-> FlatCell(r.row[p[k]])]
           c == r.columns \o C
           w == IF r.row = << >> THEN << >> ELSE r.row \o W
<1>1. Columns(r) = 1..n /\ n \in Nat \ {0} /\ e = Rec(r.name, r.sensitive, r.columns, << >>)
      /\ e.columns = r.columns /\ e.row = << >> /\ (r.row # << >> => DOMAIN r.row = 1..n) /\ Columns(e) = Columns(r)
  BY EmptyFits, SameNames
<1>2. from \subseteq 1..n
  <2> SUFFICES ASSUME NEW d \in names PROVE LastNamed(r, d) \in 1..n
    OBVIOUS
  <2> DEFINE at == {i \in Columns(r) : r.columns[i].name = d}
  <2>1. at # {} /\ at \subseteq 1..n
    BY <1>1
  <2>2. LastNamed(r, d) = Max(at)
    BY DEF LastNamed
  <2> HIDE DEF at
  <2>3. Max(at) \in at
    BY <1>1, <2>1, MaxIs
  <2> QED BY <2>1, <2>2, <2>3
<1>3. FlattenJSONFields(r) = IF wrong \/ odd THEN Failed ELSE Rec(r.name, r.sensitive, c, w)
  <2> DEFINE x == [r EXCEPT !.columns = c, !.row = w]
  <2>1. FlattenJSONFields(r) = IF \E i \in from : r.columns[i].type # "json" \/ (r.row # << >> /\ ~IsJSON(r.row[i]))
                               THEN Failed ELSE x
    BY DEF FlattenJSONFields
  <2>2. x = Rec(r.name, r.sensitive, c, w)
    <3>1. x = [r EXCEPT !.columns = c, !.row = w]
      OBVIOUS
    <3> HIDE DEF c, w, x
    <3> QED BY <3>1 DEF Fitting, Rec
  <2> HIDE DEF c, w, from, x
  <2> QED BY <2>1, <2>2
<1>4. FlattenJSONFields(e) = IF wrong THEN Failed ELSE Rec(r.name, r.sensitive, c, << >>)
  <2>1. \A d : LastNamed(e, d) = LastNamed(r, d)
    BY <1>1 DEF LastNamed
  <2>2. {LastNamed(e, d) : d \in {e.columns[i].name : i \in {k \in Columns(e) : e.columns[k].keys # {}}}} = from
    <3> HIDE DEF e
    <3> QED BY <1>1, <2>1
  <2> DEFINE x == [e EXCEPT !.columns = c, !.row = << >>]
  <2>3. FlattenJSONFields(e) = IF \E i \in from : e.columns[i].type # "json" \/ (e.row # << >> /\ ~IsJSON(e.row[i]))
                               THEN Failed ELSE x
    <3> HIDE DEF e, from
    <3> QED BY <1>1, <2>2 DEF FlattenJSONFields
  <2>4. x = Rec(r.name, r.sensitive, c, << >>)
    <3>1. x = [e EXCEPT !.columns = c, !.row = << >>]
      OBVIOUS
    <3> HIDE DEF c, e, x
    <3> QED BY <1>1, <3>1 DEF Rec
  <2> HIDE DEF c, e, from, x
  <2> QED BY <1>1, <2>3, <2>4
<1>5. PICK k \in Nat : Picks(p, k, from, n)
  BY <1>1, PositionsAre
<1>6. DOMAIN p = 1..k /\ \A i \in 1..k : p[i] \in 1..n
  BY <1>5, ListIs DEF Picks, IsList
<1> HIDE DEF p
<1>7. c = [i \in 1..n + k |-> IF i <= n THEN r.columns[i] ELSE C[i - n]]
  <2>1. r.columns = [i \in 1..n |-> r.columns[i]] /\ C = [i \in 1..k |-> C[i]]
    BY <1>6 DEF Fitting, ColumnsTyped
  <2> HIDE DEF C
  <2> QED BY <1>1, <2>1, JoinIs
<1>8. r.row # << >> => w = [i \in 1..n + k |-> IF i <= n THEN r.row[i] ELSE W[i - n]]
  <2> SUFFICES ASSUME r.row # << >> PROVE r.row \o W = [i \in 1..n + k |-> IF i <= n THEN r.row[i] ELSE W[i - n]]
    OBVIOUS
  <2>1. r.row = [i \in 1..n |-> r.row[i]] /\ W = [i \in 1..k |-> W[i]]
    BY <1>6 DEF Fitting, RowFits
  <2> HIDE DEF W
  <2> QED BY <1>1, <2>1, JoinIs
<1>9. r.row = << >> => w = << >>
  OBVIOUS
<1>10. ASSUME NEW i \in n + 1..n + k
       PROVE  /\ ~(i <= n) /\ i - n \in 1..k /\ p[i - n] \in 1..n
              /\ C[i - n] = FlatColumn(r.columns[p[i - n]]) /\ W[i - n] = FlatCell(r.row[p[i - n]])
  <2>1. ~(i <= n) /\ i - n \in 1..k
    BY <1>1
  <2> QED BY <1>6, <2>1
<1>11. \A d : IsColumn(FlatColumn(d)) /\ FlatColumn(d).of = d.of /\ FlatColumn(d).type = "string"
  <2> TAKE d
  <2> DEFINE name == d.name \o "__p"
  <2>1. FlatColumn(d) = [NewColumn(name, "string", TRUE) EXCEPT !.of = d.of]
    BY DEF FlatColumn
  <2> HIDE DEF name
  <2>2. FlatColumn(d) = [name |-> name, type |-> "string", null |-> TRUE, pk |-> FALSE, unique |-> FALSE,
                         of |-> d.of, keys |-> {}]
    BY <2>1 DEF NewColumn
  <2> QED BY <2>2 DEF IsColumn
<1>12. \A d : IsCell(FlatCell(d)) /\ FlatCell(d).of = d.of /\ FlatCell(d).type = "string"
              /\ From(FlatCell(d).parts, d.parts, Shifted)
  BY FlattenedFrom DEF FlatCell, IsCell
<1> HIDE DEF c, w, C, W, from, wrong, odd
<1>13. ASSUME NEW i \in n + 1..n + k PROVE c[i] = FlatColumn(r.columns[p[i - n]]) /\ IsColumn(c[i])
  BY <1>1, <1>7, <1>10, <1>11
<1>14. ASSUME NEW i \in n + 1..n + k, r.row # << >>
       PROVE  /\ IsCell(w[i]) /\ w[i].of = c[i].of /\ w[i].type = c[i].type
              /\ \E j \in 1..n : w[i].of = r.row[j].of /\ From(w[i].parts, r.row[j].parts, Shifted)
  <2> DEFINE j == p[i - n]
  <2>1. w[i] = FlatCell(r.row[j]) /\ j \in 1..n
    <3>1. i \in 1..n + k
      BY <1>1
    <3>2. w[i] = W[i - n]
      BY <1>8, <1>10, <1>14, <3>1
    <3> QED BY <1>10, <3>2
  <2>2. c[i] = FlatColumn(r.columns[j])
    BY <1>13
  <2>3. r.row[j].of = r.columns[j].of
    BY <1>14, <2>1 DEF Fitting, RowFits
  <2> HIDE DEF j
  <2> QED BY <1>11, <1>12, <2>1, <2>2, <2>3
<1>15. Extends(c, w, r, k, Shifted)
  <2>1. \A i \in 1..n : i \in 1..n + k /\ i <= n
    BY <1>1
  <2>2. c = [i \in 1..n + k |-> c[i]] /\ \A i \in 1..n : c[i] = r.columns[i]
    BY <1>7, <2>1
  <2>3. r.row # << >> => w = [i \in 1..n + k |-> w[i]] /\ \A i \in 1..n : w[i] = r.row[i]
    BY <1>8, <2>1
  <2> QED BY <1>9, <1>13, <1>14, <2>2, <2>3 DEF Extends
<1>16. Good(Rec(r.name, r.sensitive, c, w), Rec(r.name, r.sensitive, c, << >>), r, Shifted)
  BY <1>15, ExtendedGood
<1>17. odd => ~AllJSON(r)
  <2> SUFFICES ASSUME NEW i \in from, r.row # << >>, ~IsJSON(r.row[i]) PROVE ~AllJSON(r)
    BY DEF odd
  <2>1. i \in DOMAIN r.row
    BY <1>1, <1>2
  <2>2. \E l \in DOMAIN r.row[i].parts : Odd(r.row[i].parts[l])
    <3>1. CASE r.row[i].parts = NullText
      <4>1. "rest" \in DOMAIN NullText /\ Odd(NullText["rest"])
        BY DEF NullText, Was, Odd
      <4> QED BY <3>1, <4>1
    <3>2. CASE r.row[i].parts # NullText
      BY <3>2 DEF IsJSON, Odd
    <3> QED BY <3>1, <3>2
  <2> QED BY <2>1, <2>2 DEF AllJSON
<1> QED BY <1>3, <1>4, <1>16, <1>17 DEF Good

-----------------------------------------------------------------------------
(* Transformers: sensitive values. *)

\* What is left of the sensitive column or path c.
HiddenIs == {"hidden", "(null)"}
SafeFor(r, c) ==
  \A i \in DOMAIN r.row : r.row[i].of = c[1] =>
    \A k \in DOMAIN r.row[i].parts : LET v == r.row[i].parts[k] IN c[2] \in {"", v.at} => v.is \in HiddenIs

\* What is not hidden of the path c is under its own key.
UnderKey(r, c) ==
  \A i \in DOMAIN r.row : r.row[i].of = c[1] =>
    \A k \in DOMAIN r.row[i].parts : LET v == r.row[i].parts[k] IN v.at = c[2] => k = c[2] \/ v.is \in HiddenIs

LEMMA HiddenFacts ==
  /\ \A way : MarksIn(way) \subseteq HiddenIs
  /\ \A m \in HiddenIs : m \notin Letters
  /\ \A way : LettersIn(way) \subseteq Letters
BY DEF MarksIn, HiddenIs, Letters, LettersIn

LEMMA KeepsClean ==
  ASSUME NEW r, NEW x, NEW way \in {Quiet, Shifted}, Descends(x, r, way), AllJSON(r)
  PROVE  AllJSON(x)
<1> SUFFICES ASSUME NEW i \in DOMAIN x.row, NEW k \in DOMAIN x.row[i].parts PROVE ~Odd(x.row[i].parts[k])
  BY DEF AllJSON
<1>1. MarksIn(way) = {"hidden"} /\ LettersIn(way) = {"clear"}
  BY DEF MarksIn, LettersIn, Quiet, Shifted, Lossy, Loud
<1>2. \A v : v.is \in {"hidden", "clear"} => ~Odd(v)
  BY DEF Odd, Was
<1>3. \A v, w : Becomes(v, w, way) /\ ~Odd(w) => ~Odd(v)
  BY <1>1, <1>2 DEF Becomes
<1>4. CASE From(x.row[i].parts, [rest |-> Was("rest", "clear")], way)
  <2> DEFINE o == [rest |-> Was("rest", "clear")]
  <2>1. \A l \in DOMAIN o : ~Odd(o[l])
    BY <1>2 DEF Was
  <2> HIDE DEF o
  <2>2. From(x.row[i].parts, o, way)
    BY <1>4 DEF o
  <2> QED BY <1>1, <1>2, <1>3, <2>1, <2>2 DEF From
<1>5. CASE \E j \in DOMAIN r.row : From(x.row[i].parts, r.row[j].parts, way)
  <2>1. PICK j \in DOMAIN r.row : From(x.row[i].parts, r.row[j].parts, way)
    BY <1>5
  <2>2. \A l \in DOMAIN r.row[j].parts : ~Odd(r.row[j].parts[l])
    BY DEF AllJSON
  <2> QED BY <1>1, <1>2, <1>3, <2>1, <2>2 DEF From
<1> QED BY <1>4, <1>5 DEF Descends

LEMMA KeepsSafe ==
  ASSUME NEW r, NEW x, NEW way, Descends(x, r, way), NEW c, c[1] # "added", SafeFor(r, c)
  PROVE  SafeFor(x, c)
<1> SUFFICES ASSUME NEW i \in DOMAIN x.row, x.row[i].of = c[1], NEW k \in DOMAIN x.row[i].parts,
                    c[2] \in {"", x.row[i].parts[k].at}
             PROVE  x.row[i].parts[k].is \in HiddenIs
  BY DEF SafeFor
<1>1. PICK j \in DOMAIN r.row : x.row[i].of = r.row[j].of /\ From(x.row[i].parts, r.row[j].parts, way)
  BY DEF Descends
<1>2. CASE x.row[i].parts[k].is \in MarksIn(way)
  BY <1>2, HiddenFacts
<1>3. CASE x.row[i].parts[k].is \notin MarksIn(way)
  <2>1. PICK l \in DOMAIN r.row[j].parts : Becomes(x.row[i].parts[k], r.row[j].parts[l], way)
    BY <1>1, <1>3 DEF From
  <2>2. r.row[j].parts[l].is \in HiddenIs
    BY <1>1, <2>1 DEF SafeFor, Becomes
  <2> QED BY <2>1, <2>2, HiddenFacts DEF Becomes
<1> QED BY <1>2, <1>3

LEMMA KeepsUnderKey ==
  ASSUME NEW r, NEW x, NEW way, ~Moves(way), Descends(x, r, way), NEW c, c[1] # "added", UnderKey(r, c)
  PROVE  UnderKey(x, c)
<1> SUFFICES ASSUME NEW i \in DOMAIN x.row, x.row[i].of = c[1], NEW k \in DOMAIN x.row[i].parts,
                    x.row[i].parts[k].at = c[2], x.row[i].parts[k].is \notin HiddenIs
             PROVE  k = c[2]
  BY DEF UnderKey
<1>1. PICK j \in DOMAIN r.row : x.row[i].of = r.row[j].of /\ From(x.row[i].parts, r.row[j].parts, way)
  BY DEF Descends
<1>2. k \in DOMAIN r.row[j].parts /\ Becomes(x.row[i].parts[k], r.row[j].parts[k], way)
  BY <1>1, HiddenFacts DEF From
<1>3. r.row[j].parts[k].at = c[2] /\ r.row[j].parts[k].is \notin HiddenIs
  BY <1>2, HiddenFacts DEF Becomes
<1> QED BY <1>1, <1>2, <1>3 DEF UnderKey

\* The cells of a record with other columns, or without cells, are as they were.
LEMMA CellOf ==
  ASSUME NEW r, Fitting(r), NEW i \in DOMAIN r.row
  PROVE  i \in Columns(r) /\ r.row[i].of = r.columns[i].of /\ IsCell(r.row[i])
<1>1. r.row # << >>
  OBVIOUS
<1>2. i \in 1..Len(r.columns) /\ Columns(r) = 1..Len(r.columns)
  BY <1>1, EmptyFits
<1> QED BY <1>1, <1>2 DEF Fitting, RowFits

\* What a pass over the whole columns and one over the paths make of a cell.
Passed(r, y, z, f, g, whole, paths, i) ==
  /\ DOMAIN y.row = DOMAIN r.row /\ DOMAIN z.row = DOMAIN r.row
  /\ y.row[i].of = r.row[i].of /\ z.row[i].of = r.row[i].of
  /\ y.row[i].parts = IF i \in whole THEN f[i] ELSE r.row[i].parts
  /\ i \notin whole => y.row[i] = r.row[i]
  /\ z.row[i].parts = IF i \in paths THEN g[i] ELSE y.row[i].parts

LEMMA TwoPasses ==
  ASSUME NEW r, Fitting(r), NEW y, NEW z, NEW f, NEW g, NEW whole, NEW paths,
         y = Through(r, whole, f), z = Through(y, paths, g), NEW i \in DOMAIN r.row
  PROVE  Passed(r, y, z, f, g, whole, paths, i)
<1> DEFINE w == [j \in DOMAIN r.row |-> IF j \in whole THEN [r.row[j] EXCEPT !.parts = f[j]] ELSE r.row[j]]
           v == [j \in DOMAIN y.row |-> IF j \in paths THEN [y.row[j] EXCEPT !.parts = g[j]] ELSE y.row[j]]
<1>1. y = Rec(r.name, r.sensitive, r.columns, w)
  <2>1. y = [r EXCEPT !.row = w]
    BY DEF Through
  <2> HIDE DEF w
  <2> QED BY <2>1 DEF Fitting, Rec
<1>2. y.row = w
  <2> HIDE DEF w
  <2> QED BY <1>1, RecordFields
<1>3. z.row = v
  <2>1. z = [y EXCEPT !.row = v]
    BY DEF Through
  <2>2. "row" \in DOMAIN y
    <3> HIDE DEF w
    <3> QED BY <1>1 DEF Rec
  <2> HIDE DEF v
  <2> QED BY <2>1, <2>2
<1>4. IsCell(r.row[i])
  BY CellOf
<1>5. /\ IsCell(w[i]) /\ w[i].of = r.row[i].of /\ w[i].parts = IF i \in whole THEN f[i] ELSE r.row[i].parts
      /\ i \notin whole => w[i] = r.row[i]
  <2> DEFINE a == r.row[i]
             b == [a EXCEPT !.parts = f[i]]
  <2>1. b = [of |-> a.of, type |-> a.type, parts |-> f[i]]
    BY <1>4 DEF IsCell
  <2>2. w[i] = IF i \in whole THEN b ELSE a
    OBVIOUS
  <2> HIDE DEF w, b
  <2> QED BY <1>4, <2>1, <2>2 DEF IsCell
<1>6. DOMAIN w = DOMAIN r.row
  OBVIOUS
<1> HIDE DEF w
<1>7. v[i].of = w[i].of /\ v[i].parts = IF i \in paths THEN g[i] ELSE w[i].parts
  <2> DEFINE a == w[i]
             b == [a EXCEPT !.parts = g[i]]
  <2>1. b = [of |-> a.of, type |-> a.type, parts |-> g[i]]
    BY <1>5 DEF IsCell
  <2>2. v[i] = IF i \in paths THEN b ELSE a
    BY <1>2, <1>6
  <2> HIDE DEF v, b
  <2> QED BY <2>1, <2>2
<1>8. DOMAIN v = DOMAIN r.row
  BY <1>2, <1>6
<1> QED BY <1>2, <1>3, <1>5, <1>6, <1>7, <1>8 DEF Passed

LEMMA TwoRows ==
  ASSUME NEW r, Fitting(r), NEW y, NEW z, NEW f, NEW g, NEW whole, NEW paths,
         y = Through(r, whole, f), z = Through(y, paths, g)
  PROVE  DOMAIN z.row = DOMAIN r.row
<1> DEFINE w == [j \in DOMAIN r.row |-> IF j \in whole THEN [r.row[j] EXCEPT !.parts = f[j]] ELSE r.row[j]]
           v == [j \in DOMAIN y.row |-> IF j \in paths THEN [y.row[j] EXCEPT !.parts = g[j]] ELSE y.row[j]]
<1>1. y = Rec(r.name, r.sensitive, r.columns, w) /\ DOMAIN w = DOMAIN r.row
  <2>1. y = [r EXCEPT !.row = w] /\ DOMAIN w = DOMAIN r.row
    BY DEF Through
  <2> HIDE DEF w
  <2> QED BY <2>1 DEF Fitting, Rec
<1> HIDE DEF w
<1>2. y.row = w /\ "row" \in DOMAIN y
  <2>1. y.row = w
    BY <1>1, RecordFields
  <2> QED BY <1>1, <2>1 DEF Rec
<1>3. z = [y EXCEPT !.row = v] /\ DOMAIN v = DOMAIN y.row
  BY DEF Through
<1> HIDE DEF v
<1> QED BY <1>1, <1>2, <1>3

LEMMA CasedHides ==
  ASSUME NEW upper, NEW cell, NEW paths, cell.parts # Null, NEW k \in DOMAIN cell.parts
  PROVE  LET v == CasedPath(upper, cell, paths)[k] IN
           v.at = cell.parts[k].at /\ (cell.parts[k].is \in HiddenIs => v.is \in HiddenIs)
<1> DEFINE w == cell.parts[k]
           v == CasedPath(upper, cell, paths)[k]
<1>1. v = w \/ v = Cased(upper, w)
  BY DEF CasedPath
<1> HIDE DEF v, w
<1>2. Becomes(v, w, CaseWay(upper))
  BY <1>1, CasedIs DEF Becomes
<1>3. v.at = w.at /\ (w.is \in HiddenIs => v.is \in HiddenIs)
  BY <1>2, HiddenFacts DEF Becomes
<1> QED BY <1>3 DEF v, w

\* A change of case that does not name the whole column leaves its paths.
LEMMA CaseUnderKey ==
  ASSUME NEW r, Fitting(r), FirstNamed(r), NEW t, ChangeCase(r, t) # Failed,
         NEW c \in r.sensitive, c[1] \notin PlainNames(t.columns), UnderKey(r, c)
  PROVE  UnderKey(ChangeCase(r, t), c)
<1> DEFINE upper == t.kind = "uppercase"
           whole == Plain(r, t.columns)
           paths == Pathed(r, t.columns)
           y == CasedCells(r, whole, t.columns, upper)
           z == CasedPaths(y, paths, t.columns, upper)
           f == [i \in DOMAIN r.row |-> CasedCell(upper, r.row[i])]
           g == [i \in DOMAIN y.row |-> CasedPath(upper, y.row[i], PathsIn(t.columns, y.columns[i].name))]
<1>1. ChangeCase(r, t) = z
  BY DEF ChangeCase, CasedCells, CasedPaths, MapCells
<1>2. \A i \in Columns(r) : r.columns[i].of = c[1] => i \notin whole
  <2>1. c[1] \in NamesIn(r.sensitive)
    BY DEF NamesIn
  <2> QED BY <2>1 DEF FirstNamed, Plain, Named
<1> HIDE DEF whole, paths, upper
<1>3. y = Through(r, whole, f)
  BY DEF CasedCells, MapCells, Through
<1>4. y.columns = r.columns
  <2>1. Touched(y, r, CaseWay(upper))
    BY CasingTouches
  <2> HIDE DEF y
  <2> QED BY <2>1, TouchedFits
<1>5. \A i \in DOMAIN y.row : g[i] = CasedPath(upper, y.row[i], PathsIn(t.columns, y.columns[i].name))
  OBVIOUS
<1> HIDE DEF f
<1>6. z = Through(y, paths, g)
  <2> HIDE DEF y
  <2> QED BY DEF CasedPaths, MapCells, Through
<1> HIDE DEF y, z, g
<1>7. \A i \in DOMAIN r.row : /\ DOMAIN y.row = DOMAIN r.row /\ DOMAIN z.row = DOMAIN r.row
                              /\ z.row[i].of = r.row[i].of /\ (i \notin whole => y.row[i] = r.row[i])
                              /\ z.row[i].parts = IF i \in paths THEN g[i] ELSE y.row[i].parts
  BY <1>3, <1>6, TwoPasses DEF Passed
<1>8. DOMAIN z.row = DOMAIN r.row
  BY <1>3, <1>4, <1>6, TwoRows
<1> SUFFICES ASSUME NEW i \in DOMAIN r.row, z.row[i].of = c[1], NEW k \in DOMAIN z.row[i].parts,
                    z.row[i].parts[k].at = c[2], z.row[i].parts[k].is \notin HiddenIs
             PROVE  k = c[2]
  BY <1>1, <1>8 DEF UnderKey
<1>9. r.row[i].of = c[1] /\ y.row[i] = r.row[i]
  BY <1>2, <1>7, CellOf
<1> DEFINE p == r.row[i].parts
<1>10. k \in DOMAIN p /\ p[k].at = c[2] /\ p[k].is \notin HiddenIs
  <2>1. CASE i \notin paths
    BY <1>7, <1>9, <2>1
  <2>2. CASE i \in paths
    <3> DEFINE ps == PathsIn(t.columns, y.columns[i].name)
    <3>1. z.row[i].parts = CasedPath(upper, r.row[i], ps)
      BY <1>5, <1>7, <1>9, <2>2
    <3> HIDE DEF ps
    <3>2. p # Null /\ k \in DOMAIN p
      <4>1. CASE p = Null
        <5>1. z.row[i].parts = Null /\ DOMAIN Null = {}
          BY <3>1, <4>1 DEF CasedPath, Null
        <5> QED BY <5>1
      <4>2. CASE p # Null
        BY <3>1, <4>2 DEF CasedPath
      <4> QED BY <4>1, <4>2
    <3> QED BY <3>1, <3>2, CasedHides
  <2> QED BY <2>1, <2>2
<1> QED BY <1>9, <1>10 DEF UnderKey

LEMMA HiddenWhole ==
  \A cell, paths : \A l \in DOMAIN Hidden(cell, paths) : Hidden(cell, paths)[l].is \in HiddenIs
<1> TAKE cell, paths
<1> DEFINE q == Hidden(cell, paths)
<1>1. q = Null \/ q = [rest |-> Was("rest", "hidden")]
  BY DEF Hidden
<1> HIDE DEF q
<1>2. \A l \in DOMAIN q : q[l].is \in HiddenIs
  BY <1>1 DEF Null, Was, HiddenIs
<1> QED BY <1>2 DEF q

PathHides(cell, paths, q, k) ==
  /\ k \in DOMAIN cell.parts /\ q[k].at = cell.parts[k].at
  /\ q[k].is \in HiddenIs \/ (q[k] = cell.parts[k] /\ k \notin paths)

LEMMA HiddenThere ==
  \A cell, paths : \A k \in DOMAIN HiddenPath(cell, paths) : PathHides(cell, paths, HiddenPath(cell, paths), k)
<1> TAKE cell, paths
<1> DEFINE p == cell.parts
           q == HiddenPath(cell, paths)
<1>1. CASE p = Null
  BY <1>1 DEF HiddenPath, Null
<1>2. CASE p # Null
  <2> SUFFICES ASSUME NEW k \in DOMAIN p PROVE PathHides(cell, paths, q, k)
    BY <1>2 DEF HiddenPath
  <2>1. q[k] = IF k \in paths THEN Was(p[k].at, "hidden") ELSE p[k]
    BY <1>2 DEF HiddenPath
  <2> HIDE DEF q
  <2> QED BY <2>1 DEF PathHides, Was, HiddenIs
<1> QED BY <1>1, <1>2

LEMMA SensitiveSafe ==
  ASSUME NEW r, Fitting(r), FirstNamed(r), ObfuscateSensitiveColumns(r) # Failed,
         NEW c \in r.sensitive, c[2] = "" \/ UnderKey(r, c)
  PROVE  SafeFor(ObfuscateSensitiveColumns(r), c)
<1> DEFINE refs == r.sensitive
           whole == Plain(r, refs)
           paths == Pathed(r, refs)
           y == MapCells(r, whole, refs, Hidden)
           z == MapCells(y, paths, refs, HiddenPath)
           f == [i \in DOMAIN r.row |-> Hidden(r.row[i], PathsIn(refs, r.columns[i].name))]
           g == [i \in DOMAIN y.row |-> HiddenPath(y.row[i], PathsIn(refs, y.columns[i].name))]
<1>1. ObfuscateSensitiveColumns(r) = z
  BY DEF ObfuscateSensitiveColumns, ObfuscateColumns
<1>2. ASSUME NEW i \in Columns(r), r.columns[i].of = c[1]
      PROVE  \/ i \in whole
             \/ i \notin whole /\ i \in paths /\ c[2] \in PathsIn(refs, r.columns[i].name)
  <2>1. r.columns[i].name = c[1] /\ \A k \in 1..i - 1 : r.columns[k].name # r.columns[i].name
    BY <1>2 DEF NamesIn, FirstNamed
  <2>2. CASE c[1] \in PlainNames(refs)
    BY <2>1, <2>2 DEF Plain, Named
  <2>3. CASE c[1] \notin PlainNames(refs)
    <3>1. c[2] # ""
      BY <2>3 DEF PlainNames
    <3>2. i \in paths /\ c[2] \in PathsIn(refs, c[1])
      BY <2>1, <2>3, <3>1 DEF Pathed, PathsIn
    <3>3. i \notin whole
      BY <2>1, <2>3 DEF Plain, Named
    <3> QED BY <2>1, <3>2, <3>3
  <2> QED BY <2>2, <2>3
<1> HIDE DEF refs, whole, paths
<1>3. y = Through(r, whole, f)
  BY DEF MapCells, Through
<1>4. Touched(y, r, Quiet) /\ Fitting(y) /\ y.columns = r.columns
  <2>1. Touched(y, r, Quiet)
    BY HidingTouches
  <2> HIDE DEF y
  <2> QED BY <2>1, TouchedFits
<1>5. (\A i \in DOMAIN y.row : g[i] = HiddenPath(y.row[i], PathsIn(refs, y.columns[i].name)))
      /\ \A i \in DOMAIN r.row : f[i] = Hidden(r.row[i], PathsIn(refs, r.columns[i].name))
  OBVIOUS
<1> HIDE DEF f
<1>6. z = Through(y, paths, g)
  <2> HIDE DEF y
  <2> QED BY DEF MapCells, Through
<1>7. Touched(z, y, Quiet)
  <2> HIDE DEF y
  <2> QED BY <1>4, HidingPathsTouches
<1> HIDE DEF y, z, g
<1>9. DOMAIN z.row = DOMAIN r.row
  BY <1>3, <1>4, <1>6, TwoRows
<1> SUFFICES ASSUME NEW i \in DOMAIN r.row, z.row[i].of = c[1], NEW k \in DOMAIN z.row[i].parts,
                    c[2] = "" \/ c[2] = z.row[i].parts[k].at
             PROVE  z.row[i].parts[k].is \in HiddenIs
  BY <1>1, <1>9 DEF SafeFor
<1>8. Passed(r, y, z, f, g, whole, paths, i)
  BY <1>3, <1>6, TwoPasses
<1>10. r.row[i].of = c[1] /\ i \in Columns(r) /\ r.columns[i].of = c[1]
  BY <1>8, CellOf DEF Passed
<1>11. CASE i \in whole
  <2>1. y.row[i].parts = Hidden(r.row[i], PathsIn(refs, r.columns[i].name))
    BY <1>5, <1>8, <1>11 DEF Passed
  <2>2. \A l \in DOMAIN y.row[i].parts : y.row[i].parts[l].is \in HiddenIs
    BY <2>1, HiddenWhole
  <2>3. From(z.row[i].parts, y.row[i].parts, Quiet)
    BY <1>7, <1>8 DEF Touched, Passed
  <2>4. CASE z.row[i].parts[k].is \in MarksIn(Quiet)
    BY <2>4, HiddenFacts
  <2>5. CASE \E l \in DOMAIN y.row[i].parts : Becomes(z.row[i].parts[k], y.row[i].parts[l], Quiet)
    BY <2>2, <2>5, HiddenFacts DEF Becomes
  <2> QED BY <2>3, <2>4, <2>5 DEF From
<1>12. CASE i \notin whole
  <2> DEFINE ps == PathsIn(refs, y.columns[i].name)
  <2>1. i \in paths /\ c[2] \in ps
    BY <1>2, <1>4, <1>10, <1>12
  <2>2. z.row[i].parts = HiddenPath(r.row[i], ps)
    BY <1>5, <1>8, <1>12, <2>1 DEF Passed
  <2>3. c[2] # ""
    BY <2>1 DEF PathsIn
  <2> HIDE DEF ps
  <2>4. PathHides(r.row[i], ps, z.row[i].parts, k)
    BY <2>2, HiddenThere
  <2>5. CASE z.row[i].parts[k] = r.row[i].parts[k] /\ k \notin ps
    <3>1. r.row[i].parts[k].at = c[2] /\ k # c[2] /\ k \in DOMAIN r.row[i].parts
      BY <2>1, <2>3, <2>4, <2>5 DEF PathHides
    <3> QED BY <1>10, <2>3, <2>5, <3>1 DEF UnderKey
  <2> QED BY <2>4, <2>5 DEF PathHides
<1> QED BY <1>11, <1>12

-----------------------------------------------------------------------------
(* Transformers: Apply. *)

WayOf(t) ==
  CASE t.kind = "remove_columns" -> Lossy
    [] t.kind = "uppercase" -> Loud
    [] t.kind \in {"lowercase", "flatten"} -> Shifted
    [] OTHER -> Quiet

LEMMA NotForThis ==
  ASSUME NEW t, NEW r, r = Failed \/ ~Matches(t, r)
  PROVE  Apply(t, r) = r
BY Zenon DEF Apply

LEMMA ApplyIs ==
  ASSUME NEW t, NEW r, r # Failed, Matches(t, r)
  PROVE
    /\ t.kind = "remove_columns" => Apply(t, r) = RemoveColumns(r, t)
    /\ t.kind = "add_column" => Apply(t, r) = AddColumn(r, NewColumn(t.name, "string", FALSE))
    /\ t.kind = "add_current_timestamp_column" => Apply(t, r) = AddColumn(r, NewColumn(t.name, "timestamp", TRUE))
    /\ t.kind = "add_primary_keys" => Apply(t, r) = AddPrimaryKeys(r, PlainNames(t.columns))
    /\ t.kind = "obfuscate_columns" => Apply(t, r) = ObfuscateColumns(r, t.columns)
    /\ t.kind = "obfuscate_sensitive_columns" => Apply(t, r) = ObfuscateSensitiveColumns(r)
    /\ t.kind = "change_table_names" => Apply(t, r) = ChangeTableName(r, t.template)
    /\ t.kind = "rename_column" => Apply(t, r) = RenameColumn(r, t.name, t.value)
    /\ t.kind = "drop_rows" => Apply(t, r) = DropRows(r, t)
    /\ t.kind = "flatten" => Apply(t, r) = FlattenJSONFields(r)
    /\ t.kind \in {"uppercase", "lowercase"} => Apply(t, r) = ChangeCase(r, t)
<1> DEFINE kind == t.kind
<1>1. ASSUME kind = "remove_columns" PROVE Apply(t, r) = RemoveColumns(r, t)
  BY <1>1, Zenon DEF Apply
<1>2. ASSUME kind = "add_column" PROVE Apply(t, r) = AddColumn(r, NewColumn(t.name, "string", FALSE))
  BY <1>2, Zenon DEF Apply
<1>3. ASSUME kind = "add_current_timestamp_column" PROVE Apply(t, r) = AddColumn(r, NewColumn(t.name, "timestamp", TRUE))
  BY <1>3, Zenon DEF Apply
<1>4. ASSUME kind = "add_primary_keys" PROVE Apply(t, r) = AddPrimaryKeys(r, PlainNames(t.columns))
  BY <1>4, Zenon DEF Apply
<1>5. ASSUME kind = "obfuscate_columns" PROVE Apply(t, r) = ObfuscateColumns(r, t.columns)
  BY <1>5, Zenon DEF Apply
<1>6. ASSUME kind = "obfuscate_sensitive_columns" PROVE Apply(t, r) = ObfuscateSensitiveColumns(r)
  BY <1>6, Zenon DEF Apply
<1>7. ASSUME kind = "change_table_names" PROVE Apply(t, r) = ChangeTableName(r, t.template)
  BY <1>7, Zenon DEF Apply
<1>8. ASSUME kind = "rename_column" PROVE Apply(t, r) = RenameColumn(r, t.name, t.value)
  BY <1>8, Zenon DEF Apply
<1>9. ASSUME kind = "drop_rows" PROVE Apply(t, r) = DropRows(r, t)
  BY <1>9, Zenon DEF Apply
<1>10. ASSUME kind = "flatten" PROVE Apply(t, r) = FlattenJSONFields(r)
  BY <1>10, Zenon DEF Apply
<1>11. ASSUME kind \in {"uppercase", "lowercase"} PROVE Apply(t, r) = ChangeCase(r, t)
  BY <1>11, Zenon DEF Apply
<1> QED BY <1>1, <1>2, <1>3, <1>4, <1>5, <1>6, <1>7, <1>8, <1>9, <1>10, <1>11, Zenon

LEMMA ValidKinds ==
  ASSUME NEW t, Valid(t)
  PROVE  t.kind \in {"remove_columns", "add_column", "add_current_timestamp_column", "add_primary_keys",
                     "obfuscate_columns", "obfuscate_sensitive_columns", "change_table_names", "rename_column",
                     "drop_rows", "flatten", "uppercase", "lowercase"}
BY DEF Valid, Needed

CaseChanges == {"uppercase", "lowercase"}

\* What a transformation does to a record and to its schema.
Transforms(t, r, x, y) ==
  /\ Good(x, y, r, WayOf(t)) \/ (x = Failed /\ t.kind = "flatten" /\ ~AllJSON(r))
  /\ x # Failed /\ FirstNamed(r) /\ t.kind \notin {"rename_column", "flatten"} => FirstNamed(x)
  /\ x # Failed /\ FirstNamed(r) /\ t.kind \in CaseChanges =>
       \A c \in r.sensitive : UnderKey(r, c) /\ c[1] \notin PlainNames(t.columns) => UnderKey(x, c)
  /\ x # Failed /\ FirstNamed(r) /\ t.kind = "obfuscate_sensitive_columns" /\ t.tables = <<"*">> =>
       \A c \in r.sensitive : c[2] = "" \/ UnderKey(r, c) => SafeFor(x, c)

LEMMA ApplyTransforms ==
  ASSUME NEW t, Valid(t), NEW r, Fitting(r)
  PROVE  Transforms(t, r, Apply(t, r), Apply(t, EmptyRecord(r)))
<1> DEFINE e == EmptyRecord(r)
           x == Apply(t, r)
           y == Apply(t, e)
<1>1. r # Failed /\ e # Failed /\ e.name = r.name
  BY EmptyFits
<1>2. Matches(t, e) <=> Matches(t, r)
  BY <1>1 DEF Matches
<1>3. CASE ~Matches(t, r)
  <2>1. x = r /\ y = e
    BY <1>1, <1>2, <1>3, NotForThis
  <2>2. t.tables # <<"*">>
    BY <1>3 DEF Matches
  <2>3. Good(r, e, r, WayOf(t))
    BY FromItself DEF Good, Descends
  <2> QED BY <2>1, <2>2, <2>3 DEF Transforms
<1>4. CASE Matches(t, r)
  <2>0. Matches(t, e)
    BY <1>2, <1>4
  <2> HIDE DEF e
  <2>1. ASSUME t.kind = "remove_columns" PROVE Transforms(t, r, x, y)
    <3>1. x = RemoveColumns(r, t) /\ y = RemoveColumns(e, t)
      BY <1>1, <1>4, <2>0, <2>1, ApplyIs
    <3> HIDE DEF x, y
    <3>2. Good(x, y, r, Lossy) /\ (x # Failed /\ FirstNamed(r) => FirstNamed(x))
      BY <3>1, RemoveGood DEF e
    <3> QED BY <3>2, <2>1 DEF Transforms, WayOf, CaseChanges
  <2>2. ASSUME t.kind = "add_column" PROVE Transforms(t, r, x, y)
    <3>1. x = AddColumn(r, NewColumn(t.name, "string", FALSE)) /\ y = AddColumn(e, NewColumn(t.name, "string", FALSE))
      BY <1>1, <1>4, <2>0, <2>2, ApplyIs
    <3> HIDE DEF x, y
    <3>2. Good(x, y, r, Quiet) /\ (x # Failed /\ FirstNamed(r) => FirstNamed(x))
      BY <3>1, AddColumnGood, NewColumnIs DEF e
    <3> QED BY <3>2, <2>2 DEF Transforms, WayOf, CaseChanges
  <2>3. ASSUME t.kind = "add_current_timestamp_column" PROVE Transforms(t, r, x, y)
    <3>1. x = AddColumn(r, NewColumn(t.name, "timestamp", TRUE)) /\ y = AddColumn(e, NewColumn(t.name, "timestamp", TRUE))
      BY <1>1, <1>4, <2>0, <2>3, ApplyIs
    <3> HIDE DEF x, y
    <3>2. Good(x, y, r, Quiet) /\ (x # Failed /\ FirstNamed(r) => FirstNamed(x))
      BY <3>1, AddColumnGood, NewColumnIs DEF e
    <3> QED BY <3>2, <2>3 DEF Transforms, WayOf, CaseChanges
  <2>4. ASSUME t.kind = "add_primary_keys" PROVE Transforms(t, r, x, y)
    <3>1. x = AddPrimaryKeys(r, PlainNames(t.columns)) /\ y = AddPrimaryKeys(e, PlainNames(t.columns))
      BY <1>1, <1>4, <2>0, <2>4, ApplyIs
    <3> HIDE DEF x, y
    <3>2. Good(x, y, r, Quiet) /\ (x # Failed /\ FirstNamed(r) => FirstNamed(x))
      BY <3>1, AddPrimaryKeysGood DEF e
    <3> QED BY <3>2, <2>4 DEF Transforms, WayOf, CaseChanges
  <2>5. ASSUME t.kind = "obfuscate_columns" PROVE Transforms(t, r, x, y)
    <3>1. x = ObfuscateColumns(r, t.columns) /\ y = ObfuscateColumns(e, t.columns)
      BY <1>1, <1>4, <2>0, <2>5, ApplyIs
    <3> HIDE DEF x, y
    <3>2. Good(x, y, r, Quiet) /\ (x # Failed /\ FirstNamed(r) => FirstNamed(x))
      BY <3>1, ObfuscateGood DEF e
    <3> QED BY <3>2, <2>5 DEF Transforms, WayOf, CaseChanges
  <2>6. ASSUME t.kind = "obfuscate_sensitive_columns" PROVE Transforms(t, r, x, y)
    <3>1. x = ObfuscateSensitiveColumns(r) /\ y = ObfuscateSensitiveColumns(e)
      BY <1>1, <1>4, <2>0, <2>6, ApplyIs
    <3> DEFINE refs == r.sensitive
    <3>2. x = ObfuscateColumns(r, refs) /\ y = ObfuscateColumns(e, refs)
      <4>1. e.sensitive = r.sensitive
        BY EmptyFits DEF e
      <4> QED BY <3>1, <4>1 DEF ObfuscateSensitiveColumns
    <3> HIDE DEF refs, x, y
    <3>3. Good(x, y, r, Quiet) /\ (x # Failed /\ FirstNamed(r) => FirstNamed(x))
      BY <3>2, ObfuscateGood DEF e
    <3>4. x # Failed /\ FirstNamed(r) => \A c \in r.sensitive : c[2] = "" \/ UnderKey(r, c) => SafeFor(x, c)
      BY <3>1, SensitiveSafe
    <3> QED BY <3>3, <3>4, <2>6 DEF Transforms, WayOf, CaseChanges
  <2>7. ASSUME t.kind = "change_table_names" PROVE Transforms(t, r, x, y)
    <3>1. x = ChangeTableName(r, t.template) /\ y = ChangeTableName(e, t.template)
      BY <1>1, <1>4, <2>0, <2>7, ApplyIs
    <3> HIDE DEF x, y
    <3>2. Good(x, y, r, Quiet) /\ (x # Failed /\ FirstNamed(r) => FirstNamed(x))
      BY <3>1, ChangeTableNameGood DEF e
    <3> QED BY <3>2, <2>7 DEF Transforms, WayOf, CaseChanges
  <2>8. ASSUME t.kind = "rename_column" PROVE Transforms(t, r, x, y)
    <3>1. x = RenameColumn(r, t.name, t.value) /\ y = RenameColumn(e, t.name, t.value)
      BY <1>1, <1>4, <2>0, <2>8, ApplyIs
    <3> HIDE DEF x, y
    <3>2. Good(x, y, r, Quiet)
      BY <3>1, RenameColumnGood DEF e
    <3> QED BY <3>2, <2>8 DEF Transforms, WayOf, CaseChanges
  <2>9. ASSUME t.kind = "drop_rows" PROVE Transforms(t, r, x, y)
    <3>1. x = DropRows(r, t) /\ y = DropRows(e, t)
      BY <1>1, <1>4, <2>0, <2>9, ApplyIs
    <3> HIDE DEF x, y
    <3>2. Good(x, y, r, Quiet) /\ (x # Failed /\ FirstNamed(r) => FirstNamed(x))
      BY <3>1, DropRowsGood DEF e
    <3> QED BY <3>2, <2>9 DEF Transforms, WayOf, CaseChanges
  <2>10. ASSUME t.kind = "flatten" PROVE Transforms(t, r, x, y)
    <3>1. x = FlattenJSONFields(r) /\ y = FlattenJSONFields(e)
      BY <1>1, <1>4, <2>0, <2>10, ApplyIs
    <3> HIDE DEF x, y
    <3>2. Good(x, y, r, Shifted) \/ (x = Failed /\ ~AllJSON(r))
      BY <3>1, FlattenGood DEF e
    <3> QED BY <3>2, <2>10 DEF Transforms, WayOf, CaseChanges
  <2>11. ASSUME t.kind \in {"uppercase", "lowercase"} PROVE Transforms(t, r, x, y)
    <3>1. x = ChangeCase(r, t) /\ y = ChangeCase(e, t)
      BY <1>1, <1>4, <2>0, <2>11, ApplyIs
    <3> HIDE DEF x, y
    <3>2. Good(x, y, r, CaseWay(t.kind = "uppercase")) /\ (x # Failed /\ FirstNamed(r) => FirstNamed(x))
      BY <3>1, ChangeCaseGood DEF e
    <3>3. CaseWay(t.kind = "uppercase") = WayOf(t)
      BY <2>11 DEF CaseWay, WayOf
    <3>4. x # Failed /\ FirstNamed(r) =>
            \A c \in r.sensitive : UnderKey(r, c) /\ c[1] \notin PlainNames(t.columns) => UnderKey(x, c)
      BY <3>1, CaseUnderKey
    <3> QED BY <3>2, <3>3, <3>4, <2>11 DEF Transforms
  <2> HIDE DEF x, y
  <2>12. Transforms(t, r, x, y)
    BY ValidKinds, <2>1, <2>2, <2>3, <2>4, <2>5, <2>6, <2>7, <2>8, <2>9, <2>10, <2>11
  <2> QED BY <2>12 DEF x, y, e
<1> QED BY <1>3, <1>4

-----------------------------------------------------------------------------
(* Transformers: the schema after each transformation. *)

Stages(f, r, ts, n) == f = [k \in 0..n |-> IF k = 0 THEN r ELSE Apply(ts[k], f[k - 1])]

LEMMA StagesExist ==
  ASSUME NEW r, NEW ts, NEW n \in Nat
  PROVE  \E f : Stages(f, r, ts, n)
<1> DEFINE T == {m \in 0..n : \E f : Stages(f, r, ts, m)}
<1>1. 0 \in T
  <2> DEFINE g == [k \in 0..0 |-> r]
  <2>1. g = [k \in 0..0 |-> IF k = 0 THEN r ELSE Apply(ts[k], g[k - 1])]
    OBVIOUS
  <2>2. Stages(g, r, ts, 0)
    BY <2>1 DEF Stages
  <2> QED BY <2>2
<1>2. ASSUME NEW m \in 0..n, m < n, m \in T PROVE m + 1 \in T
  <2>1. PICK f : Stages(f, r, ts, m)
    BY <1>2
  <2> DEFINE g == [k \in 0..m + 1 |-> IF k = m + 1 THEN Apply(ts[m + 1], f[m]) ELSE f[k]]
  <2>2. \A k \in 0..m : f[k] = IF k = 0 THEN r ELSE Apply(ts[k], f[k - 1])
    BY <2>1 DEF Stages
  <2>3. ASSUME NEW k \in 0..m + 1
        PROVE  g[k] = IF k = 0 THEN r ELSE Apply(ts[k], g[k - 1])
    <3>1. CASE k = m + 1
      <4>1. g[k] = Apply(ts[m + 1], f[m]) /\ g[k - 1] = f[m] /\ k # 0
        BY <3>1
      <4> QED BY <3>1, <4>1
    <3>2. CASE k # m + 1
      <4>1. k \in 0..m /\ g[k] = f[k] /\ (k # 0 => g[k - 1] = f[k - 1])
        BY <3>2
      <4> QED BY <2>2, <4>1
    <3> QED BY <3>1, <3>2
  <2>4. g = [k \in 0..m + 1 |-> g[k]]
    OBVIOUS
  <2> HIDE DEF g
  <2>5. Stages(g, r, ts, m + 1)
    BY <2>3, <2>4 DEF Stages
  <2> QED BY <1>2, <2>5
<1> HIDE DEF T
<1>3. T \in SUBSET (0..n)
  BY DEF T
<1>4. T = 0..n
  BY <1>1, <1>2, <1>3, Upwards
<1> QED BY <1>4 DEF T

\* From s, after m transformations, the others lead to q.
Leads(ts, m, s, q) ==
  \E f : /\ \A k \in 1..Len(ts) : f[k] = Apply(ts[k], f[k - 1])
         /\ f[m] = s /\ f[Len(ts)] = q
         /\ \A k \in 0..Len(ts) : f[k] # Failed

LEMMA SchemaLeads ==
  ASSUME NEW r, NEW ts, Len(ts) \in Nat, Transformed(r, ts) # Failed
  PROVE  Leads(ts, 0, r, Transformed(r, ts))
<1> DEFINE n == Len(ts)
           f == CHOOSE f : Stages(f, r, ts, n)
           T == {k \in 0..n : f[n - k] # Failed}
<1>1. Transformed(r, ts) = f[n]
  BY DEF Transformed, Stages
<1>2. Stages(f, r, ts, n)
  <2>1. \E g : Stages(g, r, ts, n)
    BY StagesExist
  <2> QED BY <2>1
<1> HIDE DEF f
<1>3. \A k \in 0..n : f[k] = IF k = 0 THEN r ELSE Apply(ts[k], f[k - 1])
  BY <1>2 DEF Stages
<1>4. 0 \in T
  BY <1>1
<1>5. ASSUME NEW k \in 0..n, k < n, k \in T PROVE k + 1 \in T
  <2> DEFINE i == n - k
  <2>1. i \in 0..n /\ i # 0 /\ i - 1 = n - (k + 1) /\ k + 1 \in 0..n
    BY <1>5
  <2>2. f[i] # Failed /\ f[i] = Apply(ts[i], f[i - 1])
    BY <1>3, <1>5, <2>1
  <2>3. f[i - 1] = Failed => Apply(ts[i], f[i - 1]) = Failed
    BY NotForThis
  <2> QED BY <2>1, <2>2, <2>3
<1> HIDE DEF T
<1>6. T = 0..n
  <2>1. T \in SUBSET (0..n)
    BY DEF T
  <2> QED BY <1>4, <1>5, <2>1, Upwards
<1>7. ASSUME NEW k \in 0..n PROVE f[k] # Failed
  <2>1. n - k \in T /\ n - (n - k) = k
    BY <1>6
  <2> QED BY <2>1 DEF T
<1>8. f[0] = r /\ \A k \in 1..n : f[k] = Apply(ts[k], f[k - 1])
  BY <1>3
<1> QED BY <1>1, <1>7, <1>8 DEF Leads

-----------------------------------------------------------------------------
(* Transformers: the inductive invariant. *)

\* A record that has become the text "(null)" by remove_columns, or has words in
\* upper case, may fail.
Spoils == {"remove_columns", "uppercase"}
MayFail(ts, m) == \E i, k \in 1..m : i < k /\ ts[i].kind \in Spoils /\ ts[k].kind = "flatten"

Renames(t) == t.kind \in {"rename_column", "flatten"}

\* The case of the whole column of c, and so that of the keys in it.
Rekeys(t, c) == t.kind \in CaseChanges /\ c[1] \in PlainNames(t.columns)

\* obfuscate_sensitive_columns, before c has got another name.
HidesFor(ts, i, c) ==
  /\ ts[i].kind = "obfuscate_sensitive_columns" /\ ts[i].tables = <<"*">>
  /\ \A k \in 1..i - 1 : ~Renames(ts[k]) /\ (c[2] = "" \/ ~Rekeys(ts[k], c))

\* What the first m transformations of ts have left of r.
Cells(ts, m, r) ==
  /\ AllJSON(r) \/ \E i \in 1..m : ts[i].kind \in Spoils
  /\ FirstNamed(r) \/ \E i \in 1..m : Renames(ts[i])
  /\ \A c \in r.sensitive : UnderKey(r, c) \/ \E i \in 1..m : Renames(ts[i]) \/ Rekeys(ts[i], c)
  /\ \A c \in r.sensitive : (\E i \in 1..m : HidesFor(ts, i, c)) => SafeFor(r, c)

BasicStateInv(ts, r, m, q, o) ==
  /\ o \in {"validate", "schema", "transform", "sent", "skipped", "failed"}
  /\ Len(ts) \in Nat /\ DOMAIN ts = 1..Len(ts) /\ m \in 0..Len(ts)
  /\ o \in {"validate", "schema"} => m = 0
  /\ o \in {"schema", "transform", "sent", "skipped"} => \A i \in 1..Len(ts) : Valid(ts[i])
  /\ o # "failed" => Fitting(r) /\ Cells(ts, m, r)
  /\ o \in {"transform", "sent", "skipped"} => Leads(ts, m, EmptyRecord(r), q)
  /\ o = "sent" => m = Len(ts) /\ r.row # << >>
  /\ r = Failed => MayFail(ts, m)

BasicInv == BasicStateInv(recipe, rec, done, promise, outcome)

LEMMA CellIs ==
  ASSUME NEW d, NEW isNull, NEW held
  PROVE  /\ IsCell(Cell(d, isNull, held)) /\ Cell(d, isNull, held).of = d.of /\ Cell(d, isNull, held).type = d.type
         /\ \A k \in DOMAIN Cell(d, isNull, held).parts : Cell(d, isNull, held).parts[k] = Was(k, "clear")
<1> DEFINE p == IF isNull THEN Null ELSE [k \in {"rest"} \cup (IF d.type = "json" THEN held ELSE {}) |-> Was(k, "clear")]
<1>1. Cell(d, isNull, held) = [of |-> d.of, type |-> d.type, parts |-> p]
  BY DEF Cell
<1>2. \A k \in DOMAIN p : p[k] = Was(k, "clear")
  BY DEF Null
<1> HIDE DEF p
<1> QED BY <1>1, <1>2 DEF IsCell

LEMMA SourceRecordIs ==
  ASSUME NEW nulls, NEW held, NEW s, "added" \notin NamesIn(s)
  PROVE  LET r == SourceRecord(nulls, held, s)
         IN  Fitting(r) /\ AllJSON(r) /\ FirstNamed(r) /\ \A c : UnderKey(r, c)
<1> DEFINE c == SourceColumns
           w == [i \in DOMAIN c |-> Cell(c[i], c[i].name \in nulls, held)]
           r == SourceRecord(nulls, held, s)
<1>1. c = [i \in 1..3 |-> c[i]] /\ DOMAIN c = 1..3
  BY DEF SourceColumns
<1>2. \A i \in 1..3 : IsColumn(c[i]) /\ c[i].name = c[i].of
  BY DEF SourceColumns, IsColumn
<1>3. \A i, k \in 1..3 : k # i => c[k].name # c[i].name
  BY DEF SourceColumns
<1>5. r = Rec(<<"t">>, s, c, w)
  BY DEF SourceRecord, Rec
<1> HIDE DEF c, r
<1>6. w = [i \in 1..3 |-> w[i]] /\ DOMAIN w = 1..3 /\ \A i \in 1..3 : w[i] = Cell(c[i], c[i].name \in nulls, held)
  BY <1>1
<1> HIDE DEF w
<1>7. ColumnsTyped(c, 3)
  BY <1>1, <1>2 DEF ColumnsTyped
<1>8. RowFits(w, c, 3)
  BY <1>6, CellIs DEF RowFits
<1> DEFINE nm == <<"t">>
<1> HIDE DEF nm
<1>10. Fitting(r) /\ r.columns = c /\ r.row = w /\ r.sensitive = s
  BY <1>5, <1>7, <1>8, FittingRecord, RecordFields DEF nm
<1>11. \A i \in DOMAIN r.row : \A k \in DOMAIN r.row[i].parts : r.row[i].parts[k] = Was(k, "clear")
  BY <1>6, <1>10, CellIs
<1>12. \A k : ~Odd(Was(k, "clear")) /\ Was(k, "clear").at = k
  BY DEF Odd, Was
<1>13. AllJSON(r) /\ \A d : UnderKey(r, d)
  BY <1>11, <1>12 DEF AllJSON, UnderKey
<1>14. FirstNamed(r)
  <2>1. \A i \in 1..3 : \A k \in 1..i - 1 : k \in 1..3 /\ k # i
    OBVIOUS
  <2> QED BY <2>1, <1>1, <1>2, <1>3, <1>10 DEF FirstNamed, Columns
<1> QED BY <1>10, <1>13, <1>14 DEF r

LEMMA BasicInitInv == BasicInit => BasicInv
<1> SUFFICES ASSUME BasicInit PROVE BasicInv
  OBVIOUS
<1> DEFINE none == << >>
<1>1. recipe = none /\ done = 0 /\ outcome = "validate" 
      /\ \E nulls, held, s : "added" \notin NamesIn(s) /\ rec = SourceRecord(nulls, held, s)
  <2>1. PICK nulls \in SUBSET {"s", "j"}, held \in Contents, s \in Sensitives : rec = SourceRecord(nulls, held, s)
    BY DEF BasicInit
  <2>2. "added" \notin NamesIn(s)
    BY BasicAssumption DEF NamesIn
  <2> QED BY <2>1, <2>2 DEF BasicInit
<1>2. Len(none) = 0 /\ DOMAIN none = 1..0
  OBVIOUS
<1> HIDE DEF none
<1>3. Fitting(rec) /\ AllJSON(rec) /\ FirstNamed(rec) /\ \A c : UnderKey(rec, c)
  BY <1>1, SourceRecordIs
<1>4. rec # Failed
  BY <1>3, EmptyFits
<1>5. Cells(none, 0, rec)
  BY <1>3 DEF Cells
<1> QED BY <1>1, <1>2, <1>3, <1>4, <1>5 DEF BasicInv, BasicStateInv

LEMMA NewTransformerInv ==
  ASSUME BasicInv, NewTransformer
  PROVE  BasicInv'
<1>1. outcome = "validate" /\ done = 0 /\ rec' = rec /\ done' = done /\ promise' = promise
  BY DEF NewTransformer, BasicInv, BasicStateInv
<1>2. PICK n, ts : /\ n \in Nat /\ ts = [i \in 1..n |-> ts[i]] /\ recipe' = ts
                     /\ outcome' = IF \A i \in 1..n : Valid(ts[i]) THEN "schema" ELSE "failed"
  <2>1. PICK n \in 0..MaxTransformations : \E ts \in [1..n -> Transformations] :
          /\ recipe' = ts
          /\ outcome' = IF \A i \in 1..n : Valid(ts[i]) THEN "schema" ELSE "failed"
    BY DEF NewTransformer
  <2>2. n \in Nat
    BY BasicAssumption
  <2> QED BY <2>1, <2>2
<1>3. Len(ts) = n /\ DOMAIN ts = 1..n
  BY <1>2, ListIs
<1>4. Fitting(rec) /\ Cells(recipe, 0, rec)
  BY <1>1 DEF BasicInv, BasicStateInv
<1>5. Cells(ts, 0, rec)
  BY <1>4 DEF Cells
<1>6. rec # Failed
  BY <1>4, EmptyFits
<1>7. BasicStateInv(ts, rec, 0, promise, outcome')
  BY <1>2, <1>3, <1>4, <1>5, <1>6 DEF BasicStateInv
<1> QED BY <1>1, <1>2, <1>7 DEF BasicInv

LEMMA TransformSchemasInv ==
  ASSUME BasicInv, TransformSchemas
  PROVE  BasicInv'
<1> DEFINE q == Transformed(EmptyRecord(rec), recipe)
<1>1. /\ outcome = "schema" /\ done = 0 /\ rec' = rec /\ done' = done /\ recipe' = recipe
      /\ promise' = q /\ outcome' = (IF q = Failed THEN "failed" ELSE "transform")
  BY DEF TransformSchemas, BasicInv, BasicStateInv
<1>2. Fitting(rec) /\ Len(recipe) \in Nat
  BY <1>1 DEF BasicInv, BasicStateInv
<1> HIDE DEF q
<1>3. q # Failed => Leads(recipe, 0, EmptyRecord(rec), q)
  BY <1>2, SchemaLeads DEF q
<1>4. BasicStateInv(recipe, rec, 0, q, outcome')
  BY <1>1, <1>3 DEF BasicInv, BasicStateInv
<1> QED BY <1>1, <1>4 DEF BasicInv

LEMMA CellsNext ==
  ASSUME NEW ts, NEW m \in Nat, NEW r, NEW x, NEW y, Cells(ts, m, r), Fitting(r), x # Failed,
         Transforms(ts[m + 1], r, x, y)
  PROVE  Fitting(x) /\ EmptyRecord(x) = y /\ Cells(ts, m + 1, x)
<1> DEFINE t == ts[m + 1]
<1>1. Fitting(x) /\ EmptyRecord(x) = y /\ Descends(x, r, WayOf(t)) /\ x.sensitive = r.sensitive
  BY DEF Transforms, Good, Descends
<1>2. \A i \in 1..m : i \in 1..m + 1
  OBVIOUS
<1>3. m + 1 \in 1..m + 1
  OBVIOUS
<1>4. AllJSON(x) \/ \E i \in 1..m + 1 : ts[i].kind \in Spoils
  <2>1. CASE t.kind \in Spoils
    BY <1>3, <2>1
  <2>2. CASE t.kind \notin Spoils /\ AllJSON(r)
    <3>1. WayOf(t) \in {Quiet, Shifted}
      BY <2>2 DEF WayOf, Spoils
    <3> QED BY <1>1, <2>2, <3>1, KeepsClean
  <2>3. CASE ~AllJSON(r)
    BY <1>2, <2>3 DEF Cells
  <2> QED BY <2>1, <2>2, <2>3
<1>5. FirstNamed(x) \/ \E i \in 1..m + 1 : Renames(ts[i])
  <2>1. CASE Renames(t)
    BY <1>3, <2>1
  <2>2. CASE ~Renames(t) /\ FirstNamed(r)
    BY <2>2 DEF Transforms, Renames
  <2>3. CASE ~FirstNamed(r)
    BY <1>2, <2>3 DEF Cells
  <2> QED BY <2>1, <2>2, <2>3
<1>6. \A c \in r.sensitive : c[1] # "added"
  BY DEF Fitting, NamesIn
<1>7. ASSUME NEW c \in r.sensitive, \A i \in 1..m + 1 : ~Renames(ts[i]) /\ ~Rekeys(ts[i], c)
      PROVE  UnderKey(x, c)
  <2>1. ~Renames(t) /\ ~Rekeys(t, c) /\ FirstNamed(r) /\ UnderKey(r, c)
    BY <1>2, <1>3, <1>7 DEF Cells
  <2>2. CASE t.kind \in CaseChanges
    BY <2>1, <2>2 DEF Transforms, Rekeys
  <2>3. CASE t.kind \notin CaseChanges
    <3>1. ~Moves(WayOf(t))
      BY <2>1, <2>3 DEF Moves, WayOf, Renames, CaseChanges, Quiet, Lossy, Shifted, Loud
    <3> QED BY <1>1, <1>6, <2>1, <3>1, KeepsUnderKey
  <2> QED BY <2>2, <2>3
<1>8. ASSUME NEW c \in r.sensitive, NEW i \in 1..m + 1, HidesFor(ts, i, c) PROVE SafeFor(x, c)
  <2>1. CASE i = m + 1
    <3>0. i - 1 = m
      BY <2>1
    <3>1. \A k \in 1..m : ~Renames(ts[k]) /\ (c[2] = "" \/ ~Rekeys(ts[k], c))
      BY <1>8, <3>0 DEF HidesFor
    <3>2. FirstNamed(r) /\ (c[2] = "" \/ UnderKey(r, c))
      BY <3>1 DEF Cells
    <3> QED BY <1>8, <2>1, <3>2 DEF HidesFor, Transforms
  <2>2. CASE i # m + 1
    <3>1. i \in 1..m
      BY <2>2
    <3>2. SafeFor(r, c)
      BY <1>8, <3>1 DEF Cells
    <3> QED BY <1>1, <1>6, <3>2, KeepsSafe
  <2> QED BY <2>1, <2>2
<1> QED BY <1>1, <1>4, <1>5, <1>7, <1>8 DEF Cells

LEMMA TransformOnceInv ==
  ASSUME BasicInv, TransformOnce
  PROVE  BasicInv'
<1> DEFINE t == recipe[done + 1]
           x == Apply(t, rec)
           y == Apply(t, EmptyRecord(rec))
           n == Len(recipe)
<1>1. /\ outcome = "transform" /\ done < n /\ rec' = x /\ done' = done + 1
      /\ outcome' = (IF x = Failed THEN "failed" ELSE "transform")
      /\ recipe' = recipe /\ promise' = promise
  BY DEF TransformOnce
<1>2. /\ n \in Nat /\ done \in Nat /\ done + 1 \in 1..n /\ done \in 0..n /\ DOMAIN recipe = 1..n
      /\ Valid(t) /\ Fitting(rec) /\ Cells(recipe, done, rec)
      /\ Leads(recipe, done, EmptyRecord(rec), promise) /\ \A i \in 1..n : Valid(recipe[i])
  <2>1. n \in Nat /\ done \in Nat /\ done + 1 \in 1..n /\ done \in 0..n
    BY <1>1 DEF BasicInv, BasicStateInv
  <2> QED BY <1>1, <2>1 DEF BasicInv, BasicStateInv
<1>3. Transforms(t, rec, x, y)
  BY <1>2, ApplyTransforms
<1>4. y # Failed /\ Leads(recipe, done + 1, y, promise)
  <2>1. PICK f : /\ \A k \in 1..n : f[k] = Apply(recipe[k], f[k - 1])
                 /\ f[done] = EmptyRecord(rec) /\ f[n] = promise
                 /\ \A k \in 0..n : f[k] # Failed
    BY <1>2 DEF Leads
  <2>2. (done + 1) - 1 = done /\ done + 1 \in 0..n
    BY <1>2
  <2>3. f[done + 1] = y
    BY <1>2, <2>1, <2>2
  <2> HIDE DEF y
  <2> QED BY <2>1, <2>2, <2>3 DEF Leads
<1> HIDE DEF x, y
<1>5. x # Failed => Fitting(x) /\ EmptyRecord(x) = y /\ Cells(recipe, done + 1, x)
  BY <1>2, <1>3, CellsNext
<1>6. x = Failed => MayFail(recipe, done + 1)
  <2> SUFFICES ASSUME x = Failed PROVE MayFail(recipe, done + 1)
    OBVIOUS
  <2>1. ~Good(x, y, rec, WayOf(t))
    <3>1. ~Fitting(x)
      BY EmptyFits
    <3> QED BY <1>4, <3>1 DEF Good
  <2>2. t.kind = "flatten" /\ ~AllJSON(rec)
    BY <1>3, <2>1 DEF Transforms
  <2>3. PICK i \in 1..done : recipe[i].kind \in Spoils
    BY <1>2, <2>2 DEF Cells
  <2>4. i \in 1..done + 1 /\ done + 1 \in 1..done + 1 /\ i < done + 1
    BY <1>2
  <2> QED BY <2>2, <2>3, <2>4 DEF MayFail
<1>7. BasicStateInv(recipe, x, done + 1, promise, outcome')
  BY <1>1, <1>2, <1>4, <1>5, <1>6 DEF BasicStateInv
<1> QED BY <1>1, <1>7 DEF BasicInv

LEMMA SendRecordInv ==
  ASSUME BasicInv, SendRecord
  PROVE  BasicInv'
<1>1. /\ outcome = "transform" /\ done = Len(recipe) /\ outcome' \in {"sent", "skipped"}
      /\ (outcome' = "sent" => rec.row # << >>)
      /\ recipe' = recipe /\ rec' = rec /\ done' = done /\ promise' = promise
  BY DEF SendRecord
<1>2. BasicStateInv(recipe, rec, done, promise, outcome')
  BY <1>1 DEF BasicInv, BasicStateInv
<1> QED BY <1>1, <1>2 DEF BasicInv

LEMMA BasicStep == BasicInv /\ [BasicNext]_basicVars => BasicInv'
<1> SUFFICES ASSUME BasicInv, [BasicNext]_basicVars PROVE BasicInv'
  OBVIOUS
<1>1. CASE UNCHANGED basicVars
  BY <1>1 DEF basicVars, BasicInv
<1> QED BY <1>1, NewTransformerInv, TransformSchemasInv, TransformOnceInv, SendRecordInv DEF BasicNext

LEMMA FitsFollows == BasicInv => RecordFits
<1> SUFFICES ASSUME BasicInv PROVE RecordFits
  OBVIOUS
<1>1. ASSUME outcome = "sent"
      PROVE  /\ EmptyRecord(rec) = promise /\ Len(rec.row) = Len(promise.columns)
             /\ \A i \in DOMAIN rec.row : rec.row[i].of = promise.columns[i].of /\ rec.row[i].type = promise.columns[i].type
  <2>1. Fitting(rec) /\ done = Len(recipe) /\ rec.row # << >> /\ Leads(recipe, done, EmptyRecord(rec), promise)
    BY <1>1 DEF BasicInv, BasicStateInv
  <2>2. EmptyRecord(rec) = promise
    BY <2>1 DEF Leads
  <2>3. promise.columns = rec.columns /\ Len(rec.columns) \in Nat
    BY <2>1, <2>2, EmptyFits
  <2>4. /\ rec.row = [i \in 1..Len(rec.columns) |-> rec.row[i]]
        /\ \A i \in 1..Len(rec.columns) : rec.row[i].of = rec.columns[i].of /\ rec.row[i].type = rec.columns[i].type
    BY <2>1 DEF Fitting, RowFits
  <2>5. Len(rec.row) = Len(rec.columns) /\ DOMAIN rec.row = 1..Len(rec.columns)
    BY <2>3, <2>4, ListIs
  <2> QED BY <2>2, <2>3, <2>4, <2>5
<1>2. rec = Failed => MayFail(recipe, done)
  BY DEF BasicInv, BasicStateInv
<1> QED BY <1>1, <1>2 DEF RecordFits, MayFail, Spoils

LEMMA HiddenFollows == BasicInv => SensitiveHidden
<1> SUFFICES ASSUME BasicInv, outcome = "sent", NEW c \in rec.sensitive, NEW i \in DOMAIN recipe, Finds(i, c)
             PROVE  SafeFor(rec, c)
  BY DEF SensitiveHidden, SafeFor, HiddenIs
<1>1. i \in 1..done /\ Cells(recipe, done, rec)
  BY DEF BasicInv, BasicStateInv
<1>2. HidesFor(recipe, i, c)
  BY DEF Finds, HidesFor, Renames, Rekeys, CaseChanges
<1> QED BY <1>1, <1>2 DEF Cells

\* The inductive invariant.
THEOREM BasicInvariant == BasicSpec => []BasicInv
BY BasicInitInv, BasicStep, PTL DEF BasicSpec

\* What a transformer sends fits the table that was migrated (RecordFits).
THEOREM RecordsFitTables == BasicSpec => []RecordFits
BY BasicInvariant, FitsFollows, PTL

\* No sensitive value gets past obfuscate_sensitive_columns (SensitiveHidden).
THEOREM SensitiveValuesHidden == BasicSpec => []SensitiveHidden
BY BasicInvariant, HiddenFollows, PTL

-----------------------------------------------------------------------------
(* Documents and Cells. No table of kinds has one that Read, or the write, *)
(* takes for something else than a value.                                  *)

PlainKind(k) == k \notin {"list", "null", "refused"}
PlainKinds(table) == \A x \in DOMAIN table : PlainKind(table[x])

LEMMA PlainOver ==
  ASSUME NEW f, NEW g, PlainKinds(f), PlainKinds(g)
  PROVE  PlainKinds(f ++ g)
<1> SUFFICES ASSUME NEW x \in DOMAIN (f ++ g) PROVE PlainKind((f ++ g)[x])
  BY DEF PlainKinds
<1>1. x \in DOMAIN f \/ x \in DOMAIN g
  BY OverIn
<1> QED BY <1>1, OverAt DEF PlainKinds

LEMMA PlainSame ==
  ASSUME NEW where, NEW k, PlainKind(k)
  PROVE  PlainKinds(Same(where, k))
BY DEF PlainKinds, Same

LEMMA PlainIn ==
  ASSUME NEW table, PlainKinds(table), NEW base
  PROVE  PlainKind(KindIn(table, base))
BY DEF PlainKinds, PlainKind, KindIn, Among

LEMMA PlainOnes ==
  /\ PlainKinds([bool |-> "bool"]) /\ PlainKinds([uuid |-> "uuid"]) /\ PlainKinds([struct |-> "tuple"])
  /\ PlainKinds([uuid |-> "uuid", struct |-> "tuple"])
  /\ \A k \in {"int", "float", "bytes", "time", "clock", "int32", "int64", "double", "binary", "datetime", "document", "number", "object"} :
       PlainKind(k)
BY DEF PlainKinds, PlainKind

LEMMA PlainTables ==
  /\ \A d \in CellStores : PlainKinds(CellWrites[d]) /\ CellReads[d] = CellWrites[d]
  /\ PlainKinds(MongoKinds) /\ PlainKinds(Neo4jKinds) /\ PlainKinds(GremlinKinds) /\ PlainKinds(JSONKinds)
<1>1. PlainKinds(Numbers)
  <2>1. PlainKinds(Same(Ints, "int"))
    BY PlainOnes, PlainSame
  <2>2. PlainKinds(Same(Floats, "float"))
    BY PlainOnes, PlainSame
  <2>3. PlainKinds([bool |-> "bool"])
    BY PlainOnes
  <2>4. PlainKinds(Same(Ints, "int") ++ Same(Floats, "float"))
    BY <2>1, <2>2, PlainOver
  <2>5. PlainKinds(Same(Ints, "int") ++ Same(Floats, "float") ++ [bool |-> "bool"])
    BY <2>4, <2>3, PlainOver
  <2> QED BY <2>5 DEF Numbers
<1>2. PlainKinds(SQLiteWrites)
  <2>1. PlainKinds(Numbers)
    BY <1>1
  <2>2. PlainKinds(Same(Bytes, "bytes"))
    BY PlainOnes, PlainSame
  <2>3. PlainKinds(Numbers ++ Same(Bytes, "bytes"))
    BY <2>1, <2>2, PlainOver
  <2> QED BY <2>3 DEF SQLiteWrites
<1>3. PlainKinds(MySQLWrites)
  <2>1. PlainKinds(Numbers)
    BY <1>1
  <2>2. PlainKinds(Same(Bytes \cup {"uuid"}, "bytes"))
    BY PlainOnes, PlainSame
  <2>3. PlainKinds(Same(Stamps, "time"))
    BY PlainOnes, PlainSame
  <2>4. PlainKinds(Numbers ++ Same(Bytes \cup {"uuid"}, "bytes"))
    BY <2>1, <2>2, PlainOver
  <2>5. PlainKinds(Numbers ++ Same(Bytes \cup {"uuid"}, "bytes") ++ Same(Stamps, "time"))
    BY <2>4, <2>3, PlainOver
  <2> QED BY <2>5 DEF MySQLWrites
<1>4. PlainKinds(MSSQLWrites)
  <2>1. PlainKinds(Numbers)
    BY <1>1
  <2>2. PlainKinds(Same(Bytes \cup {"uuid"}, "bytes"))
    BY PlainOnes, PlainSame
  <2>3. PlainKinds(Same(Stamps, "time"))
    BY PlainOnes, PlainSame
  <2>4. PlainKinds(Numbers ++ Same(Bytes \cup {"uuid"}, "bytes"))
    BY <2>1, <2>2, PlainOver
  <2>5. PlainKinds(Numbers ++ Same(Bytes \cup {"uuid"}, "bytes") ++ Same(Stamps, "time"))
    BY <2>4, <2>3, PlainOver
  <2> QED BY <2>5 DEF MSSQLWrites
<1>5. PlainKinds(DuckDBWrites)
  <2>1. PlainKinds(Numbers)
    BY <1>1
  <2>2. PlainKinds(Same(Bytes, "bytes"))
    BY PlainOnes, PlainSame
  <2>3. PlainKinds(Same(Stamps, "time"))
    BY PlainOnes, PlainSame
  <2>4. PlainKinds(Numbers ++ Same(Bytes, "bytes"))
    BY <2>1, <2>2, PlainOver
  <2>5. PlainKinds(Numbers ++ Same(Bytes, "bytes") ++ Same(Stamps, "time"))
    BY <2>4, <2>3, PlainOver
  <2> QED BY <2>5 DEF DuckDBWrites
<1>6. PlainKinds(PostgreSQLWrites)
  <2>1. PlainKinds(Numbers)
    BY <1>1
  <2>2. PlainKinds(Same(Bytes \cup {"json"}, "bytes"))
    BY PlainOnes, PlainSame
  <2>3. PlainKinds(Same(Stamps, "time"))
    BY PlainOnes, PlainSame
  <2>4. PlainKinds(Same(Clocks, "clock"))
    BY PlainOnes, PlainSame
  <2>5. PlainKinds([uuid |-> "uuid"])
    BY PlainOnes
  <2>6. PlainKinds(Numbers ++ Same(Bytes \cup {"json"}, "bytes"))
    BY <2>1, <2>2, PlainOver
  <2>7. PlainKinds(Numbers ++ Same(Bytes \cup {"json"}, "bytes") ++ Same(Stamps, "time"))
    BY <2>6, <2>3, PlainOver
  <2>8. PlainKinds(Numbers ++ Same(Bytes \cup {"json"}, "bytes") ++ Same(Stamps, "time") ++ Same(Clocks, "clock"))
    BY <2>7, <2>4, PlainOver
  <2>9. PlainKinds(Numbers ++ Same(Bytes \cup {"json"}, "bytes") ++ Same(Stamps, "time") ++ Same(Clocks, "clock") ++ [uuid |-> "uuid"])
    BY <2>8, <2>5, PlainOver
  <2> QED BY <2>9 DEF PostgreSQLWrites
<1>7. PlainKinds(SnowflakeWrites)
  <2>1. PlainKinds(Same(Floats, "float"))
    BY PlainOnes, PlainSame
  <2>2. PlainKinds(Same(Bytes, "bytes"))
    BY PlainOnes, PlainSame
  <2>3. PlainKinds(Same(Stamps, "time"))
    BY PlainOnes, PlainSame
  <2>4. PlainKinds([bool |-> "bool"])
    BY PlainOnes
  <2>5. PlainKinds(Same(Floats, "float") ++ Same(Bytes, "bytes"))
    BY <2>1, <2>2, PlainOver
  <2>6. PlainKinds(Same(Floats, "float") ++ Same(Bytes, "bytes") ++ Same(Stamps, "time"))
    BY <2>5, <2>3, PlainOver
  <2>7. PlainKinds(Same(Floats, "float") ++ Same(Bytes, "bytes") ++ Same(Stamps, "time") ++ [bool |-> "bool"])
    BY <2>6, <2>4, PlainOver
  <2> QED BY <2>7 DEF SnowflakeWrites
<1>8. PlainKinds(ClickHouseWrites)
  <2>1. PlainKinds(Numbers)
    BY <1>1
  <2>2. PlainKinds(Same(Stamps \cup Clocks, "time"))
    BY PlainOnes, PlainSame
  <2>3. PlainKinds([uuid |-> "uuid", struct |-> "tuple"])
    BY PlainOnes
  <2>4. PlainKinds(Numbers ++ Same(Stamps \cup Clocks, "time"))
    BY <2>1, <2>2, PlainOver
  <2>5. PlainKinds(Numbers ++ Same(Stamps \cup Clocks, "time") ++ [uuid |-> "uuid", struct |-> "tuple"])
    BY <2>4, <2>3, PlainOver
  <2> QED BY <2>5 DEF ClickHouseWrites
<1>9. PlainKinds(BigQueryWrites)
  <2>1. PlainKinds(Numbers)
    BY <1>1
  <2>2. PlainKinds(Same(Bytes, "bytes"))
    BY PlainOnes, PlainSame
  <2>3. PlainKinds(Same(Stamps, "time"))
    BY PlainOnes, PlainSame
  <2>4. PlainKinds(Same(Clocks, "clock"))
    BY PlainOnes, PlainSame
  <2>5. PlainKinds([struct |-> "tuple"])
    BY PlainOnes
  <2>6. PlainKinds(Numbers ++ Same(Bytes, "bytes"))
    BY <2>1, <2>2, PlainOver
  <2>7. PlainKinds(Numbers ++ Same(Bytes, "bytes") ++ Same(Stamps, "time"))
    BY <2>6, <2>3, PlainOver
  <2>8. PlainKinds(Numbers ++ Same(Bytes, "bytes") ++ Same(Stamps, "time") ++ Same(Clocks, "clock"))
    BY <2>7, <2>4, PlainOver
  <2>9. PlainKinds(Numbers ++ Same(Bytes, "bytes") ++ Same(Stamps, "time") ++ Same(Clocks, "clock") ++ [struct |-> "tuple"])
    BY <2>8, <2>5, PlainOver
  <2> QED BY <2>9 DEF BigQueryWrites
<1>10. PlainKinds(MongoKinds)
  <2>1. PlainKinds(Same(SmallInts \cup {"uint8", "uint16"}, "int32"))
    BY PlainOnes, PlainSame
  <2>2. PlainKinds(Same({"int64", "uint32", "uint64"}, "int64"))
    BY PlainOnes, PlainSame
  <2>3. PlainKinds(Same(Floats, "double"))
    BY PlainOnes, PlainSame
  <2>4. PlainKinds(Same(Bytes, "binary"))
    BY PlainOnes, PlainSame
  <2>5. PlainKinds(Same(Stamps, "datetime"))
    BY PlainOnes, PlainSame
  <2>6. PlainKinds(Same({"json", "struct"}, "document"))
    BY PlainOnes, PlainSame
  <2>7. PlainKinds([bool |-> "bool"])
    BY PlainOnes
  <2>8. PlainKinds(Same(SmallInts \cup {"uint8", "uint16"}, "int32") ++ Same({"int64", "uint32", "uint64"}, "int64"))
    BY <2>1, <2>2, PlainOver
  <2>9. PlainKinds(Same(SmallInts \cup {"uint8", "uint16"}, "int32") ++ Same({"int64", "uint32", "uint64"}, "int64") ++ Same(Floats, "double"))
    BY <2>8, <2>3, PlainOver
  <2>10. PlainKinds(Same(SmallInts \cup {"uint8", "uint16"}, "int32") ++ Same({"int64", "uint32", "uint64"}, "int64") ++ Same(Floats, "double") ++ Same(Bytes, "binary"))
    BY <2>9, <2>4, PlainOver
  <2>11. PlainKinds(Same(SmallInts \cup {"uint8", "uint16"}, "int32") ++ Same({"int64", "uint32", "uint64"}, "int64") ++ Same(Floats, "double") ++ Same(Bytes, "binary") ++ Same(Stamps, "datetime"))
    BY <2>10, <2>5, PlainOver
  <2>12. PlainKinds(Same(SmallInts \cup {"uint8", "uint16"}, "int32") ++ Same({"int64", "uint32", "uint64"}, "int64") ++ Same(Floats, "double") ++ Same(Bytes, "binary") ++ Same(Stamps, "datetime") ++ Same({"json", "struct"}, "document"))
    BY <2>11, <2>6, PlainOver
  <2>13. PlainKinds(Same(SmallInts \cup {"uint8", "uint16"}, "int32") ++ Same({"int64", "uint32", "uint64"}, "int64") ++ Same(Floats, "double") ++ Same(Bytes, "binary") ++ Same(Stamps, "datetime") ++ Same({"json", "struct"}, "document") ++ [bool |-> "bool"])
    BY <2>12, <2>7, PlainOver
  <2> QED BY <2>13 DEF MongoKinds
<1>11. PlainKinds(Neo4jKinds)
  <2>1. PlainKinds(Same(Ints, "int64"))
    BY PlainOnes, PlainSame
  <2>2. PlainKinds(Same(Floats, "double"))
    BY PlainOnes, PlainSame
  <2>3. PlainKinds(Same(Bytes, "bytes"))
    BY PlainOnes, PlainSame
  <2>4. PlainKinds(Same(Stamps, "time"))
    BY PlainOnes, PlainSame
  <2>5. PlainKinds([bool |-> "bool"])
    BY PlainOnes
  <2>6. PlainKinds(Same(Ints, "int64") ++ Same(Floats, "double"))
    BY <2>1, <2>2, PlainOver
  <2>7. PlainKinds(Same(Ints, "int64") ++ Same(Floats, "double") ++ Same(Bytes, "bytes"))
    BY <2>6, <2>3, PlainOver
  <2>8. PlainKinds(Same(Ints, "int64") ++ Same(Floats, "double") ++ Same(Bytes, "bytes") ++ Same(Stamps, "time"))
    BY <2>7, <2>4, PlainOver
  <2>9. PlainKinds(Same(Ints, "int64") ++ Same(Floats, "double") ++ Same(Bytes, "bytes") ++ Same(Stamps, "time") ++ [bool |-> "bool"])
    BY <2>8, <2>5, PlainOver
  <2> QED BY <2>9 DEF Neo4jKinds
<1>12. PlainKinds(GremlinKinds)
  <2>1. PlainKinds(Same({"int16", "int32", "int64"}, "int64"))
    BY PlainOnes, PlainSame
  <2>2. PlainKinds(Same(Floats, "double"))
    BY PlainOnes, PlainSame
  <2>3. PlainKinds(Same(Bytes, "bytes"))
    BY PlainOnes, PlainSame
  <2>4. PlainKinds([bool |-> "bool"])
    BY PlainOnes
  <2>5. PlainKinds(Same({"int16", "int32", "int64"}, "int64") ++ Same(Floats, "double"))
    BY <2>1, <2>2, PlainOver
  <2>6. PlainKinds(Same({"int16", "int32", "int64"}, "int64") ++ Same(Floats, "double") ++ Same(Bytes, "bytes"))
    BY <2>5, <2>3, PlainOver
  <2>7. PlainKinds(Same({"int16", "int32", "int64"}, "int64") ++ Same(Floats, "double") ++ Same(Bytes, "bytes") ++ [bool |-> "bool"])
    BY <2>6, <2>4, PlainOver
  <2> QED BY <2>7 DEF GremlinKinds
<1>13. PlainKinds(JSONKinds)
  <2>1. PlainKinds(Same(Ints \cup Floats, "number"))
    BY PlainOnes, PlainSame
  <2>2. PlainKinds(Same({"json", "struct"}, "object"))
    BY PlainOnes, PlainSame
  <2>3. PlainKinds([bool |-> "bool"])
    BY PlainOnes
  <2>4. PlainKinds(Same(Ints \cup Floats, "number") ++ Same({"json", "struct"}, "object"))
    BY <2>1, <2>2, PlainOver
  <2>5. PlainKinds(Same(Ints \cup Floats, "number") ++ Same({"json", "struct"}, "object") ++ [bool |-> "bool"])
    BY <2>4, <2>3, PlainOver
  <2> QED BY <2>5 DEF JSONKinds
<1>14. /\ SQLiteReads = SQLiteWrites
      /\ MySQLReads = MySQLWrites
      /\ MSSQLReads = MSSQLWrites
      /\ DuckDBReads = DuckDBWrites
      /\ PostgreSQLReads = PostgreSQLWrites
      /\ SnowflakeReads = SnowflakeWrites
      /\ ClickHouseReads = ClickHouseWrites
      /\ BigQueryReads = BigQueryWrites
  BY DEF SQLiteReads, SQLiteWrites, MySQLReads, MySQLWrites, MSSQLReads, MSSQLWrites, DuckDBReads, DuckDBWrites, PostgreSQLReads, PostgreSQLWrites, SnowflakeReads, SnowflakeWrites, ClickHouseReads, ClickHouseWrites, BigQueryReads, BigQueryWrites
<1>15. ASSUME NEW d \in CellStores PROVE PlainKinds(CellWrites[d]) /\ CellReads[d] = CellWrites[d]
  BY <1>2, <1>3, <1>4, <1>5, <1>6, <1>7, <1>8, <1>9, <1>14 DEF CellStores, CellWrites, CellReads
<1> QED BY <1>10, <1>11, <1>12, <1>13, <1>15

-----------------------------------------------------------------------------
(* A scalar, alone or in a list: what is lost of it depends on its type    *)
(* and class alone (ScalarLoss).                                           *)

DocTypes ==
  /\ documents \in CellStores \cup {"mongodb", "neo4j", "gremlin", "meilisearch", "elasticsearch"}
  /\ complete \in BOOLEAN /\ (complete => documents = "gremlin")
  /\ ofType \in [base : BaseTypes, list : {FALSE}] \cup [base : ListTypes, list : {TRUE}]
  /\ batches \in Seq(Seq(ValuesOf(ofType)))

ScalarLoss(base, c) ==
  \/ documents = "mongodb" /\ (c \in {"us", "ns"} \/ (base = "json" /\ c = "over53"))
  \/ documents = "gremlin" /\ c = "nul"
  \/ documents = "meilisearch" /\ c \in {"over53", "over63"}
  \/ documents = "elasticsearch" /\ (c = "ns" \/ (base \in Ints /\ c \in {"over53", "over63"}))
  \/ documents \in {"mysql", "mssql", "duckdb"} /\ c = "ns"
  \/ documents = "postgresql" /\ (c \in {"ns", "nul"} \/ (base = "json" /\ c = "over53"))
  \/ documents = "snowflake" /\ c = "nullword"
  \/ documents = "bigquery" /\ c \in {"ns", "partial"}

ScalarFails(base, c) == documents = "elasticsearch" /\ base \in Clocks /\ c = "second"

LEMMA ClassFacts ==
  ASSUME NEW base \in BaseTypes, NEW c \in Classes(base)
  PROVE  /\ c \in {"small", "over53", "over63", "second", "ms", "us", "ns", "text", "nul", "nullword", "value", "members", "partial"}
         /\ base \in Stamps => c \in {"second", "ms", "us", "ns", "value"}
         /\ c \in {"second", "ms", "us", "ns"} => base \in Stamps \cup Clocks
         /\ c \in {"us", "ns"} => base \in Stamps
         /\ c \in {"text", "nul", "nullword"} <=> base \in Texts
         /\ c \in {"over53", "over63", "small"} => base \in {"int64", "uint64", "json"}
         /\ c = "over63" => base = "uint64"
         /\ base = "uint64" => c \in {"small", "over53", "over63"}
         /\ c = "partial" => base = "struct"
         /\ base \in Clocks => c \in {"second", "ms"}
         /\ base = "json" => c \in {"value", "members", "over53"}
BY Zenon DEF Classes, BaseTypes, Ints, SmallInts, SmallUints, Stamps, Clocks, Texts, Floats, Bytes

LEMMA Forms ==
  /\ NoValue.kind = "null"
  /\ \A k, c : Stored(k, c).kind = k /\ Stored(k, c).is = c
  /\ \A c : Value(c).kind = "value" /\ Value(c).is = c /\ Value(c) # NoValue
  /\ \A e : List(e).kind = "list" /\ List(e).elements = e /\ List(e) # NoValue
  /\ \A e : ListText(e).kind = "string" /\ ListText(e).elements = e /\ ListText(e) # NoValue
  /\ Refusal.kind = "refused"
  /\ \A k, c : PlainKind(k) => Stored(k, c) # NoValue /\ Stored(k, c) # Refusal
<1>1. NoValue.kind = "null" /\ Refusal.kind = "refused"
  BY DEF NoValue, Refusal, Stored
<1>2. \A k, c : Stored(k, c).kind = k /\ Stored(k, c).is = c
  BY DEF Stored
<1>3. \A c : Value(c).kind = "value" /\ Value(c).is = c
  BY DEF Value
<1>4. \A e : List(e).kind = "list" /\ List(e).elements = e /\ ListText(e).kind = "string" /\ ListText(e).elements = e
  BY DEF List, ListText
<1>5. \A k, c : PlainKind(k) => Stored(k, c) # NoValue /\ Stored(k, c) # Refusal
  BY <1>1, <1>2 DEF PlainKind
<1> QED BY <1>1, <1>2, <1>3, <1>4, <1>5

\* A value is stored with the kind that Read takes, and what it is then is the
\* value, or its class is one that is lost.
Sound(base, c, s) ==
  /\ s # NoValue /\ s # Refusal /\ s.kind # "list" /\ s # List(<< >>)
  /\ CanRead(base, s)
  /\ ReadScalar(base, s) = Value(c) \/ ScalarLoss(base, c)

LEMMA SoundKind ==
  ASSUME NEW k, PlainKind(k), NEW x
  PROVE  /\ Stored(k, x) # NoValue /\ Stored(k, x) # Refusal /\ Stored(k, x).kind # "list" /\ Stored(k, x) # List(<< >>)
         /\ Stored(k, x).kind = k /\ Stored(k, x).is = x
<1>1. Stored(k, x) # NoValue /\ Stored(k, x) # Refusal /\ Stored(k, x).kind = k /\ Stored(k, x).is = x
  BY Forms
<1>2. k # "list"
  BY DEF PlainKind
<1>3. Stored(k, x) # List(<< >>)
  BY <1>1, <1>2, Forms
<1> QED BY <1>1, <1>2, <1>3

LEMMA DocumentScalars ==
  ASSUME documents \in {"mongodb", "neo4j", "gremlin", "meilisearch", "elasticsearch"},
         NEW base \in BaseTypes, NEW c \in Classes(base), ~ScalarFails(base, c)
  PROVE  Sound(base, c, StoreScalar(base, Value(c)))
<1> DEFINE s == StoreScalar(base, Value(c))
<1>0. documents \notin CellStores /\ Value(c) # NoValue /\ Value(c).is = c
  BY Forms DEF CellStores
<1>1. CASE documents = "mongodb"
  <2> DEFINE k == KindIn(MongoKinds, base)
             x == CASE base \in Stamps -> Milliseconds(c) [] base = "uint64" -> AsInt64(c) [] base = "json" -> Float(c) [] OTHER -> c
  <2>1. s = Stored(k, x)
    BY <1>0, <1>1 DEF StoreScalar, MongoValue
  <2>2. PlainKind(k)
    BY PlainTables, PlainIn
  <2>3. KindRead(base) = k
    BY <1>1 DEF KindRead
  <2>4. x # "malformed"
    BY ClassFacts, Zenon DEF Milliseconds, AsInt64, Float
  <2>5. \/ c \in {"us", "ns"} \/ (base = "json" /\ c = "over53")
        \/ x = c /\ base # "uint64"
        \/ base = "uint64" /\ AsUint64(x) = c
    BY ClassFacts DEF Milliseconds, AsInt64, Float, AsUint64, Stamps
  <2> HIDE DEF k, x, s
  <2>6. CanRead(base, s)
    BY <1>0, <2>1, <2>2, <2>3, <2>4, SoundKind DEF CanRead
  <2>7. ReadScalar(base, s) = IF base = "uint64" THEN Value(AsUint64(x)) ELSE Value(x)
    BY <1>0, <1>1, <2>1, <2>2, SoundKind DEF ReadScalar, Rounds
  <2> QED BY <1>1, <2>1, <2>2, <2>5, <2>6, <2>7, SoundKind DEF Sound, ScalarLoss, s
<1>2. CASE documents = "neo4j"
  <2> DEFINE k == KindIn(Neo4jKinds, base)
  <2>1. s = Stored(k, c)
    BY <1>0, <1>2 DEF StoreScalar
  <2>2. PlainKind(k)
    BY PlainTables, PlainIn
  <2>3. KindRead(base) = k
    BY <1>2 DEF KindRead
  <2>4. c # "malformed"
    BY ClassFacts
  <2> HIDE DEF k, s
  <2>5. CanRead(base, s)
    BY <1>0, <2>1, <2>2, <2>3, <2>4, SoundKind DEF CanRead
  <2>6. ReadScalar(base, s) = Value(c)
    BY <1>0, <1>2, <2>1, <2>2, SoundKind DEF ReadScalar, Rounds
  <2> QED BY <2>1, <2>2, <2>5, <2>6, SoundKind DEF Sound, s
<1>3. CASE documents = "gremlin"
  <2> DEFINE k == KindIn(GremlinKinds, base)  x == IF base \in Texts THEN Stripped(c) ELSE c
  <2>1. s = Stored(k, x)
    BY <1>0, <1>3 DEF StoreScalar, GremlinValue
  <2>2. PlainKind(k)
    BY PlainTables, PlainIn
  <2>3. KindRead(base) = k
    BY <1>3 DEF KindRead
  <2>4. x # "malformed" /\ (x = c \/ c = "nul")
    BY ClassFacts DEF Stripped
  <2> HIDE DEF k, x, s
  <2>5. CanRead(base, s)
    BY <1>0, <2>1, <2>2, <2>3, <2>4, SoundKind DEF CanRead
  <2>6. ReadScalar(base, s) = Value(x)
    BY <1>0, <1>3, <2>1, <2>2, SoundKind DEF ReadScalar, Rounds
  <2> QED BY <1>3, <2>1, <2>2, <2>4, <2>5, <2>6, SoundKind DEF Sound, s, ScalarLoss
<1>4. CASE documents = "meilisearch"
  <2> DEFINE k == KindIn(JSONKinds, base)
  <2>1. s = Stored(k, c)
    BY <1>0, <1>4 DEF StoreScalar
  <2>2. PlainKind(k)
    BY PlainTables, PlainIn
  <2>3. KindRead(base) = k
    BY <1>4 DEF KindRead
  <2>4. c # "malformed" /\ (Float(c) = c \/ c \in {"over53", "over63"})
    BY ClassFacts DEF Float
  <2> HIDE DEF k, s
  <2>5. CanRead(base, s)
    BY <1>0, <2>1, <2>2, <2>3, <2>4, SoundKind DEF CanRead
  <2>6. ReadScalar(base, s) = Value(c) \/ ReadScalar(base, s) = Value(Float(c))
    BY <1>0, <1>4, <2>1, <2>2, SoundKind DEF ReadScalar
  <2> QED BY <1>4, <2>1, <2>2, <2>4, <2>5, <2>6, SoundKind DEF Sound, s, ScalarLoss
<1>5. CASE documents = "elasticsearch"
  <2>1. s = ElasticsearchValue(base, c)
    BY <1>0, <1>5 DEF StoreScalar
  <2>2. c # "malformed" /\ (Float(c) = c \/ c \in {"over53", "over63"})
    BY ClassFacts DEF Float
  <2>3. ~(base = "time32_ms" /\ c = "second") /\ ~(base = "time64_us" /\ c = "second")
    BY <1>5 DEF ScalarFails, Clocks
  <2>4. KindRead(base) = IF base = "json" THEN "string" ELSE KindIn(JSONKinds, base)
    BY <1>5 DEF KindRead
  <2>5. PlainKind(KindIn(JSONKinds, base)) /\ PlainKind("string")
    BY PlainTables, PlainIn DEF PlainKind
  <2>6. KindIn(JSONKinds, "timestamp_ns") = "string"
    <3>1. "timestamp_ns" \notin Ints \cup Floats /\ "timestamp_ns" \notin {"json", "struct"}
      BY DEF Ints, Floats, SmallInts, SmallUints
    <3>2. "timestamp_ns" \notin DOMAIN Same(Ints \cup Floats, "number")
      BY <3>1, SameIn
    <3>3. "timestamp_ns" \notin DOMAIN Same({"json", "struct"}, "object")
      BY <3>1, SameIn
    <3>4. "timestamp_ns" \notin DOMAIN [bool |-> "bool"]
      OBVIOUS
    <3>5. "timestamp_ns" \notin DOMAIN (Same(Ints \cup Floats, "number") ++ Same({"json", "struct"}, "object"))
      BY <3>2, <3>3, OverIn
    <3>6. "timestamp_ns" \notin DOMAIN JSONKinds
      BY <3>4, <3>5, OverIn DEF JSONKinds
    <3> QED BY <3>6 DEF KindIn, Among
  <2>7. Rounds(base) <=> base \in Ints
    BY <1>5 DEF Rounds
  <2>8. CASE base = "timestamp_ns" /\ c = "ns"
    <3>1. s = Stored("string", "ns10")
      BY <2>1, <2>8 DEF ElasticsearchValue
    <3>2. KindRead(base) = "string"
      BY <2>4, <2>6, <2>8
    <3> HIDE DEF s
    <3>3. CanRead(base, s)
      BY <1>0, <2>5, <3>1, <3>2, SoundKind DEF CanRead
    <3> QED BY <1>5, <2>5, <2>8, <3>1, <3>3, SoundKind DEF Sound, ScalarLoss, s
  <2>9. CASE ~(base = "timestamp_ns" /\ c = "ns")
    <3> DEFINE k == IF base = "json" THEN "string" ELSE KindIn(JSONKinds, base)
    <3>1. s = Stored(k, c)
      BY <2>1, <2>3, <2>9 DEF ElasticsearchValue
    <3>2. PlainKind(k)
      BY <2>5
    <3>3. KindRead(base) = k
      BY <2>4
    <3> HIDE DEF k, s
    <3>4. CanRead(base, s)
      BY <1>0, <2>2, <3>1, <3>2, <3>3, SoundKind DEF CanRead
    <3>5. ReadScalar(base, s) = IF base \in Ints THEN Value(Float(c)) ELSE Value(c)
      BY <1>0, <1>5, <2>7, <3>1, <3>2, SoundKind DEF ReadScalar
    <3> QED BY <1>5, <2>2, <3>1, <3>2, <3>4, <3>5, SoundKind DEF Sound, ScalarLoss, s
  <2> QED BY <2>8, <2>9
<1> QED BY <1>1, <1>2, <1>3, <1>4, <1>5

LEMMA CellScalars ==
  ASSUME documents \in CellStores, NEW base \in BaseTypes, NEW c \in Classes(base)
  PROVE  Sound(base, c, CellScalar(documents, base, Value(c)))
<1> DEFINE s == CellScalar(documents, base, Value(c))
           k == KindIn(CellWrites[documents], base)
           x == CellClass(documents, base, c)
           y == IF documents \in {"sqlite", "mssql"} /\ base = "uint64" THEN AsUint64(x) ELSE x
<1>1. s = Stored(k, x)
  BY Forms DEF CellScalar
<1>2. PlainKind(k) /\ CellReads[documents] = CellWrites[documents]
  BY PlainTables, PlainIn
<1>3. y = c \/ ScalarLoss(base, c)
  <2>1. CASE base \in Stamps
    <3>1. x = Places(documents, c) /\ base # "uint64"
      <4>1. x = Places(documents, c)
        BY <2>1 DEF CellClass, Stamps, Texts
      <4>2. base # "uint64"
        BY <2>1 DEF Stamps
      <4> QED BY <4>1, <4>2
    <3>2. x = c \/ (c = "ns" /\ documents \in {"mysql", "duckdb", "postgresql", "bigquery", "mssql"})
      <4>1. CASE documents \in {"mysql", "duckdb", "postgresql", "bigquery"}
        <5>1. x = Microseconds(c)
          BY <3>1, <4>1 DEF Places
        <5> QED BY <4>1, <5>1 DEF Microseconds
      <4>2. CASE documents = "mssql" /\ c = "ns"
        BY <4>2
      <4>3. CASE documents \notin {"mysql", "duckdb", "postgresql", "bigquery"} /\ ~(documents = "mssql" /\ c = "ns")
        <5>1. Places(documents, c) = c
          BY <4>3 DEF Places
        <5> QED BY <3>1, <5>1
      <4> QED BY <4>1, <4>2, <4>3
    <3> QED BY <3>1, <3>2 DEF ScalarLoss
  <2>2. CASE base \notin Stamps /\ documents \in {"sqlite", "mssql"} /\ base = "uint64"
    <3>1. x = AsInt64(c)
      BY <2>2, Zenon DEF CellClass
    <3>2. c \in {"small", "over53", "over63"}
      BY <2>2, ClassFacts
    <3> QED BY <2>2, <3>1, <3>2 DEF AsInt64, AsUint64
  <2>3. CASE base \notin Stamps /\ ~(documents \in {"sqlite", "mssql"} /\ base = "uint64")
    <3>1. y = x
      BY <2>3
    <3>2. CASE documents = "postgresql" /\ base \in Texts
      <4>1. x = Stripped(c)
        BY <2>3, <3>2 DEF CellClass, Texts
      <4> QED BY <3>1, <3>2, <4>1 DEF Stripped, ScalarLoss
    <3>3. CASE documents = "postgresql" /\ base = "json"
      <4>1. x = Float(c)
        <5>1. base \notin Texts
          BY <3>3 DEF Texts
        <5> QED BY <2>3, <3>3, <5>1 DEF CellClass
      <4>2. c # "over63"
        BY <3>3, ClassFacts
      <4> QED BY <3>1, <3>3, <4>1, <4>2 DEF Float, ScalarLoss
    <3>4. CASE documents = "bigquery" /\ base = "struct" /\ c = "partial"
      BY <3>4 DEF ScalarLoss
    <3>5. CASE ~(documents = "postgresql" /\ (base \in Texts \/ base = "json")) /\ ~(documents = "bigquery" /\ base = "struct" /\ c = "partial")
      <4>1. x = c
        BY <2>3, <3>5 DEF CellClass
      <4> QED BY <3>1, <4>1
    <3> QED BY <3>2, <3>3, <3>4, <3>5
  <2> QED BY <2>1, <2>2, <2>3
<1>4. documents = "snowflake" => x = c
  BY ClassFacts DEF CellClass, Places, Stamps
<1> HIDE DEF s, k, x
<1>5. CanRead(base, s)
  BY <1>1, <1>2, SoundKind DEF CanRead, CanReadCell, k
<1>6. ReadScalar(base, s) = Value(y) \/ ScalarLoss(base, c)
  <2>1. CASE documents = "snowflake" /\ s = Stored("string", "nullword")
    <3>1. x = "nullword"
      <4>1. Stored(k, x).is = x /\ Stored("string", "nullword").is = "nullword"
        BY DEF Stored
      <4> QED BY <1>1, <2>1, <4>1
    <3> QED BY <1>4, <2>1, <3>1 DEF ScalarLoss
  <2>2. CASE ~(documents = "snowflake" /\ s = Stored("string", "nullword"))
    BY <1>1, <1>2, <2>2, SoundKind DEF ReadScalar, ReadCell
  <2> QED BY <2>1, <2>2
<1> QED BY <1>1, <1>2, <1>3, <1>5, <1>6, SoundKind DEF Sound, s

LEMMA Scalars ==
  ASSUME DocTypes, NEW base \in BaseTypes, NEW c \in Classes(base), ~ScalarFails(base, c)
  PROVE  Sound(base, c, StoreScalar(base, Value(c)))
<1>1. CASE documents \in CellStores
  <2>1. StoreScalar(base, Value(c)) = CellScalar(documents, base, Value(c))
    BY <1>1, Forms DEF StoreScalar, CellStores
  <2> QED BY <1>1, <2>1, CellScalars
<1>2. CASE documents \notin CellStores
  BY <1>2, DocumentScalars DEF DocTypes
<1> QED BY <1>1, <1>2

LEMMA Nulls ==
  ASSUME NEW base
  PROVE  /\ StoreScalar(base, NoValue) = NoValue
         /\ CanRead(base, NoValue)
         /\ ReadScalar(base, NoValue) = NoValue
         /\ NoValue.kind # "list" /\ NoValue # Refusal /\ NoValue # List(<< >>)
<1>1. NoValue.kind # "list" /\ NoValue # Refusal /\ NoValue # List(<< >>)
  BY Forms
<1> QED BY <1>1 DEF StoreScalar, CanRead, CanReadCell, ReadScalar, ReadCell

-----------------------------------------------------------------------------
(* Lists. Of w, the values without their nulls, those before the first null*)
(* are where they were.                                                    *)

KeptUpTo(values, n, w) ==
  /\ Len(w) <= n
  /\ \A p \in 0..n : (\A i \in 1..p : values[i] # NoValue) => p <= Len(w) /\ \A i \in 1..p : w[i] = values[i]

LEMMA WithoutNullsKeeps ==
  ASSUME NEW S, NEW n \in Nat, NEW values \in [1..n -> S]
  PROVE  WithoutNulls(values) \in Seq(S) /\ KeptUpTo(values, n, WithoutNulls(values))
<1> DEFINE chosen == {i \in 1..n : values[i] # NoValue}
           Step(g, m) == IF m = 0 THEN << >> ELSE IF values[m] # NoValue THEN Append(g[m - 1], values[m]) ELSE g[m - 1]
           f == CHOOSE g : g = [m \in 0..Len(values) |-> Step(g, m)]
<1>1. Len(values) = n
  OBVIOUS
<1>2. WithoutNulls(values) = f[n]
  BY <1>1 DEF WithoutNulls
<1>3. \A g : Selecting(g, values, chosen, n) => g = [m \in 0..Len(values) |-> Step(g, m)]
  <2> SUFFICES ASSUME NEW g, Selecting(g, values, chosen, n) PROVE g = [m \in 0..Len(values) |-> Step(g, m)]
    OBVIOUS
  <2>1. \A m \in 0..n : m # 0 => (m \in chosen <=> values[m] # NoValue)
    OBVIOUS
  <2> HIDE DEF chosen
  <2> QED BY <1>1, <2>1 DEF Selecting
<1>4. f = [m \in 0..Len(values) |-> Step(f, m)]
  BY <1>3, SelectingExists
<1> HIDE DEF f
<1>5. Selecting(f, values, chosen, n)
  <2>1. \A m \in 0..n : m # 0 => (m \in chosen <=> values[m] # NoValue)
    OBVIOUS
  <2> HIDE DEF chosen
  <2> QED BY <1>1, <1>4, <2>1 DEF Selecting
<1>6. \A i \in 1..n : values[i] \in S
  OBVIOUS
<1>7. /\ f[n] \in Seq(S)
      /\ \A p \in 0..n : 1..p \subseteq chosen => p <= Len(f[n]) /\ \A i \in 1..p : f[n][i] = values[i]
      /\ Len(f[n]) <= n
  <2> HIDE DEF chosen
  <2> QED BY <1>5, <1>6, SelectingKeeps
<1>8. ASSUME NEW p \in 0..n, \A i \in 1..p : values[i] # NoValue
      PROVE  p <= Len(f[n]) /\ \A i \in 1..p : f[n][i] = values[i]
  <2>1. 1..p \subseteq chosen
    BY <1>8
  <2> HIDE DEF chosen
  <2> QED BY <1>7, <2>1
<1>9. KeptUpTo(values, n, f[n])
  BY <1>7, <1>8 DEF KeptUpTo
<1> QED BY <1>2, <1>7, <1>9

LEMMA NothingLeftOut ==
  ASSUME NEW S, NEW n \in Nat, NEW values \in [1..n -> S], \A i \in 1..n : values[i] # NoValue
  PROVE  WithoutNulls(values) = values
<1> DEFINE w == WithoutNulls(values)
<1>1. w \in Seq(S) /\ KeptUpTo(values, n, w)
  BY WithoutNullsKeeps
<1> HIDE DEF w
<1>2. n \in 0..n
  OBVIOUS
<1>3. Len(w) <= n /\ n <= Len(w) /\ \A i \in 1..n : w[i] = values[i]
  BY <1>1, <1>2 DEF KeptUpTo
<1>4. Len(w) = n
  BY <1>1, <1>3
<1>5. w = [i \in 1..n |-> w[i]]
  BY <1>1, <1>4
<1>6. w = values
  BY <1>3, <1>5
<1> QED BY <1>6 DEF w

\* An element of a list, or a value that is none, which clickhouse may have
\* made a zero of.
Element(base, e) ==
  \/ e = NoValue
  \/ \E c \in Classes(base) : e = Value(c)
  \/ documents = "clickhouse" /\ e = Value("zero")

Whole(base, e) == e = NoValue \/ (e # Value("zero") /\ ~ScalarLoss(base, e.is))

ElementSound(base, e, s) ==
  /\ s # Refusal /\ s.kind # "list" /\ s # List(<< >>)
  /\ s = NoValue <=> e = NoValue
  /\ CanRead(base, s)
  /\ Whole(base, e) => ReadScalar(base, s) = e

LEMMA Elements ==
  ASSUME DocTypes, NEW base \in BaseTypes, NEW e, Element(base, e), e = NoValue \/ ~ScalarFails(base, e.is)
  PROVE  ElementSound(base, e, StoreScalar(base, e))
<1>1. CASE e = NoValue
  BY <1>1, Nulls DEF ElementSound
<1>2. CASE e # NoValue /\ \E c \in Classes(base) : e = Value(c)
  <2>1. PICK c \in Classes(base) : e = Value(c)
    BY <1>2
  <2>2. e.is = c
    BY <2>1, Forms
  <2>3. ~ScalarFails(base, c)
    BY <1>2, <2>2
  <2>4. Sound(base, c, StoreScalar(base, e))
    BY <2>1, <2>3, Scalars
  <2> QED BY <1>2, <2>1, <2>2, <2>4 DEF Sound, ElementSound, Whole
<1>3. CASE documents = "clickhouse" /\ e = Value("zero")
  <2> DEFINE k == KindIn(CellWrites["clickhouse"], base)  s == StoreScalar(base, e)
  <2>1. PlainKind(k) /\ CellReads["clickhouse"] = CellWrites["clickhouse"]
    BY PlainTables, PlainIn DEF CellStores
  <2>2. e # NoValue
    BY <1>3, Forms
  <2>3. s = Stored(k, CellClass("clickhouse", base, e.is))
    BY <1>3, <2>2 DEF StoreScalar, CellScalar
  <2> HIDE DEF s
  <2>4. CanRead(base, s)
    BY <1>3, <2>1, <2>3, SoundKind DEF CanRead, CanReadCell, CellStores, k
  <2> QED BY <1>3, <2>1, <2>2, <2>3, <2>4, SoundKind DEF ElementSound, Whole, s
<1> QED BY <1>1, <1>2, <1>3 DEF Element

ListOf(base, els) == List([i \in DOMAIN els |-> StoreScalar(base, els[i])])

ListSound(base, els, s) ==
  /\ s # Refusal /\ s # NoValue /\ s.kind = "list" /\ DOMAIN s.elements = DOMAIN els
  /\ \A i \in DOMAIN els : s.elements[i] = StoreScalar(base, els[i]) /\ CanRead(base, s.elements[i])
  /\ els # << >> => s # List(<< >>)
  /\ (\A i \in DOMAIN els : Whole(base, els[i])) =>
       List([i \in DOMAIN s.elements |-> ReadScalar(base, s.elements[i])]) = List(els)

LEMMA ListsStored ==
  ASSUME DocTypes, NEW base \in ListTypes, NEW n \in Nat, NEW S, NEW els \in [1..n -> S],
         \A i \in 1..n : Element(base, els[i])
  PROVE  ListSound(base, els, ListOf(base, els))
<1> DEFINE s == ListOf(base, els)
<1>1. base \in BaseTypes /\ base \notin Clocks
  BY DEF BaseTypes, ListTypes, Clocks, Ints, SmallInts, Stamps, Texts
<1>2. DOMAIN els = 1..n
  OBVIOUS
<1>3. ASSUME NEW i \in 1..n PROVE ElementSound(base, els[i], StoreScalar(base, els[i]))
  <2>1. ~ScalarFails(base, els[i].is)
    BY <1>1 DEF ScalarFails
  <2> QED BY <1>1, <2>1, Elements
<1>4. /\ s.kind = "list" /\ s # NoValue /\ s.elements = [i \in 1..n |-> StoreScalar(base, els[i])]
  BY <1>2, Forms DEF ListOf
<1>5. s # Refusal
  BY <1>4, Forms
<1>6. DOMAIN s.elements = 1..n /\ \A i \in 1..n : s.elements[i] = StoreScalar(base, els[i])
  BY <1>4
<1> HIDE DEF s
<1>7. \A i \in 1..n : CanRead(base, s.elements[i])
  BY <1>3, <1>6 DEF ElementSound
<1>8. ASSUME els # << >> PROVE s # List(<< >>)
  <2>1. n # 0
    BY <1>8
  <2>2. 1 \in 1..n
    BY <2>1
  <2>3. DOMAIN s.elements # {}
    BY <1>6, <2>2
  <2>4. List(<< >>).elements = << >> /\ DOMAIN << >> = {}
    BY Forms
  <2> QED BY <2>3, <2>4
<1>9. ASSUME \A i \in 1..n : Whole(base, els[i])
      PROVE  List([i \in DOMAIN s.elements |-> ReadScalar(base, s.elements[i])]) = List(els)
  <2>1. \A i \in 1..n : ReadScalar(base, s.elements[i]) = els[i]
    BY <1>3, <1>6, <1>9 DEF ElementSound
  <2>2. [i \in 1..n |-> ReadScalar(base, s.elements[i])] = els
    BY <2>1
  <2> QED BY <1>6, <2>2
<1> QED BY <1>2, <1>4, <1>5, <1>6, <1>7, <1>8, <1>9 DEF ListSound, s

-----------------------------------------------------------------------------
(* A row, when its column is stored as it is.                              *)

StoreRow(v) == IF documents \in CellStores THEN CellValue(documents, ofType, v) ELSE StoreValue(v)

RowLoss(v) ==
  \/ documents \in {"neo4j", "bigquery"} /\ v.kind = "list" /\ "null" \in ClassesIn(v)
  \/ documents = "bigquery" /\ v.kind = "list" /\ v.elements = << >>
  \/ /\ \E c \in ClassesIn(v) : ScalarLoss(ofType.base, c)
     /\ documents \in {"mysql", "mssql"} => ~ofType.list
     /\ documents = "gremlin" /\ ofType.list => complete

RowFails(v) ==
  \/ documents = "elasticsearch" /\ ofType.base \in Clocks /\ v = Value("second")
  \/ documents = "snowflake" /\ v.kind = "list" /\ (v.elements = << >> \/ (ofType.base = "json" /\ "members" \in ClassesIn(v)))

RowSound(v, s) ==
  \/ RowFails(v) /\ (s = Refusal \/ ~CanReadRow(s))
  \/ s # Refusal /\ CanReadRow(s) /\ (reverseTransform(s) = v \/ RowLoss(v))

LEMMA ValueForms ==
  ASSUME DocTypes, NEW v \in ValuesOf(ofType)
  PROVE  /\ ofType.base \in BaseTypes /\ ofType.list \in BOOLEAN /\ (ofType.list => ofType.base \in ListTypes)
         /\ ~ofType.list => v = NoValue \/ \E c \in Classes(ofType.base) : v = Value(c)
         /\ ofType.list => v = NoValue \/ \E n \in 0..2 : \E els \in [1..n -> Nullable(Classes(ofType.base))] : v = List(els)
<1>1. ofType.base \in BaseTypes /\ ofType.list \in BOOLEAN /\ (ofType.list => ofType.base \in ListTypes)
  <2>1. ListTypes \subseteq BaseTypes
    BY DEF BaseTypes, ListTypes, Ints, SmallInts, Stamps, Texts
  <2> QED BY <2>1 DEF DocTypes
<1>2. ASSUME ~ofType.list PROVE v = NoValue \/ \E c \in Classes(ofType.base) : v = Value(c)
  <2>1. v \in Nullable(Classes(ofType.base))
    BY <1>2 DEF ValuesOf
  <2> QED BY <2>1 DEF Nullable
<1>3. ASSUME ofType.list
      PROVE  v = NoValue \/ \E n \in 0..2 : \E els \in [1..n -> Nullable(Classes(ofType.base))] : v = List(els)
  <2>1. ElementClasses(ofType.base) \subseteq Classes(ofType.base)
    <3>1. CASE ofType.base = "int64"
      <4>1. "small" \in Classes("int64")
        BY DEF Classes, Clocks, Texts
      <4> QED BY <3>1, <4>1 DEF ElementClasses
    <3>2. CASE ofType.base # "int64"
      BY <3>2 DEF ElementClasses
    <3> QED BY <3>1, <3>2
  <2>2. Nullable(ElementClasses(ofType.base)) \subseteq Nullable(Classes(ofType.base))
    BY <2>1 DEF Nullable
  <2>3. v = NoValue \/ v \in {List(q) : q \in SeqOf(Nullable(ElementClasses(ofType.base)), 2)}
    BY <1>3 DEF ValuesOf
  <2>4. CASE v \in {List(q) : q \in SeqOf(Nullable(ElementClasses(ofType.base)), 2)}
    <3>1. PICK q \in SeqOf(Nullable(ElementClasses(ofType.base)), 2) : v = List(q)
      BY <2>4
    <3>2. PICK n \in 0..2 : q \in [1..n -> Nullable(ElementClasses(ofType.base))]
      BY <3>1 DEF SeqOf
    <3>3. q \in [1..n -> Nullable(Classes(ofType.base))]
      BY <2>2, <3>2
    <3> QED BY <3>1, <3>3
  <2> QED BY <2>3, <2>4
<1> QED BY <1>1, <1>2, <1>3

LEMMA ScalarRows ==
  ASSUME DocTypes, ~ofType.list, NEW v \in ValuesOf(ofType)
  PROVE  RowSound(v, StoreRow(v))
<1> DEFINE base == ofType.base  s == StoreRow(v)
<1>1. base \in BaseTypes /\ (v = NoValue \/ \E c \in Classes(base) : v = Value(c))
  BY ValueForms
<1>2. v.kind # "list"
  BY <1>1, Forms
<1>3. s = StoreScalar(base, v)
  <2>1. CASE documents \in CellStores
    <3>1. s = CellScalar(documents, base, v)
      BY <2>1 DEF StoreRow, CellValue
    <3>2. v = NoValue => CellScalar(documents, base, v) = NoValue
      BY DEF CellScalar
    <3>3. StoreScalar(base, v) = IF v = NoValue THEN NoValue ELSE CellScalar(documents, base, v)
      BY <2>1 DEF StoreScalar, CellStores
    <3> QED BY <3>1, <3>2, <3>3
  <2>2. CASE documents \notin CellStores
    BY <1>2, <2>2 DEF StoreRow, StoreValue
  <2> QED BY <2>1, <2>2
<1>4. Element(base, v)
  BY <1>1 DEF Element
<1>5. ASSUME NEW w, w.kind # "list"
      PROVE  /\ CanReadRow(w) <=> CanRead(base, w)
             /\ w # List(<< >>) => reverseTransform(w) = ReadScalar(base, w)
  BY <1>5 DEF CanReadRow, reverseTransform
<1>6. CASE v = NoValue \/ ~ScalarFails(base, v.is)
  <2>1. ElementSound(base, v, s)
    <3> HIDE DEF base, s
    <3> QED BY <1>1, <1>3, <1>4, <1>6, Elements
  <2>2. s # Refusal /\ CanReadRow(s) /\ reverseTransform(s) = ReadScalar(base, s)
    <3> HIDE DEF base, s
    <3> QED BY <1>5, <2>1 DEF ElementSound
  <2>3. Whole(base, v) \/ RowLoss(v)
    <3>1. CASE v = NoValue
      BY <3>1 DEF Whole
    <3>2. CASE v # NoValue
      <4>1. PICK c \in Classes(base) : v = Value(c)
        BY <1>1, <3>2
      <4>2. v.is = c /\ ClassesIn(v) = {c}
        BY <1>2, <3>2, <4>1, Forms DEF ClassesIn, ClassOf
      <4>3. c # "zero"
        BY <1>1, ClassFacts
      <4>4. v # Value("zero")
        BY <4>1, <4>3, Forms
      <4>5. CASE ScalarLoss(base, c)
        BY <4>2, <4>5 DEF RowLoss
      <4> QED BY <4>2, <4>4, <4>5 DEF Whole
    <3> QED BY <3>1, <3>2
  <2>4. reverseTransform(s) = v \/ RowLoss(v)
    BY <2>1, <2>2, <2>3 DEF ElementSound
  <2> QED BY <2>2, <2>4 DEF RowSound
<1>7. CASE v # NoValue /\ ScalarFails(base, v.is)
  <2>1. PICK c \in Classes(base) : v = Value(c)
    BY <1>1, <1>7
  <2>2. documents = "elasticsearch" /\ base \in Clocks /\ v.is = c /\ c = "second"
    BY <1>7, <2>1, Forms DEF ScalarFails
  <2>3. RowFails(v)
    BY <2>1, <2>2 DEF RowFails
  <2>4. s = ElasticsearchValue(base, "second")
    BY <1>3, <1>7, <2>2 DEF StoreScalar
  <2>5. CASE base = "time32_ms"
    BY <2>3, <2>4, <2>5 DEF ElasticsearchValue, RowSound
  <2>6. CASE base = "time64_us"
    <3>1. s = Stored("string", "malformed")
      BY <2>4, <2>6 DEF ElasticsearchValue
    <3>2. s # NoValue /\ s.kind # "list" /\ s.is = "malformed"
      BY <3>1, SoundKind DEF PlainKind
    <3>3. documents \notin CellStores
      BY <2>2 DEF CellStores
    <3>4. ~CanRead(base, s)
      BY <3>2, <3>3 DEF CanRead
    <3>5. ~CanReadRow(s)
      BY <1>5, <3>2, <3>4
    <3> QED BY <2>3, <3>5 DEF RowSound
  <2> QED BY <2>2, <2>5, <2>6 DEF Clocks
<1> QED BY <1>6, <1>7

LEMMA ListRows ==
  ASSUME DocTypes, ofType.list, NEW v \in ValuesOf(ofType)
  PROVE  RowSound(v, StoreRow(v))
<1> DEFINE base == ofType.base  s == StoreRow(v)
<1>1. base \in ListTypes /\ base \in BaseTypes
      /\ (v = NoValue \/ \E n \in 0..2 : \E els \in [1..n -> Nullable(Classes(base))] : v = List(els))
  BY ValueForms
<1>2. ASSUME NEW w, documents \in CellStores PROVE StoreScalar(base, w) = CellScalar(documents, base, w)
  BY <1>2 DEF StoreScalar, CellScalar, CellStores
<1>3. CASE v = NoValue
  <2>1. CASE documents = "bigquery"
    <3>1. documents \in CellStores
      BY <2>1 DEF CellStores
    <3>2. s = List([i \in DOMAIN << >> |-> CellScalar(documents, base, << >>[i])])
      BY <1>3, <2>1, <3>1 DEF StoreRow, CellValue
    <3>3. s = List(<< >>)
      <4>1. [i \in DOMAIN << >> |-> CellScalar(documents, base, << >>[i])] = << >>
        OBVIOUS
      <4> QED BY <3>2, <4>1
    <3>4. s.kind = "list" /\ s.elements = << >> /\ s # Refusal
      BY <3>3, Forms
    <3>5. CanReadRow(s)
      BY <2>1, <3>4 DEF CanReadRow
    <3>6. reverseTransform(s) = NoValue
      BY <2>1, <3>3 DEF reverseTransform
    <3> QED BY <1>3, <3>4, <3>5, <3>6 DEF RowSound
  <2>2. CASE documents # "bigquery"
    <3>1. s = NoValue
      <4>1. CASE documents \in CellStores
        BY <1>3, <2>2, <4>1 DEF StoreRow, CellValue
      <4>2. CASE documents \notin CellStores
        BY <1>3, <4>2, Forms, Nulls DEF StoreRow, StoreValue
      <4> QED BY <4>1, <4>2
    <3>2. CanReadRow(NoValue) /\ reverseTransform(NoValue) = NoValue /\ NoValue # Refusal
      BY <2>2, Nulls DEF CanReadRow, reverseTransform
    <3> QED BY <1>3, <3>1, <3>2 DEF RowSound
  <2> QED BY <2>1, <2>2
<1>4. ASSUME NEW n \in 0..2, NEW els \in [1..n -> Nullable(Classes(base))], v = List(els)
      PROVE  RowSound(v, s)
  <2>1. v # NoValue /\ v.kind = "list" /\ v.elements = els
    BY <1>4, Forms
  <2>2. n \in Nat /\ DOMAIN els = 1..n /\ \A i \in 1..n : els[i] \in Nullable(Classes(base))
    OBVIOUS
  <2>3. ClassesIn(v) = {ClassOf(e) : e \in Range(els)}
    BY <2>1 DEF ClassesIn
  <2>4. \A i \in 1..n : ClassOf(els[i]) \in ClassesIn(v)
    BY <2>2, <2>3 DEF Range
  <2>5. \A i \in 1..n : els[i] = NoValue \/ (\E c \in Classes(base) : els[i] = Value(c))
    BY <2>2 DEF Nullable
  <2>6. ASSUME NEW i \in 1..n PROVE Element(base, els[i])
    BY <2>5 DEF Element
  <2>7. ASSUME NEW i \in 1..n, els[i] = NoValue PROVE "null" \in ClassesIn(v)
    BY <2>4, <2>7 DEF ClassOf
  <2>8. ASSUME NEW i \in 1..n, ~Whole(base, els[i]) PROVE \E c \in ClassesIn(v) : ScalarLoss(base, c)
    <3>1. els[i] # NoValue
      BY <2>8 DEF Whole
    <3>2. PICK c \in Classes(base) : els[i] = Value(c)
      BY <2>5, <3>1
    <3>3. els[i].is = c /\ ClassOf(els[i]) = c
      BY <3>1, <3>2, Forms DEF ClassOf
    <3>4. c # "zero"
      BY <1>1, ClassFacts
    <3>5. els[i] # Value("zero")
      BY <3>2, <3>4, Forms
    <3>6. ScalarLoss(base, c)
      BY <2>8, <3>3, <3>5 DEF Whole
    <3> QED BY <2>4, <3>3, <3>6
  <2>9. CASE documents \in {"sqlite", "mysql", "mssql"} \/ (documents = "gremlin" /\ ~complete)
    <3>1. s = ListText(els)
      <4>1. CASE documents \in {"sqlite", "mysql", "mssql"}
        BY <1>4, <2>1, <4>1 DEF StoreRow, CellValue, CellStores
      <4>2. CASE documents = "gremlin" /\ ~complete
        BY <2>1, <4>2 DEF StoreRow, StoreValue, CellStores
      <4> QED BY <2>9, <4>1, <4>2
    <3>2. s.kind = "string" /\ s.elements = els /\ s # NoValue /\ s # Refusal /\ documents # "bigquery"
      BY <2>9, <3>1, Forms
    <3>3. CanReadRow(s) /\ reverseTransform(s) = List(els)
      BY <3>2 DEF CanReadRow, reverseTransform
    <3> QED BY <1>4, <3>2, <3>3 DEF RowSound
  <2>10. CASE ~(documents \in {"sqlite", "mysql", "mssql"} \/ (documents = "gremlin" /\ ~complete))
    <3> DEFINE kept == IF documents \in {"neo4j", "bigquery"} THEN WithoutNulls(els) ELSE els
    <3>1. s = ListOf(base, kept)
      <4>1. CASE documents \in CellStores
        <5>1. s = List([i \in DOMAIN kept |-> CellScalar(documents, base, kept[i])])
          BY <2>1, <2>10, <4>1 DEF StoreRow, CellValue, CellStores
        <5>2. [i \in DOMAIN kept |-> CellScalar(documents, base, kept[i])] = [i \in DOMAIN kept |-> StoreScalar(base, kept[i])]
          BY <1>2, <4>1
        <5> QED BY <5>1, <5>2 DEF ListOf
      <4>2. CASE documents \notin CellStores
        BY <2>1, <2>10, <4>2 DEF StoreRow, StoreValue, ListOf, CellStores
      <4> QED BY <4>1, <4>2
    <3>2. PICK m \in Nat : kept \in [1..m -> Nullable(Classes(base))]
      <4>1. CASE documents \in {"neo4j", "bigquery"}
        <5>1. kept \in Seq(Nullable(Classes(base)))
          BY <2>2, <4>1, WithoutNullsKeeps
        <5> HIDE DEF kept
        <5>2. Len(kept) \in Nat /\ kept \in [1..Len(kept) -> Nullable(Classes(base))]
          BY <5>1
        <5> QED BY <5>2
      <4>2. CASE documents \notin {"neo4j", "bigquery"}
        BY <2>2, <4>2
      <4> QED BY <4>1, <4>2
    <3>3. \A i \in 1..m : Element(base, kept[i])
      <4> HIDE DEF kept
      <4> QED BY <3>2 DEF Element, Nullable
    <3>4. ListSound(base, kept, s)
      <4> HIDE DEF kept, s, base
      <4> QED BY <1>1, <3>1, <3>2, <3>3, ListsStored
    <3>5. kept = els \/ RowLoss(v)
      <4>1. CASE documents \in {"neo4j", "bigquery"} /\ \E i \in 1..n : els[i] = NoValue
        BY <2>1, <2>7, <4>1 DEF RowLoss
      <4>2. CASE \A i \in 1..n : els[i] # NoValue
        BY <2>2, <4>2, NothingLeftOut
      <4>3. CASE documents \notin {"neo4j", "bigquery"}
        BY <4>3
      <4> QED BY <4>1, <4>2, <4>3
    <3>6. CASE documents = "snowflake" /\ ~snowflakeStrToArray(base, s.elements)
      <4>1. kept = els
        BY <3>6
      <4>2. DOMAIN s.elements = 1..n /\ \A i \in 1..n : s.elements[i] = StoreScalar(base, els[i])
        BY <2>2, <3>4, <4>1 DEF ListSound
      <4>3. RowFails(v)
        <5>1. CASE s.elements = << >>
          <6>1. DOMAIN els = {}
            BY <2>2, <4>2, <5>1
          <6>2. els = << >>
            BY <2>2, <6>1
          <6> QED BY <2>1, <3>6, <6>2 DEF RowFails
        <5>2. CASE base = "json" /\ \E i \in DOMAIN s.elements : s.elements[i] # NoValue /\ s.elements[i].is = "members"
          <6>1. PICK i \in 1..n : s.elements[i] # NoValue /\ s.elements[i].is = "members"
            BY <4>2, <5>2
          <6>2. els[i] # NoValue
            BY <4>2, <6>1, Nulls
          <6>3. PICK c \in Classes(base) : els[i] = Value(c)
            BY <2>5, <6>2
          <6>4. s.elements[i].is = CellClass("snowflake", base, c)
            <7>1. StoreScalar(base, els[i]) = CellScalar("snowflake", base, Value(c))
              BY <1>2, <3>6, <6>3 DEF CellStores
            <7> QED BY <4>2, <7>1, Forms DEF CellScalar
          <6>5. CellClass("snowflake", base, c) = c
            BY <5>2 DEF CellClass, Stamps
          <6>6. ClassOf(els[i]) = "members"
            BY <6>1, <6>2, <6>3, <6>4, <6>5, Forms DEF ClassOf
          <6> QED BY <2>1, <2>4, <3>6, <5>2, <6>6 DEF RowFails
        <5> QED BY <3>6, <5>1, <5>2 DEF snowflakeStrToArray
      <4>4. ~CanReadRow(s)
        BY <3>4, <3>6 DEF CanReadRow, ListSound
      <4> QED BY <4>3, <4>4 DEF RowSound
    <3>7. CASE ~(documents = "snowflake" /\ ~snowflakeStrToArray(base, s.elements))
      <4>1. s.kind = "list" /\ s # Refusal /\ \A i \in DOMAIN s.elements : CanRead(base, s.elements[i])
        BY <3>4 DEF ListSound
      <4>2. CanReadRow(s)
        BY <3>7, <4>1 DEF CanReadRow
      <4>3. CASE RowLoss(v)
        BY <4>1, <4>2, <4>3 DEF RowSound
      <4>4. CASE ~RowLoss(v)
        <5>1. kept = els
          BY <3>5, <4>4
        <5>2. \A i \in 1..n : Whole(base, els[i])
          BY <2>8, <2>10, <4>4 DEF RowLoss
        <5>3. List([i \in DOMAIN s.elements |-> ReadScalar(base, s.elements[i])]) = List(els)
          BY <2>2, <3>4, <5>1, <5>2 DEF ListSound
        <5>4. ~(documents = "bigquery" /\ s = List(<< >>))
          <6>1. documents = "bigquery" => els # << >>
            BY <2>1, <4>4 DEF RowLoss
          <6> QED BY <3>4, <5>1, <6>1 DEF ListSound
        <5>5. reverseTransform(s) = List([i \in DOMAIN s.elements |-> ReadScalar(base, s.elements[i])])
          <6> HIDE DEF s
          <6> QED BY <4>1, <5>4 DEF reverseTransform
        <5> QED BY <1>4, <4>1, <4>2, <5>3, <5>5 DEF RowSound
      <4> QED BY <4>3, <4>4
    <3> QED BY <3>6, <3>7
  <2> QED BY <2>9, <2>10
<1> QED BY <1>1, <1>3, <1>4

LEMMA Rows ==
  ASSUME DocTypes, NEW v \in ValuesOf(ofType)
  PROVE  RowSound(v, StoreRow(v))
<1>1. CASE ofType.list
  BY <1>1, ListRows
<1>2. CASE ~ofType.list
  BY <1>2, ScalarRows
<1> QED BY <1>1, <1>2

-----------------------------------------------------------------------------
(* A column of a record: the value j of record b is the row p of all.      *)

RowRight(p, s) ==
  \/ RowFails(AllValues[p]) /\ (s = Refusal \/ ~CanReadRow(s))
  \/ s # Refusal /\ CanReadRow(s) /\ (reverseTransform(s) = AllValues[p] \/ KnownLoss(p))

Ours(b, j, p) ==
  /\ b \in DOMAIN batches /\ j \in DOMAIN batches[b]
  /\ p = RecordStart(b) + j /\ AllValues[p] = batches[b][j]

LEMMA KnownRows ==
  ASSUME DocTypes, NEW p, AllValues[p] \in ValuesOf(ofType), RowLoss(AllValues[p])
  PROVE  KnownLoss(p)
<1> DEFINE v == AllValues[p]
           Has(classes) == ClassesIn(v) \cap classes # {}
<1>1. \A c, classes : c \in ClassesIn(v) /\ c \in classes => Has(classes)
  OBVIOUS
<1>2. documents \in CellStores \cup {"mongodb", "neo4j", "gremlin", "meilisearch", "elasticsearch"}
  BY DEF DocTypes
<1>3. v.kind = "list" => ofType.list
  BY ValueForms, Forms
<1>4. KnownLoss(p) =
        CASE documents = "mongodb"           -> Has({"us", "ns"}) \/ (ofType.base = "json" /\ Has({"over53"}))
          [] documents = "neo4j"             -> AfterNull(p) \/ (v.kind = "list" /\ Has({"null"}))
          [] documents = "gremlin"           -> Has({"nul"}) /\ (v.kind = "list" => complete)
          [] documents = "meilisearch"       -> Has({"over53", "over63"})
          [] documents = "elasticsearch"     -> Has({"ns"}) \/ (ofType.base \in Ints /\ Has({"over53", "over63"}))
          [] documents \in {"mysql", "mssql"} -> ~ofType.list /\ Has({"ns"})
          [] documents = "duckdb"            -> Has({"ns"})
          [] documents = "postgresql"        -> Has({"ns", "nul"}) \/ (ofType.base = "json" /\ Has({"over53"}))
          [] documents = "snowflake"         -> Has({"nullword"})
          [] documents = "clickhouse"        -> (ofType.list \/ ofType.base = "struct") /\ BesideNull(p) /\ Has({"null", "partial"})
          [] documents = "bigquery"          -> Has({"ns", "partial"}) \/ (v.kind = "list" /\ (v.elements = << >> \/ Has({"null"})))
          [] OTHER                           -> FALSE
  BY DEF KnownLoss
<1> HIDE DEF Has, v
<1>5. CASE documents \in {"neo4j", "bigquery"} /\ v.kind = "list" /\ "null" \in ClassesIn(v)
  <2>1. Has({"null"})
    BY <1>1, <1>5
  <2>2. CASE documents = "neo4j"
    BY <1>4, <1>5, <2>1, <2>2
  <2>3. CASE documents = "bigquery"
    BY <1>4, <1>5, <2>1, <2>3
  <2> QED BY <1>5, <2>2, <2>3
<1>6. CASE documents = "bigquery" /\ v.kind = "list" /\ v.elements = << >>
  BY <1>4, <1>6
<1>7. CASE /\ \E c \in ClassesIn(v) : ScalarLoss(ofType.base, c)
           /\ documents \in {"mysql", "mssql"} => ~ofType.list
           /\ documents = "gremlin" /\ ofType.list => complete
  <2>1. PICK c \in ClassesIn(v) : ScalarLoss(ofType.base, c)
    BY <1>7
  <2>2. CASE documents = "mongodb"
    <3>1. Has({"us", "ns"}) \/ (ofType.base = "json" /\ Has({"over53"}))
      BY <1>1, <2>1, <2>2 DEF ScalarLoss
    <3> QED BY <1>4, <2>2, <3>1
  <2>3. CASE documents = "gremlin"
    <3>1. Has({"nul"}) /\ (v.kind = "list" => complete)
      BY <1>1, <1>3, <1>7, <2>1, <2>3 DEF ScalarLoss
    <3> QED BY <1>4, <2>3, <3>1
  <2>4. CASE documents = "meilisearch"
    <3>1. Has({"over53", "over63"})
      BY <1>1, <2>1, <2>4 DEF ScalarLoss
    <3> QED BY <1>4, <2>4, <3>1
  <2>5. CASE documents = "elasticsearch"
    <3>1. Has({"ns"}) \/ (ofType.base \in Ints /\ Has({"over53", "over63"}))
      BY <1>1, <2>1, <2>5 DEF ScalarLoss
    <3> QED BY <1>4, <2>5, <3>1
  <2>6. CASE documents \in {"mysql", "mssql"}
    <3>1. ~ofType.list /\ Has({"ns"})
      BY <1>1, <1>7, <2>1, <2>6 DEF ScalarLoss
    <3> QED BY <1>4, <2>6, <3>1
  <2>7. CASE documents = "duckdb"
    <3>1. Has({"ns"})
      BY <1>1, <2>1, <2>7 DEF ScalarLoss
    <3> QED BY <1>4, <2>7, <3>1
  <2>8. CASE documents = "postgresql"
    <3>1. Has({"ns", "nul"}) \/ (ofType.base = "json" /\ Has({"over53"}))
      BY <1>1, <2>1, <2>8 DEF ScalarLoss
    <3> QED BY <1>4, <2>8, <3>1
  <2>9. CASE documents = "snowflake"
    <3>1. Has({"nullword"})
      BY <1>1, <2>1, <2>9 DEF ScalarLoss
    <3> QED BY <1>4, <2>9, <3>1
  <2>10. CASE documents = "bigquery"
    <3>1. Has({"ns", "partial"})
      BY <1>1, <2>1, <2>10 DEF ScalarLoss
    <3> QED BY <1>4, <2>10, <3>1
  <2> QED BY <2>1, <2>2, <2>3, <2>4, <2>5, <2>6, <2>7, <2>8, <2>9, <2>10 DEF ScalarLoss
<1> QED BY <1>5, <1>6, <1>7 DEF RowLoss, v

LEMMA RecordStarts ==
  ASSUME DocTypes, NEW b \in DOMAIN batches
  PROVE  batches[b] \in Seq(ValuesOf(ofType)) /\ RecordStart(b) \in Nat
<1> DEFINE before == SubSeq(batches, 1, b - 1)  S == ValuesOf(ofType)
<1>1. batches[b] \in Seq(S) /\ before \in Seq(Seq(S))
  BY DEF DocTypes
<1> HIDE DEF before, S
<1>2. FlattenSeq(before) \in Seq(S)
  BY <1>1, FlattenTyped
<1>3. Len(FlattenSeq(before)) \in Nat
  BY <1>2
<1> QED BY <1>1, <1>3 DEF RecordStart, before, S

LEMMA KnownAfterNulls ==
  ASSUME documents = "neo4j", NEW b, NEW j, NEW p, Ours(b, j, p), DocTypes, NEW i \in 1..j, batches[b][i] = NoValue
  PROVE  KnownLoss(p)
<1>1. batches[b] \in Seq(ValuesOf(ofType)) /\ RecordStart(b) \in Nat
  BY RecordStarts DEF Ours
<1>2. i \in DOMAIN batches[b] /\ RecordStart(b) + i <= p /\ p <= RecordStart(b) + Len(batches[b])
  BY <1>1 DEF Ours
<1>3. AfterNull(p)
  BY <1>2 DEF AfterNull, Ours
<1> QED BY <1>3 DEF KnownLoss

LEMMA KnownBesideNulls ==
  ASSUME documents = "clickhouse", NEW b, NEW j, NEW p, Ours(b, j, p), DocTypes,
         ofType.list \/ ofType.base = "struct", NoValue \in Range(batches[b]),
         "null" \in ClassesIn(AllValues[p]) \/ "partial" \in ClassesIn(AllValues[p])
  PROVE  KnownLoss(p)
<1>1. batches[b] \in Seq(ValuesOf(ofType)) /\ RecordStart(b) \in Nat
  BY RecordStarts DEF Ours
<1>2. RecordStart(b) < p /\ p <= RecordStart(b) + Len(batches[b])
  BY <1>1 DEF Ours
<1>3. BesideNull(p)
  BY <1>2 DEF BesideNull, Ours
<1>4. ClassesIn(AllValues[p]) \cap {"null", "partial"} # {}
  OBVIOUS
<1> QED BY <1>3, <1>4 DEF KnownLoss

LEMMA PlainColumns ==
  ASSUME DocTypes, NEW b, NEW j, NEW p, Ours(b, j, p),
         NEW s, s = StoreRow(batches[b][j])
  PROVE  RowRight(p, s)
<1>1. batches[b][j] \in ValuesOf(ofType) /\ AllValues[p] = batches[b][j]
  BY RecordStarts DEF Ours
<1>2. RowSound(AllValues[p], s)
  BY <1>1, Rows
<1>3. RowLoss(AllValues[p]) => KnownLoss(p)
  BY <1>1, KnownRows
<1> QED BY <1>2, <1>3 DEF RowSound, RowRight

LEMMA Neo4jColumns ==
  ASSUME DocTypes, documents = "neo4j", NEW b, NEW j, NEW p, Ours(b, j, p)
  PROVE  RowRight(p, transformValues(batches[b])[j])
<1> DEFINE r == batches[b]  n == Len(r)  V == ValuesOf(ofType)  column == Neo4jColumn(r)  kept == WithoutNulls(r)
<1>1. r \in Seq(V) /\ j \in DOMAIN r
  BY RecordStarts DEF Ours
<1>2. n \in Nat /\ r \in [1..n -> V] /\ j \in 1..n
  BY <1>1
<1>3. kept \in Seq(V) /\ KeptUpTo(r, n, kept)
  <2> HIDE DEF r, n, V
  <2> QED BY <1>2, WithoutNullsKeeps
<1>4. column[j] = IF j \in DOMAIN kept THEN kept[j] ELSE NoValue
  BY <1>1 DEF Neo4jColumn
<1>5. transformValues(r)[j] = StoreRow(column[j])
  <2>1. DOMAIN column = DOMAIN r
    BY DEF Neo4jColumn
  <2>2. transformValues(r) = [i \in DOMAIN column |-> StoreValue(column[i])]
    BY DEF transformValues, CellStores
  <2> HIDE DEF column, r
  <2>3. transformValues(r)[j] = StoreValue(column[j])
    BY <1>1, <2>1, <2>2
  <2> QED BY <2>3 DEF StoreRow, CellStores
<1>6. NoValue \in V
  BY DEF ValuesOf, Nullable
<1> HIDE DEF r, n, V, column, kept
<1>7. column[j] \in V
  BY <1>3, <1>4, <1>6
<1>8. CASE \A i \in 1..j : r[i] # NoValue
  <2>1. j \in 0..n
    BY <1>2
  <2>2. j <= Len(kept) /\ kept[j] = r[j]
    BY <1>2, <1>3, <1>8, <2>1 DEF KeptUpTo
  <2>3. j \in DOMAIN kept
    BY <1>2, <1>3, <2>2
  <2>4. column[j] = r[j]
    BY <1>4, <2>2, <2>3
  <2> QED BY <1>5, <2>4, PlainColumns DEF r
<1>9. CASE \E i \in 1..j : r[i] = NoValue
  <2>1. KnownLoss(p)
    BY <1>9, KnownAfterNulls DEF r
  <2>2. RowSound(column[j], StoreRow(column[j]))
    BY <1>7, Rows DEF V
  <2>3. ~RowFails(column[j])
    BY DEF RowFails
  <2> QED BY <1>5, <2>1, <2>2, <2>3 DEF RowSound, RowRight, r
<1> QED BY <1>8, <1>9

\* What clickhouse makes of a row of a record with nulls can be read.
LEMMA Zeroed ==
  ASSUME DocTypes, documents = "clickhouse", NEW s,
         \/ ~ofType.list /\ s = CellValue(documents, ofType, Value("zero"))
         \/ /\ ofType.list
            /\ \E n \in Nat : \E els \in [1..n -> {NoValue, Value("zero")} \cup {Value(c) : c \in Classes(ofType.base)}] :
                 s = CellValue(documents, ofType, List(els))
  PROVE  s # Refusal /\ CanReadRow(s)
<1> DEFINE base == ofType.base
<1>1. base \in BaseTypes /\ (ofType.list => base \in ListTypes)
  BY ValueForms DEF ValuesOf, Nullable
<1>2. ASSUME NEW w PROVE StoreScalar(base, w) = CellScalar(documents, base, w)
  BY DEF StoreScalar, CellScalar, CellStores
<1>3. ASSUME NEW w PROVE ~ScalarFails(base, w)
  BY DEF ScalarFails
<1>4. CASE ~ofType.list /\ s = CellValue(documents, ofType, Value("zero"))
  <2>1. s = StoreScalar(base, Value("zero"))
    BY <1>2, <1>4 DEF CellValue
  <2>2. Element(base, Value("zero"))
    BY DEF Element
  <2>3. ElementSound(base, Value("zero"), s)
    <3> HIDE DEF base
    <3> QED BY <1>1, <1>3, <2>1, <2>2, Elements
  <2> QED BY <1>4, <2>3 DEF ElementSound, CanReadRow
<1>5. ASSUME ofType.list, NEW n \in Nat,
             NEW els \in [1..n -> {NoValue, Value("zero")} \cup {Value(c) : c \in Classes(base)}],
             s = CellValue(documents, ofType, List(els))
      PROVE  s # Refusal /\ CanReadRow(s)
  <2>1. List(els) # NoValue /\ List(els).elements = els
    BY Forms
  <2>2. s = List([i \in DOMAIN els |-> CellScalar(documents, base, els[i])])
    BY <1>5, <2>1 DEF CellValue
  <2>3. [i \in DOMAIN els |-> CellScalar(documents, base, els[i])] = [i \in DOMAIN els |-> StoreScalar(base, els[i])]
    BY <1>2
  <2>4. s = ListOf(base, els)
    BY <2>2, <2>3 DEF ListOf
  <2>5. \A i \in 1..n : Element(base, els[i])
    BY <1>5 DEF Element
  <2>6. ListSound(base, els, s)
    <3> DEFINE S == {NoValue, Value("zero")} \cup {Value(c) : c \in Classes(base)}
    <3>1. els \in [1..n -> S] /\ base \in ListTypes
      BY <1>1, <1>5
    <3> HIDE DEF base, S
    <3> QED BY <1>5, <2>4, <2>5, <3>1, ListsStored
  <2> QED BY <2>6 DEF ListSound, CanReadRow
<1> QED BY <1>4, <1>5

LEMMA ClickHouseColumns ==
  ASSUME DocTypes, documents = "clickhouse", NEW b, NEW j, NEW p, Ours(b, j, p)
  PROVE  RowRight(p, transformValues(batches[b])[j])
<1> DEFINE r == batches[b]  v == r[j]  V == ValuesOf(ofType)  column == sanitizeNested(ofType, r)
           Zero(e) == IF e = NoValue \/ e = Value("partial") THEN Value("zero") ELSE e
           s == transformValues(r)[j]
<1>1. r \in Seq(V) /\ j \in DOMAIN r /\ v \in V /\ AllValues[p] = v
  BY RecordStarts DEF Ours
<1>2. transformValues(r) = [i \in DOMAIN column |-> CellValue(documents, ofType, column[i])]
  BY DEF transformValues, CellColumn, CellStores
<1>3. CASE (~ofType.list /\ ofType.base # "struct") \/ NoValue \notin Range(r)
  <2>1. column = r
    BY <1>3 DEF sanitizeNested
  <2>2. s = CellValue(documents, ofType, v)
    <3> HIDE DEF column, r
    <3> QED BY <1>1, <1>2, <2>1
  <2>3. s = StoreRow(v)
    BY <2>2 DEF StoreRow, CellStores
  <2> QED BY <2>3, PlainColumns
<1>4. CASE ~((~ofType.list /\ ofType.base # "struct") \/ NoValue \notin Range(r))
  <2>1. column = [i \in DOMAIN r |->
                    IF ~ofType.list THEN Zero(r[i])
                    ELSE IF r[i] = NoValue THEN List(<< >>)
                    ELSE List([k \in DOMAIN r[i].elements |-> Zero(r[i].elements[k])])]
    BY <1>4 DEF sanitizeNested
  <2>2. column[j] = IF ~ofType.list THEN Zero(v)
                    ELSE IF v = NoValue THEN List(<< >>)
                    ELSE List([k \in DOMAIN v.elements |-> Zero(v.elements[k])])
    <3> HIDE DEF column, r, Zero
    <3> QED BY <1>1, <2>1
  <2>3. s = CellValue(documents, ofType, column[j])
    <3>1. DOMAIN column = DOMAIN r
      <4> HIDE DEF column, r, Zero
      <4> QED BY <2>1
    <3> HIDE DEF column, r
    <3> QED BY <1>1, <1>2, <3>1
  <2>4. ofType.list \/ ofType.base = "struct"
    BY <1>4
  <2>5. ASSUME "null" \in ClassesIn(v) \/ "partial" \in ClassesIn(v) PROVE KnownLoss(p)
    BY <1>1, <1>4, <2>4, <2>5, KnownBesideNulls
  <2>6. ASSUME column[j] = v PROVE RowRight(p, s)
    <3>1. s = StoreRow(v)
      BY <2>3, <2>6 DEF StoreRow, CellStores
    <3> QED BY <3>1, PlainColumns
  <2>7. ASSUME s # Refusal /\ CanReadRow(s), "null" \in ClassesIn(v) \/ "partial" \in ClassesIn(v)
        PROVE  RowRight(p, s)
    <3> HIDE DEF s
    <3> QED BY <2>5, <2>7 DEF RowRight
  <2> SUFFICES RowRight(p, s)
    OBVIOUS
  <2> HIDE DEF s, column
  <2>8. CASE ~ofType.list
    <3>1. CASE v = NoValue \/ v = Value("partial")
      <4>1. s = CellValue(documents, ofType, Value("zero"))
        BY <2>2, <2>3, <2>8, <3>1
      <4>2. s # Refusal /\ CanReadRow(s)
        BY <2>8, <4>1, Zeroed
      <4>3. "null" \in ClassesIn(v) \/ "partial" \in ClassesIn(v)
        BY <3>1, Forms DEF ClassesIn, ClassOf
      <4> QED BY <2>7, <4>2, <4>3
    <3>2. CASE ~(v = NoValue \/ v = Value("partial"))
      BY <2>2, <2>6, <2>8, <3>2
    <3> QED BY <3>1, <3>2
  <2>9. CASE ofType.list /\ v = NoValue
    <3>1. s = CellValue(documents, ofType, List(<< >>))
      BY <2>2, <2>3, <2>9
    <3>2. << >> \in [1..0 -> {NoValue, Value("zero")} \cup {Value(c) : c \in Classes(ofType.base)}]
      OBVIOUS
    <3>3. s # Refusal /\ CanReadRow(s)
      BY <2>9, <3>1, <3>2, Zeroed
    <3>4. "null" \in ClassesIn(v)
      BY <2>9, Forms DEF ClassesIn, ClassOf
    <3> QED BY <2>7, <3>3, <3>4
  <2>10. CASE ofType.list /\ v # NoValue
    <3>1. PICK n \in 0..2 : \E els \in [1..n -> Nullable(Classes(ofType.base))] : v = List(els)
      BY <1>1, <2>10, ValueForms
    <3>2. PICK els \in [1..n -> Nullable(Classes(ofType.base))] : v = List(els)
      BY <3>1
    <3>3. v.kind = "list" /\ v.elements = els /\ DOMAIN els = 1..n
      BY <3>2, Forms
    <3> DEFINE zeroed == [k \in 1..n |-> Zero(els[k])]
    <3>4. column[j] = List(zeroed)
      BY <2>2, <2>10, <3>3
    <3>5. ClassesIn(v) = {ClassOf(e) : e \in Range(els)}
      BY <3>3 DEF ClassesIn
    <3>6. CASE \E k \in 1..n : els[k] = NoValue \/ els[k] = Value("partial")
      <4>1. PICK k \in 1..n : els[k] = NoValue \/ els[k] = Value("partial")
        BY <3>6
      <4>2. ClassOf(els[k]) \in ClassesIn(v)
        BY <3>3, <3>5 DEF Range
      <4>3. ClassOf(els[k]) = "null" \/ ClassOf(els[k]) = "partial"
        BY <4>1, Forms DEF ClassOf
      <4>4. zeroed \in [1..n -> {NoValue, Value("zero")} \cup {Value(c) : c \in Classes(ofType.base)}]
        <5>1. \A k1 \in 1..n : Zero(els[k1]) \in {NoValue, Value("zero")} \cup {Value(c) : c \in Classes(ofType.base)}
          BY <3>2 DEF Nullable
        <5> QED BY <5>1
      <4>5. s = CellValue(documents, ofType, List(zeroed))
        BY <2>3, <3>4
      <4>6. s # Refusal /\ CanReadRow(s)
        <5>1. n \in Nat
          OBVIOUS
        <5> HIDE DEF zeroed
        <5> QED BY <2>10, <4>4, <4>5, <5>1, Zeroed
      <4> QED BY <2>7, <4>2, <4>3, <4>6
    <3>7. CASE ~\E k \in 1..n : els[k] = NoValue \/ els[k] = Value("partial")
      <4>1. zeroed = els
        BY <3>2, <3>7
      <4> QED BY <2>6, <3>2, <3>4, <4>1
    <3> QED BY <3>6, <3>7
  <2> QED BY <2>8, <2>9, <2>10
<1> QED BY <1>3, <1>4

LEMMA ColumnsRight ==
  ASSUME DocTypes, NEW b, NEW j, NEW p, Ours(b, j, p)
  PROVE  RowRight(p, transformValues(batches[b])[j])
<1>1. CASE documents = "neo4j"
  BY <1>1, Neo4jColumns
<1>2. CASE documents = "clickhouse"
  BY <1>2, ClickHouseColumns
<1>3. CASE documents \notin {"neo4j", "clickhouse"}
  <2> DEFINE r == batches[b]
  <2>1. j \in DOMAIN r
    BY DEF Ours
  <2>2. transformValues(r) = [i \in DOMAIN r |-> StoreRow(r[i])]
    <3> HIDE DEF r
    <3>1. CASE documents \in CellStores
      BY <1>3, <3>1 DEF transformValues, CellColumn, StoreRow
    <3>2. CASE documents \notin CellStores
      BY <1>3, <3>2 DEF transformValues, StoreRow
    <3> QED BY <3>1, <3>2
  <2>3. transformValues(r)[j] = StoreRow(r[j])
    <3> HIDE DEF r
    <3> QED BY <2>1, <2>2
  <2> QED BY <2>3, PlainColumns
<1> QED BY <1>1, <1>2, <1>3

-----------------------------------------------------------------------------
(* All rows, and the steps: until they are read the nodes are right, or    *)
(* their failure is a known one.                                           *)

LEMMA ColumnLengths ==
  ASSUME NEW r, NEW n \in Nat, NEW S, r \in [1..n -> S]
  PROVE  \E T : transformValues(r) \in [1..n -> T]
<1> DEFINE c == transformValues(r)  column == IF documents = "neo4j" THEN Neo4jColumn(r) ELSE r
           clean == IF documents = "clickhouse" THEN sanitizeNested(ofType, r) ELSE r
<1>1. DOMAIN r = 1..n
  OBVIOUS
<1>2. DOMAIN column = 1..n
  BY <1>1 DEF Neo4jColumn
<1>3. DOMAIN clean = 1..n
  BY <1>1 DEF sanitizeNested
<1>4. CASE documents \in CellStores
  <2>1. c = [i \in DOMAIN clean |-> CellValue(documents, ofType, clean[i])]
    BY <1>4 DEF transformValues, CellColumn
  <2> HIDE DEF clean
  <2>2. c = [i \in 1..n |-> CellValue(documents, ofType, clean[i])]
    BY <1>3, <2>1
  <2> DEFINE T == {CellValue(documents, ofType, clean[i]) : i \in 1..n}
  <2> HIDE DEF c
  <2>3. c \in [1..n -> T]
    BY <2>2
  <2> QED BY <2>3 DEF c
<1>5. CASE documents \notin CellStores
  <2>1. c = [i \in DOMAIN column |-> StoreValue(column[i])]
    BY <1>5 DEF transformValues
  <2> HIDE DEF column
  <2>2. c = [i \in 1..n |-> StoreValue(column[i])]
    BY <1>2, <2>1
  <2> DEFINE T == {StoreValue(column[i]) : i \in 1..n}
  <2> HIDE DEF c
  <2>3. c \in [1..n -> T]
    BY <2>2
  <2> QED BY <2>3 DEF c
<1> QED BY <1>4, <1>5

LEMMA RowsWritten ==
  ASSUME DocTypes, NEW new, new = FlattenSeq([i \in DOMAIN batches |-> transformValues(batches[i])])
  PROVE  Len(new) = Len(AllValues) /\ (\E T : new \in Seq(T)) /\ \A p \in 1..Len(new) : RowRight(p, new[p])
<1> DEFINE n == Len(batches)  V == ValuesOf(ofType)  t == [i \in DOMAIN batches |-> transformValues(batches[i])]
           T == UNION {{transformValues(batches[i])[j] : j \in DOMAIN batches[i]} : i \in 1..n}
<1>1. n \in Nat /\ batches \in [1..n -> Seq(V)] /\ DOMAIN batches = 1..n
  BY DEF DocTypes
<1>2. ASSUME NEW i \in 1..n PROVE t[i] \in Seq(T) /\ Len(t[i]) = Len(batches[i])
  <2>1. batches[i] \in Seq(V)
    BY <1>1
  <2> DEFINE r == batches[i]  k == Len(r)
  <2>2. k \in Nat /\ r \in [1..k -> V] /\ DOMAIN r = 1..k
    BY <2>1
  <2>3. PICK S : transformValues(r) \in [1..k -> S]
    <3> HIDE DEF r, k, V
    <3> QED BY <2>2, ColumnLengths
  <2>4. \A j \in 1..k : transformValues(r)[j] \in T
    <3> DEFINE Of(m) == {transformValues(batches[m])[j] : j \in DOMAIN batches[m]}
    <3>1. \A j \in 1..k : transformValues(r)[j] \in Of(i)
      BY <2>2
    <3> HIDE DEF Of, r, k
    <3>2. \A x \in Of(i) : x \in UNION {Of(m) : m \in 1..n}
      OBVIOUS
    <3>3. T = UNION {Of(m) : m \in 1..n}
      BY DEF Of
    <3> QED BY <3>1, <3>2, <3>3
  <2>5. t[i] = transformValues(r)
    BY <1>1
  <2> HIDE DEF r, k, T, t
  <2>6. transformValues(r) \in [1..k -> T]
    BY <2>3, <2>4
  <2>7. transformValues(r) \in Seq(T) /\ Len(transformValues(r)) = k
    BY <2>2, <2>6, FunctionIsSeq
  <2> QED BY <2>5, <2>7 DEF r, k
<1>3. t \in [1..n -> Seq(T)] /\ \A i \in 1..n : Len(batches[i]) = Len(t[i])
  <2>1. t = [i \in 1..n |-> t[i]]
    BY <1>1
  <2> HIDE DEF t, T, n
  <2> QED BY <1>2, <2>1
<1>4. new = FlattenSeq(t)
  OBVIOUS
<1>5. \A i \in 1..n : t[i] = transformValues(batches[i])
  BY <1>1
<1>6. t \in Seq(Seq(T))
  <2> HIDE DEF t, T, n
  <2> QED BY <1>1, <1>3, FunctionIsSeq
<1> HIDE DEF t, T, n, V
<1>7. new \in Seq(T)
  BY <1>4, <1>6, FlattenTyped
<1>8. FlattenedAlike(batches, t, n)
  BY <1>1, <1>3, FlattenAlike
<1>9. Len(new) = Len(AllValues)
  BY <1>4, <1>8 DEF AllValues, FlattenedAlike
<1>10. ASSUME NEW p \in 1..Len(new) PROVE RowRight(p, new[p])
  <2>1. p \in 1..Len(FlattenSeq(batches))
    BY <1>4, <1>8 DEF FlattenedAlike
  <2>2. PICK b \in 1..n : \E j \in 1..Len(batches[b]) :
           /\ p = Len(FlattenSeq(SubSeq(batches, 1, b - 1))) + j
           /\ FlattenSeq(batches)[p] = batches[b][j] /\ FlattenSeq(t)[p] = t[b][j]
    BY <1>8, <2>1 DEF FlattenedAlike
  <2>3. PICK j \in 1..Len(batches[b]) :
           /\ p = Len(FlattenSeq(SubSeq(batches, 1, b - 1))) + j
           /\ FlattenSeq(batches)[p] = batches[b][j] /\ FlattenSeq(t)[p] = t[b][j]
    BY <2>2
  <2>4. j \in DOMAIN batches[b]
    BY <1>1, <2>3
  <2>5. Ours(b, j, p)
    BY <1>1, <2>3, <2>4 DEF Ours, RecordStart, AllValues
  <2>6. new[p] = transformValues(batches[b])[j]
    BY <1>4, <1>5, <2>3
  <2> QED BY <2>5, <2>6, ColumnsRight
<1> QED BY <1>7, <1>9, <1>10

LEMMA SameMeaning ==
  ASSUME documents' = documents, complete' = complete, ofType' = ofType, batches' = batches, NEW p, NEW s
  PROVE  /\ AllValues' = AllValues
         /\ CanReadRow(s)' <=> CanReadRow(s)
         /\ reverseTransform(s)' = reverseTransform(s)
         /\ KnownLoss(p)' <=> KnownLoss(p)
         /\ Asked(p)' = Asked(p)
         /\ RowFails(s)' <=> RowFails(s)
         /\ KnownFailure' <=> KnownFailure
<1>1. AllValues' = AllValues
  BY DEF AllValues
<1>2. ASSUME NEW e PROVE (CanRead(ofType.base, e)' <=> CanRead(ofType.base, e)) /\ ReadScalar(ofType.base, e)' = ReadScalar(ofType.base, e)
  BY DEF CanRead, ReadScalar, KindRead, Rounds
<1>3. CanReadRow(s)' <=> CanReadRow(s)
  BY <1>2 DEF CanReadRow
<1>4. reverseTransform(s)' = reverseTransform(s)
  BY <1>2 DEF reverseTransform
<1>5. (AfterNull(p)' <=> AfterNull(p)) /\ (BesideNull(p)' <=> BesideNull(p))
  BY DEF AfterNull, BesideNull, RecordStart
<1>6. KnownLoss(p)' <=> KnownLoss(p)
  BY <1>1, <1>5 DEF KnownLoss
<1>7. RowFails(s)' <=> RowFails(s)
  BY DEF RowFails
<1>8. KnownFailure' <=> KnownFailure
  BY <1>1 DEF KnownFailure
<1>9. Asked(p)' = Asked(p)
  BY DEF Asked
<1> QED BY <1>1, <1>3, <1>4, <1>6, <1>7, <1>8, <1>9

LEMMA SameRows ==
  ASSUME documents' = documents, complete' = complete, ofType' = ofType, batches' = batches,
         NEW p, NEW s, s = nodes'[p]
  PROVE  RowRight(p, nodes[p])' <=> RowRight(p, s)
<1>1. ASSUME NEW e PROVE (CanRead(ofType.base, e)' <=> CanRead(ofType.base, e)) /\ ReadScalar(ofType.base, e)' = ReadScalar(ofType.base, e)
  BY DEF CanRead, ReadScalar, KindRead, Rounds
<1>2. CanReadRow(nodes[p])' <=> CanReadRow(s)
  BY <1>1 DEF CanReadRow
<1>3. reverseTransform(nodes[p])' = reverseTransform(s)
  BY <1>1 DEF reverseTransform
<1>4. RowFails(AllValues[p])' <=> RowFails(AllValues[p])
  <2>1. AllValues' = AllValues
    BY DEF AllValues
  <2> QED BY <2>1 DEF RowFails
<1>5. (KnownLoss(p)' <=> KnownLoss(p)) /\ AllValues' = AllValues
  BY SameMeaning
<1>6. nodes[p]' = s
  OBVIOUS
<1> QED BY <1>2, <1>3, <1>4, <1>5, <1>6 DEF RowRight

LEMMA SameLoss ==
  ASSUME documents' = documents, complete' = complete, ofType' = ofType, batches' = batches,
         NEW i, NEW p, p = places'[i]
  PROVE  KnownLoss(places[i])' <=> KnownLoss(p)
<1>1. AllValues' = AllValues
  BY DEF AllValues
<1>2. (AfterNull(places[i])' <=> AfterNull(p)) /\ (BesideNull(places[i])' <=> BesideNull(p))
  BY DEF AfterNull, BesideNull, RecordStart
<1> QED BY <1>1, <1>2 DEF KnownLoss

RowsFit == \A p \in 1..Len(nodes) : nodes[p] # Refusal /\ RowRight(p, nodes[p])

DocInv ==
  /\ DocTypes
  /\ docStage \in {"write", "read", "end", "refused", "unreadable"}
  /\ docStage = "read" => Len(nodes) = Len(AllValues) /\ (\E T : nodes \in Seq(T)) /\ RowsFit
  /\ ReadBack

LEMMA DocStart == DocInit => DocInv
<1> SUFFICES ASSUME DocInit PROVE DocInv
  OBVIOUS
<1>1. DocTypes
  <2>1. documents \in CellStores \cup {"mongodb", "neo4j", "gremlin", "meilisearch", "elasticsearch"}
    BY DocumentsAssumption DEF DocInit
  <2>2. batches \in Seq(Seq(ValuesOf(ofType)))
    BY DEF DocInit
  <2> QED BY <2>1, <2>2 DEF DocInit, DocTypes
<1> QED BY <1>1 DEF DocInit, DocInv, ReadBack

LEMMA RowFailing ==
  ASSUME DocTypes, NEW p \in 1..Len(AllValues), RowFails(AllValues[p])
  PROVE  KnownFailure
<1>1. AllValues \in Seq(ValuesOf(ofType))
  BY FlattenTyped DEF AllValues, DocTypes
<1>2. p \in DOMAIN AllValues
  BY <1>1
<1> QED BY <1>2 DEF KnownFailure, RowFails

LEMMA DocCollect == ASSUME DocInv, Collect PROVE DocInv'
<1>1. PICK record \in SeqOf(ValuesOf(ofType), MaxRows - Len(FlattenSeq(batches))) : batches' = Append(batches, record)
  BY DEF Collect
<1>2. record \in Seq(ValuesOf(ofType))
  <2>1. PICK m \in 0..(MaxRows - Len(FlattenSeq(batches))) : record \in [1..m -> ValuesOf(ofType)]
    BY DEF SeqOf
  <2>2. m \in Nat
    BY <2>1
  <2> QED BY <2>1, <2>2, FunctionIsSeq
<1>3. batches' \in Seq(Seq(ValuesOf(ofType')))
  <2>1. ofType' = ofType /\ batches \in Seq(Seq(ValuesOf(ofType)))
    BY DEF Collect, DocInv, DocTypes
  <2> QED BY <1>1, <1>2, <2>1
<1>4. DocTypes'
  BY <1>3 DEF Collect, DocInv, DocTypes
<1>5. docStage' = "write"
  BY DEF Collect
<1> QED BY <1>4, <1>5 DEF DocInv, ReadBack

LEMMA DocWrite == ASSUME DocInv, WriteDocuments PROVE DocInv'
<1> DEFINE new == FlattenSeq([i \in DOMAIN batches |-> transformValues(batches[i])])
<1>1. documents' = documents /\ complete' = complete /\ ofType' = ofType /\ batches' = batches
  BY DEF WriteDocuments
<1>2. DocTypes /\ DocTypes'
  BY <1>1 DEF DocInv, DocTypes
<1>3. Len(new) = Len(AllValues) /\ (\E T : new \in Seq(T)) /\ \A p \in 1..Len(new) : RowRight(p, new[p])
  BY <1>2, RowsWritten
<1>4. PICK T : new \in Seq(T)
  BY <1>3
<1>5. IF Refusal \in Range(new) THEN docStage' = "refused" /\ nodes' = nodes ELSE docStage' = "read" /\ nodes' = new
  BY DEF WriteDocuments
<1> HIDE DEF new
<1>6. DOMAIN new = 1..Len(new)
  BY <1>4
<1>7. CASE Refusal \in Range(new)
  <2>1. PICK p \in 1..Len(new) : new[p] = Refusal
    BY <1>6, <1>7 DEF Range
  <2>2. RowFails(AllValues[p])
    BY <1>3, <2>1 DEF RowRight
  <2>3. KnownFailure
    BY <1>2, <1>3, <2>2, RowFailing
  <2>4. KnownFailure'
    BY <1>1, <2>3, SameMeaning
  <2> QED BY <1>2, <1>5, <1>7, <2>4 DEF DocInv, ReadBack
<1>8. CASE Refusal \notin Range(new)
  <2>1. docStage' = "read" /\ nodes' = new
    BY <1>5, <1>8
  <2>2. AllValues' = AllValues
    BY <1>1, SameMeaning
  <2>3. ASSUME NEW p \in 1..Len(nodes') PROVE nodes'[p] # Refusal /\ RowRight(p, nodes[p])'
    <3>1. nodes'[p] # Refusal
      BY <1>6, <1>8, <2>1 DEF Range
    <3>2. RowRight(p, nodes'[p])
      BY <1>3, <2>1
    <3> QED BY <1>1, <3>1, <3>2, SameRows
  <2>4. RowsFit'
    BY <2>3 DEF RowsFit, Refusal
  <2>5. Len(nodes)' = Len(AllValues)' /\ \E U : nodes' \in Seq(U)
    BY <1>3, <2>1, <2>2
  <2>6. ReadBack'
    BY <2>1 DEF ReadBack
  <2> QED BY <1>2, <2>1, <2>4, <2>5, <2>6 DEF DocInv
<1> QED BY <1>7, <1>8

LEMMA DocRead == ASSUME DocInv, ReadDocuments PROVE DocInv'
<1>1. documents' = documents /\ complete' = complete /\ ofType' = ofType /\ batches' = batches /\ nodes' = nodes
  BY DEF ReadDocuments
<1>2. DocTypes /\ DocTypes'
  BY <1>1 DEF DocInv, DocTypes
<1> DEFINE n == Len(AllValues)
<1>3. Len(nodes) = Len(AllValues) /\ (\E T : nodes \in Seq(T)) /\ RowsFit
  BY DEF DocInv, ReadDocuments
<1>4. PICK T : nodes \in Seq(T)
  BY <1>3
<1>5. DOMAIN nodes = 1..n /\ n \in Nat /\ DOMAIN AllValues = 1..n
  <2>1. AllValues \in Seq(ValuesOf(ofType))
    BY <1>2, FlattenTyped DEF AllValues, DocTypes
  <2> QED BY <1>3, <1>4, <2>1
<1>6. places' \in [1..Asked(n) -> 1..n] /\ IsInjective(places')
  BY <1>3 DEF ReadDocuments, Orders
<1>7. AllValues' = AllValues /\ Asked(n)' = Asked(n)
  BY <1>1, SameMeaning
<1>8. ASSUME NEW i \in DOMAIN places'
      PROVE  places'[i] \in 1..n /\ RowRight(places'[i], nodes[places'[i]]) /\ nodes[places'[i]] # Refusal
  <2>1. places'[i] \in 1..Len(nodes)
    BY <1>3, <1>6
  <2> QED BY <1>3, <2>1 DEF RowsFit
<1> HIDE DEF n
<1>9. CASE \A i \in DOMAIN places' : CanReadRow(nodes[places'[i]])
  <2>1. docStage' = "end" /\ answer' = [i \in DOMAIN places' |-> reverseTransform(nodes[places'[i]])]
    BY <1>9 DEF ReadDocuments
  <2>2. ASSUME NEW i \in DOMAIN answer' PROVE answer'[i] = AllValues'[places'[i]] \/ KnownLoss(places[i])'
    <3>1. i \in DOMAIN places' /\ answer'[i] = reverseTransform(nodes[places'[i]])
      BY <2>1
    <3>2. RowRight(places'[i], nodes[places'[i]]) /\ nodes[places'[i]] # Refusal /\ CanReadRow(nodes[places'[i]])
      BY <1>8, <1>9, <3>1
    <3>3. reverseTransform(nodes[places'[i]]) = AllValues[places'[i]] \/ KnownLoss(places'[i])
      BY <3>2 DEF RowRight
    <3>4. ASSUME NEW p, p = places'[i] PROVE KnownLoss(places[i])' <=> KnownLoss(p)
      BY <1>1, <3>4, SameLoss
    <3> QED BY <1>7, <3>1, <3>3, <3>4
  <2>3. Range(places') \subseteq DOMAIN AllValues'
    BY <1>5, <1>6, <1>7 DEF Range
  <2>4. DOMAIN places' = 1..Asked(Len(AllValues))'
    BY <1>6, <1>7 DEF n
  <2>5. DOMAIN answer' = DOMAIN places'
    BY <2>1
  <2>6. ReadBack'
    BY <1>6, <2>1, <2>2, <2>3, <2>4, <2>5 DEF ReadBack
  <2> QED BY <1>2, <2>1, <2>6 DEF DocInv
<1>10. CASE \E i \in DOMAIN places' : ~CanReadRow(nodes[places'[i]])
  <2>1. docStage' = "unreadable"
    BY <1>10 DEF ReadDocuments
  <2>2. PICK i \in DOMAIN places' : ~CanReadRow(nodes[places'[i]])
    BY <1>10
  <2>3. RowFails(AllValues[places'[i]])
    BY <1>8, <2>2 DEF RowRight
  <2>4. KnownFailure
    BY <1>2, <1>8, <2>3, RowFailing DEF n
  <2>5. KnownFailure'
    BY <1>1, <2>4, SameMeaning
  <2> QED BY <1>2, <2>1, <2>5 DEF DocInv, ReadBack
<1> QED BY <1>9, <1>10

LEMMA DocStill == ASSUME DocInv, UNCHANGED docVars PROVE DocInv'
<1>1. documents' = documents /\ complete' = complete /\ ofType' = ofType /\ batches' = batches /\ nodes' = nodes
      /\ places' = places /\ answer' = answer /\ docStage' = docStage
  BY DEF docVars
<1>2. DocTypes'
  BY <1>1 DEF DocInv, DocTypes
<1>3. AllValues' = AllValues /\ (KnownFailure' <=> KnownFailure)
  BY <1>1, SameMeaning
<1>4. ASSUME NEW i PROVE KnownLoss(places[i])' <=> KnownLoss(places[i])
  BY <1>1, SameLoss
<1>5. Asked(Len(AllValues))' = Asked(Len(AllValues))
  BY <1>1, <1>3 DEF Asked
<1>6. ReadBack'
  BY <1>1, <1>3, <1>4, <1>5 DEF DocInv, ReadBack
<1>7. ASSUME RowsFit PROVE RowsFit'
  <2>1. ASSUME NEW p \in 1..Len(nodes') PROVE nodes'[p] # Refusal /\ RowRight(p, nodes[p])'
    <3>1. nodes'[p] # Refusal /\ RowRight(p, nodes'[p])
      BY <1>1, <1>7 DEF RowsFit
    <3> QED BY <1>1, <3>1, SameRows
  <2> QED BY <2>1 DEF RowsFit, Refusal
<1> QED BY <1>1, <1>2, <1>3, <1>6, <1>7 DEF DocInv

LEMMA DocStep == DocInv /\ [DocNext]_docVars => DocInv'
BY DocCollect, DocWrite, DocRead, DocStill DEF DocNext

\* Rows that were written are read as they were, in any order, but for what is
\* known to be lost and what is not on the page that elasticsearch is asked for;
\* nothing is refused or cannot be read but what is known.
THEOREM RowsReadBack == DocSpec => []ReadBack
<1>1. DocInv => ReadBack
  BY DEF DocInv
<1> QED BY DocStart, DocStep, <1>1, PTL DEF DocSpec
=============================================================================
