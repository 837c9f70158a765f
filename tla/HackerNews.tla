----------------------------- MODULE HackerNews -----------------------------
(***************************************************************************)
(* plugins/source/hackernews/resources/services/items/items_fetch.go: the  *)
(* incremental table of items. A run reads the cursor from the state       *)
(* backend, moves it to start_time, fetches what follows in batches, and   *)
(* saves the cursor after each. Items are numbered by age, so an item is   *)
(* its own time. Runs fail, stop anywhere, and begin again.                *)
(*                                                                         *)
(* The API and the state backend are external: items appear at the end and *)
(* can be deleted, and any call may fail. Errors that RetryOnError tries   *)
(* again, without a limit, are a step that has not happened yet.           *)
(***************************************************************************)
EXTENDS Integers, FiniteSetsExt

CONSTANTS
  MaxItems,     \* items there will be, at most
  ItemBatch     \* items in a batch (1000)

ASSUME HackerNewsAssumption == MaxItems \in Nat /\ ItemBatch \in Nat \ {0}

VARIABLES
  latest,     \* the newest item
  deleted,    \* items that are gone
  startTime,  \* the time of start_time, which grows when it is relative, or Unset
  saved,      \* the cursor in the state backend
  hnStage,    \* "idle", "search", "fetch"
  cursor,     \* the run's cursor
  maxID,      \* the newest item when the run began
  low, high,  \* findFirstPostAfter: start and end
  fetching,   \* items of the batch that are not fetched yet
  sent,       \* items handed to the SDK, ever
  skipped     \* items a run took for the start and began behind

hnVars == <<latest, deleted, startTime, saved, hnStage, cursor, maxID, low, high,
            fetching, sent, skipped>>

Unset == -1

HackerNewsInit ==
  /\ latest \in 1..MaxItems /\ deleted = {} /\ startTime \in {Unset} \cup 0..latest
  /\ saved = 0 /\ hnStage = "idle"
  /\ cursor = 0 /\ maxID = 0 /\ low = 0 /\ high = 0
  /\ fetching = {} /\ sent = {} /\ skipped = {}

\* The world goes on.
NewItem ==
  /\ latest < MaxItems /\ latest' = latest + 1
  /\ UNCHANGED <<deleted, startTime, saved, hnStage, cursor, maxID, low, high, fetching, sent, skipped>>

DeleteItem ==
  /\ \E i \in 1..latest \ deleted : deleted' = deleted \cup {i}
  /\ UNCHANGED <<latest, startTime, saved, hnStage, cursor, maxID, low, high, fetching, sent, skipped>>

TimePasses ==
  /\ hnStage = "idle" /\ startTime # Unset /\ startTime < latest /\ startTime' = startTime + 1
  /\ UNCHANGED <<latest, deleted, saved, hnStage, cursor, maxID, low, high, fetching, sent, skipped>>

ResetRun == cursor' = 0 /\ maxID' = 0 /\ low' = 0 /\ high' = 0 /\ fetching' = {}

\* An error ends the run, a crash or the end of the program as well.
RunFails ==
  /\ hnStage # "idle" /\ hnStage' = "idle" /\ ResetRun
  /\ UNCHANGED <<latest, deleted, startTime, saved, sent, skipped>>

NextBatch(c, last) == {i \in 1..last : c < i /\ i <= c + ItemBatch}

BeginRun ==
  /\ hnStage = "idle"
  /\ cursor' = saved /\ maxID' = latest
  /\ \/ /\ startTime # Unset /\ hnStage' = "search"
        /\ low' = 1 /\ high' = latest /\ fetching' = {}
     \/ /\ startTime = Unset /\ hnStage' = "fetch"
        /\ fetching' = NextBatch(saved, latest) /\ UNCHANGED <<low, high>>
  /\ UNCHANGED <<latest, deleted, startTime, saved, sent, skipped>>

Middle == (low + high) \div 2

\* findFirstPostAfter does not step over a deleted item as fetchItem does:
\* its error ends the run.
Search ==
  /\ hnStage = "search" /\ low < high /\ Middle \notin deleted
  /\ IF Middle > startTime THEN high' = Middle /\ low' = low ELSE low' = Middle + 1 /\ high' = high
  /\ UNCHANGED <<latest, deleted, startTime, saved, hnStage, cursor, maxID, fetching, sent, skipped>>

\* The start is put in the place of the cursor, which is the last item that
\* need not be fetched.
Found ==
  /\ hnStage = "search" /\ low >= high
  /\ cursor' = Max({cursor, low})
  /\ skipped' = IF low > cursor /\ low > startTime THEN skipped \cup {low} ELSE skipped
  /\ fetching' = NextBatch(cursor', maxID) /\ low' = 0 /\ high' = 0
  /\ hnStage' = "fetch"
  /\ UNCHANGED <<latest, deleted, startTime, saved, maxID, sent>>

\* The items of a batch are fetched by goroutines, in any order.
FetchItem ==
  /\ hnStage = "fetch"
  /\ \E i \in fetching :
       /\ fetching' = fetching \ {i}
       /\ sent' = IF i \in deleted THEN sent ELSE sent \cup {i}
  /\ UNCHANGED <<latest, deleted, startTime, saved, hnStage, cursor, maxID, low, high, skipped>>

\* Mutant: the batch is waited for only until its last item is there.
SaveCursorOfLast ==
  /\ hnStage = "fetch" /\ cursor < maxID /\ Min({cursor + ItemBatch, maxID}) \notin fetching
  /\ cursor' = Min({cursor + ItemBatch, maxID})
  /\ saved' = cursor' /\ fetching' = NextBatch(cursor', maxID)
  /\ UNCHANGED <<latest, deleted, startTime, hnStage, maxID, low, high, sent, skipped>>

\* SetKey and Flush, when g.Wait has returned without an error.
SaveCursor ==
  /\ hnStage = "fetch" /\ fetching = {} /\ cursor < maxID
  /\ cursor' = Min({cursor + ItemBatch, maxID})
  /\ saved' = cursor' /\ fetching' = NextBatch(cursor', maxID)
  /\ UNCHANGED <<latest, deleted, startTime, hnStage, maxID, low, high, sent, skipped>>

EndRun ==
  /\ hnStage = "fetch" /\ cursor >= maxID
  /\ hnStage' = "idle" /\ ResetRun
  /\ UNCHANGED <<latest, deleted, startTime, saved, sent, skipped>>

HackerNewsNext ==
  \/ NewItem \/ DeleteItem \/ TimePasses
  \/ BeginRun \/ RunFails \/ Search \/ Found \/ FetchItem \/ SaveCursor \/ EndRun

HackerNewsSpec == HackerNewsInit /\ [][HackerNewsNext]_hnVars

-----------------------------------------------------------------------------
(* Properties. *)

\* Every item up to the saved cursor has been handed on, is older than
\* start_time, or was deleted, however runs failed; but for the first item
\* after start_time, behind which a run begins. The SDK may still lose what
\* it was handed, since the cursor is saved before it is written.
NoItemMissed ==
  \A i \in 1..saved : i \in sent \cup deleted \cup skipped \/ i <= startTime

\* What the comment on fetchItems asks of an incremental table: whatever the
\* cursor has passed was delivered at least once. The item that findFirstPostAfter
\* finds becomes the cursor, and is not.
AtLeastOnce ==
  \A i \in 1..saved : i \in sent \cup deleted \/ i <= startTime
=============================================================================
