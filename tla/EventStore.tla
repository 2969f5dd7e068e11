----------------------------- MODULE EventStore -----------------------------
(***************************************************************************)
(* The webhook_events table as its readers and the cleanup worker see it:  *)
(* rows appear, workers change them and cleanup deletes them, while pages  *)
(* of rows are read one statement at a time.  Dashboard and Search add the *)
(* two pages of the frontend that read it.                                 *)
(*                                                                         *)
(* Sources: internal/events/repository.go, internal/worker/cleanup.go; how *)
(* the workers claim and record is the subject of module Delivery.         *)
(*                                                                         *)
(* A row's columns that never change are given by constants.  created_at   *)
(* is the start of the inserting statement and rows are inserted here in   *)
(* any order, so a row may become visible after a younger one.             *)
(***************************************************************************)
EXTENDS Naturals, FiniteSets

CONSTANTS
  Ids,         \* rows, every one inserted at most once
  CreatedAt,   \* row -> created_at
  ReceivedAt,  \* row -> received_at, which the handler sets before the insert
  MaxRetries,  \* providers.max_retries
  MaxRows,     \* maxRows of cleanup.go
  Worked,      \* bound: the rows that workers get to
  Codes,       \* response codes the destination gives
  Horizons,    \* bound: values of the retention horizon after the start
  MaxFaults,   \* bound: failing statements and requests
  Unborn,      \* not inserted yet
  Deleted,     \* inserted and deleted again
  None         \* SQL NULL / Go nil / JavaScript null

ASSUME StoreAssumption ==
  /\ IsFiniteSet(Ids)
  /\ CreatedAt \in [Ids -> Nat] /\ ReceivedAt \in [Ids -> Nat]
  /\ Codes \subseteq {200, 500} /\ Horizons \subseteq Nat
  /\ MaxRetries \in Nat /\ MaxRows \in Nat /\ MaxFaults \in Nat

Statuses == {"queued", "processing", "delivered", "retrying", "failed"}

\* The columns workers write.
Row == [status : Statuses, code : Codes \cup {None}, retries : Nat, error : BOOLEAN]

\* NULL and the absence of a row are not rows.
ASSUME StoreMarkers == {None, Unborn, Deleted} \cap Row = {} /\ Unborn # Deleted

VARIABLES
  rows,      \* row -> its columns, Unborn or Deleted
  horizon,   \* NOW() - INTERVAL '7 days'
  cleaning,  \* the next statement of runCleanup
  excess,    \* the rows it will evict
  faults     \* faults so far

store == <<rows, horizon, cleaning, excess>>

StoreTypeOK ==
  /\ \A i \in Ids : rows[i] \in Row \/ rows[i] \in {Unborn, Deleted}
  /\ horizon \in Nat
  /\ cleaning \in {"purge", "count", "evict"}
  /\ excess \in Nat
  /\ cleaning = "evict" => excess > 0
  /\ faults \in Nat

StoreInit ==
  /\ rows = [i \in Ids |-> Unborn]
  /\ horizon = 0
  /\ cleaning = "purge"
  /\ excess = 0
  /\ faults = 0

Fault == faults < MaxFaults /\ faults' = faults + 1

Present == {i \in Ids : rows[i] \notin {Unborn, Deleted}}

-----------------------------------------------------------------------------
(* Queries *)

\* The possible results of ORDER BY key LIMIT n over the rows S: Before(i, j) is
\* the strict order, and rows it leaves unordered may come out either way.
First(S, n, Before(_, _)) ==
  {T \in SUBSET S :
     /\ Cardinality(T) = IF Cardinality(S) < n THEN Cardinality(S) ELSE n
     /\ \A t \in T, s \in S \ T : ~Before(s, t)}

Younger(i, j) == CreatedAt[i] > CreatedAt[j]
ReceivedBefore(i, j) == ReceivedAt[i] < ReceivedAt[j]

-----------------------------------------------------------------------------
(* Writers *)

Inserted == [status |-> "queued", code |-> None, retries |-> 0, error |-> FALSE]

\* InsertWebhook commits; received_at is the present, so within retention.
InsertRow(i) ==
  /\ rows[i] = Unborn
  /\ ReceivedAt[i] > horizon
  /\ rows' = [rows EXCEPT ![i] = Inserted]

\* A queue or retry worker takes the row.
ClaimRow(i) ==
  /\ i \in Present \cap Worked
  /\ \/ rows[i].status = "queued" /\ rows' = [rows EXCEPT ![i].status = "processing"]
     \/ /\ rows[i].status = "failed" /\ rows[i].retries < MaxRetries
        /\ rows' = [rows EXCEPT ![i].status = "retrying"]

\* The row after an attempt that was answered with code.
Recorded(w, code) ==
  [status |-> IF code = 200 THEN "delivered" ELSE "failed",
   code |-> code,
   retries |-> IF w.status = "retrying" THEN w.retries + 1 ELSE w.retries,
   error |-> code # 200]

\* UpdateEvents records the attempt.
RecordRow(i) ==
  /\ i \in Present
  /\ rows[i].status \in {"processing", "retrying"}
  /\ \E code \in Codes : rows' = [rows EXCEPT ![i] = Recorded(rows[i], code)]

-----------------------------------------------------------------------------
(* The cleanup worker *)

Delete(S) == rows' = [i \in Ids |-> IF i \in S THEN Deleted ELSE rows[i]]

\* Rows pass the age limit.
Age ==
  /\ \E h \in Horizons : h > horizon /\ horizon' = h
  /\ UNCHANGED <<rows, cleaning, excess, faults>>

\* The ticker fires and the age purge runs.
PurgeAge ==
  /\ cleaning = "purge"
  /\ Delete({i \in Present : ReceivedAt[i] < horizon})
  /\ cleaning' = "count"
  /\ UNCHANGED <<horizon, excess, faults>>

\* Mutant of CountRows: exactly maxRows rows are too many.
CountRows_Strict ==
  /\ cleaning = "count"
  /\ LET count == Cardinality(Present)
     IN  IF count < MaxRows
         THEN cleaning' = "purge" /\ UNCHANGED excess
         ELSE cleaning' = "evict" /\ excess' = count - MaxRows
  /\ UNCHANGED <<rows, horizon, faults>>

\* Mutant of CountRows: one row too many is let pass.
CountRows_Late ==
  /\ cleaning = "count"
  /\ LET count == Cardinality(Present)
     IN  IF count <= MaxRows + 1
         THEN cleaning' = "purge" /\ UNCHANGED excess
         ELSE cleaning' = "evict" /\ excess' = count - MaxRows
  /\ UNCHANGED <<rows, horizon, faults>>

\* The rows are counted, in a statement of its own.
CountRows ==
  /\ cleaning = "count"
  /\ LET count == Cardinality(Present)
     IN  IF count <= MaxRows
         THEN cleaning' = "purge" /\ UNCHANGED excess
         ELSE cleaning' = "evict" /\ excess' = count - MaxRows
  /\ UNCHANGED <<rows, horizon, faults>>

\* Mutant of Evict: the youngest rows are deleted.
Evict_Youngest ==
  /\ cleaning = "evict"
  /\ \E S \in First(Present, excess, LAMBDA i, j : ReceivedBefore(j, i)) : Delete(S)
  /\ cleaning' = "purge" /\ excess' = 0
  /\ UNCHANGED <<horizon, faults>>

\* As many of the oldest rows as were counted in excess are deleted.
Evict ==
  /\ cleaning = "evict"
  /\ \E S \in First(Present, excess, ReceivedBefore) : Delete(S)
  /\ cleaning' = "purge" /\ excess' = 0
  /\ UNCHANGED <<horizon, faults>>

\* A statement fails and ends the pass; a DELETE may have been committed.
CleanupFails ==
  /\ Fault
  /\ \/ UNCHANGED rows
     \/ cleaning = "purge" /\ Delete({i \in Present : ReceivedAt[i] < horizon})
     \/ cleaning = "evict" /\ \E S \in First(Present, excess, ReceivedBefore) : Delete(S)
  /\ cleaning' = "purge" /\ excess' = 0
  /\ UNCHANGED horizon

CleanupStep == PurgeAge \/ CountRows \/ Evict \/ CleanupFails

\* The ticker and the context's timeouts keep the cleanup worker going.
CleanupFairness == WF_<<store, faults>>(PurgeAge) /\ WF_<<store, faults>>(CountRows) /\ WF_<<store, faults>>(Evict)

-----------------------------------------------------------------------------

\* Cleanup deletes a row only for its age or for being among the oldest of more
\* than maxRows rows, even though it evicts by a count taken earlier: at least
\* maxRows rows that are within retention survive any step that deletes one of
\* them, and none of those is older than the deleted one.
DeletesOnlyExcess ==
  [][\A i \in Ids :
       /\ rows[i] \notin {Unborn, Deleted} /\ rows'[i] = Deleted
       /\ ReceivedAt[i] >= horizon
       => Cardinality({j \in Ids : /\ rows'[j] \notin {Unborn, Deleted}
                                   /\ ReceivedAt[j] >= ReceivedAt[i]}) >= MaxRows
    ]_<<store, faults>>

\* Once no more rows arrive, cleanup brings the table down to maxRows rows, all
\* of them within retention, however many of its passes failed or counted rows
\* before the last ones arrived.
RetentionHolds ==
  <>[](Cardinality(Present) <= MaxRows /\ \A i \in Present : ReceivedAt[i] >= horizon)

=============================================================================
