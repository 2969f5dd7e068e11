------------------------------ MODULE Delivery ------------------------------
(***************************************************************************)
(* The delivery pipeline of vaulthook: the webhook_events table (the       *)
(* transactional outbox) and the queue, retry and replay workers that      *)
(* claim its rows, forward them to the destination and record the outcome, *)
(* together with the operations that touch a row behind a worker's back:   *)
(* insertion, replay, cleanup, and the crash of the whole process.         *)
(*                                                                         *)
(* Sources: internal/worker/{service,repository,pool,cleanup}.go,          *)
(* internal/events/repository.go (InsertWebhook, replayEvent).             *)
(*                                                                         *)
(* Time is relative.  A Tick ages every row, brings every scheduled retry  *)
(* closer and counts against the timeouts of every worker that holds rows. *)
(***************************************************************************)
EXTENDS Naturals, FiniteSets

CONSTANTS
  Events,         \* rows of webhook_events; a row's number is its received_at
  QueueWorkers,   \* workers of WorkerKindQueue
  RetryWorkers,   \* workers of WorkerKindRetry
  ReplayWorker,   \* the one worker of WorkerKindReplay
  QueueBatch,     \* QueueWorkerBatch
  RetryBatch,     \* RetryWorkerBatch
  MaxRetries,     \* providers.max_retries
  RetryInterval,  \* RetryIntervalSeconds, in ticks
  RetryAfters,    \* delays a destination may ask for with Retry-After, in ticks
  Answers,        \* classes of HTTP responses the destination gives, see Classes
  StaleAfter,     \* the '1 minute' of the reclaim condition, in ticks
  BusyLimit,      \* get + forward + update timeouts of one pass, in ticks
  MaxFaults,      \* bound: crashes, database errors and lost wake-ups
  MaxReplays,     \* bound: replay requests per row
  None            \* SQL NULL / Go nil

ASSUME EventsAssumption == Events \subseteq Nat

ASSUME WorkersAssumption ==
  /\ QueueWorkers \cap RetryWorkers = {}
  /\ ReplayWorker \notin QueueWorkers \cup RetryWorkers
  /\ IsFiniteSet(QueueWorkers) /\ IsFiniteSet(RetryWorkers)

ASSUME BoundsAssumption ==
  /\ QueueBatch \in Nat /\ RetryBatch \in Nat /\ MaxRetries \in Nat
  /\ MaxFaults \in Nat /\ MaxReplays \in Nat

\* The reclaim condition waits longer than a worker can hold a row:
\* 5s + 10s + 5s of timeouts against one minute.
ASSUME TimingAssumption ==
  /\ RetryInterval \in Nat /\ RetryAfters \subseteq Nat
  /\ StaleAfter \in Nat /\ BusyLimit \in Nat \ {0}
  /\ BusyLimit <= StaleAfter

\* "other" is a final 1xx or 3xx response, for instance 304 or a redirect
\* without a Location, which http.Client hands back as it is.
Classes == {"2xx", "429/503", "4xx", "5xx", "other"}

ASSUME AnswersAssumption == Answers \subseteq Classes

ASSUME NoneAssumption == None \notin Nat

Workers == QueueWorkers \cup RetryWorkers \cup {ReplayWorker}

VARIABLES
  status,      \* row -> delivery_status, or "absent" / "deleted"
  retryCount,  \* row -> retry_count
  nextRetry,   \* row -> ticks until next_retry_at, 0 when it is due, None for NULL
  age,         \* row -> ticks since updated_at, no longer counted once stale
  pc,          \* worker -> where it is in its loop
  hooks,       \* worker -> the rows it holds (the hooks slice of run)
  ups,         \* worker -> row -> the update that forwardEvent prepared
  busy,        \* worker -> ticks since it claimed its rows
  signal,      \* wake-ups buffered in the pool's signal channel
  faults,      \* faults so far
  accepted,    \* history: rows the destination has answered with 2xx
  replays,     \* history: row -> replay requests so far
  owed,        \* history: rows with a replay request no worker has claimed
  rejected     \* history: rows whose last batch the database refused to record

rowVars  == <<status, retryCount, nextRetry, age>>
workVars == <<pc, hooks, ups, busy>>
histVars == <<accepted, replays, owed, rejected>>
vars == <<rowVars, workVars, signal, faults, histVars>>

Stored == {"queued", "processing", "retrying", "replaying", "delivered", "failed"}
Status == Stored \cup {"absent", "deleted"}

Delays == Nat \cup {None}

\* The part of updateWebhook the pipeline depends on.  An update whose status
\* is "" is the zero value: no branch of forwardEvent has set it.
Update == [status : {"delivered", "failed", "", "unset"}, next : Delays]

\* forwardEvent's goroutine for the row has not finished.
Unset == [status |-> "unset", next |-> None]

TypeOK ==
  /\ status \in [Events -> Status]
  /\ retryCount \in [Events -> Nat]
  /\ nextRetry \in [Events -> Delays]
  /\ age \in [Events -> Nat]
  /\ pc \in [Workers -> {"waiting", "getting", "forwarding"}]
  /\ hooks \in [Workers -> SUBSET Events]
  /\ ups \in [Workers -> [Events -> Update]]
  /\ busy \in [Workers -> Nat]
  /\ signal \in Nat
  /\ faults \in Nat
  /\ accepted \subseteq Events
  /\ replays \in [Events -> Nat]
  /\ owed \subseteq Events
  /\ rejected \subseteq Events

Init ==
  /\ status = [e \in Events |-> "absent"]
  /\ retryCount = [e \in Events |-> 0]
  /\ nextRetry = [e \in Events |-> None]
  /\ age = [e \in Events |-> 0]
  /\ pc = [w \in Workers |-> "waiting"]
  /\ hooks = [w \in Workers |-> {}]
  /\ ups = [w \in Workers |-> [e \in Events |-> Unset]]
  /\ busy = [w \in Workers |-> 0]
  /\ signal = 0
  /\ faults = 0
  /\ accepted = {}
  /\ replays = [e \in Events |-> 0]
  /\ owed = {}
  /\ rejected = {}

-----------------------------------------------------------------------------
(* Insertion and wake-up                                                   *)

\* A fault the process survives or not: bounded, so that it is not for ever.
Fault == faults < MaxFaults /\ faults' = faults + 1

\* INSERT INTO webhook_events: the defaults of a new row.
InsertWebhook(e) ==
  /\ status[e] = "absent"
  /\ status' = [status EXCEPT ![e] = "queued"]
  /\ age' = [age EXCEPT ![e] = 0]
  /\ UNCHANGED <<retryCount, nextRetry>>

\* WorkerPool.Notify: a non-blocking send, dropped when the buffer is full.
Notify ==
  signal' = IF signal < Cardinality(QueueWorkers) THEN signal + 1 ELSE signal

\* A Receive handler stores the webhook and wakes a queue worker.
Receive(e) ==
  /\ InsertWebhook(e)
  /\ Notify
  /\ UNCHANGED <<workVars, faults, histVars>>

\* The row is committed and the handler does not get as far as Notify: its
\* 3 second context expires while it waits for the answer.
ReceiveUnnotified(e) ==
  /\ Fault
  /\ InsertWebhook(e)
  /\ UNCHANGED <<workVars, signal, histVars>>

\* The select of start: a signal was buffered.
WakeBySignal(w) ==
  /\ w \in QueueWorkers /\ pc[w] = "waiting" /\ signal > 0
  /\ signal' = signal - 1
  /\ pc' = [pc EXCEPT ![w] = "getting"]
  /\ UNCHANGED <<rowVars, hooks, ups, busy, faults, histVars>>

\* The select of start, startRetry and startReplay: the ticker fired.
WakeByTicker(w) ==
  /\ pc[w] = "waiting"
  /\ pc' = [pc EXCEPT ![w] = "getting"]
  /\ UNCHANGED <<rowVars, hooks, ups, busy, signal, faults, histVars>>

-----------------------------------------------------------------------------
(* Claiming rows: Repo.GetEvents                                           *)

\* Mutant of DueForRetry: retry_count <= max_retries.
DueForRetry_OneMore(e) ==
  status[e] = "failed" /\ nextRetry[e] = 0 /\ retryCount[e] <= MaxRetries

DueForRetry(e) ==
  /\ status[e] = "failed"
  /\ nextRetry[e] = 0
  /\ retryCount[e] < MaxRetries

\* Mutant of Stale: any row that has not failed.
Stale_NotFailed(e) ==
  status[e] \in Stored \ {"failed"} /\ age[e] > StaleAfter

\* Mutant of Stale: rows in 'processing' are forgotten.
Stale_NotProcessing(e) ==
  status[e] \in {"queued", "replaying"} /\ age[e] > StaleAfter

\* A row some worker or signal seems to have forgotten.  Rows that are being
\* retried are not looked at.
Stale(e) ==
  /\ status[e] \in {"processing", "queued", "replaying"}
  /\ age[e] > StaleAfter

Eligible(w) ==
  {e \in Events :
     \/ w \in QueueWorkers /\ status[e] = "queued"
     \/ w \in RetryWorkers /\ (DueForRetry(e) \/ Stale(e))
     \/ w = ReplayWorker /\ status[e] = "replaying"}

ClaimStatus(w) ==
  CASE w \in QueueWorkers -> "processing"
    [] w \in RetryWorkers -> "retrying"
    [] w = ReplayWorker -> "replaying"

Limit(w) ==
  CASE w \in QueueWorkers -> QueueBatch
    [] w \in RetryWorkers -> RetryBatch
    [] w = ReplayWorker -> 1

\* ORDER BY: received_at for queue and replay workers; for retry workers
\* next_retry_at with NULLs last, the order among the others left open.
Precedes(w, d, e) ==
  IF w \in RetryWorkers THEN nextRetry[d] # None /\ nextRetry[e] = None
                        ELSE d < e

\* The sets of rows the query may return: as many eligible rows as the limit
\* admits, and none of them behind a row that is left out.
Batches(w) ==
  {S \in SUBSET Eligible(w) :
     /\ \/ Cardinality(S) = Limit(w)
        \/ Cardinality(S) < Limit(w) /\ S = Eligible(w)
     /\ \A e \in S, d \in Eligible(w) \ S : ~Precedes(w, d, e)}

\* Mutant of Claim: the rows are locked and read, but not marked.
Claim_Unmarked(w, S) ==
  /\ owed' = owed \ S
  /\ rejected' = rejected \ S
  /\ UNCHANGED <<rowVars, accepted, replays>>

\* The UPDATE of GetEvents, and the trigger that sets updated_at.
Claim(w, S) ==
  /\ status' = [e \in Events |-> IF e \in S THEN ClaimStatus(w) ELSE status[e]]
  /\ age' = [e \in Events |-> IF e \in S THEN 0 ELSE age[e]]
  /\ owed' = owed \ S
  /\ rejected' = rejected \ S
  /\ UNCHANGED <<retryCount, nextRetry, accepted, replays>>

\* GetEvents commits.  With nothing to claim it returns an empty slice and no
\* error, so run goes on to forward and update an empty batch.
GetEvents(w) ==
  /\ pc[w] = "getting"
  /\ \E S \in Batches(w) :
       /\ Claim(w, S)
       /\ hooks' = [hooks EXCEPT ![w] = S]
  /\ pc' = [pc EXCEPT ![w] = "forwarding"]
  /\ busy' = [busy EXCEPT ![w] = 0]
  /\ UNCHANGED <<ups, signal, faults>>

\* GetEvents returns an error and run breaks.  The transaction is rolled back,
\* or it was committed and only the answer to the COMMIT was lost.
GetEventsFails(w) ==
  /\ Fault
  /\ pc[w] = "getting"
  /\ \/ UNCHANGED <<rowVars, histVars>>
     \/ \E S \in Batches(w) : Claim(w, S)
  /\ pc' = [pc EXCEPT ![w] = "waiting"]
  /\ UNCHANGED <<hooks, ups, busy, signal>>

-----------------------------------------------------------------------------
(* Forwarding: Worker.forwardEvent                                         *)

\* setDefaultUpdateValues and setRetryableUpdateValues differ in response_code
\* and last_error only.
setDefaultUpdateValues == [status |-> "failed", next |-> RetryInterval]
setRetryableUpdateValues == [status |-> "failed", next |-> RetryInterval]

setSuccessUpdateValues == [status |-> "delivered", next |-> None]

\* Not to be retried: next_retry_at is NULL.
setFailureUpdateValues == [status |-> "failed", next |-> None]

\* The delay of a usable Retry-After header, or the configured interval.
setRateLimitedUpdateValues(retryAfter) ==
  [status |-> "failed",
   next |-> IF retryAfter \in Nat \ {0} THEN retryAfter ELSE RetryInterval]

\* Mutant of ResponseUpdates: success is any code below 400.
ResponseUpdates_Below400(answer) ==
  CASE answer \in {"2xx", "other"} -> {setSuccessUpdateValues}
    [] answer = "429/503" ->
         {setRateLimitedUpdateValues(d) : d \in RetryAfters \cup {None}}
    [] answer = "4xx" -> {setFailureUpdateValues}
    [] answer = "5xx" -> {setRetryableUpdateValues}

\* The switch on res.StatusCode.  It has no case for "other".
ResponseUpdates(answer) ==
  CASE answer = "2xx" -> {setSuccessUpdateValues}
    [] answer = "429/503" ->
         {setRateLimitedUpdateValues(d) : d \in RetryAfters \cup {None}}
    [] answer = "4xx" -> {setFailureUpdateValues}
    [] answer = "5xx" -> {setRetryableUpdateValues}
    [] answer = "other" -> {[status |-> "", next |-> None]}

\* No request leaves: the provider cache, the limiter or the request cannot
\* be built (default), or the limiter says no (rate limited, no header).
ForwardNotSent(w, e) ==
  /\ \E u \in {setDefaultUpdateValues, setRateLimitedUpdateValues(None)} :
       ups' = [ups EXCEPT ![w][e] = u]
  /\ UNCHANGED accepted

\* The destination answers.
ForwardAnswered(w, e) ==
  \E answer \in Answers : \E u \in ResponseUpdates(answer) :
    /\ ups' = [ups EXCEPT ![w][e] = u]
    /\ accepted' = IF answer = "2xx" THEN accepted \cup {e} ELSE accepted

\* A transport error or the timeout: the request may have reached the
\* destination, which may have accepted it.
ForwardBroken(w, e) ==
  /\ ups' = [ups EXCEPT ![w][e] = setDefaultUpdateValues]
  /\ accepted' \in {accepted, accepted \cup {e}}

\* One goroutine of forwardEvent, for row e of worker w's batch.
Forward(w, e) ==
  /\ pc[w] = "forwarding" /\ e \in hooks[w] /\ ups[w][e] = Unset
  /\ ForwardNotSent(w, e) \/ ForwardAnswered(w, e) \/ ForwardBroken(w, e)
  /\ UNCHANGED <<rowVars, pc, hooks, busy, signal, faults, replays, owed, rejected>>

-----------------------------------------------------------------------------
(* Recording the outcome: Repo.UpdateEvents, and the end of a pass of run  *)

Forwarded(w) == pc[w] = "forwarding" /\ \A e \in hooks[w] : ups[w][e] # Unset

\* delivery_status = '' is not a value of the enum.
Invalid(w) == \E e \in hooks[w] : ups[w][e].status = ""

\* Mutant of Written: an update without a status is written as it is.
Written_NoEnum(w) == {e \in hooks[w] : status[e] \in Stored}

\* Mutant of Written: a row that is gone rolls the whole batch back.
Written_AllOrNothing(w) ==
  IF Invalid(w) \/ \E e \in hooks[w] : status[e] \notin Stored THEN {} ELSE hooks[w]

\* The batch is one implicit transaction: one update without a status and no row
\* of it is written.  A row that has been deleted meanwhile matches no WHERE
\* clause.
Written(w) == IF Invalid(w) THEN {} ELSE {e \in hooks[w] : status[e] \in Stored}

\* The UPDATE of every row of S with what w prepared for it.
Record(w, S) ==
  /\ status' = [e \in Events |-> IF e \in S THEN ups[w][e].status ELSE status[e]]
  /\ nextRetry' = [e \in Events |-> IF e \in S THEN ups[w][e].next ELSE nextRetry[e]]
  /\ age' = [e \in Events |-> IF e \in S THEN 0 ELSE age[e]]
  /\ retryCount' = [e \in Events |->
       IF e \in S /\ w \in RetryWorkers THEN retryCount[e] + 1 ELSE retryCount[e]]

\* run starts over, whatever UpdateEvents returned.
NextPass(w) ==
  /\ pc' = [pc EXCEPT ![w] = "getting"]
  /\ hooks' = [hooks EXCEPT ![w] = {}]
  /\ ups' = [ups EXCEPT ![w] = [e \in Events |-> Unset]]
  /\ busy' = [busy EXCEPT ![w] = 0]

UpdateEvents(w) ==
  /\ Forwarded(w)
  /\ Record(w, Written(w))
  /\ NextPass(w)
  /\ rejected' = IF Invalid(w) THEN rejected \cup hooks[w] ELSE rejected
  /\ UNCHANGED <<signal, faults, accepted, replays, owed>>

\* The database does not answer in time, and nothing was written.
UpdateEventsFails(w) ==
  /\ Fault
  /\ Forwarded(w) /\ hooks[w] # {}
  /\ NextPass(w)
  /\ UNCHANGED <<rowVars, signal, histVars>>

-----------------------------------------------------------------------------
(* Operations on rows that no worker coordinates with                      *)

\* EventRepo.replayEvent: whatever the row's status is.
ReplayEvent(e) ==
  /\ status[e] \in Stored
  /\ replays[e] < MaxReplays
  /\ status' = [status EXCEPT ![e] = "replaying"]
  /\ age' = [age EXCEPT ![e] = 0]
  /\ replays' = [replays EXCEPT ![e] = @ + 1]
  /\ owed' = owed \cup {e}
  /\ UNCHANGED <<retryCount, nextRetry, workVars, signal, faults, accepted, rejected>>

\* runCleanup: both deletes, by age and by number of rows, remove the rows
\* received up to some moment, whatever their status.
RunCleanup(last) ==
  LET old == {e \in Events : e <= last /\ status[e] \in Stored} IN
  /\ old # {}
  /\ status' = [e \in Events |-> IF e \in old THEN "deleted" ELSE status[e]]
  /\ owed' = owed \ old
  /\ UNCHANGED <<retryCount, nextRetry, age, workVars, signal, faults,
                 accepted, replays, rejected>>

\* Mutant of Crash: the restart puts every row in flight back into the queue.
Crash_Requeues ==
  /\ Fault
  /\ status' = [e \in Events |->
       IF status[e] \in {"processing", "retrying", "replaying"} THEN "queued"
                                                               ELSE status[e]]
  /\ pc' = [w \in Workers |-> "waiting"]
  /\ hooks' = [w \in Workers |-> {}]
  /\ ups' = [w \in Workers |-> [e \in Events |-> Unset]]
  /\ busy' = [w \in Workers |-> 0]
  /\ signal' = 0
  /\ UNCHANGED <<retryCount, nextRetry, age, histVars>>

\* The process dies and is restarted: the workers and the channel start empty.
Crash ==
  /\ Fault
  /\ pc' = [w \in Workers |-> "waiting"]
  /\ hooks' = [w \in Workers |-> {}]
  /\ ups' = [w \in Workers |-> [e \in Events |-> Unset]]
  /\ busy' = [w \in Workers |-> 0]
  /\ signal' = 0
  /\ UNCHANGED <<rowVars, histVars>>

-----------------------------------------------------------------------------
(* Time                                                                    *)

Sooner(d) == IF d \in Nat \ {0} THEN d - 1 ELSE d

SoonerUpdate(u) == [status |-> u.status, next |-> Sooner(u.next)]

\* Mutant of Tick: the calls that run makes have no timeouts.
Tick_NoTimeouts ==
  /\ age' = [e \in Events |-> IF age[e] <= StaleAfter THEN age[e] + 1 ELSE age[e]]
  /\ nextRetry' = [e \in Events |-> Sooner(nextRetry[e])]
  /\ UNCHANGED <<status, retryCount, workVars, signal, faults, histVars>>

\* Time passes.  The timeouts of run do not let a worker hold rows for longer
\* than BusyLimit; updated_at is not followed beyond the point of staleness.
Tick ==
  /\ \A w \in Workers : hooks[w] # {} => busy[w] < BusyLimit
  /\ age' = [e \in Events |-> IF age[e] <= StaleAfter THEN age[e] + 1 ELSE age[e]]
  /\ nextRetry' = [e \in Events |-> Sooner(nextRetry[e])]
  /\ ups' = [w \in Workers |-> [e \in Events |-> SoonerUpdate(ups[w][e])]]
  /\ busy' = [w \in Workers |-> IF hooks[w] # {} THEN busy[w] + 1 ELSE busy[w]]
  /\ UNCHANGED <<status, retryCount, pc, hooks, signal, faults, histVars>>

-----------------------------------------------------------------------------

\* What a worker's goroutines do of their own accord.
WorkerStep(w) ==
  \/ WakeByTicker(w)
  \/ GetEvents(w)
  \/ \E e \in Events : Forward(w, e)
  \/ UpdateEvents(w)

Next ==
  \/ \E e \in Events : Receive(e) \/ ReceiveUnnotified(e) \/ ReplayEvent(e)
  \/ \E e \in Events : RunCleanup(e)
  \/ \E w \in Workers :
       \/ WorkerStep(w) \/ WakeBySignal(w)
       \/ GetEventsFails(w) \/ UpdateEventsFails(w)
  \/ Crash
  \/ Tick

Spec == Init /\ [][Next]_vars

\* Every goroutine is scheduled again and again and time goes on.  Nothing is
\* assumed of clients, operators, the cleanup worker, faults, or of which
\* answer a destination gives.
Fairness == WF_vars(Tick) /\ \A w \in Workers : WF_vars(WorkerStep(w))

FairSpec == Spec /\ Fairness

-----------------------------------------------------------------------------
(* Safety                                                                  *)

\* SKIP LOCKED, the claim status and the one-minute reclaim together keep a
\* row in the hands of one worker: a row nobody asked to replay is never in
\* two workers' batches, even across crashes and failed updates.
ExclusiveHolder ==
  \A e \in Events : replays[e] = 0 =>
    \A v, w \in Workers : e \in hooks[v] /\ e \in hooks[w] => v = w

\* A row is recorded as delivered only if a destination has answered 2xx.
DeliveredWasAccepted ==
  \A e \in Events : status[e] = "delivered" => e \in accepted

\* A row is claimed by retry workers at most max_retries times, not counting
\* one reclaim of a row that was never retried and one for every replay.
RetryBudget ==
  \A e \in Events :
    retryCount[e] <= (IF MaxRetries = 0 THEN 1 ELSE MaxRetries) + replays[e]

\* Once recorded as delivered, a row nobody replays is left alone for good:
\* no late result, reclaim or retry of it can overwrite the record.
DeliveredIsFinal ==
  [][\A e \in Events : status[e] = "delivered" /\ replays'[e] = 0 =>
       /\ status'[e] \in {"delivered", "deleted"}
       /\ \A w \in Workers : e \notin hooks'[w]]_vars

\* While nothing fails, a row marked as in flight really is in the hands of a
\* worker that marked it, whatever happens to the other rows of its batch.  Only
\* a response without a case in forwardEvent's switch can leave its batch behind.
InFlightIsHeld ==
  faults = 0 =>
    \A e \in Events \ rejected : status[e] \in {"processing", "retrying"} =>
      \E w \in Workers : e \in hooks[w] /\ ClaimStatus(w) = status[e]

\* A replay request waits in the row for the replay worker.  The one thing that
\* overwrites it unseen is the result of an attempt that was already under way
\* when the request was made; claims, reclaims, faults and crashes do not.
ReplayLostInFlight ==
  [][\A e \in owed \cap owed' : status[e] = "replaying" /\ status'[e] # "replaying" =>
       \E w \in Workers : e \in hooks[w] /\ e \notin hooks'[w]]_vars

-----------------------------------------------------------------------------
(* Rows that are left behind, and liveness                                 *)

\* Nothing remains to be done for the row: it is delivered, gone, refused for
\* good (4xx) or out of retries.
Settled(e) ==
  \/ status[e] \in {"delivered", "deleted"}
  \/ status[e] = "failed" /\ (nextRetry[e] = None \/ retryCount[e] >= MaxRetries)

\* The row is marked as being retried and no worker is retrying it, because of a
\* fault or because the database refused to record its batch.
Orphaned(e) ==
  /\ status[e] = "retrying" /\ \A w \in Workers : e \notin hooks[w]
  /\ faults > 0 \/ e \in rejected

\* A row whose retry is due and that nobody has touched for StaleAfter is never
\* forgotten: nothing remains to be done for it, or a worker has it, or a worker's
\* next GetEvents can return it, or it was orphaned in 'retrying', which the
\* reclaim condition does not look at.
NothingForgotten ==
  \A e \in Events :
    status[e] \in Stored /\ age[e] > StaleAfter /\ nextRetry[e] \in {0, None} =>
      \/ Settled(e) \/ Orphaned(e)
      \/ \E w \in Workers : e \in hooks[w] \/ e \in Eligible(w)

\* A worker holds the row in a batch that the enum is going to reject.
Refused(e) == \E w \in Workers : e \in hooks[w] /\ Invalid(w)

\* Every webhook that is stored, and every replay, is eventually settled.  Two
\* things can leave a row behind, and only while it is being retried: a crash or
\* database error, and a response without a case in forwardEvent's switch (1xx or
\* 3xx), for which the enum rejects the batch.  Outside a retry such a response
\* costs nothing but the attempt: a row is sent for ever only if its batches are
\* refused again and again.
SettledOrOrphaned ==
  \A e \in Events :
    \/ status[e] # "absent" ~> Settled(e) \/ Orphaned(e)
    \/ []<>Refused(e)

-----------------------------------------------------------------------------
(* Refinement                                                              *)

\* What has become of a row, whoever is working on it.
Phase(e) ==
  IF status[e] = "deleted" THEN "gone"
  ELSE IF status[e] \in {"absent", "delivered"} THEN status[e] ELSE "open"

PhaseOf == [e \in Events |-> Phase(e)]
Held == {e \in Events : \E w \in Workers : e \in hooks[w]}
Replayed == {e \in Events : replays[e] > 0}

O == INSTANCE Outbox WITH
       phase <- PhaseOf,
       taken <- Held,
       replayed <- Replayed

\* The table and the workers together are the outbox of the README: "Only after
\* the write succeeds (the outbox) does a queue worker attempt forwarding".
\* Whatever the workers, the cleanup, the faults and the replays do, a row goes
\* through the steps of Outbox and no others.
ImplementsOutbox == O!Spec

-----------------------------------------------------------------------------
(* What the documentation, comments and tests say and the code does not do *)

\* "a crash or forwarding failure never loses an event, it just retries later":
\* every webhook that is stored is eventually settled, crash or not.
EventuallySettled ==
  \A e \in Events : status[e] # "absent" ~> Settled(e)

\* The test of GetEvents expects pgx.ErrNoRows when there is nothing to claim,
\* and run leaves its loop on that error: a worker without work goes back to
\* wait for its ticker or a signal.
IdleWorkerWaits ==
  \A w \in Workers :
    []<>(pc[w] = "waiting" \/ Eligible(w) # {} \/ hooks[w] # {})

=============================================================================
