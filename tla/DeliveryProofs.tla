--------------------------- MODULE DeliveryProofs ---------------------------
(***************************************************************************)
(* Theorems about Delivery, for any number of rows and workers, any batch  *)
(* sizes, retry limits, delays and timeouts that satisfy the assumptions   *)
(* of that module, and any number of faults and replays.                   *)
(***************************************************************************)
EXTENDS Delivery, TLAPS

\* The kinds of workers are disjoint, so the CASE of ClaimStatus is what the
\* switch on Repo.kind says.
LEMMA ClaimStatusOf ==
  /\ \A w \in QueueWorkers : ClaimStatus(w) = "processing"
  /\ \A w \in RetryWorkers : ClaimStatus(w) = "retrying"
  /\ ClaimStatus(ReplayWorker) = "replaying"
  BY WorkersAssumption DEF ClaimStatus

\* A claim writes a value of the delivery_status enum.
LEMMA ClaimStatusType == \A w \in Workers : ClaimStatus(w) \in Stored
  BY ClaimStatusOf DEF Workers, Stored

\* What forwardEvent may prepare for a row: never "unset", and "delivered" only for
\* a 2xx answer.
LEMMA PreparedUpdates ==
  ASSUME NEW answer \in Answers, NEW u \in ResponseUpdates(answer)
  PROVE  /\ u \in Update
         /\ u.status # "unset"
         /\ u.status = "delivered" => answer = "2xx"
<1>1. answer \in Classes
  BY AnswersAssumption
<1>2. \A d \in RetryAfters \cup {None} :
        /\ setRateLimitedUpdateValues(d).status = "failed"
        /\ setRateLimitedUpdateValues(d) \in Update
  BY TimingAssumption, NoneAssumption
  DEF setRateLimitedUpdateValues, Update, Delays
<1>3. CASE answer = "429/503"
  <2>1. ResponseUpdates(answer)
          = {setRateLimitedUpdateValues(d) : d \in RetryAfters \cup {None}}
    BY <1>3 DEF ResponseUpdates
  <2>2. QED
    BY <1>2, <1>3, <2>1
<1>4. CASE answer = "2xx"
  <2>1. u = setSuccessUpdateValues
    BY <1>4 DEF ResponseUpdates
  <2>2. QED
    BY <1>4, <2>1 DEF setSuccessUpdateValues, Update, Delays
<1>5. CASE answer = "4xx"
  <2>1. u = setFailureUpdateValues
    BY <1>5 DEF ResponseUpdates
  <2>2. QED
    BY <2>1 DEF setFailureUpdateValues, Update, Delays
<1>6. CASE answer = "5xx"
  <2>1. u = setRetryableUpdateValues
    BY <1>6 DEF ResponseUpdates
  <2>2. QED
    BY <2>1, TimingAssumption DEF setRetryableUpdateValues, Update, Delays
<1>7. CASE answer = "other"
  <2>1. u = [status |-> "", next |-> None]
    BY <1>7 DEF ResponseUpdates
  <2>2. QED
    BY <1>7, <2>1 DEF Update, Delays
<1>8. QED
  BY <1>1, <1>3, <1>4, <1>5, <1>6, <1>7 DEF Classes

\* The updates that forwardEvent prepares without an answer are updates.
LEMMA DefaultUpdates ==
  ASSUME NEW u \in {setDefaultUpdateValues, setRateLimitedUpdateValues(None)}
  PROVE  u \in Update /\ u.status = "failed"
<1>1. setRateLimitedUpdateValues(None) = [status |-> "failed", next |-> RetryInterval]
  BY NoneAssumption DEF setRateLimitedUpdateValues
<1>2. u = [status |-> "failed", next |-> RetryInterval]
  BY <1>1 DEF setDefaultUpdateValues
<1>3. QED
  BY <1>2, TimingAssumption DEF Update, Delays

\* A delay that gets shorter is a delay.
LEMMA SoonerType == \A d \in Delays : Sooner(d) \in Delays
  BY NoneAssumption DEF Sooner, Delays

\* The passing of time does not change the status of a prepared update.
LEMMA SoonerUpdateType ==
  ASSUME NEW u \in Update
  PROVE  /\ SoonerUpdate(u) \in Update
         /\ SoonerUpdate(u).status = u.status
         /\ u = Unset => SoonerUpdate(u) = Unset
<1>1. u.next \in Delays /\ u.status \in {"delivered", "failed", "", "unset"}
  BY DEF Update
<1>2. Sooner(u.next) \in Delays
  BY <1>1, SoonerType
<1>3. Sooner(None) = None
  BY NoneAssumption DEF Sooner
<1>4. SoonerUpdate(u) \in Update /\ SoonerUpdate(u).status = u.status
  BY <1>1, <1>2 DEF Update, SoonerUpdate
<1>5. ASSUME u = Unset PROVE SoonerUpdate(u) = Unset
  BY <1>3, <1>5 DEF Unset, SoonerUpdate
<1>6. QED
  BY <1>4, <1>5

\* The update of a goroutine that has not finished is an update.
LEMMA UnsetType == Unset \in Update
  BY DEF Unset, Update, Delays

-----------------------------------------------------------------------------
(* Types                                                                   *)

\* An update is either what forwardEvent prepared or exactly Unset, so that
\* Forwarded really means that every goroutine of the batch is done.
UnsetIsBlank ==
  \A w \in Workers, e \in Events : ups[w][e].status = "unset" => ups[w][e] = Unset

TypeInv == TypeOK /\ UnsetIsBlank

\* The initial state is well typed.
LEMMA TypeInit == Init => TypeInv
  BY UnsetType, NoneAssumption
  DEF Init, TypeInv, TypeOK, UnsetIsBlank, Status, Stored, Delays

\* Every worker gives up its batch: the end of a pass, or a crash.
LEMMA NextPassType ==
  ASSUME TypeInv, NEW w \in Workers, NextPass(w)
  PROVE  /\ pc' \in [Workers -> {"waiting", "getting", "forwarding"}]
         /\ hooks' \in [Workers -> SUBSET Events]
         /\ ups' \in [Workers -> [Events -> Update]]
         /\ busy' \in [Workers -> Nat]
         /\ UnsetIsBlank'
  BY UnsetType DEF TypeInv, TypeOK, NextPass, UnsetIsBlank

\* Claiming rows keeps them well typed.
LEMMA ClaimType ==
  ASSUME TypeInv, NEW w \in Workers, NEW S \in Batches(w), Claim(w, S)
  PROVE  /\ status' \in [Events -> Status]
         /\ retryCount' \in [Events -> Nat]
         /\ nextRetry' \in [Events -> Delays]
         /\ age' \in [Events -> Nat]
         /\ accepted' \subseteq Events
         /\ replays' \in [Events -> Nat]
         /\ owed' \subseteq Events
         /\ rejected' \subseteq Events
  BY ClaimStatusType DEF TypeInv, TypeOK, Claim, Status

\* What a worker writes is a value of the enum delivery_status.
LEMMA WrittenStatus ==
  ASSUME TypeInv, NEW w \in Workers, Forwarded(w), NEW e \in Written(w)
  PROVE  e \in hooks[w] /\ ups[w][e].status \in {"delivered", "failed"}
<1>1. e \in hooks[w] /\ ups[w][e].status # ""
  BY DEF Written, Invalid
<1>2. e \in Events /\ ups[w][e] \in Update /\ ups[w][e] # Unset
  BY ZenonT(30), <1>1 DEF TypeInv, TypeOK, Forwarded
<1>3. ups[w][e].status # "unset"
  BY <1>2 DEF TypeInv, UnsetIsBlank
<1>4. QED
  BY <1>1, <1>2, <1>3 DEF Update

\* Recording outcomes keeps rows well typed.
LEMMA RecordType ==
  ASSUME TypeInv, NEW w \in Workers, Forwarded(w), Record(w, Written(w))
  PROVE  /\ status' \in [Events -> Status]
         /\ retryCount' \in [Events -> Nat]
         /\ nextRetry' \in [Events -> Delays]
         /\ age' \in [Events -> Nat]
<1>1. status' \in [Events -> Status]
  BY WrittenStatus DEF TypeInv, TypeOK, Record, Status, Stored
<1>2. nextRetry' \in [Events -> Delays]
  BY ZenonT(30) DEF TypeInv, TypeOK, Record, Update
<1>3. retryCount' \in [Events -> Nat] /\ age' \in [Events -> Nat]
  BY DEF TypeInv, TypeOK, Record
<1>4. QED
  BY <1>1, <1>2, <1>3

\* What the goroutine for row e leaves in ups, and in the histories.
LEMMA ForwardEffect ==
  ASSUME TypeInv, NEW w \in Workers, NEW e \in Events, Forward(w, e)
  PROVE  \E u \in Update :
           /\ ups' = [ups EXCEPT ![w][e] = u]
           /\ u.status # "unset"
           /\ u.status = "delivered" => e \in accepted'
           /\ accepted \subseteq accepted' /\ accepted' \subseteq Events
<1>1. CASE ForwardNotSent(w, e)
  <2>1. PICK u \in {setDefaultUpdateValues, setRateLimitedUpdateValues(None)} :
          ups' = [ups EXCEPT ![w][e] = u]
    BY <1>1 DEF ForwardNotSent
  <2>2. u \in Update /\ u.status = "failed"
    BY <2>1, DefaultUpdates
  <2>3. QED
    BY <1>1, <2>1, <2>2 DEF ForwardNotSent, TypeInv, TypeOK
<1>2. CASE ForwardAnswered(w, e)
  <2>0. PICK answer \in Answers : \E u \in ResponseUpdates(answer) :
          /\ ups' = [ups EXCEPT ![w][e] = u]
          /\ accepted' = IF answer = "2xx" THEN accepted \cup {e} ELSE accepted
    BY <1>2 DEF ForwardAnswered
  <2>1. PICK u \in ResponseUpdates(answer) :
          /\ ups' = [ups EXCEPT ![w][e] = u]
          /\ accepted' = IF answer = "2xx" THEN accepted \cup {e} ELSE accepted
    BY <2>0
  <2>2. /\ u \in Update
        /\ u.status # "unset"
        /\ u.status = "delivered" => answer = "2xx"
    BY <2>1, PreparedUpdates
  <2>3. QED
    BY <2>0, <2>1, <2>2 DEF TypeInv, TypeOK
<1>3. CASE ForwardBroken(w, e)
  <2>1. setDefaultUpdateValues \in Update /\ setDefaultUpdateValues.status = "failed"
    BY DefaultUpdates
  <2>2. QED
    BY <1>3, <2>1 DEF ForwardBroken, TypeInv, TypeOK
<1>4. QED
  BY <1>1, <1>2, <1>3 DEF Forward

\* Every action preserves the typing invariant.
LEMMA TypeNext == TypeInv /\ [Next]_vars => TypeInv'
<1> SUFFICES ASSUME TypeInv, [Next]_vars PROVE TypeInv'
  OBVIOUS
<1>1. ASSUME NEW e \in Events, Receive(e) PROVE TypeInv'
  BY <1>1 DEF TypeInv, TypeOK, UnsetIsBlank, Receive, InsertWebhook, Notify,
     workVars, histVars, Status, Stored
<1>2. ASSUME NEW e \in Events, ReceiveUnnotified(e) PROVE TypeInv'
  BY <1>2 DEF TypeInv, TypeOK, UnsetIsBlank, ReceiveUnnotified, Fault,
     InsertWebhook, workVars, histVars, Status, Stored
<1>3. ASSUME NEW e \in Events, ReplayEvent(e) PROVE TypeInv'
  BY <1>3 DEF TypeInv, TypeOK, UnsetIsBlank, ReplayEvent, workVars, Status, Stored
<1>4. ASSUME NEW e \in Events, RunCleanup(e) PROVE TypeInv'
  BY <1>4 DEF TypeInv, TypeOK, UnsetIsBlank, RunCleanup, workVars, Status
<1>5. ASSUME NEW w \in Workers, WakeBySignal(w) \/ WakeByTicker(w) PROVE TypeInv'
  <2>1. CASE WakeBySignal(w)
    <3>1. signal' \in Nat
      BY <2>1 DEF WakeBySignal, TypeInv, TypeOK
    <3>2. QED
      BY <2>1, <3>1 DEF TypeInv, TypeOK, UnsetIsBlank, WakeBySignal, rowVars, histVars
  <2>2. CASE WakeByTicker(w)
    BY <2>2 DEF TypeInv, TypeOK, UnsetIsBlank, WakeByTicker, rowVars, histVars
  <2>3. QED
    BY <1>5, <2>1, <2>2
<1>6. ASSUME NEW w \in Workers, GetEvents(w) PROVE TypeInv'
  <2>1. PICK S \in Batches(w) : Claim(w, S) /\ hooks' = [hooks EXCEPT ![w] = S]
    BY <1>6 DEF GetEvents
  <2>2. S \subseteq Events
    BY <2>1 DEF Batches, Eligible
  <2>3. QED
    BY <1>6, <2>1, <2>2, ClaimType DEF GetEvents, TypeInv, TypeOK, UnsetIsBlank
<1>7. ASSUME NEW w \in Workers, GetEventsFails(w) PROVE TypeInv'
  <2>1. CASE UNCHANGED <<rowVars, histVars>>
    BY <1>7, <2>1 DEF GetEventsFails, Fault, TypeInv, TypeOK, UnsetIsBlank,
       rowVars, histVars
  <2>2. CASE \E S \in Batches(w) : Claim(w, S)
    BY <1>7, <2>2, ClaimType DEF GetEventsFails, Fault, TypeInv, TypeOK, UnsetIsBlank
  <2>3. QED
    BY <1>7, <2>1, <2>2 DEF GetEventsFails
<1>8. ASSUME NEW w \in Workers, NEW e \in Events, Forward(w, e) PROVE TypeInv'
  <2>1. PICK u \in Update :
          /\ ups' = [ups EXCEPT ![w][e] = u]
          /\ u.status # "unset"
          /\ accepted' \subseteq Events
    BY ZenonT(30), <1>8, ForwardEffect
  <2>2. ups' \in [Workers -> [Events -> Update]] /\ UnsetIsBlank'
    BY <2>1 DEF TypeInv, TypeOK, UnsetIsBlank
  <2>3. QED
    BY <1>8, <2>1, <2>2 DEF Forward, TypeInv, TypeOK, rowVars
<1>9. ASSUME NEW w \in Workers, UpdateEvents(w) PROVE TypeInv'
  BY <1>9, RecordType, NextPassType DEF UpdateEvents, TypeInv, TypeOK, histVars
<1>10. ASSUME NEW w \in Workers, UpdateEventsFails(w) PROVE TypeInv'
  BY <1>10, NextPassType DEF UpdateEventsFails, Fault, TypeInv, TypeOK, rowVars, histVars
<1>11. CASE Crash
  BY <1>11, UnsetType DEF Crash, Fault, TypeInv, TypeOK, UnsetIsBlank, rowVars, histVars
<1>12. CASE Tick
  <2>1. ASSUME NEW w \in Workers, NEW e \in Events
        PROVE  /\ ups'[w][e] \in Update
               /\ ups'[w][e].status = ups[w][e].status
               /\ ups[w][e] = Unset => ups'[w][e] = Unset
    <3>1. ups[w][e] \in Update
      BY DEF TypeInv, TypeOK
    <3>2. ups'[w][e] = SoonerUpdate(ups[w][e])
      BY <1>12 DEF Tick
    <3>3. QED
      BY <3>1, <3>2, SoonerUpdateType
  <2>2. ups' \in [Workers -> [Events -> Update]]
    BY <1>12, <2>1 DEF Tick, TypeInv, TypeOK
  <2>3. UnsetIsBlank'
    BY <2>1 DEF TypeInv, UnsetIsBlank
  <2>4. QED
    BY <1>12, <2>2, <2>3, SoonerType, TimingAssumption
    DEF Tick, TypeInv, TypeOK, histVars
<1>13. CASE UNCHANGED vars
  BY <1>13 DEF vars, rowVars, workVars, histVars, TypeInv, TypeOK, UnsetIsBlank
<1>14. QED
  BY <1>1, <1>2, <1>3, <1>4, <1>5, <1>6, <1>7, <1>8, <1>9, <1>10, <1>11, <1>12, <1>13
  DEF Next, WorkerStep

\* In every run of the pipeline the variables keep their types; in particular
\* no worker ever stores a delivery_status outside the enum.
THEOREM TypeCorrect == Spec => []TypeOK
<1>1. TypeInv => TypeOK
  BY DEF TypeInv
<1>2. QED
  BY <1>1, TypeInit, TypeNext, PTL DEF Spec

-----------------------------------------------------------------------------
(* One holder per row                                                      *)

\* A worker holds rows only between its claim and its update, and the three
\* timeouts of run bound that time.
BusyInTime ==
  \A w \in Workers : hooks[w] # {} => pc[w] = "forwarding" /\ busy[w] <= BusyLimit

\* A row that nobody asked to replay still carries the mark of the worker that
\* holds it, and was last written by that worker's claim or later.
HolderMarked ==
  \A e \in Events : replays[e] = 0 =>
    /\ status[e] # "replaying"
    /\ \A w \in Workers : e \in hooks[w] =>
         status[e] = "deleted" \/ (status[e] = ClaimStatus(w) /\ age[e] <= busy[w])

HolderInv == TypeInv /\ BusyInTime /\ HolderMarked /\ ExclusiveHolder

\* Nobody holds a row at the start.
LEMMA HolderInit == Init => HolderInv
  BY TypeInit DEF Init, HolderInv, BusyInTime, HolderMarked, ExclusiveHolder

\* The heart of the argument: no query returns a row that is being worked on.
\* 'queued' and due 'failed' rows are marked by nobody, and a row that is
\* marked goes stale only after its holder's timeouts have expired.
LEMMA EligibleIsFree ==
  ASSUME HolderInv, NEW w \in Workers, NEW e \in Eligible(w), replays[e] = 0,
         NEW v \in Workers
  PROVE  e \notin hooks[v]
<1> SUFFICES ASSUME e \in hooks[v] PROVE FALSE
  OBVIOUS
<1>1. e \in Events /\ hooks[v] # {}
  BY DEF Eligible
<1>2. status[e] # "replaying"
      /\ (status[e] = "deleted" \/ (status[e] = ClaimStatus(v) /\ age[e] <= busy[v]))
  BY <1>1 DEF HolderInv, HolderMarked
<1>3. ClaimStatus(v) \in {"processing", "retrying", "replaying"}
  BY ClaimStatusOf DEF Workers
<1>4. busy[v] <= BusyLimit /\ busy[v] \in Nat /\ age[e] \in Nat
  BY <1>1 DEF HolderInv, BusyInTime, TypeInv, TypeOK
<1>5. Stale(e)
  BY <1>2, <1>3 DEF Eligible, DueForRetry
<1>6. status[e] = ClaimStatus(v) /\ age[e] <= busy[v] /\ age[e] > StaleAfter
  BY <1>2, <1>5 DEF Stale
<1>7. QED
  BY <1>4, <1>6, TimingAssumption

\* Every action preserves HolderInv.
LEMMA HolderNext == HolderInv /\ [Next]_vars => HolderInv'
<1> SUFFICES ASSUME HolderInv, [Next]_vars
             PROVE  BusyInTime' /\ HolderMarked' /\ ExclusiveHolder'
  BY TypeNext DEF HolderInv
<1> USE DEF HolderInv
<1>0. TypeOK /\ TypeInv'
  BY TypeNext DEF TypeInv
<1>1. ASSUME NEW e \in Events, Receive(e) \/ ReceiveUnnotified(e)
      PROVE  BusyInTime' /\ HolderMarked' /\ ExclusiveHolder'
  <2>1. InsertWebhook(e) /\ UNCHANGED <<pc, hooks, busy, replays>>
    BY <1>1 DEF Receive, ReceiveUnnotified, workVars, histVars
  <2>2. \A w \in Workers : replays[e] = 0 => e \notin hooks[w]
    BY <2>1, ClaimStatusType DEF InsertWebhook, HolderMarked, Stored
  <2>3. HolderMarked'
    BY <1>0, <2>1, <2>2 DEF InsertWebhook, HolderMarked, TypeOK
  <2>4. QED
    BY <2>1, <2>3 DEF BusyInTime, ExclusiveHolder
<1>2. ASSUME NEW e \in Events, ReplayEvent(e)
      PROVE  BusyInTime' /\ HolderMarked' /\ ExclusiveHolder'
  <2>1. replays'[e] # 0
    BY <1>0, <1>2 DEF ReplayEvent, TypeOK
  <2>2. QED
    BY <1>0, <1>2, <2>1
    DEF ReplayEvent, workVars, BusyInTime, HolderMarked, ExclusiveHolder, TypeOK
<1>3. ASSUME NEW e \in Events, RunCleanup(e)
      PROVE  BusyInTime' /\ HolderMarked' /\ ExclusiveHolder'
  BY <1>0, <1>3
  DEF RunCleanup, workVars, BusyInTime, HolderMarked, ExclusiveHolder, TypeOK
<1>4. ASSUME NEW w \in Workers, WakeBySignal(w) \/ WakeByTicker(w)
      PROVE  BusyInTime' /\ HolderMarked' /\ ExclusiveHolder'
  BY <1>0, <1>4 DEF WakeBySignal, WakeByTicker, rowVars, histVars,
     BusyInTime, HolderMarked, ExclusiveHolder, TypeOK
<1>5. ASSUME NEW w \in Workers, GetEvents(w)
      PROVE  BusyInTime' /\ HolderMarked' /\ ExclusiveHolder'
  <2>1. PICK S \in Batches(w) : Claim(w, S) /\ hooks' = [hooks EXCEPT ![w] = S]
    BY <1>5 DEF GetEvents
  <2>2. S \subseteq Eligible(w) /\ S \subseteq Events
    BY <2>1 DEF Batches, Eligible
  <2>3. hooks[w] = {}
    BY <1>5 DEF GetEvents, BusyInTime
  <2>4. BusyInTime'
    BY <1>0, <1>5, <2>1, TimingAssumption DEF GetEvents, BusyInTime, TypeOK
  <2>5. \A e \in S : replays[e] = 0 => \A v \in Workers : e \notin hooks[v]
    BY <2>2, EligibleIsFree
  <2>6. \A e \in S : replays[e] = 0 => w # ReplayWorker
    BY <2>2, WorkersAssumption DEF Eligible, HolderMarked
  <2>7. HolderMarked'
    <3> SUFFICES ASSUME NEW e \in Events, replays'[e] = 0
                 PROVE  /\ status'[e] # "replaying"
                        /\ \A v \in Workers : e \in hooks'[v] =>
                             \/ status'[e] = "deleted"
                             \/ status'[e] = ClaimStatus(v) /\ age'[e] <= busy'[v]
      BY DEF HolderMarked
    <3>1. CASE e \in S
      <4>1. status'[e] = ClaimStatus(w) /\ age'[e] = 0 /\ busy'[w] = 0
        BY <1>0, <1>5, <2>1, <3>1 DEF GetEvents, Claim, TypeOK
      <4>2. status'[e] # "replaying"
        BY <2>1, <2>6, <3>1, <4>1, ClaimStatusOf DEF Claim, Workers
      <4>3. \A v \in Workers : e \in hooks'[v] => v = w
        BY <1>0, <2>1, <2>5, <3>1 DEF Claim, TypeOK
      <4>4. QED
        BY <4>1, <4>2, <4>3
    <3>2. CASE e \notin S
      BY <1>0, <1>5, <2>1, <2>3, <3>2 DEF GetEvents, Claim, HolderMarked, TypeOK
    <3>3. QED
      BY <3>1, <3>2
  <2>8. ExclusiveHolder'
    BY <1>0, <2>1, <2>3, <2>5 DEF Claim, ExclusiveHolder, TypeOK
  <2>9. QED
    BY <2>4, <2>7, <2>8
<1>6. ASSUME NEW w \in Workers, GetEventsFails(w)
      PROVE  BusyInTime' /\ HolderMarked' /\ ExclusiveHolder'
  <2>1. UNCHANGED <<hooks, busy, replays>> /\ BusyInTime'
    BY <1>0, <1>6 DEF GetEventsFails, Claim, BusyInTime, TypeOK, histVars
  <2>2. CASE UNCHANGED <<rowVars, histVars>>
    BY <2>1, <2>2 DEF rowVars, histVars, HolderMarked, ExclusiveHolder
  <2>3. CASE \E S \in Batches(w) : Claim(w, S)
    <3>1. PICK S \in Batches(w) : Claim(w, S)
      BY <2>3
    <3>2. S \subseteq Eligible(w) /\ S \subseteq Events
      BY <3>1 DEF Batches, Eligible
    <3>3. \A e \in S : replays[e] = 0 => \A v \in Workers : e \notin hooks[v]
      BY <3>2, EligibleIsFree
    <3>4. \A e \in S : replays[e] = 0 => ClaimStatus(w) # "replaying"
      BY <3>2, WorkersAssumption, ClaimStatusOf DEF Eligible, HolderMarked, Workers
    <3>5. QED
      BY <1>0, <2>1, <3>1, <3>3, <3>4 DEF Claim, HolderMarked, ExclusiveHolder, TypeOK
  <2>4. QED
    BY <1>6, <2>2, <2>3 DEF GetEventsFails
<1>7. ASSUME NEW w \in Workers, NEW e \in Events, Forward(w, e)
      PROVE  BusyInTime' /\ HolderMarked' /\ ExclusiveHolder'
  BY <1>7 DEF Forward, rowVars, BusyInTime, HolderMarked, ExclusiveHolder
<1>8. ASSUME NEW w \in Workers, UpdateEvents(w)
      PROVE  BusyInTime' /\ HolderMarked' /\ ExclusiveHolder'
  <2>1. /\ hooks' = [hooks EXCEPT ![w] = {}]
        /\ \A v \in Workers : v # w => busy'[v] = busy[v] /\ pc'[v] = pc[v]
        /\ replays' = replays
    BY <1>0, <1>8 DEF UpdateEvents, NextPass, histVars, TypeOK
  <2>2. BusyInTime' /\ ExclusiveHolder'
    BY <1>0, <2>1 DEF BusyInTime, ExclusiveHolder, TypeOK
  <2>3. ASSUME NEW e \in Written(w)
        PROVE  e \in hooks[w] /\ e \in Events /\ status'[e] # "replaying"
    <3>1. e \in hooks[w] /\ ups[w][e].status \in {"delivered", "failed"}
      BY <1>8, <2>3, WrittenStatus DEF UpdateEvents
    <3>2. QED
      BY <1>0, <1>8, <3>1 DEF UpdateEvents, Record, TypeOK
  <2>4. \A e \in Events \ Written(w) : status'[e] = status[e] /\ age'[e] = age[e]
    BY <1>8 DEF UpdateEvents, Record
  <2>5. HolderMarked'
    <3> SUFFICES ASSUME NEW e \in Events, replays'[e] = 0
                 PROVE  /\ status'[e] # "replaying"
                        /\ \A v \in Workers : e \in hooks'[v] =>
                             \/ status'[e] = "deleted"
                             \/ status'[e] = ClaimStatus(v) /\ age'[e] <= busy'[v]
      BY DEF HolderMarked
    <3>1. CASE e \in Written(w)
      BY <1>0, <2>1, <2>3, <3>1 DEF ExclusiveHolder, TypeOK
    <3>2. CASE e \notin Written(w)
      BY <1>0, <2>1, <2>4, <3>2 DEF HolderMarked, TypeOK
    <3>3. QED
      BY <3>1, <3>2
  <2>6. QED
    BY <2>2, <2>5
<1>9. ASSUME NEW w \in Workers, UpdateEventsFails(w)
      PROVE  BusyInTime' /\ HolderMarked' /\ ExclusiveHolder'
  BY <1>0, <1>9 DEF UpdateEventsFails, NextPass, rowVars, histVars,
     BusyInTime, HolderMarked, ExclusiveHolder, TypeOK
<1>10. CASE Crash
  BY <1>0, <1>10 DEF Crash, rowVars, histVars, BusyInTime, HolderMarked,
     ExclusiveHolder, TypeOK
<1>11. CASE Tick
  <2>1. BusyInTime' /\ ExclusiveHolder'
    BY SMTT(30), <1>0, <1>11, TimingAssumption
    DEF Tick, histVars, BusyInTime, ExclusiveHolder, TypeOK
  <2>2. HolderMarked'
    BY <1>0, <1>11, TimingAssumption DEF Tick, histVars, HolderMarked, TypeOK
  <2>3. QED
    BY <2>1, <2>2
<1>12. CASE UNCHANGED vars
  BY <1>12 DEF vars, rowVars, workVars, histVars, BusyInTime, HolderMarked, ExclusiveHolder
<1>13. QED
  BY <1>1, <1>2, <1>3, <1>4, <1>5, <1>6, <1>7, <1>8, <1>9, <1>10, <1>11, <1>12
  DEF Next, WorkerStep

\* Two workers never hold the same unreplayed row, however many workers, rows,
\* crashes and failed updates there are, provided the reclaim condition waits
\* at least as long as a worker's timeouts allow it to hold a row.
THEOREM OneHolder == Spec => []ExclusiveHolder
<1>1. HolderInv => ExclusiveHolder
  BY DEF HolderInv
<1>2. QED
  BY <1>1, HolderInit, HolderNext, PTL DEF Spec

-----------------------------------------------------------------------------
(* Delivered rows                                                          *)

\* A delivered, unreplayed row is in nobody's hands and no query returns it.
LEMMA DeliveredIsFree ==
  ASSUME HolderInv, NEW e \in Events, status[e] = "delivered", replays[e] = 0
  PROVE  /\ \A w \in Workers : e \notin hooks[w]
         /\ \A w \in Workers : e \notin Eligible(w)
<1>1. \A w \in Workers : ClaimStatus(w) # "delivered"
  BY SMTT(30), ClaimStatusOf DEF Workers
<1>2. QED
  BY <1>1 DEF HolderInv, HolderMarked, Eligible, DueForRetry, Stale

\* No step takes a delivered row that nobody replays back or claims it.
LEMMA DeliveredStep ==
  ASSUME HolderInv, [Next]_vars, NEW e \in Events,
         status[e] = "delivered", replays'[e] = 0
  PROVE  /\ status'[e] \in {"delivered", "deleted"}
         /\ \A w \in Workers : e \notin hooks'[w]
<1> USE DEF HolderInv
<1>0. TypeOK
  BY SMTT(30) DEF TypeInv
<1>1. replays[e] = 0
  <2>1. ASSUME NEW d \in Events, ReplayEvent(d) PROVE replays[e] = 0
    BY <1>0, <2>1 DEF ReplayEvent, TypeOK
  <2>2. CASE UNCHANGED replays
    BY <2>2
  <2>3. QED
    BY <2>1, <2>2 DEF Next, WorkerStep, vars, histVars, Receive, ReceiveUnnotified,
       RunCleanup, WakeBySignal, WakeByTicker, GetEvents, GetEventsFails, Claim,
       Forward, UpdateEvents, UpdateEventsFails, Crash, Tick
<1>2. /\ \A w \in Workers : e \notin hooks[w]
      /\ \A w \in Workers : e \notin Eligible(w)
  BY <1>1, DeliveredIsFree
<1>3. ASSUME NEW d \in Events, Receive(d) \/ ReceiveUnnotified(d) \/ RunCleanup(d)
      PROVE  /\ status'[e] \in {"delivered", "deleted"}
             /\ \A w \in Workers : e \notin hooks'[w]
  BY <1>0, <1>2, <1>3 DEF Receive, ReceiveUnnotified, InsertWebhook, RunCleanup,
     workVars, TypeOK
<1>4. ASSUME NEW d \in Events, ReplayEvent(d)
      PROVE  /\ status'[e] \in {"delivered", "deleted"}
             /\ \A w \in Workers : e \notin hooks'[w]
  BY <1>0, <1>2, <1>4 DEF ReplayEvent, workVars, TypeOK
<1>5. ASSUME NEW w \in Workers, GetEvents(w) \/ GetEventsFails(w)
      PROVE  /\ status'[e] \in {"delivered", "deleted"}
             /\ \A v \in Workers : e \notin hooks'[v]
  <2>1. \A S \in Batches(w) : e \notin S
    BY <1>2 DEF Batches
  <2>2. QED
    BY SMTT(30), <1>0, <1>2, <1>5, <2>1 DEF GetEvents, GetEventsFails, Claim, rowVars, TypeOK
<1>6. ASSUME NEW w \in Workers, UpdateEvents(w)
      PROVE  /\ status'[e] \in {"delivered", "deleted"}
             /\ \A v \in Workers : e \notin hooks'[v]
  <2>1. e \notin Written(w)
    BY <1>2 DEF Written
  <2>2. QED
    BY <1>0, <1>2, <1>6, <2>1 DEF UpdateEvents, Record, NextPass, TypeOK
<1>7. ASSUME NEW w \in Workers,
             \/ WakeBySignal(w) \/ WakeByTicker(w) \/ UpdateEventsFails(w)
             \/ \E d \in Events : Forward(w, d)
      PROVE  /\ status'[e] \in {"delivered", "deleted"}
             /\ \A v \in Workers : e \notin hooks'[v]
  BY <1>0, <1>2, <1>7 DEF WakeBySignal, WakeByTicker, UpdateEventsFails, NextPass,
     Forward, rowVars, TypeOK
<1>8. CASE Crash \/ Tick \/ UNCHANGED vars
  BY <1>0, <1>2, <1>8 DEF Crash, Tick, vars, rowVars, workVars, TypeOK
<1>9. QED
  BY <1>3, <1>4, <1>5, <1>6, <1>7, <1>8 DEF Next, WorkerStep

\* No late result, reclaim or retry overwrites the record of a delivery: only
\* a replay request or the cleanup worker ends it.
THEOREM DeliveredForGood == Spec => DeliveredIsFinal
<1>1. HolderInv /\ [Next]_vars =>
        [\A e \in Events : status[e] = "delivered" /\ replays'[e] = 0 =>
           /\ status'[e] \in {"delivered", "deleted"}
           /\ \A w \in Workers : e \notin hooks'[w]]_vars
  BY DeliveredStep
<1>2. QED
  BY <1>1, HolderInit, HolderNext, PTL DEF Spec, DeliveredIsFinal

\* A worker prepares "delivered" only for a row the destination has accepted.
SuccessWasAccepted ==
  \A w \in Workers, e \in Events : ups[w][e].status = "delivered" => e \in accepted

AcceptedInv == TypeInv /\ SuccessWasAccepted /\ DeliveredWasAccepted

\* Nothing is delivered at the start.
LEMMA AcceptedInit == Init => AcceptedInv
  BY TypeInit DEF Init, AcceptedInv, SuccessWasAccepted, DeliveredWasAccepted, Unset

\* Every action preserves AcceptedInv.
LEMMA AcceptedNext == AcceptedInv /\ [Next]_vars => AcceptedInv'
<1> SUFFICES ASSUME AcceptedInv, [Next]_vars
             PROVE  SuccessWasAccepted' /\ DeliveredWasAccepted'
  BY TypeNext DEF AcceptedInv
<1> USE DEF AcceptedInv
<1>0. TypeOK
  BY DEF TypeInv
<1>1. ASSUME NEW e \in Events,
             Receive(e) \/ ReceiveUnnotified(e) \/ ReplayEvent(e) \/ RunCleanup(e)
      PROVE  SuccessWasAccepted' /\ DeliveredWasAccepted'
  BY SMTT(30), <1>0, <1>1 DEF Receive, ReceiveUnnotified, InsertWebhook, ReplayEvent, RunCleanup,
     workVars, histVars, SuccessWasAccepted, DeliveredWasAccepted, TypeOK
<1>2. ASSUME NEW w \in Workers, WakeBySignal(w) \/ WakeByTicker(w)
      PROVE  SuccessWasAccepted' /\ DeliveredWasAccepted'
  BY ZenonT(30), <1>2 DEF WakeBySignal, WakeByTicker, rowVars, histVars,
     SuccessWasAccepted, DeliveredWasAccepted
<1>3. ASSUME NEW w \in Workers, GetEvents(w) \/ GetEventsFails(w)
      PROVE  SuccessWasAccepted' /\ DeliveredWasAccepted'
  <2>1. ClaimStatus(w) # "delivered"
    BY ClaimStatusOf DEF Workers
  <2>2. QED
    BY <1>0, <1>3, <2>1 DEF GetEvents, GetEventsFails, Claim, rowVars, histVars,
       SuccessWasAccepted, DeliveredWasAccepted, TypeOK
<1>4. ASSUME NEW w \in Workers, NEW e \in Events, Forward(w, e)
      PROVE  SuccessWasAccepted' /\ DeliveredWasAccepted'
  <2>1. PICK u \in Update :
          /\ ups' = [ups EXCEPT ![w][e] = u]
          /\ u.status = "delivered" => e \in accepted'
          /\ accepted \subseteq accepted'
    BY <1>4, ForwardEffect
  <2>2. QED
    BY <1>0, <1>4, <2>1 DEF Forward, rowVars, SuccessWasAccepted,
       DeliveredWasAccepted, TypeOK
<1>5. ASSUME NEW w \in Workers, UpdateEvents(w) \/ UpdateEventsFails(w)
      PROVE  SuccessWasAccepted' /\ DeliveredWasAccepted'
  <2>1. UNCHANGED accepted /\ NextPass(w)
    BY <1>5 DEF UpdateEvents, UpdateEventsFails, histVars
  <2>2. SuccessWasAccepted'
    BY <1>0, <2>1 DEF NextPass, Unset, SuccessWasAccepted, TypeOK
  <2>3. DeliveredWasAccepted'
    BY <1>0, <1>5, <2>1 DEF UpdateEvents, UpdateEventsFails, Record, rowVars,
       SuccessWasAccepted, DeliveredWasAccepted, TypeOK
  <2>4. QED
    BY <2>2, <2>3
<1>6. CASE Crash
  BY <1>0, <1>6 DEF Crash, Unset, rowVars, histVars, SuccessWasAccepted,
     DeliveredWasAccepted, TypeOK
<1>7. CASE Tick
  BY <1>0, <1>7 DEF Tick, SoonerUpdate, histVars, SuccessWasAccepted,
     DeliveredWasAccepted, TypeOK
<1>8. CASE UNCHANGED vars
  BY <1>8 DEF vars, rowVars, workVars, histVars, SuccessWasAccepted, DeliveredWasAccepted
<1>9. QED
  BY <1>1, <1>2, <1>3, <1>4, <1>5, <1>6, <1>7, <1>8 DEF Next, WorkerStep

\* Whatever happens, a row recorded as delivered has been accepted with a 2xx.
THEOREM DeliveredMeansAccepted == Spec => []DeliveredWasAccepted
<1>1. AcceptedInv => DeliveredWasAccepted
  BY DEF AcceptedInv
<1>2. QED
  BY <1>1, AcceptedInit, AcceptedNext, PTL DEF Spec

-----------------------------------------------------------------------------
(* Rows in flight                                                          *)

FlightInv == HolderInv /\ InFlightIsHeld

\* No row is in flight at the start.
LEMMA FlightInit == Init => FlightInv
BY HolderInit DEF FlightInv, Init, InFlightIsHeld

\* Every action preserves FlightInv.
LEMMA FlightNext == FlightInv /\ [Next]_vars => FlightInv'
<1> SUFFICES ASSUME FlightInv, [Next]_vars PROVE InFlightIsHeld'
  BY HolderNext DEF FlightInv
<1> USE DEF FlightInv
<1>0. TypeOK /\ TypeInv
  BY DEF HolderInv, TypeInv
<1>f. Fault => InFlightIsHeld'
  BY <1>0 DEF Fault, InFlightIsHeld, TypeOK
<1>1. ASSUME NEW e \in Events,
             Receive(e) \/ ReceiveUnnotified(e) \/ ReplayEvent(e) \/ RunCleanup(e)
      PROVE  InFlightIsHeld'
  <2>1. CASE ReceiveUnnotified(e)
    BY <1>f, <2>1 DEF ReceiveUnnotified
  <2>2. CASE Receive(e) \/ ReplayEvent(e) \/ RunCleanup(e)
    <3>1. UNCHANGED <<hooks, faults, rejected>>
      BY <2>2 DEF Receive, ReplayEvent, RunCleanup, workVars, histVars
    <3>2. \A d \in Events : status'[d] \in {"processing", "retrying"}
                            => status'[d] = status[d]
      BY SMTT(30), <1>0, <2>2 DEF Receive, InsertWebhook, ReplayEvent, RunCleanup, TypeOK
    <3>3. QED
      BY <3>1, <3>2 DEF InFlightIsHeld
  <2>3. QED
    BY <1>1, <2>1, <2>2
<1>2. ASSUME NEW w \in Workers, WakeBySignal(w) \/ WakeByTicker(w)
      PROVE  InFlightIsHeld'
  BY <1>2 DEF WakeBySignal, WakeByTicker, rowVars, histVars, InFlightIsHeld
<1>3. ASSUME NEW w \in Workers, GetEvents(w)
      PROVE  InFlightIsHeld'
  <2>1. PICK S \in Batches(w) : Claim(w, S) /\ hooks' = [hooks EXCEPT ![w] = S]
    BY <1>3 DEF GetEvents
  <2>2. hooks[w] = {}
    BY <1>3 DEF GetEvents, HolderInv, BusyInTime
  <2>3. faults' = faults
    BY <1>3 DEF GetEvents
  <2>4. ASSUME faults = 0, NEW e \in Events, e \notin rejected',
               status'[e] \in {"processing", "retrying"}
        PROVE  \E v \in Workers : e \in hooks'[v] /\ ClaimStatus(v) = status'[e]
    <3>1. CASE e \in S
      BY <1>0, <2>1, <3>1 DEF Claim, TypeOK
    <3>2. CASE e \notin S
      <4>1. status'[e] = status[e] /\ e \notin rejected
        BY <2>1, <2>4, <3>2 DEF Claim
      <4>2. PICK v \in Workers : e \in hooks[v] /\ ClaimStatus(v) = status[e]
        BY <2>4, <4>1 DEF InFlightIsHeld
      <4>3. QED
        BY SMTT(30), <1>0, <2>1, <2>2, <4>1, <4>2 DEF TypeOK
    <3>3. QED
      BY <3>1, <3>2
  <2>5. QED
    BY <2>3, <2>4 DEF InFlightIsHeld
<1>4. ASSUME NEW w \in Workers, NEW e \in Events, Forward(w, e)
      PROVE  InFlightIsHeld'
  BY <1>4 DEF Forward, rowVars, InFlightIsHeld
<1>5. ASSUME NEW w \in Workers, UpdateEvents(w)
      PROVE  InFlightIsHeld'
  <2>1. SUFFICES ASSUME faults = 0, NEW e \in Events, e \notin rejected',
                        status'[e] \in {"processing", "retrying"}
                 PROVE  \E v \in Workers : e \in hooks'[v] /\ ClaimStatus(v) = status'[e]
    BY <1>5 DEF UpdateEvents, InFlightIsHeld
  <2>2. e \notin Written(w)
    <3> SUFFICES ASSUME e \in Written(w) PROVE FALSE
      OBVIOUS
    <3>1. ups[w][e].status \in {"delivered", "failed"}
      BY <1>0, <1>5, WrittenStatus DEF UpdateEvents
    <3>2. QED
      BY <1>5, <2>1, <3>1 DEF UpdateEvents, Record
  <2>3. status'[e] = status[e]
    BY <1>5, <2>2 DEF UpdateEvents, Record
  <2>4. e \notin rejected /\ (Invalid(w) => e \notin hooks[w])
    BY <1>5, <2>1 DEF UpdateEvents
  <2>5. PICK v \in Workers : e \in hooks[v] /\ ClaimStatus(v) = status[e]
    BY <2>1, <2>3, <2>4 DEF InFlightIsHeld
  <2>6. v # w
    BY <2>1, <2>2, <2>3, <2>4, <2>5 DEF Written, Stored
  <2>7. QED
    BY <1>0, <1>5, <2>3, <2>5, <2>6 DEF UpdateEvents, NextPass, TypeOK
<1>6. ASSUME NEW w \in Workers, GetEventsFails(w) \/ UpdateEventsFails(w)
      PROVE  InFlightIsHeld'
  BY SMTT(30), <1>f, <1>6 DEF GetEventsFails, UpdateEventsFails
<1>7. CASE Crash
  BY <1>f, <1>7 DEF Crash
<1>8. CASE Tick
  BY <1>0, <1>8 DEF Tick, histVars, InFlightIsHeld, TypeOK
<1>9. CASE UNCHANGED vars
  BY <1>9 DEF vars, rowVars, workVars, histVars, InFlightIsHeld
<1>10. QED
  BY <1>1, <1>2, <1>3, <1>4, <1>5, <1>6, <1>7, <1>8, <1>9 DEF Next, WorkerStep

\* Before the first fault, 'processing' and 'retrying' are never left behind but by
\* a refused batch: a worker of the kind that sets the mark is at work on the row.
THEOREM InFlight == Spec => []InFlightIsHeld
<1>1. FlightInv => InFlightIsHeld
  BY DEF FlightInv
<1>2. QED
  BY <1>1, FlightInit, FlightNext, PTL DEF Spec

\* For any number of rows, batches and faults no stored row drops out of the
\* workers' sight, but for a retry that a fault has cut short or whose response has
\* no case.  It is the part of SettledOrOrphaned that does not depend on fairness.
THEOREM NoRowForgotten == ASSUME RetryWorkers # {} PROVE Spec => []NothingForgotten
<1>1. FlightInv => NothingForgotten
  <2> SUFFICES ASSUME FlightInv, NEW e \in Events,
                      status[e] \in Stored, age[e] > StaleAfter, nextRetry[e] \in {0, None}
               PROVE  \/ Settled(e) \/ Orphaned(e)
                      \/ \E w \in Workers : e \in hooks[w] \/ e \in Eligible(w)
    BY DEF NothingForgotten
  <2>0. TypeOK
    BY DEF FlightInv, HolderInv, TypeInv
  <2>1. PICK r \in RetryWorkers : r \in Workers
    BY DEF Workers
  <2>2. CASE status[e] = "delivered"
    BY <2>2 DEF Settled
  <2>3. CASE status[e] \in {"queued", "processing", "replaying"}
    <3>1. e \in Eligible(r)
      BY <2>1, <2>3 DEF Eligible, Stale
    <3> QED BY <2>1, <3>1
  <2>4. CASE status[e] = "failed"
    <3>1. CASE nextRetry[e] = None \/ retryCount[e] >= MaxRetries
      BY <2>4, <3>1 DEF Settled
    <3>2. CASE nextRetry[e] = 0 /\ retryCount[e] < MaxRetries
      <4>1. e \in Eligible(r)
        BY <2>1, <2>4, <3>2 DEF Eligible, DueForRetry
      <4> QED BY <2>1, <4>1
    <3>3. retryCount[e] >= MaxRetries \/ retryCount[e] < MaxRetries
      BY <2>0, BoundsAssumption DEF TypeOK
    <3> QED BY <3>1, <3>2, <3>3
  <2>5. CASE status[e] = "retrying"
    <3>1. faults = 0 \/ faults > 0
      BY <2>0 DEF TypeOK
    <3>2. CASE faults = 0 /\ e \notin rejected
      BY <2>5, <3>2 DEF FlightInv, InFlightIsHeld
    <3>3. CASE faults > 0 \/ e \in rejected
      BY <2>5, <3>3 DEF Orphaned
    <3> QED BY <3>1, <3>2, <3>3
  <2> QED BY <2>2, <2>3, <2>4, <2>5 DEF Stored
<1> QED BY <1>1, FlightInit, FlightNext, PTL DEF Spec

=============================================================================
