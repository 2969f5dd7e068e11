--------------------------- MODULE PipelineProofs ---------------------------
(***************************************************************************)
(* How often a row of Delivery is retried, what ends a replay, and that    *)
(* Delivery implements Outbox, for every value of the constants.           *)
(***************************************************************************)
EXTENDS DeliveryProofs, FiniteSetTheorems

-----------------------------------------------------------------------------
(* Retries.  One is counted when it is recorded, so the argument counts the   *)
(* workers that hold the row as well: each of them may yet add one.           *)

Holders(e) == {w \in Workers : e \in hooks[w]}

Budget == IF MaxRetries = 0 THEN 1 ELSE MaxRetries

\* The row may be claimed without a look at its retry_count.
Waiting(e) ==
  \/ status[e] = "queued"
  \/ status[e] = "processing" /\ Holders(e) \cap QueueWorkers = {}
  \/ status[e] = "replaying" /\ ReplayWorker \notin Holders(e)

\* The row carries the mark of its last claim.
InHand(e) ==
  \/ status[e] \in {"processing", "retrying"}
  \/ status[e] = "replaying" /\ ReplayWorker \in Holders(e)

One(b) == IF b THEN 1 ELSE 0

\* Every holder of a row may still cost it a retry, and so may a claim that does
\* not look at retry_count; all holders but the one whose mark the row carries
\* were passed over by a replay.
BudgetInv(e) ==
  /\ status[e] = "absent" => Holders(e) = {} /\ retryCount[e] = 0
  /\ \A w \in Holders(e) : age[e] <= busy[w]
  /\ retryCount[e] + Cardinality(Holders(e)) + One(Waiting(e)) <= Budget + replays[e]
  /\ status[e] \in Stored => Cardinality(Holders(e)) <= replays[e] + One(InHand(e))

LEMMA BudgetType == Budget \in Nat /\ Budget >= 1 /\ MaxRetries <= Budget
  BY BoundsAssumption DEF Budget

LEMMA OneType == \A b : One(b) \in {0, 1} /\ (b => One(b) = 1) /\ (~b => One(b) = 0)
  BY DEF One

\* The numbers of a row.
LEMMA RowNumbers ==
  ASSUME TypeOK, NEW e \in Events
  PROVE  /\ IsFiniteSet(Holders(e)) /\ Cardinality(Holders(e)) \in Nat
         /\ retryCount[e] \in Nat /\ replays[e] \in Nat
<1>1. IsFiniteSet(QueueWorkers \cup RetryWorkers)
  BY WorkersAssumption, FS_Union
<1>2. IsFiniteSet(Workers)
  BY <1>1, FS_AddElement DEF Workers
<1>3. Holders(e) \in SUBSET Workers
  BY DEF Holders
<1>4. IsFiniteSet(Holders(e))
  BY <1>2, <1>3, FS_Subset
<1> QED BY <1>4, FS_CardinalityType DEF TypeOK

LEMMA BudgetInit == ASSUME Init, NEW e \in Events PROVE BudgetInv(e)
<1>1. Holders(e) = {}
  BY DEF Init, Holders
<1>2. Cardinality(Holders(e)) = 0
  BY <1>1, FS_EmptySet
<1>3. ~Waiting(e) /\ status[e] \notin Stored /\ retryCount[e] = 0 /\ replays[e] = 0
  BY DEF Init, Waiting, Stored
<1>4. One(Waiting(e)) = 0
  BY <1>3, OneType
<1> QED BY <1>1, <1>2, <1>3, <1>4, BudgetType DEF BudgetInv

\* A row that a query returns can afford one more holder: it has retries left,
\* or it is one that waits; no more than one holder per replay is still at work
\* on it, and none at all on a row that has gone stale.
LEMMA Affordable ==
  ASSUME HolderInv, NEW w \in Workers, hooks[w] = {}, NEW e \in Eligible(w), BudgetInv(e)
  PROVE  /\ e \in Events /\ status[e] \in Stored
         /\ retryCount[e] + Cardinality(Holders(e)) + 1 <= Budget + replays[e]
         /\ Cardinality(Holders(e)) <= replays[e]
<1>0. TypeOK /\ e \in Events
  BY DEF HolderInv, TypeInv, Eligible
<1> DEFINE n == Cardinality(Holders(e))
           r == replays[e]
           k == retryCount[e]
<1>1. n \in Nat /\ k \in Nat /\ r \in Nat
  BY <1>0, RowNumbers
<1>2. /\ k + n + One(Waiting(e)) <= Budget + r
      /\ status[e] \in Stored => n <= r + One(InHand(e))
  BY DEF BudgetInv
<1> HIDE DEF n, r, k
<1>3. ASSUME Waiting(e), n <= r PROVE k + n + 1 <= Budget + r /\ n <= r
  BY <1>2, <1>3, OneType
<1>4. CASE status[e] = "queued"
  <2>1. Waiting(e) /\ ~InHand(e) /\ status[e] \in Stored
    BY <1>4 DEF Waiting, InHand, Stored
  <2>2. n <= r
    BY <2>1, <1>1, <1>2, OneType
  <2> QED BY <2>1, <2>2, <1>0, <1>3 DEF n, r, k
<1>5. CASE w = ReplayWorker /\ status[e] = "replaying"
  <2>1. Waiting(e) /\ ~InHand(e) /\ status[e] \in Stored
    BY <1>5 DEF Waiting, InHand, Stored, Holders
  <2>2. n <= r
    BY <2>1, <1>1, <1>2, OneType
  <2> QED BY <2>1, <2>2, <1>0, <1>3 DEF n, r, k
<1>6. CASE DueForRetry(e)
  <2>1. ~InHand(e) /\ status[e] \in Stored /\ k < MaxRetries
    BY <1>6 DEF DueForRetry, InHand, Stored, k
  <2>2. n <= r
    BY <2>1, <1>1, <1>2, OneType
  <2>3. k + n + 1 <= Budget + r
    BY <2>1, <2>2, <1>1, BudgetType, BoundsAssumption
  <2> QED BY <2>1, <2>2, <2>3, <1>0 DEF n, r, k
<1>7. CASE Stale(e)
  <2>1. ASSUME NEW v \in Holders(e) PROVE FALSE
    <3>1. v \in Workers /\ hooks[v] # {} /\ age[e] <= busy[v]
      BY <2>1 DEF Holders, BudgetInv
    <3>2. busy[v] <= BusyLimit /\ busy[v] \in Nat /\ age[e] \in Nat
      BY <3>1, <1>0 DEF HolderInv, BusyInTime, TypeOK
    <3>3. age[e] > StaleAfter
      BY <1>7 DEF Stale
    <3> QED BY <3>1, <3>2, <3>3, TimingAssumption
  <2>2. Holders(e) = {}
    BY <2>1
  <2>3. n = 0
    BY <2>2, FS_EmptySet DEF n
  <2>4. Waiting(e) /\ status[e] \in Stored
    BY <2>2, <1>7 DEF Stale, Waiting, Stored
  <2> QED BY <2>3, <2>4, <1>0, <1>1, <1>3 DEF n, r, k
<1> QED BY <1>4, <1>5, <1>6, <1>7 DEF Eligible

\* A step that leaves the row's holders, status and counts alone.
LEMMA SameRow ==
  ASSUME NEW e \in Events, BudgetInv(e), Holders(e)' = Holders(e),
         status'[e] = status[e], retryCount'[e] = retryCount[e], replays'[e] = replays[e],
         \A w \in Holders(e) : age'[e] <= busy'[w]
  PROVE  BudgetInv(e)'
<1>1. Waiting(e)' = Waiting(e) /\ InHand(e)' = InHand(e)
  BY DEF Waiting, InHand
<1> QED BY <1>1 DEF BudgetInv

LEMMA BudgetInsert ==
  ASSUME HolderInv, NEW e \in Events, BudgetInv(e), NEW d \in Events,
         Receive(d) \/ ReceiveUnnotified(d)
  PROVE  BudgetInv(e)'
<1>0. TypeOK
  BY DEF HolderInv, TypeInv
<1>1. InsertWebhook(d) /\ UNCHANGED <<hooks, busy, replays>>
  BY DEF Receive, ReceiveUnnotified, workVars, histVars
<1>2. Holders(e)' = Holders(e)
  BY <1>1 DEF Holders
<1>3. CASE d # e
  <2>1. /\ status'[e] = status[e] /\ retryCount'[e] = retryCount[e]
        /\ replays'[e] = replays[e] /\ age'[e] = age[e]
    BY <1>0, <1>1, <1>3 DEF InsertWebhook, TypeOK
  <2>2. \A w \in Holders(e) : age'[e] <= busy'[w]
    BY <2>1, <1>1 DEF BudgetInv
  <2> QED BY <2>1, <2>2, <1>2, SameRow
<1>4. CASE d = e
  <2>1. Holders(e) = {} /\ retryCount[e] = 0
    BY <1>1, <1>4 DEF InsertWebhook, BudgetInv
  <2>2. status'[e] = "queued" /\ retryCount'[e] = 0 /\ Holders(e)' = {} /\ replays'[e] = replays[e]
    BY <2>1, <1>0, <1>1, <1>2, <1>4 DEF InsertWebhook, TypeOK
  <2>3. Cardinality(Holders(e)') = 0
    BY <2>2, FS_EmptySet
  <2>4. One(Waiting(e)') \in {0, 1} /\ One(InHand(e)') \in {0, 1} /\ replays[e] \in Nat
    BY <1>0, OneType DEF TypeOK
  <2>5. retryCount'[e] + Cardinality(Holders(e)') + One(Waiting(e)') <= Budget + replays'[e]
    BY <2>2, <2>3, <2>4, BudgetType
  <2>6. Cardinality(Holders(e)') <= replays'[e] + One(InHand(e)')
    BY <2>2, <2>3, <2>4
  <2> QED BY <2>2, <2>5, <2>6 DEF BudgetInv
<1> QED BY <1>3, <1>4

LEMMA BudgetReplay ==
  ASSUME HolderInv, NEW e \in Events, BudgetInv(e), NEW d \in Events, ReplayEvent(d)
  PROVE  BudgetInv(e)'
<1>0. TypeOK
  BY DEF HolderInv, TypeInv
<1>1. UNCHANGED <<hooks, busy, retryCount>>
  BY DEF ReplayEvent, workVars
<1>2. Holders(e)' = Holders(e)
  BY <1>1 DEF Holders
<1>3. CASE d # e
  <2>1. /\ status'[e] = status[e] /\ retryCount'[e] = retryCount[e]
        /\ replays'[e] = replays[e] /\ age'[e] = age[e]
    BY <1>0, <1>1, <1>3 DEF ReplayEvent, TypeOK
  <2>2. \A w \in Holders(e) : age'[e] <= busy'[w]
    BY <2>1, <1>1 DEF BudgetInv
  <2> QED BY <2>1, <2>2, <1>2, SameRow
<1>4. CASE d = e
  <2> DEFINE n == Cardinality(Holders(e))
             k == retryCount[e]
  <2>1. /\ status[e] \in Stored /\ status'[e] = "replaying" /\ age'[e] = 0
        /\ replays'[e] = replays[e] + 1 /\ retryCount'[e] = retryCount[e]
    BY <1>0, <1>1, <1>4 DEF ReplayEvent, TypeOK
  <2>2. /\ k + n + One(Waiting(e)) <= Budget + replays[e]
        /\ n <= replays[e] + One(InHand(e))
    BY <2>1 DEF BudgetInv
  <2>3. k \in Nat /\ n \in Nat /\ replays[e] \in Nat
    BY <1>0, RowNumbers
  <2>4. /\ One(Waiting(e)) \in {0, 1} /\ One(InHand(e)) \in {0, 1}
        /\ One(Waiting(e)') \in {0, 1} /\ One(InHand(e)') \in {0, 1}
    BY OneType
  <2>5. Cardinality(Holders(e)') = n
    BY <1>2
  <2> HIDE DEF n, k
  <2>6. k + n + One(Waiting(e)') <= Budget + (replays[e] + 1)
    BY <2>2, <2>3, <2>4, BudgetType
  <2>7. n <= replays[e] + 1 + One(InHand(e)')
    BY <2>2, <2>3, <2>4
  <2>8. \A w \in Holders(e)' : age'[e] <= busy'[w]
    BY <2>1, <1>0, <1>1, <1>2 DEF Holders, TypeOK
  <2> QED BY <2>1, <2>5, <2>6, <2>7, <2>8 DEF BudgetInv, k
<1> QED BY <1>3, <1>4

LEMMA BudgetCleanup ==
  ASSUME HolderInv, NEW e \in Events, BudgetInv(e), NEW d \in Events, RunCleanup(d)
  PROVE  BudgetInv(e)'
<1>0. TypeOK
  BY DEF HolderInv, TypeInv
<1>1. UNCHANGED <<hooks, busy, age, retryCount, replays>>
  BY DEF RunCleanup, workVars
<1>2. Holders(e)' = Holders(e) /\ \A w \in Holders(e) : age'[e] <= busy'[w]
  BY <1>1 DEF Holders, BudgetInv
<1>3. CASE status'[e] = status[e]
  BY <1>1, <1>2, <1>3, SameRow
<1>4. CASE status'[e] # status[e]
  <2> DEFINE n == Cardinality(Holders(e))
             k == retryCount[e]
  <2>1. status'[e] = "deleted"
    BY <1>4 DEF RunCleanup
  <2>2. ~Waiting(e)' /\ status'[e] \notin Stored
    BY <2>1 DEF Waiting, Stored
  <2>3. k + n + One(Waiting(e)) <= Budget + replays[e]
    BY DEF BudgetInv
  <2>4. k \in Nat /\ n \in Nat /\ replays[e] \in Nat
    BY <1>0, RowNumbers
  <2>5. One(Waiting(e)) \in {0, 1} /\ One(Waiting(e)') = 0
    BY <2>2, OneType
  <2> HIDE DEF n, k
  <2>6. k + n + One(Waiting(e)') <= Budget + replays[e]
    BY <2>3, <2>4, <2>5, BudgetType
  <2> QED BY <2>1, <2>2, <2>6, <1>1, <1>2 DEF BudgetInv, k, n
<1> QED BY <1>3, <1>4

\* The row is claimed: by a worker that takes it, or by a COMMIT whose answer is
\* lost.
LEMMA BudgetClaim ==
  ASSUME HolderInv, NEW e \in Events, BudgetInv(e), NEW w \in Workers,
         hooks[w] = {}, NEW S \in Batches(w), Claim(w, S),
         \/ hooks' = [hooks EXCEPT ![w] = S] /\ busy' = [busy EXCEPT ![w] = 0]
         \/ UNCHANGED <<hooks, busy>>
  PROVE  BudgetInv(e)'
<1>0. TypeOK
  BY DEF HolderInv, TypeInv
<1>1. UNCHANGED <<retryCount, replays>>
  BY DEF Claim
<1>2. Holders(e) \subseteq Workers /\ w \notin Holders(e)
  BY DEF Holders
<1>3. CASE e \notin S
  <2>1. status'[e] = status[e] /\ age'[e] = age[e]
    BY <1>3 DEF Claim
  <2>2. Holders(e)' = Holders(e)
    BY <1>0, <1>3 DEF Holders, TypeOK
  <2>3. \A v \in Holders(e) : age'[e] <= busy'[v]
    BY <2>1, <1>0, <1>2 DEF BudgetInv, TypeOK
  <2> QED BY <2>1, <2>2, <2>3, <1>1, SameRow
<1>4. CASE e \in S
  <2> DEFINE n == Cardinality(Holders(e))
             k == retryCount[e]
             r == replays[e]
  <2>1. e \in Eligible(w)
    BY <1>4 DEF Batches
  <2>2. k + n + 1 <= Budget + r /\ n <= r
    BY <2>1, Affordable
  <2>3. n \in Nat /\ k \in Nat /\ r \in Nat /\ IsFiniteSet(Holders(e))
    BY <1>0, RowNumbers
  <2>4. status'[e] = ClaimStatus(w) /\ age'[e] = 0
    BY <1>4 DEF Claim
  <2>5. status'[e] # "absent"
    BY <2>4, ClaimStatusType DEF Stored
  <2>6. \A v \in Holders(e)' : age'[e] <= busy'[v]
    <3>1. \A v \in Workers : busy'[v] \in Nat
      BY <1>0 DEF TypeOK
    <3> QED BY <3>1, <2>4 DEF Holders
  <2>7. One(Waiting(e)') \in {0, 1} /\ One(InHand(e)') \in {0, 1}
    BY OneType
  <2>8. CASE UNCHANGED <<hooks, busy>>
    <3>1. Cardinality(Holders(e)') = n
      BY <2>8 DEF Holders
    <3> HIDE DEF n, k, r
    <3>2. k + n + One(Waiting(e)') <= Budget + r /\ n <= r + One(InHand(e)')
      BY SMTT(30), <2>2, <2>3, <2>7, BudgetType
    <3> QED BY <3>1, <3>2, <2>5, <2>6, <1>1 DEF BudgetInv, k, r
  <2>9. CASE hooks' = [hooks EXCEPT ![w] = S] /\ busy' = [busy EXCEPT ![w] = 0]
    <3>1. Holders(e)' = Holders(e) \cup {w}
      BY <2>9, <1>0, <1>4 DEF Holders, TypeOK
    <3>2. Cardinality(Holders(e)') = n + 1
      BY <3>1, <2>3, <1>2, FS_AddElement
    <3>3. ~Waiting(e)' /\ InHand(e)'
      <4>1. w \in Holders(e)'
        BY <3>1
      <4>2. CASE w \in QueueWorkers
        BY <4>1, <4>2, <2>4, ClaimStatusOf DEF Waiting, InHand
      <4>3. CASE w \in RetryWorkers
        BY <4>3, <2>4, ClaimStatusOf DEF Waiting, InHand
      <4>4. CASE w = ReplayWorker
        BY <4>1, <4>4, <2>4, ClaimStatusOf DEF Waiting, InHand
      <4> QED BY <4>2, <4>3, <4>4 DEF Workers
    <3>4. One(Waiting(e)') = 0 /\ One(InHand(e)') = 1
      BY <3>3 DEF One
    <3> HIDE DEF n, k, r
    <3>5. k + (n + 1) + 0 <= Budget + r /\ n + 1 <= r + 1
      BY <2>2, <2>3, BudgetType
    <3> QED BY <3>2, <3>4, <3>5, <2>5, <2>6, <1>1 DEF BudgetInv, k, r
  <2> QED BY <2>8, <2>9
<1> QED BY <1>3, <1>4

\* A worker gives up its rows, having recorded them or not.
LEMMA BudgetRelease ==
  ASSUME HolderInv, NEW e \in Events, BudgetInv(e), NEW w \in Workers, NextPass(w),
         UNCHANGED replays, UNCHANGED rowVars \/ (Record(w, Written(w)) /\ Forwarded(w))
  PROVE  BudgetInv(e)'
<1>0. TypeOK /\ TypeInv
  BY DEF HolderInv, TypeInv
<1>1. /\ Holders(e)' = Holders(e) \ {w}
      /\ \A v \in Workers : v # w => busy'[v] = busy[v]
  BY <1>0 DEF NextPass, Holders, TypeOK
<1> DEFINE n == Cardinality(Holders(e))
           k == retryCount[e]
           r == replays[e]
<1>2. n \in Nat /\ k \in Nat /\ r \in Nat /\ IsFiniteSet(Holders(e))
  BY SMTT(30), <1>0, RowNumbers
<1>3. /\ k + n + One(Waiting(e)) <= Budget + r
      /\ status[e] \in Stored => n <= r + One(InHand(e))
  BY DEF BudgetInv
<1>4. /\ One(Waiting(e)) \in {0, 1} /\ One(InHand(e)) \in {0, 1}
      /\ One(Waiting(e)') \in {0, 1} /\ One(InHand(e)') \in {0, 1}
  BY OneType
<1>5. CASE e \notin hooks[w]
  <2>1. Holders(e)' = Holders(e)
    BY SMTT(30), <1>1, <1>5 DEF Holders
  <2>2. e \notin Written(w)
    BY <1>5 DEF Written
  <2>3. status'[e] = status[e] /\ retryCount'[e] = retryCount[e] /\ age'[e] = age[e]
    BY SMTT(30), <2>2 DEF rowVars, Record
  <2>4. \A v \in Holders(e) : age'[e] <= busy'[v]
    BY <2>3, <1>1, <1>5 DEF Holders, BudgetInv
  <2> QED BY <2>1, <2>3, <2>4, SameRow
<1>6. CASE e \in hooks[w]
  <2>1. w \in Holders(e)
    BY <1>6 DEF Holders
  <2>2. Cardinality(Holders(e)') = n - 1
    BY ZenonT(30), <2>1, <1>1, <1>2, FS_RemoveElement
  <2>3. n >= 1
    <3>1. n # 0
      BY <2>1, <1>2, FS_EmptySet
    <3> QED BY <3>1, <1>2
  <2>4. status[e] # "absent"
    BY <2>1 DEF BudgetInv
  <2>5. CASE e \in Written(w) /\ Record(w, Written(w)) /\ Forwarded(w)
    <3>1. ups[w][e].status \in {"delivered", "failed"} /\ status[e] \in Stored
      BY <2>5, <1>0, WrittenStatus DEF Written
    <3>2. status'[e] \in {"delivered", "failed"} /\ age'[e] = 0
      BY <2>5, <3>1 DEF Record
    <3>3. retryCount'[e] \in {k, k + 1}
      BY <2>5 DEF Record
    <3>4. ~Waiting(e)' /\ ~InHand(e)'
      BY <3>2 DEF Waiting, InHand
    <3>5. One(Waiting(e)') = 0 /\ One(InHand(e)') = 0
      BY <3>4 DEF One
    <3>6. \A v \in Holders(e)' : age'[e] <= busy'[v]
      <4>1. \A v \in Holders(e)' : busy'[v] = busy[v] /\ busy[v] \in Nat
        BY <1>0, <1>1 DEF Holders, TypeOK
      <4>2. \A b \in Nat : 0 <= b
        OBVIOUS
      <4> QED BY SMTT(30), <4>1, <4>2, <3>2
    <3>7. ASSUME NEW j \in {k, k + 1}
          PROVE  j + (n - 1) + 0 <= Budget + r /\ n - 1 <= r + 0
      <4>1. ASSUME NEW a \in Nat, NEW b \in Nat, NEW c \in Nat, NEW d \in Nat,
                   NEW x \in {0, 1}, NEW y \in {0, 1}, NEW i \in {a, a + 1},
                   b >= 1, a + b + x <= d + c, b <= c + y
            PROVE  i + (b - 1) + 0 <= d + c /\ b - 1 <= c + 0
        BY <4>1
      <4>2. n <= r + One(InHand(e))
        BY <3>1, <1>3
      <4> HIDE DEF n, k, r
      <4> QED BY <4>1, <4>2, <3>7, <2>3, <1>2, <1>3, <1>4, BudgetType
    <3>8. /\ retryCount'[e] + Cardinality(Holders(e)') + One(Waiting(e)') <= Budget + replays'[e]
          /\ Cardinality(Holders(e)') <= replays'[e] + One(InHand(e)')
      BY SMTT(30), <3>3, <3>5, <3>7, <2>2
    <3> QED BY ZenonT(30), <3>2, <3>6, <3>8 DEF BudgetInv
  <2>6. CASE UNCHANGED rowVars \/ e \notin Written(w)
    <3>1. status'[e] = status[e] /\ retryCount'[e] = k /\ age'[e] = age[e]
      BY <2>6 DEF rowVars, Record
    <3>2. \A v \in Holders(e)' : age'[e] <= busy'[v]
      BY <3>1, <1>1 DEF Holders, BudgetInv
    <3>3. k + (n - 1) + One(Waiting(e)') <= Budget + r
      <4> HIDE DEF n, k, r
      <4> QED BY <2>3, <1>2, <1>3, <1>4, BudgetType
    <3>4. ASSUME status[e] \in Stored PROVE n - 1 <= r + One(InHand(e)')
      <4> HIDE DEF n, k, r
      <4> QED BY <3>4, <2>3, <1>2, <1>3, <1>4
    <3> QED BY <3>1, <3>2, <3>3, <3>4, <2>2, <2>4 DEF BudgetInv
  <2> QED BY <2>5, <2>6
<1> QED BY <1>5, <1>6

\* Every action preserves the budget of every row.
LEMMA BudgetNext ==
  ASSUME HolderInv, [Next]_vars, NEW e \in Events, BudgetInv(e)
  PROVE  BudgetInv(e)'
<1>0. TypeOK
  BY DEF HolderInv, TypeInv
<1>1. ASSUME UNCHANGED <<rowVars, hooks, busy, replays>> PROVE BudgetInv(e)'
  <2>1. Holders(e)' = Holders(e) /\ \A w \in Holders(e) : age'[e] <= busy'[w]
    BY <1>1 DEF Holders, rowVars, BudgetInv
  <2> QED BY <1>1, <2>1, SameRow DEF rowVars
<1>2. ASSUME NEW d \in Events,
             Receive(d) \/ ReceiveUnnotified(d) \/ ReplayEvent(d) \/ RunCleanup(d)
      PROVE  BudgetInv(e)'
  BY <1>2, BudgetInsert, BudgetReplay, BudgetCleanup
<1>3. ASSUME NEW w \in Workers, WakeBySignal(w) \/ WakeByTicker(w) PROVE BudgetInv(e)'
  BY <1>1, <1>3 DEF WakeBySignal, WakeByTicker, histVars
<1>4. ASSUME NEW w \in Workers, GetEvents(w) PROVE BudgetInv(e)'
  <2>1. hooks[w] = {}
    BY <1>4 DEF GetEvents, HolderInv, BusyInTime
  <2>2. PICK S \in Batches(w) : Claim(w, S) /\ hooks' = [hooks EXCEPT ![w] = S]
    BY <1>4 DEF GetEvents
  <2>3. busy' = [busy EXCEPT ![w] = 0]
    BY <1>4 DEF GetEvents
  <2> QED BY <2>1, <2>2, <2>3, BudgetClaim
<1>5. ASSUME NEW w \in Workers, GetEventsFails(w) PROVE BudgetInv(e)'
  <2>1. hooks[w] = {} /\ UNCHANGED <<hooks, busy>>
    BY <1>5 DEF GetEventsFails, HolderInv, BusyInTime
  <2>2. CASE UNCHANGED <<rowVars, histVars>>
    BY <2>1, <2>2, <1>1 DEF histVars
  <2>3. CASE \E S \in Batches(w) : Claim(w, S)
    BY <2>1, <2>3, BudgetClaim
  <2> QED BY <1>5, <2>2, <2>3 DEF GetEventsFails
<1>6. ASSUME NEW w \in Workers, NEW d \in Events, Forward(w, d) PROVE BudgetInv(e)'
  BY <1>1, <1>6 DEF Forward
<1>7. ASSUME NEW w \in Workers, UpdateEvents(w) \/ UpdateEventsFails(w) PROVE BudgetInv(e)'
  BY <1>7, BudgetRelease DEF UpdateEvents, UpdateEventsFails, histVars
<1>8. CASE Crash
  <2> DEFINE n == Cardinality(Holders(e))
  <2>1. Holders(e)' = {} /\ UNCHANGED <<rowVars, replays>>
    BY <1>8 DEF Crash, Holders, histVars
  <2>2. Cardinality(Holders(e)') = 0
    BY <2>1, FS_EmptySet
  <2>3. /\ status'[e] = status[e] /\ retryCount'[e] = retryCount[e]
        /\ replays'[e] = replays[e]
    BY <2>1 DEF rowVars
  <2>4. retryCount[e] + n + One(Waiting(e)) <= Budget + replays[e]
    BY DEF BudgetInv
  <2>5. n \in Nat /\ retryCount[e] \in Nat /\ replays[e] \in Nat
    BY <1>0, RowNumbers
  <2>6. n = 0 => Waiting(e)' = Waiting(e)
    BY <2>1, <2>3, <1>0, RowNumbers, FS_EmptySet DEF Waiting
  <2>7. /\ One(Waiting(e)) \in {0, 1} /\ One(Waiting(e)') \in {0, 1}
        /\ One(InHand(e)') \in {0, 1}
    BY OneType
  <2>8. n = 0 => One(Waiting(e)') = One(Waiting(e))
    BY <2>6 DEF One
  <2> HIDE DEF n
  <2>9. /\ retryCount[e] + 0 + One(Waiting(e)') <= Budget + replays[e]
        /\ 0 <= replays[e] + One(InHand(e)')
    BY <2>4, <2>5, <2>7, <2>8, BudgetType
  <2>10. status[e] = "absent" => retryCount[e] = 0
    BY DEF BudgetInv
  <2> QED BY <2>1, <2>2, <2>3, <2>9, <2>10 DEF BudgetInv
<1>9. CASE Tick
  <2>1. UNCHANGED <<status, retryCount, hooks, replays>>
    BY <1>9 DEF Tick, histVars
  <2>2. Holders(e)' = Holders(e)
    BY <2>1 DEF Holders
  <2>3. ASSUME NEW w \in Holders(e) PROVE age'[e] <= busy'[w]
    <3>1. w \in Workers /\ hooks[w] # {} /\ age[e] <= busy[w]
      BY DEF Holders, BudgetInv
    <3>2. age[e] \in Nat /\ busy[w] \in Nat
      BY SMTT(30), <1>0, <3>1 DEF TypeOK
    <3>3. busy'[w] = busy[w] + 1 /\ age'[e] \in {age[e], age[e] + 1}
      BY <1>9, <3>1 DEF Tick
    <3> QED BY <3>1, <3>2, <3>3
  <2> QED BY <2>1, <2>2, <2>3, SameRow
<1>10. CASE UNCHANGED vars
  BY <1>1, <1>10 DEF vars, workVars, histVars
<1> QED
  BY <1>2, <1>3, <1>4, <1>5, <1>6, <1>7, <1>8, <1>9, <1>10 DEF Next, WorkerStep

\* However replays, reclaims, crashes and failed updates interleave, a row's
\* retry_count exceeds max_retries by no more than its replays, or by one more
\* if max_retries is zero.
THEOREM RetriesAreBounded == Spec => []RetryBudget
<1> DEFINE IInv == HolderInv /\ \A e \in Events : BudgetInv(e)
<1>1. Init => IInv
  BY HolderInit, BudgetInit
<1>2. IInv /\ [Next]_vars => IInv'
  BY HolderNext, BudgetNext
<1>3. IInv => RetryBudget
  <2> SUFFICES ASSUME IInv, NEW e \in Events PROVE retryCount[e] <= Budget + replays[e]
    BY DEF RetryBudget, Budget
  <2>1. retryCount[e] + Cardinality(Holders(e)) + One(Waiting(e)) <= Budget + replays[e]
    BY DEF BudgetInv
  <2>2. TypeOK
    BY DEF HolderInv, TypeInv
  <2>3. /\ Cardinality(Holders(e)) \in Nat /\ retryCount[e] \in Nat /\ replays[e] \in Nat
        /\ One(Waiting(e)) \in {0, 1}
    BY <2>2, RowNumbers, OneType
  <2>4. ASSUME NEW a \in Nat, NEW b \in Nat, NEW c \in Nat, NEW d \in Nat,
               NEW x \in {0, 1}, a + b + x <= c + d
        PROVE  a <= c + d
    BY <2>4
  <2> QED BY <2>1, <2>3, <2>4, BudgetType
<1> HIDE DEF IInv
<1> QED BY <1>1, <1>2, <1>3, PTL DEF Spec

-----------------------------------------------------------------------------
(* Replays *)

\* A step that takes a row with an unclaimed request out of 'replaying' ends the
\* attempt of a worker that held it.
RequestKept(e) ==
  status[e] = "replaying" /\ status'[e] # "replaying" =>
    \E w \in Workers : e \in hooks[w] /\ e \notin hooks'[w]

LEMMA RequestStep ==
  ASSUME TypeInv, [Next]_vars, NEW e \in Events, e \in owed, e \in owed'
  PROVE  RequestKept(e)
<1>0. TypeOK
  BY DEF TypeInv
<1>1. ASSUME UNCHANGED status PROVE RequestKept(e)
  BY <1>1 DEF RequestKept
<1>2. ASSUME NEW d \in Events, Receive(d) \/ ReceiveUnnotified(d) PROVE RequestKept(e)
  <2>1. status[d] = "absent" /\ status' = [status EXCEPT ![d] = "queued"]
    BY <1>2 DEF Receive, ReceiveUnnotified, InsertWebhook
  <2> QED BY <2>1, <1>0 DEF RequestKept, TypeOK
<1>3. ASSUME NEW d \in Events, ReplayEvent(d) PROVE RequestKept(e)
  <2>1. status' = [status EXCEPT ![d] = "replaying"]
    BY <1>3 DEF ReplayEvent
  <2> QED BY <2>1, <1>0 DEF RequestKept, TypeOK
<1>4. ASSUME NEW d \in Events, RunCleanup(d) PROVE RequestKept(e)
  <2> DEFINE old == {f \in Events : f <= d /\ status[f] \in Stored}
  <2>1. /\ status' = [f \in Events |-> IF f \in old THEN "deleted" ELSE status[f]]
        /\ owed' = owed \ old
    BY <1>4 DEF RunCleanup
  <2> HIDE DEF old
  <2> QED BY <2>1 DEF RequestKept
\* A claim of the row, committed or not, makes the request no longer owed.
<1>5. ASSUME NEW w \in Workers, GetEvents(w) \/ GetEventsFails(w) PROVE RequestKept(e)
  <2>1. UNCHANGED status \/ \E S \in Batches(w) : Claim(w, S)
    BY <1>5 DEF GetEvents, GetEventsFails, rowVars
  <2>2. ASSUME NEW S \in Batches(w), Claim(w, S) PROVE RequestKept(e)
    BY <2>2 DEF Claim, RequestKept
  <2> QED BY <2>1, <2>2, <1>1
<1>6. ASSUME NEW w \in Workers, UpdateEvents(w) PROVE RequestKept(e)
  <2>1. /\ status' = [f \in Events |-> IF f \in Written(w) THEN ups[w][f].status ELSE status[f]]
        /\ hooks' = [hooks EXCEPT ![w] = {}]
    BY <1>6 DEF UpdateEvents, Record, NextPass
  <2>2. ASSUME e \in Written(w) PROVE e \in hooks[w] /\ e \notin hooks'[w]
    BY <2>1, <2>2, <1>0 DEF Written, TypeOK
  <2> QED BY <2>1, <2>2 DEF RequestKept
<1>7. ASSUME NEW w \in Workers,
             \/ WakeBySignal(w) \/ WakeByTicker(w) \/ UpdateEventsFails(w)
             \/ \E d \in Events : Forward(w, d)
      PROVE  RequestKept(e)
  BY <1>1, <1>7 DEF WakeBySignal, WakeByTicker, UpdateEventsFails, Forward, rowVars
<1>8. CASE Crash \/ Tick \/ UNCHANGED vars
  BY <1>1, <1>8 DEF Crash, Tick, vars, rowVars
<1> QED
  BY <1>2, <1>3, <1>4, <1>5, <1>6, <1>7, <1>8 DEF Next, WorkerStep

\* A replay request waits in the row until a worker claims it or the row is
\* deleted: claims, reclaims, faults and crashes do not overwrite it, only the
\* result of an attempt that was under way when it was made.
THEOREM RequestsWait == Spec => ReplayLostInFlight
<1>1. TypeInv /\ [Next]_vars => [\A e \in owed \cap owed' : RequestKept(e)]_vars
  <2> SUFFICES ASSUME TypeInv, [Next]_vars, NEW e \in owed, e \in owed' PROVE RequestKept(e)
    OBVIOUS
  <2>1. e \in Events
    BY DEF TypeInv, TypeOK
  <2> QED BY <2>1, RequestStep
<1>2. Spec => [][\A e \in owed \cap owed' : RequestKept(e)]_vars
  BY <1>1, TypeInit, TypeNext, PTL DEF Spec
<1> QED BY <1>2 DEF ReplayLostInFlight, RequestKept

-----------------------------------------------------------------------------
(* The outbox *)

\* Who holds a row and whether it was replayed, as the abstract variables.
LEMMA HeldIs ==
  ASSUME NEW e \in Events
  PROVE  /\ e \in Held <=> \E w \in Workers : e \in hooks[w]
         /\ e \in Replayed <=> replays[e] > 0
  BY DEF Held, Replayed

\* The phase of a row depends on its status alone.
LEMMA PhaseCases ==
  ASSUME NEW e \in Events, TypeOK
  PROVE  /\ PhaseOf[e] = Phase(e)
         /\ status[e] = "absent" <=> Phase(e) = "absent"
         /\ status[e] = "deleted" <=> Phase(e) = "gone"
         /\ status[e] = "delivered" <=> Phase(e) = "delivered"
         /\ status[e] \in Stored <=> Phase(e) \in {"open", "delivered"}
         /\ Phase(e) \in {"absent", "gone", "delivered", "open"}
  BY DEF PhaseOf, Phase, TypeOK, Status, Stored

\* What both invariants say together; it is what every step is simulated from.
SimInv == HolderInv /\ AcceptedInv

\* No row is stored, held, accepted or replayed at the start.
LEMMA SimInit == Init => SimInv /\ O!Init
<1> SUFFICES ASSUME Init PROVE O!Init
  BY HolderInit, AcceptedInit DEF SimInv
<1>1. PhaseOf = [e \in Events |-> "absent"]
  BY DEF Init, PhaseOf, Phase
<1>2. Held = {} /\ Replayed = {}
  BY DEF Init, Held, Replayed
<1>3. QED
  BY <1>1, <1>2 DEF Init, O!Init

\* Every step of the pipeline is a step of the outbox or leaves it unchanged.
LEMMA SimNext ==
  ASSUME SimInv, [Next]_vars
  PROVE  O!Next \/ UNCHANGED O!vars
<1> USE DEF SimInv
<1>0. TypeOK /\ TypeInv /\ TypeOK'
  BY TypeNext DEF HolderInv, TypeInv
<1>s. ASSUME UNCHANGED <<status, hooks, replays>>
      PROVE  UNCHANGED <<PhaseOf, Held, Replayed>>
  BY <1>s DEF PhaseOf, Phase, Held, Replayed
<1>1. ASSUME NEW e \in Events, Receive(e) \/ ReceiveUnnotified(e) PROVE O!Next
  <2>1. /\ status[e] = "absent"
        /\ status' = [status EXCEPT ![e] = "queued"]
        /\ UNCHANGED <<hooks, accepted, replays>>
    BY <1>1 DEF Receive, ReceiveUnnotified, InsertWebhook, workVars, histVars
  <2>2. PhaseOf' = [PhaseOf EXCEPT ![e] = "open"] /\ PhaseOf[e] = "absent"
    BY <1>0, <2>1 DEF PhaseOf, Phase, TypeOK
  <2>3. UNCHANGED <<Held, Replayed>>
    BY <2>1 DEF Held, Replayed
  <2>4. O!Store(e)
    BY <2>1, <2>2, <2>3 DEF O!Store
  <2>5. QED
    BY <2>4 DEF O!Next
<1>2. ASSUME NEW e \in Events, ReplayEvent(e) PROVE O!Next
  <2>1. /\ status[e] \in Stored
        /\ status' = [status EXCEPT ![e] = "replaying"]
        /\ replays' = [replays EXCEPT ![e] = @ + 1]
        /\ UNCHANGED <<hooks, accepted>>
    BY <1>2 DEF ReplayEvent, workVars
  <2>2. PhaseOf' = [PhaseOf EXCEPT ![e] = "open"]
    BY <1>0, <2>1 DEF PhaseOf, Phase, TypeOK
  <2>3. PhaseOf[e] \in {"open", "delivered"}
    BY <1>0, <2>1, PhaseCases
  <2>4. Held' = Held
    BY <2>1 DEF Held
  <2>5. Replayed' = Replayed \cup {e}
    BY <1>0, <2>1 DEF Replayed, TypeOK
  <2>6. O!Replay(e)
    BY <2>1, <2>2, <2>3, <2>4, <2>5 DEF O!Replay
  <2>7. QED
    BY <2>6 DEF O!Next
<1>3. ASSUME NEW last \in Events, RunCleanup(last) PROVE O!Next
  <2> DEFINE old == {e \in Events : e <= last /\ status[e] \in Stored}
  <2>1. /\ status' = [e \in Events |-> IF e \in old THEN "deleted" ELSE status[e]]
        /\ UNCHANGED <<hooks, accepted, replays>>
    BY <1>3 DEF RunCleanup, workVars
  <2>2. old \in SUBSET Events /\ \A e \in old : status[e] \in Stored
    OBVIOUS
  <2> HIDE DEF old
  <2>3. \A e \in old : PhaseOf[e] \in {"open", "delivered"}
    BY <1>0, <2>2, PhaseCases
  <2>4. PhaseOf' = [e \in Events |-> IF e \in old THEN "gone" ELSE PhaseOf[e]]
    BY <1>0, <2>1, <2>2 DEF PhaseOf, Phase, TypeOK
  <2>5. UNCHANGED <<Held, Replayed>>
    BY <2>1 DEF Held, Replayed
  <2>6. O!Discard(old)
    BY <2>1, <2>3, <2>4, <2>5 DEF O!Discard
  <2>7. QED
    BY <2>2, <2>6 DEF O!Next
<1>4. ASSUME NEW w \in Workers, NEW S \in Batches(w), Claim(w, S)
      PROVE  /\ S \in SUBSET Events
             /\ UNCHANGED <<PhaseOf, accepted, Replayed>>
             /\ \A e \in S : PhaseOf[e] = "open" /\ (e \in Held => e \in Replayed)
  <2>1. S \subseteq Eligible(w) /\ S \subseteq Events
    BY <1>4 DEF Batches, Eligible
  <2>2. ClaimStatus(w) \in {"processing", "retrying", "replaying"}
    BY ClaimStatusOf DEF Workers
  <2>3. \A e \in S : status[e] \notin {"absent", "deleted", "delivered"}
    BY <2>1 DEF Eligible, DueForRetry, Stale
  <2>4. PhaseOf' = PhaseOf
    BY <1>0, <1>4, <2>1, <2>2, <2>3 DEF Claim, PhaseOf, Phase, TypeOK
  <2>5. UNCHANGED <<accepted, Replayed>>
    BY <1>4 DEF Claim, Replayed
  <2>6. \A e \in S : PhaseOf[e] = "open"
    BY <2>1, <2>3 DEF PhaseOf, Phase
  <2>7. \A e \in S : replays[e] = 0 => e \notin Held
    BY <2>1, EligibleIsFree DEF Held
  <2>8. \A e \in S : e \in Held => e \in Replayed
    BY <1>0, <2>1, <2>7 DEF Replayed, TypeOK
  <2>9. QED
    BY <2>1, <2>4, <2>5, <2>6, <2>8
<1>5. ASSUME NEW w \in Workers, GetEvents(w) PROVE O!Next
  <2>1. PICK S \in Batches(w) : Claim(w, S) /\ hooks' = [hooks EXCEPT ![w] = S]
    BY <1>5 DEF GetEvents
  <2>2. /\ S \in SUBSET Events
        /\ UNCHANGED <<PhaseOf, accepted, Replayed>>
        /\ \A e \in S : PhaseOf[e] = "open" /\ (e \in Held => e \in Replayed)
    BY <1>4, <2>1
  <2>3. hooks[w] = {}
    BY <1>5 DEF GetEvents, HolderInv, BusyInTime
  <2>4. Held' = Held \cup S
    BY <1>0, <2>1, <2>2, <2>3 DEF Held, TypeOK
  <2>5. O!Take(S)
    BY <2>2, <2>4 DEF O!Take
  <2>6. QED
    BY <2>2, <2>5 DEF O!Next
<1>6. ASSUME NEW w \in Workers, GetEventsFails(w) PROVE UNCHANGED O!vars
  <2>1. hooks' = hooks
    BY <1>6 DEF GetEventsFails
  <2>2. Held' = Held
    BY <2>1 DEF Held
  <2>3. CASE UNCHANGED <<rowVars, histVars>>
    BY <1>s, <2>1, <2>3 DEF rowVars, histVars, O!vars
  <2>4. CASE \E S \in Batches(w) : Claim(w, S)
    BY <1>4, <2>2, <2>4 DEF O!vars
  <2>5. QED
    BY <1>6, <2>3, <2>4 DEF GetEventsFails
<1>7. ASSUME NEW w \in Workers, NEW e \in Events, Forward(w, e)
      PROVE  O!Next \/ UNCHANGED O!vars
  <2>1. UNCHANGED <<PhaseOf, Held, Replayed>>
    BY <1>7, <1>s DEF Forward, rowVars
  <2>2. e \in Held
    BY <1>7 DEF Forward, Held
  <2>3. accepted' = accepted \/ accepted' = accepted \cup {e}
    BY <1>7 DEF Forward, ForwardNotSent, ForwardAnswered, ForwardBroken
  <2>4. CASE accepted' = accepted
    BY <2>1, <2>4 DEF O!vars
  <2>5. CASE accepted' = accepted \cup {e}
    BY <2>1, <2>2, <2>5 DEF O!Next, O!Accept
  <2>6. QED
    BY <2>3, <2>4, <2>5
<1>8. ASSUME NEW w \in Workers, UpdateEvents(w) PROVE O!Next
  <2> DEFINE S == Written(w)
             D == {e \in S : ups[w][e].status = "delivered"}
  <2>1. /\ status' = [e \in Events |-> IF e \in S THEN ups[w][e].status ELSE status[e]]
        /\ hooks' = [hooks EXCEPT ![w] = {}]
        /\ UNCHANGED <<accepted, replays>>
    BY <1>8 DEF UpdateEvents, Record, NextPass, histVars
  <2>2. \A e \in S : /\ e \in hooks[w] /\ e \in Events
                     /\ ups[w][e].status \in {"delivered", "failed"}
    BY <1>0, <1>8, WrittenStatus DEF UpdateEvents, TypeOK
  <2>3. \A e \in S : status[e] \in Stored
    BY DEF Written
  <2>4. S \in SUBSET Events /\ D \in SUBSET Events /\ S \subseteq Held
    BY <2>2 DEF Held
  <2>5. D \subseteq S \cap accepted
    BY <2>2 DEF AcceptedInv, SuccessWasAccepted
  <2>6. PhaseOf' = [e \in Events |-> IF e \in D THEN "delivered"
                                    ELSE IF e \in S THEN "open" ELSE PhaseOf[e]]
    <3>1. ASSUME NEW e \in Events
          PROVE  Phase(e)' = IF e \in D THEN "delivered"
                             ELSE IF e \in S THEN "open" ELSE PhaseOf[e]
      <4>1. CASE e \in D
        BY <1>0, <2>1, <2>2, <4>1 DEF Phase, TypeOK
      <4>2. CASE e \in S \ D
        BY <1>0, <2>1, <2>2, <4>2 DEF Phase, TypeOK
      <4>3. CASE e \notin S
        BY <1>0, <2>1, <4>3 DEF Phase, PhaseOf, TypeOK
      <4>4. QED
        BY <4>1, <4>2, <4>3
    <3>2. QED
      BY <3>1 DEF PhaseOf
  <2>7. \A e \in S : PhaseOf[e] \in {"open", "delivered"}
    BY <1>0, <2>2, <2>3, PhaseCases
  <2>8. Held' \subseteq Held
    BY <1>0, <2>1 DEF Held, TypeOK
  <2>9. S \cap Held' \subseteq Replayed
    <3> SUFFICES ASSUME NEW e \in S, e \in Held', replays[e] = 0 PROVE FALSE
      BY <1>0, <2>2 DEF Replayed, TypeOK
    <3>1. PICK v \in Workers : e \in hooks'[v]
      BY DEF Held
    <3>2. v # w /\ e \in hooks[v]
      BY <1>0, <2>1, <3>1 DEF TypeOK
    <3>3. QED
      BY <2>2, <3>2 DEF HolderInv, ExclusiveHolder
  <2>10. Replayed' = Replayed
    BY <2>1 DEF Replayed
  <2> HIDE DEF S, D
  <2>11. O!Finish(S, D)
    BY <2>1, <2>4, <2>5, <2>6, <2>7, <2>8, <2>9, <2>10 DEF O!Finish
  <2>12. QED
    BY <2>4, <2>11 DEF O!Next
<1>9. ASSUME UNCHANGED <<status, accepted, replays>>, Held' \subseteq Held PROVE O!Next
  <2>1. UNCHANGED <<PhaseOf, Replayed>>
    BY <1>9 DEF PhaseOf, Phase, Replayed
  <2>2. QED
    BY <1>9, <2>1 DEF O!Next, O!Abandon
<1>10. ASSUME NEW w \in Workers, UpdateEventsFails(w) PROVE O!Next
  <2>1. Held' \subseteq Held
    BY <1>0, <1>10 DEF UpdateEventsFails, NextPass, Held, TypeOK
  <2>2. QED
    BY <1>9, <1>10, <2>1 DEF UpdateEventsFails, rowVars, histVars
<1>11. CASE Crash
  <2>1. Held' \subseteq Held
    BY <1>11 DEF Crash, Held
  <2>2. QED
    BY <1>9, <1>11, <2>1 DEF Crash, rowVars, histVars
<1>12. ASSUME NEW w \in Workers, WakeBySignal(w) \/ WakeByTicker(w)
       PROVE  UNCHANGED O!vars
  BY <1>12, <1>s DEF WakeBySignal, WakeByTicker, rowVars, histVars, O!vars
<1>13. CASE Tick \/ UNCHANGED vars
  BY <1>13, <1>s DEF Tick, vars, rowVars, workVars, histVars, O!vars
<1>14. QED
  BY <1>1, <1>2, <1>3, <1>5, <1>6, <1>7, <1>8, <1>10, <1>11, <1>12, <1>13
  DEF Next, WorkerStep

\* The workers, their claims, retries, reclaims, timeouts and crashes implement
\* the outbox, for any number of rows, workers, faults and replays.
THEOREM PipelineIsOutbox == Spec => ImplementsOutbox
<1>1. SimInv /\ [Next]_vars => SimInv'
  BY HolderNext, AcceptedNext DEF SimInv
<1>2. SimInv /\ [Next]_vars => [O!Next]_(O!vars)
  BY SimNext
<1>3. QED
  BY <1>1, <1>2, SimInit, PTL DEF Spec, O!Spec, ImplementsOutbox

\* "Only after the write succeeds (the outbox) does a queue worker attempt
\* forwarding": an event that is in a worker's batch, or that the destination has
\* accepted, has been committed to the table.
AttemptedWasStored ==
  \A e \in Events : e \in Held \cup accepted => status[e] # "absent"

\* The same of the abstract pipeline.
StoredBefore == \A e \in Events : e \in Held \cup accepted => PhaseOf[e] # "absent"

LEMMA StoredBeforeNext == StoredBefore /\ [O!Next]_(O!vars) => StoredBefore'
<1> SUFFICES ASSUME StoredBefore, [O!Next]_(O!vars) PROVE StoredBefore'
  OBVIOUS
<1> USE DEF StoredBefore
<1>0. PhaseOf = [d \in Events |-> PhaseOf[d]]
  BY DEF PhaseOf
<1>1. ASSUME NEW e \in Events, O!Store(e) \/ O!Accept(e) \/ O!Replay(e) PROVE StoredBefore'
  <2>1. \A d \in Events : PhaseOf[d] # "absent" => PhaseOf'[d] # "absent"
    BY <1>0, <1>1 DEF O!Store, O!Accept, O!Replay
  <2>2. \A d \in Events : d \in (Held \cup accepted)' => d \in Held \cup accepted
    BY <1>1 DEF O!Store, O!Accept, O!Replay
  <2> QED BY <2>1, <2>2
<1>2. ASSUME NEW S \in SUBSET Events, O!Take(S) \/ O!Discard(S) PROVE StoredBefore'
  BY <1>2 DEF O!Take, O!Discard
<1>3. ASSUME NEW S \in SUBSET Events, NEW D \in SUBSET Events, O!Finish(S, D) PROVE StoredBefore'
  BY <1>3 DEF O!Finish
<1>4. CASE O!Abandon
  BY <1>4 DEF O!Abandon
<1>5. CASE UNCHANGED O!vars
  BY <1>5 DEF O!vars
<1> QED BY <1>1, <1>2, <1>3, <1>4, <1>5 DEF O!Next

\* No event is handed to a worker, and none reaches its destination, before the
\* handler's insert is committed.  The promise is one of Outbox, and Delivery
\* inherits it by implementing Outbox.
THEOREM StoredFirst == Spec => []AttemptedWasStored
<1>1. O!Init => StoredBefore
  BY DEF O!Init, StoredBefore
<1>2. O!Spec => []StoredBefore
  BY <1>1, StoredBeforeNext, PTL DEF O!Spec
<1>3. StoredBefore => AttemptedWasStored
  BY DEF StoredBefore, AttemptedWasStored, PhaseOf, Phase
<1> QED BY <1>2, <1>3, PipelineIsOutbox, PTL DEF ImplementsOutbox

=============================================================================
