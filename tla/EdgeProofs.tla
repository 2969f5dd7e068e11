----------------------------- MODULE EdgeProofs -----------------------------
(***************************************************************************)
(* The two edges of the gateway.  Ingest: what comes in is stored once and *)
(* acknowledged only if it was stored, for any number of events, handlers  *)
(* and faults.  RateLimiter: what goes out keeps to the limit, for every   *)
(* set of limits, every number of callers and every delay up to Skew.      *)
(***************************************************************************)
EXTENDS Ingest, RateLimiter, TLAPS

-----------------------------------------------------------------------------
(* Ingest *)

\* Every insertion is accounted for by a deletion or by the row that is there.
RowsCounted ==
  \A e \in Events :
    inserted[e] = purged[e] + (IF Row(e) \in rows THEN 1 ELSE 0)

StoredInv == TypeOK /\ RowsCounted

\* A row carries the key of its event.
LEMMA RowOf ==
  ASSUME NEW e \in Events
  PROVE  Row(e).key = InsertKey(e) /\ Row(e).event = e
  BY DEF Row

\* Nothing is stored or counted at the start.
LEMMA StoredInit == Init => StoredInv
  BY IngestNone DEF Init, StoredInv, TypeOK, HandlersOK, RowsCounted

\* The insert adds a row exactly when it counts one (ON CONFLICT DO NOTHING).
LEMMA InsertRowCounted ==
  ASSUME StoredInv, NEW e \in Events, InsertRow(e), UNCHANGED purged
  PROVE  /\ rows' \subseteq {Row(d) : d \in Events}
         /\ inserted' \in [Events -> Nat]
         /\ RowsCounted'
<1>1. CASE Stored(InsertKey(e))
  BY <1>1 DEF InsertRow, StoredInv, TypeOK, RowsCounted
<1>2. CASE ~Stored(InsertKey(e))
  <2>1. Row(e) \notin rows
    BY <1>2, RowOf DEF Stored
  <2>2. /\ rows' = rows \cup {Row(e)}
        /\ inserted' = [inserted EXCEPT ![e] = @ + 1]
    BY <1>2 DEF InsertRow
  <2>3. \A d \in Events : d # e => Row(d) # Row(e)
    BY RowOf
  <2>4. QED
    BY <2>1, <2>2, <2>3 DEF StoredInv, TypeOK, RowsCounted
<1>3. QED
  BY <1>1, <1>2

\* The three ways a step moves a handler on.
LEMMA GotoOK ==
  ASSUME HandlersOK, NEW h \in Handlers, hpc[h] \notin {"idle", "answering"},
         NEW l \in {"checking", "inserting", "announcing"}, Goto(h, l)
  PROVE  HandlersOK'
  BY DEF HandlersOK, Goto

\* Answering keeps a handler well formed.
LEMMA AnswerOK ==
  ASSUME HandlersOK, NEW h \in Handlers, hpc[h] # "idle", NEW c \in Codes, Answer(h, c)
  PROVE  HandlersOK'
  BY IngestNone DEF HandlersOK, Answer

\* Returning leaves a handler idle.
LEMMA ReturnOK ==
  ASSUME HandlersOK, NEW h \in Handlers, Return(h)
  PROVE  HandlersOK'
  BY IngestNone DEF HandlersOK, Return

\* A handler that is not idle works on some event.
LEMMA BusyEvent ==
  ASSUME HandlersOK, NEW h \in Handlers, hpc[h] # "idle"
  PROVE  hev[h] \in Events
  BY DEF HandlersOK

\* Every step of the handlers, of cleanup and of a crash preserves StoredInv.
LEMMA StoredNext == StoredInv /\ [Next]_vars => StoredInv'
<1> SUFFICES ASSUME StoredInv, [Next]_vars PROVE StoredInv'
  OBVIOUS
<1>0. TypeOK /\ HandlersOK
  BY DEF StoredInv, TypeOK
<1> USE DEF Codes
<1>1. ASSUME NEW h \in Handlers, NEW e \in Events, Deliver(h, e) PROVE StoredInv'
  <2>1. HandlersOK'
    BY <1>0, <1>1, IngestNone DEF Deliver, HandlersOK
  <2>2. QED
    BY <1>1, <2>1 DEF Deliver, histVars, StoredInv, TypeOK, RowsCounted
<1>2. ASSUME NEW h \in Handlers, Validate(h) PROVE StoredInv'
  BY <1>0, <1>2, GotoOK DEF Validate, histVars, StoredInv, TypeOK, RowsCounted
<1>3. ASSUME NEW h \in Handlers, ValidateFails(h) PROVE StoredInv'
  BY <1>0, <1>3, AnswerOK DEF ValidateFails, CacheErrorCode, Codes, Fault,
     histVars, StoredInv, TypeOK, RowsCounted
<1>4. ASSUME NEW h \in Handlers, Exists(h) PROVE StoredInv'
  BY <1>0, <1>4, AnswerOK, GotoOK DEF Exists, histVars, StoredInv, TypeOK, RowsCounted
<1>5. ASSUME NEW h \in Handlers, ExistsFails(h) PROVE StoredInv'
  BY <1>0, <1>5, AnswerOK DEF ExistsFails, Fault, histVars, StoredInv, TypeOK, RowsCounted
<1>6. ASSUME NEW h \in Handlers, InsertWebhook(h) PROVE StoredInv'
  <2>1. HandlersOK'
    BY <1>0, <1>6, AnswerOK, GotoOK DEF InsertWebhook
  <2>2. hev[h] \in Events
    BY <1>0, <1>6, BusyEvent DEF InsertWebhook
  <2>3. QED
    BY <1>6, <2>1, <2>2, InsertRowCounted DEF InsertWebhook, StoredInv, TypeOK
<1>7. ASSUME NEW h \in Handlers, InsertFails(h) PROVE StoredInv'
  <2>1. HandlersOK'
    BY <1>0, <1>7, AnswerOK DEF InsertFails
  <2>2. hev[h] \in Events
    BY <1>0, <1>7, BusyEvent DEF InsertFails
  <2>3. CASE InsertRow(hev[h])
    BY <1>7, <2>1, <2>2, <2>3, InsertRowCounted DEF InsertFails, Fault, StoredInv, TypeOK
  <2>4. CASE UNCHANGED <<rows, inserted>>
    BY <1>7, <2>1, <2>4 DEF InsertFails, Fault, StoredInv, TypeOK, RowsCounted
  <2>5. QED
    BY <1>7, <2>3, <2>4 DEF InsertFails
<1>8. ASSUME NEW h \in Handlers, Announce(h) PROVE StoredInv'
  <2>1. HandlersOK' /\ hev[h] \in Events
    BY <1>0, <1>8, AnswerOK, BusyEvent DEF Announce
  <2>2. QED
    BY <1>8, <2>1 DEF Announce, histVars, StoredInv, TypeOK, RowsCounted
<1>9. ASSUME NEW h \in Handlers, Respond(h) \/ RespondLost(h) PROVE StoredInv'
  <2>1. HandlersOK' /\ hev[h] \in Events
    BY <1>0, <1>9, ReturnOK, BusyEvent DEF Respond, RespondLost
  <2>2. QED
    BY <1>9, <2>1 DEF Respond, RespondLost, Fault, histVars, StoredInv, TypeOK, RowsCounted
<1>10. ASSUME NEW e \in Events, Purge(e) PROVE StoredInv'
  <2>1. HandlersOK'
    BY <1>0, <1>10 DEF Purge, handlerVars, HandlersOK
  <2>2. \A d \in Events : d # e => Row(d) # Row(e)
    BY RowOf
  <2>3. RowsCounted'
    BY <1>0, <1>10, <2>2 DEF Purge, StoredInv, TypeOK, RowsCounted
  <2>4. QED
    BY <1>10, <2>1, <2>3 DEF Purge, StoredInv, TypeOK
<1>11. CASE Crash
  <2>1. HandlersOK'
    BY <1>11, IngestNone DEF Crash, HandlersOK
  <2>2. QED
    BY <1>11, <2>1 DEF Crash, Fault, histVars, StoredInv, TypeOK, RowsCounted
<1>12. CASE UNCHANGED vars
  <2>1. HandlersOK'
    BY <1>0, <1>12 DEF vars, HandlersOK
  <2>2. QED
    BY <1>12, <2>1 DEF vars, StoredInv, TypeOK, RowsCounted
<1>13. QED
  BY <1>1, <1>2, <1>3, <1>4, <1>5, <1>6, <1>7, <1>8, <1>9, <1>10, <1>11, <1>12
  DEF Next, HandlerStep

\* A handler answers exactly when it has chosen a code, and every row is the row
\* of an event that some provider delivered.
THEOREM TypeCorrect == Spec => []TypeOK
<1>1. StoredInv => TypeOK
  BY DEF StoredInv
<1>2. QED
  BY <1>1, StoredInit, StoredNext, PTL DEF Spec

\* The unique index alone keeps an event from being stored twice, however the
\* duplicate checks of concurrent deliveries interleave.
THEOREM NoDuplicateRows == Spec => []StoredOnce
<1>1. StoredInv => StoredOnce
  <2> SUFFICES ASSUME StoredInv, NEW e \in Events PROVE inserted[e] <= 1 + purged[e]
    BY DEF StoredOnce
  <2>1. inserted[e] = purged[e] + (IF Row(e) \in rows THEN 1 ELSE 0)
    BY DEF StoredInv, RowsCounted
  <2>2. purged[e] \in Nat
    BY DEF StoredInv, TypeOK
  <2>3. QED
    BY <2>1, <2>2
<1>2. QED
  BY <1>1, StoredInit, StoredNext, PTL DEF Spec

-----------------------------------------------------------------------------

\* The keys tell events apart: what every provider but GitHub guarantees, and
\* GitHub if no hook delivers two events.
KeysIdentify ==
  \A d, e \in Events : InsertKey(d) \in {InsertKey(e), ExistsKey(e)} => d = e

\* A handler on its way to a 200 knows that the event was stored.
PromisedWasStored ==
  \A h \in Handlers :
    hpc[h] = "announcing" \/ (hpc[h] = "answering" /\ code[h] = 200)
      => inserted[hev[h]] > 0

AckInv == StoredInv /\ PromisedWasStored /\ AckedWasStored

\* A key that is found belongs to an event that was inserted.
LEMMA FoundWasInserted ==
  ASSUME KeysIdentify, StoredInv, NEW e \in Events,
         Stored(InsertKey(e)) \/ Stored(ExistsKey(e))
  PROVE  inserted[e] > 0
<1>1. PICK r \in rows : r.key \in {InsertKey(e), ExistsKey(e)}
  BY DEF Stored
<1>2. PICK d \in Events : r = Row(d)
  BY DEF StoredInv, TypeOK
<1>3. d = e
  BY <1>1, <1>2, RowOf DEF KeysIdentify
<1>4. QED
  BY <1>1, <1>2, <1>3 DEF StoredInv, TypeOK, RowsCounted

\* Inserting never lowers a count.
LEMMA InsertRowGrows ==
  ASSUME StoredInv, NEW e \in Events, InsertRow(e)
  PROVE  /\ \A d \in Events : inserted[d] > 0 => inserted'[d] > 0
         /\ ~Stored(InsertKey(e)) => inserted'[e] > 0
  BY DEF InsertRow, StoredInv, TypeOK

\* Every step preserves AckInv if a key identifies an event.
LEMMA AckNext ==
  ASSUME KeysIdentify
  PROVE  AckInv /\ [Next]_vars => AckInv'
<1> SUFFICES ASSUME AckInv, [Next]_vars PROVE PromisedWasStored' /\ AckedWasStored'
  BY StoredNext DEF AckInv
<1> USE DEF AckInv
<1>0. TypeOK /\ HandlersOK /\ StoredInv
  BY DEF StoredInv, TypeOK
<1>1. ASSUME NEW h \in Handlers,
             \/ \E e \in Events : Deliver(h, e)
             \/ Validate(h) \/ ValidateFails(h) \/ ExistsFails(h)
      PROVE  PromisedWasStored' /\ AckedWasStored'
  BY <1>0, <1>1 DEF Deliver, Validate, ValidateFails, CacheErrorCode, ExistsFails,
     Goto, Answer, histVars, HandlersOK, PromisedWasStored, AckedWasStored
<1>2. ASSUME NEW h \in Handlers, Exists(h)
      PROVE  PromisedWasStored' /\ AckedWasStored'
  <2>1. hev[h] \in Events
    BY <1>0, <1>2, BusyEvent DEF Exists
  <2>2. CASE Stored(ExistsKey(hev[h]))
    <3>1. inserted[hev[h]] > 0
      BY <1>0, <2>1, <2>2, FoundWasInserted
    <3>2. QED
      BY <1>0, <1>2, <2>2, <3>1 DEF Exists, Answer, histVars, HandlersOK,
         PromisedWasStored, AckedWasStored
  <2>3. CASE ~Stored(ExistsKey(hev[h]))
    BY <1>0, <1>2, <2>3 DEF Exists, Goto, histVars, HandlersOK,
       PromisedWasStored, AckedWasStored
  <2>4. QED
    BY <2>2, <2>3
<1>3. ASSUME NEW h \in Handlers, InsertWebhook(h)
      PROVE  PromisedWasStored' /\ AckedWasStored'
  <2>1. hev[h] \in Events
    BY <1>0, <1>3, BusyEvent DEF InsertWebhook
  <2>2. /\ \A d \in Events : inserted[d] > 0 => inserted'[d] > 0
        /\ inserted'[hev[h]] > 0
    BY <1>0, <1>3, <2>1, InsertRowGrows, FoundWasInserted DEF InsertWebhook
  <2>3. /\ hev' = hev
        /\ \A g \in Handlers : g # h => hpc'[g] = hpc[g] /\ code'[g] = code[g]
        /\ acked' = acked
    BY <1>0, <1>3 DEF InsertWebhook, Answer, Goto, HandlersOK
  <2>4. \A g \in Handlers : hpc[g] # "idle" => hev[g] \in Events
    BY <1>0 DEF HandlersOK
  <2>5. PromisedWasStored'
    BY <2>2, <2>3, <2>4 DEF PromisedWasStored
  <2>6. AckedWasStored'
    BY <1>0, <2>2, <2>3 DEF AckedWasStored, TypeOK
  <2>7. QED
    BY <2>5, <2>6
<1>4. ASSUME NEW h \in Handlers, InsertFails(h)
      PROVE  PromisedWasStored' /\ AckedWasStored'
  <2>1. hev[h] \in Events
    BY <1>0, <1>4, BusyEvent DEF InsertFails
  <2>2. \A d \in Events : inserted[d] > 0 => inserted'[d] > 0
    BY <1>0, <1>4, <2>1, InsertRowGrows DEF InsertFails
  <2>3. \A g \in Handlers : hpc[g] # "idle" => hev[g] \in Events
    BY <1>0 DEF HandlersOK
  <2>4. PromisedWasStored'
    BY <1>0, <1>4, <2>2, <2>3 DEF InsertFails, Answer, HandlersOK, PromisedWasStored
  <2>5. AckedWasStored'
    BY <1>0, <1>4, <2>2 DEF InsertFails, AckedWasStored, TypeOK
  <2>6. QED
    BY <2>4, <2>5
<1>5. ASSUME NEW h \in Handlers, Announce(h)
      PROVE  PromisedWasStored' /\ AckedWasStored'
  BY <1>0, <1>5 DEF Announce, Answer, histVars, HandlersOK, PromisedWasStored, AckedWasStored
<1>6. ASSUME NEW h \in Handlers, Respond(h) \/ RespondLost(h)
      PROVE  PromisedWasStored' /\ AckedWasStored'
  BY <1>0, <1>6 DEF Respond, RespondLost, Return, histVars, HandlersOK,
     PromisedWasStored, AckedWasStored
<1>7. ASSUME NEW e \in Events, Purge(e)
      PROVE  PromisedWasStored' /\ AckedWasStored'
  BY <1>7 DEF Purge, handlerVars, PromisedWasStored, AckedWasStored
<1>8. CASE Crash
  BY <1>8 DEF Crash, histVars, PromisedWasStored, AckedWasStored
<1>9. CASE UNCHANGED vars
  BY <1>9 DEF vars, PromisedWasStored, AckedWasStored
<1>10. QED
  BY <1>1, <1>2, <1>3, <1>4, <1>5, <1>6, <1>7, <1>8, <1>9 DEF Next, HandlerStep

\* No event is acknowledged and then lost, whatever fails and crashes, as long
\* as the stored key identifies the event.
THEOREM AckedIsStored ==
  ASSUME KeysIdentify
  PROVE  Spec => []AckedWasStored
<1>1. Init => AckInv
  BY StoredInit DEF Init, AckInv, PromisedWasStored, AckedWasStored
<1>2. AckInv => AckedWasStored
  BY DEF AckInv
<1>3. AckInv /\ [Next]_vars => AckInv'
  BY AckNext
<1>4. QED
  BY <1>1, <1>2, <1>3, PTL DEF Spec

-----------------------------------------------------------------------------

\* A handler leaves "announcing" by announcing its event, and enters it when it
\* stores one.
LEMMA AnnouncedNext ==
  StoredInv /\ StoredIsAnnounced /\ [Next]_vars => StoredIsAnnounced'
<1> SUFFICES ASSUME StoredInv, StoredIsAnnounced, [Next]_vars PROVE StoredIsAnnounced'
  OBVIOUS
<1>0. TypeOK /\ HandlersOK /\ faults \in Nat
  BY DEF StoredInv, TypeOK
<1>1. ASSUME Fault PROVE StoredIsAnnounced'
  <2>1. faults' # 0
    BY <1>0, <1>1 DEF Fault
  <2>2. QED
    BY <2>1 DEF StoredIsAnnounced
<1>2. ASSUME NEW h \in Handlers, \E e \in Events : Deliver(h, e) PROVE StoredIsAnnounced'
  BY <1>0, <1>2 DEF Deliver, histVars, HandlersOK, StoredIsAnnounced
<1>3. ASSUME NEW h \in Handlers, Validate(h) \/ Exists(h) PROVE StoredIsAnnounced'
  BY <1>0, <1>3 DEF Validate, Exists, Goto, Answer, histVars, HandlersOK, StoredIsAnnounced
<1>4. ASSUME NEW h \in Handlers, InsertWebhook(h) PROVE StoredIsAnnounced'
  <2>1. hev[h] \in Events
    BY <1>0, <1>4, BusyEvent DEF InsertWebhook
  <2>2. CASE Stored(InsertKey(hev[h]))
    BY <1>0, <1>4, <2>2 DEF InsertWebhook, InsertRow, Answer, HandlersOK, StoredIsAnnounced
  <2>3. CASE ~Stored(InsertKey(hev[h]))
    <3>1. /\ hpc' = [hpc EXCEPT ![h] = "announcing"]
          /\ inserted' = [inserted EXCEPT ![hev[h]] = @ + 1]
          /\ UNCHANGED <<hev, announced, faults>>
      BY <1>4, <2>3 DEF InsertWebhook, InsertRow, Goto
    <3>2. QED
      BY <1>0, <2>1, <3>1 DEF TypeOK, HandlersOK, StoredIsAnnounced
  <2>4. QED
    BY <2>2, <2>3
<1>5. ASSUME NEW h \in Handlers, Announce(h) PROVE StoredIsAnnounced'
  BY <1>0, <1>5 DEF Announce, Answer, histVars, HandlersOK, StoredIsAnnounced
<1>6. ASSUME NEW h \in Handlers, Respond(h) PROVE StoredIsAnnounced'
  BY <1>0, <1>6 DEF Respond, Return, HandlersOK, StoredIsAnnounced
<1>7. ASSUME NEW e \in Events, Purge(e) PROVE StoredIsAnnounced'
  BY <1>7 DEF Purge, handlerVars, StoredIsAnnounced
<1>8. CASE UNCHANGED vars
  BY <1>8 DEF vars, StoredIsAnnounced
<1>9. QED
  BY <1>1, <1>2, <1>3, <1>4, <1>5, <1>6, <1>7, <1>8
  DEF Next, HandlerStep, ValidateFails, ExistsFails, InsertFails, RespondLost, Crash

\* Unless something failed, a stored event is announced to the dashboard and to
\* the workers by the handler that stored it.
THEOREM StoredThenAnnounced == Spec => []StoredIsAnnounced
<1>1. Init => StoredIsAnnounced
  BY DEF Init, StoredIsAnnounced
<1>2. QED
  BY <1>1, StoredInit, StoredNext, AnnouncedNext, PTL DEF Spec

-----------------------------------------------------------------------------
(* RateLimiter.  The argument is a potential: what has been admitted since    *)
(* the window opened is still in the bucket or has leaked since then, and     *)
(* once a request was admitted the bucket holds no more than a bucketful      *)
(* under the window's limit and what a late reading puts back.                *)

\* Clock readings are at most Skew old and come with a positive limit, and the
\* window is not in the future.
Readings ==
  /\ \A c \in Callers : stamp[c] # Absent =>
       /\ stamp[c] <= now /\ now <= stamp[c] + Skew
       /\ limitOf[c] # Absent
  /\ \A c \in Callers : limitOf[c] # Absent => limitOf[c] > 0
  /\ mark <= now

\* The bucket's own clock lags the script's last run by at most Skew.
Lag ==
  lastLeak # Absent =>
    lastLeak <= touched /\ touched <= lastLeak + Skew /\ touched <= now

\* The level exceeds a bucketful under limit m by no more than the lag's leak.
Full(m) == level <= m * (Second + (touched - lastLeak))

\* A key that was filled under one limit only.
Bounded ==
  lastLeak # Absent => \A m \in Limits : filled \subseteq {m} => Full(m)

\* What was admitted in a window with one limit is in the bucket or has leaked.
Potential ==
  admitted > 0 => \A m \in Limits : used \subseteq {m} =>
    /\ lastLeak # Absent /\ Full(m)
    /\ admitted * Second <= level + m * (lastLeak - mark + Skew)

BurstInv == LimiterTypeOK /\ Readings /\ Lag /\ Bounded /\ Potential

-----------------------------------------------------------------------------

\* Multiplication by a limit is additive and monotone.
LEMMA Scale ==
  ASSUME NEW m \in Nat, NEW a \in Int, NEW b \in Int
  PROVE  /\ m * (a + b) = m * a + m * b
         /\ a <= b => m * a <= m * b
         /\ a * m = m * a
         /\ m * a \in Int
<1>2. m * (a + b) = m * a + m * b
  OBVIOUS
<1>3. a <= b => m * a <= m * b
  <2>1. SUFFICES ASSUME a <= b PROVE m * a <= m * b
    OBVIOUS
  <2>2. PICK d \in Nat : b = a + d
    <3>1. b - a \in Nat /\ b = a + (b - a)
      BY <2>1
    <3>2. QED BY <3>1
  <2>3. m * b = m * a + m * d
    BY <2>2
  <2>4. m * d >= 0
    OBVIOUS
  <2>5. QED BY <2>3, <2>4
<1>4. QED BY <1>2, <1>3

\* The level the script computes is a natural number, and it is at least the
\* old level less what has leaked.
LEMMA LeakedFacts ==
  ASSUME LimiterTypeOK, NEW m \in Nat, NEW s \in Nat
  PROVE  /\ Leaked(m, s) \in Nat
         /\ Live => Leaked(m, s) >= level - m * (s - lastLeak)
         /\ Live => Leaked(m, s) = 0 \/ Leaked(m, s) = level - m * (s - lastLeak)
         /\ ~Live => Leaked(m, s) = 0
<1>1. CASE Live
  <2>1. lastLeak \in Nat /\ level \in Nat
    BY <1>1 DEF Live, LimiterTypeOK
  <2>2. s - lastLeak \in Int
    BY <2>1
  <2>3. (s - lastLeak) * m = m * (s - lastLeak) /\ m * (s - lastLeak) \in Int
    BY <2>2, Scale
  <2>4. Leaked(m, s) = IF level - m * (s - lastLeak) < 0 THEN 0
                       ELSE level - m * (s - lastLeak)
    BY <1>1, <2>3 DEF Leaked
  <2>5. QED BY <1>1, <2>1, <2>3, <2>4
<1>2. CASE ~Live
  BY <1>2 DEF Leaked
<1>3. QED BY <1>1, <1>2

\* A call of the script: the reading, the limit and the constants it meets.
LEMMA CallFacts ==
  ASSUME BurstInv, NEW c \in Callers, stamp[c] # Absent
  PROVE  /\ stamp[c] \in Nat /\ now \in Nat /\ stamp[c] <= now /\ now <= stamp[c] + Skew
         /\ limitOf[c] \in Limits /\ limitOf[c] \in Nat /\ limitOf[c] > 0
         /\ Second \in Nat /\ Skew \in Nat /\ Expiry \in Nat /\ Expiry >= Second + Skew
         /\ Leaked(limitOf[c], stamp[c]) \in Nat
<1>1. /\ stamp[c] \in Nat /\ now \in Nat /\ stamp[c] <= now /\ now <= stamp[c] + Skew
      /\ limitOf[c] \in Limits /\ limitOf[c] > 0
  BY DEF BurstInv, LimiterTypeOK, Readings
<1>2. /\ limitOf[c] \in Nat
      /\ Second \in Nat /\ Skew \in Nat /\ Expiry \in Nat /\ Expiry >= Second + Skew
  BY <1>1, LimiterAssumption
<1>3. QED BY <1>1, <1>2, LeakedFacts DEF BurstInv

\* A run of the script under limit m leaves at most a bucketful of m if it
\* admits the request, or if the level it found was bounded by m.
LEMMA StoreFull ==
  ASSUME BurstInv, NEW c \in Callers, stamp[c] # Absent,
         Store(limitOf[c], stamp[c]),
         Live => Full(limitOf[c]) \/ Room(limitOf[c], stamp[c])
  PROVE  /\ level' \in Nat /\ lastLeak' = stamp[c] /\ touched' = now
         /\ level' <= limitOf[c] * (Second + (now - stamp[c]))
<1> DEFINE s == stamp[c]
           m == limitOf[c]
<1>1. /\ s \in Nat /\ now \in Nat /\ s <= now /\ now <= s + Skew
      /\ m \in Nat /\ Second \in Nat /\ Skew \in Nat
      /\ Leaked(m, s) \in Nat
  BY CallFacts
<1>2. level' \in Nat /\ lastLeak' = s /\ touched' = now
  BY <1>1 DEF Store
<1>3. m * Second <= m * (Second + (now - s))
  <2>1. Second \in Int /\ Second + (now - s) \in Int /\ Second <= Second + (now - s)
    BY <1>1
  <2> HIDE DEF m, s
  <2>2. QED BY <1>1, <2>1, Scale
<1>4. m * Second \in Nat /\ m * (Second + (now - s)) \in Int
  BY <1>1
<1>5. CASE Room(m, s)
  <2>1. level' = Leaked(m, s) + Second
    BY <1>5 DEF Store
  <2>2. Leaked(m, s) + Second <= m * Second
    BY <1>5 DEF Room
  <2>3. QED BY <1>1, <1>2, <1>3, <1>4, <2>1, <2>2
<1>6. CASE ~Room(m, s)
  <2>1. level' = Leaked(m, s)
    BY <1>6 DEF Store
  <2>2. CASE Leaked(m, s) = 0
    BY <1>1, <1>2, <1>3, <1>4, <2>1, <2>2
  <2>3. CASE Leaked(m, s) # 0
    <3>1. Live /\ Leaked(m, s) = level - m * (s - lastLeak)
      BY <1>1, <2>3, LeakedFacts DEF BurstInv
    <3>2. /\ lastLeak \in Nat /\ touched \in Nat /\ level \in Nat /\ touched <= now
          /\ level <= m * (Second + (touched - lastLeak))
      BY <1>6, <3>1 DEF BurstInv, LimiterTypeOK, Live, Lag, Full
    <3>3. m * (Second + (touched - lastLeak))
            = m * (s - lastLeak) + m * (Second + (touched - s))
      <4>1. Second + (touched - lastLeak) = (s - lastLeak) + (Second + (touched - s))
        BY <1>1, <3>2
      <4>2. s - lastLeak \in Int /\ Second + (touched - s) \in Int
        BY <1>1, <3>2
      <4>3. QED BY <1>1, <4>1, <4>2
    <3>4. m * (Second + (touched - s)) <= m * (Second + (now - s))
      <4>1. Second + (touched - s) \in Int /\ Second + (now - s) \in Int
            /\ Second + (touched - s) <= Second + (now - s)
        BY <1>1, <3>2
      <4>2. QED BY <1>1, <4>1, Scale
    <3>5. /\ m * (s - lastLeak) \in Int
          /\ m * (Second + (touched - s)) \in Int
          /\ m * (Second + (touched - lastLeak)) \in Int
      BY <1>1, <3>2
    <3>6. QED BY <1>2, <1>4, <2>1, <3>1, <3>2, <3>3, <3>4, <3>5
  <2>4. QED BY <2>2, <2>3
<1>7. QED BY <1>5, <1>6

\* A run of the script keeps the bucket's types, lag and bound.
LEMMA StoreBounded ==
  ASSUME BurstInv, NEW c \in Callers, stamp[c] # Absent,
         Store(limitOf[c], stamp[c]), now' = now
  PROVE  /\ level' \in Nat /\ lastLeak' = stamp[c] /\ touched' = now
         /\ filled' \subseteq Limits
         /\ Lag' /\ Bounded'
<1> DEFINE s == stamp[c]
           m == limitOf[c]
<1>1. /\ s \in Nat /\ now \in Nat /\ s <= now /\ now <= s + Skew
      /\ m \in Limits /\ Second \in Nat /\ Skew \in Nat
      /\ Leaked(m, s) \in Nat
  BY CallFacts
<1>2. level' \in Nat /\ lastLeak' = s /\ touched' = now /\ filled' = Filled(m)
  BY <1>1 DEF Store
<1>3. filled' \subseteq Limits /\ m \in filled'
  BY <1>1, <1>2 DEF Filled, BurstInv, LimiterTypeOK
<1>4. Lag'
  BY <1>1, <1>2 DEF Lag
<1>5. ASSUME NEW k \in Limits, filled' \subseteq {k} PROVE Full(k)'
  <2>1. k = m
    BY <1>3, <1>5
  <2>2. Live => Full(m)
    BY <1>1, <1>2, <1>5, <2>1 DEF Filled, Live, BurstInv, Bounded
  <2>3. level' <= m * (Second + (now - s))
    BY <2>2, StoreFull
  <2>4. QED BY <1>2, <2>1, <2>3 DEF Full
<1>6. QED BY <1>2, <1>3, <1>4, <1>5 DEF Bounded

\* What the window has seen so far is covered by the level before filling and
\* by what has leaked until the reading.
LEMMA Covered ==
  ASSUME BurstInv, NEW c \in Callers, stamp[c] # Absent, used \subseteq {limitOf[c]}
  PROVE  admitted * Second
           <= Leaked(limitOf[c], stamp[c]) + limitOf[c] * (stamp[c] - mark + Skew)
<1> DEFINE s == stamp[c]
           m == limitOf[c]
<1>1. /\ s \in Nat /\ now \in Nat /\ s <= now /\ now <= s + Skew
      /\ m \in Limits /\ m \in Nat
      /\ Second \in Nat /\ Skew \in Nat /\ Expiry \in Nat /\ Expiry >= Second + Skew
      /\ Leaked(m, s) \in Nat
  BY CallFacts
<1>2. mark \in Nat /\ mark <= now /\ admitted \in Nat
  BY DEF BurstInv, LimiterTypeOK, Readings
<1>3. 0 <= s - mark + Skew /\ s - mark + Skew \in Int
  BY <1>1, <1>2
<1>4. 0 <= m * (s - mark + Skew) /\ m * (s - mark + Skew) \in Int
  <2>1. PICK d \in Nat : d = s - mark + Skew
    BY <1>3
  <2>2. m * d \in Nat
    BY <1>1
  <2>3. QED BY <2>1, <2>2
<1>5. CASE admitted = 0
  BY <1>1, <1>4, <1>5
<1>6. CASE admitted > 0
  <2>1. /\ lastLeak \in Nat /\ touched \in Nat /\ level \in Nat
        /\ admitted * Second <= level + m * (lastLeak - mark + Skew)
        /\ level <= m * (Second + (touched - lastLeak))
    BY <1>1, <1>6 DEF BurstInv, LimiterTypeOK, Potential, Full
  <2>2. admitted * Second \in Nat
    BY <1>1, <1>2
  <2>3. CASE Live
    <3>1. Leaked(m, s) >= level - m * (s - lastLeak)
      BY <1>1, <2>3, LeakedFacts DEF BurstInv
    <3>2. m * (s - mark + Skew) = m * (s - lastLeak) + m * (lastLeak - mark + Skew)
      <4>1. s - mark + Skew = (s - lastLeak) + (lastLeak - mark + Skew)
        BY <1>1, <1>2, <2>1
      <4>2. s - lastLeak \in Int /\ lastLeak - mark + Skew \in Int
        BY <1>1, <1>2, <2>1
      <4>3. QED BY <1>1, <4>1, <4>2
    <3>3. m * (s - lastLeak) \in Int /\ m * (lastLeak - mark + Skew) \in Int
      BY <1>1, <1>2, <2>1
    <3>4. QED BY <1>1, <1>4, <2>1, <2>2, <3>1, <3>2, <3>3
  <2>4. CASE ~Live
    <3>1. now >= touched + Expiry
      BY <1>1, <2>1, <2>4, LimiterAbsent DEF Live
    <3>2. Second + touched <= s
      BY <1>1, <2>1, <3>1
    <3>3. m * (Second + (touched - lastLeak)) + m * (lastLeak - mark + Skew)
            = m * (Second + touched - mark + Skew)
      <4>1. (Second + (touched - lastLeak)) + (lastLeak - mark + Skew)
              = Second + touched - mark + Skew
        BY <1>1, <1>2, <2>1
      <4>2. Second + (touched - lastLeak) \in Int /\ lastLeak - mark + Skew \in Int
        BY <1>1, <1>2, <2>1
      <4>3. QED BY <1>1, <4>1, <4>2, Scale
    <3>4. m * (Second + touched - mark + Skew) <= m * (s - mark + Skew)
      <4>1. Second + touched - mark + Skew \in Int
            /\ Second + touched - mark + Skew <= s - mark + Skew
        BY <1>1, <1>2, <2>1, <3>2
      <4>2. QED BY <1>1, <1>3, <4>1, Scale
    <3>5. /\ m * (Second + (touched - lastLeak)) \in Int
          /\ m * (lastLeak - mark + Skew) \in Int
          /\ m * (Second + touched - mark + Skew) \in Int
      BY <1>1, <1>2, <2>1
    <3>6. QED BY <1>1, <1>4, <2>1, <2>2, <3>3, <3>4, <3>5
  <2>5. QED BY <2>3, <2>4
<1>7. QED BY <1>2, <1>5, <1>6

\* A run of the script, with or without an answer, keeps the potential.
LEMMA StorePotential ==
  ASSUME BurstInv, NEW c \in Callers, stamp[c] # Absent,
         Store(limitOf[c], stamp[c]), used' = used \cup {limitOf[c]},
         now' = now, mark' = mark,
         \/ admitted' = admitted
         \/ Room(limitOf[c], stamp[c]) /\ admitted' = admitted + 1
  PROVE  Potential'
<1> DEFINE s == stamp[c]
           m == limitOf[c]
<1>0. /\ s \in Nat /\ m \in Limits /\ m \in Nat /\ now \in Nat
      /\ Second \in Nat /\ Skew \in Nat /\ Leaked(m, s) \in Nat
  BY CallFacts
<1> SUFFICES ASSUME admitted' > 0, NEW k \in Limits, used' \subseteq {k}
             PROVE  /\ lastLeak' # Absent /\ Full(k)'
                    /\ admitted' * Second <= level' + k * (lastLeak' - mark' + Skew)
  BY DEF Potential
<1>1. k = m /\ used \subseteq {m}
  OBVIOUS
<1>2. lastLeak' = s /\ touched' = now /\ level' \in Nat /\ s # Absent
  BY StoreBounded
<1>3. Live => Full(m) \/ Room(m, s)
  BY <1>0, <1>1 DEF BurstInv, Potential, LimiterTypeOK
<1>4. Full(k)'
  <2>1. level' <= m * (Second + (now - s))
    BY <1>3, StoreFull
  <2>2. QED BY <1>1, <1>2, <2>1 DEF Full
<1>5. admitted * Second <= Leaked(m, s) + m * (s - mark + Skew)
  BY <1>1, Covered
<1>6. mark \in Nat /\ admitted \in Nat
  BY DEF BurstInv, LimiterTypeOK
<1>7. m * (s - mark + Skew) \in Int /\ admitted * Second \in Nat
  BY <1>0, <1>6
<1>8. CASE Room(m, s) /\ admitted' = admitted + 1
  <2>1. level' = Leaked(m, s) + Second
    BY <1>8 DEF Store
  <2>2. (admitted + 1) * Second = admitted * Second + Second
    BY <1>0, <1>6
  <2>3. admitted' * Second <= level' + m * (s - mark + Skew)
    BY <1>0, <1>5, <1>7, <1>8, <2>1, <2>2
  <2>4. QED BY <1>1, <1>2, <1>4, <2>3
<1>9. CASE admitted' = admitted
  <2>1. Leaked(m, s) <= level'
    BY <1>0 DEF Store
  <2>2. admitted' * Second <= level' + m * (s - mark + Skew)
    BY <1>0, <1>2, <1>5, <1>7, <1>9, <2>1
  <2>3. QED BY <1>1, <1>2, <1>4, <2>2
<1>10. QED BY <1>8, <1>9

-----------------------------------------------------------------------------

\* An empty bucket and an empty window satisfy the invariant.
LEMMA BurstInit == LimiterInit => BurstInv
  BY LimiterAssumption DEF LimiterInit, BurstInv, LimiterTypeOK, Readings, Lag, Bounded, Potential

\* Every step, late and failed calls included, preserves the invariant.
LEMMA BurstStep == BurstInv /\ [LimiterNext]_limiterVars => BurstInv'
<1> SUFFICES ASSUME BurstInv, [LimiterNext]_limiterVars PROVE BurstInv'
  OBVIOUS
<1>0. Second \in Nat /\ Skew \in Nat /\ Limits \subseteq Nat
  BY LimiterAssumption
<1>1. ASSUME UNCHANGED <<bucket, window>>, now' \in Nat, now' >= now,
             Readings', LimiterTypeOK'
      PROVE  BurstInv'
  <2>1. Lag'
    BY <1>0, <1>1 DEF bucket, BurstInv, LimiterTypeOK, Lag
  <2>2. Bounded' /\ Potential'
    BY <1>1 DEF bucket, window, BurstInv, Bounded, Potential, Full
  <2>3. QED BY <1>1, <2>1, <2>2 DEF BurstInv
<1>2. ASSUME NEW m \in Limits, SetLimit(m) PROVE BurstInv'
  <2>1. Readings' /\ LimiterTypeOK' /\ now' \in Nat /\ now' >= now
    BY <1>2 DEF SetLimit, bucket, window, BurstInv, LimiterTypeOK, Readings
  <2>2. QED BY <1>1, <1>2, <2>1 DEF SetLimit
<1>3. ASSUME NEW c \in Callers, ReadLimit(c) PROVE BurstInv'
  <2>1. Readings' /\ LimiterTypeOK' /\ now' \in Nat /\ now' >= now
    BY <1>3 DEF ReadLimit, bucket, window, BurstInv, LimiterTypeOK, Readings
  <2>2. QED BY <1>1, <1>3, <2>1 DEF ReadLimit
<1>4. ASSUME NEW c \in Callers, ReadClock(c) PROVE BurstInv'
  <2>1. Readings' /\ LimiterTypeOK' /\ now' \in Nat /\ now' >= now
    BY <1>0, <1>4 DEF ReadClock, bucket, window, BurstInv, LimiterTypeOK, Readings
  <2>2. QED BY <1>1, <1>4, <2>1 DEF ReadClock
<1>5. CASE Tick
  <2>1. Readings' /\ LimiterTypeOK' /\ now' \in Nat /\ now' >= now
    BY <1>0, <1>5 DEF Tick, bucket, window, BurstInv, LimiterTypeOK, Readings
  <2>2. QED BY <1>1, <1>5, <2>1 DEF Tick
<1>6. CASE OpenWindow
  <2>1. Readings' /\ LimiterTypeOK'
    BY <1>6 DEF OpenWindow, bucket, BurstInv, LimiterTypeOK, Readings
  <2>2. Lag' /\ Bounded' /\ Potential'
    BY <1>6 DEF OpenWindow, bucket, BurstInv, Lag, Bounded, Full, Potential
  <2>3. QED BY <2>1, <2>2 DEF BurstInv
<1>7. ASSUME NEW c \in Callers, RunScript(c) PROVE BurstInv'
  <2>1. /\ stamp[c] # Absent /\ Store(limitOf[c], stamp[c])
        /\ now' = now /\ mark' = mark /\ limit' = limit
        /\ used' = used \cup {limitOf[c]} /\ Finish(c)
        /\ admitted' = IF Room(limitOf[c], stamp[c]) THEN admitted + 1 ELSE admitted
    BY <1>7 DEF RunScript
  <2>2. /\ level' \in Nat /\ lastLeak' = stamp[c] /\ touched' = now
        /\ filled' \subseteq Limits /\ Lag' /\ Bounded'
    BY <2>1, StoreBounded
  <2>3. stamp[c] \in Nat /\ now \in Nat /\ limitOf[c] \in Limits
    BY <2>1, CallFacts
  <2>4. LimiterTypeOK'
    BY <2>1, <2>2, <2>3 DEF Finish, BurstInv, LimiterTypeOK
  <2>5. Readings'
    BY <2>1 DEF Finish, BurstInv, LimiterTypeOK, Readings
  <2>6. Potential'
    BY <2>1, StorePotential
  <2>7. QED BY <2>2, <2>4, <2>5, <2>6 DEF BurstInv
<1>8. ASSUME NEW c \in Callers, ScriptFails(c) PROVE BurstInv'
  <2>1. /\ stamp[c] # Absent
        /\ now' = now /\ mark' = mark /\ limit' = limit /\ admitted' = admitted
        /\ Finish(c)
    BY <1>8 DEF ScriptFails
  <2>2. stamp[c] \in Nat /\ now \in Nat /\ limitOf[c] \in Limits
    BY <2>1, CallFacts
  <2>3. Readings'
    BY <2>1 DEF Finish, BurstInv, LimiterTypeOK, Readings
  <2>4. CASE Store(limitOf[c], stamp[c]) /\ used' = used \cup {limitOf[c]}
    <3>1. /\ level' \in Nat /\ lastLeak' = stamp[c] /\ touched' = now
          /\ filled' \subseteq Limits /\ Lag' /\ Bounded'
      BY <2>1, <2>4, StoreBounded
    <3>2. LimiterTypeOK'
      BY <2>1, <2>2, <2>4, <3>1 DEF Finish, BurstInv, LimiterTypeOK
    <3>3. Potential'
      BY <2>1, <2>4, StorePotential
    <3>4. QED BY <2>3, <3>1, <3>2, <3>3 DEF BurstInv
  <2>5. CASE UNCHANGED <<bucket, used>>
    <3>1. LimiterTypeOK'
      BY <2>1, <2>5 DEF Finish, bucket, BurstInv, LimiterTypeOK
    <3>2. QED BY <1>1, <2>1, <2>2, <2>3, <2>5, <3>1 DEF window
  <2>6. QED BY <1>8, <2>4, <2>5 DEF ScriptFails
<1>9. CASE UNCHANGED limiterVars
  BY <1>9 DEF limiterVars, bucket, window, BurstInv, LimiterTypeOK, Readings, Lag, Bounded, Full, Potential
<1>10. QED BY <1>2, <1>3, <1>4, <1>5, <1>6, <1>7, <1>8, <1>9 DEF LimiterNext

\* The invariant gives the bound: the level is at most a bucketful and what has
\* leaked until now.
LEMMA BurstImplied == BurstInv => BurstBound
<1> SUFFICES ASSUME BurstInv, NEW m \in Limits, used \subseteq {m}
             PROVE  admitted * Second <= m * (Second + (now - mark) + Skew)
  BY DEF BurstBound
<1>0. Second \in Nat /\ Skew \in Nat /\ m \in Nat
  BY LimiterAssumption
<1>1. now \in Nat /\ mark \in Nat /\ mark <= now /\ admitted \in Nat
  BY DEF BurstInv, LimiterTypeOK, Readings
<1>2. CASE admitted = 0
  <2>1. PICK d \in Nat : d = Second + (now - mark) + Skew
    BY <1>0, <1>1
  <2>2. m * d \in Nat
    BY <1>0
  <2>3. QED BY <1>0, <1>2, <2>1, <2>2
<1>3. CASE admitted > 0
  <2>1. /\ lastLeak \in Nat /\ touched \in Nat /\ level \in Nat /\ touched <= now
        /\ admitted * Second <= level + m * (lastLeak - mark + Skew)
        /\ level <= m * (Second + (touched - lastLeak))
    BY <1>3 DEF BurstInv, LimiterTypeOK, Potential, Full, Lag
  <2>2. PICK d \in Nat : now = touched + d
    <3>1. now - touched \in Nat /\ now = touched + (now - touched)
      BY <1>1, <2>1
    <3>2. QED BY <3>1
  <2>3. m * (Second + (now - mark) + Skew)
          = m * (Second + (touched - lastLeak)) + m * (lastLeak - mark + Skew) + m * d
    BY <1>0, <1>1, <2>1, <2>2
  <2>4. m * d \in Nat
    BY <1>0
  <2>5. /\ m * (Second + (touched - lastLeak)) \in Int
        /\ m * (lastLeak - mark + Skew) \in Int
        /\ admitted * Second \in Nat
    BY <1>0, <1>1, <2>1
  <2>6. QED BY <2>1, <2>3, <2>4, <2>5
<1>4. QED BY <1>1, <1>2, <1>3

\* The level the script stores never falls below zero, whatever limits and clock
\* readings its callers bring, and every other variable keeps its type.
THEOREM LimiterTypeCorrect == LimiterSpec => []LimiterTypeOK
<1>1. BurstInv /\ [LimiterNext]_limiterVars => BurstInv'
  BY BurstStep
<1>2. BurstInv => LimiterTypeOK
  BY DEF BurstInv
<1>3. QED BY <1>1, <1>2, BurstInit, PTL DEF LimiterSpec

\* For every set of limits, number of callers and delay, a window of calls under
\* one limit never sees more than one bucketful beyond what leaks, whatever the
\* limit was before: the Lua script of limiter.go and the whole of Allow.
THEOREM BurstIsBounded == LimiterSpec => []BurstBound
<1>1. BurstInv /\ [LimiterNext]_limiterVars => BurstInv'
  BY BurstStep
<1>2. QED BY <1>1, BurstInit, BurstImplied, PTL DEF LimiterSpec

\* A request a second after the last call finds the bucket empty, if the key was
\* filled under the limit the request uses: no sequence of late, reordered or
\* lost calls leaves a destination throttled while nobody calls it.
THEOREM QuietAdmits == LimiterSpec => QuietThenAdmitted
<1>1. BurstInv /\ [LimiterNext]_limiterVars
        => [\A c \in Callers :
              /\ RunScript(c)
              /\ filled \subseteq {limitOf[c]}
              /\ stamp[c] >= touched + Second
              => admitted' = admitted + 1]_limiterVars
  <2> SUFFICES ASSUME BurstInv, NEW c \in Callers, RunScript(c),
                      filled \subseteq {limitOf[c]}, stamp[c] >= touched + Second
               PROVE  admitted' = admitted + 1
    OBVIOUS
  <2> DEFINE s == stamp[c]
             m == limitOf[c]
  <2>1. stamp[c] # Absent
    BY DEF RunScript
  <2>2. /\ s \in Nat /\ m \in Limits /\ m \in Nat /\ m > 0
        /\ Second \in Nat /\ Leaked(m, s) \in Nat
    BY <2>1, CallFacts DEF BurstInv, Readings
  <2>3. Leaked(m, s) = 0
    <3>1. CASE Live
      <4>1. /\ lastLeak \in Nat /\ touched \in Nat /\ level \in Nat /\ lastLeak <= touched
            /\ level <= m * (Second + (touched - lastLeak))
        BY <2>2, <3>1 DEF Live, BurstInv, LimiterTypeOK, Bounded, Full, Lag
      <4>2. m * (Second + (touched - lastLeak)) <= m * (s - lastLeak)
        <5>1. Second + (touched - lastLeak) \in Int /\ s - lastLeak \in Int
              /\ Second + (touched - lastLeak) <= s - lastLeak
          BY <2>2, <4>1
        <5>2. QED BY <2>2, <5>1, Scale
      <4>3. m * (s - lastLeak) \in Int /\ m * (Second + (touched - lastLeak)) \in Int
            /\ (s - lastLeak) * m = m * (s - lastLeak)
        BY <2>2, <4>1
      <4>4. level - (s - lastLeak) * m <= 0
        BY <4>1, <4>2, <4>3
      <4>5. QED BY <3>1, <4>1, <4>3, <4>4 DEF Leaked
    <3>2. CASE ~Live
      BY <3>2 DEF Leaked
    <3>3. QED BY <3>1, <3>2
  <2>4. Room(m, s)
    <3>1. PICK d \in Nat : m = 1 + d
      <4>1. m - 1 \in Nat /\ m = 1 + (m - 1)
        BY <2>2
      <4>2. QED BY <4>1
    <3>2. m * Second = Second + d * Second
      BY <2>2, <3>1
    <3>3. d * Second \in Nat
      BY <2>2
    <3>4. QED BY <2>2, <2>3, <3>2, <3>3 DEF Room
  <2>5. QED BY <2>4 DEF RunScript
<1>2. QED BY <1>1, BurstInit, BurstStep, PTL DEF LimiterSpec, QuietThenAdmitted

=============================================================================
