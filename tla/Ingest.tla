------------------------------- MODULE Ingest -------------------------------
(***************************************************************************)
(* The three Receive handlers: what a provider's delivery of an event goes *)
(* through until it is a row of webhook_events and the provider is told.   *)
(* Any number of deliveries of one event may be in progress, each in a     *)
(* goroutine of its own, and a provider that sees no 200 delivers again.   *)
(*                                                                         *)
(* Sources: internal/api/handler/{stripe,github,shopify}.go, InsertWebhook *)
(* and Exists of internal/events/repository.go and of the provider         *)
(* services, the unique index of migrations/00002.                         *)
(***************************************************************************)
EXTENDS Naturals

CONSTANTS
  Events,     \* events that providers deliver; an event stands for its own id
  Provider,   \* event -> "Stripe", "Github" or "Shopify"
  Hook,       \* event -> X-Github-Hook-Id, the id of the hook that delivers it
  Handlers,   \* goroutines that serve requests; bounds the concurrency
  MaxFaults,  \* bound: failures and crashes
  MaxPurges,  \* bound: deletions of an event's row by the cleanup worker
  None        \* no event, no response

Providers == {"Stripe", "Github", "Shopify"}

ASSUME ProviderAssumption == Provider \in [Events -> Providers]

ASSUME IngestBounds == MaxFaults \in Nat /\ MaxPurges \in Nat

Codes == {200, 400, 500, 503}

ASSUME IngestNone == None \notin Events /\ None \notin Codes

VARIABLES
  rows,       \* rows of webhook_events: unique key and the event stored
  hpc,        \* handler -> how far Receive has got
  hev,        \* handler -> the event it was called with
  code,       \* handler -> the status code it answers with
  announced,  \* events passed to eventSvc.Send and followed by pool.Notify
  faults,     \* faults so far
  acked,      \* history: events whose provider has seen a 200
  inserted,   \* history: event -> how often it was inserted
  purged      \* history: event -> how often its row was deleted

vars == <<rows, hpc, hev, code, announced, faults, acked, inserted, purged>>
handlerVars == <<hpc, hev, code>>
histVars == <<acked, inserted, purged>>

\* The key that Exists looks for.
ExistsKey(e) == <<Provider[e], e>>

\* The key that InsertWebhook stores.  The GitHub handler asks Exists for
\* X-Github-Delivery and inserts X-Github-Hook-Id.
InsertKey(e) ==
  IF Provider[e] = "Github" THEN <<"Github", Hook[e]>> ELSE <<Provider[e], e>>

Row(e) == [key |-> InsertKey(e), event |-> e]

Stored(key) == \E r \in rows : r.key = key

HandlersOK ==
  /\ hpc \in [Handlers -> {"idle", "validating", "checking", "inserting",
                            "announcing", "answering"}]
  /\ hev \in [Handlers -> Events \cup {None}]
  /\ code \in [Handlers -> Codes \cup {None}]
  /\ \A h \in Handlers : /\ hpc[h] = "answering" <=> code[h] # None
                         /\ hpc[h] = "idle" <=> hev[h] = None

TypeOK ==
  /\ HandlersOK
  /\ rows \subseteq {Row(e) : e \in Events}
  /\ announced \subseteq Events
  /\ faults \in Nat
  /\ acked \subseteq Events
  /\ inserted \in [Events -> Nat]
  /\ purged \in [Events -> Nat]

Init ==
  /\ rows = {}
  /\ hpc = [h \in Handlers |-> "idle"]
  /\ hev = [h \in Handlers |-> None]
  /\ code = [h \in Handlers |-> None]
  /\ announced = {}
  /\ faults = 0
  /\ acked = {}
  /\ inserted = [e \in Events |-> 0]
  /\ purged = [e \in Events |-> 0]

Fault == faults < MaxFaults /\ faults' = faults + 1

-----------------------------------------------------------------------------

Goto(h, label) == hpc' = [hpc EXCEPT ![h] = label] /\ UNCHANGED <<hev, code>>

\* w.WriteHeader and return.
Answer(h, c) ==
  /\ hpc' = [hpc EXCEPT ![h] = "answering"]
  /\ code' = [code EXCEPT ![h] = c]
  /\ UNCHANGED hev

\* A provider delivers an event, for the first time or again.
Deliver(h, e) ==
  /\ hpc[h] = "idle"
  /\ hpc' = [hpc EXCEPT ![h] = "validating"]
  /\ hev' = [hev EXCEPT ![h] = e]
  /\ UNCHANGED <<rows, code, announced, faults, histVars>>

\* The body is read, the headers are there and the signature is right.
Validate(h) ==
  /\ hpc[h] = "validating"
  /\ Goto(h, "checking")
  /\ UNCHANGED <<rows, announced, faults, histVars>>

\* The answer when the cached provider cannot be read: the Stripe and GitHub
\* handlers take every other error for a bad signature.
CacheErrorCode(p) == IF p = "Shopify" THEN 500 ELSE 400

\* The body does not arrive (503), the signing key cannot be decrypted (500), or
\* the cached provider cannot be read.
ValidateFails(h) ==
  /\ Fault
  /\ hpc[h] = "validating"
  /\ \E c \in {500, 503, CacheErrorCode(Provider[hev[h]])} : Answer(h, c)
  /\ UNCHANGED <<rows, announced, histVars>>

\* The duplicate check that precedes the insert.
Exists(h) ==
  /\ hpc[h] = "checking"
  /\ IF Stored(ExistsKey(hev[h])) THEN Answer(h, 200) ELSE Goto(h, "inserting")
  /\ UNCHANGED <<rows, announced, faults, histVars>>

ExistsFails(h) ==
  /\ Fault
  /\ hpc[h] = "checking"
  /\ Answer(h, 500)
  /\ UNCHANGED <<rows, announced, histVars>>

\* Mutant of InsertRow: a plain INSERT without the unique index.
InsertRow_NoConflict(e) ==
  /\ rows' = rows \cup {Row(e)}
  /\ inserted' = [inserted EXCEPT ![e] = @ + 1]

\* INSERT ... ON CONFLICT (provider_id, event_id) DO NOTHING takes effect.
InsertRow(e) ==
  IF Stored(InsertKey(e))
  THEN UNCHANGED <<rows, inserted>>
  ELSE /\ rows' = rows \cup {Row(e)}
       /\ inserted' = [inserted EXCEPT ![e] = @ + 1]

\* Mutant of InsertWebhook: ErrHookExists is an error like any other.
InsertWebhook_ConflictIsError(h) ==
  /\ hpc[h] = "inserting"
  /\ InsertRow(hev[h])
  /\ IF Stored(InsertKey(hev[h])) THEN Answer(h, 500) ELSE Goto(h, "announcing")
  /\ UNCHANGED <<announced, faults, acked, purged>>

\* Mutant of InsertWebhook: nobody is told of the new row.
InsertWebhook_Silent(h) ==
  /\ hpc[h] = "inserting"
  /\ InsertRow(hev[h])
  /\ Answer(h, 200)
  /\ UNCHANGED <<announced, faults, acked, purged>>

\* ErrHookExists is answered with 200, as the duplicate check is.
InsertWebhook(h) ==
  /\ hpc[h] = "inserting"
  /\ InsertRow(hev[h])
  /\ IF Stored(InsertKey(hev[h])) THEN Answer(h, 200) ELSE Goto(h, "announcing")
  /\ UNCHANGED <<announced, faults, acked, purged>>

\* Mutant of InsertFails: the provider is told 200.
InsertFails_Acked(h) ==
  /\ Fault
  /\ hpc[h] = "inserting"
  /\ InsertRow(hev[h]) \/ UNCHANGED <<rows, inserted>>
  /\ Answer(h, 200)
  /\ UNCHANGED <<announced, acked, purged>>

\* An error, or the context expires: the row may be there all the same.
InsertFails(h) ==
  /\ Fault
  /\ hpc[h] = "inserting"
  /\ InsertRow(hev[h]) \/ UNCHANGED <<rows, inserted>>
  /\ Answer(h, 500)
  /\ UNCHANGED <<announced, acked, purged>>

\* eventSvc.Send and pool.Notify, which do not block, and the answer.
Announce(h) ==
  /\ hpc[h] = "announcing"
  /\ announced' = announced \cup {hev[h]}
  /\ Answer(h, 200)
  /\ UNCHANGED <<rows, faults, histVars>>

Return(h) ==
  /\ hpc' = [hpc EXCEPT ![h] = "idle"]
  /\ hev' = [hev EXCEPT ![h] = None]
  /\ code' = [code EXCEPT ![h] = None]

\* The provider receives the answer.
Respond(h) ==
  /\ hpc[h] = "answering"
  /\ acked' = IF code[h] = 200 THEN acked \cup {hev[h]} ELSE acked
  /\ Return(h)
  /\ UNCHANGED <<rows, announced, faults, inserted, purged>>

\* The provider does not: it gave up waiting or the connection is gone.
RespondLost(h) ==
  /\ Fault
  /\ hpc[h] = "answering"
  /\ Return(h)
  /\ UNCHANGED <<rows, announced, histVars>>

\* The cleanup worker deletes the row of an event.
Purge(e) ==
  /\ Row(e) \in rows
  /\ purged[e] < MaxPurges
  /\ rows' = rows \ {Row(e)}
  /\ purged' = [purged EXCEPT ![e] = @ + 1]
  /\ UNCHANGED <<handlerVars, announced, faults, acked, inserted>>

Crash ==
  /\ Fault
  /\ hpc' = [h \in Handlers |-> "idle"]
  /\ hev' = [h \in Handlers |-> None]
  /\ code' = [h \in Handlers |-> None]
  /\ UNCHANGED <<rows, announced, histVars>>

HandlerStep(h) ==
  Validate(h) \/ Exists(h) \/ InsertWebhook(h) \/ Announce(h) \/ Respond(h)

Next ==
  \/ \E h \in Handlers :
       \/ \E e \in Events : Deliver(h, e)
       \/ HandlerStep(h)
       \/ ValidateFails(h) \/ ExistsFails(h) \/ InsertFails(h) \/ RespondLost(h)
  \/ \E e \in Events : Purge(e)
  \/ Crash

Spec == Init /\ [][Next]_vars

\* Handlers run on, and a provider delivers an event again and again: strong
\* fairness, because that all Handlers are busy is a limit of the model only.
Fairness ==
  /\ \A h \in Handlers : WF_vars(HandlerStep(h))
  /\ \A e \in Events : SF_vars(\E h \in Handlers : Deliver(h, e))

FairSpec == Spec /\ Fairness

-----------------------------------------------------------------------------

\* Redelivery, concurrent delivery and lost answers do not store an event a
\* second time while its row is there.
StoredOnce == \A e \in Events : inserted[e] <= 1 + purged[e]

\* A provider is told 200, and so stops delivering, only for an event that has
\* been stored.
AckedWasStored == \A e \in acked : inserted[e] > 0

\* Unless something failed, a stored event is announced to the dashboard and
\* to the workers by the handler that stored it, and not by a later one.
StoredIsAnnounced ==
  faults = 0 => \A e \in Events :
    inserted[e] > 0 =>
      e \in announced \/ \E h \in Handlers : hpc[h] = "announcing" /\ hev[h] = e

\* Every event that its provider keeps delivering is stored and acknowledged.
EventuallyStored == \A e \in Events : <>(inserted[e] > 0 /\ e \in acked)

=============================================================================
