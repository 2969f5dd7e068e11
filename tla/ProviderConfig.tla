--------------------------- MODULE ProviderConfig ---------------------------
(***************************************************************************)
(* A provider's configuration, kept twice: in the providers table and in   *)
(* the Redis cache from which handlers and workers read it.  Configure     *)
(* writes the table first and the cache second, without a lock over both.  *)
(* A starting process reads the table and writes the cache, two calls      *)
(* again, while statements of the process that died may still be on their  *)
(* way.                                                                    *)
(*                                                                         *)
(* Sources: internal/providers/{service,repository,cache}.go, configure of *)
(* internal/api/handler/provider.go.  App adds the process around it.      *)
(*                                                                         *)
(* A configuration is the request that set it: requests may ask for the    *)
(* same settings, but only their identity matters here.  Serialising to    *)
(* JSON loses no field of a provider.                                      *)
(***************************************************************************)
EXTENDS Naturals

CONSTANTS
  Requests,   \* PATCH /providers/{id} requests for one provider
  Initial,    \* the configuration the migrations insert
  MaxFaults,  \* bound: failing calls and deaths of the process
  None        \* no answer yet, no value in Redis

ASSUME ConfigAssumption == Initial \notin Requests /\ MaxFaults \in Nat

Configs == Requests \cup {Initial}
Answers == {200, 400, 500}

ASSUME ConfigNone == None \notin Answers \cup Configs

VARIABLES
  db,         \* the row of the providers table
  cache,      \* the value under the provider's key in Redis
  boot,       \* how far InitProviderCache has got in the present process
  loaded,     \* what it read
  rpc,        \* request -> how far Configure has got
  answer,     \* request -> the status code it was answered with
  strayRows,  \* UPDATEs of dead processes that the database has yet to run
  strayKeys,  \* SETs and MSETs of dead processes that Redis has yet to run; two
              \* that carry the same value count as one
  faults,     \* faults so far
  committed,  \* history: configurations the table has held
  disturbed   \* history: since the table was last loaded, two requests
              \* overlapped, one failed after it may have written, or a stray
              \* statement was run

stray == <<strayRows, strayKeys>>
configVars == <<db, cache, boot, loaded, rpc, answer, stray, faults, committed, disturbed>>

ConfigTypeOK ==
  /\ db \in Configs
  /\ cache \in Configs \cup {None}
  /\ boot \in {"down", "load", "up"}
  /\ loaded \in Configs
  /\ rpc \in [Requests -> {"new", "storing", "caching", "done"}]
  /\ answer \in [Requests -> Answers \cup {None}]
  /\ \A r \in Requests : answer[r] # None => rpc[r] = "done"
  /\ strayRows \subseteq Requests /\ strayKeys \subseteq Configs
  /\ faults \in Nat
  /\ committed \subseteq Configs
  /\ disturbed \in BOOLEAN

ConfigInit ==
  /\ db = Initial
  /\ cache = None
  /\ boot = "down"
  /\ loaded = Initial
  /\ rpc = [r \in Requests |-> "new"]
  /\ answer = [r \in Requests |-> None]
  /\ strayRows = {} /\ strayKeys = {}
  /\ faults = 0
  /\ committed = {Initial}
  /\ disturbed = FALSE

-----------------------------------------------------------------------------
(* Configure *)

Fault == faults < MaxFaults /\ faults' = faults + 1

\* The handler answers and returns.
Finish(r, code) ==
  /\ rpc' = [rpc EXCEPT ![r] = "done"]
  /\ answer' = [answer EXCEPT ![r] = code]

\* The checks of Configure: a request with an empty or out-of-range field (400),
\* or whose id or secret cannot be used (500), is refused before anything is
\* written.
Check(r) ==
  /\ boot = "up" /\ rpc[r] = "new"
  /\ \/ \E code \in {400, 500} : Finish(r, code)
     \/ rpc' = [rpc EXCEPT ![r] = "storing"] /\ UNCHANGED answer
  /\ UNCHANGED <<db, cache, boot, loaded, stray, faults, committed, disturbed>>

Commit(r) ==
  /\ db' = r
  /\ committed' = committed \cup {r}

Overlaps(r) == \E q \in Requests \ {r} : rpc[q] = "caching"

\* Mutant of StoreRow: the cache is written before the table.
StoreRow_CacheFirst(r) ==
  /\ boot = "up" /\ rpc[r] = "storing"
  /\ cache' = r
  /\ rpc' = [rpc EXCEPT ![r] = "caching"]
  /\ disturbed' = (disturbed \/ Overlaps(r))
  /\ UNCHANGED <<db, boot, loaded, answer, stray, faults, committed>>

\* ProviderRepo.configure: UPDATE providers ... RETURNING.
StoreRow(r) ==
  /\ boot = "up" /\ rpc[r] = "storing"
  /\ Commit(r)
  /\ rpc' = [rpc EXCEPT ![r] = "caching"]
  /\ disturbed' = (disturbed \/ Overlaps(r))
  /\ UNCHANGED <<cache, boot, loaded, answer, stray, faults>>

\* The UPDATE fails, or it is committed and its answer is lost.
StoreRowFails(r) ==
  /\ Fault
  /\ boot = "up" /\ rpc[r] = "storing"
  /\ Commit(r) \/ UNCHANGED <<db, committed>>
  /\ Finish(r, 500)
  /\ disturbed' = TRUE
  /\ UNCHANGED <<cache, boot, loaded, stray>>

\* Cache.Set with the row this request got back, however old it is by now.
SetCache(r) ==
  /\ boot = "up" /\ rpc[r] = "caching"
  /\ cache' = r
  /\ Finish(r, 200)
  /\ UNCHANGED <<db, boot, loaded, stray, faults, committed, disturbed>>

\* Redis does not answer: the request fails and the table keeps its value.
SetCacheFails(r) ==
  /\ Fault
  /\ boot = "up" /\ rpc[r] = "caching"
  /\ cache' \in {cache, r}
  /\ Finish(r, 500)
  /\ disturbed' = TRUE
  /\ UNCHANGED <<db, boot, loaded, stray, committed>>

-----------------------------------------------------------------------------
(* InitProviderCache, and the end of the process *)

\* getAll reads the table.
Load ==
  /\ boot = "down"
  /\ loaded' = db
  /\ boot' = "load"
  /\ disturbed' = FALSE
  /\ UNCHANGED <<db, cache, rpc, answer, stray, faults, committed>>

\* Mutant of Publish: keys that Redis has already are kept (MSETNX).
Publish_KeepsKeys ==
  /\ boot = "load"
  /\ cache' = IF cache = None THEN loaded ELSE cache
  /\ boot' = "up"
  /\ UNCHANGED <<db, loaded, rpc, answer, stray, faults, committed, disturbed>>

\* Mset overwrites whatever Redis has kept.
Publish ==
  /\ boot = "load"
  /\ cache' = loaded
  /\ boot' = "up"
  /\ UNCHANGED <<db, loaded, rpc, answer, stray, faults, committed, disturbed>>

\* Mset fails, and may have been executed or be executed later; New panics.
PublishFails ==
  /\ boot = "load"
  /\ cache' \in {cache, loaded}
  /\ strayKeys' \in {strayKeys, strayKeys \cup {loaded}}
  /\ boot' = "down"
  /\ UNCHANGED <<db, loaded, rpc, answer, strayRows, faults, committed, disturbed>>

InFlight(label) == {r \in Requests : rpc[r] = label}

\* The values a start or a request may have sent to Redis.
KeysSent == InFlight("caching") \cup {c \in {loaded} : boot = "load"}

\* The process dies, while it starts or with its requests; any of their statements
\* that were sent may still be run.
Die ==
  /\ Fault
  /\ boot' = "down"
  /\ rpc' = [r \in Requests |-> IF rpc[r] = "new" THEN "new" ELSE "done"]
  /\ \E S \in SUBSET InFlight("storing") : strayRows' = strayRows \cup S
  /\ \E S \in SUBSET KeysSent : strayKeys' = strayKeys \cup S
  /\ UNCHANGED <<db, cache, loaded, answer, committed, disturbed>>

\* A stray statement is run.
LandRow(r) ==
  /\ r \in strayRows
  /\ Commit(r)
  /\ strayRows' = strayRows \ {r}
  /\ disturbed' = (disturbed \/ boot # "down")
  /\ UNCHANGED <<cache, boot, loaded, rpc, answer, strayKeys, faults>>

LandKey(c) ==
  /\ c \in strayKeys
  /\ cache' = c
  /\ strayKeys' = strayKeys \ {c}
  /\ disturbed' = (disturbed \/ boot = "up")
  /\ UNCHANGED <<db, boot, loaded, rpc, answer, strayRows, faults, committed>>

ConfigNext ==
  \/ \E r \in Requests : \/ Check(r)
                         \/ StoreRow(r) \/ StoreRowFails(r)
                         \/ SetCache(r) \/ SetCacheFails(r)
                         \/ LandRow(r)
  \/ \E c \in Configs : LandKey(c)
  \/ Load \/ Publish \/ PublishFails
  \/ Die

ConfigSpec == ConfigInit /\ [][ConfigNext]_configVars

=============================================================================
