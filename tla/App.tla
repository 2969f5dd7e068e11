-------------------------------- MODULE App --------------------------------
(***************************************************************************)
(* The process: New brings the parts up one after the other and panics if  *)
(* PostgreSQL or Redis does not answer, the container starts it again, the *)
(* workers share the connection pool with everybody else, and GET /health  *)
(* asks both services.  The provider cache is filled on the way up.        *)
(*                                                                         *)
(* Sources: internal/app/app.go, internal/health/*.go,                     *)
(* internal/api/handler/health.go, internal/worker/pool.go,                *)
(* internal/config/db.go, internal/cache/cache.go, cmd/api/main.go.        *)
(*                                                                         *)
(* The environment variables are complete; without one of them New panics  *)
(* on every start.                                                         *)
(***************************************************************************)
EXTENDS ProviderConfig

CONSTANTS
  CPUs,       \* values of runtime.NumCPU
  MaxOutages  \* bound: outages of a service and pings that take too long

ASSUME AppAssumption ==
  /\ CPUs \subseteq Nat \ {0}
  /\ MaxOutages \in Nat
  /\ None \notin {"healthy", "unhealthy"}

-----------------------------------------------------------------------------
(* ComputeResources, with the constants of resources.go and pool.go *)

Larger(a, b) == IF a > b THEN a ELSE b

clamp(val, lo, hi) == IF val < lo THEN lo ELSE IF val > hi THEN hi ELSE val

minReservedConns == 4

DBMaxConns(numCPU) == Larger(numCPU * 2, 10)

ComputeResources(numCPU) ==
  LET budget == Larger(DBMaxConns(numCPU) - minReservedConns, 4)
      queueWorkers == Larger(2, (budget * 2) \div 3)
  IN  [QueueWorkers |-> queueWorkers,
       RetryWorkers |-> Larger(1, budget - queueWorkers),
       QueueBatch |-> clamp(numCPU * 6, 20, 100),
       RetryBatch |-> clamp(numCPU * 3, 10, 50),
       DBMaxConns |-> DBMaxConns(numCPU)]

TotalQueueWorkers == 8
TotalRetryWorkers == 4

\* The goroutines NewWorkerPool starts, with the replay and cleanup workers.
\* Each of them has at most one connection at a time.
PoolWorkers == TotalQueueWorkers + TotalRetryWorkers + 2

-----------------------------------------------------------------------------

Services == {"postgres", "redis"}

VARIABLES
  cpus,      \* runtime.NumCPU of the machine
  up,        \* the services that answer
  outages,   \* outages so far
  stage,     \* how far New and Run have got
  working,   \* connections that workers hold
  probing,   \* a GET /health is being handled
  checks,    \* service -> the result of its check, None before
  answered,  \* history: services that answered at some instant of the probe
  trouble    \* history: at some instant of it a service was out, the pool was
             \* used up, or a ping took too long

health == <<probing, checks, answered, trouble>>
appVars == <<cpus, up, outages, stage, working, health>>
vars == <<configVars, appVars>>

Stages == {"down", "database", "redis", "providers", "cache", "workers", "serving"}

\* Workers run, and they read the cache.
Reading == stage \in {"workers", "serving"}

TypeOK ==
  /\ ConfigTypeOK
  /\ cpus \in CPUs
  /\ up \subseteq Services
  /\ outages \in 0 .. MaxOutages
  /\ stage \in Stages
  /\ working \in 0 .. PoolWorkers /\ working <= DBMaxConns(cpus)
  /\ working > 0 => Reading
  /\ probing \in BOOLEAN /\ (probing => stage = "serving")
  /\ checks \in [Services -> {None, "healthy", "unhealthy"}]
  /\ answered \subseteq Services
  /\ trouble \in BOOLEAN

Init ==
  /\ ConfigInit
  /\ cpus \in CPUs
  /\ up \in SUBSET Services
  /\ outages = 0
  /\ stage = "down"
  /\ working = 0
  /\ probing = FALSE
  /\ checks = [s \in Services |-> None]
  /\ answered = {}
  /\ trouble = FALSE

\* What an instant of the probe has seen, noted when one of its causes changes.
Witness ==
  /\ answered' = IF probing THEN answered \cup up' ELSE answered
  /\ trouble' = IF probing THEN trouble \/ up' # Services \/ working' = DBMaxConns(cpus) ELSE trouble
  /\ UNCHANGED <<probing, checks>>

Forget ==
  /\ checks' = [s \in Services |-> None]
  /\ answered' = {} /\ trouble' = FALSE

-----------------------------------------------------------------------------
(* PostgreSQL and Redis *)

Outage(s) ==
  /\ s \in up
  /\ outages < MaxOutages
  /\ up' = up \ {s}
  /\ outages' = outages + 1
  /\ UNCHANGED <<configVars, cpus, stage, working>>
  /\ Witness

Recover(s) ==
  /\ s \notin up
  /\ up' = up \cup {s}
  /\ UNCHANGED <<configVars, cpus, outages, stage, working>>
  /\ Witness

-----------------------------------------------------------------------------
(* New and Run *)

\* The services a stage needs; without them New panics.
Needs ==
  {s \in Services : \/ s = "postgres" /\ stage \in {"database", "providers"}
                    \/ s = "redis" /\ stage \in {"redis", "cache"}}

Advance(from, to) ==
  /\ stage = from
  /\ Needs \subseteq up
  /\ stage' = to
  /\ UNCHANGED <<cpus, up, outages, working, health>>

\* The container starts the process.
Start == Advance("down", "database") /\ UNCHANGED configVars

\* NewPG and Ping.
ConnectDatabase == Advance("database", "redis") /\ UNCHANGED configVars

\* InitRedisCache.
ConnectRedis == Advance("redis", "providers") /\ UNCHANGED configVars

LoadProviders == Advance("providers", "cache") /\ Load

\* InitProviderCache is through; the hub and the workers start.
PublishProviders == Advance("cache", "workers") /\ Publish

\* Mutant of Listen: New calls eventSvc.Start without go, and never returns.
Listen_Blocked == FALSE

\* New returns, and Run listens.
Listen == Advance("workers", "serving") /\ UNCHANGED configVars

\* A service that is needed does not answer, and New panics.
Panic ==
  /\ ~(Needs \subseteq up)
  /\ stage' = "down"
  /\ IF stage = "cache" THEN PublishFails ELSE UNCHANGED configVars
  /\ UNCHANGED <<cpus, up, outages, working, health>>

\* The process is killed, or Run ends it with Fatal: nothing is cancelled or
\* waited for.
Exit ==
  /\ stage # "down"
  /\ Die
  /\ stage' = "down"
  /\ working' = 0
  /\ probing' = FALSE /\ Forget
  /\ UNCHANGED <<cpus, up, outages>>

-----------------------------------------------------------------------------
(* The connection pool *)

\* A worker's statement or transaction begins.
Acquire ==
  /\ Reading
  /\ "postgres" \in up
  /\ working < PoolWorkers /\ working < DBMaxConns(cpus)
  /\ working' = working + 1
  /\ UNCHANGED <<configVars, cpus, up, outages, stage>>
  /\ Witness

\* It ends; a worker that has a connection does not wait for another.
Release ==
  /\ working > 0
  /\ working' = working - 1
  /\ UNCHANGED <<configVars, cpus, up, outages, stage>>
  /\ Witness

\* Configure goes on with a connection, and with Redis.
Configure(r) ==
  /\ stage = "serving"
  /\ \/ Check(r)
     \/ "postgres" \in up /\ working < DBMaxConns(cpus) /\ StoreRow(r)
     \/ StoreRowFails(r)
     \/ "redis" \in up /\ SetCache(r)
     \/ SetCacheFails(r)
  /\ UNCHANGED appVars

\* The services run what a dead process has sent.
Land ==
  /\ \/ "postgres" \in up /\ \E r \in Requests : LandRow(r)
     \/ "redis" \in up /\ \E c \in Configs : LandKey(c)
  /\ UNCHANGED appVars

-----------------------------------------------------------------------------
(* GET /health *)

\* getHealth starts one goroutine per service.
Probe ==
  /\ stage = "serving" /\ ~probing
  /\ probing' = TRUE
  /\ answered' = up
  /\ trouble' = (up # Services \/ working = DBMaxConns(cpus))
  /\ UNCHANGED <<configVars, cpus, up, outages, stage, working, checks>>

\* checkDB needs a connection of the pool, checkRedis has a client of its own.
CanPing(s) == s \in up /\ (s = "postgres" => working < DBMaxConns(cpus))

\* checkDB and checkRedis: the ping answers within checkTimeout or it does not.
Checked(s) ==
  /\ probing /\ checks[s] = None
  /\ \/ /\ checks' = [checks EXCEPT ![s] = IF CanPing(s) THEN "healthy" ELSE "unhealthy"]
        /\ UNCHANGED <<outages, trouble>>
     \/ /\ checks' = [checks EXCEPT ![s] = "unhealthy"]
        /\ outages < MaxOutages /\ outages' = outages + 1
        /\ trouble' = TRUE

CheckService(s) ==
  /\ Checked(s)
  /\ UNCHANGED <<configVars, cpus, up, stage, working, probing, answered>>

\* Mutant of Joined: wg.Add counts one goroutine too many.
Joined_Never == FALSE

\* wg.Wait returns.
Joined == \A s \in Services : checks[s] # None

\* Mutant of Status: one healthy service is enough.
Status_Any == IF \A s \in Services : checks[s] # "healthy" THEN 503 ELSE 200

\* The status code of the answer.
Status == IF \E s \in Services : checks[s] # "healthy" THEN 503 ELSE 200

\* getHealth answers with Status.
Reply ==
  /\ probing /\ Joined
  /\ probing' = FALSE /\ Forget
  /\ UNCHANGED <<configVars, cpus, up, outages, stage, working>>

-----------------------------------------------------------------------------

Boot ==
  \/ Start \/ ConnectDatabase \/ ConnectRedis \/ LoadProviders \/ PublishProviders
  \/ Listen \/ Panic

Next ==
  \/ \E s \in Services : Outage(s) \/ Recover(s) \/ CheckService(s)
  \/ Boot \/ Exit
  \/ Acquire \/ Release
  \/ \E r \in Requests : Configure(r)
  \/ Land
  \/ Probe \/ Reply

\* The container restarts the process whenever it ends, and a probe's two
\* goroutines end by their timeouts.  Services owe nothing.
Fairness ==
  /\ WF_vars(Boot)
  /\ WF_vars(Reply) /\ \A s \in Services : WF_vars(CheckService(s))

Spec == Init /\ [][Next]_vars /\ Fairness

-----------------------------------------------------------------------------

\* Workers and handlers never miss a configuration in the cache and never read
\* one that the table has not held: a start publishes what it has read before
\* anybody reads, and Configure only what it has committed.
CachedWasCommitted == Reading => cache \in committed

\* What a worker or handler reads from the cache is what the table holds,
\* however the process came up: the two disagree only while a request is between
\* its writes, or if requests overlapped, one failed, or a statement of a dead
\* process came late since InitProviderCache read the table.
CacheAgrees ==
  Reading /\ ~disturbed /\ (\A r \in Requests : rpc[r] # "caching") => cache = db

\* GetHealthCheck answers 200 only if each service answered at some instant of
\* the request, not necessarily the same one, and 503 only if at some instant one
\* of them was out, slow, or out of reach because workers held the whole pool.
HealthHonest ==
  probing /\ Joined =>
    /\ Status = 200 => answered = Services
    /\ Status = 503 => trouble

\* Once PostgreSQL and Redis stay up, the process serves for good, whatever it
\* panicked for before.
ServingResumes == <>[](up = Services) => <>[](stage = "serving")

\* Every GET /health that starts is answered, unless the process dies.
ProbeEnds == probing ~> ~probing

=============================================================================
