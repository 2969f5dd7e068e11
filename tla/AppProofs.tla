----------------------------- MODULE AppProofs -----------------------------
(***************************************************************************)
(* For every machine, any number of requests and any outages: whenever the *)
(* cache is read it holds a committed configuration, and it is in step     *)
(* with the table unless requests overlapped or failed, or a statement of  *)
(* a dead process came late, since the table was loaded; health answers    *)
(* are honest, and ComputeResources stays within the pool it computes.     *)
(***************************************************************************)
EXTENDS App, TLAPS

-----------------------------------------------------------------------------
(* The provider cache *)

\* Requests are in flight only while the process is up.
Settled == \A r \in Requests : rpc[r] \in {"storing", "caching"} => boot = "up"

\* Without a disturbance a starting process publishes what the table holds, at
\* most one request is between its two writes, and it is the one whose
\* configuration the table holds.
InStep ==
  ~disturbed =>
    /\ boot = "load" => loaded = db
    /\ \A q, r \in Requests : rpc[q] = "caching" /\ rpc[r] = "caching" => q = r
    /\ \A r \in Requests : rpc[r] = "caching" => db = r
    /\ boot = "up" /\ (\A r \in Requests : rpc[r] # "caching") => cache = db

\* Whatever may yet reach the cache has been committed.
Sourced ==
  /\ db \in committed
  /\ boot # "down" => loaded \in committed
  /\ boot = "up" => cache \in committed
  /\ \A r \in Requests : rpc[r] = "caching" => r \in committed
  /\ strayKeys \subseteq committed

ConfigInv == ConfigTypeOK /\ Settled /\ InStep /\ Sourced

\* Nothing is loaded and no request has begun.
LEMMA ConfigInvInit == ConfigInit => ConfigInv
<1> SUFFICES ASSUME ConfigInit PROVE ConfigInv
  OBVIOUS
<1>1. ConfigTypeOK
  BY DEF ConfigInit, ConfigTypeOK, Configs
<1>2. InStep
  BY DEF ConfigInit, InStep
<1>3. Settled /\ Sourced
  BY DEF ConfigInit, Settled, Sourced
<1>4. QED BY <1>1, <1>2, <1>3 DEF ConfigInv

\* Every step of every request, of a start and of a dead process preserves the
\* invariant.
LEMMA ConfigInvNext == ConfigInv /\ [ConfigNext]_configVars => ConfigInv'
<1> SUFFICES ASSUME ConfigInv, [ConfigNext]_configVars PROVE ConfigInv'
  OBVIOUS
<1> USE DEF ConfigInv, stray
<1>1. ASSUME NEW r \in Requests, Check(r) PROVE ConfigInv'
  <2>1. ConfigTypeOK'
    BY <1>1 DEF Check, Finish, ConfigTypeOK, Configs, Answers
  <2>2. InStep'
    BY <1>1 DEF Check, Finish, ConfigTypeOK, Settled, InStep
  <2>3. Settled'
    BY <1>1 DEF Check, Finish, ConfigTypeOK, Settled
  <2>4. Sourced'
    BY <1>1 DEF Check, Finish, ConfigTypeOK, Sourced
  <2>5. QED BY <2>1, <2>2, <2>3, <2>4
<1>2. ASSUME NEW r \in Requests, StoreRow(r) PROVE ConfigInv'
  <2>1. ConfigTypeOK'
    <3>1. disturbed' \in BOOLEAN
      BY <1>2 DEF StoreRow
    <3>2. QED BY <1>2, <3>1 DEF StoreRow, Commit, ConfigTypeOK, Configs
  <2>2. InStep'
    <3>1. SUFFICES ASSUME ~disturbed' PROVE InStep'
      BY DEF InStep
    <3>2. \A q \in Requests \ {r} : rpc[q] # "caching"
      BY <1>2, <3>1 DEF StoreRow, Overlaps
    <3>3. \A q \in Requests : rpc'[q] = "caching" <=> q = r
      BY <1>2, <3>2 DEF StoreRow, ConfigTypeOK
    <3>4. db' = r /\ boot' = "up"
      BY <1>2 DEF StoreRow, Commit
    <3>5. QED BY <3>3, <3>4 DEF InStep
  <2>3. Settled'
    BY <1>2 DEF StoreRow, Commit, ConfigTypeOK, Settled
  <2>4. Sourced'
    BY <1>2 DEF StoreRow, Commit, ConfigTypeOK, Sourced
  <2>5. QED BY <2>1, <2>2, <2>3, <2>4
<1>3. ASSUME NEW r \in Requests, StoreRowFails(r) PROVE ConfigInv'
  <2>1. ConfigTypeOK'
    BY <1>3 DEF StoreRowFails, Commit, Finish, Fault, ConfigTypeOK, Configs, Answers
  <2>2. InStep'
    BY <1>3 DEF StoreRowFails, Commit, Finish, Fault, ConfigTypeOK, Settled, InStep
  <2>3. Settled'
    BY <1>3 DEF StoreRowFails, Commit, Finish, Fault, ConfigTypeOK, Settled
  <2>4. Sourced'
    BY <1>3 DEF StoreRowFails, Commit, Finish, Fault, ConfigTypeOK, Sourced
  <2>5. QED BY <2>1, <2>2, <2>3, <2>4
<1>4. ASSUME NEW r \in Requests, SetCache(r) PROVE ConfigInv'
  <2>1. ConfigTypeOK'
    BY <1>4 DEF SetCache, Finish, ConfigTypeOK, Configs, Answers
  <2>2. InStep'
    <3>1. SUFFICES ASSUME ~disturbed PROVE InStep'
      BY <1>4 DEF SetCache, InStep
    <3>2. \A q \in Requests : rpc[q] = "caching" => q = r
      BY <1>4, <3>1 DEF SetCache, InStep
    <3>3. \A q \in Requests : rpc'[q] # "caching"
      BY <1>4, <3>2 DEF SetCache, Finish, ConfigTypeOK
    <3>4. db' = r /\ cache' = r /\ boot' = "up"
      BY <1>4, <3>1 DEF SetCache, InStep
    <3>5. QED BY <3>3, <3>4 DEF InStep
  <2>3. Settled'
    BY <1>4 DEF SetCache, Finish, ConfigTypeOK, Settled
  <2>4. Sourced'
    BY <1>4 DEF SetCache, Finish, ConfigTypeOK, Sourced
  <2>5. QED BY <2>1, <2>2, <2>3, <2>4
<1>5. ASSUME NEW r \in Requests, SetCacheFails(r) PROVE ConfigInv'
  <2>1. ConfigTypeOK'
    BY <1>5 DEF SetCacheFails, Finish, Fault, ConfigTypeOK, Configs, Answers
  <2>2. InStep'
    BY <1>5 DEF SetCacheFails, Finish, Fault, ConfigTypeOK, Settled, InStep
  <2>3. Settled'
    BY <1>5 DEF SetCacheFails, Finish, Fault, ConfigTypeOK, Settled
  <2>4. Sourced'
    BY <1>5 DEF SetCacheFails, Finish, Fault, ConfigTypeOK, Sourced
  <2>5. QED BY <2>1, <2>2, <2>3, <2>4
<1>6. ASSUME NEW r \in Requests, LandRow(r) PROVE ConfigInv'
  <2>1. ConfigTypeOK'
    <3>1. disturbed' \in BOOLEAN
      BY <1>6 DEF LandRow
    <3>2. QED BY <1>6, <3>1 DEF LandRow, Commit, ConfigTypeOK, Configs
  <2>2. InStep'
    <3>1. SUFFICES ASSUME ~disturbed' PROVE InStep'
      BY DEF InStep
    <3>2. ~disturbed /\ boot = "down"
      BY <1>6, <3>1 DEF LandRow
    <3>3. \A q \in Requests : rpc'[q] # "caching"
      BY <1>6, <3>2 DEF LandRow, Settled
    <3>4. QED BY <1>6, <3>2, <3>3 DEF LandRow, InStep
  <2>3. Settled'
    BY <1>6 DEF LandRow, Commit, ConfigTypeOK, Settled
  <2>4. Sourced'
    BY <1>6 DEF LandRow, Commit, ConfigTypeOK, Sourced
  <2>5. QED BY <2>1, <2>2, <2>3, <2>4
<1>7. ASSUME NEW r \in Configs, LandKey(r) PROVE ConfigInv'
  <2>1. ConfigTypeOK'
    <3>1. disturbed' \in BOOLEAN
      BY <1>7 DEF LandKey
    <3>2. QED BY <1>7, <3>1 DEF LandKey, ConfigTypeOK, Configs
  <2>2. InStep'
    <3>1. SUFFICES ASSUME ~disturbed' PROVE InStep'
      BY DEF InStep
    <3>2. ~disturbed /\ boot # "up"
      BY <1>7, <3>1 DEF LandKey
    <3>3. \A q \in Requests : rpc'[q] # "caching"
      BY <1>7, <3>2 DEF LandKey, Settled
    <3>4. QED BY <1>7, <3>2, <3>3 DEF LandKey, InStep
  <2>3. Settled'
    BY <1>7 DEF LandKey, ConfigTypeOK, Settled
  <2>4. Sourced'
    BY <1>7 DEF LandKey, ConfigTypeOK, Sourced
  <2>5. QED BY <2>1, <2>2, <2>3, <2>4
<1>8. CASE Load
  <2>1. ConfigTypeOK'
    BY <1>8 DEF Load, ConfigTypeOK, Configs, Answers
  <2>2. InStep'
    BY <1>8 DEF Load, ConfigTypeOK, Settled, InStep
  <2>3. Settled'
    BY <1>8 DEF Load, ConfigTypeOK, Settled
  <2>4. Sourced'
    BY <1>8 DEF Load, ConfigTypeOK, Sourced
  <2>5. QED BY <2>1, <2>2, <2>3, <2>4
<1>9. CASE Publish
  <2>1. ConfigTypeOK'
    BY <1>9 DEF Publish, ConfigTypeOK, Configs, Answers
  <2>2. InStep'
    BY <1>9 DEF Publish, ConfigTypeOK, Settled, InStep
  <2>3. Settled'
    BY <1>9 DEF Publish, ConfigTypeOK, Settled
  <2>4. Sourced'
    BY <1>9 DEF Publish, ConfigTypeOK, Sourced
  <2>5. QED BY <2>1, <2>2, <2>3, <2>4
<1>10. CASE PublishFails
  <2>1. ConfigTypeOK'
    BY <1>10 DEF PublishFails, ConfigTypeOK, Configs, Answers
  <2>2. InStep'
    BY <1>10 DEF PublishFails, ConfigTypeOK, Settled, InStep
  <2>3. Settled'
    BY <1>10 DEF PublishFails, ConfigTypeOK, Settled
  <2>4. Sourced'
    BY <1>10 DEF PublishFails, ConfigTypeOK, Sourced
  <2>5. QED BY <2>1, <2>2, <2>3, <2>4
<1>11. CASE Die
  <2>0. \A r \in Requests : rpc'[r] \in {"new", "done"} /\ (rpc[r] = "done" => rpc'[r] = "done")
    BY <1>11 DEF Die, ConfigTypeOK
  <2>1. ConfigTypeOK'
    <3>1. rpc' \in [Requests -> {"new", "storing", "caching", "done"}]
      BY <1>11 DEF Die
    <3>2. strayRows' \subseteq Requests /\ strayKeys' \subseteq Configs
      BY <1>11 DEF Die, InFlight, KeysSent, ConfigTypeOK, Configs
    <3>3. faults' \in Nat
      BY <1>11 DEF Die, Fault, ConfigTypeOK
    <3>4. QED BY <1>11, <2>0, <3>1, <3>2, <3>3 DEF Die, ConfigTypeOK
  <2>2. InStep'
    BY <1>11, <2>0 DEF Die, InStep
  <2>3. Settled'
    BY <1>11, <2>0 DEF Die, Fault, InFlight, ConfigTypeOK, Settled
  <2>4. Sourced'
    BY <1>11, <2>0 DEF Die, Fault, InFlight, KeysSent, ConfigTypeOK, Sourced
  <2>5. QED BY <2>1, <2>2, <2>3, <2>4
<1>12. CASE UNCHANGED configVars
  BY <1>12 DEF configVars, stray, ConfigTypeOK, Settled, InStep, Sourced
<1>13. QED BY <1>1, <1>2, <1>3, <1>4, <1>5, <1>6, <1>7, <1>8, <1>9, <1>10, <1>11, <1>12 DEF ConfigNext

-----------------------------------------------------------------------------
(* Its place in the process *)

\* A stage of New is what InitProviderCache has done so far.
Linked ==
  /\ stage \in {"down", "database", "redis", "providers"} => boot = "down"
  /\ stage = "cache" => boot = "load"
  /\ Reading => boot = "up"

\* What a probe has noted explains the checks it has made.
ProbeInv ==
  IF ~probing THEN \A s \in Services : checks[s] = None ELSE
    /\ up \subseteq answered
    /\ up # Services \/ working = DBMaxConns(cpus) => trouble
    /\ \A s \in Services : checks[s] = "healthy" => s \in answered
    /\ \A s \in Services : checks[s] = "unhealthy" => trouble

AppInv == ConfigInv /\ TypeOK /\ Linked /\ ProbeInv

-----------------------------------------------------------------------------
(* ComputeResources *)

\* On every machine the workers ComputeResources asks for and the connections it
\* reserves fit into the pool it asks for, there are workers of both kinds, and
\* the batch sizes are within their limits.
THEOREM ResourcesFit ==
  ASSUME NEW n \in Nat \ {0}
  PROVE  LET res == ComputeResources(n)
         IN  /\ res.QueueWorkers + res.RetryWorkers + minReservedConns <= res.DBMaxConns
             /\ res.QueueWorkers >= 2 /\ res.RetryWorkers >= 1
             /\ res.QueueBatch \in 20 .. 100 /\ res.RetryBatch \in 10 .. 50
<1> DEFINE budget == Larger(DBMaxConns(n) - minReservedConns, 4)
<1> DEFINE queue == Larger(2, (budget * 2) \div 3)
<1>1. /\ DBMaxConns(n) \in Nat /\ DBMaxConns(n) >= 10
      /\ budget \in Nat /\ budget = DBMaxConns(n) - 4 /\ budget >= 6
  BY DEF DBMaxConns, Larger, minReservedConns
<1>2. queue \in Nat /\ queue >= 2 /\ queue + 1 <= budget
  <2> HIDE DEF budget
  <2>1. (budget * 2) \div 3 \in Nat /\ (budget * 2) \div 3 >= 2 /\ (budget * 2) \div 3 + 1 <= budget
    BY <1>1
  <2>2. QED BY <2>1 DEF Larger
<1>3. Larger(1, budget - queue) = budget - queue
  <2> HIDE DEF budget, queue
  <2>1. QED BY <1>1, <1>2 DEF Larger
<1>4. clamp(n * 6, 20, 100) \in 20 .. 100 /\ clamp(n * 3, 10, 50) \in 10 .. 50
  BY DEF clamp
<1>5. ComputeResources(n) =
        [QueueWorkers |-> queue, RetryWorkers |-> budget - queue,
         QueueBatch |-> clamp(n * 6, 20, 100), RetryBatch |-> clamp(n * 3, 10, 50),
         DBMaxConns |-> DBMaxConns(n)]
  BY <1>3 DEF ComputeResources
<1>6. QED
  <2> HIDE DEF budget, queue
  <2>1. queue + (budget - queue) + minReservedConns <= DBMaxConns(n)
    BY <1>1, <1>2 DEF minReservedConns
  <2>2. budget - queue >= 1
    BY <1>1, <1>2
  <2>3. QED BY <1>2, <1>4, <1>5, <2>1, <2>2

-----------------------------------------------------------------------------
(* The process *)

\* Every step of the process is one of the provider cache or leaves it alone.
LEMMA StepsConfig == [Next]_vars => [ConfigNext]_configVars
<1> SUFFICES ASSUME [Next]_vars PROVE [ConfigNext]_configVars
  OBVIOUS
<1>1. ASSUME NEW s \in Services, Outage(s) \/ Recover(s) \/ CheckService(s)
      PROVE  UNCHANGED configVars
  BY <1>1 DEF Outage, Recover, CheckService
<1>2. CASE Boot
  BY <1>2 DEF Boot, Start, ConnectDatabase, ConnectRedis, LoadProviders, PublishProviders,
              Listen, Panic, ConfigNext
<1>3. CASE Exit
  BY <1>3 DEF Exit, ConfigNext
<1>4. CASE Acquire \/ Release \/ Probe \/ Reply
  BY <1>4 DEF Acquire, Release, Probe, Reply
<1>5. ASSUME Land \/ \E r \in Requests : Configure(r)
      PROVE  ConfigNext
  BY <1>5 DEF Configure, Land, ConfigNext
<1>6. CASE UNCHANGED vars
  BY <1>6 DEF vars
<1>7. QED BY <1>1, <1>2, <1>3, <1>4, <1>5, <1>6 DEF Next

\* The process is down and nothing is probed.
LEMMA AppInit == Init => AppInv
<1> SUFFICES ASSUME Init PROVE AppInv
  OBVIOUS
<1>1. ConfigInv
  BY ConfigInvInit DEF Init
<1>2. TypeOK
  <2>1. DBMaxConns(cpus) \in Nat /\ 0 \in 0 .. MaxOutages /\ 0 \in 0 .. PoolWorkers
    BY AppAssumption DEF Init, DBMaxConns, Larger, PoolWorkers, TotalQueueWorkers, TotalRetryWorkers
  <2>2. up \subseteq Services /\ answered \subseteq Services /\ stage \in Stages
    BY DEF Init, Stages
  <2>3. working \in 0 .. PoolWorkers /\ working <= DBMaxConns(cpus) /\ ~(working > 0)
    BY <2>1 DEF Init
  <2>4. probing \in BOOLEAN /\ trouble \in BOOLEAN /\ ~probing
    BY DEF Init
  <2>5. QED BY <1>1, <2>1, <2>2, <2>3, <2>4 DEF Init, TypeOK, ConfigInv
<1>3. Linked /\ ProbeInv
  BY DEF Init, ConfigInit, Linked, Reading, ProbeInv
<1>4. QED BY <1>1, <1>2, <1>3 DEF AppInv

\* Every step of the process, the services, the pool and a probe preserves the
\* invariant.
LEMMA AppNext == AppInv /\ [Next]_vars => AppInv'
<1> SUFFICES ASSUME AppInv, [Next]_vars PROVE AppInv'
  OBVIOUS
<1>0. ConfigInv' /\ ConfigTypeOK'
  BY StepsConfig, ConfigInvNext DEF AppInv, ConfigInv
<1> USE DEF AppInv
<1>c. cpus' = cpus /\ DBMaxConns(cpus)' = DBMaxConns(cpus)
  <2>1. cpus' = cpus
    BY DEF Next, Outage, Recover, CheckService, Boot, Start, ConnectDatabase, ConnectRedis,
       LoadProviders, PublishProviders, Listen, Panic, Advance, Exit, Acquire, Release,
       Configure, Land, Probe, Reply, vars, appVars
  <2>2. QED BY <2>1 DEF DBMaxConns
<1>d. DBMaxConns(cpus) \in Nat /\ cpus \in CPUs
  BY AppAssumption DEF TypeOK, DBMaxConns, Larger
<1>1. ASSUME NEW s \in Services, Outage(s) PROVE AppInv'
  <2>1. TypeOK'
    <3>1. probing' \in BOOLEAN /\ trouble' \in BOOLEAN
      BY <1>1 DEF Outage, Witness, TypeOK, health
    <3>2. up' \subseteq Services /\ answered' \subseteq Services /\ outages' \in 0 .. MaxOutages
      BY AppAssumption, <1>1 DEF Outage, Witness, TypeOK, Services, health
    <3>3. working' \in 0 .. PoolWorkers /\ working' <= DBMaxConns(cpus) /\ (working' > 0 => Reading')
      BY <1>d, <1>1 DEF Outage, Witness, TypeOK, Reading, PoolWorkers, TotalQueueWorkers, TotalRetryWorkers, health
    <3>4. stage' \in Stages /\ (probing' => stage' = "serving")
      BY <1>1 DEF Outage, Witness, TypeOK, Stages, health
    <3>5. checks' \in [Services -> {None, "healthy", "unhealthy"}]
      BY <1>1 DEF Outage, Witness, TypeOK, health
    <3>6. QED BY <1>0, <1>c, <1>d, <3>1, <3>2, <3>3, <3>4, <3>5 DEF TypeOK
  <2>2. Linked'
    BY <1>1 DEF Outage, Witness, Linked, Reading, Load, Publish, PublishFails, configVars
  <2>3. ProbeInv'
    BY <1>c, <1>d, <1>1 DEF Outage, Witness, TypeOK, ProbeInv, health
  <2>4. QED BY <1>0, <2>1, <2>2, <2>3
<1>2. ASSUME NEW s \in Services, Recover(s) PROVE AppInv'
  <2>1. TypeOK'
    BY <1>0, <1>c, <1>d, <1>2 DEF Recover, Witness, TypeOK, Reading, Stages, Services, PoolWorkers, TotalQueueWorkers, TotalRetryWorkers, health
  <2>2. Linked'
    BY <1>2 DEF Recover, Witness, Linked, Reading, Load, Publish, PublishFails, configVars
  <2>3. ProbeInv'
    BY <1>c, <1>d, <1>2 DEF Recover, Witness, TypeOK, ProbeInv, health
  <2>4. QED BY <1>0, <2>1, <2>2, <2>3
<1>3. ASSUME NEW s \in Services, CheckService(s) PROVE AppInv'
  <2>1. TypeOK'
    <3>1. probing' \in BOOLEAN /\ trouble' \in BOOLEAN
      BY <1>3 DEF CheckService, Checked, CanPing, TypeOK, health
    <3>2. up' \subseteq Services /\ answered' \subseteq Services /\ outages' \in 0 .. MaxOutages
      BY AppAssumption, <1>3 DEF CheckService, Checked, CanPing, TypeOK, Services, health
    <3>3. working' \in 0 .. PoolWorkers /\ working' <= DBMaxConns(cpus) /\ (working' > 0 => Reading')
      BY <1>d, <1>3 DEF CheckService, Checked, CanPing, TypeOK, Reading, PoolWorkers, TotalQueueWorkers, TotalRetryWorkers, health
    <3>4. stage' \in Stages /\ (probing' => stage' = "serving")
      BY <1>3 DEF CheckService, Checked, CanPing, TypeOK, Stages, health
    <3>5. checks' \in [Services -> {None, "healthy", "unhealthy"}]
      BY <1>3 DEF CheckService, Checked, CanPing, TypeOK, health
    <3>6. QED BY <1>0, <1>c, <1>d, <3>1, <3>2, <3>3, <3>4, <3>5 DEF TypeOK
  <2>2. Linked'
    BY <1>3 DEF CheckService, Checked, CanPing, Linked, Reading, Load, Publish, PublishFails, configVars
  <2>3. ProbeInv'
    BY <1>c, <1>d, <1>3 DEF CheckService, Checked, CanPing, TypeOK, ProbeInv, health
  <2>4. QED BY <1>0, <2>1, <2>2, <2>3
<1>4. CASE Boot
  <2>0. Panic => stage \in {"database", "redis", "providers", "cache"}
    BY DEF Panic, Needs
  <2>a. \/ Panic
        \/ /\ stage' \in Stages /\ stage # "serving" /\ (Reading => stage' = "serving")
           /\ UNCHANGED <<up, outages, working, probing, checks, answered, trouble>>
    BY <1>4 DEF Boot, Start, ConnectDatabase, ConnectRedis, LoadProviders, PublishProviders, Listen, Advance, health, Stages, Reading
  <2>1. TypeOK'
    <3>1. probing' \in BOOLEAN /\ trouble' \in BOOLEAN
      BY <1>4 DEF Boot, Start, ConnectDatabase, ConnectRedis, LoadProviders, PublishProviders, Listen, Panic, Advance, TypeOK, health
    <3>2. up' \subseteq Services /\ answered' \subseteq Services /\ outages' \in 0 .. MaxOutages
      BY AppAssumption, <1>4 DEF Boot, Start, ConnectDatabase, ConnectRedis, LoadProviders, PublishProviders, Listen, Panic, Advance, TypeOK, Services, health
    <3>3. working' \in 0 .. PoolWorkers /\ working' <= DBMaxConns(cpus) /\ (working' > 0 => Reading')
      BY <1>d, <1>4, <2>0, <2>a DEF Boot, Start, ConnectDatabase, ConnectRedis, LoadProviders, PublishProviders, Listen, Panic, Advance, TypeOK, Reading, PoolWorkers, TotalQueueWorkers, TotalRetryWorkers, health
    <3>4. stage' \in Stages /\ (probing' => stage' = "serving")
      BY <1>4, <2>0, <2>a DEF Boot, Start, ConnectDatabase, ConnectRedis, LoadProviders, PublishProviders, Listen, Panic, Advance, TypeOK, Stages, health
    <3>5. checks' \in [Services -> {None, "healthy", "unhealthy"}]
      BY <1>4 DEF Boot, Start, ConnectDatabase, ConnectRedis, LoadProviders, PublishProviders, Listen, Panic, Advance, TypeOK, health
    <3>6. QED BY <1>0, <1>c, <1>d, <3>1, <3>2, <3>3, <3>4, <3>5 DEF TypeOK
  <2>2. Linked'
    BY <1>4, <2>0 DEF Boot, Start, ConnectDatabase, ConnectRedis, LoadProviders, PublishProviders, Listen, Panic, Advance, Linked, Reading, Load, Publish, PublishFails, configVars
  <2>3. ProbeInv'
    BY <1>c, <1>d, <1>4 DEF Boot, Start, ConnectDatabase, ConnectRedis, LoadProviders, PublishProviders, Listen, Panic, Advance, TypeOK, ProbeInv, health
  <2>4. QED BY <1>0, <2>1, <2>2, <2>3
<1>5. CASE Exit
  <2>1. TypeOK'
    <3>1. probing' \in BOOLEAN /\ trouble' \in BOOLEAN
      BY <1>5 DEF Exit, Die, Forget, TypeOK, health
    <3>2. up' \subseteq Services /\ answered' \subseteq Services /\ outages' \in 0 .. MaxOutages
      BY AppAssumption, <1>5 DEF Exit, Die, Forget, TypeOK, Services, health
    <3>3. working' \in 0 .. PoolWorkers /\ working' <= DBMaxConns(cpus) /\ (working' > 0 => Reading')
      BY <1>d, <1>5 DEF Exit, Die, Forget, TypeOK, Reading, PoolWorkers, TotalQueueWorkers, TotalRetryWorkers, health
    <3>4. stage' \in Stages /\ (probing' => stage' = "serving")
      BY <1>5 DEF Exit, Die, Forget, TypeOK, Stages, health
    <3>5. checks' \in [Services -> {None, "healthy", "unhealthy"}]
      BY <1>5 DEF Exit, Die, Forget, TypeOK, health
    <3>6. QED BY <1>0, <1>c, <1>d, <3>1, <3>2, <3>3, <3>4, <3>5 DEF TypeOK
  <2>2. Linked'
    BY <1>5 DEF Exit, Die, Forget, Linked, Reading, Load, Publish, PublishFails, configVars
  <2>3. ProbeInv'
    BY <1>c, <1>d, <1>5 DEF Exit, Die, Forget, TypeOK, ProbeInv, health
  <2>4. QED BY <1>0, <2>1, <2>2, <2>3
<1>6. CASE Acquire
  <2>1. TypeOK'
    BY <1>0, <1>c, <1>d, <1>6 DEF Acquire, Witness, TypeOK, Reading, Stages, Services, PoolWorkers, TotalQueueWorkers, TotalRetryWorkers, health
  <2>2. Linked'
    BY <1>6 DEF Acquire, Witness, Linked, Reading, Load, Publish, PublishFails, configVars
  <2>3. ProbeInv'
    BY <1>c, <1>d, <1>6 DEF Acquire, Witness, TypeOK, ProbeInv, health
  <2>4. QED BY <1>0, <2>1, <2>2, <2>3
<1>7. CASE Release
  <2>1. TypeOK'
    BY <1>0, <1>c, <1>d, <1>7 DEF Release, Witness, TypeOK, Reading, Stages, Services, PoolWorkers, TotalQueueWorkers, TotalRetryWorkers, health
  <2>2. Linked'
    BY <1>7 DEF Release, Witness, Linked, Reading, Load, Publish, PublishFails, configVars
  <2>3. ProbeInv'
    BY <1>c, <1>d, <1>7 DEF Release, Witness, TypeOK, ProbeInv, health
  <2>4. QED BY <1>0, <2>1, <2>2, <2>3
<1>8. ASSUME NEW r \in Requests, Configure(r) PROVE AppInv'
  <2>1. TypeOK'
    BY <1>0, <1>c, <1>d, <1>8 DEF Configure, Check, StoreRow, StoreRowFails, SetCache, SetCacheFails, appVars, health, TypeOK, Reading, Stages, Services, PoolWorkers, TotalQueueWorkers, TotalRetryWorkers, health
  <2>2. Linked'
    BY <1>8 DEF Configure, Check, StoreRow, StoreRowFails, SetCache, SetCacheFails, appVars, health, Linked, Reading, Load, Publish, PublishFails, configVars
  <2>3. ProbeInv'
    BY <1>c, <1>d, <1>8 DEF Configure, Check, StoreRow, StoreRowFails, SetCache, SetCacheFails, appVars, health, TypeOK, ProbeInv, health
  <2>4. QED BY <1>0, <2>1, <2>2, <2>3
<1>9. CASE Land
  <2>1. TypeOK'
    BY <1>0, <1>c, <1>d, <1>9 DEF Land, LandRow, LandKey, appVars, health, TypeOK, Reading, Stages, Services, PoolWorkers, TotalQueueWorkers, TotalRetryWorkers, health
  <2>2. Linked'
    BY <1>9 DEF Land, LandRow, LandKey, appVars, health, Linked, Reading, Load, Publish, PublishFails, configVars
  <2>3. ProbeInv'
    BY <1>c, <1>d, <1>9 DEF Land, LandRow, LandKey, appVars, health, TypeOK, ProbeInv, health
  <2>4. QED BY <1>0, <2>1, <2>2, <2>3
<1>10. CASE Probe
  <2>1. TypeOK'
    BY <1>0, <1>c, <1>d, <1>10 DEF Probe, TypeOK, Reading, Stages, Services, PoolWorkers, TotalQueueWorkers, TotalRetryWorkers, health
  <2>2. Linked'
    BY <1>10 DEF Probe, Linked, Reading, Load, Publish, PublishFails, configVars
  <2>3. ProbeInv'
    BY <1>c, <1>d, <1>10, AppAssumption DEF Probe, TypeOK, ProbeInv, health
  <2>4. QED BY <1>0, <2>1, <2>2, <2>3
<1>11. CASE Reply
  <2>1. TypeOK'
    BY <1>0, <1>c, <1>d, <1>11 DEF Reply, Forget, TypeOK, Reading, Stages, Services, PoolWorkers, TotalQueueWorkers, TotalRetryWorkers, health
  <2>2. Linked'
    BY <1>11 DEF Reply, Forget, Linked, Reading, Load, Publish, PublishFails, configVars
  <2>3. ProbeInv'
    BY <1>c, <1>d, <1>11 DEF Reply, Forget, TypeOK, ProbeInv, health
  <2>4. QED BY <1>0, <2>1, <2>2, <2>3
<1>12. CASE UNCHANGED vars
  BY <1>0, <1>c, <1>12 DEF vars, configVars, appVars, health, TypeOK, Linked, Reading, ProbeInv
<1>13. QED BY <1>1, <1>2, <1>3, <1>4, <1>5, <1>6, <1>7, <1>8, <1>9, <1>10, <1>11, <1>12 DEF Next

\* The invariant holds for every machine and every history of outages.
LEMMA AppInvariant == Spec => []AppInv
BY AppInit, AppNext, PTL DEF Spec

\* Workers never hold more connections than the pool has, a request is being
\* answered only while the process serves, and every variable keeps its type.
THEOREM TypeCorrect == Spec => []TypeOK
<1>1. AppInv => TypeOK
  BY DEF AppInv
<1>2. QED BY <1>1, AppInvariant, PTL

\* Readers never miss a configuration and never see an uncommitted one.
THEOREM OnlyCommittedCached == Spec => []CachedWasCommitted
<1>1. AppInv => CachedWasCommitted
  BY DEF AppInv, ConfigInv, Linked, Sourced, CachedWasCommitted
<1>2. QED BY <1>1, AppInvariant, PTL

\* Requests that come one after another and succeed leave the cache in step
\* with the table, and so does every start.
THEOREM CacheInStep == Spec => []CacheAgrees
<1>1. AppInv => CacheAgrees
  BY DEF AppInv, ConfigInv, Linked, InStep, CacheAgrees
<1>2. QED BY <1>1, AppInvariant, PTL

\* A health answer has its cause within the request.
THEOREM HealthIsHonest == Spec => []HealthHonest
<1>1. ASSUME AppInv, probing, Joined, Status = 200 PROVE answered = Services
  <2>1. \A s \in Services : checks[s] = "healthy"
    BY <1>1 DEF Status
  <2>2. QED BY <1>1, <2>1 DEF AppInv, TypeOK, ProbeInv
<1>2. ASSUME AppInv, probing, Joined, Status = 503 PROVE trouble
  <2>1. PICK s \in Services : checks[s] # "healthy"
    BY <1>2 DEF Status
  <2>2. checks[s] = "unhealthy"
    BY <1>2, <2>1 DEF AppInv, TypeOK, Joined
  <2>3. QED BY <1>2, <2>2 DEF AppInv, ProbeInv
<1>3. AppInv => HealthHonest
  BY <1>1, <1>2 DEF HealthHonest
<1>4. QED BY <1>3, AppInvariant, PTL

\* The process implements ProviderConfig: start-up, outages, the pool and probes add
\* no write to the providers table or its cache that Configure, InitProviderCache or
\* a dead process's late statements do not make.
THEOREM ProcessConfigures == Spec => ConfigSpec
<1>1. Init => ConfigInit
  BY DEF Init
<1> QED BY <1>1, StepsConfig, PTL DEF Spec, ConfigSpec

=============================================================================
