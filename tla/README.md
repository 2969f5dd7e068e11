# vaulthook in TLA+

A verification development for vaulthook, the webhook gateway in `src/`.
TLC checks the modules on small instances; TLAPS proves the main safety
properties for every value of the constants. `PROJECT.json` records which lines
each definition models, which run checks which property, and the hazards the
properties are aimed at.

## The system

| Part | State | Operations that change it | Where |
|---|---|---|---|
| Webhook ingestion | `webhook_events` rows, requests in progress | `Receive` of Stripe, GitHub, Shopify | `internal/api/handler/{stripe,github,shopify}.go`, `internal/providers/*/service.go` |
| Outbox and delivery workers | a row's status, retry count, next retry, `updated_at`; each worker's batch; the pool's signal channel | `GetEvents`, `forwardEvent`, `UpdateEvents`, `Notify`, tickers | `internal/worker/{service,repository,pool}.go` |
| Cleanup worker | rows | deletes by age and by number | `internal/worker/cleanup.go` |
| Rate limiter | a Redis hash per destination | the Lua script of `Allow` | `internal/worker/limiter.go` |
| Event hub and SSE | broadcast channel, buffer, dropped counter, subscribers | `Send`, `Start`, `flush`, `Subscribe`, `SSE` | `internal/events/service.go`, `internal/api/handler/events.go` |
| Provider configuration | a `providers` row and its copy in Redis | `Configure`, `InitProviderCache` | `internal/providers/*.go`, `internal/cache` |
| Replay | a row's status | `replayEvent` | `internal/events/repository.go` |
| Authentication | `refresh_tokens`, cookies | login, refresh, logout | `internal/auth`, `internal/api/handler/auth.go` |
| Queries and search | what a page shows; nothing in the database | list, lookup, filter, further pages | `internal/events`, `internal/model/search.go`, `frontend/.../search/+page.svelte` |
| Health and resources | a probe in progress | two concurrent pings; sizing of pools | `internal/health` |
| Dashboard | event map, table, pause and scroll flags | initial load, poll, overflow reload, live stream | `frontend/src/routes/(private)/+page.svelte` |
| Start and shutdown | how far the process has come up | `New`, `Run` | `internal/app/app.go` |

How they interact: a handler commits a row, `Send`s it to the hub and `Notify`s
the worker pool. Workers claim rows with `FOR UPDATE SKIP LOCKED`, read the
provider from the cache, ask the limiter, forward, record the outcome and `Send`
the updated rows. Replay and cleanup change rows without asking the workers. The
dashboard follows the hub and, every second, the database. A start fills the
provider cache before it lets workers and handlers run; all of them share one
connection pool.

What is hard here:

- exclusive processing depends on a status written at the claim *and* on timing: a
  row held for more than a minute would be claimed a second time;
- a crash, or a failed call, between claim and update;
- a batch is recorded as a whole, so one row's problem is every row's problem;
- checks and writes that are separate statements (duplicate check and insert, table
  and cache, count and eviction);
- clock readings and limits that reach the limiter out of order;
- bounded channels that drop, and one counter for what all clients lost;
- pages whose requests overlap and are answered in any order, over a table that changes.

## Modules

`Outbox` is what the pipeline promises: an event is stored before anybody attempts to
deliver it, one attempt at a time is made, it counts as delivered only after the
destination has accepted it, and it is then left alone. A replay gives up the last two for
its event. It has no workers, batches, statuses or clocks.

`Delivery` is the outbox with its workers. A row is a number (its `received_at`
order) with status, retry count, ticks until `next_retry_at` and ticks since
`updated_at`. A worker is at one of three places: `waiting` in its select, `getting`
(about to call `GetEvents`), `forwarding`. `GetEvents` claims a batch the query may
return, in its order and limit; `Forward` is one goroutine of `forwardEvent`;
`UpdateEvents` records the batch and starts the next pass. Faults are a crash, a failed
or unacknowledged `GetEvents`, a failed `UpdateEvents` and a wake-up that is never
sent. `Tick` is time: it cannot pass while a worker that holds rows has used up its
timeouts. `ImplementsOutbox` maps it to `Outbox`: a row's phase comes from its status, and
an event is taken while it is in some worker's batch.

`Ingest` is the three `Receive` handlers in steps: validate, check for a duplicate,
insert, announce, answer. The handlers differ in the key they insert (`InsertKey`).
Each step may fail; an insert may commit although the handler sees an error; an answer
may be lost; the process may crash.

`RateLimiter` is one destination's leaky bucket. A caller reads the provider's limit, then
the clock, and runs the script with both later; meanwhile operators change the limit and
other callers' scripts run. Levels are scaled so that the script's fractions are integers.

`EventHub` is the hub goroutine, with flush's two critical sections as two steps, and one
SSE handler per client, with what each client was told about losses.

`ProviderConfig` is `Configure` with its two writes, and `InitProviderCache` with its read
and its write. When a process dies, while it starts or later, statements it had sent may be run
later.

`App` extends `ProviderConfig` by the process around it: the stages of `New` with a panic at
each service that does not answer, the end of the process and its restart, workers that
hold connections of the pool, and `GET /health` with its two goroutines.
`ComputeResources` is an operator.

`EventStore` is the table as its readers see it: rows appear, workers change them, and
`runCleanup` deletes by age, counts, and evicts, as three statements. How workers claim and
record is left to `Delivery`; here a row is claimed once queued or failed, and a claimed row is
recorded with any response code. The reclaim of forgotten rows and replays, which repeat the
same kind of changes to the columns that readers see, are left out.

`Search` extends `EventStore` by the search page and the server's answer to it: the form, the
validation on both sides, lookup and filter with `LIMIT` and `OFFSET`, the page that appends
further pages, and answers that come late.

`Dashboard` extends `EventStore` by the dashboard page. The script is single-threaded, so what
runs between two awaits is one step. It composes the page with the table and with the feed
of the hub, reduced to what `EventHub` lets a client rely on: an event that was sent may
arrive late, after a newer one, or not at all, with or without an overflow frame.

`Sessions` is login, rotation of the refresh token and logout, one step per statement, for
browsers whose callers share cookies. Tokens are signed whole seconds, so a token is the
second it was issued in and two tokens of one second are the same string. `SessionKept`
excepts that case (`collided`) and browsers of which a call failed (`hurt`): in both the
code can lose a session.

`MCDelivery`, `MCIngest`, `MCSessions`, `MCSearch` and `MCDashboard` instantiate the
specifications for TLC; `App`, `EventHub` and `RateLimiter` are run as they are. The modules
whose names end in `Proofs` hold the theorems: `DeliveryProofs` and `PipelineProofs` (which
extends it by retries, replays and `Outbox`), `EdgeProofs` for `Ingest` and `RateLimiter`, and
one each for `App`, `EventHub`, `Sessions`, `Search` and `Dashboard`. `EdgeProofs` extends both
of its components, so the operators of `RateLimiter` that `Ingest` has as well are named apart
(`LimiterTypeOK`, `LimiterSpec`).

Definitions named `X_Something` that precede `X` are faulty variants of `X`; they show
that a property notices the fault. They are not used by any specification.

## Runs

| Run | Checks | Shows |
|---|---|---|
| `DeliverySafety` | `TypeOK`, `ExclusiveHolder`, `DeliveredWasAccepted`, `InFlightIsHeld`, `NothingForgotten`, `DeliveredIsFinal` | two rows, a worker of every kind, any response, one fault; a row is left behind by its own batch only, if the database refuses it, or by a fault |
| `DeliveryFaults` | `RetryBudget`, `ReplayLostInFlight`, `SettledOrOrphaned`, `ImplementsOutbox` | one row, any response, one fault and one replay; the row is settled unless a fault or a 1xx or 3xx response meets it while it is being retried, or such responses never end; only an attempt in flight can overwrite a replay request; every step is one of `Outbox` |
| `Ingest` | `StoredOnce`, `AckedWasStored`, `StoredIsAnnounced`, `EventuallyStored` | two providers' events, two handlers at once, two faults, a purge |
| `RateLimiter` | `LimiterTypeOK`, `BurstBound`, `QuietThenAdmitted` | two callers, late and reordered readings, a changing limit, expiry |
| `EventHub` | `TypeOK`, `InSendOrder`, `SendsToOpenChannels`, `OverflowSignalled`, `HubNeverBlocks` | two clients that stall, leave and return |
| `App` | `CachedWasCommitted`, `CacheAgrees`, `HealthHonest`, `ServingResumes`, `ProbeEnds` | two configuration requests, a probe, an outage, a death of the process, on a machine whose workers can use up the pool |
| `Sessions` | `TypeOK`, `SessionKept`, `RowsAccounted` | two browsers, one with two callers; expiry, logouts, one failing call |
| `Search` | `TypeOK`, `AnsweredUnlessFault`, `PagesUnique`, `PagesComplete`, `DeletesOnlyExcess`, `RetentionHolds` | three rows, two inputs, pages of one row, an ageing step and a fault |
| `Dashboard` | `TypeOK`, `ShowsWhatIsKnown`, `FrozenView`, `FirstPageConverges` | two rows, a first page of one, one fault; pausing and scrolling at any time |

Three runs show where the code does something other than the repository says:

- `DeliveryCrash`: `README.md` says a crash "never loses an event, it just retries
  later". The reclaim condition leaves out `retrying`: a row whose retry worker dies
  stays there. `SettledOrOrphaned` shows that this is the only way a fault loses a row, and
  that a 1xx or 3xx response does the same without any fault.
- `DeliveryIdle`: a test of `GetEvents` expects `pgx.ErrNoRows` when nothing is
  eligible. `GetEvents` returns an empty slice and no error, so a worker never goes back
  to its ticker and polls without a pause.
- `IngestGithub`: the GitHub handler checks for `X-Github-Delivery` and inserts
  `X-Github-Hook-Id`. The second event of a hook is answered 200 and not stored. That a
  hook has one id for all its deliveries is a fact about GitHub, not about this code.

More disagreements have no run of their own, because a checked property already states
what the code does instead:

- `README.md` promises that requests "never exceed" the limit per second; `BurstBound`
  has a bucketful on top of the leak.
- `max_retries` is exceeded by the reclaim; `RetryBudget` says by how much.
- A replayed row may be held by two workers; `ExclusiveHolder` excepts replayed rows. A
  replay requested while the row is being forwarded is overwritten by that attempt's
  result; `ReplayLostInFlight` says that nothing else overwrites it.
- A 1xx or 3xx response has no case in `forwardEvent`: its update has no status, and the enum
  rejects the whole batch (`Invalid`, `Written`). A row of that batch that was being retried
  then stays in `retrying` for good, although nothing failed; one that was queued or replayed
  is reclaimed after a minute and sent again, as often as the destination answers so, with no
  budget. `InFlightIsHeld`, `NothingForgotten` and `SettledOrOrphaned` except the rows of such a
  batch (`rejected`, `Refused`), and only those.
- The dropped count is shared: the first client to ask resets it and the others are not
  told. `OverflowSignalled` states what holds for a client that is alone.
- `pool.go:12` says the worker counts are tuned from the computed resources; they stay 8
  and 4. With eight CPUs or fewer the workers can therefore take the connections that
  `resources.go:12-13` keeps free. This is arithmetic on constants and no property; what a
  health check answers once the pool is used up is `HealthHonest`.
- The search page lets a time range with equal ends through and the server refuses it with
  400; `AnsweredUnlessFault` excepts it.

Observed while modelling, and within what the models allow:

- Further pages of a search are asked for with the form as it is *now*, and two searches may
  overlap: one list then mixes results of both (`mixed`, excepted by `PagesUnique` and
  `PagesComplete`). A page that fails is asked for again at once by the table's effect.
- Rows with equal `created_at` can be repeated or skipped between pages (`Pure`).
- On the dashboard, a `/api/me` that throws ends reconnecting. The poll still corrects the
  first page (`FirstPageConverges`); rows below it can stay stale.
- A first `loadStats` that fails leaves the page without a stream and with its skeleton:
  `initialLoading` is reset only at the end of `loadEvents`, which is not reached any more, so
  the rows that polls go on to load are never rendered. `FirstPageConverges` excepts this case
  (`Abandoned`) and shows that it is the only one in which the skeleton stays.
- The table is not rendered either while delivered, failed, retrying and queued add up to 0;
  `getStats` counts neither `processing` nor `replaying`, so rows that are all in one of these are
  hidden by the empty state. The counters are not modelled, and the properties of `Dashboard` are about
  the array `events`.
- `Run` ends in `logger.Fatal`, which skips the deferred cancellations that
  `app.go:207-209` speaks of: the process ends without a shutdown, and `App` has none.

### Bounds

Two rows are the least with a batch in which one row affects another; one retry and one
replay reach every status change, since retries and replays repeat the same steps. `StaleAfter` and
`BusyLimit` are one tick: only their order matters, and the proofs assume no more than
`BusyLimit <= StaleAfter` (20 seconds of timeouts against one minute). `MaxFaults`
is one or two so that a fault meets every state. For `EventHub` the capacities are smaller than the
number of sends, so that each of them overflows. For `RateLimiter` the clock runs past the
expiry, and the limits are zero, one and two, so that a limit is lowered and raised and may
refuse everything. For `Sessions` the clock runs to the refresh token's lifetime, twice the access token's,
so that a session can be renewed and can expire. `App` has a machine with one
CPU, where the pool is smaller than the number of workers, so that they can use it up, and one
fault and one outage at any stage. In `Search` a page holds one row of
three, so that there are a full last page and further ones, and `MaxRows` is one, so that
age and number both delete. In `Dashboard` the first page and the cap are one row of
two: each new row displaces the other. Rows are received there in the order in which they are
created: eviction goes by `received_at` and the page by `created_at`, and with caps as small as these
an evicted row that counts as newest would keep its place on the page. The code evicts from 500,000 rows on and
shows 500. `Search` may stop when its inputs are used up, so
deadlock is not checked there.

### Fairness

`Delivery`: weak fairness of time and of each worker's own steps; goroutines are
scheduled and each call has a timeout. Nothing is assumed of clients, cleanup, faults or
the destination's answers, and wake-ups by signal need not happen: the ticker suffices.
`Ingest`: weak fairness of handlers, and strong fairness of delivery, since providers
deliver again until they see a 200, and that all handlers are busy is a limit of the model
only. `EventHub`: weak fairness of the hub's goroutine and of its ticker; none of clients.
`App`: weak fairness of the start, since the container is restarted
(`restart: unless-stopped` in `deploy/docker-compose.yml`) and the stages of `New` are
bounded by timeouts, and of the probe's goroutines, whose pings have timeouts; none of services, requests or
workers. `Search`: weak fairness of the cleanup statements, which a ticker starts and
timeouts end; none of the user or the server. `Dashboard`: weak fairness of
the server's answers and of the page's callbacks and timers, the poll among them; none of the stream, the
overflow timer, reconnecting or the user.

## Theorems

Each holds for every value of the constants that satisfies the modules' `ASSUME`s, which
TLC evaluates on each run. An invariant is proved by an inductive one that implies it; the
table says what the inductive one adds.

| Theorem | States | Argument |
|---|---|---|
| `DeliveryProofs!TypeCorrect` | `TypeOK` | with: an update that is not yet set is blank |
| `OneHolder` | `ExclusiveHolder` | a held row that nobody replays has its holder's claim status, and is no older than the holder has been busy; with `BusyLimit <= StaleAfter` it is never eligible |
| `DeliveredForGood` | `DeliveredIsFinal` | from the invariant of `OneHolder`: a delivered row has no holder and is not eligible |
| `DeliveredMeansAccepted` | `DeliveredWasAccepted` | also the prepared updates say "delivered" only after a 2xx |
| `InFlight` | `InFlightIsHeld` | without faults every claimed row is in a batch that will be recorded or, if one of its updates has no status, refused as a whole |
| `NoRowForgotten` | `NothingForgotten` | if there is a retry worker: by the status of the row, with `InFlight` for the one status that `GetEvents` does not look for |
| `PipelineProofs!RetriesAreBounded` | `RetryBudget` | a count: `retry_count`, plus the workers that hold the row, plus one if it waits for a claim that will be counted, stays within the budget and the replays. For this the holders are at most the replays, plus one while the row carries the mark of its last claim, and a row old enough to be reclaimed has no holder |
| `RequestsWait` | `ReplayLostInFlight` | by cases: a claim of the row takes the request off the books, and what else changes the status is a worker that records its batch |
| `PipelineIsOutbox` | `ImplementsOutbox` | every step of `Delivery` is one of `Outbox` or leaves its variables alone, given the invariants of `OneHolder` and `DeliveredMeansAccepted` |
| `StoredFirst` | `AttemptedWasStored` (no run) | an invariant of `Outbox`, carried over by `PipelineIsOutbox`: what a worker holds or a destination has accepted was committed before |
| `EdgeProofs!TypeCorrect` | `TypeOK` of `Ingest` (no run) | part of the invariant of `NoDuplicateRows` |
| `NoDuplicateRows` | `StoredOnce` | insertions less purges equal the rows of the event |
| `AckedIsStored` | `AckedWasStored` | under `KeysIdentify` (the inserted key identifies the event), a handler past the insert has stored its event. `IngestGithub` shows the assumption is needed |
| `StoredThenAnnounced` | `StoredIsAnnounced` | the insert that adds a row takes its handler to the announcement, from where it can only go on to announce unless there is a fault |
| `LimiterTypeCorrect` | `LimiterTypeOK` | part of the invariant of `BurstIsBounded` |
| `BurstIsBounded` | `BurstBound` | a potential: level plus what leaks bounds what was admitted, for late readings and changed limits as well |
| `QuietAdmits` | `QuietThenAdmitted` | the level never exceeds the largest bucket used by more than the skew, and readings are at most `Skew` old |
| `EventHubProofs!TypeCorrect` | `TypeOK` | with: the counters add up to at most the number of sends |
| `NeverSendsOnClosed` | `SendsToOpenChannels` | subscribers are the connections whose handler has not unsubscribed, and the hub looks the subscribers up in the critical section in which it sends |
| `AloneIsTold` | `OverflowSignalled` | while a connection is alone, what it was told and the shared counter together cover what was cut, and every cut is followed by a batch in its channel, after which it asks |
| `ReceivedInSendOrder` | `InSendOrder` | every queue ascends and precedes the next: what a connection has, what its handler writes, each batch of its channel, the hub's batch, the buffer, the broadcast channel |
| `AppProofs!TypeCorrect` | `TypeOK` (no run) | inductive with the invariant of the cache |
| `ProcessConfigures` | `ConfigSpec` (no run) | a refinement: every step of `App` is a step of `ProviderConfig` or leaves its variables alone |
| `OnlyCommittedCached` | `CachedWasCommitted` | whatever may yet reach the cache has been committed: the value a start has read, that of a request past its first write, and the late writes of a dead process, its start included |
| `CacheInStep` | `CacheAgrees` | undisturbed, at most one request is between its writes, and the table holds its value |
| `HealthIsHonest` | `HealthHonest` | a check marked healthy was answered, one marked unhealthy had its cause during the probe |
| `ResourcesFit` | (no run) | for every number of CPUs the workers that `ComputeResources` asks for and the reserve fit into its pool, and batches are within their limits |
| `SessionsProofs!TypeCorrect` | `TypeOK` | inductive as it is |
| `SessionsAreKept` | `SessionKept` | while no two tokens are equal, each belongs to one browser, one that is not yet answered is known to its caller only, validation revokes expired tokens only, and whoever has taken a browser's token out of the table is about to answer with the next |
| `RowsAreAccounted` | `RowsAccounted` | the rows, and the requests that have yet to store theirs, are at most the logins and the rotations that deleted nothing |
| `SearchProofs!TypeCorrect` | `TypeOK` | with the types of the requests in flight |
| `AcceptedIsAnswered` | `AnsweredUnlessFault` | an unmixed page has one search in flight, made from the form as it stands, and that form was accepted (`Flow`) |
| `NoRowTwice` | `PagesUnique` | `Paged`, see below |
| `NoRowSkipped` | `PagesComplete` | `Paged`, see below |
| `CleanupKeepsMaxRows` | `DeletesOnlyExcess` | between count and eviction rows only arrive, so that the rows counted in excess of `maxRows` are still in excess |
| `DashboardProofs!NothingMissed` | `ShowsWhatIsKnown` | the table equals the map unless it is paused or a rebuild is pending, and a rebuild deferred by freezing is done when the table is let go |
| `FrozenStays` | `FrozenView` | a pending timer or answer finds the freeze and defers the rebuild; only the rows already shown are patched, and only while paused |
| `TypeCorrect` | `TypeOK` | patching neither adds nor removes a row, and a rebuild cuts at `eventCap` |
| `PagesAreTaken` | `AnswersShown` (no run) | a page that arrives goes into the map row by row; a rebuild that leaves one of its rows out has filled the table with rows that are no older |

`AppProofs` proves the cache's invariant `ConfigInv` for the steps of `ProviderConfig` and carries it to
the process by `ProcessConfigures`.

`Paged` says of an unmixed search, after `n` rows have been read by offset, what the list shows
of the rows that match now. As long as no row began to match, the list goes from
younger to older rows and at most `n` matching rows are as young as its last one, so the next page is older
than all of it. As long as none ceased to match, a row that matched from the start and is not shown
is older than the whole list and not among the first `n`, so the next page does not skip it.
The same is said of the list as it will be once an answer that is under way has arrived, because
the table changes between the answer and its arrival. Positions are cardinalities of sets of
younger rows. What is used of cardinalities is one formula, `Counting`, which the lemmas assume
and the invariant carries along; it follows from the library's theorems on finite sets
(`RowsAreCounted`).

`NoRowForgotten` and `PagesAreTaken` are the parts of two liveness properties, `SettledOrOrphaned` and
`FirstPageConverges`, that hold without fairness and for any number of rows; TLC checks the liveness
for one and two rows. What a page is rendered as is not part of `PagesAreTaken`.

The assumptions are those on types and bounds of the constants, and these: kinds of workers are
disjoint; `BusyLimit <= StaleAfter`; `FirstPage <= EventCap`; markers such as `None`, `Unborn` and `Deleted` are
different from rows, numbers and each other. `AckedIsStored` assumes `KeysIdentify` and
`NoRowForgotten` that there is a retry worker.

Only model-checked is liveness under fairness, which is beyond the prover: `SettledOrOrphaned`,
`EventuallyStored`, `HubNeverBlocks`, `ServingResumes`, `ProbeEnds`, `RetentionHolds`,
`FirstPageConverges`, and the two temporal findings. Every other property of a passing run is
the subject of a theorem.

## Not modelled, and what the models leave out

- **Counters, further pages and statistics of the dashboard**
  (`GET /events/stats`, pages by cursor). They add rows below the first page
  and numbers above the table and do not feed back into the rows that `Dashboard` is about, but for the empty state
  mentioned above; with them its
  state space is beyond TLC for liveness. The component is therefore "partly" modelled.
- **Provider services**: the outcome of `ValidateSecret` is a choice; the signature
  arithmetic and the copying of headers are library calls and data.
- **Environment and logger**: read once before anything else; a missing variable
  panics on every start. **Encryption**: AES-GCM of the standard library, no state.
  **Request helpers**: decoding of bodies. **`cmd/api-mock`, `testutil`**: not part of the
  running system.
- The calls between modules: `Delivery` and `Ingest` have no dashboard and `Dashboard` no
  workers; `Dashboard` takes rows and feed from `EventStore` instead. One model of all would
  multiply their states without a property that needs them together.
- `max_retries` does not change during a run.
- A statement takes effect before its caller's timeout or not at all, except for those of a
  dead process in `ProviderConfig` and the failures that commit; a pause of the process longer
  than its timeouts would break the timing assumption.
- A pgx batch is one implicit transaction, and Postgres rejects a value outside the enum:
  library behaviour, not shown by this code.
- Wall-clock jumps, several processes on one database. A huge `Retry-After` overflows a
  64-bit duration and makes the row due at once; delays are small numbers here.
- Requests with missing headers or a wrong signature change nothing and are not steps.
- A refresh token must fit `VARCHAR(255)`; tokens are abstract in `Sessions`.
- Liveness of `Delivery` is checked for one row; rows that share a batch are in
  `DeliverySafety`, and in the theorems `InFlight` and `NoRowForgotten`, which hold for batches of any size.
- A drain of the hub ends because sends are bounded here; the code lets it go on while
  senders keep the channel non-empty.
- Signatures, JSON and logging: data and library code.
