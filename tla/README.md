# Verification of the Incident Management System

TLA+ models of the backend (`src/backend/src`) and of the pages that drive it
(`src/frontend/src`), TLC configurations that check them on
small instances, and TLAPS proofs of their main invariants for every instance.

## 1. The system

Clients post batches of **signals**. The API admits them to a bounded Redis stream;
**signal workers** take them off in a consumer group, find or create the **work item**
(incident) of their component in PostgreSQL, refresh the **dashboard projection** in Redis
and schedule the **audit copy** of the raw signal, which **audit workers** store in MongoDB.
**Operators** move an incident through its lifecycle, submit its root cause analysis (RCA)
and watch the live feed. Several API and worker processes run at a time; each is an event loop in
which every `await` is a point where anything else may happen.

| Component | State | Operations | Talks to | What is hard | What makes it correct |
|---|---|---|---|---|---|
| Ingestion: `signals/*` | Redis stream `signals:ingest` | `ingestBatch`, `enqueueBatch`, `produce` (Lua) | Redis; read by the signal worker | concurrent producers at the limit, failing calls within a batch, scripts that ioredis sends twice, XACK does not shorten a stream | the stream is bounded, what is counted as accepted stays, counts add up, every request is answered |
| Signal worker: `signal-stream.consumer`, `signal.processor`, `dlq.service` | consumer group, pending list | two loops, `processBatch`, `processOne`, `process`, DLQ handoff | ledger, debounce, work items, audit dispatch | crashes between any two calls, redelivery, leases that expire under a slow worker, a failing XACK | no ACK without an outcome, bounded attempts, processed signals never restart, everything is ACKed |
| Ingest ledger: `ingest-ledger.repository` | row of `ingest_dedup` | `beginProcessing`, `markProcessed`, `markFailed`, `markDeadLettered` | called by the processor | unconditional updates of slow attempts | attempt numbers are unique and bounded |
| Debounce: `debounce.service`, `work-item.repository` | `debounce:{c}`, `lock:debounce:{c}`, `work_items` | `resolveWorkItem`, `finalizeNewWorkItem`, `abandonPendingWorkItem`, `create`, `addSignal` | Redis and PostgreSQL, no common transaction | two TTLs, owners that die or are slow, closes in between | one active incident per component, keys name committed incidents, every signal is counted or given up for a reason |
| Audit: `audit-dispatch`, `audit-persistence.*`, `audit-stream.consumer` | row of `audit_signal_persistence`, stream `signals:audit`, `signals_raw` | `schedule`, `process` | fed by the processor | row and stream entry are written separately, duplicate schedules, MAXLEN | nothing ACKed or PERSISTED before it is stored, no duplicate entries without a failure |
| Workflow and RCA: `incidents/workflow`, `incidents/rca` | `work_items`, `status_history`, `rca_records` | `transition`, `submitRca` | PostgreSQL pool, then the dashboard | races of operators, closes and dashboard refreshes need a second connection, two-statement submission | history is a walk through the lifecycle, a closed incident has its RCA and MTTR, requests are answered |
| Dashboard: `dashboard-cache.service`, `dashboard-state.repository`, `dashboard.service` | three sorted sets, one hash per incident | `onIncident*`, `onStatusChanged`, `getLiveFeed` with repair and warming | PostgreSQL; called by workers and workflow, polled by pages | refreshes read, then write, in any order; eviction; partial repairs | never ahead of PostgreSQL, exact after an undisturbed refresh, dangling ids do not stay |
| Rate limiter: `rate-limiter.middleware` | token bucket per client | `use` (Lua) | before ingestion | every API process passes its own clock, Redis may forget the bucket, errors fail open | no more than capacity and refill in any window, and no less for a client that waits |
| Frontend: `LiveFeed`, `IncidentDetail`, `RcaForm`, `client` | React state of each page, calls in flight | tabs, interval, refresh, status buttons, RCA form, navigation | the API | answers out of order, calls that are executed after their timeout, stale rows, errors that stay | a click moves only what was shown, no button waits for nothing, a tab settles on its own rows, an incident can be closed |
| Queries: `incidents.service`, `findAll` | none | pages of `GET /incidents` | PostgreSQL | count and rows see two states; signals reorder the list between pages; rows that tie come in any order | no unchanged, untied incident is hidden without a reason |
| Alert strategies: `workers/alerting` | none | `determineSeverity` | called by the processor | two names of one rate, unknown services | a legal severity, decided by the service |
| Metrics, health, wiring, schemas, sample loader | – | reads and set-up | – | – | – |

`docs/backpressure.md` also describes a circuit breaker and a job that reprocesses the DLQ;
no source implements them.

## 2. Modules

| Module | Models | Composes / uses |
|---|---|---|
| `IngestLedger` | one row of `ingest_dedup` as functions from row to row | |
| `SignalFate` | abstract: an entry leaves for good only after its signal has an outcome, and it does leave | |
| `SignalPipeline` | the signal worker: group, loops, every await of `process()` | EXTENDS `IngestLedger`, implements `SignalFate` |
| `ComponentIncidents` | abstract: what deduplication promises of the incidents of one component | |
| `Debounce` | `resolveWorkItem` and step 3 of `process()` for one component | implements `ComponentIncidents` |
| `AuditLedger` | one row of `audit_signal_persistence` | |
| `AuditPipeline` | dispatch in the signal worker, and the audit worker | EXTENDS `AuditLedger`, implements the safety part of `SignalFate` |
| `IncidentContract` | abstract: what the incident API promises | |
| `IncidentLifecycle` | `transition` and `submitRca` over row lock and pool | implements `IncidentContract` |
| `Dashboard` | writers and readers of the projection | |
| `Ingestion` | batches against the admission script | |
| `RateLimiter` | the token bucket of one client and the clocks of its API processes | |
| `Admission` | a request through the middleware, validation and the controller | EXTENDS `Ingestion` and `RateLimiter`, implements the bucket alone |
| `Console` | the browser of an operator against the incident API | |
| `IncidentList` | a client that reads `GET /incidents` page by page | |
| `AlertStrategies` | the resolver and the strategies as operators | |
| `SignalPipelineProofs`, `DebounceProofs`, `AuditPipelineProofs`, `IncidentLifecycleProofs`, `DashboardProofs`, `AdmissionProofs`, `ConsoleProofs`, `IncidentListProofs` | theorems | EXTEND their module; `DebounceProofs` also `AlertStrategies` |
| `MC...` | constants and symmetry for TLC | EXTEND their module |

Conventions: a Lua script, an SQL statement or transaction, or a Redis command (MULTI or
pipeline) is one step, and a `pc` names the await a handler is in. `Fail...` actions are calls
that throw, `Crash` is the death of the process; both are limited by `MaxFaults`. Comments
"Mutant" mark operators used by nothing but the sensitivity checks (section 6).

### SignalPipeline
A *loop* is one of the two loops of a consumer (`consumeLoop`, `pendingRecoveryLoop`).
`delivery` is the state of an entry in the group, `batch` what a loop still has to start,
`ledger`, `applied` (attempt numbers that updated the work item), `audit` and `deadLetters` are the
stores. `Begin ... MarkProcessed` follow `process()`; `ResolveBusy` is
`DebounceResolutionInProgressError`; `DlqSend`, `DlqMark`, `HandoffFails` are `handoffToDlq`; `AckFails` in
the DLQ branch drops the rest of the batch to the pending list, as the rejection does in `processBatch`.
A loop works on one entry at a time; the slots of `WORKER_CONCURRENCY` are
independent of each other, so they are further consumers. A lease either lapses after its holder
is gone (`LeaseLapses`) or under a holder that still works (`LeaseOverrun`, a fault).

### Debounce
One component: keys, locks and queries of different components are independent. `key` and `lock` are the Redis
keys, `status` the work items, `linked` which work items counted a signal. The lock holds the
token of its run; `"orphan"` is a token no live run knows. `LockOverrun` is the TTL
under a live owner, limited by `MaxOverruns` because the properties count them; the key may expire at any moment
(TTL, or `volatile-lru` of the control Redis). `attempts` is the attempt count of the ledger: every run that begins spends one, whether it
fails, crashes or only waits in vain for the lock (`PeekNone`), and the run after the last one hands the signal to the DLQ (`GiveUp`; how that may go wrong is
`SignalPipeline`'s subject). `Resent` is a command that ioredis sends again after a lost answer: a second GET_OR_ACQUIRE waits for its own lock, a second
publish or SET .. EX may come late. `EverySignalSettles` says what is left: each signal is counted or dead-lettered, and while no call
fails a signal is given up only where another one, whose run it waited for, gets counted. That every signal is counted is *not* so.

### AuditPipeline
A *run* is one run of the business pipeline for a signal, with the work item it found: `Schedule` is
the transaction, `Enqueue` the XADD with its eviction of the oldest entries (`~` lets Redis keep more than
the limit). The worker follows `process()` of the audit processor; `raw` is the work item in `signals_raw`.

### IncidentLifecycle
One incident. `lock` is the row lock of `FOR UPDATE`, connections are counted against `PoolSize`, and a transition keeps its own until `finally`: `ReadRca` needs a
second one while the first and the row lock are held, and after the `Commit` of every other transition so does the query of `onStatusChanged` (`Refresh`). A wait
for a connection ends with `connectionTimeoutMillis`: the close fails (`ConnectionTimeout`), the refresh is only logged (`RefreshTimeout`), and `Respond` frees the connection. `Ends`
are values of `incident_end` relative to `first_signal_at`; one is beyond `IntMax` and one below `IntMin`, the ends of INTEGER (`InRange`). MTTR
is `rca` itself, as `first_signal_at` never changes. `AnswerLost` is a failure after COMMIT: the client sees an error for a transition that happened.

### Dashboard
A writer commits and then refreshes: `ReadSummary` and `Write...` are separate steps, and so are `PruneClosed` and `DeleteClosed`.
A reader is one page on one tab: `ReadIds`, the hash lookup (`Hit` or `Mismatch`), `Prune`, `Backfill`, `Feed`, `Warm`.
`clean` is a history variable: the incidents whose latest refresh ran alone and to its end. Left out: the limits of 50 and
100 ids, the CLOSED tab (PostgreSQL only, writes nothing to the sets), pipelines that stop half way.

### Ingestion
A request starts `produce` for its signals in order, at most `Concurrency` at a time and chunk by chunk. `EvalFails` covers a
script that ran although its answer was lost, `EvalResent` a command that ioredis sends once more after such a loss (it retries each three times,
`redis.service.ts:104`): the script is not idempotent, so the signal is in the stream twice and its call may still succeed. `AcceptedStays` says what holds
nevertheless: what was accepted is in the stream and stays, and each entry too many is paid for by a lost answer. `Ack` is the worker: it does not shorten the stream.

### RateLimiter and Admission
`time` is the clock of Redis, which expires the key; `Stamps` are the values that an API process may pass as `now`, up to
`MaxSkew` away (its clock, and the time the call takes). A bucket that is not there is full. The history variables describe
a window that an observer opens at any moment (`OpenWindow`): what it `granted`, by how much late clocks have set `last_refill` back in
it, how often Redis had forgotten a bucket that was not full again. In `Admission` a request gets its `verdict` from `Limit` or
`LimitFailsOpen` and is then served by `Handle`; batches that fail validation have paid (`LimitInvalid`), and a script that is sent again pays twice (`LimitResent`).
One client: buckets of different clients are different keys. The controller is `Ingestion`, unchanged.

### Console
One operator, one incident. The server is reduced to `status` and `rca`, moved by `Execute` as `IncidentContract` allows and by other
operators (`Elsewhere`). An RCA is `"usable"` or one whose MTTR overflows its column: that one is stored although its submission fails, refuses every close for ever
(`MayMove`) and cannot be replaced, so that `PersistenceCloses` promises the close only without it. Further, the row of the feed may be anything that `Dashboard!NeverAhead` allows (`Answers`). `loads` are calls of
`load()` in flight with the tab they were started for, answered in any order; slot 0 is the one inside
`handleStatusAdvance`. `calls` is the PATCH or POST of each page: `phase` is where it is, `client` who still waits
for it; `Timeout` leaves it to be executed later (`gone`), and leaving the form leaves a submission that still navigates (`left`).
`error` of the detail page is never reset, as in the code. Left out: the texts of messages, the paging of signals, the prompt for a
reason (a click that is cancelled there is no click), and pages that are left while their load is under way (the same as
leaving just afterwards, since the state is lost either way).

### IncidentList
`Begin` fixes `NOW()`, `Commit` writes it: the row lock may take `updated_at` back, and two transactions may have the same `NOW()`. Rows of one severity and one
`updated_at` tie (`Tied`): the ORDER BY leaves their order open, and each page takes another one (`Whims`), which may show one of them twice and never the other
without a single write. `Count` and `Answer` are the two queries of a
page. `steady` are the incidents listed when the client asked that since then were neither written nor tied: `MissedBounded` is about them. Of
tied ones the code may hide any number. `left`, `late` and `arrived` count the only changes that may hide something, the first two since the client asked for its first
page. The client stops at `totalPages`.

### AlertStrategies
`SeverityOf` is `resolve(service_type).determineSeverity(signal)`. Payload fields that are absent or falsy are 0. No run: the module
has no state, and its theorems (in `DebounceProofs`) hold for every signal.

## 3. Runs

Runs that pass:

| Run | Instance | Shows |
|---|---|---|
| `SignalPipelineRace` | 1 entry, 2 consumers with 2 loops each, 2 attempts, 3 faults | `NoSignalLost`, `ProcessedWasApplied`, `EffectsWithinAttempts`, `OneRunPerAttempt`, `DeadLettersBounded`, `ProcessedNeverRestarts` |
| `SignalPipelineBatch` | 3 entries of 2 signals, batches of 2, 1 attempt, 2 faults | `ImplementsFate` with its fairness: every entry is ACKed, and only behind an outcome |
| `DebounceRace` | 2 signals of 2 attempts, 4 items, 1 overrun, 2 faults | `NeverUncommitted`, `ActiveBounded`, `OnlyOwnerUnlocks`, `ClosedStaysQuiet`, `EverySignalSettles` |
| `AuditRace` | 3 runs of 1 signal, 2 workers, limit 1, 2 faults | `AckedIsStored`, `EntriesBounded`, `EveryEntryLeaves` |
| `LifecycleRace` | 2 operators, pool of 2, 3 values of incident_end (one too small, one too large), 1 fault | `HistoryIsLifecycle`, `ClosedIsExplained`, `ImplementsContract`, `EveryRequestAnswered` |
| `DashboardRace` | 1 incident, 2 signals, 2 writers, a page, 2 faults | `NeverAhead`, `LoneRefreshIsExact`, `DanglingIsRepaired` |
| `IngestionBatches` | batches of 3 and 1 and an invalid one, bucket of 3, 2 places, clocks a second off, 1 fault | `GrantsBounded`, `WaitingEarns`, `StreamBounded`, `AcceptedStays`, `EveryBatchAnswered` |
| `Console` | 3 tabs, 2 loads at a time and the one of an advance, 1 fault | `WaitingIsBacked`, `MovesAsSeen`, `FeedSettlesOnTab`, `PersistenceCloses` |
| `IncidentList` | 3 incidents in 2 severities, pages of 1, 3 writes | `MissedBounded` |

Every run but `SignalPipelineBatch` also checks the `TypeOK` of its module.

Runs in which TLC refutes a sentence of the documentation or of a comment:

| Run | Refuted | What the code does |
|---|---|---|
| `SignalPipelineAudit` | `signal.processor.ts:171-172`: the audit task has been durably scheduled | a crash between audit row and XADD; the retry sees the row, skips the XADD and marks the signal processed |
| `DashboardClosed` | `architecture.md:237`: closed incidents are explicitly removed | a refresh that read before the close writes the incident back |
| `IngestionDrains` | `backpressure.md:351`: the queue drains by itself | the script compares XLEN, and XACK does not shorten the stream: a stream that once held the maximum rejects everything |

### Divergences without a run of their own

Met while modelling; the definition named is where the model has the code's behaviour.

| The text says | The code does | Definition |
|---|---|---|
| `README.md:223`: the ledger prevents duplicate business-side processing | a retry after the commit of `addSignal` counts the signal again; `EffectsWithinAttempts` is the bound that holds | `SignalPipeline!BusinessFails` |
| `ingest-ledger.repository.ts:19`: DLQ is terminal | a slow attempt overwrites the status; what is terminal is `processed_at` and the dead letter | `IngestLedger!MarkedFailed` |
| `debounce.service.ts:27-28,37`: one work item, losers never create | one more for each lock that expires under its owner (`ActiveBounded`) | `Debounce!LockOverrun` |
| `debounce.service.ts:47`: the lock's TTL is 2 seconds | 10, unless configured (`debounce.service.ts:106`) | – |
| `architecture.md:187`: new signals reopen a CLOSED incident | they are added to it within the window, and create another one after it | `Debounce!AddSignal` |
| `architecture.md:186`: RESOLVED can be reopened | refused with 422 | `IncidentLifecycle!Allowed` |
| `rca.service.ts:17`: submission computes the MTTR | a failure between the two statements leaves an RCA without it until the close, and resubmission is refused | `IncidentLifecycle!SubmitFails` |
| `signal.repository.ts:16-17`: the linked work item is final | a run after PERSISTED changes the ledger and not the document | `AuditLedger!Scheduled` |
| `README.md:249`: durable audit persistence | MAXLEN may evict an unread entry, which nothing schedules again | `AuditPipeline!Enqueue` |
| `architecture.md:238`: missing summaries are backfilled | only those of ids in a state set; an active incident in none is hidden while other ids make the read a hit | `Dashboard!Hit` |
| `stream-producer.service.ts:14`: QUEUE_FULL gives 503 | 202 with counts | `Ingestion!Answer` |
| `rate-limiter.middleware.ts:13`: no boundary doubling, which would allow 2x at edges | a second lets capacity + rate pass, with the defaults 2x the rate (`GrantsBounded`) | `RateLimiter!Script` |
| `rate-limiter.middleware.ts:20`: each accepted signal consumes a token | so does each signal of a batch that validation or `QUEUE_FULL` then rejects | `Admission!LimitInvalid` |
| `rate-limiter.middleware.ts:109`: try again later | a batch larger than the capacity is refused for ever | `RateLimiter!Credit` |
| `LiveFeed.tsx:143`: closed tickets are loaded directly from the source of truth | a late answer of another tab replaces them until the next poll | `Console!FeedArrives` |
| `README.md:256-257`, `design-patterns.md:11-12`: caches are P2, the default is P3 | a cache with a miss rate above 50 is P1, an unknown service gets the severity its producer claims | `AlertStrategies!SeverityOf` |

### Bounds
- *Two of everything that races.* The hazards are pairs: an overrun lease needs two loops, an
  overrun lock two creators and a third one to see whether the bound is tight, a stale refresh two
  writers, a scheduled audit two runs and a third one after a failure. Two consumers with two loops each cover redelivery to another process and to the same one.
- *Attempts 1 or 2.* Enough for a first run, a retry and the exhausted run that hands off; in `DebounceRace` both runs of a signal may wait in vain.
- *Faults 1 to 3.* Each hazard needs one or two; one more leaves a fault for the recovery. Faults bound the number of
  crashes, failed calls, overruns and evictions together.
- *`MaxSignals`, `Items`, `Ends`, `MaxLength`* are as small as lets the limit be reached.
- *`Console`*: a page has one call at a time, as its buttons are disabled while it waits; a call that was given up keeps
  its slot until it is executed. Two loads and the one of an advance reorder in every way. Of the four tabs, INVESTIGATING behaves like
  OPEN: both offer an advance.
- *`MaxTime`, `MaxSkew`, `MaxInvalid`* are 1: a late clock, an early one, a refill and an eviction all happen, as do
  refusals before and after them. The bucket goes by eviction only: its TTL is longer than `MaxTime`. A bucket that
  expires by itself has the same effect on the script, and `LimiterIsBounded` covers it for every TTL.
- *`MaxFaults` of `IngestionBatches`* is 1: either an answer is lost and the script sent again, or a call fails after it ran, or the
  limiter fails open. The theorems of `AdmissionProofs` have no such limit.
- *`IncidentList`* starts with incidents that are absent, OPEN or INVESTIGATING; three writes move, create, reorder and tie them
  between the queries of three pages. Three is the least with which each of `left`, `late` and `arrived` is needed; larger pages are the
  theorem's.
- *Four uuids in `DebounceRace`*: every incident that closing, failing and the overrun can call for, so that `Create` is never short of one.
- Deadlock is not checked where all work can be done (every entry ACKed, every request answered); it is checked in
  `LifecycleRace`, where operators always may ask again.

### Fairness
- Steps of a live handler are weakly fair: Node runs the continuation of a settled await, every call returns or throws,
  both loops run until shutdown, and a crashed worker is restarted by the container. Failing steps are not fair.
- `LeaseLapses` and `LockLapses` are weakly fair: time passes. Overruns are not.
- `LockForUpdate`, `InsertRca`, `UpdateMttr` are strongly fair: PostgreSQL queues lock waiters and the pool queues
  clients in order of arrival. `ConnectionTimeout` and `RefreshTimeout` are steps of a waiter, from `connectionTimeoutMillis`.
- Pages poll every 20 seconds (`LiveFeed.tsx:61-66`), so steps of readers are weakly fair.
- ACKs of workers in `IngestionDrains` are weakly fair; `ImplementsFate` of `SignalPipeline` is why.
- In `Admission` the middleware and the controller are weakly fair, like every live handler.
- In `Console` the interval fires every 20 seconds and axios answers or gives up within 10 (`client.ts:7`), so `Poll`, arriving
  loads, the API and the answers of calls are weakly fair. The operator is not, except in `PersistenceCloses`, which *assumes* one: who keeps
  coming back to feed and detail page (weakly fair) and uses the RCA link, the move button and the submit button whenever they are offered again and
  again (strongly fair: pages come and go).

## 4. Proofs

For every value of the constants under the named assumptions of each module (bounds are naturals,
names do not clash). TLC checked each invariant on the instances above first.

**SignalPipelineProofs.** `TypeCorrect` is inductive by itself. The other theorems need strengthenings:
- `SettledInv`: `NoSignalLost` says nothing of a loop that is about to ACK. `StatusBacked` adds that
  the ledger's PROCESSED and DLQ statuses are backed by `processedAt` or a dead letter, `AckBacked` that a loop in `ack` or `ackDlq`
  holds a settled signal. Gives `NoSignalIsLost`.
- `AttemptInv`: a running loop has an admitted number, at most the row's count, and within `MaxAttempts` where it may still
  touch the work item; `begin` hands out count + 1, so numbers stay distinct although leases overrun. Gives
  `RunsAreNumbered`, `EffectsBounded`, `DeadLettersExhausted`.
- `AppliedInv`: from the update on, the loop's signal has been applied, from the audit row on it has one, and neither is taken back.
  Gives `ProcessedIsApplied`.
- `NeverRestarts` is an action property from `TypeOK` alone: `beginProcessing` returns before it counts.
- `FaultsPay`: an account of each signal. The attempts so far, the loops that are about to record a failure (`Failing`), and 1 if another
  attempt may begin without a new fault (`Due`: the signal is not finished, and no attempt of it that still runs holds a fresh lease) are
  together at most 1 + `faults`. `StepAccounts` shows that a step leaves the account alone, turns `Due` into an attempt, turns a failing loop
  into `Due`, or is a fault that pays for one of them. `DeadLettersAreBounded` follows with `AttemptInv` (dead letters
  bear different numbers beyond `MaxAttempts`), `EffectsPaidByFaults` with `EffectsBounded`. A lease that lapses costs
  nothing by itself: it was abandoned by a fault that has been paid. `TypeOK` and `AttemptInv` do not suffice for it: they bound attempts by
  nothing.
- `ImplementsFateSafety`: every step keeps `(acked, outcome)` (`SameFate`), adds one outcome, or ACKs a settled entry; the last case is
  `SettledInv`.

**DebounceProofs.** `TypeCorrect`; `KeysAreCommitted` with `TargetsExist` (whoever caches, publishes or adds has a
committed target); `LockIsKept` step by step from the token comparison. `ActiveIncidentsBounded`: the active incidents and the runs
that are about to create one are counted together. Whoever creates has seen no active incident under its lock, so a run
that still has the lock accounts for the 1, and every run that creates without it lost the lock to an overrun. With the
cardinality lemmas of `FiniteSetTheorems`, the sum is at most 1 + `overruns`. `ClosedIncidentsStayQuiet` is an action property
from the same facts: only a lookup, the key or a late publish names an incident, and none of them starts to name a closed one.
`DebounceImplementsPromise` (`Spec => Promise!Spec`) hides keys, locks, targets and awaits: `Create` opens an incident, because a creator is
counted in the sum above and so at most `overruns` others are active; `AddSignal` adds to a committed one (`TargetsExist`); `Finish` settles
a signal that is linked (`LinkedWhenPast`); a signal that is given up settles nothing; failures, crashes and the TTL of keys are stutters. `SameCardinality` is there because the instance brings its own
copy of `Cardinality`. The bound on active incidents and the committed keys are what `DebounceRace` checks of it; the refinement itself is proved and is not a property of a run.

**AuditPipelineProofs.** `TypeCorrect` needs that entries belong to scheduled runs and that the stream holds entries. `StoredInv`: two
workers of one signal know of each other only by the row, so that what the row says (PERSISTED, DLQ) must be stored, and what a worker is about
to ACK as well; it gives `AckedEntriesAreStored` and `PersistedRowsAreStored`. `CountInv` gives `EntriesAreBounded`: entries, runs
that will still add one, workers that are about to write FAILED, and a row that is FAILED already add up to at most `faults` + 1, because a
second entry is added only where the row was FAILED, and it is made FAILED only by a fault. `PaidInv` is the account of `FaultsPay` for the
audit row, where `schedule` may turn FAILED into PENDING, and a late `markFailed` may reopen a PERSISTED row; with the numbers of the attempts it
gives `AuditDeadLettersArePaid`. `AuditImplementsFateSafety`: `acked` are the ACKed entries, `outcome` what `signals_raw` and the DLQ have; `Persist` and
`DlqSend` settle, `Ack` is backed by `StoredInv`, and `AddedOnce` is why XADD and the length limit never take an ACK back.
The fairness of `SignalFate` does not hold there: the limit evicts entries that nobody has read.

**DashboardProofs.** `BaseInv` strengthens `ProjectionNeverAhead` by what is on its way into the cache: no view of a writer and no row that a
page warms the cache with is ahead of the table. `CleanInv` gives `LoneRefreshesAreExact`: for an incident whose refresh has run
alone so far it says at each await what the writer knows and what the projection holds.

**AdmissionProofs.** `BucketInv`: both bounds of a window and tokens within the capacity; the credit that a script finds is at most the tokens
and their refill, or the capacity of a forgotten bucket, and at least as much as waiting earned. `LimiterIsBounded` and `WaitingIsNotLost` follow;
`AdmissionMovesBucket` shows that every step of `Admission` is a step of the bucket or leaves it alone, hence `AdmissionImplementsBucket`
(`AdmissionSpec => BucketSpec`). `AdmissionTypeCorrect`,
`StreamStaysBounded`, and `AcceptedSignalsStay` (the script adds only where there is room, so MAXLEN never evicts; and the entries are counted: one for each accepted signal, and one
for each fault that may have left another). `CountInv` says that the
signals started are those in flight, accepted or rejected, and gives `AnswersAddUp`, the state part of `EveryBatchAnswered`.
`GhostsArePaidByFaults` bounds the signals that were reported as rejected and are in the stream nevertheless, so that a client that
sends them again puts them there twice: with every accepted signal in the stream, they are among the entries too many, and each costs a lost answer.

**ConsoleProofs.** `ConsoleInv`: types, a call that may still be executed knows a status with a successor, only the form submits, and
`WaitingIsBacked`; one lemma per group of actions. `ClicksMoveAsSeen` follows because the API moves an incident only to the
successor of its status, and different statuses have different successors.

**AlertStrategies** (in `DebounceProofs`). `SeverityIsLegal`, `ProducerDoesNotDecide`, `WorseIsNotLessUrgent`: by cases over the services. The last one needs that
the rate is reported under the same name: a `miss_rate_percent` that rises from 0 hides a higher `missRate`.

**IncidentListProofs.** The list is never built as a sequence: the place of an incident is the number of incidents before it (`Place`), and a page shows the places
from `(page - 1) * Limit` on. `TypeCorrect` takes two inductive parts: `Types` and `Pages` (where the client is). No assumption is made on the clock. `SteadyUntied`: the steady incidents
tie with none, so that a page shows them by their place whatever decides between others (`UntiedShown`). `NoneHidden` strengthens `MissedBounded` to the middle of the reading: the steady incidents that the
client has not seen and that are on pages before its next one (`Behind`) are at most `left + late`. A commit takes an incident to another place, and
so moves each other one by at most one: forwards only when it leaves the list or falls behind (`PlaceKept`, `PlaceDrops`), which is
what `left` and `late` count, and then at most one steady incident, as their places are distinct (`PlaceInjective`), gets past the boundary
(`CommitBehind`). A page shows all that is not behind it up to its end (`RowsShown`), and the last page leaves out only what has arrived since it
was counted (`BeyondArrived`). `FewAreMissed` follows.

**IncidentLifecycleProofs.** `TypeCorrect` (with the width of `mttr_seconds`); `Locked`: whoever is past the lock holds it and has seen the current status;
`RcaKnown`: what a closing operator read is the RCA, which never changes. Together they give `ClosedExplained`,
`HistoryCorrect` and the refinement `LifecycleImplementsContract`.

**Model-checked only.** Liveness and everything with fairness (the fairness of `SignalFate`, `EverySignalSettles`, `EveryEntryLeaves`,
`EveryRequestAnswered`, `EveryBatchAnswered`, `DanglingIsRepaired`, `FeedSettlesOnTab`, `PersistenceCloses`): out of reach of the prover.
Every invariant and every `[][A]_v` property of a run is stated by a theorem, as is the safety part of each refinement.

## 5. Not modelled

- The reads of one incident (`findByExternalId`, signals, history, RCA), statistics and summaries: single queries of one store. What
  a page does with their answers is in `Console`, and the paging of signals differs from `IncidentList` by having no updates.
- Metrics and health: counters of one process that are logged and reset, probes that nothing else reads.
- Wiring, schemas, the sample loader: set-up; which process runs which loops is a constant of the models, and the constraints of the schema are part
  of the modules that meet them.
- Content of signals, RCA texts and scores: no property depends on them. That the RCA is complete is a constraint of its DTO and table.
- Configuration that is not a positive number: `RATE_LIMIT_REFILL_RATE` of 0 makes `expire` fail after `hmset` and every
  request pass; `AUDIT_WORKER_CONCURRENCY` of 0 makes the chunk loop endless. The named assumptions exclude them.
- `getNotificationChannels` and `shouldPage` of the strategies: nothing calls them.
- Graceful shutdown: `onModuleDestroy` only clears a flag; what it leaves behind is what a crash leaves behind.
- Loss of Redis or PostgreSQL data, and MongoDB beyond an upsert that succeeds or throws.

Known exposures without a property: incidents of the list that tie in severity and `updated_at`, a fail-open of the limiter that would answer 429 (an answer is all that
`EveryBatchAnswered` asks for), audit documents that keep an old work item and incidents hidden from the feed (hazards with the reason), batches rejected with 202,
unchecked `page` and `limit` of the list (PostgreSQL refuses what is no legal LIMIT or OFFSET), the configuration above.

## 6. Sensitivity

Each property of a passing run has a mutant: a definition of the model changed the way a plausible bug would change the code
(a lease that never expires, a waiter that creates anyway, a DEL without comparison, a rejected call that is not
counted), under which the same run reports that property as violated.

## 7. Plan

Done: the signal path end to end (limiter, ingestion, worker, ledger, debounce, audit), the lifecycle, the dashboard, the list, the
pages and the strategies, with the proofs above. What would be worth doing next:

1. The composition of `ComponentIncidents` with `IncidentLifecycle`: closes through the workflow while signals arrive.
2. One account for both pipelines: the number of times that a signal is scheduled for its audit, bounded by the faults of both.
3. Two incidents in `Dashboard`, with the limits of 50 and 100 ids, for incidents that drop out of the feed.
4. The same for answers of the console: what a tab shows, as a refinement of what the API promises.
