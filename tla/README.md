# ShieldStream: TLA+ models, checks and proofs

ShieldStream is a multi-tenant API gateway (FastAPI, Redis, Postgres/TimescaleDB),
two stream consumers and a live dashboard. This directory models the parts of it
whose correctness depends on the order in which things happen: limits enforced by
several replicas, caches that race their invalidation, consumers that crash between
two awaits. TLC checks the models on small instances; TLAPS proves the central
results for every value of the constants.

Paths below are relative to the repository (`src/`).

## 1. The system

| Part | State it keeps | Operations | Talks to |
|---|---|---|---|
| tenant authentication (`gateway/app/auth.py`) | `apikey:<hash>` in Redis, TTL | `get_tenant`: GET, SELECT on a miss, SET | Redis, Postgres |
| policy cache (`gateway/app/policy.py`) | `policy:<tenant>:<route>` in Redis, TTL 10 s | `get_policy` | Redis, Postgres |
| rate limiter (`rate_limiter.py`, `lua/sliding_window.lua`) | one sorted set per key with an expiry; Redis's script cache; `_script_sha` per replica | `check_rate_limit`: SCRIPT LOAD, EVALSHA, one retry on NOSCRIPT | Redis |
| fallback limiter (`fallback_limiter.py`) | `_buckets`, `_last_seen` in each replica | `in_memory_check`, `_evict_stale` | none |
| rate-limit dependency (`middleware/rate_limit.py`) | none | lookup of the policy, check, fail open or closed | the three above, emitter |
| admin API (`routes/admin.py`) | the policy row and its `version` | `update_policy`: conditional UPDATE, commit, PUBLISH | Postgres, Redis Pub/Sub |
| invalidation listener (`policy_invalidation.py`) | its subscription | SCAN and DEL of the tenant's keys per message, reconnect | Redis |
| event emitter (`event_emitter.py`) | in-flight tasks | XADD with MAXLEN ~ | stream `request_events` |
| analytics consumer (`consumers/analytics`) | the PEL of `analytics-cg`, a batch in memory, `request_metrics` | recover own pending, adopt orphans (XAUTOCLAIM), read, upsert, XACK | Redis, Postgres |
| alert consumer (`consumers/alerts`) | the PEL of `alert-cg`; dedup window, RPS buckets, baselines in memory | drop own pending, scan, publish, tick, score, snapshot, evict | Redis |
| dashboard fan-out (`routes/dashboard_ws.py`, `main.py`) | set of WebSocket clients | subscribe, broadcast, connect, disconnect | Redis, browsers |
| dashboard hook (`dashboard/lib/useDashboardSocket.ts`) | socket, timer, backoff, capped lists | connect, reconnect, cleanup | fan-out |
| request path (`routes/proxy.py`, `metrics.py`) | the counters of `/metrics` | refuse, block, forward, answer, emit the event | upstream, emitter |
| aggregation (`consumers/analytics/aggregate.py`, `UPSERT_SQL`) | rows of `request_metrics` | rows and percentiles of a batch, merge into the table | Postgres |

What is hard about it:

* *Interleaving across replicas.* Every `await` of a gateway is a point where another
  request, on this or another replica, runs. The limiter reads its clock before its
  round trips; a lookup stores what it read before an update.
* *Crashes.* Consumers catch no Redis or Postgres error: each one ends the process, and
  the container is started again (`restart: unless-stopped` in
  `infra/docker-compose.prod.yml`; the development file leaves it to the operator). Whatever
  is between the commit and the XACK happens twice; what is only in memory is gone. In the
  gateway, an uncaught exception ends only its task: the fan-out loop stays dead while the
  replica goes on serving.
* *Callbacks that come late.* A browser socket's `onclose` runs after its effect was cleaned
  up and another one has taken over the shared refs.
* *Locks.* Two workers upsert overlapping rows in the order their batches met them, which
  can deadlock in Postgres; one transaction is aborted.
* *Messages.* Pub/Sub forgets what is published while a listener reconnects; a stream
  redelivers; MAXLEN trims entries that are pending.
* *Time.* Socket timeouts do not cancel commands: Redis may execute an EVALSHA or SET whose
  caller gave up. Clocks of replicas differ; expiry runs on Redis's clock.

`PROJECT.json` lists the hazards at the lines where they bite, with the properties that
cover each.

## 2. Modules

| Module | Models | Extended by |
|---|---|---|
| `AnalyticsConsumer` | stream, consumer group, any number of analytics workers, `request_metrics` | `MCAnalyticsConsumer`, `AnalyticsConsumerProofs` |
| `RateLimiter` | one limiter key: replicas, script, script cache, fallback | `MCRateLimiter`, `RateLimiterProofs` |
| `ReadThroughCache` | `get_policy` and `get_tenant` over a versioned row: the abstract specification of a cached lookup | `MCReadThroughCache`, `ReadThroughCacheProofs` |
| `PolicyCache` | hot reload: `update_policy`, the announcements, the listeners, composed with the lookups of `ReadThroughCache` (`Cache == INSTANCE ReadThroughCache`) | `MCPolicyCache`, `PolicyCacheProofs` |
| `AtLeastOnce` | abstract: what the analytics pipeline promises, without consumers, deliveries or crashes | instantiated by `AnalyticsConsumer` |
| `AlertConsumer` | the alert consumer with its dedup window, RPS counter and baselines | `MCAlertConsumer`, `AlertConsumerProofs` |
| `GatewayRequest` | one gateway process: outcomes of requests, counters, emit tasks, the stream | `RequestMetrics` |
| `Aggregate` | `aggregate.py` and the upsert as operators, with the reference definition of a percentile | `RequestMetrics` |
| `RequestMetrics` | the composition of the two with the transactions of the analytics workers | `MCRequestMetrics`, `RequestMetricsProofs` |
| `DashboardFanout` | the WebSocket handlers and `fanout_loop` of one replica | `MCDashboardFanout`, `DashboardFanoutProofs` |
| `DashboardSocket` | the hook `useDashboardSocket` | `MCDashboardSocket`, `DashboardSocketProofs` |

Definitions whose comment begins with "Mutant" are deliberately wrong
variants of a definition below them. They are not part of any specification; each
shows that a property can fail.

### AnalyticsConsumer

A stream entry is its position. Increments commute, so the table is `counted[e]`, the
number of committed upserts entry `e` was part of. A worker's location is the await it is
at; `batch` is what `run` has accumulated, `args` what the `flush_batch` under way got and
`caller` who awaits it. `owner` and `idle` are the PEL. Each handler is one action per
await: `Start` (group creation), `RecoverOwnPending`, `AdoptOrphanedPending`,
`ReadThenFlush`/`ReadWithoutFlush` (one turn of the loop), `FlushWrite`, `FlushRaises`,
`FlushAckRecovery`/`FlushAckRun`, and `Crash` at any of them. Redis's side (what XAUTOCLAIM visits, its cursor,
entries it finds trimmed) follows Redis 7.4 with redis-py 5.2.1.
Entries come in three kinds: an `event`, a `malformed` one that `parse_event` drops, and
an `unwritable` one that parses and makes `minute_bucket` or `executemany` raise.
`LiveMayStall` says whether a live worker may hold an entry for longer than
`XAUTOCLAIM_IDLE_MS`.

`ImplementsAtLeastOnce` is the refinement of `AtLeastOnce`: an entry is *written* when
`counted` is positive, *dropped* when it is malformed or was trimmed, and *settled* when
it was delivered and is pending no more. Consumers, batches, claims and crashes map to
stuttering; what is left is that nothing is settled that was neither written nor dropped,
that nothing settled comes back, and that only the newest `STREAM_MAXLEN` entries are safe from trimming.

### RateLimiter

A request is one call that has a policy. `called` is when it read the clock, its score that
time on its replica's clock (`Offset`, bounded by `Skew`), `ran` when the script ran.
`sent` holds EVALSHAs that Redis has not executed, those of callers that gave up included.
`Delay` is how long a call waits for Redis before the socket timeout makes it give up
(`redis_client.py`). Redis keeps its data over a restart (append-only file,
`infra/docker-compose.prod.yml`) and loses its script cache.

### ReadThroughCache and PolicyCache

The row has versions; `since[v]` is when `v` was committed. A lookup is GET, SELECT, SET
with every error path; a SET that timed out may be executed up to `Delay` later
(`StoreLate`). `PolicyCache` adds the row lock and optimistic check of `update_policy`,
PUBLISH to the connections that are subscribed, and per replica a listener whose SCAN meets
each key at a time of its own before one DEL. `Junk` messages are what another client
could publish.

### AlertConsumer

One process (the docs fix it to one replica), with its incarnations numbered by `life`.
`Scan` takes a message from the batch, `Match` handles one matched rule through
`ShouldPublish`, `Publish` is the awaited PUBLISH, `Record` counts the request;
`TickWindow`, `Score` and `PublishMetricSnapshot` are the end of a loop turn. Patterns
are abstracted to the list of rules an entry matches; a z-score is a free choice once the
baseline has `MIN_SAMPLES`. `SECOND` is the number of instants in a second, so that
`int(time.time())` is a real rounding. A blocked XREADGROUP may come back empty at any
time: BLOCK_MS is not timed. Wall clocks are assumed not to step back.

### GatewayRequest, Aggregate and RequestMetrics

A request is refused (401, 422, 503, 500: neither counted nor emitted), blocked (429), or
forwarded and then answered or failed by the upstream. Who is let through is the subject
of `ReadThroughCache` and `RateLimiter`; here any outcome may happen. `EmitEvent` schedules a
task whose XADD Redis may execute, lose, or execute after the task has timed out (`wire`).
`Stop` cancels tasks, which `_on_task_done` does not count as failures.

Nothing in the gateway narrows the statuses an upstream may answer with; the HTTP client demands three digits
(`StatusCodes`). `status_class` labels those from 600 on "6xx" to "9xx", while `aggregate_by_bucket`
counts every status from 500 on as `status_5xx`. So the two sources differ on "5xx" when there are such
answers, without any fault, and `SourcesAgree` says what does hold: `status_5xx` is the sum of the
classes from 5xx to 9xx.

`Aggregate` keeps a row's percentiles multiplied by its number of unblocked requests, which is
the numerator of `UPSERT_SQL` and makes the merge exact in integers; the division by
`NULLIF(...)` is the inverse, and a NULL percentile is one of no samples. `math.ceil(p * n)` is the
integer ceiling, which the floating-point product agrees with for every batch the code can
form. `sorted()` is modelled by what it promises, an order of the samples in which none is
greater than the next: every such order gives the same latencies.

`RequestMetrics` adds the transaction of `flush_batch`: one upsert after another in the
order of the rows, each keeping its row lock, with Postgres aborting a transaction of a
waiting circle. Deliveries are reduced to a cursor and a batch that is delivered again after a
crash: `AnalyticsConsumer` has the rest of them.

### DashboardFanout and DashboardSocket

`Iterate` is a step of Python's set iterator, which raises when the size of the set is not the
one it started with; a join and a leave during the same send cancel out. A client that joins
during a broadcast may or may not be visited. `churn` records when the set changed during a
broadcast.

In `DashboardSocket` every callback is one step of the browser's event loop. `owner` is
the effect in whose closure a socket was made, so that `Cancelled(owner[s])` is its `cancelled`;
the refs are shared by all effects. Sockets that are garbage are used again, so three are enough for any
number of attempts.

## 3. Runs

| Run | Checks | Result |
|---|---|---|
| `analytics_safety` | `TypeOK`, `NoLoss`, `NothingStranded`, `DuplicatesOnlyFromCrash`, `ExclusiveHold`, `ImplementsAtLeastOnce` | two workers, three entries of any kind, two crashes, trimming: holds |
| `analytics_liveness` | `EventuallyHandled` | two workers, one never restarted, claims from live workers: holds |
| `analytics_kill_restart` | `NoDoubleCount` | violated: one crash between commit and XACK counts a batch twice |
| `limiter_skew` | `TypeOK`, `SlidingWindow` | clocks one instant off either way, late scripts, expiry, NOSCRIPT: holds |
| `limiter_fallback` | `NoFalseBlock`, `FallbackCeiling` | both limiters at work on the same key: holds |
| `cache_staleness` | `TypeOK`, `StalenessBound` | lookups racing commits, evictions, late SETs: holds |
| `policy_hot_reload` | `TypeOK`, `PushInvalidates`, `SignalAfterCommit`, `NoLostUpdate`, `ImplementsCache` | two administrators, a replica, failed commits and PUBLISHes, malformed messages: holds |
| `alert_safety` | `TypeOK`, `NoDoubleAlert`, `MissedOnlyByCrash`, `NoBacklog`, `DedupSpacing`, `SuppressionJustified`, `SnapshotsAddUp`, `OneSamplePerSecond` | one crash anywhere, trimming, malformed entries: holds |
| `request_metrics` | `NoInvisibleDrop`, `TableExact`, `PercentilesInRange`, `BatchPercentiles`, `SourcesAgree` | four requests, two rows, two workers, one fault, any deadlocks: holds |
| `dashboard_fanout` | `TypeOK`, `DeathExplained`, `GaplessFeed`, `FeedProgresses` | three clients that come and go, two messages, Redis failures, restarts: holds |
| `dashboard_survives` | `BroadcastSurvives` | violated: a client that leaves during a send ends the loop for everyone |
| `dashboard_socket` | `TypeOK`, `OneAttempt`, `OrphansExplained`, `ShowsNewest`, `Reconnects` | three effects, late callbacks, a gateway that comes and goes: holds |

The violated properties are statements of the repository; `PROJECT.json` quotes each
under "findings". The passing runs state what does hold in their place: over-counting
is *exactly* explained by crashes between commit and XACK (`DuplicatesOnlyFromCrash`), the
limiter keeps its limit over a window shortened by the delay and twice the skew
(`SlidingWindow`), an answer is outdated for less than the TTL plus the time a SET
may be under way (`StalenessBound`; `policy_invalidation.py` speaks of "worst case a
10-second-old policy"), and a handled announcement leaves only what was *stored* after
the update (`PushInvalidates`: a lookup that read the old row may still store it after
the DEL, and it then lives for its TTL). The fan-out loop ends only when the set changed
during a broadcast or Redis was lost (`DeathExplained`), and until then no failing client
costs another one a message (`GaplessFeed`, `FeedProgresses`). A socket of the dashboard
outlives its effect only if the late `onclose` of an older one had cleared `socketRef`
(`OrphansExplained`); even then it schedules no reconnect (`OneAttempt`).

Four more behaviours are in the models without a run of their own: an entry that parses
but cannot be written (`unwritable`) makes the worker raise again at every restart; a
call that is delayed after reading its clock can lead to more admissions than the limit
within one full window, which is why `SlidingWindow` is about a shorter one; a message that is JSON but no
object ends the invalidation listener, after which the TTL alone bounds staleness; and a second in
which an endpoint has no traffic gives its baseline no sample. About the last the repository disagrees with itself:
the comment at `consumers/alerts/worker.py:206-207` says that "a traffic DROP to zero still produces a
per-second sample on both paths", the docstring at `consumers/alerts/rps_window.py:6-8` that such an endpoint
"simply produces no sample that second". `tick()` pops the buckets it has, and `record` makes one only for a
request, so the code does what the docstring says; on the other path, the snapshot, the rate is indeed reported
as 0. `Completed` follows the code, and no property of the alert consumer assumes either reading.

### Bounds

Each bound is a constant with `Max` in its name or a finite set, and is used in a guard.

* Analytics: three entries and a batch of two make a full batch, a partial one and an entry that
  arrives while a flush is under way; two crashes let the worker that recovers crash too;
  a MAXLEN of two trims pending and undelivered entries. The liveness run has two entries:
  one to be pending and one to keep the other worker busy.
* Limiter: three requests are enough for one more than the limit. The skew run has limit 1,
  and a window of 5 against a skew and delay of 1, which leaves a guaranteed interval of 2. The
  fallback run has limit 2, so that a grant that is out of the window and one that keeps the key
  alive can be in the log together, a window of 3 with a delay of 1, and multiplier 1.
* Caches: a TTL of 2, a delay of 1 and five instants let an entry be outdated, expire and
  be stored again; three versions let a late SET put back a value two updates old. The
  hot-reload run has two updates of the same row, a listener and one malformed message, and keeps
  time short (one instant passes), since expiry is the other run's subject.
* Alerts: three entries and four instants of half a second: a first occurrence, a
  suppressed one, and one after the window; two completed seconds, which is `MIN_SAMPLES`. An entry
  matches nothing, matches two rules, or does not parse. A sweep every two instants against a window of two lets a
  window end by the sweep or, between two sweeps, by the lazy reset.
* Request path: two requests for each of two rows, at most two in flight, so that two
  workers hold batches with the same rows in opposite order (the deadlock) and a row is merged
  more than once; the answers cover the 2xx, 4xx (a blocked request), 5xx classes, one without a column
  (3xx) and one that only the table counts as 5xx (600). One
  fault is a failed emission, a stop or a crash; deadlocks are not bounded. The system may stop
  when every request is done, so deadlock of the model is not checked.
* Dashboard: three clients are a failing one, a leaving one and one that must get everything; two messages are one
  that is interrupted and the next. Three effects make two cleanups, so that a
  late `onclose` of the first meets the socket of the third; a cap of 3 on an initial backoff
  of 1 is reached by the second failure.

Symmetry is used for workers, requests, lookups and updates in runs of invariants and
action properties whose names are interchangeable; never in a run of a liveness property.

Reaching the bound of time does not deadlock any model: lookups, restarts or the consumer's
loop go on.

### Fairness

`analytics_liveness` (`AnalyticsConsumer!Fairness`):
a worker that is up keeps running (WF of `Run`), one in `Restarting` is started again (the
restart policy), a pending entry grows old (WF of `Age`), and what the two timers of `run` trigger (the
flush after `BATCH_MAX_WAIT_S` and the sweep after `ORPHAN_SWEEP_EVERY_S`) happens again and
again: strong fairness, because the loop tests the timers each time round and the time
between two tests is bounded. No worker outside `Restarting` is assumed to return.

`dashboard_fanout`: the event loop runs what is ready (WF of `Subscribe`, `TakeMessage`, and of
each handler's `Leave`), and a send ends (WF of `Send`): it is drained, or the server closes a
peer that misses its pings. Nothing is assumed about clients, Redis or restarts.

`dashboard_socket`: timeouts fire; a socket that is closing, or connecting while the gateway is
away, gets its `onclose` (WF); and an attempt of the running effect that may succeed again and
again does succeed (SF of `OnOpen`), since connections fail for a time, not for ever,
while the gateway accepts them.

## 4. Proofs

| Module | Theorems |
|---|---|
| `AnalyticsConsumerProofs` | `TypeCorrect`, `NoLossCorrect`, `NothingStrandedCorrect`, `DuplicatesCorrect`, `ExclusiveHoldCorrect`, `PipelineImplementsAtLeastOnce` |
| `RateLimiterProofs` | `TypeCorrect`, `SlidingWindowCorrect`, `NoFalseBlockCorrect`, `FallbackCeilingCorrect` |
| `ReadThroughCacheProofs` | `TypeCorrect`, `StalenessCorrect` |
| `PolicyCacheProofs` | `HotReloadImplementsCache`, `HotReloadStaleness`, `TypeCorrect`, `SignalAfterCommitCorrect`, `NoLostUpdateCorrect`, `PushInvalidatesCorrect` |
| `AlertConsumerProofs` | `TypeCorrect`, `NoBacklogCorrect`, `MissedOnlyByCrashCorrect`, `NoDoubleAlertCorrect`, `DedupSpacingCorrect`, `SuppressionJustifiedCorrect`, `SnapshotsAddUpCorrect`, `OneSamplePerSecondCorrect` |
| `DashboardFanoutProofs` | `TypeCorrect`, `DeathExplainedCorrect`, `GaplessFeedCorrect` |
| `DashboardSocketProofs` | `TypeCorrect`, `OneAttemptCorrect`, `OrphansExplainedCorrect`, `ShowsNewestCorrect` |
| `RequestMetricsProofs` | `NoInvisibleDropCorrect`, `TableExactCorrect`, `SourcesAgreeCorrect`, `BatchPercentilesCorrect`, `PercentilesInRangeCorrect` |

The only assumptions are the named `ASSUME`s on the constants, which TLC evaluates in each run.
They say that limits, delays and bounds are numbers; that the endpoints are finitely many
(`ContentsAssumption`: they label the buckets of one process's memory), and so are requests and rows
of the table, and that the upstream's statuses have three digits (`GatewayAssumption`); and that an entry does not match the same rule twice (`scan_event` goes through the dict `RULESETS` once).

* *Nothing is lost* rests on `LossInv`: an entry that was delivered and is not pending is
  counted, poison or trimmed; what a `flush_batch` is about to acknowledge (`FlushInv`) is
  counted already; trimmed ids only grow (`TrimInv`). Without `FlushInv` the XACK step
  would not preserve `NoLoss`.
* *Nothing is stranded*: `ShapeInv` says which of `batch`, `args` and `caller` can be set
  at each location, so that a worker that leaves recovery owns nothing it does not hold.
* *Duplicates*: `HoldInv` makes holding exclusive. An entry held by a live worker is its own
  and not idle, hence no peer can claim it; `CountInv` then counts commits against crashes. Both
  need `~LiveMayStall`; the theorem says so in its statement, as the property does.
* *Sliding window*: `RetainInv` is the heart: a request granted less than the guaranteed
  interval ago is still in the log and the key has not expired, because a score differs from
  the time its script ran by at most delay and skew. `LogInv` and `TimeInv` bound scores and
  run times; `WindowInv` counts by inclusion of the granted set in the log of the last grant.
  `BlockInv` is the dual, for `NoFalseBlock`. The fallback ceiling has its own invariant (`BucketInv`,
  `CeilingInv`) since it needs `WINDOW <= EVICT_IDLE`.
* *Staleness*: `EntryInv` bounds how old a stored value can be when its TTL starts,
  `SourceInv` does so for values in the hands of lookups and for late SETs.
* *At least once*: `QueueInv` is `LossInv` with three facts that the mapping needs: before the
  group exists nothing was delivered and nobody is up (`GroupInv`), what is pending was
  delivered (`PendingInv`), and what is held or counted is in the stream (`AddedInv`). `QueueStep`
  maps XADD to `Offer` (`AddedStep`), a commit to `Write`, and an XACK, or a read that passes
  trimmed entries, to `Settle` (`SettleStep`, by `SettledIsDone`: what is settled is written or
  dropped); every other step stutters.
* *Refinement of the cache*: each step of `PolicyCache` is a step of `ReadThroughCache` or leaves its
  variables alone (`CacheStep`); `FoundInv` is needed for the DEL to be an `Evict`.
  `HotReloadStaleness` carries `StaleInv` of `ReadThroughCacheProofs` over the refinement.
* *Announcements and updates*: `UpdateInv` (the update that holds the row's lock expects the current
  version; one that is about to publish has made a later one) makes both `SignalAfterCommit` and
  `NoLostUpdate` inductive: between the UPDATE and the commit nobody else can make a version.
* *Push invalidates*: `ScanInv` says of every key that a listener's SCAN has passed by without
  returning it what `PushInvalidates` says once the announcement is handled: it holds nothing older
  than the announced version, or something stored since the update. The keys still to be scanned or
  about to be deleted are exempt, which is why the property needs the SCAN to be over.
  `SinceInv` (updates are not in the future) covers a lookup that stores an old value meanwhile.
* *The alert consumer*: `LocInv` says what the worker holds at each location. `StreamInv` joins
  `NoBacklog` and `MissedOnlyByCrash` with `ScanOnce` (a batch is delivered and not scanned yet).
  `NoDoubleAlert` needs `EventInv` and `PublishInv`: the rules left for the event at hand are distinct
  and have raised nothing, nor has the alert that is being published. For `DedupSpacing` and
  `SuppressionJustified`, `WindowInv` relates the two ways: an alert still within its window
  has its key in `_recent` (`RemembersInv`, which the sweep could break), and a key in `_recent` got there with
  an alert that was published or is at hand (`BeganInv`; a crash before the PUBLISH clears it).
* *Snapshots* are sums over sets, which `SumRecursion`, `SumSplit` and `SumIncrement` establish by
  induction on the cardinality (`SubsetInduction`); given these, `SnapshotsAddUp` is inductive.
  `SampleInv` counts for each endpoint the samples it has, those of the tick under way and the completed seconds
  whose bucket is not drained yet: together no more than the seconds since the start. A second that is
  not drained yet is the case that `OneSamplePerSecond` alone forgets.
* *The dashboard hook*: `AttemptInv` states the exclusive choice of `OneAttempt` with what decides it: a
  pending timeout is the one `timerRef` holds, so that the cleanup always finds it. `RefInv` says that
  the running effect's socket is in `socketRef` or was cleared from it by another one's `onclose`; it is what makes
  `OrphansExplained` survive a cleanup. `ShowsNewest` goes with the types: `LastType` and `FirstType`
  show that a capped list of consecutive numbers stays one when the next is added.
* *The dashboard feed*: `SizeInv` says that during a broadcast whose message is not in `churn`
  the iterator's size is that of the set, hence its RuntimeError needs a change of the set. `FeedInv`
  splits the clients at the iterator: those ahead of it have not got the message, the others
  have got it once; `CurrentInv` (the awaited client is behind the iterator) and `OrderInv`
  (nobody has a message that was not taken) make it inductive.
* *The request path*: `EventInv` follows an event from its task to the stream, and `CounterInv` says
  which sets of requests the counters count; `NoInvisibleDrop` follows by comparing sets, its sum over the
  status classes by `ClassesAddUp`, from `SumParts` (a set is as large as its parts together).
* *The table*: `TableInv` states `TableExact` for every counting column at once, as a sum of `counted`
  over the entries of the row (`Mine`). A commit adds to each row what `BatchColumn` says the batch's row
  holds, the number of the batch's entries in it, and `SumCount` says that the sum grows by just as much;
  `RowKeysCover` (every event's key is among `RowKeys`) is what makes a row that is not upserted one
  of which the batch has no entry. `BatchInv` keeps batches free of repetitions and apart from each
  other, and `EntriesKept` says that the event of an entry never changes once it is in the stream.
* *The two sources*: `OnceInv` says that without faults an entry is counted once it is in no open transaction,
  whatever deadlocks repeated. With it each row of a settled table is a cardinality; `SumParts` adds
  them up over the rows, and the injective stream is a bijection to the events that were made (`SettledColumn`).
* *Percentiles of a batch*: `OrdersExist` shows by `SubsetInduction` that finitely many samples can be sorted, so
  that the order `Latencies` chooses is one. `RankFacts` and `PrefixSize` then compare the nearest rank with
  the number of samples that are not greater: `PercentileCorrect`, for every share and every number of samples.
* *Percentiles of the table*: `RangeInv` bounds the numerators p50 and p99 of a row by every lower and every
  upper bound of its samples (`Between`), which unlike Min and Max adds up when a batch is merged
  (`BetweenAdd`) and survives as samples are added; `SamplesGrow` says that no step takes one away. Min
  and Max come in at the end, as bounds (`GreatestNumber`).

Only model-checked: liveness (`EventuallyHandled`, `FeedProgresses`, `Reconnects`), which the
prover cannot do.

## 5. Not modelled

* Mean and variance of the baselines (a z-score is a free choice once a baseline is warm).
* Headers and bodies that the proxy passes through.
* Regular expressions of `rules.py`; SQL pattern matching of routes.
* Row-level security, migrations, connection pools, seeding: configuration of Postgres. The code
  never sets `app.tenant_id`, which the policies test; the worker's role bypasses them.
* Logging, tracing, histograms and gauges: nothing reads them back. The counters are modelled.
* Rendering of the dashboard.
* Tests, load tests, Docker and Terraform files; read for restart policies and Redis
  persistence.

## 6. Plan

Done, in this order: analytics pipeline (durable counting), rate limiter, read-through cache and
hot reload, alert consumer, dashboard fan-out and hook, request path with aggregation, the
abstract at-least-once queue and its refinement.

Every safety property of the passing runs is a theorem; what is left to TLC is liveness.
