# Formal models of eventgate

eventgate receives webhooks over HTTP and publishes them to Kafka. An outbox in SQLite and a circuit
breaker stand between the two; a replay subsystem brings dead-lettered records back from the topics
that Kafka Connect writes; an operator may replace the routing table while the server runs.

This directory holds TLA+ models of that program, configurations for the model checker TLC, and proofs
for the TLA+ proof system TLAPS. Paths below are relative to the repository: the code is in
`src/src/`, its documents in `src/docs/`.

- Parse a module: `tlasany Outbox.tla`
- Check a run: `tlc -workers 2 -config MCOutbox_safety.cfg MCOutbox`
- Check proofs: `tlapm OutboxProofs.tla`

`PROJECT.json` lists the components, the runs, a mutated form of the code that each property detects,
the lines of code each definition stands for, the hazards, the findings and the theorems.

## 1. Inventory

Everything runs in one thread of one process (Bun): interleaving happens at awaits, timers and
requests. What survives the process is one SQLite file, Kafka's logs and the routes file.

| Component | State | Operations | What makes it correct |
|---|---|---|---|
| Circuit breaker `resilience/circuit-breaker.ts` | state, two counters, time of the next attempt | `execute`, `forceOpen`, `reset` | trips on consecutive failures; silent during the recovery window; closes when the broker is back |
| Producer handle `kafka/producerHandle.ts` | connection, last state seen, next attempt | `sendByTopic` through the breaker | its state follows the breaker's |
| Webhook handler `gateway/handler.ts` | none | parse, enqueue (or publish inline), answer | 202 only for what is stored |
| Outbox `outbox/{db,writer,drainer,backoff}.ts` | table `outbox`; a timer; the iteration in flight | insert, select a batch, publish, mark dispatched / retry / deferred / failed | at least once; no loss except by age; every copy has a cause |
| Replay job store `replay/jobStore.ts` | tables `replay_jobs`, `replay_state`, or maps; handles to cancel | create, update, setCancelHandle (bulk and automatic jobs only), cancel, cancelAll, sweep | terminal statuses stay; counters are kept |
| Replay runner, consumer, bucket `replay/{runner,consumer}.ts` | counters of a run, token bucket, a consumer | read, triage, wait for a token, send | watermark covers what was looked at; nothing is saved up beyond the bucket |
| Triage and headers `replay/{triage,headers}.ts` | none (headers travel with the record) | decide, strip, stamp | poison stays out of the topic; the cap ends the loop (it does not: finding 3) |
| Replay scheduler `replay/scheduler.ts` | timer, tick in flight | tick over the partitions | one automatic job at a time; all dead letters get their turn |
| Replay endpoint `admin/replayEndpoint.ts` | none of its own | bulk, dry-run, single, cancel, list | a job always ends |
| DLQ inspector `replay/dlqInspector.ts` | cached depths, probes in flight | start a probe, three answers, fail, stop | a depth is never passed off as fresher than it is; an error does not stick |
| Routes endpoint `admin/{routesEndpoint,routesFile}.ts` | none; the file | PUT, write, rename, reload | the answer tells what happened |
| Route table `gateway/routes.ts` | none; built anew for each reload | build | every route and every endpoint is reached |
| Configuration `config/*` | cached configuration | parse, merge, load, validate | each setting has its effect and disturbs no other; file, environment and defaults in that order |
| Health monitor `health/*` | last snapshot, probe in flight, timer | cycle, stop | a hung broker does not stop the cycles; its outage shows |
| Lifecycle `gateway/index.ts` | the wiring of all of these | start, rebuild routes, shutdown once per signal | nothing is closed under what still uses it; a shutdown ends |
| Keys, metrics, auth, providers, logging | none that steers anything | pure functions, counters, I/O | – |

How they interact:

- The handler writes outbox rows; the drainer reads them. Their only link is the table.
- The drainer and every replay job publish through one producer handle, so they share one breaker: a
  poisoned event in the outbox pauses replays, and a replay may use up the probe the drainer needs.
- Scheduler, endpoint and runner share the job store. A job is cancelled through a handle that
  lives in memory, while its row lives in the database.
- The scheduler decides by the inspector's cached depth.
- The routes endpoint calls back into the lifecycle, which reloads configuration and server. Monitor
  and replay keep the routes they were started with.

What is hard to test: results of calls that land long after the state they were admitted in; a batch
that is read once and worked on across awaits; the gap between an acknowledgement and its record; a
cancellation against the record in flight and against the runner's own last write; a watermark written
from the last record *read*; rows and jobs left behind by a crash; requests that overlap on one temporary
file; headers that pass through a client, a broker and Kafka Connect; probes that overlap or answer after their timeout;
a second signal during the shutdown of the first. `PROJECT.json` lists each
at its line under `hazards`, with the properties that cover it.

## 2. Modules

| Module | Models | Extends |
|---|---|---|
| `Breaker` | the breaker as a record and pure functions of it: `Rejects`, `Admit`, `OnSuccess`, `OnFailure`, `ForceOpen`, `Reset`, `Elapse` | |
| `CircuitBreaker` | callers in flight through one breaker, the operator, the handle's copy of the state | `Breaker` |
| `OutboxContract` | what the outbox promises, without breaker, timers, batches or restarts | |
| `Outbox` | handler, table, drainer, shared breaker, broker, crashes; implements `OutboxContract` | `Breaker` |
| `ReplayContract` | what the replay of a partition promises, without runners, streams, breaker, aborts or the process | |
| `Replay` | job store, runner, scheduler, endpoint, shutdown, for one partition; implements `ReplayContract` | |
| `ReplayLoop` | one record's life through topic and dead-letter topic | |
| `RateLimit` | the token bucket of a run | |
| `DlqInspector` | overlapping probes of the depth of a dead-letter topic, and their cache | |
| `HealthMonitor` | the cycle of probes, its timeout and the snapshot | |
| `Lifecycle` | start, and one shutdown per signal, against drainer, jobs and monitor | `HealthMonitor` |
| `RouteRules` | when a list of routes is accepted, and the table built from it: operators | |
| `RouteAdmin` | overlapping PUTs of the routes, file, cache, reload, table, crash | `RouteRules` |
| `Settings` | from the environment variables to the configuration, and its reload | `RouteRules` |
| `ReplayPartsProofs` | theorems about the bucket, the loop and the inspector, which share no variable | `RateLimit`, `ReplayLoop`, `DlqInspector`, `TLAPS` |
| `BreakerLemmas`, `CircuitBreakerProofs`, `OutboxProofs`, `LifecycleProofs`, `RouteAdminProofs`, `ReplayProofs`, `SettingsProofs` | theorems | the module proved about, and `TLAPS` |
| `MCGateway` | the components that share no variable, in one instance | `Lifecycle`, `DlqInspector`, `CircuitBreaker`, `MCRateLimit`, `MCReplayLoop`, `MCRouteAdmin`, `MCSettings` |
| other `MC...` | instances for TLC | the module checked |

### Breaker and CircuitBreaker

`breaker.state`, `.failures`, `.successes` are the fields of the class; `.wait` is
`nextAttempt - now`. JavaScript runs `execute` up to its await and from its answer on: hence `Start`
(admission or rejection) and `Land` (success, counted error, application error), with any number of calls in
between. `ForceOpen` and `ResetBreaker` are the operator's. `handleState` is the copy that the producer handle
keeps for its log. Time is `Tick`: it shortens `wait`.

History variables record what the properties compare the breaker with: consecutive failures since the
last success, calls admitted since the breaker opened, time since the trip.

### Outbox

| Code | Action |
|---|---|
| `handler.ts`: JSON error; enqueue; response | `RefuseBody`, `Enqueue`, `Respond` |
| `drainer.ts`: timer fires, `selectBatch` | `Poll` |
| `producer.sendByTopic` called | `SendRow` (admitted), `DeferRow` (rejected by the breaker: `markDeferred`) |
| it resolves | `RowAcked` (`markDispatched`), `RowAckedMarkFails` (that statement throws) |
| it rejects | `RowErred` (`markRetry` or, past the age, `markFailed`) |
| a statement throws outside the row's `try` | `StatementFails` |
| end of the iteration | `EndIteration` |
| SIGTERM, end of the shutdown, crash, supervisor | `Shutdown`, `Exit`, `Crash`, `Restart` |
| a replay job on the same handle | `ReplaySends`, `ReplayLands` |

Requests in flight when the server stops are still handled, so the handler's actions need only a running process.

`due` and `age` are relative to the present, so that `Tick` is the only place where time passes. A batch is any sequence that `ORDER BY next_attempt_at LIMIT batchSize` could return:
ties come in any order. `tries` and `unrecorded` are history: real publishes, and copies that arrived
without the row knowing.

`OutboxContract` has three variables (what was answered, the status of each event, whether it has expired)
and says: answered events are stored, a stored event goes from pending to dispatched, or to failed if it
has expired, and to nothing else. The refinement mapping stands at the end of `Outbox`.

### Replay

One partition of one route. A job has a row in the store (`job`) and a runner (`run`). The phases of the runner are its
awaits:

| Phase | The runner awaits | Left by |
|---|---|---|
| connecting | the consumer | `Connect` |
| reading | the stream, or `fetchOne` | `Read`, `ReadDry`, `EndStream`, `StreamFails`, `Fetch` |
| waiting | a token | `Send` (abort and breaker are looked at here) |
| sending | the producer | `Lands`, `SendErrs`, `SingleLands` |
| leaving | the end of the stream | `Conclude` (terminal status and watermark), `StreamFails` |
| closing | the end of the consumer | `Close` |

`StartAuto` is the scheduler's tick with all it checks; `StartBulk`, `StartSingle`, `Cancel` are the
endpoint's. `CancelAll` and `Exit` are the later parts of the shutdown. A slot is reused once its job has ended:
the number of slots bounds the jobs alive at one time, not the jobs run. The stream's budget of fetches is
abstracted to "may end once a record was read": each fetch brings a record if there is one, so a run that has
something to read reads something.

`Persistent` chooses the store: a terminal row refuses a patch with a status altogether in
SQLite, and only its status in memory; after a restart the memory is empty. The runs use the SQLite store; what is
proved of both stores is said in section 6.

`ReplayContract` is what operator, consumers and the other jobs of the partition can rely on: the status of each
job goes from pending or running, perhaps over paused, to one final status (`Successors`); automatic jobs wait for every
other; a record is moved on at most once more than there are causes; the watermark moves forward only, and over examined records
only (`Advance`). When a job at work moves it is left open, since the repository says two things of it (section 5). The mapping at the end of `Replay` reads the statuses and modes off the rows,
what was examined off `visited` and the causes off `redo`. A step of a runner that only moves its phase is a stutter; a
run that throws, and whatever a crash or an exit cuts off, is `BreakOff`; a start-up is `Recover` with the SQLite store and `Forget` with that in memory.

### ReplayLoop

A record carries the values of its attempt header and of its class header, each a sequence, as a name may recur; the order
of headers of different names is never looked at. `DeadLetter` is Kafka Connect, which copies
the headers and adds its own; `ReplayRecord` is triage and restamping. Equal names are never merged, as no map on the way
is keyed by anything but buffers (section 5).

### RateLimit

The bucket with the runner that takes from it. The rate is chosen at the start of a run, and what a tick puts back is computed from it as
the code does, with its rounding. `ahead` and `excess` measure sends against the clock, in tenths of a record, so that one state variable says
how far *any* interval ending now has exceeded a rate: the first the greatest that the rounding can make of the configured one, the second the configured
one itself.

### DlqInspector

One partition of one route: routes and partitions share no state. A probe notes the time, awaits the metadata
(`MetadataArrives`), then two requests sent together (`LatestArrives`, `EarliestArrives`, in either order), and any of the three may
fail (`ProbeFails`). The interval starts a probe whether or not earlier ones are over, so `Probes` bounds how many
are in flight at once. A partition that an answer leaves out is measured with an error. A failed probe keeps
the cached depth and marks it; without a cached list it leaves a sentinel without a depth.

A time of observation is represented by what the offsets were then. That is enough to say whether a depth
can be true of some moment since, and saves a clock.

### HealthMonitor and Lifecycle

`BeginCycle` looks at the producer and the database and asks the broker; `BrokerAnswers`, `BrokerErrs` or `ProbeTimesOut`
ends the cycle, replaces the snapshot and arms the timer; `LateAnswer` is the broker's answer to a
request whose timeout was first. Of the dependencies the snapshot keeps what follows for the status. `unheard` is the time since the broker last
answered within its timeout. Time is counted in ticks and a timer that is due fires before time goes on.

`Lifecycle` extends it with the wiring of `gateway/index.ts`. A shutdown is cut at its awaits, and each signal has its own:

| `shutdown` awaits | having called | left by |
|---|---|---|
| scheduler | `server.stop`, `scheduler.stop` | `SchedulerIsIdle` once the automatic job is over |
| monitor | `cancelAll`, `inspector.stop`, `monitor.stop` | `MonitorIsIdle` once the cycle is over |
| admin | `healthAdmin.close` | `AdminIsClosed`, or `CloseFails` |
| drainer | `drainer.stop` | `DrainerIsIdle` once the iteration is over |
| producer | `producer.disconnect` | `ProducerIsClosed`, or `CloseFails` |
| provider | `provider.close` | `Exits` (`closeOutbox`, `process.exit`), or `CloseFails` |

The drainer, the automatic job and an operator's job appear with what the shutdown depends on: whether they are stopped and
what they have in flight. The operator's job is a bulk or a single replay (`single`): only the first has a handle that
`cancelAll` reaches (`AbortsManual`), the second sends its one record whatever is closed by then. What they do is in `Outbox` and `Replay`, which show the shutdown from their side.

### RouteRules, RouteAdmin and Settings

A topic is a record of what the rules ask of it (owner, suffix, length, name), a path is its sequence of segments. `Accepted` is
`routesSchema` with its checks of single routes and across routes; `BuildRoutes` writes the table entry by
entry, so that a later entry replaces an earlier one of the same path, as an object literal does.

A PUT is cut at its awaits: `WriteTmp`, `Rename`, `Reload`. The names of temporary files do not differ
between requests. `file`, `cached` and `live` are the three places where the routes are. `ReadConfig` is another
reader of the configuration that fills the cache; `Crash` may tear a write. Each request brings any of a set of lists,
accepted or not.

In `Settings` a value is named by its text and the parsers of `envMapping.ts` say what each text means. The variables
kept are those on which a rule across fields, a precedence or the shape of a section depends, and a number of each kind; the others
are mapped and merged the same way. An environment is a function on those variables (`SettingsAssumption`). The recursion of
`mergeDeep` is unfolded: the configuration is three objects deep, `MergeDeep` merges the whole, `MergeSections` a section, `MergeShallow` the parts. `StartGateway` accepts or refuses to start, `PutRoutes` reads everything again.

## 3. Runs

| Run | Question | Bounds | States |
|---|---|---|---|
| `outbox_safety` | safety and refinement under every fault | 2 events and a malformed one, batch of 2, 1 failing statement, 1 stop, breaker threshold 2 | 1.7 M |
| `outbox_live` | progress | 2 events, one of them poison, batch of 1, a replay on the breaker, 1 stop | 390 k |
| `replay_safety` | safety of jobs, and refinement | 2 slots, 2 records, one of them parked, jobs of 1 record, 1 operator request, 1 stop | 2.2 M |
| `replay_live` | progress | 2 slots, 2 records, 1 consumer failure, 1 stop | 180 k |
| `replay_resume` | finding 1 | 3 records | – |
| `replay_pickup` | finding 2 | 2 records | – |
| `replay_late` | finding 7 | as `replay_safety` | – |
| `loop_duplicates` | finding 3 | as below, no header to start with | – |
| `routes_race` | finding 4 | as below without failures | – |
| `settings_discovery` | finding 5 | as below | – |
| `rate_rounding` | finding 6 | as below | – |
| `gateway_parts` | everything that shares no variable with another, in seven parts: | one part moves | 605 k |
| – lifecycle | shutdown and health | 2 signals, automatic job of 2 records, one bulk or single replay, interval of 2 and timeout of 1 | |
| – inspector | depths | 2 probes, offsets to 2 | |
| – breaker | any overlap of calls, operator, time | 3 callers, thresholds 3 and 2, window of 3 ticks, 2 operator acts | |
| – bucket | what the throttle is worth | rates 1, 4, 10, 14 and 15 per second | |
| – loop | poison through replays | 4 classes, cap 3, attempt headers −1 to 4 | |
| – routes | the answers tell what happened; the routes are served | 3 requests, two of them bringing one route, the third any list of at most two of twelve; 2 failing file operations, 1 crash | |
| – settings | the settings stand | three base environments with any two variables changed | |

The parts of `gateway_parts` share no variable. A behaviour of all is an interleaving of a behaviour of each,
and every property speaks of one part, so the part that moves is chosen at the start and the states add up
instead of multiplying. The fairness of a part is that of its module where it is the one that moves (`MCFairness`).

Why these bounds suffice for what they are asked:

- *Breaker.* Three callers are enough for a late success and a late failure on both sides of a transition;
  a failure threshold of three tells consecutive failures from cumulated ones; a success threshold of two makes
  half-open a state in which counters matter. The invariants among the properties are proved for all values.
- *Outbox.* Two events make order, ties and a batch that outlives one of its rows possible. A stop is a
  shutdown or a crash at any point, followed by a restart on the same table. One failing statement
  can hit any statement. `MaxAttempts` cuts the counter where the backoff has
  reached its cap (`OutboxAssumption` demands it), so no delay is hidden; `MaxOverdue` only merges rows overdue
  by more than that, whose order among each other is then free. All safety properties are proved without bounds on
  the number of events.
- *Replay.* Two slots are an automatic job and an operator's beside it; since slots are reused any number of
  jobs follow each other. Two records and jobs of one record make the job end by its budget, by the end of the
  partition and by its range; one record is to be parked. All safety properties, the refinement among them, are
  proved for any number of jobs, records and stops.
- *ReplayLoop.* A cap of three lets a stale count differ from the true one for several rounds. `PoisonStaysOutHolds` has any cap and any classes.
- *RateLimit.* Rates below ten, which the rounding raises to ten; at ten, which it keeps; and one each that it rounds down and up.
  `ThrottledHolds` has any rate.
- *DlqInspector.* Two probes overtake each other; two offsets give a topic that has grown, shrunk, both or neither since a
  probe began. Retention removes one record at most in the run. `DepthIsHonestHolds` has neither bound.
- *Outbox, liveness.* No statement fails in `outbox_live` (`MaxDbFaults = 0`): a failing statement is covered by the safety properties only. With one
  failing statement the three liveness properties hold as well, over 1.03 M states, but that takes too long for a standing run.
- *Lifecycle.* Two signals are a shutdown and one over it. A job of two records can be met before, between and
  after its sends. The theorems hold for any number of signals and any lengths.
- *RouteAdmin.* Three requests are needed for a third to meet the remains of two that overlapped. The stock of routes has each rule's
  violation once, and topics at and beyond the longest name.
- *Settings.* Two variables changed from one that is valid is what a precedence or a rule across fields needs to be wrong.
  `SettingsStandHolds` is for any environments.

`replay_safety` and `outbox_safety`, the refinements among them, use no fairness. Deadlock is
checked except in `gateway_parts` (the process exits, a run of the bucket ends, a start is refused, all requests are answered), and for the same reasons in
`rate_rounding`, `settings_discovery` and `routes_race`.

### Fairness

Liveness rests on weak fairness only, and only of what the runtime itself drives:

- `CircuitBreaker`: time passes, each caller calls again, and each call in flight settles (the client
  has connection and request timeouts).
- `Outbox`: time, the drainer (timer and continuation of its iteration), the replay's send settling, the end of a shutdown and the supervisor's
  restart. Nothing is assumed of requests and of the broker; `RowAckedMarkFails` and `StatementFails` are left out of the
  fair actions, as nothing promises a failure.
- `Replay`: each runner goes on, ticks and probes recur, a shutdown goes on, the
  supervisor restarts. Nothing is assumed of the operator, of the sinks or of the breaker.
- `Lifecycle`: time and timers, the drainer's iteration (each send has its timeout), the automatic job, and what the shutdown
  awaits. Nothing is assumed of the broker's answer to the monitor, of requests and of the operator's job.
- `DlqInspector`: the interval goes on, and a probe in flight is answered or fails.
- `ReplayLoop`, `RateLimit`, `RouteAdmin` and `Settings` state no liveness and need none.

Where a property needs the environment to behave, the property says so: `<>[]brokerUp`,
`[]~breakerOpen`, "or the broker is down", "unless the operator goes on cancelling for ever".
`OutageAgesOut` holds only if replays do not use the handle for ever. Otherwise the row may find the breaker open or
half-open-and-failing at each of its turns, as each rejection is a deferral and only a real error looks at the age. A run
without that premise shows this; it takes a broker that fails for ever and a replay that takes every
probe, and no document excludes it, so it is recorded here and not as a finding.

## 4. Properties worth knowing

- `TripsOnConsecutiveFailures`: an action property against the history of answers, whichever calls they belong to.
- `QuietAfterTrip`: no send starts inside the window, also when the answers of older calls arrive in it.
- `DuplicatesHaveACause`: copies at the broker ≤ copies that arrived unrecorded + 1 if the row says dispatched. This
  is "at least once" made exact: each extra copy is charged to its own lost acknowledgement, failed statement or crash.
- `AttemptsAreTries`, and the theorem `GivenUpForAgeHolds`: the outage of a breaker costs a row neither attempts nor its life.
- `PoisonIsContained`: the poison keeps tripping the breaker; the other event arrives all the same.
- `WatermarkCovers`, `RepeatsHaveACause`: the two sides of the watermark. The first forbids it to run ahead of what was
  read, the second to fall behind without a job that could not conclude or a request.
- `ImplementsReplayContract`: the jobs of a partition from outside. A status is never taken back, by whoever writes later: the run
  refutes it when the store forgets its guard. `StatusIsSticky` (proved, not run) adds that only the run of a new job takes a slot over.
- `AcksAreCounted`, `AtMostOneAfterCancel`: what a cancellation may and may not change. What was acknowledged before it stays counted, whoever writes
  the row after; of the one record that lands after it `AcksAreCounted` says nothing, as the documents and the code differ on it (finding 7).
- `Throttled`: what the throttle is worth at every configured rate, the rounding included; that this is not the configured rate itself is finding 6.
- `ShutdownEnds`: the shutdown waits for the automatic job *before* it aborts jobs, and is not held up by paused ones.
- `NothingUsedAfterClose`, `JobsAreToldFirst`: the order of the shutdown, with a second one running over the first. The code
  meets the first for all it waits for. It does not wait for the operator's jobs: the bulk ones are told to abort before the producer closes, unless their
  request was still arriving when the others were told. A single replay has no handle and is told nothing; the property excepts both by name.
- `ShutdownsEnd`: the shutdown waits for the whole automatic job, which nothing interrupts; it ends because the job is capped.
- `SnapshotIsRecent`: at most an interval and two timeouts old, also while every request to the broker hangs.
- `OutageShows`: a broker that errs, hangs or answers too late is not called healthy for longer than an interval and two timeouts; an answer that comes
  after its timeout changes nothing. Whether the page is to answer 503 then is left open, as the documents contradict each other (section 5).
- `DepthIsHonest`: an older probe may overwrite the depth of a newer one, but never under a newer date.
- `EveryRouteIsServed`: no list of routes that the schema accepts hides an endpoint or another route in the table.
- `SettingsStand`: relates every variable of the model that is read as a value, those of the replay block and the sources of the routes included, to its place in
  the merged configuration, and the place of every unset one to its default. It says nothing of a text that cannot be read (a number that is none, malformed
  `ROUTES_JSON`, an empty string), nothing of which environments are to be refused, and claims the default brokers only for the provider `local`: on all three the
  documents and the code differ (section 5).
- `LiveIsFile`: overlapping PUTs may answer wrongly (finding 4), yet when all are answered the server serves
  what a restart would.

## 5. Findings

Each is a run whose property quotes the repository and which TLC refutes.

1. `replay_resume`. A job that pauses on an open breaker has counted the record it could not send as its last one
   (`runner.ts:62-63`: "a resume picks up at the same offset"), but the scheduler stores that offset as the watermark
   (`scheduler.ts:82`) and starts the next job after it: the record is passed over.
2. `replay_pickup`. "scheduler picks it up on the next tick as a fresh job" (`scheduler.ts:34-35`), but a paused
   job counts as active (`jobStore.ts:36-40`) and the tick skips partitions with an active job: nothing is picked up until
   the job is cancelled or the gateway restarted. `PausedIsNotResumed` proves it for any number of jobs: a paused one is only ever
   cancelled or failed, and no automatic one starts until then.
3. `loop_duplicates`. `stampAuditHeaders` appends the attempt header without removing the earlier one, and `readHeader`
   returns the first. Nothing in `src/` merges them: `normalizeHeaders` and the consumer build maps keyed by
   buffers, which JavaScript compares by reference, although `consumer.ts:46-51` and `dlq-replay.md:155` expect the client's map to collapse equal names to the
   last value. Once a record carries two, its count sticks at one and the cap is never reached (`CapIsNeverReached`, for every cap over one).
4. `routes_race`. Requests share `<path>.tmp`. Of two that overlap, one renames the other's routes into place and
   answers 200 for its own; the other answers "persist failed" although its routes are live.
5. `settings_discovery`. With `MSK_CLUSTER_ARN` set and `KAFKA_BROKERS` omitted the provider is said to discover its
   brokers (`task-definition-example.md:94`). The merge leaves the default `localhost:9092` where the override is undefined (`loader.ts:30`,
   `defaults.ts:16`), so `resolveBrokers` (`msk.ts:114`) always finds brokers and never asks
   (`BrokersAreNeverEmpty`, for every environment).
6. `rate_rounding`. "Refills perSec/10 tokens every 100ms" (`runner.ts:69`), but a tick puts back the rounded tenth and at least one (`:81`): one per second
   becomes ten, fifteen twenty. `schemas.ts:75-79` and `dlq-replay.md:138` allow every rate. `Throttled` says what holds instead.
7. `replay_late`. "at most one record after the cancel timestamp may be replayed; it is logged but not counted in `replayed`" (`dlq-replay.md:181`, so too
   `dlq-replay-design.md:101`). The first half holds (`AtMostOneAfterCancel`). The second does not: the runner counts the record (`runner.ts:196`) and the store takes the
   counters, as its guard is on patches with a status only (`jobStore.ts:319-326`; `:17-20` says "counters still update").

Met while modelling, without a run of their own:

- Half-open admits every call, not a single probe (`circuit-breaker.ts:56`; `producer-circuit-breaker-design.md:194` speaks of
  a single one), and successes of calls admitted while closed count towards closing (`:107`).
- A cancelled *single* replay loses its counters, as its only write carries a status (`jobStore.ts:319`; compare `:17-20`).
- "per-partition watermark; advanced by the bulk runner after each record" (`jobStore.ts:30-31`). The runner never writes it: the scheduler does, once, when an automatic
  job has ended (`scheduler.ts:82-88`), and no operator's job moves it at all. A job that throws or is cut off by a crash therefore leaves the watermark where it
  stood, and its successor sends again what it had sent: the cause that `RepeatsHaveACause` counts. `ReplayContract` allows either, `Replay` does what the code does.
- "THEN cancel in-flight jobs so their AbortControllers fire before the producer + provider close out from under them" (`index.ts:296-298`). A single replay
  (`replayEndpoint.ts:249-402`) never calls `setCancelHandle`, so `cancelAll` (`jobStore.ts:344-346`) does not reach it and it still sends (`:364`), to a closed producer
  if the shutdown is that far. Nor can the operator's cancel stop it.
- An operator's bulk job takes its own range and ignores the watermark (`replayEndpoint.ts:153`), so completed work is redone on
  request (`dlq-replay.md:177`).
- Two overlapping PUTs, one of which fails in the middle of its write, can leave a file that cannot be parsed.
- A half-configured MSK (a region without a cluster or brokers) is accepted for the same default, although `environment-variables.md:105` and `:112-116` say it should end in a
  validation error.
- Malformed `ROUTES_JSON` leaves the default routes in force (`envMapping.ts:105-118`, whose comments say so), although `admin-routes-endpoint-design.md:192` says that it
  prevents the startup.
- `REPLAY_PARKING_TOPIC_SUFFIX=""` is read as unset (`envMapping.ts:76-80`), although `schemas.ts:83` and `dlq-replay.md:139` document it as disabling the parking topic (`ParkingIsNeverDisabled`).
- `routesSchema` compares paths, topics and dead-letter topics, but not names, while jobs, watermarks, the inspector's cache and `routesByName`
  are keyed by name.
- The depth is latest minus earliest, not what is left to replay: once a partition is worked off, its depth stays over the threshold until retention
  removes the records, every tick creates another empty job, and no job is ever pruned.
- When the health page is to answer 503. `healthz-observability-design.md:140-141` says when any of producer, database and broker fails, and `:280-284` expects it 35 seconds after the
  broker stops; `outbox.md:115` says that without an outbox it follows `producer.connected`; `types.ts:28-36` takes the broker out of what is required and calls the producer's
  `isConnected()` "the load-bearing signal"; `health.monitor.test.ts:58` expects "unhealthy" of a disconnected producer. The code follows `types.ts`, but its producer is
  connected until `disconnect` is called (`producer.ts:81-86`), which the shutdown does when the monitor has stopped: in a running gateway only the database turns the
  page to 503, without an outbox nothing does, and an outage of the broker shows as "degraded" with 200. The test's disconnected producer is a fake that
  no running gateway has.
- Monitor and replay keep the topics and routes of the start after a PUT (`index.ts:183-206`).
- A close that rejects ends the shutdown half way without an exit (`CloseFails`); a second signal starts another one.
- `probeWindowRecords` (`schemas.ts:98-104`) is read nowhere, and nothing calls the inspector's `refresh`.

## 6. Proofs

Proved with tlapm for all values of the constants, under the named assumptions of the modules (`BreakerAssumption`, `CallersAssumption`,
`OutboxAssumption`, `RateAssumption`, `MonitorAssumption`, `LifecycleAssumption`, `InspectorAssumption`, `RouteAdminAssumption`, `ReplayAssumption`, `ReplayLoopAssumption`, `SettingsAssumption`: thresholds and bounds are numbers of the right sign, sets are subsets,
the slots for jobs are finite, environments are functions) and nothing else, but for premises that a theorem states: the SQLite store (`Persistent`) for
what the store in memory loses by design, and a cap over one for `CapIsNeverReached`.

**BreakerLemmas**: each breaker function keeps the record's type and its consistency; `Admit` leaves no rejecting breaker.

**CircuitBreakerProofs**: `TypeOK`, `BreakerInv`, `QuietAfterTrip`, `TripsOnConsecutiveFailures` and `LastSeenInSync`. `QuietAfterTrip` is not inductive: the
invariant adds that no call was admitted since the breaker opened while it is open, and that half-open is
entered only when the whole window has passed. `TripsOnConsecutiveFailures` needs the counter to agree with the history
(`FailuresAreConsecutive`), which is part of the invariant.

**OutboxProofs**: all safety properties of `Outbox`, and that `Outbox` implements `OutboxContract`. The invariant is one formula per
event (status against copies, tries, age, answer), `BatchIsPending` (the rows still to be handled are pending and distinct:
without it a marked row could be marked again), `SendingIsCounted` (the publish in flight is already among the
tries, which is what makes a give-up "really tried") and `OpenHasTime` (an open breaker that rejects has time left, so that a deferred
row's deadline stays in its range). The refinement follows from the invariant: each
action is a contract step or leaves the mapped state alone, and `markFailed` is allowed by the contract as the age passed
the limit.

**LifecycleProofs**: `NothingUsedAfterClose`, `JobsAreToldFirst`, `SnapshotIsRecent` and `OutageShows`. The properties speak of
what is closed; the invariant has to say which stages a shutdown has passed. `Order` relates each stage to what was stopped
and what is idle by then, for every signal at once (a second shutdown may be behind or ahead of the first), `Told` says when the operator's
jobs were reached, and `Ages` bounds the age of the snapshot by where the cycle and the timer are: what the timer and the running
cycle have left adds up to no more than the bound. A snapshot that says "healthy" is no older than the
broker's last answer in time (`Heard`), so the bound on its age is one on the outage it may hide.

**ReplayPartsProofs** has three parts.

- The bucket: `Throttled` for every rate, by the invariant that what is ahead and ten times the tokens in the bucket add up to no more than ten times
  its capacity: what is in the bucket has been paid for. It rests on a refill being no more than a tenth of `RateLetThrough`.
- The loop: `PoisonStaysOut`, and that the cap is never reached. The invariant of the first is that a dead letter carries one class header, that of its last
  failure, because each replay strips what Connect wrote (`OneClass`); that of the second, that the count a record is judged by stays
  below the cap (`Stuck`): the first attempt header is the one that is read and the one that no replay removes, and if the record came with none its first is a one.
- The inspector: `DepthIsHonest`. The invariant adds `ProbeInv`: the answers a probe already has lie between the offsets at
  its beginning and those of now, and `InOrder`: the earliest offset does not pass the latest. An answer that completes a probe then
  gives an honest entry (`MeasuredIsHonest`), and offsets that only grow keep it honest.

**RouteAdminProofs**: `LiveIsFile`, `FileIsWhole`, `EveryRouteIsServed` and `AnswersAreTrue`. `EveryRouteIsServed` rests on three lemmas about
the operators: every endpoint is a path the schema reserves, the last route of a path in an accepted list is the only one, hence a table
built from an accepted list serves it whole. The invariant says where the contents of file, cache and server come from
(`Origin`), that a request which is not being handled has left its traces complete (`Settled`, `Handled`), and, as long as no two
requests overlapped, that at most one is in flight and the temporary file is its own.

**SettingsProofs**: `SettingsStand`, and three consequences of the merge that no document states. Configurations are trees, so the proofs follow paths:
a lemma for each operation says what the child of its result under a key is (`ChildOfSection`, `ChildOfMergeDeep`, ...), `ChildOfConfig` composes them
into the child of a whole configuration, and `TwoKeys` and `ThreeKeys` say which of variable and default is found at the end of a path. The invariant
(`ConfigIsBuilt`) is that a started gateway has the configuration its environment and file build, and that the schema accepts it. The replay block has defaults of its own, laid
under what is given before the merge (`BlockIsSaid`, `ReplayBlockStands`); `UnsetIsSilent` shows that an unset variable contributes nothing to any section.
That the second half survives a PUT, which validates routes before it writes them, takes `OnlyRoutesChange`: nothing else in the tree depends on the variable
that is replaced.

**ReplayProofs**: `WatermarkCovers`, `WatermarkAdvances`, `StatusIsSticky`, `AtMostOneAfterCancel`, `AcksAreCounted`, `ScannedIsAccountedFor` and
`RepeatsHaveACause`, for any number of jobs at once and for both stores. None is inductive, because the row of a job and the watermark are written from
what the run has counted. The invariant has four parts for each job and one for all of them:

- `RunInv`: a run has settled every record it scanned but the one in hand, which there surely is while it waits or sends;
- `RowInv`: the acknowledged records are in the row *and* in the run that will overwrite it (more than `AcksAreCounted` claims, which is silent on the late one);
- `CancelInv`: a cancelled batch was told to abort, and once a record of it landed late its run is on the way out;
- `AutoInv`: the run of an automatic job is ahead of the watermark, and every offset behind it was read. `Conclude` then writes
  an offset that is covered and no smaller than the last;
- `OneAuto`: no two automatic jobs run at once. Without it one would move the watermark past the start of the other, which would take it back.

`RepeatsHaveACause` has an invariant of its own, an account for each offset (`Budget`): the copies that arrived, plus the operator's runs
that may still send it, plus one while an automatic job, present or future, may do so without a new cause, are no
more than one plus the causes so far. A send that lands spends a claim; a request adds a claim and a cause; an automatic job that is broken
off gives its claim back and is a cause; one that concludes leaves the watermark where it stood (`NextInv`), so that its successor has no claim
on what it passed. `MoveCause` does the arithmetic once, and each action only shows what it does to the account (`Accounted`).

That `Replay` implements `ReplayContract` is proved for both stores. It needs the invariants above (`Advance` in the contract moves the watermark over examined records
only; a record is moved on only as often as there are causes) and one more, `StatusInv`, which ties the status of a job to its run: a run
that still works belongs to a job that is live or was cancelled, and a job that is live without one has a run that is about to fail it, or the process is
down. `StepWrites` shows for each step of a runner that what it writes to row and run keeps this and is one of `Successors`; `NextIsPromised` then maps each
action to its step of the contract. From the same invariant follow `NoGhosts` (no job stays pending or running without a runner while the
process is up) and `PausedIsNotResumed`.

That the contracts are worth implementing is proved too. `ContractIsEnough` in `OutboxProofs` and in `ReplayProofs` use nothing of the
detailed modules but the mapping: from `OutboxContract` alone follow that what is answered is stored, that what is dispatched was delivered and that
neither verdict is revised; from `ReplayContract` alone `WatermarkCovers`, `RepeatsHaveACause` and `WatermarkAdvances`. Another drainer or job store
would inherit them by refining its contract.

Only model-checked: all liveness, which is out of this prover's reach, as is `ENABLED`; so is the refutation of the seven findings. All invariants and action properties that the
passing runs check are proved.

## 7. Abstractions, and what is not modelled

- Kafka is an ordered log per partition; a send succeeds, errs, or errs although the record arrives. A poisoned event is one that every send errs on.
- The SQLite file survives any crash of the process. A power cut may take back commits (`synchronous=NORMAL` in WAL mode): not modelled.
- Writing a small file is one piece unless it fails or the process crashes.
- Bodies, keys, wording, logging and metrics are left out; a route has the parts the rules are about.
- `DlqInspector` is not composed with `Replay`, whose `Probe` is answered at once: `DepthIsHonest`
  says how far the depth of a real probe can be from the one that step takes.
- Not modelled: inline publishing without an outbox (it answers 202 whatever the send does, as documented), the HTTP server, ranges of single settings that
  no other setting depends on, the values of idempotency keys, authentication, the connections of the providers, logging. `PROJECT.json` gives the
  reason for each.

## 8. Plan

Done: breaker, outbox and replay, each with contract and refinement, loop, bucket, inspector, monitor, lifecycle, routes, settings; proofs of
all their safety properties and of both refinements.

What would come next:

1. `DlqInspector` in the place of `Probe` in a composition with `Replay`.
2. A run of `Replay`'s liveness with `Persistent = FALSE`: what the store in memory keeps is proved, its liveness is not checked.
