# goload in TLA+

TLA+ models of goload, a distributed load tester in Go: a master that hands
out the virtual users of a test to workers, workers that run them and report,
and an aggregator of metrics. TLC checks the models on small instances; TLAPS
proves their safety properties, and that the master implements an abstract
manager of leases, for every instance. Paths below are relative to the
repository.

## 1. The system

| Component | Where | State | Operations |
|---|---|---|---|
| Scheduler | `pkg/master/scheduler.go` | none of its own (mutex `s.mu`) | `AllocateWorkers`; `RebalanceWorkers` and its helpers, never called |
| Orchestrator | `pkg/master/orchestrator.go`, `internal/common/types.go` | `Workers`, `Tests`, mutex `Mu` | `StartTest`, `StopTest`, `RegisterWorker`, `UpdateWorkerHeartbeat`, `RemoveWorker`, getters |
| Master API | `pkg/master/api.go` | mutex `m.mu` over the orchestrator | the HTTP handlers: start, stop, register, heartbeat, getters |
| Executor | `pkg/worker/executor.go` | `activeTests`, the contexts and goroutines of virtual users | `StartTest`, `stopTest`, `runVirtualUser`, a monitor for each execution |
| Worker | `pkg/worker/worker.go` | `resultsCh`, the context of `Start` | `Start`, `processResults`, `StartTest`, `StopTest` |
| Worker's metrics collector | `pkg/worker/metrics.go` | buffers by test, `metricsCh` | `ProcessResult`, `collectAndSendMetrics` |
| Reporter | `pkg/worker/reporter.go` | two batches | `reportMetrics`, `reportResults`, `sendHeartbeat` |
| Aggregator | `pkg/metrics/aggregator.go` | `metrics`, `aggregations`, `updateCh` | `AddMetric`, `aggregate`, `MergeAggregations`, `ClearOldMetrics`, `Reset`, `SetWindowSize` |
| Collector | `pkg/metrics/collector.go` | counters and timers by key, `metricsChan` | `RecordResponse`, `processMetrics`, `GetSnapshot`, `Reset` |
| Exporter | `pkg/metrics/exporter.go` | format, Prometheus gauges by key | `Start` with an export on each tick, `SetExportFormat` |
| WebSocket client | `pkg/protocol/ws.go` | `connections` by URL, mutex `mu` | `Execute`, `Close`, `CloseConnection` |
| HTTP and gRPC clients | `pkg/protocol/` | none that is reached | `Execute` |
| Utilities | `internal/common/utils.go` | none | percentiles, statistics, formatting |
| Command line | `cmd/root.go` | none | `start`, `stop`, `status`, `worker` |

How they interact. The API holds `m.mu` and calls the orchestrator, which
holds `Mu` and calls the scheduler, which holds `s.mu`; registrations and
heartbeats skip the orchestrator and write its maps under `m.mu`. Nothing
connects the master to its workers yet: nobody calls `Worker.StartTest`, no
worker registers, and the reporter's client is a stub. Within a worker,
executor, result processor, collector and reporter share two bounded channels
and a context; its virtual users share one client for each protocol. The process
exits when `Worker.Start` returns.
`pkg/metrics` is used by no other package; in it the exporter reads an
aggregator, and the collector stands alone.

What makes it hard: test IDs chosen by clients; stops, registrations and
removals in any order; a scheduler with two roundings and an unstable sort;
goroutines that race for the entry of a test; two consumers of one channel; a
channel that is full; a wake-up channel with one place; mutexes taken while
others are held; connections that many users ping, drop, write and read at once,
with peers that stop reading; shutdown while everything is under way. `PROJECT.json` lists each hazard at its line.

What makes each part correct, in short: every user of a test is placed, nobody
gets more than its capacity, and roughly in proportion (scheduler); a worker
serves one test, and what is on file about a test is true (orchestrator,
master); every execution ends, its entry with it, and nothing else ends it
(executor); every request is counted once (pipeline); every value is
aggregated, and merges end (aggregator); snapshots lack only what is on its way
(collector); every key gets a gauge (exporter); no connection is lost sight of and
requests return (WebSocket client); percentiles are percentiles (statistics).

## 2. The modules

| Module | Models | Shape |
|---|---|---|
| `Scheduler` | `AllocateWorkers` | operators; recursive functions over the positions of the sorted list |
| `MCScheduler` | its calls on small inputs | one step |
| `Orchestrator` | the registry | `EXTENDS Scheduler`; one action per method |
| `Master` | the API over it, and its clients | `EXTENDS Orchestrator` |
| `TestLeases` | what the master promises | abstract; `Master` implements it through `Leases` |
| `MCOrchestrator`, `MCMaster` | symmetry of the instances | |
| `Executor` | executions, virtual users, monitors | state machine with fairness |
| `ResultPipeline` | the way of a result to the master | state machine with fairness |
| `Aggregator` | aggregators, their loops and merges | state machine with fairness |
| `Collector` | recorders, the channel, the collecting goroutine | state machine with fairness |
| `Exporter` | exports of an aggregator's keys | state machine with fairness; reads `aggregations` |
| `WSClient` | connections, requests, their readers | state machine with fairness |
| `Statistics`, `MCStatistics` | percentiles and averages | operators, and their inputs |
| `MCAlgorithms` | `MCScheduler` and `MCStatistics` | a behaviour is of one or the other |
| `MCMetrics` | `Aggregator`, `Exporter` over its `Root`, `Collector` | a behaviour is of one of the three |
| `MCWorker` | `Executor`, `WSClient` | a behaviour is of one of the two |
| `Sums` | lemmas the proofs share: induction along lists and over finite sets, sums | section 5 |
| `AllocationProofs`, `AlgorithmProofs` | theorems on the operators of `Scheduler`, and on `MCAlgorithms` | section 5 |
| `MasterProofs` | theorems on `Orchestrator` and `Master` | section 5 |
| `WSClientProofs`, `WorkerProofs` | theorems on `WSClient`, and on `Executor` and `MCWorker` | section 5 |
| `ResultPipelineProofs`, `MetricsProofs` | theorems on `ResultPipeline`, and on `MCMetrics` and its parts | section 5 |

Each action's comment names its method. Definitions with a `_` in their names
(`StopTest_KeepsState`) are faulty variants of the definition they precede:
put in its place, each makes TLC report the property `PROJECT.json` names for
it. They show that the properties can fail and take no part in a
specification.

`MCAlgorithms`, `MCMetrics` and `MCWorker` check several components in one run.
A variable chosen at the start says which one moves. That leaves nothing out:
these components share no variable, so every behaviour of them together is an
interleaving of behaviours of each, and every property checked is about the
state of one. Where components do share state they move together: in
`MCMetrics` the exporter runs beside the uses of the aggregator it reads.

**Scheduler.** `Orders` are the lists the unstable sort may produce;
`FirstPass` has `remainingUsers` and `totalCapacity` after each worker, a worker
with no share leaving both alone as in the code; `Extra` is the second pass,
one walk that gives single users to workers with room. An error is the empty
set of allocations. Go's `int` is taken as unbounded: `capacity * users` stays
below 2^63 for any capacities below 2^31.

**Orchestrator.** `workers` and `tests` are the maps. A heartbeat's age is one
flag, `fresh`; its resources another, `overloaded`. A test keeps a copy of the
state of each of its workers, as in the code. Every method holds `Mu`
throughout and is one action; a call that returns an error stutters. Two
things the code does not do are as important: no test ever becomes `COMPLETED`,
and none ends because its `Duration` is over; `StopTest` takes a test in any
state.

**Master.** The API's operations; registrations ignore `MaxWorkers`. Since
the master promises little to clients who call anything in any order, several
specifications restrict the clients, never the master:

| Specification | Clients |
|---|---|
| `MasterSpec` | any calls in any order |
| `FreshSpec` | never use a test ID twice, as `cmd/root.go` (`uuid.New`); stop tests and register and remove workers at will |
| `CarefulSpec` | moreover stop a test once, while it runs (the signal handler of `start`), and register a worker once |
| `RestopSpec` | as `CarefulSpec`, but may stop a test again |

**TestLeases.** A test is granted users on free workers in one step, exactly
as many as it asked for, keeps them, and gives all back in one step.

**Executor.** A step of a virtual user lies between two operations others can
see. The two maps that matter are apart: `activeTests` by test ID, and the
executions, of which two may share an ID. A test's outcome, an
assertion's, and which of a `select`'s ready cases is taken are choices. A
WebSocket request may hang for ever (`Hang`), as `WSClient` shows it can.

**ResultPipeline.** The five goroutines of a worker, two channels and `m.mu`
(`locked`). A round of metrics is sent one by one with the mutex held, and each
is dropped if the channel is full. How many requests a batch holds is a sum over its
metrics (`RequestsIn`). Metrics other than the request and error
counts and the error rate travel the same way and are left out. A panic stops
everything. When `Start` returns, `workerCmd` does, and the process exits soon
after, whatever else is under way: from then on everything may go on, but nothing
has to (`Alive`).

**Aggregator.** Of the values of a key only the number counts, up to `Many`. A loop
is started, waits, aggregates, and returns when its context is done; values may
come before and after. A merge holds its own mutex while it takes those of its
sources, one after the other; any aggregator may merge any sequence of different
ones, itself included, while others merge too. Every other method is one step.
`Deadlocked` is the set of those whose merges wait for each other in a circle,
or for one in it. Any aggregation may be old when `ClearOldMetrics` looks.

**Collector.** `updates` is the bag of the keys updated, a key being a name with
an order of labels: the map iteration in `generateMetricKey` may give any. A
response is four or five metrics, sent one by one to a bounded channel with
no way out. `inHand` is the metric `processMetrics` has received and not counted
yet: the receive and the update under `c.mu` are two steps. What a metric is worth is
left out.

**Exporter.** `names` says which keys have the same name after
`sanitizePrometheusName`, and which have one that is not valid (it replaces six
characters and leaves all others); any naming is possible. `MustRegister` panics on a
second gauge of one name and on a name that is not valid, and the process ends. The aggregations are taken
first and the format is read after, as `export` does; in between both may
change.

**WSClient.** A step lies between two operations others can see: taking `c.mu`,
a write, a read, a `select`. A connection has two sides: `state` is what writes
see, `unreadable` is the error gorilla/websocket keeps from the first failed
read on and returns for ever. `deadline` is whose context's deadline reading is
subject to: `Execute` sets it to its own on the shared connection. A peer that stops
reading stalls its connection; writes to it, pings included, may then never end, as
the code sets no write deadline and they look at no context (`Stuck`). A request
may return at any moment (its `ThinkTime` may be 0) and leaves its reader
behind. Two writes at once may panic, which ends the process, or make later ones
fail on a connection that is up (`disturbed`).

**Statistics.** Exact arithmetic, in hundredths where the code computes in
floating point. The exchange sort of `CalculatePercentile` is modelled loop by
loop, `sort.Float64s` by the order statistics it promises (`Sorted`).

## 3. The runs

Runs that pass:

| Run | Question | Bounds |
|---|---|---|
| `algorithms` | Are all users placed, within capacity, in proportion (no worker a whole user below its exact share) and fairly (equal workers one user apart)? Do both percentiles keep their definitions? | 3 workers, capacities 1..6, every number of users: all combinations of shares that are zero, exact, rounded; up to 6 values of 0..4, all orders |
| `orchestrator` | Do loads, statuses and tests stay consistent under all methods, with IDs used again? | 3 workers, 2 tests, capacities 1 and 2, 1 or 3 users, `MaxWorkers` 2 |
| `master_fresh` | With fresh IDs: is what workers do on file, by tests not stopped, does none come back? | as above, capacity 2; 3 users need two workers, so one can be lost |
| `master_careful` | Does the careful client get leases? | 3 workers, 2 tests, capacities 1 and 2, up to 4 users |
| `worker` | Do entries stay true and do executions end, with IDs used again and shutdown? Is every connection that is open in the table, and does every request return unless peers that do not read hold it up? | 2 executions of 2 tests, one with a protocol the executor knows, 2 steps (one with assertions, one with think time), a channel of 1; 2 users of one URL, a request with a reader each besides any number that fail to dial, 2 connections, a message waiting |
| `pipeline` | Is every request counted once, are batches sent while the worker runs, does `Start` return? | 2 tests, 2 results, 2 rounds, channels of 2 and 1, batches of 2: the channels fill, a batch fills and a batch is left over |
| `metrics` | Are values aggregated without the ticker while the loop runs, and do merges return unless they wait in a circle? Does a snapshot lack only what is on its way? Does every key get its gauge? | 2 aggregators, no or some values of a key, 2 merges of any sources at once; an exporter over one of them with 2 keys and all their namings, 3 formats; 2 recorders, 2 responses, 2 orders of labels, a channel of 1, a reset |

The bounds are enough for the cases the hazards name: a second test while
workers are busy, a third worker while two serve one test, an ID started while
its first execution is under way, a full channel with a producer waiting at
it, a value that comes between the wake-up and the aggregation, a connection
that another user finds dead, drops and dials anew. Symmetry is
used where only invariants, properties of single steps and the safety
refinement are checked. `Pipeline` was also checked for safety with three
results (992 thousand states), `WSClient` with two requests of each user (2.8
million) and with two URLs and three connections (2.0 million), both before stalled
connections were added, `Aggregator` with 2 keys (342 thousand), and
`Collector` with a channel of 2. Deadlock is checked for the registry; the other models
stop when their bounds are used up, or when everything has returned.

Runs that find a counterexample, each to a sentence of the code:

| Run | The code says | TLC finds |
|---|---|---|
| `master_restop` | "StopTest stops a running test" (`orchestrator.go:111`) | stopping a test again idles workers that run another test by now |
| `executor_reuse` | "StopTest stops all virtual users for a test" (`executor.go:235`) | the first execution of an ID goes on when the second took its entry |
| `ws_valid` | "Check if we already have a valid connection" by "a ping to verify connection is still alive" (`ws.go:142`, `:144`) | a request is given a connection whose reads have failed for good: the ping only writes |
| `pipeline_forwards` | "processResults processes test results and forwards them to metrics collector" (`worker.go:116`) | the reporter takes results from the same channel; those are never counted |
| `aggregator_merges` | "MergeAggregations combines aggregations from multiple sources" (`aggregator.go:195`) | a merge with itself among the sources, or one of two that merge each other, never returns |

The passing properties say where they would fail for a reason of the same
kind. Met while modelling, and not given a run:

- Under a test ID used again `StopTest` reaches the later test's workers only, and the
  first ones run a cancelled test (so `WorkerBacked` is stated for fresh IDs: start,
  start again with one more worker, stop). In the executor the monitor of a stopped
  execution ends the next one (so `RunsItsTime` asks that no other execution has the
  ID).
- A worker that registers again is ready for another test, while its own is RUNNING
  without its users (so `TestBacked` and `KeepsLeases` are for workers that register
  once).
- The empty ID passes validation, and a test with it is not failed when its
  worker is removed (so `TestIDs` leaves it out where `RemovalFailsTest` is
  checked). The theorems allow it.
- `MaxWorkers` is not enforced by the API.
- "distribute users proportionally to capacity" (`scheduler.go:56`) has a bound
  below and none above: what the roundings take from large workers piles up on
  the last ones. Of eleven workers with capacities 30, 30, 28, 28, 28, 27, 25, 24,
  23, 23 and 21, serving 218 users, the last ends 2.049 users above its exact
  share, and with more workers the excess grows like the logarithm of their
  number. Three workers show nothing of this; it came up when the bound was to be
  proved. So `Proportional` has the lower bound, which is a theorem.
- After a shutdown, virtual users that wait for room in `resultsCh` wait for
  ever (so `AllReturn` is conditional on `[]up`), and the reporter's last
  batches may be lost: `Start` waits for `processResults` only, and the process
  exits after it (so `BatchesSent` ends there).
- A value added when the aggregator's loop has returned, or is about to, is never
  aggregated (so `AllAggregated` ends there). Aggregations of keys that stopped
  coming stay.
- A peer that stops reading holds `getConnection`'s ping, and with it `c.mu`, for as
  long as it likes (`ws.go:145`): users of all URLs wait, past their deadlines, and
  so does `Close` (so `ExecuteReturns` has the premise that this comes to an end).
- A WebSocket request that times out or cannot read returns a response with the
  error inside and a nil error beside it (`ws.go:107`, `:115`); the executor
  looks at the latter and counts a success. The reader of a request that
  returned before its read failed waits for ever at `errCh` (`ws.go:90`). A reader
  left behind may take the message meant for the next request. The dial holds
  `c.mu` (`ws.go:161`), and all other users wait for it.
- After a `Reset` of the collector between the metrics of one response a
  snapshot shows errors without requests (so `ErrorsAmongRequests` is stated up to
  the first). `RecordResponse` waits for ever when the channel is full and
  `processMetrics` has returned (so `RecordReturns` has a way out). `GetMetric`
  looks up by name what is stored by name and labels (`collector.go:93`).
- A batch with a successful result panics: `reporter.go:207` asks a nil error for its
  text (so the pipeline's properties hold up to a panic).
- `MergeAggregations` copies the sources' raw values only: what a source has aggregated
  is not in the result.
- Two keys with one sanitized name, or one with a character that
  `sanitizePrometheusName` leaves in, such as '/', end the process at an export for
  Prometheus (`exporter.go:151`), though a failed export is to "continue running"
  (`exporter.go:86`). `Exported` names that way out.
- With a metric in the hand of `processMetrics` the channel is empty and the snapshot
  incomplete (so `AllCounted` counts what is on its way). A metric on its way at a
  `Reset` is counted after it.
- A format set later has no InfluxDB client or no server (`exporter.go:55`, `:66`). A
  gauge outlives its key.
- `parseGRPCPath` rejects every path (`grpc.go:136`): no gRPC request is ever sent.
  `ParseDuration("1d")` is an error (`utils.go:139`). A test comes as JSON, where
  the expected value of an assertion is never an `int` or a `time.Duration`
  (`executor.go:214`, `:223`): every such assertion fails.
- `CalculatePercentile` rounds the rank down: of ten durations the 95th
  percentile is the ninth.

## 4. Fairness

Go runs every goroutine that can run, so each goroutine's steps are weakly
fair; a send or receive that waits is enabled again when the channel has room
or a value, and in these models stays so until somebody takes it. Contexts with a timeout
expire, and HTTP requests return (the client has a timeout). WebSocket requests
may not: the executor's model lets them hang, and `AllReturn` says that a virtual
user returns or hangs in one, and that nobody waits for it. Tickers of the reporter
fire again and again, which is why a batch is flushed; nothing is asked of the ticker
of the worker's collector nor of the aggregator's, so `AllAggregated` rests on
`updateCh` alone. In `ResultPipeline` fairness ends with the process: once `Start` has
returned no step has to be taken. Clients owe nothing, not even to start a loop or to
leave it running. `StartReturns`, `Processing`, `Collecting` are fair as goroutines, not
as branches of a `select`: no run assumes that `select` is fair among its
cases, except that the reporter's ticker case is taken in the end, which Go's
random choice among ready cases justifies.

Two steps are strongly fair, where a goroutine competes for something that is
free again and again: taking `c.mu` in `WSClient` (`sync.Mutex` and `sync.RWMutex`
hand over to a goroutine that has waited), and sending in `Collector` (the senders
at a full channel are served in the order in which they came). Dials end, after
the `HandshakeTimeout` at the latest, and think times pass. Peers owe nothing: a write
to a stalled connection is not fair (`Stuck`), because no write of the code has a
deadline. `ExecuteReturns` therefore speaks of behaviours in which a user is, from some
time on, not held up by its own stalled write or by the ping of whoever holds `c.mu`;
it rests on no message of a peer, and connections may stall and resume, or stay
stalled with nobody writing to them. Exports end, as the HTTP client
has a timeout. The steps that may end a process by a panic are never fair.

## 5. The proofs

No theorem rests on anything but the assumptions of the modules, which TLC
evaluates in every run, and on the hypotheses its statement names. Induction along a
list or over a finite set is done by looking at the least position, or a smallest
subset, where a claim fails (`LeastNat`, `UpTo`, `Subsets` in `Sums`). The sums of the
models take their elements in an order nobody chooses; `Sums` proves that the order
does not matter, and what adding, removing or exchanging an element does.

**The scheduler**, for any finite set of workers, any positive capacities and any
number of users (`AllocationProofs`; `AlgorithmProofs` carries the results over to
the run).

- `AllocationContract`: entries for available workers only, each at least 1 and at
  most the capacity. The heart is `FirstPassInvariant`: along the sorted list, the
  users left never exceed the capacity left, so each share is at most the worker's
  capacity; the second pass adds one only where there is room.
- `AllocationServesAll` (`AllServed`): every user is placed. What the first pass
  leaves is less than the number of workers it gave their share rounded down and that
  have room (`LeftOverFits`): once a share is zero, so are all that follow in
  the sorted list (`SharesThenNone`), and each of the workers before it has lost less
  than one user to the rounding.
- `AllocationProportional` (`Proportional`): the number of users to place, per
  unit of capacity left, never falls along the list (`RatioGrows`), so each share
  rounded down is less than one user below the exact share of the whole.
- `AllocationFair` (`Fair`): workers of one capacity are neighbours in the list, the
  quotients that give their shares are within one (`SharesOneApart`), and the second
  pass serves the first of them first (`CountsOneApart`).
- `AllocationExists`: there is an error only when the workers are none or too
  small, since every finite set of workers can be sorted (`OrderExists`).

**The statistics**, for any number of any integers (`AlgorithmProofs`).

- `ExchangeSortSorts`: the inner loop puts the least value first and exchanges only
  from there on (`LeastFirstSorts`), the outer loop leaves what it has put in
  place (`OneMorePlace`); what comes out is what went in, in another order
  (`Reordered`). `SortedIsSorted`: the order statistics `sort.Float64s` promises are
  the same sequence, by counting.
- `PercentilesAreRanked`, `StatisticsAreOrdered`, `PercentilesAgree` (`Ranked`,
  `Ordered`, `Agree`): `percentile` is between the values at the rank rounded
  down and the one after (`PercentileBetween`), less than the whole way up
  (`Interpolated`), and higher ranks give no lower values (`PercentileMonotone`).

**The registry and the master**, for any finite set of worker IDs, any test IDs,
any capacities in the integers, any positive numbers of users, any `MaxWorkers`
(the assumptions of `Orchestrator`; `MasterProofs`).

- `TypeCorrect`, `LoadsFit`: `TypeOK` and `LoadFitsStatus`, whose conjunction is
  inductive. Neither is without the other: a running worker's type needs its load to
  be a natural number, which `AllocationContract` gives if capacities of available
  workers are positive, which follows from the loads of idle workers being 0.
- `RunningIsStaffed`: `Staffed`, from `AllocationServesAll`.
- `NotReassigned`: `NeverReassigned`: an allocation is for available workers, and a
  running one is not available. `LossIsReported`: `RemovalFailsTest`, under the
  hypothesis that the empty ID is no test's. With it the code does not fail
  the test of a worker that is removed, so the hypothesis cannot go.
- `MasterLoadsFit`: the invariant holds for the master with any clients, whose
  registrations are unlimited.
- `RunningIsOnFile` (`WorkerBacked`) for clients with fresh IDs. `FreshInv` adds `WorkerBacked` to the invariant: it is needed
  because `StopTest` idles the workers on the test's list, so no worker may run
  a test that does not list it. `OverForGood` (`NoRevival`): a removed worker that
  has a current test is running it, so by `WorkerBacked` that test is not
  `CANCELLED`.
- `RunningIsBacked`, `LeftAlone` (`TestBacked`, `Undisturbed`) for careful
  clients. `CarefulInv` has both directions at once: what a worker runs lists
  it, and what a running test lists runs it. Together they make the lists of
  running tests disjoint, so that stopping one idles no worker of another.
- `ImplementsLeases` (`KeepsLeases`): with `CarefulInv`, each step of the careful
  master is a step of `TestLeases` or a stutter: `StartTest` a grant of exactly
  the users asked for on free workers (`StartIsGrant`), `StopTest` a return of
  all of them (`StopIsGiveBack`), registrations and heartbeats stutters.

**The executor**, for any tests, any virtual users, any positive numbers of steps
and places in the channel, and any number of executions (`WorkerProofs`).

- `EntriesAreCleanedUp`, `LatestIsReachable`: `CleanupPending` and `Reachable`. Both
  say what is under a test ID when a monitor or `StopTest` looks there. By themselves
  they are not inductive: a monitor might end an execution of another test, or one
  whose own monitor is gone. So the invariant adds that an entry leads to an execution
  of its own test (`Listed`), and that an execution under way has its monitor
  (`Monitored`).
- `MonitorsEndNothingElse`: `RunsItsTime`, as by `Listed` the monitor of a lone
  execution finds that execution or nothing.

**The WebSocket client**, for any users, any non-empty set of URLs and any bounds
(`Bounds`; `WSClientProofs`).

- `NothingLeaks`: `OpenAreListed`. From the lookup to the end of `getConnection` the
  user holds `c.mu`, so the invariant has, for each call, what stays true of the
  table meanwhile (`RequestOK`): a user that pings finds what it pings under its URL,
  a user that dials finds nothing there, and the owner of the mutex is that user.
  `OneEach`, that no connection is under two URLs, is needed since a connection that
  is closed loses one entry only.
- `NoneLeftWaiting`: `Attended`, inductive beside that invariant, which adds that a
  request that waits has started a reader. Only its last reader can let it
  down, and that one returns when the context is done or together with the
  request (`ReaderAttended`).

**The worker**: `ExecutorInWorker`, `ClientLosesNone`, `NoneWaitsAlone` and
`WorkerTypesCorrect` (`WorkerProofs`) say the same of `MCWorker`, the specification
that is run, which has the client under other names.

**The result pipeline**, for any finite set of tests, any sizes of channels and
batches, any numbers of results and rounds (`ResultPipelineProofs`).

- `TypeCorrect`, `RequestsAreConserved`, `RatesAreSound` (`TypeOK`, `Conserved`,
  `RatesAreRates`). Each step moves requests of a test from one place to the next; the
  count of a place is a sum over a sequence or over a map, and the lemmas say what
  `Append`, `Tail` and a round in any order do to it. `TypeOK`, whose bounds say
  that no place has more requests than were made, needs `Conserved`; that
  needs `Sound`: metrics are under way only while `m.mu` is held, and errors
  are never more than requests.

**`pkg/metrics`**, for any finite sets of aggregators and recorders, any keys,
namings, orders of labels and sizes (`MetricsProofs`).

- `NothingLost`: `NoLostUpdate`, for any aggregators that merge each other at once,
  inductive given the types: `updateCh` is filled after the value is stored, a full
  `updateCh` means a wake-up still to come, and a merge holds its mutex until it has
  sent. That a value may wait in vain once the loop has returned does not break it:
  the message waits too.
- `ResponsesAreCounted`, `ErrorsHaveRequests`: `AllCounted` and
  `ErrorsAmongRequests`. Neither is inductive by itself. `Complete` says for each
  metric that what is counted, in hand, in the channel and unsent adds up to the
  responses recorded, with the error counted for the failed ones. For errors the
  order matters: `Balanced` says that whatever prefix of the hand and the channel is
  counted, errors are not above requests, and `InOrder` that a recorder with an
  error to send has just sent the request.
- `TypesCorrect`: `TypesOK` of the three parts together.

Only model-checked: liveness, which is outside the prover's reach (`AllReturn`,
`ExecuteReturns`, `AllAggregated` and `MergesReturn`, which the run has as
`AggregatorsAggregate` and `AggregatorsMerge`, `RecordReturns`, `Exported` and
those of the pipeline).

## 6. Not modelled

- `RebalanceWorkers` and its helpers: no caller, and a call for a running test
  blocks on `s.mu` at once. The answers of the getters: handlers encode shared
  objects after the locks are released (data races that change no state).
- The HTTP client, a wrapper around `net/http` without state of its own, and
  the gRPC client, which never gets past the parsing of its path. The `Set`
  methods of the clients, and `SetEndpoint`, `SetInterval` and `SetWindowSize`. Gauges
  and histograms of the collector, which nothing makes.
- Flags, configuration defaults, formatting; deployment files, dashboards, the
  unused `.proto`.
- Values: response times, bytes, CPU and memory. `CalculateStats(nil)` at
  `metrics.go:101` makes every reported response time 0; memory usage is a
  fraction (`utils.go:66`) compared with 80.

## 7. Plan

Done, in the order of importance: registry and scheduler, the master and its
clients with the lease manager, executor, pipeline, aggregator, statistics,
WebSocket client, collector and exporter; proofs of every safety property that a
passing run checks.

Next modules:
1. `MasterLocks`: `m.mu`, `Mu`, `s.mu`, `test.Mu` and the handlers step by step,
   with `RebalanceWorkers`: no deadlock without it; what is read after unlock.
2. `Worker`: `Executor` and `ResultPipeline` composed over one channel, for the
   whole shutdown.
3. Pure operators: `ParseDuration`, `MergeHeaders`, `validateAssertion`.

Next theorems: those of the next modules.

## 8. Running

    tlc -workers 2 -config MCWorker.cfg MCWorker
    tlapm MasterProofs.tla

`PROJECT.json` has the module and configuration of every run, the faulty
variants with the properties they break, and for every definition the lines it
models.
