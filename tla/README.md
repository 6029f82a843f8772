# go-examples: specifications, model checking and proofs

TLA+ specifications of the stateful programs in `src/examples/` (adnvilla/go-examples),
checked with TLC on small instances and, for the central invariants, proved with TLAPS
for every value of the constants.

The repository is a collection of independent Go programs, each in
`src/examples/<name>` and each showing one technique. They do not call one another;
what interacts are the parts *inside* an example: goroutines over channels and locks,
processes over Redis or a database, callers over a shared object. So each stateful
example is one specification. Modules are composed in two ways: `Outbox` with the abstract
`OrderAnnouncements` it is shown to implement, and `Programs`, which puts the smaller
programs side by side and lets any one of them be started; `MCPrograms` is its instance.

## 1. Inventory

### Modelled

| component | state | operations | how its parts interact |
|---|---|---|---|
| **Circuit breaker** `circuit-breaker/breaker.go`, `main.go` | `state`, `failures`, `successes`, `openedAt`, `probing` behind a mutex | `Do` = `allow`, then `fn()`, then `record`; `transition` | concurrent callers share one `Breaker`; the mutex is released while `fn` runs |
| **Distributed lock** `distributed-lock/lock.go`, `main.go` | in Redis: the lock key with its TTL, and the fence counter; in a worker: `Lock{token, Fence}`; in `storage`: `highestFence` | `Acquire` (SET NX PX, then INCR), `Release`, `Extend` (Lua scripts), `storage.write` | workers and storage meet only through Redis and through the fences they present |
| **Transactional outbox** `outbox-pattern/outbox.go`, `main.go` | tables `orders` and `outbox`; the broker's set of ids; a relay's batch | `PlaceOrder`, `PendingEvents`, `MarkDispatched`, `Relay`, `Broker.Publish`, the dual write | the application writes, relays poll and publish, the broker deduplicates |
| **Redis quote queue** `redis/main.go` | per engine: job counter, task list, one result list per job; per request: a goroutine per engine, a `WaitGroup`, a results channel | `handleQuote`, `enqueueAndWait`, `runEngine` | requests fan out to engines over Redis lists and join on a `WaitGroup` |
| **Task pool** `pool/pool.go` | `Tasks`, `concurrency`, `tasksChan`, `wg`, `Task.Err` | `NewPool`, `Run`, `work`, `Task.Run`, `HasErrors` | `Run` hands tasks to workers over an unbuffered channel |
| **Kafka** `kafka/main.go` | in the broker: what each partition stores, its leader, the group's committed offsets; in the reader: positions, the message in hand; in `consumeGroup`: `partitionOf`, the count taken | `createTopic`, `produce`, `writeMessages`, `consumeGroup`, `resumeAfterRestart` | producer and consumer meet in the topic, a consumer and its successor in the committed offsets |
| **WebSocket hub** `websocket/hub.go`, `main.go` | `Hub.clients` behind a mutex; per handler its read loop and the snapshot it still writes to; per client a pump and `msgs` | `register`, `unregister`, `broadcast`, `ServeHTTP`, `connect`, the pump, `recv` | every handler writes to every connection, its own included |
| **Shutdown** `graceful-shutdown-signals` | the context, the workers, the done channel | `run`, `worker` | a signal cancels the context, workers drain, `run` races them against a deadline |
| **HTTP server** `http-server` | the quit channel, the listener goroutine, requests in flight | `main`, the middleware, the handlers | a signal makes `main` shut the server down under its handlers |
| **Pipeline** `concurrency/pipeline` | one goroutine per stage, unbuffered channels, a context | `gen`, `square`, `merge`, three consumers | a stage closes its output, which ends the next one; `cancel` ends them out of order |
| **One answer each** `concurrency/fan-out-timeout`, `scatter-gather`, `context` | a worker, its inner goroutine, its timer, `done`, `out` | `worker`, `slowOp`, `main` | inner goroutine and timer race for the one answer |
| **errgroup** `errgroup` | `results`, the group's limit and first error, the shared context | `fetchAll`, `fetchWithLimit` | the first error cancels the siblings |
| **Fixed workers** `concurrency/worker-pool` | two buffered channels | `main`, `worker` | `main` sends all jobs before it takes a result |
| **URL poller** `share-memory-by-communicating` | a resource with its `errCount`, handed on; the monitor's map | `Poller`, `Poll`, `Sleep`, `StateMonitor`, `main` | a cycle of unbuffered channels |
| **Postgres** `postgres/main.go` | the table `doctors`, two transactions, a listening session | `writeSkew`, `retryBob`, `listenNotify` | the transactions overlap; the rejected one is run again |
| **HTTP client** `http-client/main.go` | the attempt, `lastErr`, a context | `GetJSON`, `doGet` | the context may end in a request or in a backoff |
| **gRPC echo** `grpc-advanced/main.go` | the calls of one connection, a stream in two directions, a deadline | the handlers, the interceptors, the demos, the stop | client and server learn of a deadline separately |
| **SQLite** `sqlite/main.go` | one pooled connection, the table, an open transaction | `insertBooks`, `queryBooks`, `transactions` | open rows and transactions keep the connection from everybody else |

What is hard about each, and what makes it correct:

* **Breaker** — an outcome may be recorded in a later state than the one that admitted
  the call: calls admitted before a trip report in open or half-open, and `record` does
  not know which call it is looking at. `fn` may panic and unwind past `record`. Correct:
  counters never leak from one period into the next, an open breaker is left alone for a
  full cooldown, probes run one at a time, closing is earned, and a breaker never stays
  shut for good once the downstream is healthy.
* **Lock** — pauses of any length between any two commands, a lease that expires under
  its holder, lost replies and retried commands, deaths. Correct: stale holders neither
  free nor prolong the lease of another and cannot overwrite what a later holder wrote, and
  no crash wedges the lock.
* **Outbox** — relays die between publish and mark, and overlap with a batch read before
  the other relay's marks. Correct: exactly the placed orders are announced, once each
  and in order, however often the relays repeat themselves.
* **Quote queue** — a timeout races a late answer, a command is retried after a lost
  reply, BLPOP hands a job to an engine that then dies, several requests share a list.
  Correct: no answer is mixed up, each job is in one place, each request ends, each reply
  has a line per engine.
* **Pool** — the race of `Wait` with the last `Done`, more workers than tasks, none at
  all, tasks that fail to return, a `Run` called twice. Correct: every task runs once, `Run`
  returns after the last one and leaves no worker behind.
* **Kafka** — the whole batch is written again after a partial write; a consumer dies, or
  loses its partitions, between processing and commit. Correct: nothing is committed
  unprocessed, a restart repeats at most one message per partition, no order is processed
  before an earlier one of its key.
* **Hub** — a broadcast writes to a snapshot outside the lock while clients come and go, two
  read loops broadcast at once, a client's pump blocks on its full channel, a write that times
  out is ignored. Correct: who was registered hears the message, lets its write time out or has
  lost its connection; each sender is heard in order, nothing twice, with a gap only where a
  write timed out; a client that does not read delays the others by a deadline and no more.
* **Shutdown, HTTP server** — the last worker, or the last handler, races the deadline.
  Correct: a clean end means that everything begun has been finished; the process ends.
* **Pipeline, one answer each, errgroup, fixed workers** — channels closed while someone still
  sends, cancellation, an answer racing its timeout, the slots of failed fetches. Correct: every
  value once, one answer each, an error exactly if a slot is empty, nobody left behind.
* **Poller** — everybody sends to somebody who sends. Correct: a resource has one owner, and
  is polled again and again.
* **Postgres** — write skew, and a retry that must see what the winner left. Correct: somebody is
  on call whenever the level is serializable.
* **HTTP client** — attempts, backoff and a context that ends in either. Correct: the number of
  requests, and an error that names its cause.
* **gRPC echo, SQLite** — an abandoned handler that a graceful stop waits for; a pool of one
  connection. Correct: `run` ends without waiting for itself; a clean stop has waited for every
  handler, and what is counted is what was committed.

### Not modelled

`sync-primitives`, `concurrency/rate-limiting`, `channels`: demonstrations of
library primitives, whose state is the library's. `grpc`: one unary call and one server
stream in a row; `grpc-advanced` has both and more. `testcontainers`: single statements
against an external store, as are `mysql` and `dynamodb`. `otel`, `otel-propagation`, `metric`: calls into an SDK.
`os-exec`, `io-readers-writers`: stream I/O. The language and framework examples (`errors`,
`functional-options`, `generics`, `iterator`, `recover`, `serialization`, `mocking`, `gin`,
`httptest`, `templates`, `wire`, `inject`, `config`, `flags`, `slog`, `datetime-parse`,
`crypto-basics`, `embed`, `lambda`, `protobuf`, `oop`, `typecast`, the benchmarks and profiles): straight-line code with no state machine to check. `PROJECT.json` lists
each with its reason, and, under `hazards`, the places where the code can go wrong in a
way a test would hardly reach, with the properties that watch them.

## 2. Plan

| order | module | abstracts / composes | status |
|---|---|---|---|
| 1 | `CircuitBreaker`, `CircuitBreakerProofs` | | checked, proved |
| 2 | `DistributedLock`, `DistributedLockProofs` | lock, workers and fenced storage | checked, proved |
| 3 | `OrderAnnouncements`, `Outbox`, `OutboxProofs` | `Outbox` implements `OrderAnnouncements` (database, relays, broker) | checked, proved |
| 4 | `QuoteQueue`, `QuoteQueueProofs` | handler, engines and Redis | checked, proved |
| 5 | `Pool`, `PoolProofs` | | checked, proved |
| 6 | `ConsumerGroup`, `ConsumerGroupProofs` | producer, topic, group and its readers | checked, proved |
| 7 | `Hub`, `HubProofs` | registry, handlers, connections and client pumps | checked, proved |
| 8 | `Pipeline`, `FanOut`, `ErrGroup`, `WorkerPool`, `Poller` | goroutines over channels | checked and proved in `Programs` |
| 9 | `Shutdown`, `HttpServer` | signals, workers, deadlines | checked and proved in `Programs`; `Shutdown` also checked on its own |
| 10 | `WriteSkew`, `Retry` | Postgres; HTTP client | checked and proved in `Programs` |
| 11 | `Echo`, `Sqlite` | gRPC client and server; pool of one connection | checked and proved in `Programs` |
| 12 | `Programs`, `ProgramsProofs` | composes 8 to 11 | checked, proved |

"Proved" means: every safety property a passing run checks, invariants and action properties
alike, is a theorem. What could come next: safety counterparts of the liveness properties, an
invariant per program that says which step is open to it. `BooksInv` already says so of
`Sqlite`: the connection is free wherever a statement waits for it.

## 3. Conventions

* A module `X` holds the constants with their named assumptions, the variables, one
  action per operation or step, the specification and the properties; `MCX` gives TLC
  the bits it needs; `MCX.cfg` gives the constants their values; `XProofs` holds the theorems.
* A definition marked *mutant* is a plausible mistake in the operation that follows it
  (a dropped guard, a missing reset). It belongs to no specification. Every
  property of a run has one that makes TLC find it violated, listed in `PROJECT.json`: so no
  property holds for want of anything to break it.
* *History variables* are read by properties only. Names beginning with `Max` are bounds
  of the model, not of the program; the proofs hold for any value of them.
* The programs of `Programs` begin in an idle state, and its next step starts one of them only
  while all others are idle: the run is the union of eleven independent state machines, not
  their product, and no program can hide what another one does.
* A key, token, job or event is a number or a model value. What a payload says is left out.

## 4. The modules

### CircuitBreaker

| model | code |
|---|---|
| `state`, `failures`, `successes`, `probing` | the fields of `Breaker`, guarded by `mu` |
| `openAge` | `now() - openedAt` in ticks, counted up to `Cooldown` |
| `AdmitClosed`, `AdmitFirstProbe`, `AdmitProbe`, `FailFast` | the exits of `allow` |
| `Return`, `Panic` | `fn()` returning an outcome, or unwinding through `Do` |
| `RecordClosedOk`, `RecordClosedFailure`, `RecordHalfOpenFailure`, `RecordHalfOpenOk`, `RecordOpen` | `record`, by the state in which the outcome arrives |
| `Transition` | `transition` with its resets |
| `Flip`, `Tick` | `flakyService.setHealthy`, the clock |
| `role`, `lateResult`, `goodProbes`, `sinceTrip`, `lostProbe` | history: on what grounds a call was admitted, and what has happened to the period since |

`allow` and `record` are one step each because each holds the mutex throughout; `fn`
runs between them. `State()` only reads. The `OnStateChange` callback runs under the
mutex and in `main.go` only prints.

### DistributedLock

| model | code |
|---|---|
| `owner`, `ttl` | the lock key with its expiry |
| `fenceCtr` | the key `<key>:fence` |
| `token`, `fence`, `pc` | `Lock.token`, `Lock.Fence`, and where a worker is inside `Acquire` |
| `SetNX`, `Denied`, `SetNXLost` | `SetNX` succeeding, answering false, succeeding with its reply lost |
| `Incr`, `IncrFailed` | the second command of `Acquire`; a retried INCR counts twice |
| `Release`, `Extend`, `NotHeld` | the compare-and-delete and compare-and-expire scripts, and their answer 0 |
| `Write`, `WriteRefused` | `storage.write` |
| `Abandon` | a worker dies or returns on an error |
| `Tick` | time, and the expiry of the key |

A script is one step because Redis runs it atomically. The two commands of `Acquire` are
two, with any number of steps of others between them. The token, 16 random bytes, is
modelled by the number of the grant: that two grants never share one is the only
thing taken from it. A Redis failover that loses keys is not modelled.

### OrderAnnouncements and Outbox

`OrderAnnouncements` is the promise: orders are placed, and announced once each in order
of placement. `Outbox` is how it is kept.

| model | code |
|---|---|
| `orders`, `outbox` | the tables, a row's id its position |
| `tx`; `Begin`, `InsertOrder`, `InsertEvent`, `Commit`, `Rollback` | `PlaceOrder`, its failures included |
| `DualWrite` | `dualWriteProblem`: an order committed with no event |
| `Poll` | `PendingEvents`: the undispatched rows by id |
| `Publish`, `Mark` | one turn of the loop in `Relay`: `Broker.Publish`, `MarkDispatched` |
| `Crash` | `crashBeforeMark`, or a relay that fails or dies anywhere else |
| `delivered`, `dupes` | the ids the broker passed on, and how often it dropped one |

`SetMaxOpenConns(1)` makes an open transaction exclude every other statement, so `Poll`
and `Mark` need `tx = "none"`. The broker stands for an external one with a
deduplicating consumer, as the comments of the example say; each `Publish` is one step.
The program runs one relay after another. The model lets several overlap, as separate
relay processes would, because `outbox-pattern/README.md:81` makes a claim about
that case and a stale batch is where the order of delivery could go wrong.

The refinement maps `placed` to the orders named by the outbox rows and `announced` to
the orders of the delivered events: an order is *placed* when its transaction commits,
and *announced* when the broker passes its event on. A mark, a duplicate, a crash and a
dual write are stuttering steps.

### QuoteQueue

| model | code |
|---|---|
| `counter`, `tasks`, `results` | the Redis keys `queue:task:<e>:counter`, `queue:task:<e>`, `queue:processed:<e>:<job>` |
| `Arrive`, `Reply` | `handleQuote` starting its goroutines; `wg.Wait`, `close`, the reply |
| `Incr`, `Push`, `PopResult`, `TimeOut` and the `...Fails` forms | the commands of `enqueueAndWait` |
| `Send`, `Finish` | the goroutine's send on the results channel, its deferred `wg.Done` |
| `PopTask`, `PushResult`, `PopTaskLost`, `PushResultFails` | the loop of `runEngine` |
| `Restart` | the process dies; Redis keeps its lists and counters |

A command may fail after Redis has executed it, and the client library may send it again
after a lost reply: both are in `Incr`, `Push`, `PushResult` and their failing forms.
`faults` counts retries by the library, lost jobs and restarts, and is bounded; an
ordinary error return is not a fault. The results channel has room for all
the lines, so `Send` never blocks.

### Pool

| model | code |
|---|---|
| `n`, `concurrency` | the arguments of `NewPool`, chosen in `Init` |
| `Spawn`, `Add`, `Send`, `Close`, `Return` | `Run` |
| `RunAgain` | a second `Run` on the closed channel |
| `Execute`, `Done`, `Exit` | `work` and `Task.Run` |
| `Panic`, `Goexit` | a task whose function does not return |

The channel is unbuffered, so a send and the receive it meets are one step. `HasErrors`
only reads, and `RunSeesEveryResult` says that it may be called after `Run`.

### ConsumerGroup

| model | code |
|---|---|
| `hash` | `kafka.Hash`: any assignment of keys to partitions, the same for the whole run |
| `ready`, `LeaderReady` | partitions whose leader accepts writes, in any order |
| `Create`, `CreateFails`, `Visible`, `PollAgain`, `PollExpires` | `createTopic` and its poll |
| `Write`, `WriteAgain`, `WriteFails`, `WriteExpires` | one turn of `writeMessages`: each partition stores its share, loses the acknowledgement, fails or is unknown |
| `Fetch`, `Process`, `Commit`, `CommitFails`, `FetchFails`, `FetchExpires` | the loop of `consumeGroup` |
| `Refetch`, `Recommit` | `resumeAfterRestart` after its write |
| `Die`, `Restart`, `Rebalance` | a consumer that stops and is started again; the group moving its partitions |
| `Expire` | the 90 seconds of `run` |
| `reached`, `byKey` | history: how far each partition was processed; the code's `byKey`, over all consumers |

An order is its number; its key is given by `KeyOf`. A partition gets its share of a batch
in the order of the batch: `InOrder` of the set of its orders. Kafka itself is taken from how the
code uses it: a partition is a sequence, and a reader of a group starts at the group's offset.

### Hub

| model | code |
|---|---|
| `clients` | `Hub.clients` |
| `register`, `Read`, `ReadFails`, `unregister` | `ServeHTTP` with its deferred calls |
| `Snapshot`, `Write`, `WriteFails`, `Written` | `broadcast`: the copy under the mutex, the writes outside it |
| `conn`, `up`, `down` | a connection and what it buffers in either direction |
| `Connect`, `PumpRead`, `PumpSend`, `PumpEnds`, `recv` | `connect`, its pump, `recv` |
| `Send`, `Close` | what `run` and the tests do with a client |
| `heard`, `owed`, `missed` | history: what was written to a connection; the messages whose snapshot had it; those dropped on it |

`broadcast` ignores the error of a write: the message is dropped for that client, which is "the
deliberate policy" (`hub.go:60-61`, and "a wedged client loses messages" in the example's
`README.md:64`). What becomes of the connection is the library's: it closes one whose write was
cut off, since half a frame may be out, and keeps one whose write could not begin in time, as
while another broadcast holds its write lock. `WriteFails` leaves both open and
no property rests on either.

### Programs and its parts

| module | state and actions | code |
|---|---|---|
| `Pipeline` | `gen`, `stage`, `forwarder`, `closer`, `consumer`: where each goroutine is; a send and its receive are one step (`GenSend`, `Forward`, `TakeSquare`, `TakeMerged`) | `gen`, `square`, `merge` and `linearPipeline`, `fanInPipeline`, `earlyCancellation` |
| `ErrGroup` | `started`, `fetch`, `slots`, `groupErr`, `groupDone`; `Go`, `Fetched`, `FetchFails`, `Wait`, `CancelParent` | `fetchAll`, `fetchWithLimit`, and of errgroup the limit, the first error and the cancellation |
| `FanOut` | `inner`, `done`, `waiting`, `out`; `InnerSend`, `End`, `Answer`, `TimeOut`, `Exit`, `Close`, `Drain` | `worker` and `main` of fan-out-timeout and scatter-gather; `slowOp` of context |
| `WorkerPool` | `jobs`, `jobResults`, `has`; `SendJob`, `CloseJobs`, `TakeJob`, `SendResult`, `EndWorker`, `TakeResult` | `worker` and `main` of worker-pool |
| `Poller` | who has each resource: `fed`, `holds`, `mainHolds`, `sleeping`, `awake`; `Feed`, `Poll`, `Status`, `Complete`, `StartSleep`, `EndSleep`, `Wake` | `Poller`, `Resource.Poll`, `Resource.Sleep`, `StateMonitor`, `main` |
| `Shutdown` | `run`, `caught`, `ctxDone`, `worker`, `workersDone`; `Signal`, `PickUp`, `Complete`, `Cancelled`, `Stop`, `Await`, `CloseDone`, `Drained`, `TimeOut` | `run`, `worker`, `signal.NotifyContext` and its `stop` |
| `HttpServer` | `server`, `listener`, `quit`, `request`; `Listen`, `ServeFails`, `Accept`, `Route`, `Handle`, `handlePanic`, `recoverer`, `Quit`, `Deadline`, `Exit` | `main`, its listener goroutine, `chain`, the handlers |
| `WriteSkew` | `onCall` (committed), `off` (not yet), `sees`; the statements of the two transactions in the code's order, `Fail` at each | `setupSchema`, `writeSkew`, `isSerializationFailure`, `retryBob`, `resetDoctors`, `listenNotify` |
| `Retry` | `attempt`, `lastErr`, `getDone`; `Loop`, `Backoff`, `BackoffCancelled`, `doGet`, `AllFailed` | `GetJSON`, `doGet` |
| `Echo` | `rpc`, `reply`, `cut`, the stream; `checkAuth`, `UnaryEcho`, `SlowEcho`, `BidiEcho`, the demos, `GracefulStop` | the handlers and interceptors of both sides, `run` |
| `Sqlite` | `conn`: who has the connection; one action per statement, `Fail` at each | `run` and what it calls |

`WriteSkew` follows the schedule the code fixes; what is open in it is where bob is rejected
(his UPDATE or his COMMIT) and which statement fails.

## 5. The runs

| run | instance | distinct states | question |
|---|---|---|---|
| `circuit_breaker` | 4 callers, 1 may panic; thresholds 2 and 2; cooldown 2 | 33 650 | does the breaker keep its counters, flag, cooldown and diagram under late outcomes, and does it recover? |
| `circuit_breaker_probes` | 3 callers, thresholds 1 and 2, cooldown 1 | violation | do probes run one at a time, as `breaker.go:45-46` says? |
| `distributed_lock` | 3 workers, leases of 1 or 2 ticks, 3 grants, up to 2 tries of an INCR | 52 732 | what do fence and token guarantee, and can the lock wedge? |
| `distributed_lock_fence` | 2 workers, 2 grants | violation | does a later holder always carry the larger fence, as `lock.go:71-72` says? |
| `outbox` | 2 relays, 3 orders, 2 deaths | 7 038 | does the outbox keep the promise of `OrderAnnouncements`, and drain? |
| `quote_queue` | 2 requests, 1 engine, 4 job numbers, 2 faults | 50 476 | are jobs mixed up, lost or doubled; do requests and queues end? |
| `pool` | 0 to 4 tasks, 0 to 3 workers | 89 322 | does `Run` join every task and every worker? |
| `consumer_group` | 2 partitions, 2 keys, 3 orders, 2 retries, 2 restarts or rebalances | 108 348 | what may a restart repeat, does a key keep its order, and does `run` end? |
| `consumer_group_resume` | the same without a restart | violation | does the restarted reader see only new messages, as `kafka/main.go:168-170` says? |
| `hub` | 2 clients sending 3 and 1 messages; every buffer holds one | 1 234 869 | who hears what, in which order, and can a client that does not read stop the room? |
| `programs` | the eleven modules of `Programs` | 63 674 | do results fit, and does every program end or go on as it should? |
| `second_signal` | 2 workers, 2 signals | violation | does a second signal kill, as `graceful-shutdown-signals/main.go:30-33` says? |

Why the bounds are enough:

* *Breaker*: two calls in flight across a trip and two more in the half-open period are
  the shortest way to a late success beside a live probe and a second probe; thresholds of two
  separate "one of two" from "all". The cooldown has a middle tick.
* *Lock*: a paused holder, its successor and one that comes after both. A lease
  of one tick can run out in any gap; one of two can outlive a neighbour's.
* *Outbox*: a batch with a first, a middle and a last event; two deaths let the
  successor of a dead relay die too.
* *Quote queue*: two requests meet on one engine's list; two faults let a retry meet a
  lost job. With two engines the state space no longer fits a short run; what a second engine
  adds, the join over all of them, is proved for any set of engines.
* *Pool*: none, fewer, as many and more workers than tasks.
* *Consumer group*: two keys fall on one partition or on two; three orders give one key two of
  them; two retries let a batch be stored three times; two restarts let a successor die too.
* *Hub*: a sender that is also a slow receiver, beside one whose messages interleave with
  its; with three messages the one in the middle can be dropped, and the others not. Buffers of one make every blocking case come
  at once; the code's eight only put it off. `Clients` registered at once are enough for a
  snapshot to be stale, since each handler keeps its own.
* *Programs*: pipeline of 4 numbers through 2 squares, 2 taken early; groups of 0 to 3 ids
  under no limit or a limit of 0, 1 or 2; 3 fan-out workers; 5 jobs for 2 workers; 3 URLs and 2
  pollers, as in the code; 3 shutdown workers and 2 signals; 3 requests; `maxRetries` -1, 0
  and 2; a stream of 3 messages and 3 books, as in the code. More of each repeats the same cases.

What the properties say:

* `circuit_breaker` — `CountersFitState`: what a period counted never shows in another.
  `ProbeFlagHasOwner`: a raised probe flag has a live probe, or one that panicked (the
  code then fails every call fast, for ever: the price of a panic inside a probe).
  `LoneProbeUnlessLate`: one probe at a time as long as no late call has reported.
  `CooldownRespected`, `CloseIsEarned`: what a step may never do.
  `Recovers`: with a healthy downstream and no probe lost to a panic the breaker closes for good.
* `distributed_lock` — `FencesAreUnique`; `TimelyFenceOrdered`: the order of the
  fences holds for a holder whose INCR ran while its lease was alive; `NoStaleOverwrite`:
  storage accepts the writes of such holders in the order of their grants;
  `LeaseIsItsOwners`: only expiry, in which no worker has a part, or the owner ends a lease, and
  it is prolonged only while its owner holds it;
  `NoWedge`: an orphaned key goes away.
* `outbox` — `EventIffPlaced`, `DispatchedIsDelivered`, `DeliveredInOrder`, `Drains`,
  and `KeepsPromise`: every behaviour is one of `OrderAnnouncements`, its liveness included.
* `quote_queue` — `NoSharedResultKey`, `ReplyIsComplete`; `JobsAccounted`: without
  faults the job of a waiting or answered request is in exactly one place, and each fault
  adds at most one copy; `RequestsEnd`, `QueuesDrain`.
* `pool` — `RunSeesEveryResult`: after `Run` every task ran and its `Err` stands;
  `RunReturns`: it does, unless there are tasks and no worker, or a task takes its worker with
  it, and then the workers that are left still get all the tasks; `WorkersEnd`.
* `consumer_group` — `OneInDoubt`: nothing is committed unprocessed, and of each partition at
  most one message would be processed again by a restart; `KeysInOrder`: duplicates and
  redeliveries never put a later order of a key before the first sight of an earlier one;
  `CleanRun`: what `main` shows, when nothing was stored twice and nobody restarted; `RunEnds`.
* `hub` — `ReachesRegistered`: a message whose snapshot had a client reaches it, is about to,
  timed out on it, or the connection is lost; `SendersInOrder`: each client hears each sender in
  order and nothing twice, and misses a message in between only where the write of that very
  message timed out; `RoomGoesOn`: every broadcast ends and every lost connection leaves the
  registry, whoever does not read. It also says what remains: a pump that waits on a full
  channel (`websocket/main.go:45`) stays until somebody receives.
* `programs` — `PipelineResultsFit`, `GroupResultsFit` (what comes next to an error),
  `OneAnswerEach`, `OneOwner`, `CleanMeansDrained` (workers, HTTP requests, gRPC handlers and the
  stream), `TablesFit` (Postgres and SQLite), `GetJSONResultFits`; `PolledForEver`: the poller's cycle never stands still; `ProgramsEnd`: the other programs end,
  except a group whose limit of zero lets `g.Go` start nothing.

`TypeOK` and the inductive invariants are not checked by a run of their own: they are proved
(section 7), as are `LegalTransitions`, `WaitGroupCounts` and `EachTaskOnce`.

`CHECK_DEADLOCK FALSE` is set where the system may really stop: after the last grant, a drained
outbox or queue, a pool that has returned or has no worker, a program or consumer that has
ended, clients that do nothing more. What may stop and what may not is then said by the
liveness property of the run.

### Where code and documentation part

1. `breaker.go:45-46` and the example's `README.md:77` say that probes run one at a
   time. `record` clears `probing` for any outcome that arrives in half-open
   (`breaker.go:142`). A call admitted while the breaker was closed that succeeds late
   therefore lets a second probe in beside the first: run `circuit_breaker_probes`.
2. `lock.go:71-72` says that a later holder always carries a larger fence. SET NX and
   INCR are two commands (`lock.go:63`, `73`). A worker that pauses between them for
   longer than its lease increments after the next holder did, and holds the larger
   number with no lease: run `distributed_lock_fence`. `TimelyFenceOrdered` states what does
   hold.

3. `kafka/main.go:168-170` says that the new reader "sees only what was produced after the
   previous consumer stopped". A batch that is written again as a whole
   (`main.go:201-210`) leaves second copies behind, `consumeGroup` stops after six messages,
   and the new reader fetches one of the copies: run `consumer_group_resume`. `CleanRun`
   states when the comment holds.
4. `graceful-shutdown-signals/main.go:30-33` says that a second Ctrl+C kills the process
   during the shutdown. `stop` is deferred to the return of `run` (`main.go:35`), after the
   drain; until then a second signal does nothing: run `second_signal`.

Two more remarks, without a run of their own. `pool/README.md:69` says that extra workers block for
ever on the closed channel; a receive from a closed channel returns, and `WorkersEnd`
shows that they end. `outbox-pattern/README.md:81` claims order for a single relay; for a
deduplicating consumer `DeliveredInOrder` shows it for overlapping relays as well, since a
batch never skips an event that is not yet delivered.

## 6. Fairness

* *Breaker*: time passes, and each caller keeps calling and is scheduled (`WF` of `Do`):
  `fn` returns and the mutex is granted. The downstream need not ever be healthy; `Recovers`
  assumes it.
* *Lock*: only time is fair. A worker may stop anywhere, so `NoWedge` rests on the expiry alone.
* *Outbox*: `WF` of the steps that end an open transaction; `SF` of each relay, because
  another user may hold the single connection again and again and `database/sql` serves
  waiting requests in order. Nobody has to place orders, deaths are bounded.
* *Quote queue*: `WF` of each goroutine (a Redis command returns, BLPOP returns a result
  or times out after `workerTimeout`), of each engine's loop and of the reply. A connection error is
  never forced, and nobody has to send requests.
* *Pool*: `WF` of `Run` and of each worker: goroutines are scheduled and the function of a
  task returns, unless it panics or ends its goroutine.
* *Consumer group*: `WF` of the program's own loops (the library's calls return) and of the end of
  its context. Nobody has to start a consumer again, and no partition has to become ready.
* *Hub*: `WF` of each handler (a write ends by its deadline) and of each pump. No client has
  to send, receive or leave.
* *Pipeline, FanOut, ErrGroup, WorkerPool, WriteSkew, Retry, Echo, Sqlite*: one `WF` of
  `Step`, the program's own steps: timers fire, statements and requests return, goroutines
  run. Every step takes the program further and none is repeated for ever, so that one
  condition is enough. Starting a program, ending a context early and failing are never forced.
* *Shutdown*: `WF` of `run` alone; a job may hang. *HTTP server*: `WF` of `main`, the
  listener and the deadline; a handler may hang.
* *Poller*: `WF` of polls, statuses and sleeps; `SF` of each party to a channel
  (`Feed`, `Complete`, `Wake`), because a Go channel serves those that wait on it in their order.

## 7. Proofs

Each `XProofs` module proves `Spec => []IInv` (theorem `Inductive`; in `HubProofs`, `Invariant`), with one lemma
or step per action, and derives the properties from it (`TypeOK`, where there is one, is
the theorem `TypeCorrect`). All hold for every value of the constants that satisfies the module's
named assumptions, which TLC also evaluates. `ProgramsProofs` has such an invariant for
each program, on that program's variables alone, and a lemma that a step of `Programs` is a
step of that program or leaves it alone.

| module | assumptions | proved |
|---|---|---|
| `CircuitBreakerProofs` | `Panicky \subseteq Callers`, positive thresholds, natural cooldown | `TypeOK`, `CountersFitState`, `ProbeFlagHasOwner`, `LoneProbeUnlessLate`, `CooldownRespected`, `LegalTransitions`, `CloseIsEarned` |
| `DistributedLockProofs` | positive leases, natural bounds | `TypeOK`, `FencesAreUnique`, `TimelyFenceOrdered`, `NoStaleOverwrite`, `LeaseIsItsOwners` |
| `OutboxProofs` | natural bounds | `TypeOK`, `EventIffPlaced`, `DispatchedIsDelivered`, `DeliveredInOrder`, and `Implements`: `Spec` implies the safety part of `OrderAnnouncements` |
| `QuoteQueueProofs` | natural bounds | `TypeOK`, `NoSharedResultKey`, `ReplyIsComplete`, `JobsAccounted` |
| `PoolProofs` | natural bounds | `TypeOK`, `WaitGroupCounts`, `RunSeesEveryResult`, `EachTaskOnce` |
| `ConsumerGroupProofs` | a positive batch, natural bounds, every order has a key | `TypeOK`, `OneInDoubt`, `KeysInOrder`, `CleanRun` |
| `HubProofs` | natural numbers of messages, room for at least one | `ReachesRegistered`, `SendersInOrder` |
| `ProgramsProofs` | natural sizes, integer limits, every URL listed once, at least one book | `PipelineResultsFit`, `GroupResultsFit`, `OneAnswerEach`, `OneOwner`, `CleanMeansDrained`, `TablesFit`, `GetJSONResultFits` |

Why the invariants need strengthening:

* *Breaker*: nothing in the breaker says which calls are out. `RolesFit` ties a call's
  role to the state (a call admitted in this closed period means closed; a probe means half-open),
  `ProbesFit` ties probes to the flag as long as no late result came in, `CountsFit`
  ties `successes` to the successful probes and `openAge` to the last trip.
* *Lock*: `GrantsFit` says that the live lease is the latest grant and tokens
  are not shared; `FencesFit` that once storage has taken a later grant's write, a timely holder
  of an older grant has a fence below `highestFence`, so its write is refused.
* *Outbox*: `BatchesFit` is the heart of it: an event in a batch is either the successor of (or no
  later than) its predecessor in the batch, or already next to be delivered. So a stale batch
  may repeat but cannot skip, whatever other relays did since it was read.
* *Quote queue*: `RoutinesFit` bounds each job number by the counter it came from,
  which is why the next one is new, and ties the progress of a goroutine to what the
  reply will find. For `JobsAccounted`, a job that nobody has pushed yet is nowhere, its number handed
  out or not; every command then moves one copy, and only a fault adds or
  drops one, so that the counts over lists, engines and goroutines change together.
* *Pool*: `TasksFit` gives each task that was sent and has not run to its end exactly
  one worker; `WaitGroupCounts` then counts them.
* *Consumer group*: a commit writes the offset of the message in hand, whatever the group's offset
  is by then. `ReaderFits` keeps the two together: a reader stands where its group stands, or
  one message behind after a rebalance that came between processing and commit, apart from
  the message in hand, which is processed before it is committed.
  For `KeysInOrder`, `OrderInv` says that a log, cut anywhere, holds the earlier
  orders of a key whenever it holds a later one: a batch is only written again as a whole,
  a key has one partition, and order-7 is written when the batch is stored. What was processed
  of a partition is such a beginning. For `CleanRun`, `CleanInv` counts: without a fault or a
  second copy the reader, the group and what was processed are at the same place apart from
  the message in hand, each message is new, and after `Batch` commits the orders processed are
  exactly those of the batch, so that only order-7 is left.
* *Hub*: the registry may be ahead of a snapshot or behind it. `RegistryInv` says that an open
  connection a handler still writes to is registered. `NumberInv` ties the message in hand to
  those still to be read, and `HeardInv` says that whatever lies between what a client last heard
  of a sender and the message in hand, or the one after it for whoever is done with it, was
  dropped on that client. So two snapshots of one sender
  never mix, although those of different senders interleave freely.
* *Pipeline*: with one path (`OnePath`) the results are the numbers sent, in order, but for the
  one the square stage holds; with two (`FanIn`) each number sent is with one stage, with one
  forwarder or out, and in one place only. *Fixed workers*: the jobs in the channel are the next
  ones after those taken, and a job taken is with one worker or is one result; that all
  have come out at the end is a pigeonhole argument. *One answer each*: what was printed
  followed by what is in the channel is one sequence, with one answer of each worker that has sent.
* *errgroup*: the slots are those of the fetches that succeeded, and there is a first error
  exactly if one failed. *Poller*: a resource that was not fed yet is nowhere. *Shutdown, HTTP
  server*: the drain is reported when no worker, or no handler, is left.
* *Postgres*: the invariant says at each point of the schedule who is on call and whose update is
  still open; the verdicts are what it says at the end. *SQLite*: the same, of who has the
  connection and which rows are in the table.
* *gRPC echo*: when `run` is in a demo, the calls before it have been made, but for a SlowEcho
  whose caller gave up before it was sent, and a reply means that its
  handler has returned; one message of the stream is under way, up or down, exactly when the
  client receives.
* *HTTP client*: `AttemptsFit` says that `attempt` counts the requests sent while the loop goes on,
  and that the last of them failed with `lastErr`.

Only model-checked are the liveness properties (`Recovers`, `NoWedge`, `Drains`, `RequestsEnd`,
`QueuesDrain`, `RunReturns`, `WorkersEnd`, `RunEnds`, `RoomGoesOn`, `PolledForEver`, `ProgramsEnd`)
and the fairness part of `KeepsPromise`: liveness under fairness and `ENABLED` are out of the
prover's reach.

No module uses `RECURSIVE` operators, and the models avoid operators the library defines by
recursion (`SelectSeq`) where a proof has to look into them: the share of a partition is
`InOrder` of a set, of which `InOrderFits` and `InOrderIsUnique` say all that is needed,
without an induction: an element stands where the count of the elements up to it puts it.

## 8. What is not modelled of the modelled examples

* A Redis failover or eviction; retries inside the Kafka and Postgres client libraries; what
  the contents of jobs, results, orders and messages say.
* `Client.Ping`, `waitForClients` and the server's `Shutdown` at the end of `run` in
  `websocket/main.go`; that is why the hub is listed as partly modelled.
* Wall-clock amounts beyond the order of expiry: lengths of backoffs, sleeps and deadlines.
* The values a context carries; the ticker of `StateMonitor`, the `OnStateChange`
  callback, and the read-only `State()` and `HasErrors`.
* The printing, sorting and scripted demonstrations of the `main` functions, whose steps are
  those of the modelled operations in a fixed order.

## 9. Running

    tlc -config MCCircuitBreaker.cfg MCCircuitBreaker     # one run; PROJECT.json lists all
    tlapm CircuitBreakerProofs.tla                        # the proofs of a module
