# Verification of the queue runtime

TLA+ models of the job queue in `src/packages`: the runtime of `packages/core`, the
seven stores, the orchestration built on dispatch, the isolation pools, the bundled
plugins and the front ends; the TLC configurations that check them on small
instances; and proofs of main safety properties that TLAPS checks for every
instance. Abbreviations used below: `worker-runtime.ts`, `resilient-worker.ts`,
`supervisor.ts`, `rate-limiter.ts`, `pooled-executor.ts`,
`in-memory-queue-storage.ts`, `scheduled-job-promoter.ts` are files of
`src/packages/core/src/libs/`; `dashboard.ts` is
`src/packages/dashboard-api/src/routes/dashboard.ts`, `queue.ts` is
`src/packages/cli/src/queue.ts`.

## 1. The system

A program dispatches jobs to named queues; a queue lives in a store; workers of a
supervisor lease batches of jobs from the store for a limited time, run their
handlers in a bounded executor, keep renewing the lease while a handler runs, and
settle each job: acknowledge it, retry it after a backoff, move it to the dead
letters, or snooze it. There is no lock: everything shared between workers,
promoter, dispatchers and operators is the store, and every store call is an
`await`, so any of them may run between two calls of another; with a store that is a
database, a Redis server or a directory they may be in different processes, and an
operation of the store may itself be several commands.

| component | state it keeps | operations | who calls it | what makes it correct |
|---|---|---|---|---|
| `QueueStorage`, reference `InMemoryQueueStorage` | records by id, lease expiry by id, dead letters and completion history per queue, idempotency index | enqueue, dequeue, ack, fail, moveToDeadLetter, extendLease, updateAttempts, addCompletedJob, retryDeadLetterJob, moveJobToQueue, promoteJob, removeJob, cleanJobs, obliterateQueue, clear, queries | everybody | one live job per key; a removed job leaves nothing behind and does not come back through the late call of a former holder |
| Postgres, MySQL, MongoDB, DynamoDB, Redis, file stores | the same contents in tables, collections, sorted sets or directories | the same interface, operations as one or several commands | everybody, from several processes | the guarantees of the reference store although operations are not atomic and processes crash between commands |
| `JobManager` (execution) | per execution: local attempt counter, heartbeat timers | execute, executeAll, createLeaseHeartbeat, handlePermanentFailure, applyPoisonFailurePolicy | the worker loop, through the executor | no accepted job is lost; a renewed lease is not lost while the attempt lasts; one outcome per job that is not shared; every job settles |
| `JobManager` (dispatch) | none of its own | dispatch, dispatchMany, dispatchInternal, findDuplicateByIdempotencyKey | clients, schedules, batches, flows | a duplicate that is there is found; in a bulk a rejection costs no other job its place |
| `JobManager` and `Supervisor` (schedules, lifecycle) | interval timers, persisted definitions; workers, promoter, monitor loop | schedule, recoverRepeatableSchedules, removeRepeatableSchedule; start, stop, monitor | clients | a durable schedule survives a crash and has one timer; after `stop()` nothing runs |
| `JobManager` and `BatchManager` (batches, flows) | counters per batch, node states per flow | dispatchBatch, retry of failed batch jobs, dispatchFlow, onJobSucceeded, onJobFailed | clients, executions | entries agree with outcomes; a node runs when all it depends on succeeded, and once |
| workflow engine (`packages/workflow`) | one record per workflow | run, onJobComplete | executions | concurrent completions do not undo each other |
| `PooledExecutor`, thread pool, process pool, isolation | running count, heap of waiting tasks; idle workers, queue, current run of each | submit, runNext; run, schedule, handleResult, handleError, handleTimeout, exit | the worker loop | at most `concurrency` run; the most urgent waits least; each task ends once and gives its slot back once |
| `ResilientWorker` | running flag; per queue a circuit state, a backpressure flag, token buckets | start, stop, tick with its gates, onExecutionSucceeded, onExecutionFailed | supervisor | leases stay under the rate limit; a paused queue gets at most the batch under way; the breaker lets trials through; ready jobs are leased |
| `Supervisor` (steering) | worker list, paused queues | scaleTo, pauseQueue, resumeQueue, drainQueue, retryDLQ, promoteJob, queries | operators, dashboard | a drain ends |
| `ScheduledJobPromoter` | one timer, a requested wake-up | tick, promote, requestRescheduleAt | supervisor, lifecycle events | a due job is promoted, in time; a job that is being executed is not moved |
| `LifecycleEventBus` and live streams | listeners, bounded history; connections and their timers | emit, subscribe, getRecent; event streams, websockets | all; dashboard | a connected client is sent every event once, in order; one that went leaves nothing behind |
| plugins (idempotency, rate limit, DAG) | marks of a key, a token bucket, completed nodes | hooks of an execution | executions | once per key; under the rate; in the order of the graph |
| dashboard API, adapters, page, CLI | the request being served; sockets and timers of the page | HTTP routes, commands | people | an answer shows what is there; a refused request has changed nothing; every request is answered |

Calls and shared state. `Supervisor.start` recovers schedules and starts workers,
promoter and monitor. `ResilientWorker.tick` asks the supervisor
(`canProcessQueue`), the store (depth), its own breaker and its own buckets, then
leases and hands each job to `JobManager.execute`, which submits it to the executor
of the queue; `tick` goes on when all of the batch have settled. `executeAll` runs
the handler in the thread, in a pool of threads or in a pool of processes, tells
batch and flow of the outcome and settles the job in the store. The promoter moves
due jobs in the store and is woken by `schedule.created` events of dispatch.
Operators act, through the dashboard's API or the CLI in front of it, on the flags
the workers read and on the store.

What is hard. Leases that lapse while their holder is between attempts or waits
for a slot, so that two executions own one job; calls of a former holder that
arrive late; awaits that reject half-way through a settlement; operations made of
two store calls (snooze, dedupe, promote); flags read several awaits before they
matter; commands of two processes between the commands of an operation; a crash
there; workflow and batch records read, changed and written back; counters taken before it is known that they are needed (tokens, half-open
trials); saturation (threshold, concurrency, history); a clock that drives leases,
backoffs, heartbeats, cooldowns and refills independently. `PROJECT.json` lists
every one of these hazards with its line and the properties that would catch it.

## 2. Modules

| module | models | extends |
|---|---|---|
| `InMemoryQueueStorage` | the reference store: one action per operation, and `StoreSpec`, arbitrary clients of it | - |
| `JobRuntime` | leasing, execution, heartbeat, retries, permanent failure, snooze, replay and promotion of one job after another by any number of workers | `InMemoryQueueStorage`; instance of `Delivery` |
| `Delivery` | abstract at-least-once queue: a job is absent, waiting, in hand or settled | - |
| `WorkerPool` | the worker loop with pause, backpressure, breaker and rate limits, and the supervisor operations that steer it | - |
| `Promoter` | passes, timers and wake-ups of the delayed-job promoter over a store with or without bulk operations | - |
| `RemoteStore` | what the six shared adapters have in common: places of a job, transactions, programs | - |
| `PostgresStore`, `MySqlStore`, `MongoStore`, `DynamoDbStore`, `RedisStore`, `FileQueueStorage` | each adapter: the program of every operation, the listings | `RemoteStore` |
| `StoreClients` | dispatchers, workers, promoters and operators in several processes over one of the six, with crashes | all six |
| `Dispatch` | the look-up for a duplicate, the hooks, the store call | - |
| `BulkDispatch` | `dispatchMany` | - |
| `Batches`, `Flows` | `dispatchBatch` and `BatchManager`; `dispatchFlow` and the outcomes it hears of | `Dispatch`; `TaskGraph` |
| `Workflow` | `WorkflowEngine` over a `WorkflowStorage` | `TaskGraph` |
| `Schedules` | repeatable schedules and start, stop, monitor of the supervisor in several processes | - |
| `Plugins` | rate limiter, DAG and idempotency plugin on jobs of one key | - |
| `Orchestration` | an application that uses one of the seven APIs above while workers execute its jobs | the seven |
| `PooledExecutor` | the heap of tasks and its slots | - |
| `Isolation` | runs in the thread, in a thread pool or in a process pool, with deaths and timeouts | `PooledExecutor` |
| `Dashboard` | the routes of the dashboard's API over the supervisor's queries and commands | - |
| `CliClient` | `vasto failed:retry-all` through that API | `Dashboard` |
| `LiveStreams` | the lifecycle bus, event streams and websockets | - |
| `PageClient` | the page's socket and polling | - |
| `Frontends` | composes the four | these four |
| `MC...` | model values and small instances for TLC | one of the above |
| `RuntimeProofs` | lemmas about the store's operations; the store's safety invariants under any clients; type correctness of `JobRuntime`; renewed leases are held; no accepted job is lost; it implements `Delivery`; one outcome per job | `JobRuntime` |
| `PoolProofs` | the rate of leases, the late batch, the breaker | `WorkerPool` |
| `ClientProofs` | exclusion, resurrection and keys in the five servers | `StoreClients` |
| `AdapterProofs` | replays, and loss in all six stores | `ClientProofs` |
| `PromoterProofs` | due jobs are promoted in time, none is forgotten | `Promoter` |
| `OrchestrationProofs` | dispatch, batches, flows, workflows, schedules and plugins | `Orchestration` |
| `IsolationProofs` | the order of the heap; the slots and workers of the pools, whose answer a run gets, what a death costs | `Isolation` |
| `FrontendProofs` | reads and refusals of the dashboard API, `retry-all`, event streams, the page's transport | `Frontends` |

A definition that starts with "Mutant of" is a plausible bug of the operator below
it, used to see that a property can tell the difference; no specification uses it.

### InMemoryQueueStorage

A record of the code is split: `spec` has the fields that never change after
enqueue (queue, priority, key, creation order, the job a snoozed copy came from),
`jobs` those that do (state, whether `delayUntil` is set, attempts). `leaseLeft` is
`leaseExpiry` minus the clock. `deadLetter` counts the copies pushed for each id,
because `moveToDeadLetter` pushes without looking; `completed` is the capped
history, newest first. Payloads, tags, progress, error details and timestamps other
than creation order are left out: nothing in the store depends on them, except the
age limits of `cleanJobs`, whose selection is left open. Queries have no effect
and are read from the state by whoever needs them (`getActiveJobs`, depth).
`RetryDeadLetterJob` drops the idempotency key, as the code does.

`StoreSpec` lets clients call any operation with any id that was ever issued, at
any time: this is what the store sees of workers whose lease is long gone.

### JobRuntime

A *lane* is one execution of a worker's current batch. `pc` names the stretch of
`execute`/`executeAll` between two awaits:

| `pc` | waiting for | next |
|---|---|---|
| `submitted` | a slot of the executor | `Begin` starts handler and heartbeat |
| `running` | handler, hooks, timeout | `HandlerOk` or `Catch` |
| `storing`, `acking`, `ending` | `addCompletedJob`, `ack`, `onProcessEnd` | the next of them, or `Catch` if the await rejects |
| `failing` | `updateAttempts` | `CountAttempt` |
| `deciding` | `onFail` hooks, retry policy | `Decide` or `HookThrows` |
| `backoff` | the sleep before the next attempt | `Retry` |
| `burying` | `moveToDeadLetter` | `Bury` |
| `snoozing`, `requeueing` | `ack`, then `enqueue` of the copy | `SnoozeAck`, `SnoozeEnqueue` |

A worker leases again (`Lease`) when all its lanes are idle, as `Promise.allSettled`
in `tick` does. The heartbeat is the pair of timers of `createLeaseHeartbeat`: half
a lease after the attempt starts, and every half lease from then on; it stops when
the try block is left. The clock moves for all timers at once. `Faults` names the
awaits that may reject in an instance; `starts`, `shared` and `finished` are history
variables the properties speak about.

What a retry policy or a backoff formula computes is a choice from `Decisions` and
`Backoffs`. `Promote` is `Supervisor.promoteJob` and a pass of the promoter that finds
the job still delayed. The order in which the executor starts tasks of equal
priority is left open. `setJobProgress` writes a field the model does not have. An
`updateAttempts` that rejects leaves `executeAll` with the job leased, which is what
`HookThrows` does one step later, with the count stored.

### WorkerPool

One worker configuration on one queue. `phase` is where `tick` is: `idle`, `gauging`
(before the depth is known), `delaying` (asleep in backpressure mode `delay`),
`leasing` (before `dequeue` answers), `executing`. Between `gauging` and `leasing` the
code passes breaker and rate limit without an await, so `Gauge` and `Regauge` do both.
The queue is two numbers, ready jobs and jobs in execution; delayed jobs, which
`getQueueDepth` counts as well, are left out. A bucket refills a whole number of
tokens per clock unit. Whether the buckets of a consumer are in the store
(`shared`, the Redis limiter) or each worker has its own is chosen once; `Take` lets
a worker draw on the buckets of all `Sharers`. A worker slot may be taken again by `SpawnWorker` once the
former worker's tick has ended; in the code the new worker may overlap the last tick
of the old one, which is then one of the other slots. `SpawnWorker` after `Stop` is
the `start()` of a supervisor that was stopped. `meter` and `late` are history
variables: a leaking count of leases per worker, and the leases made since the
worker was last allowed to.

### Promoter

`stage` is where a pass of `tick` is, between two awaits:

| `stage` | meaning | next |
|---|---|---|
| `off` | not started, or stopped and the last pass over | `Start` |
| `sleeping` | the timer is armed | `Fire` |
| `listing` | `promoteDelayedJobs` or `getDelayedJobs` is awaited | `PromoteAll`, `List`, `QueryRejects` |
| `moving` | `moveJobToQueue` of one job after another | `Move`, `MoveRejects`, `AllMoved` |
| `asking` | `getNextDelayedTimestamp` is awaited | `AskNext`, `QueryRejects` |
| `closing` | the `finally` block | `ClosePass` arms the timer |

A store is `bulk` when it has `promoteDelayedJobs` and `getNextDelayedTimestamp`
(Postgres), `plain` when it has neither (all others). Times are relative to the
clock: `left` to a job's `delayUntil`, `timer` to the next pass, `wake` to the wake-up
requested during a pass; `age` is how long ago the pass read its `now`.
`Announce` and `Store` are the two halves of a dispatch with a delay:
`schedule.created` is emitted first, then the `onJobPrioritized` hooks are awaited, then
the job is enqueued, so a pass may fall between them. `StoreUnannounced` is a job
no event is emitted for in this process: a snoozed copy, or a dispatch elsewhere.
Several promoters serve one store when several processes run, or when a stopped
one is still in its last pass beside its successor.

`wait` and `excused` are history variables. `wait` counts how long a stored job has
been due while at least one promoter was running; `excused` collects the jobs nobody
can expect to be in time: those that reached a bulk store without an event or after
the wake-up of their event was used up, those a rejected store call concerned, and
those that were waiting when a promoter was stopped. `PromotedInTime` gives the others
`Slack`, a polling interval and two passes; `NeverForgotten` gives every job `Patience`,
which adds the longest sleep and one more interval per rejected call.

Left out: several queues in one pass, the pages and parallel moves of one list (moves
are made one at a time in any order), and an `onJobPromoted` hook that rejects.

### Delivery

`JobRuntime` implements it (`Delivers`): a job is *unknown* until its id is issued,
*queued* while its record is in the store and *settled* after that. Only a run of its
handler that had an outcome (completed, dead, snoozed) takes a job out of the queue,
and no job comes back under its id. Runs may start and end more than once, also after
the job was settled, which is what "at least once" costs.

### The shared stores

An adapter of `RemoteStore` keeps a job in *places*: values of the state column,
tables, Redis keys or directories, and `delay` where `delayUntil` is set. `at[i]` is the
set of places job `i` is found in. An operation is a *program*, a sequence of
transactions; a transaction is a set of changes of single jobs that happen
together, with what they require. A SQL transaction, a conditional update, a
`findOneAndUpdate`, a Redis command or script, a rename and the writing of one file are
one transaction each; a Redis pipeline is not a `MULTI` and counts as its commands.
Between two transactions of a program anybody else may act. A transaction that asks for
something that is not there ends the program, as an empty result, a failed condition or a caught error does. So each
adapter module is a table of its operations, next to the queries as sets.

Time is two sets: the jobs whose delay is over and those whose lease has run out.
Each transaction reads them when it is carried out.

`StoreClients` lets a client be a dispatcher (single or batch), a worker (lease,
report, record, acknowledge or bury, in the order of `executeAll`; the heartbeat's
renewal is sent and not awaited, so it may arrive at any time), a promoter (list,
then move) or an operator (promote, replay, remove, clean, obliterate). A worker whose
lease ran out goes on. `scene` chooses what happens beside dispatch and settlement:
`race` (reports and renewals), `steer` (operators), `replay`, or `crash`: a client
stops between two transactions for good; a file it was writing may be left torn.
`holders` is the set of clients that run a job under a lease that has not run out.

### Orchestration

`scene` is the API in use; the other parts stand still. `Dispatch` names a dispatch by
the id it draws; `pc` is where `dispatchInternal` is between two awaits (`looking`,
`hooking`, `stored`, `answered`), and the six listings of the look-up are answered
one by one in any order while jobs move between them. `lane` is what batches and
flows see of `executeAll`: `running`, `told` (they have heard of the success and the
acknowledgement is awaited), `failing`, `over` (the execution has ended and the job is
leased still), `off`. The acknowledgement or a child's
dispatch may reject, and then the same success is reported twice, as in the code. So may
an `onFailedPermanently` hook or `moveToDeadLetter` (`BuryRejects`), after the batch was told
of the failure and before the flow is: the job stays leased and is executed again when the
lease has run out (`Lapse`). One that rejects although the letter was stored counts as not
done: the model then runs the job once more than the code.

- `Batches` keeps the entries; the counters of `batch-manager.ts` are recomputed from
  them on every change. A chunk is registered when all its dispatches have ended.
- `Flows` keeps the status of nodes; `ReturnNode` is the code after the await of a
  node's dispatch, which sets the status whatever it is by then.
- `Workflow` has one action per stretch of `onJobComplete` between two awaits: load and
  change the copy, enqueue what became ready, save the copy.
- `Schedules` has a record per process: the flags of `start`, `stop` and `monitor`, the
  timers, the calls of `schedule()` under way; `records` is the internal queue of
  definitions, `leaving` the removals nobody waits for. Processes crash and start.
- `BulkDispatch` names a job by its place in the array. `flying` are the calls without
  an answer, awaited or not: after the first rejection of `Promise.all` the others go
  on.
- `Plugins`: a task is `queued`, `looking` (`store.get`), `marking` (`store.set`), `running`,
  `ending` (end hooks), `done` or `dead`. A hook that throws is an attempt that failed.

### Isolation

A *run* is a task and its attempt. `pool` is what the pool object keeps (workers, idle
list, queue, current run per worker); `live` and `doing` are the workers themselves,
`mail`, `unseen` and `bounced` the events the host has not handled: answers, deaths and
failed sends. A host action is a callback and what it runs up to its end, so
`schedule()`, the settlement of the run's promise and the executor's `runNext` are part
of the action that causes them. The heap of `PooledExecutor` is the array of the code
with its sifting: `Round` is one round of the loop of `heapPush` or `heapPop`, `Sift` the
loop, run for as many rounds as there are entries (a round that swaps nothing is the `break`).
A replacement process has an id of which nothing is left (`Fresh`); the guards on `Fresh` bound their number.

### Frontends

`Dashboard` gives each route of `dashboard.ts` as a sequence of steps: gates (role,
queue access, parameters), queries awaited one after the other or together, commands,
the answer; an answer of -1 is a handler that returned without one. While a request is
served the jobs of the queue `Home` move (`Hops`), and another operator acts.
`still` remembers what has stood in one listing since the request came.

A command takes one step or several. The retry of a batch, a cleaning, an obliteration and a
clearing of schedules take what they have listed piece by piece (`todo`), and a job may move
between. A replay is the commands of its store, by `view.replays`:

| `replays` | store | commands |
|---|---|---|
| `whole` | in-memory, Postgres, MySQL | mark asked for, set and copied in one |
| `marks` | MongoDB, DynamoDB | conditional mark, then the copy |
| `asks` | Redis | read, mark, copy, none of which asks again |
| `copies` | file | read, copy, mark |

`mine` and `theirs` count the commands that the request's replay of a letter and another
operator's have behind them, so the two interleave; `raced` remembers the letters where they
did, or where one broke off. `Rejected` may end a call after any of its steps, and `Returns`
lets it fail when all is done: the answer of the store is lost, or a listener of the bus throws
at the event (`pause`, `resume` and `scale` emit as well). The file store catches what its replay meets and
says `false`, as if there were no letter (`GivesUp`). `touched` remembers whether
the request has changed anything. A replay that was rejected runs no further: commands that
are still on their way in a Redis pipeline, a command of it that fails while `exec` does not
reject, and a conditional mark the AWS SDK sends a second time after a lost answer are left
out, as are the entries of the batch that is replayed (`Batches` has them).

`LiveStreams` numbers the events; `App` is a listener of the application, which may
throw or emit. Of the order of the listeners it keeps what an event can depend on: which of them
are ahead of `App`. A connection is admitted after an await of its authentication, during
which its client may leave. `PageClient` has one action per callback of `useWebSocket`
and per effect of the provider. `CliClient` is the loop of `retry-all`: list, then
replay one by one through the routes.

## 3. Runs

| run | instance | shows |
|---|---|---|
| `storage` | three ids, one key, one queue, lease of 1, history of 1 | keys stay exclusive (`OneLivePerKey`), removed jobs leave no lease (`NoGhostLease`) and do not come back (`NoResurrection`) |
| `runtime` | two workers of one lane, a job and its replay or snoozed copy, leases of 2, backoff of 1, `auto-snooze`, four kinds of fault | `RuntimeTypeOK`, `NoJobLost`, `RenewedLeaseHeld`, `SingleOutcome`, and the refinement `Delivers` |
| `runtime_live` | a worker with batches of two and one of one, one executor slot, rejected records, acknowledgements and end hooks | `EveryJobSettles` |
| `pool_worker` | one worker with every gate and every steering operation | `OneLateBatch`, `BreakerHolds`, `OpenBreakerCools` |
| `pool_flow` | two workers, both rate limits, own or shared buckets, pause and drain | `LeaseRate`, `ReadyGetsLeased`, `DrainEnds` |
| `pool_half_open` | one worker, a breaker that trips on the first failure | violates `ReadyGetsLeased`: finding |
| `promoter` | two promoters, two jobs, delays of 0 and 4, polling every 2, both kinds of store, promote, remove, stop and start, one rejected call | `PromotedInTime`, `NeverForgotten` |
| `remote_stores` | each of the six stores, two clients, two jobs (one for DynamoDB and the file store), one more to replay, one operator call, one crash | `NothingLost`, `LeaseExclusive`, `NoResurrection`, `ReplayExact`, `KeyUnique`, `Listed` |
| `file_claims` | two processes on one directory, one job | violates `NoDoubleProcessing`: finding |
| `orchestration` | each of the seven APIs in turn, with dispatches, acknowledgements and burials that reject | `DispatchTrue`, `BatchTrue`, `FlowTrue`, `WorkflowTrue`, `SchedulesTrue`, `PluginsTrue` |
| `executors` | two slots; five tasks in the thread, three on two threads, two on two processes; two attempts, one death | `SlotsKept`, `AnswersReach`, `UrgentFirst`, `EveryTaskEnds` |
| `frontends` | every route with a full request and with one that lacks or exceeds one thing, calls that end half-way, four ways to replay; `retry-all` twice; two connections and three events; a page with three sockets | `ReadsHonest`, `RefusalsClean`, `RetryAllTrue`, `StreamExact`, `TransportsKept`, `EveryRequestEnds` |

A property made of two named parts (`DispatchTrue`, `FlowTrue`, `RecordsDecide`,
`SlotsKept`...) says of one component what both parts say; each part has its own
comment. `StoreTypeOK`, `PoolTypeOK` and `PromTypeOK` document the values of the
variables of their modules; `RuntimeTypeOK` is the one that is checked and proved.

What the stores promise differs, and the properties say so adapter by adapter.
`LeaseExclusive` holds without exception in Postgres; elsewhere a promoter that moves
what it listed earlier makes ready again a job that is leased, or, in Redis, one whose
lease entry an operator has deleted under the client that runs it (`restored`; the second
takes three clients and is seen in the proof, not in the run); the file store has
no exclusion at all (`file_claims`). `NothingLost` excepts the jobs whose Redis pipeline
or file rewrite a crash cut, or that are in the middle of one. `KeyUnique` is about the
three stores with a unique index. `ReplayExact` asks for exactly one copy in the two
transactional stores, for at most one in MongoDB, which marks before it inserts, and for
at least one in the file store, which writes before it marks. `Listed` is about jobs no
operation is in the middle of; in the four databases it excepts nothing else, in the other two what a
crash cut, and in Redis the jobs to which a report has given a delay back (`revived`, section 4).

Bounds, and why they are enough.
- Ids are issued once and never again, so their number bounds the jobs dispatched,
  replayed and snoozed. Two are enough for a job and its successor, three for a job,
  a competitor for its key and a copy. When all are issued `SnoozeEnqueue` waits;
  the liveness run therefore has no snooze.
- A lease of 2 has a heartbeat every unit, a lease of 1 expires at the next tick; a
  backoff of 1 after an attempt that used up part of the lease outlasts it.
- `starts` saturates above `MaxAttempts`, `attempt` at `MaxRecorded`, `late` at 2, a breaker's
  failures at its threshold, which are the only values they are compared with.
- A delay of 4 with polling every 2 makes a bulk promoter sleep longer than it
  polls, which is what wake-ups are for; a pass lasts at most `MaxTick` = 1, so that
  jobs become due during one. `left` stops at `-MaxTick` (no pass is older) and `wait`
  just above `Patience`. One rejected call is the case between two good passes.
- Two lanes on one job are enough for every pair of settlements to race; two clients
  likewise for every pair of operations of a store, since the programs touch one job or
  take a list job by job. Two jobs compete for one key. Redis has no keys but two jobs,
  because a lease of one reclaims the other when it has lapsed; DynamoDB, whose look-up for the
  key promises nothing, and the file store relate no two jobs, so one is enough for them. One operator call and one
  crash at every point of every program are the cases; the scenes are separate because a
  call of the operator is not about a crash.
- The flow and the workflow are a node that depends on two others: two completions at
  once are what its status and `remaining` are about. Batches have a chunk of two and one
  of one, so that outcomes come before and after registration, and four ids with the
  replays. Two throws let a success be reported twice and then fail; batches have a third, for a burial. Two processes with
  different jobs and two schedules over two starts are enough for prune, recover and
  remove to cross. A bulk of four jobs over two stores in chunks of three has a bucket
  split over chunks and a call of two.
- Plugins: three jobs of one key, the third of which depends on the first, capacity 2 and
  one token a unit, so that the limiter refuses as well as refills.
- Pools of two workers with one death: a death while idle, running, or after an
  answer, with one surviving worker to take over. In the thread and the process pool
  three and two tasks leave one waiting for a worker or for its retry.
- Two queues are enough for a request about a queue that holds nothing of what it
  asks for, two jobs for lists, batches and cleanings, one replayed by somebody else meanwhile.
  Another operator begins no replay of a letter that has `MaxCopies` = 1 copies: one replay before, during
  or after the command's. The scene of the requests varies the way to replay for the three routes that
  replay, the command's for all of it. Histories of
  two and a replay of one cut something off with three events.
- `CHECK_DEADLOCK FALSE` everywhere: a system with no job left and no id to
  dispatch stands still.
- The invariants of one worker need one worker, since a worker shares nothing
  with another but the counts of the queue; the runs with two are those about the
  queue and about shared buckets.

Fairness. `Fairness` of `JobRuntime` asks for the clock, the promoter, the worker
loops, the heartbeats and every continuation after an await: Node's event loop runs
what is due, `withTimeout` bounds handlers, storage calls are assumed to settle. It
asks nothing of dispatchers, operators and faults, and nothing of `HookThrows` and
`Unrunnable`, so `EveryJobSettles` is checked without these two. `PoolFairness` asks
for the clock, each worker's loop and the polling of a drain. `Isolation` asks for the
start of a run, its timeout and the error event of a failed send, which are timers and
callbacks of the host; nothing of handlers, threads and processes, which may hang or
die without an answer. `Frontends` asks for the answers of the store and the deadline of
a drain. All of it is weak fairness: no step needs to be retried until it is lucky.

`ClockTick` does not pass a heartbeat that is due or a task that has a slot: the
model assumes that timers fire on time, that is, that the event loop is never
blocked for half a lease. Without this no lease scheme holds anything. In the same
way `ClockTick` of `Promoter` waits for a timer that is due and for a pass that has
lasted `MaxTick`; its properties bound waiting by the clock and need no fairness.

What the passing runs do not say. `RenewedLeaseHeld` starts with the first renewal:
an attempt that follows a backoff starts on what is left of the lease, and a task
that waited for a slot on whatever it has, so before the first renewal the lease may
run out, and it does. `SingleOutcome` speaks of jobs that never had two holders and
excludes rejected acknowledgements and end hooks, after which the code does retry a
job that is already completed. `ReadyGetsLeased` is checked below the backpressure
threshold and without a breaker: in mode `delay` nothing is leased above the threshold,
and nothing but leasing brings the depth down (`resilient-worker.ts:206`), and a breaker
may keep a worker out for ever (below). `LeaseRate` bounds what one bucket lets through
by its capacity, and by one more for each worker that shares it. A plain
promoter moves what it read before, and `moveJobToQueue` makes a job ready in whatever
state it is; `LeaseExclusive` bounds what follows from it. `StoppedIsQuiet` and
`RecordsDecide` hold as long as no call overlaps `start()` or `schedule()`; with an
overlap they do not (below). `BatchTrue` excepts jobs whose burial was rejected, as `failed`
entries may then be run again. `RefusalsClean` promises a request that failed nothing if its route
sets or awaits a change: a call can fail in the middle and behind its effect. It promises one
that was refused that nothing has changed, except by a replay of the file store that broke off.
`RetryAllTrue` excepts second copies in Redis and the file store, of letters whose replays
overlapped or broke off, and does not ask why the file store refuses a replay. `WorkflowRuns` excepts overlapping completions and
`WorkflowOrder` repeated ones. `OncePerKey` excepts a mark that was wiped.

## 4. Findings

1. *A half-open breaker that never closes* (`pool_half_open`). The trial is counted when
   the gate is passed; if the rate limit refuses or the queue is empty there is no
   outcome to give it back, and after `halfOpenMaxExecutions` of these the gate stays shut.
2. *Two processes run one job of the file store* (`file_claims`).
   `examples/api-server/README.md:82` says that several processes "safely share" a
   directory "without double-processing"; both may reclaim the same lapsed lease file, and
   a write recreates a file that another process has removed.

Other disagreements seen while modelling. No run is kept for them: the properties
state the exception they make, or the models show them as reachable states.

Execution and dispatch.
- A lease lapses during a backoff that is longer than what is left of it, since the
  heartbeat stops with the attempt; a second worker leases the job and both count, so
  attempts exceed `maxAttempts` (`worker-runtime.ts:1058`, `1114`; `queue-config.ts:72`). A hook
  that throws in the catch block (`worker-runtime.ts:1066`) leaves the job leased though
  its attempts are exhausted, for ever if it keeps throwing.
- `auto-snooze` acknowledges the job, which frees its key, and enqueues the copy with
  the same key; a dispatch in between takes the key and the copy is dropped without a
  word (`worker-runtime.ts:1403`).
- `resolveBackoff` ignores `maxDelay` for exponential, full and equal jitter
  (`worker-runtime.ts:1249`; `packages/docs/docs/api/core-runtime.md:91`).
- `dispatch` returns the id of a job the store dropped for its key. `dispatchMany` drops
  priority, delay and idempotency key, returns ids of jobs no store took, and gives the
  ids of two stores in another order than the caller's.
- Retry of a batch leaves its entry pending for good; a replayed dead letter of a flow
  does not unblock the children; parallel calls of `onJobComplete` lose updates.

Worker, supervisor, promoter.
- A drain reports success while a worker is between `canProcessQueue` and `dequeue`
  (`supervisor.ts:426`). `stop()` returns without waiting for the batches under way, where
  `packages/docs/docs/api/core-runtime.md:154` says "Gracefully drain and stop all
  workers"; a `stop()` during `start()` launches the workers all the same.
- `stop()` removes the durable schedules it stops (`core-runtime.md:198` promises
  recovery), `schedule()` during `start()` leaks a timer, a process that lacks a job prunes
  the definitions other processes have, and every process with the record runs a timer of
  its own.
- A due job sleeps with the promoter of a bulk store: only `schedule.created` shortens a
  sleep (`scheduled-job-promoter.ts:123`), and a snoozed copy or a job of another process
  comes without one. Only the first storage adapter has a promoter (`supervisor.ts:174`).
- `calculateConcurrency` is always overridden by `desiredWorkerScaling` (`supervisor.ts:101`,
  `844`; `README.md:13`).
- Without Redis each worker has a limiter of its own (`resilient-worker.ts:15`); with it all
  workers of a consumer name share one bucket, clocks that differ refill it twice, and a
  bucket that never refills is full again after a day (its key expires).

Isolation.
- A queued run that timed out stays queued and is executed; a thread that died stays in
  the idle list and swallows runs; the exit of a process drops its run without a
  rejection. In each case only `withTimeout` ends the task.

Stores.
- Postgres: `ack` deletes the row that `addCompletedJob` has just marked completed
  (`postgres-store.ts:553`, `1145`).
- Redis: writing back a record that was read before an acknowledgement brings the record
  back; pipelines can be cut by a crash. `updateAttempts` and `setJobProgress` write back the `delayUntil`
  they read (`redis-store.ts:473`, `878`): if a move of the promoter takes it out in between, and
  the lease then lapses and another `dequeue` reclaims the job, it stands among the ready with a
  `delayUntil`, which `getReadyJobs` hides (`895`) and no other listing shows until it is leased
  again. File: a removal that finds the file gone falls
  back to an acknowledgement. Redis, file and DynamoDB: a replay can be done twice or
  leave a marked letter without a copy, which `ReplayExact` excepts.

Plugins.
- A skipped duplicate and a rate-limited job ("requeue job") are failed attempts and end
  as dead letters; a late `set('processing')` wipes `done`; an end hook that throws re-runs
  or buries a finished job.

Front ends.
- Eight routes never answer when the queue's name is missing (`dashboard.ts:87`). A page
  of the archive is cut twice (`supervisor.ts:335`, `349`). The SQL and MongoDB stores list a
  hundred rows unless told otherwise, so the look-up by id, the counts, `/failed` and
  `retry-all` never see beyond; "More jobs may remain" (`queue.ts:858`) is not printed for a
  limit above a hundred. Replayed dead letters stay in `/failed`, so a second `retry-all`
  fails at the first. Pages are cut before the jobs of other queues are filtered out.
- A drain that rejects leaves the queue paused; a clearing of schedules, a cleaning, an
  obliteration or the retry of a batch that rejects is done in part (`supervisor.ts:619`, `693`), and a
  listener that throws turns a promotion, a cleaning, a pause that took effect into a 500
  (`supervisor.ts:527`, `586`, `645`).
- A replay that rejects between mark and copy (MongoDB, DynamoDB, Redis) leaves a letter that
  counts as replayed, has no copy and cannot be replayed again; one that breaks off in
  the file store may leave a copy, answers 404, and a second one makes another copy. Two replays of one letter
  in Redis or the file store both answer 202.
- A burial that rejects has told the batch, but not the flow, that the job failed (`worker-runtime.ts:1345`); the job runs
  again. A rejected overview on `/stream` ends the process. A client that leaves during
  authentication or the first overview leaves a listener and a timer
  (`dashboard.ts:1241`).
- A listener of the bus that throws cuts off those behind it and reaches the emitter; one
  that emits makes later ones hear the events in another order.
- `close()` of the Elysia adapter leaves its sockets open and mute; in development the
  page's doubled effects leave a stray socket.

## 5. Proofs

The theorems are about eight specifications, for any values of their constants that satisfy
the assumption their module states. The first half of `RuntimeProofs` is about
`StoreSpec` of `InMemoryQueueStorage`: the store alone, called by anybody at any time,
late calls included, for any sets of ids, queues and keys that satisfy `ConstantsOK`.
The second half is about `Spec` of
`JobRuntime`, for any workers and lanes as well, any
configuration that satisfies `RuntimeConstantsOK`, and any set of faults;
`PoolProofs` about `PoolSpec` of `WorkerPool` (`PoolConstantsOK`: finitely many
workers, whose leases are counted); `ClientProofs` and `AdapterProofs` about `Spec` of
`StoreClients` (`StoreConstantsOK`), for any number of jobs, clients, calls and crashes;
`PromoterProofs` about `PromSpec` of `Promoter` (`PromoterConstantsOK`), for any number of
promoters and jobs; `OrchestrationProofs` about `Spec` of `Orchestration`, for any jobs,
graphs, chunks, processes, bulks and tasks; `IsolationProofs` about `Spec` of `Isolation`
(`ExecutorConstantsOK`, `IsolationConstantsOK`), for any tasks and priorities, any
concurrency and pool size, any numbers of deaths and of replacements; `FrontendProofs` about `Spec` of `Frontends`, for any
finite set of jobs, any queues, any requests with a known route (`RequestsOK`), any
connections and mixes of their kinds (`StreamConstantsOK`), any history bound, and any number of sockets.

- `KeysExclusive`: `StoreSpec => []OneLivePerKey`; `LeaseGoesToo`:
  `StoreSpec => []NoGhostLease`; `RemovedForever`: `StoreSpec => NoResurrection`. One
  inductive invariant serves all three. `SInv` adds to the two state properties the
  type invariant and `OnlyIssued`, that only issued ids have records or dead letters:
  an enqueue writes the record of a fresh id, which therefore has no lease and no
  record to bring back. `OneLivePerKey` survives an enqueue because a key that is not
  held has no live job, and a removal because `removeJobRecord` takes the index entry
  with the job it names and no other. `StoreInvariant` states `SInv` itself.

- `TypeCorrect`: `Spec => []RuntimeTypeOK`. Its invariant `TypeInv` is stronger than
  `RuntimeTypeOK` where the induction needs it: a job that is live was issued
  (`OnlyIssued`), and a heartbeat exists exactly while its lane runs an attempt
  (`BeatsWhileRunning`), so that it renews the lease of a job.
- `RenewedLeaseIsHeld`: `Spec => []RenewedLeaseHeld`. `RenewedLeaseHeld` is not
  inductive: that the job is still leased does not follow from its lease being long
  enough, and the lease is long enough only if it was renewed in time. `LeaseInv`
  adds `HeldIsLeased`, a held job that is live is leased, and `BeatAhead`, the next
  firing of a repeating heartbeat comes before the lease ends. The step that matters
  is `ClockTick`: the heartbeat that is due blocks the clock, the others keep their
  distance. A second lane can lease the same job only if the lease ran out, which
  `BeatAhead` excludes; its settlement may remove the job, which the property allows.
- `NothingLost`: `SnoozeSafe /\ Spec => []NoJobLost`, where `SnoozeSafe` says that the
  queue has no auto-snooze or no idempotency keys are in use. That assumption is
  needed: without it the property is false (the snoozed copy that loses its key,
  section 4). `LossInv` adds
  `AckedIsRecorded`, a lane that is about to acknowledge has recorded the completion,
  and `SnoozesOnPolicy`, lanes snooze only under the policy.

- `ImplementsDelivery`: `SnoozeSafe /\ Spec => Delivers`, the step simulation. The state
  of `Delivery` is computed by `Promised`; `MapStep` shows for every action of `Next` which
  action of `Delivery`, if any, it is. It needs `LossInv` (a lane that acknowledges has
  recorded the completion, so settling follows concluding) and `Ran` (a lane in the handler
  or behind it has counted as a start).
- `OneOutcome`: `AckSafe /\ Spec => []SingleOutcome`. `AckSafe` says that the awaits after
  the completion record do not reject; without it the property is false, since the code
  retries a job that is completed. `OneWay(i)` says of a job that was not
  shared that it has at most one holder, and from where that holder is, what has
  become of the job; a lane that leases what another holds makes it shared.
  `TracesIssued` says that a fresh id has no history.
- `LeasesRated`, `StopsAfterOneBatch`, `BreakerSound`: `PoolSpec => []LeaseRate`,
  `[]OneLateBatch`, `[]BreakerHolds`. `PoolInv` has three parts. `Circuits`, the set of the
  states of a breaker, is closed under `AfterResult`; that the fold over the results of a
  batch stays in it is an induction over the naturals, stated of a set of numbers and proved
  from the least element of its complement. `LateWhere` says where in its tick a worker that
  must stop can be for each value of `late`. `Rated` is `LeaseRate` with the tokens
  that are taken and not yet spent: tokens and leases of a bucket and the sharers between
  gate and lease never exceed the capacity and one more for each sharer.
- `LeasesExclusive`, `NothingComesBack`, `KeysUnique`: `Spec => []LeaseExclusive`,
  `[]NoResurrection`, `[]KeyUnique`. The three are not inductive
  because of what is on its way: the rest of a program, computed from what was read
  when it began, lands in a state it was not computed for. `CoreInv` (all adapters but the
  file store) says therefore of every change that may still land that it is `Mild`: it
  grants no lease, it makes a job live only under the condition that it is, it deletes a
  dead letter only for an operator; and that it is `Covered`: it takes the last trace of a
  job away only where the dead letter is written. `Admits` says when a
  program may be begun, `Fits` when a transaction may land; `Started`, `Stepped` and
  `BeatLands` show once that both preserve the invariant, and one lemma
  `...Admitted` for each operation shows that its program in each adapter is
  admitted. `Unborn` adds that a job that was not stored is nowhere but in the
  program that stores it, which no two programs do; `Exclusive`, `Settled`, `Unique`, `Kept`
  are the three properties, and `NothingLost` of the tables, strengthened.
- `ReplaysExact`, `StoresLoseNothing`: `Spec => []ReplayExact`, `Spec => []NothingLost`, for
  all six stores. The invariant is `AdapterInv` of a server or `FileInv` of the file store.
  `AdapterInv` is `CoreInv` with two parts. `Replayed` counts the copies of a dead letter
  with those that are still on their way: a second program finds the mark and aborts,
  and the mark goes only with the letter, which an operator removes. `RedisInv` says of
  each pipeline what makes good what its earlier commands have taken: a `ZREM` is followed by the
  `ZADD` of the same program, or the job is buried, recorded or being removed. A job is
  therefore in a sorted set, excused or on its way. `FileInv` says that no rewrite unlinks
  a file other than to settle or remove the job (`Sound`), that a dead letter's copy
  is written before its mark (`Copyist`), and that no two programs write copies under one id
  (`Drafts`); a crash that tears a file counts its jobs in `cut`. `Begun` and `Rewrites` say
  what a program must be like to begin; one lemma for each group of operations shows that
  its programs are.

- `Punctual`, `NoneForgotten`: `PromSpec => []PromotedInTime`, `[]NeverForgotten`. The two bounds on waiting are sums over what a
  promoter does between two passes, so each needs to know, for every stage of a pass, how
  much of the sum is spent. `BaseInv` bounds the clocks of jobs and passes. `AttendInv` says of a job
  that is not excused that some running promoter looks after it: it was told of an announced job, and
  its timer, its wake-up or the answer it waits for comes before the job's time is up (`InTime`).
  `MemoryInv` says the same of any stored job with `Patience`, in which every rejected call that is
  left has its price (`Budget`): a call that is rejected spends what the wait gains.
- `SchedulesHold`: `Spec => []SchedulesTrue`. `SchedulesInv` says what `Settled` processes hold
  while they start or are stopped (`Tidy`), that what they had to recover they have found
  (`Faithful`), and, of all processes, that a schedule that is being made is known nowhere else yet
  (`Unborn`): a removal can therefore not meet the record it would have to remove later.
- `WorkflowHolds`: `Acyclic => (Spec => []WorkflowTrue)`. The package does not refuse a cycle, and a
  graph with one never runs to its end, so that the graph has none is a hypothesis. `Ordered`: every copy
  of the record has counted exactly some set of reported completions, so that a node comes
  to be queued in one call only. `Undisturbed`: without overlaps the latest copy has counted all of them.
  That all nodes are enqueued when nothing is pending is a well-founded descent along `Deps`.
- `BatchesHold`: `Spec => []BatchTrue`. `BatchInv` ties dispatch, execution and store of a job together
  (`JobOK`) and says of an entry what the execution has told it so far (`EntryOK`), with the jobs
  that have succeeded and whose acknowledgement is awaited, and those whose burial was rejected
  (`unburied`), which are ready or leased again.
- `FlowsHold`: `Spec => []FlowTrue`, over `BatchInv`. `FlowInv` says of a job what it has left on its node
  (`FlowJob`), of two jobs of one node that a repeated report or a replay made the second
  (`FlowPair`), and of a node that somebody is going to dispatch or to finish it (`FlowNode`). The
  proof found that a blocked node may also stand below one that failed and was completed by a second
  job, when a dependency reports twice; `FlowSettled` names that reason now.
- `PluginsHold`: `Spec => []PluginsTrue`. `Marked`: unless it was wiped, the mark still says that the key is
  done. `Metered`: of what a bucket was given since any instant, what was not passed on is at
  least the tokens that are left; a refill after a pause cannot exceed the capacity.
- `DispatchesHold`: `Spec => []DispatchTrue`. `LookInv`: what a look-up must see it has seen, or it is in a
  listing that is still to be asked. `BulkInv` says which jobs of the array are answered, called or on
  their way (`Progress`, `Delivered`) and in which order ids were given (`Sorted`);
  `InOrderSorts` is the lemma that the ids of a bucket are pushed in the order of the array.
- `UrgentHolds`: `Spec => UrgentFirst`. `HeapInv` says that the array holds entries with different
  sequence numbers and that each is preceded by its parent (`Ordered`). During a loop the order holds but
  for one place, which may have to go up (`OrderedAbove`) or down (`OrderedBelow`); `Rises` and
  `Sinks` say that a round of `heapPush` or `heapPop` keeps that and moves the place strictly nearer to the end of
  the loop, unless the order is restored, `SiftUp` and `SiftDown` follow by induction over
  the rounds (`Inductive`, from the well-foundedness of `<`). `RootFirst`: the first entry of an
  ordered heap precedes all others.
- `SlotsHold`: `Spec => []SlotsKept`, `AnswersHold`: `Spec => []AnswersReach`, from `PoolInv` and
  `SlotInv`. `Sound` makes the pool and its workers agree: an idle worker of the pool that
  lives is idle once and has no run (`IdleSound`), one at work has at most the run the pool gave it
  (`WorkSound`), a letter comes from a worker whose work is done (`MailSound`). `HostSound` says it of the events the
  host has not seen. `FewVictims` needs to look ahead: `Toll` counts the runs that are
  lost and those that may yet be, one for each place a dead worker has in the idle list, each dead
  worker whose answer is still to come (it will be taken for idle), each unseen error of a thread
  and each send that bounced; `Toll` is at most what the deaths so far allow. The lemmas `Handed`,
  `FreedSound`, `WithoutSound`, `ForkedSound` say what each operation on the idle list does to these counts.
- `ReadsTrue`, `RefusedClean`: `Spec => []ReadsHonest`, `[]RefusalsClean`. `Shape`, proved of the
  handler of every route (`Shaped`), says that a handler ends with an answer and answers
  nowhere else, that what it does without waiting comes last, and that a call is followed by the answer
  or by a gate on its result. `NextHalt` is a least element, so `HaltsAt` and `RunsTo` say where
  a run of steps ends, `RunServes` that it passes only steps whose queries have been answered.
  `ServeInv` says of an open request that what `still` holds stands where it stood (`StillThere`)
  and that the queries behind it found all of that (`Passed`, `Found`, `Looked`); of a settled one
  that its answer is the one of the gate that refused or of the last step (`Settled`). Of a call that is
  under way, `Waits` says that nothing has changed yet unless it is one of several steps or a replay begun
  (`Underway` gives the type of the counts this needs), so a gate behind a call that refuses finds
  nothing changed; `GivesUpServes` is the exception of the file store, `FailsServes` that a failure after an
  effect is one of an `Acting` route.
- `RetryAllHolds`: `Spec => []RetryAllTrue`. `Letter(j)` relates the mark of a letter, its copies and the
  commands that the two replays have behind them. `Sound`, which always holds, says that with one
  command for all a letter has a copy exactly when it is marked; with a conditional mark, that the copies made and to be
  made by both are at most one, and none before the mark; in the file store, that
  a replay about to mark has made its copy. `Lone` says the same of Redis and the file store as long as the two replays
  have not met and none broke off. `Order` gives the commands of each store, `Advances` what is left of a replay, `TakesUpKept`,
  `OtherKept`, `OtherGivesUpKept`, `HopKept` and `ForgetKept` show that `Letter` survives a command of either
  replay, its end, a job that moves and the next request. While the command lists, a letter that
  stood in the dead letters throughout is in what the query has seen (`Lists`); `Cut` is the lemma that a page shorter
  than its limit keeps all of it. `Retries` says what each answer to a replay means for its letter
  (an accepted one has its copy, one refused is `Gone`); `Command1`, that those done before it in
  the list have their copies.
- `StreamsExact`: `Spec => []StreamExact`. `Bus` ties the history to the number of the last event, and
  `Served` says that a subscribed connection has had what is due to it from its first event
  on (`Due`), once and in order, but for what a listener of the application cut off (`cut`) or emitted
  itself (`nested`).
- `TransportsHold`: `Spec => []TransportsKept`. `PageInv` says that a mounted page polls exactly while
  its effects ran for a lost connection, and that without strict mode its only live socket is the last
  one made and a retry is set only when that has closed (`OneWay`).

`RuntimeProofs` states once what each store operation preserves and does to one
record; the case analysis over the actions of `Next` cites these lemmas.

Checked by TLC only: the liveness properties (fairness and ENABLED are beyond the
prover), and `Listed` (for Redis and the file store it needs one more invariant of what a
program under way has left half written).

## 6. Not modelled, and what is left

Not modelled:
- metrics, tracing, logging and timing plugins, the benchmark and the examples: they
  observe, format or call what is modelled;
- the sandbox policy of an isolated handler (which modules it may load) and the
  transport of values between threads;
- login and sessions of the dashboard; its pages other than their data source;
- CLI commands other than `failed:retry-all`: each is one request and prints the answer;
- the adapters' proxying: they mount or forward the routes of `dashboard.ts`. The router
  of `packages/express-adapter` (`router.ts`, `websocket.ts`) is an older copy its index does
  not export; it lacks the schedule routes, and its `close()` leaves clients connected;
- the reliability snapshot of the supervisor, which goes stale when the worker that
  reported it is replaced; the order in which the page applies two overviews.

Partly modelled, with what is left out:
- worker loop: ticks over several queues in parallel (a batch of one queue holds up the
  others), backpressure caused by delayed jobs, a worker that crashes alone (a crash of
  the process empties the in-memory store with it; over the shared stores it is
  `Crash` of `StoreClients`);
- supervisor: `drainQueue` with `pauseFirst: false`, the formula of automatic scaling;
- execution: retry policies and backoff formulas are choices; what `setJobProgress` writes
  in the in-memory store is left out;
- token buckets: the fractional arithmetic is that of whole tokens;
- shared stores: one queue, priorities (they order what is leasable, they do not decide
  it), the age and limit of `cleanJobs`, payloads;
- plugins: key functions and expiry of marks.

What would be worth doing next, in this order: `Listed` as a theorem; the reliability snapshot; the
fractional bucket and the retry formulas against reference definitions.
