----------------------------- MODULE WorkerPool -----------------------------
(***************************************************************************)
(* The workers of one WorkerConfig on one queue: ResilientWorker.tick with *)
(* its four gates (pause, backpressure, circuit breaker, rate limit), and  *)
(* the Supervisor operations that steer them: pauseQueue, resumeQueue,     *)
(* drainQueue, scaleTo, spawnWorker and stop.                              *)
(*                                                                         *)
(* Between two gates a worker may be suspended in an await; pause and stop *)
(* fall into those gaps.  The queue is kept as counts: what happens to a   *)
(* single job is the subject of JobRuntime.                                *)
(***************************************************************************)
EXTENDS Integers, FiniteSets, SequencesExt

CONSTANTS
  Workers,          \* slots of the supervisor's worker list
  MaxReady,         \* bound: ready jobs that dispatchers may pile up
  BatchSize,        \* QueueConfig.batchSize
  Mode,             \* backpressure mode: "off", "delay" or "pause"
  DepthThreshold, ResumeThreshold,
  Breaker,          \* is a circuitBreaker configured
  FailureThreshold, Cooldown, HalfOpenMax, TripOnTimeout,
  Limits,           \* rate limits configured: "queue", "consumer"
  Capacity, Refill, \* of each limit, tokens and tokens per clock unit
  SharedLimits,     \* bound: whether the store has consumeRateLimitToken
  Steering          \* operations the operator uses: "pause", "scale", "stop"

ASSUME PoolConstantsOK ==
  /\ IsFiniteSet(Workers)
  /\ MaxReady \in Nat \ {0} /\ BatchSize \in Nat \ {0}
  /\ Mode \in {"off", "delay", "pause"}
  /\ DepthThreshold \in Nat \ {0} /\ ResumeThreshold \in Nat
  /\ Breaker \in BOOLEAN /\ TripOnTimeout \in BOOLEAN
  /\ FailureThreshold \in Nat \ {0} /\ Cooldown \in Nat \ {0} /\ HalfOpenMax \in Nat \ {0}
  /\ Limits \subseteq {"queue", "consumer"} /\ SharedLimits \subseteq BOOLEAN
  /\ Capacity \in [Limits -> Nat \ {0}] /\ Refill \in [Limits -> Nat]

VARIABLES
  ready,     \* ready jobs of the queue
  paused,    \* Supervisor.pausedQueues holds the queue
  drain,     \* drainQueue: "none", "polling", "drained" (it returned true
             \* and the queue has been paused ever since)
  running,   \* ResilientWorker.running
  phase,     \* where each worker is in tick
  active,    \* jobs of its batch still executing
  results,   \* outcomes of the batch so far
  circuit,   \* its circuitState of the queue
  pressed,   \* its backpressureActive flag of the queue
  tokens,    \* its token buckets
  shared,    \* the store keeps them, for all processes, chosen once
  meter,     \* history: leases of each worker object, leaking at the refill rate
  late       \* history: leases a worker made since the queue was paused or it was
             \* stopped; bound: saturates at 2

queueVars  == <<ready, paused, drain>>
workerVars == <<running, phase, active, results, circuit, pressed, tokens, shared>>
poolHistory == <<meter, late>>
poolVars   == <<queueVars, workerVars, poolHistory>>

-----------------------------------------------------------------------------
Closed == [status |-> "closed", failures |-> 0, openLeft |-> 0, inFlight |-> 0]
Full   == [b \in Limits |-> Capacity[b]]
Zero   == [b \in Limits |-> 0]
Least(a, b) == IF a <= b THEN a ELSE b
Drop(a, b)  == IF a > b THEN a - b ELSE 0

(* The workers whose buckets are w's: the workers of a pool have one name,   *)
(* so a store has one bucket per limit for all of them.                      *)
Sharers(w) == IF shared THEN Workers ELSE {w}

Leased  == FoldFunction(LAMBDA a, b : a + b, 0, active)
Depth   == ready + Leased
Halted(w) == paused \/ ~running[w]

EffectiveBatch == IF "consumer" \in Limits THEN Least(BatchSize, Capacity["consumer"])
                                           ELSE BatchSize

PoolInit ==
  /\ ready = 0 /\ paused = FALSE /\ drain = "none"
  /\ running = [w \in Workers |-> TRUE]
  /\ phase = [w \in Workers |-> "idle"]
  /\ active = [w \in Workers |-> 0]
  /\ results = [w \in Workers |-> <<>>]
  /\ circuit = [w \in Workers |-> Closed]
  /\ pressed = [w \in Workers |-> FALSE]
  /\ tokens = [w \in Workers |-> Full] /\ shared \in SharedLimits
  /\ meter = [w \in Workers |-> Zero]
  /\ late = [w \in Workers |-> 0]

Goto(w, label) == phase' = [phase EXCEPT ![w] = label]

Dispatch ==
  /\ ready < MaxReady /\ ready' = ready + 1
  /\ UNCHANGED <<paused, drain, workerVars, poolHistory>>

-----------------------------------------------------------------------------
(* Mutant of Poll: canProcessQueue is not asked.                            *)
PollPaused(w) ==
  /\ phase[w] = "idle" /\ running[w]
  /\ Goto(w, "gauging")
  /\ UNCHANGED <<queueVars, running, active, results, circuit, pressed, tokens, shared, poolHistory>>

(* A new round of the loop: canProcessQueue is asked, then the queue depth. *)
Poll(w) ==
  /\ phase[w] = "idle" /\ running[w]
  /\ ~paused
  /\ Goto(w, "gauging")
  /\ UNCHANGED <<queueVars, running, active, results, circuit, pressed, tokens, shared, poolHistory>>

(* Mutant of Probed: an open circuit stays open.                            *)
NeverProbed(c) == c

(* canExecuteByCircuitBreaker: the circuit after the call, and its answer.  *)
Probed(c) == IF c.status = "open" /\ c.openLeft = 0
             THEN [c EXCEPT !.status = "half-open", !.inFlight = 0] ELSE c
Admits(c) == \/ ~Breaker
             \/ c.status = "closed"
             \/ Probed(c).status = "half-open" /\ Probed(c).inFlight < HalfOpenMax
Admitted(c) == IF Breaker /\ Admits(c) /\ Probed(c).status = "half-open"
               THEN [Probed(c) EXCEPT !.inFlight = @ + 1] ELSE Probed(c)

(* Mutant of HasTokens: the last token is never spent.                      *)
HasSpareTokens(w) == \A b \in Limits : tokens[w][b] > 1

(* canConsumeByRateLimit, with the local coordinator or Redis's script: both *)
(* buckets are looked at before one token is taken from each.               *)
HasTokens(w) == \A b \in Limits : tokens[w][b] >= 1

(* Mutant of Take: the consumer's token is not taken.                       *)
TakeOfQueue(w) ==
  tokens' = [v \in Workers |-> [b \in Limits |->
    tokens[v][b] - (IF v \in Sharers(w) /\ b = "queue" THEN 1 ELSE 0)]]

Take(w) ==
  tokens' = [v \in Workers |-> [b \in Limits |->
    tokens[v][b] - (IF v \in Sharers(w) THEN 1 ELSE 0)]]

(* The gates after backpressure.  Nothing another worker could see happens  *)
(* between them before the tokens are taken.  A refusal ends the tick,      *)
(* whatever an earlier gate has already counted.                            *)
PassGates(w) ==
  /\ circuit' = [circuit EXCEPT ![w] = Admitted(@)]
  /\ IF Admits(circuit[w]) /\ HasTokens(w)
     THEN Take(w) /\ Goto(w, "leasing")
     ELSE Goto(w, "idle") /\ UNCHANGED tokens

(* checkBackpressure: the flag follows the depth; above the threshold the   *)
(* tick ends ("pause") or sleeps and looks again ("delay").                 *)
Gauge(w) ==
  /\ phase[w] = "gauging"
  /\ IF Mode = "off" \/ Depth <= DepthThreshold
     THEN PassGates(w) /\ pressed' = [pressed EXCEPT ![w] = FALSE]
     ELSE /\ pressed' = [pressed EXCEPT ![w] = TRUE]
          /\ Goto(w, IF Mode = "delay" THEN "delaying" ELSE "idle")
          /\ UNCHANGED <<circuit, tokens>>
  /\ UNCHANGED <<queueVars, running, active, results, shared, poolHistory>>

Regauge(w) ==
  /\ phase[w] = "delaying"
  /\ IF Depth <= DepthThreshold \/ Depth <= ResumeThreshold
     THEN PassGates(w)
     ELSE Goto(w, "idle") /\ UNCHANGED <<circuit, tokens>>
  /\ UNCHANGED <<queueVars, running, active, results, pressed, shared, poolHistory>>

(* storage.dequeue returns up to a batch of jobs; all of them are executed. *)
Lease(w) ==
  /\ phase[w] = "leasing"
  /\ LET n == Least(EffectiveBatch, ready)
     IN /\ ready' = ready - n
        /\ active' = [active EXCEPT ![w] = n]
        /\ Goto(w, IF n = 0 THEN "idle" ELSE "executing")
  /\ IF ready = 0
     THEN UNCHANGED poolHistory
     ELSE /\ meter' = [v \in Workers |-> [b \in Limits |-> meter[v][b] + (IF v \in Sharers(w) THEN 1 ELSE 0)]]
          /\ late' = IF Halted(w) THEN [late EXCEPT ![w] = Least(@ + 1, 2)] ELSE late
  /\ UNCHANGED <<paused, drain, running, results, circuit, pressed, tokens, shared>>

(* One of the executions settles.                                           *)
Settle(w) ==
  /\ active[w] > 0
  /\ active' = [active EXCEPT ![w] = @ - 1]
  /\ \E outcome \in {"ok", "failed", "timeout"} :
       results' = [results EXCEPT ![w] = Append(@, outcome)]
  /\ UNCHANGED <<queueVars, running, phase, circuit, pressed, tokens, shared, poolHistory>>

(* onExecutionSucceeded and onExecutionFailed.  Bound: the count of failures *)
(* in a row saturates at the threshold, the only value it is compared with. *)
Succeeded(c) ==
  IF c.status = "half-open" THEN Closed ELSE [c EXCEPT !.failures = 0]

(* Mutant of Failed: the breaker trips one failure late.                    *)
FailedLate(c, outcome) ==
  IF ~Breaker \/ (~TripOnTimeout /\ outcome = "timeout") THEN c
  ELSE IF c.status = "half-open" \/ c.failures >= FailureThreshold
       THEN [status |-> "open", failures |-> c.failures, openLeft |-> Cooldown, inFlight |-> 0]
       ELSE [c EXCEPT !.failures = @ + 1]

Failed(c, outcome) ==
  IF ~Breaker \/ (~TripOnTimeout /\ outcome = "timeout") THEN c
  ELSE LET n == Least(c.failures + 1, FailureThreshold)
       IN IF c.status = "half-open" \/ n >= FailureThreshold
          THEN [status |-> "open", failures |-> n, openLeft |-> Cooldown, inFlight |-> 0]
          ELSE [c EXCEPT !.failures = n]

AfterResult(c, outcome) == IF outcome = "ok" THEN Succeeded(c) ELSE Failed(c, outcome)

(* All executions have settled: their results reach the breaker in order.   *)
Report(w) ==
  /\ phase[w] = "executing" /\ active[w] = 0
  /\ circuit' = [circuit EXCEPT ![w] = FoldLeft(AfterResult, @, results[w])]
  /\ results' = [results EXCEPT ![w] = <<>>]
  /\ Goto(w, "idle")
  /\ UNCHANGED <<queueVars, running, active, pressed, tokens, shared, poolHistory>>

-----------------------------------------------------------------------------
PauseQueue ==
  /\ "pause" \in Steering
  /\ ~paused /\ paused' = TRUE
  /\ late' = [w \in Workers |-> IF running[w] THEN 0 ELSE late[w]]
  /\ UNCHANGED <<ready, drain, workerVars, meter>>

ResumeQueue ==
  /\ paused /\ paused' = FALSE
  /\ drain' = IF drain = "drained" THEN "none" ELSE drain
  /\ late' = [w \in Workers |-> IF running[w] THEN 0 ELSE late[w]]
  /\ UNCHANGED <<ready, workerVars, meter>>

(* drainQueue pauses the queue and polls getActiveJobs until it finds none  *)
(* or its timeout is over; a resume meanwhile does not end it.              *)
DrainQueue ==
  /\ "pause" \in Steering
  /\ drain # "polling" /\ drain' = "polling"
  /\ paused' = TRUE
  /\ late' = [w \in Workers |-> IF running[w] /\ ~paused THEN 0 ELSE late[w]]
  /\ UNCHANGED <<ready, workerVars, meter>>

DrainPoll ==
  /\ drain = "polling" /\ Leased = 0
  /\ drain' = IF paused THEN "drained" ELSE "none"
  /\ UNCHANGED <<ready, paused, workerVars, poolHistory>>

DrainTimeout ==
  /\ drain = "polling" /\ drain' = "none"
  /\ UNCHANGED <<ready, paused, workerVars, poolHistory>>

(* scaleTo and stop clear the running flag; the tick under way goes on.     *)
StopWorkers(W) ==
  /\ running' = [w \in Workers |-> running[w] /\ w \notin W]
  /\ late' = [w \in Workers |-> IF w \in W /\ running[w] /\ ~paused THEN 0 ELSE late[w]]
  /\ UNCHANGED <<queueVars, phase, active, results, circuit, pressed, tokens, shared, meter>>

ScaleDown(w) == "scale" \in Steering /\ running[w] /\ StopWorkers({w})
Stop == "stop" \in Steering /\ (\E w \in Workers : running[w]) /\ StopWorkers(Workers)

(* A new ResilientWorker takes a slot whose former worker has ended.        *)
SpawnWorker(w) ==
  /\ "scale" \in Steering
  /\ ~running[w] /\ phase[w] = "idle"
  /\ running' = [running EXCEPT ![w] = TRUE]
  /\ circuit' = [circuit EXCEPT ![w] = Closed]
  /\ pressed' = [pressed EXCEPT ![w] = FALSE]
  /\ tokens' = IF shared THEN tokens ELSE [tokens EXCEPT ![w] = Full]
  /\ meter' = IF shared THEN meter ELSE [meter EXCEPT ![w] = Zero]
  /\ late' = [late EXCEPT ![w] = 0]
  /\ UNCHANGED <<queueVars, phase, active, results, shared>>

(* The clock: buckets refill, cooldowns run down.                           *)
Elapse ==
  /\ tokens' = [w \in Workers |-> [b \in Limits |-> Least(Capacity[b], tokens[w][b] + Refill[b])]]
  /\ circuit' = [w \in Workers |-> [circuit[w] EXCEPT !.openLeft = Drop(@, 1)]]
  /\ meter' = [w \in Workers |-> [b \in Limits |-> Drop(meter[w][b], Refill[b])]]
  /\ UNCHANGED <<queueVars, running, phase, active, results, pressed, shared, late>>

WorkerStep(w) ==
  \/ Poll(w) \/ Gauge(w) \/ Regauge(w) \/ Lease(w) \/ Settle(w) \/ Report(w)

PoolNext ==
  \/ Dispatch \/ Elapse
  \/ PauseQueue \/ ResumeQueue \/ DrainQueue \/ DrainPoll \/ DrainTimeout \/ Stop
  \/ \E w \in Workers : WorkerStep(w) \/ ScaleDown(w) \/ SpawnWorker(w)

PoolSpec == PoolInit /\ [][PoolNext]_poolVars

(* The loops and timers of Node run; every execution settles; drainQueue    *)
(* polls again and again.  Nothing is assumed of dispatchers and operators. *)
PoolFairness ==
  /\ WF_poolVars(Elapse) /\ WF_poolVars(DrainPoll)
  /\ \A w \in Workers : WF_poolVars(WorkerStep(w))

FairPoolSpec == PoolSpec /\ PoolFairness

-----------------------------------------------------------------------------
Phases == {"idle", "gauging", "delaying", "leasing", "executing"}

PoolTypeOK ==
  /\ ready \in 0..MaxReady
  /\ paused \in BOOLEAN /\ drain \in {"none", "polling", "drained"}
  /\ running \in [Workers -> BOOLEAN]
  /\ phase \in [Workers -> Phases]
  /\ active \in [Workers -> 0..BatchSize]
  /\ results \in [Workers -> Seq({"ok", "failed", "timeout"})]
  /\ circuit \in [Workers -> [status : {"closed", "open", "half-open"}, failures : Nat,
                              openLeft : 0..Cooldown, inFlight : 0..HalfOpenMax]]
  /\ pressed \in [Workers -> BOOLEAN]
  /\ tokens \in [Workers -> [Limits -> Nat]] /\ shared \in BOOLEAN
  /\ meter \in [Workers -> [Limits -> Nat]]
  /\ late \in [Workers -> Nat]

(* In any window of time the workers that share a bucket, or the one that   *)
(* has it for itself, make at most Capacity leases plus what it refills in  *)
(* the window, and one more each: a token that was taken before the window  *)
(* and spent in it, since consume and dequeue are two steps with an await   *)
(* between them (resilient-worker.ts:77).                                   *)
LeaseRate ==
  \A w \in Workers, b \in Limits : meter[w][b] <= Capacity[b] + Cardinality(Sharers(w))

(* Pausing, draining, scaling down and stopping do not interrupt a tick, but *)
(* after any of them a worker starts at most the batch it was about to      *)
(* lease: the pause flag and the running flag are read once per tick, three *)
(* awaits before the lease.                                                 *)
OneLateBatch == \A w \in Workers : late[w] <= 1

(* A closed breaker is one that has seen fewer than FailureThreshold        *)
(* failures in a row, whatever mixture of outcomes the batches brought in   *)
(* whatever order; and only an open one is cooling down.                    *)
BreakerHolds ==
  \A w \in Workers :
    /\ circuit[w].status = "closed" => circuit[w].failures < FailureThreshold
    /\ circuit[w].openLeft > 0 => circuit[w].status = "open"
    /\ circuit[w].inFlight > 0 => circuit[w].status = "half-open"

(* Ready jobs do not lie in the queue for ever while its workers run and it *)
(* is not paused: no gate keeps a worker out for good.                      *)
ReadyGetsLeased ==
  \A n \in 1..MaxReady : ready = n ~> ready # n \/ paused \/ \A w \in Workers : ~running[w]

(* An open breaker lets its worker try again after the cooldown, unless the *)
(* queue is paused, the worker stopped or backpressure keeps it out.        *)
OpenBreakerCools ==
  \A w \in Workers :
    circuit[w].status = "open" ~> circuit[w].status # "open" \/ Halted(w) \/ pressed[w]

(* A drain comes to an end, however many jobs were in flight or about to be *)
(* leased when it began and however many are dispatched meanwhile, unless   *)
(* the queue is resumed.                                                    *)
DrainEnds == drain = "polling" ~> drain # "polling" \/ ~paused
=============================================================================
