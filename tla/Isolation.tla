------------------------------ MODULE Isolation ------------------------------
(***************************************************************************)
(* isolation.ts over thread-pool.ts and process-pool.ts: a started task    *)
(* runs its handler in this thread, in a pool of threads or in a pool of   *)
(* child processes.  Handlers may hang; threads and processes may die.     *)
(* A run is a task and its attempt.  The host is one event loop: a step of *)
(* it is a callback; a worker's answer and its death reach it later.       *)
(***************************************************************************)
EXTENDS PooledExecutor, FiniteSets

CONSTANTS
  Kinds,        \* isolation types to choose from: "inline", "thread", "process"
  Load,         \* bound: the tasks submitted under each
  Workers,      \* worker ids, a set of numbers
  NoRun,
  Size,         \* poolSize
  MaxAttempts,  \* the queue's maxAttempts
  MaxCrashes    \* bound: threads and processes that die by themselves

ASSUME IsolationConstantsOK ==
  /\ Kinds \subseteq {"inline", "thread", "process"}
  /\ Load \in [Kinds -> SUBSET Tasks]
  /\ Workers \subseteq Nat /\ Size \in Nat /\ 1..Size \subseteq Workers
  /\ NoRun \notin Tasks \X Nat
  /\ MaxAttempts \in Nat \ {0} /\ MaxCrashes \in Nat

VARIABLES
  kind,     \* the isolation type, chosen once
  attempt,  \* per task
  pool,     \* workers, idle (a sequence), queue of runs, current run per worker
  live,     \* per worker: its thread or process exists
  doing,    \* per worker: the runs it works on
  mail,     \* answers on their way: a worker and the run it ended
  unseen,   \* workers that died and whose event the host has not handled
  bounced,  \* processes a send to which failed: their error event comes next
  dying,    \* processes that were sent the timeout signal
  crashes, lost, crossed \* history: deaths; runs posted to the dead; an answer taken for another run's

workerVars == <<live, doing, mail, unseen, bounced, dying, crashes, lost, crossed>>
vars == <<executorVars, kind, attempt, pool, workerVars>>

Run(t) == <<t, attempt[t]>>

Init ==
  /\ kind \in Kinds
  /\ ExecutorInit
  /\ attempt = [t \in Tasks |-> 1]
  /\ pool = [workers |-> 1..Size, idle |-> [i \in 1..Size |-> i], queue |-> <<>>,
             current |-> [w \in Workers |-> NoRun]]
  /\ live = [w \in Workers |-> w \in 1..Size]
  /\ doing = [w \in Workers |-> {}]
  /\ mail = {} /\ unseen = {} /\ bounced = {} /\ dying = {}
  /\ crashes = 0 /\ lost = {} /\ crossed = FALSE

-----------------------------------------------------------------------------
(* The run's promise settles, unless withTimeout has done it: the task      *)
(* ends, or executeAll starts its next attempt.                             *)
Settle(run, ok) ==
  LET t == run[1] IN
    IF stage[t] # "running" \/ run # Run(t) THEN UNCHANGED <<executorVars, attempt>>
    ELSE IF ok \/ attempt[t] = MaxAttempts THEN Finish(t) /\ attempt' = attempt
    ELSE /\ attempt' = [attempt EXCEPT ![t] = @ + 1]
         /\ stage' = [stage EXCEPT ![t] = "started"]
         /\ UNCHANGED <<heap, active, sequence>>

(* schedule(): the first idle worker gets the first run.  A post to a dead  *)
(* thread vanishes; a send to a dead process may also fail, which raises an *)
(* error event on it.                                                       *)
Schedule(p, alive, errors) ==
  IF p.idle = <<>> \/ p.queue = <<>> THEN pool' = p /\ bounced' = errors /\ UNCHANGED <<doing, lost>>
  ELSE LET w == Head(p.idle)
           run == Head(p.queue)
       IN /\ pool' = [p EXCEPT !.idle = Tail(@), !.queue = Tail(@), !.current[w] = run]
          /\ doing' = IF alive[w] THEN [doing EXCEPT ![w] = @ \cup {run}] ELSE doing
          /\ \/ bounced' = errors /\ lost' = IF alive[w] THEN lost ELSE lost \cup {run}
             \/ ~alive[w] /\ kind = "process" /\ bounced' = errors \cup {w} /\ lost' = lost

Freed(w) == [pool EXCEPT !.current[w] = NoRun, !.idle = Append(@, w)]

(* removeWorker and the replacement, which is forked at once.               *)
Others(s, w) ==
  LET of[n \in 0..Len(s)] ==
        IF n = 0 THEN <<>> ELSE IF s[n] = w THEN of[n - 1] ELSE Append(of[n - 1], s[n])
  IN of[Len(s)]

Without(w) ==
  [pool EXCEPT !.workers = @ \ {w}, !.current[w] = NoRun, !.idle = Others(@, w)]

Fresh == {w \in Workers \ (pool.workers \cup unseen) : ~live[w] /\ \A m \in mail : m[1] # w}
Forked == CHOOSE w \in Fresh : \A v \in Fresh : w <= v

Replaced(w) == [Without(w) EXCEPT !.workers = @ \cup {Forked}, !.idle = Append(@, Forked)]

-----------------------------------------------------------------------------
(* The hooks ran, or the backoff is over: runWithIsolation.                 *)
BeginRun(t) ==
  /\ stage[t] = "started" /\ bounced = {}
  /\ stage' = [stage EXCEPT ![t] = "running"]
  /\ IF kind = "inline" THEN UNCHANGED <<pool, doing, lost, bounced>>
     ELSE Schedule([pool EXCEPT !.queue = Append(@, Run(t))], live, {})
  /\ UNCHANGED <<heap, active, sequence, kind, attempt, live, mail, unseen, dying, crashes, crossed>>

InlineEnds(t) ==
  /\ kind = "inline" /\ stage[t] = "running"
  /\ \E ok \in BOOLEAN : Settle(Run(t), ok)
  /\ UNCHANGED <<kind, pool, workerVars>>

(* Mutant of WithTimeout: only the timer of the pool that runs the job.     *)
WithTimeoutOfPool(t) ==
  /\ stage[t] = "running" /\ bounced = {}
  /\ kind = "inline" \/ \E w \in Workers : pool.current[w] = Run(t)
  /\ Settle(Run(t), FALSE)
  /\ UNCHANGED <<kind, pool, workerVars>>

(* The timer runs from the call on, also while the run is queued, and       *)
(* leaves the pool alone.                                                   *)
WithTimeout(t) ==
  /\ stage[t] = "running" /\ bounced = {}
  /\ Settle(Run(t), FALSE)
  /\ UNCHANGED <<kind, pool, workerVars>>

HandleResult(w, run) ==
  /\ <<w, run>> \in mail /\ bounced = {}
  /\ mail' = mail \ {<<w, run>>}
  /\ LET mine == pool.current[w] IN
       IF mine = NoRun
       THEN UNCHANGED <<executorVars, attempt, pool, doing, lost, bounced, crossed>>
       ELSE /\ \E ok \in BOOLEAN : Settle(mine, ok)
            /\ crossed' = (crossed \/ mine # run)
            /\ Schedule(Freed(w), live, {})
  /\ UNCHANGED <<kind, live, unseen, dying, crashes>>

(* handleError of either pool: the run is rejected and the worker counts as *)
(* idle, whatever it is.                                                    *)
HandleError(w) ==
  /\ IF pool.current[w] = NoRun THEN UNCHANGED <<executorVars, attempt>>
     ELSE Settle(pool.current[w], FALSE)
  /\ Schedule(Freed(w), live, bounced \ {w})
  /\ UNCHANGED <<kind, live, mail, dying, crashes, crossed>>

(* A thread's uncaught error arrives after what the thread posted before.   *)
ThreadError(w) ==
  /\ kind = "thread" /\ w \in unseen /\ \A m \in mail : m[1] # w
  /\ unseen' = unseen \ {w}
  /\ HandleError(w)

(* The error event of a failed send comes before any other callback.        *)
SendError(w) ==
  /\ w \in bounced
  /\ unseen' = unseen
  /\ HandleError(w)

(* Mutant of ExitReplaces: the pool is refilled whatever its size.          *)
ExitReplacesAlways(w) == TRUE

(* After a timeout the replacement has already been made.                   *)
ExitReplaces(w) == Cardinality(pool.workers \ {w}) < Size

(* A process has exited: its run is dropped, not rejected.  Bound: fork()   *)
(* needs an id that is Fresh.                                               *)
Exit(w) ==
  /\ kind = "process" /\ w \in unseen /\ bounced = {}
  /\ unseen' = unseen \ {w} /\ dying' = dying \ {w}
  /\ IF ExitReplaces(w)
     THEN Fresh # {} /\ live' = [live EXCEPT ![Forked] = TRUE] /\ Schedule(Replaced(w), live', {})
     ELSE pool' = Without(w) /\ UNCHANGED <<live, doing, lost, bounced>>
  /\ UNCHANGED <<executorVars, kind, attempt, mail, crashes, crossed>>

(* Mutant of HandleTimeout: the process is signalled and kept.              *)
HandleTimeoutKeeps(w) ==
  /\ kind = "process" /\ pool.current[w] # NoRun /\ bounced = {}
  /\ Settle(pool.current[w], FALSE)
  /\ dying' = dying \cup ({w} \cap {v \in Workers : live[v]})
  /\ Schedule(Freed(w), live, {})
  /\ UNCHANGED <<kind, live, mail, unseen, crashes, crossed>>

(* The timer set when the run was sent: the process is signalled and        *)
(* replaced; it may go on for a while.                                      *)
HandleTimeout(w) ==
  /\ kind = "process" /\ pool.current[w] # NoRun /\ bounced = {} /\ Cardinality(Fresh) > 1
  /\ Settle(pool.current[w], FALSE)
  /\ dying' = dying \cup ({w} \cap {v \in Workers : live[v]})
  /\ live' = [live EXCEPT ![Forked] = TRUE]
  /\ Schedule(Replaced(w), live', {})
  /\ UNCHANGED <<kind, mail, unseen, crashes, crossed>>

-----------------------------------------------------------------------------
(* A worker answers a run; it dies by itself or of the signal.              *)
Answer(w, run) ==
  /\ run \in doing[w]
  /\ doing' = [doing EXCEPT ![w] = @ \ {run}]
  /\ mail' = mail \cup {<<w, run>>}
  /\ UNCHANGED <<executorVars, kind, attempt, pool, live, unseen, bounced, dying, crashes, lost, crossed>>

Die(w) ==
  /\ live[w]
  /\ \/ w \in dying /\ crashes' = crashes
     \/ crashes < MaxCrashes /\ crashes' = crashes + 1
  /\ live' = [live EXCEPT ![w] = FALSE]
  /\ doing' = [doing EXCEPT ![w] = {}]
  /\ unseen' = unseen \cup {w}
  /\ UNCHANGED <<executorVars, kind, attempt, pool, mail, bounced, dying, lost, crossed>>

Next ==
  \/ \E t \in Load[kind] : Submit(t) /\ UNCHANGED <<kind, attempt, pool, workerVars>>
  \/ \E t \in Tasks : BeginRun(t) \/ InlineEnds(t) \/ WithTimeout(t)
  \/ \E w \in Workers :
       \/ ThreadError(w) \/ SendError(w) \/ Exit(w) \/ HandleTimeout(w) \/ Die(w)
       \/ \E run \in doing[w] : Answer(w, run)
  \/ \E m \in mail : HandleResult(m[1], m[2])

(* The event loop runs callbacks that are due and timers that have expired; *)
(* nothing is assumed of handlers, threads and processes.                   *)
Fairness ==
  /\ \A t \in Tasks : WF_vars(BeginRun(t)) /\ WF_vars(WithTimeout(t))
  /\ \A w \in Workers : WF_vars(SendError(w))

Spec == Init /\ [][Next]_vars /\ Fairness

-----------------------------------------------------------------------------
Places(w) == {i \in DOMAIN pool.idle : pool.idle[i] = w}

(* Nothing waits beside a free slot: tasks are queued only while all slots  *)
(* are taken, runs only while no worker is idle.  schedule() starts a       *)
(* single run per call, so every callback that frees or adds a worker has   *)
(* to make that call (process-pool.ts:51).                                  *)
NoIdleSlot ==
  /\ heap # <<>> => active = Concurrency
  /\ pool.queue # <<>> => pool.idle = <<>>

(* A pool keeps its size through deaths, timeouts and the exit events of    *)
(* processes it has replaced already; a live worker is idle once and then   *)
(* has nothing to do, so that it never works on two runs.                   *)
PoolKept ==
  /\ Cardinality(pool.workers) = Size
  /\ \A w \in Workers : live[w] =>
       /\ Cardinality(Places(w)) <= 1 /\ Cardinality(doing[w]) <= 1
       /\ Places(w) # {} => doing[w] = {} /\ pool.current[w] = NoRun /\ w \in pool.workers

(* No slot of the executor and no worker of a pool is lost or left idle:    *)
(* see NoIdleSlot and PoolKept.                                             *)
SlotsKept == NoIdleSlot /\ PoolKept

(* An answer settles the run it answers, also when it comes after that run  *)
(* timed out and its worker's place was given to another                    *)
(* (thread-pool.ts:69, process-pool.ts:105).                                *)
OwnAnswer == ~crossed

(* A thread that dies takes at most the next two runs with it: it stays in  *)
(* the pool as an idle worker, twice if it died idle (thread-pool.ts:88).   *)
(* A process takes one.                                                     *)
FewVictims == Cardinality(lost) <= crashes * (IF kind = "thread" THEN 2 ELSE 1)

(* An answer reaches the run it is for, and few runs are left without one:  *)
(* see OwnAnswer and FewVictims.                                            *)
AnswersReach == OwnAnswer /\ FewVictims

(* Every submitted task ends, though a dead process never rejects its run   *)
(* and a dead thread never answers: withTimeout does (isolation.ts:72).     *)
EveryTaskEnds == \A t \in Tasks : stage[t] # "new" ~> stage[t] = "ended"
=============================================================================
