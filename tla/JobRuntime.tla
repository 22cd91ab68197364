----------------------------- MODULE JobRuntime -----------------------------
(***************************************************************************)
(* Lease, execute, retry, settle: ResilientWorker.tick (resilient-worker)  *)
(* leasing batches from the store and JobManager.executeAll with its lease *)
(* heartbeat, retry loop and permanent-failure path (worker-runtime), one  *)
(* action per stretch of code between two awaits.                          *)
(*                                                                         *)
(* A lane is one execution of a worker's current batch; a worker leases    *)
(* again only when every lane of its last batch has ended                  *)
(* (Promise.allSettled in tick).  One queue; its executor is shared by all *)
(* workers.  Timers run down with Elapse; a heartbeat that is due fires    *)
(* before the clock moves on.                                              *)
(***************************************************************************)
EXTENDS InMemoryQueueStorage

CONSTANTS
  Queue,        \* the queue served
  Workers, Lanes, WorkerOf,  \* lanes of execution and the worker each belongs to
  BatchSize, Concurrency,    \* QueueConfig.batchSize and .concurrency
  MaxAttempts,  \* resolveConfiguredMaxAttempts
  Backoffs,     \* delays resolveRetryBackoff may return, in clock units
  Decisions,    \* actions a retry policy may return: "retry" "fail" "deadletter"
  SnoozeAfter,  \* poisonPolicy.maxFailures of template auto-snooze, 0 without it
  Faults        \* awaits that may reject, see Rejects

ASSUME RuntimeConstantsOK ==
  /\ Queue \in Queues
  /\ WorkerOf \in [Lanes -> Workers]
  /\ BatchSize \in Nat \ {0} /\ Concurrency \in Nat \ {0}
  /\ MaxAttempts \in Nat \ {0}
  /\ Backoffs \subseteq Nat
  /\ Decisions \subseteq {"retry", "fail", "deadletter"}
  /\ SnoozeAfter \in Nat
  /\ LeaseMs >= 2
  /\ MaxRecorded >= MaxAttempts /\ MaxRecorded >= SnoozeAfter

VARIABLES
  pc,        \* where each lane is in executeAll
  held,      \* the job each lane was given
  attempt,   \* the lane's local attempt counter
  beat,      \* lease heartbeat: "off", "initial" timer or "repeating" timer
  beatLeft,  \* time to its next firing
  sleepLeft, \* time left of a retry backoff
  starts,    \* history: handler starts per job, saturating above MaxAttempts
  shared,    \* history: jobs leased to a lane while another lane had them
  finished   \* history: jobs whose completion was ever recorded

laneVars == <<pc, held, attempt, beat, beatLeft, sleepLeft>>
history  == <<starts, shared, finished>>
vars == <<storeVars, laneVars, history>>

-----------------------------------------------------------------------------
HalfLease == IF LeaseMs \div 2 > 1 THEN LeaseMs \div 2 ELSE 1

LanesOf(w)  == {x \in Lanes : WorkerOf[x] = w}
Holders(i)  == {x \in Lanes : pc[x] # "idle" /\ held[x] = i}
Running(x)  == pc[x] \notin {"idle", "submitted"}
Dead(i)     == deadLetter[i].copies > 0
Snoozed(i)  == \E n \in Ids : spec[n].source = i

SlotsFull   == Cardinality({x \in Lanes : Running(x)}) >= Concurrency

Goto(x, label) == pc' = [pc EXCEPT ![x] = label]

StartBeat(x) == /\ beat' = [beat EXCEPT ![x] = "initial"]
                /\ beatLeft' = [beatLeft EXCEPT ![x] = HalfLease]
StopBeat(x)  == /\ beat' = [beat EXCEPT ![x] = "off"]
                /\ beatLeft' = [beatLeft EXCEPT ![x] = 0]

EndLane(x) == /\ pc' = [pc EXCEPT ![x] = "idle"]
              /\ held' = [held EXCEPT ![x] = NoId]
              /\ attempt' = [attempt EXCEPT ![x] = 0]

Init ==
  /\ StoreInit
  /\ pc = [x \in Lanes |-> "idle"]
  /\ held = [x \in Lanes |-> NoId]
  /\ attempt = [x \in Lanes |-> 0]
  /\ beat = [x \in Lanes |-> "off"]
  /\ beatLeft = [x \in Lanes |-> 0]
  /\ sleepLeft = [x \in Lanes |-> 0]
  /\ starts = [i \in Ids |-> 0]
  /\ shared = {} /\ finished = {}

-----------------------------------------------------------------------------
(* Dispatch without a dedupe window: straight to storage.enqueue.           *)
Dispatch ==
  \E i \in Fresh, p \in Priorities, k \in Keys \cup {NoKey}, d \in BOOLEAN :
    /\ Enqueue(i, NewSpec(Queue, p, k), d)
    /\ UNCHANGED <<laneVars, history>>

(* tick: every lane of the last batch has settled; the next batch is leased *)
(* and each of its jobs handed to execute.                                  *)
Assignments(w, S) ==
  {f \in [LanesOf(w) -> S \cup {NoId}] :
     \A i \in S : \E x \in LanesOf(w) : f[x] = i /\ \A y \in LanesOf(w) \ {x} : f[y] # i}

LeaseBatch(w, S, f) ==
  /\ Dequeue(S)
  /\ pc' = [x \in Lanes |-> IF x \in LanesOf(w) /\ f[x] # NoId THEN "submitted" ELSE pc[x]]
  /\ held' = [x \in Lanes |-> IF x \in LanesOf(w) THEN f[x] ELSE held[x]]
  /\ attempt' = [x \in Lanes |-> IF x \in LanesOf(w) /\ f[x] # NoId
                                 THEN jobs[f[x]].attempts ELSE attempt[x]]
  /\ shared' = shared \cup {i \in S : Holders(i) # {}}
  /\ UNCHANGED <<beat, beatLeft, sleepLeft, starts, finished>>

Lease(w) ==
  /\ \A x \in LanesOf(w) : pc[x] = "idle"
  /\ \E S \in Batches(Queue, BatchSize) : \E f \in Assignments(w, S) :
       S # {} /\ LeaseBatch(w, S, f)

(* The executor starts the most urgent waiting task as soon as fewer than   *)
(* Concurrency run; the first heartbeat timer starts with the task.  The    *)
(* order of equally urgent tasks is left open here.                         *)
Begin(x) ==
  /\ pc[x] = "submitted"
  /\ ~SlotsFull
  /\ \A y \in Lanes : pc[y] = "submitted" =>
        spec[held[x]].priority <= spec[held[y]].priority
  /\ Goto(x, "running") /\ StartBeat(x)
  /\ starts' = [starts EXCEPT ![held[x]] = IF @ > MaxAttempts THEN @ ELSE @ + 1]
  /\ UNCHANGED <<storeVars, held, attempt, sleepLeft, shared, finished>>

(* execute rejects before it submits anything: unregistered job name,       *)
(* missing worker module.  No storage call is made; the lease stays.        *)
Unrunnable(x) ==
  /\ "execute" \in Faults
  /\ pc[x] = "submitted"
  /\ EndLane(x)
  /\ UNCHANGED <<storeVars, beat, beatLeft, sleepLeft, history>>

(* Mutant of Beat: the repeating timer renews nothing.                      *)
BeatOnce(x) ==
  /\ beat[x] # "off" /\ beatLeft[x] = 0
  /\ IF beat[x] = "initial" THEN ExtendLease(held[x]) ELSE UNCHANGED storeVars
  /\ beat' = [beat EXCEPT ![x] = "repeating"]
  /\ beatLeft' = [beatLeft EXCEPT ![x] = HalfLease]
  /\ UNCHANGED <<pc, held, attempt, sleepLeft, history>>

(* A heartbeat timer fires: the lease is renewed and a timer of half the    *)
(* lease is set again.                                                      *)
Beat(x) ==
  /\ beat[x] # "off" /\ beatLeft[x] = 0
  /\ ExtendLease(held[x])
  /\ beat' = [beat EXCEPT ![x] = "repeating"]
  /\ beatLeft' = [beatLeft EXCEPT ![x] = HalfLease]
  /\ UNCHANGED <<pc, held, attempt, sleepLeft, history>>

-----------------------------------------------------------------------------
(* Mutant of HandlerOk: the acknowledgement does not wait for the record.   *)
HandlerOkUnrecorded(x) ==
  /\ pc[x] = "running"
  /\ Goto(x, "acking") /\ StopBeat(x)
  /\ UNCHANGED <<storeVars, held, attempt, sleepLeft, history>>

(* The handler (or an onProcessStart hook before it) ended well ...         *)
HandlerOk(x) ==
  /\ pc[x] = "running"
  /\ Goto(x, "storing") /\ StopBeat(x)
  /\ UNCHANGED <<storeVars, held, attempt, sleepLeft, history>>

(* ... the completion is recorded, then the job is acknowledged, then the   *)
(* onProcessEnd hooks run.                                                  *)
Record(x) ==
  /\ pc[x] = "storing"
  /\ AddCompletedJob(held[x])
  /\ Goto(x, "acking")
  /\ finished' = finished \cup {held[x]}
  /\ UNCHANGED <<held, attempt, beat, beatLeft, sleepLeft, starts, shared>>

Acknowledge(x) ==
  /\ pc[x] = "acking"
  /\ Ack(held[x])
  /\ Goto(x, "ending")
  /\ UNCHANGED <<held, attempt, beat, beatLeft, sleepLeft, history>>

Return(x) ==
  /\ pc[x] = "ending"
  /\ EndLane(x)
  /\ UNCHANGED <<storeVars, beat, beatLeft, sleepLeft, history>>

(* Everything in the try block leads to the one catch: the handler throws   *)
(* or times out, or - as far as Faults lets it - the completion record, the *)
(* acknowledgement or an onProcessEnd hook is rejected.                     *)
Rejects(x) ==
  \/ pc[x] = "running"
  \/ pc[x] = "storing" /\ "addCompletedJob" \in Faults
  \/ pc[x] = "acking" /\ "ack" \in Faults
  \/ pc[x] = "ending" /\ "onProcessEnd" \in Faults

(* Mutant of Catch: the attempt is not counted.                             *)
CatchUncounted(x) ==
  /\ Rejects(x)
  /\ Goto(x, "failing") /\ StopBeat(x)
  /\ UNCHANGED <<storeVars, held, attempt, sleepLeft, history>>

Catch(x) ==
  /\ Rejects(x)
  /\ attempt' = [attempt EXCEPT ![x] = IF @ < MaxRecorded THEN @ + 1 ELSE @]
  /\ Goto(x, "failing") /\ StopBeat(x)
  /\ UNCHANGED <<storeVars, held, sleepLeft, history>>

CountAttempt(x) ==
  /\ pc[x] = "failing"
  /\ UpdateAttempts(held[x], attempt[x])
  /\ Goto(x, "deciding")
  /\ UNCHANGED <<held, attempt, beat, beatLeft, sleepLeft, history>>

-----------------------------------------------------------------------------
(* After the onFail hooks: back off and try again, or fail for good.        *)
Decide(x) ==
  /\ pc[x] = "deciding"
  /\ \E action \in Decisions :
       \/ /\ action = "retry" /\ attempt[x] < MaxAttempts
          /\ \E delay \in Backoffs : sleepLeft' = [sleepLeft EXCEPT ![x] = delay]
          /\ Goto(x, "backoff")
       \/ /\ action = "deadletter"
          /\ Goto(x, "burying") /\ UNCHANGED sleepLeft
       \/ /\ action = "fail" \/ (action = "retry" /\ attempt[x] >= MaxAttempts)
          /\ Goto(x, IF SnoozeAfter > 0 /\ attempt[x] >= SnoozeAfter
                     THEN "snoozing" ELSE "burying")
          /\ UNCHANGED sleepLeft
  /\ UNCHANGED <<storeVars, held, attempt, beat, beatLeft, history>>

(* An onFail or onFailedPermanently hook that throws ends the execution     *)
(* with the job still leased.                                               *)
HookThrows(x) ==
  /\ \/ pc[x] = "deciding" /\ "onFail" \in Faults
     \/ pc[x] \in {"burying", "snoozing"} /\ "onFailedPermanently" \in Faults
  /\ EndLane(x)
  /\ UNCHANGED <<storeVars, beat, beatLeft, sleepLeft, history>>

(* The backoff is over: the next round of the loop starts a new heartbeat.  *)
Retry(x) ==
  /\ pc[x] = "backoff" /\ sleepLeft[x] = 0
  /\ Goto(x, "running") /\ StartBeat(x)
  /\ starts' = [starts EXCEPT ![held[x]] = IF @ > MaxAttempts THEN @ ELSE @ + 1]
  /\ UNCHANGED <<storeVars, held, attempt, sleepLeft, shared, finished>>

(* Mutant of Bury: a job that failed for good is acknowledged.              *)
BuryByAck(x) ==
  /\ pc[x] = "burying"
  /\ Ack(held[x])
  /\ EndLane(x)
  /\ UNCHANGED <<beat, beatLeft, sleepLeft, history>>

Bury(x) ==
  /\ pc[x] = "burying"
  /\ MoveToDeadLetter(held[x])
  /\ EndLane(x)
  /\ UNCHANGED <<beat, beatLeft, sleepLeft, history>>

(* auto-snooze: acknowledge, then - a call of its own - enqueue a delayed   *)
(* copy under a new id that keeps the idempotency key.                      *)
SnoozeAck(x) ==
  /\ pc[x] = "snoozing"
  /\ Ack(held[x])
  /\ Goto(x, "requeueing")
  /\ UNCHANGED <<held, attempt, beat, beatLeft, sleepLeft, history>>

SnoozeEnqueue(x) ==
  /\ pc[x] = "requeueing"
  /\ \E n \in Fresh :
       Enqueue(n, [spec[held[x]] EXCEPT !.createdAt = Now, !.source = held[x]], TRUE)
  /\ EndLane(x)
  /\ UNCHANGED <<beat, beatLeft, sleepLeft, history>>

-----------------------------------------------------------------------------
(* Supervisor.promoteJob, which is also what a pass of the promoter does to *)
(* a job that is still delayed when it is moved; and Supervisor.retryDLQ.   *)
Promote ==
  \E i \in Ids : PromoteJob(i) /\ UNCHANGED <<laneVars, history>>

Replay ==
  \E i \in Ids, n \in Fresh : RetryDeadLetterJob(i, n) /\ UNCHANGED <<laneVars, history>>

(* The clock moves one unit, unless a heartbeat is due or a task that the   *)
(* executor has a slot for has not been started (submit starts it at once). *)
ClockTick ==
  /\ \A x \in Lanes : beat[x] = "off" \/ beatLeft[x] > 0
  /\ \A x \in Lanes : pc[x] = "submitted" => SlotsFull
  /\ Elapse
  /\ beatLeft' = [x \in Lanes |-> IF beatLeft[x] > 0 THEN beatLeft[x] - 1 ELSE 0]
  /\ sleepLeft' = [x \in Lanes |-> IF sleepLeft[x] > 0 THEN sleepLeft[x] - 1 ELSE 0]
  /\ UNCHANGED <<spec, jobs, deadLetter, completed, idempotencyIndex,
                 pc, held, attempt, beat, history>>

LaneStep(x) ==
  \/ Begin(x) \/ Unrunnable(x) \/ Beat(x)
  \/ HandlerOk(x) \/ Record(x) \/ Acknowledge(x) \/ Return(x)
  \/ Catch(x) \/ CountAttempt(x) \/ Decide(x) \/ HookThrows(x) \/ Retry(x)
  \/ Bury(x) \/ SnoozeAck(x) \/ SnoozeEnqueue(x)

Next ==
  \/ Dispatch \/ Promote \/ Replay \/ ClockTick
  \/ \E w \in Workers : Lease(w)
  \/ \E x \in Lanes : LaneStep(x)

Spec == Init /\ [][Next]_vars

(* Node keeps running the worker loops, the timers and the clock; every     *)
(* handler ends, because withTimeout bounds it; hooks and storage calls     *)
(* settle.  Nothing is assumed of dispatchers, replays or faults.           *)
Progress(x) ==
  \/ Begin(x) \/ HandlerOk(x) \/ Record(x) \/ Acknowledge(x) \/ Return(x)
  \/ Catch(x) \/ CountAttempt(x) \/ Decide(x) \/ Retry(x)
  \/ Bury(x) \/ SnoozeAck(x) \/ SnoozeEnqueue(x)

Fairness ==
  /\ WF_vars(ClockTick) /\ WF_vars(Promote)
  /\ \A w \in Workers : WF_vars(Lease(w))
  /\ \A x \in Lanes : WF_vars(Progress(x)) /\ WF_vars(Beat(x))

FairSpec == Spec /\ Fairness

-----------------------------------------------------------------------------
Labels == {"idle", "submitted", "running", "storing", "acking", "ending", "failing",
           "deciding", "backoff", "burying", "snoozing", "requeueing"}

RuntimeTypeOK ==
  /\ StoreTypeOK
  /\ pc \in [Lanes -> Labels]
  /\ held \in [Lanes -> Ids \cup {NoId}]
  /\ \A x \in Lanes : pc[x] # "idle" => held[x] \in Ids /\ Issued(held[x])
  /\ attempt \in [Lanes -> Nat]
  /\ beat \in [Lanes -> {"off", "initial", "repeating"}]
  /\ beatLeft \in [Lanes -> 0..HalfLease]
  /\ sleepLeft \in [Lanes -> Nat]
  /\ starts \in [Ids -> Nat]
  /\ shared \subseteq Ids
  /\ finished \subseteq Ids

(* No accepted job disappears: it is in the store, or it completed, or it   *)
(* is a dead letter, or a snoozed copy of it was enqueued, or a lane is     *)
(* between the two calls of the snooze.  Several lanes may hold the job,    *)
(* and each of them acknowledges, buries or snoozes without looking at what *)
(* the others did.                                                          *)
NoJobLost ==
  \A i \in Ids : Issued(i) =>
    \/ Live(i) \/ i \in finished \/ Dead(i) \/ Snoozed(i)
    \/ \E x \in Lanes : pc[x] = "requeueing" /\ held[x] = i

(* Once the heartbeat of an attempt has renewed the lease, the lease does   *)
(* not run out for as long as that attempt lasts, so no other worker is     *)
(* given the job (createLeaseHeartbeat against dequeue's expiry test).      *)
RenewedLeaseHeld ==
  \A x \in Lanes : beat[x] = "repeating" /\ Live(held[x]) =>
    jobs[held[x]].state = "leased" /\ leaseLeft[held[x]] > 0

(* A job no two lanes ever had at the same time has one outcome: it is      *)
(* completed, dead-lettered once or snoozed, never two of these, and never  *)
(* while it can still be leased.                                            *)
SingleOutcome ==
  \A i \in Ids \ shared :
    /\ deadLetter[i].copies <= 1
    /\ Dead(i) => i \notin finished /\ ~Live(i)
    /\ Snoozed(i) => i \notin finished /\ ~Live(i) /\ ~Dead(i)

(* Every job that entered the store leaves it: completed, dead-lettered or  *)
(* snoozed, whatever leases lapse on the way.                               *)
EveryJobSettles == \A i \in Ids : Live(i) ~> ~Live(i)

(* The runtime implements Delivery: only a run with an outcome takes a job  *)
(* out of the queue, a settled job is never queued again, no job settles    *)
(* without having been started; several lanes may conclude the same job.    *)
(* Between the two calls of a snooze the job counts as snoozed.             *)
Requeued(i) == Snoozed(i) \/ \E x \in Lanes : pc[x] = "requeueing" /\ held[x] = i

Promised == INSTANCE Delivery WITH
  status <- [i \in Ids |-> IF ~Issued(i) THEN "unknown" ELSE IF Live(i) THEN "queued" ELSE "settled"],
  started <- {i \in Ids : starts[i] > 0},
  outcomes <- [i \in Ids |-> (IF i \in finished THEN {"completed"} ELSE {})
                \cup (IF Dead(i) THEN {"dead"} ELSE {})
                \cup (IF Requeued(i) THEN {"snoozed"} ELSE {})]

Delivers == Promised!Spec
=============================================================================
