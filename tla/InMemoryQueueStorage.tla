------------------------ MODULE InMemoryQueueStorage ------------------------
(***************************************************************************)
(* The job store of packages/core/src/libs/in-memory-queue-storage.ts and  *)
(* the reference semantics of the QueueStorage interface the runtime is    *)
(* written against.  Every operation is an action of its own over the      *)
(* storage variables, so that other modules can compose them with the      *)
(* state of the actor that calls them.                                     *)
(*                                                                         *)
(* Time is kept as the time that remains: leaseLeft[i] is leaseExpiry[i]   *)
(* minus the clock, cut off at 0 (an absent entry reads as 0 in the code). *)
(***************************************************************************)
EXTENDS Integers, FiniteSets, Sequences

CONSTANTS
  Ids,          \* job ids that crypto.randomUUID() may return, never twice
  Queues,       \* queue names
  Keys,         \* idempotency keys
  Priorities,   \* priority scores in use (utils.ts: critical = 0 .. low = 3)
  NoId, NoKey, NoQueue,
  LeaseMs,      \* visibilityTimeout, in clock units
  HistoryCap,   \* completed records kept per queue (500 in the code)
  MaxDeadLetters, \* bound: dead-letter copies of one id that clients may push
  MaxRecorded     \* bound: attempt counts that clients may store

ASSUME ConstantsOK ==
  /\ NoId \notin Ids /\ NoKey \notin Keys /\ NoQueue \notin Queues
  /\ Priorities \subseteq Nat
  /\ IsFiniteSet(Ids)
  /\ LeaseMs \in Nat \ {0}
  /\ HistoryCap \in Nat \ {0} /\ MaxDeadLetters \in Nat /\ MaxRecorded \in Nat

VARIABLES
  spec,             \* immutable fields of each StoredJob ever created
  jobs,             \* mutable fields of the live records (Map jobs)
  leaseLeft,        \* remaining lease per id (Map leaseExpiry)
  deadLetter,       \* per id: dead-letter records held, first one retried?
  completed,        \* per queue: completion records, newest first
  idempotencyIndex  \* key -> id of the job it was enqueued with

storeVars == <<spec, jobs, leaseLeft, deadLetter, completed, idempotencyIndex>>

-----------------------------------------------------------------------------
Specs == [queue: Queues, priority: Priorities, key: Keys \cup {NoKey},
          createdAt: Nat, source: Ids \cup {NoId}]

NoSpec == [queue |-> NoQueue, priority |-> 0, key |-> NoKey,
           createdAt |-> 0, source |-> NoId]

Records == [state : {"none", "queued", "leased", "failed"}, delayed : BOOLEAN, attempts : Nat]

NoJob == [state |-> "none", delayed |-> FALSE, attempts |-> 0]

Issued(i) == spec[i].queue # NoQueue
Live(i)   == jobs[i].state # "none"
Fresh     == {i \in Ids : ~Issued(i)}
Now       == Cardinality({i \in Ids : Issued(i)})   \* rank of the next createdAt

StoreInit ==
  /\ spec = [i \in Ids |-> NoSpec]
  /\ jobs = [i \in Ids |-> NoJob]
  /\ leaseLeft = [i \in Ids |-> 0]
  /\ deadLetter = [i \in Ids |-> [copies |-> 0, retried |-> FALSE]]
  /\ completed = [q \in Queues |-> <<>>]
  /\ idempotencyIndex = [k \in Keys |-> NoId]

-----------------------------------------------------------------------------
(* Mutant of KeyHeld: a job in execution does not hold its key.             *)
KeyHeldWhileQueued(k) ==
  k # NoKey /\ idempotencyIndex[k] # NoId /\ jobs[idempotencyIndex[k]].state = "queued"

(* A new record; a key whose job is still live makes the call a no-op, and  *)
(* the caller is not told that its job was dropped.                         *)
KeyHeld(k) == k # NoKey /\ idempotencyIndex[k] # NoId /\ Live(idempotencyIndex[k])

Enqueue(i, s, delayed) ==
  /\ IF KeyHeld(s.key)
     THEN UNCHANGED <<spec, jobs, idempotencyIndex>>
     ELSE /\ spec' = [spec EXCEPT ![i] = s]
          /\ jobs' = [jobs EXCEPT ![i] =
                        [state |-> "queued", delayed |-> delayed, attempts |-> 0]]
          /\ idempotencyIndex' = IF s.key = NoKey THEN idempotencyIndex
                                 ELSE [idempotencyIndex EXCEPT ![s.key] = i]
  /\ UNCHANGED <<leaseLeft, deadLetter, completed>>

(* Ready jobs and leased jobs whose lease ran out, most urgent first and    *)
(* oldest first among equals.                                               *)
Dequeuable(q) ==
  {i \in Ids : /\ Live(i) /\ spec[i].queue = q
               /\ \/ jobs[i].state = "queued" /\ ~jobs[i].delayed
                  \/ jobs[i].state = "leased" /\ leaseLeft[i] = 0}

Precedes(i, j) ==
  \/ spec[i].priority < spec[j].priority
  \/ spec[i].priority = spec[j].priority /\ spec[i].createdAt <= spec[j].createdAt

Batches(q, n) ==
  {S \in SUBSET Dequeuable(q) :
     /\ Cardinality(S) = n \/ (S = Dequeuable(q) /\ Cardinality(S) < n)
     /\ \A i \in S, j \in Dequeuable(q) \ S : Precedes(i, j)}

Dequeue(S) ==
  /\ jobs' = [i \in Ids |-> IF i \in S THEN [jobs[i] EXCEPT !.state = "leased"]
                                       ELSE jobs[i]]
  /\ leaseLeft' = [i \in Ids |-> IF i \in S THEN LeaseMs ELSE leaseLeft[i]]
  /\ UNCHANGED <<spec, deadLetter, completed, idempotencyIndex>>

-----------------------------------------------------------------------------
(* removeJobRecord for every id of S: the record, its lease and the index   *)
(* entry of its key go together.                                            *)
RemoveJobRecords(S) ==
  /\ jobs' = [i \in Ids |-> IF i \in S THEN NoJob ELSE jobs[i]]
  /\ leaseLeft' = [i \in Ids |-> IF i \in S THEN 0 ELSE leaseLeft[i]]
  /\ idempotencyIndex' =
       [k \in Keys |-> IF \E i \in S : Live(i) /\ spec[i].key = k
                       THEN NoId ELSE idempotencyIndex[k]]

Ack(i) == RemoveJobRecords({i}) /\ UNCHANGED <<spec, deadLetter, completed>>

(* Mutant of MoveToDeadLetter: the live record stays.                       *)
MoveToDeadLetterKeeping(i) ==
  /\ deadLetter' = [deadLetter EXCEPT ![i].copies = @ + 1]
  /\ UNCHANGED <<spec, jobs, leaseLeft, completed, idempotencyIndex>>

(* The record is pushed whether or not the job is still live, so a second   *)
(* holder of the same job pushes a second copy.                             *)
MoveToDeadLetter(i) ==
  /\ deadLetter' = [deadLetter EXCEPT ![i].copies = @ + 1]
  /\ RemoveJobRecords({i})
  /\ UNCHANGED <<spec, completed>>

Fail(i) ==
  /\ Live(i)
  /\ jobs' = [jobs EXCEPT ![i].state = "failed"]
  /\ leaseLeft' = [leaseLeft EXCEPT ![i] = 0]
  /\ UNCHANGED <<spec, deadLetter, completed, idempotencyIndex>>

(* Mutant of ExtendLease: the state of the job is not looked at.            *)
ExtendAnyLease(i) ==
  /\ leaseLeft' = [leaseLeft EXCEPT ![i] = LeaseMs]
  /\ UNCHANGED <<spec, jobs, deadLetter, completed, idempotencyIndex>>

ExtendLease(i) ==
  /\ leaseLeft' = IF jobs[i].state = "leased"
                  THEN [leaseLeft EXCEPT ![i] = LeaseMs] ELSE leaseLeft
  /\ UNCHANGED <<spec, jobs, deadLetter, completed, idempotencyIndex>>

(* Mutant of UpdateAttempts: a missing record is written anew.              *)
UpsertAttempts(i, n) ==
  /\ jobs' = [jobs EXCEPT ![i] = [state |-> IF Live(i) THEN @.state ELSE "queued",
                                  delayed |-> @.delayed, attempts |-> n]]
  /\ UNCHANGED <<spec, leaseLeft, deadLetter, completed, idempotencyIndex>>

UpdateAttempts(i, n) ==
  /\ jobs' = IF Live(i) THEN [jobs EXCEPT ![i].attempts = n] ELSE jobs
  /\ UNCHANGED <<spec, leaseLeft, deadLetter, completed, idempotencyIndex>>

(* Only the newest HistoryCap completion records of a queue are kept.       *)
AddCompletedJob(i) ==
  LET q == spec[i].queue
      h == <<i>> \o completed[q]
  IN /\ completed' = [completed EXCEPT ![q] =
                        IF Len(h) > HistoryCap THEN SubSeq(h, 1, HistoryCap) ELSE h]
     /\ UNCHANGED <<spec, jobs, leaseLeft, deadLetter, idempotencyIndex>>

-----------------------------------------------------------------------------
(* Replay of a dead letter: a new record n without delay and without the    *)
(* idempotency key; the first dead-letter record of i is marked retried.    *)
RetryDeadLetterJob(i, n) ==
  /\ deadLetter[i].copies > 0 /\ ~deadLetter[i].retried
  /\ deadLetter' = [deadLetter EXCEPT ![i].retried = TRUE]
  /\ spec' = [spec EXCEPT ![n] = [spec[i] EXCEPT !.createdAt = Now, !.key = NoKey]]
  /\ jobs' = [jobs EXCEPT ![n] =
                [state |-> "queued", delayed |-> FALSE, attempts |-> 0]]
  /\ UNCHANGED <<leaseLeft, completed, idempotencyIndex>>

(* The promoter's primitive: it does not look at the state it overwrites.   *)
MoveJobToQueue(i, to) ==
  /\ Live(i)
  /\ jobs' = CASE to = "active" ->
                    [jobs EXCEPT ![i].state = "queued", ![i].delayed = FALSE]
               [] to = "failed"   -> [jobs EXCEPT ![i].state = "failed"]
               [] to = "deferred" -> jobs
  /\ UNCHANGED <<spec, leaseLeft, deadLetter, completed, idempotencyIndex>>

PromoteJob(i) ==
  /\ jobs[i].state = "queued" /\ jobs[i].delayed
  /\ jobs' = [jobs EXCEPT ![i].delayed = FALSE]
  /\ UNCHANGED <<spec, leaseLeft, deadLetter, completed, idempotencyIndex>>

(* removeJob: the live record, else the first dead letter, else the newest  *)
(* completion record of that id.                                            *)
DropRange(s, a, b) == SubSeq(s, 1, a - 1) \o SubSeq(s, b + 1, Len(s))

RemoveJob(i) ==
  LET q  == spec[i].queue
      at == {n \in 1..Len(completed[q]) : completed[q][n] = i}
  IN \/ Live(i) /\ Ack(i)
     \/ /\ ~Live(i) /\ deadLetter[i].copies > 0
        /\ deadLetter' = [deadLetter EXCEPT ![i] = [copies |-> @.copies - 1, retried |-> FALSE]]
        /\ UNCHANGED <<spec, jobs, leaseLeft, completed, idempotencyIndex>>
     \/ /\ ~Live(i) /\ deadLetter[i].copies = 0
        /\ \E n \in at : /\ \A m \in at : n <= m
                         /\ completed' = [completed EXCEPT ![q] = DropRange(@, n, n)]
        /\ UNCHANGED <<spec, jobs, leaseLeft, deadLetter, idempotencyIndex>>

(* cleanJobs for a set of statuses ('all' is the set of all five).  Which   *)
(* records are older than the grace period and which of them fall under the *)
(* limit is left open; completion records are dropped as one block, since   *)
(* they are kept newest first.                                              *)
Cleanable(q, status) ==
  {i \in Ids : /\ Live(i) /\ spec[i].queue = q
               /\ \/ status = "ready" /\ jobs[i].state = "queued" /\ ~jobs[i].delayed
                  \/ status = "active" /\ jobs[i].state = "leased"
                  \/ status = "deferred" /\ jobs[i].delayed}

DeadLetterTrims(q) ==
  {d \in [Ids -> [copies : 0..MaxDeadLetters, retried : BOOLEAN]] :
     \A i \in Ids :
       \/ d[i] = deadLetter[i]
       \/ /\ spec[i].queue = q /\ d[i].copies < deadLetter[i].copies
          /\ d[i].retried => deadLetter[i].retried /\ d[i].copies > 0}

CleanJobs(q, statuses) ==
  /\ \E S \in SUBSET UNION {Cleanable(q, st) : st \in statuses} : RemoveJobRecords(S)
  /\ IF "failed" \in statuses THEN deadLetter' \in DeadLetterTrims(q)
                              ELSE UNCHANGED deadLetter
  /\ IF "completed" \in statuses
     THEN \E a \in 1..Len(completed[q]) + 1 : \E b \in (a - 1)..Len(completed[q]) :
            completed' = [completed EXCEPT ![q] = DropRange(@, a, b)]
     ELSE UNCHANGED completed
  /\ UNCHANGED spec

ObliterateQueue(q) ==
  /\ RemoveJobRecords({i \in Ids : spec[i].queue = q})
  /\ deadLetter' = [i \in Ids |-> IF spec[i].queue = q
                                  THEN [copies |-> 0, retried |-> FALSE] ELSE deadLetter[i]]
  /\ completed' = [completed EXCEPT ![q] = <<>>]
  /\ UNCHANGED spec

Clear ==
  /\ jobs' = [i \in Ids |-> NoJob]
  /\ leaseLeft' = [i \in Ids |-> 0]
  /\ deadLetter' = [i \in Ids |-> [copies |-> 0, retried |-> FALSE]]
  /\ completed' = [q \in Queues |-> <<>>]
  /\ idempotencyIndex' = [k \in Keys |-> NoId]
  /\ UNCHANGED spec

-----------------------------------------------------------------------------
Statuses == {"ready", "active", "deferred", "failed", "completed"}

(* Mutant of Elapse: an expired lease goes on running down.                 *)
ElapseBelowZero == leaseLeft' = [i \in Ids |-> leaseLeft[i] - 1]

Elapse == leaseLeft' = [i \in Ids |-> IF leaseLeft[i] > 0 THEN leaseLeft[i] - 1 ELSE 0]

Tick == Elapse /\ UNCHANGED <<spec, jobs, deadLetter, completed, idempotencyIndex>>

NewSpec(q, p, k) == [queue |-> q, priority |-> p, key |-> k, createdAt |-> Now, source |-> NoId]

(* Any number of clients of one store: dispatchers, workers that may hold a *)
(* job whose lease is long gone (so every per-job call may be late), the    *)
(* promoter and the administration calls of the supervisor.                 *)
JobCall(i) ==
  \/ Ack(i)
  \/ deadLetter[i].copies < MaxDeadLetters /\ MoveToDeadLetter(i)
  \/ Fail(i)
  \/ ExtendLease(i)
  \/ \E n \in 1..MaxRecorded : UpdateAttempts(i, n)
  \/ AddCompletedJob(i)
  \/ \E to \in {"active", "deferred", "failed"} : MoveJobToQueue(i, to)
  \/ PromoteJob(i)
  \/ RemoveJob(i)

QueueCall(q) ==
  \/ \E i \in Fresh, p \in Priorities, k \in Keys \cup {NoKey}, d \in BOOLEAN :
       Enqueue(i, NewSpec(q, p, k), d)
  \/ \E n \in 1..2 : \E S \in Batches(q, n) : S # {} /\ Dequeue(S)
  \/ \E statuses \in {Statuses} \cup {{s} : s \in Statuses} : CleanJobs(q, statuses)
  \/ ObliterateQueue(q)

StoreNext ==
  \/ \E i \in Ids : Issued(i) /\ JobCall(i)
  \/ \E q \in Queues : QueueCall(q)
  \/ \E i \in Ids, n \in Fresh : RetryDeadLetterJob(i, n)
  \/ Clear \/ Tick

StoreSpec == StoreInit /\ [][StoreNext]_storeVars

-----------------------------------------------------------------------------
StoreTypeOK ==
  /\ spec \in [Ids -> Specs \cup {NoSpec}]
  /\ jobs \in [Ids -> Records]
  /\ leaseLeft \in [Ids -> 0..LeaseMs]
  /\ deadLetter \in [Ids -> [copies : Nat, retried : BOOLEAN]]
  /\ completed \in [Queues -> Seq(Ids)]
  /\ idempotencyIndex \in [Keys -> Ids \cup {NoId}]

(* At most one live job carries a given idempotency key, and the index      *)
(* names it: enqueue (line 22) relies on the index alone, while removal,    *)
(* dead-lettering, replay and cleaning all change the set of live jobs.     *)
OneLivePerKey ==
  \A i \in Ids : Live(i) /\ spec[i].key # NoKey => idempotencyIndex[spec[i].key] = i

(* A removed job leaves no lease behind, however late the heartbeat or the  *)
(* attempt counter of a former holder arrives.                              *)
NoGhostLease == \A i \in Ids : ~Live(i) => leaseLeft[i] = 0

(* No call brings a job back once its record left the map: replay and       *)
(* snoozing create records under new ids, and the late calls of a former    *)
(* holder (extendLease, updateAttempts, moveJobToQueue) find nothing.       *)
NoResurrection == [][\A i \in Ids : Issued(i) /\ ~Live(i) => ~Live(i)']_storeVars
=============================================================================
