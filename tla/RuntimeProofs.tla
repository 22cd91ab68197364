---------------------------- MODULE RuntimeProofs ----------------------------
(***************************************************************************)
(* Proofs about the store and about the runtime over it.  Of the store:    *)
(* its type, what each operation preserves, and the invariants of the      *)
(* in-memory store under arbitrary clients, for any sets of ids, queues    *)
(* and keys: keys are exclusive, removed jobs leave no lease, and no       *)
(* removed job comes back.  Of JobRuntime, for any set of workers, lanes   *)
(* and jobs and any configuration its assumptions allow: types, leases,    *)
(* that no accepted job disappears, whichever lanes hold it and whichever  *)
(* awaits reject, that JobRuntime implements Delivery, and that a job no   *)
(* two lanes shared has one outcome.                                       *)
(***************************************************************************)
EXTENDS JobRuntime, FiniteSetTheorems, TLAPS

(* The rank given to a new job is a natural number.                         *)
LEMMA NowType == Now \in Nat
<1>1. IsFiniteSet({i \in Ids : Issued(i)})
  BY ConstantsOK, FS_Subset DEF ConstantsOK
<1> QED BY <1>1, FS_CardinalityType DEF Now

(* The fields of a dispatched job are well typed.                           *)
LEMMA NewSpecType ==
  ASSUME NEW q \in Queues, NEW p \in Priorities, NEW k \in Keys \cup {NoKey}
  PROVE  NewSpec(q, p, k) \in Specs
BY NowType, ConstantsOK DEF NewSpec, Specs, ConstantsOK

(* The records that operations write are well typed.                        *)
LEMMA QueuedRecord ==
  ASSUME NEW d \in BOOLEAN
  PROVE  [state |-> "queued", delayed |-> d, attempts |-> 0] \in Records
<1>1. 0 \in Nat
  OBVIOUS
<1> QED BY <1>1, Zenon DEF Records

LEMMA RestatedRecord ==
  ASSUME NEW r \in Records, NEW st \in {"none", "queued", "leased", "failed"}
  PROVE  [r EXCEPT !.state = st] \in Records
BY DEF Records

(* Only a job that was enqueued has fields, and then they are well typed.   *)
LEMMA IssuedSpec ==
  ASSUME StoreTypeOK, NEW i \in Ids, Issued(i)
  PROVE  spec[i] \in Specs
BY DEF StoreTypeOK, Issued, NoSpec

LEMMA InitType == StoreInit => StoreTypeOK
BY ConstantsOK DEF StoreInit, StoreTypeOK, NoJob, Records, ConstantsOK

LEMMA EnqueueType ==
  ASSUME StoreTypeOK, NEW i \in Ids, NEW s \in Specs, NEW d \in BOOLEAN, Enqueue(i, s, d)
  PROVE  StoreTypeOK'
<1>1. CASE KeyHeld(s.key)
  BY <1>1 DEF Enqueue, StoreTypeOK
<1>2. CASE ~KeyHeld(s.key)
  <2>1. spec' \in [Ids -> Specs \cup {NoSpec}]
    BY <1>2 DEF Enqueue, StoreTypeOK
  <2>2. jobs' \in [Ids -> Records]
    BY <1>2, QueuedRecord DEF Enqueue, StoreTypeOK
  <2>3. idempotencyIndex' \in [Keys -> Ids \cup {NoId}]
    BY <1>2 DEF Enqueue, StoreTypeOK
  <2> QED BY <2>1, <2>2, <2>3 DEF Enqueue, StoreTypeOK
<1> QED BY <1>1, <1>2

LEMMA DequeueType ==
  ASSUME StoreTypeOK, NEW S \in SUBSET Ids, Dequeue(S)
  PROVE  StoreTypeOK'
<1>1. jobs' \in [Ids -> Records]
  BY RestatedRecord DEF Dequeue, StoreTypeOK
<1>2. leaseLeft' \in [Ids -> 0..LeaseMs]
  BY ConstantsOK DEF Dequeue, StoreTypeOK, ConstantsOK
<1> QED BY <1>1, <1>2 DEF Dequeue, StoreTypeOK

LEMMA RemoveType ==
  ASSUME StoreTypeOK, NEW S \in SUBSET Ids, RemoveJobRecords(S)
  PROVE  /\ jobs' \in [Ids -> Records]
         /\ leaseLeft' \in [Ids -> 0..LeaseMs]
         /\ idempotencyIndex' \in [Keys -> Ids \cup {NoId}]
BY ConstantsOK DEF RemoveJobRecords, StoreTypeOK, NoJob, Records, ConstantsOK

LEMMA AckType ==
  ASSUME StoreTypeOK, NEW i \in Ids, Ack(i)
  PROVE  StoreTypeOK'
BY RemoveType DEF Ack, StoreTypeOK

LEMMA MoveToDeadLetterType ==
  ASSUME StoreTypeOK, NEW i \in Ids, MoveToDeadLetter(i)
  PROVE  StoreTypeOK'
<1> DEFINE more == [deadLetter[i] EXCEPT !.copies = @ + 1]
<1>1. deadLetter[i].copies + 1 \in Nat
  BY DEF StoreTypeOK
<1>2. more \in [copies : Nat, retried : BOOLEAN]
  BY <1>1, Zenon DEF StoreTypeOK
<1>3. deadLetter' = [deadLetter EXCEPT ![i] = more]
  BY DEF MoveToDeadLetter
<1>4. deadLetter' \in [Ids -> [copies : Nat, retried : BOOLEAN]]
  BY <1>2, <1>3 DEF StoreTypeOK
<1> QED BY <1>4, RemoveType DEF MoveToDeadLetter, StoreTypeOK

LEMMA FailType ==
  ASSUME StoreTypeOK, NEW i \in Ids, Fail(i)
  PROVE  StoreTypeOK'
<1>1. jobs' = [jobs EXCEPT ![i] = [@ EXCEPT !.state = "failed"]]
  BY DEF Fail
<1>2. jobs' \in [Ids -> Records]
  BY <1>1, RestatedRecord DEF StoreTypeOK
<1>3. leaseLeft' \in [Ids -> 0..LeaseMs]
  BY ConstantsOK DEF Fail, StoreTypeOK, ConstantsOK
<1> QED BY <1>2, <1>3 DEF Fail, StoreTypeOK

LEMMA ExtendLeaseType ==
  ASSUME StoreTypeOK, NEW i \in Ids, ExtendLease(i)
  PROVE  StoreTypeOK'
BY ConstantsOK DEF ExtendLease, StoreTypeOK, ConstantsOK

LEMMA UpdateAttemptsType ==
  ASSUME StoreTypeOK, NEW i \in Ids, NEW n \in Nat, UpdateAttempts(i, n)
  PROVE  StoreTypeOK'
BY DEF UpdateAttempts, StoreTypeOK, Records

(* Prepending a record and cutting the list off leaves a list of ids.       *)
LEMMA AddCompletedJobType ==
  ASSUME StoreTypeOK, NEW i \in Ids, Issued(i), AddCompletedJob(i)
  PROVE  StoreTypeOK'
<1> DEFINE q == spec[i].queue
           h == <<i>> \o completed[q]
<1>1. q \in Queues
  BY IssuedSpec DEF Specs
<1>2. h \in Seq(Ids)
  BY <1>1 DEF StoreTypeOK
<1>3. Len(h) > HistoryCap => SubSeq(h, 1, HistoryCap) \in Seq(Ids)
  BY <1>2, ConstantsOK DEF ConstantsOK
<1>4. completed' \in [Queues -> Seq(Ids)]
  BY <1>1, <1>2, <1>3 DEF AddCompletedJob, StoreTypeOK
<1> QED BY <1>4 DEF AddCompletedJob, StoreTypeOK

LEMMA RetryDeadLetterJobType ==
  ASSUME StoreTypeOK, NEW i \in Ids, NEW n \in Ids, Issued(i), RetryDeadLetterJob(i, n)
  PROVE  StoreTypeOK'
<1>1. [spec[i] EXCEPT !.createdAt = Now, !.key = NoKey] \in Specs
  BY IssuedSpec, NowType DEF Specs
<1>2. spec' \in [Ids -> Specs \cup {NoSpec}]
  BY <1>1 DEF RetryDeadLetterJob, StoreTypeOK
<1>3. jobs' \in [Ids -> Records]
  BY QueuedRecord DEF RetryDeadLetterJob, StoreTypeOK
<1>4. deadLetter' \in [Ids -> [copies : Nat, retried : BOOLEAN]]
  BY DEF RetryDeadLetterJob, StoreTypeOK
<1> QED BY <1>2, <1>3, <1>4 DEF RetryDeadLetterJob, StoreTypeOK

LEMMA PromoteJobType ==
  ASSUME StoreTypeOK, NEW i \in Ids, PromoteJob(i)
  PROVE  StoreTypeOK'
BY DEF PromoteJob, StoreTypeOK, Records

LEMMA ElapseType ==
  ASSUME StoreTypeOK, Elapse, UNCHANGED <<spec, jobs, deadLetter, completed, idempotencyIndex>>
  PROVE  StoreTypeOK'
<1>1. leaseLeft' \in [Ids -> 0..LeaseMs]
  BY ConstantsOK DEF Elapse, StoreTypeOK, ConstantsOK
<1> QED BY <1>1 DEF StoreTypeOK

-----------------------------------------------------------------------------
(* Records exist only of jobs that were enqueued.                           *)
OnlyIssued == \A i \in Ids : Live(i) \/ deadLetter[i].copies > 0 => Issued(i)

(* What the calls of the runtime keep: records exist only of enqueued jobs, *)
(* and a job once enqueued stays known.                                     *)
KeepsIssued == OnlyIssued' /\ \A j \in Ids : Issued(j) => Issued(j)'

LEMMA EnqueueIssued ==
  ASSUME StoreTypeOK, OnlyIssued, NEW i \in Ids, NEW s \in Specs, NEW d \in BOOLEAN,
         Enqueue(i, s, d)
  PROVE  KeepsIssued
<1>1. s.queue # NoQueue
  BY ConstantsOK DEF Specs, ConstantsOK
<1> QED BY <1>1 DEF Enqueue, StoreTypeOK, OnlyIssued, KeepsIssued, Issued, Live

LEMMA DequeueIssued ==
  ASSUME StoreTypeOK, OnlyIssued, NEW S \in SUBSET Ids, Dequeue(S),
         \A i \in S : Live(i)
  PROVE  KeepsIssued
BY DEF Dequeue, StoreTypeOK, OnlyIssued, KeepsIssued, Issued, Live

LEMMA RemoveIssued ==
  ASSUME StoreTypeOK, OnlyIssued, NEW S \in SUBSET Ids, RemoveJobRecords(S),
         UNCHANGED <<spec, deadLetter>>
  PROVE  KeepsIssued
BY DEF RemoveJobRecords, StoreTypeOK, OnlyIssued, KeepsIssued, Issued, Live, NoJob

LEMMA AckIssued ==
  ASSUME StoreTypeOK, OnlyIssued, NEW i \in Ids, Ack(i)
  PROVE  KeepsIssued
BY RemoveIssued DEF Ack

LEMMA MoveToDeadLetterIssued ==
  ASSUME StoreTypeOK, OnlyIssued, NEW i \in Ids, Issued(i), MoveToDeadLetter(i)
  PROVE  KeepsIssued
BY DEF MoveToDeadLetter, RemoveJobRecords, StoreTypeOK, OnlyIssued, KeepsIssued, Issued,
       Live, NoJob

LEMMA SameStateIssued ==
  ASSUME StoreTypeOK, OnlyIssued, UNCHANGED <<spec, deadLetter>>,
         \A j \in Ids : Live(j)' => Live(j)
  PROVE  KeepsIssued
BY DEF OnlyIssued, KeepsIssued, Issued

LEMMA UpdateAttemptsIssued ==
  ASSUME StoreTypeOK, OnlyIssued, NEW i \in Ids, NEW n \in Nat, UpdateAttempts(i, n)
  PROVE  KeepsIssued
BY SameStateIssued DEF UpdateAttempts, StoreTypeOK, Live, Records

LEMMA RetryDeadLetterJobIssued ==
  ASSUME StoreTypeOK, OnlyIssued, NEW i \in Ids, NEW n \in Ids, RetryDeadLetterJob(i, n)
  PROVE  KeepsIssued /\ Issued(i)
<1>1. Issued(i) /\ spec[i].queue # NoQueue
  BY DEF RetryDeadLetterJob, OnlyIssued, Issued
<1>2. spec'[n].queue = spec[i].queue
  BY <1>1, IssuedSpec DEF RetryDeadLetterJob, StoreTypeOK, Specs
<1>3. \A j \in Ids \ {n} : spec'[j] = spec[j] /\ jobs'[j] = jobs[j]
                           /\ (deadLetter'[j].copies > 0 => deadLetter[j].copies > 0)
  BY DEF RetryDeadLetterJob, StoreTypeOK
<1> QED BY <1>1, <1>2, <1>3 DEF OnlyIssued, KeepsIssued, Issued, Live

LEMMA PromoteJobIssued ==
  ASSUME StoreTypeOK, OnlyIssued, NEW i \in Ids, PromoteJob(i)
  PROVE  KeepsIssued
BY SameStateIssued DEF PromoteJob, StoreTypeOK, Live, Records
-----------------------------------------------------------------------------

(* The two invariants lean on each other's facts: a fresh id has no record, *)
(* therefore no lease; a key that is not held has no live job.              *)
Safe == OneLivePerKey /\ NoGhostLease
SInv == StoreTypeOK /\ OnlyIssued /\ Safe

Gone == \A i \in Ids : Issued(i) /\ ~Live(i) => ~Live(i)'

-----------------------------------------------------------------------------
(* Calls that neither make nor remove records.                              *)
LEMMA SameRecordsSafe ==
  ASSUME Safe, UNCHANGED <<spec, idempotencyIndex>>,
         \A j \in Ids : Live(j)' <=> Live(j),
         \A j \in Ids : ~Live(j) => leaseLeft'[j] = leaseLeft[j]
  PROVE  Safe' /\ Gone
BY DEF Safe, Gone, OneLivePerKey, NoGhostLease

LEMMA SameRecordsIssued ==
  ASSUME OnlyIssued, UNCHANGED spec,
         \A j \in Ids : Live(j)' => Live(j),
         \A j \in Ids : deadLetter'[j].copies > 0 => deadLetter[j].copies > 0 \/ Issued(j)
  PROVE  OnlyIssued'
BY DEF OnlyIssued, Issued

(* removeJobRecord takes the index entry of a key with the job it names.    *)
LEMMA RemoveSafe ==
  ASSUME StoreTypeOK, Safe, NEW S \in SUBSET Ids, RemoveJobRecords(S), UNCHANGED spec
  PROVE  /\ Safe' /\ Gone
         /\ \A j \in Ids : Live(j)' => Live(j)
<1>1. \A j \in Ids : Live(j)' <=> Live(j) /\ j \notin S
  BY DEF RemoveJobRecords, Live, NoJob
<1>2. NoGhostLease'
  BY <1>1 DEF RemoveJobRecords, Safe, NoGhostLease
<1>3. OneLivePerKey'
  <2> SUFFICES ASSUME NEW j \in Ids, Live(j)', spec'[j].key # NoKey
               PROVE  idempotencyIndex'[spec'[j].key] = j
    BY DEF OneLivePerKey
  <2>1. Live(j) /\ j \notin S /\ spec'[j] = spec[j]
    BY <1>1
  <2>2. idempotencyIndex[spec[j].key] = j
    BY <2>1 DEF Safe, OneLivePerKey
  <2>3. \A i \in S : ~(Live(i) /\ spec[i].key = spec[j].key)
    BY <2>1, <2>2 DEF Safe, OneLivePerKey
  <2>4. spec[j].key \in Keys
    BY <2>1 DEF StoreTypeOK, Specs, NoSpec
  <2> QED BY <2>1, <2>2, <2>3, <2>4 DEF RemoveJobRecords
<1> QED BY <1>1, <1>2, <1>3 DEF Safe, Gone

(* Only an id that was never issued gets a record, and no other live job    *)
(* has its key.                                                             *)
LEMMA EnqueueSafe ==
  ASSUME SInv, NEW i \in Ids, ~Issued(i), NEW s \in Specs, NEW d \in BOOLEAN, Enqueue(i, s, d)
  PROVE  Safe' /\ Gone
<1>1. CASE KeyHeld(s.key)
  BY <1>1, SameRecordsSafe DEF Enqueue, SInv, Live
<1>2. CASE ~KeyHeld(s.key)
  <2>1. \A j \in Ids \ {i} : spec'[j] = spec[j] /\ jobs'[j] = jobs[j]
    BY <1>2 DEF Enqueue, SInv, StoreTypeOK
  <2>2. spec'[i] = s /\ ~Live(i)
    BY <1>2 DEF Enqueue, SInv, StoreTypeOK, OnlyIssued
  <2>3. NoGhostLease'
    BY <2>1, <2>2 DEF Enqueue, SInv, Safe, NoGhostLease, Live
  <2>4. ASSUME NEW j \in Ids, Live(j)', spec'[j].key # NoKey
        PROVE  idempotencyIndex'[spec'[j].key] = j
    <3>1. CASE j = i
      BY <1>2, <2>2, <2>4, <3>1 DEF Enqueue, SInv, StoreTypeOK, Specs
    <3>2. CASE j # i
      <4>1. Live(j) /\ idempotencyIndex[spec[j].key] = j
        BY <2>1, <2>4, <3>2 DEF SInv, Safe, OneLivePerKey, Live
      <4>2. spec[j].key # s.key
        BY <1>2, <2>1, <2>4, <3>2, <4>1, ConstantsOK DEF KeyHeld, ConstantsOK
      <4>3. spec[j].key \in Keys
        <5>1. Issued(j)
          BY <4>1 DEF SInv, OnlyIssued
        <5>2. spec[j] \in Specs
          BY <5>1, IssuedSpec DEF SInv
        <5>3. spec[j].key # NoKey
          BY <2>1, <2>4, <3>2
        <5> QED BY <5>2, <5>3 DEF Specs
      <4>4. idempotencyIndex \in [Keys -> Ids \cup {NoId}]
        BY DEF SInv, StoreTypeOK
      <4>5. idempotencyIndex'[spec[j].key] = idempotencyIndex[spec[j].key]
        BY <1>2, <4>2, <4>3, <4>4 DEF Enqueue
      <4> QED BY <2>1, <3>2, <4>1, <4>5
    <3> QED BY <3>1, <3>2
  <2>5. Gone
    BY <2>1 DEF Gone, Live, Issued
  <2> QED BY <2>3, <2>4, <2>5 DEF Safe, OneLivePerKey
<1> QED BY <1>1, <1>2

LEMMA RetryDeadLetterJobSafe ==
  ASSUME SInv, NEW i \in Ids, NEW n \in Ids, ~Issued(n), RetryDeadLetterJob(i, n)
  PROVE  Safe' /\ Gone
<1>1. \A j \in Ids \ {n} : spec'[j] = spec[j] /\ jobs'[j] = jobs[j]
  BY DEF RetryDeadLetterJob, SInv, StoreTypeOK
<1>2. spec'[n].key = NoKey
  <2>1. Issued(i)
    BY DEF RetryDeadLetterJob, SInv, OnlyIssued
  <2>2. spec[i] \in Specs
    BY <2>1, IssuedSpec DEF SInv
  <2> QED BY <2>2 DEF RetryDeadLetterJob, SInv, StoreTypeOK, Specs
<1>3. ~Live(n)
  BY DEF SInv, OnlyIssued
<1>4. NoGhostLease'
  BY <1>1, <1>3 DEF RetryDeadLetterJob, SInv, Safe, NoGhostLease, Live
<1>5. OneLivePerKey'
  BY <1>1, <1>2 DEF RetryDeadLetterJob, SInv, Safe, OneLivePerKey, Live
<1>6. Gone
  BY <1>1 DEF Gone, Live, Issued
<1> QED BY <1>4, <1>5, <1>6 DEF Safe

-----------------------------------------------------------------------------
(* A block cut out of a list of ids leaves a list of ids.                   *)
LEMMA DropRangeType ==
  ASSUME NEW s \in Seq(Ids), NEW a \in 1..Len(s) + 1, NEW b \in (a - 1)..Len(s)
  PROVE  DropRange(s, a, b) \in Seq(Ids)
<1>1. SubSeq(s, 1, a - 1) \in Seq(Ids)
  OBVIOUS
<1>2. SubSeq(s, b + 1, Len(s)) \in Seq(Ids)
  OBVIOUS
<1> QED BY <1>1, <1>2 DEF DropRange

LEMMA RemoveJobType ==
  ASSUME StoreTypeOK, NEW i \in Ids, Issued(i), RemoveJob(i)
  PROVE  StoreTypeOK'
<1> DEFINE q  == spec[i].queue
           at == {n \in 1..Len(completed[q]) : completed[q][n] = i}
<1>1. q \in Queues /\ completed[q] \in Seq(Ids)
  BY IssuedSpec DEF Specs, StoreTypeOK
<1>2. CASE Ack(i)
  BY <1>2, AckType
<1>3. CASE /\ deadLetter[i].copies > 0
           /\ deadLetter' = [deadLetter EXCEPT ![i] = [copies |-> @.copies - 1, retried |-> FALSE]]
           /\ UNCHANGED <<spec, jobs, leaseLeft, completed, idempotencyIndex>>
  <2>1. deadLetter[i].copies - 1 \in Nat
    BY <1>3 DEF StoreTypeOK
  <2>2. deadLetter' \in [Ids -> [copies : Nat, retried : BOOLEAN]]
    BY <1>3, <2>1 DEF StoreTypeOK
  <2> QED BY <1>3, <2>2 DEF StoreTypeOK
<1>4. CASE /\ \E n \in at : completed' = [completed EXCEPT ![q] = DropRange(@, n, n)]
           /\ UNCHANGED <<spec, jobs, leaseLeft, deadLetter, idempotencyIndex>>
  <2>1. PICK n \in at : completed' = [completed EXCEPT ![q] = DropRange(completed[q], n, n)]
    BY <1>4
  <2>2. n \in 1..Len(completed[q]) + 1 /\ n \in (n - 1)..Len(completed[q])
    BY <1>1
  <2>3. DropRange(completed[q], n, n) \in Seq(Ids)
    BY <1>1, <2>2, DropRangeType
  <2> QED BY <1>1, <1>4, <2>1, <2>3 DEF StoreTypeOK
<1> QED BY <1>2, <1>3, <1>4 DEF RemoveJob

LEMMA CleanJobsType ==
  ASSUME StoreTypeOK, NEW q \in Queues, NEW statuses \in SUBSET Statuses, CleanJobs(q, statuses)
  PROVE  StoreTypeOK'
<1>1. /\ jobs' \in [Ids -> Records] /\ leaseLeft' \in [Ids -> 0..LeaseMs]
      /\ idempotencyIndex' \in [Keys -> Ids \cup {NoId}]
  BY RemoveType DEF CleanJobs, Cleanable
<1>2. deadLetter' \in [Ids -> [copies : Nat, retried : BOOLEAN]]
  BY ConstantsOK DEF CleanJobs, DeadLetterTrims, StoreTypeOK, ConstantsOK
<1>3. completed' \in [Queues -> Seq(Ids)]
  <2>1. CASE "completed" \notin statuses
    BY <2>1 DEF CleanJobs, StoreTypeOK
  <2>2. CASE "completed" \in statuses
    <3>1. completed[q] \in Seq(Ids)
      BY DEF StoreTypeOK
    <3>2. PICK a \in 1..Len(completed[q]) + 1 : \E b \in (a - 1)..Len(completed[q]) :
            completed' = [completed EXCEPT ![q] = DropRange(completed[q], a, b)]
      BY <2>2 DEF CleanJobs
    <3>3. PICK b \in (a - 1)..Len(completed[q]) :
            completed' = [completed EXCEPT ![q] = DropRange(completed[q], a, b)]
      BY <3>2
    <3>4. DropRange(completed[q], a, b) \in Seq(Ids)
      BY <3>1, DropRangeType
    <3> QED BY <3>3, <3>4 DEF StoreTypeOK
  <2> QED BY <2>1, <2>2
<1> QED BY <1>1, <1>2, <1>3 DEF CleanJobs, StoreTypeOK
-----------------------------------------------------------------------------
LEMMA InitSafe == StoreInit => SInv
<1> SUFFICES ASSUME StoreInit PROVE SInv
  OBVIOUS
<1>1. \A i \in Ids : ~Live(i) /\ deadLetter[i].copies = 0 /\ leaseLeft[i] = 0
  BY DEF StoreInit, Live, NoJob
<1> QED BY <1>1, InitType DEF SInv, OnlyIssued, Safe, OneLivePerKey, NoGhostLease

(* A call about one job, however late.                                      *)
LEMMA JobCallSafe ==
  ASSUME SInv, NEW i \in Ids, Issued(i), JobCall(i)
  PROVE  SInv' /\ Gone
<1> USE DEF SInv
<1>1. CASE Ack(i)
  BY <1>1, AckType, AckIssued, RemoveSafe DEF Ack, KeepsIssued
<1>2. CASE MoveToDeadLetter(i)
  BY <1>2, MoveToDeadLetterType, MoveToDeadLetterIssued, RemoveSafe DEF MoveToDeadLetter, KeepsIssued
<1>3. CASE Fail(i)
  <2>1. /\ \A j \in Ids : Live(j)' <=> Live(j)
        /\ \A j \in Ids : ~Live(j) => leaseLeft'[j] = leaseLeft[j]
    BY <1>3 DEF Fail, Live, StoreTypeOK
  <2> QED BY <1>3, <2>1, FailType, SameRecordsSafe, SameRecordsIssued DEF Fail
<1>4. CASE ExtendLease(i)
  <2>1. /\ \A j \in Ids : Live(j)' <=> Live(j)
        /\ \A j \in Ids : ~Live(j) => leaseLeft'[j] = leaseLeft[j]
    BY <1>4 DEF ExtendLease, Live, StoreTypeOK
  <2> QED BY <1>4, <2>1, ExtendLeaseType, SameRecordsSafe, SameRecordsIssued DEF ExtendLease
<1>5. CASE \E n \in 1..MaxRecorded : UpdateAttempts(i, n)
  <2>1. PICK n \in Nat : UpdateAttempts(i, n)
    BY <1>5
  <2>2. \A j \in Ids : Live(j)' <=> Live(j)
    BY <2>1 DEF UpdateAttempts, Live, StoreTypeOK, Records
  <2> QED BY <2>1, <2>2, UpdateAttemptsType, SameRecordsSafe, SameRecordsIssued DEF UpdateAttempts
<1>6. CASE AddCompletedJob(i)
  <2>1. \A j \in Ids : Live(j)' <=> Live(j)
    BY <1>6 DEF AddCompletedJob, Live
  <2> QED BY <1>6, <2>1, AddCompletedJobType, SameRecordsSafe, SameRecordsIssued DEF AddCompletedJob
<1>7. CASE \E to \in {"active", "deferred", "failed"} : MoveJobToQueue(i, to)
  <2>1. PICK to \in {"active", "deferred", "failed"} : MoveJobToQueue(i, to)
    BY <1>7
  <2>2. /\ jobs' \in [Ids -> Records]
        /\ \A j \in Ids : Live(j)' <=> Live(j)
    <3>1. CASE to = "active"
      BY <2>1, <3>1, ZenonT(60) DEF MoveJobToQueue, Live, StoreTypeOK, Records
    <3>2. CASE to = "failed"
      BY <2>1, <3>2 DEF MoveJobToQueue, Live, StoreTypeOK, Records
    <3>3. CASE to = "deferred"
      BY <2>1, <3>3 DEF MoveJobToQueue, Live, StoreTypeOK
    <3> QED BY <3>1, <3>2, <3>3
  <2>3. StoreTypeOK'
    BY <2>1, <2>2 DEF MoveJobToQueue, StoreTypeOK
  <2> QED BY <2>1, <2>2, <2>3, SameRecordsSafe, SameRecordsIssued DEF MoveJobToQueue
<1>8. CASE PromoteJob(i)
  <2>1. \A j \in Ids : Live(j)' <=> Live(j)
    BY <1>8 DEF PromoteJob, Live, StoreTypeOK, Records
  <2> QED BY <1>8, <2>1, PromoteJobType, SameRecordsSafe, SameRecordsIssued DEF PromoteJob
<1>9. CASE RemoveJob(i)
  <2>1. StoreTypeOK'
    BY <1>9, RemoveJobType
  <2>2. CASE Ack(i)
    BY <2>2, <1>1
  <2>3. CASE ~Ack(i)
    <3>1. /\ UNCHANGED <<spec, jobs, leaseLeft, idempotencyIndex>>
          /\ \A j \in Ids : deadLetter'[j].copies > 0 => deadLetter[j].copies > 0 \/ Issued(j)
      BY <1>9, <2>3 DEF RemoveJob, StoreTypeOK
    <3>2. \A j \in Ids : Live(j)' <=> Live(j)
      BY <3>1 DEF Live
    <3> QED BY <2>1, <3>1, <3>2, SameRecordsSafe, SameRecordsIssued
  <2> QED BY <2>2, <2>3
<1> QED BY <1>1, <1>2, <1>3, <1>4, <1>5, <1>6, <1>7, <1>8, <1>9 DEF JobCall

(* A call about a queue.                                                    *)
LEMMA QueueCallSafe ==
  ASSUME SInv, NEW q \in Queues, QueueCall(q)
  PROVE  SInv' /\ Gone
<1> USE DEF SInv
<1>1. CASE \E i \in Fresh, p \in Priorities, k \in Keys \cup {NoKey}, d \in BOOLEAN :
             Enqueue(i, NewSpec(q, p, k), d)
  <2>1. PICK i \in Fresh, p \in Priorities, k \in Keys \cup {NoKey}, d \in BOOLEAN :
          Enqueue(i, NewSpec(q, p, k), d)
    BY <1>1
  <2>2. i \in Ids /\ ~Issued(i) /\ NewSpec(q, p, k) \in Specs
    BY NewSpecType DEF Fresh
  <2> QED BY <2>1, <2>2, EnqueueType, EnqueueIssued, EnqueueSafe DEF KeepsIssued
<1>2. CASE \E n \in 1..2 : \E S \in Batches(q, n) : S # {} /\ Dequeue(S)
  <2>1. PICK S \in SUBSET Ids : (\A i \in S : Live(i)) /\ Dequeue(S)
    BY <1>2 DEF Batches, Dequeuable
  <2>2. /\ \A j \in Ids : Live(j)' <=> Live(j)
        /\ \A j \in Ids : ~Live(j) => leaseLeft'[j] = leaseLeft[j]
    BY <2>1 DEF Dequeue, Live, StoreTypeOK, Records
  <2> QED BY <2>1, <2>2, DequeueType, SameRecordsSafe, SameRecordsIssued DEF Dequeue
<1>3. CASE \E statuses \in {Statuses} \cup {{s} : s \in Statuses} : CleanJobs(q, statuses)
  <2>1. PICK statuses \in SUBSET Statuses : CleanJobs(q, statuses)
    BY <1>3
  <2>2. PICK S \in SUBSET Ids : RemoveJobRecords(S)
    BY <2>1 DEF CleanJobs, Cleanable
  <2>3. StoreTypeOK'
    BY <2>1, CleanJobsType
  <2>4. UNCHANGED spec
    BY <2>1 DEF CleanJobs
  <2>5. \A j \in Ids : deadLetter'[j].copies > 0 => deadLetter[j].copies > 0
    <3>1. CASE "failed" \notin statuses
      BY <2>1, <3>1 DEF CleanJobs
    <3>2. CASE "failed" \in statuses
      <4> SUFFICES ASSUME NEW j \in Ids, deadLetter'[j].copies > 0 PROVE deadLetter[j].copies > 0
        OBVIOUS
      <4>1. deadLetter' \in DeadLetterTrims(q)
        BY <2>1, <3>2 DEF CleanJobs
      <4>2. deadLetter'[j] = deadLetter[j] \/ deadLetter'[j].copies < deadLetter[j].copies
        BY <4>1 DEF DeadLetterTrims
      <4>3. deadLetter'[j].copies \in Nat /\ deadLetter[j].copies \in Nat
        BY <2>3 DEF StoreTypeOK
      <4> QED BY <4>2, <4>3
    <3> QED BY <3>1, <3>2
  <2> QED BY <2>2, <2>3, <2>4, <2>5, RemoveSafe, SameRecordsIssued
<1>4. CASE ObliterateQueue(q)
  <2>1. RemoveJobRecords({i \in Ids : spec[i].queue = q}) /\ UNCHANGED spec
    BY <1>4 DEF ObliterateQueue
  <2>2. StoreTypeOK'
    BY <1>4, <2>1, RemoveType DEF ObliterateQueue, StoreTypeOK
  <2>3. \A j \in Ids : deadLetter'[j].copies > 0 => deadLetter[j].copies > 0
    BY <1>4 DEF ObliterateQueue
  <2> QED BY <2>1, <2>2, <2>3, RemoveSafe, SameRecordsIssued
<1> QED BY <1>1, <1>2, <1>3, <1>4 DEF QueueCall

LEMMA RetrySafe ==
  ASSUME SInv, NEW i \in Ids, NEW n \in Fresh, RetryDeadLetterJob(i, n)
  PROVE  SInv' /\ Gone
<1>1. n \in Ids /\ ~Issued(n)
  BY DEF Fresh
<1>2. OnlyIssued' /\ Issued(i)
  BY <1>1, RetryDeadLetterJobIssued DEF SInv, KeepsIssued
<1> QED BY <1>1, <1>2, RetryDeadLetterJobType, RetryDeadLetterJobSafe DEF SInv

LEMMA ClearSafe ==
  ASSUME SInv, Clear
  PROVE  SInv' /\ Gone
<1>1. \A i \in Ids : ~Live(i)' /\ deadLetter'[i].copies = 0 /\ leaseLeft'[i] = 0
  BY DEF Clear, Live, NoJob
<1>2. StoreTypeOK'
  BY ConstantsOK DEF Clear, SInv, StoreTypeOK, NoJob, Records, ConstantsOK
<1> QED BY <1>1, <1>2 DEF SInv, OnlyIssued, Safe, OneLivePerKey, NoGhostLease, Gone

LEMMA TickSafe ==
  ASSUME SInv, Tick
  PROVE  SInv' /\ Gone
<1>1. /\ \A j \in Ids : Live(j)' <=> Live(j)
      /\ \A j \in Ids : ~Live(j) => leaseLeft'[j] = leaseLeft[j]
  BY DEF Tick, Elapse, Live, SInv, Safe, NoGhostLease
<1> QED BY <1>1, ElapseType, SameRecordsSafe, SameRecordsIssued DEF Tick, SInv

LEMMA StepSafe ==
  ASSUME SInv, [StoreNext]_storeVars
  PROVE  SInv' /\ (Gone \/ UNCHANGED storeVars)
<1>1. CASE UNCHANGED storeVars
  BY <1>1 DEF storeVars, SInv, StoreTypeOK, OnlyIssued, Safe, OneLivePerKey, NoGhostLease, Live, Issued
<1>2. ASSUME NEW i \in Ids, Issued(i), JobCall(i) PROVE SInv' /\ Gone
  BY <1>2, JobCallSafe
<1>3. ASSUME NEW q \in Queues, QueueCall(q) PROVE SInv' /\ Gone
  BY <1>3, QueueCallSafe
<1>4. ASSUME NEW i \in Ids, NEW n \in Fresh, RetryDeadLetterJob(i, n) PROVE SInv' /\ Gone
  BY <1>4, RetrySafe
<1> QED BY <1>1, <1>2, <1>3, <1>4, ClearSafe, TickSafe DEF StoreNext

-----------------------------------------------------------------------------
(* Whatever calls the clients of a store make and however late: its types   *)
(* hold, with the invariants the others rest on.                            *)
THEOREM StoreInvariant == StoreSpec => []SInv
<1>1. StoreInit => SInv
  BY InitSafe
<1>2. SInv /\ [StoreNext]_storeVars => SInv'
  BY StepSafe
<1> QED BY <1>1, <1>2, PTL DEF StoreSpec

(* At most one live job carries an idempotency key, and the index names it, *)
(* through any sequence of enqueues, settlements, replays and removals.     *)
THEOREM KeysExclusive == StoreSpec => []OneLivePerKey
<1>1. SInv => OneLivePerKey
  BY DEF SInv, Safe
<1> QED BY <1>1, StoreInvariant, PTL

(* A removed job leaves no lease behind, however late a renewal arrives.    *)
THEOREM LeaseGoesToo == StoreSpec => []NoGhostLease
<1>1. SInv => NoGhostLease
  BY DEF SInv, Safe
<1> QED BY <1>1, StoreInvariant, PTL

(* A job whose record left the store never has one again: the late calls of *)
(* former holders find nothing to write to.                                 *)
THEOREM RemovedForever == StoreSpec => NoResurrection
<1>1. SInv /\ [StoreNext]_storeVars =>
        [\A i \in Ids : Issued(i) /\ ~Live(i) => ~Live(i)']_storeVars
  BY StepSafe DEF Gone
<1> QED BY <1>1, StoreInvariant, PTL DEF StoreSpec, NoResurrection

-----------------------------------------------------------------------------
(* The runtime.                                                             *)
LEMMA QueueKnown == Queue \in Queues
BY RuntimeConstantsOK DEF RuntimeConstantsOK

LEMMA HalfLeaseType == HalfLease \in Nat \ {0} /\ HalfLease < LeaseMs
BY ConstantsOK, RuntimeConstantsOK DEF ConstantsOK, RuntimeConstantsOK, HalfLease

-----------------------------------------------------------------------------
(* A lease heartbeat beats exactly as long as an attempt is running.        *)
BeatsWhileRunning == \A x \in Lanes : beat[x] # "off" <=> pc[x] = "running"

(* Types.  The strengthening they need: records exist only of jobs that     *)
(* were enqueued (a replayed or leased job has fields), and a heartbeat     *)
(* belongs to a running attempt (it renews the lease of a job).             *)
TypeInv == RuntimeTypeOK /\ OnlyIssued /\ BeatsWhileRunning

LEMMA TypeInit == Init => TypeInv
<1> SUFFICES ASSUME Init PROVE TypeInv
  OBVIOUS
<1>1. StoreTypeOK
  BY InitType DEF Init
<1>2. OnlyIssued
  BY DEF Init, StoreInit, OnlyIssued, Live, NoJob
<1>3. RuntimeTypeOK
  BY <1>1, HalfLeaseType, ConstantsOK DEF Init, RuntimeTypeOK, Labels, ConstantsOK
<1>4. BeatsWhileRunning
  BY DEF Init, BeatsWhileRunning
<1> QED BY <1>2, <1>3, <1>4 DEF TypeInv

(* A step that moves a lane, or none, and keeps what it holds.              *)
LEMMA LaneKept ==
  ASSUME TypeInv, StoreTypeOK', KeepsIssued, BeatsWhileRunning',
         NEW x \in Lanes, NEW label \in Labels,
         Goto(x, label), UNCHANGED held, pc[x] # "idle",
         attempt' \in [Lanes -> Nat],
         beat' \in [Lanes -> {"off", "initial", "repeating"}],
         beatLeft' \in [Lanes -> 0..HalfLease],
         sleepLeft' \in [Lanes -> Nat],
         starts' \in [Ids -> Nat], shared' \subseteq Ids, finished' \subseteq Ids
  PROVE  TypeInv'
<1>1. \A y \in Lanes : pc'[y] # "idle" => held'[y] \in Ids /\ Issued(held[y])'
  <2> TAKE y \in Lanes
  <2> HAVE pc'[y] # "idle"
  <2>1. pc[y] # "idle"
    BY DEF Goto, TypeInv, RuntimeTypeOK
  <2>2. held[y] \in Ids
    BY <2>1 DEF TypeInv, RuntimeTypeOK
  <2> QED BY <2>1, <2>2 DEF TypeInv, RuntimeTypeOK, KeepsIssued, Issued
<1>2. pc' \in [Lanes -> Labels]
  BY DEF Goto, TypeInv, RuntimeTypeOK
<1> QED BY <1>1, <1>2 DEF TypeInv, RuntimeTypeOK, KeepsIssued

LEMMA LaneEnded ==
  ASSUME TypeInv, StoreTypeOK', KeepsIssued, NEW x \in Lanes,
         EndLane(x), pc[x] # "running", UNCHANGED <<beat, beatLeft, sleepLeft, history>>
  PROVE  TypeInv'
<1>1. \A y \in Lanes : pc'[y] # "idle" => held'[y] \in Ids /\ Issued(held[y])'
  <2> TAKE y \in Lanes
  <2> HAVE pc'[y] # "idle"
  <2>1. y # x /\ pc[y] # "idle" /\ held'[y] = held[y]
    BY DEF EndLane, TypeInv, RuntimeTypeOK
  <2>2. held[y] \in Ids
    BY <2>1 DEF TypeInv, RuntimeTypeOK
  <2> QED BY <2>1, <2>2 DEF TypeInv, RuntimeTypeOK, KeepsIssued, Issued
<1>2. BeatsWhileRunning'
  BY DEF EndLane, TypeInv, RuntimeTypeOK, BeatsWhileRunning
<1> QED BY <1>1, <1>2 DEF EndLane, TypeInv, RuntimeTypeOK, KeepsIssued, Labels, history

LEMMA LanesUntouched ==
  ASSUME TypeInv, StoreTypeOK', KeepsIssued, UNCHANGED <<laneVars, history>>
  PROVE  TypeInv'
<1>1. \A y \in Lanes : pc'[y] # "idle" => held'[y] \in Ids /\ Issued(held[y])'
  <2> TAKE y \in Lanes
  <2> HAVE pc'[y] # "idle"
  <2>1. pc[y] # "idle" /\ held'[y] = held[y] /\ held[y] \in Ids
    BY DEF laneVars, TypeInv, RuntimeTypeOK
  <2> QED BY <2>1 DEF TypeInv, RuntimeTypeOK, KeepsIssued, Issued
<1> QED BY <1>1 DEF laneVars, TypeInv, RuntimeTypeOK, KeepsIssued, BeatsWhileRunning, history

LEMMA StoreUntouched ==
  ASSUME TypeInv, UNCHANGED storeVars
  PROVE  StoreTypeOK' /\ KeepsIssued
BY DEF TypeInv, RuntimeTypeOK, StoreTypeOK, OnlyIssued, KeepsIssued, Issued, Live, storeVars

LEMMA TypeStep == TypeInv /\ [Next]_vars => TypeInv'
<1> SUFFICES ASSUME TypeInv, [Next]_vars PROVE TypeInv'
  OBVIOUS
<1> USE DEF TypeInv
<1>1. CASE Dispatch
  <2>1. PICK i \in Fresh, p \in Priorities, k \in Keys \cup {NoKey}, d \in BOOLEAN :
          Enqueue(i, NewSpec(Queue, p, k), d) /\ UNCHANGED <<laneVars, history>>
    BY <1>1 DEF Dispatch
  <2>2. i \in Ids
    BY DEF Fresh
  <2>3. NewSpec(Queue, p, k) \in Specs
    BY NewSpecType, QueueKnown
  <2>4. StoreTypeOK' /\ KeepsIssued
    BY <2>1, <2>2, <2>3, EnqueueType, EnqueueIssued DEF RuntimeTypeOK
  <2> QED BY <2>1, <2>4, LanesUntouched
<1>2. CASE Promote
  <2>1. PICK i \in Ids : PromoteJob(i) /\ UNCHANGED <<laneVars, history>>
    BY <1>2 DEF Promote
  <2>2. StoreTypeOK' /\ KeepsIssued
    BY <2>1, PromoteJobType, PromoteJobIssued DEF RuntimeTypeOK
  <2> QED BY <2>1, <2>2, LanesUntouched
<1>3. CASE Replay
  <2>1. PICK i \in Ids, n \in Fresh : RetryDeadLetterJob(i, n) /\ UNCHANGED <<laneVars, history>>
    BY <1>3 DEF Replay
  <2>2. n \in Ids
    BY DEF Fresh
  <2>3. StoreTypeOK' /\ KeepsIssued
    BY <2>1, <2>2, RetryDeadLetterJobType, RetryDeadLetterJobIssued DEF RuntimeTypeOK
  <2> QED BY <2>1, <2>3, LanesUntouched
<1>4. CASE ClockTick
  <2>1. StoreTypeOK'
    BY <1>4, ElapseType DEF ClockTick, RuntimeTypeOK
  <2>2. KeepsIssued
    BY <1>4, SameStateIssued DEF ClockTick, RuntimeTypeOK, Live
  <2>3. beatLeft' \in [Lanes -> 0..HalfLease] /\ sleepLeft' \in [Lanes -> Nat]
    BY <1>4, HalfLeaseType DEF ClockTick, RuntimeTypeOK
  <2>4. \A y \in Lanes : pc'[y] # "idle" => held'[y] \in Ids /\ Issued(held[y])'
    BY <1>4 DEF ClockTick, RuntimeTypeOK, Issued
  <2> QED BY <1>4, <2>1, <2>2, <2>3, <2>4
      DEF ClockTick, RuntimeTypeOK, KeepsIssued, BeatsWhileRunning, history
<1>5. ASSUME NEW w \in Workers, Lease(w) PROVE TypeInv'
  <2>0. PICK S \in Batches(Queue, BatchSize) :
          \E f \in Assignments(w, S) : LeaseBatch(w, S, f)
    BY <1>5 DEF Lease
  <2>1. PICK f \in Assignments(w, S) : LeaseBatch(w, S, f)
    BY <2>0
  <2>2. S \in SUBSET Ids /\ \A i \in S : Live(i) /\ Issued(i)
    BY DEF Batches, Dequeuable, OnlyIssued
  <2>3. StoreTypeOK' /\ KeepsIssued
    BY <2>1, <2>2, DequeueType, DequeueIssued DEF LeaseBatch, RuntimeTypeOK
  <2>4. \A x \in LanesOf(w) : x \in Lanes /\ f[x] \in S \cup {NoId}
    BY DEF LanesOf, Assignments
  <2>5. pc' \in [Lanes -> Labels] /\ held' \in [Lanes -> Ids \cup {NoId}]
    BY <2>1, <2>2, <2>4 DEF LeaseBatch, RuntimeTypeOK, Labels
  <2>6. attempt' \in [Lanes -> Nat]
    BY <2>1, <2>2, <2>4 DEF LeaseBatch, RuntimeTypeOK, StoreTypeOK, Records
  <2>7. \A y \in Lanes : pc'[y] # "idle" => held'[y] \in Ids /\ Issued(held[y])'
    <3> TAKE y \in Lanes
    <3> HAVE pc'[y] # "idle"
    <3>1. CASE y \in LanesOf(w) /\ f[y] # NoId
      <4>1. held'[y] = f[y] /\ f[y] \in S
        BY <2>1, <2>4, <3>1 DEF LeaseBatch
      <4> QED BY <4>1, <2>2, <2>3 DEF KeepsIssued, Issued
    <3>2. CASE y \in LanesOf(w) /\ f[y] = NoId
      <4>1. pc'[y] = pc[y] /\ pc[y] = "idle"
        BY <2>1, <3>2, <1>5 DEF LeaseBatch, Lease
      <4> QED BY <4>1
    <3>3. CASE y \notin LanesOf(w)
      <4>1. pc'[y] = pc[y] /\ held'[y] = held[y]
        BY <2>1, <3>3 DEF LeaseBatch
      <4>2. held[y] \in Ids /\ Issued(held[y])
        BY <4>1 DEF RuntimeTypeOK
      <4> QED BY <4>1, <4>2, <2>3 DEF KeepsIssued, Issued
    <3> QED BY <3>1, <3>2, <3>3
  <2>8. shared' \subseteq Ids
    BY <2>1, <2>2 DEF LeaseBatch, RuntimeTypeOK
  <2>9. BeatsWhileRunning'
    <3> SUFFICES ASSUME NEW y \in Lanes PROVE (beat[y] # "off" <=> pc[y] = "running")'
      BY DEF BeatsWhileRunning
    <3>1. pc'[y] = pc[y] \/ (pc'[y] = "submitted" /\ pc[y] = "idle")
      BY <2>1, <1>5 DEF LeaseBatch, Lease
    <3> QED BY <2>1, <3>1 DEF LeaseBatch, BeatsWhileRunning
  <2> QED BY <2>1, <2>3, <2>5, <2>6, <2>7, <2>8, <2>9 DEF LeaseBatch, RuntimeTypeOK, KeepsIssued
<1>6. ASSUME NEW x \in Lanes, LaneStep(x) PROVE TypeInv'
  <2> DEFINE job == held[x]
  <2>0. StartBeat(x) \/ StopBeat(x) \/ UNCHANGED <<beat, beatLeft>>
        => /\ beat' \in [Lanes -> {"off", "initial", "repeating"}]
           /\ beatLeft' \in [Lanes -> 0..HalfLease]
    BY HalfLeaseType DEF StartBeat, StopBeat, RuntimeTypeOK
  <2>a. pc[x] # "idle" => job \in Ids /\ Issued(job)
    BY DEF RuntimeTypeOK
  <2>b. StoreTypeOK /\ attempt[x] \in Nat
    BY DEF RuntimeTypeOK
  <2>c. pc[x] # "running" /\ Goto(x, "running") /\ StartBeat(x) => BeatsWhileRunning'
    BY DEF Goto, StartBeat, RuntimeTypeOK, BeatsWhileRunning
  <2>d. \A label \in Labels \ {"running"} :
          Goto(x, label) /\ StopBeat(x) => BeatsWhileRunning'
    BY DEF Goto, StopBeat, RuntimeTypeOK, BeatsWhileRunning
  <2>e. \A label \in Labels \ {"running"} :
          pc[x] # "running" /\ Goto(x, label) /\ UNCHANGED beat => BeatsWhileRunning'
    BY DEF Goto, RuntimeTypeOK, BeatsWhileRunning
  <2>1. CASE Begin(x)
    <3>1. starts' \in [Ids -> Nat]
      BY <2>1, <2>a DEF Begin, RuntimeTypeOK
    <3> QED BY <2>1, <2>0, <2>c, <3>1, StoreUntouched, LaneKept DEF Begin, RuntimeTypeOK, Labels
  <2>2. CASE Unrunnable(x)
    BY <2>2, StoreUntouched, LaneEnded DEF Unrunnable
  <2>3. CASE Beat(x)
    <3>1. pc[x] = "running"
      BY <2>3 DEF Beat, BeatsWhileRunning
    <3>2. StoreTypeOK'
      BY <2>3, <2>a, <2>b, <3>1, ExtendLeaseType DEF Beat
    <3>3. KeepsIssued
      BY <2>3, <2>b, SameStateIssued DEF Beat, ExtendLease, Live
    <3>4. Goto(x, "running")
      BY <2>3, <3>1 DEF Beat, Goto, RuntimeTypeOK
    <3>5. BeatsWhileRunning'
      BY <2>3 DEF Beat, BeatsWhileRunning, RuntimeTypeOK
    <3>6. beatLeft' \in [Lanes -> 0..HalfLease] /\ beat' \in [Lanes -> {"off", "initial", "repeating"}]
      BY <2>3, HalfLeaseType DEF Beat, RuntimeTypeOK
    <3> QED BY <2>3, <3>1, <3>2, <3>3, <3>4, <3>5, <3>6, LaneKept
        DEF Beat, RuntimeTypeOK, Labels, history
  <2>4. CASE HandlerOk(x)
    BY <2>4, <2>0, <2>d, StoreUntouched, LaneKept DEF HandlerOk, RuntimeTypeOK, Labels, history
  <2>5. CASE Record(x)
    <3>1. StoreTypeOK'
      BY <2>5, <2>a, <2>b, AddCompletedJobType DEF Record
    <3>2. KeepsIssued
      BY <2>5, <2>b, SameStateIssued DEF Record, AddCompletedJob, Live
    <3> QED BY <2>5, <2>0, <2>a, <2>e, <3>1, <3>2, LaneKept DEF Record, RuntimeTypeOK, Labels
  <2>6. CASE Acknowledge(x)
    <3>1. StoreTypeOK' /\ KeepsIssued
      BY <2>6, <2>a, <2>b, AckType, AckIssued DEF Acknowledge
    <3> QED BY <2>6, <2>0, <2>e, <3>1, LaneKept DEF Acknowledge, RuntimeTypeOK, Labels, history
  <2>7. CASE Return(x)
    BY <2>7, StoreUntouched, LaneEnded DEF Return
  <2>8. CASE Catch(x)
    <3>1. attempt' \in [Lanes -> Nat]
      BY <2>8, <2>b DEF Catch, RuntimeTypeOK
    <3> QED BY <2>8, <2>0, <2>d, <3>1, StoreUntouched, LaneKept
        DEF Catch, Rejects, RuntimeTypeOK, Labels, history
  <2>9. CASE CountAttempt(x)
    <3>1. StoreTypeOK' /\ KeepsIssued
      BY <2>9, <2>a, <2>b, UpdateAttemptsType, UpdateAttemptsIssued DEF CountAttempt
    <3> QED BY <2>9, <2>0, <2>e, <3>1, LaneKept DEF CountAttempt, RuntimeTypeOK, Labels, history
  <2>10. CASE Decide(x)
    <3>1. sleepLeft' \in [Lanes -> Nat]
      BY <2>10, RuntimeConstantsOK DEF Decide, RuntimeTypeOK, RuntimeConstantsOK
    <3>2. \E label \in Labels \ {"running"} : Goto(x, label)
      BY <2>10 DEF Decide, Labels
    <3> QED BY <2>10, <2>0, <2>e, <3>1, <3>2, StoreUntouched, LaneKept
        DEF Decide, RuntimeTypeOK, history
  <2>11. CASE HookThrows(x)
    BY <2>11, StoreUntouched, LaneEnded DEF HookThrows
  <2>12. CASE Retry(x)
    <3>1. starts' \in [Ids -> Nat]
      BY <2>12, <2>a DEF Retry, RuntimeTypeOK
    <3> QED BY <2>12, <2>0, <2>c, <3>1, StoreUntouched, LaneKept DEF Retry, RuntimeTypeOK, Labels
  <2>13. CASE Bury(x)
    <3>1. StoreTypeOK' /\ KeepsIssued
      BY <2>13, <2>a, <2>b, MoveToDeadLetterType, MoveToDeadLetterIssued DEF Bury
    <3> QED BY <2>13, <3>1, LaneEnded DEF Bury
  <2>14. CASE SnoozeAck(x)
    <3>1. StoreTypeOK' /\ KeepsIssued
      BY <2>14, <2>a, <2>b, AckType, AckIssued DEF SnoozeAck
    <3> QED BY <2>14, <2>0, <2>e, <3>1, LaneKept DEF SnoozeAck, RuntimeTypeOK, Labels, history
  <2>15. CASE SnoozeEnqueue(x)
    <3> DEFINE copy == [spec[job] EXCEPT !.createdAt = Now, !.source = job]
    <3>1. copy \in Specs
      BY <2>15, <2>a, <2>b, IssuedSpec, NowType DEF SnoozeEnqueue, Specs
    <3>2. PICK n \in Fresh : Enqueue(n, copy, TRUE)
      BY <2>15 DEF SnoozeEnqueue
    <3>3. StoreTypeOK' /\ KeepsIssued
      BY <2>b, <3>1, <3>2, EnqueueType, EnqueueIssued DEF Fresh
    <3> QED BY <2>15, <3>3, LaneEnded DEF SnoozeEnqueue
  <2> QED BY <1>6, <2>1, <2>2, <2>3, <2>4, <2>5, <2>6, <2>7, <2>8, <2>9, <2>10, <2>11, <2>12,
             <2>13, <2>14, <2>15 DEF LaneStep
<1>7. CASE UNCHANGED vars
  BY <1>7, StoreUntouched, LanesUntouched DEF vars
<1> QED BY <1>1, <1>2, <1>3, <1>4, <1>5, <1>6, <1>7 DEF Next

(* Every state of the runtime is well typed, and every lane that is busy    *)
(* holds a job that was enqueued (executeAll).                              *)
THEOREM TypeCorrect == Spec => []RuntimeTypeOK
<1>1. TypeInv => RuntimeTypeOK
  BY DEF TypeInv
<1> QED BY <1>1, TypeInit, TypeStep, PTL DEF Spec

-----------------------------------------------------------------------------
(* The lease of a running attempt.  A job that a lane holds and that is     *)
(* still live is leased, since no call puts it back in the queue; and the   *)
(* lease outlives the next firing of a heartbeat that has fired once.       *)
HeldIsLeased ==
  \A x \in Lanes : pc[x] # "idle" /\ Live(held[x]) => jobs[held[x]].state = "leased"

BeatAhead ==
  \A x \in Lanes : beat[x] = "repeating" /\ Live(held[x]) => leaseLeft[held[x]] > beatLeft[x]

LeaseInv == TypeInv /\ HeldIsLeased /\ BeatAhead

(* Calls that leave leased records leased or remove them, and only lengthen *)
(* leases.                                                                  *)
LeasesKept ==
  \A j \in Ids : Issued(j) /\ Live(j)' =>
    /\ Live(j)
    /\ jobs[j].state = "leased" => jobs'[j].state = "leased"
    /\ leaseLeft'[j] >= leaseLeft[j]

LEMMA FreshKeeps ==
  ASSUME TypeInv, NEW n \in Fresh, \A j \in Ids \ {n} : jobs'[j] = jobs[j], UNCHANGED leaseLeft
  PROVE  LeasesKept
<1> SUFFICES ASSUME NEW j \in Ids, Issued(j), Live(j)'
             PROVE  /\ Live(j) /\ jobs'[j] = jobs[j]
                    /\ leaseLeft'[j] >= leaseLeft[j]
  BY DEF LeasesKept
<1>1. j # n
  BY DEF Fresh
<1>2. leaseLeft[j] \in Int
  BY DEF TypeInv, RuntimeTypeOK, StoreTypeOK
<1> QED BY <1>1, <1>2 DEF Live

LEMMA EnqueueKeeps ==
  ASSUME TypeInv, NEW n \in Fresh, NEW s, NEW d, Enqueue(n, s, d)
  PROVE  LeasesKept
<1>1. n \in Ids
  BY DEF Fresh
<1>2. \A j \in Ids \ {n} : jobs'[j] = jobs[j]
  BY <1>1 DEF TypeInv, RuntimeTypeOK, StoreTypeOK, Enqueue
<1> QED BY <1>2, FreshKeeps DEF Enqueue

LEMMA ReplayKeeps ==
  ASSUME TypeInv, NEW i \in Ids, NEW n \in Fresh, RetryDeadLetterJob(i, n)
  PROVE  LeasesKept
<1>1. n \in Ids
  BY DEF Fresh
<1>2. \A j \in Ids \ {n} : jobs'[j] = jobs[j]
  BY <1>1 DEF TypeInv, RuntimeTypeOK, StoreTypeOK, RetryDeadLetterJob
<1> QED BY <1>2, FreshKeeps DEF RetryDeadLetterJob

LEMMA RemoveKeeps ==
  ASSUME TypeInv, NEW S \in SUBSET Ids, RemoveJobRecords(S)
  PROVE  LeasesKept
BY DEF TypeInv, RuntimeTypeOK, StoreTypeOK, RemoveJobRecords, LeasesKept, Live, NoJob

LEMMA SameJobsKeep ==
  ASSUME TypeInv, UNCHANGED <<jobs, leaseLeft>>
  PROVE  LeasesKept
BY DEF TypeInv, RuntimeTypeOK, StoreTypeOK, LeasesKept, Live

(* Steps of a lane that keep leases, and start at most a first heartbeat.   *)
LEMMA LeaseKeptStep ==
  ASSUME LeaseInv, TypeInv', LeasesKept,
         \A y \in Lanes : pc'[y] # "idle" => pc[y] # "idle" /\ held'[y] = held[y],
         \A y \in Lanes : beat'[y] = "repeating" => beat[y] = "repeating" /\ beatLeft'[y] = beatLeft[y]
  PROVE  LeaseInv'
<1>1. HeldIsLeased'
  BY DEF LeaseInv, TypeInv, RuntimeTypeOK, HeldIsLeased, LeasesKept, Live
<1>2. BeatAhead'
  <2> SUFFICES ASSUME NEW y \in Lanes, beat'[y] = "repeating", Live(held[y])'
               PROVE  leaseLeft'[held'[y]] > beatLeft'[y]
    BY DEF BeatAhead
  <2>1. pc'[y] # "idle" /\ held'[y] = held[y] /\ held[y] \in Ids /\ Issued(held[y])
    BY DEF LeaseInv, TypeInv, RuntimeTypeOK, BeatsWhileRunning
  <2>2. Live(held[y]) /\ leaseLeft'[held[y]] >= leaseLeft[held[y]]
    BY <2>1 DEF LeasesKept, Live
  <2>3. leaseLeft[held[y]] > beatLeft[y] /\ beatLeft'[y] = beatLeft[y]
    BY <2>2 DEF LeaseInv, BeatAhead
  <2>4. leaseLeft[held[y]] \in Int /\ leaseLeft'[held[y]] \in Int /\ beatLeft[y] \in Int
    BY <2>1 DEF LeaseInv, TypeInv, RuntimeTypeOK, StoreTypeOK
  <2> QED BY <2>1, <2>2, <2>3, <2>4
<1> QED BY <1>1, <1>2 DEF LeaseInv

LEMMA LeaseInvInit == Init => LeaseInv
BY TypeInit DEF Init, LeaseInv, HeldIsLeased, BeatAhead

LEMMA LeaseInvStep == LeaseInv /\ [Next]_vars => LeaseInv'
<1> SUFFICES ASSUME LeaseInv, [Next]_vars PROVE LeaseInv'
  OBVIOUS
<1>t. TypeInv /\ TypeInv'
  BY TypeStep DEF LeaseInv
<1>q. UNCHANGED laneVars /\ LeasesKept => LeaseInv'
  BY <1>t, LeaseKeptStep DEF laneVars
<1>1. CASE Dispatch
  BY <1>1, <1>t, <1>q, EnqueueKeeps DEF Dispatch
<1>2. CASE Promote
  <2>1. LeasesKept
    BY <1>2, <1>t DEF Promote, PromoteJob, TypeInv, RuntimeTypeOK, StoreTypeOK, LeasesKept, Live
  <2> QED BY <1>2, <2>1, <1>q DEF Promote
<1>3. CASE Replay
  BY <1>3, <1>t, <1>q, ReplayKeeps DEF Replay
<1>4. CASE ClockTick
  <2>1. HeldIsLeased'
    BY <1>4 DEF ClockTick, LeaseInv, HeldIsLeased, Live
  <2>2. BeatAhead'
    <3> SUFFICES ASSUME NEW y \in Lanes, beat'[y] = "repeating", Live(held[y])'
                 PROVE  leaseLeft'[held'[y]] > beatLeft'[y]
      BY DEF BeatAhead
    <3>1. beat[y] = "repeating" /\ held'[y] = held[y] /\ Live(held[y])
      BY <1>4 DEF ClockTick, Live
    <3>2. held[y] \in Ids
      BY <3>1, <1>t DEF TypeInv, RuntimeTypeOK, BeatsWhileRunning
    <3>3. leaseLeft[held[y]] > beatLeft[y] /\ beatLeft[y] > 0
      BY <3>1, <1>4 DEF LeaseInv, BeatAhead, ClockTick
    <3>4. leaseLeft[held[y]] \in Int /\ beatLeft[y] \in Int
      BY <3>2, <1>t DEF TypeInv, RuntimeTypeOK, StoreTypeOK
    <3>5. leaseLeft'[held[y]] = leaseLeft[held[y]] - 1 /\ beatLeft'[y] = beatLeft[y] - 1
      BY <3>2, <3>3, <3>4, <1>4 DEF ClockTick, Elapse
    <3> QED BY <3>1, <3>3, <3>4, <3>5
  <2> QED BY <2>1, <2>2, <1>t DEF LeaseInv
<1>5. ASSUME NEW w \in Workers, Lease(w) PROVE LeaseInv'
  <2>0. PICK S \in Batches(Queue, BatchSize) :
          \E f \in Assignments(w, S) : LeaseBatch(w, S, f)
    BY <1>5 DEF Lease
  <2>1. PICK f \in Assignments(w, S) : LeaseBatch(w, S, f)
    BY <2>0
  <2>2. S \in SUBSET Ids
    BY DEF Batches, Dequeuable
  <2>3. \A j \in S : jobs'[j].state = "leased" /\ leaseLeft'[j] = LeaseMs
    BY <2>1, <2>2, <1>t DEF LeaseBatch, Dequeue, TypeInv, RuntimeTypeOK, StoreTypeOK, Records
  <2>r. \A j \in Ids \ S : jobs'[j] = jobs[j] /\ leaseLeft'[j] = leaseLeft[j]
    BY <2>1, <2>2, <1>t DEF LeaseBatch, Dequeue, TypeInv, RuntimeTypeOK, StoreTypeOK, Records
  <2>4. \A y \in Lanes : pc'[y] # "idle" =>
          \/ y \in LanesOf(w) /\ held'[y] \in S /\ pc'[y] = "submitted"
          \/ held'[y] = held[y] /\ pc'[y] = pc[y]
    BY <2>1, <1>5, <1>t
    DEF LeaseBatch, Lease, Assignments, TypeInv, RuntimeTypeOK
  <2>5. HeldIsLeased'
    <3> SUFFICES ASSUME NEW y \in Lanes, pc'[y] # "idle", Live(held[y])'
                 PROVE  jobs'[held'[y]].state = "leased"
      BY DEF HeldIsLeased
    <3>1. held'[y] \in Ids
      BY <1>t DEF TypeInv, RuntimeTypeOK
    <3>2. CASE held'[y] \in S
      BY <2>3, <3>1, <3>2
    <3>3. CASE held'[y] \notin S
      <4>1. held'[y] = held[y] /\ pc[y] # "idle"
        BY <2>4, <3>3
      <4>2. jobs'[held[y]] = jobs[held[y]]
        BY <2>r, <3>1, <3>3, <4>1
      <4>3. Live(held[y])
        BY <4>1, <4>2 DEF Live
      <4> QED BY <4>1, <4>2, <4>3 DEF LeaseInv, HeldIsLeased
    <3> QED BY <3>2, <3>3
  <2>6. BeatAhead'
    <3> SUFFICES ASSUME NEW y \in Lanes, beat'[y] = "repeating", Live(held[y])'
                 PROVE  leaseLeft'[held'[y]] > beatLeft'[y]
      BY DEF BeatAhead
    <3>1. pc'[y] = "running" /\ beat[y] = "repeating" /\ beatLeft'[y] = beatLeft[y]
      BY <2>1, <1>t DEF LeaseBatch, TypeInv, BeatsWhileRunning
    <3>2. held'[y] = held[y] /\ held[y] \in Ids
      BY <2>4, <3>1, <1>t DEF TypeInv, RuntimeTypeOK
    <3>3. CASE held[y] \in S
      <4>1. beatLeft[y] \in 0..HalfLease
        BY <1>t DEF TypeInv, RuntimeTypeOK
      <4>2. LeaseMs > beatLeft[y]
        BY <4>1, HalfLeaseType, ConstantsOK DEF ConstantsOK
      <4>3. leaseLeft'[held[y]] = LeaseMs
        BY <2>3, <3>2, <3>3
      <4> QED BY <3>1, <3>2, <4>2, <4>3
    <3>4. CASE held[y] \notin S
      <4>1. jobs'[held[y]] = jobs[held[y]] /\ leaseLeft'[held[y]] = leaseLeft[held[y]]
        BY <2>r, <3>2, <3>4
      <4>2. Live(held[y])
        BY <3>2, <4>1 DEF Live
      <4> QED BY <3>1, <3>2, <4>1, <4>2 DEF LeaseInv, BeatAhead
    <3> QED BY <3>3, <3>4
  <2> QED BY <2>5, <2>6, <1>t DEF LeaseInv
<1>6. ASSUME NEW x \in Lanes, Beat(x) PROVE LeaseInv'
  <2>1. pc[x] = "running" /\ held[x] \in Ids
    BY <1>6, <1>t DEF Beat, TypeInv, RuntimeTypeOK, BeatsWhileRunning
  <2>2. HeldIsLeased'
    BY <1>6 DEF Beat, ExtendLease, LeaseInv, HeldIsLeased, Live
  <2>3. BeatAhead'
    <3> SUFFICES ASSUME NEW y \in Lanes, beat'[y] = "repeating", Live(held[y])'
                 PROVE  leaseLeft'[held'[y]] > beatLeft'[y]
      BY DEF BeatAhead
    <3>1. held'[y] = held[y] /\ Live(held[y]) /\ pc[y] = "running"
      BY <1>6, <1>t DEF Beat, ExtendLease, Live, TypeInv, BeatsWhileRunning
    <3>2. held[y] \in Ids /\ jobs[held[y]].state = "leased" /\ beatLeft'[y] \in 0..HalfLease
      BY <3>1, <1>t DEF LeaseInv, HeldIsLeased, TypeInv, RuntimeTypeOK
    <3>3. CASE held[y] = held[x]
      <4>1. leaseLeft'[held[y]] = LeaseMs
        BY <1>6, <2>1, <3>2, <3>3, <1>t DEF Beat, ExtendLease, TypeInv, RuntimeTypeOK, StoreTypeOK
      <4> QED BY <3>1, <3>2, <4>1, HalfLeaseType, ConstantsOK DEF ConstantsOK
    <3>4. CASE held[y] # held[x]
      <4>1. y # x /\ beat[y] = "repeating" /\ beatLeft'[y] = beatLeft[y]
        BY <1>6, <3>4, <1>t DEF Beat, TypeInv, RuntimeTypeOK
      <4>2. leaseLeft'[held[y]] = leaseLeft[held[y]]
        BY <1>6, <2>1, <3>2, <3>4, <1>t DEF Beat, ExtendLease, TypeInv, RuntimeTypeOK, StoreTypeOK
      <4> QED BY <3>1, <4>1, <4>2 DEF LeaseInv, BeatAhead
    <3> QED BY <3>3, <3>4
  <2> QED BY <2>2, <2>3, <1>t DEF LeaseInv
<1>7. ASSUME NEW x \in Lanes, LaneStep(x), ~Beat(x) PROVE LeaseInv'
  <2>1. LeasesKept
    <3>1. pc[x] # "idle"
      BY <1>7 DEF LaneStep, Begin, Unrunnable, HandlerOk, Record, Acknowledge, Return, Catch,
                  Rejects, CountAttempt, Decide, HookThrows, Retry, Bury, SnoozeAck, SnoozeEnqueue
    <3>2. held[x] \in Ids
      BY <3>1, <1>t DEF TypeInv, RuntimeTypeOK
    <3>3. UNCHANGED <<jobs, leaseLeft>> \/ Acknowledge(x) \/ CountAttempt(x) \/ Bury(x)
          \/ SnoozeAck(x) \/ SnoozeEnqueue(x)
      BY <1>7 DEF LaneStep, Begin, Unrunnable, HandlerOk, Record, AddCompletedJob, Return, Catch,
                  Decide, HookThrows, Retry, storeVars
    <3>4. CASE UNCHANGED <<jobs, leaseLeft>>
      BY <3>4, <1>t, SameJobsKeep
    <3>5. CASE Acknowledge(x) \/ SnoozeAck(x) \/ Bury(x)
      BY <3>5, <3>2, <1>t, RemoveKeeps DEF Acknowledge, SnoozeAck, Bury, Ack, MoveToDeadLetter
    <3>6. CASE CountAttempt(x)
      BY <3>6, <3>2, <1>t DEF CountAttempt, UpdateAttempts, TypeInv, RuntimeTypeOK, StoreTypeOK,
                              Records, LeasesKept, Live
    <3>7. CASE SnoozeEnqueue(x)
      BY <3>7, <1>t, EnqueueKeeps DEF SnoozeEnqueue
    <3> QED BY <3>3, <3>4, <3>5, <3>6, <3>7
  <2>2. \A y \in Lanes : pc'[y] # "idle" => pc[y] # "idle" /\ held'[y] = held[y]
    BY <1>7, <1>t DEF LaneStep, Begin, Unrunnable, HandlerOk, Record, Acknowledge, Return, Catch,
       Rejects, CountAttempt, Decide, HookThrows, Retry, Bury, SnoozeAck, SnoozeEnqueue,
       Goto, EndLane, TypeInv, RuntimeTypeOK
  <2>3. \A y \in Lanes : beat'[y] = "repeating" =>
          beat[y] = "repeating" /\ beatLeft'[y] = beatLeft[y]
    BY <1>7, <1>t DEF LaneStep, Begin, Unrunnable, HandlerOk, Record, Acknowledge, Return, Catch,
       CountAttempt, Decide, HookThrows, Retry, Bury, SnoozeAck, SnoozeEnqueue,
       StartBeat, StopBeat, TypeInv, RuntimeTypeOK
  <2> QED BY <2>1, <2>2, <2>3, <1>t, LeaseKeptStep
<1>8. CASE UNCHANGED vars
  BY <1>8, <1>t, <1>q, SameJobsKeep DEF vars, storeVars
<1> QED BY <1>1, <1>2, <1>3, <1>4, <1>5, <1>6, <1>7, <1>8 DEF Next

(* From the first renewal on, an attempt never loses its lease, whatever    *)
(* the other workers do (createLeaseHeartbeat, dequeue): the lease is       *)
(* always longer than the time to the next renewal.                         *)
THEOREM RenewedLeaseIsHeld == Spec => []RenewedLeaseHeld
<1>1. LeaseInv => RenewedLeaseHeld
  <2> SUFFICES ASSUME LeaseInv, NEW x \in Lanes, beat[x] = "repeating", Live(held[x])
               PROVE  jobs[held[x]].state = "leased" /\ leaseLeft[held[x]] > 0
    BY DEF RenewedLeaseHeld
  <2>1. pc[x] = "running" /\ held[x] \in Ids /\ beatLeft[x] \in Nat
    BY DEF LeaseInv, TypeInv, RuntimeTypeOK, BeatsWhileRunning
  <2>2. leaseLeft[held[x]] > beatLeft[x] /\ leaseLeft[held[x]] \in Int
    BY <2>1 DEF LeaseInv, BeatAhead, TypeInv, RuntimeTypeOK, StoreTypeOK
  <2> QED BY <2>1, <2>2 DEF LeaseInv, HeldIsLeased
<1> QED BY <1>1, LeaseInvInit, LeaseInvStep, PTL DEF Spec
-----------------------------------------------------------------------------

(* The configurations the result is about: a snoozed copy keeps its key, so *)
(* that with keys and auto-snooze together enqueue may drop it.             *)
SnoozeSafe == Keys = {} \/ SnoozeAfter = 0

-----------------------------------------------------------------------------
(* A lane acknowledges only what it recorded as completed, and snoozes only *)
(* where the policy asks for it.                                            *)
AckedIsRecorded == \A x \in Lanes : pc[x] \in {"acking", "ending"} => held[x] \in finished

SnoozesOnPolicy == \A x \in Lanes : pc[x] \in {"snoozing", "requeueing"} => SnoozeAfter > 0

Requeueing(i) == \E x \in Lanes : pc[x] = "requeueing" /\ held[x] = i

LossInv == TypeInv /\ AckedIsRecorded /\ SnoozesOnPolicy /\ NoJobLost

(* The traces a job leaves are never wiped out.                             *)
TracesKept ==
  /\ finished \subseteq finished'
  /\ \A i \in Ids : (Dead(i) => Dead(i)') /\ (Snoozed(i) => Snoozed(i)')

LEMMA SpecOfFresh ==
  ASSUME TypeInv, NEW n \in Fresh
  PROVE  n \in Ids /\ spec[n].source = NoId
BY ConstantsOK DEF ConstantsOK, TypeInv, RuntimeTypeOK, StoreTypeOK, Fresh, Issued, Specs, NoSpec

LEMMA SpecsKept ==
  ASSUME TypeInv, NEW n \in Fresh, \A j \in Ids \ {n} : spec'[j] = spec[j]
  PROVE  \A i \in Ids : Snoozed(i) => Snoozed(i)'
<1> SUFFICES ASSUME NEW i \in Ids, NEW j \in Ids, spec[j].source = i
             PROVE  \E m \in Ids : spec'[m].source = i
  BY DEF Snoozed
<1>1. j # n
  BY SpecOfFresh, ConstantsOK DEF ConstantsOK
<1> QED BY <1>1

LEMMA SameSpecsKeep == ASSUME UNCHANGED spec PROVE \A i \in Ids : Snoozed(i) => Snoozed(i)'
BY DEF Snoozed

(* Every accepted job stays accounted for if the new ones are live and the  *)
(* removed ones leave a trace.                                              *)
LEMMA Accounted ==
  ASSUME LossInv, TracesKept,
         \A i \in Ids : Issued(i)' => Issued(i) \/ Live(i)',
         \A i \in Ids : Live(i) =>
           Live(i)' \/ i \in finished' \/ Dead(i)' \/ Snoozed(i)' \/ Requeueing(i)',
         \A i \in Ids : Requeueing(i) => Requeueing(i)' \/ Snoozed(i)'
  PROVE  NoJobLost'
BY DEF LossInv, NoJobLost, TracesKept, Requeueing

LEMMA LossInit == Init => LossInv
<1> SUFFICES ASSUME Init PROVE LossInv
  OBVIOUS
<1>1. \A i \in Ids : ~Issued(i)
  BY DEF Init, StoreInit, Issued, NoSpec
<1> QED BY <1>1, TypeInit DEF Init, LossInv, AckedIsRecorded, SnoozesOnPolicy, NoJobLost

-----------------------------------------------------------------------------
LEMMA EnqueueAccounts ==
  ASSUME TypeInv, NEW n \in Fresh, NEW s, NEW d, Enqueue(n, s, d)
  PROVE  /\ \A i \in Ids : (Issued(i)' => Issued(i) \/ Live(i)') /\ (Live(i) => Live(i)')
         /\ \A i \in Ids : (Dead(i) => Dead(i)') /\ (Snoozed(i) => Snoozed(i)')
<1>1. n \in Ids
  BY DEF Fresh
<1>2. \A j \in Ids \ {n} : spec'[j] = spec[j] /\ jobs'[j] = jobs[j]
  BY DEF Enqueue, TypeInv, RuntimeTypeOK, StoreTypeOK
<1>3. Issued(n)' => Live(n)'
  <2>1. CASE KeyHeld(s.key)
    BY <2>1, <1>1 DEF Enqueue, Fresh, Issued
  <2>2. CASE ~KeyHeld(s.key)
    BY <2>2, <1>1 DEF Enqueue, Live, TypeInv, RuntimeTypeOK, StoreTypeOK
  <2> QED BY <2>1, <2>2
<1>4. ~Live(n)
  BY <1>1 DEF TypeInv, OnlyIssued, Fresh
<1> QED BY <1>1, <1>2, <1>3, <1>4, SpecsKept DEF Enqueue, Issued, Live, Dead

(* Steps of a lane: where they lead, and what they leave behind.            *)
LEMMA LaneLabels ==
  ASSUME LossInv, NEW x \in Lanes, LaneStep(x)
  PROVE  /\ pc[x] # "idle" /\ held[x] \in Ids
         /\ \A y \in Lanes \ {x} : pc'[y] = pc[y] /\ held'[y] = held[y]
         /\ finished \subseteq finished'
         /\ pc'[x] # "idle" => held'[x] = held[x]
         /\ pc'[x] \in {"acking", "ending"} => pc[x] \in {"acking", "ending"} \/ held[x] \in finished'
         /\ pc'[x] \in {"snoozing", "requeueing"} => SnoozeAfter > 0
         /\ pc[x] = "requeueing" => SnoozeEnqueue(x)
<1>1. TypeInv
  BY DEF LossInv
<1>2. pc[x] # "idle"
  BY <1>1 DEF LaneStep, Begin, Unrunnable, HandlerOk, Record, Acknowledge, Return, Catch, Beat,
     Rejects, CountAttempt, Decide, HookThrows, Retry, Bury, SnoozeAck, SnoozeEnqueue,
     TypeInv, BeatsWhileRunning
<1>3. held[x] \in Ids
  BY <1>1, <1>2 DEF TypeInv, RuntimeTypeOK
<1>4. \A y \in Lanes \ {x} : pc'[y] = pc[y] /\ held'[y] = held[y]
  BY <1>1 DEF LaneStep, Begin, Unrunnable, HandlerOk, Record, Acknowledge, Return, Catch, Beat,
     CountAttempt, Decide, HookThrows, Retry, Bury, SnoozeAck, SnoozeEnqueue,
     Goto, EndLane, TypeInv, RuntimeTypeOK
<1>5. finished \subseteq finished' /\ (Record(x) => held[x] \in finished')
  BY DEF LaneStep, Begin, Unrunnable, HandlerOk, Record, Acknowledge, Return, Catch, Beat,
     CountAttempt, Decide, HookThrows, Retry, Bury, SnoozeAck, SnoozeEnqueue, history
<1>6. pc'[x] # "idle" => held'[x] = held[x]
  BY <1>1 DEF LaneStep, Begin, Unrunnable, HandlerOk, Record, Acknowledge, Return, Catch, Beat,
     CountAttempt, Decide, HookThrows, Retry, Bury, SnoozeAck, SnoozeEnqueue,
     Goto, EndLane, TypeInv, RuntimeTypeOK
<1>7. pc'[x] \in {"acking", "ending"} => pc[x] \in {"acking", "ending"} \/ held[x] \in finished'
  BY <1>1, <1>5 DEF LaneStep, Begin, Unrunnable, HandlerOk, Acknowledge, Return, Catch, Beat,
     CountAttempt, Decide, HookThrows, Retry, Bury, SnoozeAck, SnoozeEnqueue,
     Goto, EndLane, TypeInv, RuntimeTypeOK
<1>8. pc'[x] \in {"snoozing", "requeueing"} => SnoozeAfter > 0
  BY <1>1 DEF LaneStep, Begin, Unrunnable, HandlerOk, Record, Acknowledge, Return, Catch, Beat,
     CountAttempt, Decide, HookThrows, Retry, Bury, SnoozeAck, SnoozeEnqueue,
     Goto, EndLane, TypeInv, RuntimeTypeOK, LossInv, SnoozesOnPolicy
<1>9. pc[x] = "requeueing" => SnoozeEnqueue(x)
  BY <1>1 DEF LaneStep, Begin, Unrunnable, HandlerOk, Record, Acknowledge, Return, Catch, Beat,
     Rejects, CountAttempt, Decide, HookThrows, Retry, Bury, SnoozeAck, TypeInv, BeatsWhileRunning
<1> QED BY <1>2, <1>3, <1>4, <1>5, <1>6, <1>7, <1>8, <1>9

(* What a step that is not a lane's does to the lanes.                      *)
LEMMA LossRest ==
  ASSUME LossInv, TypeInv', UNCHANGED <<laneVars, history>>,
         \A i \in Ids : (Issued(i)' => Issued(i) \/ Live(i)') /\ (Live(i) => Live(i)'),
         \A i \in Ids : (Dead(i) => Dead(i)') /\ (Snoozed(i) => Snoozed(i)')
  PROVE  LossInv'
<1>1. TracesKept /\ \A i \in Ids : Requeueing(i) => Requeueing(i)'
  BY DEF TracesKept, history, Requeueing, laneVars
<1>2. NoJobLost'
  BY <1>1, Accounted
<1>3. AckedIsRecorded' /\ SnoozesOnPolicy'
  BY DEF LossInv, AckedIsRecorded, SnoozesOnPolicy, laneVars, history
<1> QED BY <1>2, <1>3 DEF LossInv

LEMMA LossStep == SnoozeSafe /\ LossInv /\ [Next]_vars => LossInv'
<1> SUFFICES ASSUME SnoozeSafe, LossInv, [Next]_vars PROVE LossInv'
  OBVIOUS
<1>t. TypeInv /\ TypeInv'
  BY TypeStep DEF LossInv
<1>1. CASE Dispatch
  BY <1>1, <1>t, EnqueueAccounts, LossRest DEF Dispatch
<1>2. CASE Promote
  <2>1. \A i \in Ids : Live(i) => Live(i)'
    BY <1>2, <1>t DEF Promote, PromoteJob, Live, TypeInv, RuntimeTypeOK, StoreTypeOK
  <2> QED BY <1>2, <1>t, <2>1, SameSpecsKeep, LossRest DEF Promote, PromoteJob, Issued, Dead
<1>3. CASE Replay
  <2>1. PICK i \in Ids, n \in Fresh : RetryDeadLetterJob(i, n) /\ UNCHANGED <<laneVars, history>>
    BY <1>3 DEF Replay
  <2>2. n \in Ids
    BY DEF Fresh
  <2>3. \A j \in Ids \ {n} : spec'[j] = spec[j] /\ jobs'[j] = jobs[j]
    BY <2>1 DEF RetryDeadLetterJob, TypeInv, RuntimeTypeOK, StoreTypeOK
  <2>4. Live(n)'
    BY <2>1, <2>2, <1>t DEF RetryDeadLetterJob, Live, TypeInv, RuntimeTypeOK, StoreTypeOK
  <2>5. \A j \in Ids : Dead(j) => Dead(j)'
    BY <2>1, <1>t DEF RetryDeadLetterJob, Dead, TypeInv, RuntimeTypeOK, StoreTypeOK
  <2>6. \A j \in Ids : Snoozed(j) => Snoozed(j)'
    BY <2>3, <1>t, SpecsKept
  <2> QED BY <2>1, <2>2, <2>3, <2>4, <2>5, <2>6, <1>t, LossRest DEF Issued, Live
<1>4. CASE ClockTick
  <2>1. TracesKept
    BY <1>4, SameSpecsKeep DEF ClockTick, TracesKept, Dead, history
  <2>2. NoJobLost'
    BY <1>4, <2>1, Accounted DEF ClockTick, Live, Issued, Requeueing
  <2> QED BY <1>4, <1>t, <2>2 DEF ClockTick, LossInv, AckedIsRecorded, SnoozesOnPolicy, history
<1>5. ASSUME NEW w \in Workers, Lease(w) PROVE LossInv'
  <2>0. PICK S \in Batches(Queue, BatchSize) :
          \E f \in Assignments(w, S) : LeaseBatch(w, S, f)
    BY <1>5 DEF Lease
  <2>1. PICK f \in Assignments(w, S) : LeaseBatch(w, S, f)
    BY <2>0
  <2>2. \A i \in Ids : Live(i) => Live(i)'
    BY <2>1, <1>t DEF LeaseBatch, Dequeue, Live, TypeInv, RuntimeTypeOK, StoreTypeOK, Records
  <2>3. TracesKept
    BY <2>1, SameSpecsKeep DEF LeaseBatch, Dequeue, TracesKept, Dead
  <2>4. \A y \in Lanes : pc'[y] = "submitted" \/ (pc'[y] = pc[y] /\ held'[y] = held[y])
                       \/ (pc'[y] = "idle" /\ pc[y] = "idle")
    BY <2>1, <1>5, <1>t DEF LeaseBatch, Lease, TypeInv, RuntimeTypeOK, LanesOf
  <2>5. \A i \in Ids : Requeueing(i) => Requeueing(i)'
    <3> SUFFICES ASSUME NEW i \in Ids, NEW y \in Lanes, pc[y] = "requeueing", held[y] = i
                 PROVE  pc'[y] = "requeueing" /\ held'[y] = i
      BY DEF Requeueing
    <3>1. y \notin LanesOf(w)
      BY <1>5 DEF Lease
    <3> QED BY <2>1, <3>1 DEF LeaseBatch
  <2>6. NoJobLost'
    BY <2>1, <2>2, <2>3, <2>5, Accounted DEF LeaseBatch, Dequeue, Issued
  <2>7. AckedIsRecorded' /\ SnoozesOnPolicy'
    BY <2>1, <2>4 DEF LossInv, AckedIsRecorded, SnoozesOnPolicy, LeaseBatch
  <2> QED BY <2>6, <2>7, <1>t DEF LossInv
<1>6. ASSUME NEW x \in Lanes, LaneStep(x) PROVE LossInv'
  <2>0. PICK job \in Ids : job = held[x]
    BY <1>6, LaneLabels
  <2>1. /\ pc[x] # "idle"
        /\ \A y \in Lanes \ {x} : pc'[y] = pc[y] /\ held'[y] = held[y]
        /\ finished \subseteq finished'
        /\ pc'[x] # "idle" => held'[x] = held[x]
        /\ pc'[x] \in {"acking", "ending"} => pc[x] \in {"acking", "ending"} \/ job \in finished'
        /\ pc'[x] \in {"snoozing", "requeueing"} => SnoozeAfter > 0
        /\ pc[x] = "requeueing" => SnoozeEnqueue(x)
    BY <1>6, <2>0, LaneLabels
  <2>2. AckedIsRecorded' /\ SnoozesOnPolicy'
    BY <2>0, <2>1 DEF LossInv, AckedIsRecorded, SnoozesOnPolicy
  <2>r. \A i \in Ids : Requeueing(i) => Requeueing(i)' \/ (pc[x] = "requeueing" /\ job = i)
    BY <2>0, <2>1 DEF Requeueing
  <2>3. CASE SnoozeEnqueue(x)
    <3> DEFINE copy == [spec[job] EXCEPT !.createdAt = Now, !.source = job]
    <3>1. PICK n \in Fresh : Enqueue(n, copy, TRUE)
      BY <2>0, <2>3 DEF SnoozeEnqueue
    <3>2. ~KeyHeld(copy.key) /\ n \in Ids /\ copy.source = job
      <4>1. SnoozeAfter > 0 /\ pc[x] = "requeueing"
        BY <2>3 DEF SnoozeEnqueue, LossInv, SnoozesOnPolicy
      <4>2. Keys = {}
        BY <4>1 DEF SnoozeSafe
      <4>3. spec[job] \in Specs
        BY <1>t, <2>0, <2>1, IssuedSpec DEF TypeInv, RuntimeTypeOK
      <4> QED BY <4>2, <4>3, SpecOfFresh, <1>t DEF Specs, KeyHeld
    <3>3. Snoozed(job)'
      BY <3>1, <3>2, <1>t DEF Enqueue, Snoozed, TypeInv, RuntimeTypeOK, StoreTypeOK
    <3>4. /\ \A i \in Ids : (Issued(i)' => Issued(i) \/ Live(i)') /\ (Live(i) => Live(i)')
          /\ \A i \in Ids : (Dead(i) => Dead(i)') /\ (Snoozed(i) => Snoozed(i)')
      BY <3>1, <1>t, EnqueueAccounts
    <3>5. NoJobLost'
      BY <2>1, <2>r, <3>3, <3>4, Accounted DEF TracesKept
    <3> QED BY <2>2, <3>5, <1>t DEF LossInv
  <2>4. CASE ~SnoozeEnqueue(x)
    <3>1. \A i \in Ids : Requeueing(i) => Requeueing(i)'
      BY <2>0, <2>1, <2>r, <2>4
    <3>2. \A i \in Ids : Issued(i)' => Issued(i)
      BY <1>6, <2>4 DEF LaneStep, Begin, Unrunnable, HandlerOk, Record, AddCompletedJob, Return,
         Acknowledge, Ack, Catch, Beat, ExtendLease, CountAttempt, UpdateAttempts, Decide,
         HookThrows, Retry, Bury, MoveToDeadLetter, SnoozeAck, storeVars, Issued
    <3>3. TracesKept
      <4>1. UNCHANGED spec
        BY <1>6, <2>4 DEF LaneStep, Begin, Unrunnable, HandlerOk, Record, AddCompletedJob, Return,
           Acknowledge, Ack, Catch, Beat, ExtendLease, CountAttempt, UpdateAttempts, Decide,
           HookThrows, Retry, Bury, MoveToDeadLetter, SnoozeAck, storeVars
      <4>2. UNCHANGED deadLetter \/ MoveToDeadLetter(job)
        BY <1>6, <2>0, <2>4 DEF LaneStep, Begin, Unrunnable, HandlerOk, Record, AddCompletedJob, Return,
           Acknowledge, Ack, Catch, Beat, ExtendLease, CountAttempt, UpdateAttempts, Decide,
           HookThrows, Retry, Bury, SnoozeAck, storeVars
      <4>3. \A i \in Ids : Dead(i) => Dead(i)'
        <5>1. CASE UNCHANGED deadLetter
          BY <5>1 DEF Dead
        <5>2. CASE MoveToDeadLetter(job)
          <6>1. \A i \in Ids : deadLetter[i].copies \in Nat /\ (i # job => deadLetter'[i] = deadLetter[i])
            BY <5>2, <1>t DEF MoveToDeadLetter, TypeInv, RuntimeTypeOK, StoreTypeOK
          <6>2. deadLetter'[job].copies = deadLetter[job].copies + 1
            BY <5>2, <1>t DEF MoveToDeadLetter, TypeInv, RuntimeTypeOK, StoreTypeOK
          <6> QED BY <6>1, <6>2 DEF Dead
        <5> QED BY <4>2, <5>1, <5>2
      <4> QED BY <2>1, <4>1, <4>3, SameSpecsKeep DEF TracesKept
    <3>4. \A i \in Ids : Live(i) => Live(i)' \/ i \in finished' \/ Dead(i)' \/ Requeueing(i)'
      <4>1. CASE Acknowledge(x) \/ SnoozeAck(x)
        <5>1. \A i \in Ids : Live(i) => Live(i)' \/ i = job
          BY <2>0, <4>1 DEF Acknowledge, SnoozeAck, Ack, RemoveJobRecords, Live
        <5>2. job \in finished' \/ Requeueing(job)'
          BY <4>1, <2>0, <2>1, <1>t DEF Acknowledge, SnoozeAck, LossInv, AckedIsRecorded, Requeueing,
             Goto, TypeInv, RuntimeTypeOK
        <5> QED BY <5>1, <5>2
      <4>2. CASE Bury(x)
        <5>1. \A i \in Ids : Live(i) => Live(i)' \/ i = job
          BY <2>0, <4>2 DEF Bury, MoveToDeadLetter, RemoveJobRecords, Live
        <5>2. Dead(job)'
          BY <2>0, <4>2, <1>t DEF Bury, MoveToDeadLetter, Dead, TypeInv, RuntimeTypeOK, StoreTypeOK
        <5> QED BY <5>1, <5>2
      <4>3. CASE CountAttempt(x)
        BY <4>3, <2>0, <1>t DEF CountAttempt, UpdateAttempts, Live, TypeInv, RuntimeTypeOK,
           StoreTypeOK, Records
      <4>4. UNCHANGED jobs \/ Acknowledge(x) \/ SnoozeAck(x) \/ Bury(x) \/ CountAttempt(x)
        BY <1>6, <2>4 DEF LaneStep, Begin, Unrunnable, HandlerOk, Record, AddCompletedJob, Return,
           Catch, Beat, ExtendLease, Decide, HookThrows, Retry, storeVars
      <4> QED BY <4>1, <4>2, <4>3, <4>4 DEF Live
    <3>5. NoJobLost'
      BY <3>1, <3>2, <3>3, <3>4, Accounted
    <3> QED BY <2>2, <3>5, <1>t DEF LossInv
  <2> QED BY <2>3, <2>4
<1>7. CASE UNCHANGED vars
  BY <1>7, <1>t, SameSpecsKeep, LossRest DEF vars, storeVars, Issued, Live, Dead
<1> QED BY <1>1, <1>2, <1>3, <1>4, <1>5, <1>6, <1>7 DEF Next

(* No accepted job disappears, whichever lanes share it, whatever leases    *)
(* lapse and whichever awaits of executeAll reject, unless auto-snooze      *)
(* meets idempotency keys.                                                  *)
THEOREM NothingLost == SnoozeSafe /\ Spec => []NoJobLost
<1>1. LossInv => NoJobLost
  BY DEF LossInv
<1>2. SnoozeSafe /\ LossInv /\ [Next]_vars => LossInv'
  BY LossStep
<1>3. ASSUME SnoozeSafe PROVE Spec => []NoJobLost
  <2>1. LossInv /\ [Next]_vars => LossInv'
    BY <1>2, <1>3
  <2> QED BY <1>1, <2>1, LossInit, PTL DEF Spec
<1> QED BY <1>3

-----------------------------------------------------------------------------
(* The state of Delivery that a state of the runtime stands for: what       *)
(* Promised puts for its variables.                                         *)
Status == [i \in Ids |-> IF ~Issued(i) THEN "unknown" ELSE IF Live(i) THEN "queued" ELSE "settled"]
Started == {i \in Ids : starts[i] > 0}
Ends == [i \in Ids |-> (IF i \in finished THEN {"completed"} ELSE {})
                \cup (IF Dead(i) THEN {"dead"} ELSE {})
                \cup (IF Requeued(i) THEN {"snoozed"} ELSE {})]

Mapped == <<Status, Started, Ends>>

Allowed == [Promised!Next]_(Promised!vars)

LEMMA Stutters == ASSUME UNCHANGED Mapped PROVE Allowed
BY DEF Mapped, Allowed, Promised!vars, Status, Started, Ends

LEMMA Accepts ==
  ASSUME NEW n \in Ids, Status[n] = "unknown", Status' = [Status EXCEPT ![n] = "queued"],
         UNCHANGED <<Started, Ends>>
  PROVE  Allowed
BY DEF Allowed, Promised!Next, Promised!Accept, Status, Started, Ends

LEMMA Starts ==
  ASSUME NEW n \in Ids, Status[n] # "unknown", Started' = Started \cup {n},
         UNCHANGED <<Status, Ends>>
  PROVE  Allowed
BY DEF Allowed, Promised!Next, Promised!Start, Status, Started, Ends

LEMMA Concludes ==
  ASSUME NEW n \in Ids, n \in Started, NEW o \in {"completed", "dead", "snoozed"},
         Ends' = [Ends EXCEPT ![n] = @ \cup {o}],
         Status' = Status \/ Status' = [Status EXCEPT ![n] = "settled"],
         UNCHANGED Started
  PROVE  Allowed
BY DEF Allowed, Promised!Next, Promised!Conclude, Promised!Outcomes, Status, Started, Ends

LEMMA Settles ==
  ASSUME NEW n \in Ids, Status[n] = "queued", Ends[n] # {},
         Status' = [Status EXCEPT ![n] = "settled"], UNCHANGED <<Started, Ends>>
  PROVE  Allowed
BY DEF Allowed, Promised!Next, Promised!Settle, Status, Started, Ends

-----------------------------------------------------------------------------
(* A run that has left the waiting room has started its job's handler.      *)
Ran == \A x \in Lanes : Running(x) => starts[held[x]] > 0

LEMMA RanStep == TypeInv /\ Ran /\ [Next]_vars => Ran'
<1> SUFFICES ASSUME TypeInv, Ran, [Next]_vars PROVE Ran'
  OBVIOUS
<1>t. /\ pc \in [Lanes -> Labels] /\ held \in [Lanes -> Ids \cup {NoId}] /\ starts \in [Ids -> Nat]
      /\ \A x \in Lanes : pc[x] # "idle" => held[x] \in Ids
  BY DEF TypeInv, RuntimeTypeOK
<1>1. CASE UNCHANGED <<pc, held, starts>>
  BY <1>1 DEF Ran, Running
<1>2. ASSUME NEW w \in Workers, Lease(w) PROVE Ran'
  <2>1. PICK S \in Batches(Queue, BatchSize) : \E f \in Assignments(w, S) : LeaseBatch(w, S, f)
    BY <1>2 DEF Lease
  <2>2. PICK f \in Assignments(w, S) : LeaseBatch(w, S, f)
    BY <2>1
  <2> SUFFICES ASSUME NEW y \in Lanes, Running(y)' PROVE starts'[held'[y]] > 0
    BY DEF Ran
  <2>3. y \notin LanesOf(w)
    BY <1>2, <2>2 DEF Lease, LeaseBatch, Running
  <2>4. pc'[y] = pc[y] /\ held'[y] = held[y] /\ starts' = starts
    BY <2>2, <2>3 DEF LeaseBatch
  <2> QED BY <2>4 DEF Ran, Running
<1>3. ASSUME NEW x \in Lanes, LaneStep(x) PROVE Ran'
  <2>1. \A y \in Lanes \ {x} : pc'[y] = pc[y] /\ held'[y] = held[y]
    BY <1>3, <1>t DEF LaneStep, Begin, Unrunnable, HandlerOk, Record, Acknowledge, Return, Catch, Beat,
       CountAttempt, Decide, HookThrows, Retry, Bury, SnoozeAck, SnoozeEnqueue, Goto, EndLane
  <2>2. CASE Begin(x) \/ Retry(x)
    <3>1. /\ held' = held /\ held[x] \in Ids
          /\ starts' = [starts EXCEPT ![held[x]] = IF @ > MaxAttempts THEN @ ELSE @ + 1]
      BY <2>2, <1>t DEF Begin, Retry
    <3>2. starts'[held[x]] > 0 /\ \A j \in Ids : starts[j] > 0 => starts'[j] > 0
      BY <3>1, <1>t, RuntimeConstantsOK DEF RuntimeConstantsOK
    <3> QED BY <2>1, <3>1, <3>2, <1>t DEF Ran, Running
  <2>3. CASE ~(Begin(x) \/ Retry(x))
    <3>1. starts' = starts
      BY <1>3, <2>3 DEF LaneStep, Unrunnable, HandlerOk, Record, Acknowledge, Return, Catch, Beat,
         CountAttempt, Decide, HookThrows, Bury, SnoozeAck, SnoozeEnqueue, history
    <3>2. pc'[x] = "idle" \/ (Running(x) /\ held'[x] = held[x]) \/ Beat(x)
      BY <1>3, <2>3, <1>t DEF LaneStep, Unrunnable, HandlerOk, Record, Acknowledge, Return, Catch,
         Rejects, CountAttempt, Decide, HookThrows, Bury, SnoozeAck, SnoozeEnqueue, Goto, EndLane,
         Running
    <3> QED BY <2>1, <3>1, <3>2 DEF Ran, Running, Beat
  <2> QED BY <2>2, <2>3
<1> QED
  BY <1>1, <1>2, <1>3
  DEF Next, Dispatch, Promote, Replay, ClockTick, laneVars, history, vars

-----------------------------------------------------------------------------
LEMMA SameStatus ==
  ASSUME \A i \in Ids : (Issued(i)' <=> Issued(i)) /\ (Live(i)' <=> Live(i))
  PROVE  UNCHANGED Status
BY DEF Status

LEMMA SameEnds ==
  ASSUME \A i \in Ids : /\ i \in finished' <=> i \in finished
                        /\ (Dead(i)' <=> Dead(i)) /\ (Requeued(i)' <=> Requeued(i))
  PROVE  UNCHANGED Ends
BY DEF Ends

(* A new record, that is a copy of no job or of one that counts as snoozed. *)
LEMMA NewRecord ==
  ASSUME TypeInv, NEW n \in Fresh, NEW s \in Specs,
         spec' = [spec EXCEPT ![n] = s], Live(n)', \A i \in Ids \ {n} : jobs'[i] = jobs[i],
         \A i \in Ids : Dead(i)' <=> Dead(i),
         UNCHANGED <<finished, starts>>,
         \A i \in Ids : i # s.source => (Requeueing(i)' <=> Requeueing(i)),
         s.source \in Ids => Requeued(s.source)
  PROVE  Allowed
<1>1. n \in Ids /\ spec[n].source = NoId /\ ~Issued(n) /\ s.queue # NoQueue
  BY SpecOfFresh, ConstantsOK DEF Fresh, Specs, ConstantsOK
<1>2. spec'[n] = s /\ \A i \in Ids \ {n} : spec'[i] = spec[i]
  BY <1>1 DEF TypeInv, RuntimeTypeOK, StoreTypeOK
<1>3. Issued(n)' /\ \A i \in Ids \ {n} : (Issued(i)' <=> Issued(i)) /\ (Live(i)' <=> Live(i))
  BY <1>1, <1>2 DEF Issued, Live
<1>4. Status[n] = "unknown" /\ Status' = [Status EXCEPT ![n] = "queued"]
  BY <1>1, <1>3 DEF Status
<1>5. \A i \in Ids : Requeued(i) <=> Snoozed(i) \/ Requeueing(i)
  BY DEF Requeued, Requeueing
<1>6. \A i \in Ids : Requeued(i)' <=> Snoozed(i)' \/ Requeueing(i)'
  BY DEF Requeued, Requeueing
<1>7. \A i \in Ids : Snoozed(i)' <=> Snoozed(i) \/ i = s.source
  BY <1>1, <1>2, ConstantsOK DEF Snoozed, ConstantsOK
<1>8. \A i \in Ids : Requeued(i)' <=> Requeued(i)
  BY <1>5, <1>6, <1>7
<1>9. UNCHANGED <<Started, Ends>>
  BY <1>8, SameEnds DEF Started
<1> QED BY <1>1, <1>4, <1>9, Accepts

(* The job of a lane is taken out of the queue.                             *)
LEMMA StatusRemoved ==
  ASSUME TypeInv, NEW i \in Ids, Issued(i), RemoveJobRecords({i}), UNCHANGED spec
  PROVE  Status' = [Status EXCEPT ![i] = "settled"]
<1>1. ~Live(i)' /\ \A j \in Ids \ {i} : Live(j)' <=> Live(j)
  BY DEF RemoveJobRecords, Live, NoJob
<1> QED BY <1>1 DEF Status, Issued

LEMMA RequeueingSame ==
  ASSUME TypeInv, NEW x \in Lanes, pc[x] # "requeueing", pc'[x] # "requeueing",
         \A y \in Lanes \ {x} : pc'[y] = pc[y] /\ held'[y] = held[y], UNCHANGED spec
  PROVE  \A i \in Ids : Requeued(i)' <=> Requeued(i)
BY DEF Requeued, Snoozed

LEMMA MapInit == Init => Promised!Init
<1> SUFFICES ASSUME Init PROVE Promised!Init
  OBVIOUS
<1>1. \A i \in Ids : /\ ~Issued(i) /\ ~Dead(i) /\ starts[i] = 0 /\ i \notin finished
                    /\ spec[i].source = NoId
  BY DEF Init, StoreInit, Issued, NoSpec, Dead
<1>2. \A i \in Ids : ~Requeued(i)
  BY <1>1, ConstantsOK DEF Init, Requeued, Snoozed, ConstantsOK
<1>3. /\ Status = [i \in Ids |-> "unknown"] /\ Started = {}
      /\ Ends = [i \in Ids |-> {}]
  BY <1>1, <1>2 DEF Status, Started, Ends
<1> QED BY <1>3 DEF Promised!Init, Status, Started, Ends

LEMMA LaneMaps ==
  ASSUME SnoozeSafe, LossInv, TypeInv', Ran, NEW x \in Lanes, LaneStep(x)
  PROVE  Allowed
<1>t. TypeInv /\ AckedIsRecorded
  BY DEF LossInv
<1>0. PICK job \in Ids : job = held[x]
  BY LaneLabels
<1>1. /\ pc[x] # "idle" /\ Issued(job) /\ pc[x] \in Labels /\ starts \in [Ids -> Nat]
      /\ \A y \in Lanes \ {x} : pc'[y] = pc[y] /\ held'[y] = held[y]
  BY <1>t, <1>0, LaneLabels DEF TypeInv, RuntimeTypeOK
<1>2. Running(x) => job \in Started
  BY <1>0 DEF Ran, Started
<1>3. CASE Begin(x) \/ Retry(x)
  <2>1. /\ UNCHANGED <<storeVars, finished>>
        /\ starts' = [starts EXCEPT ![job] = IF @ > MaxAttempts THEN @ ELSE @ + 1]
        /\ pc[x] # "requeueing" /\ pc'[x] # "requeueing"
    BY <1>t, <1>0, <1>3 DEF Begin, Retry, Goto, TypeInv, RuntimeTypeOK
  <2>2. UNCHANGED spec /\ \A i \in Ids : Requeued(i)' <=> Requeued(i)
    BY <1>t, <1>1, <2>1, RequeueingSame DEF storeVars
  <2>3. UNCHANGED <<Status, Ends>>
    BY <2>1, <2>2, SameStatus, SameEnds DEF storeVars, Issued, Live, Dead
  <2>4. Started' = Started \cup {job}
    <3>1. starts'[job] > 0 /\ \A i \in Ids \ {job} : starts'[i] = starts[i]
      BY <1>1, <2>1, RuntimeConstantsOK DEF RuntimeConstantsOK
    <3> QED BY <3>1 DEF Started
  <2>5. Status[job] # "unknown"
    BY <1>1 DEF Status
  <2> QED BY <2>3, <2>4, <2>5, Starts
<1>4. CASE SnoozeEnqueue(x)
  <2> DEFINE copy == [spec[job] EXCEPT !.createdAt = Now, !.source = job]
  <2>1. PICK n \in Fresh : Enqueue(n, copy, TRUE)
    BY <1>0, <1>4 DEF SnoozeEnqueue
  <2>2. Keys = {} /\ spec[job] \in Specs
    BY <1>t, <1>1, <1>4, IssuedSpec DEF SnoozeEnqueue, LossInv, SnoozesOnPolicy, SnoozeSafe, TypeInv,
       RuntimeTypeOK
  <2>3. copy \in Specs /\ copy.source = job /\ ~KeyHeld(copy.key)
    BY <2>2, NowType DEF Specs, KeyHeld
  <2>4. spec' = [spec EXCEPT ![n] = copy] /\ UNCHANGED deadLetter
        /\ Live(n)' /\ \A i \in Ids \ {n} : jobs'[i] = jobs[i]
    <3>1. n \in Ids /\ jobs \in [Ids -> Records]
      BY <1>t, SpecOfFresh DEF TypeInv, RuntimeTypeOK, StoreTypeOK
    <3> HIDE DEF copy
    <3>2. /\ spec' = [spec EXCEPT ![n] = copy] /\ UNCHANGED deadLetter
          /\ jobs' = [jobs EXCEPT ![n] = [state |-> "queued", delayed |-> TRUE, attempts |-> 0]]
      BY <2>1, <2>3 DEF Enqueue
    <3> QED BY <3>1, <3>2 DEF Live
  <2>5. UNCHANGED <<finished, starts>> /\ pc'[x] = "idle"
    BY <1>t, <1>4 DEF SnoozeEnqueue, history, EndLane, TypeInv, RuntimeTypeOK
  <2>6. \A i \in Ids : i # job => (Requeueing(i)' <=> Requeueing(i))
    BY <1>0, <1>1, <2>5 DEF Requeueing
  <2>7. Requeued(job)
    BY <1>0, <1>4 DEF SnoozeEnqueue, Requeued
  <2>8. \A i \in Ids : Dead(i)' <=> Dead(i)
    BY <2>4 DEF Dead
  <2> HIDE DEF copy
  <2> QED BY <1>t, <2>3, <2>4, <2>5, <2>6, <2>7, <2>8, NewRecord
<1>5. CASE SnoozeAck(x)
  <2>1. /\ UNCHANGED <<spec, deadLetter, finished, starts>> /\ RemoveJobRecords({job})
        /\ pc'[x] = "requeueing" /\ held'[x] = job /\ Running(x) /\ pc[x] # "requeueing"
    BY <1>t, <1>0, <1>5 DEF SnoozeAck, Ack, history, Goto, Running, TypeInv, RuntimeTypeOK
  <2>2. Requeued(job)' /\ \A i \in Ids \ {job} : Requeued(i)' <=> Requeued(i)
    BY <1>0, <1>1, <2>1 DEF Requeued, Snoozed
  <2>3. Ends' = [Ends EXCEPT ![job] = @ \cup {"snoozed"}]
    BY <2>1, <2>2 DEF Ends, Dead
  <2>4. Status' = [Status EXCEPT ![job] = "settled"] /\ UNCHANGED Started
    BY <1>t, <1>1, <2>1, StatusRemoved DEF Started
  <2> QED BY <1>2, <2>1, <2>3, <2>4, Concludes
<1>6. CASE Bury(x)
  <2>1. /\ UNCHANGED <<spec, finished, starts>> /\ RemoveJobRecords({job})
        /\ deadLetter' = [deadLetter EXCEPT ![job].copies = @ + 1]
        /\ pc'[x] = "idle" /\ Running(x) /\ pc[x] # "requeueing"
    BY <1>t, <1>0, <1>6 DEF Bury, MoveToDeadLetter, history, EndLane, Running, TypeInv, RuntimeTypeOK
  <2>2. \A i \in Ids : Requeued(i)' <=> Requeued(i)
    BY <1>t, <1>1, <2>1, RequeueingSame
  <2>3. Dead(job)' /\ \A i \in Ids \ {job} : Dead(i)' <=> Dead(i)
    BY <1>t, <2>1 DEF Dead, TypeInv, RuntimeTypeOK, StoreTypeOK
  <2>4. Ends' = [Ends EXCEPT ![job] = @ \cup {"dead"}]
    BY <2>1, <2>2, <2>3 DEF Ends
  <2>5. Status' = [Status EXCEPT ![job] = "settled"] /\ UNCHANGED Started
    BY <1>t, <1>1, <2>1, StatusRemoved DEF Started
  <2> QED BY <1>2, <2>1, <2>4, <2>5, Concludes
<1>7. CASE Record(x)
  <2>1. /\ UNCHANGED <<spec, jobs, deadLetter, starts>> /\ finished' = finished \cup {job}
        /\ pc'[x] = "acking" /\ Running(x) /\ pc[x] = "storing"
    BY <1>t, <1>0, <1>7 DEF Record, AddCompletedJob, Goto, Running, TypeInv, RuntimeTypeOK
  <2>2. \A i \in Ids : Requeued(i)' <=> Requeued(i)
    BY <1>t, <1>1, <2>1, RequeueingSame
  <2>3. Ends' = [Ends EXCEPT ![job] = @ \cup {"completed"}]
    BY <2>1, <2>2 DEF Ends, Dead
  <2>4. UNCHANGED <<Status, Started>>
    BY <2>1, SameStatus DEF Issued, Live, Started
  <2> QED BY <1>2, <2>1, <2>3, <2>4, Concludes
<1>8. CASE Acknowledge(x)
  <2>1. /\ UNCHANGED <<spec, deadLetter, starts, finished>> /\ RemoveJobRecords({job})
        /\ pc'[x] = "ending" /\ pc[x] = "acking"
    BY <1>t, <1>0, <1>8 DEF Acknowledge, Ack, history, Goto, TypeInv, RuntimeTypeOK
  <2>2. \A i \in Ids : Requeued(i)' <=> Requeued(i)
    BY <1>t, <1>1, <2>1, RequeueingSame
  <2>3. UNCHANGED <<Started, Ends>>
    BY <2>1, <2>2, SameEnds DEF Started, Dead
  <2>4. Status' = [Status EXCEPT ![job] = "settled"]
    BY <1>t, <1>1, <2>1, StatusRemoved
  <2>5. "completed" \in Ends[job]
    BY <1>t, <1>0, <2>1 DEF AckedIsRecorded, Ends
  <2>6. CASE Live(job)
    BY <1>1, <2>3, <2>4, <2>5, <2>6, Settles DEF Status
  <2>7. CASE ~Live(job)
    <3>1. UNCHANGED Status
      BY <1>1, <2>4, <2>7 DEF Status
    <3> QED BY <2>3, <3>1, Stutters DEF Mapped
  <2> QED BY <2>6, <2>7
<1>9. CASE ~(\/ Begin(x) \/ Retry(x) \/ SnoozeEnqueue(x) \/ SnoozeAck(x) \/ Bury(x) \/ Record(x)
             \/ Acknowledge(x))
  <2>1. UNCHANGED <<spec, deadLetter, starts, finished>>
    BY <1>9 DEF LaneStep, Unrunnable, Beat, ExtendLease, HandlerOk, Return, Catch, CountAttempt,
       UpdateAttempts, Decide, HookThrows, storeVars, history
  <2>2. pc[x] # "requeueing" /\ pc'[x] # "requeueing"
    BY <1>t, <1>9 DEF LaneStep, Unrunnable, Beat, HandlerOk, Return, Catch, Rejects, CountAttempt,
       Decide, HookThrows, Goto, EndLane, TypeInv, RuntimeTypeOK, BeatsWhileRunning
  <2>3. \A i \in Ids : Live(i)' <=> Live(i)
    <3>1. CASE CountAttempt(x)
      BY <1>t, <1>0, <3>1 DEF CountAttempt, UpdateAttempts, Live, TypeInv, RuntimeTypeOK, StoreTypeOK,
         Records
    <3>2. CASE ~CountAttempt(x)
      BY <1>9, <3>2 DEF LaneStep, Unrunnable, Beat, ExtendLease, HandlerOk, Return, Catch, Decide,
         HookThrows, storeVars, Live
    <3> QED BY <3>1, <3>2
  <2>4. \A i \in Ids : Requeued(i)' <=> Requeued(i)
    BY <1>t, <1>1, <2>1, <2>2, RequeueingSame
  <2>5. UNCHANGED Mapped
    BY <2>1, <2>3, <2>4, SameStatus, SameEnds DEF Mapped, Issued, Dead, Started
  <2> QED BY <2>5, Stutters
<1> QED BY <1>3, <1>4, <1>5, <1>6, <1>7, <1>8, <1>9

(* A step that touches no lane and no job's traces.                         *)
LEMMA LanesMap ==
  ASSUME UNCHANGED <<spec, deadLetter, starts, finished>>,
         \A i \in Ids : Live(i)' <=> Live(i), \A i \in Ids : Requeueing(i)' <=> Requeueing(i)
  PROVE  Allowed
<1>1. \A i \in Ids : Requeued(i)' <=> Requeued(i)
  BY DEF Requeued, Requeueing, Snoozed
<1>2. UNCHANGED Mapped
  BY <1>1, SameStatus, SameEnds DEF Mapped, Issued, Dead, Started
<1> QED BY <1>2, Stutters

LEMMA MapStep == SnoozeSafe /\ LossInv /\ TypeInv' /\ Ran /\ [Next]_vars => Allowed
<1> SUFFICES ASSUME SnoozeSafe, LossInv, TypeInv', Ran, [Next]_vars PROVE Allowed
  OBVIOUS
<1>t. TypeInv
  BY DEF LossInv
<1>r. UNCHANGED <<laneVars, history>> =>
        UNCHANGED <<starts, finished>> /\ \A i \in Ids : Requeueing(i)' <=> Requeueing(i)
  BY DEF laneVars, history, Requeueing
<1>1. CASE Dispatch
  <2>1. PICK n \in Fresh, p \in Priorities, k \in Keys \cup {NoKey}, d \in BOOLEAN :
          Enqueue(n, NewSpec(Queue, p, k), d) /\ UNCHANGED <<laneVars, history>>
    BY <1>1 DEF Dispatch
  <2> DEFINE s == NewSpec(Queue, p, k)
  <2>2. s \in Specs /\ s.source = NoId /\ UNCHANGED deadLetter
    BY <2>1, NewSpecType, QueueKnown DEF NewSpec, Enqueue
  <2>3. CASE KeyHeld(s.key)
    <3>1. UNCHANGED <<spec, jobs, deadLetter>>
      BY <2>1, <2>3 DEF Enqueue
    <3> QED BY <1>r, <2>1, <3>1, LanesMap DEF Live
  <2>4. CASE ~KeyHeld(s.key)
    <3>1. spec' = [spec EXCEPT ![n] = s] /\ Live(n)' /\ \A i \in Ids \ {n} : jobs'[i] = jobs[i]
      BY <1>t, <2>1, <2>4, SpecOfFresh DEF Enqueue, Live, TypeInv, RuntimeTypeOK, StoreTypeOK
    <3>2. \A i \in Ids : Dead(i)' <=> Dead(i)
      BY <2>2 DEF Dead
    <3> HIDE DEF s
    <3> QED BY <1>t, <1>r, <2>1, <2>2, <3>1, <3>2, NewRecord, ConstantsOK DEF ConstantsOK
  <2> QED BY <2>3, <2>4
<1>2. CASE Promote
  <2>1. \A i \in Ids : Live(i)' <=> Live(i)
    BY <1>2, <1>t DEF Promote, PromoteJob, Live, TypeInv, RuntimeTypeOK, StoreTypeOK
  <2> QED BY <1>2, <1>r, <2>1, LanesMap DEF Promote, PromoteJob
<1>3. CASE Replay
  <2>1. PICK i \in Ids, n \in Fresh : RetryDeadLetterJob(i, n) /\ UNCHANGED <<laneVars, history>>
    BY <1>3 DEF Replay
  <2> DEFINE s == [spec[i] EXCEPT !.createdAt = Now, !.key = NoKey]
  <2>2. Issued(i)
    BY <1>t, <2>1 DEF RetryDeadLetterJob, TypeInv, OnlyIssued
  <2>3. spec[i] \in Specs
    BY <1>t, <2>2, IssuedSpec DEF TypeInv, RuntimeTypeOK
  <2>4. s \in Specs /\ s.source = spec[i].source
    BY <2>3, NowType DEF Specs
  <2>5. /\ spec' = [spec EXCEPT ![n] = s] /\ Live(n)' /\ \A j \in Ids \ {n} : jobs'[j] = jobs[j]
        /\ \A j \in Ids : Dead(j)' <=> Dead(j)
    <3>1. n \in Ids /\ jobs \in [Ids -> Records]
          /\ deadLetter \in [Ids -> [copies : Nat, retried : BOOLEAN]]
      BY <1>t, SpecOfFresh DEF TypeInv, RuntimeTypeOK, StoreTypeOK
    <3> HIDE DEF s
    <3>2. /\ spec' = [spec EXCEPT ![n] = s] /\ deadLetter' = [deadLetter EXCEPT ![i].retried = TRUE]
          /\ jobs' = [jobs EXCEPT ![n] = [state |-> "queued", delayed |-> FALSE, attempts |-> 0]]
      BY <2>1 DEF RetryDeadLetterJob, s
    <3> QED BY <3>1, <3>2 DEF Live, Dead
  <2>6. s.source \in Ids => Requeued(s.source)
    BY <2>4 DEF Requeued, Snoozed
  <2> HIDE DEF s
  <2> QED BY <1>t, <1>r, <2>1, <2>4, <2>5, <2>6, NewRecord
<1>4. CASE ClockTick
  BY <1>4, LanesMap DEF ClockTick, Live, Requeueing, history
<1>5. ASSUME NEW w \in Workers, Lease(w) PROVE Allowed
  <2>1. PICK S \in Batches(Queue, BatchSize) : \E f \in Assignments(w, S) : LeaseBatch(w, S, f)
    BY <1>5 DEF Lease
  <2>2. PICK f \in Assignments(w, S) : LeaseBatch(w, S, f)
    BY <2>1
  <2>3. \A i \in S : Live(i)
    BY DEF Batches, Dequeuable
  <2>4. \A i \in Ids : Live(i)' <=> Live(i)
    BY <2>2, <2>3, <1>t DEF LeaseBatch, Dequeue, Live, TypeInv, RuntimeTypeOK, StoreTypeOK, Records
  <2>5. \A y \in Lanes : /\ pc'[y] = "requeueing" <=> pc[y] = "requeueing"
                         /\ pc[y] = "requeueing" => held'[y] = held[y]
    BY <2>2, <1>5 DEF LeaseBatch, Lease, LanesOf
  <2>6. \A i \in Ids : Requeueing(i)' <=> Requeueing(i)
    BY <2>5 DEF Requeueing
  <2> QED BY <2>2, <2>4, <2>6, LanesMap DEF LeaseBatch, Dequeue
<1>6. ASSUME NEW x \in Lanes, LaneStep(x) PROVE Allowed
  BY <1>6, LaneMaps
<1>7. CASE UNCHANGED vars
  BY <1>7, <1>r, LanesMap DEF vars, storeVars, Live
<1> QED BY <1>1, <1>2, <1>3, <1>4, <1>5, <1>6, <1>7 DEF Next

(* The runtime implements Delivery, for any number of workers, lanes, jobs  *)
(* and faults: nothing leaves the queue without a run of its own that had   *)
(* an outcome, and nothing settled is queued again.                         *)
THEOREM ImplementsDelivery == SnoozeSafe /\ Spec => Delivers
<1>1. Init => LossInv /\ Ran
  BY LossInit DEF Init, Ran, Running
<1>2. SnoozeSafe /\ LossInv /\ Ran /\ [Next]_vars => (LossInv /\ Ran)'
  BY LossStep, RanStep DEF LossInv
<1>3. SnoozeSafe /\ LossInv /\ Ran /\ [Next]_vars => [Promised!Next]_(Promised!vars)
  BY TypeStep, MapStep DEF LossInv, Allowed
<1>4. ASSUME SnoozeSafe PROVE Spec => Delivers
  <2>1. LossInv /\ Ran /\ [Next]_vars => (LossInv /\ Ran)'
    BY <1>2, <1>4
  <2>2. LossInv /\ Ran /\ [Next]_vars => [Promised!Next]_(Promised!vars)
    BY <1>3, <1>4
  <2> QED BY <1>1, <2>1, <2>2, MapInit, PTL DEF Spec, Delivers, Promised!Spec
<1> QED BY <1>4

-----------------------------------------------------------------------------
(* One outcome.  The awaits after the completion record do not reject: when *)
(* they do, a completed job is retried, and may be buried as well.          *)
AckSafe == Faults \cap {"ack", "onProcessEnd"} = {}

(* A job that no two lanes shared: where its one lane is says what has      *)
(* become of it, and whatever has become of it, it is not live any more.    *)
OneWay(i) ==
  /\ deadLetter[i].copies <= 1
  /\ \A x, y \in Holders(i) : x = y
  /\ \A x \in Holders(i) :
       /\ ~Dead(i) /\ ~Snoozed(i)
       /\ i \in finished <=> pc[x] \in {"acking", "ending"}
       /\ Live(i) <=> pc[x] \notin {"ending", "requeueing"}
  /\ Holders(i) = {} /\ i \in finished => ~Live(i)
  /\ Dead(i) => i \notin finished /\ ~Live(i)
  /\ Snoozed(i) => i \notin finished /\ ~Live(i) /\ ~Dead(i)

(* The traces of a job name jobs that were accepted, so a new id has none.  *)
TracesIssued ==
  /\ \A i \in finished : Issued(i)
  /\ \A i \in Ids : spec[i].source \in Ids => Issued(spec[i].source)

OutcomeInv == TypeInv /\ TracesIssued /\ \A i \in Ids \ shared : OneWay(i)

LEMMA OutcomeInit == Init => OutcomeInv
<1> SUFFICES ASSUME Init PROVE OutcomeInv
  OBVIOUS
<1>1. /\ \A i \in Ids : deadLetter[i].copies = 0 /\ spec[i].source = NoId /\ ~Live(i) /\ Holders(i) = {}
      /\ finished = {}
  BY DEF Init, StoreInit, NoSpec, NoJob, Live, Holders
<1>2. \A i \in Ids : ~Snoozed(i) /\ ~Dead(i)
  BY <1>1, ConstantsOK DEF Snoozed, Dead, ConstantsOK
<1> QED BY <1>1, <1>2, TypeInit, ConstantsOK DEF OutcomeInv, TracesIssued, OneWay, ConstantsOK

(* A job is as it was.                                                      *)
Same(i) ==
  /\ deadLetter'[i].copies = deadLetter[i].copies /\ (Snoozed(i)' <=> Snoozed(i))
  /\ (i \in finished' <=> i \in finished) /\ (Live(i)' <=> Live(i))
  /\ Holders(i)' = Holders(i)
  /\ \A x \in Holders(i) : \A l \in {"acking", "ending", "requeueing"} : pc'[x] = l <=> pc[x] = l

LEMMA SameOneWay == ASSUME NEW i \in Ids, OneWay(i), Same(i) PROVE OneWay(i)'
<1>1. Dead(i)' <=> Dead(i)
  BY DEF Same, Dead
<1> QED BY <1>1 DEF Same, OneWay

(* A record under a new id leaves the other jobs' records alone, and their  *)
(* traces unless it is a copy.                                              *)
LEMMA NewIsFree ==
  ASSUME OutcomeInv, NEW n \in Fresh
  PROVE  /\ n \in Ids /\ n \notin finished /\ ~Dead(n) /\ ~Snoozed(n) /\ Holders(n) = {} /\ ~Live(n)
         /\ deadLetter[n].copies = 0
<1>1. n \in Ids /\ ~Issued(n)
  BY DEF Fresh
<1>2. deadLetter[n].copies \in Nat /\ ~Dead(n) /\ ~Live(n)
  BY <1>1 DEF OutcomeInv, TypeInv, OnlyIssued, RuntimeTypeOK, StoreTypeOK, Dead
<1>3. Holders(n) = {}
  BY <1>1 DEF OutcomeInv, TypeInv, RuntimeTypeOK, Holders
<1> QED BY <1>1, <1>2, <1>3 DEF OutcomeInv, TracesIssued, Snoozed, Dead

LEMMA NewOutcomes ==
  ASSUME OutcomeInv, TypeInv', NEW n \in Fresh, NEW s \in Specs,
         spec' = [spec EXCEPT ![n] = s], Live(n)', \A i \in Ids \ {n} : jobs'[i] = jobs[i],
         \A i \in Ids : deadLetter'[i].copies = deadLetter[i].copies,
         UNCHANGED <<finished, shared>>,
         s.source \in Ids => Issued(s.source)
  PROVE  /\ TracesIssued'
         /\ \A i \in Ids \ {n} : i # s.source => (Snoozed(i)' <=> Snoozed(i))
         /\ s.source \in Ids => Snoozed(s.source)'
         /\ Holders(n)' = {} => OneWay(n)'
<1>1. n \in Ids /\ spec[n].source = NoId /\ ~Issued(n) /\ s.queue # NoQueue
  BY SpecOfFresh, ConstantsOK DEF OutcomeInv, Fresh, Specs, ConstantsOK
<1>2. spec'[n] = s /\ \A i \in Ids \ {n} : spec'[i] = spec[i]
  BY <1>1 DEF OutcomeInv, TypeInv, RuntimeTypeOK, StoreTypeOK
<1>3. \A i \in Ids : Issued(i)' <=> Issued(i) \/ i = n
  BY <1>1, <1>2 DEF Issued
<1>4. \A i \in Ids : Snoozed(i)' <=> Snoozed(i) \/ i = s.source
  BY <1>1, <1>2, ConstantsOK DEF Snoozed, ConstantsOK
<1>5. TracesIssued'
  <2>1. \A i \in finished' : i \in Ids /\ Issued(i)
    BY DEF OutcomeInv, TracesIssued, TypeInv, RuntimeTypeOK
  <2>2. \A i \in Ids : spec'[i].source \in Ids => Issued(spec'[i].source)
    BY <1>2 DEF OutcomeInv, TracesIssued
  <2>3. \A i \in Ids : Issued(i) => spec'[i].queue # NoQueue
    BY <1>3 DEF Issued
  <2> QED BY <2>1, <2>2, <2>3 DEF TracesIssued, Issued
<1>6. Holders(n)' = {} => OneWay(n)'
  <2>1. ~Snoozed(n)' /\ n \notin finished' /\ deadLetter'[n].copies = 0
    BY <1>1, <1>4, NewIsFree
  <2> QED BY <2>1 DEF OneWay, Dead
<1> QED BY <1>4, <1>5, <1>6

(* What a step that does not move a lane must show: nothing but the new     *)
(* record changes.                                                          *)
LEMMA NewRecordOutcome ==
  ASSUME OutcomeInv, TypeInv', NEW n \in Fresh, NEW s \in Specs,
         spec' = [spec EXCEPT ![n] = s], Live(n)', \A i \in Ids \ {n} : jobs'[i] = jobs[i],
         \A i \in Ids : deadLetter'[i].copies = deadLetter[i].copies,
         UNCHANGED <<laneVars, history>>,
         s.source \in Ids => Snoozed(s.source)
  PROVE  OutcomeInv'
<1>1. UNCHANGED <<finished, shared, pc, held>> /\ \A i \in Ids : Holders(i)' = Holders(i)
  BY DEF laneVars, history, Holders
<1>2. s.source \in Ids => Issued(s.source)
  BY DEF OutcomeInv, TracesIssued, Snoozed
<1>3. /\ TracesIssued'
      /\ \A i \in Ids \ {n} : i # s.source => (Snoozed(i)' <=> Snoozed(i))
      /\ s.source \in Ids => Snoozed(s.source)'
      /\ Holders(n)' = {} => OneWay(n)'
  BY <1>1, <1>2, NewOutcomes
<1>4. OneWay(n)'
  BY <1>1, <1>3, NewIsFree
<1>5. \A i \in Ids \ {n} : Same(i)
  BY <1>1, <1>3 DEF Same, Live
<1>6. \A i \in Ids \ shared' : OneWay(i)'
  BY <1>1, <1>4, <1>5, SameOneWay DEF OutcomeInv
<1> QED BY <1>3, <1>6 DEF OutcomeInv

LEMMA LeaseOutcome ==
  ASSUME OutcomeInv, TypeInv', NEW w \in Workers, Lease(w)
  PROVE  OutcomeInv'
<1>1. PICK S \in Batches(Queue, BatchSize) : \E f \in Assignments(w, S) : LeaseBatch(w, S, f)
  BY DEF Lease
<1>2. PICK f \in Assignments(w, S) : LeaseBatch(w, S, f)
  BY <1>1
<1>3. /\ S \subseteq Ids /\ \A i \in S : Live(i)
      /\ UNCHANGED <<spec, deadLetter, finished>> /\ shared' = shared \cup {i \in S : Holders(i) # {}}
  BY <1>2 DEF Batches, Dequeuable, LeaseBatch, Dequeue
<1>4. \A i \in Ids : Live(i)' <=> Live(i)
  BY <1>2, <1>3 DEF LeaseBatch, Dequeue, Live, OutcomeInv, TypeInv, RuntimeTypeOK, StoreTypeOK, Records
<1>5. \A x \in Lanes : \/ pc'[x] = pc[x] /\ held'[x] = held[x]
                       \/ pc[x] = "idle" /\ pc'[x] = "idle"
                       \/ /\ pc[x] = "idle" /\ pc'[x] = "submitted" /\ held'[x] \in S
                          /\ x \in LanesOf(w) /\ held'[x] = f[x]
  <2> TAKE x \in Lanes
  <2>1. CASE x \in LanesOf(w)
    <3>1. f[x] \in S \cup {NoId} /\ pc[x] = "idle"
      BY <2>1 DEF Assignments, Lease
    <3> QED BY <1>2, <2>1, <3>1 DEF LeaseBatch
  <2>2. CASE x \notin LanesOf(w)
    BY <1>2, <2>2 DEF LeaseBatch
  <2> QED BY <2>1, <2>2
<1>6. \A i \in Ids : Snoozed(i)' <=> Snoozed(i)
  BY <1>3 DEF Snoozed
<1>7. ASSUME NEW i \in Ids \ shared', i \notin S PROVE OneWay(i)'
  <2>1. Holders(i)' = Holders(i)
    BY <1>5, <1>7 DEF Holders
  <2>2. \A x \in Holders(i) : pc'[x] = pc[x]
    BY <1>5 DEF Holders
  <2>3. Same(i)
    BY <1>3, <1>4, <1>6, <2>1, <2>2 DEF Same
  <2>4. i \in Ids \ shared
    BY <1>3, <1>7
  <2> QED BY <2>3, <2>4, SameOneWay DEF OutcomeInv
<1>8. ASSUME NEW i \in Ids \ shared', i \in S PROVE OneWay(i)'
  <2>1. OneWay(i) /\ Holders(i) = {} /\ Live(i) /\ Live(i)'
    BY <1>3, <1>4, <1>8 DEF OutcomeInv
  <2>2. i \notin finished' /\ ~Dead(i)' /\ ~Snoozed(i)' /\ deadLetter'[i].copies <= 1
    BY <1>3, <1>6, <2>1 DEF OneWay, Dead
  <2>3. \A x \in Lanes : x \in Holders(i)' => pc'[x] = "submitted" /\ x \in LanesOf(w) /\ f[x] = i
    BY <1>5, <2>1 DEF Holders
  <2>4. \A x, y \in LanesOf(w) : f[x] = i /\ f[y] = i => x = y
    BY <1>8 DEF Assignments
  <2>5. Holders(i)' \subseteq Lanes
    BY DEF Holders
  <2>6. \A x, y \in Holders(i)' : x = y
    BY <2>3, <2>4, <2>5
  <2>7. \A x \in Holders(i)' : pc'[x] = "submitted"
    BY <2>3, <2>5
  <2> QED BY <2>1, <2>2, <2>6, <2>7 DEF OneWay
<1>9. TracesIssued'
  BY <1>3 DEF OutcomeInv, TracesIssued, Issued
<1> QED BY <1>7, <1>8, <1>9 DEF OutcomeInv

(* The job of a lane after its step; the cases are what the step does to    *)
(* the job's record and traces.                                             *)
LEMMA JobOutcome ==
  ASSUME AckSafe, OutcomeInv, TypeInv', NEW x \in Lanes, LaneStep(x), ~SnoozeEnqueue(x),
         NEW job \in Ids \ shared, job = held[x], pc[x] # "idle",
         \A y \in Lanes \ {x} : pc'[y] = pc[y] /\ held'[y] = held[y],
         pc'[x] # "idle" => held'[x] = job
  PROVE  OneWay(job)'
<1>t. TypeInv /\ OneWay(job)
  BY DEF OutcomeInv
<1>1. /\ Holders(job) = {x}
      /\ ~Dead(job) /\ ~Snoozed(job) /\ deadLetter[job].copies = 0
      /\ job \in finished <=> pc[x] \in {"acking", "ending"}
      /\ Live(job) <=> pc[x] \notin {"ending", "requeueing"}
  <2>1. x \in Holders(job)
    BY DEF Holders
  <2>2. deadLetter[job].copies \in Nat
    BY <1>t DEF TypeInv, RuntimeTypeOK, StoreTypeOK
  <2> QED BY <1>t, <2>1, <2>2 DEF OneWay, Dead
<1>2. IF pc'[x] = "idle" THEN Holders(job)' = {} ELSE Holders(job)' = {x}
  BY <1>1 DEF Holders
<1>3. UNCHANGED spec
  BY DEF LaneStep, Begin, Unrunnable, HandlerOk, Record, AddCompletedJob, Return, Acknowledge, Ack, Catch,
     Beat, ExtendLease, CountAttempt, UpdateAttempts, Decide, HookThrows, Retry, Bury, MoveToDeadLetter,
     SnoozeAck, storeVars
<1>4. ~Snoozed(job)'
  BY <1>1, <1>3 DEF Snoozed
<1>5. CASE Record(x)
  <2>1. /\ UNCHANGED <<jobs, deadLetter>> /\ finished' = finished \cup {job}
        /\ pc'[x] = "acking" /\ pc[x] = "storing"
    BY <1>t, <1>5 DEF Record, AddCompletedJob, Goto, TypeInv, RuntimeTypeOK
  <2> QED BY <1>1, <1>2, <1>4, <2>1 DEF OneWay, Dead, Live
<1>6. CASE Acknowledge(x) \/ SnoozeAck(x)
  <2>1. /\ UNCHANGED <<deadLetter, finished>> /\ RemoveJobRecords({job})
        /\ pc'[x] \in {"ending", "requeueing"}
        /\ pc'[x] = "ending" <=> pc[x] = "acking"
        /\ pc[x] \in {"acking", "snoozing"}
    BY <1>t, <1>6 DEF Acknowledge, SnoozeAck, Ack, history, Goto, TypeInv, RuntimeTypeOK
  <2>2. ~Live(job)'
    BY <2>1 DEF RemoveJobRecords, Live, NoJob
  <2> QED BY <1>1, <1>2, <1>4, <2>1, <2>2 DEF OneWay, Dead
<1>7. CASE Bury(x)
  <2>1. /\ deadLetter' = [deadLetter EXCEPT ![job].copies = @ + 1] /\ RemoveJobRecords({job})
        /\ UNCHANGED finished /\ pc'[x] = "idle" /\ pc[x] = "burying"
    BY <1>t, <1>7 DEF Bury, MoveToDeadLetter, history, EndLane, TypeInv, RuntimeTypeOK
  <2>2. ~Live(job)'
    BY <2>1 DEF RemoveJobRecords, Live, NoJob
  <2>3. deadLetter'[job].copies = 1
    BY <1>t, <1>1, <2>1 DEF TypeInv, RuntimeTypeOK, StoreTypeOK
  <2> QED BY <1>1, <1>2, <1>4, <2>1, <2>2, <2>3 DEF OneWay
<1>8. CASE ~(Record(x) \/ Acknowledge(x) \/ SnoozeAck(x) \/ Bury(x))
  <2>1. UNCHANGED <<deadLetter, finished>>
    BY <1>8 DEF LaneStep, Begin, Unrunnable, HandlerOk, Return, Catch, Beat, ExtendLease, CountAttempt,
       UpdateAttempts, Decide, HookThrows, Retry, storeVars, history
  <2>2. Live(job)' <=> Live(job)
    <3>1. CASE CountAttempt(x)
      BY <1>t, <3>1 DEF CountAttempt, UpdateAttempts, Live, TypeInv, RuntimeTypeOK, StoreTypeOK, Records
    <3>2. CASE ~CountAttempt(x)
      BY <1>8, <3>2 DEF LaneStep, Begin, Unrunnable, HandlerOk, Return, Catch, Beat, ExtendLease,
         Decide, HookThrows, Retry, storeVars, Live
    <3> QED BY <3>1, <3>2
  <2>3. \/ pc[x] = "ending" /\ pc'[x] = "idle"
        \/ /\ pc[x] \notin {"acking", "ending", "requeueing"}
           /\ pc'[x] \notin {"acking", "ending", "requeueing"}
    BY <1>t, <1>8 DEF LaneStep, Begin, Unrunnable, HandlerOk, Return, Catch, Rejects, AckSafe, Beat,
       CountAttempt, Decide, HookThrows, Retry, Goto, EndLane, TypeInv, RuntimeTypeOK, BeatsWhileRunning
  <2> QED BY <1>1, <1>2, <1>4, <2>1, <2>2, <2>3 DEF OneWay, Dead
<1> QED BY <1>5, <1>6, <1>7, <1>8

LEMMA LaneOutcome ==
  ASSUME AckSafe, OutcomeInv, TypeInv', NEW x \in Lanes, LaneStep(x)
  PROVE  OutcomeInv'
<1>t. TypeInv /\ TracesIssued
  BY DEF OutcomeInv
<1>1. pc[x] # "idle"
  BY <1>t DEF LaneStep, Begin, Unrunnable, HandlerOk, Record, Acknowledge, Return, Catch, Beat,
     Rejects, CountAttempt, Decide, HookThrows, Retry, Bury, SnoozeAck, SnoozeEnqueue,
     TypeInv, BeatsWhileRunning
<1>2. PICK job \in Ids : job = held[x]
  BY <1>t, <1>1 DEF TypeInv, RuntimeTypeOK
<1>3. /\ \A y \in Lanes \ {x} : pc'[y] = pc[y] /\ held'[y] = held[y]
      /\ pc'[x] # "idle" => held'[x] = job
  BY <1>t, <1>2 DEF LaneStep, Begin, Unrunnable, HandlerOk, Record, Acknowledge, Return, Catch, Beat,
     CountAttempt, Decide, HookThrows, Retry, Bury, SnoozeAck, SnoozeEnqueue,
     Goto, EndLane, TypeInv, RuntimeTypeOK
<1>4. shared' = shared
  BY DEF LaneStep, Begin, Unrunnable, HandlerOk, Record, Acknowledge, Return, Catch, Beat,
     CountAttempt, Decide, HookThrows, Retry, Bury, SnoozeAck, SnoozeEnqueue, history
<1>5. \A i \in Ids \ {job} : /\ Holders(i)' = Holders(i)
                            /\ \A y \in Holders(i) : pc'[y] = pc[y]
  BY <1>2, <1>3 DEF Holders
<1>6. Issued(job)
  BY <1>t, <1>1, <1>2 DEF TypeInv, RuntimeTypeOK
<1>7. CASE SnoozeEnqueue(x)
  <2> DEFINE copy == [spec[job] EXCEPT !.createdAt = Now, !.source = job]
  <2>1. PICK n \in Fresh : Enqueue(n, copy, TRUE)
    BY <1>2, <1>7 DEF SnoozeEnqueue
  <2>2. spec[job] \in Specs
    BY <1>t, <1>6, IssuedSpec DEF TypeInv, RuntimeTypeOK
  <2>3. copy \in Specs /\ copy.source = job
    BY <2>2, NowType DEF Specs
  <2>4. /\ UNCHANGED <<deadLetter, finished>> /\ pc'[x] = "idle" /\ pc[x] = "requeueing"
    BY <1>t, <1>7, <2>1 DEF SnoozeEnqueue, Enqueue, EndLane, history, TypeInv, RuntimeTypeOK
  <2>5. n \in Ids /\ n # job
    BY <1>6 DEF Fresh
  <2>6. job \notin shared => Holders(job)' = {}
    <3>1. ASSUME job \notin shared PROVE Holders(job) = {x}
      BY <1>1, <1>2, <3>1 DEF Holders, OutcomeInv, OneWay
    <3> QED BY <1>3, <2>4, <3>1 DEF Holders
  <2>7. job \notin shared =>
          ~Live(job) /\ ~Dead(job) /\ job \notin finished /\ deadLetter[job].copies <= 1
    BY <1>1, <1>2, <2>4 DEF Holders, OutcomeInv, OneWay
  <2>8. CASE KeyHeld(copy.key)
    <3>1. UNCHANGED <<spec, jobs>>
      BY <2>1, <2>8 DEF Enqueue
    <3>2. \A i \in Ids \ {job} : Same(i)
      BY <1>5, <2>4, <3>1 DEF Same, Snoozed, Live
    <3>3. job \notin shared => OneWay(job)'
      <4> SUFFICES ASSUME job \notin shared PROVE OneWay(job)'
        OBVIOUS
      <4>1. ~Snoozed(job)'
        BY <1>1, <1>2, <3>1 DEF Snoozed, Holders, OutcomeInv, OneWay
      <4> QED BY <2>4, <2>6, <2>7, <3>1, <4>1 DEF OneWay, Dead, Live
    <3>4. TracesIssued'
      BY <1>t, <2>4, <3>1 DEF TracesIssued, Issued
    <3>5. \A i \in Ids \ shared' : OneWay(i)'
      BY <1>4, <3>2, <3>3, SameOneWay DEF OutcomeInv
    <3> QED BY <3>4, <3>5 DEF OutcomeInv
  <2>9. CASE ~KeyHeld(copy.key)
    <3> HIDE DEF copy
    <3>1. /\ spec' = [spec EXCEPT ![n] = copy] /\ Live(n)'
          /\ \A i \in Ids \ {n} : jobs'[i] = jobs[i]
      <4>1. jobs \in [Ids -> Records]
        BY <1>t DEF TypeInv, RuntimeTypeOK, StoreTypeOK
      <4>2. /\ spec' = [spec EXCEPT ![n] = copy]
            /\ jobs' = [jobs EXCEPT ![n] = [state |-> "queued", delayed |-> TRUE, attempts |-> 0]]
        BY <2>1, <2>9 DEF Enqueue
      <4> QED BY <2>5, <4>1, <4>2 DEF Live
    <3>2. /\ TracesIssued'
          /\ \A i \in Ids \ {n} : i # job => (Snoozed(i)' <=> Snoozed(i))
          /\ Holders(n)' = {} => OneWay(n)'
      BY <1>4, <1>6, <2>3, <2>4, <3>1, NewOutcomes
    <3>3. OneWay(n)'
      BY <1>5, <2>5, <3>2, NewIsFree
    <3>4. \A i \in Ids \ {n, job} : Same(i)
      BY <1>5, <2>4, <3>1, <3>2 DEF Same, Live
    <3>5. job \notin shared => OneWay(job)'
      BY <2>4, <2>5, <2>6, <2>7, <3>1 DEF OneWay, Dead, Live
    <3>6. \A i \in Ids \ shared' : OneWay(i)'
      BY <1>4, <3>3, <3>4, <3>5, SameOneWay DEF OutcomeInv
    <3> QED BY <3>2, <3>6 DEF OutcomeInv
  <2> QED BY <2>8, <2>9
<1>8. CASE ~SnoozeEnqueue(x)
  <2>1. UNCHANGED spec /\ finished \subseteq finished' /\ finished' \subseteq finished \cup {job}
    BY <1>2, <1>8 DEF LaneStep, Begin, Unrunnable, HandlerOk, Record, AddCompletedJob, Return, Acknowledge,
       Ack, Catch, Beat, ExtendLease, CountAttempt, UpdateAttempts, Decide, HookThrows, Retry, Bury,
       MoveToDeadLetter, SnoozeAck, storeVars, history
  <2>2. UNCHANGED jobs \/ UpdateAttempts(job, attempt[x]) \/ RemoveJobRecords({job})
    BY <1>2, <1>8 DEF LaneStep, Begin, Unrunnable, HandlerOk, Record, AddCompletedJob, Return, Acknowledge,
       Ack, Catch, Beat, ExtendLease, CountAttempt, Decide, HookThrows, Retry, Bury, MoveToDeadLetter,
       SnoozeAck, storeVars
  <2>3. \A i \in Ids \ {job} : Live(i)' <=> Live(i)
    <3>1. CASE UNCHANGED jobs
      BY <3>1 DEF Live
    <3>2. CASE UpdateAttempts(job, attempt[x])
      BY <1>t, <3>2 DEF UpdateAttempts, Live, TypeInv, RuntimeTypeOK, StoreTypeOK
    <3>3. CASE RemoveJobRecords({job})
      BY <3>3 DEF RemoveJobRecords, Live
    <3> QED BY <2>2, <3>1, <3>2, <3>3
  <2>4. UNCHANGED deadLetter \/ deadLetter' = [deadLetter EXCEPT ![job].copies = @ + 1]
    BY <1>2, <1>8 DEF LaneStep, Begin, Unrunnable, HandlerOk, Record, AddCompletedJob, Return, Acknowledge,
       Ack, Catch, Beat, ExtendLease, CountAttempt, UpdateAttempts, Decide, HookThrows, Retry, Bury,
       MoveToDeadLetter, SnoozeAck, storeVars
  <2>5. \A i \in Ids \ {job} : deadLetter'[i].copies = deadLetter[i].copies
    BY <1>t, <2>4 DEF TypeInv, RuntimeTypeOK, StoreTypeOK
  <2>6. \A i \in Ids \ {job} : Same(i)
    BY <1>5, <2>1, <2>3, <2>5 DEF Same, Snoozed
  <2>7. job \notin shared => OneWay(job)'
    BY <1>1, <1>2, <1>3, <1>8, JobOutcome
  <2>8. \A i \in Ids \ shared' : OneWay(i)'
    BY <1>4, <2>6, <2>7, SameOneWay DEF OutcomeInv
  <2>9. TracesIssued'
    BY <1>t, <1>6, <2>1 DEF TracesIssued, Issued
  <2> QED BY <2>8, <2>9 DEF OutcomeInv
<1> QED BY <1>7, <1>8

LEMMA OutcomeStep == AckSafe /\ OutcomeInv /\ [Next]_vars => OutcomeInv'
<1> SUFFICES ASSUME AckSafe, OutcomeInv, [Next]_vars PROVE OutcomeInv'
  OBVIOUS
<1>t. TypeInv /\ TracesIssued /\ TypeInv'
  BY TypeStep DEF OutcomeInv
(* Steps that leave every job as it was. *)
<1>s. ASSUME UNCHANGED <<spec, deadLetter, pc, held, history>>, \A i \in Ids : Live(i)' <=> Live(i)
      PROVE  OutcomeInv'
  <2>1. \A i \in Ids : Same(i)
    BY <1>s DEF Same, Snoozed, Holders, history
  <2>2. TracesIssued' /\ shared' = shared
    BY <1>t, <1>s DEF TracesIssued, Issued, history
  <2> QED BY <1>t, <2>1, <2>2, SameOneWay DEF OutcomeInv
<1>1. CASE Dispatch
  <2>1. PICK n \in Fresh, p \in Priorities, k \in Keys \cup {NoKey}, d \in BOOLEAN :
          Enqueue(n, NewSpec(Queue, p, k), d) /\ UNCHANGED <<laneVars, history>>
    BY <1>1 DEF Dispatch
  <2> DEFINE s == NewSpec(Queue, p, k)
  <2>2. s \in Specs /\ s.source = NoId /\ UNCHANGED deadLetter
    BY <2>1, NewSpecType, QueueKnown DEF NewSpec, Enqueue
  <2>3. CASE KeyHeld(s.key)
    BY <1>s, <2>1, <2>2, <2>3 DEF Enqueue, Live, laneVars
  <2>4. CASE ~KeyHeld(s.key)
    <3>1. spec' = [spec EXCEPT ![n] = s] /\ Live(n)' /\ \A i \in Ids \ {n} : jobs'[i] = jobs[i]
      BY <1>t, <2>1, <2>4, SpecOfFresh DEF Enqueue, Live, TypeInv, RuntimeTypeOK, StoreTypeOK
    <3> HIDE DEF s
    <3> QED BY <1>t, <2>1, <2>2, <3>1, NewRecordOutcome, ConstantsOK DEF ConstantsOK
  <2> QED BY <2>3, <2>4
<1>2. CASE Promote
  <2>1. \A i \in Ids : Live(i)' <=> Live(i)
    BY <1>2, <1>t DEF Promote, PromoteJob, Live, TypeInv, RuntimeTypeOK, StoreTypeOK
  <2> QED BY <1>2, <1>s, <2>1 DEF Promote, PromoteJob, laneVars
<1>3. CASE Replay
  <2>1. PICK i \in Ids, n \in Fresh : RetryDeadLetterJob(i, n) /\ UNCHANGED <<laneVars, history>>
    BY <1>3 DEF Replay
  <2> DEFINE s == [spec[i] EXCEPT !.createdAt = Now, !.key = NoKey]
  <2>2. Issued(i)
    BY <1>t, <2>1 DEF RetryDeadLetterJob, TypeInv, OnlyIssued
  <2>3. spec[i] \in Specs
    BY <1>t, <2>2, IssuedSpec DEF TypeInv, RuntimeTypeOK
  <2>4. s \in Specs /\ s.source = spec[i].source
    BY <2>3, NowType DEF Specs
  <2>5. /\ spec' = [spec EXCEPT ![n] = s] /\ Live(n)' /\ \A j \in Ids \ {n} : jobs'[j] = jobs[j]
        /\ \A j \in Ids : deadLetter'[j].copies = deadLetter[j].copies
    <3>1. n \in Ids /\ jobs \in [Ids -> Records]
          /\ deadLetter \in [Ids -> [copies : Nat, retried : BOOLEAN]]
      BY <1>t, SpecOfFresh DEF TypeInv, RuntimeTypeOK, StoreTypeOK
    <3> HIDE DEF s
    <3>2. /\ spec' = [spec EXCEPT ![n] = s] /\ deadLetter' = [deadLetter EXCEPT ![i].retried = TRUE]
          /\ jobs' = [jobs EXCEPT ![n] = [state |-> "queued", delayed |-> FALSE, attempts |-> 0]]
      BY <2>1 DEF RetryDeadLetterJob, s
    <3> QED BY <3>1, <3>2 DEF Live
  <2>6. s.source \in Ids => Snoozed(s.source)
    BY <2>4 DEF Snoozed
  <2> HIDE DEF s
  <2> QED BY <1>t, <2>1, <2>4, <2>5, <2>6, NewRecordOutcome
<1>4. CASE ClockTick
  BY <1>4, <1>s DEF ClockTick, Live
<1>5. ASSUME NEW w \in Workers, Lease(w) PROVE OutcomeInv'
  BY <1>t, <1>5, LeaseOutcome
<1>6. ASSUME NEW x \in Lanes, LaneStep(x) PROVE OutcomeInv'
  BY <1>t, <1>6, LaneOutcome
<1>7. CASE UNCHANGED vars
  BY <1>7, <1>s DEF vars, storeVars, laneVars, Live
<1> QED BY <1>1, <1>2, <1>3, <1>4, <1>5, <1>6, <1>7 DEF Next

(* A job that no two lanes ever had at once has one outcome, whatever its   *)
(* handler, its retry policy and the hooks before the completion record do: *)
(* completed, one dead letter or one snooze, and none while it is live.     *)
THEOREM OneOutcome == AckSafe /\ Spec => []SingleOutcome
<1>1. OutcomeInv => SingleOutcome
  BY DEF OutcomeInv, OneWay, SingleOutcome
<1>2. AckSafe /\ OutcomeInv /\ [Next]_vars => OutcomeInv'
  BY OutcomeStep
<1>3. ASSUME AckSafe PROVE Spec => []SingleOutcome
  <2>1. OutcomeInv /\ [Next]_vars => OutcomeInv'
    BY <1>2, <1>3
  <2> QED BY <1>1, <2>1, OutcomeInit, PTL DEF Spec
<1> QED BY <1>3
=============================================================================
