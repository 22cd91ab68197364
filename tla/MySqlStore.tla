----------------------------- MODULE MySqlStore -----------------------------
(* The MySQL adapter (mysql-store.ts): tables of jobs, dead letters and     *)
(* completed jobs.  A delayed job is leased as soon as it is due, and keeps *)
(* its delay_until while leased; the promoter works by list and move.       *)
EXTENDS RemoteStore

MyEnqueue(i, delayed) ==
  <<IF KeyTaken(i) THEN Read ELSE {Accepting(Put(i, Columns(delayed)))}>>

MyEnqueueBatch(S, first, delayed) ==
  <<{Accepting(Put(i, Columns(delayed))) : i \in Inserted(S, first)}>>

(* Both SELECTs of the transaction lock what they return and skip what      *)
(* another has locked.                                                      *)
MyLeasable(i) == Ready(i) \/ Due(i) \/ Expired(i)
MyDequeue(i)  == <<{Granting(Change(i, {}, {"queued"}, {"leased"}))}>>

MyAck(i) == <<{Acking(Erase(i, Row))}>>

(* Mutant of MyMoveToDeadLetter: two statements without a transaction, the  *)
(* deletion first.                                                          *)
MyMoveToDeadLetterBare(i) == <<{Erase(i, Row)}, {Put(i, {"dead"})}>>

MyMoveToDeadLetter(i) == <<{Change(i, {}, Row, {"dead"})}>>

MyExtendLease(i)    == <<{Leased(Check(i, {}))}>>
MyUpdateAttempts(i) == <<Read>>
MySetJobProgress(i) == <<Read>>

MyGetDelayedJobs    == {i \in Ids : Due(i)}

(* Mutant of MyMoveJobToQueue: an upsert, which brings a deleted row back.  *)
MyMoveUpsert(i) == <<{Change(i, {}, {"leased", "delay"}, {"queued"})}>>

(* The move asks for no state: a leased row becomes queued again.           *)
MyMoveJobToQueue(i) ==
  <<{IfAny(Change(i, {}, {"leased", "delay"}, {"queued"}), Row)}>>
MyPromoteJob(i) == <<{Change(i, {"queued", "delay"}, {"delay"}, {})}>>

(* Mutant of MyRetryDeadLetterJob: the mark is committed before the copy.   *)
MyRetryMarked(i, n) ==
  <<{Unless(Change(i, {"dead"}, {}, {"retried"}), {"retried"})}, {Copying(Put(n, {"queued"}), i)}>>

MyRetryDeadLetterJob(i, n) ==
  <<{Unless(Change(i, {"dead"}, {}, {"retried"}), {"retried"}), Copying(Put(n, {"queued"}), i)}>>

MyRemoveJob(i) == <<{Removing(Erase(i, at[i]))}>>
MyCleanByStatus(i, status) == <<{Cleared(i, status)}>>
MyObliterateQueue == <<{Removing(Erase(i, at[i])) : i \in Ids}>>

(* A record of its own; rows beyond the retention limits are left out here. *)
MyAddCompletedJob(i) == <<{Put(i, {"done"})}>>

MyGetReadyJobs      == {i \in Ids : Ready(i)}
MyGetActiveJobs     == {i \in Ids : "leased" \in at[i]}
MyQueryDeferredJobs == {i \in Ids : "delay" \in at[i]}
MyGetCompletedJobs  == {i \in Ids : "done" \in at[i]}
MyGetDeadLetterJobs == {i \in Ids : "dead" \in at[i]}
=============================================================================
