----------------------------- MODULE MongoStore -----------------------------
(* The MongoDB adapter (mongo-store.ts): collections of jobs, dead letters  *)
(* and completed jobs.  Single documents change atomically; what spans two  *)
(* collections is two calls.                                                *)
EXTENDS RemoteStore

(* Mutant of MongoEnqueue: an insert without the upsert on the key.         *)
MongoEnqueueUnkeyed(i, delayed) == <<{Accepting(Put(i, Columns(delayed)))}>>

(* An upsert filtered by the key, which only inserts.                       *)
MongoEnqueue(i, delayed) ==
  <<IF KeyTaken(i) THEN Read ELSE {Accepting(Put(i, Columns(delayed)))}>>

(* Candidates are found first; findOneAndUpdate repeats the whole filter.   *)
MongoLeasable(i) == Ready(i) \/ Due(i) \/ Expired(i)
MongoDequeue(i)  == <<{Granting(Change(i, {}, {"queued"}, {"leased"}))}>>

MongoAck(i) == <<{Acking(Erase(i, Row))}>>

(* The dead letter is written before the job is deleted.                    *)
MongoMoveToDeadLetter(i) == <<{Put(i, {"dead"})}, {Erase(i, Row)}>>

MongoExtendLease(i)    == <<{Leased(Check(i, {}))}>>
MongoUpdateAttempts(i) == <<Read>>
MongoSetJobProgress(i) == <<Read>>

MongoGetDelayedJobs    == {i \in Ids : Due(i)}
MongoMoveJobToQueue(i) ==
  <<{IfAny(Change(i, {}, {"leased", "delay"}, {"queued"}), Row)}>>
MongoPromoteJob(i) == <<{Change(i, {"queued", "delay"}, {"delay"}, {})}>>

(* The dead letter is marked, if it has no mark, before its copy exists.    *)
MongoRetryDeadLetterJob(i, n) ==
  <<{Unless(Change(i, {"dead"}, {}, {"retried"}), {"retried"})}, {Copying(Put(n, {"queued"}), i)}>>

(* The first collection that has the id is the only one it is deleted from. *)
MongoRemoveJob(i) ==
  CASE HasRow(i) -> <<{Removing(Erase(i, Row))}>>
    [] ~HasRow(i) /\ "dead" \in at[i] -> <<{Removing(Erase(i, DeadLetter))}>>
    [] OTHER -> <<{Removing(Erase(i, {"done"}))}>>

(* deleteWithLimit: ids are found by status, then deleted by id.            *)
MongoCleanByStatus(i, status) == <<Read, {Cleared(i, status)}>>

(* Three collections emptied in parallel, in whatever order.                *)
MongoObliterateQueue(order) ==
  [k \in 1..3 |-> {Removing(Erase(i, order[k])) : i \in Ids}]

MongoAddCompletedJob(i) == <<{Put(i, {"done"})}>>

MongoGetReadyJobs      == {i \in Ids : Ready(i)}
MongoGetActiveJobs     == {i \in Ids : "leased" \in at[i]}
MongoQueryDeferredJobs == {i \in Ids : "delay" \in at[i]}
MongoGetCompletedJobs  == {i \in Ids : "done" \in at[i]}
MongoGetDeadLetterJobs == {i \in Ids : "dead" \in at[i]}
=============================================================================
