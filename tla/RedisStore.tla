----------------------------- MODULE RedisStore -----------------------------
(* The Redis adapter (redis-store.ts): the record of a job under its key    *)
(* ("record", with "delay" where it has a delayUntil) and its id in sorted  *)
(* sets.  A script is atomic; a pipeline is not a MULTI, so its commands    *)
(* are transactions of their own (those that only delete taken together).   *)
(* The record keeps state queued while the job is leased.                   *)
EXTENDS RemoteStore

SortedSets == {"ready", "deferred", "leased"}
Recorded(i) == "record" \in at[i]

RedisEnqueue(i, delayed) ==
  IF delayed THEN <<{Put(i, {"record", "delay"})}, {Accepting(Put(i, {"deferred"}))}>>
             ELSE <<{Put(i, {"record"})}, {Accepting(Put(i, {"ready"}))}>>

RedisEnqueueBatch(S, delayed) ==
  LET both(i) == RedisEnqueue(i, delayed)
  IN <<UNION {both(i)[1] : i \in S}, UNION {both(i)[2] : i \in S}>>

(* DEQUEUE_SCRIPT: leases that ran out go back to ready, if they have a     *)
(* record; then an id of ready is leased, and returned if it has one.       *)
RedisLeasable(i) == "ready" \in at[i] \/ (Expired(i) /\ Recorded(i))
RedisReclaim(i) == Change(i, {}, {"leased"}, IF Recorded(i) THEN {"ready"} ELSE {})
RedisDequeue(i) ==
  LET leased == Leased(Change(i, {}, {"ready"}, {"leased"}))
  IN <<{IF Recorded(i) THEN Granting(leased) ELSE leased}
       \cup {RedisReclaim(j) : j \in {k \in Ids \ {i} : Expired(k)}}>>

(* ACK_SCRIPT with the queue's name: the record goes, and the lease; run in *)
(* the pipeline of a microtask, for which the call waits.                   *)
RedisAck(i) == <<{Acking(Erase(i, {"record", "delay", "leased"}))}>>

RedisMoveToDeadLetter(i) ==
  <<{Change(i, {}, {"retried"}, {"dead"})}, {Erase(i, {"record", "delay"} \cup SortedSets)}>>

(* EXTEND_LEASE_SCRIPT with the queue's name: no record is asked for.       *)
RedisExtendLease(i) == <<{Leased(Put(i, {"leased"}))}>>

(* GET, then SET of the whole record, with the delayUntil that was read.    *)
Reread(i) == Change(i, {}, {"delay"}, {"record"} \cup (at[i] \cap {"delay"}))
RedisUpdateAttempts(i) == <<{Check(i, {"record"})}, {Reread(i)}>>
RedisSetJobProgress(i) == <<{Check(i, {"record"})}, {Reread(i)}>>

RedisGetDelayedJobs == {i \in Ids : {"record", "delay", "deferred"} \subseteq at[i] /\ i \in due}

(* The record is read, then written back without its delay.                 *)
RedisMoveJobToQueue(i) ==
  <<{Check(i, {"record"})}, {Erase(i, {"deferred"})}, {Put(i, {"ready"})},
    {Change(i, {}, {"delay"}, {"record"})}>>

(* It reads the record too, which is taken together with the move's read.   *)
RedisPromoteJob(i) == <<{Check(i, {"record", "delay"})}>> \o Tail(RedisMoveJobToQueue(i))

(* The mark is read, and written without asking again.                      *)
RedisRetryDeadLetterJob(i, n) ==
  <<{Unless(Check(i, {"dead"}), {"retried"})}, {Put(i, {"dead", "retried"})},
    {Put(n, {"record"})}, {Copying(Put(n, {"ready"}), i)}>>

RedisRemoveJob(i) ==
  CASE Recorded(i) -> <<Read, {Erase(i, {"record", "delay"})}, {Removing(Erase(i, SortedSets))}>>
    [] ~Recorded(i) /\ "dead" \in at[i] -> <<Read, {Removing(Erase(i, DeadLetter))}>>
    [] OTHER -> <<Read, {Removing(Erase(i, {"done"}))}>>

(* The ids of the set, each with its record read, then removeJob.           *)
RedisSelected(i, status) ==
  \/ status = "ready" /\ {"ready", "record"} \subseteq at[i]
  \/ status = "active" /\ {"leased", "record"} \subseteq at[i]
  \/ status = "deferred" /\ {"deferred", "record"} \subseteq at[i]
  \/ status = "failed" /\ "dead" \in at[i]
  \/ status = "completed" /\ "done" \in at[i]
RedisCleanJobs(i, status) ==
  IF status = "completed" THEN <<Read, {Removing(Erase(i, {"done"}))}>> ELSE <<Read>> \o RedisRemoveJob(i)

(* The records of the ids found go first, then the sets, whoever has        *)
(* entered them by then.                                                    *)
RedisObliterateQueue ==
  <<Read,
    {Erase(i, {"record", "delay"}) : i \in {j \in Ids : at[j] \cap SortedSets # {}}},
    {Removing(Erase(i, SortedSets \cup DeadLetter \cup {"done"})) : i \in Ids}>>

RedisAddCompletedJob(i) == <<{Put(i, {"done"})}>>

RedisGetReadyJobs      == {i \in Ids : {"ready", "record"} \subseteq at[i] /\ "delay" \notin at[i]}
RedisGetActiveJobs     == {i \in Ids : {"leased", "record"} \subseteq at[i]}
RedisQueryDeferredJobs == {i \in Ids : {"deferred", "record", "delay"} \subseteq at[i]}
RedisGetCompletedJobs  == {i \in Ids : "done" \in at[i]}
RedisGetDeadLetterJobs == {i \in Ids : "dead" \in at[i]}
=============================================================================
