-------------------------- MODULE FileQueueStorage --------------------------
(* The file adapter (file-queue-storage.ts): a job is a JSON file in the    *)
(* directory "queued", "leased", "dead" or "done".  The calls are           *)
(* synchronous, so only clients of other processes come between two system  *)
(* calls.  A write makes the file when it is not there; a write cut by a    *)
(* crash leaves a file no read can parse ("torn").  removeJob and promoteJob *)
(* are what Supervisor does for an adapter that has none.                   *)
EXTENDS RemoteStore

Written(i, place) == Change(i, {}, {"torn"}, {place})
Stamped(i) == Granting(Change(i, {}, {"torn", "unstamped"}, {"leased"}))

FileEnqueue(i, delayed) == <<{Accepting(Put(i, Columns(delayed)))}>>

(* A queued file is read, renamed - one renamer wins -, then rewritten with *)
(* the lease's expiry.  Until then the file has none, which counts as run out   *)
(* and is not listed as active.                                             *)
FileLeasable(i) == Ready(i) \/ Expired(i)
FileClaim(i) ==
  <<{Check(i, {"queued"})},
    {Unstamped(Change(i, {"queued"}, {"queued", "delay"}, {"leased", "unstamped"}))},
    {Stamped(i)}>>
FileReclaim(i) == <<{Check(i, {"leased"})}, {Stamped(i)}>>
FileDequeue(i) == IF Ready(i) THEN FileClaim(i) ELSE FileReclaim(i)

FileAck(i) == <<{Acking(Erase(i, {"leased", "unstamped"}))}>>

(* The leased file, or else the queued one, is renamed and rewritten.       *)
FileMoveToDeadLetter(i) ==
  LET source == IF "leased" \in at[i] THEN {"leased", "unstamped"} ELSE {"queued", "delay"} \cap at[i]
  IN <<{Change(i, {}, source, IF source = {} THEN {} ELSE {"dead"})},
       {Change(i, {}, {"retried", "torn"}, {"dead"})}>>

FileExtendLease(i)    == <<{Check(i, {"leased"})}, {Leased(Written(i, "leased"))}>>
FileUpdateAttempts(i) == <<{Check(i, {"leased"})}, {Written(i, "leased")}>>
FileSetJobProgress(i) ==
  IF "leased" \in at[i] THEN <<Read, {Written(i, "leased")}>>
  ELSE <<{Check(i, {"queued"})}, {Written(i, "queued")}>>

FileGetDelayedJobs    == {i \in Ids : Due(i)}
FileMoveJobToQueue(i) == <<{Check(i, {"queued"})}, {Change(i, {}, {"delay", "torn"}, {"queued"})}>>

(* The copy is written before the dead letter is marked.                    *)
FileRetryDeadLetterJob(i, n) ==
  <<{Unless(Check(i, {"dead"}), {"retried"})}, {Copying(Put(n, {"queued"}), i)},
    {Put(i, {"dead", "retried"})}>>

(* A job that is listed is acknowledged, and reported as removed; one that  *)
(* is listed as pending is moved.                                           *)
FileRemoveJob(i)  == <<Read, {Removing(Erase(i, {"leased", "unstamped"}))}>>
FilePromoteJob(i) == <<{Check(i, {"queued", "delay"})}>> \o Tail(FileMoveJobToQueue(i))

FileAddCompletedJob(i) == <<{Put(i, {"done"})}>>

FileGetReadyJobs      == {i \in Ids : Ready(i)}
FileGetActiveJobs     == {i \in Ids : "leased" \in at[i] /\ "unstamped" \notin at[i]}
FileQueryDeferredJobs == {i \in Ids : Delayed(i)}
FileGetCompletedJobs  == {i \in Ids : "done" \in at[i]}
FileGetDeadLetterJobs == {i \in Ids : "dead" \in at[i]}
=============================================================================
