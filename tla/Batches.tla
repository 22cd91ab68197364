------------------------------- MODULE Batches -------------------------------
(***************************************************************************)
(* JobManager.dispatchBatch and the BatchManager (batch-manager.ts): a     *)
(* batch is dispatched in chunks, and a chunk is registered when all of    *)
(* its dispatches have ended.  The counters are recomputed from the        *)
(* entries on every change, so the entries are kept here.                  *)
(***************************************************************************)
EXTENDS Dispatch, Sequences

CONSTANT Chunks   \* how many jobs each chunk of the batch has: a sequence

VARIABLES
  unsent,   \* chunks not dispatched yet
  sent,     \* the chunk being dispatched
  entry,    \* per job: "none", "pending", "completed" or "failed"
  early,    \* history: outcomes reported before the job was registered
  retried   \* history: entries reset by retryFailedBatchJobs

batchVars == <<unsent, sent, entry, early, retried>>

BatchInit ==
  /\ unsent = IF scene = "batch" THEN Chunks ELSE <<>>
  /\ sent = {}
  /\ entry = [i \in Ids |-> "none"]
  /\ early = {} /\ retried = {}

Registered == {i \in Ids : entry[i] # "none"}

SendChunk ==
  /\ unsent # <<>> /\ sent = {}
  /\ \E S \in SUBSET Fresh :
       /\ Cardinality(S) = Head(unsent) /\ sent' = S
       /\ pc' = [i \in Ids |-> IF i \in S THEN "hooking" ELSE pc[i]]
  /\ unsent' = Tail(unsent)
  /\ UNCHANGED <<scene, guarded, at, unread, found, steady, entry, early, retried>>

(* Failed dispatches are logged and registered like the others.             *)
RegisterChunk ==
  /\ sent # {} /\ \A i \in sent : pc[i] \in {"answered", "rejected"}
  /\ entry' = [i \in Ids |-> IF i \in sent THEN "pending" ELSE entry[i]]
  /\ sent' = {}
  /\ UNCHANGED <<dispatchVars, unsent, early, retried>>

(* markJobCompleted and markJobFailed: lookupBatch finds registered jobs.   *)
Mark(i, outcome) ==
  IF entry[i] = "none"
  THEN entry' = entry /\ early' = early \cup {i}
  ELSE entry' = [entry EXCEPT ![i] = outcome] /\ early' = early

(* Supervisor.retryFailedBatchJobs: the dead letter is replayed under a new *)
(* id j, which the batch has no entry for, and the entry is pending again.  *)
RetryFailed(i, j) ==
  /\ entry[i] = "failed" /\ at[i] = "dead" /\ j \in Fresh
  /\ Replay(i, j)
  /\ entry' = [entry EXCEPT ![i] = "pending"]
  /\ retried' = retried \cup {i}
  /\ UNCHANGED <<scene, guarded, unread, found, unsent, sent, early>>
=============================================================================
