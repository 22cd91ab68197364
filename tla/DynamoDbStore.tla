--------------------------- MODULE DynamoDbStore ---------------------------
(* The DynamoDB adapter (dynamodb-store.ts): tables of jobs, dead letters   *)
(* and completed jobs.  A conditional request changes one item atomically;  *)
(* an UpdateItem without a condition makes the item it does not find.  An   *)
(* item is at "item"; one that is nowhere else is such a stub.              *)
EXTENDS RemoteStore

(* The index on the key is queried, then the item put.                      *)
DynamoEnqueue(i, delayed) ==
  IF KeyTaken(i) THEN <<Read>>
  ELSE <<Read, {Accepting(Put(i, {"item"} \cup Columns(delayed)))}>>

(* The candidates come from two indexes; tryLeaseCandidate's condition      *)
(* decides again, so that the answers of the indexes may be old.            *)
DynamoQueued  == {i \in Ids : Ready(i) \/ Due(i)}
DynamoExpired == {i \in Ids : Expired(i)}
DynamoLeasable(i) == i \in DynamoQueued \cup DynamoExpired
DynamoTryLease(i) == <<{Granting(Change(i, {}, {"queued"}, {"leased"}))}>>

DynamoAck(i) == <<{Acking(Erase(i, Row))}>>

(* The dead letter is put whole, over one that was there; then the delete.  *)
DynamoMoveToDeadLetter(i) ==
  <<{Change(i, {}, {"retried"}, {"dead"})}, {Erase(i, Row)}>>

DynamoExtendLease(i)    == <<{Leased(Put(i, {"item"}))}>>
DynamoUpdateAttempts(i) == <<{Put(i, {"item"})}>>
DynamoSetJobProgress(i) == <<{Put(i, {"item"})}>>

(* Only the queue is a condition, and a stub has none.                      *)
HasQueue(i) == at[i] \cap {"queued", "leased"} # {}
DynamoGetDelayedJobs    == {i \in Ids : Due(i)}
DynamoMoveJobToQueue(i) ==
  <<{IfAny(Change(i, {}, {"leased", "delay"}, {"queued"}), {"queued", "leased"})}>>
DynamoPromoteJob(i) == <<{Change(i, {"queued", "delay"}, {"delay"}, {})}>>

(* Read, marked under a condition, then the copy put.                       *)
DynamoRetryDeadLetterJob(i, n) ==
  <<Read, {Unless(Change(i, {"dead"}, {}, {"retried"}), {"retried"})},
    {Copying(Put(n, {"item", "queued"}), i)}>>

(* Each table is read and, when it has the id, the id deleted from it.      *)
DynamoRemoveJob(i) ==
  CASE HasQueue(i) -> <<Read, {Removing(Erase(i, Row))}>>
    [] ~HasQueue(i) /\ "dead" \in at[i] -> <<Read, {Removing(Erase(i, DeadLetter))}>>
    [] OTHER -> <<Read, {Removing(Erase(i, {"done"}))}>>

(* A scan, then a delete of each id it selected, in the tables it was in.   *)
DynamoCleanByStatus(i, status) == <<Read, {Cleared(i, status)}>>
DynamoScanned(i) == UNION {T \in {Row, DeadLetter, {"done"}} : T \cap at[i] # {}}
DynamoObliterateQueue == <<Read, {Removing(Erase(i, DynamoScanned(i))) : i \in Ids}>>

DynamoAddCompletedJob(i) == <<{Put(i, {"done"})}>>

DynamoGetReadyJobs      == {i \in Ids : Ready(i)}
DynamoGetActiveJobs     == {i \in Ids : "leased" \in at[i]}
DynamoQueryDeferredJobs == {i \in Ids : "delay" \in at[i]}
DynamoGetCompletedJobs  == {i \in Ids : "done" \in at[i]}
DynamoGetDeadLetterJobs == {i \in Ids : "dead" \in at[i]}
=============================================================================
