---------------------------- MODULE BulkDispatch ----------------------------
(***************************************************************************)
(* JobManager.dispatchMany (worker-runtime.ts): jobs are handed over in    *)
(* chunks; the jobs of a chunk are grouped by store in the order in which  *)
(* the stores first appear, and each store is called in turn, once for all *)
(* its jobs if it has enqueueBatch, else once per job, all at the same     *)
(* time.  A rejection is logged and the rest goes on.  A job is named by   *)
(* its place in the caller's array.                                        *)
(***************************************************************************)
EXTENDS Integers, Sequences, FiniteSets

CONSTANTS
  Bulks,      \* bound: arrays handed over, as the sequences of their jobs' stores
  Batching,   \* the stores that have enqueueBatch
  ChunkSize   \* bulkDispatchChunkSize

ASSUME BulkOK == ChunkSize \in Nat \ {0} /\ \A b \in Bulks : Len(b) \in Nat \ {0}

VARIABLES
  bulk,     \* the array handed over, chosen once
  bulkAt,   \* "off" "hooks" "storing" "waiting" "answered" "returned"
  chunk,    \* the chunk being dispatched
  wait,     \* the bucket whose store has been called last
  flying,   \* jobs whose call has not ended, awaited or not
  refused,  \* history: jobs whose call was rejected
  landed,   \* how many times the store has taken each job
  given     \* ids pushed to the result so far

bulkVars == <<bulk, bulkAt, chunk, wait, flying, refused, landed, given>>

Places     == 1..Len(bulk)
ChunkOf(c) == {k \in Places : (c - 1) * ChunkSize < k /\ k <= c * ChunkSize}
Ungiven    == {k \in ChunkOf(chunk) : \A g \in 1..Len(given) : given[g] # k}

(* The first of a chunk's jobs left decides which store is called next.     *)
Bucket ==
  LET first == CHOOSE k \in Ungiven : \A j \in Ungiven : k <= j
  IN  {k \in ChunkOf(chunk) : bulk[k] = bulk[first]}

(* Jobs that travel in the same call.                                       *)
CallOf(k) == IF bulk[k] \in Batching THEN {j \in flying : bulk[j] = bulk[k]} ELSE {k}

InOrder(S) == [g \in 1..Cardinality(S) |-> CHOOSE k \in S : Cardinality({j \in S : j <= k}) = g]

BulkInit ==
  /\ bulk \in Bulks
  /\ bulkAt = "off" /\ chunk = 1
  /\ wait = {} /\ flying = {} /\ refused = {}
  /\ landed = [k \in Places |-> 0] /\ given = <<>>

-----------------------------------------------------------------------------
(* The hooks of a chunk's jobs are started together ...                     *)
HandOver ==
  /\ bulkAt = "off" /\ bulkAt' = "hooks"
  /\ UNCHANGED <<bulk, chunk, wait, flying, refused, landed, given>>

(* ... and have all been answered, or one was rejected, which is logged.    *)
HooksEnd ==
  /\ bulkAt = "hooks" /\ bulkAt' = "storing"
  /\ UNCHANGED <<bulk, chunk, wait, flying, refused, landed, given>>

CallStore ==
  /\ bulkAt = "storing" /\ bulkAt' = "waiting"
  /\ wait' = Bucket /\ flying' = flying \cup Bucket
  /\ UNCHANGED <<bulk, chunk, refused, landed, given>>

Landed(S) == landed' = [k \in Places |-> landed[k] + (IF k \in S THEN 1 ELSE 0)]

(* A call is answered; the await ends with the last of its bucket.          *)
Land(k) ==
  /\ k \in flying
  /\ Landed(CallOf(k)) /\ flying' = flying \ CallOf(k)
  /\ bulkAt' = IF bulkAt = "waiting" /\ k \in wait /\ wait \cap flying' = {} THEN "answered" ELSE bulkAt
  /\ UNCHANGED <<bulk, chunk, wait, refused, given>>

(* A call is rejected, before or after the store took its jobs: the await   *)
(* ends with the first rejection, the other calls stay on their way.        *)
Refuse(k) ==
  /\ k \in flying
  /\ Landed({}) \/ Landed(CallOf(k))
  /\ flying' = flying \ CallOf(k) /\ refused' = refused \cup CallOf(k)
  /\ bulkAt' = IF bulkAt = "waiting" /\ k \in wait THEN "answered" ELSE bulkAt
  /\ UNCHANGED <<bulk, chunk, wait, given>>

(* Mutant of PushIds: the store that rejected ends the chunk.               *)
PushIdsBreak ==
  /\ bulkAt = "answered"
  /\ given' = given \o InOrder(wait)
  /\ IF refused \cap wait # {} \/ Ungiven \subseteq wait
     THEN chunk' = chunk + 1 /\ bulkAt' = IF ChunkOf(chunk + 1) = {} THEN "returned" ELSE "hooks"
     ELSE chunk' = chunk /\ bulkAt' = "storing"
  /\ UNCHANGED <<bulk, wait, flying, refused, landed>>

(* The ids of the bucket are pushed, stored or not; then the next store,    *)
(* the next chunk, or the end.                                              *)
PushIds ==
  /\ bulkAt = "answered"
  /\ given' = given \o InOrder(wait)
  /\ IF Ungiven \subseteq wait
     THEN chunk' = chunk + 1 /\ bulkAt' = IF ChunkOf(chunk + 1) = {} THEN "returned" ELSE "hooks"
     ELSE chunk' = chunk /\ bulkAt' = "storing"
  /\ UNCHANGED <<bulk, wait, flying, refused, landed>>

BulkStep == HandOver \/ HooksEnd \/ CallStore \/ PushIds \/ \E k \in flying : Land(k)

-----------------------------------------------------------------------------
Before(k, j) == \E g, h \in 1..Len(given) : given[g] = k /\ given[h] = j /\ g < h

(* Whatever is rejected on the way, one job or one store's failure costs no *)
(* other job its place: when dispatchMany has returned, every job has one   *)
(* id in the result, every job whose own call was not rejected is stored    *)
(* exactly once, or about to be, and no job is stored twice.  The ids of    *)
(* the jobs of one store come in the caller's order, and so do those of the *)
(* chunks; those of two stores need not (worker-runtime.ts:224).            *)
BulkExact ==
  /\ \A k \in Places : landed[k] <= 1
  /\ bulkAt = "returned" =>
       /\ Len(given) = Len(bulk)
       /\ \A k \in Places : k \notin refused \cup flying => landed[k] = 1
       /\ \A k, j \in Places :
            k < j /\ (bulk[k] = bulk[j] \/ \E c \in Places : k \in ChunkOf(c) /\ j \notin ChunkOf(c)) => Before(k, j)
=============================================================================
