------------------------------ MODULE Dispatch ------------------------------
(***************************************************************************)
(* JobManager.dispatchInternal (worker-runtime.ts): the look-up for a      *)
(* duplicate, the hooks, the store call; and what the store does with the  *)
(* job meanwhile.  A dispatch is named by the id it draws; `at' is the     *)
(* listing the store has a job in.  All keyed dispatches share one key.    *)
(***************************************************************************)
EXTENDS Integers, FiniteSets

CONSTANTS
  Ids,           \* ids crypto.randomUUID() may return
  IncludeFailed, \* QueueConfig.idempotency.includeFailed
  MaxKeyed,      \* bound: dispatches with the key
  Faults         \* awaits that may reject: "enqueue", "ack", "bury"

VARIABLES
  scene,    \* the API the application uses, chosen once
  guarded,  \* whether the store drops a second live job of a key, chosen once
  at,       \* where the store has each job
  pc,       \* how far the dispatch of each job is
  unread,   \* listings whose answer its look-up still waits for
  found,    \* whether its look-up has seen a job with the key
  steady    \* history: jobs it should see, being where they were when it began

dispatchVars == <<scene, guarded, at, pc, unread, found, steady>>

(* What findDuplicateByIdempotencyKey asks for, in queries of their own: a  *)
(* deferred job is pending or, once it is due, promoted.                    *)
Listings == {"ready", "active", "pending", "due", "completed"}
            \cup (IF IncludeFailed THEN {"dead"} ELSE {})

Kept     == {"ready", "active", "pending", "due", "completed"}
Waiting  == {"pending", "due", "ready"}
Live(i)  == at[i] \in Waiting \cup {"active"}
Fresh    == {i \in Ids : pc[i] = "new"}
Goto(i, label) == pc' = [pc EXCEPT ![i] = label]

(* The job moves to another listing.                                        *)
Move(i, place) ==
  /\ at' = [at EXCEPT ![i] = place]
  /\ steady' = [j \in Ids |-> IF pc[j] = "looking" THEN steady[j] \ {i} ELSE {}]

DispatchInit ==
  /\ guarded \in (IF scene = "keys" THEN BOOLEAN ELSE {FALSE})
  /\ at = [i \in Ids |-> "none"]
  /\ pc = [i \in Ids |-> "new"]
  /\ unread = [i \in Ids |-> {}] /\ found = [i \in Ids |-> FALSE] /\ steady = [i \in Ids |-> {}]

-----------------------------------------------------------------------------
Ask(i) ==
  /\ scene = "keys" /\ i \in Fresh /\ Cardinality(Ids \ Fresh) < MaxKeyed
  /\ Goto(i, "looking")
  /\ unread' = [unread EXCEPT ![i] = Listings]
  /\ steady' = [steady EXCEPT ![i] = {j \in Ids : at[j] \in Kept}]
  /\ UNCHANGED <<scene, guarded, at, found>>

(* The six queries run at once and are answered in any order.               *)
Query(i, listing) ==
  /\ pc[i] = "looking" /\ listing \in unread[i]
  /\ unread' = [unread EXCEPT ![i] = @ \ {listing}]
  /\ found' = [found EXCEPT ![i] = @ \/ \E j \in Ids : at[j] = listing]
  /\ UNCHANGED <<scene, guarded, at, pc, steady>>

(* The id of the duplicate is returned, or the dispatch goes on.            *)
Conclude(i) ==
  /\ pc[i] = "looking" /\ unread[i] = {}
  /\ Goto(i, IF found[i] THEN "answered" ELSE "hooking")
  /\ found' = [found EXCEPT ![i] = FALSE]
  /\ UNCHANGED <<scene, guarded, at, unread, steady>>

(* The hooks ran and the store was called: it has the job, delayed or not,  *)
(* or dropped it for a live one and says nothing.                           *)
Store(i) ==
  /\ pc[i] = "hooking"
  /\ Goto(i, "stored")
  /\ IF guarded /\ scene = "keys" /\ \E j \in Ids : Live(j)
     THEN UNCHANGED <<at, steady>>
     ELSE \E place \in IF scene = "keys" THEN {"pending", "ready"} ELSE {"ready"} : Move(i, place)
  /\ UNCHANGED <<scene, guarded, unread, found>>

(* A hook or the store call rejects.                                        *)
Reject(i) ==
  /\ "enqueue" \in Faults /\ scene # "keys" /\ pc[i] = "hooking"
  /\ Goto(i, "rejected")
  /\ UNCHANGED <<scene, guarded, at, unread, found, steady>>

(* The caller gets the id.                                                  *)
Return(i) ==
  /\ pc[i] = "stored"
  /\ Goto(i, "answered")
  /\ UNCHANGED <<scene, guarded, at, unread, found, steady>>

(* A delay ends, the promoter moves the job, a completion record leaves the *)
(* window of ten minutes.                                                   *)
Moves == {<<"pending", "due">>, <<"due", "ready">>, <<"completed", "old">>}

StoreMoves(i) ==
  /\ scene = "keys" /\ \E step \in Moves : at[i] = step[1] /\ Move(i, step[2])
  /\ UNCHANGED <<scene, guarded, pc, unread, found>>

(* retryDeadLetterJob: a ready copy of job i under the id j.                *)
Replay(i, j) ==
  /\ at' = [at EXCEPT ![i] = "old", ![j] = "ready"]
  /\ Goto(j, "answered")
  /\ UNCHANGED steady

DispatchStep(i) ==
  \/ Ask(i) \/ Conclude(i) \/ \E listing \in Listings : Query(i, listing)
  \/ Store(i) \/ StoreMoves(i)

-----------------------------------------------------------------------------
(* A dispatch that goes on to enqueue had no duplicate to find: whatever    *)
(* was in one of the listings when its look-up began, and stayed there      *)
(* until the last answer, was seen.  Only a job that moved between two of   *)
(* the queries can be missed (worker-runtime.ts:880).                       *)
LookupFinds == \A i \in Ids : scene = "keys" /\ pc[i] = "hooking" => steady[i] = {}
=============================================================================
