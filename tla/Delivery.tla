------------------------------- MODULE Delivery -------------------------------
(***************************************************************************)
(* What Vasto promises of a job, without leases, workers and stores: an    *)
(* accepted job stays in the queue until one of its runs had an outcome,   *)
(* and once out of it never comes back under the same id.  It may run, and *)
(* end, more than once (at least once delivery).  JobRuntime implements    *)
(* this, see Delivers there.                                               *)
(***************************************************************************)
CONSTANT Ids

VARIABLES
  status,    \* "unknown", then "queued", then "settled"
  started,   \* jobs whose handler was ever started
  outcomes   \* how the runs of a job ended so far

vars == <<status, started, outcomes>>

Outcomes == {"completed", "dead", "snoozed"}

Init ==
  /\ status = [i \in Ids |-> "unknown"]
  /\ started = {}
  /\ outcomes = [i \in Ids |-> {}]

Accept(i) ==
  /\ status[i] = "unknown"
  /\ status' = [status EXCEPT ![i] = "queued"]
  /\ UNCHANGED <<started, outcomes>>

Start(i) ==
  /\ status[i] # "unknown"
  /\ started' = started \cup {i}
  /\ UNCHANGED <<status, outcomes>>

(* A run ends, and may take the job out of the queue with it.               *)
Conclude(i, o) ==
  /\ i \in started
  /\ outcomes' = [outcomes EXCEPT ![i] = @ \cup {o}]
  /\ status' \in {status, [status EXCEPT ![i] = "settled"]}
  /\ UNCHANGED started

Settle(i) ==
  /\ status[i] = "queued" /\ outcomes[i] # {}
  /\ status' = [status EXCEPT ![i] = "settled"]
  /\ UNCHANGED <<started, outcomes>>

Next == \E i \in Ids : Accept(i) \/ Start(i) \/ Settle(i) \/ \E o \in Outcomes : Conclude(i, o)

Spec == Init /\ [][Next]_vars
=============================================================================
