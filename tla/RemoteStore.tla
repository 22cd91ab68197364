---------------------------- MODULE RemoteStore ----------------------------
(***************************************************************************)
(* What the six shared QueueStorage adapters have in common: the places an *)
(* adapter keeps a job in, and the steps its operations take.              *)
(*                                                                         *)
(* at[i] is the set of places job i is found in: values of the state       *)
(* column, tables, Redis keys or directories, and "delay" where delayUntil *)
(* is set.  An operation is a program: a sequence of transactions, each a  *)
(* set of changes of single jobs that happen together; two clients         *)
(* interleave between transactions.  A transaction whose changes ask for   *)
(* something that is not there does nothing and ends its program, as a     *)
(* conditional statement, a null reply or a caught exception does.         *)
(*                                                                         *)
(* Times are two sets: jobs whose delayUntil has passed, and leases that   *)
(* have run out.  One queue.  Lists and batches are taken job by job.      *)
(***************************************************************************)
EXTENDS Integers, FiniteSets, Sequences

CONSTANTS Ids, Clients, NoId

VARIABLES
  kind,     \* the adapter in use, chosen once
  at,       \* the places of each job
  due,      \* jobs whose delayUntil has passed
  lapsed,   \* jobs whose lease has run out, or was never written
  keyed,    \* jobs that carry the idempotency key, chosen once; one key
  used      \* ids dispatched or drawn for a replay

storeVars == <<kind, at, due, lapsed, keyed, used>>

-----------------------------------------------------------------------------
(* Changes of one job.                                                      *)
Change(i, need, del, add) ==
  [id |-> i, need |-> need, some |-> {}, bar |-> {}, del |-> del, add |-> add,
   lease |-> "keep", mark |-> "none", of |-> NoId]

Check(i, need) == Change(i, need, {}, {})
Put(i, places) == Change(i, {}, {}, places)
Erase(i, places) == Change(i, {}, places, {})

IfAny(c, places)  == [c EXCEPT !.some = places]
Unless(c, places) == [c EXCEPT !.bar = places]
Leased(c)     == [c EXCEPT !.lease = "renew"]
Unstamped(c)  == [c EXCEPT !.lease = "lapse"]
Granting(c)   == [Leased(c) EXCEPT !.mark = "granted"]
Accepting(c)  == [c EXCEPT !.mark = "accepted"]
Copying(c, i) == [c EXCEPT !.mark = "accepted", !.of = i]
Acking(c)     == [c EXCEPT !.mark = "acked"]
Removing(c)   == [c EXCEPT !.mark = "removed"]

(* A read whose result is used later.                                       *)
Read == {}

-----------------------------------------------------------------------------
Commits(T) ==
  \A c \in T : /\ c.need \subseteq at[c.id] /\ c.bar \cap at[c.id] = {}
               /\ c.some # {} => c.some \cap at[c.id] # {}

Perform(T) ==
  /\ at' = [i \in Ids |-> IF \E c \in T : c.id = i
                          THEN LET c == CHOOSE c \in T : c.id = i
                               IN (at[i] \ c.del) \cup c.add
                          ELSE at[i]]
  /\ lapsed' = (lapsed \ {c.id : c \in {x \in T : x.lease = "renew"}})
               \cup {c.id : c \in {x \in T : x.lease = "lapse"}}
  /\ UNCHANGED <<kind, due, keyed>>

-----------------------------------------------------------------------------
(* The row of a job in a table of jobs, and its dead letter.                *)
Row        == {"queued", "leased", "completed", "item", "delay"}
DeadLetter == {"dead", "retried"}

HasRow(i)  == at[i] \cap Row # {}
Delayed(i) == {"queued", "delay"} \subseteq at[i]
Due(i)     == Delayed(i) /\ i \in due
Ready(i)   == "queued" \in at[i] /\ "delay" \notin at[i]
Expired(i) == "leased" \in at[i] /\ i \in lapsed

(* The unique index on the idempotency key: rows in any state count.        *)
KeyTaken(i) == i \in keyed /\ \E j \in keyed \ {i} : HasRow(j)

(* What one INSERT of several jobs stores: of those that share the key the  *)
(* first, if no row has it.                                                 *)
Inserted(S, first) == {i \in S : ~KeyTaken(i) /\ (i \in keyed => i = first)}

Columns(delayed) == IF delayed THEN {"queued", "delay"} ELSE {"queued"}

(* cleanJobs by status, over a table of jobs: what each status selects ...  *)
Selected(i, status) ==
  \/ status = "ready" /\ Ready(i)
  \/ status = "active" /\ "leased" \in at[i]
  \/ status = "deferred" /\ "delay" \in at[i]
  \/ status = "failed" /\ "dead" \in at[i]
  \/ status = "completed" /\ at[i] \cap {"completed", "done"} # {}

(* ... and what is deleted of it.                                           *)
Cleared(i, status) ==
  Removing(Erase(i, CASE status = "failed" -> DeadLetter
                      [] status = "completed" -> {"done"} \cup (IF "completed" \in at[i] THEN Row ELSE {})
                      [] OTHER -> Row))

Statuses == {"ready", "active", "deferred", "failed", "completed"}
=============================================================================
