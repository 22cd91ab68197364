--------------------------- MODULE PostgresStore ---------------------------
(* The Postgres adapter (postgres-store.ts): one table of jobs, completed   *)
(* ones included, and one of dead letters.  Every operation is one          *)
(* statement or one database transaction.                                   *)
EXTENDS RemoteStore

PgEnqueue(i, delayed) ==
  <<IF KeyTaken(i) THEN Read ELSE {Accepting(Put(i, Columns(delayed)))}>>

PgEnqueueBatch(S, first, delayed) ==
  <<{Accepting(Put(i, Columns(delayed))) : i \in Inserted(S, first)}>>

(* Mutant of PgLeasable: leases that have not run out are taken as well.    *)
PgLeasableEarly(i) == Ready(i) \/ "leased" \in at[i]

(* FOR UPDATE SKIP LOCKED: a row being leased by another is not seen.       *)
PgLeasable(i) == Ready(i) \/ Expired(i)
PgDequeue(i) == <<{Granting(Change(i, {}, {"queued"}, {"leased"}))}>>

(* flushAckBatch: the rows are deleted in whatever state they are.  The     *)
(* call waits for its batch, so that a batch is an acknowledgement made late. *)
PgAck(i) == <<{Acking(Erase(i, Row))}>>

PgMoveToDeadLetter(i) == <<{Change(i, {}, Row, {"dead"})}>>

(* By id alone: no state, holder or expiry is asked for, and no row made.   *)
PgExtendLease(i)    == <<{Leased(Check(i, {}))}>>
PgUpdateAttempts(i) == <<Read>>
PgSetJobProgress(i) == <<Read>>

(* One statement takes the delay off the due rows nobody has locked.        *)
PgPromoteDelayedJobs(S) == <<{Erase(i, {"delay"}) : i \in S}>>
PgPromotable == {i \in Ids : Due(i)}
PgPromoteJob(i) == <<{Change(i, {"queued", "delay"}, {"delay"}, {})}>>

(* The row with retried_at NULL is locked, its copy inserted, it is marked. *)
PgRetryDeadLetterJob(i, n) ==
  <<{Unless(Change(i, {"dead"}, {}, {"retried"}), {"retried"}), Copying(Put(n, {"queued"}), i)}>>

PgRemoveJob(i) == <<{Removing(Erase(i, Row \cup DeadLetter))}>>

(* The candidates are selected without a lock and deleted by id.            *)
PgCleanByStatus(i, status) == <<Read, {Cleared(i, status)}>>
PgObliterateQueue == <<{Removing(Erase(i, Row \cup DeadLetter)) : i \in Ids}>>

(* The completed row takes the place of the job's own.                      *)
PgAddCompletedJob(i) ==
  <<{IfAny(Change(i, {}, {"queued", "leased"}, {"completed"}), Row)}>>

(* Mutant of PgQueryDeferredJobs: only what is due is listed.               *)
PgQueryDueJobs == {i \in Ids : "delay" \in at[i] /\ i \in due}

(* What the dashboard and the look-up for duplicates list.                  *)
PgGetReadyJobs      == {i \in Ids : Ready(i)}
PgGetActiveJobs     == {i \in Ids : "leased" \in at[i]}
PgQueryDeferredJobs == {i \in Ids : "delay" \in at[i]}
PgGetCompletedJobs  == {i \in Ids : "completed" \in at[i]}
PgGetDeadLetterJobs == {i \in Ids : "dead" \in at[i]}
=============================================================================
