------------------------------ MODULE Schedules ------------------------------
(***************************************************************************)
(* Repeatable schedules (JobManager.schedule, recoverRepeatableSchedules,  *)
(* removeRepeatableSchedule) and Supervisor.start, stop and monitor, in    *)
(* processes over one store.  A durable schedule is a record of an         *)
(* internal queue and a timer in the process that created or recovered it; *)
(* stopping its handle removes the record too, without waiting for it.     *)
(***************************************************************************)
EXTENDS Integers, FiniteSets

CONSTANTS
  Procs,
  Known,      \* Known[p]: the schedules whose job and queue process p has
  Durables,   \* bound: choices of the schedules made with durable: true, the default
  Target,     \* the workers' concurrency, which calculateConcurrency returns
  MaxStarts   \* bound: starts of processes

AllSchedules == UNION {Known[p] : p \in Procs}

ASSUME SchedulesOK == Durables \subseteq SUBSET AllSchedules /\ Target \in Nat \ {0} /\ MaxStarts \in Nat

VARIABLES
  durable,    \* chosen once
  records,    \* schedules the internal queue lists
  leaving,    \* removals on their way: the process and the schedule
  proc,       \* per process, what start, stop and the timers keep
  starts,     \* how many there have been
  made,       \* schedules whose creation has begun
  removed,    \* history: schedules whose removal has ended
  raced       \* history: processes in which a call overlapped start or schedule()

schedulesVars == <<durable, records, leaving, proc, starts, made, removed, raced>>

(* A process that has not been started, or has crashed.                     *)
Down ==
  [running  |-> FALSE,    \* Supervisor.running
   phase    |-> "off",    \* of start(): "off", "recovering" or "listed"
   seen     |-> {},       \* definitions its recovery has found
   tasks    |-> {},       \* scheduledTasks
   timers   |-> [s \in AllSchedules |-> 0],
   making   |-> {},       \* calls of schedule() that have not stored their record
   stored   |-> {},       \* calls of schedule() that have, and go on to the timer
   removing |-> {},       \* calls of removeRepeatableSchedule likewise
   listed   |-> 0, stray |-> 0,  \* workers that run: in the map, and not
   promoter |-> 0,        \* promoters that run
   held     |-> FALSE,    \* whether `promoter' is one of them
   monitors |-> 0,        \* loops of monitor()
   owed     |-> {},       \* history: what its last start had to recover
   gone     |-> {}]       \* history: what had been removed before it

SchedulesInit ==
  /\ durable \in Durables
  /\ records = {} /\ leaving = {} /\ starts = 0 /\ made = {} /\ removed = {} /\ raced = {}
  /\ proc = [p \in Procs |-> Down]

Bump(timers, S) == [s \in AllSchedules |-> timers[s] + (IF s \in S THEN 1 ELSE 0)]
Drop(timers, S) == [s \in AllSchedules |-> timers[s] - (IF s \in S THEN 1 ELSE 0)]

(* A call that has not returned.                                            *)
Scheduling(p) == proc[p].making \cup proc[p].stored
(* Bound: the application calls nothing more in a process where it has not  *)
(* waited for start() or schedule() once.                                   *)
Calls(p) == p \notin raced
Overlap(p, late) == raced' = IF late THEN raced \cup {p} ELSE raced

-----------------------------------------------------------------------------
(* start(): the records are listed once per queue ...                       *)
StartCall(p) ==
  /\ Calls(p) /\ ~proc[p].running /\ proc[p].phase = "off" /\ starts < MaxStarts
  /\ starts' = starts + 1
  /\ proc' = [proc EXCEPT ![p].running = TRUE, ![p].phase = "recovering",
                          ![p].owed = records \cap Known[p], ![p].gone = removed]
  /\ Overlap(p, Scheduling(p) \cup proc[p].removing # {})
  /\ UNCHANGED <<durable, records, leaving, made, removed>>

(* ... and those of jobs or queues this process does not have are removed.  *)
ListRecords(p) ==
  /\ proc[p].phase = "recovering"
  /\ proc' = [proc EXCEPT ![p].phase = "listed", ![p].seen = records \cap Known[p],
                          ![p].owed = @ \cap records]
  /\ records' = records \cap Known[p]
  /\ UNCHANGED <<durable, starts, leaving, made, removed, raced>>

(* Mutant of Recovered: what the first listing had is forgotten.            *)
RecoveredLast(p) == ((records \cap Known[p]) \ proc[p].seen) \ proc[p].tasks

Recovered(p) == (proc[p].seen \cup (records \cap Known[p])) \ proc[p].tasks

(* The last listing: timers, the promoter, the workers and the monitor are  *)
(* started, whether or not the supervisor has been stopped meanwhile.       *)
StartWorkers(p) ==
  /\ proc[p].phase = "listed"
  /\ records' = records \cap Known[p]
  /\ LET me == proc[p] IN
       proc' = [proc EXCEPT ![p] = [me EXCEPT
         !.phase = "off", !.seen = {},
         !.tasks = @ \cup Recovered(p), !.timers = Bump(@, Recovered(p)),
         !.promoter = @ + 1, !.held = TRUE,
         !.stray = @ + me.listed, !.listed = Target,
         !.monitors = IF me.running THEN @ + 1 ELSE @]]
  /\ UNCHANGED <<durable, starts, leaving, made, removed, raced>>

(* Mutant of Stop: the timers of non-durable schedules are left.            *)
StopDurable(p) ==
  LET me == proc[p] IN
    /\ Calls(p) /\ me.running
    /\ proc' = [proc EXCEPT ![p] = [me EXCEPT
         !.running = FALSE, !.promoter = IF me.held THEN @ - 1 ELSE @, !.held = FALSE,
         !.tasks = {}, !.timers = Drop(@, me.tasks \cap durable), !.listed = 0]]
    /\ leaving' = leaving \cup ({p} \X (me.tasks \cap durable))
    /\ Overlap(p, me.phase # "off" \/ Scheduling(p) \cup me.removing # {})
    /\ UNCHANGED <<durable, starts, records, made, removed>>

Stop(p) ==
  LET me == proc[p] IN
    /\ Calls(p) /\ me.running
    /\ proc' = [proc EXCEPT ![p] = [me EXCEPT
         !.running = FALSE, !.promoter = IF me.held THEN @ - 1 ELSE @, !.held = FALSE,
         !.tasks = {}, !.timers = Drop(@, me.tasks), !.listed = 0]]
    /\ leaving' = leaving \cup ({p} \X (me.tasks \cap durable))
    /\ Overlap(p, me.phase # "off" \/ Scheduling(p) \cup me.removing # {})
    /\ UNCHANGED <<durable, starts, records, made, removed>>

(* A removal that was not waited for.                                       *)
Leave(p, s) ==
  /\ <<p, s>> \in leaving
  /\ leaving' = leaving \ {<<p, s>>} /\ records' = records \ {s}
  /\ UNCHANGED <<durable, starts, proc, made, removed, raced>>

(* The process dies; removals on their way may be lost with it.             *)
Crash(p) ==
  /\ proc[p] # Down
  /\ proc' = [proc EXCEPT ![p] = Down]
  /\ leaving' = {l \in leaving : l[1] # p}
  /\ raced' = raced \ {p}
  /\ UNCHANGED <<durable, starts, records, made, removed>>

(* A loop of monitor() wakes up: it ends, or scales the listed workers,     *)
(* of which there are none after stop().                                    *)
Monitor(p) ==
  /\ proc[p].monitors > 0
  /\ proc' = [proc EXCEPT ![p].monitors = IF proc[p].running THEN @ ELSE @ - 1,
                          ![p].listed = IF @ = 0 \/ ~proc[p].running THEN @ ELSE Target]
  /\ UNCHANGED <<durable, starts, records, leaving, made, removed, raced>>

-----------------------------------------------------------------------------
(* schedule(): the hooks, the record, then the timer.                       *)
ScheduleCall(p, s) ==
  /\ Calls(p) /\ proc[p].running /\ s \in Known[p] \ made
  /\ made' = made \cup {s}
  /\ proc' = [proc EXCEPT ![p].making = @ \cup {s}]
  /\ Overlap(p, proc[p].phase # "off")
  /\ UNCHANGED <<durable, starts, records, leaving, removed>>

Persist(p, s) ==
  /\ s \in proc[p].making \cap durable
  /\ records' = records \cup {s}
  /\ proc' = [proc EXCEPT ![p].making = @ \ {s}, ![p].stored = @ \cup {s}]
  /\ UNCHANGED <<durable, starts, leaving, made, removed, raced>>

StartTimer(p, s) ==
  /\ s \in (proc[p].making \ durable) \cup proc[p].stored
  /\ proc' = [proc EXCEPT ![p].making = @ \ {s}, ![p].stored = @ \ {s}, ![p].tasks = @ \cup {s}, ![p].timers[s] = @ + 1]
  /\ UNCHANGED <<durable, starts, records, leaving, made, removed, raced>>

(* removeRepeatableSchedule: the handle here is stopped ...                 *)
RemoveCall(p, s) ==
  /\ Calls(p) /\ proc[p].running /\ s \in records \cup proc[p].tasks /\ s \notin proc[p].removing
  /\ LET mine == {s} \cap proc[p].tasks IN
       /\ proc' = [proc EXCEPT ![p].removing = @ \cup {s}, ![p].tasks = @ \ {s},
                               ![p].timers = Drop(@, mine), ![p].owed = @ \ {s}]
       /\ leaving' = leaving \cup ({p} \X (mine \cap durable))
  /\ Overlap(p, proc[p].phase # "off" \/ s \in Scheduling(p))
  /\ UNCHANGED <<durable, starts, records, made, removed>>

(* ... and then the record removed, where there is one.                     *)
RemoveRecord(p, s) ==
  /\ s \in proc[p].removing
  /\ proc' = [proc EXCEPT ![p].removing = @ \ {s}]
  /\ records' = records \ {s} /\ removed' = removed \cup {s}
  /\ UNCHANGED <<durable, starts, leaving, made, raced>>

SchedulesNext ==
  \E p \in Procs :
    \/ StartCall(p) \/ ListRecords(p) \/ StartWorkers(p) \/ Stop(p) \/ Crash(p) \/ Monitor(p)
    \/ \E s \in AllSchedules :
         \/ Leave(p, s) \/ ScheduleCall(p, s) \/ Persist(p, s) \/ StartTimer(p, s)
         \/ RemoveCall(p, s) \/ RemoveRecord(p, s)

-----------------------------------------------------------------------------
Settled(p) == proc[p].phase = "off" /\ p \notin raced

(* Over any sequence of starts and stops of a process, as long as no call   *)
(* overlaps start() or schedule(): a schedule never has two timers; no      *)
(* worker or promoter runs that stop() could not reach; and after stop()    *)
(* nothing runs (supervisor.ts:930, 185).                                   *)
StoppedIsQuiet ==
  \A p \in Procs : Settled(p) =>
    LET me == proc[p] IN
      /\ \A s \in AllSchedules : me.timers[s] = (IF s \in me.tasks THEN 1 ELSE 0)
      /\ me.stray = 0 /\ me.promoter = (IF me.held THEN 1 ELSE 0)
      /\ ~me.running => me.tasks = {} /\ me.listed = 0 /\ me.promoter = 0

(* A crash loses no durable schedule: what was recorded when the process    *)
(* started, was still recorded when it listed the records, and has not been *)
(* removed here since, runs here (worker-runtime.ts:483).                   *)
RecoveredRun ==
  \A p \in Procs : Settled(p) /\ proc[p].running => \A s \in proc[p].owed : proc[p].timers[s] > 0

(* A removed schedule does not come back: no process that starts after the  *)
(* removal has ended gets a timer for it (worker-runtime.ts:553).           *)
RemovedForGood == 
  \A p \in Procs, s \in AllSchedules :
    p \notin raced /\ s \in proc[p].gone => proc[p].timers[s] = 0

(* The records decide what a process that starts will run: see RecoveredRun *)
(* and RemovedForGood.                                                      *)
RecordsDecide == RecoveredRun /\ RemovedForGood

(* Starts, stops and crashes leave the schedules that should run, and no    *)
(* others: see StoppedIsQuiet and RecordsDecide.                            *)
SchedulesTrue == StoppedIsQuiet /\ RecordsDecide
=============================================================================
