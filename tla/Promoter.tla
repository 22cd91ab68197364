------------------------------ MODULE Promoter ------------------------------
(***************************************************************************)
(* ScheduledJobPromoter (scheduled-job-promoter.ts): one timer per         *)
(* promoter, wake-up requests from schedule.created events, and the pass   *)
(* that moves due jobs of a store to the ready ones.  A store of kind      *)
(* "bulk" has promoteDelayedJobs and getNextDelayedTimestamp (Postgres), a *)
(* "plain" one has neither (all others).  Several promoters may serve one  *)
(* store: those of several processes, and the last pass of a promoter that *)
(* was stopped beside its successor.                                       *)
(*                                                                         *)
(* Times are kept relative to the clock.  One queue.                       *)
(***************************************************************************)
EXTENDS Integers, FiniteSets, FiniteSetsExt

CONSTANTS
  Jobs, Promoters, None,
  Delays,           \* delays dispatchers and snoozes ask for, in clock units
  PollingInterval,  \* promoterIntervalMs
  MaxTick,          \* bound: clock units one pass may last
  Stores,           \* kinds of store: "plain", "bulk"
  Unannounced,      \* do jobs arrive without schedule.created
  Steering,         \* operations in use: "promote", "remove", "stop"
  MaxRejects        \* bound: store calls that reject

ASSUME PromoterConstantsOK ==
  /\ None \notin Nat
  /\ Delays \subseteq Nat /\ \E longest \in Delays : \A d \in Delays : d <= longest
  /\ PollingInterval \in Nat \ {0} /\ MaxTick \in Nat
  /\ Stores \subseteq {"plain", "bulk"} /\ Unannounced \in BOOLEAN /\ MaxRejects \in Nat

VARIABLES
  store,    \* the kind of store, chosen once
  job,      \* "new", "announced" (dispatch waits for enqueue), "delayed", "ready",
            \* "leased" or "gone"
  left,     \* delayUntil minus the clock; bound: not below -MaxTick
  home,     \* the promoter whose process announced the job
  running, stage,  \* of each promoter: the flag, and where its pass is
  timer,    \* nextScheduledAt minus the clock, of a sleeping promoter
  wake,     \* requestedWakeAt minus the clock
  age,      \* the clock minus the pass's "now"
  list,     \* jobs read by getDelayedJobs and not yet moved
  found,    \* promotedAny
  next,     \* nextDelayMs
  rejects,  \* store calls that rejected so far
  wait,     \* history: how long a stored job has been due while some promoter ran;
            \* bound: saturates above Patience
  excused   \* history: jobs no promoter can be expected to be in time for

jobVars      == <<job, left, home>>
promoterVars == <<running, stage, timer, wake, age, list, found, next>>
promVars     == <<store, jobVars, promoterVars, rejects, wait, excused>>

-----------------------------------------------------------------------------
FastRecheck == 1
Latest(a, b)  == IF a >= b THEN a ELSE b
Soonest(a, b) == IF a = None THEN b ELSE IF b = None THEN a ELSE IF a <= b THEN a ELSE b
Slack    == PollingInterval + 2 * MaxTick
Patience == Slack + Max(Delays) + MaxRejects * (PollingInterval + MaxTick)

Stored     == {j \in Jobs : job[j] = "delayed"}
Gone       == {j \in Jobs : job[j] = "gone"}
Unpromoted == {j \in Jobs : job[j] \in {"announced", "delayed"}}
Served     == \E p \in Promoters : running[p]
Passing(p) == stage[p] \in {"listing", "moving", "asking", "closing"}

PromInit ==
  /\ store \in Stores
  /\ job = [j \in Jobs |-> "new"]
  /\ left = [j \in Jobs |-> 0]
  /\ home = [j \in Jobs |-> None]
  /\ running = [p \in Promoters |-> FALSE]
  /\ stage = [p \in Promoters |-> "off"]
  /\ timer = [p \in Promoters |-> 0]
  /\ wake = [p \in Promoters |-> None]
  /\ age = [p \in Promoters |-> 0]
  /\ list = [p \in Promoters |-> {}]
  /\ found = [p \in Promoters |-> FALSE]
  /\ next = [p \in Promoters |-> None]
  /\ rejects = 0
  /\ wait = [j \in Jobs |-> 0]
  /\ excused = {}

Goto(p, label) == stage' = [stage EXCEPT ![p] = label]

(* The jobs of J go to another state and lose their delayUntil.             *)
Depart(J, state) ==
  /\ job' = [j \in Jobs |-> IF j \in J THEN state ELSE job[j]]
  /\ left' = [j \in Jobs |-> IF j \in J THEN 0 ELSE left[j]]
  /\ wait' = [j \in Jobs |-> IF j \in J THEN 0 ELSE wait[j]]
  /\ excused' = excused \ J

-----------------------------------------------------------------------------
(* Mutant of RequestReschedule: a request during a pass is forgotten.       *)
ForgetDuringPass(p, d) ==
  /\ timer' = IF running[p] /\ stage[p] = "sleeping"
              THEN [timer EXCEPT ![p] = Soonest(@, Latest(FastRecheck, d))] ELSE timer
  /\ UNCHANGED wake

(* requestRescheduleAt: an armed timer is brought forward; during a pass    *)
(* the earliest request is kept for its end.                                *)
RequestReschedule(p, d) ==
  LET target == Latest(FastRecheck, d)
  IN IF ~running[p] THEN UNCHANGED <<timer, wake>>
     ELSE IF stage[p] = "sleeping"
          THEN timer' = [timer EXCEPT ![p] = Soonest(@, target)] /\ UNCHANGED wake
          ELSE wake' = [wake EXCEPT ![p] = Soonest(@, target)] /\ UNCHANGED timer

(* dispatchInternal emits schedule.created, awaits the onJobPrioritized     *)
(* hooks, and only then enqueues.                                           *)
Announce(p, j) ==
  /\ job[j] = "new"
  /\ job' = [job EXCEPT ![j] = "announced"]
  /\ home' = [home EXCEPT ![j] = p]
  /\ \E d \in Delays : left' = [left EXCEPT ![j] = d] /\ RequestReschedule(p, d)
  /\ excused' = IF running[p] THEN excused ELSE excused \cup {j}
  /\ UNCHANGED <<store, running, stage, age, list, found, next, rejects, wait>>

Store(j) ==
  /\ job[j] = "announced"
  /\ job' = [job EXCEPT ![j] = "delayed"]
  /\ home' = [home EXCEPT ![j] = None]
  /\ UNCHANGED <<store, left, promoterVars, rejects, wait, excused>>

(* A snoozed copy, or a job dispatched by a process of its own: nothing     *)
(* tells the promoter.                                                      *)
StoreUnannounced(j) ==
  /\ Unannounced /\ job[j] = "new"
  /\ job' = [job EXCEPT ![j] = "delayed"]
  /\ \E d \in Delays : left' = [left EXCEPT ![j] = d]
  /\ excused' = IF store = "bulk" \/ ~Served
                THEN excused \cup {j} ELSE excused
  /\ UNCHANGED <<store, home, promoterVars, rejects, wait>>

-----------------------------------------------------------------------------
(* start() begins a pass at once, the timer begins every other.             *)
BeginPass(p) ==
  /\ Goto(p, "listing")
  /\ UNCHANGED <<store, jobVars, timer, wake, age, list, found, next, rejects, wait, excused>>

Start(p) ==
  /\ stage[p] = "off"
  /\ running' = [running EXCEPT ![p] = TRUE]
  /\ BeginPass(p)

Fire(p) ==
  /\ stage[p] = "sleeping" /\ timer[p] = 0
  /\ BeginPass(p)
  /\ UNCHANGED running

(* What is due at the time the pass began.                                  *)
Due(p) == {j \in Stored : left[j] <= -age[p]}

(* promoteDelayedJobs selects and updates in one statement.                 *)
PromoteAll(p) ==
  /\ stage[p] = "listing" /\ store = "bulk"
  /\ Depart(Due(p), "ready")
  /\ found' = [found EXCEPT ![p] = Due(p) # {}]
  /\ Goto(p, "asking")
  /\ UNCHANGED <<store, home, running, timer, wake, age, list, next, rejects>>

List(p) ==
  /\ stage[p] = "listing" /\ store = "plain"
  /\ list' = [list EXCEPT ![p] = Due(p)]
  /\ Goto(p, "moving")
  /\ UNCHANGED <<store, jobVars, running, timer, wake, age, found, next, rejects, wait, excused>>

(* moveJobToQueue makes any record that still exists a ready one.           *)
Move(p) ==
  /\ stage[p] = "moving"
  /\ \E j \in list[p] :
       /\ list' = [list EXCEPT ![p] = @ \ {j}]
       /\ Depart({j} \ Gone, "ready")
  /\ found' = [found EXCEPT ![p] = TRUE]
  /\ UNCHANGED <<store, home, running, stage, timer, wake, age, next, rejects>>

(* A move that rejects is skipped; the other jobs of the list follow.       *)
MoveRejects(p) ==
  /\ stage[p] = "moving" /\ rejects < MaxRejects
  /\ rejects' = rejects + 1
  /\ \E j \in list[p] : /\ list' = [list EXCEPT ![p] = @ \ {j}]
                        /\ excused' = excused \cup ({j} \cap Stored)
  /\ UNCHANGED <<store, jobVars, running, stage, timer, wake, age, found, next, wait>>

AllMoved(p) ==
  /\ stage[p] = "moving" /\ list[p] = {}
  /\ Goto(p, "closing")
  /\ UNCHANGED <<store, jobVars, running, timer, wake, age, list, found, next, rejects, wait, excused>>

(* getNextDelayedTimestamp: the delay is reckoned from the start of the     *)
(* pass.  A job whose wake-up this pass used up and that is still not in    *)
(* the store is one the promoter will not hear of again.                    *)
AskNext(p) ==
  /\ stage[p] = "asking"
  /\ next' = [next EXCEPT ![p] =
                IF Stored = {} THEN None
                ELSE Latest(0, Min({left[j] : j \in Stored}) + age[p])]
  /\ excused' = excused \cup
       {j \in Jobs : /\ job[j] = "announced" /\ home[j] = p
                     /\ wake[p] = None \/ wake[p] > Latest(FastRecheck, left[j])}
  /\ Goto(p, "closing")
  /\ UNCHANGED <<store, jobVars, running, timer, wake, age, list, found, rejects, wait>>

(* Mutant of QueryRejects: the rejection escapes and nothing is scheduled.  *)
QueryEscapes(p) ==
  /\ stage[p] \in {"listing", "asking"} /\ rejects < MaxRejects
  /\ rejects' = rejects + 1
  /\ Goto(p, "off")
  /\ UNCHANGED <<store, jobVars, running, timer, wake, age, list, found, next, wait, excused>>

(* A query that rejects ends the pass, and the next one is scheduled.       *)
QueryRejects(p) ==
  /\ stage[p] \in {"listing", "asking"} /\ rejects < MaxRejects
  /\ rejects' = rejects + 1
  /\ excused' = excused \cup Unpromoted
  /\ Goto(p, "closing")
  /\ UNCHANGED <<store, jobVars, running, timer, wake, age, list, found, next, wait>>

(* tick's finally: look again at once after a promotion, else when the next *)
(* job is due, else after the polling interval; sooner if asked to.         *)
NextDelay(p) ==
  LET computed  == IF found[p] THEN FastRecheck
                   ELSE IF next[p] # None THEN Latest(FastRecheck, next[p])
                   ELSE PollingInterval
      requested == IF wake[p] = None THEN None ELSE Latest(FastRecheck, wake[p])
  IN Soonest(computed, requested)

ClosePass(p) ==
  /\ stage[p] = "closing"
  /\ wake' = [wake EXCEPT ![p] = None]
  /\ timer' = IF running[p] THEN [timer EXCEPT ![p] = NextDelay(p)] ELSE timer
  /\ Goto(p, IF running[p] THEN "sleeping" ELSE "off")
  /\ age' = [age EXCEPT ![p] = 0]
  /\ found' = [found EXCEPT ![p] = FALSE] /\ next' = [next EXCEPT ![p] = None]
  /\ UNCHANGED <<store, jobVars, running, list, rejects, wait, excused>>

(* stop() drops the timer; a pass under way runs to its end.                *)
Stop(p) ==
  /\ "stop" \in Steering /\ running[p]
  /\ running' = [running EXCEPT ![p] = FALSE]
  /\ Goto(p, IF Passing(p) THEN stage[p] ELSE "off")
  /\ timer' = [timer EXCEPT ![p] = 0] /\ wake' = [wake EXCEPT ![p] = None]
  /\ excused' = excused \cup Unpromoted
  /\ UNCHANGED <<store, jobVars, age, list, found, next, rejects, wait>>

-----------------------------------------------------------------------------
(* Workers and the operator.                                                *)
SetJob(j, from, to) ==
  /\ job[j] = from /\ Depart({j}, to)
  /\ UNCHANGED <<store, home, promoterVars, rejects>>

LeaseJob(j)   == SetJob(j, "ready", "leased")
Settle(j)     == SetJob(j, "leased", "gone")
PromoteJob(j) == "promote" \in Steering /\ SetJob(j, "delayed", "ready")
RemoveJob(j)  == "remove" \in Steering /\ SetJob(j, "delayed", "gone")

(* The clock: timers fire on time and a pass lasts at most MaxTick.         *)
ClockTick ==
  /\ \A p \in Promoters : stage[p] = "sleeping" => timer[p] > 0
  /\ \A p \in Promoters : Passing(p) => age[p] < MaxTick
  /\ left' = [j \in Jobs |-> IF j \in Unpromoted THEN Latest(left[j] - 1, -MaxTick) ELSE left[j]]
  /\ wait' = [j \in Jobs |-> IF j \in Stored /\ left[j] <= 0 /\ Served /\ wait[j] <= Patience
                             THEN wait[j] + 1 ELSE wait[j]]
  /\ timer' = [p \in Promoters |-> IF stage[p] = "sleeping" THEN timer[p] - 1 ELSE timer[p]]
  /\ wake' = [p \in Promoters |-> IF wake[p] = None THEN None ELSE Latest(wake[p] - 1, 0)]
  /\ age' = [p \in Promoters |-> IF Passing(p) THEN age[p] + 1 ELSE age[p]]
  /\ UNCHANGED <<store, job, home, running, stage, list, found, next, rejects, excused>>

PassStep(p) ==
  \/ Fire(p) \/ PromoteAll(p) \/ List(p) \/ Move(p) \/ MoveRejects(p) \/ AllMoved(p)
  \/ AskNext(p) \/ QueryRejects(p) \/ ClosePass(p)

PromNext ==
  \/ ClockTick
  \/ \E p \in Promoters :
       \/ Start(p) \/ Stop(p) \/ PassStep(p)
       \/ \E j \in Jobs : Announce(p, j)
  \/ \E j \in Jobs : \/ Store(j) \/ StoreUnannounced(j)
                     \/ LeaseJob(j) \/ Settle(j) \/ PromoteJob(j) \/ RemoveJob(j)

PromSpec == PromInit /\ [][PromNext]_promVars

-----------------------------------------------------------------------------
PromTypeOK ==
  /\ store \in Stores
  /\ job \in [Jobs -> {"new", "announced", "delayed", "ready", "leased", "gone"}]
  /\ left \in [Jobs -> Int] /\ home \in [Jobs -> Promoters \cup {None}]
  /\ running \in [Promoters -> BOOLEAN]
  /\ stage \in [Promoters -> {"off", "sleeping", "listing", "moving", "asking", "closing"}]
  /\ timer \in [Promoters -> Nat] /\ wake \in [Promoters -> Nat \cup {None}]
  /\ age \in [Promoters -> 0..MaxTick]
  /\ list \in [Promoters -> SUBSET Jobs]
  /\ found \in [Promoters -> BOOLEAN] /\ next \in [Promoters -> Nat \cup {None}]
  /\ rejects \in 0..MaxRejects /\ wait \in [Jobs -> Nat] /\ excused \subseteq Jobs

(* A stored job is promoted within a polling interval and two passes of its *)
(* due time, although the promoter of a bulk store sleeps as long as it     *)
(* thinks it may: schedule.created, the wake-up kept during a pass and the  *)
(* delay reckoned from the start of the pass must never leave a gap.  Not   *)
(* claimed of the jobs in excused: those that arrive in a bulk store        *)
(* without an event or after their wake-up was used, those a store call was *)
(* rejected for, and those that waited when a promoter was stopped.         *)
PromotedInTime == \A j \in Stored \ excused : wait[j] <= Slack

(* No delayed job is forgotten: however it got into the store and whatever  *)
(* was rejected or stopped before, a running promoter looks again when the  *)
(* longest delay it may be asleep for is over.                              *)
NeverForgotten == \A j \in Stored : wait[j] <= Patience
=============================================================================
