----------------------------- MODULE Dashboard -----------------------------
(***************************************************************************)
(* The dashboard's HTTP API (dashboard-api routes/dashboard.ts, which all  *)
(* adapters mount or proxy) over the supervisor's queries and commands,    *)
(* while the jobs it reports move.                                         *)
(*                                                                         *)
(* A handler is a sequence of steps.  Gates are run at once and refuse the *)
(* request; a look is a query skipped once the job has been found; reads   *)
(* are queries sent together; a call awaits the store, in one step or in   *)
(* several, or is a method of the supervisor that does not wait; answer    *)
(* sends the response.  The jobs are of the queue Home: what a query       *)
(* awaits for another queue changes nothing and is left out.  A queue has  *)
(* at most one schedule, named by it.                                      *)
(***************************************************************************)
EXTENDS Integers, FiniteSets, Sequences

CONSTANTS
  Jobs, NoJob,
  Queues, Home,       \* the configured queues, and the one that holds the jobs
  Stranger, NoName,   \* a name that is no queue, and the lack of a name
  MaxCopies           \* copies of a letter beyond which no one else replays it

ASSUME DashboardConstantsOK ==
  Home \in Queues /\ {Stranger, NoName} \cap Queues = {} /\ NoJob \notin Jobs /\ IsFiniteSet(Jobs)
  /\ MaxCopies \in Nat

VARIABLES
  place,      \* listings that show each job; "retried" marks a replayed dead letter
  copies,     \* how often each was replayed
  schedules,  \* queues that have a schedule
  control,    \* what the operator has set: <<"paused", queue>>, "scaled", "retention"
  view,       \* how the store lists: its kind, the page the jobs are on, whether silenced,
              \* and how it replays
  req, pos,   \* the request and the step it is at; req.allowed are the names it may use
  pending,    \* queries sent and not answered
  seen,       \* <<listing, job>> and <<"schedules", queue>> the answers showed
  did,        \* what the last call returned
  todo,       \* jobs a call has still to take, when it takes them one by one
  mine, theirs,  \* how many commands of its replay of a job the request, and another
              \* operator, have behind them
  answer,     \* 0: none yet, -1: the handler returned without one
  still,      \* history: where a job has stood since the request came, if it reads
  touched,    \* history: whether the request changed anything
  raced       \* history: letters whose replays overlapped or were broken off

systemVars  == <<place, copies, schedules, control>>
requestVars == <<req, pos, pending, seen, did, todo, mine, answer, still, touched>>
dashVars    == <<systemVars, view, requestVars, theirs, raced>>

Listings == {"completed", "ready", "active", "pending", "due", "dead"}

-----------------------------------------------------------------------------
(* Steps.                                                                   *)
Gate(g)    == [do |-> "gate", what |-> g]
Look(l)    == [do |-> "look", what |-> l]
Reads(S)   == [do |-> "reads", what |-> S]
Call(c)    == [do |-> "call", what |-> c]
Sync(c)    == [do |-> "sync", what |-> c]
Answer(n)  == [do |-> "answer", what |-> n]

Shown == <<Answer(200)>>
Done  == <<Answer(202)>>

(* enforceQueueAccess tells a missing name from a queue that is denied only *)
(* by what it sends: nothing, or 403.                                       *)
Passes(g, r, found, ok) ==
  CASE g = "read"    -> TRUE
    [] g = "operate" -> r.level >= 2
    [] g = "admin"   -> r.level >= 3
    [] g = "name"    -> r.name # NoName
    [] g = "access"  -> r.name \in r.allowed
    [] g = "filter"  -> r.name \in r.allowed \cup {NoName}
    [] g = "known"   -> r.name \in Queues
    [] g = "id"      -> r.id # NoJob
    [] g = "both"    -> r.id # NoJob /\ r.name # NoName
    [] g = "payload" -> r.sound
    [] g = "exists"  -> r.sound
    [] g = "found"   -> \E l \in Listings : <<l, r.id>> \in found
    [] g = "visible" -> Home \in r.allowed
    [] g = "listed"  -> <<"schedules", r.name>> \in found
    [] g = "owner"   -> r.name \in r.allowed
    [] g = "did"     -> ok

Refusal(g, r) ==
  CASE g \in {"operate", "admin", "filter", "owner"} -> 403
    [] g = "access" -> IF r.name = NoName THEN -1 ELSE 403
    [] g \in {"name", "id", "both", "payload"} -> 400
    [] g \in {"known", "exists", "found", "visible", "listed", "did"} -> 404

-----------------------------------------------------------------------------
(* The supervisor's queries and the services built from them.               *)
GetQueueDepth   == Reads({"depth"})
QueryDeferred   == Reads({"pending"})
GetDLQ          == Reads({"dead"})
GetCompleted    == Reads({"completed"})
GetReadyJobs    == Reads({"ready"})
GetActiveJobs   == Reads({"active"})
ListRepeatables == Reads({"schedules"})
QueryJobArchive == Reads({"archive"})
GetQueueStatus  == Reads({"depth", "ready", "active", "pending", "dead"})

(* Per queue one after the other; the queues side by side.                  *)
BuildOverview ==
  <<ListRepeatables, GetQueueDepth, QueryDeferred, GetDLQ, GetCompleted>>

Statuses == {"all", "dlq", "ready", "active", "completed", "deferred", "pending", "due"}

GetDashboardJobs(status) ==
  CASE status = "all" -> Reads({"dead", "ready", "active", "deferred", "completed"})
    [] status = "dlq" -> GetDLQ
    [] status = "ready" -> GetReadyJobs
    [] status = "active" -> GetActiveJobs
    [] status = "completed" -> GetCompleted
    [] status \in {"deferred", "pending", "due"} -> Reads({status})

GetSilencedJobs == GetCompleted

(* Mutant of GetDashboardJobById: jobs whose delay is over are forgotten.   *)
JobByIdUnpromoted ==
  <<Look("completed"), Look("ready"), Look("active"), Look("pending"), Look("dead")>>

GetDashboardJobById ==
  <<Look("completed"), Look("ready"), Look("active"), Look("pending"), Look("due"), Look("dead")>>

ListMonitoringTags == Reads({"ready", "active", "completed", "dead"})
BuildSloReport     == Reads({"completed", "dead"})

-----------------------------------------------------------------------------
(* The routes.                                                              *)
Overview        == <<Gate("read")>> \o BuildOverview \o Shown
QueuesRoute     == <<Gate("read")>> \o BuildOverview \o Shown
WorkersRoute    == <<Gate("read")>> \o BuildOverview \o Shown
Summary         == <<Gate("read")>> \o BuildOverview \o Shown
QueueStatus     == <<Gate("read"), Gate("name"), Gate("access"), Gate("known"), GetQueueStatus>> \o Shown
PauseRoute      == <<Gate("operate"), Gate("name"), Gate("access"), Gate("known"), Sync("pause")>> \o Done
ResumeRoute     == <<Gate("operate"), Gate("access"), Gate("name"), Gate("known"), Sync("resume")>> \o Done
DrainRoute      == <<Gate("operate"), Gate("access"), Gate("name"), Gate("known"),
                     Sync("pause"), Call("drain")>> \o Done
FlowsRoute      == Shown
FlowRoute       == <<Gate("id"), Gate("exists")>> \o Shown
ArchiveRoute    == <<Gate("read"), Gate("filter"), QueryJobArchive>> \o Shown
RetentionRoute  == <<Gate("admin"), Gate("payload"), Sync("retention")>> \o Shown
BatchesRoute    == <<Gate("read")>> \o Shown
BatchRoute      == <<Gate("read"), Gate("id"), Gate("exists")>> \o Shown
BatchRetry      == <<Gate("operate"), Gate("id"), Call("retryBatch")>> \o Done
MonitoringRoute == <<Gate("read"), ListMonitoringTags>> \o Shown
TagRoute        == <<Gate("read"), Gate("id"), ListMonitoringTags, Gate("found"), Gate("visible")>> \o Shown
SloRoute        == <<Gate("read"), Gate("filter"), BuildSloReport>> \o Shown
JobsRoute(status) == <<Gate("read"), Gate("filter"), GetDashboardJobs(status)>> \o Shown
FailedRoute     == JobsRoute("dlq")
ReadyRoute      == JobsRoute("ready")
ActiveRoute     == JobsRoute("active")
ProcessedRoute  == JobsRoute("completed")
CompletedRoute  == JobsRoute("completed")
SilencedRoute   == <<Gate("read"), Gate("filter"), GetSilencedJobs>> \o Shown
JobRoute        == <<Gate("read"), Gate("id"), Gate("filter")>> \o GetDashboardJobById
                   \o <<Gate("found"), Gate("visible")>> \o Shown
SchedulesRoute  == <<Gate("read"), Gate("filter"), ListRepeatables>> \o Shown
UnscheduleRoute == <<Gate("operate"), Gate("name"), ListRepeatables, Gate("listed"), Gate("owner"),
                     Call("unschedule"), Gate("did")>> \o Done
ClearRoute      == <<Gate("operate"), Gate("filter"), ListRepeatables, Call("clear")>> \o Done
PromoteRoute    == <<Gate("operate"), Gate("access"), Gate("both"), Call("promote"), Gate("did")>> \o Done
RemoveRoute     == <<Gate("operate"), Gate("access"), Gate("both"), Call("remove"), Gate("did")>> \o Done
CleanRoute      == <<Gate("operate"), Gate("access"), Gate("name"), Call("clean")>> \o Done
ObliterateRoute == <<Gate("operate"), Gate("access"), Gate("name"), Call("obliterate")>> \o Done

(* Mutant of RetryDlqRoute: the job is replayed before the gates are asked. *)
RetryDlqFirst ==
  <<Gate("operate"), Call("retry"), Gate("access"), Gate("both"), Gate("did")>> \o Done

RetryDlqRoute    == <<Gate("operate"), Gate("access"), Gate("both"), Call("retry"), Gate("did")>> \o Done
RetryFailedRoute == <<Gate("operate"), Gate("access"), Gate("both"), Call("retry"), Gate("did")>> \o Done
ScalingRoute     == <<Gate("read")>> \o Shown
ScaleRoute       == <<Gate("admin"), Gate("payload"), Sync("scale")>> \o Done

Handlers ==
  [overview |-> Overview, queues |-> QueuesRoute, workers |-> WorkersRoute, summary |-> Summary,
   status |-> QueueStatus, pause |-> PauseRoute, resume |-> ResumeRoute, drain |-> DrainRoute,
   flows |-> FlowsRoute, flow |-> FlowRoute, archive |-> ArchiveRoute, retention |-> RetentionRoute,
   batches |-> BatchesRoute, batch |-> BatchRoute, batchRetry |-> BatchRetry,
   monitoring |-> MonitoringRoute, tag |-> TagRoute, slo |-> SloRoute,
   failed |-> FailedRoute, ready |-> ReadyRoute, active |-> ActiveRoute,
   processed |-> ProcessedRoute, completed |-> CompletedRoute, silenced |-> SilencedRoute,
   job |-> JobRoute, schedules |-> SchedulesRoute, unschedule |-> UnscheduleRoute,
   clear |-> ClearRoute, promote |-> PromoteRoute, remove |-> RemoveRoute, clean |-> CleanRoute,
   obliterate |-> ObliterateRoute, retryDlq |-> RetryDlqRoute, retryFailed |-> RetryFailedRoute,
   scaling |-> ScalingRoute, scale |-> ScaleRoute]

Routes == DOMAIN Handlers \cup {"jobs"}

Steps(r) == IF r.route = "jobs" THEN JobsRoute(r.status) ELSE Handlers[r.route]

-----------------------------------------------------------------------------
(* What a query shows of a job.  The completed jobs that are silenced are   *)
(* listed apart.  The SQL and MongoDB stores list a hundred rows of a queue *)
(* unless told otherwise, and the supervisor does not pass its limit on:    *)
(* the jobs of a "deep" queue stand behind them.  Where the store has an    *)
(* archive of its own (all but "plain"), the supervisor passes the offset   *)
(* on and applies it once more.                                             *)
Stands(l, j) ==
  CASE l = "deferred" -> place[j] \cap {"pending", "due"} # {}
    [] l = "archive" -> "completed" \in place[j]
    [] OTHER -> l \in place[j]

Silent(l, r) ==
  l = "completed" /\ IF r.route = "silenced" THEN ~view.silenced
                     ELSE view.silenced /\ r.route \in {"jobs", "processed", "completed"}

Paged == {"archive", "jobs", "failed", "ready", "active", "processed", "completed", "silenced"}

OnPage(r) ==
  /\ view.store # "deep"
  /\ r.route \in Paged => view.page = r.page
  /\ r.route = "archive" /\ view.store # "plain" => r.page = 1

Shows(l, r) ==
  {<<l, j>> : j \in {k \in Jobs : /\ r.name \in {NoName, Home} /\ Stands(l, k)
                                  /\ ~Silent(l, r) /\ OnPage(r)}}

Reply(l, r) == IF l = "schedules" THEN {<<"schedules", q>> : q \in schedules} ELSE Shows(l, r)

-----------------------------------------------------------------------------
(* Serving a request.                                                       *)
Halts(s, r, found, ok) ==
  CASE s.do = "gate" -> ~Passes(s.what, r, found, ok)
    [] s.do = "look" -> \A l \in Listings : <<l, r.id>> \notin found
    [] s.do = "sync" -> FALSE
    [] OTHER -> TRUE

NextHalt(r, k, found, ok) ==
  CHOOSE n \in (k + 1)..Len(Steps(r)) :
    /\ Halts(Steps(r)[n], r, found, ok)
    /\ \A m \in (k + 1)..(n - 1) : ~Halts(Steps(r)[m], r, found, ok)

(* What is set and then told to the listeners of the bus: one may throw.    *)
Heard == {"pause", "resume", "scale"}

Set(r, c) ==
  CASE c = "pause" -> control \cup {<<"paused", r.name>>}
    [] c = "resume" -> control \ {<<"paused", r.name>>}
    [] OTHER -> control \cup {<<c, NoName>>}

(* The handler runs from step k to its next await or to its end.            *)
Run(r, k, found, ok) ==
  LET n == NextHalt(r, k, found, ok)
      s == Steps(r)[n]
      syncs == {m \in (k + 1)..(n - 1) : Steps(r)[m].do = "sync"}
  IN /\ pos' = n /\ seen' = found /\ did' = ok
     /\ pending' = CASE s.do = "reads" -> s.what
                      [] s.do \in {"look", "call"} -> {s.what}
                      [] OTHER -> {}
     /\ answer' \in {CASE s.do = "gate" -> Refusal(s.what, r) [] s.do = "answer" -> s.what [] OTHER -> 0}
                    \cup (IF \E m \in syncs : Steps(r)[m].what \in Heard THEN {500} ELSE {})
     /\ control' = IF syncs = {} THEN control
                   ELSE Set(r, Steps(r)[CHOOSE m \in syncs : TRUE].what)

Looking(r) == \E i \in DOMAIN Steps(r) : Steps(r)[i].do \in {"look", "reads"}

Receive(r) ==
  /\ answer # 0
  /\ req' = r
  /\ Run(r, 0, {}, FALSE)
  /\ still' = {x \in (Listings \cup {"deferred", "archive"}) \X Jobs : Looking(r) /\ Stands(x[1], x[2])}
  /\ touched' = (control' # control)
  /\ todo' = {} /\ mine' = [j \in Jobs |-> 0]
  /\ UNCHANGED <<place, copies, schedules, view, theirs, raced>>

Remains == still' = {x \in still : Stands(x[1], x[2])'}

Step == Steps(req)[pos]
Calls(c) == Step.do = "call" /\ Step.what = c

(* A query is answered; with the last of those sent together the handler    *)
(* goes on.                                                                 *)
Answered(l) ==
  /\ answer = 0 /\ Step.do \in {"reads", "look"} /\ l \in pending
  /\ LET found == seen \cup Reply(l, req)
     IN IF pending = {l} THEN Run(req, pos, found, did)
        ELSE /\ pending' = pending \ {l} /\ seen' = found
             /\ UNCHANGED <<pos, did, answer, control>>
  /\ touched' = (touched \/ control' # control)
  /\ UNCHANGED <<place, copies, schedules, view, req, todo, mine, still, theirs, raced>>

-----------------------------------------------------------------------------
(* What the handler waits for rejects, and its catch answers.  The file     *)
(* store catches what its replay meets.                                     *)
Fails ==
  /\ ~(view.replays = "copies" /\ (Calls("retry") \/ Calls("retryBatch")))
  /\ answer' = 500
  /\ UNCHANGED <<pos, pending, seen, did, control>>

(* The call is over.  Its answer may be lost on the way from the store, and *)
(* promoteJob, cleanJobs, obliterateQueue and drainQueue tell the bus, a    *)
(* listener of which may throw.                                             *)
Returns(ok) == Run(req, pos, seen, ok) \/ Fails

Goes == UNCHANGED <<pos, seen, did, answer, control>>

-----------------------------------------------------------------------------
(* The commands: the store's promoteJob, removeJob and retryDeadLetterJob   *)
(* by what they ask of the places of the job and leave it in.               *)
Promotable(P) == P \cap {"pending", "due"} # {}
Replayable(P) == "dead" \in P /\ "retried" \notin P

Here   == req.name \in {NoName, Home}
Exists == Here /\ req.id \in Jobs

CallPromote ==
  /\ Calls("promote")
  /\ IF Exists /\ Promotable(place[req.id])
     THEN place' = [place EXCEPT ![req.id] = {"ready"}] /\ Returns(TRUE)
     ELSE Returns(FALSE) /\ UNCHANGED place
  /\ UNCHANGED <<copies, schedules, todo, mine, raced>>

(* Some stores leave a completion record alone.                             *)
Taken(P, kept) == IF kept THEN P \cap {"completed"} ELSE {}

CallRemove ==
  /\ Calls("remove")
  /\ \E kept \in BOOLEAN :
       IF Exists /\ Taken(place[req.id], kept) # place[req.id]
       THEN place' = [place EXCEPT ![req.id] = Taken(@, kept)] /\ Returns(TRUE)
       ELSE Returns(FALSE) /\ UNCHANGED place
  /\ UNCHANGED <<copies, schedules, todo, mine, raced>>

(* retryDeadLetterJob: the letter is asked for its mark, marked, and copied *)
(* to the queue.  In the in-memory store, Postgres and MySQL at once; in    *)
(* MongoDB and DynamoDB the copy comes later, in Redis all are commands of  *)
(* their own; the file store copies first.                                  *)
Commands ==
  CASE view.replays = "whole"  -> <<{"ask", "mark", "copy"}>>
    [] view.replays = "marks"  -> <<{"ask", "mark"}, {"copy"}>>
    [] view.replays = "asks"   -> <<{"ask"}, {"mark"}, {"copy"}>>
    [] view.replays = "copies" -> <<{"ask"}, {"copy"}, {"mark"}>>

(* The next command of a replay of j that has n behind it.                  *)
Replays(j, n) ==
  /\ n > 0 \/ Replayable(place[j])
  /\ place' = IF "mark" \in Commands[n + 1] THEN [place EXCEPT ![j] = {"dead", "retried"}] ELSE place
  /\ copies' = IF "copy" \in Commands[n + 1] THEN [copies EXCEPT ![j] = @ + 1] ELSE copies

Further(n) == IF n + 1 = Len(Commands) THEN 0 ELSE n + 1

TakesUp(j) ==
  /\ Replays(j, mine[j])
  /\ mine' = [mine EXCEPT ![j] = Further(@)]
  /\ raced' = IF theirs[j] > 0 THEN raced \cup {j} ELSE raced

CallRetry ==
  /\ Calls("retry")
  /\ IF Exists /\ (mine[req.id] > 0 \/ Replayable(place[req.id]))
     THEN /\ TakesUp(req.id)
          /\ IF Further(mine[req.id]) = 0 THEN Returns(TRUE) ELSE Goes /\ UNCHANGED pending
     ELSE Returns(FALSE) /\ UNCHANGED <<place, copies, mine, raced>>
  /\ UNCHANGED <<schedules, todo>>

(* retryFailedBatchJobs: the entries that failed, one after the other.      *)
CallRetryBatch ==
  /\ Calls("retryBatch")
  /\ \/ /\ pending # {} /\ pending' = {}
        /\ todo' \in SUBSET Jobs
        /\ Goes /\ UNCHANGED <<place, copies, mine, raced>>
     \/ /\ pending = {} /\ UNCHANGED pending
        /\ \E j \in todo :
             /\ \A i \in todo \ {j} : mine[i] = 0
             /\ IF mine[j] > 0 \/ Replayable(place[j])
                THEN /\ TakesUp(j)
                     /\ todo' = IF Further(mine[j]) = 0 THEN todo \ {j} ELSE todo
                ELSE todo' = todo \ {j} /\ UNCHANGED <<place, copies, mine, raced>>
        /\ Goes
     \/ /\ pending = {} /\ todo = {}
        /\ Returns(TRUE) /\ UNCHANGED <<place, copies, todo, mine, raced>>
  /\ UNCHANGED schedules

(* cleanJobs takes what its status, grace and limit select, obliterateQueue *)
(* what there is, at once, by statement or one by one; and with             *)
(* obliterateQueue goes who has come by then.                               *)
CallClean ==
  /\ Calls("clean") \/ Calls("obliterate")
  /\ \/ /\ pending # {} /\ pending' = {}
        /\ LET all == {j \in Jobs : Here /\ place[j] # {}}
           IN IF Calls("clean") THEN todo' \in SUBSET all ELSE todo' = all
        /\ Goes /\ UNCHANGED place
     \/ /\ pending = {} /\ UNCHANGED pending
        /\ \E T \in SUBSET IF Calls("clean") THEN todo ELSE Jobs, kept \in BOOLEAN :
             /\ T \cap todo # {} /\ todo' = todo \ T
             /\ place' = [j \in Jobs |-> IF j \in T THEN Taken(place[j], kept) ELSE place[j]]
        /\ Goes
     \/ /\ pending = {} /\ todo = {}
        /\ Returns(TRUE) /\ UNCHANGED <<place, todo>>
  /\ UNCHANGED <<copies, schedules, mine, raced>>

(* Mutant of CallDrain: its time is never up.                               *)
CallDrainWaits ==
  /\ Calls("drain")
  /\ ~Here \/ \A j \in Jobs : "active" \notin place[j]
  /\ Returns(TRUE)
  /\ UNCHANGED <<place, copies, schedules, todo, mine, raced>>

(* drainQueue asks for active jobs until there are none or its time is up.  *)
CallDrain ==
  /\ Calls("drain")
  /\ pending = {} \/ ~Here \/ \A j \in Jobs : "active" \notin place[j]
  /\ Returns(pending # {})
  /\ UNCHANGED <<place, copies, schedules, todo, mine, raced>>

DrainDeadline ==
  /\ answer = 0 /\ Calls("drain") /\ pending # {}
  /\ pending' = {}
  /\ UNCHANGED <<systemVars, view, req, pos, seen, did, todo, mine, answer, still, touched, theirs, raced>>

CallUnschedule ==
  /\ Calls("unschedule")
  /\ schedules' = schedules \ {req.name}
  /\ Returns(req.name \in schedules)
  /\ UNCHANGED <<place, copies, todo, mine, raced>>

(* The schedules listed are removed one by one.                             *)
Targets == {q \in IF req.name = NoName THEN req.allowed ELSE {req.name} : <<"schedules", q>> \in seen}

CallClear ==
  /\ Calls("clear")
  /\ \/ /\ Targets = {} /\ Returns(TRUE) /\ UNCHANGED schedules
     \/ \E q \in Targets :
          /\ schedules' = schedules \ {q}
          /\ seen' = seen \ {<<"schedules", q>>}
          /\ UNCHANGED <<pos, pending, did, answer, control>>
  /\ UNCHANGED <<place, copies, todo, mine, raced>>

Called ==
  /\ answer = 0 /\ Step.do = "call"
  /\ \/ CallPromote \/ CallRemove \/ CallRetry \/ CallRetryBatch
     \/ CallClean \/ CallDrain \/ CallUnschedule \/ CallClear
  /\ touched' = (touched \/ systemVars' # systemVars)
  /\ Remains
  /\ UNCHANGED <<view, req, theirs>>

(* A query or a call rejects; what the call has done so far stays done.     *)
Rejected ==
  /\ answer = 0 /\ Fails
  /\ UNCHANGED <<place, copies, schedules, view, req, todo, mine, still, touched, theirs, raced>>

(* A replay of the file store breaks off and says that there was no letter. *)
GivesUp ==
  /\ answer = 0 /\ view.replays = "copies"
  /\ \/ /\ Calls("retry")
        /\ Run(req, pos, seen, FALSE) /\ UNCHANGED todo
     \/ /\ Calls("retryBatch") /\ pending = {}
        /\ \E j \in todo : (\A i \in todo \ {j} : mine[i] = 0) /\ todo' = todo \ {j}
        /\ Goes /\ UNCHANGED pending
  /\ raced' = raced \cup {j \in Jobs : mine[j] > 0}
  /\ mine' = [j \in Jobs |-> 0]
  /\ UNCHANGED <<place, copies, schedules, view, req, still, touched, theirs>>

Respond == Called \/ \E l \in pending : Answered(l)

-----------------------------------------------------------------------------
(* What happens meanwhile: the life of a job as its listings show it (some  *)
(* stores keep an active job beside its completion record for a moment),    *)
(* and another operator's replay, removal and schedules.                    *)
Hops ==
  {<<{}, {"ready"}>>, <<{}, {"pending"}>>, <<{"pending"}, {"due"}>>, <<{"due"}, {"ready"}>>,
   <<{"ready"}, {"active"}>>, <<{"ready"}, {}>>, <<{"active"}, {"ready"}>>,
   <<{"active"}, {"pending"}>>, <<{"active"}, {"dead"}>>, <<{"active"}, {"completed"}>>,
   <<{"active"}, {"active", "completed"}>>, <<{"active", "completed"}, {"completed"}>>,
   <<{"completed"}, {}>>, <<{"dead"}, {}>>}

Hop(j) ==
  /\ answer = 0
  /\ \E h \in Hops : /\ place[j] = h[1] /\ (h[1] = {} => copies[j] = 0 /\ mine[j] = 0 /\ theirs[j] = 0)
                     /\ place' = [place EXCEPT ![j] = h[2]]
  /\ Remains
  /\ UNCHANGED <<copies, schedules, control, view, req, pos, pending, seen, did, todo, mine, answer,
                 touched, theirs, raced>>

OtherReplays(j) ==
  /\ answer = 0 /\ (theirs[j] > 0 \/ copies[j] < MaxCopies)
  /\ Replays(j, theirs[j])
  /\ theirs' = [theirs EXCEPT ![j] = Further(@)]
  /\ raced' = IF mine[j] > 0 THEN raced \cup {j} ELSE raced
  /\ Remains
  /\ UNCHANGED <<schedules, control, view, req, pos, pending, seen, did, todo, mine, answer, touched>>

OtherGivesUp(j) ==
  /\ answer = 0 /\ theirs[j] > 0
  /\ theirs' = [theirs EXCEPT ![j] = 0]
  /\ raced' = raced \cup {j}
  /\ UNCHANGED <<systemVars, view, requestVars>>

Reschedule(q) ==
  /\ answer = 0
  /\ schedules' \in {schedules \cup {q}, schedules \ {q}} /\ schedules' # schedules
  /\ UNCHANGED <<place, copies, control, view, requestVars, theirs, raced>>

-----------------------------------------------------------------------------
(* The job list without a status merges five listings and keeps one entry   *)
(* of each job.                                                             *)
Merged(S) == {CHOOSE x \in S : x[2] = j : j \in {x[2] : x \in S}}

(* What the response lists of a job: filterJobsForRequest drops queues the  *)
(* user may not see.                                                        *)
Entries(j) ==
  IF Home \notin req.allowed THEN {}
  ELSE {x \in IF req.route = "jobs" THEN Merged(seen) ELSE seen : x[2] = j}
=============================================================================
