----------------------------- MODULE Frontends -----------------------------
(***************************************************************************)
(* What people see of the queues: a request to the dashboard's API, the    *)
(* CLI's retry-all through that API, the live streams of the server, and   *)
(* the page at the other end of them.                                      *)
(***************************************************************************)
EXTENDS CliClient, LiveStreams, PageClient

CONSTANTS
  Scenes,      \* scenes explored
  Requests,    \* requests sent
  Views        \* how the store may list

(* Other paths and other statuses do not reach a handler.                   *)
ASSUME RequestsOK ==
  /\ \A r \in Requests : r.route \in Routes /\ (r.route = "jobs" => r.status \in Statuses)
  /\ \A v \in Views : v.replays \in {"whole", "marks", "asks", "copies"}

VARIABLE scene

vars == <<scene, dashVars, cliVars, streamVars, pageVars>>

-----------------------------------------------------------------------------
AboutSchedules(r) == r.route \in {"schedules", "unschedule", "clear"}
Reading(r) == Looking(r) /\ r.name \in {NoName, Home} /\ Home \in r.allowed

(* The job a request asks for.                                              *)
Watched == CHOOSE j \in Jobs : TRUE

(* The requests that take several jobs one by one.                          *)
Several(r) == r.route \in {"batchRetry", "clean", "obliterate"}
Replaying  == {"retryDlq", "retryFailed"}

(* Only what the scene and the request are about differs.                   *)
DashInit ==
  /\ req \in IF scene = "requests" THEN Requests ELSE {Asks("failed", NoJob)}
  /\ view \in Views
  /\ scene = "requests" /\ ~Reading(req) => view.store = "plain" /\ view.page = 1 /\ ~view.silenced
  /\ scene = "cli" => view.page = 1 /\ ~view.silenced
  /\ view.store = "archive" => scene = "requests" /\ req.route = "archive"
  /\ scene \in {"streams", "page"} => view.store = "plain" /\ view.page = 1 /\ ~view.silenced
  /\ scene = "cli" \/ (scene = "requests" /\ req.route \in Replaying \cup {"batchRetry"})
     \/ view.replays = "whole"
  /\ place \in [Jobs -> {h[1] : h \in Hops} \cup {{"dead", "retried"}}]
  /\ \A j \in Jobs : \/ /\ scene = "requests" /\ ~AboutSchedules(req)
                        /\ j = Watched \/ (Several(req) /\ place[j] \in {{}, {"ready"}, {"dead"}})
                     \/ scene = "cli" /\ place[j] \in {{"active"}, {"dead"}, {"dead", "retried"}}
                     \/ place[j] = {}
  /\ copies = [j \in Jobs |-> IF "retried" \in place[j] THEN 1 ELSE 0]
  /\ schedules \in SUBSET IF scene = "requests" /\ AboutSchedules(req) THEN Queues ELSE {}
  /\ control = {} /\ pos = 0 /\ pending = {} /\ seen = {} /\ did = FALSE
  /\ todo = {} /\ mine = [j \in Jobs |-> 0] /\ theirs = [j \in Jobs |-> 0]
  /\ answer = 200 /\ still = {} /\ touched = FALSE /\ raced = {}

Init ==
  /\ scene \in Scenes
  /\ DashInit
  /\ CliInit /\ (scene # "cli" => limit = 1)
  /\ scene = "cli" /\ (view.store # "plain" \/ view.replays # "whole") => limit > Cardinality(Jobs)
  /\ StreamInit
  /\ scene # "streams" => server.adapter = "api" /\ kind = CHOOSE m \in Mixes : TRUE
  /\ PageInit /\ (scene # "page" => ~strict /\ transport = "auto")

Elsewhere == UNCHANGED <<scene, cliVars, streamVars, pageVars>>

Serve    == scene \in {"requests", "cli"} /\ Respond /\ Elsewhere
Deadline == scene = "requests" /\ DrainDeadline /\ Elsewhere
Fail     == scene \in {"requests", "cli"} /\ (Rejected \/ GivesUp) /\ Elsewhere
Arrive   == scene = "requests" /\ pos = 0 /\ Receive(req) /\ Elsewhere

Meanwhile ==
  /\ scene \in {"requests", "cli"} /\ Elsewhere
  /\ \/ \E j \in Jobs : /\ scene = "cli" \/ (j = Watched /\ ~AboutSchedules(req))
                        /\ Hop(j) \/ (j = Watched /\ (OtherReplays(j) \/ OtherGivesUp(j)))
     \/ \E q \in Queues : scene = "requests" /\ AboutSchedules(req) /\ Reschedule(q)

Command  == scene = "cli" /\ CliNext /\ UNCHANGED <<scene, streamVars, pageVars>>
Live     == scene = "streams" /\ StreamNext /\ UNCHANGED <<scene, dashVars, cliVars, pageVars>>
Page     == scene = "page" /\ PageNext /\ UNCHANGED <<scene, dashVars, cliVars, streamVars>>

Next == Arrive \/ Serve \/ Deadline \/ Fail \/ Meanwhile \/ Command \/ Live \/ Page

(* A store answers what it is asked, and time passes.                       *)
Spec == Init /\ [][Next]_vars /\ WF_vars(Serve) /\ WF_vars(Deadline)

-----------------------------------------------------------------------------
(* The routes that ask enforceQueueAccess before they look for a name.      *)
AskAccessFirst ==
  {"resume", "drain", "promote", "remove", "clean", "obliterate", "retryDlq", "retryFailed"}

(* Every request is answered in the end, a drain of a queue that never      *)
(* empties included; only those eight routes leave a request that lacks the *)
(* queue's name without an answer (dashboard.ts:87, the 400 is behind it).  *)
EveryRequestEnds ==
  /\ [](answer = -1 => req.route \in AskAccessFirst /\ req.name = NoName /\ req.level >= 2)
  /\ answer = 0 ~> answer # 0

(* The listings a route reads, and what its answer shows of a job.          *)
Answering == answer # 0 /\ pos > 0
Asked     == UNION {Steps(req)[i].what : i \in {k \in DOMAIN Steps(req) : Steps(req)[k].do = "reads"}}
MayFind   == req.name \in {NoName, Home} /\ Home \in req.allowed /\ OnPage(req)

(* A listing is not one read of the store, and jobs move under it, but what *)
(* stayed where it was while the request was served is found: by its id, in *)
(* whichever listing it is, and once in each listing that shows it; a list  *)
(* of all jobs has no job twice, wherever it went.                          *)
ReadsHonest ==
  Answering =>
    /\ req.route = "job" /\ answer = 404 /\ MayFind => \A l \in Listings : <<l, req.id>> \notin still
    /\ answer = 200 /\ req.route \notin {"job", "tag"} => \A j \in Jobs :
         /\ req.route = "jobs" => Cardinality(Entries(j)) <= 1
         /\ MayFind /\ (\E l \in Asked : <<l, j>> \in still /\ ~Silent(l, req)) => Entries(j) # {}

(* The routes that set what the bus is told of, or await the store to       *)
(* change it.                                                               *)
Acting ==
  {"pause", "resume", "scale", "drain", "unschedule", "clear", "promote", "remove", "clean",
   "obliterate", "batchRetry"} \cup Replaying

(* A request that is refused has changed nothing; but the file store says   *)
(* of a replay that broke off that there was no letter, when there may be a *)
(* copy (file-queue-storage.ts:329).  One that failed may have done all or  *)
(* part of what it was asked for, if that was not to read.                  *)
RefusalsClean ==
  /\ answer \in {-1, 400, 403, 404} /\ touched =>
       answer = 404 /\ req.route \in Replaying /\ view.replays = "copies"
  /\ answer = 500 /\ touched => req.route \in Acting

(* Neither end of a stream keeps what nobody uses, and the page always has  *)
(* one way to be refreshed: see NothingLeaks and PageRefreshes.             *)
TransportsKept == NothingLeaks /\ PageRefreshes
=============================================================================
