---------------------------- MODULE Orchestration ----------------------------
(***************************************************************************)
(* An application over one queue: it dispatches with an idempotency key, a *)
(* batch, many jobs at once or a flow, runs the workflow engine, schedules *)
(* jobs, or uses the bundled plugins.  Workers execute the jobs;           *)
(* JobManager.executeAll tells the BatchManager and the flow of every      *)
(* outcome before it acknowledges.                                         *)
(***************************************************************************)
EXTENDS Batches, Flows, Workflow, Schedules, BulkDispatch, Plugins

CONSTANTS
  Scenes,    \* the APIs the application may choose from
  MaxThrows  \* bound: MaxThrows[scene], awaits that reject and handlers that throw

ASSUME OrchestrationConstantsOK ==
  /\ Scenes \subseteq {"keys", "batch", "flow", "workflow", "schedule", "bulk", "plugins"}
  /\ NoNode \notin Nodes
  /\ MaxRuns \in Nat \ {0} /\ MaxKeyed \in Nat /\ MaxThrows \in [Scenes -> Nat]
  /\ Faults \subseteq {"enqueue", "ack", "bury"}

VARIABLES
  lane,   \* where the execution of each job is: "off" "running" "told" "failing", or
          \* "over" with the job still leased
  runs,   \* attempts of the job so far
  throws, \* how many awaits and handlers have thrown
  unburied \* history: jobs whose burial was rejected when the batch had been told

appVars == <<workflowVars, schedulesVars, bulkVars, pluginVars>>
vars == <<dispatchVars, batchVars, flowVars, appVars, lane, runs, throws, unburied>>

Init ==
  /\ scene \in Scenes
  /\ DispatchInit /\ BatchInit /\ FlowInit /\ WorkflowInit
  /\ SchedulesInit /\ (scene # "schedule" => durable = AllSchedules)
  /\ BulkInit /\ (scene # "bulk" => bulk = CHOOSE b \in Bulks : TRUE)
  /\ PluginsInit
  /\ lane = [i \in Ids |-> "off"]
  /\ runs = [i \in Ids |-> 0]
  /\ throws = 0 /\ unburied = {}

Others == <<batchVars, flowVars, appVars>>

-----------------------------------------------------------------------------
(* A worker leases the job; executeAll, as far as batches and flows see it. *)
Start(i) ==
  /\ at[i] = "ready"
  /\ Move(i, "active")
  /\ lane' = [lane EXCEPT ![i] = "running"]
  /\ runs' = [runs EXCEPT ![i] = @ + 1]
  /\ UNCHANGED <<scene, guarded, pc, unread, found, Others, throws, unburied>>

(* Mutant of Success: the batch is told only after the acknowledgement.     *)
SuccessUnmarked(i) ==
  /\ lane[i] = "running"
  /\ lane' = [lane EXCEPT ![i] = "told"]
  /\ UNCHANGED <<entry, early>>
  /\ Succeeded(i)
  /\ UNCHANGED <<scene, guarded, at, unread, found, steady, unsent, sent, retried, appVars, runs, throws, unburied>>

(* The handler ended well: markJobCompleted, onJobSucceeded ...             *)
Success(i) ==
  /\ lane[i] = "running"
  /\ lane' = [lane EXCEPT ![i] = "told"]
  /\ Mark(i, "completed") /\ Succeeded(i)
  /\ UNCHANGED <<scene, guarded, at, unread, found, steady, unsent, sent, retried, appVars, runs, throws, unburied>>

(* ... and, once the children of its node are dispatched, ack.              *)
Acknowledge(i) ==
  /\ lane[i] = "told" /\ \A k \in kids[i] : pc[k] = "answered"
  /\ lane' = [lane EXCEPT ![i] = "off"]
  /\ Move(i, "completed")
  /\ UNCHANGED <<scene, guarded, pc, unread, found, Others, runs, throws, unburied>>

(* The dispatch of a child or the acknowledgement rejects, or the handler   *)
(* throws: the same catch, so that a success may be reported again.         *)
Throws(i) ==
  \/ lane[i] = "running" /\ throws < MaxThrows[scene]
  \/ lane[i] = "told" /\ \E k \in kids[i] : pc[k] = "rejected"
  \/ lane[i] = "told" /\ "ack" \in Faults /\ throws < MaxThrows[scene] /\ \A k \in kids[i] : pc[k] = "answered"

Catch(i) ==
  /\ Throws(i)
  /\ IF runs[i] < MaxRuns
     THEN lane' = [lane EXCEPT ![i] = "running"] /\ runs' = [runs EXCEPT ![i] = @ + 1]
     ELSE lane' = [lane EXCEPT ![i] = "failing"] /\ runs' = runs
  /\ throws' = IF throws < MaxThrows[scene] THEN throws + 1 ELSE throws
  /\ UNCHANGED <<dispatchVars, Others, unburied>>

(* handlePermanentFailure: markJobFailed, the dead letter, onJobFailed.     *)
Bury(i) ==
  /\ lane[i] = "failing"
  /\ lane' = [lane EXCEPT ![i] = "off"]
  /\ Mark(i, "failed") /\ Failed(i) /\ Move(i, "dead")
  /\ UNCHANGED <<scene, guarded, pc, unread, found, unsent, sent, retried, appVars, runs, throws, unburied>>

(* onFailedPermanently or moveToDeadLetter rejects: the batch has been told *)
(* and the flow is not, and the job is leased again when its lease is over. *)
BuryRejects(i) ==
  /\ lane[i] = "failing" /\ "bury" \in Faults /\ throws < MaxThrows[scene]
  /\ lane' = [lane EXCEPT ![i] = "over"]
  /\ Mark(i, "failed")
  /\ throws' = throws + 1 /\ unburied' = unburied \cup {i}
  /\ UNCHANGED <<dispatchVars, unsent, sent, retried, flowVars, appVars, runs>>

Lapse(i) ==
  /\ lane[i] = "over"
  /\ lane' = [lane EXCEPT ![i] = "off"]
  /\ Move(i, "ready")
  /\ UNCHANGED <<scene, guarded, pc, unread, found, Others, runs, throws, unburied>>

Execute(i) == Start(i) \/ Success(i) \/ Acknowledge(i) \/ Catch(i) \/ Bury(i) \/ BuryRejects(i) \/ Lapse(i)

WorkflowStep ==
  /\ scene = "workflow"
  /\ \/ Launch \/ LaunchOne \/ LaunchSave
     \/ \E n \in Nodes : OnJobComplete(n, MaxRuns) \/ EnqueueDependent(n) \/ SaveWorkflow(n)
  /\ UNCHANGED <<dispatchVars, batchVars, flowVars, schedulesVars, bulkVars, pluginVars, lane, runs, throws, unburied>>

ScheduleStep ==
  /\ scene = "schedule" /\ SchedulesNext
  /\ UNCHANGED <<dispatchVars, batchVars, flowVars, workflowVars, bulkVars, pluginVars, lane, runs, throws, unburied>>

Throw == throws < MaxThrows[scene] /\ throws' = throws + 1

ManyStep ==
  /\ scene = "bulk"
  /\ \/ BulkStep /\ UNCHANGED throws
     \/ \E k \in flying : Refuse(k) /\ Throw
  /\ UNCHANGED <<dispatchVars, batchVars, flowVars, workflowVars, schedulesVars, pluginVars, lane, runs, unburied>>

PluginsStep ==
  /\ scene = "plugins"
  /\ \/ PluginStep /\ UNCHANGED throws
     \/ \E t \in Tasks : PluginThrows(t) /\ Throw
  /\ UNCHANGED <<dispatchVars, batchVars, flowVars, workflowVars, schedulesVars, bulkVars, lane, runs, unburied>>

Next ==
  \/ \E i \in Ids :
       \/ DispatchStep(i) /\ UNCHANGED <<Others, lane, runs, throws, unburied>>
       \/ Reject(i) /\ Throw /\ UNCHANGED <<Others, lane, runs, unburied>>
       \/ ReturnNode(i) /\ UNCHANGED <<batchVars, appVars, lane, runs, throws, unburied>>
       \/ \E j \in Ids : \/ RetryFailed(i, j) /\ UNCHANGED <<flowVars, appVars, lane, runs, throws, unburied>>
                         \/ ReplayNode(i, j) /\ UNCHANGED <<batchVars, appVars, lane, runs, throws, unburied>>
       \/ Execute(i)
  \/ SendChunk /\ UNCHANGED <<flowVars, appVars, lane, runs, throws, unburied>>
  \/ RegisterChunk /\ UNCHANGED <<flowVars, appVars, lane, runs, throws, unburied>>
  \/ StartFlow /\ UNCHANGED <<batchVars, appVars, lane, runs, throws, unburied>>
  \/ WorkflowStep \/ ScheduleStep \/ ManyStep \/ PluginsStep

Spec == Init /\ [][Next]_vars

-----------------------------------------------------------------------------
Idle == /\ \A i \in Ids : lane[i] = "off" /\ ~Live(i)
        /\ \A i \in Ids : pc[i] \in {"new", "answered", "rejected"}

(* What a batch says is so: an entry that is completed belongs to a job     *)
(* that did complete, one that is failed to a dead letter, or to a job that *)
(* will be run again, its burial having been rejected behind the batch      *)
(* (worker-runtime.ts:1345); and an entry is still pending after its job    *)
(* has settled only if its outcome came before the chunk was registered     *)
(* (worker-runtime.ts:303) or a retry reset it.                             *)
BatchTrue ==
  \A i \in Registered :
    /\ entry[i] = "completed" /\ lane[i] = "off" => at[i] \in {"completed", "old"}
    /\ entry[i] = "failed" => at[i] = "dead" \/ (i \in unburied /\ at[i] \in {"ready", "active"})
    /\ at[i] \in {"completed", "dead"} /\ entry[i] = "pending" => i \in early \cup retried

(* A node is dispatched only after everything it depends on has succeeded,  *)
(* and again only if a dependency reported its success again or its dead    *)
(* letter was replayed: two dependencies that finish together dispatch it   *)
(* once (worker-runtime.ts:1549).                                           *)
JobsOf(n) == {i \in Ids : nodeOf[i] = n /\ at[i] # "none"}

FlowOrder ==
  \A n \in Nodes : JobsOf(n) # {} =>
    /\ \A d \in Deps[n] : reports[d] > 0
    /\ Cardinality(JobsOf(n)) > 1 => n \in replayed \/ \E d \in Deps[n] : reports[d] > 1

(* A flow nobody works on any more has not forgotten a node: one that is    *)
(* pending waits for a dependency that is not completed, unless its own     *)
(* dispatch was rejected; one that is blocked is below a node that failed,  *)
(* which a replay or, where a dependency reported twice, a second dispatch  *)
(* may have completed since without unblocking anything; one that is queued *)
(* was overwritten, its job being settled (worker-runtime.ts:1491).         *)
FlowSettled ==
  scene = "flow" /\ Idle /\ (\E i \in Ids : pc[i] # "new") => \A n \in Nodes :
    /\ status[n] = "pending" =>
         \/ \E d \in Deps[n] : status[d] # "completed"
         \/ \E i \in Ids : nodeOf[i] = n /\ pc[i] = "rejected"
    /\ status[n] = "blocked" =>
         \E m \in Nodes : n \in Descendants({m}) /\
           (status[m] = "failed" \/ m \in undone \cup replayed \/ \E d \in Deps[m] : reports[d] > 1)
    /\ status[n] = "queued" => n \in undone

(* A flow runs in its order and to its end: see FlowOrder and FlowSettled.  *)
FlowTrue == FlowOrder /\ FlowSettled

(* A dispatch finds the duplicate that is there to be found, and a bulk of  *)
(* dispatches is carried out exactly: see LookupFinds and BulkExact.        *)
DispatchTrue == LookupFinds /\ BulkExact
=============================================================================
