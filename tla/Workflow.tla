------------------------------ MODULE Workflow ------------------------------
(***************************************************************************)
(* The workflow package's WorkflowEngine over a WorkflowStorage: each call *)
(* of onJobComplete loads the whole workflow, changes its copy, enqueues   *)
(* what became ready and saves the copy.                                   *)
(***************************************************************************)
EXTENDS TaskGraph

VARIABLES
  saved,     \* the workflow in the store: status and remaining per node, or Nothing
  launch,    \* WorkflowEngine.run: "new", "enqueuing" or "done"
  unlaunched, \* nodes it has still to enqueue
  loaded,    \* per node: the copy its onJobComplete works on, or Nothing
  toQueue,   \* per node: what that call still has to enqueue
  enqueued,  \* history: jobs enqueued per node
  told,      \* history: calls of onJobComplete per node
  overlaps   \* history: a call loaded or threw while another had not saved

workflowVars == <<saved, launch, unlaunched, loaded, toQueue, enqueued, told, overlaps>>

Nothing == <<>>
Graph == [n \in Nodes |-> [status |-> "pending", remaining |-> Cardinality(Deps[n])]]
Busy  == \E n \in Nodes : loaded[n] # Nothing

WorkflowInit ==
  /\ saved = Nothing /\ launch = "new" /\ unlaunched = {}
  /\ loaded = [n \in Nodes |-> Nothing]
  /\ toQueue = [n \in Nodes |-> {}]
  /\ enqueued = [n \in Nodes |-> 0] /\ told = [n \in Nodes |-> 0]
  /\ overlaps = FALSE

(* run: buildGraph, enqueue the nodes without dependencies, save.           *)
Launch ==
  /\ launch = "new" /\ launch' = "enqueuing" /\ unlaunched' = Roots
  /\ UNCHANGED <<saved, loaded, toQueue, enqueued, told, overlaps>>

LaunchOne ==
  /\ \E n \in unlaunched : /\ unlaunched' = unlaunched \ {n}
                           /\ enqueued' = [enqueued EXCEPT ![n] = @ + 1]
  /\ UNCHANGED <<saved, launch, loaded, toQueue, told, overlaps>>

LaunchSave ==
  /\ launch = "enqueuing" /\ unlaunched = {} /\ launch' = "done"
  /\ saved' = [n \in Nodes |-> [Graph[n] EXCEPT !.status = IF n \in Roots THEN "queued" ELSE @]]
  /\ UNCHANGED <<unlaunched, loaded, toQueue, enqueued, told, overlaps>>

(* Mutant of Remaining: a completion is not counted.                        *)
RemainingUncounted(m) == saved[m].remaining

Remaining(m) == IF saved[m].remaining > 0 THEN saved[m].remaining - 1 ELSE 0

BecomeReady(n) == {m \in Children(n) : Remaining(m) = 0 /\ saved[m].status = "pending"}

(* onJobComplete of a node whose job ran; it throws before the first save.  *)
OnJobComplete(n, limit) ==
  /\ enqueued[n] > 0 /\ loaded[n] = Nothing /\ told[n] < limit
  /\ told' = [told EXCEPT ![n] = @ + 1]
  /\ overlaps' = (overlaps \/ Busy \/ saved = Nothing)
  /\ IF saved = Nothing THEN UNCHANGED <<loaded, toQueue>>
     ELSE /\ toQueue' = [toQueue EXCEPT ![n] = BecomeReady(n)]
          /\ loaded' = [loaded EXCEPT ![n] = [m \in Nodes |->
               IF m = n THEN [status |-> "done", remaining |-> 0]
               ELSE IF m \in Children(n)
               THEN [status |-> IF m \in BecomeReady(n) THEN "queued" ELSE saved[m].status,
                     remaining |-> Remaining(m)]
               ELSE saved[m]]]
  /\ UNCHANGED <<saved, launch, unlaunched, enqueued>>

EnqueueDependent(n) ==
  /\ \E m \in toQueue[n] :
       /\ toQueue' = [toQueue EXCEPT ![n] = @ \ {m}]
       /\ enqueued' = [enqueued EXCEPT ![m] = IF @ < 3 THEN @ + 1 ELSE @]
  /\ UNCHANGED <<saved, launch, unlaunched, loaded, told, overlaps>>

SaveWorkflow(n) ==
  /\ loaded[n] # Nothing /\ toQueue[n] = {}
  /\ saved' = loaded[n]
  /\ loaded' = [loaded EXCEPT ![n] = Nothing]
  /\ UNCHANGED <<launch, unlaunched, toQueue, enqueued, told, overlaps>>

-----------------------------------------------------------------------------
Repeated == \E n \in Nodes : told[n] > 1

(* A node is enqueued only after all it depends on completed, and only      *)
(* once, however the calls interleave, as long as no completion is reported *)
(* twice (remaining is counted down, not recomputed: workflow.ts:94).       *)
WorkflowOrder ==
  ~Repeated => \A n \in Nodes : enqueued[n] <= 1 /\
                 (enqueued[n] = 1 => \A d \in Deps[n] : told[d] > 0)

(* When every job that was enqueued has been reported and every call has    *)
(* ended, the whole graph has run, unless calls overlapped: the later save  *)
(* then undoes what the earlier one counted.                                *)
WorkflowRuns ==
  launch = "done" /\ ~Busy /\ ~overlaps /\ (\A n \in Nodes : enqueued[n] > 0 => told[n] > 0)
    => \A n \in Nodes : enqueued[n] > 0

(* Every node runs, in its order: see WorkflowOrder and WorkflowRuns.       *)
WorkflowTrue == WorkflowOrder /\ WorkflowRuns
=============================================================================
