-------------------------------- MODULE Flows --------------------------------
(***************************************************************************)
(* JobManager.dispatchFlow and what executeAll tells it of the outcome of  *)
(* a job (worker-runtime.ts).  A node is dispatched under a fresh id; the  *)
(* job that dispatches the children of its node waits for the dispatches.  *)
(***************************************************************************)
EXTENDS Dispatch, TaskGraph

CONSTANTS
  NoNode,
  Atomic   \* the flow's atomicFailure

VARIABLES
  status,   \* per node: pending, queued, completed, failed or blocked
  nodeOf,   \* the node each job was dispatched for
  kids,     \* the dispatches each job waits for
  reports,  \* history: successes reported per node
  undone,   \* history: nodes whose completion was overwritten
  replayed  \* history: nodes a dead letter of which was replayed

flowVars == <<status, nodeOf, kids, reports, undone, replayed>>

FlowInit ==
  /\ status = [n \in Nodes |-> "pending"]
  /\ nodeOf = [i \in Ids |-> NoNode]
  /\ kids = [i \in Ids |-> {}]
  /\ reports = [n \in Nodes |-> 0]
  /\ undone = {} /\ replayed = {}

(* dispatchFlowNode for every node of S, up to the first await.             *)
DispatchNodes(S, f) ==
  /\ \A n, m \in S : f[n] \in Fresh /\ (n # m => f[n] # f[m])
  /\ pc' = [i \in Ids |-> IF \E n \in S : f[n] = i THEN "hooking" ELSE pc[i]]
  /\ nodeOf' = [i \in Ids |-> IF \E n \in S : f[n] = i THEN CHOOSE n \in S : f[n] = i ELSE nodeOf[i]]

StartFlow ==
  /\ scene = "flow" /\ \A i \in Ids : pc[i] = "new"
  /\ \E f \in [Roots -> Ids] : DispatchNodes(Roots, f)
  /\ UNCHANGED <<scene, guarded, at, unread, found, steady, status, kids, reports, undone, replayed>>

(* ... and after it: the node counts as queued, whatever it was meanwhile.  *)
ReturnNode(i) ==
  /\ Return(i)
  /\ LET n == nodeOf[i]
     IN IF n = NoNode THEN UNCHANGED <<status, undone>>
        ELSE /\ status' = [status EXCEPT ![n] = "queued"]
             /\ undone' = IF status[n] \in {"completed", "failed"} THEN undone \cup {n} ELSE undone
  /\ UNCHANGED <<nodeOf, kids, reports, replayed>>

(* Mutant of ReadyChildren: they are computed before n is completed.        *)
ReadyChildrenBefore(n) ==
  {m \in Children(n) : status[m] = "pending" /\ \A d \in Deps[m] : status[d] = "completed"}

ReadyChildren(n) ==
  {m \in Children(n) : /\ status[m] = "pending"
                       /\ \A d \in Deps[m] \ {n} : status[d] = "completed"}

(* onJobSucceeded: the node is completed and its ready children dispatched. *)
Succeeded(i) ==
  LET n == nodeOf[i] IN
    IF n = NoNode THEN UNCHANGED <<pc, flowVars>>
    ELSE /\ status' = [status EXCEPT ![n] = "completed"]
         /\ reports' = [reports EXCEPT ![n] = @ + 1]
         /\ \E f \in [ReadyChildren(n) -> Fresh] :
              /\ DispatchNodes(ReadyChildren(n), f)
              /\ kids' = [kids EXCEPT ![i] = {f[m] : m \in ReadyChildren(n)}]
         /\ UNCHANGED <<undone, replayed>>

(* onJobFailed: with atomicFailure what is pending below the node is        *)
(* blocked.                                                                 *)
Failed(i) ==
  LET n == nodeOf[i] IN
    /\ IF n = NoNode THEN UNCHANGED status
       ELSE status' = [m \in Nodes |->
              IF m = n THEN "failed"
              ELSE IF Atomic /\ m \in Descendants({n}) /\ status[m] = "pending" THEN "blocked"
              ELSE status[m]]
    /\ UNCHANGED <<nodeOf, kids, reports, undone, replayed>>

(* A dead letter of the flow is replayed: the copy is a job of its node.    *)
ReplayNode(i, j) ==
  /\ scene = "flow" /\ at[i] = "dead" /\ j \in Fresh
  /\ Replay(i, j)
  /\ nodeOf' = [nodeOf EXCEPT ![j] = nodeOf[i]]
  /\ replayed' = replayed \cup {nodeOf[i]}
  /\ UNCHANGED <<scene, guarded, unread, found, status, kids, reports, undone>>
=============================================================================
