---------------------------- MODULE PooledExecutor ----------------------------
(***************************************************************************)
(* pooled-executor.ts: tasks wait in a binary heap, the most urgent first  *)
(* and in order of submission among equals; at most Concurrency run.       *)
(***************************************************************************)
EXTENDS Integers, Sequences

CONSTANTS
  Tasks,
  Priority,    \* Priority[t]: lower is more urgent
  Concurrency

ASSUME ExecutorConstantsOK ==
  /\ Priority \in [Tasks -> Int]
  /\ Concurrency \in Nat \ {0}

VARIABLES
  heap,      \* entries not started
  active,    \* tasks started and not ended
  sequence,  \* entries made so far
  stage      \* per task: "new", "queued", "started", "running" or "ended"

executorVars == <<heap, active, sequence, stage>>

ExecutorInit == heap = <<>> /\ active = 0 /\ sequence = 0 /\ stage = [t \in Tasks |-> "new"]

-----------------------------------------------------------------------------
Before(e, f) ==
  \/ e.priority < f.priority
  \/ e.priority = f.priority /\ e.sequence < f.sequence

Swap(h, i, j) == [h EXCEPT ![i] = h[j], ![j] = h[i]]

(* Where an entry goes from place i in one round of heapPush's loop and of  *)
(* heapPop's.                                                               *)
Higher(h, i) == IF i > 1 /\ Before(h[i], h[i \div 2]) THEN i \div 2 ELSE i

Smallest(h, i) ==
  CHOOSE s \in {i, 2 * i, 2 * i + 1} \cap 1..Len(h) :
    \A k \in {i, 2 * i, 2 * i + 1} \cap 1..Len(h) : k # s => Before(h[s], h[k])

Round(way, s) ==
  LET to == IF way = "up" THEN Higher(s.heap, s.at) ELSE Smallest(s.heap, s.at)
  IN [heap |-> Swap(s.heap, s.at, to), at |-> to]

(* The loop: it has ended after as many rounds as there are entries.        *)
Sift(way, h, i) ==
  LET after[n \in 0..Len(h)] == IF n = 0 THEN [heap |-> h, at |-> i] ELSE Round(way, after[n - 1])
  IN after[Len(h)].heap

HeapPush(h, e) == Sift("up", Append(h, e), Len(h) + 1)

(* Mutant of HeapPop: the last entry stays at the root.                     *)
HeapPopUnsifted(h) ==
  LET n == Len(h)
  IN IF n = 1 THEN <<>> ELSE [SubSeq(h, 1, n - 1) EXCEPT ![1] = h[n]]

HeapPop(h) ==
  LET n == Len(h)
  IN IF n = 1 THEN <<>> ELSE Sift("down", [SubSeq(h, 1, n - 1) EXCEPT ![1] = h[n]], 1)

RunNext(h, running, stages) ==
  IF running >= Concurrency \/ h = <<>>
  THEN heap' = h /\ active' = running /\ stage' = stages
  ELSE /\ heap' = HeapPop(h) /\ active' = running + 1
       /\ stage' = [stages EXCEPT ![h[1].task] = "started"]

Submit(t) ==
  /\ stage[t] = "new"
  /\ sequence' = sequence + 1
  /\ LET entry == [task |-> t, priority |-> Priority[t], sequence |-> sequence]
     IN RunNext(HeapPush(heap, entry), active, [stage EXCEPT ![t] = "queued"])

Finish(t) ==
  /\ RunNext(heap, active - 1, [stage EXCEPT ![t] = "ended"])
  /\ sequence' = sequence

-----------------------------------------------------------------------------
(* A task that leaves the heap precedes all that stay: it is more urgent    *)
(* or was submitted earlier (heapPop, pooled-executor.ts:85).               *)
Entries(h) == {h[i] : i \in DOMAIN h}

UrgentFirst ==
  [][\A e \in Entries(heap) \ Entries(heap') : \A f \in Entries(heap') : Before(e, f)]_executorVars
=============================================================================
