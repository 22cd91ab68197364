------------------------------ MODULE Plugins ------------------------------
(***************************************************************************)
(* The bundled plugins (packages/plugins) as hooks of the executions of    *)
(* JobManager.executeAll: RateLimiterPlugin, DAGPlugin and, last,          *)
(* IdempotencyPlugin, on jobs that share one idempotency key.  A hook that *)
(* throws sends the job through the retry path, and at the end of its      *)
(* attempts to the dead letters.                                           *)
(***************************************************************************)
EXTENDS Integers

CONSTANTS
  Tasks,        \* jobs of one queue with one key
  Needs,        \* Needs[t]: the tasks the DAG node of t waits for
  Capacity, RefillRate,   \* the queue's rateLimit: tokens, and tokens per clock unit
  MaxRuns,      \* the queue's maxAttempts
  MaxTime       \* bound: clock units

ASSUME PluginsOK == Capacity \in Nat /\ RefillRate \in Nat /\ MaxTime \in Nat

VARIABLES
  task,     \* "queued" "looking" "marking" "running" "ending" "done" "dead"
  tried,    \* attempts of each task
  mark,     \* what the IdempotencyStore holds for the key
  nodes,    \* tasks whose DAG node is completed
  tokens, lastRefillAt,   \* the TokenBucket
  time,
  finished, \* history: the key has been marked done
  late,     \* history: tasks whose last look came after that
  wiped,    \* history: a look before a "done" led to a "processing" after it
  passed    \* history: executions the limiter let pass up to each clock unit

pluginVars == <<task, tried, mark, nodes, tokens, lastRefillAt, time, finished, late, wiped, passed>>

Least(a, b) == IF a < b THEN a ELSE b

PluginsInit ==
  /\ task = [t \in Tasks |-> "queued"] /\ tried = [t \in Tasks |-> 0]
  /\ mark = "none" /\ nodes = {}
  /\ tokens = Capacity /\ lastRefillAt = 0 /\ time = 0
  /\ finished = FALSE /\ late = {} /\ wiped = FALSE /\ passed = [u \in 0..MaxTime |-> 0]

-----------------------------------------------------------------------------
Pass ==
  /\ time < MaxTime /\ time' = time + 1
  /\ UNCHANGED <<task, tried, mark, nodes, tokens, lastRefillAt, finished, late, wiped, passed>>

(* refill and consume; a clock that stands still refills nothing.           *)
Refilled == Least(Capacity, tokens + (time - lastRefillAt) * RefillRate)

Consume ==
  /\ lastRefillAt' = time
  /\ tokens' = IF Refilled >= 1 THEN Refilled - 1 ELSE Refilled

IsReady(t) == Needs[t] \subseteq nodes

Goes(t, stage) == task' = [task EXCEPT ![t] = stage]

(* The catch block: another attempt, or the dead letters.                   *)
Fail(t) ==
  /\ tried' = [tried EXCEPT ![t] = @ + 1]
  /\ Goes(t, IF tried[t] + 1 < MaxRuns THEN "queued" ELSE "dead")

(* An attempt begins: a token, then the node's dependencies, then the key   *)
(* is asked for.                                                            *)
Begin(t) ==
  /\ task[t] = "queued" /\ Consume
  /\ IF Refilled >= 1
     THEN /\ passed' = [u \in 0..MaxTime |-> passed[u] + (IF u >= time THEN 1 ELSE 0)]
          /\ IF IsReady(t) THEN Goes(t, "looking") /\ UNCHANGED tried ELSE Fail(t)
     ELSE UNCHANGED passed /\ Fail(t)
  /\ UNCHANGED <<mark, nodes, time, finished, late, wiped>>

(* Mutant of Look: whether the key is done is not asked.                    *)
LookBlind(t) ==
  /\ task[t] = "looking"
  /\ Goes(t, "marking") /\ UNCHANGED tried
  /\ late' = IF finished THEN late \cup {t} ELSE late \ {t}
  /\ UNCHANGED <<mark, nodes, tokens, lastRefillAt, time, finished, wiped, passed>>

(* store.get is answered: a duplicate throws.                               *)
Look(t) ==
  /\ task[t] = "looking"
  /\ IF mark = "done" THEN Fail(t) ELSE Goes(t, "marking") /\ UNCHANGED tried
  /\ late' = IF finished THEN late \cup {t} ELSE late \ {t}
  /\ UNCHANGED <<mark, nodes, tokens, lastRefillAt, time, finished, wiped, passed>>

(* store.set(key, "processing") lands, and the handler runs.                *)
SetProcessing(t) ==
  /\ task[t] = "marking" /\ Goes(t, "running")
  /\ mark' = "processing" /\ wiped' = (wiped \/ (mark = "done" /\ t \notin late))
  /\ UNCHANGED <<tried, nodes, tokens, lastRefillAt, time, finished, late, passed>>

(* The handler ends, the job is acknowledged, the end hooks begin.          *)
Handled(t) ==
  /\ task[t] = "running" /\ Goes(t, "ending") /\ nodes' = nodes \cup {t}
  /\ UNCHANGED <<tried, mark, tokens, lastRefillAt, time, finished, late, wiped, passed>>

SetDone(t) ==
  /\ task[t] = "ending" /\ Goes(t, "done") /\ mark' = "done" /\ finished' = TRUE
  /\ UNCHANGED <<tried, nodes, tokens, lastRefillAt, time, late, wiped, passed>>

(* The handler, or a call to the IdempotencyStore, rejects; and once the    *)
(* key is done, a later plugin's end hook may: the finished job goes        *)
(* through the retry path like any other.                                   *)
PluginThrows(t) ==
  /\ \/ task[t] \in {"looking", "marking", "running", "ending"} /\ UNCHANGED <<mark, finished>>
     \/ task[t] = "ending" /\ mark' = "done" /\ finished' = TRUE
  /\ Fail(t)
  /\ UNCHANGED <<nodes, tokens, lastRefillAt, time, late, wiped, passed>>

PluginStep ==
  \/ Pass
  \/ \E t \in Tasks : Begin(t) \/ Look(t) \/ SetProcessing(t) \/ Handled(t) \/ SetDone(t)

-----------------------------------------------------------------------------
Executing == {t \in Tasks : task[t] \in {"running", "ending", "done"}}

(* Once somebody has marked the key done, no handler starts that had not    *)
(* looked before, however many duplicates are under way, unless a slower    *)
(* "processing" of one of them wiped the mark (idempotency-plugin.ts:24).   *)
OncePerKey == ~wiped => \A t \in Executing : t \notin late

(* Between any two instants the limiter lets no more executions pass than   *)
(* its capacity and what it was refilled with since (token-bucket.ts:34).   *)
Through(u, v) == passed[v] - (IF u = 0 THEN 0 ELSE passed[u - 1])
RateKept == \A u, v \in 0..MaxTime : u <= v => Through(u, v) <= Capacity + (v - u) * RefillRate

(* The plugins keep their promises under duplicates, retries and rejected   *)
(* awaits: see OncePerKey and RateKept.                                     *)
PluginsTrue == OncePerKey /\ RateKept
=============================================================================
