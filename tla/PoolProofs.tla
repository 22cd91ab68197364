----------------------------- MODULE PoolProofs -----------------------------
(***************************************************************************)
(* Proofs about the workers of a pool, for any number of them and any      *)
(* batch size, breaker and rate limits: the rate of leases, the one late   *)
(* batch, and the state of the breaker.                                    *)
(***************************************************************************)
EXTENDS WorkerPool, FiniteSetTheorems, WellFoundedInduction, TLAPS

-----------------------------------------------------------------------------
(* Induction over the naturals, stated of a set of numbers: a set that has  *)
(* 0 and with each number the next has them all.                            *)
LEMMA LeastMember ==
  ASSUME NEW T \in SUBSET Nat, T # {}
  PROVE  \E n \in T : \A m \in T : n <= m
<1> DEFINE R == OpToRel(<, Nat)
<1>1. IsWellFoundedOn(R, Nat)
  BY NatLessThanWellFounded
<1>2. PICK n \in T : \A m \in T : ~ (<<m, n>> \in R)
  <2> HIDE DEF R
  <2> QED BY <1>1, WFMin
<1>3. \A m \in T : ~ (m < n)
  BY <1>2 DEF OpToRel
<1> QED BY <1>3

LEMMA Inductive ==
  ASSUME NEW S, 0 \in S, \A n \in Nat : n \in S => n + 1 \in S
  PROVE  \A n \in Nat : n \in S
<1> SUFFICES ASSUME Nat \ S # {} PROVE FALSE
  OBVIOUS
<1>1. PICK n \in Nat \ S : \A m \in Nat \ S : n <= m
  BY LeastMember
<1>2. n # 0 /\ n - 1 \in Nat
  BY <1>1
<1>3. n - 1 \in S
  BY <1>1, <1>2
<1> QED BY <1>1, <1>2, <1>3

-----------------------------------------------------------------------------
Outcomes == {"ok", "failed", "timeout"}

(* The states a circuit can be in: BreakerHolds of one worker, and its type.*)
Circuits ==
  {c \in [status : {"closed", "open", "half-open"}, failures : Nat,
          openLeft : 0..Cooldown, inFlight : 0..HalfOpenMax] :
     /\ c.status = "closed" => c.failures < FailureThreshold
     /\ c.openLeft > 0 => c.status = "open"
     /\ c.inFlight > 0 => c.status = "half-open"}

LEMMA ClosedCircuit == Closed \in Circuits
BY PoolConstantsOK DEF Closed, Circuits, PoolConstantsOK

(* No outcome takes a circuit out of them.                                  *)
LEMMA AfterResultCircuit ==
  ASSUME NEW c \in Circuits, NEW o \in Outcomes
  PROVE  AfterResult(c, o) \in Circuits
<1>1. Succeeded(c) \in Circuits
  BY ClosedCircuit, PoolConstantsOK DEF Succeeded, Circuits, PoolConstantsOK
<1>2. Failed(c, o) \in Circuits
  BY PoolConstantsOK DEF Failed, Least, Circuits, PoolConstantsOK
<1> QED BY <1>1, <1>2 DEF AfterResult

LEMMA AdmittedCircuit ==
  ASSUME NEW c \in Circuits
  PROVE  Admitted(c) \in Circuits
<1>1. Probed(c) \in Circuits
  <2>1. CASE c.status = "open" /\ c.openLeft = 0
    <3> DEFINE tried == [status |-> "half-open", failures |-> c.failures,
                         openLeft |-> 0, inFlight |-> 0]
    <3>1. Probed(c) = tried
      BY <2>1 DEF Probed, Circuits
    <3>2. tried \in Circuits
      BY <2>1, PoolConstantsOK DEF Circuits, PoolConstantsOK
    <3> QED BY <3>1, <3>2
  <2>2. CASE ~(c.status = "open" /\ c.openLeft = 0)
    BY <2>2 DEF Probed
  <2> QED BY <2>1, <2>2
<1>2. ASSUME NEW d \in Circuits, d.status = "half-open", d.inFlight < HalfOpenMax
      PROVE  [d EXCEPT !.inFlight = @ + 1] \in Circuits
  BY <1>2, PoolConstantsOK DEF Circuits, PoolConstantsOK
<1>3. Admits(c) /\ Breaker /\ Probed(c).status = "half-open" => Probed(c).inFlight < HalfOpenMax
  BY DEF Admits, Probed
<1> QED BY <1>1, <1>2, <1>3 DEF Admitted

(* The clock leaves it a circuit.                                           *)
LEMMA ElapsedCircuit ==
  ASSUME NEW c \in Circuits
  PROVE  [c EXCEPT !.openLeft = Drop(@, 1)] \in Circuits
BY PoolConstantsOK DEF Drop, Circuits, PoolConstantsOK

(* The results of a batch are reported one by one, from the left.           *)
LEMMA ReportedCircuit ==
  ASSUME NEW c \in Circuits, NEW s \in Seq(Outcomes)
  PROVE  FoldLeft(AfterResult, c, s) \in Circuits
<1> DEFINE Eq(g, n) ==
             g = [t \in SUBSET (1..n) |-> IF t = {} THEN c ELSE AfterResult(g[t \ {Max(t)}], s[Max(t)])]
           N == Len(s)
           it == CHOOSE g : Eq(g, N)
<1>1. DOMAIN s = 1..N /\ N \in Nat
  OBVIOUS
<1>2. FoldLeft(AfterResult, c, s) = it[1..N]
  BY <1>1 DEF FoldLeft, MapThenFoldSet
<1>3. \A n \in Nat : \A t \in SUBSET (1..n + 1) : n + 1 \in t => Max(t) = n + 1
  <2> SUFFICES ASSUME NEW n \in Nat, NEW t \in SUBSET (1..n + 1), n + 1 \in t
               PROVE  Max(t) = n + 1
    OBVIOUS
  <2>1. \A y \in t : n + 1 >= y
    OBVIOUS
  <2>2. \A x \in t : (\A y \in t : x >= y) => x = n + 1
    OBVIOUS
  <2> QED BY <2>1, <2>2 DEF Max
<1>4. \A n \in Nat : \E g : Eq(g, n)
  <2> DEFINE S == {n \in Nat : \E g : Eq(g, n)}
  <2>1. 0 \in S
    <3>1. Eq([t \in SUBSET (1..0) |-> c], 0)
      OBVIOUS
    <3> QED BY <3>1
  <2>2. ASSUME NEW n \in Nat, n \in S PROVE n + 1 \in S
    <3>1. PICK g : Eq(g, n)
      BY <2>2
    <3> DEFINE h == [t \in SUBSET (1..n + 1) |->
                       IF t \subseteq 1..n THEN g[t] ELSE AfterResult(g[t \ {n + 1}], s[n + 1])]
    <3>2. ASSUME NEW t \in SUBSET (1..n + 1)
          PROVE  h[t] = IF t = {} THEN c ELSE AfterResult(h[t \ {Max(t)}], s[Max(t)])
      <4>1. CASE t \subseteq 1..n
        <5>1. g[t] = IF t = {} THEN c ELSE AfterResult(g[t \ {Max(t)}], s[Max(t)])
          BY <3>1, <4>1
        <5>2. t \ {Max(t)} \in SUBSET (1..n + 1) /\ t \ {Max(t)} \subseteq 1..n
          BY <4>1
        <5>3. h[t] = g[t] /\ h[t \ {Max(t)}] = g[t \ {Max(t)}]
          BY <4>1, <5>2
        <5> QED BY <5>1, <5>3
      <4>2. CASE ~(t \subseteq 1..n)
        <5>1. n + 1 \in t
          BY <4>2
        <5>2. Max(t) = n + 1
          BY <1>3, <5>1
        <5>3. t \ {n + 1} \in SUBSET (1..n + 1) /\ t \ {n + 1} \subseteq 1..n
          OBVIOUS
        <5>4. h[t] = AfterResult(g[t \ {n + 1}], s[n + 1]) /\ h[t \ {n + 1}] = g[t \ {n + 1}]
          BY <4>2, <5>3
        <5> QED BY <5>1, <5>2, <5>4
      <4> QED BY <4>1, <4>2
    <3>3. Eq(h, n + 1)
      BY <3>2
    <3>4. \E f : Eq(f, n + 1)
      <4> HIDE DEF h
      <4> QED BY <3>3
    <3> QED
      <4> HIDE DEF Eq
      <4> QED BY <3>4
  <2> HIDE DEF S
  <2>3. \A n \in Nat : n \in S
    BY <2>1, <2>2, Inductive
  <2> QED BY <2>3 DEF S
<1>5. Eq(it, N)
  BY <1>1, <1>4
<1>6. \A n \in Nat : n <= N => \A t \in SUBSET (1..n) : it[t] \in Circuits
  <2> DEFINE S == {n \in Nat : n <= N => \A t \in SUBSET (1..n) : it[t] \in Circuits}
  <2> HIDE DEF it
  <2>1. 0 \in S
    <3>1. it[{}] = c
      BY <1>5
    <3>2. \A t \in SUBSET (1..0) : t = {}
      OBVIOUS
    <3> QED BY <3>1, <3>2
  <2>2. ASSUME NEW n \in Nat, n \in S PROVE n + 1 \in S
    <3> SUFFICES ASSUME n + 1 <= N, NEW t \in SUBSET (1..n + 1) PROVE it[t] \in Circuits
      OBVIOUS
    <3>1. CASE t \subseteq 1..n
      BY <1>1, <2>2, <3>1
    <3>2. CASE ~(t \subseteq 1..n)
      <4>1. n + 1 \in t /\ Max(t) = n + 1
        BY <1>3, <3>2
      <4>2. t \in SUBSET (1..N)
        BY <1>1
      <4>3. it[t] = AfterResult(it[t \ {n + 1}], s[n + 1])
        BY <1>5, <4>1, <4>2
      <4>4. it[t \ {n + 1}] \in Circuits
        BY <1>1, <2>2
      <4>5. s[n + 1] \in Outcomes
        BY <1>1
      <4> QED BY <4>3, <4>4, <4>5, AfterResultCircuit
    <3> QED BY <3>1, <3>2
  <2> HIDE DEF S
  <2>3. \A n \in Nat : n \in S
    BY <2>1, <2>2, Inductive
  <2> QED BY <2>3 DEF S
<1> HIDE DEF it
<1> QED BY <1>1, <1>2, <1>6

-----------------------------------------------------------------------------
(* The type invariant needs two facts of its own: each circuit is one of    *)
(* Circuits, and a bucket in the store is the same for all its sharers, so  *)
(* that the token HasTokens saw in w's copy is there in every copy.         *)
OneBucket == shared => \A v, w \in Workers : tokens[v] = tokens[w]

TypeInv == PoolTypeOK /\ circuit \in [Workers -> Circuits] /\ OneBucket

LEMMA LeastType == ASSUME NEW a \in Nat, NEW b \in Nat
                   PROVE  Least(a, b) \in Nat /\ Least(a, b) <= a /\ Least(a, b) <= b
BY DEF Least

LEMMA EffectiveBatchType == EffectiveBatch \in Nat /\ EffectiveBatch <= BatchSize
BY LeastType, PoolConstantsOK DEF EffectiveBatch, PoolConstantsOK

(* What the gates may do: the circuit is asked, and either every sharer     *)
(* loses a token of each bucket or none does.                               *)
LEMMA TakeType ==
  ASSUME TypeInv, NEW w \in Workers, HasTokens(w), Take(w), UNCHANGED shared
  PROVE  tokens' \in [Workers -> [Limits -> Nat]] /\ OneBucket'
<1>1. \A v \in Sharers(w), b \in Limits : tokens[v][b] - 1 \in Nat
  BY SMTT(40) DEF TypeInv, PoolTypeOK, OneBucket, HasTokens, Sharers
<1>2. \A v \in Workers, b \in Limits : tokens[v][b] \in Nat
  BY DEF TypeInv, PoolTypeOK
<1>3. \A v \in Workers, b \in Limits :
        tokens'[v][b] = IF v \in Sharers(w) THEN tokens[v][b] - 1 ELSE tokens[v][b]
  BY <1>2 DEF Take
<1>4. tokens' \in [Workers -> [Limits -> Nat]]
  BY <1>1, <1>2 DEF Take
<1>5. OneBucket'
  BY DEF TypeInv, OneBucket, Take, Sharers
<1> QED BY <1>4, <1>5

LEMMA PassGatesType ==
  ASSUME TypeInv, NEW w \in Workers, PassGates(w), UNCHANGED shared
  PROVE  /\ tokens' \in [Workers -> [Limits -> Nat]] /\ OneBucket'
         /\ circuit' \in [Workers -> Circuits]
         /\ phase' \in [Workers -> Phases]
<1>1. circuit' \in [Workers -> Circuits]
  BY AdmittedCircuit DEF PassGates, TypeInv
<1>2. phase' \in [Workers -> Phases]
  BY DEF PassGates, Goto, Phases, TypeInv, PoolTypeOK
<1>3. CASE HasTokens(w) /\ Take(w)
  BY <1>1, <1>2, <1>3, TakeType
<1>4. CASE UNCHANGED tokens
  BY <1>1, <1>2, <1>4 DEF TypeInv, PoolTypeOK, OneBucket
<1> QED BY <1>3, <1>4 DEF PassGates

(* The parts of TypeInv, for the steps that change few of them.             *)
LEMMA TypeFromParts ==
  ASSUME ready' \in 0..MaxReady, paused' \in BOOLEAN, drain' \in {"none", "polling", "drained"},
         running' \in [Workers -> BOOLEAN], phase' \in [Workers -> Phases],
         active' \in [Workers -> 0..BatchSize],
         results' \in [Workers -> Seq({"ok", "failed", "timeout"})],
         circuit' \in [Workers -> Circuits], pressed' \in [Workers -> BOOLEAN],
         tokens' \in [Workers -> [Limits -> Nat]], shared' \in BOOLEAN,
         meter' \in [Workers -> [Limits -> Nat]], late' \in [Workers -> Nat], OneBucket'
  PROVE  TypeInv'
<1>1. circuit' \in [Workers -> [status : {"closed", "open", "half-open"}, failures : Nat,
                                openLeft : 0..Cooldown, inFlight : 0..HalfOpenMax]]
  BY DEF Circuits
<1> QED BY <1>1 DEF TypeInv, PoolTypeOK

LEMMA TypeInit == PoolInit => TypeInv
<1> SUFFICES ASSUME PoolInit PROVE TypeInv
  OBVIOUS
<1>1. circuit \in [Workers -> Circuits]
  BY ClosedCircuit DEF PoolInit
<1>2. tokens \in [Workers -> [Limits -> Nat]] /\ meter \in [Workers -> [Limits -> Nat]]
  BY PoolConstantsOK DEF PoolInit, Full, Zero, PoolConstantsOK
<1>3. circuit \in [Workers -> [status : {"closed", "open", "half-open"}, failures : Nat,
                               openLeft : 0..Cooldown, inFlight : 0..HalfOpenMax]]
  BY <1>1 DEF Circuits
<1>5. <<>> \in Seq({"ok", "failed", "timeout"})
  OBVIOUS
<1>6. results \in [Workers -> Seq({"ok", "failed", "timeout"})]
  BY <1>5 DEF PoolInit
<1>7. /\ ready \in 0..MaxReady /\ active \in [Workers -> 0..BatchSize] /\ late \in [Workers -> Nat]
      /\ shared \in BOOLEAN
  BY PoolConstantsOK DEF PoolInit, PoolConstantsOK
<1>4. OneBucket
  BY DEF PoolInit, OneBucket
<1> QED BY <1>1, <1>2, <1>3, <1>4, <1>6, <1>7 DEF PoolInit, TypeInv, PoolTypeOK, Phases

LEMMA TypeStep == TypeInv /\ [PoolNext]_poolVars => TypeInv'
<1> SUFFICES ASSUME TypeInv, [PoolNext]_poolVars PROVE TypeInv'
  OBVIOUS
<1>c. /\ circuit \in [Workers -> Circuits] /\ OneBucket
  BY DEF TypeInv
<1> USE DEF TypeInv, PoolTypeOK
<1>1. CASE Dispatch
  BY <1>1, <1>c, PoolConstantsOK DEF Dispatch, workerVars, poolHistory, OneBucket, PoolConstantsOK
<1>2. CASE Elapse
  <2>1. tokens' \in [Workers -> [Limits -> Nat]]
    <3>1. \A w \in Workers, b \in Limits : Least(Capacity[b], tokens[w][b] + Refill[b]) \in Nat
      BY PoolConstantsOK DEF Least, PoolConstantsOK
    <3> QED BY <1>2, <3>1 DEF Elapse
  <2>2. meter' \in [Workers -> [Limits -> Nat]]
    <3>1. \A w \in Workers, b \in Limits : Drop(meter[w][b], Refill[b]) \in Nat
      BY PoolConstantsOK DEF Drop, PoolConstantsOK
    <3> QED BY <1>2, <3>1 DEF Elapse
  <2>3. circuit' \in [Workers -> Circuits]
    BY <1>2, <1>c, ElapsedCircuit DEF Elapse
  <2>4. OneBucket'
    BY <1>2, <1>c DEF Elapse, OneBucket
  <2>5. UNCHANGED <<queueVars, running, phase, active, results, pressed, shared, late>>
    BY <1>2 DEF Elapse
  <2> QED BY <2>1, <2>2, <2>3, <2>4, <2>5, TypeFromParts DEF queueVars
<1>3. CASE PauseQueue \/ ResumeQueue \/ DrainQueue \/ DrainPoll \/ DrainTimeout
  <2>1. /\ late' \in [Workers -> Nat] /\ paused' \in BOOLEAN
        /\ drain' \in {"none", "polling", "drained"} /\ UNCHANGED <<ready, workerVars, meter>>
    <3>1. CASE PauseQueue
      BY <3>1 DEF PauseQueue
    <3>2. CASE ResumeQueue
      BY <3>2 DEF ResumeQueue
    <3>3. CASE DrainQueue
      BY <3>3 DEF DrainQueue
    <3>4. CASE DrainPoll \/ DrainTimeout
      BY <3>4 DEF DrainPoll, DrainTimeout, poolHistory
    <3> QED BY <1>3, <3>1, <3>2, <3>3, <3>4
  <2> QED BY <2>1, <1>c DEF workerVars, OneBucket
<1>4. ASSUME NEW W \in SUBSET Workers, StopWorkers(W) PROVE TypeInv'
  <2>1. late' \in [Workers -> Nat] /\ running' \in [Workers -> BOOLEAN]
    BY <1>4 DEF StopWorkers
  <2> QED BY <1>4, <2>1, <1>c DEF StopWorkers, queueVars, OneBucket
<1>5. ASSUME NEW w \in Workers, SpawnWorker(w) PROVE TypeInv'
  <2>1. tokens' \in [Workers -> [Limits -> Nat]] /\ meter' \in [Workers -> [Limits -> Nat]]
    BY <1>5, PoolConstantsOK DEF SpawnWorker, Full, Zero, PoolConstantsOK
  <2>2. circuit' \in [Workers -> Circuits]
    BY <1>5, <1>c, ClosedCircuit DEF SpawnWorker
  <2>3. OneBucket'
    BY <1>5, <1>c DEF SpawnWorker, OneBucket
  <2>4. /\ running' \in [Workers -> BOOLEAN] /\ pressed' \in [Workers -> BOOLEAN]
        /\ late' \in [Workers -> Nat] /\ UNCHANGED <<queueVars, phase, active, results, shared>>
    BY <1>5 DEF SpawnWorker
  <2> QED BY <2>1, <2>2, <2>3, <2>4, TypeFromParts DEF queueVars
<1>6. ASSUME NEW w \in Workers, WorkerStep(w) PROVE TypeInv'
  <2>1. CASE Poll(w)
    BY <2>1, <1>c DEF Poll, Goto, Phases, queueVars, poolHistory, OneBucket
  <2>2. CASE Gauge(w) \/ Regauge(w)
    <3>1. PassGates(w) \/ (UNCHANGED <<circuit, tokens>> /\ phase' \in [Workers -> Phases])
      BY <2>2 DEF Gauge, Regauge, Goto, Phases
    <3>2. /\ tokens' \in [Workers -> [Limits -> Nat]] /\ OneBucket'
          /\ circuit' \in [Workers -> Circuits]
          /\ phase' \in [Workers -> Phases]
      <4>1. UNCHANGED shared
        BY <2>2 DEF Gauge, Regauge
      <4> QED BY <3>1, <4>1, <1>c, PassGatesType DEF OneBucket
    <3>3. /\ pressed' \in [Workers -> BOOLEAN]
          /\ UNCHANGED <<queueVars, running, active, results, shared, poolHistory>>
      BY <2>2 DEF Gauge, Regauge
    <3> QED BY <3>2, <3>3, TypeFromParts DEF queueVars, poolHistory
  <2>3. CASE Lease(w)
    <3> DEFINE n == Least(EffectiveBatch, ready)
    <3>1. n \in Nat /\ n <= BatchSize /\ n <= ready
      BY EffectiveBatchType, PoolConstantsOK DEF Least, PoolConstantsOK
    <3>2. ready' \in 0..MaxReady /\ active' \in [Workers -> 0..BatchSize]
      BY <2>3, <3>1, PoolConstantsOK DEF Lease, PoolConstantsOK
    <3>3. phase' \in [Workers -> Phases]
      BY <2>3 DEF Lease, Goto, Phases
    <3>4. meter' \in [Workers -> [Limits -> Nat]] /\ late' \in [Workers -> Nat]
      <4>1. Least(late[w] + 1, 2) \in Nat
        BY DEF Least
      <4>2. late' \in [Workers -> Nat]
        BY <2>3, <4>1 DEF Lease, poolHistory
      <4>3. meter' \in [Workers -> [Limits -> Nat]]
        <5>1. CASE ready = 0
          BY <2>3, <5>1 DEF Lease, poolHistory
        <5>2. CASE ready # 0
          <6> DEFINE more(v) == IF v \in Sharers(w) THEN 1 ELSE 0
          <6>1. \A v \in Workers, b \in Limits : meter[v][b] + more(v) \in Nat
            BY SMTT(40)
          <6>2. meter' = [v \in Workers |-> [b \in Limits |-> meter[v][b] + more(v)]]
            BY <2>3, <5>2 DEF Lease
          <6> HIDE DEF more
          <6> QED BY <6>1, <6>2
        <5> QED BY <5>1, <5>2
      <4> QED BY <4>2, <4>3
    <3> QED BY <2>3, <3>2, <3>3, <3>4, <1>c DEF Lease, OneBucket
  <2>4. CASE Settle(w)
    <3>1. active' \in [Workers -> 0..BatchSize]
      BY <2>4, PoolConstantsOK DEF Settle, PoolConstantsOK
    <3>2. results' \in [Workers -> Seq({"ok", "failed", "timeout"})]
      BY <2>4 DEF Settle
    <3> QED BY <2>4, <3>1, <3>2, <1>c DEF Settle, queueVars, poolHistory, OneBucket
  <2>5. CASE Report(w)
    <3>1. circuit' \in [Workers -> Circuits]
      <4>1. FoldLeft(AfterResult, circuit[w], results[w]) \in Circuits
        BY <1>c, ReportedCircuit DEF Outcomes
      <4>2. circuit' = [circuit EXCEPT ![w] = FoldLeft(AfterResult, circuit[w], results[w])]
        BY <2>5 DEF Report
      <4> QED BY <1>c, <4>1, <4>2
    <3>2. results' \in [Workers -> Seq({"ok", "failed", "timeout"})] /\ phase' \in [Workers -> Phases]
      BY <2>5 DEF Report, Goto, Phases
    <3>3. UNCHANGED <<queueVars, running, active, pressed, tokens, shared, poolHistory>>
      BY <2>5 DEF Report
    <3> QED BY <1>c, <3>1, <3>2, <3>3, TypeFromParts DEF queueVars, poolHistory, OneBucket
  <2> QED BY <1>6, <2>1, <2>2, <2>3, <2>4, <2>5 DEF WorkerStep
<1>7. CASE UNCHANGED poolVars
  BY <1>7, <1>c DEF poolVars, queueVars, workerVars, poolHistory, OneBucket
<1> QED BY <1>1, <1>2, <1>3, <1>4, <1>5, <1>6, <1>7 DEF PoolNext, ScaleDown, Stop

-----------------------------------------------------------------------------
(* One late batch.  late is reset whenever the worker becomes halted, and   *)
(* counts a lease only while it is; after the lease the worker is past the  *)
(* one place where it asks whether it may go on, until it is let go again.  *)
LateWhere ==
  \A w \in Workers :
    /\ late[w] \in 0..1
    /\ late[w] = 1 => Halted(w) /\ phase[w] \in {"idle", "executing"}

LEMMA LateStep == TypeInv /\ LateWhere /\ [PoolNext]_poolVars => LateWhere'
<1> SUFFICES ASSUME TypeInv, LateWhere, [PoolNext]_poolVars PROVE LateWhere'
  OBVIOUS
<1>t. /\ late \in [Workers -> Nat] /\ phase \in [Workers -> Phases]
      /\ running \in [Workers -> BOOLEAN] /\ paused \in BOOLEAN
  BY DEF TypeInv, PoolTypeOK
<1>1. CASE UNCHANGED <<late, phase, running, paused>>
  BY <1>1 DEF LateWhere, Halted
<1>2. CASE PauseQueue
  BY <1>2, <1>t DEF PauseQueue, workerVars, LateWhere, Halted
<1>3. CASE ResumeQueue
  BY <1>3, <1>t DEF ResumeQueue, workerVars, LateWhere, Halted
<1>4. CASE DrainQueue
  BY <1>4, <1>t DEF DrainQueue, workerVars, LateWhere, Halted
<1>5. ASSUME NEW W \in SUBSET Workers, StopWorkers(W) PROVE LateWhere'
  BY <1>5, <1>t DEF StopWorkers, queueVars, LateWhere, Halted
<1>6. ASSUME NEW w \in Workers, SpawnWorker(w) PROVE LateWhere'
  BY <1>6, <1>t DEF SpawnWorker, queueVars, LateWhere, Halted
<1>7. ASSUME NEW w \in Workers, WorkerStep(w) PROVE LateWhere'
  <2>1. /\ UNCHANGED <<running, paused>>
        /\ \A v \in Workers \ {w} : late'[v] = late[v] /\ phase'[v] = phase[v]
    BY <1>7, <1>t DEF WorkerStep, Poll, Gauge, Regauge, PassGates, Lease, Settle, Report, Goto,
       queueVars, poolHistory
  <2>2. CASE Poll(w)
    BY <2>1, <2>2, <1>t DEF Poll, Goto, poolHistory, LateWhere, Halted
  <2>3. CASE Gauge(w) \/ Regauge(w)
    BY <2>1, <2>3, <1>t DEF Gauge, Regauge, PassGates, Goto, poolHistory, LateWhere, Halted
  <2>4. CASE Lease(w)
    <3>1. late[w] = 0 /\ phase'[w] \in {"idle", "executing"}
      BY <2>4, <1>t DEF Lease, Goto, LateWhere
    <3>2. late'[w] = 0 \/ (late'[w] = 1 /\ Halted(w))
      BY <2>4, <3>1, <1>t DEF Lease, poolHistory, Least
    <3> QED BY <2>1, <3>1, <3>2 DEF LateWhere, Halted
  <2>5. CASE Settle(w) \/ Report(w)
    BY <2>1, <2>5, <1>t DEF Settle, Report, Goto, poolHistory, LateWhere, Halted
  <2> QED BY <1>7, <2>2, <2>3, <2>4, <2>5 DEF WorkerStep
<1> QED
  BY <1>1, <1>2, <1>3, <1>4, <1>5, <1>6, <1>7
  DEF PoolNext, Dispatch, Elapse, DrainPoll, DrainTimeout, ScaleDown, Stop, queueVars,
      workerVars, poolHistory, poolVars

-----------------------------------------------------------------------------
(* The rate of leases: the tokens left, the leases made lately and those    *)
(* about to be made with a token already taken add up to no more than the   *)
(* capacity and one for each worker that shares the bucket.                 *)
Spending(w) == {v \in Sharers(w) : phase[v] = "leasing"}

Rated ==
  \A w \in Workers, b \in Limits :
    tokens[w][b] + meter[w][b] + Cardinality(Spending(w)) <= Capacity[b] + Cardinality(Sharers(w))

LEMMA SharersFinite ==
  ASSUME NEW w \in Workers
  PROVE  /\ IsFiniteSet(Sharers(w)) /\ IsFiniteSet(Spending(w))
         /\ Cardinality(Sharers(w)) \in Nat /\ Cardinality(Spending(w)) \in Nat
         /\ Cardinality(Spending(w)) <= Cardinality(Sharers(w))
<1>1. IsFiniteSet(Sharers(w))
  BY PoolConstantsOK, FS_Singleton DEF Sharers, PoolConstantsOK
<1>2. Spending(w) \in SUBSET Sharers(w)
  BY DEF Spending
<1> QED BY <1>1, <1>2, FS_Subset, FS_CardinalityType

(* Who spends after a step of w.                                            *)
LEMMA SpendingOne ==
  ASSUME NEW w \in Workers, NEW v \in Workers, UNCHANGED shared,
         phase \in [Workers -> Phases], NEW l \in Phases, phase' = [phase EXCEPT ![w] = l]
  PROVE  /\ w \notin Sharers(v) => Spending(v)' = Spending(v)
         /\ (l = "leasing" <=> phase[w] = "leasing") => Spending(v)' = Spending(v)
         /\ l = "leasing" /\ phase[w] # "leasing" /\ w \in Sharers(v) =>
              Cardinality(Spending(v)') = Cardinality(Spending(v)) + 1
         /\ l # "leasing" /\ phase[w] = "leasing" /\ w \in Sharers(v) =>
              Cardinality(Spending(v)') = Cardinality(Spending(v)) - 1
<1>1. Sharers(v)' = Sharers(v) /\ Sharers(v) \subseteq Workers
  BY DEF Sharers
<1>2. ASSUME w \notin Sharers(v) PROVE Spending(v)' = Spending(v)
  BY <1>1, <1>2 DEF Spending
<1>3. ASSUME l = "leasing" <=> phase[w] = "leasing" PROVE Spending(v)' = Spending(v)
  BY <1>1, <1>3 DEF Spending
<1>4. ASSUME l = "leasing", phase[w] # "leasing", w \in Sharers(v)
      PROVE  Cardinality(Spending(v)') = Cardinality(Spending(v)) + 1
  <2>1. Spending(v)' = Spending(v) \cup {w} /\ w \notin Spending(v)
    BY <1>1, <1>4 DEF Spending
  <2> QED BY <2>1, SharersFinite, FS_AddElement
<1>5. ASSUME l # "leasing", phase[w] = "leasing", w \in Sharers(v)
      PROVE  Cardinality(Spending(v)') = Cardinality(Spending(v)) - 1
  <2>1. Spending(v)' = Spending(v) \ {w} /\ w \in Spending(v)
    BY <1>1, <1>5 DEF Spending
  <2> QED BY <2>1, SharersFinite, FS_RemoveElement
<1> QED BY <1>2, <1>3, <1>4, <1>5

LEMMA RateInit == PoolInit => Rated /\ LateWhere
<1> SUFFICES ASSUME PoolInit PROVE Rated /\ LateWhere
  OBVIOUS
<1>1. LateWhere
  BY DEF PoolInit, LateWhere
<1>2. ASSUME NEW w \in Workers, NEW b \in Limits
      PROVE  tokens[w][b] + meter[w][b] + Cardinality(Spending(w))
               <= Capacity[b] + Cardinality(Sharers(w))
  <2>1. tokens[w][b] = Capacity[b] /\ meter[w][b] = 0 /\ Capacity[b] \in Nat
    BY PoolConstantsOK DEF PoolInit, Full, Zero, PoolConstantsOK
  <2> QED BY <2>1, SharersFinite
<1> QED BY <1>1, <1>2 DEF Rated

LEMMA RateStep == TypeInv /\ Rated /\ [PoolNext]_poolVars => Rated'
<1> SUFFICES ASSUME TypeInv, Rated, [PoolNext]_poolVars,
                    NEW v \in Workers, NEW b \in Limits
             PROVE  tokens'[v][b] + meter'[v][b] + Cardinality(Spending(v)')
                      <= Capacity[b] + Cardinality(Sharers(v)')
  BY DEF Rated
<1> DEFINE spent == Cardinality(Spending(v))
           sharing == Cardinality(Sharers(v))
<1>t. /\ phase \in [Workers -> Phases] /\ shared \in BOOLEAN
      /\ tokens \in [Workers -> [Limits -> Nat]] /\ meter \in [Workers -> [Limits -> Nat]]
      /\ tokens[v][b] \in Nat /\ meter[v][b] \in Nat
  BY DEF TypeInv, PoolTypeOK
<1>c. Capacity[b] \in Nat /\ Refill[b] \in Nat
  BY PoolConstantsOK DEF PoolConstantsOK
<1>s. /\ spent \in Nat /\ sharing \in Nat /\ spent <= sharing
      /\ tokens[v][b] + meter[v][b] + spent <= Capacity[b] + sharing
  BY SharersFinite DEF Rated
<1>u. UNCHANGED shared
  BY DEF PoolNext, WorkerStep, Dispatch, Elapse, PauseQueue, ResumeQueue, DrainQueue, DrainPoll,
     DrainTimeout, Stop, ScaleDown, StopWorkers, SpawnWorker, Poll, Gauge, Regauge, Lease, Settle,
     Report, workerVars, poolVars
<1>h. Sharers(v)' = Sharers(v)
  BY <1>u DEF Sharers
<1>p. ASSUME UNCHANGED phase PROVE Spending(v)' = Spending(v)
  BY <1>p, <1>h DEF Spending
<1>1. CASE UNCHANGED <<phase, tokens, meter>>
  BY <1>1, <1>h, <1>p, <1>s
<1>2. CASE Elapse
  <2>1. /\ tokens'[v][b] = Least(Capacity[b], tokens[v][b] + Refill[b])
        /\ meter'[v][b] = Drop(meter[v][b], Refill[b]) /\ UNCHANGED phase
    BY <1>2 DEF Elapse
  <2> HIDE DEF spent, sharing
  <2>2. tokens'[v][b] + meter'[v][b] + spent <= Capacity[b] + sharing
    BY <2>1, <1>t, <1>c, <1>s DEF Least, Drop
  <2> QED BY <2>1, <2>2, <1>h, <1>p DEF spent, sharing
<1>3. ASSUME NEW w \in Workers, SpawnWorker(w)
      PROVE  tokens'[v][b] + meter'[v][b] + Cardinality(Spending(v)')
               <= Capacity[b] + Cardinality(Sharers(v)')
  <2>1. CASE shared \/ v # w
    <3>1. tokens'[v] = tokens[v] /\ meter'[v] = meter[v] /\ UNCHANGED phase
      BY <1>3, <2>1, <1>t DEF SpawnWorker
    <3> QED BY <3>1, <1>h, <1>p, <1>s
  <2>2. CASE ~shared /\ v = w
    <3>1. tokens'[v][b] = Capacity[b] /\ meter'[v][b] = 0 /\ phase'[v] = "idle"
      BY <1>3, <2>2, <1>t DEF SpawnWorker, Full, Zero
    <3>2. Spending(v)' = {}
      BY <2>2, <3>1, <1>h DEF Spending, Sharers
    <3> QED BY <3>1, <3>2, <1>h, <1>s, <1>c, FS_EmptySet
  <2> QED BY <2>1, <2>2
<1>4. ASSUME NEW w \in Workers, WorkerStep(w)
      PROVE  tokens'[v][b] + meter'[v][b] + Cardinality(Spending(v)')
               <= Capacity[b] + Cardinality(Sharers(v)')
  <2> DEFINE mine == v \in Sharers(w)
  <2>m. mine <=> w \in Sharers(v)
    BY DEF Sharers
  <2>1. CASE Poll(w) \/ Settle(w) \/ Report(w)
    <3>1. tokens' = tokens /\ meter' = meter
      BY <2>1 DEF Poll, Settle, Report, poolHistory
    <3>2. Spending(v)' = Spending(v)
      BY <2>1, <1>t, <1>u, <1>p, SpendingOne DEF Poll, Settle, Report, Goto, Phases
    <3> QED BY <3>1, <3>2, <1>h, <1>s
  <2>2. CASE Gauge(w) \/ Regauge(w)
    <3>1. phase[w] # "leasing" /\ meter' = meter
      BY <2>2 DEF Gauge, Regauge, poolHistory
    <3>2. CASE HasTokens(w) /\ Take(w) /\ Goto(w, "leasing")
      <4>1. CASE mine
        <5>1. tokens'[v][b] = tokens[v][b] - 1
          BY <3>2, <4>1, <1>t DEF Take
        <5>2. Cardinality(Spending(v)') = spent + 1
          BY <2>m, <3>1, <3>2, <4>1, <1>t, <1>u, SpendingOne DEF Goto, Phases
        <5> HIDE DEF spent, sharing
        <5> QED BY <3>1, <5>1, <5>2, <1>t, <1>s, <1>h DEF sharing
      <4>2. CASE ~mine
        <5>1. tokens'[v][b] = tokens[v][b]
          BY <3>2, <4>2, <1>t DEF Take
        <5>2. Spending(v)' = Spending(v)
          BY <2>m, <3>2, <4>2, <1>t, <1>u, SpendingOne DEF Goto, Phases
        <5> QED BY <3>1, <5>1, <5>2, <1>s, <1>h
      <4> QED BY <4>1, <4>2
    <3>3. CASE UNCHANGED tokens /\ \E l \in {"idle", "delaying"} : Goto(w, l)
      <4>1. Spending(v)' = Spending(v)
        BY <3>1, <3>3, <1>t, <1>u, SpendingOne DEF Goto, Phases
      <4> QED BY <3>1, <3>3, <4>1, <1>s, <1>h
    <3> QED BY <2>2, <3>2, <3>3 DEF Gauge, Regauge, PassGates
  <2>3. CASE Lease(w)
    <3>1. phase[w] = "leasing" /\ tokens' = tokens
      BY <2>3 DEF Lease
    <3>2. \E l \in {"idle", "executing"} : Goto(w, l)
      BY <2>3 DEF Lease
    <3>3. IF mine THEN meter'[v][b] \in meter[v][b]..meter[v][b] + 1 ELSE meter'[v][b] = meter[v][b]
      BY <2>3, <1>t DEF Lease, poolHistory
    <3>4. CASE mine
      <4>1. Cardinality(Spending(v)') = spent - 1
        BY <2>m, <3>1, <3>2, <3>4, <1>t, <1>u, SpendingOne DEF Goto, Phases
      <4>2. meter'[v][b] \in Nat /\ meter'[v][b] <= meter[v][b] + 1
        BY <3>3, <3>4, <1>t
      <4>3. tokens'[v][b] = tokens[v][b] /\ Cardinality(Sharers(v)') = sharing
        BY <3>1, <1>h
      <4> HIDE DEF spent, sharing
      <4> QED BY <4>1, <4>2, <4>3, <1>t, <1>s, <1>c
    <3>5. CASE ~mine
      <4>1. Spending(v)' = Spending(v)
        BY <2>m, <3>1, <3>2, <3>5, <1>t, <1>u, SpendingOne DEF Goto, Phases
      <4> QED BY <3>1, <3>3, <3>5, <4>1, <1>s, <1>h
    <3> QED BY <3>4, <3>5
  <2> QED BY <1>4, <2>1, <2>2, <2>3 DEF WorkerStep
<1> QED
  BY <1>1, <1>2, <1>3, <1>4
  DEF PoolNext, Dispatch, PauseQueue, ResumeQueue, DrainQueue, DrainPoll, DrainTimeout, ScaleDown,
      Stop, StopWorkers, queueVars, workerVars, poolHistory, poolVars

-----------------------------------------------------------------------------
PoolInv == TypeInv /\ LateWhere /\ Rated

(* The inductive invariant behind the four results below.                   *)
THEOREM PoolInvHolds == PoolSpec => []PoolInv
<1>1. PoolInit => PoolInv
  BY TypeInit, RateInit DEF PoolInv
<1>2. PoolInv /\ [PoolNext]_poolVars => PoolInv'
  BY TypeStep, LateStep, RateStep DEF PoolInv
<1> QED BY <1>1, <1>2, PTL DEF PoolSpec

(* However many workers share a pool's buckets, and however they are        *)
(* paused, stopped, replaced and slowed down, they lease at the configured  *)
(* rate: in any window at most the capacity, what the window refills, and   *)
(* one lease of each sharer that took its token before the window.          *)
THEOREM LeasesRated == PoolSpec => []LeaseRate
<1>1. PoolInv => LeaseRate
  <2> SUFFICES ASSUME PoolInv, NEW w \in Workers, NEW b \in Limits
               PROVE  meter[w][b] <= Capacity[b] + Cardinality(Sharers(w))
    BY DEF LeaseRate
  <2>1. tokens[w][b] \in Nat /\ meter[w][b] \in Nat
    BY DEF PoolInv, TypeInv, PoolTypeOK
  <2>2. Capacity[b] \in Nat /\ Cardinality(Spending(w)) \in Nat /\ Cardinality(Sharers(w)) \in Nat
    BY SharersFinite, PoolConstantsOK DEF PoolConstantsOK
  <2>3. tokens[w][b] + meter[w][b] + Cardinality(Spending(w)) <= Capacity[b] + Cardinality(Sharers(w))
    BY DEF PoolInv, Rated
  <2> QED BY <2>1, <2>2, <2>3
<1> QED BY <1>1, PoolInvHolds, PTL

(* After the queue is paused or drained, or a worker is stopped or scaled   *)
(* away, that worker leases at most one more batch, the one whose tick was  *)
(* already past the two flags.                                              *)
THEOREM StopsAfterOneBatch == PoolSpec => []OneLateBatch
<1>1. PoolInv => OneLateBatch
  BY DEF PoolInv, LateWhere, OneLateBatch
<1> QED BY <1>1, PoolInvHolds, PTL

(* A closed breaker has seen fewer failures in a row than its threshold, a  *)
(* breaker that cools down is open and one with probes in flight half-open, *)
(* for any batch size and whatever outcomes a batch reports together.       *)
THEOREM BreakerSound == PoolSpec => []BreakerHolds
<1>1. PoolInv => BreakerHolds
  BY DEF PoolInv, TypeInv, Circuits, BreakerHolds
<1> QED BY <1>1, PoolInvHolds, PTL

(* The type invariant, for every number of workers.                         *)
THEOREM PoolTypeCorrect == PoolSpec => []PoolTypeOK
<1>1. PoolInv => PoolTypeOK
  BY DEF PoolInv, TypeInv
<1> QED BY <1>1, PoolInvHolds, PTL
=============================================================================
