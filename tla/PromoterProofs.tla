--------------------------- MODULE PromoterProofs ---------------------------
(***************************************************************************)
(* Proofs about the promoter, for any number of promoters and jobs, any    *)
(* polling interval, any delays that have a longest one and any number of  *)
(* store calls that reject: jobs are promoted in time, none is forgotten,  *)
(* and no lease is taken from a worker.                                    *)
(***************************************************************************)
EXTENDS Promoter, WellFoundedInduction, TLAPS

Longest == Max(Delays)
Cost    == PollingInterval + MaxTick     \* what a rejected call may cost a job
Budget  == (MaxRejects - rejects) * Cost

LEMMA LongestType == Longest \in Nat /\ \A d \in Delays : d <= Longest
<1>1. PICK m \in Delays : \A d \in Delays : d <= m
  BY PromoterConstantsOK DEF PromoterConstantsOK
<1>2. \E x \in Delays : \A y \in Delays : x >= y
  BY <1>1, PromoterConstantsOK DEF PromoterConstantsOK
<1>3. Longest \in Delays /\ \A y \in Delays : Longest >= y
  BY <1>2 DEF Longest, Max
<1> QED BY <1>3, PromoterConstantsOK DEF PromoterConstantsOK

LEMMA Intervals ==
  /\ PollingInterval \in Nat /\ PollingInterval >= 1 /\ MaxTick \in Nat /\ MaxRejects \in Nat
  /\ Cost \in Nat /\ Cost = PollingInterval + MaxTick /\ None \notin Nat
BY PromoterConstantsOK DEF PromoterConstantsOK, Cost

(* A set of integers that is bounded below has a least member.              *)
LEMMA LeastLeft ==
  ASSUME NEW S \in SUBSET Int, S # {}, NEW b \in Int, \A s \in S : b <= s
  PROVE  Min(S) \in S /\ \A s \in S : Min(S) <= s
<1> DEFINE T == {n \in Nat : b + n \in S}
           R == OpToRel(<, Nat)
<1>1. PICK s \in S : TRUE
  OBVIOUS
<1>2. s - b \in Nat /\ b + (s - b) = s
  OBVIOUS
<1>3. T # {} /\ T \subseteq Nat
  BY <1>2
<1>4. IsWellFoundedOn(R, Nat)
  BY NatLessThanWellFounded
<1>5. PICK n \in T : \A m \in T : ~ (<<m, n>> \in R)
  <2> HIDE DEF R, T
  <2> QED BY <1>3, <1>4, WFMin
<1>a. \A m \in T : ~ (m < n)
  BY <1>5 DEF OpToRel
<1>6. \A m \in T : n <= m
  BY <1>a
<1>7. ASSUME NEW r \in S
      PROVE  b + n <= r
  <2>1. r - b \in Nat /\ b + (r - b) = r
    OBVIOUS
  <2>2. r - b \in T
    BY <2>1
  <2> QED BY <2>1, <2>2, <1>6
<1>8. \E x \in S : \A y \in S : x =< y
  BY <1>7
<1> QED BY <1>8 DEF Min

-----------------------------------------------------------------------------
(* The rejections left, and what they may still cost.                       *)
LEMMA BudgetType ==
  ASSUME PromTypeOK
  PROVE  Budget \in Nat /\ PollingInterval + 2 * MaxTick + Longest + Budget <= Patience
<1> DEFINE left_ == MaxRejects - rejects
<1>1. left_ \in Nat /\ left_ <= MaxRejects
  BY Intervals DEF PromTypeOK
<1>2. left_ * Cost \in Nat /\ left_ * Cost <= MaxRejects * Cost
  <2> HIDE DEF left_
  <2> QED BY <1>1, Intervals
<1>3. MaxRejects * Cost \in Nat
  BY Intervals
<1>4. Budget = left_ * Cost
  BY DEF Budget
<1>5. Patience = PollingInterval + 2 * MaxTick + Longest + MaxRejects * Cost
  BY DEF Patience, Slack, Cost, Longest
<1> HIDE DEF left_
<1> QED BY <1>2, <1>3, <1>4, <1>5, LongestType, Intervals

LEMMA BudgetRange ==
  ASSUME NEW r \in 0..MaxRejects
  PROVE  (MaxRejects - r) * Cost \in Nat
<1> DEFINE n == MaxRejects - r
<1>1. n \in Nat
  BY Intervals
<1>2. n * Cost \in Nat
  <2> HIDE DEF n
  <2> QED BY <1>1, Intervals
<1> QED BY <1>2

LEMMA PatienceType == Patience \in Nat
<1>1. MaxRejects * Cost \in Nat
  BY Intervals
<1>2. Patience = PollingInterval + 2 * MaxTick + Longest + MaxRejects * Cost
  BY DEF Patience, Slack, Cost, Longest
<1> QED BY <1>1, <1>2, LongestType, Intervals

LEMMA BudgetSpent ==
  ASSUME PromTypeOK, rejects' = rejects + 1
  PROVE  Budget' = Budget - Cost
<1>1. rejects \in Int /\ MaxRejects \in Int /\ Cost \in Int
  BY Intervals DEF PromTypeOK
<1>2. (MaxRejects - (rejects + 1)) * Cost = (MaxRejects - rejects) * Cost - Cost
  BY <1>1
<1> QED BY <1>2 DEF Budget, Cost

-----------------------------------------------------------------------------
(* Types.                                                                   *)
LEMMA SoonestType ==
  ASSUME NEW a \in Nat \cup {None}, NEW b \in Nat
  PROVE  /\ Soonest(a, b) \in Nat /\ Soonest(a, b) <= b
         /\ a # None => Soonest(a, b) <= a
BY Intervals DEF Soonest

LEMMA LatestType ==
  ASSUME NEW a \in Int, NEW b \in Int
  PROVE  /\ Latest(a, b) \in {a, b} /\ Latest(a, b) >= a /\ Latest(a, b) >= b
         /\ a \in Nat => Latest(a, b) \in Nat
BY DEF Latest

(* The next wake-up of a promoter: a number, and no later than asked for.   *)
LEMMA NextDelayType ==
  ASSUME PromTypeOK, NEW p \in Promoters
  PROVE  /\ NextDelay(p) \in Nat
         /\ found[p] => NextDelay(p) <= 1
         /\ next[p] = None => NextDelay(p) <= PollingInterval
         /\ next[p] # None => NextDelay(p) <= PollingInterval \/ NextDelay(p) <= next[p]
         /\ next[p] # None => NextDelay(p) <= Latest(1, next[p]) \/ found[p]
         /\ wake[p] # None => NextDelay(p) <= Latest(1, wake[p])
<1> DEFINE computed  == IF found[p] THEN FastRecheck
                        ELSE IF next[p] # None THEN Latest(FastRecheck, next[p])
                        ELSE PollingInterval
           requested == IF wake[p] = None THEN None ELSE Latest(FastRecheck, wake[p])
<1>1. wake[p] \in Nat \cup {None} /\ next[p] \in Nat \cup {None} /\ found[p] \in BOOLEAN
  BY DEF PromTypeOK
<1>2. computed \in Nat /\ (found[p] => computed = 1)
      /\ (~found[p] /\ next[p] = None => computed = PollingInterval)
      /\ (~found[p] /\ next[p] # None => computed = Latest(1, next[p]) /\ next[p] \in Nat)
  BY <1>1, Intervals DEF FastRecheck, Latest
<1>3. requested \in Nat \cup {None} /\ (wake[p] # None => requested = Latest(1, wake[p]) /\ requested # None)
  BY <1>1, Intervals DEF FastRecheck, Latest
<1>4. NextDelay(p) = Soonest(computed, requested)
  BY DEF NextDelay
<1>5. NextDelay(p) \in Nat /\ NextDelay(p) <= computed /\ (wake[p] # None => NextDelay(p) <= requested)
  <2> HIDE DEF computed, requested
  <2> QED BY <1>2, <1>3, <1>4, Intervals DEF Soonest
<1>6. next[p] # None /\ ~found[p] => computed <= PollingInterval \/ computed <= next[p]
  BY <1>2, Intervals DEF Latest
<1> HIDE DEF computed, requested
<1> QED BY <1>2, <1>3, <1>5, <1>6, Intervals

(* The soonest job a store names.                                           *)
LeftBounded == \A j \in Jobs : left[j] >= -MaxTick

LEMMA SoonestStored ==
  ASSUME PromTypeOK, LeftBounded, Stored # {}
  PROVE  /\ Min({left[j] : j \in Stored}) \in Int
         /\ \A j \in Stored : Min({left[k] : k \in Stored}) <= left[j]
         /\ \E j \in Stored : Min({left[k] : k \in Stored}) = left[j]
<1> DEFINE S == {left[j] : j \in Stored}
<1>1. S \subseteq Int /\ S # {} /\ \A s \in S : -MaxTick <= s
  <2>1. S # {}
    OBVIOUS
  <2>2. \A j \in Stored : left[j] \in Int /\ -MaxTick <= left[j]
    <3>1. Stored \subseteq Jobs
      BY DEF Stored
    <3>2. \A j \in Jobs : left[j] \in Int
      BY DEF PromTypeOK
    <3>3. \A j \in Jobs : -MaxTick <= left[j]
      BY <3>2, Intervals DEF LeftBounded
    <3> QED BY <3>1, <3>2, <3>3
  <2> QED BY <2>1, <2>2
<1>2. -MaxTick \in Int
  BY Intervals
<1>3. Min(S) \in S /\ \A s \in S : Min(S) <= s
  <2> HIDE DEF S
  <2> QED BY <1>1, <1>2, LeastLeft
<1>4. \A j \in Stored : left[j] \in S
  OBVIOUS
<1>5. \E j \in Stored : Min(S) = left[j]
  BY <1>3
<1>6. Min(S) \in Int /\ \A j \in Stored : Min(S) <= left[j]
  BY <1>1, <1>3, <1>4
<1> QED BY <1>5, <1>6

LEMMA TypeInit == PromInit => PromTypeOK
BY Intervals DEF PromInit, PromTypeOK

LEMMA TypeStep == PromTypeOK /\ LeftBounded /\ [PromNext]_promVars => PromTypeOK'
<1> SUFFICES ASSUME PromTypeOK, LeftBounded, [PromNext]_promVars PROVE PromTypeOK'
  OBVIOUS
<1> USE Intervals
<1>0. CASE UNCHANGED promVars
  BY <1>0 DEF promVars, jobVars, promoterVars, PromTypeOK
<1>1. CASE ClockTick
  <2>1. left' \in [Jobs -> Int] /\ wait' \in [Jobs -> Nat]
    BY <1>1 DEF ClockTick, PromTypeOK, Latest
  <2>2. timer' \in [Promoters -> Nat]
    BY <1>1 DEF ClockTick, PromTypeOK
  <2>3. wake' \in [Promoters -> Nat \cup {None}]
    BY <1>1 DEF ClockTick, PromTypeOK, Latest
  <2>4. age' \in [Promoters -> 0..MaxTick]
    BY <1>1 DEF ClockTick, PromTypeOK
  <2> QED BY <1>1, <2>1, <2>2, <2>3, <2>4 DEF ClockTick, PromTypeOK
<1>2. ASSUME NEW p \in Promoters, Start(p) \/ Stop(p) PROVE PromTypeOK'
  <2>1. CASE Start(p)
    BY <2>1 DEF Start, BeginPass, Goto, PromTypeOK, jobVars
  <2>2. CASE Stop(p)
    <3>1. Unpromoted \subseteq Jobs
      BY DEF Unpromoted
    <3>2. stage' \in [Promoters -> {"off", "sleeping", "listing", "moving", "asking", "closing"}]
      BY <2>2 DEF Stop, Goto, PromTypeOK
    <3> QED BY <2>2, <3>1, <3>2 DEF Stop, PromTypeOK, jobVars
  <2> QED BY <1>2, <2>1, <2>2
<1>3. ASSUME NEW p \in Promoters, PassStep(p) PROVE PromTypeOK'
  <2>1. CASE Fire(p)
    BY <2>1 DEF Fire, BeginPass, Goto, PromTypeOK, jobVars
  <2>2. CASE PromoteAll(p)
    BY <2>2 DEF PromoteAll, Depart, Goto, PromTypeOK, jobVars
  <2>3. CASE List(p)
    BY <2>3 DEF List, Goto, PromTypeOK, jobVars, Due, Stored
  <2>4. CASE Move(p)
    BY <2>4 DEF Move, Depart, PromTypeOK
  <2>5. CASE MoveRejects(p)
    BY <2>5 DEF MoveRejects, PromTypeOK, jobVars
  <2>6. CASE AllMoved(p)
    BY <2>6 DEF AllMoved, Goto, PromTypeOK, jobVars
  <2>7. CASE AskNext(p)
    <3>1. Stored # {} => Latest(0, Min({left[j] : j \in Stored}) + age[p]) \in Nat
      <4> DEFINE m == Min({left[j] : j \in Stored}) + age[p]
      <4> SUFFICES ASSUME Stored # {} PROVE Latest(0, m) \in Nat
        OBVIOUS
      <4>1. m \in Int
        BY SoonestStored DEF PromTypeOK
      <4> HIDE DEF m
      <4> QED BY <4>1 DEF Latest
    <3> QED BY <2>7, <3>1 DEF AskNext, Goto, PromTypeOK, jobVars
  <2>8. CASE QueryRejects(p)
    BY <2>8 DEF QueryRejects, Goto, PromTypeOK, jobVars, Unpromoted
  <2>9. CASE ClosePass(p)
    BY <2>9, NextDelayType DEF ClosePass, Goto, PromTypeOK, jobVars
  <2> QED BY <1>3, <2>1, <2>2, <2>3, <2>4, <2>5, <2>6, <2>7, <2>8, <2>9 DEF PassStep
<1>4. ASSUME NEW p \in Promoters, NEW j \in Jobs, Announce(p, j) PROVE PromTypeOK'
  BY <1>4, PromoterConstantsOK
     DEF PromoterConstantsOK, Announce, RequestReschedule, FastRecheck, Soonest, Latest, PromTypeOK
<1>5. ASSUME NEW j \in Jobs, Store(j) \/ StoreUnannounced(j) PROVE PromTypeOK'
  BY <1>5, PromoterConstantsOK DEF PromoterConstantsOK, Store, StoreUnannounced, promoterVars, PromTypeOK
<1>6. ASSUME NEW j \in Jobs, LeaseJob(j) \/ Settle(j) \/ PromoteJob(j) \/ RemoveJob(j) PROVE PromTypeOK'
  BY <1>6 DEF LeaseJob, Settle, PromoteJob, RemoveJob, SetJob, Depart, promoterVars, PromTypeOK
<1> QED BY <1>0, <1>1, <1>2, <1>3, <1>4, <1>5, <1>6 DEF PromNext

-----------------------------------------------------------------------------
(* The clocks of a job: its delay is in bounds, and it has not been waiting *)
(* for longer than it has been due.                                         *)
ClockOK(j) ==
  /\ left[j] >= -MaxTick /\ left[j] <= Longest
  /\ job[j] # "delayed" \/ left[j] > 0 => wait[j] = 0
  /\ left[j] > -MaxTick => wait[j] = 0 \/ wait[j] <= -left[j]

(* Where a promoter is: only a running one sleeps, only a pass has an age,  *)
(* and each kind of store has its own stages.                               *)
PassOK(p) ==
  /\ stage[p] = "sleeping" => running[p]
  /\ running[p] => stage[p] # "off"
  /\ ~Passing(p) => age[p] = 0
  /\ next[p] # None => stage[p] = "closing" /\ store = "bulk" /\ next[p] <= Longest + age[p]
  /\ store = "plain" => stage[p] # "asking" /\ timer[p] <= PollingInterval
  /\ store = "bulk" => stage[p] # "moving" /\ list[p] = {}

BaseInv ==
  /\ PromTypeOK
  /\ \A j \in Jobs : ClockOK(j)
  /\ \A p \in Promoters : PassOK(p)

LEMMA BaseInit == PromInit => BaseInv
BY TypeInit, Intervals, LongestType DEF PromInit, BaseInv, ClockOK, PassOK, Passing

LEMMA BaseType ==
  ASSUME BaseInv
  PROVE  PromTypeOK /\ LeftBounded
BY DEF BaseInv, LeftBounded, ClockOK

LEMMA ClockStep ==
  ASSUME BaseInv, [PromNext]_promVars, NEW j \in Jobs
  PROVE  ClockOK(j)'
<1> USE Intervals, LongestType
<1>t. PromTypeOK /\ ClockOK(j) /\ left[j] \in Int /\ wait[j] \in Nat
  BY DEF BaseInv, PromTypeOK
<1>a. ASSUME UNCHANGED <<left, wait>>, job'[j] = "delayed" \/ job'[j] = job[j] \/ wait[j] = 0
      PROVE  ClockOK(j)'
  BY <1>a, <1>t DEF ClockOK
<1>b. ASSUME NEW J, NEW st, Depart(J, st) PROVE ClockOK(j)'
  BY <1>b, <1>t DEF Depart, ClockOK, PromTypeOK
<1>0. CASE UNCHANGED promVars
  BY <1>0, <1>a DEF promVars, jobVars
<1>1. CASE ClockTick
  <2>1. left'[j] = IF j \in Unpromoted THEN Latest(left[j] - 1, -MaxTick) ELSE left[j]
    BY <1>1 DEF ClockTick
  <2>2. wait'[j] = IF j \in Stored /\ left[j] <= 0 /\ Served /\ wait[j] <= Patience THEN wait[j] + 1 ELSE wait[j]
    BY <1>1 DEF ClockTick
  <2>3. job' = job
    BY <1>1 DEF ClockTick
  <2>4. CASE job[j] = "delayed"
    <3>1. j \in Unpromoted /\ j \in Stored
      BY <2>4 DEF Unpromoted, Stored
    <3> QED BY <1>t, <2>1, <2>2, <2>3, <2>4, <3>1 DEF ClockOK, Latest
  <2>5. CASE job[j] # "delayed"
    <3>1. j \notin Stored
      BY <2>5 DEF Stored
    <3> QED BY <1>t, <2>1, <2>2, <2>3, <2>5, <3>1 DEF ClockOK, Latest
  <2> QED BY <2>4, <2>5
<1>2. ASSUME NEW p \in Promoters, Start(p) \/ Stop(p) PROVE ClockOK(j)'
  BY <1>2, <1>a DEF Start, Stop, BeginPass, jobVars
<1>3. ASSUME NEW p \in Promoters, PassStep(p) PROVE ClockOK(j)'
  BY <1>3, <1>a, <1>b DEF PassStep, Fire, BeginPass, PromoteAll, List, Move, MoveRejects, AllMoved,
     AskNext, QueryRejects, ClosePass, jobVars
<1>4. ASSUME NEW p \in Promoters, NEW i \in Jobs, Announce(p, i) PROVE ClockOK(j)'
  <2>1. PICK d \in Delays : left' = [left EXCEPT ![i] = d]
    BY <1>4 DEF Announce
  <2>2. d \in Nat /\ d <= Longest
    BY PromoterConstantsOK DEF PromoterConstantsOK
  <2> QED BY <1>4, <1>t, <2>1, <2>2 DEF Announce, ClockOK, PromTypeOK
<1>5. ASSUME NEW i \in Jobs, Store(i) PROVE ClockOK(j)'
  BY <1>5, <1>t, <1>a DEF Store, PromTypeOK
<1>6. ASSUME NEW i \in Jobs, StoreUnannounced(i) PROVE ClockOK(j)'
  <2>1. PICK d \in Delays : left' = [left EXCEPT ![i] = d]
    BY <1>6 DEF StoreUnannounced
  <2>2. d \in Nat /\ d <= Longest
    BY PromoterConstantsOK DEF PromoterConstantsOK
  <2> QED BY <1>6, <1>t, <2>1, <2>2 DEF StoreUnannounced, ClockOK, PromTypeOK
<1>7. ASSUME NEW i \in Jobs, LeaseJob(i) \/ Settle(i) \/ PromoteJob(i) \/ RemoveJob(i) PROVE ClockOK(j)'
  BY <1>7, <1>b DEF LeaseJob, Settle, PromoteJob, RemoveJob, SetJob
<1> QED BY <1>0, <1>1, <1>2, <1>3, <1>4, <1>5, <1>6, <1>7 DEF PromNext

LEMMA PassStepOK ==
  ASSUME BaseInv, [PromNext]_promVars, NEW q \in Promoters
  PROVE  PassOK(q)'
<1> USE Intervals, LongestType
<1>t. PromTypeOK /\ PassOK(q) /\ LeftBounded
  BY BaseType DEF BaseInv
<1>a. ASSUME UNCHANGED store, UNCHANGED <<running[q], stage[q], timer[q], age[q], list[q], next[q]>>
      PROVE  PassOK(q)'
  BY <1>a, <1>t DEF PassOK, Passing
<1>0. CASE UNCHANGED promVars
  BY <1>0, <1>a DEF promVars, promoterVars
<1>1. CASE ClockTick
  BY <1>1, <1>t DEF ClockTick, PassOK, Passing, PromTypeOK
<1>2. ASSUME NEW p \in Promoters, Start(p) PROVE PassOK(q)'
  BY <1>2, <1>t DEF Start, BeginPass, Goto, PassOK, Passing, PromTypeOK
<1>3. ASSUME NEW p \in Promoters, Stop(p) PROVE PassOK(q)'
  BY <1>3, <1>t DEF Stop, Goto, PassOK, Passing, PromTypeOK
<1>4. ASSUME NEW p \in Promoters, PassStep(p) PROVE PassOK(q)'
  <2>1. CASE Fire(p)
    BY <2>1, <1>t DEF Fire, BeginPass, Goto, PassOK, Passing, PromTypeOK
  <2>2. CASE PromoteAll(p)
    BY <2>2, <1>t DEF PromoteAll, Goto, PassOK, Passing, PromTypeOK
  <2>3. CASE List(p)
    BY <2>3, <1>t DEF List, Goto, PassOK, Passing, PromTypeOK
  <2>4. CASE Move(p) \/ MoveRejects(p) \/ AllMoved(p)
    BY <2>4, <1>t DEF Move, MoveRejects, AllMoved, Goto, PassOK, Passing, PromTypeOK
  <2>5. CASE AskNext(p)
    <3>1. PICK n : n = IF Stored = {} THEN None ELSE Latest(0, Min({left[j] : j \in Stored}) + age[p])
      OBVIOUS
    <3>2. n # None => n <= Longest + age[p]
      <4> SUFFICES ASSUME n # None PROVE n <= Longest + age[p]
        OBVIOUS
      <4>1. Stored # {} /\ \A j \in Jobs : left[j] <= Longest
        BY <3>1 DEF BaseInv, ClockOK
      <4>2. PICK m : m = Min({left[j] : j \in Stored})
        OBVIOUS
      <4>3. m \in Int /\ m <= Longest
        BY <1>t, <4>1, <4>2, SoonestStored DEF PromTypeOK, Stored
      <4>4. n = Latest(0, m + age[p])
        BY <3>1, <4>1, <4>2
      <4> QED BY <1>t, <4>3, <4>4 DEF Latest, PromTypeOK
    <3>3. next' = [next EXCEPT ![p] = n]
      BY <2>5, <3>1 DEF AskNext
    <3>4. PassOK(p) /\ store \in {"plain", "bulk"}
      BY <1>t, PromoterConstantsOK DEF BaseInv, PromoterConstantsOK, PromTypeOK
    <3>5. q # p => UNCHANGED <<running[q], stage[q], timer[q], age[q], list[q], next[q]>>
      BY <2>5, <1>t, <3>3 DEF AskNext, Goto, PromTypeOK
    <3>6. CASE q = p
      BY <2>5, <1>t, <3>2, <3>3, <3>4, <3>6 DEF AskNext, Goto, PassOK, Passing, PromTypeOK
    <3> QED BY <2>5, <1>a, <3>5, <3>6 DEF AskNext
  <2>6. CASE QueryRejects(p)
    BY <2>6, <1>t DEF QueryRejects, Goto, PassOK, Passing, PromTypeOK
  <2>7. CASE ClosePass(p)
    <3>1. next[p] = None => NextDelay(p) <= PollingInterval
      BY <1>t, NextDelayType
    <3>2. PICK d : d = NextDelay(p)
      OBVIOUS
    <3>3. timer' = IF running[p] THEN [timer EXCEPT ![p] = d] ELSE timer
      BY <2>7, <3>2 DEF ClosePass
    <3> QED BY <2>7, <1>t, <3>1, <3>2, <3>3 DEF ClosePass, Goto, PassOK, Passing, PromTypeOK
  <2> QED BY <1>4, <2>1, <2>2, <2>3, <2>4, <2>5, <2>6, <2>7 DEF PassStep
<1>5. ASSUME NEW p \in Promoters, NEW i \in Jobs, Announce(p, i) PROVE PassOK(q)'
  <2>1. PICK d \in Delays : RequestReschedule(p, d)
    BY <1>5 DEF Announce
  <2>2. timer'[q] <= timer[q]
    BY <1>t, <2>1, PromoterConstantsOK
       DEF PromoterConstantsOK, RequestReschedule, Soonest, Latest, FastRecheck, PromTypeOK
  <2>3. timer'[q] \in Nat /\ timer[q] \in Nat
    BY <1>5, <1>t, TypeStep DEF PromNext, PromTypeOK
  <2> QED BY <1>5, <1>t, <2>2, <2>3 DEF Announce, PassOK, Passing
<1>6. ASSUME NEW i \in Jobs, Store(i) \/ StoreUnannounced(i) PROVE PassOK(q)'
  BY <1>6, <1>a DEF Store, StoreUnannounced, promoterVars
<1>7. ASSUME NEW i \in Jobs, LeaseJob(i) \/ Settle(i) \/ PromoteJob(i) \/ RemoveJob(i) PROVE PassOK(q)'
  BY <1>7, <1>a DEF LeaseJob, Settle, PromoteJob, RemoveJob, SetJob, promoterVars
<1> QED BY <1>0, <1>1, <1>2, <1>3, <1>4, <1>5, <1>6, <1>7 DEF PromNext

LEMMA BaseStep == BaseInv /\ [PromNext]_promVars => BaseInv'
BY BaseType, TypeStep, ClockStep, PassStepOK DEF BaseInv

(* Types hold in every reachable state.                                     *)
THEOREM PromoterTypes == PromSpec => []PromTypeOK
<1>1. BaseInv => PromTypeOK
  BY DEF BaseInv
<1> QED BY BaseInit, BaseStep, <1>1, PTL DEF PromSpec

-----------------------------------------------------------------------------
(* Punctuality.  A promoter has heard of a job when its timer, or the wake- *)
(* up kept for the end of its pass, is set for it; it is in time for a      *)
(* stored job when what the job has waited and what the promoter has still  *)
(* to do before its next list is read fit in a polling interval and two     *)
(* passes.                                                                  *)
Called(p, j) == wake[p] # None /\ wake[p] <= Latest(1, left[j])

Told(p, j) ==
  /\ stage[p] = "sleeping" => timer[p] <= PollingInterval + Latest(left[j], 0)
  /\ stage[p] = "closing" /\ next[p] # None /\ ~found[p] => Called(p, j)

InTime(p, j) ==
  /\ stage[p] = "sleeping" => wait[j] + timer[p] <= Cost + Latest(left[j], 0)
  /\ stage[p] = "listing" /\ left[j] <= -age[p] => wait[j] <= Cost + age[p]
  /\ stage[p] = "moving" => wait[j] <= (IF j \in list[p] THEN Cost + age[p] ELSE age[p])
  /\ stage[p] \in {"asking", "closing"} => wait[j] <= age[p]
  /\ stage[p] = "closing" /\ next[p] # None /\ ~found[p] =>
       Called(p, j) \/ next[p] <= Latest(0, left[j] + age[p])

(* Somebody who runs looks after the job.                                   *)
Attended(j) ==
  /\ job[j] = "announced" => \E p \in Promoters : home[j] = p /\ running[p] /\ Told(p, j)
  /\ job[j] = "delayed" => \E p \in Promoters : running[p] /\ InTime(p, j)

AttendInv == BaseInv /\ \A j \in Jobs \ excused : Attended(j)

(* Whoever looks after the job goes on doing so.                            *)
Keeps(p, j) ==
  /\ job[j] = "announced" /\ home[j] = p /\ running[p] /\ Told(p, j) => running'[p] /\ Told(p, j)'
  /\ job[j] = "delayed" /\ running[p] /\ InTime(p, j) => running'[p] /\ InTime(p, j)'

SamePromoter(p) ==
  UNCHANGED <<running[p], stage[p], timer[p], wake[p], age[p], list[p], found[p], next[p]>>

LEMMA AttendKept ==
  ASSUME NEW j \in Jobs, Attended(j), job'[j] = job[j], home'[j] = home[j],
         \A p \in Promoters : Keeps(p, j)
  PROVE  Attended(j)'
<1>1. CASE job[j] = "announced"
  <2>1. PICK p \in Promoters : home[j] = p /\ running[p] /\ Told(p, j)
    BY <1>1 DEF Attended
  <2>2. home'[j] = p /\ running'[p] /\ Told(p, j)'
    BY <1>1, <2>1 DEF Keeps
  <2> QED BY <1>1, <2>2 DEF Attended
<1>2. CASE job[j] = "delayed"
  <2>1. PICK p \in Promoters : running[p] /\ InTime(p, j)
    BY <1>2 DEF Attended
  <2>2. running'[p] /\ InTime(p, j)'
    BY <1>2, <2>1 DEF Keeps
  <2> QED BY <1>2, <2>2 DEF Attended
<1>3. CASE job[j] \notin {"announced", "delayed"}
  BY <1>3 DEF Attended
<1> QED BY <1>1, <1>2, <1>3

LEMMA SameKeeps ==
  ASSUME NEW j, NEW p, SamePromoter(p), left'[j] = left[j], wait'[j] = wait[j]
  PROVE  Keeps(p, j)
BY DEF SamePromoter, Keeps, Told, InTime, Called

(* The fields of one promoter and one job.                                  *)
LEMMA Fields ==
  ASSUME BaseInv, NEW p \in Promoters, NEW j \in Jobs
  PROVE  /\ timer[p] \in Nat /\ wake[p] \in Nat \cup {None} /\ age[p] \in Nat /\ age[p] <= MaxTick
         /\ next[p] \in Nat \cup {None} /\ found[p] \in BOOLEAN /\ running[p] \in BOOLEAN
         /\ stage[p] \in {"off", "sleeping", "listing", "moving", "asking", "closing"}
         /\ left[j] \in Int /\ wait[j] \in Nat /\ list[p] \subseteq Jobs
         /\ ClockOK(j) /\ PassOK(p) /\ store \in {"plain", "bulk"}
BY Intervals, PromoterConstantsOK DEF BaseInv, PromTypeOK, PromoterConstantsOK

(* A pass that does not find the job due began after it arrived.            *)
LEMMA NotDueYet ==
  ASSUME BaseInv, NEW p \in Promoters, NEW j \in Jobs, ~ (left[j] <= -age[p])
  PROVE  wait[j] <= age[p]
BY Fields, Intervals DEF ClockOK

LEMMA TickKeeps ==
  ASSUME BaseInv, ClockTick, NEW p \in Promoters, NEW j \in Jobs
  PROVE  Keeps(p, j)
<1> USE Intervals
<1>1. /\ stage[p] = "sleeping" => timer[p] > 0
      /\ Passing(p) => age[p] < MaxTick
      /\ timer'[p] = IF stage[p] = "sleeping" THEN timer[p] - 1 ELSE timer[p]
      /\ wake'[p] = IF wake[p] = None THEN None ELSE Latest(wake[p] - 1, 0)
      /\ age'[p] = IF Passing(p) THEN age[p] + 1 ELSE age[p]
      /\ UNCHANGED <<running[p], stage[p], list[p], found[p], next[p]>>
  BY DEF ClockTick
<1>2. wait'[j] \in {wait[j], wait[j] + 1} /\ (left[j] > 0 => wait'[j] = wait[j])
  <2>1. wait'[j] = IF j \in Stored /\ left[j] <= 0 /\ Served /\ wait[j] <= Patience THEN wait[j] + 1 ELSE wait[j]
    BY DEF ClockTick
  <2> QED BY <2>1, Fields
<1>3. ASSUME job[j] \in {"announced", "delayed"}
      PROVE  left'[j] = Latest(left[j] - 1, -MaxTick)
  <2>1. j \in Unpromoted
    BY <1>3 DEF Unpromoted
  <2> QED BY <2>1 DEF ClockTick
<1>f. /\ timer[p] \in Nat /\ wake[p] \in Nat \cup {None} /\ age[p] \in Nat /\ age[p] <= MaxTick
      /\ next[p] \in Nat \cup {None} /\ left[j] \in Int /\ left[j] >= -MaxTick /\ wait[j] \in Nat
  BY Fields DEF ClockOK
<1>4. ASSUME job[j] \in {"announced", "delayed"}, Called(p, j)
      PROVE  Called(p, j)'
  <2>1. left'[j] = Latest(left[j] - 1, -MaxTick) /\ wake[p] \in Nat /\ wake'[p] = Latest(wake[p] - 1, 0)
    BY <1>1, <1>3, <1>4, <1>f DEF Called
  <2>2. wake[p] <= Latest(1, left[j])
    BY <1>4 DEF Called
  <2>3. wake'[p] \in Nat /\ wake'[p] <= Latest(1, left'[j])
    BY <2>1, <2>2, <1>f DEF Latest
  <2> QED BY <2>3 DEF Called
<1>5. ASSUME job[j] = "announced", Told(p, j)
      PROVE  Told(p, j)'
  <2>1. left'[j] = Latest(left[j] - 1, -MaxTick)
    BY <1>3, <1>5
  <2>2. stage'[p] = "sleeping" => timer'[p] <= PollingInterval + Latest(left'[j], 0)
    BY <1>1, <1>5, <1>f, <2>1 DEF Told, Latest
  <2>3. stage'[p] = "closing" /\ next'[p] # None /\ ~found'[p] => Called(p, j)'
    BY <1>1, <1>4, <1>5 DEF Told
  <2> QED BY <2>2, <2>3 DEF Told
<1>6. ASSUME job[j] = "delayed", InTime(p, j)
      PROVE  InTime(p, j)'
  <2>1. left'[j] = Latest(left[j] - 1, -MaxTick)
    BY <1>3, <1>6
  <2>2. stage'[p] = "sleeping" => wait'[j] + timer'[p] <= Cost' + Latest(left'[j], 0)
    BY <1>1, <1>2, <1>6, <1>f, <2>1 DEF InTime, Latest, Cost
  <2>3. stage[p] \in {"listing", "moving", "asking", "closing"} => age'[p] = age[p] + 1 /\ age[p] < MaxTick
    BY <1>1 DEF Passing
  <2>4. stage'[p] = "listing" /\ left'[j] <= -age'[p] => wait'[j] <= Cost' + age'[p]
    BY <1>1, <1>2, <1>6, <1>f, <2>1, <2>3 DEF InTime, Latest, Cost
  <2>5. stage'[p] = "moving" => wait'[j] <= (IF j \in list'[p] THEN Cost' + age'[p] ELSE age'[p])
    BY <1>1, <1>2, <1>6, <1>f, <2>3 DEF InTime, Cost
  <2>6. stage'[p] \in {"asking", "closing"} => wait'[j] <= age'[p]
    BY <1>1, <1>2, <1>6, <1>f, <2>3 DEF InTime
  <2>7. stage'[p] = "closing" /\ next'[p] # None /\ ~found'[p] =>
          Called(p, j)' \/ next'[p] <= Latest(0, left'[j] + age'[p])
    <3> SUFFICES ASSUME stage[p] = "closing", next[p] # None, ~found[p], ~Called(p, j)
                 PROVE  next'[p] <= Latest(0, left'[j] + age'[p])
      BY <1>1, <1>4, <1>6
    <3>1. next[p] <= Latest(0, left[j] + age[p])
      BY <1>6 DEF InTime
    <3> QED BY <1>1, <1>f, <2>1, <2>3, <3>1 DEF Latest
  <2> QED BY <2>2, <2>4, <2>5, <2>6, <2>7 DEF InTime
<1> QED BY <1>1, <1>5, <1>6 DEF Keeps

(* The end of a pass of p: when it sleeps, for how long.                    *)
LEMMA CloseKeeps ==
  ASSUME BaseInv, NEW p \in Promoters, NEW j \in Jobs, ClosePass(p), running[p]
  PROVE  Keeps(p, j)
<1> USE Intervals
<1>f. /\ timer[p] \in Nat /\ wake[p] \in Nat \cup {None} /\ age[p] \in Nat /\ age[p] <= MaxTick
      /\ next[p] \in Nat \cup {None} /\ left[j] \in Int /\ wait[j] \in Nat
      /\ left[j] > 0 => wait[j] = 0
      /\ left[j] > -MaxTick => wait[j] = 0 \/ wait[j] <= -left[j]
  BY Fields DEF ClockOK
<1>t. PromTypeOK
  BY BaseType
<1>1. /\ stage[p] = "closing" /\ stage'[p] = "sleeping" /\ running'[p]
      /\ timer'[p] = NextDelay(p) /\ left'[j] = left[j] /\ wait'[j] = wait[j]
  BY <1>t DEF ClosePass, Goto, jobVars, PromTypeOK
<1>2. /\ NextDelay(p) \in Nat
      /\ found[p] => NextDelay(p) <= 1
      /\ next[p] = None => NextDelay(p) <= PollingInterval
      /\ next[p] # None => NextDelay(p) <= Latest(1, next[p]) \/ found[p]
      /\ wake[p] # None => NextDelay(p) <= Latest(1, wake[p])
  BY <1>t, NextDelayType
<1>3. Called(p, j) => NextDelay(p) <= Latest(1, left[j])
  BY <1>f, <1>2 DEF Called, Latest
<1>4. ASSUME Told(p, j) PROVE Told(p, j)'
  <2>1. NextDelay(p) <= PollingInterval + Latest(left[j], 0)
    BY <1>1, <1>2, <1>3, <1>4, <1>f DEF Told, Latest
  <2> QED BY <1>1, <2>1 DEF Told
<1>5. ASSUME InTime(p, j) PROVE InTime(p, j)'
  <2>1. wait[j] <= age[p]
    BY <1>1, <1>5 DEF InTime
  <2>2. CASE next[p] = None \/ found[p]
    BY <1>1, <1>2, <1>f, <2>1, <2>2 DEF InTime, Cost, Latest
  <2>3. CASE Called(p, j)
    BY <1>1, <1>2, <1>3, <1>f, <2>1, <2>3 DEF InTime, Cost, Latest
  <2>4. CASE next[p] # None /\ ~found[p] /\ ~Called(p, j)
    <3>1. next[p] <= Latest(0, left[j] + age[p])
      BY <1>1, <1>5, <2>4 DEF InTime
    <3>2. NextDelay(p) <= Latest(1, next[p])
      BY <1>2, <2>4
    <3>3. NextDelay(p) <= Latest(1, left[j] + age[p])
      BY <1>2, <1>f, <2>4, <3>1, <3>2 DEF Latest
    <3>4. wait[j] + NextDelay(p) <= Cost + Latest(left[j], 0)
      BY <1>2, <1>f, <2>1, <3>3 DEF Latest
    <3> QED BY <1>1, <3>4 DEF InTime, Cost
  <2> QED BY <2>2, <2>3, <2>4
<1> QED BY <1>1, <1>4, <1>5 DEF Keeps

(* The question when the next job is due: it covers every stored job, and   *)
(* a job not yet stored is excused unless a wake-up is kept for it.         *)
LEMMA AskKeeps ==
  ASSUME BaseInv, NEW p \in Promoters, NEW j \in Jobs \ excused', AskNext(p)
  PROVE  Keeps(p, j)
<1> USE Intervals
<1>t. PromTypeOK /\ LeftBounded
  BY BaseType
<1>f. /\ wake[p] \in Nat \cup {None} /\ age[p] \in Nat /\ age[p] <= MaxTick
      /\ left[j] \in Int /\ wait[j] \in Nat
  BY Fields
<1>1. /\ stage[p] = "asking" /\ stage'[p] = "closing"
      /\ left'[j] = left[j] /\ wait'[j] = wait[j]
      /\ UNCHANGED <<running, timer, wake, age, list, found>>
      /\ j \notin {i \in Jobs : job[i] = "announced" /\ home[i] = p
                                /\ (wake[p] = None \/ wake[p] > Latest(FastRecheck, left[i]))}
  BY <1>t DEF AskNext, Goto, jobVars, PromTypeOK
<1>2. ASSUME job[j] = "announced", home[j] = p PROVE Told(p, j)'
  <2>1. wake[p] # None /\ ~ (wake[p] > Latest(1, left[j]))
    BY <1>1, <1>2 DEF FastRecheck
  <2>2. Called(p, j)'
    BY <1>1, <1>f, <2>1 DEF Called, Latest
  <2> QED BY <1>1, <2>2 DEF Told
<1>3. ASSUME job[j] = "delayed", InTime(p, j) PROVE InTime(p, j)'
  <2>1. j \in Stored
    BY <1>3 DEF Stored
  <2>2. PICK m : m = Min({left[i] : i \in Stored})
    OBVIOUS
  <2>3. m \in Int /\ m <= left[j]
    BY <1>t, <2>1, <2>2, SoonestStored
  <2>4. next'[p] = Latest(0, m + age[p])
    BY <1>t, <2>1, <2>2 DEF AskNext, PromTypeOK
  <2>5. next'[p] <= Latest(0, left[j] + age[p])
    BY <1>f, <2>3, <2>4 DEF Latest
  <2> QED BY <1>1, <1>3, <2>5 DEF InTime
<1> QED BY <1>1, <1>2, <1>3 DEF Keeps

(* A wake-up request brings the timer and the kept wake-up forward only.    *)
LEMMA RequestEffect ==
  ASSUME BaseInv, NEW p \in Promoters, NEW d \in Nat, RequestReschedule(p, d)
  PROVE  /\ \A q \in Promoters : /\ timer'[q] \in Nat /\ timer'[q] <= timer[q]
                                 /\ wake[q] # None => wake'[q] \in Nat /\ wake'[q] # None /\ wake'[q] <= wake[q]
         /\ running[p] /\ stage[p] = "sleeping" => timer'[p] <= Latest(1, d)
         /\ running[p] /\ stage[p] # "sleeping" => wake'[p] \in Nat /\ wake'[p] <= Latest(1, d)
<1> USE Intervals
<1>t. PromTypeOK
  BY BaseType
<1>1. Latest(FastRecheck, d) \in Nat /\ Latest(FastRecheck, d) = Latest(1, d)
  BY DEF Latest, FastRecheck
<1>2. PICK t : t = Latest(FastRecheck, d)
  OBVIOUS
<1>3. CASE ~running[p]
  BY <1>3, <1>t DEF RequestReschedule, PromTypeOK
<1>4. CASE running[p] /\ stage[p] = "sleeping"
  <2>1. timer' = [timer EXCEPT ![p] = Soonest(@, t)] /\ wake' = wake
    BY <1>4, <1>2 DEF RequestReschedule
  <2>2. Soonest(timer[p], t) \in Nat /\ Soonest(timer[p], t) <= t /\ Soonest(timer[p], t) <= timer[p]
    BY <1>t, <1>1, <1>2 DEF Soonest, PromTypeOK
  <2> QED BY <1>4, <1>t, <1>1, <1>2, <2>1, <2>2 DEF PromTypeOK
<1>5. CASE running[p] /\ stage[p] # "sleeping"
  <2>1. wake' = [wake EXCEPT ![p] = Soonest(@, t)] /\ timer' = timer
    BY <1>5, <1>2 DEF RequestReschedule
  <2>2. /\ Soonest(wake[p], t) \in Nat /\ Soonest(wake[p], t) <= t
        /\ wake[p] # None => Soonest(wake[p], t) <= wake[p]
    BY <1>t, <1>1, <1>2 DEF Soonest, PromTypeOK
  <2> QED BY <1>5, <1>t, <1>1, <1>2, <2>1, <2>2 DEF PromTypeOK
<1> QED BY <1>3, <1>4, <1>5

LEMMA AnnounceKeeps ==
  ASSUME BaseInv, NEW p \in Promoters, NEW i \in Jobs, Announce(p, i), NEW j \in Jobs \ excused',
         j \notin excused => Attended(j)
  PROVE  Attended(j)'
<1> USE Intervals
<1>t. PromTypeOK
  BY BaseType
<1>1. PICK d \in Delays : left' = [left EXCEPT ![i] = d] /\ RequestReschedule(p, d)
  BY DEF Announce
<1>2. d \in Nat
  BY PromoterConstantsOK DEF PromoterConstantsOK
<1>3. /\ UNCHANGED <<running, stage, age, list, found, next, wait>>
      /\ job' = [job EXCEPT ![i] = "announced"] /\ home' = [home EXCEPT ![i] = p]
      /\ excused' = (IF running[p] THEN excused ELSE excused \cup {i})
  BY DEF Announce
<1>4. CASE j = i
  <2>1. running[p]
    BY <1>3, <1>4
  <2>2. left'[j] = d /\ home'[j] = p /\ job'[j] = "announced"
    BY <1>1, <1>3, <1>4, <1>t DEF PromTypeOK
  <2>3. Told(p, j)'
    <3>1. stage'[p] = "sleeping" => timer'[p] <= PollingInterval + Latest(left'[j], 0)
      BY <1>1, <1>2, <1>3, <2>1, <2>2, RequestEffect DEF Latest
    <3>2. stage'[p] = "closing" => Called(p, j)'
      BY <1>1, <1>2, <1>3, <2>1, <2>2, RequestEffect DEF Called
    <3> QED BY <3>1, <3>2 DEF Told
  <2> QED BY <1>3, <2>1, <2>2, <2>3 DEF Attended
<1>5. CASE j # i
  <2>1. job'[j] = job[j] /\ home'[j] = home[j] /\ left'[j] = left[j] /\ wait'[j] = wait[j] /\ j \notin excused
    BY <1>1, <1>3, <1>5, <1>t DEF PromTypeOK
  <2>2. ASSUME NEW q \in Promoters PROVE Keeps(q, j)
    <3>f. /\ timer[q] \in Nat /\ wake[q] \in Nat \cup {None} /\ left[j] \in Int /\ wait[j] \in Nat
          /\ timer'[q] \in Nat /\ timer'[q] <= timer[q]
          /\ wake[q] # None => wake'[q] \in Nat /\ wake'[q] # None /\ wake'[q] <= wake[q]
      BY <1>1, <1>2, Fields, RequestEffect
    <3>1. Called(q, j) => Called(q, j)'
      BY <2>1, <3>f DEF Called, Latest
    <3>2. Told(q, j) => Told(q, j)'
      BY <1>3, <2>1, <3>f, <3>1 DEF Told, Latest
    <3>3. InTime(q, j) => InTime(q, j)'
      BY <1>3, <2>1, <3>f, <3>1 DEF InTime, Latest, Cost
    <3> QED BY <1>3, <3>2, <3>3 DEF Keeps
  <2> QED BY <2>1, <2>2, AttendKept
<1> QED BY <1>4, <1>5

LEMMA AttendStep ==
  ASSUME BaseInv, [PromNext]_promVars, NEW j \in Jobs \ excused', j \notin excused => Attended(j)
  PROVE  Attended(j)'
<1> USE Intervals
<1>t. PromTypeOK /\ store \in {"plain", "bulk"}
  BY BaseType, Fields, PromoterConstantsOK DEF PromTypeOK, PromoterConstantsOK
<1>a. ASSUME j \notin excused, job'[j] = job[j], UNCHANGED home, left'[j] = left[j], wait'[j] = wait[j],
             NEW p \in Promoters, \A q \in Promoters : q = p \/ SamePromoter(q), Keeps(p, j)
      PROVE  Attended(j)'
  BY <1>a, SameKeeps, AttendKept
<1>b. ASSUME j \notin excused, job'[j] = job[j], home'[j] = home[j], left'[j] = left[j], wait'[j] = wait[j],
             UNCHANGED promoterVars
      PROVE  Attended(j)'
  BY <1>b, SameKeeps, AttendKept DEF SamePromoter, promoterVars
<1>c. ASSUME NEW J, NEW st, st \notin {"announced", "delayed"}, Depart(J, st)
      PROVE  \/ Attended(j)'
             \/ j \notin excused /\ job'[j] = job[j] /\ left'[j] = left[j] /\ wait'[j] = wait[j]
  <2>1. CASE j \in J
    BY <1>c, <2>1, <1>t DEF Depart, Attended
  <2>2. CASE j \notin J
    BY <1>c, <2>2, <1>t DEF Depart
  <2> QED BY <2>1, <2>2
<1>d. ASSUME job'[j] = job[j], excused' = excused \cup Unpromoted PROVE Attended(j)'
  BY <1>d DEF Unpromoted, Attended
<1>0. CASE UNCHANGED promVars
  BY <1>0, <1>b DEF promVars, jobVars
<1>1. CASE ClockTick
  <2>1. j \notin excused /\ UNCHANGED <<job, home>>
    BY <1>1 DEF ClockTick
  <2> QED BY <1>1, <2>1, TickKeeps, AttendKept
<1>2. ASSUME NEW p \in Promoters, Start(p) PROVE Attended(j)'
  <2>1. j \notin excused /\ UNCHANGED jobVars /\ UNCHANGED wait /\ stage[p] = "off"
    BY <1>2 DEF Start, BeginPass
  <2>2. \A q \in Promoters : q = p \/ SamePromoter(q)
    BY <1>2, <1>t DEF Start, BeginPass, Goto, SamePromoter, PromTypeOK
  <2>3. Keeps(p, j)
    BY <2>1, Fields DEF PassOK, Keeps
  <2> QED BY <1>a, <2>1, <2>2, <2>3 DEF jobVars
<1>3. ASSUME NEW p \in Promoters, Stop(p) PROVE Attended(j)'
  BY <1>3, <1>d DEF Stop, jobVars
<1>4. ASSUME NEW p \in Promoters, Fire(p) PROVE Attended(j)'
  <2>1. j \notin excused /\ UNCHANGED jobVars /\ UNCHANGED wait
    BY <1>4 DEF Fire, BeginPass
  <2>2. \A q \in Promoters : q = p \/ SamePromoter(q)
    BY <1>4, <1>t DEF Fire, BeginPass, Goto, SamePromoter, PromTypeOK
  <2>3. /\ stage[p] = "sleeping" /\ timer[p] = 0 /\ stage'[p] = "listing"
        /\ UNCHANGED <<running, age, jobVars, wait>>
    BY <1>4, <1>t DEF Fire, BeginPass, Goto, PromTypeOK
  <2>4. InTime(p, j) => InTime(p, j)'
    BY <2>3, Fields DEF InTime, Latest, Cost, jobVars
  <2>5. Told(p, j)'
    BY <2>3 DEF Told
  <2> QED BY <1>a, <2>1, <2>2, <2>3, <2>4, <2>5 DEF jobVars, Keeps
<1>5. ASSUME NEW p \in Promoters, PromoteAll(p) PROVE Attended(j)'
  <2> SUFFICES ASSUME j \notin Due(p) PROVE Attended(j)'
    BY <1>5, <1>t DEF PromoteAll, Depart, Attended
  <2>1. j \notin excused /\ job'[j] = job[j] /\ UNCHANGED home /\ left'[j] = left[j] /\ wait'[j] = wait[j]
    BY <1>5, <1>t DEF PromoteAll, Depart
  <2>2. \A q \in Promoters : q = p \/ SamePromoter(q)
    BY <1>5, <1>t DEF PromoteAll, Goto, SamePromoter, PromTypeOK
  <2>3. stage[p] = "listing" /\ stage'[p] = "asking" /\ UNCHANGED <<running, age>>
    BY <1>5, <1>t DEF PromoteAll, Goto, PromTypeOK
  <2>4. job[j] = "delayed" => wait[j] <= age[p]
    BY NotDueYet DEF Due, Stored
  <2>5. job[j] = "delayed" => InTime(p, j)'
    BY <2>1, <2>3, <2>4 DEF InTime
  <2>6. Told(p, j)'
    BY <2>3 DEF Told
  <2> QED BY <1>a, <2>1, <2>2, <2>3, <2>5, <2>6 DEF Keeps
<1>6. ASSUME NEW p \in Promoters, List(p) PROVE Attended(j)'
  <2>1. j \notin excused /\ UNCHANGED jobVars /\ UNCHANGED wait
    BY <1>6 DEF List
  <2>2. \A q \in Promoters : q = p \/ SamePromoter(q)
    BY <1>6, <1>t DEF List, Goto, SamePromoter, PromTypeOK
  <2>3. /\ stage[p] = "listing" /\ stage'[p] = "moving" /\ list'[p] = Due(p)
        /\ UNCHANGED <<running, age, jobVars, wait>>
    BY <1>6, <1>t DEF List, Goto, PromTypeOK
  <2>4. job[j] = "delayed" => (j \in Due(p) <=> left[j] <= -age[p])
    BY DEF Due, Stored
  <2>5. job[j] = "delayed" /\ InTime(p, j) => InTime(p, j)'
    BY <2>3, <2>4, NotDueYet DEF InTime, Cost
  <2>6. Told(p, j)'
    BY <2>3 DEF Told
  <2> QED BY <1>a, <2>1, <2>2, <2>3, <2>5, <2>6 DEF jobVars, Keeps
<1>7. ASSUME NEW p \in Promoters, Move(p) PROVE Attended(j)'
  <2>1. PICK i \in list[p] : list' = [list EXCEPT ![p] = @ \ {i}] /\ Depart({i} \ Gone, "ready")
    BY <1>7 DEF Move
  <2>2. CASE j \in {i} \ Gone
    BY <2>1, <2>2, <1>t DEF Depart, Attended
  <2>3. CASE j \in Gone
    BY <2>1, <2>3, <1>t DEF Depart, Gone, Attended
  <2>4. CASE j # i
    <3>1. j \notin excused /\ job'[j] = job[j] /\ UNCHANGED home /\ left'[j] = left[j] /\ wait'[j] = wait[j]
      BY <1>7, <2>1, <2>4, <1>t DEF Move, Depart
    <3>2. \A q \in Promoters : q = p \/ SamePromoter(q)
      BY <1>7, <1>t DEF Move, SamePromoter, PromTypeOK
    <3>3. /\ UNCHANGED <<running, stage, timer, wake, age, next>> /\ (j \in list'[p] <=> j \in list[p])
          /\ stage[p] = "moving"
      BY <1>7, <2>1, <2>4, <1>t DEF Move, PromTypeOK
    <3>4. InTime(p, j) => InTime(p, j)'
      BY <3>1, <3>3 DEF InTime, Cost
    <3>5. Told(p, j)'
      BY <3>3 DEF Told
    <3> QED BY <1>a, <3>1, <3>2, <3>3, <3>4, <3>5 DEF Keeps
  <2> QED BY <2>2, <2>3, <2>4
<1>8. ASSUME NEW p \in Promoters, MoveRejects(p) PROVE Attended(j)'
  <2>1. PICK i \in list[p] : list' = [list EXCEPT ![p] = @ \ {i}] /\ excused' = excused \cup ({i} \cap Stored)
    BY <1>8 DEF MoveRejects
  <2>2. j \notin excused /\ (j = i => job[j] # "delayed")
    BY <2>1 DEF Stored
  <2>3. \A q \in Promoters : q = p \/ SamePromoter(q)
    BY <1>8, <1>t DEF MoveRejects, SamePromoter, PromTypeOK
  <2>4. /\ UNCHANGED <<jobVars, running, stage, timer, wake, age, next, wait>> /\ stage[p] = "moving"
        /\ (j # i => (j \in list'[p] <=> j \in list[p]))
    BY <1>8, <2>1, <1>t DEF MoveRejects, PromTypeOK
  <2>5. job[j] = "delayed" /\ InTime(p, j) => InTime(p, j)'
    BY <2>2, <2>4 DEF InTime, Cost, jobVars
  <2>6. Told(p, j)'
    BY <2>4 DEF Told
  <2> QED BY <1>a, <2>2, <2>3, <2>4, <2>5, <2>6 DEF jobVars, Keeps
<1>9. ASSUME NEW p \in Promoters, AllMoved(p) PROVE Attended(j)'
  <2>1. j \notin excused /\ UNCHANGED jobVars /\ UNCHANGED wait
    BY <1>9 DEF AllMoved
  <2>2. \A q \in Promoters : q = p \/ SamePromoter(q)
    BY <1>9, <1>t DEF AllMoved, Goto, SamePromoter, PromTypeOK
  <2>3. /\ stage[p] = "moving" /\ stage'[p] = "closing" /\ list[p] = {}
        /\ UNCHANGED <<running, age, next, jobVars, wait>>
    BY <1>9, <1>t DEF AllMoved, Goto, PromTypeOK
  <2>4. next'[p] = None
    BY <2>3, Fields DEF PassOK
  <2>5. InTime(p, j) => InTime(p, j)'
    BY <2>3, <2>4 DEF InTime, jobVars
  <2>6. Told(p, j)'
    BY <2>3, <2>4 DEF Told
  <2> QED BY <1>a, <2>1, <2>2, <2>3, <2>5, <2>6 DEF jobVars, Keeps
<1>10. ASSUME NEW p \in Promoters, AskNext(p) PROVE Attended(j)'
  <2>1. j \notin excused /\ UNCHANGED jobVars /\ UNCHANGED wait
    BY <1>10 DEF AskNext
  <2>2. \A q \in Promoters : q = p \/ SamePromoter(q)
    BY <1>10, <1>t DEF AskNext, Goto, SamePromoter, PromTypeOK
  <2>3. Keeps(p, j)
    BY <1>10, AskKeeps
  <2> QED BY <1>a, <2>1, <2>2, <2>3 DEF jobVars
<1>11. ASSUME NEW p \in Promoters, QueryRejects(p) PROVE Attended(j)'
  BY <1>11, <1>d DEF QueryRejects, jobVars
<1>12. ASSUME NEW p \in Promoters, ClosePass(p) PROVE Attended(j)'
  <2>1. j \notin excused /\ UNCHANGED jobVars /\ UNCHANGED wait
    BY <1>12 DEF ClosePass
  <2>2. \A q \in Promoters : q = p \/ SamePromoter(q)
    BY <1>12, <1>t DEF ClosePass, Goto, SamePromoter, PromTypeOK
  <2>3. Keeps(p, j)
    BY <1>12, CloseKeeps DEF Keeps
  <2> QED BY <1>a, <2>1, <2>2, <2>3 DEF jobVars
<1>13. ASSUME NEW i \in Jobs, NEW p \in Promoters, Announce(p, i) PROVE Attended(j)'
  BY <1>13, AnnounceKeeps
<1>14. ASSUME NEW i \in Jobs, Store(i) PROVE Attended(j)'
  <2>1. j \notin excused /\ UNCHANGED <<promoterVars, left, wait, excused>>
    BY <1>14 DEF Store
  <2>2. CASE j = i
    <3>1. PICK p \in Promoters : running[p] /\ Told(p, j)
      BY <1>14, <2>1, <2>2 DEF Store, Attended
    <3>2. job[j] = "announced" /\ job'[j] = "delayed" /\ wait[j] = 0
      BY <1>14, <2>2, <1>t, Fields DEF Store, ClockOK, PromTypeOK
    <3>f. age[p] \in Nat /\ timer[p] \in Nat /\ left[j] \in Int
      BY Fields
    <3>3. InTime(p, j)
      BY <3>1, <3>2, <3>f DEF InTime, Told, Cost, Latest
    <3>4. InTime(p, j)'
      BY <2>1, <3>3 DEF InTime, Called, Cost, promoterVars
    <3> QED BY <2>1, <3>1, <3>2, <3>4 DEF Attended, promoterVars
  <2>3. CASE j # i
    BY <1>14, <1>b, <2>1, <2>3, <1>t DEF Store, PromTypeOK
  <2> QED BY <2>2, <2>3
<1>15. ASSUME NEW i \in Jobs, StoreUnannounced(i) PROVE Attended(j)'
  <2>1. PICK d \in Delays : left' = [left EXCEPT ![i] = d]
    BY <1>15 DEF StoreUnannounced
  <2>2. CASE j = i
    <3>1. store = "plain" /\ Served
      BY <1>15, <2>2, <1>t DEF StoreUnannounced
    <3>2. PICK p \in Promoters : running[p]
      BY <3>1 DEF Served
    <3>3. job'[j] = "delayed" /\ job[j] = "new" /\ left'[j] = d /\ wait'[j] = 0 /\ UNCHANGED promoterVars
      BY <1>15, <2>1, <2>2, <1>t, Fields DEF StoreUnannounced, ClockOK, PromTypeOK
    <3>f. /\ age[p] \in Nat /\ timer[p] \in Nat /\ timer[p] <= PollingInterval
          /\ next[p] = None /\ d \in Int
      BY <3>1, Fields, PromoterConstantsOK DEF PassOK, PromoterConstantsOK
    <3>4. InTime(p, j)'
      BY <3>3, <3>f DEF InTime, Cost, Latest, promoterVars
    <3> QED BY <3>2, <3>3, <3>4 DEF Attended, promoterVars
  <2>3. CASE j # i
    BY <1>15, <1>b, <2>1, <2>3, <1>t DEF StoreUnannounced, PromTypeOK
  <2> QED BY <2>2, <2>3
<1>16. ASSUME NEW i \in Jobs, LeaseJob(i) \/ Settle(i) \/ PromoteJob(i) \/ RemoveJob(i) PROVE Attended(j)'
  BY <1>16, <1>b, <1>c DEF LeaseJob, Settle, PromoteJob, RemoveJob, SetJob
<1> QED
  BY <1>0, <1>1, <1>2, <1>3, <1>4, <1>5, <1>6, <1>7, <1>8, <1>9, <1>10, <1>11, <1>12, <1>13,
     <1>14, <1>15, <1>16 DEF PromNext, PassStep

(* The bound, from who looks after the job.                                 *)
LEMMA AttendInTime == AttendInv => PromotedInTime
<1> USE Intervals
<1> SUFFICES ASSUME AttendInv, NEW j \in Stored \ excused PROVE wait[j] <= Slack
  BY DEF PromotedInTime
<1>1. j \in Jobs /\ job[j] = "delayed"
  BY DEF Stored
<1>2. PICK p \in Promoters : running[p] /\ InTime(p, j)
  BY <1>1 DEF AttendInv, Attended
<1>3. stage[p] # "off"
  BY <1>1, <1>2, Fields DEF AttendInv, PassOK
<1>4. wait[j] <= Cost + MaxTick
  BY <1>1, <1>2, <1>3, Fields, NotDueYet DEF AttendInv, InTime, ClockOK, Latest, Cost
<1> QED BY <1>4, <1>1, Fields DEF Slack, Cost, AttendInv

(* Every delayed job that a promoter was told of, or that is in a store     *)
(* that is polled, becomes ready within a polling interval and two passes   *)
(* of its due time, as long as no store call was rejected for it and no     *)
(* promoter stopped while it waited (scheduled-job-promoter.ts: the timer,  *)
(* the wake-up kept during a pass, the delay reckoned from its start).      *)
THEOREM Punctual == PromSpec => []PromotedInTime
<1>1. PromInit => AttendInv
  BY BaseInit DEF PromInit, AttendInv, Attended
<1>2. AttendInv /\ [PromNext]_promVars => AttendInv'
  BY BaseStep, AttendStep DEF AttendInv
<1> QED BY <1>1, <1>2, AttendInTime, PTL DEF PromSpec

-----------------------------------------------------------------------------
(* Memory.  A pass carries a job when the job is due for it or on its list: *)
(* even a stopped promoter then makes it ready before the pass ends, unless *)
(* a store call rejects.  What was rejected is paid for from the budget.    *)
Carries(p, j) == \/ stage[p] = "listing" /\ left[j] <= -age[p]
                 \/ stage[p] = "moving" /\ j \in list[p]

Carried(j, bound) == \E p \in Promoters : Carries(p, j) /\ wait[j] + MaxTick - age[p] + Budget <= bound

(* A pass that does not carry the job began before the job was due, ...     *)
Fresh(p, j) == wait[j] <= age[p] /\ (next[p] # None => next[p] <= Longest + age[p] - wait[j])

(* ... or was rejected, and then a call less can be.                        *)
Spared(p, j) ==
  /\ next[p] = None
  /\ \/ wait[j] + MaxTick - age[p] + Budget <= Patience - Cost
     \/ Carried(j, Patience - Cost)

Bounded(p, j) ==
  /\ stage[p] = "sleeping" => wait[j] + timer[p] + MaxTick + Budget <= Patience
  /\ stage[p] = "asking" => Fresh(p, j)
  /\ stage[p] = "closing" \/ (stage[p] = "moving" /\ j \notin list[p]) => Fresh(p, j) \/ Spared(p, j)

InPatience(j) == wait[j] + MaxTick + Budget <= Patience \/ Carried(j, Patience)

Remembered(j) == InPatience(j) /\ \A p \in Promoters : Bounded(p, j)

MemoryInv == BaseInv /\ \A j \in Jobs : Remembered(j)

(* The numbers these formulas relate.                                       *)
LEMMA Numbers ==
  ASSUME BaseInv
  PROVE  /\ Budget \in Nat /\ Patience \in Nat /\ Longest \in Nat /\ Cost \in Nat
         /\ PollingInterval + 2 * MaxTick + Longest + Budget <= Patience
BY BaseType, BudgetType, PatienceType, LongestType, Intervals

(* Whoever carries the job goes on, and the job has not waited for longer.  *)
CarriersKept(j) ==
  /\ wait'[j] \in Nat /\ wait'[j] <= wait[j] /\ Budget' \in Nat /\ Budget' <= Budget
  /\ \A p \in Promoters : Carries(p, j) => Carries(p, j)' /\ age'[p] = age[p]

LEMMA CarriedKept ==
  ASSUME BaseInv, NEW j \in Jobs, CarriersKept(j), NEW bound \in Int, Carried(j, bound)
  PROVE  Carried(j, bound)'
<1>1. PICK p \in Promoters : Carries(p, j) /\ wait[j] + MaxTick - age[p] + Budget <= bound
  BY DEF Carried
<1>2. Carries(p, j)' /\ age'[p] = age[p]
  BY <1>1 DEF CarriersKept
<1>3. wait'[j] + MaxTick - age'[p] + Budget' <= bound
  BY <1>1, <1>2, Fields, Numbers, Intervals DEF CarriersKept
<1> QED BY <1>2, <1>3 DEF Carried

SamePass(p, j) ==
  /\ UNCHANGED <<age[p], next[p]>> /\ timer'[p] \in Nat /\ timer'[p] <= timer[p]
  /\ j \in list'[p] <=> j \in list[p]
  /\ \/ stage'[p] = stage[p]
     \/ stage[p] = "moving" /\ j \notin list[p] /\ stage'[p] = "closing"

(* Frame: what a step must show of the promoters it moves.                  *)
LEMMA RememberKept ==
  ASSUME BaseInv, NEW j \in Jobs, Remembered(j), CarriersKept(j),
         \A p \in Promoters : SamePass(p, j) \/ Bounded(p, j)'
  PROVE  Remembered(j)'
<1> USE Intervals
<1>n. /\ Budget \in Nat /\ Patience \in Nat /\ Cost \in Nat /\ wait[j] \in Nat /\ Longest \in Nat
      /\ UNCHANGED <<Patience, Cost, Longest>>
  BY Numbers, Fields DEF Patience, Cost, Longest, Slack, BaseInv, PromTypeOK
<1>c. wait'[j] \in Nat /\ wait'[j] <= wait[j] /\ Budget' \in Nat /\ Budget' <= Budget
  BY DEF CarriersKept
<1>1. InPatience(j)'
  <2>1. CASE wait[j] + MaxTick + Budget <= Patience
    BY <1>n, <1>c, <2>1 DEF InPatience
  <2>2. CASE Carried(j, Patience)
    <3>1. Carried(j, Patience)'
      BY <1>n, <2>2, CarriedKept
    <3> QED BY <3>1 DEF InPatience
  <2> QED BY <2>1, <2>2 DEF Remembered, InPatience
<1>2. ASSUME NEW p \in Promoters, SamePass(p, j)
      PROVE  Bounded(p, j)'
  <2>f. timer[p] \in Nat /\ age[p] \in Nat /\ next[p] \in Nat \cup {None}
    BY Fields
  <2>b. Bounded(p, j)
    BY DEF Remembered
  <2>1. stage'[p] = "sleeping" => wait'[j] + timer'[p] + MaxTick + Budget' <= Patience'
    BY <1>2, <1>n, <1>c, <2>f, <2>b DEF SamePass, Bounded
  <2>2. Fresh(p, j) => Fresh(p, j)'
    BY <1>2, <1>n, <1>c, <2>f DEF SamePass, Fresh
  <2>3. Spared(p, j) => Spared(p, j)'
    <3>1. Carried(j, Patience - Cost) => Carried(j, Patience - Cost)'
      BY <1>n, CarriedKept
    <3> QED BY <1>2, <1>n, <1>c, <2>f, <3>1 DEF SamePass, Spared
  <2> QED BY <1>2, <2>1, <2>2, <2>3, <2>b DEF SamePass, Bounded
<1> QED BY <1>1, <1>2 DEF Remembered

(* A job that has not waited needs nobody to carry it.                      *)
LEMMA RememberIdle ==
  ASSUME BaseInv, BaseInv', NEW j \in Jobs, Remembered(j), wait'[j] = 0, Budget' <= Budget,
         \A p \in Promoters : stage'[p] = "sleeping" => stage[p] = "sleeping" /\ timer'[p] <= timer[p]
  PROVE  Remembered(j)'
<1> USE Intervals
<1>n. /\ Budget \in Nat /\ Budget' \in Nat /\ Patience \in Nat /\ Longest \in Nat /\ wait[j] \in Nat
      /\ UNCHANGED <<Patience, Cost, Longest>>
      /\ PollingInterval + 2 * MaxTick + Longest + Budget <= Patience
  <2>1. Budget' \in Nat
    BY BudgetRange DEF BaseInv, PromTypeOK, Budget, Cost
  <2>2. UNCHANGED <<Patience, Cost, Longest>>
    BY DEF Patience, Cost, Longest, Slack
  <2>3. wait[j] \in Nat
    BY DEF BaseInv, PromTypeOK
  <2> QED BY <2>1, <2>2, <2>3, Numbers
<1>1. InPatience(j)'
  BY <1>n DEF InPatience
<1>2. ASSUME NEW p \in Promoters PROVE Bounded(p, j)'
  <2>f. /\ timer[p] \in Nat /\ timer'[p] \in Nat /\ age'[p] \in Nat /\ next'[p] \in Nat \cup {None}
        /\ next'[p] # None => next'[p] <= Longest + age'[p]
    BY <1>n, Fields DEF BaseInv, PassOK, PromTypeOK
  <2>1. stage'[p] = "sleeping" => wait'[j] + timer'[p] + MaxTick + Budget' <= Patience'
    <3> SUFFICES ASSUME stage'[p] = "sleeping" PROVE timer'[p] + MaxTick + Budget' <= Patience
      BY <1>n, <2>f
    <3>1. stage[p] = "sleeping" /\ timer'[p] <= timer[p]
      OBVIOUS
    <3>2. wait[j] + timer[p] + MaxTick + Budget <= Patience
      BY <3>1 DEF Remembered, Bounded
    <3> QED BY <1>n, <2>f, <3>1, <3>2
  <2>2. Fresh(p, j)'
    BY <1>n, <2>f DEF Fresh
  <2> QED BY <2>1, <2>2 DEF Bounded
<1> QED BY <1>1, <1>2 DEF Remembered

(* A rejected call: the pass of p no longer carries the job, and what the   *)
(* job may yet wait for is paid for from the budget.                        *)
LEMMA RememberRejected ==
  ASSUME BaseInv, NEW j \in Jobs, Remembered(j), NEW p \in Promoters,
         wait'[j] = wait[j], Budget' = Budget - Cost, Budget' \in Nat,
         \A q \in Promoters : q # p => SamePass(q, j) /\ (Carries(q, j) => Carries(q, j)'),
         UNCHANGED age, stage'[p] \in {"moving", "closing"}, next'[p] = None
  PROVE  Remembered(j)'
<1> USE Intervals
<1>n. /\ Budget \in Nat /\ Patience \in Nat /\ Cost \in Nat /\ wait[j] \in Nat /\ Longest \in Nat
      /\ \A q \in Promoters : age[q] \in Nat /\ age[q] <= MaxTick
  <2>1. \A q \in Promoters : age[q] \in Nat /\ age[q] <= MaxTick
    BY Fields
  <2> QED BY <2>1, Numbers, Fields
<1>u. UNCHANGED <<Patience, Cost, Longest>>
  BY DEF Patience, Cost, Longest, Slack
<1>1. ASSUME NEW bound \in Int, Carried(j, bound)
      PROVE  wait[j] + Budget' + Cost <= bound
  <2>1. PICK q \in Promoters : wait[j] + MaxTick - age[q] + Budget <= bound
    BY <1>1 DEF Carried
  <2> QED BY <1>n, <2>1
<1>2. ASSUME NEW bound \in Int, Carried(j, bound)
      PROVE  wait[j] + MaxTick - age[p] + Budget' <= bound - Cost \/ Carried(j, bound - Cost)'
  <2>1. PICK q \in Promoters : Carries(q, j) /\ wait[j] + MaxTick - age[q] + Budget <= bound
    BY <1>2 DEF Carried
  <2>2. CASE q = p
    BY <1>n, <2>1, <2>2
  <2>3. CASE q # p
    <3>1. Carries(q, j)' /\ wait'[j] + MaxTick - age'[q] + Budget' <= bound - Cost
      BY <1>n, <2>1, <2>3
    <3> QED BY <3>1, <1>u DEF Carried
  <2> QED BY <2>2, <2>3
<1>3. wait[j] + Budget' + Cost <= Patience
  BY <1>n, <1>1 DEF Remembered, InPatience
<1>4. InPatience(j)'
  BY <1>n, <1>u, <1>3 DEF InPatience
<1>5. Spared(p, j)'
  <2>1. CASE wait[j] + MaxTick + Budget <= Patience
    BY <1>n, <1>u, <2>1 DEF Spared
  <2>2. CASE Carried(j, Patience)
    <3>1. wait[j] + MaxTick - age[p] + Budget' <= Patience - Cost \/ Carried(j, Patience - Cost)'
      BY <1>n, <1>2, <2>2
    <3> QED BY <1>n, <1>u, <3>1 DEF Spared
  <2> QED BY <2>1, <2>2 DEF Remembered, InPatience
<1>6. ASSUME NEW q \in Promoters, q # p
      PROVE  Bounded(q, j)'
  <2>f. timer[q] \in Nat /\ age[q] \in Nat /\ age[q] <= MaxTick /\ next[q] \in Nat \cup {None}
    BY Fields
  <2>b. Bounded(q, j) /\ SamePass(q, j)
    BY <1>6 DEF Remembered
  <2>1. stage'[q] = "sleeping" => wait'[j] + timer'[q] + MaxTick + Budget' <= Patience'
    BY <1>n, <1>u, <2>f, <2>b DEF SamePass, Bounded
  <2>2. Fresh(q, j) => Fresh(q, j)'
    BY <1>n, <1>u, <2>f, <2>b DEF SamePass, Fresh
  <2>3. Spared(q, j) => Spared(q, j)'
    <3>1. CASE wait[j] + MaxTick - age[q] + Budget <= Patience - Cost
      BY <1>n, <1>u, <2>f, <2>b, <3>1 DEF SamePass, Spared
    <3>2. CASE Carried(j, Patience - Cost)
      <4>1. wait[j] + Budget' + Cost <= Patience - Cost
        BY <1>n, <1>1, <3>2
      <4> QED BY <1>n, <1>u, <2>f, <2>b, <4>1 DEF SamePass, Spared, Cost
    <3> QED BY <3>1, <3>2 DEF Spared
  <2> QED BY <2>1, <2>2, <2>3, <2>b DEF SamePass, Bounded
<1>7. Bounded(p, j)'
  BY <1>5 DEF Bounded
<1> QED BY <1>4, <1>6, <1>7 DEF Remembered

(* The clock: a stored job that is due has waited a unit longer.  Somebody  *)
(* runs then, and the pass or the timer of whoever runs has a unit less.    *)
LEMMA RememberTick ==
  ASSUME BaseInv, BaseInv', ClockTick, NEW j \in Jobs, Remembered(j)
  PROVE  Remembered(j)'
<1> USE Intervals
<1>n. /\ Budget \in Nat /\ Patience \in Nat /\ Cost \in Nat /\ wait[j] \in Nat /\ Longest \in Nat
      /\ PollingInterval + 2 * MaxTick + Longest + Budget <= Patience
      /\ left[j] \in Int /\ ClockOK(j)
  <2>1. wait[j] \in Nat /\ left[j] \in Int /\ ClockOK(j)
    BY DEF BaseInv, PromTypeOK
  <2> QED BY <2>1, Numbers
<1>u. UNCHANGED <<Patience, Cost, Longest, Budget>>
  BY DEF Patience, Cost, Longest, Slack, Budget, ClockTick
<1>p. \A p \in Promoters :
        /\ stage[p] = "sleeping" => timer[p] > 0
        /\ Passing(p) => age[p] < MaxTick
        /\ timer'[p] = IF stage[p] = "sleeping" THEN timer[p] - 1 ELSE timer[p]
        /\ age'[p] = IF Passing(p) THEN age[p] + 1 ELSE age[p]
        /\ UNCHANGED <<running[p], stage[p], list[p], next[p]>>
        /\ timer[p] \in Nat /\ age[p] \in Nat /\ next[p] \in Nat \cup {None}
  BY Fields DEF ClockTick
<1>w. wait'[j] = IF j \in Stored /\ left[j] <= 0 /\ Served /\ wait[j] <= Patience THEN wait[j] + 1 ELSE wait[j]
  BY DEF ClockTick
<1>1. CASE job[j] # "delayed"
  <2>1. wait'[j] = 0
    BY <1>1, <1>n, <1>w DEF Stored, ClockOK
  <2> QED BY <1>p, <1>u, <1>n, <2>1, RememberIdle
<1>2. CASE job[j] = "delayed"
  <2>1. left'[j] = Latest(left[j] - 1, -MaxTick)
    BY <1>2 DEF ClockTick, Unpromoted
  <2>2. wait'[j] \in {wait[j], wait[j] + 1}
    BY <1>w
  <2>3. ASSUME NEW p \in Promoters, Carries(p, j)
        PROVE  Carries(p, j)' /\ age'[p] = age[p] + 1
    <3>1. Passing(p)
      BY <2>3 DEF Carries, Passing
    <3>2. age'[p] = age[p] + 1 /\ age[p] < MaxTick
      BY <1>p, <3>1
    <3> QED BY <1>n, <1>p, <2>1, <2>3, <3>2 DEF Carries, Latest
  <2>4. ASSUME NEW bound \in Int, Carried(j, bound)
        PROVE  Carried(j, bound)'
    <3>1. PICK p \in Promoters : Carries(p, j) /\ wait[j] + MaxTick - age[p] + Budget <= bound
      BY <2>4 DEF Carried
    <3>2. Carries(p, j)' /\ age'[p] = age[p] + 1
      BY <2>3, <3>1
    <3>3. wait'[j] + MaxTick - age'[p] + Budget' <= bound
      BY <1>n, <1>p, <1>u, <2>2, <3>1, <3>2
    <3> QED BY <3>2, <3>3 DEF Carried
  <2>5. ASSUME NEW p \in Promoters
        PROVE  /\ Bounded(p, j)'
               /\ running[p] => wait[j] + 1 + MaxTick + Budget <= Patience \/ Carried(j, Patience)'
    <3>b. Bounded(p, j)
      BY DEF Remembered
    <3>f. /\ timer[p] \in Nat /\ age[p] \in Nat /\ age[p] <= MaxTick /\ next[p] \in Nat \cup {None}
          /\ running[p] => stage[p] # "off"
          /\ stage[p] \in {"off", "sleeping", "listing", "moving", "asking", "closing"}
      BY Fields DEF PassOK
    <3>1. Fresh(p, j) /\ Passing(p) => Fresh(p, j)'
      BY <1>n, <1>p, <1>u, <2>2, <3>f DEF Fresh
    <3>2. Spared(p, j) /\ Passing(p) => Spared(p, j)'
      <4>1. Carried(j, Patience - Cost) => Carried(j, Patience - Cost)'
        BY <1>n, <2>4
      <4> QED BY <1>n, <1>p, <1>u, <2>2, <3>f, <4>1 DEF Spared
    <3>3. stage'[p] = "sleeping" => wait'[j] + timer'[p] + MaxTick + Budget' <= Patience'
      BY <1>n, <1>p, <1>u, <2>2, <3>b, <3>f DEF Bounded
    <3>4. Bounded(p, j)'
      BY <1>p, <3>1, <3>2, <3>3, <3>b DEF Bounded, Passing
    <3>5. ASSUME running[p]
          PROVE  wait[j] + 1 + MaxTick + Budget <= Patience \/ Carried(j, Patience)'
      <4>1. CASE stage[p] = "sleeping"
        BY <1>n, <1>p, <3>b, <3>f, <4>1 DEF Bounded
      <4>2. ASSUME Passing(p), wait[j] <= age[p]
            PROVE  wait[j] + 1 + MaxTick + Budget <= Patience
        BY <1>n, <1>p, <3>f, <4>2
      <4>3. ASSUME Passing(p), Spared(p, j)
            PROVE  wait[j] + 1 + MaxTick + Budget <= Patience \/ Carried(j, Patience)'
        <5>1. CASE wait[j] + MaxTick - age[p] + Budget <= Patience - Cost
          BY <1>n, <1>p, <3>f, <4>3, <5>1 DEF Cost
        <5>2. CASE Carried(j, Patience - Cost)
          <6>1. PICK q \in Promoters : Carries(q, j) /\ wait[j] + MaxTick - age[q] + Budget <= Patience - Cost
            BY <5>2 DEF Carried
          <6>2. wait[j] + MaxTick - age[q] + Budget <= Patience
            BY <1>n, <1>p, <6>1
          <6>3. Carried(j, Patience)
            BY <6>1, <6>2 DEF Carried
          <6> QED BY <1>n, <2>4, <6>3
        <5> QED BY <4>3, <5>1, <5>2 DEF Spared
      <4>4. ASSUME Carries(p, j)
            PROVE  wait[j] + 1 + MaxTick + Budget <= Patience \/ Carried(j, Patience)'
        <5>1. CASE wait[j] + MaxTick + Budget <= Patience
          <6>1. wait[j] + MaxTick - age[p] + Budget <= Patience
            BY <1>n, <3>f, <5>1
          <6>2. Carried(j, Patience)
            BY <4>4, <6>1 DEF Carried
          <6> QED BY <1>n, <2>4, <6>2
        <5>2. CASE Carried(j, Patience)
          BY <1>n, <2>4, <5>2
        <5> QED BY <5>1, <5>2 DEF Remembered, InPatience
      <4>5. stage[p] = "listing" /\ ~Carries(p, j) => wait[j] <= age[p]
        BY NotDueYet DEF Carries
      <4>6. stage[p] \in {"asking", "closing"} \/ (stage[p] = "moving" /\ ~Carries(p, j)) =>
              wait[j] <= age[p] \/ Spared(p, j)
        BY <3>b DEF Bounded, Fresh, Carries
      <4> QED BY <3>f, <3>5, <4>1, <4>2, <4>3, <4>4, <4>5, <4>6 DEF Passing
    <3> QED BY <3>4, <3>5
  <2>6. InPatience(j)'
    <3>1. CASE Carried(j, Patience)
      BY <1>n, <1>u, <2>4, <3>1 DEF InPatience
    <3>2. CASE wait[j] + MaxTick + Budget <= Patience /\ ~Served
      BY <1>n, <1>u, <1>w, <3>2 DEF InPatience
    <3>3. CASE Served
      <4>1. PICK p \in Promoters : running[p]
        BY <3>3 DEF Served
      <4> QED BY <1>n, <1>u, <2>2, <2>5, <4>1 DEF InPatience
    <3> QED BY <3>1, <3>2, <3>3 DEF Remembered, InPatience
  <2> QED BY <2>5, <2>6 DEF Remembered
<1> QED BY <1>1, <1>2

(* The question when the next job is due covers the job.                    *)
LEMMA AskFresh ==
  ASSUME BaseInv, NEW p \in Promoters, NEW j \in Jobs, AskNext(p), Fresh(p, j)
  PROVE  Fresh(p, j)'
<1> USE Intervals
<1>n. /\ Longest \in Nat /\ wait[j] \in Nat /\ left[j] \in Int /\ age[p] \in Nat /\ age[p] <= MaxTick
      /\ wait[j] <= age[p] /\ ClockOK(j)
      /\ next'[p] = IF Stored = {} THEN None ELSE Latest(0, Min({left[i] : i \in Stored}) + age[p])
      /\ UNCHANGED <<wait, age, Longest>>
  BY LongestType, Fields DEF Fresh, AskNext, BaseInv, PromTypeOK, Longest
<1>1. CASE Stored = {}
  BY <1>n, <1>1 DEF Fresh
<1>2. CASE Stored # {}
  <2>1. PICK m : m = Min({left[i] : i \in Stored})
    OBVIOUS
  <2>2. PICK i \in Stored : m = left[i]
    BY <1>2, <2>1, BaseType, SoonestStored
  <2>3. m \in Int /\ m <= Longest
    BY <2>2, Fields DEF Stored, ClockOK
  <2>4. next'[p] = Latest(0, m + age[p])
    BY <1>n, <1>2, <2>1
  <2>5. CASE wait[j] = 0
    BY <1>n, <2>3, <2>4, <2>5 DEF Fresh, Latest
  <2>6. CASE wait[j] # 0
    <3>1. j \in Stored
      BY <1>n, <2>6 DEF ClockOK, Stored
    <3>2. m <= left[j]
      BY <1>2, <2>1, <3>1, BaseType, SoonestStored
    <3>3. wait[j] <= -left[j] \/ left[j] = -MaxTick
      BY <1>n, <2>6 DEF ClockOK
    <3> QED BY <1>n, <2>3, <2>4, <3>2, <3>3 DEF Fresh, Latest
  <2> QED BY <2>5, <2>6
<1> QED BY <1>1, <1>2

(* The end of a pass: the timer leaves enough of the patience.              *)
LEMMA CloseBounded ==
  ASSUME BaseInv, NEW p \in Promoters, NEW j \in Jobs, ClosePass(p), Remembered(j)
  PROVE  Bounded(p, j)'
<1> USE Intervals
<1>n. /\ Budget \in Nat /\ Patience \in Nat /\ Cost \in Nat /\ wait[j] \in Nat /\ Longest \in Nat
      /\ PollingInterval + 2 * MaxTick + Longest + Budget <= Patience
  <2>1. wait[j] \in Nat
    BY Fields
  <2> QED BY <2>1, Numbers
<1>f. \A q \in Promoters : age[q] \in Nat /\ age[q] <= MaxTick /\ next[q] \in Nat \cup {None}
  BY Fields
<1>u. UNCHANGED <<Patience, Cost, Longest, Budget>>
  BY DEF Patience, Cost, Longest, Slack, Budget, ClosePass
<1>t. PromTypeOK
  BY BaseType
<1>1. /\ stage[p] = "closing" /\ stage'[p] \in {"sleeping", "off"}
      /\ stage'[p] = "sleeping" => timer'[p] = NextDelay(p)
      /\ wait'[j] = wait[j]
  BY <1>t DEF ClosePass, Goto, PromTypeOK
<1>2. /\ NextDelay(p) \in Nat
      /\ next[p] = None => NextDelay(p) <= PollingInterval
      /\ next[p] # None => NextDelay(p) <= PollingInterval \/ NextDelay(p) <= next[p]
  BY <1>t, NextDelayType
<1>3. wait[j] + NextDelay(p) + MaxTick + Budget <= Patience
  <2>1. CASE Fresh(p, j)
    BY <1>n, <1>f, <1>2, <2>1 DEF Fresh
  <2>2. CASE Spared(p, j)
    <3>1. NextDelay(p) <= PollingInterval
      BY <1>2, <2>2 DEF Spared
    <3>2. wait[j] + Budget <= Patience - Cost
      <4>1. CASE wait[j] + MaxTick - age[p] + Budget <= Patience - Cost
        BY <1>n, <1>f, <4>1
      <4>2. CASE Carried(j, Patience - Cost)
        <5>1. PICK q \in Promoters : wait[j] + MaxTick - age[q] + Budget <= Patience - Cost
          BY <4>2 DEF Carried
        <5> QED BY <1>n, <1>f, <5>1
      <4> QED BY <2>2, <4>1, <4>2 DEF Spared
    <3> QED BY <1>n, <1>2, <3>1, <3>2 DEF Cost
  <2> QED BY <1>1, <2>1, <2>2 DEF Remembered, Bounded
<1> QED BY <1>n, <1>u, <1>1, <1>3 DEF Bounded

LEMMA MemoryStep ==
  ASSUME BaseInv, [PromNext]_promVars, NEW j \in Jobs, Remembered(j)
  PROVE  Remembered(j)'
<1> USE Intervals
<1>t. PromTypeOK
  BY BaseType
<1>b. BaseInv'
  BY BaseStep
<1>n. Budget \in Nat /\ wait[j] \in Nat /\ \A q \in Promoters : timer[q] \in Nat
  <2>1. wait[j] \in Nat /\ \A q \in Promoters : timer[q] \in Nat
    BY <1>t DEF PromTypeOK
  <2> QED BY <2>1, Numbers
<1>r. UNCHANGED rejects => Budget' = Budget
  BY DEF Budget, Cost
<1>i. ASSUME wait'[j] = 0, UNCHANGED rejects,
             \A q \in Promoters : stage'[q] = "sleeping" => stage[q] = "sleeping" /\ timer'[q] <= timer[q]
      PROVE  Remembered(j)'
  BY <1>i, <1>b, <1>n, <1>r, RememberIdle
<1>k. ASSUME wait'[j] = wait[j], left'[j] = left[j], UNCHANGED <<rejects, age>>,
             NEW p \in Promoters, SamePass(p, j) \/ Bounded(p, j)', Carries(p, j) => Carries(p, j)',
             \A q \in Promoters : q # p => SamePromoter(q)
      PROVE  Remembered(j)'
  <2>1. \A q \in Promoters : q # p => SamePass(q, j) /\ (Carries(q, j) => Carries(q, j)')
    BY <1>k, <1>n DEF SamePromoter, SamePass, Carries
  <2>2. CarriersKept(j)
    BY <1>k, <1>n, <1>r, <2>1 DEF CarriersKept
  <2>3. \A q \in Promoters : SamePass(q, j) \/ Bounded(q, j)'
    BY <1>k, <2>1
  <2> QED BY <2>2, <2>3, RememberKept
<1>s. ASSUME wait'[j] = wait[j], left'[j] = left[j], UNCHANGED <<promoterVars, rejects>>
      PROVE  Remembered(j)'
  <2>1. \A q \in Promoters : SamePass(q, j) /\ (Carries(q, j) => Carries(q, j)')
    BY <1>s, <1>n DEF promoterVars, SamePass, Carries
  <2>2. CarriersKept(j)
    BY <1>s, <1>n, <1>r, <2>1 DEF CarriersKept, promoterVars
  <2> QED BY <2>1, <2>2, RememberKept
<1>d. ASSUME NEW J, NEW st, Depart(J, st)
      PROVE  wait'[j] = 0 \/ (j \notin J /\ wait'[j] = wait[j] /\ left'[j] = left[j])
  BY <1>d DEF Depart
<1>z. job[j] # "delayed" => wait[j] = 0
  BY DEF BaseInv, ClockOK
<1>0. CASE UNCHANGED promVars
  BY <1>0, <1>s DEF promVars, jobVars
<1>1. CASE ClockTick
  BY <1>1, <1>b, RememberTick
<1>2. ASSUME NEW p \in Promoters, Start(p) PROVE Remembered(j)'
  <2>1. UNCHANGED <<wait, left, rejects, age>>
    BY <1>2 DEF Start, BeginPass, jobVars
  <2>2. \A q \in Promoters : q # p => SamePromoter(q)
    BY <1>2, <1>t DEF Start, BeginPass, Goto, SamePromoter, PromTypeOK
  <2>3. stage[p] = "off" /\ stage'[p] = "listing"
    BY <1>2, <1>t DEF Start, BeginPass, Goto, PromTypeOK
  <2>4. Bounded(p, j)' /\ ~Carries(p, j)
    BY <2>3 DEF Bounded, Carries
  <2> QED BY <1>k, <2>1, <2>2, <2>4
<1>3. ASSUME NEW p \in Promoters, Stop(p) PROVE Remembered(j)'
  <2>1. UNCHANGED <<wait, left, rejects, age>>
    BY <1>3 DEF Stop, jobVars
  <2>2. \A q \in Promoters : q # p => SamePromoter(q)
    BY <1>3, <1>t DEF Stop, Goto, SamePromoter, PromTypeOK
  <2>3. /\ UNCHANGED <<age, next, list>> /\ timer'[p] = 0
        /\ stage'[p] = (IF Passing(p) THEN stage[p] ELSE "off")
    BY <1>3, <1>t DEF Stop, Goto, PromTypeOK
  <2>4. CASE Passing(p)
    <3>1. SamePass(p, j) /\ (Carries(p, j) => Carries(p, j)')
      BY <1>n, <2>1, <2>3, <2>4 DEF SamePass, Carries
    <3> QED BY <1>k, <2>1, <2>2, <3>1
  <2>5. CASE ~Passing(p)
    <3>1. Bounded(p, j)' /\ ~Carries(p, j)
      BY <2>3, <2>5 DEF Bounded, Carries, Passing
    <3> QED BY <1>k, <2>1, <2>2, <3>1
  <2> QED BY <2>4, <2>5
<1>4. ASSUME NEW p \in Promoters, Fire(p) PROVE Remembered(j)'
  <2>1. UNCHANGED <<wait, left, rejects, age>>
    BY <1>4 DEF Fire, BeginPass, jobVars
  <2>2. \A q \in Promoters : q # p => SamePromoter(q)
    BY <1>4, <1>t DEF Fire, BeginPass, Goto, SamePromoter, PromTypeOK
  <2>3. stage[p] = "sleeping" /\ stage'[p] = "listing"
    BY <1>4, <1>t DEF Fire, BeginPass, Goto, PromTypeOK
  <2>4. Bounded(p, j)' /\ ~Carries(p, j)
    BY <2>3 DEF Bounded, Carries
  <2> QED BY <1>k, <2>1, <2>2, <2>4
<1>5. ASSUME NEW p \in Promoters, PromoteAll(p) PROVE Remembered(j)'
  <2>1. UNCHANGED <<rejects, age, next, timer>> /\ Depart(Due(p), "ready")
    BY <1>5 DEF PromoteAll
  <2>2. \A q \in Promoters : q # p => SamePromoter(q)
    BY <1>5, <1>t DEF PromoteAll, Goto, SamePromoter, PromTypeOK
  <2>3. stage[p] = "listing" /\ stage'[p] = "asking"
    BY <1>5, <1>t DEF PromoteAll, Goto, PromTypeOK
  <2>4. CASE wait'[j] = 0
    <3>1. \A q \in Promoters : stage'[q] = "sleeping" => stage[q] = "sleeping" /\ timer'[q] <= timer[q]
      BY <1>n, <2>1, <2>2, <2>3 DEF SamePromoter
    <3> QED BY <1>i, <2>1, <2>4, <3>1
  <2>5. CASE wait'[j] # 0
    <3>1. j \notin Due(p) /\ wait'[j] = wait[j] /\ left'[j] = left[j]
      BY <1>d, <2>1, <2>5
    <3>2. ~ (left[j] <= -age[p])
      BY <1>z, <2>5, <3>1 DEF Due, Stored
    <3>3. Fresh(p, j)' /\ ~Carries(p, j)
      BY <2>1, <2>3, <3>1, <3>2, NotDueYet, Fields DEF Fresh, Carries, PassOK
    <3>4. Bounded(p, j)'
      BY <2>3, <3>3 DEF Bounded
    <3> QED BY <1>k, <2>1, <2>2, <3>1, <3>3, <3>4
  <2> QED BY <2>4, <2>5
<1>6. ASSUME NEW p \in Promoters, List(p) PROVE Remembered(j)'
  <2>1. UNCHANGED <<wait, left, rejects, age, next, timer>>
    BY <1>6 DEF List, jobVars
  <2>2. \A q \in Promoters : q # p => SamePromoter(q)
    BY <1>6, <1>t DEF List, Goto, SamePromoter, PromTypeOK
  <2>3. stage[p] = "listing" /\ stage'[p] = "moving" /\ list'[p] = Due(p)
    BY <1>6, <1>t DEF List, Goto, PromTypeOK
  <2>4. CASE job[j] # "delayed"
    <3>1. \A q \in Promoters : stage'[q] = "sleeping" => stage[q] = "sleeping" /\ timer'[q] <= timer[q]
      BY <1>n, <2>1, <2>2, <2>3 DEF SamePromoter
    <3> QED BY <1>i, <1>z, <2>1, <2>4, <3>1
  <2>5. CASE job[j] = "delayed"
    <3>1. j \in list'[p] <=> left[j] <= -age[p]
      BY <2>3, <2>5 DEF Due, Stored
    <3>2. Carries(p, j) => Carries(p, j)'
      BY <2>3, <3>1 DEF Carries
    <3>3. j \notin list'[p] => Fresh(p, j)'
      BY <2>1, <2>3, <3>1, NotDueYet, Fields DEF Fresh, PassOK
    <3>4. Bounded(p, j)'
      BY <2>3, <3>3 DEF Bounded
    <3> QED BY <1>k, <2>1, <2>2, <3>2, <3>4
  <2> QED BY <2>4, <2>5
<1>7. ASSUME NEW p \in Promoters, Move(p) PROVE Remembered(j)'
  <2>1. PICK i \in list[p] : list' = [list EXCEPT ![p] = @ \ {i}] /\ Depart({i} \ Gone, "ready")
    BY <1>7 DEF Move
  <2>2. UNCHANGED <<rejects, age, next, timer, stage>> /\ \A q \in Promoters : q # p => SamePromoter(q)
    BY <1>7, <1>t DEF Move, SamePromoter, PromTypeOK
  <2>3. CASE wait'[j] = 0
    BY <1>i, <1>n, <2>2, <2>3
  <2>4. CASE wait'[j] # 0
    <3>1. j \notin {i} \ Gone /\ wait'[j] = wait[j] /\ left'[j] = left[j]
      BY <1>d, <2>1, <2>4
    <3>2. j # i
      BY <1>z, <2>4, <3>1 DEF Gone
    <3>3. j \in list'[p] <=> j \in list[p]
      BY <1>t, <2>1, <3>2 DEF PromTypeOK
    <3>4. SamePass(p, j) /\ (Carries(p, j) => Carries(p, j)')
      BY <1>n, <2>2, <3>1, <3>3 DEF SamePass, Carries
    <3> QED BY <1>k, <2>2, <3>1, <3>4
  <2> QED BY <2>3, <2>4
<1>8. ASSUME NEW p \in Promoters, MoveRejects(p) PROVE Remembered(j)'
  <2>1. PICK i \in list[p] : list' = [list EXCEPT ![p] = @ \ {i}]
    BY <1>8 DEF MoveRejects
  <2>2. /\ UNCHANGED <<age, next, timer, stage, wait, left>> /\ stage[p] = "moving"
        /\ \A q \in Promoters : q # p => SamePromoter(q)
    BY <1>8, <1>t DEF MoveRejects, SamePromoter, PromTypeOK, jobVars
  <2>3. Budget' = Budget - Cost /\ Budget' \in Nat
    <3>1. rejects' = rejects + 1 /\ rejects' \in 0..MaxRejects
      BY <1>8, <1>b DEF MoveRejects, BaseInv, PromTypeOK
    <3> QED BY <1>t, <3>1, BudgetSpent, BudgetRange DEF Budget, Cost
  <2>4. \A q \in Promoters : q # p => SamePass(q, j) /\ (Carries(q, j) => Carries(q, j)')
    BY <1>n, <2>2 DEF SamePromoter, SamePass, Carries
  <2>5. next[p] = None
    BY <2>2, Fields DEF PassOK
  <2> QED BY <2>2, <2>3, <2>4, <2>5, RememberRejected
<1>9. ASSUME NEW p \in Promoters, AllMoved(p) PROVE Remembered(j)'
  <2>1. UNCHANGED <<wait, left, rejects, age, next, timer, list>>
    BY <1>9 DEF AllMoved, jobVars
  <2>2. \A q \in Promoters : q # p => SamePromoter(q)
    BY <1>9, <1>t DEF AllMoved, Goto, SamePromoter, PromTypeOK
  <2>3. stage[p] = "moving" /\ stage'[p] = "closing" /\ list[p] = {}
    BY <1>9, <1>t DEF AllMoved, Goto, PromTypeOK
  <2>4. SamePass(p, j) /\ ~Carries(p, j)
    BY <1>n, <2>1, <2>3 DEF SamePass, Carries
  <2> QED BY <1>k, <2>1, <2>2, <2>4
<1>10. ASSUME NEW p \in Promoters, AskNext(p) PROVE Remembered(j)'
  <2>1. UNCHANGED <<wait, left, rejects, age, timer>>
    BY <1>10 DEF AskNext, jobVars
  <2>2. \A q \in Promoters : q # p => SamePromoter(q)
    BY <1>10, <1>t DEF AskNext, Goto, SamePromoter, PromTypeOK
  <2>3. stage[p] = "asking" /\ stage'[p] = "closing"
    BY <1>10, <1>t DEF AskNext, Goto, PromTypeOK
  <2>4. Fresh(p, j)
    BY <2>3 DEF Remembered, Bounded
  <2>5. Bounded(p, j)' /\ ~Carries(p, j)
    BY <1>10, <2>3, <2>4, AskFresh DEF Bounded, Carries
  <2> QED BY <1>k, <2>1, <2>2, <2>5
<1>11. ASSUME NEW p \in Promoters, QueryRejects(p) PROVE Remembered(j)'
  <2>1. /\ UNCHANGED <<age, next, timer, list, wait, left>>
        /\ stage[p] \in {"listing", "asking"} /\ stage'[p] = "closing"
        /\ \A q \in Promoters : q # p => SamePromoter(q)
    BY <1>11, <1>t DEF QueryRejects, Goto, SamePromoter, PromTypeOK, jobVars
  <2>2. Budget' = Budget - Cost /\ Budget' \in Nat
    <3>1. rejects' = rejects + 1 /\ rejects' \in 0..MaxRejects
      BY <1>11, <1>b DEF QueryRejects, BaseInv, PromTypeOK
    <3> QED BY <1>t, <3>1, BudgetSpent, BudgetRange DEF Budget, Cost
  <2>3. \A q \in Promoters : q # p => SamePass(q, j) /\ (Carries(q, j) => Carries(q, j)')
    BY <1>n, <2>1 DEF SamePromoter, SamePass, Carries
  <2>4. next[p] = None
    BY <2>1, Fields DEF PassOK
  <2> QED BY <2>1, <2>2, <2>3, <2>4, RememberRejected
<1>12. ASSUME NEW p \in Promoters, ClosePass(p) PROVE Remembered(j)'
  <2>1. UNCHANGED <<wait, left, rejects, list>>
    BY <1>12 DEF ClosePass, jobVars
  <2>2. \A q \in Promoters : q # p => SamePromoter(q)
    BY <1>12, <1>t DEF ClosePass, Goto, SamePromoter, PromTypeOK
  <2>3. Bounded(p, j)'
    BY <1>12, CloseBounded
  <2>4. \A q \in Promoters : /\ q # p => SamePass(q, j) /\ (Carries(q, j) => Carries(q, j)' /\ age'[q] = age[q])
                             /\ q = p => ~Carries(q, j)
    BY <1>12, <1>n, <2>1, <2>2 DEF SamePromoter, SamePass, Carries, ClosePass
  <2>5. CarriersKept(j)
    BY <1>n, <1>r, <2>1, <2>4 DEF CarriersKept
  <2> QED BY <2>3, <2>4, <2>5, RememberKept
<1>13. ASSUME NEW i \in Jobs, NEW p \in Promoters, Announce(p, i) PROVE Remembered(j)'
  <2>1. PICK d \in Delays : left' = [left EXCEPT ![i] = d] /\ RequestReschedule(p, d)
    BY <1>13 DEF Announce
  <2>2. /\ UNCHANGED <<wait, rejects, stage, age, list, next>>
        /\ \A q \in Promoters : timer'[q] \in Nat /\ timer'[q] <= timer[q]
    <3>1. d \in Nat
      BY PromoterConstantsOK DEF PromoterConstantsOK
    <3> QED BY <1>13, <2>1, <3>1, RequestEffect DEF Announce
  <2>3. CASE j = i
    BY <1>13, <1>i, <1>z, <2>2, <2>3 DEF Announce
  <2>4. CASE j # i
    <3>1. left'[j] = left[j]
      BY <1>t, <2>1, <2>4 DEF PromTypeOK
    <3>2. \A q \in Promoters : SamePass(q, j) /\ (Carries(q, j) => Carries(q, j)')
      BY <2>2, <3>1 DEF SamePass, Carries
    <3>3. CarriersKept(j)
      BY <1>n, <1>r, <2>2, <3>2 DEF CarriersKept
    <3> QED BY <3>2, <3>3, RememberKept
  <2> QED BY <2>3, <2>4
<1>14. ASSUME NEW i \in Jobs, Store(i) PROVE Remembered(j)'
  BY <1>14, <1>s DEF Store
<1>15. ASSUME NEW i \in Jobs, StoreUnannounced(i) PROVE Remembered(j)'
  <2>1. CASE j = i
    BY <1>15, <1>i, <1>n, <1>z, <2>1 DEF StoreUnannounced, promoterVars
  <2>2. CASE j # i
    BY <1>15, <1>s, <1>t, <2>2 DEF StoreUnannounced, PromTypeOK
  <2> QED BY <2>1, <2>2
<1>16. ASSUME NEW i \in Jobs, LeaseJob(i) \/ Settle(i) \/ PromoteJob(i) \/ RemoveJob(i) PROVE Remembered(j)'
  <2>1. PICK st : Depart({i}, st) /\ UNCHANGED <<promoterVars, rejects>>
    BY <1>16 DEF LeaseJob, Settle, PromoteJob, RemoveJob, SetJob
  <2> QED BY <1>d, <1>i, <1>n, <1>s, <2>1 DEF promoterVars
<1> QED
  BY <1>0, <1>1, <1>2, <1>3, <1>4, <1>5, <1>6, <1>7, <1>8, <1>9, <1>10, <1>11, <1>12, <1>13,
     <1>14, <1>15, <1>16 DEF PromNext, PassStep

LEMMA MemoryInit == PromInit => MemoryInv
<1> USE Intervals
<1> SUFFICES ASSUME PromInit PROVE MemoryInv
  OBVIOUS
<1>1. BaseInv
  BY BaseInit
<1>2. ASSUME NEW j \in Jobs PROVE Remembered(j)
  <2>1. wait[j] = 0 /\ \A p \in Promoters : stage[p] = "off"
    BY DEF PromInit
  <2>2. InPatience(j)
    BY <1>1, <2>1, Numbers DEF InPatience
  <2> QED BY <2>1, <2>2 DEF Remembered, Bounded
<1> QED BY <1>1, <1>2 DEF MemoryInv

LEMMA MemoryBound == MemoryInv => NeverForgotten
<1> USE Intervals
<1> SUFFICES ASSUME MemoryInv, NEW j \in Stored PROVE wait[j] <= Patience
  BY DEF NeverForgotten
<1>1. j \in Jobs /\ BaseInv /\ InPatience(j)
  BY DEF Stored, MemoryInv, Remembered
<1>2. wait[j] \in Nat /\ Budget \in Nat /\ Patience \in Nat
  <2>1. wait[j] \in Nat
    BY <1>1 DEF BaseInv, PromTypeOK
  <2> QED BY <1>1, <2>1, Numbers
<1>3. CASE Carried(j, Patience)
  <2>1. PICK p \in Promoters : wait[j] + MaxTick - age[p] + Budget <= Patience
    BY <1>3 DEF Carried
  <2>2. age[p] \in Nat /\ age[p] <= MaxTick
    BY <1>1, Fields
  <2> QED BY <1>2, <2>1, <2>2
<1> QED BY <1>1, <1>2, <1>3 DEF InPatience

(* No delayed job is forgotten, whoever stored it, whatever was stopped and *)
(* whichever store calls were rejected: with some promoter running it waits *)
(* no longer than the longest sleep, two passes, and a polling interval and *)
(* a pass for every rejection (scheduled-job-promoter.ts: tick's finally).  *)
THEOREM NoneForgotten == PromSpec => []NeverForgotten
<1>1. MemoryInv /\ [PromNext]_promVars => MemoryInv'
  BY BaseStep, MemoryStep DEF MemoryInv
<1> QED BY MemoryInit, <1>1, MemoryBound, PTL DEF PromSpec
=============================================================================
