--------------------------- MODULE IsolationProofs --------------------------
(***************************************************************************)
(* Proofs about the executor and its worker pools, for any set of tasks,   *)
(* any pool size, any concurrency, any number of crashes and timeouts: the *)
(* heap serves the most urgent entry first (pooled-executor.ts:70-119), a  *)
(* pool keeps its size and no slot stays free while runs are queued        *)
(* (process-pool.ts, thread-pool.ts), an answer settles the run it answers *)
(* and a death costs no more runs than are counted for it.                 *)
(*                                                                         *)
(* SlotInv speaks of the executor (the heap is ordered, and filled only    *)
(* when every slot is taken), PoolInv of the pool: what is idle, at work   *)
(* or in the mail agrees (Sound), and the Toll of the deaths so far, the   *)
(* runs lost and those that a dead worker may yet take, is bounded.        *)
(***************************************************************************)
EXTENDS Isolation, FiniteSetTheorems, WellFoundedInduction, TLAPS

-----------------------------------------------------------------------------
(* Induction over the naturals, stated of a set of numbers: one that has 0  *)
(* and with each number the next has them all.                              *)
LEMMA LeastMember ==
  ASSUME NEW T \in SUBSET Nat, T # {}
  PROVE  \E n \in T : \A m \in T : n <= m
<1> DEFINE R == OpToRel(<, Nat)
<1>1. IsWellFoundedOn(R, Nat)
  BY NatLessThanWellFounded
<1>2. PICK n \in T : \A m \in T : ~ (<<m, n>> \in R)
  <2> HIDE DEF R
  <2> QED BY <1>1, WFMin
<1>3. \A m \in T : ~ (m < n)
  BY <1>2 DEF OpToRel
<1> QED BY <1>3

(* A set of numbers that has 0 and with each number the next has them all. *)
LEMMA Inductive ==
  ASSUME NEW S, 0 \in S, \A n \in Nat : n \in S => n + 1 \in S
  PROVE  \A n \in Nat : n \in S
<1> SUFFICES ASSUME Nat \ S # {} PROVE FALSE
  OBVIOUS
<1>1. PICK n \in Nat \ S : \A m \in Nat \ S : n <= m
  BY LeastMember
<1>2. n # 0 /\ n - 1 \in Nat
  BY <1>1
<1>3. n - 1 \in S
  BY <1>1, <1>2
<1> QED BY <1>1, <1>2, <1>3

-----------------------------------------------------------------------------
(* Entries of the heap: no two have the same sequence number, so that of    *)
(* any two one precedes the other.                                          *)
Entry == [task : Tasks, priority : Int, sequence : Nat]

Distinct(h) == \A i, j \in 1..Len(h) : h[i].sequence = h[j].sequence => i = j

IsHeap(h) == h \in Seq(Entry) /\ Distinct(h)

Alike(g, h) ==
  /\ Len(g) = Len(h)
  /\ \A i \in 1..Len(h) : (\E j \in 1..Len(h) : g[j] = h[i]) /\ (\E j \in 1..Len(h) : g[i] = h[j])

Ordered(h) == \A i \in 2..Len(h) : Before(h[i \div 2], h[i])

(* Ordered but for place i, which may have to go up, or down.               *)
OrderedAbove(h, i) ==
  /\ \A k \in 2..Len(h) : k # i => Before(h[k \div 2], h[k])
  /\ i > 1 => \A k \in 2..Len(h) : k \div 2 = i => Before(h[i \div 2], h[k])

OrderedBelow(h, i) ==
  /\ \A k \in 2..Len(h) : k \div 2 # i => Before(h[k \div 2], h[k])
  /\ i > 1 => \A k \in 2..Len(h) : k \div 2 = i => Before(h[i \div 2], h[k])

LEMMA Halves ==
  \A k \in Nat : k >= 2 => /\ k \div 2 \in Nat /\ 1 <= k \div 2 /\ k \div 2 < k
                           /\ \A i \in Nat : k \div 2 = i <=> k = 2 * i \/ k = 2 * i + 1
OBVIOUS

LEMMA Orders ==
  /\ \A e, f, g \in Entry : Before(e, f) /\ Before(f, g) => Before(e, g)
  /\ \A e, f \in Entry : Before(e, f) => ~Before(f, e)
  /\ \A e, f \in Entry : e.sequence # f.sequence => Before(e, f) \/ Before(f, e)
BY DEF Entry, Before

LEMMA Swapped ==
  ASSUME NEW h, IsHeap(h), NEW i \in 1..Len(h), NEW j \in 1..Len(h)
  PROVE  LET g == Swap(h, i, j) IN
         /\ IsHeap(g) /\ Alike(g, h) /\ g[i] = h[j] /\ g[j] = h[i]
         /\ \A k \in 1..Len(h) : k # i /\ k # j => g[k] = h[k]
<1> DEFINE g == Swap(h, i, j)
<1>1. h \in Seq(Entry) /\ Len(h) \in Nat /\ DOMAIN h = 1..Len(h) /\ \A k \in 1..Len(h) : h[k] \in Entry
  BY DEF IsHeap
<1>2. g \in Seq(Entry) /\ Len(g) = Len(h)
  BY <1>1 DEF Swap
<1>3. g[i] = h[j] /\ g[j] = h[i] /\ \A k \in 1..Len(h) : k # i /\ k # j => g[k] = h[k]
  BY <1>1 DEF Swap
<1> HIDE DEF g
<1>4. Distinct(g)
  BY <1>1, <1>2, <1>3 DEF IsHeap, Distinct
<1>5. Alike(g, h)
  <2>1. ASSUME NEW k \in 1..Len(h) PROVE \E l \in 1..Len(h) : g[l] = h[k]
    <3>1. CASE k = i
      BY <3>1, <1>3
    <3>2. CASE k = j
      BY <3>2, <1>3
    <3>3. CASE k # i /\ k # j
      BY <3>3, <1>3
    <3> QED BY <3>1, <3>2, <3>3
  <2>2. ASSUME NEW k \in 1..Len(h) PROVE \E l \in 1..Len(h) : g[k] = h[l]
    <3>1. CASE k = i
      BY <3>1, <1>3
    <3>2. CASE k = j
      BY <3>2, <1>3
    <3>3. CASE k # i /\ k # j
      BY <3>3, <1>3
    <3> QED BY <3>1, <3>2, <3>3
  <2> QED BY <2>1, <2>2, <1>2 DEF Alike
<1>6. IsHeap(g)
  BY <1>2, <1>4 DEF IsHeap
<1> QED BY <1>3, <1>5, <1>6 DEF g

LEMMA AlikeFacts ==
  /\ \A h : IsHeap(h) => Alike(h, h)
  /\ \A f, g, h : Alike(f, g) /\ Alike(g, h) => Alike(f, h)
<1>1. ASSUME NEW f, NEW g, NEW h, Alike(f, g), Alike(g, h) PROVE Alike(f, h)
  <2>1. Len(f) = Len(h)
    BY <1>1 DEF Alike
  <2>2. ASSUME NEW i \in 1..Len(h) PROVE \E j \in 1..Len(h) : f[j] = h[i]
    BY <1>1 DEF Alike
  <2>3. ASSUME NEW i \in 1..Len(h) PROVE \E j \in 1..Len(h) : f[i] = h[j]
    BY <1>1 DEF Alike
  <2> QED BY <2>1, <2>2, <2>3 DEF Alike
<1> QED BY <1>1 DEF Alike

-----------------------------------------------------------------------------
(* One round of each loop.                                                  *)
LEMMA Rises ==
  ASSUME NEW h, IsHeap(h), NEW i \in 1..Len(h), OrderedAbove(h, i), NEW to, to = Higher(h, i)
  PROVE  /\ to \in 1..i /\ (to = i => Ordered(h))
         /\ IsHeap(Swap(h, i, to)) /\ Alike(Swap(h, i, to), h) /\ OrderedAbove(Swap(h, i, to), to)
<1>0. Len(h) \in Nat /\ \A k \in 1..Len(h) : h[k] \in Entry
  BY DEF IsHeap
<1>h. \A k \in 2..Len(h) : k \div 2 \in 1..Len(h) /\ k \div 2 < k
  BY <1>0, Halves
<1>1. CASE to = i
  <2>1. i = 1 \/ ~Before(h[i], h[i \div 2])
    BY <1>1, <1>0, Halves DEF Higher
  <2>2. i > 1 => Before(h[i \div 2], h[i])
    BY <2>1, <1>0, <1>h, Orders DEF IsHeap, Distinct
  <2>3. Ordered(h)
    BY <2>2, <1>0 DEF Ordered, OrderedAbove
  <2>4. Swap(h, i, i) = h
    BY <1>0 DEF Swap, IsHeap
  <2> QED BY <1>1, <2>3, <2>4, AlikeFacts
<1>2. CASE to # i
  <2>1. i > 1 /\ Before(h[i], h[to]) /\ to = i \div 2
    BY <1>2 DEF Higher
  <2>2. to \in 1..Len(h) /\ to < i
    BY <2>1, <1>0, <1>h
  <2>3. PICK g : g = Swap(h, i, to)
    OBVIOUS
  <2>4. IsHeap(g) /\ Alike(g, h) /\ g[i] = h[to] /\ g[to] = h[i] /\ \A k \in 1..Len(h) : k # i /\ k # to => g[k] = h[k]
    BY <2>2, <2>3, Swapped
  <2>5. Len(g) = Len(h) /\ \A k \in 1..Len(h) : g[k] \in Entry
    BY <2>4, <1>0 DEF IsHeap, Alike
  <2>6. ASSUME NEW k \in 2..Len(h), k # to PROVE Before(g[k \div 2], g[k])
    <3>1. CASE k = i
      BY <3>1, <2>1, <2>4
    <3>2. CASE k # i /\ k \div 2 = to
      <4>1. Before(h[to], h[k]) /\ g[k] = h[k] /\ g[k \div 2] = h[i]
        BY <3>2, <2>4, <2>6 DEF OrderedAbove
      <4> QED BY <4>1, <2>1, <2>2, <1>0, Orders
    <3>3. CASE k # i /\ k \div 2 = i
      <4>1. Before(h[to], h[k]) /\ g[k] = h[k] /\ g[k \div 2] = h[to]
        BY <3>3, <2>1, <2>4, <2>6 DEF OrderedAbove
      <4> QED BY <4>1
    <3>4. CASE k # i /\ k \div 2 # i /\ k \div 2 # to
      BY <3>4, <2>4, <2>6, <1>h DEF OrderedAbove
    <3> QED BY <3>1, <3>2, <3>3, <3>4
  <2>7. ASSUME to > 1, NEW k \in 2..Len(h), k \div 2 = to PROVE Before(g[to \div 2], g[k])
    <3>1. to \in 2..Len(h) /\ to \div 2 \in 1..Len(h) /\ to \div 2 # to /\ to \div 2 # i
      BY <2>2, <2>7, <1>0, <1>h
    <3>2. g[to \div 2] = h[to \div 2] /\ Before(h[to \div 2], h[to])
      BY <3>1, <2>2, <2>4 DEF OrderedAbove
    <3>3. CASE k = i
      BY <3>2, <3>3, <2>4
    <3>4. CASE k # i
      <4>1. g[k] = h[k] /\ Before(h[to], h[k])
        BY <3>4, <2>4, <2>7, <1>h, SMTT(40) DEF OrderedAbove
      <4> QED BY <4>1, <3>1, <3>2, <2>2, <1>0, Orders
    <3> QED BY <3>3, <3>4
  <2>8. OrderedAbove(g, to)
    BY <2>5, <2>6, <2>7 DEF OrderedAbove
  <2> QED BY <1>2, <2>2, <2>3, <2>4, <2>8
<1> QED BY <1>1, <1>2

(* Smallest picks the entry of three that precedes the two others.          *)
LEMMA SmallestIs ==
  ASSUME NEW h, IsHeap(h), NEW i \in 1..Len(h)
  PROVE  /\ Smallest(h, i) \in {i, 2 * i, 2 * i + 1} \cap 1..Len(h)
         /\ \A k \in {i, 2 * i, 2 * i + 1} \cap 1..Len(h) : k # Smallest(h, i) => Before(h[Smallest(h, i)], h[k])
<1> DEFINE K == {i, 2 * i, 2 * i + 1} \cap 1..Len(h)
           Best(s) == \A k \in K : k # s => Before(h[s], h[k])
<1>0. Len(h) \in Nat /\ \A k \in 1..Len(h) : h[k] \in Entry
  BY DEF IsHeap
<1>1. \A k, l \in 1..Len(h) : k # l => Before(h[k], h[l]) \/ Before(h[l], h[k])
  BY <1>0, Orders DEF IsHeap, Distinct
<1>2. \A k, l, m \in 1..Len(h) : Before(h[k], h[l]) /\ Before(h[l], h[m]) => Before(h[k], h[m])
  BY <1>0, Orders
<1>3. i \in K /\ K \subseteq 1..Len(h)
  OBVIOUS
<1>4. \E s \in K : Best(s)
  <2>1. PICK a \in K : a \in {i, 2 * i} /\ \A k \in {i, 2 * i} \cap 1..Len(h) : k # a => Before(h[a], h[k])
    <3>1. CASE 2 * i \notin 1..Len(h)
      BY <3>1, <1>3
    <3>2. CASE 2 * i \in 1..Len(h) /\ Before(h[i], h[2 * i])
      BY <3>2, <1>3
    <3>3. CASE 2 * i \in 1..Len(h) /\ Before(h[2 * i], h[i])
      BY <3>3, <1>3
    <3>4. 2 * i # i
      OBVIOUS
    <3> QED BY <3>1, <3>2, <3>3, <3>4, <1>1
  <2>2. CASE 2 * i + 1 \notin 1..Len(h) \/ Before(h[a], h[2 * i + 1])
    BY <2>1, <2>2
  <2>3. CASE 2 * i + 1 \in 1..Len(h) /\ Before(h[2 * i + 1], h[a])
    <3>1. \A k \in {i, 2 * i} \cap 1..Len(h) : k # a => Before(h[2 * i + 1], h[k])
      BY <2>1, <2>3, <1>2, <1>3
    <3>2. Best(2 * i + 1) /\ 2 * i + 1 \in K
      BY <2>3, <3>1
    <3> QED BY <3>2
  <2>4. a # 2 * i + 1 /\ a \in 1..Len(h)
    BY <2>1
  <2> QED BY <2>2, <2>3, <2>4, <1>1
<1>5. Smallest(h, i) = CHOOSE s \in K : Best(s)
  BY DEF Smallest
<1> QED BY <1>4, <1>5

(* One round of heapPop's loop: the hole moves to the smaller child.        *)
LEMMA Sinks ==
  ASSUME NEW h, IsHeap(h), NEW i \in 1..Len(h), OrderedBelow(h, i), NEW to, to = Smallest(h, i)
  PROVE  /\ to \in i..Len(h) /\ (to = i => Ordered(h))
         /\ IsHeap(Swap(h, i, to)) /\ Alike(Swap(h, i, to), h) /\ OrderedBelow(Swap(h, i, to), to)
<1>0. Len(h) \in Nat /\ \A k \in 1..Len(h) : h[k] \in Entry
  BY DEF IsHeap
<1>h. \A k \in 2..Len(h) : k \div 2 \in 1..Len(h) /\ k \div 2 < k
  BY <1>0, Halves
<1>c. \A k \in 2..Len(h) : k \div 2 = i => k \in {i, 2 * i, 2 * i + 1} \cap 1..Len(h) /\ k # i
  BY <1>0, Halves
<1>s. /\ to \in {i, 2 * i, 2 * i + 1} \cap 1..Len(h)
      /\ \A k \in {i, 2 * i, 2 * i + 1} \cap 1..Len(h) : k # to => Before(h[to], h[k])
  BY SmallestIs
<1>1. CASE to = i
  <2>1. ASSUME NEW k \in 2..Len(h) PROVE Before(h[k \div 2], h[k])
    BY <1>1, <1>c, <1>s DEF OrderedBelow
  <2>2. Ordered(h)
    BY <2>1 DEF Ordered
  <2>3. Swap(h, i, i) = h
    BY <1>0 DEF Swap, IsHeap
  <2> QED BY <1>0, <1>1, <2>2, <2>3, AlikeFacts
<1>2. CASE to # i
  <2>1. to \in 2..Len(h) /\ to \div 2 = i /\ to > i /\ Before(h[to], h[i])
    <3>1. to \in {2 * i, 2 * i + 1} /\ to \in 2..Len(h)
      BY <1>0, <1>2, <1>s
    <3>2. to \div 2 = i
      BY <3>1, <1>0, Halves
    <3> QED BY <3>1, <3>2, <1>2, <1>s
  <2>3. PICK g : g = Swap(h, i, to)
    OBVIOUS
  <2>4. IsHeap(g) /\ Alike(g, h) /\ g[i] = h[to] /\ g[to] = h[i] /\ \A k \in 1..Len(h) : k # i /\ k # to => g[k] = h[k]
    BY <2>1, <2>3, Swapped
  <2>5. Len(g) = Len(h)
    BY <2>4 DEF Alike
  <2>6. ASSUME NEW k \in 2..Len(h), k \div 2 # to PROVE Before(g[k \div 2], g[k])
    <3>1. CASE k = to
      BY <3>1, <2>1, <2>4
    <3>2. CASE k # to /\ k \div 2 = i
      <4>1. Before(h[to], h[k]) /\ k # i
        BY <3>2, <1>c, <1>s
      <4> QED BY <4>1, <3>2, <2>4
    <3>3. CASE k = i
      <4>1. i > 1 /\ k \div 2 # i /\ k \div 2 \in 1..Len(h) /\ Before(h[i \div 2], h[to])
        BY <3>3, <2>1, <1>h DEF OrderedBelow
      <4> QED BY <4>1, <3>3, <2>4, <2>6
    <3>4. CASE k # to /\ k # i /\ k \div 2 # i
      BY <3>4, <2>4, <2>6, <1>h DEF OrderedBelow
    <3> QED BY <3>1, <3>2, <3>3, <3>4
  <2>7. ASSUME NEW k \in 2..Len(h), k \div 2 = to PROVE Before(g[to \div 2], g[k])
    <3>1. k # i /\ k # to
      BY <2>1, <2>7, <1>h
    <3>2. Before(h[to], h[k])
      BY <2>1, <2>7 DEF OrderedBelow
    <3> QED BY <3>1, <3>2, <2>1, <2>4
  <2>8. OrderedBelow(g, to)
    BY <2>5, <2>6, <2>7 DEF OrderedBelow
  <2> QED BY <1>2, <2>1, <2>3, <2>4, <2>8
<1> QED BY <1>1, <1>2

-----------------------------------------------------------------------------
(* The loops.                                                               *)
LEMMA Loops ==
  ASSUME NEW way, NEW h, Len(h) \in Nat, NEW i
  PROVE  \E r : /\ r[0] = [heap |-> h, at |-> i] /\ Sift(way, h, i) = r[Len(h)].heap
               /\ \A n \in 1..Len(h) : r[n] = Round(way, r[n - 1])
<1> DEFINE N == Len(h)
           Eq(g, m) == g = [n \in 0..m |-> IF n = 0 THEN [heap |-> h, at |-> i] ELSE Round(way, g[n - 1])]
           it == CHOOSE g : Eq(g, N)
<1>1. Sift(way, h, i) = it[N].heap
  BY DEF Sift
<1>2. \A m \in Nat : \E g : Eq(g, m)
  <2> DEFINE S == {m \in Nat : \E g : Eq(g, m)}
  <2>1. 0 \in S
    <3>1. Eq([n \in 0..0 |-> [heap |-> h, at |-> i]], 0)
      OBVIOUS
    <3> QED BY <3>1
  <2>2. ASSUME NEW m \in Nat, m \in S PROVE m + 1 \in S
    <3>1. PICK g : Eq(g, m)
      BY <2>2
    <3> DEFINE f == [n \in 0..(m + 1) |-> IF n <= m THEN g[n] ELSE Round(way, g[m])]
    <3>2. ASSUME NEW n \in 0..(m + 1)
          PROVE  f[n] = IF n = 0 THEN [heap |-> h, at |-> i] ELSE Round(way, f[n - 1])
      <4>1. CASE n = 0
        BY <3>1, <4>1
      <4>2. CASE n \in 1..m
        <5>1. n - 1 \in 0..m /\ n \in 0..m /\ n # 0
          BY <4>2
        <5>2. g[n] = Round(way, g[n - 1])
          BY <3>1, <5>1
        <5>3. f[n] = g[n] /\ f[n - 1] = g[n - 1]
          BY <5>1
        <5> QED BY <5>1, <5>2, <5>3
      <4>3. CASE n = m + 1
        <5>1. f[n] = Round(way, g[m]) /\ f[n - 1] = g[m] /\ n # 0
          BY <4>3
        <5> QED BY <5>1
      <4> QED BY <4>1, <4>2, <4>3
    <3>3. Eq(f, m + 1)
      BY <3>2
    <3>4. \E e : Eq(e, m + 1)
      <4> HIDE DEF f
      <4> QED BY <3>3
    <3> QED
      <4> HIDE DEF Eq
      <4> QED BY <3>4
  <2> HIDE DEF S
  <2>3. \A m \in Nat : m \in S
    BY <2>1, <2>2, Inductive
  <2> QED BY <2>3 DEF S
<1>3. Eq(it, N)
  BY <1>2
<1> HIDE DEF it
<1>4. it[0] = [heap |-> h, at |-> i] /\ \A n \in 1..N : it[n] = Round(way, it[n - 1])
  BY <1>3
<1> QED BY <1>1, <1>4

(* heapPush restores the order (pooled-executor.ts:70).                     *)
LEMMA SiftUp ==
  ASSUME NEW h, IsHeap(h), NEW i \in 1..Len(h), OrderedAbove(h, i)
  PROVE  IsHeap(Sift("up", h, i)) /\ Alike(Sift("up", h, i), h) /\ Ordered(Sift("up", h, i))
<1>0. Len(h) \in Nat
  BY DEF IsHeap
<1>1. PICK r : /\ r[0] = [heap |-> h, at |-> i] /\ Sift("up", h, i) = r[Len(h)].heap
               /\ \A n \in 1..Len(h) : r[n] = Round("up", r[n - 1])
  BY <1>0, Loops
<1> DEFINE P(s, n) == /\ IsHeap(s.heap) /\ Alike(s.heap, h) /\ s.at \in 1..Len(h) /\ OrderedAbove(s.heap, s.at)
                      /\ s.at <= i - n \/ Ordered(s.heap)
           S == {n \in Nat : n <= Len(h) => P(r[n], n)}
<1>2. 0 \in S
  BY <1>1, AlikeFacts
<1>3. ASSUME NEW n \in Nat, n \in S PROVE n + 1 \in S
  <2> SUFFICES ASSUME n + 1 <= Len(h) PROVE P(r[n + 1], n + 1)
    OBVIOUS
  <2>1. PICK s : s = r[n]
    OBVIOUS
  <2>2. P(s, n) /\ r[n + 1] = Round("up", s)
    BY <1>0, <1>1, <1>3, <2>1
  <2>3. PICK to : to = Higher(s.heap, s.at)
    OBVIOUS
  <2>4. r[n + 1].heap = Swap(s.heap, s.at, to) /\ r[n + 1].at = to
    BY <2>2, <2>3 DEF Round
  <2>5. s.at \in 1..Len(s.heap)
    BY <2>2 DEF Alike
  <2>6. /\ to \in 1..s.at /\ (to = s.at => Ordered(s.heap))
        /\ IsHeap(Swap(s.heap, s.at, to)) /\ Alike(Swap(s.heap, s.at, to), s.heap)
        /\ OrderedAbove(Swap(s.heap, s.at, to), to)
    BY <2>2, <2>3, <2>5, Rises
  <2>7. Alike(r[n + 1].heap, h)
    BY <2>2, <2>4, <2>6, AlikeFacts
  <2>8. to = s.at => Swap(s.heap, s.at, to) = s.heap
    BY <2>2, <2>5 DEF Swap, IsHeap
  <2>9. Ordered(s.heap) => to = s.at
    <3>1. s.at > 1 => s.at \div 2 \in 1..Len(s.heap) /\ s.at \in 1..Len(s.heap)
      BY <2>5, Halves
    <3> QED BY <2>2, <2>3, <2>5, <3>1, Orders DEF Higher, Ordered, IsHeap
  <2>10. r[n + 1].at <= i - (n + 1) \/ Ordered(r[n + 1].heap)
    BY <2>2, <2>4, <2>6, <2>8, <2>9
  <2> QED BY <2>2, <2>4, <2>6, <2>7, <2>10
<1> HIDE DEF S
<1>4. Len(h) \in S
  BY <1>0, <1>2, <1>3, Inductive
<1>5. P(r[Len(h)], Len(h))
  BY <1>0, <1>4 DEF S
<1> QED BY <1>0, <1>1, <1>5

(* heapPop restores the order (pooled-executor.ts:97).                      *)
LEMMA SiftDown ==
  ASSUME NEW h, IsHeap(h), NEW i \in 1..Len(h), OrderedBelow(h, i)
  PROVE  IsHeap(Sift("down", h, i)) /\ Alike(Sift("down", h, i), h) /\ Ordered(Sift("down", h, i))
<1>0. Len(h) \in Nat
  BY DEF IsHeap
<1>1. PICK r : /\ r[0] = [heap |-> h, at |-> i] /\ Sift("down", h, i) = r[Len(h)].heap
               /\ \A n \in 1..Len(h) : r[n] = Round("down", r[n - 1])
  BY <1>0, Loops
<1> DEFINE P(s, n) == /\ IsHeap(s.heap) /\ Alike(s.heap, h) /\ s.at \in 1..Len(h) /\ OrderedBelow(s.heap, s.at)
                      /\ s.at >= i + n \/ Ordered(s.heap)
           S == {n \in Nat : n <= Len(h) => P(r[n], n)}
<1>2. 0 \in S
  BY <1>1, AlikeFacts
<1>3. ASSUME NEW n \in Nat, n \in S PROVE n + 1 \in S
  <2> SUFFICES ASSUME n + 1 <= Len(h) PROVE P(r[n + 1], n + 1)
    OBVIOUS
  <2>1. PICK s : s = r[n]
    OBVIOUS
  <2>2. P(s, n) /\ r[n + 1] = Round("down", s)
    BY <1>0, <1>1, <1>3, <2>1
  <2>3. PICK to : to = Smallest(s.heap, s.at)
    OBVIOUS
  <2>4. r[n + 1].heap = Swap(s.heap, s.at, to) /\ r[n + 1].at = to
    BY <2>2, <2>3 DEF Round
  <2>5. s.at \in 1..Len(s.heap)
    BY <2>2 DEF Alike
  <2>6. /\ to \in s.at..Len(s.heap) /\ (to = s.at => Ordered(s.heap))
        /\ IsHeap(Swap(s.heap, s.at, to)) /\ Alike(Swap(s.heap, s.at, to), s.heap)
        /\ OrderedBelow(Swap(s.heap, s.at, to), to)
    BY <2>2, <2>3, <2>5, Sinks
  <2>7. Alike(r[n + 1].heap, h)
    BY <2>2, <2>4, <2>6, AlikeFacts
  <2>8. to = s.at => Swap(s.heap, s.at, to) = s.heap
    BY <2>2, <2>5 DEF Swap, IsHeap
  <2>9. Ordered(s.heap) => to = s.at
    <3> SUFFICES ASSUME Ordered(s.heap), to # s.at PROVE FALSE
      OBVIOUS
    <3>1. to \in {2 * s.at, 2 * s.at + 1} \cap 1..Len(s.heap) /\ Before(s.heap[to], s.heap[s.at])
      BY <2>2, <2>3, <2>5, SmallestIs
    <3>0. Len(s.heap) \in Nat /\ s.at \in Nat /\ s.at >= 1
      BY <2>2, <2>5 DEF IsHeap
    <3>2. to \in 2..Len(s.heap) /\ to \div 2 = s.at
      <4>1. to \in Nat /\ to >= 2 /\ to <= Len(s.heap) /\ (to = 2 * s.at \/ to = 2 * s.at + 1)
        BY <3>0, <3>1
      <4> QED BY <3>0, <4>1, Halves
    <3>3. Before(s.heap[s.at], s.heap[to])
      BY <3>2 DEF Ordered
    <3>4. s.heap[to] \in Entry /\ s.heap[s.at] \in Entry
      BY <2>2, <2>5, <3>1 DEF IsHeap
    <3> QED BY <3>1, <3>3, <3>4, Orders
  <2>10. r[n + 1].at >= i + (n + 1) \/ Ordered(r[n + 1].heap)
    BY <2>2, <2>4, <2>6, <2>8, <2>9
  <2>11. Len(s.heap) = Len(h)
    BY <2>2 DEF Alike
  <2> QED BY <2>2, <2>4, <2>6, <2>7, <2>10, <2>11
<1> HIDE DEF S
<1>4. Len(h) \in S
  BY <1>0, <1>2, <1>3, Inductive
<1>5. P(r[Len(h)], Len(h))
  BY <1>0, <1>4 DEF S
<1> QED BY <1>0, <1>1, <1>5

-----------------------------------------------------------------------------
(* The first entry of an ordered heap precedes all others.                  *)
LEMMA RootFirst ==
  ASSUME NEW h, IsHeap(h), Ordered(h)
  PROVE  \A k \in 2..Len(h) : Before(h[1], h[k])
<1>0. Len(h) \in Nat /\ \A k \in 1..Len(h) : h[k] \in Entry
  BY DEF IsHeap
<1> DEFINE T == {k \in 2..Len(h) : ~Before(h[1], h[k])}
<1> SUFFICES ASSUME T # {} PROVE FALSE
  OBVIOUS
<1>1. PICK k \in T : \A m \in T : k <= m
  <2>1. T \in SUBSET Nat
    BY <1>0
  <2> HIDE DEF T
  <2> QED BY <2>1, LeastMember
<1>2. k \div 2 \in 1..Len(h) /\ k \div 2 < k /\ Before(h[k \div 2], h[k])
  BY <1>0, Halves DEF Ordered
<1>3. k \div 2 = 1 \/ Before(h[1], h[k \div 2])
  BY <1>0, <1>1, <1>2
<1> QED BY <1>0, <1>2, <1>3, Orders

(* What heapPush returns: the heap with the entry.                          *)
LEMMA Pushed ==
  ASSUME NEW h, IsHeap(h), Ordered(h), NEW e \in Entry, \A k \in 1..Len(h) : h[k].sequence # e.sequence
  PROVE  /\ IsHeap(HeapPush(h, e)) /\ Ordered(HeapPush(h, e)) /\ Alike(HeapPush(h, e), Append(h, e))
<1>0. Len(h) \in Nat /\ \A k \in 1..Len(h) : h[k] \in Entry
  BY DEF IsHeap
<1>1. PICK n : n = Len(h) + 1
  OBVIOUS
<1>2. PICK g : g = Append(h, e)
  OBVIOUS
<1>3. g \in Seq(Entry) /\ Len(g) = n /\ g[n] = e /\ n \in 1..n /\ \A k \in 1..Len(h) : g[k] = h[k]
  BY <1>0, <1>1, <1>2 DEF IsHeap
<1>4. IsHeap(g)
  BY <1>0, <1>1, <1>3 DEF IsHeap, Distinct
<1>5. OrderedAbove(g, n)
  <2>1. \A k \in 2..n : k # n => k \in 2..Len(h) /\ k \div 2 \in 1..Len(h)
    BY <1>0, <1>1, Halves
  <2>2. \A k \in 2..n : k \div 2 # n
    BY <1>0, <1>1, Halves
  <2>3. ASSUME NEW k \in 2..n, k # n PROVE Before(g[k \div 2], g[k])
    <3>1. PICK p : p = k \div 2
      OBVIOUS
    <3>2. k \in 1..Len(h) /\ p \in 1..Len(h) /\ Before(h[p], h[k])
      BY <1>0, <1>1, <2>1, <2>3, <3>1 DEF Ordered
    <3>3. g[k] = h[k] /\ g[p] = h[p]
      BY <1>3, <3>2
    <3> QED BY <3>1, <3>2, <3>3
  <2> QED BY <1>3, <2>2, <2>3 DEF OrderedAbove
<1>6. HeapPush(h, e) = Sift("up", g, n)
  BY <1>1, <1>2 DEF HeapPush
<1> QED BY <1>2, <1>3, <1>4, <1>5, <1>6, SiftUp

(* What heapPop leaves: the heap without its first entry.                   *)
LEMMA Popped ==
  ASSUME NEW h, IsHeap(h), Ordered(h), h # <<>>
  PROVE  /\ Len(h) \in Nat \ {0} /\ Len(HeapPop(h)) = Len(h) - 1
         /\ IsHeap(HeapPop(h)) /\ Ordered(HeapPop(h))
         /\ \A k \in 1..Len(HeapPop(h)) : \E j \in 2..Len(h) : HeapPop(h)[k] = h[j]
         /\ \A j \in 2..Len(h) : \E k \in 1..Len(HeapPop(h)) : HeapPop(h)[k] = h[j]
<1>0. Len(h) \in Nat \ {0} /\ \A k \in 1..Len(h) : h[k] \in Entry
  BY DEF IsHeap
<1>1. CASE Len(h) = 1
  <2>1. HeapPop(h) = <<>>
    BY <1>1 DEF HeapPop
  <2>2. Len(<<>>) = 0 /\ <<>> \in Seq(Entry)
    OBVIOUS
  <2> QED BY <1>0, <1>1, <2>1, <2>2 DEF IsHeap, Distinct, Ordered
<1>2. CASE Len(h) # 1
  <2>1. PICK n : n = Len(h)
    OBVIOUS
  <2>2. PICK b : b = SubSeq(h, 1, n - 1)
    OBVIOUS
  <2>3. b \in Seq(Entry) /\ Len(b) = n - 1 /\ \A k \in 1..(n - 1) : b[k] = h[k]
    BY <1>0, <2>1, <2>2 DEF IsHeap
  <2>4. PICK g : g = [b EXCEPT ![1] = h[n]]
    OBVIOUS
  <2>5. /\ n \in Nat /\ n >= 2 /\ g \in Seq(Entry) /\ Len(g) = n - 1
        /\ g[1] = h[n] /\ \A k \in 2..(n - 1) : g[k] = h[k]
    BY <1>0, <1>2, <2>1, <2>3, <2>4
  <2>6. IsHeap(g)
    <3>1. \A k \in 1..(n - 1) : g[k] = IF k = 1 THEN h[n] ELSE h[k]
      BY <2>5
    <3> QED BY <1>0, <2>1, <2>5, <3>1 DEF IsHeap, Distinct
  <2>7. OrderedBelow(g, 1)
    <3>1. \A k \in 2..(n - 1) : k \div 2 # 1 => k \in 2..n /\ k \div 2 \in 2..(n - 1)
      BY <2>5, Halves
    <3> QED BY <2>1, <2>5, <3>1 DEF OrderedBelow, Ordered
  <2>8. HeapPop(h) = Sift("down", g, 1)
    BY <1>2, <2>1, <2>2, <2>4 DEF HeapPop
  <2>9. PICK p : p = HeapPop(h)
    OBVIOUS
  <2>10. IsHeap(p) /\ Ordered(p) /\ Alike(p, g)
    BY <2>5, <2>6, <2>7, <2>8, <2>9, SiftDown
  <2>11. Len(p) = n - 1
    BY <2>5, <2>10 DEF Alike
  <2>12. ASSUME NEW k \in 1..(n - 1) PROVE \E j \in 2..n : p[k] = h[j]
    <3>1. PICK i \in 1..(n - 1) : p[k] = g[i]
      BY <2>5, <2>10 DEF Alike
    <3>2. n \in 2..n /\ (i # 1 => i \in 2..n)
      BY <2>5
    <3> QED BY <2>5, <3>1, <3>2
  <2>13. ASSUME NEW j \in 2..n PROVE \E k \in 1..(n - 1) : p[k] = h[j]
    <3>1. PICK i \in 1..(n - 1) : g[i] = h[j]
      <4>1. CASE j = n
        BY <4>1, <2>5
      <4>2. CASE j # n
        BY <4>2, <2>5
      <4> QED BY <4>1, <4>2
    <3> QED BY <2>5, <2>10, <3>1 DEF Alike
  <2> QED BY <1>0, <2>1, <2>9, <2>10, <2>11, <2>12, <2>13
<1> QED BY <1>1, <1>2

-----------------------------------------------------------------------------
(* The executor.                                                            *)
HeapInv ==
  /\ IsHeap(heap) /\ Ordered(heap) /\ sequence \in Nat
  /\ \A k \in 1..Len(heap) : heap[k].sequence < sequence

LEMMA RunNextKeeps ==
  ASSUME NEW h, IsHeap(h), Ordered(h), NEW n, NEW s, RunNext(h, n, s)
  PROVE  /\ IsHeap(heap') /\ Ordered(heap')
         /\ \A k \in 1..Len(heap') : \E j \in 1..Len(h) : heap'[k] = h[j]
         /\ \A e \in Entries(h) \ Entries(heap') : \A f \in Entries(heap') : Before(e, f)
<1>0. DOMAIN h = 1..Len(h)
  BY DEF IsHeap
<1>1. CASE n >= Concurrency \/ h = <<>>
  <2>1. heap' = h
    BY <1>1 DEF RunNext
  <2> QED BY <2>1
<1>2. CASE ~(n >= Concurrency \/ h = <<>>)
  <2>1. PICK p : p = HeapPop(h)
    OBVIOUS
  <2>2. heap' = p
    BY <1>2, <2>1 DEF RunNext
  <2>3. /\ IsHeap(p) /\ Ordered(p) /\ Len(h) \in Nat
        /\ \A k \in 1..Len(p) : \E j \in 2..Len(h) : p[k] = h[j]
        /\ \A j \in 2..Len(h) : \E k \in 1..Len(p) : p[k] = h[j]
    BY <1>2, <2>1, Popped
  <2>4. DOMAIN p = 1..Len(p)
    BY <2>3 DEF IsHeap
  <2>5. ASSUME NEW e \in Entries(h) \ Entries(p), NEW f \in Entries(p) PROVE Before(e, f)
    <3>1. PICK i \in 1..Len(h) : e = h[i]
      BY <1>0 DEF Entries
    <3>2. i = 1
      <4> SUFFICES ASSUME i # 1 PROVE FALSE
        OBVIOUS
      <4>1. i \in 2..Len(h)
        BY <2>3
      <4>2. PICK k \in 1..Len(p) : p[k] = h[i]
        BY <2>3, <4>1
      <4> QED BY <2>4, <2>5, <3>1, <4>2 DEF Entries
    <3>3. PICK j \in 2..Len(h) : f = h[j]
      <4>1. PICK k \in 1..Len(p) : f = p[k]
        BY <2>4 DEF Entries
      <4> QED BY <2>3, <4>1
    <3> QED BY <3>1, <3>2, <3>3, RootFirst
  <2>6. \A k \in 1..Len(p) : \E j \in 1..Len(h) : p[k] = h[j]
    BY <2>3
  <2> QED BY <2>2, <2>3, <2>5, <2>6
<1> QED BY <1>1, <1>2

LEMMA SubmitKeeps ==
  ASSUME HeapInv, NEW t \in Tasks, Submit(t)
  PROVE  HeapInv' /\ \A e \in Entries(heap) \ Entries(heap') : \A f \in Entries(heap') : Before(e, f)
<1>1. PICK e : e = [task |-> t, priority |-> Priority[t], sequence |-> sequence]
  OBVIOUS
<1>2. e \in Entry /\ e.sequence = sequence /\ sequence \in Nat
  BY <1>1, ExecutorConstantsOK DEF Entry, HeapInv, ExecutorConstantsOK
<1>3. PICK h : h = HeapPush(heap, e)
  OBVIOUS
<1>4. PICK s : s = [stage EXCEPT ![t] = "queued"]
  OBVIOUS
<1>5. RunNext(h, active, s) /\ sequence' = sequence + 1
  BY <1>1, <1>3, <1>4 DEF Submit
<1>6. IsHeap(h) /\ Ordered(h) /\ Alike(h, Append(heap, e))
  BY <1>2, <1>3, Pushed DEF HeapInv
<1>7. /\ Len(heap) \in Nat /\ Len(h) = Len(heap) + 1 /\ Len(Append(heap, e)) = Len(heap) + 1
      /\ \A k \in 1..(Len(heap) + 1) : Append(heap, e)[k] = IF k <= Len(heap) THEN heap[k] ELSE e
      /\ DOMAIN heap = 1..Len(heap) /\ DOMAIN h = 1..Len(h)
  <2>1. heap \in Seq(Entry)
    BY DEF HeapInv, IsHeap
  <2>2. Len(heap) \in Nat /\ DOMAIN heap = 1..Len(heap)
    BY <2>1
  <2>3. Len(Append(heap, e)) = Len(heap) + 1
    BY <1>2, <2>1
  <2>4. \A k \in 1..(Len(heap) + 1) : Append(heap, e)[k] = IF k <= Len(heap) THEN heap[k] ELSE e
    BY <1>2, <2>1, <2>2
  <2>5. Len(h) = Len(heap) + 1
    BY <1>6, <2>3 DEF Alike
  <2>6. DOMAIN h = 1..Len(h)
    BY <1>6 DEF IsHeap
  <2> QED BY <2>2, <2>3, <2>4, <2>5, <2>6
<1>8. \A k \in 1..Len(h) : h[k].sequence < sequence + 1
  <2> SUFFICES ASSUME NEW k \in 1..Len(h) PROVE h[k].sequence < sequence + 1
    OBVIOUS
  <2>1. PICK j \in 1..(Len(heap) + 1) : h[k] = Append(heap, e)[j]
    BY <1>6, <1>7 DEF Alike
  <2>2. CASE j <= Len(heap)
    <3>1. j \in 1..Len(heap) /\ h[k] = heap[j]
      BY <1>7, <2>1, <2>2
    <3>2. heap[j] \in Entry
      BY <3>1 DEF HeapInv, IsHeap
    <3> QED BY <1>2, <3>1, <3>2 DEF HeapInv, Entry
  <2>3. CASE ~(j <= Len(heap))
    BY <1>2, <1>7, <2>1, <2>3
  <2> QED BY <2>2, <2>3
<1>9. Entries(heap) \subseteq Entries(h)
  <2> SUFFICES ASSUME NEW k \in 1..Len(heap) PROVE \E j \in 1..Len(h) : h[j] = heap[k]
    BY <1>7 DEF Entries
  <2>1. k \in 1..(Len(heap) + 1) /\ Append(heap, e)[k] = heap[k]
    BY <1>7
  <2> QED BY <2>1, <1>6, <1>7 DEF Alike
<1>10. /\ IsHeap(heap') /\ Ordered(heap')
       /\ \A k \in 1..Len(heap') : \E j \in 1..Len(h) : heap'[k] = h[j]
       /\ \A d \in Entries(h) \ Entries(heap') : \A f \in Entries(heap') : Before(d, f)
  BY <1>5, <1>6, RunNextKeeps
<1>11. HeapInv'
  BY <1>2, <1>5, <1>8, <1>10 DEF HeapInv
<1> QED BY <1>9, <1>10, <1>11

LEMMA FinishKeeps ==
  ASSUME HeapInv, NEW t, Finish(t)
  PROVE  HeapInv' /\ \A e \in Entries(heap) \ Entries(heap') : \A f \in Entries(heap') : Before(e, f)
<1>1. PICK s : s = [stage EXCEPT ![t] = "ended"]
  OBVIOUS
<1>2. PICK n : n = active - 1
  OBVIOUS
<1>3. PICK h : h = heap
  OBVIOUS
<1>4. RunNext(h, n, s) /\ sequence' = sequence /\ IsHeap(h) /\ Ordered(h)
  BY <1>1, <1>2, <1>3 DEF Finish, HeapInv
<1>5. /\ IsHeap(heap') /\ Ordered(heap')
      /\ \A k \in 1..Len(heap') : \E j \in 1..Len(h) : heap'[k] = h[j]
      /\ \A d \in Entries(h) \ Entries(heap') : \A f \in Entries(heap') : Before(d, f)
  BY <1>4, RunNextKeeps
<1> QED BY <1>3, <1>4, <1>5 DEF HeapInv

-----------------------------------------------------------------------------
(* The queue of idle workers, of which some may be dead.                    *)
Dead(s, alive) == {i \in 1..Len(s) : ~alive[s[i]]}
Deaths(s, alive) == Cardinality(Dead(s, alive))
Cost(w, alive) == IF alive[w] THEN 0 ELSE 1

LEMMA DeadFinite ==
  ASSUME NEW s \in Seq(Workers), NEW alive
  PROVE  IsFiniteSet(Dead(s, alive)) /\ Deaths(s, alive) \in Nat
<1>1. Len(s) \in Nat
  OBVIOUS
<1>2. IsFiniteSet(1..Len(s))
  BY <1>1, FS_Interval
<1>3. IsFiniteSet(Dead(s, alive))
  BY <1>2, FS_Subset DEF Dead
<1> QED BY <1>3, FS_CardinalityType DEF Deaths

LEMMA Appended ==
  ASSUME NEW s \in Seq(Workers), NEW w \in Workers, NEW t, t = Append(s, w)
  PROVE  /\ t \in Seq(Workers) /\ Len(t) = Len(s) + 1 /\ Len(s) \in Nat
         /\ t[Len(s) + 1] = w /\ \A i \in 1..Len(s) : t[i] = s[i]
OBVIOUS

LEMMA AppendedCost ==
  ASSUME NEW s \in Seq(Workers), NEW alive, NEW w \in Workers, NEW t, t = Append(s, w)
  PROVE  Deaths(t, alive) = Deaths(s, alive) + Cost(w, alive)
<1>1. PICK n : n = Len(s)
  OBVIOUS
<1>2. n \in Nat /\ t \in Seq(Workers) /\ Len(t) = n + 1 /\ t[n + 1] = w /\ \A i \in 1..n : t[i] = s[i]
  BY <1>1
<1>3. PICK D : D = Dead(s, alive)
  OBVIOUS
<1>4. IsFiniteSet(D) /\ n + 1 \notin D
  BY <1>1, <1>2, <1>3, DeadFinite DEF Dead
<1>5. Dead(t, alive) = IF alive[w] THEN D ELSE D \cup {n + 1}
  <2>1. \A i \in 1..(n + 1) : i = n + 1 \/ i \in 1..n
    BY <1>2
  <2>2. \A i \in 1..n : i \in 1..(n + 1) /\ i # n + 1
    BY <1>2
  <2>3. n + 1 \in 1..(n + 1)
    BY <1>2
  <2>4. Dead(t, alive) = {i \in 1..(n + 1) : ~alive[t[i]]} /\ D = {i \in 1..n : ~alive[s[i]]}
    BY <1>1, <1>2, <1>3 DEF Dead
  <2> QED BY <1>2, <2>1, <2>2, <2>3, <2>4
<1>6. Cardinality(D \cup {n + 1}) = Cardinality(D) + 1
  BY <1>4, FS_AddElement
<1>7. Cardinality(D) \in Nat
  BY <1>4, FS_CardinalityType
<1> QED BY <1>3, <1>5, <1>6, <1>7 DEF Deaths, Cost

(* The queue of idle workers without its first.                             *)
LEMMA HeadOff ==
  ASSUME NEW s \in Seq(Workers), s # <<>>, NEW alive, NEW t, t = Tail(s)
  PROVE  /\ t \in Seq(Workers) /\ Len(s) \in Nat \ {0} /\ Len(t) = Len(s) - 1
         /\ Head(s) \in Workers /\ Head(s) = s[1] /\ \A i \in 1..Len(t) : t[i] = s[i + 1]
         /\ Deaths(t, alive) = Deaths(s, alive) - Cost(Head(s), alive)
<1>1. PICK n : n = Len(s)
  OBVIOUS
<1>2. /\ n \in Nat /\ n # 0 /\ t \in Seq(Workers) /\ Len(t) = n - 1 /\ \A i \in 1..(n - 1) : t[i] = s[i + 1]
      /\ Head(s) = s[1] /\ s[1] \in Workers
  BY <1>1
<1>3. PICK D : D = Dead(s, alive)
  OBVIOUS
<1>4. PICK E : E = Dead(t, alive)
  OBVIOUS
<1>5. IsFiniteSet(D) /\ IsFiniteSet(E) /\ IsFiniteSet(D \ {1})
  BY <1>2, <1>3, <1>4, DeadFinite, FS_RemoveElement
<1>6. D = {i \in 1..n : ~alive[s[i]]} /\ E = {i \in 1..(n - 1) : ~alive[t[i]]}
  BY <1>1, <1>2, <1>3, <1>4 DEF Dead
<1>7. ExistsBijection(E, D \ {1})
  <2> DEFINE f == [i \in E |-> i + 1]
  <2>1. \A i \in E : i + 1 \in D \ {1}
    BY <1>2, <1>6
  <2>2. \A i, j \in E : i + 1 = j + 1 => i = j
    BY <1>2, <1>6
  <2>3. \A j \in D \ {1} : j - 1 \in E /\ (j - 1) + 1 = j
    <3> SUFFICES ASSUME NEW j \in D \ {1} PROVE j - 1 \in E /\ (j - 1) + 1 = j
      OBVIOUS
    <3>1. j \in 1..n /\ j # 1
      BY <1>6
    <3>2. PICK i : i = j - 1
      OBVIOUS
    <3>3. i \in 1..(n - 1) /\ i + 1 = j
      BY <1>2, <3>1, <3>2
    <3>4. t[i] = s[j]
      BY <1>2, <3>3
    <3> QED BY <1>6, <3>2, <3>3, <3>4
  <2>4. \A j \in D \ {1} : \E i \in E : f[i] = j
    BY <2>3
  <2>5. f \in Bijection(E, D \ {1})
    BY <2>1, <2>2, <2>4 DEF Bijection, Injection, Surjection, IsInjective
  <2> QED BY <2>5 DEF ExistsBijection
<1>8. Cardinality(D \ {1}) = Cardinality(E)
  BY <1>5, <1>7, FS_Bijection
<1>9. Cardinality(D \ {1}) = IF 1 \in D THEN Cardinality(D) - 1 ELSE Cardinality(D)
  BY <1>5, FS_RemoveElement
<1>10. 1 \in D <=> ~alive[s[1]]
  BY <1>2, <1>6
<1>11. Cardinality(D) \in Nat
  BY <1>5, FS_CardinalityType
<1>12. Deaths(t, alive) = Deaths(s, alive) - Cost(Head(s), alive)
  BY <1>2, <1>3, <1>4, <1>8, <1>9, <1>10, <1>11 DEF Deaths, Cost
<1> QED BY <1>1, <1>2, <1>12

(* A live worker is idle once.                                              *)
Once(s, alive) == \A i, j \in 1..Len(s) : s[i] = s[j] /\ alive[s[i]] => i = j

LEMMA OthersAre ==
  ASSUME NEW s \in Seq(Workers), NEW w, NEW alive, NEW t, t = Others(s, w), Once(s, alive)
  PROVE  /\ t \in Seq(Workers) /\ Len(t) <= Len(s)
         /\ \A k \in 1..Len(t) : t[k] # w /\ \E i \in 1..Len(s) : t[k] = s[i]
         /\ Once(t, alive)
         /\ Deaths(t, alive) <= Deaths(s, alive)
<1> DEFINE N == Len(s)
           Eq(g, m) == g = [n \in 0..m |-> IF n = 0 THEN <<>>
                                           ELSE IF s[n] = w THEN g[n - 1] ELSE Append(g[n - 1], s[n])]
           it == CHOOSE g : Eq(g, N)
<1>0. N \in Nat
  OBVIOUS
<1>1. Others(s, w) = it[N]
  BY DEF Others
<1>2. \A m \in Nat : \E g : Eq(g, m)
  <2> DEFINE S == {m \in Nat : \E g : Eq(g, m)}
  <2>1. 0 \in S
    <3>1. Eq([n \in 0..0 |-> <<>>], 0)
      OBVIOUS
    <3> QED BY <3>1
  <2>2. ASSUME NEW m \in Nat, m \in S PROVE m + 1 \in S
    <3>1. PICK g : Eq(g, m)
      BY <2>2
    <3>2. PICK last : last = IF s[m + 1] = w THEN g[m] ELSE Append(g[m], s[m + 1])
      OBVIOUS
    <3> DEFINE f == [n \in 0..(m + 1) |-> IF n <= m THEN g[n] ELSE last]
    <3>3. ASSUME NEW n \in 0..(m + 1)
          PROVE  f[n] = IF n = 0 THEN <<>> ELSE IF s[n] = w THEN f[n - 1] ELSE Append(f[n - 1], s[n])
      <4>1. CASE n = 0
        BY <3>1, <4>1
      <4>2. CASE n \in 1..m
        <5>1. n - 1 \in 0..m /\ n \in 0..m /\ n # 0
          BY <4>2
        <5>2. g[n] = IF s[n] = w THEN g[n - 1] ELSE Append(g[n - 1], s[n])
          BY <3>1, <5>1
        <5>3. f[n] = g[n] /\ f[n - 1] = g[n - 1]
          BY <5>1
        <5> QED BY <5>1, <5>2, <5>3
      <4>3. CASE n = m + 1
        <5>1. f[n] = last /\ f[n - 1] = g[m] /\ n # 0
          BY <4>3
        <5> QED BY <3>2, <4>3, <5>1
      <4> QED BY <4>1, <4>2, <4>3
    <3>4. Eq(f, m + 1)
      BY <3>3
    <3>5. \E e : Eq(e, m + 1)
      <4> HIDE DEF f
      <4> QED BY <3>4
    <3> QED
      <4> HIDE DEF Eq
      <4> QED BY <3>5
  <2> HIDE DEF S
  <2>3. \A m \in Nat : m \in S
    BY <2>1, <2>2, Inductive
  <2> QED BY <2>3 DEF S
<1>3. Eq(it, N)
  BY <1>0, <1>2
<1> HIDE DEF it
<1>4. it[0] = <<>> /\ \A n \in 1..N : it[n] = IF s[n] = w THEN it[n - 1] ELSE Append(it[n - 1], s[n])
  <2>1. \A n \in 0..N : it[n] = IF n = 0 THEN <<>> ELSE IF s[n] = w THEN it[n - 1] ELSE Append(it[n - 1], s[n])
    BY <1>3
  <2>2. 0 \in 0..N /\ \A n \in 1..N : n \in 0..N /\ n # 0
    BY <1>0
  <2> HIDE DEF Eq
  <2>3. it[0] = <<>>
    BY <2>1, <2>2
  <2> QED BY <2>1, <2>2, <2>3
<1>d. PICK D : D = [n \in Nat |-> {i \in 1..n : ~alive[s[i]]}]
  OBVIOUS
<1>f. \A n \in Nat : IsFiniteSet(D[n]) /\ Cardinality(D[n]) \in Nat
  <2> SUFFICES ASSUME NEW n \in Nat PROVE IsFiniteSet(D[n]) /\ Cardinality(D[n]) \in Nat
    OBVIOUS
  <2>1. IsFiniteSet(1..n)
    BY FS_Interval
  <2>2. D[n] \in SUBSET (1..n)
    BY <1>d
  <2>3. IsFiniteSet(D[n])
    BY <2>1, <2>2, FS_Subset
  <2> QED BY <2>3, FS_CardinalityType
<1>g. ASSUME NEW n \in Nat PROVE Cardinality(D[n + 1]) = Cardinality(D[n]) + Cost(s[n + 1], alive)
  <2>1. D[n + 1] = IF alive[s[n + 1]] THEN D[n] ELSE D[n] \cup {n + 1}
    <3>1. \A i : i \in 1..(n + 1) <=> i \in 1..n \/ i = n + 1
      OBVIOUS
    <3>2. D[n] = {i \in 1..n : ~alive[s[i]]} /\ D[n + 1] = {i \in 1..(n + 1) : ~alive[s[i]]}
      BY <1>d
    <3> QED BY <3>1, <3>2
  <2>2. n + 1 \notin D[n]
    BY <1>d
  <2>3. Cardinality(D[n] \cup {n + 1}) = Cardinality(D[n]) + 1
    BY <1>f, <2>2, FS_AddElement
  <2>4. CASE alive[s[n + 1]]
    BY <1>f, <2>1, <2>4 DEF Cost
  <2>5. CASE ~alive[s[n + 1]]
    BY <1>f, <2>1, <2>3, <2>5 DEF Cost
  <2> QED BY <2>4, <2>5
<1> DEFINE P(b, n) == /\ b \in Seq(Workers) /\ Len(b) <= n
                      /\ \A k \in 1..Len(b) : b[k] # w /\ \E i \in 1..n : b[k] = s[i]
                      /\ Once(b, alive)
                      /\ Deaths(b, alive) <= Cardinality(D[n])
           S == {n \in Nat : n <= N => P(it[n], n)}
<1>5. 0 \in S
  <2>1. <<>> \in Seq(Workers) /\ Len(<<>>) = 0 /\ Once(<<>>, alive)
    BY DEF Once
  <2>2. Dead(<<>>, alive) = {}
    BY <2>1 DEF Dead
  <2>3. Cardinality({}) = 0
    BY FS_EmptySet
  <2>4. Deaths(<<>>, alive) <= Cardinality(D[0])
    <3>1. Cardinality(D[0]) \in Nat
      BY <1>f
    <3>2. Deaths(<<>>, alive) = 0
      BY <2>2, <2>3 DEF Deaths
    <3> QED BY <3>1, <3>2
  <2>5. P(<<>>, 0)
    BY <2>1, <2>4
  <2> HIDE DEF P
  <2> QED BY <1>0, <1>4, <2>5
<1>6. ASSUME NEW n \in Nat, n \in S PROVE n + 1 \in S
  <2> SUFFICES ASSUME n + 1 <= N PROVE P(it[n + 1], n + 1)
    OBVIOUS
  <2>1. PICK b : b = it[n]
    OBVIOUS
  <2>2. PICK x : x = s[n + 1]
    OBVIOUS
  <2>3. P(b, n) /\ x \in Workers
    BY <1>0, <1>6, <2>1, <2>2
  <2>4. n + 1 \in 1..N
    BY <1>0
  <2>5. it[n + 1] = IF x = w THEN b ELSE Append(b, x)
    BY <1>4, <2>1, <2>2, <2>4
  <2>6. Cardinality(D[n + 1]) = Cardinality(D[n]) + Cost(x, alive) /\ Cardinality(D[n]) \in Nat
    BY <1>f, <1>g, <2>2
  <2>7. Deaths(b, alive) \in Nat
    BY <2>3, DeadFinite
  <2>8. \A i \in 1..n : i \in 1..(n + 1) /\ i \in 1..N
    BY <1>0
  <2>9. CASE x = w
    <3>1. \A k \in 1..Len(b) : \E i \in 1..(n + 1) : b[k] = s[i]
      BY <2>3, <2>8
    <3>2. Len(b) <= n + 1
      BY <2>3
    <3>3. Deaths(b, alive) <= Cardinality(D[n + 1])
      BY <2>3, <2>6, <2>7 DEF Cost
    <3> QED BY <2>3, <2>5, <2>9, <3>1, <3>2, <3>3
  <2>10. CASE x # w
    <3>1. PICK c : c = Append(b, x)
      OBVIOUS
    <3>2. /\ c \in Seq(Workers) /\ Len(c) = Len(b) + 1 /\ Len(b) \in Nat
          /\ c[Len(b) + 1] = x /\ \A i \in 1..Len(b) : c[i] = b[i]
          /\ Deaths(c, alive) = Deaths(b, alive) + Cost(x, alive)
      <4>1. b \in Seq(Workers) /\ x \in Workers
        BY <2>3
      <4> HIDE DEF P, S, Eq, N
      <4>2. /\ c \in Seq(Workers) /\ Len(c) = Len(b) + 1 /\ Len(b) \in Nat
            /\ c[Len(b) + 1] = x /\ \A i \in 1..Len(b) : c[i] = b[i]
        BY <3>1, <4>1, Appended
      <4>3. Deaths(c, alive) = Deaths(b, alive) + Cost(x, alive)
        BY <3>1, <4>1, AppendedCost
      <4> QED BY <4>2, <4>3
    <3>3. \A k \in 1..Len(c) : k \in 1..Len(b) \/ k = Len(b) + 1
      BY <3>2
    <3>4. ASSUME NEW k \in 1..Len(c) PROVE c[k] # w /\ \E i \in 1..(n + 1) : c[k] = s[i]
      <4>1. CASE k \in 1..Len(b)
        BY <2>3, <2>8, <3>2, <4>1
      <4>2. CASE k = Len(b) + 1
        <5>1. n + 1 \in 1..(n + 1)
          OBVIOUS
        <5> QED BY <2>2, <2>10, <3>2, <4>2, <5>1
      <4> QED BY <3>3, <4>1, <4>2
    <3>5. ASSUME NEW k \in 1..Len(b), b[k] = x, alive[x] PROVE FALSE
      <4>1. PICK i \in 1..n : b[k] = s[i]
        BY <2>3
      <4>2. i = n + 1
        BY <2>2, <2>4, <2>8, <3>5, <4>1 DEF Once
      <4> QED BY <4>2
    <3>6. ASSUME NEW i \in 1..Len(c), NEW j \in 1..Len(c), c[i] = c[j], alive[c[i]] PROVE i = j
      <4>1. CASE i \in 1..Len(b) /\ j \in 1..Len(b)
        BY <2>3, <3>2, <3>6, <4>1 DEF Once
      <4>2. CASE i \in 1..Len(b) /\ j = Len(b) + 1
        BY <3>2, <3>5, <3>6, <4>2
      <4>3. CASE i = Len(b) + 1 /\ j \in 1..Len(b)
        BY <3>2, <3>5, <3>6, <4>3
      <4> QED BY <3>3, <4>1, <4>2, <4>3
    <3>7. Len(c) <= n + 1 /\ Deaths(c, alive) <= Cardinality(D[n + 1])
      BY <2>3, <2>6, <2>7, <3>2 DEF Cost
    <3>8. P(c, n + 1)
      BY <3>2, <3>4, <3>6, <3>7 DEF Once
    <3> HIDE DEF P
    <3> QED BY <2>5, <2>10, <3>1, <3>8
  <2> QED BY <2>9, <2>10
<1> HIDE DEF S
<1>7. N \in S
  BY <1>0, <1>5, <1>6, Inductive
<1>8. P(it[N], N)
  <2> HIDE DEF P
  <2> QED BY <1>0, <1>7 DEF S
<1>9. Cardinality(D[N]) = Deaths(s, alive)
  BY <1>0, <1>d DEF Dead, Deaths
<1> QED BY <1>1, <1>8, <1>9

(* A worker that is idle at one place at most dies.                         *)
LEMMA DeadWhen ==
  ASSUME NEW s \in Seq(Workers), NEW alive \in [Workers -> BOOLEAN], NEW w \in Workers, alive[w],
         \A i, j \in 1..Len(s) : s[i] = w /\ s[j] = w => i = j,
         NEW after, ~after[w], \A v \in Workers : v # w => (after[v] <=> alive[v])
  PROVE  /\ Deaths(s, alive) \in Nat
         /\ \A i \in 1..Len(s) : s[i] = w => Deaths(s, after) = Deaths(s, alive) + 1
         /\ (\A i \in 1..Len(s) : s[i] # w) => Deaths(s, after) = Deaths(s, alive)
<1>1. \A v \in Workers : after[v] <=> v # w /\ alive[v]
  OBVIOUS
<1>2. \A i \in 1..Len(s) : s[i] \in Workers
  OBVIOUS
<1>3. PICK D : D = Dead(s, alive)
  OBVIOUS
<1>4. IsFiniteSet(D) /\ Cardinality(D) \in Nat /\ Deaths(s, alive) = Cardinality(D)
  BY <1>3, DeadFinite DEF Deaths
<1>5. CASE \E i \in 1..Len(s) : s[i] = w
  <2>1. PICK i \in 1..Len(s) : s[i] = w
    BY <1>5
  <2>2. i \notin D
    BY <1>3, <2>1 DEF Dead
  <2>3. Dead(s, after) = D \cup {i}
    BY <1>1, <1>2, <1>3, <2>1 DEF Dead
  <2>4. Deaths(s, after) = Deaths(s, alive) + 1
    BY <1>3, <1>4, <2>2, <2>3, FS_AddElement DEF Deaths
  <2> QED BY <1>4, <1>5, <2>4
<1>6. CASE ~ \E i \in 1..Len(s) : s[i] = w
  <2>1. Dead(s, after) = D
    BY <1>1, <1>2, <1>3, <1>6 DEF Dead
  <2> QED BY <1>3, <1>4, <1>6, <2>1 DEF Deaths
<1> QED BY <1>4, <1>5, <1>6

-----------------------------------------------------------------------------
(* A pool p, with the workers that are alive, the runs they work on and the *)
(* letters on their way.                                                    *)
Runs == Tasks \X Nat

PoolType ==
  [workers : SUBSET Workers, idle : Seq(Workers), queue : Seq(Runs), current : [Workers -> Runs \cup {NoRun}]]

IdleIn(p, w) == \E i \in 1..Len(p.idle) : p.idle[i] = w

IdleSound(p, alive) ==
  /\ \A w \in Workers : IdleIn(p, w) => w \in p.workers
  /\ Once(p.idle, alive)
  /\ \A w \in Workers : IdleIn(p, w) /\ alive[w] => p.current[w] = NoRun

WorkSound(p, alive, work) ==
  /\ \A w \in Workers : p.current[w] # NoRun => w \in p.workers
  /\ \A w \in Workers : alive[w] \/ work[w] = {}
  /\ \A w \in Workers : \A r, s \in work[w] : r = s
  /\ \A w \in p.workers : work[w] \subseteq {p.current[w]}

MailSound(p, work, letters) ==
  \A m \in letters : m[1] \in p.workers =>
    m[2] = p.current[m[1]] /\ work[m[1]] = {} /\ ~IdleIn(p, m[1])

Typed(p, alive, work, letters) ==
  /\ p \in PoolType /\ IsFiniteSet(p.workers)
  /\ alive \in [Workers -> BOOLEAN] /\ work \in [Workers -> SUBSET Runs] /\ letters \subseteq Workers \X Runs

Sound(p, alive, work, letters) ==
  /\ Typed(p, alive, work, letters)
  /\ IdleSound(p, alive) /\ WorkSound(p, alive, work) /\ MailSound(p, work, letters)

(* What deaths have cost so far, and what the dead in the pool may cost.    *)
Spent(gone, s, alive, errors) ==
  Cardinality(gone) + Deaths(s, alive) + (IF kind = "thread" THEN 0 ELSE Cardinality(errors))

Handing(p, w, run) == [p EXCEPT !.idle = Tail(@), !.queue = Tail(@), !.current[w] = run]
Given(alive, work, w, run) == IF alive[w] THEN [work EXCEPT ![w] = @ \cup {run}] ELSE work

(* One round of schedule(): a run is handed to an idle worker.              *)
LEMMA Handed ==
  ASSUME NEW p, NEW alive, NEW work, NEW letters, Sound(p, alive, work, letters), p.idle # <<>>, p.queue # <<>>,
         NEW w, w = Head(p.idle), NEW run, run = Head(p.queue),
         NEW q, q = Handing(p, w, run), NEW new, new = Given(alive, work, w, run)
  PROVE  /\ Sound(q, alive, new, letters) /\ q.workers = p.workers
         /\ w \in p.workers /\ run \in Runs /\ \A m \in letters : m[1] # w
         /\ Len(p.queue) \in Nat \ {0} /\ Len(q.queue) = Len(p.queue) - 1 /\ q.queue \in Seq(Runs)
         /\ Len(p.idle) \in Nat \ {0} /\ Len(q.idle) = Len(p.idle) - 1 /\ q.idle \in Seq(Workers)
         /\ Deaths(q.idle, alive) = Deaths(p.idle, alive) - Cost(w, alive)
<1>1. /\ p.idle \in Seq(Workers) /\ p.queue \in Seq(Runs) /\ p.current \in [Workers -> Runs \cup {NoRun}]
      /\ p.workers \in SUBSET Workers /\ IsFiniteSet(p.workers) /\ work \in [Workers -> SUBSET Runs]
      /\ alive \in [Workers -> BOOLEAN] /\ letters \subseteq Workers \X Runs
  BY DEF Sound, Typed, PoolType
<1>2. /\ q.workers = p.workers /\ q.idle = Tail(p.idle) /\ q.queue = Tail(p.queue)
      /\ q.current = [p.current EXCEPT ![w] = run]
  BY DEF Handing, Sound, Typed, PoolType
<1>3. /\ Tail(p.idle) \in Seq(Workers) /\ Len(p.idle) \in Nat \ {0} /\ Len(Tail(p.idle)) = Len(p.idle) - 1
      /\ w \in Workers /\ w = p.idle[1] /\ \A i \in 1..(Len(p.idle) - 1) : Tail(p.idle)[i] = p.idle[i + 1]
  BY <1>1
<1>4. run \in Runs /\ Tail(p.queue) \in Seq(Runs) /\ Len(p.queue) \in Nat \ {0} /\ Len(Tail(p.queue)) = Len(p.queue) - 1
  BY <1>1
<1>5. NoRun \notin Runs
  BY IsolationConstantsOK DEF IsolationConstantsOK, Runs
<1>6. q \in PoolType
  <2>1. q = [workers |-> q.workers, idle |-> q.idle, queue |-> q.queue, current |-> q.current]
    BY DEF Handing, Sound, Typed, PoolType
  <2>2. q.current \in [Workers -> Runs \cup {NoRun}]
    BY <1>1, <1>2, <1>4
  <2> QED BY <1>1, <1>2, <1>3, <1>4, <2>1, <2>2 DEF PoolType
<1>7. IdleIn(p, w) /\ w \in p.workers
  <2>1. 1 \in 1..Len(p.idle)
    BY <1>3
  <2> QED BY <1>3, <2>1 DEF IdleIn, Sound, IdleSound, Once
<1>8. ASSUME NEW v, IdleIn(q, v) PROVE IdleIn(p, v) /\ (alive[v] => v # w)
  <2>1. PICK i \in 1..(Len(p.idle) - 1) : p.idle[i + 1] = v
    <3>1. PICK i \in 1..Len(q.idle) : q.idle[i] = v
      BY <1>8 DEF IdleIn
    <3>2. i \in 1..(Len(p.idle) - 1) /\ q.idle[i] = Tail(p.idle)[i]
      BY <1>2, <1>3
    <3> QED BY <1>3, <3>1, <3>2
  <2>2. i + 1 \in 1..Len(p.idle) /\ 1 \in 1..Len(p.idle) /\ i + 1 # 1
    BY <1>3
  <2> QED BY <1>3, <2>1, <2>2 DEF IdleIn, Sound, IdleSound, Once
<1>9. \A v \in Workers : q.current[v] = IF v = w THEN run ELSE p.current[v]
  BY <1>1, <1>2
<1>10. \A v \in Workers : new[v] = IF v = w /\ alive[w] THEN work[w] \cup {run} ELSE work[v]
  BY <1>1, <1>3 DEF Given
<1>11. work[w] = {}
  <2>1. CASE alive[w]
    <3>1. p.current[w] = NoRun
      BY <1>3, <1>7, <2>1 DEF Sound, IdleSound
    <3>2. work[w] \subseteq {p.current[w]} /\ work[w] \subseteq Runs
      BY <1>1, <1>3, <1>7 DEF Sound, WorkSound
    <3> QED BY <1>5, <3>1, <3>2
  <2>2. CASE ~alive[w]
    BY <1>3, <2>2 DEF Sound, WorkSound
  <2> QED BY <2>1, <2>2
<1>12. \A m \in letters : m[1] # w
  BY <1>7 DEF Sound, MailSound
<1>13. IdleSound(q, alive)
  <2>1. \A v \in Workers : IdleIn(q, v) => v \in q.workers
    BY <1>2, <1>8 DEF Sound, IdleSound
  <2>2. ASSUME NEW i \in 1..Len(q.idle), NEW j \in 1..Len(q.idle), q.idle[i] = q.idle[j], alive[q.idle[i]] PROVE i = j
    <3>0. Len(q.idle) = Len(p.idle) - 1 /\ Len(p.idle) \in Nat
      BY <1>2, <1>3
    <3>1. i + 1 \in 1..Len(p.idle) /\ j + 1 \in 1..Len(p.idle) /\ i \in Nat /\ j \in Nat
      BY <3>0
    <3>2. p.idle[i + 1] = q.idle[i] /\ p.idle[j + 1] = q.idle[j]
      <4>1. i \in 1..(Len(p.idle) - 1) /\ j \in 1..(Len(p.idle) - 1) /\ q.idle = Tail(p.idle)
        <5>1. q.idle = Tail(p.idle) /\ Len(q.idle) = Len(p.idle) - 1
          BY <1>2, <1>3
        <5> QED BY <5>1
      <4>2. Tail(p.idle)[i] = p.idle[i + 1] /\ Tail(p.idle)[j] = p.idle[j + 1]
        BY <1>3, <4>1
      <4> QED BY <4>1, <4>2
    <3>3. i + 1 = j + 1
      BY <2>2, <3>1, <3>2, SMTT(40) DEF Sound, IdleSound, Once
    <3> QED BY <3>1, <3>3
  <2>3. \A v \in Workers : IdleIn(q, v) /\ alive[v] => q.current[v] = NoRun
    BY <1>8, <1>9 DEF Sound, IdleSound
  <2> QED BY <2>1, <2>2, <2>3 DEF IdleSound, Once
<1>14. WorkSound(q, alive, new)
  <2>1. \A v \in Workers : q.current[v] # NoRun => v \in q.workers
    BY <1>2, <1>7, <1>9 DEF Sound, WorkSound
  <2>2. ASSUME NEW v \in Workers PROVE /\ alive[v] \/ new[v] = {}
                                       /\ \A r, s \in new[v] : r = s
                                       /\ v \in q.workers => new[v] \subseteq {q.current[v]}
    <3>1. CASE v = w /\ alive[w]
      <4>1. new[v] = {run} /\ q.current[v] = run
        BY <1>9, <1>10, <1>11, <3>1
      <4> QED BY <3>1, <4>1
    <3>2. CASE v = w /\ ~alive[w]
      <4>1. new[v] = {}
        BY <1>10, <1>11, <3>2
      <4> QED BY <4>1
    <3>3. CASE v # w
      <4>1. new[v] = work[v] /\ q.current[v] = p.current[v]
        BY <1>9, <1>10, <3>3
      <4> QED BY <1>2, <4>1 DEF Sound, WorkSound
    <3> QED BY <3>1, <3>2, <3>3
  <2> QED BY <1>1, <1>2, <2>1, <2>2 DEF WorkSound
<1>15. MailSound(q, new, letters)
  <2> SUFFICES ASSUME NEW m \in letters, m[1] \in q.workers
               PROVE  m[2] = q.current[m[1]] /\ new[m[1]] = {} /\ ~IdleIn(q, m[1])
    BY DEF MailSound
  <2>1. PICK v : v = m[1]
    OBVIOUS
  <2>2. v \in Workers /\ v # w /\ v \in p.workers
    BY <1>1, <1>2, <1>12, <2>1
  <2>3. m[2] = p.current[v] /\ work[v] = {} /\ ~IdleIn(p, v)
    BY <2>1, <2>2 DEF Sound, MailSound
  <2>4. q.current[v] = p.current[v] /\ new[v] = work[v] /\ ~IdleIn(q, v)
    BY <1>8, <1>9, <1>10, <2>2, <2>3
  <2> QED BY <2>1, <2>3, <2>4
<1>16. new \in [Workers -> SUBSET Runs]
  BY <1>1, <1>4 DEF Given
<1>17. Sound(q, alive, new, letters)
  BY <1>1, <1>2, <1>6, <1>13, <1>14, <1>15, <1>16 DEF Sound, Typed
<1>18. Deaths(q.idle, alive) = Deaths(p.idle, alive) - Cost(w, alive)
  <2>1. PICK s : s = p.idle
    OBVIOUS
  <2>2. PICK t : t = Tail(s)
    OBVIOUS
  <2>3. s \in Seq(Workers) /\ s # <<>> /\ Head(s) = w
    BY <1>1, <2>1
  <2>4. Deaths(t, alive) = Deaths(s, alive) - Cost(w, alive)
    <3>1. Deaths(t, alive) = Deaths(s, alive) - Cost(Head(s), alive)
      <4>1. s \in Seq(Workers) /\ s # <<>>
        BY <2>3
      <4> QED BY <2>2, <4>1, HeadOff
    <3> QED BY <2>3, <3>1
  <2> QED BY <1>2, <2>1, <2>2, <2>4
<1> QED BY <1>2, <1>3, <1>4, <1>7, <1>12, <1>17, <1>18

(* schedule() hands out runs until the queue or the idle workers are used   *)
(* up, and costs nothing.                                                   *)
LEMMA Scheduled ==
  ASSUME NEW p, NEW alive, NEW letters, NEW errors, Sound(p, alive, doing, letters),
         IsFiniteSet(errors), IsFiniteSet(lost), Len(p.queue) <= 1 \/ Len(p.idle) <= 1,
         Schedule(p, alive, errors)
  PROVE  /\ Sound(pool', alive, doing', letters) /\ pool'.workers = p.workers
         /\ pool'.queue # <<>> => pool'.idle = <<>>
         /\ IsFiniteSet(lost') /\ IsFiniteSet(bounced')
         /\ \A w \in bounced' :
              w \in errors \/ (w \in p.workers /\ kind = "process" /\ ~alive[w] /\ \A m \in letters : m[1] # w)
         /\ Spent(lost', pool'.idle, alive, bounced') <= Spent(lost, p.idle, alive, errors)
<1>1. CASE p.idle = <<>> \/ p.queue = <<>>
  <2>1. pool' = p /\ bounced' = errors /\ doing' = doing /\ lost' = lost
    BY <1>1 DEF Schedule
  <2>2. p.idle \in Seq(Workers)
    BY DEF Sound, Typed, PoolType
  <2>3. Cardinality(lost) \in Nat /\ Cardinality(errors) \in Nat /\ Deaths(p.idle, alive) \in Nat
    BY <2>2, DeadFinite, FS_CardinalityType
  <2>4. Spent(lost', pool'.idle, alive, bounced') <= Spent(lost, p.idle, alive, errors)
    BY <2>1, <2>3 DEF Spent
  <2>5. \A w \in bounced' : w \in errors
    BY <2>1
  <2>6. /\ Sound(pool', alive, doing', letters) /\ pool'.workers = p.workers
        /\ pool'.queue # <<>> => pool'.idle = <<>>
    BY <1>1, <2>1
  <2>7. IsFiniteSet(lost') /\ IsFiniteSet(bounced')
    BY <2>1
  <2>8. \A w \in bounced' :
          w \in errors \/ (w \in p.workers /\ kind = "process" /\ ~alive[w] /\ \A m \in letters : m[1] # w)
    BY <2>5
  <2> QED BY <2>4, <2>6, <2>7, <2>8
<1>2. CASE p.idle # <<>> /\ p.queue # <<>>
  <2>1. PICK w : w = Head(p.idle)
    OBVIOUS
  <2>2. PICK run : run = Head(p.queue)
    OBVIOUS
  <2>3. PICK q : q = Handing(p, w, run)
    OBVIOUS
  <2>4. PICK work : work = doing
    OBVIOUS
  <2>5. PICK new : new = Given(alive, work, w, run)
    OBVIOUS
  <2>6. /\ pool' = q /\ doing' = new
        /\ \/ bounced' = errors /\ lost' = IF alive[w] THEN lost ELSE lost \cup {run}
           \/ ~alive[w] /\ kind = "process" /\ bounced' = errors \cup {w} /\ lost' = lost
    BY <1>2, <2>1, <2>2, <2>3, <2>4, <2>5 DEF Schedule, Handing, Given
  <2>7. Sound(p, alive, work, letters)
    BY <2>4
  <2>8. /\ Sound(q, alive, new, letters) /\ q.workers = p.workers
        /\ w \in p.workers /\ run \in Runs /\ \A m \in letters : m[1] # w
        /\ Len(p.queue) \in Nat \ {0} /\ Len(q.queue) = Len(p.queue) - 1 /\ q.queue \in Seq(Runs)
        /\ Len(p.idle) \in Nat \ {0} /\ Len(q.idle) = Len(p.idle) - 1 /\ q.idle \in Seq(Workers)
    BY <1>2, <2>1, <2>2, <2>3, <2>5, <2>7, Handed
  <2>9. Deaths(q.idle, alive) = Deaths(p.idle, alive) - Cost(w, alive)
    BY <1>2, <2>1, <2>2, <2>3, <2>5, <2>7, Handed
  <2>10. q.queue # <<>> => q.idle = <<>>
    BY <2>8
  <2>11. Cardinality(lost) \in Nat /\ Cardinality(errors) \in Nat /\ Deaths(p.idle, alive) \in Nat
    <3>1. p.idle \in Seq(Workers)
      BY DEF Sound, Typed, PoolType
    <3> QED BY <3>1, DeadFinite, FS_CardinalityType
  <2>12. /\ IsFiniteSet(lost \cup {run}) /\ Cardinality(lost \cup {run}) <= Cardinality(lost) + 1
         /\ IsFiniteSet(errors \cup {w}) /\ Cardinality(errors \cup {w}) <= Cardinality(errors) + 1
         /\ Cardinality(lost \cup {run}) \in Nat /\ Cardinality(errors \cup {w}) \in Nat
    <3>1. PICK a : a = lost \cup {run}
      OBVIOUS
    <3>2. PICK b : b = errors \cup {w}
      OBVIOUS
    <3>3. IsFiniteSet(a) /\ Cardinality(a) = IF run \in lost THEN Cardinality(lost) ELSE Cardinality(lost) + 1
      BY <3>1, FS_AddElement
    <3>4. IsFiniteSet(b) /\ Cardinality(b) = IF w \in errors THEN Cardinality(errors) ELSE Cardinality(errors) + 1
      BY <3>2, FS_AddElement
    <3> QED BY <2>11, <3>1, <3>2, <3>3, <3>4
  <2>13. PICK d : d = Deaths(p.idle, alive)
    OBVIOUS
  <2>14. PICK e : e = Deaths(q.idle, alive)
    OBVIOUS
  <2>15. e = d - (IF alive[w] THEN 0 ELSE 1) /\ d \in Nat
    BY <2>9, <2>11, <2>13, <2>14 DEF Cost
  <2>16. Spent(lost, p.idle, alive, errors) = Cardinality(lost) + d + (IF kind = "thread" THEN 0 ELSE Cardinality(errors))
    BY <2>13 DEF Spent
  <2>17. Spent(lost', pool'.idle, alive, bounced') = Cardinality(lost') + e + (IF kind = "thread" THEN 0 ELSE Cardinality(bounced'))
    BY <2>6, <2>14 DEF Spent
  <2>18. Spent(lost', pool'.idle, alive, bounced') <= Spent(lost, p.idle, alive, errors) /\ IsFiniteSet(lost') /\ IsFiniteSet(bounced')
    <3>1. CASE alive[w] /\ bounced' = errors /\ lost' = lost
      BY <3>1, <2>11, <2>15, <2>16, <2>17
    <3>2. CASE ~alive[w] /\ bounced' = errors /\ lost' = lost \cup {run}
      BY <3>2, <2>11, <2>12, <2>15, <2>16, <2>17
    <3>3. CASE ~alive[w] /\ kind = "process" /\ bounced' = errors \cup {w} /\ lost' = lost
      BY <3>3, <2>11, <2>12, <2>15, <2>16, <2>17
    <3> QED BY <2>6, <3>1, <3>2, <3>3
  <2>19. \A v \in bounced' :
           v \in errors \/ (v \in p.workers /\ kind = "process" /\ ~alive[v] /\ \A m \in letters : m[1] # v)
    <3>1. ASSUME NEW v \in bounced', v \notin errors PROVE v = w /\ kind = "process" /\ ~alive[w]
      BY <2>6, <3>1
    <3> SUFFICES ASSUME NEW v \in bounced', v \notin errors
                 PROVE  v \in p.workers /\ kind = "process" /\ ~alive[v] /\ \A m \in letters : m[1] # v
      OBVIOUS
    <3>2. v = w /\ kind = "process" /\ ~alive[w]
      BY <3>1
    <3> QED BY <2>8, <3>2
  <2> QED BY <2>6, <2>8, <2>10, <2>18, <2>19
<1> QED BY <1>1, <1>2

-----------------------------------------------------------------------------
(* What each step does to a pool.                                           *)
LEMMA Fields ==
  ASSUME NEW p, NEW alive, NEW work, NEW letters, Sound(p, alive, work, letters)
  PROVE  /\ p.idle \in Seq(Workers) /\ p.queue \in Seq(Runs) /\ p.current \in [Workers -> Runs \cup {NoRun}]
         /\ p.workers \in SUBSET Workers /\ IsFiniteSet(p.workers) /\ work \in [Workers -> SUBSET Runs]
         /\ alive \in [Workers -> BOOLEAN] /\ letters \subseteq Workers \X Runs /\ NoRun \notin Runs
         /\ Len(p.idle) \in Nat /\ Len(p.queue) \in Nat
         /\ p = [workers |-> p.workers, idle |-> p.idle, queue |-> p.queue, current |-> p.current]
<1>1. NoRun \notin Runs
  BY IsolationConstantsOK DEF IsolationConstantsOK, Runs
<1>2. p \in PoolType /\ Typed(p, alive, work, letters)
  BY DEF Sound, Typed
<1>3. /\ p.idle \in Seq(Workers) /\ p.queue \in Seq(Runs) /\ p.current \in [Workers -> Runs \cup {NoRun}]
      /\ p.workers \in SUBSET Workers
      /\ p = [workers |-> p.workers, idle |-> p.idle, queue |-> p.queue, current |-> p.current]
  BY <1>2 DEF PoolType
<1>4. Len(p.idle) \in Nat /\ Len(p.queue) \in Nat
  BY <1>3
<1> QED BY <1>1, <1>2, <1>3, <1>4 DEF Typed

Queueing(p, run) == [p EXCEPT !.queue = Append(@, run)]

LEMMA QueueSound ==
  ASSUME NEW p, NEW alive, NEW work, NEW letters, Sound(p, alive, work, letters), NEW run \in Runs,
         NEW q, q = Queueing(p, run)
  PROVE  /\ Sound(q, alive, work, letters) /\ q.workers = p.workers /\ q.idle = p.idle
         /\ Len(p.queue) \in Nat /\ Len(q.queue) = Len(p.queue) + 1
<1>1. /\ p.queue \in Seq(Runs) /\ p = [workers |-> p.workers, idle |-> p.idle, queue |-> p.queue, current |-> p.current]
  BY Fields
<1>2. q = [workers |-> p.workers, idle |-> p.idle, queue |-> Append(p.queue, run), current |-> p.current]
  BY <1>1 DEF Queueing
<1>3. Append(p.queue, run) \in Seq(Runs) /\ Len(p.queue) \in Nat /\ Len(Append(p.queue, run)) = Len(p.queue) + 1
  BY <1>1
<1>4. q.workers = p.workers /\ q.idle = p.idle /\ q.current = p.current /\ q.queue = Append(p.queue, run)
  BY <1>2
<1>5. \A v : IdleIn(q, v) <=> IdleIn(p, v)
  BY <1>4 DEF IdleIn
<1>6. Typed(q, alive, work, letters)
  <2>1. q \in PoolType
    <3>1. p \in PoolType
      BY DEF Sound, Typed
    <3> QED BY <1>2, <1>3, <3>1 DEF PoolType
  <2> QED BY <1>4, <2>1 DEF Sound, Typed
<1>7. IdleSound(q, alive)
  BY <1>4, <1>5 DEF Sound, IdleSound
<1>8. WorkSound(q, alive, work)
  BY <1>4 DEF Sound, WorkSound
<1>9. MailSound(q, work, letters)
  BY <1>4, <1>5 DEF Sound, MailSound
<1> QED BY <1>3, <1>4, <1>6, <1>7, <1>8, <1>9 DEF Sound

Freeing(p, w) == [p EXCEPT !.current[w] = NoRun, !.idle = Append(@, w)]

LEMMA FreedSound ==
  ASSUME NEW p, NEW alive, NEW work, NEW letters, Sound(p, alive, work, letters), NEW w \in p.workers,
         work[w] = {}, \A m \in letters : m[1] # w, ~IdleIn(p, w) \/ ~alive[w],
         NEW q, q = Freeing(p, w)
  PROVE  /\ Sound(q, alive, work, letters) /\ q.workers = p.workers /\ q.queue = p.queue
         /\ Len(p.idle) \in Nat /\ Len(q.idle) = Len(p.idle) + 1
         /\ Deaths(q.idle, alive) = Deaths(p.idle, alive) + Cost(w, alive)
<1>1. /\ p.idle \in Seq(Workers) /\ p.queue \in Seq(Runs) /\ p.current \in [Workers -> Runs \cup {NoRun}]
      /\ p.workers \in SUBSET Workers /\ Len(p.idle) \in Nat /\ w \in Workers
      /\ p = [workers |-> p.workers, idle |-> p.idle, queue |-> p.queue, current |-> p.current]
  BY Fields
<1>2. PICK s : s = p.idle
  OBVIOUS
<1>3. PICK t : t = Append(s, w)
  OBVIOUS
<1>4. /\ t \in Seq(Workers) /\ Len(t) = Len(s) + 1 /\ Len(s) \in Nat
      /\ t[Len(s) + 1] = w /\ \A i \in 1..Len(s) : t[i] = s[i]
  BY <1>1, <1>2, <1>3, Appended
<1>5. Deaths(t, alive) = Deaths(s, alive) + Cost(w, alive)
  <2>1. s \in Seq(Workers) /\ w \in Workers
    BY <1>1, <1>2
  <2> QED BY <1>3, <2>1, AppendedCost
<1>6. q = [workers |-> p.workers, idle |-> t, queue |-> p.queue, current |-> [p.current EXCEPT ![w] = NoRun]]
  BY <1>1, <1>2, <1>3 DEF Freeing
<1>7. /\ q.workers = p.workers /\ q.idle = t /\ q.queue = p.queue
      /\ \A v \in Workers : q.current[v] = IF v = w THEN NoRun ELSE p.current[v]
  BY <1>1, <1>6
<1>8. \A i \in 1..Len(t) : i \in 1..Len(s) \/ i = Len(s) + 1
  BY <1>4
<1>9. ASSUME NEW v, IdleIn(q, v) PROVE v = w \/ IdleIn(p, v)
  <2>1. PICK i \in 1..Len(t) : t[i] = v
    BY <1>7, <1>9 DEF IdleIn
  <2> QED BY <1>2, <1>4, <1>8, <2>1 DEF IdleIn
<1>10. Typed(q, alive, work, letters)
  <2>1. [p.current EXCEPT ![w] = NoRun] \in [Workers -> Runs \cup {NoRun}]
    BY <1>1
  <2>2. q \in PoolType
    <3>1. p \in PoolType
      BY DEF Sound, Typed
    <3> QED BY <1>1, <1>4, <1>6, <2>1, <3>1 DEF PoolType
  <2> QED BY <1>7, <2>2 DEF Sound, Typed
<1>11. IdleSound(q, alive)
  <2>1. \A v \in Workers : IdleIn(q, v) => v \in q.workers
    BY <1>7, <1>9 DEF Sound, IdleSound
  <2>2. ASSUME NEW i \in 1..Len(t), NEW j \in 1..Len(t), t[i] = t[j], alive[t[i]] PROVE i = j
    <3>1. CASE i \in 1..Len(s) /\ j \in 1..Len(s)
      BY <1>2, <1>4, <2>2, <3>1 DEF Sound, IdleSound, Once
    <3>2. CASE i \in 1..Len(s) /\ j = Len(s) + 1
      BY <1>2, <1>4, <2>2, <3>2 DEF IdleIn
    <3>3. CASE i = Len(s) + 1 /\ j \in 1..Len(s)
      BY <1>2, <1>4, <2>2, <3>3 DEF IdleIn
    <3> QED BY <1>8, <3>1, <3>2, <3>3
  <2>3. \A v \in Workers : IdleIn(q, v) /\ alive[v] => q.current[v] = NoRun
    BY <1>7, <1>9 DEF Sound, IdleSound
  <2> QED BY <1>7, <2>1, <2>2, <2>3 DEF IdleSound, Once
<1>12. WorkSound(q, alive, work)
  <2>1. \A v \in Workers : q.current[v] # NoRun => v \in q.workers
    BY <1>7 DEF Sound, WorkSound
  <2>2. \A v \in q.workers : work[v] \subseteq {q.current[v]}
    BY <1>1, <1>7 DEF Sound, WorkSound
  <2> QED BY <2>1, <2>2 DEF Sound, WorkSound
<1>13. MailSound(q, work, letters)
  <2> SUFFICES ASSUME NEW m \in letters, m[1] \in q.workers
               PROVE  m[2] = q.current[m[1]] /\ work[m[1]] = {} /\ ~IdleIn(q, m[1])
    BY DEF MailSound
  <2>1. m[1] # w /\ m[1] \in p.workers /\ m[1] \in Workers
    BY <1>1, <1>7
  <2>2. m[2] = p.current[m[1]] /\ work[m[1]] = {} /\ ~IdleIn(p, m[1])
    BY <2>1 DEF Sound, MailSound
  <2> QED BY <1>7, <1>9, <2>1, <2>2
<1> QED BY <1>1, <1>2, <1>4, <1>5, <1>7, <1>10, <1>11, <1>12, <1>13 DEF Sound

Leaving(p, w) == [p EXCEPT !.workers = @ \ {w}, !.current[w] = NoRun, !.idle = Others(@, w)]

LEMMA WithoutSound ==
  ASSUME NEW p, NEW alive, NEW work, NEW letters, Sound(p, alive, work, letters), NEW w \in Workers,
         NEW q, q = Leaving(p, w)
  PROVE  /\ Sound(q, alive, work, letters) /\ q.workers = p.workers \ {w} /\ q.queue = p.queue
         /\ Len(p.idle) \in Nat /\ Len(q.idle) \in Nat /\ Len(q.idle) <= Len(p.idle)
         /\ Deaths(q.idle, alive) <= Deaths(p.idle, alive)
<1>1. /\ p.idle \in Seq(Workers) /\ p.queue \in Seq(Runs) /\ p.current \in [Workers -> Runs \cup {NoRun}]
      /\ p.workers \in SUBSET Workers /\ IsFiniteSet(p.workers) /\ Len(p.idle) \in Nat
      /\ p = [workers |-> p.workers, idle |-> p.idle, queue |-> p.queue, current |-> p.current]
  BY Fields
<1>2. PICK s : s = p.idle
  OBVIOUS
<1>3. PICK t : t = Others(s, w)
  OBVIOUS
<1>4. s \in Seq(Workers) /\ Once(s, alive)
  BY <1>1, <1>2 DEF Sound, IdleSound
<1>5. /\ t \in Seq(Workers) /\ Len(t) <= Len(s)
      /\ \A k \in 1..Len(t) : t[k] # w /\ \E i \in 1..Len(s) : t[k] = s[i]
      /\ Once(t, alive)
  BY <1>3, <1>4, OthersAre
<1>6. Deaths(t, alive) <= Deaths(s, alive)
  BY <1>3, <1>4, OthersAre
<1>7. q = [workers |-> p.workers \ {w}, idle |-> t, queue |-> p.queue, current |-> [p.current EXCEPT ![w] = NoRun]]
  BY <1>1, <1>2, <1>3 DEF Leaving
<1>8. /\ q.workers = p.workers \ {w} /\ q.idle = t /\ q.queue = p.queue
      /\ \A v \in Workers : q.current[v] = IF v = w THEN NoRun ELSE p.current[v]
  BY <1>1, <1>7
<1>9. ASSUME NEW v, IdleIn(q, v) PROVE v # w /\ IdleIn(p, v)
  <2>1. PICK k \in 1..Len(t) : t[k] = v
    BY <1>8, <1>9 DEF IdleIn
  <2> QED BY <1>2, <1>5, <2>1 DEF IdleIn
<1>10. Typed(q, alive, work, letters)
  <2>1. [p.current EXCEPT ![w] = NoRun] \in [Workers -> Runs \cup {NoRun}]
    BY <1>1
  <2>2. q \in PoolType
    <3>1. p.workers \ {w} \in SUBSET Workers
      BY <1>1
    <3> QED BY <1>1, <1>5, <1>7, <2>1, <3>1 DEF PoolType
  <2>3. IsFiniteSet(p.workers \ {w})
    BY <1>1, FS_RemoveElement
  <2> QED BY <1>8, <2>2, <2>3 DEF Sound, Typed
<1>11. IdleSound(q, alive)
  <2>1. \A v \in Workers : IdleIn(q, v) => v \in q.workers
    BY <1>8, <1>9 DEF Sound, IdleSound
  <2>2. \A v \in Workers : IdleIn(q, v) /\ alive[v] => q.current[v] = NoRun
    BY <1>8, <1>9 DEF Sound, IdleSound
  <2> QED BY <1>5, <1>8, <2>1, <2>2 DEF IdleSound
<1>12. WorkSound(q, alive, work)
  <2>1. \A v \in Workers : q.current[v] # NoRun => v \in q.workers
    BY <1>8 DEF Sound, WorkSound
  <2>2. \A v \in q.workers : work[v] \subseteq {q.current[v]}
    BY <1>1, <1>8 DEF Sound, WorkSound
  <2> QED BY <2>1, <2>2 DEF Sound, WorkSound
<1>13. MailSound(q, work, letters)
  <2> SUFFICES ASSUME NEW m \in letters, m[1] \in q.workers
               PROVE  m[2] = q.current[m[1]] /\ work[m[1]] = {} /\ ~IdleIn(q, m[1])
    BY DEF MailSound
  <2>1. m[1] # w /\ m[1] \in p.workers /\ m[1] \in Workers
    BY <1>1, <1>8
  <2>2. m[2] = p.current[m[1]] /\ work[m[1]] = {} /\ ~IdleIn(p, m[1])
    BY <2>1 DEF Sound, MailSound
  <2> QED BY <1>8, <1>9, <2>1, <2>2
<1>14. Len(t) \in Nat
  BY <1>5
<1> QED BY <1>1, <1>2, <1>5, <1>6, <1>8, <1>10, <1>11, <1>12, <1>13, <1>14 DEF Sound

Joining(p, f) == [p EXCEPT !.workers = @ \cup {f}, !.idle = Append(@, f)]

LEMMA ForkedSound ==
  ASSUME NEW p, NEW alive, NEW work, NEW letters, Sound(p, alive, work, letters), NEW f \in Workers,
         f \notin p.workers, ~alive[f], \A m \in letters : m[1] # f,
         NEW q, q = Joining(p, f),
         NEW now \in [Workers -> BOOLEAN], now[f], \A v \in Workers : v # f => (now[v] <=> alive[v])
  PROVE  /\ Sound(q, now, work, letters) /\ q.workers = p.workers \cup {f} /\ q.queue = p.queue
         /\ Len(p.idle) \in Nat /\ Len(q.idle) = Len(p.idle) + 1
         /\ Deaths(q.idle, now) = Deaths(p.idle, alive)
<1>1. /\ p.idle \in Seq(Workers) /\ p.queue \in Seq(Runs) /\ p.current \in [Workers -> Runs \cup {NoRun}]
      /\ p.workers \in SUBSET Workers /\ IsFiniteSet(p.workers) /\ Len(p.idle) \in Nat
      /\ alive \in [Workers -> BOOLEAN]
      /\ p = [workers |-> p.workers, idle |-> p.idle, queue |-> p.queue, current |-> p.current]
  BY Fields
<1>2. PICK s : s = p.idle
  OBVIOUS
<1>3. PICK t : t = Append(s, f)
  OBVIOUS
<1>4. /\ t \in Seq(Workers) /\ Len(t) = Len(s) + 1 /\ Len(s) \in Nat
      /\ t[Len(s) + 1] = f /\ \A i \in 1..Len(s) : t[i] = s[i]
  BY <1>1, <1>2, <1>3, Appended
<1>5. /\ now \in [Workers -> BOOLEAN] /\ now[f] /\ \A v \in Workers : v # f => (now[v] <=> alive[v])
  OBVIOUS
<1>6. \A v : IdleIn(p, v) => v # f /\ v \in Workers
  BY <1>1 DEF Sound, IdleSound, IdleIn
<1>7. Deaths(t, now) = Deaths(s, alive)
  <2>1. s \in Seq(Workers)
    BY <1>1, <1>2
  <2>2. Deaths(t, now) = Deaths(s, now) + Cost(f, now)
    BY <1>3, <2>1, AppendedCost
  <2>3. \A i \in 1..Len(s) : now[s[i]] <=> alive[s[i]]
    BY <1>2, <1>5, <1>6 DEF IdleIn
  <2>4. Dead(s, now) = Dead(s, alive)
    BY <2>3 DEF Dead
  <2>5. Deaths(s, alive) \in Nat
    BY <2>1, DeadFinite
  <2> QED BY <1>5, <2>2, <2>4, <2>5 DEF Deaths, Cost
<1>8. q = [workers |-> p.workers \cup {f}, idle |-> t, queue |-> p.queue, current |-> p.current]
  BY <1>1, <1>2, <1>3 DEF Joining
<1>9. q.workers = p.workers \cup {f} /\ q.idle = t /\ q.queue = p.queue /\ q.current = p.current
  BY <1>8
<1>10. \A i \in 1..Len(t) : i \in 1..Len(s) \/ i = Len(s) + 1
  BY <1>4
<1>11. ASSUME NEW v, IdleIn(q, v) PROVE v = f \/ IdleIn(p, v)
  <2>1. PICK i \in 1..Len(t) : t[i] = v
    BY <1>9, <1>11 DEF IdleIn
  <2> QED BY <1>2, <1>4, <1>10, <2>1 DEF IdleIn
<1>12. p.current[f] = NoRun /\ work[f] = {}
  BY DEF Sound, WorkSound
<1>13. Typed(q, now, work, letters)
  <2>1. q \in PoolType
    <3>1. p.workers \cup {f} \in SUBSET Workers
      BY <1>1
    <3> QED BY <1>1, <1>4, <1>8, <3>1 DEF PoolType
  <2>2. IsFiniteSet(p.workers \cup {f})
    BY <1>1, FS_AddElement
  <2> QED BY <1>5, <1>9, <2>1, <2>2 DEF Sound, Typed
<1>14. IdleSound(q, now)
  <2>1. \A v \in Workers : IdleIn(q, v) => v \in q.workers
    BY <1>9, <1>11 DEF Sound, IdleSound
  <2>2. ASSUME NEW i \in 1..Len(t), NEW j \in 1..Len(t), t[i] = t[j], now[t[i]] PROVE i = j
    <3>1. CASE i \in 1..Len(s) /\ j \in 1..Len(s)
      <4>1. s[i] = s[j] /\ IdleIn(p, s[i])
        BY <1>2, <1>4, <2>2, <3>1 DEF IdleIn
      <4>2. alive[s[i]]
        BY <1>4, <1>5, <1>6, <2>2, <3>1, <4>1
      <4> QED BY <1>2, <3>1, <4>1, <4>2 DEF Sound, IdleSound, Once
    <3>2. CASE i \in 1..Len(s) /\ j = Len(s) + 1
      BY <1>2, <1>4, <1>6, <2>2, <3>2 DEF IdleIn
    <3>3. CASE i = Len(s) + 1 /\ j \in 1..Len(s)
      BY <1>2, <1>4, <1>6, <2>2, <3>3 DEF IdleIn
    <3> QED BY <1>10, <3>1, <3>2, <3>3
  <2>3. \A v \in Workers : IdleIn(q, v) /\ now[v] => q.current[v] = NoRun
    BY <1>5, <1>9, <1>11, <1>12 DEF Sound, IdleSound
  <2> QED BY <1>9, <2>1, <2>2, <2>3 DEF IdleSound, Once
<1>15. WorkSound(q, now, work)
  <2>1. \A v \in Workers : q.current[v] # NoRun => v \in q.workers
    BY <1>9 DEF Sound, WorkSound
  <2>2. \A v \in Workers : now[v] \/ work[v] = {}
    BY <1>5, <1>12 DEF Sound, WorkSound
  <2>3. \A v \in q.workers : work[v] \subseteq {q.current[v]}
    BY <1>9, <1>12 DEF Sound, WorkSound
  <2> QED BY <2>1, <2>2, <2>3 DEF Sound, WorkSound
<1>16. MailSound(q, work, letters)
  <2> SUFFICES ASSUME NEW m \in letters, m[1] \in q.workers
               PROVE  m[2] = q.current[m[1]] /\ work[m[1]] = {} /\ ~IdleIn(q, m[1])
    BY DEF MailSound
  <2>1. m[1] # f /\ m[1] \in p.workers
    BY <1>9
  <2>2. m[2] = p.current[m[1]] /\ work[m[1]] = {} /\ ~IdleIn(p, m[1])
    BY <2>1 DEF Sound, MailSound
  <2> QED BY <1>9, <1>11, <2>1, <2>2
<1> QED BY <1>1, <1>2, <1>4, <1>7, <1>9, <1>13, <1>14, <1>15, <1>16 DEF Sound

LEMMA DieSound ==
  ASSUME NEW p, NEW alive, NEW work, NEW letters, Sound(p, alive, work, letters), NEW w \in Workers, alive[w],
         NEW now \in [Workers -> BOOLEAN], ~now[w], \A v \in Workers : v # w => (now[v] <=> alive[v]),
         NEW new \in [Workers -> SUBSET Runs], new[w] = {}, \A v \in Workers : v # w => new[v] = work[v]
  PROVE  /\ Sound(p, now, new, letters)
         /\ Deaths(p.idle, now) = Deaths(p.idle, alive) + (IF IdleIn(p, w) THEN 1 ELSE 0)
<1>1. /\ p.idle \in Seq(Workers) /\ alive \in [Workers -> BOOLEAN] /\ work \in [Workers -> SUBSET Runs]
  BY Fields
<1>2. /\ now \in [Workers -> BOOLEAN] /\ ~now[w] /\ \A v \in Workers : v # w => (now[v] <=> alive[v])
      /\ new \in [Workers -> SUBSET Runs] /\ new[w] = {} /\ \A v \in Workers : v # w => new[v] = work[v]
  OBVIOUS
<1>3. PICK s : s = p.idle
  OBVIOUS
<1>4. /\ \A i \in 1..Len(s) : s[i] = w => Deaths(s, now) = Deaths(s, alive) + 1
      /\ (\A i \in 1..Len(s) : s[i] # w) => Deaths(s, now) = Deaths(s, alive)
      /\ Deaths(s, alive) \in Nat
  <2>1. s \in Seq(Workers) /\ \A i, j \in 1..Len(s) : s[i] = w /\ s[j] = w => i = j
    BY <1>1, <1>3 DEF Sound, IdleSound, Once
  <2> QED BY <1>1, <1>2, <2>1, DeadWhen
<1>5. Typed(p, now, new, letters)
  BY <1>2 DEF Sound, Typed
<1>6. \A i \in 1..Len(p.idle) : p.idle[i] \in Workers
  BY <1>1
<1>7. IdleSound(p, now)
  BY <1>2, <1>6 DEF Sound, IdleSound, Once
<1>8. WorkSound(p, now, new)
  <2>1. \A v \in Workers : now[v] \/ new[v] = {}
    BY <1>2 DEF Sound, WorkSound
  <2>2. \A v \in Workers : \A r, x \in new[v] : r = x
    BY <1>2 DEF Sound, WorkSound
  <2>3. \A v \in p.workers : new[v] \subseteq {p.current[v]}
    BY <1>2, Fields DEF Sound, WorkSound
  <2> QED BY <2>1, <2>2, <2>3 DEF Sound, WorkSound
<1>9. MailSound(p, new, letters)
  BY <1>2, Fields DEF Sound, MailSound
<1> QED BY <1>3, <1>4, <1>5, <1>7, <1>8, <1>9 DEF Sound, IdleIn

LEMMA AnswerSound ==
  ASSUME NEW p, NEW alive, NEW work, NEW letters, Sound(p, alive, work, letters), NEW w \in Workers,
         NEW run \in work[w], NEW new, new = [work EXCEPT ![w] = @ \ {run}]
  PROVE  Sound(p, alive, new, letters \cup {<<w, run>>}) /\ run \in Runs
<1>1. /\ p.workers \in SUBSET Workers /\ work \in [Workers -> SUBSET Runs] /\ letters \subseteq Workers \X Runs
      /\ NoRun \notin Runs
  BY Fields
<1>2. run \in Runs /\ new \in [Workers -> SUBSET Runs] /\ \A v \in Workers : v # w => new[v] = work[v]
  BY <1>1
<1>3. new[w] = {}
  BY <1>1 DEF Sound, WorkSound
<1>4. PICK more : more = letters \cup {<<w, run>>}
  OBVIOUS
<1>5. Typed(p, alive, new, more)
  BY <1>1, <1>2, <1>4 DEF Sound, Typed
<1>6. WorkSound(p, alive, new)
  <2>1. \A v \in Workers : alive[v] \/ new[v] = {}
    BY <1>2, <1>3 DEF Sound, WorkSound
  <2>2. \A v \in Workers : \A r, x \in new[v] : r = x
    BY <1>2, <1>3 DEF Sound, WorkSound
  <2>3. \A v \in p.workers : new[v] \subseteq {p.current[v]}
    BY <1>1, <1>2, <1>3 DEF Sound, WorkSound
  <2> QED BY <2>1, <2>2, <2>3 DEF Sound, WorkSound
<1>7. MailSound(p, new, more)
  <2> SUFFICES ASSUME NEW m \in more, m[1] \in p.workers
               PROVE  m[2] = p.current[m[1]] /\ new[m[1]] = {} /\ ~IdleIn(p, m[1])
    BY DEF MailSound
  <2>1. CASE m \in letters
    <3>1. m[2] = p.current[m[1]] /\ work[m[1]] = {} /\ ~IdleIn(p, m[1])
      BY <2>1 DEF Sound, MailSound
    <3> QED BY <1>1, <1>2, <1>3, <3>1
  <2>2. CASE m = <<w, run>>
    <3>1. m[1] = w /\ m[2] = run
      BY <2>2
    <3>2. run = p.current[w]
      BY <3>1 DEF Sound, WorkSound
    <3>3. alive[w]
      BY DEF Sound, WorkSound
    <3>4. ~IdleIn(p, w)
      BY <1>1, <1>2, <3>2, <3>3 DEF Sound, IdleSound
    <3> QED BY <1>3, <3>1, <3>2, <3>4
  <2> QED BY <1>4, <2>1, <2>2
<1> QED BY <1>2, <1>4, <1>5, <1>6, <1>7 DEF Sound

-----------------------------------------------------------------------------
(* The executor in every step.                                              *)
SlotInv ==
  /\ HeapInv
  /\ active \in Int /\ active <= Concurrency /\ (heap # <<>> => active = Concurrency)

Urgent == \A e \in Entries(heap) \ Entries(heap') : \A f \in Entries(heap') : Before(e, f)

(* runNext() leaves no slot free while the heap has entries.                *)
LEMMA SlotTaken ==
  ASSUME NEW h, IsHeap(h), Ordered(h), NEW n \in Int, n <= Concurrency,
         n = Concurrency \/ Len(h) <= 1 \/ n = Concurrency - 1, NEW s, RunNext(h, n, s)
  PROVE  active' \in Int /\ active' <= Concurrency /\ (heap' # <<>> => active' = Concurrency)
<1>0. Concurrency \in Nat \ {0} /\ h \in Seq(Entry)
  BY ExecutorConstantsOK DEF ExecutorConstantsOK, IsHeap
<1>1. CASE n >= Concurrency \/ h = <<>>
  <2>1. heap' = h /\ active' = n
    BY <1>1 DEF RunNext
  <2> QED BY <1>0, <1>1, <2>1
<1>2. CASE ~(n >= Concurrency \/ h = <<>>)
  <2>1. PICK p : p = HeapPop(h)
    OBVIOUS
  <2>2. heap' = p /\ active' = n + 1
    BY <1>2, <2>1 DEF RunNext
  <2>3. Len(h) \in Nat \ {0} /\ Len(p) = Len(h) - 1 /\ IsHeap(p)
    BY <1>2, <2>1, Popped
  <2>4. Len(h) <= 1 => p = <<>>
    <3>1. p \in Seq(Entry)
      BY <2>3 DEF IsHeap
    <3> QED BY <2>3, <3>1
  <2> QED BY <1>0, <1>2, <2>2, <2>4
<1> QED BY <1>1, <1>2

LEMMA SubmitSlots ==
  ASSUME SlotInv, NEW t \in Tasks, Submit(t)
  PROVE  SlotInv' /\ Urgent
<1>1. HeapInv' /\ Urgent
  BY SubmitKeeps DEF SlotInv, Urgent
<1>2. PICK e : e = [task |-> t, priority |-> Priority[t], sequence |-> sequence]
  OBVIOUS
<1>3. e \in Entry /\ e.sequence = sequence /\ sequence \in Nat
  BY <1>2, ExecutorConstantsOK DEF Entry, SlotInv, HeapInv, ExecutorConstantsOK
<1>4. PICK h : h = HeapPush(heap, e)
  OBVIOUS
<1>5. PICK s : s = [stage EXCEPT ![t] = "queued"]
  OBVIOUS
<1>6. RunNext(h, active, s)
  BY <1>2, <1>4, <1>5 DEF Submit
<1>7. IsHeap(h) /\ Ordered(h) /\ Alike(h, Append(heap, e))
  BY <1>3, <1>4, Pushed DEF SlotInv, HeapInv
<1>8. heap = <<>> => Len(h) = 1
  <2>1. heap \in Seq(Entry)
    BY DEF SlotInv, HeapInv, IsHeap
  <2>2. Len(Append(heap, e)) = Len(heap) + 1
    BY <1>3, <2>1
  <2> QED BY <1>7, <2>2 DEF Alike
<1>9. active \in Int /\ active <= Concurrency /\ (active = Concurrency \/ Len(h) <= 1)
  <2>1. active \in Int /\ active <= Concurrency /\ (heap = <<>> \/ active = Concurrency)
    BY DEF SlotInv
  <2>2. CASE heap = <<>>
    <3>1. Len(h) = 1
      BY <1>8, <2>2
    <3>2. Len(h) <= 1
      BY <3>1
    <3> QED BY <2>1, <3>2
  <2>3. CASE active = Concurrency
    BY <2>1, <2>3
  <2> QED BY <2>1, <2>2, <2>3
<1>10. active' \in Int /\ active' <= Concurrency /\ (heap' # <<>> => active' = Concurrency)
  BY <1>6, <1>7, <1>9, SlotTaken
<1> QED BY <1>1, <1>10 DEF SlotInv

LEMMA FinishSlots ==
  ASSUME SlotInv, NEW t, Finish(t)
  PROVE  SlotInv' /\ Urgent
<1>1. HeapInv' /\ Urgent
  BY FinishKeeps DEF SlotInv, Urgent
<1>2. PICK s : s = [stage EXCEPT ![t] = "ended"]
  OBVIOUS
<1>3. PICK n : n = active - 1
  OBVIOUS
<1>4. PICK h : h = heap
  OBVIOUS
<1>5. RunNext(h, n, s) /\ IsHeap(h) /\ Ordered(h)
  BY <1>2, <1>3, <1>4 DEF Finish, SlotInv, HeapInv
<1>6. n \in Int /\ n <= Concurrency /\ (Len(h) <= 1 \/ n = Concurrency - 1)
  <2>1. Concurrency \in Nat /\ active \in Int
    BY ExecutorConstantsOK DEF ExecutorConstantsOK, SlotInv
  <2>2. heap = <<>> => Len(heap) = 0
    OBVIOUS
  <2> QED BY <1>3, <1>4, <2>1, <2>2 DEF SlotInv
<1>7. active' \in Int /\ active' <= Concurrency /\ (heap' # <<>> => active' = Concurrency)
  BY <1>5, <1>6, SlotTaken
<1> QED BY <1>1, <1>7 DEF SlotInv

(* Steps of the pool leave the executor alone.                              *)
LEMMA SameSlots ==
  ASSUME SlotInv, UNCHANGED <<heap, active, sequence>>
  PROVE  SlotInv' /\ Urgent
<1>1. heap' = heap /\ active' = active /\ sequence' = sequence
  OBVIOUS
<1>2. HeapInv'
  BY <1>1 DEF SlotInv, HeapInv
<1>3. Urgent
  BY <1>1 DEF Urgent
<1> QED BY <1>1, <1>2, <1>3 DEF SlotInv

LEMMA SettleSlots ==
  ASSUME SlotInv, attempt \in [Tasks -> Nat], NEW run, NEW ok, Settle(run, ok)
  PROVE  SlotInv' /\ Urgent /\ attempt' \in [Tasks -> Nat]
<1>1. PICK t : t = run[1]
  OBVIOUS
<1>2. CASE UNCHANGED <<executorVars, attempt>>
  <2>1. UNCHANGED <<heap, active, sequence>> /\ attempt' = attempt
    BY <1>2 DEF executorVars
  <2> QED BY <2>1, SameSlots
<1>3. CASE Finish(t) /\ attempt' = attempt
  BY <1>3, FinishSlots
<1>4. CASE attempt' = [attempt EXCEPT ![t] = @ + 1] /\ UNCHANGED <<heap, active, sequence>>
  <2>1. attempt' \in [Tasks -> Nat]
    <3>1. CASE t \in Tasks
      <4>1. attempt[t] + 1 \in Nat
        BY <3>1
      <4> QED BY <1>4, <4>1
    <3>2. CASE t \notin Tasks
      <4>1. attempt' = attempt
        BY <1>4, <3>2
      <4> QED BY <4>1
    <3> QED BY <3>1, <3>2
  <2> QED BY <1>4, <2>1, SameSlots
<1> QED BY <1>1, <1>2, <1>3, <1>4 DEF Settle

-----------------------------------------------------------------------------
(* The invariant.  Of the dead, those with an answer on its way and those   *)
(* whose error event is to come will be taken for idle once more.           *)
Held(ws, alive, letters) == {w \in ws : ~alive[w] /\ \E m \in letters : m[1] = w}

HostSound(ws, alive, letters, errors, out, sent) ==
  /\ out \subseteq Workers /\ sent \subseteq Workers /\ IsFiniteSet(errors)
  /\ \A w \in out : ~alive[w]
  /\ \A w \in errors : w \in ws /\ kind = "process" /\ ~alive[w] /\ \A m \in letters : m[1] # w
  /\ \A w \in sent : w \notin ws /\ (alive[w] \/ w \in out)
  /\ kind = "thread" => out \subseteq ws /\ sent = {} /\ \A w \in Workers : alive[w] => w \in ws

Ghosts(out) == IF kind = "thread" THEN Cardinality(out) ELSE 0
Toll(gone, p, alive, letters, errors, out) ==
  Spent(gone, p.idle, alive, errors) + Cardinality(Held(p.workers, alive, letters)) + Ghosts(out)
Factor == IF kind = "thread" THEN 2 ELSE 1

Whole(p, alive, work, letters, errors, out, sent, gone) ==
  /\ Sound(p, alive, work, letters) /\ Cardinality(p.workers) = Size /\ IsFiniteSet(gone)
  /\ HostSound(p.workers, alive, letters, errors, out, sent)
  /\ Toll(gone, p, alive, letters, errors, out) <= crashes * Factor

PoolInv ==
  /\ kind \in Kinds /\ attempt \in [Tasks -> Nat] /\ crashes \in Nat
  /\ Whole(pool, live, doing, mail, bounced, unseen, dying, lost)
  /\ pool.queue # <<>> => pool.idle = <<>>
  /\ crossed = FALSE

LEMMA Counts ==
  ASSUME NEW p, NEW alive, NEW work, NEW letters, NEW errors, NEW out, NEW sent, NEW gone,
         Sound(p, alive, work, letters), IsFiniteSet(gone), HostSound(p.workers, alive, letters, errors, out, sent)
  PROVE  /\ Deaths(p.idle, alive) \in Nat /\ Cardinality(gone) \in Nat /\ Cardinality(errors) \in Nat
         /\ IsFiniteSet(Held(p.workers, alive, letters)) /\ Cardinality(Held(p.workers, alive, letters)) \in Nat
         /\ Ghosts(out) \in Nat /\ (kind = "thread" => IsFiniteSet(out)) /\ Spent(gone, p.idle, alive, errors) \in Nat
<1>1. p.idle \in Seq(Workers) /\ IsFiniteSet(p.workers)
  BY Fields
<1>2. Deaths(p.idle, alive) \in Nat
  BY <1>1, DeadFinite
<1>3. Cardinality(gone) \in Nat /\ Cardinality(errors) \in Nat
  BY FS_CardinalityType DEF HostSound
<1>4. IsFiniteSet(Held(p.workers, alive, letters))
  <2>1. Held(p.workers, alive, letters) \in SUBSET p.workers
    BY DEF Held
  <2> QED BY <1>1, <2>1, FS_Subset
<1>5. kind = "thread" => IsFiniteSet(out)
  BY <1>1, FS_Subset DEF HostSound
<1>6. Ghosts(out) \in Nat
  BY <1>5, FS_CardinalityType DEF Ghosts
<1>7. Spent(gone, p.idle, alive, errors) \in Nat
  BY <1>2, <1>3 DEF Spent
<1> QED BY <1>2, <1>3, <1>4, <1>5, <1>6, <1>7, FS_CardinalityType

(* schedule() keeps a pool whole.                                           *)
LEMMA Rescheduled ==
  ASSUME NEW p, NEW alive, NEW letters, NEW errors, NEW out, NEW sent, crashes \in Nat,
         Whole(p, alive, doing, letters, errors, out, sent, lost), Len(p.queue) <= 1 \/ Len(p.idle) <= 1,
         Schedule(p, alive, errors)
  PROVE  /\ Whole(pool', alive, doing', letters, bounced', out, sent, lost')
         /\ pool'.queue # <<>> => pool'.idle = <<>>
<1>1. /\ Sound(pool', alive, doing', letters) /\ pool'.workers = p.workers
      /\ pool'.queue # <<>> => pool'.idle = <<>>
      /\ IsFiniteSet(lost') /\ IsFiniteSet(bounced')
      /\ \A w \in bounced' :
           w \in errors \/ (w \in p.workers /\ kind = "process" /\ ~alive[w] /\ \A m \in letters : m[1] # w)
      /\ Spent(lost', pool'.idle, alive, bounced') <= Spent(lost, p.idle, alive, errors)
  BY Scheduled DEF Whole, HostSound
<1>2. HostSound(pool'.workers, alive, letters, bounced', out, sent)
  BY <1>1 DEF Whole, HostSound
<1>3. Toll(lost', pool', alive, letters, bounced', out) <= crashes * Factor
  <2>1. PICK q : q = pool'
    OBVIOUS
  <2>2. PICK gone : gone = lost'
    OBVIOUS
  <2>3. PICK bad : bad = bounced'
    OBVIOUS
  <2>4. PICK new : new = doing'
    OBVIOUS
  <2>5. /\ Spent(lost, p.idle, alive, errors) \in Nat /\ Ghosts(out) \in Nat
        /\ Cardinality(Held(p.workers, alive, letters)) \in Nat
    BY Counts DEF Whole
  <2>6. Sound(q, alive, new, letters) /\ IsFiniteSet(gone) /\ HostSound(q.workers, alive, letters, bad, out, sent)
    BY <1>1, <1>2, <2>1, <2>2, <2>3, <2>4
  <2>7. Spent(gone, q.idle, alive, bad) \in Nat
    BY <2>6, Counts
  <2>8. Spent(gone, q.idle, alive, bad) <= Spent(lost, p.idle, alive, errors) /\ q.workers = p.workers
    BY <1>1, <2>1, <2>2, <2>3
  <2>9. Toll(lost, p, alive, letters, errors, out) <= crashes * Factor /\ crashes * Factor \in Nat
    BY DEF Whole, Factor
  <2>10. Toll(gone, q, alive, letters, bad, out) <= crashes * Factor
    BY <2>5, <2>7, <2>8, <2>9 DEF Toll
  <2> QED BY <2>1, <2>2, <2>3, <2>10
<1> QED BY <1>1, <1>2, <1>3 DEF Whole

(* Whole pools of the steps.                                                *)
LEMMA WholeQueue ==
  ASSUME PoolInv, NEW run \in Runs, NEW q, q = Queueing(pool, run)
  PROVE  Whole(q, live, doing, mail, bounced, unseen, dying, lost) /\ (Len(q.queue) <= 1 \/ Len(q.idle) <= 1)
<1>1. Whole(pool, live, doing, mail, bounced, unseen, dying, lost)
  BY DEF PoolInv
<1>2. /\ Sound(q, live, doing, mail) /\ q.workers = pool.workers /\ q.idle = pool.idle
      /\ Len(pool.queue) \in Nat /\ Len(q.queue) = Len(pool.queue) + 1
  BY <1>1, QueueSound DEF Whole
<1>3. Whole(q, live, doing, mail, bounced, unseen, dying, lost)
  BY <1>1, <1>2 DEF Whole, Toll
<1>4. pool.queue = <<>> => Len(pool.queue) = 0
  OBVIOUS
<1>5. pool.idle = <<>> => Len(pool.idle) = 0
  OBVIOUS
<1> QED BY <1>2, <1>3, <1>4, <1>5 DEF PoolInv

(* Worker w of the pool counts as idle again; what it cost is no more than  *)
(* what its answer, its error event or its bounce is counted for.           *)
LEMMA WholeFreed ==
  ASSUME PoolInv, NEW w \in pool.workers, NEW letters, letters \subseteq mail, NEW errors, errors \subseteq bounced,
         NEW out, out \subseteq unseen, \A v \in dying : v \in unseen => v \in out,
         doing[w] = {}, \A m \in letters : m[1] # w, ~IdleIn(pool, w) \/ ~live[w],
         \/ live[w]
         \/ w \in Held(pool.workers, live, mail)
         \/ kind = "thread" /\ w \in unseen /\ w \notin out
         \/ kind # "thread" /\ w \in bounced /\ w \notin errors,
         NEW q, q = Freeing(pool, w)
  PROVE  Whole(q, live, doing, letters, errors, out, dying, lost) /\ (Len(q.queue) <= 1 \/ Len(q.idle) <= 1)
<1>1. /\ Sound(pool, live, doing, mail) /\ Cardinality(pool.workers) = Size /\ IsFiniteSet(lost)
      /\ HostSound(pool.workers, live, mail, bounced, unseen, dying)
      /\ Toll(lost, pool, live, mail, bounced, unseen) <= crashes * Factor
  BY DEF PoolInv, Whole
<1>2. Sound(pool, live, doing, letters)
  BY <1>1 DEF Sound, Typed, MailSound
<1>3. /\ Sound(q, live, doing, letters) /\ q.workers = pool.workers /\ q.queue = pool.queue
      /\ Len(pool.idle) \in Nat /\ Len(q.idle) = Len(pool.idle) + 1
      /\ Deaths(q.idle, live) = Deaths(pool.idle, live) + Cost(w, live)
  BY <1>2, FreedSound
<1>4. IsFiniteSet(errors)
  BY <1>1, FS_Subset DEF HostSound
<1>5. HostSound(q.workers, live, letters, errors, out, dying)
  BY <1>1, <1>3, <1>4 DEF HostSound
<1>6. /\ Deaths(pool.idle, live) \in Nat /\ Cardinality(lost) \in Nat /\ Cardinality(bounced) \in Nat
      /\ IsFiniteSet(Held(pool.workers, live, mail)) /\ Cardinality(Held(pool.workers, live, mail)) \in Nat
      /\ Ghosts(unseen) \in Nat /\ (kind = "thread" => IsFiniteSet(unseen))
  BY <1>1, Counts
<1>7. PICK H : H = Held(pool.workers, live, mail)
  OBVIOUS
<1>8. PICK K : K = Held(q.workers, live, letters)
  OBVIOUS
<1>9. K \subseteq H /\ w \notin K
  BY <1>3, <1>7, <1>8 DEF Held
<1>10. /\ IsFiniteSet(H) /\ IsFiniteSet(K) /\ Cardinality(K) \in Nat /\ Cardinality(H) \in Nat
       /\ Cardinality(K) <= Cardinality(H) - (IF w \in H THEN 1 ELSE 0)
  <2>1. IsFiniteSet(H \ {w}) /\ Cardinality(H \ {w}) = IF w \in H THEN Cardinality(H) - 1 ELSE Cardinality(H)
    BY <1>6, <1>7, FS_RemoveElement
  <2>2. K \in SUBSET (H \ {w})
    BY <1>9
  <2>3. IsFiniteSet(K) /\ Cardinality(K) <= Cardinality(H \ {w})
    BY <2>1, <2>2, FS_Subset
  <2>4. IsFiniteSet(H)
    BY <1>6, <1>7
  <2> QED BY <2>1, <2>3, <2>4, FS_CardinalityType
<1>11. /\ Cardinality(errors) \in Nat
       /\ Cardinality(errors) <= Cardinality(bounced) - (IF w \in bounced /\ w \notin errors THEN 1 ELSE 0)
  <2>1. IsFiniteSet(bounced)
    BY <1>1 DEF HostSound
  <2>2. IsFiniteSet(bounced \ {w}) /\ Cardinality(bounced \ {w}) = IF w \in bounced THEN Cardinality(bounced) - 1 ELSE Cardinality(bounced)
    BY <2>1, FS_RemoveElement
  <2>3. w \notin errors => Cardinality(errors) <= Cardinality(bounced \ {w})
    BY <2>2, FS_Subset
  <2>4. Cardinality(errors) <= Cardinality(bounced)
    BY <2>1, FS_Subset
  <2>5. Cardinality(errors) \in Nat
    BY <1>4, FS_CardinalityType
  <2> QED BY <1>6, <2>2, <2>3, <2>4, <2>5
<1>12. Ghosts(out) \in Nat /\ Ghosts(out) <= Ghosts(unseen) - (IF kind = "thread" /\ w \in unseen /\ w \notin out THEN 1 ELSE 0)
  <2>1. CASE kind = "thread"
    <3>1. IsFiniteSet(unseen)
      BY <1>6, <2>1
    <3>2. IsFiniteSet(unseen \ {w}) /\ Cardinality(unseen \ {w}) = IF w \in unseen THEN Cardinality(unseen) - 1 ELSE Cardinality(unseen)
      BY <3>1, FS_RemoveElement
    <3>3. w \notin out => Cardinality(out) <= Cardinality(unseen \ {w})
      BY <3>2, FS_Subset
    <3>4. IsFiniteSet(out) /\ Cardinality(out) <= Cardinality(unseen)
      BY <3>1, FS_Subset
    <3>5. Cardinality(out) \in Nat /\ Cardinality(unseen) \in Nat
      BY <3>1, <3>4, FS_CardinalityType
    <3> QED BY <2>1, <3>2, <3>3, <3>4, <3>5 DEF Ghosts
  <2>2. CASE kind # "thread"
    BY <2>2 DEF Ghosts
  <2> QED BY <2>1, <2>2
<1>13. Cost(w, live) \in {0, 1} /\ (live[w] => Cost(w, live) = 0)
  BY DEF Cost
<1>14. Toll(lost, q, live, letters, errors, out) <= Toll(lost, pool, live, mail, bounced, unseen)
  <2>1. PICK a : a = Deaths(pool.idle, live)
    OBVIOUS
  <2>2. PICK b : b = Deaths(q.idle, live)
    OBVIOUS
  <2>3. b = a + Cost(w, live) /\ a \in Nat
    BY <1>3, <1>6, <2>1, <2>2
  <2>4. Toll(lost, pool, live, mail, bounced, unseen) =
          Cardinality(lost) + a + (IF kind = "thread" THEN 0 ELSE Cardinality(bounced)) + Cardinality(H) + Ghosts(unseen)
    BY <1>7, <2>1 DEF Toll, Spent
  <2>5. Toll(lost, q, live, letters, errors, out) =
          Cardinality(lost) + b + (IF kind = "thread" THEN 0 ELSE Cardinality(errors)) + Cardinality(K) + Ghosts(out)
    BY <1>8, <2>2 DEF Toll, Spent
  <2>6. CASE kind = "thread"
    BY <1>6, <1>7, <1>10, <1>12, <1>13, <2>3, <2>4, <2>5, <2>6
  <2>7. CASE kind # "thread"
    BY <1>6, <1>7, <1>10, <1>11, <1>12, <1>13, <2>3, <2>4, <2>5, <2>7
  <2> QED BY <2>6, <2>7
<1>15. Toll(lost, q, live, letters, errors, out) <= crashes * Factor
  <2>1. Toll(lost, pool, live, mail, bounced, unseen) \in Nat
    BY <1>6, <1>7 DEF Toll, Spent
  <2>2. Toll(lost, q, live, letters, errors, out) \in Int
    <3>1. Sound(q, live, doing, letters) /\ HostSound(q.workers, live, letters, errors, out, dying) /\ IsFiniteSet(lost)
      BY <1>1, <1>3, <1>5
    <3>2. Spent(lost, q.idle, live, errors) \in Nat
      BY <3>1, Counts
    <3> QED BY <1>8, <1>10, <1>12, <3>2 DEF Toll
  <2>3. crashes * Factor \in Nat
    BY DEF PoolInv, Factor
  <2> QED BY <1>1, <1>14, <2>1, <2>2, <2>3
<1>16. Len(q.queue) <= 1 \/ Len(q.idle) <= 1
  <2>1. pool.queue = <<>> => Len(pool.queue) = 0
    OBVIOUS
  <2>2. pool.idle = <<>> => Len(pool.idle) = 0
    OBVIOUS
  <2> QED BY <1>3, <2>1, <2>2 DEF PoolInv
<1> QED BY <1>1, <1>3, <1>5, <1>15, <1>16 DEF Whole

-----------------------------------------------------------------------------
(* A part of a finite set is no larger.                                     *)
LEMMA FewerHeld ==
  ASSUME NEW H, IsFiniteSet(H), NEW K, K \subseteq H
  PROVE  IsFiniteSet(K) /\ Cardinality(K) \in Nat /\ Cardinality(H) \in Nat /\ Cardinality(K) <= Cardinality(H)
<1>1. IsFiniteSet(K) /\ Cardinality(K) <= Cardinality(H)
  BY FS_Subset
<1> QED BY <1>1, FS_CardinalityType

(* Worker w has left the pool.                                              *)
LEMMA WholeLeft ==
  ASSUME PoolInv, NEW w \in Workers, w \notin pool.workers, bounced = {}, kind = "process",
         NEW q, q = Leaving(pool, w)
  PROVE  /\ Whole(q, live, doing, mail, {}, unseen \ {w}, dying \ {w}, lost)
         /\ q.queue # <<>> => q.idle = <<>>
<1>1. /\ Sound(pool, live, doing, mail) /\ Cardinality(pool.workers) = Size /\ IsFiniteSet(lost)
      /\ HostSound(pool.workers, live, mail, bounced, unseen, dying)
      /\ Toll(lost, pool, live, mail, bounced, unseen) <= crashes * Factor
  BY DEF PoolInv, Whole
<1>2. /\ Sound(q, live, doing, mail) /\ q.workers = pool.workers \ {w} /\ q.queue = pool.queue
      /\ Len(pool.idle) \in Nat /\ Len(q.idle) \in Nat /\ Len(q.idle) <= Len(pool.idle)
      /\ Deaths(q.idle, live) <= Deaths(pool.idle, live)
  BY <1>1, WithoutSound
<1>3. q.workers = pool.workers
  BY <1>2
<1>4. HostSound(q.workers, live, mail, {}, unseen \ {w}, dying \ {w})
  <2>1. IsFiniteSet({})
    BY FS_EmptySet
  <2> QED BY <1>1, <1>3, <2>1 DEF HostSound
<1>5. Toll(lost, q, live, mail, {}, unseen \ {w}) <= crashes * Factor
  <2>1. Spent(lost, pool.idle, live, bounced) \in Nat /\ Cardinality(Held(pool.workers, live, mail)) \in Nat
        /\ Deaths(pool.idle, live) \in Nat /\ Cardinality(lost) \in Nat
    BY <1>1, Counts
  <2>2. Deaths(q.idle, live) \in Nat
    <3>1. q.idle \in Seq(Workers)
      BY <1>2, Fields
    <3> QED BY <3>1, DeadFinite
  <2>3. Toll(lost, q, live, mail, {}, unseen \ {w}) =
          Cardinality(lost) + Deaths(q.idle, live) + 0 + Cardinality(Held(pool.workers, live, mail)) + 0
    BY <1>3, FS_EmptySet DEF Toll, Spent, Ghosts
  <2>4. Toll(lost, pool, live, mail, bounced, unseen) =
          Cardinality(lost) + Deaths(pool.idle, live) + 0 + Cardinality(Held(pool.workers, live, mail)) + 0
    BY FS_EmptySet DEF Toll, Spent, Ghosts
  <2>5. crashes * Factor \in Nat
    BY DEF PoolInv, Factor
  <2> QED BY <1>1, <1>2, <2>1, <2>2, <2>3, <2>4, <2>5
<1>6. q.queue # <<>> => q.idle = <<>>
  <2>1. pool.idle = <<>> => Len(pool.idle) = 0
    OBVIOUS
  <2>2. q.idle \in Seq(Workers)
    BY <1>2, Fields
  <2> QED BY <1>2, <2>1, <2>2 DEF PoolInv
<1> QED BY <1>1, <1>2, <1>3, <1>4, <1>5, <1>6 DEF Whole

(* A fresh process f takes the place of worker w.                           *)
LEMMA WholeReplaced ==
  ASSUME PoolInv, NEW w \in pool.workers, NEW f \in Fresh, bounced = {}, kind = "process",
         NEW out, out \subseteq unseen,
         NEW now \in [Workers -> BOOLEAN], now[f], \A v \in Workers : v # f => (now[v] <=> live[v]),
         NEW sent, sent \subseteq Workers, \A v \in sent : v # f /\ (v = w \/ v \notin pool.workers) /\ (live[v] \/ v \in out),
         NEW q, q = Joining(Leaving(pool, w), f)
  PROVE  Whole(q, now, doing, mail, {}, out, sent, lost) /\ (Len(q.queue) <= 1 \/ Len(q.idle) <= 1)
<1>1. /\ Sound(pool, live, doing, mail) /\ Cardinality(pool.workers) = Size /\ IsFiniteSet(lost)
      /\ HostSound(pool.workers, live, mail, bounced, unseen, dying)
      /\ Toll(lost, pool, live, mail, bounced, unseen) <= crashes * Factor
  BY DEF PoolInv, Whole
<1>2. /\ pool.workers \in SUBSET Workers /\ w \in Workers /\ IsFiniteSet(pool.workers)
      /\ live \in [Workers -> BOOLEAN]
  BY <1>1, Fields
<1>3. f \in Workers /\ f \notin pool.workers /\ f \notin unseen /\ ~live[f] /\ \A m \in mail : m[1] # f
  BY DEF Fresh
<1>7. now \in [Workers -> BOOLEAN] /\ now[f] /\ \A v \in Workers : v # f => (now[v] <=> live[v])
  OBVIOUS
<1>4. PICK p : p = Leaving(pool, w)
  OBVIOUS
<1>5. /\ Sound(p, live, doing, mail) /\ p.workers = pool.workers \ {w} /\ p.queue = pool.queue
      /\ Len(pool.idle) \in Nat /\ Len(p.idle) \in Nat /\ Len(p.idle) <= Len(pool.idle)
      /\ Deaths(p.idle, live) <= Deaths(pool.idle, live)
  BY <1>1, <1>2, <1>4, WithoutSound
<1>6. /\ Sound(q, now, doing, mail) /\ q.workers = p.workers \cup {f} /\ q.queue = p.queue
      /\ Len(q.idle) = Len(p.idle) + 1
      /\ Deaths(q.idle, now) = Deaths(p.idle, live)
  <2>1. q = Joining(p, f) /\ f \notin p.workers
    BY <1>3, <1>4, <1>5
  <2>4. Sound(p, live, doing, mail) /\ f \in Workers /\ f \notin p.workers /\ ~live[f] /\ \A m \in mail : m[1] # f
    BY <1>3, <1>5, <2>1
  <2>2. /\ Sound(q, now, doing, mail) /\ q.workers = p.workers \cup {f} /\ q.queue = p.queue
        /\ Len(q.idle) = Len(p.idle) + 1
    BY <1>7, <2>1, <2>4, ForkedSound
  <2>3. Deaths(q.idle, now) = Deaths(p.idle, live)
    BY <1>7, <2>1, <2>4, ForkedSound
  <2> QED BY <2>2, <2>3
<1>8. Cardinality(q.workers) = Size
  <2>1. IsFiniteSet(pool.workers \ {w}) /\ Cardinality(pool.workers \ {w}) = Cardinality(pool.workers) - 1
    BY <1>2, FS_RemoveElement
  <2>2. PICK r : r = pool.workers \ {w}
    OBVIOUS
  <2>3. Cardinality(r \cup {f}) = Cardinality(r) + 1
    BY <1>3, <2>1, <2>2, FS_AddElement
  <2>4. Size \in Nat
    BY IsolationConstantsOK DEF IsolationConstantsOK
  <2> QED BY <1>1, <1>5, <1>6, <2>1, <2>2, <2>3, <2>4
<1>9. HostSound(q.workers, now, mail, {}, out, sent)
  <2>1. IsFiniteSet({})
    BY FS_EmptySet
  <2>2. out \subseteq Workers /\ \A v \in out : ~now[v]
    BY <1>1, <1>3, <1>7 DEF HostSound
  <2>3. \A v \in sent : v \notin q.workers /\ (now[v] \/ v \in out)
    BY <1>5, <1>6, <1>7
  <2> QED BY <2>1, <2>2, <2>3 DEF HostSound
<1>10. Toll(lost, q, now, mail, {}, out) <= crashes * Factor
  <2>1. PICK H : H = Held(pool.workers, live, mail)
    OBVIOUS
  <2>2. PICK K : K = Held(q.workers, now, mail)
    OBVIOUS
  <2>3. Deaths(pool.idle, live) \in Nat /\ Cardinality(lost) \in Nat /\ IsFiniteSet(H)
    BY <1>1, <2>1, Counts
  <2>4. K \subseteq H
    BY <1>2, <1>5, <1>6, <1>7, <2>1, <2>2 DEF Held
  <2>5. Cardinality(K) \in Nat /\ Cardinality(H) \in Nat /\ Cardinality(K) <= Cardinality(H)
    BY <2>3, <2>4, FewerHeld
  <2>6. Deaths(p.idle, live) \in Nat
    <3>1. p.idle \in Seq(Workers)
      BY <1>5, Fields
    <3> QED BY <3>1, DeadFinite
  <2>7. Toll(lost, q, now, mail, {}, out) = Cardinality(lost) + Deaths(p.idle, live) + 0 + Cardinality(K) + 0
    BY <1>6, <2>2, FS_EmptySet DEF Toll, Spent, Ghosts
  <2>8. Toll(lost, pool, live, mail, bounced, unseen) = Cardinality(lost) + Deaths(pool.idle, live) + 0 + Cardinality(H) + 0
    BY <2>1, FS_EmptySet DEF Toll, Spent, Ghosts
  <2>9. crashes * Factor \in Nat
    BY DEF PoolInv, Factor
  <2> QED BY <1>1, <1>5, <2>3, <2>5, <2>6, <2>7, <2>8, <2>9
<1>11. Len(q.queue) <= 1 \/ Len(q.idle) <= 1
  <2>1. pool.queue = <<>> => Len(pool.queue) = 0
    OBVIOUS
  <2>2. pool.idle = <<>> => Len(pool.idle) = 0
    OBVIOUS
  <2> QED BY <1>5, <1>6, <2>1, <2>2 DEF PoolInv
<1> QED BY <1>1, <1>6, <1>8, <1>9, <1>10, <1>11 DEF Whole

(* fork() gives a process that was never in the pool.                       *)
LEMMA ForkedFresh ==
  ASSUME Fresh # {}
  PROVE  Forked \in Fresh
<1>1. Fresh \in SUBSET Nat
  BY IsolationConstantsOK DEF IsolationConstantsOK, Fresh
<1>2. \E n \in Fresh : \A m \in Fresh : n <= m
  BY <1>1, LeastMember
<1> QED BY <1>2 DEF Forked

-----------------------------------------------------------------------------
(* The steps of workers.                                                    *)
LEMMA AnswerKeeps ==
  ASSUME PoolInv, NEW w \in Workers, NEW run \in doing[w], Answer(w, run)
  PROVE  PoolInv'
<1>1. /\ doing' = [doing EXCEPT ![w] = @ \ {run}] /\ mail' = mail \cup {<<w, run>>}
      /\ kind' = kind /\ attempt' = attempt /\ crashes' = crashes /\ pool' = pool /\ live' = live /\ bounced' = bounced
      /\ unseen' = unseen /\ dying' = dying /\ lost' = lost /\ crossed' = crossed
  BY DEF Answer
<1>2. /\ Sound(pool, live, doing, mail) /\ Cardinality(pool.workers) = Size /\ IsFiniteSet(lost)
      /\ HostSound(pool.workers, live, mail, bounced, unseen, dying)
      /\ Toll(lost, pool, live, mail, bounced, unseen) <= crashes * Factor
  BY DEF PoolInv, Whole
<1>3. PICK new : new = [doing EXCEPT ![w] = @ \ {run}]
  OBVIOUS
<1>4. PICK letters : letters = mail \cup {<<w, run>>}
  OBVIOUS
<1>5. Sound(pool, live, new, letters)
  BY <1>2, <1>3, <1>4, AnswerSound
<1>6. live[w]
  BY <1>2 DEF Sound, WorkSound
<1>7. \A m \in letters : m \in mail \/ m[1] = w
  BY <1>4
<1>8. HostSound(pool.workers, live, letters, bounced, unseen, dying)
  BY <1>2, <1>6, <1>7 DEF HostSound
<1>9. Held(pool.workers, live, letters) = Held(pool.workers, live, mail)
  BY <1>4, <1>6, <1>7 DEF Held
<1>10. Whole(pool, live, new, letters, bounced, unseen, dying, lost)
  BY <1>2, <1>5, <1>8, <1>9 DEF Whole, Toll
<1>11. Whole(pool, live, doing, mail, bounced, unseen, dying, lost)'
  BY <1>1, <1>3, <1>4, <1>10 DEF Whole, HostSound, Toll, Spent, Ghosts, Factor
<1> QED BY <1>1, <1>11 DEF PoolInv

LEMMA DieKeeps ==
  ASSUME PoolInv, NEW w \in Workers, Die(w)
  PROVE  PoolInv'
<1>1. /\ live[w] /\ live' = [live EXCEPT ![w] = FALSE] /\ doing' = [doing EXCEPT ![w] = {}] /\ unseen' = unseen \cup {w}
      /\ kind' = kind /\ attempt' = attempt /\ pool' = pool /\ bounced' = bounced
      /\ mail' = mail /\ dying' = dying /\ lost' = lost /\ crossed' = crossed
      /\ (w \in dying /\ crashes' = crashes) \/ crashes' = crashes + 1
  BY DEF Die
<1>2. /\ Sound(pool, live, doing, mail) /\ Cardinality(pool.workers) = Size /\ IsFiniteSet(lost)
      /\ HostSound(pool.workers, live, mail, bounced, unseen, dying)
      /\ Toll(lost, pool, live, mail, bounced, unseen) <= crashes * Factor
  BY DEF PoolInv, Whole
<1>3. PICK now : now = [live EXCEPT ![w] = FALSE]
  OBVIOUS
<1>4. PICK new : new = [doing EXCEPT ![w] = {}]
  OBVIOUS
<1>5. PICK out : out = unseen \cup {w}
  OBVIOUS
<1>7. live \in [Workers -> BOOLEAN] /\ pool.workers \in SUBSET Workers /\ doing \in [Workers -> SUBSET Runs]
  BY <1>2, Fields
<1>8. /\ now \in [Workers -> BOOLEAN] /\ ~now[w] /\ \A v \in Workers : v # w => (now[v] <=> live[v])
      /\ new \in [Workers -> SUBSET Runs] /\ new[w] = {} /\ \A v \in Workers : v # w => new[v] = doing[v]
  BY <1>3, <1>4, <1>7
<1>6. /\ Sound(pool, now, new, mail)
      /\ Deaths(pool.idle, now) = Deaths(pool.idle, live) + (IF IdleIn(pool, w) THEN 1 ELSE 0)
  BY <1>1, <1>2, <1>8, DieSound
<1>9. HostSound(pool.workers, now, mail, bounced, out, dying)
  <2>1. out \subseteq Workers /\ \A v \in out : ~now[v]
    BY <1>2, <1>5, <1>8 DEF HostSound
  <2>2. \A v \in bounced : v \in pool.workers /\ kind = "process" /\ ~now[v] /\ \A m \in mail : m[1] # v
    BY <1>2, <1>7, <1>8 DEF HostSound
  <2>3. \A v \in dying : v \notin pool.workers /\ (now[v] \/ v \in out)
    BY <1>2, <1>5, <1>8 DEF HostSound
  <2>4. kind = "thread" => out \subseteq pool.workers /\ dying = {} /\ \A v \in Workers : now[v] => v \in pool.workers
    BY <1>1, <1>2, <1>5, <1>8 DEF HostSound
  <2> QED BY <1>2, <2>1, <2>2, <2>3, <2>4 DEF HostSound
<1>10. PICK H : H = Held(pool.workers, live, mail)
  OBVIOUS
<1>11. PICK K : K = Held(pool.workers, now, mail)
  OBVIOUS
<1>12. /\ Deaths(pool.idle, live) \in Nat /\ Cardinality(lost) \in Nat /\ Cardinality(bounced) \in Nat
       /\ IsFiniteSet(H) /\ Cardinality(H) \in Nat /\ Ghosts(unseen) \in Nat /\ (kind = "thread" => IsFiniteSet(unseen))
  BY <1>2, <1>10, Counts
<1>13. K \subseteq H \cup {w} /\ (w \in K => w \in pool.workers /\ \E m \in mail : m[1] = w)
  BY <1>7, <1>8, <1>10, <1>11 DEF Held
<1>14. w \in K => ~IdleIn(pool, w)
  BY <1>2, <1>13 DEF Sound, MailSound
<1>15. IdleIn(pool, w) => w \in pool.workers
  BY <1>2 DEF Sound, IdleSound
<1>16. Cardinality(K) \in Nat /\ Cardinality(K) <= Cardinality(H) + (IF w \in K THEN 1 ELSE 0)
  <2>1. IsFiniteSet(H \cup {w}) /\ Cardinality(H \cup {w}) <= Cardinality(H) + 1
    <3>1. PICK J : J = H \cup {w}
      OBVIOUS
    <3>2. IsFiniteSet(J) /\ Cardinality(J) = IF w \in H THEN Cardinality(H) ELSE Cardinality(H) + 1
      BY <1>12, <3>1, FS_AddElement
    <3> QED BY <1>12, <3>1, <3>2
  <2>2. K \subseteq H \cup {w} /\ (w \notin K => K \subseteq H)
    BY <1>13
  <2>3. PICK J : J = H \cup {w}
    OBVIOUS
  <2>4. Cardinality(K) \in Nat /\ Cardinality(J) \in Nat /\ Cardinality(K) <= Cardinality(J)
    BY <2>1, <2>2, <2>3, FewerHeld
  <2>5. w \notin K => Cardinality(K) <= Cardinality(H)
    BY <1>12, <2>2, FewerHeld
  <2> QED BY <1>12, <2>1, <2>3, <2>4, <2>5
<1>17. Ghosts(out) \in Nat /\ Ghosts(out) <= Ghosts(unseen) + (IF kind = "thread" THEN 1 ELSE 0)
  <2>1. CASE kind = "thread"
    <3>1. IsFiniteSet(unseen) /\ IsFiniteSet(out) /\ Cardinality(out) <= Cardinality(unseen) + 1
      <4>1. IsFiniteSet(unseen)
        BY <1>12, <2>1
      <4>2. Cardinality(unseen) \in Nat
        BY <4>1, FS_CardinalityType
      <4> QED BY <1>5, <4>1, <4>2, FS_AddElement, SMTT(40)
    <3>2. Cardinality(unseen) \in Nat /\ Cardinality(out) \in Nat
      BY <3>1, FS_CardinalityType
    <3> QED BY <2>1, <3>1, <3>2 DEF Ghosts
  <2>2. CASE kind # "thread"
    BY <2>2 DEF Ghosts
  <2> QED BY <2>1, <2>2
<1>18. PICK old : old = Cardinality(lost) + Deaths(pool.idle, live) + (IF kind = "thread" THEN 0 ELSE Cardinality(bounced))
                        + Cardinality(H) + Ghosts(unseen)
  OBVIOUS
<1>19. PICK more : more = Cardinality(lost) + Deaths(pool.idle, now) + (IF kind = "thread" THEN 0 ELSE Cardinality(bounced))
                          + Cardinality(K) + Ghosts(out)
  OBVIOUS
<1>20. Toll(lost, pool, live, mail, bounced, unseen) = old /\ Toll(lost, pool, now, mail, bounced, out) = more
  BY <1>10, <1>11, <1>18, <1>19 DEF Toll, Spent
<1>21. PICK idle \in {0, 1} : Deaths(pool.idle, now) = Deaths(pool.idle, live) + idle /\ (idle = 1 => IdleIn(pool, w))
  BY <1>6
<1>22. PICK held \in {0, 1} : Cardinality(K) <= Cardinality(H) + held /\ (held = 1 => w \in K)
  BY <1>16
<1>23. idle + held <= 1 /\ (w \notin pool.workers => idle = 0 /\ held = 0)
  BY <1>13, <1>14, <1>15, <1>21, <1>22
<1>24. /\ old \in Nat /\ more \in Nat /\ more <= old + idle + held + (IF kind = "thread" THEN 1 ELSE 0)
  <2>1. CASE kind = "thread"
    BY <1>12, <1>16, <1>17, <1>18, <1>19, <1>21, <1>22, <2>1
  <2>2. CASE kind # "thread"
    BY <1>12, <1>16, <1>17, <1>18, <1>19, <1>21, <1>22, <2>2
  <2> QED BY <2>1, <2>2
<1>25. more <= crashes' * Factor
  <2>1. crashes \in Nat /\ old <= crashes * Factor
    BY <1>2, <1>20 DEF PoolInv
  <2>2. CASE w \in dying /\ crashes' = crashes
    <3>1. w \notin pool.workers /\ kind # "thread"
      BY <1>2, <2>2 DEF HostSound
    <3> QED BY <1>23, <1>24, <2>1, <2>2, <3>1 DEF Factor
  <2>3. CASE crashes' = crashes + 1
    BY <1>23, <1>24, <2>1, <2>3 DEF Factor
  <2> QED BY <1>1, <2>2, <2>3
<1>26. crashes' \in Nat
  BY <1>1 DEF PoolInv
<1>27. Whole(pool, live, doing, mail, bounced, unseen, dying, lost)'
  <2>1. Factor' = Factor
    BY <1>1 DEF Factor
  <2>2. HostSound(pool.workers, live, mail, bounced, unseen, dying)'
    BY <1>1, <1>3, <1>5, <1>9 DEF HostSound
  <2>3. Toll(lost, pool, live, mail, bounced, unseen)' = more
    BY <1>1, <1>3, <1>5, <1>20 DEF Toll, Spent, Ghosts
  <2>4. Sound(pool, live, doing, mail)'
    BY <1>1, <1>3, <1>4, <1>6
  <2> QED BY <1>1, <1>2, <1>25, <2>1, <2>2, <2>3, <2>4 DEF Whole
<1> QED BY <1>1, <1>26, <1>27 DEF PoolInv

-----------------------------------------------------------------------------
(* The steps of the host.                                                   *)
LEMMA Stays ==
  ASSUME PoolInv, UNCHANGED <<kind, pool, workerVars>>, attempt' \in [Tasks -> Nat]
  PROVE  PoolInv'
<1>1. /\ kind' = kind /\ pool' = pool /\ live' = live /\ doing' = doing /\ mail' = mail /\ unseen' = unseen
      /\ bounced' = bounced /\ dying' = dying /\ crashes' = crashes /\ lost' = lost /\ crossed' = crossed
  BY DEF workerVars
<1>2. Whole(pool, live, doing, mail, bounced, unseen, dying, lost)'
  BY <1>1 DEF PoolInv, Whole, HostSound, Toll, Spent, Ghosts, Factor
<1> QED BY <1>1, <1>2 DEF PoolInv

(* A callback that ends in schedule() keeps the invariant if what it        *)
(* schedules is whole.                                                      *)
LEMMA Lands ==
  ASSUME PoolInv, kind' = kind, crashes' = crashes, crossed' = FALSE, attempt' \in [Tasks -> Nat],
         NEW p, NEW errors, NEW alive, alive = live', NEW letters, letters = mail', NEW out, out = unseen',
         NEW sent, sent = dying', Whole(p, alive, doing, letters, errors, out, sent, lost),
         Len(p.queue) <= 1 \/ Len(p.idle) <= 1, Schedule(p, alive, errors)
  PROVE  PoolInv'
<1>1. /\ Whole(pool', alive, doing', letters, bounced', out, sent, lost')
      /\ pool'.queue # <<>> => pool'.idle = <<>>
  BY Rescheduled DEF PoolInv
<1>2. Whole(pool, live, doing, mail, bounced, unseen, dying, lost)'
  BY <1>1 DEF Whole, HostSound, Toll, Spent, Ghosts, Factor
<1> QED BY <1>1, <1>2 DEF PoolInv

(* The host gives a run to the pool (Thread- and ProcessPool.run).          *)
LEMMA BeginRunKeeps ==
  ASSUME PoolInv, NEW t \in Tasks, BeginRun(t)
  PROVE  PoolInv'
<1>1. /\ bounced = {} /\ kind' = kind /\ attempt' = attempt /\ live' = live /\ mail' = mail /\ unseen' = unseen
      /\ dying' = dying /\ crashes' = crashes /\ crossed' = crossed
  BY DEF BeginRun
<1>2. attempt' \in [Tasks -> Nat] /\ crossed' = FALSE
  BY <1>1 DEF PoolInv
<1>3. CASE kind = "inline"
  <2>1. UNCHANGED <<kind, pool, workerVars>>
    BY <1>1, <1>3 DEF BeginRun, workerVars
  <2> QED BY <1>2, <2>1, Stays
<1>4. CASE kind # "inline"
  <2>1. PICK run : run = Run(t)
    OBVIOUS
  <2>2. run \in Runs
    BY <2>1 DEF Run, Runs, PoolInv
  <2>3. PICK q : q = Queueing(pool, run)
    OBVIOUS
  <2>4. PICK errors : errors = bounced
    OBVIOUS
  <2>5. Schedule(q, live, errors)
    BY <1>1, <1>4, <2>1, <2>3, <2>4 DEF BeginRun, Queueing
  <2>6. Whole(q, live, doing, mail, errors, unseen, dying, lost) /\ (Len(q.queue) <= 1 \/ Len(q.idle) <= 1)
    BY <2>2, <2>3, <2>4, WholeQueue
  <2> QED BY <1>1, <1>2, <2>5, <2>6, Lands
<1> QED BY <1>3, <1>4

(* An answer arrives: of the run, or late, of one that timed out.           *)
LEMMA HandleResultKeeps ==
  ASSUME PoolInv, SlotInv, NEW w \in Workers, NEW run, HandleResult(w, run)
  PROVE  PoolInv' /\ SlotInv' /\ Urgent
<1>1. /\ <<w, run>> \in mail /\ bounced = {} /\ kind' = kind /\ live' = live /\ unseen' = unseen /\ dying' = dying
      /\ crashes' = crashes /\ mail' = mail \ {<<w, run>>}
  BY DEF HandleResult
<1>2. /\ Whole(pool, live, doing, mail, bounced, unseen, dying, lost) /\ attempt \in [Tasks -> Nat] /\ crossed = FALSE
      /\ Sound(pool, live, doing, mail)
  BY DEF PoolInv, Whole
<1>3. PICK letters : letters = mail \ {<<w, run>>}
  OBVIOUS
<1>4. CASE pool.current[w] = NoRun
  <2>1. /\ UNCHANGED executorVars /\ attempt' = attempt /\ pool' = pool /\ doing' = doing /\ lost' = lost
        /\ bounced' = bounced /\ crossed' = crossed
    BY <1>4 DEF HandleResult
  <2>2. SlotInv' /\ Urgent
    BY <2>1, SameSlots DEF executorVars
  <2>3. Sound(pool, live, doing, letters)
    BY <1>2, <1>3 DEF Sound, Typed, MailSound
  <2>4. HostSound(pool.workers, live, letters, bounced, unseen, dying)
    BY <1>2, <1>3 DEF Whole, HostSound
  <2>5. Held(pool.workers, live, letters) = Held(pool.workers, live, mail)
    <3>1. ASSUME NEW v \in pool.workers, NEW m \in mail, m[1] = v PROVE m \in letters
      <4>1. m[2] = pool.current[v] /\ m \in Workers \X Runs
        BY <1>2, <3>1, Fields DEF Sound, MailSound
      <4>2. m[2] # NoRun
        BY <1>2, <4>1, Fields
      <4>3. m # <<w, run>>
        BY <1>4, <3>1, <4>1, <4>2
      <4> QED BY <1>3, <4>3
    <3> QED BY <1>3, <3>1 DEF Held
  <2>6. Whole(pool, live, doing, letters, bounced, unseen, dying, lost)
    BY <1>2, <2>3, <2>4, <2>5 DEF Whole, Toll
  <2>7. Whole(pool, live, doing, mail, bounced, unseen, dying, lost)'
    BY <1>1, <1>3, <2>1, <2>6 DEF Whole, HostSound, Toll, Spent, Ghosts, Factor
  <2> QED BY <1>1, <2>1, <2>2, <2>7 DEF PoolInv
<1>5. CASE pool.current[w] # NoRun
  <2>1. PICK mine : mine = pool.current[w]
    OBVIOUS
  <2>2. PICK ok : Settle(mine, ok)
    BY <1>5, <2>1 DEF HandleResult
  <2>3. SlotInv' /\ Urgent /\ attempt' \in [Tasks -> Nat]
    BY <1>2, <2>2, SettleSlots
  <2>4. w \in pool.workers
    BY <1>2, <1>5 DEF Sound, WorkSound
  <2>5. run = mine /\ doing[w] = {} /\ ~IdleIn(pool, w)
    <3>1. PICK m : m = <<w, run>>
      OBVIOUS
    <3>2. m \in mail /\ m[1] = w /\ m[2] = run
      BY <1>1, <3>1
    <3> QED BY <1>2, <2>1, <2>4, <3>2 DEF Sound, MailSound
  <2>6. crossed' = FALSE
    BY <1>2, <1>5, <2>1, <2>5 DEF HandleResult
  <2>7. \A m \in letters : m[1] # w
    <3> SUFFICES ASSUME NEW m \in letters, m[1] = w PROVE FALSE
      OBVIOUS
    <3>1. m \in mail /\ m \in Workers \X Runs /\ m # <<w, run>>
      BY <1>2, <1>3, Fields
    <3>2. m[2] = run
      BY <1>2, <2>1, <2>4, <2>5, <3>1 DEF Sound, MailSound
    <3> QED BY <3>1, <3>2
  <2>8. PICK q : q = Freeing(pool, w)
    OBVIOUS
  <2>9. live[w] \/ w \in Held(pool.workers, live, mail)
    <3>1. \E m \in mail : m[1] = w
      <4>1. <<w, run>>[1] = w
        OBVIOUS
      <4> QED BY <1>1, <4>1
    <3> QED BY <2>4, <3>1 DEF Held
  <2>10. PICK errors : errors = bounced
    OBVIOUS
  <2>11. PICK out : out = unseen
    OBVIOUS
  <2>12. letters \subseteq mail /\ errors \subseteq bounced /\ out \subseteq unseen /\ \A v \in dying : v \in unseen => v \in out
    BY <1>3, <2>10, <2>11
  <2>13. Whole(q, live, doing, letters, errors, out, dying, lost) /\ (Len(q.queue) <= 1 \/ Len(q.idle) <= 1)
    BY <2>4, <2>5, <2>7, <2>8, <2>9, <2>12, WholeFreed
  <2>14. Schedule(q, live, errors)
    BY <1>1, <1>5, <2>8, <2>10 DEF HandleResult, Freed, Freeing
  <2>15. PoolInv'
    BY <1>1, <1>3, <2>3, <2>6, <2>11, <2>13, <2>14, Lands
  <2> QED BY <2>3, <2>15
<1> QED BY <1>4, <1>5

(* The error event of a worker in the pool that is dead, or whose send      *)
(* bounced.                                                                 *)
LEMMA HandleErrorKeeps ==
  ASSUME PoolInv, SlotInv, NEW w \in pool.workers, HandleError(w), \A m \in mail : m[1] # w, ~live[w],
         NEW out, out = unseen', out \subseteq unseen, \A v \in dying : v \in unseen => v \in out,
         \/ kind = "thread" /\ w \in unseen /\ w \notin out
         \/ kind # "thread" /\ w \in bounced
  PROVE  PoolInv' /\ SlotInv' /\ Urgent
<1>1. kind' = kind /\ live' = live /\ mail' = mail /\ dying' = dying /\ crashes' = crashes /\ crossed' = crossed
  BY DEF HandleError
<1>2. /\ attempt \in [Tasks -> Nat] /\ crossed = FALSE /\ Sound(pool, live, doing, mail)
  BY DEF PoolInv, Whole
<1>3. SlotInv' /\ Urgent /\ attempt' \in [Tasks -> Nat]
  <2>1. CASE pool.current[w] = NoRun
    <3>1. UNCHANGED executorVars /\ attempt' = attempt
      BY <2>1 DEF HandleError
    <3> QED BY <1>2, <3>1, SameSlots DEF executorVars
  <2>2. CASE pool.current[w] # NoRun
    <3>1. PICK mine : mine = pool.current[w]
      OBVIOUS
    <3>2. Settle(mine, FALSE)
      BY <2>2, <3>1 DEF HandleError
    <3> QED BY <1>2, <3>2, SettleSlots
  <2> QED BY <2>1, <2>2
<1>4. PICK q : q = Freeing(pool, w)
  OBVIOUS
<1>5. PICK errors : errors = bounced \ {w}
  OBVIOUS
<1>6. Schedule(q, live, errors)
  BY <1>4, <1>5 DEF HandleError, Freed, Freeing
<1>7. w \in Workers /\ doing[w] = {}
  <2>1. w \in Workers
    BY <1>2, Fields
  <2> QED BY <1>2, <2>1 DEF Sound, WorkSound
<1>8. PICK letters : letters = mail
  OBVIOUS
<1>9. letters \subseteq mail /\ errors \subseteq bounced /\ w \notin errors /\ \A m \in letters : m[1] # w
  BY <1>5, <1>8
<1>10. Whole(q, live, doing, letters, errors, out, dying, lost) /\ (Len(q.queue) <= 1 \/ Len(q.idle) <= 1)
  BY <1>4, <1>7, <1>9, WholeFreed
<1>11. PoolInv'
  BY <1>1, <1>2, <1>3, <1>6, <1>8, <1>10, Lands
<1> QED BY <1>3, <1>11

LEMMA ThreadErrorKeeps ==
  ASSUME PoolInv, SlotInv, NEW w \in Workers, ThreadError(w)
  PROVE  PoolInv' /\ SlotInv' /\ Urgent
<1>1. kind = "thread" /\ w \in unseen /\ (\A m \in mail : m[1] # w) /\ HandleError(w)
  BY DEF ThreadError
<1>2. PICK out : out = unseen \ {w}
  OBVIOUS
<1>3. out = unseen' /\ out \subseteq unseen /\ w \notin out
  BY <1>2 DEF ThreadError
<1>4. HostSound(pool.workers, live, mail, bounced, unseen, dying)
  BY DEF PoolInv, Whole
<1>5. w \in pool.workers /\ ~live[w] /\ \A v \in dying : v \in unseen => v \in out
  BY <1>1, <1>4 DEF HostSound
<1> QED BY <1>1, <1>3, <1>5, HandleErrorKeeps

LEMMA SendErrorKeeps ==
  ASSUME PoolInv, SlotInv, NEW w \in Workers, SendError(w)
  PROVE  PoolInv' /\ SlotInv' /\ Urgent
<1>1. w \in bounced /\ HandleError(w)
  BY DEF SendError
<1>2. PICK out : out = unseen
  OBVIOUS
<1>3. out = unseen' /\ out \subseteq unseen /\ \A v \in dying : v \in unseen => v \in out
  BY <1>2 DEF SendError
<1>4. HostSound(pool.workers, live, mail, bounced, unseen, dying)
  BY DEF PoolInv, Whole
<1>5. w \in pool.workers /\ ~live[w] /\ kind # "thread" /\ \A m \in mail : m[1] # w
  BY <1>1, <1>4 DEF HostSound
<1> QED BY <1>1, <1>3, <1>5, HandleErrorKeeps

(* The exit event of a process, replaced already or not.                    *)
LEMMA ExitKeeps ==
  ASSUME PoolInv, NEW w \in Workers, Exit(w)
  PROVE  PoolInv'
<1>1. /\ kind = "process" /\ w \in unseen /\ bounced = {} /\ unseen' = unseen \ {w} /\ dying' = dying \ {w}
      /\ kind' = kind /\ attempt' = attempt /\ mail' = mail /\ crashes' = crashes /\ crossed' = crossed
  BY DEF Exit
<1>2. /\ Whole(pool, live, doing, mail, bounced, unseen, dying, lost) /\ attempt \in [Tasks -> Nat] /\ crossed = FALSE
      /\ Sound(pool, live, doing, mail) /\ Cardinality(pool.workers) = Size /\ IsFiniteSet(pool.workers)
      /\ HostSound(pool.workers, live, mail, bounced, unseen, dying)
      /\ live \in [Workers -> BOOLEAN]
  BY Fields DEF PoolInv, Whole
<1>3. Size \in Nat
  BY IsolationConstantsOK DEF IsolationConstantsOK
<1>4. CASE ExitReplaces(w)
  <2>1. Fresh # {} /\ live' = [live EXCEPT ![Forked] = TRUE] /\ Schedule(Replaced(w), live', {})
    BY <1>4 DEF Exit
  <2>2. w \in pool.workers
    <3> SUFFICES ASSUME w \notin pool.workers PROVE FALSE
      OBVIOUS
    <3>1. pool.workers \ {w} = pool.workers
      OBVIOUS
    <3> QED BY <1>2, <1>3, <1>4, <3>1 DEF ExitReplaces
  <2>3. PICK f : f = Forked
    OBVIOUS
  <2>4. f \in Fresh
    BY <2>1, <2>3, ForkedFresh
  <2>5. f \in Workers /\ f \notin pool.workers /\ f \notin unseen /\ ~live[f]
    BY <2>4 DEF Fresh
  <2>6. PICK now : now = [live EXCEPT ![f] = TRUE]
    OBVIOUS
  <2>7. now \in [Workers -> BOOLEAN] /\ now[f] /\ \A v \in Workers : v # f => (now[v] <=> live[v])
    BY <1>2, <2>5, <2>6
  <2>8. PICK q : q = Joining(Leaving(pool, w), f)
    OBVIOUS
  <2>9. PICK errors : errors = {}
    OBVIOUS
  <2>10. now = live' /\ Schedule(q, now, errors)
    BY <2>1, <2>3, <2>6, <2>8, <2>9 DEF Replaced, Without, Joining, Leaving
  <2>11. PICK out : out = unseen \ {w}
    OBVIOUS
  <2>12. PICK sent : sent = dying \ {w}
    OBVIOUS
  <2>13. out \subseteq unseen /\ sent \subseteq Workers /\ \A v \in sent : v # f /\ (v = w \/ v \notin pool.workers) /\ (live[v] \/ v \in out)
    BY <1>2, <2>5, <2>11, <2>12 DEF HostSound
  <2>14. Whole(q, now, doing, mail, errors, out, sent, lost) /\ (Len(q.queue) <= 1 \/ Len(q.idle) <= 1)
    <3>1. Whole(q, now, doing, mail, {}, out, sent, lost) /\ (Len(q.queue) <= 1 \/ Len(q.idle) <= 1)
      BY <1>1, <2>2, <2>4, <2>7, <2>8, <2>13, WholeReplaced
    <3> QED BY <2>9, <3>1
  <2> QED BY <1>1, <1>2, <2>10, <2>11, <2>12, <2>14, Lands
<1>5. CASE ~ExitReplaces(w)
  <2>1. pool' = Without(w) /\ live' = live /\ doing' = doing /\ lost' = lost /\ bounced' = bounced
    BY <1>5 DEF Exit
  <2>2. w \notin pool.workers
    <3> SUFFICES ASSUME w \in pool.workers PROVE FALSE
      OBVIOUS
    <3>1. Cardinality(pool.workers \ {w}) = Size - 1
      BY <1>2, FS_RemoveElement
    <3> QED BY <1>3, <1>5, <3>1 DEF ExitReplaces
  <2>3. PICK q : q = Leaving(pool, w)
    OBVIOUS
  <2>4. pool' = q
    BY <2>1, <2>3 DEF Without, Leaving
  <2>5. Whole(q, live, doing, mail, {}, unseen \ {w}, dying \ {w}, lost) /\ (q.queue # <<>> => q.idle = <<>>)
    BY <1>1, <2>2, <2>3, WholeLeft
  <2>6. Whole(pool, live, doing, mail, bounced, unseen, dying, lost)'
    BY <1>1, <2>1, <2>4, <2>5 DEF Whole, HostSound, Toll, Spent, Ghosts, Factor
  <2> QED BY <1>1, <1>2, <2>4, <2>5, <2>6 DEF PoolInv
<1> QED BY <1>4, <1>5

(* A process whose run timed out is killed and replaced (handleTimeout).    *)
LEMMA TimeoutKeeps ==
  ASSUME PoolInv, SlotInv, NEW w \in Workers, HandleTimeout(w)
  PROVE  PoolInv' /\ SlotInv' /\ Urgent
<1>1. /\ kind = "process" /\ pool.current[w] # NoRun /\ bounced = {} /\ Cardinality(Fresh) > 1
      /\ Settle(pool.current[w], FALSE) /\ dying' = dying \cup ({w} \cap {v \in Workers : live[v]})
      /\ live' = [live EXCEPT ![Forked] = TRUE] /\ Schedule(Replaced(w), live', {})
      /\ kind' = kind /\ mail' = mail /\ unseen' = unseen /\ crashes' = crashes /\ crossed' = crossed
  BY DEF HandleTimeout
<1>2. /\ attempt \in [Tasks -> Nat] /\ crossed = FALSE
      /\ Sound(pool, live, doing, mail)
      /\ HostSound(pool.workers, live, mail, bounced, unseen, dying)
      /\ live \in [Workers -> BOOLEAN]
  BY Fields DEF PoolInv, Whole
<1>3. SlotInv' /\ Urgent /\ attempt' \in [Tasks -> Nat]
  <2>1. PICK mine : mine = pool.current[w]
    OBVIOUS
  <2>2. Settle(mine, FALSE)
    BY <1>1, <2>1
  <2> QED BY <1>2, <2>2, SettleSlots
<1>4. w \in pool.workers
  BY <1>1, <1>2 DEF Sound, WorkSound
<1>5. Fresh # {}
  BY <1>1, FS_EmptySet
<1>6. PICK f : f = Forked
  OBVIOUS
<1>7. f \in Fresh
  BY <1>5, <1>6, ForkedFresh
<1>8. f \in Workers /\ f \notin pool.workers /\ f \notin unseen /\ ~live[f]
  BY <1>7 DEF Fresh
<1>9. PICK now : now = [live EXCEPT ![f] = TRUE]
  OBVIOUS
<1>10. now \in [Workers -> BOOLEAN] /\ now[f] /\ \A v \in Workers : v # f => (now[v] <=> live[v])
  BY <1>2, <1>8, <1>9
<1>11. PICK q : q = Joining(Leaving(pool, w), f)
  OBVIOUS
<1>12. PICK errors : errors = {}
  OBVIOUS
<1>13. now = live' /\ Schedule(q, now, errors)
  BY <1>1, <1>6, <1>9, <1>11, <1>12 DEF Replaced, Without, Joining, Leaving
<1>14. PICK out : out = unseen
  OBVIOUS
<1>15. PICK sent : sent = dying \cup ({w} \cap {v \in Workers : live[v]})
  OBVIOUS
<1>16. out \subseteq unseen /\ sent \subseteq Workers /\ \A v \in sent : v # f /\ (v = w \/ v \notin pool.workers) /\ (live[v] \/ v \in out)
  BY <1>2, <1>8, <1>14, <1>15 DEF HostSound
<1>17. Whole(q, now, doing, mail, errors, out, sent, lost) /\ (Len(q.queue) <= 1 \/ Len(q.idle) <= 1)
  <2>1. Whole(q, now, doing, mail, {}, out, sent, lost) /\ (Len(q.queue) <= 1 \/ Len(q.idle) <= 1)
    <3>1. kind = "process" /\ bounced = {}
      BY <1>1
    <3> QED BY <3>1, <1>4, <1>7, <1>10, <1>11, <1>16, WholeReplaced, SMTT(40)
  <2> QED BY <1>12, <2>1
<1>18. PoolInv'
  BY <1>1, <1>2, <1>3, <1>13, <1>14, <1>15, <1>17, Lands
<1> QED BY <1>3, <1>18

-----------------------------------------------------------------------------
(* The inductive invariant: of the pool and of the executor.                *)
Inv == PoolInv /\ SlotInv

LEMMA InitInv == Init => Inv
<1> SUFFICES ASSUME Init PROVE Inv
  OBVIOUS
<1>1. /\ kind \in Kinds /\ heap = <<>> /\ active = 0 /\ sequence = 0 /\ attempt = [t \in Tasks |-> 1]
      /\ pool = [workers |-> 1..Size, idle |-> [i \in 1..Size |-> i], queue |-> <<>>,
                 current |-> [w \in Workers |-> NoRun]]
      /\ live = [w \in Workers |-> w \in 1..Size] /\ doing = [w \in Workers |-> {}]
      /\ mail = {} /\ unseen = {} /\ bounced = {} /\ dying = {} /\ crashes = 0 /\ lost = {} /\ crossed = FALSE
  BY DEF Init, ExecutorInit
<1>2. Size \in Nat /\ 1..Size \subseteq Workers /\ Concurrency \in Nat \ {0} /\ NoRun \notin Runs
  BY IsolationConstantsOK, ExecutorConstantsOK DEF IsolationConstantsOK, ExecutorConstantsOK, Runs
<1>3. IsFiniteSet(1..Size) /\ Cardinality(1..Size) = Size
  BY <1>2, FS_Interval
<1>4. IsFiniteSet({}) /\ Cardinality({}) = 0
  BY FS_EmptySet
<1>5. PICK s : s = [i \in 1..Size |-> i]
  OBVIOUS
<1>6. s \in Seq(Workers) /\ Len(s) = Size /\ \A i \in 1..Size : s[i] = i
  BY <1>2, <1>5
<1>7. /\ pool.workers = 1..Size /\ pool.idle = s /\ pool.queue = <<>> /\ pool.current = [w \in Workers |-> NoRun]
  BY <1>1, <1>5
<1>8. Typed(pool, live, doing, mail)
  <2>1. <<>> \in Seq(Runs) /\ [w \in Workers |-> NoRun] \in [Workers -> Runs \cup {NoRun}]
    OBVIOUS
  <2>2. 1..Size \in SUBSET Workers
    BY <1>2
  <2>3. pool \in PoolType
    BY <1>1, <1>5, <1>6, <2>1, <2>2 DEF PoolType
  <2>4. live \in [Workers -> BOOLEAN] /\ doing \in [Workers -> SUBSET Runs] /\ mail \subseteq Workers \X Runs
    BY <1>1
  <2> QED BY <1>3, <1>7, <2>3, <2>4 DEF Typed
<1>9. \A w \in Workers : live[w] <=> w \in 1..Size
  BY <1>1
<1>10. IdleSound(pool, live)
  BY <1>6, <1>7 DEF IdleSound, IdleIn, Once
<1>11. WorkSound(pool, live, doing) /\ MailSound(pool, doing, mail)
  <2>1. \A w \in Workers : doing[w] = {} /\ pool.current[w] = NoRun
    BY <1>1, <1>7
  <2> QED BY <1>1, <1>2, <1>7, <2>1 DEF WorkSound, MailSound
<1>12. HostSound(pool.workers, live, mail, bounced, unseen, dying)
  BY <1>1, <1>4, <1>7, <1>9 DEF HostSound
<1>13. Toll(lost, pool, live, mail, bounced, unseen) <= crashes * Factor
  <2>1. Dead(s, live) = {}
    BY <1>2, <1>6, <1>9 DEF Dead
  <2>2. Deaths(s, live) = 0
    BY <1>4, <2>1 DEF Deaths
  <2>3. Held(pool.workers, live, mail) = {}
    BY <1>1 DEF Held
  <2>4. Ghosts(unseen) = 0
    BY <1>1, <1>4 DEF Ghosts
  <2>5. Spent(lost, pool.idle, live, bounced) = 0
    <3>1. Cardinality(lost) = 0
      BY <1>1, <1>4
    <3>2. Cardinality(bounced) = 0
      BY <1>1, <1>4
    <3>3. Deaths(pool.idle, live) = 0
      BY <1>7, <2>2
    <3> QED BY <3>1, <3>2, <3>3 DEF Spent
  <2>6. Toll(lost, pool, live, mail, bounced, unseen) = 0
    BY <1>4, <2>3, <2>4, <2>5 DEF Toll
  <2> QED BY <1>1, <2>6 DEF Factor
<1>14. PoolInv
  BY <1>1, <1>3, <1>4, <1>7, <1>8, <1>10, <1>11, <1>12, <1>13 DEF PoolInv, Whole, Sound
<1>15. SlotInv
  <2>1. IsHeap(<<>>) /\ Ordered(<<>>) /\ \A k \in 1..Len(<<>>) : <<>>[k].sequence < sequence
    BY DEF IsHeap, Distinct, Ordered
  <2> QED BY <1>1, <1>2, <2>1 DEF SlotInv, HeapInv
<1> QED BY <1>14, <1>15 DEF Inv

(* Every step keeps the invariant, one step of the proof for each action.   *)
LEMMA NextInv ==
  ASSUME Inv, [Next]_vars
  PROVE  Inv' /\ [Urgent]_executorVars
<1>0. PoolInv /\ SlotInv /\ attempt \in [Tasks -> Nat]
  BY DEF Inv, PoolInv
<1>1. ASSUME NEW t \in Load[kind], Submit(t), UNCHANGED <<kind, attempt, pool, workerVars>>
      PROVE  Inv' /\ Urgent
  <2>1. t \in Tasks
    BY <1>0, IsolationConstantsOK DEF PoolInv, IsolationConstantsOK
  <2>2. SlotInv' /\ Urgent
    BY <1>0, <1>1, <2>1, SubmitSlots
  <2>3. attempt' \in [Tasks -> Nat] /\ UNCHANGED <<kind, pool, workerVars>>
    BY <1>0, <1>1
  <2> QED BY <1>0, <2>2, <2>3, Stays DEF Inv
<1>2. ASSUME NEW t \in Tasks, BeginRun(t)
      PROVE  Inv' /\ Urgent
  <2>1. UNCHANGED <<heap, active, sequence>>
    BY <1>2 DEF BeginRun
  <2> QED BY <1>0, <1>2, <2>1, BeginRunKeeps, SameSlots DEF Inv
<1>3. ASSUME NEW t \in Tasks, InlineEnds(t) \/ WithTimeout(t)
      PROVE  Inv' /\ Urgent
  <2>1. PICK run : run = Run(t)
    OBVIOUS
  <2>2. PICK ok : Settle(run, ok)
    BY <1>3, <2>1 DEF InlineEnds, WithTimeout
  <2>3. UNCHANGED <<kind, pool, workerVars>>
    BY <1>3 DEF InlineEnds, WithTimeout
  <2>4. SlotInv' /\ Urgent /\ attempt' \in [Tasks -> Nat]
    BY <1>0, <2>2, SettleSlots
  <2> QED BY <1>0, <2>3, <2>4, Stays DEF Inv
<1>4. ASSUME NEW w \in Workers, ThreadError(w)
      PROVE  Inv' /\ Urgent
  BY <1>0, <1>4, ThreadErrorKeeps DEF Inv
<1>5. ASSUME NEW w \in Workers, SendError(w)
      PROVE  Inv' /\ Urgent
  BY <1>0, <1>5, SendErrorKeeps DEF Inv
<1>6. ASSUME NEW w \in Workers, Exit(w)
      PROVE  Inv' /\ Urgent
  <2>1. UNCHANGED <<heap, active, sequence>>
    BY <1>6 DEF Exit, executorVars
  <2> QED BY <1>0, <1>6, <2>1, ExitKeeps, SameSlots DEF Inv
<1>7. ASSUME NEW w \in Workers, HandleTimeout(w)
      PROVE  Inv' /\ Urgent
  BY <1>0, <1>7, TimeoutKeeps DEF Inv
<1>8. ASSUME NEW w \in Workers, Die(w)
      PROVE  Inv' /\ Urgent
  <2>1. UNCHANGED <<heap, active, sequence>>
    BY <1>8 DEF Die, executorVars
  <2> QED BY <1>0, <1>8, <2>1, DieKeeps, SameSlots DEF Inv
<1>9. ASSUME NEW w \in Workers, NEW run \in doing[w], Answer(w, run)
      PROVE  Inv' /\ Urgent
  <2>1. UNCHANGED <<heap, active, sequence>>
    BY <1>9 DEF Answer, executorVars
  <2> QED BY <1>0, <1>9, <2>1, AnswerKeeps, SameSlots DEF Inv
<1>10. ASSUME NEW m \in mail, HandleResult(m[1], m[2])
       PROVE  Inv' /\ Urgent
  <2>1. PICK w : w = m[1]
    OBVIOUS
  <2>2. PICK run : run = m[2]
    OBVIOUS
  <2>3. HandleResult(w, run)
    BY <1>10, <2>1, <2>2
  <2>4. w \in Workers
    BY <1>0, <2>1 DEF PoolInv, Whole, Sound, Typed
  <2> QED BY <1>0, <2>3, <2>4, HandleResultKeeps DEF Inv
<1>11. ASSUME UNCHANGED vars
       PROVE  Inv' /\ UNCHANGED executorVars
  <2>1. UNCHANGED <<heap, active, sequence>> /\ UNCHANGED executorVars /\ UNCHANGED <<kind, pool, workerVars>> /\ attempt' = attempt
    BY <1>11 DEF vars, executorVars
  <2> QED BY <1>0, <2>1, Stays, SameSlots DEF Inv
<1>12. CASE Next
  <2>1. Inv' /\ Urgent
    BY <1>12, <1>1, <1>2, <1>3, <1>4, <1>5, <1>6, <1>7, <1>8, <1>9, <1>10 DEF Next
  <2> QED BY <2>1
<1> QED BY <1>11, <1>12

LEMMA Invariant == Spec => []Inv
<1>1. Inv /\ [Next]_vars => Inv'
  BY NextInv
<1> QED BY <1>1, InitInv, PTL DEF Spec

(* SlotsKept: a pool keeps its size through deaths, timeouts and exit       *)
(* events that come twice (process-pool.ts:51), a live worker is idle once  *)
(* and never works on two runs, and neither a slot of the executor nor a    *)
(* worker is left idle while something is queued for it.                    *)
THEOREM SlotsHold == Spec => []SlotsKept
<1>1. Inv => SlotsKept
  <2> SUFFICES ASSUME Inv PROVE SlotsKept
    OBVIOUS
  <2>1. /\ Sound(pool, live, doing, mail) /\ Cardinality(pool.workers) = Size
        /\ pool.queue # <<>> => pool.idle = <<>>
        /\ heap # <<>> => active = Concurrency
    BY DEF Inv, PoolInv, SlotInv, Whole
  <2>2. pool.idle \in Seq(Workers) /\ DOMAIN pool.idle = 1..Len(pool.idle) /\ doing \in [Workers -> SUBSET Runs]
    BY <2>1, Fields
  <2>3. ASSUME NEW w \in Workers, live[w]
        PROVE  /\ Cardinality(Places(w)) <= 1 /\ Cardinality(doing[w]) <= 1
               /\ Places(w) # {} => doing[w] = {} /\ pool.current[w] = NoRun /\ w \in pool.workers
    <3>1. Places(w) = {i \in 1..Len(pool.idle) : pool.idle[i] = w}
      BY <2>2 DEF Places
    <3>2. \A i, j \in Places(w) : i = j
      BY <2>1, <2>3, <3>1 DEF Sound, IdleSound, Once
    <3>3. \A r, s \in doing[w] : r = s
      BY <2>1 DEF Sound, WorkSound
    <3>4. ASSUME NEW S, \A a, b \in S : a = b PROVE Cardinality(S) <= 1
      <4>1. CASE S = {}
        BY <4>1, FS_EmptySet
      <4>2. CASE S # {}
        <5>1. PICK a \in S : TRUE
          BY <4>2
        <5>2. S = {a}
          BY <3>4, <5>1
        <5>3. Cardinality(S) = 1
          BY <5>2, FS_Singleton
        <5> QED BY <5>3
      <4> QED BY <4>1, <4>2
    <3>5. ASSUME Places(w) # {} PROVE doing[w] = {} /\ pool.current[w] = NoRun /\ w \in pool.workers
      <4>1. IdleIn(pool, w)
        BY <3>1, <3>5 DEF IdleIn
      <4>2. pool.current[w] = NoRun /\ w \in pool.workers
        BY <2>1, <2>3, <4>1 DEF Sound, IdleSound
      <4>3. doing[w] \subseteq {NoRun} /\ doing[w] \subseteq Runs /\ NoRun \notin Runs
        BY <2>1, <2>2, <4>2, Fields DEF Sound, WorkSound
      <4> QED BY <4>2, <4>3
    <3> QED BY <3>2, <3>3, <3>4, <3>5
  <2> QED BY <2>1, <2>3 DEF SlotsKept, NoIdleSlot, PoolKept
<1> QED BY <1>1, Invariant, PTL

(* AnswersReach: an answer settles the run it answers, also a late one      *)
(* (thread-pool.ts:69, process-pool.ts:105), and each death costs at most   *)
(* one run of a process pool and two of a thread pool, whose dead worker is *)
(* taken for idle again (thread-pool.ts:88).                                *)
THEOREM AnswersHold == Spec => []AnswersReach
<1>1. Inv => AnswersReach
  <2> SUFFICES ASSUME Inv PROVE AnswersReach
    OBVIOUS
  <2>1. /\ Sound(pool, live, doing, mail) /\ IsFiniteSet(lost) /\ crossed = FALSE /\ crashes \in Nat
        /\ HostSound(pool.workers, live, mail, bounced, unseen, dying)
        /\ Toll(lost, pool, live, mail, bounced, unseen) <= crashes * Factor
    BY DEF Inv, PoolInv, Whole
  <2>2. /\ Deaths(pool.idle, live) \in Nat /\ Cardinality(lost) \in Nat /\ Cardinality(bounced) \in Nat
        /\ Cardinality(Held(pool.workers, live, mail)) \in Nat /\ Ghosts(unseen) \in Nat
        /\ Spent(lost, pool.idle, live, bounced) \in Nat
    BY <2>1, Counts
  <2>3. Cardinality(lost) <= Spent(lost, pool.idle, live, bounced)
    BY <2>2 DEF Spent
  <2>4. Spent(lost, pool.idle, live, bounced) <= Toll(lost, pool, live, mail, bounced, unseen)
    BY <2>2 DEF Toll
  <2>5. Toll(lost, pool, live, mail, bounced, unseen) \in Nat /\ crashes * Factor \in Nat
    BY <2>1, <2>2 DEF Toll, Factor
  <2>6. Cardinality(lost) <= crashes * Factor
    BY <2>1, <2>2, <2>3, <2>4, <2>5
  <2> QED BY <2>1, <2>6 DEF AnswersReach, OwnAnswer, FewVictims, Factor
<1> QED BY <1>1, Invariant, PTL

(* UrgentFirst: the task that leaves the heap is more urgent than all that  *)
(* stay, or was submitted earlier (heapPop, pooled-executor.ts:85).         *)
THEOREM UrgentHolds == Spec => UrgentFirst
<1>1. Inv /\ [Next]_vars => [Urgent]_executorVars
  BY NextInv
<1> QED BY <1>1, Invariant, PTL DEF Spec, UrgentFirst, Urgent
=============================================================================
