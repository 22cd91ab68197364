--------------------------- MODULE FrontendProofs ---------------------------
(***************************************************************************)
(* Proofs about the front ends: the page and the streams keep nothing that *)
(* nobody uses, a stream is exact, a refused request has changed nothing,  *)
(* and retry-all tells the truth.                                          *)
(***************************************************************************)
EXTENDS Frontends, FiniteSetTheorems, SequenceTheorems, WellFoundedInduction, TLAPS

-----------------------------------------------------------------------------
(* The page.  While it is there it polls exactly when the effects ran for   *)
(* a lost connection, and has a socket unless its status says otherwise.    *)
(* Without strict mode that socket is the last one made, and a retry is set *)
(* only when it has closed.                                                 *)
LinkStates == {"connecting", "open", "closing", "closed"}

OneWay ==
  /\ \A l \in Links : link[l] \in Alive \cup {"closed"} /\ (link[l] \in Alive => l = wsRef /\ retries = 0)
  /\ retries <= 1

PageInv ==
  /\ link \in [Links -> LinkStates] /\ retries \in Nat
  /\ mounted \in {"never", "yes", "no"} /\ poll \in BOOLEAN /\ strict \in BOOLEAN
  /\ mounted = "never" => /\ \A l \in Links : link[l] = "closed"
                          /\ retries = 0 /\ (transport = "polling" => wsStatus = "disconnected")
  /\ mounted = "yes" => /\ poll = (shown = "disconnected")
                        /\ wsStatus # "disconnected" => \E l \in Links : link[l] \in Alive
                        /\ ~strict => OneWay
  /\ mounted = "no" => ~poll /\ (strict \/ (retries = 0 /\ \A l \in Links : link[l] \notin Alive))

LEMMA PageFrame == [Next]_vars => [PageNext]_pageVars
BY DEF Next, vars, Arrive, Serve, Deadline, Fail, Meanwhile, Command, Live, Page, Elsewhere

LEMMA PageBegin == Init => PageInv
<1> SUFFICES ASSUME Init PROVE PageInv
  OBVIOUS
<1>1. PageInit
  BY DEF Init
<1>2. link \in [Links -> LinkStates] /\ \A l \in Links : link[l] = "closed"
  BY <1>1 DEF PageInit, LinkStates
<1>3. mounted = "never" /\ retries = 0 /\ poll = FALSE /\ strict \in BOOLEAN
  BY <1>1 DEF PageInit
<1>4. transport = "polling" => wsStatus = "disconnected"
  BY <1>1 DEF PageInit
<1> QED BY <1>2, <1>3, <1>4 DEF PageInv

LEMMA PageStep == PageInv /\ [Next]_vars => PageInv'
<1> SUFFICES ASSUME PageInv, [PageNext]_pageVars PROVE PageInv'
  BY PageFrame
<1> USE DEF PageInv, OneWay, LinkStates, Alive
<1>1. CASE Mount
  <2>1. link' \in [Links -> LinkStates] /\ retries' = 0 /\ mounted' = "yes" /\ poll' \in BOOLEAN
    BY <1>1 DEF Mount, ConnectWith
  <2>2. poll' = (shown' = "disconnected")
    BY <1>1 DEF Mount
  <2>3. wsStatus' # "disconnected" => \E l \in Links : link'[l] \in Alive
    BY <1>1 DEF Mount, ConnectWith
  <2>4. ~strict => \A l \in Links : link'[l] \in Alive \cup {"closed"} /\ (link'[l] \in Alive => l = wsRef')
    BY <1>1 DEF Mount, ConnectWith
  <2> QED BY <2>1, <2>2, <2>3, <2>4, <1>1 DEF Mount
<1>2. CASE Render
  BY <1>2 DEF Render
<1>3. CASE Retry
  <2>1. retries \in Nat /\ retries > 0 /\ retries' = retries - 1
    BY <1>3 DEF Retry
  <2>2. retries' \in Nat /\ (retries <= 1 => retries' = 0)
    BY <2>1
  <2>3. CASE mounted = "yes"
    BY <1>3, <2>1, <2>2, <2>3 DEF Retry, ConnectWith
  <2>4. CASE mounted # "yes"
    BY <1>3, <2>1, <2>2, <2>4 DEF Retry
  <2> QED BY <2>3, <2>4
<1>4. CASE Unmount
  <2>1. retries' \in Nat /\ (retries <= 1 => retries' = 0)
    BY <1>4 DEF Unmount
  <2>2. link' \in [Links -> LinkStates] /\ mounted' = "no" /\ ~poll' /\ poll' \in BOOLEAN
    BY <1>4 DEF Unmount
  <2>3. ~strict => \A l \in Links : link'[l] \notin Alive
    BY <1>4, PageConstantsOK DEF Unmount
  <2> QED BY <2>1, <2>2, <2>3, <1>4 DEF Unmount
<1>5. ASSUME NEW l \in Links, OnOpen(l) PROVE PageInv'
  BY <1>5 DEF OnOpen
<1>6. ASSUME NEW l \in Links, OnLinkClose(l) PROVE PageInv'
  <2>1. link' \in [Links -> LinkStates] /\ link'[l] = "closed" /\ \A m \in Links \ {l} : link'[m] = link[m]
    BY <1>6 DEF OnLinkClose
  <2>2. retries' \in {retries, retries + 1} /\ (mounted # "yes" => retries' = retries \/ mounted = "never")
    BY <1>6 DEF OnLinkClose
  <2>3. mounted # "never"
    BY <1>6 DEF OnLinkClose
  <2>4. mounted = "yes" => wsStatus' = "disconnected"
    BY <1>6 DEF OnLinkClose
  <2>5. ~strict /\ mounted = "yes" => link[l] \in Alive /\ retries = 0 /\ \A m \in Links \ {l} : link[m] \notin Alive
    BY <1>6 DEF OnLinkClose
  <2> QED BY <2>1, <2>2, <2>3, <2>4, <2>5, <1>6 DEF OnLinkClose
<1>7. CASE UNCHANGED pageVars
  BY <1>7 DEF pageVars
<1> QED BY <1>1, <1>2, <1>3, <1>4, <1>5, <1>6, <1>7 DEF PageNext

-----------------------------------------------------------------------------
(* The streams.  Sequences of consecutive numbers up to n: what the bus     *)
(* keeps.                                                                   *)
Recent(h, n) ==
  h \in Seq(Nat) /\ n \in Nat /\ Len(h) <= n /\ \A i \in 1..Len(h) : h[i] = n - Len(h) + i

(* A sequence with exactly the numbers of A, in order but for those of M.   *)
Right(q, A, M) ==
  /\ q \in Seq(Nat) /\ ToSet(q) = A /\ IsInjective(q)
  /\ \A i, k \in DOMAIN q : i < k /\ q[i] > q[k] => q[k] \in M

LEMMA RecentGrows ==
  ASSUME NEW h, NEW n, Recent(h, n)
  PROVE  Recent(h \o <<n + 1>>, n + 1) /\ Len(h \o <<n + 1>>) = Len(h) + 1
<1> DEFINE g == h \o <<n + 1>>
<1>1. g \in Seq(Nat) /\ Len(g) = Len(h) + 1 /\ n + 1 \in Nat
  BY DEF Recent
<1>2. \A i \in 1..Len(h) : g[i] = h[i]
  BY DEF Recent
<1>3. g[Len(h) + 1] = n + 1
  BY DEF Recent
<1>4. ASSUME NEW i \in 1..Len(g) PROVE g[i] = n + 1 - Len(g) + i
  <2>1. CASE i \in 1..Len(h)
    BY <1>1, <1>2, <2>1 DEF Recent
  <2>2. CASE i = Len(h) + 1
    BY <1>1, <1>3, <2>2 DEF Recent
  <2> QED BY <1>1, <2>1, <2>2 DEF Recent
<1> QED BY <1>1, <1>4 DEF Recent

LEMMA RecentSuffix ==
  ASSUME NEW h, NEW n, Recent(h, n), NEW m \in 1..(Len(h) + 1)
  PROVE  Recent(SubSeq(h, m, Len(h)), n) /\ Len(SubSeq(h, m, Len(h))) = Len(h) - m + 1
<1>1. PICK k \in Nat : k = Len(h)
  BY DEF Recent
<1>2. SubSeq(h, m, k) \in Seq(Nat) /\ Len(SubSeq(h, m, k)) = k - m + 1
  BY <1>1 DEF Recent
<1>3. ASSUME NEW i \in 1..(k - m + 1) PROVE SubSeq(h, m, k)[i] = n - (k - m + 1) + i
  <2>1. SubSeq(h, m, k)[i] = h[m + i - 1]
    BY <1>1 DEF Recent
  <2>2. m + i - 1 \in 1..k
    BY <1>1
  <2> QED BY <1>1, <2>1, <2>2 DEF Recent
<1>4. PICK g : g = SubSeq(h, m, k)
  OBVIOUS
<1>5. g \in Seq(Nat) /\ Len(g) = k - m + 1 /\ k - m + 1 <= n /\ n \in Nat
  BY <1>1, <1>2, <1>4 DEF Recent
<1>6. \A i \in 1..Len(g) : g[i] = n - Len(g) + i
  BY <1>3, <1>4, <1>5
<1>7. Recent(g, n) /\ Len(g) = k - m + 1
  BY <1>5, <1>6 DEF Recent
<1> QED BY <1>1, <1>4, <1>7

LEMMA RecentKept ==
  ASSUME NEW h, NEW n, Recent(h, n)
  PROVE  Recent(Kept(h), n) /\ Len(Kept(h)) = (IF Len(h) > MaxHistory THEN MaxHistory ELSE Len(h))
<1>1. PICK k \in Nat : k = Len(h)
  BY DEF Recent
<1>2. CASE k > MaxHistory
  <2>1. k - MaxHistory + 1 \in 1..(k + 1)
    BY <1>2, StreamConstantsOK
  <2>2. Kept(h) = SubSeq(h, k - MaxHistory + 1, Len(h))
    BY <1>1, <1>2 DEF Kept
  <2> QED BY <1>1, <1>2, <2>1, <2>2, RecentSuffix, StreamConstantsOK
<1>3. CASE ~(k > MaxHistory)
  <2>1. Kept(h) = SubSeq(h, 1, Len(h)) /\ 1 \in 1..(k + 1)
    BY <1>1, <1>3 DEF Kept
  <2> QED BY <1>1, <1>3, <2>1, RecentSuffix
<1> QED BY <1>2, <1>3

LEMMA RightGrows ==
  ASSUME NEW q, NEW A, NEW M, Right(q, A, M), NEW n \in Nat \ A, \A e \in A : e > n => n \in M
  PROVE  Right(q \o <<n>>, A \cup {n}, M)
<1> DEFINE g == q \o <<n>>
<1>1. PICK k \in Nat : k = Len(q)
  BY DEF Right
<1>2. g \in Seq(Nat) /\ Len(g) = k + 1 /\ g[k + 1] = n /\ \A i \in 1..k : g[i] = q[i]
  BY <1>1 DEF Right
<1>3. DOMAIN q = 1..k /\ DOMAIN g = 1..(k + 1)
  BY <1>1, <1>2 DEF Right
<1>4. \A i \in 1..k : q[i] \in A /\ q[i] \in Nat
  BY <1>1, <1>3 DEF Right, ToSet
<1>5. ToSet(g) = A \cup {n}
  <2>1. A = {q[i] : i \in 1..k}
    BY <1>3 DEF Right, ToSet
  <2>2. ToSet(g) = {g[i] : i \in 1..(k + 1)}
    BY <1>3 DEF ToSet
  <2> HIDE DEF g
  <2>3. \A i \in 1..(k + 1) : i \in 1..k \/ i = k + 1
    OBVIOUS
  <2> QED BY <2>1, <2>2, <2>3, <1>2
<1> HIDE DEF g
<1>6. IsInjective(g)
  BY <1>2, <1>3, <1>4 DEF Right, IsInjective
<1>7. ASSUME NEW i \in 1..(k + 1), NEW j \in 1..(k + 1), i < j, g[i] > g[j] PROVE g[j] \in M
  <2>1. i \in 1..k
    BY <1>7
  <2>2. CASE j = k + 1
    BY <2>1, <2>2, <1>2, <1>4, <1>7
  <2>3. CASE j \in 1..k
    BY <2>1, <2>3, <1>2, <1>3, <1>7 DEF Right
  <2> QED BY <2>2, <2>3
<1>8. Right(g, A \cup {n}, M)
  BY <1>2, <1>3, <1>5, <1>6, <1>7 DEF Right
<1> QED BY <1>8 DEF g

LEMMA RightRecent ==
  ASSUME NEW h, NEW n, Recent(h, n)
  PROVE  Right(h, (n - Len(h) + 1)..n, {})
<1>1. PICK k \in Nat : k = Len(h)
  BY DEF Recent
<1>2. DOMAIN h = 1..k /\ \A i \in 1..k : h[i] = n - k + i
  BY <1>1 DEF Recent
<1>3. n \in Nat /\ k <= n
  BY <1>1 DEF Recent
<1>4. ToSet(h) = (n - k + 1)..n
  <2>1. ToSet(h) = {n - k + i : i \in 1..k}
    BY <1>2 DEF ToSet
  <2>2. \A e \in (n - k + 1)..n : e - n + k \in 1..k /\ n - k + (e - n + k) = e
    BY <1>3
  <2>3. \A i \in 1..k : n - k + i \in (n - k + 1)..n
    BY <1>3
  <2> QED BY <2>1, <2>2, <2>3
<1>5. IsInjective(h)
  BY <1>2, <1>3 DEF IsInjective
<1>6. \A i, j \in 1..k : ~(i < j /\ h[i] > h[j])
  BY <1>2, <1>3
<1> QED BY <1>1, <1>2, <1>4, <1>5, <1>6 DEF Right, Recent

(* A connection that has a listener or an interval is open; one whose       *)
(* client has gone has neither, nor will it get one unless it is a handler  *)
(* that did not notice.                                                     *)
Kinds  == {"events", "overview", "socket"}
Phases == {"new", "asking", "first", "open", "gone"}

ConnOK(c) ==
  /\ c \in timers \cup listeners => phase[c] = "open"
  /\ phase[c] = "first" => kind[c] = "overview"
  /\ c \in left \ early => /\ c \notin timers \cup listeners
                           /\ phase[c] \in {"new", "asking", "first"} => kind[c] = "socket"

ConnInv ==
  /\ kind \in [Conns -> Kinds] /\ phase \in [Conns -> Phases]
  /\ listeners \subseteq Conns \cup {App} /\ timers \subseteq Conns /\ left \subseteq Conns
  /\ \A c \in Conns : ConnOK(c)

(* The bus has the last events in their order; a client that listens has    *)
(* been sent all it is due so far.                                          *)
Bus ==
  /\ Recent(history, emitted)
  /\ Len(history) = IF emitted > MaxHistory THEN MaxHistory ELSE emitted

Due(c) == {e \in since[c]..emitted : <<c, e>> \notin cut}

Served(c) ==
  /\ \A e : <<c, e>> \in cut => e <= emitted /\ e \in Nat /\ phase[c] \in {"open", "gone"}
  /\ phase[c] \in {"new", "asking"} => got[c] = <<>>
  /\ c \in ToEvents /\ phase[c] = "open" /\ c \notin left =>
       /\ c \in listeners /\ since[c] \in 1..(emitted + 1)
       /\ Right(got[c], Due(c), nested)

StreamInv ==
  /\ ConnInv /\ Bus
  /\ got \in [Conns -> Seq(Nat)] /\ since \in [Conns -> Nat]
  /\ \A c \in Conns : Served(c)

LEMMA StreamFrame == [Next]_vars => [StreamNext]_streamVars
BY DEF Next, vars, Arrive, Serve, Deadline, Fail, Meanwhile, Command, Live, Page, Elsewhere

LEMMA StreamBegin == Init => StreamInv
<1> SUFFICES ASSUME Init PROVE StreamInv
  OBVIOUS
<1>1. StreamInit
  BY DEF Init
<1>2. kind \in [Conns -> Kinds]
  BY <1>1, StreamConstantsOK DEF StreamInit, Kinds
<1>3. ConnInv
  BY <1>1, <1>2 DEF StreamInit, ConnInv, ConnOK, Phases
<1>4. Bus
  BY <1>1, StreamConstantsOK DEF StreamInit, Bus, Recent
<1>5. got \in [Conns -> Seq(Nat)] /\ since \in [Conns -> Nat]
  BY <1>1 DEF StreamInit
<1>6. \A c \in Conns : Served(c)
  BY <1>1 DEF StreamInit, Served
<1> QED BY <1>3, <1>4, <1>5, <1>6 DEF StreamInv

LEMMA ConnStep ==
  ASSUME ConnInv, [StreamNext]_streamVars
  PROVE  ConnInv'
<1> USE DEF ConnInv, ConnOK, Kinds, Phases
<1>1. CASE UNCHANGED streamVars
  BY <1>1 DEF streamVars
<1>2. CASE Emit \/ EmitThrows \/ EmitNested
  BY <1>2 DEF Emit, EmitThrows, EmitNested
<1>3. CASE Listen
  BY <1>3, StreamConstantsOK DEF Listen
<1>4. CASE Close
  BY <1>4 DEF Close, OnClose, Sockets
<1>5. ASSUME NEW c \in Conns, Connect(c) PROVE ConnInv'
  BY <1>5 DEF Connect
<1>6. ASSUME NEW c \in Conns, Deny(c) PROVE ConnInv'
  BY <1>6 DEF Deny
<1>7. ASSUME NEW c \in Conns, StreamLifecycle(c), Admit(c) PROVE ConnInv'
  BY <1>7 DEF StreamLifecycle, Admit, Subscribed
<1>8. ASSUME NEW c \in Conns, Stream(c), Admit(c) PROVE ConnInv'
  BY <1>8 DEF Stream, Admit
<1>9. ASSUME NEW c \in Conns, Open(c), Admit(c) PROVE ConnInv'
  <2>1. CASE c \in left \/ Shut(c)
    BY <1>9, <2>1 DEF Open, Admit
  <2>2. CASE ~(c \in left \/ Shut(c))
    BY <1>9, <2>2 DEF Open, Admit, Subscribed
  <2> QED BY <2>1, <2>2
<1>10. ASSUME NEW c \in Conns, Leave(c) PROVE ConnInv'
  BY <1>10 DEF Leave, OnClose
<1>11. ASSUME NEW c \in Conns, SendOverview(c) PROVE ConnInv'
  BY <1>11 DEF SendOverview
<1>12. ASSUME NEW c \in Conns, OverviewSent(c) PROVE ConnInv'
  BY <1>12 DEF OverviewSent
<1>13. ASSUME NEW c \in Conns, OverviewFails(c) PROVE ConnInv'
  BY <1>13 DEF OverviewFails
<1> QED
  BY <1>1, <1>2, <1>3, <1>4, <1>5, <1>6, <1>7, <1>8, <1>9, <1>10, <1>11, <1>12, <1>13 DEF StreamNext, Admit

LEMMA BusGrows ==
  ASSUME Bus, NEW h, NEW n \in Nat, Recent(history \o h, n), Len(history \o h) = Len(history) + (n - emitted),
         n >= emitted, emitted' = n, history' = Kept(history \o h)
  PROVE  Bus'
<1>1. Recent(history', n) /\ Len(history') =
        (IF Len(history \o h) > MaxHistory THEN MaxHistory ELSE Len(history \o h))
  BY RecentKept
<1>2. PICK k \in Nat : k = Len(history)
  BY DEF Bus, Recent
<1>3. Len(history') = (IF k + (n - emitted) > MaxHistory THEN MaxHistory ELSE k + (n - emitted))
  BY <1>1, <1>2
<1>4. emitted \in Nat /\ k = IF emitted > MaxHistory THEN MaxHistory ELSE emitted
  BY <1>2 DEF Bus, Recent
<1>5. Len(history') = IF n > MaxHistory THEN MaxHistory ELSE n
  BY <1>3, <1>4, StreamConstantsOK
<1> QED BY <1>1, <1>5 DEF Bus

LEMMA BusEmits ==
  ASSUME Bus, Push(<<emitted + 1>>)
  PROVE  Bus' /\ emitted' = emitted + 1 /\ emitted \in Nat
<1>1. Recent(history \o <<emitted + 1>>, emitted + 1) /\ Len(history \o <<emitted + 1>>) = Len(history) + 1
  BY RecentGrows DEF Bus
<1>2. emitted' = emitted + 1 /\ emitted \in Nat /\ history' = Kept(history \o <<emitted + 1>>)
  BY DEF Push, Bus, Recent
<1>3. Len(history) \in Nat
  BY DEF Bus, Recent
<1>4. PICK n \in Nat : n = emitted + 1
  BY <1>2
<1>5. Len(history \o <<emitted + 1>>) = Len(history) + (n - emitted) /\ n >= emitted
  BY <1>1, <1>2, <1>3, <1>4
<1>6. PICK h : h = <<emitted + 1>>
  OBVIOUS
<1>7. Bus'
  BY <1>1, <1>2, <1>4, <1>5, <1>6, BusGrows
<1> QED BY <1>2, <1>7

LEMMA BusEmitsTwo ==
  ASSUME Bus, Push(<<emitted + 1, emitted + 2>>)
  PROVE  Bus' /\ emitted' = emitted + 2 /\ emitted \in Nat
<1>1. Recent(history \o <<emitted + 1>>, emitted + 1) /\ Len(history \o <<emitted + 1>>) = Len(history) + 1
  BY RecentGrows DEF Bus
<1>2. emitted' = emitted + 2 /\ emitted \in Nat /\ history' = Kept(history \o <<emitted + 1, emitted + 2>>)
  BY DEF Push, Bus, Recent
<1>3. PICK g : g = history \o <<emitted + 1>>
  OBVIOUS
<1>4. PICK m \in Nat : m = emitted + 1
  BY <1>2
<1>5. Recent(g \o <<m + 1>>, m + 1) /\ Len(g \o <<m + 1>>) = Len(g) + 1
  BY <1>1, <1>3, <1>4, RecentGrows
<1>6. g \o <<m + 1>> = history \o <<emitted + 1, emitted + 2>>
  BY <1>2, <1>3, <1>4 DEF Bus, Recent
<1>7. Len(history) \in Nat
  BY DEF Bus, Recent
<1>8. PICK n \in Nat : n = m + 1
  OBVIOUS
<1>9. PICK h : h = <<emitted + 1, emitted + 2>>
  OBVIOUS
<1>a. Recent(history \o h, n) /\ Len(history \o h) = Len(history) + 2
  <2>1. Len(g) = Len(history) + 1
    BY <1>1, <1>3
  <2>2. history \o h = g \o <<m + 1>>
    BY <1>6, <1>9
  <2>3. Len(g \o <<m + 1>>) = Len(history) + 2
    BY <1>5, <1>7, <2>1
  <2> QED BY <1>5, <1>8, <2>2, <2>3
<1>b. n = emitted + 2 /\ n >= emitted /\ n - emitted = 2
  BY <1>2, <1>4, <1>8
<1>10. Recent(history \o h, n) /\ Len(history \o h) = Len(history) + (n - emitted) /\ n >= emitted /\ n = emitted + 2
  BY <1>a, <1>b
<1>11. Bus'
  BY <1>2, <1>9, <1>10, BusGrows
<1> QED BY <1>2, <1>11

(* What a connection is sent when it subscribes.                            *)
LEMMA RightReplay ==
  ASSUME Bus
  PROVE  /\ GetRecent(Replay) \in Seq(Nat)
         /\ Right(GetRecent(Replay), (IF emitted > Replay THEN emitted - Replay + 1 ELSE 1)..emitted, {})
<1>1. PICK k \in Nat : k = Len(history)
  BY DEF Bus, Recent
<1>2. emitted \in Nat /\ k <= emitted /\ k = (IF emitted > MaxHistory THEN MaxHistory ELSE emitted)
  BY <1>1 DEF Bus, Recent
<1>3. MaxHistory \in Nat /\ Replay \in 1..MaxHistory
  BY StreamConstantsOK
<1>4. PICK m \in Nat : m = (IF k > Replay THEN k - Replay + 1 ELSE 1)
  <2>1. CASE k > Replay
    <3>1. k - Replay + 1 \in Nat
      BY <1>3, <2>1
    <3> QED BY <2>1, <3>1
  <2>2. CASE ~(k > Replay)
    BY <2>2
  <2> QED BY <2>1, <2>2
<1>5. m \in 1..(k + 1)
  BY <1>3, <1>4
<1>6. GetRecent(Replay) = SubSeq(history, m, Len(history))
  BY <1>1, <1>4 DEF GetRecent
<1>7. PICK g : g = SubSeq(history, m, Len(history))
  OBVIOUS
<1>8. Recent(g, emitted) /\ Len(g) = k - m + 1
  BY <1>1, <1>5, <1>7, RecentSuffix DEF Bus
<1>9. Right(g, (emitted - Len(g) + 1)..emitted, {})
  BY <1>8, RightRecent
<1>10. emitted - Len(g) + 1 = IF emitted > Replay THEN emitted - Replay + 1 ELSE 1
  BY <1>2, <1>3, <1>4, <1>8
<1> QED BY <1>6, <1>7, <1>8, <1>9, <1>10 DEF Recent

LEMMA RightMore ==
  ASSUME NEW q, NEW A, NEW M, NEW N, Right(q, A, M), M \subseteq N
  PROVE  Right(q, A, N)
BY DEF Right

LEMMA RightTwo ==
  ASSUME NEW q, NEW A, NEW M, Right(q, A, M), NEW n \in Nat, \A e \in A : e \in Nat /\ e <= n
  PROVE  /\ Right(q \o <<n + 1>>, A \cup {n + 1}, M)
         /\ Right(q \o <<n + 1, n + 2>>, A \cup {n + 1, n + 2}, M)
         /\ Right(q \o <<n + 2, n + 1>>, A \cup {n + 1, n + 2}, M \cup {n + 1})
<1>0. q \in Seq(Nat)
  BY DEF Right
<1>1. Right(q \o <<n + 1>>, A \cup {n + 1}, M)
  <2>1. n + 1 \in Nat \ A /\ \A e \in A : ~(e > n + 1)
    OBVIOUS
  <2> QED BY <2>1, RightGrows
<1>2. Right(q \o <<n + 1, n + 2>>, A \cup {n + 1, n + 2}, M)
  <2>1. PICK g, B : g = q \o <<n + 1>> /\ B = A \cup {n + 1}
    OBVIOUS
  <2>2. n + 2 \in Nat \ B /\ \A e \in B : ~(e > n + 2)
    BY <2>1
  <2>3. Right(g \o <<n + 2>>, B \cup {n + 2}, M)
    BY <1>1, <2>1, <2>2, RightGrows
  <2>4. g \o <<n + 2>> = q \o <<n + 1, n + 2>> /\ B \cup {n + 2} = A \cup {n + 1, n + 2}
    BY <1>0, <2>1
  <2> QED BY <2>3, <2>4
<1>3. Right(q \o <<n + 2, n + 1>>, A \cup {n + 1, n + 2}, M \cup {n + 1})
  <2>1. PICK g, B, N : g = q \o <<n + 2>> /\ B = A \cup {n + 2} /\ N = M \cup {n + 1}
    OBVIOUS
  <2>2. n + 2 \in Nat \ A /\ \A e \in A : ~(e > n + 2)
    OBVIOUS
  <2>3. Right(q, A, N)
    BY <2>1, RightMore
  <2>4. Right(g, B, N)
    BY <2>1, <2>2, <2>3, RightGrows
  <2>5. n + 1 \in Nat \ B /\ n + 1 \in N
    BY <2>1
  <2>6. Right(g \o <<n + 1>>, B \cup {n + 1}, N)
    BY <2>4, <2>5, RightGrows
  <2>7. g \o <<n + 1>> = q \o <<n + 2, n + 1>> /\ B \cup {n + 1} = A \cup {n + 1, n + 2}
    BY <1>0, <2>1
  <2> QED BY <2>1, <2>6, <2>7
<1> QED BY <1>1, <1>2, <1>3

(* An action that emits nothing and sends a connection nothing.             *)
LEMMA ServedSame ==
  ASSUME NEW c \in Conns, Served(c), UNCHANGED <<emitted, cut, kind, nested>>,
         got'[c] = got[c], since'[c] = since[c],
         phase'[c] \in {"new", "asking"} => phase[c] \in {"new", "asking"},
         phase[c] \in {"open", "gone"} => phase'[c] \in {"open", "gone"},
         phase'[c] = "open" /\ c \in ToEvents /\ c \notin left' =>
           phase[c] = "open" /\ c \notin left /\ (c \in listeners => c \in listeners')
  PROVE  Served(c)'
BY DEF Served, Due, ToEvents

LEMMA ServedNew ==
  ASSUME NEW c \in Conns, StreamInv, phase[c] = "asking", phase'[c] = "open", Subscribed(c),
         UNCHANGED <<emitted, cut, nested>>
  PROVE  Served(c)' /\ got' \in [Conns -> Seq(Nat)] /\ since' \in [Conns -> Nat]
         /\ \A d \in Conns \ {c} : got'[d] = got[d] /\ since'[d] = since[d]
<1>1. PICK r : r = GetRecent(Replay)
  OBVIOUS
<1>2. PICK s : s = IF emitted > Replay THEN emitted - Replay + 1 ELSE 1
  OBVIOUS
<1>3. r \in Seq(Nat) /\ Right(r, s..emitted, {})
  BY <1>1, <1>2, RightReplay DEF StreamInv
<1>4. emitted \in Nat /\ Replay \in Nat /\ Replay >= 1
  BY StreamConstantsOK DEF StreamInv, Bus, Recent
<1>5. s \in Nat /\ s \in 1..(emitted + 1)
  BY <1>2, <1>4
<1>6. got[c] = <<>> /\ \A e : <<c, e>> \notin cut
  BY DEF StreamInv, Served
<1>7. got' = [got EXCEPT ![c] = r] /\ since' = [since EXCEPT ![c] = s]
  BY <1>1, <1>2, <1>3, <1>6 DEF Subscribed, StreamInv
<1>8. Right(got'[c], Due(c)', nested')
  <2>1. got'[c] = r /\ Due(c)' = s..emitted
    BY <1>6, <1>7 DEF Due, StreamInv
  <2> QED BY <1>3, <2>1, RightMore
<1>9. c \in listeners'
  BY DEF Subscribed
<1>10. since'[c] = s
  BY <1>7 DEF StreamInv
<1> QED BY <1>3, <1>5, <1>6, <1>7, <1>8, <1>9, <1>10 DEF Served, StreamInv

LEMMA DueGrows ==
  ASSUME NEW c \in Conns, emitted \in Nat, since[c] \in Nat, Right(got[c], Due(c), nested)
  PROVE  /\ Right(got[c] \o <<emitted + 1>>, Due(c) \cup {emitted + 1}, nested)
         /\ Right(got[c] \o <<emitted + 1, emitted + 2>>, Due(c) \cup {emitted + 1, emitted + 2}, nested)
         /\ Right(got[c] \o <<emitted + 2, emitted + 1>>, Due(c) \cup {emitted + 1, emitted + 2},
                  nested \cup {emitted + 1})
<1>1. PICK q, A, n : q = got[c] /\ A = Due(c) /\ n = emitted
  OBVIOUS
<1>2. \A e \in A : e \in Nat /\ e <= n
  BY <1>1 DEF Due
<1> QED BY <1>1, <1>2, RightTwo

LEMMA EmitServed ==
  ASSUME StreamInv, Emit, NEW c \in Conns
  PROVE  Served(c)'
<1>1. emitted' = emitted + 1 /\ emitted \in Nat
  BY BusEmits DEF Emit, StreamInv
<1>2. UNCHANGED <<kind, phase, left, listeners, since, cut, nested>>
  BY DEF Emit
<1>3. Served(c)
  BY DEF StreamInv
<1>4. got'[c] = IF Hears(c, listeners) THEN got[c] \o <<emitted + 1>> ELSE got[c]
  BY DEF Emit, Told
<1>5. phase[c] \in {"new", "asking"} => got'[c] = <<>>
  BY <1>3, <1>4 DEF Hears, StreamInv, ConnInv, ConnOK, Served
<1>6. ASSUME c \in ToEvents, phase[c] = "open", c \notin left
      PROVE  c \in listeners /\ since[c] \in 1..(emitted + 2) /\ Right(got'[c], Due(c)', nested)
  <2>1. c \in listeners /\ since[c] \in 1..(emitted + 1) /\ Right(got[c], Due(c), nested)
    BY <1>3, <1>6 DEF Served
  <2>2. got'[c] = got[c] \o <<emitted + 1>>
    BY <1>4, <1>6, <2>1 DEF Hears
  <2>3. since[c] \in Nat
    BY <1>1, <2>1
  <2>a. Right(got[c] \o <<emitted + 1>>, Due(c) \cup {emitted + 1}, nested)
    BY <1>1, <2>1, <2>3, DueGrows
  <2>4. Right(got'[c], Due(c) \cup {emitted + 1}, nested)
    BY <2>2, <2>a
  <2>5. <<c, emitted + 1>> \notin cut
    BY <1>1, <1>3 DEF Served
  <2>6. Due(c)' = Due(c) \cup {emitted + 1}
    BY <1>1, <1>2, <2>1, <2>5 DEF Due
  <2> QED BY <1>1, <2>1, <2>4, <2>6
<1>7. \A e : <<c, e>> \in cut => e <= emitted + 1 /\ e \in Nat /\ phase[c] \in {"open", "gone"}
  BY <1>1, <1>3 DEF Served
<1> QED BY <1>1, <1>2, <1>5, <1>6, <1>7 DEF Served, ToEvents

LEMMA ThrowServed ==
  ASSUME StreamInv, EmitThrows, NEW c \in Conns
  PROVE  Served(c)'
<1>1. emitted' = emitted + 1 /\ emitted \in Nat
  BY BusEmits DEF EmitThrows, StreamInv
<1>2. UNCHANGED <<kind, phase, left, listeners, since, nested>>
  BY DEF EmitThrows
<1>3. Served(c)
  BY DEF StreamInv
<1>4. got'[c] = IF Hears(c, Before) THEN got[c] \o <<emitted + 1>> ELSE got[c]
  BY DEF EmitThrows, Told
<1>5. phase[c] \in {"new", "asking"} => got'[c] = <<>>
  BY <1>3, <1>4 DEF Hears, Before, StreamInv, ConnInv, ConnOK, Served
<1>6. \A e : <<c, e>> \in cut' <=> <<c, e>> \in cut \/ (e = emitted + 1 /\ Hears(c, Behind))
  BY DEF EmitThrows
<1>7. ASSUME c \in ToEvents, phase[c] = "open", c \notin left
      PROVE  c \in listeners /\ since[c] \in 1..(emitted + 2) /\ Right(got'[c], Due(c)', nested)
  <2>1. c \in listeners /\ since[c] \in 1..(emitted + 1) /\ Right(got[c], Due(c), nested)
    BY <1>3, <1>7 DEF Served
  <2>2. <<c, emitted + 1>> \notin cut
    BY <1>1, <1>3 DEF Served
  <2>3. CASE c \in Before
    <3>1. got'[c] = got[c] \o <<emitted + 1>> /\ ~Hears(c, Behind)
      BY <1>4, <1>7, <2>3 DEF Hears, Behind
    <3>2. since[c] \in Nat
      BY <1>1, <2>1
    <3>a. Right(got[c] \o <<emitted + 1>>, Due(c) \cup {emitted + 1}, nested)
      BY <1>1, <2>1, <3>2, DueGrows
    <3>3. Right(got'[c], Due(c) \cup {emitted + 1}, nested)
      BY <3>1, <3>a
    <3>4. Due(c)' = Due(c) \cup {emitted + 1}
      BY <1>1, <1>2, <1>6, <2>1, <2>2, <3>1 DEF Due
    <3> QED BY <1>1, <2>1, <3>3, <3>4
  <2>4. CASE c \notin Before
    <3>1. got'[c] = got[c] /\ Hears(c, Behind)
      BY <1>4, <1>7, <2>1, <2>4 DEF Hears, Behind
    <3>2. Due(c)' = Due(c)
      BY <1>1, <1>2, <1>6, <2>1, <3>1 DEF Due
    <3> QED BY <1>1, <2>1, <3>1, <3>2
  <2> QED BY <2>3, <2>4
<1>8. \A e : <<c, e>> \in cut' => e <= emitted + 1 /\ e \in Nat /\ phase[c] \in {"open", "gone"}
  <2>1. Hears(c, Behind) => phase[c] = "open"
    BY DEF Hears, Behind, StreamInv, ConnInv, ConnOK
  <2> QED BY <1>1, <1>3, <1>6, <2>1 DEF Served
<1> QED BY <1>1, <1>2, <1>5, <1>7, <1>8 DEF Served, ToEvents

LEMMA NestedServed ==
  ASSUME StreamInv, EmitNested, NEW c \in Conns
  PROVE  Served(c)'
<1>1. emitted' = emitted + 2 /\ emitted \in Nat
  BY BusEmitsTwo DEF EmitNested, StreamInv
<1>2. UNCHANGED <<kind, phase, left, listeners, since, cut>> /\ nested' = nested \cup {emitted + 1}
  BY DEF EmitNested
<1>3. Served(c)
  BY DEF StreamInv
<1>4. got'[c] = IF Hears(c, Behind) THEN got[c] \o <<emitted + 2, emitted + 1>>
                ELSE IF Hears(c, Before) THEN got[c] \o <<emitted + 1, emitted + 2>> ELSE got[c]
  BY DEF EmitNested, Told, Hears, Behind
<1>5. phase[c] \in {"new", "asking"} => got'[c] = <<>>
  BY <1>3, <1>4 DEF Hears, Before, Behind, StreamInv, ConnInv, ConnOK, Served
<1>6. ASSUME c \in ToEvents, phase[c] = "open", c \notin left
      PROVE  c \in listeners /\ since[c] \in 1..(emitted + 3) /\ Right(got'[c], Due(c)', nested')
  <2>1. c \in listeners /\ since[c] \in 1..(emitted + 1) /\ Right(got[c], Due(c), nested)
    BY <1>3, <1>6 DEF Served
  <2>2. since[c] \in Nat
    BY <1>1, <2>1
  <2>3. \A e : <<c, e>> \in cut => e <= emitted /\ e \in Nat
    BY <1>3 DEF Served
  <2>4. Due(c)' = Due(c) \cup {emitted + 1, emitted + 2}
    BY <1>1, <1>2, <2>1, <2>3 DEF Due
  <2>5. CASE c \in Behind
    <3>1. got'[c] = got[c] \o <<emitted + 2, emitted + 1>>
      BY <1>4, <1>6, <2>5 DEF Hears
    <3>2. Right(got[c] \o <<emitted + 2, emitted + 1>>, Due(c) \cup {emitted + 1, emitted + 2},
                nested \cup {emitted + 1})
      BY <1>1, <2>1, <2>2, DueGrows
    <3>3. Right(got'[c], Due(c)', nested')
      BY <1>2, <2>4, <3>1, <3>2
    <3> QED BY <1>1, <2>1, <3>3
  <2>6. CASE c \notin Behind
    <3>1. got'[c] = got[c] \o <<emitted + 1, emitted + 2>>
      BY <1>4, <1>6, <2>1, <2>6 DEF Hears, Behind
    <3>2. Right(got'[c], Due(c)', nested)
      <4>1. Right(got[c] \o <<emitted + 1, emitted + 2>>, Due(c) \cup {emitted + 1, emitted + 2}, nested)
        BY <1>1, <2>1, <2>2, DueGrows
      <4> QED BY <2>4, <3>1, <4>1
    <3>3. Right(got'[c], Due(c)', nested')
      BY <1>2, <3>2, RightMore
    <3> QED BY <1>1, <2>1, <3>3
  <2> QED BY <2>5, <2>6
<1>7. \A e : <<c, e>> \in cut => e <= emitted + 2 /\ e \in Nat /\ phase[c] \in {"open", "gone"}
  BY <1>1, <1>3 DEF Served
<1> QED BY <1>1, <1>2, <1>5, <1>6, <1>7 DEF Served, ToEvents

LEMMA StreamStep ==
  ASSUME StreamInv, [StreamNext]_streamVars
  PROVE  StreamInv'
<1>c. ConnInv' /\ ConnInv
  BY ConnStep DEF StreamInv
<1> DEFINE Sent == got' \in [Conns -> Seq(Nat)] /\ since' \in [Conns -> Nat] /\ \A c \in Conns : Served(c)'
           Quiet == UNCHANGED <<emitted, history, got, since, cut, nested>>
<1>1. CASE UNCHANGED streamVars
  BY <1>1, <1>c DEF streamVars, StreamInv, Bus, Served, Due, ToEvents
<1>2. CASE Emit
  <2>1. got' \in [Conns -> Seq(Nat)]
    BY <1>2, BusEmits DEF Emit, Told, StreamInv
  <2> QED BY <1>c, <1>2, <2>1, BusEmits, EmitServed DEF Emit, StreamInv
<1>3. CASE EmitThrows
  <2>1. got' \in [Conns -> Seq(Nat)]
    BY <1>3, BusEmits DEF EmitThrows, Told, StreamInv
  <2> QED BY <1>c, <1>3, <2>1, BusEmits, ThrowServed DEF EmitThrows, StreamInv
<1>4. CASE EmitNested
  <2>1. emitted + 1 \in Nat /\ emitted + 2 \in Nat
    BY <1>4, BusEmitsTwo DEF EmitNested, StreamInv
  <2>2. Told(Before, <<emitted + 1, emitted + 2>>, got) \in [Conns -> Seq(Nat)]
    BY <2>1 DEF Told, StreamInv
  <2>3. got' \in [Conns -> Seq(Nat)]
    BY <1>4, <2>1, <2>2 DEF EmitNested, Told
  <2> QED BY <1>c, <1>4, <2>3, BusEmitsTwo, NestedServed DEF EmitNested, StreamInv
<1>5. CASE Listen
  <2>1. \A c \in Conns : Served(c)'
    BY <1>5, ServedSame, StreamConstantsOK DEF Listen, StreamInv
  <2> QED BY <1>c, <1>5, <2>1 DEF Listen, StreamInv, Bus
<1>6. CASE Close
  <2>1. \A c \in Conns : Served(c)'
    <3> SUFFICES ASSUME NEW c \in Conns PROVE Served(c)'
      OBVIOUS
    <3>1. phase'[c] = phase[c] \/ (phase[c] = "open" /\ phase'[c] = "gone")
      BY <1>6 DEF Close, Sockets
    <3>2. phase'[c] = "open" /\ c \notin left' => phase[c] = "open" /\ c \notin left /\ (c \in listeners => c \in listeners')
      BY <1>6, <1>c DEF Close, Sockets, OnClose, ConnInv, Phases
    <3> QED BY <1>6, <3>1, <3>2, ServedSame DEF Close, StreamInv
  <2> QED BY <1>c, <1>6, <2>1 DEF Close, StreamInv, Bus
<1>7. ASSUME NEW d \in Conns,
             Connect(d) \/ Deny(d) \/ SendOverview(d) \/ OverviewSent(d) \/ OverviewFails(d) \/ Leave(d)
      PROVE  StreamInv'
  <2>1. \A c \in Conns : Served(c)'
    <3> SUFFICES ASSUME NEW c \in Conns PROVE Served(c)'
      OBVIOUS
    <3>1. /\ phase'[c] = phase[c] \/ (phase[c] = "new" /\ phase'[c] = "asking") \/ (phase[c] = "asking" /\ phase'[c] = "gone")
             \/ (phase[c] = "first" /\ phase'[c] = "open")
          /\ UNCHANGED <<emitted, cut, kind, nested, got, since>>
      BY <1>7, <1>c DEF Connect, Deny, SendOverview, OverviewSent, OverviewFails, Leave, ConnInv
    <3>2. c \notin left' => c \notin left /\ (c \in listeners => c \in listeners')
      BY <1>7 DEF Connect, Deny, SendOverview, OverviewSent, OverviewFails, Leave, OnClose
    <3>3. phase[c] = "first" => c \notin ToEvents
      BY <1>c DEF ConnInv, ConnOK, ToEvents
    <3> QED BY <3>1, <3>2, <3>3, ServedSame DEF StreamInv
  <2> QED BY <1>c, <1>7, <2>1 DEF Connect, Deny, SendOverview, OverviewSent, OverviewFails, Leave, StreamInv, Bus
<1>8. ASSUME NEW d \in Conns, Admit(d) PROVE StreamInv'
  <2>1. UNCHANGED <<emitted, history, cut, nested, kind, left>>
    BY <1>8 DEF Admit
  <2>2. CASE \/ Stream(d)
             \/ Open(d) /\ (d \in left \/ Shut(d))
    <3>1. \A c \in Conns : Served(c)'
      <4> SUFFICES ASSUME NEW c \in Conns PROVE Served(c)'
        OBVIOUS
      <4>1. /\ phase'[c] = phase[c] \/ (phase[c] = "asking" /\ phase'[c] \in {"first", "gone"})
            /\ UNCHANGED <<got, since, listeners>>
        BY <2>2, <1>c DEF Stream, Open, ConnInv
      <4> QED BY <2>1, <4>1, ServedSame DEF StreamInv
    <3> QED BY <1>c, <2>1, <2>2, <3>1 DEF Stream, Open, StreamInv, Bus
  <2>3. CASE StreamLifecycle(d) \/ (Open(d) /\ ~(d \in left \/ Shut(d)))
    <3>1. /\ phase[d] = "asking" /\ phase'[d] = "open" /\ Subscribed(d)
          /\ \A c \in Conns \ {d} : phase'[c] = phase[c]
      BY <2>3, <1>c DEF StreamLifecycle, Open, ConnInv
    <3>2. /\ Served(d)' /\ got' \in [Conns -> Seq(Nat)] /\ since' \in [Conns -> Nat]
          /\ \A c \in Conns \ {d} : got'[c] = got[c] /\ since'[c] = since[c]
      BY <2>1, <3>1, ServedNew
    <3>3. \A c \in Conns \ {d} : Served(c)'
      BY <2>1, <3>1, <3>2, ServedSame DEF StreamInv, Subscribed
    <3> QED BY <1>c, <2>1, <3>2, <3>3 DEF StreamInv, Bus
  <2> QED BY <1>8, <2>2, <2>3 DEF Admit
<1> QED BY <1>1, <1>2, <1>3, <1>4, <1>5, <1>6, <1>7, <1>8 DEF StreamNext

(* For any connections, whatever the listeners of the application do and    *)
(* whoever leaves, closes or fails when: a client that stays is sent every  *)
(* event from the last Replay ones on, once and in order, but for what a    *)
(* listener cut off or emitted itself (lifecycle-events.ts, dashboard.ts,   *)
(* websocket.ts).                                                           *)
THEOREM StreamsExact == Spec => []StreamExact
<1>1. StreamInv => StreamExact
  BY DEF StreamInv, Served, StreamExact, Right, Due, ToEvents
<1>2. StreamInv /\ [Next]_vars => StreamInv'
  BY StreamFrame, StreamStep
<1> QED BY <1>1, <1>2, StreamBegin, PTL DEF Spec

(* A client or a page that has gone leaves no listener, interval, poll or   *)
(* socket behind but in the two cases that are named, and a page that is    *)
(* there is refreshed (dashboard.ts, websocket.ts, useWebSocket.ts).        *)
THEOREM TransportsHold == Spec => []TransportsKept
<1>1. StreamInv => NothingLeaks
  BY DEF StreamInv, ConnInv, ConnOK, NothingLeaks
<1>2. PageInv => PageRefreshes
  BY DEF PageInv, PageRefreshes
<1>3. StreamInv /\ [Next]_vars => StreamInv'
  BY StreamFrame, StreamStep
<1>4. StreamInv /\ PageInv => TransportsKept
  BY <1>1, <1>2 DEF TransportsKept
<1> QED BY <1>3, <1>4, StreamBegin, PageBegin, PageStep, PTL DEF Spec

-----------------------------------------------------------------------------
(* Serving a request: where a handler halts next.                           *)
LEMMA HaltsAt ==
  ASSUME NEW r, NEW k \in Nat, NEW found, NEW ok, NEW n \in (k + 1)..Len(Steps(r)), Len(Steps(r)) \in Nat,
         Halts(Steps(r)[n], r, found, ok), \A m \in (k + 1)..(n - 1) : ~Halts(Steps(r)[m], r, found, ok)
  PROVE  NextHalt(r, k, found, ok) = n
<1> DEFINE P(i) == /\ Halts(Steps(r)[i], r, found, ok)
                   /\ \A m \in (k + 1)..(i - 1) : ~Halts(Steps(r)[m], r, found, ok)
<1>1. P(n)
  OBVIOUS
<1>2. \A i \in (k + 1)..Len(Steps(r)) : P(i) => i = n
  <2> SUFFICES ASSUME NEW i \in (k + 1)..Len(Steps(r)), P(i), i # n PROVE FALSE
    OBVIOUS
  <2>1. CASE i < n
    <3>1. i \in (k + 1)..(n - 1)
      BY <2>1
    <3> QED BY <3>1
  <2>2. CASE n < i
    <3>1. n \in (k + 1)..(i - 1)
      BY <2>2
    <3> QED BY <3>1
  <2> QED BY <2>1, <2>2
<1>3. NextHalt(r, k, found, ok) = CHOOSE i \in (k + 1)..Len(Steps(r)) : P(i)
  BY DEF NextHalt
<1> HIDE DEF P
<1> QED BY <1>1, <1>2, <1>3

(* The request that is served, step by step.                                *)
LEMMA GateHalts ==
  ASSUME NEW g, NEW r, NEW found, NEW ok, NEW s, s = Gate(g)
  PROVE  (Halts(s, r, found, ok) <=> ~Passes(g, r, found, ok)) /\ s.do # "sync"
<1>1. s.do = "gate" /\ s.what = g
  BY DEF Gate
<1> QED BY <1>1 DEF Halts

LEMMA RunsTo ==
  ASSUME NEW r, NEW k \in Nat, NEW found, NEW ok, Run(r, k, found, ok), NEW n \in (k + 1)..Len(Steps(r)),
         Len(Steps(r)) \in Nat, Halts(Steps(r)[n], r, found, ok),
         \A m \in (k + 1)..(n - 1) : ~Halts(Steps(r)[m], r, found, ok) /\ Steps(r)[m].do # "sync"
  PROVE  /\ pos' = n /\ seen' = found /\ did' = ok /\ control' = control
         /\ pending' = CASE Steps(r)[n].do = "reads" -> Steps(r)[n].what
                         [] Steps(r)[n].do \in {"look", "call"} -> {Steps(r)[n].what}
                         [] OTHER -> {}
         /\ answer' = CASE Steps(r)[n].do = "gate" -> Refusal(Steps(r)[n].what, r)
                        [] Steps(r)[n].do = "answer" -> Steps(r)[n].what [] OTHER -> 0
<1>1. NextHalt(r, k, found, ok) = n
  BY HaltsAt
<1>2. {m \in (k + 1)..(n - 1) : Steps(r)[m].do = "sync"} = {}
  OBVIOUS
<1> QED BY <1>1, <1>2 DEF Run

-----------------------------------------------------------------------------
Gates ==
  {"read", "operate", "admin", "name", "access", "filter", "known", "id", "both", "payload",
   "exists", "found", "visible", "listed", "owner", "did"}

(* The shape of a handler: it ends with an answer and answers nowhere else; *)
(* what it sets without waiting and what it calls come after the other      *)
(* steps, and only the result of a call is looked at behind it.             *)
IsSteps(S) == DOMAIN S = 1..Len(S)

(* The calls whose result no gate looks at.                                 *)
Long == {"drain", "clear", "clean", "obliterate", "retryBatch"}

Shape(S, route) ==
  /\ Len(S) \in Nat \ {0} /\ IsSteps(S)
  /\ \A m \in 1..Len(S) :
       /\ S[m].do \in {"gate", "look", "reads", "sync", "call", "answer"}
       /\ S[m].do = "answer" <=> m = Len(S)
       /\ S[m].do = "answer" => S[m].what \in {200, 202}
       /\ S[m].do = "sync" => S[m + 1].do = "answer" \/ S[m + 1] = Call("drain")
       /\ S[m].do = "sync" /\ S[m].what \in Heard => route \in Acting
       /\ S[m].do = "call" =>
            /\ \/ S[m + 1].do = "answer"
               \/ /\ S[m].what \notin Long
                  /\ S[m + 1] = Gate("did") /\ S[m + 2].do = "answer"
            /\ route \in Acting
            /\ S[m].what = "retry" => route \in Replaying
       /\ S[m].do = "gate" => S[m].what \in Gates
       /\ S[m].do = "look" => S[m].what \in Listings

Queries == Listings \cup {"deferred", "archive", "depth", "schedules"}

PlainSteps ==
  [do : {"gate"}, what : Gates] \cup [do : {"look"}, what : Listings] \cup [do : {"reads"}, what : SUBSET Queries]

LEMMA PlainStep ==
  /\ \A g \in Gates : Gate(g) \in PlainSteps
  /\ \A l \in Listings : Look(l) \in PlainSteps
  /\ \A T \in SUBSET Queries : Reads(T) \in PlainSteps
  /\ \A s \in PlainSteps : /\ s.do \in {"gate", "look", "reads"} /\ \A c : s # Call(c)
                           /\ s.do = "gate" => s.what \in Gates
                           /\ s.do = "look" => s.what \in Listings
BY DEF Gate, Look, Reads, Call, PlainSteps

LEMMA PlainEnd ==
  \A P \in Seq(PlainSteps) : \A n, S :
    S = P \o <<Answer(n)>> =>
      /\ Len(P) \in Nat /\ Len(S) = Len(P) + 1 /\ IsSteps(S)
      /\ (\A m \in 1..Len(P) : P[m] \in PlainSteps /\ S[m] = P[m]) /\ S[Len(P) + 1] = Answer(n)
<1> SUFFICES ASSUME NEW P \in Seq(PlainSteps), NEW n, NEW S, S = P \o <<Answer(n)>>
             PROVE  /\ Len(P) \in Nat /\ Len(S) = Len(P) + 1 /\ IsSteps(S)
                    /\ (\A m \in 1..Len(P) : P[m] \in PlainSteps /\ S[m] = P[m]) /\ S[Len(P) + 1] = Answer(n)
  OBVIOUS
<1> DEFINE All == PlainSteps \cup {Answer(n)}
<1>1. P \in Seq(All) /\ <<Answer(n)>> \in Seq(All) /\ Len(<<Answer(n)>>) = 1 /\ <<Answer(n)>>[1] = Answer(n)
  <2>1. P \in Seq(All)
    BY SeqMonotonic
  <2> QED BY <2>1
<1>2. Len(P) \in Nat /\ \A m \in 1..Len(P) : P[m] \in PlainSteps
  OBVIOUS
<1>3. Len(S) = Len(P) + 1 /\ \A i \in 1..(Len(P) + 1) : S[i] = IF i <= Len(P) THEN P[i] ELSE <<Answer(n)>>[i - Len(P)]
  <2> HIDE DEF All
  <2> QED BY <1>1, ConcatProperties
<1>4. \A m \in 1..Len(P) : S[m] = P[m]
  BY <1>2, <1>3
<1>5. S[Len(P) + 1] = Answer(n)
  BY <1>1, <1>2, <1>3
<1>6. IsSteps(S)
  <2> HIDE DEF All
  <2>1. S \in Seq(All)
    BY <1>1, ConcatProperties
  <2> QED BY <2>1, LenProperties DEF IsSteps
<1> QED BY <1>2, <1>3, <1>4, <1>5, <1>6

LEMMA PlainShape ==
  ASSUME NEW P \in Seq(PlainSteps), NEW n, n \in {200, 202}, NEW route, NEW S, S = P \o <<Answer(n)>>
  PROVE  Shape(S, route)
<1>1. /\ Len(P) \in Nat /\ Len(S) = Len(P) + 1 /\ IsSteps(S)
      /\ (\A m \in 1..Len(P) : P[m] \in PlainSteps /\ S[m] = P[m]) /\ S[Len(P) + 1] = Answer(n)
  BY PlainEnd DEF IsSteps
<1>2. Answer(n).do = "answer" /\ Answer(n).what = n /\ \A c : Answer(n) # Call(c)
  BY DEF Answer, Call
<1>3. \A m \in 1..Len(S) : m \in 1..Len(P) \/ m = Len(P) + 1
  BY <1>1
<1>4. Len(S) \in Nat \ {0}
  BY <1>1
<1>5. \A m \in 1..Len(P) : S[m] \in PlainSteps /\ m # Len(S)
  BY <1>1
<1>6. \A m \in 1..Len(P) : /\ S[m].do \in {"gate", "look", "reads"} /\ \A c : S[m] # Call(c)
                           /\ S[m].do = "gate" => S[m].what \in Gates
                           /\ S[m].do = "look" => S[m].what \in Listings
  BY <1>5, PlainStep
<1> QED BY <1>1, <1>2, <1>3, <1>4, <1>5, <1>6 DEF Shape

LEMMA PlainHandlers ==
  /\ <<Gate("read")>> \o BuildOverview \in Seq(PlainSteps)
  /\ \A s \in Statuses : <<Gate("read"), Gate("filter"), GetDashboardJobs(s)>> \in Seq(PlainSteps)
  /\ (<<Gate("read"), Gate("id"), Gate("filter")>> \o GetDashboardJobById) \o <<Gate("found"), Gate("visible")>>
       \in Seq(PlainSteps)
<1>0. /\ Gate("read") \in PlainSteps /\ Gate("filter") \in PlainSteps /\ Gate("id") \in PlainSteps
      /\ Gate("found") \in PlainSteps /\ Gate("visible") \in PlainSteps
  BY PlainStep DEF Gates
<1>1. <<Gate("read")>> \in Seq(PlainSteps) /\ BuildOverview \in Seq(PlainSteps)
  <2>1. \A q \in Queries : Reads({q}) \in PlainSteps
    BY PlainStep
  <2>2. /\ ListRepeatables \in PlainSteps /\ GetQueueDepth \in PlainSteps /\ QueryDeferred \in PlainSteps
        /\ GetDLQ \in PlainSteps /\ GetCompleted \in PlainSteps
    BY <2>1 DEF Queries, Listings, ListRepeatables, GetQueueDepth, QueryDeferred, GetDLQ, GetCompleted
  <2> QED BY <1>0, <2>2 DEF BuildOverview
<1>2. ASSUME NEW s \in Statuses PROVE <<Gate("read"), Gate("filter"), GetDashboardJobs(s)>> \in Seq(PlainSteps)
  <2>1. GetDashboardJobs(s) \in PlainSteps
    <3>1. \A q \in Queries : Reads({q}) \in PlainSteps
      BY PlainStep
    <3>2. {"dead", "ready", "active", "deferred", "completed"} \in SUBSET Queries
      BY DEF Queries, Listings
    <3>3. Reads({"dead", "ready", "active", "deferred", "completed"}) \in PlainSteps
      BY <3>2, PlainStep
    <3> QED BY <3>1, <3>3 DEF GetDashboardJobs, Statuses, GetDLQ, GetReadyJobs, GetActiveJobs, GetCompleted,
          Queries, Listings
  <2> QED BY <1>0, <2>1
<1>3. /\ <<Gate("read"), Gate("id"), Gate("filter")>> \in Seq(PlainSteps)
      /\ GetDashboardJobById \in Seq(PlainSteps)
      /\ <<Gate("found"), Gate("visible")>> \in Seq(PlainSteps)
  <2>1. \A l \in {"completed", "ready", "active", "pending", "due", "dead"} : Look(l) \in PlainSteps
    BY PlainStep DEF Listings
  <2>2. GetDashboardJobById \in Seq(PlainSteps)
    BY <2>1 DEF GetDashboardJobById
  <2> QED BY <1>0, <2>2
<1>4. <<Gate("read")>> \o BuildOverview \in Seq(PlainSteps)
  BY <1>1, ConcatProperties
<1>5. <<Gate("read"), Gate("id"), Gate("filter")>> \o GetDashboardJobById \in Seq(PlainSteps)
  BY <1>3, ConcatProperties
<1>6. (<<Gate("read"), Gate("id"), Gate("filter")>> \o GetDashboardJobById) \o <<Gate("found"), Gate("visible")>>
       \in Seq(PlainSteps)
  BY <1>3, <1>5, ConcatProperties
<1> QED BY <1>2, <1>4, <1>6


LEMMA GateSteps ==
  /\ \A g \in Gates : Gate(g) \in PlainSteps
  /\ {"read", "operate", "admin", "name", "access", "filter", "known", "id", "both", "payload",
      "exists", "found", "visible", "listed", "owner", "did"} = Gates
BY PlainStep DEF Gates

LEMMA QuerySteps ==
  /\ ListRepeatables \in PlainSteps /\ QueryJobArchive \in PlainSteps /\ GetQueueStatus \in PlainSteps
  /\ ListMonitoringTags \in PlainSteps /\ BuildSloReport \in PlainSteps /\ GetSilencedJobs \in PlainSteps
<1>1. /\ {"schedules"} \in SUBSET Queries /\ {"archive"} \in SUBSET Queries
      /\ {"depth", "ready", "active", "pending", "dead"} \in SUBSET Queries
      /\ {"ready", "active", "completed", "dead"} \in SUBSET Queries
      /\ {"completed", "dead"} \in SUBSET Queries /\ {"completed"} \in SUBSET Queries
  BY DEF Queries, Listings
<1>2. /\ Reads({"schedules"}) \in PlainSteps /\ Reads({"archive"}) \in PlainSteps
      /\ Reads({"depth", "ready", "active", "pending", "dead"}) \in PlainSteps
      /\ Reads({"ready", "active", "completed", "dead"}) \in PlainSteps
      /\ Reads({"completed", "dead"}) \in PlainSteps /\ Reads({"completed"}) \in PlainSteps
  BY <1>1, PlainStep
<1> QED BY <1>2 DEF ListRepeatables, QueryJobArchive, GetQueueStatus, ListMonitoringTags, BuildSloReport,
      GetSilencedJobs, GetCompleted

LEMMA StepKinds ==
  /\ \A n : Answer(n).do = "answer" /\ Answer(n).what = n /\ \A c : Answer(n) # Call(c)
  /\ \A c : Call(c).do = "call" /\ Call(c).what = c /\ \A d : Call(d) = Call(c) => d = c
  /\ \A c : Sync(c).do = "sync" /\ Sync(c).what = c /\ \A d : Sync(c) # Call(d)
  /\ \A g : Gate(g).do = "gate" /\ Gate(g).what = g /\ \A d : Gate(g) # Call(d)
BY DEF Answer, Call, Sync, Gate


LEMMA SyncShape ==
  ASSUME NEW S, NEW route, NEW k \in Nat, \A m \in 1..k : S[m] \in PlainSteps, IsSteps(S),
         Len(S) = k + 2, NEW c, S[k + 1] = Sync(c), NEW n \in {200, 202}, S[k + 2] = Answer(n),
         c \in Heard => route \in Acting
  PROVE  Shape(S, route)
<1>1. \A m \in 1..Len(S) : m \in 1..k \/ m = k + 1 \/ m = k + 2
  OBVIOUS
<1>2. \A m \in 1..k : /\ m # Len(S) /\ S[m].do \in {"gate", "look", "reads"} /\ \A d : S[m] # Call(d)
                      /\ S[m].do = "gate" => S[m].what \in Gates
                      /\ S[m].do = "look" => S[m].what \in Listings
  BY PlainStep
<1>3. Len(S) \in Nat \ {0}
  OBVIOUS
<1>4. /\ S[k + 1].do = "sync" /\ S[k + 1].what = c /\ (\A d : S[k + 1] # Call(d))
      /\ S[k + 2].do = "answer" /\ S[k + 2].what = n /\ \A d : S[k + 2] # Call(d)
  BY StepKinds
<1>5. k + 1 # Len(S) /\ k + 1 + 1 = k + 2
  OBVIOUS
<1> QED BY <1>1, <1>2, <1>3, <1>4, <1>5 DEF Shape


LEMMA DrainShape ==
  ASSUME NEW S, NEW route, NEW k \in Nat, \A m \in 1..k : S[m] \in PlainSteps, IsSteps(S),
         Len(S) = k + 3, NEW c, S[k + 1] = Sync(c), S[k + 2] = Call("drain"), S[k + 3] = Answer(202), route = "drain"
  PROVE  Shape(S, route)
<1>1. \A m \in 1..Len(S) : m \in 1..k \/ m = k + 1 \/ m = k + 2 \/ m = k + 3
  OBVIOUS
<1>2. \A m \in 1..k : /\ m # Len(S) /\ S[m].do \in {"gate", "look", "reads"} /\ \A d : S[m] # Call(d)
                      /\ S[m].do = "gate" => S[m].what \in Gates
                      /\ S[m].do = "look" => S[m].what \in Listings
  BY PlainStep
<1>3. Len(S) \in Nat \ {0}
  OBVIOUS
<1>4. /\ S[k + 1].do = "sync" /\ (\A d : S[k + 1] # Call(d)) /\ S[k + 2].do = "call" /\ S[k + 2].what = "drain"
      /\ S[k + 3].do = "answer" /\ S[k + 3].what = 202 /\ \A d : S[k + 3] # Call(d)
  BY StepKinds
<1>5. k + 1 # Len(S) /\ k + 2 # Len(S) /\ k + 1 + 1 = k + 2 /\ k + 2 + 1 = k + 3 /\ k + 1 + 2 = k + 3
  OBVIOUS
<1>6. route \in Acting
  BY DEF Acting
<1> QED BY <1>1, <1>2, <1>3, <1>4, <1>5, <1>6 DEF Shape


LEMMA CallShape ==
  ASSUME NEW S, NEW route, NEW k \in Nat, \A m \in 1..k : S[m] \in PlainSteps, IsSteps(S),
         Len(S) = k + 2, NEW c, S[k + 1] = Call(c), S[k + 2] = Answer(202), c # "retry", route \in Acting
  PROVE  Shape(S, route)
<1>1. \A m \in 1..Len(S) : m \in 1..k \/ m = k + 1 \/ m = k + 2
  OBVIOUS
<1>2. \A m \in 1..k : /\ m # Len(S) /\ S[m].do \in {"gate", "look", "reads"} /\ \A d : S[m] # Call(d)
                      /\ S[m].do = "gate" => S[m].what \in Gates
                      /\ S[m].do = "look" => S[m].what \in Listings
  BY PlainStep
<1>3. Len(S) \in Nat \ {0}
  OBVIOUS
<1>4. /\ S[k + 1].do = "call" /\ S[k + 1].what = c
      /\ S[k + 2].do = "answer" /\ S[k + 2].what = 202 /\ \A d : S[k + 2] # Call(d)
  BY StepKinds
<1>5. k + 1 # Len(S) /\ k + 1 + 1 = k + 2
  OBVIOUS
<1> QED BY <1>1, <1>2, <1>3, <1>4, <1>5 DEF Shape


LEMMA DidShape ==
  ASSUME NEW S, NEW route, NEW k \in Nat, \A m \in 1..k : S[m] \in PlainSteps, IsSteps(S),
         Len(S) = k + 3, NEW c, S[k + 1] = Call(c), S[k + 2] = Gate("did"), S[k + 3] = Answer(202),
         c \notin Long, route \in Acting, c = "retry" => route \in Replaying
  PROVE  Shape(S, route)
<1>1. \A m \in 1..Len(S) : m \in 1..k \/ m = k + 1 \/ m = k + 2 \/ m = k + 3
  OBVIOUS
<1>2. \A m \in 1..k : /\ m # Len(S) /\ S[m].do \in {"gate", "look", "reads"} /\ \A d : S[m] # Call(d)
                      /\ S[m].do = "gate" => S[m].what \in Gates
                      /\ S[m].do = "look" => S[m].what \in Listings
  BY PlainStep
<1>3. Len(S) \in Nat \ {0}
  OBVIOUS
<1>4. /\ S[k + 1].do = "call" /\ S[k + 1].what = c
      /\ S[k + 2].do = "gate" /\ S[k + 2].what \in Gates /\ (\A d : S[k + 2] # Call(d))
      /\ S[k + 3].do = "answer" /\ S[k + 3].what = 202 /\ \A d : S[k + 3] # Call(d)
  BY StepKinds DEF Gates
<1>5. k + 1 # Len(S) /\ k + 2 # Len(S) /\ k + 1 + 1 = k + 2 /\ k + 2 + 1 = k + 3 /\ k + 1 + 2 = k + 3
  OBVIOUS
<1> QED BY <1>1, <1>2, <1>3, <1>4, <1>5 DEF Shape

LEMMA ShownShape == \A P \in Seq(PlainSteps) : \A route : Shape(P \o Shown, route)
<1> TAKE P \in Seq(PlainSteps)
<1> TAKE route
<1>1. P \o Shown = P \o <<Answer(200)>>
  BY DEF Shown
<1> QED BY <1>1, PlainShape

LEMMA ShownHandlers ==
  ASSUME NEW route
  PROVE  /\ Shape(Overview, route) /\ Shape(QueuesRoute, route) /\ Shape(WorkersRoute, route)
         /\ Shape(Summary, route) /\ Shape(QueueStatus, route) /\ Shape(FlowsRoute, route)
         /\ Shape(FlowRoute, route) /\ Shape(ArchiveRoute, route) /\ Shape(BatchesRoute, route)
         /\ Shape(BatchRoute, route) /\ Shape(MonitoringRoute, route) /\ Shape(TagRoute, route)
         /\ Shape(SloRoute, route) /\ Shape(SilencedRoute, route) /\ Shape(JobRoute, route)
         /\ Shape(SchedulesRoute, route) /\ Shape(ScalingRoute, route)
         /\ \A s \in Statuses : Shape(JobsRoute(s), route)
<1> USE PlainStep, QuerySteps, ShownShape
<1>1. Shape(Overview, route) /\ Shape(QueuesRoute, route) /\ Shape(WorkersRoute, route) /\ Shape(Summary, route)
  BY PlainHandlers DEF Overview, QueuesRoute, WorkersRoute, Summary
<1>2. \A s \in Statuses : Shape(JobsRoute(s), route)
  BY PlainHandlers DEF JobsRoute
<1>3. Shape(JobRoute, route)
  BY PlainHandlers DEF JobRoute
<1>4. Shape(FlowsRoute, route)
  <2>1. Len(FlowsRoute) = 1 /\ FlowsRoute[1] = Answer(200) /\ IsSteps(FlowsRoute)
    BY DEF FlowsRoute, Shown, IsSteps
  <2> QED BY <2>1, StepKinds DEF Shape
<1>5. /\ Gate("read") \in PlainSteps /\ Gate("name") \in PlainSteps /\ Gate("access") \in PlainSteps
      /\ Gate("known") \in PlainSteps /\ Gate("id") \in PlainSteps /\ Gate("exists") \in PlainSteps
      /\ Gate("filter") \in PlainSteps /\ Gate("found") \in PlainSteps /\ Gate("visible") \in PlainSteps
  BY DEF Gates
<1>6. Shape(QueueStatus, route)
  <2>1. <<Gate("read"), Gate("name"), Gate("access"), Gate("known"), GetQueueStatus>> \in Seq(PlainSteps)
    BY <1>5
  <2> QED BY <2>1 DEF QueueStatus
<1>7. Shape(FlowRoute, route)
  <2>1. <<Gate("id"), Gate("exists")>> \in Seq(PlainSteps)
    BY <1>5
  <2> QED BY <2>1 DEF FlowRoute
<1>8. Shape(ArchiveRoute, route)
  <2>1. <<Gate("read"), Gate("filter"), QueryJobArchive>> \in Seq(PlainSteps)
    BY <1>5
  <2> QED BY <2>1 DEF ArchiveRoute
<1>9. Shape(BatchesRoute, route)
  <2>1. <<Gate("read")>> \in Seq(PlainSteps)
    BY <1>5
  <2> QED BY <2>1 DEF BatchesRoute
<1>10. Shape(BatchRoute, route)
  <2>1. <<Gate("read"), Gate("id"), Gate("exists")>> \in Seq(PlainSteps)
    BY <1>5
  <2> QED BY <2>1 DEF BatchRoute
<1>11. Shape(MonitoringRoute, route)
  <2>1. <<Gate("read"), ListMonitoringTags>> \in Seq(PlainSteps)
    BY <1>5
  <2> QED BY <2>1 DEF MonitoringRoute
<1>12. Shape(TagRoute, route)
  <2>1. <<Gate("read"), Gate("id"), ListMonitoringTags, Gate("found"), Gate("visible")>> \in Seq(PlainSteps)
    BY <1>5
  <2> QED BY <2>1 DEF TagRoute
<1>13. Shape(SloRoute, route)
  <2>1. <<Gate("read"), Gate("filter"), BuildSloReport>> \in Seq(PlainSteps)
    BY <1>5
  <2> QED BY <2>1 DEF SloRoute
<1>14. Shape(SilencedRoute, route)
  <2>1. <<Gate("read"), Gate("filter"), GetSilencedJobs>> \in Seq(PlainSteps)
    BY <1>5
  <2> QED BY <2>1 DEF SilencedRoute
<1>15. Shape(SchedulesRoute, route)
  <2>1. <<Gate("read"), Gate("filter"), ListRepeatables>> \in Seq(PlainSteps)
    BY <1>5
  <2> QED BY <2>1 DEF SchedulesRoute
<1>16. Shape(ScalingRoute, route)
  <2>1. <<Gate("read")>> \in Seq(PlainSteps)
    BY <1>5
  <2> QED BY <2>1 DEF ScalingRoute
<1> QED BY <1>1, <1>2, <1>3, <1>4, <1>6, <1>7, <1>8, <1>9, <1>10, <1>11, <1>12, <1>13, <1>14, <1>15, <1>16

LEMMA ActingHandlers ==
  /\ Shape(PauseRoute, "pause") /\ Shape(ResumeRoute, "resume") /\ Shape(RetentionRoute, "retention")
  /\ Shape(ScaleRoute, "scale") /\ Shape(DrainRoute, "drain") /\ Shape(BatchRetry, "batchRetry")
  /\ Shape(ClearRoute, "clear") /\ Shape(CleanRoute, "clean") /\ Shape(ObliterateRoute, "obliterate")
  /\ Shape(UnscheduleRoute, "unschedule") /\ Shape(PromoteRoute, "promote") /\ Shape(RemoveRoute, "remove")
  /\ Shape(RetryDlqRoute, "retryDlq") /\ Shape(RetryFailedRoute, "retryFailed")
<1>0. /\ Gate("operate") \in PlainSteps /\ Gate("name") \in PlainSteps /\ Gate("access") \in PlainSteps
      /\ Gate("known") \in PlainSteps /\ Gate("id") \in PlainSteps /\ Gate("admin") \in PlainSteps
      /\ Gate("filter") \in PlainSteps /\ Gate("listed") \in PlainSteps /\ Gate("owner") \in PlainSteps
      /\ Gate("payload") \in PlainSteps /\ Gate("both") \in PlainSteps /\ ListRepeatables \in PlainSteps
  BY PlainStep, QuerySteps DEF Gates
<1>1. Shape(PauseRoute, "pause")
  <2> DEFINE S == PauseRoute
  <2>1. /\ Len(S) = 6 /\ DOMAIN S = 1..Len(S)
        /\ S[1] = Gate("operate") /\ S[2] = Gate("name") /\ S[3] = Gate("access") /\ S[4] = Gate("known") /\ S[5] = Sync("pause") /\ S[6] = Answer(202)
    BY DEF PauseRoute, Done
  <2> HIDE DEF S
  <2>2. PICK k \in Nat : k = 4
    OBVIOUS
  <2>3. \A m \in 1..k : S[m] \in PlainSteps
    <3>1. \A m \in 1..k : m = 1 \/ m = 2 \/ m = 3 \/ m = 4
      BY <2>2
    <3> QED BY <1>0, <2>1, <3>1
  <2>4. Len(S) = k + 2 /\ S[k + 1] = Sync("pause") /\ S[k + 2] = Answer(202)
    BY <2>1, <2>2
  <2>5. IsSteps(S)
    BY <2>1 DEF IsSteps
  <2>6. Shape(S, "pause")
    BY <2>3, <2>4, <2>5, SyncShape DEF Heard, Acting
  <2> QED BY <2>6 DEF S
<1>2. Shape(ResumeRoute, "resume")
  <2> DEFINE S == ResumeRoute
  <2>1. /\ Len(S) = 6 /\ DOMAIN S = 1..Len(S)
        /\ S[1] = Gate("operate") /\ S[2] = Gate("access") /\ S[3] = Gate("name") /\ S[4] = Gate("known") /\ S[5] = Sync("resume") /\ S[6] = Answer(202)
    BY DEF ResumeRoute, Done
  <2> HIDE DEF S
  <2>2. PICK k \in Nat : k = 4
    OBVIOUS
  <2>3. \A m \in 1..k : S[m] \in PlainSteps
    <3>1. \A m \in 1..k : m = 1 \/ m = 2 \/ m = 3 \/ m = 4
      BY <2>2
    <3> QED BY <1>0, <2>1, <3>1
  <2>4. Len(S) = k + 2 /\ S[k + 1] = Sync("resume") /\ S[k + 2] = Answer(202)
    BY <2>1, <2>2
  <2>5. IsSteps(S)
    BY <2>1 DEF IsSteps
  <2>6. Shape(S, "resume")
    BY <2>3, <2>4, <2>5, SyncShape DEF Heard, Acting
  <2> QED BY <2>6 DEF S
<1>3. Shape(RetentionRoute, "retention")
  <2> DEFINE S == RetentionRoute
  <2>1. /\ Len(S) = 4 /\ DOMAIN S = 1..Len(S)
        /\ S[1] = Gate("admin") /\ S[2] = Gate("payload") /\ S[3] = Sync("retention") /\ S[4] = Answer(200)
    BY DEF RetentionRoute, Shown
  <2> HIDE DEF S
  <2>2. PICK k \in Nat : k = 2
    OBVIOUS
  <2>3. \A m \in 1..k : S[m] \in PlainSteps
    <3>1. \A m \in 1..k : m = 1 \/ m = 2
      BY <2>2
    <3> QED BY <1>0, <2>1, <3>1
  <2>4. Len(S) = k + 2 /\ S[k + 1] = Sync("retention") /\ S[k + 2] = Answer(200)
    BY <2>1, <2>2
  <2>5. IsSteps(S)
    BY <2>1 DEF IsSteps
  <2>6. Shape(S, "retention")
    BY <2>3, <2>4, <2>5, SyncShape DEF Heard, Acting
  <2> QED BY <2>6 DEF S
<1>4. Shape(ScaleRoute, "scale")
  <2> DEFINE S == ScaleRoute
  <2>1. /\ Len(S) = 4 /\ DOMAIN S = 1..Len(S)
        /\ S[1] = Gate("admin") /\ S[2] = Gate("payload") /\ S[3] = Sync("scale") /\ S[4] = Answer(202)
    BY DEF ScaleRoute, Done
  <2> HIDE DEF S
  <2>2. PICK k \in Nat : k = 2
    OBVIOUS
  <2>3. \A m \in 1..k : S[m] \in PlainSteps
    <3>1. \A m \in 1..k : m = 1 \/ m = 2
      BY <2>2
    <3> QED BY <1>0, <2>1, <3>1
  <2>4. Len(S) = k + 2 /\ S[k + 1] = Sync("scale") /\ S[k + 2] = Answer(202)
    BY <2>1, <2>2
  <2>5. IsSteps(S)
    BY <2>1 DEF IsSteps
  <2>6. Shape(S, "scale")
    BY <2>3, <2>4, <2>5, SyncShape DEF Heard, Acting
  <2> QED BY <2>6 DEF S
<1>5. Shape(DrainRoute, "drain")
  <2> DEFINE S == DrainRoute
  <2>1. /\ Len(S) = 7 /\ DOMAIN S = 1..Len(S)
        /\ S[1] = Gate("operate") /\ S[2] = Gate("access") /\ S[3] = Gate("name") /\ S[4] = Gate("known") /\ S[5] = Sync("pause") /\ S[6] = Call("drain") /\ S[7] = Answer(202)
    BY DEF DrainRoute, Done
  <2> HIDE DEF S
  <2>2. PICK k \in Nat : k = 4
    OBVIOUS
  <2>3. \A m \in 1..k : S[m] \in PlainSteps
    <3>1. \A m \in 1..k : m = 1 \/ m = 2 \/ m = 3 \/ m = 4
      BY <2>2
    <3> QED BY <1>0, <2>1, <3>1
  <2>4. Len(S) = k + 3 /\ S[k + 1] = Sync("pause") /\ S[k + 2] = Call("drain") /\ S[k + 3] = Answer(202)
    BY <2>1, <2>2
  <2>5. IsSteps(S)
    BY <2>1 DEF IsSteps
  <2>6. Shape(S, "drain")
    BY <2>3, <2>4, <2>5, DrainShape
  <2> QED BY <2>6 DEF S
<1>6. Shape(BatchRetry, "batchRetry")
  <2> DEFINE S == BatchRetry
  <2>1. /\ Len(S) = 4 /\ DOMAIN S = 1..Len(S)
        /\ S[1] = Gate("operate") /\ S[2] = Gate("id") /\ S[3] = Call("retryBatch") /\ S[4] = Answer(202)
    BY DEF BatchRetry, Done
  <2> HIDE DEF S
  <2>2. PICK k \in Nat : k = 2
    OBVIOUS
  <2>3. \A m \in 1..k : S[m] \in PlainSteps
    <3>1. \A m \in 1..k : m = 1 \/ m = 2
      BY <2>2
    <3> QED BY <1>0, <2>1, <3>1
  <2>4. Len(S) = k + 2 /\ S[k + 1] = Call("retryBatch") /\ S[k + 2] = Answer(202)
    BY <2>1, <2>2
  <2>5. IsSteps(S)
    BY <2>1 DEF IsSteps
  <2>6. Shape(S, "batchRetry")
    BY <2>3, <2>4, <2>5, CallShape DEF Acting
  <2> QED BY <2>6 DEF S
<1>7. Shape(ClearRoute, "clear")
  <2> DEFINE S == ClearRoute
  <2>1. /\ Len(S) = 5 /\ DOMAIN S = 1..Len(S)
        /\ S[1] = Gate("operate") /\ S[2] = Gate("filter") /\ S[3] = ListRepeatables /\ S[4] = Call("clear") /\ S[5] = Answer(202)
    BY DEF ClearRoute, Done
  <2> HIDE DEF S
  <2>2. PICK k \in Nat : k = 3
    OBVIOUS
  <2>3. \A m \in 1..k : S[m] \in PlainSteps
    <3>1. \A m \in 1..k : m = 1 \/ m = 2 \/ m = 3
      BY <2>2
    <3> QED BY <1>0, <2>1, <3>1
  <2>4. Len(S) = k + 2 /\ S[k + 1] = Call("clear") /\ S[k + 2] = Answer(202)
    BY <2>1, <2>2
  <2>5. IsSteps(S)
    BY <2>1 DEF IsSteps
  <2>6. Shape(S, "clear")
    BY <2>3, <2>4, <2>5, CallShape DEF Acting
  <2> QED BY <2>6 DEF S
<1>8. Shape(CleanRoute, "clean")
  <2> DEFINE S == CleanRoute
  <2>1. /\ Len(S) = 5 /\ DOMAIN S = 1..Len(S)
        /\ S[1] = Gate("operate") /\ S[2] = Gate("access") /\ S[3] = Gate("name") /\ S[4] = Call("clean") /\ S[5] = Answer(202)
    BY DEF CleanRoute, Done
  <2> HIDE DEF S
  <2>2. PICK k \in Nat : k = 3
    OBVIOUS
  <2>3. \A m \in 1..k : S[m] \in PlainSteps
    <3>1. \A m \in 1..k : m = 1 \/ m = 2 \/ m = 3
      BY <2>2
    <3> QED BY <1>0, <2>1, <3>1
  <2>4. Len(S) = k + 2 /\ S[k + 1] = Call("clean") /\ S[k + 2] = Answer(202)
    BY <2>1, <2>2
  <2>5. IsSteps(S)
    BY <2>1 DEF IsSteps
  <2>6. Shape(S, "clean")
    BY <2>3, <2>4, <2>5, CallShape DEF Acting
  <2> QED BY <2>6 DEF S
<1>9. Shape(ObliterateRoute, "obliterate")
  <2> DEFINE S == ObliterateRoute
  <2>1. /\ Len(S) = 5 /\ DOMAIN S = 1..Len(S)
        /\ S[1] = Gate("operate") /\ S[2] = Gate("access") /\ S[3] = Gate("name") /\ S[4] = Call("obliterate") /\ S[5] = Answer(202)
    BY DEF ObliterateRoute, Done
  <2> HIDE DEF S
  <2>2. PICK k \in Nat : k = 3
    OBVIOUS
  <2>3. \A m \in 1..k : S[m] \in PlainSteps
    <3>1. \A m \in 1..k : m = 1 \/ m = 2 \/ m = 3
      BY <2>2
    <3> QED BY <1>0, <2>1, <3>1
  <2>4. Len(S) = k + 2 /\ S[k + 1] = Call("obliterate") /\ S[k + 2] = Answer(202)
    BY <2>1, <2>2
  <2>5. IsSteps(S)
    BY <2>1 DEF IsSteps
  <2>6. Shape(S, "obliterate")
    BY <2>3, <2>4, <2>5, CallShape DEF Acting
  <2> QED BY <2>6 DEF S
<1>10. Shape(UnscheduleRoute, "unschedule")
  <2> DEFINE S == UnscheduleRoute
  <2>1. /\ Len(S) = 8 /\ DOMAIN S = 1..Len(S)
        /\ S[1] = Gate("operate") /\ S[2] = Gate("name") /\ S[3] = ListRepeatables /\ S[4] = Gate("listed") /\ S[5] = Gate("owner") /\ S[6] = Call("unschedule") /\ S[7] = Gate("did") /\ S[8] = Answer(202)
    BY DEF UnscheduleRoute, Done
  <2> HIDE DEF S
  <2>2. PICK k \in Nat : k = 5
    OBVIOUS
  <2>3. \A m \in 1..k : S[m] \in PlainSteps
    <3>1. \A m \in 1..k : m = 1 \/ m = 2 \/ m = 3 \/ m = 4 \/ m = 5
      BY <2>2
    <3> QED BY <1>0, <2>1, <3>1
  <2>4. Len(S) = k + 3 /\ S[k + 1] = Call("unschedule") /\ S[k + 2] = Gate("did") /\ S[k + 3] = Answer(202)
    BY <2>1, <2>2
  <2>5. IsSteps(S)
    BY <2>1 DEF IsSteps
  <2>6. Shape(S, "unschedule")
    BY <2>3, <2>4, <2>5, DidShape DEF Acting, Replaying, Long
  <2> QED BY <2>6 DEF S
<1>11. Shape(PromoteRoute, "promote")
  <2> DEFINE S == PromoteRoute
  <2>1. /\ Len(S) = 6 /\ DOMAIN S = 1..Len(S)
        /\ S[1] = Gate("operate") /\ S[2] = Gate("access") /\ S[3] = Gate("both") /\ S[4] = Call("promote") /\ S[5] = Gate("did") /\ S[6] = Answer(202)
    BY DEF PromoteRoute, Done
  <2> HIDE DEF S
  <2>2. PICK k \in Nat : k = 3
    OBVIOUS
  <2>3. \A m \in 1..k : S[m] \in PlainSteps
    <3>1. \A m \in 1..k : m = 1 \/ m = 2 \/ m = 3
      BY <2>2
    <3> QED BY <1>0, <2>1, <3>1
  <2>4. Len(S) = k + 3 /\ S[k + 1] = Call("promote") /\ S[k + 2] = Gate("did") /\ S[k + 3] = Answer(202)
    BY <2>1, <2>2
  <2>5. IsSteps(S)
    BY <2>1 DEF IsSteps
  <2>6. Shape(S, "promote")
    BY <2>3, <2>4, <2>5, DidShape DEF Acting, Replaying, Long
  <2> QED BY <2>6 DEF S
<1>12. Shape(RemoveRoute, "remove")
  <2> DEFINE S == RemoveRoute
  <2>1. /\ Len(S) = 6 /\ DOMAIN S = 1..Len(S)
        /\ S[1] = Gate("operate") /\ S[2] = Gate("access") /\ S[3] = Gate("both") /\ S[4] = Call("remove") /\ S[5] = Gate("did") /\ S[6] = Answer(202)
    BY DEF RemoveRoute, Done
  <2> HIDE DEF S
  <2>2. PICK k \in Nat : k = 3
    OBVIOUS
  <2>3. \A m \in 1..k : S[m] \in PlainSteps
    <3>1. \A m \in 1..k : m = 1 \/ m = 2 \/ m = 3
      BY <2>2
    <3> QED BY <1>0, <2>1, <3>1
  <2>4. Len(S) = k + 3 /\ S[k + 1] = Call("remove") /\ S[k + 2] = Gate("did") /\ S[k + 3] = Answer(202)
    BY <2>1, <2>2
  <2>5. IsSteps(S)
    BY <2>1 DEF IsSteps
  <2>6. Shape(S, "remove")
    BY <2>3, <2>4, <2>5, DidShape DEF Acting, Replaying, Long
  <2> QED BY <2>6 DEF S
<1>13. Shape(RetryDlqRoute, "retryDlq")
  <2> DEFINE S == RetryDlqRoute
  <2>1. /\ Len(S) = 6 /\ DOMAIN S = 1..Len(S)
        /\ S[1] = Gate("operate") /\ S[2] = Gate("access") /\ S[3] = Gate("both") /\ S[4] = Call("retry") /\ S[5] = Gate("did") /\ S[6] = Answer(202)
    BY DEF RetryDlqRoute, Done
  <2> HIDE DEF S
  <2>2. PICK k \in Nat : k = 3
    OBVIOUS
  <2>3. \A m \in 1..k : S[m] \in PlainSteps
    <3>1. \A m \in 1..k : m = 1 \/ m = 2 \/ m = 3
      BY <2>2
    <3> QED BY <1>0, <2>1, <3>1
  <2>4. Len(S) = k + 3 /\ S[k + 1] = Call("retry") /\ S[k + 2] = Gate("did") /\ S[k + 3] = Answer(202)
    BY <2>1, <2>2
  <2>5. IsSteps(S)
    BY <2>1 DEF IsSteps
  <2>6. Shape(S, "retryDlq")
    BY <2>3, <2>4, <2>5, DidShape DEF Acting, Replaying, Long
  <2> QED BY <2>6 DEF S
<1>14. Shape(RetryFailedRoute, "retryFailed")
  <2> DEFINE S == RetryFailedRoute
  <2>1. /\ Len(S) = 6 /\ DOMAIN S = 1..Len(S)
        /\ S[1] = Gate("operate") /\ S[2] = Gate("access") /\ S[3] = Gate("both") /\ S[4] = Call("retry") /\ S[5] = Gate("did") /\ S[6] = Answer(202)
    BY DEF RetryFailedRoute, Done
  <2> HIDE DEF S
  <2>2. PICK k \in Nat : k = 3
    OBVIOUS
  <2>3. \A m \in 1..k : S[m] \in PlainSteps
    <3>1. \A m \in 1..k : m = 1 \/ m = 2 \/ m = 3
      BY <2>2
    <3> QED BY <1>0, <2>1, <3>1
  <2>4. Len(S) = k + 3 /\ S[k + 1] = Call("retry") /\ S[k + 2] = Gate("did") /\ S[k + 3] = Answer(202)
    BY <2>1, <2>2
  <2>5. IsSteps(S)
    BY <2>1 DEF IsSteps
  <2>6. Shape(S, "retryFailed")
    BY <2>3, <2>4, <2>5, DidShape DEF Acting, Replaying, Long
  <2> QED BY <2>6 DEF S
<1> QED BY <1>1, <1>2, <1>3, <1>4, <1>5, <1>6, <1>7, <1>8, <1>9, <1>10, <1>11, <1>12, <1>13, <1>14

LEMMA Shaped ==
  ASSUME NEW r, r.route \in Routes, r.route = "jobs" => r.status \in Statuses
  PROVE  Shape(Steps(r), r.route)
<1>1. CASE r.route = "jobs"
  BY <1>1, ShownHandlers DEF Steps
<1>2. CASE r.route # "jobs"
  <2>1. Steps(r) = Handlers[r.route] /\ r.route \in DOMAIN Handlers
    BY <1>2 DEF Steps, Routes
  <2>2. \A s \in {"dlq", "ready", "active", "completed"} : \A route : Shape(JobsRoute(s), route)
    BY ShownHandlers DEF Statuses
  <2>3. \A x \in DOMAIN Handlers : Shape(Handlers[x], x)
    BY <2>2, ShownHandlers, ActingHandlers DEF Handlers, FailedRoute, ReadyRoute, ActiveRoute, ProcessedRoute, CompletedRoute
  <2> QED BY <2>1, <2>3
<1> QED BY <1>1, <1>2

-----------------------------------------------------------------------------
(* Serving.  A handler goes on to the first step that halts it.             *)
LEMMA LeastMember ==
  ASSUME NEW T \in SUBSET Nat, T # {}
  PROVE  \E n \in T : \A m \in T : n <= m
<1> DEFINE R == OpToRel(<, Nat)
<1>1. IsWellFoundedOn(R, Nat)
  BY NatLessThanWellFounded
<1>2. PICK n \in T : \A m \in T : ~ (<<m, n>> \in R)
  <2> HIDE DEF R
  <2> QED BY <1>1, WFMin
<1>3. \A m \in T : ~ (m < n)
  BY <1>2 DEF OpToRel
<1> QED BY <1>3

Known(r) == r.route \in Routes /\ (r.route = "jobs" => r.status \in Statuses)

LEMMA HaltExists ==
  ASSUME NEW r, Known(r), NEW k \in Nat, k < Len(Steps(r)), NEW found, NEW ok
  PROVE  LET n == NextHalt(r, k, found, ok) IN
         /\ n \in (k + 1)..Len(Steps(r)) /\ Halts(Steps(r)[n], r, found, ok)
         /\ \A m \in (k + 1)..(n - 1) : ~Halts(Steps(r)[m], r, found, ok)
<1>1. Shape(Steps(r), r.route)
  BY Shaped DEF Known
<1>2. PICK len \in Nat \ {0} : len = Len(Steps(r))
  BY <1>1 DEF Shape
<1> DEFINE T == {n \in (k + 1)..len : Halts(Steps(r)[n], r, found, ok)}
<1>3. len \in T
  <2>1. Steps(r)[len].do = "answer"
    BY <1>1, <1>2 DEF Shape
  <2>2. Halts(Steps(r)[len], r, found, ok)
    BY <2>1 DEF Halts
  <2> QED BY <2>2, <1>2
<1>4. T \in SUBSET Nat /\ \A n \in T : n \in (k + 1)..len /\ Halts(Steps(r)[n], r, found, ok)
  OBVIOUS
<1>5. PICK n \in T : \A m \in T : n <= m
  <2> HIDE DEF T
  <2> QED BY <1>3, <1>4, LeastMember
<1>6. \A m \in (k + 1)..(n - 1) : ~Halts(Steps(r)[m], r, found, ok)
  BY <1>5
<1>7. n \in (k + 1)..Len(Steps(r)) /\ Len(Steps(r)) \in Nat /\ Halts(Steps(r)[n], r, found, ok)
  BY <1>2, <1>4, <1>5
<1>8. NextHalt(r, k, found, ok) = n
  <2> HIDE DEF T
  <2>1. PICK i : i = n
    OBVIOUS
  <2> QED BY <1>6, <1>7, HaltsAt
<1> QED BY <1>6, <1>7, <1>8

(* What is set on the way is set right before the answer, or before a drain. *)
LEMMA RunGoes ==
  ASSUME NEW r, Known(r), NEW k \in Nat, k < Len(Steps(r)), NEW found, NEW ok, Run(r, k, found, ok)
  PROVE  /\ pos' \in (k + 1)..Len(Steps(r)) /\ seen' = found /\ did' = ok
         /\ Halts(Steps(r)[pos'], r, found, ok)
         /\ \A m \in (k + 1)..(pos' - 1) : ~Halts(Steps(r)[m], r, found, ok)
         /\ Steps(r)[pos'].do = "reads" => pending' = Steps(r)[pos'].what
         /\ Steps(r)[pos'].do \in {"look", "call"} => pending' = {Steps(r)[pos'].what}
         /\ \/ answer' = 500 /\ r.route \in Acting
            \/ /\ Steps(r)[pos'].do \in {"reads", "look", "call"} => answer' = 0
               /\ Steps(r)[pos'].do = "gate" => answer' = Refusal(Steps(r)[pos'].what, r)
               /\ Steps(r)[pos'].do = "answer" => answer' = Steps(r)[pos'].what
         /\ Steps(r)[pos'].do \in {"gate", "reads", "look", "call", "answer"}
         /\ control' # control => Steps(r)[pos'].do = "answer" \/ Steps(r)[pos'] = Call("drain")
<1> DEFINE S == Steps(r)
           n == NextHalt(r, k, found, ok)
<1>1. Shape(S, r.route)
  BY Shaped DEF Known
<1>2. /\ n \in (k + 1)..Len(S) /\ Halts(S[n], r, found, ok)
      /\ \A m \in (k + 1)..(n - 1) : ~Halts(S[m], r, found, ok)
  BY HaltExists
<1>3. /\ pos' = n /\ seen' = found /\ did' = ok
      /\ pending' = CASE S[n].do = "reads" -> S[n].what [] S[n].do \in {"look", "call"} -> {S[n].what} [] OTHER -> {}
      /\ answer' \in {CASE S[n].do = "gate" -> Refusal(S[n].what, r) [] S[n].do = "answer" -> S[n].what [] OTHER -> 0}
                     \cup (IF \E m \in {i \in (k + 1)..(n - 1) : S[i].do = "sync"} : S[m].what \in Heard THEN {500} ELSE {})
      /\ {m \in (k + 1)..(n - 1) : S[m].do = "sync"} = {} => control' = control
  BY DEF Run
<1>4. Len(S) \in Nat /\ n \in 1..Len(S)
  BY <1>1, <1>2 DEF Shape
<1> HIDE DEF S, n
<1>5. S[n].do \in {"gate", "reads", "look", "call", "answer"}
  <2>1. S[n].do # "sync"
    BY <1>2 DEF Halts
  <2> QED BY <1>1, <1>4, <2>1 DEF Shape
<1>6. ASSUME control' # control PROVE S[n].do = "answer" \/ S[n] = Call("drain")
  <2>1. PICK m \in (k + 1)..(n - 1) : S[m].do = "sync"
    BY <1>3, <1>6
  <2>2. m \in 1..Len(S) /\ m + 1 \in (k + 1)..n
    BY <1>2, <1>4
  <2>3. S[m + 1].do = "answer" \/ S[m + 1] = Call("drain")
    BY <1>1, <2>1, <2>2 DEF Shape
  <2>4. Halts(S[m + 1], r, found, ok)
    BY <2>3, StepKinds DEF Halts
  <2>5. m + 1 = n
    BY <1>2, <2>2, <2>4
  <2> QED BY <2>3, <2>5
<1>7. ASSUME NEW m \in (k + 1)..(n - 1), S[m].do = "sync", S[m].what \in Heard PROVE r.route \in Acting
  <2>1. m \in 1..Len(S)
    BY <1>2, <1>4
  <2> QED BY <1>1, <1>7, <2>1 DEF Shape
<1>8. \/ answer' = 500 /\ r.route \in Acting
      \/ /\ S[n].do \in {"reads", "look", "call"} => answer' = 0
         /\ S[n].do = "gate" => answer' = Refusal(S[n].what, r)
         /\ S[n].do = "answer" => answer' = S[n].what
  <2>1. CASE \E m \in {i \in (k + 1)..(n - 1) : S[i].do = "sync"} : S[m].what \in Heard
    <3>1. r.route \in Acting
      BY <1>7, <2>1
    <3>2. answer' = 500 \/ answer' = CASE S[n].do = "gate" -> Refusal(S[n].what, r) [] S[n].do = "answer" -> S[n].what [] OTHER -> 0
      BY <1>3, <2>1
    <3> QED BY <3>1, <3>2
  <2>2. CASE ~\E m \in {i \in (k + 1)..(n - 1) : S[i].do = "sync"} : S[m].what \in Heard
    <3>1. answer' = CASE S[n].do = "gate" -> Refusal(S[n].what, r) [] S[n].do = "answer" -> S[n].what [] OTHER -> 0
      BY <1>3, <2>2
    <3> QED BY <3>1
  <2> QED BY <2>1, <2>2
<1>9. /\ S[n].do = "reads" => pending' = S[n].what
      /\ S[n].do \in {"look", "call"} => pending' = {S[n].what}
  BY <1>3
<1> QED BY <1>2, <1>3, <1>5, <1>6, <1>8, <1>9 DEF S, n

(* What a step that is behind the handler has told it: a read every job     *)
(* that stayed where the read looks, a look that the job asked for is not   *)
(* there, or the job itself.  While a request is open, what is recorded of  *)
(* a job still holds; it has changed something only in a call that no gate  *)
(* is behind, or in a replay that has begun.                                *)
Found(l) ==
  \A j \in Jobs : MayFind /\ ~Silent(l, req) /\ <<l, j>> \in still => <<l, j>> \in seen

Seen == \E l \in Listings : <<l, req.id>> \in seen

Looked(l) == MayFind /\ ~Silent(l, req) /\ <<l, req.id>> \in still => Seen

Passed(i) ==
  /\ Steps(req)[i].do = "reads" => \A l \in Steps(req)[i].what : Found(l)
  /\ Steps(req)[i].do = "look" => Looked(Steps(req)[i].what)

StillThere ==
  \A x \in still : x \in (Listings \cup {"deferred", "archive"}) \X Jobs /\ Stands(x[1], x[2])

Waits ==
  /\ pos >= 1 /\ Step.do \in {"reads", "look", "call"}
  /\ StillThere
  /\ touched => /\ Step.do = "call"
                /\ Step.what \in Long \/ (Step.what = "retry" /\ Exists /\ mine[req.id] > 0)
  /\ Step.do = "reads" => \A l \in Step.what \ pending : Found(l)
  /\ Step.do = "look" => pending \subseteq {Step.what}

Settled ==
  \/ Step.do = "answer" /\ answer = Step.what
  \/ /\ Step.do = "gate" /\ answer = Refusal(Step.what, req)
     /\ ~Passes(Step.what, req, seen, did)
     /\ touched => answer = 404 /\ req.route \in Replaying /\ view.replays = "copies"

ServeInv ==
  /\ Known(req) /\ touched \in BOOLEAN
  /\ pos \in 0..Len(Steps(req))
  /\ pos = 0 => answer = 200 /\ ~touched
  /\ answer = 0 => Waits
  /\ \A i \in 1..(pos - 1) : Passed(i)
  /\ pos >= 1 /\ answer \notin {0, 500} => Settled
  /\ answer = 500 /\ touched => req.route \in Acting

Underway == mine \in [Jobs -> Nat] /\ theirs \in [Jobs -> Nat]

LEMMA RefusalCodes == \A g \in Gates \ {"read"} : \A r : Refusal(g, r) \in {-1, 400, 403, 404}
<1> SUFFICES ASSUME NEW g \in Gates \ {"read"}, NEW r PROVE Refusal(g, r) \in {-1, 400, 403, 404}
  OBVIOUS
<1>1. CASE g \in {"operate", "admin", "filter", "owner", "access"}
  BY <1>1 DEF Refusal
<1>2. CASE g \in {"name", "id", "both", "payload"}
  BY <1>2 DEF Refusal
<1>3. CASE g \in {"known", "exists", "found", "visible", "listed", "did"}
  BY <1>3 DEF Refusal
<1> QED BY <1>1, <1>2, <1>3 DEF Gates

(* Where the handler comes to after a start or an answered query.           *)
LEMMA RunServes ==
  ASSUME NEW r, Known(r), req' = r, NEW k \in Nat, k < Len(Steps(r)), NEW found, NEW ok, Run(r, k, found, ok),
         \A i \in 1..k : Passed(i)', StillThere', touched' \in BOOLEAN, touched' => control' # control
  PROVE  ServeInv'
<1> DEFINE S == Steps(r)
<1>1. Shape(S, r.route) /\ Len(S) \in Nat
  BY Shaped DEF Known, Shape
<1>2. /\ pos' \in (k + 1)..Len(S) /\ seen' = found /\ did' = ok
      /\ Halts(S[pos'], r, found, ok)
      /\ \A m \in (k + 1)..(pos' - 1) : ~Halts(S[m], r, found, ok)
      /\ S[pos'].do = "reads" => pending' = S[pos'].what
      /\ S[pos'].do \in {"look", "call"} => pending' = {S[pos'].what}
      /\ \/ answer' = 500 /\ r.route \in Acting
         \/ /\ S[pos'].do \in {"reads", "look", "call"} => answer' = 0
            /\ S[pos'].do = "gate" => answer' = Refusal(S[pos'].what, r)
            /\ S[pos'].do = "answer" => answer' = S[pos'].what
      /\ S[pos'].do \in {"gate", "reads", "look", "call", "answer"}
      /\ control' # control => S[pos'].do = "answer" \/ S[pos'] = Call("drain")
  BY RunGoes
<1>3. Step' = S[pos'] /\ pos' \in Nat /\ pos' >= 1 /\ pos' \in 1..Len(S)
  BY <1>1, <1>2 DEF Step
<1>4. \A i \in 1..(pos' - 1) : Passed(i)'
  <2> SUFFICES ASSUME NEW i \in (k + 1)..(pos' - 1) PROVE Passed(i)'
    <3>1. PICK p \in Nat : p = pos'
      BY <1>3
    <3>2. \A i \in 1..(p - 1) : i \in 1..k \/ i \in (k + 1)..(p - 1)
      OBVIOUS
    <3> QED BY <3>1, <3>2
  <2>1. ~Halts(S[i], r, found, ok)
    BY <1>2
  <2>2. S[i].do # "reads"
    BY <2>1 DEF Halts
  <2>3. S[i].do = "look" => Seen'
    BY <2>1, <1>2 DEF Halts, Seen
  <2> QED BY <2>2, <2>3 DEF Passed, Looked
<1>5. pos' \in 0..Len(Steps(req)')
  BY <1>1, <1>2 DEF S
<1>6. Known(req)' /\ pos' # 0
  BY <1>3 DEF Known
<1>7. CASE answer' = 500 /\ r.route \in Acting
  <2>1. (answer = 0 => Waits)' /\ (answer = 500 /\ touched => req.route \in Acting)'
    BY <1>7
  <2>2. (pos = 0 => answer = 200 /\ ~touched)' /\ (pos >= 1 /\ answer \notin {0, 500} => Settled)'
    BY <1>6, <1>7
  <2>3. (\A i \in 1..(pos - 1) : Passed(i))'
    BY <1>4
  <2> QED BY <1>5, <1>6, <2>1, <2>2, <2>3 DEF ServeInv
<1>8. CASE /\ S[pos'].do \in {"reads", "look", "call"} => answer' = 0
           /\ S[pos'].do = "gate" => answer' = Refusal(S[pos'].what, r)
           /\ S[pos'].do = "answer" => answer' = S[pos'].what
  <2>1. /\ S[pos'].do = "answer" => answer' \in {200, 202}
        /\ S[pos'].do = "gate" => S[pos'].what \in Gates
    BY <1>1, <1>2, <1>3, <1>8 DEF Shape
  <2>2. S[pos'].do = "gate" => answer' \in {-1, 400, 403, 404}
    <3> SUFFICES ASSUME S[pos'].do = "gate" PROVE answer' \in {-1, 400, 403, 404}
      OBVIOUS
    <3>1. ~Passes(S[pos'].what, r, found, ok)
      BY <1>2 DEF Halts
    <3>2. S[pos'].what # "read"
      BY <3>1 DEF Passes
    <3> QED BY <1>8, <2>1, <3>2, RefusalCodes
  <2> HIDE DEF S
  <2>3. answer' = 0 => Waits'
    <3> SUFFICES ASSUME answer' = 0 PROVE Waits'
      OBVIOUS
    <3>1. S[pos'].do \in {"reads", "look", "call"}
      BY <1>2, <2>1, <2>2
    <3>2. touched' => S[pos'].do = "call" /\ S[pos'].what \in Long
      <4>1. touched' => S[pos'] = Call("drain")
        BY <1>2, <3>1
      <4> QED BY <4>1, StepKinds DEF Long
    <3>3. S[pos'].do = "reads" => S[pos'].what \ pending' = {}
      BY <1>2
    <3>4. S[pos'].do = "look" => pending' \subseteq {S[pos'].what}
      BY <1>2
    <3> QED BY <1>3, <3>1, <3>2, <3>3, <3>4 DEF Waits
  <2>4. answer' \notin {0, 500} => Settled'
    <3> SUFFICES ASSUME answer' \notin {0, 500} PROVE Settled'
      OBVIOUS
    <3>1. CASE S[pos'].do = "answer"
      BY <1>8, <1>3, <3>1 DEF Settled
    <3>2. CASE S[pos'].do = "gate"
      <4>1. ~touched'
        BY <1>2, <3>2, StepKinds
      <4>2. ~Passes(S[pos'].what, r, found, ok)
        BY <1>2, <3>2 DEF Halts
      <4> QED BY <1>2, <1>8, <1>3, <3>2, <4>1, <4>2 DEF Settled
    <3> QED BY <1>2, <1>8, <3>1, <3>2
  <2>5. answer' # 500
    BY <1>2, <1>8, <2>1, <2>2
  <2> QED BY <1>4, <2>3, <2>4, <2>5, <1>5, <1>6 DEF ServeInv
<1> QED BY <1>2, <1>7, <1>8

LEMMA ServeBegin == Init => ServeInv
<1> SUFFICES ASSUME Init PROVE ServeInv
  OBVIOUS
<1>1. DashInit
  BY DEF Init
<1>2. req \in Requests \/ req = Asks("failed", NoJob)
  BY <1>1 DEF DashInit
<1>3. Known(req)
  <2>1. Known(Asks("failed", NoJob))
    BY DEF Known, Asks, Routes, Handlers
  <2> QED BY <1>2, <2>1, RequestsOK DEF Known
<1>4. pos = 0 /\ answer = 200 /\ touched = FALSE
  BY <1>1 DEF DashInit
<1>5. Len(Steps(req)) \in Nat
  BY <1>3, Shaped DEF Known, Shape
<1>6. \A i \in 1..(pos - 1) : Passed(i)
  BY <1>4
<1>7. pos \in 0..Len(Steps(req)) /\ ~(pos >= 1) /\ answer # 0
  BY <1>4, <1>5
<1>8. touched \in BOOLEAN /\ ~touched
  BY <1>4
<1> QED BY <1>3, <1>4, <1>6, <1>7, <1>8 DEF ServeInv

LEMMA ServeFrame ==
  ASSUME [Next]_vars
  PROVE  \/ UNCHANGED dashVars
         \/ \E r : (r = req \/ \E j : r = Asks("failed", j) \/ r = Asks("retryDlq", j)) /\ Receive(r)
         \/ Respond \/ DrainDeadline \/ Rejected \/ GivesUp
         \/ \E j \in Jobs : Hop(j) \/ OtherReplays(j) \/ OtherGivesUp(j)
         \/ \E q \in Queues : Reschedule(q)
<1>1. CASE Command
  <2>1. CliNext
    BY <1>1 DEF Command
  <2> QED BY <2>1 DEF CliNext, RetryAll, ListArrives, SendRetry, RetryAnswered
<1>2. CASE ~Command
  BY <1>2 DEF Next, vars, Arrive, Serve, Deadline, Fail, Meanwhile, Live, Page
<1> QED BY <1>1, <1>2

LEMMA ReceiveServes ==
  ASSUME NEW r, Known(r), Receive(r)
  PROVE  ServeInv'
<1>1. Run(r, 0, {}, FALSE) /\ req' = r /\ UNCHANGED place /\ touched' = (control' # control)
  BY DEF Receive
<1>2. 0 < Len(Steps(r)) /\ 0 \in Nat
  BY Shaped DEF Known, Shape
<1>3. StillThere'
  <2>1. \A x \in still' : x \in (Listings \cup {"deferred", "archive"}) \X Jobs /\ Stands(x[1], x[2])
    BY DEF Receive
  <2>2. \A l, j : Stands(l, j)' = Stands(l, j)
    BY <1>1 DEF Stands
  <2> QED BY <2>1, <2>2 DEF StillThere
<1>4. touched' \in BOOLEAN /\ (touched' => control' # control)
  BY <1>1
<1>5. \A i \in 1..0 : Passed(i)'
  OBVIOUS
<1> QED BY <1>1, <1>2, <1>3, <1>4, <1>5, RunServes

(* An answered query: what stayed where it looks is now recorded.           *)
LEMMA ReplyFinds ==
  ASSUME StillThere, NEW l, seen' = seen \cup Reply(l, req), UNCHANGED <<req, still, view>>
  PROVE  /\ Found(l)' /\ \A m : Found(m) => Found(m)'
         /\ l \in Listings => Looked(l)'
         /\ \A m : Looked(m) => Looked(m)'
<1>1. \A m : Silent(m, req)' = Silent(m, req)
  BY DEF Silent
<1>2. MayFind' = MayFind
  BY DEF MayFind, OnPage
<1>3. ASSUME NEW j \in Jobs, MayFind, ~Silent(l, req), <<l, j>> \in still PROVE <<l, j>> \in seen'
  <2>1. Stands(l, j) /\ l # "schedules"
    BY <1>3 DEF StillThere, Listings
  <2>2. <<l, j>> \in Shows(l, req)
    BY <1>3, <2>1 DEF Shows, MayFind
  <2> QED BY <2>1, <2>2 DEF Reply
<1>4. Found(l)'
  BY <1>1, <1>2, <1>3 DEF Found
<1>5. \A m : Found(m) => Found(m)'
  BY <1>1, <1>2 DEF Found
<1>6. l \in Listings => Looked(l)'
  <2> SUFFICES ASSUME l \in Listings, MayFind, ~Silent(l, req), <<l, req.id>> \in still PROVE Seen'
    BY <1>1, <1>2 DEF Looked
  <2>1. req.id \in Jobs /\ Stands(l, req.id)
    BY DEF StillThere
  <2>2. <<l, req.id>> \in seen'
    BY <1>3, <2>1
  <2> QED BY <2>2 DEF Seen
<1>7. \A m : Looked(m) => Looked(m)'
  BY <1>1, <1>2 DEF Looked, Seen
<1> QED BY <1>4, <1>5, <1>6, <1>7

LEMMA AnsweredServes ==
  ASSUME ServeInv, NEW l \in pending, Answered(l)
  PROVE  ServeInv'
<1> DEFINE found == seen \cup Reply(l, req)
           S == Steps(req)
<1>1. Shape(S, req.route) /\ Len(S) \in Nat
  BY Shaped DEF ServeInv, Known, Shape
<1>2. /\ answer = 0 /\ Step.do \in {"reads", "look"} /\ pos \in 1..Len(S) /\ Step = S[pos]
      /\ Waits /\ \A i \in 1..(pos - 1) : Passed(i)
  BY <1>1 DEF Answered, ServeInv, Waits, Step
<1>3. ~touched /\ touched \in BOOLEAN
  BY <1>2, StepKinds DEF Waits, ServeInv
<1>4. UNCHANGED <<place, copies, schedules, view, req, still>> /\ touched' = (touched \/ control' # control)
  BY DEF Answered
<1>5. CASE pending = {l}
  <2>1. Run(req, pos, found, did)
    BY <1>5 DEF Answered
  <2>2. pos < Len(S) /\ pos \in Nat
    BY <1>1, <1>2 DEF Shape
  <2>3. seen' = found
    BY <2>1 DEF Run
  <2>4. /\ Found(l)' /\ \A m : Found(m) => Found(m)'
        /\ l \in Listings => Looked(l)'
        /\ \A m : Looked(m) => Looked(m)'
    BY <1>2, <1>4, <2>3, ReplyFinds DEF Waits
  <2>5. \A i \in 1..pos : Passed(i)'
    <3>1. \A i \in 1..(pos - 1) : Passed(i)'
      BY <1>2, <1>4, <2>4 DEF Passed
    <3>2. PICK k : k = pos
      OBVIOUS
    <3>3. PICK w : w = S[k].what
      OBVIOUS
    <3>4. ASSUME S[k].do = "reads", NEW m \in w PROVE Found(m)'
      <4>1. m \notin pending => Found(m)
        BY <1>2, <3>2, <3>3, <3>4 DEF Waits
      <4> QED BY <1>5, <2>4, <4>1
    <3>5. ASSUME S[k].do = "look" PROVE Looked(w)'
      <4>1. pending \subseteq {w}
        BY <1>2, <3>2, <3>3, <3>5 DEF Waits
      <4>2. w \in Listings /\ w = l
        BY <1>1, <1>2, <1>5, <3>2, <3>3, <3>5, <4>1 DEF Shape
      <4> QED BY <2>4, <4>2
    <3>6. Passed(k)'
      BY <3>3, <3>4, <3>5, <1>4 DEF Passed
    <3>7. \A i \in 1..pos : i \in 1..(pos - 1) \/ i = k
      BY <2>2, <3>2
    <3> QED BY <3>1, <3>6, <3>7
  <2>6. StillThere'
    BY <1>2, <1>4 DEF Waits, StillThere, Stands
  <2>7. touched' \in BOOLEAN /\ (touched' => control' # control)
    BY <1>3, <1>4
  <2>8. Known(req) /\ req' = req
    BY <1>4 DEF ServeInv
  <2> HIDE DEF found
  <2> QED BY <2>1, <2>2, <2>5, <2>6, <2>7, <2>8, RunServes
<1>6. CASE pending # {l}
  <2>1. pending' = pending \ {l} /\ seen' = found /\ UNCHANGED <<pos, did, answer, control>>
    BY <1>6 DEF Answered
  <2>2. /\ Found(l)' /\ \A m : Found(m) => Found(m)'
        /\ l \in Listings => Looked(l)'
        /\ \A m : Looked(m) => Looked(m)'
    BY <1>2, <1>4, <2>1, ReplyFinds DEF Waits
  <2>3. \A i \in 1..(pos - 1) : Passed(i)'
    BY <1>2, <1>4, <2>1, <2>2 DEF Passed
  <2>4. StillThere'
    BY <1>2, <1>4 DEF Waits, StillThere, Stands
  <2>5. Step' = Step /\ Steps(req)' = Steps(req)
    BY <1>4, <2>1 DEF Step
  <2>6. touched' = FALSE
    BY <1>3, <1>4, <2>1
  <2>7. Step.do = "reads" => \A m \in Step.what \ pending' : Found(m)'
    BY <1>2, <2>1, <2>2 DEF Waits
  <2>8. Step.do = "look" => pending' \subseteq {Step.what}
    BY <1>2, <2>1 DEF Waits
  <2>9. Waits'
    BY <1>2, <2>1, <2>4, <2>5, <2>6, <2>7, <2>8 DEF Waits
  <2>10. Known(req)' /\ pos' \in 0..Len(Steps(req)')
    BY <1>4, <2>1 DEF ServeInv, Known
  <2> QED BY <1>2, <2>1, <2>3, <2>6, <2>9, <2>10 DEF ServeInv
<1> QED BY <1>5, <1>6

LEMMA DidHalts ==
  \A s, r, found : \A ok \in BOOLEAN : s = Gate("did") => (Halts(s, r, found, ok) <=> ~ok)
<1> SUFFICES ASSUME NEW s, NEW r, NEW found, NEW ok \in BOOLEAN, s = Gate("did")
             PROVE  Halts(s, r, found, ok) <=> ~ok
  OBVIOUS
<1>1. Halts(s, r, found, ok) <=> ~Passes("did", r, found, ok)
  BY GateHalts
<1>2. CASE ok
  <2>1. Passes("did", r, found, ok)
    BY <1>2 DEF Passes
  <2> QED BY <1>1, <1>2, <2>1
<1>3. CASE ~ok
  <2>1. ~Passes("did", r, found, ok)
    BY <1>3 DEF Passes
  <2> QED BY <1>1, <1>3, <2>1
<1> QED BY <1>2, <1>3

LEMMA QuietCall ==
  ASSUME ServeInv, answer = 0, Step.do = "call", NEW ok \in BOOLEAN, Run(req, pos, seen, ok)
  PROVE  control' = control
<1> DEFINE S == Steps(req)
<1>1. Shape(S, req.route) /\ Len(S) \in Nat
  BY Shaped DEF ServeInv, Known, Shape
<1>2. PICK k \in 1..Len(S) : k = pos
  BY <1>1 DEF ServeInv, Waits
<1>3. Step = S[k] /\ S[k].do = "call" /\ k < Len(S) /\ k \in Nat
  BY <1>1, <1>2 DEF Step, Shape
<1>4. S[k + 1].do = "answer" \/ (S[k + 1] = Gate("did") /\ S[k + 2].do = "answer")
  BY <1>1, <1>2, <1>3 DEF Shape
<1>5. /\ pos' \in (k + 1)..Len(S) /\ seen' = seen /\ did' = ok
      /\ Halts(S[pos'], req, seen, ok)
      /\ \A m \in (k + 1)..(pos' - 1) : ~Halts(S[m], req, seen, ok)
      /\ control' # control => S[pos'].do = "answer" \/ S[pos'] = Call("drain")
  BY <1>2, <1>3, RunGoes DEF ServeInv
<1>6. PICK p \in Nat : p = pos'
  BY <1>5
<1> HIDE DEF S
<1>7. ASSUME NEW m \in 1..Len(S), S[m].do = "answer" PROVE Halts(S[m], req, seen, ok)
  BY <1>7 DEF Halts
<1>8. Halts(S[k + 1], req, seen, ok) \/ (S[k + 1] = Gate("did") /\ ok /\ k + 2 <= Len(S) /\ Halts(S[k + 2], req, seen, ok))
  <2>1. CASE S[k + 1].do = "answer"
    BY <1>3, <1>7, <2>1
  <2>2. CASE S[k + 1] = Gate("did") /\ S[k + 2].do = "answer"
    <3>1. S[k + 1].do = "gate"
      BY <2>2, StepKinds
    <3>2. k + 1 # Len(S)
      BY <1>1, <1>3, <3>1 DEF Shape
    <3>3. k + 2 \in 1..Len(S) /\ Halts(S[k + 2], req, seen, ok)
      BY <1>1, <1>3, <1>7, <2>2, <3>2
    <3>4. Halts(S[k + 1], req, seen, ok) <=> ~ok
      BY <2>2, DidHalts
    <3> QED BY <2>2, <3>3, <3>4
  <2> QED BY <1>4, <2>1, <2>2
<1>9. p = k + 1 \/ (p = k + 2 /\ S[k + 1] = Gate("did") /\ ok)
  <2>1. p \in (k + 1)..Len(S) /\ \A m \in (k + 1)..(p - 1) : ~Halts(S[m], req, seen, ok)
    BY <1>5, <1>6
  <2>2. CASE Halts(S[k + 1], req, seen, ok)
    <3>1. k + 1 \notin (k + 1)..(p - 1)
      BY <2>1, <2>2
    <3> QED BY <1>3, <2>1, <3>1
  <2>3. CASE S[k + 1] = Gate("did") /\ ok /\ Halts(S[k + 2], req, seen, ok)
    <3>1. k + 2 \notin (k + 1)..(p - 1)
      BY <2>1, <2>3
    <3> QED BY <1>3, <2>1, <2>3, <3>1
  <2> QED BY <1>8, <2>2, <2>3
<1>10. control' = control
  <2>1. \A m \in (k + 1)..(p - 1) : S[m].do # "sync"
    BY <1>3, <1>9, StepKinds
  <2>2. p \in (k + 1)..Len(S) /\ Halts(S[p], req, seen, ok) /\ \A m \in (k + 1)..(p - 1) : ~Halts(S[m], req, seen, ok)
    BY <1>5, <1>6
  <2> QED BY <1>1, <1>2, <1>3, <2>1, <2>2, RunsTo DEF S
<1> QED BY <1>10

LEMMA CallActs ==
  ASSUME ServeInv, answer = 0, Step.do = "call"
  PROVE  req.route \in Acting /\ (Step.what = "retry" => req.route \in Replaying)
<1>1. Shape(Steps(req), req.route) /\ Len(Steps(req)) \in Nat
  BY Shaped DEF ServeInv, Known, Shape
<1>2. pos \in 1..Len(Steps(req)) /\ Step = Steps(req)[pos]
  BY <1>1 DEF ServeInv, Waits, Step
<1> QED BY <1>1, <1>2 DEF Shape

LEMMA StaysFound ==
  ASSUME UNCHANGED <<req, view, seen>>, Remains
  PROVE  /\ (\A l : Found(l) => Found(l)') /\ (\A l : Looked(l) => Looked(l)')
         /\ StillThere => StillThere'
<1>1. \A x \in still' : x \in still /\ Stands(x[1], x[2])'
  BY DEF Remains
<1>2. \A l : Found(l) => Found(l)'
  BY <1>1 DEF Found, MayFind, OnPage, Silent
<1>3. \A l : Looked(l) => Looked(l)'
  BY <1>1 DEF Looked, Seen, MayFind, OnPage, Silent
<1> QED BY <1>1, <1>2, <1>3 DEF StillThere

(* Behind a call comes the answer, or first a look at its result.           *)
LEMMA CallRuns ==
  ASSUME ServeInv, answer = 0, Step.do = "call", NEW ok \in BOOLEAN, Run(req, pos, seen, ok), req' = req,
         view' = view, Remains, touched' \in BOOLEAN, answer' # 500,
         ~ok /\ Step.what \notin Long =>
           (touched' => (Step.what = "retry" /\ view.replays = "copies") \/ control' # control)
  PROVE  ServeInv' /\ answer' # 0 /\ control' = control
<1> DEFINE S == Steps(req)
<1>1. Shape(S, req.route) /\ Len(S) \in Nat
  BY Shaped DEF ServeInv, Known, Shape
<1>2. PICK k \in 1..Len(S) : k = pos
  BY <1>1 DEF ServeInv, Waits
<1>3. Step = S[k] /\ S[k].do = "call" /\ k < Len(S) /\ k \in Nat
  BY <1>1, <1>2 DEF Step, Shape
<1>4. S[k + 1].do = "answer" \/ (S[k].what \notin Long /\ S[k + 1] = Gate("did") /\ S[k + 2].do = "answer")
  BY <1>1, <1>2, <1>3 DEF Shape
<1>5. /\ pos' \in (k + 1)..Len(S) /\ seen' = seen /\ did' = ok
      /\ Halts(S[pos'], req, seen, ok)
      /\ \A m \in (k + 1)..(pos' - 1) : ~Halts(S[m], req, seen, ok)
      /\ S[pos'].do = "gate" => answer' = Refusal(S[pos'].what, req)
      /\ S[pos'].do = "answer" => answer' = S[pos'].what
      /\ control' # control => S[pos'].do = "answer" \/ S[pos'] = Call("drain")
  BY <1>2, <1>3, RunGoes DEF ServeInv
<1>6. PICK p \in Nat : p = pos'
  BY <1>5
<1> HIDE DEF S
<1>7. ASSUME NEW m \in 1..Len(S), S[m].do = "answer" PROVE Halts(S[m], req, seen, ok)
  BY <1>7 DEF Halts
<1>8. Halts(S[k + 1], req, seen, ok) \/ (S[k + 1] = Gate("did") /\ ok /\ k + 2 <= Len(S) /\ Halts(S[k + 2], req, seen, ok))
  <2>1. CASE S[k + 1].do = "answer"
    BY <1>3, <1>7, <2>1
  <2>2. CASE S[k + 1] = Gate("did") /\ S[k + 2].do = "answer"
    <3>1. S[k + 1].do = "gate"
      BY <2>2, StepKinds
    <3>2. k + 1 # Len(S)
      BY <1>1, <1>3, <3>1 DEF Shape
    <3>3. k + 2 \in 1..Len(S) /\ Halts(S[k + 2], req, seen, ok)
      BY <1>1, <1>3, <1>7, <2>2, <3>2
    <3>4. Halts(S[k + 1], req, seen, ok) <=> ~ok
      BY <2>2, DidHalts
    <3> QED BY <2>2, <3>3, <3>4
  <2> QED BY <1>4, <2>1, <2>2
<1>9. p = k + 1 \/ (p = k + 2 /\ S[k + 1] = Gate("did") /\ ok)
  <2>1. p \in (k + 1)..Len(S) /\ \A m \in (k + 1)..(p - 1) : ~Halts(S[m], req, seen, ok)
    BY <1>5, <1>6
  <2>2. CASE Halts(S[k + 1], req, seen, ok)
    <3>1. k + 1 \notin (k + 1)..(p - 1)
      BY <2>1, <2>2
    <3> QED BY <1>3, <2>1, <3>1
  <2>3. CASE S[k + 1] = Gate("did") /\ ok /\ Halts(S[k + 2], req, seen, ok)
    <3>1. k + 2 \notin (k + 1)..(p - 1)
      BY <2>1, <2>3
    <3> QED BY <1>3, <2>1, <2>3, <3>1
  <2> QED BY <1>8, <2>2, <2>3
<1>10. S[p].do = "answer" \/ (S[p] = Gate("did") /\ p = k + 1)
  BY <1>4, <1>9, StepKinds
<1>11. /\ S[p].do = "answer" => answer' \in {200, 202} /\ answer' = S[p].what
       /\ S[p] = Gate("did") => answer' = 404 /\ answer' = Refusal("did", req) /\ ~ok
  <2>1. S[p] = Gate("did") => answer' = Refusal("did", req)
    BY <1>5, <1>6, StepKinds
  <2>2. Refusal("did", req) = 404
    BY DEF Refusal
  <2>3. S[p] = Gate("did") => ~ok
    BY <1>5, <1>6, DidHalts
  <2>4. S[p].do = "answer" => answer' \in {200, 202} /\ answer' = S[p].what
    BY <1>1, <1>3, <1>5, <1>6 DEF Shape
  <2> QED BY <2>1, <2>2, <2>3, <2>4
<1>12. control' = control
  BY QuietCall
<1>13. \A m : Found(m) => Found(m)'
  BY <1>5, StaysFound
<1>14. \A m : Looked(m) => Looked(m)'
  BY <1>5, StaysFound
<1>15. \A i \in 1..(k - 1) : Passed(i)'
  BY <1>2, <1>13, <1>14 DEF ServeInv, Passed
<1>16. Passed(k)'
  BY <1>3 DEF Passed, S
<1>17. S[k + 1] = Gate("did") => Passed(k + 1)'
  BY StepKinds DEF Passed, S
<1>18. \A i \in 1..(p - 1) : Passed(i)'
  <2>1. \A i \in 1..(p - 1) : i \in 1..(k - 1) \/ i = k \/ (i = k + 1 /\ S[k + 1] = Gate("did"))
    BY <1>3, <1>9
  <2> QED BY <2>1, <1>15, <1>16, <1>17
<1>19. Step' = S[p]
  BY <1>6 DEF Step, S
<1>20. Settled'
  <2>1. CASE S[p].do = "answer"
    BY <1>11, <1>19, <2>1 DEF Settled
  <2>2. CASE S[p] = Gate("did")
    <3>1. S[k + 1] = Gate("did") /\ S[k + 1].do # "answer"
      BY <1>10, <2>2, StepKinds
    <3>2. Step.what \notin Long
      BY <1>3, <1>4, <3>1
    <3>3. touched' => Step.what = "retry" /\ view.replays = "copies"
      BY <1>11, <1>12, <2>2, <3>2
    <3>5. touched' => (answer' = 404 /\ req.route \in Replaying /\ view.replays = "copies")
      BY <1>11, <2>2, <3>3, CallActs
    <3>4. ~Passes("did", req, seen, ok)
      BY <1>11, <2>2 DEF Passes
    <3> QED BY <1>5, <1>11, <1>19, <2>2, <3>4, <3>5, StepKinds DEF Settled
  <2> QED BY <1>10, <2>1, <2>2
<1>21. answer' \in {200, 202, 404}
  BY <1>10, <1>11
<1>22. Known(req)' /\ pos' \in 0..Len(Steps(req)') /\ pos' # 0
  BY <1>1, <1>3, <1>5 DEF ServeInv, Known, S
<1>23. \A i \in 1..(pos' - 1) : Passed(i)'
  BY <1>6, <1>18
<1>24. answer' # 0 /\ answer' # 500
  BY <1>21
<1> QED BY <1>12, <1>20, <1>22, <1>23, <1>24 DEF ServeInv

(* It failed, or goes on to its next step.                                  *)
LEMMA FailsServes ==
  ASSUME ServeInv, answer = 0, answer' = 500, UNCHANGED <<pos, seen, req, view>>, Remains \/ UNCHANGED still,
         touched' \in BOOLEAN, touched' => req.route \in Acting
  PROVE  ServeInv'
<1>1. (\A l : Found(l) => Found(l)') /\ (\A l : Looked(l) => Looked(l)')
  <2>1. CASE Remains
    BY <2>1, StaysFound
  <2>2. CASE UNCHANGED still
    BY <2>2 DEF Found, Looked, Seen, MayFind, OnPage, Silent
  <2> QED BY <2>1, <2>2
<1>2. \A i \in 1..(pos - 1) : Passed(i)'
  BY <1>1 DEF Passed, ServeInv
<1>3. pos' # 0 /\ Known(req)' /\ pos' \in 0..Len(Steps(req)')
  BY DEF ServeInv, Known
<1> QED BY <1>2, <1>3 DEF ServeInv

LEMMA GoesServes ==
  ASSUME ServeInv, answer = 0, Step.do = "call", Goes, UNCHANGED <<req, view>>, Remains, touched' \in BOOLEAN,
         touched' => Step.what \in Long \/ (Step.what = "retry" /\ Exists /\ mine'[req.id] > 0)
  PROVE  ServeInv'
<1>1. UNCHANGED <<pos, seen, answer>> /\ Step' = Step
  BY DEF Goes, Step
<1>2. (\A l : Found(l) => Found(l)') /\ (\A l : Looked(l) => Looked(l)') /\ (StillThere => StillThere')
  BY <1>1, StaysFound
<1>3. \A i \in 1..(pos - 1) : Passed(i)'
  BY <1>1, <1>2 DEF Passed, ServeInv
<1>4. Exists' = Exists /\ mine'[req.id] = mine[req.id]'
  BY DEF Exists, Here
<1>5. Waits'
  BY <1>1, <1>2, <1>4 DEF ServeInv, Waits
<1>6. Known(req)' /\ pos' \in 0..Len(Steps(req)') /\ pos' # 0 /\ answer' # 500
  BY <1>1 DEF ServeInv, Waits, Known
<1> QED BY <1>1, <1>3, <1>5, <1>6 DEF ServeInv

LEMMA RunFails ==
  ASSUME ServeInv, answer = 0, Step.do = "call", NEW ok \in BOOLEAN, Run(req, pos, seen, ok), UNCHANGED <<req, view>>,
         Remains, touched' \in BOOLEAN, answer' = 500
  PROVE  ServeInv'
<1>0. req.route \in Acting
  BY CallActs
<1>1. Shape(Steps(req), req.route) /\ Len(Steps(req)) \in Nat
  BY Shaped DEF ServeInv, Known, Shape
<1>2. PICK k \in 1..Len(Steps(req)) : k = pos
  BY <1>1 DEF ServeInv, Waits
<1>3. Steps(req)[k].do = "call" /\ k < Len(Steps(req)) /\ k \in Nat
  BY <1>1, <1>2 DEF Step, Shape
<1>4. /\ pos' \in (k + 1)..Len(Steps(req)) /\ seen' = seen
      /\ \A m \in (k + 1)..(pos' - 1) : ~Halts(Steps(req)[m], req, seen, ok)
  BY <1>2, <1>3, RunGoes DEF ServeInv
<1>5. (\A l : Found(l) => Found(l)') /\ (\A l : Looked(l) => Looked(l)')
  BY <1>4, StaysFound
<1>6. \A i \in 1..(k - 1) : Passed(i)'
  BY <1>2, <1>5 DEF ServeInv, Passed
<1>7. \A i \in 1..(pos' - 1) : Passed(i)'
  <2>1. PICK q \in Nat : q = pos'
    BY <1>3, <1>4
  <2>2. \A i \in 1..(q - 1) : i \in 1..(k - 1) \/ i = k \/ i \in (k + 1)..(q - 1)
    BY <1>3
  <2>3. Passed(k)'
    BY <1>3 DEF Passed
  <2>4. ASSUME NEW i \in (k + 1)..(q - 1) PROVE Passed(i)'
    <3>1. ~Halts(Steps(req)[i], req, seen, ok)
      BY <1>4, <2>1
    <3>2. Steps(req)[i].do # "reads"
      BY <3>1 DEF Halts
    <3>3. Steps(req)[i].do = "look" => Seen'
      BY <1>4, <3>1 DEF Halts, Seen
    <3> QED BY <3>2, <3>3 DEF Passed, Looked
  <2> QED BY <1>6, <2>1, <2>2, <2>3, <2>4
<1>8. Known(req)' /\ pos' # 0 /\ pos' \in 0..Len(Steps(req)')
  BY <1>1, <1>3, <1>4 DEF ServeInv, Known
<1>9. (answer = 0 => Waits)' /\ (answer = 500 /\ touched => req.route \in Acting)'
  BY <1>0
<1>10. (pos = 0 => answer = 200 /\ ~touched)' /\ (pos >= 1 /\ answer \notin {0, 500} => Settled)'
  BY <1>8
<1>11. (\A i \in 1..(pos - 1) : Passed(i))'
  BY <1>7
<1> QED BY <1>8, <1>9, <1>10, <1>11 DEF ServeInv

LEMMA CallEnds ==
  ASSUME ServeInv, answer = 0, Step.do = "call", NEW ok \in BOOLEAN, Returns(ok), UNCHANGED <<req, view>>, Remains,
         touched' \in BOOLEAN, ~ok /\ Step.what \notin Long => (touched' => control' # control)
  PROVE  ServeInv'
<1>1. req.route \in Acting
  BY CallActs
<1>2. CASE Fails
  BY <1>1, <1>2, FailsServes DEF Fails
<1>3. CASE Run(req, pos, seen, ok) /\ answer' # 500
  BY <1>3, CallRuns
<1>4. CASE Run(req, pos, seen, ok) /\ answer' = 500
  BY <1>4, RunFails
<1> QED BY <1>2, <1>3, <1>4 DEF Returns

LEMMA FurtherType ==
  ASSUME NEW n \in Nat
  PROVE  Further(n) \in Nat
BY DEF Further

LEMMA CalledServes ==
  ASSUME ServeInv, Underway, Called
  PROVE  ServeInv'
<1>1. answer = 0 /\ Step.do = "call" /\ Waits /\ touched \in BOOLEAN /\ UNCHANGED <<req, view>> /\ Remains
  BY DEF Called, ServeInv
<1>2. touched' = (touched \/ systemVars' # systemVars)
  BY DEF Called
<1>3. touched' \in BOOLEAN
  BY <1>1, <1>2
<1>4. ASSUME Step.what \notin Long, Step.what # "retry" PROVE ~touched
  BY <1>1, <1>4 DEF Waits
<1>5. ASSUME UNCHANGED <<place, copies, schedules>> PROVE touched' => touched \/ control' # control
  BY <1>2, <1>5 DEF systemVars
<1>6. ASSUME NEW ok \in BOOLEAN, Returns(ok),
             ok \/ Step.what \in Long \/ (UNCHANGED <<place, copies, schedules>> /\ ~touched)
      PROVE  ServeInv'
  <2>1. ~ok /\ Step.what \notin Long => (touched' => control' # control)
    BY <1>5, <1>6
  <2> QED BY <1>1, <1>3, <1>6, <2>1, CallEnds
<1>7. ASSUME Goes, Step.what \in Long PROVE ServeInv'
  BY <1>1, <1>3, <1>7, GoesServes
<1>8. CASE CallPromote
  <2>1. Step.what = "promote" /\ Step.what \notin Long /\ Step.what # "retry"
    BY <1>8 DEF CallPromote, Calls, Long
  <2>2. Returns(TRUE) \/ (Returns(FALSE) /\ UNCHANGED <<place, copies, schedules>>)
    BY <1>8 DEF CallPromote
  <2> QED BY <1>4, <1>6, <2>1, <2>2
<1>9. CASE CallRemove
  <2>1. Step.what = "remove" /\ Step.what \notin Long /\ Step.what # "retry"
    BY <1>9 DEF CallRemove, Calls, Long
  <2>2. Returns(TRUE) \/ (Returns(FALSE) /\ UNCHANGED <<place, copies, schedules>>)
    BY <1>9 DEF CallRemove
  <2> QED BY <1>4, <1>6, <2>1, <2>2
<1>10. CASE CallRetry
  <2>1. Step.what = "retry"
    BY <1>10 DEF CallRetry, Calls
  <2>2. CASE Exists /\ (mine[req.id] > 0 \/ Replayable(place[req.id]))
    <3>1. mine' = [mine EXCEPT ![req.id] = Further(@)] /\ req.id \in Jobs
      BY <1>10, <2>2 DEF CallRetry, TakesUp, Exists
    <3>2. CASE Returns(TRUE)
      BY <1>6, <3>2
    <3>3. CASE Further(mine[req.id]) # 0 /\ Goes
      <4>1. mine'[req.id] = Further(mine[req.id]) /\ Further(mine[req.id]) \in Nat
        BY <3>1, FurtherType DEF Underway
      <4>2. mine'[req.id] > 0
        BY <3>3, <4>1
      <4> QED BY <1>1, <1>3, <2>1, <2>2, <3>3, <4>2, GoesServes
    <3> QED BY <1>10, <2>2, <3>2, <3>3 DEF CallRetry
  <2>3. CASE ~(Exists /\ (mine[req.id] > 0 \/ Replayable(place[req.id])))
    <3>1. Returns(FALSE) /\ UNCHANGED <<place, copies, schedules>>
      BY <1>10, <2>3 DEF CallRetry
    <3>2. ~touched
      BY <1>1, <2>1, <2>3 DEF Waits, Long
    <3> QED BY <1>6, <3>1, <3>2
  <2> QED BY <2>2, <2>3
<1>11. CASE CallRetryBatch
  <2>1. Step.what \in Long
    BY <1>11 DEF CallRetryBatch, Calls, Long
  <2>2. Goes \/ Returns(TRUE)
    BY <1>11 DEF CallRetryBatch
  <2> QED BY <1>6, <1>7, <2>1, <2>2
<1>12. CASE CallClean
  <2>1. Step.what \in Long
    BY <1>12 DEF CallClean, Calls, Long
  <2>2. Goes \/ Returns(TRUE)
    BY <1>12 DEF CallClean
  <2> QED BY <1>6, <1>7, <2>1, <2>2
<1>13. CASE CallDrain
  <2>1. Step.what \in Long
    BY <1>13 DEF CallDrain, Calls, Long
  <2>2. Returns(pending # {}) /\ (pending # {}) \in BOOLEAN
    BY <1>13 DEF CallDrain
  <2>3. \A ok \in BOOLEAN : Returns(ok) => ServeInv'
    BY <1>6, <2>1
  <2> QED BY <2>2, <2>3
<1>14. CASE CallUnschedule
  <2>1. Step.what = "unschedule" /\ Step.what \notin Long /\ Step.what # "retry"
    BY <1>14 DEF CallUnschedule, Calls, Long
  <2>2. /\ schedules' = schedules \ {req.name} /\ UNCHANGED <<place, copies>>
        /\ Returns(req.name \in schedules) /\ (req.name \in schedules) \in BOOLEAN
    BY <1>14 DEF CallUnschedule
  <2>3. req.name \notin schedules => schedules' = schedules
    BY <2>2
  <2>4. \A ok \in BOOLEAN : Returns(ok) /\ (~ok => schedules' = schedules) => ServeInv'
    BY <1>4, <1>6, <2>1, <2>2
  <2> QED BY <2>2, <2>3, <2>4
<1>15. CASE CallClear
  <2>1. Step.what \in Long
    BY <1>15 DEF CallClear, Calls, Long
  <2>2. CASE Returns(TRUE)
    BY <1>6, <2>2
  <2>3. CASE ~Returns(TRUE)
    <3>1. PICK q \in Targets : /\ schedules' = schedules \ {q} /\ seen' = seen \ {<<"schedules", q>>}
                               /\ UNCHANGED <<pos, pending, did, answer, control>>
      BY <1>15, <2>3 DEF CallClear
    <3>2. \A x \in still' : x \in still /\ Stands(x[1], x[2])'
      BY <1>1 DEF Remains
    <3>3. \A l, j : <<l, j>> \in seen /\ l # "schedules" => <<l, j>> \in seen'
      BY <3>1
    <3>4. \A l, j : <<l, j>> \in still => l # "schedules"
      BY <1>1 DEF Waits, StillThere, Listings
    <3>5. \A l : Found(l) => Found(l)'
      BY <1>1, <3>2, <3>3, <3>4 DEF Found, MayFind, OnPage, Silent
    <3>6. \A l : Looked(l) => Looked(l)'
      <4>1. Seen => Seen'
        BY <1>1, <3>3 DEF Seen, Listings
      <4> QED BY <1>1, <3>2, <4>1 DEF Looked, MayFind, OnPage, Silent
    <3>7. \A i \in 1..(pos' - 1) : Passed(i)'
      BY <1>1, <3>1, <3>5, <3>6 DEF ServeInv, Passed
    <3>8. Step' = Step
      BY <1>1, <3>1 DEF Step
    <3>9. StillThere'
      BY <1>1, <3>2 DEF Waits, StillThere
    <3>10. Waits'
      BY <1>1, <2>1, <3>1, <3>8, <3>9 DEF Waits
    <3>11. Known(req)' /\ pos' \in 0..Len(Steps(req)')
      BY <1>1, <3>1 DEF ServeInv, Known
    <3>12. answer' = 0 /\ pos' # 0
      BY <1>1, <3>1 DEF Waits
    <3>13. answer' # 500
      BY <3>12
    <3> QED BY <1>3, <3>7, <3>10, <3>11, <3>12, <3>13 DEF ServeInv
  <2> QED BY <2>2, <2>3
<1> QED BY <1>8, <1>9, <1>10, <1>11, <1>12, <1>13, <1>14, <1>15 DEF Called

(* The file store's replay breaks off.                                      *)
LEMMA GivesUpServes ==
  ASSUME ServeInv, GivesUp
  PROVE  ServeInv'
<1>1. /\ answer = 0 /\ view.replays = "copies" /\ Waits /\ touched \in BOOLEAN
      /\ UNCHANGED <<place, req, view, still, touched>>
  BY DEF GivesUp, ServeInv
<1>2. Remains
  BY <1>1 DEF Remains, Waits, StillThere, Stands
<1>3. CASE Calls("retry")
  <2>1. Step.do = "call" /\ Step.what = "retry" /\ FALSE \in BOOLEAN
    BY <1>3 DEF Calls
  <2>2. Run(req, pos, seen, FALSE)
    BY <1>3 DEF GivesUp, Calls
  <2>3. CASE answer' = 500
    BY <1>1, <1>2, <2>1, <2>2, <2>3, RunFails
  <2>4. CASE answer' # 500
    BY <1>1, <1>2, <2>1, <2>2, <2>4, CallRuns
  <2> QED BY <2>3, <2>4
<1>4. CASE Calls("retryBatch")
  <2>1. Step.do = "call" /\ Step.what \in Long
    BY <1>4 DEF Calls, Long
  <2>2. Goes
    BY <1>4 DEF GivesUp, Calls
  <2> QED BY <1>1, <1>2, <2>1, <2>2, GoesServes
<1> QED BY <1>3, <1>4 DEF GivesUp

LEMMA ServeStep == ServeInv /\ Underway /\ [Next]_vars => ServeInv'
<1> SUFFICES ASSUME ServeInv, Underway, [Next]_vars PROVE ServeInv'
  OBVIOUS
<1> USE DEF MayFind, OnPage, Silent
<1>1. CASE UNCHANGED dashVars
  <2>1. UNCHANGED <<place, control, view, req, pos, pending, seen, did, mine, answer, still, touched>>
    BY <1>1 DEF dashVars, systemVars, requestVars
  <2>2. Step' = Step
    BY <2>1 DEF Step
  <2>3. (\A l : Found(l)' <=> Found(l)) /\ (\A l : Looked(l)' <=> Looked(l)) /\ (StillThere' <=> StillThere)
    BY <2>1 DEF Found, Looked, Seen, StillThere, Stands
  <2>4. Waits => Waits'
    BY <2>1, <2>2, <2>3 DEF Waits, Exists, Here
  <2>5. Settled => Settled'
    BY <2>1, <2>2 DEF Settled
  <2>6. \A i \in 1..(pos - 1) : Passed(i)'
    BY <2>1, <2>3 DEF Passed, ServeInv
  <2> QED BY <2>1, <2>4, <2>5, <2>6 DEF ServeInv, Known
<1>2. CASE \E r : (r = req \/ \E j : r = Asks("failed", j) \/ r = Asks("retryDlq", j)) /\ Receive(r)
  <2>1. PICK r : (r = req \/ \E j : r = Asks("failed", j) \/ r = Asks("retryDlq", j)) /\ Receive(r)
    BY <1>2
  <2>2. Known(r)
    <3>1. \A j : Known(Asks("failed", j)) /\ Known(Asks("retryDlq", j))
      BY DEF Known, Asks, Routes, Handlers
    <3> QED BY <2>1, <3>1 DEF ServeInv
  <2> QED BY <2>1, <2>2, ReceiveServes
<1>3. CASE Respond
  <2>1. Called \/ \E l \in pending : Answered(l)
    BY <1>3 DEF Respond
  <2> QED BY <2>1, CalledServes, AnsweredServes
<1>4. CASE DrainDeadline
  <2>1. /\ answer = 0 /\ Step.do = "call" /\ Step.what = "drain" /\ Waits /\ touched \in BOOLEAN
        /\ UNCHANGED <<place, view, req, pos, seen, did, answer, control, still, touched>>
    BY <1>4 DEF DrainDeadline, Calls, systemVars, ServeInv
  <2>2. Goes /\ Remains
    BY <2>1 DEF Goes, Remains, Waits, StillThere, Stands
  <2> QED BY <2>1, <2>2, GoesServes DEF Long
<1>5. CASE Rejected
  <2>1. /\ answer = 0 /\ answer' = 500 /\ touched \in BOOLEAN
        /\ UNCHANGED <<place, view, req, pos, seen, still, touched>>
    BY <1>5 DEF Rejected, Fails, ServeInv
  <2>2. touched => req.route \in Acting
    <3>1. touched => Step.do = "call"
      BY <2>1 DEF ServeInv, Waits
    <3> QED BY <2>1, <3>1, CallActs
  <2> QED BY <2>1, <2>2, FailsServes
<1>6. CASE \E j \in Jobs : Hop(j) \/ OtherReplays(j) \/ OtherGivesUp(j)
  <2>1. /\ answer = 0 /\ Waits /\ UNCHANGED <<view, req, pos, pending, seen, did, mine, answer, touched>>
        /\ Remains \/ UNCHANGED <<place, still>>
    BY <1>6 DEF Hop, OtherReplays, OtherGivesUp, systemVars, requestVars, ServeInv
  <2>2. Remains
    BY <2>1 DEF Remains, Waits, StillThere, Stands
  <2>3. Step' = Step /\ Exists' = Exists
    BY <2>1 DEF Step, Exists, Here
  <2>4. (\A l : Found(l) => Found(l)') /\ (\A l : Looked(l) => Looked(l)') /\ (StillThere => StillThere')
    BY <2>1, <2>2, StaysFound
  <2>5. Waits'
    BY <2>1, <2>3, <2>4 DEF Waits
  <2>6. \A i \in 1..(pos - 1) : Passed(i)'
    BY <2>1, <2>4 DEF Passed, ServeInv
  <2>7. Known(req)' /\ touched' \in BOOLEAN /\ pos' \in 0..Len(Steps(req)')
    BY <2>1 DEF ServeInv, Known
  <2> QED BY <2>1, <2>5, <2>6, <2>7 DEF ServeInv
<1>7. CASE \E q \in Queues : Reschedule(q)
  <2>1. answer = 0 /\ UNCHANGED <<place, control, view, req, pos, pending, seen, did, mine, answer, still, touched>>
    BY <1>7 DEF Reschedule, requestVars
  <2>2. Step' = Step
    BY <2>1 DEF Step
  <2>3. (\A l : Found(l)' <=> Found(l)) /\ (\A l : Looked(l)' <=> Looked(l)) /\ (StillThere' <=> StillThere)
    BY <2>1 DEF Found, Looked, Seen, StillThere, Stands
  <2>4. Waits'
    BY <2>1, <2>2, <2>3 DEF ServeInv, Waits, Exists, Here
  <2>5. \A i \in 1..(pos - 1) : Passed(i)'
    BY <2>1, <2>3 DEF Passed, ServeInv
  <2> QED BY <2>1, <2>4, <2>5 DEF ServeInv, Known
<1>8. CASE GivesUp
  BY <1>8, GivesUpServes
<1> QED BY <1>1, <1>2, <1>3, <1>4, <1>5, <1>6, <1>7, <1>8, ServeFrame

LEMMA UnderwayHolds == Init => Underway
BY DEF Init, DashInit, Underway

LEMMA UnderwayStep == Underway /\ [Next]_vars => Underway'
<1> SUFFICES ASSUME Underway, [Next]_vars PROVE Underway'
  OBVIOUS
<1>1. CASE UNCHANGED <<mine, theirs>>
  BY <1>1 DEF Underway
<1>2. CASE \E r : Receive(r)
  BY <1>2 DEF Receive, Underway
<1>3. ASSUME NEW j, TakesUp(j) PROVE mine' \in [Jobs -> Nat]
  BY <1>3, FurtherType DEF TakesUp, Underway
<1>4. CASE Called
  <2>1. theirs' = theirs
    BY <1>4 DEF Called
  <2>2. mine' = mine \/ \E j : TakesUp(j)
    BY <1>4 DEF Called, CallPromote, CallRemove, CallRetry, CallRetryBatch, CallClean, CallDrain, CallUnschedule, CallClear
  <2> QED BY <1>3, <2>1, <2>2 DEF Underway
<1>5. CASE GivesUp
  BY <1>5 DEF GivesUp, Underway
<1>6. CASE \E j \in Jobs : OtherReplays(j)
  BY <1>6, FurtherType DEF OtherReplays, Underway
<1>7. CASE \E j \in Jobs : OtherGivesUp(j)
  BY <1>7 DEF OtherGivesUp, requestVars, Underway
<1>8. CASE \E l \in pending : Answered(l)
  BY <1>8 DEF Answered, Underway
<1>9. CASE \E j \in Jobs : Hop(j)
  BY <1>9 DEF Hop, Underway
<1> QED BY <1>1, <1>2, <1>4, <1>5, <1>6, <1>7, <1>8, <1>9, ServeFrame
      DEF dashVars, requestVars, Respond, DrainDeadline, Rejected, Reschedule

LEMMA RequestsHeld == Spec => [](ServeInv /\ Underway)
BY ServeBegin, ServeStep, UnderwayHolds, UnderwayStep, PTL DEF Spec

(* A request that is refused has changed nothing, whatever was asked by     *)
(* whom, but for a replay of the file store that broke off; and one that    *)
(* failed changed something only if it was to: no handler acts before its   *)
(* last gate but on the result of a call that changed nothing, however far  *)
(* its calls come, whoever else acts meanwhile (the routes of dashboard.ts  *)
(* over supervisor.ts).                                                     *)
THEOREM RefusedClean == Spec => []RefusalsClean
<1>1. ServeInv => RefusalsClean
  <2> SUFFICES ASSUME ServeInv, answer \in {-1, 400, 403, 404}, touched
               PROVE  answer = 404 /\ req.route \in Replaying /\ view.replays = "copies"
    BY DEF ServeInv, RefusalsClean
  <2>1. pos >= 1 /\ Settled /\ pos \in 1..Len(Steps(req))
    <3>1. Len(Steps(req)) \in Nat
      BY Shaped DEF ServeInv, Known, Shape
    <3> QED BY <3>1 DEF ServeInv
  <2>2. Step.do # "answer" \/ answer \in {200, 202}
    BY <2>1, Shaped DEF ServeInv, Known, Shape, Settled, Step
  <2> QED BY <2>1, <2>2 DEF Settled
<1> QED BY <1>1, RequestsHeld, PTL

LEMMA Joined ==
  ASSUME NEW s \in Seq(PlainSteps), NEW u \in Seq(PlainSteps)
  PROVE  /\ Len(s \o u) = Len(s) + Len(u)
         /\ \A i \in 1..Len(s) : (s \o u)[i] = s[i]
         /\ \A i \in 1..Len(u) : (s \o u)[Len(s) + i] = u[i]
<1>1. /\ Len(s \o u) = Len(s) + Len(u) /\ Len(s) \in Nat /\ Len(u) \in Nat
      /\ \A i \in 1..(Len(s) + Len(u)) : (s \o u)[i] = IF i <= Len(s) THEN s[i] ELSE u[i - Len(s)]
  BY ConcatProperties, LenProperties
<1>2. \A n, m \in Nat : /\ \A i \in 1..n : i \in 1..(n + m) /\ i <= n
                        /\ \A i \in 1..m : n + i \in 1..(n + m) /\ ~(n + i <= n) /\ (n + i) - n = i
  OBVIOUS
<1> QED BY <1>1, <1>2

(* The gates of the lookup of a job come behind a look at every listing.    *)
LEMMA JobSteps ==
  /\ Len(JobRoute) = 12
  /\ JobRoute[1] = Gate("read") /\ JobRoute[2] = Gate("id") /\ JobRoute[3] = Gate("filter")
  /\ JobRoute[4] = Look("completed") /\ JobRoute[5] = Look("ready") /\ JobRoute[6] = Look("active")
  /\ JobRoute[7] = Look("pending") /\ JobRoute[8] = Look("due") /\ JobRoute[9] = Look("dead")
  /\ JobRoute[10] = Gate("found") /\ JobRoute[11] = Gate("visible") /\ JobRoute[12] = Answer(200)
<1> DEFINE A == <<Gate("read"), Gate("id"), Gate("filter")>>
           B == GetDashboardJobById
           C == <<Gate("found"), Gate("visible")>>
<1>1. /\ Len(A \o B) = 9 /\ (A \o B)[1] = Gate("read") /\ (A \o B)[2] = Gate("id") /\ (A \o B)[3] = Gate("filter")
      /\ (A \o B)[4] = Look("completed") /\ (A \o B)[5] = Look("ready") /\ (A \o B)[6] = Look("active")
      /\ (A \o B)[7] = Look("pending") /\ (A \o B)[8] = Look("due") /\ (A \o B)[9] = Look("dead")
  BY DEF GetDashboardJobById
<1>2. A \o B \in Seq(PlainSteps) /\ C \in Seq(PlainSteps) /\ Len(C) = 2 /\ C[1] = Gate("found") /\ C[2] = Gate("visible")
  <2>1. /\ Gate("read") \in PlainSteps /\ Gate("filter") \in PlainSteps /\ Gate("id") \in PlainSteps
        /\ Gate("found") \in PlainSteps /\ Gate("visible") \in PlainSteps
    BY PlainStep DEF Gates
  <2>2. \A l \in {"completed", "ready", "active", "pending", "due", "dead"} : Look(l) \in PlainSteps
    BY PlainStep DEF Listings
  <2>3. A \in Seq(PlainSteps) /\ B \in Seq(PlainSteps) /\ C \in Seq(PlainSteps)
    BY <2>1, <2>2 DEF GetDashboardJobById
  <2> QED BY <2>3, ConcatProperties
<1>3. PICK D \in Seq(PlainSteps) : D = A \o B
  BY <1>2
<1>4. PICK E \in Seq(PlainSteps) : E = D \o C
  BY <1>2, ConcatProperties
<1> HIDE DEF A, B, C
<1>5. Len(E) = 11 /\ (\A i \in 1..9 : E[i] = D[i]) /\ E[10] = Gate("found") /\ E[11] = Gate("visible")
  <2>1. Len(D) = 9 /\ Len(C) = 2 /\ C \in Seq(PlainSteps)
    BY <1>1, <1>2, <1>3
  <2>2. PICK n \in Nat : n = 9
    OBVIOUS
  <2>3. PICK m \in Nat : m = 2
    OBVIOUS
  <2>4. Len(D) = n /\ Len(C) = m
    BY <2>1, <2>2, <2>3
  <2>5. Len(E) = n + m /\ (\A i \in 1..n : E[i] = D[i]) /\ \A i \in 1..m : E[n + i] = C[i]
    <3>1. D \in Seq(PlainSteps) /\ C \in Seq(PlainSteps)
      BY <2>1
    <3>2. /\ Len(E) = Len(D) + Len(C) /\ \A i \in 1..Len(D) : E[i] = D[i]
          /\ \A i \in 1..Len(C) : E[Len(D) + i] = C[i]
      BY <1>4, <3>1, Joined, Zenon
    <3> QED BY <2>4, <3>2, Zenon
  <2> QED BY <2>2, <2>3, <2>5, <1>2
<1>6. JobRoute = E \o <<Answer(200)>>
  BY <1>3, <1>4 DEF JobRoute, Shown, A, B, C
<1>7. Len(JobRoute) = 12 /\ (\A i \in 1..11 : JobRoute[i] = E[i]) /\ JobRoute[12] = Answer(200)
  <2>1. PICK n : n = 200
    OBVIOUS
  <2>2. JobRoute = E \o <<Answer(n)>>
    BY <1>6, <2>1
  <2>3. Len(JobRoute) = Len(E) + 1 /\ (\A i \in 1..Len(E) : JobRoute[i] = E[i]) /\ JobRoute[Len(E) + 1] = Answer(n)
    BY <2>2, PlainEnd
  <2> QED BY <1>5, <2>1, <2>3
<1>8. \A i \in 1..9 : i \in 1..11 /\ JobRoute[i] = (A \o B)[i]
  <2> SUFFICES ASSUME NEW i \in 1..9 PROVE i \in 1..11 /\ JobRoute[i] = (A \o B)[i]
    OBVIOUS
  <2>1. i \in 1..11
    OBVIOUS
  <2>2. JobRoute[i] = E[i] /\ E[i] = D[i]
    BY <1>5, <1>7, <2>1
  <2> QED BY <1>3, <2>1, <2>2
<1>9. /\ 1 \in 1..9 /\ 2 \in 1..9 /\ 3 \in 1..9 /\ 4 \in 1..9 /\ 5 \in 1..9 /\ 6 \in 1..9
      /\ 7 \in 1..9 /\ 8 \in 1..9 /\ 9 \in 1..9 /\ 10 \in 1..11 /\ 11 \in 1..11
  OBVIOUS
<1>10. /\ JobRoute[1] = Gate("read") /\ JobRoute[2] = Gate("id") /\ JobRoute[3] = Gate("filter")
       /\ JobRoute[4] = Look("completed") /\ JobRoute[5] = Look("ready") /\ JobRoute[6] = Look("active")
       /\ JobRoute[7] = Look("pending") /\ JobRoute[8] = Look("due") /\ JobRoute[9] = Look("dead")
  BY <1>1, <1>8, <1>9
<1> QED BY <1>5, <1>7, <1>9, <1>10

(* What stayed where it was while a request was served is found: a job by   *)
(* its id, and in every listing that shows it, whichever step of the        *)
(* request saw it (jobs.ts:147, one look after the other, so that a job     *)
(* that moves may be missed but one that stays is not).                     *)
THEOREM ReadsTrue == Spec => []ReadsHonest
<1>1. ServeInv => ReadsHonest
  <2> SUFFICES ASSUME ServeInv, Answering PROVE ReadsHonest
    BY DEF ReadsHonest
  <2> DEFINE S == Steps(req)
  <2>1. Shape(S, req.route) /\ Len(S) \in Nat /\ pos \in 1..Len(S) /\ answer # 0
    BY Shaped DEF ServeInv, Known, Shape, Answering
  <2>2. answer # 500 => Settled
    BY <2>1 DEF ServeInv
  <2>3. \A i \in 1..(pos - 1) : Passed(i)
    BY DEF ServeInv
  <2>4. ASSUME req.route = "job", answer = 404, MayFind, NEW l \in Listings, <<l, req.id>> \in still PROVE FALSE
    <3>1. S = JobRoute
      BY <2>4 DEF Steps, Handlers
    <3>2. S[pos].do = "gate" /\ answer = Refusal(S[pos].what, req) /\ ~Passes(S[pos].what, req, seen, did)
      <4>1. S[pos].do = "answer" => S[pos].what \in {200, 202}
        BY <2>1 DEF Shape
      <4> QED BY <2>2, <2>4, <4>1 DEF Settled, Step
    <3>3. pos \in 1..12
      BY <2>1, <3>1, JobSteps
    <3>4. pos \notin {4, 5, 6, 7, 8, 9, 12}
      BY <3>1, <3>2, JobSteps DEF Look, Answer
    <3>5. pos \notin {1, 2, 3}
      <4>1. /\ pos = 1 => S[pos].what = "read"
            /\ pos = 2 => S[pos].what = "id"
            /\ pos = 3 => S[pos].what = "filter"
        BY <3>1, JobSteps, StepKinds
      <4>2. S[pos].what \notin {"read", "id", "filter"}
        <5>1. Refusal("id", req) # 404 /\ Refusal("filter", req) # 404
          BY DEF Refusal
        <5>2. Passes("read", req, seen, did)
          BY DEF Passes
        <5> QED BY <3>2, <2>4, <5>1, <5>2, ZenonT(60)
      <4> QED BY <4>1, <4>2
    <3>6. pos # 11
      <4>1. pos = 11 => S[pos].what = "visible"
        BY <3>1, JobSteps, StepKinds
      <4>2. S[pos].what # "visible"
        BY <3>2, <2>4 DEF Passes, MayFind
      <4> QED BY <4>1, <4>2
    <3>7. pos = 10
      BY <3>3, <3>4, <3>5, <3>6
    <3>8. ~Seen
      <4>1. S[pos].what = "found"
        BY <3>1, <3>7, JobSteps, StepKinds
      <4> QED BY <3>2, <4>1 DEF Passes, Seen
    <3>9. \E i \in 4..9 : S[i] = Look(l)
      BY <3>1, JobSteps DEF Listings
    <3>10. PICK i \in 1..(pos - 1) : S[i] = Look(l)
      BY <3>7, <3>9
    <3>11. Looked(l)
      BY <2>3, <3>10 DEF Passed, Look
    <3>12. ~Silent(l, req)
      BY <2>4 DEF Silent
    <3> QED BY <2>4, <3>8, <3>11, <3>12 DEF Looked
  <2>5. ASSUME answer = 200, NEW j \in Jobs, MayFind, NEW l \in Asked, <<l, j>> \in still, ~Silent(l, req)
        PROVE  Entries(j) # {}
    <3>1. S[pos].do = "answer"
      <4>1. S[pos].do = "gate" => S[pos].what \in Gates
        BY <2>1 DEF Shape
      <4>2. ~Passes("read", req, seen, did) => FALSE
        BY DEF Passes
      <4>3. \A g \in Gates \ {"read"} : Refusal(g, req) # 200
        BY RefusalCodes
      <4> QED BY <2>2, <2>5, <4>1, <4>2, <4>3 DEF Settled, Step
    <3>2. pos = Len(S)
      BY <2>1, <3>1 DEF Shape
    <3>3. PICK i \in DOMAIN S : S[i].do = "reads" /\ l \in S[i].what
      BY <2>5 DEF Asked
    <3>4. i \in 1..(pos - 1)
      <4>1. i \in 1..Len(S)
        BY <2>1, <3>3 DEF Shape, IsSteps
      <4> QED BY <2>1, <3>1, <3>2, <3>3, <4>1, SMTT(40)
    <3>5. <<l, j>> \in seen
      BY <2>3, <2>5, <3>3, <3>4 DEF Passed, Found
    <3>6. CASE req.route # "jobs"
      BY <2>5, <3>5, <3>6 DEF Entries, MayFind
    <3>7. CASE req.route = "jobs"
      <4>1. PICK x : x = CHOOSE y \in seen : y[2] = j
        OBVIOUS
      <4>2. x \in seen /\ x[2] = j
        BY <3>5, <4>1
      <4>3. x \in Merged(seen)
        BY <4>1, <4>2 DEF Merged
      <4> QED BY <2>5, <3>7, <4>2, <4>3 DEF Entries, MayFind
    <3> QED BY <3>6, <3>7
  <2>6. ASSUME req.route = "jobs", NEW j \in Jobs PROVE Cardinality(Entries(j)) <= 1
    <3>1. PICK x : x = CHOOSE y \in seen : y[2] = j
      OBVIOUS
    <3>2. Entries(j) \subseteq {x}
      <4> SUFFICES ASSUME NEW y \in Merged(seen), y[2] = j PROVE y = x
        BY <2>6 DEF Entries
      <4>1. PICK i \in {z[2] : z \in seen} : y = CHOOSE z \in seen : z[2] = i
        BY DEF Merged
      <4>2. y[2] = i
        BY <4>1
      <4> QED BY <3>1, <4>1, <4>2
    <3>3. IsFiniteSet({x}) /\ Cardinality({x}) = 1
      BY FS_Singleton
    <3> QED BY <3>2, <3>3, FS_Subset
  <2>7. req.route = "job" /\ answer = 404 /\ MayFind => \A l \in Listings : <<l, req.id>> \notin still
    BY <2>4
  <2>8. ASSUME answer = 200, req.route \notin {"job", "tag"}, NEW j \in Jobs
        PROVE  /\ req.route = "jobs" => Cardinality(Entries(j)) <= 1
               /\ MayFind /\ (\E l \in Asked : <<l, j>> \in still /\ ~Silent(l, req)) => Entries(j) # {}
    <3>1. req.route = "jobs" => Cardinality(Entries(j)) <= 1
      BY <2>6
    <3>2. MayFind /\ (\E l \in Asked : <<l, j>> \in still /\ ~Silent(l, req)) => Entries(j) # {}
      BY <2>5, <2>8
    <3> QED BY <3>1, <3>2
  <2> QED BY <2>7, <2>8 DEF ReadsHonest
<1> QED BY <1>1, RequestsHeld, PTL

-----------------------------------------------------------------------------
(* The two requests of the command.                                         *)
Listing == Asks("failed", NoJob)

LEMMA ListSteps ==
  /\ Len(Steps(Listing)) = 4
  /\ Steps(Listing)[1] = Gate("read") /\ Steps(Listing)[2] = Gate("filter")
  /\ Steps(Listing)[3] = Reads({"dead"}) /\ Steps(Listing)[4] = Answer(200)
<1>1. Listing.route = "failed"
  BY DEF Listing, Asks
<1>2. Steps(Listing) = Handlers["failed"]
  BY <1>1 DEF Steps
<1>3. Handlers["failed"] = FailedRoute
  BY DEF Handlers
<1>4. GetDashboardJobs("dlq") = Reads({"dead"})
  BY DEF GetDashboardJobs, GetDLQ
<1>5. FailedRoute = <<Gate("read"), Gate("filter"), Reads({"dead"})>> \o <<Answer(200)>>
  BY <1>4 DEF FailedRoute, JobsRoute, Shown
<1> QED BY <1>2, <1>3, <1>5

LEMMA RetrySteps ==
  ASSUME NEW j
  PROVE  LET S == Steps(Asks("retryDlq", j)) IN
         /\ Len(S) = 6
         /\ S[1] = Gate("operate") /\ S[2] = Gate("access") /\ S[3] = Gate("both")
         /\ S[4] = Call("retry") /\ S[5] = Gate("did") /\ S[6] = Answer(202)
<1>1. Asks("retryDlq", j).route = "retryDlq"
  BY DEF Asks
<1>2. Steps(Asks("retryDlq", j)) = Handlers["retryDlq"]
  BY <1>1 DEF Steps
<1>3. Handlers["retryDlq"] = RetryDlqRoute
  BY DEF Handlers
<1>4. RetryDlqRoute = <<Gate("operate"), Gate("access"), Gate("both"), Call("retry"), Gate("did")>> \o <<Answer(202)>>
  BY DEF RetryDlqRoute, Done
<1> QED BY <1>2, <1>3, <1>4


LEMMA Cut ==
  ASSUME NEW lim \in Nat, NEW I, IsFiniteSet(I), NEW S \in SUBSET I,
         Cardinality(S) = Min({lim, Cardinality(I)}), NEW s \in SetToSeqs(S)
  PROVE  s \in Seq(S) /\ (Len(s) < lim => I \subseteq ToSet(s))
<1> DEFINE n == Cardinality(S)
<1>1. IsFiniteSet(S) /\ n \in Nat /\ Cardinality(I) \in Nat
  BY FS_Subset, FS_CardinalityType
<1>2. s \in [1..n -> S] /\ \A k, l \in 1..n : k # l => s[k] # s[l]
  BY DEF SetToSeqs
<1>3. s \in Seq(S) /\ Len(s) = n /\ DOMAIN s = 1..n
  <2> HIDE DEF n
  <2>1. n \in Nat /\ s \in [1..n -> S]
    BY <1>1, <1>2
  <2>2. s \in Seq(S)
    BY <2>1, SeqDef
  <2> QED BY <2>1, <2>2, LenProperties
<1>4. ASSUME Len(s) < lim PROVE I \subseteq ToSet(s)
  <2>1. \E m \in {lim, Cardinality(I)} : \A y \in {lim, Cardinality(I)} : m <= y
    BY <1>1
  <2>2. Min({lim, Cardinality(I)}) \in {lim, Cardinality(I)}
    BY <2>1 DEF Min
  <2>3. n = Cardinality(I)
    BY <2>2, <1>4, <1>3, <1>1
  <2>4. S = I
    BY <2>3, FS_Subset
  <2>5. Cardinality(1..n) = n /\ IsFiniteSet(1..n)
    BY <1>1, FS_Interval
  <2>6. s \in Injection(1..n, S)
    BY <1>2 DEF Injection, IsInjective
  <2>7. s \in Surjection(1..n, S)
    BY <2>5, <2>6, <1>1, FS_Injection
  <2>8. \A x \in S : \E k \in 1..n : s[k] = x
    BY <2>7 DEF Surjection
  <2> QED BY <2>4, <2>8, <1>3 DEF ToSet
<1> QED BY <1>3, <1>4

LEMMA ListAsked ==
  ASSUME Receive(Listing)
  PROVE  /\ req' = Listing /\ pos' = 3 /\ pending' = {"dead"} /\ seen' = {} /\ answer' = 0
         /\ \A j \in Jobs : <<"dead", j>> \in still' => "dead" \in place[j]
         /\ UNCHANGED <<place, copies>>
<1>1. Run(Listing, 0, {}, FALSE)
  BY DEF Receive
<1>2. ~Halts(Steps(Listing)[1], Listing, {}, FALSE) /\ ~Halts(Steps(Listing)[2], Listing, {}, FALSE)
  <2>1. Passes("read", Listing, {}, FALSE)
    BY DEF Passes
  <2>2. Passes("filter", Listing, {}, FALSE)
    BY DashboardConstantsOK DEF Passes, Listing, Asks
  <2> QED BY <2>1, <2>2, ListSteps, GateHalts
<1>3. Halts(Steps(Listing)[3], Listing, {}, FALSE)
  BY ListSteps DEF Halts, Reads
<1>4. \A m \in 1..2 : ~Halts(Steps(Listing)[m], Listing, {}, FALSE) /\ Steps(Listing)[m].do # "sync"
  <2>1. \A m \in 1..2 : m = 1 \/ m = 2
    OBVIOUS
  <2>2. Steps(Listing)[1].do # "sync" /\ Steps(Listing)[2].do # "sync"
    BY ListSteps DEF Gate
  <2> QED BY <2>1, <2>2, <1>2
<1>5. \A m \in (0 + 1)..(3 - 1) : ~Halts(Steps(Listing)[m], Listing, {}, FALSE) /\ Steps(Listing)[m].do # "sync"
  <2>1. (0 + 1)..(3 - 1) = 1..2
    OBVIOUS
  <2> QED BY <1>4, <2>1
<1>6. 3 \in (0 + 1)..Len(Steps(Listing)) /\ Len(Steps(Listing)) \in Nat /\ 0 \in Nat
  BY ListSteps
<1>7. /\ pos' = 3 /\ seen' = {}
      /\ pending' = CASE Steps(Listing)[3].do = "reads" -> Steps(Listing)[3].what
                      [] Steps(Listing)[3].do \in {"look", "call"} -> {Steps(Listing)[3].what}
                      [] OTHER -> {}
      /\ answer' = CASE Steps(Listing)[3].do = "gate" -> Refusal(Steps(Listing)[3].what, Listing)
                     [] Steps(Listing)[3].do = "answer" -> Steps(Listing)[3].what [] OTHER -> 0
  BY <1>1, <1>3, <1>5, <1>6, RunsTo
<1>8. pending' = {"dead"} /\ answer' = 0
  BY <1>7, ListSteps DEF Reads
<1>9. \A j \in Jobs : <<"dead", j>> \in still' => "dead" \in place[j]
  BY DEF Receive, Stands
<1> QED BY <1>7, <1>8, <1>9 DEF Receive

LEMMA ListAnswered ==
  ASSUME req = Listing, pos = 3, Run(Listing, 3, seen \cup Reply("dead", req), did)
  PROVE  /\ answer' = 200 /\ seen' = seen \cup Reply("dead", req)
<1> DEFINE found == seen \cup Reply("dead", req)
<1>1. Halts(Steps(Listing)[4], Listing, found, did)
  BY ListSteps DEF Halts, Answer
<1>2. 4 \in (3 + 1)..Len(Steps(Listing)) /\ Len(Steps(Listing)) \in Nat /\ 3 \in Nat
  BY ListSteps
<1>3. \A m \in (3 + 1)..(4 - 1) : ~Halts(Steps(Listing)[m], Listing, found, did) /\ Steps(Listing)[m].do # "sync"
  OBVIOUS
<1> HIDE DEF found
<1>4. Run(Listing, 3, found, did)
  BY DEF found
<1>5. /\ seen' = found
      /\ answer' = CASE Steps(Listing)[4].do = "gate" -> Refusal(Steps(Listing)[4].what, Listing)
                     [] Steps(Listing)[4].do = "answer" -> Steps(Listing)[4].what [] OTHER -> 0
  BY <1>1, <1>2, <1>3, <1>4, RunsTo
<1>6. answer' = 200
  BY <1>5, ListSteps DEF Answer
<1> QED BY <1>5, <1>6 DEF found

LEMMA RetryAsked ==
  ASSUME NEW j \in Jobs, Receive(Asks("retryDlq", j))
  PROVE  /\ req' = Asks("retryDlq", j) /\ pos' = 4 /\ pending' = {"retry"} /\ answer' = 0
         /\ UNCHANGED <<place, copies>>
<1> DEFINE r == Asks("retryDlq", j)
           S == Steps(r)
<1>1. Run(r, 0, {}, FALSE) /\ req' = r /\ UNCHANGED <<place, copies>>
  BY DEF Receive
<1>2. /\ Len(S) = 6
      /\ S[1] = Gate("operate") /\ S[2] = Gate("access") /\ S[3] = Gate("both") /\ S[4] = Call("retry")
  BY RetrySteps
<1>3. r.level = 3 /\ r.name = Home /\ Home \in r.allowed /\ r.id = j /\ Home # NoName /\ j # NoJob
  BY DashboardConstantsOK DEF Asks
<1> HIDE DEF r, S
<1>4. ~Halts(S[1], r, {}, FALSE) /\ ~Halts(S[2], r, {}, FALSE) /\ ~Halts(S[3], r, {}, FALSE)
  BY <1>2, <1>3 DEF Halts, Passes, Gate
<1>5. Halts(S[4], r, {}, FALSE)
  BY <1>2 DEF Halts, Call
<1>6. \A m \in (0 + 1)..(4 - 1) : ~Halts(S[m], r, {}, FALSE) /\ S[m].do # "sync"
  <2>1. \A m \in (0 + 1)..(4 - 1) : m = 1 \/ m = 2 \/ m = 3
    OBVIOUS
  <2>2. S[1].do # "sync" /\ S[2].do # "sync" /\ S[3].do # "sync"
    BY <1>2 DEF Gate
  <2> QED BY <2>1, <2>2, <1>4
<1>7. 4 \in (0 + 1)..Len(S) /\ Len(S) \in Nat /\ 0 \in Nat
  BY <1>2
<1>8. /\ pos' = 4
      /\ pending' = CASE S[4].do = "reads" -> S[4].what [] S[4].do \in {"look", "call"} -> {S[4].what} [] OTHER -> {}
      /\ answer' = CASE S[4].do = "gate" -> Refusal(S[4].what, r) [] S[4].do = "answer" -> S[4].what [] OTHER -> 0
  BY <1>1, <1>5, <1>6, <1>7, RunsTo DEF S
<1>9. pending' = {"retry"} /\ answer' = 0
  BY <1>8, <1>2 DEF Call
<1> QED BY <1>1, <1>8, <1>9 DEF r

LEMMA RetryServed ==
  ASSUME NEW j, NEW ok \in BOOLEAN, req = Asks("retryDlq", j), Run(req, 4, seen, ok)
  PROVE  answer' = IF ok THEN 202 ELSE 404
<1> DEFINE S == Steps(req)
<1>1. Len(S) = 6 /\ S[5] = Gate("did") /\ S[6] = Answer(202)
  BY RetrySteps
<1>2. CASE ok
  <2>1. Halts(S[6], req, seen, ok) /\ ~Halts(S[5], req, seen, ok) /\ S[5].do # "sync"
    <3>1. S[6].do = "answer"
      BY <1>1 DEF Answer
    <3>2. Halts(S[6], req, seen, ok)
      BY <3>1 DEF Halts
    <3>3. Passes("did", req, seen, ok)
      BY <1>2 DEF Passes
    <3> QED BY <3>2, <3>3, <1>1, GateHalts
  <2>2. \A m \in (4 + 1)..(6 - 1) : ~Halts(S[m], req, seen, ok) /\ S[m].do # "sync"
    <3>1. \A m \in (4 + 1)..(6 - 1) : m = 5
      OBVIOUS
    <3> QED BY <3>1, <2>1
  <2>3. 6 \in (4 + 1)..Len(S) /\ Len(S) \in Nat /\ 4 \in Nat
    BY <1>1
  <2>4. answer' = CASE S[6].do = "gate" -> Refusal(S[6].what, req) [] S[6].do = "answer" -> S[6].what [] OTHER -> 0
    <3> HIDE DEF S
    <3> QED BY <2>1, <2>2, <2>3, RunsTo DEF S
  <2> QED BY <2>4, <1>1, <1>2 DEF Answer
<1>3. CASE ~ok
  <2>1. Halts(S[5], req, seen, ok)
    <3>1. ~Passes("did", req, seen, ok)
      BY <1>3 DEF Passes
    <3> QED BY <3>1, <1>1, GateHalts
  <2>2. \A m \in (4 + 1)..(5 - 1) : ~Halts(S[m], req, seen, ok) /\ S[m].do # "sync"
    OBVIOUS
  <2>3. 5 \in (4 + 1)..Len(S) /\ Len(S) \in Nat /\ 4 \in Nat
    BY <1>1
  <2>4. answer' = CASE S[5].do = "gate" -> Refusal(S[5].what, req) [] S[5].do = "answer" -> S[5].what [] OTHER -> 0
    <3> HIDE DEF S
    <3> QED BY <2>1, <2>2, <2>3, RunsTo DEF S
  <2> QED BY <2>4, <1>1, <1>3 DEF Gate, Refusal
<1> QED BY <1>2, <1>3

-----------------------------------------------------------------------------
(* The command.  What its replay of a letter and another operator's have    *)
(* behind them, the mark of the letter and its copies agree, by how the     *)
(* store replays, and more closely as long as the two have not met; the     *)
(* list keeps every letter that stayed; a retry that was accepted made the  *)
(* copy, one that was refused found none to make.                           *)
Places == SUBSET (Listings \cup {"retried"})
Ways   == {"whole", "marks", "asks", "copies"}

Marked(P) == P = {"dead", "retried"}

(* A letter in P with c copies, n and o commands of its two replays done.   *)
Sound(P, c, n, o) ==
  /\ c \in Nat /\ n \in 0..2 /\ o \in 0..2
  /\ view.replays = "whole" => n = 0 /\ o = 0 /\ c = (IF Marked(P) THEN 1 ELSE 0)
  /\ view.replays = "marks" =>
       n < 2 /\ o < 2 /\ (IF Marked(P) THEN c + n + o <= 1 ELSE c = 0 /\ n = 0 /\ o = 0)
  /\ view.replays = "copies" => (n = 2 \/ o = 2 => c >= 1)

(* And as long as the replays have not met and none was broken off.         *)
Lone(P, c, n, o) ==
  /\ view.replays = "asks" =>
       /\ n = 0 \/ o = 0
       /\ IF Marked(P) THEN c <= 1 /\ n # 1 /\ o # 1 /\ (n = 2 \/ o = 2 => c = 0)
                       ELSE c = 0 /\ n # 2 /\ o # 2
  /\ view.replays = "copies" =>
       /\ n = 0 \/ o = 0
       /\ IF Marked(P) THEN c <= 1 /\ n = 0 /\ o = 0
                       ELSE c = (IF n = 2 \/ o = 2 THEN 1 ELSE 0)

Letter(j) ==
  /\ "retried" \in place[j] => Marked(place[j])
  /\ Sound(place[j], copies[j], mine[j], theirs[j])
  /\ j \notin raced => Lone(place[j], copies[j], mine[j], theirs[j])

Copied ==
  /\ view.replays \in Ways /\ place \in [Jobs -> Places]
  /\ copies \in [Jobs -> Nat] /\ mine \in [Jobs -> Nat] /\ theirs \in [Jobs -> Nat]
  /\ \A j \in Jobs : Letter(j)

Command1 ==
  /\ stage \in {"idle", "listing", "listed", "retrying", "done", "failed"}
  /\ limit \in Nat /\ retried \in Nat /\ listed \in Seq(Jobs)
  /\ retried <= Len(listed) /\ (stage = "done" => retried = Len(listed))
  /\ \A i \in 1..retried : copies[listed[i]] >= 1
  /\ stage \in {"listed", "retrying", "done"} /\ Len(listed) < limit => dead \subseteq ToSet(listed)
  /\ stage \notin {"listing", "retrying"} => answer # 0 /\ (view.replays = "copies" => \A j \in Jobs : mine[j] = 0)

Lists ==
  /\ req = Listing /\ answer \in {0, 200, 500} /\ retried = 0 /\ listed = <<>>
  /\ answer = 0 => pos = 3 /\ pending = {"dead"}
  /\ \A j \in Jobs : <<"dead", j>> \in still => "dead" \in place[j]
  /\ answer = 200 => \A j \in Jobs : <<"dead", j>> \in still /\ OnPage(req) => <<"dead", j>> \in seen
  /\ \A j \in Jobs : mine[j] = 0

Gone(j) == ~Replayable(place[j])

Retries ==
  /\ retried < Len(listed) /\ req = Asks("retryDlq", listed[retried + 1])
  /\ answer \in {0, 202, 404, 500}
  /\ answer = 0 => pos = 4
  /\ \A j \in Jobs : mine[j] # 0 => j = listed[retried + 1] /\ (view.replays = "copies" => answer = 0)
  /\ answer = 202 => copies[listed[retried + 1]] >= 1
  /\ answer = 404 => Gone(listed[retried + 1]) \/ view.replays = "copies"

CliInv ==
  /\ scene # "cli" => stage = "idle"
  /\ scene = "cli" => /\ Copied /\ Command1
                      /\ stage = "listing" => Lists
                      /\ stage = "retrying" => Retries
                      /\ stage = "failed" => answer = 500 \/ view.replays = "copies" \/ Gone(listed[retried + 1])

LEMMA Order ==
  /\ view.replays = "whole"  => Len(Commands) = 1 /\ Commands[1] = {"ask", "mark", "copy"}
  /\ view.replays = "marks"  => Len(Commands) = 2 /\ Commands[1] = {"ask", "mark"} /\ Commands[2] = {"copy"}
  /\ view.replays = "asks"   => /\ Len(Commands) = 3 /\ Commands[1] = {"ask"} /\ Commands[2] = {"mark"}
                                /\ Commands[3] = {"copy"}
  /\ view.replays = "copies" => /\ Len(Commands) = 3 /\ Commands[1] = {"ask"} /\ Commands[2] = {"copy"}
                                /\ Commands[3] = {"mark"}
<1>1. CASE view.replays = "whole"
  <2>1. Commands = <<{"ask", "mark", "copy"}>>
    BY <1>1 DEF Commands
  <2> QED BY <1>1, <2>1
<1>2. CASE view.replays = "marks"
  <2>1. Commands = <<{"ask", "mark"}, {"copy"}>>
    BY <1>2 DEF Commands
  <2> QED BY <1>2, <2>1
<1>3. CASE view.replays = "asks"
  <2>1. Commands = <<{"ask"}, {"mark"}, {"copy"}>>
    BY <1>3 DEF Commands
  <2> QED BY <1>3, <2>1
<1>4. CASE view.replays = "copies"
  <2>1. Commands = <<{"ask"}, {"copy"}, {"mark"}>>
    BY <1>4 DEF Commands
  <2> QED BY <1>4, <2>1
<1> QED BY <1>1, <1>2, <1>3, <1>4

(* A command of a replay, seen from either of the two.                      *)
LEMMA Advances ==
  ASSUME view.replays \in Ways, NEW P, NEW c, NEW n, NEW o, Sound(P, c, n, o), n > 0 \/ ~Marked(P),
         NEW Q, Q = IF "mark" \in Commands[n + 1] THEN {"dead", "retried"} ELSE P,
         NEW d, d = IF "copy" \in Commands[n + 1] THEN c + 1 ELSE c
  PROVE  /\ Sound(Q, d, Further(n), o) /\ d >= c /\ (Further(n) = 0 => d >= 1)
         /\ Lone(P, c, n, o) /\ o = 0 => Lone(Q, d, Further(n), o)
<1>1. c \in Nat /\ n \in 0..2 /\ o \in 0..2
  BY DEF Sound
<1>2. CASE view.replays = "whole"
  <2>1. n = 0 /\ o = 0 /\ ~Marked(P) /\ c = 0
    BY <1>2 DEF Sound
  <2>2. Q = {"dead", "retried"} /\ d = 1 /\ Further(n) = 0
    BY <1>2, <2>1, Order DEF Further
  <2> QED BY <1>1, <1>2, <2>1, <2>2 DEF Sound, Lone, Marked
<1>3. CASE view.replays = "marks"
  <2>1. CASE n = 0
    <3>1. Q = {"dead", "retried"} /\ d = c /\ Further(n) = 1 /\ o = 0 /\ c = 0
      BY <1>3, <2>1, Order DEF Further, Sound
    <3> QED BY <1>1, <1>3, <2>1, <3>1 DEF Sound, Lone, Marked
  <2>2. CASE n = 1
    <3>1. Q = P /\ d = c + 1 /\ Further(n) = 0 /\ Marked(P)
      BY <1>3, <2>2, Order DEF Further, Sound
    <3>2. c = 0 /\ o = 0
      BY <1>1, <1>3, <2>2, <3>1 DEF Sound
    <3> QED BY <1>1, <1>3, <3>1, <3>2 DEF Sound, Lone
  <2> QED BY <1>1, <1>3, <2>1, <2>2 DEF Sound
<1>4. CASE view.replays = "asks"
  <2>1. CASE n = 0
    <3>1. Q = P /\ d = c /\ Further(n) = 1
      BY <1>4, <2>1, Order DEF Further
    <3> QED BY <1>1, <1>4, <2>1, <3>1 DEF Sound, Lone
  <2>2. CASE n = 1
    <3>1. Q = {"dead", "retried"} /\ d = c /\ Further(n) = 2
      BY <1>4, <2>2, Order DEF Further
    <3> QED BY <1>1, <1>4, <2>2, <3>1 DEF Sound, Lone, Marked
  <2>3. CASE n = 2
    <3>1. Q = P /\ d = c + 1 /\ Further(n) = 0
      BY <1>4, <2>3, Order DEF Further
    <3> QED BY <1>1, <1>4, <2>3, <3>1 DEF Sound, Lone
  <2> QED BY <1>1, <2>1, <2>2, <2>3
<1>5. CASE view.replays = "copies"
  <2>1. CASE n = 0
    <3>1. Q = P /\ d = c /\ Further(n) = 1
      BY <1>5, <2>1, Order DEF Further
    <3> QED BY <1>1, <1>5, <2>1, <3>1 DEF Sound, Lone
  <2>2. CASE n = 1
    <3>1. Q = P /\ d = c + 1 /\ Further(n) = 2
      BY <1>5, <2>2, Order DEF Further
    <3> QED BY <1>1, <1>5, <2>2, <3>1 DEF Sound, Lone
  <2>3. CASE n = 2
    <3>1. Q = {"dead", "retried"} /\ d = c /\ Further(n) = 0
      BY <1>5, <2>3, Order DEF Further
    <3>2. c >= 1
      BY <1>5, <2>3 DEF Sound
    <3> QED BY <1>1, <1>5, <2>3, <3>1, <3>2 DEF Sound, Lone, Marked
  <2> QED BY <1>1, <2>1, <2>2, <2>3
<1> QED BY <1>2, <1>3, <1>4, <1>5 DEF Ways

LEMMA Mirrored ==
  ASSUME NEW P, NEW c, NEW n, NEW o
  PROVE  (Sound(P, c, n, o) => Sound(P, c, o, n)) /\ (Lone(P, c, n, o) => Lone(P, c, o, n))
<1>1. Sound(P, c, n, o) => Sound(P, c, o, n)
  BY DEF Sound
<1>2. Lone(P, c, n, o) => Lone(P, c, o, n)
  BY DEF Lone
<1> QED BY <1>1, <1>2

(* A replay that is forgotten: the file store's leaves its copy behind.     *)
LEMMA Dropped ==
  ASSUME NEW P, NEW c, NEW n, NEW o, Sound(P, c, n, o)
  PROVE  /\ Sound(P, c, 0, o)
         /\ Lone(P, c, n, o) /\ (view.replays = "copies" => n = 0) => Lone(P, c, 0, o)
<1>1. Sound(P, c, 0, o)
  BY DEF Sound
<1>2. Lone(P, c, n, o) /\ (view.replays = "copies" => n = 0) => Lone(P, c, 0, o)
  BY DEF Lone, Sound
<1> QED BY <1>1, <1>2

LEMMA Replayed ==
  ASSUME place \in [Jobs -> Places], copies \in [Jobs -> Nat], NEW j \in Jobs, NEW n, Replays(j, n)
  PROVE  /\ place' \in [Jobs -> Places] /\ copies' \in [Jobs -> Nat]
         /\ place'[j] = IF "mark" \in Commands[n + 1] THEN {"dead", "retried"} ELSE place[j]
         /\ copies'[j] = IF "copy" \in Commands[n + 1] THEN copies[j] + 1 ELSE copies[j]
         /\ \A i \in Jobs : i # j => place'[i] = place[i] /\ copies'[i] = copies[i]
<1>1. {"dead", "retried"} \in Places
  BY DEF Places, Listings
<1> QED BY <1>1 DEF Replays

LEMMA LetterSame ==
  ASSUME NEW i, Letter(i), view' = view, place'[i] = place[i], copies'[i] = copies[i], mine'[i] = mine[i],
         theirs'[i] = theirs[i], i \in raced => i \in raced'
  PROVE  Letter(i)'
<1>1. ("retried" \in place[i] => Marked(place[i]))'
  BY DEF Letter, Marked
<1>2. Sound(place[i], copies[i], mine[i], theirs[i])'
  BY DEF Letter, Sound, Marked
<1>3. i \notin raced' => Lone(place[i], copies[i], mine[i], theirs[i])'
  BY DEF Letter, Lone, Marked
<1> QED BY <1>1, <1>2, <1>3 DEF Letter

(* The same of a letter whose new values are known.                         *)
LEMMA LetterNew ==
  ASSUME NEW i, view' = view, NEW P, NEW c, NEW n, NEW o,
         place'[i] = P, copies'[i] = c, mine'[i] = n, theirs'[i] = o,
         "retried" \in P => Marked(P), Sound(P, c, n, o), i \notin raced' => Lone(P, c, n, o)
  PROVE  Letter(i)'
<1>1. ("retried" \in place[i] => Marked(place[i]))'
  BY DEF Marked
<1>2. Sound(place[i], copies[i], mine[i], theirs[i])'
  BY DEF Sound, Marked
<1>3. i \notin raced' => Lone(place[i], copies[i], mine[i], theirs[i])'
  BY DEF Lone, Marked
<1> QED BY <1>1, <1>2, <1>3 DEF Letter

LEMMA FurtherBelow == \A n \in 0..2 : view.replays \in Ways => Further(n) \in Nat
BY DEF Further

LEMMA TakesUpKept ==
  ASSUME Copied, NEW j \in Jobs, TakesUp(j), UNCHANGED <<view, theirs>>
  PROVE  /\ Copied' /\ \A i \in Jobs : copies'[i] >= copies[i]
         /\ Further(mine[j]) = 0 => copies'[j] >= 1
         /\ mine'[j] = Further(mine[j]) /\ \A i \in Jobs : i # j => mine'[i] = mine[i]
<1> DEFINE P == place[j]
           c == copies[j]
           n == mine[j]
           o == theirs[j]
<1>1. view.replays \in Ways /\ Letter(j) /\ Sound(P, c, n, o) /\ n \in 0..2 /\ o \in 0..2 /\ c \in Nat
  BY DEF Copied, Letter, Sound
<1>2. /\ place' \in [Jobs -> Places] /\ copies' \in [Jobs -> Nat]
      /\ place'[j] = IF "mark" \in Commands[n + 1] THEN {"dead", "retried"} ELSE P
      /\ copies'[j] = IF "copy" \in Commands[n + 1] THEN c + 1 ELSE c
      /\ \A i \in Jobs : i # j => place'[i] = place[i] /\ copies'[i] = copies[i]
  BY Replayed DEF TakesUp, Copied
<1>3. n > 0 \/ ~Marked(P)
  BY <1>1 DEF TakesUp, Replays, Replayable, Marked
<1>4. PICK Q : Q = place'[j]
  OBVIOUS
<1>5. PICK d : d = copies'[j]
  OBVIOUS
<1>6. /\ Sound(Q, d, Further(n), o) /\ d >= c /\ (Further(n) = 0 => d >= 1)
      /\ Lone(P, c, n, o) /\ o = 0 => Lone(Q, d, Further(n), o)
  <2> HIDE DEF P, c, n, o
  <2> QED BY <1>1, <1>2, <1>3, <1>4, <1>5, Advances
<1>7. mine' \in [Jobs -> Nat] /\ mine'[j] = Further(n) /\ \A i \in Jobs : i # j => mine'[i] = mine[i]
  <2>1. Further(n) \in Nat
    BY <1>1, FurtherBelow
  <2> QED BY <2>1 DEF TakesUp, Copied
<1>8. raced \subseteq raced' /\ (o > 0 => j \in raced')
  BY DEF TakesUp
<1>9. Letter(j)'
  <2>1. "retried" \in Q => Marked(Q)
    BY <1>1, <1>2, <1>4 DEF Letter, Marked
  <2>2. j \notin raced' => Lone(Q, d, Further(n), o)
    BY <1>1, <1>6, <1>8 DEF Letter
  <2>3. theirs'[j] = o
    OBVIOUS
  <2> QED BY <1>4, <1>5, <1>6, <1>7, <2>1, <2>2, <2>3, LetterNew
<1>10. ASSUME NEW i \in Jobs, i # j PROVE Letter(i)'
  <2>1. Letter(i)
    BY DEF Copied
  <2> QED BY <1>2, <1>7, <1>8, <1>10, <2>1, LetterSame
<1>11. Copied'
  BY <1>1, <1>2, <1>7, <1>9, <1>10 DEF Copied
<1>12. \A i \in Jobs : copies'[i] >= copies[i]
  <2> SUFFICES ASSUME NEW i \in Jobs PROVE copies'[i] >= copies[i]
    OBVIOUS
  <2>1. copies[i] \in Nat
    BY DEF Copied
  <2> QED BY <1>2, <1>5, <1>6, <2>1
<1> QED BY <1>5, <1>6, <1>7, <1>11, <1>12

LEMMA OtherKept ==
  ASSUME Copied, NEW j \in Jobs, OtherReplays(j)
  PROVE  Copied' /\ \A i \in Jobs : copies'[i] >= copies[i]
<1> DEFINE P == place[j]
           c == copies[j]
           n == theirs[j]
           o == mine[j]
<1>1. view.replays \in Ways /\ Letter(j) /\ Sound(P, c, n, o) /\ n \in 0..2 /\ o \in 0..2 /\ c \in Nat
  BY Mirrored DEF Copied, Letter, Sound
<1>2. /\ place' \in [Jobs -> Places] /\ copies' \in [Jobs -> Nat]
      /\ place'[j] = IF "mark" \in Commands[n + 1] THEN {"dead", "retried"} ELSE P
      /\ copies'[j] = IF "copy" \in Commands[n + 1] THEN c + 1 ELSE c
      /\ \A i \in Jobs : i # j => place'[i] = place[i] /\ copies'[i] = copies[i]
  BY Replayed DEF OtherReplays, Copied
<1>3. n > 0 \/ ~Marked(P)
  BY <1>1 DEF OtherReplays, Replays, Replayable, Marked
<1>4. PICK Q : Q = place'[j]
  OBVIOUS
<1>5. PICK d : d = copies'[j]
  OBVIOUS
<1>6. /\ Sound(Q, d, Further(n), o) /\ d >= c
      /\ Lone(P, c, n, o) /\ o = 0 => Lone(Q, d, Further(n), o)
  <2> HIDE DEF P, c, n, o
  <2> QED BY <1>1, <1>2, <1>3, <1>4, <1>5, Advances
<1>7. /\ theirs' \in [Jobs -> Nat] /\ theirs'[j] = Further(n) /\ \A i \in Jobs : i # j => theirs'[i] = theirs[i]
      /\ UNCHANGED <<view, mine>>
  <2>1. Further(n) \in Nat
    BY <1>1, FurtherBelow
  <2> QED BY <2>1 DEF OtherReplays, Copied
<1>8. raced \subseteq raced' /\ (o > 0 => j \in raced')
  BY DEF OtherReplays
<1>9. Letter(j)'
  <2>1. "retried" \in Q => Marked(Q)
    BY <1>1, <1>2, <1>4 DEF Letter, Marked
  <2>2. j \notin raced' => Lone(P, c, n, o)
    BY <1>8, <1>1, Mirrored DEF Letter
  <2>3. Sound(Q, d, o, Further(n)) /\ (j \notin raced' => Lone(Q, d, o, Further(n)))
    BY <1>1, <1>6, <1>8, <2>2, Mirrored
  <2>4. mine'[j] = o
    BY <1>7
  <2> QED BY <1>4, <1>5, <1>7, <2>1, <2>3, <2>4, LetterNew
<1>10. ASSUME NEW i \in Jobs, i # j PROVE Letter(i)'
  <2>1. Letter(i)
    BY DEF Copied
  <2> QED BY <1>2, <1>7, <1>8, <1>10, <2>1, LetterSame
<1>11. Copied'
  BY <1>1, <1>2, <1>7, <1>9, <1>10 DEF Copied
<1>12. \A i \in Jobs : copies'[i] >= copies[i]
  <2> SUFFICES ASSUME NEW i \in Jobs PROVE copies'[i] >= copies[i]
    OBVIOUS
  <2>1. copies[i] \in Nat
    BY DEF Copied
  <2> QED BY <1>2, <1>5, <1>6, <2>1
<1> QED BY <1>11, <1>12

LEMMA OtherGivesUpKept ==
  ASSUME Copied, NEW j \in Jobs, OtherGivesUp(j)
  PROVE  Copied' /\ UNCHANGED <<place, copies, view, req, pos, pending, seen, mine, answer, still>>
<1>1. /\ UNCHANGED <<place, copies, view, req, pos, pending, seen, mine, answer, still>>
      /\ theirs' = [theirs EXCEPT ![j] = 0] /\ raced' = raced \cup {j}
  BY DEF OtherGivesUp, systemVars, requestVars
<1>2. theirs' \in [Jobs -> Nat] /\ theirs'[j] = 0 /\ \A i \in Jobs : i # j => theirs'[i] = theirs[i]
  BY <1>1 DEF Copied
<1>3. Letter(j)'
  <2>1. PICK n, o : n = mine[j] /\ o = theirs[j]
    OBVIOUS
  <2>2. Letter(j) /\ Sound(place[j], copies[j], n, o)
    BY <2>1 DEF Copied, Letter
  <2>3. Sound(place[j], copies[j], n, 0)
    BY <2>2, Mirrored, Dropped
  <2>4. "retried" \in place[j] => Marked(place[j])
    BY <2>2 DEF Letter
  <2> QED BY <1>1, <1>2, <2>1, <2>3, <2>4, LetterNew
<1>4. ASSUME NEW i \in Jobs, i # j PROVE Letter(i)'
  <2>1. Letter(i)
    BY DEF Copied
  <2> QED BY <1>1, <1>2, <1>4, <2>1, LetterSame
<1>5. Copied'
  BY <1>1, <1>2, <1>3, <1>4 DEF Copied
<1> QED BY <1>1, <1>5

(* The life of a job between the listing and the retries.                   *)
LEMMA HopKept ==
  ASSUME Copied, NEW j \in Jobs, Hop(j)
  PROVE  Copied'
<1>1. PICK h \in Hops : place[j] = h[1] /\ place' = [place EXCEPT ![j] = h[2]]
  BY DEF Hop
<1>2. UNCHANGED <<view, copies, mine, theirs, raced>>
  BY DEF Hop
<1>3. h[2] \in Places /\ "retried" \notin h[2] /\ "retried" \notin h[1]
  BY DEF Hops, Places, Listings
<1>4. place' \in [Jobs -> Places] /\ place'[j] = h[2] /\ \A i \in Jobs : i # j => place'[i] = place[i]
  BY <1>1, <1>3 DEF Copied
<1>5. Letter(j)'
  <2>1. Letter(j)
    BY DEF Copied
  <2>2. ~Marked(place[j]) /\ ~Marked(h[2])
    BY <1>1, <1>3 DEF Marked
  <2>3. Sound(h[2], copies[j], mine[j], theirs[j])
    BY <2>1, <2>2 DEF Letter, Sound
  <2>4. j \notin raced => Lone(h[2], copies[j], mine[j], theirs[j])
    BY <2>1, <2>2 DEF Letter, Lone
  <2>5. PICK P, c, n, o : P = h[2] /\ c = copies[j] /\ n = mine[j] /\ o = theirs[j]
    OBVIOUS
  <2> QED BY <1>2, <1>3, <1>4, <2>3, <2>4, <2>5, LetterNew
<1>6. ASSUME NEW i \in Jobs, i # j PROVE Letter(i)'
  <2>1. Letter(i)
    BY DEF Copied
  <2> QED BY <1>2, <1>4, <1>6, <2>1, LetterSame
<1> QED BY <1>2, <1>4, <1>5, <1>6 DEF Copied

(* A new request, and a replay that is broken off.                          *)
LEMMA ForgetKept ==
  ASSUME Copied, mine' = [j \in Jobs |-> 0], UNCHANGED <<view, place, copies, theirs>>, raced \subseteq raced',
         view.replays = "copies" => \A j \in Jobs : mine[j] = 0 \/ j \in raced'
  PROVE  Copied'
<1>1. ASSUME NEW i \in Jobs PROVE Letter(i)'
  <2>1. Letter(i)
    BY DEF Copied
  <2>2. PICK P, c, n, o : P = place[i] /\ c = copies[i] /\ n = mine[i] /\ o = theirs[i]
    OBVIOUS
  <2>3. Sound(P, c, n, o) /\ (i \notin raced' => Lone(P, c, n, o)) /\ ("retried" \in P => Marked(P))
    BY <2>1, <2>2 DEF Letter
  <2>4. Sound(P, c, 0, o)
    BY <2>3, Dropped
  <2>5. i \notin raced' => (view.replays = "copies" => n = 0)
    BY <2>2
  <2>6. i \notin raced' => Lone(P, c, 0, o)
    BY <2>3, <2>5, Dropped
  <2>7. mine'[i] = 0
    OBVIOUS
  <2> QED BY <2>2, <2>3, <2>4, <2>6, <2>7, LetterNew
<1>2. mine' \in [Jobs -> Nat]
  OBVIOUS
<1> QED BY <1>1, <1>2 DEF Copied

LEMMA ReceiveKept ==
  ASSUME Copied, NEW r, Receive(r), view.replays = "copies" => \A j \in Jobs : mine[j] = 0
  PROVE  Copied' /\ (\A j \in Jobs : mine'[j] = 0) /\ UNCHANGED <<view, place, copies>>
<1>1. mine' = [j \in Jobs |-> 0] /\ UNCHANGED <<view, place, copies, theirs, raced>>
  BY DEF Receive
<1> QED BY <1>1, ForgetKept

LEMMA CliBegin == Init => CliInv
<1> SUFFICES ASSUME Init PROVE CliInv
  OBVIOUS
<1>1. CliInit /\ DashInit
  BY DEF Init
<1>2. stage = "idle" /\ listed = <<>> /\ retried = 0 /\ limit \in Nat /\ answer = 200 /\ \A j \in Jobs : mine[j] = 0
  <2>1. Cardinality(Jobs) \in Nat
    BY DashboardConstantsOK, FS_CardinalityType
  <2> QED BY <1>1, <2>1 DEF CliInit, DashInit
<1>3. ASSUME scene = "cli" PROVE Copied
  <2>1. place \in [Jobs -> {h[1] : h \in Hops} \cup {{"dead", "retried"}}]
    BY <1>1 DEF DashInit
  <2>2. \A j \in Jobs : place[j] \in {{}, {"active"}, {"dead"}, {"dead", "retried"}}
    BY <1>1, <1>3 DEF DashInit
  <2>3. \A P \in {{}, {"active"}, {"dead"}, {"dead", "retried"}} :
          P \in Places /\ ("retried" \in P <=> Marked(P))
    BY DEF Places, Listings, Marked
  <2>4. /\ copies = [j \in Jobs |-> IF "retried" \in place[j] THEN 1 ELSE 0]
        /\ mine = [j \in Jobs |-> 0] /\ theirs = [j \in Jobs |-> 0]
    BY <1>1 DEF DashInit
  <2>5. place \in [Jobs -> Places]
    BY <2>1, <2>2, <2>3
  <2>6. view.replays \in Ways
    BY <1>1, RequestsOK DEF DashInit, Ways
  <2>7. ASSUME NEW j \in Jobs PROVE Letter(j)
    <3>1. PICK P, c : P = place[j] /\ c = copies[j]
      OBVIOUS
    <3>2. ("retried" \in P <=> Marked(P)) /\ c = (IF Marked(P) THEN 1 ELSE 0)
      BY <2>2, <2>3, <2>4, <3>1
    <3>3. Sound(P, c, 0, 0)
      BY <3>2 DEF Sound
    <3>4. Lone(P, c, 0, 0)
      BY <3>2 DEF Lone
    <3> QED BY <2>4, <3>1, <3>2, <3>3, <3>4 DEF Letter
  <2> QED BY <2>4, <2>5, <2>6, <2>7 DEF Copied
<1> QED BY <1>2, <1>3 DEF CliInv, Command1

(* The scene of the command, and the replay it asks for.                    *)
LEMMA CliFrame ==
  ASSUME [Next]_vars
  PROVE  /\ scene' = scene
         /\ scene # "cli" => stage' = stage
         /\ scene = "cli" => \/ UNCHANGED <<dashVars, cliVars>>
                             \/ Respond /\ UNCHANGED cliVars
                             \/ Rejected /\ UNCHANGED cliVars
                             \/ GivesUp /\ UNCHANGED cliVars
                             \/ (\E j \in Jobs : Hop(j) \/ OtherReplays(j) \/ OtherGivesUp(j)) /\ UNCHANGED cliVars
                             \/ CliNext
<1>1. CASE UNCHANGED vars
  BY <1>1 DEF vars, cliVars
<1>2. CASE Arrive \/ Deadline
  BY <1>2 DEF Arrive, Deadline, Elsewhere, cliVars
<1>3. CASE Serve \/ Fail
  BY <1>3 DEF Serve, Fail, Elsewhere, cliVars
<1>4. CASE Meanwhile
  BY <1>4 DEF Meanwhile, Elsewhere, cliVars
<1>5. CASE Command
  BY <1>5 DEF Command
<1>6. CASE Live \/ Page
  BY <1>6 DEF Live, Page, cliVars
<1> QED BY <1>1, <1>2, <1>3, <1>4, <1>5, <1>6 DEF Next

LEMMA ListResponds ==
  ASSUME Lists, answer = 0, Respond, UNCHANGED <<listed, retried>>
  PROVE  Lists' /\ UNCHANGED <<place, copies, view, mine, theirs, raced>>
<1>1. req = Listing /\ pos = 3 /\ pending = {"dead"} /\ Step = Reads({"dead"})
  BY ListSteps DEF Lists, Step
<1>2. ~Called
  BY <1>1 DEF Called, Reads
<1>3. Answered("dead")
  BY <1>1, <1>2 DEF Respond
<1>4. /\ Run(Listing, 3, seen \cup Reply("dead", req), did)
      /\ UNCHANGED <<place, copies, view, req, still, mine, theirs, raced>>
  BY <1>1, <1>3 DEF Answered
<1>5. answer' = 200 /\ seen' = seen \cup Reply("dead", req)
  BY <1>1, <1>4, ListAnswered
<1>6. ASSUME NEW j \in Jobs, <<"dead", j>> \in still, OnPage(req) PROVE <<"dead", j>> \in Reply("dead", req)
  <2>1. Stands("dead", j)
    BY <1>6 DEF Lists, Stands
  <2>2. req.name \in {NoName, Home} /\ ~Silent("dead", req)
    BY <1>1 DEF Silent, Listing, Asks
  <2> QED BY <1>6, <2>1, <2>2 DEF Reply, Shows
<1>7. OnPage(req)' = OnPage(req)
  BY <1>4 DEF OnPage
<1> QED BY <1>1, <1>4, <1>5, <1>6, <1>7 DEF Lists

(* While the list is awaited, the jobs move.                                *)
LEMMA ListWaits ==
  ASSUME Lists, answer = 0, UNCHANGED <<req, pos, pending, seen, answer, mine, listed, retried>>,
         Remains \/ UNCHANGED <<place, still>>
  PROVE  Lists'
<1>1. \A i \in Jobs : <<"dead", i>> \in still' => "dead" \in place'[i]
  <2> SUFFICES ASSUME NEW i \in Jobs, <<"dead", i>> \in still' PROVE "dead" \in place'[i]
    OBVIOUS
  <2>1. CASE Remains
    <3>1. Stands("dead", i)'
      BY <2>1 DEF Remains
    <3> QED BY <3>1 DEF Stands
  <2>2. CASE UNCHANGED <<place, still>>
    BY <2>2 DEF Lists
  <2> QED BY <2>1, <2>2
<1> QED BY <1>1 DEF Lists

LEMMA RetryStep ==
  ASSUME listed \in Seq(Jobs), retried \in Nat, Retries, answer = 0, NEW j, j = listed[retried + 1]
  PROVE  j \in Jobs /\ req = Asks("retryDlq", j) /\ pos = 4 /\ Calls("retry") /\ req.id = j /\ Exists
<1>1. j \in Jobs /\ req = Asks("retryDlq", j) /\ pos = 4
  BY DEF Retries
<1>2. Step = Call("retry")
  BY <1>1, RetrySteps DEF Step
<1>3. Calls("retry")
  BY <1>2 DEF Calls, Call
<1>4. req.id = j /\ Exists
  BY <1>1 DEF Asks, Here, Exists
<1> QED BY <1>1, <1>3, <1>4

(* What ends a call of the store: its answer, or an error.                  *)
LEMMA RetryReturns ==
  ASSUME NEW j, req = Asks("retryDlq", j), pos = 4, Calls("retry"), NEW ok \in BOOLEAN, Returns(ok)
  PROVE  answer' = (IF ok THEN 202 ELSE 404) \/ (answer' = 500 /\ view.replays # "copies")
<1>1. CASE Run(req, pos, seen, ok)
  <2>1. Run(req, 4, seen, ok)
    BY <1>1
  <2> QED BY <2>1, RetryServed
<1>2. CASE Fails
  BY <1>2 DEF Fails
<1> QED BY <1>1, <1>2 DEF Returns

LEMMA RetryResponds ==
  ASSUME Copied, listed \in Seq(Jobs), retried \in Nat, Retries, answer = 0, Respond, UNCHANGED <<listed, retried>>
  PROVE  Copied' /\ Retries' /\ view' = view /\ \A i \in Jobs : copies'[i] >= copies[i]
<1>1. PICK j : j = listed[retried + 1]
  OBVIOUS
<1>2. j \in Jobs /\ req = Asks("retryDlq", j) /\ pos = 4 /\ Calls("retry") /\ req.id = j /\ Exists
  BY <1>1, RetryStep
<1>3. Called
  BY <1>2 DEF Respond, Answered, Calls
<1>4. UNCHANGED <<view, req, theirs>>
  BY <1>3 DEF Called
<1>5. CallRetry
  BY <1>2, <1>3 DEF Called, Calls, CallPromote, CallRemove, CallRetryBatch, CallClean, CallDrain, CallUnschedule,
                    CallClear
<1>6. retried < Len(listed) /\ \A i \in Jobs : mine[i] # 0 => i = j
  BY <1>1 DEF Retries
<1>7. req' = Asks("retryDlq", listed'[retried' + 1]) /\ retried' < Len(listed') /\ listed'[retried' + 1] = j
  BY <1>1, <1>2, <1>4, <1>6
<1>8. CASE mine[j] > 0 \/ Replayable(place[j])
  <2>1. TakesUp(j) /\ (IF Further(mine[j]) = 0 THEN Returns(TRUE) ELSE Goes)
    BY <1>2, <1>5, <1>8 DEF CallRetry
  <2>2. /\ Copied' /\ \A i \in Jobs : copies'[i] >= copies[i]
        /\ Further(mine[j]) = 0 => copies'[j] >= 1
        /\ mine'[j] = Further(mine[j]) /\ \A i \in Jobs : i # j => mine'[i] = mine[i]
    BY <1>2, <1>4, <2>1, TakesUpKept
  <2>3. CASE Further(mine[j]) = 0
    <3>1. answer' = 202 \/ (answer' = 500 /\ view.replays # "copies")
      BY <1>2, <2>1, <2>3, RetryReturns
    <3>2. \A i \in Jobs : mine'[i] = 0
      BY <1>6, <2>2, <2>3
    <3>3. copies'[j] >= 1
      BY <2>2, <2>3
    <3> QED BY <1>4, <1>7, <2>2, <3>1, <3>2, <3>3 DEF Retries
  <2>4. CASE Further(mine[j]) # 0
    <3>1. answer' = 0 /\ pos' = 4
      BY <1>2, <2>1, <2>4 DEF Goes
    <3>2. \A i \in Jobs : mine'[i] # 0 => i = j
      BY <1>6, <2>2
    <3> QED BY <1>4, <1>7, <2>2, <3>1, <3>2 DEF Retries
  <2> QED BY <2>3, <2>4
<1>9. CASE ~(mine[j] > 0 \/ Replayable(place[j]))
  <2>1. Returns(FALSE) /\ UNCHANGED <<place, copies, mine, raced>>
    BY <1>2, <1>5, <1>9 DEF CallRetry
  <2>2. answer' = 404 \/ (answer' = 500 /\ view.replays # "copies")
    BY <1>2, <2>1, RetryReturns
  <2>3. Gone(j)'
    BY <1>9, <2>1 DEF Replayable, Gone
  <2>4. mine[j] = 0
    BY <1>2, <1>9 DEF Copied
  <2>5. \A i \in Jobs : mine'[i] = 0
    BY <1>6, <2>1, <2>4
  <2>6. Copied'
    <3>1. ASSUME NEW i \in Jobs PROVE Letter(i)'
      <4>1. Letter(i)
        BY DEF Copied
      <4> QED BY <1>4, <2>1, <4>1, LetterSame
    <3> QED BY <1>4, <2>1, <3>1 DEF Copied
  <2>7. \A i \in Jobs : copies'[i] >= copies[i]
    BY <2>1 DEF Copied
  <2>8. Retries'
    BY <1>7, <2>2, <2>3, <2>5 DEF Retries
  <2> QED BY <1>4, <2>6, <2>7, <2>8
<1> QED BY <1>8, <1>9

(* The replay is rejected, or the file store gives it up.                   *)
LEMMA RetryFails ==
  ASSUME Copied, listed \in Seq(Jobs), retried \in Nat, Retries, answer = 0, Rejected, UNCHANGED <<listed, retried>>
  PROVE  Retries' /\ view' = view
<1>1. PICK j : j = listed[retried + 1]
  OBVIOUS
<1>2. j \in Jobs /\ Calls("retry")
  BY <1>1, RetryStep
<1>3. answer' = 500 /\ view.replays # "copies" /\ UNCHANGED <<view, req, mine>>
  BY <1>2 DEF Rejected, Fails
<1> QED BY <1>3 DEF Retries

LEMMA RetryGivesUp ==
  ASSUME Copied, listed \in Seq(Jobs), retried \in Nat, Retries, answer = 0, GivesUp, UNCHANGED <<listed, retried>>
  PROVE  Copied' /\ Retries' /\ UNCHANGED <<view, copies>>
<1>1. PICK j : j = listed[retried + 1]
  OBVIOUS
<1>2. j \in Jobs /\ req = Asks("retryDlq", j) /\ pos = 4 /\ Calls("retry")
  BY <1>1, RetryStep
<1>3. Run(req, 4, seen, FALSE) /\ view.replays = "copies"
  BY <1>2 DEF GivesUp, Calls
<1>4. answer' = 404
  BY <1>2, <1>3, RetryServed
<1>5. /\ mine' = [i \in Jobs |-> 0] /\ raced' = raced \cup {i \in Jobs : mine[i] > 0}
      /\ UNCHANGED <<place, copies, view, req, theirs>>
  BY DEF GivesUp
<1>6. \A i \in Jobs : mine[i] = 0 \/ i \in raced'
  <2> SUFFICES ASSUME NEW i \in Jobs, mine[i] # 0 PROVE mine[i] > 0
    BY <1>5
  <2>1. mine[i] \in Nat
    BY DEF Copied
  <2> QED BY <2>1
<1>7. Copied'
  BY <1>5, <1>6, ForgetKept
<1>8. \A i \in Jobs : mine'[i] = 0
  BY <1>5
<1>9. Retries'
  BY <1>3, <1>4, <1>5, <1>8 DEF Retries
<1> QED BY <1>5, <1>7, <1>9

LEMMA ListCut ==
  ASSUME Command1, Lists, stage = "listing", ListArrives, FetchOk(answer)
  PROVE  listed' \in Seq(Jobs) /\ (Len(listed') < limit => dead' \subseteq ToSet(listed'))
<1>1. answer = 200 /\ req = Listing
  BY DEF FetchOk, Lists
<1>2. IsFiniteSet(InList)
  BY DashboardConstantsOK, FS_Subset DEF InList
<1>3. PICK S \in SUBSET InList : Cardinality(S) = Min({limit, Cardinality(InList)}) /\ listed' \in SetToSeqs(S)
  BY DEF ListArrives
<1>4. listed' \in Seq(S) /\ (Len(listed') < limit => InList \subseteq ToSet(listed'))
  <2>1. PICK lim \in Nat : lim = limit
    BY DEF Command1
  <2>2. PICK s : s = listed'
    OBVIOUS
  <2> QED BY <1>2, <1>3, <2>1, <2>2, Cut
<1>5. S \subseteq Jobs
  BY DEF InList
<1>6. dead' \subseteq InList
  <2> SUFFICES ASSUME NEW j \in Jobs, <<"dead", j>> \in still, OnPage(req) PROVE j \in InList
    BY DEF ListArrives
  <2>1. <<"dead", j>> \in seen
    BY <1>1 DEF Lists
  <2>2. req.route # "jobs" /\ Home \in req.allowed
    BY <1>1, DashboardConstantsOK DEF Listing, Asks
  <2>3. <<"dead", j>> \in Entries(j)
    BY <2>1, <2>2 DEF Entries
  <2> QED BY <2>3 DEF InList
<1> QED BY <1>4, <1>5, <1>6, SeqMonotonic

LEMMA CopiedSame ==
  ASSUME Copied, UNCHANGED <<view, place, copies, mine, theirs, raced>>
  PROVE  Copied'
<1>1. ASSUME NEW i \in Jobs PROVE Letter(i)'
  <2>1. Letter(i)
    BY DEF Copied
  <2> QED BY <2>1, LetterSame
<1> QED BY <1>1 DEF Copied

(* The command itself while it waits for an answer.                         *)
LEMMA CommandWaits ==
  ASSUME Copied, Command1, UNCHANGED <<cliVars, view>>, answer = 0, \A i \in Jobs : copies'[i] >= copies[i],
         copies' \in [Jobs -> Nat]
  PROVE  Command1' /\ stage \in {"listing", "retrying"}
<1>1. UNCHANGED <<stage, limit, listed, retried, runs, dead>>
  BY DEF cliVars
<1>2. stage \in {"listing", "retrying"}
  BY DEF Command1
<1>3. \A i \in 1..retried' : copies'[listed'[i]] >= 1
  <2> SUFFICES ASSUME NEW i \in 1..retried PROVE copies'[listed[i]] >= 1
    BY <1>1
  <2>1. PICK j \in Jobs : j = listed[i]
    BY DEF Command1
  <2>2. copies[j] >= 1 /\ copies[j] \in Nat /\ copies'[j] \in Nat
    BY <2>1 DEF Command1, Copied
  <2> QED BY <2>1, <2>2
<1> QED BY <1>1, <1>2, <1>3 DEF Command1

LEMMA CliStep == CliInv /\ [Next]_vars => CliInv'
<1> SUFFICES ASSUME CliInv, [Next]_vars PROVE CliInv'
  OBVIOUS
<1>1. CASE scene # "cli"
  BY <1>1, CliFrame DEF CliInv
<1>2. CASE scene = "cli"
  <2>1. Copied /\ Command1 /\ scene' = "cli"
    BY <1>2, CliFrame DEF CliInv
  <2>2. /\ stage = "listing" => Lists
        /\ stage = "retrying" => Retries
        /\ stage = "failed" => answer = 500 \/ view.replays = "copies" \/ Gone(listed[retried + 1])
    BY <1>2 DEF CliInv
  <2>3. copies \in [Jobs -> Nat] /\ mine \in [Jobs -> Nat] /\ listed \in Seq(Jobs) /\ retried \in Nat
    BY <2>1 DEF Copied, Command1
  <2>4. CASE UNCHANGED <<dashVars, cliVars>>
    <3>1. UNCHANGED <<place, copies, req, pos, pending, seen, answer, still, view, mine, theirs, raced>>
      BY <2>4 DEF dashVars, systemVars, requestVars
    <3>2. UNCHANGED <<stage, limit, listed, retried, runs, dead>>
      BY <2>4 DEF cliVars
    <3>3. Copied'
      BY <2>1, <3>1, CopiedSame
    <3>4. Command1'
      BY <2>1, <3>1, <3>2 DEF Command1
    <3>5. Lists' = Lists
      BY <3>1, <3>2 DEF Lists, OnPage
    <3>6. Retries' = Retries
      BY <3>1, <3>2 DEF Retries, Gone
    <3>7. Gone(listed[retried + 1])' = Gone(listed[retried + 1])
      BY <3>1, <3>2 DEF Gone
    <3> QED BY <2>1, <2>2, <3>1, <3>2, <3>3, <3>4, <3>5, <3>6, <3>7 DEF CliInv
  <2>5. CASE Respond /\ UNCHANGED cliVars
    <3>1. UNCHANGED <<stage, limit, listed, retried, runs, dead>>
      BY <2>5 DEF cliVars
    <3>2. answer = 0 /\ view' = view
      BY <2>5 DEF Respond, Called, Answered
    <3>3. CASE stage = "listing"
      <4>1. Lists' /\ UNCHANGED <<place, copies, view, mine, theirs, raced>>
        BY <2>2, <2>5, <3>1, <3>2, <3>3, ListResponds
      <4>2. Copied'
        BY <2>1, <4>1, CopiedSame
      <4>3. Command1'
        BY <2>1, <2>3, <2>5, <3>2, <4>1, CommandWaits
      <4> QED BY <2>1, <3>1, <3>3, <4>1, <4>2, <4>3 DEF CliInv
    <3>4. CASE stage = "retrying"
      <4>1. Copied' /\ Retries' /\ \A i \in Jobs : copies'[i] >= copies[i]
        BY <2>1, <2>2, <2>3, <2>5, <3>1, <3>2, <3>4, RetryResponds
      <4>2. copies' \in [Jobs -> Nat]
        BY <4>1 DEF Copied
      <4>3. Command1'
        BY <2>1, <2>5, <3>2, <4>1, <4>2, CommandWaits
      <4> QED BY <2>1, <3>1, <3>4, <4>1, <4>3 DEF CliInv
    <3>5. CASE stage \notin {"listing", "retrying"}
      BY <2>1, <3>2, <3>5 DEF Command1
    <3> QED BY <3>3, <3>4, <3>5
  <2>6. CASE Rejected /\ UNCHANGED cliVars
    <3>1. UNCHANGED <<stage, limit, listed, retried, runs, dead>>
      BY <2>6 DEF cliVars
    <3>2. answer = 0 /\ answer' = 500 /\ UNCHANGED <<place, copies, view, req, still, mine, theirs, raced>>
      BY <2>6 DEF Rejected, Fails
    <3>3. Copied'
      BY <2>1, <3>2, CopiedSame
    <3>4. Command1' /\ stage \in {"listing", "retrying"}
      BY <2>1, <2>3, <2>6, <3>2, CommandWaits
    <3>5. stage = "listing" => Lists'
      BY <2>2, <3>1, <3>2 DEF Lists
    <3>6. stage = "retrying" => Retries'
      BY <2>1, <2>2, <2>3, <2>6, <3>1, <3>2, RetryFails
    <3> QED BY <2>1, <3>1, <3>3, <3>4, <3>5, <3>6 DEF CliInv
  <2>7. CASE GivesUp /\ UNCHANGED cliVars
    <3>1. UNCHANGED <<stage, limit, listed, retried, runs, dead>>
      BY <2>7 DEF cliVars
    <3>2. answer = 0 /\ UNCHANGED <<view, copies>> /\ (Calls("retry") \/ Calls("retryBatch"))
      BY <2>7 DEF GivesUp
    <3>3. Command1' /\ stage \in {"listing", "retrying"}
      BY <2>1, <2>3, <2>7, <3>2, CommandWaits
    <3>4. stage # "listing"
      <4> SUFFICES ASSUME stage = "listing" PROVE FALSE
        OBVIOUS
      <4>1. Step = Reads({"dead"})
        BY <2>2, <3>2, ListSteps DEF Lists, Step
      <4> QED BY <3>2, <4>1 DEF Calls, Reads
    <3>5. Copied' /\ Retries'
      BY <2>1, <2>2, <2>3, <2>7, <3>1, <3>2, <3>3, <3>4, RetryGivesUp
    <3> QED BY <2>1, <3>1, <3>3, <3>4, <3>5 DEF CliInv
  <2>8. CASE (\E j \in Jobs : Hop(j) \/ OtherReplays(j) \/ OtherGivesUp(j)) /\ UNCHANGED cliVars
    <3>1. UNCHANGED <<stage, limit, listed, retried, runs, dead>>
      BY <2>8 DEF cliVars
    <3>2. PICK j \in Jobs : Hop(j) \/ OtherReplays(j) \/ OtherGivesUp(j)
      BY <2>8
    <3>3. /\ answer = 0 /\ UNCHANGED <<answer, view, req, pos, pending, seen, mine>>
          /\ Remains \/ UNCHANGED <<place, still>>
      BY <3>2 DEF Hop, OtherReplays, OtherGivesUp, systemVars, requestVars
    <3>4. Copied' /\ \A i \in Jobs : copies'[i] >= copies[i]
      <4>1. CASE Hop(j)
        <5>1. Copied' /\ copies' = copies
          BY <2>1, <4>1, HopKept DEF Hop
        <5>2. \A i \in Jobs : copies[i] \in Nat
          BY <2>3
        <5> QED BY <5>1, <5>2
      <4>2. CASE OtherReplays(j)
        BY <2>1, <4>2, OtherKept
      <4>3. CASE OtherGivesUp(j)
        BY <2>1, <2>3, <4>3, OtherGivesUpKept
      <4> QED BY <3>2, <4>1, <4>2, <4>3
    <3>5. Command1' /\ stage \in {"listing", "retrying"}
      <4>1. copies' \in [Jobs -> Nat]
        BY <3>4 DEF Copied
      <4> QED BY <2>1, <2>8, <3>3, <3>4, <4>1, CommandWaits
    <3>6. stage = "listing" => Lists'
      BY <2>2, <3>1, <3>3, ListWaits
    <3>7. stage = "retrying" => Retries'
      BY <2>2, <3>1, <3>3 DEF Retries
    <3> QED BY <2>1, <3>1, <3>4, <3>5, <3>6, <3>7 DEF CliInv
  <2>9. CASE RetryAll
    <3>1. Receive(Listing) /\ answer # 0
      BY <2>9 DEF RetryAll, Listing, Receive
    <3>2. stage' = "listing" /\ listed' = <<>> /\ retried' = 0 /\ limit' = limit /\ stage \notin {"listing", "retrying"}
      BY <2>9 DEF RetryAll
    <3>3. /\ req' = Listing /\ pos' = 3 /\ pending' = {"dead"} /\ seen' = {} /\ answer' = 0
          /\ \A j \in Jobs : <<"dead", j>> \in still' => "dead" \in place[j]
      BY <3>1, ListAsked
    <3>4. view.replays = "copies" => \A j \in Jobs : mine[j] = 0
      BY <2>1, <3>2 DEF Command1
    <3>5. Copied' /\ (\A j \in Jobs : mine'[j] = 0) /\ UNCHANGED <<view, place, copies>>
      BY <2>1, <3>1, <3>4, ReceiveKept
    <3>6. Command1'
      BY <2>1, <3>2 DEF Command1
    <3>7. Lists'
      BY <3>2, <3>3, <3>5 DEF Lists
    <3> QED BY <2>1, <3>2, <3>5, <3>6, <3>7 DEF CliInv
  <2>10. CASE ListArrives
    <3>1. UNCHANGED <<view, place, copies, mine, theirs, raced, answer, limit, retried>>
      BY <2>10 DEF ListArrives, dashVars, systemVars, requestVars
    <3>2. answer # 0 /\ stage = "listing" /\ Lists
      BY <2>2, <2>10 DEF ListArrives
    <3>3. Copied'
      BY <2>1, <3>1, CopiedSame
    <3>4. retried = 0 /\ \A j \in Jobs : mine[j] = 0
      BY <3>2 DEF Lists
    <3>5. CASE FetchOk(answer)
      <4>1. stage' = "listed" /\ listed' \in Seq(Jobs) /\ (Len(listed') < limit => dead' \subseteq ToSet(listed'))
        BY <2>1, <2>10, <3>2, <3>5, ListCut DEF ListArrives
      <4>2. Command1'
        BY <2>1, <3>1, <3>2, <3>4, <4>1 DEF Command1
      <4> QED BY <2>1, <3>3, <4>1, <4>2 DEF CliInv
    <3>6. CASE ~FetchOk(answer)
      <4>1. stage' = "failed" /\ listed' = listed /\ answer' = 500
        BY <2>10, <3>1, <3>2, <3>6 DEF ListArrives, FetchOk, Lists
      <4>2. Command1'
        BY <2>1, <3>1, <3>2, <3>4, <4>1 DEF Command1
      <4> QED BY <2>1, <3>3, <4>1, <4>2 DEF CliInv
    <3> QED BY <3>5, <3>6
  <2>11. CASE SendRetry
    <3>1. /\ stage = "listed" /\ UNCHANGED <<limit, listed, retried, runs, dead>> /\ answer # 0
          /\ view.replays = "copies" => \A j \in Jobs : mine[j] = 0
      BY <2>1, <2>11 DEF SendRetry, Command1
    <3>2. CASE retried = Len(listed)
      <4>1. stage' = "done" /\ UNCHANGED <<view, place, copies, mine, theirs, raced, answer>>
        BY <2>11, <3>2 DEF SendRetry, dashVars, systemVars, requestVars
      <4>2. Copied'
        BY <2>1, <4>1, CopiedSame
      <4>3. Command1'
        BY <2>1, <3>1, <3>2, <4>1 DEF Command1
      <4> QED BY <2>1, <4>1, <4>2, <4>3 DEF CliInv
    <3>3. CASE retried # Len(listed)
      <4>1. stage' = "retrying" /\ Receive(Asks("retryDlq", listed[retried + 1]))
        BY <2>11, <3>3 DEF SendRetry
      <4>2. retried < Len(listed)
        BY <2>1, <3>3 DEF Command1
      <4>3. PICK j \in Jobs : j = listed[retried + 1]
        BY <2>1, <4>2 DEF Command1
      <4>4. req' = Asks("retryDlq", j) /\ pos' = 4 /\ answer' = 0
        BY <4>1, <4>3, RetryAsked
      <4>5. Copied' /\ (\A i \in Jobs : mine'[i] = 0) /\ UNCHANGED <<view, place, copies>>
        BY <2>1, <3>1, <4>1, ReceiveKept
      <4>6. Command1'
        BY <2>1, <3>1, <4>1, <4>5 DEF Command1
      <4>7. Retries'
        BY <3>1, <4>2, <4>3, <4>4, <4>5 DEF Retries
      <4> QED BY <2>1, <4>1, <4>5, <4>6, <4>7 DEF CliInv
    <3> QED BY <3>2, <3>3
  <2>12. CASE RetryAnswered
    <3>1. stage = "retrying" /\ answer # 0 /\ Retries
      BY <2>2, <2>12 DEF RetryAnswered
    <3>2. UNCHANGED <<view, place, copies, mine, theirs, raced, answer, limit, listed, dead>>
      BY <2>12 DEF RetryAnswered, dashVars, systemVars, requestVars
    <3>3. Copied'
      BY <2>1, <3>2, CopiedSame
    <3>4. view.replays = "copies" => \A j \in Jobs : mine[j] = 0
      BY <3>1 DEF Retries
    <3>5. CASE FetchOk(answer)
      <4>1. stage' = "listed" /\ retried' = retried + 1 /\ copies[listed[retried + 1]] >= 1
        BY <2>12, <3>1, <3>5 DEF RetryAnswered, FetchOk, Retries
      <4>2. retried < Len(listed)
        BY <3>1 DEF Retries
      <4>3. \A i \in 1..(retried + 1) : copies[listed[i]] >= 1
        BY <2>1, <4>1 DEF Command1
      <4>4. Command1'
        BY <2>1, <3>1, <3>2, <3>4, <4>1, <4>2, <4>3 DEF Command1
      <4> QED BY <2>1, <3>3, <4>1, <4>4 DEF CliInv
    <3>6. CASE ~FetchOk(answer)
      <4>1. stage' = "failed" /\ retried' = retried
        BY <2>12, <3>6 DEF RetryAnswered
      <4>2. answer = 500 \/ view.replays = "copies" \/ Gone(listed[retried + 1])
        BY <3>1, <3>6 DEF FetchOk, Retries
      <4>3. Command1'
        BY <2>1, <3>1, <3>2, <3>4, <4>1 DEF Command1
      <4>4. (answer = 500 \/ view.replays = "copies" \/ Gone(listed[retried + 1]))'
        BY <3>2, <4>1, <4>2 DEF Gone
      <4> QED BY <2>1, <3>3, <4>1, <4>3, <4>4 DEF CliInv
    <3> QED BY <3>5, <3>6
  <2> QED BY <1>2, <2>4, <2>5, <2>6, <2>7, <2>8, <2>9, <2>10, <2>11, <2>12, CliFrame DEF CliNext
<1> QED BY <1>1, <1>2

(* When the command reports success, every letter it listed has been        *)
(* replayed, for any number of jobs and any limit, whatever moves, is       *)
(* replayed or rejected meanwhile; a second copy exists only where replays  *)
(* do not exclude each other, and only of a letter whose replays met or     *)
(* were broken off; short of the limit those are all that stayed; and it    *)
(* fails only at an error or at a letter that was gone, which the file      *)
(* store does not tell apart (queue.ts:612, redis-store.ts:671).            *)
THEOREM RetryAllHolds == Spec => []RetryAllTrue
<1>1. CliInv => RetryAllTrue
  <2> SUFFICES ASSUME CliInv, stage # "idle" PROVE RetryAllTrue
    BY DEF RetryAllTrue
  <2>1. scene = "cli" /\ Copied /\ Command1
    BY DEF CliInv
  <2>2. DOMAIN listed = 1..Len(listed)
    BY <2>1 DEF Command1
  <2>3. ASSUME stage = "done", NEW i \in DOMAIN listed
        PROVE  /\ copies[listed[i]] >= 1
               /\ copies[listed[i]] > 1 => view.replays \in {"asks", "copies"} /\ listed[i] \in raced
    <3>1. PICK j \in Jobs : j = listed[i]
      BY <2>1, <2>2 DEF Command1
    <3>2. copies[j] >= 1
      BY <2>1, <2>2, <2>3, <3>1 DEF Command1
    <3>3. PICK P, c, n, o : P = place[j] /\ c = copies[j] /\ n = mine[j] /\ o = theirs[j]
      OBVIOUS
    <3>4. view.replays \in Ways /\ Sound(P, c, n, o) /\ (j \notin raced => Lone(P, c, n, o))
      BY <2>1, <3>3 DEF Copied, Letter
    <3>5. c > 1 => view.replays \notin {"whole", "marks"}
      BY <3>4 DEF Sound
    <3>6. c > 1 /\ view.replays \in {"asks", "copies"} => ~Lone(P, c, n, o)
      BY <3>4 DEF Sound, Lone
    <3> QED BY <3>1, <3>2, <3>3, <3>4, <3>5, <3>6 DEF Ways
  <2>4. stage = "done" => (Len(listed) < limit => dead \subseteq ToSet(listed))
    BY <2>1 DEF Command1
  <2>5. stage = "failed" => answer = 500 \/ view.replays = "copies" \/ Gone(listed[retried + 1])
    BY <2>1 DEF CliInv
  <2> QED BY <2>3, <2>4, <2>5 DEF RetryAllTrue, Gone
<1> QED BY <1>1, CliBegin, CliStep, PTL DEF Spec
=============================================================================
