---------------------------- MODULE ClientProofs ----------------------------
(***************************************************************************)
(* What the shared adapters guarantee for any number of jobs, clients,     *)
(* calls and crashes.                                                      *)
(***************************************************************************)
EXTENDS StoreClients, FiniteSetTheorems, SequenceTheorems, TLAPS

Changes == [id : Ids, need : SUBSET Places, some : SUBSET Places, bar : SUBSET Places,
            del : SUBSET Places, add : SUBSET Places,
            lease : {"keep", "renew", "lapse"},
            mark : {"none", "granted", "accepted", "acked", "removed"}, of : Ids \cup {NoId}]
Transactions == {T \in SUBSET Changes : \A c, d \in T : c.id = d.id => c = d}
Programs == Seq(Transactions)

Indexed == {"postgres", "mysql", "mongodb"}
Servers == {"postgres", "mysql", "mongodb", "dynamodb", "redis"}

(* Where a job waits to be leased; what makes a job of a table live; what   *)
(* shows that a job was not lost; who may share a job.                      *)
Waiting  == IF kind = "redis" THEN {"ready"} ELSE {"queued"}
Alive    == IF kind = "dynamodb" THEN {"queued", "leased"} ELSE Row
Evidence == {"queued", "leased", "completed", "dead", "done"}

(* A change that may still be on its way.                                   *)
Mild(c) ==
  /\ c.mark \in {"none", "accepted", "removed"} /\ c.lease # "lapse"
  /\ c.mark = "removed" => c.add = {}
  /\ c.mark = "none" /\ c.id \notin accepted => c.add \subseteq {"record", "delay"}
  /\ c.mark = "none" /\ c.add \cap Alive # {} /\ kind \in Tables => c.some # {} /\ c.some \subseteq Alive
  /\ kind = "postgres" => c.add = {}
  /\ kind \in Transactional => c.mark # "accepted" /\ c.add \cap DeadLetter = {}
  /\ kind \in Indexed /\ c.mark = "accepted" => c.id \notin keyed /\ c.of # NoId
  /\ c.mark = "accepted" /\ kind \in Tables => c.add \cap Evidence # {}
  /\ c.of # NoId => c.mark = "accepted"
  /\ "dead" \in c.del => c.mark = "removed"
  /\ kind \in Indexed /\ "retried" \in c.del => c.mark = "removed"

(* What takes the last evidence of a job away has left a dead letter.       *)
Strips(c)  == kind \in Tables /\ c.mark = "none" /\ c.del \cap Evidence # {} /\ c.add \cap Evidence = {}
Covered(c) == Strips(c) => "dead" \in at[c.id] \/ c.id \in removed

(* A transaction that may be carried out now, R being the jobs restored.    *)
Fits(T, R) ==
  \A c \in T :
    /\ c.lease # "lapse" /\ Covered(c)
    /\ c.mark \in {"acked", "removed"} => c.add = {}
    /\ c.mark = "acked" => c.id \in accepted /\ (kind \in Tables => Row \subseteq c.del)
    /\ c.mark = "granted" => /\ c.id \in accepted /\ c.lease = "renew"
                             /\ holders[c.id] = {} \/ (kind # "postgres" /\ c.id \in R)
                             /\ Waiting \subseteq c.del /\ c.add = {"leased"}
    /\ c.mark = "none" /\ c.add \cap Waiting # {} =>
         holders[c.id] = {} \/ (kind # "postgres" /\ c.id \in R)
    /\ c.mark = "accepted" => c.id \notin accepted /\ (kind \in Tables => c.add \cap Evidence # {})
    /\ c.mark = "none" /\ c.id \notin accepted => c.add \subseteq {"record", "delay"}
    /\ kind \in Tables /\ c.mark # "accepted" /\ c.add \cap Alive # {} => at[c.id] \cap Alive # {}
    /\ kind \in Transactional /\ "dead" \in c.add => Row \subseteq c.del /\ c.add \cap Row = {}
    /\ kind \in Indexed /\ c.mark = "accepted" /\ c.id \in keyed =>
         /\ \A j \in keyed \ {c.id} : ~HasRow(j)
         /\ \A d \in T : d.mark = "accepted" /\ d.id \in keyed => d.id = c.id
    /\ c.of # NoId => c.mark = "accepted"
    /\ "dead" \in c.del => c.mark = "removed"
    /\ kind \in Indexed /\ "retried" \in c.del => c.mark = "removed"

(* A program that may be started now; fresh are the ids drawn for it.       *)
Admits(P, fresh) ==
  /\ P \in Programs /\ P # <<>>
  /\ \A k \in 1..Len(P) : Marked(P[k], "accepted") \subseteq fresh
  /\ \A k \in 1..(Len(P) - 1) : Marked(P[k], "accepted") = {}
  /\ Commits(P[1]) => Fits(P[1], restored)
  /\ \A k \in 2..Len(P) : \A c \in P[k] :
       Mild(c) /\ (Commits(P[1]) => Covered(c) \/ (\E h \in P[1] : h.id = c.id /\ "dead" \in h.add))

Sent(P)    == UNION {P[k] : k \in 1..Len(P)}
Flight(a)  == Sent(todo[a])
Awaited(a) == Marked(Flight(a), "accepted")

TypeInv ==
  /\ kind \in Servers
  /\ at \in [Ids -> SUBSET Places] /\ source \in [Ids -> Ids \cup {NoId}]
  /\ due \subseteq Ids /\ lapsed \subseteq Ids /\ keyed \subseteq Ids /\ used \subseteq Ids
  /\ stage \in [Clients -> {"idle", "running", "recorded"}]
  /\ job \in [Clients -> Ids \cup {NoId}]
  /\ todo \in [Clients -> Programs] /\ beat \in [Ids -> Programs]
  /\ holders \in [Ids -> SUBSET Clients]
  /\ accepted \subseteq used /\ acked \subseteq accepted

(* A job that was not stored yet is nowhere but in the program that stores  *)
(* it.                                                                      *)
Unborn ==
  /\ \A i \in Ids \ accepted : /\ at[i] \subseteq {"record", "delay"} /\ source[i] = NoId
                               /\ holders[i] = {} /\ beat[i] = <<>>
  /\ \A a \in Clients : stage[a] # "idle" => job[a] \in accepted

Underway ==
  \A a \in Clients :
    /\ \A c \in Flight(a) : Mild(c) /\ Covered(c)
    /\ \A k \in 1..(Len(todo[a]) - 1) : Marked(todo[a][k], "accepted") = {}
    /\ Awaited(a) \subseteq used \ accepted
    /\ \A b \in Clients \ {a} : Awaited(a) \cap Awaited(b) = {}

Renewing ==
  \A i \in Ids : \A k \in 1..Len(beat[i]) : \A c \in beat[i][k] :
    Mild(c) /\ c.id = i /\ c.mark = "none" /\ c.add \cap Waiting = {} /\ ~Strips(c)

Exclusive ==
  \A i \in Ids : \/ holders[i] = {} \/ (kind # "postgres" /\ i \in restored)
                 \/ /\ i \notin lapsed /\ at[i] \cap Waiting = {}
                    /\ \E a \in Clients : holders[i] = {a}

Settled ==
  /\ kind \in Tables => \A i \in acked : at[i] \cap Alive = {}
  /\ kind \in Transactional => \A i \in Ids : "dead" \in at[i] => at[i] \cap Row = {}

Unique == kind \in Indexed => \A i, j \in keyed : HasRow(i) /\ HasRow(j) => i = j

Kept == kind \in Tables => \A i \in accepted : i \in acked \cup removed \/ at[i] \cap Evidence # {}

(* The copies of a dead letter that are stored or on their way.             *)
Sought(i) == {c.id : c \in {x \in UNION {Flight(a) : a \in Clients} : x.of = i}}
Copied(i) == Copies(i) \cup Sought(i)

Replayed ==
  kind \in Indexed => \A i \in Ids :
    /\ \A m, n \in Copied(i) : i \in removed \/ (m = n /\ "retried" \in at[i])
    /\ kind \in Transactional /\ "retried" \in at[i] => Copies(i) # {}

-----------------------------------------------------------------------------
(* A non-empty program is its first transaction and the rest.               *)
LEMMA HeadTail ==
  ASSUME NEW P \in Programs, P # <<>>
  PROVE  /\ Head(P) = P[1] /\ P[1] \in Transactions /\ Len(P) \in Nat \ {0}
         /\ Tail(P) \in Programs /\ Len(Tail(P)) = Len(P) - 1
         /\ \A k \in 1..Len(Tail(P)) : Tail(P)[k] = P[k + 1]
  BY DEF Programs

(* What is sent after the first transaction is sent with the program; what  *)
(* is to be accepted comes last.                                            *)
LEMMA TailSent ==
  ASSUME NEW P \in Programs, P # <<>>
  PROVE  /\ P[1] \subseteq Sent(P) /\ Sent(Tail(P)) \subseteq Sent(P)
         /\ \A c \in Sent(Tail(P)) : \E k \in 2..Len(P) : c \in P[k]
  <1>1. P[1] \subseteq Sent(P)
    BY HeadTail DEF Sent
  <1>2. ASSUME NEW c \in Sent(Tail(P))
        PROVE  \E k \in 2..Len(P) : c \in P[k]
    <2>1. PICK k \in 1..Len(Tail(P)) : c \in Tail(P)[k]
      BY <1>2 DEF Sent
    <2>2. k + 1 \in 2..Len(P) /\ c \in P[k + 1]
      BY <2>1, HeadTail
    <2> QED  BY <2>2
  <1>3. Sent(Tail(P)) \subseteq Sent(P)
    <2>1. \A k \in 2..Len(P) : k \in 1..Len(P)
      BY HeadTail
    <2> QED  BY <1>2, <2>1 DEF Sent
  <1> QED  BY <1>1, <1>2, <1>3

LEMMA NothingSent == Sent(<<>>) = {} /\ <<>> \in Programs
  BY DEF Sent, Programs

LEMMA SentTyped ==
  ASSUME NEW P \in Programs
  PROVE  Sent(P) \subseteq Changes
  BY DEF Programs, Transactions, Sent

(* A transaction changes the places of the jobs it names, each once.        *)
LEMMA Landed ==
  ASSUME NEW T \in Transactions, Perform(T), at \in [Ids -> SUBSET Places], lapsed \subseteq Ids
  PROVE  /\ \A c \in T : at'[c.id] = (at[c.id] \ c.del) \cup c.add
         /\ \A i \in Ids : (\A c \in T : c.id # i) => at'[i] = at[i]
         /\ at' \in [Ids -> SUBSET Places] /\ lapsed' \subseteq Ids
         /\ kind' = kind /\ due' = due /\ keyed' = keyed
         /\ \A i \in Ids : i \in lapsed' => i \in lapsed \/ \E c \in T : c.id = i /\ c.lease = "lapse"
         /\ \A c \in T : c.lease = "renew" => c.id \notin lapsed'
  <1>1. ASSUME NEW c \in T
        PROVE  c \in Changes /\ c.id \in Ids /\ at'[c.id] = (at[c.id] \ c.del) \cup c.add
    <2>1. c \in Changes /\ c.id \in Ids
      BY DEF Transactions, Changes
    <2>2. (CHOOSE d \in T : d.id = c.id) = c
      BY DEF Transactions
    <2> QED  BY <2>1, <2>2 DEF Perform
  <1>2. \A i \in Ids : (\A c \in T : c.id # i) => at'[i] = at[i]
    BY DEF Perform
  <1>3. \A i \in Ids : at'[i] \subseteq Places
    <2> SUFFICES ASSUME NEW i \in Ids PROVE at'[i] \subseteq Places  OBVIOUS
    <2>1. CASE \E c \in T : c.id = i
      <3>1. PICK c \in T : c.id = i  BY <2>1
      <3>2. c.add \subseteq Places  BY <1>1 DEF Changes
      <3> QED  BY <1>1, <3>1, <3>2
    <2>2. CASE \A c \in T : c.id # i
      BY <1>2, <2>2
    <2> QED  BY <2>1, <2>2
  <1>4. at' \in [Ids -> SUBSET Places]
    BY <1>3 DEF Perform
  <1>5. lapsed' \subseteq Ids
    BY <1>1 DEF Perform
  <1>6. \A i \in Ids : i \in lapsed' => i \in lapsed \/ \E c \in T : c.id = i /\ c.lease = "lapse"
    BY DEF Perform
  <1>7. ASSUME NEW c \in T, c.lease = "renew"  PROVE c.id \notin lapsed'
    <2>1. \A d \in T : d.id = c.id => d = c  BY DEF Transactions
    <2> QED  BY <1>7, <2>1 DEF Perform
  <1> QED  BY <1>1, <1>2, <1>4, <1>5, <1>6, <1>7 DEF Perform

(* A transaction that is carried out, with what the history makes of it.    *)
Lands(T) ==
  /\ Commits(T) /\ Perform(T) /\ Note(T)
  /\ restored \subseteq restored' /\ Fits(T, restored')

(* What it does to the holders when client a carries it out.                *)
Holds(T, a) ==
  /\ holders' \in [Ids -> SUBSET Clients]
  /\ \A i \in Ids : \/ holders'[i] \subseteq holders[i]
                    \/ /\ holders'[i] \subseteq holders[i] \cup {a}
                       /\ \E c \in T : c.id = i /\ c.mark = "granted"

LEMMA Marks ==
  ASSUME NEW T \in Transactions, Note(T), source \in [Ids -> Ids \cup {NoId}]
  PROVE  /\ \A i : i \in accepted' <=> i \in accepted \/ \E c \in T : c.id = i /\ c.mark = "accepted"
         /\ \A i : i \in acked' <=> i \in acked \/ \E c \in T : c.id = i /\ c.mark = "acked"
         /\ \A i : i \in removed' <=> i \in removed \/ \E c \in T : c.id = i /\ c.mark = "removed"
         /\ source' \in [Ids -> Ids \cup {NoId}]
         /\ \A c \in T : c.of # NoId => source'[c.id] = c.of
         /\ \A i \in Ids : (\A c \in T : c.id = i => c.of = NoId) => source'[i] = source[i]
  <1>1. /\ \A i : i \in accepted' <=> i \in accepted \/ \E c \in T : c.id = i /\ c.mark = "accepted"
        /\ \A i : i \in acked' <=> i \in acked \/ \E c \in T : c.id = i /\ c.mark = "acked"
        /\ \A i : i \in removed' <=> i \in removed \/ \E c \in T : c.id = i /\ c.mark = "removed"
    BY DEF Note, Marked
  <1>2. ASSUME NEW c \in T, c.of # NoId
        PROVE  source'[c.id] = c.of
    <2>1. c.id \in Ids  BY DEF Transactions, Changes
    <2>2. (CHOOSE d \in T : d.id = c.id) = c  BY DEF Transactions
    <2> QED  BY <1>2, <2>1, <2>2 DEF Note
  <1>3. \A i \in Ids : (\A c \in T : c.id = i => c.of = NoId) => source'[i] = source[i]
    BY DEF Note
  <1>4. \A i \in Ids : source'[i] \in Ids \cup {NoId}
    <2> SUFFICES ASSUME NEW i \in Ids PROVE source'[i] \in Ids \cup {NoId}  OBVIOUS
    <2>1. CASE \E c \in T : c.id = i /\ c.of # NoId
      <3>1. PICK c \in T : c.id = i /\ c.of # NoId  BY <2>1
      <3>2. c.of \in Ids \cup {NoId}  BY DEF Transactions, Changes
      <3> QED  BY <3>1, <3>2, <1>2
    <2>2. CASE \A c \in T : c.id = i => c.of = NoId
      BY <2>2, <1>3
    <2> QED  BY <2>1, <2>2
  <1>5. source' \in [Ids -> Ids \cup {NoId}]
    BY <1>4 DEF Note
  <1> QED  BY <1>1, <1>2, <1>3, <1>5

(* A dead letter goes only when an operator removes it.                     *)
LEMMA DeadStays ==
  ASSUME TypeInv, NEW T \in Transactions, Lands(T),
         NEW i \in Ids, "dead" \in at[i] \/ i \in removed
  PROVE  "dead" \in at'[i] \/ i \in removed'
  <1>1. CASE i \in removed
    BY <1>1, Marks DEF Lands, TypeInv
  <1>2. CASE "dead" \in at[i] /\ \A c \in T : c.id # i
    BY <1>2, Landed DEF Lands, TypeInv
  <1>3. CASE "dead" \in at[i] /\ \E c \in T : c.id = i
    <2>1. PICK c \in T : c.id = i  BY <1>3
    <2>2. CASE c.mark = "removed"
      BY <2>1, <2>2, Marks DEF Lands, TypeInv
    <2>3. CASE c.mark # "removed"
      <3>1. "dead" \notin c.del  BY <2>3 DEF Lands, Fits
      <3> QED  BY <1>3, <2>1, <3>1, Landed DEF Lands, TypeInv
    <2> QED  BY <2>2, <2>3
  <1> QED  BY <1>1, <1>2, <1>3

LEMMA StrayStays ==
  ASSUME TypeInv, NEW T \in Transactions, Lands(T), NEW c \in Changes, Mild(c), Covered(c)
  PROVE  Mild(c)' /\ Covered(c)'
  <1>1. kind' = kind /\ keyed' = keyed
    BY Landed DEF Lands, TypeInv
  <1>2. accepted \subseteq accepted'
    BY Marks DEF Lands, TypeInv
  <1>3. Mild(c)'
    BY <1>1, <1>2 DEF Mild, Alive
  <1>4. c.id \in Ids
    BY DEF Changes
  <1>5. Strips(c)' => Strips(c)
    BY <1>1 DEF Strips
  <1>6. Covered(c)'
    BY <1>4, <1>5, DeadStays DEF Covered
  <1> QED  BY <1>3, <1>6

LEMMA UnbornKept ==
  ASSUME TypeInv, Unborn, NEW T \in Transactions, Lands(T), NEW a, Holds(T, a)
  PROVE  \A i \in Ids \ accepted' : /\ at'[i] \subseteq {"record", "delay"}
                                    /\ source'[i] = NoId /\ holders'[i] = {}
  <1> SUFFICES ASSUME NEW i \in Ids, i \notin accepted'
               PROVE  at'[i] \subseteq {"record", "delay"} /\ source'[i] = NoId /\ holders'[i] = {}
    OBVIOUS
  <1>1. i \notin accepted /\ \A c \in T : c.id = i => c.mark # "accepted"
    BY Marks DEF Lands, TypeInv
  <1>2. \A c \in T : c.id = i => /\ c.mark \notin {"granted", "acked"} /\ c.of = NoId
                                 /\ c.add \subseteq {"record", "delay"}
    <2> SUFFICES ASSUME NEW c \in T, c.id = i
                 PROVE  /\ c.mark \notin {"granted", "acked"} /\ c.of = NoId
                        /\ c.add \subseteq {"record", "delay"}
      OBVIOUS
    <2>1. c.mark \in {"none", "granted", "accepted", "acked", "removed"}
      BY DEF Transactions, Changes
    <2> QED  BY <1>1, <2>1 DEF Lands, Fits
  <1>3. at[i] \subseteq {"record", "delay"} /\ source[i] = NoId /\ holders[i] = {}
    BY <1>1 DEF Unborn
  <1>4. at'[i] \subseteq {"record", "delay"}
    <2>1. CASE \E c \in T : c.id = i
      <3>1. PICK c \in T : c.id = i  BY <2>1
      <3>2. at'[i] = (at[i] \ c.del) \cup c.add  BY <3>1, Landed DEF Lands, TypeInv
      <3> QED  BY <3>1, <3>2, <1>2, <1>3
    <2>2. CASE \A c \in T : c.id # i
      BY <2>2, <1>3, Landed DEF Lands, TypeInv
    <2> QED  BY <2>1, <2>2
  <1>5. source'[i] = NoId
    BY <1>2, <1>3, Marks DEF Lands, TypeInv
  <1>6. holders'[i] = {}
    BY <1>2, <1>3 DEF Holds
  <1> QED  BY <1>4, <1>5, <1>6

(* A lease is granted on what nobody holds, and nothing makes a held job    *)
(* ready but the moves that are recorded as such.                           *)
LEMMA ExclusiveKept ==
  ASSUME TypeInv, Unborn, Exclusive, NEW T \in Transactions, Lands(T), NEW a, Holds(T, a)
  PROVE  Exclusive'
  <1> SUFFICES ASSUME NEW i \in Ids, ~(kind' # "postgres" /\ i \in restored'), holders'[i] # {}
               PROVE  /\ i \notin lapsed' /\ (at[i] \cap Waiting)' = {}
                      /\ \E b \in Clients : holders'[i] = {b}
    BY DEF Exclusive
  <1>1. kind' = kind /\ Waiting' = Waiting
    BY Landed DEF Lands, TypeInv, Waiting
  <1>2. holders[i] = {} \/ /\ i \notin lapsed /\ at[i] \cap Waiting = {}
                           /\ \E b \in Clients : holders[i] = {b}
    BY <1>1 DEF Lands, Exclusive
  <1>3. i \in lapsed' => i \in lapsed
    BY Landed DEF Lands, TypeInv, Fits
  <1>4. CASE \A c \in T : c.id # i
    <2>1. at'[i] = at[i]  BY <1>4, Landed DEF Lands, TypeInv
    <2>2. holders'[i] \subseteq holders[i]  BY <1>4 DEF Holds
    <2> QED  BY <1>1, <1>2, <1>3, <2>1, <2>2
  <1>5. CASE \E c \in T : c.id = i
    <2>1. PICK c \in T : c.id = i  BY <1>5
    <2>2. at'[i] = (at[i] \ c.del) \cup c.add  BY <2>1, Landed DEF Lands, TypeInv
    <2>3. \A d \in T : d.id = i => d = c  BY <2>1 DEF Transactions
    <2>4. CASE c.mark = "granted"
      <3>1. /\ holders[i] = {} /\ Waiting \subseteq c.del /\ c.add = {"leased"} /\ c.lease = "renew"
        BY <1>1, <2>1, <2>4 DEF Lands, Fits
      <3>2. i \notin lapsed'
        BY <2>1, <3>1, Landed DEF Lands, TypeInv
      <3>3. at'[i] \cap Waiting = {}
        BY <2>2, <3>1 DEF Waiting
      <3>4. holders'[i] \subseteq {a}
        BY <3>1 DEF Holds
      <3>5. holders'[i] = {a} /\ a \in Clients
        BY <3>4 DEF Holds
      <3> QED  BY <1>1, <3>2, <3>3, <3>5
    <2>5. CASE c.mark # "granted"
      <3>1. holders'[i] \subseteq holders[i] /\ holders[i] # {}
        BY <2>3, <2>5 DEF Holds
      <3>2. i \in accepted
        BY <3>1 DEF Unborn
      <3>3. c.mark \in {"none", "accepted", "acked", "removed"}
        BY <2>5 DEF Transactions, Changes
      <3>4. c.add \cap Waiting = {}
        BY <1>1, <2>1, <3>1, <3>2, <3>3 DEF Lands, Fits
      <3> QED  BY <1>1, <1>2, <1>3, <2>2, <3>1, <3>4
    <2> QED  BY <2>4, <2>5
  <1> QED  BY <1>4, <1>5

(* What is acknowledged or a dead letter has no row that comes back.        *)
LEMMA SettledKept ==
  ASSUME TypeInv, Unborn, Settled, NEW T \in Transactions, Lands(T)
  PROVE  Settled'
  <1>1. kind' = kind /\ Alive' = Alive
    BY Landed DEF Lands, TypeInv, Alive
  <1>2. Alive \subseteq Row /\ (kind \in Transactional => Alive = Row)
    BY DEF Alive, Row, Transactional
  <1>3. Transactional \subseteq Tables
    BY DEF Transactional, Tables
  <1>4. ASSUME kind \in Tables, NEW i \in Ids, i \in acked'
        PROVE  at'[i] \cap Alive = {}
    <2>1. CASE \A c \in T : c.id # i
      <3>1. at'[i] = at[i] /\ i \in acked
        BY <1>4, <2>1, Landed, Marks DEF Lands, TypeInv
      <3> QED  BY <1>4, <3>1 DEF Settled
    <2>2. CASE \E c \in T : c.id = i
      <3>1. PICK c \in T : c.id = i  BY <2>2
      <3>2. at'[i] = (at[i] \ c.del) \cup c.add  BY <3>1, Landed DEF Lands, TypeInv
      <3>3. CASE c.mark = "acked"
        <4>1. c.add = {} /\ Row \subseteq c.del  BY <1>4, <3>3 DEF Lands, Fits
        <4> QED  BY <1>2, <3>2, <4>1
      <3>4. CASE c.mark # "acked"
        <4>1. i \in acked
          <5>1. \A d \in T : d.id = i => d = c  BY <3>1 DEF Transactions
          <5> QED  BY <1>4, <3>4, <5>1, Marks DEF Lands, TypeInv
        <4>2. at[i] \cap Alive = {} /\ i \in accepted
          BY <1>4, <4>1 DEF Settled, TypeInv
        <4>3. c.add \cap Alive = {}
          BY <1>4, <3>1, <4>2 DEF Lands, Fits
        <4> QED  BY <3>2, <4>2, <4>3
      <3> QED  BY <3>3, <3>4
    <2> QED  BY <2>1, <2>2
  <1>5. ASSUME kind \in Transactional, NEW i \in Ids, "dead" \in at'[i]
        PROVE  at'[i] \cap Row = {}
    <2>1. CASE \A c \in T : c.id # i
      BY <1>5, <2>1, Landed DEF Lands, TypeInv, Settled
    <2>2. CASE \E c \in T : c.id = i
      <3>1. PICK c \in T : c.id = i  BY <2>2
      <3>2. at'[i] = (at[i] \ c.del) \cup c.add  BY <3>1, Landed DEF Lands, TypeInv
      <3>3. CASE "dead" \in c.add
        <4>1. Row \subseteq c.del /\ c.add \cap Row = {}
          BY <1>5, <3>3 DEF Lands, Fits
        <4> QED  BY <3>2, <4>1
      <3>4. CASE "dead" \notin c.add
        <4>1. "dead" \in at[i]  BY <1>5, <3>2, <3>4
        <4>2. at[i] \cap Row = {} /\ i \in accepted
          BY <1>5, <4>1 DEF Settled, Unborn
        <4>3. c.add \cap Row = {}
          BY <1>2, <1>3, <1>5, <3>1, <4>2 DEF Lands, Fits
        <4> QED  BY <3>2, <4>2, <4>3
      <3> QED  BY <3>3, <3>4
    <2> QED  BY <2>1, <2>2
  <1>6. acked' \subseteq Ids
    <2>1. \A c \in T : c.id \in Ids  BY DEF Transactions, Changes
    <2> QED  BY <2>1, Marks DEF Lands, TypeInv
  <1> QED  BY <1>1, <1>4, <1>5, <1>6 DEF Settled

(* A row is made for the key only when there is none.                       *)
LEMMA UniqueKept ==
  ASSUME TypeInv, Unique, NEW T \in Transactions, Lands(T)
  PROVE  Unique'
  <1>1. kind' = kind /\ keyed' = keyed
    BY Landed DEF Lands, TypeInv
  <1> SUFFICES ASSUME kind \in Indexed, NEW i \in keyed, NEW j \in keyed, HasRow(i)', HasRow(j)', i # j
               PROVE  FALSE
    BY <1>1 DEF Unique
  <1>2. kind \in Tables /\ Alive = Row
    BY DEF Indexed, Tables, Alive
  <1>3. ASSUME NEW n \in keyed, HasRow(n)', ~HasRow(n)
        PROVE  \E c \in T : c.id = n /\ c.mark = "accepted"
    <2>1. n \in Ids /\ at'[n] \cap Row # {} /\ at[n] \cap Row = {}
      BY <1>3 DEF HasRow, TypeInv
    <2>2. PICK c \in T : c.id = n
      BY <2>1, Landed DEF Lands, TypeInv
    <2>3. at'[n] = (at[n] \ c.del) \cup c.add
      BY <2>2, Landed DEF Lands, TypeInv
    <2>4. c.add \cap Row # {}
      BY <2>1, <2>3
    <2>5. c.mark = "accepted"
      BY <1>2, <2>1, <2>2, <2>4 DEF Lands, Fits
    <2> QED  BY <2>2, <2>5
  <1>4. ASSUME NEW c \in T, c.mark = "accepted", c.id \in keyed
        PROVE  /\ \A n \in keyed \ {c.id} : ~HasRow(n)
               /\ \A d \in T : d.mark = "accepted" /\ d.id \in keyed => d.id = c.id
    BY <1>4 DEF Lands, Fits
  <1>5. CASE ~HasRow(i)
    <2>1. PICK c \in T : c.id = i /\ c.mark = "accepted"  BY <1>3, <1>5
    <2>2. ~HasRow(j)  BY <1>4, <2>1
    <2>3. PICK d \in T : d.id = j /\ d.mark = "accepted"  BY <1>3, <2>2
    <2> QED  BY <1>4, <2>1, <2>3
  <1>6. CASE ~HasRow(j)
    <2>1. PICK c \in T : c.id = j /\ c.mark = "accepted"  BY <1>3, <1>6
    <2>2. ~HasRow(i)  BY <1>4, <2>1
    <2> QED  BY <1>5, <2>2
  <1>7. CASE HasRow(i) /\ HasRow(j)
    BY <1>7 DEF Unique
  <1> QED  BY <1>5, <1>6, <1>7

(* The last place of a job goes only with its settlement, its removal or    *)
(* behind a dead letter.                                                    *)
LEMMA KeptKept ==
  ASSUME TypeInv, Kept, NEW T \in Transactions, Lands(T)
  PROVE  Kept'
  <1>1. kind' = kind
    BY Landed DEF Lands, TypeInv
  <1> SUFFICES ASSUME kind \in Tables, NEW i \in Ids, i \in accepted', i \notin acked', i \notin removed'
               PROVE  at'[i] \cap Evidence # {}
    <2>1. accepted' \subseteq Ids
      <3>1. \A c \in T : c.id \in Ids  BY DEF Transactions, Changes
      <3> QED  BY <3>1, Marks DEF Lands, TypeInv
    <2> QED  BY <1>1, <2>1 DEF Kept
  <1>2. i \notin acked /\ i \notin removed
    BY Marks DEF Lands, TypeInv
  <1>3. CASE \A c \in T : c.id # i
    <2>1. at'[i] = at[i] /\ i \in accepted
      BY <1>3, Landed, Marks DEF Lands, TypeInv
    <2> QED  BY <1>2, <2>1 DEF Kept
  <1>4. CASE \E c \in T : c.id = i
    <2>1. PICK c \in T : c.id = i  BY <1>4
    <2>2. at'[i] = (at[i] \ c.del) \cup c.add  BY <2>1, Landed DEF Lands, TypeInv
    <2>3. c.mark \notin {"acked", "removed"}
      BY <2>1, Marks DEF Lands, TypeInv
    <2>4. CASE c.mark \in {"accepted", "granted"}
      <3>1. c.add \cap Evidence # {}
        BY <2>4 DEF Lands, Fits, Evidence
      <3> QED  BY <2>2, <3>1
    <2>5. CASE c.mark = "none"
      <3>1. i \in accepted
        <4>1. \A d \in T : d.id = i => d = c  BY <2>1 DEF Transactions
        <4> QED  BY <2>5, <4>1, Marks DEF Lands, TypeInv
      <3>2. at[i] \cap Evidence # {}
        BY <1>2, <3>1 DEF Kept
      <3>3. CASE c.add \cap Evidence # {} \/ c.del \cap Evidence = {}
        BY <2>2, <3>2, <3>3
      <3>4. CASE Strips(c)
        <4>1. "dead" \in at[i]
          BY <1>2, <2>1, <3>4 DEF Lands, Fits, Covered
        <4>2. "dead" \in at'[i]
          <5>1. "dead" \notin c.del  BY <2>5 DEF Lands, Fits
          <5> QED  BY <2>2, <4>1, <5>1
        <4> QED  BY <4>2 DEF Evidence
      <3> QED  BY <2>5, <3>3, <3>4 DEF Strips
    <2>6. c.mark \in {"none", "granted", "accepted", "acked", "removed"}
      BY DEF Transactions, Changes
    <2> QED  BY <2>3, <2>4, <2>5, <2>6
  <1> QED  BY <1>3, <1>4

-----------------------------------------------------------------------------
CoreInv == TypeInv /\ Unborn /\ Underway /\ Renewing /\ Exclusive /\ Settled /\ Unique /\ Kept

(* What client a may carry out now, with what it keeps for later; ids are   *)
(* the jobs that the two store.                                             *)
Carries(a, T, rest, ids) ==
  /\ T \in Transactions /\ rest \in Programs
  /\ Commits(T) => Fits(T, restored')
  /\ Marked(T, "accepted") \cup Marked(Sent(rest), "accepted") \subseteq ids
  /\ Marked(T, "accepted") # {} => Marked(Sent(rest), "accepted") = {}
  /\ \A k \in 1..(Len(rest) - 1) : Marked(rest[k], "accepted") = {}
  /\ ids \cap accepted = {} /\ \A b \in Clients \ {a} : ids \cap Awaited(b) = {}
  /\ \A c \in Sent(rest) :
       Mild(c) /\ (Commits(T) => Covered(c) \/ (\E h \in T : h.id = c.id /\ "dead" \in h.add))

(* What still flies after a transaction has landed.                         *)
LEMMA FlightStays ==
  ASSUME TypeInv, Underway, NEW T \in Transactions, Lands(T), NEW b \in Clients, todo'[b] = todo[b]
  PROVE  \A c \in Flight(b)' : Mild(c)' /\ Covered(c)'
  <1>1. Flight(b)' = Flight(b)
    BY DEF Flight, Sent
  <1>2. \A c \in Flight(b) : c \in Changes /\ Mild(c) /\ Covered(c)
    BY SentTyped DEF TypeInv, Underway, Flight
  <1> QED  BY <1>1, <1>2, StrayStays

LEMMA RenewingStays ==
  ASSUME TypeInv, Renewing, NEW T \in Transactions, Lands(T)
  PROVE  \A i \in Ids : \A k \in 1..Len(beat[i]) : \A c \in beat[i][k] :
           Mild(c)' /\ c.id = i /\ c.mark = "none" /\ c.add \cap Waiting' = {} /\ ~Strips(c)'
  <1> SUFFICES ASSUME NEW i \in Ids, NEW k \in 1..Len(beat[i]), NEW c \in beat[i][k]
               PROVE  /\ Mild(c)' /\ c.id = i /\ c.mark = "none" /\ c.add \cap Waiting' = {} /\ ~Strips(c)'
    OBVIOUS
  <1>1. Mild(c) /\ c.id = i /\ c.mark = "none" /\ c.add \cap Waiting = {} /\ ~Strips(c)
    BY DEF Renewing
  <1>2. c \in Changes /\ Covered(c)
    <2>1. c \in Sent(beat[i]) /\ beat[i] \in Programs  BY DEF Sent, TypeInv
    <2> QED  BY <1>1, <2>1, SentTyped DEF Covered
  <1>3. kind' = kind
    BY Landed DEF Lands, TypeInv
  <1> QED  BY <1>1, <1>2, <1>3, StrayStays DEF Waiting, Strips

LEMMA Carried ==
  ASSUME CoreInv, NEW a \in Clients, NEW T, NEW rest, NEW ids, Carries(a, T, rest, ids),
         NEW i \in Ids \cup {NoId}, NEW next \in {"idle", "running", "recorded"},
         next # "idle" => i \in accepted,
         Carry(a, T, rest, i, next),
         restored \subseteq restored', used \subseteq used', used' \subseteq Ids,
         ids \subseteq used', beat' = beat
  PROVE  CoreInv'
  <1> USE DEF CoreInv
  <1>a. T \in Transactions /\ rest \in Programs
    BY DEF Carries
  <1>1. CASE ~Commits(T)
    <2>1. /\ todo' = [todo EXCEPT ![a] = <<>>]
          /\ stage' = [stage EXCEPT ![a] = next] /\ job' = [job EXCEPT ![a] = i]
          /\ UNCHANGED <<at, lapsed, kind, due, keyed, holders, accepted, acked, removed, source>>
      BY <1>1 DEF Carry
    <2>2. TypeInv'
      BY <2>1, NothingSent DEF TypeInv
    <2>3. Unborn'
      BY <2>1 DEF Unborn, TypeInv
    <2>4. \A b \in Clients : Flight(b)' = IF b = a THEN {} ELSE Flight(b)
      BY <2>1, NothingSent DEF Flight, TypeInv, Sent
    <2>5. \A c : Mild(c)' = Mild(c) /\ Covered(c)' = Covered(c) /\ Strips(c)' = Strips(c)
      BY <2>1 DEF Mild, Covered, Strips, Alive
    <2>6. Underway'
      <3> SUFFICES ASSUME NEW b \in Clients
                   PROVE  /\ \A c \in Flight(b)' : Mild(c)' /\ Covered(c)'
                          /\ \A k \in 1..(Len(todo'[b]) - 1) : Marked(todo'[b][k], "accepted") = {}
                          /\ Awaited(b)' \subseteq used' \ accepted'
                          /\ \A d \in Clients \ {b} : Awaited(b)' \cap Awaited(d)' = {}
        BY DEF Underway, Marked
      <3>1. \A c \in Flight(b)' : Mild(c)' /\ Covered(c)'
        BY <2>4, <2>5 DEF Underway
      <3>2. \A k \in 1..(Len(todo'[b]) - 1) : Marked(todo'[b][k], "accepted") = {}
        <4>1. CASE b = a
          BY <2>1, <4>1 DEF TypeInv
        <4>2. CASE b # a
          <5>1. todo'[b] = todo[b]  BY <2>1, <4>2 DEF TypeInv
          <5> QED  BY <5>1 DEF Underway
        <4> QED  BY <4>1, <4>2
      <3>3. \A d \in Clients : Awaited(d)' \subseteq Awaited(d)
        BY <2>4 DEF Awaited, Marked
      <3> QED  BY <2>1, <3>1, <3>2, <3>3 DEF Underway
    <2>7. Renewing'
      BY <2>1, <2>5 DEF Renewing, Waiting
    <2>8. Exclusive'
      BY <2>1 DEF Exclusive, Waiting
    <2>9. Settled' /\ Unique' /\ Kept'
      BY <2>1 DEF Settled, Unique, Kept, Alive, HasRow
    <2> QED  BY <2>2, <2>3, <2>6, <2>7, <2>8, <2>9
  <1>2. CASE Commits(T)
    <2> DEFINE won == Marked(T, "granted")
    <2>1. /\ Perform(T) /\ Note(T)
          /\ todo' = [todo EXCEPT ![a] = rest]
          /\ stage' = [stage EXCEPT ![a] = IF won # {} THEN "running" ELSE next]
          /\ job' = [job EXCEPT ![a] = IF won # {} THEN CHOOSE j \in won : TRUE ELSE i]
          /\ holders' = [j \in Ids |-> IF j \in won THEN holders[j] \cup {a}
                                       ELSE IF next # "running" THEN holders[j] \ {a}
                                       ELSE holders[j]]
      BY <1>2 DEF Carry
    <2>2. Lands(T)
      BY <1>2, <2>1 DEF Lands, Carries
    <2>3. Holds(T, a)
      <3>1. \A j : j \in won => \E c \in T : c.id = j /\ c.mark = "granted"
        BY DEF Marked
      <3> HIDE DEF won
      <3> QED  BY <2>1, <3>1 DEF Holds, TypeInv
    <2>4. won \subseteq accepted /\ (won # {} => (CHOOSE j \in won : TRUE) \in accepted)
      <3>1. won \subseteq accepted
        BY <2>2 DEF Lands, Fits, Marked
      <3> HIDE DEF won
      <3> QED  BY <3>1
    <2>5. /\ accepted' = accepted \cup Marked(T, "accepted")
          /\ Marked(T, "acked") \subseteq accepted /\ acked' = acked \cup Marked(T, "acked")
      <3>1. Marked(T, "acked") \subseteq accepted
        BY <2>2 DEF Lands, Fits, Marked
      <3> QED  BY <2>1, <3>1 DEF Note
    <2>6. Marked(T, "accepted") \subseteq ids
      BY DEF Carries
    <2>7. TypeInv'
      <3>1. /\ at' \in [Ids -> SUBSET Places] /\ lapsed' \subseteq Ids
            /\ kind' = kind /\ due' = due /\ keyed' = keyed
        BY <1>a, <2>1, Landed DEF TypeInv
      <3>2. source' \in [Ids -> Ids \cup {NoId}]
        BY <1>a, <2>1, Marks DEF TypeInv
      <3>3. holders' \in [Ids -> SUBSET Clients]
        BY <2>3 DEF Holds
      <3>4. accepted' \subseteq used' /\ acked' \subseteq accepted'
        BY <2>5, <2>6 DEF TypeInv
      <3>5. stage' \in [Clients -> {"idle", "running", "recorded"}]
        <4> HIDE DEF won
        <4> QED  BY <2>1 DEF TypeInv
      <3>6. job' \in [Clients -> Ids \cup {NoId}]
        <4> HIDE DEF won
        <4>1. accepted \subseteq Ids  BY DEF TypeInv
        <4> QED  BY <2>1, <2>4, <4>1 DEF TypeInv
      <3>7. todo' \in [Clients -> Programs] /\ beat' \in [Ids -> Programs]
        BY <1>a, <2>1 DEF TypeInv
      <3> QED  BY <3>1, <3>2, <3>3, <3>4, <3>5, <3>6, <3>7 DEF TypeInv
    <2>8. Unborn'
      <3>1. \A j \in Ids \ accepted' : /\ at'[j] \subseteq {"record", "delay"}
                                       /\ source'[j] = NoId /\ holders'[j] = {}
        BY <1>a, <2>2, <2>3, UnbornKept
      <3>2. \A j \in Ids \ accepted' : beat'[j] = <<>>
        BY <2>5 DEF Unborn
      <3>3. ASSUME NEW b \in Clients, stage'[b] # "idle"  PROVE job'[b] \in accepted'
        <4> HIDE DEF won
        <4>1. CASE b = a /\ won # {}
          BY <2>1, <2>4, <2>5, <4>1 DEF TypeInv
        <4>2. CASE b = a /\ won = {}
          BY <2>1, <2>5, <3>3, <4>2 DEF TypeInv
        <4>3. CASE b # a
          BY <2>1, <2>5, <3>3, <4>3 DEF TypeInv, Unborn
        <4> QED  BY <4>1, <4>2, <4>3
      <3> QED  BY <3>1, <3>2, <3>3 DEF Unborn
    <2>9. Underway'
      <3>1. \A b \in Clients \ {a} : Flight(b)' = Flight(b) /\ todo'[b] = todo[b]
        BY <2>1 DEF Flight, TypeInv, Sent
      <3>2. Flight(a)' = Sent(rest) /\ todo'[a] = rest
        BY <2>1 DEF Flight, TypeInv, Sent
      <3>3. \A b \in Clients : \A c \in Flight(b)' : Mild(c)' /\ Covered(c)'
        <4> SUFFICES ASSUME NEW b \in Clients, NEW c \in Flight(b)' PROVE Mild(c)' /\ Covered(c)'
          OBVIOUS
        <4>1. CASE b # a
          BY <1>a, <2>2, <3>1, <4>1, FlightStays
        <4>2. CASE b = a
          <5>1. c \in Sent(rest) /\ c \in Changes /\ c.id \in Ids
            BY <1>a, <3>2, <4>2, SentTyped DEF Changes
          <5>2. Mild(c)
            BY <5>1 DEF Carries
          <5>3. CASE Covered(c)
            BY <1>a, <2>2, <5>1, <5>2, <5>3, StrayStays
          <5>4. CASE \E h \in T : h.id = c.id /\ "dead" \in h.add
            <6>1. PICK h \in T : h.id = c.id /\ "dead" \in h.add  BY <5>4
            <6>2. at'[c.id] = (at[c.id] \ h.del) \cup h.add
              BY <1>a, <2>1, <6>1, Landed DEF TypeInv
            <6>3. Covered(c)'
              BY <6>1, <6>2 DEF Covered
            <6>4. kind' = kind /\ keyed' = keyed
              BY <1>a, <2>1, Landed DEF TypeInv
            <6>5. Mild(c)'
              BY <2>5, <5>2, <6>4 DEF Mild, Alive
            <6> QED  BY <6>3, <6>5
          <5> QED  BY <1>2, <5>1, <5>3, <5>4 DEF Carries
        <4> QED  BY <4>1, <4>2
      <3>4. \A b \in Clients : \A k \in 1..(Len(todo'[b]) - 1) : Marked(todo'[b][k], "accepted") = {}
        <4> SUFFICES ASSUME NEW b \in Clients
                     PROVE  \A k \in 1..(Len(todo'[b]) - 1) : Marked(todo'[b][k], "accepted") = {}
          OBVIOUS
        <4>1. CASE b = a
          BY <3>2, <4>1 DEF Carries
        <4>2. CASE b # a
          BY <3>1, <4>2 DEF Underway
        <4> QED  BY <4>1, <4>2
      <3>5. \A b \in Clients \ {a} : Awaited(b)' = Awaited(b) /\ Awaited(b) \cap ids = {}
        BY <3>1 DEF Awaited, Marked, Carries
      <3>6. Awaited(a)' = Marked(Sent(rest), "accepted") /\ Awaited(a)' \subseteq ids
        BY <3>2 DEF Awaited, Marked, Carries
      <3>7. \A b \in Clients : Awaited(b)' \subseteq used' \ accepted'
        <4> SUFFICES ASSUME NEW b \in Clients PROVE Awaited(b)' \subseteq used' \ accepted'
          OBVIOUS
        <4>1. CASE b # a
          BY <2>5, <2>6, <3>5, <4>1 DEF Underway
        <4>2. CASE b = a
          <5>1. Awaited(a)' \cap accepted = {}
            BY <3>6 DEF Carries
          <5>2. Awaited(a)' \cap Marked(T, "accepted") = {}
            BY <3>6 DEF Carries
          <5> QED  BY <2>5, <3>6, <4>2, <5>1, <5>2
        <4> QED  BY <4>1, <4>2
      <3>8. \A b \in Clients : \A d \in Clients \ {b} : Awaited(b)' \cap Awaited(d)' = {}
        BY <3>5, <3>6 DEF Underway
      <3> QED  BY <3>3, <3>4, <3>7, <3>8 DEF Underway, Marked
    <2>10. Renewing'
      BY <1>a, <2>2, RenewingStays DEF Renewing
    <2>11. Exclusive'
      BY <1>a, <2>2, <2>3, ExclusiveKept
    <2>12. Settled' /\ Unique' /\ Kept'
      BY <1>a, <2>2, SettledKept, UniqueKept, KeptKept
    <2> QED  BY <2>7, <2>8, <2>9, <2>10, <2>11, <2>12
  <1> QED  BY <1>1, <1>2

LEMMA Started ==
  ASSUME CoreInv, NEW a \in Clients, NEW P, NEW fresh \in SUBSET Ids, fresh \cap used = {},
         Admits(P, fresh),
         NEW i \in Ids \cup {NoId}, NEW next \in {"idle", "running", "recorded"},
         next # "idle" => i \in accepted,
         Start(a, P, i, next),
         restored' = restored, used' = used \cup fresh, beat' = beat
  PROVE  CoreInv'
  <1> DEFINE T == Head(P)
             rest == Tail(P)
  <1>1. P \in Programs /\ P # <<>> /\ T = P[1]
    BY HeadTail DEF Admits
  <1>2. accepted \subseteq used /\ used \subseteq Ids /\ \A b \in Clients : Awaited(b) \subseteq used
    BY DEF CoreInv, TypeInv, Underway
  <1>3. Marked(P[1], "accepted") \subseteq fresh
    BY <1>1, HeadTail DEF Admits
  <1>4. Marked(Sent(rest), "accepted") \subseteq fresh
    <2> SUFFICES ASSUME NEW c \in Sent(rest), c.mark = "accepted" PROVE c.id \in fresh
      BY DEF Marked
    <2>1. PICK k \in 2..Len(P) : c \in P[k]  BY <1>1, TailSent
    <2>2. k \in 1..Len(P) /\ c.id \in Marked(P[k], "accepted")
      BY <1>1, <2>1, HeadTail DEF Marked
    <2> QED  BY <2>2 DEF Admits
  <1>5. Marked(P[1], "accepted") # {} => Marked(Sent(rest), "accepted") = {}
    <2>1. CASE Len(P) = 1
      <3>1. Len(rest) = 0  BY <1>1, <2>1, HeadTail
      <3>2. Sent(rest) = {}  BY <3>1 DEF Sent
      <3> QED  BY <3>2 DEF Marked
    <2>2. CASE Len(P) # 1
      <3>0. Len(P) \in Nat \ {0}  BY <1>1, HeadTail
      <3>1. \A n \in Nat \ {0} : n # 1 => 1 \in 1..(n - 1)  OBVIOUS
      <3>2. 1 \in 1..(Len(P) - 1)  BY <2>2, <3>0, <3>1
      <3> QED  BY <3>2 DEF Admits
    <2> QED  BY <2>1, <2>2
  <1>6. \A k \in 1..(Len(rest) - 1) : Marked(rest[k], "accepted") = {}
    <2> SUFFICES ASSUME NEW k \in 1..(Len(rest) - 1) PROVE Marked(rest[k], "accepted") = {}
      OBVIOUS
    <2>1. rest[k] = P[k + 1] /\ k + 1 \in 1..(Len(P) - 1)
      BY <1>1, HeadTail
    <2> QED  BY <2>1 DEF Admits
  <1>7. \A c \in Sent(rest) :
          Mild(c) /\ (Commits(T) => Covered(c) \/ (\E h \in T : h.id = c.id /\ "dead" \in h.add))
    <2> SUFFICES ASSUME NEW c \in Sent(rest)
                 PROVE Mild(c) /\ (Commits(T) => Covered(c) \/ (\E h \in T : h.id = c.id /\ "dead" \in h.add))
      OBVIOUS
    <2>1. PICK k \in 2..Len(P) : c \in P[k]  BY <1>1, TailSent
    <2> QED  BY <1>1, <2>1 DEF Admits
  <1>8. Carries(a, T, rest, fresh)
    <2>1. T \in Transactions /\ rest \in Programs
      BY <1>1, HeadTail
    <2>2. Commits(T) => Fits(T, restored')
      BY <1>1 DEF Admits
    <2>3. fresh \cap accepted = {} /\ \A b \in Clients \ {a} : fresh \cap Awaited(b) = {}
      BY <1>2
    <2> HIDE DEF T, rest
    <2> QED  BY <1>1, <1>3, <1>4, <1>5, <1>6, <1>7, <2>1, <2>2, <2>3 DEF Carries
  <1>9. Carry(a, T, rest, i, next)
    BY DEF Start
  <1> HIDE DEF T, rest
  <1> QED  BY <1>2, <1>8, <1>9, Carried

(* A transaction on its way may be carried out, with what it makes ready    *)
(* on record.                                                               *)
LEMMA StrayFits ==
  ASSUME CoreInv, NEW a \in Clients, todo[a] # <<>>, Commits(todo[a][1])
  PROVE  Fits(todo[a][1], restored \cup Restoring(todo[a][1]))
  <1> DEFINE T == todo[a][1]
  <1>1. todo[a] \in Programs /\ T \in Transactions /\ T \subseteq Flight(a)
    BY HeadTail, TailSent DEF CoreInv, TypeInv, Flight
  <1> HIDE DEF T
  <1> SUFFICES ASSUME Commits(T) PROVE Fits(T, restored \cup Restoring(T))
    BY DEF T
  <1>2. \A c \in T : c \in Changes /\ Mild(c) /\ Covered(c)
    BY <1>1 DEF CoreInv, Underway, Transactions
  <1>3. \A c \in T : c.mark = "accepted" => c.id \in Awaited(a)
    BY <1>1 DEF Awaited, Marked
  <1>4. Awaited(a) \cap accepted = {}
    BY DEF CoreInv, Underway
  <1> SUFFICES ASSUME NEW c \in T
               PROVE  Fits({c}, restored \cup Restoring(T))
    <2>1. \A c \in T : kind \in Indexed /\ c.mark = "accepted" => c.id \notin keyed
      BY <1>2 DEF Mild
    <2> QED  BY <2>1 DEF Fits
  <1>5. c \in Changes /\ Mild(c) /\ Covered(c)
    BY <1>2
  <1>6. c.mark = "accepted" => c.id \notin accepted
    BY <1>3, <1>4
  <1>7. ASSUME c.mark = "none", c.add \cap Waiting # {}, holders[c.id] # {}
        PROVE  kind # "postgres" /\ c.id \in restored \cup Restoring(T)
    <2>1. c.add \cap {"queued", "ready"} # {}
      BY <1>7 DEF Waiting
    <2>2. c.id \in Restoring(T)
      BY <1>7, <2>1 DEF Restoring
    <2> QED  BY <1>5, <1>7, <2>2 DEF Mild
  <1>8. ASSUME kind \in Tables, c.mark # "accepted", c.add \cap Alive # {}
        PROVE  at[c.id] \cap Alive # {}
    <2>1. c.some # {} /\ c.some \subseteq Alive
      BY <1>5, <1>8 DEF Mild
    <2>2. c.some \cap at[c.id] # {}
      BY <2>1 DEF Commits
    <2> QED  BY <2>1, <2>2
  <1>9. kind \in Transactional => "dead" \notin c.add
    BY <1>5 DEF Mild, DeadLetter
  <1>10. kind \in Indexed /\ c.mark = "accepted" => c.id \notin keyed
    BY <1>5 DEF Mild
  <1>11. /\ c.lease # "lapse"
         /\ c.mark \in {"none", "accepted", "removed"} /\ (c.mark = "removed" => c.add = {})
         /\ c.mark = "accepted" /\ kind \in Tables => c.add \cap Evidence # {}
         /\ c.mark = "none" /\ c.id \notin accepted => c.add \subseteq {"record", "delay"}
         /\ c.of # NoId => c.mark = "accepted"
         /\ "dead" \in c.del => c.mark = "removed"
         /\ kind \in Indexed /\ "retried" \in c.del => c.mark = "removed"
    BY <1>5 DEF Mild
  <1> QED  BY <1>5, <1>6, <1>7, <1>8, <1>9, <1>10, <1>11 DEF Fits

LEMMA Stepped ==
  ASSUME CoreInv, NEW a \in Clients, Step(a)
  PROVE  CoreInv'
  <1> DEFINE T == Head(todo[a])
             rest == Tail(todo[a])
  <1>1. /\ todo[a] \in Programs /\ todo[a] # <<>> /\ T = todo[a][1]
        /\ T \in Transactions /\ rest \in Programs
        /\ T \subseteq Flight(a) /\ Sent(rest) \subseteq Flight(a)
    BY HeadTail, TailSent DEF Step, CoreInv, TypeInv, Flight
  <1>2. restored' = restored \cup (IF Commits(T) THEN Restoring(T) ELSE {})
    BY DEF Step
  <1>3. Commits(T) => Fits(T, restored')
    BY <1>1, <1>2, StrayFits
  <1>4. Marked(T, "accepted") \cup Marked(Sent(rest), "accepted") \subseteq Awaited(a)
    BY <1>1 DEF Awaited, Marked
  <1>5. Marked(T, "accepted") # {} => Marked(Sent(rest), "accepted") = {}
    <2>1. CASE Len(todo[a]) = 1
      <3>1. Len(rest) = 0  BY <1>1, <2>1, HeadTail
      <3>2. Sent(rest) = {}  BY <3>1 DEF Sent
      <3> QED  BY <3>2 DEF Marked
    <2>2. CASE Len(todo[a]) # 1
      <3>0. Len(todo[a]) \in Nat \ {0}  BY <1>1, HeadTail
      <3>1. \A n \in Nat \ {0} : n # 1 => 1 \in 1..(n - 1)  OBVIOUS
      <3>2. 1 \in 1..(Len(todo[a]) - 1)  BY <2>2, <3>0, <3>1
      <3> QED  BY <1>1, <3>2 DEF CoreInv, Underway
    <2> QED  BY <2>1, <2>2
  <1>6. \A k \in 1..(Len(rest) - 1) : Marked(rest[k], "accepted") = {}
    <2> SUFFICES ASSUME NEW k \in 1..(Len(rest) - 1) PROVE Marked(rest[k], "accepted") = {}
      OBVIOUS
    <2>1. rest[k] = todo[a][k + 1] /\ k + 1 \in 1..(Len(todo[a]) - 1)
      BY <1>1, HeadTail
    <2> QED  BY <2>1 DEF CoreInv, Underway
  <1>7. \A c \in Sent(rest) : Mild(c) /\ Covered(c)
    BY <1>1 DEF CoreInv, Underway
  <1>8. Awaited(a) \subseteq used \ accepted /\ \A b \in Clients \ {a} : Awaited(a) \cap Awaited(b) = {}
    BY DEF CoreInv, Underway
  <1>9. Carry(a, T, rest, job[a], stage[a]) /\ beat' = beat /\ used' = used
    BY DEF Step
  <1>10. /\ job[a] \in Ids \cup {NoId} /\ stage[a] \in {"idle", "running", "recorded"}
         /\ stage[a] # "idle" => job[a] \in accepted
         /\ used \subseteq Ids
    BY DEF CoreInv, TypeInv, Unborn
  <1> HIDE DEF T, rest
  <1>11. Carries(a, T, rest, Awaited(a))
    BY <1>1, <1>3, <1>4, <1>5, <1>6, <1>7, <1>8 DEF Carries
  <1> QED  BY <1>2, <1>8, <1>9, <1>10, <1>11, Carried

-----------------------------------------------------------------------------
(* Programs of one to four transactions.                                    *)
LEMMA One ==
  ASSUME NEW T \in Transactions, NEW fresh, Marked(T, "accepted") \subseteq fresh,
         Commits(T) => Fits(T, restored)
  PROVE  Admits(<<T>>, fresh)
  BY DEF Admits, Programs

(* A change that is not the first of its program, after T.                  *)
Follows(c, T) ==
  Mild(c) /\ (Commits(T) => Covered(c) \/ (\E h \in T : h.id = c.id /\ "dead" \in h.add))

LEMMA Two ==
  ASSUME NEW T \in Transactions, NEW U \in Transactions, NEW fresh,
         Marked(T, "accepted") = {}, Marked(U, "accepted") \subseteq fresh,
         Commits(T) => Fits(T, restored), \A c \in U : Follows(c, T)
  PROVE  Admits(<<T, U>>, fresh)
  BY DEF Admits, Programs, Follows

LEMMA Three ==
  ASSUME NEW T \in Transactions, NEW U \in Transactions, NEW V \in Transactions, NEW fresh,
         Marked(T, "accepted") = {}, Marked(U, "accepted") = {}, Marked(V, "accepted") \subseteq fresh,
         Commits(T) => Fits(T, restored), \A c \in U \cup V : Follows(c, T)
  PROVE  Admits(<<T, U, V>>, fresh)
  BY DEF Admits, Programs, Follows

LEMMA Four ==
  ASSUME NEW T \in Transactions, NEW U \in Transactions, NEW V \in Transactions,
         NEW W \in Transactions, NEW fresh,
         Marked(T, "accepted") = {}, Marked(U, "accepted") = {}, Marked(V, "accepted") = {},
         Marked(W, "accepted") \subseteq fresh,
         Commits(T) => Fits(T, restored), \A c \in U \cup V \cup W : Follows(c, T)
  PROVE  Admits(<<T, U, V, W>>, fresh)
  BY DEF Admits, Programs, Follows

(* A transaction before a program of one or three.                          *)
LEMMA Joined ==
  ASSUME NEW w, NEW x
  PROVE  <<w>> \o <<x>> = <<w, x>>
  <1> DEFINE S == {w, x}
             r == <<w>> \o <<x>>
  <1>1. <<w>> \in Seq(S) /\ <<x>> \in Seq(S) /\ <<w, x>> \in Seq(S)
    OBVIOUS
  <1> HIDE DEF S
  <1>2. r \in Seq(S) /\ Len(r) = 2 /\ r[1] = w /\ r[2] = x
    BY <1>1, ConcatProperties
  <1> HIDE DEF r
  <1>3. r = <<w, x>>
    BY <1>1, <1>2, SeqEqual
  <1> QED  BY <1>3 DEF r

LEMMA JoinedThree ==
  ASSUME NEW w, NEW x, NEW y, NEW z
  PROVE  <<w>> \o <<x, y, z>> = <<w, x, y, z>>
  <1> DEFINE S == {w, x, y, z}
             r == <<w>> \o <<x, y, z>>
  <1>1. <<w>> \in Seq(S) /\ <<x, y, z>> \in Seq(S) /\ <<w, x, y, z>> \in Seq(S)
    OBVIOUS
  <1> HIDE DEF S
  <1>2. r \in Seq(S) /\ Len(r) = 4 /\ r[1] = w /\ r[2] = x /\ r[3] = y /\ r[4] = z
    BY <1>1, ConcatProperties
  <1> HIDE DEF r
  <1>3. r = <<w, x, y, z>>
    BY <1>1, <1>2, SeqEqual
  <1> QED  BY <1>3 DEF r

LEMMA JoinedTwo ==
  ASSUME NEW w, NEW x, NEW y
  PROVE  <<w>> \o <<x, y>> = <<w, x, y>>
  <1> DEFINE S == {w, x, y}
             r == <<w>> \o <<x, y>>
  <1>1. <<w>> \in Seq(S) /\ <<x, y>> \in Seq(S) /\ <<w, x, y>> \in Seq(S)
    OBVIOUS
  <1> HIDE DEF S
  <1>2. r \in Seq(S) /\ Len(r) = 3 /\ r[1] = w /\ r[2] = x /\ r[3] = y
    BY <1>1, ConcatProperties
  <1> HIDE DEF r
  <1>3. r = <<w, x, y>>
    BY <1>1, <1>2, SeqEqual
  <1> QED  BY <1>3 DEF r

(* The changes below are records of the constructors of RemoteStore.        *)
USE DEF Change, Check, Put, Erase, IfAny, Unless, Leased, Granting, Accepting, Copying, Acking, Removing

LEMMA Reading ==
  /\ Read \in Transactions /\ Fits(Read, restored) /\ Commits(Read)
  /\ \A m : Marked(Read, m) = {}
  BY DEF Read, Transactions, Fits, Marked, Commits

LEMMA Lone ==
  ASSUME NEW c \in Changes
  PROVE  {c} \in Transactions /\ Marked({c}, "accepted") = IF c.mark = "accepted" THEN {c.id} ELSE {}
  BY DEF Transactions, Marked

LEMMA Alone ==
  ASSUME NEW c \in Changes, NEW fresh, c.mark = "accepted" => c.id \in fresh,
         Commits({c}) => Fits({c}, restored)
  PROVE  Admits(<<{c}>>, fresh)
  BY Lone, One

LEMMA Pair ==
  ASSUME NEW c \in Changes, NEW d \in Changes, NEW fresh,
         c.mark # "accepted", d.mark = "accepted" => d.id \in fresh,
         Commits({c}) => Fits({c}, restored), Follows(d, {c})
  PROVE  Admits(<<{c}, {d}>>, fresh)
  <1>1. /\ {c} \in Transactions /\ Marked({c}, "accepted") = {}
        /\ {d} \in Transactions /\ Marked({d}, "accepted") \subseteq fresh
    BY Lone
  <1> QED  BY <1>1, Two

(* What only removes may always be done.                                    *)
LEMMA Removals ==
  ASSUME NEW T, \A c \in T : c.mark = "removed" /\ c.add = {} /\ c.lease = "keep" /\ c.of = NoId
  PROVE  /\ Fits(T, restored) /\ \A U : \A c \in T : Follows(c, U)
         /\ Marked(T, "accepted") = {}
  <1>1. Fits(T, restored)
    BY DEF Fits, Covered, Strips
  <1>2. \A c \in T : Mild(c) /\ Covered(c)
    BY DEF Mild, Covered, Strips
  <1> QED  BY <1>1, <1>2 DEF Follows, Marked

LEMMA AckAdmitted ==
  ASSUME CoreInv, NEW i \in accepted
  PROVE  Admits(AckOf(i), {})
  <1>0. i \in Ids /\ kind \in Servers
    BY DEF CoreInv, TypeInv
  <1>1. CASE kind # "redis"
    <2> DEFINE c == Acking(Erase(i, Row))
    <2>1. AckOf(i) = <<{c}>>
      BY <1>0, <1>1 DEF AckOf, Pick, PgAck, MyAck, MongoAck, DynamoAck, Servers
    <2>2. c \in Changes /\ c.mark = "acked"
      BY <1>0 DEF Changes, Places
    <2>3. Fits({c}, restored)
      BY <1>0, <1>1 DEF Fits, Covered, Strips, Row
    <2> HIDE DEF c
    <2> QED  BY <2>1, <2>2, <2>3, Alone
  <1>2. CASE kind = "redis"
    <2> DEFINE c == Acking(Erase(i, {"record", "delay", "leased"}))
    <2>1. AckOf(i) = <<{c}>>
      BY <1>0, <1>2 DEF AckOf, Pick, RedisAck
    <2>2. c \in Changes /\ c.mark = "acked"
      BY <1>0 DEF Changes, Places, Row, SortedSets
    <2>3. Fits({c}, restored)
      BY <1>0, <1>2 DEF Fits, Covered, Strips, Tables, Transactional, Indexed
    <2> HIDE DEF c
    <2> QED  BY <2>1, <2>2, <2>3, Alone
  <1> QED  BY <1>1, <1>2

LEMMA BuryAdmitted ==
  ASSUME CoreInv, NEW i \in accepted
  PROVE  Admits(BuryOf(i), {})
  <1>0. i \in Ids /\ kind \in Servers
    BY DEF CoreInv, TypeInv
  <1>1. CASE kind \in Transactional
    <2> DEFINE c == Change(i, {}, Row, {"dead"})
    <2>1. BuryOf(i) = <<{c}>>
      BY <1>1 DEF BuryOf, Pick, PgMoveToDeadLetter, MyMoveToDeadLetter, Transactional
    <2>2. c \in Changes /\ c.mark = "none"
      BY <1>0 DEF Changes, Places, DeadLetter
    <2>3. Fits({c}, restored)
      BY <1>0, <1>1 DEF Fits, Covered, Strips, Row, Waiting, Alive, Evidence, Transactional
    <2> HIDE DEF c
    <2> QED  BY <2>1, <2>2, <2>3, Alone
  <1>2. CASE kind \in {"mongodb", "dynamodb"}
    <2> DEFINE c == Change(i, {}, IF kind = "mongodb" THEN {} ELSE {"retried"}, {"dead"})
               d == Erase(i, Row)
    <2>1. BuryOf(i) = <<{c}, {d}>>
      BY <1>2 DEF BuryOf, Pick, MongoMoveToDeadLetter, DynamoMoveToDeadLetter
    <2>2. c \in Changes /\ c.mark = "none" /\ d \in Changes /\ d.mark = "none"
      BY <1>0 DEF Changes, Places, DeadLetter
    <2>3. Fits({c}, restored)
      BY <1>0, <1>2 DEF Fits, Covered, Strips, Row, Waiting, Alive, Evidence, Transactional, Indexed
    <2>4. Mild(d)
      BY <1>2 DEF Mild, Row, Transactional
    <2>5. d.id = c.id /\ "dead" \in c.add
      OBVIOUS
    <2>6. Follows(d, {c})
      BY <2>4, <2>5 DEF Follows
    <2> HIDE DEF c, d
    <2> QED  BY <2>1, <2>2, <2>3, <2>6, Pair
  <1>3. CASE kind = "redis"
    <2> DEFINE c == Change(i, {}, {"retried"}, {"dead"})
               d == Erase(i, {"record", "delay"} \cup SortedSets)
    <2>1. BuryOf(i) = <<{c}, {d}>>
      BY <1>3 DEF BuryOf, Pick, RedisMoveToDeadLetter
    <2>2. c \in Changes /\ c.mark = "none" /\ d \in Changes /\ d.mark = "none"
      BY <1>0 DEF Changes, Places, DeadLetter, Row
    <2>3. Fits({c}, restored)
      BY <1>0, <1>3 DEF Fits, Covered, Strips, Waiting, Tables, Transactional, Indexed
    <2>4. Mild(d) /\ Covered(d)
      BY <1>3 DEF Mild, Covered, Strips, SortedSets, Transactional, Indexed, Tables
    <2>6. Follows(d, {c})
      BY <2>4 DEF Follows
    <2> HIDE DEF c, d
    <2> QED  BY <2>1, <2>2, <2>3, <2>6, Pair
  <1> QED  BY <1>0, <1>1, <1>2, <1>3 DEF Servers, Transactional

LEMMA CompletedAdmitted ==
  ASSUME CoreInv, NEW i \in accepted
  PROVE  Admits(CompletedOf(i), {})
  <1>0. i \in Ids /\ kind \in Servers
    BY DEF CoreInv, TypeInv
  <1>1. CASE kind = "postgres"
    <2> DEFINE c == IfAny(Change(i, {}, {"queued", "leased"}, {"completed"}), Row)
    <2>1. CompletedOf(i) = <<{c}>>
      BY <1>1 DEF CompletedOf, Pick, PgAddCompletedJob
    <2>2. c \in Changes /\ c.mark = "none"
      BY <1>0 DEF Changes, Places, Row
    <2>3. Commits({c}) => at[i] \cap Row # {}
      BY DEF Commits, Row
    <2>4. Commits({c}) => Fits({c}, restored)
      BY <1>0, <1>1, <2>3 DEF Fits, Covered, Strips, Waiting, Alive, Evidence
    <2> HIDE DEF c
    <2> QED  BY <2>1, <2>2, <2>4, Alone
  <1>2. CASE kind # "postgres"
    <2> DEFINE c == Put(i, {"done"})
    <2>1. CompletedOf(i) = <<{c}>>
      BY <1>0, <1>2 DEF CompletedOf, Pick, Servers, MyAddCompletedJob, MongoAddCompletedJob,
                        DynamoAddCompletedJob, RedisAddCompletedJob
    <2>2. c \in Changes /\ c.mark = "none"
      BY <1>0 DEF Changes, Places
    <2>3. Fits({c}, restored)
      BY <1>0, <1>2 DEF Fits, Covered, Strips, Waiting, Alive, Row
    <2> HIDE DEF c
    <2> QED  BY <2>1, <2>2, <2>3, Alone
  <1> QED  BY <1>1, <1>2

LEMMA ReportAdmitted ==
  ASSUME CoreInv, NEW i \in accepted
  PROVE  Admits(AttemptsOf(i), {}) /\ Admits(ProgressOf(i), {})
  <1>0. i \in Ids /\ kind \in Servers
    BY DEF CoreInv, TypeInv
  <1>1. CASE kind \in Indexed
    <2>1. AttemptsOf(i) = <<Read>> /\ ProgressOf(i) = <<Read>>
      BY <1>1 DEF AttemptsOf, ProgressOf, Pick, Indexed, PgUpdateAttempts, MyUpdateAttempts, MongoUpdateAttempts,
                  PgSetJobProgress, MySetJobProgress, MongoSetJobProgress
    <2> QED  BY <2>1, Reading, One
  <1>2. CASE kind = "dynamodb"
    <2> DEFINE c == Put(i, {"item"})
    <2>1. AttemptsOf(i) = <<{c}>> /\ ProgressOf(i) = <<{c}>>
      BY <1>2 DEF AttemptsOf, ProgressOf, Pick, DynamoUpdateAttempts, DynamoSetJobProgress
    <2>2. c \in Changes /\ c.mark = "none"
      BY <1>0 DEF Changes, Places, Row
    <2>3. Fits({c}, restored)
      BY <1>0, <1>2 DEF Fits, Covered, Strips, Waiting, Alive, Transactional, Indexed
    <2> HIDE DEF c
    <2> QED  BY <2>1, <2>2, <2>3, Alone
  <1>3. CASE kind = "redis"
    <2> DEFINE c == Check(i, {"record"})
               d == Reread(i)
    <2>1. AttemptsOf(i) = <<{c}, {d}>> /\ ProgressOf(i) = <<{c}, {d}>>
      BY <1>3 DEF AttemptsOf, ProgressOf, Pick, RedisUpdateAttempts, RedisSetJobProgress
    <2>2. c \in Changes /\ c.mark = "none" /\ d \in Changes /\ d.mark = "none"
      BY <1>0 DEF Changes, Places, Row, Reread
    <2>3. Fits({c}, restored)
      BY <1>0, <1>3 DEF Fits, Covered, Strips, Waiting, Tables, Transactional, Indexed
    <2>4. Mild(d) /\ Covered(d)
      BY <1>3 DEF Reread, Mild, Covered, Strips, Transactional, Indexed, Tables
    <2>5. Follows(d, {c})
      BY <2>4 DEF Follows
    <2> HIDE DEF c, d
    <2> QED  BY <2>1, <2>2, <2>3, <2>5, Pair
  <1> QED  BY <1>0, <1>1, <1>2, <1>3 DEF Servers, Indexed

(* A renewal touches its own job, and makes nothing ready.                  *)
LEMMA ExtendRenews ==
  ASSUME CoreInv, NEW i \in accepted
  PROVE  /\ ExtendOf(i) \in Programs
         /\ \A k \in 1..Len(ExtendOf(i)) : \A c \in ExtendOf(i)[k] :
              Mild(c) /\ c.id = i /\ c.mark = "none" /\ c.add \cap Waiting = {} /\ ~Strips(c)
  <1> DEFINE places == IF kind = "dynamodb" THEN {"item"} ELSE IF kind = "redis" THEN {"leased"} ELSE {}
             c == Leased(Put(i, places))
  <1>0. i \in Ids /\ kind \in Servers
    BY DEF CoreInv, TypeInv
  <1>1. ExtendOf(i) = <<{c}>>
    <2>1. CASE kind = "dynamodb"
      BY <2>1 DEF ExtendOf, Pick, DynamoExtendLease
    <2>2. CASE kind = "redis"
      BY <2>2 DEF ExtendOf, Pick, RedisExtendLease
    <2>3. CASE kind \in Indexed
      BY <2>3 DEF ExtendOf, Pick, Indexed, PgExtendLease, MyExtendLease, MongoExtendLease
    <2> QED  BY <1>0, <2>1, <2>2, <2>3 DEF Servers, Indexed
  <1>2. c \in Changes
    BY <1>0 DEF Changes, Places, Row, SortedSets
  <1>3. Mild(c) /\ c.id = i /\ c.mark = "none" /\ c.add \cap Waiting = {} /\ ~Strips(c)
    BY <1>0 DEF Mild, Waiting, Alive, Row, Strips, Tables, Transactional, Indexed, Servers
  <1> HIDE DEF c
  <1>4. {c} \in Transactions
    BY <1>2, Lone
  <1>5. <<{c}>> \in Programs
    BY <1>4 DEF Programs
  <1>6. ASSUME NEW k \in 1..Len(<<{c}>>), NEW d \in <<{c}>>[k]
        PROVE  d = c
    BY <1>6
  <1> QED  BY <1>1, <1>3, <1>5, <1>6

(* A lease is granted on a job that waits, or whose lease ran out.          *)
LEMMA DequeueAdmitted ==
  ASSUME CoreInv, NEW i \in Ids, Leasable(i)
  PROVE  Admits(DequeueOf(i), {})
  <1>0. kind \in Servers
    BY DEF CoreInv, TypeInv
  <1>1. CASE kind # "redis"
    <2> DEFINE c == Granting(Change(i, {}, {"queued"}, {"leased"}))
    <2>1. DequeueOf(i) = <<{c}>>
      BY <1>0, <1>1 DEF DequeueOf, Pick, PgDequeue, MyDequeue, MongoDequeue, DynamoTryLease, Servers
    <2>2. Ready(i) \/ Due(i) \/ Expired(i)
      BY <1>0, <1>1 DEF Leasable, Pick, PgLeasable, MyLeasable, MongoLeasable, DynamoLeasable,
                        DynamoQueued, DynamoExpired, Servers
    <2>3. "queued" \in at[i] \/ ("leased" \in at[i] /\ i \in lapsed)
      BY <2>2 DEF Ready, Due, Delayed, Expired
    <2>4. i \in accepted
      BY <2>3 DEF CoreInv, Unborn
    <2>5. holders[i] = {} \/ (kind # "postgres" /\ i \in restored)
      BY <1>1, <2>3 DEF CoreInv, Exclusive, Waiting
    <2>6. at[i] \cap Alive # {}
      BY <2>3 DEF Alive, Row
    <2>7. /\ c \in Changes /\ c.id = i /\ c.mark = "granted" /\ c.lease = "renew"
          /\ c.del = {"queued"} /\ c.add = {"leased"} /\ c.of = NoId
      BY DEF Changes, Places, Row
    <2> HIDE DEF c
    <2>8. Fits({c}, restored)
      BY <1>1, <2>4, <2>5, <2>6, <2>7 DEF Fits, Covered, Strips, Waiting
    <2> QED  BY <2>1, <2>7, <2>8, Alone
  <1>2. CASE kind = "redis"
    <2> DEFINE leased == Leased(Change(i, {}, {"ready"}, {"leased"}))
               c == IF Recorded(i) THEN Granting(leased) ELSE leased
               T == {c} \cup {RedisReclaim(j) : j \in {k \in Ids \ {i} : Expired(k)}}
    <2>1. DequeueOf(i) = <<T>>
      BY <1>2 DEF DequeueOf, Pick, RedisDequeue
    <2>2. "ready" \in at[i] \/ ("leased" \in at[i] /\ i \in lapsed)
      BY <1>2 DEF Leasable, Pick, RedisLeasable, Expired
    <2>3. i \in accepted
      BY <2>2 DEF CoreInv, Unborn
    <2>4. holders[i] = {} \/ (kind # "postgres" /\ i \in restored)
      BY <1>2, <2>2 DEF CoreInv, Exclusive, Waiting
    <2>5. /\ c \in Changes /\ c.id = i /\ c.mark \in {"none", "granted"} /\ c.lease = "renew"
          /\ c.del = {"ready"} /\ c.add = {"leased"} /\ c.of = NoId
      <3>1. CASE Recorded(i)
        BY <3>1 DEF Changes, Places, SortedSets
      <3>2. CASE ~Recorded(i)
        BY <3>2 DEF Changes, Places, SortedSets
      <3> QED  BY <3>1, <3>2
    <2> HIDE DEF c
    <2>6. ASSUME NEW j \in Ids \ {i}, Expired(j)
          PROVE  LET d == RedisReclaim(j)
                 IN /\ d \in Changes /\ d.id = j /\ d.mark = "none" /\ d.lease = "keep"
                    /\ d.del = {"leased"} /\ d.add \subseteq {"ready"} /\ d.of = NoId
                    /\ j \in accepted /\ (holders[j] = {} \/ (kind # "postgres" /\ j \in restored))
      <3>1. "leased" \in at[j] /\ j \in lapsed
        BY <2>6 DEF Expired
      <3>2. j \in accepted
        BY <3>1 DEF CoreInv, Unborn
      <3>3. holders[j] = {} \/ (kind # "postgres" /\ j \in restored)
        BY <3>1 DEF CoreInv, Exclusive
      <3>4. RedisReclaim(j) \in Changes
        BY DEF RedisReclaim, Changes, Places, SortedSets
      <3> QED  BY <3>2, <3>3, <3>4 DEF RedisReclaim
    <2>7. T \in Transactions
      <3>1. T \subseteq Changes
        BY <2>5, <2>6
      <3>2. \A d, e \in T : d.id = e.id => d = e
        BY <2>5, <2>6
      <3> HIDE DEF T
      <3> QED  BY <3>1, <3>2 DEF Transactions
    <2>8. \A d \in T : /\ d.mark \in {"none", "granted"} /\ d.id \in accepted /\ d.lease # "lapse"
                       /\ d.mark = "granted" => d = c
                       /\ holders[d.id] = {} \/ (kind # "postgres" /\ d.id \in restored)
                       /\ "dead" \notin d.del /\ d.of = NoId
      BY <2>3, <2>4, <2>5, <2>6
    <2>9. Fits(T, restored)
      <3> HIDE DEF T
      <3>1. Waiting = {"ready"} /\ kind \notin Tables \cup Transactional \cup Indexed
        BY <1>2 DEF Waiting, Tables, Transactional, Indexed
      <3> QED  BY <2>5, <2>8, <3>1 DEF Fits, Covered, Strips
    <2>10. Marked(T, "accepted") = {}
      <3> HIDE DEF T
      <3> QED  BY <2>8 DEF Marked
    <2> HIDE DEF T
    <2> QED  BY <2>1, <2>7, <2>9, <2>10, One
  <1> QED  BY <1>1, <1>2

(* A move of a table asks for a live row when it is carried out; one of     *)
(* Redis is a read and three writes.                                        *)
LEMMA RedisMoves ==
  ASSUME CoreInv, kind = "redis", NEW i \in accepted, NEW need \in SUBSET Places
  PROVE  Admits(<<{Check(i, need)}, {Erase(i, {"deferred"})}, {Put(i, {"ready"})},
                  {Change(i, {}, {"delay"}, {"record"})}>>, {})
  <1> DEFINE b == Check(i, need)
             c == Erase(i, {"deferred"})
             d == Put(i, {"ready"})
             e == Change(i, {}, {"delay"}, {"record"})
  <1>1. i \in Ids
    BY DEF CoreInv, TypeInv
  <1>2. /\ b \in Changes /\ b.mark = "none" /\ c \in Changes /\ c.mark = "none"
        /\ d \in Changes /\ d.mark = "none" /\ e \in Changes /\ e.mark = "none"
    BY <1>1 DEF Changes, Places, Row, SortedSets
  <1>3. Fits({b}, restored)
    BY <1>1 DEF Fits, Covered, Strips, Waiting, Tables, Transactional, Indexed
  <1>4. \A x \in {c, d, e} : Mild(x) /\ Covered(x)
    BY DEF Mild, Covered, Strips, Transactional, Indexed, Tables
  <1> HIDE DEF b, c, d, e
  <1>5. /\ {b} \in Transactions /\ Marked({b}, "accepted") = {}
        /\ {c} \in Transactions /\ Marked({c}, "accepted") = {}
        /\ {d} \in Transactions /\ Marked({d}, "accepted") = {}
        /\ {e} \in Transactions /\ Marked({e}, "accepted") = {}
    BY <1>2, Lone
  <1>6. \A x \in {c} \cup {d} \cup {e} : Follows(x, {b})
    BY <1>4 DEF Follows
  <1>7. Admits(<<{b}, {c}, {d}, {e}>>, {})
    BY <1>3, <1>5, <1>6, Four
  <1> QED  BY <1>7 DEF b, c, d, e

LEMMA PassAdmitted ==
  ASSUME CoreInv, NEW i \in DelayedOf
  PROVE  Admits((IF Piecewise THEN <<>> ELSE <<Read>>) \o MoveOf(i), {})
  <1>0. kind \in Servers
    BY DEF CoreInv, TypeInv
  <1>1. CASE kind \in {"mysql", "mongodb", "dynamodb"}
    <2> DEFINE c == IfAny(Change(i, {}, {"leased", "delay"}, {"queued"}), Alive)
    <2>1. MoveOf(i) = <<{c}>>
      BY <1>1 DEF MoveOf, Pick, MyMoveJobToQueue, MongoMoveJobToQueue, DynamoMoveJobToQueue, Alive
    <2>2. i \in Ids /\ "queued" \in at[i]
      BY <1>1 DEF DelayedOf, Pick, MyGetDelayedJobs, MongoGetDelayedJobs, DynamoGetDelayedJobs, Due, Delayed
    <2>3. i \in accepted
      BY <2>2 DEF CoreInv, Unborn
    <2>4. c \in Changes /\ c.mark = "none"
      BY <2>2 DEF Changes, Places, Row, Alive
    <2>5. Mild(c) /\ Covered(c)
      BY <1>1, <2>3 DEF Mild, Covered, Strips, Evidence, Alive, Row, DeadLetter
    <2>6. (IF Piecewise THEN <<>> ELSE <<Read>>) \o MoveOf(i) = <<Read, {c}>>
      <3> HIDE DEF c
      <3>1. <<Read>> \o <<{c}>> = <<Read, {c}>>  BY Joined
      <3> QED  BY <1>1, <2>1, <3>1 DEF Piecewise
    <2> HIDE DEF c
    <2>7. Admits(<<Read, {c}>>, {})
      <3>1. Follows(c, Read)
        BY <2>5 DEF Follows
      <3> QED  BY <2>4, <3>1, Two, Reading, Lone
    <2> QED  BY <2>6, <2>7
  <1>2. CASE kind = "redis"
    <2>1. i \in Ids /\ "deferred" \in at[i]
      BY <1>2 DEF DelayedOf, Pick, RedisGetDelayedJobs
    <2>2. i \in accepted
      BY <2>1 DEF CoreInv, Unborn
    <2>3. (IF Piecewise THEN <<>> ELSE <<Read>>) \o MoveOf(i) =
            <<{Check(i, {"record"})}, {Erase(i, {"deferred"})}, {Put(i, {"ready"})},
              {Change(i, {}, {"delay"}, {"record"})}>>
      BY <1>2 DEF Piecewise, MoveOf, Pick, RedisMoveJobToQueue
    <2>4. {"record"} \subseteq Places
      BY DEF Places
    <2> QED  BY <1>2, <2>2, <2>3, <2>4, RedisMoves
  <1>3. CASE kind = "postgres"
    BY <1>3 DEF DelayedOf, Pick
  <1> QED  BY <1>0, <1>1, <1>2, <1>3 DEF Servers

LEMMA PgPassAdmitted ==
  ASSUME CoreInv, kind = "postgres"
  PROVE  Admits(PgPromoteDelayedJobs(PgPromotable), {})
  <1> DEFINE T == {Erase(i, {"delay"}) : i \in PgPromotable}
  <1>1. \A c \in T : /\ c \in Changes /\ c.mark = "none" /\ c.add = {} /\ c.del = {"delay"}
                     /\ c.lease = "keep" /\ c.of = NoId
    BY DEF PgPromotable, Changes, Places, Row
  <1>2. \A c, d \in T : c.id = d.id => c = d
    OBVIOUS
  <1> HIDE DEF T
  <1>3. T \in Transactions
    BY <1>1, <1>2 DEF Transactions
  <1>4. Fits(T, restored)
    BY <1>1 DEF Fits, Covered, Strips, Evidence
  <1>5. Marked(T, "accepted") = {}
    BY <1>1 DEF Marked
  <1> QED  BY <1>3, <1>4, <1>5, One DEF T, PgPromoteDelayedJobs

LEMMA PromoteAdmitted ==
  ASSUME CoreInv, NEW i \in accepted
  PROVE  Admits(PromoteOf(i), {})
  <1>0. kind \in Servers /\ i \in Ids
    BY DEF CoreInv, TypeInv
  <1>1. CASE kind # "redis"
    <2> DEFINE c == Change(i, {"queued", "delay"}, {"delay"}, {})
    <2>1. PromoteOf(i) = <<{c}>>
      BY <1>0, <1>1 DEF PromoteOf, Pick, PgPromoteJob, MyPromoteJob, MongoPromoteJob, DynamoPromoteJob, Servers
    <2>2. c \in Changes /\ c.mark = "none"
      BY <1>0 DEF Changes, Places, Row
    <2>3. Fits({c}, restored)
      BY <1>0 DEF Fits, Covered, Strips, Evidence
    <2> HIDE DEF c
    <2> QED  BY <2>1, <2>2, <2>3, Alone
  <1>2. CASE kind = "redis"
    <2>1. PromoteOf(i) = <<{Check(i, {"record", "delay"})}, {Erase(i, {"deferred"})}, {Put(i, {"ready"})},
                           {Change(i, {}, {"delay"}, {"record"})}>>
      <3> DEFINE b == {Check(i, {"record", "delay"})}
                 c == {Erase(i, {"deferred"})}
                 d == {Put(i, {"ready"})}
                 e == {Change(i, {}, {"delay"}, {"record"})}
      <3>1. PromoteOf(i) = <<b>> \o Tail(<<{Check(i, {"record"})}, c, d, e>>)
        BY <1>2 DEF PromoteOf, Pick, RedisPromoteJob, RedisMoveJobToQueue
      <3> HIDE DEF b, c, d, e
      <3>2. Tail(<<{Check(i, {"record"})}, c, d, e>>) = <<c, d, e>>
        OBVIOUS
      <3>3. <<b>> \o <<c, d, e>> = <<b, c, d, e>>
        BY JoinedThree
      <3>4. PromoteOf(i) = <<b>> \o <<c, d, e>>
        BY <3>1, <3>2, Zenon
      <3>5. PromoteOf(i) = <<b, c, d, e>>
        BY <3>3, <3>4, Zenon
      <3> QED  BY <3>5 DEF b, c, d, e
    <2>2. {"record", "delay"} \subseteq Places
      BY DEF Places, Row
    <2> QED  BY <1>2, <2>1, <2>2, RedisMoves
  <1> QED  BY <1>1, <1>2

(* A job is stored under an id that was just drawn, and with the key only   *)
(* where no row has it.                                                     *)
LEMMA EnqueueAdmitted ==
  ASSUME CoreInv, NEW i \in Ids \ used, NEW delayed \in BOOLEAN
  PROVE  Admits(EnqueueOf(i, delayed), {i})
  <1>0. kind \in Servers /\ i \notin accepted
    BY DEF CoreInv, TypeInv
  <1>c. Columns(delayed) \subseteq {"queued", "delay"} /\ "queued" \in Columns(delayed)
    BY DEF Columns
  <1>1. CASE KeyTaken(i) /\ kind # "redis"
    <2>1. EnqueueOf(i, delayed) = <<Read>>
      BY <1>0, <1>1 DEF EnqueueOf, Pick, PgEnqueue, MyEnqueue, MongoEnqueue, DynamoEnqueue, Servers
    <2> QED  BY <2>1, Reading, One
  <1>2. CASE ~KeyTaken(i) /\ kind \in Indexed
    <2> DEFINE c == Accepting(Put(i, Columns(delayed)))
    <2>1. EnqueueOf(i, delayed) = <<{c}>>
      BY <1>2 DEF EnqueueOf, Pick, PgEnqueue, MyEnqueue, MongoEnqueue, Indexed
    <2>2. c \in Changes /\ c.mark = "accepted" /\ c.id = i
      BY <1>c DEF Changes, Places, Row
    <2>3. i \in keyed => \A j \in keyed \ {i} : ~HasRow(j)
      BY <1>2 DEF KeyTaken
    <2>4. Fits({c}, restored)
      <3>1. /\ c.lease = "keep" /\ c.mark = "accepted" /\ c.id = i /\ c.add = Columns(delayed)
            /\ c.del = {} /\ c.of = NoId
        OBVIOUS
      <3> HIDE DEF c
      <3> QED  BY <1>0, <1>c, <2>3, <3>1 DEF Fits, Covered, Strips, Evidence
    <2> HIDE DEF c
    <2> QED  BY <2>1, <2>2, <2>4, Alone
  <1>3. CASE ~KeyTaken(i) /\ kind = "dynamodb"
    <2> DEFINE d == Accepting(Put(i, {"item"} \cup Columns(delayed)))
    <2>1. EnqueueOf(i, delayed) = <<Read, {d}>>
      BY <1>3 DEF EnqueueOf, Pick, DynamoEnqueue
    <2>2. d \in Changes /\ d.mark = "accepted" /\ d.id = i
      BY <1>c DEF Changes, Places, Row
    <2>3. Mild(d) /\ Covered(d)
      BY <1>3, <1>c DEF Mild, Covered, Strips, Evidence, Transactional, Indexed
    <2> HIDE DEF d
    <2>4. Follows(d, Read)
      BY <2>3 DEF Follows
    <2>5. {d} \in Transactions /\ Marked({d}, "accepted") \subseteq {i}
      BY <2>2, Lone
    <2> QED  BY <2>1, <2>4, <2>5, Two, Reading
  <1>4. CASE kind = "redis"
    <2> DEFINE c == Put(i, IF delayed THEN {"record", "delay"} ELSE {"record"})
               d == Accepting(Put(i, IF delayed THEN {"deferred"} ELSE {"ready"}))
    <2>1. EnqueueOf(i, delayed) = <<{c}, {d}>>
      BY <1>4 DEF EnqueueOf, Pick, RedisEnqueue
    <2>2. c \in Changes /\ c.mark = "none" /\ d \in Changes /\ d.mark = "accepted" /\ d.id = i
      BY DEF Changes, Places, Row, SortedSets
    <2>3. Fits({c}, restored)
      BY <1>4 DEF Fits, Covered, Strips, Waiting, Tables, Transactional, Indexed
    <2>4. Mild(d) /\ Covered(d)
      BY <1>4 DEF Mild, Covered, Strips, Tables, Transactional, Indexed
    <2>5. Follows(d, {c})
      BY <2>4 DEF Follows
    <2> HIDE DEF c, d
    <2> QED  BY <2>1, <2>2, <2>3, <2>5, Pair
  <1> QED  BY <1>0, <1>1, <1>2, <1>3, <1>4 DEF Servers, Indexed

LEMMA BatchAdmitted ==
  ASSUME CoreInv, kind \in {"postgres", "mysql", "redis"},
         NEW S \in SUBSET (Ids \ used), NEW first \in Ids, NEW delayed \in BOOLEAN
  PROVE  Admits(BatchOf(S, first, delayed), S)
  <1>c. Columns(delayed) \subseteq {"queued", "delay"} /\ "queued" \in Columns(delayed)
    BY DEF Columns
  <1>0. S \cap accepted = {} /\ S \subseteq Ids
    BY DEF CoreInv, TypeInv
  <1>1. CASE kind \in Transactional
    <2> DEFINE stored == Inserted(S, first)
               T == {Accepting(Put(i, Columns(delayed))) : i \in stored}
    <2>1. BatchOf(S, first, delayed) = <<T>>
      BY <1>1 DEF BatchOf, Pick, PgEnqueueBatch, MyEnqueueBatch, Transactional
    <2>2. /\ stored \subseteq S /\ \A i \in stored \cap keyed : i = first /\ ~KeyTaken(i)
      BY DEF Inserted
    <2> HIDE DEF stored
    <2>3. \A c \in T : /\ c \in Changes /\ c.mark = "accepted" /\ c.id \in stored /\ c.lease = "keep"
                       /\ c.add = Columns(delayed) /\ c.del = {} /\ c.of = NoId
      BY <1>c, <1>0, <2>2, ZenonT(60) DEF Changes, Places, Row
    <2>4. \A c, d \in T : c.id = d.id => c = d
      <3>1. \A c \in T : c = Accepting(Put(c.id, Columns(delayed)))
        OBVIOUS
      <3> HIDE DEF T
      <3> HIDE DEF Accepting, Put
      <3> QED  BY <3>1
    <2> HIDE DEF T
    <2>5. T \in Transactions
      BY <2>3, <2>4 DEF Transactions
    <2>6. \A i \in stored \cap keyed : \A j \in keyed \ {i} : ~HasRow(j)
      BY <2>2 DEF KeyTaken
    <2>7. Fits(T, restored)
      BY <1>0, <1>c, <2>2, <2>3, <2>6 DEF Fits, Covered, Strips, Evidence
    <2>8. Marked(T, "accepted") \subseteq S
      BY <2>2, <2>3 DEF Marked
    <2> QED  BY <2>1, <2>5, <2>7, <2>8, One
  <1>2. CASE kind = "redis"
    <2> DEFINE c(i) == Put(i, IF delayed THEN {"record", "delay"} ELSE {"record"})
               d(i) == Accepting(Put(i, IF delayed THEN {"deferred"} ELSE {"ready"}))
               T == {c(i) : i \in S}
               U == {d(i) : i \in S}
    <2>1. BatchOf(S, first, delayed) = <<T, U>>
      <3>1. \A i \in S : RedisEnqueue(i, delayed)[1] = {c(i)} /\ RedisEnqueue(i, delayed)[2] = {d(i)}
        BY DEF RedisEnqueue
      <3>2. UNION {RedisEnqueue(i, delayed)[1] : i \in S} = T
        <4> HIDE DEF c, d
        <4> QED  BY <3>1
      <3>3. UNION {RedisEnqueue(i, delayed)[2] : i \in S} = U
        <4> HIDE DEF c, d
        <4> QED  BY <3>1
      <3>4. BatchOf(S, first, delayed) = <<UNION {RedisEnqueue(i, delayed)[1] : i \in S},
                                           UNION {RedisEnqueue(i, delayed)[2] : i \in S}>>
        BY <1>2 DEF BatchOf, Pick, RedisEnqueueBatch
      <3> HIDE DEF T, U
      <3> QED  BY <3>2, <3>3, <3>4
    <2>2. \A i \in S : LET x == c(i)
                       IN /\ x \in Changes /\ x.mark = "none" /\ x.lease = "keep" /\ x.of = NoId
                          /\ x.add \subseteq {"record", "delay"} /\ x.del = {} /\ x.id = i
      BY <1>0 DEF Changes, Places, Row
    <2>3. \A i \in S : LET x == d(i)
                       IN /\ x \in Changes /\ x.mark = "accepted" /\ x.lease = "keep" /\ x.of = NoId
                          /\ x.del = {} /\ x.id = i
      BY <1>0 DEF Changes, Places, SortedSets
    <2> HIDE DEF c, d
    <2>4. (\A x, y \in T : x.id = y.id => x = y) /\ (\A x, y \in U : x.id = y.id => x = y)
      BY <2>2, <2>3
    <2>9. /\ \A x \in T : \E i \in S : x = c(i)
          /\ \A x \in U : \E i \in S : x = d(i)
      OBVIOUS
    <2> HIDE DEF T, U
    <2>5. T \in Transactions /\ U \in Transactions
      BY <2>2, <2>3, <2>4, <2>9 DEF Transactions
    <2>6. Fits(T, restored)
      BY <1>2, <2>2, <2>9 DEF Fits, Covered, Strips, Waiting, Tables, Transactional, Indexed
    <2>7. \A x \in U : Follows(x, T)
      BY <1>2, <2>3, <2>9 DEF Follows, Mild, Covered, Strips, Tables, Transactional, Indexed
    <2>8. Marked(T, "accepted") = {} /\ Marked(U, "accepted") \subseteq S
      BY <2>2, <2>3, <2>9 DEF Marked
    <2> QED  BY <2>1, <2>5, <2>6, <2>7, <2>8, Two
  <1> QED  BY <1>1, <1>2 DEF Transactional

(* A dead letter is replayed under an id that was just drawn.               *)
LEMMA ReplayAdmitted ==
  ASSUME CoreInv, NEW i \in DeadView, NEW n \in Ids \ (used \cup keyed)
  PROVE  Admits(ReplayOf(i, n), {n})
  <1>0. kind \in Servers /\ n \notin accepted /\ accepted \subseteq used
    BY DEF CoreInv, TypeInv
  <1>1. i \in Ids /\ "dead" \in at[i]
    BY <1>0 DEF DeadView, Pick, PgGetDeadLetterJobs, MyGetDeadLetterJobs, MongoGetDeadLetterJobs,
                DynamoGetDeadLetterJobs, RedisGetDeadLetterJobs, Servers
  <1>2. i \in accepted /\ i # n
    BY <1>0, <1>1 DEF CoreInv, Unborn
  <1> DEFINE c == Unless(Change(i, {"dead"}, {}, {"retried"}), {"retried"})
             d == Copying(Put(n, {"queued"}), i)
  <1>3. /\ c \in Changes /\ c.id = i /\ c.mark = "none" /\ c.lease = "keep" /\ c.of = NoId
        /\ c.add = {"retried"} /\ c.del = {}
    BY <1>1 DEF Changes, Places, DeadLetter
  <1>4. /\ d \in Changes /\ d.id = n /\ d.mark = "accepted" /\ d.lease = "keep" /\ d.of = i
        /\ d.add = {"queued"} /\ d.del = {}
    BY <1>1 DEF Changes, Places, Row
  <1>5. CASE kind \in Transactional
    <2>1. ReplayOf(i, n) = <<{c, d}>>
      BY <1>5 DEF ReplayOf, Pick, PgRetryDeadLetterJob, MyRetryDeadLetterJob, Transactional
    <2> HIDE DEF c, d
    <2>2. {c, d} \in Transactions
      BY <1>2, <1>3, <1>4 DEF Transactions
    <2>3. Fits({c, d}, restored)
      BY <1>0, <1>2, <1>3, <1>4, <1>5 DEF Fits, Covered, Strips, Waiting, Alive, Row, Evidence, Transactional
    <2>4. Marked({c, d}, "accepted") \subseteq {n}
      BY <1>3, <1>4 DEF Marked
    <2> QED  BY <2>1, <2>2, <2>3, <2>4, One
  <1>6. CASE kind = "mongodb"
    <2>1. ReplayOf(i, n) = <<{c}, {d}>>
      BY <1>6 DEF ReplayOf, Pick, MongoRetryDeadLetterJob
    <2> HIDE DEF c, d
    <2>2. Fits({c}, restored)
      BY <1>2, <1>3, <1>6 DEF Fits, Covered, Strips, Waiting, Alive, Row, Transactional
    <2>3. Mild(d) /\ Covered(d)
      BY <1>1, <1>4, <1>6, StoreConstantsOK DEF Mild, Covered, Strips, Evidence, Transactional
    <2>4. Follows(d, {c})
      BY <2>3 DEF Follows
    <2> QED  BY <1>3, <1>4, <2>1, <2>2, <2>4, Pair
  <1>7. CASE kind = "dynamodb"
    <2> DEFINE e == Copying(Put(n, {"item", "queued"}), i)
    <2>1. ReplayOf(i, n) = <<Read, {c}, {e}>>
      BY <1>7 DEF ReplayOf, Pick, DynamoRetryDeadLetterJob
    <2>2. /\ e \in Changes /\ e.id = n /\ e.mark = "accepted" /\ e.lease = "keep" /\ e.of = i
          /\ e.add = {"item", "queued"} /\ e.del = {}
      BY <1>1 DEF Changes, Places, Row
    <2> HIDE DEF c, d, e
    <2>3. Mild(c) /\ Covered(c)
      BY <1>2, <1>3, <1>7 DEF Mild, Covered, Strips, Alive, Transactional, Indexed
    <2>4. Mild(e) /\ Covered(e)
      BY <1>7, <2>2 DEF Mild, Covered, Strips, Evidence, Transactional, Indexed
    <2>5. \A x \in {c} \cup {e} : Follows(x, Read)
      BY <2>3, <2>4 DEF Follows
    <2>6. /\ {c} \in Transactions /\ Marked({c}, "accepted") = {}
          /\ {e} \in Transactions /\ Marked({e}, "accepted") = {n}
      BY <1>3, <2>2, Lone
    <2> QED  BY <2>1, <2>5, <2>6, Three, Reading
  <1>8. CASE kind = "redis"
    <2> DEFINE b == Unless(Check(i, {"dead"}), {"retried"})
               e == Put(i, {"dead", "retried"})
               f == Put(n, {"record"})
               g == Copying(Put(n, {"ready"}), i)
    <2>1. ReplayOf(i, n) = <<{b}, {e}, {f}, {g}>>
      BY <1>8 DEF ReplayOf, Pick, RedisRetryDeadLetterJob
    <2>2. /\ b \in Changes /\ b.mark = "none" /\ e \in Changes /\ e.mark = "none"
          /\ f \in Changes /\ f.mark = "none" /\ g \in Changes /\ g.mark = "accepted" /\ g.id = n
      BY <1>1 DEF Changes, Places, DeadLetter, SortedSets
    <2>3. Fits({b}, restored)
      BY <1>2, <1>8 DEF Fits, Covered, Strips, Waiting, Tables, Transactional, Indexed
    <2>4. \A x \in {e, f, g} : Mild(x) /\ Covered(x)
      <3>1. Mild(e) /\ Covered(e)
        BY <1>2, <1>8 DEF Mild, Covered, Strips, Tables, Transactional, Indexed
      <3>2. Mild(f) /\ Covered(f)
        BY <1>2, <1>8 DEF Mild, Covered, Strips, Tables, Transactional, Indexed
      <3>3. Mild(g) /\ Covered(g)
        BY <1>2, <1>8 DEF Mild, Covered, Strips, Tables, Transactional, Indexed
      <3> HIDE DEF e, f, g
      <3> QED  BY <3>1, <3>2, <3>3
    <2> HIDE DEF b, c, d, e, f, g
    <2>5. \A x \in {e} \cup {f} \cup {g} : Follows(x, {b})
      BY <2>4 DEF Follows
    <2>6. /\ {b} \in Transactions /\ Marked({b}, "accepted") = {}
          /\ {e} \in Transactions /\ Marked({e}, "accepted") = {}
          /\ {f} \in Transactions /\ Marked({f}, "accepted") = {}
          /\ {g} \in Transactions /\ Marked({g}, "accepted") = {n}
      BY <2>2, Lone
    <2> QED  BY <2>1, <2>3, <2>5, <2>6, Four
  <1> QED  BY <1>0, <1>5, <1>6, <1>7, <1>8 DEF Servers, Transactional

(* A removal deletes, at once or after a look.                              *)
LEMMA Deletes ==
  ASSUME NEW i \in Ids, NEW places \in SUBSET Places
  PROVE  /\ Removing(Erase(i, places)) \in Changes
         /\ {Removing(Erase(i, places))} \in Transactions
         /\ Admits(<<{Removing(Erase(i, places))}>>, {})
         /\ Admits(<<Read, {Removing(Erase(i, places))}>>, {})
  <1> DEFINE c == Removing(Erase(i, places))
  <1>1. c \in Changes /\ c.mark = "removed" /\ c.add = {} /\ c.lease = "keep" /\ c.of = NoId
    BY DEF Changes
  <1> HIDE DEF c
  <1>2. {c} \in Transactions /\ Marked({c}, "accepted") = {}
    BY <1>1, Lone
  <1>3. Fits({c}, restored) /\ \A x \in {c} : Follows(x, Read)
    BY <1>1, Removals
  <1>4. Admits(<<{c}>>, {}) /\ Admits(<<Read, {c}>>, {})
    BY <1>2, <1>3, One, Two, Reading
  <1> QED  BY <1>1, <1>2, <1>4 DEF c

LEMMA ClearedDeletes ==
  ASSUME NEW i \in Ids, NEW s \in Statuses
  PROVE  \E places \in SUBSET Places : Cleared(i, s) = Removing(Erase(i, places))
  <1>1. /\ DeadLetter \in SUBSET Places /\ Row \in SUBSET Places
        /\ {"done"} \in SUBSET Places /\ ({"done"} \cup Row) \in SUBSET Places
    BY DEF Places
  <1> HIDE DEF Removing, Erase
  <1>2. CASE s = "failed"
    BY <1>1, <1>2 DEF Cleared
  <1>3. CASE s = "completed" /\ "completed" \in at[i]
    BY <1>1, <1>3 DEF Cleared
  <1>4. CASE s = "completed" /\ "completed" \notin at[i]
    BY <1>1, <1>4 DEF Cleared
  <1>5. CASE s \notin {"failed", "completed"}
    BY <1>1, <1>5 DEF Cleared
  <1> QED  BY <1>2, <1>3, <1>4, <1>5

LEMMA RedisRemoves ==
  ASSUME CoreInv, kind = "redis", NEW i \in Ids
  PROVE  /\ Admits(RedisRemoveJob(i), {})
         /\ Admits(<<Read>> \o RedisRemoveJob(i), {})
  <1>1. CASE Recorded(i)
    <2> DEFINE c == Erase(i, {"record", "delay"})
               d == Removing(Erase(i, SortedSets))
    <2>1. RedisRemoveJob(i) = <<Read, {c}, {d}>>
      BY <1>1 DEF RedisRemoveJob
    <2>2. c \in Changes /\ c.mark = "none" /\ Mild(c) /\ Covered(c)
      BY DEF Changes, Places, Row, Mild, Covered, Strips, Tables, Transactional, Indexed
    <2>3. /\ d \in Changes /\ d.mark = "removed" /\ d.add = {} /\ d.lease = "keep" /\ d.of = NoId
      BY DEF Changes, Places
    <2> HIDE DEF c, d
    <2>4. /\ {c} \in Transactions /\ Marked({c}, "accepted") = {}
          /\ {d} \in Transactions /\ Marked({d}, "accepted") = {}
      BY <2>2, <2>3, Lone
    <2>5. \A x \in {d} : Follows(x, Read)
      BY <2>3, Removals
    <2>6. Follows(c, Read)
      BY <2>2 DEF Follows
    <2>7. \A x \in {c} \cup {d} : Follows(x, Read)
      BY <2>5, <2>6
    <2>8. \A x \in Read \cup {c} \cup {d} : Follows(x, Read)
      BY <2>7 DEF Read
    <2>9. Admits(<<Read, {c}, {d}>>, {}) /\ Admits(<<Read, Read, {c}, {d}>>, {})
      BY <2>4, <2>7, <2>8, Three, Four, Reading
    <2>10. <<Read>> \o <<Read, {c}, {d}>> = <<Read, Read, {c}, {d}>>
      BY JoinedThree
    <2> QED  BY <2>1, <2>9, <2>10
  <1>2. CASE ~Recorded(i)
    <2> DEFINE places == IF "dead" \in at[i] THEN DeadLetter ELSE {"done"}
               d == Removing(Erase(i, places))
    <2>1. RedisRemoveJob(i) = <<Read, {d}>>
      BY <1>2 DEF RedisRemoveJob
    <2>2. places \in SUBSET Places
      BY DEF Places
    <2>3. d \in Changes /\ d.mark = "removed" /\ d.add = {} /\ d.lease = "keep" /\ d.of = NoId
      BY <2>2 DEF Changes
    <2> HIDE DEF d
    <2>4. {d} \in Transactions /\ Marked({d}, "accepted") = {}
      BY <2>3, Lone
    <2>5. \A x \in {d} : Follows(x, Read)
      BY <2>3, Removals
    <2>6. \A x \in Read \cup {d} : Follows(x, Read)
      BY <2>5 DEF Read
    <2>7. Admits(<<Read, {d}>>, {}) /\ Admits(<<Read, Read, {d}>>, {})
      BY <2>4, <2>5, <2>6, Two, Three, Reading
    <2>8. <<Read>> \o <<Read, {d}>> = <<Read, Read, {d}>>
      BY JoinedTwo
    <2> QED  BY <2>1, <2>7, <2>8
  <1> QED  BY <1>1, <1>2

LEMMA RemoveAdmitted ==
  ASSUME CoreInv, NEW i \in Ids
  PROVE  Admits(RemoveOf(i), {})
  <1>0. kind \in Servers /\ at[i] \in SUBSET Places
    BY DEF CoreInv, TypeInv
  <1>1. /\ Row \in SUBSET Places /\ DeadLetter \in SUBSET Places /\ {"done"} \in SUBSET Places
        /\ (Row \cup DeadLetter) \in SUBSET Places
    BY DEF Places
  <1> HIDE DEF Removing, Erase
  <1>2. CASE kind = "postgres"
    BY <1>1, <1>2, Deletes DEF RemoveOf, Pick, PgRemoveJob
  <1>3. CASE kind = "mysql"
    BY <1>0, <1>3, Deletes DEF RemoveOf, Pick, MyRemoveJob
  <1>4. CASE kind = "mongodb"
    BY <1>1, <1>4, Deletes DEF RemoveOf, Pick, MongoRemoveJob
  <1>5. CASE kind = "dynamodb"
    BY <1>1, <1>5, Deletes DEF RemoveOf, Pick, DynamoRemoveJob
  <1>6. CASE kind = "redis"
    <2>1. RemoveOf(i) = RedisRemoveJob(i)
      BY <1>6 DEF RemoveOf, Pick
    <2> QED  BY <1>6, <2>1, RedisRemoves
  <1> QED  BY <1>0, <1>2, <1>3, <1>4, <1>5, <1>6 DEF Servers

LEMMA CleanAdmitted ==
  ASSUME CoreInv, NEW i \in Ids, NEW s \in Statuses
  PROVE  Admits(CleanOf(i, s), {})
  <1>0. kind \in Servers
    BY DEF CoreInv, TypeInv
  <1>1. PICK places \in SUBSET Places : Cleared(i, s) = Removing(Erase(i, places))
    BY ClearedDeletes
  <1>2. {"done"} \in SUBSET Places
    BY DEF Places
  <1> HIDE DEF Removing, Erase
  <1>3. CASE kind \in {"postgres", "mongodb", "dynamodb"}
    <2>1. CleanOf(i, s) = <<Read, {Removing(Erase(i, places))}>>
      BY <1>1, <1>3 DEF CleanOf, Pick, PgCleanByStatus, MongoCleanByStatus, DynamoCleanByStatus
    <2> QED  BY <2>1, Deletes
  <1>4. CASE kind = "mysql"
    <2>1. CleanOf(i, s) = <<{Removing(Erase(i, places))}>>
      BY <1>1, <1>4 DEF CleanOf, Pick, MyCleanByStatus
    <2> QED  BY <2>1, Deletes
  <1>5. CASE kind = "redis"
    <2>1. CASE s = "completed"
      <3>1. CleanOf(i, s) = <<Read, {Removing(Erase(i, {"done"}))}>>
        BY <1>5, <2>1 DEF CleanOf, Pick, RedisCleanJobs
      <3> QED  BY <1>2, <3>1, Deletes
    <2>2. CASE s # "completed"
      <3>1. CleanOf(i, s) = <<Read>> \o RedisRemoveJob(i)
        BY <1>5, <2>2 DEF CleanOf, Pick, RedisCleanJobs
      <3> QED  BY <1>5, <3>1, RedisRemoves
    <2> QED  BY <2>1, <2>2
  <1> QED  BY <1>0, <1>3, <1>4, <1>5 DEF Servers

(* Many removals at once.                                                   *)
LEMMA Sweeps ==
  ASSUME NEW f \in [Ids -> SUBSET Places], NEW S \in SUBSET Ids
  PROVE  LET T == {Removing(Erase(i, f[i])) : i \in S}
         IN /\ T \in Transactions /\ Marked(T, "accepted") = {} /\ Fits(T, restored)
            /\ \A U : \A c \in T : Follows(c, U)
  <1> DEFINE T == {Removing(Erase(i, f[i])) : i \in S}
  <1>1. \A i \in S : LET c == Removing(Erase(i, f[i]))
                     IN c \in Changes /\ c.mark = "removed" /\ c.add = {} /\ c.lease = "keep"
                        /\ c.of = NoId /\ c.id = i
    BY DEF Changes
  <1> HIDE DEF Removing, Erase
  <1>2. \A c, d \in T : c.id = d.id => c = d
    BY <1>1
  <1>3. \A c \in T : c \in Changes /\ c.mark = "removed" /\ c.add = {} /\ c.lease = "keep" /\ c.of = NoId
    BY <1>1
  <1> HIDE DEF T
  <1>4. T \in Transactions
    BY <1>2, <1>3 DEF Transactions
  <1>5. Fits(T, restored) /\ Marked(T, "accepted") = {} /\ \A U : \A c \in T : Follows(c, U)
    BY <1>3, Removals
  <1> QED  BY <1>4, <1>5 DEF T

LEMMA ObliterateAdmitted ==
  ASSUME CoreInv, NEW order \in Collections
  PROVE  Admits(Pick(PgObliterateQueue, MyObliterateQueue, MongoObliterateQueue(order),
                     DynamoObliterateQueue, RedisObliterateQueue, <<>>), {})
  <1>0. kind \in Servers /\ at \in [Ids -> SUBSET Places]
    BY DEF CoreInv, TypeInv
  <1>1. /\ Row \subseteq Places /\ DeadLetter \subseteq Places /\ {"done"} \subseteq Places
        /\ (Row \cup DeadLetter) \subseteq Places /\ SortedSets \subseteq Places
        /\ (SortedSets \cup DeadLetter \cup {"done"}) \subseteq Places
    BY DEF Places
  <1>2. CASE kind = "postgres"
    <2> DEFINE T == {Removing(Erase(i, Row \cup DeadLetter)) : i \in Ids}
    <2>1. T \in Transactions /\ Marked(T, "accepted") = {} /\ Fits(T, restored)
      <3> HIDE DEF Removing, Erase
      <3> DEFINE f == [i \in Ids |-> Row \cup DeadLetter]
      <3>1. f \in [Ids -> SUBSET Places] /\ \A i \in Ids : f[i] = Row \cup DeadLetter
        BY <1>1
      <3> HIDE DEF f
      <3>2. T = {Removing(Erase(i, f[i])) : i \in Ids}
        BY <3>1
      <3> QED  BY <3>1, <3>2, Sweeps
    <2> HIDE DEF T
    <2>2. Admits(<<T>>, {})
      BY <2>1, One
    <2> QED  BY <1>2, <2>2 DEF T, Pick, PgObliterateQueue
  <1>3. CASE kind = "mysql"
    <2> DEFINE T == {Removing(Erase(i, at[i])) : i \in Ids}
    <2>1. T \in Transactions /\ Marked(T, "accepted") = {} /\ Fits(T, restored)
      <3> HIDE DEF Removing, Erase
      <3> QED  BY <1>0, Sweeps
    <2> HIDE DEF T
    <2>2. Admits(<<T>>, {})
      BY <2>1, One
    <2> QED  BY <1>3, <2>2 DEF T, Pick, MyObliterateQueue
  <1>4. CASE kind = "mongodb"
    <2> DEFINE T(k) == {Removing(Erase(i, order[k])) : i \in Ids}
               P == [k \in 1..3 |-> T(k)]
    <2>1. \A k \in 1..3 : order[k] \subseteq Places
      BY <1>1 DEF Collections
    <2>2. \A k \in 1..3 : /\ T(k) \in Transactions /\ Marked(T(k), "accepted") = {}
                          /\ Fits(T(k), restored) /\ \A U : \A c \in T(k) : Follows(c, U)
      <3> HIDE DEF Removing, Erase
      <3> SUFFICES ASSUME NEW k \in 1..3
                   PROVE  /\ T(k) \in Transactions /\ Marked(T(k), "accepted") = {}
                          /\ Fits(T(k), restored) /\ \A U : \A c \in T(k) : Follows(c, U)
        OBVIOUS
      <3> DEFINE f == [i \in Ids |-> order[k]]
      <3>1. f \in [Ids -> SUBSET Places] /\ \A i \in Ids : f[i] = order[k]
        BY <2>1
      <3> HIDE DEF f
      <3>2. T(k) = {Removing(Erase(i, f[i])) : i \in Ids}
        BY <3>1
      <3> QED  BY <3>1, <3>2, Sweeps
    <2> HIDE DEF T
    <2>3. P \in Programs /\ Len(P) = 3 /\ P # <<>> /\ \A k \in 1..3 : P[k] = T(k)
      BY <2>2 DEF Programs
    <2> HIDE DEF P
    <2>4. 1..Len(P) = 1..3 /\ 1..(Len(P) - 1) \subseteq 1..3 /\ 2..Len(P) \subseteq 1..3
      BY <2>3
    <2>5. Commits(P[1]) => Fits(P[1], restored)
      BY <2>2, <2>3
    <2>6. \A k \in 1..3 : Marked(P[k], "accepted") = {}
      BY <2>2, <2>3
    <2>7. \A k \in 1..3 : \A c \in P[k] : Follows(c, P[1])
      BY <2>2, <2>3
    <2>8. Admits(P, {})
      <3>1. \A k \in 2..Len(P) : \A c \in P[k] : Follows(c, P[1])
        BY <2>4, <2>7
      <3> QED  BY <2>3, <2>4, <2>5, <2>6, <3>1 DEF Admits, Follows
    <2> QED  BY <1>4, <2>8 DEF P, T, Pick, MongoObliterateQueue
  <1>5. CASE kind = "dynamodb"
    <2> DEFINE T == {Removing(Erase(i, DynamoScanned(i))) : i \in Ids}
    <2>1. /\ T \in Transactions /\ Marked(T, "accepted") = {}
          /\ \A U : \A c \in T : Follows(c, U)
      <3> HIDE DEF Removing, Erase
      <3> DEFINE f == [i \in Ids |-> DynamoScanned(i)]
      <3>1. f \in [Ids -> SUBSET Places] /\ \A i \in Ids : f[i] = DynamoScanned(i)
        BY <1>1 DEF DynamoScanned
      <3> HIDE DEF f
      <3>2. T = {Removing(Erase(i, f[i])) : i \in Ids}
        BY <3>1
      <3> QED  BY <3>1, <3>2, Sweeps
    <2> HIDE DEF T
    <2>2. Admits(<<Read, T>>, {})
      BY <2>1, Two, Reading
    <2> QED  BY <1>5, <2>2 DEF T, Pick, DynamoObliterateQueue
  <1>6. CASE kind = "redis"
    <2> DEFINE S == {j \in Ids : at[j] \cap SortedSets # {}}
               T == {Erase(i, {"record", "delay"}) : i \in S}
               U == {Removing(Erase(i, SortedSets \cup DeadLetter \cup {"done"})) : i \in Ids}
    <2>1. /\ U \in Transactions /\ Marked(U, "accepted") = {}
          /\ \A c \in U : Follows(c, Read)
      <3> HIDE DEF Removing, Erase
      <3> DEFINE f == [i \in Ids |-> SortedSets \cup DeadLetter \cup {"done"}]
      <3>1. f \in [Ids -> SUBSET Places] /\ \A i \in Ids : f[i] = SortedSets \cup DeadLetter \cup {"done"}
        BY <1>1
      <3> HIDE DEF f
      <3>2. U = {Removing(Erase(i, f[i])) : i \in Ids}
        BY <3>1
      <3> QED  BY <3>1, <3>2, Sweeps
    <2>2. \A i \in Ids : LET c == Erase(i, {"record", "delay"})
                         IN c \in Changes /\ c.id = i /\ c.mark = "none" /\ Mild(c) /\ Covered(c)
      BY <1>6 DEF Changes, Places, Row, Mild, Covered, Strips, Tables, Transactional, Indexed
    <2>3. S \subseteq Ids
      OBVIOUS
    <2> HIDE DEF Erase, S
    <2>4. T \in Transactions /\ Marked(T, "accepted") = {} /\ \A c \in T : Follows(c, Read)
      <3>1. \A c \in T : \E i \in Ids : c = Erase(i, {"record", "delay"})
        BY <2>3
      <3>2. \A c \in T : c \in Changes /\ c.mark = "none" /\ Mild(c) /\ Covered(c)
        BY <2>2, <3>1
      <3>3. \A c, d \in T : c.id = d.id => c = d
        BY <2>2, <3>1
      <3> HIDE DEF T
      <3> QED  BY <3>2, <3>3 DEF Transactions, Marked, Follows
    <2> HIDE DEF T, U
    <2>5. Admits(<<Read, T, U>>, {})
      BY <2>1, <2>4, Three, Reading
    <2> QED  BY <1>6, <2>5 DEF T, U, S, Pick, RedisObliterateQueue
  <1> QED  BY <1>0, <1>2, <1>3, <1>4, <1>5, <1>6 DEF Servers

HIDE DEF Change, Check, Put, Erase, IfAny, Unless, Leased, Granting, Accepting, Copying, Acking, Removing

-----------------------------------------------------------------------------
(* Every operation that a client begins preserves the invariant.            *)
LEMMA DispatchKept ==
  ASSUME CoreInv, NEW a \in Clients, Dispatch(a) \/ DispatchBatch(a) \/ Replay(a)
  PROVE  CoreInv'
  <1>1. CASE Dispatch(a)
    <2>1. PICK i \in Ids \ used, delayed \in BOOLEAN :
            Start(a, EnqueueOf(i, delayed), NoId, "idle") /\ used' = used \cup {i}
      BY <1>1 DEF Dispatch
    <2>2. Admits(EnqueueOf(i, delayed), {i})
      BY EnqueueAdmitted
    <2>3. restored' = restored /\ beat' = beat
      BY <1>1 DEF Dispatch
    <2> QED  BY <2>1, <2>2, <2>3, Started
  <1>2. CASE DispatchBatch(a)
    <2>1. PICK S \in SUBSET (Ids \ used), first \in Ids, delayed \in BOOLEAN :
            Start(a, BatchOf(S, first, delayed), NoId, "idle") /\ used' = used \cup S
      BY <1>2 DEF DispatchBatch
    <2>2. Admits(BatchOf(S, first, delayed), S)
      BY <1>2, BatchAdmitted DEF DispatchBatch
    <2>3. restored' = restored /\ beat' = beat
      BY <1>2 DEF DispatchBatch
    <2> QED  BY <2>1, <2>2, <2>3, Started
  <1>3. CASE Replay(a)
    <2>1. PICK i \in DeadView, n \in Ids \ (used \cup keyed) :
            Start(a, ReplayOf(i, n), NoId, "idle") /\ used' = used \cup {n}
      BY <1>3 DEF Replay
    <2>2. Admits(ReplayOf(i, n), {n})
      BY ReplayAdmitted
    <2>3. restored' = restored /\ beat' = beat
      BY <1>3 DEF Replay
    <2> QED  BY <2>1, <2>2, <2>3, Started
  <1> QED  BY <1>1, <1>2, <1>3

(* An operation that draws no id.                                           *)
LEMMA CallKept ==
  ASSUME CoreInv, NEW a \in Clients, NEW P, Admits(P, {}),
         NEW i \in Ids \cup {NoId}, NEW next \in {"idle", "running", "recorded"},
         next # "idle" => i \in accepted,
         Start(a, P, i, next), restored' = restored, used' = used, beat' = beat
  PROVE  CoreInv'
  BY Started

LEMMA WorkKept ==
  ASSUME CoreInv, NEW a \in Clients,
         Lease(a) \/ Complete(a) \/ Acknowledge(a) \/ Bury(a) \/ Report(a)
  PROVE  CoreInv'
  <1>0. job[a] \in Ids \cup {NoId} /\ accepted \subseteq Ids
    BY DEF CoreInv, TypeInv
  <1>1. restored' = restored /\ used' = used /\ beat' = beat
    BY DEF Lease, Complete, Acknowledge, Bury, Report
  <1>2. CASE Lease(a)
    <2>1. PICK i \in Ids : Leasable(i) /\ Start(a, DequeueOf(i), NoId, "idle")
      BY <1>2 DEF Lease
    <2>2. Admits(DequeueOf(i), {})
      BY <2>1, DequeueAdmitted
    <2> QED  BY <1>1, <2>1, <2>2, CallKept
  <1>3. CASE ~Lease(a)
    <2>1. job[a] \in accepted
      BY <1>3 DEF CoreInv, Unborn, Complete, Acknowledge, Bury, Report
    <2>2. CASE Complete(a)
      <3>1. Start(a, CompletedOf(job[a]), job[a], "recorded")
        BY <2>2 DEF Complete
      <3>2. Admits(CompletedOf(job[a]), {})
        BY <2>1, CompletedAdmitted
      <3> QED  BY <1>0, <1>1, <2>1, <3>1, <3>2, CallKept
    <2>3. CASE Acknowledge(a)
      <3>1. Start(a, AckOf(job[a]), NoId, "idle")
        BY <2>3 DEF Acknowledge
      <3>2. Admits(AckOf(job[a]), {})
        BY <2>1, AckAdmitted
      <3> QED  BY <1>0, <1>1, <2>1, <3>1, <3>2, CallKept
    <2>4. CASE Bury(a)
      <3>1. Start(a, BuryOf(job[a]), NoId, "idle")
        BY <2>4 DEF Bury
      <3>2. Admits(BuryOf(job[a]), {})
        BY <2>1, BuryAdmitted
      <3> QED  BY <1>0, <1>1, <2>1, <3>1, <3>2, CallKept
    <2>5. CASE Report(a)
      <3>1. PICK P \in {AttemptsOf(job[a]), ProgressOf(job[a])} : Start(a, P, job[a], "running")
        BY <2>5 DEF Report
      <3>2. Admits(P, {})
        BY <2>1, ReportAdmitted
      <3> QED  BY <1>0, <1>1, <2>1, <3>1, <3>2, CallKept
    <2> QED  BY <1>3, <2>2, <2>3, <2>4, <2>5
  <1> QED  BY <1>2, <1>3

LEMMA SteerKept ==
  ASSUME CoreInv, NEW a \in Clients, Pass(a) \/ Promote(a) \/ Remove(a) \/ Clean(a) \/ Obliterate(a)
  PROVE  CoreInv'
  <1>0. accepted \subseteq Ids
    BY DEF CoreInv, TypeInv
  <1>1. restored' = restored /\ used' = used /\ beat' = beat
    BY DEF Pass, Promote, Remove, Clean, Obliterate
  <1> SUFFICES \E P : Admits(P, {}) /\ Start(a, P, NoId, "idle")
    BY <1>1, CallKept
  <1>3. CASE Pass(a)
    <2>1. CASE kind = "postgres" /\ Start(a, PgPromoteDelayedJobs(PgPromotable), NoId, "idle")
      BY <2>1, PgPassAdmitted
    <2>2. CASE \E i \in DelayedOf :
                 Start(a, (IF Piecewise THEN <<>> ELSE <<Read>>) \o MoveOf(i), NoId, "idle")
      BY <2>2, PassAdmitted
    <2> QED  BY <1>3, <2>1, <2>2 DEF Pass
  <1>4. CASE Promote(a)
    <2>1. PICK i \in accepted : Start(a, PromoteOf(i), NoId, "idle")
      BY <1>4 DEF Promote
    <2> QED  BY <2>1, PromoteAdmitted
  <1>5. CASE Remove(a)
    <2>1. PICK i \in accepted : Start(a, RemoveOf(i), NoId, "idle")
      BY <1>5 DEF Remove
    <2> QED  BY <1>0, <2>1, RemoveAdmitted
  <1>6. CASE Clean(a)
    <2>1. PICK i \in Ids, s \in Statuses : Start(a, CleanOf(i, s), NoId, "idle")
      BY <1>6 DEF Clean
    <2> QED  BY <2>1, CleanAdmitted
  <1>7. CASE Obliterate(a)
    <2>1. PICK order \in Collections :
            Start(a, Pick(PgObliterateQueue, MyObliterateQueue, MongoObliterateQueue(order),
                          DynamoObliterateQueue, RedisObliterateQueue, <<>>), NoId, "idle")
      BY <1>7 DEF Obliterate
    <2> QED  BY <2>1, ObliterateAdmitted
  <1> QED  BY <1>3, <1>4, <1>5, <1>6, <1>7

-----------------------------------------------------------------------------
(* What is on its way changes only with the programs of the clients.        *)
LEMMA FlightSame ==
  ASSUME Underway, todo' = todo, used \subseteq used', accepted' = accepted,
         \A b \in Clients : \A c \in Flight(b) : Mild(c)' /\ Covered(c)'
  PROVE  Underway'
  <1>1. \A b : Flight(b)' = Flight(b) /\ Awaited(b)' = Awaited(b)
    BY DEF Flight, Sent, Awaited, Marked
  <1>2. \A b \in Clients : \A c \in Flight(b)' : Mild(c)' /\ Covered(c)'
    BY <1>1
  <1>3. \A b \in Clients : \A k \in 1..(Len(todo'[b]) - 1) : Marked(todo'[b][k], "accepted") = {}
    BY DEF Underway
  <1>4. \A b \in Clients : Awaited(b)' \subseteq used' \ accepted'
    BY <1>1 DEF Underway
  <1>5. \A b \in Clients : \A d \in Clients \ {b} : Awaited(b)' \cap Awaited(d)' = {}
    BY <1>1 DEF Underway
  <1> QED  BY <1>2, <1>3, <1>4, <1>5 DEF Underway, Marked

(* A renewal that lands, whoever sent it and however late.                  *)
LEMMA BeatLanding ==
  ASSUME CoreInv, NEW i \in Ids, LandBeat(i), NEW T, T = Head(beat[i])
  PROVE  /\ beat[i] \in Programs /\ T = beat[i][1] /\ T \in Transactions
         /\ Tail(beat[i]) \in Programs /\ Len(Tail(beat[i])) = Len(beat[i]) - 1 /\ 1 \in 1..Len(beat[i])
         /\ \A k \in 1..Len(Tail(beat[i])) : Tail(beat[i])[k] = beat[i][k + 1] /\ k + 1 \in 1..Len(beat[i])
         /\ \A c \in T : /\ c \in Changes /\ Mild(c) /\ c.id = i /\ c.mark = "none"
                        /\ c.add \cap Waiting = {} /\ ~Strips(c)
         /\ Commits(T) => Lands(T) /\ Holds(T, NoId)
  <1>1. /\ beat[i] \in Programs /\ T = beat[i][1] /\ T \in Transactions
        /\ Tail(beat[i]) \in Programs /\ Len(Tail(beat[i])) = Len(beat[i]) - 1 /\ 1 \in 1..Len(beat[i])
        /\ \A k \in 1..Len(Tail(beat[i])) : Tail(beat[i])[k] = beat[i][k + 1] /\ k + 1 \in 1..Len(beat[i])
    <2>1. beat[i] \in Programs /\ beat[i] # <<>>
      BY DEF LandBeat, CoreInv, TypeInv
    <2>2. Len(beat[i]) \in Nat \ {0} /\ Len(Tail(beat[i])) = Len(beat[i]) - 1
      BY <2>1, HeadTail
    <2>3. 1 \in 1..Len(beat[i]) /\ \A k \in 1..(Len(beat[i]) - 1) : k + 1 \in 1..Len(beat[i])
      BY <2>2
    <2> QED  BY <2>1, <2>2, <2>3, HeadTail
  <1>2. \A c \in T : /\ c \in Changes /\ Mild(c) /\ c.id = i /\ c.mark = "none"
                     /\ c.add \cap Waiting = {} /\ ~Strips(c)
    BY <1>1 DEF CoreInv, Renewing, Transactions
  <1>3. UNCHANGED <<holders, accepted, acked, removed, source, restored>>
    BY DEF LandBeat, marks
  <1>4. ASSUME Commits(T)  PROVE Lands(T) /\ Holds(T, NoId)
    <2>1. Perform(T)
      BY <1>4 DEF LandBeat
    <2>2. Note(T)
      <3>1. \A m \in {"accepted", "acked", "removed"} : Marked(T, m) = {}
        BY <1>2 DEF Marked
      <3>2. \A c \in T : c.of = NoId
        BY <1>2 DEF Mild
      <3>3. source = [n \in Ids |-> source[n]]
        BY DEF CoreInv, TypeInv
      <3> QED  BY <1>3, <3>1, <3>2, <3>3 DEF Note
    <2>3. Fits(T, restored)
      <3> SUFFICES ASSUME NEW c \in T
                   PROVE  /\ Mild(c) /\ c.mark = "none" /\ c.add \cap Waiting = {} /\ ~Strips(c)
                          /\ kind \in Tables /\ c.add \cap Alive # {} => at[c.id] \cap Alive # {}
                          /\ kind \in Transactional => "dead" \notin c.add
        BY <1>2 DEF Fits, Mild, Covered
      <3>1. kind \in Tables /\ c.add \cap Alive # {} => at[c.id] \cap Alive # {}
        BY <1>2, <1>4 DEF Mild, Commits
      <3>2. kind \in Transactional => "dead" \notin c.add
        BY <1>2 DEF Mild, DeadLetter
      <3> QED  BY <1>2, <3>1, <3>2
    <2>4. Lands(T) /\ Holds(T, NoId)
      <3>1. Lands(T)
        BY <1>3, <1>4, <2>1, <2>2, <2>3 DEF Lands
      <3>2. Holds(T, NoId)
        BY <1>3 DEF Holds, CoreInv, TypeInv
      <3> QED  BY <3>1, <3>2
    <2> QED  BY <2>4
  <1> QED  BY <1>1, <1>2, <1>4

LEMMA BeatLands ==
  ASSUME CoreInv, NEW i \in Ids, LandBeat(i)
  PROVE  CoreInv'
  <1> DEFINE T == Head(beat[i])
  <1>1. /\ beat[i] \in Programs /\ T = beat[i][1] /\ T \in Transactions
        /\ Tail(beat[i]) \in Programs /\ Len(Tail(beat[i])) = Len(beat[i]) - 1 /\ 1 \in 1..Len(beat[i])
        /\ \A k \in 1..Len(Tail(beat[i])) : Tail(beat[i])[k] = beat[i][k + 1] /\ k + 1 \in 1..Len(beat[i])
    BY BeatLanding
  <1>2. \A c \in T : /\ c \in Changes /\ Mild(c) /\ c.id = i /\ c.mark = "none"
                     /\ c.add \cap Waiting = {} /\ ~Strips(c)
    BY BeatLanding
  <1>3. /\ UNCHANGED <<used, todo, stage, job, holders, accepted, acked, removed, source, restored>>
    BY DEF LandBeat, marks
  <1> HIDE DEF T
  <1>4. CASE ~Commits(T)
    <2>1. beat' = [beat EXCEPT ![i] = <<>>] /\ UNCHANGED <<kind, at, due, lapsed, keyed>>
      BY <1>4 DEF LandBeat, T
    <2>2. TypeInv'
      BY <1>3, <2>1, NothingSent DEF CoreInv, TypeInv
    <2>3. Unborn'
      BY <1>3, <2>1 DEF CoreInv, Unborn, TypeInv
    <2>4. \A c : Mild(c)' = Mild(c) /\ Covered(c)' = Covered(c) /\ Strips(c)' = Strips(c)
      BY <1>3, <2>1 DEF Mild, Covered, Strips, Alive
    <2>5. Underway'
      <3>1. \A b \in Clients : \A c \in Flight(b) : Mild(c)' /\ Covered(c)'
        BY <2>4 DEF CoreInv, Underway
      <3> QED  BY <1>3, <3>1, FlightSame DEF CoreInv
    <2>6. Renewing'
      <3> SUFFICES ASSUME NEW j \in Ids, NEW k \in 1..Len(beat'[j]), NEW c \in beat'[j][k]
                   PROVE  Mild(c)' /\ c.id = j /\ c.mark = "none" /\ c.add \cap Waiting' = {} /\ ~Strips(c)'
        BY DEF Renewing
      <3>1. j # i /\ beat'[j] = beat[j]
        BY <2>1 DEF CoreInv, TypeInv
      <3> QED  BY <2>1, <2>4, <3>1 DEF CoreInv, Renewing, Waiting
    <2>7. Exclusive' /\ Settled' /\ Unique' /\ Kept'
      BY <1>3, <2>1 DEF CoreInv, Exclusive, Waiting, Settled, Unique, Kept, Alive, HasRow
    <2> QED  BY <2>2, <2>3, <2>5, <2>6, <2>7 DEF CoreInv
  <1>5. CASE Commits(T)
    <2>1. Perform(T) /\ beat' = [beat EXCEPT ![i] = Tail(@)]
      BY <1>5 DEF LandBeat, T
    <2>4. Lands(T) /\ Holds(T, NoId)
      BY <1>5, BeatLanding DEF T
    <2>5. TypeInv'
      <3>1. /\ at' \in [Ids -> SUBSET Places] /\ lapsed' \subseteq Ids
            /\ kind' = kind /\ due' = due /\ keyed' = keyed
        BY <1>1, <2>1, Landed DEF CoreInv, TypeInv
      <3>2. beat' \in [Ids -> Programs]
        BY <1>1, <2>1 DEF CoreInv, TypeInv
      <3> QED  BY <1>3, <3>1, <3>2 DEF CoreInv, TypeInv
    <2>6. Unborn'
      <3>1. \A j \in Ids \ accepted' : /\ at'[j] \subseteq {"record", "delay"}
                                       /\ source'[j] = NoId /\ holders'[j] = {}
        BY <1>1, <2>4, UnbornKept DEF CoreInv
      <3>2. \A j \in Ids \ accepted' : beat'[j] = <<>>
        <4>1. i \in accepted
          BY DEF LandBeat, CoreInv, Unborn
        <4> QED  BY <1>3, <2>1, <4>1 DEF CoreInv, Unborn, TypeInv
      <3> QED  BY <1>3, <3>1, <3>2 DEF CoreInv, Unborn
    <2>7. Underway'
      <3>1. \A b \in Clients : \A c \in Flight(b)' : Mild(c)' /\ Covered(c)'
        BY <1>1, <1>3, <2>4, FlightStays DEF CoreInv
      <3>2. \A b : Flight(b)' = Flight(b)
        BY <1>3 DEF Flight, Sent
      <3> QED  BY <1>3, <3>1, <3>2, FlightSame DEF CoreInv
    <2>8. Renewing'
      <3> SUFFICES ASSUME NEW j \in Ids, NEW k \in 1..Len(beat'[j]), NEW c \in beat'[j][k]
                   PROVE  Mild(c)' /\ c.id = j /\ c.mark = "none" /\ c.add \cap Waiting' = {} /\ ~Strips(c)'
        BY DEF Renewing
      <3>1. \E l \in 1..Len(beat[j]) : c \in beat[j][l]
        <4>1. CASE j = i
          <5>1. beat'[j] = Tail(beat[i])
            BY <2>1, <4>1 DEF CoreInv, TypeInv
          <5> QED  BY <1>1, <4>1, <5>1
        <4>2. CASE j # i
          BY <2>1, <4>2 DEF CoreInv, TypeInv
        <4> QED  BY <4>1, <4>2
      <3> QED  BY <1>1, <2>4, <3>1, RenewingStays DEF CoreInv
    <2>9. Exclusive' /\ Settled' /\ Unique' /\ Kept'
      BY <1>1, <2>4, ExclusiveKept, SettledKept, UniqueKept, KeptKept DEF CoreInv
    <2> QED  BY <2>5, <2>6, <2>7, <2>8, <2>9 DEF CoreInv
  <1> QED  BY <1>4, <1>5

LEMMA BeatSent ==
  ASSUME CoreInv, NEW a \in Clients, SendBeat(a)
  PROVE  CoreInv'
  <1> DEFINE P == ExtendOf(job[a])
  <1>1. /\ beat' = [beat EXCEPT ![job[a]] = P] /\ job[a] \in accepted
        /\ UNCHANGED <<kind, at, due, lapsed, keyed, used, todo, stage, job, holders>>
        /\ UNCHANGED <<accepted, acked, removed, source, restored>>
    BY DEF SendBeat, CoreInv, Unborn, storeVars, marks
  <1>2. /\ P \in Programs
        /\ \A k \in 1..Len(P) : \A c \in P[k] :
             Mild(c) /\ c.id = job[a] /\ c.mark = "none" /\ c.add \cap Waiting = {} /\ ~Strips(c)
    BY <1>1, ExtendRenews
  <1> HIDE DEF P
  <1>3. TypeInv'
    BY <1>1, <1>2 DEF CoreInv, TypeInv
  <1>4. Unborn'
    BY <1>1 DEF CoreInv, Unborn, TypeInv
  <1>5. \A c : Mild(c)' = Mild(c) /\ Covered(c)' = Covered(c) /\ Strips(c)' = Strips(c)
    BY <1>1 DEF Mild, Covered, Strips, Alive
  <1>6. Underway'
    <2>1. \A b \in Clients : \A c \in Flight(b) : Mild(c)' /\ Covered(c)'
      BY <1>5 DEF CoreInv, Underway
    <2> QED  BY <1>1, <2>1, FlightSame DEF CoreInv
  <1>7. Renewing'
    <2> SUFFICES ASSUME NEW j \in Ids, NEW k \in 1..Len(beat'[j]), NEW c \in beat'[j][k]
                 PROVE  Mild(c)' /\ c.id = j /\ c.mark = "none" /\ c.add \cap Waiting' = {} /\ ~Strips(c)'
      BY DEF Renewing
    <2>1. beat'[j] = IF j = job[a] THEN P ELSE beat[j]
      BY <1>1 DEF CoreInv, TypeInv
    <2>2. Mild(c) /\ c.id = j /\ c.mark = "none" /\ c.add \cap Waiting = {} /\ ~Strips(c)
      BY <1>2, <2>1 DEF CoreInv, Renewing
    <2> QED  BY <1>1, <1>5, <2>2 DEF Waiting
  <1>8. Exclusive' /\ Settled' /\ Unique' /\ Kept'
    BY <1>1 DEF CoreInv, Exclusive, Waiting, Settled, Unique, Kept, Alive, HasRow
  <1> QED  BY <1>3, <1>4, <1>6, <1>7, <1>8 DEF CoreInv

(* Time and crashes: only a holder, a program or a job in hand can go.      *)
LEMMA TimeKept ==
  ASSUME CoreInv, NEW i \in Ids, Mature(i) \/ Lapse(i)
  PROVE  CoreInv'
  <1>1. /\ UNCHANGED <<kind, at, keyed, used, todo, stage, job, beat>>
        /\ UNCHANGED <<accepted, acked, removed, source, restored>>
        /\ due' \subseteq Ids /\ lapsed' \subseteq Ids
        /\ holders' \in [Ids -> SUBSET Clients]
        /\ \A j \in Ids : holders'[j] = {} \/ (holders'[j] = holders[j] /\ (j \in lapsed' => j \in lapsed))
    BY DEF CoreInv, TypeInv, Mature, Lapse, clientVars, marks
  <1>2. TypeInv' /\ Unborn'
    BY <1>1 DEF CoreInv, TypeInv, Unborn
  <1>3. \A c : Mild(c)' = Mild(c) /\ Covered(c)' = Covered(c) /\ Strips(c)' = Strips(c)
    BY <1>1 DEF Mild, Covered, Strips, Alive
  <1>4. Underway' /\ Renewing'
    <2>1. \A b \in Clients : \A c \in Flight(b) : Mild(c)' /\ Covered(c)'
      BY <1>3 DEF CoreInv, Underway
    <2>2. Underway'
      BY <1>1, <2>1, FlightSame DEF CoreInv
    <2>3. Renewing'
      BY <1>1, <1>3 DEF CoreInv, Renewing, Waiting
    <2> QED  BY <2>2, <2>3
  <1>5. Exclusive'
    BY <1>1 DEF CoreInv, Exclusive, Waiting
  <1>6. Settled' /\ Unique' /\ Kept'
    BY <1>1 DEF CoreInv, Settled, Unique, Kept, Alive, HasRow
  <1> QED  BY <1>2, <1>4, <1>5, <1>6 DEF CoreInv

LEMMA CrashKept ==
  ASSUME CoreInv, NEW a \in Clients, Crash(a)
  PROVE  CoreInv'
  <1>1. /\ UNCHANGED <<kind, at, due, lapsed, keyed, used, beat>>
        /\ UNCHANGED <<accepted, acked, removed, source, restored>>
        /\ todo' = [todo EXCEPT ![a] = <<>>]
        /\ stage' = [stage EXCEPT ![a] = "idle"] /\ job' = [job EXCEPT ![a] = NoId]
        /\ holders' = [i \in Ids |-> holders[i] \ {a}]
    BY DEF CoreInv, TypeInv, Servers, Crash
  <1>2. TypeInv'
    BY <1>1, NothingSent DEF CoreInv, TypeInv
  <1>3. Unborn'
    BY <1>1 DEF CoreInv, Unborn, TypeInv
  <1>4. \A c : Mild(c)' = Mild(c) /\ Covered(c)' = Covered(c) /\ Strips(c)' = Strips(c)
    BY <1>1 DEF Mild, Covered, Strips, Alive
  <1>5. Underway'
    <2>1. \A b \in Clients : Flight(b)' = IF b = a THEN {} ELSE Flight(b)
      BY <1>1, NothingSent DEF Flight, CoreInv, TypeInv, Sent
    <2>2. \A b \in Clients : Awaited(b)' \subseteq Awaited(b)
      BY <2>1 DEF Awaited, Marked
    <2>3. \A b \in Clients : \A c \in Flight(b)' : Mild(c)' /\ Covered(c)'
      BY <1>4, <2>1 DEF CoreInv, Underway
    <2>4. \A b \in Clients : \A k \in 1..(Len(todo'[b]) - 1) : Marked(todo'[b][k], "accepted") = {}
      <3> SUFFICES ASSUME NEW b \in Clients
                   PROVE  \A k \in 1..(Len(todo'[b]) - 1) : Marked(todo'[b][k], "accepted") = {}
        OBVIOUS
      <3>1. CASE b = a
        BY <1>1, <3>1 DEF CoreInv, TypeInv
      <3>2. CASE b # a
        <4>1. todo'[b] = todo[b]  BY <1>1, <3>2 DEF CoreInv, TypeInv
        <4> QED  BY <4>1 DEF CoreInv, Underway
      <3> QED  BY <3>1, <3>2
    <2>5. \A b \in Clients : Awaited(b)' \subseteq used' \ accepted'
      BY <1>1, <2>2 DEF CoreInv, Underway
    <2>6. \A b \in Clients : \A d \in Clients \ {b} : Awaited(b)' \cap Awaited(d)' = {}
      BY <2>2 DEF CoreInv, Underway
    <2> QED  BY <2>3, <2>4, <2>5, <2>6 DEF Underway, Marked
  <1>6. Renewing'
    BY <1>1, <1>4 DEF CoreInv, Renewing, Waiting
  <1>7. Exclusive'
    BY <1>1 DEF CoreInv, TypeInv, Exclusive, Waiting
  <1>8. Settled' /\ Unique' /\ Kept'
    BY <1>1 DEF CoreInv, Settled, Unique, Kept, Alive, HasRow
  <1> QED  BY <1>2, <1>3, <1>5, <1>6, <1>7, <1>8 DEF CoreInv

-----------------------------------------------------------------------------
LEMMA NextKept ==
  ASSUME CoreInv, [Next]_vars
  PROVE  CoreInv'
  <1>1. ASSUME NEW a \in Clients, Step(a)  PROVE CoreInv'
    BY <1>1, Stepped
  <1>2. CASE UNCHANGED vars
    <2>1. /\ UNCHANGED <<kind, at, due, lapsed, keyed, used, todo, stage, job, beat, holders>>
          /\ UNCHANGED <<accepted, acked, removed, source, restored>>
      BY <1>2 DEF vars, storeVars, clientVars, marks
    <2>2. \A c : Mild(c)' = Mild(c) /\ Covered(c)' = Covered(c) /\ Strips(c)' = Strips(c)
      BY <2>1 DEF Mild, Covered, Strips, Alive
    <2>3. \A b \in Clients : \A c \in Flight(b) : Mild(c)' /\ Covered(c)'
      BY <2>2 DEF CoreInv, Underway
    <2>4. Underway'
      BY <2>1, <2>3, FlightSame DEF CoreInv
    <2>5. Renewing'
      BY <2>1, <2>2 DEF CoreInv, Renewing, Waiting
    <2>6. TypeInv' /\ Unborn'
      BY <2>1 DEF CoreInv, TypeInv, Unborn
    <2>7. Exclusive' /\ Settled' /\ Unique' /\ Kept'
      BY <2>1 DEF CoreInv, Exclusive, Waiting, Settled, Unique, Kept, Alive, HasRow
    <2> QED  BY <2>4, <2>5, <2>6, <2>7 DEF CoreInv
  <1> QED
    BY <1>1, <1>2, DispatchKept, WorkKept, SteerKept, BeatLands, BeatSent, TimeKept, CrashKept DEF Next

LEMMA InitHolds ==
  ASSUME StoreInit, kind \in Servers
  PROVE  CoreInv
  <1>1. TypeInv
    BY NothingSent DEF StoreInit, TypeInv
  <1>2. Unborn /\ Exclusive /\ Unique /\ Kept
    BY <1>1 DEF StoreInit, Unborn, Exclusive, Unique, Kept, HasRow
  <1>3. Underway /\ Renewing
    BY NothingSent DEF StoreInit, Underway, Renewing, Flight, Awaited, Marked, Sent
  <1>4. Settled
    BY DEF StoreInit, Settled
  <1> QED  BY <1>1, <1>2, <1>3, <1>4 DEF CoreInv

(* The adapter is chosen once; all but the file store keep the invariant.   *)
LEMMA Guarded ==
  Spec => [](kind \in Kinds /\ (kind # "file" => CoreInv))
  <1> DEFINE Inv == kind \in Kinds /\ (kind # "file" => CoreInv)
  <1>1. StoreInit => Inv
    BY StoreConstantsOK, InitHolds DEF StoreInit, Servers
  <1>2. Inv /\ [Next]_vars => Inv'
    <2> SUFFICES ASSUME Inv, [Next]_vars PROVE Inv'  OBVIOUS
    <2>1. kind' = kind
      <3>1. ASSUME NEW a, NEW T, NEW rest, NEW i, NEW next, Carry(a, T, rest, i, next)
            PROVE  kind' = kind
        BY <3>1 DEF Carry, Perform
      <3>2. ASSUME NEW a \in Clients,
                   Dispatch(a) \/ DispatchBatch(a) \/ Lease(a) \/ Complete(a) \/ Acknowledge(a) \/ Bury(a)
            PROVE  kind' = kind
        BY <3>1, <3>2 DEF Dispatch, DispatchBatch, Lease, Complete, Acknowledge, Bury, Start
      <3>3. ASSUME NEW a \in Clients, Report(a) \/ Pass(a) \/ Step(a) \/ Promote(a) \/ Replay(a)
            PROVE  kind' = kind
        BY <3>1, <3>3 DEF Report, Pass, Step, Promote, Replay, Start
      <3>4. ASSUME NEW a \in Clients, Remove(a) \/ Clean(a) \/ Obliterate(a)
            PROVE  kind' = kind
        BY <3>1, <3>4 DEF Remove, Clean, Obliterate, Start
      <3>5. ASSUME NEW a \in Clients, SendBeat(a) \/ Crash(a)  PROVE kind' = kind
        BY <3>5 DEF SendBeat, Crash, storeVars
      <3>6. ASSUME NEW i \in Ids, LandBeat(i) \/ Mature(i) \/ Lapse(i)  PROVE kind' = kind
        BY <3>6 DEF LandBeat, Mature, Lapse, Perform
      <3>7. CASE UNCHANGED vars
        BY <3>7 DEF vars, storeVars
      <3> QED  BY <3>2, <3>3, <3>4, <3>5, <3>6, <3>7 DEF Next
    <2> QED  BY <2>1, NextKept
  <1> QED  BY <1>1, <1>2, PTL DEF Spec

-----------------------------------------------------------------------------
(* Two clients run a job at a time under leases that have not run out only  *)
(* after a move that listed it before, and never in Postgres: FOR UPDATE    *)
(* SKIP LOCKED, the conditional updates and the Redis script hand a job to  *)
(* one client, whatever is still on its way and whoever crashes             *)
(* (postgres-store.ts:375, mysql-store.ts:286, mongo-store.ts:163,          *)
(* dynamodb-store.ts:262, redis-store.ts:187).                              *)
THEOREM LeasesExclusive == Spec => []LeaseExclusive
  <1>1. kind \in Kinds /\ (kind # "file" => CoreInv) => LeaseExclusive
    <2> SUFFICES ASSUME CoreInv, NEW i \in Ids, Cardinality(holders[i]) > 1
                 PROVE  kind # "postgres" /\ i \in restored
      BY DEF LeaseExclusive
    <2>1. holders[i] # {}
      BY FS_EmptySet
    <2>2. ~ \E a \in Clients : holders[i] = {a}
      BY FS_Singleton, SMTT(40)
    <2> QED  BY <2>1, <2>2 DEF CoreInv, Exclusive
  <1> QED  BY <1>1, Guarded, PTL

(* No write that is still on its way brings back a job that was             *)
(* acknowledged, nor, where burying is one transaction, a dead letter.      *)
THEOREM NothingComesBack == Spec => []NoResurrection
  <1>1. kind \in Kinds /\ (kind # "file" => CoreInv) => NoResurrection
    <2> SUFFICES ASSUME kind # "file" => CoreInv, kind \in Tables PROVE NoResurrection
      BY DEF NoResurrection, Tables, Transactional
    <2>1. CoreInv /\ kind # "redis"
      BY DEF Tables
    <2>2. \A i \in Ids : Live(i) => at[i] \cap Alive # {}
      BY <2>1 DEF Live, Alive, Row
    <2>3. kind \in Transactional => Alive = Row
      BY DEF Transactional, Alive
    <2>4. acked \subseteq Ids
      BY <2>1 DEF CoreInv, TypeInv
    <2> QED  BY <2>1, <2>2, <2>3, <2>4 DEF NoResurrection, CoreInv, Settled
  <1> QED  BY <1>1, Guarded, PTL

(* The unique index keeps one row for an idempotency key, whoever enqueues, *)
(* in bulk or singly, replays or removes at the same time.                  *)
THEOREM KeysUnique == Spec => []KeyUnique
  <1>1. kind \in Kinds /\ (kind # "file" => CoreInv) => KeyUnique
    <2> SUFFICES ASSUME kind # "file" => CoreInv, kind \in Transactional \cup {"mongodb"}
                 PROVE  Cardinality({i \in keyed : HasRow(i)}) <= 1
      BY DEF KeyUnique
    <2>1. CoreInv /\ kind \in Indexed
      BY DEF Transactional, Indexed
    <2> DEFINE S == {i \in keyed : HasRow(i)}
    <2>2. \A i, j \in S : i = j
      BY <2>1 DEF CoreInv, Unique
    <2> HIDE DEF S
    <2>3. S = {} \/ \E i : S = {i}
      BY <2>2
    <2>4. Cardinality(S) <= 1
      <3>1. CASE S = {}
        BY <3>1, FS_EmptySet
      <3>2. CASE \E i : S = {i}
        <4>1. PICK i : S = {i}  BY <3>2
        <4>2. Cardinality({i}) = 1  BY FS_Singleton
        <4> QED  BY <4>1, <4>2
      <3> QED  BY <2>3, <3>1, <3>2
    <2> QED  BY <2>4 DEF S
  <1> QED  BY <1>1, Guarded, PTL
=============================================================================
