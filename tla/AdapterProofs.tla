---------------------------- MODULE AdapterProofs ----------------------------
(***************************************************************************)
(* What ClientProofs leaves of the shared adapters: replays, the pipelines *)
(* of Redis and the rewrites of the file store.                            *)
(***************************************************************************)
EXTENDS ClientProofs

-----------------------------------------------------------------------------
(* Replays in the stores that mark a dead letter once.                      *)

(* What a program that begins may do to marks and copies: its copy follows  *)
(* a mark that was not there; in a transaction the two go together.         *)
Traces(P) ==
  /\ \A k \in 1..Len(P) : \A c \in P[k] : c.of # NoId =>
       /\ c.of \in Ids /\ \E h \in P[1] : h.id = c.of /\ "retried" \in h.bar /\ "retried" \in h.add
       /\ \A l \in 1..Len(P) : \A d \in P[l] : d.of # NoId => d = c
  /\ kind \in Transactional =>
       \A h \in P[1] : "retried" \in h.add => \E d \in P[1] : d.of = h.id

(* Most programs do nothing to either.                                      *)
Plain(P) == \A k \in 1..Len(P) : \A c \in P[k] : c.of = NoId /\ "retried" \notin c.add

LEMMA PlainTraces ==
  ASSUME NEW P \in Programs, P # <<>>, Plain(P)
  PROVE  Traces(P)
  <1>1. 1 \in 1..Len(P)
    BY HeadTail
  <1> QED  BY <1>1 DEF Plain, Traces

(* A mark goes only when the dead letter is removed.                        *)
LEMMA RetriedStays ==
  ASSUME TypeInv, kind \in Indexed, NEW T \in Transactions, Lands(T),
         NEW i \in Ids, "retried" \in at[i] \/ i \in removed
  PROVE  "retried" \in at'[i] \/ i \in removed'
  <1>1. CASE i \in removed
    BY <1>1, Marks DEF Lands, TypeInv
  <1>2. CASE "retried" \in at[i] /\ \A c \in T : c.id # i
    BY <1>2, Landed DEF Lands, TypeInv
  <1>3. CASE "retried" \in at[i] /\ \E c \in T : c.id = i
    <2>1. PICK c \in T : c.id = i  BY <1>3
    <2>2. CASE c.mark = "removed"
      BY <2>1, <2>2, Marks DEF Lands, TypeInv
    <2>3. CASE c.mark # "removed"
      <3>1. "retried" \notin c.del  BY <2>3 DEF Lands, Fits
      <3> QED  BY <1>3, <2>1, <3>1, Landed DEF Lands, TypeInv
    <2> QED  BY <2>2, <2>3
  <1> QED  BY <1>1, <1>2, <1>3

(* The copies that were not on their way before T is carried out.           *)
Fresh(T) == {c \in T \cup UNION {Flight(b)' : b \in Clients} :
               c.of # NoId /\ \A b \in Clients : c \notin Flight(b)}

LEMMA ReplayedKept ==
  ASSUME CoreInv, Replayed, kind \in Indexed, NEW T \in Transactions, Lands(T),
         \A c \in Fresh(T) :
           /\ c.of \in Ids /\ \E h \in T : h.id = c.of /\ "retried" \in h.bar /\ "retried" \in h.add
           /\ \A d \in Fresh(T) : d.of = c.of => d = c,
         kind \in Transactional => \A h \in T : "retried" \in h.add => \E d \in T : d.of = h.id
  PROVE  Replayed'
  <1>0. /\ kind' = kind /\ TypeInv
    BY Landed DEF Lands, CoreInv, TypeInv
  <1>s. /\ source \in [Ids -> Ids \cup {NoId}] /\ source' \in [Ids -> Ids \cup {NoId}]
        /\ \A n \in Ids : source'[n] = source[n] \/ \E c \in T : c.id = n /\ c.of # NoId /\ source'[n] = c.of
        /\ \A c \in T : c.of # NoId => source'[c.id] = c.of /\ c.id \in Ids
    <2>1. source \in [Ids -> Ids \cup {NoId}]
      BY <1>0 DEF TypeInv
    <2>2. \A c \in T : c.id \in Ids
      BY DEF Transactions, Changes
    <2>3. ASSUME NEW n \in Ids, source'[n] # source[n]
          PROVE  \E c \in T : c.id = n /\ c.of # NoId /\ source'[n] = c.of
      BY <2>1, <2>3, Marks DEF Lands
    <2> QED  BY <2>1, <2>2, <2>3, Marks DEF Lands
  <1>1. \A i \in Ids : Copied(i)' \subseteq Copied(i) \cup {c.id : c \in {x \in Fresh(T) : x.of = i}}
    <2> SUFFICES ASSUME NEW i \in Ids, NEW n \in Copied(i)', n \notin Copied(i)
                 PROVE  \E c \in Fresh(T) : c.of = i /\ n = c.id
      OBVIOUS
    <2>0. i # NoId
      BY StoreConstantsOK
    <2>1. PICK c \in T \cup UNION {Flight(b)' : b \in Clients} : c.of = i /\ n = c.id
      <3>1. CASE n \in Copies(i)'
        <4>1. n \in Ids /\ source'[n] = i /\ source[n] # i
          BY <3>1 DEF Copies, Copied
        <4> QED  BY <1>s, <4>1
      <3>2. CASE n \in Sought(i)'
        BY <3>2 DEF Sought
      <3> QED  BY <3>1, <3>2 DEF Copied
    <2>2. \A b \in Clients : c \notin Flight(b)
      BY <2>1 DEF Copied, Sought
    <2> QED  BY <2>0, <2>1, <2>2 DEF Fresh
  <1>2. ASSUME NEW i \in Ids, NEW m \in Copied(i)', NEW n \in Copied(i)'
        PROVE  i \in removed' \/ (m = n /\ "retried" \in at'[i])
    <2>1. CASE ~ \E c \in Fresh(T) : c.of = i
      <3>1. m \in Copied(i) /\ n \in Copied(i)
        BY <1>1, <2>1
      <3>2. i \in removed \/ (m = n /\ "retried" \in at[i])
        BY <3>1 DEF Replayed
      <3>3. "retried" \in at'[i] \/ i \in removed'
        BY <1>0, <3>2, RetriedStays
      <3>4. i \in removed => i \in removed'
        BY <1>0, Marks DEF Lands, TypeInv
      <3> QED  BY <3>2, <3>3, <3>4
    <2>2. CASE \E c \in Fresh(T) : c.of = i
      <3>1. PICK c \in Fresh(T) : c.of = i  BY <2>2
      <3>2. PICK h \in T : h.id = i /\ "retried" \in h.bar /\ "retried" \in h.add
        BY <3>1
      <3>3. "retried" \notin at[i] /\ "retried" \in at'[i]
        <4>1. at'[i] = (at[i] \ h.del) \cup h.add
          BY <1>0, <3>2, Landed DEF Lands, TypeInv
        <4> QED  BY <3>2, <4>1 DEF Lands, Commits
      <3>4. CASE i \in removed
        BY <1>0, <3>4, Marks DEF Lands, TypeInv
      <3>5. CASE i \notin removed
        <4>1. Copied(i) = {}
          BY <3>3, <3>5 DEF Replayed
        <4>2. m = c.id /\ n = c.id
          BY <1>1, <3>1, <4>1
        <4> QED  BY <3>3, <4>2
      <3> QED  BY <3>4, <3>5
    <2> QED  BY <2>1, <2>2
  <1>3. ASSUME NEW i \in Ids, kind \in Transactional, "retried" \in at'[i]
        PROVE  \E n \in Ids : source'[n] = i
    <2>0. i # NoId
      BY StoreConstantsOK
    <2>1. CASE "retried" \in at[i]
      <3>1. PICK n \in Ids : source[n] = i
        BY <1>3, <2>1 DEF Replayed, Copies
      <3>2. n \in accepted
        BY <2>0, <3>1 DEF CoreInv, Unborn
      <3>3. \A c \in T : c.id = n => c.of = NoId
        BY <3>2 DEF Lands, Fits
      <3>4. source'[n] = source[n]
        BY <1>0, <3>3, Marks DEF Lands, TypeInv
      <3> QED  BY <3>1, <3>4
    <2>2. CASE "retried" \notin at[i]
      <3>1. \E h \in T : h.id = i
        BY <1>0, <1>3, <2>2, Landed DEF Lands, TypeInv
      <3>2. PICK h \in T : h.id = i  BY <3>1
      <3>3. at'[i] = (at[i] \ h.del) \cup h.add
        BY <1>0, <3>2, Landed DEF Lands, TypeInv
      <3>4. "retried" \in h.add
        BY <1>3, <2>2, <3>3
      <3>5. PICK d \in T : d.of = i
        BY <1>3, <3>2, <3>4
      <3>6. source'[d.id] = i /\ d.id \in Ids
        BY <1>s, <2>0, <3>5
      <3> QED  BY <3>6
    <2> QED  BY <2>1, <2>2
  <1> QED  BY <1>0, <1>2, <1>3 DEF Replayed, Copies

-----------------------------------------------------------------------------
USE DEF Change, Check, Put, Erase, IfAny, Unless, Leased, Granting, Accepting, Copying, Acking, Removing,
        Unstamped

PlainAll(T) == \A c \in T : c.of = NoId /\ "retried" \notin c.add

LEMMA Plains ==
  /\ \A T : PlainAll(T) => Plain(<<T>>)
  /\ \A T, U : PlainAll(T) /\ PlainAll(U) => Plain(<<T, U>>)
  /\ PlainAll(Read) /\ Plain(<<Read>>)
  BY DEF Plain, PlainAll, Read

LEMMA WorkPlain ==
  ASSUME kind \in Indexed, NEW i \in Ids
  PROVE  /\ Plain(DequeueOf(i)) /\ Plain(AckOf(i)) /\ Plain(BuryOf(i))
         /\ Plain(AttemptsOf(i)) /\ Plain(ProgressOf(i)) /\ Plain(CompletedOf(i))
         /\ Plain(PromoteOf(i)) /\ \A d \in BOOLEAN : Plain(EnqueueOf(i, d))
  <1>1. Plain(DequeueOf(i))
    <2> DEFINE c == Granting(Change(i, {}, {"queued"}, {"leased"}))
    <2>1. c.of = NoId /\ c.add = {"leased"}
      OBVIOUS
    <2>2. DequeueOf(i) = <<{c}>>
      BY DEF Indexed, DequeueOf, Pick, PgDequeue, MyDequeue, MongoDequeue
    <2> HIDE DEF c
    <2>3. PlainAll({c})
      BY <2>1 DEF PlainAll
    <2> QED  BY <2>2, <2>3, Plains
  <1>2. Plain(AckOf(i))
    BY DEF Indexed, AckOf, Pick, PgAck, MyAck, MongoAck, Plain
  <1>3. Plain(BuryOf(i))
    BY DEF Indexed, BuryOf, Pick, PgMoveToDeadLetter, MyMoveToDeadLetter, MongoMoveToDeadLetter, Plain
  <1>4. Plain(AttemptsOf(i)) /\ Plain(ProgressOf(i))
    BY Plains DEF Indexed, AttemptsOf, ProgressOf, Pick, PgUpdateAttempts, MyUpdateAttempts, MongoUpdateAttempts,
                  PgSetJobProgress, MySetJobProgress, MongoSetJobProgress
  <1>5. Plain(CompletedOf(i))
    BY DEF Indexed, CompletedOf, Pick, PgAddCompletedJob, MyAddCompletedJob, MongoAddCompletedJob, Plain
  <1>6. Plain(PromoteOf(i))
    BY DEF Indexed, PromoteOf, Pick, PgPromoteJob, MyPromoteJob, MongoPromoteJob, Plain
  <1>7. ASSUME NEW d \in BOOLEAN  PROVE Plain(EnqueueOf(i, d))
    <2>1. PlainAll({Accepting(Put(i, Columns(d)))})
      BY DEF PlainAll, Columns
    <2>2. Plain(<<{Accepting(Put(i, Columns(d)))}>>) /\ Plain(<<Read>>)
      BY <2>1, Plains
    <2> HIDE DEF Accepting, Put
    <2> QED  BY <2>2 DEF Indexed, EnqueueOf, Pick, PgEnqueue, MyEnqueue, MongoEnqueue
  <1> QED  BY <1>1, <1>2, <1>3, <1>4, <1>5, <1>6, <1>7

LEMMA BatchPlain ==
  ASSUME kind \in Indexed, kind \in {"postgres", "mysql", "redis"}, NEW S, NEW first, NEW d \in BOOLEAN
  PROVE  Plain(BatchOf(S, first, d))
  <1> DEFINE T == {Accepting(Put(i, Columns(d))) : i \in Inserted(S, first)}
  <1>1. PlainAll(T)
    <2>1. \A i : LET c == Accepting(Put(i, Columns(d))) IN c.of = NoId /\ "retried" \notin c.add
      BY DEF Columns
    <2> HIDE DEF Accepting, Put
    <2> QED  BY <2>1 DEF PlainAll
  <1> HIDE DEF T
  <1>2. Plain(<<T>>)
    BY <1>1, Plains
  <1> QED  BY <1>2 DEF T, Indexed, BatchOf, Pick, PgEnqueueBatch, MyEnqueueBatch

LEMMA PassPlain ==
  ASSUME kind \in Indexed
  PROVE  /\ kind = "postgres" => Plain(PgPromoteDelayedJobs(PgPromotable))
         /\ \A i \in DelayedOf : Plain((IF Piecewise THEN <<>> ELSE <<Read>>) \o MoveOf(i))
  <1>1. CASE kind = "postgres"
    <2> DEFINE T == {Erase(i, {"delay"}) : i \in PgPromotable}
    <2>1. PlainAll(T)
      BY DEF PlainAll
    <2> HIDE DEF T
    <2>2. Plain(<<T>>)
      BY <2>1, Plains
    <2>3. DelayedOf = {}
      BY <1>1 DEF DelayedOf, Pick
    <2> QED  BY <2>2, <2>3 DEF T, PgPromoteDelayedJobs
  <1>2. CASE kind \in {"mysql", "mongodb"}
    <2> SUFFICES ASSUME NEW i PROVE Plain((IF Piecewise THEN <<>> ELSE <<Read>>) \o MoveOf(i))
      BY <1>2
    <2> DEFINE c == IfAny(Change(i, {}, {"leased", "delay"}, {"queued"}), Row)
    <2>1. PlainAll({c})
      BY DEF PlainAll
    <2> HIDE DEF c
    <2>2. Plain(<<Read, {c}>>)
      BY <2>1, Plains
    <2>3. MoveOf(i) = <<{c}>> /\ ~Piecewise
      BY <1>2 DEF c, MoveOf, Pick, MyMoveJobToQueue, MongoMoveJobToQueue, Piecewise
    <2>4. <<Read>> \o <<{c}>> = <<Read, {c}>>
      BY Joined
    <2> QED  BY <2>2, <2>3, <2>4
  <1> QED  BY <1>1, <1>2 DEF Indexed

LEMMA RemovalPlain ==
  ASSUME kind \in Indexed
  PROVE  /\ \A i \in Ids : Plain(RemoveOf(i)) /\ \A s \in Statuses : Plain(CleanOf(i, s))
         /\ \A order \in Collections :
              Plain(Pick(PgObliterateQueue, MyObliterateQueue, MongoObliterateQueue(order),
                         DynamoObliterateQueue, RedisObliterateQueue, <<>>))
  <1>1. ASSUME NEW i \in Ids PROVE Plain(RemoveOf(i))
    BY DEF Indexed, RemoveOf, Pick, PgRemoveJob, MyRemoveJob, MongoRemoveJob, Plain
  <1>2. ASSUME NEW i \in Ids, NEW s \in Statuses PROVE Plain(CleanOf(i, s))
    <2>1. PlainAll({Cleared(i, s)})
      BY DEF PlainAll, Cleared
    <2>2. Plain(<<{Cleared(i, s)}>>) /\ Plain(<<Read, {Cleared(i, s)}>>)
      BY <2>1, Plains
    <2> QED  BY <2>2 DEF Indexed, CleanOf, Pick, PgCleanByStatus, MyCleanByStatus, MongoCleanByStatus
  <1>3. ASSUME NEW order \in Collections
        PROVE  Plain(Pick(PgObliterateQueue, MyObliterateQueue, MongoObliterateQueue(order),
                          DynamoObliterateQueue, RedisObliterateQueue, <<>>))
    <2>0. \A i, places : Removing(Erase(i, places)).of = NoId /\ Removing(Erase(i, places)).add = {}
      OBVIOUS
    <2> HIDE DEF Removing, Erase
    <2>1. Plain(PgObliterateQueue)
      <3>1. PlainAll({Removing(Erase(i, Row \cup DeadLetter)) : i \in Ids})
        BY <2>0 DEF PlainAll
      <3> QED  BY <3>1, Plains DEF PgObliterateQueue
    <2>2. Plain(MyObliterateQueue)
      <3>1. PlainAll({Removing(Erase(i, at[i])) : i \in Ids})
        BY <2>0 DEF PlainAll
      <3> QED  BY <3>1, Plains DEF MyObliterateQueue
    <2>3. Plain(MongoObliterateQueue(order))
      <3> DEFINE P == MongoObliterateQueue(order)
      <3>1. P = [k \in 1..3 |-> {Removing(Erase(i, order[k])) : i \in Ids}] /\ Len(P) = 3
        BY DEF MongoObliterateQueue
      <3>2. \A k \in 1..3 : \A c \in P[k] : c.of = NoId /\ "retried" \notin c.add
        BY <2>0, <3>1
      <3> QED  BY <3>1, <3>2 DEF Plain
    <2> QED  BY <2>1, <2>2, <2>3 DEF Indexed, Pick
  <1> QED  BY <1>1, <1>2, <1>3

(* The copy of a replay and the mark it goes with.                          *)
LEMMA ReplayTraces ==
  ASSUME kind \in Indexed, NEW i \in Ids, NEW n \in Ids
  PROVE  Traces(ReplayOf(i, n))
  <1> DEFINE c == Unless(Change(i, {"dead"}, {}, {"retried"}), {"retried"})
             d == Copying(Put(n, {"queued"}), i)
  <1>1. /\ c.of = NoId /\ c.id = i /\ "retried" \in c.bar /\ "retried" \in c.add
        /\ d.of = i /\ "retried" \notin d.add /\ i # NoId
    BY StoreConstantsOK
  <1>2. CASE kind \in Transactional
    <2>1. ReplayOf(i, n) = <<{c, d}>>
      BY <1>2 DEF ReplayOf, Pick, Transactional, PgRetryDeadLetterJob, MyRetryDeadLetterJob
    <2> HIDE DEF c, d
    <2> QED  BY <1>1, <2>1 DEF Traces
  <1>3. CASE kind = "mongodb"
    <2>1. ReplayOf(i, n) = <<{c}, {d}>>
      BY <1>3 DEF ReplayOf, Pick, MongoRetryDeadLetterJob
    <2> HIDE DEF c, d
    <2> QED  BY <1>1, <1>3, <2>1 DEF Traces, Transactional
  <1> QED  BY <1>2, <1>3 DEF Indexed, Transactional

-----------------------------------------------------------------------------
(* Redis: what the commands of a pipeline leave to the next.                *)

Buried(i) == "dead" \in at[i] \/ i \in removed

(* What accounts for a job that cannot be leased.                           *)
Excused(i) == i \in acked \cup removed \cup cut \/ at[i] \cap {"dead", "done"} # {}

(* Changes other than settlements that take the record away, or take a job  *)
(* out of the sorted sets.                                                  *)
Unmakes(c) == c.mark \notin {"acked", "removed"} /\ "record" \in c.del
Unsorts(c) == c.mark \notin {"acked", "removed"} /\ c.del \cap SortedSets # {} /\ c.add \cap SortedSets = {}

Removes(S, i) == \E d \in S : d.id = i /\ d.mark = "removed"
Readies(S, i) == \E d \in S : d.id = i /\ d.mark = "none" /\ "ready" \in d.add
Records(S, i) == \E d \in S : d.id = i /\ d.mark = "none" /\ "record" \in d.add

Free(c) == c.need = {} /\ c.some = {} /\ c.bar = {}

(* A program that is under way, or begins: the last commands of a pipeline  *)
(* make good what the first have taken.                                     *)
Pipe(P) ==
  \A c \in Sent(P) :
    /\ Free(c) /\ ("done" \in c.del => c.mark = "removed")
    /\ Unmakes(c) => c.id \in accepted /\ (Buried(c.id) \/ Removes(Sent(P), c.id))
    /\ Unsorts(c) => \/ Buried(c.id) \/ Removes(Sent(P), c.id)
                     \/ c \notin Sent(Tail(P)) /\ Readies(Sent(Tail(P)), c.id)
    /\ c.mark = "accepted" => /\ c.add \cap SortedSets # {}
                              /\ Excused(c.id) \/ Recorded(c.id) \/ Records(Sent(P), c.id)

Flying(i) == \E a \in Clients : Removes(Flight(a), i)

RedisInv ==
  /\ \A a \in Clients : Pipe(todo[a])
  /\ \A i \in Ids : \A c \in Sent(beat[i]) : c.del = {}
  /\ \A i \in accepted :
       /\ Excused(i) \/ Recorded(i) \/ Flying(i)
       /\ \/ Excused(i) \/ at[i] \cap SortedSets # {} \/ Flying(i)
          \/ \E a \in Clients : Readies(Flight(a), i)

(* What lands now, with rest to come.                                       *)
Heads(T, rest) ==
  \A c \in T :
    /\ "done" \in c.del => c.mark = "removed"
    /\ Unmakes(c) => c.id \in accepted /\ (Buried(c.id) \/ Removes(Sent(rest), c.id))
    /\ Unsorts(c) => \/ Buried(c.id) \/ Removes(Sent(rest), c.id)
                     \/ Readies(Sent(rest), c.id) \/ ~Recorded(c.id)
    /\ c.mark = "accepted" => /\ c.add \cap SortedSets # {}
                              /\ Excused(c.id) \/ Recorded(c.id)

(* What comes after it.                                                     *)
Tails(T, rest) ==
  \A c \in Sent(rest) :
    /\ Free(c) /\ ("done" \in c.del => c.mark = "removed")
    /\ Unmakes(c) => /\ c.id \in accepted
                     /\ \/ Buried(c.id) \/ Removes(Sent(rest) \cup T, c.id)
                        \/ \E h \in T : h.id = c.id /\ "dead" \in h.add
    /\ Unsorts(c) => \/ Buried(c.id) \/ Removes(Sent(rest) \cup T, c.id)
                     \/ \E h \in T : h.id = c.id /\ "dead" \in h.add
                     \/ c \notin Sent(Tail(rest)) /\ Readies(Sent(Tail(rest)), c.id)
    /\ c.mark = "accepted" => /\ c.add \cap SortedSets # {} /\ c.id \notin accepted
                              /\ Excused(c.id) \/ Recorded(c.id) \/ Records(Sent(rest) \cup T, c.id)

LEMMA ExcusedStays ==
  ASSUME TypeInv, NEW T \in Transactions, Lands(T), cut \subseteq cut',
         \A c \in T : "done" \in c.del => c.mark = "removed",
         NEW i \in Ids, Excused(i)
  PROVE  Excused(i)'
  <1>1. CASE i \in acked \cup removed \cup cut
    BY <1>1, Marks DEF Lands, TypeInv, Excused
  <1>2. CASE "dead" \in at[i]
    BY <1>2, DeadStays DEF Excused
  <1>3. CASE "done" \in at[i]
    <2>1. CASE \A c \in T : c.id # i
      BY <1>3, <2>1, Landed DEF Lands, TypeInv, Excused
    <2>2. CASE \E c \in T : c.id = i
      <3>1. PICK c \in T : c.id = i  BY <2>2
      <3>2. CASE c.mark = "removed"
        BY <3>1, <3>2, Marks DEF Lands, TypeInv, Excused
      <3>3. CASE c.mark # "removed"
        <4>1. "done" \in at'[i]
          BY <1>3, <3>1, <3>3, Landed DEF Lands, TypeInv
        <4> QED  BY <4>1 DEF Excused
      <3> QED  BY <3>2, <3>3
    <2> QED  BY <2>1, <2>2
  <1> QED  BY <1>1, <1>2, <1>3 DEF Excused

LEMMA PipeStays ==
  ASSUME TypeInv, NEW T \in Transactions, Lands(T), cut \subseteq cut',
         \A c \in T : ("done" \in c.del => c.mark = "removed") /\ (Unmakes(c) => c.id \in accepted),
         NEW P \in Programs, Pipe(P), Marked(Sent(P), "accepted") \cap accepted = {}
  PROVE  Pipe(P)'
  <1> SUFFICES ASSUME NEW c \in Sent(P)
               PROVE  /\ Free(c) /\ ("done" \in c.del => c.mark = "removed")
                      /\ Unmakes(c) => c.id \in accepted' /\ (Buried(c.id)' \/ Removes(Sent(P), c.id))
                      /\ Unsorts(c) => \/ Buried(c.id)' \/ Removes(Sent(P), c.id)
                                       \/ c \notin Sent(Tail(P)) /\ Readies(Sent(Tail(P)), c.id)
                      /\ c.mark = "accepted" =>
                           /\ c.add \cap SortedSets # {}
                           /\ Excused(c.id)' \/ Recorded(c.id)' \/ Records(Sent(P), c.id)
    BY DEF Pipe, Sent, Free, Unmakes, Unsorts, Removes, Readies, Records
  <1>0. c \in Changes /\ c.id \in Ids
    BY SentTyped DEF Changes
  <1>1. Buried(c.id) => Buried(c.id)'
    BY <1>0, DeadStays DEF Buried
  <1>2. accepted \subseteq accepted'
    BY Marks DEF Lands, TypeInv
  <1>3. ASSUME c.mark = "accepted"
        PROVE  Excused(c.id)' \/ Recorded(c.id)' \/ Records(Sent(P), c.id)
    <2>1. c.id \notin accepted
      BY <1>3 DEF Marked
    <2>2. CASE Excused(c.id)
      BY <1>0, <2>2, ExcusedStays
    <2>3. CASE Recorded(c.id)
      <3>1. CASE \A d \in T : d.id # c.id
        BY <1>0, <2>3, <3>1, Landed DEF Lands, TypeInv, Recorded
      <3>2. CASE \E d \in T : d.id = c.id
        <4>1. PICK d \in T : d.id = c.id  BY <3>2
        <4>2. d.mark # "acked" /\ ~Unmakes(d)
          BY <2>1, <4>1 DEF Lands, Fits
        <4>3. CASE d.mark = "removed"
          BY <4>1, <4>3, Marks DEF Lands, TypeInv, Excused
        <4>4. CASE d.mark # "removed"
          <5>1. "record" \notin d.del  BY <4>2, <4>4 DEF Unmakes
          <5> QED  BY <2>3, <4>1, <5>1, Landed DEF Lands, TypeInv, Recorded
        <4> QED  BY <4>3, <4>4
      <3> QED  BY <3>1, <3>2
    <2> QED  BY <1>3, <2>2, <2>3 DEF Pipe
  <1> QED  BY <1>0, <1>1, <1>2, <1>3 DEF Pipe

LEMMA TailPipe ==
  ASSUME TypeInv, NEW T \in Transactions, Lands(T), cut \subseteq cut',
         NEW rest \in Programs, Heads(T, rest), Tails(T, rest)
  PROVE  Pipe(rest)'
  <1> SUFFICES ASSUME NEW c \in Sent(rest)
               PROVE  /\ Free(c) /\ ("done" \in c.del => c.mark = "removed")
                      /\ Unmakes(c) => c.id \in accepted' /\ (Buried(c.id)' \/ Removes(Sent(rest), c.id))
                      /\ Unsorts(c) => \/ Buried(c.id)' \/ Removes(Sent(rest), c.id)
                                       \/ c \notin Sent(Tail(rest)) /\ Readies(Sent(Tail(rest)), c.id)
                      /\ c.mark = "accepted" =>
                           /\ c.add \cap SortedSets # {}
                           /\ Excused(c.id)' \/ Recorded(c.id)' \/ Records(Sent(rest), c.id)
    BY DEF Pipe, Sent, Free, Unmakes, Unsorts, Removes, Readies, Records
  <1>0. c \in Changes /\ c.id \in Ids
    BY SentTyped DEF Changes
  <1>1. \/ Buried(c.id)
        \/ Removes(Sent(rest) \cup T, c.id)
        \/ \E h \in T : h.id = c.id /\ "dead" \in h.add
        => Buried(c.id)' \/ Removes(Sent(rest), c.id)
    <2>1. Buried(c.id) => Buried(c.id)'
      BY <1>0, DeadStays DEF Buried
    <2>2. Removes(Sent(rest) \cup T, c.id) => Buried(c.id)' \/ Removes(Sent(rest), c.id)
      BY Marks DEF Lands, TypeInv, Buried, Removes
    <2>3. (\E h \in T : h.id = c.id /\ "dead" \in h.add) => Buried(c.id)'
      BY Landed DEF Lands, TypeInv, Buried
    <2> QED  BY <2>1, <2>2, <2>3
  <1>2. accepted \subseteq accepted'
    BY Marks DEF Lands, TypeInv
  <1>3. ASSUME c.mark = "accepted"
        PROVE  Excused(c.id)' \/ Recorded(c.id)' \/ Records(Sent(rest), c.id)
    <2>1. c.id \notin accepted
      BY <1>3 DEF Tails
    <2>2. CASE Excused(c.id)
      BY <1>0, <2>2, ExcusedStays DEF Heads
    <2>3. CASE Recorded(c.id)
      <3>1. CASE \A d \in T : d.id # c.id
        BY <1>0, <2>3, <3>1, Landed DEF Lands, TypeInv, Recorded
      <3>2. CASE \E d \in T : d.id = c.id
        <4>1. PICK d \in T : d.id = c.id  BY <3>2
        <4>2. d.mark # "acked" /\ ~Unmakes(d)
          BY <2>1, <4>1 DEF Lands, Fits, Heads
        <4>3. CASE d.mark = "removed"
          BY <4>1, <4>3, Marks DEF Lands, TypeInv, Excused
        <4>4. CASE d.mark # "removed"
          <5>1. "record" \notin d.del  BY <4>2, <4>4 DEF Unmakes
          <5> QED  BY <2>3, <4>1, <5>1, Landed DEF Lands, TypeInv, Recorded
        <4> QED  BY <4>3, <4>4
      <3> QED  BY <3>1, <3>2
    <2>4. CASE Records(T, c.id)
      <3>1. PICK d \in T : d.id = c.id /\ "record" \in d.add
        BY <2>4 DEF Records
      <3> QED  BY <3>1, Landed DEF Lands, TypeInv, Recorded
    <2> QED  BY <1>3, <2>2, <2>3, <2>4 DEF Tails, Records
  <1> QED  BY <1>1, <1>2, <1>3 DEF Tails

LEMMA PipeLands ==
  ASSUME CoreInv, RedisInv, kind = "redis", NEW a \in Clients,
         NEW T \in Transactions, NEW rest \in Programs, Lands(T),
         todo' = [todo EXCEPT ![a] = rest], beat' = beat, cut \subseteq cut',
         Heads(T, rest), Tails(T, rest), Flight(a) \subseteq T \cup Sent(rest)
  PROVE  RedisInv'
  <1>0. /\ TypeInv /\ kind' = kind /\ accepted \subseteq Ids
        /\ source \in [Ids -> Ids \cup {NoId}]
    BY Landed DEF Lands, CoreInv, TypeInv
  <1>1. /\ \A c \in T : ("done" \in c.del => c.mark = "removed") /\ (Unmakes(c) => c.id \in accepted)
    BY DEF Heads
  <1>2. \A i \in Ids : Excused(i) => Excused(i)'
    BY <1>0, <1>1, ExcusedStays
  <1>3. \A b \in Clients : /\ todo'[b] = IF b = a THEN rest ELSE todo[b]
                           /\ Flight(b)' = IF b = a THEN Sent(rest) ELSE Flight(b)
    BY <1>0 DEF Flight, TypeInv, Sent
  <1>4. ASSUME NEW b \in Clients  PROVE Pipe(todo[b])'
    <2>1. CASE b = a
      <3>1. Pipe(rest)'
        BY <1>0, TailPipe
      <3> QED  BY <1>3, <2>1, <3>1 DEF Pipe
    <2>2. CASE b # a
      <3>1. PICK P \in Programs : P = todo[b]
        BY <1>0 DEF TypeInv
      <3>2. Pipe(P) /\ Marked(Sent(P), "accepted") \cap accepted = {}
        BY <3>1 DEF RedisInv, CoreInv, Underway, Awaited, Flight
      <3>3. Pipe(P)'
        BY <1>0, <1>1, <3>2, PipeStays
      <3> QED  BY <1>3, <2>2, <3>1, <3>3 DEF Pipe
    <2> QED  BY <2>1, <2>2
  <1>5. \A i \in Ids : Flying(i) => Flying(i)' \/ Excused(i)'
    <2> SUFFICES ASSUME NEW i \in Ids, NEW b \in Clients, NEW d \in Flight(b), d.id = i, d.mark = "removed"
                 PROVE  Flying(i)' \/ Excused(i)'
      BY DEF Flying, Removes
    <2>1. CASE d \in Flight(b)'
      BY <2>1 DEF Flying, Removes
    <2>2. CASE d \notin Flight(b)'
      <3>1. d \in T  BY <1>3, <2>2
      <3> QED  BY <1>0, <3>1, Marks DEF Lands, Excused
    <2> QED  BY <2>1, <2>2
  <1>6. ASSUME NEW i \in Ids, Excused(i) \/ Flying(i)  PROVE Excused(i)' \/ Flying(i)'
    BY <1>2, <1>5, <1>6
  <1>n. \A i \in Ids : Removes(Sent(rest), i) => Flying(i)'
    BY <1>3 DEF Flying
  <1>7. ASSUME NEW c \in T, c.mark \in {"acked", "removed"}  PROVE Excused(c.id)'
    BY <1>0, <1>7, Marks DEF Lands, Excused
  <1>8. \A c \in T : c.id \in Ids /\ at'[c.id] = (at[c.id] \ c.del) \cup c.add
    BY <1>0, Landed DEF Lands, TypeInv, Transactions, Changes
  <1>9. \A i \in Ids : (\A c \in T : c.id # i) => at'[i] = at[i]
    BY <1>0, Landed DEF Lands, TypeInv
  <1>b. \A i \in Ids : Buried(i) => Excused(i)
    BY DEF Buried, Excused
  <1>10. ASSUME NEW i \in accepted'
         PROVE  Excused(i)' \/ Recorded(i)' \/ Flying(i)'
    <2>1. CASE i \notin accepted
      <3>1. PICK c \in T : c.id = i /\ c.mark = "accepted"
        BY <1>0, <2>1, Marks DEF Lands
      <3>2. Excused(i) \/ Recorded(i)  BY <3>1 DEF Heads
      <3>3. "record" \notin c.del  BY <1>1, <2>1, <3>1 DEF Unmakes
      <3> QED  BY <1>2, <1>8, <3>1, <3>2, <3>3 DEF Recorded
    <2>2. CASE i \in accepted /\ Recorded(i)
      <3>1. CASE \A c \in T : c.id # i
        BY <1>0, <1>9, <2>2, <3>1 DEF Recorded
      <3>2. CASE \E c \in T : c.id = i
        <4>1. PICK c \in T : c.id = i  BY <3>2
        <4>2. CASE c.mark \in {"acked", "removed"}
          BY <1>7, <4>1, <4>2
        <4>3. CASE Unmakes(c)
          BY <1>2, <1>8, <1>n, <1>b, <4>1, <4>3 DEF Heads
        <4>4. CASE c.mark \notin {"acked", "removed"} /\ ~Unmakes(c)
          <5>1. "record" \notin c.del  BY <4>4 DEF Unmakes
          <5> QED  BY <1>8, <2>2, <4>1, <5>1 DEF Recorded
        <4> QED  BY <4>2, <4>3, <4>4
      <3> QED  BY <3>1, <3>2
    <2>3. CASE i \in accepted /\ ~Recorded(i)
      <3>1. i \in Ids /\ (Excused(i) \/ Flying(i))
        BY <1>0, <2>3 DEF RedisInv
      <3> QED  BY <1>6, <3>1
    <2> QED  BY <2>1, <2>2, <2>3
  <1>11. ASSUME NEW i \in accepted'
         PROVE  \/ Excused(i)' \/ at'[i] \cap SortedSets # {} \/ Flying(i)'
                \/ \E b \in Clients : Readies(Flight(b)', i)
    <2>1. CASE i \notin accepted
      <3>1. PICK c \in T : c.id = i /\ c.mark = "accepted"
        BY <1>0, <2>1, Marks DEF Lands
      <3> QED  BY <1>8, <3>1 DEF Heads
    <2>2. CASE i \in accepted /\ (Excused(i) \/ Flying(i))
      BY <1>0, <1>6, <2>2
    <2>3. CASE i \in accepted /\ ~Excused(i) /\ ~Flying(i) /\ at[i] \cap SortedSets # {}
      <3>0. Recorded(i) /\ i \in Ids
        BY <1>0, <2>3 DEF RedisInv
      <3>1. CASE \A c \in T : c.id # i
        BY <1>9, <2>3, <3>0, <3>1
      <3>2. CASE \E c \in T : c.id = i
        <4>1. PICK c \in T : c.id = i  BY <3>2
        <4>2. CASE c.mark \in {"acked", "removed"}
          BY <1>7, <4>1, <4>2
        <4>3. CASE Unsorts(c)
          <5>1. \/ Buried(i) \/ Removes(Sent(rest), i) \/ Readies(Sent(rest), i)
            BY <3>0, <4>1, <4>3 DEF Heads
          <5>2. Readies(Sent(rest), i) => Readies(Flight(a)', i)
            BY <1>3
          <5> QED  BY <1>b, <1>n, <2>3, <3>0, <5>1, <5>2
        <4>4. CASE c.mark \notin {"acked", "removed"} /\ ~Unsorts(c)
          <5>1. c.del \cap SortedSets = {} \/ c.add \cap SortedSets # {}  BY <4>4 DEF Unsorts
          <5>2. at'[i] = (at[i] \ c.del) \cup c.add  BY <1>8, <4>1
          <5> QED  BY <2>3, <5>1, <5>2
        <4> QED  BY <4>2, <4>3, <4>4
      <3> QED  BY <3>1, <3>2
    <2>4. CASE i \in accepted /\ \E b \in Clients : Readies(Flight(b), i)
      <3>1. PICK b \in Clients : Readies(Flight(b), i)  BY <2>4
      <3>2. PICK d \in Flight(b) : d.id = i /\ d.mark = "none" /\ "ready" \in d.add
        BY <3>1 DEF Readies
      <3>3. CASE d \in Flight(b)'
        BY <3>2, <3>3 DEF Readies
      <3>4. CASE d \notin Flight(b)'
        <4>1. d \in T  BY <1>3, <3>4
        <4>2. "ready" \in at'[i]  BY <1>8, <3>2, <4>1
        <4> QED  BY <4>2 DEF SortedSets
      <3> QED  BY <3>3, <3>4
    <2> QED  BY <2>1, <2>2, <2>3, <2>4 DEF RedisInv
  <1>12. \A i \in Ids : \A c \in Sent(beat[i])' : c.del = {}
    BY DEF RedisInv, Sent
  <1> QED  BY <1>4, <1>10, <1>11, <1>12 DEF RedisInv, Readies

(* Transactions that leave nothing to make good, and the pipelines of each  *)
(* operation.                                                               *)
Opens(P) == Heads(P[1], Tail(P)) /\ Tails(P[1], Tail(P))
Calm(c)  == c.mark # "accepted" /\ ("done" \in c.del => c.mark = "removed") /\ ~Unmakes(c) /\ ~Unsorts(c)

LEMMA Later ==
  /\ Sent(<<>>) = {} /\ \A T : Sent(<<T>>) = T /\ Tail(<<T>>) = <<>>
  /\ \A T, U : Sent(<<T, U>>) = T \cup U /\ Tail(<<T, U>>) = <<U>>
  /\ \A T, U, V : Sent(<<T, U, V>>) = T \cup U \cup V /\ Tail(<<T, U, V>>) = <<U, V>>
  /\ \A T, U, V, W : Tail(<<T, U, V, W>>) = <<U, V, W>>
  <1>1. Sent(<<>>) = {} /\ \A T : Sent(<<T>>) = T /\ Tail(<<T>>) = <<>>
    BY DEF Sent
  <1>2. \A T, U : Sent(<<T, U>>) = T \cup U /\ Tail(<<T, U>>) = <<U>>
    <2> TAKE T, U
    <2>1. 1..Len(<<T, U>>) = {1, 2}
      OBVIOUS
    <2> QED  BY <2>1 DEF Sent
  <1>3. \A T, U, V : Sent(<<T, U, V>>) = T \cup U \cup V /\ Tail(<<T, U, V>>) = <<U, V>>
    <2> TAKE T, U, V
    <2>1. 1..Len(<<T, U, V>>) = {1, 2, 3}
      OBVIOUS
    <2> QED  BY <2>1 DEF Sent
  <1>4. \A T, U, V, W : Tail(<<T, U, V, W>>) = <<U, V, W>>
    OBVIOUS
  <1> QED  BY <1>1, <1>2, <1>3, <1>4

LEMMA CalmOpens ==
  /\ \A T : (\A c \in T : Calm(c)) => Opens(<<T>>)
  /\ \A T, U : (\A c \in T : Calm(c)) /\ (\A c \in U : Calm(c) /\ Free(c)) => Opens(<<T, U>>)
  /\ \A T, U, V : (\A c \in T : Calm(c)) /\ (\A c \in U \cup V : Calm(c) /\ Free(c)) => Opens(<<T, U, V>>)
  <1>1. ASSUME NEW T, NEW rest, \A c \in T : Calm(c), \A c \in Sent(rest) : Calm(c) /\ Free(c)
        PROVE  Heads(T, rest) /\ Tails(T, rest)
    BY <1>1 DEF Heads, Tails, Calm
  <1>2. \A T : (<<T>>)[1] = T /\ \A U : (<<T, U>>)[1] = T /\ \A V : (<<T, U, V>>)[1] = T
    OBVIOUS
  <1> QED  BY <1>1, <1>2, Later DEF Opens

LEMMA DequeueOpens ==
  ASSUME kind = "redis", NEW i \in Ids
  PROVE  Opens(DequeueOf(i))
  <1> DEFINE leased == Leased(Change(i, {}, {"ready"}, {"leased"}))
             c == IF Recorded(i) THEN Granting(leased) ELSE leased
             T == {c} \cup {RedisReclaim(j) : j \in {k \in Ids \ {i} : Expired(k)}}
  <1>1. DequeueOf(i) = <<T>>
    BY DEF DequeueOf, Pick, RedisDequeue
  <1>2. c.mark # "accepted" /\ c.del = {"ready"} /\ c.add = {"leased"}
    OBVIOUS
  <1> HIDE DEF c
  <1>3. ~Unmakes(c) /\ ~Unsorts(c)
    BY <1>2 DEF Unmakes, Unsorts, SortedSets
  <1>4. ASSUME NEW j \in Ids
        PROVE  LET d == RedisReclaim(j)
               IN /\ d.mark = "none" /\ d.del = {"leased"} /\ ~Unmakes(d)
                  /\ d.id = j /\ (Unsorts(d) => ~Recorded(j))
    <2>1. LET d == RedisReclaim(j)
          IN /\ d.mark = "none" /\ d.del = {"leased"} /\ d.id = j
             /\ d.add = IF Recorded(j) THEN {"ready"} ELSE {}
      BY DEF RedisReclaim
    <2>2. {"ready"} \cap SortedSets # {}
      BY DEF SortedSets
    <2> QED  BY <2>1, <2>2 DEF Unmakes, Unsorts
  <1>5. Heads(T, <<>>)
    BY <1>2, <1>3, <1>4 DEF Heads
  <1>6. Tails(T, <<>>)
    BY Later DEF Tails
  <1> HIDE DEF T
  <1>7. (<<T>>)[1] = T /\ Tail(<<T>>) = <<>>
    OBVIOUS
  <1> QED  BY <1>1, <1>5, <1>6, <1>7 DEF Opens

(* A job is dead before its record goes.                                    *)
LEMMA BuryOpens ==
  ASSUME kind = "redis", NEW i \in accepted
  PROVE  Opens(BuryOf(i))
  <1> DEFINE c == Change(i, {}, {"retried"}, {"dead"})
             d == Erase(i, {"record", "delay"} \cup SortedSets)
  <1>1. BuryOf(i) = <<{c}, {d}>>
    BY DEF BuryOf, Pick, RedisMoveToDeadLetter
  <1>2. Calm(c) /\ c.id = i /\ "dead" \in c.add
    BY DEF Calm, Unmakes, Unsorts, SortedSets
  <1>3. Free(d) /\ d.id = i /\ d.mark = "none" /\ "done" \notin d.del
    BY DEF Free, SortedSets
  <1> HIDE DEF c, d
  <1>4. Heads({c}, <<{d}>>)
    BY <1>2 DEF Heads, Calm
  <1>5. Tails({c}, <<{d}>>)
    BY <1>2, <1>3, Later DEF Tails
  <1>6. (<<{c}, {d}>>)[1] = {c} /\ Tail(<<{c}, {d}>>) = <<{d}>>
    OBVIOUS
  <1> QED  BY <1>1, <1>4, <1>5, <1>6 DEF Opens

(* A job leaves the delayed ones for the ready ones.                        *)
LEMMA MoveOpens ==
  ASSUME NEW i, NEW need
  PROVE  Opens(<<{Check(i, need)}, {Erase(i, {"deferred"})}, {Put(i, {"ready"})},
                 {Change(i, {}, {"delay"}, {"record"})}>>)
  <1> DEFINE b == Check(i, need)
             c == Erase(i, {"deferred"})
             d == Put(i, {"ready"})
             e == Change(i, {}, {"delay"}, {"record"})
  <1>1. Calm(b)
    BY DEF Calm, Unmakes, Unsorts
  <1>2. Free(c) /\ c.id = i /\ c.mark = "none" /\ c.del = {"deferred"} /\ c.add = {}
    BY DEF Free
  <1>3. Free(d) /\ Calm(d) /\ d.id = i /\ d.mark = "none" /\ d.add = {"ready"}
    BY DEF Free, Calm, Unmakes, Unsorts
  <1>4. Free(e) /\ Calm(e) /\ e.add = {"record"}
    BY DEF Free, Calm, Unmakes, Unsorts, SortedSets
  <1> HIDE DEF b, c, d, e
  <1> DEFINE rest == <<{c}, {d}, {e}>>
  <1>5. Sent(rest) = {c, d, e} /\ Sent(Tail(rest)) = {d, e}
    BY Later
  <1>6. (<<{b}, {c}, {d}, {e}>>)[1] = {b} /\ Tail(<<{b}, {c}, {d}, {e}>>) = rest
    OBVIOUS
  <1> HIDE DEF rest
  <1>7. Heads({b}, rest)
    BY <1>1 DEF Heads, Calm
  <1>8. c \notin Sent(Tail(rest)) /\ Readies(Sent(Tail(rest)), i) /\ ~Unmakes(c)
    BY <1>2, <1>3, <1>4, <1>5 DEF Readies, Unmakes
  <1>9. Tails({b}, rest)
    BY <1>2, <1>3, <1>4, <1>5, <1>8 DEF Tails, Calm
  <1>10. Opens(<<{b}, {c}, {d}, {e}>>)
    BY <1>6, <1>7, <1>9 DEF Opens
  <1> QED  BY <1>10 DEF b, c, d, e

LEMMA WorkOpens ==
  ASSUME kind = "redis", NEW i \in Ids
  PROVE  /\ Opens(AckOf(i)) /\ Opens(CompletedOf(i)) /\ Opens(AttemptsOf(i)) /\ Opens(ProgressOf(i))
         /\ Opens(MoveOf(i)) /\ Opens(PromoteOf(i))
  <1>1. Opens(AckOf(i))
    <2> DEFINE c == Acking(Erase(i, {"record", "delay", "leased"}))
    <2>1. Calm(c)
      BY DEF Calm, Unmakes, Unsorts
    <2> HIDE DEF c
    <2>2. Opens(<<{c}>>)
      BY <2>1, CalmOpens
    <2> QED  BY <2>2 DEF c, AckOf, Pick, RedisAck
  <1>2. Opens(CompletedOf(i))
    <2> DEFINE c == Put(i, {"done"})
    <2>1. Calm(c)
      BY DEF Calm, Unmakes, Unsorts
    <2> HIDE DEF c
    <2>2. Opens(<<{c}>>)
      BY <2>1, CalmOpens
    <2> QED  BY <2>2 DEF c, CompletedOf, Pick, RedisAddCompletedJob
  <1>3. Opens(AttemptsOf(i)) /\ Opens(ProgressOf(i))
    <2> DEFINE c == Check(i, {"record"})
               d == Reread(i)
    <2>1. Calm(c)
      BY DEF Calm, Unmakes, Unsorts
    <2>3. d.id = i /\ d.del = {"delay"} /\ "record" \in d.add /\ d.add \subseteq {"record", "delay"}
          /\ d.some = {} /\ d.need = {} /\ d.bar = {} /\ d.mark = "none" /\ d.lease = "keep"
      BY DEF Reread
    <2> HIDE DEF c, d
    <2>4. Calm(d) /\ Free(d)
      BY <2>3 DEF Calm, Unmakes, Unsorts, Free, SortedSets
    <2>2. Opens(<<{c}, {d}>>)
      BY <2>1, <2>4, CalmOpens
    <2> QED  BY <2>2 DEF c, d, AttemptsOf, ProgressOf, Pick, RedisUpdateAttempts, RedisSetJobProgress
  <1>4. Opens(MoveOf(i))
    BY MoveOpens DEF MoveOf, Pick, RedisMoveJobToQueue
  <1>5. Opens(PromoteOf(i))
    <2> DEFINE b == {Check(i, {"record", "delay"})}
               c == {Erase(i, {"deferred"})}
               d == {Put(i, {"ready"})}
               e == {Change(i, {}, {"delay"}, {"record"})}
    <2>1. PromoteOf(i) = <<b>> \o Tail(<<{Check(i, {"record"})}, c, d, e>>)
      BY DEF PromoteOf, Pick, RedisPromoteJob, RedisMoveJobToQueue
    <2>o. Opens(<<b, c, d, e>>)
      BY MoveOpens
    <2> HIDE DEF b, c, d, e
    <2>2. Tail(<<{Check(i, {"record"})}, c, d, e>>) = <<c, d, e>>
      OBVIOUS
    <2>3. <<b>> \o <<c, d, e>> = <<b, c, d, e>>
      BY JoinedThree
    <2>4. PromoteOf(i) = <<b, c, d, e>>
      BY <2>1, <2>2, <2>3, Zenon
    <2> QED  BY <2>o, <2>4
  <1> QED  BY <1>1, <1>2, <1>3, <1>4, <1>5

(* The record of a job comes before its id enters a sorted set.             *)
LEMMA StoreOpens ==
  ASSUME kind = "redis", NEW delayed \in BOOLEAN
  PROVE  /\ \A i \in Ids \ accepted : Opens(EnqueueOf(i, delayed))
         /\ \A S \in SUBSET (Ids \ accepted) : \A first : Opens(BatchOf(S, first, delayed))
  <1> DEFINE both(i) == RedisEnqueue(i, delayed)
             first(i) == Put(i, IF delayed THEN {"record", "delay"} ELSE {"record"})
             second(i) == Accepting(Put(i, IF delayed THEN {"deferred"} ELSE {"ready"}))
  <1>1. \A i : both(i) = <<{first(i)}, {second(i)}>>
    BY DEF RedisEnqueue
  <1>2. \A i : LET c == first(i)
               IN c.id = i /\ c.mark = "none" /\ "record" \in c.add /\ Calm(c)
    BY DEF Calm, Unmakes, Unsorts
  <1>3. \A i : LET c == second(i)
               IN c.id = i /\ c.mark = "accepted" /\ c.add \cap SortedSets # {} /\ c.del = {} /\ Free(c)
    BY DEF Free, SortedSets
  <1> HIDE DEF first, second
  <1>4. ASSUME NEW S \in SUBSET (Ids \ accepted)
        PROVE  Opens(<<{first(i) : i \in S}, {second(i) : i \in S}>>)
    <2> DEFINE T == {first(i) : i \in S}
               U == {second(i) : i \in S}
    <2>1. \A c \in T : Calm(c)
      BY <1>2
    <2>2. \A c \in U : /\ c.mark = "accepted" /\ c.add \cap SortedSets # {} /\ c.del = {} /\ Free(c)
                       /\ c.id \notin accepted /\ Records(T, c.id)
      <3> SUFFICES ASSUME NEW i \in S
                   PROVE  LET c == second(i)
                          IN /\ c.mark = "accepted" /\ c.add \cap SortedSets # {} /\ c.del = {} /\ Free(c)
                             /\ c.id \notin accepted /\ Records(T, c.id)
        OBVIOUS
      <3>1. first(i) \in T
        OBVIOUS
      <3> QED  BY <1>2, <1>3, <3>1 DEF Records
    <2> HIDE DEF T, U
    <2>3. Heads(T, <<U>>)
      BY <2>1 DEF Heads, Calm
    <2>4. Tails(T, <<U>>)
      BY <2>2, Later DEF Tails, Unmakes, Unsorts, Records
    <2>5. (<<T, U>>)[1] = T /\ Tail(<<T, U>>) = <<U>>
      OBVIOUS
    <2>6. Opens(<<T, U>>)
      BY <2>3, <2>4, <2>5 DEF Opens
    <2> QED  BY <2>6 DEF T, U
  <1>5. ASSUME NEW i \in Ids \ accepted
        PROVE  Opens(EnqueueOf(i, delayed))
    <2>1. {first(j) : j \in {i}} = {first(i)} /\ {second(j) : j \in {i}} = {second(i)}
      OBVIOUS
    <2>2. {i} \in SUBSET (Ids \ accepted)
      OBVIOUS
    <2> QED  BY <1>1, <1>4, <2>1, <2>2 DEF EnqueueOf, Pick
  <1>6. ASSUME NEW S \in SUBSET (Ids \ accepted), NEW f
        PROVE  Opens(BatchOf(S, f, delayed))
    <2>1. BatchOf(S, f, delayed) = <<UNION {both(i)[1] : i \in S}, UNION {both(i)[2] : i \in S}>>
      BY DEF BatchOf, Pick, RedisEnqueueBatch
    <2>2. \A i : both(i)[1] = {first(i)} /\ both(i)[2] = {second(i)}
      BY <1>1
    <2> HIDE DEF both
    <2>3. /\ UNION {both(i)[1] : i \in S} = {first(i) : i \in S}
          /\ UNION {both(i)[2] : i \in S} = {second(i) : i \in S}
      BY <2>2
    <2> QED  BY <1>4, <2>1, <2>3
  <1> QED  BY <1>5, <1>6

LEMMA ReplayOpens ==
  ASSUME kind = "redis", NEW i \in Ids, NEW n \in Ids \ accepted
  PROVE  Opens(ReplayOf(i, n))
  <1> DEFINE b == Unless(Check(i, {"dead"}), {"retried"})
             c == Put(i, {"dead", "retried"})
             d == Put(n, {"record"})
             e == Copying(Put(n, {"ready"}), i)
  <1>1. ReplayOf(i, n) = <<{b}, {c}, {d}, {e}>>
    BY DEF ReplayOf, Pick, RedisRetryDeadLetterJob
  <1>2. Calm(b) /\ Calm(c) /\ Free(c) /\ Calm(d) /\ Free(d)
    BY DEF Calm, Unmakes, Unsorts, Free
  <1>3. d.id = n /\ d.mark = "none" /\ "record" \in d.add
    OBVIOUS
  <1>4. Free(e) /\ e.id = n /\ e.mark = "accepted" /\ e.del = {} /\ e.add \cap SortedSets # {}
    BY DEF Free, SortedSets
  <1> HIDE DEF b, c, d, e
  <1> DEFINE rest == <<{c}, {d}, {e}>>
  <1>5. Sent(rest) = {c, d, e}
    BY Later
  <1>6. (<<{b}, {c}, {d}, {e}>>)[1] = {b} /\ Tail(<<{b}, {c}, {d}, {e}>>) = rest
    OBVIOUS
  <1> HIDE DEF rest
  <1>7. Heads({b}, rest)
    BY <1>2 DEF Heads, Calm
  <1>8. Records(Sent(rest) \cup {b}, n)
    BY <1>3, <1>5 DEF Records
  <1>9. Tails({b}, rest)
    BY <1>2, <1>4, <1>5, <1>8 DEF Tails, Calm, Unmakes, Unsorts
  <1> QED  BY <1>1, <1>6, <1>7, <1>9 DEF Opens

(* Nothing but a record is kept of a job that was not stored.               *)
LEMMA Stored ==
  ASSUME CoreInv, NEW i \in Ids, ~(at[i] \subseteq {"record", "delay"})
  PROVE  i \in accepted
  BY DEF CoreInv, Unborn

(* Two reads, the record, the sets: a removal is under way until the last.  *)
LEMMA RemovalOpens ==
  ASSUME kind = "redis", NEW i \in Ids, Recorded(i) => i \in accepted
  PROVE  Opens(RemoveOf(i)) /\ \A s \in Statuses : Opens(CleanOf(i, s))
  <1> DEFINE c == Erase(i, {"record", "delay"})
             d == Removing(Erase(i, SortedSets))
             e(places) == Removing(Erase(i, places))
  <1>1. c.id = i /\ c.mark = "none" /\ c.del = {"record", "delay"} /\ Free(c)
    BY DEF Free
  <1>2. d.id = i /\ d.mark = "removed" /\ Calm(d) /\ Free(d)
    BY DEF Calm, Unmakes, Unsorts, Free
  <1>3. \A places : Calm(e(places)) /\ Free(e(places))
    BY DEF Calm, Unmakes, Unsorts, Free
  <1>4. \A places : Opens(<<Read, {e(places)}>>) /\ Opens(<<Read, Read, {e(places)}>>)
    <2>1. \A x \in Read : Calm(x) /\ Free(x)
      BY DEF Read
    <2> HIDE DEF e
    <2> TAKE places
    <2>2. \A x \in {e(places)} : Calm(x) /\ Free(x)
      BY <1>3
    <2> QED  BY <2>1, <2>2, CalmOpens
  <1> HIDE DEF c, d, e
  <1>5. ASSUME Recorded(i)
        PROVE  Opens(<<Read, {c}, {d}>>) /\ Opens(<<Read, Read, {c}, {d}>>)
    <2>1. i \in accepted
      BY <1>5
    <2>2. ASSUME NEW rest, Sent(rest) = {c, d}
          PROVE  Heads(Read, rest) /\ Tails(Read, rest)
      <3>1. Heads(Read, rest)
        BY DEF Heads, Read
      <3>2. Removes(Sent(rest) \cup Read, i)
        BY <1>2, <2>2 DEF Removes
      <3>3. ~Unsorts(c) /\ "done" \notin c.del
        BY <1>1 DEF Unsorts, SortedSets
      <3>4. Tails(Read, rest)
        BY <1>1, <1>2, <2>1, <2>2, <3>2, <3>3 DEF Tails, Calm
      <3> QED  BY <3>1, <3>4
    <2>3. Sent(<<{c}, {d}>>) = {c, d} /\ Sent(<<Read, {c}, {d}>>) = {c, d}
      BY Later DEF Read
    <2>4. /\ (<<Read, {c}, {d}>>)[1] = Read /\ (<<Read, Read, {c}, {d}>>)[1] = Read
          /\ Tail(<<Read, {c}, {d}>>) = <<{c}, {d}>> /\ Tail(<<Read, Read, {c}, {d}>>) = <<Read, {c}, {d}>>
      OBVIOUS
    <2> QED  BY <2>2, <2>3, <2>4 DEF Opens
  <1>6. Opens(RedisRemoveJob(i)) /\ Opens(<<Read>> \o RedisRemoveJob(i))
    <2>1. CASE Recorded(i)
      <3>1. RedisRemoveJob(i) = <<Read, {c}, {d}>>
        BY <2>1 DEF RedisRemoveJob, c, d
      <3>2. <<Read>> \o <<Read, {c}, {d}>> = <<Read, Read, {c}, {d}>>
        BY JoinedThree
      <3> QED  BY <1>5, <2>1, <3>1, <3>2
    <2>2. CASE ~Recorded(i)
      <3>1. PICK places : RedisRemoveJob(i) = <<Read, {e(places)}>>
        BY <2>2 DEF RedisRemoveJob, e
      <3>2. <<Read>> \o <<Read, {e(places)}>> = <<Read, Read, {e(places)}>>
        BY JoinedTwo
      <3> QED  BY <1>4, <3>1, <3>2
    <2> QED  BY <2>1, <2>2
  <1>7. Opens(RemoveOf(i))
    BY <1>6 DEF RemoveOf, Pick
  <1>8. ASSUME NEW s \in Statuses  PROVE Opens(CleanOf(i, s))
    <2>1. CleanOf(i, s) = <<Read, {e({"done"})}>> \/ CleanOf(i, s) = <<Read>> \o RedisRemoveJob(i)
      BY DEF CleanOf, Pick, RedisCleanJobs, e
    <2> QED  BY <1>4, <1>6, <2>1
  <1> QED  BY <1>7, <1>8

LEMMA ObliterateOpens ==
  ASSUME CoreInv, kind = "redis"
  PROVE  Opens(RedisObliterateQueue)
  <1> DEFINE S == {j \in Ids : at[j] \cap SortedSets # {}}
             c(i) == Erase(i, {"record", "delay"})
             d(i) == Removing(Erase(i, SortedSets \cup DeadLetter \cup {"done"}))
             T == {c(i) : i \in S}
             U == {d(i) : i \in Ids}
  <1>1. RedisObliterateQueue = <<Read, T, U>>
    BY DEF RedisObliterateQueue
  <1>2. \A i : /\ c(i).id = i /\ c(i).mark = "none" /\ Free(c(i)) /\ "done" \notin c(i).del
               /\ ~Unsorts(c(i))
    BY DEF Free, Unsorts, SortedSets
  <1>3. \A i : d(i).id = i /\ d(i).mark = "removed" /\ Calm(d(i)) /\ Free(d(i))
    BY DEF Free, Calm, Unmakes, Unsorts
  <1>4. S \subseteq accepted /\ S \subseteq Ids
    BY DEF CoreInv, Unborn, SortedSets
  <1> HIDE DEF c, d, S
  <1>5. \A x \in T : /\ Free(x) /\ "done" \notin x.del /\ ~Unsorts(x) /\ x.mark = "none"
                     /\ x.id \in accepted /\ Removes(U, x.id)
    BY <1>2, <1>3, <1>4 DEF Removes
  <1>6. \A x \in U : Calm(x) /\ Free(x)
    BY <1>3
  <1> HIDE DEF T, U
  <1>7. Sent(<<T, U>>) = T \cup U
    BY Later
  <1>8. Heads(Read, <<T, U>>)
    BY DEF Heads, Read
  <1>9. Tails(Read, <<T, U>>)
    <2>1. \A x \in T : Removes(Sent(<<T, U>>) \cup Read, x.id)
      BY <1>5, <1>7 DEF Removes
    <2> QED  BY <1>5, <1>6, <1>7, <2>1 DEF Tails, Calm
  <1>10. (<<Read, T, U>>)[1] = Read /\ Tail(<<Read, T, U>>) = <<T, U>>
    OBVIOUS
  <1> QED  BY <1>1, <1>8, <1>9, <1>10 DEF Opens

HIDE DEF Change, Check, Put, Erase, IfAny, Unless, Leased, Granting, Accepting, Copying, Acking, Removing,
         Unstamped

-----------------------------------------------------------------------------
(* Steps of the clients.                                                    *)
AdapterInv == CoreInv /\ Replayed /\ (kind = "redis" => RedisInv)

(* A client begins an operation; fresh are the ids it draws.                *)
Begun(a, P, fresh, i, next) ==
  /\ fresh \subseteq Ids /\ fresh \cap used = {} /\ Admits(P, fresh)
  /\ todo[a] = <<>> /\ Start(a, P, i, next)
  /\ UNCHANGED <<beat, cut, restored>>
  /\ kind \in Indexed => Traces(P)
  /\ kind = "redis" => Opens(P)

(* Nothing was carried out; programs are cut short by a crash only.         *)
LEMMA Halted ==
  ASSUME AdapterInv, UNCHANGED <<kind, at, accepted, acked, removed, source>>, cut \subseteq cut',
         \A b \in Clients : \/ todo'[b] = todo[b]
                            \/ todo'[b] = <<>> /\ \A c \in Flight(b) : c.id \in cut',
         kind = "redis" => \A i \in Ids : \A c \in Sent(beat'[i]) : c.del = {}
  PROVE  Replayed' /\ (kind' = "redis" => RedisInv')
  <1>1. \A b \in Clients : Flight(b)' = Flight(b) \/ (Flight(b)' = {} /\ \A c \in Flight(b) : c.id \in cut')
    BY NothingSent DEF Flight, Sent
  <1>2. \A b \in Clients : Flight(b)' \subseteq Flight(b)
    BY <1>1
  <1>3. Replayed'
    <2>1. \A i \in Ids : Copies(i)' = Copies(i)
      BY DEF Copies
    <2>2. \A i \in Ids : Sought(i)' \subseteq Sought(i)
      BY <1>2 DEF Sought
    <2>3. \A i \in Ids : Copied(i)' \subseteq Copied(i)
      BY <2>1, <2>2 DEF Copied
    <2> QED  BY <2>1, <2>3 DEF Replayed, AdapterInv
  <1>4. ASSUME kind = "redis"  PROVE RedisInv'
    <2>0. /\ \A i : Excused(i) => Excused(i)'
          /\ \A i : i \in cut' => Excused(i)'
          /\ \A i : Recorded(i)' = Recorded(i) /\ Buried(i)' = Buried(i)
      BY DEF Excused, Recorded, Buried
    <2>1. ASSUME NEW b \in Clients  PROVE Pipe(todo[b])'
      <3>1. CASE todo'[b] = todo[b]
        <4>1. PICK P \in Programs : P = todo[b]
          BY DEF AdapterInv, CoreInv, TypeInv
        <4>2. Pipe(P)
          BY <1>4, <4>1 DEF AdapterInv, RedisInv
        <4>3. Pipe(P)'
          <5> SUFFICES ASSUME NEW c \in Sent(P)
                       PROVE  /\ Free(c) /\ ("done" \in c.del => c.mark = "removed")
                              /\ Unmakes(c) => c.id \in accepted' /\ (Buried(c.id)' \/ Removes(Sent(P), c.id))
                              /\ Unsorts(c) => \/ Buried(c.id)' \/ Removes(Sent(P), c.id)
                                               \/ c \notin Sent(Tail(P)) /\ Readies(Sent(Tail(P)), c.id)
                              /\ c.mark = "accepted" =>
                                   /\ c.add \cap SortedSets # {}
                                   /\ Excused(c.id)' \/ Recorded(c.id)' \/ Records(Sent(P), c.id)
            BY DEF Pipe, Sent, Free, Unmakes, Unsorts, Removes, Readies, Records
          <5> QED  BY <2>0, <4>2 DEF Pipe
        <4> QED  BY <3>1, <4>1, <4>3 DEF Pipe
      <3>2. CASE todo'[b] = <<>>
        <4>1. Sent(todo'[b]) = {}
          BY <3>2, NothingSent
        <4> QED  BY <4>1 DEF Pipe, Sent
      <3> QED  BY <3>1, <3>2
    <2>2. \A i \in Ids : \A c \in Sent(beat[i])' : c.del = {}
      BY <1>4 DEF Sent
    <2>3. \A i : Flying(i) => Flying(i)' \/ Excused(i)'
      BY <1>1, <2>0 DEF Flying, Removes
    <2>4. \A i : (\E b \in Clients : Readies(Flight(b), i)) =>
                   (\E b \in Clients : Readies(Flight(b)', i)) \/ Excused(i)'
      BY <1>1, <2>0 DEF Readies
    <2>5. \A i \in accepted' :
            /\ Excused(i)' \/ Recorded(i)' \/ Flying(i)'
            /\ \/ Excused(i)' \/ at'[i] \cap SortedSets # {} \/ Flying(i)'
               \/ \E b \in Clients : Readies(Flight(b)', i)
      BY <1>4, <2>0, <2>3, <2>4 DEF AdapterInv, RedisInv
    <2> QED  BY <2>1, <2>2, <2>5 DEF RedisInv, Readies
  <1> QED  BY <1>3, <1>4

LEMMA Begins ==
  ASSUME AdapterInv, NEW a \in Clients, NEW P, NEW fresh, NEW i, NEW next, Begun(a, P, fresh, i, next)
  PROVE  Replayed' /\ (kind' = "redis" => RedisInv')
  <1> DEFINE T == Head(P)
             rest == Tail(P)
  <1>1. /\ P \in Programs /\ P # <<>> /\ T = P[1] /\ T \in Transactions /\ rest \in Programs
        /\ Len(P) \in Nat \ {0}
    BY HeadTail DEF Begun, Admits
  <1>2. Carry(a, T, rest, i, next) /\ beat' = beat /\ cut' = cut /\ restored' = restored
    BY DEF Begun, Start
  <1>3. Flight(a) = {} /\ TypeInv
    BY NothingSent DEF Begun, Flight, AdapterInv, CoreInv
  <1>4. T \cup Sent(rest) \subseteq Sent(P)
    BY <1>1, TailSent
  <1>5. kind \in Indexed => Traces(P)
    BY DEF Begun
  <1>6. kind = "redis" => Heads(T, rest) /\ Tails(T, rest)
    BY <1>1 DEF Begun, Opens
  <1>7. Commits(T) => Fits(T, restored)
    BY <1>1 DEF Begun, Admits
  <1> HIDE DEF T, rest
  <1>8. CASE ~Commits(T)
    <2>1. /\ todo' = [todo EXCEPT ![a] = <<>>]
          /\ UNCHANGED <<kind, at, accepted, acked, removed, source>>
      BY <1>2, <1>8 DEF Carry
    <2>2. todo[a] = <<>>
      BY DEF Begun
    <2>3. \A b \in Clients : todo'[b] = todo[b]
      BY <1>3, <2>1, <2>2 DEF TypeInv
    <2>4. kind = "redis" => \A j \in Ids : \A c \in Sent(beat'[j]) : c.del = {}
      BY <1>2 DEF AdapterInv, RedisInv
    <2> QED  BY <1>2, <2>1, <2>3, <2>4, Halted
  <1>9. CASE Commits(T)
    <2>1. Perform(T) /\ Note(T) /\ todo' = [todo EXCEPT ![a] = rest]
      BY <1>2, <1>9 DEF Carry
    <2>2. Lands(T) /\ kind' = kind
      BY <1>1, <1>2, <1>3, <1>7, <1>9, <2>1, Landed DEF Lands, TypeInv
    <2>3. ASSUME kind \in Indexed  PROVE Replayed'
      <3>1. \A b \in Clients : Flight(b)' = IF b = a THEN Sent(rest) ELSE Flight(b)
        BY <1>3, <2>1 DEF Flight, TypeInv, Sent
      <3>2. \A c \in Fresh(T) : c.of # NoId /\ \E k \in 1..Len(P) : c \in P[k]
        BY <1>4, <3>1 DEF Fresh, Sent
      <3>3. \A c \in Fresh(T) :
              /\ c.of \in Ids /\ \E h \in T : h.id = c.of /\ "retried" \in h.bar /\ "retried" \in h.add
              /\ \A d \in Fresh(T) : d.of = c.of => d = c
        BY <1>1, <1>5, <2>3, <3>2 DEF Traces
      <3>4. kind \in Transactional => \A h \in T : "retried" \in h.add => \E d \in T : d.of = h.id
        BY <1>1, <1>5, <2>3 DEF Traces
      <3> QED  BY <1>1, <2>2, <2>3, <3>3, <3>4, ReplayedKept DEF AdapterInv
    <2>4. kind \notin Indexed => Replayed'
      BY <2>2 DEF Replayed
    <2>5. ASSUME kind = "redis"  PROVE RedisInv'
      BY <1>1, <1>2, <1>3, <1>6, <2>1, <2>2, <2>5, PipeLands DEF AdapterInv
    <2> QED  BY <2>2, <2>3, <2>4, <2>5
  <1> QED  BY <1>8, <1>9

(* A client goes on: nothing in a pipeline asks for anything, and what the  *)
(* transaction takes the rest makes good.                                   *)
LEMMA Continues ==
  ASSUME AdapterInv, NEW a \in Clients, Step(a)
  PROVE  Replayed' /\ (kind' = "redis" => RedisInv')
  <1> DEFINE P == todo[a]
             T == Head(P)
             rest == Tail(P)
  <1>1. /\ P \in Programs /\ P # <<>> /\ T = P[1] /\ T \in Transactions /\ rest \in Programs
        /\ Len(P) \in Nat \ {0} /\ Len(rest) = Len(P) - 1 /\ TypeInv
    BY HeadTail DEF Step, AdapterInv, CoreInv, TypeInv
  <1>2. /\ T \subseteq Sent(P) /\ Sent(rest) \subseteq Sent(P) /\ Sent(P) \subseteq T \cup Sent(rest)
    <2>1. ASSUME NEW c \in Sent(P)  PROVE c \in T \cup Sent(rest)
      <3>1. PICK k \in 1..Len(P) : c \in P[k]
        BY DEF Sent
      <3>2. CASE k = 1
        BY <1>1, <3>1, <3>2
      <3>3. CASE k # 1
        <4>1. k - 1 \in 1..Len(rest) /\ rest[k - 1] = P[(k - 1) + 1] /\ (k - 1) + 1 = k
          BY <1>1, <3>3, HeadTail
        <4> QED  BY <3>1, <4>1 DEF Sent
      <3> QED  BY <3>2, <3>3
    <2> QED  BY <1>1, <2>1, TailSent
  <1>3. /\ Carry(a, T, rest, job[a], stage[a]) /\ beat' = beat /\ cut' = cut
        /\ restored' = restored \cup (IF Commits(T) THEN Restoring(T) ELSE {})
    BY DEF Step
  <1>4. Commits(T) => Fits(T, restored')
    BY <1>1, <1>3, StrayFits DEF AdapterInv
  <1>5. Sent(P) = Flight(a) /\ \A c \in Sent(P) : Mild(c)
    BY DEF Flight, AdapterInv, CoreInv, Underway
  <1>6. Marked(T, "accepted") # {} => Sent(rest) = {}
    <2>1. CASE Len(P) = 1
      <3>1. Len(rest) = 0  BY <1>1, <2>1
      <3> QED  BY <3>1 DEF Sent
    <2>2. CASE Len(P) # 1
      <3>1. \A n \in Nat \ {0} : n # 1 => 1 \in 1..(n - 1)  OBVIOUS
      <3>2. 1 \in 1..(Len(P) - 1)  BY <1>1, <2>2, <3>1
      <3> QED  BY <1>1, <3>2 DEF AdapterInv, CoreInv, Underway
    <2> QED  BY <2>1, <2>2
  <1>7. \A c \in Sent(rest) : c.mark = "accepted" => c.id \notin accepted
    BY <1>2, <1>5 DEF AdapterInv, CoreInv, Underway, Awaited, Marked
  <1>8. kind = "redis" => Pipe(P)
    BY DEF AdapterInv, RedisInv
  <1>r. \A S : rest = Tail(P)
    OBVIOUS
  <1> HIDE DEF T, rest, P
  <1>9. ASSUME kind = "redis"
        PROVE  Heads(T, rest) /\ Tails(T, rest)
    <2>1. \A c, d \in T : c.id = d.id => c = d
      BY <1>1 DEF Transactions
    <2>2. Heads(T, rest)
      <3> SUFFICES ASSUME NEW c \in T
                   PROVE  /\ "done" \in c.del => c.mark = "removed"
                          /\ Unmakes(c) => c.id \in accepted /\ (Buried(c.id) \/ Removes(Sent(rest), c.id))
                          /\ Unsorts(c) => \/ Buried(c.id) \/ Removes(Sent(rest), c.id)
                                           \/ Readies(Sent(rest), c.id) \/ ~Recorded(c.id)
                          /\ c.mark = "accepted" => /\ c.add \cap SortedSets # {}
                                                    /\ Excused(c.id) \/ Recorded(c.id)
        BY DEF Heads
      <3>1. /\ "done" \in c.del => c.mark = "removed"
            /\ Unmakes(c) => c.id \in accepted /\ (Buried(c.id) \/ Removes(Sent(P), c.id))
            /\ Unsorts(c) => \/ Buried(c.id) \/ Removes(Sent(P), c.id) \/ Readies(Sent(Tail(P)), c.id)
            /\ c.mark = "accepted" => /\ c.add \cap SortedSets # {}
                                      /\ Excused(c.id) \/ Recorded(c.id) \/ Records(Sent(P), c.id)
        BY <1>2, <1>8, <1>9 DEF Pipe
      <3>2. c.mark # "removed" => (Removes(Sent(P), c.id) => Removes(Sent(rest), c.id))
        BY <1>2, <2>1 DEF Removes
      <3>3. c.mark = "accepted" => ~Records(Sent(P), c.id)
        BY <1>2, <1>6, <2>1 DEF Records, Marked
      <3> QED  BY <1>r, <3>1, <3>2, <3>3 DEF Unmakes, Unsorts, rest
    <2>3. Tails(T, rest)
      <3> SUFFICES ASSUME NEW c \in Sent(rest)
                   PROVE  /\ Free(c) /\ ("done" \in c.del => c.mark = "removed")
                          /\ Unmakes(c) => /\ c.id \in accepted
                                           /\ Buried(c.id) \/ Removes(Sent(rest) \cup T, c.id)
                          /\ Unsorts(c) => Buried(c.id) \/ Removes(Sent(rest) \cup T, c.id)
                          /\ c.mark = "accepted" =>
                               /\ c.add \cap SortedSets # {} /\ c.id \notin accepted
                               /\ Excused(c.id) \/ Recorded(c.id) \/ Records(Sent(rest) \cup T, c.id)
        BY DEF Tails
      <3>1. Sent(P) = Sent(rest) \cup T /\ c \in Sent(P) /\ c \in Sent(Tail(P))
        BY <1>2 DEF rest
      <3> QED  BY <1>7, <1>8, <1>9, <3>1 DEF Pipe
    <2> QED  BY <2>2, <2>3
  <1>10. CASE ~Commits(T)
    <2>1. /\ todo' = [todo EXCEPT ![a] = <<>>]
          /\ UNCHANGED <<kind, at, accepted, acked, removed, source>>
      BY <1>3, <1>10 DEF Carry
    <2>2. \A b \in Clients : todo'[b] = IF b = a THEN <<>> ELSE todo[b]
      BY <1>1, <2>1 DEF TypeInv
    <2>3. kind # "redis"
      BY <1>2, <1>8, <1>10 DEF Pipe, Free, Commits
    <2>4. Replayed'
      <3>1. \A b \in Clients : Flight(b)' \subseteq Flight(b)
        BY <2>2, NothingSent DEF Flight, Sent
      <3>2. \A i \in Ids : Copied(i)' \subseteq Copied(i) /\ Copies(i)' = Copies(i)
        BY <2>1, <3>1 DEF Copied, Copies, Sought
      <3> QED  BY <2>1, <3>2 DEF Replayed, AdapterInv
    <2> QED  BY <2>1, <2>3, <2>4
  <1>11. CASE Commits(T)
    <2>1. Perform(T) /\ Note(T) /\ todo' = [todo EXCEPT ![a] = rest]
      BY <1>3, <1>11 DEF Carry
    <2>2. Lands(T) /\ kind' = kind
      BY <1>1, <1>3, <1>4, <1>11, <2>1, Landed DEF Lands, TypeInv
    <2>3. ASSUME kind \in Indexed  PROVE Replayed'
      <3>1. \A b \in Clients : Flight(b)' = IF b = a THEN Sent(rest) ELSE Flight(b)
        BY <1>1, <2>1 DEF Flight, TypeInv, Sent
      <3>2. Fresh(T) = {}
        BY <1>2, <1>5, <3>1 DEF Fresh
      <3>3. kind \in Transactional => \A h \in T : "retried" \notin h.add
        BY <1>2, <1>5 DEF Mild, DeadLetter
      <3> QED  BY <1>1, <2>2, <2>3, <3>2, <3>3, ReplayedKept DEF AdapterInv
    <2>4. kind \notin Indexed => Replayed'
      BY <2>2 DEF Replayed
    <2>5. ASSUME kind = "redis"  PROVE RedisInv'
      BY <1>1, <1>2, <1>3, <1>5, <1>9, <2>1, <2>2, <2>5, PipeLands DEF AdapterInv
    <2> QED  BY <2>2, <2>3, <2>4, <2>5
  <1> QED  BY <1>10, <1>11

(* A renewal only adds.                                                     *)
LEMMA BeatAdds ==
  ASSUME AdapterInv, NEW i \in Ids, LandBeat(i)
  PROVE  Replayed' /\ (kind' = "redis" => RedisInv')
  <1> DEFINE T == Head(beat[i])
  <1>1. /\ beat[i] \in Programs /\ T = beat[i][1] /\ T \in Transactions /\ Tail(beat[i]) \in Programs
        /\ T \subseteq Sent(beat[i]) /\ Sent(Tail(beat[i])) \subseteq Sent(beat[i]) /\ TypeInv
    <2>1. beat[i] \in Programs /\ beat[i] # <<>>
      BY DEF LandBeat, AdapterInv, CoreInv, TypeInv
    <2> QED  BY <2>1, HeadTail, TailSent DEF AdapterInv, CoreInv
  <1>2. \A c \in T : Mild(c) /\ c.mark = "none"
    BY BeatLanding DEF AdapterInv
  <1>3. Commits(T) => Lands(T)
    BY BeatLanding DEF AdapterInv
  <1>4. UNCHANGED <<todo, accepted, acked, removed, source, cut>>
    BY DEF LandBeat, marks
  <1>5. /\ Commits(T) => beat' = [beat EXCEPT ![i] = Tail(beat[i])]
        /\ ~Commits(T) => beat' = [beat EXCEPT ![i] = <<>>] /\ UNCHANGED <<kind, at>>
    BY DEF LandBeat
  <1> HIDE DEF T
  <1>6. kind = "redis" => \A j \in Ids : \A c \in Sent(beat'[j]) : c.del = {}
    <2> SUFFICES ASSUME kind = "redis", NEW j \in Ids, NEW c \in Sent(beat'[j])  PROVE c.del = {}
      OBVIOUS
    <2>1. Sent(beat'[j]) \subseteq Sent(beat[j])
      <3>1. beat'[j] = beat[j] \/ (j = i /\ beat'[j] \in {<<>>, Tail(beat[i])})
        BY <1>1, <1>5 DEF TypeInv
      <3> QED  BY <1>1, <3>1, NothingSent
    <2> QED  BY <2>1 DEF AdapterInv, RedisInv
  <1>7. CASE ~Commits(T)
    BY <1>4, <1>5, <1>6, <1>7, Halted
  <1>8. CASE Commits(T)
    <2>1. Lands(T) /\ kind' = kind
      BY <1>1, <1>3, <1>8, Landed DEF Lands, TypeInv
    <2>2. \A b \in Clients : Flight(b)' = Flight(b)
      BY <1>4 DEF Flight, Sent
    <2>3. ASSUME kind \in Indexed  PROVE Replayed'
      <3>1. Fresh(T) = {}
        BY <1>2, <2>2 DEF Fresh, Mild
      <3>2. kind \in Transactional => \A h \in T : "retried" \notin h.add
        BY <1>2 DEF Mild, DeadLetter
      <3> QED  BY <1>1, <2>1, <2>3, <3>1, <3>2, ReplayedKept DEF AdapterInv
    <2>4. kind \notin Indexed => Replayed'
      BY <2>1 DEF Replayed
    <2>5. ASSUME kind = "redis"  PROVE RedisInv'
      <3>1. \A c \in T : c.del = {}
        BY <1>1, <2>5 DEF AdapterInv, RedisInv
      <3>2. /\ \A c \in T : ("done" \in c.del => c.mark = "removed") /\ (Unmakes(c) => c.id \in accepted)
            /\ accepted \subseteq Ids
        BY <1>1, <3>1 DEF Unmakes, TypeInv
      <3>3. \A j \in Ids : Excused(j) => Excused(j)'
        BY <1>1, <1>4, <2>1, <3>2, ExcusedStays
      <3>4. \A j \in Ids : at[j] \subseteq at'[j]
        <4>1. \A c \in T : at'[c.id] = (at[c.id] \ c.del) \cup c.add
          BY <1>1, <2>1, Landed DEF Lands, TypeInv
        <4>2. \A j \in Ids : (\A c \in T : c.id # j) => at'[j] = at[j]
          BY <1>1, <2>1, Landed DEF Lands, TypeInv
        <4> QED  BY <3>1, <4>1, <4>2
      <3>5. ASSUME NEW b \in Clients  PROVE Pipe(todo[b])'
        <4>1. PICK P \in Programs : P = todo[b]
          BY <1>1 DEF TypeInv
        <4>2. Pipe(P) /\ Marked(Sent(P), "accepted") \cap accepted = {}
          BY <2>5, <4>1 DEF AdapterInv, RedisInv, CoreInv, Underway, Awaited, Flight
        <4>3. Pipe(P)'
          BY <1>1, <1>4, <2>1, <3>2, <4>2, PipeStays
        <4> QED  BY <1>4, <4>1, <4>3 DEF Pipe
      <3>6. \A j \in Ids : \A c \in Sent(beat[j])' : c.del = {}
        BY <1>6, <2>5 DEF Sent
      <3>7. \A j \in Ids : /\ Recorded(j) => Recorded(j)'
                           /\ at[j] \cap SortedSets # {} => at'[j] \cap SortedSets # {}
                           /\ Flying(j)' = Flying(j)
        BY <2>2, <3>4 DEF Recorded, Flying
      <3> QED  BY <1>4, <2>2, <2>5, <3>2, <3>3, <3>5, <3>6, <3>7 DEF AdapterInv, RedisInv, Readies
    <2> QED  BY <2>1, <2>3, <2>4, <2>5
  <1> QED  BY <1>7, <1>8

-----------------------------------------------------------------------------
(* Every operation begins so.                                               *)
LEMMA DispatchBegins ==
  ASSUME AdapterInv, NEW a \in Clients, Dispatch(a) \/ DispatchBatch(a) \/ Replay(a)
  PROVE  \E P, fresh, i, next : Begun(a, P, fresh, i, next)
  <1>0. /\ UNCHANGED <<beat, cut, restored>> /\ todo[a] = <<>> /\ accepted \subseteq used /\ CoreInv
    BY DEF Dispatch, DispatchBatch, Replay, Idle, AdapterInv, CoreInv, TypeInv
  <1>1. CASE Dispatch(a)
    <2>1. PICK i \in Ids \ used, delayed \in BOOLEAN : Start(a, EnqueueOf(i, delayed), NoId, "idle")
      BY <1>1 DEF Dispatch
    <2>2. Admits(EnqueueOf(i, delayed), {i})
      BY <1>0, EnqueueAdmitted
    <2>3. kind \in Indexed => Traces(EnqueueOf(i, delayed))
      BY <2>2, WorkPlain, PlainTraces DEF Admits
    <2>4. kind = "redis" => Opens(EnqueueOf(i, delayed))
      BY <1>0, StoreOpens
    <2>5. Begun(a, EnqueueOf(i, delayed), {i}, NoId, "idle")
      BY <1>0, <2>1, <2>2, <2>3, <2>4 DEF Begun
    <2> QED  BY <2>5
  <1>2. CASE DispatchBatch(a)
    <2>1. PICK S \in SUBSET (Ids \ used), first \in Ids, delayed \in BOOLEAN :
            Start(a, BatchOf(S, first, delayed), NoId, "idle")
      BY <1>2 DEF DispatchBatch
    <2>2. Admits(BatchOf(S, first, delayed), S) /\ kind \in {"postgres", "mysql", "redis"}
      BY <1>0, <1>2, BatchAdmitted DEF DispatchBatch
    <2>3. kind \in Indexed => Traces(BatchOf(S, first, delayed))
      BY <2>2, BatchPlain, PlainTraces DEF Admits
    <2>4. kind = "redis" => Opens(BatchOf(S, first, delayed))
      <3>1. S \in SUBSET (Ids \ accepted)
        BY <1>0
      <3> QED  BY <3>1, StoreOpens
    <2>5. Begun(a, BatchOf(S, first, delayed), S, NoId, "idle")
      BY <1>0, <2>1, <2>2, <2>3, <2>4 DEF Begun
    <2> QED  BY <2>5
  <1>3. CASE Replay(a)
    <2>1. PICK i \in DeadView, n \in Ids \ (used \cup keyed) : Start(a, ReplayOf(i, n), NoId, "idle")
      BY <1>3 DEF Replay
    <2>0. i \in Ids
      BY <1>0 DEF DeadView, Pick, PgGetDeadLetterJobs, MyGetDeadLetterJobs, MongoGetDeadLetterJobs,
                  DynamoGetDeadLetterJobs, RedisGetDeadLetterJobs, CoreInv, TypeInv, Servers
    <2>2. Admits(ReplayOf(i, n), {n})
      BY <1>0, ReplayAdmitted
    <2>3. kind \in Indexed => Traces(ReplayOf(i, n))
      BY <2>0, ReplayTraces
    <2>4. kind = "redis" => Opens(ReplayOf(i, n))
      BY <1>0, <2>0, ReplayOpens
    <2>5. Begun(a, ReplayOf(i, n), {n}, NoId, "idle")
      BY <1>0, <2>1, <2>2, <2>3, <2>4 DEF Begun
    <2> QED  BY <2>5
  <1> QED  BY <1>1, <1>2, <1>3

LEMMA WorkBegins ==
  ASSUME AdapterInv, NEW a \in Clients,
         Lease(a) \/ Complete(a) \/ Acknowledge(a) \/ Bury(a) \/ Report(a)
  PROVE  \E P, fresh, i, next : Begun(a, P, fresh, i, next)
  <1>0. /\ UNCHANGED <<beat, cut, restored>> /\ todo[a] = <<>> /\ accepted \subseteq Ids /\ CoreInv
    BY DEF Lease, Complete, Acknowledge, Bury, Report, Idle, AdapterInv, CoreInv, TypeInv
  <1>b. ASSUME NEW P, Admits(P, {}), NEW i, NEW next, Start(a, P, i, next),
               kind \in Indexed => Plain(P), kind = "redis" => Opens(P)
        PROVE  \E Q, fresh, j, n : Begun(a, Q, fresh, j, n)
    <2>1. kind \in Indexed => Traces(P)
      BY <1>b, PlainTraces DEF Admits
    <2>2. Begun(a, P, {}, i, next)
      BY <1>0, <1>b, <2>1 DEF Begun
    <2> QED  BY <2>2
  <1>1. CASE Lease(a)
    <2>1. PICK i \in Ids : Leasable(i) /\ Start(a, DequeueOf(i), NoId, "idle")
      BY <1>1 DEF Lease
    <2>2. Admits(DequeueOf(i), {})
      BY <1>0, <2>1, DequeueAdmitted
    <2> QED  BY <1>b, <2>1, <2>2, WorkPlain, DequeueOpens
  <1>2. CASE ~Lease(a)
    <2>0. job[a] \in accepted /\ job[a] \in Ids
      BY <1>0, <1>2 DEF CoreInv, Unborn, Complete, Acknowledge, Bury, Report
    <2>1. CASE Complete(a)
      <3>1. Start(a, CompletedOf(job[a]), job[a], "recorded") /\ Admits(CompletedOf(job[a]), {})
        BY <1>0, <2>0, <2>1, CompletedAdmitted DEF Complete
      <3> QED  BY <1>b, <2>0, <3>1, WorkPlain, WorkOpens
    <2>2. CASE Acknowledge(a)
      <3>1. Start(a, AckOf(job[a]), NoId, "idle") /\ Admits(AckOf(job[a]), {})
        BY <1>0, <2>0, <2>2, AckAdmitted DEF Acknowledge
      <3> QED  BY <1>b, <2>0, <3>1, WorkPlain, WorkOpens
    <2>3. CASE Bury(a)
      <3>1. Start(a, BuryOf(job[a]), NoId, "idle") /\ Admits(BuryOf(job[a]), {})
        BY <1>0, <2>0, <2>3, BuryAdmitted DEF Bury
      <3> QED  BY <1>b, <2>0, <3>1, WorkPlain, BuryOpens
    <2>4. CASE Report(a)
      <3>1. PICK P \in {AttemptsOf(job[a]), ProgressOf(job[a])} : Start(a, P, job[a], "running")
        BY <2>4 DEF Report
      <3>2. Admits(P, {})
        BY <1>0, <2>0, ReportAdmitted
      <3> QED  BY <1>b, <2>0, <3>1, <3>2, WorkPlain, WorkOpens
    <2> QED  BY <1>2, <2>1, <2>2, <2>3, <2>4
  <1> QED  BY <1>1, <1>2

LEMMA SteerBegins ==
  ASSUME AdapterInv, NEW a \in Clients, Pass(a) \/ Promote(a) \/ Remove(a) \/ Clean(a) \/ Obliterate(a)
  PROVE  \E P, fresh, i, next : Begun(a, P, fresh, i, next)
  <1>0. /\ UNCHANGED <<beat, cut, restored>> /\ todo[a] = <<>> /\ accepted \subseteq Ids /\ CoreInv
    BY DEF Pass, Promote, Remove, Clean, Obliterate, Idle, AdapterInv, CoreInv, TypeInv
  <1> SUFFICES \E P : /\ Admits(P, {}) /\ Start(a, P, NoId, "idle")
                      /\ (kind \in Indexed => Plain(P)) /\ (kind = "redis" => Opens(P))
    <2>1. PICK P : /\ Admits(P, {}) /\ Start(a, P, NoId, "idle")
                   /\ (kind \in Indexed => Plain(P)) /\ (kind = "redis" => Opens(P))
      OBVIOUS
    <2>2. kind \in Indexed => Traces(P)
      BY <2>1, PlainTraces DEF Admits
    <2>3. Begun(a, P, {}, NoId, "idle")
      BY <1>0, <2>1, <2>2 DEF Begun
    <2> QED  BY <2>3
  <1>1. CASE Pass(a)
    <2>1. CASE kind = "postgres" /\ Start(a, PgPromoteDelayedJobs(PgPromotable), NoId, "idle")
      <3>1. kind \in Indexed /\ kind # "redis"
        BY <2>1 DEF Indexed
      <3> QED  BY <1>0, <2>1, <3>1, PgPassAdmitted, PassPlain
    <2>2. CASE \E i \in DelayedOf : Start(a, (IF Piecewise THEN <<>> ELSE <<Read>>) \o MoveOf(i), NoId, "idle")
      <3>1. PICK i \in DelayedOf : Start(a, (IF Piecewise THEN <<>> ELSE <<Read>>) \o MoveOf(i), NoId, "idle")
        BY <2>2
      <3>2. Admits((IF Piecewise THEN <<>> ELSE <<Read>>) \o MoveOf(i), {})
        BY <1>0, PassAdmitted
      <3>3. kind \in Indexed => Plain((IF Piecewise THEN <<>> ELSE <<Read>>) \o MoveOf(i))
        BY PassPlain
      <3>4. ASSUME kind = "redis"  PROVE Opens((IF Piecewise THEN <<>> ELSE <<Read>>) \o MoveOf(i))
        <4>1. Piecewise /\ i \in Ids
          BY <3>4 DEF Piecewise, DelayedOf, Pick, RedisGetDelayedJobs
        <4>2. Opens(MoveOf(i))
          BY <3>4, <4>1, WorkOpens
        <4>3. <<>> \o MoveOf(i) = MoveOf(i)
          BY <3>4 DEF MoveOf, Pick, RedisMoveJobToQueue
        <4> QED  BY <4>1, <4>2, <4>3
      <3> QED  BY <3>1, <3>2, <3>3, <3>4
    <2> QED  BY <1>1, <2>1, <2>2 DEF Pass
  <1>2. CASE Promote(a)
    <2>1. PICK i \in accepted : Start(a, PromoteOf(i), NoId, "idle")
      BY <1>2 DEF Promote
    <2> QED  BY <1>0, <2>1, PromoteAdmitted, WorkPlain, WorkOpens
  <1>3. CASE Remove(a)
    <2>1. PICK i \in accepted : Start(a, RemoveOf(i), NoId, "idle")
      BY <1>3 DEF Remove
    <2> QED  BY <1>0, <2>1, RemoveAdmitted, RemovalPlain, RemovalOpens
  <1>4. CASE Clean(a)
    <2>1. PICK i \in Ids, s \in Statuses : /\ Start(a, CleanOf(i, s), NoId, "idle")
                                           /\ kind = "redis" => RedisSelected(i, s)
      BY <1>4 DEF Clean
    <2>2. kind = "redis" => i \in accepted
      <3>1. kind = "redis" => ~(at[i] \subseteq {"record", "delay"})
        BY <2>1 DEF RedisSelected
      <3> QED  BY <1>0, <3>1, Stored
    <2> QED  BY <1>0, <2>1, <2>2, CleanAdmitted, RemovalPlain, RemovalOpens
  <1>5. CASE Obliterate(a)
    <2>1. PICK order \in Collections :
            Start(a, Pick(PgObliterateQueue, MyObliterateQueue, MongoObliterateQueue(order),
                          DynamoObliterateQueue, RedisObliterateQueue, <<>>), NoId, "idle")
      BY <1>5 DEF Obliterate
    <2>2. kind = "redis" =>
            Opens(Pick(PgObliterateQueue, MyObliterateQueue, MongoObliterateQueue(order),
                       DynamoObliterateQueue, RedisObliterateQueue, <<>>))
      BY <1>0, ObliterateOpens DEF Pick
    <2> QED  BY <1>0, <2>1, <2>2, ObliterateAdmitted, RemovalPlain
  <1> QED  BY <1>1, <1>2, <1>3, <1>4, <1>5

-----------------------------------------------------------------------------
LEMMA StrandedKept ==
  ASSUME AdapterInv, (\E a \in Clients : SendBeat(a) \/ Crash(a))
                     \/ (\E i \in Ids : Mature(i) \/ Lapse(i)) \/ UNCHANGED vars
  PROVE  Replayed' /\ (kind' = "redis" => RedisInv')
  <1>0. CoreInv /\ TypeInv /\ (kind = "redis" => \A i \in Ids : \A c \in Sent(beat[i]) : c.del = {})
    BY DEF AdapterInv, CoreInv, RedisInv
  <1>1. CASE \E a \in Clients : SendBeat(a)
    <2>1. PICK a \in Clients : SendBeat(a)
      BY <1>1
    <2>2. /\ UNCHANGED <<kind, at, accepted, acked, removed, source, cut, todo>>
          /\ beat' = [beat EXCEPT ![job[a]] = ExtendOf(job[a])]
      BY <2>1 DEF SendBeat, storeVars, marks
    <2>3. ASSUME kind = "redis", NEW i \in Ids, NEW c \in Sent(beat'[i])  PROVE c.del = {}
      <3>1. ExtendOf(job[a]) = <<{Leased(Put(job[a], {"leased"}))}>>
        BY <2>3 DEF ExtendOf, Pick, RedisExtendLease
      <3>2. \A d \in Sent(ExtendOf(job[a])) : d.del = {}
        BY <3>1, Later DEF Leased, Put, Change
      <3>3. beat'[i] = beat[i] \/ beat'[i] = ExtendOf(job[a])
        BY <1>0, <2>2 DEF TypeInv
      <3> QED  BY <1>0, <2>3, <3>2, <3>3
    <2> QED  BY <2>2, <2>3, Halted
  <1>2. CASE \E a \in Clients : Crash(a)
    <2>1. PICK a \in Clients : Crash(a)
      BY <1>2
    <2>2. /\ UNCHANGED <<kind, accepted, acked, removed, source, beat>>
          /\ todo' = [todo EXCEPT ![a] = <<>>] /\ cut' = cut \cup Mentioned(todo[a])
      BY <2>1 DEF Crash
    <2>3. at' = at
      BY <1>0, <2>1 DEF Crash, TypeInv, Servers
    <2>4. \A c \in Flight(a) : c.id \in cut'
      <3>1. todo[a] \in Programs
        BY <1>0 DEF TypeInv
      <3>2. DOMAIN todo[a] = 1..Len(todo[a])
        BY <3>1 DEF Programs
      <3> QED  BY <2>2, <3>2 DEF Flight, Sent, Mentioned
    <2>5. \A b \in Clients : todo'[b] = IF b = a THEN <<>> ELSE todo[b]
      BY <1>0, <2>2 DEF TypeInv
    <2> QED  BY <1>0, <2>2, <2>3, <2>4, <2>5, Halted
  <1>3. CASE (\E i \in Ids : Mature(i) \/ Lapse(i)) \/ UNCHANGED vars
    <2>1. UNCHANGED <<kind, at, accepted, acked, removed, source, cut, todo, beat>>
      BY <1>3 DEF Mature, Lapse, clientVars, marks, vars, storeVars
    <2> QED  BY <1>0, <2>1, Halted
  <1> QED  BY <1>1, <1>2, <1>3

LEMMA AdapterNext ==
  ASSUME AdapterInv, [Next]_vars
  PROVE  AdapterInv'
  <1>1. CoreInv'
    BY NextKept DEF AdapterInv
  <1>2. Replayed' /\ (kind' = "redis" => RedisInv')
    <2>1. ASSUME NEW a \in Clients, \E P, fresh, i, next : Begun(a, P, fresh, i, next)
          PROVE  Replayed' /\ (kind' = "redis" => RedisInv')
      BY <2>1, Begins
    <2> QED
      BY <2>1, DispatchBegins, WorkBegins, SteerBegins, Continues, BeatAdds, StrandedKept DEF Next
  <1> QED  BY <1>1, <1>2 DEF AdapterInv

LEMMA AdapterInit ==
  ASSUME StoreInit, kind \in Servers
  PROVE  AdapterInv
  <1>1. CoreInv
    BY InitHolds
  <1>2. Replayed
    <2>1. \A a \in Clients : Flight(a) = {}
      BY NothingSent DEF StoreInit, Flight
    <2>2. \A i \in Ids : Copied(i) = {} /\ at[i] = {}
      BY <2>1, StoreConstantsOK DEF StoreInit, Copied, Copies, Sought
    <2> QED  BY <2>2 DEF Replayed
  <1>3. RedisInv
    BY NothingSent DEF StoreInit, RedisInv, Pipe
  <1> QED  BY <1>1, <1>2, <1>3 DEF AdapterInv

-----------------------------------------------------------------------------
(* The file store: a job's file is renamed or written, never unlinked but   *)
(* by an acknowledgement or a removal; a crash may tear the one in hand.    *)
Sound(c) ==
  /\ c.mark \in {"acked", "removed"} \/ c.del \cap Evidence = {} \/ c.add \cap Evidence # {}
  /\ c.mark = "accepted" => c.add \cap Evidence # {}

(* The copy of a dead letter is written before its mark, and once.          *)
Copyist(P) ==
  \A k \in 1..Len(P) : \A c \in P[k] :
    /\ Sound(c)
    /\ c.of # NoId => /\ source[c.id] = NoId
                      /\ \A l \in 1..Len(P) : \A d \in P[l] : d.of # NoId /\ d.id = c.id => l = k
    /\ "retried" \in c.add => Copies(c.id) # {} \/ \E l \in 1..(k - 1) : \E d \in P[l] : d.of = c.id

Humble(S) == \A c \in S : Sound(c) /\ c.of = NoId /\ "retried" \notin c.add

FileType ==
  /\ kind = "file"
  /\ at \in [Ids -> SUBSET Places] /\ source \in [Ids -> Ids \cup {NoId}]
  /\ lapsed \subseteq Ids /\ used \subseteq Ids /\ accepted \subseteq Ids
  /\ stage \in [Clients -> {"idle", "running", "recorded"}]
  /\ job \in [Clients -> Ids \cup {NoId}] /\ \A a \in Clients : stage[a] # "idle" => job[a] \in Ids
  /\ todo \in [Clients -> Programs] /\ beat \in [Ids -> Programs]

Drafts ==
  /\ \A n \in Ids : source[n] # NoId => n \in used
  /\ \A a \in Clients :
       /\ Copyist(todo[a]) /\ \A c \in Flight(a) : c.of # NoId => c.id \in used
       /\ \A b \in Clients \ {a} : \A c \in Flight(a), d \in Flight(b) :
            c.of # NoId /\ d.of # NoId => c.id # d.id
  /\ \A i \in Ids : Humble(Sent(beat[i])) /\ \A c \in Sent(beat[i]) : c.mark = "none"

FileKept ==
  /\ \A i \in accepted : i \in acked \cup removed \cup cut \/ at[i] \cap Evidence # {}
  /\ \A i \in Ids : "retried" \in at[i] => Copies(i) # {}

FileInv == FileType /\ Drafts /\ FileKept

(* What a transaction leaves.                                               *)
LEMMA FileLands ==
  ASSUME FileInv, NEW T \in Transactions, Perform(T), Note(T), cut \subseteq cut',
         \A c \in T : /\ Sound(c) /\ (c.of # NoId => source[c.id] = NoId)
                      /\ "retried" \in c.add => Copies(c.id) # {}
  PROVE  /\ kind' = "file" /\ at' \in [Ids -> SUBSET Places] /\ lapsed' \subseteq Ids
         /\ source' \in [Ids -> Ids \cup {NoId}] /\ accepted' \subseteq Ids
         /\ FileKept' /\ \A i : Copies(i) # {} => i = NoId \/ Copies(i)' # {}
         /\ \A n \in Ids : source'[n] = source[n] \/ \E c \in T : c.id = n /\ c.of # NoId
         /\ \A c \in T : c.of # NoId => Copies(c.of)' # {}
  <1>0. FileType
    BY DEF FileInv
  <1>1. /\ \A c \in T : at'[c.id] = (at[c.id] \ c.del) \cup c.add
        /\ \A i \in Ids : (\A c \in T : c.id # i) => at'[i] = at[i]
        /\ at' \in [Ids -> SUBSET Places] /\ lapsed' \subseteq Ids /\ kind' = kind
    BY <1>0, Landed DEF FileType
  <1>2. /\ \A i : i \in accepted' <=> i \in accepted \/ \E c \in T : c.id = i /\ c.mark = "accepted"
        /\ \A i : i \in acked' <=> i \in acked \/ \E c \in T : c.id = i /\ c.mark = "acked"
        /\ \A i : i \in removed' <=> i \in removed \/ \E c \in T : c.id = i /\ c.mark = "removed"
        /\ source' \in [Ids -> Ids \cup {NoId}]
        /\ \A c \in T : c.of # NoId => source'[c.id] = c.of
        /\ \A i \in Ids : (\A c \in T : c.id = i => c.of = NoId) => source'[i] = source[i]
    BY <1>0, Marks DEF FileType
  <1>3. \A c \in T : c.id \in Ids
    BY DEF Transactions, Changes
  <1>4. accepted' \subseteq Ids
    BY <1>0, <1>2, <1>3 DEF FileType
  <1>5. \A n \in Ids : source[n] # NoId => source'[n] = source[n]
    BY <1>2
  <1>6. \A i : Copies(i) # {} => i = NoId \/ Copies(i)' # {}
    <2> SUFFICES ASSUME NEW i, i # NoId, NEW n \in Copies(i)  PROVE n \in Copies(i)'
      OBVIOUS
    <2> QED  BY <1>5 DEF Copies
  <1>7. \A c \in T : c.of # NoId => Copies(c.of)' # {}
    BY <1>2, <1>3 DEF Copies
  <1>8. ASSUME NEW i \in accepted'
        PROVE  i \in acked' \cup removed' \cup cut' \/ at'[i] \cap Evidence # {}
    <2>1. CASE \E c \in T : c.id = i
      <3>1. PICK c \in T : c.id = i  BY <2>1
      <3>2. at'[i] = (at[i] \ c.del) \cup c.add  BY <1>1, <3>1
      <3>3. CASE c.mark \in {"acked", "removed"}
        BY <1>2, <3>1, <3>3
      <3>4. CASE c.add \cap Evidence # {}
        BY <3>2, <3>4
      <3>5. CASE c.mark \notin {"acked", "removed"} /\ c.add \cap Evidence = {}
        <4>1. c.del \cap Evidence = {} /\ c.mark # "accepted"
          BY <3>5 DEF Sound
        <4>2. i \in accepted
          BY <1>2, <3>1, <4>1 DEF Transactions
        <4>3. i \in acked \cup removed \cup cut \/ at[i] \cap Evidence # {}
          BY <4>2 DEF FileInv, FileKept
        <4> QED  BY <1>2, <3>2, <4>1, <4>3
      <3> QED  BY <3>3, <3>4, <3>5
    <2>2. CASE \A c \in T : c.id # i
      BY <1>1, <1>2, <1>4, <2>2 DEF FileInv, FileKept
    <2> QED  BY <2>1, <2>2
  <1>9. ASSUME NEW i \in Ids, "retried" \in at'[i]
        PROVE  Copies(i)' # {}
    <2>0. i # NoId
      BY StoreConstantsOK
    <2>1. "retried" \in at[i] \/ \E c \in T : c.id = i /\ "retried" \in c.add
      BY <1>1, <1>9
    <2>2. Copies(i) # {}
      BY <2>1 DEF FileInv, FileKept
    <2> QED  BY <1>6, <2>0, <2>2
  <1> QED
    BY <1>0, <1>1, <1>2, <1>4, <1>6, <1>7, <1>8, <1>9 DEF FileType, FileKept

(* The rest of a program, when its first transaction was carried out.       *)
LEMMA CopyistRests ==
  ASSUME FileInv, NEW P \in Programs, P # <<>>, Copyist(P), Perform(P[1]), Note(P[1]), cut \subseteq cut'
  PROVE  Copyist(Tail(P))'
  <1> DEFINE T == P[1]
             rest == Tail(P)
  <1>1. /\ T \in Transactions /\ Len(P) \in Nat \ {0} /\ Len(rest) = Len(P) - 1 /\ 1 \in 1..Len(P)
        /\ \A k \in 1..Len(rest) : rest[k] = P[k + 1]
    BY HeadTail
  <1>2. \A c \in T : /\ Sound(c) /\ (c.of # NoId => source[c.id] = NoId)
                     /\ "retried" \in c.add => Copies(c.id) # {}
    BY <1>1 DEF Copyist
  <1>3. /\ \A i : Copies(i) # {} => i = NoId \/ Copies(i)' # {}
        /\ \A n \in Ids : source'[n] = source[n] \/ \E c \in T : c.id = n /\ c.of # NoId
        /\ \A c \in T : c.of # NoId => Copies(c.of)' # {}
    BY <1>1, <1>2, FileLands
  <1>4. ASSUME NEW k \in 1..Len(rest), NEW c \in rest[k]
        PROVE  /\ Sound(c)
               /\ c.of # NoId => /\ source'[c.id] = NoId
                                 /\ \A l \in 1..Len(rest) : \A d \in rest[l] : d.of # NoId /\ d.id = c.id => l = k
               /\ "retried" \in c.add => Copies(c.id)' # {} \/ \E l \in 1..(k - 1) : \E d \in rest[l] : d.of = c.id
    <2>1. k + 1 \in 1..Len(P) /\ c \in P[k + 1] /\ k + 1 # 1
      BY <1>1, <1>4
    <2>2. /\ Sound(c)
          /\ c.of # NoId => /\ source[c.id] = NoId
                            /\ \A l \in 1..Len(P) : \A d \in P[l] : d.of # NoId /\ d.id = c.id => l = k + 1
          /\ "retried" \in c.add => Copies(c.id) # {} \/ \E l \in 1..((k + 1) - 1) : \E d \in P[l] : d.of = c.id
      BY <2>1 DEF Copyist
    <2>3. c.id \in Ids /\ c.id # NoId
      <3>1. c \in Sent(P)  BY <2>1 DEF Sent
      <3> QED  BY <3>1, SentTyped, StoreConstantsOK DEF Changes
    <2>4. ASSUME c.of # NoId
          PROVE  /\ source'[c.id] = NoId
                 /\ \A l \in 1..Len(rest) : \A d \in rest[l] : d.of # NoId /\ d.id = c.id => l = k
      <3>1. \A d \in T : d.of # NoId => d.id # c.id
        BY <1>1, <2>1, <2>2, <2>4
      <3>2. source'[c.id] = NoId
        BY <1>3, <2>2, <2>3, <2>4, <3>1
      <3>3. ASSUME NEW l \in 1..Len(rest), NEW d \in rest[l], d.of # NoId, d.id = c.id
            PROVE  l = k
        <4>1. l + 1 \in 1..Len(P) /\ d \in P[l + 1]
          BY <1>1, <3>3
        <4>2. l + 1 = k + 1
          BY <2>2, <2>4, <3>3, <4>1
        <4> QED  BY <1>1, <4>2
      <3> QED  BY <3>2, <3>3
    <2>5. ASSUME "retried" \in c.add
          PROVE  Copies(c.id)' # {} \/ \E l \in 1..(k - 1) : \E d \in rest[l] : d.of = c.id
      <3>1. CASE Copies(c.id) # {}
        BY <1>3, <2>3, <3>1
      <3>2. CASE \E l \in 1..((k + 1) - 1) : \E d \in P[l] : d.of = c.id
        <4>1. PICK l \in 1..((k + 1) - 1) : \E d \in P[l] : d.of = c.id
          BY <3>2
        <4>2. PICK d \in P[l] : d.of = c.id
          BY <4>1
        <4>3. CASE l = 1
          BY <1>3, <2>3, <4>2, <4>3
        <4>4. CASE l # 1
          <5>1. l - 1 \in 1..(k - 1) /\ l - 1 \in 1..Len(rest) /\ (l - 1) + 1 = l
            BY <1>1, <4>4
          <5>2. d \in rest[l - 1]
            BY <1>1, <4>2, <5>1
          <5> QED  BY <4>2, <5>1, <5>2
        <4> QED  BY <4>3, <4>4
      <3> QED  BY <2>2, <2>5, <3>1, <3>2
    <2> QED  BY <2>2, <2>4, <2>5
  <1> HIDE DEF rest
  <1>5. Copyist(rest)'
    BY <1>4 DEF Copyist, Sound, rest
  <1> QED  BY <1>5 DEF rest

LEMMA FileCarries ==
  ASSUME FileInv, NEW a \in Clients, NEW P \in Programs, P # <<>>, Copyist(P),
         \A c \in Sent(P) : c.of # NoId => c.id \in used',
         \A b \in Clients \ {a} : \A c \in Sent(P), d \in Flight(b) : c.of # NoId /\ d.of # NoId => c.id # d.id,
         NEW i \in Ids \cup {NoId}, NEW next \in {"idle", "running", "recorded"}, next # "idle" => i \in Ids,
         Carry(a, Head(P), Tail(P), i, next),
         used \subseteq used', used' \subseteq Ids, beat' = beat, cut' = cut
  PROVE  FileInv'
  <1> DEFINE T == P[1]
             rest == Tail(P)
  <1>1. /\ Head(P) = T /\ T \in Transactions /\ rest \in Programs /\ Len(P) \in Nat \ {0}
        /\ T \subseteq Sent(P) /\ Sent(rest) \subseteq Sent(P) /\ 1 \in 1..Len(P)
    BY HeadTail, TailSent
  <1>2. \A c \in T : /\ Sound(c) /\ (c.of # NoId => source[c.id] = NoId)
                     /\ "retried" \in c.add => Copies(c.id) # {}
    BY <1>1 DEF Copyist
  <1>3. Carry(a, T, rest, i, next)
    BY <1>1
  <1>t. FileType /\ Drafts /\ FileKept
    BY DEF FileInv
  <1>4. Commits(T) => Copyist(rest)'
    <2> SUFFICES ASSUME Commits(T) PROVE Copyist(rest)'
      OBVIOUS
    <2>1. Perform(T) /\ Note(T)
      BY <1>3 DEF Carry
    <2> QED  BY <2>1, CopyistRests
  <1> HIDE DEF T, rest
  <1>5. CASE ~Commits(T)
    <2>1. /\ todo' = [todo EXCEPT ![a] = <<>>]
          /\ stage' = [stage EXCEPT ![a] = next] /\ job' = [job EXCEPT ![a] = i]
          /\ UNCHANGED <<at, lapsed, kind, accepted, acked, removed, source>>
      BY <1>3, <1>5 DEF Carry
    <2>2. FileType'
      BY <1>t, <2>1, NothingSent DEF FileType
    <2>3. \A b \in Clients : todo'[b] = IF b = a THEN <<>> ELSE todo[b]
      BY <1>t, <2>1 DEF FileType
    <2>4. \A j : Copies(j)' = Copies(j)
      BY <2>1 DEF Copies
    <2>5. ASSUME NEW b \in Clients  PROVE Copyist(todo[b])'
      <3>1. CASE b = a
        BY <2>3, <3>1 DEF Copyist
      <3>2. CASE b # a
        BY <1>t, <2>1, <2>3, <2>4, <3>2 DEF Drafts, Copyist, Sound
      <3> QED  BY <3>1, <3>2
    <2>6. \A b \in Clients : Flight(b)' \subseteq Flight(b)
      BY <2>3, NothingSent DEF Flight, Sent
    <2>7. Drafts'
      <3>1. \A b \in Clients : \A c \in Flight(b)' : c.of # NoId => c.id \in used'
        BY <1>t, <2>6 DEF Drafts
      <3>2. \A b \in Clients : \A d \in Clients \ {b} : \A x \in Flight(b)', y \in Flight(d)' :
              x.of # NoId /\ y.of # NoId => x.id # y.id
        BY <1>t, <2>6 DEF Drafts
      <3>3. \A n \in Ids : source'[n] # NoId => n \in used'
        BY <1>t, <2>1 DEF Drafts
      <3>4. \A j \in Ids : Humble(Sent(beat'[j])) /\ \A c \in Sent(beat'[j]) : c.mark = "none"
        BY <1>t DEF Drafts
      <3> QED  BY <2>5, <3>1, <3>2, <3>3, <3>4 DEF Drafts, Humble, Sound, Sent
    <2>8. FileKept'
      BY <1>t, <2>1, <2>4 DEF FileKept
    <2> QED  BY <2>2, <2>7, <2>8 DEF FileInv
  <1>6. CASE Commits(T)
    <2> DEFINE won == Marked(T, "granted")
    <2>1. /\ Perform(T) /\ Note(T)
          /\ todo' = [todo EXCEPT ![a] = rest]
          /\ stage' = [stage EXCEPT ![a] = IF won # {} THEN "running" ELSE next]
          /\ job' = [job EXCEPT ![a] = IF won # {} THEN CHOOSE j \in won : TRUE ELSE i]
      BY <1>3, <1>6 DEF Carry
    <2>2. /\ kind' = "file" /\ at' \in [Ids -> SUBSET Places] /\ lapsed' \subseteq Ids
          /\ source' \in [Ids -> Ids \cup {NoId}] /\ accepted' \subseteq Ids
          /\ FileKept' /\ \A j : Copies(j) # {} => j = NoId \/ Copies(j)' # {}
          /\ \A n \in Ids : source'[n] = source[n] \/ \E c \in T : c.id = n /\ c.of # NoId
      BY <1>1, <1>2, <2>1, FileLands
    <2>3. won # {} => (CHOOSE j \in won : TRUE) \in Ids
      <3>1. won \subseteq Ids
        BY <1>1 DEF Marked, Transactions, Changes
      <3> HIDE DEF won
      <3> QED  BY <3>1
    <2> HIDE DEF won
    <2>4. FileType'
      <3>1. stage' \in [Clients -> {"idle", "running", "recorded"}]
        BY <1>t, <2>1 DEF FileType
      <3>2. job' \in [Clients -> Ids \cup {NoId}]
        BY <1>t, <2>1, <2>3 DEF FileType
      <3>3. \A b \in Clients : stage'[b] # "idle" => job'[b] \in Ids
        BY <1>t, <2>1, <2>3 DEF FileType
      <3>4. todo' \in [Clients -> Programs] /\ beat' \in [Ids -> Programs]
        BY <1>1, <1>t, <2>1 DEF FileType
      <3> QED  BY <2>2, <3>1, <3>2, <3>3, <3>4 DEF FileType
    <2>5. \A b \in Clients : /\ todo'[b] = IF b = a THEN rest ELSE todo[b]
                             /\ Flight(b)' = IF b = a THEN Sent(rest) ELSE Flight(b)
      BY <1>t, <2>1 DEF FileType, Flight, Sent
    <2>6. ASSUME NEW b \in Clients  PROVE Copyist(todo[b])'
      <3>1. CASE b = a
        <4>1. PICK Q \in Programs : Q = rest
          BY <1>1
        <4>2. Copyist(Q)'
          BY <1>4, <1>6, <4>1 DEF rest
        <4> QED  BY <2>5, <3>1, <4>1, <4>2 DEF Copyist
      <3>2. CASE b # a
        <4>1. PICK Q \in Programs : Q = todo[b]
          BY <1>t DEF FileType
        <4>2. Copyist(Q) /\ Sent(Q) = Flight(b)
          BY <1>t, <4>1 DEF Drafts, Flight
        <4>3. \A k \in 1..Len(Q) : \A c \in Q[k] : c \in Flight(b) /\ c.id \in Ids /\ c.id # NoId
          <5>1. \A c \in Sent(Q) : c.id \in Ids
            BY SentTyped DEF Changes
          <5> QED  BY <4>2, <5>1, StoreConstantsOK DEF Sent
        <4>4. \A k \in 1..Len(Q) : \A c \in Q[k] : c.of # NoId => source'[c.id] = NoId
          <5> SUFFICES ASSUME NEW k \in 1..Len(Q), NEW c \in Q[k], c.of # NoId
                       PROVE  source'[c.id] = NoId
            OBVIOUS
          <5>1. source[c.id] = NoId
            BY <4>2 DEF Copyist
          <5>2. \A d \in T : d.of # NoId => d.id # c.id
            BY <1>1, <3>2, <4>3
          <5> QED  BY <2>2, <4>3, <5>1, <5>2
        <4>5. Copyist(Q)'
          BY <2>2, <4>2, <4>3, <4>4 DEF Copyist, Sound
        <4> QED  BY <2>5, <3>2, <4>1, <4>5 DEF Copyist
      <3> QED  BY <3>1, <3>2
    <2>7. Drafts'
      <3>1. \A b \in Clients : \A c \in Flight(b)' : c.of # NoId => c.id \in used'
        BY <1>1, <1>t, <2>5 DEF Drafts
      <3>2. \A b \in Clients : \A d \in Clients \ {b} : \A x \in Flight(b)', y \in Flight(d)' :
              x.of # NoId /\ y.of # NoId => x.id # y.id
        <4> SUFFICES ASSUME NEW b \in Clients, NEW d \in Clients \ {b}, NEW x \in Flight(b)', NEW y \in Flight(d)',
                            x.of # NoId, y.of # NoId
                     PROVE  x.id # y.id
          OBVIOUS
        <4>1. CASE b # a /\ d # a
          BY <1>t, <2>5, <4>1 DEF Drafts
        <4>2. CASE b = a /\ d # a
          BY <1>1, <2>5, <4>2
        <4>3. CASE b # a /\ d = a
          BY <1>1, <2>5, <4>3
        <4> QED  BY <4>1, <4>2, <4>3
      <3>3. \A n \in Ids : source'[n] # NoId => n \in used'
        BY <1>1, <1>t, <2>2 DEF Drafts
      <3>4. \A j \in Ids : Humble(Sent(beat'[j])) /\ \A c \in Sent(beat'[j]) : c.mark = "none"
        BY <1>t DEF Drafts
      <3> QED  BY <2>6, <3>1, <3>2, <3>3, <3>4 DEF Drafts, Humble, Sound, Sent
    <2> QED  BY <2>2, <2>4, <2>7 DEF FileInv
  <1> QED  BY <1>5, <1>6

(* The programs that copy nothing.                                          *)
USE DEF Change, Check, Put, Erase, IfAny, Unless, Leased, Granting, Accepting, Copying, Acking, Removing,
        Unstamped
Rewrites(P) == P \in Programs /\ P # <<>> /\ Humble(Sent(P))

LEMMA Singles ==
  /\ \A c \in Changes : Humble({c}) => Rewrites(<<{c}>>) /\ Rewrites(<<Read, {c}>>)
  /\ \A c, d \in Changes : Humble({c}) /\ Humble({d}) => Rewrites(<<{c}, {d}>>)
  /\ \A c, d, e \in Changes : Humble({c}) /\ Humble({d}) /\ Humble({e}) => Rewrites(<<{c}, {d}, {e}>>)
  <1>1. \A c \in Changes : {c} \in Transactions
    BY Lone
  <1>2. Read \in Transactions /\ Humble(Read)
    BY Reading DEF Humble, Read
  <1>3. \A T, U : Humble(T) /\ Humble(U) => Humble(T \cup U)
    BY DEF Humble
  <1>4. ASSUME NEW T \in Transactions, Humble(T)  PROVE Rewrites(<<T>>)
    <2>1. Sent(<<T>>) = T
      BY Later
    <2>2. <<T>> \in Programs /\ <<T>> # <<>>
      BY DEF Programs
    <2> QED  BY <1>4, <2>1, <2>2 DEF Rewrites
  <1>5. ASSUME NEW T \in Transactions, NEW U \in Transactions, Humble(T), Humble(U)  PROVE Rewrites(<<T, U>>)
    <2>1. Sent(<<T, U>>) = T \cup U
      BY Later
    <2>2. <<T, U>> \in Programs /\ <<T, U>> # <<>>
      BY DEF Programs
    <2> QED  BY <1>3, <1>5, <2>1, <2>2 DEF Rewrites
  <1>6. ASSUME NEW T \in Transactions, NEW U \in Transactions, NEW V \in Transactions,
               Humble(T), Humble(U), Humble(V)
        PROVE  Rewrites(<<T, U, V>>)
    <2>1. Sent(<<T, U, V>>) = T \cup U \cup V
      BY Later
    <2>2. <<T, U, V>> \in Programs /\ <<T, U, V>> # <<>>
      BY DEF Programs
    <2> QED  BY <1>3, <1>6, <2>1, <2>2 DEF Rewrites
  <1> QED  BY <1>1, <1>2, <1>4, <1>5, <1>6

LEMMA FileRewrites ==
  ASSUME kind = "file", NEW i \in Ids
  PROVE  /\ \A d \in BOOLEAN : Rewrites(EnqueueOf(i, d))
         /\ Rewrites(DequeueOf(i)) /\ Rewrites(AckOf(i)) /\ Rewrites(BuryOf(i)) /\ Rewrites(CompletedOf(i))
         /\ Rewrites(AttemptsOf(i)) /\ Rewrites(ProgressOf(i)) /\ Rewrites(ExtendOf(i))
         /\ Rewrites(MoveOf(i)) /\ Rewrites(PromoteOf(i)) /\ Rewrites(RemoveOf(i))
         /\ \A s \in Statuses : Rewrites(CleanOf(i, s))
  <1>1. ASSUME NEW d \in BOOLEAN  PROVE Rewrites(EnqueueOf(i, d))
    <2> DEFINE c == Accepting(Put(i, Columns(d)))
    <2>1. c \in Changes /\ Humble({c})
      BY DEF Changes, Humble, Sound, Evidence, Columns, Places, Row
    <2>2. EnqueueOf(i, d) = <<{c}>>
      BY DEF EnqueueOf, Pick, FileEnqueue
    <2> HIDE DEF c
    <2> QED  BY <2>1, <2>2, Singles
  <1>2. Rewrites(DequeueOf(i))
    <2> DEFINE b(place) == Check(i, {place})
               c == Unstamped(Change(i, {"queued"}, {"queued", "delay"}, {"leased", "unstamped"}))
               d == Stamped(i)
    <2>1. \A place \in Row : b(place) \in Changes /\ Humble({b(place)})
      BY DEF Changes, Humble, Sound, Evidence, Places, Row
    <2>2. c \in Changes /\ Humble({c})
      BY DEF Changes, Humble, Sound, Evidence, Places, Row
    <2>3. d \in Changes /\ Humble({d})
      <3>1. /\ d.id = i /\ d.del = {"torn", "unstamped"} /\ d.add = {"leased"} /\ d.of = NoId /\ d.mark = "granted"
            /\ d = Stamped(i)
        BY DEF Stamped
      <3>2. d \in Changes
        BY DEF Stamped, Changes, Places, Row
      <3> HIDE DEF d
      <3>3. Humble({d})
        BY <3>1 DEF Humble, Sound, Evidence
      <3> QED  BY <3>2, <3>3
    <2>4. DequeueOf(i) = <<{b("queued")}, {c}, {d}>> \/ DequeueOf(i) = <<{b("leased")}, {d}>>
      BY DEF DequeueOf, Pick, FileDequeue, FileClaim, FileReclaim
    <2>5. "queued" \in Row /\ "leased" \in Row
      BY DEF Row
    <2> HIDE DEF b, c, d
    <2> QED  BY <2>1, <2>2, <2>3, <2>4, <2>5, Singles
  <1>3. Rewrites(AckOf(i))
    <2> DEFINE c == Acking(Erase(i, {"leased", "unstamped"}))
    <2>1. c \in Changes /\ Humble({c})
      BY DEF Changes, Humble, Sound, Places, Row
    <2>2. AckOf(i) = <<{c}>>
      BY DEF AckOf, Pick, FileAck
    <2> HIDE DEF c
    <2> QED  BY <2>1, <2>2, Singles
  <1>4. Rewrites(BuryOf(i))
    <2> DEFINE from == IF "leased" \in at[i] THEN {"leased", "unstamped"} ELSE {"queued", "delay"} \cap at[i]
               c == Change(i, {}, from, IF from = {} THEN {} ELSE {"dead"})
               d == Change(i, {}, {"retried", "torn"}, {"dead"})
    <2>1. from \subseteq Places
      BY DEF Places, Row
    <2>2. BuryOf(i) = <<{c}, {d}>>
      BY DEF BuryOf, Pick, FileMoveToDeadLetter
    <2> HIDE DEF from
    <2>3. c \in Changes
      BY <2>1 DEF Changes, Places, DeadLetter
    <2>4. Humble({c})
      <3>1. c.of = NoId /\ c.mark = "none" /\ c.del = from /\ c.add = IF from = {} THEN {} ELSE {"dead"}
        OBVIOUS
      <3> HIDE DEF c
      <3> QED  BY <3>1 DEF Humble, Sound, Evidence
    <2>5. d \in Changes /\ Humble({d})
      BY DEF Changes, Humble, Sound, Evidence, Places, DeadLetter
    <2> HIDE DEF c, d
    <2> QED  BY <2>2, <2>3, <2>4, <2>5, Singles
  <1>5. Rewrites(CompletedOf(i))
    <2> DEFINE c == Put(i, {"done"})
    <2>1. c \in Changes /\ Humble({c})
      BY DEF Changes, Humble, Sound, Evidence, Places
    <2>2. CompletedOf(i) = <<{c}>>
      BY DEF CompletedOf, Pick, FileAddCompletedJob
    <2> HIDE DEF c
    <2> QED  BY <2>1, <2>2, Singles
  <1>6. Rewrites(AttemptsOf(i)) /\ Rewrites(ProgressOf(i)) /\ Rewrites(ExtendOf(i))
    <2> DEFINE b(place) == Check(i, {place})
               c(place) == Written(i, place)
               d == Leased(Written(i, "leased"))
    <2>1. \A place \in {"queued", "leased"} : /\ b(place) \in Changes /\ Humble({b(place)})
                                              /\ c(place) \in Changes /\ Humble({c(place)})
      BY DEF Written, Changes, Humble, Sound, Evidence, Places, Row
    <2>2. d \in Changes /\ Humble({d})
      BY DEF Written, Changes, Humble, Sound, Evidence, Places, Row
    <2>3. /\ AttemptsOf(i) = <<{b("leased")}, {c("leased")}>>
          /\ ProgressOf(i) = <<Read, {c("leased")}>> \/ ProgressOf(i) = <<{b("queued")}, {c("queued")}>>
          /\ ExtendOf(i) = <<{b("leased")}, {d}>>
      BY DEF AttemptsOf, ProgressOf, ExtendOf, Pick, FileUpdateAttempts, FileSetJobProgress, FileExtendLease
    <2> HIDE DEF b, c, d
    <2> QED  BY <2>1, <2>2, <2>3, Singles
  <1>7. Rewrites(MoveOf(i)) /\ Rewrites(PromoteOf(i))
    <2> DEFINE a == Check(i, {"queued", "delay"})
               b == Check(i, {"queued"})
               c == Change(i, {}, {"delay", "torn"}, {"queued"})
    <2>1. a \in Changes /\ Humble({a}) /\ b \in Changes /\ Humble({b})
      BY DEF Changes, Humble, Sound, Evidence, Places, Row
    <2>2. c \in Changes /\ Humble({c})
      BY DEF Changes, Humble, Sound, Evidence, Places, Row
    <2>3. MoveOf(i) = <<{b}, {c}>> /\ PromoteOf(i) = <<{a}>> \o Tail(<<{b}, {c}>>)
      BY DEF MoveOf, PromoteOf, Pick, FileMoveJobToQueue, FilePromoteJob
    <2> HIDE DEF a, b, c
    <2>4. <<{a}>> \o <<{c}>> = <<{a}, {c}>> /\ Tail(<<{b}, {c}>>) = <<{c}>>
      BY Joined, Later
    <2>5. PromoteOf(i) = <<{a}, {c}>>
      BY <2>3, <2>4, Zenon
    <2> QED  BY <2>1, <2>2, <2>3, <2>5, Singles
  <1>8. Rewrites(RemoveOf(i)) /\ \A s \in Statuses : Rewrites(CleanOf(i, s))
    <2> DEFINE c == Removing(Erase(i, {"leased", "unstamped"}))
    <2>1. c \in Changes /\ Humble({c})
      BY DEF Changes, Humble, Sound, Places, Row
    <2>2. RemoveOf(i) = <<Read, {c}>> /\ \A s \in Statuses : CleanOf(i, s) = <<Read, {c}>>
      BY DEF RemoveOf, CleanOf, Pick, FileRemoveJob
    <2> HIDE DEF c
    <2> QED  BY <2>1, <2>2, Singles
  <1> QED  BY <1>1, <1>2, <1>3, <1>4, <1>5, <1>6, <1>7, <1>8

(* The program that does.                                                   *)
LEMMA FileCopies ==
  ASSUME FileInv, NEW i \in Ids, NEW n \in Ids \ used
  PROVE  LET P == ReplayOf(i, n)
         IN /\ P \in Programs /\ P # <<>> /\ Copyist(P)
            /\ \A c \in Sent(P) : c.of # NoId => c.id = n
  <1> DEFINE b == Unless(Check(i, {"dead"}), {"retried"})
             c == Copying(Put(n, {"queued"}), i)
             d == Put(i, {"dead", "retried"})
             P == <<{b}, {c}, {d}>>
  <1>1. ReplayOf(i, n) = P
    BY DEF FileInv, FileType, ReplayOf, Pick, FileRetryDeadLetterJob
  <1>2. b \in Changes /\ c \in Changes /\ d \in Changes
    BY DEF Changes, Places, DeadLetter, Row
  <1>3. /\ Sound(b) /\ b.of = NoId /\ "retried" \notin b.add
        /\ Sound(c) /\ c.of = i /\ c.id = n /\ "retried" \notin c.add
        /\ Sound(d) /\ d.of = NoId /\ d.id = i
    BY DEF Sound, Evidence
  <1>4. source[n] = NoId
    BY DEF FileInv, Drafts
  <1> HIDE DEF b, c, d
  <1>5. P \in Programs /\ P # <<>>
    <2>1. {b} \in Transactions /\ {c} \in Transactions /\ {d} \in Transactions
      BY <1>2, Lone
    <2> QED  BY <2>1 DEF Programs
  <1>6. Len(P) = 3 /\ P[1] = {b} /\ P[2] = {c} /\ P[3] = {d} /\ Sent(P) = {b, c, d}
    BY Later
  <1> HIDE DEF P
  <1>7. Copyist(P)
    <2> SUFFICES ASSUME NEW k \in 1..3, NEW x \in P[k]
                 PROVE  /\ Sound(x)
                        /\ x.of # NoId => /\ source[x.id] = NoId
                                          /\ \A l \in 1..3 : \A y \in P[l] : y.of # NoId /\ y.id = x.id => l = k
                        /\ "retried" \in x.add => \E l \in 1..(k - 1) : \E y \in P[l] : y.of = x.id
      BY <1>6 DEF Copyist
    <2>1. CASE k = 1
      BY <1>3, <1>6, <2>1
    <2>2. CASE k = 2
      BY <1>3, <1>4, <1>6, <2>2
    <2>3. CASE k = 3
      <3>1. x = d /\ 2 \in 1..(k - 1) /\ c \in P[2]
        BY <1>6, <2>3
      <3> QED  BY <1>3, <3>1
    <2> QED  BY <2>1, <2>2, <2>3
  <1> QED  BY <1>1, <1>3, <1>5, <1>6, <1>7
HIDE DEF Change, Check, Put, Erase, IfAny, Unless, Leased, Granting, Accepting, Copying, Acking, Removing,
         Unstamped

LEMMA FileStarts ==
  ASSUME FileInv, NEW a \in Clients, NEW P, Rewrites(P),
         NEW i \in Ids \cup {NoId}, NEW next \in {"idle", "running", "recorded"}, next # "idle" => i \in Ids,
         Start(a, P, i, next), used \subseteq used', used' \subseteq Ids, beat' = beat, cut' = cut
  PROVE  FileInv'
  <1>1. P \in Programs /\ P # <<>> /\ Humble(Sent(P))
    BY DEF Rewrites
  <1>2. \A c \in Sent(P) : c.of = NoId
    BY <1>1 DEF Humble
  <1>3. Copyist(P)
    BY <1>1 DEF Copyist, Humble, Sent
  <1>4. Carry(a, Head(P), Tail(P), i, next)
    BY DEF Start
  <1> QED  BY <1>1, <1>2, <1>3, <1>4, FileCarries

LEMMA FileWorks ==
  ASSUME FileInv, NEW a \in Clients,
         Dispatch(a) \/ Lease(a) \/ Complete(a) \/ Acknowledge(a) \/ Bury(a) \/ Report(a)
  PROVE  FileInv'
  <1>0. kind = "file" /\ used \subseteq Ids /\ (stage[a] # "idle" => job[a] \in Ids)
    BY DEF FileInv, FileType
  <1>1. CASE Dispatch(a)
    <2>1. PICK i \in Ids \ used, d \in BOOLEAN : Start(a, EnqueueOf(i, d), NoId, "idle") /\ used' = used \cup {i}
      BY <1>1 DEF Dispatch
    <2> QED  BY <1>0, <1>1, <2>1, FileRewrites, FileStarts DEF Dispatch
  <1>2. CASE Lease(a)
    <2>1. PICK i \in Ids : Start(a, DequeueOf(i), NoId, "idle")
      BY <1>2 DEF Lease
    <2> QED  BY <1>0, <1>2, <2>1, FileRewrites, FileStarts DEF Lease
  <1>3. CASE Complete(a)
    BY <1>0, <1>3, FileRewrites, FileStarts DEF Complete
  <1>4. CASE Acknowledge(a)
    BY <1>0, <1>4, FileRewrites, FileStarts DEF Acknowledge
  <1>5. CASE Bury(a)
    BY <1>0, <1>5, FileRewrites, FileStarts DEF Bury
  <1>6. CASE Report(a)
    <2>1. PICK P \in {AttemptsOf(job[a]), ProgressOf(job[a])} : Start(a, P, job[a], "running")
      BY <1>6 DEF Report
    <2>2. job[a] \in Ids
      BY <1>0, <1>6 DEF Report
    <2>3. Rewrites(P)
      BY <1>0, <2>1, <2>2, FileRewrites
    <2> QED  BY <1>0, <1>6, <2>1, <2>2, <2>3, FileStarts DEF Report
  <1> QED  BY <1>1, <1>2, <1>3, <1>4, <1>5, <1>6

LEMMA FileSteers ==
  ASSUME FileInv, NEW a \in Clients,
         DispatchBatch(a) \/ Pass(a) \/ Promote(a) \/ Replay(a) \/ Remove(a) \/ Clean(a) \/ Obliterate(a)
  PROVE  FileInv'
  <1>0. kind = "file" /\ used \subseteq Ids /\ accepted \subseteq Ids
    BY DEF FileInv, FileType
  <1>1. CASE DispatchBatch(a) \/ Obliterate(a)
    BY <1>0, <1>1 DEF DispatchBatch, Obliterate
  <1>2. CASE Pass(a)
    <2>1. PICK i \in DelayedOf : Start(a, <<>> \o MoveOf(i), NoId, "idle")
      BY <1>0, <1>2 DEF Pass, Piecewise
    <2>2. i \in Ids
      BY <1>0, <2>1 DEF DelayedOf, Pick, FileGetDelayedJobs
    <2>3. <<>> \o MoveOf(i) = MoveOf(i)
      BY <1>0 DEF MoveOf, Pick, FileMoveJobToQueue
    <2> QED  BY <1>0, <1>2, <2>1, <2>2, <2>3, FileRewrites, FileStarts DEF Pass
  <1>3. CASE Promote(a)
    <2>1. PICK i \in accepted : Start(a, PromoteOf(i), NoId, "idle")
      BY <1>3 DEF Promote
    <2> QED  BY <1>0, <1>3, <2>1, FileRewrites, FileStarts DEF Promote
  <1>4. CASE Replay(a)
    <2>1. PICK i \in DeadView, n \in Ids \ used : Start(a, ReplayOf(i, n), NoId, "idle") /\ used' = used \cup {n}
      BY <1>4 DEF Replay
    <2>2. i \in Ids
      BY <1>0, <2>1 DEF DeadView, Pick, FileGetDeadLetterJobs
    <2> DEFINE P == ReplayOf(i, n)
    <2>3. /\ P \in Programs /\ P # <<>> /\ Copyist(P)
          /\ \A c \in Sent(P) : c.of # NoId => c.id = n
      BY <2>2, FileCopies
    <2>4. Carry(a, Head(P), Tail(P), NoId, "idle") /\ used' = used \cup {n}
      BY <2>1 DEF Start
    <2> HIDE DEF P
    <2>5. \A b \in Clients : \A d \in Flight(b) : d.of # NoId => d.id # n
      BY <2>1 DEF FileInv, Drafts
    <2>6. beat' = beat /\ cut' = cut
      BY <1>4 DEF Replay
    <2> QED  BY <1>0, <2>3, <2>4, <2>5, <2>6, FileCarries
  <1>5. CASE Remove(a)
    <2>1. PICK i \in accepted : Start(a, RemoveOf(i), NoId, "idle")
      BY <1>5 DEF Remove
    <2> QED  BY <1>0, <1>5, <2>1, FileRewrites, FileStarts DEF Remove
  <1>6. CASE Clean(a)
    <2>1. PICK i \in Ids, s \in Statuses : Start(a, CleanOf(i, s), NoId, "idle")
      BY <1>6 DEF Clean
    <2> QED  BY <1>0, <1>6, <2>1, FileRewrites, FileStarts DEF Clean
  <1> QED  BY <1>1, <1>2, <1>3, <1>4, <1>5, <1>6

LEMMA FileContinues ==
  ASSUME FileInv, NEW a \in Clients, Step(a)
  PROVE  FileInv'
  <1>1. /\ todo[a] \in Programs /\ todo[a] # <<>> /\ Carry(a, Head(todo[a]), Tail(todo[a]), job[a], stage[a])
        /\ used' = used /\ beat' = beat /\ cut' = cut
    BY DEF Step, FileInv, FileType
  <1>2. PICK P \in Programs : P = todo[a]
    BY <1>1
  <1>3. Copyist(P) /\ Sent(P) = Flight(a)
    BY <1>2 DEF FileInv, Drafts, Flight
  <1>4. /\ \A c \in Sent(P) : c.of # NoId => c.id \in used'
        /\ \A b \in Clients \ {a} : \A c \in Sent(P), d \in Flight(b) : c.of # NoId /\ d.of # NoId => c.id # d.id
    BY <1>1, <1>3 DEF FileInv, Drafts
  <1>5. /\ job[a] \in Ids \cup {NoId} /\ stage[a] \in {"idle", "running", "recorded"}
        /\ (stage[a] # "idle" => job[a] \in Ids) /\ used \subseteq Ids
    BY DEF FileInv, FileType
  <1>6. Carry(a, Head(P), Tail(P), job[a], stage[a])
    BY <1>1, <1>2
  <1> QED  BY <1>1, <1>2, <1>3, <1>4, <1>5, <1>6, FileCarries

(* What moves no program on and marks nothing.                              *)
LEMMA FileQuiet ==
  ASSUME FileInv, UNCHANGED <<kind, source, used, accepted>>, FileKept',
         at' \in [Ids -> SUBSET Places], lapsed' \subseteq Ids,
         stage' \in [Clients -> {"idle", "running", "recorded"}], job' \in [Clients -> Ids \cup {NoId}],
         \A a \in Clients : stage'[a] # "idle" => job'[a] \in Ids,
         todo' \in [Clients -> Programs], beat' \in [Ids -> Programs],
         \A a \in Clients : todo'[a] = todo[a] \/ todo'[a] = <<>>,
         \A i \in Ids : Humble(Sent(beat'[i])) /\ \A c \in Sent(beat'[i]) : c.mark = "none"
  PROVE  FileInv'
  <1>1. FileType'
    BY DEF FileInv, FileType
  <1>2. \A i : Copies(i)' = Copies(i)
    BY DEF Copies
  <1>3. ASSUME NEW a \in Clients  PROVE Copyist(todo[a])'
    <2>1. CASE todo'[a] = <<>>
      BY <2>1 DEF Copyist
    <2>2. CASE todo'[a] = todo[a]
      BY <1>2, <2>2 DEF FileInv, Drafts, Copyist, Sound
    <2> QED  BY <2>1, <2>2
  <1>4. \A a \in Clients : Flight(a)' \subseteq Flight(a)
    BY NothingSent DEF Flight, Sent
  <1>5. Drafts'
    <2>1. \A a \in Clients : \A c \in Flight(a)' : c.of # NoId => c.id \in used'
      BY <1>4 DEF FileInv, Drafts
    <2>2. \A a \in Clients : \A b \in Clients \ {a} : \A c \in Flight(a)', d \in Flight(b)' :
            c.of # NoId /\ d.of # NoId => c.id # d.id
      BY <1>4 DEF FileInv, Drafts
    <2>3. \A n \in Ids : source'[n] # NoId => n \in used'
      BY DEF FileInv, Drafts
    <2> QED  BY <1>3, <2>1, <2>2, <2>3 DEF Drafts, Humble, Sound, Sent
  <1> QED  BY <1>1, <1>5 DEF FileInv

LEMMA FileBeats ==
  ASSUME FileInv, NEW a \in Clients, SendBeat(a)
  PROVE  FileInv'
  <1>1. /\ UNCHANGED <<kind, at, source, accepted, acked, removed, cut, used, lapsed, todo, stage, job>>
        /\ beat' = [beat EXCEPT ![job[a]] = ExtendOf(job[a])] /\ job[a] \in Ids
    BY DEF SendBeat, storeVars, marks, FileInv, FileType
  <1>2. Rewrites(ExtendOf(job[a]))
    BY <1>1, FileRewrites DEF FileInv, FileType
  <1>3. \A c \in Sent(ExtendOf(job[a])) : c.mark = "none"
    <2>1. ExtendOf(job[a]) = <<{Check(job[a], {"leased"})}, {Leased(Written(job[a], "leased"))}>>
      BY DEF FileInv, FileType, ExtendOf, Pick, FileExtendLease
    <2>2. /\ Check(job[a], {"leased"}).mark = "none"
          /\ Leased(Written(job[a], "leased")).mark = "none"
      BY DEF Check, Leased, Written, Change
    <2> QED  BY <2>1, <2>2, Later
  <1>4. beat' \in [Ids -> Programs]
    BY <1>1, <1>2 DEF Rewrites, FileInv, FileType
  <1>5. \A i \in Ids : beat'[i] = beat[i] \/ beat'[i] = ExtendOf(job[a])
    BY <1>1 DEF FileInv, FileType
  <1>6. \A i \in Ids : Humble(Sent(beat'[i])) /\ \A c \in Sent(beat'[i]) : c.mark = "none"
    BY <1>2, <1>3, <1>5 DEF Rewrites, FileInv, Drafts
  <1>7. FileKept'
    BY <1>1 DEF FileInv, FileKept, Copies
  <1>8. \A b \in Clients : todo'[b] = todo[b]
    BY <1>1
  <1> QED  BY <1>1, <1>4, <1>6, <1>7, <1>8, FileQuiet DEF FileInv, FileType

LEMMA FileBeaten ==
  ASSUME FileInv, NEW i \in Ids, LandBeat(i)
  PROVE  FileInv'
  <1> DEFINE T == Head(beat[i])
             rest == Tail(beat[i])
  <1>1. /\ UNCHANGED <<source, accepted, acked, removed, cut, used, todo, stage, job>>
        /\ beat[i] \in Programs /\ beat[i] # <<>>
    BY DEF LandBeat, marks, FileInv, FileType
  <1>2. /\ T \in Transactions /\ rest \in Programs
        /\ T \subseteq Sent(beat[i]) /\ Sent(rest) \subseteq Sent(beat[i])
    <2>1. PICK P \in Programs : P = beat[i]
      BY <1>1
    <2> QED  BY <1>1, <2>1, HeadTail, TailSent
  <1>3. \A c \in T : c.mark = "none" /\ c.of = NoId /\ Sound(c) /\ "retried" \notin c.add
    BY <1>2 DEF FileInv, Drafts, Humble
  <1>4. \A b \in Clients : todo'[b] = todo[b]
    BY <1>1
  <1>5. CASE ~Commits(T)
    <2>1. beat' = [beat EXCEPT ![i] = <<>>] /\ UNCHANGED <<kind, at, lapsed>>
      BY <1>5 DEF LandBeat
    <2> HIDE DEF T, rest
    <2>2. beat' \in [Ids -> Programs]
      BY <2>1, NothingSent DEF FileInv, FileType
    <2>3. \A j \in Ids : beat'[j] = beat[j] \/ beat'[j] = <<>>
      BY <2>1 DEF FileInv, FileType
    <2>4. \A j \in Ids : Humble(Sent(beat'[j])) /\ \A c \in Sent(beat'[j]) : c.mark = "none"
      BY <2>3, NothingSent DEF FileInv, Drafts, Humble
    <2>5. FileKept'
      BY <1>1, <2>1 DEF FileInv, FileKept, Copies
    <2> QED  BY <1>1, <1>4, <2>1, <2>2, <2>4, <2>5, FileQuiet DEF FileInv, FileType
  <1>6. CASE Commits(T)
    <2>1. Perform(T) /\ beat' = [beat EXCEPT ![i] = rest]
      BY <1>6 DEF LandBeat
    <2> HIDE DEF T, rest
    <2>2. Note(T)
      <3>1. Marked(T, "accepted") = {} /\ Marked(T, "acked") = {} /\ Marked(T, "removed") = {}
        BY <1>3 DEF Marked
      <3>2. source = [n \in Ids |-> source[n]]
        BY DEF FileInv, FileType
      <3>3. source' = [n \in Ids |-> IF \E c \in T : c.id = n /\ c.of # NoId
                                     THEN (CHOOSE c \in T : c.id = n).of ELSE source[n]]
        BY <1>1, <1>3, <3>2
      <3> QED  BY <1>1, <3>1, <3>3 DEF Note
    <2>3. kind' = "file" /\ at' \in [Ids -> SUBSET Places] /\ lapsed' \subseteq Ids /\ FileKept'
      BY <1>1, <1>2, <1>3, <2>1, <2>2, FileLands
    <2>4. beat' \in [Ids -> Programs]
      BY <1>2, <2>1 DEF FileInv, FileType
    <2>5. \A j \in Ids : beat'[j] = beat[j] \/ (j = i /\ beat'[j] = rest)
      BY <2>1 DEF FileInv, FileType
    <2>6. \A j \in Ids : Humble(Sent(beat'[j])) /\ \A c \in Sent(beat'[j]) : c.mark = "none"
      BY <1>2, <2>5 DEF FileInv, Drafts, Humble
    <2> QED  BY <1>1, <1>4, <2>3, <2>4, <2>6, FileQuiet DEF FileInv, FileType
  <1> QED  BY <1>5, <1>6

LEMMA FileCut ==
  ASSUME FileInv, NEW a \in Clients, Crash(a)
  PROVE  FileInv'
  <1> DEFINE T == Head(todo[a])
  <1>1. /\ UNCHANGED <<kind, source, accepted, acked, removed, used, lapsed, beat>>
        /\ todo' = [todo EXCEPT ![a] = <<>>] /\ cut' = cut \cup Mentioned(todo[a])
        /\ stage' = [stage EXCEPT ![a] = "idle"] /\ job' = [job EXCEPT ![a] = NoId]
        /\ at' = at \/ (todo[a] # <<>> /\ at' = Torn(T))
    BY DEF Crash
  <1>2. todo[a] # <<>> => T \in Transactions /\ \A c \in T : c.id \in cut'
    <2> SUFFICES ASSUME todo[a] # <<>>  PROVE T \in Transactions /\ \A c \in T : c.id \in cut'
      OBVIOUS
    <2>1. PICK P \in Programs : P = todo[a]
      BY DEF FileInv, FileType
    <2>2. T = P[1] /\ T \in Transactions /\ 1 \in 1..Len(P) /\ DOMAIN P = 1..Len(P)
      BY <2>1, HeadTail DEF Programs
    <2>3. \A c \in P[1] : c.id \in Mentioned(P)
      BY <2>2 DEF Mentioned
    <2> QED  BY <1>1, <2>1, <2>2, <2>3
  <1> HIDE DEF T
  <1>3. at' \in [Ids -> SUBSET Places]
    <2>1. CASE at' = at
      BY <2>1 DEF FileInv, FileType
    <2>2. CASE todo[a] # <<>> /\ at' = Torn(T)
      <3>1. \A i \in Ids : (at[i] \ UNION {c.add : c \in T}) \cup {"torn"} \subseteq Places
        BY DEF FileInv, FileType, Places
      <3> QED  BY <2>2, <3>1 DEF Torn, FileInv, FileType
    <2> QED  BY <1>1, <2>1, <2>2
  <1>4. FileKept'
    <2>1. \A i \in Ids : at'[i] = at[i] \/ (i \in cut' /\ at'[i] \subseteq at[i] \cup {"torn"})
      BY <1>1, <1>2 DEF Torn
    <2>2. cut \subseteq cut'
      BY <1>1
    <2>3. \A i \in accepted' : i \in acked' \cup removed' \cup cut' \/ at'[i] \cap Evidence # {}
      BY <1>1, <2>1, <2>2 DEF FileInv, FileType, FileKept
    <2>4. \A i \in Ids : "retried" \in at'[i] => Copies(i)' # {}
      BY <1>1, <2>1 DEF FileInv, FileKept, Copies
    <2> QED  BY <2>3, <2>4 DEF FileKept
  <1>5. /\ stage' \in [Clients -> {"idle", "running", "recorded"}] /\ job' \in [Clients -> Ids \cup {NoId}]
        /\ todo' \in [Clients -> Programs] /\ \A b \in Clients : todo'[b] = todo[b] \/ todo'[b] = <<>>
        /\ \A b \in Clients : stage'[b] # "idle" => job'[b] \in Ids
    BY <1>1, NothingSent DEF FileInv, FileType
  <1>6. \A i \in Ids : Humble(Sent(beat'[i])) /\ \A c \in Sent(beat'[i]) : c.mark = "none"
    BY <1>1 DEF FileInv, Drafts
  <1>7. beat' \in [Ids -> Programs] /\ lapsed' \subseteq Ids
    BY <1>1 DEF FileInv, FileType
  <1> QED  BY <1>1, <1>3, <1>4, <1>5, <1>6, <1>7, FileQuiet

LEMMA FileWaits ==
  ASSUME FileInv, (\E i \in Ids : Mature(i) \/ Lapse(i)) \/ UNCHANGED vars
  PROVE  FileInv'
  <1>1. /\ UNCHANGED <<kind, at, source, accepted, acked, removed, cut, used, todo, stage, job, beat>>
        /\ lapsed' \subseteq Ids
    BY DEF Mature, Lapse, clientVars, marks, vars, storeVars, FileInv, FileType
  <1>2. FileKept'
    BY <1>1 DEF FileInv, FileKept, Copies
  <1>3. \A i \in Ids : Humble(Sent(beat'[i])) /\ \A c \in Sent(beat'[i]) : c.mark = "none"
    BY <1>1 DEF FileInv, Drafts
  <1>4. \A b \in Clients : todo'[b] = todo[b]
    BY <1>1
  <1> QED  BY <1>1, <1>2, <1>3, <1>4, FileQuiet DEF FileInv, FileType

LEMMA FileNext ==
  ASSUME FileInv, [Next]_vars
  PROVE  FileInv'
  BY FileWorks, FileSteers, FileContinues, FileBeats, FileBeaten, FileCut, FileWaits DEF Next

LEMMA FileInit ==
  ASSUME StoreInit, kind = "file"
  PROVE  FileInv
  <1>1. FileType
    BY NothingSent, StoreConstantsOK DEF StoreInit, FileType
  <1>2. FileKept
    BY DEF StoreInit, FileKept
  <1>3. Drafts
    <2>1. \A a \in Clients : todo[a] = <<>> /\ Flight(a) = {}
      BY NothingSent DEF StoreInit, Flight
    <2>2. \A i \in Ids : Sent(beat[i]) = {} /\ source[i] = NoId
      BY NothingSent DEF StoreInit
    <2> QED  BY <2>1, <2>2 DEF Drafts, Copyist, Humble
  <1> QED  BY <1>1, <1>2, <1>3 DEF FileInv

-----------------------------------------------------------------------------
(* One store of the six, whatever happens to it.                            *)
LEMMA Watched == Spec => [](AdapterInv \/ FileInv)
  <1>1. StoreInit => AdapterInv \/ FileInv
    <2> SUFFICES ASSUME StoreInit  PROVE AdapterInv \/ FileInv
      OBVIOUS
    <2>1. kind \in Servers \/ kind = "file"
      BY StoreConstantsOK DEF StoreInit, Servers
    <2> QED  BY <2>1, AdapterInit, FileInit
  <1>2. (AdapterInv \/ FileInv) /\ [Next]_vars => AdapterInv' \/ FileInv'
    BY AdapterNext, FileNext
  <1> QED  BY <1>1, <1>2, PTL DEF Spec

(* A dead letter that is marked as replayed has a copy, and it never gets a *)
(* second one, whoever asks for it, however often, and whoever crashes      *)
(* meanwhile: exactly one where the copy, the claim on the letter and the   *)
(* mark are one transaction (postgres-store.ts, mysql-store.ts,             *)
(* retryDeadLetterJob), at most one where the claim comes first             *)
(* (mongo-store.ts), at least one where the copy is written before the mark *)
(* (file-queue-storage.ts).                                                 *)
THEOREM ReplaysExact == Spec => []ReplayExact
  <1>1. ASSUME AdapterInv \/ FileInv, NEW i \in Ids
        PROVE  /\ kind \in Transactional \cup {"mongodb"} /\ i \notin removed => Cardinality(Copies(i)) <= 1
               /\ kind \in Transactional \cup {"file"} /\ "retried" \in at[i] => Copies(i) # {}
    <2>1. FileInv => kind = "file" /\ ("retried" \in at[i] => Copies(i) # {})
      BY DEF FileInv, FileType, FileKept
    <2>2. AdapterInv => kind # "file" /\ Replayed
      BY DEF AdapterInv, CoreInv, TypeInv, Servers
    <2>3. ASSUME kind \in Transactional \cup {"mongodb"}, i \notin removed  PROVE Cardinality(Copies(i)) <= 1
      <3>1. Replayed /\ kind \in Indexed
        BY <1>1, <2>1, <2>2, <2>3 DEF Transactional, Indexed
      <3>2. \A m, n \in Copies(i) : m = n
        BY <2>3, <3>1 DEF Replayed, Copied
      <3> DEFINE S == Copies(i)
      <3> HIDE DEF S
      <3>3. S = {} \/ \E n : S = {n}
        BY <3>2 DEF S
      <3>4. Cardinality(S) <= 1
        <4>1. CASE S = {}
          BY <4>1, FS_EmptySet
        <4>2. CASE \E n : S = {n}
          <5>1. PICK n : S = {n}  BY <4>2
          <5>2. Cardinality({n}) = 1  BY FS_Singleton
          <5> QED  BY <5>1, <5>2
        <4> QED  BY <3>3, <4>1, <4>2
      <3> QED  BY <3>4 DEF S
    <2>4. ASSUME kind \in Transactional \cup {"file"}, "retried" \in at[i]  PROVE Copies(i) # {}
      BY <1>1, <2>1, <2>2, <2>4 DEF Replayed, Transactional, Indexed
    <2> QED  BY <2>3, <2>4
  <1>2. AdapterInv \/ FileInv => ReplayExact
    BY <1>1 DEF ReplayExact
  <1> QED  BY <1>2, Watched, PTL

(* No store loses a job it has stored: until the job is acknowledged or     *)
(* removed it is there to be run, or a dead letter, or completed; but for a *)
(* Redis pipeline or a rewrite of the job's file that is under way, or that *)
(* a crash has cut (redis-store.ts, pipeline.exec();                        *)
(* file-queue-storage.ts, writeFile).                                       *)
THEOREM StoresLoseNothing == Spec => []NothingLost
  <1>1. ASSUME AdapterInv \/ FileInv, NEW i \in accepted
        PROVE  \/ Live(i) \/ i \in acked \cup removed \/ "dead" \in at[i]
               \/ at[i] \cap {"completed", "done"} # {}
               \/ kind \in {"redis", "file"} /\ (Midway(i) \/ i \in cut)
    <2>1. CASE FileInv
      <3>1. kind = "file" /\ (i \in acked \cup removed \cup cut \/ at[i] \cap Evidence # {})
        BY <2>1 DEF FileInv, FileType, FileKept
      <3> QED  BY <3>1 DEF Evidence, Live
    <2>2. CASE AdapterInv /\ kind # "redis"
      <3>1. kind \in Tables /\ CoreInv
        BY <2>2 DEF AdapterInv, CoreInv, TypeInv, Servers, Tables
      <3>2. i \in acked \cup removed \/ at[i] \cap Evidence # {}
        BY <3>1 DEF CoreInv, Kept
      <3> QED  BY <2>2, <3>2 DEF Evidence, Live
    <2>3. CASE AdapterInv /\ kind = "redis"
      <3>1. ASSUME NEW a \in Clients, NEW c \in Flight(a)  PROVE Midway(c.id)
        <4>1. todo[a] \in Programs
          BY <2>3 DEF AdapterInv, CoreInv, TypeInv
        <4>2. DOMAIN todo[a] = 1..Len(todo[a])
          BY <4>1 DEF Programs
        <4>3. c.id \in Mentioned(todo[a])
          BY <3>1, <4>2 DEF Flight, Sent, Mentioned
        <4> QED  BY <4>3 DEF Midway
      <3>2. /\ Excused(i) \/ Recorded(i) \/ Flying(i)
            /\ \/ Excused(i) \/ at[i] \cap SortedSets # {} \/ Flying(i)
               \/ \E a \in Clients : Readies(Flight(a), i)
        BY <2>3 DEF AdapterInv, RedisInv
      <3>3. Flying(i) \/ (\E a \in Clients : Readies(Flight(a), i)) => Midway(i)
        BY <3>1 DEF Flying, Removes, Readies
      <3> QED  BY <2>3, <3>2, <3>3 DEF Excused, Live
    <2> QED  BY <1>1, <2>1, <2>2, <2>3
  <1>2. AdapterInv \/ FileInv => NothingLost
    BY <1>1 DEF NothingLost
  <1> QED  BY <1>2, Watched, PTL
=============================================================================
