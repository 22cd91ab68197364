---------------------------- MODULE StoreClients ----------------------------
(***************************************************************************)
(* The shared adapters under the clients Vasto has: dispatchers, workers   *)
(* (lease, heartbeat, attempts, settle: the calls of JobManager.executeAll *)
(* in their order), promoters and the operator's calls of Supervisor.  A   *)
(* client is one of these at a time; clients may be of different processes *)
(* and may crash between any two transactions.  A worker whose lease ran   *)
(* out does not know it and goes on.                                       *)
(***************************************************************************)
EXTENDS PostgresStore, MySqlStore, MongoStore, DynamoDbStore, RedisStore, FileQueueStorage

CONSTANTS
  Kinds,       \* adapters to choose from
  Scenes,      \* what may happen besides dispatch, lease, settle and replay
  MaxJobs,     \* bound: jobs one for DynamoDB and the file store; one more to replay
  MaxCalls,    \* bound: calls of the operator and reports
  MaxCrashes   \* bound: crashes

ASSUME StoreConstantsOK ==
  /\ Kinds \subseteq {"postgres", "mysql", "mongodb", "dynamodb", "redis", "file"}
  /\ Scenes \subseteq {"race", "crash", "steer", "replay"}
  /\ MaxJobs \in Nat /\ MaxCalls \in Nat /\ MaxCrashes \in Nat /\ NoId \notin Ids

VARIABLES
  scene,     \* one of Scenes, chosen once
  todo,      \* the rest of the program each client is in
  stage,     \* "idle", "running" a job or having "recorded" its completion
  job,       \* the job it runs
  beat,      \* renewals sent for a job and not yet carried out
  calls,     \* calls of the operator and reports so far
  crashes,   \* crashes so far
  holders,   \* history: clients that run a job and whose lease has not run out
  accepted, acked, removed,  \* history: jobs stored, acknowledged, removed by an operator
  source,    \* history: the dead letter a job was copied from
  restored,  \* history: jobs a promoter's move made ready while they were leased or run
  cut,       \* history: jobs one of whose programs a crash cut short
  revived    \* history: jobs to which the write of an old record gave a delay back

clientVars == <<scene, todo, stage, job, beat, calls, crashes>>
marks      == <<accepted, acked, removed, source, restored, cut, revived>>
vars       == <<storeVars, clientVars, holders, marks>>

-----------------------------------------------------------------------------
(* The adapter's own program or listing for each operation.                 *)
Pick(pg, my, mongo, dynamo, redis, file) ==
  CASE kind = "postgres" -> pg [] kind = "mysql" -> my [] kind = "mongodb" -> mongo
    [] kind = "dynamodb" -> dynamo [] kind = "redis" -> redis [] kind = "file" -> file

EnqueueOf(i, d) == Pick(PgEnqueue(i, d), MyEnqueue(i, d), MongoEnqueue(i, d),
                        DynamoEnqueue(i, d), RedisEnqueue(i, d), FileEnqueue(i, d))
Leasable(i) == Pick(PgLeasable(i), MyLeasable(i), MongoLeasable(i),
                    DynamoLeasable(i), RedisLeasable(i), FileLeasable(i))
DequeueOf(i) == Pick(PgDequeue(i), MyDequeue(i), MongoDequeue(i),
                     DynamoTryLease(i), RedisDequeue(i), FileDequeue(i))
AckOf(i) == Pick(PgAck(i), MyAck(i), MongoAck(i), DynamoAck(i), RedisAck(i), FileAck(i))
BuryOf(i) == Pick(PgMoveToDeadLetter(i), MyMoveToDeadLetter(i), MongoMoveToDeadLetter(i),
                  DynamoMoveToDeadLetter(i), RedisMoveToDeadLetter(i), FileMoveToDeadLetter(i))
ExtendOf(i) == Pick(PgExtendLease(i), MyExtendLease(i), MongoExtendLease(i),
                    DynamoExtendLease(i), RedisExtendLease(i), FileExtendLease(i))
AttemptsOf(i) == Pick(PgUpdateAttempts(i), MyUpdateAttempts(i), MongoUpdateAttempts(i),
                      DynamoUpdateAttempts(i), RedisUpdateAttempts(i), FileUpdateAttempts(i))
ProgressOf(i) == Pick(PgSetJobProgress(i), MySetJobProgress(i), MongoSetJobProgress(i),
                      DynamoSetJobProgress(i), RedisSetJobProgress(i), FileSetJobProgress(i))
DelayedOf == Pick({}, MyGetDelayedJobs, MongoGetDelayedJobs,
                  DynamoGetDelayedJobs, RedisGetDelayedJobs, FileGetDelayedJobs)
MoveOf(i) == Pick(<<>>, MyMoveJobToQueue(i), MongoMoveJobToQueue(i),
                  DynamoMoveJobToQueue(i), RedisMoveJobToQueue(i), FileMoveJobToQueue(i))
PromoteOf(i) == Pick(PgPromoteJob(i), MyPromoteJob(i), MongoPromoteJob(i),
                     DynamoPromoteJob(i), RedisPromoteJob(i), FilePromoteJob(i))
ReplayOf(i, n) ==
  Pick(PgRetryDeadLetterJob(i, n), MyRetryDeadLetterJob(i, n), MongoRetryDeadLetterJob(i, n),
       DynamoRetryDeadLetterJob(i, n), RedisRetryDeadLetterJob(i, n), FileRetryDeadLetterJob(i, n))
RemoveOf(i) == Pick(PgRemoveJob(i), MyRemoveJob(i), MongoRemoveJob(i),
                    DynamoRemoveJob(i), RedisRemoveJob(i), FileRemoveJob(i))
CompletedOf(i) == Pick(PgAddCompletedJob(i), MyAddCompletedJob(i), MongoAddCompletedJob(i),
                       DynamoAddCompletedJob(i), RedisAddCompletedJob(i), FileAddCompletedJob(i))
CleanOf(i, s) == Pick(PgCleanByStatus(i, s), MyCleanByStatus(i, s), MongoCleanByStatus(i, s),
                      DynamoCleanByStatus(i, s), RedisCleanJobs(i, s), FileRemoveJob(i))

ReadyView    == Pick(PgGetReadyJobs, MyGetReadyJobs, MongoGetReadyJobs,
                     DynamoGetReadyJobs, RedisGetReadyJobs, FileGetReadyJobs)
ActiveView   == Pick(PgGetActiveJobs, MyGetActiveJobs, MongoGetActiveJobs,
                     DynamoGetActiveJobs, RedisGetActiveJobs, FileGetActiveJobs)
DeferredView == Pick(PgQueryDeferredJobs, MyQueryDeferredJobs, MongoQueryDeferredJobs,
                     DynamoQueryDeferredJobs, RedisQueryDeferredJobs, FileQueryDeferredJobs)
CompletedView == Pick(PgGetCompletedJobs, MyGetCompletedJobs, MongoGetCompletedJobs,
                      DynamoGetCompletedJobs, RedisGetCompletedJobs, FileGetCompletedJobs)
DeadView     == Pick(PgGetDeadLetterJobs, MyGetDeadLetterJobs, MongoGetDeadLetterJobs,
                     DynamoGetDeadLetterJobs, RedisGetDeadLetterJobs, FileGetDeadLetterJobs)

-----------------------------------------------------------------------------
(* A job that is still to be run: dequeue returns it, now or once its delay *)
(* or lease is over.                                                        *)
Live(i) == IF kind = "redis" THEN Recorded(i) /\ at[i] \cap SortedSets # {}
                             ELSE at[i] \cap {"queued", "leased"} # {}

Idle(a) == stage[a] = "idle" /\ todo[a] = <<>>
Marked(T, m) == {c.id : c \in {x \in T : x.mark = m}}
Mentioned(program) == UNION {{c.id : c \in program[k]} : k \in DOMAIN program}

Note(T) ==
  /\ accepted' = accepted \cup Marked(T, "accepted")
  /\ acked' = acked \cup Marked(T, "acked")
  /\ removed' = removed \cup Marked(T, "removed")
  /\ source' = [n \in Ids |-> IF \E c \in T : c.id = n /\ c.of # NoId
                              THEN (CHOOSE c \in T : c.id = n).of ELSE source[n]]

(* Client a, working on job i, carries out T; rest and next are what comes  *)
(* after it, unless T asks for what is not there.                           *)
Carry(a, T, rest, i, next) ==
  IF ~Commits(T)
  THEN /\ todo' = [todo EXCEPT ![a] = <<>>]
       /\ stage' = [stage EXCEPT ![a] = next] /\ job' = [job EXCEPT ![a] = i]
       /\ UNCHANGED <<at, lapsed, kind, due, keyed, holders, accepted, acked, removed, source>>
  ELSE /\ Perform(T) /\ Note(T)
       /\ todo' = [todo EXCEPT ![a] = rest]
       /\ LET won == Marked(T, "granted")
          IN /\ stage' = [stage EXCEPT ![a] = IF won # {} THEN "running" ELSE next]
             /\ job' = [job EXCEPT ![a] = IF won # {} THEN CHOOSE j \in won : TRUE ELSE i]
             /\ holders' = [j \in Ids |-> IF j \in won THEN holders[j] \cup {a}
                                          ELSE IF next # "running" THEN holders[j] \ {a}
                                          ELSE holders[j]]

Start(a, program, i, next) == Carry(a, Head(program), Tail(program), i, next)

StoreInit ==
  /\ kind \in Kinds /\ scene \in Scenes
  /\ keyed \in IF kind \in {"redis", "file"} THEN {{}} ELSE {{}, Ids}
  /\ at = [i \in Ids |-> {}]
  /\ due = {} /\ lapsed = {} /\ used = {}
  /\ todo = [a \in Clients |-> <<>>]
  /\ stage = [a \in Clients |-> "idle"]
  /\ job = [a \in Clients |-> NoId]
  /\ beat = [i \in Ids |-> <<>>]
  /\ calls = 0 /\ crashes = 0
  /\ holders = [i \in Ids |-> {}]
  /\ accepted = {} /\ acked = {} /\ removed = {} /\ restored = {} /\ cut = {} /\ revived = {}
  /\ source = [i \in Ids |-> NoId]

-----------------------------------------------------------------------------
Piecewise == kind \in {"redis", "file"}
Solitary == kind \in {"dynamodb", "file"}
Room(n) == Cardinality(used) + n <=
  (IF Solitary THEN 1 ELSE MaxJobs) + (IF scene = "replay" THEN 1 ELSE 0)

Dispatch(a) ==
  /\ Idle(a) /\ Room(1)
  /\ \E i \in Ids \ used, delayed \in IF scene = "replay" THEN {FALSE} ELSE BOOLEAN :
       Start(a, EnqueueOf(i, delayed), NoId, "idle") /\ used' = used \cup {i}
  /\ UNCHANGED <<scene, beat, calls, crashes, restored, cut, revived>>

BatchOf(S, first, d) ==
  Pick(PgEnqueueBatch(S, first, d), MyEnqueueBatch(S, first, d), <<>>, <<>>,
       RedisEnqueueBatch(S, d), <<>>)

DispatchBatch(a) ==
  /\ Idle(a) /\ scene # "replay" /\ kind \in {"postgres", "mysql", "redis"}
  /\ \E S \in SUBSET (Ids \ used), first \in Ids, delayed \in BOOLEAN :
       /\ Room(Cardinality(S)) /\ first \in S /\ (S \cap keyed # {} => first \in keyed)
       /\ Start(a, BatchOf(S, first, delayed), NoId, "idle") /\ used' = used \cup S
  /\ UNCHANGED <<scene, beat, calls, crashes, restored, cut, revived>>

Lease(a) ==
  /\ Idle(a)
  /\ \E i \in Ids : Leasable(i) /\ Start(a, DequeueOf(i), NoId, "idle")
  /\ UNCHANGED <<scene, used, beat, calls, crashes, restored, cut, revived>>

(* The handler ended well: completion record, acknowledgement.              *)
Complete(a) ==
  /\ stage[a] = "running" /\ todo[a] = <<>>
  /\ Start(a, CompletedOf(job[a]), job[a], "recorded")
  /\ UNCHANGED <<scene, used, beat, calls, crashes, restored, cut, revived>>

Acknowledge(a) ==
  /\ stage[a] = "recorded" /\ todo[a] = <<>>
  /\ Start(a, AckOf(job[a]), NoId, "idle")
  /\ UNCHANGED <<scene, used, beat, calls, crashes, restored, cut, revived>>

(* It failed for good.                                                      *)
Bury(a) ==
  /\ stage[a] = "running" /\ todo[a] = <<>>
  /\ Start(a, BuryOf(job[a]), NoId, "idle")
  /\ UNCHANGED <<scene, used, beat, calls, crashes, restored, cut, revived>>

Call(which) == which = scene /\ calls < MaxCalls /\ calls' = calls + 1

(* It failed once more, or reports its progress.                            *)
Report(a) ==
  /\ Call("race")
  /\ stage[a] = "running" /\ todo[a] = <<>>
  /\ \E program \in {AttemptsOf(job[a]), ProgressOf(job[a])} : Start(a, program, job[a], "running")
  /\ UNCHANGED <<scene, used, beat, crashes, restored, cut, revived>>

(* The heartbeat sends a renewal and does not wait for it.                  *)
SendBeat(a) ==
  /\ scene = "race" /\ stage[a] = "running" /\ beat[job[a]] = <<>>
  /\ beat' = [beat EXCEPT ![job[a]] = ExtendOf(job[a])]
  /\ UNCHANGED <<storeVars, scene, todo, stage, job, calls, crashes, holders, marks>>

LandBeat(i) ==
  /\ beat[i] # <<>>
  /\ IF Commits(Head(beat[i]))
     THEN Perform(Head(beat[i])) /\ beat' = [beat EXCEPT ![i] = Tail(@)]
     ELSE beat' = [beat EXCEPT ![i] = <<>>] /\ UNCHANGED <<kind, at, due, lapsed, keyed>>
  /\ UNCHANGED <<used, scene, todo, stage, job, calls, crashes, holders, marks>>

(* A promoter's pass: a list, then a move of each job; where a move begins  *)
(* with a read of its own, the two are one.  Postgres has one statement.    *)
Pass(a) ==
  /\ Idle(a)
  /\ \/ /\ kind = "postgres" /\ PgPromotable # {}
        /\ Start(a, PgPromoteDelayedJobs(PgPromotable), NoId, "idle")
     \/ \E i \in DelayedOf :
          Start(a, (IF Piecewise THEN <<>> ELSE <<Read>>) \o MoveOf(i), NoId, "idle")
  /\ UNCHANGED <<scene, used, beat, calls, crashes, restored, cut, revived>>

(* What a move makes ready although the job is leased, or still run by one  *)
(* whose lease entry somebody has deleted.                                  *)
Restoring(T) ==
  {c.id : c \in {x \in T : /\ x.mark = "none" /\ x.add \cap {"queued", "ready"} # {}
                          /\ ("leased" \in at[x.id] \/ holders[x.id] # {})}}

(* What a write of a record that was read before a move gives its delay     *)
(* back to.                                                                 *)
Reviving(T) == {c.id : c \in {x \in T : "delay" \in x.add \ at[x.id]}}

Step(a) ==
  /\ todo[a] # <<>>
  /\ Carry(a, Head(todo[a]), Tail(todo[a]), job[a], stage[a])
  /\ IF Commits(Head(todo[a]))
     THEN restored' = restored \cup Restoring(Head(todo[a])) /\ revived' = revived \cup Reviving(Head(todo[a]))
     ELSE UNCHANGED <<restored, revived>>
  /\ UNCHANGED <<scene, used, beat, calls, crashes, cut>>

-----------------------------------------------------------------------------
(* Supervisor.promoteJob, retryDLQ, removeJob, cleanJobs, obliterateQueue.  *)
Promote(a) ==
  /\ Call("steer") /\ Idle(a)
  /\ \E i \in accepted : "delay" \in at[i] /\ Start(a, PromoteOf(i), NoId, "idle")
  /\ UNCHANGED <<scene, used, beat, crashes, restored, cut, revived>>

Replay(a) ==
  /\ scene = "replay" /\ Idle(a) /\ Room(1)
  /\ \E i \in DeadView, n \in Ids \ (used \cup keyed) :
       Start(a, ReplayOf(i, n), NoId, "idle") /\ used' = used \cup {n}
  /\ UNCHANGED <<scene, beat, calls, crashes, restored, cut, revived>>

Remove(a) ==
  /\ Call("steer") /\ Idle(a)
  /\ \E i \in accepted : at[i] # {} /\ Start(a, RemoveOf(i), NoId, "idle")
  /\ UNCHANGED <<scene, used, beat, crashes, restored, cut, revived>>

Clean(a) ==
  /\ Call("steer") /\ Idle(a)
  /\ \E i \in Ids, s \in Statuses :
       /\ (IF kind = "redis" THEN RedisSelected(i, s) ELSE Selected(i, s))
       /\ Start(a, CleanOf(i, s), NoId, "idle")
  /\ UNCHANGED <<scene, used, beat, crashes, restored, cut, revived>>

Collections == {o \in [1..3 -> {Row, DeadLetter, {"done"}}] :
                  \A j, k \in 1..3 : j # k => o[j] # o[k]}

Obliterate(a) ==
  /\ Call("steer") /\ Idle(a) /\ kind # "file"
  /\ \E i \in Ids : at[i] # {}
  /\ \E order \in Collections :
       Start(a, Pick(PgObliterateQueue, MyObliterateQueue, MongoObliterateQueue(order),
                     DynamoObliterateQueue, RedisObliterateQueue, <<>>), NoId, "idle")
  /\ UNCHANGED <<scene, used, beat, crashes, restored, cut, revived>>

(* Time: a delay is over; a lease runs out.                                 *)
Mature(i) ==
  /\ "delay" \in at[i] /\ i \notin due
  /\ due' = due \cup {i}
  /\ UNCHANGED <<kind, at, lapsed, keyed, used, clientVars, holders, marks>>

Lapse(i) ==
  /\ "leased" \in at[i] /\ i \notin lapsed
  /\ lapsed' = lapsed \cup {i}
  /\ holders' = [holders EXCEPT ![i] = {}]
  /\ UNCHANGED <<kind, at, due, keyed, used, clientVars, marks>>

(* The process of a client dies.  A file being written may be left torn.    *)
Torn(T) == [i \in Ids |-> IF \E c \in T : c.id = i /\ c.add # {}
                          THEN (at[i] \ UNION {c.add : c \in T}) \cup {"torn"} ELSE at[i]]

Crash(a) ==
  /\ scene = "crash" /\ crashes < MaxCrashes /\ ~Idle(a)
  /\ crashes' = crashes + 1
  /\ todo' = [todo EXCEPT ![a] = <<>>]
  /\ stage' = [stage EXCEPT ![a] = "idle"] /\ job' = [job EXCEPT ![a] = NoId]
  /\ holders' = [i \in Ids |-> holders[i] \ {a}]
  /\ cut' = cut \cup Mentioned(todo[a])
  /\ at' \in {at} \cup (IF kind = "file" /\ todo[a] # <<>> THEN {Torn(Head(todo[a]))} ELSE {})
  /\ UNCHANGED <<kind, scene, due, lapsed, keyed, used, beat, calls, accepted, acked, removed, source, restored, revived>>

Next ==
  \/ \E a \in Clients :
       \/ Dispatch(a) \/ DispatchBatch(a) \/ Lease(a) \/ Complete(a) \/ Acknowledge(a)
       \/ Bury(a) \/ Report(a) \/ SendBeat(a) \/ Pass(a) \/ Step(a)
       \/ Promote(a) \/ Replay(a) \/ Remove(a) \/ Clean(a) \/ Obliterate(a) \/ Crash(a)
  \/ \E i \in Ids : LandBeat(i) \/ Mature(i) \/ Lapse(i)

Spec == StoreInit /\ [][Next]_vars

-----------------------------------------------------------------------------
Places == Row \cup DeadLetter \cup SortedSets \cup {"done", "record", "torn", "unstamped"}

StoreTypeOK ==
  /\ kind \in Kinds
  /\ at \in [Ids -> SUBSET Places]
  /\ due \subseteq Ids /\ lapsed \subseteq Ids /\ keyed \subseteq Ids /\ used \subseteq Ids
  /\ stage \in [Clients -> {"idle", "running", "recorded"}]
  /\ job \in [Clients -> Ids \cup {NoId}]
  /\ \A a \in Clients : stage[a] # "idle" => job[a] \in Ids
  /\ crashes \in 0..MaxCrashes
  /\ accepted \subseteq used /\ source \in [Ids -> Ids \cup {NoId}]

Transactional == {"postgres", "mysql"}
Tables        == {"postgres", "mysql", "mongodb", "dynamodb"}
Midway(i)     == \E a \in Clients : i \in Mentioned(todo[a])

(* A job that was stored stays in the store until it is settled, whoever    *)
(* crashes in the middle of whichever operation (the Redis pipelines and    *)
(* the file rewrites excepted, which a crash can cut).                      *)
NothingLost ==
  \A i \in accepted :
    \/ Live(i) \/ i \in acked \cup removed \/ "dead" \in at[i]
    \/ at[i] \cap {"completed", "done"} # {}
    \/ kind \in {"redis", "file"} /\ (Midway(i) \/ i \in cut)

(* Two clients run one job at a time under leases that have not run out     *)
(* only after a promoter, working from an old list, has made ready again a  *)
(* job that was leased or run; in Postgres never.                           *)
LeaseExclusive ==
  \A i \in Ids : kind # "file" /\ Cardinality(holders[i]) > 1 =>
    kind # "postgres" /\ i \in restored

(* An acknowledged job is never run again, nor one that is a dead letter,   *)
(* by whatever write is still on its way: the tables' writes make nothing   *)
(* that could be leased; outside a transaction the dead letter is there     *)
(* before the job has gone (mongo-store.ts:241).                            *)
NoResurrection ==
  /\ kind \in Tables => \A i \in acked : ~Live(i)
  /\ kind \in Transactional => \A i \in Ids : "dead" \in at[i] => ~Live(i)

(* A dead letter that is marked as replayed has exactly one copy, whoever   *)
(* asks for it and however often and whoever crashes meanwhile: in MongoDB   *)
(* at most one, in the file store at least one.                             *)
Copies(i) == {n \in Ids : source[n] = i}
ReplayExact ==
  \A i \in Ids :
    /\ kind \in Transactional \cup {"mongodb"} /\ i \notin removed => Cardinality(Copies(i)) <= 1
    /\ kind \in Transactional \cup {"file"} /\ "retried" \in at[i] => Copies(i) # {}

(* At most one job that carries the idempotency key is in the table.        *)
KeyUnique ==
  kind \in Transactional \cup {"mongodb"} =>
    Cardinality({i \in keyed : HasRow(i)}) <= 1

(* Every job still to be run is in one of the three listings the look-up    *)
(* for duplicates and the dashboard use, whatever is written in which order *)
(* by moves, reports, renewals and operators; but in Redis not one to which *)
(* a report has given back the delay a move had taken (redis-store.ts:473,  *)
(* 895).                                                                    *)
Listed ==
  \A i \in accepted \ (acked \cup removed) :
    /\ Live(i) /\ ~Midway(i)
    /\ kind \in {"redis", "file"} => i \notin cut
    /\ kind = "redis" => i \notin revived
    => i \in ReadyView \cup ActiveView \cup DeferredView

(* "safely share the same ./queue-data/ directory without double-processing"*)
(* (examples/api-server/README.md:82).                                      *)
NoDoubleProcessing == \A i \in Ids : Cardinality(holders[i]) <= 1
=============================================================================
