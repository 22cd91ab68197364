------------------------- MODULE OrchestrationProofs -------------------------
(***************************************************************************)
(* Proofs about the application of Orchestration, for any processes,       *)
(* schedules, jobs, graphs and bounds.  Its APIs keep their state apart,   *)
(* so each part begins with what a step of the whole does to its own       *)
(* variables.                                                              *)
(***************************************************************************)
EXTENDS Orchestration, FiniteSetTheorems, WellFoundedInduction, TLAPS

(* Schedules.  What a process keeps.                                        *)
ProcessStates ==
  [running : BOOLEAN, phase : {"off", "recovering", "listed"},
   seen : SUBSET made, tasks : SUBSET made, timers : [AllSchedules -> Int],
   making : SUBSET made, stored : SUBSET made, removing : SUBSET made,
   listed : Nat, stray : Nat, promoter : Int, held : BOOLEAN, monitors : Nat,
   owed : SUBSET made, gone : SUBSET made]

SchedulesTypeOK ==
  /\ durable \subseteq AllSchedules /\ made \subseteq AllSchedules
  /\ records \subseteq made /\ removed \subseteq made /\ records \cap removed = {}
  /\ proc \in [Procs -> ProcessStates]

(* A schedule whose record and timer have still to be made is nowhere else, *)
(* however often its process has been started and stopped since.            *)
Has(p) == proc[p].tasks \cup proc[p].removing \cup proc[p].stored \cup proc[p].seen

Unborn(p) ==
  /\ proc[p].making \cap (records \cup removed) = {}
  /\ \A q \in Procs : proc[p].making \cap Has(q) = {}
  /\ \A q \in Procs : q # p => proc[p].making \cap proc[q].making = {}

(* Where nothing overlapped: the timers are those of the handles, nothing   *)
(* runs that the supervisor does not hold, and it holds nothing while it    *)
(* starts or is stopped.                                                    *)
NothingHeld(me) ==
  me.tasks = {} /\ me.making = {} /\ me.stored = {} /\ me.removing = {} /\ me.listed = 0 /\ ~me.held

Tidy(p) ==
  LET me == proc[p] IN
    /\ \A s \in AllSchedules : me.timers[s] = (IF s \in me.tasks THEN 1 ELSE 0)
    /\ me.stray = 0 /\ me.promoter = (IF me.held THEN 1 ELSE 0)
    /\ ~me.running => me.phase = "off" /\ NothingHeld(me)
    /\ me.phase # "off" => NothingHeld(me)
    /\ me.phase # "listed" => me.seen = {}
    /\ (me.making \cup me.stored) \cap me.tasks = {}

(* ... what it had to recover it has found, and nothing it has was removed  *)
(* before it started.                                                       *)
Faithful(p) ==
  LET me == proc[p] IN
    /\ me.owed \subseteq Known[p] /\ me.gone \subseteq removed
    /\ me.phase = "listed" => me.owed \subseteq me.seen
    /\ me.phase = "off" /\ me.running => me.owed \subseteq me.tasks
    /\ me.gone \cap (Has(p) \cup me.making) = {}

SchedulesInv ==
  /\ SchedulesTypeOK
  /\ \A p \in Procs : Unborn(p)
  /\ \A p \in Procs \ raced : Tidy(p) /\ Faithful(p)

-----------------------------------------------------------------------------
LEMMA SchedulesFrame == [Next]_vars => [SchedulesNext]_schedulesVars
<1> SUFFICES ASSUME [Next]_vars PROVE SchedulesNext \/ UNCHANGED schedulesVars
  OBVIOUS
<1> USE DEF Others, appVars
<1>0. CASE UNCHANGED vars
  BY <1>0 DEF vars
<1>1. ASSUME NEW i \in Ids, Execute(i) PROVE UNCHANGED schedulesVars
  BY <1>1 DEF Execute, Start, Success, Acknowledge, Catch, Bury, BuryRejects, Lapse
<1>2. CASE WorkflowStep \/ ScheduleStep \/ ManyStep \/ PluginsStep
  BY <1>2 DEF WorkflowStep, ScheduleStep, ManyStep, PluginsStep
<1> QED BY <1>0, <1>1, <1>2 DEF Next

LEMMA DownType == Down \in ProcessStates
BY DEF Down, ProcessStates

LEMMA KnownType == \A p \in Procs : Known[p] \subseteq AllSchedules
BY DEF AllSchedules

LEMMA SchedulesBegin == Init => SchedulesInv
<1> SUFFICES ASSUME Init PROVE SchedulesInv
  OBVIOUS
<1>1. \A p \in Procs : proc[p] = Down
  BY DEF Init, SchedulesInit
<1>2. SchedulesTypeOK
  BY DownType, SchedulesOK DEF Init, SchedulesInit, SchedulesTypeOK, SchedulesOK
<1>3. \A p \in Procs : Unborn(p) /\ Tidy(p) /\ Faithful(p)
  BY <1>1, DownType DEF Init, SchedulesInit, Unborn, Has, Tidy, NothingHeld, Faithful, Down
<1> QED BY <1>2, <1>3 DEF SchedulesInv

(* What a process keeps, after a step that only it takes.                   *)
LEMMA ProcessFields ==
  ASSUME SchedulesTypeOK, NEW p \in Procs
  PROVE  /\ proc[p].running \in BOOLEAN /\ proc[p].held \in BOOLEAN
         /\ proc[p].phase \in {"off", "recovering", "listed"}
         /\ proc[p].seen \subseteq made /\ proc[p].tasks \subseteq made
         /\ proc[p].making \subseteq made /\ proc[p].stored \subseteq made
         /\ proc[p].removing \subseteq made /\ proc[p].owed \subseteq made /\ proc[p].gone \subseteq made
         /\ proc[p].timers \in [AllSchedules -> Int]
         /\ proc[p].listed \in Nat /\ proc[p].stray \in Nat /\ proc[p].promoter \in Int
         /\ proc[p].monitors \in Nat
BY DEF SchedulesTypeOK, ProcessStates

LEMMA BumpType ==
  ASSUME NEW f \in [AllSchedules -> Int], NEW S
  PROVE  Bump(f, S) \in [AllSchedules -> Int] /\ Drop(f, S) \in [AllSchedules -> Int]
BY DEF Bump, Drop

LEMMA SchedulesTypeStep ==
  ASSUME SchedulesInv, SchedulesNext
  PROVE  SchedulesTypeOK'
<1> USE DEF SchedulesTypeOK
<1>t. SchedulesTypeOK
  BY DEF SchedulesInv
<1>1. PICK p \in Procs :
        \/ StartCall(p) \/ ListRecords(p) \/ StartWorkers(p) \/ Stop(p) \/ Crash(p) \/ Monitor(p)
        \/ \E s \in AllSchedules :
             \/ Leave(p, s) \/ ScheduleCall(p, s) \/ Persist(p, s) \/ StartTimer(p, s)
             \/ RemoveCall(p, s) \/ RemoveRecord(p, s)
  BY DEF SchedulesNext
<1>2. proc[p] \in ProcessStates
  BY <1>t
<1>3. CASE StartCall(p)
  BY <1>2, <1>3, <1>t DEF StartCall, ProcessStates
<1>4. CASE ListRecords(p)
  <2>1. proc' \in [Procs -> ProcessStates]
    BY <1>2, <1>4, <1>t, ZenonT(60) DEF ListRecords, ProcessStates
  <2> QED BY <1>4, <1>t, <2>1 DEF ListRecords, ProcessStates
<1>5. CASE StartWorkers(p)
  <2>1. Recovered(p) \subseteq made
    BY <1>2, <1>t DEF Recovered, ProcessStates
  <2>2. PICK timers_ \in [AllSchedules -> Int] : timers_ = Bump(proc[p].timers, Recovered(p))
    BY <1>t, ProcessFields, BumpType
  <2>t. PICK tasks_ \in SUBSET made : tasks_ = proc[p].tasks \cup Recovered(p)
    BY <1>t, <2>1, ProcessFields
  <2>p. PICK promoter_ \in Int : promoter_ = proc[p].promoter + 1
    BY <1>t, ProcessFields
  <2>s. PICK stray_ \in Nat : stray_ = proc[p].stray + proc[p].listed
    BY <1>t, ProcessFields
  <2>m. PICK monitors_ \in Nat : monitors_ = IF proc[p].running THEN proc[p].monitors + 1 ELSE proc[p].monitors
    BY <1>t, ProcessFields
  <2>4. proc' = [proc EXCEPT ![p] = [proc[p] EXCEPT
          !.phase = "off", !.seen = {}, !.tasks = tasks_, !.timers = timers_, !.promoter = promoter_,
          !.held = TRUE, !.stray = stray_, !.listed = Target, !.monitors = monitors_]]
    BY <1>5, <2>2, <2>t, <2>p, <2>s, <2>m DEF StartWorkers
  <2>3. proc' \in [Procs -> ProcessStates]
    BY <1>2, <1>t, <2>4, SchedulesOK DEF ProcessStates, SchedulesOK
  <2> QED BY <1>5, <1>t, <2>3 DEF StartWorkers, ProcessStates
<1>6. CASE Stop(p)
  <2>1. PICK timers_ \in [AllSchedules -> Int] : timers_ = Drop(proc[p].timers, proc[p].tasks)
    BY <1>t, ProcessFields, BumpType
  <2>p. PICK promoter_ \in Int : promoter_ = IF proc[p].held THEN proc[p].promoter - 1 ELSE proc[p].promoter
    BY <1>t, ProcessFields
  <2>3. proc' = [proc EXCEPT ![p] = [proc[p] EXCEPT !.running = FALSE, !.promoter = promoter_,
          !.held = FALSE, !.tasks = {}, !.timers = timers_, !.listed = 0]]
    BY <1>6, <2>1, <2>p DEF Stop
  <2>2. proc' \in [Procs -> ProcessStates]
    BY <1>2, <1>t, <2>3 DEF ProcessStates
  <2> QED BY <1>6, <1>t, <2>2 DEF Stop, ProcessStates
<1>7. CASE Crash(p)
  BY <1>7, <1>t, DownType DEF Crash, ProcessStates
<1>8. CASE Monitor(p)
  <2>2. PICK monitors_ \in Nat : monitors_ = IF proc[p].running THEN proc[p].monitors ELSE proc[p].monitors - 1
    BY <1>8, <1>t, ProcessFields DEF Monitor
  <2>3. PICK listed_ \in Nat :
          listed_ = IF proc[p].listed = 0 \/ ~proc[p].running THEN proc[p].listed ELSE Target
    BY <1>t, ProcessFields, SchedulesOK DEF SchedulesOK
  <2>4. proc' = [proc EXCEPT ![p] = [proc[p] EXCEPT !.monitors = monitors_, !.listed = listed_]]
    BY <1>2, <1>8, <1>t, <2>2, <2>3 DEF Monitor, ProcessStates
  <2>1. proc' \in [Procs -> ProcessStates]
    BY <1>2, <1>t, <2>4 DEF ProcessStates
  <2> QED BY <1>8, <1>t, <2>1 DEF Monitor, ProcessStates
<1>9. ASSUME NEW s \in AllSchedules, Leave(p, s) PROVE SchedulesTypeOK'
  BY <1>9, <1>t DEF Leave, ProcessStates
<1>10. ASSUME NEW s \in AllSchedules, ScheduleCall(p, s) PROVE SchedulesTypeOK'
  <2>1. \A q \in Procs : proc'[q] \in ProcessStates'
    BY <1>10, <1>2, <1>t DEF ScheduleCall, ProcessStates
  <2> QED BY <1>10, <1>t, <2>1 DEF ScheduleCall
<1>11. ASSUME NEW s \in AllSchedules, Persist(p, s) PROVE SchedulesTypeOK'
  <2>1. s \in made /\ s \notin removed
    BY <1>11, <1>t, ProcessFields DEF Persist, SchedulesInv, Unborn
  <2>2. proc' \in [Procs -> ProcessStates]
    BY <1>11, <1>2, <1>t, <2>1 DEF Persist, ProcessStates
  <2> QED BY <1>11, <1>t, <2>1, <2>2 DEF Persist, ProcessStates
<1>12. ASSUME NEW s \in AllSchedules, StartTimer(p, s) PROVE SchedulesTypeOK'
  <2>1. s \in made
    BY <1>12, <1>t, ProcessFields, SMTT(40) DEF StartTimer
  <2> QED BY <1>12, <1>2, <1>t, <2>1 DEF StartTimer, ProcessStates
<1>13. ASSUME NEW s \in AllSchedules, RemoveCall(p, s) PROVE SchedulesTypeOK'
  <2>1. s \in made
    BY <1>13, <1>t, ProcessFields DEF RemoveCall
  <2>2. PICK timers_ \in [AllSchedules -> Int] : timers_ = Drop(proc[p].timers, {s} \cap proc[p].tasks)
    BY <1>t, ProcessFields, BumpType
  <2>4. proc' = [proc EXCEPT ![p] = [proc[p] EXCEPT !.removing = @ \cup {s}, !.tasks = @ \ {s},
          !.timers = timers_, !.owed = @ \ {s}]]
    BY <1>2, <1>13, <1>t, <2>2 DEF RemoveCall, ProcessStates
  <2>3. proc' \in [Procs -> ProcessStates]
    BY <1>2, <1>t, <2>1, <2>4 DEF ProcessStates
  <2> QED BY <1>13, <1>t, <2>3 DEF RemoveCall, ProcessStates
<1>14. ASSUME NEW s \in AllSchedules, RemoveRecord(p, s) PROVE SchedulesTypeOK'
  <2>1. s \in made
    BY <1>14, <1>t, ProcessFields DEF RemoveRecord
  <2> QED BY <1>14, <1>2, <1>t, <2>1 DEF RemoveRecord, ProcessStates
<1> QED BY <1>1, <1>3, <1>4, <1>5, <1>6, <1>7, <1>8, <1>9, <1>10, <1>11, <1>12, <1>13, <1>14

(* A step that gives a process what was recorded, or what is no longer to   *)
(* be made.                                                                 *)
LEMMA UnbornKept ==
  ASSUME \A p \in Procs : Unborn(p), NEW X,
         \A q \in Procs : proc'[q].making \subseteq proc[q].making \ X,
         (records \cup removed)' \subseteq records \cup removed \cup X,
         \A q \in Procs : Has(q)' \subseteq Has(q) \cup records \cup X
  PROVE  \A p \in Procs : Unborn(p)'
<1> SUFFICES ASSUME NEW p \in Procs PROVE Unborn(p)'
  OBVIOUS
<1>1. proc'[p].making \cap (records' \cup removed') = {}
  BY DEF Unborn
<1>2. ASSUME NEW q \in Procs PROVE proc'[p].making \cap Has(q)' = {}
  BY DEF Unborn
<1>3. ASSUME NEW q \in Procs, q # p PROVE proc'[p].making \cap proc'[q].making = {}
  BY <1>3 DEF Unborn
<1> QED BY <1>1, <1>2, <1>3 DEF Unborn

LEMMA UnbornSame ==
  ASSUME \A p \in Procs : Unborn(p),
         \A q \in Procs : proc'[q].making \subseteq proc[q].making,
         records' \subseteq records, removed' = removed,
         \A q \in Procs : Has(q)' \subseteq Has(q) \cup records
  PROVE  \A p \in Procs : Unborn(p)'
<1>1. /\ \A q \in Procs : proc'[q].making \subseteq proc[q].making \ {}
      /\ (records \cup removed)' \subseteq records \cup removed \cup {}
      /\ \A q \in Procs : Has(q)' \subseteq Has(q) \cup records \cup {}
  OBVIOUS
<1> QED BY <1>1, UnbornKept

LEMMA UnbornStep ==
  ASSUME SchedulesInv, SchedulesNext
  PROVE  \A r \in Procs : Unborn(r)'
<1>t. SchedulesTypeOK /\ \A q \in Procs : Unborn(q)
  BY DEF SchedulesInv
<1>1. PICK p \in Procs :
        \/ StartCall(p) \/ ListRecords(p) \/ StartWorkers(p) \/ Stop(p) \/ Crash(p) \/ Monitor(p)
        \/ \E s \in AllSchedules :
             \/ Leave(p, s) \/ ScheduleCall(p, s) \/ Persist(p, s) \/ StartTimer(p, s)
             \/ RemoveCall(p, s) \/ RemoveRecord(p, s)
  BY DEF SchedulesNext
<1>2. proc[p] \in ProcessStates /\ proc \in [Procs -> ProcessStates]
  BY <1>t DEF SchedulesTypeOK
<1>3. CASE StartCall(p)
  <2>1. \A q \in Procs : proc'[q].making = proc[q].making /\ Has(q)' = Has(q)
    BY <1>2, <1>3 DEF StartCall, Has, ProcessStates
  <2> QED BY <1>3, <1>t, <2>1, UnbornSame DEF StartCall
<1>4. CASE ListRecords(p)
  <2>1. \A q \in Procs : proc'[q].making = proc[q].making /\ Has(q)' \subseteq Has(q) \cup records
    BY <1>2, <1>4 DEF ListRecords, Has, ProcessStates
  <2>2. records' \subseteq records /\ removed' = removed
    BY <1>4 DEF ListRecords
  <2> QED BY <1>t, <2>1, <2>2, UnbornSame
<1>5. CASE StartWorkers(p)
  <2>1. \A q \in Procs : proc'[q].making = proc[q].making /\ Has(q)' \subseteq Has(q) \cup records
    BY <1>2, <1>5 DEF StartWorkers, Has, Recovered, ProcessStates
  <2>2. records' \subseteq records /\ removed' = removed
    BY <1>5 DEF StartWorkers
  <2> QED BY <1>t, <2>1, <2>2, UnbornSame
<1>6. CASE Stop(p)
  <2>1. \A q \in Procs : proc'[q].making = proc[q].making /\ Has(q)' \subseteq Has(q)
    BY <1>2, <1>6 DEF Stop, Has, ProcessStates
  <2> QED BY <1>6, <1>t, <2>1, UnbornSame DEF Stop
<1>7. CASE Crash(p)
  <2>1. \A q \in Procs : proc'[q].making \subseteq proc[q].making /\ Has(q)' \subseteq Has(q)
    BY <1>2, <1>7 DEF Crash, Has, Down
  <2> QED BY <1>7, <1>t, <2>1, UnbornSame DEF Crash
<1>8. CASE Monitor(p)
  <2>1. \A q \in Procs : proc'[q].making = proc[q].making /\ Has(q)' = Has(q)
    BY <1>2, <1>8 DEF Monitor, Has, ProcessStates
  <2> QED BY <1>8, <1>t, <2>1, UnbornSame DEF Monitor
<1>9. ASSUME NEW s \in AllSchedules, Leave(p, s) PROVE \A r \in Procs : Unborn(r)'
  <2>1. \A q \in Procs : proc'[q].making = proc[q].making /\ Has(q)' = Has(q)
    BY <1>9 DEF Leave, Has
  <2>2. records' \subseteq records /\ removed' = removed
    BY <1>9 DEF Leave
  <2> QED BY <1>t, <2>1, <2>2, UnbornSame
<1>10. ASSUME NEW s \in AllSchedules, ScheduleCall(p, s) PROVE \A r \in Procs : Unborn(r)'
  <2>1. /\ \A q \in Procs : /\ Has(q)' = Has(q)
                            /\ proc'[q].making = IF q = p THEN proc[q].making \cup {s} ELSE proc[q].making
        /\ records' = records /\ removed' = removed
    BY <1>10, <1>2 DEF ScheduleCall, Has, ProcessStates
  <2>2. s \notin made
    BY <1>10 DEF ScheduleCall
  <2>3. \A q \in Procs : Has(q) \subseteq made /\ proc[q].making \subseteq made
    BY <1>t, ProcessFields DEF Has
  <2>4. s \notin records \cup removed
    BY <1>t, <2>2 DEF SchedulesTypeOK
  <2>5. \A q \in Procs : s \notin Has(q) /\ s \notin proc[q].making
    BY <2>2, <2>3
  <2> SUFFICES ASSUME NEW r \in Procs PROVE Unborn(r)'
    OBVIOUS
  <2>6. proc'[r].making \subseteq proc[r].making \cup {s}
    BY <2>1
  <2>7. proc'[r].making \cap (records \cup removed)' = {}
    BY <1>t, <2>1, <2>4, <2>6 DEF Unborn
  <2>8. ASSUME NEW q \in Procs PROVE proc'[r].making \cap Has(q)' = {}
    <3>1. proc[r].making \cap Has(q) = {} /\ s \notin Has(q)
      BY <1>t, <2>5 DEF Unborn
    <3>2. Has(q)' = Has(q)
      BY <2>1
    <3> QED BY <2>6, <3>1, <3>2
  <2>9. ASSUME NEW q \in Procs, q # r PROVE proc'[r].making \cap proc'[q].making = {}
    BY <1>t, <2>1, <2>5, <2>9 DEF Unborn
  <2> QED BY <2>7, <2>8, <2>9 DEF Unborn
<1>11. ASSUME NEW s \in AllSchedules, Persist(p, s) PROVE \A r \in Procs : Unborn(r)'
  <2>1. \A q \in Procs : q # p => s \notin proc[q].making
    BY <1>11, <1>t DEF Persist, Unborn
  <2>2. \A q \in Procs : proc'[q].making \subseteq proc[q].making \ {s} /\ Has(q)' \subseteq Has(q) \cup {s}
    BY <1>2, <1>11, <2>1 DEF Persist, Has, ProcessStates
  <2>3. records' = records \cup {s} /\ removed' = removed
    BY <1>11 DEF Persist
  <2> QED BY <1>t, <2>2, <2>3, UnbornKept
<1>12. ASSUME NEW s \in AllSchedules, StartTimer(p, s) PROVE \A r \in Procs : Unborn(r)'
  <2>1. \A q \in Procs : q # p => s \notin proc[q].making
    BY <1>12, <1>t DEF StartTimer, Unborn, Has
  <2>2. \A q \in Procs : proc'[q].making \subseteq proc[q].making \ {s} /\ Has(q)' \subseteq Has(q) \cup {s}
    BY <1>2, <1>12, <2>1 DEF StartTimer, Has, ProcessStates
  <2>3. records' = records /\ removed' = removed
    BY <1>12 DEF StartTimer
  <2> QED BY <1>t, <2>2, <2>3, UnbornKept
<1>13. ASSUME NEW s \in AllSchedules, RemoveCall(p, s) PROVE \A r \in Procs : Unborn(r)'
  <2>1. \A q \in Procs : proc'[q].making = proc[q].making /\ Has(q)' \subseteq Has(q) \cup records
    BY <1>2, <1>13 DEF RemoveCall, Has, ProcessStates
  <2>2. records' = records /\ removed' = removed
    BY <1>13 DEF RemoveCall
  <2> QED BY <1>t, <2>1, <2>2, UnbornSame
<1>14. ASSUME NEW s \in AllSchedules, RemoveRecord(p, s) PROVE \A r \in Procs : Unborn(r)'
  <2>1. \A q \in Procs : s \notin proc[q].making
    BY <1>14, <1>t DEF RemoveRecord, Unborn, Has
  <2>2. \A q \in Procs : proc'[q].making = proc[q].making /\ Has(q)' \subseteq Has(q)
    BY <1>2, <1>14 DEF RemoveRecord, Has, ProcessStates
  <2>3. records' \cup removed' \subseteq records \cup removed \cup {s}
    BY <1>14 DEF RemoveRecord
  <2>4. \A q \in Procs : proc'[q].making \subseteq proc[q].making \ {s} /\ Has(q)' \subseteq Has(q) \cup records \cup {s}
    BY <2>1, <2>2
  <2> QED BY <1>t, <2>3, <2>4, UnbornKept
<1> QED BY <1>1, <1>3, <1>4, <1>5, <1>6, <1>7, <1>8, <1>9, <1>10, <1>11, <1>12, <1>13, <1>14

(* A process that does not step keeps what it was.                          *)
LEMMA OthersTidy ==
  ASSUME NEW q \in Procs, Tidy(q), Faithful(q), proc'[q] = proc[q], removed \subseteq removed'
  PROVE  Tidy(q)' /\ Faithful(q)'
BY DEF Tidy, Faithful, NothingHeld, Has

LEMMA TidyStep ==
  ASSUME SchedulesInv, SchedulesNext
  PROVE  \A r \in Procs \ raced' : Tidy(r)' /\ Faithful(r)'
<1>t. SchedulesTypeOK /\ (\A q \in Procs : Unborn(q)) /\ \A q \in Procs \ raced : Tidy(q) /\ Faithful(q)
  BY DEF SchedulesInv
<1>1. PICK p \in Procs :
        \/ StartCall(p) \/ ListRecords(p) \/ StartWorkers(p) \/ Stop(p) \/ Crash(p) \/ Monitor(p)
        \/ \E s \in AllSchedules :
             \/ Leave(p, s) \/ ScheduleCall(p, s) \/ Persist(p, s) \/ StartTimer(p, s)
             \/ RemoveCall(p, s) \/ RemoveRecord(p, s)
  BY DEF SchedulesNext
<1> DEFINE me == proc[p]
           nx == proc'[p]
<1>2. proc[p] \in ProcessStates /\ proc \in [Procs -> ProcessStates]
  BY <1>t DEF SchedulesTypeOK
<1>f. records \cap removed = {} /\ me.timers \in [AllSchedules -> Int] /\ me.listed \in Nat /\ me.tasks \subseteq AllSchedules
  BY <1>t, ProcessFields DEF SchedulesTypeOK
<1>q. /\ removed \subseteq removed'
      /\ \A q \in Procs : q # p => proc'[q] = proc[q] /\ (q \in raced' <=> q \in raced)
      /\ p \in raced => p \in raced' \/ Crash(p)
  <2>1. \A q \in Procs : q # p => proc'[q] = proc[q]
    BY <1>1, <1>2, ZenonT(60) DEF StartCall, ListRecords, StartWorkers, Stop, Crash, Monitor, Leave, ScheduleCall, Persist,
       StartTimer, RemoveCall, RemoveRecord
  <2>2. removed \subseteq removed'
    BY <1>1, ZenonT(60) DEF StartCall, ListRecords, StartWorkers, Stop, Crash, Monitor, Leave, ScheduleCall, Persist,
       StartTimer, RemoveCall, RemoveRecord
  <2>3. raced' = raced \/ raced' = raced \cup {p} \/ (Crash(p) /\ raced' = raced \ {p})
    BY <1>1 DEF StartCall, ListRecords, StartWorkers, Stop, Crash, Monitor, Leave, ScheduleCall, Persist,
       StartTimer, RemoveCall, RemoveRecord, Overlap
  <2> QED BY <2>1, <2>2, <2>3, SMTT(40)
<1>r. ASSUME p \notin raced' => Tidy(p)' /\ Faithful(p)'
      PROVE  \A r \in Procs \ raced' : Tidy(r)' /\ Faithful(r)'
  BY <1>r, <1>t, <1>q, OthersTidy
<1>7. CASE Crash(p)
  <2>1. proc'[p] = Down
    BY <1>7, <1>2 DEF Crash
  <2>2. Tidy(p)' /\ Faithful(p)'
    BY <2>1 DEF Tidy, NothingHeld, Faithful, Has, Down
  <2> QED BY <1>r, <2>2
<1>u. CASE ~Crash(p) /\ p \in raced'
  BY <1>r, <1>u
<1>v. CASE ~Crash(p) /\ p \notin raced'
  <2>t. Tidy(p) /\ Faithful(p) /\ Unborn(p)
    BY <1>q, <1>t, <1>v
  <2> SUFFICES Tidy(p)' /\ Faithful(p)'
    BY <1>r
  <2> USE DEF ProcessStates
  <2>3. CASE StartCall(p)
    <3>1. ~me.running /\ me.phase = "off"
      BY <2>3 DEF StartCall
    <3>2. nx = [me EXCEPT !.running = TRUE, !.phase = "recovering", !.owed = records \cap Known[p], !.gone = removed]
      BY <1>2, <2>3 DEF StartCall
    <3>3. removed' = removed
      BY <2>3 DEF StartCall
    <3>4. Tidy(p)'
      BY <1>2, <2>t, <3>1, <3>2 DEF Tidy, NothingHeld
    <3>5. Has(p) \cup me.making = {}
      BY <2>t, <3>1 DEF Tidy, NothingHeld, Has
    <3>6. Has(p)' \cup nx.making = {}
      BY <1>2, <3>2, <3>5 DEF Has
    <3>7. Faithful(p)'
      BY <1>2, <3>2, <3>3, <3>6 DEF Faithful
    <3> QED BY <3>4, <3>7
  <2>4. CASE ListRecords(p)
    <3>1. nx = [me EXCEPT !.phase = "listed", !.seen = records \cap Known[p], !.owed = me.owed \cap records]
      BY <1>2, <2>4 DEF ListRecords
    <3>2. removed' = removed /\ me.phase = "recovering"
      BY <2>4 DEF ListRecords
    <3>3. Tidy(p)'
      BY <1>2, <2>t, <3>1, <3>2 DEF Tidy, NothingHeld
    <3>4. me.gone \cap (Has(p) \cup me.making) = {} /\ me.gone \subseteq removed /\ me.owed \subseteq Known[p]
      BY <2>t DEF Faithful
    <3>5. Has(p)' \subseteq Has(p) \cup records /\ nx.making = me.making /\ nx.gone = me.gone
      BY <1>2, <3>1 DEF Has
    <3>6. nx.owed \subseteq nx.seen /\ nx.owed \subseteq Known[p] /\ nx.phase = "listed"
      BY <1>2, <3>1, <3>4
    <3>7. Faithful(p)'
      BY <1>f, <3>2, <3>4, <3>5, <3>6 DEF Faithful
    <3> QED BY <3>3, <3>7
  <2>5. CASE StartWorkers(p)
    <3> DEFINE R == Recovered(p)
    <3>1. nx = [me EXCEPT
         !.phase = "off", !.seen = {},
         !.tasks = me.tasks \cup R, !.timers = Bump(me.timers, R),
         !.promoter = me.promoter + 1, !.held = TRUE,
         !.stray = me.stray + me.listed, !.listed = Target,
         !.monitors = IF me.running THEN me.monitors + 1 ELSE me.monitors]
      BY <1>2, <2>5 DEF StartWorkers
    <3>2. removed' = removed /\ me.phase = "listed"
      BY <2>5 DEF StartWorkers
    <3>3. /\ me.tasks = {} /\ me.making = {} /\ me.stored = {} /\ me.removing = {} /\ me.listed = 0 /\ ~me.held
          /\ me.running /\ me.stray = 0 /\ me.promoter = 0
          /\ \A s \in AllSchedules : me.timers[s] = 0
      BY <2>t, <3>2 DEF Tidy, NothingHeld
    <3>4. R = me.seen \cup (records \cap Known[p])
      BY <3>3 DEF Recovered
    <3>5. \A s \in AllSchedules : Bump(me.timers, R)[s] = IF s \in R THEN 1 ELSE 0
      BY <3>3 DEF Bump
    <3>6. nx.tasks = R /\ nx.stray = 0 /\ nx.promoter = 1 /\ nx.held /\ nx.running /\ nx.phase = "off"
          /\ nx.seen = {} /\ nx.making = {} /\ nx.stored = {} /\ nx.removing = {}
          /\ nx.timers = Bump(me.timers, R) /\ nx.owed = me.owed /\ nx.gone = me.gone
      <4> HIDE DEF R
      <4> QED BY <1>2, <3>1, <3>3
    <3>7. Tidy(p)'
      <4> HIDE DEF R
      <4> QED BY <3>5, <3>6 DEF Tidy
    <3>8. me.gone \cap (Has(p) \cup records) = {} /\ me.gone \subseteq removed
          /\ me.owed \subseteq Known[p] /\ me.owed \subseteq me.seen
      BY <1>f, <2>t, <3>2 DEF Faithful
    <3>9. Has(p)' \cup nx.making = R /\ me.seen \subseteq Has(p)
      <4> HIDE DEF R
      <4> QED BY <3>6 DEF Has
    <3>10. Faithful(p)'
      <4> HIDE DEF R
      <4> QED BY <3>2, <3>4, <3>6, <3>8, <3>9 DEF Faithful
    <3> QED BY <3>7, <3>10
  <2>6. CASE Stop(p)
    <3>1. nx = [me EXCEPT
         !.running = FALSE, !.promoter = IF me.held THEN me.promoter - 1 ELSE me.promoter, !.held = FALSE,
         !.tasks = {}, !.timers = Drop(me.timers, me.tasks), !.listed = 0]
      BY <1>2, <2>6 DEF Stop
    <3>2. /\ removed' = removed /\ me.phase = "off"
          /\ me.making = {} /\ me.stored = {} /\ me.removing = {}
      BY <1>v, <2>6 DEF Stop, Overlap, Scheduling
    <3>3. /\ me.stray = 0 /\ me.promoter = (IF me.held THEN 1 ELSE 0) /\ me.seen = {}
          /\ \A s \in AllSchedules : me.timers[s] = IF s \in me.tasks THEN 1 ELSE 0
      BY <2>t, <3>2 DEF Tidy
    <3>4. \A s \in AllSchedules : Drop(me.timers, me.tasks)[s] = 0
      BY <3>3 DEF Drop
    <3>5. nx.running = FALSE /\ nx.promoter = 0 /\ nx.held = FALSE /\ nx.tasks = {} /\ nx.listed = 0 /\ nx.stray = 0
          /\ nx.timers = Drop(me.timers, me.tasks) /\ nx.making = {} /\ nx.stored = {} /\ nx.removing = {}
          /\ nx.phase = "off" /\ nx.seen = {} /\ nx.owed = me.owed /\ nx.gone = me.gone
      BY <1>2, <3>1, <3>2, <3>3
    <3>6. Tidy(p)'
      BY <3>4, <3>5 DEF Tidy, NothingHeld
    <3>7. Faithful(p)'
      BY <2>t, <3>2, <3>5 DEF Faithful, Has
    <3> QED BY <3>6, <3>7
  <2>8. CASE Monitor(p)
    <3>1. nx = [me EXCEPT !.monitors = nx.monitors, !.listed = nx.listed]
      BY <1>2, <2>8 DEF Monitor
    <3>2. removed' = removed /\ (me.listed = 0 => nx.listed = 0)
      BY <1>2, <2>8 DEF Monitor
    <3>3. Tidy(p)'
      BY <1>2, <2>t, <3>1, <3>2 DEF Tidy, NothingHeld
    <3>4. Faithful(p)'
      BY <1>2, <2>t, <3>1, <3>2 DEF Faithful, Has
    <3> QED BY <3>3, <3>4
  <2>9. ASSUME NEW s \in AllSchedules, Leave(p, s) PROVE Tidy(p)' /\ Faithful(p)'
    BY <2>9, <2>t, OthersTidy DEF Leave
  <2>10. ASSUME NEW s \in AllSchedules, ScheduleCall(p, s) PROVE Tidy(p)' /\ Faithful(p)'
    <3>1. nx = [me EXCEPT !.making = me.making \cup {s}]
      BY <1>2, <2>10 DEF ScheduleCall
    <3>2. removed' = removed /\ me.phase = "off" /\ me.running /\ s \notin made
      BY <1>v, <2>10 DEF ScheduleCall, Overlap
    <3>3. s \notin me.tasks /\ s \notin me.gone
      BY <1>t, <3>2, ProcessFields
    <3>4. Tidy(p)'
      BY <1>2, <2>t, <3>1, <3>2, <3>3 DEF Tidy, NothingHeld
    <3>5. Faithful(p)'
      BY <1>2, <2>t, <3>1, <3>2, <3>3 DEF Faithful, Has
    <3> QED BY <3>4, <3>5
  <2>11. ASSUME NEW s \in AllSchedules, Persist(p, s) PROVE Tidy(p)' /\ Faithful(p)'
    <3>1. nx = [me EXCEPT !.making = me.making \ {s}, !.stored = me.stored \cup {s}]
      BY <1>2, <2>11 DEF Persist
    <3>2. removed' = removed /\ s \in me.making
      BY <2>11 DEF Persist
    <3>3. me.phase = "off" /\ me.running
      BY <1>2, <2>t, <3>2 DEF Tidy, NothingHeld
    <3>4. Tidy(p)'
      BY <1>2, <2>t, <3>1, <3>2, <3>3 DEF Tidy, NothingHeld
    <3>5. Faithful(p)'
      BY <1>2, <2>t, <3>1, <3>2, <3>3 DEF Faithful, Has
    <3> QED BY <3>4, <3>5
  <2>12. ASSUME NEW s \in AllSchedules, StartTimer(p, s) PROVE Tidy(p)' /\ Faithful(p)'
    <3>1. nx = [me EXCEPT !.making = me.making \ {s}, !.stored = me.stored \ {s},
                          !.tasks = me.tasks \cup {s}, !.timers = [me.timers EXCEPT ![s] = @ + 1]]
      BY <1>2, <2>12 DEF StartTimer
    <3>2. removed' = removed /\ s \in me.making \cup me.stored
      BY <2>12 DEF StartTimer
    <3>3. /\ me.phase = "off" /\ me.running /\ s \notin me.tasks
          /\ \A z \in AllSchedules : me.timers[z] = IF z \in me.tasks THEN 1 ELSE 0
      BY <1>2, <2>t, <3>2 DEF Tidy, NothingHeld
    <3>4. \A z \in AllSchedules : nx.timers[z] = IF z \in nx.tasks THEN 1 ELSE 0
      BY <1>2, <1>f, <3>1, <3>3
    <3>5. Tidy(p)'
      BY <1>2, <2>t, <3>1, <3>2, <3>3, <3>4 DEF Tidy, NothingHeld
    <3>6. Faithful(p)'
      BY <1>2, <2>t, <3>1, <3>2, <3>3 DEF Faithful, Has
    <3> QED BY <3>5, <3>6
  <2>13. ASSUME NEW s \in AllSchedules, RemoveCall(p, s) PROVE Tidy(p)' /\ Faithful(p)'
    <3> DEFINE mine == {s} \cap me.tasks
    <3>1. nx = [me EXCEPT !.removing = me.removing \cup {s}, !.tasks = me.tasks \ {s},
                          !.timers = Drop(me.timers, mine), !.owed = me.owed \ {s}]
      BY <1>2, <2>13 DEF RemoveCall
    <3>2. removed' = removed /\ me.phase = "off" /\ me.running /\ s \in records \cup me.tasks
      BY <1>v, <2>13 DEF RemoveCall, Overlap
    <3>3. \A z \in AllSchedules : me.timers[z] = IF z \in me.tasks THEN 1 ELSE 0
      BY <2>t DEF Tidy
    <3>4. \A z \in AllSchedules : Drop(me.timers, mine)[z] = IF z \in me.tasks \ {s} THEN 1 ELSE 0
      BY <1>f, <3>3 DEF Drop
    <3>5. nx.tasks = me.tasks \ {s} /\ nx.timers = Drop(me.timers, mine)
      BY <1>2, <3>1
    <3>6. Tidy(p)'
      <4> HIDE DEF mine
      <4>1. /\ nx.running /\ nx.phase = "off" /\ nx.seen = me.seen /\ nx.stray = me.stray
            /\ nx.promoter = me.promoter /\ nx.held = me.held /\ nx.making = me.making /\ nx.stored = me.stored
        BY <1>2, <3>1, <3>2
      <4> QED BY <2>t, <3>2, <3>4, <3>5, <4>1 DEF Tidy
    <3>7. s \notin me.gone
      BY <1>f, <2>t, <3>2 DEF Faithful, Has
    <3>8. Faithful(p)'
      BY <1>2, <2>t, <3>1, <3>2, <3>7 DEF Faithful, Has
    <3> QED BY <3>6, <3>8
  <2>14. ASSUME NEW s \in AllSchedules, RemoveRecord(p, s) PROVE Tidy(p)' /\ Faithful(p)'
    <3>1. nx = [me EXCEPT !.removing = me.removing \ {s}]
      BY <1>2, <2>14 DEF RemoveRecord
    <3>2. removed \subseteq removed'
      BY <1>q
    <3>3. Tidy(p)'
      BY <1>2, <2>t, <3>1 DEF Tidy, NothingHeld
    <3>4. Faithful(p)'
      BY <1>2, <2>t, <3>1, <3>2 DEF Faithful, Has
    <3> QED BY <3>3, <3>4
  <2> QED BY <1>1, <1>v, <2>3, <2>4, <2>5, <2>6, <2>8, <2>9, <2>10, <2>11, <2>12, <2>13, <2>14
<1> QED BY <1>7, <1>u, <1>v

LEMMA SchedulesStep == SchedulesInv /\ [Next]_vars => SchedulesInv'
<1> SUFFICES ASSUME SchedulesInv, [Next]_vars PROVE SchedulesInv'
  OBVIOUS
<1>1. CASE SchedulesNext
  BY <1>1, SchedulesTypeStep, UnbornStep, TidyStep DEF SchedulesInv
<1>2. CASE UNCHANGED schedulesVars
  BY <1>2 DEF schedulesVars, SchedulesInv, SchedulesTypeOK, ProcessStates, Unborn, Has, Tidy, NothingHeld, Faithful
<1> QED BY <1>1, <1>2, SchedulesFrame

(* However processes are started, stopped and crash, and whatever they      *)
(* schedule and remove: a schedule has at most one timer, nothing runs that *)
(* stop() cannot reach, and a start brings back what was recorded and       *)
(* nothing that had been removed, in every process where no call overlapped *)
(* start() or schedule() (supervisor.ts, worker-runtime.ts).                *)
THEOREM SchedulesHold == Spec => []SchedulesTrue
<1>1. SchedulesInv => SchedulesTrue
  <2> SUFFICES ASSUME SchedulesInv PROVE SchedulesTrue
    OBVIOUS
  <2>1. ASSUME NEW p \in Procs, p \notin raced
        PROVE  /\ Tidy(p) /\ Faithful(p) /\ proc[p].timers \in [AllSchedules -> Int]
               /\ proc[p].gone \subseteq AllSchedules /\ proc[p].owed \subseteq AllSchedules
    BY <2>1, ProcessFields DEF SchedulesInv, SchedulesTypeOK
  <2>2. StoppedIsQuiet
    BY <2>1 DEF StoppedIsQuiet, Settled, Tidy, NothingHeld
  <2>3. RecoveredRun
    BY <2>1 DEF RecoveredRun, Settled, Tidy, Faithful
  <2>4. RemovedForGood
    BY <2>1 DEF RemovedForGood, Tidy, Faithful, Has
  <2> QED BY <2>2, <2>3, <2>4 DEF SchedulesTrue, RecordsDecide
<1> QED BY <1>1, SchedulesBegin, SchedulesStep, PTL DEF Spec

-----------------------------------------------------------------------------
(* Workflows.  No node depends on itself, through others or directly; the   *)
(* workflow package does not look.                                          *)
Acyclic == \A S \in SUBSET Nodes : S # {} => \E n \in S : Deps[n] \cap S = {}

WorkflowNext ==
  \/ Launch \/ LaunchOne \/ LaunchSave
  \/ \E n \in Nodes : OnJobComplete(n, MaxRuns) \/ EnqueueDependent(n) \/ SaveWorkflow(n)

Entries == [status : {"pending", "queued", "done"}, remaining : Nat]
Told    == {n \in Nodes : told[n] > 0}

WorkflowTypeOK ==
  /\ launch \in {"new", "enqueuing", "done"} /\ unlaunched \subseteq Roots /\ overlaps \in BOOLEAN
  /\ saved \in [Nodes -> Entries] \cup {Nothing} /\ (launch = "done" => saved \in [Nodes -> Entries])
  /\ loaded \in [Nodes -> [Nodes -> Entries] \cup {Nothing}]
  /\ toQueue \in [Nodes -> SUBSET Nodes]
  /\ \A n \in Nodes : toQueue[n] \subseteq Children(n) /\ (loaded[n] = Nothing => toQueue[n] = {})
  /\ enqueued \in [Nodes -> Nat] /\ told \in [Nodes -> Nat]
  /\ launch # "done" => saved = Nothing /\ ~Busy
  /\ \A n \in Nodes : launch = "new" => enqueued[n] = 0
  /\ launch = "enqueuing" => \A n \in Roots : n \in unlaunched \/ enqueued[n] > 0
  /\ launch = "new" => unlaunched = {}

(* The workflow as it is when exactly the nodes of D have been counted.     *)
Counted(copy, D) ==
  \A m \in Nodes :
    /\ copy[m].status = (IF m \in D THEN "done" ELSE IF Deps[m] \subseteq D THEN "queued" ELSE "pending")
    /\ copy[m].remaining = (IF m \in D THEN 0 ELSE Cardinality(Deps[m] \ D))

(* Unless a completion is reported twice, every copy has counted some of    *)
(* those reported, and what is queued or about to be depends on nothing     *)
(* else.                                                                    *)
Coming(m) == enqueued[m] > 0 \/ \E n \in Nodes : m \in toQueue[n]

Ordered ==
  /\ saved # Nothing => \E D \in SUBSET Told : Counted(saved, D)
  /\ \A n \in Nodes : loaded[n] # Nothing => \E D \in SUBSET Told : n \in D /\ Counted(loaded[n], D)
  /\ \A m \in Nodes : /\ enqueued[m] <= 1
                      /\ Coming(m) => Deps[m] \subseteq Told
                      /\ m \in unlaunched => enqueued[m] = 0
  /\ \A m, n, k \in Nodes : m \in toQueue[n] => enqueued[m] = 0 /\ (m \in toQueue[k] => n = k)

(* Unless calls overlapped, the latest copy counts no completion that it    *)
(* should not, and has queued everything that is not pending in it.         *)
Exact(copy) ==
  \A m \in Nodes :
    /\ copy[m].status = "pending" =>
         copy[m].remaining >= 1 /\ copy[m].remaining <= Cardinality(Deps[m] \ Told)
    /\ copy[m].status # "pending" => Coming(m)

Undisturbed ==
  /\ launch # "done" => Told = {}
  /\ \A n, k \in Nodes : loaded[n] # Nothing /\ loaded[k] # Nothing => n = k
  /\ \A n \in Nodes : loaded[n] # Nothing => Exact(loaded[n])
  /\ launch = "done" /\ ~Busy => Exact(saved)

WorkflowInv == WorkflowTypeOK /\ (~Repeated => Ordered) /\ (~overlaps => Undisturbed)

LEMMA WorkflowFrame == [Next]_vars => [WorkflowNext]_workflowVars
<1> SUFFICES ASSUME [Next]_vars PROVE WorkflowNext \/ UNCHANGED workflowVars
  OBVIOUS
<1> USE DEF Others, appVars
<1>0. CASE UNCHANGED vars
  BY <1>0 DEF vars
<1>1. ASSUME NEW i \in Ids, Execute(i) PROVE UNCHANGED workflowVars
  BY <1>1 DEF Execute, Start, Success, Acknowledge, Catch, Bury, BuryRejects, Lapse
<1>2. CASE WorkflowStep \/ ScheduleStep \/ ManyStep \/ PluginsStep
  BY <1>2 DEF WorkflowStep, WorkflowNext, ScheduleStep, ManyStep, PluginsStep
<1> QED BY <1>0, <1>1, <1>2 DEF Next

(* Dependencies left to count.                                              *)
LEMMA DepsFinite ==
  ASSUME NEW m \in Nodes
  PROVE  /\ Deps[m] \subseteq Nodes /\ IsFiniteSet(Deps[m])
         /\ \A S : IsFiniteSet(Deps[m] \ S) /\ Cardinality(Deps[m] \ S) \in Nat
         /\ \A S : Cardinality(Deps[m] \ S) = 0 <=> Deps[m] \subseteq S
         /\ Cardinality(Deps[m]) \in Nat
<1>1. Deps[m] \subseteq Nodes /\ IsFiniteSet(Nodes)
  BY GraphOK DEF GraphOK
<1>2. IsFiniteSet(Deps[m])
  BY <1>1, FS_Subset
<1>3. \A S : IsFiniteSet(Deps[m] \ S)
  BY <1>2, FS_Difference
<1>4. \A S : Cardinality(Deps[m] \ S) \in Nat
  BY <1>3, FS_CardinalityType
<1>5. \A S : Cardinality(Deps[m] \ S) = 0 <=> Deps[m] \ S = {}
  BY <1>3, FS_EmptySet
<1>6. Cardinality(Deps[m]) \in Nat
  BY <1>2, FS_CardinalityType
<1> QED BY <1>1, <1>2, <1>3, <1>4, <1>5, <1>6

LEMMA OneFewer ==
  ASSUME NEW m \in Nodes, NEW S, NEW n
  PROVE  Cardinality(Deps[m] \ (S \cup {n})) =
           IF n \in Deps[m] /\ n \notin S THEN Cardinality(Deps[m] \ S) - 1 ELSE Cardinality(Deps[m] \ S)
<1>1. IsFiniteSet(Deps[m] \ S)
  BY DepsFinite
<1>2. Deps[m] \ (S \cup {n}) = (Deps[m] \ S) \ {n}
  OBVIOUS
<1>3. Cardinality((Deps[m] \ S) \ {n}) =
        IF n \in Deps[m] \ S THEN Cardinality(Deps[m] \ S) - 1 ELSE Cardinality(Deps[m] \ S)
  BY <1>1, FS_RemoveElement
<1>4. n \in Deps[m] \ S <=> n \in Deps[m] /\ n \notin S
  OBVIOUS
<1>5. CASE n \in Deps[m] \ S
  BY <1>2, <1>3, <1>4, <1>5
<1>6. CASE n \notin Deps[m] \ S
  BY <1>2, <1>3, <1>4, <1>6
<1> QED BY <1>5, <1>6

LEMMA CopyIsSomething ==
  ASSUME NEW f \in [Nodes -> Entries], NEW n \in Nodes
  PROVE  f # Nothing
BY DEF Nothing

LEMMA GraphType == Graph \in [Nodes -> Entries] /\ \A m \in Nodes : Graph[m] = [status |-> "pending", remaining |-> Cardinality(Deps[m])]
<1>1. \A m \in Nodes : Cardinality(Deps[m]) \in Nat
  BY DepsFinite
<1> QED BY <1>1 DEF Graph, Entries

(* What LaunchSave stores, and what a call of onJobComplete loads.          *)
LEMMA FirstCopy ==
  ASSUME LaunchSave
  PROVE  /\ saved' \in [Nodes -> Entries]
         /\ \A m \in Nodes : /\ saved'[m].status = IF m \in Roots THEN "queued" ELSE "pending"
                             /\ saved'[m].remaining = Cardinality(Deps[m])
<1>1. saved' = [m \in Nodes |-> [Graph[m] EXCEPT !.status = IF m \in Roots THEN "queued" ELSE "pending"]]
  BY GraphType DEF LaunchSave
<1>2. \A m \in Nodes : saved'[m] = [status |-> IF m \in Roots THEN "queued" ELSE "pending",
                                    remaining |-> Cardinality(Deps[m])]
  BY <1>1, GraphType
<1>3. ASSUME NEW m \in Nodes
      PROVE  /\ saved'[m] \in Entries
             /\ saved'[m].status = IF m \in Roots THEN "queued" ELSE "pending"
             /\ saved'[m].remaining = Cardinality(Deps[m])
  <2>1. Cardinality(Deps[m]) \in Nat
    BY DepsFinite
  <2>2. PICK st \in {"queued", "pending"} : st = IF m \in Roots THEN "queued" ELSE "pending"
    OBVIOUS
  <2>3. saved'[m] = [status |-> st, remaining |-> Cardinality(Deps[m])]
    BY <1>2, <2>2
  <2> QED BY <2>1, <2>2, <2>3 DEF Entries
<1>4. saved' \in [Nodes -> Entries]
  BY <1>1, <1>3
<1> QED BY <1>3, <1>4

LEMMA NextCopy ==
  ASSUME WorkflowTypeOK, NEW n \in Nodes, OnJobComplete(n, MaxRuns), saved # Nothing
  PROVE  /\ saved \in [Nodes -> Entries]
         /\ loaded' = [loaded EXCEPT ![n] = loaded'[n]] /\ toQueue' = [toQueue EXCEPT ![n] = BecomeReady(n)]
         /\ loaded'[n] \in [Nodes -> Entries] /\ loaded'[n] # Nothing
         /\ \A m \in Nodes :
              /\ m = n => loaded'[n][m].status = "done" /\ loaded'[n][m].remaining = 0
              /\ m # n /\ n \notin Deps[m] => loaded'[n][m] = saved[m]
              /\ m # n /\ n \in Deps[m] =>
                   /\ loaded'[n][m].status = IF m \in BecomeReady(n) THEN "queued" ELSE saved[m].status
                   /\ loaded'[n][m].remaining = Remaining(m)
<1> DEFINE copy == [m \in Nodes |->
               IF m = n THEN [status |-> "done", remaining |-> 0]
               ELSE IF m \in Children(n)
               THEN [status |-> IF m \in BecomeReady(n) THEN "queued" ELSE saved[m].status,
                     remaining |-> Remaining(m)]
               ELSE saved[m]]
<1>1. saved \in [Nodes -> Entries] /\ loaded \in [Nodes -> [Nodes -> Entries] \cup {Nothing}]
  BY DEF WorkflowTypeOK
<1>2. loaded' = [loaded EXCEPT ![n] = copy] /\ toQueue' = [toQueue EXCEPT ![n] = BecomeReady(n)]
  BY DEF OnJobComplete
<1>3. loaded'[n] = copy
  BY <1>1, <1>2
<1>4. \A m \in Nodes : Remaining(m) \in Nat /\ saved[m].status \in {"pending", "queued", "done"}
  BY <1>1 DEF Remaining, Entries
<1>5. \A m \in Nodes : m \in Children(n) <=> n \in Deps[m]
  BY DEF Children
<1>6. ASSUME NEW m \in Nodes
      PROVE
        /\ m = n => copy[m] = [status |-> "done", remaining |-> 0]
        /\ m # n /\ n \notin Deps[m] => copy[m] = saved[m]
        /\ m # n /\ n \in Deps[m] =>
             copy[m] = [status |-> IF m \in BecomeReady(n) THEN "queued" ELSE saved[m].status,
                        remaining |-> Remaining(m)]
  <2>1. CASE m = n
    BY <2>1
  <2>2. CASE m # n /\ n \notin Deps[m]
    BY <1>5, <2>2
  <2>3. CASE m # n /\ n \in Deps[m]
    BY <1>5, <2>3
  <2> QED BY <2>1, <2>2, <2>3
<1>7. copy \in [Nodes -> Entries]
  <2>1. ASSUME NEW m \in Nodes PROVE copy[m] \in Entries
    <3> HIDE DEF copy
    <3>1. CASE m = n
      <4>1. copy[m] = [status |-> "done", remaining |-> 0]
        BY <1>6, <3>1
      <4> QED BY <4>1 DEF Entries
    <3>2. CASE m # n /\ n \notin Deps[m]
      BY <1>1, <1>6, <3>2 DEF Entries
    <3>3. CASE m # n /\ n \in Deps[m]
      <4>1. copy[m] = [status |-> IF m \in BecomeReady(n) THEN "queued" ELSE saved[m].status,
                       remaining |-> Remaining(m)]
        BY <1>6, <3>3
      <4> QED BY <1>4, <4>1 DEF Entries
    <3> QED BY <3>1, <3>2, <3>3
  <2> QED BY <2>1
<1>8. copy # Nothing
  <2> HIDE DEF copy
  <2> QED BY <1>7, CopyIsSomething
<1>9. ASSUME NEW m \in Nodes
      PROVE
        /\ m = n => copy[m].status = "done" /\ copy[m].remaining = 0
        /\ m # n /\ n \notin Deps[m] => copy[m] = saved[m]
        /\ m # n /\ n \in Deps[m] =>
             /\ copy[m].status = IF m \in BecomeReady(n) THEN "queued" ELSE saved[m].status
             /\ copy[m].remaining = Remaining(m)
  <2> HIDE DEF copy
  <2>1. CASE m = n
    <3>1. copy[m] = [status |-> "done", remaining |-> 0]
      BY <1>6, <2>1
    <3> QED BY <2>1, <3>1
  <2>2. CASE m # n /\ n \notin Deps[m]
    BY <1>6, <2>2
  <2>3. CASE m # n /\ n \in Deps[m]
    <3>1. copy[m] = [status |-> IF m \in BecomeReady(n) THEN "queued" ELSE saved[m].status,
                     remaining |-> Remaining(m)]
      BY <1>6, <2>3
    <3> QED BY <2>3, <3>1
  <2> QED BY <2>1, <2>2, <2>3
<1> HIDE DEF copy
<1> QED BY <1>1, <1>2, <1>3, <1>7, <1>8, <1>9

LEMMA WorkflowTypeStep ==
  ASSUME WorkflowTypeOK, WorkflowNext
  PROVE  WorkflowTypeOK'
<1> USE DEF WorkflowTypeOK
<1>1. CASE Launch
  BY <1>1 DEF Launch, Busy
<1>2. CASE LaunchOne
  BY <1>2 DEF LaunchOne, Roots, Busy
<1>3. CASE LaunchSave
  BY <1>3, FirstCopy DEF LaunchSave
<1>4. ASSUME NEW n \in Nodes, OnJobComplete(n, MaxRuns) PROVE WorkflowTypeOK'
  <2>1. CASE saved = Nothing
    BY <1>4, <2>1 DEF OnJobComplete, Busy
  <2>2. CASE saved # Nothing
    <3>1. BecomeReady(n) \subseteq Children(n) /\ Children(n) \subseteq Nodes
      BY DEF BecomeReady, Children
    <3>2. launch = "done"
      BY <2>2
    <3>3. loaded' \in [Nodes -> [Nodes -> Entries] \cup {Nothing}] /\ toQueue' \in [Nodes -> SUBSET Nodes]
      BY <1>4, <2>2, <3>1, NextCopy
    <3>4. \A k \in Nodes : toQueue'[k] \subseteq Children(k) /\ (loaded'[k] = Nothing => toQueue'[k] = {})
      BY <1>4, <2>2, <3>1, NextCopy
    <3>5. told' \in [Nodes -> Nat] /\ UNCHANGED <<saved, launch, unlaunched, enqueued>>
      BY <1>4 DEF OnJobComplete
    <3>6. overlaps' \in BOOLEAN
      BY <1>4 DEF OnJobComplete
    <3> QED BY <3>2, <3>3, <3>4, <3>5, <3>6
  <2> QED BY <2>1, <2>2
<1>5. ASSUME NEW n \in Nodes, EnqueueDependent(n) PROVE WorkflowTypeOK'
  <2>1. PICK m \in toQueue[n] : /\ toQueue' = [toQueue EXCEPT ![n] = @ \ {m}]
                                /\ enqueued' = [enqueued EXCEPT ![m] = IF @ < 3 THEN @ + 1 ELSE @]
    BY <1>5 DEF EnqueueDependent
  <2>2. m \in Nodes /\ \A k \in Nodes : toQueue'[k] \subseteq toQueue[k]
    BY <2>1
  <2>3. enqueued' \in [Nodes -> Nat] /\ \A k \in Nodes : enqueued[k] > 0 => enqueued'[k] > 0
    BY <2>1, <2>2
  <2>4. launch # "new"
    BY <2>1 DEF Busy
  <2>5. launch = "done"
    BY <2>1 DEF Busy
  <2> QED BY <1>5, <2>1, <2>2, <2>3, <2>5 DEF EnqueueDependent
<1>6. ASSUME NEW n \in Nodes, SaveWorkflow(n) PROVE WorkflowTypeOK'
  <2>1. launch = "done"
    BY <1>6 DEF SaveWorkflow, Busy
  <2> QED BY <1>6, <2>1 DEF SaveWorkflow
<1> QED BY <1>1, <1>2, <1>3, <1>4, <1>5, <1>6 DEF WorkflowNext

(* Counting one more completion.                                            *)
LEMMA CountOne ==
  ASSUME WorkflowTypeOK, NEW n \in Nodes, OnJobComplete(n, MaxRuns), saved # Nothing,
         NEW D \in SUBSET Nodes, n \notin D, Counted(saved, D)
  PROVE  /\ Counted(loaded'[n], D \cup {n})
         /\ \A m \in BecomeReady(n) : Deps[m] \subseteq D \cup {n} /\ n \in Deps[m]
<1> DEFINE E == D \cup {n}
           copy == loaded'[n]
<1>1. /\ saved \in [Nodes -> Entries]
      /\ \A m \in Nodes :
           /\ m = n => copy[m].status = "done" /\ copy[m].remaining = 0
           /\ m # n /\ n \notin Deps[m] => copy[m] = saved[m]
           /\ m # n /\ n \in Deps[m] =>
                /\ copy[m].status = IF m \in BecomeReady(n) THEN "queued" ELSE saved[m].status
                /\ copy[m].remaining = Remaining(m)
  BY NextCopy
<1>2. ASSUME NEW m \in Nodes
      PROVE  /\ copy[m].status = (IF m \in E THEN "done" ELSE IF Deps[m] \subseteq E THEN "queued" ELSE "pending")
             /\ copy[m].remaining = (IF m \in E THEN 0 ELSE Cardinality(Deps[m] \ E))
             /\ m \in BecomeReady(n) => Deps[m] \subseteq E
  <2>1. /\ saved[m].status = (IF m \in D THEN "done" ELSE IF Deps[m] \subseteq D THEN "queued" ELSE "pending")
        /\ saved[m].remaining = (IF m \in D THEN 0 ELSE Cardinality(Deps[m] \ D))
    BY DEF Counted
  <2>2. Cardinality(Deps[m] \ E) = IF n \in Deps[m] THEN Cardinality(Deps[m] \ D) - 1 ELSE Cardinality(Deps[m] \ D)
    BY OneFewer
  <2>3. /\ Cardinality(Deps[m] \ D) \in Nat /\ Cardinality(Deps[m] \ E) \in Nat
        /\ Cardinality(Deps[m] \ E) = 0 <=> Deps[m] \subseteq E
    BY DepsFinite
  <2>4. m \in BecomeReady(n) <=> n \in Deps[m] /\ Remaining(m) = 0 /\ saved[m].status = "pending"
    BY DEF BecomeReady, Children
  <2>5. Remaining(m) = IF saved[m].remaining > 0 THEN saved[m].remaining - 1 ELSE 0
    BY DEF Remaining
  <2>6. m \in E <=> m \in D \/ m = n
    OBVIOUS
  <2>7. n \notin Deps[m] => (Deps[m] \subseteq E <=> Deps[m] \subseteq D)
    OBVIOUS
  <2>8. n \in Deps[m] => ~(Deps[m] \subseteq D)
    OBVIOUS
  <2>9. CASE m = n
    <3>1. m \in BecomeReady(n) => Deps[m] \subseteq E
      <4>1. CASE n \in Deps[m] /\ m \notin D
        <5>1. Remaining(m) = Cardinality(Deps[m] \ E)
          BY <2>1, <2>2, <2>3, <2>5, <4>1
        <5> QED BY <2>3, <2>4, <5>1
      <4> QED BY <2>4, <2>9, <4>1
    <3> HIDE DEF copy
    <3> QED BY <1>1, <2>6, <2>9, <3>1
  <2>10. CASE m # n /\ n \notin Deps[m]
    <3>1. copy[m] = saved[m] /\ (m \in E <=> m \in D) /\ m \notin BecomeReady(n)
      BY <1>1, <2>4, <2>10
    <3> HIDE DEF copy, E
    <3> QED BY <2>1, <2>2, <2>7, <2>10, <3>1
  <2>11. CASE m # n /\ n \in Deps[m] /\ m \in D
    <3>1. saved[m].status = "done" /\ saved[m].remaining = 0 /\ m \in E
      BY <2>1, <2>11
    <3>2. m \notin BecomeReady(n) /\ Remaining(m) = 0
      BY <2>4, <2>5, <3>1
    <3> HIDE DEF copy, E
    <3> QED BY <1>1, <2>11, <3>1, <3>2
  <2>12. CASE m # n /\ n \in Deps[m] /\ m \notin D
    <3>1. saved[m].status = "pending" /\ saved[m].remaining = Cardinality(Deps[m] \ D) /\ m \notin E
      BY <2>1, <2>8, <2>12
    <3>2. Remaining(m) = Cardinality(Deps[m] \ E)
      BY <2>2, <2>3, <2>5, <2>12, <3>1
    <3>3. m \in BecomeReady(n) <=> Deps[m] \subseteq E
      BY <2>3, <2>4, <2>12, <3>1, <3>2
    <3> HIDE DEF copy, E
    <3> QED BY <1>1, <2>12, <3>1, <3>2, <3>3
  <2> QED BY <2>9, <2>10, <2>11, <2>12
<1>3. Counted(copy, E)
  BY <1>2 DEF Counted
<1>4. \A m \in BecomeReady(n) : m \in Nodes /\ n \in Deps[m]
  BY DEF BecomeReady, Children
<1> QED BY <1>2, <1>3, <1>4

(* The copies that a step leaves as they are.                               *)
LEMMA CopiesKept ==
  ASSUME Ordered, Told \subseteq Told', \A k \in Nodes : loaded'[k] = Nothing \/ loaded'[k] = loaded[k]
  PROVE  (\A k \in Nodes : loaded[k] # Nothing => \E D \in SUBSET Told : k \in D /\ Counted(loaded[k], D))'
<1> SUFFICES ASSUME NEW k \in Nodes, loaded'[k] # Nothing
             PROVE  (\E D \in SUBSET Told : k \in D /\ Counted(loaded[k], D))'
  BY DEF Nothing
<1>1. loaded'[k] = loaded[k] /\ loaded[k] # Nothing
  BY DEF Nothing
<1>2. PICK D \in SUBSET Told : k \in D /\ Counted(loaded[k], D)
  BY <1>1 DEF Ordered
<1>3. D \in SUBSET Told'
  OBVIOUS
<1> QED BY <1>1, <1>2, <1>3 DEF Counted

LEMMA OrderedStep ==
  ASSUME WorkflowInv, WorkflowNext, ~Repeated'
  PROVE  Ordered'
<1>t. WorkflowTypeOK /\ WorkflowTypeOK'
  BY WorkflowTypeStep DEF WorkflowInv
<1>f. /\ enqueued \in [Nodes -> Nat] /\ told \in [Nodes -> Nat] /\ unlaunched \subseteq Roots
      /\ toQueue \in [Nodes -> SUBSET Nodes] /\ loaded \in [Nodes -> [Nodes -> Entries] \cup {Nothing}]
      /\ \A n \in Nodes : toQueue[n] \subseteq Children(n)
  BY <1>t DEF WorkflowTypeOK
<1>r. Roots \subseteq Nodes /\ \A n \in Roots : Deps[n] = {}
  BY DEF Roots
<1>c. \A m, n \in Nodes : m \in Children(n) => n \in Deps[m]
  BY DEF Children
<1>m. \A n \in Nodes : told[n] <= told'[n]
  BY <1>f DEF WorkflowNext, Launch, LaunchOne, LaunchSave, OnJobComplete, EnqueueDependent, SaveWorkflow
<1>o. Ordered
  <2>1. \A n \in Nodes : told'[n] \in Nat
    BY <1>t DEF WorkflowTypeOK
  <2>2. ~Repeated
    BY <1>f, <1>m, <2>1 DEF Repeated
  <2> QED BY <2>2 DEF WorkflowInv
<1>1. CASE Launch
  <2>1. \A n \in Nodes : enqueued[n] = 0
    BY <1>1, <1>t DEF WorkflowTypeOK, Launch
  <2>2. UNCHANGED <<saved, loaded, toQueue, enqueued, told>>
    BY <1>1 DEF Launch
  <2>3. Told' = Told
    BY <2>2 DEF Told
  <2>4. (saved # Nothing => \E D \in SUBSET Told : Counted(saved, D))'
    BY <1>o, <2>2, <2>3 DEF Ordered, Counted
  <2>5. (\A k \in Nodes : loaded[k] # Nothing => \E D \in SUBSET Told : k \in D /\ Counted(loaded[k], D))'
    BY <1>o, <2>2, <2>3, CopiesKept
  <2>6. (\A m \in Nodes : enqueued[m] <= 1 /\ (Coming(m) => Deps[m] \subseteq Told) /\ (m \in unlaunched => enqueued[m] = 0))'
    BY <1>o, <2>1, <2>2, <2>3 DEF Ordered, Coming
  <2>7. (\A m, k, l \in Nodes : m \in toQueue[k] => enqueued[m] = 0 /\ (m \in toQueue[l] => k = l))'
    BY <1>o, <2>2 DEF Ordered
  <2> QED BY <2>4, <2>5, <2>6, <2>7 DEF Ordered
<1>2. CASE LaunchOne
  <2>1. PICK n \in unlaunched : unlaunched' = unlaunched \ {n} /\ enqueued' = [enqueued EXCEPT ![n] = @ + 1]
    BY <1>2 DEF LaunchOne
  <2>2. n \in Nodes /\ Deps[n] = {} /\ enqueued[n] = 0 /\ \A k \in Nodes : n \notin toQueue[k]
    BY <1>c, <1>f, <1>o, <1>r, <2>1 DEF Ordered
  <2>3. UNCHANGED <<saved, launch, loaded, toQueue, told>>
    BY <1>2 DEF LaunchOne
  <2>4. \A m \in Nodes : enqueued'[m] = IF m = n THEN 1 ELSE enqueued[m]
    BY <1>f, <2>1, <2>2
  <2>5. Told' = Told
    BY <2>3 DEF Told
  <2>6. (saved # Nothing => \E D \in SUBSET Told : Counted(saved, D))'
    BY <1>o, <2>3, <2>5 DEF Ordered, Counted
  <2>7. (\A k \in Nodes : loaded[k] # Nothing => \E D \in SUBSET Told : k \in D /\ Counted(loaded[k], D))'
    BY <1>o, <2>3, <2>5, CopiesKept
  <2>8. (\A m \in Nodes : enqueued[m] <= 1 /\ (Coming(m) => Deps[m] \subseteq Told) /\ (m \in unlaunched => enqueued[m] = 0))'
    BY <1>o, <2>1, <2>2, <2>3, <2>4, <2>5 DEF Ordered, Coming
  <2>9. (\A m, k, l \in Nodes : m \in toQueue[k] => enqueued[m] = 0 /\ (m \in toQueue[l] => k = l))'
    BY <1>o, <2>2, <2>3, <2>4 DEF Ordered
  <2> QED BY <2>6, <2>7, <2>8, <2>9 DEF Ordered
<1>3. CASE LaunchSave
  <2>1. \A m \in Nodes : /\ saved'[m].status = IF m \in Roots THEN "queued" ELSE "pending"
                         /\ saved'[m].remaining = Cardinality(Deps[m])
    BY <1>3, FirstCopy
  <2>2. UNCHANGED <<unlaunched, loaded, toQueue, enqueued, told>>
    BY <1>3 DEF LaunchSave
  <2>3. Told' = Told
    BY <2>2 DEF Told
  <2>4. Counted(saved', {})
    <3>1. ASSUME NEW m \in Nodes PROVE Deps[m] \ {} = Deps[m] /\ (m \in Roots <=> Deps[m] \subseteq {})
      BY DEF Roots
    <3> QED BY <2>1, <3>1 DEF Counted
  <2>5. (saved # Nothing => \E D \in SUBSET Told : Counted(saved, D))'
    BY <2>4 DEF Counted
  <2>6. (\A k \in Nodes : loaded[k] # Nothing => \E D \in SUBSET Told : k \in D /\ Counted(loaded[k], D))'
    BY <1>o, <2>2, <2>3, CopiesKept
  <2>7. (\A m \in Nodes : enqueued[m] <= 1 /\ (Coming(m) => Deps[m] \subseteq Told) /\ (m \in unlaunched => enqueued[m] = 0))'
    BY <1>o, <2>2, <2>3 DEF Ordered, Coming
  <2>8. (\A m, k, l \in Nodes : m \in toQueue[k] => enqueued[m] = 0 /\ (m \in toQueue[l] => k = l))'
    BY <1>o, <2>2 DEF Ordered
  <2> QED BY <2>5, <2>6, <2>7, <2>8 DEF Ordered
<1>4. ASSUME NEW n \in Nodes, OnJobComplete(n, MaxRuns) PROVE Ordered'
  <2>1. UNCHANGED <<saved, unlaunched, enqueued>> /\ told' = [told EXCEPT ![n] = @ + 1]
    BY <1>4 DEF OnJobComplete
  <2>2. told'[n] = told[n] + 1 /\ told'[n] <= 1
    <3>1. told'[n] = told[n] + 1
      BY <1>f, <2>1
    <3>2. ~(told'[n] > 1)
      BY DEF Repeated
    <3> QED BY <1>f, <3>1, <3>2
  <2>3. n \notin Told /\ Told' = Told \cup {n}
    BY <1>f, <2>1, <2>2 DEF Told
  <2>4. \A m \in Nodes : n \in Deps[m] => enqueued[m] = 0 /\ \A k \in Nodes : m \notin toQueue[k]
    BY <1>f, <1>o, <2>3 DEF Ordered, Coming
  <2>5. (saved # Nothing => \E D \in SUBSET Told : Counted(saved, D))'
    BY <1>o, <2>1, <2>3 DEF Ordered, Counted
  <2>6. CASE saved = Nothing
    <3>1. UNCHANGED <<loaded, toQueue>>
      BY <1>4, <2>6 DEF OnJobComplete
    <3>2. (\A k \in Nodes : loaded[k] # Nothing => \E D \in SUBSET Told : k \in D /\ Counted(loaded[k], D))'
      BY <1>o, <2>3, <3>1, SMTT(40) DEF Ordered, Counted
    <3>3. (\A m \in Nodes : enqueued[m] <= 1 /\ (Coming(m) => Deps[m] \subseteq Told) /\ (m \in unlaunched => enqueued[m] = 0))'
      BY <1>o, <2>1, <2>3, <3>1 DEF Ordered, Coming
    <3>4. (\A m, k, l \in Nodes : m \in toQueue[k] => enqueued[m] = 0 /\ (m \in toQueue[l] => k = l))'
      BY <1>o, <2>1, <3>1 DEF Ordered
    <3> QED BY <2>5, <3>2, <3>3, <3>4 DEF Ordered
  <2>7. CASE saved # Nothing
    <3>1. PICK D \in SUBSET Told : Counted(saved, D)
      BY <1>o, <2>7 DEF Ordered
    <3>2. D \in SUBSET Nodes /\ n \notin D
      BY <2>3 DEF Told
    <3>3. /\ Counted(loaded'[n], D \cup {n})
          /\ \A m \in BecomeReady(n) : Deps[m] \subseteq D \cup {n} /\ n \in Deps[m]
      BY <1>4, <1>t, <2>7, <3>1, <3>2, CountOne
    <3>4. /\ loaded' = [loaded EXCEPT ![n] = loaded'[n]] /\ toQueue' = [toQueue EXCEPT ![n] = BecomeReady(n)]
      BY <1>4, <1>t, <2>7, NextCopy
    <3>5. BecomeReady(n) \subseteq Nodes
      BY DEF BecomeReady, Children
    <3>6. \A k \in Nodes : k # n => loaded'[k] = loaded[k] /\ toQueue'[k] = toQueue[k]
      BY <1>f, <3>4
    <3>7. toQueue'[n] = BecomeReady(n)
      BY <1>f, <3>4
    <3>8. ASSUME NEW k \in Nodes, loaded'[k] # Nothing
          PROVE  \E C \in SUBSET Told' : k \in C /\ \A m \in Nodes :
            /\ loaded'[k][m].status = (IF m \in C THEN "done" ELSE IF Deps[m] \subseteq C THEN "queued" ELSE "pending")
            /\ loaded'[k][m].remaining = (IF m \in C THEN 0 ELSE Cardinality(Deps[m] \ C))
      <4>1. CASE k = n
        <5>1. D \cup {n} \in SUBSET Told'
          BY <2>3
        <5> QED BY <3>3, <4>1, <5>1 DEF Counted
      <4>2. CASE k # n
        <5>1. PICK C \in SUBSET Told : k \in C /\ Counted(loaded[k], C)
          BY <1>o, <3>6, <3>8, <4>2 DEF Ordered
        <5>2. C \in SUBSET Told' /\ loaded'[k] = loaded[k]
          BY <2>3, <3>6, <4>2
        <5> QED BY <5>1, <5>2 DEF Counted
      <4> QED BY <4>1, <4>2
    <3>9. (\A k \in Nodes : loaded[k] # Nothing => \E C \in SUBSET Told : k \in C /\ Counted(loaded[k], C))'
      BY <3>8 DEF Counted
    <3>10. ASSUME NEW m \in Nodes PROVE Coming(m)' => Deps[m] \subseteq Told'
      <4>1. CASE m \in BecomeReady(n)
        BY <2>3, <3>3, <4>1
      <4>2. CASE m \notin BecomeReady(n)
        <5>1. Coming(m)' => Coming(m)
          BY <2>1, <3>6, <3>7, <4>2 DEF Coming
        <5>2. Coming(m) => Deps[m] \subseteq Told
          BY <1>o DEF Ordered
        <5> QED BY <2>3, <5>1, <5>2
      <4> QED BY <4>1, <4>2
    <3>11. (\A m \in Nodes : enqueued[m] <= 1 /\ (Coming(m) => Deps[m] \subseteq Told) /\ (m \in unlaunched => enqueued[m] = 0))'
      BY <1>o, <2>1, <3>10 DEF Ordered
    <3>12. (\A m, k, l \in Nodes : m \in toQueue[k] => enqueued[m] = 0 /\ (m \in toQueue[l] => k = l))'
      BY <1>o, <2>1, <2>4, <3>3, <3>5, <3>6, <3>7 DEF Ordered
    <3> QED BY <2>5, <3>9, <3>11, <3>12 DEF Ordered
  <2> QED BY <2>6, <2>7
<1>5. ASSUME NEW n \in Nodes, EnqueueDependent(n) PROVE Ordered'
  <2>1. PICK m \in toQueue[n] : /\ toQueue' = [toQueue EXCEPT ![n] = @ \ {m}]
                                /\ enqueued' = [enqueued EXCEPT ![m] = IF @ < 3 THEN @ + 1 ELSE @]
    BY <1>5 DEF EnqueueDependent
  <2>2. m \in Nodes /\ enqueued[m] = 0 /\ m \notin unlaunched /\ Coming(m)
    BY <1>c, <1>f, <1>o, <1>r, <2>1 DEF Ordered, Coming
  <2>3. UNCHANGED <<saved, unlaunched, loaded, told>>
    BY <1>5 DEF EnqueueDependent
  <2>4. \A k \in Nodes : enqueued'[k] = IF k = m THEN 1 ELSE enqueued[k]
    BY <1>f, <2>1, <2>2
  <2>5. \A k \in Nodes : toQueue'[k] = IF k = n THEN toQueue[n] \ {m} ELSE toQueue[k]
    BY <1>f, <2>1
  <2>6. Told' = Told
    BY <2>3 DEF Told
  <2>7. (saved # Nothing => \E D \in SUBSET Told : Counted(saved, D))'
    BY <1>o, <2>3, <2>6 DEF Ordered, Counted
  <2>8. (\A k \in Nodes : loaded[k] # Nothing => \E D \in SUBSET Told : k \in D /\ Counted(loaded[k], D))'
    BY <1>o, <2>3, <2>6, CopiesKept
  <2>9. \A k \in Nodes : Coming(k)' => Coming(k)
    BY <2>2, <2>4, <2>5 DEF Coming
  <2>10. (\A k \in Nodes : enqueued[k] <= 1 /\ (Coming(k) => Deps[k] \subseteq Told) /\ (k \in unlaunched => enqueued[k] = 0))'
    BY <1>o, <2>2, <2>3, <2>4, <2>6, <2>9 DEF Ordered
  <2>11. (\A x, k, l \in Nodes : x \in toQueue[k] => enqueued[x] = 0 /\ (x \in toQueue[l] => k = l))'
    BY <1>o, <2>1, <2>4, <2>5 DEF Ordered
  <2> QED BY <2>7, <2>8, <2>10, <2>11 DEF Ordered
<1>6. ASSUME NEW n \in Nodes, SaveWorkflow(n) PROVE Ordered'
  <2>1. UNCHANGED <<unlaunched, toQueue, enqueued, told>> /\ saved' = loaded[n] /\ loaded[n] # Nothing
    BY <1>6 DEF SaveWorkflow
  <2>2. \A k \in Nodes : loaded'[k] = IF k = n THEN Nothing ELSE loaded[k]
    BY <1>6, <1>f DEF SaveWorkflow
  <2>3. Told' = Told
    BY <2>1 DEF Told
  <2>4. (saved # Nothing => \E D \in SUBSET Told : Counted(saved, D))'
    <3>1. PICK D \in SUBSET Told : n \in D /\ Counted(loaded[n], D)
      BY <1>o, <2>1 DEF Ordered
    <3>2. D \in SUBSET Told'
      BY <2>3
    <3> QED BY <2>1, <3>1, <3>2 DEF Counted
  <2>5. (\A k \in Nodes : loaded[k] # Nothing => \E D \in SUBSET Told : k \in D /\ Counted(loaded[k], D))'
    BY <1>o, <2>2, <2>3, CopiesKept
  <2>6. (\A k \in Nodes : enqueued[k] <= 1 /\ (Coming(k) => Deps[k] \subseteq Told) /\ (k \in unlaunched => enqueued[k] = 0))'
    BY <1>o, <2>1, <2>3 DEF Ordered, Coming
  <2>7. (\A x, k, l \in Nodes : x \in toQueue[k] => enqueued[x] = 0 /\ (x \in toQueue[l] => k = l))'
    BY <1>o, <2>1 DEF Ordered
  <2> QED BY <2>4, <2>5, <2>6, <2>7 DEF Ordered
<1> QED BY <1>1, <1>2, <1>3, <1>4, <1>5, <1>6 DEF WorkflowNext

LEMMA UndisturbedStep ==
  ASSUME WorkflowInv, WorkflowNext, ~overlaps'
  PROVE  Undisturbed'
<1>t. WorkflowTypeOK /\ WorkflowTypeOK'
  BY WorkflowTypeStep DEF WorkflowInv
<1>f. /\ enqueued \in [Nodes -> Nat] /\ told \in [Nodes -> Nat] /\ unlaunched \subseteq Roots
      /\ toQueue \in [Nodes -> SUBSET Nodes] /\ loaded \in [Nodes -> [Nodes -> Entries] \cup {Nothing}]
      /\ \A n \in Nodes : toQueue[n] \subseteq Children(n) /\ (loaded[n] = Nothing => toQueue[n] = {})
      /\ launch # "done" => saved = Nothing /\ ~Busy
      /\ launch = "done" => saved \in [Nodes -> Entries]
      /\ launch = "enqueuing" => \A n \in Roots : n \in unlaunched \/ enqueued[n] > 0
  BY <1>t DEF WorkflowTypeOK
<1>o. ~overlaps
  BY DEF WorkflowNext, Launch, LaunchOne, LaunchSave, OnJobComplete, EnqueueDependent, SaveWorkflow
<1>u. Undisturbed
  BY <1>o DEF WorkflowInv
<1>e. ASSUME Told' = Told, \A m \in Nodes : Coming(m) => Coming(m)', launch' = launch, saved' = saved, loaded' = loaded
      PROVE  Undisturbed'
  <2>1. \A n \in Nodes : loaded[n] # Nothing => Exact(loaded[n])'
    BY <1>e, <1>u DEF Undisturbed, Exact
  <2>2. launch = "done" /\ ~Busy => Exact(saved)'
    BY <1>e, <1>u DEF Undisturbed, Exact
  <2>3. Busy' = Busy
    BY <1>e DEF Busy, Nothing
  <2>4. (\A n \in Nodes : loaded[n] # Nothing => Exact(loaded[n]))'
    BY <1>e, <2>1 DEF Nothing
  <2>5. (\A n, k \in Nodes : loaded[n] # Nothing /\ loaded[k] # Nothing => n = k)'
    BY <1>e, <1>u DEF Undisturbed, Nothing
  <2> QED BY <1>e, <1>u, <2>2, <2>3, <2>4, <2>5 DEF Undisturbed, Nothing
<1>1. CASE Launch
  BY <1>1, <1>u, <1>f DEF Launch, Undisturbed, Busy, Told, Nothing
<1>2. CASE LaunchOne
  <2>1. PICK n \in unlaunched : enqueued' = [enqueued EXCEPT ![n] = @ + 1]
    BY <1>2 DEF LaunchOne
  <2>2. UNCHANGED <<saved, launch, loaded, toQueue, told>>
    BY <1>2 DEF LaunchOne
  <2>3. n \in Nodes
    BY <1>f, <2>1 DEF Roots
  <2>4. \A m \in Nodes : enqueued[m] > 0 => enqueued'[m] > 0
    BY <1>f, <2>1, <2>3
  <2>5. \A m \in Nodes : Coming(m) => Coming(m)'
    BY <2>2, <2>4 DEF Coming
  <2>6. Told' = Told
    BY <2>2 DEF Told
  <2> QED BY <1>e, <2>2, <2>5, <2>6
<1>3. CASE LaunchSave
  <2>1. \A m \in Nodes : /\ saved'[m].status = IF m \in Roots THEN "queued" ELSE "pending"
                         /\ saved'[m].remaining = Cardinality(Deps[m])
    BY <1>3, FirstCopy
  <2>2. UNCHANGED <<loaded, toQueue, enqueued, told>> /\ launch = "enqueuing" /\ unlaunched = {} /\ launch' = "done"
    BY <1>3 DEF LaunchSave
  <2>3. ~Busy /\ Told = {} /\ Told' = {}
    BY <1>f, <1>u, <2>2 DEF Undisturbed, Told
  <2>4. ASSUME NEW m \in Nodes
        PROVE  /\ saved'[m].status = "pending" =>
                    saved'[m].remaining >= 1 /\ saved'[m].remaining <= Cardinality(Deps[m] \ Told')
               /\ saved'[m].status # "pending" => Coming(m)'
    <3>1. CASE m \in Roots
      BY <1>f, <2>1, <2>2, <3>1 DEF Coming
    <3>2. CASE m \notin Roots
      <4>1. Deps[m] # {} /\ Deps[m] \ Told' = Deps[m] /\ Deps[m] \ {} = Deps[m]
        BY <2>3, <3>2 DEF Roots
      <4>2. Cardinality(Deps[m]) \in Nat /\ Cardinality(Deps[m]) # 0
        BY <4>1, DepsFinite
      <4>3. saved'[m].status = "pending" /\ saved'[m].remaining = Cardinality(Deps[m])
        BY <2>1, <3>2
      <4>4. Cardinality(Deps[m] \ Told') = Cardinality(Deps[m])
        BY <4>1
      <4>5. saved'[m].remaining >= 1 /\ saved'[m].remaining <= Cardinality(Deps[m] \ Told')
        BY <4>2, <4>3, <4>4
      <4> QED BY <4>3, <4>5
    <3> QED BY <3>1, <3>2
  <2>5. Exact(saved)'
    BY <2>4 DEF Exact
  <2> QED BY <2>2, <2>3, <2>5 DEF Undisturbed, Busy, Nothing
<1>4. ASSUME NEW n \in Nodes, OnJobComplete(n, MaxRuns) PROVE Undisturbed'
  <2>1. ~Busy /\ saved # Nothing /\ enqueued[n] > 0
    BY <1>4 DEF OnJobComplete
  <2>2. launch = "done" /\ Exact(saved) /\ \A k \in Nodes : loaded[k] = Nothing /\ toQueue[k] = {}
    BY <1>f, <1>u, <2>1 DEF Undisturbed, Busy
  <2>3. UNCHANGED <<saved, launch, enqueued>> /\ told' = [told EXCEPT ![n] = @ + 1]
    BY <1>4 DEF OnJobComplete
  <2>4. Told' = Told \cup {n}
    BY <1>f, <2>3 DEF Told
  <2>5. /\ loaded' = [loaded EXCEPT ![n] = loaded'[n]] /\ toQueue' = [toQueue EXCEPT ![n] = BecomeReady(n)]
        /\ loaded'[n] # Nothing
        /\ \A m \in Nodes :
              /\ m = n => loaded'[n][m].status = "done" /\ loaded'[n][m].remaining = 0
              /\ m # n /\ n \notin Deps[m] => loaded'[n][m] = saved[m]
              /\ m # n /\ n \in Deps[m] =>
                   /\ loaded'[n][m].status = IF m \in BecomeReady(n) THEN "queued" ELSE saved[m].status
                   /\ loaded'[n][m].remaining = Remaining(m)
    BY <1>4, <1>t, <2>1, NextCopy
  <2>6. toQueue'[n] = BecomeReady(n)
    BY <1>f, <2>5
  <2>7. \A m \in Nodes : enqueued[m] > 0 \/ m \in BecomeReady(n) => Coming(m)'
    BY <2>3, <2>6 DEF Coming
  <2>8. \A m \in Nodes : Coming(m) <=> enqueued[m] > 0
    BY <2>2 DEF Coming
  <2>9. ASSUME NEW m \in Nodes
        PROVE  /\ loaded'[n][m].status = "pending" =>
                    loaded'[n][m].remaining >= 1 /\ loaded'[n][m].remaining <= Cardinality(Deps[m] \ Told')
               /\ loaded'[n][m].status # "pending" => Coming(m)'
    <3>1. /\ saved[m].status = "pending" => saved[m].remaining >= 1 /\ saved[m].remaining <= Cardinality(Deps[m] \ Told)
          /\ saved[m].status # "pending" => enqueued[m] > 0
      BY <2>2, <2>8 DEF Exact
    <3>2. Cardinality(Deps[m] \ Told) \in Nat /\ Cardinality(Deps[m] \ Told') \in Nat /\ saved[m].remaining \in Nat
      BY <1>f, <2>2, DepsFinite DEF Entries
    <3>3. Cardinality(Deps[m] \ Told') =
            IF n \in Deps[m] /\ n \notin Told THEN Cardinality(Deps[m] \ Told) - 1 ELSE Cardinality(Deps[m] \ Told)
      BY <2>4, OneFewer
    <3>4. CASE m = n
      <4>1. Coming(m)'
        BY <2>1, <2>7, <3>4
      <4> QED BY <2>5, <3>4, <4>1
    <3>5. CASE m # n /\ n \notin Deps[m]
      <4>1. loaded'[n][m] = saved[m] /\ Cardinality(Deps[m] \ Told') = Cardinality(Deps[m] \ Told)
        BY <2>5, <3>3, <3>5
      <4> QED BY <2>7, <3>1, <4>1
    <3>6. CASE m # n /\ n \in Deps[m]
      <4>1. m \in BecomeReady(n) <=> Remaining(m) = 0 /\ saved[m].status = "pending"
        BY <3>6 DEF BecomeReady, Children
      <4>2. Remaining(m) = IF saved[m].remaining > 0 THEN saved[m].remaining - 1 ELSE 0
        BY DEF Remaining
      <4>3. /\ loaded'[n][m].status = IF m \in BecomeReady(n) THEN "queued" ELSE saved[m].status
            /\ loaded'[n][m].remaining = Remaining(m)
        BY <2>5, <3>6
      <4>4. CASE m \in BecomeReady(n)
        BY <2>7, <4>3, <4>4
      <4>5. CASE m \notin BecomeReady(n) /\ saved[m].status = "pending"
        <5>1. Remaining(m) >= 1 /\ Remaining(m) = saved[m].remaining - 1
          BY <3>1, <3>2, <4>1, <4>2, <4>5
        <5> QED BY <3>1, <3>2, <3>3, <4>3, <4>5, <5>1
      <4>6. CASE m \notin BecomeReady(n) /\ saved[m].status # "pending"
        BY <2>7, <3>1, <4>3, <4>6
      <4> QED BY <4>4, <4>5, <4>6
    <3> QED BY <3>4, <3>5, <3>6
  <2>10. \A k \in Nodes : k # n => loaded'[k] = Nothing
    BY <1>f, <2>2, <2>5
  <2>11. (\A k \in Nodes : loaded[k] # Nothing => Exact(loaded[k]))'
    <3> SUFFICES ASSUME NEW k \in Nodes, loaded'[k] # Nothing PROVE Exact(loaded[k])'
      BY DEF Nothing
    <3>1. k = n
      BY <2>10
    <3> QED BY <2>9, <3>1 DEF Exact
  <2>12. (\A l, k \in Nodes : loaded[l] # Nothing /\ loaded[k] # Nothing => l = k)'
    BY <2>10 DEF Nothing
  <2>13. Busy'
    BY <2>5 DEF Busy, Nothing
  <2> QED BY <2>2, <2>3, <2>11, <2>12, <2>13 DEF Undisturbed
<1>5. ASSUME NEW n \in Nodes, EnqueueDependent(n) PROVE Undisturbed'
  <2>1. PICK m \in toQueue[n] : /\ toQueue' = [toQueue EXCEPT ![n] = @ \ {m}]
                                /\ enqueued' = [enqueued EXCEPT ![m] = IF @ < 3 THEN @ + 1 ELSE @]
    BY <1>5 DEF EnqueueDependent
  <2>2. UNCHANGED <<saved, launch, loaded, told>>
    BY <1>5 DEF EnqueueDependent
  <2>3. m \in Nodes /\ enqueued[m] \in Nat
    BY <1>f, <2>1
  <2>4. enqueued'[m] > 0 /\ \A k \in Nodes : enqueued[k] > 0 => enqueued'[k] > 0
    BY <1>f, <2>1, <2>3
  <2>5. \A k, l \in Nodes : k \in toQueue[l] => k \in toQueue'[l] \/ k = m
    BY <1>f, <2>1
  <2>6. \A k \in Nodes : Coming(k) => Coming(k)'
    BY <2>4, <2>5 DEF Coming
  <2>7. Told' = Told
    BY <2>2 DEF Told
  <2> QED BY <1>e, <2>2, <2>6, <2>7
<1>6. ASSUME NEW n \in Nodes, SaveWorkflow(n) PROVE Undisturbed'
  <2>1. UNCHANGED <<launch, toQueue, enqueued, told>> /\ saved' = loaded[n] /\ loaded[n] # Nothing
    BY <1>6 DEF SaveWorkflow
  <2>2. launch = "done" /\ Exact(loaded[n]) /\ \A k \in Nodes : k # n => loaded[k] = Nothing
    BY <1>f, <1>u, <2>1 DEF Undisturbed, Busy
  <2>3. \A k \in Nodes : loaded'[k] = Nothing
    BY <1>6, <1>f, <2>2 DEF SaveWorkflow
  <2>4. Told' = Told /\ \A k \in Nodes : Coming(k)' = Coming(k)
    BY <2>1 DEF Told, Coming
  <2>5. Exact(saved)'
    BY <2>1, <2>2, <2>4 DEF Exact
  <2> QED BY <2>1, <2>2, <2>3, <2>5 DEF Undisturbed, Nothing
<1> QED BY <1>1, <1>2, <1>3, <1>4, <1>5, <1>6 DEF WorkflowNext

LEMMA WorkflowBegin == Init => WorkflowInv
<1> SUFFICES ASSUME WorkflowInit PROVE WorkflowInv
  BY DEF Init
<1>1. WorkflowTypeOK
  BY DEF WorkflowInit, WorkflowTypeOK, Busy
<1>2. Ordered
  BY DEF WorkflowInit, Ordered, Coming
<1>3. Undisturbed
  BY DEF WorkflowInit, Undisturbed, Busy, Told
<1> QED BY <1>1, <1>2, <1>3 DEF WorkflowInv

LEMMA WorkflowStepOK == WorkflowInv /\ [Next]_vars => WorkflowInv'
<1> SUFFICES ASSUME WorkflowInv, [Next]_vars PROVE WorkflowInv'
  OBVIOUS
<1>1. CASE WorkflowNext
  <2>1. WorkflowTypeOK'
    BY <1>1, WorkflowTypeStep DEF WorkflowInv
  <2>2. ~Repeated' => Ordered'
    BY <1>1, OrderedStep
  <2>3. ~overlaps' => Undisturbed'
    BY <1>1, UndisturbedStep
  <2> QED BY <2>1, <2>2, <2>3 DEF WorkflowInv
<1>2. CASE UNCHANGED workflowVars
  <2> USE <1>2 DEF workflowVars
  <2>1. Told' = Told /\ Repeated' = Repeated /\ Busy' = Busy
    BY DEF Told, Repeated, Busy, Nothing
  <2>2. WorkflowTypeOK'
    BY <2>1 DEF WorkflowInv, WorkflowTypeOK, Nothing
  <2>3. Ordered => Ordered'
    <3> SUFFICES ASSUME Ordered PROVE Ordered'
      OBVIOUS
    <3>1. (saved # Nothing => \E D \in SUBSET Told : Counted(saved, D))'
      BY <2>1 DEF Ordered, Counted, Nothing
    <3>2. (\A k \in Nodes : loaded[k] # Nothing => \E D \in SUBSET Told : k \in D /\ Counted(loaded[k], D))'
      BY <2>1, CopiesKept
    <3> QED BY <2>1, <3>1, <3>2 DEF Ordered, Coming
  <2>4. Undisturbed => Undisturbed'
    BY <2>1 DEF Undisturbed, Exact, Coming, Nothing
  <2> QED BY <2>1, <2>2, <2>3, <2>4 DEF WorkflowInv
<1> QED BY <1>1, <1>2, WorkflowFrame

(* In a graph without cycles whatever was never enqueued has a node that    *)
(* waits for nothing.                                                       *)
LEMMA AllEnqueued ==
  ASSUME Acyclic, WorkflowInv
  PROVE  WorkflowRuns
<1> SUFFICES ASSUME launch = "done", ~Busy, ~overlaps, \A n \in Nodes : enqueued[n] > 0 => told[n] > 0,
                    NEW x \in Nodes, ~(enqueued[x] > 0)
             PROVE  FALSE
  BY DEF WorkflowRuns
<1> DEFINE S == {n \in Nodes : ~(enqueued[n] > 0)}
<1>1. S \in SUBSET Nodes /\ x \in S
  OBVIOUS
<1>2. PICK m \in S : Deps[m] \cap S = {}
  <2> HIDE DEF S
  <2> QED BY <1>1 DEF Acyclic
<1>3. Deps[m] \subseteq Told
  BY <1>2, DepsFinite DEF Told
<1>4. Exact(saved) /\ \A n \in Nodes : toQueue[n] = {}
  BY DEF WorkflowInv, Undisturbed, WorkflowTypeOK, Busy
<1>5. ~Coming(m)
  BY <1>2, <1>4 DEF Coming
<1>6. Cardinality(Deps[m] \ Told) = 0
  BY <1>2, <1>3, DepsFinite
<1>7. saved[m].status = "pending" /\ saved[m].remaining >= 1 /\ saved[m].remaining <= 0
  BY <1>2, <1>4, <1>5, <1>6 DEF Exact
<1>8. saved[m].remaining \in Nat
  BY <1>2 DEF WorkflowInv, WorkflowTypeOK, Entries
<1> QED BY <1>7, <1>8

LEMMA WorkflowInOrder == WorkflowInv => WorkflowOrder
<1> SUFFICES ASSUME WorkflowInv, ~Repeated, NEW n \in Nodes
             PROVE  enqueued[n] <= 1 /\ (enqueued[n] = 1 => \A d \in Deps[n] : told[d] > 0)
  BY DEF WorkflowOrder
<1>1. Ordered /\ enqueued[n] \in Nat
  BY DEF WorkflowInv, WorkflowTypeOK
<1>2. enqueued[n] = 1 => Coming(n)
  BY DEF Coming
<1> QED BY <1>1, <1>2 DEF Ordered, Told

(* For every graph without cycles: a node is enqueued once, and after all   *)
(* it depends on completed, however the calls of onJobComplete interleave,  *)
(* as long as none is repeated; and the graph runs to its end as long as no *)
(* two of them overlap (workflow.ts, WorkflowEngine.onJobComplete).         *)
THEOREM WorkflowHolds ==
  ASSUME Acyclic
  PROVE  Spec => []WorkflowTrue
<1>1. WorkflowInv => WorkflowTrue
  BY AllEnqueued, WorkflowInOrder DEF WorkflowTrue
<1> QED BY <1>1, WorkflowBegin, WorkflowStepOK, PTL DEF Spec

-----------------------------------------------------------------------------
(* Jobs.  Where the store has a job, how far its dispatch is and where its  *)
(* execution is go together.                                                *)
Labels  == {"new", "looking", "hooking", "stored", "answered", "rejected"}
Lanes   == {"off", "running", "told", "failing", "over"}
Entered == {"none", "pending", "completed", "failed"}

JobTypeOK ==
  /\ at \in [Ids -> Kept \cup {"none", "dead", "old"}] /\ pc \in [Ids -> Labels] /\ lane \in [Ids -> Lanes]
  /\ entry \in [Ids -> Entered] /\ sent \subseteq Ids

JobOK(i) ==
  /\ lane[i] # "off" <=> at[i] = "active"
  /\ pc[i] \in {"new", "looking", "hooking", "rejected"} => at[i] = "none"
  /\ scene # "keys" => pc[i] # "looking" /\ at[i] \notin {"pending", "due"}

(* Batches: a job that is being sent or has not been has no entry; what an  *)
(* entry says, the execution has told it; and what it does not say came too *)
(* early, or is to be run again.                                            *)
EntryOK(i) ==
  /\ entry[i] # "none" => pc[i] \in {"answered", "rejected"}
  /\ i \in sent => entry[i] = "none" /\ pc[i] # "new"
  /\ scene # "batch" => entry[i] = "none"
  /\ entry[i] = "completed" => at[i] \in {"completed", "old"} \/ lane[i] # "off"
  /\ entry[i] = "failed" => at[i] = "dead" \/ (i \in unburied /\ at[i] \in {"ready", "active"})
  /\ lane[i] = "over" => entry[i] # "completed"
  /\ lane[i] = "told" => entry[i] = "completed" \/ (i \in early /\ entry[i] \in {"none", "pending"})
  /\ at[i] \in {"completed", "dead"} /\ entry[i] \in {"none", "pending"} => i \in early \cup retried

BatchInv ==
  /\ JobTypeOK
  /\ scene # "batch" => sent = {} /\ unsent = <<>>
  /\ \A i \in Ids : JobOK(i) /\ EntryOK(i)

LEMMA BatchBegin == Init => BatchInv
BY DEF Init, DispatchInit, BatchInit, BatchInv, JobTypeOK, JobOK, EntryOK, Kept, Labels, Lanes, Entered

(* A job that a step leaves alone.                                          *)
Same(k) ==
  /\ at'[k] = at[k] /\ pc'[k] = pc[k] /\ lane'[k] = lane[k]
  /\ entry'[k] = entry[k] /\ (k \in early => k \in early') /\ (k \in retried => k \in retried')
  /\ (k \in unburied => k \in unburied') /\ (k \in sent' => k \in sent)

LEMMA SameJob ==
  ASSUME NEW k \in Ids, JobOK(k), EntryOK(k), Same(k), scene' = scene
  PROVE  JobOK(k)' /\ EntryOK(k)'
BY DEF Same, JobOK, EntryOK

(* A job that is only dispatched.                                           *)
LEMMA HookingJob ==
  ASSUME NEW k \in Ids, JobOK(k), EntryOK(k), scene' = scene, pc[k] = "new", pc'[k] = "hooking",
         at'[k] = at[k], lane'[k] = lane[k], entry'[k] = entry[k],
         k \in early => k \in early', k \in retried => k \in retried', unburied' = unburied
  PROVE  JobOK(k)' /\ EntryOK(k)'
BY DEF JobOK, EntryOK

(* The fresh ids that take a set of nodes.                                  *)
LEMMA FreshNodes ==
  ASSUME JobTypeOK, NEW S, NEW f, DispatchNodes(S, f)
  PROVE  /\ pc' \in [Ids -> Labels]
         /\ \A k \in Ids : pc'[k] = pc[k] \/ (pc[k] = "new" /\ pc'[k] = "hooking")
<1>1. pc' = [k \in Ids |-> IF \E n \in S : f[n] = k THEN "hooking" ELSE pc[k]]
  BY DEF DispatchNodes
<1>2. \A n \in S : f[n] \in Ids /\ pc[f[n]] = "new"
  BY DEF DispatchNodes, Fresh
<1> QED BY <1>1, <1>2 DEF JobTypeOK, Labels

LEMMA SucceededEffect ==
  ASSUME JobTypeOK, NEW i \in Ids, Succeeded(i)
  PROVE  /\ pc' \in [Ids -> Labels]
         /\ \A k \in Ids : pc'[k] = pc[k] \/ (pc[k] = "new" /\ pc'[k] = "hooking")
<1>1. CASE nodeOf[i] = NoNode
  BY <1>1 DEF Succeeded, JobTypeOK
<1>2. CASE nodeOf[i] # NoNode
  <2>1. PICK f : DispatchNodes(ReadyChildren(nodeOf[i]), f)
    BY <1>2 DEF Succeeded
  <2> QED BY <2>1, FreshNodes
<1> QED BY <1>1, <1>2

LEMMA BatchStep == BatchInv /\ [Next]_vars => BatchInv'
<1> SUFFICES ASSUME BatchInv, [Next]_vars PROVE BatchInv'
  OBVIOUS
<1>t. /\ JobTypeOK
      /\ scene # "batch" => sent = {} /\ unsent = <<>>
      /\ \A k \in Ids : JobOK(k) /\ EntryOK(k)
      /\ at \in [Ids -> Kept \cup {"none", "dead", "old"}] /\ pc \in [Ids -> Labels] /\ lane \in [Ids -> Lanes]
      /\ entry \in [Ids -> Entered] /\ sent \subseteq Ids
  BY DEF BatchInv, JobTypeOK
<1>s. ASSUME UNCHANGED batchVars, scene' = scene, JobTypeOK',
             \A k \in Ids : Same(k) \/ (JobOK(k)' /\ EntryOK(k)')
      PROVE  BatchInv'
  BY <1>s, <1>t, SameJob DEF BatchInv, batchVars
<1>u. ASSUME UNCHANGED <<scene, at, pc, lane, batchVars, unburied>> PROVE BatchInv'
  <2>1. JobTypeOK'
    BY <1>t, <1>u DEF JobTypeOK, batchVars
  <2>2. \A k \in Ids : Same(k)
    BY <1>u DEF Same, batchVars
  <2> QED BY <1>s, <1>u, <2>1, <2>2
<1>0. CASE UNCHANGED vars
  BY <1>0, <1>u DEF vars, dispatchVars
<1>1. ASSUME NEW i \in Ids, DispatchStep(i), UNCHANGED <<batchVars, lane, unburied>> PROVE BatchInv'
  <2>1. CASE Ask(i) \/ Conclude(i)
    <3>1. scene' = scene /\ at' = at /\ pc' = [pc EXCEPT ![i] = pc'[i]]
          /\ pc'[i] \in {"looking", "answered", "hooking"} /\ pc[i] \in {"new", "looking"}
          /\ (pc'[i] = "looking" => scene = "keys")
      BY <1>t, <2>1 DEF Ask, Conclude, Goto, Fresh
    <3>2. JobTypeOK'
      BY <1>1, <1>t, <3>1 DEF JobTypeOK, batchVars, Labels
    <3>3. \A k \in Ids : k # i => Same(k)
      BY <1>1, <1>t, <3>1 DEF Same, batchVars
    <3>4. JobOK(i)' /\ EntryOK(i)'
      BY <1>1, <1>t, <3>1 DEF JobOK, EntryOK, batchVars
    <3> QED BY <1>1, <1>s, <3>1, <3>2, <3>3, <3>4
  <2>2. ASSUME NEW listing \in Listings, Query(i, listing) PROVE BatchInv'
    BY <1>1, <1>u, <2>2 DEF Query
  <2>3. CASE Store(i)
    <3>1. scene' = scene /\ pc[i] = "hooking" /\ pc' = [pc EXCEPT ![i] = "stored"]
      BY <2>3 DEF Store, Goto
    <3>2. \/ at' = at
          \/ \E place \in {"pending", "ready"} : at' = [at EXCEPT ![i] = place] /\ (scene # "keys" => place = "ready")
      BY <2>3 DEF Store, Move
    <3>3. JobTypeOK'
      BY <1>1, <1>t, <3>1, <3>2 DEF JobTypeOK, batchVars, Labels, Kept
    <3>4. \A k \in Ids : k # i => Same(k)
      BY <1>1, <1>t, <3>1, <3>2 DEF Same, batchVars
    <3>5. pc'[i] = "stored" /\ (at'[i] = at[i] \/ at'[i] \in {"pending", "ready"}) /\ (scene # "keys" => at'[i] # "pending")
          /\ at[i] = "none"
      BY <1>t, <3>1, <3>2 DEF JobOK
    <3>6. JobOK(i)' /\ EntryOK(i)'
      BY <1>1, <1>t, <3>1, <3>5 DEF JobOK, EntryOK, batchVars
    <3> QED BY <1>1, <1>s, <3>1, <3>3, <3>4, <3>6
  <2>4. CASE StoreMoves(i)
    <3>1. /\ scene' = scene /\ pc' = pc /\ scene = "keys"
          /\ \E step \in Moves : at[i] = step[1] /\ at' = [at EXCEPT ![i] = step[2]]
      BY <2>4 DEF StoreMoves, Move
    <3>2. /\ at' = [at EXCEPT ![i] = at'[i]] /\ at[i] \in {"pending", "due", "completed"}
          /\ at'[i] \in {"due", "ready", "old"}
      BY <1>t, <3>1 DEF Moves
    <3>3. JobTypeOK'
      BY <1>1, <1>t, <3>1, <3>2 DEF JobTypeOK, batchVars, Kept
    <3>4. \A k \in Ids : k # i => Same(k)
      BY <1>1, <1>t, <3>1, <3>2 DEF Same, batchVars
    <3>5. JobOK(i)' /\ EntryOK(i)'
      BY <1>1, <1>t, <3>1, <3>2 DEF JobOK, EntryOK, batchVars
    <3> QED BY <1>1, <1>s, <3>1, <3>3, <3>4, <3>5
  <2> QED BY <1>1, <2>1, <2>2, <2>3, <2>4 DEF DispatchStep
<1>2. ASSUME NEW i \in Ids, Reject(i) \/ Return(i), UNCHANGED <<batchVars, lane, unburied>> PROVE BatchInv'
  <2>1. /\ scene' = scene /\ at' = at /\ pc' = [pc EXCEPT ![i] = pc'[i]]
        /\ (pc[i] = "hooking" /\ pc'[i] = "rejected" /\ scene # "keys") \/ (pc[i] = "stored" /\ pc'[i] = "answered")
    BY <1>2, <1>t DEF Reject, Return, Goto
  <2>2. JobTypeOK'
    BY <1>2, <1>t, <2>1 DEF JobTypeOK, batchVars, Labels
  <2>3. \A k \in Ids : k # i => Same(k)
    BY <1>2, <1>t, <2>1 DEF Same, batchVars
  <2>4. JobOK(i)' /\ EntryOK(i)'
    BY <1>2, <1>t, <2>1 DEF JobOK, EntryOK, batchVars
  <2> QED BY <1>2, <1>s, <2>1, <2>2, <2>3, <2>4
<1>3. ASSUME NEW i \in Ids, NEW j \in Ids, RetryFailed(i, j), UNCHANGED <<lane, unburied>> PROVE BatchInv'
  <2>1. /\ i # j /\ at[i] = "dead" /\ entry[i] = "failed" /\ pc[j] = "new"
        /\ at' = [at EXCEPT ![i] = "old", ![j] = "ready"] /\ pc' = [pc EXCEPT ![j] = "answered"]
        /\ entry' = [entry EXCEPT ![i] = "pending"] /\ retried' = retried \cup {i}
        /\ UNCHANGED <<scene, unsent, sent, early>>
    BY <1>3, <1>t DEF RetryFailed, Replay, Goto, Fresh, JobOK
  <2>2. JobTypeOK'
    BY <1>3, <1>t, <2>1 DEF JobTypeOK, Labels, Kept, Entered
  <2>3. \A k \in Ids : k # i /\ k # j => Same(k)
    BY <1>3, <1>t, <2>1 DEF Same
  <2>4. at'[i] = "old" /\ pc'[i] = pc[i] /\ entry'[i] = "pending"
    BY <1>t, <2>1
  <2>5. JobOK(i)' /\ EntryOK(i)'
    BY <1>3, <1>t, <2>1, <2>4 DEF JobOK, EntryOK
  <2>6. at'[j] = "ready" /\ pc'[j] = "answered" /\ entry'[j] = entry[j] /\ at[j] = "none" /\ entry[j] = "none"
    BY <1>t, <2>1 DEF JobOK, EntryOK
  <2>7. JobOK(j)' /\ EntryOK(j)'
    BY <1>3, <1>t, <2>1, <2>6 DEF JobOK, EntryOK
  <2> QED BY <1>t, <2>1, <2>2, <2>3, <2>5, <2>7, SameJob DEF BatchInv
<1>4. ASSUME NEW i \in Ids, NEW j \in Ids, ReplayNode(i, j), UNCHANGED <<batchVars, lane, unburied>> PROVE BatchInv'
  <2>1. /\ i # j /\ at[i] = "dead" /\ pc[j] = "new" /\ scene = "flow"
        /\ at' = [at EXCEPT ![i] = "old", ![j] = "ready"] /\ pc' = [pc EXCEPT ![j] = "answered"] /\ scene' = scene
    BY <1>4, <1>t DEF ReplayNode, Replay, Goto, Fresh, JobOK
  <2>2. JobTypeOK'
    BY <1>4, <1>t, <2>1 DEF JobTypeOK, batchVars, Labels, Kept
  <2>3. \A k \in Ids : k # i /\ k # j => Same(k)
    BY <1>4, <1>t, <2>1 DEF Same, batchVars
  <2>4. at'[i] = "old" /\ pc'[i] = pc[i]
    BY <1>t, <2>1
  <2>5. JobOK(i)' /\ EntryOK(i)'
    BY <1>4, <1>t, <2>1, <2>4 DEF JobOK, EntryOK, batchVars
  <2>6. at'[j] = "ready" /\ pc'[j] = "answered" /\ at[j] = "none"
    BY <1>t, <2>1 DEF JobOK
  <2>7. JobOK(j)' /\ EntryOK(j)'
    BY <1>4, <1>t, <2>1, <2>6 DEF JobOK, EntryOK, batchVars
  <2> QED BY <1>4, <1>s, <2>1, <2>2, <2>3, <2>5, <2>7
<1>5. ASSUME NEW i \in Ids, Start(i) PROVE BatchInv'
  <2>1. /\ at[i] = "ready" /\ at' = [at EXCEPT ![i] = "active"] /\ lane' = [lane EXCEPT ![i] = "running"]
        /\ pc' = pc /\ scene' = scene /\ UNCHANGED <<batchVars, unburied>>
    BY <1>5 DEF Start, Move, Others
  <2>2. JobTypeOK'
    BY <1>t, <2>1 DEF JobTypeOK, batchVars, Lanes, Kept
  <2>3. \A k \in Ids : k # i => Same(k)
    BY <1>t, <2>1 DEF Same, batchVars
  <2>4. JobOK(i)' /\ EntryOK(i)'
    BY <1>t, <2>1 DEF JobOK, EntryOK, batchVars
  <2> QED BY <1>s, <2>1, <2>2, <2>3, <2>4
<1>6. ASSUME NEW i \in Ids, Success(i) PROVE BatchInv'
  <2>1. /\ lane[i] = "running" /\ lane' = [lane EXCEPT ![i] = "told"]
        /\ at' = at /\ scene' = scene /\ UNCHANGED <<unsent, sent, retried, unburied>>
    BY <1>6 DEF Success
  <2>2. /\ pc' \in [Ids -> Labels]
        /\ \A k \in Ids : pc'[k] = pc[k] \/ (pc[k] = "new" /\ pc'[k] = "hooking")
    <3>1. JobTypeOK /\ Succeeded(i)
      BY <1>6, <1>t DEF Success
    <3> QED BY <3>1, SucceededEffect
  <2>3. /\ entry[i] = "none" => entry' = entry /\ early' = early \cup {i}
        /\ entry[i] # "none" => entry' = [entry EXCEPT ![i] = "completed"] /\ early' = early
    BY <1>6 DEF Success, Mark
  <2>4. JobTypeOK'
    BY <1>t, <2>1, <2>2, <2>3 DEF JobTypeOK, Lanes, Entered
  <2>5. ASSUME NEW k \in Ids, k # i PROVE JobOK(k)' /\ EntryOK(k)'
    <3>1. /\ at'[k] = at[k] /\ lane'[k] = lane[k] /\ entry'[k] = entry[k]
          /\ (k \in early => k \in early') /\ (k \in retried => k \in retried') /\ UNCHANGED <<sent, unburied>>
      BY <1>t, <2>1, <2>3, <2>5
    <3>2. CASE pc'[k] = pc[k]
      BY <1>t, <2>1, <3>1, <3>2, SameJob DEF Same
    <3>3. CASE pc[k] = "new" /\ pc'[k] = "hooking"
      BY <1>t, <2>1, <3>1, <3>3, HookingJob
    <3> QED BY <2>2, <3>2, <3>3
  <2>6. pc[i] # "new" /\ at[i] = "active" /\ pc'[i] = pc[i]
    BY <1>t, <2>1, <2>2 DEF JobOK
  <2>7. lane'[i] = "told" /\ (entry[i] = "none" => entry'[i] = "none" /\ i \in early')
        /\ (entry[i] # "none" => entry'[i] = "completed")
    BY <1>t, <2>1, <2>3
  <2>8. JobOK(i)' /\ EntryOK(i)'
    BY <1>t, <2>1, <2>6, <2>7 DEF JobOK, EntryOK
  <2> QED BY <1>t, <2>1, <2>4, <2>5, <2>8 DEF BatchInv
<1>7. ASSUME NEW i \in Ids, Acknowledge(i) PROVE BatchInv'
  <2>1. /\ lane[i] = "told" /\ lane' = [lane EXCEPT ![i] = "off"] /\ at' = [at EXCEPT ![i] = "completed"]
        /\ pc' = pc /\ scene' = scene /\ UNCHANGED <<batchVars, unburied>>
    BY <1>7 DEF Acknowledge, Move, Others
  <2>2. JobTypeOK'
    BY <1>t, <2>1 DEF JobTypeOK, batchVars, Lanes, Kept
  <2>3. \A k \in Ids : k # i => Same(k)
    BY <1>t, <2>1 DEF Same, batchVars
  <2>4. at'[i] = "completed" /\ lane'[i] = "off" /\ at[i] = "active"
    BY <1>t, <2>1 DEF JobOK
  <2>5. JobOK(i)' /\ EntryOK(i)'
    BY <1>t, <2>1, <2>4 DEF JobOK, EntryOK, batchVars
  <2> QED BY <1>s, <2>1, <2>2, <2>3, <2>5
<1>8. ASSUME NEW i \in Ids, Catch(i) PROVE BatchInv'
  <2>1. /\ lane[i] \in {"running", "told"} /\ lane' = [lane EXCEPT ![i] = lane'[i]] /\ lane'[i] \in {"running", "failing"}
        /\ pc' = pc /\ at' = at /\ scene' = scene /\ UNCHANGED <<batchVars, unburied>>
    BY <1>8, <1>t DEF Catch, Throws, Others, dispatchVars
  <2>2. JobTypeOK'
    BY <1>t, <2>1 DEF JobTypeOK, batchVars, Lanes
  <2>3. \A k \in Ids : k # i => Same(k)
    BY <1>t, <2>1 DEF Same, batchVars
  <2>4. JobOK(i)' /\ EntryOK(i)'
    BY <1>t, <2>1 DEF JobOK, EntryOK, batchVars
  <2> QED BY <1>s, <2>1, <2>2, <2>3, <2>4
<1>9. ASSUME NEW i \in Ids, Bury(i) PROVE BatchInv'
  <2>1. /\ lane[i] = "failing" /\ lane' = [lane EXCEPT ![i] = "off"] /\ at' = [at EXCEPT ![i] = "dead"]
        /\ pc' = pc /\ scene' = scene /\ UNCHANGED <<unsent, sent, retried, unburied>>
    BY <1>9 DEF Bury, Move
  <2>3. /\ entry[i] = "none" => entry' = entry /\ early' = early \cup {i}
        /\ entry[i] # "none" => entry' = [entry EXCEPT ![i] = "failed"] /\ early' = early
    BY <1>9 DEF Bury, Mark
  <2>4. JobTypeOK'
    BY <1>t, <2>1, <2>3 DEF JobTypeOK, Lanes, Entered
  <2>5. \A k \in Ids : k # i => Same(k)
    BY <1>t, <2>1, <2>3 DEF Same
  <2>6. pc'[i] = pc[i] /\ at[i] = "active" /\ at'[i] = "dead" /\ lane'[i] = "off"
        /\ (entry[i] = "none" => entry'[i] = "none" /\ i \in early')
        /\ (entry[i] # "none" => entry'[i] = "failed")
    BY <1>t, <2>1, <2>3 DEF JobOK
  <2>7. JobOK(i)' /\ EntryOK(i)'
    BY <1>t, <2>1, <2>6 DEF JobOK, EntryOK
  <2> QED BY <1>t, <2>1, <2>4, <2>5, <2>7, SameJob DEF BatchInv
<1>10. ASSUME SendChunk, UNCHANGED <<lane, unburied>> PROVE BatchInv'
  <2>1. PICK S \in SUBSET Fresh : sent' = S /\ pc' = [i \in Ids |-> IF i \in S THEN "hooking" ELSE pc[i]]
    BY <1>10 DEF SendChunk
  <2>0. unsent # <<>> /\ UNCHANGED <<scene, at, entry, early, retried>>
    BY <1>10 DEF SendChunk
  <2>2. scene = "batch" /\ UNCHANGED <<scene, at, entry, early, retried>>
    BY <1>t, <2>0
  <2>3. S \subseteq Ids /\ \A k \in S : pc[k] = "new"
    BY DEF Fresh
  <2>4. JobTypeOK'
    BY <1>10, <1>t, <2>1, <2>2, <2>3 DEF JobTypeOK, Labels
  <2>5. \A k \in Ids \ S : Same(k)
    BY <1>10, <1>t, <2>1, <2>2 DEF Same
  <2>6. \A k \in S : JobOK(k)' /\ EntryOK(k)'
    BY <1>10, <1>t, <2>1, <2>2, <2>3, HookingJob
  <2> QED BY <1>t, <2>2, <2>4, <2>5, <2>6, SameJob DEF BatchInv
<1>11. ASSUME RegisterChunk, UNCHANGED <<lane, unburied>> PROVE BatchInv'
  <2>1. /\ sent # {} /\ sent' = {} /\ entry' = [i \in Ids |-> IF i \in sent THEN "pending" ELSE entry[i]]
        /\ \A i \in sent : pc[i] \in {"answered", "rejected"}
        /\ UNCHANGED <<scene, at, pc, unsent, early, retried>>
    BY <1>11 DEF RegisterChunk, dispatchVars
  <2>2. JobTypeOK' /\ scene = "batch"
    BY <1>11, <1>t, <2>1 DEF JobTypeOK, Entered
  <2>3. \A k \in Ids \ sent : Same(k)
    BY <1>11, <1>t, <2>1 DEF Same
  <2>4. \A k \in sent : JobOK(k)' /\ EntryOK(k)'
    BY <1>11, <1>t, <2>1, <2>2 DEF JobOK, EntryOK
  <2> QED BY <1>t, <2>1, <2>2, <2>3, <2>4, SameJob DEF BatchInv
<1>12. ASSUME StartFlow, UNCHANGED <<batchVars, lane, unburied>> PROVE BatchInv'
  <2>1. PICK f : DispatchNodes(Roots, f)
    BY <1>12 DEF StartFlow
  <2>2. scene' = scene /\ at' = at
    BY <1>12 DEF StartFlow
  <2>3. /\ pc' \in [Ids -> Labels]
        /\ \A k \in Ids : pc'[k] = pc[k] \/ (pc[k] = "new" /\ pc'[k] = "hooking")
    <3>1. JobTypeOK
      BY <1>t
    <3> QED BY <2>1, <3>1, FreshNodes
  <2>4. JobTypeOK'
    BY <1>12, <1>t, <2>2, <2>3 DEF JobTypeOK, batchVars
  <2>5. \A k \in Ids : pc'[k] = pc[k] => Same(k)
    BY <1>12, <1>t, <2>2 DEF Same, batchVars
  <2>6. \A k \in Ids : pc[k] = "new" /\ pc'[k] = "hooking" => JobOK(k)' /\ EntryOK(k)'
    BY <1>12, <1>t, <2>2, HookingJob DEF batchVars
  <2> QED BY <1>12, <1>s, <2>2, <2>3, <2>4, <2>5, <2>6
<1>13. CASE WorkflowStep \/ ScheduleStep \/ ManyStep \/ PluginsStep
  BY <1>13, <1>u DEF WorkflowStep, ScheduleStep, ManyStep, PluginsStep, dispatchVars
<1>14. ASSUME NEW i \in Ids, BuryRejects(i) PROVE BatchInv'
  <2>1. /\ lane[i] = "failing" /\ lane' = [lane EXCEPT ![i] = "over"] /\ unburied' = unburied \cup {i}
        /\ pc' = pc /\ at' = at /\ scene' = scene /\ UNCHANGED <<unsent, sent, retried>>
    BY <1>14 DEF BuryRejects, dispatchVars
  <2>3. /\ entry[i] = "none" => entry' = entry /\ early' = early \cup {i}
        /\ entry[i] # "none" => entry' = [entry EXCEPT ![i] = "failed"] /\ early' = early
    BY <1>14 DEF BuryRejects, Mark
  <2>4. JobTypeOK'
    BY <1>t, <2>1, <2>3 DEF JobTypeOK, Lanes, Entered
  <2>5. \A k \in Ids : k # i => Same(k)
    BY <1>t, <2>1, <2>3 DEF Same
  <2>6. at[i] = "active" /\ lane'[i] = "over" /\ i \in unburied'
        /\ (entry[i] = "none" => entry'[i] = "none" /\ i \in early')
        /\ (entry[i] # "none" => entry'[i] = "failed")
    BY <1>t, <2>1, <2>3 DEF JobOK
  <2>7. JobOK(i)' /\ EntryOK(i)'
    BY <1>t, <2>1, <2>6 DEF JobOK, EntryOK
  <2> QED BY <1>t, <2>1, <2>4, <2>5, <2>7, SameJob DEF BatchInv
<1>15. ASSUME NEW i \in Ids, Lapse(i) PROVE BatchInv'
  <2>1. /\ lane[i] = "over" /\ lane' = [lane EXCEPT ![i] = "off"] /\ at' = [at EXCEPT ![i] = "ready"]
        /\ pc' = pc /\ scene' = scene /\ UNCHANGED <<batchVars, unburied>>
    BY <1>15 DEF Lapse, Move, Others
  <2>2. JobTypeOK'
    BY <1>t, <2>1 DEF JobTypeOK, batchVars, Lanes, Kept
  <2>3. \A k \in Ids : k # i => Same(k)
    BY <1>t, <2>1 DEF Same, batchVars
  <2>4. at'[i] = "ready" /\ lane'[i] = "off" /\ at[i] = "active"
    BY <1>t, <2>1 DEF JobOK
  <2>5. JobOK(i)' /\ EntryOK(i)'
    BY <1>t, <2>1, <2>4 DEF JobOK, EntryOK, batchVars
  <2> QED BY <1>s, <2>1, <2>2, <2>3, <2>5
<1> QED
  BY <1>0, <1>1, <1>2, <1>3, <1>4, <1>5, <1>6, <1>7, <1>8, <1>9, <1>10, <1>11, <1>12, <1>13, <1>14, <1>15
     DEF Next, Execute, Others, ReturnNode

(* For any number of jobs and chunks, and any retries: no entry of a batch  *)
(* says of a job what has not happened to it, and none is still pending     *)
(* that neither came too early nor is being retried (batch-manager.ts,      *)
(* JobManager.dispatchBatch).                                               *)
THEOREM BatchesHold == Spec => []BatchTrue
<1>1. BatchInv => BatchTrue
  BY DEF BatchInv, BatchTrue, Registered, EntryOK
<1> QED BY <1>1, BatchBegin, BatchStep, PTL DEF Spec

-----------------------------------------------------------------------------
(* Flows.  A node of which there may be two jobs.                           *)
Again(n)   == n \in replayed \/ \E d \in Deps[n] : reports[d] > 1
Started    == \E i \in Ids : pc[i] # "new"
Statuses   == {"pending", "queued", "completed", "failed", "blocked"}

FlowTypeOK ==
  /\ status \in [Nodes -> Statuses] /\ nodeOf \in [Ids -> Nodes \cup {NoNode}]
  /\ reports \in [Nodes -> Nat]
  /\ scene # "keys" => ~guarded
  /\ scene # "flow" => (\A i \in Ids : nodeOf[i] = NoNode) /\ \A n \in Nodes : status[n] = "pending"

(* A job of a node: what the node depends on has been reported, a job that  *)
(* has reported or settled has left its mark on the node, and a failure is  *)
(* covered only by a job that was dispatched again.                         *)
FlowJob(i) ==
  nodeOf[i] # NoNode =>
    /\ pc[i] \notin {"new", "looking"}
    /\ \A d \in Deps[nodeOf[i]] : reports[d] > 0
    /\ pc[i] \in {"stored", "answered"} => at[i] # "none"
    /\ lane[i] = "told" \/ at[i] \in {"completed", "dead", "old"} =>
         status[nodeOf[i]] \in {"completed", "failed"} \/ nodeOf[i] \in undone
    /\ at[i] \in {"dead", "old"} =>
         status[nodeOf[i]] = "failed" \/ nodeOf[i] \in undone \/ Again(nodeOf[i])

FlowPair(i, j) == i # j /\ nodeOf[i] = nodeOf[j] /\ nodeOf[i] # NoNode => Again(nodeOf[i])

(* A node: it is completed by a report; once it may run it is dispatched;   *)
(* and what is queued has a job that will be executed.                      *)
FlowNode(n) ==
  /\ status[n] = "completed" => reports[n] > 0
  /\ status[n] # "pending" => Started
  /\ scene = "flow" /\ Started /\ status[n] = "pending" /\ (\A d \in Deps[n] : status[d] = "completed") =>
       \E i \in Ids : nodeOf[i] = n /\ pc[i] \in {"hooking", "stored", "rejected"}
  /\ status[n] = "queued" /\ n \notin undone => \E i \in Ids : nodeOf[i] = n /\ at[i] \in {"ready", "active"}
  /\ status[n] = "blocked" =>
       \E i \in Ids : nodeOf[i] # NoNode /\ n \in Descendants({nodeOf[i]}) /\ at[i] \in {"dead", "old"}

FlowInv ==
  /\ FlowTypeOK
  /\ \A i \in Ids : FlowJob(i) /\ \A j \in Ids : FlowPair(i, j)
  /\ \A n \in Nodes : FlowNode(n)

LEMMA FlowBegin == Init => FlowInv
<1> SUFFICES ASSUME Init PROVE FlowInv
  OBVIOUS
<1>1. /\ status = [n \in Nodes |-> "pending"] /\ nodeOf = [i \in Ids |-> NoNode] /\ reports = [n \in Nodes |-> 0]
      /\ pc = [i \in Ids |-> "new"]
      /\ scene # "keys" => ~guarded
  BY DEF Init, FlowInit, DispatchInit
<1>2. FlowTypeOK
  BY <1>1 DEF FlowTypeOK, Statuses
<1>3. \A i \in Ids : FlowJob(i) /\ \A j \in Ids : FlowPair(i, j)
  BY <1>1 DEF FlowJob, FlowPair
<1>4. \A n \in Nodes : FlowNode(n)
  BY <1>1 DEF FlowNode, Started
<1> QED BY <1>2, <1>3, <1>4 DEF FlowInv

(* Where there is no flow, nothing of it ever changes.                      *)
LEMMA NoFlow ==
  ASSUME scene # "flow", FlowTypeOK
  PROVE  FlowInv
BY DEF FlowTypeOK, FlowInv, FlowJob, FlowPair, FlowNode

LEMMA SceneKept == [Next]_vars => scene' = scene /\ guarded' = guarded
<1> SUFFICES ASSUME [Next]_vars PROVE scene' = scene /\ guarded' = guarded
  OBVIOUS
<1>1. ASSUME NEW i \in Ids, DispatchStep(i) PROVE scene' = scene /\ guarded' = guarded
  BY <1>1 DEF DispatchStep, Ask, Query, Conclude, Store, StoreMoves
<1>2. ASSUME NEW i \in Ids, Reject(i) \/ ReturnNode(i) PROVE scene' = scene /\ guarded' = guarded
  BY <1>2 DEF Reject, ReturnNode, Return
<1>3. ASSUME NEW i \in Ids, NEW j \in Ids, RetryFailed(i, j) \/ ReplayNode(i, j) PROVE scene' = scene /\ guarded' = guarded
  BY <1>3 DEF RetryFailed, ReplayNode
<1>4. ASSUME NEW i \in Ids, Execute(i) PROVE scene' = scene /\ guarded' = guarded
  BY <1>4 DEF Execute, Start, Success, Acknowledge, Catch, Bury, BuryRejects, Lapse, dispatchVars
<1>5. CASE SendChunk \/ RegisterChunk \/ StartFlow
  BY <1>5 DEF SendChunk, RegisterChunk, StartFlow, dispatchVars
<1>6. CASE WorkflowStep \/ ScheduleStep \/ ManyStep \/ PluginsStep
  BY <1>6 DEF WorkflowStep, ScheduleStep, ManyStep, PluginsStep, dispatchVars
<1>7. CASE UNCHANGED vars
  BY <1>7 DEF vars, dispatchVars
<1> QED BY <1>1, <1>2, <1>3, <1>4, <1>5, <1>6, <1>7 DEF Next

LEMMA NoFlowStep ==
  ASSUME scene # "flow", FlowTypeOK, BatchInv, [Next]_vars
  PROVE  FlowTypeOK'
<1>0. \A i \in Ids : nodeOf[i] = NoNode
  BY DEF FlowTypeOK
<1>s. scene' = scene /\ guarded' = guarded
  BY SceneKept
<1>u. ASSUME UNCHANGED <<status, nodeOf, reports>> PROVE FlowTypeOK'
  BY <1>u, <1>s DEF FlowTypeOK
<1>1. ASSUME NEW i \in Ids, Execute(i) PROVE FlowTypeOK'
  BY <1>1, <1>0, <1>u DEF Execute, Start, Success, Acknowledge, Catch, Bury, BuryRejects, Lapse, Others, Succeeded, Failed, flowVars
<1>2. ASSUME NEW i \in Ids, ReturnNode(i) PROVE FlowTypeOK'
  BY <1>2, <1>0, <1>u DEF ReturnNode
<1>3. ASSUME NEW i \in Ids, NEW j \in Ids, RetryFailed(i, j), UNCHANGED <<flowVars, appVars, lane, runs, throws, unburied>> PROVE FlowTypeOK'
  BY <1>3, <1>u DEF flowVars
<1>4. ASSUME NEW i \in Ids, \/ DispatchStep(i) /\ UNCHANGED <<Others, lane, runs, throws, unburied>>
                            \/ Reject(i) /\ Throw /\ UNCHANGED <<Others, lane, runs, unburied>> PROVE FlowTypeOK'
  BY <1>4, <1>u DEF flowVars, Others
<1>5. CASE SendChunk /\ UNCHANGED <<flowVars, appVars, lane, runs, throws, unburied>>
  BY <1>5, <1>u DEF flowVars
<1>6. CASE RegisterChunk /\ UNCHANGED <<flowVars, appVars, lane, runs, throws, unburied>>
  BY <1>6, <1>u DEF flowVars
<1>7. CASE WorkflowStep \/ ScheduleStep \/ ManyStep \/ PluginsStep
  BY <1>7, <1>u DEF WorkflowStep, ScheduleStep, ManyStep, PluginsStep, flowVars
<1>8. CASE UNCHANGED vars
  BY <1>8, <1>u DEF vars, flowVars
<1> QED BY <1>1, <1>2, <1>3, <1>4, <1>5, <1>6, <1>7, <1>8 DEF Next, StartFlow, ReplayNode

(* What a step of a flow never takes back.                                  *)
Onward ==
  /\ scene = "flow" /\ scene' = scene
  /\ \A n \in Nodes :
       /\ reports'[n] >= reports[n]
       /\ status[n] \in {"completed", "failed"} => status'[n] \in {"completed", "failed"} \/ n \in undone'
       /\ \A k \in Ids : nodeOf[k] = n /\ at[k] \in {"dead", "old"} /\ status[n] = "failed" =>
            status'[n] = "failed" \/ n \in undone' \/ Again(n)'
  /\ undone \subseteq undone' /\ replayed \subseteq replayed'

LEMMA AgainKept ==
  ASSUME FlowTypeOK, FlowTypeOK', Onward, NEW n \in Nodes, Again(n)
  PROVE  Again(n)'
<1>1. CASE n \in replayed
  BY <1>1 DEF Again, Onward
<1>2. ASSUME NEW d \in Deps[n], reports[d] > 1 PROVE Again(n)'
  <2>1. d \in Nodes
    BY GraphOK
  <2>2. reports'[d] > 1
    BY <1>2, <2>1 DEF Onward, FlowTypeOK
  <2> QED BY <2>2 DEF Again
<1> QED BY <1>1, <1>2 DEF Again

LEMMA FlowJobKept ==
  ASSUME FlowTypeOK, FlowTypeOK', Onward, NEW k \in Ids, FlowJob(k),
         nodeOf'[k] = nodeOf[k], at'[k] = at[k], lane'[k] = lane[k],
         pc'[k] = pc[k] \/ (pc[k] = "stored" /\ pc'[k] = "answered")
  PROVE  FlowJob(k)'
<1> SUFFICES ASSUME nodeOf[k] # NoNode PROVE FlowJob(k)'
  BY DEF FlowJob
<1> DEFINE n == nodeOf[k]
<1>1. n \in Nodes /\ Deps[n] \subseteq Nodes
  BY GraphOK DEF FlowTypeOK
<1>2. \A d \in Deps[n] : reports'[d] > 0
  BY <1>1 DEF FlowJob, Onward, FlowTypeOK
<1>3. lane[k] = "told" \/ at[k] \in {"completed", "dead", "old"} => status'[n] \in {"completed", "failed"} \/ n \in undone'
  BY <1>1 DEF FlowJob, Onward
<1>4. at[k] \in {"dead", "old"} => status'[n] = "failed" \/ n \in undone' \/ Again(n)'
  BY <1>1, AgainKept DEF FlowJob, Onward
<1> QED BY <1>2, <1>3, <1>4 DEF FlowJob

LEMMA FlowPairKept ==
  ASSUME FlowTypeOK, FlowTypeOK', Onward, NEW i \in Ids, NEW j \in Ids, FlowPair(i, j),
         nodeOf'[i] = nodeOf[i], nodeOf'[j] = nodeOf[j]
  PROVE  FlowPair(i, j)'
<1> SUFFICES ASSUME i # j, nodeOf[i] = nodeOf[j], nodeOf[i] # NoNode PROVE Again(nodeOf[i])'
  BY DEF FlowPair
<1>1. nodeOf[i] \in Nodes /\ Again(nodeOf[i])
  BY DEF FlowPair, FlowTypeOK
<1> QED BY <1>1, AgainKept

Hooked == {"hooking", "stored", "rejected"}

(* A step that leaves the nodes alone and changes one job.                  *)
LEMMA FlowOneJob ==
  ASSUME FlowInv, scene = "flow", NEW i \in Ids,
         UNCHANGED <<scene, guarded, status, nodeOf, reports, undone, replayed>>,
         \A k \in Ids : k # i => pc'[k] = pc[k] /\ at'[k] = at[k] /\ lane'[k] = lane[k],
         pc[i] # "new", pc'[i] # "new",
         pc[i] \in Hooked => pc'[i] \in Hooked \/ nodeOf[i] = NoNode,
         at[i] \in {"dead", "old"} => at'[i] \in {"dead", "old"},
         at[i] \in {"ready", "active"} =>
           \/ at'[i] \in {"ready", "active"}
           \/ nodeOf[i] = NoNode \/ status[nodeOf[i]] # "queued" \/ nodeOf[i] \in undone,
         FlowJob(i)'
  PROVE  FlowInv'
<1>1. FlowTypeOK /\ FlowTypeOK'
  BY DEF FlowInv, FlowTypeOK
<1>2. Onward
  BY <1>1 DEF Onward, FlowTypeOK
<1>3. \A k \in Ids : FlowJob(k)'
  BY <1>1, <1>2, FlowJobKept DEF FlowInv
<1>4. \A k, j \in Ids : FlowPair(k, j)'
  BY <1>1, <1>2, FlowPairKept DEF FlowInv
<1>5. ASSUME NEW n \in Nodes PROVE FlowNode(n)'
  <2>1. FlowNode(n)
    BY DEF FlowInv
  <2>2. Started /\ Started'
    BY DEF Started
  <2>3. \A k \in Ids : nodeOf[k] = n /\ pc[k] \in Hooked => pc'[k] \in Hooked
    BY OrchestrationConstantsOK
  <2>4. \A k \in Ids : at[k] \in {"dead", "old"} => at'[k] \in {"dead", "old"}
    OBVIOUS
  <2>5. status[n] = "queued" /\ n \notin undone =>
          \A k \in Ids : nodeOf[k] = n /\ at[k] \in {"ready", "active"} => at'[k] \in {"ready", "active"}
    BY OrchestrationConstantsOK
  <2>6. (status[n] = "completed" => reports[n] > 0)'
    BY <2>1 DEF FlowNode
  <2>7. (scene = "flow" /\ Started /\ status[n] = "pending" /\ (\A d \in Deps[n] : status[d] = "completed") =>
           \E k \in Ids : nodeOf[k] = n /\ pc[k] \in {"hooking", "stored", "rejected"})'
    BY <2>1, <2>2, <2>3 DEF FlowNode, Hooked
  <2>8. (status[n] = "queued" /\ n \notin undone => \E k \in Ids : nodeOf[k] = n /\ at[k] \in {"ready", "active"})'
    BY <2>1, <2>5 DEF FlowNode
  <2>9. (status[n] = "blocked" =>
           \E k \in Ids : nodeOf[k] # NoNode /\ n \in Descendants({nodeOf[k]}) /\ at[k] \in {"dead", "old"})'
    BY <2>1, <2>4 DEF FlowNode
  <2> QED BY <2>2, <2>6, <2>7, <2>8, <2>9 DEF FlowNode
<1> QED BY <1>1, <1>3, <1>4, <1>5 DEF FlowInv

(* What the batch invariant says of a job of a flow.                        *)
LEMMA JobFacts ==
  ASSUME BatchInv, NEW i \in Ids
  PROVE  /\ at[i] \in Kept \cup {"none", "dead", "old"} /\ pc[i] \in Labels /\ lane[i] \in Lanes
         /\ JobOK(i) /\ EntryOK(i)
         /\ at \in [Ids -> Kept \cup {"none", "dead", "old"}] /\ pc \in [Ids -> Labels] /\ lane \in [Ids -> Lanes]
BY DEF BatchInv, JobTypeOK

LEMMA FlowDispatches ==
  ASSUME BatchInv, FlowInv, scene = "flow", NEW i \in Ids,
         \/ Store(i) /\ UNCHANGED <<Others, lane>>
         \/ Reject(i) /\ UNCHANGED <<Others, lane>>
         \/ Start(i) \/ Acknowledge(i) \/ Catch(i) \/ BuryRejects(i) \/ Lapse(i)
  PROVE  FlowInv'
<1>t. /\ at[i] \in Kept \cup {"none", "dead", "old"} /\ JobOK(i) /\ lane[i] \in Lanes
      /\ at \in [Ids -> Kept \cup {"none", "dead", "old"}] /\ pc \in [Ids -> Labels] /\ lane \in [Ids -> Lanes]
      /\ FlowJob(i) /\ FlowTypeOK
  BY JobFacts DEF FlowInv
<1>1. CASE Store(i) /\ UNCHANGED <<Others, lane>>
  <2>1. /\ pc[i] = "hooking" /\ pc' = [pc EXCEPT ![i] = "stored"] /\ at' = [at EXCEPT ![i] = "ready"]
        /\ UNCHANGED <<scene, guarded, status, nodeOf, reports, undone, replayed, lane>>
    BY <1>1 DEF Store, Goto, Move, Others, flowVars
  <2>2. at[i] = "none" /\ lane[i] = "off" /\ at'[i] = "ready" /\ pc'[i] = "stored"
    BY <1>t, <2>1 DEF JobOK
  <2>3. FlowJob(i)'
    BY <1>t, <2>1, <2>2 DEF FlowJob
  <2> QED BY <1>t, <2>1, <2>2, <2>3, FlowOneJob DEF Hooked
<1>2. CASE Reject(i) /\ UNCHANGED <<Others, lane>>
  <2>1. /\ pc[i] = "hooking" /\ pc' = [pc EXCEPT ![i] = "rejected"]
        /\ UNCHANGED <<scene, guarded, at, status, nodeOf, reports, undone, replayed, lane>>
    BY <1>2 DEF Reject, Goto, Others, flowVars
  <2>2. at[i] = "none" /\ lane[i] = "off" /\ pc'[i] = "rejected"
    BY <1>t, <2>1 DEF JobOK
  <2>3. FlowJob(i)'
    BY <1>t, <2>1, <2>2 DEF FlowJob
  <2> QED BY <1>t, <2>1, <2>2, <2>3, FlowOneJob DEF Hooked
<1>3. CASE Start(i)
  <2>1. /\ at[i] = "ready" /\ at' = [at EXCEPT ![i] = "active"] /\ lane' = [lane EXCEPT ![i] = "running"]
        /\ UNCHANGED <<scene, guarded, pc, status, nodeOf, reports, undone, replayed>>
    BY <1>3 DEF Start, Move, Others, flowVars
  <2>2. pc[i] \notin {"new", "looking", "hooking", "rejected"} /\ at'[i] = "active" /\ lane'[i] = "running"
    BY <1>t, <2>1 DEF JobOK
  <2>3. FlowJob(i)'
    BY <1>t, <2>1, <2>2 DEF FlowJob
  <2> QED BY <1>t, <2>1, <2>2, <2>3, FlowOneJob
<1>4. CASE Acknowledge(i)
  <2>1. /\ lane[i] = "told" /\ at' = [at EXCEPT ![i] = "completed"] /\ lane' = [lane EXCEPT ![i] = "off"]
        /\ UNCHANGED <<scene, guarded, pc, status, nodeOf, reports, undone, replayed>>
    BY <1>4 DEF Acknowledge, Move, Others, flowVars
  <2>2. at[i] = "active" /\ pc[i] \notin {"new", "looking", "hooking", "rejected"} /\ at'[i] = "completed" /\ lane'[i] = "off"
    BY <1>t, <2>1 DEF JobOK
  <2>3. FlowJob(i)'
    BY <1>t, <2>1, <2>2 DEF FlowJob
  <2>4. nodeOf[i] = NoNode \/ status[nodeOf[i]] # "queued" \/ nodeOf[i] \in undone
    BY <1>t, <2>1 DEF FlowJob
  <2> QED BY <1>t, <2>1, <2>2, <2>3, <2>4, FlowOneJob
<1>5. CASE Catch(i)
  <2>1. lane[i] \in {"running", "told"}
    BY <1>5 DEF Catch, Throws
  <2>2. /\ lane' = [lane EXCEPT ![i] = lane'[i]] /\ lane'[i] \in {"running", "failing"}
        /\ UNCHANGED <<scene, guarded, at, pc, status, nodeOf, reports, undone, replayed>>
    BY <1>5, <1>t DEF Catch, dispatchVars, Others, flowVars
  <2>3. at[i] = "active" /\ pc[i] \notin {"new", "looking", "hooking", "rejected"}
    BY <1>t, <2>1 DEF JobOK
  <2>4. FlowJob(i)'
    BY <1>t, <2>2, <2>3 DEF FlowJob
  <2> QED BY <1>t, <2>2, <2>3, <2>4, FlowOneJob
<1>6. CASE BuryRejects(i)
  <2>1. /\ lane[i] = "failing" /\ lane' = [lane EXCEPT ![i] = "over"]
        /\ UNCHANGED <<scene, guarded, at, pc, status, nodeOf, reports, undone, replayed>>
    BY <1>6 DEF BuryRejects, dispatchVars, flowVars
  <2>2. at[i] = "active" /\ pc[i] \notin {"new", "looking", "hooking", "rejected"} /\ lane'[i] = "over"
    BY <1>t, <2>1 DEF JobOK
  <2>3. FlowJob(i)'
    BY <1>t, <2>1, <2>2 DEF FlowJob
  <2> QED BY <1>t, <2>1, <2>2, <2>3, FlowOneJob
<1>7. CASE Lapse(i)
  <2>1. /\ lane[i] = "over" /\ at' = [at EXCEPT ![i] = "ready"] /\ lane' = [lane EXCEPT ![i] = "off"]
        /\ UNCHANGED <<scene, guarded, pc, status, nodeOf, reports, undone, replayed>>
    BY <1>7 DEF Lapse, Move, Others, flowVars
  <2>2. at[i] = "active" /\ pc[i] \notin {"new", "looking", "hooking", "rejected"} /\ at'[i] = "ready" /\ lane'[i] = "off"
    BY <1>t, <2>1 DEF JobOK
  <2>3. FlowJob(i)'
    BY <1>t, <2>1, <2>2 DEF FlowJob
  <2> QED BY <1>t, <2>1, <2>2, <2>3, FlowOneJob
<1> QED BY <1>1, <1>2, <1>3, <1>4, <1>5, <1>6, <1>7

LEMMA FlowReturn ==
  ASSUME BatchInv, FlowInv, scene = "flow", NEW i \in Ids, ReturnNode(i), lane' = lane
  PROVE  FlowInv'
<1>t. /\ at[i] \in Kept \cup {"none", "dead", "old"} /\ JobOK(i) /\ pc \in [Ids -> Labels]
      /\ FlowJob(i) /\ FlowTypeOK /\ NoNode \notin Nodes
  BY JobFacts, OrchestrationConstantsOK DEF FlowInv
<1>r. /\ pc[i] = "stored" /\ pc' = [pc EXCEPT ![i] = "answered"]
      /\ UNCHANGED <<scene, guarded, at, nodeOf, reports, replayed>>
  BY DEF ReturnNode, Return, Goto
<1>1. CASE nodeOf[i] = NoNode
  <2>1. UNCHANGED <<status, undone>>
    BY <1>1 DEF ReturnNode
  <2>2. FlowJob(i)'
    BY <1>1, <1>r DEF FlowJob
  <2> QED BY <1>1, <1>r, <1>t, <2>1, <2>2, FlowOneJob
<1>2. CASE nodeOf[i] # NoNode
  <2>0. PICK n \in Nodes : n = nodeOf[i]
    BY <1>2, <1>t DEF FlowTypeOK
  <2>1. /\ status' = [status EXCEPT ![n] = "queued"] /\ undone \subseteq undone'
        /\ status[n] \in {"completed", "failed"} => n \in undone'
        /\ \A m \in Nodes : m # n /\ m \notin undone => m \notin undone'
    BY <1>2, <1>t, <2>0 DEF ReturnNode
  <2>2. n \in Nodes /\ status \in [Nodes -> Statuses]
    BY <1>2, <1>t DEF FlowTypeOK
  <2>3. FlowTypeOK'
    BY <1>r, <1>t, <2>1, <2>2 DEF FlowTypeOK, Statuses
  <2>4. Onward
    BY <1>r, <1>t, <2>1, <2>2 DEF Onward, FlowTypeOK
  <2>5. \A k \in Ids : FlowJob(k)'
    BY <1>r, <1>t, <2>3, <2>4, FlowJobKept DEF FlowInv
  <2>6. \A k, j \in Ids : FlowPair(k, j)'
    BY <1>r, <1>t, <2>3, <2>4, FlowPairKept DEF FlowInv
  <2>7. ASSUME NEW m \in Nodes, m # n PROVE FlowNode(m)'
    <3>1. FlowNode(m) /\ status'[m] = status[m]
      BY <2>1, <2>2, <2>7 DEF FlowInv
    <3>2. Started
      BY <1>r DEF Started
    <3>3. \A d \in Deps[m] : status'[d] = "completed" => status[d] = "completed"
      BY <2>1, <2>2, GraphOK
    <3>4. \A k \in Ids : nodeOf[k] = m => pc'[k] = pc[k]
      BY <1>r, <1>t, <2>0, <2>7
    <3>5. (status[m] = "completed" => reports[m] > 0)'
      BY <1>r, <3>1 DEF FlowNode
    <3>6. (status[m] # "pending" => Started)'
      BY <1>r, <1>t DEF Started
    <3>7. (scene = "flow" /\ Started /\ status[m] = "pending" /\ (\A d \in Deps[m] : status[d] = "completed") =>
             \E k \in Ids : nodeOf[k] = m /\ pc[k] \in {"hooking", "stored", "rejected"})'
      BY <1>r, <3>1, <3>2, <3>3, <3>4 DEF FlowNode
    <3>8. (status[m] = "queued" /\ m \notin undone => \E k \in Ids : nodeOf[k] = m /\ at[k] \in {"ready", "active"})'
      BY <1>r, <2>1, <3>1 DEF FlowNode
    <3>9. (status[m] = "blocked" =>
             \E k \in Ids : nodeOf[k] # NoNode /\ m \in Descendants({nodeOf[k]}) /\ at[k] \in {"dead", "old"})'
      BY <1>r, <3>1 DEF FlowNode
    <3> QED BY <3>5, <3>6, <3>7, <3>8, <3>9 DEF FlowNode
  <2>8. FlowNode(n)'
    <3>1. status'[n] = "queued"
      BY <2>1, <2>2
    <3>2. n \notin undone' => status[n] \notin {"completed", "failed"} /\ n \notin undone
      BY <2>1
    <3>3. n \notin undone' => at[i] \in {"ready", "active"}
      BY <1>2, <1>r, <1>t, <2>0, <3>2 DEF FlowJob, JobOK, Kept
    <3>4. Started'
      BY <1>r, <1>t DEF Started
    <3>5. (status[n] = "queued" /\ n \notin undone => \E k \in Ids : nodeOf[k] = n /\ at[k] \in {"ready", "active"})'
      BY <1>r, <2>0, <3>3
    <3> QED BY <3>1, <3>4, <3>5 DEF FlowNode
  <2>9. \A m \in Nodes : FlowNode(m)'
    BY <2>7, <2>8
  <2> QED BY <2>3, <2>5, <2>6, <2>9 DEF FlowInv
<1> QED BY <1>1, <1>2

LEMMA FlowBury ==
  ASSUME BatchInv, FlowInv, scene = "flow", NEW i \in Ids, Bury(i)
  PROVE  FlowInv'
<1>t. /\ JobOK(i) /\ lane \in [Ids -> Lanes] /\ at \in [Ids -> Kept \cup {"none", "dead", "old"}]
      /\ FlowJob(i) /\ FlowTypeOK /\ NoNode \notin Nodes
  BY JobFacts, OrchestrationConstantsOK DEF FlowInv
<1>r. /\ lane[i] = "failing" /\ lane' = [lane EXCEPT ![i] = "off"] /\ at' = [at EXCEPT ![i] = "dead"]
      /\ UNCHANGED <<scene, guarded, pc, nodeOf, reports, undone, replayed>>
  BY DEF Bury, Failed, Move
<1>a. at[i] = "active" /\ pc[i] \notin {"new", "looking", "hooking", "rejected"} /\ at'[i] = "dead" /\ lane'[i] = "off"
  BY <1>r, <1>t DEF JobOK
<1>1. CASE nodeOf[i] = NoNode
  <2>1. status' = status
    BY <1>1 DEF Bury, Failed
  <2>2. FlowJob(i)'
    BY <1>1, <1>r DEF FlowJob
  <2> QED BY <1>1, <1>r, <1>t, <1>a, <2>1, <2>2, FlowOneJob
<1>2. CASE nodeOf[i] # NoNode
  <2> DEFINE n == nodeOf[i]
  <2>1. status' = [m \in Nodes |-> IF m = n THEN "failed"
                                   ELSE IF Atomic /\ m \in Descendants({n}) /\ status[m] = "pending" THEN "blocked"
                                   ELSE status[m]]
    BY <1>2 DEF Bury, Failed
  <2>2. n \in Nodes /\ status \in [Nodes -> Statuses]
    BY <1>2, <1>t DEF FlowTypeOK
  <2>3. /\ status'[n] = "failed"
        /\ \A m \in Nodes \ {n} : \/ status'[m] = status[m]
                                  \/ status[m] = "pending" /\ status'[m] = "blocked" /\ m \in Descendants({n})
    BY <2>1, <2>2
  <2>4. FlowTypeOK'
    BY <1>r, <1>t, <2>1, <2>2 DEF FlowTypeOK, Statuses
  <2>5. Onward
    BY <1>r, <1>t, <2>3 DEF Onward, FlowTypeOK
  <2>6. \A k \in Ids : k # i => FlowJob(k)'
    BY <1>r, <1>t, <2>4, <2>5, FlowJobKept DEF FlowInv
  <2>7. FlowJob(i)'
    BY <1>2, <1>r, <1>t, <1>a, <2>3 DEF FlowJob
  <2>8. \A k, j \in Ids : FlowPair(k, j)'
    BY <1>r, <1>t, <2>4, <2>5, FlowPairKept DEF FlowInv
  <2>9. ASSUME NEW m \in Nodes PROVE FlowNode(m)'
    <3>1. FlowNode(m) /\ Started /\ Started'
      BY <1>r, <1>a DEF FlowInv, Started
    <3>2. \A d \in Deps[m] : status'[d] = "completed" => status[d] = "completed"
      BY <2>3, GraphOK
    <3>3. status'[m] \in {"pending", "completed", "queued"} => m # n /\ status'[m] = status[m]
      BY <2>3
    <3>4. (status[m] = "completed" => reports[m] > 0)'
      BY <1>r, <3>1, <3>3 DEF FlowNode
    <3>5. (scene = "flow" /\ Started /\ status[m] = "pending" /\ (\A d \in Deps[m] : status[d] = "completed") =>
             \E k \in Ids : nodeOf[k] = m /\ pc[k] \in {"hooking", "stored", "rejected"})'
      BY <1>r, <3>1, <3>2, <3>3 DEF FlowNode
    <3>6. (status[m] = "queued" /\ m \notin undone => \E k \in Ids : nodeOf[k] = m /\ at[k] \in {"ready", "active"})'
      BY <1>r, <1>t, <3>1, <3>3 DEF FlowNode
    <3>7. status'[m] = "blocked" =>
            \E k \in Ids : nodeOf[k] # NoNode /\ m \in Descendants({nodeOf[k]}) /\ at'[k] \in {"dead", "old"}
      <4>1. CASE status[m] = "blocked"
        BY <1>r, <1>t, <1>a, <3>1, <4>1 DEF FlowNode
      <4>2. CASE status[m] # "blocked" /\ status'[m] = "blocked"
        BY <1>2, <1>a, <2>3, <4>2
      <4> QED BY <4>1, <4>2
    <3> QED BY <1>r, <3>1, <3>4, <3>5, <3>6, <3>7 DEF FlowNode
  <2> QED BY <2>4, <2>6, <2>7, <2>8, <2>9 DEF FlowInv
<1> QED BY <1>1, <1>2

(* What dispatching a set of nodes does to the jobs: a node takes one fresh *)
(* id, and the other jobs stay as they were.                                *)
Taken(S, k) == pc[k] = "new" /\ pc'[k] = "hooking" /\ nodeOf'[k] \in S
Left(k)     == pc'[k] = pc[k] /\ nodeOf'[k] = nodeOf[k]

LEMMA NodesDispatched ==
  ASSUME pc \in [Ids -> Labels], nodeOf \in [Ids -> Nodes \cup {NoNode}],
         NEW S, S \subseteq Nodes, NEW f, DispatchNodes(S, f)
  PROVE  /\ pc' \in [Ids -> Labels] /\ nodeOf' \in [Ids -> Nodes \cup {NoNode}]
         /\ \A k \in Ids : Taken(S, k) \/ Left(k)
         /\ \A m \in S : \E k \in Ids : Taken(S, k) /\ nodeOf'[k] = m
         /\ \A j, k \in Ids : Taken(S, j) /\ Taken(S, k) /\ nodeOf'[j] = nodeOf'[k] => j = k
<1>1. \A m, n \in S : f[n] \in Ids /\ pc[f[n]] = "new" /\ (n # m => f[n] # f[m])
  BY DEF DispatchNodes, Fresh
<1>2. \A k \in Ids : /\ pc'[k] = IF \E n \in S : f[n] = k THEN "hooking" ELSE pc[k]
                     /\ nodeOf'[k] = IF \E n \in S : f[n] = k THEN CHOOSE n \in S : f[n] = k ELSE nodeOf[k]
  BY DEF DispatchNodes
<1>3. ASSUME NEW k \in Ids PROVE \/ \E n \in S : f[n] = k /\ pc'[k] = "hooking" /\ nodeOf'[k] = n
                                 \/ Left(k) /\ ~\E n \in S : f[n] = k
  BY <1>2 DEF Left
<1>4. \A m \in S : nodeOf'[f[m]] = m /\ pc'[f[m]] = "hooking"
  BY <1>1, <1>3
<1>5. ASSUME NEW k \in Ids PROVE (Taken(S, k) /\ f[nodeOf'[k]] = k) \/ (Left(k) /\ ~Taken(S, k))
  <2>1. ASSUME NEW n \in S, f[n] = k PROVE Taken(S, k) /\ f[nodeOf'[k]] = k
    <3>1. nodeOf'[k] = n /\ pc'[k] = "hooking" /\ pc[k] = "new"
      BY <1>1, <1>4, <2>1
    <3> QED BY <2>1, <3>1 DEF Taken
  <2>2. CASE ~\E n \in S : f[n] = k
    <3>1. Left(k)
      BY <1>3, <2>2
    <3> QED BY <3>1 DEF Left, Taken
  <2> QED BY <2>1, <2>2
<1>6. pc' = [k \in Ids |-> IF \E n \in S : f[n] = k THEN "hooking" ELSE pc[k]]
  BY DEF DispatchNodes
<1>7. pc' \in [Ids -> Labels]
  BY <1>6 DEF Labels
<1>8. nodeOf' = [k \in Ids |-> IF \E n \in S : f[n] = k THEN CHOOSE n \in S : f[n] = k ELSE nodeOf[k]]
  BY DEF DispatchNodes
<1>9. nodeOf' \in [Ids -> Nodes \cup {NoNode}]
  <2>1. \A k \in Ids : (IF \E n \in S : f[n] = k THEN CHOOSE n \in S : f[n] = k ELSE nodeOf[k]) \in Nodes \cup {NoNode}
    OBVIOUS
  <2> QED BY <1>8, <2>1
<1>10. \A m \in S : \E k \in Ids : Taken(S, k) /\ nodeOf'[k] = m
  BY <1>1, <1>4 DEF Taken
<1> QED BY <1>5, <1>7, <1>9, <1>10

LEMMA FlowStart ==
  ASSUME BatchInv, FlowInv, scene = "flow", StartFlow, lane' = lane
  PROVE  FlowInv'
<1>t. FlowTypeOK /\ NoNode \notin Nodes /\ pc \in [Ids -> Labels] /\ nodeOf \in [Ids -> Nodes \cup {NoNode}]
  BY OrchestrationConstantsOK DEF FlowInv, FlowTypeOK, BatchInv, JobTypeOK
<1>n. \A k \in Ids : pc[k] = "new" /\ nodeOf[k] = NoNode
  BY DEF StartFlow, FlowInv, FlowJob
<1>r. UNCHANGED <<scene, guarded, at, status, reports, undone, replayed>>
  BY DEF StartFlow
<1>p. \A m \in Nodes : FlowNode(m) /\ status[m] = "pending"
  BY <1>n DEF FlowInv, FlowNode, Started
<1>a. \A k \in Ids : at[k] = "none" /\ lane[k] = "off"
  <2>1. \A k \in Ids : JobOK(k) /\ lane[k] \in Lanes
    BY JobFacts
  <2> QED BY <1>n, <2>1 DEF JobOK, Lanes
<1>1. PICK f : DispatchNodes(Roots, f)
  BY DEF StartFlow
<1>2. /\ pc' \in [Ids -> Labels] /\ nodeOf' \in [Ids -> Nodes \cup {NoNode}]
      /\ \A k \in Ids : Taken(Roots, k) \/ Left(k)
      /\ \A m \in Roots : \E k \in Ids : Taken(Roots, k) /\ nodeOf'[k] = m
      /\ \A j, k \in Ids : Taken(Roots, j) /\ Taken(Roots, k) /\ nodeOf'[j] = nodeOf'[k] => j = k
  BY <1>1, <1>t, NodesDispatched DEF Roots
<1>3. FlowTypeOK'
  BY <1>r, <1>t, <1>2 DEF FlowTypeOK
<1>4. ASSUME NEW k \in Ids PROVE FlowJob(k)'
  <2>1. CASE Taken(Roots, k)
    BY <1>a, <1>r, <2>1 DEF Taken, FlowJob, Roots
  <2>2. CASE Left(k)
    BY <1>n, <2>2 DEF Left, FlowJob
  <2> QED BY <1>2, <2>1, <2>2
<1>5. ASSUME NEW j \in Ids, NEW k \in Ids PROVE FlowPair(j, k)'
  BY <1>2, <1>n, <1>t DEF FlowPair, Left, Taken, Roots
<1>6. ASSUME NEW m \in Nodes PROVE FlowNode(m)'
  <2>1. status'[m] = "pending"
    BY <1>p, <1>r
  <2>2. (\A d \in Deps[m] : status'[d] = "completed") => m \in Roots
    BY <1>p, <1>r, GraphOK DEF Roots
  <2>3. (\A d \in Deps[m] : status'[d] = "completed") => \E k \in Ids : nodeOf'[k] = m /\ pc'[k] = "hooking"
    BY <1>2, <2>2 DEF Taken
  <2> QED BY <2>1, <2>3 DEF FlowNode
<1> QED BY <1>3, <1>4, <1>5, <1>6 DEF FlowInv

LEMMA FlowReplay ==
  ASSUME BatchInv, FlowInv, scene = "flow", NEW i \in Ids, NEW j \in Ids, ReplayNode(i, j), lane' = lane
  PROVE  FlowInv'
<1>t. /\ FlowTypeOK /\ nodeOf \in [Ids -> Nodes \cup {NoNode}]
      /\ at \in [Ids -> Kept \cup {"none", "dead", "old"}] /\ pc \in [Ids -> Labels]
      /\ JobOK(i) /\ JobOK(j) /\ lane[j] \in Lanes /\ FlowJob(i) /\ FlowJob(j)
  BY JobFacts DEF FlowInv, FlowTypeOK
<1>r. /\ at[i] = "dead" /\ pc[j] = "new" /\ pc' = [pc EXCEPT ![j] = "answered"]
      /\ at' = [at EXCEPT ![i] = "old", ![j] = "ready"]
      /\ nodeOf' = [nodeOf EXCEPT ![j] = nodeOf[i]] /\ replayed' = replayed \cup {nodeOf[i]}
      /\ UNCHANGED <<scene, guarded, status, reports, undone>>
  BY DEF ReplayNode, Replay, Goto, Fresh
<1>a. /\ i # j /\ pc[i] # "new" /\ at[j] = "none" /\ lane[j] = "off" /\ nodeOf[j] = NoNode
      /\ at'[i] = "old" /\ at'[j] = "ready" /\ pc'[j] = "answered" /\ pc'[i] = pc[i] /\ nodeOf'[j] = nodeOf[i]
  BY <1>r, <1>t DEF JobOK, FlowJob, Lanes
<1>b. \A k \in Ids : k # i /\ k # j => at'[k] = at[k] /\ pc'[k] = pc[k] /\ nodeOf'[k] = nodeOf[k]
  BY <1>r, <1>t
<1>c. nodeOf'[i] = nodeOf[i]
  BY <1>a, <1>r, <1>t
<1>1. FlowTypeOK'
  BY <1>r, <1>t DEF FlowTypeOK
<1>2. Onward
  BY <1>r, <1>t DEF Onward, FlowTypeOK
<1>3. FlowJob(i)'
  <2> SUFFICES ASSUME nodeOf[i] # NoNode PROVE FlowJob(i)'
    BY <1>c DEF FlowJob
  <2>1. Again(nodeOf[i])'
    BY <1>c, <1>r DEF Again
  <2> QED BY <1>a, <1>c, <1>r, <1>t, <2>1 DEF FlowJob
<1>4. FlowJob(j)'
  BY <1>a, <1>c, <1>r, <1>t DEF FlowJob
<1>5. \A k \in Ids : k # i /\ k # j => FlowJob(k)'
  BY <1>1, <1>2, <1>b, <1>t, FlowJobKept DEF FlowInv
<1>6. ASSUME NEW k \in Ids, NEW l \in Ids PROVE FlowPair(k, l)'
  <2>1. CASE k # j /\ l # j
    <3>1. FlowPair(k, l) /\ nodeOf'[k] = nodeOf[k] /\ nodeOf'[l] = nodeOf[l]
      BY <1>b, <1>c, <2>1 DEF FlowInv
    <3> QED BY <1>1, <1>2, <1>t, <3>1, FlowPairKept
  <2>2. CASE k = j \/ l = j
    <3>1. nodeOf'[j] \in replayed'
      BY <1>a, <1>r
    <3> QED BY <2>2, <3>1 DEF FlowPair, Again
  <2> QED BY <2>1, <2>2
<1>7. ASSUME NEW m \in Nodes PROVE FlowNode(m)'
  <2>1. FlowNode(m) /\ Started /\ Started'
    BY <1>a DEF FlowInv, Started
  <2>2. \A k \in Ids : nodeOf[k] # NoNode => nodeOf'[k] = nodeOf[k]
    BY <1>a, <1>b, <1>c
  <2>3. \A k \in Ids : nodeOf[k] # NoNode => pc'[k] = pc[k]
    BY <1>a, <1>b
  <2>4. \A k \in Ids : at[k] \in {"dead", "old"} => at'[k] \in {"dead", "old"}
    BY <1>a, <1>b
  <2>5. \A k \in Ids : at[k] \in {"ready", "active"} => at'[k] = at[k]
    BY <1>a, <1>b, <1>r
  <2>6. m # NoNode
    BY OrchestrationConstantsOK
  <2>7. (scene = "flow" /\ Started /\ status[m] = "pending" /\ (\A d \in Deps[m] : status[d] = "completed") =>
           \E k \in Ids : nodeOf[k] = m /\ pc[k] \in {"hooking", "stored", "rejected"})'
    BY <1>r, <2>1, <2>2, <2>3, <2>6 DEF FlowNode
  <2>8. (status[m] = "queued" /\ m \notin undone => \E k \in Ids : nodeOf[k] = m /\ at[k] \in {"ready", "active"})'
    BY <1>r, <2>1, <2>2, <2>5, <2>6 DEF FlowNode
  <2>9. (status[m] = "blocked" =>
           \E k \in Ids : nodeOf[k] # NoNode /\ m \in Descendants({nodeOf[k]}) /\ at[k] \in {"dead", "old"})'
    BY <1>r, <2>1, <2>2, <2>4 DEF FlowNode
  <2>10. (status[m] = "completed" => reports[m] > 0)'
    BY <1>r, <2>1 DEF FlowNode
  <2> QED BY <2>1, <2>7, <2>8, <2>9, <2>10 DEF FlowNode
<1> QED BY <1>1, <1>3, <1>4, <1>5, <1>6, <1>7 DEF FlowInv

LEMMA FlowSuccess ==
  ASSUME BatchInv, FlowInv, scene = "flow", NEW i \in Ids, Success(i)
  PROVE  FlowInv'
<1>t. /\ FlowTypeOK /\ NoNode \notin Nodes /\ nodeOf \in [Ids -> Nodes \cup {NoNode}] /\ status \in [Nodes -> Statuses]
      /\ reports \in [Nodes -> Nat]
      /\ pc \in [Ids -> Labels] /\ lane \in [Ids -> Lanes] /\ JobOK(i) /\ FlowJob(i)
  BY JobFacts, OrchestrationConstantsOK DEF FlowInv, FlowTypeOK
<1>r. /\ lane[i] = "running" /\ lane' = [lane EXCEPT ![i] = "told"] /\ Succeeded(i)
      /\ UNCHANGED <<scene, guarded, at>>
  BY DEF Success
<1>a. at[i] = "active" /\ pc[i] \notin {"new", "looking", "hooking", "rejected"} /\ lane'[i] = "told"
  BY <1>r, <1>t DEF JobOK
<1>1. CASE nodeOf[i] = NoNode
  <2>1. UNCHANGED <<pc, status, nodeOf, reports, undone, replayed>>
    BY <1>1, <1>r DEF Succeeded, flowVars
  <2>2. FlowJob(i)'
    BY <1>1, <2>1 DEF FlowJob
  <2> QED BY <1>a, <1>r, <1>t, <2>1, <2>2, FlowOneJob
<1>2. ASSUME NEW n \in Nodes, n = nodeOf[i] PROVE FlowInv'
  <2> DEFINE S == ReadyChildren(n)
  <2>1. /\ status' = [status EXCEPT ![n] = "completed"] /\ reports' = [reports EXCEPT ![n] = @ + 1]
        /\ UNCHANGED <<undone, replayed>>
        /\ \E f : DispatchNodes(S, f)
    BY <1>2, <1>r, <1>t DEF Succeeded
  <2>2. S \subseteq Nodes
    BY DEF ReadyChildren, Children
  <2>3. /\ pc' \in [Ids -> Labels] /\ nodeOf' \in [Ids -> Nodes \cup {NoNode}]
        /\ \A k \in Ids : Taken(S, k) \/ Left(k)
        /\ \A m \in S : \E k \in Ids : Taken(S, k) /\ nodeOf'[k] = m
        /\ \A j, k \in Ids : Taken(S, j) /\ Taken(S, k) /\ nodeOf'[j] = nodeOf'[k] => j = k
    BY <1>t, <2>1, <2>2, NodesDispatched
  <2>4. \A m \in S : /\ m \in Nodes /\ n \in Deps[m] /\ status[m] = "pending"
                     /\ \A d \in Deps[m] \ {n} : status[d] = "completed"
    BY DEF ReadyChildren, Children
  <2>5. \A m \in Nodes : n \in Deps[m] /\ status[m] = "pending" /\ (\A d \in Deps[m] \ {n} : status[d] = "completed") => m \in S
    BY DEF ReadyChildren, Children
  <2> HIDE DEF S
  <2>6. FlowTypeOK'
    BY <1>r, <1>t, <2>1, <2>3 DEF FlowTypeOK, Statuses
  <2>7. Onward
    <3>1. ASSUME NEW k \in Ids, nodeOf[k] = n, at[k] \in {"dead", "old"} PROVE Again(n)'
      <4>1. Again(n)
        BY <1>2, <1>a, <1>t, <3>1 DEF FlowInv, FlowPair
      <4>2. \A d \in Deps[n] : reports[d] > 1 => reports'[d] > 1
        BY <1>t, <2>1, GraphOK
      <4> QED BY <2>1, <4>1, <4>2 DEF Again
    <3>2. \A m \in Nodes : reports'[m] >= reports[m] /\ (m # n => status'[m] = status[m])
      BY <1>t, <2>1
    <3>3. status'[n] = "completed"
      BY <1>t, <2>1
    <3> QED BY <1>r, <2>1, <3>1, <3>2, <3>3 DEF Onward
  <2>8. status'[n] = "completed" /\ reports'[n] = reports[n] + 1
    BY <1>t, <2>1
  <2>9. \A m \in Nodes \ {n} : status'[m] = status[m] /\ reports'[m] = reports[m]
    BY <1>t, <2>1
  <2>10. \A k \in Ids : pc[k] = "new" => nodeOf[k] = NoNode /\ at[k] = "none" /\ lane[k] = "off"
    <3>1. \A k \in Ids : JobOK(k) /\ FlowJob(k) /\ lane[k] \in Lanes
      BY JobFacts DEF FlowInv
    <3> QED BY <3>1 DEF JobOK, FlowJob, Lanes
  <2>11. ~Taken(S, i) /\ Left(i)
    BY <1>a, <2>3 DEF Taken
  <2>12. FlowJob(i)'
    <3>1. \A d \in Deps[n] : reports'[d] > 0
      BY <1>2, <1>t, <2>8, <2>9, GraphOK DEF FlowJob
    <3>2. pc'[i] = pc[i] /\ nodeOf'[i] = n /\ at'[i] = "active"
      BY <1>2, <1>a, <1>r, <2>11 DEF Left
    <3> QED BY <1>a, <2>8, <3>1, <3>2 DEF FlowJob
  <2>13. ASSUME NEW k \in Ids, Taken(S, k) PROVE FlowJob(k)'
    <3>1. nodeOf'[k] \in S /\ pc'[k] = "hooking" /\ at'[k] = "none" /\ lane'[k] = "off"
      BY <1>r, <1>t, <2>10, <2>11, <2>13 DEF Taken
    <3>2. ASSUME NEW d \in Deps[nodeOf'[k]] PROVE reports'[d] > 0
      <4>1. d \in Nodes
        BY <2>4, <3>1, GraphOK
      <4>2. CASE d = n
        BY <1>t, <2>8, <4>2
      <4>3. CASE d # n
        <5>1. status[d] = "completed" /\ FlowNode(d)
          BY <2>4, <3>1, <4>1, <4>3 DEF FlowInv
        <5> QED BY <2>9, <4>1, <4>3, <5>1 DEF FlowNode
      <4> QED BY <4>2, <4>3
    <3> QED BY <3>1, <3>2 DEF FlowJob
  <2>14. ASSUME NEW k \in Ids, k # i, Left(k) PROVE FlowJob(k)'
    <3>1. FlowJob(k) /\ at'[k] = at[k] /\ lane'[k] = lane[k]
      BY <1>r, <1>t, <2>14 DEF FlowInv
    <3> QED BY <1>t, <2>6, <2>7, <2>14, <3>1, FlowJobKept DEF Left
  <2>15. ASSUME NEW j \in Ids, NEW k \in Ids, Taken(S, j), Left(k) PROVE FlowPair(j, k)' /\ FlowPair(k, j)'
    <3> SUFFICES ASSUME nodeOf'[k] = nodeOf'[j], nodeOf'[k] # NoNode PROVE Again(nodeOf[j])' /\ Again(nodeOf[k])'
      BY DEF FlowPair
    <3>1. nodeOf'[j] \in S /\ nodeOf'[k] = nodeOf[k]
      BY <2>15 DEF Taken, Left
    <3>2. n \in Deps[nodeOf[k]] /\ FlowJob(k)
      BY <2>4, <3>1 DEF FlowInv
    <3>3. reports'[n] > 1
      BY <1>t, <2>8, <3>1, <3>2 DEF FlowJob
    <3> QED BY <3>1, <3>2, <3>3 DEF Again
  <2>16. ASSUME NEW j \in Ids, NEW k \in Ids PROVE FlowPair(j, k)'
    <3>1. CASE Left(j) /\ Left(k)
      <4>1. FlowPair(j, k)
        BY DEF FlowInv
      <4> QED BY <1>t, <2>6, <2>7, <3>1, <4>1, FlowPairKept DEF Left
    <3>2. CASE Taken(S, j) /\ Taken(S, k)
      BY <2>3, <3>2 DEF FlowPair
    <3> QED BY <2>3, <2>15, <3>1, <3>2
  <2>17. ASSUME NEW m \in Nodes PROVE FlowNode(m)'
    <3>1. FlowNode(m) /\ Started
      BY <1>a DEF FlowInv, Started
    <3>2. Started'
      BY <1>a, <2>11 DEF Started, Left
    <3>3. \A k \in Ids : nodeOf[k] # NoNode => Left(k)
      BY <2>3, <2>10 DEF Taken
    <3>4. (status[m] = "completed" => reports[m] > 0)'
      BY <1>t, <2>8, <2>9, <3>1 DEF FlowNode
    <3>5. ASSUME status'[m] = "pending", \A d \in Deps[m] : status'[d] = "completed"
          PROVE  \E k \in Ids : nodeOf'[k] = m /\ pc'[k] \in {"hooking", "stored", "rejected"}
      <4>1. m # n /\ status[m] = "pending"
        BY <2>8, <2>9, <3>5
      <4>2. \A d \in Deps[m] \ {n} : status[d] = "completed"
        BY <2>9, <3>5, GraphOK
      <4>3. CASE n \in Deps[m]
        BY <2>3, <2>5, <4>1, <4>2, <4>3 DEF Taken
      <4>4. CASE n \notin Deps[m]
        <5>1. PICK k \in Ids : nodeOf[k] = m /\ pc[k] \in {"hooking", "stored", "rejected"}
          BY <3>1, <4>1, <4>2, <4>4 DEF FlowNode
        <5>2. Left(k)
          BY <1>t, <3>3, <5>1
        <5> QED BY <5>1, <5>2 DEF Left
      <4> QED BY <4>3, <4>4
    <3>6. ASSUME status'[m] = "queued", m \notin undone'
          PROVE  \E k \in Ids : nodeOf'[k] = m /\ at'[k] \in {"ready", "active"}
      <4>1. m # n /\ status[m] = "queued" /\ m \notin undone
        BY <2>1, <2>8, <2>9, <3>6
      <4>2. PICK k \in Ids : nodeOf[k] = m /\ at[k] \in {"ready", "active"}
        BY <3>1, <4>1 DEF FlowNode
      <4>3. Left(k)
        BY <1>t, <3>3, <4>2
      <4> QED BY <1>r, <4>2, <4>3 DEF Left
    <3>7. ASSUME status'[m] = "blocked"
          PROVE  \E k \in Ids : nodeOf'[k] # NoNode /\ m \in Descendants({nodeOf'[k]}) /\ at'[k] \in {"dead", "old"}
      <4>1. status[m] = "blocked"
        BY <2>8, <2>9, <3>7
      <4>2. PICK k \in Ids : nodeOf[k] # NoNode /\ m \in Descendants({nodeOf[k]}) /\ at[k] \in {"dead", "old"}
        BY <3>1, <4>1 DEF FlowNode
      <4>3. Left(k)
        BY <3>3, <4>2
      <4> QED BY <1>r, <4>2, <4>3 DEF Left
    <3> QED BY <3>2, <3>4, <3>5, <3>6, <3>7 DEF FlowNode
  <2>18. \A k \in Ids : FlowJob(k)'
    BY <2>3, <2>12, <2>13, <2>14
  <2> QED BY <2>6, <2>16, <2>17, <2>18 DEF FlowInv
<1> QED BY <1>1, <1>2, <1>t

LEMMA FlowStep == BatchInv /\ FlowInv /\ [Next]_vars => FlowInv'
<1> SUFFICES ASSUME BatchInv, FlowInv, [Next]_vars PROVE FlowInv'
  OBVIOUS
<1>s. scene' = scene /\ guarded' = guarded
  BY SceneKept
<1>1. CASE scene # "flow"
  <2>1. FlowTypeOK'
    BY <1>1, NoFlowStep DEF FlowInv
  <2>2. (scene # "flow" /\ FlowTypeOK => FlowInv)'
    BY NoFlow, PTL
  <2> QED BY <1>1, <1>s, <2>1, <2>2
<1>2. CASE scene = "flow"
  <2>u. ASSUME UNCHANGED <<scene, guarded, at, pc, lane, flowVars>> PROVE FlowInv'
    <3>1. FlowTypeOK'
      BY <2>u DEF FlowInv, FlowTypeOK, flowVars
    <3>2. \A i \in Ids : FlowJob(i)'
      BY <2>u DEF FlowInv, FlowJob, Again, flowVars
    <3>3. \A i, j \in Ids : FlowPair(i, j)'
      BY <2>u DEF FlowInv, FlowPair, Again, flowVars
    <3>4. \A n \in Nodes : FlowNode(n)'
      BY <2>u DEF FlowInv, FlowNode, Started, flowVars
    <3> QED BY <3>1, <3>2, <3>3, <3>4 DEF FlowInv
  <2>e. \A k \in Ids : entry[k] = "none" /\ unsent = <<>> /\ sent = {}
    BY <1>2, JobFacts DEF BatchInv, EntryOK
  <2>1. ASSUME NEW i \in Ids, DispatchStep(i), UNCHANGED <<Others, lane, runs, throws, unburied>> PROVE FlowInv'
    <3>1. pc[i] # "looking"
      BY <1>2, JobFacts DEF JobOK
    <3>2. Store(i)
      BY <1>2, <2>1, <3>1 DEF DispatchStep, Ask, Conclude, Query, StoreMoves
    <3> QED BY <1>2, <2>1, <3>2, FlowDispatches
  <2>2. ASSUME NEW i \in Ids, Reject(i) /\ Throw /\ UNCHANGED <<Others, lane, runs, unburied>> PROVE FlowInv'
    BY <1>2, <2>2, FlowDispatches
  <2>3. ASSUME NEW i \in Ids, ReturnNode(i) /\ UNCHANGED <<batchVars, appVars, lane, runs, throws, unburied>> PROVE FlowInv'
    BY <1>2, <2>3, FlowReturn
  <2>4. ASSUME NEW i \in Ids, NEW j \in Ids, ReplayNode(i, j) /\ UNCHANGED <<batchVars, appVars, lane, runs, throws, unburied>> PROVE FlowInv'
    BY <1>2, <2>4, FlowReplay
  <2>5. ASSUME NEW i \in Ids, NEW j \in Ids, RetryFailed(i, j) PROVE FALSE
    BY <2>e, <2>5 DEF RetryFailed
  <2>6. ASSUME NEW i \in Ids, Execute(i) PROVE FlowInv'
    BY <1>2, <2>6, FlowDispatches, FlowSuccess, FlowBury DEF Execute
  <2>7. CASE SendChunk \/ RegisterChunk
    BY <1>2, <2>7 DEF SendChunk, RegisterChunk, BatchInv
  <2>8. CASE StartFlow /\ UNCHANGED <<batchVars, appVars, lane, runs, throws, unburied>>
    BY <1>2, <2>8, FlowStart
  <2>9. CASE WorkflowStep \/ ScheduleStep \/ ManyStep \/ PluginsStep
    BY <1>2, <2>9 DEF WorkflowStep, ScheduleStep, ManyStep, PluginsStep
  <2>10. CASE UNCHANGED vars
    BY <2>10, <2>u DEF vars, dispatchVars, batchVars
  <2> QED BY <2>1, <2>2, <2>3, <2>4, <2>5, <2>6, <2>7, <2>8, <2>9, <2>10 DEF Next
<1> QED BY <1>1, <1>2

LEMMA TwoMembers ==
  ASSUME NEW S, NEW x \in S, Cardinality(S) > 1
  PROVE  \E y \in S : y # x
<1> SUFFICES ASSUME \A y \in S : y = x PROVE FALSE
  OBVIOUS
<1>1. S = {x}
  OBVIOUS
<1>2. Cardinality(S) = 1
  BY <1>1, FS_Singleton
<1> QED BY <1>2

LEMMA FlowInOrder == FlowInv => FlowOrder
<1> SUFFICES ASSUME FlowInv, NEW n \in Nodes, JobsOf(n) # {}
             PROVE  /\ \A d \in Deps[n] : reports[d] > 0
                    /\ Cardinality(JobsOf(n)) > 1 => n \in replayed \/ \E d \in Deps[n] : reports[d] > 1
  BY DEF FlowOrder
<1>1. PICK i \in JobsOf(n) : TRUE
  OBVIOUS
<1>2. i \in Ids /\ nodeOf[i] = n /\ n # NoNode
  BY <1>1, OrchestrationConstantsOK DEF JobsOf
<1>3. \A d \in Deps[n] : reports[d] > 0
  BY <1>2 DEF FlowInv, FlowJob
<1>4. ASSUME Cardinality(JobsOf(n)) > 1 PROVE Again(n)
  <2>1. PICK j \in JobsOf(n) : j # i
    BY <1>1, <1>4, TwoMembers
  <2>2. j \in Ids /\ nodeOf[j] = n
    BY DEF JobsOf
  <2> QED BY <1>2, <2>1, <2>2 DEF FlowInv, FlowPair
<1> QED BY <1>3, <1>4 DEF Again

LEMMA FlowAtRest == BatchInv /\ FlowInv => FlowSettled
<1> SUFFICES ASSUME BatchInv, FlowInv, scene = "flow", Idle, \E i \in Ids : pc[i] # "new", NEW n \in Nodes
             PROVE  /\ status[n] = "pending" =>
                         \/ \E d \in Deps[n] : status[d] # "completed"
                         \/ \E i \in Ids : nodeOf[i] = n /\ pc[i] = "rejected"
                    /\ status[n] = "blocked" =>
                         \E m \in Nodes : n \in Descendants({m}) /\
                           (status[m] = "failed" \/ m \in undone \cup replayed \/ \E d \in Deps[m] : reports[d] > 1)
                    /\ status[n] = "queued" => n \in undone
  BY DEF FlowSettled
<1>1. FlowNode(n) /\ Started /\ FlowTypeOK
  BY DEF FlowInv, Started
<1>2. \A i \in Ids : pc[i] \notin {"hooking", "stored"} /\ at[i] \notin {"ready", "active"}
  BY DEF Idle, Live, Waiting
<1>3. ASSUME status[n] = "blocked"
      PROVE  \E m \in Nodes : n \in Descendants({m}) /\
               (status[m] = "failed" \/ m \in undone \cup replayed \/ \E d \in Deps[m] : reports[d] > 1)
  <2>1. PICK i \in Ids : nodeOf[i] # NoNode /\ n \in Descendants({nodeOf[i]}) /\ at[i] \in {"dead", "old"}
    BY <1>1, <1>3 DEF FlowNode
  <2>2. nodeOf[i] \in Nodes /\ FlowJob(i)
    BY <1>1, <2>1 DEF FlowTypeOK, FlowInv
  <2> QED BY <2>1, <2>2 DEF FlowJob, Again
<1> QED BY <1>1, <1>2, <1>3 DEF FlowNode

(* For any graph, any number of jobs and retries, and whatever rejects: a   *)
(* node is dispatched after everything it depends on has succeeded, a       *)
(* second time only for a success reported twice or a replay, and a flow    *)
(* that is at rest has forgotten no node (JobManager.dispatchFlow).         *)
THEOREM FlowsHold == Spec => []FlowTrue
<1>1. BatchInv /\ FlowInv => FlowTrue
  BY FlowInOrder, FlowAtRest DEF FlowTrue
<1>2. Spec => []BatchInv
  BY BatchBegin, BatchStep, PTL DEF Spec
<1>3. BatchInv /\ FlowInv /\ [Next]_vars => FlowInv'
  BY FlowStep
<1>4. Spec => []FlowInv
  BY <1>2, <1>3, FlowBegin, PTL DEF Spec
<1> QED BY <1>1, <1>2, <1>4, PTL

-----------------------------------------------------------------------------
(* The bundled plugins.                                                     *)
Stages == {"queued", "looking", "marking", "running", "ending", "done", "dead"}

PluginsTypeOK ==
  /\ task \in [Tasks -> Stages]
  /\ time \in 0..MaxTime /\ lastRefillAt \in 0..time /\ tokens \in 0..Capacity
  /\ passed \in [0..MaxTime -> Nat]
  /\ wiped \in BOOLEAN /\ finished \in BOOLEAN

(* As long as no slower mark has wiped it, the mark says that the key is    *)
(* done, and whoever looked after that is not under way.                    *)
Marked ==
  /\ finished => mark = "done"
  /\ \A t \in late : t \in Tasks => task[t] \in {"queued", "looking", "dead"}

(* What has passed since any instant up to the last refill, with the tokens *)
(* that are left, is within what was there and what was refilled since.     *)
Metered ==
  /\ \A v \in 0..MaxTime : v >= lastRefillAt => passed[v] = passed[lastRefillAt]
  /\ \A u \in 0..MaxTime :
       u <= lastRefillAt => Through(u, lastRefillAt) + tokens <= Capacity + (lastRefillAt - u) * RefillRate

PluginsInv == PluginsTypeOK /\ (~wiped => Marked) /\ Metered /\ RateKept

PluginsNext == PluginStep \/ \E t \in Tasks : PluginThrows(t)

LEMMA PluginsFrame == [Next]_vars => [PluginsNext]_pluginVars
<1> SUFFICES ASSUME [Next]_vars PROVE PluginsNext \/ UNCHANGED pluginVars
  OBVIOUS
<1> USE DEF Others, appVars
<1>0. CASE UNCHANGED vars
  BY <1>0 DEF vars
<1>1. ASSUME NEW i \in Ids, Execute(i) PROVE UNCHANGED pluginVars
  BY <1>1 DEF Execute, Start, Success, Acknowledge, Catch, Bury, BuryRejects, Lapse
<1>2. CASE WorkflowStep \/ ScheduleStep \/ ManyStep \/ PluginsStep
  BY <1>2 DEF WorkflowStep, ScheduleStep, ManyStep, PluginsStep, PluginsNext
<1> QED BY <1>0, <1>1, <1>2 DEF Next

LEMMA PluginsBegin == Init => PluginsInv
<1> SUFFICES ASSUME Init PROVE PluginsInv
  OBVIOUS
<1>1. /\ task = [t \in Tasks |-> "queued"] /\ mark = "none" /\ tokens = Capacity /\ lastRefillAt = 0 /\ time = 0
      /\ finished = FALSE /\ late = {} /\ wiped = FALSE /\ passed = [u \in 0..MaxTime |-> 0]
  BY DEF Init, PluginsInit
<1>2. PluginsTypeOK
  <2>1. task \in [Tasks -> Stages] /\ passed \in [0..MaxTime -> Nat] /\ wiped \in BOOLEAN /\ finished \in BOOLEAN
    BY <1>1 DEF Stages
  <2>2. time \in 0..MaxTime /\ lastRefillAt \in 0..time /\ tokens \in 0..Capacity
    BY <1>1, PluginsOK
  <2> QED BY <2>1, <2>2 DEF PluginsTypeOK
<1>3. Marked
  BY <1>1 DEF Marked
<1>4. Metered
  BY <1>1, PluginsOK DEF Metered, Through
<1>5. \A d \in Nat : d * RefillRate \in Nat
  BY PluginsOK
<1>6. \A u, v \in 0..MaxTime : Through(u, v) = 0
  BY <1>1, PluginsOK DEF Through
<1>7. RateKept
  BY <1>5, <1>6, PluginsOK DEF RateKept
<1> QED BY <1>2, <1>3, <1>4, <1>7 DEF PluginsInv

LEMMA Refills ==
  ASSUME NEW p \in Nat, NEW q \in Nat
  PROVE  /\ p * RefillRate \in Nat /\ (p + q) * RefillRate = p * RefillRate + q * RefillRate
         /\ p * RefillRate <= (p + q) * RefillRate
BY PluginsOK

LEMMA MarkedStep ==
  ASSUME PluginsTypeOK, ~wiped => Marked, PluginsNext, ~wiped'
  PROVE  Marked'
<1>t. task \in [Tasks -> Stages]
  BY DEF PluginsTypeOK
<1>1. CASE Pass
  BY <1>1 DEF Pass, Marked
<1>f. ASSUME NEW t \in Tasks, Fail(t)
      PROVE  \A s \in Tasks : task'[s] = task[s] \/ task'[s] \in {"queued", "dead"}
  BY <1>f, <1>t DEF Fail, Goes
<1>g. ASSUME NEW t \in Tasks, NEW s, Goes(t, s) PROVE task'[t] = s /\ \A k \in Tasks \ {t} : task'[k] = task[k]
  BY <1>g, <1>t DEF Goes
<1>2. ASSUME NEW t \in Tasks, Begin(t) PROVE Marked'
  <2>1. UNCHANGED <<mark, finished, late, wiped>>
    BY <1>2 DEF Begin
  <2>2. \A s \in Tasks : task'[s] = task[s] \/ task'[s] \in {"queued", "looking", "dead"}
    BY <1>2, <1>f, <1>g DEF Begin
  <2> QED BY <2>1, <2>2 DEF Marked
<1>3. ASSUME NEW t \in Tasks, Look(t) PROVE Marked'
  <2>1. UNCHANGED <<mark, finished, wiped>> /\ Marked
    BY <1>3 DEF Look
  <2>2. CASE finished
    <3>1. late' = late \cup {t} /\ Fail(t)
      BY <1>3, <2>1, <2>2 DEF Look, Marked
    <3>2. task'[t] \in {"queued", "dead"}
      BY <1>t, <3>1 DEF Fail, Goes
    <3> QED BY <1>f, <2>1, <3>1, <3>2 DEF Marked
  <2>3. CASE ~finished
    <3>1. late' = late \ {t}
      BY <1>3, <2>3 DEF Look
    <3>2. \A s \in Tasks \ {t} : task'[s] = task[s]
      BY <1>3, <1>t DEF Look, Fail, Goes
    <3> QED BY <2>1, <2>3, <3>1, <3>2 DEF Marked
  <2> QED BY <2>2, <2>3
<1>4. ASSUME NEW t \in Tasks, SetProcessing(t) PROVE Marked'
  <2>1. task[t] = "marking" /\ Goes(t, "running") /\ (mark = "done" => t \in late) /\ ~wiped /\ UNCHANGED <<finished, late>>
    BY <1>4 DEF SetProcessing, PluginsTypeOK
  <2>2. t \notin late /\ ~finished
    BY <2>1 DEF Marked
  <2>3. \A k \in Tasks \ {t} : task'[k] = task[k]
    BY <1>g, <2>1
  <2> QED BY <2>1, <2>2, <2>3 DEF Marked
<1>5. ASSUME NEW t \in Tasks, Handled(t) PROVE Marked'
  <2>1. task[t] = "running" /\ UNCHANGED <<mark, finished, late, wiped>> /\ \A k \in Tasks \ {t} : task'[k] = task[k]
    BY <1>5, <1>g DEF Handled
  <2> QED BY <2>1 DEF Marked
<1>6. ASSUME NEW t \in Tasks, SetDone(t) PROVE Marked'
  <2>1. task[t] = "ending" /\ mark' = "done" /\ UNCHANGED <<late, wiped>> /\ \A k \in Tasks \ {t} : task'[k] = task[k]
    BY <1>6, <1>g DEF SetDone
  <2> QED BY <2>1 DEF Marked
<1>7. ASSUME NEW t \in Tasks, PluginThrows(t) PROVE Marked'
  <2>1. (UNCHANGED <<mark, finished>> \/ mark' = "done") /\ UNCHANGED <<late, wiped>>
        /\ \A s \in Tasks : task'[s] = task[s] \/ task'[s] \in {"queued", "dead"}
    BY <1>7, <1>f DEF PluginThrows
  <2> QED BY <2>1 DEF Marked
<1> QED BY <1>1, <1>2, <1>3, <1>4, <1>5, <1>6, <1>7 DEF PluginsNext, PluginStep

LEMMA MeteredStep ==
  ASSUME PluginsTypeOK, Metered, RateKept, NEW t \in Tasks, Begin(t)
  PROVE  /\ lastRefillAt' \in 0..time /\ tokens' \in 0..Capacity /\ passed' \in [0..MaxTime -> Nat]
         /\ Metered' /\ RateKept'
<1> DEFINE won == IF Refilled >= 1 THEN 1 ELSE 0
           L   == lastRefillAt
           D   == time - lastRefillAt
           Now(u, v) == passed'[v] - (IF u = 0 THEN 0 ELSE passed'[u - 1])
<1>t. /\ time \in 0..MaxTime /\ L \in 0..time /\ tokens \in 0..Capacity /\ passed \in [0..MaxTime -> Nat]
      /\ MaxTime \in Nat /\ Capacity \in Nat /\ RefillRate \in Nat /\ D \in Nat
  BY PluginsOK DEF PluginsTypeOK
<1>0. D * RefillRate \in Nat /\ Refilled \in 0..Capacity /\ Refilled <= tokens + D * RefillRate /\ won \in 0..1 /\ won <= Refilled
  BY <1>t, Refills DEF Refilled, Least
<1>1. /\ lastRefillAt' = time /\ tokens' = Refilled - won
      /\ UNCHANGED time
      /\ passed' = [v \in 0..MaxTime |-> IF v >= time THEN passed[v] + won ELSE passed[v]]
  <2>1. CASE Refilled >= 1
    BY <2>1, <1>t DEF Begin, Consume
  <2>2. CASE ~(Refilled >= 1)
    <3>1. passed' = passed /\ won = 0
      BY <2>2 DEF Begin
    <3>2. passed = [v \in 0..MaxTime |-> IF v >= time THEN passed[v] + won ELSE passed[v]]
      BY <1>t, <3>1
    <3> QED BY <2>2, <1>0, <3>1, <3>2 DEF Begin, Consume
  <2> QED BY <2>1, <2>2
<1> HIDE DEF won
<1>2. lastRefillAt' \in 0..time /\ tokens' \in 0..Capacity /\ passed' \in [0..MaxTime -> Nat]
  BY <1>0, <1>1, <1>t
<1>3. \A v \in 0..MaxTime : v >= L => passed[v] = passed[L]
  BY DEF Metered
<1>4. \A v \in 0..MaxTime : v >= time => passed'[v] = passed[L] + won
  BY <1>0, <1>1, <1>3, <1>t
<1>5. \A v \in 0..MaxTime : v < time => passed'[v] = passed[v]
  BY <1>1, <1>t
<1>6. \A v \in 0..MaxTime : (v >= lastRefillAt => passed[v] = passed[lastRefillAt])'
  BY <1>1, <1>4, <1>t
<1>7. ASSUME NEW u \in 0..MaxTime, u <= time
      PROVE  Now(u, time) + tokens' <= Capacity + (time - u) * RefillRate
  <2>0. time - u \in Nat /\ (time - u) * RefillRate \in Nat
    BY <1>7, <1>t, Refills
  <2>1. CASE u <= L
    <3> DEFINE E == L - u
    <3>1. E \in Nat /\ time - u = E + D
      BY <1>t, <2>1
    <3>2. (time - u) * RefillRate = E * RefillRate + D * RefillRate /\ E * RefillRate \in Nat
      BY <1>t, <3>1, Refills
    <3>3. Through(u, L) + tokens <= Capacity + E * RefillRate
      BY <2>1 DEF Metered
    <3>4. Now(u, time) = Through(u, L) + won /\ Through(u, L) \in Int
      <4>1. passed'[time] = passed[L] + won /\ passed[L] \in Nat
        BY <1>4, <1>t
      <4>2. CASE u = 0
        BY <1>0, <1>t, <4>1, <4>2 DEF Through
      <4>3. CASE u # 0
        <5>1. u - 1 \in 0..MaxTime /\ u - 1 < time
          BY <1>t, <2>1, <4>3
        <5>2. passed'[u - 1] = passed[u - 1] /\ passed[u - 1] \in Nat
          BY <1>5, <1>t, <5>1
        <5> QED BY <1>0, <4>1, <4>3, <5>2 DEF Through
      <4> QED BY <4>2, <4>3
    <3>5. tokens' = Refilled - won /\ tokens \in Nat /\ Refilled \in Nat /\ won \in Nat
      BY <1>0, <1>1, <1>t
    <3>6. Refilled <= tokens + D * RefillRate /\ D * RefillRate \in Nat
      BY <1>0
    <3>7. PICK er \in Nat : er = E * RefillRate
      BY <3>2
    <3>8. PICK dr \in Nat : dr = D * RefillRate
      BY <3>6
    <3> HIDE DEF E, D, Now
    <3>9. Through(u, L) + tokens <= Capacity + er /\ Refilled <= tokens + dr
      BY <3>3, <3>6, <3>7, <3>8
    <3>10. Now(u, time) + tokens' <= Capacity + (er + dr)
      BY <1>t, <3>4, <3>5, <3>9, SMTT(40)
    <3> QED BY <3>2, <3>7, <3>8, <3>10
  <2>2. CASE u > L
    <3>1. Now(u, time) = won
      BY <1>0, <1>1, <1>3, <1>4, <1>5, <1>7, <1>t, <2>2 DEF Through
    <3>2. Now(u, time) + tokens' <= Capacity
      BY <1>0, <1>1, <1>t, <3>1
    <3> HIDE DEF Now
    <3> QED BY <1>0, <1>1, <1>t, <2>0, <3>1, <3>2
  <2> QED BY <1>t, <2>1, <2>2
<1>8. Metered'
  BY <1>1, <1>6, <1>7 DEF Metered, Through
<1>9. ASSUME NEW u \in 0..MaxTime, NEW v \in 0..MaxTime, u <= v
      PROVE  Now(u, v) <= Capacity + (v - u) * RefillRate
  <2>1. CASE v < time
    <3>1. Now(u, v) = Through(u, v)
      BY <1>1, <1>5, <1>9, <1>t, <2>1 DEF Through
    <3> QED BY <1>9, <3>1 DEF RateKept
  <2>2. CASE v >= time /\ u <= time
    <3> DEFINE E == time - u
               F == v - time
    <3>1. E \in Nat /\ F \in Nat /\ v - u = E + F
      BY <1>t, <2>2
    <3>2. (v - u) * RefillRate = (E + F) * RefillRate /\ E * RefillRate <= (E + F) * RefillRate
          /\ E * RefillRate \in Nat /\ (E + F) * RefillRate \in Nat
      BY <3>1, Refills
    <3>3. Now(u, v) = Now(u, time) /\ Now(u, time) \in Int
      BY <1>0, <1>1, <1>2, <1>4, <1>5, <1>t, <2>2 DEF Through
    <3>4. Now(u, time) + tokens' <= Capacity + E * RefillRate
      BY <1>7, <2>2
    <3>5. tokens' \in Nat /\ Capacity \in Nat
      BY <1>2, <1>t
    <3> HIDE DEF E, F, Now
    <3> QED BY <3>2, <3>3, <3>4, <3>5
  <2>3. CASE v >= time /\ u > time
    <3>1. Now(u, v) = 0
      BY <1>0, <1>1, <1>4, <1>t, <1>9, <2>3 DEF Through
    <3>2. v - u \in Nat /\ (v - u) * RefillRate \in Nat
      BY <1>9, <1>t, Refills
    <3> QED BY <1>t, <3>1, <3>2
  <2> QED BY <1>t, <2>1, <2>2, <2>3
<1>10. RateKept'
  BY <1>9 DEF RateKept, Through
<1> QED BY <1>2, <1>8, <1>10

LEMMA PluginsStepOK == PluginsInv /\ [Next]_vars => PluginsInv'
<1> SUFFICES ASSUME PluginsInv, [PluginsNext]_pluginVars PROVE PluginsInv'
  BY PluginsFrame
<1>t. /\ PluginsTypeOK /\ task \in [Tasks -> Stages] /\ time \in 0..MaxTime /\ lastRefillAt \in 0..time
      /\ wiped \in BOOLEAN /\ MaxTime \in Nat
  BY PluginsOK DEF PluginsInv, PluginsTypeOK
<1>1. CASE UNCHANGED pluginVars
  BY <1>1 DEF pluginVars, PluginsInv, PluginsTypeOK, Marked, Metered, RateKept, Through
<1>2. CASE PluginsNext
  <2>1. ~wiped' => Marked'
    BY <1>2, MarkedStep DEF PluginsInv
  <2>2. ASSUME UNCHANGED <<time, lastRefillAt, tokens, passed>> \/ Pass
        PROVE  (lastRefillAt \in 0..time /\ time \in 0..MaxTime /\ tokens \in 0..Capacity /\ passed \in [0..MaxTime -> Nat]
                /\ Metered /\ RateKept)'
    <3>1. UNCHANGED <<lastRefillAt, tokens, passed>> /\ (time' = time \/ (time' = time + 1 /\ time < MaxTime))
      BY <2>2 DEF Pass
    <3>2. lastRefillAt' \in 0..time' /\ time' \in 0..MaxTime
      BY <1>t, <3>1
    <3> QED BY <3>1, <3>2 DEF PluginsInv, PluginsTypeOK, Metered, RateKept, Through
  <2>3. ASSUME NEW t \in Tasks, Begin(t)
        PROVE  (lastRefillAt \in 0..time /\ time \in 0..MaxTime /\ tokens \in 0..Capacity /\ passed \in [0..MaxTime -> Nat]
                /\ Metered /\ RateKept)'
    <3>1. time' = time
      BY <2>3 DEF Begin
    <3> QED BY <1>t, <2>3, <3>1, MeteredStep DEF PluginsInv
  <2>4. (lastRefillAt \in 0..time /\ time \in 0..MaxTime /\ tokens \in 0..Capacity /\ passed \in [0..MaxTime -> Nat]
         /\ Metered /\ RateKept)'
    BY <1>2, <2>2, <2>3 DEF PluginsNext, PluginStep, Look, SetProcessing, Handled, SetDone, PluginThrows
  <2>5. (task \in [Tasks -> Stages])'
    BY <1>2, <1>t DEF PluginsNext, PluginStep, Pass, Begin, Look, SetProcessing, Handled, SetDone, PluginThrows, Fail, Goes, Stages
  <2>6. (wiped \in BOOLEAN /\ finished \in BOOLEAN)'
    BY <1>2, <1>t DEF PluginsNext, PluginStep, Pass, Begin, Look, SetProcessing, Handled, SetDone, PluginThrows, PluginsTypeOK
  <2> QED BY <2>1, <2>4, <2>5, <2>6 DEF PluginsInv, PluginsTypeOK
<1> QED BY <1>1, <1>2

(* For any number of duplicates, any capacity, rate and clock: no handler   *)
(* of the key starts that looked after it was done, unless the mark was     *)
(* wiped, and no stretch of time lets more executions pass than its tokens  *)
(* (idempotency-plugin.ts, token-bucket.ts).                                *)
THEOREM PluginsHold == Spec => []PluginsTrue
<1>1. PluginsInv => PluginsTrue
  BY DEF PluginsInv, PluginsTypeOK, PluginsTrue, OncePerKey, Executing, Marked
<1> QED BY <1>1, PluginsBegin, PluginsStepOK, PTL DEF Spec

-----------------------------------------------------------------------------
(* The look-up for a duplicate: what it should see it has seen, or is still *)
(* to ask for.                                                              *)
LookOK(i) ==
  /\ pc[i] \notin {"looking", "answered"} => steady[i] = {}
  /\ pc[i] = "looking" => \A j \in steady[i] : at[j] \in Kept /\ (at[j] \in unread[i] \/ found[i])

LookInv ==
  /\ steady \in [Ids -> SUBSET Ids] /\ unread \in [Ids -> SUBSET Listings] /\ found \in [Ids -> BOOLEAN]
  /\ scene # "keys" => \A i \in Ids : steady[i] = {}
  /\ scene = "keys" => \A i \in Ids : LookOK(i)

LEMMA LookBegin == Init => LookInv
<1> SUFFICES ASSUME Init PROVE LookInv
  OBVIOUS
<1>1. /\ pc = [i \in Ids |-> "new"] /\ unread = [i \in Ids |-> {}] /\ found = [i \in Ids |-> FALSE]
      /\ steady = [i \in Ids |-> {}]
  BY DEF Init, DispatchInit
<1> QED BY <1>1 DEF LookInv, LookOK

(* A job that moves is no longer one that should be seen.                   *)
LEMMA LookMove ==
  ASSUME BatchInv, LookInv, NEW i \in Ids, NEW place, Move(i, place), UNCHANGED <<scene, unread, found>>,
         \A k \in Ids : pc'[k] = pc[k] \/ (pc[k] = "hooking" /\ pc'[k] = "stored")
  PROVE  LookInv'
<1>1. /\ steady' = [j \in Ids |-> IF pc[j] = "looking" THEN steady[j] \ {i} ELSE {}]
      /\ at \in [Ids -> Kept \cup {"none", "dead", "old"}] /\ at' = [at EXCEPT ![i] = place]
  BY DEF Move, BatchInv, JobTypeOK
<1>2. \A k \in Ids \ {i} : at'[k] = at[k]
  BY <1>1
<1>3. steady' \in [Ids -> SUBSET Ids]
  BY <1>1 DEF LookInv
<1>4. scene # "keys" => \A k \in Ids : steady'[k] = {}
  BY <1>1 DEF LookInv
<1>5. ASSUME NEW k \in Ids, scene = "keys" PROVE LookOK(k)'
  <2>1. LookOK(k)
    BY <1>5 DEF LookInv
  <2>2. CASE pc[k] = "looking"
    <3>1. steady'[k] = steady[k] \ {i} /\ pc'[k] = "looking" /\ steady[k] \subseteq Ids
      BY <1>1, <2>2 DEF LookInv
    <3> QED BY <1>2, <2>1, <2>2, <3>1 DEF LookOK
  <2>3. CASE pc[k] # "looking"
    <3>1. steady'[k] = {} /\ pc'[k] # "looking"
      BY <1>1, <2>3
    <3> QED BY <3>1 DEF LookOK
  <2> QED BY <2>2, <2>3
<1> QED BY <1>3, <1>4, <1>5 DEF LookInv

LEMMA LookStep == BatchInv /\ FlowInv /\ LookInv /\ [Next]_vars => LookInv'
<1> SUFFICES ASSUME BatchInv, FlowInv, LookInv, [Next]_vars PROVE LookInv'
  OBVIOUS
<1>t. /\ steady \in [Ids -> SUBSET Ids] /\ unread \in [Ids -> SUBSET Listings] /\ found \in [Ids -> BOOLEAN]
      /\ pc \in [Ids -> Labels] /\ at \in [Ids -> Kept \cup {"none", "dead", "old"}]
      /\ scene = "keys" => \A k \in Ids : LookOK(k)
  BY DEF LookInv, BatchInv, JobTypeOK
<1>s. scene' = scene
  BY SceneKept
<1>u. ASSUME UNCHANGED <<at, unread, found, steady>>,
             scene = "keys" => \A k \in Ids : pc'[k] = pc[k] \/ (pc[k] # "looking" /\ pc'[k] = "answered")
      PROVE  LookInv'
  <2>1. ASSUME NEW k \in Ids, scene = "keys" PROVE LookOK(k)'
    <3>1. LookOK(k)
      BY <1>t, <2>1
    <3> QED BY <1>u, <2>1, <3>1 DEF LookOK
  <2> QED BY <1>u, <1>s, <2>1 DEF LookInv
<1>1. ASSUME NEW i \in Ids, DispatchStep(i) PROVE LookInv'
  <2>1. CASE Ask(i)
    <3>1. /\ scene = "keys" /\ pc' = [pc EXCEPT ![i] = "looking"] /\ unread' = [unread EXCEPT ![i] = Listings]
          /\ steady' = [steady EXCEPT ![i] = {j \in Ids : at[j] \in Kept}] /\ UNCHANGED <<at, found>>
      BY <2>1 DEF Ask, Goto
    <3>2. LookOK(i)'
      BY <1>t, <3>1 DEF LookOK, Kept, Listings
    <3>3. ASSUME NEW k \in Ids, k # i PROVE LookOK(k)'
      BY <1>t, <3>1, <3>3 DEF LookOK
    <3>4. (steady \in [Ids -> SUBSET Ids] /\ unread \in [Ids -> SUBSET Listings] /\ found \in [Ids -> BOOLEAN])'
      BY <1>t, <3>1
    <3> QED BY <1>s, <3>1, <3>2, <3>3, <3>4 DEF LookInv
  <2>2. CASE Conclude(i)
    <3>1. /\ pc[i] = "looking" /\ unread[i] = {} /\ pc' = [pc EXCEPT ![i] = IF found[i] THEN "answered" ELSE "hooking"]
          /\ found' = [found EXCEPT ![i] = FALSE] /\ UNCHANGED <<at, unread, steady>>
      BY <2>2 DEF Conclude, Goto
    <3>2. scene = "keys"
      BY <3>1 DEF BatchInv, JobOK
    <3>3. LookOK(i)'
      BY <1>t, <3>1, <3>2 DEF LookOK
    <3>4. ASSUME NEW k \in Ids, k # i PROVE LookOK(k)'
      BY <1>t, <3>1, <3>2, <3>4 DEF LookOK
    <3>5. (steady \in [Ids -> SUBSET Ids] /\ unread \in [Ids -> SUBSET Listings] /\ found \in [Ids -> BOOLEAN])'
      BY <1>t, <3>1
    <3> QED BY <1>s, <3>2, <3>3, <3>4, <3>5 DEF LookInv
  <2>3. ASSUME NEW listing \in Listings, Query(i, listing) PROVE LookInv'
    <3>1. /\ pc[i] = "looking" /\ unread' = [unread EXCEPT ![i] = @ \ {listing}]
          /\ found' = [found EXCEPT ![i] = @ \/ \E j \in Ids : at[j] = listing]
          /\ UNCHANGED <<at, pc, steady>>
      BY <2>3 DEF Query
    <3>2. scene = "keys"
      BY <3>1 DEF BatchInv, JobOK
    <3>3. found'[i] <=> found[i] \/ \E j \in Ids : at[j] = listing
      BY <1>t, <3>1
    <3>4. unread'[i] = unread[i] \ {listing} /\ steady[i] \subseteq Ids
      BY <1>t, <3>1
    <3>5. LookOK(i)'
      BY <1>t, <3>1, <3>2, <3>3, <3>4 DEF LookOK
    <3>6. ASSUME NEW k \in Ids, k # i PROVE LookOK(k)'
      BY <1>t, <3>1, <3>2, <3>6 DEF LookOK
    <3>7. unread' \in [Ids -> SUBSET Listings]
      BY <1>t, <3>1
    <3>8. found' \in [Ids -> BOOLEAN]
      BY <1>t, <3>1
    <3> QED BY <1>s, <1>t, <3>1, <3>2, <3>5, <3>6, <3>7, <3>8 DEF LookInv
  <2>4. CASE Store(i)
    <3>1. pc[i] = "hooking" /\ pc' = [pc EXCEPT ![i] = "stored"] /\ UNCHANGED <<unread, found>>
          /\ (UNCHANGED <<at, steady>> \/ \E place \in {"pending", "ready"} : Move(i, place))
      BY <2>4 DEF Store, Goto
    <3>2. \A k \in Ids : pc'[k] = pc[k] \/ (pc[k] = "hooking" /\ pc'[k] = "stored")
      BY <1>t, <3>1
    <3>3. CASE UNCHANGED <<at, steady>>
      <4>1. ASSUME NEW k \in Ids, scene = "keys" PROVE LookOK(k)'
        <5>1. LookOK(k)
          BY <1>t, <4>1
        <5> QED BY <3>1, <3>2, <3>3, <5>1 DEF LookOK
      <4> QED BY <1>s, <3>1, <3>3, <4>1 DEF LookInv
    <3>4. CASE \E place \in {"pending", "ready"} : Move(i, place)
      BY <1>s, <3>1, <3>2, <3>4, LookMove
    <3> QED BY <3>1, <3>3, <3>4
  <2>5. CASE StoreMoves(i)
    <3>1. pc' = pc /\ UNCHANGED <<unread, found>> /\ \E step \in Moves : Move(i, step[2])
      BY <2>5 DEF StoreMoves
    <3> QED BY <1>s, <3>1, LookMove
  <2> QED BY <1>1, <2>1, <2>2, <2>3, <2>4, <2>5 DEF DispatchStep
<1>2. ASSUME NEW i \in Ids, Reject(i) PROVE LookInv'
  BY <1>2, <1>u DEF Reject
<1>3. ASSUME NEW i \in Ids, ReturnNode(i) PROVE LookInv'
  BY <1>3, <1>t, <1>u DEF ReturnNode, Return, Goto
<1>4. ASSUME scene # "keys", UNCHANGED <<unread, found, steady>> PROVE LookInv'
  BY <1>4, <1>s DEF LookInv
<1>5. ASSUME NEW i \in Ids, NEW j \in Ids, RetryFailed(i, j) \/ ReplayNode(i, j) PROVE LookInv'
  <2>1. scene # "keys"
    BY <1>5 DEF RetryFailed, ReplayNode, BatchInv, EntryOK
  <2>2. UNCHANGED <<unread, found, steady>>
    BY <1>5 DEF RetryFailed, ReplayNode, Replay
  <2> QED BY <1>4, <2>1, <2>2
<1>6. ASSUME NEW i \in Ids, Start(i) \/ Acknowledge(i) \/ Bury(i) \/ Lapse(i) PROVE LookInv'
  <2>1. pc' = pc /\ UNCHANGED <<unread, found>> /\ \E place : Move(i, place)
    BY <1>6 DEF Start, Acknowledge, Bury, Lapse
  <2> QED BY <1>s, <2>1, LookMove
<1>7. ASSUME NEW i \in Ids, Catch(i) \/ BuryRejects(i) PROVE LookInv'
  BY <1>7, <1>u DEF Catch, BuryRejects, dispatchVars
<1>8. ASSUME NEW i \in Ids, Success(i) PROVE LookInv'
  <2>1. UNCHANGED <<at, unread, found, steady>> /\ Succeeded(i)
    BY <1>8 DEF Success
  <2>2. scene = "keys" => nodeOf[i] = NoNode
    BY DEF FlowInv, FlowTypeOK
  <2>3. scene = "keys" => pc' = pc
    BY <2>1, <2>2 DEF Succeeded
  <2> QED BY <1>u, <2>1, <2>3
<1>9. CASE SendChunk \/ RegisterChunk \/ StartFlow
  <2>1. scene # "keys" /\ UNCHANGED <<unread, found, steady>>
    BY <1>9 DEF SendChunk, RegisterChunk, StartFlow, BatchInv, dispatchVars
  <2> QED BY <1>4, <2>1
<1>10. CASE WorkflowStep \/ ScheduleStep \/ ManyStep \/ PluginsStep
  <2>1. scene # "keys" /\ UNCHANGED <<unread, found, steady>>
    BY <1>10 DEF WorkflowStep, ScheduleStep, ManyStep, PluginsStep, dispatchVars
  <2> QED BY <1>4, <2>1
<1>11. CASE UNCHANGED vars
  BY <1>11, <1>u DEF vars, dispatchVars
<1> QED BY <1>1, <1>2, <1>3, <1>5, <1>6, <1>7, <1>8, <1>9, <1>10, <1>11 DEF Next, Execute

-----------------------------------------------------------------------------
(* A bulk of dispatches.                                                    *)
Given   == {k \in Places : \E g \in 1..Len(given) : given[g] = k}
Calling == bulkAt \in {"waiting", "answered"}
Called  == Given \cup (IF Calling THEN wait ELSE {})

BulkTypeOK ==
  /\ bulk \in Bulks /\ bulkAt \in {"off", "hooks", "storing", "waiting", "answered", "returned"}
  /\ chunk \in Nat \ {0} /\ wait \subseteq Places /\ flying \subseteq Places
  /\ landed \in [Places -> Nat] /\ given \in Seq(Places)

(* The chunks before this one are done with, and of this one whole stores.  *)
Progress ==
  /\ \A k \in Places : k <= (chunk - 1) * ChunkSize => k \in Given
  /\ \A k \in Given : k <= chunk * ChunkSize
  /\ \A k \in Given \cap ChunkOf(chunk) : \A j \in ChunkOf(chunk) : bulk[j] = bulk[k] => j \in Given
  /\ IF bulkAt = "returned" THEN Given = Places ELSE Ungiven # {}
  /\ Calling => wait = Bucket

(* A job is stored when its call has ended, once, unless it was rejected.   *)
Delivered(k) ==
  /\ k \in flying => k \in Called /\ landed[k] = 0
  /\ k \notin Called => landed[k] = 0
  /\ k \in Called \ (flying \cup refused) => landed[k] = 1
  /\ landed[k] <= 1

(* No id is given twice, and those of a store or of two chunks in order.    *)
Sorted ==
  \A g, h \in 1..Len(given) :
    /\ given[g] = given[h] => g = h
    /\ given[g] < given[h] /\ (bulk[given[g]] = bulk[given[h]]
                               \/ \E p \in Places : given[g] \in ChunkOf(p) /\ given[h] \notin ChunkOf(p)) => g < h

BulkInv == BulkTypeOK /\ Progress /\ (\A k \in Places : Delivered(k)) /\ Sorted

LEMMA BulkFrame == [Next]_vars => [\/ BulkStep \/ \E k \in flying : Refuse(k)]_bulkVars
<1> SUFFICES ASSUME [Next]_vars PROVE (BulkStep \/ \E k \in flying : Refuse(k)) \/ UNCHANGED bulkVars
  OBVIOUS
<1> USE DEF Others, appVars
<1>0. CASE UNCHANGED vars
  BY <1>0 DEF vars
<1>1. ASSUME NEW i \in Ids, Execute(i) PROVE UNCHANGED bulkVars
  BY <1>1 DEF Execute, Start, Success, Acknowledge, Catch, Bury, BuryRejects, Lapse
<1>2. CASE WorkflowStep \/ ScheduleStep \/ ManyStep \/ PluginsStep
  BY <1>2 DEF WorkflowStep, ScheduleStep, ManyStep, PluginsStep
<1> QED BY <1>0, <1>1, <1>2 DEF Next

LEMMA LeastPlace ==
  ASSUME NEW T \in SUBSET Nat, T # {}
  PROVE  \E n \in T : \A m \in T : n <= m
<1> DEFINE R == OpToRel(<, Nat)
<1>1. IsWellFoundedOn(R, Nat)
  BY NatLessThanWellFounded
<1>2. PICK n \in T : \A m \in T : ~ (<<m, n>> \in R)
  <2> HIDE DEF R
  <2> QED BY <1>1, WFMin
<1>3. \A m \in T : ~ (m < n)
  BY <1>2 DEF OpToRel
<1> QED BY <1>3

(* The members of a finite set of numbers in their order: the rank of a     *)
(* member, how many are not above it, is a bijection to 1, 2, ...           *)
LEMMA InOrderSorts ==
  ASSUME NEW S \in SUBSET Nat, IsFiniteSet(S)
  PROVE  /\ Cardinality(S) \in Nat /\ InOrder(S) \in Seq(S) /\ Len(InOrder(S)) = Cardinality(S)
         /\ \A g, h \in 1..Cardinality(S) : g < h => InOrder(S)[g] < InOrder(S)[h]
         /\ \A k \in S : \E g \in 1..Cardinality(S) : InOrder(S)[g] = k
<1> DEFINE n       == Cardinality(S)
           Upto(k) == {j \in S : j <= k}
           rank    == [k \in S |-> Cardinality(Upto(k))]
<1>1. n \in Nat
  BY FS_CardinalityType
<1>2. ASSUME NEW k \in S PROVE IsFiniteSet(Upto(k)) /\ Cardinality(Upto(k)) \in 1..n
  <2>1. IsFiniteSet(Upto(k)) /\ Cardinality(Upto(k)) <= n
    BY FS_Subset
  <2>2. Cardinality(Upto(k)) \in Nat
    BY <2>1, FS_CardinalityType
  <2>3. Cardinality(Upto(k)) # 0
    <3>1. k \in Upto(k)
      OBVIOUS
    <3> HIDE DEF Upto
    <3> QED BY <2>1, <3>1, FS_EmptySet
  <2> QED BY <1>1, <2>1, <2>2, <2>3
<1>3. ASSUME NEW j \in S, NEW k \in S, j < k PROVE rank[j] < rank[k]
  <2>0. \A i \in S : i <= j => i <= k
    BY <1>3
  <2>1. Upto(j) \subseteq Upto(k) /\ k \in Upto(k) /\ k \notin Upto(j)
    <3>1. Upto(j) \subseteq Upto(k)
      BY <2>0
    <3>2. k <= k /\ ~(k <= j)
      BY <1>3
    <3> QED BY <3>1, <3>2
  <2> HIDE DEF Upto
  <2>2. Cardinality(Upto(j)) <= Cardinality(Upto(k)) /\ Cardinality(Upto(j)) # Cardinality(Upto(k))
    BY <1>2, <2>1, FS_Subset
  <2> QED BY <1>2, <2>2
<1>4. rank \in [S -> 1..n]
  BY <1>2
<1>5. \A j, k \in S : rank[j] = rank[k] => j = k
  <2> SUFFICES ASSUME NEW j \in S, NEW k \in S, j # k PROVE rank[j] # rank[k]
    OBVIOUS
  <2>1. j < k \/ k < j
    OBVIOUS
  <2>2. rank[j] \in 1..n /\ rank[k] \in 1..n
    BY <1>4
  <2> HIDE DEF rank
  <2> QED BY <1>1, <1>3, <2>1, <2>2
<1>6. \A g \in 1..n : \E k \in S : rank[k] = g
  <2> HIDE DEF rank
  <2>1. rank \in Injection(S, 1..n)
    BY <1>4, <1>5 DEF Injection, IsInjective
  <2>2. IsFiniteSet(1..n) /\ Cardinality(1..n) = n
    BY <1>1, FS_Interval
  <2>3. rank \in Surjection(S, 1..n)
    BY <2>1, <2>2, FS_Injection
  <2> QED BY <2>3 DEF Surjection
<1>7. \A g \in 1..n : InOrder(S)[g] \in S /\ rank[InOrder(S)[g]] = g
  <2> SUFFICES ASSUME NEW g \in 1..n PROVE InOrder(S)[g] \in S /\ rank[InOrder(S)[g]] = g
    OBVIOUS
  <2>1. InOrder(S)[g] = CHOOSE k \in S : Cardinality(Upto(k)) = g
    BY DEF InOrder
  <2>2. \E k \in S : Cardinality(Upto(k)) = g
    BY <1>6
  <2> QED BY <2>1, <2>2
<1>8. InOrder(S) \in Seq(S) /\ Len(InOrder(S)) = n
  <2>1. InOrder(S) = [g \in 1..n |-> InOrder(S)[g]]
    BY DEF InOrder
  <2>2. InOrder(S) \in [1..n -> S]
    BY <1>7, <2>1
  <2> QED BY <1>1, <2>2
<1> HIDE DEF n, rank
<1>9. ASSUME NEW g \in 1..n, NEW h \in 1..n, g < h PROVE InOrder(S)[g] < InOrder(S)[h]
  <2>1. InOrder(S)[g] \in S /\ InOrder(S)[h] \in S /\ rank[InOrder(S)[g]] = g /\ rank[InOrder(S)[h]] = h
    BY <1>7
  <2>2. PICK p \in S, q \in S : p = InOrder(S)[g] /\ q = InOrder(S)[h]
    BY <2>1
  <2>3. rank[p] = g /\ rank[q] = h
    BY <2>1, <2>2
  <2>4. p # q /\ ~(q < p)
    BY <1>1, <1>3, <1>9, <2>3
  <2> QED BY <2>2, <2>4
<1>10. ASSUME NEW k \in S PROVE \E g \in 1..n : InOrder(S)[g] = k
  <2>1. rank[k] \in 1..n
    BY <1>4
  <2> QED BY <1>5, <1>7, <2>1
<1> QED BY <1>1, <1>8, <1>9, <1>10 DEF n

(* Chunks follow each other.                                                *)
LEMMA Edges ==
  ASSUME NEW p \in Nat
  PROVE  /\ p * ChunkSize \in Nat /\ (p + 1) * ChunkSize = p * ChunkSize + ChunkSize
         /\ \A q \in Nat : p <= q => p * ChunkSize <= q * ChunkSize
<1>1. p * ChunkSize \in Nat /\ (p + 1) * ChunkSize = p * ChunkSize + ChunkSize
  BY BulkOK
<1>2. ASSUME NEW q \in Nat, p <= q PROVE p * ChunkSize <= q * ChunkSize
  <2>1. PICK d \in Nat : q = p + d
    BY <1>2
  <2>2. q * ChunkSize = p * ChunkSize + d * ChunkSize /\ d * ChunkSize \in Nat
    BY <2>1, BulkOK
  <2> QED BY <1>1, <2>2
<1> QED BY <1>1, <1>2

LEMMA PlacesFinite ==
  ASSUME BulkTypeOK
  PROVE  /\ Len(bulk) \in Nat \ {0} /\ Places \subseteq Nat \ {0} /\ IsFiniteSet(Places) /\ Cardinality(Places) = Len(bulk)
         /\ \A S \in SUBSET Places : IsFiniteSet(S)
<1>1. Len(bulk) \in Nat \ {0}
  BY BulkOK DEF BulkTypeOK
<1>2. IsFiniteSet(Places) /\ Cardinality(Places) = Len(bulk)
  BY <1>1, FS_Interval DEF Places
<1>3. \A S \in SUBSET Places : IsFiniteSet(S)
  BY <1>2, FS_Subset
<1>4. Places \subseteq Nat \ {0}
  BY <1>1 DEF Places
<1> QED BY <1>1, <1>2, <1>3, <1>4

LEMMA BulkBegin == Init => BulkInv
<1> SUFFICES ASSUME Init PROVE BulkInv
  OBVIOUS
<1>1. /\ bulk \in Bulks /\ bulkAt = "off" /\ chunk = 1 /\ wait = {} /\ flying = {} /\ refused = {}
      /\ landed = [k \in Places |-> 0] /\ given = <<>>
  BY DEF Init, BulkInit
<1>2. BulkTypeOK
  BY <1>1 DEF BulkTypeOK
<1>3. Given = {} /\ Called = {}
  BY <1>1 DEF Given, Called, Calling
<1>4. 1 \in ChunkOf(1)
  BY <1>2, PlacesFinite, BulkOK DEF ChunkOf, Places
<1>5. Ungiven # {}
  BY <1>1, <1>4 DEF Ungiven
<1>6. Progress
  <2>1. \A k \in Places : ~(k <= (chunk - 1) * ChunkSize)
    BY <1>1, <1>2, PlacesFinite, BulkOK
  <2> QED BY <1>1, <1>3, <1>5, <2>1 DEF Progress, Calling
<1>7. \A k \in Places : Delivered(k)
  BY <1>1, <1>3 DEF Delivered
<1>8. Sorted
  BY <1>1 DEF Sorted
<1> QED BY <1>2, <1>6, <1>7, <1>8 DEF BulkInv

(* The next bucket: some of what is left of the chunk, and all of its store *)
LEMMA NextBucket ==
  ASSUME BulkTypeOK, Progress, Ungiven # {}
  PROVE  /\ Bucket \subseteq ChunkOf(chunk) /\ Bucket # {}
         /\ Bucket \cap Given = {}
         /\ \A k \in Bucket : \A j \in ChunkOf(chunk) : j \in Bucket <=> bulk[j] = bulk[k]
<1> DEFINE first == CHOOSE k \in Ungiven : \A j \in Ungiven : k <= j
<1>1. Ungiven \subseteq ChunkOf(chunk) /\ ChunkOf(chunk) \subseteq Places /\ Ungiven \in SUBSET Nat
  BY PlacesFinite DEF Ungiven, ChunkOf
<1>2. first \in Ungiven
  BY <1>1, LeastPlace
<1>3. Bucket = {k \in ChunkOf(chunk) : bulk[k] = bulk[first]}
  BY DEF Bucket
<1>4. first \notin Given
  BY <1>2 DEF Ungiven, Given
<1> HIDE DEF first
<1>5. ASSUME NEW k \in Bucket PROVE k \notin Given
  BY <1>1, <1>2, <1>3, <1>4 DEF Progress
<1> QED BY <1>1, <1>2, <1>3, <1>5

(* What is not part of the result does not depend on how far the dispatch   *)
(* of the bucket is.                                                        *)
LEMMA SameResult ==
  ASSUME UNCHANGED <<bulk, chunk, given>>
  PROVE  /\ Places' = Places /\ Given' = Given /\ Ungiven' = Ungiven /\ Bucket' = Bucket /\ Sorted' = Sorted
         /\ \A p : (ChunkOf(p))' = ChunkOf(p)
BY DEF Places, Given, Ungiven, Bucket, Sorted, ChunkOf

LEMMA BulkCall ==
  ASSUME BulkInv, CallStore
  PROVE  BulkInv'
<1>1. /\ bulkAt = "storing" /\ bulkAt' = "waiting" /\ wait' = Bucket /\ flying' = flying \cup Bucket
      /\ UNCHANGED <<bulk, chunk, refused, landed, given>>
  BY DEF CallStore
<1>2. /\ Places' = Places /\ Given' = Given /\ Ungiven' = Ungiven /\ Bucket' = Bucket /\ Sorted' = Sorted
      /\ \A p : (ChunkOf(p))' = ChunkOf(p)
  BY <1>1, SameResult
<1>3. BulkTypeOK /\ Progress /\ Ungiven # {}
  BY <1>1 DEF BulkInv, Progress
<1>4. Bucket \subseteq ChunkOf(chunk) /\ Bucket \cap Given = {}
  BY <1>3, NextBucket
<1>5. Bucket \subseteq Places
  BY <1>4 DEF ChunkOf
<1>6. BulkTypeOK'
  BY <1>1, <1>2, <1>3, <1>5 DEF BulkTypeOK
<1>7. Progress'
  BY <1>1, <1>2, <1>3 DEF Progress, Calling
<1>8. Called = Given /\ Called' = Given \cup Bucket
  BY <1>1, <1>2 DEF Called, Calling
<1>9. ASSUME NEW k \in Places PROVE Delivered(k)'
  <2>1. Delivered(k)
    BY DEF BulkInv
  <2> QED BY <1>1, <1>4, <1>8, <2>1 DEF Delivered
<1>10. Sorted'
  BY <1>2 DEF BulkInv
<1>11. \A k \in Places' : Delivered(k)'
  BY <1>2, <1>9
<1> QED BY <1>6, <1>7, <1>10, <1>11 DEF BulkInv

LEMMA BulkEnds ==
  ASSUME BulkInv, NEW k \in flying, Land(k) \/ Refuse(k)
  PROVE  BulkInv'
<1>1. /\ UNCHANGED <<bulk, chunk, wait, given>> /\ flying' = flying \ CallOf(k)
      /\ bulkAt' = bulkAt \/ (bulkAt = "waiting" /\ bulkAt' = "answered")
      /\ \/ Landed(CallOf(k)) /\ (refused' = refused \/ refused' = refused \cup CallOf(k))
         \/ Landed({}) /\ refused' = refused \cup CallOf(k)
  BY DEF Land, Refuse
<1>2. /\ Places' = Places /\ Given' = Given /\ Ungiven' = Ungiven /\ Bucket' = Bucket /\ Sorted' = Sorted
      /\ \A p : (ChunkOf(p))' = ChunkOf(p)
  BY <1>1, SameResult
<1>3. BulkTypeOK /\ Progress /\ CallOf(k) \subseteq flying /\ flying \subseteq Places
  BY DEF BulkInv, BulkTypeOK, CallOf
<1>4. Calling' = Calling /\ Called' = Called
  BY <1>1, <1>2 DEF Calling, Called
<1>5. \E S \in {{}, CallOf(k)} : landed' = [j \in Places |-> landed[j] + (IF j \in S THEN 1 ELSE 0)]
  BY <1>1 DEF Landed
<1>6. landed' \in [Places -> Nat]
  BY <1>3, <1>5 DEF BulkTypeOK
<1>7. BulkTypeOK'
  BY <1>1, <1>2, <1>3, <1>6 DEF BulkTypeOK
<1>8. Progress'
  BY <1>1, <1>2, <1>3, <1>4 DEF Progress
<1>9. ASSUME NEW j \in Places PROVE Delivered(j)'
  <2>1. Delivered(j) /\ landed[j] \in Nat
    BY <1>3 DEF BulkInv, BulkTypeOK
  <2>2. CASE j \notin CallOf(k)
    <3>1. landed'[j] = landed[j] /\ (j \in flying' <=> j \in flying) /\ (j \in refused' <=> j \in refused)
      BY <1>1, <1>5, <2>1, <2>2
    <3> QED BY <1>4, <2>1, <3>1 DEF Delivered
  <2>3. CASE j \in CallOf(k)
    <3>1. j \notin flying' /\ landed[j] = 0 /\ j \in Called
      BY <1>1, <1>3, <2>1, <2>3 DEF Delivered
    <3>2. landed'[j] = 1 \/ (landed'[j] = 0 /\ j \in refused')
      BY <1>1, <2>1, <2>3, <3>1 DEF Landed
    <3> QED BY <1>4, <3>1, <3>2 DEF Delivered
  <2> QED BY <2>2, <2>3
<1>10. \A j \in Places' : Delivered(j)'
  BY <1>2, <1>9
<1>11. Sorted'
  BY <1>2 DEF BulkInv
<1> QED BY <1>7, <1>8, <1>10, <1>11 DEF BulkInv

LEMMA Joined ==
  ASSUME NEW S, NEW q \in Seq(S), NEW r \in Seq(S)
  PROVE  q \o r \in Seq(S) /\ Len(q \o r) = Len(q) + Len(r)
OBVIOUS

LEMMA BulkPush ==
  ASSUME BulkInv, PushIds
  PROVE  BulkInv'
<1> DEFINE s == InOrder(wait)
           m == Len(given)
           n == Cardinality(wait)
<1>1. /\ bulkAt = "answered" /\ given' = given \o s
      /\ \/ Ungiven \subseteq wait /\ chunk' = chunk + 1
            /\ bulkAt' = IF ChunkOf(chunk + 1) = {} THEN "returned" ELSE "hooks"
         \/ ~(Ungiven \subseteq wait) /\ chunk' = chunk /\ bulkAt' = "storing"
      /\ UNCHANGED <<bulk, wait, flying, refused, landed>>
  BY DEF PushIds
<1>t. /\ BulkTypeOK /\ Progress /\ Sorted /\ Ungiven # {} /\ wait = Bucket
      /\ given \in Seq(Places) /\ chunk \in Nat \ {0} /\ m \in Nat /\ ChunkSize \in Nat \ {0}
      /\ Len(bulk) \in Nat \ {0} /\ Places \subseteq Nat \ {0}
  BY <1>1, PlacesFinite, BulkOK DEF BulkInv, BulkTypeOK, Progress, Calling
<1>w. /\ wait \subseteq ChunkOf(chunk) /\ wait \cap Given = {} /\ wait \subseteq Places
      /\ \A k \in wait : \A j \in ChunkOf(chunk) : j \in wait <=> bulk[j] = bulk[k]
  BY <1>t, NextBucket DEF ChunkOf
<1>p. Places' = Places /\ \A p : (ChunkOf(p))' = ChunkOf(p)
  BY <1>1 DEF Places, ChunkOf
<1>2. /\ n \in Nat /\ s \in Seq(wait) /\ Len(s) = n
      /\ \A g, h \in 1..n : g < h => s[g] < s[h]
      /\ \A k \in wait : \E g \in 1..n : s[g] = k
  <2>1. IsFiniteSet(wait) /\ wait \in SUBSET Nat
    BY <1>t, <1>w, PlacesFinite
  <2> QED BY <2>1, InOrderSorts
<1> HIDE DEF s, n
<1>3. s \in Seq(Places)
  BY <1>2, <1>w
<1>4. given' \in Seq(Places) /\ Len(given') = m + n
  BY <1>1, <1>t, <1>2, <1>3, Joined
<1>5. \A g \in 1..m : g \in 1..Len(given') /\ given'[g] = given[g] /\ given[g] \in Given
  BY <1>1, <1>t, <1>2, <1>3, <1>4 DEF Given
<1>6. \A g \in 1..n : m + g \in 1..Len(given') /\ given'[m + g] = s[g] /\ s[g] \in wait
  BY <1>1, <1>t, <1>2, <1>3, <1>4
<1>7. ASSUME NEW h \in 1..Len(given')
      PROVE  \/ h \in 1..m /\ given'[h] = given[h] /\ given[h] \in Given
             \/ h - m \in 1..n /\ given'[h] = s[h - m] /\ s[h - m] \in wait
  <2>1. CASE h <= m
    BY <1>4, <1>5, <1>t, <1>7, <2>1
  <2>2. CASE h > m
    <3>1. h - m \in 1..n /\ m + (h - m) = h
      BY <1>2, <1>4, <1>t, <1>7, <2>2
    <3> QED BY <1>6, <3>1
  <2> QED BY <1>4, <1>t, <1>2, <2>1, <2>2
<1>8. Given' = Given \cup wait
  <2>1. ASSUME NEW k \in Given' PROVE k \in Given \cup wait
    <3>1. k \in Places /\ \E h \in 1..Len(given') : given'[h] = k
      BY <1>p DEF Given
    <3> QED BY <1>7, <3>1
  <2>2. ASSUME NEW k \in Given PROVE k \in Given'
    <3>1. k \in Places /\ \E g \in 1..m : given[g] = k
      BY DEF Given
    <3> QED BY <1>5, <1>p, <3>1 DEF Given
  <2>3. ASSUME NEW k \in wait PROVE k \in Given'
    <3>1. k \in Places /\ \E g \in 1..n : s[g] = k
      BY <1>2, <1>w
    <3> QED BY <1>6, <1>p, <3>1 DEF Given
  <2> QED BY <2>1, <2>2, <2>3
<1>9. ASSUME NEW g \in 1..Len(given'), NEW h \in 1..Len(given')
      PROVE  /\ given'[g] = given'[h] => g = h
             /\ given'[g] < given'[h]
                /\ (bulk[given'[g]] = bulk[given'[h]]
                    \/ \E p \in Places : given'[g] \in ChunkOf(p) /\ given'[h] \notin ChunkOf(p)) => g < h
  <2>1. CASE g \in 1..m /\ h \in 1..m
    <3>1. given'[g] = given[g] /\ given'[h] = given[h]
      BY <1>5, <2>1
    <3> QED BY <1>t, <2>1, <3>1 DEF Sorted
  <2>2. CASE g \in 1..m /\ h - m \in 1..n
    <3>1. given'[g] \in Given /\ given'[h] \in wait
      BY <1>6, <1>5, <1>7, <1>t, <2>2
    <3>2. g < h
      BY <1>t, <1>2, <2>2
    <3> QED BY <1>w, <3>1, <3>2
  <2>3. CASE g - m \in 1..n /\ h \in 1..m
    <3>1. given'[g] \in wait /\ given'[h] \in Given
      BY <1>6, <1>5, <1>7, <1>t, <2>3, SMTT(40)
    <3>2. PICK k \in wait, j \in Given : k = given'[g] /\ j = given'[h]
      BY <3>1
    <3>3. k # j /\ k \in Places /\ j \in Places /\ k \in Nat /\ j \in Nat
      BY <1>t, <1>w DEF Given
    <3>4. ASSUME k < j PROVE bulk[k] # bulk[j] /\ ~\E p \in Places : k \in ChunkOf(p) /\ j \notin ChunkOf(p)
      <4>1. j <= chunk * ChunkSize /\ (chunk - 1) * ChunkSize < k /\ k <= chunk * ChunkSize
        BY <1>t, <1>w DEF Progress, ChunkOf
      <4>2. chunk - 1 \in Nat /\ (chunk - 1) * ChunkSize \in Nat /\ chunk * ChunkSize \in Nat
        BY <1>t, Edges
      <4>3. j \in ChunkOf(chunk)
        <5>1. PICK e \in Nat : e = (chunk - 1) * ChunkSize
          BY <4>2
        <5>2. e < j
          BY <3>3, <3>4, <4>1, <5>1
        <5> QED BY <3>3, <4>1, <5>1, <5>2 DEF ChunkOf
      <4>4. bulk[k] # bulk[j]
        BY <1>t, <1>w, <4>3
      <4>5. ASSUME NEW p \in Places, k \in ChunkOf(p) PROVE p = chunk
        <5>1. (p - 1) * ChunkSize < k /\ k <= p * ChunkSize /\ p \in Nat \ {0} /\ p - 1 \in Nat
          BY <1>t, <4>5 DEF ChunkOf
        <5>2. p <= chunk - 1 => p * ChunkSize <= (chunk - 1) * ChunkSize
          BY <4>2, <5>1, Edges
        <5>3. chunk <= p - 1 => chunk * ChunkSize <= (p - 1) * ChunkSize
          BY <1>t, <5>1, Edges
        <5>4. PICK x1 \in Nat, x2 \in Nat, x3 \in Nat, x4 \in Nat :
                x1 = (chunk - 1) * ChunkSize /\ x2 = chunk * ChunkSize /\ x3 = (p - 1) * ChunkSize /\ x4 = p * ChunkSize
          BY <4>2, <5>1, Edges
        <5>5. ~(p <= chunk - 1) /\ ~(chunk <= p - 1)
          BY <3>3, <4>1, <5>1, <5>2, <5>3, <5>4
        <5> QED BY <1>t, <5>1, <5>5
      <4> QED BY <4>3, <4>4, <4>5
    <3> QED BY <3>2, <3>3, <3>4
  <2>4. CASE g - m \in 1..n /\ h - m \in 1..n
    <3>1. given'[g] = s[g - m] /\ given'[h] = s[h - m]
      BY <1>6, <1>5, <1>7, <1>t, <2>4
    <3>2. s[g - m] \in Nat /\ s[h - m] \in Nat
      BY <1>6, <1>t, <1>w, <2>4
    <3>3. g < h \/ g = h \/ h < g
      BY <1>4, <1>t, <1>2
    <3>4. g < h => s[g - m] < s[h - m]
      BY <1>2, <1>4, <1>t, <2>4
    <3>5. h < g => s[h - m] < s[g - m]
      BY <1>2, <1>4, <1>t, <2>4
    <3> QED BY <3>1, <3>2, <3>3, <3>4, <3>5
  <2> QED BY <1>7, <2>1, <2>2, <2>3, <2>4
<1>10. Sorted'
  BY <1>1, <1>9, <1>p DEF Sorted
<1>11. ASSUME NEW k \in Places PROVE Delivered(k)'
  <2>1. Delivered(k)
    BY DEF BulkInv
  <2>2. Called' = Called
    BY <1>1, <1>8 DEF Called, Calling
  <2> QED BY <1>1, <2>1, <2>2 DEF Delivered
<1>12. BulkTypeOK'
  BY <1>1, <1>4, <1>p, <1>t DEF BulkTypeOK
<1>13. Progress'
  <2>e. /\ chunk * ChunkSize \in Nat /\ (chunk - 1) * ChunkSize \in Nat /\ (chunk + 1) * ChunkSize = chunk * ChunkSize + ChunkSize
        /\ chunk - 1 \in Nat
    BY <1>t, Edges
  <2>g. Given' \subseteq Places /\ \A k \in Given' : k <= chunk * ChunkSize
    BY <1>8, <1>t, <1>w DEF Progress, ChunkOf, Given
  <2>u. Ungiven' = {k \in (ChunkOf(chunk))' : k \notin Given'}
    BY DEF Ungiven, Given, ChunkOf
  <2>v. Ungiven = {k \in ChunkOf(chunk) : k \notin Given}
    BY DEF Ungiven, Given, ChunkOf
  <2>1. CASE Ungiven \subseteq wait
    <3>1. chunk' = chunk + 1 /\ bulkAt' = IF ChunkOf(chunk + 1) = {} THEN "returned" ELSE "hooks"
      BY <1>1, <2>1
    <3>2. ASSUME NEW k \in Places, k <= chunk * ChunkSize PROVE k \in Given'
      <4>1. CASE k <= (chunk - 1) * ChunkSize
        BY <1>8, <1>t, <4>1 DEF Progress
      <4>2. CASE ~(k <= (chunk - 1) * ChunkSize)
        <5>1. PICK e \in Nat : e = (chunk - 1) * ChunkSize
          BY <2>e
        <5>2. e < k
          BY <1>t, <4>2, <5>1
        <5>3. k \in ChunkOf(chunk)
          BY <3>2, <5>1, <5>2 DEF ChunkOf
        <5> QED BY <1>8, <2>1, <2>v, <5>3
      <4> QED BY <4>1, <4>2
    <3>3. \A k \in (ChunkOf(chunk))' : k \in Places /\ chunk * ChunkSize < k
      <4>1. (ChunkOf(chunk))' = {k \in Places' : (chunk' - 1) * ChunkSize < k /\ k <= chunk' * ChunkSize}
        BY DEF ChunkOf
      <4>2. chunk' - 1 = chunk
        BY <1>t, <3>1
      <4> QED BY <1>p, <4>1, <4>2
    <3>4. \A k \in (ChunkOf(chunk))' : k \notin Given'
      <4>1. PICK e \in Nat : e = chunk * ChunkSize
        BY <2>e
      <4>2. \A k \in (ChunkOf(chunk))' : k \in Nat /\ e < k
        BY <1>t, <3>3, <4>1
      <4>3. \A k \in Given' : k \in Nat /\ k <= e
        BY <1>t, <2>g, <4>1
      <4>4. \A k \in Nat : e < k => ~(k <= e)
        OBVIOUS
      <4> QED BY <4>2, <4>3, <4>4
    <3>5. (ChunkOf(chunk))' = ChunkOf(chunk + 1)
      BY <3>1, <1>p DEF ChunkOf
    <3>6. (\A k \in Places : k <= (chunk - 1) * ChunkSize => k \in Given)'
      <4>1. chunk' - 1 = chunk
        BY <1>t, <3>1
      <4> QED BY <1>p, <3>2, <4>1
    <3>7. (\A k \in Given : k <= chunk * ChunkSize)'
      <4>1. PICK e \in Nat, f \in Nat : e = chunk * ChunkSize /\ f = (chunk + 1) * ChunkSize /\ f = e + ChunkSize
        BY <1>t, <2>e
      <4>2. \A k \in Given' : k <= f
        BY <1>t, <2>g, <4>1
      <4> QED BY <3>1, <4>1, <4>2
    <3>8. (\A k \in Given \cap ChunkOf(chunk) : \A j \in ChunkOf(chunk) : bulk[j] = bulk[k] => j \in Given)'
      BY <3>4
    <3>9. CASE ChunkOf(chunk + 1) = {}
      <4>1. ASSUME NEW k \in Places PROVE k <= chunk * ChunkSize
        <5>1. PICK e \in Nat : e = chunk * ChunkSize
          BY <2>e
        <5> SUFFICES ASSUME e < k PROVE FALSE
          BY <1>t, <5>1
        <5>2. e + 1 \in Places
          BY <1>t DEF Places
        <5>3. (chunk + 1 - 1) * ChunkSize = e /\ (chunk + 1) * ChunkSize = e + ChunkSize
          <6>1. chunk + 1 - 1 = chunk
            BY <1>t
          <6> QED BY <2>e, <5>1, <6>1
        <5>4. e + 1 \in ChunkOf(chunk + 1)
          BY <1>t, <5>2, <5>3 DEF ChunkOf
        <5> QED BY <3>9, <5>4
      <4>2. Given' = Places'
        BY <1>p, <2>g, <3>2, <4>1
      <4>3. bulkAt' = "returned"
        BY <3>1, <3>9
      <4> QED BY <3>6, <3>7, <3>8, <4>2, <4>3 DEF Progress, Calling
    <3>10. CASE ChunkOf(chunk + 1) # {}
      <4>1. bulkAt' = "hooks" /\ Ungiven' # {}
        BY <2>u, <3>1, <3>4, <3>5, <3>10
      <4> QED BY <3>6, <3>7, <3>8, <4>1 DEF Progress, Calling
    <3> QED BY <3>9, <3>10
  <2>2. CASE ~(Ungiven \subseteq wait)
    <3>1. chunk' = chunk /\ bulkAt' = "storing"
      BY <1>1, <2>2
    <3>2. (ChunkOf(chunk))' = ChunkOf(chunk)
      BY <1>p, <3>1
    <3>3. Ungiven' # {}
      BY <1>8, <2>2, <2>u, <2>v, <3>2
    <3>4. (\A k \in Places : k <= (chunk - 1) * ChunkSize => k \in Given)'
      BY <1>8, <1>p, <1>t, <3>1 DEF Progress
    <3>5. (\A k \in Given : k <= chunk * ChunkSize)'
      BY <2>g, <3>1
    <3>6. ASSUME NEW k \in Given' \cap ChunkOf(chunk), NEW j \in ChunkOf(chunk), bulk[j] = bulk[k] PROVE j \in Given'
      BY <1>8, <1>t, <1>w, <3>6 DEF Progress
    <3>7. (\A k \in Given \cap ChunkOf(chunk) : \A j \in ChunkOf(chunk) : bulk[j] = bulk[k] => j \in Given)'
      BY <1>1, <3>2, <3>6
    <3> QED BY <3>1, <3>3, <3>4, <3>5, <3>7 DEF Progress, Calling
  <2> QED BY <2>1, <2>2
<1>14. \A k \in Places' : Delivered(k)'
  BY <1>11, <1>p
<1> QED BY <1>10, <1>12, <1>13, <1>14 DEF BulkInv

LEMMA BulkStepOK == BulkInv /\ [Next]_vars => BulkInv'
<1> SUFFICES ASSUME BulkInv, [\/ BulkStep \/ \E k \in flying : Refuse(k)]_bulkVars PROVE BulkInv'
  BY BulkFrame
<1>1. ASSUME UNCHANGED <<bulk, chunk, wait, flying, refused, landed, given>>,
             bulkAt' = bulkAt \/ (bulkAt = "off" /\ bulkAt' = "hooks") \/ (bulkAt = "hooks" /\ bulkAt' = "storing")
      PROVE  BulkInv'
  <2>1. /\ Places' = Places /\ Given' = Given /\ Ungiven' = Ungiven /\ Bucket' = Bucket /\ Sorted' = Sorted
        /\ \A p : (ChunkOf(p))' = ChunkOf(p)
    BY <1>1, SameResult
  <2>2. Calling' = Calling /\ Called' = Called
    BY <1>1, <2>1 DEF Calling, Called
  <2>3. BulkTypeOK' /\ Sorted'
    BY <1>1, <2>1 DEF BulkInv, BulkTypeOK
  <2>4. Progress'
    BY <1>1, <2>1, <2>2 DEF BulkInv, Progress
  <2>5. \A k \in Places' : Delivered(k)'
    BY <1>1, <2>1, <2>2 DEF BulkInv, Delivered
  <2> QED BY <2>3, <2>4, <2>5 DEF BulkInv
<1>2. CASE UNCHANGED bulkVars
  BY <1>1, <1>2 DEF bulkVars
<1>3. CASE HandOver \/ HooksEnd
  BY <1>1, <1>3 DEF HandOver, HooksEnd
<1> QED BY <1>2, <1>3, BulkCall, BulkEnds, BulkPush DEF BulkStep

LEMMA BulkDone == BulkInv => BulkExact
<1> SUFFICES ASSUME BulkInv PROVE BulkExact
  OBVIOUS
<1>1. \A k \in Places : landed[k] <= 1
  BY DEF BulkInv, Delivered
<1>2. ASSUME bulkAt = "returned"
      PROVE  /\ Len(given) = Len(bulk)
             /\ \A k \in Places : k \notin refused \cup flying => landed[k] = 1
             /\ \A k, j \in Places :
                  k < j /\ (bulk[k] = bulk[j] \/ \E p \in Places : k \in ChunkOf(p) /\ j \notin ChunkOf(p)) => Before(k, j)
  <2>1. Given = Places /\ BulkTypeOK /\ Sorted
    BY <1>2 DEF BulkInv, Progress
  <2>2. Len(given) \in Nat /\ given \in [1..Len(given) -> Places] /\ IsFiniteSet(Places) /\ Cardinality(Places) = Len(bulk)
    BY <2>1, PlacesFinite DEF BulkTypeOK
  <2>3. Len(given) = Len(bulk)
    <3>1. given \in Bijection(1..Len(given), Places)
      BY <2>1, <2>2 DEF Bijection, Injection, Surjection, IsInjective, Sorted, Given
    <3>2. IsFiniteSet(1..Len(given)) /\ Cardinality(1..Len(given)) = Len(given)
      <4>1. PICK m \in Nat : m = Len(given)
        BY <2>2
      <4>2. IsFiniteSet(1..m) /\ Cardinality(1..m) = m
        BY FS_Interval
      <4> QED BY <4>1, <4>2, SMTT(40)
    <3>3. Cardinality(Places) = Cardinality(1..Len(given))
      BY <3>1, <3>2, FS_Bijection DEF ExistsBijection
    <3> QED BY <2>2, <3>2, <3>3
  <2>4. \A k \in Places : k \notin refused \cup flying => landed[k] = 1
    BY <2>1 DEF BulkInv, Delivered, Called
  <2>5. ASSUME NEW k \in Places, NEW j \in Places, k < j,
               bulk[k] = bulk[j] \/ \E p \in Places : k \in ChunkOf(p) /\ j \notin ChunkOf(p)
        PROVE  Before(k, j)
    <3>1. PICK g \in 1..Len(given), h \in 1..Len(given) : given[g] = k /\ given[h] = j
      BY <2>1 DEF Given
    <3> QED BY <2>1, <2>5, <3>1 DEF Sorted, Before
  <2> QED BY <2>3, <2>4, <2>5
<1> QED BY <1>1, <1>2 DEF BulkExact

(* For any jobs in any order of outcomes: no dispatch goes on to enqueue    *)
(* past a duplicate that stayed where it could be seen, and a bulk gives    *)
(* every job one id in the order that is promised and stores each once,     *)
(* whatever is rejected (JobManager.dispatchInternal, dispatchMany).        *)
THEOREM DispatchesHold == Spec => []DispatchTrue
<1>1. LookInv => LookupFinds
  BY DEF LookInv, LookOK, LookupFinds
<1>2. Spec => [](BatchInv /\ FlowInv)
  BY BatchBegin, BatchStep, FlowBegin, FlowStep, PTL DEF Spec
<1>3. Spec => []LookInv
  BY <1>2, LookBegin, LookStep, PTL DEF Spec
<1>4. Spec => []BulkInv
  BY BulkBegin, BulkStepOK, PTL DEF Spec
<1> QED BY <1>1, <1>3, <1>4, BulkDone, PTL DEF DispatchTrue
=============================================================================
