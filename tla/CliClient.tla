----------------------------- MODULE CliClient -----------------------------
(***************************************************************************)
(* `vasto failed:retry-all' (cli queue.ts): it lists the dead letters of a *)
(* queue through the dashboard's API and asks for their replay one by one. *)
(***************************************************************************)
EXTENDS Dashboard, SequencesExt

VARIABLES
  stage,     \* "idle", "listing", "listed", "retrying", "done" or "failed"
  limit,     \* its --limit
  listed,    \* jobs of the list, in its order
  retried,   \* how many of them have been retried
  runs,      \* how often it was called
  dead       \* history: dead letters there were throughout the listing

cliVars == <<stage, limit, listed, retried, runs, dead>>

Asks(route, j) ==
  [route |-> route, level |-> 3, allowed |-> Queues \cup {Stranger}, name |-> Home, id |-> j,
   status |-> "dlq", sound |-> TRUE, page |-> 1]

CliInit ==
  /\ stage = "idle" /\ limit \in 1..(Cardinality(Jobs) + 1)
  /\ listed = <<>> /\ retried = 0 /\ runs = 0 /\ dead = {}

RetryAll ==
  /\ stage \in {"idle", "done", "failed"} /\ runs < 2
  /\ Receive(Asks("failed", NoJob))
  /\ stage' = "listing" /\ runs' = runs + 1
  /\ listed' = <<>> /\ retried' = 0 /\ dead' = {}
  /\ UNCHANGED limit

(* Mutant of FetchOk: an answer is an answer.                               *)
FetchAny(a) == a # 0

(* fetchJson throws at every answer that is not 2xx.                        *)
FetchOk(a) == a \in {200, 202}

InList == {j \in Jobs : Entries(j) # {}}

(* The list is cut to the limit; its order is the store's.                  *)
ListArrives ==
  /\ stage = "listing" /\ answer # 0
  /\ IF FetchOk(answer)
     THEN /\ stage' = "listed"
          /\ \E S \in SUBSET InList :
               /\ Cardinality(S) = Min({limit, Cardinality(InList)})
               /\ listed' \in SetToSeqs(S)
     ELSE stage' = "failed" /\ UNCHANGED listed
  /\ dead' = {j \in Jobs : <<"dead", j>> \in still /\ OnPage(req)}
  /\ UNCHANGED <<dashVars, limit, retried, runs>>

(* The retries are sent one after the other; the first that fails ends it.  *)
SendRetry ==
  /\ stage = "listed"
  /\ IF retried = Len(listed) THEN stage' = "done" /\ UNCHANGED dashVars
     ELSE stage' = "retrying" /\ Receive(Asks("retryDlq", listed[retried + 1]))
  /\ UNCHANGED <<limit, listed, retried, runs, dead>>

RetryAnswered ==
  /\ stage = "retrying" /\ answer # 0
  /\ IF FetchOk(answer) THEN stage' = "listed" /\ retried' = retried + 1
     ELSE stage' = "failed" /\ UNCHANGED retried
  /\ UNCHANGED <<dashVars, limit, listed, runs, dead>>

CliNext == RetryAll \/ ListArrives \/ SendRetry \/ RetryAnswered

-----------------------------------------------------------------------------
(* When the command reports success, every dead letter it listed has been   *)
(* replayed, and once, whoever else replays, removes or moves jobs          *)
(* meanwhile and whatever failed before; more than once only in Redis and   *)
(* the file store, whose replays do not exclude each other, and only a      *)
(* letter whose replays overlapped, or of which one was broken off behind   *)
(* the copy.  Unless it says that more may remain, those are all there were *)
(* (within the first hundred of a queue, in the SQL stores).  It fails only *)
(* at a letter someone else has replayed or taken away, or at an error,     *)
(* which the file store does not tell from that.                            *)
RetryAllTrue ==
  /\ stage = "done" =>
       /\ \A i \in DOMAIN listed :
            /\ copies[listed[i]] >= 1
            /\ copies[listed[i]] > 1 => view.replays \in {"asks", "copies"} /\ listed[i] \in raced
       /\ Len(listed) < limit => dead \subseteq ToSet(listed)
  /\ stage = "failed" =>
       \/ answer = 500 \/ view.replays = "copies"
       \/ ~Replayable(place[listed[retried + 1]])
=============================================================================
