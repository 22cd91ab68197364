---------------------------- MODULE MCFrontends ----------------------------
(* Two queues, two jobs in one of them, two connections; every route with   *)
(* a full request and with requests that lack or exceed one thing.          *)
EXTENDS Frontends, TLC

CONSTANTS home, other, c1, c2

MCQueues == {home, other}
MCNames  == {home, other, Stranger}

Full(route) ==
  [route |-> route, level |-> 3, allowed |-> MCNames, name |-> home, id |-> Watched,
   status |-> "all", sound |-> TRUE, page |-> 1]

Variants(r) ==
  {r, [r EXCEPT !.id = NoJob], [r EXCEPT !.sound = FALSE], [r EXCEPT !.page = 2]}
  \cup {[r EXCEPT !.level = n] : n \in 1..2}
  \cup {[r EXCEPT !.name = n, !.allowed = A] :
          n \in {home, Stranger, NoName}, A \in {MCNames, {other}}}

MCRequests ==
  UNION {Variants(Full(route)) : route \in Routes}
  \cup {[Full("jobs") EXCEPT !.status = s, !.page = p] :
          s \in {"dlq", "ready", "active", "completed", "deferred", "pending", "due"}, p \in 1..2}

MCViews ==
  [store : {"plain", "archive"}, page : 1..2, silenced : {FALSE}, replays : {"whole"}]
  \cup [store : {"plain"}, page : {1}, silenced : {FALSE}, replays : {"marks", "asks", "copies"}]
  \cup [store : {"plain"}, page : {1}, silenced : {TRUE}, replays : {"whole"}]
  \cup [store : {"deep"}, page : {1}, silenced : {FALSE}, replays : {"whole"}]
MCMixes ==
  {(c1 :> "socket") @@ (c2 :> k) : k \in {"socket", "events"}}
  \cup {(c1 :> "overview") @@ (c2 :> k) : k \in {"socket", "events"}}

MCScenes == {"requests", "cli", "streams", "page"}
=============================================================================
