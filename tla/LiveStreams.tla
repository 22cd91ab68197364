---------------------------- MODULE LiveStreams ----------------------------
(***************************************************************************)
(* The bus of lifecycle events (core lifecycle-events.ts) and what streams *)
(* from it to the dashboard: the two event streams of the router,          *)
(* /stream/lifecycle ("events") and /stream ("overview"), and the          *)
(* websockets of the adapters ("socket").  Events are numbered in the      *)
(* order of their emission; the filter by allowed queues is left out.      *)
(***************************************************************************)
EXTENDS Integers, FiniteSets, SequencesExt

CONSTANTS
  Conns,        \* connections
  Mixes,        \* what they may be: functions from Conns to kinds
  App,          \* a listener of the application's own
  MaxHistory,   \* events the bus keeps
  Replay,       \* events a new connection is sent
  MaxEvents     \* bound on events

ASSUME StreamConstantsOK ==
  /\ App \notin Conns /\ Mixes \subseteq [Conns -> {"events", "overview", "socket"}]
  /\ MaxHistory \in Nat /\ Replay \in 1..MaxHistory /\ MaxEvents \in Nat

VARIABLES
  server,       \* its adapter, whether its process is up and its controller closed
  kind, phase,  \* of each connection
  left,         \* connections whose client has gone
  emitted, history,
  listeners,    \* those subscribed
  ahead,        \* connections that had subscribed when App did
  timers,       \* connections with a running interval
  building,     \* connections for which an overview is being built
  got,          \* events sent on each connection
  since,        \* history: the first event each connection is due
  cut,          \* history: <<connection, event>> lost to a listener that threw
  nested,       \* history: events during which a listener emitted another
  early         \* history: connections left while their handler waited

streamVars ==
  <<server, kind, phase, left, emitted, history, listeners, ahead, timers, building,
    got, since, cut, nested, early>>

Sockets  == {c \in Conns : kind[c] = "socket"}
ToEvents == {c \in Conns : kind[c] \in {"events", "socket"}}
Serving  == server.up

StreamInit ==
  /\ server \in [adapter : {"api", "elysia"}, up : {TRUE}, closed : {FALSE}]
  /\ kind \in Mixes
  /\ phase = [c \in Conns |-> "new"] /\ got = [c \in Conns |-> <<>>]
  /\ since = [c \in Conns |-> 0]
  /\ emitted = 0 /\ history = <<>> /\ listeners = {} /\ ahead = {}
  /\ left = {} /\ timers = {} /\ building = {} /\ cut = {} /\ nested = {} /\ early = {}

-----------------------------------------------------------------------------
(* The bus.                                                                 *)
Kept(h) == SubSeq(h, IF Len(h) > MaxHistory THEN Len(h) - MaxHistory + 1 ELSE 1, Len(h))

(* Mutant of GetRecent: the oldest events instead of the newest.            *)
GetRecentFirst(n) == SubSeq(history, 1, IF Len(history) > n THEN n ELSE Len(history))

GetRecent(n) == SubSeq(history, IF Len(history) > n THEN Len(history) - n + 1 ELSE 1, Len(history))

(* A socket that is closed ignores what it is told.                         *)
Hears(c, L) == c \in L \cap ToEvents /\ (kind[c] = "socket" => c \notin left)

Told(L, es, before) == [c \in Conns |-> IF Hears(c, L) THEN before[c] \o es ELSE before[c]]

(* Those that are called before the application's listener, and after it.   *)
Before == listeners \cap ahead
Behind == listeners \ Before

Push(es) ==
  /\ emitted' = emitted + Len(es)
  /\ emitted' <= MaxEvents
  /\ history' = Kept(history \o es)

(* emit() calls the listeners one by one.                                   *)
Emit ==
  /\ Serving
  /\ Push(<<emitted + 1>>)
  /\ got' = Told(listeners, <<emitted + 1>>, got)
  /\ UNCHANGED <<server, kind, phase, left, listeners, ahead, timers, building, since, cut, nested, early>>

(* The application's listener throws: emit() does not catch it, and the     *)
(* listeners behind it are not called.                                      *)
EmitThrows ==
  /\ Serving /\ App \in listeners
  /\ Push(<<emitted + 1>>)
  /\ got' = Told(Before, <<emitted + 1>>, got)
  /\ cut' = cut \cup {<<c, emitted + 1>> : c \in {d \in Conns : Hears(d, Behind)}}
  /\ UNCHANGED <<server, kind, phase, left, listeners, ahead, timers, building, since, nested, early>>

(* The application's listener emits an event (it pauses a queue, say): the  *)
(* listeners behind it hear of that one first.                              *)
EmitNested ==
  /\ Serving /\ App \in listeners
  /\ Push(<<emitted + 1, emitted + 2>>)
  /\ got' = Told(Behind, <<emitted + 2, emitted + 1>>, Told(Before, <<emitted + 1, emitted + 2>>, got))
  /\ nested' = nested \cup {emitted + 1}
  /\ UNCHANGED <<server, kind, phase, left, listeners, ahead, timers, building, since, cut, early>>

Listen ==
  /\ IF App \in listeners THEN listeners' = listeners \ {App} /\ ahead' = {}
     ELSE listeners' = listeners \cup {App} /\ ahead' = listeners
  /\ UNCHANGED <<server, kind, phase, left, emitted, history, timers, building, got, since, cut, nested, early>>

-----------------------------------------------------------------------------
(* A closed dashboard-api controller takes no sockets, a closed Elysia one   *)
(* no requests: it has closed the server it passes them to.                 *)
Shut(c) == server.closed /\ (kind[c] = "socket" <=> server.adapter = "api")

(* A connection.  Its request is authenticated first, which may wait.       *)
Connect(c) ==
  /\ Serving /\ ~Shut(c) /\ phase[c] = "new"
  /\ phase' = [phase EXCEPT ![c] = "asking"]
  /\ UNCHANGED <<server, kind, left, emitted, history, listeners, ahead, timers, building, got, since, cut, nested, early>>

Deny(c) ==
  /\ phase[c] = "asking"
  /\ phase' = [phase EXCEPT ![c] = "gone"]
  /\ UNCHANGED <<server, kind, left, emitted, history, listeners, ahead, timers, building, got, since, cut, nested, early>>

Subscribed(c) ==
  /\ got' = [got EXCEPT ![c] = @ \o GetRecent(Replay)]
  /\ listeners' = listeners \cup {c}
  /\ since' = [since EXCEPT ![c] = IF emitted > Replay THEN emitted - Replay + 1 ELSE 1]

(* GET /stream/lifecycle: a client that has gone is not noticed any more.   *)
StreamLifecycle(c) ==
  /\ Serving /\ phase[c] = "asking" /\ kind[c] = "events"
  /\ phase' = [phase EXCEPT ![c] = "open"]
  /\ Subscribed(c)
  /\ UNCHANGED <<timers, building>>

(* GET /stream: the interval starts when the first overview has been sent.  *)
Stream(c) ==
  /\ Serving /\ phase[c] = "asking" /\ kind[c] = "overview"
  /\ phase' = [phase EXCEPT ![c] = "first"]
  /\ building' = building \cup {c}
  /\ UNCHANGED <<got, listeners, since, timers>>

(* An upgrade: the socket of a client that has gone is dropped.             *)
Open(c) ==
  /\ Serving /\ phase[c] = "asking" /\ kind[c] = "socket"
  /\ IF c \in left \/ Shut(c)
     THEN phase' = [phase EXCEPT ![c] = "gone"] /\ UNCHANGED <<got, listeners, since, timers, building>>
     ELSE /\ phase' = [phase EXCEPT ![c] = "open"]
          /\ building' = building \cup {c} /\ timers' = timers \cup {c}
          /\ Subscribed(c)

Admit(c) ==
  /\ StreamLifecycle(c) \/ Stream(c) \/ Open(c)
  /\ UNCHANGED <<server, kind, left, emitted, history, ahead, cut, nested, early>>

SendOverview(c) ==
  /\ Serving /\ c \in timers \ building
  /\ building' = building \cup {c}
  /\ UNCHANGED <<server, kind, phase, left, emitted, history, listeners, ahead, timers, got, since, cut, nested, early>>

OverviewSent(c) ==
  /\ Serving /\ c \in building
  /\ building' = building \ {c}
  /\ IF phase[c] = "first"
     THEN phase' = [phase EXCEPT ![c] = "open"] /\ timers' = timers \cup {c}
     ELSE UNCHANGED <<phase, timers>>
  /\ UNCHANGED <<server, kind, left, emitted, history, listeners, ahead, got, since, cut, nested, early>>

(* A query of the overview rejects: the sockets catch it; on /stream nobody *)
(* does, and an unhandled rejection ends the process.                       *)
OverviewFails(c) ==
  /\ Serving /\ c \in building
  /\ building' = building \ {c}
  /\ server' = [server EXCEPT !.up = kind[c] = "socket"]
  /\ UNCHANGED <<kind, phase, left, emitted, history, listeners, ahead, timers, got, since, cut, nested, early>>

OnClose(S) == listeners' = listeners \ S /\ timers' = timers \ S

(* The client goes.  A handler that is still waiting has no listener for    *)
(* its close event yet.                                                     *)
Leave(c) ==
  /\ phase[c] \in {"asking", "first", "open"} /\ c \notin left
  /\ left' = left \cup {c}
  /\ IF phase[c] = "open" THEN OnClose({c}) ELSE UNCHANGED <<listeners, timers>>
  /\ early' = IF phase[c] # "open" /\ kind[c] # "socket" THEN early \cup {c} ELSE early
  /\ UNCHANGED <<server, kind, phase, emitted, history, ahead, building, got, since, cut, nested>>

(* close() of the adapter's controller: dashboard-api terminates its        *)
(* sockets, Elysia unsubscribes them and leaves them open.                  *)
Close ==
  /\ Serving /\ ~server.closed
  /\ server' = [server EXCEPT !.closed = TRUE]
  /\ LET mine == {c \in Sockets : phase[c] = "open"}
     IN /\ OnClose(mine)
        /\ left' = IF server.adapter = "api" THEN left \cup mine ELSE left
        /\ phase' = [c \in Conns |-> IF c \in mine THEN "gone" ELSE phase[c]]
  /\ UNCHANGED <<kind, emitted, history, ahead, building, got, since, cut, nested, early>>

StreamNext ==
  \/ Emit \/ EmitThrows \/ EmitNested \/ Listen \/ Close
  \/ \E c \in Conns : \/ Connect(c) \/ Deny(c) \/ Admit(c) \/ Leave(c)
                      \/ SendOverview(c) \/ OverviewSent(c) \/ OverviewFails(c)

-----------------------------------------------------------------------------
(* A client that stays connected is sent every event once, from the last    *)
(* Replay ones before it came, in the order of their emission: save those   *)
(* cut off by a listener that threw (lifecycle-events.ts:99), and save that *)
(* an event emitted by a listener may come before the one it answers.       *)
StreamExact ==
  \A c \in ToEvents : Serving /\ phase[c] = "open" /\ c \notin left =>
    /\ ToSet(got[c]) = {e \in since[c]..emitted : <<c, e>> \notin cut}
    /\ IsInjective(got[c])
    /\ \A i, k \in DOMAIN got[c] : i < k /\ got[c][i] > got[c][k] => got[c][k] \in nested

(* A client that has gone leaves no listener and no interval behind, unless *)
(* it went while the handler of an event stream waited, before it asked to  *)
(* be told (dashboard.ts:1241).                                             *)
NothingLeaks ==
  \A c \in left \ early : c \notin timers \cup listeners
=============================================================================
