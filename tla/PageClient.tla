----------------------------- MODULE PageClient -----------------------------
(***************************************************************************)
(* The dashboard page's data: useWebSocket keeps a websocket open and      *)
(* DashboardDataProvider polls while there is none.  In development React  *)
(* runs the effects of a new page twice ("strict").                        *)
(***************************************************************************)
EXTENDS Integers, FiniteSets

CONSTANTS Links, NoLink    \* sockets the page may have at a time

ASSUME PageConstantsOK == NoLink \notin Links

VARIABLES
  strict, transport,   \* how the page is built: BOOLEAN, "auto" or "polling"
  mounted,             \* "never", "yes" or "no"
  link,                \* the state of each socket
  wsRef, retries,      \* the last socket made; retry timers that are set
  hasConnected, fallback,
  wsStatus, shown,     \* the status, and the one the effects last ran for
  poll                 \* whether the polling interval runs

pageVars ==
  <<strict, transport, mounted, link, wsRef, retries, hasConnected, fallback, wsStatus, shown, poll>>

Alive == {"connecting", "open"}

PageInit ==
  /\ strict \in BOOLEAN /\ transport \in {"auto", "polling"}
  /\ mounted = "never"
  /\ link = [l \in Links |-> "closed"] /\ wsRef = NoLink /\ retries = 0
  /\ hasConnected = FALSE /\ fallback = (transport = "polling")
  /\ wsStatus = (IF transport = "polling" THEN "disconnected" ELSE "connecting")
  /\ shown = "none" /\ poll = FALSE

(* connect(): a new socket, of those that are closed.                       *)
ConnectWith(l) ==
  /\ link[l] = "closed"
  /\ wsStatus' = "connecting" /\ wsRef' = l

(* The effects of the page's first rendering; strict mode undoes them and   *)
(* runs them again.                                                         *)
Mount ==
  /\ mounted = "never" /\ mounted' = "yes"
  /\ IF transport = "polling"
     THEN wsStatus' = "disconnected" /\ UNCHANGED <<link, wsRef>>
     ELSE \E l \in Links :
            /\ ConnectWith(l)
            /\ IF strict
               THEN \E m \in Links \ {l} : link' = [link EXCEPT ![m] = "closing", ![l] = "connecting"]
               ELSE link' = [link EXCEPT ![l] = "connecting"]
  /\ shown' = wsStatus
  /\ poll' = (wsStatus = "disconnected")
  /\ UNCHANGED <<strict, transport, retries, hasConnected, fallback>>

(* The status has changed: the effect that polls is undone and run again.   *)
Render ==
  /\ mounted = "yes" /\ shown # wsStatus
  /\ shown' = wsStatus
  /\ poll' = (wsStatus = "disconnected")
  /\ UNCHANGED <<strict, transport, mounted, link, wsRef, retries, hasConnected, fallback, wsStatus>>

OnOpen(l) ==
  /\ link[l] = "connecting"
  /\ IF mounted = "no"
     THEN link' = [link EXCEPT ![l] = "closing"] /\ UNCHANGED <<hasConnected, fallback, wsStatus>>
     ELSE /\ link' = [link EXCEPT ![l] = "open"]
          /\ hasConnected' = TRUE /\ fallback' = FALSE /\ wsStatus' = "connected"
  /\ UNCHANGED <<strict, transport, mounted, wsRef, retries, shown, poll>>

(* Mutant of OnLinkClose: a socket that never opened goes unnoticed.        *)
OnLinkCloseUntold(l) ==
  /\ link[l] # "closed" /\ link' = [link EXCEPT ![l] = "closed"]
  /\ CASE mounted = "no" -> UNCHANGED <<wsStatus, fallback, retries>>
       [] mounted = "yes" /\ ~hasConnected -> fallback' = TRUE /\ UNCHANGED <<retries, wsStatus>>
       [] OTHER -> /\ wsStatus' = "disconnected" /\ UNCHANGED fallback
                   /\ retries' = IF fallback THEN retries ELSE retries + 1
  /\ UNCHANGED <<strict, transport, mounted, wsRef, hasConnected, shown, poll>>

(* A socket has closed, or failed first.  One that never opened means that  *)
(* websockets are not supported.                                            *)
OnLinkClose(l) ==
  /\ link[l] # "closed" /\ link' = [link EXCEPT ![l] = "closed"]
  /\ IF mounted = "no" THEN UNCHANGED <<wsStatus, fallback, retries>>
     ELSE /\ wsStatus' = "disconnected"
          /\ IF ~hasConnected THEN fallback' = TRUE /\ UNCHANGED retries
             ELSE /\ UNCHANGED fallback
                  /\ retries' = IF fallback THEN retries ELSE retries + 1
  /\ UNCHANGED <<strict, transport, mounted, wsRef, hasConnected, shown, poll>>

(* Three seconds later.                                                     *)
Retry ==
  /\ retries > 0 /\ retries' = retries - 1
  /\ IF mounted = "yes"
     THEN \E l \in Links : ConnectWith(l) /\ link' = [link EXCEPT ![l] = "connecting"]
     ELSE UNCHANGED <<wsStatus, link, wsRef>>
  /\ UNCHANGED <<strict, transport, mounted, hasConnected, fallback, shown, poll>>

(* The page is left: its last socket is closed, its last retry cancelled.   *)
Unmount ==
  /\ mounted = "yes" /\ mounted' = "no"
  /\ link' = IF wsRef # NoLink /\ link[wsRef] \in Alive THEN [link EXCEPT ![wsRef] = "closing"] ELSE link
  /\ retries' = IF retries > 0 THEN retries - 1 ELSE 0
  /\ poll' = FALSE
  /\ UNCHANGED <<strict, transport, wsRef, hasConnected, fallback, wsStatus, shown>>

PageNext ==
  \/ Mount \/ Render \/ Retry \/ Unmount
  \/ \E l \in Links : OnOpen(l) \/ OnLinkClose(l)

-----------------------------------------------------------------------------
(* While the page is there its data is refreshed: it polls, or has a socket *)
(* or is about to make one, whatever fails in which order.  Once it is left *)
(* nothing stays on but, after strict mode, sockets it has lost sight of    *)
(* (useWebSocket.ts:56).                                                    *)
PageRefreshes ==
  /\ mounted = "yes" /\ shown = wsStatus =>
       poll \/ retries > 0 \/ \E l \in Links : link[l] \in Alive
  /\ mounted = "no" => ~poll /\ (strict \/ (retries = 0 /\ \A l \in Links : link[l] \notin Alive))
=============================================================================
