------------------------------- MODULE Daemon --------------------------------
(***************************************************************************)
(* The life of a netspeedd process: main() (cmd/netspeedd/main.go) starts  *)
(* the HTTP server and waits for a signal; Server.Shutdown                 *)
(* (internal/server/server.go) then shuts the WebRTC manager down, closes  *)
(* the GeoIP database and drains the HTTP server, for 30 s in all, and     *)
(* main closes the embedded TURN server. Requests go on meanwhile, and     *)
(* new ones are accepted until the draining starts.                        *)
(*                                                                         *)
(* What the manager does within Shutdown is module SessionManager. A       *)
(* request is a download or a question for metadata, which look the client *)
(* up, or an offer, which leaves a session with the manager.               *)
(***************************************************************************)
EXTENDS Integers, FiniteSets

CONSTANTS Requests, HasGeoIP

ASSUME DaemonAssumption == HasGeoIP \in BOOLEAN

VARIABLES
  main,      \* where main() is
  listening, \* whether connections are accepted
  request,   \* the state of each request
  kind,      \* what each request is
  located,   \* the requests that were answered with what the database says
  db,        \* the GeoIP database: "none", "open", "closed"
  sessions,  \* the offers whose session is in the manager
  late       \* whether the 30 s of the context have passed

daemonVars == <<main, listening, request, kind, located, db, sessions, late>>

Main == {"starting", "serving", "manager", "geoip", "http", "draining", "turn", "stopped", "failed"}
Kind == {"lookup", "offer"}
InFlight == {r \in Requests : request[r] \in {"accepted", "working"}}
Ended    == {"stopped", "failed"}

DaemonTypeOK ==
  /\ main \in Main /\ listening \in BOOLEAN /\ late \in BOOLEAN
  /\ request \in [Requests -> {"none", "accepted", "working", "answered", "cut"}]
  /\ kind \in [Requests -> Kind] /\ located \subseteq Requests /\ sessions \subseteq Requests
  /\ db \in IF HasGeoIP THEN {"open", "closed"} ELSE {"none"}

DaemonInit ==
  /\ main = "starting" /\ listening = FALSE /\ late = FALSE
  /\ request = [r \in Requests |-> "none"] /\ kind \in [Requests -> Kind]
  /\ located = {} /\ sessions = {} /\ db = IF HasGeoIP THEN "open" ELSE "none"

-----------------------------------------------------------------------------
(* Requests *)

Accept(r) ==
  /\ listening /\ request[r] = "none"
  /\ request' = [request EXCEPT ![r] = "accepted"]
  /\ UNCHANGED <<main, listening, kind, located, db, sessions, late>>

\* MetaFor: an error of the database leaves the defaults, and is logged.
LookUp(r) ==
  /\ request[r] = "accepted" /\ kind[r] = "lookup" /\ main \notin Ended
  /\ request' = [request EXCEPT ![r] = "working"]
  /\ located' = IF db = "closed" THEN located ELSE located \cup {r}
  /\ UNCHANGED <<main, listening, kind, db, sessions, late>>

\* HandleOffer stores its session, after Manager.Shutdown too.
Offer(r) ==
  /\ request[r] = "accepted" /\ kind[r] = "offer" /\ main \notin Ended
  /\ request' = [request EXCEPT ![r] = "working"] /\ sessions' = sessions \cup {r}
  /\ UNCHANGED <<main, listening, kind, located, db, late>>

\* The response is written, or its client is gone.
Answer(r) ==
  /\ request[r] = "working" /\ main \notin Ended
  /\ request' = [request EXCEPT ![r] = "answered"]
  /\ UNCHANGED <<main, listening, kind, located, db, sessions, late>>

\* The report of a packet test, or the manager's own sweep.
SessionCloses ==
  /\ main \notin Ended /\ \E r \in sessions : sessions' = sessions \ {r}
  /\ UNCHANGED <<main, listening, request, kind, located, db, late>>

-----------------------------------------------------------------------------
(* main() *)

Run ==
  /\ main = "starting" /\ main' = "serving" /\ listening' = TRUE
  /\ UNCHANGED <<request, kind, located, db, sessions, late>>

\* log.Fatalf, without Shutdown: the process is gone.
RunFails ==
  /\ main \in {"starting", "serving"} /\ main' = "failed" /\ listening' = FALSE
  /\ UNCHANGED <<request, kind, located, db, sessions, late>>

Signal ==
  /\ main \in {"starting", "serving"} /\ main' = "manager"
  /\ UNCHANGED <<listening, request, kind, located, db, sessions, late>>

\* Run goes on in its goroutine; Serve returns once Shutdown was called.
RunLate ==
  /\ main \in {"manager", "geoip"} /\ ~listening /\ listening' = TRUE
  /\ UNCHANGED <<main, request, kind, located, db, sessions, late>>

ManagerShutdown ==
  /\ main = "manager" /\ main' = "geoip" /\ sessions' = {}
  /\ UNCHANGED <<listening, request, kind, located, db, late>>

GeoIPClose ==
  /\ main = "geoip" /\ main' = "http"
  /\ db' = IF HasGeoIP THEN "closed" ELSE db
  /\ UNCHANGED <<listening, request, kind, located, sessions, late>>

HTTPShutdown ==
  /\ main = "http" /\ main' = "draining" /\ listening' = FALSE
  /\ UNCHANGED <<request, kind, located, db, sessions, late>>

\* The 30 s run from the signal.
Timeout ==
  /\ main \in {"manager", "geoip", "http", "draining"} /\ ~late /\ late' = TRUE
  /\ UNCHANGED <<main, listening, request, kind, located, db, sessions>>

\* Mutant: the process does not wait for the draining.
DrainedAtOnce ==
  /\ main = "draining" /\ main' = "turn"
  /\ UNCHANGED <<listening, request, kind, located, db, sessions, late>>

\* Mutant: draining without the context.
DrainedWithoutLimit ==
  /\ main = "draining" /\ InFlight = {} /\ main' = "turn"
  /\ UNCHANGED <<listening, request, kind, located, db, sessions, late>>

\* Shutdown returns when nothing is in flight, or with the error of ctx.
Drained ==
  /\ main = "draining" /\ (InFlight = {} \/ late) /\ main' = "turn"
  /\ UNCHANGED <<listening, request, kind, located, db, sessions, late>>

\* The TURN server is closed and main returns: what is in flight is cut.
TurnClose ==
  /\ main = "turn" /\ main' = "stopped" /\ sessions' = {}
  /\ request' = [r \in Requests |-> IF r \in InFlight THEN "cut" ELSE request[r]]
  /\ UNCHANGED <<listening, kind, located, db, late>>

Shutdown == ManagerShutdown \/ GeoIPClose \/ HTTPShutdown \/ Drained \/ TurnClose

DaemonNext ==
  \/ \E r \in Requests : Accept(r) \/ LookUp(r) \/ Offer(r) \/ Answer(r)
  \/ SessionCloses \/ Run \/ RunFails \/ Signal \/ RunLate \/ Timeout \/ Shutdown

\* main goes on and the timer of the context fires; requests need not end.
DaemonSpec == DaemonInit /\ [][DaemonNext]_daemonVars /\ WF_daemonVars(Shutdown) /\ WF_daemonVars(Timeout)

-----------------------------------------------------------------------------
(* Properties *)

\* A request is cut off only after the 30 s: one that was accepted before
\* the listener closed, after the signal too, is answered first
\* (main.go:220-232; server.go:235).
CutOnlyLate == \A r \in Requests : request[r] = "cut" => late

\* After a signal the process ends, whatever the requests do
\* (main.go:220-239).
SignalStops == main = "manager" ~> main = "stopped"

\* main.go:208: "Set up signal handling for graceful shutdown", and
\* server.go:225: "Shutdown gracefully shuts down the server": a request that
\* is answered during the shutdown is answered in full.
AnsweredInFull ==
  \A r \in Requests : request[r] = "answered" /\ kind[r] = "lookup" => r \in located
=============================================================================
