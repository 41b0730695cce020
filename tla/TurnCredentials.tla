--------------------------- MODULE TurnCredentials ---------------------------
(***************************************************************************)
(* The credentials of the TURN server, from the configuration of the       *)
(* process to their use: main() starts the embedded server unless one is   *)
(* configured (cmd/netspeedd/main.go), handleTurnCredentials issues        *)
(* credentials that expire (internal/server/handlers.go), and the          *)
(* embedded server accepts or rejects them (internal/turn/server.go). The  *)
(* process may be restarted while clients hold credentials.                *)
(*                                                                         *)
(* Times are in seconds. An HMAC is its key: the password of a username    *)
(* made with a secret matches only the one made with the same secret.      *)
(***************************************************************************)
EXTENDS Integers

CONSTANTS
  Limits,   \* the values of MaxTurnTTL
  TTLs,     \* the ttl parameters of requests; 0 stands for none, or no number
  Steps,    \* bound: by how much the clock may advance at a time
  MaxNow, MaxBoots \* bounds: the clock, and how often the process is started

ASSUME TurnAssumption ==
  /\ Limits \subseteq Nat \ {0} /\ TTLs \subseteq Nat /\ Steps \subseteq Nat \ {0}
  /\ MaxNow \in Nat /\ MaxBoots \in Nat \ {0}

DefaultTTL == 600
MinTTL     == 60

VARIABLES
  config,  \* the settings of the operator, the same at every start
  now,     \* time.Now().Unix()
  boot,    \* how often the process has been started
  running, \* whether it runs
  turn,    \* whether its embedded TURN server runs
  secret,  \* cfg.TurnSecret: "" or the operator's, or [boot |-> n] if random
  servers, \* what cfg.TurnServers and EmbeddedTurnPort lead to
  held,    \* the credentials a client holds, or Nothing
  verdict  \* what AuthHandler said to the client last

vars == <<config, now, boot, running, turn, secret, servers, held, verdict>>

Configs == [embeddedTurn : BOOLEAN, turnSecret : BOOLEAN, turnServers : BOOLEAN,
            publicIP : BOOLEAN, interface : BOOLEAN, maxTurnTTL : Limits]

\* "configured" are the operator's servers; "static" and "host" are URLs of
\* the embedded one, with an address of the process or of the request.
Servers == {"none", "configured", "static", "host"}
Secret  == [owner : {"nobody", "operator", "process"}, boot : 0 .. MaxBoots]
NoSecret == [owner |-> "nobody", boot |-> 0]

Credentials == [exp : Nat, ttl : Nat, issued : Nat, secret : Secret,
                servers : Servers \ {"none"}, boot : Nat]
Nothing == [exp |-> 0]

TypeOK ==
  /\ config \in Configs /\ now \in 0 .. MaxNow /\ boot \in 0 .. MaxBoots
  /\ running \in BOOLEAN /\ turn \in BOOLEAN /\ secret \in Secret /\ servers \in Servers
  /\ held \in Credentials \cup {Nothing} /\ verdict \in {"none", "accepted", "rejected"}

Init ==
  /\ config \in Configs /\ now = 0 /\ boot = 0 /\ running = FALSE /\ turn = FALSE
  /\ secret = NoSecret /\ servers = "none" /\ held = Nothing /\ verdict = "none"

-----------------------------------------------------------------------------
(* The process *)

\* Mutant: an embedded server that did not start is offered.
StartUnchecked ==
  /\ ~running /\ boot < MaxBoots
  /\ boot' = boot + 1 /\ running' = TRUE
  /\ \/ /\ config.embeddedTurn /\ ~config.turnSecret /\ ~config.turnServers
        /\ turn' \in BOOLEAN /\ secret' = [owner |-> "process", boot |-> boot + 1]
        /\ servers' = IF config.publicIP \/ config.interface THEN "static" ELSE "host"
     \/ /\ turn' = FALSE
        /\ secret' = IF config.turnSecret THEN [owner |-> "operator", boot |-> 0] ELSE NoSecret
        /\ servers' = IF config.turnServers THEN "configured" ELSE "none"
  /\ UNCHANGED <<config, now, held, verdict>>

\* Binding the UDP port may fail, which is only logged.
Start ==
  /\ ~running /\ boot < MaxBoots
  /\ boot' = boot + 1 /\ running' = TRUE
  /\ \/ /\ config.embeddedTurn /\ ~config.turnSecret /\ ~config.turnServers
        /\ turn' = TRUE /\ secret' = [owner |-> "process", boot |-> boot + 1]
        /\ servers' = IF config.publicIP \/ config.interface THEN "static" ELSE "host"
     \/ /\ turn' = FALSE
        /\ secret' = IF config.turnSecret THEN [owner |-> "operator", boot |-> 0] ELSE NoSecret
        /\ servers' = IF config.turnServers THEN "configured" ELSE "none"
  /\ UNCHANGED <<config, now, held, verdict>>

\* A crash, or the end of main: the embedded server goes with the process.
Exit ==
  /\ running /\ running' = FALSE /\ turn' = FALSE
  /\ secret' = NoSecret /\ servers' = "none"
  /\ UNCHANGED <<config, now, boot, held, verdict>>

Tick ==
  /\ \E d \in Steps : now + d <= MaxNow /\ now' = now + d
  /\ UNCHANGED <<config, boot, running, turn, secret, servers, held, verdict>>

-----------------------------------------------------------------------------
(* The handler *)

\* Mutant: the upper clamp is missing.
ClampBelowOnly(ttl) == IF ttl < MinTTL THEN MinTTL ELSE ttl

\* The two clamps, in their order.
Clamp(ttl) ==
  LET raised == IF ttl < MinTTL THEN MinTTL ELSE ttl
  IN  IF raised > config.maxTurnTTL THEN config.maxTurnTTL ELSE raised

HandleTurnCredentials ==
  /\ running
  /\ IF secret = NoSecret \/ servers = "none"
       THEN held' = Nothing \* 503
       ELSE \E asked \in TTLs :
              LET ttl == Clamp(IF asked = 0 THEN DefaultTTL ELSE asked)
              IN  held' = [exp |-> now + ttl, ttl |-> ttl, issued |-> now,
                           secret |-> secret, servers |-> servers, boot |-> boot]
  /\ verdict' = "none"
  /\ UNCHANGED <<config, now, boot, running, turn, secret, servers>>

-----------------------------------------------------------------------------
(* The embedded TURN server *)

Holds == held # Nothing

\* Mutant: the second of the expiry counts as late.
AuthHandlerAtExpiry ==
  /\ turn /\ Holds /\ held.servers \in {"static", "host"}
  /\ verdict' = IF now >= held.exp \/ held.secret # secret THEN "rejected" ELSE "accepted"
  /\ UNCHANGED <<config, now, boot, running, turn, secret, servers, held>>

AuthHandler ==
  /\ turn /\ Holds /\ held.servers \in {"static", "host"}
  /\ verdict' = IF now > held.exp \/ held.secret # secret THEN "rejected" ELSE "accepted"
  /\ UNCHANGED <<config, now, boot, running, turn, secret, servers, held>>

Next == Start \/ Exit \/ Tick \/ HandleTurnCredentials \/ AuthHandler

Spec == Init /\ [][Next]_vars

-----------------------------------------------------------------------------
(* Properties *)

\* The TURN server accepts a credential of its own process exactly as long
\* as the client was told, the second of its expiry included
\* (handlers.go:284-302; turn/server.go:107).
AcceptedWhileTold ==
  [][AuthHandler /\ held.boot = boot =>
       (verdict' = "accepted" <=> now <= held.issued + held.ttl)]_vars

\* No credential is accepted for longer than MaxTurnTTL after its issue, nor
\* by another process than the one that issued it, whatever was asked for
\* (handlers.go:279-281; main.go:180).
LifetimeBounded ==
  [][AuthHandler /\ verdict' = "accepted" =>
       now <= held.issued + config.maxTurnTTL /\ held.boot = boot]_vars

\* A client is sent to the embedded server only when it runs, with a secret
\* that is its own; when it could not be started the answer is 503
\* (main.go:173-200; handlers.go:260-264).
EmbeddedOffersAreServed ==
  running /\ Holds /\ held.boot = boot /\ held.servers # "configured" =>
    turn /\ held.secret = secret

\* netspeedd-spec.md:805: "ttl := clamp(requestedTTL, 60, cfg.MaxTurnTTL)".
AtLeastAMinute == Holds => held.ttl >= MinTTL

\* main.go:189: "If public IP is set, use static URL; otherwise handler uses
\* request host".
HostWithoutPublicIP == turn /\ ~config.publicIP => servers = "host"
=============================================================================
