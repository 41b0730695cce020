----------------------------- MODULE ServerProofs -----------------------------
(***************************************************************************)
(* What the server process promises, for any limits, requests and clocks:  *)
(* its TURN credentials (TurnCredentials), and its end (Daemon).           *)
(***************************************************************************)
EXTENDS TurnCredentials, Daemon, TLAPS

Embedded == {"static", "host"}
Own(n)   == [owner |-> "process", boot |-> n]

\* The embedded server runs exactly while the process leads clients to it,
\* with a secret of this start of the process.
ServerInv ==
  /\ turn => running /\ servers \in Embedded /\ secret = Own(boot)
  /\ running /\ servers \in Embedded => turn

\* A credential tells its own lifetime, within the limit; one of the embedded
\* server is signed with the secret of the start it was issued in.
HeldInv ==
  Holds =>
    /\ held.exp = held.issued + held.ttl /\ held.ttl <= config.maxTurnTTL
    /\ held.boot <= boot
    /\ held.servers \in Embedded => held.secret = Own(held.boot)
    /\ running /\ held.boot = boot /\ held.servers \in Embedded => turn

TurnInv == TypeOK /\ ServerInv /\ HeldInv

-----------------------------------------------------------------------------
LEMMA MaxIsNat == TypeOK => config.maxTurnTTL \in Nat
<1> SUFFICES ASSUME TypeOK PROVE config.maxTurnTTL \in Nat
  OBVIOUS
<1>1. config.maxTurnTTL \in Limits
  BY Zenon DEF TypeOK, Configs
<1> QED
  BY <1>1, TurnAssumption

\* The order of the clamps bounds every ttl by the limit.
LEMMA ClampBounds ==
  ASSUME TypeOK, NEW ttl \in Nat
  PROVE  Clamp(ttl) \in Nat /\ Clamp(ttl) <= config.maxTurnTTL
BY MaxIsNat DEF Clamp, MinTTL

LEMMA Zero == 0 \in 0 .. MaxBoots
BY TurnAssumption

LEMMA SecretOfNobody == NoSecret \in Secret
BY Zero, Zenon DEF NoSecret, Secret

LEMMA TurnInitInv == Init => TurnInv
<1> SUFFICES ASSUME Init PROVE TurnInv
  OBVIOUS
<1>1. now \in 0 .. MaxNow /\ boot \in 0 .. MaxBoots /\ servers \in Servers
  BY TurnAssumption DEF Init, Servers
<1>2. TypeOK
  BY <1>1, SecretOfNobody, Zenon DEF Init, TypeOK
<1>3. ServerInv /\ HeldInv
  BY DEF Init, ServerInv, HeldInv, Holds, Embedded
<1> QED
  BY <1>2, <1>3 DEF TurnInv

LEMMA HeldTyped ==
  ASSUME TypeOK, Holds
  PROVE  /\ held \in Credentials
         /\ held.exp \in Nat /\ held.ttl \in Nat /\ held.issued \in Nat /\ held.boot \in Nat
         /\ held.servers \in Servers \ {"none"}
<1>1. held \in Credentials
  BY DEF TypeOK, Holds
<1>2. held.exp \in Nat /\ held.ttl \in Nat /\ held.issued \in Nat /\ held.boot \in Nat
      /\ held.servers \in Servers \ {"none"}
  BY <1>1, Zenon DEF Credentials
<1> QED
  BY <1>1, <1>2

LEMMA StartKeeps ==
  ASSUME TurnInv, Start
  PROVE  TurnInv'
<1> USE DEF TurnInv
<1>1. boot \in Nat /\ boot' = boot + 1 /\ boot' \in 0 .. MaxBoots
  BY TurnAssumption DEF TypeOK, Start
<1>2. /\ turn' \in BOOLEAN /\ servers' \in Servers
      /\ secret' \in {Own(boot'), [owner |-> "operator", boot |-> 0], NoSecret}
  BY <1>1 DEF Start, Own, Servers
<1>3. secret' \in Secret
  <2>1. Own(boot') \in Secret
    BY <1>1 DEF Own, Secret
  <2>2. [owner |-> "operator", boot |-> 0] \in Secret
    BY Zero, Zenon DEF Secret
  <2> QED
    BY <1>2, <2>1, <2>2, SecretOfNobody
<1>4. TypeOK'
  BY <1>1, <1>2, <1>3 DEF TypeOK, Start
<1>5. ServerInv'
  BY <1>1 DEF ServerInv, Start, Own, Embedded
<1>6. HeldInv'
  <2> SUFFICES ASSUME Holds' PROVE HeldInv'
    BY DEF HeldInv
  <2>1. Holds /\ held' = held /\ config' = config
    BY DEF Holds, Start
  <2>2. held.boot \in Nat /\ held.boot <= boot
    BY <2>1, HeldTyped DEF HeldInv
  <2>3. held.boot < boot'
    BY <1>1, <2>2
  <2> QED
    BY <1>1, <2>1, <2>2, <2>3 DEF HeldInv
<1> QED
  BY <1>4, <1>5, <1>6

LEMMA ExitKeeps ==
  ASSUME TurnInv, Exit
  PROVE  TurnInv'
<1>1. TypeOK'
  <2>1. servers' \in Servers
    BY DEF Exit, Servers
  <2> QED
    BY <2>1, SecretOfNobody, Zenon DEF TurnInv, TypeOK, Exit
<1>2. ServerInv'
  BY DEF ServerInv, Exit, Embedded
<1>3. HeldInv'
  BY DEF TurnInv, HeldInv, Holds, Exit
<1> QED
  BY <1>1, <1>2, <1>3 DEF TurnInv

LEMMA TickKeeps ==
  ASSUME TurnInv, Tick
  PROVE  TurnInv'
<1>1. now' \in 0 .. MaxNow
  BY TurnAssumption DEF TurnInv, TypeOK, Tick
<1>2. TypeOK'
  BY <1>1 DEF TurnInv, TypeOK, Tick
<1>3. ServerInv' /\ HeldInv'
  BY DEF TurnInv, ServerInv, HeldInv, Holds, Tick
<1> QED
  BY <1>2, <1>3 DEF TurnInv

LEMMA HandlerKeeps ==
  ASSUME TurnInv, HandleTurnCredentials
  PROVE  TurnInv'
<1> USE DEF TurnInv
<1>0. UNCHANGED <<config, now, boot, running, turn, secret, servers>> /\ verdict' = "none" /\ running
  BY DEF HandleTurnCredentials
<1>1. ServerInv'
  BY <1>0 DEF ServerInv
<1>2. CASE held' = Nothing
  <2>1. TypeOK'
    BY <1>0, <1>2 DEF TypeOK
  <2>2. HeldInv'
    BY <1>2 DEF HeldInv, Holds, Nothing
  <2> QED
    BY <1>1, <2>1, <2>2
<1>3. CASE held' # Nothing
  <2>1. PICK asked \in TTLs :
          LET ttl == Clamp(IF asked = 0 THEN DefaultTTL ELSE asked)
          IN  held' = [exp |-> now + ttl, ttl |-> ttl, issued |-> now,
                       secret |-> secret, servers |-> servers, boot |-> boot]
    BY <1>3 DEF HandleTurnCredentials
  <2>2. servers # "none"
    BY <1>3 DEF HandleTurnCredentials
  <2> DEFINE ttl == Clamp(IF asked = 0 THEN DefaultTTL ELSE asked)
             rec == [exp |-> now + ttl, ttl |-> ttl, issued |-> now,
                     secret |-> secret, servers |-> servers, boot |-> boot]
  <2>3. ttl \in Nat /\ ttl <= config.maxTurnTTL
    <3>1. (IF asked = 0 THEN DefaultTTL ELSE asked) \in Nat
      BY TurnAssumption DEF DefaultTTL
    <3> QED
      BY <3>1, ClampBounds
  <2>4. now \in Nat /\ boot \in Nat
    BY DEF TypeOK
  <2> HIDE DEF ttl
  <2>5. now + ttl \in Nat
    BY <2>3, <2>4
  <2>6. rec \in Credentials
    BY <2>2, <2>3, <2>4, <2>5, Zenon DEF Credentials, TypeOK
  <2>7. held' = rec
    BY <2>1 DEF ttl
  <2>8. TypeOK'
    BY <1>0, <2>6, <2>7 DEF TypeOK
  <2>9. /\ rec.exp = now + ttl /\ rec.ttl = ttl /\ rec.issued = now
        /\ rec.secret = secret /\ rec.servers = servers /\ rec.boot = boot
    BY Zenon
  <2> HIDE DEF rec
  <2>10. HeldInv'
    BY <1>0, <2>3, <2>4, <2>7, <2>9 DEF HeldInv, ServerInv
  <2> QED
    BY <1>1, <2>8, <2>10
<1> QED
  BY <1>2, <1>3

LEMMA TurnNextInv == TurnInv /\ [Next]_vars => TurnInv'
<1> SUFFICES ASSUME TurnInv, [Next]_vars
             PROVE  TurnInv'
  OBVIOUS
<1>1. CASE Start
  BY <1>1, StartKeeps
<1>2. CASE Exit
  BY <1>2, ExitKeeps
<1>3. CASE Tick
  BY <1>3, TickKeeps
<1>4. CASE HandleTurnCredentials
  BY <1>4, HandlerKeeps
<1>5. CASE AuthHandler
  BY <1>5 DEF TurnInv, TypeOK, ServerInv, HeldInv, Holds, AuthHandler
<1>6. CASE UNCHANGED vars
  BY <1>6 DEF TurnInv, TypeOK, ServerInv, HeldInv, Holds, vars
<1> QED
  BY <1>1, <1>2, <1>3, <1>4, <1>5, <1>6 DEF Next

LEMMA TurnInvariance == Spec => []TurnInv
BY TurnInitInv, TurnNextInv, PTL DEF Spec

\* What AuthHandler decides about a credential, in terms of its own record.
LEMMA Decides ==
  ASSUME TurnInv, AuthHandler
  PROVE  /\ now \in Nat /\ held.issued \in Nat /\ held.ttl \in Nat
         /\ verdict' = "accepted" <=> now <= held.issued + held.ttl /\ held.boot = boot
<1>1. Holds /\ held.servers \in Embedded /\ secret = Own(boot)
  BY DEF AuthHandler, TurnInv, ServerInv, Embedded
<1>2. held.exp = held.issued + held.ttl /\ held.secret = Own(held.boot)
  BY <1>1 DEF TurnInv, HeldInv
<1>3. now \in Nat /\ held.issued \in Nat /\ held.ttl \in Nat /\ held.boot \in Nat
  BY <1>1, HeldTyped DEF TurnInv, TypeOK
<1>4. Own(held.boot) = Own(boot) <=> held.boot = boot
  <2>1. Own(held.boot).boot = held.boot /\ Own(boot).boot = boot
    BY Zenon DEF Own
  <2> QED
    BY <2>1
<1>5. verdict' = IF now > held.exp \/ held.secret # secret THEN "rejected" ELSE "accepted"
  BY DEF AuthHandler
<1> QED
  BY <1>1, <1>2, <1>3, <1>4, <1>5

-----------------------------------------------------------------------------
(* Theorems *)

\* Clients are led to the embedded server only while it runs, and with its
\* own secret (main.go:173-200; handlers.go:260-264).
THEOREM OffersAreServed == Spec => []EmbeddedOffersAreServed
<1>1. TurnInv => EmbeddedOffersAreServed
  <2> SUFFICES ASSUME TurnInv, running, Holds, held.boot = boot, held.servers # "configured"
               PROVE  turn /\ held.secret = secret
    BY DEF EmbeddedOffersAreServed
  <2>1. held.servers \in Embedded
    BY HeldTyped DEF TurnInv, Servers, Embedded
  <2> QED
    BY <2>1 DEF TurnInv, HeldInv, ServerInv
<1> QED
  BY TurnInvariance, <1>1, PTL

\* Handler and AuthHandler agree on every second of a credential's life,
\* whatever the limits and the clock (handlers.go:284-302; server.go:107).
THEOREM AcceptedAsTold == Spec => AcceptedWhileTold
<1>1. TurnInv /\ [Next]_vars =>
        [AuthHandler /\ held.boot = boot =>
           (verdict' = "accepted" <=> now <= held.issued + held.ttl)]_vars
  BY Decides
<1> QED
  BY TurnInvariance, <1>1, PTL DEF Spec, AcceptedWhileTold

\* No credential outlives MaxTurnTTL or the process that issued it
\* (handlers.go:279-281; main.go:180).
THEOREM LifetimesBounded == Spec => LifetimeBounded
<1>1. TurnInv /\ [Next]_vars =>
        [AuthHandler /\ verdict' = "accepted" =>
           now <= held.issued + config.maxTurnTTL /\ held.boot = boot]_vars
  <2> SUFFICES ASSUME TurnInv, AuthHandler, verdict' = "accepted"
               PROVE  now <= held.issued + config.maxTurnTTL /\ held.boot = boot
    OBVIOUS
  <2>1. held.ttl <= config.maxTurnTTL /\ config.maxTurnTTL \in Nat
    BY MaxIsNat DEF TurnInv, HeldInv, AuthHandler
  <2> QED
    BY <2>1, Decides
<1> QED
  BY TurnInvariance, <1>1, PTL DEF Spec, LifetimeBounded

-----------------------------------------------------------------------------
(* The end of the process *)


\* From the draining on nothing new is accepted.
Closed == main \in {"draining", "turn"} \cup Ended => ~listening

\* The process goes on after the draining only with nothing in flight or late.
Waited == main = "turn" => InFlight = {} \/ late

DaemonInv == DaemonTypeOK /\ Closed /\ Waited /\ CutOnlyLate

LEMMA DaemonInitInv == DaemonInit => DaemonInv
BY DaemonAssumption DEF DaemonInit, DaemonInv, DaemonTypeOK, Closed, Waited, CutOnlyLate, Main, Ended, Kind

\* What happens to requests while main stays where it is.
LEMMA RequestsKeep ==
  ASSUME DaemonInv, NEW r \in Requests, Accept(r) \/ LookUp(r) \/ Offer(r) \/ Answer(r)
  PROVE  DaemonInv'
<1>1. DaemonTypeOK'
  BY DEF DaemonInv, DaemonTypeOK, Accept, LookUp, Offer, Answer, Main, Kind
<1>2. Closed'
  BY DEF DaemonInv, Closed, Accept, LookUp, Offer, Answer, Ended
<1>3. Waited'
  <2>1. CASE Accept(r)
    BY <2>1 DEF DaemonInv, Waited, Closed, Accept
  <2>2. CASE LookUp(r) \/ Offer(r) \/ Answer(r)
    <3>1. r \in InFlight
      BY <2>2 DEF InFlight, LookUp, Offer, Answer
    <3>2. main' = main /\ late' = late
      BY <2>2 DEF LookUp, Offer, Answer
    <3> QED
      BY <3>1, <3>2 DEF DaemonInv, Waited
  <2> QED
    BY <2>1, <2>2
<1>4. CutOnlyLate'
  BY DEF DaemonInv, DaemonTypeOK, CutOnlyLate, Accept, LookUp, Offer, Answer
<1> QED
  BY <1>1, <1>2, <1>3, <1>4 DEF DaemonInv

\* What main does while no request changes.
LEMMA MainKeeps ==
  ASSUME DaemonInv,
         \/ SessionCloses \/ Run \/ RunFails \/ Signal \/ RunLate \/ Timeout
         \/ ManagerShutdown \/ GeoIPClose \/ HTTPShutdown \/ Drained
  PROVE  DaemonInv'
<1> USE DEF SessionCloses, Run, RunFails, Signal, RunLate, Timeout, ManagerShutdown, GeoIPClose,
            HTTPShutdown, Drained
<1>1. DaemonTypeOK'
  BY DEF DaemonInv, DaemonTypeOK, Main
<1>2. Closed'
  BY DEF DaemonInv, Closed, Ended, DaemonTypeOK, Main
<1>3. request' = request /\ (late => late')
  BY DEF DaemonInv, DaemonTypeOK
<1>4. Waited'
  BY <1>3 DEF DaemonInv, Waited, InFlight, DaemonTypeOK, Main
<1>5. CutOnlyLate'
  BY <1>3 DEF DaemonInv, CutOnlyLate
<1> QED
  BY <1>1, <1>2, <1>4, <1>5 DEF DaemonInv

\* The end of the process cuts what is in flight.
LEMMA EndCutsLate ==
  ASSUME DaemonInv, TurnClose
  PROVE  DaemonInv'
<1>1. DaemonTypeOK'
  BY DEF DaemonInv, DaemonTypeOK, TurnClose, Main
<1>2. Closed' /\ Waited'
  BY DEF DaemonInv, Closed, Waited, TurnClose, Ended
<1>3. CutOnlyLate'
  <2>1. \A r \in Requests : request'[r] = "cut" => request[r] = "cut" \/ r \in InFlight
    BY DEF TurnClose
  <2>2. late' = late /\ (InFlight = {} \/ late)
    BY DEF DaemonInv, Waited, TurnClose
  <2> QED
    BY <2>1, <2>2 DEF DaemonInv, CutOnlyLate
<1> QED
  BY <1>1, <1>2, <1>3 DEF DaemonInv

LEMMA DaemonNextInv == DaemonInv /\ [DaemonNext]_daemonVars => DaemonInv'
<1> SUFFICES ASSUME DaemonInv, [DaemonNext]_daemonVars
             PROVE  DaemonInv'
  OBVIOUS
<1>1. ASSUME NEW r \in Requests, Accept(r) \/ LookUp(r) \/ Offer(r) \/ Answer(r)
      PROVE  DaemonInv'
  BY <1>1, RequestsKeep
<1>2. CASE \/ SessionCloses \/ Run \/ RunFails \/ Signal \/ RunLate \/ Timeout
           \/ ManagerShutdown \/ GeoIPClose \/ HTTPShutdown \/ Drained
  BY <1>2, MainKeeps
<1>3. CASE TurnClose
  BY <1>3, EndCutsLate
<1>4. CASE UNCHANGED daemonVars
  BY <1>4 DEF DaemonInv, DaemonTypeOK, Closed, Waited, CutOnlyLate, InFlight, daemonVars
<1> QED
  BY <1>1, <1>2, <1>3, <1>4 DEF DaemonNext, Shutdown

\* Whatever the number of requests and whenever the signal comes, none is cut
\* before the 30 s have passed (main.go:220-232; server.go:235).
THEOREM CutLateOnly == DaemonSpec => []CutOnlyLate
<1>1. DaemonInv => CutOnlyLate
  BY DEF DaemonInv
<1> QED
  BY DaemonInitInv, DaemonNextInv, <1>1, PTL DEF DaemonSpec
=============================================================================
