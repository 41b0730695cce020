--------------------------- MODULE SessionManager ---------------------------
(***************************************************************************)
(* The WebRTC session manager of netspeedd (internal/webrtc/manager.go) at *)
(* the granularity of its locks.  A test session is created by an offer,   *)
(* enters the manager's map only after ICE gathering, and is closed and    *)
(* removed by whichever comes first of four kinds of goroutine: the        *)
(* handler of a client's report, a connection-state callback of the peer   *)
(* connection, the cleanup loop and Shutdown.                              *)
(*                                                                         *)
(* The peer connection itself is a library (pion/webrtc): its transitions  *)
(* are the actions Peer...; a change to Disconnected, Failed or Closed     *)
(* runs the manager's callback in a goroutine of its own.                  *)
(*                                                                         *)
(* One Tick is one period of the cleanup ticker.  Only comparisons of a    *)
(* session's age and idle time with the configured limits matter, so both  *)
(* saturate one tick above their limit and the model needs no clock bound. *)
(***************************************************************************)
EXTENDS Naturals

CONSTANTS
  Session,         \* test IDs; every offer draws a fresh one
  NoSession,       \* not a test ID
  IdleTimeout,     \* Config.IdleTimeout, in ticks
  MaxSessionTime,  \* Config.MaxSessionTime, in ticks
  GatherTimeout,   \* the 10 s limit on ICE gathering, in ticks
  IceFailTime      \* earliest failure of a peer that never connected (library)

ASSUME NoSessionIsNone == NoSession \notin Session
ASSUME DurationsAssumption ==
  /\ IdleTimeout \in Nat /\ MaxSessionTime \in Nat
  /\ GatherTimeout \in Nat /\ IceFailTime \in Nat

PeerTerminal == {"Disconnected", "Failed", "Closed"}
Cause   == PeerTerminal \cup {"Report"}
Closer  == Session \X Cause            \* goroutines that call CloseSession(id)
Cleaner == <<NoSession, "Cleanup">>    \* the goroutine of cleanupLoop
Stopper == <<NoSession, "Shutdown">>   \* the goroutine that runs Shutdown
Sweeper == {Cleaner, Stopper}          \* both range over the whole map
Thread  == Closer \cup Sweeper
Nobody  == <<NoSession, "Nobody">>

VARIABLES
  sessions,  \* keys of Manager.sessions
  done,      \* sessions whose done channel is closed
  panicked,  \* a closed done channel was closed again
  offer,     \* progress of the HandleOffer call that creates each session
  peer,      \* state of each session's peer connection
  channel,   \* Session.DataChannel
  age,       \* time since CreatedAt
  idle,      \* time since LastActivity
  mu,        \* holder of Manager.mu
  pc,        \* where each goroutine that closes sessions is
  cursor,    \* loop variable of each sweeper
  todo,      \* sessions the sweep in progress has still to visit
  aged,      \* sessions older than MaxSessionTime at the sweep's "now"
  stale,     \* sessions idle longer than IdleTimeout at the sweep's "now"
  tickDue    \* an undelivered value in the cleanup ticker's channel

peerVars  == <<peer, channel, age, idle>>
closeVars == <<done, panicked, sessions>>
lockVars  == <<mu, pc>>
sweepVars == <<cursor, todo, aged, stale, tickDue>>
vars == <<offer, peerVars, closeVars, lockVars, sweepVars>>

OfferStep == {"none", "negotiating", "gathering", "storing", "answered", "refused"}
PeerState == {"none", "connecting", "connected"} \cup PeerTerminal
Step == {"idle", "lock", "sweep", "check", "signal", "channel", "peer", "delete", "over"}

TypeOK ==
  /\ sessions \subseteq Session /\ done \subseteq Session
  /\ panicked \in BOOLEAN
  /\ offer \in [Session -> OfferStep]
  /\ peer \in [Session -> PeerState]
  /\ channel \in [Session -> {"none", "open", "closed"}]
  /\ age \in [Session -> 0 .. MaxSessionTime + 1]
  /\ idle \in [Session -> 0 .. IdleTimeout + 1]
  /\ mu \in Thread \cup {Nobody}
  /\ pc \in [Thread -> Step]
  /\ cursor \in [Sweeper -> Session \cup {NoSession}]
  /\ todo \subseteq Session /\ aged \subseteq Session /\ stale \subseteq Session
  /\ tickDue \in BOOLEAN

Init ==
  /\ sessions = {} /\ done = {} /\ panicked = FALSE
  /\ offer = [s \in Session |-> "none"]
  /\ peer = [s \in Session |-> "none"]
  /\ channel = [s \in Session |-> "none"]
  /\ age = [s \in Session |-> 0]
  /\ idle = [s \in Session |-> 0]
  /\ mu = Nobody
  /\ pc = [t \in Thread |-> "idle"]
  /\ cursor = [t \in Sweeper |-> NoSession]
  /\ todo = {} /\ aged = {} /\ stale = {}
  /\ tickDue = FALSE

-----------------------------------------------------------------------------
(* Goroutines started by a callback or a request.  A second one for the    *)
(* same session and cause, while the first waits, calls the same function  *)
(* with the same argument; the model keeps one.                            *)

Spawned(t) == IF pc[t] = "idle" THEN [pc EXCEPT ![t] = "lock"] ELSE pc

\* PeerConnection.Close: idempotent, closes the peer's data channels, and
\* reports Closed to the state callback without waiting for it.
ClosedPeer(s) ==
  /\ peer' = [peer EXCEPT ![s] = "Closed"]
  /\ channel' = [channel EXCEPT ![s] = IF @ = "open" THEN "closed" ELSE @]

\* Nobody reads the times of a session that was refused or removed: its
\* record is garbage, and the model sets them back to 0.
Forget(s) ==
  /\ age' = [age EXCEPT ![s] = 0]
  /\ idle' = [idle EXCEPT ![s] = 0]

AfterClose(s) == IF peer[s] = "Closed" THEN pc ELSE Spawned(<<s, "Closed">>)

-----------------------------------------------------------------------------
(* HandleOffer *)

OfferAdvances(s, from, to) ==
  /\ offer[s] = from
  /\ offer' = [offer EXCEPT ![s] = to]

\* NewPeerConnection fails: nothing was created.
OfferNotCreated(s) ==
  /\ OfferAdvances(s, "none", "refused")
  /\ UNCHANGED <<peerVars, closeVars, lockVars, sweepVars>>

\* The session record and its peer connection exist; both clocks start here.
OfferCreated(s) ==
  /\ OfferAdvances(s, "none", "negotiating")
  /\ peer' = [peer EXCEPT ![s] = "connecting"]
  /\ age' = [age EXCEPT ![s] = 0]
  /\ idle' = [idle EXCEPT ![s] = 0]
  /\ UNCHANGED <<channel, closeVars, lockVars, sweepVars>>

\* Mutant: an error return that leaves the peer connection open.
OfferRefusedOpen(s, from) ==
  /\ OfferAdvances(s, from, "refused")
  /\ UNCHANGED <<peerVars, closeVars, lockVars, sweepVars>>

\* The peer connection is closed and the client gets an error: either one
\* of the three SDP calls failed, or gathering outlasted its timer.
OfferRefused(s, from) ==
  /\ OfferAdvances(s, from, "refused")
  /\ ClosedPeer(s)
  /\ pc' = AfterClose(s)
  /\ Forget(s)
  /\ UNCHANGED <<closeVars, mu, sweepVars>>

OfferInvalid(s) == OfferRefused(s, "negotiating")

OfferTimesOut(s) == age[s] >= GatherTimeout /\ OfferRefused(s, "gathering")

OfferNegotiated(s) ==
  /\ OfferAdvances(s, "negotiating", "gathering")
  /\ UNCHANGED <<peerVars, closeVars, lockVars, sweepVars>>

OfferGathered(s) ==
  /\ OfferAdvances(s, "gathering", "storing")
  /\ UNCHANGED <<peerVars, closeVars, lockVars, sweepVars>>

\* Lock, store, unlock, and return the answer.
OfferStored(s) ==
  /\ mu = Nobody
  /\ OfferAdvances(s, "storing", "answered")
  /\ sessions' = sessions \cup {s}
  /\ UNCHANGED <<peerVars, done, panicked, lockVars, sweepVars>>

-----------------------------------------------------------------------------
(* The peer connection (library) and the callbacks set on it *)

PeerBecomes(s, from, to) ==
  /\ peer[s] \in from
  /\ peer' = [peer EXCEPT ![s] = to]
  /\ pc' = IF to \in PeerTerminal THEN Spawned(<<s, to>>) ELSE pc
  /\ UNCHANGED <<offer, channel, age, idle, closeVars, mu, sweepVars>>

\* The client can connect only with the answer in hand.
PeerConnects(s) ==
  /\ offer[s] = "answered"
  /\ PeerBecomes(s, {"connecting", "Disconnected"}, "connected")

PeerDisconnects(s) == PeerBecomes(s, {"connected"}, "Disconnected")

\* From gathering on the ICE agent is checking; it gives up on its own.
PeerFails(s) ==
  /\ offer[s] \in {"gathering", "storing", "answered"}
  /\ peer[s] = "connecting" => age[s] >= IceFailTime
  /\ PeerBecomes(s, {"connecting", "Disconnected"}, "Failed")

Touch(s) ==
  /\ idle' = [idle EXCEPT ![s] = 0]
  /\ stale' = stale \ {s}      \* its idle time at the sweep's "now" is negative

\* OnDataChannel sets Session.DataChannel, without a lock, and its handlers;
\* OnOpen follows at once.
ChannelOpens(s) ==
  /\ peer[s] = "connected" /\ channel[s] = "none"
  /\ channel' = [channel EXCEPT ![s] = "open"]
  /\ Touch(s)
  /\ UNCHANGED <<offer, peer, age, closeVars, lockVars, cursor, todo, aged, tickDue>>

\* OnMessage: a probe of the packet-loss test (its statistics and its ack do
\* not concern the session's life).
MessageArrives(s) ==
  /\ peer[s] = "connected" /\ channel[s] # "none"
  /\ Touch(s)
  /\ UNCHANGED <<offer, peer, channel, age, closeVars, lockVars, cursor, todo, aged, tickDue>>

-----------------------------------------------------------------------------
(* Time, requests and shutdown *)

Older(n, limit) == IF n > limit THEN n ELSE n + 1

Timed(s) == s \in sessions \/ offer[s] \in {"negotiating", "gathering", "storing"}

Tick ==
  /\ age' = [s \in Session |-> IF Timed(s) THEN Older(age[s], MaxSessionTime) ELSE 0]
  /\ idle' = [s \in Session |-> IF Timed(s) THEN Older(idle[s], IdleTimeout) ELSE 0]
  /\ tickDue' = TRUE
  /\ UNCHANGED <<offer, peer, channel, closeVars, lockVars, cursor, todo, aged, stale>>

\* The client knows the test ID once its offer is answered.
ReportArrives(s) ==
  /\ offer[s] = "answered" /\ pc[<<s, "Report">>] = "idle"
  /\ pc' = Spawned(<<s, "Report">>)
  /\ UNCHANGED <<offer, peerVars, closeVars, mu, sweepVars>>

\* The loop of cleanupLoop receives from the ticker.
CleanupStarts ==
  /\ tickDue /\ pc[Cleaner] = "idle"
  /\ tickDue' = FALSE
  /\ pc' = [pc EXCEPT ![Cleaner] = "lock"]
  /\ UNCHANGED <<offer, peerVars, closeVars, mu, cursor, todo, aged, stale>>

ShutdownStarts ==
  /\ pc[Stopper] = "idle"
  /\ pc' = [pc EXCEPT ![Stopper] = "lock"]
  /\ UNCHANGED <<offer, peerVars, closeVars, mu, sweepVars>>

-----------------------------------------------------------------------------
(* CloseSession, cleanupExpired and Shutdown: all under mu *)

\* The session that thread t is closing: the test ID it was called with, or
\* the loop variable of a sweep.
Target(t) == IF t \in Sweeper THEN cursor[t] ELSE t[1]

\* Mutant: CloseSession without the lock.
CloseSessionUnlocked(t) ==
  /\ t \in Closer /\ pc[t] = "lock"
  /\ IF t[1] \in sessions
       THEN mu' = t /\ pc' = [pc EXCEPT ![t] = "check"]
       ELSE mu' = mu /\ pc' = [pc EXCEPT ![t] = "idle"]
  /\ UNCHANGED <<offer, peerVars, closeVars, sweepVars>>

\* CloseSession: lock, look the ID up; an unknown ID unlocks and returns.
CloseSession(t) ==
  /\ t \in Closer /\ pc[t] = "lock" /\ mu = Nobody
  /\ IF t[1] \in sessions
       THEN mu' = t /\ pc' = [pc EXCEPT ![t] = "check"]
       ELSE mu' = mu /\ pc' = [pc EXCEPT ![t] = "idle"]
  /\ UNCHANGED <<offer, peerVars, closeVars, sweepVars>>

\* Mutant: the limit itself counts as exceeded.
ExceedsOrMeets(time, limit) == time >= limit

Exceeds(time, limit) == time > limit

\* cleanupExpired and Shutdown: lock and start ranging over the map.
SweepLocks(t) ==
  /\ t \in Sweeper /\ pc[t] = "lock" /\ mu = Nobody
  /\ mu' = t
  /\ pc' = [pc EXCEPT ![t] = "sweep"]
  /\ todo' = sessions
  /\ aged' = {s \in sessions : t = Cleaner /\ Exceeds(age[s], MaxSessionTime)}
  /\ stale' = {s \in sessions : t = Cleaner /\ Exceeds(idle[s], IdleTimeout)}
  /\ UNCHANGED <<offer, peerVars, closeVars, cursor, tickDue>>

\* Shutdown closes every session, cleanup the expired ones.
Sweeps(t, s) == t = Stopper \/ s \in aged \cup stale

\* Mutant: a sweep that ends with its first session.
SweepVisitsOne(t, s) ==
  /\ t \in Sweeper /\ pc[t] = "sweep" /\ s \in todo
  /\ todo' = {}
  /\ IF Sweeps(t, s)
       THEN cursor' = [cursor EXCEPT ![t] = s] /\ pc' = [pc EXCEPT ![t] = "check"]
       ELSE UNCHANGED <<cursor, pc>>
  /\ UNCHANGED <<offer, peerVars, closeVars, mu, aged, stale, tickDue>>

SweepVisits(t, s) ==
  /\ t \in Sweeper /\ pc[t] = "sweep" /\ s \in todo
  /\ todo' = todo \ {s}
  /\ IF Sweeps(t, s)
       THEN cursor' = [cursor EXCEPT ![t] = s] /\ pc' = [pc EXCEPT ![t] = "check"]
       ELSE UNCHANGED <<cursor, pc>>
  /\ UNCHANGED <<offer, peerVars, closeVars, mu, aged, stale, tickDue>>

SweepEnds(t) ==
  /\ t \in Sweeper /\ pc[t] = "sweep" /\ todo = {}
  /\ mu' = Nobody
  /\ pc' = [pc EXCEPT ![t] = IF t = Stopper THEN "over" ELSE "idle"]
  /\ cursor' = [cursor EXCEPT ![t] = NoSession]
  /\ aged' = {} /\ stale' = {}
  /\ UNCHANGED <<offer, peerVars, closeVars, todo, tickDue>>

-----------------------------------------------------------------------------
(* Session.Close, which takes no lock of its own, one access at a time *)

\* Mutant: the cases of the select swapped.
CheckDoneInverted(t) ==
  /\ pc[t] = "check"
  /\ pc' = [pc EXCEPT ![t] = IF Target(t) \notin done THEN "delete" ELSE "signal"]
  /\ UNCHANGED <<offer, peerVars, closeVars, mu, sweepVars>>

\* select on done: an already closed session returns to its caller.
CheckDone(t) ==
  /\ pc[t] = "check"
  /\ pc' = [pc EXCEPT ![t] = IF Target(t) \in done THEN "delete" ELSE "signal"]
  /\ UNCHANGED <<offer, peerVars, closeVars, mu, sweepVars>>

\* close(done): closing a closed channel panics.
SignalDone(t) ==
  /\ pc[t] = "signal"
  /\ panicked' = (panicked \/ Target(t) \in done)
  /\ done' = done \cup {Target(t)}
  /\ pc' = [pc EXCEPT ![t] = "channel"]
  /\ UNCHANGED <<offer, peerVars, sessions, mu, sweepVars>>

\* Mutant: Close forgets the peer connection.
CloseChannelReturns(t) ==
  /\ pc[t] = "channel"
  /\ channel' = [channel EXCEPT ![Target(t)] = IF @ = "open" THEN "closed" ELSE @]
  /\ pc' = [pc EXCEPT ![t] = "delete"]
  /\ UNCHANGED <<offer, peer, age, idle, closeVars, mu, sweepVars>>

CloseChannel(t) ==
  /\ pc[t] = "channel"
  /\ channel' = [channel EXCEPT ![Target(t)] = IF @ = "open" THEN "closed" ELSE @]
  /\ pc' = [pc EXCEPT ![t] = "peer"]
  /\ UNCHANGED <<offer, peer, age, idle, closeVars, mu, sweepVars>>

\* Mutant: Close waits for the callback of the peer that it closes.
ClosePeerWaiting(t) ==
  /\ pc[t] = "peer"
  /\ IF peer[Target(t)] # "Closed"
       THEN ClosedPeer(Target(t)) /\ pc' = AfterClose(Target(t))
       ELSE /\ pc[<<Target(t), "Closed">>] = "idle"
            /\ pc' = [pc EXCEPT ![t] = "delete"] /\ UNCHANGED <<peer, channel>>
  /\ UNCHANGED <<offer, age, idle, closeVars, mu, sweepVars>>

ClosePeer(t) ==
  /\ pc[t] = "peer"
  /\ ClosedPeer(Target(t))
  /\ pc' = [AfterClose(Target(t)) EXCEPT ![t] = "delete"]
  /\ UNCHANGED <<offer, age, idle, closeVars, mu, sweepVars>>

\* Mutant: the key stays in the map.
DeleteSessionForgotten(t) ==
  /\ pc[t] = "delete"
  /\ sessions' = sessions
  /\ IF t \in Sweeper
       THEN mu' = mu /\ pc' = [pc EXCEPT ![t] = "sweep"]
       ELSE mu' = Nobody /\ pc' = [pc EXCEPT ![t] = "idle"]
  /\ UNCHANGED <<offer, peerVars, done, panicked, sweepVars>>

\* delete(m.sessions, id); CloseSession then unlocks, a sweep goes on.
DeleteSession(t) ==
  /\ pc[t] = "delete"
  /\ sessions' = sessions \ {Target(t)}
  /\ IF t \in Sweeper
       THEN mu' = mu /\ pc' = [pc EXCEPT ![t] = "sweep"]
       ELSE mu' = Nobody /\ pc' = [pc EXCEPT ![t] = "idle"]
  /\ Forget(Target(t))
  /\ UNCHANGED <<offer, peer, channel, done, panicked, sweepVars>>

Close(t) == CheckDone(t) \/ SignalDone(t) \/ CloseChannel(t) \/ ClosePeer(t) \/ DeleteSession(t)

-----------------------------------------------------------------------------
HandleOffer(s) ==
  \/ OfferNotCreated(s) \/ OfferCreated(s) \/ OfferInvalid(s) \/ OfferNegotiated(s)
  \/ OfferTimesOut(s) \/ OfferGathered(s) \/ OfferStored(s)

Peer(s) ==
  \/ PeerConnects(s) \/ PeerDisconnects(s) \/ PeerFails(s)
  \/ ChannelOpens(s) \/ MessageArrives(s)

Sweep(t) == SweepLocks(t) \/ (\E s \in Session : SweepVisits(t, s)) \/ SweepEnds(t)

Next ==
  \/ \E s \in Session : HandleOffer(s) \/ Peer(s) \/ ReportArrives(s)
  \/ \E t \in Closer : CloseSession(t)
  \/ \E t \in Sweeper : Sweep(t)
  \/ \E t \in Thread : Close(t)
  \/ CleanupStarts \/ ShutdownStarts \/ Tick

Spec == Init /\ [][Next]_vars

\* Time passes, the ticker is served, an offer once begun runs to its end,
\* and a goroutine that is not waiting for mu is scheduled.  Go's mutexes
\* hand themselves over to a goroutine that waits long enough, hence strong
\* fairness where mu is acquired.  No fairness for the client or the peer.
Fairness ==
  /\ WF_vars(Tick) /\ WF_vars(CleanupStarts)
  /\ \A s \in Session :
       /\ WF_vars(OfferNegotiated(s)) /\ WF_vars(OfferTimesOut(s) \/ OfferGathered(s))
       /\ SF_vars(OfferStored(s))
  /\ \A t \in Closer : SF_vars(CloseSession(t))
  /\ \A t \in Sweeper :
       /\ SF_vars(SweepLocks(t))
       /\ WF_vars((\E s \in Session : SweepVisits(t, s)) \/ SweepEnds(t))
  /\ \A t \in Thread : WF_vars(Close(t))

FairSpec == Spec /\ Fairness

-----------------------------------------------------------------------------
(* Properties *)

Closing(t) == pc[t] \in {"check", "signal", "channel", "peer", "delete"}

\* Session.Close never closes the done channel twice, although its select
\* and its close are two accesses and it takes no lock (manager.go:315-321):
\* a second close would panic and, in a callback's goroutine, end netspeedd.
NoDoubleClose == ~panicked

\* Whoever holds mu finds only usable sessions in the map: between two
\* critical sections no key leads to a session that has been closed
\* (GetSession, CloseSession and the sweeps rely on it).
ListedIsOpen == mu = Nobody => sessions \cap done = {}

\* No leak on removal: a session that was stored and has left the map has
\* its done channel, its data channel and its peer connection closed, so the
\* ports of its ICE agent are free.
RemovedIsClosed ==
  \A s \in Session : offer[s] = "answered" /\ s \notin sessions =>
     s \in done /\ peer[s] = "Closed" /\ channel[s] # "open"

\* Shutdown returns with an empty map even though callbacks of the peers it
\* closes, reports and the cleanup loop contend for mu while it runs.
ShutdownEmptiesMap ==
  [][pc[Stopper] # "over" /\ pc'[Stopper] = "over" => sessions' = {}]_vars

\* Every peer connection is closed in the end, on each of HandleOffer's error
\* paths and after it, with no help from the client: neither a report nor
\* any state change of the peer is needed, and messages cannot postpone it
\* past MaxSessionTime.
PeerEventuallyClosed ==
  \A s \in Session : peer[s] # "none" ~> peer[s] = "Closed"

\* mu is never held for ever: Close waits for none of the callbacks that it
\* causes and that want mu themselves.
LockReleased == mu # Nobody ~> mu = Nobody

\* What the comment on Shutdown (manager.go:338) says: the manager and all
\* its sessions are closed, so afterwards the map stays empty.
ShutdownClosesManager == pc[Stopper] = "over" => sessions = {}

-----------------------------------------------------------------------------
(* The registry that the manager implements. *)

Phase(s) ==
  CASE offer[s] = "none" -> "new"
    [] offer[s] = "refused" -> "refused"
    [] offer[s] = "answered" -> IF s \in sessions THEN "live" ELSE "gone"
    [] OTHER -> "pending"

Registry == INSTANCE SessionRegistry
  WITH phase <- [s \in Session |-> Phase(s)],
       held  <- {s \in Session : peer[s] \notin {"none", "Closed"}}

\* The manager implements the registry: its steps are the registry's or
\* leave it alone, and every session that is begun ends.
ImplementsRegistry == Registry!Spec
=============================================================================
