------------------------ MODULE SessionManagerProofs ------------------------
(***************************************************************************)
(* Safety of the session manager for any set of sessions and any limits.   *)
(*                                                                         *)
(* The invariant ties three things together: who is between Lock and       *)
(* Unlock (MutexInv), how far that goroutine is in closing its target      *)
(* (CloseInv), and what is therefore true of every session (SessionInv).   *)
(***************************************************************************)
EXTENDS MCSessionHistory, TLAPS

\* Goroutines between Lock and Unlock.
Critical(t) == Closing(t) \/ pc[t] = "sweep"

MutexInv == \A t \in Thread : Critical(t) <=> mu = t

\* The session being closed is still in the map, so it can be looked up by
\* nobody else, and the steps of Session.Close have been done in order.
CloseInv ==
  \A t \in Thread :
    /\ pc[t] = "sweep" => t \in Sweeper
    /\ Closing(t) => Target(t) \in sessions
    /\ pc[t] \in {"check", "signal"} => Target(t) \notin done
    /\ pc[t] \in {"channel", "peer", "delete"} => Target(t) \in done
    /\ pc[t] = "delete" => peer[Target(t)] = "Closed" /\ channel[Target(t)] # "open"

\* The sessions that a sweep has still to visit are untouched.
SweepInv ==
  \A t \in Sweeper : Critical(t) =>
    /\ todo \subseteq sessions \ done
    /\ Closing(t) => cursor[t] \notin todo

SessionInv ==
  /\ \A s \in sessions \cup done : offer[s] = "answered"
  /\ \A s \in sessions \cap done :
       \E t \in Thread : pc[t] \in {"channel", "peer", "delete"} /\ Target(t) = s
  /\ RemovedIsClosed

IInv == TypeOK /\ MutexInv /\ CloseInv /\ SweepInv /\ SessionInv /\ NoDoubleClose

-----------------------------------------------------------------------------
(* The threads *)

\* Sweepers, closers and Nobody are different from each other, because
\* NoSession is not a session; a closer's first component is its session.
LEMMA ThreadFacts ==
  /\ Cleaner # Stopper
  /\ Nobody \notin Thread
  /\ Sweeper \cap Closer = {}
  /\ Sweeper \subseteq Thread /\ Closer \subseteq Thread
  /\ \A t \in Closer : t[1] \in Session
  /\ \A t \in Thread : t \in Sweeper \/ t \in Closer
  BY NoSessionIsNone DEF Cleaner, Stopper, Nobody, Sweeper, Closer, Thread, Cause, PeerTerminal

\* Type correctness, given that goroutines close sessions of the map.
LEMMA TypeInit == Init => TypeOK
<1> SUFFICES ASSUME Init PROVE TypeOK
  OBVIOUS
<1>1. panicked \in BOOLEAN /\ tickDue \in BOOLEAN
  BY Zenon DEF Init
<1>2. 0 \in 0 .. MaxSessionTime + 1 /\ 0 \in 0 .. IdleTimeout + 1
  BY DurationsAssumption
<1>3. QED
  BY <1>1, <1>2 DEF Init, TypeOK, OfferStep, PeerState, Step

LEMMA ForgetType ==
  ASSUME TypeOK, NEW s, Forget(s)
  PROVE  /\ age' \in [Session -> 0 .. MaxSessionTime + 1]
         /\ idle' \in [Session -> 0 .. IdleTimeout + 1]
<1>1. 0 \in 0 .. MaxSessionTime + 1 /\ 0 \in 0 .. IdleTimeout + 1
  BY DurationsAssumption
<1>2. QED
  BY <1>1 DEF Forget, TypeOK

LEMMA TypeNext == TypeOK /\ CloseInv /\ [Next]_vars => TypeOK'
<1> SUFFICES ASSUME TypeOK, CloseInv, [Next]_vars PROVE TypeOK'
  OBVIOUS
<1> USE DurationsAssumption, ThreadFacts
<1>1. ASSUME NEW s \in Session, HandleOffer(s) PROVE TypeOK'
  <2>1. CASE OfferNotCreated(s)
    BY <2>1 DEF TypeOK, OfferNotCreated, OfferAdvances, OfferStep, peerVars, closeVars, lockVars, sweepVars
  <2>2. CASE OfferCreated(s)
    BY <2>2 DEF TypeOK, OfferCreated, OfferAdvances, OfferStep, PeerState, closeVars, lockVars, sweepVars
  <2>3. ASSUME NEW from, OfferRefused(s, from) PROVE TypeOK'
    <3>1. age' \in [Session -> 0 .. MaxSessionTime + 1] /\ idle' \in [Session -> 0 .. IdleTimeout + 1]
      BY <2>3, ForgetType DEF OfferRefused
    <3>2. QED
      BY <2>3, <3>1 DEF TypeOK, OfferRefused, OfferAdvances, OfferStep, PeerState, PeerTerminal,
         ClosedPeer, AfterClose, Spawned, Step, closeVars, sweepVars
  <2>4. CASE OfferNegotiated(s) \/ OfferGathered(s)
    BY <2>4 DEF TypeOK, OfferNegotiated, OfferGathered, OfferAdvances, OfferStep, peerVars, closeVars,
       lockVars, sweepVars
  <2>5. CASE OfferStored(s)
    BY <2>5 DEF TypeOK, OfferStored, OfferAdvances, OfferStep, peerVars, lockVars, sweepVars
  <2>6. QED
    BY <1>1, <2>1, <2>2, <2>3, <2>4, <2>5 DEF HandleOffer, OfferInvalid, OfferTimesOut
<1>2. ASSUME NEW s \in Session, Peer(s) PROVE TypeOK'
  <2>1. ASSUME NEW from, NEW to \in PeerState, PeerBecomes(s, from, to) PROVE TypeOK'
    BY <2>1 DEF TypeOK, PeerBecomes, Spawned, Step, closeVars, sweepVars
  <2>2. CASE ChannelOpens(s)
    BY <2>2 DEF TypeOK, ChannelOpens, Touch, closeVars, lockVars
  <2>3. CASE MessageArrives(s)
    BY <2>3 DEF TypeOK, MessageArrives, Touch, closeVars, lockVars
  <2>4. QED
    BY <1>2, <2>1, <2>2, <2>3
       DEF Peer, PeerConnects, PeerDisconnects, PeerFails, PeerState, PeerTerminal
<1>3. ASSUME NEW s \in Session, ReportArrives(s) PROVE TypeOK'
  BY <1>3 DEF TypeOK, ReportArrives, Spawned, Step, peerVars, closeVars, sweepVars
<1>4. ASSUME NEW t \in Closer, CloseSession(t) PROVE TypeOK'
  BY <1>4 DEF TypeOK, CloseSession, Step, peerVars, closeVars, sweepVars
<1>5. ASSUME NEW t \in Sweeper, Sweep(t) PROVE TypeOK'
  <2>1. CASE SweepLocks(t)
    BY <2>1 DEF TypeOK, SweepLocks, Step, peerVars, closeVars
  <2>2. ASSUME NEW s \in Session, SweepVisits(t, s) PROVE TypeOK'
    BY <2>2 DEF TypeOK, SweepVisits, Step, peerVars, closeVars
  <2>3. CASE SweepEnds(t)
    BY <2>3 DEF TypeOK, SweepEnds, Step, peerVars, closeVars
  <2>4. QED
    BY <1>5, <2>1, <2>2, <2>3 DEF Sweep
<1>6. ASSUME NEW t \in Thread, Close(t) PROVE TypeOK'
  <2>1. CASE CheckDone(t)
    BY <2>1 DEF TypeOK, CheckDone, Step, peerVars, closeVars, sweepVars
  <2>2. CASE SignalDone(t)
    <3>1. panicked' \in BOOLEAN
      BY <2>2, Zenon DEF SignalDone
    <3>2. Target(t) \in Session
      BY <2>2 DEF TypeOK, CloseInv, SignalDone, Closing
    <3>3. QED
      BY <2>2, <3>1, <3>2 DEF TypeOK, SignalDone, Step, peerVars, sweepVars
  <2>3. CASE CloseChannel(t)
    BY <2>3 DEF TypeOK, CloseChannel, Step, closeVars, sweepVars
  <2>4. CASE ClosePeer(t)
    BY <2>4 DEF TypeOK, ClosePeer, ClosedPeer, AfterClose, Spawned, Step, PeerState, PeerTerminal,
       closeVars, sweepVars
  <2>5. CASE DeleteSession(t)
    <3>1. age' \in [Session -> 0 .. MaxSessionTime + 1] /\ idle' \in [Session -> 0 .. IdleTimeout + 1]
      BY <2>5, ForgetType DEF DeleteSession
    <3>2. QED
      BY <2>5, <3>1 DEF TypeOK, DeleteSession, Step, sweepVars
  <2>6. QED
    BY <1>6, <2>1, <2>2, <2>3, <2>4, <2>5 DEF Close
<1>7. CASE CleanupStarts
  BY <1>7 DEF TypeOK, CleanupStarts, Step, peerVars, closeVars
<1>8. CASE ShutdownStarts
  BY <1>8 DEF TypeOK, ShutdownStarts, Step, peerVars, closeVars, sweepVars
<1>9. CASE Tick
  BY <1>9 DEF TypeOK, Tick, Older, closeVars, lockVars
<1>10. CASE UNCHANGED vars
  BY <1>10 DEF TypeOK, vars, peerVars, closeVars, lockVars, sweepVars
<1>11. QED
  BY <1>1, <1>2, <1>3, <1>4, <1>5, <1>6, <1>7, <1>8, <1>9, <1>10 DEF Next

-----------------------------------------------------------------------------
(* Steps outside the critical sections *)

\* pc changes at most between "idle" and "lock".
Quiet == \A t \in Thread : pc'[t] = pc[t] \/ {pc[t], pc'[t]} \subseteq {"idle", "lock"}

LEMMA SpawnIsQuiet ==
  ASSUME TypeOK, NEW x, pc' = Spawned(x)
  PROVE  Quiet
  BY DEF TypeOK, Spawned, Quiet

\* A quiet step that neither stores nor closes a session of the map, and
\* never reopens a stored session's closed peer, preserves the invariant.
LEMMA QuietStep ==
  ASSUME IInv, TypeOK', Quiet, UNCHANGED <<mu, cursor, todo, sessions, done, panicked>>,
         \A s \in Session : (offer[s] = "answered") = (offer'[s] = "answered"),
         \A s \in Session : offer[s] = "answered" =>
           /\ peer[s] = "Closed" => peer'[s] = "Closed"
           /\ peer[s] = "Closed" /\ channel[s] # "open" => channel'[s] # "open"
  PROVE  IInv'
<1>1. \A t \in Thread : /\ Critical(t)' = Critical(t)
                        /\ Closing(t)' = Closing(t)
                        /\ Critical(t) => pc'[t] = pc[t]
                        /\ Target(t)' = Target(t)
  BY DEF Quiet, Critical, Closing, Target
<1>2. MutexInv'
  BY <1>1 DEF IInv, MutexInv
<1>3. CloseInv'
  <2> SUFFICES ASSUME NEW t \in Thread, Critical(t)
               PROVE  /\ pc'[t] = "sweep" => t \in Sweeper
                      /\ Closing(t)' => Target(t)' \in sessions'
                      /\ pc'[t] \in {"check", "signal"} => Target(t)' \notin done'
                      /\ pc'[t] \in {"channel", "peer", "delete"} => Target(t)' \in done'
                      /\ pc'[t] = "delete" => peer'[Target(t)'] = "Closed" /\ channel'[Target(t)'] # "open"
    BY <1>1 DEF CloseInv, Critical, Closing
  <2>1. Closing(t) => Target(t) \in Session /\ offer[Target(t)] = "answered"
    BY DEF IInv, CloseInv, SessionInv, TypeOK
  <2>2. QED
    BY <1>1, <2>1 DEF IInv, CloseInv, Critical, Closing
<1>4. SweepInv'
  BY <1>1, ThreadFacts DEF IInv, SweepInv
<1>5. SessionInv'
  <2>1. \A s \in sessions' \cup done' : offer'[s] = "answered"
    BY DEF IInv, SessionInv, TypeOK
  <2>2. \A s \in sessions' \cap done' :
          \E t \in Thread : pc'[t] \in {"channel", "peer", "delete"} /\ Target(t)' = s
    BY <1>1 DEF IInv, SessionInv, Critical, Closing
  <2>3. RemovedIsClosed'
    BY DEF IInv, SessionInv, RemovedIsClosed
  <2>4. QED
    BY <2>1, <2>2, <2>3 DEF SessionInv
<1>6. NoDoubleClose'
  BY Zenon DEF IInv, NoDoubleClose
<1>7. QED
  BY <1>2, <1>3, <1>4, <1>5, <1>6 DEF IInv

-----------------------------------------------------------------------------
(* Steps inside the critical sections *)

\* A goroutine in its critical section is alone in one.
LEMMA Alone ==
  ASSUME IInv, NEW t \in Thread, Critical(t)
  PROVE  mu = t /\ \A u \in Thread : u # t => ~Critical(u)
  BY DEF IInv, MutexInv

\* While nobody holds mu, no session of the map is closed.
LEMMA FreeIsClean ==
  ASSUME IInv, mu = Nobody
  PROVE  (\A t \in Thread : ~Critical(t)) /\ sessions \cap done = {}
<1>1. \A t \in Thread : ~Critical(t)
  BY ThreadFacts DEF IInv, MutexInv
<1>2. QED
  BY <1>1 DEF IInv, SessionInv, Critical, Closing

LEMMA InitInv == Init => IInv
<1> SUFFICES ASSUME Init PROVE IInv
  OBVIOUS
<1>1. NoDoubleClose
  BY Zenon DEF Init, NoDoubleClose
<1>2. TypeOK
  BY TypeInit
<1>3. \A t \in Thread : ~Critical(t) /\ mu # t
  BY ThreadFacts DEF Init, Critical, Closing
<1>4. MutexInv /\ CloseInv /\ SweepInv
  BY <1>3, ThreadFacts DEF MutexInv, CloseInv, SweepInv, Critical, Closing
<1>5. SessionInv
  BY DEF Init, SessionInv, RemovedIsClosed
<1>6. QED
  BY <1>1, <1>2, <1>4, <1>5 DEF IInv

LEMMA OfferStoredInv ==
  ASSUME IInv, TypeOK', NEW s \in Session, OfferStored(s)
  PROVE  IInv'
<1> USE DEF OfferStored, OfferAdvances, lockVars, sweepVars, peerVars
<1>1. \A t \in Thread : ~Critical(t) /\ ~Critical(t)' /\ mu' # t
  BY FreeIsClean, ThreadFacts DEF Critical, Closing
<1>2. MutexInv' /\ CloseInv' /\ SweepInv'
  BY <1>1, ThreadFacts DEF MutexInv, CloseInv, SweepInv, Critical, Closing
<1>3. s \notin done /\ sessions' \cap done' = {}
  BY FreeIsClean DEF IInv, SessionInv
<1>4. SessionInv'
  BY <1>3 DEF IInv, TypeOK, SessionInv, RemovedIsClosed
<1>5. NoDoubleClose'
  BY Zenon DEF IInv, NoDoubleClose
<1>6. QED
  BY <1>2, <1>4, <1>5 DEF IInv

\* CloseSession finds its session open: a closed one would be in the hands
\* of another goroutine, which would hold mu.
LEMMA CloseSessionInv ==
  ASSUME IInv, TypeOK', NEW t \in Closer, CloseSession(t)
  PROVE  IInv'
<1> USE DEF CloseSession, sweepVars, peerVars, closeVars
<1>1. /\ \A u \in Thread : ~Critical(u)
      /\ sessions \cap done = {} /\ t \in Thread /\ t \notin Sweeper
  BY FreeIsClean, ThreadFacts
<1>2. CASE t[1] \notin sessions
  <2>1. Quiet
    BY <1>2 DEF IInv, TypeOK, Quiet
  <2>2. QED
    BY <1>2, <2>1, QuietStep
<1>3. CASE t[1] \in sessions
  <2>1. \A u \in Thread : u # t => ~Critical(u)'
    BY <1>1, <1>3 DEF IInv, TypeOK, Critical, Closing
  <2>2. pc'[t] = "check" /\ Target(t)' = t[1] /\ mu' = t
    BY <1>1, <1>3 DEF IInv, TypeOK, Target
  <2>3. MutexInv'
    BY <2>1, <2>2 DEF MutexInv, Critical, Closing
  <2>4. CloseInv'
    BY <1>1, <1>3, <2>1, <2>2 DEF CloseInv, Critical, Closing
  <2>5. SweepInv'
    BY <1>1, <2>1, ThreadFacts DEF SweepInv
  <2>6. SessionInv'
    BY <1>1 DEF IInv, SessionInv, RemovedIsClosed
  <2>7. NoDoubleClose'
    BY Zenon DEF IInv, NoDoubleClose
  <2>8. QED
    BY <2>3, <2>4, <2>5, <2>6, <2>7 DEF IInv
<1>4. QED
  BY <1>2, <1>3

LEMMA SweepLocksInv ==
  ASSUME IInv, TypeOK', NEW t \in Sweeper, SweepLocks(t)
  PROVE  IInv'
<1> USE DEF SweepLocks, peerVars, closeVars
<1>1. /\ \A u \in Thread : ~Critical(u)
      /\ sessions \cap done = {} /\ t \in Thread
  BY FreeIsClean, ThreadFacts
<1>2. \A u \in Thread : u # t => ~Critical(u)'
  BY <1>1 DEF IInv, TypeOK, Critical, Closing
<1>3. pc'[t] = "sweep" /\ mu' = t
  BY <1>1 DEF IInv, TypeOK
<1>4. MutexInv' /\ CloseInv'
  BY <1>2, <1>3 DEF MutexInv, CloseInv, Critical, Closing
<1>5. SweepInv'
  BY <1>1, <1>2, <1>3, ThreadFacts DEF SweepInv, Closing
<1>6. SessionInv'
  BY <1>1 DEF IInv, SessionInv, RemovedIsClosed
<1>7. NoDoubleClose'
  BY Zenon DEF IInv, NoDoubleClose
<1>8. QED
  BY <1>4, <1>5, <1>6, <1>7 DEF IInv

LEMMA SweepVisitsInv ==
  ASSUME IInv, TypeOK', NEW t \in Sweeper, NEW s \in Session, SweepVisits(t, s)
  PROVE  IInv'
<1> USE DEF SweepVisits, peerVars, closeVars
<1>1. t \in Thread /\ Critical(t) /\ mu = t /\ \A u \in Thread : u # t => ~Critical(u)
  BY Alone, ThreadFacts DEF Critical
<1>2. \A u \in Thread : u # t => ~Critical(u)'
  BY <1>1 DEF IInv, TypeOK, Critical, Closing
<1>3. /\ (pc'[t] = "check" /\ Target(t)' = s) \/ pc'[t] = "sweep"
      /\ mu' = t
  BY <1>1 DEF IInv, TypeOK, Target
<1>4. s \in sessions \ done /\ todo' \subseteq (sessions \ done) \ {s}
  BY <1>1 DEF IInv, SweepInv
<1>5. MutexInv'
  BY <1>1, <1>2, <1>3 DEF MutexInv, Critical, Closing
<1>6. CloseInv'
  BY <1>2, <1>3, <1>4 DEF CloseInv, Critical, Closing
<1>7. SweepInv'
  BY <1>2, <1>3, <1>4, ThreadFacts DEF SweepInv, Closing, Target
<1>8. SessionInv'
  <2>1. sessions \cap done = {}
    BY <1>1 DEF IInv, SessionInv, Critical, Closing
  <2>2. QED
    BY <2>1 DEF IInv, SessionInv, RemovedIsClosed
<1>9. NoDoubleClose'
  BY Zenon DEF IInv, NoDoubleClose
<1>10. QED
  BY <1>5, <1>6, <1>7, <1>8, <1>9 DEF IInv

LEMMA SweepEndsInv ==
  ASSUME IInv, TypeOK', NEW t \in Sweeper, SweepEnds(t)
  PROVE  IInv'
<1> USE DEF SweepEnds, peerVars, closeVars
<1>1. t \in Thread /\ Critical(t) /\ \A u \in Thread : u # t => ~Critical(u)
  BY Alone, ThreadFacts DEF Critical
<1>2. \A u \in Thread : ~Critical(u)' /\ mu' # u
  BY <1>1, ThreadFacts DEF IInv, TypeOK, Critical, Closing
<1>3. MutexInv' /\ CloseInv' /\ SweepInv'
  BY <1>2, ThreadFacts DEF MutexInv, CloseInv, SweepInv, Critical, Closing
<1>4. SessionInv'
  <2>1. sessions \cap done = {}
    BY <1>1 DEF IInv, SessionInv, Critical, Closing
  <2>2. QED
    BY <2>1 DEF IInv, SessionInv, RemovedIsClosed
<1>5. NoDoubleClose'
  BY Zenon DEF IInv, NoDoubleClose
<1>6. QED
  BY <1>3, <1>4, <1>5 DEF IInv

-----------------------------------------------------------------------------
(* The steps of Session.Close *)

\* What every step of Session.Close starts from.
LEMMA CloseFacts ==
  ASSUME IInv, NEW t \in Thread, Closing(t)
  PROVE  /\ mu = t /\ Critical(t) /\ \A u \in Thread : u # t => ~Critical(u)
         /\ Target(t) \in sessions /\ Target(t) \in Session /\ offer[Target(t)] = "answered"
         /\ \A s \in sessions \cap done : s = Target(t)
<1>1. mu = t /\ Critical(t) /\ \A u \in Thread : u # t => ~Critical(u)
  BY Alone DEF Critical
<1>2. Target(t) \in sessions /\ Target(t) \in Session /\ offer[Target(t)] = "answered"
  BY DEF IInv, TypeOK, CloseInv, SessionInv
<1>3. \A s \in sessions \cap done : s = Target(t)
  BY <1>1 DEF IInv, SessionInv, Critical, Closing
<1>4. QED
  BY <1>1, <1>2, <1>3

LEMMA CheckDoneInv ==
  ASSUME IInv, TypeOK', NEW t \in Thread, CheckDone(t)
  PROVE  IInv'
<1> USE DEF CheckDone, peerVars, closeVars, sweepVars
<1>1. Closing(t)
  BY DEF Closing
<1>2. Target(t) \notin done /\ pc'[t] = "signal" /\ Target(t)' = Target(t)
  BY DEF IInv, TypeOK, CloseInv, Target
<1>3. \A u \in Thread : u # t => ~Critical(u)'
  BY <1>1, CloseFacts DEF IInv, TypeOK, Critical, Closing
<1>4. MutexInv'
  BY <1>1, <1>2, <1>3, CloseFacts DEF MutexInv, Critical, Closing
<1>5. CloseInv'
  BY <1>1, <1>2, <1>3, CloseFacts DEF CloseInv, Critical, Closing
<1>6. SweepInv'
  BY <1>1, <1>2, <1>3, CloseFacts, ThreadFacts DEF IInv, SweepInv
<1>7. SessionInv'
  <2>1. sessions \cap done = {}
    BY <1>1, <1>2, CloseFacts
  <2>2. QED
    BY <2>1 DEF IInv, SessionInv, RemovedIsClosed
<1>8. NoDoubleClose'
  BY Zenon DEF IInv, NoDoubleClose
<1>9. QED
  BY <1>4, <1>5, <1>6, <1>7, <1>8 DEF IInv

\* The heart of NoDoubleClose: nobody has closed done since CheckDone.
LEMMA SignalDoneInv ==
  ASSUME IInv, TypeOK', NEW t \in Thread, SignalDone(t)
  PROVE  IInv'
<1> USE DEF SignalDone, peerVars, sweepVars
<1>1. Closing(t)
  BY DEF Closing
<1>2. Target(t) \notin done
  BY DEF IInv, CloseInv
<1>3. pc'[t] = "channel" /\ Target(t)' = Target(t)
  BY DEF IInv, TypeOK, Target
<1>4. \A u \in Thread : u # t => ~Critical(u)'
  BY <1>1, CloseFacts DEF IInv, TypeOK, Critical, Closing
<1>5. MutexInv'
  BY <1>1, <1>3, <1>4, CloseFacts DEF MutexInv, Critical, Closing
<1>6. CloseInv'
  BY <1>1, <1>3, <1>4, CloseFacts DEF CloseInv, Critical, Closing
<1>7. SweepInv'
  BY <1>1, <1>3, <1>4, CloseFacts, ThreadFacts DEF IInv, SweepInv, Target
<1>8. SessionInv'
  BY <1>1, <1>3, CloseFacts DEF IInv, SessionInv, RemovedIsClosed
<1>9. NoDoubleClose'
  BY <1>2, Zenon DEF IInv, NoDoubleClose
<1>10. QED
  BY <1>5, <1>6, <1>7, <1>8, <1>9 DEF IInv

LEMMA CloseChannelInv ==
  ASSUME IInv, TypeOK', NEW t \in Thread, CloseChannel(t)
  PROVE  IInv'
<1> USE DEF CloseChannel, closeVars, sweepVars
<1>1. Closing(t)
  BY DEF Closing
<1>2. Target(t) \in done /\ pc'[t] = "peer" /\ Target(t)' = Target(t)
  BY DEF IInv, TypeOK, CloseInv, Target
<1>3. \A u \in Thread : u # t => ~Critical(u)'
  BY <1>1, CloseFacts DEF IInv, TypeOK, Critical, Closing
<1>4. MutexInv'
  BY <1>1, <1>2, <1>3, CloseFacts DEF MutexInv, Critical, Closing
<1>5. CloseInv'
  BY <1>1, <1>2, <1>3, CloseFacts DEF CloseInv, Critical, Closing
<1>6. SweepInv'
  BY <1>1, <1>2, <1>3, CloseFacts, ThreadFacts DEF IInv, SweepInv
<1>7. SessionInv'
  BY <1>1, <1>2, CloseFacts DEF IInv, TypeOK, SessionInv, RemovedIsClosed
<1>8. NoDoubleClose'
  BY Zenon DEF IInv, NoDoubleClose
<1>9. QED
  BY <1>4, <1>5, <1>6, <1>7, <1>8 DEF IInv

LEMMA ClosePeerInv ==
  ASSUME IInv, TypeOK', NEW t \in Thread, ClosePeer(t)
  PROVE  IInv'
<1> USE DEF ClosePeer, ClosedPeer, closeVars, sweepVars
<1>1. Closing(t)
  BY DEF Closing
<1>2. Target(t) \in done /\ pc'[t] = "delete" /\ Target(t)' = Target(t)
  BY DEF IInv, TypeOK, CloseInv, Target, AfterClose, Spawned
<1>3. peer'[Target(t)] = "Closed" /\ channel'[Target(t)] # "open"
  BY <1>1, CloseFacts DEF IInv, TypeOK
<1>4. \A u \in Thread : u # t => ~Critical(u)'
  BY <1>1, CloseFacts DEF IInv, TypeOK, Critical, Closing, AfterClose, Spawned
<1>5. MutexInv'
  BY <1>1, <1>2, <1>4, CloseFacts DEF MutexInv, Critical, Closing
<1>6. CloseInv'
  BY <1>1, <1>2, <1>3, <1>4, CloseFacts DEF CloseInv, Critical, Closing
<1>7. SweepInv'
  BY <1>1, <1>2, <1>4, CloseFacts, ThreadFacts DEF IInv, SweepInv
<1>8. SessionInv'
  BY <1>1, <1>2, CloseFacts DEF IInv, TypeOK, SessionInv, RemovedIsClosed
<1>9. NoDoubleClose'
  BY Zenon DEF IInv, NoDoubleClose
<1>10. QED
  BY <1>5, <1>6, <1>7, <1>8, <1>9 DEF IInv

LEMMA DeleteSessionInv ==
  ASSUME IInv, TypeOK', NEW t \in Thread, DeleteSession(t)
  PROVE  IInv'
<1> USE DEF DeleteSession, Forget, sweepVars
<1>1. Closing(t)
  BY DEF Closing
<1>2. /\ Target(t) \in done /\ peer[Target(t)] = "Closed" /\ channel[Target(t)] # "open"
      /\ Target(t)' = Target(t)
  BY DEF IInv, CloseInv, Target
<1>3. \A u \in Thread : u # t => ~Critical(u)'
  BY <1>1, CloseFacts DEF IInv, TypeOK, Critical, Closing
<1>4. /\ ~Closing(t)' /\ Critical(t)' = (t \in Sweeper)
      /\ t \in Sweeper => mu' = t
      /\ t \notin Sweeper => mu' = Nobody
  BY <1>1, CloseFacts DEF IInv, TypeOK, Critical, Closing
<1>5. MutexInv'
  BY <1>3, <1>4, ThreadFacts DEF MutexInv
<1>6. CloseInv'
  BY <1>3, <1>4 DEF CloseInv, Critical, Closing
<1>7. SweepInv'
  BY <1>1, <1>3, <1>4, CloseFacts, ThreadFacts DEF IInv, SweepInv, Target
<1>8. SessionInv'
  BY <1>1, <1>2, CloseFacts DEF IInv, SessionInv, RemovedIsClosed
<1>9. NoDoubleClose'
  BY Zenon DEF IInv, NoDoubleClose
<1>10. QED
  BY <1>5, <1>6, <1>7, <1>8, <1>9 DEF IInv

-----------------------------------------------------------------------------
(* The invariant and what follows from it *)

\* The actions that enter, leave or advance no critical section.
QuietNext ==
  \/ \E s \in Session :
       \/ OfferNotCreated(s) \/ OfferCreated(s) \/ OfferInvalid(s) \/ OfferNegotiated(s)
       \/ OfferTimesOut(s) \/ OfferGathered(s) \/ Peer(s) \/ ReportArrives(s)
  \/ CleanupStarts \/ ShutdownStarts \/ Tick \/ UNCHANGED vars

LEMMA QuietNextInv == IInv /\ TypeOK' /\ QuietNext => IInv' /\ Quiet /\ UNCHANGED <<mu, cursor, todo, sessions>>
<1> SUFFICES ASSUME IInv, TypeOK', QuietNext
             PROVE  IInv' /\ Quiet /\ UNCHANGED <<mu, cursor, todo, sessions>>
  OBVIOUS
<1> USE DEF peerVars, closeVars, lockVars, sweepVars
<1>1. ASSUME NEW s \in Session, OfferNotCreated(s) \/ OfferCreated(s) \/ OfferNegotiated(s) \/ OfferGathered(s)
      PROVE  IInv' /\ Quiet /\ UNCHANGED <<mu, cursor, todo, sessions>>
  <2>1. Quiet /\ UNCHANGED <<mu, cursor, todo, sessions, done, panicked>>
    BY <1>1 DEF Quiet, OfferNotCreated, OfferCreated, OfferNegotiated, OfferGathered
  <2>2. /\ \A r \in Session : (offer[r] = "answered") = (offer'[r] = "answered")
        /\ \A r \in Session : offer[r] = "answered" => peer'[r] = peer[r] /\ channel'[r] = channel[r]
    BY <1>1 DEF IInv, TypeOK, OfferNotCreated, OfferCreated, OfferNegotiated, OfferGathered, OfferAdvances
  <2>3. QED
    BY <2>1, <2>2, QuietStep
<1>2. ASSUME NEW s \in Session, NEW from \in {"negotiating", "gathering"}, OfferRefused(s, from)
      PROVE  IInv' /\ Quiet /\ UNCHANGED <<mu, cursor, todo, sessions>>
  <2>1. Quiet /\ UNCHANGED <<mu, cursor, todo, sessions, done, panicked>>
    BY <1>2, SpawnIsQuiet DEF IInv, Quiet, OfferRefused, AfterClose
  <2>2. /\ \A r \in Session : (offer[r] = "answered") = (offer'[r] = "answered")
        /\ \A r \in Session : offer[r] = "answered" => peer'[r] = peer[r] /\ channel'[r] = channel[r]
    BY <1>2 DEF IInv, TypeOK, OfferRefused, OfferAdvances, ClosedPeer
  <2>3. QED
    BY <2>1, <2>2, QuietStep
<1>3. ASSUME NEW s \in Session, Peer(s)
      PROVE  IInv' /\ Quiet /\ UNCHANGED <<mu, cursor, todo, sessions>>
  <2>1. ASSUME NEW from, NEW to, "Closed" \notin from, PeerBecomes(s, from, to)
        PROVE  IInv' /\ Quiet /\ UNCHANGED <<mu, cursor, todo, sessions>>
    <3>1. Quiet /\ UNCHANGED <<mu, cursor, todo, sessions, done, panicked, offer, channel>>
      BY <2>1, SpawnIsQuiet DEF IInv, Quiet, PeerBecomes
    <3>2. \A r \in Session : peer[r] = "Closed" => peer'[r] = "Closed"
      BY <2>1 DEF IInv, TypeOK, PeerBecomes
    <3>3. QED
      BY <3>1, <3>2, QuietStep
  <2>2. CASE ChannelOpens(s) \/ MessageArrives(s)
    <3>1. Quiet /\ UNCHANGED <<mu, cursor, todo, sessions, done, panicked, offer, peer>>
      BY <2>2 DEF Quiet, ChannelOpens, MessageArrives, Touch
    <3>2. \A r \in Session : peer[r] = "Closed" => channel'[r] = channel[r]
      BY <2>2 DEF IInv, TypeOK, ChannelOpens, MessageArrives
    <3>3. QED
      BY <3>1, <3>2, QuietStep
  <2>3. QED
    BY <1>3, <2>1, <2>2 DEF Peer, PeerConnects, PeerDisconnects, PeerFails
<1>4. ASSUME (\E s \in Session : ReportArrives(s)) \/ CleanupStarts \/ ShutdownStarts \/ Tick \/ UNCHANGED vars
      PROVE  IInv' /\ Quiet /\ UNCHANGED <<mu, cursor, todo, sessions>>
  <2>1. UNCHANGED <<mu, cursor, todo, sessions, done, panicked, offer, peer, channel>>
    BY <1>4 DEF ReportArrives, CleanupStarts, ShutdownStarts, Tick, vars
  <2>2. Quiet
    BY <1>4, SpawnIsQuiet DEF IInv, TypeOK, Quiet, ReportArrives, CleanupStarts, ShutdownStarts, Tick, vars
  <2>3. QED
    BY <2>1, <2>2, QuietStep
<1>5. QED
  BY <1>1, <1>2, <1>3, <1>4 DEF QuietNext, OfferInvalid, OfferTimesOut

LEMMA NextInv == IInv /\ [Next]_vars => IInv'
<1> SUFFICES ASSUME IInv, [Next]_vars PROVE IInv'
  OBVIOUS
<1>1. TypeOK'
  BY TypeNext DEF IInv
<1>2. CASE QuietNext
  BY <1>1, <1>2, QuietNextInv
<1>3. ASSUME NEW s \in Session, OfferStored(s) PROVE IInv'
  BY <1>1, <1>3, OfferStoredInv
<1>4. ASSUME NEW t \in Closer, CloseSession(t) PROVE IInv'
  BY <1>1, <1>4, CloseSessionInv
<1>5. ASSUME NEW t \in Sweeper, Sweep(t) PROVE IInv'
  BY <1>1, <1>5, SweepLocksInv, SweepVisitsInv, SweepEndsInv DEF Sweep
<1>6. ASSUME NEW t \in Thread, Close(t) PROVE IInv'
  BY <1>1, <1>6, CheckDoneInv, SignalDoneInv, CloseChannelInv, ClosePeerInv, DeleteSessionInv DEF Close
<1>7. QED
  BY <1>2, <1>3, <1>4, <1>5, <1>6 DEF Next, HandleOffer, QuietNext

THEOREM Invariance == Spec => []IInv
  BY InitInv, NextInv, PTL DEF Spec

\* Type correctness: ages stay within one tick of their limits, the map and
\* the done channels are those of sessions.  It needs the whole invariant: a
\* sweep's cursor is a session whenever it is used as one.
THEOREM TypeCorrect == Spec => []TypeOK
  BY Invariance, PTL DEF IInv

\* No done channel is closed twice (manager.go:315-321), whatever the number
\* of sessions and however callbacks, reports, cleanup and Shutdown
\* interleave: Session.Close needs no lock of its own.
THEOREM ClosedOnce == Spec => []NoDoubleClose
  BY Invariance, PTL DEF IInv

\* Between critical sections every key of the map leads to an open session.
THEOREM ListedOpen == Spec => []ListedIsOpen
<1>1. IInv => ListedIsOpen
  BY FreeIsClean DEF ListedIsOpen
<1>2. QED
  BY <1>1, Invariance, PTL

\* A stored session leaves the map only with everything closed.
THEOREM RemovedClosed == Spec => []RemovedIsClosed
<1>1. IInv => RemovedIsClosed
  BY DEF IInv, SessionInv
<1>2. QED
  BY <1>1, Invariance, PTL

-----------------------------------------------------------------------------
(* Shutdown *)

\* While Shutdown sweeps, the map holds nothing but what it has still to
\* visit and the session it is closing.
StopInv ==
  Critical(Stopper) => sessions \subseteq todo \cup (IF Closing(Stopper) THEN {cursor[Stopper]} ELSE {})

LEMMA StopNext == IInv /\ StopInv /\ [Next]_vars => StopInv'
<1> SUFFICES ASSUME IInv, StopInv, [Next]_vars, Critical(Stopper)' PROVE StopInv'
  BY DEF StopInv
<1>1. TypeOK'
  BY TypeNext DEF IInv
<1>2. Stopper \in Thread /\ Stopper \in Sweeper /\ Stopper \notin Closer
  BY ThreadFacts DEF Sweeper
<1>3. CASE QuietNext
  <2>1. Critical(Stopper) /\ Closing(Stopper)' = Closing(Stopper)
    BY <1>1, <1>2, <1>3, QuietNextInv DEF Quiet, Critical, Closing
  <2>2. QED
    BY <1>1, <1>3, <2>1, QuietNextInv DEF StopInv
<1>4. ASSUME NEW s \in Session, OfferStored(s) PROVE StopInv'
  BY <1>2, <1>4, FreeIsClean DEF OfferStored, lockVars, Critical, Closing
<1>5. ASSUME NEW t \in Closer, CloseSession(t) PROVE StopInv'
  BY <1>2, <1>5, FreeIsClean DEF IInv, TypeOK, CloseSession, Critical, Closing
<1>6. ASSUME NEW t \in Sweeper, Sweep(t) PROVE StopInv'
  <2>1. CASE SweepLocks(t)
    BY <2>1 DEF SweepLocks, closeVars, StopInv
  <2>2. ASSUME NEW s \in Session, SweepVisits(t, s) PROVE StopInv'
    <3>1. t \in Thread /\ Critical(t)
      BY <1>6, <2>2, ThreadFacts DEF SweepVisits, Critical
    <3>2. CASE t = Stopper
      BY <1>2, <2>2, <3>1, <3>2 DEF IInv, TypeOK, SweepVisits, Sweeps, closeVars, StopInv, Closing
    <3>3. CASE t # Stopper
      <4>1. ~Critical(Stopper)
        BY <1>2, <3>1, <3>3, Alone
      <4>2. QED
        BY <1>2, <2>2, <3>3, <4>1 DEF IInv, TypeOK, SweepVisits, Critical, Closing
    <3>4. QED
      BY <3>2, <3>3
  <2>3. CASE SweepEnds(t)
    <3>1. t \in Thread /\ Critical(t)
      BY <1>6, <2>3, ThreadFacts DEF SweepEnds, Critical
    <3>2. t # Stopper => ~Critical(Stopper)
      BY <1>2, <3>1, Alone
    <3>3. QED
      BY <1>2, <2>3, <3>1, <3>2 DEF IInv, TypeOK, SweepEnds, Critical, Closing
  <2>4. QED
    BY <1>6, <2>1, <2>2, <2>3 DEF Sweep
<1>7. ASSUME NEW t \in Thread, Close(t) PROVE StopInv'
  <2>1. Closing(t)
    BY <1>7 DEF Close, CheckDone, SignalDone, CloseChannel, ClosePeer, DeleteSession, Closing
  <2>2. /\ UNCHANGED <<todo, cursor>> /\ sessions' \subseteq sessions
        /\ \A u \in Thread : u # t => pc'[u] = pc[u] \/ pc'[u] \in {"idle", "lock"}
        /\ Closing(t)' \/ sessions' = sessions \ {Target(t)}
    BY <1>7 DEF IInv, TypeOK, Close, CheckDone, SignalDone, CloseChannel, ClosePeer, DeleteSession,
       AfterClose, Spawned, Closing, closeVars, sweepVars
  <2>3. CASE t = Stopper
    BY <1>2, <2>1, <2>2, <2>3 DEF StopInv, Critical, Target
  <2>4. CASE t # Stopper
    BY <1>2, <2>1, <2>2, <2>4, CloseFacts DEF Critical, Closing
  <2>5. QED
    BY <2>3, <2>4
<1>8. QED
  BY <1>3, <1>4, <1>5, <1>6, <1>7 DEF Next, HandleOffer, QuietNext

\* Shutdown returns only with the map empty (manager.go:343-346): under its
\* lock nothing is stored or left over.
THEOREM ShutdownEmpties == Spec => ShutdownEmptiesMap
<1>1. Init => StopInv
  BY ThreadFacts DEF Init, StopInv, Critical, Closing, Sweeper
<1>2. ASSUME IInv, StopInv, [Next]_vars, pc[Stopper] # "over", pc'[Stopper] = "over"
      PROVE  sessions' = {}
  <2>1. Stopper \in Thread /\ Stopper \in Sweeper /\ Stopper \notin Closer
    BY ThreadFacts DEF Sweeper
  <2>2. TypeOK'
    BY <1>2, TypeNext DEF IInv
  <2>3. CASE QuietNext
    BY <1>2, <2>1, <2>2, <2>3, QuietNextInv DEF Quiet
  <2>4. ASSUME NEW s \in Session, OfferStored(s) PROVE FALSE
    BY <1>2, <2>4 DEF OfferStored, lockVars
  <2>5. ASSUME NEW t \in Closer, CloseSession(t) PROVE FALSE
    BY <1>2, <2>1, <2>5 DEF IInv, TypeOK, CloseSession
  <2>6. ASSUME NEW t \in Sweeper, Sweep(t) PROVE sessions' = {}
    BY <1>2, <2>1, <2>6, ThreadFacts DEF IInv, TypeOK, Sweep, SweepLocks, SweepVisits, SweepEnds, closeVars,
       StopInv, Critical, Closing
  <2>7. ASSUME NEW t \in Thread, Close(t) PROVE FALSE
    BY <1>2, <2>1, <2>7 DEF IInv, TypeOK, Close, CheckDone, SignalDone, CloseChannel, ClosePeer,
       DeleteSession, AfterClose, Spawned
  <2>8. QED
    BY <1>2, <2>3, <2>4, <2>5, <2>6, <2>7 DEF Next, HandleOffer, QuietNext, vars
<1>3. QED
  BY <1>1, <1>2, StopNext, Invariance, InitInv, NextInv, PTL DEF Spec, ShutdownEmptiesMap

-----------------------------------------------------------------------------
(* The registry that the manager implements *)

Held   == {s \in Session : peer[s] \notin {"none", "Closed"}}
Phases == [s \in Session |-> Phase(s)]

\* While an offer is on its way its peer connection is open; without one, and
\* once the offer was refused, it holds nothing.
PeerInv ==
  \A s \in Session :
    /\ offer[s] \in {"negotiating", "gathering", "storing"} => s \in Held
    /\ offer[s] \in {"none", "refused"} => s \notin Held

\* A step that leaves offers, map and open peers alone is none of the registry.
LEMMA Stutter ==
  ASSUME UNCHANGED <<offer, sessions>>, Held' = Held
  PROVE  UNCHANGED Registry!vars
<1>1. \A s \in Session : Phase(s)' = Phase(s)
  BY DEF Phase
<1>2. Phases' = Phases
  BY <1>1 DEF Phases
<1> QED
  BY <1>2 DEF Registry!vars, Phases, Held

\* A step that concerns one session.
LEMMA OnePhase ==
  ASSUME NEW s \in Session,
         \A r \in Session \ {s} :
           offer'[r] = offer[r] /\ (r \in sessions' <=> r \in sessions) /\ peer'[r] = peer[r]
  PROVE  /\ Phases' = [Phases EXCEPT ![s] = Phase(s)']
         /\ Held' = IF s \in Held' THEN Held \cup {s} ELSE Held \ {s}
<1>1. \A r \in Session \ {s} : Phase(r)' = Phase(r)
  BY DEF Phase
<1>2. Phases' = [Phases EXCEPT ![s] = Phase(s)']
  BY <1>1 DEF Phases
<1>3. Held' = IF s \in Held' THEN Held \cup {s} ELSE Held \ {s}
  BY DEF Held
<1> QED
  BY <1>2, <1>3

LEMMA OfferMaps ==
  ASSUME IInv, PeerInv, NEW s \in Session, HandleOffer(s)
  PROVE  PeerInv' /\ [Registry!Next]_(Registry!vars)
<1> USE DEF peerVars, OfferAdvances
<1>1. CASE OfferNegotiated(s) \/ OfferGathered(s)
  <2>1. offer[s] \in {"negotiating", "gathering"} /\ offer'[s] \in {"gathering", "storing"}
        /\ UNCHANGED <<sessions, peer>> /\ \A r \in Session \ {s} : offer'[r] = offer[r]
    BY <1>1 DEF IInv, TypeOK, OfferNegotiated, OfferGathered, closeVars
  <2>2. Phase(s)' = Phase(s) /\ Held' = Held
    BY <2>1 DEF Phase, Held
  <2>3. Phases' = Phases
    BY <2>1, <2>2, OnePhase DEF Phases
  <2>4. PeerInv'
    BY <2>1, <2>2 DEF PeerInv
  <2> QED
    BY <2>2, <2>3, <2>4 DEF Registry!vars, Phases, Held
<1>2. CASE OfferNotCreated(s)
  <2>1. offer[s] = "none" /\ offer'[s] = "refused" /\ UNCHANGED <<sessions, peer>>
        /\ \A r \in Session \ {s} : offer'[r] = offer[r]
    BY <1>2 DEF IInv, TypeOK, OfferNotCreated, closeVars
  <2>2. Phase(s) = "new" /\ Phase(s)' = "refused" /\ Held' = Held
    BY <2>1 DEF Phase, Held
  <2>3. Phases[s] = "new" /\ Phases' = [Phases EXCEPT ![s] = "refused"]
    BY <2>1, <2>2, OnePhase DEF Phases
  <2>4. Registry!Decline(s)
    BY <2>2, <2>3 DEF Registry!Decline, Registry!Advance, Phases, Held
  <2>5. PeerInv'
    BY <2>1, <2>2 DEF PeerInv
  <2> QED
    BY <2>4, <2>5 DEF Registry!Next
<1>3. CASE OfferCreated(s)
  <2>1. offer[s] = "none" /\ offer'[s] = "negotiating" /\ peer'[s] = "connecting"
        /\ sessions' = sessions
        /\ \A r \in Session \ {s} : offer'[r] = offer[r] /\ peer'[r] = peer[r]
    BY <1>3 DEF IInv, TypeOK, OfferCreated, closeVars
  <2>2. Phase(s) = "new" /\ Phase(s)' = "pending" /\ s \in Held'
    BY <2>1 DEF Phase, Held
  <2>3. Phases[s] = "new" /\ Phases' = [Phases EXCEPT ![s] = "pending"] /\ Held' = Held \cup {s}
    BY <2>1, <2>2, OnePhase DEF Phases
  <2>4. Registry!Begin(s)
    BY <2>3 DEF Registry!Begin, Registry!Advance, Phases, Held
  <2>5. PeerInv'
    BY <2>1, <2>2, <2>3 DEF PeerInv
  <2> QED
    BY <2>4, <2>5 DEF Registry!Next
<1>4. ASSUME NEW from \in {"negotiating", "gathering"}, OfferRefused(s, from)
      PROVE  PeerInv' /\ Registry!Next
  <2>1. offer[s] = from /\ offer'[s] = "refused" /\ peer'[s] = "Closed" /\ sessions' = sessions
        /\ \A r \in Session \ {s} : offer'[r] = offer[r] /\ peer'[r] = peer[r]
    BY <1>4 DEF IInv, TypeOK, OfferRefused, ClosedPeer, closeVars
  <2>2. Phase(s) = "pending" /\ Phase(s)' = "refused" /\ s \notin Held'
    BY <2>1 DEF Phase, Held
  <2>3. Phases[s] = "pending" /\ Phases' = [Phases EXCEPT ![s] = "refused"] /\ Held' = Held \ {s}
    BY <2>1, <2>2, OnePhase DEF Phases
  <2>4. Registry!Refuse(s)
    BY <2>3 DEF Registry!Refuse, Registry!Advance, Phases, Held
  <2>5. PeerInv'
    BY <2>1, <2>2, <2>3 DEF PeerInv
  <2> QED
    BY <2>4, <2>5 DEF Registry!Next, Registry!End
<1>5. CASE OfferStored(s)
  <2>1. offer[s] = "storing" /\ offer'[s] = "answered" /\ peer' = peer
        /\ sessions' = sessions \cup {s} /\ \A r \in Session \ {s} : offer'[r] = offer[r]
    BY <1>5 DEF IInv, TypeOK, OfferStored
  <2>2. Phase(s) = "pending" /\ Phase(s)' = "live" /\ Held' = Held /\ s \in Held
    BY <2>1 DEF Phase, Held, PeerInv
  <2>3. Phases[s] = "pending" /\ Phases' = [Phases EXCEPT ![s] = "live"]
    BY <2>1, <2>2, OnePhase DEF Phases
  <2>4. Registry!Accept(s)
    BY <2>2, <2>3 DEF Registry!Accept, Registry!Advance, Phases, Held
  <2>5. PeerInv'
    BY <2>1, <2>2 DEF PeerInv
  <2> QED
    BY <2>4, <2>5 DEF Registry!Next, Registry!End
<1> QED
  BY <1>1, <1>2, <1>3, <1>4, <1>5 DEF HandleOffer, OfferInvalid, OfferTimesOut

LEMMA CloseMaps ==
  ASSUME IInv, PeerInv, NEW t \in Thread, Close(t)
  PROVE  PeerInv' /\ [Registry!Next]_(Registry!vars)
<1>1. Closing(t)
  BY DEF Close, CheckDone, SignalDone, CloseChannel, ClosePeer, DeleteSession, Closing
<1>2. PICK s \in Session : s = Target(t) /\ s \in sessions /\ offer[s] = "answered"
  BY <1>1, CloseFacts
<1>3. Phase(s) = "live" /\ Phases[s] = "live"
  BY <1>2 DEF Phase, Phases
<1>4. CASE CheckDone(t) \/ SignalDone(t) \/ CloseChannel(t)
  <2>1. UNCHANGED <<offer, sessions, peer>>
    BY <1>4 DEF CheckDone, SignalDone, CloseChannel, peerVars, closeVars
  <2> QED
    BY <2>1, Stutter DEF Held, PeerInv
<1>5. CASE ClosePeer(t)
  <2>1. UNCHANGED <<offer, sessions>> /\ peer'[s] = "Closed"
        /\ \A r \in Session \ {s} : peer'[r] = peer[r]
    BY <1>2, <1>5 DEF IInv, TypeOK, ClosePeer, ClosedPeer, closeVars
  <2>2. Held' = Held \ {s}
    BY <1>2, <2>1, OnePhase DEF Held
  <2>3. PeerInv'
    BY <1>2, <2>1, <2>2 DEF PeerInv
  <2>4. CASE s \notin Held
    BY <2>1, <2>2, <2>3, <2>4, Stutter
  <2>5. CASE s \in Held
    <3>1. Phases' = Phases
      BY <2>1 DEF Phases, Phase
    <3>2. Registry!Release(s)
      BY <1>3, <2>2, <2>5, <3>1 DEF Registry!Release, Phases, Held
    <3> QED
      BY <1>2, <2>3, <3>2 DEF Registry!Next, Registry!End
  <2> QED
    BY <2>4, <2>5
<1>6. CASE DeleteSession(t)
  <2>1. UNCHANGED <<offer, peer>> /\ sessions' = sessions \ {s} /\ peer[s] = "Closed"
    BY <1>2, <1>6 DEF IInv, CloseInv, DeleteSession
  <2>2. Phase(s)' = "gone" /\ Held' = Held /\ s \notin Held
    BY <1>2, <2>1 DEF Phase, Held
  <2>3. Phases' = [Phases EXCEPT ![s] = "gone"]
    BY <1>2, <2>1, <2>2, OnePhase
  <2>4. Registry!Remove(s)
    BY <1>3, <2>2, <2>3 DEF Registry!Remove, Registry!Advance, Phases, Held
  <2>5. PeerInv'
    BY <2>1, <2>2 DEF PeerInv
  <2> QED
    BY <1>2, <2>4, <2>5 DEF Registry!Next, Registry!End
<1> QED
  BY <1>4, <1>5, <1>6 DEF Close

LEMMA PeerMaps ==
  ASSUME IInv, PeerInv, NEW s \in Session, Peer(s)
  PROVE  PeerInv' /\ UNCHANGED Registry!vars
<1>1. UNCHANGED <<offer, sessions>>
  BY DEF Peer, PeerConnects, PeerDisconnects, PeerFails, PeerBecomes, ChannelOpens, MessageArrives, closeVars
<1>2. Held' = Held
  <2>1. ASSUME NEW from, NEW to, {"none", "Closed"} \cap (from \cup {to}) = {}, PeerBecomes(s, from, to)
        PROVE  Held' = Held
    BY <2>1 DEF IInv, TypeOK, PeerBecomes, Held
  <2>2. CASE ChannelOpens(s) \/ MessageArrives(s)
    BY <2>2 DEF ChannelOpens, MessageArrives, Held
  <2> QED
    BY <2>1, <2>2 DEF Peer, PeerConnects, PeerDisconnects, PeerFails
<1> QED
  BY <1>1, <1>2, Stutter DEF PeerInv

LEMMA NextMaps ==
  IInv /\ PeerInv /\ [Next]_vars => PeerInv' /\ [Registry!Next]_(Registry!vars)
<1> SUFFICES ASSUME IInv, PeerInv, [Next]_vars
             PROVE  PeerInv' /\ [Registry!Next]_(Registry!vars)
  OBVIOUS
<1>1. ASSUME NEW s \in Session, HandleOffer(s) PROVE PeerInv' /\ [Registry!Next]_(Registry!vars)
  BY <1>1, OfferMaps
<1>2. ASSUME NEW s \in Session, Peer(s) PROVE PeerInv' /\ UNCHANGED Registry!vars
  BY <1>2, PeerMaps
<1>3. ASSUME NEW t \in Thread, Close(t) PROVE PeerInv' /\ [Registry!Next]_(Registry!vars)
  BY <1>3, CloseMaps
<1>4. ASSUME \/ \E s \in Session : ReportArrives(s)
             \/ \E t \in Closer : CloseSession(t)
             \/ \E t \in Sweeper : Sweep(t)
             \/ CleanupStarts \/ ShutdownStarts \/ Tick \/ UNCHANGED vars
      PROVE  PeerInv' /\ UNCHANGED Registry!vars
  <2>1. UNCHANGED <<offer, sessions, peer>>
    BY <1>4 DEF ReportArrives, CloseSession, Sweep, SweepLocks, SweepVisits, SweepEnds, CleanupStarts,
       ShutdownStarts, Tick, vars, peerVars, closeVars
  <2> QED
    BY <2>1, Stutter DEF Held, PeerInv
<1> QED
  BY <1>1, <1>2, <1>3, <1>4 DEF Next

\* The manager implements the registry for any set of sessions and any
\* limits: it begins, refuses, accepts, releases and removes sessions in the
\* registry's order or does nothing that the registry sees. Only that every
\* session ends is left to the run (manager.go:134-231, 260-340).
THEOREM FollowsRegistry == Spec => Registry!Steps
<1>1. Init => PeerInv /\ Registry!Init
  <2> SUFFICES ASSUME Init PROVE PeerInv /\ Registry!Init
    OBVIOUS
  <2>1. Held = {}
    BY DEF Init, Held
  <2>2. Phases = [s \in Session |-> "new"]
    BY DEF Init, Phases, Phase
  <2>3. PeerInv
    BY <2>1 DEF Init, PeerInv
  <2> QED
    BY <2>1, <2>2, <2>3 DEF Registry!Init, Phases, Held
<1> QED
  BY <1>1, NextMaps, Invariance, PTL DEF Spec, Registry!Steps
-----------------------------------------------------------------------------
(* Closed for a cause: the history of MCSessionHistory *)

\* What a goroutine closes is excused before it closes it: by the report or
\* the callback that started it, by cleanup's two sets, or by Shutdown.
CauseInv ==
  /\ \A t \in Thread : Closing(t) => t = Stopper \/ Target(t) \in excused
  /\ aged \cup stale \subseteq excused
  /\ ClosedForCause

\* Shutdown, once called, is never as if it had not been.
LEMMA StopperStays ==
  ASSUME TypeOK, [Next]_vars, pc[Stopper] # "idle"
  PROVE  pc'[Stopper] # "idle"
<1>1. Stopper \in Thread /\ Stopper \in Sweeper /\ Stopper \notin Closer
  BY ThreadFacts DEF Sweeper
<1>2. ASSUME NEW s \in Session, NEW c \in Cause PROVE <<s, c>> # Stopper
  BY <1>1 DEF Closer
<1>3. ASSUME NEW s \in Session, HandleOffer(s) PROVE pc'[Stopper] # "idle"
  BY <1>1, <1>2, <1>3 DEF TypeOK, HandleOffer, OfferNotCreated, OfferCreated, OfferInvalid, OfferNegotiated,
     OfferTimesOut, OfferGathered, OfferStored, OfferRefused, AfterClose, Spawned, Cause, PeerTerminal, lockVars
<1>4. ASSUME NEW s \in Session, Peer(s) \/ ReportArrives(s) PROVE pc'[Stopper] # "idle"
  BY <1>1, <1>2, <1>4 DEF TypeOK, Peer, PeerConnects, PeerDisconnects, PeerFails, PeerBecomes, ChannelOpens,
     MessageArrives, ReportArrives, Spawned, Cause, PeerTerminal, lockVars
<1>5. ASSUME NEW t \in Closer, CloseSession(t) PROVE pc'[Stopper] # "idle"
  BY <1>1, <1>5 DEF TypeOK, CloseSession
<1>6. ASSUME NEW t \in Sweeper, Sweep(t) PROVE pc'[Stopper] # "idle"
  BY <1>1, <1>6 DEF TypeOK, Sweep, SweepLocks, SweepVisits, SweepEnds
<1>7. ASSUME NEW t \in Thread, Close(t) PROVE pc'[Stopper] # "idle"
  BY <1>1, <1>7 DEF TypeOK, Close, CheckDone, SignalDone, CloseChannel, ClosePeer, DeleteSession,
     AfterClose, Spawned
<1>8. CASE CleanupStarts \/ ShutdownStarts \/ Tick \/ UNCHANGED vars
  BY <1>1, <1>8 DEF TypeOK, CleanupStarts, ShutdownStarts, Tick, vars, lockVars
<1> QED
  BY <1>3, <1>4, <1>5, <1>6, <1>7, <1>8 DEF Next

\* Only three actions bring a session nearer to being closed by somebody:
\* all others close what their goroutine was closing already.
LEMMA SameTargets ==
  ASSUME IInv, [Next]_vars,
         \A t \in Closer : ~CloseSession(t),
         \A t \in Sweeper : ~SweepLocks(t) /\ \A s \in Session : ~SweepVisits(t, s)
  PROVE  /\ \A t \in Thread : Closing(t)' => Closing(t) /\ Target(t)' = Target(t)
         /\ aged' \subseteq aged /\ stale' \subseteq stale
         /\ \A s \in done' \ done : \E t \in Thread : Closing(t) /\ Target(t) = s
<1>0. TypeOK'
  BY TypeNext DEF IInv
<1>1. CASE QuietNext
  <2>1. Quiet /\ UNCHANGED <<cursor, done>>
    BY <1>0, <1>1, QuietNextInv DEF QuietNext, OfferNotCreated, OfferCreated, OfferInvalid, OfferNegotiated,
       OfferTimesOut, OfferGathered, OfferRefused, Peer, PeerConnects, PeerDisconnects, PeerFails, PeerBecomes,
       ChannelOpens, MessageArrives, ReportArrives, CleanupStarts, ShutdownStarts, Tick, closeVars, vars
  <2>2. aged' \subseteq aged /\ stale' \subseteq stale
    BY <1>1 DEF QuietNext, OfferNotCreated, OfferCreated, OfferInvalid, OfferNegotiated, OfferTimesOut,
       OfferGathered, OfferRefused, Peer, PeerConnects, PeerDisconnects, PeerFails, PeerBecomes,
       ChannelOpens, MessageArrives, Touch, ReportArrives, CleanupStarts, ShutdownStarts, Tick, sweepVars, vars
  <2> QED
    BY <2>1, <2>2 DEF Quiet, Closing, Target
<1>2. ASSUME NEW s \in Session, OfferStored(s)
      PROVE  UNCHANGED <<pc, cursor, done, aged, stale>>
  BY <1>2 DEF OfferStored, lockVars, sweepVars
<1>3. ASSUME NEW t \in Sweeper, SweepEnds(t)
      PROVE  /\ UNCHANGED done /\ aged' = {} /\ stale' = {}
             /\ \A u \in Thread : Closing(u)' => Closing(u) /\ Target(u)' = Target(u)
  BY <1>3, ThreadFacts DEF IInv, TypeOK, SweepEnds, Closing, Target, closeVars
<1>4. ASSUME NEW t \in Thread, Close(t)
      PROVE  /\ \A u \in Thread : Closing(u)' => Closing(u) /\ Target(u)' = Target(u)
             /\ UNCHANGED <<aged, stale>> /\ done' \subseteq done \cup {Target(t)} /\ Closing(t)
  BY <1>4 DEF IInv, TypeOK, Close, CheckDone, SignalDone, CloseChannel, ClosePeer, DeleteSession, AfterClose,
     Spawned, Closing, Target, closeVars, sweepVars
<1> QED
  BY <1>1, <1>2, <1>3, <1>4 DEF Next, HandleOffer, QuietNext, Sweep, Closing, Target

\* The history only grows, and takes in whoever a started goroutine is for
\* and every session over a limit.
LEMMA ExcusedGrows ==
  ASSUME MCNext, TypeOK
  PROVE  /\ excused \subseteq excused'
         /\ \A t \in Closer : pc[t] = "lock" => t[1] \in excused'
         /\ \A s \in sessions : Expired(s) => s \in excused'
<1>1. \A t \in Closer : t[1] \in Session /\ t[2] \in Cause /\ t = <<t[1], t[2]>>
  BY DEF Closer
<1> QED
  BY <1>1 DEF MCNext, TypeOK

\* A step that closes nothing.
LEMMA CauseKept ==
  ASSUME CauseInv, excused \subseteq excused', UNCHANGED done,
         pc[Stopper] # "idle" => pc'[Stopper] # "idle",
         \A t \in Thread : Closing(t)' => t = Stopper \/ Target(t)' \in excused',
         aged' \cup stale' \subseteq excused'
  PROVE  CauseInv'
<1>1. ClosedForCause'
  BY DEF CauseInv, ClosedForCause
<1> QED
  BY <1>1 DEF CauseInv

LEMMA CauseNext ==
  ASSUME IInv, CauseInv, [MCNext]_<<vars, excused>>
  PROVE  CauseInv'
<1>1. CASE UNCHANGED <<vars, excused>>
  BY <1>1 DEF CauseInv, ClosedForCause, Closing, Target, vars, closeVars, lockVars, sweepVars
<1>2. CASE MCNext
  <2>1. [Next]_vars /\ excused \subseteq excused'
    BY <1>2, ExcusedGrows DEF MCNext, IInv
  <2>2. TypeOK' /\ done' \subseteq Session
    BY <2>1, TypeNext DEF IInv, TypeOK
  <2>3. pc[Stopper] # "idle" => pc'[Stopper] # "idle"
    BY <2>1, StopperStays DEF IInv
  <2>4. ASSUME NEW t \in Closer, CloseSession(t) PROVE CauseInv'
    <3>1. t[1] \in excused' /\ t \notin Sweeper /\ t \in Thread
      BY <1>2, <2>4, ExcusedGrows, ThreadFacts DEF IInv, CloseSession
    <3>2. \A u \in Thread : u # t /\ Closing(u)' => Closing(u) /\ Target(u)' = Target(u)
      BY <2>4 DEF IInv, TypeOK, CloseSession, Closing, Target, sweepVars
    <3>3. Target(t)' = t[1]
      BY <3>1 DEF Target
    <3>4. \A u \in Thread : Closing(u)' => u = Stopper \/ Target(u)' \in excused'
      BY <2>1, <3>1, <3>2, <3>3 DEF CauseInv
    <3>5. UNCHANGED <<done, aged, stale>>
      BY <2>4 DEF CloseSession, closeVars, sweepVars
    <3>6. aged' \cup stale' \subseteq excused'
      BY <2>1, <3>5 DEF CauseInv
    <3> QED
      BY <2>1, <2>3, <3>4, <3>5, <3>6, CauseKept
  <2>5. ASSUME NEW t \in Sweeper, SweepLocks(t) PROVE CauseInv'
    <3>1. aged' \cup stale' \subseteq excused'
      BY <1>2, <2>5, ExcusedGrows DEF IInv, SweepLocks, Exceeds, Expired
    <3>2. \A u \in Thread : Closing(u)' => Closing(u) /\ Target(u)' = Target(u)
      BY <2>5 DEF IInv, TypeOK, SweepLocks, Closing, Target
    <3>3. \A u \in Thread : Closing(u)' => u = Stopper \/ Target(u)' \in excused'
      BY <2>1, <3>2 DEF CauseInv
    <3>4. UNCHANGED done
      BY <2>5 DEF SweepLocks, closeVars
    <3> QED
      BY <2>1, <2>3, <3>1, <3>3, <3>4, CauseKept
  <2>6. ASSUME NEW t \in Sweeper, NEW s \in Session, SweepVisits(t, s) PROVE CauseInv'
    <3>1. \A u \in Thread : Closing(u)' => (Closing(u) /\ Target(u)' = Target(u))
                                           \/ (u = t /\ Sweeps(t, s) /\ Target(u)' = s)
      BY <2>6, ThreadFacts DEF IInv, TypeOK, SweepVisits, Closing, Target
    <3>2. \A u \in Thread : Closing(u)' => u = Stopper \/ Target(u)' \in excused'
      BY <2>1, <3>1 DEF CauseInv, Sweeps
    <3>3. UNCHANGED <<done, aged, stale>>
      BY <2>6 DEF SweepVisits, closeVars
    <3>4. aged' \cup stale' \subseteq excused'
      BY <2>1, <3>3 DEF CauseInv
    <3> QED
      BY <2>1, <2>3, <3>2, <3>3, <3>4, CauseKept
  <2>7. CASE /\ \A t \in Closer : ~CloseSession(t)
             /\ \A t \in Sweeper : ~SweepLocks(t) /\ \A s \in Session : ~SweepVisits(t, s)
    <3>1. /\ \A t \in Thread : Closing(t)' => Closing(t) /\ Target(t)' = Target(t)
          /\ aged' \subseteq aged /\ stale' \subseteq stale
          /\ \A s \in done' \ done : \E t \in Thread : Closing(t) /\ Target(t) = s
      BY <2>1, <2>7, SameTargets
    <3>2. Closing(Stopper) => pc[Stopper] # "idle"
      BY DEF Closing
    <3> QED
      BY <2>1, <2>2, <2>3, <3>1, <3>2 DEF CauseInv, ClosedForCause
  <2> QED
    BY <2>4, <2>5, <2>6, <2>7
<1> QED
  BY <1>1, <1>2

\* Every session is closed for a cause, for any number of sessions and any
\* limits: neither cleanup nor a stray goroutine ever ends one that is
\* within its limits, not reported, not terminal and not shut down (manager.go
\* 114-123, 287-312, 233-256).
THEOREM ForCause == MCFairSpec => []ClosedForCause
<1>1. MCInit => IInv /\ CauseInv
  BY InitInv DEF MCInit, Init, CauseInv, ClosedForCause, Closing
<1>2. IInv /\ [MCNext]_<<vars, excused>> => IInv'
  BY NextInv DEF MCNext
<1>3. IInv /\ CauseInv /\ [MCNext]_<<vars, excused>> => CauseInv'
  BY CauseNext
<1>4. CauseInv => ClosedForCause
  BY DEF CauseInv
<1> QED
  BY <1>1, <1>2, <1>3, <1>4, PTL DEF MCFairSpec
=============================================================================
