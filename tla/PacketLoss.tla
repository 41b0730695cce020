----------------------------- MODULE PacketLoss -----------------------------
(***************************************************************************)
(* The packet loss test between the browser (runPacketLossTest of          *)
(* web/js/speedtest.js) and one WebRTC session of the server               *)
(* (setupPacketLossChannel of internal/webrtc/manager.go), over a data     *)
(* channel that neither orders nor retransmits.                            *)
(*                                                                         *)
(* The client sends N numbered packets, one per timer tick; the server     *)
(* counts each and acknowledges it; the client waits for late acks, counts *)
(* the distinct ones and decides whether the missing ones are loss or the  *)
(* sign of a broken connection.  Round-trip times are left out.            *)
(***************************************************************************)
EXTENDS Integers, FiniteSets

CONSTANTS
  N,          \* CONFIG.packetLossPackets
  MaxDrops,   \* bound: packets and acks that the network loses
  MaxFlight   \* bound: packets and acks on their way at a time

ASSUME LossAssumption == N \in Nat \ {0} /\ MaxDrops \in Nat /\ MaxFlight \in Nat \ {0}

Packet == 0 .. N - 1

VARIABLES
  phase,     \* what runPacketLossTest awaits
  pc,        \* the client's peer connection and data channel
  seq,       \* the next packet to send
  acks,      \* the packets whose ack has arrived
  counted,   \* the acks that were there when the loss was computed
  verdict,   \* what results.packetLoss says
  lost,      \* the packets that results.lossPattern describes as lost
  stopped,   \* abortController.signal.aborted
  session,   \* the server's session
  totalRecv, \* SessionStats.TotalRecv
  wire,      \* packets on their way to the server
  back,      \* acks on their way to the client
  path,      \* whether the network still connects the two
  drops      \* packets and acks lost so far

resultVars == <<counted, verdict, lost>>
clientVars == <<phase, pc, seq, acks, stopped>>
serverVars == <<session, totalRecv>>
netVars    == <<wire, back, path, drops>>
vars == <<clientVars, resultVars, serverVars, netVars>>

Setup  == {"credentials", "gathering", "offer", "connecting"}
Phase  == Setup \cup {"sending", "late", "stats", "report", "done"}
Broken == {"noResponse", "died", "unstable"}

TypeOK ==
  /\ phase \in Phase /\ pc \in {"none", "open", "channelClosed", "closed"}
  /\ seq \in 0 .. N
  /\ acks \subseteq Packet /\ counted \subseteq acks /\ lost \subseteq Packet
  /\ verdict \in {"none", "failed", "loss"} \cup Broken
  /\ stopped \in BOOLEAN
  /\ session \in {"none", "open", "closed"} /\ totalRecv \in 0 .. N
  /\ wire \subseteq Packet /\ back \subseteq Packet
  /\ path \in BOOLEAN /\ drops \in 0 .. MaxDrops

Init ==
  /\ phase = "credentials" /\ pc = "none" /\ seq = 0 /\ acks = {} /\ stopped = FALSE
  /\ counted = {} /\ verdict = "none" /\ lost = {}
  /\ session = "none" /\ totalRecv = 0
  /\ wire = {} /\ back = {} /\ path = TRUE /\ drops = 0

-----------------------------------------------------------------------------
(* Setting up *)

\* The catch block: the test is unavailable.  It closes neither the channel
\* nor the peer connection.
Fails ==
  /\ phase' = "done" /\ verdict' = "failed"
  /\ UNCHANGED <<seq, acks, stopped, counted, lost, totalRecv, netVars>>

Proceeds(next) ==
  /\ phase' = next
  /\ UNCHANGED <<seq, acks, stopped, resultVars, totalRecv, netVars>>

\* Without credentials the test returns before it has a peer connection.
Credentials ==
  /\ phase = "credentials"
  /\ \/ Proceeds("gathering") /\ pc' = "open"
     \/ Fails /\ pc' = pc
  /\ UNCHANGED session

\* All candidates are known, or 10 s have passed.
Gathers ==
  /\ phase = "gathering"
  /\ Proceeds("offer") \/ Fails
  /\ UNCHANGED <<pc, session>>

\* HandleOffer may have stored the session although its answer is lost.
Offers ==
  /\ phase = "offer"
  /\ \/ Proceeds("connecting") /\ session' = "open"
     \/ Fails /\ session' \in {"none", "open"}
  /\ UNCHANGED pc

\* Mutant: waiting for the channel without a limit.
ConnectsOrWaits ==
  /\ phase = "connecting"
  /\ path /\ session = "open" /\ Proceeds("sending")
  /\ UNCHANGED <<pc, session>>

\* The channel opens, or ICE fails, or 15 s have passed.  From the moment it
\* is open nobody watches the ICE state.
Connects ==
  /\ phase = "connecting"
  /\ \/ path /\ session = "open" /\ Proceeds("sending")
     \/ Fails
  /\ UNCHANGED <<pc, session>>

-----------------------------------------------------------------------------
(* Sending, and the server's answers *)

\* A tick of the interval: stop is looked at, the pause is not.  A send on a
\* closed channel throws; the packet counts as sent all the same.
Send ==
  /\ phase = "sending" /\ seq < N /\ ~stopped
  /\ Cardinality(wire) + Cardinality(back) < MaxFlight
  /\ wire' = IF path /\ pc = "open" THEN wire \cup {seq} ELSE wire
  /\ seq' = seq + 1
  /\ UNCHANGED <<phase, pc, acks, stopped, resultVars, serverVars, back, path, drops>>

\* Mutant: the last packet is not sent.
SendingEndsEarly ==
  /\ phase = "sending" /\ (seq >= N - 1 \/ stopped)
  /\ phase' = "late"
  /\ UNCHANGED <<pc, seq, acks, stopped, resultVars, serverVars, netVars>>

SendingEnds ==
  /\ phase = "sending" /\ (seq >= N \/ stopped)
  /\ phase' = "late"
  /\ UNCHANGED <<pc, seq, acks, stopped, resultVars, serverVars, netVars>>

\* Mutant: the server counts only packets that arrive in order.
OnMessageInOrder(p) ==
  /\ p \in wire /\ session = "open"
  /\ wire' = wire \ {p} /\ back' = back \cup {p}
  /\ totalRecv' = IF p \in wire /\ \E q \in back : q > p THEN totalRecv ELSE totalRecv + 1
  /\ UNCHANGED <<clientVars, resultVars, session, path, drops>>

\* OnMessage: the packet is counted and acknowledged.
OnMessage(p) ==
  /\ p \in wire /\ session = "open"
  /\ wire' = wire \ {p} /\ back' = back \cup {p}
  /\ totalRecv' = totalRecv + 1
  /\ UNCHANGED <<clientVars, resultVars, session, path, drops>>

\* dc.onmessage: acks is a map, a packet counts once.
OnAck(p) ==
  /\ p \in back /\ pc = "open"
  /\ back' = back \ {p} /\ acks' = acks \cup {p}
  /\ UNCHANGED <<phase, pc, seq, stopped, resultVars, serverVars, wire, path, drops>>

-----------------------------------------------------------------------------
(* Counting *)

LateThreshold == (8 * N) \div 10
Received(a)   == Cardinality(a)
EarlyAcks(a)  == Cardinality({p \in a : p < LateThreshold})
LateAcks(a)   == Cardinality({p \in a : p >= LateThreshold})

\* Mutant: a count of packets taken for a share.
LossCountAbove(a, percent) == 100 * (N - Received(a)) > percent

LossAbove(a, percent) == 100 * (N - Received(a)) > percent * N

\* More than 80% of the first 80% of the packets, less than 50% of the rest.
StoppedShort(a) ==
  /\ 100 * EarlyAcks(a) > 80 * LateThreshold
  /\ 100 * LateAcks(a) < 50 * (N - LateThreshold)

Verdict(a) ==
  IF a = {} THEN "noResponse"
  ELSE IF ~LossAbove(a, 10) THEN "loss"
  ELSE IF StoppedShort(a) THEN "died"
  ELSE IF LossAbove(a, 50) THEN "unstable"
  ELSE "loss"

\* Mutant: an early return that does not close.
CountsAndLeaves ==
  /\ phase = "late"
  /\ counted' = acks /\ verdict' = Verdict(acks)
  /\ phase' = IF Verdict(acks) \in Broken THEN "done" ELSE "stats"
  /\ UNCHANGED <<pc, seq, acks, stopped, lost, serverVars, netVars>>

\* The wait for late acks is over.  A broken connection is closed and not
\* reported to the server; otherwise the statistics of the connection are
\* asked for, which lets further acks in.
Counts ==
  /\ phase = "late"
  /\ counted' = acks /\ verdict' = Verdict(acks)
  /\ IF Verdict(acks) \in Broken THEN phase' = "done" /\ pc' = "closed"
     ELSE phase' = "stats" /\ pc' = pc
  /\ UNCHANGED <<seq, acks, stopped, lost, serverVars, netVars>>

\* Mutant: packets numbered from one.
AnalyzesFromOne ==
  /\ phase = "stats"
  /\ lost' = (1 .. N - 1) \ acks
  /\ phase' = "report" /\ pc' = "closed"
  /\ UNCHANGED <<seq, acks, stopped, counted, verdict, serverVars, netVars>>

\* analyzeLossPattern looks at the acks of this moment.
Analyzes ==
  /\ phase = "stats"
  /\ lost' = Packet \ acks
  /\ phase' = "report" /\ pc' = "closed"
  /\ UNCHANGED <<seq, acks, stopped, counted, verdict, serverVars, netVars>>

\* The report closes the session; its failure is ignored.
Reports ==
  /\ phase = "report" /\ phase' = "done"
  /\ session' \in {session, "closed"}
  /\ UNCHANGED <<pc, seq, acks, stopped, resultVars, totalRecv, netVars>>

-----------------------------------------------------------------------------
(* The environment *)

Stop ==
  /\ ~stopped /\ stopped' = TRUE
  /\ UNCHANGED <<phase, pc, seq, acks, resultVars, serverVars, netVars>>

\* The manager closes the session: cleanup, shutdown, or the state callback.
SessionCloses ==
  /\ session = "open" /\ session' = "closed"
  /\ UNCHANGED <<clientVars, resultVars, totalRecv, netVars>>

\* The client learns of it.
ChannelCloses ==
  /\ pc = "open" /\ session = "closed" /\ pc' = "channelClosed"
  /\ UNCHANGED <<phase, seq, acks, stopped, resultVars, serverVars, netVars>>

Drop ==
  /\ drops < MaxDrops /\ drops' = drops + 1
  /\ \E p \in Packet :
       \/ p \in wire /\ wire' = wire \ {p} /\ back' = back
       \/ p \in back /\ back' = back \ {p} /\ wire' = wire
  /\ UNCHANGED <<clientVars, resultVars, serverVars, path>>

\* What nobody will receive any more.
Vanish ==
  /\ \/ session = "closed" /\ wire # {} /\ wire' = {} /\ back' = back
     \/ pc \in {"channelClosed", "closed"} /\ back # {} /\ back' = {} /\ wire' = wire
  /\ UNCHANGED <<clientVars, resultVars, serverVars, path, drops>>

PathDies ==
  /\ path /\ path' = FALSE /\ wire' = {} /\ back' = {}
  /\ UNCHANGED <<clientVars, resultVars, serverVars, drops>>

Client == Credentials \/ Gathers \/ Offers \/ Connects \/ Send \/ SendingEnds
            \/ Counts \/ Analyzes \/ Reports

Next ==
  \/ Client
  \/ \E p \in Packet : OnMessage(p) \/ OnAck(p)
  \/ Stop \/ SessionCloses \/ ChannelCloses \/ Drop \/ Vanish \/ PathDies

\* Requests, timeouts and timers end; the network owes nothing.  What is in
\* flight has an end: it arrives or it is lost.
Lands == Vanish \/ Drop \/ PathDies \/ \E p \in Packet : OnMessage(p) \/ OnAck(p)

Spec == Init /\ [][Next]_vars /\ WF_vars(Client) /\ WF_vars(Lands)

-----------------------------------------------------------------------------
(* Properties *)

\* While the connection lives and nobody stops the test, the loss that is
\* reported is loss: no more packets are missing than the network has lost
\* in one of the two directions or still carries (speedtest.js:1098-1131).
LossIsReal ==
  phase = "stats" /\ path /\ session = "open" /\ ~stopped =>
    N - Cardinality(counted) <=
      drops + Cardinality(wire) + Cardinality(back) + Cardinality(acks \ counted)

\* A live connection that has lost, or still carries, at most a tenth of the
\* packets is never taken for a broken one (speedtest.js:1141-1186).
SmallLossIsLoss ==
  [][phase = "late" /\ phase' # "late" /\ path /\ session = "open" /\ ~stopped
       /\ 10 * (drops + Cardinality(wire) + Cardinality(back)) <= N
       => verdict' = "loss"]_vars

\* The two ends agree: what the client counts the server has counted before,
\* and that is at most what the client has sent; an ack that is lost makes
\* the server's count the larger one (manager.go:265-270, speedtest.js:1131).
ServerSawThem ==
  /\ Cardinality(acks) + Cardinality(back) <= totalRecv
  /\ totalRecv + Cardinality(wire) <= seq

\* The loss pattern never blames a packet whose ack was counted, although it
\* is computed from a later state of acks than the loss rate is
\* (speedtest.js:1219-1222); the two may differ only by late acks.
PatternWithinLoss ==
  phase \in {"report", "done"} /\ verdict = "loss" =>
    /\ lost \cap counted = {}
    /\ Packet \ (lost \cup counted) \subseteq acks

\* A test that got as far as counting leaves no peer connection behind.
CountingCloses ==
  phase = "done" /\ verdict # "failed" => pc = "closed"

\* The test returns, whatever the network, the server and the user do: the
\* engine's last phase waits for it (speedtest.js:986, 1036, 1126).
TestReturns == <>(phase = "done")

\* speedtest.js:1142: "Check if responses suddenly stopped (connection
\* died) vs random loss throughout".
OutageIsNotLoss ==
  phase = "stats" /\ ~path /\ drops = 0 /\ ~stopped /\ LossAbove(counted, 10)
    => verdict # "loss"

\* netspeed-ui-spec.md:546-552: the loss is computed "after all packets are
\* sent", as the share of the sent packets.
AllSentBeforeCounting == phase \in {"stats", "report"} => seq = N
=============================================================================
