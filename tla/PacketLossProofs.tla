-------------------------- MODULE PacketLossProofs --------------------------
(***************************************************************************)
(* The packet loss test for any number of packets: what the two ends       *)
(* count, and that the reported loss is loss.                              *)
(*                                                                         *)
(* A packet is in at most one place (FlightInv); while the connection      *)
(* lives it is somewhere or it has been dropped (Conserved), so the number *)
(* of missing acks is bounded by the drops and by what is still moving.    *)
(***************************************************************************)
EXTENDS PacketLoss, FiniteSetTheorems, TLAPS

FlightInv ==
  /\ wire \cup back \cup acks \subseteq 0 .. seq - 1
  /\ wire \cap back = {} /\ wire \cap acks = {} /\ back \cap acks = {}

PhaseInv ==
  /\ phase \in Setup => seq = 0
  /\ phase \in {"credentials", "gathering", "offer"} => session = "none"
  /\ phase \in {"gathering", "offer"} => pc = "open"
  /\ phase \in {"connecting", "sending", "late", "stats"} /\ session = "open" => pc = "open"
  /\ phase \in {"late", "stats"} /\ ~stopped => seq = N
  /\ phase = "report" => pc = "closed"

Alive == path /\ session = "open" /\ pc = "open"

Conserved ==
  Alive => seq <= drops + Cardinality(wire) + Cardinality(back) + Cardinality(acks)

IInv == /\ TypeOK /\ FlightInv /\ PhaseInv /\ Conserved
        /\ ServerSawThem /\ PatternWithinLoss /\ CountingCloses

-----------------------------------------------------------------------------
(* Sizes of finite sets *)

\* Every set of packets is finite.
LEMMA PacketSets ==
  ASSUME NEW S \in SUBSET Packet
  PROVE  IsFiniteSet(S) /\ Cardinality(S) \in Nat
<1>1. IsFiniteSet(Packet)
  BY LossAssumption, FS_Interval DEF Packet
<1>2. IsFiniteSet(S)
  BY <1>1, FS_Subset
<1> QED
  BY <1>2, FS_CardinalityType

\* A packet that moves from one set to another leaves the sum unchanged.
LEMMA Moves ==
  ASSUME NEW S \in SUBSET Packet, NEW T \in SUBSET Packet, NEW p \in S, p \notin T
  PROVE  /\ Cardinality(S \ {p}) = Cardinality(S) - 1
         /\ Cardinality(T \cup {p}) = Cardinality(T) + 1
BY PacketSets, FS_AddElement, FS_RemoveElement

\* What has been counted and what has come later make up the acks.
LEMMA CountedAndLater ==
  ASSUME NEW S \in SUBSET Packet, NEW T \in SUBSET S
  PROVE  Cardinality(S) = Cardinality(T) + Cardinality(S \ T)
<1>1. T \in SUBSET Packet /\ S \ T \in SUBSET Packet /\ (S \ T) \cap T = {} /\ T \cup (S \ T) = S
  OBVIOUS
<1>2. Cardinality(T \cap (S \ T)) = 0
  BY <1>1, FS_EmptySet
<1> QED
  BY <1>1, <1>2, PacketSets, FS_Union

-----------------------------------------------------------------------------
(* The invariant *)

LEMMA Inits == Init => IInv
<1> SUFFICES ASSUME Init PROVE IInv
  OBVIOUS
<1>1. Cardinality({}) = 0
  BY FS_EmptySet
<1> QED
  <2>1. TypeOK
    <3>1. 0 \in 0 .. N /\ 0 \in 0 .. MaxDrops
      BY LossAssumption
    <3>2. {} \subseteq Packet /\ {} \subseteq {}
      OBVIOUS
    <3> QED
      BY <3>1, <3>2, Zenon DEF Init, TypeOK, Phase, Setup
  <2>2. FlightInv /\ PhaseInv /\ PatternWithinLoss /\ CountingCloses
    BY DEF Init, FlightInv, PhaseInv, PatternWithinLoss, CountingCloses, Setup
  <2>3. Conserved /\ ServerSawThem
    BY <1>1 DEF Init, Conserved, Alive, ServerSawThem
  <2> QED
    BY <2>1, <2>2, <2>3 DEF IInv

\* The steps that leave the network and the counts alone.
LEMMA SetupStep == IInv /\ (Credentials \/ Gathers \/ Offers \/ Connects) => IInv'
<1> SUFFICES ASSUME IInv, Credentials \/ Gathers \/ Offers \/ Connects PROVE IInv'
  OBVIOUS
<1> USE DEF IInv
<1>1. phase \in Setup /\ seq = 0
  BY DEF Credentials, Gathers, Offers, Connects, Setup, PhaseInv
<1>2. UNCHANGED <<seq, acks, stopped, counted, lost, totalRecv, wire, back, path, drops>>
  <2>1. Fails \/ \E next \in Phase : Proceeds(next)
    BY DEF Credentials, Gathers, Offers, Connects, Phase, Setup
  <2> QED
    BY <2>1 DEF Fails, Proceeds, resultVars, netVars
<1>3. \/ phase' \in {"gathering", "offer", "connecting", "sending"} /\ verdict' = verdict
      \/ phase' = "done" /\ verdict' = "failed"
  <2>1. Fails \/ \E next \in {"gathering", "offer", "connecting", "sending"} : Proceeds(next)
    BY DEF Credentials, Gathers, Offers, Connects
  <2>2. ASSUME NEW next \in {"gathering", "offer", "connecting", "sending"}, Proceeds(next)
        PROVE  phase' = next /\ verdict' = verdict
    BY <2>2 DEF Proceeds, resultVars
  <2>3. Fails => phase' = "done" /\ verdict' = "failed"
    BY DEF Fails
  <2> QED
    BY <2>1, <2>2, <2>3
<1>4. TypeOK'
  BY <1>2, <1>3 DEF TypeOK, Phase, Setup, Credentials, Gathers, Offers, Connects
<1>5. FlightInv'
  BY <1>2 DEF FlightInv
<1>6. PhaseInv'
  BY <1>1, <1>2, <1>3 DEF PhaseInv, Setup, Credentials, Gathers, Offers, Connects, Fails, Proceeds
<1>7. Conserved'
  <2>1. Cardinality(wire) \in Nat /\ Cardinality(back) \in Nat /\ Cardinality(acks) \in Nat /\ drops \in Nat
    BY PacketSets, LossAssumption DEF TypeOK
  <2> QED
    BY <1>1, <1>2, <2>1 DEF Conserved
<1>8. ServerSawThem'
  BY <1>2 DEF ServerSawThem
<1>9. PatternWithinLoss' /\ CountingCloses'
  BY <1>3 DEF PatternWithinLoss, CountingCloses
<1> QED
  BY <1>4, <1>5, <1>6, <1>7, <1>8, <1>9

\* A packet leaves, or throws on a closed channel: a live connection has an
\* open channel, so the packet is on the wire.
LEMMA SendStep == IInv /\ Send => IInv'
<1> SUFFICES ASSUME IInv, Send PROVE IInv'
  OBVIOUS
<1> USE DEF IInv
<1>1. phase = "sending" /\ seq < N /\ seq' = seq + 1 /\ wire' \in {wire, wire \cup {seq}}
  BY DEF Send
<1>2. UNCHANGED <<phase, pc, acks, stopped, counted, verdict, lost, session, totalRecv, back, path, drops>>
  BY DEF Send, resultVars, serverVars
<1>3. seq \in Packet /\ seq \notin wire \cup back \cup acks
  BY <1>1, LossAssumption DEF TypeOK, FlightInv, Packet
<1>4. wire \in SUBSET Packet /\ back \in SUBSET Packet /\ acks \in SUBSET Packet
  BY DEF TypeOK
<1>5. Cardinality(wire) \in Nat /\ Cardinality(back) \in Nat /\ Cardinality(acks) \in Nat
  BY <1>4, PacketSets
<1>6. Cardinality(wire \cup {seq}) = Cardinality(wire) + 1
  BY <1>3, <1>4, PacketSets, FS_AddElement
<1>7. TypeOK'
  BY <1>1, <1>2, <1>3, LossAssumption DEF TypeOK
<1>8. FlightInv'
  BY <1>1, <1>2, <1>3 DEF FlightInv, TypeOK
<1>9. PhaseInv'
  BY <1>1, <1>2 DEF PhaseInv, Setup
<1>10. Conserved'
  <2>1. ASSUME Alive' PROVE Alive /\ wire' = wire \cup {seq}
    BY <2>1, <1>2 DEF Alive, Send
  <2>2. seq \in Int /\ drops \in Int
    BY LossAssumption DEF TypeOK
  <2>3. SUFFICES ASSUME Alive'
                 PROVE  seq + 1 <= drops + (Cardinality(wire) + 1) + Cardinality(back) + Cardinality(acks)
    BY <1>1, <1>2, <1>6, <2>1 DEF Conserved
  <2> QED
    BY <1>5, <2>1, <2>2, <2>3 DEF Conserved
<1>11. ServerSawThem'
  BY <1>1, <1>2, <1>5, <1>6, LossAssumption DEF ServerSawThem, TypeOK
<1>12. PatternWithinLoss' /\ CountingCloses'
  BY <1>1, <1>2 DEF PatternWithinLoss, CountingCloses
<1> QED
  BY <1>7, <1>8, <1>9, <1>10, <1>11, <1>12

\* A packet becomes an ack.
LEMMA MessageStep == IInv /\ (\E p \in Packet : OnMessage(p)) => IInv'
<1> SUFFICES ASSUME IInv, NEW p \in Packet, OnMessage(p) PROVE IInv'
  OBVIOUS
<1> USE DEF IInv
<1>1. p \in wire /\ wire' = wire \ {p} /\ back' = back \cup {p} /\ totalRecv' = totalRecv + 1
  BY DEF OnMessage
<1>2. UNCHANGED <<phase, pc, seq, acks, stopped, counted, verdict, lost, session, path, drops>>
  BY DEF OnMessage, clientVars, resultVars
<1>3. wire \in SUBSET Packet /\ back \in SUBSET Packet /\ acks \in SUBSET Packet /\ p \notin back
  BY <1>1 DEF TypeOK, FlightInv
<1>4. Cardinality(wire) \in Nat /\ Cardinality(back) \in Nat /\ Cardinality(acks) \in Nat
      /\ Cardinality(wire') \in Nat
  BY <1>1, <1>3, PacketSets
<1>5. Cardinality(wire') = Cardinality(wire) - 1 /\ Cardinality(back') = Cardinality(back) + 1
  BY <1>1, <1>3, Moves
<1>6. ServerSawThem'
  BY <1>1, <1>2, <1>4, <1>5 DEF ServerSawThem, TypeOK
<1>7. TypeOK'
  <2>1. totalRecv' \in 0 .. N
    BY <1>1, <1>2, <1>4, <1>6, LossAssumption DEF ServerSawThem, TypeOK
  <2> QED
    BY <1>1, <1>2, <2>1 DEF TypeOK
<1>8. FlightInv'
  BY <1>1, <1>2 DEF FlightInv
<1>9. PhaseInv' /\ PatternWithinLoss' /\ CountingCloses'
  BY <1>2 DEF PhaseInv, PatternWithinLoss, CountingCloses
<1>10. Conserved'
  BY <1>2, <1>4, <1>5, LossAssumption DEF Conserved, Alive, TypeOK
<1> QED
  BY <1>6, <1>7, <1>8, <1>9, <1>10

\* An ack arrives; after the analysis the channel is closed and none does.
LEMMA AckStep == IInv /\ (\E p \in Packet : OnAck(p)) => IInv'
<1> SUFFICES ASSUME IInv, NEW p \in Packet, OnAck(p) PROVE IInv'
  OBVIOUS
<1> USE DEF IInv
<1>1. p \in back /\ pc = "open" /\ back' = back \ {p} /\ acks' = acks \cup {p}
  BY DEF OnAck
<1>2. UNCHANGED <<phase, pc, seq, stopped, counted, verdict, lost, session, totalRecv, wire, path, drops>>
  BY DEF OnAck, serverVars, resultVars
<1>3. wire \in SUBSET Packet /\ back \in SUBSET Packet /\ acks \in SUBSET Packet /\ p \notin acks
  BY <1>1 DEF TypeOK, FlightInv
<1>4. Cardinality(wire) \in Nat /\ Cardinality(back) \in Nat /\ Cardinality(acks) \in Nat
  BY <1>3, PacketSets
<1>5. Cardinality(back') = Cardinality(back) - 1 /\ Cardinality(acks') = Cardinality(acks) + 1
  BY <1>1, <1>3, Moves
<1>6. ServerSawThem'
  BY <1>2, <1>4, <1>5 DEF ServerSawThem, TypeOK
<1>7. TypeOK'
  BY <1>1, <1>2 DEF TypeOK
<1>8. FlightInv'
  BY <1>1, <1>2 DEF FlightInv
<1>9. PhaseInv' /\ CountingCloses'
  BY <1>2 DEF PhaseInv, CountingCloses
<1>10. PatternWithinLoss'
  BY <1>1, <1>2 DEF PatternWithinLoss, CountingCloses, PhaseInv
<1>11. Conserved'
  BY <1>2, <1>4, <1>5, LossAssumption DEF Conserved, Alive, TypeOK
<1> QED
  BY <1>6, <1>7, <1>8, <1>9, <1>10, <1>11

\* The client counts, analyses and reports; the sets in flight stay.
LEMMA CountStep == IInv /\ (SendingEnds \/ Counts \/ Analyzes \/ Reports) => IInv'
<1> SUFFICES ASSUME IInv, SendingEnds \/ Counts \/ Analyzes \/ Reports PROVE IInv'
  OBVIOUS
<1> USE DEF IInv
<1>1. UNCHANGED <<seq, acks, stopped, totalRecv, wire, back, path, drops>>
  BY DEF SendingEnds, Counts, Analyzes, Reports, serverVars, netVars
<1>2. pc' \in {pc, "closed"} /\ session' \in {session, "closed"}
  BY DEF SendingEnds, Counts, Analyzes, Reports, serverVars
<1>3. Verdict(acks) \in {"loss"} \cup Broken /\ "failed" \notin Broken /\ "loss" \notin Broken
  BY DEF Verdict, Broken
<1>4. FlightInv' /\ ServerSawThem'
  BY <1>1 DEF FlightInv, ServerSawThem
<1>5. Conserved'
  BY <1>1, <1>2 DEF Conserved, Alive
<1>6. CASE SendingEnds
  <2>1. /\ phase = "sending" /\ phase' = "late" /\ (seq >= N \/ stopped)
        /\ UNCHANGED <<pc, counted, verdict, lost, session>>
    BY <1>6 DEF SendingEnds, resultVars, serverVars
  <2>2. TypeOK' /\ PatternWithinLoss' /\ CountingCloses'
    BY <1>1, <2>1 DEF TypeOK, Phase, PatternWithinLoss, CountingCloses
  <2>3. PhaseInv'
    BY <1>1, <2>1, LossAssumption DEF PhaseInv, Setup, TypeOK
  <2> QED
    BY <1>4, <1>5, <2>2, <2>3
<1>7. CASE Counts
  <2>1. /\ phase = "late" /\ counted' = acks /\ verdict' = Verdict(acks) /\ UNCHANGED <<lost, session>>
        /\ \/ Verdict(acks) \in Broken /\ phase' = "done" /\ pc' = "closed"
           \/ Verdict(acks) \notin Broken /\ phase' = "stats" /\ pc' = pc
    BY <1>7 DEF Counts, serverVars
  <2>2. TypeOK'
    BY <1>1, <1>3, <2>1 DEF TypeOK, Phase
  <2>3. PatternWithinLoss' /\ CountingCloses'
    BY <1>3, <2>1 DEF PatternWithinLoss, CountingCloses
  <2>4. PhaseInv'
    BY <1>1, <2>1 DEF PhaseInv, Setup
  <2> QED
    BY <1>4, <1>5, <2>2, <2>3, <2>4
<1>8. CASE Analyzes
  <2>1. /\ phase = "stats" /\ phase' = "report" /\ lost' = Packet \ acks /\ pc' = "closed"
        /\ UNCHANGED <<counted, verdict, session>>
    BY <1>8 DEF Analyzes, serverVars
  <2>2. TypeOK' /\ CountingCloses' /\ PhaseInv'
    BY <1>1, <2>1 DEF TypeOK, Phase, CountingCloses, PhaseInv, Setup
  <2>3. PatternWithinLoss'
    BY <1>1, <2>1 DEF PatternWithinLoss, TypeOK
  <2> QED
    BY <1>4, <1>5, <2>2, <2>3
<1>9. CASE Reports
  <2>1. phase = "report" /\ phase' = "done" /\ UNCHANGED <<pc, counted, verdict, lost>>
    BY <1>9 DEF Reports, resultVars
  <2> QED
    BY <1>1, <1>2, <1>4, <1>5, <2>1 DEF TypeOK, Phase, CountingCloses, PhaseInv, Setup, PatternWithinLoss
<1> QED
  BY <1>6, <1>7, <1>8, <1>9

\* The user, the manager and the network.
LEMMA EnvironmentStep ==
  IInv /\ (Stop \/ SessionCloses \/ ChannelCloses \/ Drop \/ Vanish \/ PathDies) => IInv'
<1> SUFFICES ASSUME IInv, Stop \/ SessionCloses \/ ChannelCloses \/ Drop \/ Vanish \/ PathDies
             PROVE IInv'
  OBVIOUS
<1> USE DEF IInv
<1>1. UNCHANGED <<phase, seq, acks, counted, verdict, lost, totalRecv>>
  BY DEF Stop, SessionCloses, ChannelCloses, Drop, Vanish, PathDies, clientVars, resultVars, serverVars
<1>2. wire \in SUBSET Packet /\ back \in SUBSET Packet /\ acks \in SUBSET Packet
  BY DEF TypeOK
<1>3. wire' \in SUBSET wire /\ back' \in SUBSET back
  BY DEF Stop, SessionCloses, ChannelCloses, Drop, Vanish, PathDies, netVars
<1>4. /\ Cardinality(wire) \in Nat /\ Cardinality(back) \in Nat /\ Cardinality(acks) \in Nat
      /\ Cardinality(wire') \in Nat /\ Cardinality(back') \in Nat
      /\ Cardinality(wire') <= Cardinality(wire) /\ Cardinality(back') <= Cardinality(back)
  BY <1>2, <1>3, PacketSets, FS_Subset
<1>5. FlightInv'
  BY <1>1, <1>3 DEF FlightInv
<1>6. ServerSawThem'
  BY <1>1, <1>4 DEF ServerSawThem, TypeOK
<1>7. CASE Stop \/ SessionCloses \/ ChannelCloses
  <2>1. UNCHANGED <<wire, back, path, drops>>
    BY <1>7 DEF Stop, SessionCloses, ChannelCloses, netVars
  <2>2. /\ stopped => stopped'
        /\ stopped' \in BOOLEAN
        /\ \/ UNCHANGED <<pc, session>>
           \/ pc' = pc /\ session = "open" /\ session' = "closed"
           \/ pc = "open" /\ pc' = "channelClosed" /\ session = "closed" /\ session' = session
    BY <1>7, Zenon DEF Stop, SessionCloses, ChannelCloses, clientVars, serverVars, TypeOK
  <2>3. TypeOK'
    BY <1>1, <2>1, <2>2 DEF TypeOK
  <2>4. PhaseInv'
    <3>1. UNCHANGED <<pc, session>> => PhaseInv'
      BY <1>1, <2>2 DEF PhaseInv, TypeOK
    <3>2. pc' = pc /\ session = "open" /\ session' = "closed" => PhaseInv'
      BY <1>1, <2>2 DEF PhaseInv, TypeOK
    <3>3. pc = "open" /\ pc' = "channelClosed" /\ session = "closed" /\ session' = session => PhaseInv'
      BY <1>1, <2>2 DEF PhaseInv, TypeOK
    <3> QED
      BY <2>2, <3>1, <3>2, <3>3
  <2>5. Conserved'
    BY <1>1, <2>1, <2>2 DEF Conserved, Alive
  <2>6. PatternWithinLoss' /\ CountingCloses'
    BY <1>1, <2>2 DEF PatternWithinLoss, CountingCloses
  <2> QED
    BY <1>5, <1>6, <2>3, <2>4, <2>5, <2>6
<1>8. CASE Drop
  <2>1. UNCHANGED <<pc, stopped, session, path>> /\ drops < MaxDrops /\ drops' = drops + 1
    BY <1>8 DEF Drop, clientVars, serverVars
  <2>2. PICK p \in Packet : \/ p \in wire /\ wire' = wire \ {p} /\ back' = back
                            \/ p \in back /\ back' = back \ {p} /\ wire' = wire
    BY <1>8 DEF Drop
  <2>3. Cardinality(wire') + Cardinality(back') = Cardinality(wire) + Cardinality(back) - 1
    BY <1>2, <1>4, <2>2, PacketSets, FS_RemoveElement
  <2>4. Conserved'
    BY <1>1, <1>4, <2>1, <2>3, LossAssumption DEF Conserved, Alive, TypeOK
  <2>5. TypeOK'
    BY <1>1, <1>3, <2>1, LossAssumption DEF TypeOK
  <2> QED
    BY <1>1, <1>5, <1>6, <2>1, <2>4, <2>5 DEF PhaseInv, PatternWithinLoss, CountingCloses
<1>9. CASE Vanish \/ PathDies
  <2>1. UNCHANGED <<pc, stopped, session, drops>> /\ path' \in {path, FALSE}
    BY <1>9 DEF Vanish, PathDies, clientVars, serverVars
  <2>2. ~Alive'
    BY <1>9, <2>1 DEF Vanish, PathDies, Alive, clientVars, serverVars
  <2>3. TypeOK'
    BY <1>1, <1>3, <2>1 DEF TypeOK
  <2> QED
    BY <1>1, <1>5, <1>6, <2>1, <2>2, <2>3 DEF PhaseInv, PatternWithinLoss, CountingCloses, Conserved
<1> QED
  BY <1>7, <1>8, <1>9

LEMMA Stutters == IInv /\ UNCHANGED vars => IInv'
BY DEF vars, clientVars, resultVars, serverVars, netVars, IInv, TypeOK, FlightInv, PhaseInv,
  Conserved, Alive, ServerSawThem, PatternWithinLoss, CountingCloses

THEOREM Invariance == Spec => []IInv
<1>1. Init => IInv
  BY Inits
<1>2. IInv /\ [Next]_vars => IInv'
  BY SetupStep, SendStep, MessageStep, AckStep, CountStep, EnvironmentStep, Stutters
    DEF Next, Client
<1> QED
  BY <1>1, <1>2, PTL DEF Spec

-----------------------------------------------------------------------------
(* What follows *)

\* Every reachable state is well typed.
THEOREM TypeCorrect == Spec => []TypeOK
<1>1. IInv => TypeOK
  BY DEF IInv
<1> QED
  BY <1>1, Invariance, PTL

\* The reported loss is loss: with a live connection and a test that was not
\* stopped, no more acks are missing than were lost or are still to come.
THEOREM LossReal == Spec => []LossIsReal
<1>1. IInv => LossIsReal
  <2> SUFFICES ASSUME IInv, phase = "stats", path, session = "open", ~stopped
               PROVE N - Cardinality(counted) <=
                 drops + Cardinality(wire) + Cardinality(back) + Cardinality(acks \ counted)
    BY DEF LossIsReal
  <2>1. seq = N /\ Alive
    BY DEF IInv, PhaseInv, Alive
  <2>2. Cardinality(acks) = Cardinality(counted) + Cardinality(acks \ counted)
    BY CountedAndLater DEF IInv, TypeOK
  <2>3. /\ Cardinality(wire) \in Nat /\ Cardinality(back) \in Nat
        /\ Cardinality(counted) \in Nat /\ Cardinality(acks \ counted) \in Nat
    <3>1. counted \in SUBSET Packet /\ acks \ counted \in SUBSET Packet
          /\ wire \in SUBSET Packet /\ back \in SUBSET Packet
      BY DEF IInv, TypeOK
    <3> QED
      BY <3>1, PacketSets
  <2> QED
    BY <2>1, <2>2, <2>3, LossAssumption DEF IInv, Conserved, TypeOK
<1> QED
  BY <1>1, Invariance, PTL

\* Client and server agree on what has got through.
THEOREM EndsAgree == Spec => []ServerSawThem
<1>1. IInv => ServerSawThem
  BY DEF IInv
<1> QED
  BY <1>1, Invariance, PTL

\* The loss pattern and the loss rate differ by late acks only.
THEOREM PatternSound == Spec => []PatternWithinLoss
<1>1. IInv => PatternWithinLoss
  BY DEF IInv
<1> QED
  BY <1>1, Invariance, PTL

\* Every way out of the counting closes the peer connection.
THEOREM CleanedUp == Spec => []CountingCloses
<1>1. IInv => CountingCloses
  BY DEF IInv
<1> QED
  BY <1>1, Invariance, PTL

\* Only the verdict ends the wait for late acks.
LEMMA LateEnds ==
  ASSUME [Next]_vars, phase = "late", phase' # "late"
  PROVE  Counts
BY DEF Next, Client, Credentials, Gathers, Offers, Connects, Send, SendingEnds, Analyzes, Reports,
   OnMessage, OnAck, Stop, SessionCloses, ChannelCloses, Drop, Vanish, PathDies, clientVars, vars

\* A live connection that has lost, or still carries, at most a tenth of the
\* packets is never taken for a broken one, at any number of packets: the
\* thresholds on early and late packets are not even looked at.
THEOREM SmallLoss == Spec => SmallLossIsLoss
<1>1. ASSUME IInv, [Next]_vars, phase = "late", phase' # "late", path, session = "open", ~stopped,
             10 * (drops + Cardinality(wire) + Cardinality(back)) <= N
      PROVE  verdict' = "loss"
  <2>1. seq = N /\ Alive
    BY <1>1 DEF IInv, PhaseInv, Alive
  <2>2. /\ Cardinality(wire) \in Nat /\ Cardinality(back) \in Nat /\ Cardinality(acks) \in Nat
        /\ drops \in Nat /\ N \in Nat /\ N > 0
    <3>1. wire \in SUBSET Packet /\ back \in SUBSET Packet /\ acks \in SUBSET Packet
      BY <1>1 DEF IInv, TypeOK
    <3>2. drops \in Nat /\ N \in Nat /\ N > 0
      BY <1>1, LossAssumption DEF IInv, TypeOK
    <3> QED
      BY <3>1, <3>2, PacketSets
  <2>3. N <= drops + Cardinality(wire) + Cardinality(back) + Cardinality(acks)
    BY <1>1, <2>1 DEF IInv, Conserved
  <2>4. 10 * (N - Cardinality(acks)) <= N
    BY <1>1, <2>2, <2>3
  <2>5. acks # {}
    <3>1. Cardinality(acks) > 0
      BY <2>2, <2>4
    <3> QED
      BY <3>1, FS_EmptySet
  <2>6. ~LossAbove(acks, 10)
    BY <2>2, <2>4 DEF LossAbove, Received
  <2>7. Verdict(acks) = "loss"
    BY <2>5, <2>6 DEF Verdict
  <2> QED
    BY <1>1, <2>7, LateEnds DEF Counts
<1> QED
  BY <1>1, Invariance, PTL DEF Spec, SmallLossIsLoss
=============================================================================
