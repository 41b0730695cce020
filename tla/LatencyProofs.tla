----------------------------- MODULE LatencyProofs -----------------------------
(***************************************************************************)
(* The latency phases, for transfers of any length and any number of tests *)
(* the user starts.                                                        *)
(***************************************************************************)
EXTENDS LatencyProbes, FiniteSetTheorems, TLAPS

\* The probes of a loaded phase are launched in order.
InOrder == \E n \in 0 .. 5 : Launched = 0 .. n - 1

\* While probes are to come, every tick of the transfer has launched one.
RoomInv ==
  /\ load = "running" => left >= 1 /\ (Launched = Loaded \/ left = lasts - Cardinality(Launched))
  /\ load = "over" => Launched = Loaded \/ Cardinality(Launched) >= lasts

\* Only probes that were launched are under load.
UnderLaunched == under \subseteq Launched

\* A test leaves something behind only when it fails.
StrayInv == \A s \in stray : s[1] < test \/ (s[1] = test /\ phase = "failed")

PhaseInv ==
  /\ phase = "initial" => index <= Initial
  /\ phase = "loaded" => load # "none"

LInv ==
  /\ TypeOK /\ PhaseInv /\ InOrder /\ RoomInv /\ StrayInv
  /\ AllProbesMade /\ LoadedUnderLoad /\ EndedTestIsQuiet /\ UnderLaunched

-----------------------------------------------------------------------------
(* The model's operators *)

LEMMA MinOfTwo ==
  ASSUME NEW a \in Int, NEW b \in Int
  PROVE  Min({a, b}) = IF a <= b THEN a ELSE b
<1> DEFINE m == IF a <= b THEN a ELSE b
<1>1. m \in {a, b} /\ \A y \in {a, b} : m <= y
  OBVIOUS
<1>2. \A x \in {a, b} : (\A y \in {a, b} : x <= y) => x = m
  OBVIOUS
<1> QED
  BY <1>1, <1>2 DEF Min

LEMMA MaxOfTwo ==
  ASSUME NEW a \in Int, NEW b \in Int
  PROVE  Max({a, b}) = IF a >= b THEN a ELSE b
<1> DEFINE m == IF a >= b THEN a ELSE b
<1>1. m \in {a, b} /\ \A y \in {a, b} : m >= y
  OBVIOUS
<1>2. \A x \in {a, b} : (\A y \in {a, b} : x >= y) => x = m
  OBVIOUS
<1> QED
  BY <1>1, <1>2 DEF Max

LEMMA SegmentSize ==
  ASSUME NEW n \in 0 .. 5
  PROVE  IsFiniteSet(0 .. n - 1) /\ Cardinality(0 .. n - 1) = n
<1>1. n - 1 \in Int /\ 0 \in Int
  OBVIOUS
<1>2. IsFiniteSet(0 .. n - 1) /\ Cardinality(0 .. n - 1) = IF 0 > n - 1 THEN 0 ELSE (n - 1) - 0 + 1
  BY <1>1, FS_Interval
<1> QED
  BY <1>2

LEMMA LoadedSize == Loaded = 0 .. 5 - 1 /\ IsFiniteSet(Loaded) /\ Cardinality(Loaded) = 5
<1>1. Loaded = 0 .. 5 - 1
  BY DEF Loaded
<1> QED
  BY <1>1, SegmentSize

\* How many probes are launched tells which ones.
LEMMA LaunchedSize ==
  ASSUME InOrder
  PROVE  /\ Cardinality(Launched) \in 0 .. 5
         /\ Launched = 0 .. Cardinality(Launched) - 1
         /\ Launched = Loaded <=> Cardinality(Launched) = 5
<1>1. PICK n \in 0 .. 5 : Launched = 0 .. n - 1
  BY DEF InOrder
<1>2. Cardinality(Launched) = n
  BY <1>1, SegmentSize
<1>3. Launched = Loaded <=> n = 5
  BY <1>1, <1>2, LoadedSize
<1> QED
  BY <1>1, <1>2, <1>3

LEMMA Ranges == Durations \subseteq Nat /\ (TypeOK => lasts \in Nat /\ left \in Nat /\ left <= lasts)
<1>1. Durations \subseteq Nat
  BY LatencyAssumption
<1>2. ASSUME TypeOK PROVE lasts \in Nat /\ left \in Nat /\ left <= lasts
  <2>1. lasts \in Durations \cup {0} /\ left \in 0 .. lasts
    BY <1>2 DEF TypeOK
  <2>2. lasts \in Nat
    BY <1>1, <2>1
  <2> QED
    BY <2>1, <2>2
<1> QED
  BY <1>1, <1>2

-----------------------------------------------------------------------------
(* The steps *)

LEMMA InitLInv == Init => LInv
<1> SUFFICES ASSUME Init PROVE LInv
  OBVIOUS
<1>1. stray = {} /\ aborted = {} /\ test = 1 /\ 1 \in Test
  BY LatencyAssumption DEF Init, Test
<1>2. TypeOK
  <2>1. kept \in BOOLEAN
    BY Zenon DEF Init
  <2> QED
    BY <1>1, <2>1, LatencyAssumption DEF Init, TypeOK, Loaded, Probes, ProbeState
<1>3. Launched = {}
  BY DEF Init, Launched
<1>4. InOrder
  <2>1. 0 \in 0 .. 5 /\ Launched = 0 .. 0 - 1
    BY <1>3
  <2> QED
    BY <2>1 DEF InOrder
<1>5. PhaseInv /\ RoomInv /\ StrayInv
  BY <1>1 DEF Init, PhaseInv, Initial, RoomInv, StrayInv
<1>6. AllProbesMade /\ LoadedUnderLoad /\ EndedTestIsQuiet
  BY <1>1 DEF Init, AllProbesMade, Unloaded, LoadedUnderLoad, EndedTestIsQuiet, Goes
<1> QED
  BY <1>2, <1>3, <1>4, <1>5, <1>6 DEF LInv, Init, UnderLaunched

LEMMA UnloadedKeeps ==
  ASSUME LInv, InitialProbe \/ Decides \/ ParallelBatch \/ SequentialProbe
  PROVE  LInv'
<1> USE DEF LInv, loadVars
<1>0. OneProbe => kept' \in BOOLEAN /\ index' = index + 1
  BY Zenon DEF TypeOK, OneProbe
<1>1. /\ UNCHANGED <<test, dir, load, lasts, left, probe, under, stray, aborted>>
      /\ phase \in Unloaded /\ phase' \in Unloaded
      /\ phase' = "initial" => index' <= Initial
      /\ index' \in 0 .. Probes /\ kept' \in BOOLEAN
  <2>1. CASE InitialProbe
    BY <1>0, <2>1 DEF InitialProbe, Unloaded, TypeOK, Initial, Probes
  <2>2. CASE Decides
    BY <2>2 DEF Decides, Unloaded, TypeOK, Initial, Probes
  <2>3. CASE ParallelBatch
    <3>1. index' = IF index + BatchSize <= Probes THEN index + BatchSize ELSE Probes
      BY <2>3, MinOfTwo DEF ParallelBatch, TypeOK, BatchSize, Probes
    <3> QED
      BY <2>3, <3>1 DEF ParallelBatch, Unloaded, TypeOK, BatchSize, Probes
  <2>4. CASE SequentialProbe
    BY <1>0, <2>4 DEF SequentialProbe, Unloaded, TypeOK, Probes
  <2> QED
    BY <2>1, <2>2, <2>3, <2>4
<1>2. TypeOK'
  BY <1>1 DEF TypeOK, Unloaded
<1>3. Launched' = Launched /\ Pending' = Pending /\ Goes' = Goes
  BY <1>1 DEF Launched, Pending, Goes
<1>4. PhaseInv' /\ InOrder' /\ RoomInv' /\ StrayInv'
  BY <1>1, <1>3 DEF PhaseInv, InOrder, RoomInv, StrayInv, Unloaded
<1>5. AllProbesMade' /\ LoadedUnderLoad' /\ EndedTestIsQuiet'
  BY <1>1, <1>3 DEF AllProbesMade, LoadedUnderLoad, EndedTestIsQuiet, Unloaded
<1> QED
  BY <1>1, <1>2, <1>3, <1>4, <1>5 DEF UnderLaunched

\* A loaded phase begins with all its probes to come and the whole transfer,
\* or with none that runs.
LEMMA StartsClean ==
  ASSUME TypeOK, Starts, UNCHANGED <<test, aborted>>
  PROVE  /\ Launched' = {} /\ InOrder' /\ RoomInv' /\ LoadedUnderLoad'
         /\ lasts' \in Durations \cup {0} /\ left' \in 0 .. lasts'
         /\ probe' \in [Loaded -> ProbeState] /\ under' = {}
         /\ load' \in {"running", "failed"} /\ (~Goes => load' = "failed")
         /\ \A k \in Loaded : probe'[k] # "flying"
<1>1. /\ lasts' \in Durations \cup {0} /\ left' = lasts' /\ load' \in {"running", "failed"}
      /\ ~Goes => load' = "failed"
      /\ load' = "running" => lasts' \in Durations
  BY DEF Starts
<1>2. lasts' \in Nat /\ (load' = "running" => lasts' >= 1)
  BY <1>1, LatencyAssumption
<1>3. Launched' = {} /\ probe' \in [Loaded -> ProbeState] /\ under' = {} /\ \A k \in Loaded : probe'[k] # "flying"
  BY DEF Starts, Launched, ProbeState
<1>4. InOrder'
  <2>1. 0 \in 0 .. 5 /\ Launched' = 0 .. 0 - 1
    BY <1>3
  <2> QED
    BY <2>1 DEF InOrder
<1>5. Cardinality(Launched') = 0
  BY <1>3, FS_EmptySet
<1>6. RoomInv' /\ LoadedUnderLoad'
  BY <1>1, <1>2, <1>3, <1>5 DEF RoomInv, LoadedUnderLoad
<1> QED
  BY <1>1, <1>2, <1>3, <1>4, <1>6

LEMMA UnloadedEndsKeeps ==
  ASSUME LInv, UnloadedEnds
  PROVE  LInv'
<1> USE DEF LInv, UnloadedEnds
<1>1. UNCHANGED <<test, dir, index, kept, stray, aborted>> /\ phase \in Unloaded /\ phase' = "loaded"
  BY DEF Starts, Unloaded
<1>2. Starts
  OBVIOUS
<1>3. TypeOK'
  BY <1>1, <1>2, StartsClean DEF TypeOK
<1>4. PhaseInv' /\ InOrder' /\ RoomInv' /\ StrayInv'
  BY <1>1, <1>2, StartsClean DEF PhaseInv, StrayInv, Unloaded
<1>5. AllProbesMade'
  BY <1>1 DEF AllProbesMade, Goes, Unloaded
<1>6. LoadedUnderLoad' /\ EndedTestIsQuiet'
  BY <1>1, <1>2, StartsClean DEF EndedTestIsQuiet, Unloaded, Goes
<1> QED
  BY <1>1, <1>2, <1>3, <1>4, <1>5, <1>6, StartsClean DEF UnderLaunched

\* The heart of LoadedUnderLoad: each tick takes one off the transfer and one
\* off the probes to come.
LEMMA TickKeeps ==
  ASSUME LInv, Tick
  PROVE  LInv'
<1> USE DEF LInv
<1> DEFINE n == Cardinality(Launched)
<1>1. UNCHANGED <<test, phase, dir, index, kept, lasts, stray, aborted>> /\ phase = "loaded" /\ Goes' = Goes
  BY DEF Tick, Goes
<1>2. /\ left \in Nat /\ lasts \in Nat /\ left <= lasts
      /\ left' = (IF left >= 1 THEN left - 1 ELSE 0) /\ left' \in 0 .. lasts
  <2>1. left \in Nat /\ lasts \in Nat /\ left <= lasts
    BY Ranges
  <2>2. left' = IF left - 1 >= 0 THEN left - 1 ELSE 0
    BY <2>1, MaxOfTwo DEF Tick
  <2> QED
    BY <2>1, <2>2
<1>3. load' = IF load = "running" /\ left <= 1 THEN "over" ELSE load
  BY DEF Tick
<1>4. n \in 0 .. 5 /\ Launched = 0 .. n - 1 /\ (Launched = Loaded <=> n = 5)
  BY LaunchedSize
<1>5. load = "running" => Goes
  BY DEF EndedTestIsQuiet
<1>6. CASE ~Launching
  <2>1. UNCHANGED <<probe, under>> /\ load = "running" /\ Launched = Loaded
    BY <1>5, <1>6 DEF Tick, Launching
  <2>2. Launched' = Launched /\ Pending' = Pending
    BY <2>1 DEF Launched, Pending
  <2>3. TypeOK' /\ PhaseInv' /\ InOrder' /\ StrayInv'
    BY <1>1, <1>2, <1>3, <2>1, <2>2 DEF TypeOK, PhaseInv, InOrder, StrayInv
  <2>4. RoomInv'
    BY <1>1, <1>2, <1>3, <2>1, <2>2 DEF RoomInv
  <2>5. AllProbesMade' /\ LoadedUnderLoad' /\ EndedTestIsQuiet'
    BY <1>1, <1>3, <1>5, <2>1, <2>2 DEF AllProbesMade, LoadedUnderLoad, EndedTestIsQuiet
  <2> QED
    BY <2>1, <2>2, <2>3, <2>4, <2>5 DEF UnderLaunched
<1>7. CASE Launching
  <2>1. n \in 0 .. 4 /\ Goes /\ n \in Loaded
    BY <1>4, <1>7 DEF Launching, Loaded
  <2>2. /\ probe' = [probe EXCEPT ![n] = "flying"]
        /\ under' = IF load' = "running" THEN under \cup {n} ELSE under
    BY <1>7 DEF Tick
  <2>3. Launched' = Launched \cup {n} /\ n \notin Launched
    <3>1. n \notin Launched
      BY <1>4, <2>1
    <3>2. \A k \in Loaded : probe'[k] = IF k = n THEN "flying" ELSE probe[k]
      BY <2>1, <2>2 DEF TypeOK
    <3> HIDE DEF n
    <3>3. Launched' = Launched \cup {n}
      BY <2>1, <3>2 DEF Launched
    <3> QED
      BY <3>1, <3>3
  <2>4. Launched' = 0 .. (n + 1) - 1 /\ n + 1 \in 0 .. 5
    BY <1>4, <2>1, <2>3
  <2>5. Cardinality(Launched') = n + 1
    BY <2>4, SegmentSize
  <2>6. TypeOK'
    BY <1>1, <1>2, <1>3, <2>1, <2>2 DEF TypeOK, ProbeState
  <2>7. PhaseInv' /\ InOrder' /\ StrayInv'
    BY <1>1, <1>3, <2>4 DEF PhaseInv, InOrder, StrayInv
  <2>8. load = "running" => left = lasts - n
    BY <1>4, <2>1 DEF RoomInv
  <2>9. load = "over" => n >= lasts
    BY <1>4, <2>1 DEF RoomInv
  <2>10. /\ load' = "running" => load = "running" /\ lasts > n + 1 /\ left' = lasts - (n + 1) /\ left' >= 1
         /\ load' = "over" => lasts <= n + 1
    BY <1>2, <1>3, <2>1, <2>8, <2>9
  <2>11. RoomInv'
    BY <1>1, <1>2, <2>1, <2>5, <2>10 DEF RoomInv
  <2>12. LoadedUnderLoad'
    <3> SUFFICES ASSUME load' \in {"running", "over"}, NEW k \in Launched'
                 PROVE  k \in under' <=> lasts > k + 1
      BY <1>1 DEF LoadedUnderLoad
    <3>1. load \in {"running", "over"} /\ under \subseteq under' /\ under' \subseteq under \cup {n}
      BY <1>3, <2>2
    <3>2. CASE k \in Launched
      BY <2>3, <3>1, <3>2 DEF LoadedUnderLoad
    <3>3. CASE k = n
      <4>1. n \in under' <=> load' = "running"
        <5>1. load' = "over" => n \notin under
          <6>1. UnderLaunched
            OBVIOUS
          <6> QED
            BY <2>3, <6>1 DEF UnderLaunched
        <5> QED
          BY <2>2, <5>1
      <4> QED
        BY <1>2, <2>1, <2>10, <3>3, <4>1
    <3> QED
      BY <2>3, <3>2, <3>3
  <2>13. AllProbesMade' /\ EndedTestIsQuiet'
    BY <1>1, <2>1 DEF AllProbesMade, EndedTestIsQuiet
  <2>14. UnderLaunched'
    BY <2>2, <2>3 DEF UnderLaunched
  <2> QED
    BY <2>6, <2>7, <2>11, <2>12, <2>13, <2>14
<1> QED
  BY <1>6, <1>7

LEMMA AnswersKeep ==
  ASSUME LInv, TransferFails \/ ProbeReceives \/ ProbeAnswers \/ ProbeFails
  PROVE  LInv'
<1> USE DEF LInv
<1>1. /\ UNCHANGED <<test, phase, dir, index, kept, lasts, under, stray, aborted>> /\ phase = "loaded"
      /\ (load' = load /\ left' = left) \/ (load' = "failed" /\ left' = 0 /\ probe' = probe)
      /\ Goes' = Goes
  BY DEF TransferFails, ProbeReceives, ProbeAnswers, ProbeFails, Becomes, Goes
<1>2. /\ probe' \in [Loaded -> ProbeState]
      /\ \A k \in Loaded : probe'[k] = probe[k]
           \/ (probe[k] \in {"flying", "timing"} /\ probe'[k] \in {"timing", "answered", "failed"})
  BY DEF TransferFails, ProbeReceives, ProbeAnswers, ProbeFails, Becomes, TypeOK, ProbeState
<1>3. Launched' = Launched
  BY <1>2 DEF Launched
<1>4. TypeOK'
  <2>1. left' \in 0 .. lasts
    BY <1>1, Ranges DEF TypeOK
  <2> QED
    BY <1>1, <1>2, <2>1 DEF TypeOK
<1>5. PhaseInv' /\ InOrder' /\ RoomInv' /\ StrayInv'
  BY <1>1, <1>2, <1>3 DEF PhaseInv, InOrder, RoomInv, StrayInv
<1>6. AllProbesMade' /\ LoadedUnderLoad' /\ EndedTestIsQuiet'
  BY <1>1, <1>2, <1>3 DEF AllProbesMade, LoadedUnderLoad, EndedTestIsQuiet
<1> QED
  BY <1>1, <1>3, <1>4, <1>5, <1>6 DEF UnderLaunched

LEMMA PhaseReturnsKeeps ==
  ASSUME LInv, PhaseReturns
  PROVE  LInv'
<1> USE DEF LInv, PhaseReturns
<1>1. UNCHANGED <<test, index, kept, stray, aborted>> /\ phase = "loaded" /\ Goes' = Goes
  BY DEF Goes
<1>2. CASE dir = "download"
  <2>1. Starts /\ dir' = "upload" /\ phase' = "loaded"
    BY <1>2 DEF Starts
  <2>2. TypeOK'
    BY <1>1, <2>1, StartsClean DEF TypeOK
  <2>3. PhaseInv' /\ InOrder' /\ RoomInv' /\ StrayInv'
    BY <1>1, <2>1, StartsClean DEF PhaseInv, StrayInv
  <2>4. AllProbesMade' /\ LoadedUnderLoad' /\ EndedTestIsQuiet'
    BY <1>1, <2>1, StartsClean DEF AllProbesMade, EndedTestIsQuiet, Unloaded
  <2> QED
    BY <2>1, <2>2, <2>3, <2>4, StartsClean DEF UnderLaunched
<1>3. CASE dir # "download"
  <2>1. /\ phase' = "returned" /\ UNCHANGED <<load, lasts, left, probe, under, dir>>
        /\ Launched' = Launched /\ Pending' = Pending
    BY <1>3 DEF loadVars, Launched, Pending
  <2>2. load = "over" /\ Pending = {}
    BY <1>1 DEF PhaseInv, Settled, Rejected, TypeOK
  <2>3. TypeOK'
    BY <1>1, <2>1 DEF TypeOK
  <2>4. PhaseInv' /\ InOrder'
    BY <1>1, <2>1 DEF PhaseInv, InOrder
  <2>5. RoomInv' /\ StrayInv'
    BY <1>1, <2>1 DEF RoomInv, StrayInv
  <2>6. AllProbesMade' /\ LoadedUnderLoad' /\ EndedTestIsQuiet'
    BY <1>1, <2>1, <2>2 DEF AllProbesMade, LoadedUnderLoad, EndedTestIsQuiet, Unloaded
  <2> QED
    BY <2>1, <2>3, <2>4, <2>5, <2>6 DEF UnderLaunched
<1> QED
  BY <1>2, <1>3

\* A phase that fails after the user's stop leaves only answered probes.
LEMMA PhaseFailsKeeps ==
  ASSUME LInv, PhaseFails
  PROVE  LInv'
<1> USE DEF LInv, PhaseFails
<1>1. /\ UNCHANGED <<test, dir, index, kept, load, lasts, left, probe, under, aborted>>
      /\ phase = "loaded" /\ phase' = "failed" /\ stray' = stray \cup ({test} \X InFlight)
      /\ Launched' = Launched /\ Pending' = Pending /\ Goes' = Goes
  BY DEF loadVars, Launched, Pending, Goes
<1>2. InFlight \subseteq {"flying", "timing", "transfer"} /\ test \in Test
  BY DEF InFlight, Pending, TypeOK
<1>3. TypeOK'
  BY <1>1, <1>2 DEF TypeOK
<1>4. PhaseInv' /\ InOrder' /\ RoomInv'
  BY <1>1 DEF PhaseInv, InOrder, RoomInv
<1>5. StrayInv'
  BY <1>1, <1>2 DEF StrayInv, TypeOK
<1>6. AllProbesMade' /\ LoadedUnderLoad'
  BY <1>1 DEF AllProbesMade, LoadedUnderLoad, Unloaded
<1>7. ~Goes => InFlight \subseteq {"timing"}
  BY DEF EndedTestIsQuiet, InFlight, Pending
<1>8. EndedTestIsQuiet'
  BY <1>1, <1>7 DEF EndedTestIsQuiet, Goes
<1> QED
  BY <1>1, <1>3, <1>4, <1>5, <1>6, <1>8 DEF UnderLaunched

LEMMA StrayEndsKeeps ==
  ASSUME LInv, StrayEnds
  PROVE  LInv'
<1> USE DEF LInv, StrayEnds
<1>1. /\ UNCHANGED <<test, phase, dir, index, kept, load, lasts, left, probe, under, aborted>>
      /\ Launched' = Launched /\ Pending' = Pending /\ Goes' = Goes
  BY DEF loadVars, Launched, Pending, Goes
<1>2. \A s \in stray' : s \in stray \/ \E q \in stray : s = <<q[1], "timing">>
  BY Zenon
<1>3. stray' \subseteq Test \X {"flying", "timing", "transfer"}
  BY <1>2 DEF TypeOK
<1>4. TypeOK'
  BY <1>1, <1>3 DEF TypeOK
<1>5. PhaseInv' /\ InOrder' /\ RoomInv'
  BY <1>1 DEF PhaseInv, InOrder, RoomInv
<1>6. StrayInv'
  BY <1>1, <1>2 DEF StrayInv
<1>7. AllProbesMade' /\ LoadedUnderLoad' /\ EndedTestIsQuiet'
  BY <1>1, <1>2 DEF AllProbesMade, LoadedUnderLoad, EndedTestIsQuiet
<1> QED
  BY <1>1, <1>4, <1>5, <1>6, <1>7 DEF UnderLaunched

LEMMA StopKeeps ==
  ASSUME LInv, Stop
  PROVE  LInv'
<1> USE DEF LInv, Stop
<1>1. /\ UNCHANGED <<test, phase, dir, index, kept, lasts, under, stray>> /\ phase \in Unloaded \cup {"loaded"}
      /\ aborted' = aborted \cup {test} /\ left' = 0 /\ load' # "running" /\ (load' = load \/ load' = "failed")
  OBVIOUS
<1>2. /\ probe' \in [Loaded -> ProbeState]
      /\ \A k \in Loaded : probe'[k] # "flying" /\ (probe'[k] = "unsent" <=> probe[k] = "unsent")
  BY DEF TypeOK, ProbeState
<1>3. Launched' = Launched
  BY <1>2 DEF Launched
<1>4. TypeOK'
  <2>1. left' \in 0 .. lasts
    BY <1>1, Ranges
  <2> QED
    BY <1>1, <1>2, <2>1 DEF TypeOK
<1>5. PhaseInv' /\ InOrder' /\ RoomInv' /\ StrayInv'
  BY <1>1, <1>3 DEF PhaseInv, InOrder, RoomInv, StrayInv
<1>6. AllProbesMade' /\ LoadedUnderLoad'
  BY <1>1, <1>3 DEF AllProbesMade, LoadedUnderLoad, Unloaded, Goes
<1>7. \A s \in stray : s[1] # test
  BY <1>1 DEF StrayInv, TypeOK, Test, Unloaded
<1>8. EndedTestIsQuiet'
  BY <1>1, <1>2, <1>7 DEF EndedTestIsQuiet, Unloaded
<1> QED
  BY <1>1, <1>3, <1>4, <1>5, <1>6, <1>8 DEF UnderLaunched

LEMMA StartAgainKeeps ==
  ASSUME LInv, StartAgain
  PROVE  LInv'
<1> USE DEF LInv, StartAgain
<1>1. TypeOK'
  <2>1. kept' \in BOOLEAN
    BY Zenon
  <2>2. test' \in Test
    BY LatencyAssumption DEF TypeOK, Test
  <2> QED
    BY <2>1, <2>2, LatencyAssumption DEF TypeOK, Probes, ProbeState
<1>2. Launched' = {}
  BY DEF Launched
<1>3. InOrder'
  <2>1. 0 \in 0 .. 5 /\ Launched' = 0 .. 0 - 1
    BY <1>2
  <2> QED
    BY <2>1 DEF InOrder
<1>4. PhaseInv' /\ RoomInv'
  BY DEF PhaseInv, Initial, RoomInv
<1>5. StrayInv'
  <2> SUFFICES ASSUME NEW s \in stray PROVE s[1] < test + 1
    BY DEF StrayInv
  <2>1. s[1] < test \/ s[1] = test
    BY DEF StrayInv
  <2>2. s[1] \in Nat /\ test \in Nat
    BY DEF TypeOK, Test
  <2> QED
    BY <2>1, <2>2
<1>6. AllProbesMade' /\ LoadedUnderLoad'
  BY DEF AllProbesMade, LoadedUnderLoad, Unloaded
<1>7. EndedTestIsQuiet'
  BY DEF EndedTestIsQuiet
<1> QED
  BY <1>1, <1>2, <1>3, <1>4, <1>5, <1>6, <1>7 DEF UnderLaunched

LEMMA NextLInv == LInv /\ [Next]_vars => LInv'
<1> SUFFICES ASSUME LInv, [Next]_vars PROVE LInv'
  OBVIOUS
<1>1. CASE UNCHANGED vars
  BY <1>1 DEF LInv, vars, TypeOK, PhaseInv, InOrder, RoomInv, StrayInv, AllProbesMade, LoadedUnderLoad,
     EndedTestIsQuiet, UnderLaunched, Launched, Pending, Goes
<1> QED
  BY <1>1, UnloadedKeeps, UnloadedEndsKeeps, TickKeeps, AnswersKeep, PhaseReturnsKeeps, PhaseFailsKeeps,
     StrayEndsKeeps, StopKeeps, StartAgainKeeps DEF Next

THEOREM LatencyInvariance == Spec => []LInv
  BY InitLInv, NextLInv, PTL DEF Spec

\* The phase counter, the probes, the transfer and what tests that are over
\* still have stay in their ranges (speedtest.js:880-900).
THEOREM LatencyTypes == Spec => []TypeOK
  BY LatencyInvariance, PTL DEF LInv

\* Twenty probes are made in batches or alone, for any transfers.
THEOREM ProbesMade == Spec => []AllProbesMade
  BY LatencyInvariance, PTL DEF LInv

\* For transfers of any length, also those shorter than the stagger of the
\* probes: which of the probes of a phase start under load is told by the
\* length alone (speedtest.js:887-897).
THEOREM UnderLoad == Spec => []LoadedUnderLoad
  BY LatencyInvariance, PTL DEF LInv

\* For any number of tests, stops and failures: a test that returns has
\* nothing in flight, and one that is stopped leaves nothing but probes that
\* had their answer (speedtest.js:418, 890-899).
THEOREM EndsQuietly == Spec => []EndedTestIsQuiet
  BY LatencyInvariance, PTL DEF LInv
=============================================================================
