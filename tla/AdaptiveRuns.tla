---------------------------- MODULE AdaptiveRuns ----------------------------
(***************************************************************************)
(* The throughput phase of one direction (runDownloadTests, runUploadTests *)
(* of web/js/speedtest.js): two baseline batches, an estimate of the       *)
(* speed, the choice of the larger transfers, their batches under a time   *)
(* budget with the progress shown to the user, and the transfer that the   *)
(* loaded-latency phase makes afterwards, against a server that refuses    *)
(* downloads above MaxBytes (internal/server/handlers.go).                 *)
(*                                                                         *)
(* Sizes are in units of 100 kB, speeds in Mbps, times in ticks of 100 ms. *)
(***************************************************************************)
EXTENDS Integers, Sequences, FiniteSetsExt

CONSTANTS
  Speeds,     \* the speeds that the 1MB samples may suggest
  MaxBytes,   \* the server's limit
  Delays,     \* by how much a run may take longer than estimated
  PauseTicks, \* bound: what a pause adds to the clock at a time
  MaxTicks    \* bound: time beyond which the clock of a phase stops

ASSUME AdaptiveAssumption ==
  Speeds \subseteq Nat \ {0} /\ MaxBytes \in Nat
  /\ Delays \subseteq Nat /\ PauseTicks \in Nat /\ MaxTicks \in Nat

P(size, runs) == [size |-> size, runs |-> runs]

Table == [
  download |-> << P(1, 10), P(10, 8), P(100, 6), P(250, 4), P(1000, 3), P(2500, 2), P(5000, 2),
                  P(10000, 2), P(20000, 2), P(50000, 2), P(120000, 2), P(500000, 2),
                  P(1000000, 2), P(1250000, 2) >>,
  upload   |-> << P(1, 8), P(10, 6), P(100, 4), P(250, 4), P(500, 3), P(1000, 2), P(2500, 2),
                  P(5000, 2), P(10000, 2), P(20000, 2), P(50000, 2), P(120000, 2),
                  P(500000, 2), P(1000000, 2), P(1250000, 2) >>]

MaxTransfer == 40  \* MAX_TEST_DURATION_SECONDS
Budget      == 80  \* TOTAL_DOWNLOAD_DURATION_SECONDS and TOTAL_UPLOAD_DURATION_SECONDS

VARIABLES
  dir,       \* "download" or "upload"
  stage,     \* "base", "select", "batch", "run", "loaded"
  profile,   \* the current batch, an index of Table[dir]
  i,         \* the current run of the batch
  sampled,   \* whether a 1MB run succeeded
  speed,     \* estimatedSpeed
  selected,  \* DOWNLOAD_PROFILES or UPLOAD_PROFILES
  totalRuns, \* runs that succeeded
  expected,  \* expectedTotal
  shown,     \* the arguments of the last progress callback
  elapsed,   \* time since the larger batches began
  late,      \* history: what the last batch begun has taken beyond its estimate
  event      \* what has disturbed the phase

vars == <<dir, stage, profile, i, sampled, speed, selected, totalRuns, expected, shown, elapsed,
          late, event>>

Event    == {"failure", "stop", "pause"}
Profiles == DOMAIN Table[dir]
Larger   == Profiles \ {1, 2}
Size(p)  == Table[dir][p].size
Runs(p)  == Table[dir][p].runs
Baseline == Runs(1) + Runs(2)
RunsOf(S) == Cardinality({r \in S \X (1 .. 10) : r[2] <= Runs(r[1])}) \* the sum of Runs(p)

TypeOK ==
  /\ dir \in DOMAIN Table /\ stage \in {"base", "select", "batch", "run", "loaded"}
  /\ profile \in 1 .. Len(Table[dir]) + 1 /\ i \in 0 .. 10
  /\ sampled \in BOOLEAN /\ speed \in Speeds \cup {0} /\ selected \subseteq Profiles
  /\ totalRuns \in 0 .. RunsOf(Profiles) /\ expected \in 0 .. RunsOf(Profiles)
  /\ shown \in (0 .. RunsOf(Profiles)) \X (0 .. RunsOf(Profiles))
  /\ elapsed \in 0 .. MaxTicks /\ late \in 0 .. MaxTicks /\ event \subseteq Event

Init ==
  /\ dir \in DOMAIN Table /\ stage = "base" /\ profile = 1 /\ i = 0
  /\ sampled = FALSE /\ speed = 0 /\ selected = {}
  /\ totalRuns = 0 /\ expected = 0 /\ shown = <<0, 0>>
  /\ elapsed = 0 /\ late = 0 /\ event = {}

Stopped == "stop" \in event

-----------------------------------------------------------------------------
(* Choosing the transfers *)

\* estimateTransferTime: size / speed; nothing fits without an estimate.
Fits(p, runs, sp, ticks) == sp > 0 /\ 8 * Size(p) * runs <= ticks * sp

\* An upload of 50MB is dropped when the one of 100MB is made.
Select(sp) ==
  LET fitting == {p \in Larger : Fits(p, 1, sp, MaxTransfer)}
  IN  {1, 2} \cup (IF dir = "upload" /\ 6 \in fitting THEN fitting \ {5} ELSE fitting)

\* getLargestProfile
Largest(S) == CHOOSE p \in S : \A q \in S : Size(q) <= Size(p)

\* handleDown answers 400; handleUp reads no further, and answers 200.
Refused(size) == dir = "download" /\ size > MaxBytes

-----------------------------------------------------------------------------
(* Steps *)

\* The end of a run: the progress is shown after a success only.
Succeeds(total) ==
  /\ totalRuns' = totalRuns + 1 /\ shown' = <<totalRuns + 1, total>>
  /\ UNCHANGED event
Misses == event' = event \cup {"failure"} /\ UNCHANGED <<totalRuns, shown>>

BaseRun ==
  /\ stage = "base" /\ i < Runs(profile) /\ ~Stopped
  /\ i' = i + 1
  /\ \/ ~Refused(Size(profile)) /\ Succeeds(Baseline) /\ sampled' = (sampled \/ profile = 2)
     \/ Misses /\ sampled' = sampled
  /\ UNCHANGED <<dir, stage, profile, speed, selected, expected, elapsed, late>>

BaseEnds ==
  /\ stage = "base" /\ (i = Runs(profile) \/ Stopped)
  /\ IF profile = 1 THEN profile' = 2 /\ stage' = stage ELSE profile' = 3 /\ stage' = "select"
  /\ i' = 0
  /\ UNCHANGED <<dir, sampled, speed, selected, totalRuns, expected, shown, elapsed, late, event>>

\* The median of the 1MB samples, 0 when there is none.
Estimates ==
  /\ stage = "select"
  /\ \E sp \in IF sampled THEN Speeds ELSE {0} :
       /\ speed' = sp /\ selected' = Select(sp)
       /\ expected' = Baseline + RunsOf(Select(sp) \cap Larger)
  /\ stage' = "batch"
  /\ UNCHANGED <<dir, profile, i, sampled, totalRuns, shown, elapsed, late, event>>

\* Mutant: one run is weighed, not the batch.
BatchFitsByOneRun == Fits(profile, 1, speed, Budget - elapsed)

BatchFits == Fits(profile, Runs(profile), speed, Budget - elapsed)

\* Mutant: the total is not corrected.
CorrectedNot == expected

Corrected == expected - Runs(profile)

\* A batch is made when its estimate fits in what is left of the budget.
Batch ==
  /\ stage = "batch" /\ profile \in Larger /\ ~Stopped
  /\ IF profile \in selected /\ BatchFits
       THEN stage' = "run" /\ late' = 0 /\ UNCHANGED <<profile, expected>>
       ELSE /\ profile' = profile + 1
            /\ expected' = IF profile \in selected THEN Corrected ELSE expected
            /\ UNCHANGED <<stage, late>>
  /\ UNCHANGED <<dir, i, sampled, speed, selected, totalRuns, shown, elapsed, event>>

BatchesEnd ==
  /\ stage = "batch" /\ (profile \notin Larger \/ Stopped)
  /\ stage' = "loaded"
  /\ UNCHANGED <<dir, profile, i, sampled, speed, selected, totalRuns, expected, shown, elapsed, late,
                 event>>

\* estimateTransferTime, rounded down.
Estimated == (8 * Size(profile)) \div speed

\* A run may be over at once, take the time that was estimated, or longer.
Ticks == {0, Estimated} \cup {Estimated + d : d \in Delays}

Passes(ticks, due) ==
  /\ elapsed' = Min({elapsed + ticks, MaxTicks})
  /\ late' = Min({late + Max({ticks - due, 0}), MaxTicks})

\* A run that fails has taken its time like any other.
Run ==
  /\ stage = "run" /\ i < Runs(profile) /\ ~Stopped
  /\ i' = i + 1
  /\ \E ticks \in Ticks : Passes(ticks, Estimated)
  /\ (~Refused(Size(profile)) /\ Succeeds(expected)) \/ Misses
  /\ UNCHANGED <<dir, stage, profile, sampled, speed, selected, expected>>

RunsEnd ==
  /\ stage = "run" /\ (i = Runs(profile) \/ Stopped)
  /\ stage' = "batch" /\ profile' = profile + 1 /\ i' = 0
  /\ UNCHANGED <<dir, sampled, speed, selected, totalRuns, expected, shown, elapsed, late, event>>

\* The user: time goes on while the test is paused.
Pause ==
  /\ stage = "run" /\ i < Runs(profile) /\ ~Stopped
  /\ Passes(PauseTicks, 0) /\ event' = event \cup {"pause"}
  /\ UNCHANGED <<dir, stage, profile, i, sampled, speed, selected, totalRuns, expected, shown>>

Stop ==
  /\ stage # "loaded" /\ event' = event \cup {"stop"}
  /\ UNCHANGED <<dir, stage, profile, i, sampled, speed, selected, totalRuns, expected, shown, elapsed,
                 late>>

Next == BaseRun \/ BaseEnds \/ Estimates \/ Batch \/ BatchesEnd \/ Run \/ RunsEnd \/ Pause \/ Stop

Spec == Init /\ [][Next]_vars

-----------------------------------------------------------------------------
(* Properties *)

\* The total that the progress is measured against is right: it is never
\* below what has been made, and when no run fails the phase ends with
\* exactly as many runs as it was corrected to (speedtest.js:704-720).
ExpectedIsExact ==
  /\ stage \in {"batch", "run", "loaded"} => totalRuns <= expected
  /\ stage = "loaded" /\ event \cap {"failure", "stop"} = {} => totalRuns = expected

\* The larger batches go over the budget by no more than what one of them,
\* the last, has taken beyond its estimate, by slow transfers, by transfers
\* that the server's timeouts cut (config.go:73) or by pauses: lateness does
\* not add up over the batches, although only whole batches are weighed and
\* nothing stops one that is late (speedtest.js:708-739).
BudgetKept == elapsed <= Budget + late

\* netspeed-ui-spec.md:1967: the correction of expectedTotal "ensures
\* progress reaches 100% even when batches are skipped".
ProgressReaches100 ==
  stage = "loaded" /\ event = {} => shown[1] = shown[2]

\* netspeed-ui-spec.md:1734: "total test duration is bounded by 8-second
\* budget per phase".
BudgetBounds == "pause" \notin event => elapsed <= Budget

\* netspeed-ui-spec.md:1732-1733: fast connections "use GB-sized tests", up
\* to 1 Tbps: the server must serve what the client chooses.
FastLinksServed == stage = "loaded" /\ ~Stopped => ~Refused(Size(Largest(selected)))
=============================================================================
