---------------------------- MODULE LatencyProbes ----------------------------
(***************************************************************************)
(* The latency phases of a test (runUnloadedLatency,                       *)
(* runLatencyDuringDownload and runLatencyDuringUpload of                  *)
(* web/js/speedtest.js): the twenty probes of an idle link, one at a time  *)
(* or in batches, and the five probes of each loaded phase, staggered      *)
(* beside one large transfer. A loaded phase fails with the first promise  *)
(* that is rejected; what it started goes on after it, and the user may    *)
(* start another test meanwhile. (A test that is started while a stopped   *)
(* one still unwinds is in module SpeedTestEngine.)                        *)
(*                                                                         *)
(* A probe waits first for the server and then for the browser's entry of  *)
(* its timing, which no abort ends. The transfer has that second wait too, *)
(* but stores nothing after it: it is part of its end.                     *)
(*                                                                         *)
(* The throughput phases between the two are module AdaptiveRuns. A tick   *)
(* is the stagger of 200 ms; the large transfer lasts some ticks.          *)
(***************************************************************************)
EXTENDS Integers, FiniteSetsExt

CONSTANTS
  Durations, \* how many ticks the large transfer may last
  MaxTests   \* bound: the tests the user starts

ASSUME LatencyAssumption == Durations \subseteq Nat \ {0} /\ MaxTests \in Nat \ {0}

Probes    == 20 \* latencyProbes
Initial   == 3  \* initialProbes
BatchSize == 5
Loaded    == 0 .. 4 \* loadedLatencyProbes

VARIABLES
  test,    \* which test of the user is running
  phase,   \* "initial", "parallel", "sequential", "loaded", "returned", "failed"
  dir,     \* the direction that is loaded
  index,   \* probeIndex, or i: the next probe
  kept,    \* whether a probe has been answered: samples.length > 0
  load,    \* the large transfer: "none", "running", "over", "failed"
  lasts,   \* history: the ticks that the transfer takes
  left,    \* ticks that it still lasts
  probe,   \* the loaded probes: "unsent", "flying", "timing", "answered", "failed"
  under,   \* the loaded probes that started while the transfer ran
  stray,   \* what tests that are over still have: their number, and what it is
  aborted  \* the tests whose abortController has been aborted

vars == <<test, phase, dir, index, kept, load, lasts, left, probe, under, stray, aborted>>
loadVars == <<load, lasts, left, probe, under>>

Test       == 1 .. MaxTests
ProbeState == {"unsent", "flying", "timing", "answered", "failed"}

TypeOK ==
  /\ test \in Test /\ phase \in {"initial", "parallel", "sequential", "loaded", "returned", "failed"}
  /\ dir \in {"download", "upload"} /\ index \in 0 .. Probes /\ kept \in BOOLEAN
  /\ load \in {"none", "running", "over", "failed"}
  /\ lasts \in Durations \cup {0} /\ left \in 0 .. lasts
  /\ probe \in [Loaded -> ProbeState] /\ under \subseteq Loaded
  /\ stray \subseteq Test \X {"flying", "timing", "transfer"} /\ aborted \subseteq Test

Init ==
  /\ test = 1 /\ stray = {} /\ aborted = {}
  /\ phase = "initial" /\ dir = "download" /\ index = 0 /\ kept = FALSE
  /\ load = "none" /\ lasts = 0 /\ left = 0
  /\ probe = [i \in Loaded |-> "unsent"] /\ under = {}

-----------------------------------------------------------------------------
(* The unloaded phase *)

Unloaded == {"initial", "parallel", "sequential"}
Goes     == test \notin aborted

\* One probe, awaited; a failed one leaves no sample.
OneProbe == index' = index + 1 /\ kept' \in {kept, TRUE}

InitialProbe ==
  /\ phase = "initial" /\ index < Initial /\ Goes /\ OneProbe
  /\ UNCHANGED <<test, phase, dir, loadVars, stray, aborted>>

\* Low latency, or high latency with enough bandwidth: batches.
Decides ==
  /\ phase = "initial" /\ (index = Initial \/ ~Goes) /\ kept
  /\ phase' \in {"parallel", "sequential"}
  /\ index' = Initial
  /\ UNCHANGED <<test, dir, kept, loadVars, stray, aborted>>

\* Promise.all of a batch whose failed probes are null: none fails the batch.
ParallelBatch ==
  /\ phase = "parallel" /\ index < Probes /\ Goes
  /\ index' = Min({index + BatchSize, Probes})
  /\ UNCHANGED <<test, phase, dir, kept, loadVars, stray, aborted>>

SequentialProbe ==
  /\ phase = "sequential" /\ index < Probes /\ Goes /\ OneProbe
  /\ UNCHANGED <<test, phase, dir, loadVars, stray, aborted>>

\* The loaded phase starts its transfer and sleeps. With the signal of a test
\* that was stopped the transfer is rejected at once.
Starts ==
  /\ phase' = "loaded" /\ probe' = [i \in Loaded |-> "unsent"] /\ under' = {}
  /\ IF Goes
       THEN \E d \in Durations : load' = "running" /\ lasts' = d /\ left' = d
       ELSE load' = "failed" /\ lasts' = 0 /\ left' = 0

\* Mutant: only whole batches.
UnloadedEndsBeforePartBatch ==
  /\ \/ phase = "initial" /\ (index = Initial \/ ~Goes) /\ ~kept
     \/ phase \in {"parallel", "sequential"} /\ (index + BatchSize > Probes \/ ~Goes)
  /\ Starts
  /\ UNCHANGED <<test, dir, index, kept, stray, aborted>>

\* Without a sample of the first three, the phase ends there.
UnloadedEnds ==
  /\ \/ phase = "initial" /\ (index = Initial \/ ~Goes) /\ ~kept
     \/ phase \in {"parallel", "sequential"} /\ (index = Probes \/ ~Goes)
  /\ Starts
  /\ UNCHANGED <<test, dir, index, kept, stray, aborted>>

-----------------------------------------------------------------------------
(* A loaded phase *)

Launched  == {i \in Loaded : probe[i] # "unsent"}
Pending   == {i \in Loaded : probe[i] \in {"flying", "timing"}}
\* Mutant: each loaded probe awaits the one before.
LaunchingAfterAnswer == Launched # Loaded /\ Goes /\ Pending = {}

Launching == Launched # Loaded /\ Goes

\* 200 ms pass: the next probe starts, and the transfer may end.
Tick ==
  /\ phase = "loaded" /\ (Launching \/ load = "running")
  /\ left' = Max({left - 1, 0})
  /\ load' = IF load = "running" /\ left <= 1 THEN "over" ELSE load
  /\ IF Launching
       THEN LET i == Cardinality(Launched)
            IN  /\ probe' = [probe EXCEPT ![i] = "flying"]
                /\ under' = IF load' = "running" THEN under \cup {i} ELSE under
       ELSE UNCHANGED <<probe, under>>
  /\ UNCHANGED <<test, phase, dir, index, kept, lasts, stray, aborted>>

TransferFails ==
  /\ phase = "loaded" /\ load = "running"
  /\ load' = "failed" /\ left' = 0
  /\ UNCHANGED <<test, phase, dir, index, kept, lasts, probe, under, stray, aborted>>

Becomes(from, to) ==
  /\ phase = "loaded"
  /\ \E i \in Loaded : probe[i] = from /\ probe' = [probe EXCEPT ![i] = to]
  /\ UNCHANGED <<test, phase, dir, index, kept, load, lasts, left, under, stray, aborted>>

\* Answers come in any order; getResourceTiming then polls for the entry.
ProbeReceives == Becomes("flying", "timing")

\* The entry is there, or the polls are over: the sample is stored, whether or
\* not the test has been stopped meanwhile.
ProbeAnswers == Becomes("timing", "answered")

ProbeFails == Becomes("flying", "failed")

\* Promise.all is awaited once the probes are launched.
Rejected == load = "failed" \/ \E i \in Launched : probe[i] = "failed"
\* Mutant: Promise.all without the transfer.
SettledWithoutTransfer == Pending = {}

Settled  == load # "running" /\ Pending = {}

PhaseReturns ==
  /\ phase = "loaded" /\ ~Launching /\ Settled /\ ~Rejected
  /\ IF dir = "download"
       THEN Starts /\ dir' = "upload"
       ELSE phase' = "returned" /\ UNCHANGED <<loadVars, dir>>
  /\ UNCHANGED <<test, index, kept, stray, aborted>>

\* What the test has in flight when Promise.all rejects.
InFlight ==
  {probe[i] : i \in Pending} \cup (IF load = "running" THEN {"transfer"} ELSE {})

\* start() rejects; nothing is aborted here, so the rest stays in flight.
PhaseFails ==
  /\ phase = "loaded" /\ ~Launching /\ Rejected
  /\ phase' = "failed"
  /\ stray' = stray \cup ({test} \X InFlight)
  /\ UNCHANGED <<test, dir, index, kept, loadVars, aborted>>

\* Strays end in their time, probes after their second wait; the sample of a
\* probe joins the results there are then.
StrayEnds ==
  /\ \E s \in stray :
       \/ s[2] # "flying" /\ stray' = stray \ {s}
       \/ s[2] = "flying" /\ \E rest \in {{}, {s}}, next \in {{}, {<<s[1], "timing">>}} :
            stray' = (stray \ {s}) \cup rest \cup next
  /\ UNCHANGED <<test, phase, dir, index, kept, loadVars, aborted>>

-----------------------------------------------------------------------------
(* The user *)

\* stop() aborts every fetch of this test that has no answer yet.
Stop ==
  /\ phase \in Unloaded \cup {"loaded"} /\ Goes
  /\ aborted' = aborted \cup {test}
  /\ load' = IF load = "running" THEN "failed" ELSE load
  /\ left' = 0
  /\ probe' = [i \in Loaded |-> IF probe[i] = "flying" THEN "failed" ELSE probe[i]]
  /\ UNCHANGED <<test, phase, dir, index, kept, lasts, under, stray>>

\* A test has a controller of its own.
StartAgain ==
  /\ phase \in {"failed", "returned"} /\ test < MaxTests
  /\ test' = test + 1
  /\ phase' = "initial" /\ dir' = "download" /\ index' = 0 /\ kept' = FALSE
  /\ load' = "none" /\ lasts' = 0 /\ left' = 0
  /\ probe' = [i \in Loaded |-> "unsent"] /\ under' = {}
  /\ UNCHANGED <<stray, aborted>>

Next ==
  \/ InitialProbe \/ Decides \/ ParallelBatch \/ SequentialProbe \/ UnloadedEnds
  \/ Tick \/ TransferFails \/ ProbeReceives \/ ProbeAnswers \/ ProbeFails
  \/ PhaseReturns \/ PhaseFails
  \/ StrayEnds \/ Stop \/ StartAgain

Spec == Init /\ [][Next]_vars

-----------------------------------------------------------------------------
(* Properties *)

\* Once one of the first three probes is answered, a test that is not
\* stopped makes all twenty, batches or not (speedtest.js:566-632).
AllProbesMade == phase \notin Unloaded /\ Goes /\ kept => index = Probes

\* Unless the transfer fails, the loaded probes that start under load are the
\* ones whose turn of the stagger comes before its end, all of them when it
\* lasts more than five turns, whatever the answers do: nothing in the loop
\* looks at the transfer (speedtest.js:887-897).
LoadedUnderLoad ==
  load \in {"running", "over"} => \A i \in Launched : i \in under <=> lasts > i + 1

\* A test that has returned has nothing in flight. One that was stopped has
\* no request at the server, in this phase or the next, when it is over or
\* not: all it may still have is probes that had their answer, whose samples
\* are stored after start() has rejected (speedtest.js:418, 890-899, 1989).
EndedTestIsQuiet ==
  /\ phase = "returned" => load = "over" /\ Pending = {}
  /\ ~Goes => load # "running" /\ \A i \in Loaded : probe[i] # "flying"
  /\ \A s \in stray : s[1] \in aborted => s[2] = "timing"

\* netspeed-ui-spec.md:439: "20 total probes".
TwentyProbes == phase \notin Unloaded /\ Goes => index = Probes

\* netspeed-ui-spec.md:494: "frontend coordinates these phases to ensure
\* overlapping load and latency probes".
LoadOverlapsProbes == load \in {"running", "over"} => Launched \subseteq under

\* README.md:93-94: latency is "round-trip time to the server" and loaded
\* latency is told apart as "latency while downloading/uploading": while
\* the unloaded probes run there is no transfer.
UnloadedIsUnloaded == phase \in Unloaded => \A s \in stray : s[2] # "transfer"
=============================================================================
