-------------------------- MODULE SpeedTestEngine --------------------------
(***************************************************************************)
(* The life of a test run in the browser (web/js/speedtest.js): start,     *)
(* stop, pause and resume, and the eight phases that a call of start goes  *)
(* through.  The engine keeps its state in module variables (isRunning,    *)
(* isPaused, abortController, results) that every call of start shares, so *)
(* a call that is still unwinding after stop reads and writes the          *)
(* variables of the next one.                                              *)
(*                                                                         *)
(* JavaScript runs one task at a time.  A run advances by microtasks,      *)
(* which no other task can precede (at = "head"), and by tasks: an answer  *)
(* of the server, a timer, or a call from outside.  A task starts only     *)
(* when no microtask is left (Quiet).                                      *)
(*                                                                         *)
(* A phase makes Units passes (probes, transfers, packets); what a sample  *)
(* measures is left out.                                                   *)
(***************************************************************************)
EXTENDS Naturals, FiniteSets

CONSTANTS
  MaxRuns,  \* bound: calls of start that create a run
  Units     \* passes per phase

ASSUME BoundsAssumption == MaxRuns \in Nat /\ Units \in Nat \ {0}

Run  == 1 .. MaxRuns
None == 0

Loops  == {"latency", "download", "upload"}
Loaded == {"loadedDown", "loadedUp"}
After  == [latency |-> "warmup", warmup |-> "download", download |-> "upload",
           upload |-> "loadedDown", loadedDown |-> "loadedUp", loadedUp |-> "packetLoss"]
Working == {"meta", "packetLoss"} \cup DOMAIN After
Over    == {"completed", "failed", "aborted"}

\* Where a run is within its phase: about to run (a microtask), awaiting the
\* answer of an abortable request, polling isPaused, pacing the probes of a
\* loaded phase, awaiting all its requests, and the steps of packet loss.
\* "stray": the run is over, but probes of its loaded phase are in flight.
At == {"none", "head", "request", "poll", "stagger", "all", "setup", "sending", "late", "report",
       "stray"}

VARIABLES
  isRunning, isPaused,
  controller,  \* abortController: the run that created it, or None
  aborted,     \* runs whose controller has been aborted
  owner,       \* the run that created the object in the variable results
  mixed,       \* results objects that hold a sample of another run
  run          \* phase, position, passes left, controllers of its requests,
               \* whether one of them was aborted, whether it stored a sample

engineVars == <<isRunning, isPaused, controller, aborted, owner, mixed, run>>

RunState == [phase : {"unborn"} \cup Working \cup Over, at : At, left : 0 .. Units,
             sigs : SUBSET (Run \cup {None}), doomed : BOOLEAN, sampled : BOOLEAN]

EngineTypeOK ==
  /\ isRunning \in BOOLEAN /\ isPaused \in BOOLEAN
  /\ controller \in Run \cup {None} /\ owner \in Run \cup {None}
  /\ aborted \subseteq Run /\ mixed \subseteq Run
  /\ run \in [Run -> RunState]

EngineInit ==
  /\ isRunning = FALSE /\ isPaused = FALSE
  /\ controller = None /\ aborted = {} /\ owner = None /\ mixed = {}
  /\ run = [r \in Run |-> [phase |-> "unborn", at |-> "none", left |-> 0, sigs |-> {},
                          doomed |-> FALSE, sampled |-> FALSE]]

Active == {r \in Run : run[r].phase \in Working}

\* abortController?.signal.aborted
Aborted == controller # None /\ controller \in aborted

\* Promise.all of a loaded phase rejects as soon as a request is aborted.
Hit(r) == run[r].at = "all" /\ run[r].doomed

Quiet == \A r \in Run : run[r].at # "head" /\ ~Hit(r)

-----------------------------------------------------------------------------
(* What a step does to its run *)

Become(r, rec) == run' = [run EXCEPT ![r] = rec]

Enter(r, p) ==
  /\ Become(r, [run[r] EXCEPT !.phase = p, !.at = "head", !.left = Units, !.sigs = {}])
  /\ UNCHANGED <<isRunning, isPaused, controller, aborted, owner, mixed>>

MoveTo(r, at) ==
  /\ Become(r, [run[r] EXCEPT !.at = at])
  /\ UNCHANGED <<isRunning, isPaused, controller, aborted, owner, mixed>>

\* The catch blocks of the loops swallow a failed request; the latency phase
\* gives up when its first probes all fail.
Rejected(r) == [run[r] EXCEPT !.at = "head",
                  !.left = IF run[r].phase = "latency" /\ @ = Units THEN 0 ELSE @ - 1]

\* A request carries the signal of the controller that is current when it is
\* made; with an aborted signal it is rejected at once.
Fetch(r) ==
  /\ Become(r, IF Aborted THEN Rejected(r)
               ELSE [run[r] EXCEPT !.at = "request", !.sigs = {controller}])
  /\ UNCHANGED <<isRunning, isPaused, controller, aborted, owner, mixed>>

\* A sample goes to the results object that is current when it is stored.
Stores(r) == mixed' = IF owner = r THEN mixed ELSE mixed \cup {owner}

\* Mutant: the clean-up in the try block instead of finally.
EndsWithoutFinally(r, how) ==
  /\ Become(r, [run[r] EXCEPT !.phase = how, !.at = "none", !.left = 0, !.sigs = {}])
  /\ IF how = "failed" THEN UNCHANGED <<isRunning, controller>>
     ELSE isRunning' = FALSE /\ controller' = None
  /\ UNCHANGED <<isPaused, aborted, owner>>

\* Nobody waits for the probes a loaded phase still has in flight, nor ends
\* them: an abort rejects those that wait for the server, not one that has
\* its answer and waits for the timing entry (getResourceTiming).
LeftBy(r) ==
  IF run[r].phase \in Loaded /\ run[r].left < Units THEN {"none", "stray"} ELSE {"none"}

\* The finally block of start.
Ends(r, how) ==
  /\ \E at \in LeftBy(r) :
       Become(r, [run[r] EXCEPT !.phase = how, !.at = at, !.left = 0, !.sigs = {}])
  /\ isRunning' = FALSE /\ controller' = None
  /\ UNCHANGED <<isPaused, aborted, owner>>

-----------------------------------------------------------------------------
(* Phases *)

\* fetchMeta and fetchLocations; they carry no signal.
MetaAnswered(r) ==
  /\ Quiet /\ run[r].phase = "meta"
  /\ \/ Enter(r, "latency")
     \/ Ends(r, "failed") /\ UNCHANGED mixed

\* Head of the loops of runUnloadedLatency, runDownloadTests and
\* runUploadTests: the abort is checked first, then the pause.
LoopHead(r) ==
  /\ run[r].phase \in Loops /\ run[r].at = "head"
  /\ \/ (run[r].left = 0 \/ Aborted) /\ Enter(r, After[run[r].phase])
     \/ run[r].left > 0 /\ ~Aborted /\ isPaused /\ MoveTo(r, "poll")
     \/ run[r].left > 0 /\ ~Aborted /\ ~isPaused /\ Fetch(r)

\* Mutant: the pause loop waits for the abort to go away.
PauseEndsUnaborted(r) ==
  /\ Quiet /\ run[r].at = "poll" /\ ~isPaused /\ ~Aborted
  /\ Fetch(r)

\* while (isPaused) await sleep(100): the abort is not looked at again.
PauseEnds(r) ==
  /\ Quiet /\ run[r].at = "poll" /\ ~isPaused
  /\ Fetch(r)

LoopAnswered(r) ==
  /\ Quiet /\ run[r].phase \in Loops /\ run[r].at = "request"
  /\ \/ /\ Become(r, [run[r] EXCEPT !.at = "head", !.left = @ - 1, !.sampled = TRUE])
        /\ Stores(r)
     \/ Become(r, Rejected(r)) /\ UNCHANGED mixed
  /\ UNCHANGED <<isRunning, isPaused, controller, aborted, owner>>

\* runWarmup looks at neither the abort nor the pause and ignores failures.
WarmupHead(r) ==
  /\ run[r].phase = "warmup" /\ run[r].at = "head"
  /\ IF run[r].left = 0 THEN Enter(r, After["warmup"]) ELSE Fetch(r)

WarmupAnswered(r) ==
  /\ Quiet /\ run[r].phase = "warmup" /\ run[r].at = "request"
  /\ Become(r, [run[r] EXCEPT !.at = "head", !.left = @ - 1])
  /\ UNCHANGED <<isRunning, isPaused, controller, aborted, owner, mixed>>

\* Mutant: the requests of a loaded phase carry no signal.
LoadedHeadUnsignalled(r) ==
  /\ run[r].phase \in Loaded /\ run[r].at = "head"
  /\ Become(r, [run[r] EXCEPT !.at = "stagger", !.sigs = {None}, !.doomed = FALSE])
  /\ UNCHANGED <<isRunning, isPaused, controller, aborted, owner, mixed>>

\* runLatencyDuringDownload and ...Upload: the transfer starts, then a probe
\* every 200 ms.
LoadedHead(r) ==
  /\ run[r].phase \in Loaded /\ run[r].at = "head"
  /\ Become(r, [run[r] EXCEPT !.at = "stagger", !.sigs = {controller}, !.doomed = Aborted])
  /\ UNCHANGED <<isRunning, isPaused, controller, aborted, owner, mixed>>

LoadedProbe(r) ==
  /\ Quiet /\ run[r].at = "stagger"
  /\ Become(r, IF Aborted THEN [run[r] EXCEPT !.at = "all"]
               ELSE [run[r] EXCEPT !.sigs = @ \cup {controller}, !.left = @ - 1,
                                   !.at = IF run[r].left = 1 THEN "all" ELSE "stagger"])
  /\ UNCHANGED <<isRunning, isPaused, controller, aborted, owner, mixed>>

\* Promise.all: every request succeeded, one was aborted, or one failed;
\* nobody catches its rejection.
LoadedSettles(r) ==
  /\ run[r].at = "all" /\ (Quiet \/ Hit(r))
  /\ \/ /\ ~Hit(r)
        /\ Become(r, [run[r] EXCEPT !.phase = After[@], !.at = "head", !.left = Units,
                                    !.sigs = {}, !.sampled = TRUE])
        /\ Stores(r)
        /\ UNCHANGED <<isRunning, isPaused, controller, aborted, owner>>
     \/ Hit(r) /\ Ends(r, "aborted") /\ UNCHANGED mixed
     \/ Ends(r, "failed") /\ UNCHANGED mixed

\* runPacketLossTest catches all its errors.  Connecting carries no signal;
\* the send loop looks at the abort at each packet, never at the pause.
LossHead(r) ==
  /\ run[r].phase = "packetLoss" /\ run[r].at = "head"
  /\ MoveTo(r, "setup")

\* The summary is computed and onComplete called.
Completes(r) == Ends(r, "completed")

\* results.packetLoss says that the test could not be made.
LossUnavailable(r) == Stores(r) /\ Completes(r)

LossConnects(r) ==
  /\ Quiet /\ run[r].at = "setup"
  /\ MoveTo(r, "sending") \/ LossUnavailable(r)

LossSends(r) ==
  /\ Quiet /\ run[r].at = "sending"
  /\ Become(r, IF run[r].left = 0 \/ Aborted THEN [run[r] EXCEPT !.at = "late"]
               ELSE [run[r] EXCEPT !.left = @ - 1])
  /\ UNCHANGED <<isRunning, isPaused, controller, aborted, owner, mixed>>

\* After the wait for late acks the result is written and reported, unless
\* the acks look like a broken connection.
LossCounts(r) ==
  /\ Quiet /\ run[r].at = "late"
  /\ \/ LossUnavailable(r)
     \/ /\ Become(r, [run[r] EXCEPT !.at = "report", !.sampled = TRUE])
        /\ Stores(r)
        /\ UNCHANGED <<isRunning, isPaused, controller, aborted, owner>>

LossReported(r) ==
  /\ Quiet /\ run[r].at = "report"
  /\ Completes(r) /\ UNCHANGED mixed

\* Probes of a run that is over are answered, or fail: a sample goes to the
\* results that there are by then.
StrayProbe(r) ==
  /\ Quiet /\ run[r].at = "stray"
  /\ \/ Stores(r) /\ UNCHANGED run
     \/ Become(r, [run[r] EXCEPT !.at = "none"]) /\ UNCHANGED mixed
  /\ UNCHANGED <<isRunning, isPaused, controller, aborted, owner>>

RunStep(r) ==
  \/ MetaAnswered(r) \/ LoopHead(r) \/ PauseEnds(r) \/ LoopAnswered(r)
  \/ WarmupHead(r) \/ WarmupAnswered(r)
  \/ LoadedHead(r) \/ LoadedProbe(r) \/ LoadedSettles(r)
  \/ LossHead(r) \/ LossConnects(r) \/ LossSends(r) \/ LossCounts(r) \/ LossReported(r)

-----------------------------------------------------------------------------
(* The engine's interface *)

\* Mutant: start without its guard.
MayAlwaysStart == TRUE

MayStart == ~isRunning

\* start: returns at once while isRunning.
Start(r) ==
  /\ Quiet /\ MayStart
  /\ run[r].phase = "unborn" /\ \A q \in 1 .. r - 1 : run[q].phase # "unborn"
  /\ isRunning' = TRUE /\ isPaused' = FALSE
  /\ controller' = r /\ owner' = r
  /\ Become(r, [run[r] EXCEPT !.phase = "meta", !.at = "request", !.left = Units])
  /\ UNCHANGED <<aborted, mixed>>

\* stop: an abort rejects the requests made with the current controller that
\* are still waiting for the server; those that have their answer go on.
Listening == {r \in Run : run[r].at \in {"request", "stagger", "all"}
                         /\ controller # None /\ controller \in run[r].sigs}

Stop ==
  /\ Quiet
  /\ aborted' = aborted \cup ({controller} \ {None})
  /\ \E hit \in SUBSET Listening :
       run' = [r \in Run |-> IF r \notin hit THEN run[r]
                             ELSE IF run[r].at = "request" THEN Rejected(r)
                             ELSE [run[r] EXCEPT !.doomed = TRUE]]
  /\ isRunning' = FALSE /\ isPaused' = FALSE
  /\ UNCHANGED <<controller, owner, mixed>>

SetPaused(b) ==
  /\ Quiet /\ isPaused' = b
  /\ UNCHANGED <<isRunning, controller, aborted, owner, mixed, run>>

Pause  == SetPaused(TRUE)
Resume == SetPaused(FALSE)

EngineNext ==
  \/ \E r \in Run : RunStep(r) \/ StrayProbe(r) \/ Start(r)
  \/ Stop \/ Pause \/ Resume

\* Requests and timers end, microtasks run.  Nobody is obliged to resume;
\* nothing waits for a stray probe.
EngineFairness == \A r \in Run : WF_engineVars(RunStep(r))

EngineSpec == EngineInit /\ [][EngineNext]_engineVars /\ EngineFairness

-----------------------------------------------------------------------------
(* Properties, for any caller of the interface *)

\* Two runs overlap only if somebody called stop: start's guard on isRunning
\* (speedtest.js:1911) holds against everything but a run that stop has
\* declared over while it is unwinding.  And only then, or when a run has
\* failed and left probes behind (899), does a results object hold samples
\* of a run that did not create it.
CutShort == \E r \in Run : run[r].phase \in {"failed", "aborted"}

OverlapNeedsStop ==
  /\ Cardinality(Active) > 1 => aborted # {}
  /\ mixed # {} => aborted # {} \/ CutShort

\* No run leaves the engine locked: when none is active, isRunning is false
\* and no controller is left, so start works again (speedtest.js:2011-2014).
IdleIsUnlocked == Active = {} => ~isRunning /\ controller = None

\* stop ends the run: one that is stopped before its loaded phases ends
\* without a result, although the loops swallow the rejected requests and go
\* on to the next phase - unless another run replaces its controller or, in
\* its own finally, takes it away (speedtest.js:1915, 2013).
StopEndsRun ==
  <>[]~isPaused => \A r \in Run :
     Active = {r} /\ controller = r /\ Aborted /\ run[r].phase \in {"latency", "warmup", "download", "upload"}
     ~> run[r].phase \in {"aborted", "failed"} \/ controller \notin {r, None}

\* Every run ends, whatever is called meanwhile, unless the engine is left
\* paused: no phase waits for something that another run has taken away.
RunsEnd ==
  <>[]~isPaused => \A r \in Run : run[r].phase \in Working ~> run[r].phase \in Over

\* getIsRunning, "Check if test is running" (speedtest.js:2049-2054).
IsRunningTells == Active # {} => isRunning

\* netspeed-ui-spec.md:917-919: when a test segment fails, a partial summary
\* is still computed from the available data.
FailureKeepsData == \A r \in Run : run[r].phase = "failed" => ~run[r].sampled

\* netspeed-ui-spec.md:761: the pause button "temporarily halts remaining
\* tests", so no run makes a request or begins a phase while paused.
PauseHaltsTests ==
  [][isPaused /\ isPaused' => \A r \in Run :
       run'[r].at \in {"request", "stagger", "setup"} => run'[r].at = run[r].at]_engineVars
=============================================================================
