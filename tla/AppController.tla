--------------------------- MODULE AppController ---------------------------
(***************************************************************************)
(* The user interface's control of the engine (web/js/app.js): startTest,  *)
(* togglePause and retest over its own copy of "running" and "paused",     *)
(* composed with SpeedTestEngine.  The user may click while a task of the  *)
(* engine waits, never inside one.                                         *)
(***************************************************************************)
EXTENDS SpeedTestEngine

CONSTANT MaxRetests  \* bound: calls of retest whose timer is still to fire

ASSUME MaxRetestsAssumption == MaxRetests \in Nat

VARIABLES
  appRunning,  \* state.isRunning
  appPaused,   \* state.isPaused, and with it the label of the pause button
  awaited,     \* the run whose promise startTest awaits, or None
  timers       \* pending setTimeout(startTest, 100) of retest

appVars == <<appRunning, appPaused, awaited, timers>>
vars == <<engineVars, appVars>>

TypeOK ==
  /\ EngineTypeOK
  /\ appRunning \in BOOLEAN /\ appPaused \in BOOLEAN
  /\ awaited \in Run \cup {None} /\ timers \in 0 .. MaxRetests

Init ==
  /\ EngineInit
  /\ appRunning = FALSE /\ appPaused = FALSE /\ awaited = None /\ timers = 0

\* Mutant: startTest without its guard.
StartTestUnguarded ==
  \/ \E r \in Run : Start(r) /\ appRunning' = TRUE /\ awaited' = r
  \/ isRunning /\ Quiet /\ UNCHANGED <<engineVars, appRunning, awaited>>

\* startTest up to its await: nothing while running; otherwise the engine is
\* started.  An engine that considers itself running returns at once, and
\* startTest goes on to its end.
StartTest ==
  IF appRunning THEN UNCHANGED <<engineVars, appRunning, awaited>>
  ELSE \/ \E r \in Run : Start(r) /\ appRunning' = TRUE /\ awaited' = r
       \/ isRunning /\ Quiet /\ UNCHANGED <<engineVars, appRunning, awaited>>

\* The start button is disabled while running.
ClickStart == ~appRunning /\ StartTest /\ UNCHANGED <<appPaused, timers>>

TogglePause ==
  /\ appRunning /\ appPaused' = ~appPaused
  /\ IF appPaused THEN Resume ELSE Pause
  /\ UNCHANGED <<appRunning, awaited, timers>>

Retest ==
  /\ timers < MaxRetests /\ timers' = timers + 1
  /\ IF appRunning THEN Stop ELSE Quiet /\ UNCHANGED engineVars
  /\ UNCHANGED <<appRunning, appPaused, awaited>>

RetestFires ==
  /\ timers > 0 /\ Quiet /\ timers' = timers - 1
  /\ StartTest
  /\ UNCHANGED appPaused

\* Mutant: the page resets its flag on success only.
EngineOnSuccess(r) ==
  /\ RunStep(r)
  /\ IF awaited = r /\ run'[r].phase = "completed"
       THEN appRunning' = FALSE /\ awaited' = None
       ELSE UNCHANGED <<appRunning, awaited>>
  /\ UNCHANGED <<appPaused, timers>>

\* A step of the engine; when it ends the awaited run, startTest resumes in
\* the same burst of microtasks, whether the promise was kept or broken.
Engine(r) ==
  /\ RunStep(r)
  /\ IF awaited = r /\ run'[r].phase \in Over
       THEN appRunning' = FALSE /\ awaited' = None
       ELSE UNCHANGED <<appRunning, awaited>>
  /\ UNCHANGED <<appPaused, timers>>

Stray(r) == StrayProbe(r) /\ UNCHANGED appVars

Next ==
  \/ ClickStart \/ TogglePause \/ Retest \/ RetestFires
  \/ \E r \in Run : Engine(r) \/ Stray(r)

\* As in the engine; the timer of retest fires.  Nobody is obliged to click.
Spec == Init /\ [][Next]_vars /\ WF_vars(RetestFires) /\ \A r \in Run : WF_vars(Engine(r))

-----------------------------------------------------------------------------
(* Properties *)

\* startTest's own guard (app.js:333) serialises the runs that the engine's
\* guard does not: state.isRunning stays true until the promise of the old
\* run has settled, so retest never starts a second run beside one that stop
\* has left unwinding.  Only probes that a run which was cut short has left
\* in flight can still reach the results of another.
OneRunAtATime == Cardinality(Active) <= 1 /\ (mixed # {} => CutShort)

\* The app and the engine agree: the app shows a running test exactly while
\* a run is active, so "Test complete" is never shown over a running engine.
AppKnows == appRunning <=> Active # {}

\* A started test ends in the app, stopped or not, unless it is left paused;
\* a second click on pause, retest's timers and failures cannot strand it.
TestEnds == <>[]~isPaused => (appRunning ~> ~appRunning)

\* netspeedd-spec.md:1523-1524: the running state shows "pause"; the label
\* is "Resume" exactly while the test is halted.
PauseLabelTells == appRunning /\ appPaused => isPaused

\* netspeed-ui-spec.md:762: retest "resets state and reruns everything".
RetestReruns ==
  <>[]~isPaused => \A r \in 1 .. MaxRuns - 1 : r \in aborted ~> run[r + 1].phase # "unborn"
=============================================================================
