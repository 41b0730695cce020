----------------------------- MODULE ResultsPage -----------------------------
(***************************************************************************)
(* What the page keeps and shows of the results (web/js/app.js), composed  *)
(* with AppController: the callbacks that collect samples, handleComplete, *)
(* resetResults, links that are shared, and the view of a shared link.     *)
(*                                                                         *)
(* A sample, a summary or a card is represented by the run it comes from.  *)
(***************************************************************************)
EXTENDS AppController

Shared == MaxRuns + 1  \* the origin of what a link shows that was opened

\* Parts of the page: speeds, latency, grades, sparklines and grids; the rows
\* of the loaded-latency tables; score, estimate, confidence, the packet loss
\* details; and the loss pattern.
Cards == {"hero", "tables", "score", "pattern"}

VARIABLES
  samples,  \* runs with samples in state.downloadSamples, ...latencySamples
  summary,  \* the run of state.summary, state.quality, ..., or None
  lossless, \* runs whose packet loss test failed: their results lack a pattern
  shown,    \* the runs that each card shows
  link      \* the runs of the summary and of the samples in the last link

resultVars == <<samples, summary, lossless, shown, link>>
pageVars   == <<vars, resultVars>>

Origin == Run \cup {Shared}
NoLink == [summary |-> None, samples |-> {}]

PageTypeOK ==
  /\ TypeOK
  /\ samples \subseteq Run /\ summary \in Run \cup {None} /\ lossless \subseteq Run
  /\ shown \in [Cards -> SUBSET Origin]
  /\ link \in [summary : Run \cup {None}, samples : SUBSET Run]

\* displaySharedResults fills the cards of a page that is opened by a link;
\* it keeps nothing in state.  The tables of loaded latency stay empty.
PageInit ==
  /\ Init
  /\ samples = {} /\ summary = None /\ lossless = {} /\ link = NoLink
  /\ \E origins \in {{}, {Shared}} :
       shown = [c \in Cards |-> IF c = "tables" THEN {} ELSE origins]

-----------------------------------------------------------------------------
(* The handlers of the page *)

\* Mutant: the results of the test before are kept.
ResetSamples ==
  /\ samples' = {}
  /\ shown' = [shown EXCEPT !["hero"] = {}]
  /\ UNCHANGED summary

\* resetResults: state, hero values, grades, sparklines and grids.
ResetResults ==
  /\ samples' = {} /\ summary' = None
  /\ shown' = [shown EXCEPT !["hero"] = {}]

\* The sample callbacks that a step of run r may have made: those of a loaded
\* phase that fails may have been made or not. (A parallel batch whose probes
\* all fail hands over a made-up sample of 0 ms; it is one of a run that has
\* samples already, since it would not run in parallel without.)
Callbacks(r) ==
  CASE run[r].phase \in Loops  -> {IF run'[r].sampled THEN {r} ELSE {}}
    [] run[r].phase \in Loaded ->
         IF run'[r].phase \in Over THEN SUBSET {r}
         ELSE {IF run'[r].phase = run[r].phase THEN {} ELSE {r}}
    [] OTHER -> {{}}

\* handleDownloadProgress, handleUploadProgress, handleLatencyProgress
HandleSamples(runs, loaded) ==
  /\ samples' = samples \cup runs
  /\ shown' = [shown EXCEPT !["hero"]   = IF loaded THEN @ ELSE @ \cup runs,
                            !["tables"] = IF loaded THEN @ \cup runs ELSE @]

\* Mutant: a loss pattern that is missing hides the estimates too.
HandleCompleteInFull(r) ==
  /\ summary' = r
  /\ lossless' = IF run[r].at = "report" THEN lossless ELSE lossless \cup {r}
  /\ shown' = [shown EXCEPT !["hero"] = {r},
                            !["score"]   = IF r \in lossless' THEN @ ELSE {r},
                            !["pattern"] = IF r \in lossless' THEN @ ELSE {r}]

\* handleComplete: what the results lack leaves its card as it was.  The
\* packet loss test of r succeeded if r is at its report.
HandleComplete(r) ==
  /\ summary' = r
  /\ lossless' = IF run[r].at = "report" THEN lossless ELSE lossless \cup {r}
  /\ shown' = [shown EXCEPT !["hero"] = {r}, !["score"] = {r},
                            !["pattern"] = IF r \in lossless' THEN @ ELSE {r}]

-----------------------------------------------------------------------------
(* The steps of the controller, with what they do to the results *)

PageStart ==
  /\ ClickStart \/ RetestFires
  /\ IF appRunning THEN UNCHANGED <<samples, summary, shown>> ELSE ResetResults
  /\ UNCHANGED <<lossless, link>>

PageClicks == (TogglePause \/ Retest) /\ UNCHANGED resultVars

PageEngine(r) ==
  /\ Engine(r)
  /\ IF run'[r].phase = "completed" THEN HandleComplete(r) /\ UNCHANGED samples
     ELSE /\ \E runs \in Callbacks(r) : HandleSamples(runs, run[r].phase \in Loaded)
          /\ UNCHANGED <<summary, lossless>>
  /\ UNCHANGED link

\* The callbacks are those of the page, whichever test runs by now.
PageStray(r) ==
  /\ Stray(r)
  /\ IF run' = run THEN HandleSamples({r}, TRUE) ELSE UNCHANGED <<samples, shown>>
  /\ UNCHANGED <<summary, lossless, link>>

\* shareResults: the button is enabled when no test runs and one was made;
\* without a summary nothing happens.
ShareResults ==
  /\ ~appRunning /\ Quiet /\ \E r \in Run : run[r].phase # "unborn"
  /\ summary # None
  /\ link' = [summary |-> summary, samples |-> samples]
  /\ UNCHANGED <<vars, samples, summary, lossless, shown>>

PageNext ==
  \/ PageStart \/ PageClicks \/ ShareResults
  \/ \E r \in Run : PageEngine(r) \/ PageStray(r)

PageSpec ==
  /\ PageInit /\ [][PageNext]_pageVars
  /\ WF_pageVars(PageStart /\ RetestFires) /\ \A r \in Run : WF_pageVars(PageEngine(r))

-----------------------------------------------------------------------------
(* Properties *)

\* A link carries the summary of a test that was completed, and with it only
\* samples of that test: resetResults and the guards keep out every other
\* run's, also after retests, except those of a probe that an earlier test
\* which was cut short has left in flight (app.js:397-408, 571, 2145).
LinkIsOfOneTest ==
  link # NoLink =>
    /\ link.summary # None /\ run[link.summary].phase = "completed"
    /\ \A r \in link.samples \ {link.summary} :
         r < link.summary /\ run[r].phase \in {"failed", "aborted"}

\* While results are on display, what the page shows is what is shared: the
\* hero values and every card are of the test of state.summary, except rows
\* of earlier tests in the tables, and except the loss pattern when this
\* test could not measure it (app.js:713-775).
CardsShowSummary ==
  summary # None =>
    /\ shown["hero"] = {summary} /\ shown["score"] = {summary}
    /\ shown["pattern"] = {summary} \/ summary \in lossless

\* netspeed-ui-spec.md:762: a retest "resets state", so every card that
\* shows anything shows the test whose results are on display.
CardsAreReset ==
  summary # None => \A c \in Cards : shown[c] \subseteq {summary}

\* netspeed-ui-spec.md:764: share is offered; a test that failed has nothing.
ShareEnabled == ~appRunning /\ Active = {} /\ run[1].phase # "unborn" => summary # None
=============================================================================
