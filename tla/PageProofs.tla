----------------------------- MODULE PageProofs ------------------------------
(***************************************************************************)
(* Proofs about a test in the browser, for any number of runs, passes and  *)
(* retests: the engine with any caller of its interface (SpeedTestEngine), *)
(* the app that calls it (AppController), and the page that shows what it  *)
(* reports (ResultsPage).  Each layer extends the one below, and so does   *)
(* its invariant.                                                          *)
(***************************************************************************)
EXTENDS ResultsPage, FiniteSetTheorems, TLAPS

-----------------------------------------------------------------------------
(***************************************************************************)
(* The engine.                                                             *)
(*                                                                         *)
(* Shape says which position belongs to which phase and that a run that    *)
(* makes a pass has one left; with it, a step of a run is one of two       *)
(* things (RunEffect): the run goes on and leaves the engine's variables   *)
(* alone, or it ends and its finally block clears them.  The rest follows  *)
(* from RunEffect, without looking at the fourteen actions again.          *)
(***************************************************************************)

RecordShape(rec) ==
  /\ rec.phase \notin Working => rec.at \in {"none", "stray"} /\ rec.sigs = {}
  /\ rec.at = "stray" => rec.phase \in {"failed", "aborted"}
  /\ rec.phase = "meta" => rec.at = "request" /\ rec.sigs = {}
  /\ rec.phase \in Loops => rec.at \in {"head", "request", "poll"}
  /\ rec.phase = "warmup" => rec.at \in {"head", "request"}
  /\ rec.phase \in Loaded => rec.at \in {"head", "stagger", "all"}
  /\ rec.phase = "packetLoss" => rec.at \in {"head", "setup", "sending", "late", "report"}
  /\ rec.at \in {"request", "poll", "stagger"} => rec.left > 0
  /\ rec.phase \in Loaded /\ rec.at = "head" => rec.left > 0

Shape ==
  /\ \A r \in Run : RecordShape(run[r])
  /\ owner = None => \A r \in Run : run[r].phase = "unborn"

\* What a step of run r that leaves it in rec does to the engine.
RunEffect(r, rec) ==
  /\ run[r].phase \in Working
  /\ rec \in RunState /\ RecordShape(rec)
  /\ run' = [run EXCEPT ![r] = rec]
  /\ \/ rec.phase \in Working /\ UNCHANGED <<isRunning, controller>>
     \/ rec.phase \in Over /\ isRunning' = FALSE /\ controller' = None
  /\ UNCHANGED <<isPaused, aborted, owner>>
  /\ mixed' = mixed \/ Stores(r)

USE DEF Run, None

-----------------------------------------------------------------------------
(* Phases and records *)

LEMMA PhaseNames ==
  /\ Working = {"meta", "latency", "warmup", "download", "upload", "loadedDown", "loadedUp",
                "packetLoss"}
  /\ DOMAIN After = {"latency", "warmup", "download", "upload", "loadedDown", "loadedUp"}
  /\ After["latency"] = "warmup" /\ After["warmup"] = "download" /\ After["download"] = "upload"
  /\ After["upload"] = "loadedDown" /\ After["loadedDown"] = "loadedUp"
  /\ After["loadedUp"] = "packetLoss"
BY DEF Working, After

LEMMA PhaseFollows ==
  ASSUME NEW p \in Loops \cup Loaded \cup {"warmup"}
  PROVE  After[p] \in Loops \cup Loaded \cup {"warmup", "packetLoss"}
BY PhaseNames DEF Loops, Loaded

LEMMA Positions ==
  /\ \A a \in {"none", "head", "request", "poll", "stagger", "all", "setup", "sending", "late",
               "report", "stray"} : a \in At
  /\ \A p \in Working \cup Over : p \in {"unborn"} \cup Working \cup Over
  /\ Loops \subseteq Working /\ Loaded \subseteq Working
  /\ 0 \in 0 .. Units /\ Units \in 0 .. Units /\ Units > 0
  /\ \A n \in 1 .. Units : n - 1 \in 0 .. Units
BY PhaseNames, BoundsAssumption DEF At, Loops, Loaded

\* The engine's variables, once the record of the run is known.
LEMMA Proceeds ==
  ASSUME NEW r \in Run, run[r].phase \in Working, NEW rec,
         rec \in RunState, RecordShape(rec), rec.phase \in Working, Become(r, rec),
         UNCHANGED <<isRunning, isPaused, controller, aborted, owner>>,
         mixed' = mixed \/ Stores(r)
  PROVE  \E q : RunEffect(r, q)
<1>1. RunEffect(r, rec)
  BY DEF RunEffect, Become
<1> QED
  BY <1>1

\* A phase begins.
LEMMA EnterShape ==
  ASSUME NEW r \in Run, run[r] \in RunState, run[r].phase \in Working,
         NEW p \in Loops \cup Loaded \cup {"warmup", "packetLoss"},
         Enter(r, p)
  PROVE  \E rec : RunEffect(r, rec)
<1> DEFINE rec == [run[r] EXCEPT !.phase = p, !.at = "head", !.left = Units, !.sigs = {}]
<1>1. p \in Working
  BY PhaseNames DEF Loops, Loaded
<1>2. p \in {"unborn"} \cup Working \cup Over /\ "head" \in At /\ Units \in 0 .. Units
  BY <1>1, Positions
<1>3. rec \in RunState /\ rec.phase = p /\ rec.at = "head" /\ rec.left = Units
  BY <1>2, Zenon DEF RunState
<1>4. Become(r, rec) /\ UNCHANGED <<isRunning, isPaused, controller, aborted, owner, mixed>>
  BY DEF Enter
<1> HIDE DEF rec
<1>5. RecordShape(rec)
  BY <1>1, <1>3, Positions DEF RecordShape, Loops, Loaded
<1> QED
  BY <1>1, <1>3, <1>4, <1>5, Proceeds

\* A run ends.
LEMMA EndsShape ==
  ASSUME NEW r \in Run, run[r] \in RunState, run[r].phase \in Working,
         NEW how \in Over, how = "completed" => run[r].phase \notin Loaded,
         Ends(r, how), mixed' = mixed \/ Stores(r)
  PROVE  \E rec : RunEffect(r, rec)
<1>0. PICK at \in LeftBy(r) :
        Become(r, [run[r] EXCEPT !.phase = how, !.at = at, !.left = 0, !.sigs = {}])
  BY DEF Ends
<1> DEFINE rec == [run[r] EXCEPT !.phase = how, !.at = at, !.left = 0, !.sigs = {}]
<1>1. how \in {"unborn"} \cup Working \cup Over /\ at \in At /\ 0 \in 0 .. Units
  BY Positions DEF LeftBy
<1>2. rec \in RunState /\ rec.phase = how /\ rec.at = at /\ rec.sigs = {}
  BY <1>1, Zenon DEF RunState
<1>3. /\ run' = [run EXCEPT ![r] = rec] /\ isRunning' = FALSE /\ controller' = None
      /\ UNCHANGED <<isPaused, aborted, owner>>
  BY <1>0 DEF Ends, Become
<1> HIDE DEF rec
<1>4. RecordShape(rec)
  BY <1>0, <1>2, PhaseNames DEF RecordShape, Loops, Loaded, Over, LeftBy
<1> QED
  BY <1>2, <1>3, <1>4 DEF RunEffect

\* A request was rejected.
LEMMA RejectedShape ==
  ASSUME NEW r \in Run, run[r] \in RunState, run[r].left > 0,
         run[r].phase \in Loops \cup {"warmup"}
  PROVE  /\ Rejected(r) \in RunState /\ RecordShape(Rejected(r))
         /\ Rejected(r).phase = run[r].phase
<1> DEFINE n == IF run[r].phase = "latency" /\ run[r].left = Units THEN 0 ELSE run[r].left - 1
<1>1. run[r].left \in 0 .. Units
  BY Zenon DEF RunState
<1>2. n \in 0 .. Units /\ "head" \in At
  BY <1>1, Positions
<1>3. /\ Rejected(r) \in RunState
      /\ Rejected(r).phase = run[r].phase /\ Rejected(r).at = "head"
  BY <1>2, Zenon DEF RunState, Rejected
<1> QED
  BY <1>3, PhaseNames DEF RecordShape, Loops, Loaded

\* A request is made.
LEMMA FetchShape ==
  ASSUME NEW r \in Run, run[r] \in RunState, run[r].left > 0,
         run[r].phase \in Loops \cup {"warmup"}, controller \in Run \cup {None}, Fetch(r)
  PROVE  \E rec : RunEffect(r, rec)
<1> DEFINE asked == [run[r] EXCEPT !.at = "request", !.sigs = {controller}]
           rec == IF Aborted THEN Rejected(r) ELSE asked
<1>1. asked \in RunState /\ asked.phase = run[r].phase /\ asked.at = "request"
      /\ asked.left = run[r].left
  <2>1. "request" \in At /\ {controller} \in SUBSET (Run \cup {None})
    BY Positions
  <2> QED
    BY <2>1, Zenon DEF RunState
<1>2. Become(r, rec)
  BY Zenon DEF Fetch
<1> HIDE DEF asked
<1>3. RecordShape(asked)
  BY <1>1, PhaseNames DEF RecordShape, Loops, Loaded
<1>4. rec \in RunState /\ RecordShape(rec) /\ rec.phase = run[r].phase
  BY <1>1, <1>3, RejectedShape
<1>5. run[r].phase \in Working
  BY Positions, PhaseNames
<1>6. UNCHANGED <<isRunning, isPaused, controller, aborted, owner, mixed>>
  BY DEF Fetch
<1> HIDE DEF rec
<1> QED
  BY <1>2, <1>4, <1>5, <1>6, Proceeds

\* A step that only moves a run within its phase.
LEMMA MoveShape ==
  ASSUME NEW r \in Run, run[r] \in RunState, run[r].phase \in Working,
         NEW at \in At \ {"none"}, MoveTo(r, at),
         RecordShape([run[r] EXCEPT !.at = at])
  PROVE  \E rec : RunEffect(r, rec)
<1> DEFINE rec == [run[r] EXCEPT !.at = at]
<1>1. rec \in RunState /\ rec.phase = run[r].phase
  BY Zenon DEF RunState
<1>2. Become(r, rec) /\ UNCHANGED <<isRunning, isPaused, controller, aborted, owner, mixed>>
  BY DEF MoveTo
<1>3. RecordShape(rec)
  OBVIOUS
<1> HIDE DEF rec
<1> QED
  BY <1>1, <1>2, <1>3, Proceeds

-----------------------------------------------------------------------------
(* One lemma per action that does more than enter, end or fetch *)

LEMMA LoopAnsweredShape ==
  ASSUME NEW r \in Run, run[r] \in RunState, RecordShape(run[r]), LoopAnswered(r)
  PROVE  \E rec : RunEffect(r, rec)
<1>1. run[r].phase \in Loops /\ run[r].at = "request" /\ run[r].left > 0
  BY DEF LoopAnswered, RecordShape
<1>2. run[r].phase \in Working
  BY <1>1, Positions
<1>3. UNCHANGED <<isRunning, isPaused, controller, aborted, owner>>
  BY DEF LoopAnswered
<1>4. CASE Become(r, [run[r] EXCEPT !.at = "head", !.left = @ - 1, !.sampled = TRUE]) /\ Stores(r)
  <2> DEFINE rec == [run[r] EXCEPT !.at = "head", !.left = @ - 1, !.sampled = TRUE]
  <2>1. run[r].left \in 0 .. Units
    BY Zenon DEF RunState
  <2>2. run[r].left - 1 \in 0 .. Units /\ "head" \in At /\ TRUE \in BOOLEAN
    BY <2>1, <1>1, Positions
  <2>3. rec \in RunState /\ rec.phase = run[r].phase /\ rec.at = "head"
    BY <2>2, Zenon DEF RunState
  <2>4. Become(r, rec)
    BY <1>4
  <2> HIDE DEF rec
  <2>5. RecordShape(rec)
    BY <1>1, <2>3, PhaseNames DEF RecordShape, Loops, Loaded
  <2> QED
    BY <1>2, <1>3, <1>4, <2>3, <2>4, <2>5, Proceeds
<1>5. CASE Become(r, Rejected(r)) /\ UNCHANGED mixed
  BY <1>1, <1>2, <1>3, <1>5, RejectedShape, Proceeds
<1> QED
  BY <1>4, <1>5, Zenon DEF LoopAnswered

LEMMA WarmupAnsweredShape ==
  ASSUME NEW r \in Run, run[r] \in RunState, RecordShape(run[r]), WarmupAnswered(r)
  PROVE  \E rec : RunEffect(r, rec)
<1> DEFINE rec == [run[r] EXCEPT !.at = "head", !.left = @ - 1]
<1>1. run[r].phase = "warmup" /\ run[r].at = "request" /\ run[r].left > 0
  BY DEF WarmupAnswered, RecordShape
<1>2. run[r].left \in 0 .. Units
  BY Zenon DEF RunState
<1>3. run[r].left - 1 \in 0 .. Units /\ "head" \in At
  BY <1>1, <1>2, Positions
<1>4. rec \in RunState /\ rec.phase = run[r].phase /\ rec.at = "head"
  BY <1>3, Zenon DEF RunState
<1>5. Become(r, rec) /\ UNCHANGED <<isRunning, isPaused, controller, aborted, owner, mixed>>
  BY DEF WarmupAnswered
<1> HIDE DEF rec
<1>6. RecordShape(rec) /\ run[r].phase \in Working
  BY <1>1, <1>4, PhaseNames DEF RecordShape, Loops, Loaded
<1> QED
  BY <1>4, <1>5, <1>6, Proceeds

LEMMA LoadedHeadShape ==
  ASSUME NEW r \in Run, run[r] \in RunState, RecordShape(run[r]),
         controller \in Run \cup {None}, LoadedHead(r)
  PROVE  \E rec : RunEffect(r, rec)
<1> DEFINE rec == [run[r] EXCEPT !.at = "stagger", !.sigs = {controller}, !.doomed = Aborted]
<1>1. run[r].phase \in Loaded /\ run[r].at = "head" /\ run[r].left > 0
  BY DEF LoadedHead, RecordShape
<1>2. Aborted \in BOOLEAN /\ {controller} \in SUBSET (Run \cup {None}) /\ "stagger" \in At
  BY Positions DEF Aborted
<1>3. /\ rec \in RunState /\ rec.phase = run[r].phase /\ rec.at = "stagger"
      /\ rec.left = run[r].left
  BY <1>2, Zenon DEF RunState
<1>4. Become(r, rec) /\ UNCHANGED <<isRunning, isPaused, controller, aborted, owner, mixed>>
  BY DEF LoadedHead
<1> HIDE DEF rec
<1>5. RecordShape(rec) /\ run[r].phase \in Working
  BY <1>1, <1>3, PhaseNames DEF RecordShape, Loops, Loaded
<1> QED
  BY <1>3, <1>4, <1>5, Proceeds

LEMMA LoadedProbeShape ==
  ASSUME NEW r \in Run, run[r] \in RunState, RecordShape(run[r]),
         controller \in Run \cup {None}, LoadedProbe(r)
  PROVE  \E rec : RunEffect(r, rec)
<1> DEFINE next == IF run[r].left = 1 THEN "all" ELSE "stagger"
           over == [run[r] EXCEPT !.at = "all"]
           more == [run[r] EXCEPT !.sigs = @ \cup {controller}, !.left = @ - 1, !.at = next]
           rec == IF Aborted THEN over ELSE more
<1>1. run[r].phase \in Loaded /\ run[r].at = "stagger" /\ run[r].left > 0
  BY PhaseNames DEF LoadedProbe, RecordShape, RunState, Loops, Loaded
<1>2. /\ run[r].left \in 0 .. Units /\ run[r].sigs \in SUBSET (Run \cup {None})
  BY Zenon DEF RunState
<1>3. /\ run[r].left - 1 \in 0 .. Units /\ run[r].sigs \cup {controller} \in SUBSET (Run \cup {None})
      /\ "all" \in At /\ next \in At
      /\ run[r].left = 1 \/ run[r].left - 1 > 0
  BY <1>1, <1>2, Positions
<1>4. over \in RunState /\ over.phase = run[r].phase /\ over.at = "all"
  BY <1>3, Zenon DEF RunState
<1>5. /\ more \in RunState /\ more.phase = run[r].phase /\ more.at = next
      /\ more.left = run[r].left - 1
  <2> HIDE DEF next
  <2> QED
    BY <1>3, Zenon DEF RunState
<1>6. Become(r, rec) /\ UNCHANGED <<isRunning, isPaused, controller, aborted, owner, mixed>>
  BY Zenon DEF LoadedProbe
<1> HIDE DEF over, more
<1>7. RecordShape(over) /\ RecordShape(more) /\ run[r].phase \in Working
  BY <1>1, <1>3, <1>4, <1>5, PhaseNames DEF RecordShape, Loops, Loaded
<1>8. rec \in RunState /\ RecordShape(rec) /\ rec.phase = run[r].phase
  BY <1>4, <1>5, <1>7
<1> HIDE DEF rec
<1> QED
  BY <1>6, <1>7, <1>8, Proceeds

LEMMA LoadedSettlesShape ==
  ASSUME NEW r \in Run, run[r] \in RunState, RecordShape(run[r]), LoadedSettles(r)
  PROVE  \E rec : RunEffect(r, rec)
<1>1. run[r].phase \in Loaded /\ run[r].phase \in Working
  BY PhaseNames DEF LoadedSettles, RecordShape, RunState, Loops, Loaded
<1>2. ASSUME Become(r, [run[r] EXCEPT !.phase = After[@], !.at = "head", !.left = Units,
                                      !.sigs = {}, !.sampled = TRUE]),
             Stores(r), UNCHANGED <<isRunning, isPaused, controller, aborted, owner>>
      PROVE  \E rec : RunEffect(r, rec)
  <2> DEFINE rec == [run[r] EXCEPT !.phase = After[@], !.at = "head", !.left = Units,
                                   !.sigs = {}, !.sampled = TRUE]
  <2>1. After[run[r].phase] \in {"loadedUp", "packetLoss"} /\ After[run[r].phase] \in Working
    BY <1>1, PhaseNames DEF Loaded
  <2>2. /\ After[run[r].phase] \in {"unborn"} \cup Working \cup Over /\ "head" \in At
        /\ Units \in 0 .. Units /\ TRUE \in BOOLEAN
    BY <2>1, Positions
  <2>3. /\ rec \in RunState /\ rec.phase = After[run[r].phase]
        /\ rec.at = "head" /\ rec.left = Units
    BY <2>2, Zenon DEF RunState
  <2>4. Become(r, rec)
    BY <1>2
  <2> HIDE DEF rec
  <2>5. RecordShape(rec)
    BY <2>1, <2>3, Positions DEF RecordShape, Loops, Loaded
  <2> QED
    BY <1>1, <1>2, <2>1, <2>3, <2>4, <2>5, Proceeds
<1>3. CASE \E how \in {"failed", "aborted"} : Ends(r, how) /\ UNCHANGED mixed
  <2>1. PICK how \in {"failed", "aborted"} : Ends(r, how) /\ UNCHANGED mixed
    BY <1>3
  <2>2. how \in Over /\ how # "completed"
    BY DEF Over
  <2> QED
    BY <1>1, <2>1, <2>2, EndsShape
<1> QED
  BY <1>2, <1>3, Zenon DEF LoadedSettles

LEMMA LossShape ==
  ASSUME NEW r \in Run, run[r] \in RunState, RecordShape(run[r]),
         LossHead(r) \/ LossConnects(r) \/ LossSends(r) \/ LossCounts(r) \/ LossReported(r)
  PROVE  \E rec : RunEffect(r, rec)
<1>1. run[r].phase = "packetLoss" /\ run[r].phase \in Working
  BY PhaseNames DEF LossHead, LossConnects, LossSends, LossCounts, LossReported, RecordShape,
     RunState, Loops, Loaded
<1>2. ASSUME Completes(r), mixed' = mixed \/ Stores(r)
      PROVE  \E rec : RunEffect(r, rec)
  <2>1. "completed" \in Over /\ run[r].phase \notin Loaded
    BY <1>1 DEF Over, Loaded
  <2> QED
    BY <1>1, <1>2, <2>1, EndsShape DEF Completes
<1>3. ASSUME NEW at \in {"setup", "sending", "late", "report"}, MoveTo(r, at)
      PROVE  \E rec : RunEffect(r, rec)
  <2> DEFINE rec == [run[r] EXCEPT !.at = at]
  <2>1. at \in At
    BY Positions
  <2>2. rec.phase = run[r].phase /\ rec.at = at
    BY <2>1, Zenon DEF RunState
  <2>3. RecordShape(rec)
    <3> HIDE DEF rec
    <3> QED
      BY <1>1, <2>2, PhaseNames DEF RecordShape, Loops, Loaded
  <2> QED
    BY <1>1, <1>3, <2>1, <2>3, MoveShape
<1>4. CASE LossHead(r)
  BY <1>3, <1>4 DEF LossHead
<1>5. CASE LossConnects(r)
  BY <1>2, <1>3, <1>5 DEF LossConnects, LossUnavailable
<1>6. CASE LossSends(r)
  <2>1. UNCHANGED <<isRunning, isPaused, controller, aborted, owner, mixed>>
    BY <1>6 DEF LossSends
  <2>2. CASE run[r].left = 0 \/ Aborted
    <3>1. MoveTo(r, "late")
      BY <1>6, <2>2 DEF LossSends, MoveTo
    <3> QED
      BY <1>3, <3>1
  <2>3. CASE ~(run[r].left = 0 \/ Aborted)
    <3> DEFINE rec == [run[r] EXCEPT !.left = @ - 1]
    <3>1. run[r].left \in 0 .. Units
      BY Zenon DEF RunState
    <3>2. run[r].left - 1 \in 0 .. Units
      BY <2>3, <3>1, Positions
    <3>3. rec \in RunState /\ rec.phase = run[r].phase /\ rec.at = run[r].at
      BY <3>2, Zenon DEF RunState
    <3>4. Become(r, rec) /\ run[r].at = "sending"
      BY <1>6, <2>3, Zenon DEF LossSends
    <3> HIDE DEF rec
    <3>5. RecordShape(rec)
      BY <1>1, <3>3, <3>4, PhaseNames DEF RecordShape, Loops, Loaded
    <3> QED
      BY <1>1, <2>1, <3>3, <3>4, <3>5, Proceeds
  <2> QED
    BY <2>2, <2>3
<1>7. CASE LossCounts(r)
  <2>1. ASSUME Become(r, [run[r] EXCEPT !.at = "report", !.sampled = TRUE]), Stores(r),
               UNCHANGED <<isRunning, isPaused, controller, aborted, owner>>
        PROVE  \E rec : RunEffect(r, rec)
    <3> DEFINE rec == [run[r] EXCEPT !.at = "report", !.sampled = TRUE]
    <3>1. "report" \in At /\ TRUE \in BOOLEAN
      BY Positions
    <3>2. rec \in RunState /\ rec.phase = run[r].phase /\ rec.at = "report"
      BY <3>1, Zenon DEF RunState
    <3>3. Become(r, rec)
      BY <2>1
    <3> HIDE DEF rec
    <3>4. RecordShape(rec)
      BY <1>1, <3>2, PhaseNames DEF RecordShape, Loops, Loaded
    <3> QED
      BY <1>1, <2>1, <3>2, <3>3, <3>4, Proceeds
  <2> QED
    BY <1>2, <1>7, <2>1, Zenon DEF LossCounts, LossUnavailable
<1>8. CASE LossReported(r)
  BY <1>2, <1>8 DEF LossReported
<1> QED
  BY <1>4, <1>5, <1>6, <1>7, <1>8

\* The other actions, which enter a phase, make a request or wait.
LEMMA HeadShape ==
  ASSUME NEW r \in Run, run[r] \in RunState, RecordShape(run[r]), controller \in Run \cup {None},
         MetaAnswered(r) \/ LoopHead(r) \/ PauseEnds(r) \/ WarmupHead(r)
  PROVE  \E rec : RunEffect(r, rec)
<1>1. CASE MetaAnswered(r)
  <2>1. run[r].phase \in Working /\ "latency" \in Loops /\ "failed" \in Over
    BY <1>1, PhaseNames DEF MetaAnswered, Loops, Over
  <2> QED
    BY <1>1, <2>1, EnterShape, EndsShape DEF MetaAnswered
<1>2. CASE LoopHead(r)
  <2>1. run[r].phase \in Loops /\ run[r].phase \in Working
    BY <1>2, Positions DEF LoopHead
  <2>2. CASE Enter(r, After[run[r].phase])
    BY <2>1, <2>2, PhaseFollows, EnterShape
  <2>3. CASE run[r].left > 0 /\ MoveTo(r, "poll")
    <3> DEFINE rec == [run[r] EXCEPT !.at = "poll"]
    <3>1. rec.phase = run[r].phase /\ rec.at = "poll" /\ rec.left = run[r].left
      BY Positions, Zenon DEF RunState
    <3>2. RecordShape(rec)
      <4> HIDE DEF rec
      <4> QED
        BY <2>1, <2>3, <3>1, PhaseNames DEF RecordShape, Loops, Loaded
    <3>3. "poll" \in At \ {"none"}
      BY DEF At
    <3> QED
      BY <2>1, <2>3, <3>2, <3>3, MoveShape
  <2>4. CASE run[r].left > 0 /\ Fetch(r)
    BY <2>1, <2>4, FetchShape
  <2> QED
    BY <1>2, <2>2, <2>3, <2>4 DEF LoopHead
<1>3. CASE PauseEnds(r)
  <2>1. run[r].phase \in Loops /\ run[r].left > 0
    BY <1>3, PhaseNames DEF PauseEnds, RecordShape, RunState, Loops, Loaded
  <2> QED
    BY <1>3, <2>1, FetchShape DEF PauseEnds
<1>4. CASE WarmupHead(r)
  <2>1. run[r].phase = "warmup" /\ run[r].phase \in Working
    BY <1>4, PhaseNames DEF WarmupHead
  <2>2. run[r].left \in 0 .. Units
    BY Zenon DEF RunState
  <2>3. run[r].left = 0 \/ run[r].left > 0
    BY <2>2, BoundsAssumption
  <2>4. CASE run[r].left = 0
    BY <1>4, <2>1, <2>4, PhaseFollows, EnterShape DEF WarmupHead
  <2>5. CASE run[r].left > 0
    BY <1>4, <2>1, <2>5, FetchShape DEF WarmupHead
  <2> QED
    BY <2>3, <2>4, <2>5
<1> QED
  BY <1>1, <1>2, <1>3, <1>4

\* What any step of a run does: the one fact about RunStep that the
\* invariants below use.
LEMMA StepEffect ==
  ASSUME EngineTypeOK, Shape, NEW r \in Run, RunStep(r)
  PROVE  \E rec : RunEffect(r, rec)
<1>1. run[r] \in RunState /\ RecordShape(run[r]) /\ controller \in Run \cup {None}
  BY DEF EngineTypeOK, Shape
<1> QED
  BY <1>1, HeadShape, LoopAnsweredShape, WarmupAnsweredShape, LoadedHeadShape, LoadedProbeShape,
     LoadedSettlesShape, LossShape
  DEF RunStep

-----------------------------------------------------------------------------
(* The steps of the interface *)

\* start: one run becomes active, and the engine's variables are its own.
LEMMA StartEffect ==
  ASSUME EngineTypeOK, Shape, NEW r \in Run, Start(r)
  PROVE  \E rec \in RunState :
           /\ RecordShape(rec) /\ rec.phase = "meta" /\ ~isRunning
           /\ run' = [run EXCEPT ![r] = rec]
           /\ isRunning' = TRUE /\ isPaused' = FALSE /\ controller' = r /\ owner' = r
           /\ UNCHANGED <<aborted, mixed>>
<1> DEFINE rec == [run[r] EXCEPT !.phase = "meta", !.at = "request", !.left = Units]
<1>1. run[r] \in RunState /\ run[r].phase = "unborn" /\ run[r].sigs = {}
  BY PhaseNames DEF EngineTypeOK, Shape, RecordShape, Start
<1>2. "meta" \in {"unborn"} \cup Working \cup Over /\ "request" \in At /\ Units \in 0 .. Units
  BY Positions, PhaseNames
<1>3. /\ rec \in RunState /\ rec.phase = "meta" /\ rec.at = "request"
      /\ rec.left = Units /\ rec.sigs = run[r].sigs
  BY <1>1, <1>2, Zenon DEF RunState
<1>4. /\ run' = [run EXCEPT ![r] = rec] /\ ~isRunning
      /\ isRunning' = TRUE /\ isPaused' = FALSE /\ controller' = r /\ owner' = r
      /\ UNCHANGED <<aborted, mixed>>
  BY DEF Start, Become, MayStart
<1> HIDE DEF rec
<1>5. RecordShape(rec)
  BY <1>1, <1>3, Positions, PhaseNames DEF RecordShape, Loops, Loaded
<1> QED
  BY <1>3, <1>4, <1>5

\* stop: no run changes its phase.
LEMMA StopEffect ==
  ASSUME EngineTypeOK, Shape, Stop
  PROVE  /\ run' \in [Run -> RunState]
         /\ \A r \in Run : RecordShape(run'[r]) /\ run'[r].phase = run[r].phase
<1>1. PICK hit \in SUBSET Listening :
        run' = [r \in Run |-> IF r \notin hit THEN run[r]
                              ELSE IF run[r].at = "request" THEN Rejected(r)
                              ELSE [run[r] EXCEPT !.doomed = TRUE]]
  BY DEF Stop
<1>2. ASSUME NEW r \in Run
      PROVE  run'[r] \in RunState /\ RecordShape(run'[r]) /\ run'[r].phase = run[r].phase
  <2>1. run[r] \in RunState /\ RecordShape(run[r])
    BY DEF EngineTypeOK, Shape
  <2>2. CASE r \notin hit
    BY <1>1, <2>1, <2>2
  <2>3. CASE r \in hit /\ run[r].at = "request"
    <3>1. run'[r] = Rejected(r)
      BY <1>1, <2>3
    <3>2. run[r].phase \in Loops \cup {"warmup"} /\ run[r].left > 0
      BY <2>1, <2>3, PhaseNames DEF Listening, RecordShape, RunState, Loops, Loaded
    <3> QED
      BY <2>1, <3>1, <3>2, RejectedShape
  <2>4. CASE r \in hit /\ run[r].at # "request"
    <3> DEFINE rec == [run[r] EXCEPT !.doomed = TRUE]
    <3>1. run'[r] = rec
      BY <1>1, <2>4
    <3>2. /\ rec \in RunState /\ rec.phase = run[r].phase /\ rec.at = run[r].at
          /\ rec.left = run[r].left /\ rec.sigs = run[r].sigs
      <4>1. TRUE \in BOOLEAN
        OBVIOUS
      <4> QED
        BY <2>1, <4>1, Zenon DEF RunState
    <3> HIDE DEF rec
    <3> QED
      BY <2>1, <3>1, <3>2 DEF RecordShape
  <2> QED
    BY <2>2, <2>3, <2>4
<1>3. run' \in [Run -> RunState]
  <2>1. run' = [r \in Run |-> run'[r]]
    BY <1>1
  <2> QED
    BY <1>2, <2>1
<1> QED
  BY <1>2, <1>3

-----------------------------------------------------------------------------
(* The invariant *)

\* While nothing was aborted, an active run has the engine to itself, but
\* for the probes of runs that failed.
Exclusive ==
  aborted = {} => /\ mixed # {} => CutShort
                  /\ \A r \in Active : isRunning /\ controller = r /\ owner = r

EngineInv == EngineTypeOK /\ Shape /\ IdleIsUnlocked /\ Exclusive

\* A run that was cut short remains so.
LEMMA StaysCutShort ==
  ASSUME CutShort, NEW r \in Run, run[r].phase \notin {"failed", "aborted"},
         \A q \in Run \ {r} : run'[q].phase = run[q].phase
  PROVE  CutShort'
BY DEF CutShort

LEMMA EngineInitInv == EngineInit => EngineInv
<1> SUFFICES ASSUME EngineInit PROVE EngineInv
  OBVIOUS
<1> DEFINE rec == [phase |-> "unborn", at |-> "none", left |-> 0, sigs |-> {},
                   doomed |-> FALSE, sampled |-> FALSE]
<1>1. rec \in RunState /\ rec.phase = "unborn" /\ rec.at = "none" /\ rec.sigs = {}
  BY Positions DEF RunState
<1>2. run = [r \in Run |-> rec]
  BY Zenon DEF EngineInit
<1> HIDE DEF rec
<1>3. EngineTypeOK
  BY <1>1, <1>2 DEF EngineInit, EngineTypeOK
<1>4. \A r \in Run : RecordShape(run[r]) /\ run[r].phase = "unborn"
  BY <1>1, <1>2, PhaseNames DEF RecordShape, Loops, Loaded
<1>5. Active = {}
  BY <1>4, PhaseNames DEF Active
<1> QED
  BY <1>3, <1>4, <1>5 DEF EngineInv, Shape, IdleIsUnlocked, Exclusive, EngineInit

\* Which runs a step of a run leaves active.
LEMMA RunStepActive ==
  ASSUME EngineInv, NEW r \in Run, RunStep(r)
  PROVE  /\ r \in Active /\ owner \in Run /\ owner' = owner
         /\ mixed' \subseteq Run /\ (owner = r => mixed' = mixed)
         /\ \/ run'[r].phase \in Working /\ Active' = Active
            \/ run'[r].phase \in Over /\ Active' = Active \ {r}
<1>1. PICK rec : RunEffect(r, rec)
  BY StepEffect DEF EngineInv
<1>2. run' = [run EXCEPT ![r] = rec] /\ run \in [Run -> RunState]
  BY <1>1 DEF RunEffect, EngineInv, EngineTypeOK
<1>3. run'[r] = rec /\ \A q \in Run \ {r} : run'[q] = run[q]
  BY <1>2
<1>4. run[r].phase \in Working /\ r \in Active /\ owner \in Run
  BY <1>1, PhaseNames DEF RunEffect, EngineInv, EngineTypeOK, Shape, Active
<1>5. mixed' \subseteq Run /\ (owner = r => mixed' = mixed)
  BY <1>1, <1>4 DEF RunEffect, Stores, EngineInv, EngineTypeOK
<1>6. CASE rec.phase \in Working
  <2>1. Active' = Active
    BY <1>3, <1>4, <1>6 DEF Active
  <2> QED
    BY <1>1, <1>3, <1>4, <1>5, <1>6, <2>1 DEF RunEffect
<1>7. CASE rec.phase \in Over
  <2>1. rec.phase \notin Working
    BY <1>7, PhaseNames DEF Over
  <2>2. Active' = Active \ {r}
    BY <1>3, <1>4, <2>1 DEF Active
  <2> QED
    BY <1>1, <1>3, <1>4, <1>5, <1>7, <2>2 DEF RunEffect
<1> QED
  BY <1>1, <1>6, <1>7 DEF RunEffect

\* A step of a run.
LEMMA RunStepInv ==
  ASSUME EngineInv, NEW r \in Run, RunStep(r)
  PROVE  EngineInv'
<1>1. PICK rec : RunEffect(r, rec)
  BY StepEffect DEF EngineInv
<1>2. /\ run' = [run EXCEPT ![r] = rec] /\ run \in [Run -> RunState]
      /\ rec \in RunState /\ RecordShape(rec)
  BY <1>1 DEF RunEffect, EngineInv, EngineTypeOK
<1>3. run'[r] = rec /\ \A q \in Run \ {r} : run'[q] = run[q]
  BY <1>2
<1>4. EngineTypeOK'
  <2>1. run' \in [Run -> RunState]
    BY <1>2
  <2> QED
    BY <1>1, <2>1, RunStepActive DEF RunEffect, EngineInv, EngineTypeOK
<1>5. Shape'
  BY <1>1, <1>2, <1>3, RunStepActive DEF EngineInv, Shape
<1>6. IdleIsUnlocked'
  <2>1. CASE rec.phase \in Working
    <3>1. r \in Active'
      BY <1>2, <1>3, <2>1 DEF Active
    <3> QED
      BY <3>1 DEF IdleIsUnlocked
  <2>2. CASE isRunning' = FALSE /\ controller' = None
    BY <2>2 DEF IdleIsUnlocked
  <2> QED
    BY <1>1, <2>1, <2>2 DEF RunEffect
<1>7. Exclusive'
  <2>1. SUFFICES ASSUME aborted' = {}
                 PROVE  /\ mixed' # {} => CutShort'
                        /\ \A q \in Active' : isRunning' /\ controller' = q /\ owner' = q
    BY DEF Exclusive
  <2>2. /\ aborted = {} /\ owner = r /\ (mixed # {} => CutShort)
        /\ \A q \in Active : isRunning /\ controller = q /\ owner = q
    BY <1>1, <2>1, RunStepActive DEF RunEffect, EngineInv, Exclusive
  <2>3. (mixed' # {} => CutShort') /\ owner' = owner
    <3>1. mixed' = mixed /\ owner' = owner
      BY <2>2, RunStepActive
    <3>2. run[r].phase \notin {"failed", "aborted"}
      BY <1>1, PhaseNames DEF RunEffect
    <3> QED
      BY <1>3, <2>2, <3>1, <3>2, StaysCutShort
  <2>4. CASE rec.phase \in Working /\ UNCHANGED <<isRunning, controller>>
    <3>1. Active' \subseteq Active
      BY RunStepActive
    <3> QED
      BY <2>2, <2>3, <2>4, <3>1
  <2>5. CASE rec.phase \in Over
    <3>1. rec.phase \notin Working
      BY <2>5, PhaseNames DEF Over
    <3>2. Active' = Active \ {r}
      BY <1>3, <3>1, RunStepActive
    <3> QED
      BY <2>2, <2>3, <3>2
  <2> QED
    BY <1>1, <2>4, <2>5 DEF RunEffect
<1> QED
  BY <1>4, <1>5, <1>6, <1>7 DEF EngineInv

LEMMA StartInv ==
  ASSUME EngineInv, NEW r \in Run, Start(r)
  PROVE  EngineInv'
<1>1. PICK rec \in RunState :
        /\ RecordShape(rec) /\ rec.phase = "meta" /\ ~isRunning
        /\ run' = [run EXCEPT ![r] = rec]
        /\ isRunning' = TRUE /\ isPaused' = FALSE /\ controller' = r /\ owner' = r
        /\ UNCHANGED <<aborted, mixed>>
  BY StartEffect DEF EngineInv
<1>2. /\ run \in [Run -> RunState] /\ run'[r] = rec
      /\ \A q \in Run \ {r} : run'[q] = run[q]
  BY <1>1 DEF EngineInv, EngineTypeOK
<1>3. EngineTypeOK'
  <2>1. run' \in [Run -> RunState]
    BY <1>1, <1>2
  <2> QED
    BY <1>1, <2>1 DEF EngineInv, EngineTypeOK
<1>4. Shape'
  BY <1>1, <1>2 DEF EngineInv, Shape
<1>5. Active' = Active \cup {r}
  BY <1>1, <1>2, PhaseNames DEF Active
<1>6. IdleIsUnlocked'
  BY <1>5 DEF IdleIsUnlocked
<1>7. Exclusive'
  <2>1. run[r].phase \notin {"failed", "aborted"}
    BY DEF Start
  <2>2. Active = {} \/ aborted # {}
    BY <1>1 DEF EngineInv, Exclusive
  <2>3. mixed # {} /\ aborted = {} => CutShort'
    BY <1>2, <2>1, StaysCutShort DEF EngineInv, Exclusive
  <2> QED
    BY <1>1, <1>5, <2>2, <2>3 DEF Exclusive
<1> QED
  BY <1>3, <1>4, <1>6, <1>7 DEF EngineInv

LEMMA StopInv ==
  ASSUME EngineInv, Stop
  PROVE  EngineInv'
<1>1. /\ run' \in [Run -> RunState]
      /\ \A r \in Run : RecordShape(run'[r]) /\ run'[r].phase = run[r].phase
  BY StopEffect DEF EngineInv
<1>2. /\ aborted' = aborted \cup ({controller} \ {None}) /\ isRunning' = FALSE /\ isPaused' = FALSE
      /\ UNCHANGED <<controller, owner, mixed>>
  BY DEF Stop
<1>3. EngineTypeOK' /\ Shape'
  BY <1>1, <1>2 DEF EngineInv, EngineTypeOK, Shape
<1>4. Active' = Active
  BY <1>1 DEF Active
<1>5. IdleIsUnlocked'
  BY <1>2, <1>4 DEF EngineInv, IdleIsUnlocked
<1>6. Exclusive'
  <2>1. aborted' = {} => aborted = {} /\ controller = None
    BY <1>2
  <2>2. \A r \in Active : r # None
    BY DEF Active
  <2>3. CutShort' = CutShort
    BY <1>1 DEF CutShort
  <2> QED
    BY <1>2, <1>4, <2>1, <2>2, <2>3 DEF EngineInv, Exclusive
<1> QED
  BY <1>3, <1>5, <1>6 DEF EngineInv

LEMMA SetPausedInv ==
  ASSUME EngineInv, NEW b \in BOOLEAN, SetPaused(b)
  PROVE  EngineInv'
<1>1. isPaused' = b /\ UNCHANGED <<isRunning, controller, aborted, owner, mixed, run>>
  BY DEF SetPaused
<1>2. Active' = Active /\ CutShort' = CutShort
  BY <1>1 DEF Active, CutShort
<1> QED
  BY <1>1, <1>2 DEF EngineInv, EngineTypeOK, Shape, IdleIsUnlocked, Exclusive

\* What a step of a probe that nobody waits for does.
LEMMA StrayEffect ==
  ASSUME EngineInv, NEW r \in Run, StrayProbe(r)
  PROVE  /\ run' \in [Run -> RunState] /\ CutShort /\ mixed' \subseteq Run
         /\ \A q \in Run : RecordShape(run'[q]) /\ run'[q].phase = run[q].phase
         /\ UNCHANGED <<isRunning, isPaused, controller, aborted, owner>>
<1>1. /\ run \in [Run -> RunState] /\ run[r].at = "stray" /\ run[r].phase # "unborn"
      /\ \A q \in Run : RecordShape(run[q])
  BY DEF EngineInv, EngineTypeOK, Shape, StrayProbe, RecordShape
<1>2. CutShort /\ owner \in Run
  BY <1>1 DEF RecordShape, CutShort, EngineInv, EngineTypeOK, Shape
<1>3. mixed' \subseteq Run
  BY <1>2 DEF StrayProbe, Stores, EngineInv, EngineTypeOK
<1>4. CASE UNCHANGED run
  BY <1>1, <1>2, <1>3, <1>4 DEF StrayProbe
<1>5. CASE Become(r, [run[r] EXCEPT !.at = "none"])
  <2> DEFINE rec == [run[r] EXCEPT !.at = "none"]
  <2>1. run[r] \in RunState /\ "none" \in At
    BY <1>1, Positions
  <2>2. /\ rec \in RunState /\ rec.phase = run[r].phase /\ rec.at = "none"
        /\ rec.sigs = run[r].sigs
    BY <2>1, Zenon DEF RunState
  <2>3. run' = [run EXCEPT ![r] = rec]
    BY <1>5 DEF Become
  <2> HIDE DEF rec
  <2>4. rec.phase \in {"failed", "aborted"} /\ rec.sigs = {}
    BY <1>1, <2>2, PhaseNames DEF RecordShape
  <2>5. RecordShape(rec)
    BY <2>2, <2>4, PhaseNames DEF RecordShape, Loops, Loaded
  <2>6. /\ run' \in [Run -> RunState]
        /\ \A q \in Run : RecordShape(run'[q]) /\ run'[q].phase = run[q].phase
    BY <1>1, <2>2, <2>3, <2>5
  <2> QED
    BY <1>2, <1>3, <2>6 DEF StrayProbe
<1> QED
  BY <1>4, <1>5 DEF StrayProbe

LEMMA StrayInv ==
  ASSUME EngineInv, NEW r \in Run, StrayProbe(r)
  PROVE  EngineInv'
<1>1. Active' = Active /\ CutShort'
  BY StrayEffect DEF Active, CutShort
<1>2. EngineTypeOK' /\ Shape'
  BY StrayEffect DEF EngineInv, EngineTypeOK, Shape
<1> QED
  BY <1>1, <1>2, StrayEffect DEF EngineInv, IdleIsUnlocked, Exclusive

LEMMA EngineStutterInv ==
  ASSUME EngineInv, UNCHANGED engineVars
  PROVE  EngineInv'
<1>1. Active' = Active /\ CutShort' = CutShort
  BY DEF engineVars, Active, CutShort
<1> QED
  BY <1>1 DEF engineVars, EngineInv, EngineTypeOK, Shape, IdleIsUnlocked, Exclusive

LEMMA EngineNextInv ==
  ASSUME EngineInv, [EngineNext]_engineVars
  PROVE  EngineInv'
BY RunStepInv, StrayInv, StartInv, StopInv, SetPausedInv, EngineStutterInv DEF EngineNext, Pause, Resume

LEMMA Invariance == EngineSpec => []EngineInv
BY EngineInitInv, EngineNextInv, PTL DEF EngineSpec

-----------------------------------------------------------------------------
(* Theorems *)

\* Every reachable state of the engine is well typed (speedtest.js:156-158).
THEOREM TypeCorrect == EngineSpec => []EngineTypeOK
<1>1. EngineInv => EngineTypeOK
  BY DEF EngineInv
<1> QED
  BY <1>1, Invariance, PTL

\* No run leaves the engine locked, whoever calls what and however many runs
\* overlap: the finally block of start is reached from every phase
\* (speedtest.js:2011-2014).
THEOREM NeverLocked == EngineSpec => []IdleIsUnlocked
<1>1. EngineInv => IdleIsUnlocked
  BY DEF EngineInv
<1> QED
  BY <1>1, Invariance, PTL

\* Without a stop, start's guard on isRunning (speedtest.js:1911) keeps the
\* runs apart, and the results of each to itself but for what a run that
\* failed has left in flight.
THEOREM OverlapsComeFromStop == EngineSpec => []OverlapNeedsStop
<1>1. EngineInv => OverlapNeedsStop
  <2>1. ASSUME EngineInv, aborted = {}
        PROVE  (mixed # {} => CutShort) /\ Cardinality(Active) \in 0 .. 1
    <3>1. (mixed # {} => CutShort) /\ \A r \in Active : r = controller
      BY <2>1 DEF EngineInv, Exclusive
    <3>2. Active = {} \/ Active = {controller}
      BY <3>1
    <3>3. Cardinality({}) = 0 /\ \A x : Cardinality({x}) = 1
      BY FS_EmptySet, FS_Singleton
    <3>4. Cardinality(Active) = 0 \/ Cardinality(Active) = 1
      BY <3>2, <3>3
    <3> QED
      BY <3>1, <3>4
  <2> QED
    BY <2>1 DEF OverlapNeedsStop
<1> QED
  BY <1>1, Invariance, PTL

-----------------------------------------------------------------------------
(***************************************************************************)
(* The app.                                                                *)
(*                                                                         *)
(* The engine alone lets runs overlap after a stop (what is proved of it   *)
(* is that overlapping takes one).  The app calls stop, in retest, and     *)
(* still never has two runs: AppAgrees says why.  The run that the app     *)
(* awaits is the only active one, and while there is one the app's own     *)
(* flag keeps startTest from calling start, whatever isRunning says.       *)
(***************************************************************************)

AppTypes ==
  /\ appRunning \in BOOLEAN /\ appPaused \in BOOLEAN
  /\ awaited \in Run \cup {None} /\ timers \in 0 .. MaxRetests

AppAgrees ==
  /\ mixed # {} => CutShort
  /\ awaited = None => ~appRunning /\ Active = {}
  /\ awaited # None => appRunning /\ Active = {awaited} /\ owner = awaited

AppInv == EngineInv /\ AppTypes /\ AppAgrees

USE DEF Run, None

-----------------------------------------------------------------------------
(* The parts of a step *)

\* Every step of the app is, for the engine, a step of the engine or none.
LEMMA AppStepIsEngineStep ==
  ASSUME [Next]_vars
  PROVE  [EngineNext]_engineVars
<1>1. CASE ClickStart \/ RetestFires
  BY <1>1 DEF ClickStart, RetestFires, StartTest, EngineNext, engineVars
<1>2. CASE TogglePause
  BY <1>2 DEF TogglePause, EngineNext
<1>3. CASE Retest
  BY <1>3 DEF Retest, EngineNext
<1>4. CASE \E r \in Run : Engine(r) \/ Stray(r)
  BY <1>4 DEF Engine, Stray, EngineNext
<1>5. CASE UNCHANGED vars
  BY <1>5 DEF vars
<1> QED
  BY <1>1, <1>2, <1>3, <1>4, <1>5 DEF Next

\* startTest: with nothing to await the engine is idle, hence unlocked, and
\* start cannot return at once.
LEMMA StartTestAgrees ==
  ASSUME AppInv, StartTest
  PROVE  AppAgrees' /\ appRunning' \in BOOLEAN /\ awaited' \in Run \cup {None}
<1>1. CASE appRunning
  <2>1. UNCHANGED <<engineVars, appRunning, awaited>>
    BY <1>1 DEF StartTest
  <2>2. Active' = Active /\ CutShort' = CutShort
    BY <2>1 DEF engineVars, Active, CutShort
  <2> QED
    BY <2>1, <2>2 DEF engineVars, AppInv, AppTypes, AppAgrees
<1>2. CASE ~appRunning
  <2>1. Active = {} /\ (mixed # {} => CutShort) /\ ~isRunning
    BY <1>2 DEF AppInv, AppAgrees, EngineInv, IdleIsUnlocked
  <2>2. PICK r \in Run : Start(r) /\ appRunning' = TRUE /\ awaited' = r
    BY <1>2, <2>1 DEF StartTest
  <2>3. PICK rec \in RunState :
          /\ rec.phase = "meta" /\ run' = [run EXCEPT ![r] = rec]
          /\ owner' = r /\ UNCHANGED mixed
    BY <2>2, StartEffect DEF AppInv, EngineInv
  <2>4. run'[r] = rec /\ \A q \in Run \ {r} : run'[q] = run[q]
    BY <2>3 DEF AppInv, EngineInv, EngineTypeOK
  <2>5. Active' = {r}
    BY <2>1, <2>3, <2>4, PhaseNames DEF Active
  <2>6. r # None
    OBVIOUS
  <2>7. run[r].phase \notin {"failed", "aborted"}
    BY <2>2 DEF Start
  <2>8. mixed' # {} => CutShort'
    BY <2>1, <2>3, <2>4, <2>7, StaysCutShort
  <2> QED
    BY <2>2, <2>3, <2>5, <2>6, <2>8 DEF AppAgrees
<1> QED
  BY <1>1, <1>2

\* Steps that leave the phases, the results and the app's own flag alone.
LEMMA QuietAgrees ==
  ASSUME AppInv, UNCHANGED <<mixed, owner, awaited, appRunning>>,
         \A r \in Run : run'[r].phase = run[r].phase
  PROVE  AppAgrees'
<1>1. Active' = Active /\ CutShort' = CutShort
  BY DEF Active, CutShort
<1> QED
  BY <1>1 DEF AppInv, AppAgrees

LEMMA StopAgrees ==
  ASSUME AppInv, Stop, UNCHANGED <<awaited, appRunning>>
  PROVE  AppAgrees'
BY StopEffect, QuietAgrees DEF AppInv, EngineInv, Stop

\* The engine's step that ends the awaited run resets the app's flag.
LEMMA EngineAgrees ==
  ASSUME AppInv, NEW r \in Run, Engine(r)
  PROVE  AppAgrees' /\ appRunning' \in BOOLEAN /\ awaited' \in Run \cup {None}
<1>1. RunStep(r) /\ EngineInv
  BY DEF Engine, AppInv
<1>2. /\ r \in Active /\ owner' = owner /\ (owner = r => mixed' = mixed)
      /\ \/ run'[r].phase \in Working /\ Active' = Active
         \/ run'[r].phase \in Over /\ Active' = Active \ {r}
  BY <1>1, RunStepActive
<1>3. awaited = r /\ r # None /\ appRunning /\ Active = {r} /\ owner = r /\ mixed' = mixed
  BY <1>2 DEF AppInv, AppAgrees
<1>6. mixed' # {} => CutShort'
  <2>1. PICK rec : RunEffect(r, rec)
    BY <1>1, StepEffect DEF EngineInv
  <2>2. \A q \in Run \ {r} : run'[q] = run[q]
    BY <1>1, <2>1 DEF RunEffect, EngineInv, EngineTypeOK
  <2>3. run[r].phase \notin {"failed", "aborted"}
    BY <2>1, PhaseNames DEF RunEffect
  <2> QED
    BY <1>3, <2>2, <2>3, StaysCutShort DEF AppInv, AppAgrees
<1>4. CASE run'[r].phase \in Working /\ Active' = Active
  <2>1. run'[r].phase \notin Over
    BY <1>4, PhaseNames DEF Over
  <2>2. UNCHANGED <<appRunning, awaited>>
    BY <2>1 DEF Engine
  <2> QED
    BY <1>2, <1>3, <1>4, <1>6, <2>2 DEF AppAgrees
<1>5. CASE run'[r].phase \in Over /\ Active' = Active \ {r}
  <2>1. appRunning' = FALSE /\ awaited' = None
    BY <1>3, <1>5 DEF Engine
  <2>2. Active' = {}
    BY <1>3, <1>5
  <2> QED
    BY <1>3, <1>6, <2>1, <2>2 DEF AppAgrees
<1> QED
  BY <1>2, <1>4, <1>5

\* A stray probe changes no phase; the results it may reach are mixed only
\* because its run was cut short.
LEMMA StrayAgrees ==
  ASSUME AppInv, NEW r \in Run, Stray(r)
  PROVE  AppAgrees'
<1>1. StrayProbe(r) /\ EngineInv /\ UNCHANGED appVars
  BY DEF Stray, AppInv
<1>2. Active' = Active /\ CutShort'
  BY <1>1, StrayEffect DEF Active, CutShort
<1>3. UNCHANGED <<owner, awaited, appRunning>>
  BY <1>1 DEF StrayProbe, appVars
<1> QED
  BY <1>2, <1>3 DEF AppInv, AppAgrees

-----------------------------------------------------------------------------
(* The invariant *)

LEMMA AppInitInv == Init => AppInv
<1> SUFFICES ASSUME Init PROVE AppInv
  OBVIOUS
<1>1. EngineInv
  BY EngineInitInv DEF Init
<1>2. Active = {}
  BY PhaseNames DEF Init, EngineInit, Active
<1>3. AppTypes
  <2>1. awaited \in Run \cup {None} /\ timers \in 0 .. MaxRetests
    BY MaxRetestsAssumption DEF Init
  <2>2. appRunning \in BOOLEAN /\ appPaused \in BOOLEAN
    BY Zenon DEF Init
  <2> QED
    BY <2>1, <2>2 DEF AppTypes
<1>4. AppAgrees
  BY <1>2 DEF Init, EngineInit, AppAgrees
<1> QED
  BY <1>1, <1>3, <1>4 DEF AppInv

LEMMA AppNextInv ==
  ASSUME AppInv, [Next]_vars
  PROVE  AppInv'
<1>1. EngineInv'
  BY AppStepIsEngineStep, EngineNextInv DEF AppInv
<1>2. timers \in 0 .. MaxRetests /\ AppTypes
  BY DEF AppInv, AppTypes
<1>3. CASE ClickStart
  <2>1. StartTest /\ UNCHANGED <<appPaused, timers>>
    BY <1>3 DEF ClickStart
  <2> QED
    BY <1>1, <1>2, <2>1, StartTestAgrees DEF AppInv, AppTypes
<1>4. CASE TogglePause
  <2>1. /\ UNCHANGED <<mixed, owner, run, awaited, appRunning, timers>>
        /\ appPaused' = ~appPaused
    BY <1>4 DEF TogglePause, Pause, Resume, SetPaused
  <2>2. AppAgrees'
    BY <2>1, QuietAgrees
  <2> QED
    BY <1>1, <1>2, <2>1, <2>2 DEF AppInv, AppTypes
<1>5. CASE Retest
  <2>1. /\ timers < MaxRetests /\ timers' = timers + 1
        /\ UNCHANGED <<appRunning, appPaused, awaited>>
    BY <1>5 DEF Retest
  <2>2. CASE Stop
    BY <1>1, <1>2, <2>1, <2>2, StopAgrees, MaxRetestsAssumption DEF AppInv, AppTypes
  <2>3. CASE UNCHANGED engineVars
    <3>1. AppAgrees'
      BY <2>1, <2>3, QuietAgrees DEF engineVars
    <3> QED
      BY <1>1, <1>2, <2>1, <3>1, MaxRetestsAssumption DEF AppInv, AppTypes
  <2> QED
    BY <1>5, <2>2, <2>3 DEF Retest
<1>6. CASE RetestFires
  <2>1. StartTest /\ UNCHANGED appPaused /\ timers > 0 /\ timers' = timers - 1
    BY <1>6 DEF RetestFires
  <2>2. timers' \in 0 .. MaxRetests
    BY <1>2, <2>1, MaxRetestsAssumption
  <2> QED
    BY <1>1, <1>2, <2>1, <2>2, StartTestAgrees DEF AppInv, AppTypes
<1>7. CASE \E r \in Run : Engine(r)
  <2>1. PICK r \in Run : Engine(r)
    BY <1>7
  <2>2. UNCHANGED <<appPaused, timers>>
    BY <2>1 DEF Engine
  <2> QED
    BY <1>1, <1>2, <2>1, <2>2, EngineAgrees DEF AppInv, AppTypes
<1>9. CASE \E r \in Run : Stray(r)
  BY <1>1, <1>2, <1>9, StrayAgrees DEF Stray, appVars, AppInv, AppTypes
<1>8. CASE UNCHANGED vars
  <2>1. AppAgrees'
    BY <1>8, QuietAgrees DEF vars, engineVars, appVars
  <2> QED
    BY <1>1, <1>2, <1>8, <2>1 DEF vars, appVars, AppInv, AppTypes
<1> QED
  BY <1>3, <1>4, <1>5, <1>6, <1>7, <1>8, <1>9 DEF Next

LEMMA AppInvariance == Spec => []AppInv
BY AppInitInv, AppNextInv, PTL DEF Spec

LEMMA SerialInv == AppInv => OneRunAtATime
<1> SUFFICES ASSUME AppInv PROVE OneRunAtATime
  OBVIOUS
<1>1. (mixed # {} => CutShort) /\ (Active = {} \/ Active = {awaited})
  BY DEF AppInv, AppAgrees
<1>2. Cardinality({}) = 0 /\ \A x : Cardinality({x}) = 1
  BY FS_EmptySet, FS_Singleton
<1>3. Cardinality(Active) = 0 \/ Cardinality(Active) = 1
  BY <1>1, <1>2
<1> QED
  BY <1>1, <1>3 DEF OneRunAtATime

-----------------------------------------------------------------------------
(* Theorems *)

\* Every reachable state of app and engine is well typed (app.js:9-24).
THEOREM AppTypeCorrect == Spec => []TypeOK
<1>1. AppInv => TypeOK
  BY DEF AppInv, EngineInv, AppTypes, TypeOK
<1> QED
  BY <1>1, AppInvariance, PTL

\* startTest's guard (app.js:333) serialises the runs although retest stops
\* them in the middle: at most one is active, and results are mixed only by
\* the stray probes of a run that was cut short.
THEOREM RunsAreSerial == Spec => []OneRunAtATime
BY SerialInv, AppInvariance, PTL

\* The page shows a running test exactly while a run is active.
THEOREM AppKnowsAlways == Spec => []AppKnows
<1>1. AppInv => AppKnows
  BY DEF AppInv, AppAgrees, AppKnows
<1> QED
  BY <1>1, AppInvariance, PTL

\* The app is a caller of the engine's interface like any other, so what
\* EngineProofs shows of every caller holds of the engine under the app.
THEOREM AppUsesEngine == Spec => EngineInit /\ [][EngineNext]_engineVars
<1>1. Init => EngineInit
  BY DEF Init
<1>2. [Next]_vars => [EngineNext]_engineVars
  BY AppStepIsEngineStep
<1> QED
  BY <1>1, <1>2, PTL DEF Spec

-----------------------------------------------------------------------------
(***************************************************************************)
(* The page.                                                               *)
(*                                                                         *)
(* Runs start in order, and the page starts one only when none is active.  *)
(* So the run whose summary is kept is the last one started (OfOneTest),   *)
(* no summary is kept while a run is active, and every sample is of that   *)
(* run or of one that was cut short: only stray probes add others, and no  *)
(* run that has completed leaves any.                                      *)
(***************************************************************************)

Unborn(r) == run[r].phase = "unborn"

Latest(r) == \A q \in Run : q > r => Unborn(q)

InOrder == \A p, q \in Run : p < q /\ ~Unborn(q) => ~Unborn(p)

PageTypes ==
  /\ samples \subseteq Run /\ summary \in Run \cup {None}
  /\ link.summary \in Run \cup {None} /\ link.samples \subseteq Run
  /\ shown \in [Cards -> SUBSET Origin]

OfOneTest ==
  /\ awaited # None => Latest(awaited) /\ summary = None
  /\ summary # None => run[summary].phase = "completed" /\ Latest(summary)
  /\ \A q \in samples : ~Unborn(q) /\ (run[q].phase = "completed" => q = summary)

PageInv == AppInv /\ PageTypes /\ InOrder /\ OfOneTest /\ LinkIsOfOneTest /\ CardsShowSummary

USE DEF Run, None

-----------------------------------------------------------------------------
(* What the steps do to the phases *)

\* Every step of the page is one of the controller or none.
LEMMA PageStepIsAppStep ==
  ASSUME [PageNext]_pageVars
  PROVE  [Next]_vars
BY DEF PageNext, PageStart, PageClicks, PageEngine, PageStray, ShareResults, pageVars, Next

Unchanged == awaited' = awaited /\ \A q \in Run : run'[q].phase = run[q].phase

Begins(r) ==
  /\ awaited = None /\ awaited' = r /\ Unborn(r) /\ ~Unborn(r)' /\ run'[r].phase # "completed"
  /\ \A q \in Run : (q < r => ~Unborn(q)) /\ (q # r => run'[q].phase = run[q].phase)

Advances(r) ==
  /\ awaited = r /\ run[r].phase \notin {"unborn", "completed", "failed", "aborted"}
  /\ ~Unborn(r)'
  /\ IF run'[r].phase \in Over THEN awaited' = None ELSE awaited' = r
  /\ \A q \in Run : q # r => run'[q].phase = run[q].phase

LEMMA StartPhases ==
  ASSUME AppInv, ClickStart \/ RetestFires
  PROVE  IF appRunning THEN Unchanged ELSE \E r \in Run : Begins(r)
<1>1. StartTest
  BY DEF ClickStart, RetestFires
<1>2. CASE appRunning
  BY <1>1, <1>2 DEF StartTest, engineVars, Unchanged
<1>3. CASE ~appRunning
  <2>1. awaited = None /\ Active = {} /\ ~isRunning
    BY <1>3 DEF AppInv, AppAgrees, EngineInv, IdleIsUnlocked
  <2>2. PICK r \in Run : Start(r) /\ awaited' = r
    BY <1>1, <1>3, <2>1 DEF StartTest
  <2>3. PICK rec \in RunState : rec.phase = "meta" /\ run' = [run EXCEPT ![r] = rec]
    BY <2>2, StartEffect DEF AppInv, EngineInv
  <2>4. run'[r] = rec /\ \A q \in Run \ {r} : run'[q] = run[q]
    BY <2>3 DEF AppInv, EngineInv, EngineTypeOK
  <2>5. Unborn(r) /\ \A q \in Run : q < r => ~Unborn(q)
    BY <2>2 DEF Start, Unborn
  <2> QED
    BY <1>3, <2>1, <2>2, <2>3, <2>4, <2>5 DEF Begins, Unborn
<1> QED
  BY <1>2, <1>3

LEMMA ClickPhases ==
  ASSUME AppInv, TogglePause \/ Retest
  PROVE  Unchanged
BY StopEffect DEF TogglePause, Pause, Resume, SetPaused, Retest, engineVars, Unchanged,
                  AppInv, EngineInv

LEMMA EnginePhases ==
  ASSUME AppInv, NEW r \in Run, Engine(r)
  PROVE  Advances(r)
<1>1. RunStep(r) /\ EngineInv
  BY DEF Engine, AppInv
<1>2. PICK rec : RunEffect(r, rec)
  BY <1>1, StepEffect DEF EngineInv
<1>3. run'[r] = rec /\ \A q \in Run \ {r} : run'[q] = run[q]
  BY <1>1, <1>2 DEF RunEffect, EngineInv, EngineTypeOK
<1>4. run[r].phase \in Working /\ run'[r].phase \in Working \cup Over
  BY <1>2, <1>3 DEF RunEffect
<1>5. r \in Active /\ awaited = r
  BY <1>4 DEF Active, AppInv, AppAgrees
<1> QED
  BY <1>3, <1>4, <1>5, PhaseNames DEF Engine, Advances, Unborn, Over

LEMMA StrayPhases ==
  ASSUME AppInv, NEW r \in Run, Stray(r)
  PROVE  Unchanged /\ run[r].phase \in {"failed", "aborted"}
<1>1. StrayProbe(r) /\ EngineInv /\ UNCHANGED appVars
  BY DEF Stray, AppInv
<1>2. \A q \in Run : run'[q].phase = run[q].phase
  BY <1>1, StrayEffect
<1>3. run[r].phase \in {"failed", "aborted"}
  BY <1>1 DEF StrayProbe, EngineInv, Shape, RecordShape
<1> QED
  BY <1>1, <1>2, <1>3 DEF appVars, Unchanged

\* Runs stay in order, and a run that is over stays as it ended.
LEMMA PhasesInOrder ==
  ASSUME InOrder, Unchanged \/ \E r \in Run : Begins(r) \/ Advances(r)
  PROVE  /\ InOrder'
         /\ \A q \in Run : run[q].phase \in Over => run'[q].phase = run[q].phase
<1>1. CASE Unchanged
  BY <1>1 DEF Unchanged, InOrder, Unborn
<1>2. CASE \E r \in Run : Begins(r) \/ Advances(r)
  <2>1. PICK r \in Run : Begins(r) \/ Advances(r)
    BY <1>2
  <2>2. CASE Begins(r)
    BY <2>2 DEF Begins, InOrder, Unborn, Over
  <2>3. CASE Advances(r)
    BY <2>3 DEF Advances, InOrder, Unborn, Over
  <2> QED
    BY <2>1, <2>2, <2>3
<1> QED
  BY <1>1, <1>2

-----------------------------------------------------------------------------
(* Links *)

\* A link that was made stays what it was while runs that are over stay so.
LEMMA LinkStays ==
  ASSUME PageInv, UNCHANGED link,
         \A q \in Run : run[q].phase \in Over => run'[q].phase = run[q].phase
  PROVE  LinkIsOfOneTest'
<1>1. ASSUME link # NoLink
      PROVE  /\ link.summary \in Run /\ run[link.summary].phase = "completed"
             /\ \A r \in link.samples \ {link.summary} :
                  r \in Run /\ r < link.summary /\ run[r].phase \in {"failed", "aborted"}
  BY <1>1 DEF PageInv, PageTypes, LinkIsOfOneTest
<1>2. ASSUME link # NoLink
      PROVE  /\ run'[link.summary].phase = "completed"
             /\ \A r \in link.samples \ {link.summary} : run'[r].phase \in {"failed", "aborted"}
  BY <1>1, <1>2 DEF Over
<1>3. link' = link /\ NoLink' = NoLink
  BY DEF NoLink
<1> QED
  BY <1>1, <1>2, <1>3 DEF LinkIsOfOneTest

\* shareResults: a summary is kept only while no run is active, so what has
\* been sampled is of the run of the summary or of one that is over, began
\* before it and did not complete.
LEMMA ShareOfOneTest ==
  ASSUME PageInv, ShareResults
  PROVE  /\ LinkIsOfOneTest'
         /\ link'.summary \in Run \cup {None} /\ link'.samples \subseteq Run
<1>1. /\ summary \in Run /\ samples \subseteq Run /\ run[summary].phase = "completed"
      /\ Active = {} /\ EngineTypeOK /\ UNCHANGED run
      /\ link' = [summary |-> summary, samples |-> samples]
  BY DEF ShareResults, PageInv, PageTypes, OfOneTest, AppInv, AppAgrees, EngineInv, vars, engineVars
<1>2. ASSUME NEW r \in samples, r # summary
      PROVE  r \in Run /\ r < summary /\ run[r].phase \in {"failed", "aborted"}
  <2>1. r \in Run /\ run[r].phase \notin {"unborn", "completed"} /\ ~(r > summary)
    BY <1>1, <1>2 DEF PageInv, OfOneTest, Latest, Unborn
  <2>2. run[r].phase \in {"unborn"} \cup Working \cup Over /\ run[r].phase \notin Working
    BY <1>1, <2>1 DEF EngineTypeOK, RunState, Active
  <2> QED
    BY <1>1, <1>2, <2>1, <2>2 DEF Over
<1>3. link'.summary = summary /\ link'.samples = samples
  BY <1>1
<1> QED
  BY <1>1, <1>2, <1>3 DEF LinkIsOfOneTest

-----------------------------------------------------------------------------
(* What the handlers keep *)

\* resetResults when a run begins
LEMMA BeginsKeeps ==
  ASSUME PageInv, NEW r \in Run, Begins(r), ResetResults, UNCHANGED <<lossless, link>>
  PROVE  PageTypes' /\ OfOneTest' /\ CardsShowSummary'
<1>1. /\ samples' = {} /\ summary' = None /\ awaited' = r /\ ~Unborn(r)'
      /\ \A q \in Run : q > r => Unborn(q) /\ run'[q].phase = run[q].phase
  BY DEF ResetResults, Begins, PageInv, InOrder
<1>2. Latest(r)'
  BY <1>1 DEF Latest, Unborn
<1>3. shown' \in [Cards -> SUBSET Origin]
  BY DEF ResetResults, PageInv, PageTypes
<1>4. PageTypes'
  BY <1>1, <1>3 DEF PageInv, PageTypes
<1> QED
  BY <1>1, <1>2, <1>4 DEF OfOneTest, CardsShowSummary

\* The callbacks of samples of a run that is awaited or was cut short
LEMMA SamplesKeep ==
  ASSUME PageInv, NEW runs \in SUBSET Run, NEW loaded \in BOOLEAN, HandleSamples(runs, loaded),
         UNCHANGED <<summary, lossless, link>>, summary = None \/ loaded
  PROVE  PageTypes' /\ CardsShowSummary' /\ samples' = samples \cup runs
<1>1. /\ shown \in [Cards -> SUBSET Origin] /\ runs \in SUBSET Origin
      /\ \A c \in {"hero", "tables", "score", "pattern"} : c \in Cards
  BY DEF PageInv, PageTypes, Cards, Origin
<1>2. shown' = [shown EXCEPT !["hero"]   = IF loaded THEN @ ELSE @ \cup runs,
                             !["tables"] = IF loaded THEN @ \cup runs ELSE @]
  BY DEF HandleSamples
<1>3. /\ shown' \in [Cards -> SUBSET Origin]
      /\ shown'["score"] = shown["score"] /\ shown'["pattern"] = shown["pattern"]
      /\ loaded => shown'["hero"] = shown["hero"]
  BY <1>1, <1>2
<1> QED
  BY <1>3 DEF HandleSamples, PageInv, PageTypes, CardsShowSummary

\* handleComplete
LEMMA CompleteKeeps ==
  ASSUME PageInv, NEW r \in Run, HandleComplete(r), UNCHANGED <<samples, link>>
  PROVE  PageTypes' /\ CardsShowSummary' /\ summary' = r
<1>1. /\ shown \in [Cards -> SUBSET Origin] /\ {r} \in SUBSET Origin
      /\ \A c \in {"hero", "tables", "score", "pattern"} : c \in Cards
  BY DEF PageInv, PageTypes, Cards, Origin
<1>2. /\ summary' = r
      /\ shown' = [shown EXCEPT !["hero"] = {r}, !["score"] = {r},
                                !["pattern"] = IF r \in lossless' THEN @ ELSE {r}]
  BY DEF HandleComplete
<1>3. /\ shown' \in [Cards -> SUBSET Origin]
      /\ shown'["hero"] = {r} /\ shown'["score"] = {r}
      /\ r \notin lossless' => shown'["pattern"] = {r}
  BY <1>1, <1>2
<1> QED
  BY <1>2, <1>3 DEF PageInv, PageTypes, CardsShowSummary

\* Steps that leave the phases and the results alone
LEMMA QuietKeeps ==
  ASSUME PageInv, Unchanged, UNCHANGED <<samples, summary, lossless, shown>>
  PROVE  OfOneTest' /\ CardsShowSummary' /\ (UNCHANGED link => PageTypes')
<1>1. \A q \in Run : run'[q].phase = run[q].phase /\ Unborn(q)' = Unborn(q)
  BY DEF Unchanged, Unborn
<1>2. \A r \in Run : Latest(r)' = Latest(r)
  BY <1>1 DEF Latest
<1>3. awaited \in Run \cup {None} /\ summary \in Run \cup {None} /\ samples \subseteq Run
  BY DEF PageInv, PageTypes, AppInv, AppTypes
<1>4. awaited' = awaited
  BY DEF Unchanged
<1>5. OfOneTest'
  <2>1. awaited' # None => Latest(awaited)' /\ summary' = None
    BY <1>2, <1>3, <1>4 DEF PageInv, OfOneTest
  <2>2. summary' # None => run'[summary].phase = "completed" /\ Latest(summary)'
    BY <1>1, <1>2, <1>3 DEF PageInv, OfOneTest
  <2>3. \A q \in samples : ~Unborn(q)' /\ (run'[q].phase = "completed" => q = summary)
    BY <1>1, <1>3 DEF PageInv, OfOneTest
  <2> QED
    BY <1>4, <2>1, <2>2, <2>3 DEF OfOneTest
<1> QED
  BY <1>5 DEF PageInv, PageTypes, CardsShowSummary

-----------------------------------------------------------------------------
(* The invariant *)

LEMMA PageInitInv == PageInit => PageInv
<1> SUFFICES ASSUME PageInit PROVE PageInv
  OBVIOUS
<1>1. AppInv
  BY AppInitInv DEF PageInit
<1>2. \A q \in Run : Unborn(q)
  <2>1. run = [r \in Run |-> [phase |-> "unborn", at |-> "none", left |-> 0, sigs |-> {},
                              doomed |-> FALSE, sampled |-> FALSE]]
    BY Zenon DEF PageInit, Init, EngineInit
  <2> QED
    BY <2>1 DEF Unborn
<1>3. samples = {} /\ summary = None /\ awaited = None /\ link = NoLink
  BY DEF PageInit, Init
<1>4. shown \in [Cards -> SUBSET Origin]
  BY DEF PageInit, Origin
<1>5. link.summary = None /\ link.samples = {}
  BY <1>3 DEF NoLink
<1> QED
  BY <1>1, <1>2, <1>3, <1>4, <1>5
  DEF PageInv, PageTypes, InOrder, OfOneTest, LinkIsOfOneTest, CardsShowSummary

LEMMA PageNextInv ==
  ASSUME PageInv, [PageNext]_pageVars
  PROVE  PageInv'
<1>1. AppInv /\ AppInv'
  BY PageStepIsAppStep, AppNextInv DEF PageInv
<1>2. ASSUME Unchanged \/ \E r \in Run : Begins(r) \/ Advances(r)
      PROVE  InOrder' /\ (UNCHANGED link => LinkIsOfOneTest')
  BY <1>2, PhasesInOrder, LinkStays DEF PageInv
<1>3. CASE PageStart
  <2>1. (ClickStart \/ RetestFires) /\ UNCHANGED <<lossless, link>>
    BY <1>3 DEF PageStart
  <2>2. CASE appRunning
    <3>1. Unchanged /\ UNCHANGED <<samples, summary, shown>>
      BY <1>1, <1>3, <2>1, <2>2, StartPhases DEF PageStart
    <3> QED
      BY <1>1, <1>2, <2>1, <3>1, QuietKeeps DEF PageInv
  <2>3. CASE ~appRunning
    <3>1. ResetResults /\ \E r \in Run : Begins(r)
      BY <1>1, <1>3, <2>1, <2>3, StartPhases DEF PageStart
    <3> QED
      BY <1>1, <1>2, <2>1, <3>1, BeginsKeeps DEF PageInv
  <2> QED
    BY <2>2, <2>3
<1>4. CASE PageClicks
  <2>1. Unchanged /\ UNCHANGED <<samples, summary, lossless, shown, link>>
    BY <1>1, <1>4, ClickPhases DEF PageClicks, resultVars
  <2> QED
    BY <1>1, <1>2, <2>1, QuietKeeps DEF PageInv
<1>5. CASE ShareResults
  <2>1. Unchanged /\ UNCHANGED <<samples, summary, lossless, shown>>
    BY <1>5 DEF ShareResults, vars, engineVars, appVars, Unchanged
  <2>2. InOrder' /\ OfOneTest' /\ CardsShowSummary'
    BY <1>2, <2>1, QuietKeeps
  <2>3. PageTypes' /\ LinkIsOfOneTest'
    BY <1>5, <2>1, ShareOfOneTest DEF PageInv, PageTypes
  <2> QED
    BY <1>1, <2>2, <2>3 DEF PageInv
<1>6. ASSUME NEW r \in Run, PageEngine(r)
      PROVE  PageInv'
  <2>1. Engine(r) /\ Advances(r) /\ UNCHANGED link
    BY <1>1, <1>6, EnginePhases DEF PageEngine
  <2>2. /\ awaited = r /\ ~Unborn(r)' /\ summary = None /\ Latest(r)
        /\ \A q \in Run \ {r} : run'[q].phase = run[q].phase
        /\ IF run'[r].phase \in Over THEN awaited' = None ELSE awaited' = r
    BY <2>1 DEF Advances, PageInv, OfOneTest
  <2>3. Latest(r)'
    BY <2>2 DEF Latest, Unborn
  <2>4. \A q \in samples : q \in Run /\ ~Unborn(q)' /\ (q # r => run'[q].phase # "completed")
    BY <2>2 DEF PageInv, PageTypes, OfOneTest, Unborn
  <2>5. CASE run'[r].phase = "completed"
    <3>1. HandleComplete(r) /\ UNCHANGED samples
      BY <1>6, <2>5 DEF PageEngine
    <3>2. PageTypes' /\ CardsShowSummary' /\ summary' = r
      BY <2>1, <3>1, CompleteKeeps
    <3>3. awaited' = None
      BY <2>2, <2>5 DEF Over
    <3>4. OfOneTest'
      BY <2>3, <2>4, <2>5, <3>1, <3>2, <3>3 DEF OfOneTest
    <3> QED
      BY <1>1, <1>2, <2>1, <3>2, <3>4 DEF PageInv
  <2>6. CASE run'[r].phase # "completed"
    <3>1. PICK runs \in Callbacks(r) : HandleSamples(runs, run[r].phase \in Loaded)
      BY <1>6, <2>6 DEF PageEngine
    <3>2. UNCHANGED <<summary, lossless, link>>
      BY <1>6, <2>1, <2>6 DEF PageEngine
    <3>3. runs \subseteq {r}
      BY <3>1 DEF Callbacks
    <3>4. PageTypes' /\ CardsShowSummary' /\ samples' = samples \cup runs
      <4>1. runs \in SUBSET Run
        BY <3>3
      <4>2. HandleSamples(runs, TRUE) \/ HandleSamples(runs, FALSE)
        BY <3>1 DEF HandleSamples
      <4> QED
        BY <2>2, <3>2, <4>1, <4>2, SamplesKeep
    <3>5. OfOneTest'
      BY <2>2, <2>3, <2>4, <2>6, <3>2, <3>3, <3>4 DEF OfOneTest
    <3> QED
      BY <1>1, <1>2, <2>1, <3>4, <3>5 DEF PageInv
  <2> QED
    BY <2>5, <2>6
<1>7. ASSUME NEW r \in Run, PageStray(r)
      PROVE  PageInv'
  <2>1. Unchanged /\ run[r].phase \in {"failed", "aborted"} /\ UNCHANGED <<summary, lossless, link>>
    BY <1>1, <1>7, StrayPhases DEF PageStray
  <2>2. CASE HandleSamples({r}, TRUE)
    <3>1. PageTypes' /\ CardsShowSummary' /\ samples' = samples \cup {r}
      BY <2>1, <2>2, SamplesKeep
    <3>2. \A q \in Run : run'[q].phase = run[q].phase /\ Unborn(q)' = Unborn(q)
      BY <2>1 DEF Unchanged, Unborn
    <3>3. \A q \in Run : Latest(q)' = Latest(q)
      BY <3>2 DEF Latest
    <3>4. OfOneTest'
      <4>1. awaited' = awaited /\ summary' = summary /\ awaited \in Run \cup {None}
            /\ summary \in Run \cup {None} /\ samples \subseteq Run
        BY <1>1, <2>1 DEF Unchanged, PageInv, PageTypes, AppInv, AppTypes
      <4>2. awaited # None => Latest(awaited)' /\ summary = None
        BY <3>3, <4>1 DEF PageInv, OfOneTest
      <4>3. summary # None => run'[summary].phase = "completed" /\ Latest(summary)'
        BY <3>2, <3>3, <4>1 DEF PageInv, OfOneTest
      <4>4. \A q \in samples : ~Unborn(q)' /\ (run'[q].phase = "completed" => q = summary)
        BY <3>2, <4>1 DEF PageInv, OfOneTest
      <4>5. ~Unborn(r)' /\ run'[r].phase # "completed"
        BY <2>1, <3>2 DEF Unborn
      <4> QED
        BY <3>1, <4>1, <4>2, <4>3, <4>4, <4>5 DEF OfOneTest
    <3> QED
      BY <1>1, <1>2, <2>1, <3>1, <3>4 DEF PageInv
  <2>3. CASE UNCHANGED <<samples, shown>>
    BY <1>1, <1>2, <2>1, <2>3, QuietKeeps DEF PageInv
  <2> QED
    BY <1>7, <2>2, <2>3 DEF PageStray
<1>8. CASE UNCHANGED pageVars
  <2>1. Unchanged /\ UNCHANGED <<samples, summary, lossless, shown, link>>
    BY <1>8 DEF pageVars, resultVars, vars, engineVars, appVars, Unchanged
  <2> QED
    BY <1>1, <1>2, <2>1, QuietKeeps DEF PageInv
<1> QED
  BY <1>3, <1>4, <1>5, <1>6, <1>7, <1>8 DEF PageNext

LEMMA PageInvariance == PageSpec => []PageInv
BY PageInitInv, PageNextInv, PTL DEF PageSpec

-----------------------------------------------------------------------------
(* Theorems *)

\* However tests are stopped, fail and are repeated, a link is of one test
\* that completed; other samples in it are of stray probes of earlier tests
\* that were cut short (app.js:397-408, 2145).
THEOREM LinksAreOfOneTest == PageSpec => []LinkIsOfOneTest
<1>1. PageInv => LinkIsOfOneTest
  BY DEF PageInv
<1> QED
  BY <1>1, PageInvariance, PTL

\* What is on display while a summary is kept is of the test of the summary,
\* except the loss pattern where that test has none (app.js:713-775).
THEOREM CardsAreOfSummary == PageSpec => []CardsShowSummary
<1>1. PageInv => CardsShowSummary
  BY DEF PageInv
<1> QED
  BY <1>1, PageInvariance, PTL

\* The page with its results is a controller like AppController's, so what
\* AppProofs shows of that one holds of the page.
THEOREM PageUsesController == PageSpec => Init /\ [][Next]_vars /\ []AppKnows /\ []OneRunAtATime
<1>1. PageInit => Init
  BY DEF PageInit
<1>2. [PageNext]_pageVars => [Next]_vars
  BY PageStepIsAppStep
<1>3. PageInv => AppKnows
  BY DEF PageInv, AppInv, AppAgrees, AppKnows
<1>4. AppInv => OneRunAtATime
  BY SerialInv
<1>5. PageInv => OneRunAtATime
  BY <1>4 DEF PageInv
<1> QED
  BY <1>1, <1>2, <1>3, <1>5, PageInvariance, PTL DEF PageSpec
=============================================================================
