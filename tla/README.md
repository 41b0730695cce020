# A verification development for netspeed

netspeed is a network speed test: `netspeedd`, a Go daemon that serves test
traffic, metadata, TURN credentials and WebRTC data channels, and a page in
plain JavaScript that measures latency, throughput and packet loss against it.
This directory holds TLA+ modules that model the program, the TLC
configurations that check them, and proofs for TLAPS.

    tlc -config sessions_concurrent.cfg MCSessionManager
    tlc -config results_page.cfg ResultsPage
    tlapm SessionManagerProofs.tla
    tlapm PageProofs.tla

`PROJECT.json` is the machine-readable index: which definition models which
lines, which run checks which property, which hazard is covered by what. Paths
below are relative to the root of the repository.

## 1. Inventory

| component | state it keeps | operations | what makes it correct |
|---|---|---|---|
| WebRTC session manager, `internal/webrtc/manager.go` | map of sessions under `mu`; per session a done channel, data channel, peer connection, two times | HandleOffer, CloseSession, cleanup ticker, Shutdown, callbacks of the peer and the channel | no done channel is closed twice; what leaves the map is closed; every peer connection is closed in the end; nobody waits for `mu` for ever |
| packet loss test, `speedtest.js` 930-1299 with `manager.go` 176-288 | the next packet, the acks; the server's statistics | offer, connect, send, ack, count, report | what is reported as loss is loss; the ends agree; the connection is closed |
| loss pattern, `speedtest.js` 1486-1559 | none | one function | bursts, tenths and type describe the losses |
| engine, `speedtest.js` 155-177, 1910-2059 | isRunning, isPaused, abortController, results, shared by all calls of `start` | start, stop, pause, resume, eight phases | never locked up, overlapping only after a stop, every run ends |
| page controller, `app.js` 332-782 | its own isRunning and isPaused, retest's timer; samples, summary, cards, the last link | startTest, togglePause, retest, the callbacks of samples and of completion, resetResults, shareResults | one run at a time, agrees with the engine, every test ends; what is shown and shared is of one test |
| latency phases, `speedtest.js` 402-632, 880-925 | samples, the probes in flight | batches of probes; probes beside one large transfer | all probes are made, under load where they should be; a test that is over has no request left |
| throughput phases, `speedtest.js` 11-153, 638-875 | samples, selected transfers, progress, time | baseline, estimate, choice, batches under a budget | progress adds up, the budget is kept, what is chosen fits the link |
| summary and grades, `speedtest.js` 1304-1634 | none | percentiles, outliers, summary, grades, estimates | agree with their definitions at every length; monotone |
| TURN credentials, `handlers.go` 220-310, `internal/turn/server.go`, `main.go` 157-200 | secret, servers, clock | start, issue, authenticate, restart | accepted exactly while the client was told; never by another process |
| daemon lifecycle, `main.go`, `internal/server/server.go`, `listener.go` | listener, requests in flight, GeoIP database, manager | start, signal, shutdown, drain | nobody is cut off before 30 s; the process ends |
| HTTP handlers, `internal/server/handlers.go` | none of their own | down, up, meta, credentials, offer, report | limits; each in the module of its component |
| GeoIP, locations, configuration, middleware | read-only after the start, but for the database's `Close` | look-ups | - |
| share links, `app.js` 1365-1853 | none | encode the results of a test, decode a link | what a link shows is what was measured |
| charts, markup, style | none | drawing | - |

**How they interact.** The page calls the engine (`start`, `stop`, `pause`,
`resume`) and gets callbacks; the engine makes HTTP requests to the handlers
and, for packet loss, sets up a peer connection with an SDP offer (over HTTP),
credentials for TURN, and a report at the end. The offer creates a session in
the manager, the report closes it; failing that a callback of the peer
connection, the cleanup ticker, or Shutdown does. The daemon's main function
owns the HTTP server, which owns the manager and the GeoIP database, and the
embedded TURN server.

**What is hard.** In the server: five kinds of goroutine over one map, with
fields that no lock protects, callbacks that want the lock of their cause, and
a shutdown beside all of it. In the browser there are no threads, but the
variables of the engine outlive a call of `start` that is still unwinding
after `stop`; loops swallow rejections; a loaded phase leaves promises behind;
state is read before an `await` and used after it;
the state of the page outlives the test it belongs to, and a link carries the results of a test
through a format of its own. Between the two: a lossy,
reordering channel, outages, timeouts at every stage, and credentials that
outlive the process which issued them. The forty places are listed under
`hazards` in `PROJECT.json`, each with the properties that cover it or the
reason why none does.

## 2. Modules

    SessionRegistry  <==implemented by==  SessionManager  <--  MCSessionManager, MCSessionHistory
                                               ^------------  SessionManagerProofs
    SpeedTestEngine  <--  AppController  <--  ResultsPage  <--  PageProofs
    Summary, ShareCodec  <--  SharedResults  <--  MCSharedResults
    LossPattern, Summary  <--  ResultProofs
    ResultProofs, SharedResults  <--  LinkProofs
    PacketLoss     <--  PacketLossProofs     TurnCredentials, Daemon  <--  ServerProofs
    LatencyProbes  <--  LatencyProofs        AdaptiveRuns             <--  AdaptiveProofs

(`<--` is EXTENDS.) No module declares a RECURSIVE operator; what recurs is a
recursive function.

**SessionManager** models `manager.go` at the granularity of its locks. An
offer passes through `offer[s]` = negotiating, gathering, storing and answered
(`HandleOffer`, lines 134-231) and takes `mu` only for storing. Each closing
goroutine is a thread with a program counter `pc[t]`: one per session and
cause for `CloseSession` (the report and the three terminal peer states), one
for the cleanup loop and one for `Shutdown`. `Session.Close`, which has no
lock of its own, is one action per access (`CheckDone` to `DeleteSession`), so
that every interleaving of two closers is possible as far as `mu` allows.
Callbacks of pion's peer connection are environment actions; a terminal state
spawns its goroutine in the same step (`Spawned`). `OnDataChannel` writes the
session without the lock. A tick is one period of the cleanup ticker.
*Abstracted*: SDP, ICE candidates, statistics, log lines. A second goroutine
for the same session and cause is merged with the first while that one waits.

**SessionRegistry** is what the manager promises, without locks, goroutines or
time: new, pending, live, gone or refused; resources held in between and
released before the session is gone; every session that is begun ends.

**MCSessionHistory** adds a history variable, `excused`: the sessions that
somebody had a reason to close.

**SpeedTestEngine** models the calls of `start` as runs over the shared
variables. JavaScript's rule that a task runs to its end is the guard `Quiet`:
a run whose position is "head" has microtasks left, and no other task may
start before. A request is bound to the controller that is current when it is
made; `stop` rejects the requests of that controller. A phase makes `Units`
passes; what a pass measures is left out. `results` is represented by its
owner and by whether another run wrote into it. A loaded phase that fails
leaves probes in flight, and the probes of a run that is stopped, which have their answer
and wait for the browser's entry of their timing, are not ended by the abort: the
run is over but is at "stray", and `StrayProbe` is one such probe storing its
sample, beside whatever runs by then.

**AppController** composes the engine with `startTest`, `togglePause` and
`retest` of the page, its own flags and the 100 ms timer of `retest`. Clicks
are possible when the button exists (`updateUIState`, lines 448-488).

**ResultsPage** composes the controller with what the page keeps and shows of
the results (`app.js` 397-782, 2116-2190). Each step of the controller or of
the engine is taken together with the callbacks it makes: a sample goes into
state and on display, `handleComplete` keeps the summary and fills the
cards, `startTest` resets some of them. A sample, a summary or a card
is represented by the run it comes from; a page may have been opened by a link
(`Shared`). Four groups of cards stand for all of them, by when they are filled and
reset. *Abstracted*: the values, wording and drawing.

**PacketLoss** is both ends of the packet test: the client's stages with their
timeouts, the send loop, the server's `OnMessage`, a channel (two sets,
`wire` and `back`, hence unordered) that loses up to `MaxDrops` packets or
acks, a path that may die, a server that may close, and a user who may stop.
The verdict heuristics of lines 1141-1204 are translated with their integer
thresholds.

**LossPattern** is `analyzeLossPattern` loop by loop, started on every set of
acks.

**LatencyProbes** is the twenty unloaded probes, in batches or one at a time,
and the loaded phases, for several tests in a row, each with a controller of its own.
A loaded probe is "flying" until it has its answer, and "timing" until the browser
has told its timing and the sample is stored: `stop` ends the first wait only.
What a test that is over still has is in `stray`: the test, and whether it is a probe
flying, a probe timing, or the transfer, whose own wait for its timing stores
nothing and is part of its end. `lasts` is a history variable, the length of the
transfer. A tick is the stagger of 200 ms. A test that is started while a stopped one
unwinds is left to SpeedTestEngine.

**AdaptiveRuns** is the throughput phase of either direction with the real
table of transfers: sizes in units of 100 kB, time in ticks of 100 ms. A run of
a larger batch, failed or not, is over at once, takes its estimate, or takes longer:
the clock of the budget counts all of them. `late` is a history variable, what
the last batch has taken beyond its estimate.

**Summary** recomputes summary, grades and estimates as the samples of a test
accumulate, phase after phase. What the code reads off a sorted copy of the samples
is the sample of a rank (`Sorted`), said by counting, since a percentile does not
depend on where the samples stood; for the same reason a filter restricts a list
to some of its places. Speeds, latency and loss are integers: hundredths of a
Mbps, of a millisecond, of a percent. A transfer of under 10 ms has no
measured duration, which the code excludes from the summary and not from the
estimates.

**ShareCodec** is the codec of links: numbers to base 36 with a sign, lists of
figures and of samples as deltas with letters for the small ones, runs of equal
samples, and the flags packed into one number. A string is a sequence of
character codes. A loop of the code is a number of passes (`Iterate`) of an operator
that maps the loop's variables to their next values: `ValuePass` and `SamplePass` of
the encoders, `DecodePass` of the decoders, so that what a loop computes can be
proved from what a pass does.

**SharedResults** composes the two: a finished test, the sections of its link, and
what a page opened by it decodes. 18 of the 32 figures and three of the six
sequences of samples are in the model; the others go through the same
functions. MCSharedResults gives the values: they are chosen around the letters
(a delta of 26), the terminators and the sign.

**TurnCredentials** is the process with its configuration, the handler, the
embedded server's `AuthHandler`, a clock and restarts. An HMAC is its key.

**Daemon** is one life of the process with requests in flight.

## 3. Runs

Twelve runs; eleven pass, and one shows a defect.

| run | module | states | what it asks |
|---|---|---|---|
| sessions_concurrent | MCSessionManager | 2 104 183 | two sessions, every interleaving of offers, reports, callbacks, cleanup and Shutdown: `NoDoubleClose`, `ListedIsOpen`, `RemovedIsClosed`, `ShutdownEmptiesMap` |
| sessions_timed | MCSessionHistory | 27 618 | one session, distinct limits: `ClosedForCause`, `PeerEventuallyClosed`, `LockReleased`, and `ImplementsRegistry`, the refinement with its liveness |
| engine_api | SpeedTestEngine | 95 115 | two runs of `start` under any caller: `OverlapNeedsStop`, `IdleIsUnlocked`, `StopEndsRun`, `RunsEnd` |
| results_page | ResultsPage | 235 682 | the engine under the page's controls, with retests, failures, stray probes and shared links: `OneRunAtATime`, `AppKnows`, `LinkIsOfOneTest`, `CardsShowSummary`, `TestEnds` |
| loss_test | PacketLoss | 993 938 | ten packets: `LossIsReal`, `SmallLossIsLoss`, `ServerSawThem`, `PatternWithinLoss`, `CountingCloses`, `TestReturns` |
| loss_pattern | LossPattern | 151 553 | every set of acks of up to twelve packets: `BurstsAreStretches`, `TenthsShareLosses`, `TypeTells` |
| latency_phases | LatencyProbes | 2 765 246 | two tests in a row: `AllProbesMade`, `LoadedUnderLoad`, `EndedTestIsQuiet` |
| runs_home | AdaptiveRuns | 5 389 894 | both directions, three speeds: `ExpectedIsExact`, `BudgetKept` |
| shared_results | MCSharedResults | 101 508 | every test of up to seven samples and the links of the shorter ones: `PercentileIsNearestRank`, `SpikeDoesNotCount`, `GradesFollow`, `LinkKeepsMeasurements` |
| turn_credentials | TurnCredentials | 40 848 | every configuration, two lives: `EmbeddedOffersAreServed`, `AcceptedWhileTold`, `LifetimeBounded` |
| daemon_life | Daemon | 169 809 | four requests around the signal: `CutOnlyLate`, `SignalStops` |
| share_link | MCSharedResults | - | `SharedAsMeasured`, which fails: see section 5 |

The runs spend their properties on hazards: the type invariant that each module
states is no property of a run, and those that the proofs use are proved (section 4).
Each property
of a passing run has a mutant: an operator marked `Mutant` in the module, a
plausible bug in the definition that follows it. It is used by nothing;
`PROJECT.json` says which definition it replaces, and TLC then finds the property violated.

### Bounds, and why they are enough

- *Sessions.* Two sessions let a sweep visit one while the other is stored,
  closed or removed; more add no new relation between two, and the safety
  properties are proved for every set (section 4). In `sessions_concurrent`
  the limits are 0 or 1 tick, because only interleavings matter there; in
  `sessions_timed` (idle 1, gathering 1, ICE failure 2, lifetime 3) they
  differ, so that each is the first to expire in some behaviour. Ages and idle
  times saturate one above their limits, since only comparisons with the
  limits are made: the model needs no bound on time.
- *Runs of the engine.* `MaxRuns` = 2: the variables of the engine belong to
  one run and at most one other interferes with it at a time. `Units` = 2 passes per
  phase, a first and a last. `MaxRetests` = 2 timers may be pending at once. `PageProofs` removes all three bounds from the
  safety properties of the page.
- *Packets.* `N` = 10 puts the thresholds at 80% and 50% on whole packets;
  `MaxDrops` = 2 lies above and `MaxFlight` = 2 bounds the packets that
  overtake each other. `LossPattern` goes to 12, where a tenth is not a whole
  packet and a burst of ten fits.
- *Probes.* Twenty unloaded and five loaded probes as in the code; the
  transfer lasts 2 or 6 ticks, less and more than the stagger of five probes. Two tests
  in a row are the least that shows what one leaves to another.
- *Transfers.* The table is the code's. The speeds of `runs_home` (1, 180 and
  2147 Mbps) choose no, some, and all of the transfers that the server's
  default limit of 1 GiB (10737 units) covers; a run is late by 1 or 3 s, a pause
  lasts 4 s, and the clock stops at 12 s, beyond the budget of 8 s.
- *Samples.* RTTs 20, 22.64 and 105 ms: two that differ by a letter's most, and
  a spike. Seven probes are the two that are skipped as warm-up and the five
  from which the outlier filter works; a transfer counts as two samples, which
  leaves three of them, the least that has a trend. Tests of up to
  `MaxShared` = 3 probes and transfers are shared, so that deltas of each kind, and runs of
  equal samples, occur in a sequence; two contexts and two minutes give negative figures, the bounds of the letters,
  and a step to the timestamp that begins with the sign.
- *Credentials.* Limits 60 and 80 s, requested ttl 0, 1 and 61, and clock steps 20
  and 41 reach the second of an expiry and both its neighbours' sides; two boots.
- *Requests.* Four requests of two kinds: one may be cut, one answered late, one
  accepted after the signal, one refused.

### Fairness, and why the code justifies it

- *SessionManager*: the ticker ticks and is served, an offer once begun goes
  on, a goroutine outside `mu` is scheduled (weak fairness). Acquiring `mu`
  has strong fairness: Go's mutex hands itself to a waiter that has waited
  longer than 1 ms. Clients and peers have none.
- *Engine and page*: each run's own steps and retest's timer are weakly fair (in
  `PageSpec` together with the callbacks they make): the event loop
  serves timers and settled promises, and requests are answered or rejected. The
  user has none; the liveness properties assume only that he does not
  leave the test paused (`<>[]~isPaused`).
- *PacketLoss*: the client's steps, timers included, and the arrival of what
  is on a live path. Nothing forces the network, the server or the user to be kind.
- *Daemon*: Shutdown goes on and the 30 s pass. No request need ever finish.
- *LossPattern*: the function goes on. The other modules claim safety only and have
  no fairness.

Deadlock is checked in the two passing session runs; the other systems really
stop when a test, a function or the process ends.

## 4. Proofs

TLAPS proves these for every value of the constants, from `NoSessionIsNone`
and `DurationsAssumption` (SessionManager), `LossAssumption` (PacketLoss),
`BoundsAssumption` (SpeedTestEngine), `MaxRetestsAssumption` (AppController),
`SentAssumption` (LossPattern), `SummaryAssumption` (Summary), `NaNAssumption`
(ShareCodec), `SharingAssumption` (SharedResults),
`LatencyAssumption` (LatencyProbes), `AdaptiveAssumption` (AdaptiveRuns),
`TurnAssumption` (TurnCredentials) and `DaemonAssumption` (Daemon), which TLC also
evaluates in the runs. All 28 invariants that the passing runs check
are proved, and no theorem about states or steps has a hypothesis beyond these assumptions.

**SessionManagerProofs.** `TypeCorrect`, `ClosedOnce` (NoDoubleClose),
`ListedOpen` (ListedIsOpen), `RemovedClosed` (RemovedIsClosed),
`ShutdownEmpties` (ShutdownEmptiesMap) and `ForCause` (ClosedForCause). None is inductive alone: that no done
channel is closed twice depends on where every goroutine is. `IInv`
adds

- `MutexInv`: a goroutine is between Lock and Unlock exactly when it holds `mu`;
- `CloseInv`: the session that is being closed is in the map, and the steps of
  `Session.Close` were done in order;
- `SweepInv`: what a sweep has still to visit is in the map and not closed, and
  the session it is closing is not among it;
- `SessionInv`: only answered sessions are stored or closed, and one that is
  in the map and closed has its closer between `close(done)` and `delete`.

Steps that leave `mu`, the map and the closers alone are handled at once: they
are `Quiet` (each thread stays where it is or moves between idle and lock), and
`QuietStep` carries `MutexInv`, `CloseInv` and `SweepInv` over. Each of the nine other
actions has a lemma of its own. `ShutdownEmpties` needs one more invariant,
`StopInv`: while the stopper sweeps, the map holds only what it has still
to visit and what it is closing. `FollowsRegistry` is the refinement but for its fairness
(`Registry!Steps`): it needs `PeerInv`, that the peer connection is open while an
offer is on its way and holds nothing when none was made or it was refused. `ClosePeer` then
maps to Release, `DeleteSession` to Remove, the offers to the registry's steps of the
same kind, and everything else to none. `ForCause` is about the history variable of
MCSessionHistory, which the module therefore extends. Its invariant `CauseInv` says that
what a goroutine is closing is excused already, by the report or callback that
started it or by the sweep that chose it, and that idleness and age beyond a limit
are excuses the moment they are reached.

**PacketLossProofs.** `TypeCorrect`, `LossReal` (LossIsReal), `EndsAgree`
(ServerSawThem), `PatternSound` (PatternWithinLoss), `CleanedUp`
(CountingCloses) and `SmallLoss` (SmallLossIsLoss). The invariant adds `FlightInv` (a packet is in one place
only, and was sent), `PhaseInv` (what each stage of the client implies of
session, connection and sequence number) and `Conserved`: over a live
connection, what was sent is at most what was dropped, is on the way, or was
acknowledged. Cardinalities are moved by two lemmas on adding and taking away
one packet.

**PageProofs** has three layers, each over the invariant of the one below.

*The engine:* `TypeCorrect`, `NeverLocked` (IdleIsUnlocked) and
`OverlapsComeFromStop` (OverlapNeedsStop), for any caller of the interface. The
invariant adds `Shape` (which position belongs to which phase, and that a run
about to make a pass has one left; without it the counter could leave its range
and `stop` could reject a request that does not exist) and `Exclusive` (while
nothing was aborted, an active run has `isRunning`, the controller and the
results to itself). The fourteen actions of a run are looked at once, in
`StepEffect`: the run goes on and leaves the engine's variables alone, or it
ends and clears them. The invariant is carried from that fact. A run that is over can
write into another's results only by a stray probe, and leaves one only when it was
cut short, which is what `OverlapNeedsStop` says of `mixed` (`CutShort`).

*The controller:* `AppTypeCorrect` (TypeOK), `RunsAreSerial` (OneRunAtATime),
`AppKnowsAlways` (AppKnows) and `AppUsesEngine` (each step of the page is a step
of the engine's interface or none). The page calls `stop`, so
`OverlapsComeFromStop` does not help it; `AppAgrees` does: the awaited run is the
only active one, and when none is awaited none is active and the engine is
unlocked, so that `start` cannot return at once.

*The page:* `LinksAreOfOneTest` (LinkIsOfOneTest), `CardsAreOfSummary`
(CardsShowSummary) and `PageUsesController` (each step of the page is a step of
the controller or none, so that everything proved of it holds of the page). The invariant adds `InOrder`, that runs start in the
order of their numbers, and `OfOneTest`: no summary is kept while a run is
awaited, the run whose summary is kept is the last one started, and a
sample is of a run that completed only if that is the one of the summary. What steps do to the phases is
said once (`Begins`, `Advances`, `Unchanged`).

**ResultProofs** is about what a finished test reports.

*Losses:* `BurstsRight` (BurstsAreStretches), `LossesShared` (TenthsShareLosses),
`TypeTold` (TypeTells) and `PatternTypes`, for any number of packets and any acks.
The loops keep running figures of bursts, while the properties speak of stretches of
the set of losses. `ScanInv` says what the first loop has counted of the packets
before `i`. `Counted(k, ...)` says that three figures are those of the stretches that end
before packet `k`; `BurstInv` is that it holds before the burst that is looked at,
which begins at `First` and is a run of losses so far. Closing a burst adds exactly one
stretch (`CloseCounts`). For the tenths, a packet is in tenth t exactly
when t * sent <= 10 * p < (t + 1) * sent (`BucketIs`), whence the size of a tenth.

*Figures:* `RanksAreNearest` (PercentileIsNearestRank), `SpikesDoNotCount`
(SpikeDoesNotCount), `BetterGradesNoWorse` (GradesFollow) and `SummaryTypes`, for any
number of samples of any values. `SortedIs` says that of every rank there is a
sample: the least one that has enough samples up to it, which a second minimum
(`LargestSample`) shows to have too few below. `Rank` is the arithmetic of the
index. A spike is not a quartile of five or more samples (`Quartiles`, `SortedOfOthers`),
so it lies outside the fences; at least half of the samples lie between the quartiles
(`Between`), so the filter is not given up; hence median and 90th percentile are
those of other samples. Grades grow because what meets a threshold still meets it
with a better figure (`MeetsMore`). Minima of sets of naturals exist by the library's
theorem on well-founded relations.

**LinkProofs.** `LinksKeep` (LinkKeepsMeasurements): whatever was measured, however
much and of whatever size, its link shows it, up to the first number that the finding
of section 5 is about. It is proved along the layers of the codec.

*Loops and recursion.* That a set of naturals which has 0 and the successor of
each of its members is all of them (`Induction`) comes from the library's theorem on
least elements, applied to what is missing from the set; that a recursive function
on the naturals satisfies its equation (`Recursion`, `Loop`) comes from gluing
the finite approximations together. None takes an operator as a parameter: what is
shown is a set of naturals, and a step is a function on the states of the loop.

*Numbers:* `NumbersSurvive`. The digits of `Base36` are those of repeated division
(`QuotientIs`), which ends (`QuotientShrinks`); `ParseInt` puts them together again.
A negative number keeps its sign; a positive one is read as it was unless its first
digit is the sign (`Ambiguous`).

*Codes:* `LettersSurvive`, `FlagsSurvive`, and `PassOfDelta` and `PassOfRepeat`: wherever
the code of a delta, or of a run, stands in a string (`Stands`), one pass of the
decoder at its place goes to the place after it, and finds that delta, or that many
samples. A number ends where its terminator stands (`NumberStands`).

*Lists:* `ValuesSurvive`, `SamplesSurvive`, by encoder and decoder run side by side.
`Matches(xs, e, d)` relates a state of the encoder and one of the decoder: the decoder
stands where the encoder's text ends, has found as many values as the encoder has
coded, and those of them that come before an ambiguous delta are right. One pass of
each keeps it (`MatchDelta`, `MatchRepeat`, `MatchStep`), because the text only grows
(`EncodeRunGrows`), so that a code once written still stands in the finished link.

*Results:* the invariant of the specification is `ShareInv`: the samples have their types, and what is
shared is a test that was `Measured`, with a link made of it (`SharedKeeps`).
The lists that are encoded are then lists of numbers (`FiguresType`, `SamplesType`), and
the flags are within the ranges that `FlagsSurvive` asks for (`FlagsType`). The loss
pattern comes back because a test without losses is never shown with one (`PatternShown`).

**LatencyProofs.** `ProbesMade` (AllProbesMade), `UnderLoad` (LoadedUnderLoad),
`EndsQuietly` (EndedTestIsQuiet) and `LatencyTypes`, for transfers of any length
and any number of tests. The invariant adds `InOrder` (the probes of a loaded phase are
launched one after the other), `RoomInv` (what is left of the transfer is its length less
the probes launched; one that is over was no longer than the probes launched, or all of
them are), `UnderLaunched` (only launched probes are under load) and `StrayInv` (a
test leaves something behind only when it has failed). From `InOrder` and `RoomInv`
it follows that probe i starts under load exactly when the transfer lasts more than
i + 1 ticks. `EndsQuietly` is inductive with `StrayInv`: `stop` comes to a test only while it
runs, so nothing it has left behind can have been flying when it was stopped.

**AdaptiveProofs.** `ExpectedExact` (ExpectedIsExact), `WithinBudget` (BudgetKept) and
`AdaptiveTypes`, for any speeds, any limit of the server, pauses, failures and stops.
The invariant adds `LoopInv` (where the loops stand), `CountInv` (what is made and the
runs of the batches `Remaining` add up to what is expected, or stay below it after a
failure) and `TimeInv` (the rest of a batch, by its estimate, fits into the rest of the budget,
but for what the batch is late). `WithinBudget` therefore says what the budget is worth: beyond
it goes only what the last batch has taken beyond its estimate, failed runs and
pauses included; earlier batches' lateness was weighed before the last one began. The runs of a set of
batches are counted as pairs of batch and run, so that they add up by the theorems on
cardinality.

**ServerProofs.** *Credentials:* `OffersAreServed` (EmbeddedOffersAreServed), `AcceptedAsTold`
(AcceptedWhileTold) and `LifetimesBounded` (LifetimeBounded), for any limits,
requests and clocks. The invariant adds `ServerInv` (the embedded server runs
exactly while the process leads clients to it, with the secret of this start) and
`HeldInv` (a credential tells its own lifetime, within the limit, and carries
the secret of the start it was issued in).

*The end of the process:* `CutLateOnly` (CutOnlyLate), for any number of requests. The
invariant adds `Closed` (from the draining on nothing new is accepted) and `Waited`
(the process goes on only with nothing in flight, or late).

*Only model-checked*: all liveness, that of `ImplementsRegistry` included
(liveness under fairness and ENABLED are beyond the installed provers). Everything
else that a passing run checks is also a theorem, for every value of the constants.

## 5. Where code and documents disagree

One is a run: **share_link**. `encodeSignedInt` (app.js 1562-1565) marks a
negative number with the prefix "n", which is itself a digit of base 36, so
`decodeSignedInt` (1570-1573) takes every positive number whose first digit is
"n" for a negative one: 23 becomes NaN, 828 to 863 become 0 to -35, and so on
for 29808 to 31103 and 1073088 to 1119743. The numbers are the first figure
and every delta above 26, in tenths: a download of 82.8 to 86.3 Mbps is shown wrong,
and so is everything after a step of that size, in the figures or in the samples.
The minutes since 2024 have such a size in links made from about 2026-01-15 to 2026-02-16,
whose timestamp and grades are then wrong. `SharedAsMeasured` is what the comments
promise (app.js 1476, 1560, 1568); `LinkKeepsMeasurements`, which passes, says that
nothing else goes wrong: up to the first such number, everything is decoded as it was coded.

The modules state further promises of documents that the code does not keep,
each with a configuration under which TLC shows it:

| property | module, cfg | promise | what the code does |
|---|---|---|---|
| ShutdownClosesManager | MCSessionManager, sessions_shutdown | manager.go 338: Shutdown "closes the manager" | an offer that is gathering stores its session afterwards |
| IsRunningTells | SpeedTestEngine, engine_is_running | speedtest.js 2050: getIsRunning | says no after stop while the run unwinds |
| FailureKeepsData | SpeedTestEngine, engine_partial_results | netspeed-ui-spec.md 917: a failed segment leaves a partial summary | one failed request of a loaded phase discards everything |
| PauseHaltsTests | SpeedTestEngine, engine_pause | netspeed-ui-spec.md 761: pause halts the remaining tests | warmup, loaded phases and packet loss do not look at it |
| RetestReruns | AppController, app_retest | netspeed-ui-spec.md 762: retest "reruns everything" | if the stopped run has not settled after 100 ms, `startTest` returns at once (`retest` has no button; it is called through window.NetspeedApp, app.js 2544-2550) |
| CardsAreReset | ResultsPage, page_cards | netspeed-ui-spec.md 762: a retest "resets state" | `resetResults` leaves the loss pattern and the tables of the loaded phases; a test that could not measure a pattern shows the one before |
| ShareEnabled | ResultsPage, page_share | netspeed-ui-spec.md 764: share | the button is enabled after a failed test too, and then does nothing |
| OutagesStayOutages | MCSharedResults, share_loss | speedtest.js 1141: an outage is told from loss | a link has no place for `unavailable`: the view computes the loss from the packets |
| PauseLabelTells | AppController, app_pause_label | netspeedd-spec.md 1523: the label | a test that ends while paused leaves "Resume" to the next |
| OutageIsNotLoss | PacketLoss, loss_outage | speedtest.js 1142: an outage is told from loss | one after 50 to 64% of the packets is a loss rate |
| AllSentBeforeCounting | PacketLoss, loss_stopped | netspeed-ui-spec.md 546: after all packets are sent | a stopped test counts unsent packets as lost |
| ProgressReaches100 | AdaptiveRuns, runs_progress | netspeed-ui-spec.md 1967 | the corrected total is not shown again |
| BudgetBounds | AdaptiveRuns, runs_budget | netspeed-ui-spec.md 1734: 8 s per phase | a slow batch is made to its end |
| FastLinksServed | AdaptiveRuns, runs_fast | netspeed-ui-spec.md 1732: GB-sized tests | above about 4 Gbps the default server refuses them, and the loaded phase fails |
| TwentyProbes | LatencyProbes, latency_twenty | netspeed-ui-spec.md 439: 20 probes | the phase ends when the first three fail |
| LoadOverlapsProbes | LatencyProbes, latency_overlap | netspeed-ui-spec.md 494 | a short transfer is over before the first probe |
| UnloadedIsUnloaded | LatencyProbes, latency_idle | README.md 93: unloaded latency | the transfer of a failed test runs on into the next |
| AtLeastAMinute | TurnCredentials, turn_minute | netspeedd-spec.md 805: clamp to 60 | the second clamp undoes it when MaxTurnTTL is below 60 |
| HostWithoutPublicIP | TurnCredentials, turn_host | main.go 189: the request's host | the first interface's address is taken before |
| AnsweredInFull | Daemon, daemon_geoip | server.go 225: graceful | the GeoIP database is closed before the draining |

Seen while modelling, and not stated as a property: a missing latency is 0 and so graded
like the best; transfers that are too short to be timed are left out of the summary and
counted in the estimates; a parallel batch of which every probe fails reports a made-up
sample of 0 ms (speedtest.js 605-607), which the page stores and shares and the engine does not.

## 6. Not modelled

- *Transfers themselves*: the loops of `handleDown` and `handleUp` under the
  server's ReadTimeout (15 s) and WriteTimeout (60 s). The client chooses
  transfers of up to 4 s by its estimate; what a browser does with the answer to
  an upload it has not finished depends on the browser and the version of HTTP, so no
  outcome would be more than a guess.
- *Score and confidence* (speedtest.js 1636-1796) weigh figures of the summary;
  nothing depends on them. In links they are values of a context.
- *The other figures and samples of links*, which go through the functions that are modelled.
- *Client address*: the precedence of proxy headers, a pure function.
- *The server card and its map, theme and dialogs* of the page.
- *Middleware, locations, configuration files*: no state after the start.
- *Warmup and Resource Timing* fallbacks of the latency phases, the drawing of
  charts, rendering, markup: no behaviour that a property here is about.
- *Libraries*: pion's WebRTC and TURN, the HTTP server, the browser. They appear
  as environment actions, marked external in `PROJECT.json`.
- *The data race on SessionStats* (manager.go 238 and 120): it can change a
  number in a log line only.

## 7. Plan

Order of building, most important behaviour first: SessionManager with its
registry and proofs (done); engine and page with proofs (done); PacketLoss with proofs
(done); the pure functions and adaptive phases (done); TURN and the daemon
(done); results of the page and share links, with proofs (done); proofs about
TURN and the daemon (done); proofs about loss pattern, summary, latency and
throughput phases, and of `ClosedForCause` (done); the codec of links proved
for every list (done). What is left:

1. A composition of PacketLoss with SessionManager: the client's report and the
   closing of the session it is about, over the same channel.
2. The precedence of headers for the client address.
