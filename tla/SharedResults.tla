---------------------------- MODULE SharedResults ----------------------------
(***************************************************************************)
(* A finished test, its link, and what a page that is opened by the link   *)
(* shows (encodeResultsForURL, decodeResultsFromURL and the view of shared *)
(* results in web/js/app.js), composed with Summary and ShareCodec.        *)
(*                                                                         *)
(* A link is the sequence of its sections.  Of the thirty-two figures the  *)
(* RTT statistics of the loss test, the measures of bursts, variability    *)
(* and the components of the score are left out: they are coded like the   *)
(* others.  The samples of the loaded phases, coded like the unloaded      *)
(* ones, and the city are left out too.                                    *)
(***************************************************************************)
EXTENDS Summary, ShareCodec

CONSTANTS
  MaxShared, \* bound: samples of a test whose results are shared
  Minutes,   \* the minutes since 2024-01-01 at which links are made
  Contexts   \* what the model does not compute of a test: its score, transport
             \* and confidence, and four coordinates in thousandths of a degree

ASSUME SharingAssumption ==
  /\ MaxShared \in Nat /\ Minutes \subseteq Nat
  /\ \A c \in Contexts :
       /\ c.score \in 0 .. 100 /\ c.place \in [1 .. 4 -> Int]
       /\ c.connType \in ToSet(ConnTypes) /\ c.protocol \in ToSet(Protocols)
       /\ c.conf \in ToSet(ConfLevels)

VARIABLES
  shared, \* the results that were shared, or Nothing
  link    \* the link made of them

shareVars == <<vars, shared, link>>

Nothing == [minutes |-> 0]

SharedInit == Init /\ shared = Nothing /\ link = <<>>

-----------------------------------------------------------------------------
(* Results, and the figures and flags of them *)

Rounded(v) == (v + 5) \div 10  \* Math.round(v * 10) of v hundredths

\* encodeGrade: Poor is 1, Great is 4.
Grades(quality) == [use \in Uses |-> quality[use] + 1]

\* What the page keeps of a test
Results(minutes, context, pattern) ==
  [summary |-> Summary, grades |-> Grades(Quality(Summary)), minutes |-> minutes,
   context |-> context, packetLoss |-> packetLoss, pattern |-> pattern,
   downloads |-> Speeds(downloads), uploads |-> Speeds(uploads), unloaded |-> unloaded]

\* analyzeLossPattern has run unless the test was unavailable.
PatternOf(p) ==
  IF p.unavailable \/ p.received = p.sent THEN {"none"} ELSE {"random", "burst", "tail"}

\* More than half a percent: loss that has a pattern.
Notable(sent, received) == 200 * (sent - received) > sent

\* A pattern that is missing is taken for random where there was loss.
FlagsOf(r) ==
  [streaming |-> r.grades.videoStreaming, gaming |-> r.grades.gaming,
   chatting |-> r.grades.videoChatting,
   connType |-> Code(r.context.connType, ConnTypes), proto |-> Code(r.context.protocol, Protocols),
   lossType |-> Code(IF r.pattern = "none" /\ ~r.packetLoss.unavailable
                       /\ Notable(r.packetLoss.sent, r.packetLoss.received)
                     THEN "random" ELSE r.pattern, LossTypes),
   conf |-> Code(r.context.conf, ConfLevels),
   dlTrend |-> Code(Trend(r.downloads), Trends), ulTrend |-> Code(Trend(r.uploads), Trends)]

\* The places of figures in the list.
MinutesAt == 7
FlagsAt   == 8
SentAt    == 9

Figures(r) ==
  <<Rounded(r.summary.downloadMbps), Rounded(r.summary.uploadMbps),
    Rounded(r.summary.latencyMs), Rounded(r.summary.jitterMs), r.summary.loss,
    r.context.score, r.minutes, PackFlags(FlagsOf(r)), r.packetLoss.sent, r.packetLoss.received>>
  \o r.context.place
  \o <<Rounded(Peak(r.downloads)), Rounded(Peak(r.uploads)),
       Rounded(Sustained(r.downloads)), Rounded(Sustained(r.uploads))>>

FigureCount == 18  \* figures in the list

Samples(r) ==
  LET Scaled(s) == [k \in DOMAIN s |-> Rounded(s[k])]
  IN  <<Scaled(r.downloads), Scaled(r.uploads), Scaled(r.unloaded)>>

-----------------------------------------------------------------------------
(* The two sides of a link *)

EncodeResultsForURL(r) ==
  <<EncodeValueArray(Figures(r))>> \o [k \in 1 .. 3 |-> EncodeSamples(Samples(r)[k])]

\* The loss that the card shows is computed from the packets, in hundredths
\* of a percent.
CardLoss(sent, received) ==
  IF sent \notin Nat \ {0} THEN 0
  ELSE IF received = NaN THEN NaN ELSE ((sent - received) * 10000) \div sent

\* Loss without a pattern is shown as random, and a number that no flags are
\* packed into has none.  What else the page makes of such a number is left out.
DecodeResultsFromURL(sections) ==
  LET v        == DecodeValueArray(sections[1], FigureCount)
      packed   == v[FlagsAt] \in Nat
      flags    == IF packed THEN UnpackFlags(v[FlagsAt]) ELSE NaN
      sent     == v[SentAt]
      received == v[SentAt + 1]
      lost     == NaN \notin {sent, received} /\ sent > 0 /\ Notable(sent, received)
      type     == IF packed THEN LossTypes[flags.lossType + 1] ELSE "none"
  IN  [figures |-> v, flags |-> flags, cardLoss |-> CardLoss(sent, received),
       lossType |-> IF type = "none" /\ lost THEN "random" ELSE type,
       samples |-> [k \in 1 .. 3 |-> DecodeSamples(sections[k + 1])]]

ShareResults ==
  /\ packetLoss # NotTested /\ shared = Nothing
  /\ Len(unloaded) + Len(downloads) + Len(uploads) <= MaxShared
  /\ \E minutes \in Minutes, context \in Contexts, pattern \in PatternOf(packetLoss) :
       shared' = Results(minutes, context, pattern)
  /\ link' = EncodeResultsForURL(shared')
  /\ UNCHANGED vars

SharedNext == (Next /\ UNCHANGED <<shared, link>>) \/ ShareResults

SharedSpec == SharedInit /\ [][SharedNext]_shareVars

-----------------------------------------------------------------------------
(* Properties *)

Opened == DecodeResultsFromURL(link)

\* A positive number whose first digit is the sign of negative ones.
Ambiguous(v) == v > 0 /\ Base36(v)[1] = Sign

\* Places of a list that are coded before the first ambiguous large delta.
Clear(xs) ==
  {k \in DOMAIN xs : \A j \in 2 .. k : xs[j] - xs[j - 1] <= 26 \/ ~Ambiguous(xs[j] - xs[j - 1])}

\* Lists are decoded at their length, and up to the first ambiguous number
\* what is shown is what was measured, to a tenth: letters, terminators and
\* runs of equal samples are never taken for one another (app.js:1478-1681).
LinkKeepsMeasurements ==
  shared # Nothing =>
    LET figures == Figures(shared)
        samples == Samples(shared)
        opened  == Opened
    IN  /\ ~Ambiguous(figures[1]) =>
             \A k \in Clear(figures) : opened.figures[k] = figures[k]
        /\ \A n \in 1 .. 3 :
             /\ Len(opened.samples[n]) = Len(samples[n])
             /\ \A k \in Clear(samples[n]) : opened.samples[n][k] = samples[n][k]
        /\ opened.figures[FlagsAt] = figures[FlagsAt] => opened.flags = FlagsOf(shared)
        /\ opened.figures = figures /\ ~shared.packetLoss.unavailable =>
             opened.lossType = shared.pattern

\* app.js:1476, 1560: the terminator and the sign are there "to avoid
\* ambiguity", so a shared result shows what the test measured.
SharedAsMeasured ==
  shared # Nothing => Opened.figures = Figures(shared) /\ Opened.samples = Samples(shared)

\* speedtest.js:1141: an outage is told from "actual packet loss", so that a
\* shared result shows no loss where the test itself reports none.
OutagesStayOutages ==
  shared # Nothing /\ Opened.figures = Figures(shared) =>
    Opened.cardLoss = Loss(shared.packetLoss)
=============================================================================
