----------------------------- MODULE LossPattern -----------------------------
(***************************************************************************)
(* What the results say of the losses of a packet test                     *)
(* (analyzeLossPattern of web/js/speedtest.js): one loop over the packets  *)
(* finds the losses, their tenth of the test and those of the first half,  *)
(* a second one over the losses measures the bursts, and the loss is       *)
(* called "none", "burst", "tail" or "random".                             *)
(***************************************************************************)
EXTENDS Integers, FiniteSetsExt

CONSTANT MaxSent \* bound: packets of a test; the code sends 1000

ASSUME SentAssumption == MaxSent \in Nat

VARIABLES
  sent, acks,   \* the arguments: how many packets, and which came back
  stage,        \* "scan", "bursts", "done"
  i,            \* the next packet of the scan, then the loss looked at
  losses,       \* losses[]
  distribution, \* losses of each tenth
  earlyCount,
  currentBurst, burstCount, maxBurst, totalBurst,
  type

patternVars == <<sent, acks, stage, i, losses, distribution, earlyCount,
                 currentBurst, burstCount, maxBurst, totalBurst, type>>
scanned == <<losses, distribution, earlyCount>>
burstVars == <<currentBurst, burstCount, maxBurst, totalBurst>>

Tenths == 0 .. 9
Count  == 0 .. MaxSent

PatternTypeOK ==
  /\ sent \in Count /\ acks \subseteq 0 .. sent - 1 /\ stage \in {"scan", "bursts", "done"}
  /\ i \in Count /\ losses \subseteq 0 .. sent - 1 /\ distribution \in [Tenths -> Count]
  /\ earlyCount \in Count /\ currentBurst \in Count /\ burstCount \in Count
  /\ maxBurst \in Count /\ totalBurst \in Count /\ type \in {"", "none", "burst", "tail", "random"}

PatternInit ==
  /\ sent \in Count /\ acks \in SUBSET (0 .. sent - 1) /\ stage = "scan" /\ i = 0
  /\ losses = {} /\ distribution = [t \in Tenths |-> 0] /\ earlyCount = 0
  /\ currentBurst = 0 /\ burstCount = 0 /\ maxBurst = 0 /\ totalBurst = 0 /\ type = ""

\* Mutant: the size of a tenth rounded.
BucketOfWholeSize(p) == Min({9, p \div Max({1, sent \div 10})})

\* floor(i / (sent / 10)), and the first half.
Bucket(p) == Min({9, (10 * p) \div sent})
Early(p)  == 2 * p < sent

Scan ==
  /\ stage = "scan" /\ i < sent
  /\ i' = i + 1
  /\ IF i \in acks
       THEN UNCHANGED scanned
       ELSE /\ losses' = losses \cup {i}
            /\ distribution' = [distribution EXCEPT ![Bucket(i)] = @ + 1]
            /\ earlyCount' = IF Early(i) THEN earlyCount + 1 ELSE earlyCount
  /\ UNCHANGED <<sent, acks, stage, burstVars, type>>

NoLoss ==
  /\ stage = "scan" /\ i = sent /\ losses = {}
  /\ stage' = "done" /\ type' = "none"
  /\ UNCHANGED <<sent, acks, i, scanned, burstVars>>

BurstsStart ==
  /\ stage = "scan" /\ i = sent /\ losses # {}
  /\ stage' = "bursts" /\ i' = Min(losses)
  /\ currentBurst' = 1 /\ burstCount' = 0 /\ maxBurst' = 1 /\ totalBurst' = 0
  /\ UNCHANGED <<sent, acks, scanned, type>>

Later == {p \in losses : p > i}

\* A burst is over: it is counted.
CloseBurst ==
  /\ burstCount' = burstCount + 1 /\ totalBurst' = totalBurst + currentBurst
  /\ maxBurst' = Max({maxBurst, currentBurst})

NextLoss ==
  /\ stage = "bursts" /\ Later # {}
  /\ i' = Min(Later)
  /\ IF i' = i + 1
       THEN currentBurst' = currentBurst + 1 /\ UNCHANGED <<burstCount, maxBurst, totalBurst>>
       ELSE CloseBurst /\ currentBurst' = 1
  /\ UNCHANGED <<sent, acks, stage, scanned, type>>

\* Mutant: the tail is asked for before the bursts.
ClassifyTailFirst(count, longest, total) ==
  IF 10 * (Cardinality(losses) - earlyCount) > 7 * Cardinality(losses) THEN "tail"
  ELSE IF longest >= 10 \/ total > 3 * count THEN "burst"
  ELSE "random"

\* avgBurstLength > 3, lateLossPercent > 70
Classify(count, longest, total) ==
  IF longest >= 10 \/ total > 3 * count THEN "burst"
  ELSE IF 10 * (Cardinality(losses) - earlyCount) > 7 * Cardinality(losses) THEN "tail"
  ELSE "random"

\* Mutant: the last burst is not counted.
LastBurstForgotten ==
  /\ stage = "bursts" /\ Later = {}
  /\ stage' = "done" /\ type' = Classify(burstCount, maxBurst, totalBurst)
  /\ UNCHANGED <<sent, acks, i, scanned, burstVars>>

LastBurst ==
  /\ stage = "bursts" /\ Later = {}
  /\ CloseBurst
  /\ stage' = "done" /\ type' = Classify(burstCount', maxBurst', totalBurst')
  /\ UNCHANGED <<sent, acks, i, scanned, currentBurst>>

PatternNext == Scan \/ NoLoss \/ BurstsStart \/ NextLoss \/ LastBurst

PatternSpec == PatternInit /\ [][PatternNext]_patternVars /\ WF_patternVars(PatternNext)

-----------------------------------------------------------------------------
(* Properties *)

Lost == 0 .. sent - 1 \ acks

\* The maximal stretches of consecutive losses, <<first, last>>.
Stretches ==
  {s \in Lost \X Lost :
     s[1] <= s[2] /\ s[1] .. s[2] \subseteq Lost /\ s[1] - 1 \notin Lost /\ s[2] + 1 \notin Lost}

\* The figures of the bursts are those of the stretches of consecutive
\* losses, the last one included (speedtest.js:1515-1534).
BurstsAreStretches ==
  stage = "done" /\ Lost # {} =>
    /\ burstCount = Cardinality(Stretches)
    /\ maxBurst = Max({s[2] - s[1] + 1 : s \in Stretches})
    /\ totalBurst = Cardinality(Lost)

Distributed ==
  distribution[0] + distribution[1] + distribution[2] + distribution[3] + distribution[4]
  + distribution[5] + distribution[6] + distribution[7] + distribution[8] + distribution[9]

\* The tenths share the losses out, and share a test in which everything is
\* lost out evenly, however many packets it had (speedtest.js:1488-1501).
TenthsShareLosses ==
  stage = "done" =>
    /\ Distributed = Cardinality(Lost)
    /\ acks = {} /\ sent > 0 =>
         \A t, u \in Tenths : distribution[t] - distribution[u] \in -1 .. 1

\* A test whose losses are all of its second half, each alone, has a tail;
\* losses that are all of the first half are never a tail; ten in a row, or
\* nothing but stretches of four and more, are bursts wherever they are
\* (speedtest.js:1540-1548).
TypeTells ==
  stage = "done" =>
    /\ type = "none" <=> acks = 0 .. sent - 1
    /\ Lost # {} /\ (\A p \in Lost : ~Early(p) /\ p + 1 \notin Lost) => type = "tail"
    /\ (\A p \in Lost : Early(p)) => type # "tail"
    /\ (\E p \in Lost : p .. p + 9 \subseteq Lost) => type = "burst"
    /\ Lost # {} /\ (\A s \in Stretches : s[2] - s[1] >= 3) => type = "burst"
=============================================================================
