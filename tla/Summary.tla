------------------------------- MODULE Summary -------------------------------
(***************************************************************************)
(* What a finished test reports (calculateSummary, percentile,             *)
(* filterOutliers, calculateQuality, the three grade functions and         *)
(* estimateBandwidth of web/js/speedtest.js), recomputed as the samples of *)
(* a test accumulate.                                                      *)
(*                                                                         *)
(* Latency and jitter are in hundredths of a ms, speeds in hundredths of   *)
(* a Mbps, loss in hundredths of a percent.  A transfer of under 10 ms is  *)
(* not "timed".                                                            *)
(***************************************************************************)
EXTENDS Integers, Sequences, SequencesExt

CONSTANTS
  Rtts,        \* the values that RTTs may have
  Transfers,   \* the transfers: [mbps, timed]
  PacketTests, \* the packet loss tests: [sent, received, unavailable]
  MaxSamples   \* bound: samples of a test, where a transfer counts as two

ASSUME SummaryAssumption ==
  /\ Rtts \subseteq Nat /\ MaxSamples \in Nat
  /\ Transfers \subseteq [mbps : Nat \ {0}, timed : BOOLEAN]
  /\ \A p \in PacketTests :
       p \in [sent : Nat, received : Nat, unavailable : BOOLEAN] /\ p.received <= p.sent
       /\ (p.sent = 0 => p.unavailable)

VARIABLES
  unloaded,  \* RTTs of the unloaded phase
  downloads, uploads, \* transfers made
  packetLoss \* the result of the packet loss test, or NotTested

vars == <<unloaded, downloads, uploads, packetLoss>>

NotTested == [sent |-> 0, received |-> 0, unavailable |-> FALSE]

TypeOK ==
  /\ unloaded \in Seq(Rtts) /\ downloads \in Seq(Transfers) /\ uploads \in Seq(Transfers)
  /\ packetLoss \in PacketTests \cup {NotTested}

Init == unloaded = <<>> /\ downloads = <<>> /\ uploads = <<>> /\ packetLoss = NotTested

\* The phases follow one another.
MoreSamples ==
  /\ Len(unloaded) + 2 * (Len(downloads) + Len(uploads)) < MaxSamples
  /\ packetLoss = NotTested /\ UNCHANGED packetLoss

Probe ==
  /\ MoreSamples /\ downloads = <<>> /\ uploads = <<>>
  /\ \E rtt \in Rtts : unloaded' = Append(unloaded, rtt)
  /\ UNCHANGED <<downloads, uploads>>

Download ==
  /\ MoreSamples /\ uploads = <<>>
  /\ \E t \in Transfers : downloads' = Append(downloads, t)
  /\ UNCHANGED <<unloaded, uploads>>

Upload ==
  /\ MoreSamples
  /\ \E t \in Transfers : uploads' = Append(uploads, t)
  /\ UNCHANGED <<unloaded, downloads>>

PacketTest ==
  /\ packetLoss = NotTested /\ packetLoss' \in PacketTests
  /\ UNCHANGED <<unloaded, downloads, uploads>>

Next == Probe \/ Download \/ Upload \/ PacketTest

Spec == Init /\ [][Next]_vars

-----------------------------------------------------------------------------
(* calculateSummary *)

\* A list of samples is a function from their places, and what is read off
\* its sorted copy does not depend on the places.
Size(f) == Cardinality(DOMAIN f)

Below(f, v) == Cardinality({k \in DOMAIN f : f[k] < v})

UpTo(f, v) == Cardinality({k \in DOMAIN f : f[k] <= v})

\* The r-th of the sorted samples.
Sorted(f, r) == CHOOSE v \in Range(f) : Below(f, v) < r /\ r <= UpTo(f, v)

\* Mutant: floor for ceil.
PercentileFloor(f, p) ==
  IF DOMAIN f = {} THEN 0 ELSE Sorted(f, Min({Size(f), (p * Size(f)) \div 100 + 1}))

\* ceil(p / 100 * n) - 1, from 0
Percentile(f, p) ==
  IF DOMAIN f = {} THEN 0 ELSE Sorted(f, Max({1, (p * Size(f) + 99) \div 100}))

\* Mutant: quartiles of six samples and more.
EnoughOrMore == 6

Enough == 4  \* samples to have quartiles

\* Inside the 1.5 IQR fences around the quartiles, times two to stay with integers.
Inside(f) ==
  LET q1 == Sorted(f, Size(f) \div 4 + 1)
      q3 == Sorted(f, (3 * Size(f)) \div 4 + 1)
  IN  {k \in DOMAIN f : 5 * q1 - 3 * q3 <= 2 * f[k] /\ 2 * f[k] <= 5 * q3 - 3 * q1}

FilterOutliers(f) ==
  IF Size(f) < Enough \/ 2 * Cardinality(Inside(f)) < Size(f) THEN f ELSE Restrict(f, Inside(f))

Speeds(transfers) == [k \in DOMAIN transfers |-> transfers[k].mbps]

Timed(transfers) == Restrict(Speeds(transfers), {k \in DOMAIN transfers : transfers[k].timed})

\* lossPercent; an outage is no loss.
Loss(p) == IF p.unavailable \/ p.sent = 0 THEN 0 ELSE ((p.sent - p.received) * 10000) \div p.sent

\* The first two probes warm the connection up.
Warm == Restrict(unloaded, 3 .. Len(unloaded))

Summary ==
  LET kept == FilterOutliers(Warm)
      p50  == Percentile(kept, 50)
  IN  [downloadMbps |-> Percentile(Timed(downloads), 90),
       uploadMbps   |-> Percentile(Timed(uploads), 90),
       latencyMs    |-> p50,
       jitterMs     |-> Percentile(kept, 90) - p50,
       loss         |-> Loss(packetLoss)]

-----------------------------------------------------------------------------
(* calculateQuality: the thresholds of Okay, Good and Great *)

\* speed, latency, jitter, and tenths of a percent lost
T(speed, lat, jitter, lost) ==
  [speed |-> 100 * speed, lat |-> 100 * lat, jitter |-> 100 * jitter, lost |-> 10 * lost]

Thresholds == [
  videoStreaming |-> <<T(10, 80, 30, 30), T(20, 50, 15, 15), T(50, 25, 5, 5)>>,
  gaming         |-> <<T(5, 80, 20, 20), T(15, 40, 10, 5), T(25, 20, 3, 1)>>,
  videoChatting  |-> <<T(2, 100, 30, 30), T(5, 50, 15, 10), T(10, 30, 5, 5)>>]

Uses == DOMAIN Thresholds

\* Mutant: the comparison of the loss swapped.
MeetsLossSwapped(s, use, t) ==
  LET speed == IF use = "videoChatting" THEN Min({s.downloadMbps, s.uploadMbps}) ELSE s.downloadMbps
  IN  speed >= t.speed /\ s.latencyMs <= t.lat /\ s.jitterMs <= t.jitter /\ s.loss >= t.lost

Meets(s, use, t) ==
  LET speed == IF use = "videoChatting" THEN Min({s.downloadMbps, s.uploadMbps}) ELSE s.downloadMbps
  IN  speed >= t.speed /\ s.latencyMs <= t.lat /\ s.jitterMs <= t.jitter /\ s.loss <= t.lost

\* 0 is Poor, 3 is Great.
Quality(s) ==
  [use \in Uses |-> Max({0} \cup {g \in 1 .. 3 : Meets(s, use, Thresholds[use][g])})]

-----------------------------------------------------------------------------
(* estimateBandwidth, of all transfers of a direction *)

Peak(s) == Max({0} \cup ToSet(s))

Sustained(s) == IF s = <<>> THEN 0 ELSE Sorted(s, (3 * Len(s)) \div 4 + 1)

\* The averages of the first and the last third, of equal length.
Trend(s) ==
  LET third == Len(s) \div 3
      Sum(part) == FoldLeft(+, 0, part)
      first == Sum(SubSeq(s, 1, third))
      last  == Sum(SubSeq(s, Len(s) - third + 1, Len(s)))
  IN  IF third > 0 /\ 10 * (last - first) > first THEN "improving"
      ELSE IF third > 0 /\ 10 * (last - first) < -first THEN "degrading"
      ELSE "stable"

-----------------------------------------------------------------------------
(* Properties *)

IsNearestRank(s, p, v) ==
  /\ v \in ToSet(s) /\ 100 * UpTo(s, v) >= p * Len(s)
  /\ \A w \in ToSet(s) : w < v => 100 * UpTo(s, w) < p * Len(s)

\* percentile is the nearest rank: the least sample that p percent of the
\* samples do not exceed, at every length (speedtest.js:1430-1435).
PercentileIsNearestRank ==
  unloaded # <<>> => \A p \in {50, 90} : IsNearestRank(unloaded, p, Percentile(unloaded, p))

\* Among five probes or more, one that is slower than the others by over one
\* and a half times what they differ changes neither the latency nor the
\* jitter beyond what the others show (speedtest.js:1442-1457).
SpikeDoesNotCount ==
  Size(Warm) >= 5 =>
    \A spike \in DOMAIN Warm :
      LET others == {Warm[k] : k \in DOMAIN Warm \ {spike}}
          s      == Summary
      IN  2 * Warm[spike] > 5 * Max(others) - 3 * Min(others) =>
            s.latencyMs <= Max(others) /\ s.jitterMs <= Max(others) - Min(others)

\* A test that differs from this one in higher speeds or less loss gets no
\* grade below this one's (speedtest.js:1386-1425).
GradesFollow ==
  LET s == Summary
      q == Quality(s)
      Figures == {0} \cup {t.mbps : t \in Transfers}
  IN  \A d, u \in Figures, p \in PacketTests :
        d >= s.downloadMbps /\ u >= s.uploadMbps /\ Loss(p) <= s.loss =>
          LET better == Quality([s EXCEPT !.downloadMbps = d, !.uploadMbps = u, !.loss = Loss(p)])
          IN  \A use \in Uses : better[use] >= q[use]
=============================================================================
