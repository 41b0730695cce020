---------------------------- MODULE ResultProofs -----------------------------
(***************************************************************************)
(* What a finished test reports: the losses of its packets (LossPattern),  *)
(* and its figures and grades (Summary), for tests of any number of        *)
(* packets and any samples.                                                *)
(*                                                                         *)
(* In analyzeLossPattern the figures of the bursts are compared with the   *)
(* stretches of consecutive losses, which no variable holds: Counted says  *)
(* that they are right of the part before the burst that is looked at.     *)
(***************************************************************************)
EXTENDS LossPattern, Summary, WellFoundedInduction, FiniteSetTheorems, TLAPS

\* The losses found so far, and their tenths and halves.
ScanInv ==
  /\ stage = "scan" => i \in 0 .. sent /\ losses = {p \in Lost : p < i}
  /\ stage # "scan" => losses = Lost
  /\ \A t \in Tenths : distribution[t] = Cardinality({p \in losses : Bucket(p) = t})
  /\ Distributed = Cardinality(losses)
  /\ earlyCount = Cardinality({p \in losses : Early(p)})

\* The three figures are those of the stretches that end before packet k.
Counted(k, count, longest, total) ==
  /\ count = Cardinality({s \in Stretches : s[2] < k})
  /\ total = Cardinality({p \in Lost : p < k})
  /\ count <= total /\ longest \in Nat \ {0}
  /\ \A a, b \in Lost : a <= b /\ a .. b \subseteq Lost /\ b < k => b - a + 1 <= longest
  /\ longest = 1 \/ \E s \in Stretches : s[2] < k /\ s[2] - s[1] + 1 = longest
  /\ longest = 1 => total = count
  /\ (\A s \in Stretches : s[2] - s[1] >= 3) => total >= 4 * count

\* Where the burst that is looked at begins.
First == i - currentBurst + 1

BurstInv ==
  stage = "bursts" =>
    /\ i \in Lost /\ First \in Lost /\ First <= i /\ First .. i \subseteq Lost /\ First - 1 \notin Lost
    /\ Counted(First, burstCount, maxBurst, totalBurst)

DoneInv ==
  stage = "done" =>
    IF Lost = {} THEN type = "none"
    ELSE /\ Counted(sent, burstCount, maxBurst, totalBurst) /\ burstCount >= 1
         /\ \E s \in Stretches : s[2] - s[1] + 1 = maxBurst
         /\ type = Classify(burstCount, maxBurst, totalBurst)

PatternInv == PatternTypeOK /\ ScanInv /\ BurstInv /\ DoneInv

-----------------------------------------------------------------------------
(* Least and largest *)

\* Every set of naturals has a least element.
LEMMA Least ==
  ASSUME NEW S, S \subseteq Nat, S # {}
  PROVE  Min(S) \in S /\ \A y \in S : Min(S) <= y
<1>1. \E x \in S : \A y \in S : ~(<<y, x>> \in OpToRel(<, Nat))
  BY NatLessThanWellFounded, WFMin, Zenon
<1>2. PICK x \in S : \A y \in S : ~(<<y, x>> \in OpToRel(<, Nat))
  BY <1>1, Zenon
<1>3. \A y \in S : x <= y
  <2> SUFFICES ASSUME NEW y \in S, ~(x <= y) PROVE FALSE
    OBVIOUS
  <2>1. y < x /\ x \in Nat /\ y \in Nat
    OBVIOUS
  <2>2. <<y, x>> \in OpToRel(<, Nat)
    BY <2>1 DEF OpToRel
  <2> QED
    BY <1>2, <2>2
<1> QED
  BY <1>3, Zenon DEF Min

LEMMA LeastIs ==
  ASSUME NEW S, S \subseteq Int, NEW m \in S, \A y \in S : m <= y
  PROVE  Min(S) = m
<1>1. PICK x \in S : x = Min(S) /\ \A y \in S : x <= y
  BY Zenon DEF Min
<1>2. x <= m /\ m <= x /\ x \in Int /\ m \in Int
  BY <1>1
<1> QED
  BY <1>1, <1>2

LEMMA LargestIs ==
  ASSUME NEW S, S \subseteq Int, NEW m \in S, \A y \in S : m >= y
  PROVE  Max(S) = m
<1>1. PICK x \in S : x = Max(S) /\ \A y \in S : x >= y
  BY Zenon DEF Max
<1>2. x >= m /\ m >= x /\ x \in Int /\ m \in Int
  BY <1>1
<1> QED
  BY <1>1, <1>2

LEMMA MaxOfTwo ==
  ASSUME NEW a \in Int, NEW b \in Int
  PROVE  Max({a, b}) = IF a >= b THEN a ELSE b
<1>1. CASE a >= b
  BY <1>1, LargestIs
<1>2. CASE b > a
  BY <1>2, LargestIs
<1> QED
  BY <1>1, <1>2

-----------------------------------------------------------------------------
(* Losses, stretches and figures *)

LEMMA LostFacts ==
  ASSUME PatternTypeOK
  PROVE  /\ sent \in Nat /\ sent <= MaxSent /\ MaxSent \in Nat
         /\ Lost \subseteq 0 .. sent - 1 /\ Lost \subseteq Nat
         /\ IsFiniteSet(Lost) /\ IsFiniteSet(Stretches)
<1>1. sent \in Nat /\ sent <= MaxSent /\ MaxSent \in Nat /\ sent - 1 \in Int /\ 0 \in Int
  <2>1. sent \in 0 .. MaxSent /\ MaxSent \in Nat
    BY SentAssumption, Zenon DEF PatternTypeOK, Count
  <2> QED
    BY <2>1
<1>2. Lost \subseteq 0 .. sent - 1
  BY DEF Lost
<1>3. IsFiniteSet(Lost)
  <2>1. IsFiniteSet(0 .. sent - 1)
    BY <1>1, FS_Interval
  <2> QED
    BY <1>2, <2>1, FS_Subset
<1>4. IsFiniteSet(Stretches)
  <2>1. IsFiniteSet(Lost \X Lost)
    BY <1>3, FS_Product
  <2>2. Stretches \subseteq Lost \X Lost
    BY DEF Stretches
  <2> QED
    BY <2>1, <2>2, FS_Subset
<1> QED
  BY <1>1, <1>2, <1>3, <1>4

LEMMA PartSize ==
  ASSUME PatternTypeOK, NEW S, S \subseteq Lost
  PROVE  IsFiniteSet(S) /\ Cardinality(S) \in 0 .. sent
<1>1. IsFiniteSet(0 .. sent - 1) /\ Cardinality(0 .. sent - 1) = sent
  <2>1. sent \in Nat /\ sent - 1 \in Int /\ 0 \in Int
    BY LostFacts
  <2> QED
    BY <2>1, FS_Interval
<1>2. S \subseteq 0 .. sent - 1
  BY LostFacts
<1>3. IsFiniteSet(S) /\ Cardinality(S) <= sent
  BY <1>1, <1>2, FS_Subset
<1> QED
  BY <1>3, LostFacts, FS_CardinalityType

\* A figure of the bursts is no larger than the number of packets.
LEMMA CountedBounds ==
  ASSUME PatternTypeOK, Lost # {}, NEW k, NEW count, NEW longest, NEW total,
         Counted(k, count, longest, total)
  PROVE  count \in Count /\ longest \in Count /\ total \in Count
<1>1. total \in 0 .. sent
  BY PartSize DEF Counted
<1>2. count \in Nat /\ count <= total
  <2>1. IsFiniteSet({s \in Stretches : s[2] < k})
    BY LostFacts, FS_Subset
  <2> QED
    BY <2>1, FS_CardinalityType DEF Counted
<1>3. longest \in Nat /\ longest <= sent
  <2>1. CASE longest = 1
    BY <2>1, LostFacts
  <2>2. CASE \E s \in Stretches : s[2] - s[1] + 1 = longest
    <3>1. PICK s \in Stretches : s[2] - s[1] + 1 = longest
      BY <2>2
    <3>2. s[1] \in 0 .. sent - 1 /\ s[2] \in 0 .. sent - 1 /\ s[1] <= s[2]
      BY LostFacts DEF Stretches
    <3> QED
      BY <3>1, <3>2, LostFacts
  <2> QED
    BY <2>1, <2>2 DEF Counted
<1> QED
  BY <1>1, <1>2, <1>3, LostFacts DEF Count

\* A burst that is closed at i is counted, up to any k before the next loss.
LEMMA CloseCounts ==
  ASSUME PatternTypeOK, BurstInv, stage = "bursts", CloseBurst, i + 1 \notin Lost,
         NEW k \in Int, i < k, \A p \in Lost : p < k => p <= i
  PROVE  /\ Counted(k, burstCount', maxBurst', totalBurst') /\ burstCount' >= 1
         /\ \E s \in Stretches : s[2] - s[1] + 1 = maxBurst'
<1>1. PICK f \in Lost : f = First
  BY DEF BurstInv
<1>2. /\ f \in Nat /\ i \in Nat /\ i \in Lost /\ f <= i /\ f .. i \subseteq Lost /\ f - 1 \notin Lost
      /\ Counted(f, burstCount, maxBurst, totalBurst)
  BY <1>1, LostFacts DEF BurstInv
<1>3. currentBurst = i - f + 1
  <2>1. currentBurst \in 0 .. MaxSent
    BY Zenon DEF PatternTypeOK, Count
  <2>2. currentBurst \in Int
    BY <2>1, SentAssumption
  <2> QED
    BY <1>1, <1>2, <2>2 DEF First
<1>4. /\ burstCount \in Nat /\ totalBurst \in Nat /\ burstCount <= totalBurst /\ maxBurst \in Nat \ {0}
      /\ maxBurst = 1 => totalBurst = burstCount
      /\ (\A s \in Stretches : s[2] - s[1] >= 3) => totalBurst >= 4 * burstCount
  <2>1. burstCount \in Count /\ totalBurst \in Count
    BY <1>2, CountedBounds
  <2> QED
    BY <1>2, <2>1, LostFacts DEF Counted, Count
<1>5. /\ burstCount' = burstCount + 1 /\ totalBurst' = totalBurst + (i - f + 1)
      /\ maxBurst' = IF maxBurst >= i - f + 1 THEN maxBurst ELSE i - f + 1
  BY <1>2, <1>3, <1>4, MaxOfTwo DEF CloseBurst
<1>6. <<f, i>> \in Stretches
  BY <1>2 DEF Stretches
<1>7. ASSUME NEW a \in Lost, NEW b \in Lost, a <= b, a .. b \subseteq Lost, b < k, ~(b < f)
      PROVE  f <= a /\ b <= i
  <2>1. a \in Nat /\ b \in Nat /\ b <= i
    BY <1>7, LostFacts
  <2>2. f - 1 \notin a .. b
    BY <1>2, <1>7
  <2> QED
    BY <1>2, <1>7, <2>1, <2>2
<1>8. /\ {s \in Stretches : s[2] < k} = {s \in Stretches : s[2] < f} \cup {<<f, i>>}
      /\ <<f, i>> \notin {s \in Stretches : s[2] < f}
  <2>1. ASSUME NEW s \in Stretches, s[2] < k, ~(s[2] < f) PROVE s = <<f, i>>
    <3>1. /\ s \in Lost \X Lost /\ s[1] <= s[2] /\ s[1] .. s[2] \subseteq Lost
          /\ s[1] - 1 \notin Lost /\ s[2] + 1 \notin Lost
      BY DEF Stretches
    <3>2. PICK a \in Lost, b \in Lost : s = <<a, b>>
      BY <3>1
    <3>3. a \in Nat /\ b \in Nat /\ f <= a /\ b <= i /\ a <= b
      BY <1>7, <2>1, <3>1, <3>2, LostFacts
    <3>4. a - 1 \notin f .. i /\ b + 1 \notin f .. i
      BY <1>2, <3>1, <3>2
    <3> QED
      BY <1>2, <3>2, <3>3, <3>4
  <2>2. \A s \in Stretches : s[2] < f => s[2] < k
    <3>1. \A s \in Stretches : s[2] \in Nat
      BY LostFacts DEF Stretches
    <3> QED
      BY <1>2, <3>1
  <2> QED
    BY <1>2, <1>6, <2>1, <2>2
<1>9. burstCount' = Cardinality({s \in Stretches : s[2] < k})
  <2>1. IsFiniteSet({s \in Stretches : s[2] < f})
    BY LostFacts, FS_Subset
  <2>2. Cardinality({s \in Stretches : s[2] < f} \cup {<<f, i>>})
          = Cardinality({s \in Stretches : s[2] < f}) + 1
    BY <1>8, <2>1, FS_AddElement
  <2> QED
    BY <1>2, <1>5, <1>8, <2>2 DEF Counted
<1>10. totalBurst' = Cardinality({p \in Lost : p < k})
  <2>1. {p \in Lost : p < k} = {p \in Lost : p < f} \cup (f .. i)
    <3>1. ASSUME NEW p \in Lost, p < k, ~(p < f) PROVE p \in f .. i
      <4>1. p <= i /\ p \in Nat
        BY <3>1, LostFacts
      <4> QED
        BY <1>2, <3>1, <4>1
    <3>2. ASSUME NEW p \in Lost, p < f PROVE p < k
      <4>1. p \in Nat
        BY LostFacts
      <4> QED
        BY <1>2, <3>2, <4>1
    <3>3. ASSUME NEW p \in f .. i PROVE p \in Lost /\ p < k
      BY <1>2
    <3> QED
      BY <3>1, <3>2, <3>3
  <2>2. {p \in Lost : p < f} \cap (f .. i) = {}
    BY <1>2, LostFacts
  <2>3. IsFiniteSet(f .. i) /\ Cardinality(f .. i) = i - f + 1
    BY <1>2, FS_Interval
  <2>4. IsFiniteSet({p \in Lost : p < f}) /\ Cardinality({p \in Lost : p < f}) \in Nat
    BY PartSize, LostFacts
  <2>5. Cardinality({p \in Lost : p < k}) = Cardinality({p \in Lost : p < f}) + (i - f + 1)
    <3> DEFINE A == {p \in Lost : p < f}
               B == f .. i
    <3>1. Cardinality(A \cup B) = Cardinality(A) + Cardinality(B) - Cardinality(A \cap B)
      BY <2>3, <2>4, FS_Union, Zenon
    <3>2. Cardinality(A \cap B) = 0
      BY <2>2, FS_EmptySet, Zenon
    <3>3. Cardinality(A) \in Nat /\ Cardinality(B) = i - f + 1
      BY <2>3, <2>4
    <3> HIDE DEF A, B
    <3>4. Cardinality(A \cup B) = Cardinality(A) + (i - f + 1)
      BY <1>2, <3>1, <3>2, <3>3
    <3> QED
      BY <2>1, <3>4, Zenon DEF A, B
  <2> QED
    BY <1>2, <1>5, <2>5 DEF Counted
<1>11. \A a, b \in Lost : a <= b /\ a .. b \subseteq Lost /\ b < k => b - a + 1 <= maxBurst'
  <2> SUFFICES ASSUME NEW a \in Lost, NEW b \in Lost, a <= b, a .. b \subseteq Lost, b < k
               PROVE  b - a + 1 <= maxBurst'
    OBVIOUS
  <2>1. a \in Nat /\ b \in Nat
    BY LostFacts
  <2>2. CASE b < f
    <3>1. b - a + 1 <= maxBurst
      BY <1>2, <2>2 DEF Counted
    <3> QED
      BY <1>2, <1>4, <1>5, <2>1, <3>1
  <2>3. CASE ~(b < f)
    BY <1>2, <1>4, <1>5, <1>7, <2>1, <2>3
  <2> QED
    BY <2>2, <2>3
<1>12. \E s \in Stretches : s[2] < k /\ s[2] - s[1] + 1 = maxBurst'
  <2>1. CASE maxBurst' = i - f + 1
    BY <1>6, <2>1
  <2>2. CASE maxBurst' = maxBurst /\ maxBurst # i - f + 1
    <3>1. maxBurst # 1
      BY <1>2, <1>4, <1>5, <2>2
    <3>2. PICK s \in Stretches : s[2] < f /\ s[2] - s[1] + 1 = maxBurst
      BY <1>2, <3>1 DEF Counted
    <3>3. s[2] < k
      BY <1>8, <3>2
    <3> QED
      BY <2>2, <3>2, <3>3
  <2> QED
    BY <1>5, <2>1, <2>2
<1>13. maxBurst' \in Nat \ {0} /\ burstCount' <= totalBurst' /\ burstCount' >= 1
  BY <1>2, <1>4, <1>5
<1>14. maxBurst' = 1 => totalBurst' = burstCount'
  BY <1>2, <1>4, <1>5
<1>15. (\A s \in Stretches : s[2] - s[1] >= 3) => totalBurst' >= 4 * burstCount'
  <2> SUFFICES ASSUME \A s \in Stretches : s[2] - s[1] >= 3 PROVE totalBurst' >= 4 * burstCount'
    OBVIOUS
  <2>1. i - f >= 3
    BY <1>6
  <2> QED
    BY <1>2, <1>4, <1>5, <2>1
<1> QED
  BY <1>9, <1>10, <1>11, <1>12, <1>13, <1>14, <1>15 DEF Counted

-----------------------------------------------------------------------------
(* The steps *)

LEMMA BucketType ==
  ASSUME NEW p \in Nat, sent \in Nat, p < sent
  PROVE  /\ (10 * p) \div sent \in Tenths /\ Bucket(p) = (10 * p) \div sent
<1>1. PICK q \in Int : q = (10 * p) \div sent
  OBVIOUS
<1>2. 0 <= q /\ q * sent <= 10 * p
  BY <1>1
<1>3. q <= 9
  <2> SUFFICES ASSUME q >= 10 PROVE FALSE
    BY <1>1
  <2>1. q * sent >= 10 * sent
    OBVIOUS
  <2> QED
    BY <1>2, <2>1
<1>4. Min({9, q}) = q
  BY <1>1, <1>3, LeastIs
<1> QED
  BY <1>1, <1>2, <1>3, <1>4 DEF Bucket, Tenths

\* One loss more in one of the tenths.
LEMMA OneMore ==
  ASSUME distribution \in [0 .. 9 -> Int], distribution' \in [0 .. 9 -> Int], NEW b \in 0 .. 9,
         \A t \in 0 .. 9 : distribution'[t] = IF t = b THEN distribution[t] + 1 ELSE distribution[t]
  PROVE  Distributed' = Distributed + 1
<1>0. PICK d0 \in Int : d0 = distribution[0] /\ distribution'[0] = d0 + (IF b = 0 THEN 1 ELSE 0)
  OBVIOUS
<1>1. PICK d1 \in Int : d1 = distribution[1] /\ distribution'[1] = d1 + (IF b = 1 THEN 1 ELSE 0)
  OBVIOUS
<1>2. PICK d2 \in Int : d2 = distribution[2] /\ distribution'[2] = d2 + (IF b = 2 THEN 1 ELSE 0)
  OBVIOUS
<1>3. PICK d3 \in Int : d3 = distribution[3] /\ distribution'[3] = d3 + (IF b = 3 THEN 1 ELSE 0)
  OBVIOUS
<1>4. PICK d4 \in Int : d4 = distribution[4] /\ distribution'[4] = d4 + (IF b = 4 THEN 1 ELSE 0)
  OBVIOUS
<1>5. PICK d5 \in Int : d5 = distribution[5] /\ distribution'[5] = d5 + (IF b = 5 THEN 1 ELSE 0)
  OBVIOUS
<1>6. PICK d6 \in Int : d6 = distribution[6] /\ distribution'[6] = d6 + (IF b = 6 THEN 1 ELSE 0)
  OBVIOUS
<1>7. PICK d7 \in Int : d7 = distribution[7] /\ distribution'[7] = d7 + (IF b = 7 THEN 1 ELSE 0)
  OBVIOUS
<1>8. PICK d8 \in Int : d8 = distribution[8] /\ distribution'[8] = d8 + (IF b = 8 THEN 1 ELSE 0)
  OBVIOUS
<1>9. PICK d9 \in Int : d9 = distribution[9] /\ distribution'[9] = d9 + (IF b = 9 THEN 1 ELSE 0)
  OBVIOUS
<1> QED
  BY <1>0, <1>1, <1>2, <1>3, <1>4, <1>5, <1>6, <1>7, <1>8, <1>9 DEF Distributed

LEMMA PatternInitInv == PatternInit => PatternInv
<1> SUFFICES ASSUME PatternInit PROVE PatternInv
  OBVIOUS
<1>1. /\ sent \in Count /\ acks \subseteq 0 .. sent - 1 /\ stage = "scan" /\ i = 0 /\ losses = {}
      /\ distribution = [t \in Tenths |-> 0] /\ earlyCount = 0 /\ currentBurst = 0
      /\ burstCount = 0 /\ maxBurst = 0 /\ totalBurst = 0 /\ type = ""
  BY Zenon DEF PatternInit
<1>2. 0 \in Count /\ sent \in Nat
  <2>1. sent \in 0 .. MaxSent /\ MaxSent \in Nat
    BY <1>1, SentAssumption, Zenon DEF Count
  <2> QED
    BY <2>1 DEF Count
<1>3. PatternTypeOK
  BY <1>1, <1>2 DEF PatternTypeOK
<1>4. ScanInv
  <2>1. {p \in Lost : p < i} = {} /\ i \in 0 .. sent
    <3>1. Lost \subseteq Nat /\ sent \in Nat
      BY <1>3, LostFacts
    <3>2. i = 0
      BY <1>1, Zenon
    <3>3. ASSUME NEW p \in Lost PROVE ~(p < i)
      BY <3>1, <3>2
    <3>4. {p \in Lost : p < i} = {}
      BY <3>3, Zenon
    <3> QED
      BY <3>1, <3>2, <3>4
  <2>2. {p \in losses : Early(p)} = {} /\ \A t \in Tenths : {p \in losses : Bucket(p) = t} = {}
    BY <1>1
  <2>3. Cardinality({}) = 0
    BY FS_EmptySet
  <2>4. Distributed = 0 /\ \A t \in Tenths : distribution[t] = 0
    <3>1. \A t \in 0 .. 9 : distribution[t] = 0
      BY <1>1, Zenon DEF Tenths
    <3> QED
      BY <3>1 DEF Distributed, Tenths
  <2> QED
    BY <1>1, <2>1, <2>2, <2>3, <2>4 DEF ScanInv
<1> QED
  BY <1>1, <1>3, <1>4 DEF PatternInv, BurstInv, DoneInv

LEMMA ScanKeeps ==
  ASSUME PatternInv, Scan
  PROVE  PatternInv'
<1>1. /\ stage = "scan" /\ i < sent /\ i' = i + 1 /\ UNCHANGED <<sent, acks, stage, type>>
      /\ UNCHANGED <<currentBurst, burstCount, maxBurst, totalBurst>>
  BY DEF Scan, burstVars
<1>2. /\ i \in Nat /\ i \in 0 .. sent - 1 /\ sent \in Nat /\ sent \in Count /\ MaxSent \in Nat /\ sent <= MaxSent
      /\ acks \subseteq 0 .. sent - 1 /\ losses = {p \in Lost : p < i} /\ Lost' = Lost /\ Lost \subseteq Nat
  <2>1. i \in 0 .. sent /\ losses = {p \in Lost : p < i}
    BY <1>1, Zenon DEF PatternInv, ScanInv
  <2>2. sent \in Nat /\ MaxSent \in Nat /\ sent <= MaxSent /\ Lost \subseteq Nat
    BY LostFacts DEF PatternInv
  <2>3. sent \in Count /\ acks \subseteq 0 .. sent - 1
    BY Zenon DEF PatternInv, PatternTypeOK
  <2>4. Lost' = Lost
    BY <1>1 DEF Lost
  <2> QED
    BY <1>1, <2>1, <2>2, <2>3, <2>4
<1>3. PICK b \in 0 .. 9 : b = Bucket(i)
  BY <1>1, <1>2, BucketType DEF Tenths
<1>4. distribution \in [0 .. 9 -> Count] /\ Distributed = Cardinality(losses)
  BY Zenon DEF PatternInv, PatternTypeOK, Tenths, ScanInv
<1>5. IsFiniteSet(losses) /\ Cardinality(losses) \in Nat
  BY <1>2, PartSize DEF PatternInv
<1>6. losses' = {p \in Lost : p < i + 1}
  <2>3. \A p \in Lost : p < i + 1 <=> p < i \/ p = i
    BY <1>2
  <2>1. CASE i \in acks
    <3>1. losses' = losses /\ i \notin Lost
      BY <1>1, <2>1 DEF Scan, scanned, Lost
    <3> QED
      BY <1>2, <2>3, <3>1
  <2>2. CASE i \notin acks
    <3>1. losses' = losses \cup {i} /\ i \in Lost
      BY <1>2, <2>2 DEF Scan, Lost
    <3> QED
      BY <1>2, <2>3, <3>1
  <2> QED
    BY <2>1, <2>2
<1>7. /\ \A t \in Tenths : distribution'[t] = Cardinality({p \in losses' : Bucket(p) = t})
      /\ Distributed' = Cardinality(losses') /\ distribution' \in [0 .. 9 -> Int]
      /\ earlyCount' = Cardinality({p \in losses' : Early(p)})
  <2>1. CASE i \in acks
    <3>1. UNCHANGED <<losses, distribution, earlyCount>>
      BY <2>1 DEF Scan, scanned
    <3>2. distribution \in [0 .. 9 -> Int]
      BY <1>2, <1>4 DEF Count
    <3> QED
      BY <1>4, <3>1, <3>2 DEF PatternInv, ScanInv, Distributed
  <2>2. CASE i \notin acks
    <3>1. /\ losses' = losses \cup {i} /\ distribution' = [distribution EXCEPT ![b] = @ + 1]
          /\ earlyCount' = IF Early(i) THEN earlyCount + 1 ELSE earlyCount
      BY <1>3, <2>2, Zenon DEF Scan
    <3>2. i \notin losses
      BY <1>2
    <3>3. \A t \in 0 .. 9 : distribution[t] \in Nat
      BY <1>2, <1>4 DEF Count
    <3>4. \A t \in 0 .. 9 : distribution'[t] = IF t = b THEN distribution[t] + 1 ELSE distribution[t]
      BY <1>3, <1>4, <3>1
    <3>5. ASSUME NEW t \in Tenths PROVE distribution'[t] = Cardinality({p \in losses' : Bucket(p) = t})
      <4> DEFINE B == {p \in losses : Bucket(p) = t}
      <4>1. IsFiniteSet(B) /\ distribution[t] = Cardinality(B) /\ i \notin B
        BY <1>5, <3>2, FS_Subset DEF PatternInv, ScanInv
      <4>2. CASE t = b
        <5>1. {p \in losses' : Bucket(p) = t} = B \cup {i}
          BY <1>3, <3>1, <4>2
        <5>2. Cardinality(B \cup {i}) = Cardinality(B) + 1
          BY <4>1, FS_AddElement
        <5> QED
          BY <3>4, <4>1, <4>2, <5>1, <5>2 DEF Tenths
      <4>3. CASE t # b
        <5>1. {p \in losses' : Bucket(p) = t} = B
          BY <1>3, <3>1, <4>3
        <5> QED
          BY <3>4, <4>1, <4>3, <5>1 DEF Tenths
      <4> QED
        BY <4>2, <4>3
    <3>6. Distributed' = Distributed + 1
      <4>1. distribution' \in [0 .. 9 -> Int] /\ distribution \in [0 .. 9 -> Int]
        BY <1>3, <1>4, <3>1, <3>3
      <4> QED
        BY <1>3, <3>4, <4>1, OneMore
    <3>7. Cardinality(losses') = Cardinality(losses) + 1
      BY <1>5, <3>1, <3>2, FS_AddElement
    <3>8. earlyCount' = Cardinality({p \in losses' : Early(p)})
      <4> DEFINE E == {p \in losses : Early(p)}
      <4>1. IsFiniteSet(E) /\ earlyCount = Cardinality(E) /\ i \notin E
        BY <1>5, <3>2, FS_Subset DEF PatternInv, ScanInv
      <4>2. CASE Early(i)
        <5>1. {p \in losses' : Early(p)} = E \cup {i}
          BY <3>1, <4>2
        <5>2. Cardinality(E \cup {i}) = Cardinality(E) + 1
          BY <4>1, FS_AddElement
        <5> QED
          BY <3>1, <4>1, <4>2, <5>1, <5>2
      <4>3. CASE ~Early(i)
        <5>1. {p \in losses' : Early(p)} = E
          BY <3>1, <4>3
        <5> QED
          BY <3>1, <4>1, <4>3, <5>1
      <4> QED
        BY <4>2, <4>3
    <3>9. distribution' \in [0 .. 9 -> Int]
      BY <1>3, <1>4, <3>1, <3>3
    <3> QED
      BY <1>4, <3>5, <3>6, <3>7, <3>8, <3>9
  <2> QED
    BY <2>1, <2>2
<1>8. ScanInv'
  <2>1. \A p : Bucket(p)' = Bucket(p) /\ Early(p)' = Early(p)
    BY <1>1 DEF Bucket, Early
  <2>2. i' \in 0 .. sent'
    BY <1>1, <1>2
  <2> QED
    BY <1>1, <1>2, <1>6, <1>7, <2>1, <2>2 DEF ScanInv
<1>9. PatternTypeOK'
  <2>1. losses' \subseteq Lost
    BY <1>6
  <2>2. earlyCount' \in 0 .. sent /\ \A t \in Tenths : distribution'[t] \in 0 .. sent
    BY <1>7, <2>1, PartSize DEF PatternInv
  <2>3. earlyCount' \in Count /\ distribution' \in [Tenths -> Count] /\ i' \in Count
    BY <1>1, <1>2, <1>7, <2>2 DEF Count, Tenths
  <2>4. losses' \subseteq 0 .. sent - 1
    BY <2>1, LostFacts DEF PatternInv
  <2> QED
    BY <1>1, <2>3, <2>4, Zenon DEF PatternInv, PatternTypeOK
<1> QED
  BY <1>1, <1>8, <1>9 DEF PatternInv, BurstInv, DoneInv

\* What the steps after the scan share: the losses stay as they are.
LEMMA AfterScan ==
  ASSUME PatternInv, UNCHANGED <<sent, acks, losses, distribution, earlyCount>>, losses = Lost, stage' # "scan"
  PROVE  ScanInv' /\ Lost' = Lost /\ Stretches' = Stretches
<1>1. Lost' = Lost
  BY DEF Lost
<1>2. Stretches' = Stretches
  BY <1>1 DEF Stretches
<1>3. \A p : Bucket(p)' = Bucket(p) /\ Early(p)' = Early(p)
  BY DEF Bucket, Early
<1>4. Distributed' = Distributed
  BY DEF Distributed
<1> QED
  BY <1>1, <1>2, <1>3, <1>4 DEF PatternInv, ScanInv

LEMMA NoLossKeeps ==
  ASSUME PatternInv, NoLoss
  PROVE  PatternInv'
<1>1. /\ stage = "scan" /\ i = sent /\ losses = {} /\ stage' = "done" /\ type' = "none"
      /\ UNCHANGED <<sent, acks, i, losses, distribution, earlyCount>>
      /\ UNCHANGED <<currentBurst, burstCount, maxBurst, totalBurst>>
  BY DEF NoLoss, burstVars, scanned
<1>2. Lost = {}
  <2>1. losses = {p \in Lost : p < i}
    BY <1>1, Zenon DEF PatternInv, ScanInv
  <2>2. \A p \in Lost : p < sent
    BY LostFacts DEF PatternInv
  <2> QED
    BY <1>1, <2>1, <2>2
<1>3. ScanInv' /\ Lost' = Lost
  BY <1>1, <1>2, AfterScan
<1>4. PatternTypeOK'
  BY <1>1, Zenon DEF PatternInv, PatternTypeOK
<1> QED
  BY <1>1, <1>2, <1>3, <1>4 DEF PatternInv, BurstInv, DoneInv

LEMMA BurstsStartKeeps ==
  ASSUME PatternInv, BurstsStart
  PROVE  PatternInv'
<1>1. /\ stage = "scan" /\ i = sent /\ losses # {} /\ stage' = "bursts" /\ i' = Min(losses)
      /\ currentBurst' = 1 /\ burstCount' = 0 /\ maxBurst' = 1 /\ totalBurst' = 0
      /\ UNCHANGED <<sent, acks, losses, distribution, earlyCount, type>>
  BY DEF BurstsStart, scanned
<1>2. losses = Lost
  <2>1. losses = {p \in Lost : p < i}
    BY <1>1, Zenon DEF PatternInv, ScanInv
  <2>2. \A p \in Lost : p < sent
    BY LostFacts DEF PatternInv
  <2> QED
    BY <1>1, <2>1, <2>2
<1>3. ScanInv' /\ Lost' = Lost /\ Stretches' = Stretches
  BY <1>1, <1>2, AfterScan
<1>4. PICK m \in Lost : m = i' /\ m \in 0 .. sent - 1 /\ sent \in Nat /\ \A p \in Lost : ~(p < m) /\ p \in Nat
  <2>1. Lost \subseteq 0 .. sent - 1 /\ Lost \subseteq Nat /\ sent \in Nat
    BY LostFacts DEF PatternInv
  <2>2. i' \in Lost /\ \A p \in Lost : i' <= p
    BY <1>1, <1>2, <2>1, Least
  <2> QED
    BY <2>1, <2>2
<1>5. First' = m
  BY <1>1, <1>4 DEF First
<1>6. Counted(m, 0, 1, 0)
  <2>1. {p \in Lost : p < m} = {}
    BY <1>4
  <2>2. {s \in Stretches : s[2] < m} = {}
    BY <1>4 DEF Stretches
  <2>3. Cardinality({}) = 0
    BY FS_EmptySet
  <2> QED
    BY <1>4, <2>1, <2>2, <2>3 DEF Counted
<1>7. BurstInv'
  <2>1. m .. m \subseteq Lost /\ m - 1 \notin Lost /\ m <= m
    BY <1>4
  <2>2. Counted(First, burstCount, maxBurst, totalBurst)'
    BY <1>1, <1>3, <1>5, <1>6 DEF Counted
  <2> QED
    BY <1>3, <1>4, <1>5, <2>1, <2>2 DEF BurstInv
<1>8. PatternTypeOK'
  <2>1. 0 \in Count /\ 1 \in Count /\ i' \in Count
    <3>1. sent <= MaxSent /\ MaxSent \in Nat
      BY LostFacts DEF PatternInv
    <3> QED
      BY <1>4, <3>1 DEF Count
  <2> QED
    BY <1>1, <2>1, Zenon DEF PatternInv, PatternTypeOK
<1> QED
  BY <1>1, <1>3, <1>7, <1>8 DEF PatternInv, DoneInv

\* What the invariant says of the burst that is looked at.
LEMMA InBurst ==
  ASSUME PatternInv, stage = "bursts"
  PROVE  /\ losses = Lost /\ Lost # {} /\ i \in Lost /\ i \in 0 .. sent - 1 /\ sent \in Nat /\ First \in 0 .. i
         /\ currentBurst = i - First + 1
<1>1. losses = Lost /\ i \in Lost /\ First \in Lost /\ First <= i
  BY Zenon DEF PatternInv, ScanInv, BurstInv
<1>2. Lost \subseteq 0 .. sent - 1 /\ sent \in Nat
  BY LostFacts DEF PatternInv
<1>3. currentBurst \in Int
  <2>1. currentBurst \in 0 .. MaxSent
    BY Zenon DEF PatternInv, PatternTypeOK, Count
  <2> QED
    BY <2>1, SentAssumption
<1>4. currentBurst = i - First + 1
  BY <1>1, <1>2, <1>3 DEF First
<1> QED
  BY <1>1, <1>2, <1>4

LEMMA NextLossKeeps ==
  ASSUME PatternInv, NextLoss
  PROVE  PatternInv'
<1>1. /\ stage = "bursts" /\ Later # {} /\ i' = Min(Later) /\ stage' = stage
      /\ UNCHANGED <<sent, acks, losses, distribution, earlyCount, type>>
  BY DEF NextLoss, scanned
<1>2. PICK f \in Lost : /\ f = First /\ f \in 0 .. i /\ f .. i \subseteq Lost /\ f - 1 \notin Lost
                       /\ Counted(f, burstCount, maxBurst, totalBurst)
  BY <1>1, InBurst DEF PatternInv, BurstInv
<1>3. /\ losses = Lost /\ Lost # {} /\ i \in Lost /\ i \in 0 .. sent - 1 /\ sent \in Nat
      /\ currentBurst = i - f + 1
  BY <1>1, <1>2, InBurst
<1>4. ScanInv' /\ Lost' = Lost /\ Stretches' = Stretches
  BY <1>1, <1>3, AfterScan
<1>5. Lost \subseteq 0 .. sent - 1 /\ sent <= MaxSent /\ MaxSent \in Nat
  BY LostFacts DEF PatternInv
<1>6. PICK n \in Lost : n = i' /\ n > i /\ n \in 0 .. sent - 1 /\ \A p \in Lost : p < n => p <= i
  <2>1. Later \subseteq Lost /\ Later \subseteq Nat /\ \A p \in Lost : p > i => p \in Later
    <3>1. Later = {p \in Lost : p > i}
      BY <1>3, Zenon DEF Later
    <3>2. Lost \subseteq Nat
      BY LostFacts DEF PatternInv
    <3> QED
      BY <3>1, <3>2
  <2>2. i' \in Later /\ \A p \in Later : i' <= p
    BY <1>1, <2>1, Least
  <2>3. i' \in Lost /\ i' > i
    BY <1>3, <2>2 DEF Later
  <2>4. ASSUME NEW p \in Lost, p < i' PROVE p <= i
    <3>1. p \in Nat /\ i' \in Nat
      BY <1>5, <2>3
    <3> SUFFICES ASSUME p > i PROVE FALSE
      BY <1>3, <3>1
    <3>2. i' <= p
      BY <2>1, <2>2
    <3> QED
      BY <2>4, <3>1, <3>2
  <2> QED
    BY <1>5, <2>3, <2>4
<1>7. BurstInv' /\ currentBurst' \in 1 .. sent /\ \E k : Counted(k, burstCount', maxBurst', totalBurst')
  <2>1. CASE n = i + 1
    <3>1. currentBurst' = currentBurst + 1 /\ UNCHANGED <<burstCount, maxBurst, totalBurst>>
      BY <1>6, <2>1 DEF NextLoss
    <3>2. First' = f
      BY <1>2, <1>3, <1>6, <2>1, <3>1 DEF First
    <3>3. f .. n \subseteq Lost
      BY <1>2, <1>3, <1>6, <2>1
    <3>4. Counted(f, burstCount', maxBurst', totalBurst')
      BY <1>2, <3>1
    <3>5. Counted(First, burstCount, maxBurst, totalBurst)'
      BY <1>4, <3>2, <3>4 DEF Counted
    <3>6. f <= n /\ currentBurst' \in 1 .. sent
      BY <1>2, <1>3, <1>6, <2>1, <3>1
    <3> QED
      BY <1>2, <1>4, <1>6, <3>2, <3>3, <3>4, <3>5, <3>6 DEF BurstInv
  <2>2. CASE n # i + 1
    <3>1. CloseBurst /\ currentBurst' = 1
      BY <1>6, <2>2 DEF NextLoss
    <3>2. First' = n
      <4>1. First' = i' - 1 + 1
        BY <3>1, Zenon DEF First
      <4>2. n - 1 + 1 = n
        <5>1. n \in Int
          BY <1>3, <1>6
        <5> QED
          BY <5>1
      <4> QED
        BY <1>6, <4>1, <4>2, Zenon
    <3>3. i + 1 \notin Lost /\ n - 1 \notin Lost /\ n .. n \subseteq Lost
      BY <1>3, <1>6, <2>2
    <3>4. Counted(n, burstCount', maxBurst', totalBurst')
      BY <1>1, <1>6, <3>1, <3>3, CloseCounts DEF PatternInv
    <3>5. Counted(First, burstCount, maxBurst, totalBurst)'
      BY <1>4, <3>2, <3>4 DEF Counted
    <3>6. n <= n /\ currentBurst' \in 1 .. sent
      BY <1>3, <1>6, <3>1
    <3> QED
      BY <1>4, <1>6, <3>2, <3>3, <3>4, <3>5, <3>6 DEF BurstInv
  <2> QED
    BY <2>1, <2>2
<1>8. PatternTypeOK'
  <2>1. burstCount' \in Count /\ maxBurst' \in Count /\ totalBurst' \in Count
    BY <1>3, <1>7, CountedBounds DEF PatternInv
  <2>2. i' \in Count /\ currentBurst' \in Count
    <3>1. n \in 0 .. MaxSent
      BY <1>3, <1>5, <1>6
    <3>2. currentBurst' \in 0 .. MaxSent
      BY <1>3, <1>5, <1>7
    <3> QED
      BY <1>6, <3>1, <3>2 DEF Count
  <2> QED
    BY <1>1, <2>1, <2>2, Zenon DEF PatternInv, PatternTypeOK
<1> QED
  BY <1>1, <1>4, <1>7, <1>8 DEF PatternInv, DoneInv

LEMMA LastBurstKeeps ==
  ASSUME PatternInv, LastBurst
  PROVE  PatternInv'
<1>1. /\ stage = "bursts" /\ Later = {} /\ CloseBurst /\ stage' = "done"
      /\ type' = Classify(burstCount', maxBurst', totalBurst')
      /\ UNCHANGED <<sent, acks, i, losses, distribution, earlyCount, currentBurst>>
  BY DEF LastBurst, scanned
<1>2. losses = Lost /\ Lost # {} /\ i \in Lost /\ i \in 0 .. sent - 1 /\ sent \in Nat
  BY <1>1, InBurst
<1>3. ScanInv' /\ Lost' = Lost /\ Stretches' = Stretches
  BY <1>1, <1>2, AfterScan
<1>4. \A p \in Lost : p <= i
  <2>1. \A p \in Lost : ~(p > i) /\ p \in Nat
    BY <1>1, <1>2, LostFacts DEF Later, PatternInv
  <2> QED
    BY <1>2, <2>1
<1>5. i + 1 \notin Lost
  BY <1>2, <1>4
<1>6. /\ Counted(sent, burstCount', maxBurst', totalBurst') /\ burstCount' >= 1
      /\ \E s \in Stretches : s[2] - s[1] + 1 = maxBurst'
  <2>1. i < sent /\ sent \in Int
    BY <1>2
  <2> QED
    BY <1>1, <1>4, <1>5, <2>1, CloseCounts DEF PatternInv
<1>7. Classify(burstCount, maxBurst, totalBurst)' = Classify(burstCount', maxBurst', totalBurst')
  BY <1>1 DEF Classify
<1>8. Counted(sent, burstCount, maxBurst, totalBurst)'
  BY <1>1, <1>3, <1>6 DEF Counted
<1>9. DoneInv'
  BY <1>1, <1>2, <1>3, <1>6, <1>7, <1>8 DEF DoneInv
<1>10. PatternTypeOK'
  <2>1. burstCount' \in Count /\ maxBurst' \in Count /\ totalBurst' \in Count
    BY <1>2, <1>6, CountedBounds DEF PatternInv
  <2>2. type' \in {"", "none", "burst", "tail", "random"}
    BY <1>1, Zenon DEF Classify
  <2> QED
    BY <1>1, <2>1, <2>2, Zenon DEF PatternInv, PatternTypeOK
<1> QED
  BY <1>1, <1>3, <1>9, <1>10 DEF PatternInv, BurstInv

LEMMA PatternNextInv ==
  ASSUME PatternInv, [PatternNext]_patternVars
  PROVE  PatternInv'
<1>1. CASE PatternNext
  BY <1>1, ScanKeeps, NoLossKeeps, BurstsStartKeeps, NextLossKeeps, LastBurstKeeps DEF PatternNext
<1>2. CASE UNCHANGED patternVars
  <2>1. /\ UNCHANGED <<sent, acks, stage, i, losses, distribution, earlyCount>>
        /\ UNCHANGED <<currentBurst, burstCount, maxBurst, totalBurst, type>>
    BY <1>2 DEF patternVars
  <2>2. Lost' = Lost
    BY <2>1 DEF Lost
  <2>3. Stretches' = Stretches /\ First' = First /\ Distributed' = Distributed
    BY <2>1, <2>2 DEF Stretches, First, Distributed
  <2>4. \A p : Bucket(p)' = Bucket(p) /\ Early(p)' = Early(p)
    BY <2>1 DEF Bucket, Early
  <2>5. PatternTypeOK'
    BY <2>1, Zenon DEF PatternInv, PatternTypeOK
  <2>6. ScanInv'
    BY <2>1, <2>2, <2>3, <2>4 DEF PatternInv, ScanInv
  <2>7. \A k : Counted(k, burstCount, maxBurst, totalBurst)' = Counted(k, burstCount, maxBurst, totalBurst)
    BY <2>1, <2>2, <2>3 DEF Counted
  <2>8. BurstInv'
    BY <2>1, <2>2, <2>3, <2>7 DEF PatternInv, BurstInv, Counted
  <2>9. DoneInv'
    BY <2>1, <2>2, <2>3, <2>7 DEF PatternInv, DoneInv, Classify, Counted
  <2> QED
    BY <2>5, <2>6, <2>8, <2>9 DEF PatternInv
<1> QED
  BY <1>1, <1>2

THEOREM PatternInvariance == PatternSpec => []PatternInv
<1>1. PatternInit => PatternInv
  BY PatternInitInv
<1>2. PatternInv /\ [PatternNext]_patternVars => PatternInv'
  BY PatternNextInv
<1> QED
  BY <1>1, <1>2, PTL DEF PatternSpec

-----------------------------------------------------------------------------
(* Theorems *)

LEMMA FiguresRight == PatternInv => BurstsAreStretches
<1> SUFFICES ASSUME PatternInv, stage = "done", Lost # {}
             PROVE  /\ burstCount = Cardinality(Stretches)
                    /\ maxBurst = Max({s[2] - s[1] + 1 : s \in Stretches})
                    /\ totalBurst = Cardinality(Lost)
  BY DEF BurstsAreStretches
<1>1. Counted(sent, burstCount, maxBurst, totalBurst) /\ \E s \in Stretches : s[2] - s[1] + 1 = maxBurst
  BY DEF PatternInv, DoneInv
<1>2. (\A p \in Lost : p < sent /\ p \in Nat) /\ sent \in Nat
  BY LostFacts DEF PatternInv
<1>3. {p \in Lost : p < sent} = Lost /\ {s \in Stretches : s[2] < sent} = Stretches
  BY <1>2 DEF Stretches
<1>4. ASSUME NEW s \in Stretches PROVE s[2] - s[1] + 1 \in Int /\ maxBurst >= s[2] - s[1] + 1
  <2>1. s[1] \in Lost /\ s[2] \in Lost /\ s[1] <= s[2] /\ s[1] .. s[2] \subseteq Lost
    BY DEF Stretches
  <2>2. s[2] - s[1] + 1 <= maxBurst /\ maxBurst \in Nat
    BY <1>1, <1>2, <2>1 DEF Counted
  <2> QED
    BY <1>2, <2>1, <2>2
<1>5. maxBurst = Max({s[2] - s[1] + 1 : s \in Stretches})
  <2> DEFINE L == {s[2] - s[1] + 1 : s \in Stretches}
  <2>1. L \subseteq Int /\ maxBurst \in L /\ \A y \in L : maxBurst >= y
    BY <1>1, <1>4
  <2> HIDE DEF L
  <2>2. Max(L) = maxBurst
    BY <2>1, LargestIs
  <2> QED
    BY <2>2 DEF L
<1> QED
  BY <1>1, <1>3, <1>5 DEF Counted

LEMMA TypeRight == PatternInv => TypeTells
<1> SUFFICES ASSUME PatternInv, stage = "done"
             PROVE  /\ type = "none" <=> acks = 0 .. sent - 1
                    /\ Lost # {} /\ (\A p \in Lost : ~Early(p) /\ p + 1 \notin Lost) => type = "tail"
                    /\ (\A p \in Lost : Early(p)) => type # "tail"
                    /\ (\E p \in Lost : p .. p + 9 \subseteq Lost) => type = "burst"
                    /\ Lost # {} /\ (\A s \in Stretches : s[2] - s[1] >= 3) => type = "burst"
  BY DEF TypeTells
<1>1. Lost = {} <=> acks = 0 .. sent - 1
  <2>1. acks \subseteq 0 .. sent - 1
    BY Zenon DEF PatternInv, PatternTypeOK
  <2> QED
    BY <2>1 DEF Lost
<1>2. CASE Lost = {}
  <2>1. type = "none"
    BY <1>2 DEF PatternInv, DoneInv
  <2> QED
    BY <1>1, <1>2, <2>1
<1>3. CASE Lost # {}
  <2>1. /\ Counted(sent, burstCount, maxBurst, totalBurst) /\ burstCount >= 1
        /\ \E s \in Stretches : s[2] - s[1] + 1 = maxBurst
        /\ type = Classify(burstCount, maxBurst, totalBurst)
    BY <1>3 DEF PatternInv, DoneInv
  <2>2. burstCount \in Nat /\ totalBurst \in Nat /\ maxBurst \in Nat
    <3>1. burstCount \in Count /\ totalBurst \in Count /\ maxBurst \in Count
      BY <1>3, <2>1, CountedBounds DEF PatternInv
    <3> QED
      BY <3>1, SentAssumption DEF Count
  <2>3. (\A p \in Lost : p < sent /\ p \in Nat) /\ sent \in Nat
    BY LostFacts DEF PatternInv
  <2>4. /\ losses = Lost /\ earlyCount = Cardinality({p \in Lost : Early(p)})
        /\ Cardinality(Lost) \in Nat \ {0}
    <3>1. losses = Lost /\ earlyCount = Cardinality({p \in Lost : Early(p)})
      BY Zenon DEF PatternInv, ScanInv
    <3>2. IsFiniteSet(Lost)
      BY LostFacts DEF PatternInv
    <3> QED
      BY <1>3, <3>1, <3>2, FS_CardinalityType, FS_EmptySet
  <2>5. type # "none"
    BY <2>1 DEF Classify
  <2>6. ASSUME \A p \in Lost : ~Early(p) /\ p + 1 \notin Lost PROVE type = "tail"
    <3>1. earlyCount = 0
      <4>1. {p \in Lost : Early(p)} = {}
        BY <2>6
      <4> QED
        BY <2>4, <4>1, FS_EmptySet
    <3>2. maxBurst = 1
      <4>1. PICK s \in Stretches : s[2] - s[1] + 1 = maxBurst
        BY <2>1
      <4>2. s[1] \in Lost /\ s[2] \in Lost /\ s[1] <= s[2] /\ s[1] .. s[2] \subseteq Lost
        BY DEF Stretches
      <4>3. s[1] + 1 \notin s[1] .. s[2]
        BY <2>6, <4>2
      <4> QED
        BY <2>3, <4>1, <4>2, <4>3
    <3>3. totalBurst = burstCount
      BY <2>1, <3>2 DEF Counted
    <3>4. ~(maxBurst >= 10 \/ totalBurst > 3 * burstCount)
      BY <2>1, <2>2, <3>2, <3>3
    <3>5. 10 * (Cardinality(losses) - earlyCount) > 7 * Cardinality(losses)
      BY <2>4, <3>1
    <3> QED
      BY <2>1, <3>4, <3>5, Zenon DEF Classify
  <2>7. ASSUME \A p \in Lost : Early(p) PROVE type # "tail"
    <3>1. {p \in Lost : Early(p)} = Lost
      BY <2>7
    <3>2. ~(10 * (Cardinality(losses) - earlyCount) > 7 * Cardinality(losses))
      BY <2>4, <3>1
    <3> QED
      BY <2>1, <3>2 DEF Classify
  <2>8. ASSUME NEW p \in Lost, p .. p + 9 \subseteq Lost PROVE type = "burst"
    <3>1. p + 9 \in Lost /\ p <= p + 9
      BY <2>3, <2>8
    <3>2. (p + 9) - p + 1 <= maxBurst
      BY <2>1, <2>3, <2>8, <3>1 DEF Counted
    <3>3. maxBurst >= 10
      BY <2>2, <2>3, <3>2
    <3> QED
      BY <2>1, <3>3 DEF Classify
  <2>9. ASSUME \A s \in Stretches : s[2] - s[1] >= 3 PROVE type = "burst"
    <3>1. totalBurst >= 4 * burstCount
      BY <2>1, <2>9 DEF Counted
    <3>2. totalBurst > 3 * burstCount
      BY <2>1, <2>2, <3>1
    <3> QED
      BY <2>1, <3>2 DEF Classify
  <2> QED
    BY <1>1, <1>3, <2>5, <2>6, <2>7, <2>8, <2>9
<1> QED
  BY <1>2, <1>3

\* The packets of a tenth are an interval.
LEMMA BucketIs ==
  ASSUME sent \in Nat \ {0}, NEW p \in 0 .. sent - 1, NEW t \in Tenths
  PROVE  Bucket(p) = t <=> t * sent <= 10 * p /\ 10 * p < t * sent + sent
<1>1. p \in Nat /\ p < sent /\ t \in Nat
  BY DEF Tenths
<1>2. PICK q \in Nat : q = Bucket(p) /\ q = (10 * p) \div sent
  BY <1>1, BucketType DEF Tenths
<1>3. q * sent <= 10 * p /\ 10 * p < q * sent + sent
  BY <1>1, <1>2
<1>4. q <= t - 1 => q * sent + sent <= t * sent
  <2> SUFFICES ASSUME q + 1 <= t PROVE q * sent + sent <= t * sent
    BY <1>1
  <2>1. (q + 1) * sent <= t * sent
    BY <1>1
  <2>2. (q + 1) * sent = q * sent + sent
    OBVIOUS
  <2> QED
    BY <2>1, <2>2
<1>5. t <= q - 1 => t * sent + sent <= q * sent
  <2> SUFFICES ASSUME t + 1 <= q PROVE t * sent + sent <= q * sent
    BY <1>1
  <2>1. (t + 1) * sent <= q * sent
    BY <1>1
  <2>2. (t + 1) * sent = t * sent + sent
    BY <1>1
  <2> QED
    BY <2>1, <2>2
<1>6. q * sent \in Nat /\ t * sent \in Nat
  BY <1>1
<1>7. CASE q = t
  BY <1>2, <1>3, <1>7
<1>8. CASE q <= t - 1
  BY <1>1, <1>2, <1>3, <1>4, <1>6, <1>8
<1>9. CASE t <= q - 1
  BY <1>1, <1>2, <1>3, <1>5, <1>6, <1>9
<1> QED
  BY <1>1, <1>7, <1>8, <1>9

\* A tenth has a tenth of the packets, rounded one way or the other.
LEMMA BucketSize ==
  ASSUME sent \in Nat \ {0}, NEW t \in Tenths
  PROVE  Cardinality({p \in 0 .. sent - 1 : Bucket(p) = t}) \in sent \div 10 .. sent \div 10 + 1
<1>1. t \in Nat /\ t <= 9
  BY DEF Tenths
<1>2. PICK m \in Nat : m = t * sent
  BY <1>1
<1>3. m + sent <= 10 * sent
  <2>1. (t + 1) * sent <= 10 * sent
    BY <1>1
  <2>2. (t + 1) * sent = m + sent
    BY <1>1, <1>2
  <2> QED
    BY <2>1, <2>2
<1>4. PICK a \in Int : a = (m + 9) \div 10
  OBVIOUS
<1>5. PICK b \in Int : b = (m + sent + 9) \div 10 - 1
  OBVIOUS
<1>6. {p \in 0 .. sent - 1 : Bucket(p) = t} = a .. b
  <2>1. \A p \in 0 .. sent - 1 : Bucket(p) = t <=> m <= 10 * p /\ 10 * p < m + sent
    BY <1>2, BucketIs
  <2>2. \A p \in Int : m <= 10 * p <=> a <= p
    BY <1>4
  <2>3. \A p \in Int : 10 * p < m + sent <=> p <= b
    BY <1>5
  <2>4. \A p \in Int : a <= p => 0 <= p
    BY <1>4
  <2>5. b <= sent - 1
    BY <1>3, <1>5
  <2>6. \A p \in a .. b : p \in 0 .. sent - 1
    BY <2>4, <2>5
  <2> QED
    BY <2>1, <2>2, <2>3, <2>6
<1>7. b - a + 1 \in sent \div 10 .. sent \div 10 + 1
  BY <1>4, <1>5
<1>8. Cardinality(a .. b) = IF a > b THEN 0 ELSE b - a + 1
  BY FS_Interval
<1>9. sent \div 10 \in Nat /\ (a > b => sent \div 10 = 0)
  BY <1>4, <1>5
<1>10. PICK q \in Nat : q = sent \div 10
  BY <1>9
<1>11. PICK c \in Int : c = Cardinality(a .. b)
  BY <1>8
<1>12. c \in q .. q + 1
  BY <1>7, <1>8, <1>9, <1>10, <1>11
<1> QED
  BY <1>6, <1>10, <1>11, <1>12

LEMMA TenthsRight == PatternInv => TenthsShareLosses
<1> SUFFICES ASSUME PatternInv, stage = "done"
             PROVE  /\ Distributed = Cardinality(Lost)
                    /\ acks = {} /\ sent > 0 =>
                         \A t, u \in Tenths : distribution[t] - distribution[u] \in -1 .. 1
  BY DEF TenthsShareLosses
<1>1. /\ losses = Lost /\ Distributed = Cardinality(losses)
      /\ \A t \in Tenths : distribution[t] = Cardinality({p \in losses : Bucket(p) = t})
  BY Zenon DEF PatternInv, ScanInv
<1>2. ASSUME acks = {}, sent > 0, NEW t \in Tenths, NEW u \in Tenths
      PROVE  distribution[t] - distribution[u] \in -1 .. 1
  <2>1. sent \in Nat \ {0} /\ Lost = 0 .. sent - 1
    BY <1>2, LostFacts DEF PatternInv, Lost
  <2>2. distribution[t] \in sent \div 10 .. sent \div 10 + 1 /\ distribution[u] \in sent \div 10 .. sent \div 10 + 1
    BY <1>1, <2>1, BucketSize
  <2>3. PICK q \in Int : q = sent \div 10
    BY <2>1
  <2> QED
    BY <2>2, <2>3
<1> QED
  BY <1>1, <1>2

\* The figures of the bursts are those of the stretches of consecutive
\* losses, a single loss being one, of every test (speedtest.js:1515-1534).
THEOREM BurstsRight == PatternSpec => []BurstsAreStretches
  BY PatternInvariance, FiguresRight, PTL

\* The tenths share the losses of every test out (speedtest.js:1488-1501).
THEOREM LossesShared == PatternSpec => []TenthsShareLosses
  BY PatternInvariance, TenthsRight, PTL

\* What the type of the losses tells, of every test (speedtest.js:1540-1548).
THEOREM TypeTold == PatternSpec => []TypeTells
  BY PatternInvariance, TypeRight, PTL

\* The figures stay what they count (speedtest.js:1463-1562).
THEOREM PatternTypes == PatternSpec => []PatternTypeOK
<1>1. PatternInv => PatternTypeOK
  BY DEF PatternInv
<1> QED
  BY <1>1, PatternInvariance, PTL

-----------------------------------------------------------------------------
(* Samples in order *)

Numbers(f) == IsFiniteSet(DOMAIN f) /\ \A k \in DOMAIN f : f[k] \in Int

\* A part of the samples has a largest one.
LEMMA LargestSample ==
  ASSUME NEW f, Numbers(f), NEW D, D \subseteq DOMAIN f, D # {}
  PROVE  \E m \in D : \A k \in D : f[k] <= f[m]
<1> DEFINE Part(m) == {k \in D : f[k] <= f[m]}
           G == {Cardinality(D) - Cardinality(Part(m)) : m \in D}
<1>1. IsFiniteSet(D) /\ Cardinality(D) \in Nat /\ \A k \in D : f[k] \in Int
  BY FS_Subset, FS_CardinalityType DEF Numbers
<1>2. \A m \in D : IsFiniteSet(Part(m)) /\ Cardinality(Part(m)) \in Nat /\ Cardinality(Part(m)) <= Cardinality(D)
  BY <1>1, FS_Subset, FS_CardinalityType
<1>3. G \subseteq Nat /\ G # {}
  <2>1. \A m \in D : Cardinality(D) - Cardinality(Part(m)) \in Nat
    <3> HIDE DEF Part
    <3> QED
      BY <1>1, <1>2
  <2> QED
    BY <2>1
<1>4. PICK m \in D : \A j \in D : Cardinality(Part(j)) <= Cardinality(Part(m))
  <2>1. Min(G) \in G /\ \A y \in G : Min(G) <= y
    <3> HIDE DEF G
    <3> QED
      BY <1>3, Least
  <2>2. PICK m \in D : Min(G) = Cardinality(D) - Cardinality(Part(m))
    BY <2>1
  <2>3. \A j \in D : Cardinality(D) - Cardinality(Part(m)) <= Cardinality(D) - Cardinality(Part(j))
    BY <2>1, <2>2
  <2> HIDE DEF Part, G
  <2> QED
    BY <1>1, <1>2, <2>3
<1>5. ASSUME NEW k \in D, ~(f[k] <= f[m]) PROVE FALSE
  <2>1. f[m] < f[k] /\ f[m] \in Int /\ f[k] \in Int
    BY <1>1, <1>5
  <2>2. k \notin Part(m) /\ Part(m) \cup {k} \subseteq Part(k)
    BY <1>1, <2>1
  <2>3. /\ IsFiniteSet(Part(m) \cup {k})
        /\ Cardinality(Part(m) \cup {k}) = Cardinality(Part(m)) + 1
    BY <1>2, <2>2, FS_AddElement
  <2>4. Cardinality(Part(m) \cup {k}) <= Cardinality(Part(k))
    BY <1>2, <2>2, FS_Subset
  <2> HIDE DEF Part
  <2> QED
    BY <1>2, <1>4, <2>3, <2>4
<1> QED
  BY <1>5

LEMMA CountsAre ==
  ASSUME NEW f, Numbers(f), NEW v
  PROVE  Size(f) \in Nat /\ Below(f, v) \in 0 .. Size(f) /\ UpTo(f, v) \in 0 .. Size(f)
<1>1. IsFiniteSet(DOMAIN f) /\ Cardinality(DOMAIN f) \in Nat
  BY FS_CardinalityType DEF Numbers
<1>2. \A S \in SUBSET DOMAIN f : Cardinality(S) \in Nat /\ Cardinality(S) <= Cardinality(DOMAIN f)
  BY <1>1, FS_Subset, FS_CardinalityType
<1>3. {k \in DOMAIN f : f[k] < v} \in SUBSET DOMAIN f /\ {k \in DOMAIN f : f[k] <= v} \in SUBSET DOMAIN f
  OBVIOUS
<1>4. /\ Below(f, v) \in Nat /\ Below(f, v) <= Cardinality(DOMAIN f)
      /\ UpTo(f, v) \in Nat /\ UpTo(f, v) <= Cardinality(DOMAIN f)
  BY <1>2, <1>3, Zenon DEF Below, UpTo
<1> QED
  BY <1>1, <1>4 DEF Size

LEMMA Smaller ==
  ASSUME NEW f, Numbers(f), NEW v \in Int, NEW w \in Int, w < v
  PROVE  UpTo(f, w) <= Below(f, v)
<1>1. {k \in DOMAIN f : f[k] <= w} \subseteq {k \in DOMAIN f : f[k] < v}
  BY DEF Numbers
<1>2. IsFiniteSet({k \in DOMAIN f : f[k] < v})
  BY FS_Subset DEF Numbers
<1> QED
  BY <1>1, <1>2, FS_Subset DEF UpTo, Below

LEMMA Itself ==
  ASSUME NEW f, Numbers(f), NEW j \in DOMAIN f
  PROVE  Below(f, f[j]) < UpTo(f, f[j])
<1> DEFINE B == {k \in DOMAIN f : f[k] < f[j]}
           U == {k \in DOMAIN f : f[k] <= f[j]}
<1>1. IsFiniteSet(B) /\ IsFiniteSet(U)
  BY FS_Subset DEF Numbers
<1>2. j \notin B /\ B \cup {j} \subseteq U
  BY DEF Numbers
<1>3. Cardinality(B \cup {j}) = Cardinality(B) + 1 /\ Cardinality(B) \in Nat /\ Cardinality(U) \in Nat
  BY <1>1, <1>2, FS_AddElement, FS_CardinalityType
<1>4. Cardinality(B \cup {j}) <= Cardinality(U)
  BY <1>1, <1>2, FS_Subset
<1> HIDE DEF B, U
<1>5. Cardinality(B) < Cardinality(U)
  BY <1>3, <1>4
<1> QED
  BY <1>5, Zenon DEF Below, UpTo, B, U

\* Of every rank there is a sample.
LEMMA SortedIs ==
  ASSUME NEW f, Numbers(f), NEW r \in 1 .. Size(f)
  PROVE  /\ Sorted(f, r) \in Range(f) /\ Sorted(f, r) \in Int
         /\ Below(f, Sorted(f, r)) < r /\ r <= UpTo(f, Sorted(f, r))
<1> DEFINE D == DOMAIN f
           R == {UpTo(f, f[j]) : j \in {k \in D : r <= UpTo(f, f[k])}}
<1>1. Size(f) \in Nat /\ \A v : Below(f, v) \in Nat /\ UpTo(f, v) \in Nat
  BY CountsAre
<1>2. D # {}
  <2> SUFFICES ASSUME D = {} PROVE FALSE
    OBVIOUS
  <2>1. Size(f) = 0
    BY FS_EmptySet DEF Size
  <2> QED
    BY <2>1
<1>3. R # {} /\ R \subseteq Nat
  <2>1. PICK m \in D : \A k \in D : f[k] <= f[m]
    BY <1>2, LargestSample
  <2>2. {k \in D : f[k] <= f[m]} = D
    BY <2>1
  <2>3. UpTo(f, f[m]) = Size(f)
    BY <2>2, Zenon DEF UpTo, Size
  <2>4. r <= UpTo(f, f[m])
    BY <1>1, <2>3
  <2>5. R # {}
    BY <2>4
  <2> QED
    BY <1>1, <2>5
<1>4. PICK j \in D : r <= UpTo(f, f[j]) /\ \A k \in D : r <= UpTo(f, f[k]) => UpTo(f, f[j]) <= UpTo(f, f[k])
  <2>1. Min(R) \in R /\ \A y \in R : Min(R) <= y
    <3> HIDE DEF R
    <3> QED
      BY <1>3, Least
  <2> QED
    BY <2>1
<1>5. Below(f, f[j]) < r
  <2> SUFFICES ASSUME ~(Below(f, f[j]) < r) PROVE FALSE
    OBVIOUS
  <2> DEFINE B == {k \in D : f[k] < f[j]}
  <2>1. r <= Below(f, f[j]) /\ Below(f, f[j]) < UpTo(f, f[j])
    BY <1>1, Itself
  <2>2. B # {}
    <3> SUFFICES ASSUME B = {} PROVE FALSE
      OBVIOUS
    <3>1. Cardinality(B) = 0
      BY FS_EmptySet
    <3>2. Below(f, f[j]) = 0
      BY <3>1, Zenon DEF Below
    <3> QED
      BY <2>1, <3>2
  <2>3. PICK m \in B : \A k \in B : f[k] <= f[m]
    BY <2>2, LargestSample
  <2>4. m \in D /\ f[m] < f[j] /\ f[m] \in Int /\ f[j] \in Int
    BY <1>4, <2>3 DEF Numbers
  <2>5. {k \in D : f[k] <= f[m]} = B
    BY <2>3, <2>4 DEF Numbers
  <2>6. UpTo(f, f[m]) = Below(f, f[j])
    BY <2>5, Zenon DEF UpTo, Below
  <2> QED
    BY <1>1, <1>4, <2>1, <2>4, <2>6
<1>6. f[j] \in Range(f)
  BY DEF Range
<1>7. /\ Sorted(f, r) \in Range(f)
      /\ Below(f, Sorted(f, r)) < r /\ r <= UpTo(f, Sorted(f, r))
  BY <1>4, <1>5, <1>6, Zenon DEF Sorted
<1> QED
  BY <1>7 DEF Numbers, Range

\* The place that percentile computes, from 1.
Place(n, p) == Max({1, (p * n + 99) \div 100})

\* r is the least rank that holds p per cent of n samples.
LeastRank(n, p, r) == 100 * r >= p * n /\ 100 * (r - 1) < p * n

LEMMA Rank ==
  ASSUME NEW n \in Nat \ {0}, NEW p \in {50, 90}
  PROVE  Place(n, p) \in 1 .. n /\ LeastRank(n, p, Place(n, p))
<1>1. PICK q \in Int : q = (p * n + 99) \div 100
  OBVIOUS
<1>2. Max({1, q}) = IF 1 >= q THEN 1 ELSE q
  BY MaxOfTwo
<1>3. CASE p = 50
  <2>1. q \in 1 .. n /\ 100 * q >= 50 * n /\ 100 * (q - 1) < 50 * n
    BY <1>1, <1>3
  <2> QED
    BY <1>1, <1>2, <1>3, <2>1 DEF Place, LeastRank
<1>4. CASE p = 90
  <2>1. q \in 1 .. n /\ 100 * q >= 90 * n /\ 100 * (q - 1) < 90 * n
    BY <1>1, <1>4
  <2> QED
    BY <1>1, <1>2, <1>4, <2>1 DEF Place, LeastRank
<1> QED
  BY <1>3, <1>4

LEMMA NearestRank ==
  ASSUME NEW f, Numbers(f), DOMAIN f # {}, NEW p \in {50, 90}
  PROVE  /\ Percentile(f, p) \in Range(f) /\ Percentile(f, p) \in Int
         /\ Size(f) \in Nat \ {0} /\ Place(Size(f), p) \in 1 .. Size(f)
         /\ Below(f, Percentile(f, p)) < Place(Size(f), p) /\ Place(Size(f), p) <= UpTo(f, Percentile(f, p))
<1>1. Size(f) \in Nat \ {0}
  BY FS_EmptySet, FS_CardinalityType DEF Numbers, Size
<1>2. Place(Size(f), p) \in 1 .. Size(f)
  BY <1>1, Rank
<1>3. Percentile(f, p) = Sorted(f, Place(Size(f), p))
  BY Zenon DEF Percentile, Place
<1> QED
  BY <1>1, <1>2, <1>3, SortedIs

-----------------------------------------------------------------------------
(* What the samples of a test are *)

LEMMA SamplesKeepTypes == TypeOK /\ [Next]_vars => TypeOK'
<1> SUFFICES ASSUME TypeOK, [Next]_vars PROVE TypeOK'
  OBVIOUS
<1>1. CASE Probe
  BY <1>1 DEF TypeOK, Probe, MoreSamples
<1>2. CASE Download
  BY <1>2 DEF TypeOK, Download, MoreSamples
<1>3. CASE Upload
  BY <1>3 DEF TypeOK, Upload, MoreSamples
<1>4. CASE PacketTest
  BY <1>4 DEF TypeOK, PacketTest
<1>5. CASE UNCHANGED vars
  BY <1>5 DEF TypeOK, vars
<1> QED
  BY <1>1, <1>2, <1>3, <1>4, <1>5 DEF Next

\* A test keeps lists of samples, and one result of the packet test
\* (speedtest.js:1304-1364).
THEOREM SummaryTypes == Spec => []TypeOK
<1>1. Init => TypeOK
  BY DEF Init, TypeOK
<1> QED
  BY <1>1, SamplesKeepTypes, PTL DEF Spec

\* A part of a list of numbers is a list of numbers.
LEMMA PartNumbers ==
  ASSUME NEW f, Numbers(f), NEW S, S \subseteq DOMAIN f
  PROVE  Numbers(Restrict(f, S)) /\ DOMAIN Restrict(f, S) = S /\ \A k \in S : Restrict(f, S)[k] = f[k]
<1>1. IsFiniteSet(S)
  BY FS_Subset DEF Numbers
<1>2. DOMAIN Restrict(f, S) = S /\ \A k \in S : Restrict(f, S)[k] = f[k]
  BY DEF Restrict
<1> QED
  BY <1>1, <1>2 DEF Numbers

LEMMA SequenceNumbers ==
  ASSUME NEW s, NEW V, s \in Seq(V), NEW f, DOMAIN f = DOMAIN s, \A k \in DOMAIN s : f[k] \in Int
  PROVE  Numbers(f)
<1>1. DOMAIN s = 1 .. Len(s) /\ Len(s) \in Int
  OBVIOUS
<1>2. IsFiniteSet(1 .. Len(s))
  BY <1>1, FS_Interval
<1> QED
  BY <1>1, <1>2 DEF Numbers

LEMMA WarmNumbers ==
  ASSUME TypeOK
  PROVE  /\ Numbers(unloaded) /\ Numbers(Warm) /\ DOMAIN Warm \subseteq DOMAIN unloaded
         /\ \A k \in DOMAIN Warm : Warm[k] \in Nat
<1>1. unloaded \in Seq(Rtts) /\ Rtts \subseteq Nat
  BY SummaryAssumption DEF TypeOK
<1>2. \A k \in DOMAIN unloaded : unloaded[k] \in Nat
  <2>1. \A k \in DOMAIN unloaded : unloaded[k] \in Rtts
    BY <1>1
  <2> QED
    BY <1>1, <2>1
<1>3. Numbers(unloaded)
  BY <1>1, <1>2, SequenceNumbers
<1>4. 3 .. Len(unloaded) \subseteq DOMAIN unloaded
  BY <1>1
<1>5. DOMAIN Warm = 3 .. Len(unloaded) /\ Numbers(Warm) /\ \A k \in 3 .. Len(unloaded) : Warm[k] = unloaded[k]
  BY <1>3, <1>4, PartNumbers, Zenon DEF Warm
<1> QED
  BY <1>2, <1>3, <1>4, <1>5

\* The measured speed of a direction is a number.
LEMMA SpeedType ==
  ASSUME NEW s \in Seq(Transfers)
  PROVE  Percentile(Timed(s), 90) \in Int
<1>1. \A t \in Transfers : t.mbps \in Int
  BY SummaryAssumption
<1>2. DOMAIN Speeds(s) = DOMAIN s /\ \A k \in DOMAIN s : Speeds(s)[k] \in Int
  BY <1>1 DEF Speeds
<1>3. Numbers(Speeds(s))
  BY <1>2, SequenceNumbers
<1>4. Numbers(Timed(s))
  <2>1. {k \in DOMAIN s : s[k].timed} \subseteq DOMAIN Speeds(s)
    BY <1>2
  <2> QED
    BY <1>3, <2>1, PartNumbers, Zenon DEF Timed
<1>5. CASE DOMAIN Timed(s) = {}
  BY <1>5 DEF Percentile
<1>6. CASE DOMAIN Timed(s) # {}
  BY <1>4, <1>6, NearestRank
<1> QED
  BY <1>5, <1>6

-----------------------------------------------------------------------------
(* Percentiles and outliers *)

LEMMA RanksRight == TypeOK => PercentileIsNearestRank
<1> SUFFICES ASSUME TypeOK, NEW p \in {50, 90}, unloaded # <<>>
             PROVE  IsNearestRank(unloaded, p, Percentile(unloaded, p))
  BY Zenon DEF PercentileIsNearestRank
<1>1. Numbers(unloaded) /\ unloaded \in Seq(Rtts)
  BY WarmNumbers DEF TypeOK
<1>2. DOMAIN unloaded = 1 .. Len(unloaded) /\ DOMAIN unloaded # {} /\ Len(unloaded) \in Nat \ {0}
  BY <1>1
<1>3. Size(unloaded) = Len(unloaded)
  BY <1>2, FS_Interval DEF Size
<1>4. PICK v \in Int, n \in Nat \ {0} : v = Percentile(unloaded, p) /\ n = Len(unloaded)
  BY <1>1, <1>2, NearestRank
<1>5. PICK r \in 1 .. n : r = Place(n, p) /\ Below(unloaded, v) < r /\ r <= UpTo(unloaded, v)
  <2>1. /\ Place(Size(unloaded), p) \in 1 .. Size(unloaded)
        /\ Below(unloaded, Percentile(unloaded, p)) < Place(Size(unloaded), p)
        /\ Place(Size(unloaded), p) <= UpTo(unloaded, Percentile(unloaded, p))
    BY <1>1, <1>2, NearestRank
  <2> QED
    BY <1>3, <1>4, <2>1, Zenon
<1>6. 100 * r >= p * n /\ 100 * (r - 1) < p * n
  <2>1. LeastRank(n, p, Place(n, p))
    BY Rank
  <2> QED
    BY <1>5, <2>1, Zenon DEF LeastRank
<1>7. v \in ToSet(unloaded)
  <2>1. v \in Range(unloaded)
    BY <1>1, <1>2, <1>4, NearestRank
  <2> QED
    BY <2>1 DEF Range, ToSet
<1>8. PICK m \in Int : m = p * n
  BY <1>4
<1>9. 100 * UpTo(unloaded, v) >= m
  <2>1. PICK u \in Nat : u = UpTo(unloaded, v)
    BY <1>1, CountsAre
  <2>2. r <= u /\ r \in Int
    BY <1>5, <2>1
  <2>3. 100 * r >= m
    BY <1>6, <1>8
  <2> QED
    BY <2>1, <2>2, <2>3
<1>10. ASSUME NEW w \in ToSet(unloaded), w < v PROVE 100 * UpTo(unloaded, w) < m
  <2>1. w \in Int
    BY <1>1 DEF ToSet, Numbers
  <2>2. UpTo(unloaded, w) <= Below(unloaded, v)
    BY <1>1, <1>4, <1>10, <2>1, Smaller
  <2>3. UpTo(unloaded, w) \in Nat /\ Below(unloaded, v) \in Nat
    BY <1>1, CountsAre
  <2> QED
    BY <1>5, <1>6, <1>8, <2>2, <2>3
<1> QED
  BY <1>4, <1>7, <1>8, <1>9, <1>10 DEF IsNearestRank

\* percentile returns the nearest rank, however many samples there are
\* (speedtest.js:1430-1435).
THEOREM RanksAreNearest == Spec => []PercentileIsNearestRank
<1> QED
  BY RanksRight, SummaryTypes, PTL

\* Of five samples or more the quartiles are not the largest.
LEMMA Quartiles ==
  ASSUME NEW n \in Nat, n >= 5
  PROVE  /\ n \div 4 + 1 \in 1 .. n - 1 /\ (3 * n) \div 4 + 1 \in 1 .. n - 1
         /\ n \div 4 + 1 <= (3 * n) \div 4 + 1
         /\ 2 * ((3 * n) \div 4 + 1 - n \div 4) >= n
  OBVIOUS

\* A spike is no sample of a lower rank than the last.
LEMMA SortedOfOthers ==
  ASSUME NEW f, Numbers(f), NEW j \in DOMAIN f, \A k \in DOMAIN f \ {j} : f[k] < f[j],
         NEW r \in 1 .. Size(f) - 1
  PROVE  \E k \in DOMAIN f \ {j} : Sorted(f, r) = f[k]
<1>1. Size(f) \in Nat
  BY CountsAre
<1>2. r \in 1 .. Size(f)
  BY <1>1
<1>3. PICK k \in DOMAIN f : Sorted(f, r) = f[k] /\ Below(f, f[k]) < r
  BY <1>2, SortedIs DEF Range
<1>4. k # j
  <2> SUFFICES ASSUME k = j PROVE FALSE
    OBVIOUS
  <2>1. {m \in DOMAIN f : f[m] < f[j]} = DOMAIN f \ {j}
    BY DEF Numbers
  <2>2. Cardinality(DOMAIN f \ {j}) = Cardinality(DOMAIN f) - 1
    BY FS_RemoveElement DEF Numbers
  <2>3. Below(f, f[j]) = Size(f) - 1
    BY <2>1, <2>2, Zenon DEF Below, Size
  <2> QED
    BY <1>1, <1>3, <2>3
<1> QED
  BY <1>3, <1>4

\* What lies between two ranks.
LEMMA Between ==
  ASSUME NEW f, Numbers(f), NEW v \in Int, NEW w \in Int, v <= w
  PROVE  Cardinality({k \in DOMAIN f : v <= f[k] /\ f[k] <= w}) = UpTo(f, w) - Below(f, v)
<1> DEFINE U == {k \in DOMAIN f : f[k] <= w}
           B == {k \in DOMAIN f : f[k] < v}
           M == {k \in DOMAIN f : v <= f[k] /\ f[k] <= w}
<1>1. IsFiniteSet(U) /\ IsFiniteSet(B)
  BY FS_Subset DEF Numbers
<1>2. U \ B = M /\ U \cap B = B
  BY DEF Numbers
<1>3. Cardinality(U \ B) = Cardinality(U) - Cardinality(U \cap B)
  BY <1>1, FS_Difference
<1> HIDE DEF M
<1> QED
  BY <1>2, <1>3, Zenon DEF UpTo, Below, M

LEMMA SpikeIsFiltered ==
  ASSUME NEW f, Numbers(f), Size(f) >= 5, NEW j \in DOMAIN f, NEW lo \in Int, NEW hi \in Int,
         \A k \in DOMAIN f \ {j} : lo <= f[k] /\ f[k] <= hi, 2 * f[j] > 5 * hi - 3 * lo
  PROVE  FilterOutliers(f) = Restrict(f, Inside(f)) /\ Inside(f) # {} /\ Inside(f) \subseteq DOMAIN f \ {j}
<1>1. PICK n \in Nat : n = Size(f) /\ n >= 5
  BY CountsAre
<1>2. f[j] \in Int /\ \A k \in DOMAIN f : f[k] \in Int
  BY DEF Numbers
<1>3. lo <= hi
  <2>1. DOMAIN f \ {j} # {}
    <3> SUFFICES ASSUME DOMAIN f \ {j} = {} PROVE FALSE
      OBVIOUS
    <3>1. DOMAIN f = {j}
      OBVIOUS
    <3>2. Size(f) = 1
      BY <3>1, FS_Singleton, Zenon DEF Size
    <3> QED
      BY <1>1, <3>2
  <2> QED
    BY <1>2, <2>1
<1>4. \A k \in DOMAIN f \ {j} : f[k] < f[j]
  BY <1>2, <1>3
<1>5. PICK a, b \in 1 .. n - 1 : /\ a = n \div 4 + 1 /\ b = (3 * n) \div 4 + 1
                                 /\ a <= b /\ 2 * (b - a + 1) >= n
  BY <1>1, Quartiles
<1>6. PICK q1, q3 \in Int : /\ q1 = Sorted(f, a) /\ q3 = Sorted(f, b)
                            /\ lo <= q1 /\ q1 <= hi /\ lo <= q3 /\ q3 <= hi
  BY <1>1, <1>2, <1>4, <1>5, SortedOfOthers
<1>7. Below(f, q1) < a /\ b <= UpTo(f, q3) /\ Below(f, q1) \in Nat /\ UpTo(f, q3) \in Nat
  BY <1>1, <1>5, <1>6, SortedIs, CountsAre
<1>8. q1 <= q3
  <2> SUFFICES ASSUME q3 < q1 PROVE FALSE
    BY <1>6
  <2>1. UpTo(f, q3) <= Below(f, q1)
    BY <1>6, Smaller
  <2> QED
    BY <1>5, <1>7, <2>1
<1> DEFINE In == {k \in DOMAIN f : 5 * q1 - 3 * q3 <= 2 * f[k] /\ 2 * f[k] <= 5 * q3 - 3 * q1}
           M  == {k \in DOMAIN f : q1 <= f[k] /\ f[k] <= q3}
<1>9. Inside(f) = In
  BY <1>1, <1>5, <1>6, Zenon DEF Inside
<1>10. M \subseteq In
  BY <1>2, <1>6, <1>8
<1>11. j \notin In
  BY <1>2, <1>6
<1>12. Cardinality(M) = UpTo(f, q3) - Below(f, q1)
  BY <1>6, <1>8, Between
<1>13. 2 * Cardinality(In) >= n /\ Cardinality(In) \in Nat
  <2>1. IsFiniteSet(In)
    BY FS_Subset DEF Numbers
  <2>2. Cardinality(M) <= Cardinality(In) /\ Cardinality(In) \in Nat
    BY <1>10, <2>1, FS_Subset, FS_CardinalityType
  <2> HIDE DEF In, M
  <2>3. Cardinality(M) >= b - a + 1
    BY <1>5, <1>7, <1>12
  <2>4. Cardinality(M) \in Int
    BY <1>7, <1>12
  <2> QED
    BY <1>5, <2>2, <2>3, <2>4
<1>14. In # {}
  <2> HIDE DEF M
  <2> SUFFICES ASSUME In = {} PROVE FALSE
    OBVIOUS
  <2>1. Cardinality(In) = 0
    BY FS_EmptySet
  <2> HIDE DEF In
  <2> QED
    BY <1>1, <1>13, <2>1
<1>15. FilterOutliers(f) = Restrict(f, Inside(f))
  <2> HIDE DEF In, M
  <2>1. ~(Size(f) < 4) /\ ~(2 * Cardinality(Inside(f)) < Size(f))
    BY <1>1, <1>9, <1>13
  <2> QED
    BY <2>1 DEF FilterOutliers, Enough
<1> QED
  BY <1>9, <1>11, <1>14, <1>15

LEMMA SpikeUncounted == TypeOK => SpikeDoesNotCount
<1> DEFINE others(j) == {Warm[k] : k \in DOMAIN Warm \ {j}}
<1> SUFFICES ASSUME TypeOK, Size(Warm) >= 5, NEW j \in DOMAIN Warm,
                    2 * Warm[j] > 5 * Max(others(j)) - 3 * Min(others(j))
             PROVE  /\ Summary.latencyMs <= Max(others(j))
                    /\ Summary.jitterMs <= Max(others(j)) - Min(others(j))
  BY Zenon DEF SpikeDoesNotCount
<1> DEFINE D == DOMAIN Warm \ {j}
<1>1. Numbers(Warm) /\ \A k \in DOMAIN Warm : Warm[k] \in Nat
  BY WarmNumbers
<1>2. D # {}
  <2> SUFFICES ASSUME D = {} PROVE FALSE
    OBVIOUS
  <2>1. DOMAIN Warm = {j}
    OBVIOUS
  <2>2. Size(Warm) = 1
    BY <2>1, FS_Singleton, Zenon DEF Size
  <2> QED
    BY <2>2
<1>3. PICK hi \in Int : hi = Max(others(j)) /\ \A k \in D : Warm[k] <= hi
  <2>1. PICK m \in D : \A k \in D : Warm[k] <= Warm[m]
    BY <1>1, <1>2, LargestSample
  <2>2. Warm[m] \in others(j) /\ others(j) \subseteq Int /\ \A y \in others(j) : Warm[m] >= y
    BY <1>1, <2>1
  <2>3. Max(others(j)) = Warm[m]
    <3> HIDE DEF others
    <3> QED
      BY <2>2, LargestIs
  <2>4. Warm[m] \in Int
    BY <1>1
  <2> HIDE DEF others
  <2> QED
    BY <2>1, <2>3, <2>4
<1>4. PICK lo \in Int : lo = Min(others(j)) /\ \A k \in D : lo <= Warm[k]
  <2>1. others(j) \subseteq Nat /\ others(j) # {}
    BY <1>1, <1>2
  <2>2. Min(others(j)) \in others(j) /\ \A y \in others(j) : Min(others(j)) <= y
    <3> HIDE DEF others
    <3> QED
      BY <2>1, Least
  <2>3. \A k \in D : Warm[k] \in others(j)
    OBVIOUS
  <2>4. Min(others(j)) \in Int
    BY <2>1, <2>2
  <2> HIDE DEF others
  <2> QED
    BY <2>2, <2>3, <2>4
<1> HIDE DEF others
<1> DEFINE kept == FilterOutliers(Warm)
           S    == Inside(Warm)
<1>5. kept = Restrict(Warm, S) /\ S # {} /\ S \subseteq D
  BY <1>1, <1>3, <1>4, SpikeIsFiltered
<1>6. Numbers(kept) /\ DOMAIN kept = S /\ \A k \in S : kept[k] = Warm[k]
  BY <1>1, <1>5, PartNumbers
<1> HIDE DEF kept, S
<1>7. \A p \in {50, 90} : Percentile(kept, p) \in Int /\ \E k \in S : Percentile(kept, p) = Warm[k]
  BY <1>5, <1>6, NearestRank DEF Range
<1>8. \A p \in {50, 90} : Percentile(kept, p) \in Int /\ lo <= Percentile(kept, p) /\ Percentile(kept, p) <= hi
  BY <1>3, <1>4, <1>5, <1>7
<1>9. /\ Summary.latencyMs = Percentile(kept, 50)
      /\ Summary.jitterMs = Percentile(kept, 90) - Percentile(kept, 50)
  BY DEF Summary, kept
<1> QED
  BY <1>3, <1>4, <1>8, <1>9

\* Of five probes or more, any number and whatever their RTTs, one that is
\* delayed far enough is filtered out and shows in neither latency nor jitter
\* (speedtest.js:1442-1457).
THEOREM SpikesDoNotCount == Spec => []SpikeDoesNotCount
<1> QED
  BY SpikeUncounted, SummaryTypes, PTL

-----------------------------------------------------------------------------
(* Grades *)

Threshold == [speed : Int, lat : Int, jitter : Int, lost : Int]

LEMMA ThresholdType ==
  ASSUME NEW use \in Uses, NEW g \in 1 .. 3
  PROVE  Thresholds[use][g] \in Threshold
<1>1. \A a, b, c, d \in Int : T(a, b, c, d) \in Threshold
  <2> SUFFICES ASSUME NEW a \in Int, NEW b \in Int, NEW c \in Int, NEW d \in Int
               PROVE  T(a, b, c, d) \in Threshold
    OBVIOUS
  <2>1. 100 * a \in Int /\ 100 * b \in Int /\ 100 * c \in Int /\ 10 * d \in Int
    OBVIOUS
  <2> QED
    BY <2>1, Zenon DEF T, Threshold
<1>2. use \in {"videoStreaming", "gaming", "videoChatting"}
  BY DEF Uses, Thresholds
<1>3. g = 1 \/ g = 2 \/ g = 3
  OBVIOUS
<1>4. Thresholds["videoStreaming"][g] \in Threshold
  BY <1>1, <1>3 DEF Thresholds
<1>5. Thresholds["gaming"][g] \in Threshold
  BY <1>1, <1>3 DEF Thresholds
<1>6. Thresholds["videoChatting"][g] \in Threshold
  BY <1>1, <1>3 DEF Thresholds
<1> QED
  BY <1>2, <1>4, <1>5, <1>6

\* Higher speeds and less loss meet every threshold that was met.
LEMMA MeetsMore ==
  ASSUME NEW s, NEW b, NEW use \in Uses, NEW g \in 1 .. 3, Meets(s, use, Thresholds[use][g]),
         s.downloadMbps \in Int, s.uploadMbps \in Int, s.loss \in Int,
         b.downloadMbps \in Int, b.uploadMbps \in Int, b.loss \in Int,
         b.latencyMs = s.latencyMs, b.jitterMs = s.jitterMs,
         b.downloadMbps >= s.downloadMbps, b.uploadMbps >= s.uploadMbps, b.loss <= s.loss
  PROVE  Meets(b, use, Thresholds[use][g])
<1>1. PICK t \in Threshold : t = Thresholds[use][g]
  BY ThresholdType
<1>2. t.speed \in Int /\ t.lost \in Int
  BY DEF Threshold
<1>3. \A x, y \in Int : Min({x, y}) = IF x <= y THEN x ELSE y
  <2> SUFFICES ASSUME NEW x \in Int, NEW y \in Int PROVE Min({x, y}) = IF x <= y THEN x ELSE y
    OBVIOUS
  <2>1. CASE x <= y
    BY <2>1, LeastIs
  <2>2. CASE y < x
    <3>1. {x, y} \subseteq Int /\ y \in {x, y} /\ \A z \in {x, y} : y <= z
      BY <2>2
    <3>2. Min({x, y}) = y
      BY <3>1, LeastIs
    <3> QED
      BY <2>2, <3>2
  <2> QED
    BY <2>1, <2>2
<1> DEFINE Speed(r) == IF use = "videoChatting" THEN Min({r.downloadMbps, r.uploadMbps}) ELSE r.downloadMbps
<1>4. \A r : Meets(r, use, t) <=> Speed(r) >= t.speed /\ r.latencyMs <= t.lat /\ r.jitterMs <= t.jitter /\ r.loss <= t.lost
  BY DEF Meets
<1>5. Speed(s) \in Int /\ Speed(b) \in Int /\ Speed(b) >= Speed(s)
  BY <1>3
<1> HIDE DEF Speed
<1>6. Speed(s) >= t.speed /\ s.latencyMs <= t.lat /\ s.jitterMs <= t.jitter /\ s.loss <= t.lost
  BY <1>1, <1>4
<1>7. Speed(b) >= t.speed /\ b.loss <= t.lost
  BY <1>2, <1>5, <1>6
<1>8. b.latencyMs <= t.lat /\ b.jitterMs <= t.jitter
  BY <1>6, Zenon
<1> QED
  BY <1>1, <1>4, <1>7, <1>8

\* Of some of the grades from 0 on there is a largest one.
LEMMA LargestGrade ==
  ASSUME NEW S, S \subseteq 0 .. 3, 0 \in S
  PROVE  Max(S) \in S /\ \A g \in S : Max(S) >= g
<1>1. \E m \in S : \A g \in S : m >= g
  <2>1. CASE 3 \in S
    BY <2>1
  <2>2. CASE 3 \notin S /\ 2 \in S
    BY <2>2
  <2>3. CASE 3 \notin S /\ 2 \notin S /\ 1 \in S
    BY <2>3
  <2>4. CASE 3 \notin S /\ 2 \notin S /\ 1 \notin S
    BY <2>4
  <2> QED
    BY <2>1, <2>2, <2>3, <2>4
<1> QED
  BY <1>1, Zenon DEF Max

LEMMA QualityGrows ==
  ASSUME NEW s, NEW b,
         s.downloadMbps \in Int, s.uploadMbps \in Int, s.loss \in Int,
         b.downloadMbps \in Int, b.uploadMbps \in Int, b.loss \in Int,
         b.latencyMs = s.latencyMs, b.jitterMs = s.jitterMs,
         b.downloadMbps >= s.downloadMbps, b.uploadMbps >= s.uploadMbps, b.loss <= s.loss,
         NEW use \in Uses
  PROVE  Quality(b)[use] >= Quality(s)[use]
<1> DEFINE Met(r) == {0} \cup {g \in 1 .. 3 : Meets(r, use, Thresholds[use][g])}
<1>1. Quality(s)[use] = Max(Met(s)) /\ Quality(b)[use] = Max(Met(b))
  BY DEF Quality
<1>2. Met(s) \subseteq Met(b)
  BY MeetsMore
<1>3. Met(s) \subseteq 0 .. 3 /\ 0 \in Met(s) /\ Met(b) \subseteq 0 .. 3 /\ 0 \in Met(b)
  OBVIOUS
<1> HIDE DEF Met
<1>4. Max(Met(s)) \in Met(s) /\ \A g \in Met(b) : Max(Met(b)) >= g
  BY <1>3, LargestGrade
<1> QED
  BY <1>1, <1>2, <1>4

LEMMA LossType ==
  ASSUME NEW p \in PacketTests \cup {NotTested}
  PROVE  Loss(p) \in Int
<1>1. p.sent \in Nat /\ p.received \in Nat
  <2>1. CASE p \in PacketTests
    <3>1. p \in [sent : Nat, received : Nat, unavailable : BOOLEAN]
      BY <2>1, SummaryAssumption, Zenon
    <3> QED
      BY <3>1
  <2>2. CASE p = NotTested
    BY <2>2 DEF NotTested
  <2> QED
    BY <2>1, <2>2
<1>2. CASE p.unavailable \/ p.sent = 0
  <2>1. Loss(p) = 0
    BY <1>2 DEF Loss
  <2> QED
    BY <2>1
<1>3. CASE ~(p.unavailable \/ p.sent = 0)
  <2>1. ((p.sent - p.received) * 10000) \div p.sent \in Int
    BY <1>1, <1>3
  <2>2. Loss(p) = ((p.sent - p.received) * 10000) \div p.sent
    BY <1>3 DEF Loss
  <2> QED
    BY <2>1, <2>2
<1> QED
  BY <1>2, <1>3

LEMMA GradesRight == TypeOK => GradesFollow
<1> SUFFICES ASSUME TypeOK,
                    NEW d \in {0} \cup {t.mbps : t \in Transfers}, NEW u \in {0} \cup {t.mbps : t \in Transfers},
                    NEW p \in PacketTests, NEW use \in Uses,
                    d >= Summary.downloadMbps, u >= Summary.uploadMbps, Loss(p) <= Summary.loss
             PROVE  Quality([Summary EXCEPT !.downloadMbps = d, !.uploadMbps = u, !.loss = Loss(p)])[use]
                      >= Quality(Summary)[use]
  BY Zenon DEF GradesFollow
<1>1. d \in Int /\ u \in Int
  <2>1. \A t \in Transfers : t.mbps \in Int
    BY SummaryAssumption
  <2> QED
    BY <2>1
<1>2. PICK dl, ul, lat, jit : Summary = [downloadMbps |-> dl, uploadMbps |-> ul, latencyMs |-> lat,
                                         jitterMs |-> jit, loss |-> Loss(packetLoss)]
  BY Zenon DEF Summary
<1> DEFINE s == [downloadMbps |-> dl, uploadMbps |-> ul, latencyMs |-> lat, jitterMs |-> jit,
                 loss |-> Loss(packetLoss)]
           b == [s EXCEPT !.downloadMbps = d, !.uploadMbps = u, !.loss = Loss(p)]
<1>3. s.downloadMbps = dl /\ s.uploadMbps = ul /\ s.loss = Loss(packetLoss)
  OBVIOUS
<1>4. /\ b.downloadMbps = d /\ b.uploadMbps = u /\ b.loss = Loss(p)
      /\ b.latencyMs = s.latencyMs /\ b.jitterMs = s.jitterMs
  OBVIOUS
<1>5. dl \in Int /\ ul \in Int /\ d >= dl /\ u >= ul /\ Loss(p) <= Loss(packetLoss)
  <2>1. dl = Percentile(Timed(downloads), 90) /\ ul = Percentile(Timed(uploads), 90)
    BY <1>2 DEF Summary
  <2>2. downloads \in Seq(Transfers) /\ uploads \in Seq(Transfers)
    BY DEF TypeOK
  <2>3. dl \in Int /\ ul \in Int
    BY <2>1, <2>2, SpeedType
  <2> QED
    BY <1>2, <1>3, <2>3
<1>6. Loss(p) \in Int /\ Loss(packetLoss) \in Int
  BY LossType DEF TypeOK
<1> HIDE DEF s, b
<1>7. Quality(b)[use] >= Quality(s)[use]
  BY <1>1, <1>3, <1>4, <1>5, <1>6, QualityGrows
<1> QED
  BY <1>2, <1>7 DEF s, b

\* A test with higher speeds or less loss gets no lower grade, whatever the
\* samples, the thresholds met and the transfers were (speedtest.js:1386-1425).
THEOREM BetterGradesNoWorse == Spec => []GradesFollow
<1> QED
  BY GradesRight, SummaryTypes, PTL
=============================================================================
