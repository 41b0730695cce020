----------------------------- MODULE AdaptiveProofs ----------------------------
(***************************************************************************)
(* The throughput phase, for any speeds, any limit of the server and       *)
(* whatever disturbs it.                                                   *)
(***************************************************************************)
EXTENDS AdaptiveRuns, FiniteSetTheorems, TLAPS

\* The larger batches that are selected and still to come, the current one
\* included.
Remaining == {p \in selected \cap Larger : p >= profile}

\* Where the loops stand.
LoopInv ==
  /\ stage = "base" => profile \in {1, 2} /\ i <= Runs(profile)
  /\ stage = "select" => profile = 3 /\ i = 0
  /\ stage \in {"batch", "run", "loaded"} => profile \in 3 .. Len(Table[dir]) + 1 /\ selected \subseteq Profiles
  /\ stage = "run" => profile \in selected \cap Larger /\ i <= Runs(profile) /\ speed > 0
  /\ stage \in {"batch", "loaded"} => i = 0
  /\ stage = "loaded" => Stopped \/ profile \notin Larger

\* The runs the baseline batches have made so far.
BaseMade ==
  CASE stage = "base" -> (IF profile = 1 THEN 0 ELSE Runs(1)) + i
    [] OTHER -> Baseline

\* What is made and what is still to be made add up to what is expected, or
\* to less when a run failed.
CountInv ==
  LET counted == IF stage \in {"base", "select"} THEN BaseMade ELSE expected
      made    == IF stage \in {"base", "select"} THEN totalRuns
                 ELSE totalRuns + RunsOf(Remaining) - i
  IN  /\ made <= counted
      /\ event \cap {"failure", "stop"} = {} => made = counted

\* The rest of a batch fits into the rest of the budget, but for what the
\* batch is late.
TimeInv ==
  /\ elapsed <= Budget + late
  /\ stage = "run" => /\ (Runs(profile) - i) * Estimated <= Budget
                      /\ elapsed + (Runs(profile) - i) * Estimated <= Budget + late

AInv ==
  /\ TypeOK /\ LoopInv /\ CountInv /\ TimeInv

-----------------------------------------------------------------------------
(* The tables *)

Profile == [size : Nat \ {0}, runs : 1 .. 10]

LEMMA ProfileType ==
  ASSUME NEW size \in Nat \ {0}, NEW runs \in 1 .. 10
  PROVE  P(size, runs) \in Profile
  BY Zenon DEF P, Profile

LEMMA TableType ==
  /\ DOMAIN Table = {"download", "upload"}
  /\ \A d \in DOMAIN Table : Table[d] \in Seq(Profile) /\ Len(Table[d]) \in 14 .. 15
<1>1. DOMAIN Table = {"download", "upload"}
  BY DEF Table
<1>2. Table["download"] \in Seq(Profile) /\ Len(Table["download"]) = 14
  BY ProfileType DEF Table
<1>3. Table["upload"] \in Seq(Profile) /\ Len(Table["upload"]) = 15
  BY ProfileType DEF Table
<1> QED
  BY <1>1, <1>2, <1>3

LEMMA TableFacts ==
  ASSUME dir \in DOMAIN Table
  PROVE  /\ Len(Table[dir]) \in 14 .. 15 /\ Profiles = 1 .. Len(Table[dir])
         /\ Larger = 3 .. Len(Table[dir]) /\ Larger \subseteq Profiles
         /\ 1 \in Profiles /\ 2 \in Profiles
         /\ \A p \in Profiles : Runs(p) \in 1 .. 10 /\ Size(p) \in Nat \ {0}
<1>1. Table[dir] \in Seq(Profile) /\ Len(Table[dir]) \in 14 .. 15
  BY TableType
<1>2. Profiles = 1 .. Len(Table[dir])
  BY <1>1 DEF Profiles
<1>3. Larger = 3 .. Len(Table[dir])
  BY <1>1, <1>2 DEF Larger
<1>4. ASSUME NEW p \in Profiles PROVE Runs(p) \in 1 .. 10 /\ Size(p) \in Nat \ {0}
  <2>1. Table[dir][p] \in Profile
    BY <1>1, <1>2
  <2> QED
    BY <2>1, Zenon DEF Profile, Runs, Size
<1>5. Larger \subseteq Profiles /\ 1 \in Profiles /\ 2 \in Profiles
  <2>1. PICK n \in 14 .. 15 : n = Len(Table[dir])
    BY <1>1
  <2>2. Profiles = 1 .. n /\ Larger = 3 .. n
    BY <1>2, <1>3, <2>1
  <2> QED
    BY <2>2
<1> QED
  BY <1>1, <1>2, <1>3, <1>4, <1>5

-----------------------------------------------------------------------------
(* Sums of runs *)

\* The runs of the profiles of S, as the pairs that RunsOf counts.
RunsIn(S) == {r \in S \X (1 .. 10) : r[2] <= Runs(r[1])}

LEMMA RunsFinite ==
  ASSUME dir \in DOMAIN Table, NEW S, S \subseteq Profiles
  PROVE  IsFiniteSet(RunsIn(S)) /\ RunsOf(S) = Cardinality(RunsIn(S)) /\ RunsOf(S) \in Nat
<1>1. IsFiniteSet(Profiles) /\ IsFiniteSet(1 .. 10)
  <2>1. Profiles = 1 .. Len(Table[dir]) /\ Len(Table[dir]) \in Int /\ 1 \in Int /\ 10 \in Int
    BY TableFacts
  <2>2. IsFiniteSet(1 .. Len(Table[dir]))
    BY <2>1, FS_Interval
  <2>3. IsFiniteSet(1 .. 10)
    BY <2>1, FS_Interval
  <2> QED
    BY <2>1, <2>2, <2>3
<1>2. IsFiniteSet(S)
  BY <1>1, FS_Subset
<1>3. IsFiniteSet(S \X (1 .. 10))
  BY <1>1, <1>2, FS_Product
<1>4. RunsIn(S) \subseteq S \X (1 .. 10)
  BY DEF RunsIn
<1>5. IsFiniteSet(RunsIn(S))
  BY <1>3, <1>4, FS_Subset
<1> QED
  BY <1>5, FS_CardinalityType DEF RunsOf, RunsIn

LEMMA RunsOfNone == RunsOf({}) = 0
<1>1. {r \in {} \X (1 .. 10) : r[2] <= Runs(r[1])} = {}
  OBVIOUS
<1> QED
  BY <1>1, FS_EmptySet DEF RunsOf

LEMMA RunsOfOne ==
  ASSUME dir \in DOMAIN Table, NEW p \in Profiles
  PROVE  RunsOf({p}) = Runs(p)
<1>1. Runs(p) \in 1 .. 10
  BY TableFacts
<1>2. RunsIn({p}) = {p} \X (1 .. Runs(p))
  BY <1>1 DEF RunsIn
<1>3. IsFiniteSet({p}) /\ Cardinality({p}) = 1
  BY FS_Singleton
<1>4. IsFiniteSet(1 .. Runs(p)) /\ Cardinality(1 .. Runs(p)) = Runs(p)
  BY <1>1, FS_Interval
<1>5. Cardinality({p} \X (1 .. Runs(p))) = 1 * Runs(p)
  <2>1. Cardinality({p} \X (1 .. Runs(p))) = Cardinality({p}) * Cardinality(1 .. Runs(p))
    BY <1>3, <1>4, FS_Product, Zenon
  <2> QED
    BY <1>3, <1>4, <2>1, Zenon
<1>6. RunsOf({p}) = Cardinality(RunsIn({p}))
  BY RunsFinite
<1>7. 1 * Runs(p) = Runs(p)
  BY <1>1
<1> QED
  BY <1>2, <1>5, <1>6, <1>7

LEMMA RunsOfDisjoint ==
  ASSUME dir \in DOMAIN Table, NEW S, NEW T, S \subseteq Profiles, T \subseteq Profiles, S \cap T = {}
  PROVE  RunsOf(S \cup T) = RunsOf(S) + RunsOf(T)
<1>1. RunsIn(S \cup T) = RunsIn(S) \cup RunsIn(T) /\ RunsIn(S) \cap RunsIn(T) = {}
  BY DEF RunsIn
<1>2. /\ IsFiniteSet(RunsIn(S)) /\ IsFiniteSet(RunsIn(T))
      /\ RunsOf(S) = Cardinality(RunsIn(S)) /\ RunsOf(T) = Cardinality(RunsIn(T))
      /\ RunsOf(S) \in Nat /\ RunsOf(T) \in Nat
  BY RunsFinite
<1>3. RunsOf(S \cup T) = Cardinality(RunsIn(S \cup T))
  BY RunsFinite
<1>4. Cardinality(RunsIn(S) \cup RunsIn(T))
        = Cardinality(RunsIn(S)) + Cardinality(RunsIn(T)) - Cardinality(RunsIn(S) \cap RunsIn(T))
  BY <1>2, FS_Union
<1>5. Cardinality(RunsIn(S) \cap RunsIn(T)) = 0
  BY <1>1, FS_EmptySet
<1>6. Cardinality(RunsIn(S) \cup RunsIn(T)) = RunsOf(S) + RunsOf(T) - 0
  BY <1>2, <1>4, <1>5
<1>7. RunsOf(S \cup T) = RunsOf(S) + RunsOf(T) - 0
  BY <1>1, <1>3, <1>6
<1> QED
  BY <1>2, <1>7

\* Taking the current profile off the remaining ones takes its runs off.
LEMMA RunsOfRest ==
  ASSUME dir \in DOMAIN Table, NEW S, S \subseteq Profiles, NEW p \in S
  PROVE  /\ RunsOf(S) = Runs(p) + RunsOf(S \ {p})
         /\ RunsOf(S \ {p}) \in Nat /\ RunsOf(S) \in Nat
<1>1. S = {p} \cup (S \ {p}) /\ {p} \cap (S \ {p}) = {}
  OBVIOUS
<1>2. RunsOf({p} \cup (S \ {p})) = RunsOf({p}) + RunsOf(S \ {p})
  BY <1>1, RunsOfDisjoint
<1> QED
  BY <1>1, <1>2, RunsOfOne, RunsFinite

LEMMA RunsOfPart ==
  ASSUME dir \in DOMAIN Table, NEW S, S \subseteq Larger
  PROVE  /\ Baseline \in 2 .. 20 /\ RunsOf(S) \in Nat /\ RunsOf(Profiles) \in Nat
         /\ Baseline + RunsOf(S) <= RunsOf(Profiles)
<1>1. /\ 1 \in Profiles /\ 2 \in Profiles /\ Larger \subseteq Profiles
      /\ Runs(1) \in 1 .. 10 /\ Runs(2) \in 1 .. 10
  BY TableFacts
<1> DEFINE U == Profiles \ {1}
           R == (U \ {2}) \ S
<1>2. RunsOf(Profiles) = Runs(1) + RunsOf(U)
  BY <1>1, RunsOfRest
<1>3. RunsOf(U) = Runs(2) + RunsOf(U \ {2})
  BY <1>1, RunsOfRest
<1>4. S \subseteq Profiles /\ R \subseteq Profiles /\ U \ {2} = S \cup R /\ S \cap R = {}
  BY <1>1 DEF Larger
<1>5. RunsOf(U \ {2}) = RunsOf(S) + RunsOf(R)
  <2>1. RunsOf(S \cup R) = RunsOf(S) + RunsOf(R)
    BY <1>4, RunsOfDisjoint
  <2> QED
    BY <1>4, <2>1
<1>6. RunsOf(S) \in Nat /\ RunsOf(R) \in Nat /\ RunsOf(Profiles) \in Nat /\ RunsOf(U) \in Nat
  BY <1>4, RunsFinite
<1> QED
  BY <1>1, <1>2, <1>3, <1>5, <1>6 DEF Baseline

-----------------------------------------------------------------------------
(* Times *)

LEMMA MinOfTwo ==
  ASSUME NEW a \in Int, NEW b \in Int
  PROVE  Min({a, b}) = IF a <= b THEN a ELSE b
<1> DEFINE m == IF a <= b THEN a ELSE b
<1>1. m \in {a, b} /\ \A y \in {a, b} : m <= y
  OBVIOUS
<1>2. \A x \in {a, b} : (\A y \in {a, b} : x <= y) => x = m
  OBVIOUS
<1> QED
  BY <1>1, <1>2 DEF Min

LEMMA Quotient ==
  ASSUME NEW a \in Nat, NEW b \in Nat \ {0}
  PROVE  a \div b \in Nat /\ (a \div b) * b <= a
  OBVIOUS

LEMMA Cancel ==
  ASSUME NEW a \in Int, NEW b \in Int, NEW c \in Nat \ {0}, a * c <= b * c
  PROVE  a <= b
<1> SUFFICES ASSUME a >= b + 1 PROVE FALSE
  OBVIOUS
<1>1. (a - b) * c = a * c - b * c /\ (a - b) * c >= 1 * c
  OBVIOUS
<1> QED
  BY <1>1

\* n estimates, each rounded down, fit where n transfers of that size fit.
LEMMA RoundedFits ==
  ASSUME NEW size \in Nat, NEW n \in Nat, NEW sp \in Nat \ {0}, NEW ticks \in Int,
         8 * size * n <= ticks * sp
  PROVE  n * ((8 * size) \div sp) <= ticks
<1> DEFINE a == 8 * size
           e == a \div sp
<1>1. a \in Nat /\ e \in Nat /\ e * sp <= a
  BY Quotient
<1> HIDE DEF e
<1>2. n * (e * sp) <= n * a
  BY <1>1
<1>3. (n * e) * sp = n * (e * sp) /\ n * a = a * n
  BY <1>1
<1>4. (n * e) * sp <= ticks * sp
  BY <1>1, <1>2, <1>3
<1>5. n * e \in Int
  BY <1>1
<1> QED
  BY <1>4, <1>5, Cancel DEF e

LEMMA EstimatedType ==
  ASSUME TypeOK, LoopInv, stage = "run"
  PROVE  Estimated \in Nat /\ Runs(profile) \in 1 .. 10 /\ profile \in Profiles
<1>1. speed \in Nat \ {0} /\ profile \in Profiles
  BY AdaptiveAssumption DEF TypeOK, LoopInv
<1>2. Size(profile) \in Nat /\ Runs(profile) \in 1 .. 10
  BY <1>1, TableFacts DEF TypeOK
<1>3. 8 * Size(profile) \in Nat
  BY <1>2
<1>4. (8 * Size(profile)) \div speed \in Nat
  BY <1>1, <1>3, Quotient, Zenon
<1> QED
  BY <1>1, <1>2, <1>4, Zenon DEF Estimated

LEMMA MaxOfTwo ==
  ASSUME NEW a \in Int, NEW b \in Int
  PROVE  Max({a, b}) = IF a >= b THEN a ELSE b
<1> DEFINE m == IF a >= b THEN a ELSE b
<1>1. m \in {a, b} /\ \A y \in {a, b} : m >= y
  OBVIOUS
<1>2. \A x \in {a, b} : (\A y \in {a, b} : x >= y) => x = m
  OBVIOUS
<1> QED
  BY <1>1, <1>2 DEF Max

\* The clock and the lateness stop at their bound.
LEMMA PassesType ==
  ASSUME TypeOK, NEW ticks \in Nat, NEW due \in Nat, Passes(ticks, due)
  PROVE  /\ elapsed \in Nat /\ elapsed' \in 0 .. MaxTicks /\ elapsed' <= elapsed + ticks
         /\ late \in Nat /\ late' \in 0 .. MaxTicks
         /\ late' = MaxTicks \/ late' >= late + (ticks - due)
<1>1. /\ elapsed \in Nat /\ elapsed <= MaxTicks /\ MaxTicks \in Nat /\ elapsed + ticks \in Int
      /\ late \in Nat /\ late <= MaxTicks
  BY AdaptiveAssumption DEF TypeOK
<1>2. elapsed' = IF elapsed + ticks <= MaxTicks THEN elapsed + ticks ELSE MaxTicks
  BY <1>1, MinOfTwo DEF Passes
<1>3. PICK x \in Nat : x = Max({ticks - due, 0}) /\ x >= ticks - due
  <2>1. ticks - due \in Int /\ 0 \in Int
    OBVIOUS
  <2> QED
    BY <2>1, MaxOfTwo
<1>4. late' = IF late + x <= MaxTicks THEN late + x ELSE MaxTicks
  <2>1. late + x \in Int /\ MaxTicks \in Int
    BY <1>1, <1>3
  <2>2. late' = Min({late + x, MaxTicks})
    BY <1>3 DEF Passes
  <2> QED
    BY <2>1, <2>2, MinOfTwo
<1> QED
  BY <1>1, <1>2, <1>3, <1>4

\* What goes beyond what is due is late.
LEMMA TimeKept ==
  ASSUME TypeOK, NEW ticks \in Nat, NEW due \in Nat, Passes(ticks, due),
         NEW rest \in Nat, due <= rest, rest <= Budget, elapsed + rest <= Budget + late
  PROVE  elapsed' + (rest - due) <= Budget + late' /\ elapsed' <= Budget + late'
<1>1. /\ elapsed \in Nat /\ elapsed' \in 0 .. MaxTicks /\ elapsed' <= elapsed + ticks
      /\ late \in Nat /\ late' \in 0 .. MaxTicks
      /\ late' = MaxTicks \/ late' >= late + (ticks - due)
  BY PassesType
<1>2. MaxTicks \in Nat
  BY AdaptiveAssumption
<1>3. /\ elapsed \in Int /\ elapsed' \in Int /\ late \in Int /\ late' \in Int /\ Budget \in Int
       /\ rest \in Int /\ due \in Int /\ ticks \in Int
  BY <1>1, <1>2 DEF Budget
<1>4. \A e, f, l, m, b, r, d, t \in Int :
        d <= r /\ r <= b /\ e + r <= b + l /\ f <= e + t /\ m >= l + (t - d)
          => f + (r - d) <= b + m /\ f <= b + m
  OBVIOUS
<1>5. \A f, m, b, r, d \in Int :
        d <= r /\ r <= b /\ 0 <= d /\ f <= m => f + (r - d) <= b + m /\ f <= b + m
  OBVIOUS
<1>6. CASE late' = MaxTicks
  <2>1. elapsed' <= late' /\ 0 <= due
    BY <1>1, <1>2, <1>6
  <2> QED
    BY <1>3, <1>5, <2>1, Zenon
<1>7. CASE late' >= late + (ticks - due)
  BY <1>1, <1>3, <1>4, <1>7, Zenon
<1> QED
  BY <1>1, <1>6, <1>7

-----------------------------------------------------------------------------
(* The steps *)

LEMMA SameTable ==
  ASSUME dir' = dir
  PROVE  /\ Table[dir'] = Table[dir] /\ Profiles' = Profiles /\ Larger' = Larger /\ Baseline' = Baseline
         /\ RunsOf(Profiles)' = RunsOf(Profiles)
         /\ \A p : Runs(p)' = Runs(p) /\ Size(p)' = Size(p)
  BY DEF Profiles, Larger, Baseline, RunsOf, Runs, Size

LEMMA InitAInv == Init => AInv
<1> SUFFICES ASSUME Init PROVE AInv
  OBVIOUS
<1>1. dir \in DOMAIN Table
  BY DEF Init
<1>2. RunsOf(Profiles) \in Nat /\ Len(Table[dir]) \in 14 .. 15
  BY <1>1, TableFacts, RunsFinite
<1>3. 1 \in Profiles /\ Runs(1) \in 1 .. 10
  BY <1>1, TableFacts
<1>4. sampled \in BOOLEAN /\ shown \in (0 .. RunsOf(Profiles)) \X (0 .. RunsOf(Profiles))
  <2>1. sampled \in BOOLEAN
    BY Zenon DEF Init
  <2> QED
    BY <1>2, <2>1 DEF Init
<1>5. TypeOK
  BY <1>2, <1>4, AdaptiveAssumption DEF Init, TypeOK
<1>6. LoopInv
  BY <1>3 DEF Init, LoopInv
<1>7. CountInv /\ TimeInv
  BY DEF Init, CountInv, TimeInv, BaseMade, Budget
<1> QED
  BY <1>5, <1>6, <1>7 DEF AInv

LEMMA BaseRunKeeps ==
  ASSUME AInv, BaseRun
  PROVE  AInv'
<1> USE DEF AInv
<1>1. /\ UNCHANGED <<dir, stage, profile, speed, selected, expected, elapsed, late>> /\ stage = "base"
      /\ i' = i + 1 /\ i < Runs(profile) /\ profile \in {1, 2} /\ dir \in DOMAIN Table /\ i \in Nat
  BY DEF BaseRun, LoopInv, TypeOK
<1>2. /\ Runs(1) \in 1 .. 10 /\ Runs(2) \in 1 .. 10 /\ Baseline = Runs(1) + Runs(2)
      /\ RunsOf(Profiles) \in Nat /\ Baseline <= RunsOf(Profiles)
  <2>1. 1 \in Profiles /\ 2 \in Profiles
    BY <1>1, TableFacts
  <2>2. {} \subseteq Larger /\ RunsOf({}) = 0
    BY RunsOfNone
  <2>3. Baseline + RunsOf({}) <= RunsOf(Profiles) /\ RunsOf(Profiles) \in Nat
    BY <1>1, <2>2, RunsOfPart
  <2>4. Runs(1) \in 1 .. 10 /\ Runs(2) \in 1 .. 10
    BY <1>1, <2>1, TableFacts
  <2>5. Baseline = Runs(1) + Runs(2)
    BY DEF Baseline
  <2>6. Baseline <= RunsOf(Profiles)
    BY <2>2, <2>3, <2>4, <2>5
  <2> QED
    BY <2>3, <2>4, <2>5, <2>6
<1>3. BaseMade \in Nat /\ BaseMade' = BaseMade + 1 /\ BaseMade < Baseline /\ totalRuns <= BaseMade
  BY <1>1, <1>2, SameTable DEF BaseMade, CountInv
<1>4. totalRuns \in Nat /\ (event \cap {"failure", "stop"} = {} => totalRuns = BaseMade)
  BY <1>1 DEF TypeOK, CountInv
<1>5. sampled' \in BOOLEAN
  BY Zenon DEF BaseRun, TypeOK
<1>6. \/ totalRuns' = totalRuns + 1 /\ event' = event /\ shown' = <<totalRuns + 1, Baseline>>
      \/ totalRuns' = totalRuns /\ event' = event \cup {"failure"} /\ shown' = shown
  BY Zenon DEF BaseRun, Succeeds, Misses
<1>7. totalRuns' \in 0 .. RunsOf(Profiles) /\ shown' \in (0 .. RunsOf(Profiles)) \X (0 .. RunsOf(Profiles))
  <2>1. shown \in (0 .. RunsOf(Profiles)) \X (0 .. RunsOf(Profiles))
    BY DEF TypeOK
  <2>2. totalRuns \in 0 .. RunsOf(Profiles) /\ totalRuns + 1 \in 0 .. RunsOf(Profiles)
        /\ Baseline \in 0 .. RunsOf(Profiles)
    BY <1>2, <1>3, <1>4
  <2> QED
    BY <1>6, <2>1, <2>2
<1>8. event' \subseteq Event
  BY <1>6 DEF TypeOK, Event
<1>9. TypeOK'
  <2>1. i' \in 0 .. 10
    BY <1>1, <1>2
  <2>2. RunsOf(Profiles)' = RunsOf(Profiles) /\ Profiles' = Profiles /\ Table[dir'] = Table[dir]
    BY <1>1, SameTable
  <2> QED
    BY <1>1, <1>5, <1>7, <1>8, <2>1, <2>2 DEF TypeOK
<1>10. LoopInv'
  BY <1>1, <1>2, SameTable DEF LoopInv
<1>11. CountInv'
  BY <1>1, <1>3, <1>4, <1>6 DEF CountInv
<1>12. TimeInv'
  BY <1>1, <1>6 DEF TimeInv
<1> QED
  BY <1>9, <1>10, <1>11, <1>12

LEMMA BaseEndsKeeps ==
  ASSUME AInv, BaseEnds
  PROVE  AInv'
<1> USE DEF AInv
<1>1. /\ UNCHANGED <<dir, sampled, speed, selected, totalRuns, expected, shown, elapsed, late, event>>
      /\ stage = "base" /\ i' = 0 /\ profile \in {1, 2} /\ dir \in DOMAIN Table /\ i \in Nat
      /\ i <= Runs(profile) /\ (i = Runs(profile) \/ "stop" \in event)
  BY DEF BaseEnds, LoopInv, TypeOK, Stopped
<1>2. /\ Runs(1) \in 1 .. 10 /\ Runs(2) \in 1 .. 10 /\ Baseline = Runs(1) + Runs(2)
      /\ Len(Table[dir]) \in 14 .. 15
  <2>1. 1 \in Profiles /\ 2 \in Profiles
    BY <1>1, TableFacts
  <2> QED
    BY <1>1, <2>1, TableFacts DEF Baseline
<1>3. \/ profile = 1 /\ profile' = 2 /\ stage' = "base"
      \/ profile = 2 /\ profile' = 3 /\ stage' = "select"
  BY <1>1 DEF BaseEnds
<1>4. TypeOK'
  <2>1. PICK n \in 14 .. 15 : n = Len(Table[dir])
    BY <1>2
  <2>2. profile' \in 1 .. Len(Table[dir]) + 1 /\ i' \in 0 .. 10
    BY <1>1, <1>3, <2>1
  <2>3. RunsOf(Profiles)' = RunsOf(Profiles) /\ Profiles' = Profiles /\ Table[dir'] = Table[dir]
    BY <1>1, SameTable
  <2> QED
    BY <1>1, <1>3, <2>2, <2>3 DEF TypeOK
<1>5. LoopInv'
  BY <1>1, <1>2, <1>3, SameTable DEF LoopInv
<1>6. BaseMade \in Nat /\ BaseMade' \in Nat /\ BaseMade <= BaseMade' /\ ("stop" \in event \/ BaseMade' = BaseMade)
  BY <1>1, <1>2, <1>3, SameTable DEF BaseMade
<1>7. CountInv'
  <2>1. totalRuns <= BaseMade /\ totalRuns \in Nat /\ (event \cap {"failure", "stop"} = {} => totalRuns = BaseMade)
    BY <1>1 DEF TypeOK, CountInv
  <2> QED
    BY <1>1, <1>3, <1>6, <2>1 DEF CountInv
<1>8. TimeInv'
  BY <1>1, <1>3 DEF TimeInv
<1> QED
  BY <1>4, <1>5, <1>7, <1>8

LEMMA EstimatesKeeps ==
  ASSUME AInv, Estimates
  PROVE  AInv'
<1> USE DEF AInv
<1>1. /\ UNCHANGED <<dir, profile, i, sampled, totalRuns, shown, elapsed, late, event>> /\ dir \in DOMAIN Table
      /\ stage = "select" /\ stage' = "batch" /\ profile = 3 /\ i = 0
  BY DEF Estimates, LoopInv, TypeOK
<1>2. PICK sp \in Speeds \cup {0} :
        /\ speed' = sp /\ selected' = Select(sp) /\ expected' = Baseline + RunsOf(Select(sp) \cap Larger)
  BY DEF Estimates
<1>3. PICK S : S = Select(sp) \cap Larger
  OBVIOUS
<1>4. Select(sp) \subseteq Profiles /\ S \subseteq Larger /\ Larger \subseteq Profiles /\ Larger = 3 .. Len(Table[dir])
  <2>1. {1, 2} \subseteq Profiles /\ Larger \subseteq Profiles /\ Larger = 3 .. Len(Table[dir])
    BY <1>1, TableFacts
  <2> QED
    BY <1>3, <2>1 DEF Select
<1>5. /\ Baseline \in 2 .. 20 /\ RunsOf(S) \in Nat /\ RunsOf(Profiles) \in Nat
      /\ Baseline + RunsOf(S) <= RunsOf(Profiles) /\ Len(Table[dir]) \in 14 .. 15
  BY <1>1, <1>4, RunsOfPart, TableFacts
<1>6. expected' = Baseline + RunsOf(S)
  BY <1>2, <1>3
<1>7. TypeOK'
  <2>1. PICK b \in 2 .. 20, q \in Nat, t \in Nat : b = Baseline /\ q = RunsOf(S) /\ t = RunsOf(Profiles) /\ b + q <= t
    BY <1>5, Zenon
  <2>2. b + q \in 0 .. t
    BY <2>1
  <2>3. expected' \in 0 .. RunsOf(Profiles)
    BY <1>6, <2>1, <2>2, Zenon
  <2>4. RunsOf(Profiles)' = RunsOf(Profiles) /\ Profiles' = Profiles /\ Table[dir'] = Table[dir]
    BY <1>1, SameTable
  <2>5. selected' \subseteq Profiles /\ speed' \in Speeds \cup {0}
    BY <1>2, <1>4
  <2> QED
    BY <1>1, <2>3, <2>4, <2>5 DEF TypeOK
<1>8. LoopInv'
  <2>1. PICK n \in 14 .. 15 : n = Len(Table[dir])
    BY <1>5
  <2>2. 3 \in 3 .. Len(Table[dir]) + 1
    <3>1. n \in Nat /\ n >= 14
      OBVIOUS
    <3>2. 3 \in 3 .. n + 1
      BY <3>1
    <3> QED
      BY <2>1, <3>2
  <2>3. Profiles' = Profiles /\ Table[dir'] = Table[dir]
    BY <1>1, SameTable
  <2> QED
    BY <1>1, <1>2, <1>4, <2>2, <2>3 DEF LoopInv
<1>9. Remaining' = S /\ RunsOf(Remaining)' = RunsOf(S)
  <2>1. Remaining' = S
    BY <1>1, <1>2, <1>3, <1>4, <1>5, SameTable DEF Remaining
  <2> QED
    BY <1>1, <2>1 DEF RunsOf, Runs
<1>10. CountInv'
  <2>1. totalRuns <= Baseline /\ totalRuns \in Nat /\ (event \cap {"failure", "stop"} = {} => totalRuns = Baseline)
    BY <1>1 DEF TypeOK, CountInv, BaseMade
  <2> QED
    BY <1>1, <1>5, <1>6, <1>9, <2>1 DEF CountInv
<1>11. TimeInv'
  BY <1>1 DEF TimeInv
<1> QED
  BY <1>7, <1>8, <1>10, <1>11

\* While profile stands, so does what remains.
LEMMA SameRemaining ==
  ASSUME UNCHANGED <<dir, profile, selected>>
  PROVE  RunsOf(Remaining)' = RunsOf(Remaining)
<1>1. Remaining' = Remaining
  BY DEF Remaining, Larger, Profiles
<1> QED
  BY <1>1 DEF RunsOf, Runs

\* The step to the next profile.
LEMMA NextRemaining ==
  ASSUME TypeOK, LoopInv, stage \in {"batch", "run"}, UNCHANGED <<dir, selected>>, profile' = profile + 1
  PROVE  /\ RunsOf(Remaining) \in Nat /\ RunsOf(Remaining)' \in Nat
         /\ IF profile \in selected \cap Larger
              THEN Runs(profile) \in 1 .. 10 /\ RunsOf(Remaining) = Runs(profile) + RunsOf(Remaining)'
              ELSE RunsOf(Remaining)' = RunsOf(Remaining)
<1>1. dir \in DOMAIN Table /\ Larger \subseteq Profiles /\ profile \in Int /\ Larger \subseteq Int
  BY TableFacts DEF TypeOK
<1>2. PICK S : S = Remaining
  OBVIOUS
<1>3. S \subseteq Profiles /\ Remaining' = S \ {profile} /\ (profile \in S <=> profile \in selected \cap Larger)
  <2>1. Remaining' = {p \in selected \cap Larger : p >= profile + 1}
    BY SameTable DEF Remaining
  <2>2. \A p \in Larger : p >= profile + 1 <=> p >= profile /\ p # profile
    BY <1>1
  <2>3. S = {p \in selected \cap Larger : p >= profile}
    BY <1>2 DEF Remaining
  <2>4. S \subseteq Profiles
    BY <1>1, <2>3
  <2>5. {p \in selected \cap Larger : p >= profile + 1}
          = {p \in selected \cap Larger : p >= profile} \ {profile}
    BY <2>2
  <2>6. profile >= profile
    BY <1>1
  <2> QED
    BY <2>1, <2>3, <2>4, <2>5, <2>6
<1>4. RunsOf(Remaining)' = RunsOf(S \ {profile}) /\ RunsOf(Remaining) = RunsOf(S)
  BY <1>2, <1>3 DEF RunsOf, Runs
<1>5. CASE profile \in S
  <2>1. RunsOf(S) = Runs(profile) + RunsOf(S \ {profile}) /\ RunsOf(S \ {profile}) \in Nat /\ RunsOf(S) \in Nat
    BY <1>1, <1>3, <1>5, RunsOfRest
  <2>2. Runs(profile) \in 1 .. 10
    BY <1>1, <1>3, <1>5, TableFacts
  <2> QED
    BY <1>3, <1>4, <1>5, <2>1, <2>2
<1>6. CASE profile \notin S
  <2>1. S \ {profile} = S /\ RunsOf(S) \in Nat
    BY <1>1, <1>3, <1>6, RunsFinite
  <2> QED
    BY <1>3, <1>4, <1>6, <2>1
<1> QED
  BY <1>5, <1>6

LEMMA RemainingCovers ==
  ASSUME TypeOK, LoopInv, stage \in {"batch", "run", "loaded"}
  PROVE  /\ RunsOf(Remaining) \in Nat
         /\ profile \in selected \cap Larger => Runs(profile) \in 1 .. 10 /\ Runs(profile) <= RunsOf(Remaining)
<1>1. dir \in DOMAIN Table /\ Larger \subseteq Profiles /\ Larger \subseteq Int
  BY TableFacts DEF TypeOK
<1>2. Remaining \subseteq Profiles
  BY <1>1 DEF Remaining
<1>3. RunsOf(Remaining) \in Nat
  BY <1>1, <1>2, RunsFinite
<1>4. ASSUME profile \in selected \cap Larger
      PROVE  Runs(profile) \in 1 .. 10 /\ Runs(profile) <= RunsOf(Remaining)
  <2>1. profile \in Remaining /\ Runs(profile) \in 1 .. 10
    BY <1>1, <1>4, TableFacts DEF Remaining
  <2>2. /\ RunsOf(Remaining) = Runs(profile) + RunsOf(Remaining \ {profile})
        /\ RunsOf(Remaining \ {profile}) \in Nat
    BY <1>1, <1>2, <2>1, RunsOfRest
  <2> QED
    BY <2>1, <2>2
<1> QED
  BY <1>3, <1>4

\* What the invariant says once the transfers are chosen.
LEMMA Counts ==
  ASSUME AInv, stage \in {"batch", "run", "loaded"}
  PROVE  /\ totalRuns \in Nat /\ expected \in Nat /\ RunsOf(Profiles) \in Nat /\ expected <= RunsOf(Profiles)
         /\ RunsOf(Remaining) \in Nat /\ i \in Nat
         /\ totalRuns + RunsOf(Remaining) - i <= expected
         /\ event \cap {"failure", "stop"} = {} => totalRuns + RunsOf(Remaining) - i = expected
<1>1. RunsOf(Profiles) \in Nat
  BY RunsFinite DEF AInv, TypeOK
<1>2. totalRuns \in Nat /\ expected \in Nat /\ expected <= RunsOf(Profiles) /\ i \in Nat
  BY <1>1 DEF AInv, TypeOK
<1>3. /\ totalRuns + RunsOf(Remaining) - i <= expected
      /\ event \cap {"failure", "stop"} = {} => totalRuns + RunsOf(Remaining) - i = expected
  BY DEF AInv, CountInv
<1> QED
  BY <1>1, <1>2, <1>3, RemainingCovers DEF AInv

LEMMA BatchKeeps ==
  ASSUME AInv, Batch
  PROVE  AInv'
<1> USE DEF AInv
<1>1. /\ UNCHANGED <<dir, i, sampled, speed, selected, totalRuns, shown, elapsed, event>> /\ dir \in DOMAIN Table
      /\ stage = "batch" /\ profile \in Larger /\ i = 0 /\ selected \subseteq Profiles
  BY DEF Batch, LoopInv, TypeOK
<1>2. /\ Larger = 3 .. Len(Table[dir]) /\ Larger \subseteq Profiles /\ Len(Table[dir]) \in 14 .. 15
      /\ Runs(profile) \in 1 .. 10 /\ Size(profile) \in Nat /\ profile \in Nat
  BY <1>1, TableFacts
<1>3. /\ totalRuns \in Nat /\ expected \in Nat /\ RunsOf(Profiles) \in Nat /\ expected <= RunsOf(Profiles)
      /\ totalRuns + RunsOf(Remaining) <= expected
      /\ event \cap {"failure", "stop"} = {} => totalRuns + RunsOf(Remaining) = expected
  <2>1. RunsOf(Remaining) - i = RunsOf(Remaining) /\ RunsOf(Remaining) \in Nat
    BY <1>1, Counts
  <2> QED
    BY <1>1, <2>1, Counts
<1>4. CASE profile \in selected /\ BatchFits
  <2>1. stage' = "run" /\ UNCHANGED <<profile, expected>>
    BY <1>4 DEF Batch
  <2>0. late' = 0 /\ late' \in 0 .. MaxTicks
    BY <1>4, AdaptiveAssumption DEF Batch
  <2>2. speed \in Nat \ {0} /\ 8 * Size(profile) * Runs(profile) <= (Budget - elapsed) * speed
    BY <1>4, AdaptiveAssumption DEF BatchFits, Fits, TypeOK
  <2>3. elapsed \in Int /\ Budget - elapsed \in Int
    BY AdaptiveAssumption DEF TypeOK, Budget
  <2>4. Runs(profile) * ((8 * Size(profile)) \div speed) <= Budget - elapsed
    <3>1. PICK size \in Nat, n \in Nat, ticks \in Int :
            size = Size(profile) /\ n = Runs(profile) /\ ticks = Budget - elapsed
      BY <1>2, <2>3
    <3>2. 8 * size * n <= ticks * speed
      BY <2>2, <3>1
    <3>3. n * ((8 * size) \div speed) <= ticks
      BY <2>2, <3>2, RoundedFits
    <3> QED
      BY <3>1, <3>3
  <2>5. Estimated \in Nat /\ Estimated' = Estimated
    <3>1. 8 * Size(profile) \in Nat
      BY <1>2
    <3>2. (8 * Size(profile)) \div speed \in Nat
      BY <2>2, <3>1, Quotient
    <3> QED
      BY <1>1, <2>1, <3>2, SameTable DEF Estimated
  <2>6. TypeOK'
    BY <1>1, <2>0, <2>1, SameTable DEF TypeOK
  <2>7. LoopInv'
    BY <1>1, <1>2, <1>4, <2>1, <2>2, SameTable DEF LoopInv
  <2>8. CountInv'
    BY <1>1, <1>3, <2>1, SameRemaining DEF CountInv
  <2>9. TimeInv'
    <3>1. Runs(profile) * Estimated <= Budget - elapsed
      BY <2>4 DEF Estimated
    <3>2. PICK m \in Nat : m = Runs(profile) * Estimated /\ m = (Runs(profile) - i) * Estimated
      <4>1. Runs(profile) * Estimated \in Nat
        BY <1>2, <2>5
      <4>2. Runs(profile) - i = Runs(profile)
        BY <1>1, <1>2
      <4> QED
        BY <4>1, <4>2
    <3>3. m <= Budget /\ elapsed + m <= Budget + late' /\ elapsed <= Budget + late'
      <4>1. elapsed \in Nat
        BY AdaptiveAssumption DEF TypeOK
      <4> QED
        BY <2>0, <3>1, <3>2, <4>1 DEF Budget
    <3>4. (Runs(profile) - i)' * Estimated' = m
      BY <1>1, <2>1, <2>5, <3>2, SameTable
    <3> QED
      BY <1>1, <3>3, <3>4 DEF TimeInv
  <2> QED
    BY <2>6, <2>7, <2>8, <2>9
<1>5. CASE ~(profile \in selected /\ BatchFits)
  <2>1. /\ stage' = "batch" /\ profile' = profile + 1 /\ late' = late
        /\ expected' = IF profile \in selected THEN expected - Runs(profile) ELSE expected
    BY <1>1, <1>5 DEF Batch, Corrected
  <2>2. /\ RunsOf(Remaining) \in Nat /\ RunsOf(Remaining)' \in Nat
        /\ RunsOf(Remaining) = RunsOf(Remaining)' + (IF profile \in selected THEN Runs(profile) ELSE 0)
    BY <1>1, <1>2, <2>1, NextRemaining
  <2>3. /\ expected' \in 0 .. RunsOf(Profiles)
        /\ totalRuns + RunsOf(Remaining)' <= expected'
        /\ event \cap {"failure", "stop"} = {} => totalRuns + RunsOf(Remaining)' = expected'
    <3>1. PICK a \in Nat, b \in Nat : a = RunsOf(Remaining) /\ b = RunsOf(Remaining)'
      BY <2>2
    <3>2. /\ totalRuns + a <= expected /\ (event \cap {"failure", "stop"} = {} => totalRuns + a = expected)
          /\ a = b + (IF profile \in selected THEN Runs(profile) ELSE 0)
      BY <1>3, <2>2, <3>1
    <3>3. /\ expected' \in 0 .. RunsOf(Profiles) /\ totalRuns + b <= expected'
          /\ event \cap {"failure", "stop"} = {} => totalRuns + b = expected'
      <4>1. CASE profile \in selected
        <5>1. PICK r \in 1 .. 10 : r = Runs(profile)
          BY <1>2, <4>1
        <5>2. expected' = expected - r /\ a = b + r
          BY <2>1, <3>2, <4>1, <5>1
        <5> QED
          BY <1>3, <3>2, <5>2
      <4>2. CASE profile \notin selected
        <5>1. expected' = expected /\ a = b
          BY <2>1, <3>2, <4>2
        <5> QED
          BY <1>3, <3>2, <5>1
      <4> QED
        BY <4>1, <4>2
    <3> QED
      BY <3>1, <3>3
  <2>4. TypeOK'
    BY <1>1, <1>2, <2>1, <2>3, SameTable DEF TypeOK
  <2>5. LoopInv'
    BY <1>1, <1>2, <2>1, SameTable DEF LoopInv
  <2>6. CountInv'
    BY <1>1, <2>1, <2>2, <2>3 DEF CountInv
  <2>7. TimeInv'
    BY <1>1, <2>1 DEF TimeInv
  <2> QED
    BY <2>4, <2>5, <2>6, <2>7
<1> QED
  BY <1>4, <1>5

LEMMA RunKeeps ==
  ASSUME AInv, Run
  PROVE  AInv'
<1> USE DEF AInv
<1> DEFINE e == Estimated
           n == Runs(profile) - i
<1>1. /\ UNCHANGED <<dir, stage, profile, sampled, speed, selected, expected>> /\ dir \in DOMAIN Table
      /\ stage = "run" /\ i' = i + 1 /\ i \in Nat /\ i < Runs(profile) /\ profile \in selected \cap Larger
  BY DEF Run, LoopInv, TypeOK
<1>2. e \in Nat /\ Runs(profile) \in 1 .. 10 /\ profile \in Profiles
  BY <1>1, EstimatedType
<1>3. /\ totalRuns \in Nat /\ expected \in Nat /\ RunsOf(Profiles) \in Nat /\ expected <= RunsOf(Profiles)
      /\ RunsOf(Remaining) \in Nat /\ i < RunsOf(Remaining)
      /\ totalRuns + RunsOf(Remaining) - i <= expected
      /\ event \cap {"failure", "stop"} = {} => totalRuns + RunsOf(Remaining) - i = expected
  <2>1. RunsOf(Remaining) \in Nat /\ Runs(profile) <= RunsOf(Remaining)
    BY <1>1, RemainingCovers
  <2>2. i < RunsOf(Remaining)
    BY <1>1, <1>2, <2>1
  <2> QED
    BY <1>1, <2>1, <2>2, Counts
<1>4. \/ totalRuns' = totalRuns + 1 /\ event' = event /\ shown' = <<totalRuns + 1, expected>>
      \/ totalRuns' = totalRuns /\ event' = event \cup {"failure"} /\ shown' = shown
  BY Zenon DEF Run, Succeeds, Misses
<1>5. PICK ticks \in Nat : Passes(ticks, e)
  <2>1. PICK ticks \in Ticks : Passes(ticks, e)
    BY Zenon DEF Run
  <2>2. ticks \in Nat
    BY <1>2, AdaptiveAssumption DEF Ticks
  <2> QED
    BY <2>1, <2>2
<1>6. TypeOK'
  <2>1. totalRuns' \in 0 .. RunsOf(Profiles) /\ shown' \in (0 .. RunsOf(Profiles)) \X (0 .. RunsOf(Profiles))
    <3>1. shown \in (0 .. RunsOf(Profiles)) \X (0 .. RunsOf(Profiles))
      BY DEF TypeOK
    <3>2. totalRuns \in 0 .. RunsOf(Profiles) /\ totalRuns + 1 \in 0 .. RunsOf(Profiles)
          /\ expected \in 0 .. RunsOf(Profiles)
      BY <1>1, <1>3
    <3> QED
      BY <1>4, <3>1, <3>2
  <2>2. event' \subseteq Event
    BY <1>4 DEF TypeOK, Event
  <2>3. RunsOf(Profiles)' = RunsOf(Profiles) /\ Profiles' = Profiles /\ Table[dir'] = Table[dir]
    BY <1>1, SameTable
  <2>4. i' \in 0 .. 10
    BY <1>1, <1>2
  <2>5. elapsed' \in 0 .. MaxTicks /\ late' \in 0 .. MaxTicks
    BY <1>2, <1>5, PassesType
  <2>6. sampled' \in BOOLEAN
    BY <1>1, Zenon DEF TypeOK
  <2>7. /\ profile' \in 1 .. Len(Table[dir']) + 1 /\ selected' \subseteq Profiles'
        /\ expected' \in 0 .. RunsOf(Profiles)' /\ speed' \in Speeds \cup {0}
    BY <1>1, <2>3 DEF TypeOK
  <2> QED
    BY <1>1, <2>1, <2>2, <2>3, <2>4, <2>5, <2>6, <2>7 DEF TypeOK
<1>7. LoopInv'
  BY <1>1, <1>2, SameTable DEF LoopInv
<1>8. CountInv'
  <2>1. RunsOf(Remaining)' = RunsOf(Remaining)
    BY <1>1, SameRemaining
  <2>2. /\ totalRuns' + RunsOf(Remaining) - i' <= expected
        /\ event' \cap {"failure", "stop"} = {} => totalRuns' + RunsOf(Remaining) - i' = expected
    BY <1>1, <1>3, <1>4
  <2> QED
    BY <1>1, <2>1, <2>2 DEF CountInv
<1>9. TimeInv'
  <2>1. n \in Nat \ {0} /\ Runs(profile) - i' = n - 1
    BY <1>1, <1>2
  <2>2. n * e <= Budget /\ elapsed + n * e <= Budget + late
    BY <1>1 DEF TimeInv
  <2>3. Estimated' = e /\ (Runs(profile) - i)' = n - 1
    BY <1>1, <2>1, SameTable DEF Estimated, Runs, Size
  <2> HIDE DEF n, e
  <2>4. PICK rest \in Nat : rest = n * e /\ e <= rest /\ (n - 1) * e = rest - e
    <3>1. n * e \in Nat /\ (n - 1) * e = n * e - e /\ (n - 1) * e >= 0
      BY <1>2, <2>1
    <3> QED
      BY <1>2, <3>1
  <2>5. elapsed' + (rest - e) <= Budget + late' /\ elapsed' <= Budget + late'
    BY <1>2, <1>5, <2>2, <2>4, TimeKept
  <2>6. rest - e <= Budget
    BY <1>2, <2>2, <2>4 DEF Budget
  <2> QED
    BY <1>1, <2>3, <2>4, <2>5, <2>6 DEF TimeInv
<1> QED
  BY <1>6, <1>7, <1>8, <1>9

LEMMA EndsKeep ==
  ASSUME AInv, RunsEnd \/ BatchesEnd
  PROVE  AInv'
<1> USE DEF AInv
<1>1. /\ UNCHANGED <<dir, sampled, speed, selected, totalRuns, expected, shown, elapsed, late, event>>
      /\ dir \in DOMAIN Table /\ stage \in {"batch", "run"} /\ selected \subseteq Profiles
  BY DEF RunsEnd, BatchesEnd, LoopInv, TypeOK
<1>2. /\ totalRuns \in Nat /\ expected \in Nat /\ RunsOf(Remaining) \in Nat /\ i \in Nat
      /\ totalRuns + RunsOf(Remaining) - i <= expected
      /\ event \cap {"failure", "stop"} = {} => totalRuns + RunsOf(Remaining) - i = expected
  BY <1>1, Counts
<1>3. CASE BatchesEnd
  <2>1. UNCHANGED <<profile, i>> /\ stage = "batch" /\ stage' = "loaded" /\ (profile \notin Larger \/ "stop" \in event)
    BY <1>3 DEF BatchesEnd, Stopped
  <2>2. TypeOK'
    BY <1>1, <2>1, SameTable DEF TypeOK
  <2>3. LoopInv'
    BY <1>1, <2>1, SameTable DEF LoopInv, Stopped
  <2>4. CountInv'
    BY <1>1, <1>2, <2>1, SameRemaining DEF CountInv
  <2>5. TimeInv'
    BY <1>1, <2>1 DEF TimeInv
  <2> QED
    BY <2>2, <2>3, <2>4, <2>5
<1>4. CASE RunsEnd
  <2>1. /\ stage = "run" /\ stage' = "batch" /\ profile' = profile + 1 /\ i' = 0
        /\ i <= Runs(profile) /\ (i = Runs(profile) \/ "stop" \in event) /\ profile \in selected \cap Larger
    BY <1>4 DEF RunsEnd, Stopped, LoopInv
  <2>2. /\ Runs(profile) \in 1 .. 10 /\ RunsOf(Remaining)' \in Nat
        /\ RunsOf(Remaining) = Runs(profile) + RunsOf(Remaining)'
    BY <1>1, <2>1, NextRemaining
  <2>3. profile \in 3 .. Len(Table[dir]) /\ Len(Table[dir]) \in 14 .. 15
    BY <1>1, <2>1, TableFacts
  <2>4. TypeOK'
    BY <1>1, <2>1, <2>3, SameTable DEF TypeOK
  <2>5. LoopInv'
    BY <1>1, <2>1, <2>3, SameTable DEF LoopInv
  <2>6. CountInv'
    <3>1. /\ totalRuns + RunsOf(Remaining)' <= expected
          /\ event \cap {"failure", "stop"} = {} => totalRuns + RunsOf(Remaining)' = expected
      BY <1>2, <2>1, <2>2
    <3> QED
      BY <1>1, <2>1, <2>2, <3>1 DEF CountInv
  <2>7. TimeInv'
    BY <1>1, <2>1 DEF TimeInv
  <2> QED
    BY <2>4, <2>5, <2>6, <2>7
<1> QED
  BY <1>3, <1>4

LEMMA UserKeeps ==
  ASSUME AInv, Pause \/ Stop
  PROVE  AInv'
<1> USE DEF AInv
<1>1. /\ UNCHANGED <<dir, stage, profile, i, sampled, speed, selected, totalRuns, expected, shown>>
      /\ \/ event' = event \cup {"pause"} /\ Passes(PauseTicks, 0)
         \/ event' = event \cup {"stop"} /\ elapsed' = elapsed /\ late' = late
      /\ stage # "loaded"
  BY DEF Pause, Stop
<1>2. elapsed' \in 0 .. MaxTicks /\ late' \in 0 .. MaxTicks
  <2>1. 0 \in Nat
    OBVIOUS
  <2> QED
    BY <1>1, <2>1, PassesType, AdaptiveAssumption DEF TypeOK
<1>3. event' \subseteq Event
  BY <1>1 DEF TypeOK, Event
<1>4. TypeOK'
  BY <1>1, <1>2, <1>3, SameTable DEF TypeOK
<1>5. LoopInv'
  BY <1>1, SameTable DEF LoopInv, Stopped
<1>6. CountInv'
  <2>1. RunsOf(Remaining)' = RunsOf(Remaining) /\ BaseMade' = BaseMade
    BY <1>1, SameRemaining, SameTable DEF BaseMade
  <2> QED
    BY <1>1, <2>1 DEF CountInv
<1>7. TimeInv'
  <2>1. Estimated' = Estimated /\ (Runs(profile) - i)' = Runs(profile) - i
    BY <1>1, SameTable DEF Estimated, Runs, Size
  <2>2. CASE elapsed' = elapsed /\ late' = late
    BY <1>1, <2>1, <2>2 DEF TimeInv
  <2>3. CASE Passes(PauseTicks, 0)
    <3>1. PauseTicks \in Nat /\ 0 \in Nat /\ elapsed \in Int /\ late \in Int
          /\ elapsed' \in Int /\ late' \in Int
      BY <1>2, AdaptiveAssumption DEF TypeOK
    <3>2. elapsed' <= Budget + late'
      <4>1. 0 <= Budget /\ elapsed + 0 <= Budget + late
        BY <3>1 DEF TimeInv, Budget
      <4> QED
        BY <2>3, <3>1, <4>1, TimeKept
    <3>3. ASSUME stage = "run"
          PROVE  /\ (Runs(profile) - i) * Estimated <= Budget
                 /\ elapsed' + (Runs(profile) - i) * Estimated <= Budget + late'
      <4>1. PICK rest \in Nat : rest = (Runs(profile) - i) * Estimated
        <5>1. Estimated \in Nat /\ Runs(profile) \in 1 .. 10
          BY <3>3, EstimatedType
        <5>2. i \in Nat /\ i <= Runs(profile)
          BY <3>3 DEF LoopInv, TypeOK
        <5>3. Runs(profile) - i \in Nat
          BY <5>1, <5>2
        <5> HIDE DEF AInv
        <5> QED
          BY <5>1, <5>3
      <4>2. 0 <= rest /\ rest <= Budget /\ elapsed + rest <= Budget + late
        BY <3>3, <4>1 DEF TimeInv
      <4>3. elapsed' + (rest - 0) <= Budget + late'
        BY <2>3, <3>1, <4>2, TimeKept
      <4> QED
        BY <3>1, <4>1, <4>2, <4>3
    <3> QED
      BY <1>1, <2>1, <3>2, <3>3 DEF TimeInv
  <2> QED
    BY <1>1, <2>2, <2>3
<1> QED
  BY <1>4, <1>5, <1>6, <1>7

LEMMA NextAInv == AInv /\ [Next]_vars => AInv'
<1> SUFFICES ASSUME AInv, [Next]_vars PROVE AInv'
  OBVIOUS
<1>1. CASE UNCHANGED vars
  BY <1>1, SameTable, SameRemaining
     DEF AInv, vars, TypeOK, LoopInv, CountInv, BaseMade, TimeInv, Stopped, Estimated
<1> QED
  BY <1>1, BaseRunKeeps, BaseEndsKeeps, EstimatesKeeps, BatchKeeps, RunKeeps, EndsKeep, UserKeeps DEF Next

THEOREM AdaptiveInvariance == Spec => []AInv
  BY InitAInv, NextAInv, PTL DEF Spec

\* What is counted, expected and shown stays within the table of a direction.
THEOREM AdaptiveTypes == Spec => []TypeOK
  BY AdaptiveInvariance, PTL DEF AInv

\* The corrected total is never below what was made and is met exactly when
\* no run fails, for any speed and however batches are skipped, although the
\* correction is spread over the loop (speedtest.js:704-720).
THEOREM ExpectedExact == Spec => []ExpectedIsExact
<1>1. AInv => ExpectedIsExact
  <2> SUFFICES ASSUME AInv PROVE ExpectedIsExact
    OBVIOUS
  <2> USE DEF AInv
  <2>1. ASSUME stage \in {"batch", "run", "loaded"} PROVE totalRuns <= expected
    <3>1. RunsOf(Remaining) \in Nat /\ i \in Nat /\ i <= RunsOf(Remaining)
      <4>1. /\ RunsOf(Remaining) \in Nat
            /\ profile \in selected \cap Larger => Runs(profile) \in 1 .. 10 /\ Runs(profile) <= RunsOf(Remaining)
        BY <2>1, RemainingCovers
      <4>2. i \in Nat
        BY DEF TypeOK
      <4>3. i = 0 \/ (profile \in selected \cap Larger /\ i <= Runs(profile))
        BY <2>1 DEF LoopInv
      <4> QED
        BY <4>1, <4>2, <4>3
    <3>2. totalRuns + RunsOf(Remaining) - i <= expected /\ totalRuns \in Int /\ expected \in Int
      BY <2>1 DEF CountInv, TypeOK
    <3> QED
      BY <3>1, <3>2
  <2>2. ASSUME stage = "loaded", event \cap {"failure", "stop"} = {} PROVE totalRuns = expected
    <3>1. i = 0 /\ profile \notin Larger /\ profile \in 3 .. Len(Table[dir]) + 1
      BY <2>2 DEF LoopInv, Stopped
    <3>2. Larger = 3 .. Len(Table[dir]) /\ Len(Table[dir]) \in Int
      BY TableFacts DEF TypeOK
    <3>3. Remaining = {}
      BY <3>1, <3>2 DEF Remaining
    <3>4. RunsOf(Remaining) = 0
      BY <3>3, RunsOfNone
    <3> QED
      BY <2>2, <3>1, <3>4 DEF CountInv, TypeOK
  <2> QED
    BY <2>1, <2>2 DEF ExpectedIsExact
<1> QED
  BY <1>1, AdaptiveInvariance, PTL

\* For any speeds and any delays, what the larger batches take beyond the
\* budget is what one of them took beyond its estimate, because whole batches
\* are weighed (speedtest.js:708-721), whatever its runs took and whether
\* they failed (723-739).
THEOREM WithinBudget == Spec => []BudgetKept
<1>1. AInv => BudgetKept
  BY DEF AInv, TimeInv, BudgetKept
<1> QED
  BY <1>1, AdaptiveInvariance, PTL
=============================================================================
