------------------------------ MODULE LinkProofs ------------------------------
(***************************************************************************)
(* A link carries every measurement, up to the first number that begins    *)
(* with the sign, whatever was measured and however much.                  *)
(*                                                                         *)
(* What the loops of the codec compute is shown by induction on their      *)
(* passes.  Induction and recursion are derived here from the library's    *)
(* theorem that a set of naturals has a least element.                     *)
(***************************************************************************)
EXTENDS ResultProofs, SharedResults

-----------------------------------------------------------------------------
(* Induction and recursion *)

LEMMA Induction ==
  ASSUME NEW S, 0 \in S, \A n \in Nat : n \in S => n + 1 \in S
  PROVE  \A n \in Nat : n \in S
<1> DEFINE Q == {n \in Nat : n \notin S}
<1>1. SUFFICES ASSUME Q # {} PROVE FALSE
  OBVIOUS
<1>2. PICK m \in Q : \A y \in Q : m <= y
  <2> HIDE DEF Q
  <2>1. Q \subseteq Nat
    BY DEF Q
  <2> QED
    BY <1>1, <2>1, Least
<1>3. m \in Nat \ {0} /\ m - 1 \in Nat
  OBVIOUS
<1>4. m - 1 \notin Q
  BY <1>2, <1>3
<1>5. (m - 1) + 1 \in S
  BY <1>3, <1>4
<1> QED
  BY <1>3, <1>5

\* f begins with a and goes on by steps g; by the loop of body g.
Recurs(f, S, a, g) ==
  f \in [Nat -> S] /\ f[0] = a /\ \A n \in Nat : f[n + 1] = g[n + 1][f[n]]

Loops(f, S, a, g) ==
  /\ f = [k \in Nat |-> IF k = 0 THEN a ELSE g[f[k - 1]]]
  /\ f \in [Nat -> S] /\ f[0] = a /\ \A n \in Nat : f[n + 1] = g[f[n]]

\* A function is determined by its value at 0 and its steps.
LEMMA Recursion ==
  ASSUME NEW S, NEW a \in S, NEW g \in [Nat -> [S -> S]]
  PROVE  \E f : Recurs(f, S, a, g)
<1> DEFINE Approx(p, n) == /\ p \in [0 .. n -> S] /\ p[0] = a
                           /\ \A k \in 0 .. n - 1 : p[k + 1] = g[k + 1][p[k]]
           Q == {n \in Nat : \E p : Approx(p, n)}
           P(n) == CHOOSE p : Approx(p, n)
<1>1. 0 \in Q
  <2> DEFINE z == [k \in 0 .. 0 |-> a]
  <2>1. z \in [0 .. 0 -> S] /\ z[0] = a
    OBVIOUS
  <2>2. Approx(z, 0)
    BY <2>1
  <2> QED
    BY <2>2
<1>2. ASSUME NEW n \in Nat, n \in Q PROVE n + 1 \in Q
  <2>1. PICK p : Approx(p, n)
    BY <1>2
  <2> DEFINE q == [k \in 0 .. n + 1 |-> IF k <= n THEN p[k] ELSE g[n + 1][p[n]]]
  <2>2. p[n] \in S /\ g[n + 1][p[n]] \in S
    BY <2>1
  <2>3. q \in [0 .. n + 1 -> S] /\ q[0] = a
    BY <2>1, <2>2
  <2>4. q[n + 1] = g[n + 1][p[n]] /\ \A k \in 0 .. n : q[k] = p[k]
    OBVIOUS
  <2> HIDE DEF q
  <2>5. ASSUME NEW k \in 0 .. (n + 1) - 1 PROVE q[k + 1] = g[k + 1][q[k]]
    <3>1. CASE k < n
      <4>1. p[k + 1] = g[k + 1][p[k]] /\ q[k + 1] = p[k + 1] /\ q[k] = p[k]
        BY <2>1, <2>4, <3>1
      <4> QED
        BY <4>1
    <3>2. CASE k = n
      BY <2>4, <3>2
    <3> QED
      BY <3>1, <3>2
  <2>6. Approx(q, n + 1)
    BY <2>3, <2>5
  <2> HIDE DEF Approx
  <2> QED
    BY <2>6
<1>3. \A n \in Nat : Approx(P(n), n)
  <2> HIDE DEF Approx
  <2>1. \A n \in Nat : n \in Q
    <3> HIDE DEF Q
    <3> QED
      BY <1>1, <1>2, Induction
  <2> QED
    BY <2>1
<1> HIDE DEF P
<1>4. ASSUME NEW n \in Nat, NEW k \in 0 .. n PROVE P(n + 1)[k] = P(n)[k]
  <2> DEFINE E == {j \in Nat : j <= n => P(n + 1)[j] = P(n)[j]}
  <2>1. Approx(P(n), n) /\ Approx(P(n + 1), n + 1)
    BY <1>3
  <2>2. 0 \in E
    BY <2>1
  <2>3. ASSUME NEW j \in Nat, j \in E PROVE j + 1 \in E
    <3>1. CASE j + 1 <= n
      <4>1. P(n)[j + 1] = g[j + 1][P(n)[j]]
        BY <2>1, <3>1
      <4>2. P(n + 1)[j + 1] = g[j + 1][P(n + 1)[j]]
        BY <2>1, <3>1
      <4>3. P(n + 1)[j] = P(n)[j]
        BY <2>3, <3>1
      <4> QED
        BY <4>1, <4>2, <4>3
    <3> QED
      BY <3>1
  <2>4. \A j \in Nat : j \in E
    <3> HIDE DEF E
    <3> QED
      BY <2>2, <2>3, Induction
  <2> QED
    BY <2>4
<1> DEFINE f == [n \in Nat |-> P(n)[n]]
<1>5. f \in [Nat -> S] /\ f[0] = a
  <2>1. ASSUME NEW n \in Nat PROVE P(n)[n] \in S
    <3>1. P(n) \in [0 .. n -> S]
      BY <1>3
    <3> QED
      BY <3>1
  <2>2. P(0)[0] = a
    BY <1>3
  <2> QED
    BY <2>1, <2>2
<1>6. ASSUME NEW n \in Nat PROVE f[n + 1] = g[n + 1][f[n]]
  <2>1. P(n + 1)[n + 1] = g[n + 1][P(n + 1)[n]]
    <3>1. Approx(P(n + 1), n + 1)
      BY <1>3
    <3> QED
      BY <3>1
  <2>2. P(n + 1)[n] = P(n)[n]
    BY <1>4
  <2> QED
    BY <2>1, <2>2
<1>7. Recurs(f, S, a, g)
  BY <1>5, <1>6 DEF Recurs
<1> QED
  BY <1>7

\* A loop whose body is function g runs from state x on.
LEMMA Loop ==
  ASSUME NEW S, NEW x \in S, NEW g \in [S -> S]
  PROVE  \E f : Loops(f, S, x, g)
<1> DEFINE h == [n \in Nat |-> g]
<1>1. h \in [Nat -> [S -> S]]
  OBVIOUS
<1>2. \A n \in Nat : h[n] = g
  OBVIOUS
<1> HIDE DEF h
<1>3. PICK f : Recurs(f, S, x, h)
  BY <1>1, Recursion
<1>7. f \in [Nat -> S] /\ f[0] = x /\ \A n \in Nat : f[n + 1] = h[n + 1][f[n]]
  BY <1>3 DEF Recurs
<1>4. ASSUME NEW n \in Nat PROVE f[n + 1] = g[f[n]]
  <2>1. n + 1 \in Nat /\ f[n] \in S
    BY <1>7
  <2> QED
    BY <1>2, <1>7, <2>1
<1>5. ASSUME NEW k \in Nat PROVE f[k] = IF k = 0 THEN x ELSE g[f[k - 1]]
  <2>1. CASE k = 0
    BY <1>7, <2>1
  <2>2. CASE k # 0
    <3>1. k - 1 \in Nat /\ (k - 1) + 1 = k
      BY <2>2
    <3>2. f[(k - 1) + 1] = g[f[k - 1]]
      BY <1>4, <3>1
    <3> QED
      BY <2>2, <3>1, <3>2
  <2> QED
    BY <2>1, <2>2
<1>6. f = [k \in Nat |-> IF k = 0 THEN x ELSE g[f[k - 1]]]
  BY <1>7, <1>5
<1> QED
  BY <1>4, <1>6, <1>7 DEF Loops

-----------------------------------------------------------------------------
(* Numbers *)

LEMMA QuotientIs ==
  ASSUME NEW v \in Nat
  PROVE  /\ Quotient(v, 0) = v
         /\ \A n \in Nat : Quotient(v, n) \in Nat /\ Quotient(v, n + 1) = Quotient(v, n) \div 36
<1> DEFINE g == [q \in Nat |-> q \div 36]
           After == CHOOSE f : f = [k \in Nat |-> IF k = 0 THEN v ELSE f[k - 1] \div 36]
<1>1. g \in [Nat -> Nat] /\ \A q \in Nat : g[q] = q \div 36
  OBVIOUS
<1> HIDE DEF g
<1>0. PICK f : Loops(f, Nat, v, g)
  BY <1>1, Loop
<1>2. f = [k \in Nat |-> IF k = 0 THEN v ELSE g[f[k - 1]]] /\ f \in [Nat -> Nat]
  BY <1>0 DEF Loops
<1>3. f = [k \in Nat |-> IF k = 0 THEN v ELSE f[k - 1] \div 36]
  <2>1. ASSUME NEW k \in Nat PROVE (IF k = 0 THEN v ELSE g[f[k - 1]]) = (IF k = 0 THEN v ELSE f[k - 1] \div 36)
    <3>1. CASE k = 0
      BY <3>1
    <3>2. CASE k # 0
      <4>1. k - 1 \in Nat
        BY <2>1, <3>2
      <4>2. f[k - 1] \in Nat
        BY <1>2, <4>1
      <4> QED
        BY <1>1, <4>2
    <3> QED
      BY <3>1, <3>2
  <2> QED
    BY <1>2, <2>1, Zenon
<1>4. After = [k \in Nat |-> IF k = 0 THEN v ELSE After[k - 1] \div 36]
  BY <1>3
<1>5. \A n : Quotient(v, n) = After[n]
  BY DEF Quotient, Iterate
<1> HIDE DEF After
<1>6. After[0] = v
  BY <1>4
<1>7. ASSUME NEW n \in Nat PROVE After[n + 1] = After[n] \div 36
  BY <1>4
<1>8. \A n \in Nat : After[n] \in Nat
  <2> DEFINE E == {n \in Nat : After[n] \in Nat}
  <2>1. 0 \in E
    BY <1>6
  <2>2. ASSUME NEW n \in Nat, n \in E PROVE n + 1 \in E
    <3>1. After[n] \in Nat
      BY <2>2
    <3>2. After[n + 1] \in Nat
      BY <1>7, <3>1
    <3> QED
      BY <3>2
  <2> HIDE DEF E
  <2>3. \A n \in Nat : n \in E
    BY <2>1, <2>2, Induction
  <2> QED
    BY <2>3 DEF E
<1> QED
  BY <1>5, <1>6, <1>7, <1>8

\* A division takes at least one from what is left.
LEMMA QuotientShrinks ==
  ASSUME NEW v \in Nat
  PROVE  Quotient(v, v \div 36 + 1) = 0
<1> DEFINE m == v \div 36
           E == {n \in Nat : Quotient(v, n + 1) = 0 \/ Quotient(v, n + 1) <= m - n}
<1>1. m \in Nat
  OBVIOUS
<1>2. 0 \in E
  <2>1. Quotient(v, 0 + 1) = m
    BY QuotientIs, ZenonT(30)
  <2> QED
    BY <1>1, <2>1
<1> HIDE DEF m
<1>3. ASSUME NEW n \in Nat, n \in E PROVE n + 1 \in E
  <2>1. n + 1 \in Nat /\ (n + 1) + 1 \in Nat
    OBVIOUS
  <2>2. PICK q \in Nat : q = Quotient(v, n + 1)
    BY <2>1, QuotientIs
  <2>3. Quotient(v, (n + 1) + 1) = q \div 36
    BY <2>1, <2>2, QuotientIs
  <2>4. q = 0 \/ q <= m - n
    BY <1>3, <2>2
  <2>5. q \div 36 = 0 \/ q \div 36 <= m - (n + 1)
    BY <1>1, <2>2, <2>4
  <2> QED
    BY <2>1, <2>3, <2>5
<1>4. \A n \in Nat : n \in E
  <2> HIDE DEF E
  <2> QED
    BY <1>2, <1>3, Induction
<1>5. Quotient(v, m + 1) = 0 \/ Quotient(v, m + 1) <= 0
  BY <1>1, <1>4
<1>6. Quotient(v, m + 1) \in Nat
  BY <1>1, QuotientIs
<1>7. Quotient(v, m + 1) = 0
  BY <1>5, <1>6
<1> QED
  BY <1>7 DEF m

\* Base36 has as many digits as it takes to have nothing left.
LEMMA Base36Is ==
  ASSUME NEW v \in Nat
  PROVE  \E n \in Nat \ {0} :
           /\ Base36(v) = [k \in 1 .. n |-> Quotient(v, n - k) % 36]
           /\ Quotient(v, n) = 0 /\ \A j \in 1 .. n - 1 : Quotient(v, j) # 0
<1> DEFINE B == 1 .. v \div 36 + 1
           Q == {k \in B : Quotient(v, k) = 0}
           Fits(k) == Quotient(v, k) = 0 /\ \A j \in 1 .. k - 1 : Quotient(v, j) # 0
           n == CHOOSE k \in B : Fits(k)
<1>1. v \div 36 + 1 \in Q
  BY QuotientShrinks
<1>2. PICK k \in Q : \A j \in Q : k <= j
  <2> HIDE DEF Q
  <2>1. Q \subseteq Nat
    BY DEF Q
  <2> QED
    BY <1>1, <2>1, Least
<1>3. k \in B /\ Fits(k)
  BY <1>2
<1>4. n \in B /\ Fits(n)
  <2> HIDE DEF B, Fits
  <2> QED
    BY <1>3
<1>5. Base36(v) = [j \in 1 .. n |-> Quotient(v, n - j) % 36]
  BY Zenon DEF Base36
<1> HIDE DEF n
<1>6. n \in Nat \ {0}
  BY <1>4
<1> QED
  BY <1>4, <1>5, <1>6

LEMMA Base36Type ==
  ASSUME NEW v \in Nat
  PROVE  Base36(v) \in Seq(Digits) /\ Len(Base36(v)) >= 1
<1>1. PICK n \in Nat \ {0} : Base36(v) = [k \in 1 .. n |-> Quotient(v, n - k) % 36]
  BY Base36Is
<1>2. ASSUME NEW k \in 1 .. n PROVE Quotient(v, n - k) % 36 \in Digits
  <2>1. n - k \in Nat
    OBVIOUS
  <2>2. PICK q \in Nat : q = Quotient(v, n - k)
    BY <2>1, QuotientIs
  <2>3. q % 36 \in Digits
    BY <2>2 DEF Digits
  <2> QED
    BY <2>2, <2>3
<1>3. Base36(v) \in [1 .. n -> Digits]
  BY <1>1, <1>2
<1> QED
  BY <1>3

LEMMA Base36OfZero ==
  Base36(0)[1] = 0
<1>1. PICK n \in Nat \ {0} :
        /\ Base36(0) = [k \in 1 .. n |-> Quotient(0, n - k) % 36]
        /\ \A j \in 1 .. n - 1 : Quotient(0, j) # 0
  BY Base36Is
<1>2. Quotient(0, 0) = 0 /\ Quotient(0, 1) = 0
  <2>1. Quotient(0, 0) = 0 /\ Quotient(0, 0 + 1) = 0 \div 36
    BY QuotientIs
  <2> QED
    BY <2>1
<1>3. n = 1
  BY <1>1, <1>2
<1>4. Base36(0)[1] = Quotient(0, 1 - 1) % 36
  BY <1>1, <1>3
<1> QED
  BY <1>2, <1>4

\* parseInt goes through the digits from the first one on.
LEMMA ParseIntIs ==
  ASSUME NEW s \in Seq(Digits), s # <<>>
  PROVE  \E f : /\ f[0] = 0 /\ ParseInt(s) = f[Len(s)]
                /\ \A k \in 0 .. Len(s) : f[k] \in Nat
                /\ \A k \in 0 .. Len(s) - 1 : f[k + 1] = 36 * f[k] + s[k + 1]
<1> DEFINE Step(k) == [y \in Nat |-> IF k \in 1 .. Len(s) THEN 36 * y + s[k] ELSE y]
           g == [k \in Nat |-> Step(k)]
           Value == CHOOSE f : f = [k \in 0 .. Len(s) |-> IF k = 0 THEN 0 ELSE 36 * f[k - 1] + s[k]]
<1>0. ASSUME NEW k \in 1 .. Len(s) PROVE s[k] \in Nat
  <2>1. s[k] \in Digits
    OBVIOUS
  <2>2. Digits \subseteq Nat
    BY DEF Digits
  <2> QED
    BY <2>1, <2>2
<1>1. ASSUME NEW k \in Nat PROVE Step(k) \in [Nat -> Nat]
  <2>1. ASSUME NEW y \in Nat PROVE (IF k \in 1 .. Len(s) THEN 36 * y + s[k] ELSE y) \in Nat
    <3>1. CASE k \in 1 .. Len(s)
      BY <1>0, <3>1
    <3> QED
      BY <3>1
  <2> QED
    BY <2>1
<1>2. g \in [Nat -> [Nat -> Nat]]
  <2> HIDE DEF Step
  <2> QED
    BY <1>1
<1>3. \A k \in 1 .. Len(s), y \in Nat : g[k][y] = 36 * y + s[k]
  OBVIOUS
<1> HIDE DEF g
<1>4. PICK f : Recurs(f, Nat, 0, g)
  BY <1>2, Recursion
<1>5. f \in [Nat -> Nat] /\ f[0] = 0 /\ \A n \in Nat : f[n + 1] = g[n + 1][f[n]]
  BY <1>4 DEF Recurs
<1> DEFINE p == [k \in 0 .. Len(s) |-> f[k]]
<1>6. ASSUME NEW k \in 0 .. Len(s) PROVE p[k] = IF k = 0 THEN 0 ELSE 36 * p[k - 1] + s[k]
  <2>1. CASE k = 0
    BY <1>5, <2>1
  <2>2. CASE k # 0
    <3>1. k - 1 \in Nat /\ k - 1 \in 0 .. Len(s) /\ k \in 1 .. Len(s) /\ (k - 1) + 1 = k
      BY <1>6, <2>2
    <3>2. f[k - 1] \in Nat /\ f[(k - 1) + 1] = g[(k - 1) + 1][f[k - 1]]
      BY <1>5, <3>1
    <3>3. f[k] = 36 * f[k - 1] + s[k]
      BY <1>3, <3>1, <3>2
    <3> QED
      BY <2>2, <3>1, <3>3
  <2> QED
    BY <2>1, <2>2
<1>7. p = [k \in 0 .. Len(s) |-> IF k = 0 THEN 0 ELSE 36 * p[k - 1] + s[k]]
  <2>1. p = [k \in 0 .. Len(s) |-> p[k]]
    OBVIOUS
  <2> HIDE DEF p
  <2> QED
    BY <1>6, <2>1
<1>8. Value = [k \in 0 .. Len(s) |-> IF k = 0 THEN 0 ELSE 36 * Value[k - 1] + s[k]]
  <2> HIDE DEF p
  <2> QED
    BY <1>7
<1>9. ParseInt(s) = Value[Len(s)]
  BY Zenon DEF ParseInt
<1> HIDE DEF Value
<1>10. Len(s) \in Nat
  OBVIOUS
<1>11. Value[0] = 0
  BY <1>8, <1>10
<1>12. ASSUME NEW k \in 0 .. Len(s) - 1 PROVE Value[k + 1] = 36 * Value[k] + s[k + 1]
  <2>1. k + 1 \in 0 .. Len(s) /\ k + 1 # 0 /\ (k + 1) - 1 = k
    BY <1>10
  <2> QED
    BY <1>8, <2>1
<1>13. \A k \in 0 .. Len(s) : Value[k] \in Nat
  <2> DEFINE E == {k \in Nat : k <= Len(s) => Value[k] \in Nat}
  <2>1. 0 \in E
    BY <1>11
  <2>2. ASSUME NEW k \in Nat, k \in E PROVE k + 1 \in E
    <3>1. SUFFICES ASSUME k + 1 <= Len(s) PROVE Value[k + 1] \in Nat
      OBVIOUS
    <3>2. k \in 0 .. Len(s) - 1 /\ k + 1 \in 1 .. Len(s)
      BY <1>10, <3>1
    <3>3. Value[k] \in Nat
      BY <1>10, <2>2, <3>1
    <3>4. s[k + 1] \in Nat
      BY SMTT(30), <3>2 DEF Digits
    <3>5. Value[k + 1] = 36 * Value[k] + s[k + 1]
      BY <1>12, <3>2
    <3> QED
      BY <3>3, <3>4, <3>5
  <2>3. \A k \in Nat : k \in E
    <3> HIDE DEF E
    <3> QED
      BY <2>1, <2>2, Induction
  <2> QED
    BY <1>10, <2>3
<1> QED
  BY <1>9, <1>11, <1>12, <1>13

LEMMA ParseIntType ==
  ASSUME NEW s \in Seq(Digits)
  PROVE  /\ s = <<>> => ParseInt(s) = NaN
         /\ s # <<>> => ParseInt(s) \in Nat
<1>1. CASE s = <<>>
  BY <1>1 DEF ParseInt
<1>2. CASE s # <<>>
  <2>1. Len(s) \in 0 .. Len(s)
    OBVIOUS
  <2> QED
    BY <1>2, <2>1, ParseIntIs
<1> QED
  BY <1>1, <1>2

\* parseInt(v.toString(36), 36) is v.
LEMMA ParseIntOfBase36 ==
  ASSUME NEW v \in Nat
  PROVE  ParseInt(Base36(v)) = v
<1> DEFINE s == Base36(v)
<1>1. PICK n \in Nat \ {0} : /\ s = [k \in 1 .. n |-> Quotient(v, n - k) % 36]
                             /\ Quotient(v, n) = 0
  BY Base36Is
<1>2. s \in Seq(Digits) /\ s # <<>>
  BY Base36Type
<1> HIDE DEF s
<1>3. Len(s) = n
  <2>1. DOMAIN s = 1 .. n
    BY <1>1
  <2> QED
    BY <1>2, <2>1
<1>4. PICK f : /\ f[0] = 0 /\ ParseInt(s) = f[n]
               /\ \A k \in 0 .. n - 1 : f[k + 1] = 36 * f[k] + s[k + 1]
  BY <1>2, <1>3, ParseIntIs
<1> DEFINE E == {k \in Nat : k <= n => f[k] = Quotient(v, n - k)}
<1>5. 0 \in E
  BY <1>1, <1>4
<1>6. ASSUME NEW k \in Nat, k \in E PROVE k + 1 \in E
  <2>1. SUFFICES ASSUME k + 1 <= n PROVE f[k + 1] = Quotient(v, n - (k + 1))
    OBVIOUS
  <2>2. k \in 0 .. n - 1 /\ k + 1 \in 1 .. n /\ n - (k + 1) \in Nat /\ (n - (k + 1)) + 1 = n - k
    BY <2>1
  <2>3. PICK q \in Nat : q = Quotient(v, n - (k + 1))
    BY <2>2, QuotientIs
  <2>4. Quotient(v, n - k) = q \div 36
    <3>1. Quotient(v, (n - (k + 1)) + 1) = Quotient(v, n - (k + 1)) \div 36
      BY <2>2, QuotientIs
    <3> QED
      BY <2>2, <2>3, <3>1
  <2>5. s[k + 1] = q % 36
    BY <1>1, <2>2, <2>3
  <2>6. f[k + 1] = 36 * f[k] + s[k + 1]
    BY <1>4, <2>2
  <2>7. f[k] = q \div 36
    BY <1>6, <2>1, <2>4
  <2>8. f[k + 1] = 36 * (q \div 36) + (q % 36)
    BY <2>5, <2>6, <2>7
  <2>9. f[k + 1] = q
    BY <2>3, <2>8
  <2> QED
    BY <2>3, <2>9
<1>7. \A k \in Nat : k \in E
  <2> HIDE DEF E
  <2> QED
    BY <1>5, <1>6, Induction
<1>8. f[n] = Quotient(v, n - n)
  BY <1>7
<1>9. n - n = 0 /\ Quotient(v, 0) = v
  BY QuotientIs
<1> QED
  BY <1>4, <1>8, <1>9 DEF s

Vals == Int \cup {NaN}

LEMMA EncodeType ==
  ASSUME NEW v \in Int
  PROVE  EncodeSignedInt(v) \in Seq(Digits) /\ EncodeSignedInt(v) # <<>>
<1>1. CASE v < 0
  <2>1. -v \in Nat
    BY <1>1
  <2>2. PICK t \in Seq(Digits) : t = Base36(-v)
    BY <2>1, Base36Type
  <2>3. EncodeSignedInt(v) = <<Sign>> \o t
    BY <1>1, <2>2 DEF EncodeSignedInt
  <2>4. <<Sign>> \in Seq(Digits)
    BY DEF Sign, Digits
  <2> QED
    BY <2>2, <2>3, <2>4
<1>2. CASE ~(v < 0)
  <2>1. v \in Nat
    BY <1>2
  <2>2. EncodeSignedInt(v) = Base36(v)
    BY <1>2 DEF EncodeSignedInt
  <2> QED
    BY <2>1, <2>2, Base36Type
<1> QED
  BY <1>1, <1>2

LEMMA DecodeType ==
  ASSUME NEW s \in Seq(Digits)
  PROVE  DecodeSignedInt(s) \in Vals
<1>1. CASE s # <<>> /\ s[1] = Sign /\ Tail(s) # <<>>
  <2>0. Tail(s) \in Seq(Digits)
    BY <1>1
  <2>1. PICK t \in Seq(Digits) : t = Tail(s)
    BY <2>0
  <2>2. ParseInt(t) \in Nat
    BY <1>1, <2>1, ParseIntType
  <2>3. DecodeSignedInt(s) = -ParseInt(t)
    BY <1>1, <2>1 DEF DecodeSignedInt
  <2> QED
    BY <2>2, <2>3 DEF Vals
<1>2. CASE s # <<>> /\ s[1] = Sign /\ Tail(s) = <<>>
  BY <1>2 DEF DecodeSignedInt, Vals
<1>3. CASE ~(s # <<>> /\ s[1] = Sign)
  <2>1. DecodeSignedInt(s) = ParseInt(s)
    BY <1>3 DEF DecodeSignedInt
  <2> QED
    BY <2>1, ParseIntType DEF Vals
<1> QED
  BY <1>1, <1>2, <1>3

\* decodeSignedInt gives every number back that does not begin with the sign
\* without being negative (app.js:1562-1577).
THEOREM NumbersSurvive ==
  ASSUME NEW v \in Int, ~Ambiguous(v)
  PROVE  DecodeSignedInt(EncodeSignedInt(v)) = v
<1>1. CASE v < 0
  <2>1. -v \in Nat
    BY <1>1
  <2>2. PICK t : t = Base36(-v) /\ t \in Seq(Digits) /\ t # <<>> /\ ParseInt(t) = -v
    BY <2>1, Base36Type, ParseIntOfBase36
  <2>3. EncodeSignedInt(v) = <<Sign>> \o t
    BY <1>1, <2>2 DEF EncodeSignedInt
  <2>4. PICK e : e = <<Sign>> \o t
    OBVIOUS
  <2>5. e # <<>> /\ e[1] = Sign /\ Tail(e) = t
    BY <2>2, <2>4
  <2>6. DecodeSignedInt(e) = -(-v)
    BY <2>2, <2>5 DEF DecodeSignedInt
  <2> QED
    BY <2>3, <2>4, <2>6
<1>2. CASE ~(v < 0)
  <2>1. v \in Nat
    BY <1>2
  <2>2. PICK t : t = Base36(v) /\ t \in Seq(Digits) /\ t # <<>> /\ ParseInt(t) = v
    BY <2>1, Base36Type, ParseIntOfBase36
  <2>3. EncodeSignedInt(v) = t
    BY <1>2, <2>2 DEF EncodeSignedInt
  <2>4. t[1] # Sign
    <3>1. CASE v = 0
      BY <2>2, <3>1, Base36OfZero DEF Sign
    <3>2. CASE v > 0
      BY <2>2, <3>2 DEF Ambiguous
    <3> QED
      BY <2>1, <3>1, <3>2
  <2>5. DecodeSignedInt(t) = ParseInt(t)
    BY <2>4 DEF DecodeSignedInt
  <2> QED
    BY <2>2, <2>3, <2>5
<1> QED
  BY <1>1, <1>2

-----------------------------------------------------------------------------
(* Codes in a text: what stands at a place of it *)

\* c stands in s from place p on.
Stands(c, s, p) == p + Len(c) - 1 <= Len(s) /\ \A k \in 1 .. Len(c) : s[(p + k) - 1] = c[k]

LEMMA DigitsEndIs ==
  ASSUME NEW s \in Seq(Nat), NEW p \in 1 .. Len(s) + 1
  PROVE  /\ DigitsEnd(s, p) \in p .. Len(s) + 1
         /\ DigitsEnd(s, p) = Len(s) + 1 \/ s[DigitsEnd(s, p)] \notin Digits
         /\ \A k \in p .. DigitsEnd(s, p) - 1 : s[k] \in Digits
<1> DEFINE B == p .. Len(s) + 1
           Q == {j \in B : j = Len(s) + 1 \/ s[j] \notin Digits}
           Ends(j) == (j = Len(s) + 1 \/ s[j] \notin Digits) /\ \A k \in p .. j - 1 : s[k] \in Digits
           e == CHOOSE j \in B : Ends(j)
<1>0. Len(s) \in Nat
  OBVIOUS
<1>1. PICK j \in Q : \A y \in Q : j <= y
  <2>1. Len(s) + 1 \in Q
    BY <1>0
  <2>2. Q \subseteq Nat
    BY <1>0
  <2> HIDE DEF Q
  <2> QED
    BY <2>1, <2>2, Least
<1>2. j \in B /\ Ends(j)
  <2>1. ASSUME NEW k \in p .. j - 1 PROVE s[k] \in Digits
    <3>1. k \in B /\ ~(j <= k)
      BY <1>0, <1>1
    <3>2. k \notin Q
      BY <1>1, <3>1
    <3> QED
      BY <3>1, <3>2
  <2> QED
    BY <1>1, <2>1
<1>3. e \in B /\ Ends(e)
  <2> HIDE DEF B, Ends
  <2> QED
    BY <1>2
<1>4. DigitsEnd(s, p) = e
  BY Zenon DEF DigitsEnd
<1> HIDE DEF e
<1> QED
  BY <1>3, <1>4

LEMMA PartIs ==
  ASSUME NEW s \in Seq(Nat), NEW p \in 1 .. Len(s) + 1, NEW e \in p .. Len(s) + 1
  PROVE  /\ SubSeq(s, p, e - 1) \in Seq(Nat) /\ Len(SubSeq(s, p, e - 1)) = e - p
         /\ \A k \in 1 .. e - p : SubSeq(s, p, e - 1)[k] = s[(p + k) - 1]
<1>1. PICK t : t = SubSeq(s, p, e - 1)
  OBVIOUS
<1>2. Len(s) \in Nat
  OBVIOUS
<1>3. t \in Seq(Nat) /\ Len(t) = e - p /\ \A k \in 1 .. e - p : t[k] = s[(p + k) - 1]
  BY SMTT(30), <1>1, <1>2
<1> QED
  BY <1>1, <1>3

\* Between a place and the end of its digits are digits.
LEMMA NumberType ==
  ASSUME NEW s \in Seq(Nat), NEW p \in 1 .. Len(s) + 1
  PROVE  SubSeq(s, p, DigitsEnd(s, p) - 1) \in Seq(Digits)
<1>1. PICK e \in p .. Len(s) + 1 : e = DigitsEnd(s, p) /\ \A k \in p .. e - 1 : s[k] \in Digits
  BY DigitsEndIs
<1>2. PICK t : t = SubSeq(s, p, e - 1)
  OBVIOUS
<1>3. Len(s) \in Nat
  OBVIOUS
<1>4. t \in Seq(Nat) /\ Len(t) = e - p /\ \A k \in 1 .. e - p : t[k] = s[(p + k) - 1]
  BY <1>2, PartIs
<1>5. ASSUME NEW k \in 1 .. Len(t) PROVE t[k] \in Digits
  <2>1. (p + k) - 1 \in p .. e - 1
    BY <1>1, <1>3, <1>4
  <2> QED
    BY <1>1, <1>4, <2>1
<1>6. t \in [1 .. Len(t) -> Digits]
  BY <1>4, <1>5
<1>7. t \in Seq(Digits)
  BY <1>4, <1>6
<1> QED
  BY <1>1, <1>2, <1>7

\* A number and its terminator are read back as they were written.
LEMMA NumberStands ==
  ASSUME NEW s \in Seq(Nat), NEW p \in 1 .. Len(s) + 1, NEW t \in Seq(Digits),
         Stands(t \o <<Dot>>, s, p)
  PROVE  /\ DigitsEnd(s, p) = p + Len(t)
         /\ SubSeq(s, p, DigitsEnd(s, p) - 1) = t
         /\ Skip(s, DigitsEnd(s, p)) = p + Len(t) + 1
<1> DEFINE m == Len(t)
<1>1. m \in Nat /\ Len(s) \in Nat
  OBVIOUS
<1>2. PICK c : c = t \o <<Dot>> /\ Stands(c, s, p)
  OBVIOUS
<1>3. Len(c) = m + 1 /\ c[m + 1] = Dot /\ \A k \in 1 .. m : c[k] = t[k]
  <2>1. Dot \in Nat
    BY DEF Dot
  <2> QED
    BY <1>2, <2>1
<1>4. p + m <= Len(s) /\ s[p + m] = Dot /\ \A k \in 1 .. m : s[(p + k) - 1] = t[k]
  BY <1>1, <1>2, <1>3 DEF Stands
<1>5. PICK e \in p .. Len(s) + 1 :
        /\ e = DigitsEnd(s, p) /\ (e = Len(s) + 1 \/ s[e] \notin Digits)
        /\ \A k \in p .. e - 1 : s[k] \in Digits
  BY DigitsEndIs
<1>6. Dot \notin Digits
  BY DEF Dot, Digits
<1>7. \A k \in 1 .. m : t[k] \in Digits
  OBVIOUS
<1> HIDE DEF m
<1>8. e = p + m
  <2>1. ~(p + m < e)
    <3>1. SUFFICES ASSUME p + m < e PROVE FALSE
      OBVIOUS
    <3>2. p + m \in p .. e - 1
      BY <1>1, <3>1
    <3> QED
      BY <1>4, <1>5, <1>6, <3>2
  <2>2. ~(e < p + m)
    <3>1. SUFFICES ASSUME e < p + m PROVE FALSE
      OBVIOUS
    <3>2. PICK k \in 1 .. m : k = (e - p) + 1
      BY <1>1, <3>1
    <3>3. (p + k) - 1 = e /\ e # Len(s) + 1
      BY <1>1, <1>4, <3>1, <3>2
    <3>4. s[e] = t[k]
      BY <1>4, <3>3
    <3> QED
      BY <1>5, <1>7, <3>3, <3>4
  <2> QED
    BY <1>1, <2>1, <2>2
<1>9. PICK u : u = SubSeq(s, p, e - 1)
  OBVIOUS
<1>10. u \in Seq(Nat) /\ Len(u) = m /\ \A k \in 1 .. m : u[k] = s[(p + k) - 1]
  <2>1. u \in Seq(Nat) /\ Len(u) = e - p /\ \A k \in 1 .. e - p : u[k] = s[(p + k) - 1]
    BY SMTT(30), <1>5, <1>9, PartIs
  <2>2. e - p = m
    BY <1>1, <1>8
  <2> QED
    BY <2>1, <2>2
<1>11. u = t
  <2>1. t \in Seq(Digits) /\ Len(t) = m
    BY DEF m
  <2>2. \A k \in 1 .. m : u[k] = t[k]
    BY <1>4, <1>10
  <2> QED
    BY <1>10, <2>1, <2>2
<1>12. Skip(s, e) = e + 1
  BY <1>1, <1>4, <1>8 DEF Skip
<1> QED
  BY <1>1, <1>5, <1>8, <1>9, <1>11, <1>12 DEF m

-----------------------------------------------------------------------------
(* The passes of the decoder *)

DecodeStates(s) == [at : 1 .. Len(s) + 1, values : Seq(Vals) \ {<<>>}]

LEMMA PlusType ==
  ASSUME NEW a \in Vals, NEW b \in Vals
  PROVE  Plus(a, b) \in Vals /\ (a \in Int /\ b \in Int => Plus(a, b) = a + b)
<1>1. CASE NaN \in {a, b}
  BY <1>1, NaNAssumption DEF Plus, Vals
<1>2. CASE NaN \notin {a, b}
  BY <1>2 DEF Plus, Vals
<1> QED
  BY <1>1, <1>2

LEMMA LetterType ==
  ASSUME NEW c \in Letters
  PROVE  Letter(c) \in Int /\ c # Large /\ c # Repeat
<1>1. c \in Int
  BY DEF Letters, Small, Capitals
<1>2. c # Large /\ c # Repeat
  BY DEF Letters, Small, Capitals, Large, Repeat
<1>3. Letter(c) \in {0, c - 9, 35 - c}
  BY Zenon DEF Letter, Letters
<1> QED
  BY <1>1, <1>2, <1>3

LEMMA TimesType ==
  ASSUME NEW v \in Vals, NEW n \in Nat \cup {NaN}
  PROVE  /\ Times(v, n) \in Seq(Vals)
         /\ n \in Nat => Len(Times(v, n)) = n /\ \A k \in 1 .. n : Times(v, n)[k] = v
<1>1. CASE n = NaN
  BY <1>1, NaNAssumption DEF Times
<1>2. CASE n # NaN
  <2>1. n \in Nat
    BY <1>2
  <2>2. Times(v, n) = [k \in 1 .. n |-> v]
    BY <1>2 DEF Times
  <2>3. PICK t : t = [k \in 1 .. n |-> v]
    OBVIOUS
  <2>4. t \in [1 .. n -> Vals]
    BY <2>3
  <2>5. t \in Seq(Vals) /\ Len(t) = n
    BY <2>1, <2>3, <2>4
  <2> QED
    BY <2>1, <2>2, <2>3, <2>5
<1> QED
  BY <1>1, <1>2

LEMMA PassAtEnd ==
  ASSUME NEW s, NEW st, st.at > Len(s)
  PROVE  DecodePass(s, st) = st
BY Zenon DEF DecodePass

\* What a pass makes of the character it looks at.
LEMMA PassIs ==
  ASSUME NEW s, NEW st
  PROVE  /\ ~(st.at > Len(s)) /\ s[st.at] \in Letters =>
              DecodePass(s, st) =
                [at |-> st.at + 1,
                 values |-> st.values \o <<Plus(Last(st.values), Letter(s[st.at]))>>]
         /\ ~(st.at > Len(s)) /\ s[st.at] = Large =>
              DecodePass(s, st) =
                [at |-> Skip(s, DigitsEnd(s, st.at + 1)),
                 values |-> st.values \o
                   <<Plus(Last(st.values),
                          DecodeSignedInt(SubSeq(s, st.at + 1, DigitsEnd(s, st.at + 1) - 1)))>>]
         /\ ~(st.at > Len(s)) /\ s[st.at] = Repeat =>
              DecodePass(s, st) =
                [at |-> Skip(s, DigitsEnd(s, st.at + 1)),
                 values |-> st.values \o
                   Times(Last(st.values),
                         ParseInt(SubSeq(s, st.at + 1, DigitsEnd(s, st.at + 1) - 1)))]
         /\ ~(st.at > Len(s)) /\ s[st.at] \notin Letters \cup {Large, Repeat} =>
              DecodePass(s, st) = [at |-> st.at + 1, values |-> st.values \o <<>>]
<1>2. ASSUME ~(st.at > Len(s)), s[st.at] \in Letters
      PROVE  DecodePass(s, st) =
               [at |-> st.at + 1,
                values |-> st.values \o <<Plus(Last(st.values), Letter(s[st.at]))>>]
  <2>1. s[st.at] # Large /\ s[st.at] # Repeat
    BY <1>2, LetterType
  <2> QED
    BY <1>2, <2>1, Zenon DEF DecodePass
<1>3. Large \notin Letters /\ Repeat \notin Letters /\ Large # Repeat
  BY DEF Large, Repeat, Letters, Small, Capitals
<1>4. ASSUME ~(st.at > Len(s)), s[st.at] = Large
      PROVE  DecodePass(s, st) =
               [at |-> Skip(s, DigitsEnd(s, st.at + 1)),
                values |-> st.values \o
                  <<Plus(Last(st.values),
                         DecodeSignedInt(SubSeq(s, st.at + 1, DigitsEnd(s, st.at + 1) - 1)))>>]
  BY <1>3, <1>4, Zenon DEF DecodePass
<1>5. ASSUME ~(st.at > Len(s)), s[st.at] = Repeat
      PROVE  DecodePass(s, st) =
               [at |-> Skip(s, DigitsEnd(s, st.at + 1)),
                values |-> st.values \o
                  Times(Last(st.values),
                        ParseInt(SubSeq(s, st.at + 1, DigitsEnd(s, st.at + 1) - 1)))]
  BY <1>3, <1>5, Zenon DEF DecodePass
<1>6. ASSUME ~(st.at > Len(s)), s[st.at] \notin Letters \cup {Large, Repeat}
      PROVE  DecodePass(s, st) = [at |-> st.at + 1, values |-> st.values \o <<>>]
  BY <1>6, Zenon DEF DecodePass
<1> QED
  BY <1>2, <1>4, <1>5, <1>6

LEMMA DecodeStateType ==
  ASSUME NEW s \in Seq(Nat), NEW st \in DecodeStates(s)
  PROVE  /\ st.at \in 1 .. Len(s) + 1 /\ st.values \in Seq(Vals) /\ Len(st.values) \in Nat \ {0}
         /\ Last(st.values) = st.values[Len(st.values)] /\ Last(st.values) \in Vals
<1>1. st.at \in 1 .. Len(s) + 1 /\ st.values \in Seq(Vals) /\ st.values # <<>>
  BY DEF DecodeStates
<1>2. PICK t \in Seq(Vals) : t = st.values /\ t # <<>>
  BY <1>1
<1>3. Len(t) \in Nat \ {0} /\ t[Len(t)] \in Vals
  BY <1>2
<1>4. Last(t) = t[Len(t)]
  BY DEF Last
<1> QED
  BY <1>1, <1>2, <1>3, <1>4

LEMMA DecodeStateIs ==
  ASSUME NEW s \in Seq(Nat), NEW p \in 1 .. Len(s) + 1,
         NEW t \in Seq(Vals), t # <<>>, NEW u \in Seq(Vals)
  PROVE  [at |-> p, values |-> t \o u] \in DecodeStates(s)
<1>1. PICK c : c = t \o u
  OBVIOUS
<1>2. c \in Seq(Vals) /\ c # <<>>
  BY <1>1
<1>3. [at |-> p, values |-> c] \in DecodeStates(s)
  BY <1>2 DEF DecodeStates
<1> QED
  BY <1>1, <1>3

\* A pass moves on, if only past a character that is no code.
LEMMA PassType ==
  ASSUME NEW s \in Seq(Nat), NEW st \in DecodeStates(s)
  PROVE  /\ DecodePass(s, st) \in DecodeStates(s)
         /\ st.at <= Len(s) => DecodePass(s, st).at > st.at
<1> DEFINE end == DigitsEnd(s, st.at + 1)
           number == SubSeq(s, st.at + 1, end - 1)
           prev == Last(st.values)
<1>0. Len(s) \in Nat
  OBVIOUS
<1>1. /\ st.at \in 1 .. Len(s) + 1 /\ st.values \in Seq(Vals) /\ st.values # <<>>
      /\ prev \in Vals
  BY DecodeStateType
<1>2. CASE st.at > Len(s)
  BY <1>0, <1>1, <1>2, PassAtEnd
<1>3. CASE ~(st.at > Len(s))
  <2>0. st.at + 1 \in 1 .. Len(s) + 1
    BY <1>0, <1>1, <1>3
  <2>1. end \in st.at + 1 .. Len(s) + 1 /\ number \in Seq(Digits)
    BY <2>0, DigitsEndIs, NumberType
  <2> HIDE DEF end, number, prev
  <2>2. Skip(s, end) \in 1 .. Len(s) + 1 /\ Skip(s, end) > st.at
    BY <1>0, <1>1, <2>1 DEF Skip
  <2>3. CASE s[st.at] \in Letters
    <3>1. Letter(s[st.at]) \in Vals
      BY <2>3, LetterType DEF Vals
    <3>2. PICK x \in Vals : x = Plus(prev, Letter(s[st.at]))
      BY <1>1, <3>1, PlusType
    <3>3. DecodePass(s, st) = [at |-> st.at + 1, values |-> st.values \o <<x>>]
      BY <1>3, <2>3, <3>2, PassIs DEF prev
    <3>4. [at |-> st.at + 1, values |-> st.values \o <<x>>] \in DecodeStates(s)
      <4>0. <<x>> \in Seq(Vals)
        BY <3>2
      <4>1. PICK u \in Seq(Vals) : u = <<x>>
        BY <4>0
      <4>2. [at |-> st.at + 1, values |-> st.values \o u] \in DecodeStates(s)
        BY <1>1, <2>0, DecodeStateIs
      <4> QED
        BY <4>1, <4>2
    <3> QED
      BY <1>1, <3>3, <3>4
  <2>4. CASE s[st.at] = Large
    <3>1. DecodeSignedInt(number) \in Vals
      BY <2>1, DecodeType
    <3>2. PICK x \in Vals : x = Plus(prev, DecodeSignedInt(number))
      BY <1>1, <3>1, PlusType
    <3>3. DecodePass(s, st) = [at |-> Skip(s, end), values |-> st.values \o <<x>>]
      BY <1>3, <2>4, <3>2, PassIs DEF prev, number, end
    <3>4. [at |-> Skip(s, end), values |-> st.values \o <<x>>] \in DecodeStates(s)
      <4>0. <<x>> \in Seq(Vals)
        BY <3>2
      <4>1. PICK u \in Seq(Vals) : u = <<x>>
        BY <4>0
      <4>2. [at |-> Skip(s, end), values |-> st.values \o u] \in DecodeStates(s)
        BY <1>1, <2>2, DecodeStateIs
      <4> QED
        BY <4>1, <4>2
    <3> QED
      BY <2>2, <3>3, <3>4
  <2>5. CASE s[st.at] = Repeat
    <3>1. ParseInt(number) \in Nat \cup {NaN}
      BY <2>1, ParseIntType
    <3>2. PICK u \in Seq(Vals) : u = Times(prev, ParseInt(number))
      BY <1>1, <3>1, TimesType
    <3>3. DecodePass(s, st) = [at |-> Skip(s, end), values |-> st.values \o u]
      BY <1>3, <2>5, <3>2, PassIs DEF prev, number, end
    <3>4. [at |-> Skip(s, end), values |-> st.values \o u] \in DecodeStates(s)
      BY <1>1, <2>2, DecodeStateIs
    <3> QED
      BY <2>2, <3>3, <3>4
  <2>6. CASE s[st.at] \notin Letters \cup {Large, Repeat}
    <3>1. <<>> \in Seq(Vals)
      OBVIOUS
    <3>2. DecodePass(s, st) = [at |-> st.at + 1, values |-> st.values \o <<>>]
      BY <1>3, <2>6, PassIs
    <3>3. [at |-> st.at + 1, values |-> st.values \o <<>>] \in DecodeStates(s)
      BY <1>1, <2>0, <3>1, DecodeStateIs
    <3> QED
      BY <1>1, <3>2, <3>3
  <2> QED
    BY <2>3, <2>4, <2>5, <2>6
<1> QED
  BY <1>2, <1>3

\* The decoder runs through a text to its end.
DecodeRun(s, D, at, first) ==
  /\ D \in [Nat -> DecodeStates(s)] /\ D[0] = [at |-> at, values |-> <<first>>]
  /\ \A n \in Nat : D[n + 1] = DecodePass(s, D[n])
  /\ \A n \in Nat : n >= Len(s) => D[n] = D[Len(s)]
  /\ Decoded(s, at, first) = D[Len(s)].values

LEMMA DecoderRuns ==
  ASSUME NEW s \in Seq(Nat), NEW at \in 1 .. Len(s) + 1, NEW first \in Vals
  PROVE  \E D : DecodeRun(s, D, at, first)
<1> DEFINE S == DecodeStates(s)
           x == [at |-> at, values |-> <<first>>]
           g == [st \in S |-> DecodePass(s, st)]
           D == CHOOSE f : f = [k \in Nat |-> IF k = 0 THEN x ELSE DecodePass(s, f[k - 1])]
<1>0. Len(s) \in Nat
  OBVIOUS
<1>1. x \in S
  <2>1. <<first>> \in Seq(Vals) /\ <<first>> # <<>>
    OBVIOUS
  <2>2. PICK t : t = <<first>>
    OBVIOUS
  <2>3. [at |-> at, values |-> t] \in DecodeStates(s)
    BY <2>1, <2>2 DEF DecodeStates
  <2> QED
    BY <2>2, <2>3
<1>2. g \in [S -> S] /\ \A st \in S : g[st] = DecodePass(s, st)
  <2> HIDE DEF x
  <2> QED
    BY PassType
<1> HIDE DEF g, x, S
<1>3. PICK f : Loops(f, S, x, g)
  BY <1>1, <1>2, Loop
<1>4. f = [k \in Nat |-> IF k = 0 THEN x ELSE g[f[k - 1]]] /\ f \in [Nat -> S]
  BY <1>3 DEF Loops
<1>5. f = [k \in Nat |-> IF k = 0 THEN x ELSE DecodePass(s, f[k - 1])]
  <2>1. ASSUME NEW k \in Nat
        PROVE  (IF k = 0 THEN x ELSE g[f[k - 1]]) = (IF k = 0 THEN x ELSE DecodePass(s, f[k - 1]))
    <3>1. CASE k = 0
      BY <3>1
    <3>2. CASE k # 0
      <4>1. k - 1 \in Nat
        BY <2>1, <3>2
      <4>2. f[k - 1] \in S
        BY <1>4, <4>1
      <4> QED
        BY <1>2, <4>2
    <3> QED
      BY <3>1, <3>2
  <2> QED
    BY <1>4, <2>1, Zenon
<1>6. D = [k \in Nat |-> IF k = 0 THEN x ELSE DecodePass(s, D[k - 1])]
  BY <1>5
<1>7. Decoded(s, at, first) = D[Len(s)].values
  BY DEF Decoded, Iterate, x
<1> HIDE DEF D
<1>8. D[0] = x
  BY <1>6
<1>9. ASSUME NEW n \in Nat PROVE D[n + 1] = DecodePass(s, D[n])
  <2>1. n + 1 \in Nat /\ n + 1 # 0 /\ (n + 1) - 1 = n
    OBVIOUS
  <2> QED
    BY <1>6, <2>1
<1>10. \A n \in Nat : D[n] \in S
  <2> DEFINE E == {n \in Nat : D[n] \in S}
  <2>1. 0 \in E
    BY <1>1, <1>8
  <2>2. ASSUME NEW n \in Nat, n \in E PROVE n + 1 \in E
    <3>1. D[n] \in S
      BY <2>2
    <3>2. DecodePass(s, D[n]) \in S
      BY <3>1, PassType DEF S
    <3>3. D[n + 1] = DecodePass(s, D[n])
      BY <1>9, <2>2
    <3> QED
      BY <3>2, <3>3
  <2>3. \A n \in Nat : n \in E
    <3> HIDE DEF E
    <3> QED
      BY <2>1, <2>2, Induction
  <2> QED
    BY <2>3
<1>11. D \in [Nat -> S]
  <2>1. D = [k \in Nat |-> D[k]]
    BY <1>6
  <2> QED
    BY <1>10, <2>1
<1>12. ASSUME NEW n \in Nat
       PROVE  D[n].at \in Nat /\ D[n].at <= Len(s) + 1
              /\ (D[n].at = Len(s) + 1 => D[n + 1] = D[n])
              /\ (D[n].at <= Len(s) => D[n + 1].at > D[n].at)
  <2>1. D[n] \in DecodeStates(s)
    BY <1>10 DEF S
  <2>2. D[n].at \in 1 .. Len(s) + 1
    BY <2>1, DecodeStateType
  <2>3. D[n].at > Len(s) => D[n + 1] = D[n]
    BY <1>9, PassAtEnd
  <2>4. D[n].at <= Len(s) => D[n + 1].at > D[n].at
    BY <1>9, <2>1, PassType
  <2> QED
    BY <1>0, <2>2, <2>3, <2>4
<1>13. D[Len(s)].at = Len(s) + 1
  <2> DEFINE E == {n \in Nat : D[n].at = Len(s) + 1 \/ D[n].at > n}
  <2>1. 0 \in E
    BY <1>8 DEF x
  <2>2. ASSUME NEW n \in Nat, n \in E PROVE n + 1 \in E
    <3>0. n \in Nat /\ n + 1 \in Nat
      BY <2>2
    <3>1. PICK a, b \in Nat : a = D[n].at /\ b = D[n + 1].at
      BY <1>12, <3>0
    <3>2. /\ a = Len(s) + 1 => b = a
          /\ a <= Len(s) => b > a
          /\ a <= Len(s) + 1 /\ (a = Len(s) + 1 \/ a > n)
      BY <1>12, <2>2, <3>0, <3>1
    <3>3. b = Len(s) + 1 \/ b > n + 1
      BY SMTT(30), <1>0, <3>0, <3>1, <3>2
    <3> QED
      BY <3>0, <3>1, <3>3
  <2>3. \A n \in Nat : n \in E
    <3> HIDE DEF E
    <3> QED
      BY <2>1, <2>2, Induction
  <2> QED
    BY <1>0, <1>12, <2>3
<1>14. ASSUME NEW n \in Nat, n >= Len(s) PROVE D[n] = D[Len(s)]
  <2> DEFINE E == {k \in Nat : k >= Len(s) => D[k] = D[Len(s)]}
  <2>1. 0 \in E
    BY <1>0
  <2>2. ASSUME NEW k \in Nat, k \in E PROVE k + 1 \in E
    <3>1. CASE k >= Len(s)
      <4>1. D[k] = D[Len(s)]
        BY <2>2, <3>1
      <4> QED
        BY <1>12, <1>13, <4>1
    <3>2. CASE k + 1 = Len(s)
      BY <3>2
    <3>3. CASE k + 1 < Len(s)
      BY <1>0, <3>3
    <3> QED
      BY <1>0, <3>1, <3>2, <3>3
  <2>3. \A k \in Nat : k \in E
    <3> HIDE DEF E
    <3> QED
      BY <2>1, <2>2, Induction
  <2> QED
    BY <1>14, <2>3
<1>15. DecodeRun(s, D, at, first)
  BY <1>7, <1>8, <1>9, <1>11, <1>14 DEF DecodeRun, x, S
<1> QED
  BY <1>15

-----------------------------------------------------------------------------
(* The codes *)

\* A delta from -26 to 26 is one character, from which decodeValueArray and
\* decodeSamplesDelta get the delta back; it is none of the characters that
\* announce or end something longer (app.js:1485-1495, 1526-1536).
THEOREM LettersSurvive ==
  ASSUME NEW d \in -26 .. 26
  PROVE  /\ DeltaCode(d) = <<DeltaCode(d)[1]>>
         /\ DeltaCode(d)[1] \notin {Dot, Large, Repeat}
         /\ Letter(DeltaCode(d)[1]) = d
<1>1. CASE d = 0
  <2>1. DeltaCode(d) = <<0>>
    <3>1. d \notin 1 .. 26 /\ d \notin -26 .. -1
      BY <1>1
    <3> QED
      BY <1>1, <3>1, Zenon DEF DeltaCode
  <2>2. 0 \notin Small /\ 0 \notin Capitals
    BY DEF Small, Capitals
  <2>3. Letter(0) = 0
    BY <2>2, Zenon DEF Letter
  <2>4. DeltaCode(d)[1] = 0
    BY <2>1
  <2> QED
    BY <1>1, <2>1, <2>3, <2>4 DEF Dot, Large, Repeat
<1>2. CASE d \in 1 .. 26
  <2>1. DeltaCode(d) = <<9 + d>>
    <3>1. d # 0 /\ d \notin -26 .. -1
      BY <1>2
    <3> QED
      BY <1>2, <3>1, Zenon DEF DeltaCode
  <2>2. 9 + d # 0 /\ 9 + d \in Small /\ 9 + d \notin Capitals
    BY <1>2 DEF Small, Capitals
  <2>3. Letter(9 + d) = (9 + d) - 9
    BY <2>2, Zenon DEF Letter
  <2>4. DeltaCode(d)[1] = 9 + d
    BY <2>1
  <2> QED
    BY <1>2, <2>1, <2>3, <2>4 DEF Dot, Large, Repeat
<1>3. CASE d \in -26 .. -1
  <2>1. DeltaCode(d) = <<35 - d>>
    <3>1. d # 0 /\ d \notin 1 .. 26
      BY <1>3
    <3> QED
      BY <1>3, <3>1, Zenon DEF DeltaCode
  <2>2. 35 - d # 0 /\ 35 - d \in Capitals /\ 35 - d \notin Small
    BY <1>3 DEF Small, Capitals
  <2>3. Letter(35 - d) = 35 - (35 - d)
    BY <2>2, Zenon DEF Letter
  <2>4. DeltaCode(d)[1] = 35 - d
    BY <2>1
  <2> QED
    BY <1>3, <2>1, <2>3, <2>4 DEF Dot, Large, Repeat
<1> QED
  BY <1>1, <1>2, <1>3

LEMMA OutsideLetters ==
  ASSUME NEW d \in Int, d \notin -26 .. 26
  PROVE  DeltaCode(d) = <<Large>> \o EncodeSignedInt(d) \o <<Dot>>
<1>1. d # 0 /\ d \notin 1 .. 26 /\ d \notin -26 .. -1
  OBVIOUS
<1> QED
  BY <1>1, Zenon DEF DeltaCode

LEMMA DigitsAreNat ==
  ASSUME NEW t \in Seq(Digits)
  PROVE  t \in Seq(Nat)
<1>1. Digits \subseteq Nat
  BY DEF Digits
<1>2. t \in [1 .. Len(t) -> Digits] /\ Len(t) \in Nat
  OBVIOUS
<1>3. t \in [1 .. Len(t) -> Nat]
  BY <1>1, <1>2
<1> QED
  BY <1>2, <1>3

LEMMA MarkedType ==
  ASSUME NEW c \in Nat, NEW t \in Seq(Digits)
  PROVE  <<c>> \o t \o <<Dot>> \in Seq(Nat) /\ Len(<<c>> \o t \o <<Dot>>) = Len(t) + 2
<1>1. t \in Seq(Nat)
  BY DigitsAreNat
<1>2. Dot \in Nat
  BY DEF Dot
<1> QED
  BY <1>1, <1>2

LEMMA MarkedStands ==
  ASSUME NEW s \in Seq(Nat), NEW p \in 1 .. Len(s) + 1, NEW c \in Nat, NEW t \in Seq(Digits),
         Stands(<<c>> \o t \o <<Dot>>, s, p)
  PROVE  p <= Len(s) /\ s[p] = c /\ p + 1 \in 1 .. Len(s) + 1 /\ Stands(t \o <<Dot>>, s, p + 1)
<1> DEFINE m == Len(t)
<1>1. m \in Nat /\ Len(s) \in Nat
  OBVIOUS
<1>2. PICK w : w = <<c>> \o t \o <<Dot>> /\ Stands(w, s, p)
  OBVIOUS
<1>3. PICK u : u = t \o <<Dot>>
  OBVIOUS
<1>4. Dot \in Nat
  BY DEF Dot
<1>5. Len(u) = m + 1 /\ Len(w) = m + 2 /\ w[1] = c /\ \A k \in 1 .. m + 1 : w[k + 1] = u[k]
  <2>1. t \in Seq(Nat)
    BY DigitsAreNat
  <2>2. u \in Seq(Nat) /\ Len(u) = m + 1
    BY <1>3, <1>4, <2>1
  <2>3. w = <<c>> \o u
    BY <1>2, <1>3, <1>4, <2>1
  <2> HIDE DEF m
  <2> QED
    BY <1>1, <2>2, <2>3
<1> HIDE DEF m
<1>6. (p + (m + 2)) - 1 <= Len(s) /\ \A k \in 1 .. m + 2 : s[(p + k) - 1] = w[k]
  <2>1. p + Len(w) - 1 <= Len(s) /\ \A k \in 1 .. Len(w) : s[(p + k) - 1] = w[k]
    BY <1>2 DEF Stands
  <2>2. Len(w) = m + 2
    BY <1>5
  <2>3. p + (m + 2) - 1 <= Len(s)
    BY <2>1, <2>2
  <2> QED
    BY <2>1, <2>2, <2>3
<1>7. s[p] = c
  <2>1. s[(p + 1) - 1] = w[1]
    BY <1>1, <1>6
  <2> QED
    BY <1>5, <2>1
<1>8. ASSUME NEW k \in 1 .. m + 1 PROVE s[((p + 1) + k) - 1] = u[k]
  <2>1. k + 1 \in 1 .. m + 2 /\ (p + (k + 1)) - 1 = ((p + 1) + k) - 1
    BY <1>1
  <2>2. s[(p + (k + 1)) - 1] = w[k + 1]
    BY <1>6, <2>1
  <2> QED
    BY <1>5, <2>1, <2>2
<1>9. p <= Len(s) /\ p + 1 \in 1 .. Len(s) + 1 /\ ((p + 1) + (m + 1)) - 1 <= Len(s)
  BY <1>1, <1>6
<1>10. Stands(u, s, p + 1)
  BY <1>5, <1>8, <1>9 DEF Stands
<1> QED
  BY <1>3, <1>7, <1>9, <1>10

LEMMA DeltaCodeType ==
  ASSUME NEW d \in Int
  PROVE  DeltaCode(d) \in Seq(Nat) /\ Len(DeltaCode(d)) >= 1
<1>1. CASE d \in -26 .. 26
  <2>1. PICK c : c = DeltaCode(d)[1] /\ DeltaCode(d) = <<c>>
    BY <1>1, LettersSurvive
  <2>2. c \in Nat
    <3>1. CASE d = 0
      <4>1. d \notin 1 .. 26 /\ d \notin -26 .. -1
        BY <3>1
      <4>2. DeltaCode(d) = <<0>>
        BY <3>1, <4>1, Zenon DEF DeltaCode
      <4> QED
        BY <2>1, <4>2
    <3>2. CASE d \in 1 .. 26
      <4>1. d # 0 /\ d \notin -26 .. -1
        BY <3>2
      <4>2. DeltaCode(d) = <<9 + d>>
        BY <3>2, <4>1, Zenon DEF DeltaCode
      <4> QED
        BY <2>1, <3>2, <4>2
    <3>3. CASE d \in -26 .. -1
      <4>1. d # 0 /\ d \notin 1 .. 26
        BY <3>3
      <4>2. DeltaCode(d) = <<35 - d>>
        BY <3>3, <4>1, Zenon DEF DeltaCode
      <4> QED
        BY <2>1, <3>3, <4>2
    <3> QED
      BY <1>1, <3>1, <3>2, <3>3
  <2> QED
    BY <2>1, <2>2
<1>2. CASE d \notin -26 .. 26
  <2>1. PICK t \in Seq(Digits) : t = EncodeSignedInt(d)
    BY EncodeType
  <2>2. DeltaCode(d) = <<Large>> \o t \o <<Dot>>
    BY <1>2, <2>1, OutsideLetters
  <2>3. Large \in Nat
    BY DEF Large
  <2>4. DeltaCode(d) \in Seq(Nat) /\ Len(DeltaCode(d)) = Len(t) + 2
    BY <2>2, <2>3, MarkedType
  <2> QED
    BY <2>4
<1> QED
  BY <1>1, <1>2

LEMMA RepeatCodeType ==
  ASSUME NEW n \in Nat \ {0}
  PROVE  RepeatCode(n) \in Seq(Nat) /\ Len(RepeatCode(n)) >= 1
<1>1. CASE n = 1
  BY <1>1 DEF RepeatCode
<1>2. CASE n # 1
  <2>1. PICK t \in Seq(Digits) : t = Base36(n)
    BY Base36Type
  <2>2. RepeatCode(n) = <<Repeat>> \o t \o <<Dot>>
    BY <1>2, <2>1 DEF RepeatCode
  <2>3. Repeat \in Nat
    BY DEF Repeat
  <2>4. RepeatCode(n) \in Seq(Nat) /\ Len(RepeatCode(n)) = Len(t) + 2
    BY <2>2, <2>3, MarkedType
  <2> QED
    BY <2>4
<1> QED
  BY <1>1, <1>2

\* The decoder reads one value of the code of a delta, the right one unless
\* its number is ambiguous.
LEMMA PassOfDelta ==
  ASSUME NEW s \in Seq(Nat), NEW st \in DecodeStates(s), NEW d \in Int,
         Stands(DeltaCode(d), s, st.at)
  PROVE  \E x \in Vals :
           /\ DecodePass(s, st) = [at |-> st.at + Len(DeltaCode(d)), values |-> st.values \o <<x>>]
           /\ Last(st.values) \in Int /\ (d <= 26 \/ ~Ambiguous(d)) => x = Last(st.values) + d
<1> DEFINE prev == Last(st.values)
<1>0. Len(s) \in Nat
  OBVIOUS
<1>1. PICK p \in 1 .. Len(s) + 1 : p = st.at
  BY DecodeStateType
<1>2. prev \in Vals
  BY DecodeStateType
<1> HIDE DEF prev
<1>3. CASE d \in -26 .. 26
  <2>1. PICK c : c = DeltaCode(d)[1] /\ DeltaCode(d) = <<c>> /\ Letter(c) = d
    BY <1>3, LettersSurvive
  <2>2. PICK w : w = DeltaCode(d) /\ w = <<c>> /\ Stands(w, s, p)
    BY <1>1, <2>1
  <2>3. Len(w) = 1 /\ w[1] = c
    BY <2>2
  <2>4. p + 1 - 1 <= Len(s) /\ s[(p + 1) - 1] = w[1]
    BY <2>2, <2>3 DEF Stands
  <2>5. p <= Len(s) /\ s[p] = c
    BY <1>0, <1>1, <2>3, <2>4
  <2>6. c \in Letters
    <3>1. CASE d = 0
      <4>1. d \notin 1 .. 26 /\ d \notin -26 .. -1
        BY <3>1
      <4>2. DeltaCode(d) = <<0>>
        BY <3>1, <4>1, Zenon DEF DeltaCode
      <4> QED
        BY <2>1, <4>2 DEF Letters
    <3>2. CASE d \in 1 .. 26
      <4>1. d # 0 /\ d \notin -26 .. -1
        BY <3>2
      <4>2. DeltaCode(d) = <<9 + d>>
        BY <3>2, <4>1, Zenon DEF DeltaCode
      <4>3. c = 9 + d
        BY <2>1, <4>2
      <4> QED
        BY <3>2, <4>3 DEF Letters, Small
    <3>3. CASE d \in -26 .. -1
      <4>1. d # 0 /\ d \notin 1 .. 26
        BY <3>3
      <4>2. DeltaCode(d) = <<35 - d>>
        BY <3>3, <4>1, Zenon DEF DeltaCode
      <4>3. c = 35 - d
        BY <2>1, <4>2
      <4> QED
        BY <3>3, <4>3 DEF Letters, Capitals
    <3> QED
      BY <1>3, <3>1, <3>2, <3>3
  <2>7. PICK x : x = Plus(prev, d) /\ x \in Vals /\ (prev \in Int => x = prev + d)
    BY <1>2, PlusType DEF Vals
  <2>8. DecodePass(s, st) = [at |-> st.at + 1, values |-> st.values \o <<x>>]
    <3>1. ~(st.at > Len(s)) /\ s[st.at] = c
      BY <1>0, <1>1, <2>5
    <3> QED
      BY <2>1, <2>6, <2>7, <3>1, PassIs DEF prev
  <2> QED
    BY <2>2, <2>3, <2>7, <2>8 DEF prev
<1>4. CASE d \notin -26 .. 26
  <2>1. PICK t \in Seq(Digits) : t = EncodeSignedInt(d)
    BY EncodeType
  <2>2. DeltaCode(d) = <<Large>> \o t \o <<Dot>>
    BY <1>4, <2>1, OutsideLetters
  <2>3. Large \in Nat
    BY DEF Large
  <2>4. Len(DeltaCode(d)) = Len(t) + 2
    BY <2>2, <2>3, MarkedType
  <2>5. p <= Len(s) /\ s[p] = Large /\ p + 1 \in 1 .. Len(s) + 1 /\ Stands(t \o <<Dot>>, s, p + 1)
    <3>1. Stands(<<Large>> \o t \o <<Dot>>, s, p)
      BY <1>1, <2>2
    <3> QED
      BY <2>3, <3>1, MarkedStands
  <2>6. /\ SubSeq(s, p + 1, DigitsEnd(s, p + 1) - 1) = t
        /\ Skip(s, DigitsEnd(s, p + 1)) = (p + 1) + Len(t) + 1
    BY <2>5, NumberStands
  <2>7. PICK y \in Vals : y = DecodeSignedInt(t)
    BY DecodeType
  <2>8. PICK x : x = Plus(prev, y) /\ x \in Vals /\ (prev \in Int /\ y \in Int => x = prev + y)
    BY <1>2, PlusType
  <2>9. DecodePass(s, st) = [at |-> Skip(s, DigitsEnd(s, p + 1)), values |-> st.values \o <<x>>]
    <3>1. ~(st.at > Len(s)) /\ s[st.at] = Large
      BY <1>0, <1>1, <2>5
    <3> QED
      BY <1>1, <2>6, <2>7, <2>8, <3>1, PassIs DEF prev
  <2>10. (d <= 26 \/ ~Ambiguous(d)) => y = d
    <3>1. SUFFICES ASSUME d <= 26 \/ ~Ambiguous(d) PROVE y = d
      OBVIOUS
    <3>2. ~Ambiguous(d)
      <4>1. d <= 26 => ~(d > 0)
        BY <1>4
      <4> QED
        BY <3>1, <4>1 DEF Ambiguous
    <3> QED
      BY <2>1, <2>7, <3>2, NumbersSurvive
  <2>11. (p + 1) + Len(t) + 1 = p + (Len(t) + 2)
    OBVIOUS
  <2>12. DecodePass(s, st) = [at |-> st.at + Len(DeltaCode(d)), values |-> st.values \o <<x>>]
    BY <1>1, <2>4, <2>6, <2>9, <2>11
  <2> QED
    BY <2>8, <2>10, <2>12 DEF prev
<1> QED
  BY <1>3, <1>4

\* The decoder reads the code of a run as so many times the value before.
LEMMA PassOfRepeat ==
  ASSUME NEW s \in Seq(Nat), NEW st \in DecodeStates(s), NEW n \in Nat \ {0},
         Stands(RepeatCode(n), s, st.at)
  PROVE  \E u \in Seq(Vals) :
           /\ DecodePass(s, st) = [at |-> st.at + Len(RepeatCode(n)), values |-> st.values \o u]
           /\ Len(u) = n /\ \A k \in 1 .. n : u[k] = Last(st.values)
<1> DEFINE prev == Last(st.values)
<1>0. Len(s) \in Nat
  OBVIOUS
<1>1. PICK p \in 1 .. Len(s) + 1 : p = st.at
  BY DecodeStateType
<1>2. prev \in Vals
  BY DecodeStateType
<1> HIDE DEF prev
<1>3. CASE n = 1
  <2>1. RepeatCode(n) = <<0>>
    BY <1>3 DEF RepeatCode
  <2>2. PICK w : w = RepeatCode(n) /\ w = <<0>> /\ Stands(w, s, p)
    BY <1>1, <2>1
  <2>3. Len(w) = 1 /\ w[1] = 0
    BY <2>2
  <2>4. p + 1 - 1 <= Len(s) /\ s[(p + 1) - 1] = w[1]
    BY <2>2, <2>3 DEF Stands
  <2>5. p <= Len(s) /\ s[p] = 0
    BY <1>0, <1>1, <2>3, <2>4
  <2>6. 0 \in Letters /\ Letter(0) = 0
    <3>1. 0 \notin Small /\ 0 \notin Capitals
      BY DEF Small, Capitals
    <3> QED
      BY <3>1, Zenon DEF Letters, Letter
  <2>7. Plus(prev, 0) = prev
    BY <1>2, NaNAssumption DEF Plus, Vals
  <2>8. DecodePass(s, st) = [at |-> st.at + 1, values |-> st.values \o <<prev>>]
    <3>1. ~(st.at > Len(s)) /\ s[st.at] = 0
      BY <1>0, <1>1, <2>5
    <3>2. s[st.at] \in Letters
      BY <2>6, <3>1, Zenon
    <3>3. DecodePass(s, st) =
            [at |-> st.at + 1,
             values |-> st.values \o <<Plus(Last(st.values), Letter(s[st.at]))>>]
      BY <3>1, <3>2, PassIs, Zenon
    <3>4. Plus(Last(st.values), Letter(s[st.at])) = prev
      BY <2>6, <2>7, <3>1, Zenon DEF prev
    <3> QED
      BY <3>3, <3>4, Zenon
  <2>9. <<prev>> \in Seq(Vals) /\ Len(<<prev>>) = 1 /\ \A k \in 1 .. 1 : <<prev>>[k] = prev
    BY <1>2
  <2> QED
    BY <1>3, <2>2, <2>3, <2>8, <2>9 DEF prev
<1>4. CASE n # 1
  <2>1. PICK t \in Seq(Digits) : t = Base36(n)
    BY Base36Type
  <2>2. RepeatCode(n) = <<Repeat>> \o t \o <<Dot>>
    BY <1>4, <2>1 DEF RepeatCode
  <2>3. Repeat \in Nat
    BY DEF Repeat
  <2>4. Len(RepeatCode(n)) = Len(t) + 2
    BY <2>2, <2>3, MarkedType
  <2>5. p <= Len(s) /\ s[p] = Repeat /\ p + 1 \in 1 .. Len(s) + 1 /\ Stands(t \o <<Dot>>, s, p + 1)
    <3>1. Stands(<<Repeat>> \o t \o <<Dot>>, s, p)
      BY <1>1, <2>2
    <3> QED
      BY <2>3, <3>1, MarkedStands
  <2>6. /\ SubSeq(s, p + 1, DigitsEnd(s, p + 1) - 1) = t
        /\ Skip(s, DigitsEnd(s, p + 1)) = (p + 1) + Len(t) + 1
    BY <2>5, NumberStands
  <2>7. ParseInt(t) = n
    BY <2>1, ParseIntOfBase36
  <2>8. PICK u \in Seq(Vals) : u = Times(prev, n) /\ Len(u) = n /\ \A k \in 1 .. n : u[k] = prev
    BY <1>2, TimesType
  <2>9. DecodePass(s, st) = [at |-> Skip(s, DigitsEnd(s, p + 1)), values |-> st.values \o u]
    <3>1. ~(st.at > Len(s)) /\ s[st.at] = Repeat
      BY <1>0, <1>1, <2>5
    <3> QED
      BY <1>1, <2>6, <2>7, <2>8, <3>1, PassIs DEF prev
  <2>11. (p + 1) + Len(t) + 1 = p + (Len(t) + 2)
    OBVIOUS
  <2>12. DecodePass(s, st) = [at |-> st.at + Len(RepeatCode(n)), values |-> st.values \o u]
    BY <1>1, <2>4, <2>6, <2>9, <2>11
  <2> QED
    BY <2>8, <2>12 DEF prev
<1> QED
  BY <1>3, <1>4

-----------------------------------------------------------------------------
(* The passes of the encoders *)

EncodeStates(xs) == [at : 2 .. Len(xs) + 1, text : Seq(Nat)]

\* From e to f the code of a delta is written, or the code of a run, unless
\* all is written.
DeltaWritten(xs, e, f) ==
  /\ e.at <= Len(xs) /\ f.at = e.at + 1
  /\ f.text = e.text \o DeltaCode(xs[e.at] - xs[e.at - 1])

RunWritten(xs, e, f, m) ==
  /\ e.at + m <= Len(xs) + 1 /\ f.at = e.at + m
  /\ \A k \in e.at .. (e.at + m) - 1 : xs[k] = xs[e.at - 1]
  /\ f.text = e.text \o RepeatCode(m)

CodeStep(xs, e, f) ==
  \/ e.at = Len(xs) + 1 /\ f = e
  \/ DeltaWritten(xs, e, f)
  \/ \E m \in Nat \ {0} : RunWritten(xs, e, f, m)

EncodeRun(xs, E, head) ==
  /\ E \in [Nat -> EncodeStates(xs)] /\ E[0] = [at |-> 2, text |-> head]
  /\ \A n \in Nat : CodeStep(xs, E[n], E[n + 1])

LEMMA EncodeStateIs ==
  ASSUME NEW xs \in Seq(Int), NEW p \in 2 .. Len(xs) + 1, NEW t \in Seq(Nat), NEW c \in Seq(Nat)
  PROVE  [at |-> p, text |-> t \o c] \in EncodeStates(xs)
<1>0. t \o c \in Seq(Nat)
  OBVIOUS
<1>1. PICK w \in Seq(Nat) : w = t \o c
  BY <1>0
<1>2. [at |-> p, text |-> w] \in EncodeStates(xs)
  BY DEF EncodeStates
<1> QED
  BY <1>1, <1>2

LEMMA ValuePassType ==
  ASSUME NEW xs \in Seq(Int), NEW st \in EncodeStates(xs)
  PROVE  ValuePass(xs, st) \in EncodeStates(xs) /\ CodeStep(xs, st, ValuePass(xs, st))
<1>0. Len(xs) \in Nat
  OBVIOUS
<1>1. st.at \in 2 .. Len(xs) + 1 /\ st.text \in Seq(Nat)
  BY DEF EncodeStates
<1>2. PICK p \in 2 .. Len(xs) + 1 : p = st.at
  BY <1>1
<1>3. CASE p = Len(xs) + 1
  <2>1. st.at > Len(xs)
    BY <1>0, <1>2, <1>3
  <2>2. ValuePass(xs, st) = st
    BY <2>1, Zenon DEF ValuePass
  <2> QED
    BY <1>2, <1>3, <2>2, Zenon DEF CodeStep, DeltaWritten, RunWritten
<1>4. CASE p <= Len(xs)
  <2>1. PICK d : d = xs[p] - xs[p - 1]
    OBVIOUS
  <2>2. d \in Int
    <3>1. p \in 1 .. Len(xs) /\ p - 1 \in 1 .. Len(xs)
      BY <1>0, <1>4
    <3>2. xs[p] \in Int /\ xs[p - 1] \in Int
      BY <3>1
    <3> QED
      BY <2>1, <3>2
  <2>3. PICK f : f = [at |-> p + 1, text |-> st.text \o DeltaCode(d)]
    OBVIOUS
  <2>4. ValuePass(xs, st) = f
    BY <1>0, <1>2, <1>4, <2>1, <2>3 DEF ValuePass
  <2>5. f \in EncodeStates(xs)
    <3>1. p + 1 \in 2 .. Len(xs) + 1 /\ DeltaCode(d) \in Seq(Nat)
      BY <1>0, <1>4, <2>2, DeltaCodeType
    <3> QED
      BY <1>1, <2>3, <3>1, EncodeStateIs
  <2>6. CodeStep(xs, st, f)
    BY <1>2, <1>4, <2>1, <2>3 DEF CodeStep, DeltaWritten, RunWritten
  <2> QED
    BY <2>4, <2>5, <2>6
<1> QED
  BY <1>0, <1>3, <1>4

\* A run of equal samples goes on to its end.
LEMMA RunEndIs ==
  ASSUME NEW xs \in Seq(Int), NEW p \in 2 .. Len(xs), xs[p] = xs[p - 1]
  PROVE  /\ RunEnd(xs, p) \in p + 1 .. Len(xs) + 1
         /\ \A k \in p .. RunEnd(xs, p) - 1 : xs[k] = xs[p - 1]
<1> DEFINE B == p .. Len(xs) + 1
           Q == {j \in B : j = Len(xs) + 1 \/ xs[j] # xs[p - 1]}
           Ends(j) == /\ j = Len(xs) + 1 \/ xs[j] # xs[p - 1]
                      /\ \A k \in p .. j - 1 : xs[k] = xs[p - 1]
           e == CHOOSE j \in B : Ends(j)
<1>0. Len(xs) \in Nat
  OBVIOUS
<1>1. PICK j \in Q : \A y \in Q : j <= y
  <2>1. Len(xs) + 1 \in Q
    BY <1>0
  <2>2. Q \subseteq Nat
    BY <1>0
  <2> HIDE DEF Q
  <2> QED
    BY <2>1, <2>2, Least
<1>2. j \in B /\ Ends(j)
  <2>1. ASSUME NEW k \in p .. j - 1 PROVE xs[k] = xs[p - 1]
    <3>1. k \in B /\ ~(j <= k)
      BY <1>0, <1>1
    <3>2. k \notin Q
      BY <1>1, <3>1
    <3> QED
      BY <3>1, <3>2
  <2> QED
    BY <1>1, <2>1
<1>3. e \in B /\ Ends(e)
  <2> HIDE DEF B, Ends
  <2> QED
    BY <1>2
<1>4. RunEnd(xs, p) = e
  BY Zenon DEF RunEnd
<1> HIDE DEF e
<1>5. e # p
  BY <1>0, <1>3
<1>6. e \in p + 1 .. Len(xs) + 1
  BY <1>0, <1>3, <1>5
<1> QED
  BY <1>3, <1>4, <1>6

LEMMA SamplePassType ==
  ASSUME NEW xs \in Seq(Int), NEW st \in EncodeStates(xs)
  PROVE  SamplePass(xs, st) \in EncodeStates(xs) /\ CodeStep(xs, st, SamplePass(xs, st))
<1>0. Len(xs) \in Nat
  OBVIOUS
<1>1. st.at \in 2 .. Len(xs) + 1 /\ st.text \in Seq(Nat)
  BY DEF EncodeStates
<1>2. PICK p \in 2 .. Len(xs) + 1 : p = st.at
  BY <1>1
<1>3. CASE p = Len(xs) + 1
  <2>1. st.at > Len(xs)
    BY <1>0, <1>2, <1>3
  <2>2. SamplePass(xs, st) = st
    BY <2>1, Zenon DEF SamplePass
  <2> QED
    BY <1>2, <1>3, <2>2, Zenon DEF CodeStep, DeltaWritten, RunWritten
<1>4. CASE p <= Len(xs)
  <2>0. p \in 2 .. Len(xs) /\ p \in 1 .. Len(xs) /\ p - 1 \in 1 .. Len(xs) /\ ~(st.at > Len(xs))
    BY <1>0, <1>2, <1>4
  <2>1. PICK d \in Int : d = xs[p] - xs[p - 1]
    <3>1. xs[p] \in Int /\ xs[p - 1] \in Int
      BY <2>0
    <3> QED
      BY <3>1
  <2>2. CASE d = 0
    <3>1. xs[p] = xs[p - 1]
      <4>1. xs[p] \in Int /\ xs[p - 1] \in Int
        BY <2>0
      <4> QED
        BY <2>1, <2>2, <4>1
    <3>2. PICK e \in p + 1 .. Len(xs) + 1 : /\ e = RunEnd(xs, p)
                                            /\ \A k \in p .. e - 1 : xs[k] = xs[p - 1]
      BY <2>0, <3>1, RunEndIs
    <3>3. PICK m \in Nat \ {0} : m = e - p
      BY <1>0, <3>2
    <3>4. PICK f : f = [at |-> e, text |-> st.text \o RepeatCode(m)]
      OBVIOUS
    <3>5. SamplePass(xs, st) = f
      BY <1>2, <2>0, <2>1, <2>2, <3>2, <3>3, <3>4, Zenon DEF SamplePass
    <3>6. f \in EncodeStates(xs)
      <4>1. e \in 2 .. Len(xs) + 1 /\ RepeatCode(m) \in Seq(Nat)
        BY <1>0, <2>0, <3>2, <3>3, RepeatCodeType
      <4> QED
        BY <1>1, <3>4, <4>1, EncodeStateIs
    <3>7. p + m = e /\ p + m <= Len(xs) + 1
      <4>1. p \in Int /\ e \in Int /\ e <= Len(xs) + 1
        BY <1>0, <2>0, <3>2
      <4>2. p + m = e
        BY <3>3, <4>1
      <4> QED
        BY <4>1, <4>2
    <3>8. CodeStep(xs, st, f)
      BY <1>2, <3>2, <3>4, <3>7 DEF CodeStep, DeltaWritten, RunWritten
    <3> QED
      BY <3>5, <3>6, <3>8
  <2>3. CASE d # 0
    <3>1. PICK f : f = [at |-> p + 1, text |-> st.text \o DeltaCode(d)]
      OBVIOUS
    <3>2. SamplePass(xs, st) = f
      BY <1>2, <2>0, <2>1, <2>3, <3>1, Zenon DEF SamplePass
    <3>3. f \in EncodeStates(xs)
      <4>1. p + 1 \in 2 .. Len(xs) + 1 /\ DeltaCode(d) \in Seq(Nat)
        BY <1>0, <1>4, DeltaCodeType
      <4> QED
        BY <1>1, <3>1, <4>1, EncodeStateIs
    <3>4. CodeStep(xs, st, f)
      BY <1>2, <1>4, <2>1, <3>1 DEF CodeStep, DeltaWritten, RunWritten
    <3> QED
      BY <3>2, <3>3, <3>4
  <2> QED
    BY <2>2, <2>3
<1> QED
  BY <1>0, <1>3, <1>4

LEMMA NatsAreInts ==
  ASSUME NEW t \in Seq(Nat)
  PROVE  t \in Seq(Int) /\ Len(t) \in Nat /\ \A k \in 1 .. Len(t) : t[k] \in Nat
<1>1. t \in [1 .. Len(t) -> Nat] /\ Len(t) \in Nat
  OBVIOUS
<1>2. t \in [1 .. Len(t) -> Int]
  BY <1>1
<1> QED
  BY <1>1, <1>2

LEMMA ValuesRun ==
  ASSUME NEW xs \in Seq(Int), xs # <<>>
  PROVE  \E E : /\ EncodeRun(xs, E, Append(EncodeSignedInt(xs[1]), Dot))
                /\ EncodeValueArray(xs) = E[Len(xs)].text
<1> DEFINE S == EncodeStates(xs)
           head == Append(EncodeSignedInt(xs[1]), Dot)
           x == [at |-> 2, text |-> head]
           g == [st \in S |-> ValuePass(xs, st)]
           E == CHOOSE f : f = [k \in Nat |-> IF k = 0 THEN x ELSE ValuePass(xs, f[k - 1])]
<1>0. xs \in Seq(Int) /\ Len(xs) \in Nat \ {0} /\ xs[1] \in Int
  OBVIOUS
<1>1. x \in S
  <2>1. PICK t \in Seq(Digits) : t = EncodeSignedInt(xs[1])
    BY <1>0, EncodeType
  <2>2. t \in Seq(Nat) /\ Dot \in Nat
    BY DigitsAreNat DEF Dot
  <2>3. Append(t, Dot) \in Seq(Nat)
    BY <2>2
  <2>4. head \in Seq(Nat)
    BY <2>1, <2>3
  <2>5. 2 \in 2 .. Len(xs) + 1
    BY <1>0
  <2> HIDE DEF head
  <2> QED
    BY <2>4, <2>5 DEF EncodeStates
<1>2. g \in [S -> S] /\ \A st \in S : g[st] = ValuePass(xs, st)
  <2> HIDE DEF x
  <2> QED
    BY <1>0, ValuePassType
<1> HIDE DEF g, x, S, head
<1>3. PICK f : Loops(f, S, x, g)
  BY <1>1, <1>2, Loop
<1>4. f = [k \in Nat |-> IF k = 0 THEN x ELSE g[f[k - 1]]] /\ f \in [Nat -> S]
  BY <1>3 DEF Loops
<1>5. f = [k \in Nat |-> IF k = 0 THEN x ELSE ValuePass(xs, f[k - 1])]
  <2>1. ASSUME NEW k \in Nat
        PROVE  (IF k = 0 THEN x ELSE g[f[k - 1]]) = (IF k = 0 THEN x ELSE ValuePass(xs, f[k - 1]))
    <3>1. CASE k = 0
      BY <3>1
    <3>2. CASE k # 0
      <4>1. k - 1 \in Nat
        BY <2>1, <3>2
      <4>2. f[k - 1] \in S
        BY <1>4, <4>1
      <4> QED
        BY <1>2, <4>2
    <3> QED
      BY <3>1, <3>2
  <2> QED
    BY <1>4, <2>1, Zenon
<1>6. E = [k \in Nat |-> IF k = 0 THEN x ELSE ValuePass(xs, E[k - 1])]
  BY <1>5
<1>7. EncodeValueArray(xs) = E[Len(xs)].text
  BY Zenon DEF EncodeValueArray, Iterate, x, head
<1> HIDE DEF E
<1>8. E[0] = x
  BY <1>6
<1>9. ASSUME NEW n \in Nat PROVE E[n + 1] = ValuePass(xs, E[n])
  <2>1. n + 1 \in Nat /\ n + 1 # 0 /\ (n + 1) - 1 = n
    OBVIOUS
  <2> QED
    BY <1>6, <2>1
<1>10. \A n \in Nat : E[n] \in S
  <2> DEFINE H == {n \in Nat : E[n] \in S}
  <2>1. 0 \in H
    BY <1>1, <1>8
  <2>2. ASSUME NEW n \in Nat, n \in H PROVE n + 1 \in H
    <3>1. E[n] \in S
      BY <2>2
    <3>2. ValuePass(xs, E[n]) \in S
      BY <1>0, <3>1, ValuePassType DEF S
    <3>3. E[n + 1] = ValuePass(xs, E[n])
      BY <1>9, <2>2
    <3> QED
      BY <3>2, <3>3
  <2>3. \A n \in Nat : n \in H
    <3> HIDE DEF H
    <3> QED
      BY <2>1, <2>2, Induction
  <2> QED
    BY <2>3
<1>11. E \in [Nat -> S]
  <2>1. E = [k \in Nat |-> E[k]]
    BY <1>6
  <2> QED
    BY <1>10, <2>1
<1>12. ASSUME NEW n \in Nat PROVE CodeStep(xs, E[n], E[n + 1])
  <2>1. E[n] \in EncodeStates(xs)
    BY <1>10 DEF S
  <2> QED
    BY <1>0, <1>9, <2>1, ValuePassType
<1>13. EncodeRun(xs, E, head)
  BY <1>8, <1>11, <1>12 DEF EncodeRun, x, S
<1> QED
  BY <1>7, <1>13 DEF head

LEMMA SamplesRun ==
  ASSUME NEW xs \in Seq(Nat), xs # <<>>
  PROVE  \E E : /\ EncodeRun(xs, E, Append(Base36(xs[1]), Dot))
                /\ EncodeSamples(xs) = E[Len(xs)].text
<1> DEFINE S == EncodeStates(xs)
           head == Append(Base36(xs[1]), Dot)
           x == [at |-> 2, text |-> head]
           g == [st \in S |-> SamplePass(xs, st)]
           E == CHOOSE f : f = [k \in Nat |-> IF k = 0 THEN x ELSE SamplePass(xs, f[k - 1])]
<1>0. xs \in Seq(Int) /\ Len(xs) \in Nat \ {0} /\ xs[1] \in Nat
  BY NatsAreInts
<1>1. x \in S
  <2>1. PICK t \in Seq(Digits) : t = Base36(xs[1])
    BY <1>0, Base36Type
  <2>2. t \in Seq(Nat) /\ Dot \in Nat
    BY DigitsAreNat DEF Dot
  <2>3. Append(t, Dot) \in Seq(Nat)
    BY <2>2
  <2>4. head \in Seq(Nat)
    BY <2>1, <2>3
  <2>5. 2 \in 2 .. Len(xs) + 1
    BY <1>0
  <2> HIDE DEF head
  <2> QED
    BY <2>4, <2>5 DEF EncodeStates
<1>2. g \in [S -> S] /\ \A st \in S : g[st] = SamplePass(xs, st)
  <2> HIDE DEF x
  <2> QED
    BY <1>0, SamplePassType
<1> HIDE DEF g, x, S, head
<1>3. PICK f : Loops(f, S, x, g)
  BY <1>1, <1>2, Loop
<1>4. f = [k \in Nat |-> IF k = 0 THEN x ELSE g[f[k - 1]]] /\ f \in [Nat -> S]
  BY <1>3 DEF Loops
<1>5. f = [k \in Nat |-> IF k = 0 THEN x ELSE SamplePass(xs, f[k - 1])]
  <2>1. ASSUME NEW k \in Nat
        PROVE  (IF k = 0 THEN x ELSE g[f[k - 1]]) = (IF k = 0 THEN x ELSE SamplePass(xs, f[k - 1]))
    <3>1. CASE k = 0
      BY <3>1
    <3>2. CASE k # 0
      <4>1. k - 1 \in Nat
        BY <2>1, <3>2
      <4>2. f[k - 1] \in S
        BY <1>4, <4>1
      <4> QED
        BY <1>2, <4>2
    <3> QED
      BY <3>1, <3>2
  <2> QED
    BY <1>4, <2>1, Zenon
<1>6. E = [k \in Nat |-> IF k = 0 THEN x ELSE SamplePass(xs, E[k - 1])]
  BY <1>5
<1>7. EncodeSamples(xs) = E[Len(xs)].text
  BY Zenon DEF EncodeSamples, Iterate, x, head
<1> HIDE DEF E
<1>8. E[0] = x
  BY <1>6
<1>9. ASSUME NEW n \in Nat PROVE E[n + 1] = SamplePass(xs, E[n])
  <2>1. n + 1 \in Nat /\ n + 1 # 0 /\ (n + 1) - 1 = n
    OBVIOUS
  <2> QED
    BY <1>6, <2>1
<1>10. \A n \in Nat : E[n] \in S
  <2> DEFINE H == {n \in Nat : E[n] \in S}
  <2>1. 0 \in H
    BY <1>1, <1>8
  <2>2. ASSUME NEW n \in Nat, n \in H PROVE n + 1 \in H
    <3>1. E[n] \in S
      BY <2>2
    <3>2. SamplePass(xs, E[n]) \in S
      BY <1>0, <3>1, SamplePassType DEF S
    <3>3. E[n + 1] = SamplePass(xs, E[n])
      BY <1>9, <2>2
    <3> QED
      BY <3>2, <3>3
  <2>3. \A n \in Nat : n \in H
    <3> HIDE DEF H
    <3> QED
      BY <2>1, <2>2, Induction
  <2> QED
    BY <2>3
<1>11. E \in [Nat -> S]
  <2>1. E = [k \in Nat |-> E[k]]
    BY <1>6
  <2> QED
    BY <1>10, <2>1
<1>12. ASSUME NEW n \in Nat PROVE CodeStep(xs, E[n], E[n + 1])
  <2>1. E[n] \in EncodeStates(xs)
    BY <1>10 DEF S
  <2> QED
    BY <1>0, <1>9, <2>1, SamplePassType
<1>13. EncodeRun(xs, E, head)
  BY <1>8, <1>11, <1>12 DEF EncodeRun, x, S
<1> QED
  BY <1>7, <1>13 DEF head

LEMMA EncodeStateType ==
  ASSUME NEW xs \in Seq(Int), NEW e \in EncodeStates(xs)
  PROVE  /\ e.at \in 2 .. Len(xs) + 1 /\ e.text \in Seq(Nat) /\ Len(e.text) \in Nat
         /\ Len(xs) \in Nat
BY DEF EncodeStates

LEMMA StepMoves ==
  ASSUME NEW xs \in Seq(Int), NEW e \in EncodeStates(xs), NEW f \in EncodeStates(xs),
         CodeStep(xs, e, f)
  PROVE  /\ e.at = Len(xs) + 1 => f = e
         /\ e.at <= Len(xs) => f.at > e.at
         /\ \E c \in Seq(Nat) : f.text = e.text \o c
<1>1. PICK a, b \in 2 .. Len(xs) + 1 : a = e.at /\ b = f.at
  BY EncodeStateType
<1>2. e.text \in Seq(Nat) /\ Len(xs) \in Nat
  BY EncodeStateType
<1>3. CASE a = Len(xs) + 1 /\ f = e
  <2>1. <<>> \in Seq(Nat) /\ e.text \o <<>> = e.text
    BY <1>2
  <2>2. \E c \in Seq(Nat) : f.text = e.text \o c
    BY <1>3, <2>1
  <2>3. ~(a <= Len(xs))
    BY <1>2, <1>3
  <2> QED
    BY <1>1, <1>3, <2>2, <2>3
<1>4. CASE /\ a <= Len(xs) /\ b = a + 1
           /\ f.text = e.text \o DeltaCode(xs[a] - xs[a - 1])
  <2>1. a \in 1 .. Len(xs) /\ a - 1 \in 1 .. Len(xs)
    BY <1>2, <1>4
  <2>2. xs[a] \in Int /\ xs[a - 1] \in Int
    BY <2>1
  <2>3. PICK d \in Int : d = xs[a] - xs[a - 1]
    BY <2>2
  <2>4. DeltaCode(d) \in Seq(Nat)
    BY DeltaCodeType
  <2>5. b > a /\ a # Len(xs) + 1
    BY <1>2, <1>4
  <2> QED
    BY <1>1, <1>4, <2>3, <2>4, <2>5
<1>5. ASSUME NEW m \in Nat \ {0}, a + m <= Len(xs) + 1, b = a + m,
             f.text = e.text \o RepeatCode(m)
      PROVE  a # Len(xs) + 1 /\ b > a /\ \E c \in Seq(Nat) : f.text = e.text \o c
  <2>1. RepeatCode(m) \in Seq(Nat)
    BY RepeatCodeType
  <2>2. a # Len(xs) + 1 /\ b > a
    BY <1>2, <1>5
  <2> QED
    BY <1>5, <2>1, <2>2
<1>6. \/ a = Len(xs) + 1 /\ f = e
      \/ /\ a <= Len(xs) /\ b = a + 1
         /\ f.text = e.text \o DeltaCode(xs[a] - xs[a - 1])
      \/ \E m \in Nat \ {0} :
           a + m <= Len(xs) + 1 /\ b = a + m /\ f.text = e.text \o RepeatCode(m)
  BY <1>1 DEF CodeStep, DeltaWritten, RunWritten
<1>7. CASE \E m \in Nat \ {0} :
             a + m <= Len(xs) + 1 /\ b = a + m /\ f.text = e.text \o RepeatCode(m)
  <2>1. a # Len(xs) + 1 /\ b > a /\ \E c \in Seq(Nat) : f.text = e.text \o c
    BY <1>5, <1>7
  <2> QED
    BY <1>1, <2>1
<1> QED
  BY <1>3, <1>4, <1>6, <1>7

\* After as many passes as there are values all is written.
LEMMA EncodeRunEnds ==
  ASSUME NEW xs \in Seq(Int), NEW E, NEW head, EncodeRun(xs, E, head)
  PROVE  /\ E[Len(xs)].at = Len(xs) + 1
         /\ \A n \in Nat : n >= Len(xs) => E[n] = E[Len(xs)]
<1>1. /\ E \in [Nat -> EncodeStates(xs)] /\ E[0] = [at |-> 2, text |-> head]
      /\ \A n \in Nat : CodeStep(xs, E[n], E[n + 1])
  BY DEF EncodeRun
<1>2. Len(xs) \in Nat
  OBVIOUS
<1>3. ASSUME NEW n \in Nat
      PROVE  /\ E[n].at \in Nat /\ E[n].at <= Len(xs) + 1
             /\ E[n].at = Len(xs) + 1 => E[n + 1] = E[n]
             /\ E[n].at <= Len(xs) => E[n + 1].at > E[n].at
  <2>1. E[n] \in EncodeStates(xs) /\ E[n + 1] \in EncodeStates(xs) /\ CodeStep(xs, E[n], E[n + 1])
    BY <1>1
  <2>2. E[n].at \in 2 .. Len(xs) + 1
    BY <2>1, EncodeStateType
  <2> QED
    BY SMTT(30), <1>2, <2>1, <2>2, StepMoves
<1>4. E[Len(xs)].at = Len(xs) + 1
  <2> DEFINE H == {n \in Nat : E[n].at = Len(xs) + 1 \/ E[n].at > n}
  <2>1. 0 \in H
    BY <1>1
  <2>2. ASSUME NEW n \in Nat, n \in H PROVE n + 1 \in H
    <3>0. n \in Nat /\ n + 1 \in Nat
      BY <2>2
    <3>1. PICK a, b \in Nat : a = E[n].at /\ b = E[n + 1].at
      BY <1>3, <3>0
    <3>2. /\ a = Len(xs) + 1 => b = a
          /\ a <= Len(xs) => b > a
          /\ a <= Len(xs) + 1 /\ (a = Len(xs) + 1 \/ a > n)
      BY <1>3, <2>2, <3>0, <3>1
    <3>3. b = Len(xs) + 1 \/ b > n + 1
      BY <1>2, <3>0, <3>1, <3>2
    <3> QED
      BY <3>0, <3>1, <3>3
  <2>3. \A n \in Nat : n \in H
    <3> HIDE DEF H
    <3> QED
      BY <2>1, <2>2, Induction
  <2> QED
    BY <1>2, <1>3, <2>3
<1>5. ASSUME NEW n \in Nat, n >= Len(xs) PROVE E[n] = E[Len(xs)]
  <2> DEFINE H == {k \in Nat : k >= Len(xs) => E[k] = E[Len(xs)]}
  <2>1. 0 \in H
    BY <1>2
  <2>2. ASSUME NEW k \in Nat, k \in H PROVE k + 1 \in H
    <3>1. CASE k >= Len(xs)
      <4>1. E[k] = E[Len(xs)]
        BY <2>2, <3>1
      <4> QED
        BY <1>3, <1>4, <4>1
    <3>2. CASE k + 1 = Len(xs)
      BY <3>2
    <3>3. CASE k + 1 < Len(xs)
      BY <1>2, <3>3
    <3> QED
      BY <1>2, <3>1, <3>2, <3>3
  <2>3. \A k \in Nat : k \in H
    <3> HIDE DEF H
    <3> QED
      BY <2>1, <2>2, Induction
  <2> QED
    BY <1>5, <2>3
<1> QED
  BY <1>4, <1>5

\* What is written stays where it is.
LEMMA EncodeRunGrows ==
  ASSUME NEW xs \in Seq(Int), NEW E, NEW head, EncodeRun(xs, E, head), NEW n \in Nat
  PROVE  Stands(E[n].text, E[Len(xs)].text, 1)
<1>1. /\ E \in [Nat -> EncodeStates(xs)]
      /\ \A m \in Nat : CodeStep(xs, E[m], E[m + 1])
  BY DEF EncodeRun
<1>2. Len(xs) \in Nat
  OBVIOUS
<1>3. \A m \in Nat : E[m].text \in Seq(Nat)
  <2>1. ASSUME NEW m \in Nat PROVE E[m].text \in Seq(Nat)
    <3>1. E[m] \in EncodeStates(xs)
      BY <1>1
    <3> QED
      BY <3>1, EncodeStateType
  <2> QED
    BY <2>1
<1>4. ASSUME NEW m \in Nat PROVE \E c \in Seq(Nat) : E[m + 1].text = E[m].text \o c
  <2>1. E[m] \in EncodeStates(xs) /\ E[m + 1] \in EncodeStates(xs) /\ CodeStep(xs, E[m], E[m + 1])
    BY <1>1
  <2> QED
    BY <2>1, StepMoves
<1>5. PICK t \in Seq(Nat) : t = E[n].text
  BY <1>3
<1> DEFINE H == {m \in Nat : m >= n => Stands(t, E[m].text, 1)}
<1>6. 0 \in H
  <2>1. Stands(t, t, 1)
    BY DEF Stands
  <2> QED
    BY <1>5, <2>1
<1>7. ASSUME NEW m \in Nat, m \in H PROVE m + 1 \in H
  <2>1. CASE m >= n
    <3>1. PICK u \in Seq(Nat) : u = E[m].text /\ Stands(t, u, 1)
      BY <1>3, <1>7, <2>1
    <3>2. PICK c \in Seq(Nat) : E[m + 1].text = u \o c
      BY <1>4, <3>1
    <3>3. PICK w : w = u \o c
      OBVIOUS
    <3>4. Len(w) >= Len(u) /\ \A k \in 1 .. Len(u) : w[k] = u[k]
      BY <3>3
    <3>5. Len(w) \in Nat /\ Len(u) \in Nat /\ Len(t) \in Nat
      BY <3>3
    <3>6. Len(t) <= Len(u) /\ \A k \in 1 .. Len(t) : u[k] = t[k]
      <4>1. 1 + Len(t) - 1 <= Len(u) /\ \A k \in 1 .. Len(t) : u[(1 + k) - 1] = t[k]
        BY <3>1 DEF Stands
      <4>2. \A k \in 1 .. Len(t) : (1 + k) - 1 = k
        BY <3>5
      <4> QED
        BY <3>5, <4>1, <4>2
    <3>7. Len(t) <= Len(w) /\ \A k \in 1 .. Len(t) : w[(1 + k) - 1] = t[k]
      <4>1. ASSUME NEW k \in 1 .. Len(t) PROVE w[(1 + k) - 1] = t[k]
        <5>1. k \in 1 .. Len(u) /\ (1 + k) - 1 = k
          BY <3>5, <3>6
        <5> QED
          BY <3>4, <3>6, <5>1
      <4> QED
        BY <3>4, <3>5, <3>6, <4>1
    <3>8. 1 + Len(t) - 1 <= Len(w)
      BY <3>5, <3>7
    <3>9. Stands(t, w, 1)
      BY <3>7, <3>8 DEF Stands
    <3>10. Stands(t, E[m + 1].text, 1)
      BY <3>2, <3>3, <3>9
    <3> QED
      BY <1>7, <3>10
  <2>2. CASE m + 1 = n
    <3>1. Stands(t, t, 1)
      BY DEF Stands
    <3> QED
      BY <1>5, <2>2, <3>1
  <2>3. CASE m + 1 < n
    BY <2>3
  <2> QED
    BY <2>1, <2>2, <2>3
<1>8. \A m \in Nat : m \in H
  <2> HIDE DEF H
  <2> QED
    BY <1>6, <1>7, Induction
<1>9. PICK m \in Nat : m >= n /\ m >= Len(xs)
  BY <1>2
<1>10. E[m] = E[Len(xs)]
  BY <1>9, EncodeRunEnds
<1> QED
  BY <1>5, <1>8, <1>9, <1>10

\* So a code stands in the whole text where it was written.
LEMMA CodeStands ==
  ASSUME NEW t \in Seq(Nat), NEW c \in Seq(Nat), NEW s \in Seq(Nat), Stands(t \o c, s, 1)
  PROVE  Stands(c, s, Len(t) + 1)
<1>1. PICK w : w = t \o c /\ Stands(w, s, 1)
  OBVIOUS
<1>2. PICK m, n \in Nat : m = Len(t) /\ n = Len(c)
  OBVIOUS
<1>3. Len(w) = m + n /\ \A k \in 1 .. n : w[m + k] = c[k]
  BY <1>1, <1>2
<1>4. Len(s) \in Nat
  OBVIOUS
<1>5. 1 + Len(w) - 1 <= Len(s) /\ \A k \in 1 .. Len(w) : s[(1 + k) - 1] = w[k]
  BY <1>1 DEF Stands
<1>6. ((m + 1) + n) - 1 <= Len(s)
  BY <1>2, <1>3, <1>4, <1>5
<1>7. ASSUME NEW k \in 1 .. n PROVE s[((m + 1) + k) - 1] = c[k]
  <2>1. m + k \in 1 .. m + n /\ (1 + (m + k)) - 1 = ((m + 1) + k) - 1
    BY <1>2
  <2>2. s[(1 + (m + k)) - 1] = w[m + k]
    BY <1>3, <1>5, <2>1
  <2> QED
    BY <1>3, <2>1, <2>2
<1> QED
  BY <1>2, <1>6, <1>7 DEF Stands

-----------------------------------------------------------------------------
(* Encoder and decoder side by side *)

\* The decoder is where the encoder was, has as many values, and the clear
\* ones of them are right.
Matches(xs, e, d) ==
  /\ d.at = Len(e.text) + 1 /\ Len(d.values) = e.at - 1
  /\ \A k \in Clear(xs) : k < e.at => d.values[k] = xs[k]

LEMMA ClearBefore ==
  ASSUME NEW xs \in Seq(Int), NEW k \in Clear(xs)
  PROVE  /\ k \in 1 .. Len(xs) /\ \A j \in 1 .. k : j \in Clear(xs)
         /\ k >= 2 => xs[k] - xs[k - 1] <= 26 \/ ~Ambiguous(xs[k] - xs[k - 1])
<1> DEFINE Read(j) == xs[j] - xs[j - 1] <= 26 \/ ~Ambiguous(xs[j] - xs[j - 1])
<1>1. k \in DOMAIN xs /\ \A j \in 2 .. k : Read(j)
  BY DEF Clear
<1>2. DOMAIN xs = 1 .. Len(xs) /\ Len(xs) \in Nat
  OBVIOUS
<1>3. ASSUME NEW j \in 1 .. k PROVE j \in Clear(xs)
  <2>1. j \in DOMAIN xs /\ \A l \in 2 .. j : l \in 2 .. k
    BY <1>1, <1>2
  <2>2. \A l \in 2 .. j : Read(l)
    BY <1>1, <2>1
  <2> QED
    BY <2>1, <2>2 DEF Clear
<1>4. k >= 2 => Read(k)
  BY <1>1, <1>2
<1> QED
  BY <1>1, <1>2, <1>3, <1>4

LEMMA MatchDelta ==
  ASSUME NEW xs \in Seq(Int), NEW s \in Seq(Nat), NEW e \in EncodeStates(xs),
         NEW d \in DecodeStates(s), Matches(xs, e, d),
         NEW f \in EncodeStates(xs), DeltaWritten(xs, e, f), Stands(f.text, s, 1)
  PROVE  Matches(xs, f, DecodePass(s, d))
<1>0. Len(xs) \in Nat
  OBVIOUS
<1>1. PICK p \in Nat : p = e.at /\ 2 <= p /\ p <= Len(xs)
  <2>1. e.at \in 2 .. Len(xs) + 1
    BY EncodeStateType
  <2>2. e.at \in Nat /\ 2 <= e.at
    BY <1>0, <2>1
  <2>3. e.at <= Len(xs)
    BY DEF DeltaWritten
  <2> QED
    BY <2>2, <2>3
<1>2. PICK t \in Seq(Nat) : t = e.text
  BY EncodeStateType
<1>3. p \in 1 .. Len(xs) /\ p - 1 \in 1 .. Len(xs)
  BY <1>0, <1>1
<1>4. xs[p] \in Int /\ xs[p - 1] \in Int
  BY <1>3
<1>5. PICK delta \in Int : delta = xs[p] - xs[p - 1]
  BY <1>4
<1>6. PICK c \in Seq(Nat) : c = DeltaCode(delta)
  BY DeltaCodeType
<1>7. f.text = t \o c
  BY <1>1, <1>2, <1>5, <1>6 DEF DeltaWritten
<1>8. d.at = Len(t) + 1 /\ Len(d.values) = p - 1
      /\ \A k \in Clear(xs) : k < p => d.values[k] = xs[k]
  BY <1>1, <1>2 DEF Matches
<1>9. Stands(c, s, d.at)
  <2>1. Stands(t \o c, s, 1)
    BY <1>7
  <2>2. Stands(c, s, Len(t) + 1)
    BY <2>1, CodeStands
  <2> QED
    BY <1>8, <2>2
<1>10. PICK v \in Seq(Vals) : v = d.values /\ Last(v) = v[Len(v)]
  BY DecodeStateType
<1>11. PICK x \in Vals :
         /\ DecodePass(s, d) = [at |-> d.at + Len(c), values |-> v \o <<x>>]
         /\ Last(v) \in Int /\ (delta <= 26 \/ ~Ambiguous(delta)) => x = Last(v) + delta
  <2>1. Stands(DeltaCode(delta), s, d.at)
    BY <1>6, <1>9
  <2>2. \E x \in Vals :
          /\ DecodePass(s, d) =
               [at |-> d.at + Len(DeltaCode(delta)), values |-> d.values \o <<x>>]
          /\ Last(d.values) \in Int /\ (delta <= 26 \/ ~Ambiguous(delta)) =>
               x = Last(d.values) + delta
    BY <2>1, PassOfDelta, Zenon
  <2> QED
    BY <1>6, <1>10, <2>2, Zenon
<1>12. PICK w : w = v \o <<x>>
  OBVIOUS
<1>13. Len(w) = p /\ w[p] = x /\ \A k \in 1 .. p - 1 : w[k] = v[k]
  <2>1. <<x>> \in Seq(Vals)
    BY <1>11
  <2>2. Len(v) = p - 1
    BY <1>8, <1>10
  <2>3. Len(w) = Len(v) + 1 /\ w[Len(v) + 1] = x /\ \A k \in 1 .. Len(v) : w[k] = v[k]
    BY <1>12, <2>1
  <2>4. (p - 1) + 1 = p
    BY <1>1
  <2> QED
    BY <2>2, <2>3, <2>4
<1>14. ASSUME NEW k \in Clear(xs), k < p + 1 PROVE w[k] = xs[k]
  <2>1. k \in 1 .. Len(xs) /\ \A j \in 1 .. k : j \in Clear(xs)
    BY ClearBefore
  <2>2. CASE k < p
    <3>1. k \in 1 .. p - 1
      BY SMTT(30), <1>1, <2>1, <2>2
    <3> QED
      BY <1>8, <1>10, <1>13, <2>2, <3>1
  <2>3. CASE k = p
    <3>1. p - 1 \in 1 .. k /\ p - 1 < p /\ k >= 2
      BY SMTT(30), <1>1, <2>3
    <3>2. p - 1 \in Clear(xs)
      BY <2>1, <3>1
    <3>3. v[p - 1] = xs[p - 1]
      BY <1>8, <1>10, <3>1, <3>2
    <3>4. Last(v) = xs[p - 1]
      BY <1>8, <1>10, <3>3
    <3>5. delta <= 26 \/ ~Ambiguous(delta)
      BY <1>5, <2>3, <3>1, ClearBefore
    <3>6. x = xs[p - 1] + delta
      BY <1>4, <1>11, <3>4, <3>5
    <3>7. x = xs[p]
      <4>1. \A a, b \in Int : b + (a - b) = a
        OBVIOUS
      <4>2. xs[p - 1] + (xs[p] - xs[p - 1]) = xs[p]
        BY <1>4, <4>1, Zenon
      <4> QED
        BY <1>5, <3>6, <4>2, Zenon
    <3> QED
      BY <1>13, <2>3, <3>7
  <2>4. k \in Int /\ p \in Int /\ k < p + 1
    BY <1>1, <1>14, <2>1
  <2>5. k < p \/ k = p
    BY <2>4
  <2> QED
    BY <2>2, <2>3, <2>5, Zenon
<1>15. DecodePass(s, d).at = Len(f.text) + 1
  <2>1. Len(t) \in Nat /\ Len(c) \in Nat
    BY <1>2, <1>6
  <2>2. (Len(t) + 1) + Len(c) = (Len(t) + Len(c)) + 1
    BY <2>1
  <2>3. Len(t \o c) = Len(t) + Len(c)
    BY <1>2, <1>6
  <2>4. DecodePass(s, d).at = (Len(t) + 1) + Len(c)
    BY <1>8, <1>11
  <2> QED
    BY <1>7, <2>2, <2>3, <2>4
<1>16. f.at = p + 1 /\ (p + 1) - 1 = p
  BY <1>1 DEF DeltaWritten
<1>17. DecodePass(s, d).values = w
  <2>1. DecodePass(s, d).values = v \o <<x>>
    BY <1>11
  <2> QED
    BY <1>12, <2>1, Zenon
<1> QED
  BY <1>13, <1>14, <1>15, <1>16, <1>17 DEF Matches

LEMMA Joined ==
  ASSUME NEW S, NEW v \in Seq(S), NEW u \in Seq(S)
  PROVE  /\ Len(v \o u) = Len(v) + Len(u) /\ \A k \in 1 .. Len(v) : (v \o u)[k] = v[k]
         /\ \A k \in 1 .. Len(u) : (v \o u)[Len(v) + k] = u[k]
OBVIOUS

LEMMA MatchRepeat ==
  ASSUME NEW xs \in Seq(Int), NEW s \in Seq(Nat), NEW e \in EncodeStates(xs),
         NEW d \in DecodeStates(s), Matches(xs, e, d),
         NEW f \in EncodeStates(xs), NEW m \in Nat \ {0},
         RunWritten(xs, e, f, m), Stands(f.text, s, 1)
  PROVE  Matches(xs, f, DecodePass(s, d))
<1>0. Len(xs) \in Nat
  OBVIOUS
<1>1. PICK p \in Nat : p = e.at /\ 2 <= p /\ p <= Len(xs)
  <2>1. e.at \in 2 .. Len(xs) + 1
    BY EncodeStateType
  <2>3. e.at + m <= Len(xs) + 1
    BY DEF RunWritten
  <2>2. e.at \in Nat /\ 2 <= e.at /\ e.at <= Len(xs)
    BY <1>0, <2>1, <2>3
  <2> QED
    BY <2>2
<1>2. PICK t \in Seq(Nat) : t = e.text
  BY EncodeStateType
<1>3. PICK c \in Seq(Nat) : c = RepeatCode(m)
  BY RepeatCodeType
<1>4. f.text = t \o c
  BY <1>2, <1>3 DEF RunWritten
<1>5. d.at = Len(t) + 1 /\ Len(d.values) = p - 1
      /\ \A k \in Clear(xs) : k < p => d.values[k] = xs[k]
  BY <1>1, <1>2 DEF Matches
<1>6. Stands(c, s, d.at)
  <2>1. Stands(t \o c, s, 1)
    BY <1>4
  <2>2. Stands(c, s, Len(t) + 1)
    BY <2>1, CodeStands
  <2> QED
    BY <1>5, <2>2
<1>7. PICK v \in Seq(Vals) : v = d.values /\ Last(v) = v[Len(v)]
  BY DecodeStateType
<1>8. PICK u \in Seq(Vals) :
        /\ DecodePass(s, d) = [at |-> d.at + Len(c), values |-> v \o u]
        /\ Len(u) = m /\ \A k \in 1 .. m : u[k] = Last(v)
  <2>1. Stands(RepeatCode(m), s, d.at)
    BY <1>3, <1>6
  <2>2. \E u \in Seq(Vals) :
          /\ DecodePass(s, d) =
               [at |-> d.at + Len(RepeatCode(m)), values |-> d.values \o u]
          /\ Len(u) = m /\ \A k \in 1 .. m : u[k] = Last(d.values)
    BY <2>1, PassOfRepeat
  <2> QED
    BY <1>3, <1>7, <2>2
<1>9. PICK w : w = v \o u
  OBVIOUS
<1>10. /\ Len(w) = (p + m) - 1 /\ \A k \in 1 .. p - 1 : w[k] = v[k]
       /\ \A k \in p .. (p + m) - 1 : w[k] = v[p - 1]
  <2>1. Len(v) = p - 1
    BY <1>5, <1>7
  <2>2. Len(w) = Len(v) + m /\ \A k \in 1 .. Len(v) : w[k] = v[k]
    <3>1. v \in Seq(Vals) /\ u \in Seq(Vals) /\ w = v \o u /\ Len(u) = m
      BY <1>7, <1>8, <1>9
    <3>2. Len(v \o u) = Len(v) + Len(u) /\ \A k \in 1 .. Len(v) : (v \o u)[k] = v[k]
      BY <3>1, Joined, ZenonT(30)
    <3> QED
      BY <3>1, <3>2, Zenon
  <2>3. \A k \in 1 .. m : w[Len(v) + k] = u[k]
    BY <1>8, <1>9, Joined
  <2>4. (p - 1) + m = (p + m) - 1
    BY <1>1
  <2>5. ASSUME NEW k \in p .. (p + m) - 1 PROVE w[k] = v[p - 1]
    <3>0. k \in Int /\ p \in Int
      BY <1>1, <2>5
    <3>1. PICK j \in 1 .. m : j = (k - p) + 1
      <4>1. k <= (p + m) - 1 /\ k >= p
        BY <2>5
      <4>2. \A a, b, h \in Int : a >= b /\ a <= (b + h) - 1 => (a - b) + 1 \in 1 .. h
        OBVIOUS
      <4> QED
        BY <3>0, <4>1, <4>2
    <3>2. (p - 1) + j = k
      BY <3>0, <3>1
    <3>3. w[k] = u[j]
      BY <2>1, <2>3, <3>2
    <3> QED
      BY <1>7, <1>8, <2>1, <3>3
  <2> QED
    BY <2>1, <2>2, <2>4, <2>5
<1>11. ASSUME NEW k \in Clear(xs), k < p + m PROVE w[k] = xs[k]
  <2>1. k \in 1 .. Len(xs) /\ \A j \in 1 .. k : j \in Clear(xs)
    BY ClearBefore
  <2>2. CASE k < p
    <3>1. k \in 1 .. p - 1
      BY SMTT(30), <1>1, <2>1, <2>2
    <3> QED
      BY <1>5, <1>7, <1>10, <2>2, <3>1
  <2>3. CASE k >= p
    <3>0. k \in Int /\ k >= p /\ k < p + m
      BY <1>0, <1>11, <2>1, <2>3
    <3>1. p - 1 \in 1 .. k /\ p - 1 < p
      <4>1. p \in Int /\ 2 <= p
        BY <1>1
      <4>2. p - 1 \in Int /\ 1 <= p - 1 /\ p - 1 < p
        BY <4>1
      <4>3. p - 1 <= k
        BY <3>0, <4>1
      <4> QED
        BY <3>0, <4>2, <4>3
    <3>2. p - 1 \in Clear(xs)
      BY <2>1, <3>1
    <3>3. v[p - 1] = xs[p - 1]
      BY <1>5, <1>7, <3>1, <3>2
    <3>4. k \in p .. (p + m) - 1
      <4>1. p \in Int /\ m \in Int
        BY <1>1
      <4> QED
        BY <3>0, <4>1
    <3>5. xs[k] = xs[p - 1]
      BY <1>1, <3>4 DEF RunWritten
    <3> QED
      BY <1>10, <3>3, <3>4, <3>5
  <2>4. k \in Int /\ p \in Int
    BY <1>1, <2>1
  <2>5. k < p \/ k >= p
    BY <2>4
  <2> QED
    BY <2>2, <2>3, <2>5, Zenon
<1>13. DecodePass(s, d).at = Len(f.text) + 1
  <2>1. Len(t) \in Nat /\ Len(c) \in Nat
    BY <1>2, <1>3
  <2>2. (Len(t) + 1) + Len(c) = (Len(t) + Len(c)) + 1
    BY <2>1
  <2>3. Len(t \o c) = Len(t) + Len(c)
    BY <1>2, <1>3
  <2>4. DecodePass(s, d).at = (Len(t) + 1) + Len(c)
    BY <1>5, <1>8
  <2> QED
    BY <1>4, <2>2, <2>3, <2>4
<1>14. f.at = p + m
  BY <1>1 DEF RunWritten
<1>15. DecodePass(s, d).values = w
  <2>1. DecodePass(s, d).values = v \o u
    BY <1>8
  <2> QED
    BY <1>9, <2>1, Zenon
<1> QED
  BY <1>10, <1>11, <1>13, <1>14, <1>15 DEF Matches

LEMMA MatchStep ==
  ASSUME NEW xs \in Seq(Int), NEW s \in Seq(Nat), NEW e \in EncodeStates(xs),
         NEW d \in DecodeStates(s), Matches(xs, e, d),
         NEW f \in EncodeStates(xs), CodeStep(xs, e, f), Stands(f.text, s, 1),
         e.at = Len(xs) + 1 => e.text = s
  PROVE  Matches(xs, f, DecodePass(s, d))
<1>1. CASE e.at = Len(xs) + 1 /\ f = e
  <2>1. d.at = Len(s) + 1
    BY <1>1 DEF Matches
  <2>2. Len(s) \in Nat
    OBVIOUS
  <2>3. d.at > Len(s)
    BY <2>1, <2>2
  <2>4. DecodePass(s, d) = d
    BY <2>3, PassAtEnd
  <2> QED
    BY <1>1, <2>4
<1>2. CASE DeltaWritten(xs, e, f)
  BY <1>2, MatchDelta
<1>3. ASSUME NEW m \in Nat \ {0}, RunWritten(xs, e, f, m)
      PROVE  Matches(xs, f, DecodePass(s, d))
  BY <1>3, MatchRepeat
<1> QED
  BY <1>1, <1>2, <1>3 DEF CodeStep

\* What an encoder wrote is decoded to its length, and to the clear values.
LEMMA Decoding ==
  ASSUME NEW xs \in Seq(Int), xs # <<>>, NEW t \in Seq(Digits), t # <<>>,
         NEW E, EncodeRun(xs, E, Append(t, Dot)), NEW s, s = E[Len(xs)].text
  PROVE  /\ DigitsEnd(s, 1) # 1 /\ SubSeq(s, 1, DigitsEnd(s, 1) - 1) = t
         /\ Len(Decoded(s, Skip(s, DigitsEnd(s, 1)), xs[1])) = Len(xs)
         /\ \A k \in Clear(xs) : Decoded(s, Skip(s, DigitsEnd(s, 1)), xs[1])[k] = xs[k]
<1> DEFINE head == Append(t, Dot)
<1>1. /\ E \in [Nat -> EncodeStates(xs)] /\ E[0] = [at |-> 2, text |-> head]
      /\ \A n \in Nat : CodeStep(xs, E[n], E[n + 1])
  BY DEF EncodeRun
<1>2. Len(xs) \in Nat \ {0} /\ xs[1] \in Int
  OBVIOUS
<1>3. s \in Seq(Nat)
  <2>1. E[Len(xs)] \in EncodeStates(xs)
    BY <1>1, <1>2
  <2> QED
    BY <2>1, EncodeStateType
<1>4. E[Len(xs)].at = Len(xs) + 1 /\ \A n \in Nat : n >= Len(xs) => E[n] = E[Len(xs)]
  BY EncodeRunEnds
<1>5. \A n \in Nat : Stands(E[n].text, s, 1)
  BY EncodeRunGrows
<1>6. head = t \o <<Dot>> /\ Len(head) = Len(t) + 1 /\ Len(t) \in Nat \ {0}
  <2>1. head = t \o <<Dot>>
    OBVIOUS
  <2>2. Len(head) = Len(t) + 1
    OBVIOUS
  <2>3. Len(t) \in Nat \ {0}
    OBVIOUS
  <2> HIDE DEF head
  <2> QED
    BY <2>1, <2>2, <2>3
<1>7. Stands(t \o <<Dot>>, s, 1)
  <2>1. Stands(E[0].text, s, 1)
    BY <1>5
  <2> HIDE DEF head
  <2>2. E[0].text = head
    BY <1>1
  <2> QED
    BY <1>6, <2>1, <2>2, Zenon
<1>8. /\ DigitsEnd(s, 1) = 1 + Len(t) /\ SubSeq(s, 1, DigitsEnd(s, 1) - 1) = t
      /\ Skip(s, DigitsEnd(s, 1)) = 1 + Len(t) + 1
  <2>1. 1 \in 1 .. Len(s) + 1
    BY <1>3
  <2> QED
    BY <1>3, <1>7, <2>1, NumberStands
<1> HIDE DEF head
<1>9. PICK p \in 1 .. Len(s) + 1 : p = Skip(s, DigitsEnd(s, 1)) /\ p = Len(head) + 1
  <2>1. 1 + Len(head) - 1 <= Len(s)
    BY <1>6, <1>7 DEF Stands
  <2>2. Len(s) \in Nat
    BY <1>3
  <2> QED
    BY <1>6, <1>8, <2>1, <2>2
<1>10. PICK D : DecodeRun(s, D, p, xs[1])
  <2>1. xs[1] \in Vals
    BY <1>2 DEF Vals
  <2> QED
    BY <1>3, <2>1, DecoderRuns
<1>11. /\ D \in [Nat -> DecodeStates(s)] /\ D[0] = [at |-> p, values |-> <<xs[1]>>]
       /\ \A n \in Nat : D[n + 1] = DecodePass(s, D[n])
       /\ \A n \in Nat : n >= Len(s) => D[n] = D[Len(s)]
       /\ Decoded(s, p, xs[1]) = D[Len(s)].values
  BY <1>10 DEF DecodeRun
<1>12. ASSUME NEW n \in Nat PROVE E[n].at = Len(xs) + 1 => E[n].text = s
  <2> DEFINE H == {k \in Nat : E[n].at = Len(xs) + 1 => E[n + k] = E[n]}
  <2>1. 0 \in H
    BY <1>12
  <2>2. ASSUME NEW k \in Nat, k \in H PROVE k + 1 \in H
    <3>1. SUFFICES ASSUME E[n].at = Len(xs) + 1 PROVE E[n + (k + 1)] = E[n]
      OBVIOUS
    <3>2. n + k \in Nat /\ n + (k + 1) = (n + k) + 1 /\ n + (k + 1) \in Nat
      BY <1>12, <2>2
    <3>3. E[n + k] = E[n]
      BY <2>2, <3>1
    <3>4. /\ E[n + k] \in EncodeStates(xs) /\ E[n + (k + 1)] \in EncodeStates(xs)
          /\ CodeStep(xs, E[n + k], E[n + (k + 1)])
      BY <1>1, <3>2
    <3>5. E[n + (k + 1)] = E[n + k]
      BY <3>1, <3>3, <3>4, StepMoves
    <3> QED
      BY <3>3, <3>5
  <2>3. \A k \in Nat : k \in H
    <3> HIDE DEF H
    <3> QED
      BY <2>1, <2>2, Induction
  <2>4. n + Len(xs) \in Nat /\ n + Len(xs) >= Len(xs)
    BY <1>2, <1>12
  <2>5. E[n + Len(xs)] = E[Len(xs)]
    BY <1>4, <2>4
  <2> QED
    BY <1>2, <2>3, <2>5
<1>13. \A n \in Nat : Matches(xs, E[n], D[n])
  <2> DEFINE H == {n \in Nat : Matches(xs, E[n], D[n])}
  <2>1. 0 \in H
    <3>1. ASSUME NEW k \in Clear(xs), k < 2 PROVE <<xs[1]>>[k] = xs[k]
      <4>1. k = 1
        BY <3>1, ClearBefore
      <4> QED
        BY <4>1
    <3>2. Len(<<xs[1]>>) = 2 - 1
      OBVIOUS
    <3>3. /\ E[0].at = 2 /\ E[0].text = head /\ D[0].at = Len(head) + 1
          /\ D[0].values = <<xs[1]>>
      BY <1>1, <1>9, <1>11
    <3>4. Len(D[0].values) = E[0].at - 1
      BY <3>2, <3>3
    <3>5. \A k \in Clear(xs) : k < E[0].at => D[0].values[k] = xs[k]
      BY <3>1, <3>3
    <3>6. Matches(xs, E[0], D[0])
      BY <3>3, <3>4, <3>5 DEF Matches
    <3> QED
      BY <3>6
  <2>2. ASSUME NEW n \in Nat, n \in H PROVE n + 1 \in H
    <3>0. n \in Nat /\ n + 1 \in Nat
      BY <2>2
    <3>1. /\ E[n] \in EncodeStates(xs) /\ E[n + 1] \in EncodeStates(xs)
          /\ CodeStep(xs, E[n], E[n + 1]) /\ D[n] \in DecodeStates(s)
      BY <1>1, <1>11, <3>0
    <3>2. Stands(E[n + 1].text, s, 1)
      BY <1>5, <3>0
    <3>3. Matches(xs, E[n], D[n])
      BY <2>2
    <3>4. Matches(xs, E[n + 1], DecodePass(s, D[n]))
      BY <1>3, <1>12, <3>1, <3>2, <3>3, MatchStep
    <3>5. Matches(xs, E[n + 1], D[n + 1])
      BY <1>11, <3>4
    <3> QED
      BY <3>5
  <2>3. \A n \in Nat : n \in H
    <3> HIDE DEF H
    <3> QED
      BY <2>1, <2>2, Induction
  <2> QED
    BY <2>3
<1>14. PICK n \in Nat : n >= Len(xs) /\ n >= Len(s)
  <2>1. Len(s) \in Nat
    BY <1>3
  <2>2. Len(xs) + Len(s) \in Nat /\ Len(xs) + Len(s) >= Len(xs) /\ Len(xs) + Len(s) >= Len(s)
    BY <1>2, <2>1
  <2> QED
    BY <2>2
<1>15. E[n].at = Len(xs) + 1 /\ D[n] = D[Len(s)] /\ Matches(xs, E[n], D[n])
  BY <1>4, <1>11, <1>13, <1>14
<1>16. /\ Len(D[Len(s)].values) = (Len(xs) + 1) - 1
       /\ \A k \in Clear(xs) : k < Len(xs) + 1 => D[Len(s)].values[k] = xs[k]
  BY <1>15 DEF Matches
<1>17. \A k \in Clear(xs) : k < Len(xs) + 1
  <2>1. ASSUME NEW k \in Clear(xs) PROVE k < Len(xs) + 1
    <3>1. k \in 1 .. Len(xs)
      BY ClearBefore
    <3> QED
      BY <1>2, <3>1
  <2> QED
    BY <2>1
<1>18. (Len(xs) + 1) - 1 = Len(xs)
  BY <1>2
<1>19. DigitsEnd(s, 1) # 1
  BY <1>6, <1>8
<1> QED
  BY <1>8, <1>9, <1>11, <1>16, <1>17, <1>18, <1>19

-----------------------------------------------------------------------------
(* Lists *)

\* decodeValueArray gives back, of a list that begins with a number that is
\* no ambiguous one, every value up to the first delta that is (app.js:1478-1557).
THEOREM ValuesSurvive ==
  ASSUME NEW xs \in Seq(Int), xs # <<>>, ~Ambiguous(xs[1])
  PROVE  \A k \in Clear(xs) : DecodeValueArray(EncodeValueArray(xs), Len(xs))[k] = xs[k]
<1> DEFINE s == EncodeValueArray(xs)
           vs == Decoded(s, Skip(s, DigitsEnd(s, 1)), xs[1])
<1>1. PICK E : EncodeRun(xs, E, Append(EncodeSignedInt(xs[1]), Dot)) /\ s = E[Len(xs)].text
  BY ValuesRun
<1>2. xs[1] \in Int /\ Len(xs) \in Nat
  OBVIOUS
<1>3. PICK t \in Seq(Digits) : t = EncodeSignedInt(xs[1]) /\ t # <<>>
  BY <1>2, EncodeType
<1>4. DecodeSignedInt(t) = xs[1]
  BY <1>2, <1>3, NumbersSurvive
<1>5. EncodeRun(xs, E, Append(t, Dot))
  BY <1>1, <1>3
<1> HIDE DEF s
<1>6. /\ SubSeq(s, 1, DigitsEnd(s, 1) - 1) = t /\ Len(vs) = Len(xs)
      /\ \A k \in Clear(xs) : vs[k] = xs[k]
  BY <1>1, <1>3, <1>5, Decoding
<1>7. vs = Decoded(s, Skip(s, DigitsEnd(s, 1)), DecodeSignedInt(SubSeq(s, 1, DigitsEnd(s, 1) - 1)))
  BY <1>4, <1>6
<1> HIDE DEF vs
<1>8. DecodeValueArray(s, Len(xs)) = [k \in 1 .. Len(xs) |-> IF k <= Len(vs) THEN vs[k] ELSE 0]
  BY <1>7, Zenon DEF DecodeValueArray
<1>9. ASSUME NEW k \in Clear(xs) PROVE DecodeValueArray(s, Len(xs))[k] = xs[k]
  <2>1. k \in 1 .. Len(xs) /\ k <= Len(vs)
    <3>1. k \in 1 .. Len(xs)
      BY ClearBefore
    <3> QED
      BY <1>2, <1>6, <3>1
  <2>2. DecodeValueArray(s, Len(xs))[k] = vs[k]
    BY <1>8, <2>1
  <2> QED
    BY <1>6, <2>2
<1> QED
  BY <1>9 DEF s

\* decodeSamplesDelta gives as many samples back as were encoded, and every one
\* up to the first ambiguous delta (app.js:1579-1681).
THEOREM SamplesSurvive ==
  ASSUME NEW xs \in Seq(Nat)
  PROVE  /\ Len(DecodeSamples(EncodeSamples(xs))) = Len(xs)
         /\ \A k \in Clear(xs) : DecodeSamples(EncodeSamples(xs))[k] = xs[k]
<1>0. xs \in Seq(Int) /\ Len(xs) \in Nat
  BY NatsAreInts
<1>1. CASE xs = <<>>
  <2>1. EncodeSamples(xs) = <<>>
    BY <1>1 DEF EncodeSamples
  <2>0. <<>> \in Seq(Nat) /\ Len(<<>>) = 0
    OBVIOUS
  <2>2. PICK w \in Seq(Nat) : w = <<>> /\ Len(w) = 0
    BY <2>0
  <2>3. DigitsEnd(w, 1) = 1
    <3>1. 1 \in 1 .. Len(w) + 1
      BY <2>2
    <3>2. DigitsEnd(w, 1) \in 1 .. Len(w) + 1
      BY <2>2, <3>1, DigitsEndIs
    <3> QED
      BY <2>2, <3>2
  <2>4. DecodeSamples(w) = <<>>
    BY <2>3 DEF DecodeSamples
  <2>5. ASSUME NEW k \in Clear(xs) PROVE FALSE
    <3>1. k \in 1 .. Len(xs) /\ Len(xs) = 0
      BY <1>0, <1>1, ClearBefore
    <3> QED
      BY <3>1
  <2> QED
    BY <1>1, <2>1, <2>2, <2>4, <2>5
<1>2. CASE xs # <<>>
  <2> DEFINE s == EncodeSamples(xs)
             vs == Decoded(s, Skip(s, DigitsEnd(s, 1)), xs[1])
  <2>1. PICK E : EncodeRun(xs, E, Append(Base36(xs[1]), Dot)) /\ s = E[Len(xs)].text
    BY <1>2, SamplesRun
  <2>2. xs[1] \in Nat
    BY <1>2
  <2>3. PICK t \in Seq(Digits) : t = Base36(xs[1]) /\ t # <<>>
    <3>1. Base36(xs[1]) \in Seq(Digits) /\ Len(Base36(xs[1])) >= 1
      BY <2>2, Base36Type
    <3>2. Base36(xs[1]) # <<>>
      BY <3>1
    <3> QED
      BY <3>1, <3>2
  <2>4. ParseInt(t) = xs[1]
    BY <2>2, <2>3, ParseIntOfBase36
  <2>5. EncodeRun(xs, E, Append(t, Dot))
    BY <2>1, <2>3
  <2> HIDE DEF s
  <2>6. /\ DigitsEnd(s, 1) # 1 /\ SubSeq(s, 1, DigitsEnd(s, 1) - 1) = t /\ Len(vs) = Len(xs)
        /\ \A k \in Clear(xs) : vs[k] = xs[k]
    BY <1>0, <1>2, <2>1, <2>3, <2>5, Decoding
  <2>7. DecodeSamples(s) = vs
    BY <2>4, <2>6, Zenon DEF DecodeSamples
  <2> QED
    BY <2>6, <2>7 DEF s
<1> QED
  BY <1>1, <1>2

-----------------------------------------------------------------------------
(* The flags *)

\* decodeResultsFromURL unpacks from the flags every grade, trend and type
\* that encodeResultsForURL packed into them: the multipliers leave no field
\* room to reach the next one (app.js:1401-1403, 1705-1722).
THEOREM FlagsSurvive ==
  ASSUME NEW f \in Flags
  PROVE  UnpackFlags(PackFlags(f)) = f
<1> DEFINE s == f.streaming
           g == f.gaming
           v == f.chatting
           a == f.connType
           b == f.proto
           c == f.lossType
           d == f.conf
           t == f.dlTrend
           u == f.ulTrend
           q == s * 25 + g * 5 + v
           n == PackFlags(f)
<1>1. /\ s \in 0 .. 4 /\ g \in 0 .. 4 /\ v \in 0 .. 4 /\ a \in 0 .. 4 /\ b \in 0 .. 1
      /\ c \in 0 .. 3 /\ d \in 0 .. 2 /\ t \in 0 .. 2 /\ u \in 0 .. 2
  BY DEF Flags
<1>2. n = q * 1080 + a * 216 + b * 108 + c * 27 + d * 9 + t * 3 + u
  BY DEF PackFlags
<1>3. q = s * 25 + g * 5 + v
  OBVIOUS
<1>4. f = [streaming |-> s, gaming |-> g, chatting |-> v, connType |-> a, proto |-> b,
           lossType |-> c, conf |-> d, dlTrend |-> t, ulTrend |-> u]
  BY DEF Flags
<1>5. UnpackFlags(n) =
        [streaming |-> (n \div 1080) \div 25, gaming |-> ((n \div 1080) % 25) \div 5,
         chatting |-> (n \div 1080) % 5, connType |-> (n % 1080) \div 216,
         proto |-> (n % 216) \div 108, lossType |-> (n % 108) \div 27, conf |-> (n % 27) \div 9,
         dlTrend |-> (n % 9) \div 3, ulTrend |-> n % 3]
  BY DEF UnpackFlags
<1> HIDE DEF s, g, v, a, b, c, d, t, u, q, n
<1>6. q \in Nat /\ q \div 25 = s /\ q % 25 = g * 5 + v /\ q % 5 = v
  BY <1>1, <1>3
<1>7. (q % 25) \div 5 = g
  BY <1>1, <1>6
<1>8. n \div 1080 = q /\ n % 1080 = a * 216 + b * 108 + c * 27 + d * 9 + t * 3 + u
  BY <1>1, <1>2, <1>6
<1>9. (n % 1080) \div 216 = a
  BY <1>1, <1>8
<1>10. (n % 216) \div 108 = b
  <2>1. n % 216 = b * 108 + c * 27 + d * 9 + t * 3 + u
    BY <1>1, <1>2, <1>6
  <2> QED
    BY <1>1, <2>1
<1>11. (n % 108) \div 27 = c
  <2>1. n % 108 = c * 27 + d * 9 + t * 3 + u
    BY <1>1, <1>2, <1>6
  <2> QED
    BY <1>1, <2>1
<1>12. (n % 27) \div 9 = d
  <2>1. n % 27 = d * 9 + t * 3 + u
    BY <1>1, <1>2, <1>6
  <2> QED
    BY <1>1, <2>1
<1>13. (n % 9) \div 3 = t /\ n % 3 = u
  <2>1. n % 9 = t * 3 + u /\ n % 3 = u
    BY <1>1, <1>2, <1>6
  <2> QED
    BY <1>1, <2>1
<1>14. (n \div 1080) \div 25 = s /\ ((n \div 1080) % 25) \div 5 = g /\ (n \div 1080) % 5 = v
  <2>1. (n \div 1080) \div 25 = s
    BY <1>6, <1>8
  <2>2. (n \div 1080) % 25 = q % 25
    BY <1>8
  <2>3. ((n \div 1080) % 25) \div 5 = g
    BY <1>7, <2>2
  <2>4. (n \div 1080) % 5 = v
    BY <1>6, <1>8
  <2> QED
    BY <2>1, <2>3, <2>4
<1>15. n % 3 = u /\ (n % 9) \div 3 = t
  BY <1>13
<1>16. UnpackFlags(n) = f
  BY <1>4, <1>5, <1>9, <1>10, <1>11, <1>12, <1>14, <1>15
<1> QED
  BY <1>16, Zenon DEF n

-----------------------------------------------------------------------------
(* What is shared *)

Measures == [downloadMbps : Int, uploadMbps : Int, latencyMs : Int, jitterMs : Int, loss : Int]

Measured(r) ==
  /\ r.summary \in Measures /\ r.grades \in [Uses -> 1 .. 4]
  /\ r.minutes \in Minutes /\ r.context \in Contexts
  /\ r.packetLoss \in PacketTests /\ r.pattern \in PatternOf(r.packetLoss)
  /\ r.downloads \in Seq(Nat) /\ r.uploads \in Seq(Nat) /\ r.unloaded \in Seq(Nat)

LEMMA LatencyType ==
  ASSUME TypeOK, NEW p \in {50, 90}
  PROVE  Percentile(FilterOutliers(Warm), p) \in Int
<1>1. Numbers(Warm)
  BY WarmNumbers
<1>2. Numbers(FilterOutliers(Warm))
  <2>1. Inside(Warm) \subseteq DOMAIN Warm
    BY DEF Inside
  <2>2. Numbers(Restrict(Warm, Inside(Warm)))
    BY <1>1, <2>1, PartNumbers
  <2>3. FilterOutliers(Warm) \in {Warm, Restrict(Warm, Inside(Warm))}
    BY Zenon DEF FilterOutliers
  <2> QED
    BY <1>1, <2>2, <2>3, Zenon
<1>3. PICK f : f = FilterOutliers(Warm) /\ Numbers(f)
  BY <1>2
<1>4. CASE DOMAIN f = {}
  <2>1. Percentile(f, p) = 0
    BY <1>4, Zenon DEF Percentile
  <2> QED
    BY <1>3, <2>1
<1>5. CASE DOMAIN f # {}
  BY <1>3, <1>5, NearestRank
<1> QED
  BY <1>4, <1>5

LEMMA MeasuresType ==
  ASSUME TypeOK
  PROVE  Summary \in Measures
<1>1. PICK dl, ul, a, b : /\ dl = Percentile(Timed(downloads), 90)
                          /\ ul = Percentile(Timed(uploads), 90)
                          /\ a = Percentile(FilterOutliers(Warm), 50)
                          /\ b = Percentile(FilterOutliers(Warm), 90)
  OBVIOUS
<1>2. dl \in Int /\ ul \in Int
  BY <1>1, SpeedType DEF TypeOK
<1>3. a \in Int /\ b \in Int
  BY <1>1, LatencyType
<1>4. PICK l \in Int : l = Loss(packetLoss)
  BY LossType DEF TypeOK
<1>5. Summary = [downloadMbps |-> dl, uploadMbps |-> ul, latencyMs |-> a, jitterMs |-> b - a,
                 loss |-> l]
  BY <1>1, <1>4, Zenon DEF Summary
<1> QED
  BY <1>2, <1>3, <1>5 DEF Measures

LEMMA GradesType ==
  ASSUME NEW s
  PROVE  Grades(Quality(s)) \in [Uses -> 1 .. 4]
<1>1. ASSUME NEW use \in Uses PROVE Quality(s)[use] \in 0 .. 3
  <2> DEFINE G == {0} \cup {g \in 1 .. 3 : Meets(s, use, Thresholds[use][g])}
  <2>1. G \subseteq 0 .. 3 /\ 0 \in G
    OBVIOUS
  <2>2. Quality(s)[use] = Max(G)
    BY <1>1 DEF Quality
  <2> HIDE DEF G
  <2>3. Max(G) \in G
    BY <2>1, LargestGrade
  <2> QED
    BY <2>1, <2>2, <2>3
<1>2. ASSUME NEW use \in Uses PROVE Quality(s)[use] + 1 \in 1 .. 4
  BY <1>1, <1>2
<1> QED
  BY <1>2 DEF Grades

LEMMA SpeedsType ==
  ASSUME NEW s \in Seq(Transfers)
  PROVE  Speeds(s) \in Seq(Nat)
<1>1. \A t \in Transfers : t.mbps \in Nat
  BY SummaryAssumption
<1>2. \A k \in 1 .. Len(s) : s[k] \in Transfers
  OBVIOUS
<1>3. Speeds(s) = [k \in 1 .. Len(s) |-> s[k].mbps]
  BY DEF Speeds
<1>4. [k \in 1 .. Len(s) |-> s[k].mbps] \in [1 .. Len(s) -> Nat]
  BY <1>1, <1>2
<1>5. Len(s) \in Nat
  OBVIOUS
<1> QED
  BY <1>3, <1>4, <1>5

LEMMA ResultsType ==
  ASSUME TypeOK, packetLoss # NotTested, NEW minutes \in Minutes, NEW context \in Contexts,
         NEW pattern \in PatternOf(packetLoss)
  PROVE  Measured(Results(minutes, context, pattern))
<1>1. PICK r : r = Results(minutes, context, pattern)
  OBVIOUS
<1>2. /\ r.summary = Summary /\ r.grades = Grades(Quality(Summary)) /\ r.minutes = minutes
      /\ r.context = context /\ r.packetLoss = packetLoss /\ r.pattern = pattern
      /\ r.downloads = Speeds(downloads) /\ r.uploads = Speeds(uploads) /\ r.unloaded = unloaded
  BY <1>1 DEF Results
<1>3. packetLoss \in PacketTests
  BY DEF TypeOK
<1>4. Speeds(downloads) \in Seq(Nat) /\ Speeds(uploads) \in Seq(Nat)
  BY SpeedsType DEF TypeOK
<1>5. unloaded \in Seq(Nat)
  <2>1. unloaded \in Seq(Rtts) /\ Rtts \subseteq Nat
    BY SummaryAssumption DEF TypeOK
  <2>2. unloaded \in [1 .. Len(unloaded) -> Rtts] /\ Len(unloaded) \in Nat
    BY <2>1
  <2>3. unloaded \in [1 .. Len(unloaded) -> Nat]
    BY <2>1, <2>2
  <2> QED
    BY <2>2, <2>3
<1> QED
  BY <1>1, <1>2, <1>3, <1>4, <1>5, MeasuresType, GradesType, Zenon DEF Measured

LEMMA RoundedType ==
  ASSUME NEW v \in Int
  PROVE  Rounded(v) \in Int /\ (v \in Nat => Rounded(v) \in Nat)
BY DEF Rounded

LEMMA PeakType ==
  ASSUME NEW s \in Seq(Nat)
  PROVE  Peak(s) \in Int
<1>1. DOMAIN s = 1 .. Len(s) /\ Len(s) \in Nat /\ \A k \in DOMAIN s : s[k] \in Nat
  OBVIOUS
<1>2. Numbers(s)
  <2>1. \A k \in DOMAIN s : s[k] \in Int
    BY <1>1
  <2> QED
    BY <2>1, SequenceNumbers
<1> DEFINE G == {0} \cup ToSet(s)
<1>3. G \subseteq Int /\ ToSet(s) = {s[k] : k \in DOMAIN s}
  BY <1>1 DEF ToSet
<1>4. CASE DOMAIN s = {}
  <2>1. 0 \in G /\ \A y \in G : 0 >= y
    BY <1>3, <1>4
  <2> HIDE DEF G
  <2>2. Max(G) = 0
    BY <1>3, <2>1, LargestIs
  <2> QED
    BY <2>2 DEF Peak, G
<1>5. CASE DOMAIN s # {}
  <2>1. PICK m \in DOMAIN s : \A k \in DOMAIN s : s[k] <= s[m]
    BY <1>2, <1>5, LargestSample
  <2>2. s[m] \in G /\ \A y \in G : s[m] >= y
    BY <1>1, <1>3, <2>1
  <2>3. s[m] \in Int
    BY <1>1
  <2> HIDE DEF G
  <2>4. Max(G) = s[m]
    BY <1>3, <2>2, LargestIs
  <2> QED
    BY <2>3, <2>4 DEF Peak, G
<1> QED
  BY <1>4, <1>5

LEMMA SustainedType ==
  ASSUME NEW s \in Seq(Nat)
  PROVE  Sustained(s) \in Int
<1>1. CASE s = <<>>
  BY <1>1 DEF Sustained
<1>2. CASE s # <<>>
  <2>1. PICK n \in Nat \ {0} : n = Len(s)
    BY <1>2
  <2>2. DOMAIN s = 1 .. n /\ \A k \in DOMAIN s : s[k] \in Int
    BY <2>1
  <2>3. Numbers(s)
    BY <2>2, SequenceNumbers
  <2>4. Size(s) = n
    <3>1. Cardinality(1 .. n) = n
      BY FS_Interval
    <3> QED
      BY <2>2, <3>1 DEF Size
  <2>5. (3 * n) \div 4 + 1 \in 1 .. Size(s)
    BY <2>1, <2>4
  <2>6. Sorted(s, (3 * n) \div 4 + 1) \in Int
    BY <2>3, <2>5, SortedIs
  <2>7. Sustained(s) = Sorted(s, (3 * Len(s)) \div 4 + 1)
    BY <1>2, Zenon DEF Sustained
  <2> QED
    BY <2>1, <2>6, <2>7
<1> QED
  BY <1>1, <1>2

LEMMA CodeIs ==
  ASSUME NEW names, NEW name, name \in ToSet(names)
  PROVE  \E k \in DOMAIN names : Code(name, names) = k - 1 /\ names[k] = name
<1>1. \E k \in DOMAIN names : names[k] = name
  BY DEF ToSet
<1> DEFINE k == CHOOSE k \in DOMAIN names : names[k] = name
<1>2. k \in DOMAIN names /\ names[k] = name
  BY <1>1
<1>3. Code(name, names) = k - 1
  BY Zenon DEF Code
<1> HIDE DEF k
<1> QED
  BY <1>2, <1>3

LEMMA NamesAre ==
  /\ DOMAIN ConnTypes = 1 .. 5 /\ DOMAIN Protocols = 1 .. 2 /\ DOMAIN LossTypes = 1 .. 4
  /\ DOMAIN ConfLevels = 1 .. 3 /\ DOMAIN Trends = 1 .. 3
  /\ {"none", "random", "burst", "tail"} \subseteq ToSet(LossTypes)
  /\ {"stable", "improving", "degrading"} \subseteq ToSet(Trends)
<1>1. /\ DOMAIN ConnTypes = 1 .. 5 /\ DOMAIN Protocols = 1 .. 2 /\ DOMAIN LossTypes = 1 .. 4
      /\ DOMAIN ConfLevels = 1 .. 3 /\ DOMAIN Trends = 1 .. 3
  BY DEF ConnTypes, Protocols, LossTypes, ConfLevels, Trends
<1>2. LossTypes[1] = "none" /\ LossTypes[2] = "random" /\ LossTypes[3] = "burst" /\ LossTypes[4] = "tail"
  BY DEF LossTypes
<1>3. Trends[1] = "stable" /\ Trends[2] = "improving" /\ Trends[3] = "degrading"
  BY DEF Trends
<1>4. {"none", "random", "burst", "tail"} \subseteq ToSet(LossTypes)
  BY <1>1, <1>2 DEF ToSet
<1>5. {"stable", "improving", "degrading"} \subseteq ToSet(Trends)
  BY <1>1, <1>3 DEF ToSet
<1> QED
  BY <1>1, <1>4, <1>5

LEMMA TrendType ==
  ASSUME NEW s
  PROVE  Trend(s) \in ToSet(Trends)
<1>1. Trend(s) \in {"stable", "improving", "degrading"}
  BY Zenon DEF Trend
<1> QED
  BY <1>1, NamesAre

\* The name of the pattern that is packed into the flags.
PackedPattern(r) ==
  IF r.pattern = "none" /\ ~r.packetLoss.unavailable
     /\ Notable(r.packetLoss.sent, r.packetLoss.received)
    THEN "random" ELSE r.pattern

LEMMA PatternType ==
  ASSUME NEW r, Measured(r)
  PROVE  /\ PackedPattern(r) \in ToSet(LossTypes)
         /\ r.packetLoss.sent \in Nat /\ r.packetLoss.received \in Nat
         /\ r.packetLoss.unavailable \in BOOLEAN
         /\ ~r.packetLoss.unavailable => PackedPattern(r) = r.pattern
         /\ r.pattern = "none" /\ ~r.packetLoss.unavailable =>
              r.packetLoss.received = r.packetLoss.sent
<1>1. /\ r.packetLoss.sent \in Nat /\ r.packetLoss.received \in Nat
      /\ r.packetLoss.unavailable \in BOOLEAN
  BY SummaryAssumption DEF Measured
<1>2. r.pattern \in PatternOf(r.packetLoss)
  BY DEF Measured
<1>3. r.pattern \in {"none", "random", "burst", "tail"}
  BY <1>2, Zenon DEF PatternOf
<1>4. PackedPattern(r) \in {"none", "random", "burst", "tail"}
  BY <1>3, Zenon DEF PackedPattern
<1>5. ASSUME r.pattern = "none", ~r.packetLoss.unavailable
      PROVE  r.packetLoss.received = r.packetLoss.sent
  <2>1. CASE r.packetLoss.received = r.packetLoss.sent
    BY <2>1
  <2>2. CASE r.packetLoss.received # r.packetLoss.sent
    <3>1. PatternOf(r.packetLoss) = {"random", "burst", "tail"}
      BY <1>5, <2>2, Zenon DEF PatternOf
    <3> QED
      BY <1>2, <1>5, <3>1
  <2> QED
    BY <2>1, <2>2
<1>6. ASSUME ~r.packetLoss.unavailable PROVE PackedPattern(r) = r.pattern
  <2>1. CASE r.pattern = "none"
    <3>1. PICK n \in Nat : n = r.packetLoss.sent /\ n = r.packetLoss.received
      BY <1>1, <1>5, <1>6, <2>1
    <3>2. ~Notable(n, n)
      BY DEF Notable
    <3> QED
      BY <3>1, <3>2, Zenon DEF PackedPattern
  <2>2. CASE r.pattern # "none"
    BY <2>2, Zenon DEF PackedPattern
  <2> QED
    BY <2>1, <2>2
<1> QED
  BY <1>1, <1>4, <1>5, <1>6, NamesAre

LEMMA FlagsType ==
  ASSUME NEW r, Measured(r)
  PROVE  FlagsOf(r) \in Flags /\ LossTypes[FlagsOf(r).lossType + 1] = PackedPattern(r)
<1>1. PICK a \in 0 .. 4 : a = Code(r.context.connType, ConnTypes)
  <2>1. r.context.connType \in ToSet(ConnTypes)
    BY SharingAssumption DEF Measured
  <2>2. PICK k \in DOMAIN ConnTypes : Code(r.context.connType, ConnTypes) = k - 1
    BY <2>1, CodeIs
  <2>3. k \in 1 .. 5
    BY NamesAre
  <2> QED
    BY <2>2, <2>3
<1>2. PICK b \in 0 .. 1 : b = Code(r.context.protocol, Protocols)
  <2>1. r.context.protocol \in ToSet(Protocols)
    BY SharingAssumption DEF Measured
  <2>2. PICK k \in DOMAIN Protocols : Code(r.context.protocol, Protocols) = k - 1
    BY <2>1, CodeIs
  <2>3. k \in 1 .. 2
    BY NamesAre
  <2> QED
    BY <2>2, <2>3
<1>3. PICK c \in 0 .. 3 : /\ c = Code(PackedPattern(r), LossTypes)
                          /\ LossTypes[c + 1] = PackedPattern(r)
  <2>1. PackedPattern(r) \in ToSet(LossTypes)
    BY PatternType
  <2>2. PICK k \in DOMAIN LossTypes : /\ Code(PackedPattern(r), LossTypes) = k - 1
                                      /\ LossTypes[k] = PackedPattern(r)
    BY <2>1, CodeIs
  <2>3. k \in 1 .. 4
    BY NamesAre
  <2>4. k - 1 \in 0 .. 3 /\ (k - 1) + 1 = k
    BY <2>3
  <2> QED
    BY <2>2, <2>4
<1>4. PICK d \in 0 .. 2 : d = Code(r.context.conf, ConfLevels)
  <2>1. r.context.conf \in ToSet(ConfLevels)
    BY SharingAssumption DEF Measured
  <2>2. PICK k \in DOMAIN ConfLevels : Code(r.context.conf, ConfLevels) = k - 1
    BY <2>1, CodeIs
  <2>3. k \in 1 .. 3
    BY NamesAre
  <2> QED
    BY <2>2, <2>3
<1>5. ASSUME NEW s PROVE Code(Trend(s), Trends) \in 0 .. 2
  <2>1. PICK k \in DOMAIN Trends : Code(Trend(s), Trends) = k - 1
    BY TrendType, CodeIs
  <2>2. k \in 1 .. 3
    BY NamesAre
  <2> QED
    BY <2>1, <2>2
<1>6. PICK t, u \in 0 .. 2 : t = Code(Trend(r.downloads), Trends) /\ u = Code(Trend(r.uploads), Trends)
  BY <1>5
<1>7. PICK x, y, z \in 0 .. 4 :
        x = r.grades.videoStreaming /\ y = r.grades.gaming /\ z = r.grades.videoChatting
  <2>1. {"videoStreaming", "gaming", "videoChatting"} \subseteq Uses
    BY DEF Uses, Thresholds
  <2>2. r.grades \in [Uses -> 1 .. 4]
    BY DEF Measured
  <2>3. /\ r.grades["videoStreaming"] \in 1 .. 4 /\ r.grades["gaming"] \in 1 .. 4
        /\ r.grades["videoChatting"] \in 1 .. 4
    BY <2>1, <2>2
  <2> QED
    BY <2>3
<1>8. FlagsOf(r) = [streaming |-> x, gaming |-> y, chatting |-> z, connType |-> a, proto |-> b,
                    lossType |-> c, conf |-> d, dlTrend |-> t, ulTrend |-> u]
  BY <1>1, <1>2, <1>3, <1>4, <1>6, <1>7, Zenon DEF FlagsOf, PackedPattern
<1>9. FlagsOf(r) \in Flags
  BY <1>8 DEF Flags
<1>10. FlagsOf(r).lossType = c
  BY <1>8
<1> QED
  BY <1>3, <1>9, <1>10

LEMMA PackedType ==
  ASSUME NEW f \in Flags
  PROVE  PackFlags(f) \in Nat
<1> DEFINE s == f.streaming
           g == f.gaming
           v == f.chatting
           a == f.connType
           b == f.proto
           c == f.lossType
           d == f.conf
           t == f.dlTrend
           u == f.ulTrend
<1>1. /\ s \in Nat /\ g \in Nat /\ v \in Nat /\ a \in Nat /\ b \in Nat
      /\ c \in Nat /\ d \in Nat /\ t \in Nat /\ u \in Nat
  BY DEF Flags
<1>2. PackFlags(f) = (s * 25 + g * 5 + v) * 1080 + a * 216 + b * 108 + c * 27 + d * 9 + t * 3 + u
  BY DEF PackFlags
<1> HIDE DEF s, g, v, a, b, c, d, t, u
<1>3. PICK q \in Nat : q = s * 25 + g * 5 + v
  BY <1>1
<1> QED
  BY <1>1, <1>2, <1>3

LEMMA FiguresType ==
  ASSUME NEW r, Measured(r)
  PROVE  /\ Figures(r) \in Seq(Int) /\ Len(Figures(r)) = FigureCount
         /\ Figures(r)[FlagsAt] = PackFlags(FlagsOf(r))
         /\ Figures(r)[SentAt] = r.packetLoss.sent
         /\ Figures(r)[SentAt + 1] = r.packetLoss.received
<1>1. PICK a, b, c, d, l \in Int :
        /\ a = Rounded(r.summary.downloadMbps) /\ b = Rounded(r.summary.uploadMbps)
        /\ c = Rounded(r.summary.latencyMs) /\ d = Rounded(r.summary.jitterMs)
        /\ l = r.summary.loss
  <2>1. r.summary \in Measures
    BY DEF Measured
  <2>2. /\ r.summary.downloadMbps \in Int /\ r.summary.uploadMbps \in Int
        /\ r.summary.latencyMs \in Int /\ r.summary.jitterMs \in Int /\ r.summary.loss \in Int
    BY <2>1 DEF Measures
  <2> QED
    BY <2>2, RoundedType
<1>2. PICK e, m \in Int : e = r.context.score /\ m = r.minutes
  <2>1. r.context \in Contexts /\ r.minutes \in Minutes
    BY DEF Measured
  <2>2. r.context.score \in 0 .. 100
    BY <2>1, SharingAssumption
  <2>3. r.minutes \in Nat
    BY <2>1, SharingAssumption
  <2> QED
    BY <2>2, <2>3
<1>3. PICK n, o, p \in Int : /\ n = PackFlags(FlagsOf(r)) /\ o = r.packetLoss.sent
                             /\ p = r.packetLoss.received
  <2>1. PackFlags(FlagsOf(r)) \in Int
    BY FlagsType, PackedType
  <2> QED
    BY <2>1, PatternType
<1>4. PICK pl \in [1 .. 4 -> Int] : pl = r.context.place
  BY SharingAssumption DEF Measured
<1>5. PICK w, x, y, z \in Int :
        /\ w = Rounded(Peak(r.downloads)) /\ x = Rounded(Peak(r.uploads))
        /\ y = Rounded(Sustained(r.downloads)) /\ z = Rounded(Sustained(r.uploads))
  BY PeakType, SustainedType, RoundedType DEF Measured
<1>6. Figures(r) = <<a, b, c, d, l, e, m, n, o, p>> \o pl \o <<w, x, y, z>>
  BY <1>1, <1>2, <1>3, <1>4, <1>5, Zenon DEF Figures
<1>7. PICK h \in Seq(Int) : h = <<a, b, c, d, l, e, m, n, o, p>> /\ Len(h) = 10
  <2>1. <<a, b, c, d, l, e, m, n, o, p>> \in Seq(Int)
    BY <1>1, <1>2, <1>3
  <2> QED
    BY <2>1
<1>8. h[8] = n /\ h[9] = o /\ h[10] = p
  BY <1>7
<1>9. pl \in Seq(Int) /\ Len(pl) = 4
  <2>1. ASSUME NEW k \in Nat, NEW v \in [1 .. k -> Int]
        PROVE  v \in Seq(Int) /\ Len(v) = k
    <3>1. v \in Seq(Int)
      OBVIOUS
    <3>2. DOMAIN v = 1 .. k /\ DOMAIN v = 1 .. Len(v) /\ Len(v) \in Nat
      BY <3>1
    <3> QED
      BY <3>1, <3>2
  <2>2. 4 \in Nat
    OBVIOUS
  <2> QED
    BY <1>4, <2>1, <2>2
<1>10. PICK q \in Seq(Int) : q = <<w, x, y, z>> /\ Len(q) = 4
  <2>1. <<w, x, y, z>> \in Seq(Int)
    BY <1>5
  <2> QED
    BY <2>1
<1>11. PICK f : f = (h \o pl) \o q
  OBVIOUS
<1>12. \A k \in 1 .. 10 : f[k] = h[k]
  <2>0. h \o pl \in Seq(Int)
    BY <1>7, <1>9
  <2>1. PICK j \in Seq(Int) : j = h \o pl
    BY <2>0
  <2>2. Len(j) = 14 /\ \A k \in 1 .. 10 : j[k] = h[k]
    <3>1. Len(j) = Len(h) + Len(pl) /\ \A k \in 1 .. Len(h) : j[k] = h[k]
      <4>1. h \in Seq(Int) /\ pl \in Seq(Int) /\ j = h \o pl
        BY <1>7, <1>9, <2>1
      <4> QED
        BY <4>1, Joined
    <3> QED
      BY SMTT(30), <3>1, <1>7, <1>9
  <2>3. Len(f) = Len(j) + Len(q) /\ \A k \in 1 .. Len(j) : f[k] = j[k]
    BY <1>10, <1>11, <2>1, Joined
  <2>4. \A k \in 1 .. 14 : f[k] = j[k]
    BY <2>2, <2>3
  <2>5. \A k \in 1 .. 10 : k \in 1 .. 14
    OBVIOUS
  <2> QED
    BY <2>2, <2>4, <2>5
<1>13. f \in Seq(Int) /\ Len(f) = 18
  <2>0. h \o pl \in Seq(Int)
    BY <1>7, <1>9
  <2>1. PICK j \in Seq(Int) : j = h \o pl
    BY <2>0
  <2>2. Len(j) = Len(h) + Len(pl)
    <3>1. h \in Seq(Int) /\ pl \in Seq(Int) /\ j = h \o pl
      BY <1>7, <1>9, <2>1
    <3> QED
      BY <3>1, Joined
  <2>3. f \in Seq(Int) /\ Len(f) = Len(j) + Len(q)
    BY <1>10, <1>11, <2>1, Joined
  <2>4. Len(h) = 10 /\ Len(pl) = 4 /\ Len(q) = 4
    BY <1>7, <1>9, <1>10
  <2> QED
    BY <2>2, <2>3, <2>4
<1>14. Figures(r) = f
  BY <1>6, <1>7, <1>10, <1>11
<1>15. f[8] = n /\ f[9] = o /\ f[10] = p
  <2>1. 8 \in 1 .. 10 /\ 9 \in 1 .. 10 /\ 10 \in 1 .. 10
    OBVIOUS
  <2> QED
    BY <1>8, <1>12, <2>1
<1>16. FigureCount = 18 /\ FlagsAt = 8 /\ SentAt = 9 /\ SentAt + 1 = 10
  BY DEF FigureCount, FlagsAt, SentAt
<1> QED
  BY <1>3, <1>13, <1>14, <1>15, <1>16

LEMMA SamplesType ==
  ASSUME NEW r, Measured(r), NEW n \in 1 .. 3
  PROVE  Samples(r)[n] \in Seq(Nat)
<1> DEFINE Scaled(s) == [k \in DOMAIN s |-> Rounded(s[k])]
<1>1. ASSUME NEW s \in Seq(Nat) PROVE Scaled(s) \in Seq(Nat)
  <2>1. DOMAIN s = 1 .. Len(s) /\ Len(s) \in Nat /\ \A k \in 1 .. Len(s) : s[k] \in Nat
    BY <1>1
  <2>2. ASSUME NEW k \in 1 .. Len(s) PROVE Rounded(s[k]) \in Nat
    <3>1. s[k] \in Nat
      BY <2>1
    <3>2. s[k] \in Int
      BY <3>1
    <3> QED
      BY <3>1, <3>2, RoundedType
  <2>3. Scaled(s) \in [1 .. Len(s) -> Nat]
    BY <2>1, <2>2
  <2> HIDE DEF Scaled
  <2> QED
    BY <2>1, <2>3
<1>2. Samples(r) = <<Scaled(r.downloads), Scaled(r.uploads), Scaled(r.unloaded)>>
  BY Zenon DEF Samples
<1> HIDE DEF Scaled
<1>3. /\ Scaled(r.downloads) \in Seq(Nat) /\ Scaled(r.uploads) \in Seq(Nat)
      /\ Scaled(r.unloaded) \in Seq(Nat)
  BY <1>1 DEF Measured
<1> QED
  BY <1>2, <1>3

-----------------------------------------------------------------------------
(* What a link shows *)

LEMMA SectionsOf ==
  ASSUME NEW r
  PROVE  /\ EncodeResultsForURL(r)[1] = EncodeValueArray(Figures(r))
         /\ \A n \in 1 .. 3 : EncodeResultsForURL(r)[n + 1] = EncodeSamples(Samples(r)[n])
<1> DEFINE a == EncodeValueArray(Figures(r))
           q == [k \in 1 .. 3 |-> EncodeSamples(Samples(r)[k])]
           S == {a, q[1], q[2], q[3]}
<1>1. EncodeResultsForURL(r) = <<a>> \o q
  BY DEF EncodeResultsForURL
<1>2. \A n \in 1 .. 3 : q[n] = EncodeSamples(Samples(r)[n])
  OBVIOUS
<1>3. q = [k \in 1 .. 3 |-> q[k]]
  OBVIOUS
<1>4. a = EncodeValueArray(Figures(r))
  OBVIOUS
<1> HIDE DEF a, q
<1>5. \A n \in 1 .. 3 : q[n] \in S
  <2>1. \A n \in 1 .. 3 : n = 1 \/ n = 2 \/ n = 3
    OBVIOUS
  <2> QED
    BY <2>1
<1>6. <<a>> \in Seq(S)
  OBVIOUS
<1> HIDE DEF S
<1>7. q \in [1 .. 3 -> S]
  BY <1>3, <1>5
<1>8. q \in Seq(S)
  <2>1. ASSUME NEW k \in Nat, NEW v \in [1 .. k -> S] PROVE v \in Seq(S)
    OBVIOUS
  <2>2. 3 \in Nat
    OBVIOUS
  <2> QED
    BY <1>7, <2>1, <2>2
<1>9. DOMAIN q = 1 .. 3 /\ DOMAIN q = 1 .. Len(q) /\ Len(q) \in Nat
  BY <1>3, <1>8
<1>10. Len(q) = 3
  BY <1>9
<1>11. PICK h \in Seq(S) : h = <<a>>
  BY <1>6
<1>12. Len(h) = 1 /\ h[1] = a
  BY <1>11
<1>13. PICK f : f = h \o q
  OBVIOUS
<1>14. /\ \A k \in 1 .. Len(h) : f[k] = h[k]
       /\ \A k \in 1 .. Len(q) : f[Len(h) + k] = q[k]
  BY <1>8, <1>11, <1>13, Joined
<1>15. f[1] = a
  <2>1. 1 \in 1 .. 1
    OBVIOUS
  <2> QED
    BY <1>12, <1>14, <2>1
<1>16. ASSUME NEW n \in 1 .. 3 PROVE f[n + 1] = q[n]
  <2>1. f[1 + n] = q[n]
    BY <1>10, <1>12, <1>14
  <2>2. 1 + n = n + 1
    OBVIOUS
  <2> QED
    BY <2>1, <2>2
<1> QED
  BY <1>1, <1>2, <1>4, <1>11, <1>13, <1>15, <1>16

\* What a page that is opened by the link of r shows of the figures and the
\* samples.
LEMMA ShownOf ==
  ASSUME NEW r, Measured(r)
  PROVE  LET shown == DecodeResultsFromURL(EncodeResultsForURL(r))
         IN  /\ shown.figures = DecodeValueArray(EncodeValueArray(Figures(r)), FigureCount)
             /\ \A n \in 1 .. 3 : shown.samples[n] = DecodeSamples(EncodeSamples(Samples(r)[n]))
<1> DEFINE x == EncodeResultsForURL(r)
<1>1. PICK z : z = DecodeResultsFromURL(x)
  OBVIOUS
<1>2. z.figures = DecodeValueArray(x[1], FigureCount)
  BY <1>1 DEF DecodeResultsFromURL
<1>3. z.samples = [k \in 1 .. 3 |-> DecodeSamples(x[k + 1])]
  BY <1>1 DEF DecodeResultsFromURL
<1>4. ASSUME NEW n \in 1 .. 3 PROVE z.samples[n] = DecodeSamples(EncodeSamples(Samples(r)[n]))
  <2>1. z.samples[n] = DecodeSamples(x[n + 1])
    BY <1>3
  <2> QED
    BY <2>1, SectionsOf
<1> QED
  BY <1>1, <1>2, <1>4, SectionsOf

LEMMA FlagsShown ==
  ASSUME NEW r, Measured(r), NEW x,
         DecodeResultsFromURL(x).figures[FlagsAt] = Figures(r)[FlagsAt]
  PROVE  /\ DecodeResultsFromURL(x).flags = FlagsOf(r)
         /\ DecodeValueArray(x[1], FigureCount)[FlagsAt] \in Nat
<1>1. PICK v : v = DecodeValueArray(x[1], FigureCount)
  OBVIOUS
<1>2. PICK z : z = DecodeResultsFromURL(x)
  OBVIOUS
<1>3. z.figures = v
  BY <1>1, <1>2 DEF DecodeResultsFromURL
<1>4. z.flags = IF v[FlagsAt] \in Nat THEN UnpackFlags(v[FlagsAt]) ELSE NaN
  BY <1>1, <1>2 DEF DecodeResultsFromURL
<1>5. v[FlagsAt] = PackFlags(FlagsOf(r))
  BY <1>2, <1>3, FiguresType
<1>6. FlagsOf(r) \in Flags
  BY FlagsType
<1>7. v[FlagsAt] \in Nat
  BY <1>5, <1>6, PackedType
<1>8. UnpackFlags(v[FlagsAt]) = FlagsOf(r)
  BY <1>5, <1>6, FlagsSurvive
<1> QED
  BY <1>1, <1>2, <1>4, <1>7, <1>8

LEMMA PatternShown ==
  ASSUME NEW r, Measured(r), ~r.packetLoss.unavailable, NEW x,
         DecodeResultsFromURL(x).figures = Figures(r)
  PROVE  DecodeResultsFromURL(x).lossType = r.pattern
<1>1. PICK v : v = DecodeValueArray(x[1], FigureCount)
  OBVIOUS
<1>2. PICK z : z = DecodeResultsFromURL(x)
  OBVIOUS
<1>3. z.figures = v
  BY <1>1, <1>2 DEF DecodeResultsFromURL
<1>4. v = Figures(r)
  BY <1>2, <1>3
<1>5. PICK n, m \in Nat :
        n = v[SentAt] /\ m = v[SentAt + 1] /\ n = r.packetLoss.sent /\ m = r.packetLoss.received
  BY <1>4, FiguresType, PatternType
<1>6. v[FlagsAt] \in Nat /\ z.flags = FlagsOf(r)
  BY <1>1, <1>2, FlagsShown
<1> DEFINE pattern == IF v[FlagsAt] \in Nat
                     THEN LossTypes[UnpackFlags(v[FlagsAt]).lossType + 1] ELSE "none"
           lost == NaN \notin {v[SentAt], v[SentAt + 1]} /\ v[SentAt] > 0
                     /\ Notable(v[SentAt], v[SentAt + 1])
<1>7. z.lossType = IF pattern = "none" /\ lost THEN "random" ELSE pattern
  BY <1>1, <1>2 DEF DecodeResultsFromURL
<1>8. pattern = r.pattern
  <2>1. UnpackFlags(v[FlagsAt]) = FlagsOf(r)
    BY <1>4, FiguresType, FlagsType, FlagsSurvive
  <2>2. pattern = LossTypes[FlagsOf(r).lossType + 1]
    BY <1>6, <2>1
  <2> HIDE DEF pattern
  <2> QED
    BY <2>2, FlagsType, PatternType
<1>9. pattern = "none" => ~lost
  <2>1. ASSUME r.pattern = "none" PROVE ~Notable(v[SentAt], v[SentAt + 1])
    <3>1. n = m
      BY <1>5, <2>1, PatternType
    <3>2. ~Notable(n, n)
      BY DEF Notable
    <3> QED
      BY <1>5, <3>1, <3>2
  <2> HIDE DEF pattern
  <2> QED
    BY <1>8, <2>1
<1> HIDE DEF pattern, lost
<1> QED
  BY <1>2, <1>7, <1>8, <1>9

\* The claim of LinkKeepsMeasurements about the link of a result.
LEMMA LinkKeeps ==
  ASSUME NEW r, Measured(r)
  PROVE  LET figures == Figures(r)
             samples == Samples(r)
             opened  == DecodeResultsFromURL(EncodeResultsForURL(r))
         IN  /\ ~Ambiguous(figures[1]) =>
                  \A k \in Clear(figures) : opened.figures[k] = figures[k]
             /\ \A n \in 1 .. 3 :
                  /\ Len(opened.samples[n]) = Len(samples[n])
                  /\ \A k \in Clear(samples[n]) : opened.samples[n][k] = samples[n][k]
             /\ opened.figures[FlagsAt] = figures[FlagsAt] => opened.flags = FlagsOf(r)
             /\ opened.figures = figures /\ ~r.packetLoss.unavailable =>
                  opened.lossType = r.pattern
<1>1. PICK figures : figures = Figures(r)
  OBVIOUS
<1>2. PICK samples : samples = Samples(r)
  OBVIOUS
<1>3. PICK opened : opened = DecodeResultsFromURL(EncodeResultsForURL(r))
  OBVIOUS
<1>4. ASSUME ~Ambiguous(figures[1]), NEW k \in Clear(figures)
      PROVE  opened.figures[k] = figures[k]
  <2>1. figures \in Seq(Int) /\ Len(figures) = FigureCount
    BY <1>1, FiguresType
  <2>2. figures # <<>>
    <3>1. Len(<<>>) = 0 /\ FigureCount # 0
      BY DEF FigureCount
    <3> QED
      BY <2>1, <3>1
  <2>3. DecodeValueArray(EncodeValueArray(figures), Len(figures))[k] = figures[k]
    BY <1>4, <2>1, <2>2, ValuesSurvive
  <2> QED
    BY <1>1, <1>3, <2>1, <2>3, ShownOf
<1>5. ASSUME NEW n \in 1 .. 3
      PROVE  /\ Len(opened.samples[n]) = Len(samples[n])
             /\ \A k \in Clear(samples[n]) : opened.samples[n][k] = samples[n][k]
  <2>1. samples[n] \in Seq(Nat)
    BY <1>2, SamplesType
  <2>2. opened.samples[n] = DecodeSamples(EncodeSamples(samples[n]))
    BY <1>2, <1>3, ShownOf
  <2> QED
    BY <2>1, <2>2, SamplesSurvive
<1>6. opened.figures[FlagsAt] = figures[FlagsAt] => opened.flags = FlagsOf(r)
  BY <1>1, <1>3, FlagsShown
<1>7. opened.figures = figures /\ ~r.packetLoss.unavailable => opened.lossType = r.pattern
  BY <1>1, <1>3, PatternShown
<1> QED
  BY <1>1, <1>2, <1>3, <1>4, <1>5, <1>6, <1>7

-----------------------------------------------------------------------------
(* The states of a test and its link *)

\* What holds of a test and of the link made of it in every state.
ShareInv ==
  /\ TypeOK
  /\ shared # Nothing => Measured(shared) /\ link = EncodeResultsForURL(shared)

LEMMA SharedStarts == SharedInit => ShareInv
<1> SUFFICES ASSUME SharedInit PROVE ShareInv
  OBVIOUS
<1>1. TypeOK
  BY DEF SharedInit, Init, TypeOK
<1> QED
  BY <1>1 DEF SharedInit, ShareInv

LEMMA SharedKeeps == ShareInv /\ [SharedNext]_shareVars => ShareInv'
<1> SUFFICES ASSUME ShareInv, [SharedNext]_shareVars PROVE ShareInv'
  OBVIOUS
<1>1. CASE Next /\ UNCHANGED <<shared, link>>
  <2>1. TypeOK'
    BY <1>1, SamplesKeepTypes DEF ShareInv
  <2> QED
    BY <1>1, <2>1 DEF ShareInv
<1>2. CASE ShareResults
  <2>1. TypeOK'
    BY <1>2, SamplesKeepTypes DEF ShareInv, ShareResults
  <2>2. PICK minutes \in Minutes, context \in Contexts, pattern \in PatternOf(packetLoss) :
          shared' = Results(minutes, context, pattern)
    BY <1>2 DEF ShareResults
  <2>3. Measured(Results(minutes, context, pattern))
    BY <1>2, <2>2, ResultsType DEF ShareInv, ShareResults
  <2>4. Measured(shared')
    BY <2>2, <2>3
  <2>5. link' = EncodeResultsForURL(shared')
    BY <1>2 DEF ShareResults
  <2> QED
    BY <2>1, <2>4, <2>5 DEF ShareInv
<1>3. CASE UNCHANGED shareVars
  <2>1. UNCHANGED vars /\ UNCHANGED shared /\ UNCHANGED link
    BY <1>3 DEF shareVars
  <2>2. TypeOK'
    BY <2>1, SamplesKeepTypes DEF ShareInv
  <2> QED
    BY <2>1, <2>2 DEF ShareInv
<1> QED
  BY <1>1, <1>2, <1>3 DEF SharedNext

LEMMA KeptByLinks == ShareInv => LinkKeepsMeasurements
<1> SUFFICES ASSUME ShareInv, shared # Nothing PROVE LinkKeepsMeasurements
  BY Zenon DEF LinkKeepsMeasurements
<1>1. Measured(shared) /\ link = EncodeResultsForURL(shared)
  BY DEF ShareInv
<1>2. Opened = DecodeResultsFromURL(EncodeResultsForURL(shared))
  BY <1>1 DEF Opened
<1> QED
  BY <1>1, <1>2, LinkKeeps, Zenon DEF LinkKeepsMeasurements

\* Whatever the test measured and whatever the place, the time and the figures
\* that the model takes as given, the link shows it: lists at their length and,
\* up to the first ambiguous number, as they were measured; the flags and the
\* loss pattern where their figures arrived (encodeResultsForURL and
\* decodeResultsFromURL, app.js:1365-1471, 1687-1853).
THEOREM LinksKeep == SharedSpec => []LinkKeepsMeasurements
<1> QED
  BY SharedStarts, SharedKeeps, KeptByLinks, PTL DEF SharedSpec

=============================================================================
