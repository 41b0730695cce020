------------------------------ MODULE ShareCodec ------------------------------
(***************************************************************************)
(* The codec of share links (web/js/app.js): base-36 numbers with a sign,  *)
(* lists of figures and of samples as deltas, and the packed flags.        *)
(*                                                                         *)
(* A character is a number: 0 .. 35 are the base-36 digits 0-9 and a-z,    *)
(* 36 .. 61 are the capitals.                                              *)
(***************************************************************************)
EXTENDS Integers, Sequences, SequencesExt

CONSTANT NaN  \* what parseInt makes of no digit

ASSUME NaNAssumption == NaN \notin Int

Digits   == 0 .. 35
Small    == 10 .. 35  \* a .. z
Capitals == 36 .. 61  \* A .. Z
Letters  == {0} \cup Small \cup Capitals
Dot      == 62
Large    == 63        \* "_", before a delta that no letter stands for
Repeat   == 64        \* "~", before the length of a run of equal samples
Sign     == 23        \* "n", before a negative number, and a digit itself

\* n passes of a loop whose body F makes a state of a state, from state x on.
Iterate(F(_), x, n) ==
  LET After[k \in Nat] == IF k = 0 THEN x ELSE F(After[k - 1])
  IN  After[n]

-----------------------------------------------------------------------------
(* Numbers *)

Plus(a, b) == IF NaN \in {a, b} THEN NaN ELSE a + b

\* v without its last n digits
Quotient(v, n) == Iterate(LAMBDA q : q \div 36, v, n)

\* v.toString(36)
Base36(v) ==
  LET n == CHOOSE k \in 1 .. v \div 36 + 1 :
             Quotient(v, k) = 0 /\ \A j \in 1 .. k - 1 : Quotient(v, j) # 0
  IN  [k \in 1 .. n |-> Quotient(v, n - k) % 36]

ParseInt(s) ==
  LET Value[k \in 0 .. Len(s)] == IF k = 0 THEN 0 ELSE 36 * Value[k - 1] + s[k]
  IN  IF s = <<>> THEN NaN ELSE Value[Len(s)]

EncodeSignedInt(v) == IF v < 0 THEN <<Sign>> \o Base36(-v) ELSE Base36(v)

DecodeSignedInt(s) ==
  IF s # <<>> /\ s[1] = Sign
    THEN IF Tail(s) = <<>> THEN NaN ELSE -ParseInt(Tail(s))
    ELSE ParseInt(s)

-----------------------------------------------------------------------------
(* Deltas *)

\* Mutant: letters up to 27.
DeltaCodeWide(d) ==
  CASE d = 0           -> <<0>>
    [] d \in 1 .. 27   -> <<9 + d>>
    [] d \in -27 .. -1 -> <<35 - d>>
    [] OTHER           -> <<Large>> \o EncodeSignedInt(d) \o <<Dot>>

DeltaCode(d) ==
  CASE d = 0           -> <<0>>
    [] d \in 1 .. 26   -> <<9 + d>>
    [] d \in -26 .. -1 -> <<35 - d>>
    [] OTHER           -> <<Large>> \o EncodeSignedInt(d) \o <<Dot>>

\* The delta that a single character stands for.
Letter(c) == CASE c = 0 -> 0 [] c \in Small -> c - 9 [] c \in Capitals -> 35 - c

\* Where the digits that begin at place i of s end, and the place after the
\* terminator that may stand at place i.
DigitsEnd(s, i) ==
  CHOOSE j \in i .. Len(s) + 1 :
    (j = Len(s) + 1 \/ s[j] \notin Digits) /\ \A k \in i .. j - 1 : s[k] \in Digits
Skip(s, i) == IF i <= Len(s) /\ s[i] = Dot THEN i + 1 ELSE i

\* count times v: a loop up to NaN makes no pass.
Times(v, count) == IF count = NaN THEN <<>> ELSE [k \in 1 .. count |-> v]

\* One pass of the loop of both decoders: at is the place in s, and prev the
\* last of the values found so far.  What is no code is skipped; of figures no
\* runs are coded, and those beyond the count that is read are cut off at the end.
DecodePass(s, st) ==
  LET c      == s[st.at]
      end    == DigitsEnd(s, st.at + 1)
      number == SubSeq(s, st.at + 1, end - 1)
      prev   == Last(st.values)
      To(place, found) == [at |-> place, values |-> st.values \o found]
  IN  IF st.at > Len(s) THEN st
      ELSE CASE c \in Letters -> To(st.at + 1, <<Plus(prev, Letter(c))>>)
             [] c = Large     -> To(Skip(s, end), <<Plus(prev, DecodeSignedInt(number))>>)
             [] c = Repeat    -> To(Skip(s, end), Times(prev, ParseInt(number)))
             [] OTHER         -> To(st.at + 1, <<>>)

\* All values, from the place after the first one on.  A pass moves on by a
\* place at least.
Decoded(s, at, first) ==
  Iterate(LAMBDA st : DecodePass(s, st), [at |-> at, values |-> <<first>>], Len(s)).values

-----------------------------------------------------------------------------
(* encodeValueArray and decodeValueArray; never empty *)

\* One pass of the loop of the encoder: at is the place in xs.
ValuePass(xs, st) ==
  IF st.at > Len(xs) THEN st
  ELSE [at |-> st.at + 1, text |-> st.text \o DeltaCode(xs[st.at] - xs[st.at - 1])]

EncodeValueArray(xs) ==
  Iterate(LAMBDA st : ValuePass(xs, st), [at |-> 2, text |-> Append(EncodeSignedInt(xs[1]), Dot)],
          Len(xs)).text

DecodeValueArray(s, count) ==
  LET end    == DigitsEnd(s, 1)
      values == Decoded(s, Skip(s, end), DecodeSignedInt(SubSeq(s, 1, end - 1)))
  IN  [k \in 1 .. count |-> IF k <= Len(values) THEN values[k] ELSE 0]

-----------------------------------------------------------------------------
(* encodeSamplesDelta and decodeSamplesDelta, of samples in tenths *)

RepeatCode(n) == IF n = 1 THEN <<0>> ELSE <<Repeat>> \o Base36(n) \o <<Dot>>

\* The first place from i on whose sample differs from the one before place i.
RunEnd(xs, i) ==
  CHOOSE j \in i .. Len(xs) + 1 :
    (j = Len(xs) + 1 \/ xs[j] # xs[i - 1]) /\ \A k \in i .. j - 1 : xs[k] = xs[i - 1]

SamplePass(xs, st) ==
  LET delta == xs[st.at] - xs[st.at - 1]
      end   == RunEnd(xs, st.at)
  IN  IF st.at > Len(xs) THEN st
      ELSE IF delta = 0 THEN [at |-> end, text |-> st.text \o RepeatCode(end - st.at)]
      ELSE [at |-> st.at + 1, text |-> st.text \o DeltaCode(delta)]

EncodeSamples(xs) ==
  IF xs = <<>> THEN <<>>
  ELSE Iterate(LAMBDA st : SamplePass(xs, st), [at |-> 2, text |-> Append(Base36(xs[1]), Dot)],
               Len(xs)).text

DecodeSamples(s) ==
  LET end == DigitsEnd(s, 1)
  IN  IF end = 1 THEN <<>> ELSE Decoded(s, Skip(s, end), ParseInt(SubSeq(s, 1, end - 1)))

-----------------------------------------------------------------------------
(* The flags: three grades 0 .. 4 and the small enumerations *)

ConnTypes  == <<"host", "srflx", "prflx", "relay", "unknown">>
Protocols  == <<"udp", "tcp">>
LossTypes  == <<"none", "random", "burst", "tail">>
ConfLevels == <<"high", "medium", "low">>
Trends     == <<"stable", "improving", "degrading">>

Code(name, names) == (CHOOSE k \in DOMAIN names : names[k] = name) - 1

Flags == [streaming : 0 .. 4, gaming : 0 .. 4, chatting : 0 .. 4, connType : 0 .. 4,
          proto : 0 .. 1, lossType : 0 .. 3, conf : 0 .. 2, dlTrend : 0 .. 2, ulTrend : 0 .. 2]

PackFlags(f) ==
  (f.streaming * 25 + f.gaming * 5 + f.chatting) * 1080
    + f.connType * 216 + f.proto * 108 + f.lossType * 27 + f.conf * 9 + f.dlTrend * 3 + f.ulTrend

UnpackFlags(n) ==
  LET q == n \div 1080
  IN  [streaming |-> q \div 25, gaming |-> (q % 25) \div 5, chatting |-> q % 5,
       connType |-> (n % 1080) \div 216, proto |-> (n % 216) \div 108,
       lossType |-> (n % 108) \div 27, conf |-> (n % 27) \div 9,
       dlTrend |-> (n % 9) \div 3, ulTrend |-> n % 3]
=============================================================================
