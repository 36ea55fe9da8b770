---------------------------- MODULE PrintfProofs ----------------------------
(***************************************************************************)
(* Proofs about printf, fprintf and kpanic's use of them, for every format *)
(* and every width of an int: what printf prints is what its format means, *)
(* kpanic shows of fprintf's text what printf would have shown, and what   *)
(* the kernel puts together from its own texts can be read.                *)
(*                                                                         *)
(* What a text is after any number of pieces would take a definition by    *)
(* recursion and induction over it.  Instead the invariant says that a     *)
(* sequence of texts exists, one for each piece up to where the function   *)
(* is, each the one before with its piece's text behind it: the steps of   *)
(* the program do the induction.                                           *)
(*                                                                         *)
(* At the end are the proofs about memset and memcpy, for every memory,    *)
(* length and placement: fprintf's buffer is cleared by the one and filled *)
(* by the other.                                                           *)
(***************************************************************************)
EXTENDS Printf, SequenceTheorems, TLAPS

-----------------------------------------------------------------------------
(***************************************************************************)
(* Numbers.                                                                *)
(***************************************************************************)
\* Dividing once more is dividing by the next power.
LEMMA DivideAgain ==
  ASSUME NEW a \in Nat, NEW t \in Nat, t > 0, NEW b \in {10, 16}
  PROVE  /\ a \div t \in Nat
         /\ (a \div t) \div b = a \div (b * t)
         /\ (a \div t = 0) <=> (a < t)
         /\ (a \div t) % b \in Nat /\ (a \div t) % b < b
         /\ b * t \in Nat /\ b * t > 0
<1>1. a \div t \in Nat
  OBVIOUS
<1>2. (a \div t) \div b = a \div (b * t)
  OBVIOUS
<1>3. (a \div t = 0) <=> (a < t)
  OBVIOUS
<1>4. (a \div t) % b \in Nat /\ (a \div t) % b < b
  <2>1. \A q \in Nat : q % b \in Nat /\ q % b < b
    OBVIOUS
  <2> QED BY <2>1, <1>1
<1> QED BY <1>1, <1>2, <1>3, <1>4

\* The powers are positive, and each is so often the one before.
LEMMA PowerFacts ==
  ASSUME NEW base \in {10, 16}, NEW powers \in Seq(Nat), IsPowers(powers, base)
  PROVE  /\ Len(powers) \in Nat /\ Len(powers) > 1
         /\ powers[1] = 1
         /\ \A k \in 1..Len(powers) : powers[k] \in Nat /\ powers[k] > 0
         /\ \A k \in 1..(Len(powers) - 1) : powers[k + 1] = base * powers[k]
         /\ \A j, k \in 1..Len(powers) : j < k => powers[j] < powers[k]
<1>1. /\ Len(powers) \in Nat /\ Len(powers) > 1 /\ powers[1] = 1
      /\ \A k \in 1..(Len(powers) - 1) : powers[k + 1] = base * powers[k]
      /\ \A j, k \in 1..Len(powers) : j < k => powers[j] < powers[k]
      /\ \A k \in 1..Len(powers) : powers[k] \in Nat
  BY DEF IsPowers
<1>2. ASSUME NEW k \in 1..Len(powers)
      PROVE  powers[k] > 0
  <2>1. CASE k = 1
    BY <2>1, <1>1
  <2>2. CASE k # 1
    <3>1. 1 \in 1..Len(powers) /\ 1 < k
      BY <2>2, <1>1
    <3>2. powers[1] < powers[k]
      BY <3>1, <1>1
    <3> QED BY <3>2, <1>1
  <2> QED BY <2>1, <2>2
<1> QED BY <1>1, <1>2

\* Width's definition, of a width that is known.
IsWidth(n, powers, w) ==
    /\ w \in 1..(Len(powers) - 1)
    /\ w = 1 \/ powers[w] <= n
    /\ n < powers[w + 1]

\* A number has one width.
LEMMA WidthUnique ==
  ASSUME NEW base \in {10, 16}, NEW powers \in Seq(Nat),
         IsPowers(powers, base), NEW n \in Nat,
         NEW w, IsWidth(n, powers, w)
  PROVE  Width(n, powers) = w
<1>1. ASSUME NEW u, NEW v, IsWidth(n, powers, u), IsWidth(n, powers, v), u < v
      PROVE  FALSE
  <2>1. /\ u \in 1..(Len(powers) - 1) /\ v \in 1..(Len(powers) - 1)
        /\ powers[v] <= n /\ n < powers[u + 1]
    BY <1>1, PowerFacts DEF IsWidth
  <2>2. u + 1 \in 1..Len(powers) /\ v \in 1..Len(powers)
    BY <2>1, PowerFacts
  <2>3. powers[u + 1] <= powers[v]
    <3>1. CASE u + 1 = v
      BY <3>1, <2>2, PowerFacts
    <3>2. CASE u + 1 < v
      BY <3>2, <2>2, PowerFacts
    <3> QED BY <3>1, <3>2, <2>1, <1>1
  <2> QED BY <2>1, <2>2, <2>3, PowerFacts
<1>2. ASSUME NEW u \in 1..(Len(powers) - 1), u = 1 \/ powers[u] <= n,
             n < powers[u + 1]
      PROVE  u = w
  <2>1. IsWidth(n, powers, u)
    BY <1>2 DEF IsWidth
  <2>2. u \in Int /\ w \in Int
    BY DEF IsWidth
  <2>3. ~ (u < w) /\ ~ (w < u)
    BY <2>1, <1>1
  <2> QED BY <2>2, <2>3
<1>3. /\ w \in 1..(Len(powers) - 1)
      /\ (w = 1 \/ powers[w] <= n) /\ n < powers[w + 1]
  BY DEF IsWidth
<1>4. /\ Width(n, powers) \in 1..(Len(powers) - 1)
      /\ Width(n, powers) = 1 \/ powers[Width(n, powers)] <= n
      /\ n < powers[Width(n, powers) + 1]
  BY <1>3, Zenon DEF Width
<1> QED BY <1>2, <1>4

\* A digit's character.
LEMMA DigitFacts ==
  /\ \A d \in 0..9 : Digits[d + 1] = d + 48
  /\ \A d \in 0..15 : Digits[d + 1] = HexDigit(d)
BY DEF Digits, HexDigit

\* Of a number that is not below 0, C's quotient and remainder are the usual.
LEMMA Unsigned ==
  ASSUME NEW a \in Nat
  PROVE  Quotient(a, 16) = a \div 16 /\ Remainder(a, 16) = a % 16
BY DEF Quotient, Remainder

\* IntegerToString's registers of an int, and the text it makes of them.
Negative(v) == IF v < 0 THEN 1 ELSE 0
Magnitude(v) == Qword(IF v < 0 THEN WrapInt(-v) ELSE v)

DigitAt(v, j) == ((v \div Tens[j + 1]) % 10) + 48

DecimalText(negative, v) ==
    LET l == negative + Width(v, Tens)
    IN  [k \in 1..l |-> IF k <= negative THEN Minus ELSE DigitAt(v, l - k)]

\* What of NumberAssumption the proofs about decimals need.
LEMMA TensFacts ==
  /\ Tens \in Seq(Nat) /\ IsPowers(Tens, 10)
  /\ Len(Tens) \in Nat /\ Len(Tens) > 1 /\ Len(Tens) < NumberSize
  /\ NumberSize \in Nat
  /\ Tens[1] = 1
  /\ \A k \in 1..Len(Tens) : Tens[k] \in Nat /\ Tens[k] > 0
  /\ \A k \in 1..(Len(Tens) - 1) : Tens[k + 1] = 10 * Tens[k]
  /\ \A j, k \in 1..Len(Tens) : j < k => Tens[j] < Tens[k]
  /\ QwordRange \in Nat /\ QwordRange <= Tens[Len(Tens)]
<1>1. /\ Tens \in Seq(Nat) /\ IsPowers(Tens, 10) /\ Len(Tens) < NumberSize
      /\ NumberSize \in Nat /\ QwordRange \in Nat
      /\ QwordRange <= Tens[Len(Tens)]
  BY NumberAssumption
<1>2. 10 \in {10, 16}
  OBVIOUS
<1> QED BY <1>1, <1>2, PowerFacts

\* A digit of the number is one of 0 to 9.
LEMMA DigitAtFacts ==
  ASSUME NEW v \in Nat, NEW j \in 0..(Len(Tens) - 1)
  PROVE  /\ DigitAt(v, j) \in 48..57
         /\ DigitAt(v, j) = Digits[((v \div Tens[j + 1]) % 10) + 1]
<1>1. Tens[j + 1] \in Nat /\ Tens[j + 1] > 0
  BY TensFacts
<1> DEFINE d == (v \div Tens[j + 1]) % 10
<1>2. d \in 0..9
  <2>1. d \in Nat /\ d < 10
    BY <1>1, DivideAgain
  <2> QED BY <2>1
<1> HIDE DEF d
<1>3. Digits[d + 1] = d + 48
  BY <1>2, DigitFacts
<1> QED BY <1>2, <1>3 DEF DigitAt, d

\* The array is read back up to the end that is put behind the digits.
LEMMA DigitsRead ==
  ASSUME NEW negative \in {0, 1}, NEW v \in Nat, NEW s \in Nat,
         NEW a \in [0..(NumberSize - 1) -> Int],
         IsWidth(v, Tens, s + 1),
         negative = 1 => a[0] = Minus,
         \A j \in 0..s : a[negative + s - j] = DigitAt(v, j),
         a[negative + s + 1] = 0
  PROVE  StringOf(a) = DecimalText(negative, v)
<1> DEFINE l == negative + s + 1
<1>1. Width(v, Tens) = s + 1
  <2>1. 10 \in {10, 16}
    OBVIOUS
  <2> QED BY <2>1, TensFacts, WidthUnique
<1>2. s + 1 <= Len(Tens) - 1 /\ l \in 0..(NumberSize - 1)
  BY TensFacts DEF IsWidth
<1>3. ASSUME NEW k \in 0..(l - 1)
      PROVE  /\ a[k] = IF k < negative THEN Minus
                       ELSE DigitAt(v, negative + s - k)
             /\ a[k] # 0
  <2>1. CASE k < negative
    <3>1. k = 0 /\ negative = 1
      BY <2>1
    <3> QED BY <3>1, <2>1 DEF Minus
  <2>2. CASE ~ (k < negative)
    <3> DEFINE j == negative + s - k
    <3>1. j \in 0..s /\ negative + s - j = k /\ j \in 0..(Len(Tens) - 1)
      BY <2>2, <1>2
    <3>2. a[k] = DigitAt(v, j)
      BY <3>1
    <3>3. DigitAt(v, j) \in 48..57
      BY <3>1, DigitAtFacts
    <3>4. 0 \notin 48..57
      OBVIOUS
    <3> QED BY <3>2, <3>3, <3>4, <2>2
  <2> QED BY <2>1, <2>2
<1>4. strlen(a) = l
  <2>1. a[l] = 0
    OBVIOUS
  <2>2. ASSUME NEW m \in 0..(NumberSize - 1), a[m] = 0,
               \A k \in 0..(m - 1) : a[k] # 0
        PROVE  m = l
    <3>1. ~ (m < l)
      BY <2>2, <1>3, <1>2
    <3>2. ~ (l < m)
      BY <2>2, <2>1, <1>2
    <3> QED BY <3>1, <3>2, <1>2
  <2>3. \A k \in 0..(l - 1) : a[k] # 0
    BY <1>3
  <2> HIDE DEF l
  <2> QED BY <1>2, <2>1, <2>2, <2>3, Zenon DEF strlen
<1>5. StringOf(a) = [k \in 1..l |-> a[k - 1]]
  BY <1>4 DEF StringOf
<1>6. DecimalText(negative, v)
        = [k \in 1..l |-> IF k <= negative THEN Minus
                          ELSE DigitAt(v, l - k)]
  <2>1. negative + Width(v, Tens) = l
    BY <1>1
  <2> HIDE DEF l
  <2> QED BY <2>1 DEF DecimalText
<1>7. ASSUME NEW k \in 1..l
      PROVE  a[k - 1] = IF k <= negative THEN Minus ELSE DigitAt(v, l - k)
  <2>1. k - 1 \in 0..(l - 1) /\ negative + s - (k - 1) = l - k
        /\ (k - 1 < negative <=> k <= negative)
    OBVIOUS
  <2> HIDE DEF l
  <2> QED BY <2>1, <1>3
<1> HIDE DEF l
<1> QED BY <1>5, <1>6, <1>7

\* The magnitude is the number without its sign, unless it has none.
LEMMA MagnitudeFacts ==
  ASSUME NEW v \in Int32
  PROVE  /\ Magnitude(v) \in 0..(QwordRange - 1)
         /\ v # -(MaxInt + 1) => Magnitude(v) = IF v < 0 THEN -v ELSE v
<1>1. /\ MaxInt \in Nat /\ QwordRange \in Nat /\ QwordRange > 2 * MaxInt + 2
  BY NumberAssumption
<1>2. v \in Int /\ -(MaxInt + 1) <= v /\ v <= MaxInt
  BY <1>1 DEF Int32
<1> DEFINE u == IF v < 0 THEN WrapInt(-v) ELSE v
<1>3. u \in Int /\ (v # -(MaxInt + 1) => u = IF v < 0 THEN -v ELSE v)
  BY <1>1, <1>2 DEF WrapInt
<1>4. u % QwordRange \in 0..(QwordRange - 1)
  <2> HIDE DEF u
  <2> QED BY <1>1, <1>3
<1>5. v # -(MaxInt + 1) => u \in 0..(QwordRange - 1)
  BY <1>1, <1>2, <1>3
<1>6. u \in 0..(QwordRange - 1) => u % QwordRange = u
  <2> HIDE DEF u
  <2> QED BY <1>1
<1> QED BY <1>3, <1>4, <1>5, <1>6 DEF Magnitude, Qword

\* What IntegerToString makes of an int, -2147483648 left out, is the int
\* written in decimal.
LEMMA DecimalMeaning ==
  ASSUME NEW p, p.kind = "d", p.arg \in Int32, p.arg # -(MaxInt + 1),
         NEW w, IsWidth(Magnitude(p.arg), Tens, w)
  PROVE  DecimalText(Negative(p.arg), Magnitude(p.arg)) = Meaning(p)
<1> DEFINE v == p.arg
           n == Magnitude(v)
<1>1. n \in Nat /\ n = (IF v < 0 THEN -v ELSE v) /\ v \in Int
  <2>1. v \in Int /\ QwordRange \in Nat
    BY NumberAssumption DEF Int32
  <2>2. n \in 0..(QwordRange - 1) /\ n = (IF v < 0 THEN -v ELSE v)
    BY MagnitudeFacts
  <2> HIDE DEF n
  <2> QED BY <2>1, <2>2
<1>2. Width(n, Tens) = w /\ w \in 1..(Len(Tens) - 1)
  <2>1. 10 \in {10, 16}
    OBVIOUS
  <2> QED BY <2>1, <1>1, TensFacts, WidthUnique DEF IsWidth
<1> DEFINE digits == [k \in 1..w |-> DigitAt(n, w - k)]
<1>3. Numeral(n, 10, Tens) = digits
  <2>1. Numeral(n, 10, Tens)
          = [k \in 1..w |-> Digits[((n \div Tens[w + 1 - k]) % 10) + 1]]
    BY <1>2 DEF Numeral
  <2>2. ASSUME NEW k \in 1..w
        PROVE  Digits[((n \div Tens[w + 1 - k]) % 10) + 1] = DigitAt(n, w - k)
    <3>1. w - k \in 0..(Len(Tens) - 1) /\ (w - k) + 1 = w + 1 - k
      BY <1>2, TensFacts
    <3> QED BY <3>1, <1>1, DigitAtFacts
  <2> QED BY <2>1, <2>2
<1>4. Meaning(p) = IF v < 0 THEN <<Minus>> \o digits ELSE digits
  BY <1>1, <1>3 DEF Meaning
<1>5. digits \in Seq(Int) /\ Len(digits) = w
  <2>1. ASSUME NEW k \in 1..w
        PROVE  DigitAt(n, w - k) \in Int
    <3>1. w - k \in 0..(Len(Tens) - 1)
      BY <1>2, TensFacts
    <3>2. DigitAt(n, w - k) \in 48..57
      BY <3>1, <1>1, DigitAtFacts
    <3> HIDE DEF n
    <3> QED BY <3>2
  <2> QED BY <2>1, <1>2
<1>6. CASE v < 0
  <2> DEFINE l == w + 1
             text == [k \in 1..l |-> IF k <= 1 THEN Minus
                                               ELSE DigitAt(n, l - k)]
  <2>1. DecimalText(1, n) = text
    <3>1. 1 + Width(n, Tens) = l
      BY <1>2
    <3> HIDE DEF l, n
    <3> QED BY <3>1 DEF DecimalText
  <2>2. text = <<Minus>> \o digits
    <3>1. Len(<<Minus>> \o digits) = l
          /\ DOMAIN (<<Minus>> \o digits) = 1..l
          /\ <<Minus>> \o digits \in Seq(Int)
      BY <1>2, <1>5 DEF Minus
    <3>2. ASSUME NEW k \in 1..l
          PROVE  text[k] = (<<Minus>> \o digits)[k]
      <4>1. CASE k = 1
        BY <4>1, <1>5 DEF Minus
      <4>2. CASE k # 1
        <5>1. k - 1 \in 1..w /\ w - (k - 1) = l - k
          BY <4>2, <1>2
        <5>2. (<<Minus>> \o digits)[k] = digits[k - 1]
          BY <5>1, <1>5, <1>2 DEF Minus
        <5>3. digits[k - 1] = DigitAt(n, l - k)
          BY <5>1
        <5>4. text[k] = DigitAt(n, l - k)
          BY <4>2
        <5> QED BY <5>2, <5>3, <5>4
      <4> QED BY <4>1, <4>2
    <3>3. text \in Seq(Int) /\ Len(text) = l
      <4>1. ASSUME NEW k \in 1..l
            PROVE  text[k] \in Int
        <5>1. (<<Minus>> \o digits)[k] \in Int
          BY <3>1, <1>2, ElementOfSeq
        <5> HIDE DEF text, digits
        <5> QED BY <5>1, <3>2
      <4>2. text = [k \in 1..l |-> text[k]] /\ l \in Nat
        BY <1>2
      <4> HIDE DEF text
      <4> QED BY <4>1, <4>2, IsASeq
    <3> HIDE DEF text, digits, l
    <3> QED BY <3>1, <3>2, <3>3, SeqEqual
  <2> QED BY <2>1, <2>2, <1>4, <1>6 DEF Negative
<1>7. CASE ~ (v < 0)
  <2>1. DecimalText(0, n) = digits
    <3>1. 0 + Width(n, Tens) = w
      BY <1>2
    <3>2. DecimalText(0, n) = [k \in 1..w |-> IF k <= 0 THEN Minus
                                              ELSE DigitAt(n, w - k)]
      <4> HIDE DEF n
      <4> QED BY <3>1 DEF DecimalText
    <3>3. \A k \in 1..w : ~ (k <= 0)
      BY <1>2
    <3> QED BY <3>2, <3>3
  <2> QED BY <2>1, <1>4, <1>7 DEF Negative
<1> QED BY <1>6, <1>7

\* The digits of a number in base 16, as the loop of %x puts them in front of
\* each other, and the text of a number that is not below 0.
HexAt(n, j) == HexDigit((n \div Sixteens[j + 1]) % 16)

HexSoFar(n, text, l) ==
    /\ Len(text) < Len(Sixteens)
    /\ l = n \div Sixteens[Len(text) + 1]
    /\ Len(text) = 0 \/ Sixteens[Len(text)] <= n
    /\ \A j \in 1..Len(text) : text[j] = HexAt(n, Len(text) - j)

HexText(n) == IF n = 0 THEN <<>> ELSE Numeral(n, 16, Sixteens)

\* What of NumberAssumption the proofs about base 16 need.
LEMMA SixteensFacts ==
  /\ Sixteens \in Seq(Nat) /\ IsPowers(Sixteens, 16)
  /\ Len(Sixteens) \in Nat /\ Len(Sixteens) > 1
  /\ Sixteens[1] = 1
  /\ \A k \in 1..Len(Sixteens) : Sixteens[k] \in Nat /\ Sixteens[k] > 0
  /\ \A k \in 1..(Len(Sixteens) - 1) : Sixteens[k + 1] = 16 * Sixteens[k]
  /\ \A j, k \in 1..Len(Sixteens) : j < k => Sixteens[j] < Sixteens[k]
  /\ MaxInt \in Nat /\ MaxInt < Sixteens[Len(Sixteens)]
<1>1. /\ Sixteens \in Seq(Nat) /\ IsPowers(Sixteens, 16) /\ MaxInt \in Nat
      /\ MaxInt < Sixteens[Len(Sixteens)]
  BY NumberAssumption
<1>2. 16 \in {10, 16}
  OBVIOUS
<1> QED BY <1>1, <1>2, PowerFacts

\* A digit is one of 0 to 9 and A to F.
LEMMA HexAtFacts ==
  ASSUME NEW n \in Nat, NEW j \in 0..(Len(Sixteens) - 1)
  PROVE  /\ HexAt(n, j) \in 48..57 \/ HexAt(n, j) \in 65..70
         /\ HexAt(n, j) = Digits[((n \div Sixteens[j + 1]) % 16) + 1]
<1>1. Sixteens[j + 1] \in Nat /\ Sixteens[j + 1] > 0
  BY SixteensFacts
<1> DEFINE d == (n \div Sixteens[j + 1]) % 16
<1>2. d \in 0..15
  <2>1. d \in Nat /\ d < 16
    BY <1>1, DivideAgain
  <2> QED BY <2>1
<1> HIDE DEF d
<1>3. Digits[d + 1] = HexDigit(d)
  BY <1>2, DigitFacts
<1>4. HexDigit(d) \in 48..57 \/ HexDigit(d) \in 65..70
  BY <1>2 DEF HexDigit
<1> QED BY <1>3, <1>4 DEF HexAt, d

\* The loop starts without digits.
LEMMA HexStart ==
  ASSUME NEW n \in Nat
  PROVE  HexSoFar(n, <<>>, n)
<1>1. n \div 1 = n
  OBVIOUS
<1> QED BY <1>1, SixteensFacts DEF HexSoFar

\* A turn puts the next digit in front, and the powers do not run out.
LEMMA HexStep ==
  ASSUME NEW n \in Nat, n <= MaxInt, NEW text \in Seq(Int), NEW l \in Int,
         HexSoFar(n, text, l), l # 0
  PROVE  /\ l \in Nat
         /\ HexDigit(Remainder(l, 16)) = HexAt(n, Len(text))
         /\ HexSoFar(n, <<HexDigit(Remainder(l, 16))>> \o text,
                     Quotient(l, 16))
<1> DEFINE m == Len(text)
           t == Sixteens[m + 1]
<1>1. /\ m \in Nat /\ m < Len(Sixteens) /\ l = n \div t
      /\ \A j \in 1..m : text[j] = HexAt(n, m - j)
  BY DEF HexSoFar
<1>2. m + 1 \in 1..Len(Sixteens)
  BY <1>1, SixteensFacts
<1>3. t \in Nat /\ t > 0
  BY <1>2, SixteensFacts
<1> HIDE DEF t
<1>4. l \in Nat /\ l \div 16 = n \div (16 * t) /\ t <= n
  BY <1>1, <1>3, DivideAgain
<1>5. m + 1 < Len(Sixteens)
  <2>1. CASE m + 1 = Len(Sixteens)
    <3>1. t = Sixteens[Len(Sixteens)]
      BY <2>1 DEF t
    <3> QED BY <3>1, <1>3, <1>4, SixteensFacts
  <2> QED BY <2>1, <1>2, SixteensFacts
<1>6. Sixteens[(m + 1) + 1] = 16 * t
  <2>1. m + 1 \in 1..(Len(Sixteens) - 1)
    BY <1>5, <1>2, SixteensFacts
  <2> QED BY <2>1, SixteensFacts DEF t
<1>7. HexDigit(Remainder(l, 16)) = HexAt(n, m)
  <2>1. Remainder(l, 16) = l % 16
    BY <1>4, Unsigned
  <2> QED BY <2>1, <1>1 DEF HexAt, t
<1> DEFINE c == HexDigit(Remainder(l, 16))
           new == <<c>> \o text
<1>8. c \in Int
  <2>1. m \in 0..(Len(Sixteens) - 1)
    BY <1>1, SixteensFacts
  <2>2. HexAt(n, m) \in 48..57 \/ HexAt(n, m) \in 65..70
    BY <2>1, HexAtFacts
  <2>3. HexAt(n, m) \in Int
    BY <2>2
  <2> QED BY <2>3, <1>7
<1> HIDE DEF c
<1>9. /\ Len(new) = m + 1 /\ new[1] = c
      /\ \A j \in 2..(m + 1) : new[j] = text[j - 1]
  BY <1>8, <1>1
<1>10. ASSUME NEW j \in 1..(m + 1)
       PROVE  new[j] = HexAt(n, (m + 1) - j)
  <2>1. CASE j = 1
    <3>1. (m + 1) - j = m
      BY <2>1, <1>1
    <3> QED BY <2>1, <3>1, <1>7, <1>9 DEF c
  <2>2. CASE j # 1
    <3>1. j \in 2..(m + 1) /\ j - 1 \in 1..m /\ m - (j - 1) = (m + 1) - j
      BY <2>2, <1>1
    <3>2. text[j - 1] = HexAt(n, m - (j - 1))
      BY <3>1, <1>1
    <3> QED BY <3>1, <3>2, <1>9
  <2> QED BY <2>1, <2>2
<1>11. Quotient(l, 16) = n \div Sixteens[(m + 1) + 1]
  BY <1>4, <1>6, Unsigned
<1>12. Sixteens[m + 1] <= n
  BY <1>4 DEF t
<1> HIDE DEF new, m
<1>13. HexSoFar(n, new, Quotient(l, 16))
  BY <1>1, <1>5, <1>9, <1>10, <1>11, <1>12 DEF HexSoFar
<1> QED BY <1>4, <1>7, <1>13 DEF new, c, m

\* When nothing is left the digits are all there.
LEMMA HexDone ==
  ASSUME NEW n \in Nat, NEW text \in Seq(Int), HexSoFar(n, text, 0)
  PROVE  text = HexText(n)
<1> DEFINE m == Len(text)
<1>1. /\ m \in Nat /\ m < Len(Sixteens) /\ 0 = n \div Sixteens[m + 1]
      /\ m = 0 \/ Sixteens[m] <= n
      /\ \A j \in 1..m : text[j] = HexAt(n, m - j)
  BY DEF HexSoFar
<1>2. m + 1 \in 1..Len(Sixteens)
  BY <1>1, SixteensFacts
<1>3. n < Sixteens[m + 1]
  BY <1>1, <1>2, SixteensFacts, DivideAgain
<1>4. CASE m = 0
  <2>1. n = 0
    BY <1>3, <1>4, SixteensFacts
  <2>2. text = <<>>
    BY <1>4
  <2> QED BY <2>1, <2>2 DEF HexText
<1>5. CASE m # 0
  <2>1. m \in 1..Len(Sixteens) /\ m \in 1..(Len(Sixteens) - 1)
    BY <1>1, <1>5, SixteensFacts
  <2>2. n # 0
    BY <2>1, <1>1, <1>5, SixteensFacts
  <2>3. Width(n, Sixteens) = m
    <3>1. 16 \in {10, 16} /\ IsWidth(n, Sixteens, m)
      BY <2>1, <1>1, <1>3, <1>5 DEF IsWidth
    <3> QED BY <3>1, SixteensFacts, WidthUnique
  <2>4. Numeral(n, 16, Sixteens)
          = [k \in 1..m |-> Digits[((n \div Sixteens[m + 1 - k]) % 16) + 1]]
    <3> HIDE DEF m
    <3> QED BY <2>3 DEF Numeral
  <2>5. ASSUME NEW k \in 1..m
        PROVE  Digits[((n \div Sixteens[m + 1 - k]) % 16) + 1] = text[k]
    <3>1. m - k \in 0..(Len(Sixteens) - 1) /\ (m - k) + 1 = m + 1 - k
      BY <1>1, SixteensFacts
    <3> QED BY <3>1, <1>1, HexAtFacts
  <2>6. text = [k \in 1..m |-> text[k]]
    OBVIOUS
  <2> HIDE DEF m
  <2> QED BY <2>2, <2>4, <2>5, <2>6 DEF HexText
<1> QED BY <1>4, <1>5

-----------------------------------------------------------------------------
(***************************************************************************)
(* Pieces.                                                                 *)
(***************************************************************************)
\* What is put out for a piece: its meaning, save that nothing is for a %x of
\* 0 and that -2147483648 has more digits.
Emitted(p) ==
    CASE p.kind = "d" -> DecimalText(Negative(p.arg), Magnitude(p.arg))
      [] p.kind = "x" -> HexText(p.arg)
      [] p.kind = "c" -> <<-1 - p.arg>>
      [] p.kind = "s" -> p.arg
      [] OTHER -> <<p.arg>>

\* The pieces for which that is so.
Regular(p) == p.kind # "stray" /\ (p.kind = "x" => p.arg >= 0)

\* The letters of the conversions.
LEMMA LetterFacts ==
  /\ DOMAIN Letter = {"d", "s", "x", "c"}
  /\ Letter["d"] = 100 /\ Letter["s"] = 115 /\ Letter["x"] = 120
  /\ Letter["c"] = 99
  /\ Letters = {100, 115, 120, 99}
<1>1. DOMAIN Letter = {"d", "s", "x", "c"}
  BY DEF Letter
<1>2. /\ Letter["d"] = 100 /\ Letter["s"] = 115 /\ Letter["x"] = 120
      /\ Letter["c"] = 99
  BY DEF Letter
<1>3. \A l : l \in Letters <=> \E kind \in DOMAIN Letter : l = Letter[kind]
  BY DEF Letters
<1>4. \A l : l \in Letters <=> l \in {100, 115, 120, 99}
  <2> HIDE DEF Letter
  <2> QED BY <1>1, <1>2, <1>3
<1> QED BY <1>1, <1>2, <1>4

\* What is known of a piece of a format.
LEMMA PieceFacts ==
  ASSUME NEW f \in Formats, NEW k \in 1..Len(f.pieces)
  PROVE  /\ IsPiece(f.pieces[k])
         /\ From(f, k) = f.pieces[k].from
         /\ From(f, k + 1) = f.pieces[k].from + Len(Source(f.pieces[k]))
         /\ From(f, k + 1) <= Len(f.text)
         /\ \A j \in 1..Len(Source(f.pieces[k])) :
              f.text[f.pieces[k].from + j] = Source(f.pieces[k])[j]
         /\ Nth(f, k) = f.pieces[k].nth
         /\ Nth(f, k + 1) = f.pieces[k].nth + Taken(f.pieces[k])
         /\ Nth(f, k + 1) <= Len(f.args)
         /\ f.pieces[k].kind \in DOMAIN Letter =>
              f.args[f.pieces[k].nth + 1] = f.pieces[k].arg
         /\ f.pieces[k].kind = "stray" =>
              /\ k < Len(f.pieces) /\ f.pieces[k + 1].kind = "char"
              /\ f.pieces[k + 1].arg \notin Letters
<1>1. k \in DOMAIN f.pieces
  BY PrintfAssumption
<1>2. From(f, k) = f.pieces[k].from /\ Nth(f, k) = f.pieces[k].nth
  BY <1>1 DEF From, Nth
<1>3. \A m \in DOMAIN f.pieces :
        /\ IsPiece(f.pieces[m])
        /\ From(f, m + 1) = f.pieces[m].from + Len(Source(f.pieces[m]))
        /\ From(f, m + 1) <= Len(f.text)
        /\ \A j \in 1..Len(Source(f.pieces[m])) :
             f.text[f.pieces[m].from + j] = Source(f.pieces[m])[j]
        /\ Nth(f, m + 1) = f.pieces[m].nth + Taken(f.pieces[m])
        /\ Nth(f, m + 1) <= Len(f.args)
        /\ f.pieces[m].kind \in DOMAIN Letter =>
             f.args[f.pieces[m].nth + 1] = f.pieces[m].arg
        /\ f.pieces[m].kind = "stray" =>
             /\ m < Len(f.pieces) /\ f.pieces[m + 1].kind = "char"
             /\ f.pieces[m + 1].arg \notin Letters
  BY PrintfAssumption, Zenon
<1> QED BY <1>1, <1>2, <1>3, Zenon

\* The ends of a format.
LEMMA FormatFacts ==
  ASSUME NEW f \in Formats
  PROVE  /\ f.text \in Seq(Nat) /\ Len(f.text) \in Nat
         /\ Len(f.args) \in Nat
         /\ Len(f.pieces) \in Nat /\ DOMAIN f.pieces = 1..Len(f.pieces)
         /\ From(f, 1) = 0 /\ Nth(f, 1) = 0
         /\ From(f, Len(f.pieces) + 1) = Len(f.text)
         /\ Nth(f, Len(f.pieces) + 1) = Len(f.args)
<1>1. /\ f.text \in Seq(Nat) /\ Len(f.args) \in Nat
      /\ Len(f.pieces) \in Nat /\ DOMAIN f.pieces = 1..Len(f.pieces)
      /\ From(f, 1) = 0 /\ Nth(f, 1) = 0
  BY PrintfAssumption
<1>2. Len(f.pieces) + 1 \notin DOMAIN f.pieces /\ Len(f.text) \in Nat
  BY <1>1
<1>3. /\ From(f, Len(f.pieces) + 1) = Len(f.text)
      /\ Nth(f, Len(f.pieces) + 1) = Len(f.args)
  BY <1>2 DEF From, Nth
<1> QED BY <1>1, <1>2, <1>3

\* Offsets and counts of every piece and of the end.
LEMMA Offsets ==
  ASSUME NEW f \in Formats, NEW k \in 1..(Len(f.pieces) + 1)
  PROVE  /\ From(f, k) \in Nat /\ From(f, k) <= Len(f.text)
         /\ Nth(f, k) \in Nat /\ Nth(f, k) <= Len(f.args)
<1>1. CASE k = Len(f.pieces) + 1
  BY <1>1, FormatFacts
<1>2. CASE k # Len(f.pieces) + 1
  <2>1. k \in 1..Len(f.pieces)
    BY <1>2, FormatFacts
  <2> DEFINE p == f.pieces[k]
  <2>2. /\ IsPiece(p) /\ From(f, k) = p.from /\ Nth(f, k) = p.nth
        /\ p.from + Len(Source(p)) <= Len(f.text)
        /\ p.nth + Taken(p) <= Len(f.args)
    <3>1. /\ IsPiece(f.pieces[k]) /\ From(f, k) = f.pieces[k].from
          /\ From(f, k + 1) = f.pieces[k].from + Len(Source(f.pieces[k]))
          /\ From(f, k + 1) <= Len(f.text)
          /\ Nth(f, k) = f.pieces[k].nth
          /\ Nth(f, k + 1) = f.pieces[k].nth + Taken(f.pieces[k])
          /\ Nth(f, k + 1) <= Len(f.args)
      BY <2>1, PieceFacts
    <3> QED BY <3>1
  <2>3. Len(Source(p)) \in {1, 2} /\ Taken(p) \in {0, 1}
    BY DEF Source, Taken
  <2>4. p.from \in Nat /\ p.nth \in Nat
    BY <2>2 DEF IsPiece
  <2> HIDE DEF p
  <2> QED BY <2>2, <2>3, <2>4, FormatFacts
<1> QED BY <1>1, <1>2

\* printf and fprintf find at a piece what it is written as.
LEMMA Reading ==
  ASSUME format \in Formats, call \in {"printf", "fprintf"},
         NEW k \in 1..Len(format.pieces), i = From(format, k)
  PROVE  LET p == format.pieces[k] IN
         /\ p.kind = "char" => /\ CharAt(i) = p.arg
                               /\ p.arg \in Nat \ {0, Percent}
                               /\ i + 1 = From(format, k + 1)
         /\ p.kind \in DOMAIN Letter => /\ CharAt(i) = Percent
                                        /\ CharAt(i + 1) = Letter[p.kind]
                                        /\ i + 2 = From(format, k + 1)
         /\ p.kind = "stray" => /\ CharAt(i) = Percent
                                /\ CharAt(i + 1) \notin Letters
                                /\ i + 1 = From(format, k + 1)
                                /\ k + 1 \in 1..Len(format.pieces)
                                /\ Taken(format.pieces[k + 1]) = 0
                                /\ i + 2 = From(format, k + 2)
         /\ p.kind \in {"char", "stray"} \cup DOMAIN Letter
<1> DEFINE p == format.pieces[k]
           q == format.pieces[k + 1]
           n == Len(Source(p))
<1>1. /\ IsPiece(p) /\ i = p.from
      /\ From(format, k + 1) = i + n /\ i + n <= Len(format.text)
      /\ \A j \in 1..n : format.text[i + j] = Source(p)[j]
      /\ p.kind = "stray" => /\ k < Len(format.pieces) /\ q.kind = "char"
                             /\ q.arg \notin Letters
  <2>1. i = p.from
    BY PieceFacts
  <2> QED BY <2>1, PieceFacts
<1>2. i \in Nat /\ Len(format.text) \in Nat
  BY <1>1, FormatFacts DEF IsPiece
<1>3. \A j \in Nat : j < Len(format.text) => CharAt(j) = format.text[j + 1]
  BY DEF CharAt, Text
<1>4. p.kind \in {"char", "stray"} \cup DOMAIN Letter
  BY <1>1 DEF IsPiece
<1>5. ASSUME p.kind = "char"
      PROVE  /\ CharAt(i) = p.arg /\ p.arg \in Nat \ {0, Percent}
             /\ i + 1 = From(format, k + 1)
  <2>1. Source(p) = <<p.arg>>
    BY <1>5 DEF Source
  <2>2. n = 1 /\ Source(p)[1] = p.arg
    BY <2>1
  <2>3. p.arg \in Nat \ {0, Percent}
    BY <1>1, <1>5 DEF IsPiece
  <2>4. CharAt(i) = format.text[i + 1]
    BY <1>1, <1>2, <1>3, <2>2
  <2> QED BY <1>1, <2>2, <2>3, <2>4
<1>6. ASSUME p.kind \in DOMAIN Letter
      PROVE  /\ CharAt(i) = Percent /\ CharAt(i + 1) = Letter[p.kind]
             /\ i + 2 = From(format, k + 1)
  <2>1. Source(p) = <<Percent, Letter[p.kind]>>
    BY <1>6, LetterFacts DEF Source
  <2>2. n = 2 /\ Source(p)[1] = Percent /\ Source(p)[2] = Letter[p.kind]
    BY <2>1
  <2>3. CharAt(i) = format.text[i + 1] /\ CharAt(i + 1) = format.text[i + 2]
    <3>1. i + 2 <= Len(format.text)
      BY <1>1, <2>2
    <3>2. i + 1 \in Nat /\ (i + 1) + 1 = i + 2
      BY <1>2
    <3> QED BY <3>1, <3>2, <1>2, <1>3
  <2> QED BY <1>1, <2>2, <2>3
<1>7. ASSUME p.kind = "stray"
      PROVE  /\ CharAt(i) = Percent /\ CharAt(i + 1) \notin Letters
             /\ i + 1 = From(format, k + 1)
             /\ k + 1 \in 1..Len(format.pieces) /\ Taken(q) = 0
             /\ i + 2 = From(format, k + 2)
  <2>1. Source(p) = <<Percent>>
    BY <1>7 DEF Source
  <2>2. n = 1 /\ Source(p)[1] = Percent
    BY <2>1
  <2>3. /\ k + 1 \in 1..Len(format.pieces) /\ q.kind = "char"
        /\ q.arg \notin Letters
    BY <1>1, <1>7, FormatFacts
  <2>4. /\ From(format, k + 1) = q.from
        /\ From(format, (k + 1) + 1) = q.from + Len(Source(q))
        /\ From(format, (k + 1) + 1) <= Len(format.text)
        /\ \A j \in 1..Len(Source(q)) :
             format.text[q.from + j] = Source(q)[j]
    BY <2>3, PieceFacts
  <2>5. Len(Source(q)) = 1 /\ Source(q)[1] = q.arg /\ Taken(q) = 0
    BY <2>3, LetterFacts DEF Source, Taken
  <2>6. q.from = i + 1 /\ (k + 1) + 1 = k + 2
    BY <2>2, <2>4, <1>1
  <2>7. CharAt(i) = format.text[i + 1] /\ CharAt(i + 1) = format.text[i + 2]
    <3>1. i + 2 <= Len(format.text)
      BY <2>4, <2>5, <2>6, <1>2
    <3>2. i + 1 \in Nat /\ (i + 1) + 1 = i + 2
      BY <1>2
    <3> QED BY <3>1, <3>2, <1>2, <1>3
  <2>8. format.text[i + 2] = q.arg
    BY <2>4, <2>5, <2>6, <1>2
  <2> QED BY <1>1, <2>2, <2>3, <2>4, <2>5, <2>6, <2>7, <2>8, <1>2
<1> QED BY <1>4, <1>5, <1>6, <1>7

-----------------------------------------------------------------------------
(***************************************************************************)
(* Characters.                                                             *)
(***************************************************************************)
\* What neither ends a format nor starts a conversion, and what the screen
\* shows.
Clean == Int \ {0, Percent}
Shown == {c \in Int : c \in Glyphs \/ c = NewLine \/ c < 0}

AllIn(text, set) == \A j \in DOMAIN text : text[j] \in set

\* Membership in the font, code by code.
LEMMA GlyphFacts ==
  /\ \A c \in 48..57 : c \in Glyphs
  /\ \A c \in 65..70 : c \in Glyphs
  /\ Minus \in Glyphs
  /\ 0 \notin Glyphs /\ Percent \notin Glyphs
<1> USE DEF Glyphs, HomeCapitals, LowCapitals, HighCapitals, DigitRow,
        Brackets, Punctuation, HighLetters, HomeLetters, LowLetters
<1>1. \A c \in 48..57 : c \in Glyphs
  OBVIOUS
<1>2. \A c \in 65..70 : c \in Glyphs
  OBVIOUS
<1>3. Minus \in Glyphs
  BY DEF Minus
<1>4. 0 \notin Glyphs /\ Percent \notin Glyphs
  BY DEF Percent
<1> QED BY <1>1, <1>2, <1>3, <1>4

\* The characters of the kernel's texts are in the font.
LEMMA KernelGlyphs ==
  \A c \in KernelCharacters : c \in Nat /\ (c \in Glyphs \/ c = NewLine)
<1> USE DEF Glyphs, HomeCapitals, LowCapitals, HighCapitals, DigitRow,
        Brackets, Punctuation, HighLetters, HomeLetters, LowLetters
<1>1. \A c \in NameCharacters : c \in Nat /\ c \in Glyphs
  <2>1. \A c \in 97..122 : c # 113 => c \in Glyphs
    OBVIOUS
  <2>2. \A c \in {32, Minus, 55, 56} \cup 65..73 : c \in Glyphs
    BY DEF Minus
  <2>3. \A c \in 77..80 \cup {82, 83, 84, 86} : c \in Glyphs
    OBVIOUS
  <2>4. NameCharacters \subseteq Nat
    BY DEF NameCharacters, Minus
  <2> HIDE DEF Glyphs
  <2> QED BY <2>1, <2>2, <2>3, <2>4 DEF NameCharacters
<1>2. \A c \in FrameCharacters : c \in Nat /\ (c \in Glyphs \/ c = NewLine)
  BY DEF FrameCharacters, NewLine
<1>3. \A c \in PowerOffCharacters : c \in Nat /\ (c \in Glyphs \/ c = NewLine)
  BY DEF PowerOffCharacters, NewLine
<1> HIDE DEF Glyphs
<1> QED BY <1>1, <1>2, <1>3 DEF KernelCharacters

\* Digits, the minus sign and the characters of the kernel's texts are shown,
\* and none of them starts a conversion.
LEMMA ShownFacts ==
  /\ Clean \subseteq Int
  /\ Shown \subseteq Clean
  /\ \A c \in 48..57 : c \in Clean /\ c \in Shown
  /\ \A c \in 65..70 : c \in Clean /\ c \in Shown
  /\ Minus \in Clean /\ Minus \in Shown
  /\ \A c \in KernelCharacters : c \in Shown
<1>1. Shown \subseteq Clean
  BY GlyphFacts DEF Shown, Clean, NewLine, Percent
<1>2. \A c \in KernelCharacters : c \in Shown
  BY KernelGlyphs DEF Shown
<1>3. Minus \in Shown
  BY GlyphFacts DEF Shown, Minus
<1>4. (\A c \in 48..57 : c \in Shown) /\ (\A c \in 65..70 : c \in Shown)
  BY GlyphFacts DEF Shown
<1> QED BY <1>1, <1>2, <1>3, <1>4 DEF Clean

\* Two texts of a set's characters make one.
LEMMA AllInConcat ==
  ASSUME NEW set, NEW a \in Seq(Int), NEW b \in Seq(Int),
         AllIn(a, set), AllIn(b, set)
  PROVE  AllIn(a \o b, set)
<1>1. /\ DOMAIN (a \o b) = 1..(Len(a) + Len(b))
      /\ \A j \in 1..(Len(a) + Len(b)) :
           (a \o b)[j] = IF j <= Len(a) THEN a[j] ELSE b[j - Len(a)]
  BY ConcatProperties, LenProperties
<1>2. DOMAIN a = 1..Len(a) /\ DOMAIN b = 1..Len(b)
  OBVIOUS
<1>3. ASSUME NEW j \in 1..(Len(a) + Len(b))
      PROVE  (a \o b)[j] \in set
  <2>1. CASE j <= Len(a)
    BY <2>1, <1>1, <1>2 DEF AllIn
  <2>2. CASE ~ (j <= Len(a))
    <3>1. j - Len(a) \in 1..Len(b)
      BY <2>2
    <3> QED BY <2>2, <3>1, <1>1, <1>2 DEF AllIn
  <2> QED BY <2>1, <2>2
<1> QED BY <1>1, <1>3 DEF AllIn

\* A decimal's characters.
LEMMA DecimalCharacters ==
  ASSUME NEW negative \in {0, 1}, NEW v \in Nat, NEW w, IsWidth(v, Tens, w)
  PROVE  /\ DecimalText(negative, v) \in Seq(Int)
         /\ AllIn(DecimalText(negative, v), Shown)
<1>1. Width(v, Tens) = w /\ w \in 1..(Len(Tens) - 1)
  <2>1. 10 \in {10, 16}
    OBVIOUS
  <2> QED BY <2>1, TensFacts, WidthUnique DEF IsWidth
<1> DEFINE l == negative + w
           text == [k \in 1..l |-> IF k <= negative THEN Minus
                                   ELSE DigitAt(v, l - k)]
<1>2. DecimalText(negative, v) = text
  BY <1>1 DEF DecimalText
<1>3. ASSUME NEW k \in 1..l
      PROVE  text[k] \in Int /\ text[k] \in Shown
  <2>1. CASE k <= negative
    BY <2>1, ShownFacts DEF Minus
  <2>2. CASE ~ (k <= negative)
    <3>1. l - k \in 0..(Len(Tens) - 1)
      BY <2>2, <1>1, TensFacts
    <3>2. DigitAt(v, l - k) \in 48..57
      BY <3>1, DigitAtFacts
    <3>3. text[k] = DigitAt(v, l - k)
      BY <2>2
    <3> HIDE DEF text
    <3> QED BY <3>2, <3>3, ShownFacts
  <2> QED BY <2>1, <2>2
<1>4. l \in Nat /\ DOMAIN text = 1..l
  BY <1>1
<1>5. text \in Seq(Int)
  <2>1. text = [k \in 1..l |-> text[k]]
    OBVIOUS
  <2> HIDE DEF text, l
  <2> QED BY <2>1, <1>3, <1>4, IsASeq
<1> HIDE DEF text, l
<1> QED BY <1>2, <1>3, <1>4, <1>5 DEF AllIn

\* That the loops of a conversion have come to their end for a piece.
Known(p) ==
    /\ p.kind = "d" => \E w : IsWidth(Magnitude(p.arg), Tens, w)
    /\ p.kind = "x" => \E text \in Seq(Int) : HexSoFar(p.arg, text, 0)

\* What is put out for a piece is a text, without percent signs; of the
\* pieces printf does justice to it is the meaning, and can be read.
LEMMA EmittedFacts ==
  ASSUME NEW p, IsPiece(p), Regular(p), Known(p)
  PROVE  /\ Emitted(p) \in Seq(Int)
         /\ AllIn(Emitted(p), Clean)
         /\ Sound(p) => Emitted(p) = Meaning(p)
         /\ Sound(p) /\ OfKernel(p) => AllIn(Emitted(p), Shown)
<1>1. CASE p.kind = "char"
  <2>1. /\ p.arg \in Nat \ {0, Percent} /\ Emitted(p) = <<p.arg>>
        /\ Meaning(p) = <<p.arg>>
        /\ OfKernel(p) => p.arg \in KernelCharacters
    BY <1>1 DEF IsPiece, Emitted, Meaning, OfKernel
  <2> QED BY <2>1, ShownFacts DEF AllIn, Clean
<1>2. CASE p.kind = "s"
  <2>1. /\ p.arg \in Seq(Nat \ {0, Percent}) /\ Emitted(p) = p.arg
        /\ Meaning(p) = p.arg
        /\ OfKernel(p) => \A j \in DOMAIN p.arg : p.arg[j] \in KernelCharacters
    BY <1>2 DEF IsPiece, Emitted, Meaning, OfKernel
  <2>2. p.arg \in Seq(Int) /\ \A j \in DOMAIN p.arg : p.arg[j] \in Clean
    BY <2>1 DEF Clean
  <2> QED BY <2>1, <2>2, ShownFacts DEF AllIn
<1>3. CASE p.kind = "c"
  <2>1. /\ p.arg \in Nat /\ Emitted(p) = <<-1 - p.arg>>
        /\ Meaning(p) = <<-1 - p.arg>>
    BY <1>3 DEF IsPiece, Emitted, Meaning
  <2>2. -1 - p.arg \in Int /\ -1 - p.arg \in Shown /\ -1 - p.arg \in Clean
    BY <2>1 DEF Shown, Clean, Percent
  <2> QED BY <2>1, <2>2 DEF AllIn
<1>4. CASE p.kind = "d"
  <2>1. /\ p.arg \in Int32
        /\ Emitted(p) = DecimalText(Negative(p.arg), Magnitude(p.arg))
    BY <1>4 DEF IsPiece, Emitted
  <2>2. PICK w : IsWidth(Magnitude(p.arg), Tens, w)
    BY <1>4 DEF Known
  <2>3. Magnitude(p.arg) \in Nat /\ Negative(p.arg) \in {0, 1}
    <3>1. Magnitude(p.arg) \in 0..(QwordRange - 1) /\ QwordRange \in Nat
      BY <2>1, MagnitudeFacts, NumberAssumption
    <3> QED BY <3>1 DEF Negative
  <2>4. Emitted(p) \in Seq(Int) /\ AllIn(Emitted(p), Shown)
    BY <2>1, <2>2, <2>3, DecimalCharacters
  <2>5. AllIn(Emitted(p), Clean)
    BY <2>4, ShownFacts DEF AllIn
  <2>6. Sound(p) => Emitted(p) = Meaning(p)
    BY <1>4, <2>1, <2>2, DecimalMeaning DEF Sound
  <2> QED BY <2>4, <2>5, <2>6
<1>5. CASE p.kind = "x"
  <2>1. p.arg \in Nat /\ Emitted(p) = HexText(p.arg)
    BY <1>5, NumberAssumption DEF IsPiece, Emitted, Regular, Int32
  <2>2. PICK text \in Seq(Int) : HexSoFar(p.arg, text, 0)
    BY <1>5 DEF Known
  <2>3. text = HexText(p.arg)
    BY <2>1, <2>2, HexDone
  <2>4. ASSUME NEW j \in DOMAIN text
        PROVE  text[j] \in Shown
    <3>1. /\ j \in 1..Len(text) /\ text[j] = HexAt(p.arg, Len(text) - j)
          /\ Len(text) < Len(Sixteens)
      BY <2>2 DEF HexSoFar
    <3>2. Len(text) - j \in 0..(Len(Sixteens) - 1)
      BY <3>1, SixteensFacts
    <3>3. \/ HexAt(p.arg, Len(text) - j) \in 48..57
          \/ HexAt(p.arg, Len(text) - j) \in 65..70
      BY <3>2, <2>1, HexAtFacts
    <3> QED BY <3>1, <3>3, ShownFacts
  <2>5. AllIn(Emitted(p), Shown) /\ AllIn(Emitted(p), Clean)
    BY <2>1, <2>3, <2>4, ShownFacts DEF AllIn
  <2>6. Sound(p) => Emitted(p) = Meaning(p)
    BY <1>5, <2>1 DEF Sound, Meaning, HexText
  <2> QED BY <2>1, <2>2, <2>3, <2>5, <2>6
<1>6. p.kind \in {"char", "d", "s", "x", "c"}
  BY LetterFacts DEF IsPiece, Regular
<1> QED BY <1>1, <1>2, <1>3, <1>4, <1>5, <1>6

-----------------------------------------------------------------------------
(***************************************************************************)
(* The inductive invariant.                                                *)
(***************************************************************************)
\* TypeOK without its bounds on what a format's end allows.
Types ==
    /\ format \in Formats
    /\ call \in {"printf", "fprintf", "kpanic", "done"}
    /\ turn \in {"scan", "size", "digit", "hex"}
    /\ i \in Nat /\ used \in Nat /\ found \in BOOLEAN
    /\ isNegative \in {0, 1} /\ value \in 0..(QwordRange - 1)
    /\ left \in Int /\ size \in Nat /\ index \in Nat
    /\ base16 \in Seq(Int) /\ printed \in Seq(Int)
    /\ buffer \in Seq(Int) /\ message \in Seq(Int)
    /\ integerToStringOutput \in
         [0..(NumberSize - 1) -> {0, Minus} \cup 48..57]

\* The loops of IntegerToString: how far the counting is, and which digits
\* are in their places.
Counting ==
    turn = "size" =>
      /\ size + 1 < Len(Tens) /\ index = 0
      /\ left = value \div Tens[size + 1]
      /\ size = 0 \/ Tens[size + 1] <= value
      /\ isNegative = 1 => integerToStringOutput[0] = Minus

Writing ==
    turn = "digit" =>
      /\ IsWidth(value, Tens, size + 1) /\ index <= size
      /\ left = value \div Tens[index + 1]
      /\ isNegative = 1 => integerToStringOutput[0] = Minus
      /\ \A j \in 0..(index - 1) :
           integerToStringOutput[isNegative + size - j] = DigitAt(value, j)

\* printf or fprintf is at a piece, or at the end, and what is being converted
\* is the piece's argument.
Here(k) ==
    /\ i = From(format, k)
    /\ turn = "scan" => used = Nth(format, k)
    /\ turn # "scan" => k <= Len(format.pieces) /\ used = Nth(format, k + 1)
    /\ turn \in {"size", "digit"} =>
         /\ format.pieces[k].kind = "d"
         /\ isNegative = Negative(format.pieces[k].arg)
         /\ value = Magnitude(format.pieces[k].arg)
    /\ turn = "hex" =>
         /\ format.pieces[k].kind = "x"
         /\ format.pieces[k].arg >= 0 =>
              HexSoFar(format.pieces[k].arg, base16, left)

Places == 1..(Len(format.pieces) + 1)

\* The texts of the format's beginnings, up to the n-th piece.
Trace(t, n) ==
    /\ t \in [1..n -> Seq(Int)] /\ t[1] = <<>>
    /\ \A j \in 1..(n - 1) :
         /\ t[j + 1] = t[j] \o Emitted(format.pieces[j])
         /\ Sound(format.pieces[j]) =>
              Emitted(format.pieces[j]) = Meaning(format.pieces[j])

AllRegular == \A k \in DOMAIN format.pieces : Regular(format.pieces[k])
AllOfKernel == \A k \in DOMAIN format.pieces : OfKernel(format.pieces[k])

\* What is printed is the text up to a piece, and what is composed is too when
\* all is printed; if all pieces are regular.
Begun(k) == AllRegular => \E t : Trace(t, k) /\ printed = t[k]

Again(k) ==
    AllRegular => \E t : /\ Trace(t, Len(format.pieces) + 1)
                         /\ printed = t[Len(format.pieces) + 1]
                         /\ buffer = t[k]

\* printf prints the pieces up to where it is; fprintf, after it, puts the
\* same texts together.
Printing ==
    call = "printf" =>
      /\ buffer = <<>> /\ message = <<>>
      /\ \E k \in Places : Here(k) /\ Begun(k)

Composing ==
    call = "fprintf" =>
      /\ message = <<>> /\ ~ HasColour
      /\ \E k \in Places : Here(k) /\ Again(k)

\* kpanic copies what was put together, and there is nothing to convert.
Panicking ==
    call = "kpanic" =>
      /\ ~ HasColour
      /\ AllRegular => /\ turn = "scan" /\ buffer = printed
                       /\ i <= Len(buffer) /\ message = SubSeq(buffer, 1, i)

Finished ==
    /\ call \in {"kpanic", "done"} => Begun(Len(format.pieces) + 1)
    /\ call = "done" /\ HasColour => message = <<>>
    /\ call = "done" /\ ~ HasColour /\ AllRegular => message = printed

\* No text that is put together looks like a format, and what is made of the
\* kernel's own texts can be read.
Readable ==
    /\ AllRegular => AllIn(printed, Clean) /\ AllIn(buffer, Clean)
    /\ AllSound /\ AllOfKernel =>
         AllIn(printed, Shown) /\ AllIn(buffer, Shown)

Inv ==
    /\ Types /\ Counting /\ Writing
    /\ Printing /\ Composing /\ Panicking /\ Finished /\ Readable

-----------------------------------------------------------------------------
(***************************************************************************)
(* IntegerToString.                                                        *)
(***************************************************************************)
\* The registers as they are typed, in the terms of the arithmetic.
LEMMA NumberTypes ==
  ASSUME Types
  PROVE  /\ value \in Nat /\ value < Tens[Len(Tens)]
         /\ isNegative \in {0, 1}
<1>1. value \in 0..(QwordRange - 1) /\ QwordRange \in Nat
      /\ QwordRange <= Tens[Len(Tens)] /\ Tens[Len(Tens)] \in Nat
  BY TensFacts DEF Types
<1> QED BY <1>1 DEF Types

\* The next digit to be written is there to be counted.
LEMMA Counted ==
  ASSUME Types, Counting, turn = "size"
  PROVE  /\ size + 1 \in 1..(Len(Tens) - 1)
         /\ Tens[size + 1] \in Nat /\ Tens[size + 1] > 0
         /\ Tens[(size + 1) + 1] = 10 * Tens[size + 1]
         /\ left \in Nat
         /\ left \div 10 = value \div Tens[(size + 1) + 1]
         /\ (left \div 10 = 0) <=> (value < Tens[(size + 1) + 1])
<1>1. /\ size \in Nat /\ size + 1 < Len(Tens)
      /\ left = value \div Tens[size + 1]
  BY DEF Types, Counting
<1>2. size + 1 \in 1..(Len(Tens) - 1) /\ size + 1 \in 1..Len(Tens)
  BY <1>1, TensFacts
<1> DEFINE t == Tens[size + 1]
           u == Tens[(size + 1) + 1]
<1>3. t \in Nat /\ t > 0 /\ u = 10 * t
  BY <1>2, TensFacts
<1>4. u \in Nat /\ u > 0
  <2> HIDE DEF t, u
  <2> QED BY <1>3
<1>5. /\ value \in Nat /\ left \in Nat /\ left \div 10 = value \div (10 * t)
  <2>1. value \in Nat /\ left = value \div t
    BY <1>1, NumberTypes
  <2> HIDE DEF t
  <2> QED BY <2>1, <1>3, DivideAgain
<1>6. (value \div u = 0) <=> (value < u)
  <2> HIDE DEF u
  <2> QED BY <1>4, <1>5, DivideAgain
<1> QED BY <1>2, <1>3, <1>5, <1>6

\* Counting goes on while there are digits, and ends with the width.
LEMMA CountStep ==
  ASSUME Types, Counting, CountDigit
  PROVE  Counting' /\ Writing'
<1>1. /\ turn = "size" /\ index = 0
      /\ size = 0 \/ Tens[size + 1] <= value
      /\ isNegative = 1 => integerToStringOutput[0] = Minus
  BY DEF CountDigit, Counting
<1>2. UNCHANGED <<isNegative, value, index, integerToStringOutput>>
  BY DEF CountDigit
<1>3. size \in Nat /\ value \in Nat /\ value < Tens[Len(Tens)]
  BY NumberTypes DEF Types
<1> DEFINE u == Tens[(size + 1) + 1]
<1>4. /\ size + 1 \in 1..(Len(Tens) - 1) /\ left \in Nat
      /\ left \div 10 = value \div u
      /\ (left \div 10 = 0) <=> (value < u)
  BY <1>1, Counted
<1>5. left \div 10 \in Nat
  <2>1. \A q \in Nat : q \div 10 \in Nat
    OBVIOUS
  <2> QED BY <2>1, <1>4
<1>6. u \in Nat
  BY <1>1, <1>4, TensFacts
<1>7. CASE left \div 10 > 0
  <2>1. left' = left \div 10 /\ size' = size + 1 /\ turn' = "size"
    BY <1>1, <1>7 DEF CountDigit
  <2>2. u <= value
    <3> HIDE DEF u
    <3> QED BY <1>3, <1>4, <1>5, <1>6, <1>7
  <2>3. (size + 1) + 1 < Len(Tens)
    <3>1. CASE (size + 1) + 1 = Len(Tens)
      <4>1. u = Tens[Len(Tens)]
        BY <3>1
      <4> QED BY <4>1, <2>2, <1>3, <1>6
    <3> QED BY <3>1, <1>4, TensFacts
  <2>4. Counting'
    BY <2>1, <2>2, <2>3, <1>1, <1>2, <1>4 DEF Counting
  <2>5. Writing'
    BY <2>1 DEF Writing
  <2> QED BY <2>4, <2>5
<1>8. CASE ~ (left \div 10 > 0)
  <2>1. left' = value /\ turn' = "digit" /\ size' = size
    BY <1>1, <1>8 DEF CountDigit
  <2>2. value < u
    BY <1>4, <1>5, <1>8
  <2>3. IsWidth(value, Tens, size + 1)
    BY <1>1, <1>3, <1>4, <2>2 DEF IsWidth
  <2>4. value = value \div Tens[0 + 1]
    <3>1. Tens[0 + 1] = 1
      BY TensFacts
    <3>2. \A q \in Nat : q = q \div 1
      OBVIOUS
    <3> QED BY <3>1, <3>2, <1>3
  <2>5. Writing'
    BY <2>1, <2>3, <2>4, <1>1, <1>2, <1>3 DEF Writing
  <2>6. Counting'
    BY <2>1 DEF Counting
  <2> QED BY <2>5, <2>6
<1> QED BY <1>7, <1>8

\* A turn of the writing loop: which power is next, and where the digit goes.
LEMMA Written ==
  ASSUME Types, Writing, turn = "digit"
  PROVE  /\ index + 1 \in 1..(Len(Tens) - 1)
         /\ left \in Nat /\ (left % 10) + 48 = DigitAt(value, index)
         /\ left \div 10 = value \div Tens[(index + 1) + 1]
         /\ left \div 10 > 0 => index + 1 <= size
         /\ left \div 10 = 0 => index = size
         /\ isNegative + size + 1 \in 0..(NumberSize - 1)
         /\ left \div 10 \in Nat
<1>1. /\ index \in Nat /\ size \in Nat /\ index <= size
      /\ left = value \div Tens[index + 1]
      /\ size + 1 \in 1..(Len(Tens) - 1)
      /\ size + 1 = 1 \/ Tens[size + 1] <= value
      /\ value < Tens[(size + 1) + 1]
      /\ value \in Nat
  BY NumberTypes DEF Types, Writing, IsWidth
<1>2. index + 1 \in 1..(Len(Tens) - 1) /\ index + 1 \in 1..Len(Tens)
      /\ (index + 1) + 1 \in 1..Len(Tens)
      /\ isNegative + size + 1 \in 0..(NumberSize - 1)
  <2>1. Len(Tens) \in Nat /\ Len(Tens) < NumberSize /\ NumberSize \in Nat
    BY TensFacts
  <2>2. isNegative \in {0, 1}
    BY NumberTypes
  <2> QED BY <1>1, <2>1, <2>2
<1> DEFINE t == Tens[index + 1]
           u == Tens[(index + 1) + 1]
<1>3. t \in Nat /\ t > 0 /\ u = 10 * t /\ u \in Nat /\ u > 0
  <2>1. t \in Nat /\ t > 0 /\ u = 10 * t
    BY <1>2, TensFacts
  <2> HIDE DEF t, u
  <2> QED BY <2>1
<1>4. left \in Nat /\ left \div 10 = value \div u
  <2>1. left = value \div t /\ value \in Nat
    BY <1>1
  <2>2. left \in Nat /\ left \div 10 = value \div (10 * t)
    <3>1. t \in Nat /\ t > 0 /\ 10 \in {10, 16}
      BY <1>3
    <3> HIDE DEF t, u
    <3>2. value \div t \in Nat /\ (value \div t) \div 10 = value \div (10 * t)
      BY <2>1, <3>1, DivideAgain
    <3> QED BY <2>1, <3>2
  <2> QED BY <2>2, <1>3
<1>5. ((value \div u = 0) <=> (value < u)) /\ value \div u \in Nat
  <2> HIDE DEF t, u
  <2> QED BY <1>1, <1>3, DivideAgain
<1>6. (left % 10) + 48 = DigitAt(value, index)
  BY <1>1 DEF DigitAt
<1>7. ASSUME left \div 10 > 0
      PROVE  index + 1 <= size
  <2>1. u <= value
    <3> HIDE DEF t, u
    <3> QED BY <1>7, <1>1, <1>3, <1>4, <1>5
  <2>2. CASE index = size
    <3>1. u = Tens[(size + 1) + 1]
      BY <2>2
    <3> QED BY <3>1, <2>1, <1>1, <1>3
  <2> QED BY <2>2, <1>1
<1>8. ASSUME left \div 10 = 0
      PROVE  index = size
  <2>1. value < u
    BY <1>8, <1>4, <1>5
  <2>2. CASE index < size
    <3>1. u <= Tens[size + 1] /\ Tens[size + 1] \in Nat
      <4>1. size + 1 \in 1..Len(Tens)
        BY <1>1, TensFacts
      <4>2. CASE (index + 1) + 1 = size + 1
        <5>1. u = Tens[size + 1]
          BY <4>2
        <5> QED BY <5>1, <1>3
      <4>3. CASE (index + 1) + 1 < size + 1
        <5>1. u < Tens[size + 1]
          BY <4>1, <4>3, <1>2, TensFacts
        <5> QED BY <5>1, <4>1, <1>3, TensFacts
      <4> QED BY <4>2, <4>3, <2>2, <1>1
    <3>2. Tens[size + 1] <= value
      BY <2>2, <1>1
    <3> HIDE DEF t, u
    <3> QED BY <3>1, <3>2, <2>1, <1>1, <1>3
  <2> QED BY <2>2, <1>1
<1> QED BY <1>2, <1>4, <1>5, <1>6, <1>7, <1>8

\* Writing goes on with the next digit.
LEMMA WriteStep ==
  ASSUME Types, Writing, WriteDigit
  PROVE  Counting' /\ Writing'
<1>1. /\ turn = "digit" /\ left \div 10 > 0 /\ turn' = "digit"
      /\ integerToStringOutput' = WithDigit
      /\ left' = left \div 10 /\ index' = index + 1
      /\ UNCHANGED <<isNegative, value, size>>
  BY DEF WriteDigit
<1>2. /\ index \in Nat /\ size \in Nat /\ isNegative \in {0, 1}
      /\ IsWidth(value, Tens, size + 1)
      /\ isNegative = 1 => integerToStringOutput[0] = Minus
      /\ \A j \in 0..(index - 1) :
           integerToStringOutput[isNegative + size - j] = DigitAt(value, j)
      /\ DOMAIN integerToStringOutput = 0..(NumberSize - 1)
  BY <1>1 DEF Types, Writing
<1>3. /\ (left % 10) + 48 = DigitAt(value, index)
      /\ left \div 10 = value \div Tens[(index + 1) + 1]
      /\ index + 1 <= size
      /\ isNegative + size + 1 \in 0..(NumberSize - 1)
  BY <1>1, Written
<1> DEFINE a == integerToStringOutput
           at == isNegative + size - index
           b == [a EXCEPT ![at] = DigitAt(value, index)]
<1>4. integerToStringOutput' = b
  BY <1>1, <1>3 DEF WithDigit
<1>5. at \in 0..(NumberSize - 1) /\ at > isNegative
  BY <1>2, <1>3, TensFacts
<1>6. ASSUME NEW j \in 0..((index + 1) - 1)
      PROVE  b[isNegative + size - j] = DigitAt(value, j)
  <2>1. CASE j = index
    BY <2>1, <1>2, <1>5
  <2>2. CASE j # index
    <3>1. j \in 0..(index - 1) /\ isNegative + size - j # at
      BY <2>2, <1>2
    <3>2. b[isNegative + size - j] = a[isNegative + size - j]
      BY <3>1, <1>2
    <3> QED BY <3>1, <3>2, <1>2
  <2> QED BY <2>1, <2>2
<1>7. isNegative = 1 => b[0] = Minus
  BY <1>2, <1>5
<1> HIDE DEF a, at, b
<1>8. Writing'
  BY <1>1, <1>2, <1>3, <1>4, <1>6, <1>7 DEF Writing
<1>9. Counting'
  BY <1>1 DEF Counting
<1> QED BY <1>8, <1>9

\* The last digit and the end are written: the array holds the number.
LEMMA LastStep ==
  ASSUME Types, Writing, WriteLast
  PROVE  /\ IsWidth(value, Tens, size + 1)
         /\ StringOf(integerToStringOutput') = DecimalText(isNegative, value)
<1>1. /\ turn = "digit" /\ left \div 10 = 0
      /\ integerToStringOutput' =
           [WithDigit EXCEPT ![End(isNegative, size)] = 0]
  BY DEF WriteLast
<1>2. /\ size \in Nat /\ isNegative \in {0, 1} /\ value \in Nat
      /\ IsWidth(value, Tens, size + 1)
      /\ isNegative = 1 => integerToStringOutput[0] = Minus
      /\ \A j \in 0..(index - 1) :
           integerToStringOutput[isNegative + size - j] = DigitAt(value, j)
      /\ integerToStringOutput \in [0..(NumberSize - 1) -> Int]
      /\ NumberSize \in Nat
  <2>1. integerToStringOutput \in
          [0..(NumberSize - 1) -> {0, Minus} \cup 48..57]
    BY DEF Types
  <2>2. {0, Minus} \cup 48..57 \subseteq Int
    BY DEF Minus
  <2>3. integerToStringOutput \in [0..(NumberSize - 1) -> Int]
    BY <2>1, <2>2
  <2> QED BY <1>1, <2>3, NumberTypes, TensFacts DEF Types, Writing
<1>3. /\ (left % 10) + 48 = DigitAt(value, index) /\ index = size
      /\ isNegative + size + 1 \in 0..(NumberSize - 1)
      /\ DigitAt(value, index) \in Int
  <2>1. /\ (left % 10) + 48 = DigitAt(value, index) /\ index = size
        /\ isNegative + size + 1 \in 0..(NumberSize - 1) /\ left \in Nat
    BY <1>1, Written
  <2>2. \A q \in Nat : (q % 10) + 48 \in Int
    OBVIOUS
  <2> QED BY <2>1, <2>2
<1> DEFINE a == integerToStringOutput
           l == isNegative + size + 1
           b == [a EXCEPT ![isNegative + size - index] = DigitAt(value, index)]
           c == [b EXCEPT ![l] = 0]
<1>4. integerToStringOutput' = c
  BY <1>1, <1>3 DEF WithDigit, End
<1>5. /\ isNegative + size - index = isNegative
      /\ isNegative \in 0..(NumberSize - 1)
      /\ isNegative < l
  BY <1>2, <1>3, TensFacts
<1>6. c \in [0..(NumberSize - 1) -> Int]
  BY <1>2, <1>3
<1>7. c[l] = 0
  BY <1>2, <1>3
<1>8. ASSUME NEW j \in 0..size
      PROVE  c[isNegative + size - j] = DigitAt(value, j)
  <2>1. /\ isNegative + size - j # l
        /\ isNegative + size - j \in 0..(NumberSize - 1)
    BY <1>2, <1>3
  <2>2. c[isNegative + size - j] = b[isNegative + size - j]
    BY <2>1, <1>2
  <2>3. CASE j = size
    BY <2>1, <2>2, <2>3, <1>2, <1>3, <1>5
  <2>4. CASE j # size
    <3>1. j \in 0..(index - 1)
          /\ isNegative + size - j # isNegative + size - index
      BY <2>4, <1>2, <1>3
    <3>2. b[isNegative + size - j] = a[isNegative + size - j]
      BY <3>1, <2>1, <1>2
    <3> QED BY <2>2, <3>1, <3>2, <1>2
  <2> QED BY <2>3, <2>4
<1>9. isNegative = 1 => c[0] = Minus
  <2>1. ASSUME isNegative = 1
        PROVE  c[0] = Minus
    <3>1. 0 # l /\ 0 # isNegative + size - index /\ 0 \in 0..(NumberSize - 1)
      BY <2>1, <1>2, <1>3, <1>5
    <3>2. c[0] = a[0]
      BY <3>1, <1>2
    <3> QED BY <3>2, <2>1, <1>2
  <2> QED BY <2>1
<1>10. StringOf(c) = DecimalText(isNegative, value)
  <2> HIDE DEF c
  <2> QED BY <1>2, <1>6, <1>7, <1>8, <1>9, DigitsRead
<1> QED BY <1>2, <1>4, <1>10

-----------------------------------------------------------------------------
(***************************************************************************)
(* A turn of printf's and fprintf's loops.                                 *)
(***************************************************************************)
\* At the end of a format there is nothing to read.
LEMMA ReadingEnd ==
  ASSUME format \in Formats, call \in {"printf", "fprintf"},
         i = From(format, Len(format.pieces) + 1)
  PROVE  CharAt(i) = 0
BY FormatFacts DEF CharAt, Text

\* Where a conversion is read, a piece of its kind is, and its argument is
\* the next one.
LEMMA Handing ==
  ASSUME Types, call \in {"printf", "fprintf"}, NEW k \in Places, Here(k),
         NEW letter \in DOMAIN Letter, At(letter)
  PROVE  LET p == format.pieces[k] IN
         /\ k \in 1..Len(format.pieces) /\ k + 1 \in Places
         /\ p.kind = letter /\ IsPiece(p)
         /\ Handed = {p.arg} /\ format.args[used + 1] = p.arg
         /\ i + 2 = From(format, k + 1) /\ used + 1 = Nth(format, k + 1)
<1> DEFINE p == format.pieces[k]
<1>1. /\ format \in Formats /\ turn = "scan" /\ i = From(format, k)
      /\ used = Nth(format, k) /\ Len(format.pieces) \in Nat
      /\ CharAt(i) = Percent /\ CharAt(i + 1) = Letter[letter]
  BY FormatFacts DEF Types, Here, At
<1>2. k \in 1..Len(format.pieces) /\ k + 1 \in Places
  <2>1. k # Len(format.pieces) + 1
    BY <1>1, ReadingEnd DEF Percent
  <2> QED BY <1>1, <2>1 DEF Places
<1>3. p.kind = letter /\ i + 2 = From(format, k + 1)
  <2>1. Letter[letter] \in Letters
    BY DEF Letters
  <2>2. p.kind \in DOMAIN Letter
    <3>1. p.kind # "char"
      <4>1. p.kind = "char" => CharAt(i) # Percent
        BY <1>1, <1>2, Reading
      <4> QED BY <4>1, <1>1
    <3>2. p.kind # "stray"
      <4>1. p.kind = "stray" => CharAt(i + 1) \notin Letters
        BY <1>1, <1>2, Reading
      <4> QED BY <4>1, <2>1, <1>1
    <3>3. p.kind \in {"char", "stray"} \cup DOMAIN Letter
      BY <1>1, <1>2, Reading
    <3> QED BY <3>1, <3>2, <3>3
  <2>3. CharAt(i + 1) = Letter[p.kind] /\ i + 2 = From(format, k + 1)
    BY <1>1, <1>2, <2>2, Reading
  <2>4. \A a, b \in DOMAIN Letter : Letter[a] = Letter[b] => a = b
    BY LetterFacts
  <2> QED BY <2>2, <2>3, <2>4, <1>1
<1>4. /\ IsPiece(p) /\ Nth(format, k) = p.nth
      /\ Nth(format, k + 1) = p.nth + Taken(p)
      /\ p.kind \in DOMAIN Letter => format.args[p.nth + 1] = p.arg
  BY <1>1, <1>2, PieceFacts
<1>5. Taken(p) = 1
  BY <1>3 DEF Taken
<1>6. Handed = {format.args[used + 1]}
  BY DEF Handed
<1> QED BY <1>1, <1>2, <1>3, <1>4, <1>5, <1>6

\* Where something else is read, a piece of that kind is.
LEMMA Scanning ==
  ASSUME Types, call \in {"printf", "fprintf"}, NEW k \in Places, Here(k),
         turn = "scan"
  PROVE  LET p == format.pieces[k] IN
         /\ CharAt(i) = 0 => k = Len(format.pieces) + 1
         /\ CharAt(i) \notin {0, Percent} =>
              /\ k \in 1..Len(format.pieces) /\ k + 1 \in Places
              /\ p.kind = "char" /\ IsPiece(p) /\ CharAt(i) = p.arg
              /\ i + 1 = From(format, k + 1) /\ used = Nth(format, k + 1)
         /\ CharAt(i) = Percent /\ CharAt(i + 1) \notin Letters =>
              /\ k \in 1..Len(format.pieces) /\ p.kind = "stray"
              /\ k + 1 \in Places /\ k + 2 \in Places
              /\ i + 1 = From(format, k + 1) /\ used = Nth(format, k + 1)
              /\ i + 2 = From(format, k + 2) /\ used = Nth(format, k + 2)
<1> DEFINE p == format.pieces[k]
           N == Len(format.pieces)
<1>1. /\ format \in Formats /\ i = From(format, k) /\ used = Nth(format, k)
      /\ N \in Nat /\ k \in 1..(N + 1)
  BY FormatFacts DEF Types, Here, Places
<1>2. CASE k = N + 1
  <2>1. CharAt(i) = 0
    BY <1>1, <1>2, ReadingEnd
  <2> QED BY <2>1, <1>2 DEF Percent
<1>3. CASE k # N + 1
  <2>1. k \in 1..N /\ k + 1 \in Places
    BY <1>1, <1>3 DEF Places
  <2>2. /\ IsPiece(p) /\ used = p.nth
        /\ Nth(format, k + 1) = p.nth + Taken(p)
    BY <1>1, <2>1, PieceFacts
  <2>3. p.nth \in Nat
    BY <2>2 DEF IsPiece
  <2>4. p.kind \in {"char", "stray"} \cup DOMAIN Letter
    BY <2>2 DEF IsPiece
  <2>5. CASE p.kind = "char"
    <3>1. /\ CharAt(i) = p.arg /\ p.arg \in Nat \ {0, Percent}
          /\ i + 1 = From(format, k + 1)
      BY <1>1, <2>1, <2>5, Reading
    <3>2. Taken(p) = 0
      BY <2>5, LetterFacts DEF Taken
    <3> QED BY <2>1, <2>2, <2>3, <2>5, <3>1, <3>2
  <2>6. CASE p.kind = "stray"
    <3>1. /\ CharAt(i) = Percent /\ i + 1 = From(format, k + 1)
          /\ k + 1 \in 1..N /\ Taken(format.pieces[k + 1]) = 0
          /\ i + 2 = From(format, k + 2)
      BY <1>1, <2>1, <2>6, Reading
    <3>2. Taken(p) = 0
      BY <2>6, LetterFacts DEF Taken
    <3>3. /\ Nth(format, k + 1) = format.pieces[k + 1].nth
          /\ Nth(format, (k + 1) + 1)
               = format.pieces[k + 1].nth + Taken(format.pieces[k + 1])
      BY <1>1, <3>1, PieceFacts
    <3>4. used = Nth(format, k + 1) /\ format.pieces[k + 1].nth = used
      BY <2>2, <2>3, <3>2, <3>3
    <3>5. (k + 1) + 1 = k + 2 /\ k + 2 \in Places
      BY <1>1, <3>1 DEF Places
    <3>6. used = Nth(format, k + 2)
      BY <3>1, <3>3, <3>4, <3>5, <2>3, <2>2
    <3> QED BY <2>1, <2>6, <3>1, <3>4, <3>5, <3>6 DEF Percent
  <2>7. CASE p.kind \in DOMAIN Letter
    <3>1. CharAt(i) = Percent /\ CharAt(i + 1) = Letter[p.kind]
      BY <1>1, <2>1, <2>7, Reading
    <3>2. CharAt(i + 1) \in Letters
      BY <3>1, <2>7 DEF Letters
    <3> QED BY <3>1, <3>2 DEF Percent
  <2> QED BY <2>4, <2>5, <2>6, <2>7
<1> QED BY <1>2, <1>3

\* An int that is taken is an int, whoever passed it.
LEMMA HandedInts ==
  ASSUME Inv, call # "done", NEW letter \in {"d", "x"}, At(letter)
  PROVE  Handed \subseteq Int32
<1>1. CASE call = "kpanic"
  BY <1>1 DEF Handed
<1>2. CASE call \in {"printf", "fprintf"}
  <2>1. PICK k \in Places : Here(k)
    BY <1>2 DEF Inv, Printing, Composing
  <2>2. letter \in DOMAIN Letter /\ Types
    BY LetterFacts DEF Inv
  <2>3. /\ format.pieces[k].kind = letter /\ IsPiece(format.pieces[k])
        /\ Handed = {format.pieces[k].arg}
    BY <1>2, <2>1, <2>2, Handing
  <2> QED BY <2>3 DEF IsPiece
<1> QED BY <1>1, <1>2 DEF Inv, Types

\* A conversion of the piece at hand.
LEMMA InDecimal ==
  ASSUME Types, call \in {"printf", "fprintf"}, NEW k \in Places, Here(k),
         turn # "scan"
  PROVE  LET p == format.pieces[k] IN
         /\ k \in 1..Len(format.pieces) /\ k + 1 \in Places
         /\ IsPiece(p) /\ p.kind \in {"d", "x"}
         /\ turn \in {"size", "digit"} => p.kind = "d"
         /\ turn = "hex" => p.kind = "x"
         /\ i + 2 = From(format, k + 1) /\ used = Nth(format, k + 1)
<1> DEFINE p == format.pieces[k]
<1>1. /\ format \in Formats /\ k <= Len(format.pieces)
      /\ Len(format.pieces) \in Nat /\ i = From(format, k)
      /\ used = Nth(format, k + 1)
      /\ turn \in {"size", "digit"} => p.kind = "d"
      /\ turn = "hex" => p.kind = "x"
      /\ p.kind \in {"d", "x"}
  BY FormatFacts DEF Types, Here
<1>2. k \in 1..Len(format.pieces) /\ k + 1 \in Places
  BY <1>1 DEF Places
<1>3. IsPiece(p)
  BY <1>1, <1>2, PieceFacts
<1>4. i + 2 = From(format, k + 1)
  <2>1. p.kind \in DOMAIN Letter
    BY <1>1, LetterFacts
  <2> QED BY <1>1, <1>2, <2>1, Reading
<1> QED BY <1>1, <1>2, <1>3, <1>4

\* What a turn of printf's or fprintf's loop does at a piece: it works at a
\* number, it puts out what is due and goes on, or the piece is an odd one.
Works(k) ==
    /\ k \in 1..Len(format.pieces)
    /\ UNCHANGED <<call, i, texts>>

Puts(k) ==
    /\ k \in 1..Len(format.pieces) /\ k + 1 \in Places
    /\ i' = From(format, k + 1) /\ UNCHANGED call
    /\ IsPiece(format.pieces[k])
    /\ Regular(format.pieces[k]) /\ Known(format.pieces[k])
    /\ Output(Emitted(format.pieces[k]))

Odd(k) ==
    /\ k \in 1..Len(format.pieces) /\ ~ Regular(format.pieces[k])
    /\ UNCHANGED call
    /\ \E text : Output(text)

\* A %d begins: IntegerToString's registers are of the piece's argument.
LEMMA DecimalPiece ==
  ASSUME Types, call \in {"printf", "fprintf"}, NEW k \in Places, Here(k),
         Decimal
  PROVE  Works(k) /\ Here(k)'
<1> DEFINE p == format.pieces[k]
<1>1. At("d") /\ turn = "scan" /\ "d" \in DOMAIN Letter
  BY LetterFacts DEF Decimal, At
<1>2. /\ k \in 1..Len(format.pieces) /\ p.kind = "d" /\ Handed = {p.arg}
      /\ used + 1 = Nth(format, k + 1)
  BY <1>1, Handing
<1>3. /\ isNegative' = Negative(p.arg) /\ value' = Magnitude(p.arg)
      /\ turn' = "size" /\ used' = used + 1
      /\ UNCHANGED <<format, call, i, texts>>
  BY <1>2 DEF Decimal, Take, Negative, Magnitude, texts
<1>4. i = From(format, k) /\ k <= Len(format.pieces)
  BY <1>2 DEF Here
<1> QED BY <1>2, <1>3, <1>4 DEF Works, Here

\* IntegerToString works at the piece.
LEMMA NumberPiece ==
  ASSUME Types, call \in {"printf", "fprintf"}, NEW k \in Places, Here(k),
         CountDigit \/ WriteDigit
  PROVE  Works(k) /\ Here(k)'
<1> DEFINE p == format.pieces[k]
<1>1. /\ turn \in {"size", "digit"} /\ turn' \in {"size", "digit"}
      /\ UNCHANGED <<format, call, i, used, isNegative, value, texts>>
  BY DEF CountDigit, WriteDigit
<1>2. k \in 1..Len(format.pieces) /\ p.kind = "d"
  BY <1>1, InDecimal
<1>3. /\ i = From(format, k) /\ used = Nth(format, k + 1)
      /\ k <= Len(format.pieces)
      /\ isNegative = Negative(p.arg) /\ value = Magnitude(p.arg)
  BY <1>1 DEF Here
<1> QED BY <1>1, <1>2, <1>3 DEF Works, Here

\* The number is put out, and the next piece is at hand.
LEMMA LastPiece ==
  ASSUME Types, Writing, call \in {"printf", "fprintf"}, NEW k \in Places,
         Here(k), WriteLast
  PROVE  Puts(k) /\ Here(k + 1)'
<1> DEFINE p == format.pieces[k]
<1>1. /\ turn = "digit" /\ turn' = "scan" /\ i' = i + 2
      /\ Output(StringOf(integerToStringOutput'))
      /\ UNCHANGED <<format, call, used>>
  BY DEF WriteLast, Converted
<1>2. /\ k \in 1..Len(format.pieces) /\ k + 1 \in Places
      /\ IsPiece(p) /\ p.kind = "d"
      /\ i + 2 = From(format, k + 1) /\ used = Nth(format, k + 1)
  BY <1>1, InDecimal
<1>3. isNegative = Negative(p.arg) /\ value = Magnitude(p.arg)
  BY <1>1 DEF Here
<1>4. /\ IsWidth(value, Tens, size + 1)
      /\ StringOf(integerToStringOutput') = DecimalText(isNegative, value)
  BY LastStep
<1>5. Emitted(p) = DecimalText(isNegative, value)
  BY <1>2, <1>3 DEF Emitted
<1>6. Regular(p) /\ Known(p)
  BY <1>2, <1>3, <1>4 DEF Regular, Known
<1>7. Output(Emitted(p))
  BY <1>1, <1>4, <1>5
<1>8. Here(k + 1)'
  BY <1>1, <1>2 DEF Here
<1> QED BY <1>1, <1>2, <1>6, <1>7, <1>8 DEF Puts

\* A %x begins.
LEMMA HexPiece ==
  ASSUME Types, call \in {"printf", "fprintf"}, NEW k \in Places, Here(k),
         Hexadecimal
  PROVE  Works(k) /\ Here(k)'
<1> DEFINE p == format.pieces[k]
<1>1. At("x") /\ turn = "scan" /\ "x" \in DOMAIN Letter
  BY LetterFacts DEF Hexadecimal, At
<1>2. /\ k \in 1..Len(format.pieces) /\ p.kind = "x" /\ Handed = {p.arg}
      /\ IsPiece(p) /\ used + 1 = Nth(format, k + 1)
  BY <1>1, Handing
<1>3. /\ left' = p.arg /\ base16' = <<>> /\ turn' = "hex" /\ used' = used + 1
      /\ UNCHANGED <<format, call, i, texts>>
  BY <1>2 DEF Hexadecimal, Take, texts
<1>4. i = From(format, k) /\ k <= Len(format.pieces)
  BY <1>2 DEF Here
<1>5. p.arg >= 0 => HexSoFar(p.arg, <<>>, p.arg)
  <2>1. p.arg \in Int
    BY <1>2, NumberAssumption DEF IsPiece, Int32
  <2> QED BY <2>1, HexStart
<1> QED BY <1>2, <1>3, <1>4, <1>5 DEF Works, Here

\* The loop of %x works at the piece.
LEMMA DividePiece ==
  ASSUME Types, call \in {"printf", "fprintf"}, NEW k \in Places, Here(k),
         DivideBy16
  PROVE  Works(k) /\ Here(k)'
<1> DEFINE p == format.pieces[k]
<1>1. /\ turn = "hex" /\ turn' = "hex" /\ left # 0
      /\ base16' = <<HexDigit(Remainder(left, 16))>> \o base16
      /\ left' = Quotient(left, 16)
      /\ UNCHANGED <<format, call, i, used, texts>>
  BY DEF DivideBy16, texts
<1>2. k \in 1..Len(format.pieces) /\ p.kind = "x" /\ IsPiece(p)
  BY <1>1, InDecimal
<1>3. /\ i = From(format, k) /\ used = Nth(format, k + 1)
      /\ k <= Len(format.pieces)
      /\ p.arg >= 0 => HexSoFar(p.arg, base16, left)
  BY <1>1 DEF Here
<1>4. p.arg >= 0 => HexSoFar(p.arg, base16', left')
  <2>1. p.arg \in Int /\ p.arg <= MaxInt
    BY <1>2, NumberAssumption DEF IsPiece, Int32
  <2>2. base16 \in Seq(Int) /\ left \in Int
    BY DEF Types
  <2>3. ASSUME p.arg >= 0
        PROVE  HexSoFar(p.arg, <<HexDigit(Remainder(left, 16))>> \o base16,
                        Quotient(left, 16))
    <3>1. p.arg \in Nat /\ HexSoFar(p.arg, base16, left) /\ left # 0
      BY <2>1, <2>3, <1>1, <1>3
    <3> HIDE DEF p
    <3> QED BY <2>1, <2>2, <3>1, HexStep
  <2> QED BY <1>1, <2>3
<1> QED BY <1>1, <1>2, <1>3, <1>4 DEF Works, Here

\* The digits are put out; a number below 0 makes an odd piece.
LEMMA PrintBase16Piece ==
  ASSUME Types, call \in {"printf", "fprintf"}, NEW k \in Places, Here(k),
         PrintBase16
  PROVE  (Puts(k) \/ Odd(k)) /\ k + 1 \in Places /\ Here(k + 1)'
<1> DEFINE p == format.pieces[k]
<1>1. /\ turn = "hex" /\ turn' = "scan" /\ i' = i + 2 /\ left = 0
      /\ Output(base16)
      /\ UNCHANGED <<format, call, used>>
  BY DEF PrintBase16, Converted
<1>2. /\ k \in 1..Len(format.pieces) /\ k + 1 \in Places
      /\ IsPiece(p) /\ p.kind = "x"
      /\ i + 2 = From(format, k + 1) /\ used = Nth(format, k + 1)
  BY <1>1, InDecimal
<1>3. Here(k + 1)'
  BY <1>1, <1>2 DEF Here
<1>4. CASE p.arg >= 0
  <2>1. HexSoFar(p.arg, base16, 0) /\ base16 \in Seq(Int)
    BY <1>1, <1>4 DEF Here, Types
  <2>2. p.arg \in Nat
    BY <1>2, <1>4, NumberAssumption DEF IsPiece, Int32
  <2>3. base16 = HexText(p.arg)
    BY <2>1, <2>2, HexDone
  <2>4. Emitted(p) = base16
    BY <1>2, <2>3 DEF Emitted
  <2>5. Regular(p) /\ Known(p)
    BY <1>2, <1>4, <2>1 DEF Regular, Known
  <2> QED BY <1>1, <1>2, <1>3, <2>4, <2>5 DEF Puts
<1>5. CASE ~ (p.arg >= 0)
  <2>1. ~ Regular(p)
    BY <1>2, <1>5 DEF Regular
  <2> QED BY <1>1, <1>2, <1>3, <2>1 DEF Odd
<1> QED BY <1>4, <1>5

\* The string that is passed is the piece's.
LEMMA StringPiece ==
  ASSUME Types, call \in {"printf", "fprintf"}, NEW k \in Places, Here(k),
         String
  PROVE  Puts(k) /\ Here(k + 1)'
<1> DEFINE p == format.pieces[k]
<1>1. At("s") /\ "s" \in DOMAIN Letter
  BY LetterFacts DEF String
<1>2. /\ k \in 1..Len(format.pieces) /\ k + 1 \in Places /\ p.kind = "s"
      /\ IsPiece(p) /\ format.args[used + 1] = p.arg
      /\ i + 2 = From(format, k + 1) /\ used + 1 = Nth(format, k + 1)
  BY <1>1, Handing
<1>3. /\ turn' = "scan" /\ i' = i + 2 /\ used' = used + 1
      /\ Output(format.args[used + 1]) /\ UNCHANGED <<format, call>>
  BY DEF String, Take, Converted
<1>4. Regular(p) /\ Known(p) /\ Emitted(p) = p.arg
  BY <1>2 DEF Regular, Known, Emitted
<1>5. Here(k + 1)'
  BY <1>2, <1>3 DEF Here
<1>6. Output(Emitted(p))
  BY <1>2, <1>3, <1>4
<1> QED BY <1>2, <1>3, <1>4, <1>5, <1>6 DEF Puts

\* The colour that is passed is the piece's.
LEMMA ColourPiece ==
  ASSUME Types, call \in {"printf", "fprintf"}, NEW k \in Places, Here(k),
         Colour
  PROVE  Puts(k) /\ Here(k + 1)' /\ HasColour
<1> DEFINE p == format.pieces[k]
<1>1. At("c") /\ "c" \in DOMAIN Letter
  BY LetterFacts DEF Colour
<1>2. /\ k \in 1..Len(format.pieces) /\ k + 1 \in Places /\ p.kind = "c"
      /\ IsPiece(p) /\ Handed = {p.arg}
      /\ i + 2 = From(format, k + 1) /\ used + 1 = Nth(format, k + 1)
  BY <1>1, Handing
<1>3. /\ turn' = "scan" /\ i' = i + 2 /\ used' = used + 1
      /\ Output(<<-1 - p.arg>>) /\ UNCHANGED <<format, call>>
  BY <1>2 DEF Colour, Take, Converted
<1>4. Regular(p) /\ Known(p) /\ Emitted(p) = <<-1 - p.arg>>
  BY <1>2 DEF Regular, Known, Emitted
<1>5. Here(k + 1)'
  BY <1>2, <1>3 DEF Here
<1>6. Output(Emitted(p))
  BY <1>3, <1>4
<1>7. HasColour
  BY <1>2, FormatFacts DEF HasColour, Types
<1> QED BY <1>2, <1>3, <1>4, <1>5, <1>6, <1>7 DEF Puts

\* A character is put out as it is.
LEMMA PlainPiece ==
  ASSUME Types, call \in {"printf", "fprintf"}, NEW k \in Places, Here(k),
         Plain
  PROVE  Puts(k) /\ Here(k + 1)'
<1> DEFINE p == format.pieces[k]
<1>1. /\ turn = "scan" /\ CharAt(i) \notin {0, Percent} /\ i' = i + 1
      /\ Output(<<CharAt(i)>>) /\ UNCHANGED <<format, call, turn, used>>
  BY DEF Plain
<1>2. /\ k \in 1..Len(format.pieces) /\ k + 1 \in Places /\ p.kind = "char"
      /\ IsPiece(p) /\ CharAt(i) = p.arg
      /\ i + 1 = From(format, k + 1) /\ used = Nth(format, k + 1)
  BY <1>1, Scanning
<1>3. Regular(p) /\ Known(p) /\ Emitted(p) = <<p.arg>>
  BY <1>2 DEF Regular, Known, Emitted
<1>4. Here(k + 1)'
  BY <1>1, <1>2 DEF Here
<1>5. Output(Emitted(p))
  BY <1>1, <1>2, <1>3
<1> QED BY <1>1, <1>2, <1>3, <1>4, <1>5 DEF Puts

\* After a stray sign, or after it and the next character, a piece starts.
LEMMA StrayPiece ==
  ASSUME Types, call \in {"printf", "fprintf"}, NEW k \in Places, Here(k),
         Stray
  PROVE  Odd(k) /\ \E l \in Places : Here(l)'
<1> DEFINE p == format.pieces[k]
<1>1. /\ turn = "scan" /\ CharAt(i) = Percent /\ CharAt(i + 1) \notin Letters
      /\ UNCHANGED <<format, call, turn, used>>
      /\ i' \in {i + 1, i + 2} /\ \E text : Output(text)
  BY DEF Stray
<1>2. /\ k \in 1..Len(format.pieces) /\ p.kind = "stray"
      /\ k + 1 \in Places /\ k + 2 \in Places
      /\ i + 1 = From(format, k + 1) /\ used = Nth(format, k + 1)
      /\ i + 2 = From(format, k + 2) /\ used = Nth(format, k + 2)
  BY <1>1, Scanning
<1>3. Odd(k)
  BY <1>1, <1>2 DEF Odd, Regular
<1>4. CASE i' = i + 1
  <2>1. Here(k + 1)'
    BY <1>1, <1>2, <1>4 DEF Here
  <2> QED BY <1>2, <1>3, <2>1
<1>5. CASE i' = i + 2
  <2>1. Here(k + 2)'
    BY <1>1, <1>2, <1>5 DEF Here
  <2> QED BY <1>2, <1>3, <2>1
<1> QED BY <1>1, <1>4, <1>5

\* All of it: a turn that is not the function's end.
LEMMA PieceStep ==
  ASSUME Types, Writing, call \in {"printf", "fprintf"}, NEW k \in Places,
         Here(k), PrintfNext
  PROVE  \/ Works(k) /\ Here(k)'
         \/ Puts(k) /\ Here(k + 1)'
         \/ Odd(k) /\ \E l \in Places : Here(l)'
         \/ k = Len(format.pieces) + 1 /\ Return
<1>1. CASE Decimal
  BY <1>1, DecimalPiece
<1>2. CASE CountDigit \/ WriteDigit
  BY <1>2, NumberPiece
<1>3. CASE WriteLast
  BY <1>3, LastPiece
<1>4. CASE Hexadecimal
  BY <1>4, HexPiece
<1>5. CASE DivideBy16
  BY <1>5, DividePiece
<1>6. CASE PrintBase16
  BY <1>6, PrintBase16Piece
<1>7. CASE String
  BY <1>7, StringPiece
<1>8. CASE Colour
  BY <1>8, ColourPiece
<1>9. CASE Stray
  BY <1>9, StrayPiece
<1>10. CASE Plain
  BY <1>10, PlainPiece
<1>11. CASE Return
  <2>1. turn = "scan" /\ CharAt(i) = 0
    BY <1>11 DEF Return
  <2> QED BY <1>11, <2>1, Scanning
<1> QED BY <1>1, <1>2, <1>3, <1>4, <1>5, <1>6, <1>7, <1>8, <1>9, <1>10, <1>11
        DEF PrintfNext

-----------------------------------------------------------------------------
(***************************************************************************)
(* The invariant, conjunct by conjunct.                                    *)
(***************************************************************************)
\* What is put out is a text, and the other functions' texts stay.
LEMMA OutputTypes ==
  ASSUME Types, NEW text \in Seq(Int), Output(text)
  PROVE  printed' \in Seq(Int) /\ buffer' \in Seq(Int) /\ message' \in Seq(Int)
<1>1. /\ printed \in Seq(Int) /\ buffer \in Seq(Int) /\ message \in Seq(Int)
      /\ printed' = IF call = "printf" THEN printed \o text ELSE printed
      /\ buffer' = IF call = "fprintf" THEN buffer \o text ELSE buffer
      /\ message' = IF call = "kpanic" THEN message \o text ELSE message
  BY DEF Types, Output, Copied
<1>2. \A s \in Seq(Int) : s \o text \in Seq(Int)
  BY ConcatProperties
<1> QED BY <1>1, <1>2

\* A character is an int.
LEMMA CharTypes ==
  ASSUME Types, NEW k \in Nat
  PROVE  CharAt(k) \in Int
<1>1. Text \in Seq(Int)
  <2>1. format.text \in Seq(Nat)
    BY FormatFacts DEF Types
  <2>2. format.text \in Seq(Int)
    BY <2>1
  <2> QED BY <2>2 DEF Text, Types
<1>2. k < Len(Text) => k + 1 \in 1..Len(Text)
  BY <1>1
<1> QED BY <1>1, <1>2, ElementOfSeq DEF CharAt

\* IntegerToString's registers are filled from an int.
LEMMA DecimalTypes ==
  ASSUME Inv, call # "done", Decimal
  PROVE  /\ isNegative' \in {0, 1} /\ value' \in 0..(QwordRange - 1)
         /\ value' \in Nat /\ left' = value'
         /\ integerToStringOutput' \in
              [0..(NumberSize - 1) -> {0, Minus} \cup 48..57]
         /\ isNegative' = 1 => integerToStringOutput'[0] = Minus
<1>1. Handed \subseteq Int32
  BY HandedInts DEF Decimal
<1>2. PICK v \in Handed :
        /\ isNegative' = IF v < 0 THEN 1 ELSE 0
        /\ value' = Qword(IF v < 0 THEN WrapInt(-v) ELSE v)
        /\ integerToStringOutput' =
             IF v < 0 THEN [integerToStringOutput EXCEPT ![0] = Minus]
             ELSE integerToStringOutput
  BY DEF Decimal
<1>3. value' = Magnitude(v) /\ v \in Int32
  BY <1>1, <1>2 DEF Magnitude
<1>4. Magnitude(v) \in 0..(QwordRange - 1) /\ QwordRange \in Nat
  BY <1>3, MagnitudeFacts, NumberAssumption
<1>5. /\ integerToStringOutput \in
           [0..(NumberSize - 1) -> {0, Minus} \cup 48..57]
      /\ 0 \in 0..(NumberSize - 1)
  BY TensFacts DEF Inv, Types
<1>6. left' = value'
  BY DEF Decimal
<1>7. integerToStringOutput' \in
        [0..(NumberSize - 1) -> {0, Minus} \cup 48..57]
  BY <1>2, <1>5
<1>8. isNegative' = 1 => integerToStringOutput'[0] = Minus
  BY <1>2, <1>5
<1>9. Magnitude(v) \in Nat
  BY <1>4
<1> QED BY <1>2, <1>3, <1>4, <1>6, <1>7, <1>8, <1>9

\* What is written into the array is a digit.
LEMMA DigitTypes ==
  ASSUME Types
  PROVE  WithDigit \in [0..(NumberSize - 1) -> {0, Minus} \cup 48..57]
<1>1. /\ integerToStringOutput \in
           [0..(NumberSize - 1) -> {0, Minus} \cup 48..57]
      /\ left \in Int
  BY DEF Types
<1>2. \A q \in Int : (q % 10) + 48 \in 48..57
  OBVIOUS
<1>3. (left % 10) + 48 \in {0, Minus} \cup 48..57
  BY <1>1, <1>2
<1> DEFINE c == (left % 10) + 48
<1> HIDE DEF c
<1>4. c \in {0, Minus} \cup 48..57
  BY <1>3 DEF c
<1>5. WithDigit = [integerToStringOutput EXCEPT
                     ![isNegative + size - index] = c]
  BY DEF WithDigit, c
<1> QED BY <1>1, <1>4, <1>5

\* A step keeps the variables' types.
LEMMA TypesStep ==
  ASSUME Inv, PrintfNext
  PROVE  Types'
<1>0. Types /\ call # "done" /\ call \in {"printf", "fprintf", "kpanic"}
  BY DEF Inv, PrintfNext, Types
<1>1. CASE Decimal
  <2>1. /\ isNegative' \in {0, 1} /\ value' \in 0..(QwordRange - 1)
        /\ value' \in Nat /\ left' = value'
        /\ integerToStringOutput' \in
             [0..(NumberSize - 1) -> {0, Minus} \cup 48..57]
    BY <1>0, <1>1, DecimalTypes
  <2>2. /\ UNCHANGED <<format, call, i, base16, printed, buffer, message>>
        /\ turn' = "size" /\ size' = 0 /\ index' = 0 /\ used' = used + 1
        /\ found' = TRUE
    BY <1>1 DEF Decimal, Take, texts
  <2> QED BY <1>0, <2>1, <2>2 DEF Types
<1>2. CASE CountDigit
  <2>1. /\ UNCHANGED <<format, call, i, used, found, isNegative, value, index,
                       base16, printed, buffer, message,
                       integerToStringOutput>>
        /\ turn' \in {"size", "digit"} /\ size' \in {size, size + 1}
        /\ left' \in {left \div 10, value} /\ turn = "size"
    BY <1>2 DEF CountDigit, texts
  <2>2. left \div 10 \in Int /\ value \in Nat
    <3>1. \A q \in Int : q \div 10 \in Int
      OBVIOUS
    <3> QED BY <3>1, <1>0, NumberTypes DEF Types
  <2> QED BY <1>0, <2>1, <2>2 DEF Types
<1>3. CASE WriteDigit
  <2>1. /\ UNCHANGED <<format, call, turn, i, used, found, isNegative, value,
                       size, base16, printed, buffer, message>>
        /\ left' = left \div 10 /\ index' = index + 1
        /\ integerToStringOutput' = WithDigit
    BY <1>3 DEF WriteDigit, texts
  <2>2. left \div 10 \in Int
    <3>1. \A q \in Int : q \div 10 \in Int
      OBVIOUS
    <3> QED BY <3>1, <1>0 DEF Types
  <2> QED BY <1>0, <2>1, <2>2, DigitTypes DEF Types
<1>4. CASE WriteLast
  <2>1. /\ UNCHANGED <<format, call, used, found, isNegative, value, left,
                       size, index, base16>>
        /\ turn' = "scan" /\ i' = i + 2
        /\ integerToStringOutput' =
             [WithDigit EXCEPT ![End(isNegative, size)] = 0]
        /\ Output(StringOf(integerToStringOutput'))
    BY <1>4 DEF WriteLast, Converted, number
  <2>2. StringOf(integerToStringOutput') \in Seq(Int)
    <3>1. /\ IsWidth(value, Tens, size + 1)
          /\ StringOf(integerToStringOutput') = DecimalText(isNegative, value)
      BY <1>0, <1>4, LastStep DEF Inv
    <3> QED BY <3>1, <1>0, NumberTypes, DecimalCharacters
  <2>3. printed' \in Seq(Int) /\ buffer' \in Seq(Int) /\ message' \in Seq(Int)
    BY <1>0, <2>1, <2>2, OutputTypes
  <2>4. integerToStringOutput' \in
          [0..(NumberSize - 1) -> {0, Minus} \cup 48..57]
    BY <1>0, <2>1, DigitTypes
  <2> QED BY <1>0, <2>1, <2>3, <2>4 DEF Types
<1>5. CASE Hexadecimal
  <2>1. left' \in Int32 /\ At("x")
    BY <1>0, <1>5, HandedInts DEF Hexadecimal
  <2>2. left' \in Int
    BY <2>1, NumberAssumption DEF Int32
  <2>3. /\ UNCHANGED <<format, call, i, isNegative, value, size, index,
                       printed, buffer, message, integerToStringOutput>>
        /\ turn' = "hex" /\ base16' = <<>> /\ used' = used + 1 /\ found' = TRUE
    BY <1>5 DEF Hexadecimal, Take, texts
  <2> QED BY <1>0, <2>2, <2>3 DEF Types
<1>6. CASE DivideBy16
  <2>1. /\ UNCHANGED <<format, call, turn, i, used, found, isNegative, value,
                       size, index, printed, buffer, message,
                       integerToStringOutput>>
        /\ base16' = <<HexDigit(Remainder(left, 16))>> \o base16
        /\ left' = Quotient(left, 16)
    BY <1>6 DEF DivideBy16, texts
  <2>2. \A q \in Int : Quotient(q, 16) \in Int
    BY DEF Quotient
  <2>3. \A q \in Int : HexDigit(Remainder(q, 16)) \in Int
    <3>1. \A q \in Int : Remainder(q, 16) \in Int
      BY <2>2 DEF Remainder
    <3> QED BY <3>1 DEF HexDigit
  <2>4. left' \in Int /\ base16' \in Seq(Int)
    <3>1. left \in Int /\ base16 \in Seq(Int)
      BY <1>0 DEF Types
    <3>2. <<HexDigit(Remainder(left, 16))>> \in Seq(Int)
      BY <3>1, <2>3
    <3> QED BY <3>1, <3>2, <2>1, <2>2, ConcatProperties
  <2> QED BY <1>0, <2>1, <2>4 DEF Types
<1>7. CASE PrintBase16
  <2>1. /\ UNCHANGED <<format, call, used, found, isNegative, value, left,
                       size, index, base16, integerToStringOutput>>
        /\ turn' = "scan" /\ i' = i + 2 /\ Output(base16)
    BY <1>7 DEF PrintBase16, Converted, number
  <2>2. printed' \in Seq(Int) /\ buffer' \in Seq(Int) /\ message' \in Seq(Int)
    BY <1>0, <2>1, OutputTypes DEF Types
  <2> QED BY <1>0, <2>1, <2>2 DEF Types
<1>8. CASE String
  <2>1. /\ UNCHANGED <<format, call, isNegative, value, left, size, index,
                       base16, integerToStringOutput>>
        /\ turn' = "scan" /\ i' = i + 2 /\ used' = used + 1 /\ found' = TRUE
        /\ Output(format.args[used + 1]) /\ At("s")
        /\ call \in {"printf", "fprintf"}
    BY <1>0, <1>8 DEF String, Take, Converted, number
  <2>2. format.args[used + 1] \in Seq(Int)
    <3>1. PICK k \in Places : Here(k)
      BY <2>1 DEF Inv, Printing, Composing
    <3>2. "s" \in DOMAIN Letter
      BY LetterFacts
    <3>3. /\ format.pieces[k].kind = "s" /\ IsPiece(format.pieces[k])
          /\ format.args[used + 1] = format.pieces[k].arg
      BY <1>0, <2>1, <3>1, <3>2, Handing
    <3>4. format.pieces[k].arg \in Seq(Nat \ {0, Percent})
      BY <3>3 DEF IsPiece
    <3> QED BY <3>3, <3>4
  <2>3. printed' \in Seq(Int) /\ buffer' \in Seq(Int) /\ message' \in Seq(Int)
    BY <1>0, <2>1, <2>2, OutputTypes
  <2> QED BY <1>0, <2>1, <2>3 DEF Types
<1>9. CASE Colour
  <2>1. /\ UNCHANGED <<format, call, isNegative, value, left, size, index,
                       base16, integerToStringOutput>>
        /\ turn' = "scan" /\ i' = i + 2 /\ used' = used + 1 /\ found' = TRUE
        /\ At("c")
    BY <1>9 DEF Colour, Take, Converted, number
  <2>2. PICK colour \in Handed : Output(<<-1 - colour>>)
    BY <1>9 DEF Colour
  <2>3. colour \in Int
    <3>1. CASE call = "kpanic"
      BY <3>1, NumberAssumption DEF Handed, Int32
    <3>2. CASE call \in {"printf", "fprintf"}
      <4>1. PICK k \in Places : Here(k)
        BY <3>2 DEF Inv, Printing, Composing
      <4>2. "c" \in DOMAIN Letter
        BY LetterFacts
      <4>3. /\ format.pieces[k].kind = "c" /\ IsPiece(format.pieces[k])
            /\ Handed = {format.pieces[k].arg}
        BY <1>0, <2>1, <3>2, <4>1, <4>2, Handing
      <4> QED BY <4>3 DEF IsPiece
    <3> QED BY <1>0, <3>1, <3>2
  <2>4. <<-1 - colour>> \in Seq(Int)
    BY <2>3
  <2>5. printed' \in Seq(Int) /\ buffer' \in Seq(Int) /\ message' \in Seq(Int)
    BY <1>0, <2>2, <2>4, OutputTypes
  <2> QED BY <1>0, <2>1, <2>5 DEF Types
<1>10. CASE Stray
  <2>1. /\ UNCHANGED <<format, call, turn, used, found, isNegative, value,
                       left, size, index, base16, integerToStringOutput>>
        /\ i' \in {i + 1, i + 2}
    BY <1>10 DEF Stray, number
  <2>2. PICK text \in {<<>>, <<Percent>>} : Output(text)
    BY <1>10 DEF Stray
  <2>3. text \in Seq(Int)
    <3>1. <<>> \in Seq(Int) /\ <<Percent>> \in Seq(Int)
      BY DEF Percent
    <3> QED BY <3>1
  <2>4. printed' \in Seq(Int) /\ buffer' \in Seq(Int) /\ message' \in Seq(Int)
    BY <1>0, <2>2, <2>3, OutputTypes
  <2> QED BY <1>0, <2>1, <2>4 DEF Types
<1>11. CASE Plain
  <2>1. /\ UNCHANGED <<format, call, turn, used, found, isNegative, value,
                       left, size, index, base16, integerToStringOutput>>
        /\ i' = i + 1 /\ Output(<<CharAt(i)>>)
    BY <1>11 DEF Plain, number
  <2>2. <<CharAt(i)>> \in Seq(Int)
    <3>1. CharAt(i) \in Int
      BY <1>0, CharTypes DEF Types
    <3> QED BY <3>1
  <2>3. printed' \in Seq(Int) /\ buffer' \in Seq(Int) /\ message' \in Seq(Int)
    BY <1>0, <2>1, <2>2, OutputTypes
  <2> QED BY <1>0, <2>1, <2>3 DEF Types
<1>12. CASE Return
  <2>1. /\ UNCHANGED <<format, turn, isNegative, value, left, size, index,
                       base16, printed, buffer, message,
                       integerToStringOutput>>
        /\ i' = 0 /\ used' = 0 /\ found' = FALSE /\ call' = Following[call]
    BY <1>12 DEF Return, number, texts
  <2>2. call' \in {"fprintf", "kpanic", "done"}
    BY <1>0, <2>1 DEF Following
  <2> QED BY <1>0, <2>1, <2>2 DEF Types
<1> QED BY <1>1, <1>2, <1>3, <1>4, <1>5, <1>6, <1>7, <1>8, <1>9, <1>10, <1>11,
           <1>12 DEF PrintfNext

\* A step keeps what is known of IntegerToString's loops.
LEMMA NumberStep ==
  ASSUME Inv, PrintfNext
  PROVE  Counting' /\ Writing'
<1>0. Types /\ Counting /\ Writing /\ call # "done"
  BY DEF Inv, PrintfNext
<1>1. CASE Decimal
  <2>1. /\ value' \in Nat /\ left' = value'
        /\ isNegative' = 1 => integerToStringOutput'[0] = Minus
    BY <1>0, <1>1, DecimalTypes
  <2>2. turn' = "size" /\ size' = 0 /\ index' = 0
    BY <1>1 DEF Decimal
  <2>3. \A q \in Nat : q = q \div 1
    OBVIOUS
  <2>4. Tens[0 + 1] = 1 /\ 0 + 1 < Len(Tens)
    BY TensFacts
  <2>5. left' = value' \div Tens[0 + 1]
    BY <2>1, <2>3, <2>4
  <2> QED BY <2>1, <2>2, <2>4, <2>5 DEF Counting, Writing
<1>2. CASE CountDigit
  BY <1>0, <1>2, CountStep
<1>3. CASE WriteDigit
  BY <1>0, <1>3, WriteStep
<1>4. CASE turn' \notin {"size", "digit"}
  BY <1>4 DEF Counting, Writing
<1>5. CASE ~ (Decimal \/ CountDigit \/ WriteDigit)
  <2>1. turn' \notin {"size", "digit"}
    <3>1. CASE WriteLast \/ PrintBase16 \/ String \/ Colour
      BY <3>1 DEF WriteLast, PrintBase16, String, Colour, Converted
    <3>2. CASE Hexadecimal \/ DivideBy16
      BY <3>2 DEF Hexadecimal, DivideBy16
    <3>3. CASE Stray \/ Plain \/ Return
      BY <3>3 DEF Stray, Plain, Return
    <3> QED BY <1>5, <3>1, <3>2, <3>3 DEF PrintfNext
  <2> QED BY <1>4, <2>1
<1> QED BY <1>1, <1>2, <1>3, <1>5

\* What a step leaves of the format and what is made of it.
LEMMA FormatStays ==
  ASSUME PrintfNext
  PROVE  format' = format
<1>1. CASE Decimal \/ Hexadecimal \/ String \/ Colour
  BY <1>1 DEF Decimal, Hexadecimal, String, Colour, Take
<1>2. CASE CountDigit \/ WriteDigit \/ WriteLast \/ DivideBy16 \/ PrintBase16
  BY <1>2 DEF CountDigit, WriteDigit, WriteLast, DivideBy16, PrintBase16
<1>3. CASE Stray \/ Plain \/ Return
  BY <1>3 DEF Stray, Plain, Return
<1> QED BY <1>1, <1>2, <1>3 DEF PrintfNext

\* What is said of the format alone stays.
LEMMA SameFormat ==
  ASSUME format' = format
  PROVE  /\ Places' = Places /\ HasColour' = HasColour
         /\ AllRegular' = AllRegular /\ AllOfKernel' = AllOfKernel
         /\ AllSound' = AllSound
BY DEF Places, HasColour, AllRegular, AllOfKernel, AllSound

\* The texts of the format's beginnings stay.
LEMMA SameTraces ==
  ASSUME format' = format, NEW k
  PROVE  /\ (AllRegular => \E t : Trace(t, k) /\ printed' = t[k]) => Begun(k)'
         /\ (AllRegular => \E t : /\ Trace(t, Len(format.pieces) + 1)
                                  /\ printed' = t[Len(format.pieces) + 1]
                                  /\ buffer' = t[k]) => Again(k)'
<1>1. AllRegular' = AllRegular
  BY SameFormat
<1>2. ASSUME AllRegular => \E t : Trace(t, k) /\ printed' = t[k]
      PROVE  Begun(k)'
  <2>1. SUFFICES ASSUME AllRegular'
                 PROVE  (\E t : Trace(t, k) /\ printed = t[k])'
    BY DEF Begun
  <2>2. PICK t : Trace(t, k) /\ printed' = t[k]
    BY <1>1, <1>2, <2>1
  <2>3. (Trace(t, k) /\ printed = t[k])'
    BY <2>2 DEF Trace
  <2> QED BY <2>3
<1>3. ASSUME AllRegular => \E t : /\ Trace(t, Len(format.pieces) + 1)
                                  /\ printed' = t[Len(format.pieces) + 1]
                                  /\ buffer' = t[k]
      PROVE  Again(k)'
  <2>1. SUFFICES ASSUME AllRegular'
                 PROVE  (\E t : /\ Trace(t, Len(format.pieces) + 1)
                                /\ printed = t[Len(format.pieces) + 1]
                                /\ buffer = t[k])'
    BY DEF Again
  <2>2. PICK t : /\ Trace(t, Len(format.pieces) + 1)
                 /\ printed' = t[Len(format.pieces) + 1]
                 /\ buffer' = t[k]
    BY <1>1, <1>3, <2>1
  <2>3. (/\ Trace(t, Len(format.pieces) + 1)
         /\ printed = t[Len(format.pieces) + 1]
         /\ buffer = t[k])'
    BY <2>2 DEF Trace
  <2> QED BY <2>3
<1> QED BY <1>2, <1>3

\* A trace goes on with the next piece.
LEMMA TraceGrows ==
  ASSUME NEW k \in Nat, k > 0, NEW t, Trace(t, k),
         NEW text, text = t[k] \o Emitted(format.pieces[k]),
         IsPiece(format.pieces[k]), Regular(format.pieces[k]),
         Known(format.pieces[k])
  PROVE  \E u : Trace(u, k + 1) /\ text = u[k + 1]
<1> DEFINE p == format.pieces[k]
           u == [j \in 1..(k + 1) |-> IF j <= k THEN t[j] ELSE text]
<1>1. /\ t \in [1..k -> Seq(Int)] /\ t[1] = <<>> /\ k \in 1..k /\ 1 \in 1..k
      /\ \A j \in 1..(k - 1) :
           /\ t[j + 1] = t[j] \o Emitted(format.pieces[j])
           /\ Sound(format.pieces[j]) =>
                Emitted(format.pieces[j]) = Meaning(format.pieces[j])
  <2>1. k \in 1..k /\ 1 \in 1..k
    OBVIOUS
  <2> QED BY <2>1, Zenon DEF Trace
<1>2. /\ Emitted(p) \in Seq(Int)
      /\ Sound(p) => Emitted(p) = Meaning(p)
  BY EmittedFacts
<1>3. text \in Seq(Int)
  <2>1. t[k] \in Seq(Int)
    BY <1>1
  <2> QED BY <2>1, <1>2, ConcatProperties
<1>4. u \in [1..(k + 1) -> Seq(Int)]
  <2>1. ASSUME NEW j \in 1..(k + 1)
        PROVE  (IF j <= k THEN t[j] ELSE text) \in Seq(Int)
    BY <1>1, <1>3
  <2> QED BY <2>1
<1>5. u[1] = <<>> /\ u[k + 1] = text /\ u[k] = t[k]
  BY <1>1
<1>6. ASSUME NEW j \in 1..((k + 1) - 1)
      PROVE  /\ u[j + 1] = u[j] \o Emitted(format.pieces[j])
             /\ Sound(format.pieces[j]) =>
                  Emitted(format.pieces[j]) = Meaning(format.pieces[j])
  <2>1. CASE j = k
    BY <2>1, <1>2, <1>5
  <2>2. CASE j # k
    <3>1. j \in 1..(k - 1) /\ j \in 1..(k + 1) /\ j + 1 \in 1..(k + 1)
          /\ j + 1 <= k /\ j <= k
      BY <2>2
    <3>2. u[j + 1] = t[j + 1] /\ u[j] = t[j]
      BY <3>1
    <3> HIDE DEF u
    <3> QED BY <3>1, <3>2, <1>1
  <2> QED BY <2>1, <2>2
<1> HIDE DEF u
<1>7. Trace(u, k + 1)
  BY <1>4, <1>5, <1>6 DEF Trace
<1> QED BY <1>5, <1>7

\* Only regular pieces are put out when all are regular.
LEMMA NotOdd ==
  ASSUME Types, AllRegular, NEW k
  PROVE  ~ Odd(k)
BY FormatFacts DEF Odd, AllRegular, Types

\* printf does justice to no odd piece.
LEMMA SoundIsRegular ==
  ASSUME Types, AllSound
  PROVE  AllRegular
<1>1. ASSUME NEW k \in DOMAIN format.pieces
      PROVE  Regular(format.pieces[k])
  <2>1. Sound(format.pieces[k]) /\ IsPiece(format.pieces[k])
    BY PieceFacts, FormatFacts DEF AllSound, Types
  <2>2. format.pieces[k].kind = "x" => format.pieces[k].arg \in Int
    BY <2>1, NumberAssumption DEF IsPiece, Int32
  <2> QED BY <2>1, <2>2 DEF Sound, Regular
<1> QED BY <1>1 DEF AllRegular

\* kpanic reads what printf printed, without a percent sign.
LEMMA PanicStep ==
  ASSUME Inv, call = "kpanic", AllRegular, PrintfNext
  PROVE  \/ /\ i + 1 <= Len(buffer) /\ i' = i + 1 /\ turn' = "scan"
            /\ call' = "kpanic" /\ UNCHANGED <<printed, buffer>>
            /\ message' = SubSeq(buffer, 1, i + 1)
         \/ /\ Return /\ call' = "done" /\ turn' = "scan"
            /\ UNCHANGED <<printed, buffer, message>>
            /\ message = buffer
<1>1. /\ turn = "scan" /\ buffer = printed /\ i <= Len(buffer)
      /\ message = SubSeq(buffer, 1, i) /\ AllIn(buffer, Clean)
      /\ i \in Nat /\ buffer \in Seq(Int)
  BY DEF Inv, Panicking, Readable, Types
<1>2. CharAt(i) = IF i < Len(buffer) THEN buffer[i + 1] ELSE 0
  BY DEF CharAt, Text
<1>3. i < Len(buffer) => CharAt(i) \notin {0, Percent}
  <2>1. i < Len(buffer) => i + 1 \in DOMAIN buffer
    BY <1>1
  <2> QED BY <2>1, <1>1, <1>2 DEF AllIn, Clean
<1>4. CharAt(i) # Percent
  BY <1>1, <1>2, <1>3 DEF Percent
<1>5. CASE Plain
  <2>1. /\ i' = i + 1 /\ UNCHANGED <<call, turn>> /\ Output(<<CharAt(i)>>)
        /\ CharAt(i) # 0
    BY <1>5 DEF Plain
  <2>2. i < Len(buffer)
    BY <2>1, <1>2
  <2>3. /\ UNCHANGED <<printed, buffer>>
        /\ message' = SubSeq(buffer, 1, i) \o <<buffer[i + 1]>>
    BY <2>1, <2>2, <1>1, <1>2 DEF Output
  <2>4. SubSeq(buffer, 1, i) \o <<buffer[i + 1]>> = SubSeq(buffer, 1, i + 1)
    <3> DEFINE a == SubSeq(buffer, 1, i)
               b == SubSeq(buffer, 1, i + 1)
    <3>1. /\ a \in Seq(Int) /\ Len(a) = i /\ b \in Seq(Int) /\ Len(b) = i + 1
          /\ \A j \in 1..i : a[j] = buffer[j]
          /\ \A j \in 1..(i + 1) : b[j] = buffer[j]
          /\ buffer[i + 1] \in Int
      <4>1. /\ a = [j \in 1..i |-> buffer[j]]
            /\ b = [j \in 1..(i + 1) |-> buffer[j]]
        BY <1>1, <2>2
      <4>2. \A j \in 1..(i + 1) : buffer[j] \in Int
        BY <1>1, <2>2
      <4> HIDE DEF a, b
      <4> QED BY <1>1, <4>1, <4>2
    <3> HIDE DEF a, b
    <3>2. <<buffer[i + 1]>> \in Seq(Int) /\ Len(<<buffer[i + 1]>>) = 1
      BY <3>1
    <3>3. a \o <<buffer[i + 1]>> \in Seq(Int)
          /\ Len(a \o <<buffer[i + 1]>>) = i + 1
      BY <3>1, <3>2, ConcatProperties
    <3>4. ASSUME NEW j \in 1..(i + 1)
          PROVE  (a \o <<buffer[i + 1]>>)[j] = b[j]
      <4>1. b[j] = buffer[j]
        BY <3>1
      <4>2. CASE j <= i
        <5>1. (a \o <<buffer[i + 1]>>)[j] = a[j] /\ j \in 1..i
          BY <4>2, <3>1, <3>2, <1>1
        <5> QED BY <5>1, <4>1, <3>1
      <4>3. CASE ~ (j <= i)
        <5>1. j = i + 1
          BY <4>3, <1>1
        <5>2. (a \o <<buffer[i + 1]>>)[i + 1] = buffer[i + 1]
          BY <3>1, <3>2, <1>1
        <5> QED BY <5>1, <5>2, <4>1
      <4> QED BY <4>2, <4>3
    <3>5. a \o <<buffer[i + 1]>> = b
      BY <3>1, <3>3, <3>4, SeqEqual
    <3> QED BY <3>5 DEF a, b
  <2> QED BY <1>1, <2>1, <2>2, <2>3, <2>4
<1>6. CASE Return
  <2>1. /\ call' = Following["kpanic"] /\ CharAt(i) = 0
        /\ UNCHANGED <<turn, printed, buffer, message>>
    BY <1>6 DEF Return, texts
  <2>2. i = Len(buffer)
    BY <2>1, <1>1, <1>3
  <2>3. message = buffer
    BY <2>2, <1>1, SubSeqFull
  <2>4. call' = "done"
    BY <2>1 DEF Following
  <2> QED BY <1>1, <1>6, <2>1, <2>3, <2>4
<1>7. ~ (Decimal \/ Hexadecimal \/ String \/ Colour \/ Stray)
  BY <1>4 DEF Decimal, Hexadecimal, String, Colour, Stray, At
<1>8. ~ (CountDigit \/ WriteDigit \/ WriteLast \/ DivideBy16 \/ PrintBase16)
  BY <1>1 DEF CountDigit, WriteDigit, WriteLast, DivideBy16, PrintBase16
<1> QED BY <1>5, <1>6, <1>7, <1>8 DEF PrintfNext

\* Who follows whom.
LEMMA ReturnStep ==
  ASSUME Types, Return, call # "done"
  PROVE  /\ turn = "scan" /\ turn' = "scan" /\ i' = 0 /\ used' = 0
         /\ format' = format
         /\ UNCHANGED <<printed, buffer, message>>
         /\ call = "printf" => call' = IF HasColour THEN "done" ELSE "fprintf"
         /\ call = "fprintf" => call' = "kpanic"
         /\ call = "kpanic" => call' = "done"
BY DEF Return, Following, texts

\* A function starts at the first piece.
LEMMA HereFirst ==
  ASSUME Types, format' = format, i' = 0, used' = 0, turn' = "scan"
  PROVE  1 \in Places /\ Here(1)'
<1>1. From(format, 1) = 0 /\ Nth(format, 1) = 0 /\ Len(format.pieces) \in Nat
  BY FormatFacts DEF Types
<1>2. 1 \in Places
  BY <1>1 DEF Places
<1> QED BY <1>1, <1>2 DEF Here

\* What printf's and fprintf's texts become.
LEMMA Outputs ==
  ASSUME NEW text, Output(text)
  PROVE  /\ call = "printf" => /\ printed' = printed \o text
                               /\ UNCHANGED <<buffer, message>>
         /\ call = "fprintf" => /\ buffer' = buffer \o text
                                /\ UNCHANGED <<printed, message>>
         /\ call = "kpanic" => UNCHANGED <<printed, buffer>>
BY DEF Output, Copied

\* While printf prints.
LEMMA PrintingStep ==
  ASSUME Inv, PrintfNext, call = "printf"
  PROVE  Printing'
<1>0. Types /\ Writing /\ format' = format
  BY FormatStays DEF Inv
<1>1. Places' = Places /\ AllRegular' = AllRegular
  BY <1>0, SameFormat
<1>2. /\ buffer = <<>> /\ message = <<>>
  BY DEF Inv, Printing
<1>3. PICK k \in Places : Here(k) /\ Begun(k)
  BY DEF Inv, Printing
<1>4. CASE Works(k) /\ Here(k)'
  <2>1. UNCHANGED <<printed, buffer, message>>
    BY <1>4 DEF Works, texts
  <2>2. AllRegular => \E t : Trace(t, k) /\ printed' = t[k]
    BY <1>3, <2>1 DEF Begun
  <2>3. Begun(k)'
    BY <1>0, <2>2, SameTraces
  <2> QED BY <1>1, <1>2, <1>3, <1>4, <2>1, <2>3 DEF Printing
<1>5. CASE Puts(k) /\ Here(k + 1)'
  <2>1. /\ k \in Nat /\ k > 0 /\ k + 1 \in Places
        /\ IsPiece(format.pieces[k]) /\ Regular(format.pieces[k])
        /\ Known(format.pieces[k])
        /\ Output(Emitted(format.pieces[k]))
    BY <1>5, FormatFacts, <1>0 DEF Puts, Types
  <2>2. /\ printed' = printed \o Emitted(format.pieces[k])
        /\ UNCHANGED <<buffer, message>>
    BY <2>1, Outputs
  <2>3. ASSUME AllRegular
        PROVE  \E t : Trace(t, k + 1) /\ printed' = t[k + 1]
    <3>1. PICK t : Trace(t, k) /\ printed = t[k]
      BY <1>3, <2>3 DEF Begun
    <3> DEFINE text == printed'
    <3>2. text = t[k] \o Emitted(format.pieces[k])
      BY <2>2, <3>1
    <3> HIDE DEF text
    <3>3. \E u : Trace(u, k + 1) /\ text = u[k + 1]
      BY <2>1, <3>1, <3>2, TraceGrows
    <3> QED BY <3>3 DEF text
  <2>4. Begun(k + 1)'
    BY <1>0, <2>3, SameTraces
  <2> QED BY <1>1, <1>2, <1>5, <2>1, <2>2, <2>4 DEF Printing
<1>6. CASE Odd(k) /\ \E l \in Places : Here(l)'
  <2>1. ~ AllRegular'
    BY <1>0, <1>1, <1>6, NotOdd
  <2>2. UNCHANGED <<buffer, message>>
    BY <1>6, Outputs DEF Odd
  <2>3. PICK l \in Places : Here(l)'
    BY <1>6
  <2>4. Begun(l)'
    BY <2>1 DEF Begun
  <2> QED BY <1>1, <1>2, <2>2, <2>3, <2>4 DEF Printing
<1>7. CASE Return
  <2>1. call' # "printf"
    BY <1>0, <1>7, ReturnStep
  <2> QED BY <2>1 DEF Printing
<1> QED BY <1>0, <1>3, <1>4, <1>5, <1>6, <1>7, PieceStep

\* Where fprintf starts.
LEMMA ComposingStarts ==
  ASSUME Inv, PrintfNext, call = "printf", call' # "printf"
  PROVE  /\ UNCHANGED <<printed, buffer, message>> /\ buffer = <<>>
         /\ message = <<>> /\ Begun(Len(format.pieces) + 1)'
         /\ i = Len(format.text)
         /\ call' = IF HasColour THEN "done" ELSE "fprintf"
         /\ call' = "fprintf" => Composing'
<1> DEFINE N == Len(format.pieces)
<1>0. Types /\ Writing /\ format' = format
  BY FormatStays DEF Inv
<1>1. Places' = Places /\ HasColour' = HasColour
  BY <1>0, SameFormat
<1>2. /\ buffer = <<>> /\ message = <<>>
  BY DEF Inv, Printing
<1>3. PICK k \in Places : Here(k) /\ Begun(k)
  BY DEF Inv, Printing
<1>4. k = N + 1 /\ Return
  BY <1>0, <1>3, PieceStep DEF Works, Puts, Odd
<1>5. /\ turn' = "scan" /\ i' = 0 /\ used' = 0
      /\ UNCHANGED <<printed, buffer, message>>
      /\ call' = IF HasColour THEN "done" ELSE "fprintf"
  BY <1>0, <1>4, ReturnStep
<1>6. i = Len(format.text)
  BY <1>0, <1>3, <1>4, FormatFacts DEF Here, Types
<1>7. 1 \in Places /\ Here(1)'
  BY <1>0, <1>5, HereFirst
<1>8. AllRegular => \E t : Trace(t, N + 1) /\ printed = t[N + 1]
  BY <1>3, <1>4 DEF Begun
<1>9. Begun(N + 1)'
  <2>1. AllRegular => \E t : Trace(t, N + 1) /\ printed' = t[N + 1]
    BY <1>5, <1>8
  <2> QED BY <1>0, <2>1, SameTraces
<1>10. Again(1)'
  <2>1. ASSUME AllRegular
        PROVE  \E t : /\ Trace(t, N + 1) /\ printed' = t[N + 1]
                      /\ buffer' = t[1]
    <3>1. PICK t : Trace(t, N + 1) /\ printed = t[N + 1]
      BY <1>8, <2>1
    <3>2. t[1] = <<>>
      BY <3>1 DEF Trace
    <3> QED BY <3>1, <3>2, <1>2, <1>5
  <2> QED BY <1>0, <2>1, SameTraces
<1>11. call' = "fprintf" => Composing'
  BY <1>1, <1>2, <1>5, <1>7, <1>10 DEF Composing
<1> QED BY <1>2, <1>5, <1>6, <1>9, <1>11

\* While fprintf composes.
LEMMA ComposingStep ==
  ASSUME Inv, PrintfNext, call = "fprintf"
  PROVE  /\ call' = "fprintf" => Composing'
         /\ call' # "fprintf" => /\ call' = "kpanic"
                                 /\ Panicking' /\ Begun(Len(format.pieces) + 1)'
<1> DEFINE N == Len(format.pieces)
<1>0. Types /\ Writing /\ format' = format /\ N \in Nat
  BY FormatStays, FormatFacts DEF Inv, Types
<1>1. Places' = Places /\ AllRegular' = AllRegular /\ HasColour' = HasColour
  BY <1>0, SameFormat
<1>2. message = <<>> /\ ~ HasColour
  BY DEF Inv, Composing
<1>3. PICK k \in Places : Here(k) /\ Again(k)
  BY DEF Inv, Composing
<1>4. CASE Works(k) /\ Here(k)'
  <2>1. UNCHANGED <<call, printed, buffer, message>>
    BY <1>4 DEF Works, texts
  <2>2. Again(k)'
    <3>1. AllRegular => \E t : /\ Trace(t, N + 1) /\ printed' = t[N + 1]
                               /\ buffer' = t[k]
      BY <1>3, <2>1 DEF Again
    <3> QED BY <1>0, <3>1, SameTraces
  <2> QED BY <1>1, <1>2, <1>3, <1>4, <2>1, <2>2 DEF Composing
<1>5. CASE Puts(k) /\ Here(k + 1)'
  <2>1. /\ k \in 1..N /\ k + 1 \in Places /\ UNCHANGED call
        /\ Output(Emitted(format.pieces[k]))
    BY <1>5 DEF Puts
  <2>2. /\ buffer' = buffer \o Emitted(format.pieces[k])
        /\ UNCHANGED <<printed, message>>
    BY <2>1, Outputs
  <2>3. ASSUME AllRegular
        PROVE  \E t : /\ Trace(t, N + 1) /\ printed' = t[N + 1]
                      /\ buffer' = t[k + 1]
    <3>1. PICK t : Trace(t, N + 1) /\ printed = t[N + 1] /\ buffer = t[k]
      BY <1>3, <2>3 DEF Again
    <3>2. k \in 1..((N + 1) - 1)
      BY <2>1, <1>0
    <3>3. t[k + 1] = t[k] \o Emitted(format.pieces[k])
      BY <3>1, <3>2 DEF Trace
    <3> QED BY <3>1, <3>3, <2>2
  <2>4. Again(k + 1)'
    BY <1>0, <2>3, SameTraces
  <2> QED BY <1>1, <1>2, <1>5, <2>1, <2>2, <2>4 DEF Composing
<1>6. CASE Odd(k) /\ \E l \in Places : Here(l)'
  <2>1. ~ AllRegular'
    BY <1>0, <1>1, <1>6, NotOdd
  <2>2. message' = <<>> /\ UNCHANGED call
    BY <1>2, <1>6, Outputs DEF Odd
  <2>3. PICK l \in Places : Here(l)'
    BY <1>6
  <2>4. Again(l)'
    BY <2>1 DEF Again
  <2> QED BY <1>1, <1>2, <2>2, <2>3, <2>4 DEF Composing
<1>7. CASE k = N + 1 /\ Return
  <2>1. /\ turn' = "scan" /\ i' = 0 /\ call' = "kpanic"
        /\ UNCHANGED <<printed, buffer, message>>
    BY <1>0, <1>7, ReturnStep
  <2>2. AllRegular => \E t : /\ Trace(t, N + 1) /\ printed = t[N + 1]
                             /\ buffer = printed
    BY <1>3, <1>7 DEF Again
  <2>3. Begun(N + 1)'
    <3>1. AllRegular => \E t : Trace(t, N + 1) /\ printed' = t[N + 1]
      BY <2>1, <2>2
    <3> QED BY <1>0, <3>1, SameTraces
  <2>4. buffer \in Seq(Int) /\ SubSeq(buffer, 1, 0) = <<>>
        /\ Len(buffer) \in Nat
    BY <1>0 DEF Types
  <2>5. Panicking'
    BY <1>1, <1>2, <2>1, <2>2, <2>4 DEF Panicking
  <2> QED BY <2>1, <2>3, <2>5
<1> QED BY <1>0, <1>3, <1>4, <1>5, <1>6, <1>7, PieceStep

\* Whoever does not return runs on.
LEMMA CallStays ==
  ASSUME PrintfNext, ~ Return
  PROVE  call' = call
BY DEF PrintfNext, Decimal, CountDigit, WriteDigit, WriteLast, Hexadecimal,
   DivideBy16, PrintBase16, String, Colour, Stray, Plain, Take

\* While kpanic prints.
LEMMA PanickingStep ==
  ASSUME Inv, PrintfNext, call = "kpanic"
  PROVE  /\ call' \in {"kpanic", "done"} /\ UNCHANGED <<printed, buffer>>
         /\ Panicking' /\ Finished'
<1>0. Types /\ format' = format /\ ~ HasColour
      /\ Begun(Len(format.pieces) + 1)
  BY FormatStays DEF Inv, Panicking, Finished
<1>1. AllRegular' = AllRegular /\ HasColour' = HasColour
  BY <1>0, SameFormat
<1>2. call' \in {"kpanic", "done"}
  BY <1>0, ReturnStep, CallStays
<1>3. UNCHANGED <<printed, buffer>>
  <2>1. CASE Decimal \/ CountDigit \/ WriteDigit \/ Hexadecimal \/ DivideBy16
    BY <2>1 DEF Decimal, CountDigit, WriteDigit, Hexadecimal, DivideBy16, texts
  <2>2. CASE Return
    BY <2>2 DEF Return, texts
  <2>3. CASE WriteLast \/ PrintBase16 \/ Colour \/ Stray \/ Plain
    <3>1. \E text : Output(text)
      BY <2>3 DEF WriteLast, PrintBase16, Colour, Stray, Plain
    <3> QED BY <3>1, Outputs
  <2>4. ~ String
    BY DEF String
  <2> QED BY <2>1, <2>2, <2>3, <2>4 DEF PrintfNext
<1>4. Begun(Len(format.pieces) + 1)'
  <2> DEFINE N == Len(format.pieces)
  <2>1. AllRegular => \E t : Trace(t, N + 1) /\ printed' = t[N + 1]
    BY <1>0, <1>3 DEF Begun
  <2> QED BY <1>0, <2>1, SameTraces
<1>5. CASE AllRegular
  <2>1. CASE /\ i + 1 <= Len(buffer) /\ i' = i + 1 /\ turn' = "scan"
             /\ call' = "kpanic" /\ UNCHANGED <<printed, buffer>>
             /\ message' = SubSeq(buffer, 1, i + 1)
    <3>1. buffer = printed
      BY <1>5 DEF Inv, Panicking
    <3>2. Panicking'
      BY <1>0, <1>1, <2>1, <3>1 DEF Panicking
    <3> QED BY <1>0, <1>2, <1>3, <1>4, <2>1, <3>2 DEF Finished
  <2>2. CASE /\ Return /\ call' = "done" /\ turn' = "scan"
             /\ UNCHANGED <<printed, buffer, message>>
             /\ message = buffer
    <3>1. buffer = printed
      BY <1>5 DEF Inv, Panicking
    <3> QED BY <1>0, <1>1, <1>2, <1>3, <1>4, <2>2, <3>1
            DEF Panicking, Finished
  <2> QED BY <1>5, <2>1, <2>2, PanicStep
<1>6. CASE ~ AllRegular
  BY <1>0, <1>1, <1>2, <1>3, <1>4, <1>6 DEF Panicking, Finished
<1> QED BY <1>5, <1>6

\* What is put out leaves the texts readable.
LEMMA ReadableStep ==
  ASSUME Inv, PrintfNext
  PROVE  Readable'
<1>0. Types /\ Writing /\ format' = format /\ call # "done" /\ Readable
  BY FormatStays DEF Inv, PrintfNext
<1>1. /\ AllRegular' = AllRegular /\ AllOfKernel' = AllOfKernel
      /\ AllSound' = AllSound
  BY <1>0, SameFormat
<1>2. CASE UNCHANGED <<printed, buffer>>
  BY <1>0, <1>1, <1>2 DEF Readable, AllIn
<1>3. CASE call \in {"printf", "fprintf"}
  <2>1. PICK k \in Places : Here(k)
    BY <1>3 DEF Inv, Printing, Composing
  <2>2. CASE Works(k)
    BY <1>2, <2>2 DEF Works, texts
  <2>3. CASE Puts(k)
    <3> DEFINE text == Emitted(format.pieces[k])
    <3>1. /\ k \in DOMAIN format.pieces /\ Output(text)
          /\ text \in Seq(Int) /\ AllIn(text, Clean)
          /\ Sound(format.pieces[k]) /\ OfKernel(format.pieces[k])
               => AllIn(text, Shown)
      BY <1>0, <2>3, FormatFacts, EmittedFacts DEF Puts, Types
    <3>2. printed' \in {printed, printed \o text}
          /\ buffer' \in {buffer, buffer \o text}
      BY <1>3, <3>1, Outputs
    <3>3. printed \in Seq(Int) /\ buffer \in Seq(Int)
      BY <1>0 DEF Types
    <3> HIDE DEF text
    <3>4. ASSUME AllRegular
          PROVE  AllIn(printed', Clean) /\ AllIn(buffer', Clean)
      <4>1. AllIn(printed, Clean) /\ AllIn(buffer, Clean)
        BY <1>0, <3>4 DEF Readable
      <4>2. AllIn(printed \o text, Clean) /\ AllIn(buffer \o text, Clean)
        BY <3>1, <3>3, <4>1, AllInConcat
      <4> QED BY <3>2, <4>1, <4>2
    <3>5. ASSUME AllSound, AllOfKernel
          PROVE  AllIn(printed', Shown) /\ AllIn(buffer', Shown)
      <4>1. AllIn(printed, Shown) /\ AllIn(buffer, Shown)
        BY <1>0, <3>5 DEF Readable
      <4>2. AllIn(text, Shown)
        BY <3>1, <3>5 DEF AllSound, AllOfKernel
      <4>3. AllIn(printed \o text, Shown) /\ AllIn(buffer \o text, Shown)
        BY <3>1, <3>3, <4>1, <4>2, AllInConcat
      <4> QED BY <3>2, <4>1, <4>3
    <3> QED BY <1>1, <3>4, <3>5 DEF Readable, AllIn
  <2>4. CASE Odd(k)
    <3>1. ~ AllRegular
      BY <1>0, <2>4, NotOdd
    <3>2. ~ AllSound
      BY <1>0, <3>1, SoundIsRegular
    <3> QED BY <1>1, <3>1, <3>2 DEF Readable
  <2>5. CASE Return
    BY <1>2, <2>5 DEF Return, texts
  <2> QED BY <1>0, <1>3, <2>1, <2>2, <2>3, <2>4, <2>5, PieceStep
<1>4. CASE call = "kpanic"
  BY <1>2, <1>4, PanickingStep
<1> QED BY <1>0, <1>3, <1>4 DEF Types

\* The invariant holds at the start.
LEMMA InvInit ==
  ASSUME PrintfInit
  PROVE  Inv
<1>1. Types
  <2>2. [k \in 0..(NumberSize - 1) |-> 0] \in
          [0..(NumberSize - 1) -> {0, Minus} \cup 48..57]
    OBVIOUS
  <2>3. <<>> \in Seq(Int)
    OBVIOUS
  <2>4. integerToStringOutput \in
          [0..(NumberSize - 1) -> {0, Minus} \cup 48..57]
    BY <2>2, Zenon DEF PrintfInit
  <2>5. value \in 0..(QwordRange - 1)
    BY NumberAssumption DEF PrintfInit
  <2>6. /\ format \in Formats /\ call = "printf" /\ turn = "scan"
        /\ i = 0 /\ used = 0 /\ found = FALSE /\ isNegative = 0 /\ left = 0
        /\ size = 0 /\ index = 0 /\ base16 = <<>> /\ printed = <<>>
        /\ buffer = <<>> /\ message = <<>>
    BY DEF PrintfInit
  <2>7. /\ i \in Nat /\ used \in Nat /\ left \in Int
        /\ size \in Nat /\ index \in Nat
    BY <2>6
  <2>9. found \in BOOLEAN
    BY <2>6, Zenon
  <2>8. /\ base16 \in Seq(Int) /\ printed \in Seq(Int)
        /\ buffer \in Seq(Int) /\ message \in Seq(Int)
    BY <2>3, <2>6
  <2> QED BY <2>4, <2>5, <2>6, <2>7, <2>8, <2>9 DEF Types
<1>2. Counting /\ Writing /\ Composing /\ Panicking /\ Finished
  BY DEF PrintfInit, Counting, Writing, Composing, Panicking, Finished
<1>3. Printing
  <2>1. From(format, 1) = 0 /\ Nth(format, 1) = 0 /\ Len(format.pieces) \in Nat
    BY <1>1, FormatFacts DEF Types
  <2>2. 1 \in Places /\ Here(1)
    BY <2>1 DEF PrintfInit, Places, Here
  <2>3. Begun(1)
    <3> DEFINE t == [j \in 1..1 |-> <<>>]
    <3>1. t \in [1..1 -> Seq(Int)] /\ t[1] = <<>>
      OBVIOUS
    <3>2. 1..(1 - 1) = {}
      OBVIOUS
    <3> HIDE DEF t
    <3>3. Trace(t, 1) /\ printed = t[1]
      BY <3>1, <3>2 DEF Trace, PrintfInit
    <3> QED BY <3>3 DEF Begun
  <2> QED BY <2>2, <2>3 DEF PrintfInit, Printing
<1>4. Readable
  BY DEF PrintfInit, Readable, AllIn
<1> QED BY <1>1, <1>2, <1>3, <1>4 DEF Inv

\* Every step keeps the invariant.
LEMMA InvStep ==
  ASSUME Inv, [PrintfNext]_printfVars
  PROVE  Inv'
<1>1. CASE UNCHANGED printfVars
  <2>1. UNCHANGED <<format, call, turn, i, used, found, isNegative, value,
                    left, size, index, base16, printed, buffer, message,
                    integerToStringOutput>>
    BY <1>1 DEF printfVars, texts, number
  <2>2. Types' /\ Counting' /\ Writing'
    BY <2>1 DEF Inv, Types, Counting, Writing
  <2>3. /\ Places' = Places /\ HasColour' = HasColour
        /\ AllRegular' = AllRegular /\ AllOfKernel' = AllOfKernel
        /\ AllSound' = AllSound
    BY <2>1, SameFormat
  <2>4. \A k : /\ Here(k)' <=> Here(k)
               /\ Begun(k)' <=> Begun(k)
               /\ Again(k)' <=> Again(k)
    BY <2>1, <2>3 DEF Here, Begun, Again, Trace
  <2>5. Printing' /\ Composing'
    BY <2>1, <2>3, <2>4 DEF Inv, Printing, Composing
  <2>6. Panicking' /\ Readable'
    BY <2>1, <2>3 DEF Inv, Panicking, Readable, AllIn
  <2>7. Finished'
    BY <2>1, <2>3, <2>4 DEF Inv, Finished
  <2> QED BY <2>2, <2>5, <2>6, <2>7 DEF Inv
<1>2. CASE PrintfNext
  <2>1. Types' /\ Counting' /\ Writing' /\ Readable'
    BY <1>2, TypesStep, NumberStep, ReadableStep
  <2>2. format' = format /\ Types /\ call # "done"
    BY <1>2, FormatStays DEF Inv, PrintfNext
  <2>3. HasColour' = HasColour
    BY <2>2, SameFormat
  <2>4. CASE call = "printf" /\ call' = "printf"
    <3>1. Printing'
      BY <1>2, <2>4, PrintingStep
    <3>2. Composing' /\ Panicking' /\ Finished'
      BY <2>4 DEF Composing, Panicking, Finished
    <3> QED BY <2>1, <3>1, <3>2 DEF Inv
  <2>5. CASE call = "printf" /\ call' # "printf"
    <3>1. /\ message' = <<>> /\ Begun(Len(format.pieces) + 1)'
          /\ call' = IF HasColour THEN "done" ELSE "fprintf"
          /\ call' = "fprintf" => Composing'
      BY <1>2, <2>5, ComposingStarts
    <3>2. Printing' /\ Panicking'
      BY <2>5, <3>1 DEF Printing, Panicking
    <3>3. Composing'
      BY <3>1 DEF Composing
    <3>4. Finished'
      BY <2>2, <2>3, <3>1 DEF Finished
    <3> QED BY <2>1, <3>2, <3>3, <3>4 DEF Inv
  <2>6. CASE call = "fprintf"
    <3>1. /\ call' = "fprintf" => Composing'
          /\ call' # "fprintf" =>
               /\ call' = "kpanic" /\ Panicking'
               /\ Begun(Len(format.pieces) + 1)'
      BY <1>2, <2>6, ComposingStep
    <3>2. Printing' /\ Composing'
      BY <3>1 DEF Printing, Composing
    <3>3. Panicking'
      BY <3>1 DEF Panicking
    <3>4. Finished'
      BY <2>2, <3>1 DEF Finished
    <3> QED BY <2>1, <3>2, <3>3, <3>4 DEF Inv
  <2>7. CASE call = "kpanic"
    <3>1. call' \in {"kpanic", "done"} /\ Panicking' /\ Finished'
      BY <1>2, <2>7, PanickingStep
    <3>2. Printing' /\ Composing'
      BY <3>1 DEF Printing, Composing
    <3> QED BY <2>1, <3>1, <3>2 DEF Inv
  <2> QED BY <2>2, <2>4, <2>5, <2>6, <2>7 DEF Types
<1> QED BY <1>1, <1>2

-----------------------------------------------------------------------------
(***************************************************************************)
(* What follows.                                                           *)
(***************************************************************************)
\* The invariant holds: where printf and fprintf are in the format, how far
\* the loops inside are, and what the texts are made of.
THEOREM Invariant == PrintfSpec => []Inv
<1>1. PrintfInit => Inv
  BY InvInit
<1>2. Inv /\ [PrintfNext]_printfVars => Inv'
  BY InvStep
<1> QED BY <1>1, <1>2, PTL DEF PrintfSpec

\* Every variable keeps its type; no argument is taken that was not passed,
\* and no character behind the format's end is read.
THEOREM TypeCorrect == PrintfSpec => []PrintfTypeOK
<1>1. ASSUME Inv
      PROVE  PrintfTypeOK
  <2>1. Types
    BY <1>1 DEF Inv
  <2>2. ASSUME call \in {"printf", "fprintf"}
        PROVE  i <= Len(format.text) /\ used <= Len(format.args)
    <3>1. PICK k \in Places : Here(k)
      BY <1>1, <2>2 DEF Inv, Printing, Composing
    <3>2. /\ From(format, k) <= Len(format.text)
          /\ Nth(format, k) <= Len(format.args)
      BY <2>1, Offsets DEF Types, Places
    <3>3. CASE turn = "scan"
      BY <3>1, <3>2, <3>3 DEF Here
    <3>4. CASE turn # "scan"
      <4>1. k + 1 \in Places
        BY <2>1, <2>2, <3>1, <3>4, InDecimal
      <4>2. Nth(format, k + 1) <= Len(format.args)
        BY <2>1, <4>1, Offsets DEF Types, Places
      <4> QED BY <3>1, <3>2, <3>4, <4>2 DEF Here
    <3> QED BY <3>3, <3>4
  <2> QED BY <2>1, <2>2 DEF Types, PrintfTypeOK
<1> QED BY <1>1, Invariant, PTL

\* printf goes through its format piece by piece, and prints the meaning of
\* each that it does justice to.
THEOREM PrintsMeaningHolds == PrintfSpec => PrintsMeaning
<1>1. ASSUME Inv, [PrintfNext]_printfVars, call = "printf", AllSound
      PROVE  \/ \E k \in DOMAIN format.pieces :
                  /\ i = From(format, k) /\ i' = From(format, k + 1)
                  /\ printed' = printed \o Meaning(format.pieces[k])
             \/ /\ UNCHANGED printed
                /\ \/ UNCHANGED <<call, i>>
                   \/ call' # "printf" /\ i = Len(format.text)
  <2>1. Types /\ Writing /\ AllRegular
    BY <1>1, SoundIsRegular DEF Inv
  <2>2. CASE UNCHANGED printfVars
    BY <2>2 DEF printfVars, texts
  <2>3. CASE PrintfNext
    <3>1. PICK k \in Places : Here(k)
      BY <1>1 DEF Inv, Printing
    <3>2. CASE Works(k)
      BY <3>2 DEF Works, texts
    <3>3. CASE Puts(k)
      <4>1. k \in DOMAIN format.pieces
        BY <2>1, <3>3, FormatFacts DEF Puts, Types
      <4>2. /\ IsPiece(format.pieces[k]) /\ Regular(format.pieces[k])
            /\ Known(format.pieces[k]) /\ Output(Emitted(format.pieces[k]))
            /\ i' = From(format, k + 1)
        BY <3>3 DEF Puts
      <4>3. Emitted(format.pieces[k]) = Meaning(format.pieces[k])
        BY <1>1, <4>1, <4>2, EmittedFacts DEF AllSound
      <4>4. printed' = printed \o Meaning(format.pieces[k])
        BY <1>1, <4>2, <4>3, Outputs
      <4>5. i = From(format, k)
        BY <3>1 DEF Here
      <4> QED BY <4>1, <4>2, <4>4, <4>5
    <3>4. ~ Odd(k)
      BY <2>1, NotOdd
    <3>5. CASE Return
      <4>1. call' # "printf"
        BY <1>1, <2>1, <3>5, ReturnStep
      <4> QED BY <1>1, <2>3, <4>1, ComposingStarts
    <3> QED BY <1>1, <2>1, <2>3, <3>1, <3>2, <3>3, <3>4, <3>5, PieceStep
  <2> QED BY <1>1, <2>2, <2>3
<1> QED BY <1>1, Invariant, PTL DEF PrintfSpec, PrintsMeaning

\* When printf has returned, what it printed is the pieces' meanings one after
\* the other.
WholeText ==
    call # "printf" /\ AllSound =>
      \E t \in [Places -> Seq(Int)] :
        /\ t[1] = <<>> /\ t[Len(format.pieces) + 1] = printed
        /\ \A k \in DOMAIN format.pieces :
             t[k + 1] = t[k] \o Meaning(format.pieces[k])

\* printf's whole text is what its format means.
THEOREM WholeTextHolds == PrintfSpec => []WholeText
<1>1. ASSUME Inv, call # "printf", AllSound
      PROVE  \E t \in [Places -> Seq(Int)] :
               /\ t[1] = <<>> /\ t[Len(format.pieces) + 1] = printed
               /\ \A k \in DOMAIN format.pieces :
                    t[k + 1] = t[k] \o Meaning(format.pieces[k])
  <2> DEFINE N == Len(format.pieces)
  <2>1. Types /\ AllRegular /\ N \in Nat /\ DOMAIN format.pieces = 1..N
    BY <1>1, SoundIsRegular, FormatFacts DEF Inv, Types
  <2>2. PICK t : Trace(t, N + 1) /\ printed = t[N + 1]
    <3>1. CASE call = "fprintf"
      BY <1>1, <2>1, <3>1 DEF Inv, Composing, Again
    <3>2. CASE call \in {"kpanic", "done"}
      BY <1>1, <2>1, <3>2 DEF Inv, Finished, Begun
    <3> QED BY <1>1, <2>1, <3>1, <3>2 DEF Types
  <2>3. t \in [Places -> Seq(Int)] /\ t[1] = <<>>
    BY <2>2 DEF Trace, Places
  <2>4. ASSUME NEW k \in DOMAIN format.pieces
        PROVE  t[k + 1] = t[k] \o Meaning(format.pieces[k])
    <3>1. k \in 1..((N + 1) - 1)
      BY <2>1
    <3>2. Sound(format.pieces[k])
      BY <1>1 DEF AllSound
    <3> QED BY <2>2, <3>1, <3>2 DEF Trace
  <2> QED BY <2>2, <2>3, <2>4
<1> QED BY <1>1, Invariant, PTL DEF WholeText

\* kpanic shows of fprintf's text what printf would have shown.
THEOREM SameTextHolds == PrintfSpec => []SameText
<1>1. ASSUME Inv, call = "done",
             \A k \in DOMAIN format.pieces : Inert(format.pieces[k])
      PROVE  message = printed
  <2>1. AllRegular
    BY <1>1 DEF AllRegular, Regular, Inert
  <2>2. ~ HasColour
    BY <1>1 DEF HasColour, Inert
  <2> QED BY <1>1, <2>1, <2>2 DEF Inv, Finished
<1> QED BY <1>1, Invariant, PTL DEF SameText

\* What the kernel puts together from its own texts can be read.
THEOREM LegibleHolds == PrintfSpec => []Legible
<1>1. ASSUME Inv, AllSound, AllOfKernel
      PROVE  AllIn(printed, Shown) /\ AllIn(message, Shown)
  <2>1. AllRegular /\ Types
    BY <1>1, SoundIsRegular DEF Inv
  <2>2. AllIn(printed, Shown) /\ AllIn(buffer, Shown)
    BY <1>1 DEF Inv, Readable
  <2>3. CASE call \in {"printf", "fprintf"}
    <3>1. message = <<>>
      BY <1>1, <2>3 DEF Inv, Printing, Composing
    <3> QED BY <2>2, <3>1 DEF AllIn
  <2>4. CASE call = "kpanic"
    <3>1. message = SubSeq(buffer, 1, i) /\ i <= Len(buffer) /\ i \in Nat
          /\ buffer \in Seq(Int)
      BY <1>1, <2>1, <2>4 DEF Inv, Panicking, Types
    <3>2. ASSUME NEW j \in DOMAIN message
          PROVE  message[j] \in Shown
      <4>1. message = [l \in 1..i |-> buffer[l]]
        BY <3>1
      <4>2. j \in 1..i /\ message[j] = buffer[j] /\ j \in DOMAIN buffer
        BY <3>1, <4>1
      <4> QED BY <2>2, <4>2 DEF AllIn
    <3> QED BY <2>2, <3>2 DEF AllIn
  <2>5. CASE call = "done"
    <3>1. message = <<>> \/ message = printed
      BY <1>1, <2>1, <2>5 DEF Inv, Finished
    <3> QED BY <2>2, <3>1 DEF AllIn
  <2> QED BY <2>1, <2>3, <2>4, <2>5 DEF Types
<1>2. Inv => Legible
  BY <1>1 DEF Legible, AllOfKernel, AllIn, Shown
<1> QED BY <1>2, Invariant, PTL

-----------------------------------------------------------------------------
(***************************************************************************)
(* memset and memcpy.                                                      *)
(***************************************************************************)
CONSTANT Address

VARIABLES function, destination, source, num, pattern, memory, before, done,
          tail, pc

Mem == INSTANCE Memory WITH value <- pattern

\* What the qwords leave is less than a qword, and they end at a multiple of
\* eight: the arithmetic of mem.cpp's newnum.
LEMMA NewnumFacts ==
    ASSUME NEW n \in Nat
    PROVE  /\ n - (n % 8) \in Nat /\ n - (n % 8) <= n
           /\ (n - (n % 8)) % 8 = 0
           /\ n - (n - (n % 8)) <= 8
  BY SMT

\* The pattern of memset's value starts anew with every eight bytes.
LEMMA PatternStarts ==
    ASSUME NEW m \in Nat, m % 8 = 0, NEW k \in 0..7
    PROVE  (m + k) % 8 = k
  BY SMT

\* Every call starts with a sound state.
LEMMA MemoryInit == Mem!Init => Mem!Inv
  BY DEF Mem!Init, Mem!Inv, Mem!TypeOK, Mem!CallTypes, Mem!Progress,
         Mem!Written, Mem!Area

\* What memcpy has still to read has not been written by it.
LEMMA SourceUnread ==
    ASSUME Mem!Inv, Mem!Separate, function = "memcpy",
           NEW k \in Nat, done <= k, k < num
    PROVE  /\ source + k \in Address
           /\ memory[source + k] = before[source + k]
  <1>1. source + k \in Address
    BY DEF Mem!Inv, Mem!TypeOK, Mem!CallTypes, Mem!Area
  <1>2. source + k \notin Mem!Area(destination, done)
    BY DEF Mem!Inv, Mem!TypeOK, Mem!CallTypes, Mem!Separate, Mem!Area
  <1> QED BY <1>1, <1>2 DEF Mem!Inv, Mem!Written

\* A byte that a write of at most a qword gives to the area is a byte, and
\* the one that belongs there.
LEMMA SourceCorrect ==
    ASSUME Mem!Inv, NEW first \in Nat, first % 8 = 0, first <= done,
           NEW a \in Mem!Area(destination + done, num - done),
           a < destination + first + 8
    PROVE  /\ Mem!Source(a, first) \in Mem!Byte
           /\ Mem!Separate => Mem!Source(a, first) = Mem!Wanted(a)
  <1> DEFINE k == a - destination
  <1>1. /\ k \in Nat /\ done <= k /\ k < num
        /\ k - first \in 0..7
        /\ a - (destination + first) = k - first
        /\ a \in Mem!Area(destination, num)
    BY DEF Mem!Inv, Mem!TypeOK, Mem!CallTypes, Mem!Area
  <1>2. CASE function = "memset"
    <2>1. Mem!Source(a, first) = pattern[k - first]
      BY <1>1, <1>2 DEF Mem!Source
    <2>2. (first + (k - first)) % 8 = k - first
      BY <1>1, PatternStarts
    <2>3. k % 8 = k - first
      BY <2>2, <1>1
    <2>4. Mem!Wanted(a) = pattern[k - first]
      BY <1>1, <1>2, <2>3 DEF Mem!Wanted
    <2> QED BY <1>1, <2>1, <2>4 DEF Mem!Inv, Mem!TypeOK, Mem!CallTypes
  <1>3. CASE function = "memcpy"
    <2>1. Mem!Source(a, first) = memory[source + k]
      BY <1>3 DEF Mem!Source
    <2>2. source + k \in Address
      BY <1>1, <1>3 DEF Mem!Inv, Mem!TypeOK, Mem!CallTypes, Mem!Area
    <2>3. Mem!Separate => Mem!Source(a, first) = Mem!Wanted(a)
      <3> SUFFICES ASSUME Mem!Separate PROVE Mem!Source(a, first) = Mem!Wanted(a)
        OBVIOUS
      <3>1. memory[source + k] = before[source + k]
        BY <1>1, <1>3, SourceUnread
      <3> QED BY <1>1, <1>3, <2>1, <3>1 DEF Mem!Wanted
    <2> QED BY <2>1, <2>2, <2>3 DEF Mem!Inv, Mem!TypeOK
  <1> QED BY <1>2, <1>3 DEF Mem!Inv, Mem!TypeOK, Mem!CallTypes

\* A step that writes the next size bytes as they are wanted keeps what
\* Written says: the two writing steps are cases of it.
LEMMA BytesWritten ==
    ASSUME Mem!Inv, UNCHANGED Mem!call, NEW length \in Nat, done + length <= num,
           NEW V,
           memory' = [a \in Address |-> IF a \in Mem!Area(destination + done, length)
                                        THEN V[a] ELSE memory[a]],
           done' = done + length,
           \A a \in Mem!Area(destination + done, length) :
             V[a] \in Mem!Byte /\ (Mem!Separate => V[a] = Mem!Wanted(a))
    PROVE  memory' \in [Address -> Mem!Byte] /\ Mem!Written'
  <1>1. memory' \in [Address -> Mem!Byte]
    BY DEF Mem!Inv, Mem!TypeOK
  <1>2. /\ Mem!Separate' = Mem!Separate
        /\ \A a : Mem!Wanted(a)' = Mem!Wanted(a)
    BY DEF Mem!call, Mem!Separate, Mem!Wanted, Mem!Area
  <1>3. ASSUME NEW a \in Address, a \notin Mem!Area(destination', done')
        PROVE  memory'[a] = before'[a]
    <2>1. /\ a \notin Mem!Area(destination + done, length)
          /\ a \notin Mem!Area(destination, done)
      BY <1>3 DEF Mem!Inv, Mem!TypeOK, Mem!CallTypes, Mem!call, Mem!Area
    <2> QED BY <2>1 DEF Mem!Inv, Mem!Written, Mem!call
  <1>4. ASSUME Mem!Separate, NEW a \in Mem!Area(destination', done')
        PROVE  memory'[a] = Mem!Wanted(a)
    <2>1. a \in Address
      BY <1>4 DEF Mem!Inv, Mem!TypeOK, Mem!CallTypes, Mem!call, Mem!Area
    <2>2. CASE a \in Mem!Area(destination + done, length)
      BY <1>4, <2>1, <2>2
    <2>3. CASE a \notin Mem!Area(destination + done, length)
      <3>1. a \in Mem!Area(destination, done)
        BY <1>4, <2>3 DEF Mem!Inv, Mem!TypeOK, Mem!CallTypes, Mem!call, Mem!Area
      <3> QED BY <1>4, <2>1, <2>3, <3>1 DEF Mem!Inv, Mem!Written
    <2> QED BY <2>2, <2>3
  <1> QED BY <1>1, <1>2, <1>3, <1>4 DEF Mem!Written, Mem!call

\* No step of a call leaves the invariant.
LEMMA MemoryStep == Mem!Inv /\ [Mem!Next]_(Mem!vars) => Mem!Inv'
  <1> SUFFICES ASSUME Mem!Inv, [Mem!Next]_(Mem!vars) PROVE Mem!Inv'
    OBVIOUS
  <1>1. CASE Mem!Short
    BY <1>1 DEF Mem!Short, Mem!call, Mem!Inv, Mem!TypeOK, Mem!CallTypes,
                Mem!Progress, Mem!Written, Mem!Separate, Mem!Wanted, Mem!Area
  <1>2. CASE Mem!Long
    <2>1. 0 <= Mem!newnum /\ 0 % 8 = 0
      BY NewnumFacts DEF Mem!newnum, Mem!Inv, Mem!TypeOK, Mem!CallTypes
    <2> QED BY <1>2, <2>1 DEF Mem!Long, Mem!call, Mem!Inv, Mem!TypeOK,
                              Mem!CallTypes, Mem!Progress, Mem!Written,
                              Mem!Separate, Mem!Wanted, Mem!Area, Mem!newnum
  <1>3. CASE Mem!WriteQword
    <2>1. UNCHANGED Mem!call /\ Mem!CallTypes' /\ Mem!newnum' = Mem!newnum
      BY <1>3 DEF Mem!WriteQword, Mem!call, Mem!newnum, Mem!Inv, Mem!TypeOK,
                  Mem!CallTypes, Mem!Area
    <2>2. /\ done \in Nat /\ done % 8 = 0 /\ done < Mem!newnum
          /\ Mem!newnum \in Nat /\ Mem!newnum % 8 = 0 /\ Mem!newnum <= num
      BY <1>3, NewnumFacts DEF Mem!WriteQword, Mem!newnum, Mem!Inv, Mem!TypeOK,
                               Mem!CallTypes, Mem!Progress
    <2>3. done + 8 <= Mem!newnum /\ (done + 8) % 8 = 0
      BY <2>2
    <2>4. ASSUME NEW a \in Mem!Area(destination + done, 8)
          PROVE  Mem!Source(a, done) \in Mem!Byte
                 /\ (Mem!Separate => Mem!Source(a, done) = Mem!Wanted(a))
      <3>1. /\ a \in Mem!Area(destination + done, num - done)
            /\ a < destination + done + 8
        BY <2>2, <2>3, <2>4 DEF Mem!Inv, Mem!TypeOK, Mem!CallTypes, Mem!Area
      <3> QED BY <2>2, <3>1, SourceCorrect
    <2>5. memory' \in [Address -> Mem!Byte] /\ Mem!Written'
      <3> DEFINE V == [a \in Mem!Area(destination + done, 8) |-> Mem!Source(a, done)]
      <3>1. memory' = [a \in Address |-> IF a \in Mem!Area(destination + done, 8)
                                         THEN V[a] ELSE memory[a]]
        BY <1>3 DEF Mem!WriteQword
      <3>2. done' = done + 8 /\ done + 8 <= num
        BY <1>3, <2>2, <2>3 DEF Mem!WriteQword, Mem!Inv, Mem!TypeOK, Mem!CallTypes
      <3>3. \A a \in Mem!Area(destination + done, 8) :
              V[a] \in Mem!Byte /\ (Mem!Separate => V[a] = Mem!Wanted(a))
        BY <2>4
      <3> HIDE DEF V
      <3> QED BY <2>1, <3>1, <3>2, <3>3, BytesWritten
    <2>6. Mem!Progress' /\ done' \in 0..num' /\ tail' \in 0..num'
      BY <1>3, <2>1, <2>2, <2>3 DEF Mem!WriteQword, Mem!call, Mem!Inv, Mem!TypeOK,
                                    Mem!CallTypes, Mem!Progress
    <2> QED BY <1>3, <2>1, <2>5, <2>6 DEF Mem!WriteQword, Mem!Inv, Mem!TypeOK
  <1>4. CASE Mem!Remainder
    <2>1. done' = done /\ done = Mem!newnum
      BY <1>4, NewnumFacts DEF Mem!Remainder, Mem!newnum, Mem!Inv, Mem!TypeOK,
                               Mem!CallTypes, Mem!Progress
    <2>2. /\ Mem!newnum \in Nat /\ Mem!newnum % 8 = 0
          /\ Mem!newnum <= num /\ num - Mem!newnum <= 8
      BY NewnumFacts DEF Mem!newnum, Mem!Inv, Mem!TypeOK, Mem!CallTypes
    <2>3. Mem!Written'
      BY <1>4, <2>1 DEF Mem!Remainder, Mem!call, Mem!Inv, Mem!Written, Mem!Separate,
                        Mem!Wanted, Mem!Area
    <2>4. Mem!TypeOK'
      BY <1>4, <2>1, <2>2 DEF Mem!Remainder, Mem!call, Mem!Inv, Mem!TypeOK,
                              Mem!CallTypes, Mem!Area
    <2>5. Mem!Progress'
      BY <1>4, <2>1, <2>2 DEF Mem!Remainder, Mem!call, Mem!Progress, Mem!Inv,
                              Mem!TypeOK, Mem!CallTypes
    <2> QED BY <2>3, <2>4, <2>5 DEF Mem!Inv
  <1>5. CASE Mem!WriteByte
    <2>1. UNCHANGED Mem!call /\ Mem!CallTypes'
      BY <1>5 DEF Mem!WriteByte, Mem!call, Mem!Inv, Mem!TypeOK, Mem!CallTypes,
                  Mem!Area
    <2>2. /\ done \in Nat /\ tail \in Nat /\ tail % 8 = 0 /\ tail <= done
          /\ num - tail <= 8 /\ done < num
      BY <1>5 DEF Mem!WriteByte, Mem!Inv, Mem!TypeOK, Mem!CallTypes, Mem!Progress
    <2>3. ASSUME NEW a \in Mem!Area(destination + done, 1)
          PROVE  Mem!Source(a, tail) \in Mem!Byte
                 /\ (Mem!Separate => Mem!Source(a, tail) = Mem!Wanted(a))
      <3>1. /\ a \in Mem!Area(destination + done, num - done)
            /\ a < destination + tail + 8
        BY <2>2, <2>3 DEF Mem!Inv, Mem!TypeOK, Mem!CallTypes, Mem!Area
      <3> QED BY <2>2, <3>1, SourceCorrect
    <2>4. memory' \in [Address -> Mem!Byte] /\ Mem!Written'
      <3> DEFINE V == [a \in Mem!Area(destination + done, 1) |-> Mem!Source(a, tail)]
      <3>1. \A a \in Address : a \in Mem!Area(destination + done, 1)
                               <=> a = destination + done
        BY <2>2 DEF Mem!Inv, Mem!TypeOK, Mem!CallTypes, Mem!Area
      <3>2. memory' = [a \in Address |-> IF a = destination + done
                                         THEN Mem!Source(a, tail) ELSE memory[a]]
        BY <1>5 DEF Mem!WriteByte, Mem!Inv, Mem!TypeOK
      <3>3. memory' = [a \in Address |-> IF a \in Mem!Area(destination + done, 1)
                                         THEN V[a] ELSE memory[a]]
        BY <3>1, <3>2
      <3>4. done' = done + 1 /\ done + 1 <= num
        BY <1>5, <2>2 DEF Mem!WriteByte, Mem!Inv, Mem!TypeOK, Mem!CallTypes
      <3>5. \A a \in Mem!Area(destination + done, 1) :
              V[a] \in Mem!Byte /\ (Mem!Separate => V[a] = Mem!Wanted(a))
        BY <2>3
      <3> HIDE DEF V
      <3> QED BY <2>1, <3>3, <3>4, <3>5, BytesWritten
    <2>5. Mem!Progress' /\ done' \in 0..num' /\ tail' \in 0..num'
      BY <1>5, <2>1, <2>2 DEF Mem!WriteByte, Mem!call, Mem!Inv, Mem!TypeOK,
                              Mem!CallTypes, Mem!Progress
    <2> QED BY <1>5, <2>1, <2>4, <2>5 DEF Mem!WriteByte, Mem!Inv, Mem!TypeOK
  <1>6. CASE Mem!Return
    BY <1>6 DEF Mem!Return, Mem!call, Mem!Inv, Mem!TypeOK, Mem!CallTypes,
                Mem!Progress, Mem!Written, Mem!Separate, Mem!Wanted, Mem!Area
  <1>7. CASE UNCHANGED Mem!vars
    BY <1>7 DEF Mem!vars, Mem!call, Mem!Inv, Mem!TypeOK, Mem!CallTypes,
                Mem!Progress, Mem!Written, Mem!Separate, Mem!Wanted, Mem!Area,
                Mem!newnum
  <1> QED BY <1>1, <1>2, <1>3, <1>4, <1>5, <1>6, <1>7 DEF Mem!Next

\* The invariant holds all through every call of memset and memcpy.
LEMMA MemoryInvariant == Mem!Spec => []Mem!Inv
  BY MemoryInit, MemoryStep, PTL DEF Mem!Spec

\* memset and memcpy deliver what they are called for, whatever the length is
\* modulo eight and wherever the areas lie; memcpy as long as it does not copy
\* upwards into its own source.
THEOREM MemoryDelivers == Mem!Spec => []Mem!Delivers
  <1>1. ASSUME Mem!Inv PROVE Mem!Delivers
    <2> SUFFICES ASSUME pc = "return", Mem!Separate, NEW a \in Address
                 PROVE  memory[a] = Mem!Wanted(a)
      BY DEF Mem!Delivers
    <2>1. done = num
      BY <1>1 DEF Mem!Inv, Mem!Progress
    <2>2. CASE a \in Mem!Area(destination, num)
      BY <1>1, <2>1, <2>2 DEF Mem!Inv, Mem!Written
    <2>3. CASE a \notin Mem!Area(destination, num)
      BY <1>1, <2>1, <2>3 DEF Mem!Inv, Mem!Written, Mem!Wanted
    <2> QED BY <2>2, <2>3
  <1> QED BY <1>1, MemoryInvariant, PTL

\* Neither ever writes a byte outside the area it is called for, not even when
\* it copies upwards into its own source.
THEOREM MemoryStaysInArea == Mem!Spec => []Mem!StaysInArea
  <1>1. ASSUME Mem!Inv PROVE Mem!StaysInArea
    <2> SUFFICES ASSUME NEW a \in Address, a \notin Mem!Area(destination, num)
                 PROVE  memory[a] = before[a]
      BY DEF Mem!StaysInArea
    <2>1. a \notin Mem!Area(destination, done)
      BY <1>1 DEF Mem!Inv, Mem!TypeOK, Mem!CallTypes, Mem!Area
    <2> QED BY <1>1, <2>1 DEF Mem!Inv, Mem!Written
  <1> QED BY <1>1, MemoryInvariant, PTL
=============================================================================
