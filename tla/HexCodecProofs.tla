--------------------------- MODULE HexCodecProofs ---------------------------
(***************************************************************************)
(* Proofs about HexCodec: for any number of objects a character can name,  *)
(* any ids, any data an int holds, any allocator, and whichever powers of  *)
(* 16 the logarithms misjudge.                                             *)
(*                                                                         *)
(* A recursive function is whatever satisfies its equation, so that one    *)
(* has to be exhibited before the equation may be used.                    *)
(***************************************************************************)
EXTENDS HexCodec, TLAPS

-----------------------------------------------------------------------------
(***************************************************************************)
(* The digits of a number.                                                 *)
(***************************************************************************)
\* One more digit than h finds.
Longer(h) == [n \in UInt |-> IF n < 16 THEN <<n>> ELSE Append(h[n \div 16], n % 16)]

LEMMA DivFacts ==
    ASSUME NEW n \in UInt
    PROVE  /\ n \in Nat /\ n \div 16 \in UInt /\ n % 16 \in 0..15
           /\ n = 16 * (n \div 16) + (n % 16)
           /\ n \div 16 < 268435456
<1>1. n \in Nat
  BY DEF UInt
<1>2. PICK q \in Int : q = n \div 16
  BY <1>1
<1>3. PICK r \in Int : r = n % 16
  BY <1>1
<1>4. n = 16 * q + r /\ r \in 0..15
  BY <1>1, <1>2, <1>3
<1>5. q \in Nat /\ q < 268435456
  BY <1>1, <1>2, <1>4, SMT DEF UInt
<1>6. q \div 16 < 268435456
  BY <1>5, SMT
<1> QED
  BY <1>1, <1>2, <1>3, <1>4, <1>5, <1>6, SMT DEF UInt

\* What agrees on the numbers below p agrees, made longer, on those below 16 * p.
LEMMA LongerAgrees ==
    ASSUME NEW g, NEW h, NEW p \in Nat,
           \A m \in UInt : m < p => g[m] = h[m]
    PROVE  \A m \in UInt : m < 16 * p => Longer(g)[m] = Longer(h)[m]
<1> SUFFICES ASSUME NEW m \in UInt, m < 16 * p
             PROVE  Longer(g)[m] = Longer(h)[m]
  OBVIOUS
<1>1. m \div 16 \in UInt /\ m \div 16 < p
  <2>1. PICK q \in Nat : q = m \div 16
    BY DivFacts DEF UInt
  <2>2. PICK r \in 0..15 : r = m % 16
    BY DivFacts
  <2>3. m \in Nat /\ m = 16 * q + r
    BY <2>1, <2>2, DivFacts
  <2> QED
    BY <2>1, <2>3, DivFacts
<1>2. g[m \div 16] = h[m \div 16]
  BY <1>1
<1> QED
  BY <1>2 DEF Longer

\* There is a function that satisfies the equation of Hex: the one that finds eight
\* digits, for no number has a ninth.
LEMMA HexIsDefined == Hex = Longer(Hex)
<1> DEFINE h1 == [n \in UInt |-> <<n>>]
           h2 == Longer(h1)
           h3 == Longer(h2)
           h4 == Longer(h3)
           h5 == Longer(h4)
           h6 == Longer(h5)
           h7 == Longer(h6)
           h8 == Longer(h7)
           h9 == Longer(h8)
<1>1. \A m \in UInt : m < 16 => h2[m] = h1[m]
  BY DEF Longer
<1> HIDE DEF h1
<1>2. \A m \in UInt : m < 256 => h3[m] = h2[m]
  BY <1>1, LongerAgrees
<1> HIDE DEF h2
<1>3. \A m \in UInt : m < 4096 => h4[m] = h3[m]
  BY <1>2, LongerAgrees
<1> HIDE DEF h3
<1>4. \A m \in UInt : m < 65536 => h5[m] = h4[m]
  BY <1>3, LongerAgrees
<1> HIDE DEF h4
<1>5. \A m \in UInt : m < 1048576 => h6[m] = h5[m]
  BY <1>4, LongerAgrees
<1> HIDE DEF h5
<1>6. \A m \in UInt : m < 16777216 => h7[m] = h6[m]
  BY <1>5, LongerAgrees
<1> HIDE DEF h6
<1>7. \A m \in UInt : m < 268435456 => h8[m] = h7[m]
  BY <1>6, LongerAgrees
<1>8. h9 = h8
  <2> HIDE DEF h7
  <2>1. \A m \in UInt : h8[m \div 16] = h7[m \div 16]
    BY <1>7, DivFacts
  <2>2. \A m \in UInt : h9[m] = h8[m]
    <3> HIDE DEF h8
    <3>1. \A m \in UInt : Longer(h8)[m] = Longer(h7)[m]
      BY <2>1 DEF Longer
    <3> QED
      BY <3>1 DEF h8
  <2> HIDE DEF h8
  <2>3. h8 = [m \in UInt |-> h8[m]] /\ h9 = [m \in UInt |-> h9[m]]
    BY DEF Longer, h8
  <2> QED
    BY <2>2, <2>3
<1>9. \E f : f = [n \in UInt |-> IF n < 16 THEN <<n>> ELSE Append(f[n \div 16], n % 16)]
  <2> HIDE DEF h8
  <2>1. h8 = [n \in UInt |-> IF n < 16 THEN <<n>> ELSE Append(h8[n \div 16], n % 16)]
    BY <1>8 DEF Longer
  <2> QED
    BY <2>1
<1> QED
  BY <1>9 DEF Hex, Longer

LEMMA HexUnfolds ==
    ASSUME NEW n \in UInt
    PROVE  Hex[n] = IF n < 16 THEN <<n>> ELSE Append(Hex[n \div 16], n % 16)
<1>1. Longer(Hex)[n] = IF n < 16 THEN <<n>> ELSE Append(Hex[n \div 16], n % 16)
  BY DEF Longer
<1> QED
  BY <1>1, HexIsDefined

LEMMA HexShort ==
    ASSUME NEW n \in UInt, n < 16
    PROVE  Hex[n] = <<n>>
  BY HexUnfolds, Zenon

LEMMA HexLong ==
    ASSUME NEW n \in UInt, ~(n < 16), NEW q, NEW r, q = n \div 16, r = n % 16
    PROVE  Hex[n] = Append(Hex[q], r)
  BY HexUnfolds, Zenon

\* A digit is one of 16.
Digits == 0..15

\* n has k digits.
HasDigits(n, k) == Power[k] <= n /\ n \div 16 < Power[k]

LEMMA PowerFacts ==
    /\ Power[1] = 1 /\ Power[2] = 16 /\ Power[3] = 256 /\ Power[4] = 4096
    /\ Power[5] = 65536 /\ Power[6] = 1048576 /\ Power[7] = 16777216 /\ Power[8] = 268435456
    /\ \A k \in 1..8 : Power[k] \in Nat /\ Power[k] > 0
    /\ \A k \in 1..7 : Power[k + 1] = 16 * Power[k]
<1>1. /\ Power[1] = 1 /\ Power[2] = 16 /\ Power[3] = 256 /\ Power[4] = 4096
      /\ Power[5] = 65536 /\ Power[6] = 1048576 /\ Power[7] = 16777216 /\ Power[8] = 268435456
  BY SMT DEF Power
<1>2. ASSUME NEW k \in 1..8 PROVE Power[k] \in Nat /\ Power[k] > 0
  BY <1>1, SMT
<1>3. ASSUME NEW k \in 1..7 PROVE Power[k + 1] = 16 * Power[k]
  <2>1. k \in {1, 2, 3, 4, 5, 6, 7}
    OBVIOUS
  <2>2. /\ 1 + 1 = 2 /\ 2 + 1 = 3 /\ 3 + 1 = 4 /\ 4 + 1 = 5 /\ 5 + 1 = 6 /\ 6 + 1 = 7
        /\ 7 + 1 = 8
    OBVIOUS
  <2> QED
    BY <1>1, <2>1, <2>2, SMT
<1> QED
  BY <1>1, <1>2, <1>3

\* Powers grow, and there is no power between one and the next.
LEMMA PowersApart ==
    ASSUME NEW j \in 1..8, NEW k \in 1..8, j < k
    PROVE  16 * Power[j] <= Power[k]
<1>1. j \in {1, 2, 3, 4, 5, 6, 7} /\ k \in {2, 3, 4, 5, 6, 7, 8}
  OBVIOUS
<1> QED
  BY <1>1, PowerFacts, SMTT(30)

LEMMA HasDigitsMeans ==
    ASSUME NEW n \in UInt, NEW k \in 1..8
    PROVE  HasDigits(n, k) <=> (Power[k] <= n /\ n < 16 * Power[k])
<1>1. PICK q \in Nat : q = n \div 16 /\ q < 268435456
  BY DivFacts, SMT DEF UInt
<1>2. PICK r \in 0..15 : r = n % 16
  BY DivFacts
<1>3. PICK p \in Nat : p = Power[k]
  BY PowerFacts
<1>4. n \in Nat /\ n = 16 * q + r
  BY <1>1, <1>2, DivFacts
<1>5. q < p <=> n < 16 * p
  BY <1>2, <1>3, <1>4
<1> QED
  BY <1>1, <1>3, <1>5 DEF HasDigits

LEMMA NumberHasDigits ==
    ASSUME NEW n \in UInt, n /= 0
    PROVE  \E k \in 1..8 : HasDigits(n, k)
<1>1. n \in Nat /\ n < 16 * Power[8]
  <2>1. PICK q \in Nat : q = n \div 16 /\ q < 268435456
    BY DivFacts, SMT DEF UInt
  <2>2. PICK r \in 0..15 : r = n % 16
    BY DivFacts
  <2>3. n \in Nat /\ n = 16 * q + r
    BY <2>1, <2>2, DivFacts
  <2>4. n < 16 * 268435456
    BY <2>1, <2>2, <2>3, SMT
  <2> QED
    BY <2>3, <2>4, PowerFacts, SMT
<1>2. \E k \in 1..8 : Power[k] <= n /\ n < 16 * Power[k]
  <2>1. /\ 1 \in 1..8 /\ 2 \in 1..8 /\ 3 \in 1..8 /\ 4 \in 1..8
        /\ 5 \in 1..8 /\ 6 \in 1..8 /\ 7 \in 1..8 /\ 8 \in 1..8
    OBVIOUS
  <2> QED
    BY <1>1, <2>1, PowerFacts, SMT
<1> QED
  BY <1>2, HasDigitsMeans

LEMMA LengthIs ==
    ASSUME NEW n \in UInt, NEW k \in 1..8, HasDigits(n, k)
    PROVE  Length(n) = k
<1>1. n \in Nat /\ n /= 0
  <2>1. PICK p \in Nat : p = Power[k] /\ p > 0
    BY PowerFacts
  <2> QED
    BY <2>1 DEF HasDigits, UInt
<1>2. ASSUME NEW j \in 1..8, HasDigits(n, j) PROVE j = k
  <2>1. PICK p \in Nat : p = Power[k]
    BY PowerFacts
  <2>2. PICK q \in Nat : q = Power[j]
    BY PowerFacts
  <2>3. p <= n /\ n < 16 * p /\ q <= n /\ n < 16 * q
    BY <1>2, <2>1, <2>2, HasDigitsMeans
  <2>4. (j < k => 16 * q <= p) /\ (k < j => 16 * p <= q)
    BY <2>1, <2>2, PowersApart
  <2> QED
    BY <1>1, <2>3, <2>4
<1>3. Length(n) = CHOOSE i \in 1..8 : HasDigits(n, i)
  BY <1>1 DEF Length, HasDigits
<1> QED
  BY <1>2, <1>3

\* sprintf writes as many digits as lie between the powers of 16.
LEMMA LengthIsWritten ==
    ASSUME NEW n \in UInt
    PROVE  Hex[n] \in Seq(Digits) /\ Len(Hex[n]) = Length(n) /\ Length(n) \in 1..8
<1> DEFINE Written(k) == \A m \in UInt : HasDigits(m, k) =>
                             Hex[m] \in Seq(Digits) /\ Len(Hex[m]) = k
<1>1. Written(1)
  <2> SUFFICES ASSUME NEW m \in UInt, HasDigits(m, 1)
               PROVE  Hex[m] \in Seq(Digits) /\ Len(Hex[m]) = 1
    OBVIOUS
  <2>1. m \in Nat /\ m < 16
    BY HasDigitsMeans, PowerFacts DEF UInt
  <2>2. Hex[m] = <<m>>
    BY <2>1, HexUnfolds, Zenon
  <2>3. m \in Digits
    BY <2>1 DEF Digits
  <2> QED
    BY <2>2, <2>3
<1>2. ASSUME NEW k \in 1..7, Written(k) PROVE Written(k + 1)
  <2> SUFFICES ASSUME NEW m \in UInt, HasDigits(m, k + 1)
               PROVE  Hex[m] \in Seq(Digits) /\ Len(Hex[m]) = k + 1
    OBVIOUS
  <2>1. PICK p \in Nat : p = Power[k] /\ Power[k + 1] = 16 * p /\ p > 0
    BY PowerFacts
  <2>2. PICK q \in Nat : q = m \div 16 /\ q \in UInt
    BY DivFacts, SMT DEF UInt
  <2>3. PICK r \in 0..15 : r = m % 16
    BY DivFacts
  <2>4. m \in Nat /\ m = 16 * q + r
    BY <2>2, <2>3, DivFacts
  <2>5. 16 * p <= m /\ q < 16 * p
    BY <2>1, <2>2 DEF HasDigits
  <2>6. p <= q /\ ~(m < 16)
    BY <2>1, <2>3, <2>4, <2>5
  <2>7. HasDigits(q, k)
    BY <2>1, <2>2, <2>5, <2>6, HasDigitsMeans
  <2>8. Hex[q] \in Seq(Digits) /\ Len(Hex[q]) = k
    BY <1>2, <2>2, <2>7
  <2>9. Hex[m] = Append(Hex[q], r) /\ r \in Digits
    BY <2>2, <2>3, <2>6, HexUnfolds DEF Digits
  <2> QED
    BY <2>8, <2>9
<1> HIDE DEF Written
<1>3. Written(1) /\ Written(2) /\ Written(3) /\ Written(4)
  BY <1>1, <1>2
<1>4. Written(5) /\ Written(6) /\ Written(7) /\ Written(8)
  BY <1>2, <1>3
<1>5. CASE n = 0
  <2>1. Hex[n] = <<n>>
    <3>1. n < 16
      BY <1>5
    <3> QED
      BY <3>1, HexUnfolds, Zenon
  <2>2. Length(n) = 1
    BY <1>5 DEF Length
  <2>3. n \in Digits
    BY <1>5 DEF Digits
  <2> QED
    BY <2>1, <2>2, <2>3
<1>6. CASE n /= 0
  <2>1. PICK k \in 1..8 : HasDigits(n, k)
    BY <1>6, NumberHasDigits
  <2>2. Written(k)
    BY <1>3, <1>4, <2>1
  <2> QED
    BY <2>1, <2>2, LengthIs DEF Written
<1> QED
  BY <1>5, <1>6

-----------------------------------------------------------------------------
(***************************************************************************)
(* The number that digits stand for.                                       *)
(***************************************************************************)
\* v is the function of which HexStringToInt takes the last value.
Converts(v, s) == v = [k \in 0..Len(s) |-> IF k = 0 THEN 0 ELSE 16 * v[k - 1] + s[k]]

LEMMA HexStringUnfolds ==
    ASSUME NEW s, NEW w, Converts(w, s)
    PROVE  \E v : Converts(v, s) /\ HexStringToInt(s) = v[Len(s)]
<1> DEFINE v == CHOOSE f : f = [k \in 0..Len(s) |-> IF k = 0 THEN 0 ELSE 16 * f[k - 1] + s[k]]
<1>1. HexStringToInt(s) = v[Len(s)]
  BY DEF HexStringToInt
<1>2. v = [k \in 0..Len(s) |-> IF k = 0 THEN 0 ELSE 16 * v[k - 1] + s[k]]
  <2>1. \E f : f = [k \in 0..Len(s) |-> IF k = 0 THEN 0 ELSE 16 * f[k - 1] + s[k]]
    BY DEF Converts
  <2> QED
    BY <2>1
<1> QED
  BY <1>1, <1>2 DEF Converts

LEMMA OneDigit ==
    ASSUME NEW s \in Seq(Digits), Len(s) = 1
    PROVE  HexStringToInt(s) = s[1]
<1>0. s[1] \in Nat
  BY DEF Digits
<1>1. Converts([k \in 0..1 |-> IF k = 0 THEN 0 ELSE s[1]], s)
  BY <1>0 DEF Converts
<1>2. PICK v : Converts(v, s) /\ HexStringToInt(s) = v[Len(s)]
  BY <1>1, HexStringUnfolds
<1>3. v[0] = 0 /\ v[1] = 16 * v[0] + s[1]
  BY <1>2 DEF Converts
<1> QED
  BY <1>0, <1>2, <1>3

LEMMA LastDigit ==
    ASSUME NEW n \in UInt
    PROVE  \E q \in UInt, r \in Digits :
               /\ q = n \div 16 /\ r = n % 16
               /\ q \in Nat /\ r \in 0..15 /\ n = 16 * q + r
<1>1. PICK q \in UInt : q = n \div 16
  BY DivFacts
<1>2. PICK r \in 0..15 : r = n % 16
  BY DivFacts
<1>3. n = 16 * q + r
  BY <1>1, <1>2, DivFacts
<1>4. q \in Nat
  BY SMT DEF UInt
<1>5. r \in Digits
  BY DEF Digits
<1> QED
  BY <1>1, <1>2, <1>3, <1>4, <1>5

\* The number of four digits.
Number(a, b, c, d) == 4096 * a + 256 * b + 16 * c + d

LEMMA FourDigits ==
    ASSUME NEW s \in Seq(Digits), Len(s) = 4
    PROVE  HexStringToInt(s) = Number(s[1], s[2], s[3], s[4])
<1>0. PICK a \in Nat, b \in Nat, c \in Nat, d \in Nat :
         a = s[1] /\ b = s[2] /\ c = s[3] /\ d = s[4]
  <2>1. 1 \in 1..4 /\ 2 \in 1..4 /\ 3 \in 1..4 /\ 4 \in 1..4
    OBVIOUS
  <2>2. s[1] \in Digits /\ s[2] \in Digits /\ s[3] \in Digits /\ s[4] \in Digits
    BY <2>1
  <2>3. Digits \subseteq Nat
    BY DEF Digits
  <2> QED
    BY <2>2, <2>3
<1> DEFINE w == [k \in 0..4 |-> IF k = 0 THEN 0
                                ELSE IF k = 1 THEN a
                                ELSE IF k = 2 THEN 16 * a + b
                                ELSE IF k = 3 THEN 16 * (16 * a + b) + c
                                ELSE 16 * (16 * (16 * a + b) + c) + d]
<1>1. Converts(w, s)
  <2>1. ASSUME NEW k \in 0..4
        PROVE  w[k] = IF k = 0 THEN 0 ELSE 16 * w[k - 1] + s[k]
    <3>1. k \in {0, 1, 2, 3, 4}
      OBVIOUS
    <3>2. CASE k = 0
      BY <3>2
    <3>3. CASE k = 1
      BY <1>0, <3>3
    <3>4. CASE k = 2
      BY <1>0, <3>4
    <3>5. CASE k = 3
      BY <1>0, <3>5
    <3>6. CASE k = 4
      BY <1>0, <3>6
    <3> QED
      BY <3>1, <3>2, <3>3, <3>4, <3>5, <3>6
  <2>2. w = [k \in 0..4 |-> w[k]]
    OBVIOUS
  <2> HIDE DEF w
  <2> QED
    BY <2>1, <2>2 DEF Converts
<1> HIDE DEF w
<1>2. PICK v : Converts(v, s) /\ HexStringToInt(s) = v[4]
  BY <1>1, HexStringUnfolds
<1>3. /\ v[0] = 0 /\ v[1] = 16 * v[0] + s[1] /\ v[2] = 16 * v[1] + s[2]
      /\ v[3] = 16 * v[2] + s[3] /\ v[4] = 16 * v[3] + s[4]
  BY <1>2 DEF Converts
<1>4. v[1] = a /\ v[2] = 16 * a + b
  BY <1>0, <1>3
<1>5. PICK x \in Nat : x = v[3] /\ x = 256 * a + 16 * b + c
  <2>1. v[3] = 16 * (16 * a + b) + c
    BY <1>0, <1>3, <1>4
  <2> QED
    BY <2>1, SMT
<1>6. v[4] = 4096 * a + 256 * b + 16 * c + d
  <2>1. v[4] = 16 * x + d
    BY <1>0, <1>3, <1>5
  <2> QED
    BY <1>5, <2>1, SMT
<1>7. HexStringToInt(s) = Number(a, b, c, d)
  BY <1>2, <1>6, SMT DEF Number
<1> QED
  BY <1>0, <1>7, Zenon

-----------------------------------------------------------------------------
(***************************************************************************)
(* A packet.                                                               *)
(***************************************************************************)
\* A power of 16 that is misjudged is a uint of more than one digit.
LEMMA MisjudgedIs ==
    ASSUME NEW n \in Misjudged
    PROVE  n \in UInt /\ ~(n < 16)
<1>1. PICK k \in 2..8 : n = Power[k]
  BY CodecAssumption
<1>2. k \in {2, 3, 4, 5, 6, 7, 8}
  BY <1>1
<1>3. n \in Nat /\ n >= 16 /\ n <= 268435456
  BY <1>1, <1>2, PowerFacts, SMT
<1> QED
  BY <1>3, SMT DEF UInt

\* The array holds the digits of the number that is written.
LEMMA IntToHexStringIsHex ==
    ASSUME NEW n \in UInt
    PROVE  /\ AsWritten(n) \in UInt
           /\ IntToHexString(n) = Hex[AsWritten(n)] /\ Size(n) = Length(AsWritten(n))
<1>1. CASE n \notin Misjudged
  <2>1. PICK h \in Seq(Digits) : h = Hex[n] /\ Len(h) = Length(n)
    BY LengthIsWritten
  <2>2. SubSeq(h, 1, Len(h)) = h
    OBVIOUS
  <2>3. Size(n) = Length(n) /\ AsWritten(n) = n
    BY <1>1 DEF Size, AsWritten
  <2> QED
    BY <2>1, <2>2, <2>3 DEF IntToHexString
<1>2. CASE n \in Misjudged
  <2>1. PICK q \in UInt, r \in Digits : q = n \div 16 /\ r = n % 16
    BY DivFacts DEF Digits
  <2>2. PICK g \in Seq(Digits) : g = Hex[q] /\ Len(g) = Length(q)
    BY LengthIsWritten
  <2>3. Hex[n] = Append(g, r)
    BY <1>2, <2>1, <2>2, MisjudgedIs, HexLong
  <2>4. Len(Append(g, r)) = Len(g) + 1 /\ SubSeq(Append(g, r), 1, Len(g)) = g
    OBVIOUS
  <2>5. Length(n) = Len(g) + 1
    BY <2>3, <2>4, LengthIsWritten
  <2>6. Size(n) = Len(g)
    <3>1. Size(n) = Length(n) - 1
      BY <1>2 DEF Size
    <3> QED
      BY <2>5, <3>1
  <2>7. AsWritten(n) = q
    BY <1>2, <2>1 DEF AsWritten
  <2> QED
    BY <2>1, <2>2, <2>3, <2>4, <2>6, <2>7 DEF IntToHexString
<1> QED
  BY <1>1, <1>2

LEMMA SmallHex ==
    ASSUME NEW n \in 0..15
    PROVE  n \in UInt /\ Size(n) = 1 /\ IntToHexString(n) = <<n>>
<1>1. n \in UInt
  BY SMT DEF UInt
<1>2. n < 16
  OBVIOUS
<1>3. Hex[n] = <<n>>
  BY <1>1, <1>2, HexUnfolds, Zenon
<1>4. AsWritten(n) = n
  BY <1>2, MisjudgedIs DEF AsWritten
<1>5. Length(n) = 1
  <2>1. Len(Hex[n]) = 1
    BY <1>3
  <2> QED
    BY <1>1, <2>1, LengthIsWritten
<1> QED
  BY <1>1, <1>3, <1>4, <1>5, IntToHexStringIsHex, Zenon

\* A number has four digits at most exactly when it is below the fifth power.
Short(n) == n < 65536

LEMMA FourDigitsShort ==
    ASSUME NEW n \in UInt
    PROVE  Length(n) <= 4 <=> Short(n)
<1>0. n \in Nat /\ Length(n) \in 1..8
  BY LengthIsWritten, SMT DEF UInt
<1>1. CASE n = 0
  <2>1. Length(n) = 1
    BY <1>1 DEF Length
  <2> QED
    BY <1>1, <2>1, SMT DEF Short
<1>2. CASE n /= 0
  <2>1. PICK k \in 1..8 : HasDigits(n, k) /\ Length(n) = k
    BY <1>2, NumberHasDigits, LengthIs, SMT
  <2>2. PICK p \in Nat : p = Power[k] /\ p <= n /\ n < 16 * p
    BY <2>1, PowerFacts, HasDigitsMeans, SMT
  <2>3. k <= 4 => 16 * p <= 65536
    <3>1. k <= 4 => k = 1 \/ k = 2 \/ k = 3 \/ k = 4
      BY SMT
    <3> QED
      BY <2>2, <3>1, PowerFacts, SMT
  <2>4. k > 4 => p >= 65536
    <3>1. k > 4 => k = 5 \/ k = 6 \/ k = 7 \/ k = 8
      BY SMT
    <3> QED
      BY <2>2, <3>1, PowerFacts, SMT
  <2> QED
    BY <1>0, <2>1, <2>2, <2>3, <2>4, SMT DEF Short
<1> QED
  BY <1>1, <1>2, SMT

\* An int is a uint, or negative and of eight digits.
LEMMA IntIs ==
    ASSUME NEW n \in Int32
    PROVE  (n >= 0 /\ n \in UInt) \/ (n < 0 /\ Size(n) = 8 /\ ~Fits(n))
<1>1. n \in Int
  BY SMT DEF Int32
<1>2. CASE n >= 0
  <2>1. n \div 16 < 268435456
    BY <1>1, SMT DEF Int32
  <2>2. n \in Nat
    BY <1>1, <1>2
  <2> QED
    BY <1>2, <2>1, <2>2, SMT DEF UInt
<1>3. CASE n < 0
  <2>1. n \notin Misjudged
    BY <1>1, <1>3, MisjudgedIs
  <2>2. Size(n) = 8
    <3>1. Length(n) = 8
      BY <1>3 DEF Length
    <3> QED
      BY <2>1, <3>1 DEF Size
  <2>3. ~Fits(n)
    BY <1>1, <1>3, SMT DEF Fits
  <2> QED
    BY <1>3, <2>2, <2>3
<1> QED
  BY <1>1, <1>2, <1>3

LEMMA FitsIs ==
    ASSUME NEW n
    PROVE  Fits(n) <=> n >= 0 /\ Short(AsWritten(n))
  BY SMT DEF Fits, Short

LEMMA FourDigitsFit ==
    ASSUME NEW n \in Int32
    PROVE  Size(n) <= 4 <=> Fits(n)
<1>1. CASE n >= 0 /\ n \in UInt
  <2>1. AsWritten(n) \in UInt /\ Size(n) = Length(AsWritten(n))
    BY <1>1, IntToHexStringIsHex
  <2>2. Length(AsWritten(n)) <= 4 <=> Short(AsWritten(n))
    BY <2>1, FourDigitsShort
  <2> QED
    BY <1>1, <2>1, <2>2, FitsIs, Zenon
<1>2. CASE n < 0 /\ Size(n) = 8 /\ ~Fits(n)
  BY <1>2
<1> QED
  BY <1>1, <1>2, IntIs

\* The digits stand at the right of the field, and zeros before them.
LEMMA DataFieldIs ==
    ASSUME NEW h \in Seq(Digits), NEW l \in 1..4, Len(h) = l
    PROVE  /\ DataField(h) \in Seq(Digits) /\ Len(DataField(h)) = 4
           /\ \A k \in 1..4 : DataField(h)[k] = IF k <= 4 - l THEN 0 ELSE h[k - (4 - l)]
<1>1. PICK z \in Seq(Digits) : z = [k \in 1..(4 - l) |-> 0] /\ Len(z) = 4 - l
  <2>1. PICK m \in Nat : m = 4 - l
    OBVIOUS
  <2>2. [k \in 1..m |-> 0] \in Seq(Digits) /\ Len([k \in 1..m |-> 0]) = m
    BY DEF Digits
  <2> QED
    BY <2>1, <2>2
<1>2. DataField(h) = z \o h
  BY <1>1 DEF DataField
<1>3. /\ z \o h \in Seq(Digits) /\ Len(z \o h) = (4 - l) + l
      /\ \A k \in 1..4 : (z \o h)[k] = IF k <= 4 - l THEN z[k] ELSE h[k - (4 - l)]
  BY <1>1
<1>4. (4 - l) + l = 4 /\ \A k \in 1..(4 - l) : z[k] = 0
  BY <1>1
<1> QED
  BY <1>2, <1>3, <1>4

\* Hex[n] is Hex[q] with the digit r behind it.
Follows(n, q, r) ==
    /\ \A x : Len(Hex[q]) = 1 /\ Hex[q][1] = x =>
                  Len(Hex[n]) = 2 /\ Hex[n][1] = x /\ Hex[n][2] = r
    /\ \A x, y : Len(Hex[q]) = 2 /\ Hex[q][1] = x /\ Hex[q][2] = y =>
                     Len(Hex[n]) = 3 /\ Hex[n][1] = x /\ Hex[n][2] = y /\ Hex[n][3] = r
    /\ \A x, y, z : Len(Hex[q]) = 3 /\ Hex[q][1] = x /\ Hex[q][2] = y /\ Hex[q][3] = z =>
                        /\ Len(Hex[n]) = 4
                        /\ Hex[n][1] = x /\ Hex[n][2] = y /\ Hex[n][3] = z /\ Hex[n][4] = r

LEMMA LongerBy ==
    ASSUME NEW n \in UInt, ~(n < 16),
           NEW q \in UInt, NEW r \in Digits, q = n \div 16, r = n % 16
    PROVE  Follows(n, q, r)
<1>1. PICK g \in Seq(Digits) : g = Hex[q]
  BY LengthIsWritten
<1>2. Hex[n] = Append(g, r)
  BY <1>1, HexLong
<1>3. ASSUME NEW l \in 1..3, NEW m, m = l + 1, Len(g) = l
      PROVE  /\ Len(Hex[n]) = m /\ Hex[n][m] = r
             /\ \A k \in 1..l : Hex[n][k] = g[k]
  <2>1. /\ Len(Append(g, r)) = l + 1 /\ Append(g, r)[l + 1] = r
        /\ \A k \in 1..l : Append(g, r)[k] = g[k]
    BY <1>3
  <2> QED
    BY <1>2, <1>3, <2>1
<1>4. Len(g) = 1 => Len(Hex[n]) = 2 /\ Hex[n][1] = g[1] /\ Hex[n][2] = r
  <2>1. 1 \in 1..3 /\ 2 = 1 + 1 /\ 1 \in 1..1
    OBVIOUS
  <2> QED
    BY <1>3, <2>1, Zenon
<1>5. Len(g) = 2 =>
         Len(Hex[n]) = 3 /\ Hex[n][1] = g[1] /\ Hex[n][2] = g[2] /\ Hex[n][3] = r
  <2>1. 2 \in 1..3 /\ 3 = 2 + 1 /\ 1 \in 1..2 /\ 2 \in 1..2
    OBVIOUS
  <2> QED
    BY <1>3, <2>1, Zenon
<1>6. Len(g) = 3 =>
         /\ Len(Hex[n]) = 4
         /\ Hex[n][1] = g[1] /\ Hex[n][2] = g[2] /\ Hex[n][3] = g[3] /\ Hex[n][4] = r
  <2>1. 3 \in 1..3 /\ 4 = 3 + 1 /\ 1 \in 1..3 /\ 2 \in 1..3
    OBVIOUS
  <2> QED
    BY <1>3, <2>1, Zenon
<1> QED
  BY <1>1, <1>4, <1>5, <1>6, Zenon DEF Follows

\* Hex[n] is the digits given of it, which are l.
Shows(n, l, a, b, c, d) ==
    /\ Len(Hex[n]) = l
    /\ l = 1 => a = 0 /\ b = 0 /\ c = 0 /\ Hex[n][1] = d
    /\ l = 2 => a = 0 /\ b = 0 /\ Hex[n][1] = c /\ Hex[n][2] = d
    /\ l = 3 => a = 0 /\ Hex[n][1] = b /\ Hex[n][2] = c /\ Hex[n][3] = d
    /\ l = 4 => Hex[n][1] = a /\ Hex[n][2] = b /\ Hex[n][3] = c /\ Hex[n][4] = d

\* The digits of a number of four at most, the last one first: there may be fewer.
LEMMA DigitsAre ==
    ASSUME NEW n \in UInt, Short(n)
    PROVE  \E a, b, c, d \in Digits :
               /\ n = Number(a, b, c, d)
               /\ \E l \in 1..4 : Shows(n, l, a, b, c, d)
<1>0. n \in Nat /\ n < 65536
  BY SMT DEF UInt, Short
<1>1. PICK q1 \in UInt, d \in Digits :
         /\ q1 = n \div 16 /\ d = n % 16
         /\ q1 \in Nat /\ d \in 0..15 /\ n = 16 * q1 + d
  BY LastDigit
<1>2. PICK q2 \in UInt, c \in Digits :
         /\ q2 = q1 \div 16 /\ c = q1 % 16
         /\ q2 \in Nat /\ c \in 0..15 /\ q1 = 16 * q2 + c
  BY LastDigit
<1>3. PICK a \in UInt, b \in Digits :
         /\ a = q2 \div 16 /\ b = q2 % 16
         /\ a \in Nat /\ b \in 0..15 /\ q2 = 16 * a + b
  BY LastDigit
<1>4. a < 16
  BY <1>0, <1>1, <1>2, <1>3, SMT
<1>5. a \in Digits
  BY <1>3, <1>4 DEF Digits
<1>6. n = Number(a, b, c, d)
  BY <1>0, <1>1, <1>2, <1>3, SMT DEF Number
<1>7. \A m \in UInt : m < 16 => Len(Hex[m]) = 1 /\ Hex[m][1] = m
  BY HexShort
<1>8. CASE n < 16
  <2>1. a = 0 /\ b = 0 /\ c = 0 /\ n = d
    BY <1>1, <1>2, <1>3, <1>8, SMT
  <2>2. Shows(n, 1, a, b, c, d)
    BY <1>7, <1>8, <2>1, SMT DEF Shows
  <2> QED
    BY <1>5, <1>6, <2>2
<1>9. /\ ~(n < 16) => Follows(n, q1, d)
      /\ ~(q1 < 16) => Follows(q1, q2, c)
      /\ ~(q2 < 16) => Follows(q2, a, b)
  BY <1>1, <1>2, <1>3, LongerBy
<1>10. CASE ~(n < 16) /\ q1 < 16
  <2>1. a = 0 /\ b = 0 /\ q1 = c
    BY <1>1, <1>2, <1>3, <1>10, SMT
  <2>2. Len(Hex[q1]) = 1 /\ Hex[q1][1] = c
    BY <1>7, <1>10, <2>1
  <2>3. Len(Hex[n]) = 2 /\ Hex[n][1] = c /\ Hex[n][2] = d
    BY <1>9, <1>10, <2>2 DEF Follows
  <2>4. Shows(n, 2, a, b, c, d)
    BY <2>1, <2>3 DEF Shows
  <2> QED
    BY <1>5, <1>6, <2>4
<1>11. CASE ~(n < 16) /\ ~(q1 < 16) /\ q2 < 16
  <2>1. a = 0 /\ q2 = b
    BY <1>2, <1>3, <1>11, SMT
  <2>2. Len(Hex[q2]) = 1 /\ Hex[q2][1] = b
    BY <1>7, <1>11, <2>1
  <2>3. Len(Hex[q1]) = 2 /\ Hex[q1][1] = b /\ Hex[q1][2] = c
    BY <1>9, <1>11, <2>2 DEF Follows
  <2>4. Len(Hex[n]) = 3 /\ Hex[n][1] = b /\ Hex[n][2] = c /\ Hex[n][3] = d
    BY <1>9, <1>11, <2>3 DEF Follows
  <2>5. Shows(n, 3, a, b, c, d)
    BY <2>1, <2>4 DEF Shows
  <2> QED
    BY <1>5, <1>6, <2>5
<1>12. CASE ~(n < 16) /\ ~(q1 < 16) /\ ~(q2 < 16)
  <2>1. Len(Hex[a]) = 1 /\ Hex[a][1] = a
    BY <1>4, <1>7
  <2>2. Len(Hex[q2]) = 2 /\ Hex[q2][1] = a /\ Hex[q2][2] = b
    BY <1>9, <1>12, <2>1 DEF Follows
  <2>3. Len(Hex[q1]) = 3 /\ Hex[q1][1] = a /\ Hex[q1][2] = b /\ Hex[q1][3] = c
    BY <1>9, <1>12, <2>2 DEF Follows
  <2>4. /\ Len(Hex[n]) = 4
        /\ Hex[n][1] = a /\ Hex[n][2] = b /\ Hex[n][3] = c /\ Hex[n][4] = d
    BY <1>9, <1>12, <2>3 DEF Follows
  <2>5. Shows(n, 4, a, b, c, d)
    BY <2>4 DEF Shows
  <2> QED
    BY <1>5, <1>6, <2>5
<1> QED
  BY <1>8, <1>10, <1>11, <1>12, Zenon

\* What is read from the field of a number is the number.
LEMMA FieldReads ==
    ASSUME NEW n \in UInt, Short(n)
    PROVE  /\ DataField(Hex[n]) \in Seq(Digits)
           /\ Len(DataField(Hex[n])) = 4
           /\ HexStringToInt(DataField(Hex[n])) = n
<1>1. PICK a \in Digits, b \in Digits, c \in Digits, d \in Digits, l \in 1..4 :
         n = Number(a, b, c, d) /\ Shows(n, l, a, b, c, d)
  BY DigitsAre
<1>2. PICK h \in Seq(Digits) : h = Hex[n] /\ Len(h) = l
  BY <1>1, LengthIsWritten DEF Shows
<1>3. PICK field \in Seq(Digits) : field = DataField(h) /\ Len(field) = 4
      /\ \A k \in 1..4 : field[k] = IF k <= 4 - l THEN 0 ELSE h[k - (4 - l)]
  BY <1>2, DataFieldIs
<1>4. field[1] = a /\ field[2] = b /\ field[3] = c /\ field[4] = d
  <2>1. CASE l = 1
    BY <1>1, <1>2, <1>3, <2>1 DEF Shows
  <2>2. CASE l = 2
    BY <1>1, <1>2, <1>3, <2>2 DEF Shows
  <2>3. CASE l = 3
    BY <1>1, <1>2, <1>3, <2>3 DEF Shows
  <2>4. CASE l = 4
    BY <1>1, <1>2, <1>3, <2>4 DEF Shows
  <2> QED
    BY <2>1, <2>2, <2>3, <2>4
<1>5. HexStringToInt(field) = n
  <2>1. HexStringToInt(field) = Number(field[1], field[2], field[3], field[4])
    BY <1>3, FourDigits
  <2> QED
    BY <1>1, <1>4, <2>1, Zenon
<1>6. DataField(Hex[n]) = field
  BY <1>2, <1>3
<1> QED
  BY <1>3, <1>5, <1>6

\* What is read from the field of the data is what is written of it.
LEMMA DataFieldReads ==
    ASSUME NEW n \in UInt, Fits(n)
    PROVE  /\ DataField(IntToHexString(n)) \in Seq(Digits)
           /\ Len(DataField(IntToHexString(n))) = 4
           /\ HexStringToInt(DataField(IntToHexString(n))) = AsWritten(n)
<1>1. PICK m \in UInt : m = AsWritten(n) /\ IntToHexString(n) = Hex[m]
  BY IntToHexStringIsHex
<1>2. Short(m)
  BY <1>1, FitsIs, Zenon
<1> QED
  BY <1>1, <1>2, FieldReads

LEMMA Single ==
    ASSUME NEW d \in Digits
    PROVE  <<d>> \in Seq(Digits) /\ Len(<<d>>) = 1 /\ <<d>>[1] = d
  OBVIOUS

\* The elements of two sequences joined, and of a part of one.
Joined(s, p, q, m, n, l) ==
    /\ s \in Seq(Digits) /\ Len(s) = l
    /\ \A k \in 1..m : s[k] = p[k]
    /\ \A k \in 1..n, i \in 1..l : i = m + k => s[i] = q[k]

LEMMA JoinedIs ==
    ASSUME NEW m \in Nat, NEW n \in Nat, NEW l \in Nat, l = m + n,
           NEW p \in Seq(Digits), NEW q \in Seq(Digits), Len(p) = m, Len(q) = n
    PROVE  Joined(p \o q, p, q, m, n, l)
  BY DEF Joined

Part(t, s, i, n, l) ==
    /\ t \in Seq(Digits) /\ Len(t) = l
    /\ \A k \in 1..l, m \in 1..n : m = i + k - 1 => t[k] = s[m]

LEMMA PartIs ==
    ASSUME NEW n \in Nat, NEW i \in 1..n, NEW j \in i..n, NEW l \in Nat, l = j - i + 1,
           NEW s \in Seq(Digits), Len(s) = n
    PROVE  Part(SubSeq(s, i, j), s, i, n, l)
  BY DEF Part

\* The characters of a packet, and what ReadCommand makes of them.
Line(cmd, id, data) ==
    IntToHexString(cmd) \o IntToHexString(id) \o DataField(IntToHexString(data))

LEMMA LineReads ==
    ASSUME NEW cmd \in Digits, NEW id \in Digits, NEW data \in UInt, Fits(data)
    PROVE  /\ Len(Line(cmd, id, data)) = 6
           /\ HexStringToInt(SubSeq(Line(cmd, id, data), 1, 1)) = cmd
           /\ HexStringToInt(SubSeq(Line(cmd, id, data), 2, 2)) = id
           /\ HexStringToInt(SubSeq(Line(cmd, id, data), 3, 6)) = AsWritten(data)
<1>0. IntToHexString(cmd) = <<cmd>> /\ IntToHexString(id) = <<id>>
  BY SmallHex DEF Digits
<1>1. PICK f \in Seq(Digits) :
         f = DataField(IntToHexString(data)) /\ Len(f) = 4 /\ HexStringToInt(f) = AsWritten(data)
  BY DataFieldReads
<1>2. PICK p \in Seq(Digits) : p = <<cmd>> /\ Len(p) = 1 /\ p[1] = cmd
  BY Single, Zenon
<1>3. PICK q \in Seq(Digits) : q = <<id>> /\ Len(q) = 1 /\ q[1] = id
  BY Single, Zenon
<1>4. PICK head \in Seq(Digits) :
         head = p \o q /\ Len(head) = 2 /\ head[1] = cmd /\ head[2] = id
  <2>1. 1 \in Nat /\ 2 \in Nat /\ 2 = 1 + 1 /\ 1 \in 1..1 /\ 2 \in 1..2
    OBVIOUS
  <2>2. Joined(p \o q, p, q, 1, 1, 2)
    BY <1>2, <1>3, <2>1, JoinedIs, Zenon
  <2> QED
    BY <1>2, <1>3, <2>1, <2>2, Zenon DEF Joined
<1>5. PICK c \in Seq(Digits) :
         /\ c = head \o f /\ Len(c) = 6 /\ c[1] = cmd /\ c[2] = id
         /\ c[3] = f[1] /\ c[4] = f[2] /\ c[5] = f[3] /\ c[6] = f[4]
  <2>1. 2 \in Nat /\ 4 \in Nat /\ 6 \in Nat /\ 6 = 2 + 4
    OBVIOUS
  <2>2. Joined(head \o f, head, f, 2, 4, 6)
    BY <1>1, <1>4, <2>1, JoinedIs, Zenon
  <2>3. /\ 1 \in 1..2 /\ 2 \in 1..2 /\ 1 \in 1..4 /\ 2 \in 1..4 /\ 3 \in 1..4 /\ 4 \in 1..4
        /\ 3 \in 1..6 /\ 4 \in 1..6 /\ 5 \in 1..6 /\ 6 \in 1..6
        /\ 3 = 2 + 1 /\ 4 = 2 + 2 /\ 5 = 2 + 3 /\ 6 = 2 + 4
    OBVIOUS
  <2> QED
    BY <1>4, <2>2, <2>3, Zenon DEF Joined
<1>6. Line(cmd, id, data) = c
  BY <1>0, <1>1, <1>2, <1>3, <1>4, <1>5, Zenon DEF Line
<1>7. HexStringToInt(SubSeq(c, 1, 1)) = cmd
  <2>1. /\ 1 \in Nat /\ 6 \in Nat /\ 1 \in 1..6 /\ 1 \in 1..6 /\ 1 \in 1..1
        /\ 1 = 1 - 1 + 1 /\ 1 = 1 + 1 - 1
    OBVIOUS
  <2>2. Part(SubSeq(c, 1, 1), c, 1, 6, 1)
    BY <1>5, <2>1, PartIs, Zenon
  <2>3. PICK s \in Seq(Digits) : s = SubSeq(c, 1, 1) /\ Len(s) = 1 /\ s[1] = c[1]
    BY <2>1, <2>2, Zenon DEF Part
  <2> QED
    BY <1>5, <2>3, OneDigit
<1>8. HexStringToInt(SubSeq(c, 2, 2)) = id
  <2>1. /\ 1 \in Nat /\ 6 \in Nat /\ 2 \in 1..6 /\ 2 \in 2..6 /\ 1 \in 1..1
        /\ 1 = 2 - 2 + 1 /\ 2 = 2 + 1 - 1
    OBVIOUS
  <2>2. Part(SubSeq(c, 2, 2), c, 2, 6, 1)
    BY <1>5, <2>1, PartIs, Zenon
  <2>3. PICK s \in Seq(Digits) : s = SubSeq(c, 2, 2) /\ Len(s) = 1 /\ s[1] = c[2]
    BY <2>1, <2>2, Zenon DEF Part
  <2> QED
    BY <1>5, <2>3, OneDigit
<1>9. HexStringToInt(SubSeq(c, 3, 6)) = AsWritten(data)
  <2>1. PICK s \in Seq(Digits) :
           /\ s = SubSeq(c, 3, 6) /\ Len(s) = 4
           /\ \A k \in 1..4, m \in 1..6 : m = 3 + k - 1 => s[k] = c[m]
    <3>1. 4 \in Nat /\ 6 \in Nat /\ 4 = 6 - 3 + 1 /\ 3 \in 1..6 /\ 6 \in 3..6
      OBVIOUS
    <3>2. Part(SubSeq(c, 3, 6), c, 3, 6, 4)
      BY <1>5, <3>1, PartIs, Zenon
    <3> QED
      BY <3>2, Zenon DEF Part
  <2>2. s[1] = f[1] /\ s[2] = f[2] /\ s[3] = f[3] /\ s[4] = f[4]
    <3>1. /\ 1 \in 1..4 /\ 2 \in 1..4 /\ 3 \in 1..4 /\ 4 \in 1..4
          /\ 3 \in 1..6 /\ 4 \in 1..6 /\ 5 \in 1..6 /\ 6 \in 1..6
          /\ 3 = 3 + 1 - 1 /\ 4 = 3 + 2 - 1 /\ 5 = 3 + 3 - 1 /\ 6 = 3 + 4 - 1
      OBVIOUS
    <3> QED
      BY <1>5, <2>1, <3>1, Zenon
  <2>3. HexStringToInt(s) = Number(f[1], f[2], f[3], f[4])
    BY <2>1, <2>2, FourDigits
  <2>4. HexStringToInt(f) = Number(f[1], f[2], f[3], f[4])
    BY <1>1, FourDigits
  <2> QED
    BY <1>1, <2>1, <2>3, <2>4, Zenon
<1> QED
  BY <1>5, <1>6, <1>7, <1>8, <1>9

-----------------------------------------------------------------------------
(***************************************************************************)
(* The invariant: the characters are those of the packet given, if it has  *)
(* a place in one and the board has not reset, and the packet read is what *)
(* is written of the one given.                                            *)
(***************************************************************************)
Given == [cmd : Int, id : Int, data : Int32]

HasPlace(p) == p.cmd \in PING..STREAM /\ p.id \in 0..NOBJECTS /\ Fits(p.data)

Characters(p) == Line(p.cmd, p.id, p.data)

Written(p) == [p EXCEPT !.data = AsWritten(@)]

Coded ==
    /\ \/ given = NoPacket /\ line = <<>>
       \/ /\ given \in Given
          /\ line = IF HasPlace(given) /\ heap /= "reset" THEN Characters(given) ELSE <<>>
    /\ read = NoPacket \/ (line /= <<>> /\ read = Written(given))

\* The characters of a packet that has a place are six, and stand for it.
LEMMA CharactersRead ==
    ASSUME NEW p \in Given, HasPlace(p)
    PROVE  /\ Len(Characters(p)) = 6
           /\ HexStringToInt(SubSeq(Characters(p), 1, 1)) = p.cmd
           /\ HexStringToInt(SubSeq(Characters(p), 2, 2)) = p.id
           /\ HexStringToInt(SubSeq(Characters(p), 3, 6)) = AsWritten(p.data)
<1>0. p.data \in UInt
  <2>1. p.data \in Int32 /\ Fits(p.data)
    BY DEF HasPlace, Given
  <2> QED
    BY <2>1, IntIs, Zenon
<1>1. PICK cmd \in Digits, id \in Digits, data \in UInt :
         cmd = p.cmd /\ id = p.id /\ data = p.data /\ Fits(data)
  BY <1>0, CodecAssumption DEF HasPlace, PING, STREAM, Digits
<1>2. PICK l : l = Line(cmd, id, data)
  OBVIOUS
<1>3. Len(l) = 6
  BY <1>1, <1>2, LineReads
<1>4. HexStringToInt(SubSeq(l, 1, 1)) = cmd
  BY <1>1, <1>2, LineReads
<1>5. HexStringToInt(SubSeq(l, 2, 2)) = id
  BY <1>1, <1>2, LineReads
<1>6. HexStringToInt(SubSeq(l, 3, 6)) = AsWritten(data)
  BY <1>1, <1>2, LineReads
<1>7. Characters(p) = l
  BY <1>1, <1>2 DEF Characters
<1> QED
  BY <1>1, <1>3, <1>4, <1>5, <1>6, <1>7, Zenon

\* The sizes WritePacket tests refuse data alone, for the command and the id are
\* tested before.
LEMMA SizesTell ==
    ASSUME NEW cmd \in Int, NEW id \in Int, NEW data \in Int32
    PROVE  (Valid(cmd, id) /\ Size(cmd) <= 1 /\ Size(id) <= 1 /\ Size(data) <= 4)
               <=> HasPlace([cmd |-> cmd, id |-> id, data |-> data])
<1>1. Size(data) <= 4 <=> Fits(data)
  BY FourDigitsFit
<1>2. ASSUME Valid(cmd, id) PROVE Size(cmd) = 1 /\ Size(id) = 1
  <2>1. cmd \in 0..15 /\ id \in 0..15
    BY <1>2, CodecAssumption DEF Valid, PING, STREAM
  <2> QED
    BY <2>1, SmallHex
<1>3. HasPlace([cmd |-> cmd, id |-> id, data |-> data]) <=> Valid(cmd, id) /\ Fits(data)
  BY DEF HasPlace, Valid
<1>4. 1 <= 1
  OBVIOUS
<1> QED
  BY <1>1, <1>2, <1>3, <1>4, Zenon

LEMMA CodedHolds == Spec => []Coded
<1>1. Init => Coded
  BY DEF Init, Coded
<1>2. Coded /\ [Next]_vars => Coded'
  <2> SUFFICES ASSUME Coded, [Next]_vars PROVE Coded'
    OBVIOUS
  <2>1. ASSUME NEW cmd \in -1..(STREAM + 1), NEW id \in Ids, NEW data \in Values,
               WritePacket(cmd, id, data)
        PROVE  Coded'
    <3>1. cmd \in Int /\ id \in Int /\ data \in Int32
      BY CodecAssumption DEF STREAM
    <3>2. PICK p \in Given : p = [cmd |-> cmd, id |-> id, data |-> data]
      BY <3>1 DEF Given
    <3>3. given' = p /\ p.cmd = cmd /\ p.id = id /\ p.data = data /\ read' = read
      BY <2>1, <3>2 DEF WritePacket
    <3>4. line' = IF HasPlace(p) /\ heap' /= "reset" THEN Characters(p) ELSE <<>>
      BY <2>1, <3>1, <3>2, <3>3, SizesTell, Zenon DEF WritePacket, Characters, Line
    <3>5. read = NoPacket
      <4>1. given = NoPacket
        BY <2>1 DEF WritePacket
      <4>2. ~HasPlace(NoPacket)
        BY DEF HasPlace, NoPacket, PING, STREAM
      <4>3. line = <<>>
        BY <4>1, <4>2, Zenon DEF Coded
      <4> QED
        BY <4>3, Zenon DEF Coded
    <3> QED
      BY <3>3, <3>4, <3>5, Zenon DEF Coded
  <2>2. CASE ReadCommand
    <3>1. given \in Given /\ HasPlace(given) /\ line = Characters(given)
      BY <2>2, Zenon DEF ReadCommand, Coded
    <3>2. given = [cmd |-> given.cmd, id |-> given.id, data |-> given.data]
      BY <3>1 DEF Given
    <3>3. read' = [cmd |-> given.cmd, id |-> given.id, data |-> AsWritten(given.data)]
      BY <2>2, <3>1, CharactersRead, Zenon DEF ReadCommand
    <3>4. read' = Written(given)
      BY <3>2, <3>3 DEF Written
    <3> QED
      BY <2>2, <3>1, <3>4, Zenon DEF ReadCommand, Coded
  <2>3. CASE UNCHANGED vars
    BY <2>3, Zenon DEF vars, Coded
  <2> QED
    BY <2>1, <2>2, <2>3 DEF Next
<1> QED
  BY <1>1, <1>2, PTL DEF Spec

\* Whatever WritePacket writes ReadCommand reads back as it was given, with every
\* allocator, but for the powers of 16 of which the build loses a digit.
THEOREM PacketIsReadBack == Spec => []ReadsBack
<1>1. Coded => ReadsBack
  <2> SUFFICES ASSUME Coded PROVE ReadsBack
    OBVIOUS
  <2>1. ASSUME line /= <<>> PROVE Len(line) = 6
    <3>1. given \in Given /\ HasPlace(given) /\ line = Characters(given)
      BY <2>1, Zenon DEF Coded
    <3> QED
      BY <3>1, CharactersRead, Zenon
  <2>2. read = NoPacket \/ read = [given EXCEPT !.data = AsWritten(@)]
    BY DEF Coded, Written
  <2> QED
    BY <2>1, <2>2, Zenon DEF ReadsBack
<1> QED
  BY <1>1, CodedHolds, PTL

\* Unless the board resets, WritePacket refuses exactly the packets that have no place
\* in six characters, those with negative data among them.
THEOREM RefusalIsExact == Spec => []RefusedExactly
<1>1. Coded => RefusedExactly
  <2> SUFFICES ASSUME Coded, given /= NoPacket, heap /= "reset" PROVE RefusedExactly
    BY Zenon DEF RefusedExactly
  <2>1. /\ given \in Given
        /\ line = IF HasPlace(given) THEN Characters(given) ELSE <<>>
    BY Zenon DEF Coded
  <2>2. ASSUME HasPlace(given) PROVE line /= <<>>
    <3>1. line = Characters(given)
      BY <2>1, <2>2, Zenon
    <3>2. Len(line) = 6
      BY <2>1, <2>2, <3>1, CharactersRead, Zenon
    <3> QED
      BY <3>2, SMT
  <2>3. line = <<>> <=> ~HasPlace(given)
    BY <2>1, <2>2, Zenon
  <2> QED
    BY <2>3, Zenon DEF RefusedExactly, HasPlace
<1> QED
  BY <1>1, CodedHolds, PTL
=============================================================================
