---------------------------- MODULE FramingProofs ----------------------------
(***************************************************************************)
(* Proofs about Framing: for any length of a packet, any number of them,   *)
(* any buffer, and any bytes lost.                                         *)
(***************************************************************************)
EXTENDS Framing, SequenceTheorems, WellFoundedInduction, TLAPS

(***************************************************************************)
(* Quotients.                                                              *)
(***************************************************************************)
LEMMA QuotientIs ==
    ASSUME NEW d \in Nat \ {0}, NEW q \in Nat, NEW r \in 0..(d - 1), NEW x \in Nat,
           x = q * d + r
    PROVE  x \div d = q /\ x % d = r
OBVIOUS

LEMMA Quotient ==
    ASSUME NEW d \in Nat \ {0}, NEW x \in Nat
    PROVE  \E q \in Nat, r \in 0..(d - 1) : x = q * d + r /\ x \div d = q /\ x % d = r
<1>1. x \div d \in Nat /\ x % d \in 0..(d - 1)
  OBVIOUS
<1>2. PICK q \in Nat, r \in 0..(d - 1) : q = x \div d /\ r = x % d
  BY <1>1
<1>3. x = q * d + r
  BY <1>2, SMTT(60)
<1> QED BY <1>2, <1>3

\* Multiples of d that are less than d apart are equal.
LEMMA MultiplesApart ==
    ASSUME NEW d \in Nat \ {0}, NEW p \in Nat, NEW q \in Nat
    PROVE  p < q => p * d + d <= q * d
<1> SUFFICES ASSUME p < q PROVE p * d + d <= q * d
  OBVIOUS
<1>1. PICK k \in Nat : q = p + 1 + k
  <2>1. q - p - 1 \in Nat /\ q = p + 1 + (q - p - 1)
    OBVIOUS
  <2> QED BY <2>1
<1>2. q * d = p * d + d + k * d
  BY <1>1
<1>3. k * d >= 0 /\ k * d \in Int /\ p * d \in Int
  OBVIOUS
<1> QED BY <1>2, <1>3

(***************************************************************************)
(* The characters of a packet.                                             *)
(***************************************************************************)
LEMMA Constants ==
    /\ DIGITS \in Nat /\ DIGITS > 0
    /\ PacketLength = DIGITS + 2 /\ PacketLength \in Nat \ {0}
    /\ BUFFER \in Nat /\ Total \in Nat
BY FramingAssumption DEF PacketLength, Total

NumberOf(s) == s[1] \div PacketLength + 1
Number(k) == NumberOf(accepted[k])

LEMMA FirstByte ==
    ASSUME NEW a \in Nat, IsSTX(a) PROVE \E p \in Nat : a = p * PacketLength
<1>1. PICK d \in Nat \ {0} : d = PacketLength
  BY Constants
<1>2. a % d = 0
  BY <1>1 DEF IsSTX
<1>3. PICK q \in Nat, r \in 0..(d - 1) : a = q * d + r /\ a % d = r
  BY Quotient
<1> QED BY <1>1, <1>2, <1>3

LEMMA LastByte ==
    ASSUME NEW b \in Nat, IsETX(b)
    PROVE  \E q \in Nat : b = q * PacketLength + (PacketLength - 1)
<1>1. PICK d \in Nat \ {0} : d = PacketLength
  BY Constants
<1>2. b % d = d - 1
  BY <1>1 DEF IsETX
<1>3. PICK q \in Nat, r \in 0..(d - 1) : b = q * d + r /\ b % d = r
  BY Quotient
<1> QED BY <1>1, <1>2, <1>3

\* A packet whose first and last byte are in their places, and nothing between
\* them is lost twice over, is one that was sent.
LEMMA WholePacket ==
    ASSUME NEW a \in Nat, NEW b \in Nat, IsSTX(a), IsETX(b),
           a + DIGITS + 1 <= b, b <= a + DIGITS + 1 + PacketLength - 1
    PROVE  b = a + DIGITS + 1
<1>1. PICK p \in Nat : a = p * PacketLength
  BY FirstByte
<1>2. PICK q \in Nat : b = q * PacketLength + (PacketLength - 1)
  BY LastByte
<1>3. p < q => p * PacketLength + PacketLength <= q * PacketLength
  BY Constants, MultiplesApart
<1>4. q < p => q * PacketLength + PacketLength <= p * PacketLength
  BY Constants, MultiplesApart
<1>5. p * PacketLength \in Int /\ q * PacketLength \in Int
  BY Constants
<1>6. p = q
  BY Constants, <1>1, <1>2, <1>3, <1>4, <1>5
<1> QED BY Constants, <1>1, <1>2, <1>5, <1>6

LEMMA NumberOfPacket ==
    ASSUME NEW a \in Nat, IsSTX(a), NEW s, s = [k \in 1..DIGITS |-> a + k]
    PROVE  /\ NumberOf(s) \in Nat \ {0} /\ s = PacketSent(NumberOf(s))
           /\ NumberOf(s) * PacketLength = a + PacketLength
<1>1. PICK p \in Nat : a = p * PacketLength
  BY FirstByte
<1>2. s[1] = p * PacketLength + 1 /\ 1 \in 0..(PacketLength - 1) /\ s[1] \in Nat
  BY Constants, <1>1
<1>3. s[1] \div PacketLength = p
  BY Constants, <1>2, QuotientIs
<1>4. (p + 1 - 1) * PacketLength = a /\ (p + 1) * PacketLength = a + PacketLength
  BY Constants, <1>1
<1>5. s = PacketSent(p + 1)
  BY <1>4 DEF PacketSent
<1>6. NumberOf(s) = p + 1
  BY <1>3 DEF NumberOf
<1>7. NumberOf(s) * PacketLength = (p + 1) * PacketLength /\ p + 1 \in Nat \ {0}
  BY <1>6
<1>8. PacketSent(NumberOf(s)) = PacketSent(p + 1)
  BY <1>6
<1> QED BY <1>4, <1>5, <1>6, <1>7, <1>8

(***************************************************************************)
(* The packets of which the first byte is at c or before it.               *)
(***************************************************************************)
Begun(c) == (c + PacketLength) \div PacketLength

LEMMA BegunIs ==
    ASSUME NEW c \in Int, c >= -1, NEW q \in Nat, NEW r \in 0..(PacketLength - 1),
           c + PacketLength = q * PacketLength + r
    PROVE  Begun(c) = q
<1>1. c + PacketLength \in Nat
  BY Constants
<1> QED BY Constants, <1>1, QuotientIs DEF Begun

LEMMA BegunExists ==
    ASSUME NEW c \in Int, c >= -1
    PROVE  \E q \in Nat, r \in 0..(PacketLength - 1) :
               c + PacketLength = q * PacketLength + r /\ Begun(c) = q
<1>1. PICK q \in Nat, r \in 0..(PacketLength - 1) : c + PacketLength = q * PacketLength + r
  <2>1. PICK d \in Nat \ {0}, x \in Nat : d = PacketLength /\ x = c + PacketLength
    BY Constants
  <2>2. PICK q \in Nat, r \in 0..(d - 1) : x = q * d + r
    BY Quotient
  <2> QED BY <2>1, <2>2
<1>2. Begun(c) = q
  BY <1>1, BegunIs
<1> QED BY <1>1, <1>2

LEMMA BegunAtFirstByte ==
    ASSUME NEW a \in Nat, NEW p \in Nat, a = p * PacketLength
    PROVE  Begun(a) = p + 1
<1>1. a + PacketLength = (p + 1) * PacketLength + 0 /\ 0 \in 0..(PacketLength - 1)
  BY Constants
<1> QED BY <1>1, BegunIs

\* n packets end at x or before it.
LEMMA EndedHaveBegun ==
    ASSUME NEW c \in Int, c >= -1, NEW n \in Nat, n * PacketLength <= c + 1
    PROVE  n <= Begun(c)
<1>1. PICK q \in Nat, r \in 0..(PacketLength - 1) :
          c + PacketLength = q * PacketLength + r /\ Begun(c) = q
  BY BegunExists
<1>2. q < n => q * PacketLength + PacketLength <= n * PacketLength
  BY Constants, MultiplesApart
<1>3. q * PacketLength \in Int /\ n * PacketLength \in Int
  BY Constants
<1> QED BY Constants, <1>1, <1>2, <1>3

\* On the way to e, where the hunt looks, no more packets begin than bytes are lost.
LEMMA BegunOnTheWay ==
    ASSUME NEW c \in Int, c >= -1, NEW e \in Nat, c < e
    PROVE  /\ IsSTX(e) => Begun(e) - 1 <= Begun(c) + (e - c - 1)
           /\ ~IsSTX(e) => Begun(e) <= Begun(c) + (e - c - 1)
<1>1. PICK q \in Nat, r \in 0..(PacketLength - 1) :
          c + PacketLength = q * PacketLength + r /\ Begun(c) = q
  BY BegunExists
<1>2. PICK g \in Nat : g = e - c - 1
  OBVIOUS
<1>3. ASSUME NEW n \in Nat, n * PacketLength <= e - 1 + PacketLength
      PROVE  n <= q + g
  <2>1. q + g < n => (q + g) * PacketLength + PacketLength <= n * PacketLength
    BY Constants, MultiplesApart
  <2>2. (q + g) * PacketLength = q * PacketLength + g * PacketLength
    BY Constants
  <2>3. g <= g * PacketLength /\ g * PacketLength \in Int /\ q * PacketLength \in Int
        /\ n * PacketLength \in Int
    BY Constants
  <2> QED BY Constants, <1>1, <1>2, <1>3, <2>1, <2>2, <2>3
<1>4. CASE IsSTX(e)
  <2>1. PICK p \in Nat : e = p * PacketLength
    BY <1>4, FirstByte
  <2>2. Begun(e) = p + 1
    BY <2>1, BegunAtFirstByte
  <2>3. p <= q + g
    BY Constants, <1>3, <2>1
  <2> QED BY <1>1, <1>2, <1>4, <2>2, <2>3
<1>5. CASE ~IsSTX(e)
  <2>0. e \in Int /\ e >= -1
    OBVIOUS
  <2>1. PICK p \in Nat, s \in 0..(PacketLength - 1) :
            e + PacketLength = p * PacketLength + s /\ Begun(e) = p
    BY <2>0, BegunExists
  <2>2. s /= 0
    <3>1. SUFFICES ASSUME s = 0 PROVE FALSE
      OBVIOUS
    <3>2. p /= 0
      BY Constants, <2>1, <3>1
    <3>3. e = (p - 1) * PacketLength + 0 /\ p - 1 \in Nat /\ 0 \in 0..(PacketLength - 1)
      BY Constants, <2>1, <3>1, <3>2
    <3>4. e % PacketLength = 0
      BY Constants, <3>3, QuotientIs
    <3> QED BY <1>5, <3>4 DEF IsSTX
  <2>3. p * PacketLength \in Int
    BY Constants
  <2>4. p <= q + g
    BY Constants, <1>3, <2>1, <2>2, <2>3
  <2> QED BY <1>1, <1>2, <1>5, <2>1, <2>4
<1> QED BY <1>4, <1>5

\* A packet that lacks some bytes, but not as many as a packet has, is read at the
\* cost of its successor at most.
LEMMA BegunInPacket ==
    ASSUME NEW a \in Nat, IsSTX(a), NEW b \in Nat,
           a + PacketLength - 1 <= b, b < a + 2 * PacketLength - 1
    PROVE  /\ b = a + PacketLength - 1 => Begun(b) = Begun(a)
           /\ Begun(b) <= Begun(a) + 1
<1>1. PICK p \in Nat : a = p * PacketLength
  BY FirstByte
<1>2. Begun(a) = p + 1
  BY <1>1, BegunAtFirstByte
<1>3. PICK q \in Nat, r \in 0..(PacketLength - 1) :
          b + PacketLength = q * PacketLength + r /\ Begun(b) = q
  BY BegunExists
<1>4. /\ p + 2 < q => (p + 2) * PacketLength + PacketLength <= q * PacketLength
      /\ p + 1 < q => (p + 1) * PacketLength + PacketLength <= q * PacketLength
      /\ q < p + 1 => q * PacketLength + PacketLength <= (p + 1) * PacketLength
  BY Constants, MultiplesApart
<1>5. /\ (p + 2) * PacketLength = a + 2 * PacketLength
      /\ (p + 1) * PacketLength = a + PacketLength /\ q * PacketLength \in Int
  BY Constants, <1>1
<1> QED BY Constants, <1>2, <1>3, <1>4, <1>5

(***************************************************************************)
(* Bytes q that stand in a buffer, after byte c and before byte s: each is *)
(* at its place or, where bytes are missing, after it.                     *)
(***************************************************************************)
Ordered(q, s, c) ==
    /\ Len(q) <= s - 1 - c
    /\ \A k \in 1..Len(q) : c + k <= q[k] /\ q[k] + (Len(q) - k) < s
    /\ \A k, m \in 1..Len(q) : k <= m => m - k <= q[m] - q[k]

LEMMA OrderedLater ==
    ASSUME NEW q \in Seq(Nat), NEW s \in Nat, NEW c \in Int, Ordered(q, s, c)
    PROVE  Ordered(q, s + 1, c)
<1>1. Len(q) \in Nat /\ \A k \in 1..Len(q) : q[k] \in Nat
  OBVIOUS
<1> QED BY <1>1 DEF Ordered

LEMMA OrderedAppend ==
    ASSUME NEW q \in Seq(Nat), NEW s \in Nat, NEW c \in Int, Ordered(q, s, c)
    PROVE  Ordered(Append(q, s), s + 1, c)
<1>1. /\ Len(q) \in Nat /\ Len(Append(q, s)) = Len(q) + 1
      /\ \A k \in 1..Len(q) : q[k] \in Nat /\ Append(q, s)[k] = q[k]
      /\ Append(q, s)[Len(q) + 1] = s
  BY AppendProperties
<1> DEFINE p == Append(q, s)
           n == Len(q)
<1>2. /\ n \in Nat /\ Len(p) = n + 1 /\ p[n + 1] = s
      /\ \A k \in 1..n : q[k] \in Nat /\ p[k] = q[k]
  BY <1>1
<1>3. /\ n <= s - 1 - c
      /\ \A k \in 1..n : c + k <= q[k] /\ q[k] + (n - k) < s
      /\ \A k, m \in 1..n : k <= m => m - k <= q[m] - q[k]
  BY DEF Ordered
<1> HIDE DEF p, n
<1>4. Len(p) <= s + 1 - 1 - c
  BY <1>2, <1>3
<1>5. ASSUME NEW k \in 1..Len(p) PROVE c + k <= p[k] /\ p[k] + (Len(p) - k) < s + 1
  <2>1. CASE k \in 1..n
    <3>1. p[k] = q[k] /\ q[k] \in Nat /\ c + k <= q[k] /\ q[k] + (n - k) < s
      BY <1>2, <1>3, <2>1
    <3> QED BY <1>2, <2>1, <3>1
  <2>2. CASE k = n + 1
    <3>1. p[k] = s
      BY <1>2, <2>2
    <3> QED BY <1>2, <1>3, <2>2, <3>1
  <2> QED BY <1>2, <2>1, <2>2
<1>6. ASSUME NEW k \in 1..Len(p), NEW m \in 1..Len(p), k <= m PROVE m - k <= p[m] - p[k]
  <2>1. CASE k \in 1..n /\ m \in 1..n
    BY <1>2, <1>3, <1>6, <2>1
  <2>2. CASE k \in 1..n /\ m = n + 1
    <3>1. p[k] = q[k] /\ q[k] \in Nat /\ q[k] + (n - k) < s /\ p[m] = s
      BY <1>2, <1>3, <2>2
    <3> QED BY <1>2, <2>2, <3>1
  <2>3. CASE k = n + 1 /\ m = n + 1
    <3>1. p[k] = s /\ p[m] = s
      BY <1>2, <2>3
    <3> QED BY <2>3, <3>1
  <2> QED BY <1>2, <1>6, <2>1, <2>2, <2>3
<1>7. Ordered(p, s + 1, c)
  BY <1>4, <1>5, <1>6 DEF Ordered
<1> QED BY <1>7 DEF p

\* After the first n bytes have been read.
LEMMA OrderedRead ==
    ASSUME NEW q \in Seq(Nat), NEW s \in Nat, NEW c \in Int, Ordered(q, s, c),
           NEW n \in 1..Len(q)
    PROVE  /\ SubSeq(q, n + 1, Len(q)) \in Seq(Nat)
           /\ Len(SubSeq(q, n + 1, Len(q))) = Len(q) - n
           /\ Ordered(SubSeq(q, n + 1, Len(q)), s, q[n])
<1> DEFINE p == SubSeq(q, n + 1, Len(q))
           l == Len(q)
<1>1. l \in Nat /\ n \in 1..l /\ \A k \in 1..l : q[k] \in Nat
  OBVIOUS
<1>2. /\ p \in Seq(Nat) /\ Len(p) = l - n
      /\ \A k \in 1..(l - n) : p[k] = q[n + k]
  <2>1. \A k \in (n + 1)..l : q[k] \in Nat
    BY <1>1
  <2>2. /\ p \in Seq(Nat)
        /\ Len(p) = IF n + 1 <= l THEN l - (n + 1) + 1 ELSE 0
        /\ \A k \in 1..(l - (n + 1) + 1) : p[k] = q[n + 1 + k - 1]
    BY <2>1, SubSeqProperties
  <2> QED BY <1>1, <2>2
<1>3. /\ \A k \in 1..l : q[k] + (l - k) < s
      /\ \A k, m \in 1..l : k <= m => m - k <= q[m] - q[k]
  BY DEF Ordered
<1> HIDE DEF p, l
<1>4. Len(p) <= s - 1 - q[n]
  <2>1. q[n] \in Nat /\ q[n] + (l - n) < s
    BY <1>1, <1>3
  <2> QED BY <1>1, <1>2, <2>1
<1>5. ASSUME NEW k \in 1..Len(p) PROVE q[n] + k <= p[k] /\ p[k] + (Len(p) - k) < s
  <2>1. p[k] = q[n + k] /\ n + k \in 1..l /\ n <= n + k /\ q[n + k] \in Nat
    BY <1>1, <1>2
  <2>2. q[n + k] + (l - (n + k)) < s /\ (n + k) - n <= q[n + k] - q[n] /\ q[n] \in Nat
    BY <1>1, <1>3, <2>1
  <2>3. k \in Int /\ n \in Int /\ l \in Int
    BY <1>1, <1>2
  <2>4. PICK x \in Nat, y \in Nat : x = q[n + k] /\ y = q[n]
    BY <2>1, <2>2
  <2>5. y + k <= x /\ x + (l - n - k) < s
    BY <2>2, <2>3, <2>4
  <2> QED BY <1>2, <2>1, <2>4, <2>5
<1>6. ASSUME NEW k \in 1..Len(p), NEW m \in 1..Len(p), k <= m PROVE m - k <= p[m] - p[k]
  <2>1. k \in 1..(l - n) /\ m \in 1..(l - n) /\ n \in Nat /\ l \in Nat
    BY <1>1, <1>2
  <2>2. n + k \in 1..l /\ n + m \in 1..l /\ n + k <= n + m
    BY <1>6, <2>1
  <2>3. p[k] = q[n + k] /\ p[m] = q[n + m]
    BY <1>2, <2>1
  <2>4. PICK x \in Nat, y \in Nat : x = q[n + k] /\ y = q[n + m]
    BY <1>1, <2>2
  <2>5. (n + m) - (n + k) <= y - x
    BY <1>3, <2>2, <2>4
  <2>6. m - k <= y - x
    BY <2>1, <2>4, <2>5
  <2> QED BY <2>3, <2>4, <2>6
<1>7. Ordered(p, s, q[n])
  BY <1>4, <1>5, <1>6 DEF Ordered
<1> QED BY <1>2, <1>7 DEF p, l

(***************************************************************************)
(* The inductive invariant. The last byte read is c; with it and those in  *)
(* the buffer every byte is accounted for that is not lost. Missing(c) of  *)
(* the lost ones stood before c.                                           *)
(***************************************************************************)
Typed ==
    /\ sent \in Nat /\ lost \in Nat
    /\ rx \in Seq(Nat)
    /\ accepted \in Seq(Seq(Nat))

Missing(c) == lost - (sent - 1 - c - Len(rx))

\* The accepted packets are packets, in order, and end before byte x.
AcceptedBelow(x) ==
    /\ \A k \in 1..Len(accepted) :
           /\ Number(k) \in Nat \ {0} /\ accepted[k] = PacketSent(Number(k))
           /\ Number(k) * PacketLength <= x
    /\ \A k \in 2..Len(accepted) : Number(k - 1) < Number(k)

\* A packet that has begun and is neither accepted nor being read has cost a byte,
\* which has cost one other at most.
Between(c) ==
    /\ AcceptedBelow(c + 1)
    /\ Begun(c) - Len(accepted) <= 2 * Missing(c)

InPacket(c) ==
    /\ AcceptedBelow(c)
    /\ Begun(c) - 1 - Len(accepted) <= 2 * Missing(c)

Reached(c) ==
    /\ c \in Int /\ c >= -1 /\ Ordered(rx, sent, c) /\ Missing(c) >= 0
    /\ pc = "packet" => c \in Nat /\ IsSTX(c)
    /\ lost < PacketLength =>
           IF pc = "packet" THEN InPacket(c) ELSE Between(c)

Kept == Typed /\ \E c \in Int : Reached(c)

LEMMA KeptInit == Init => Kept
<1> SUFFICES ASSUME Init PROVE Kept
  OBVIOUS
<1>1. pc = "loop" /\ sent = 0 /\ rx = <<>> /\ lost = 0 /\ accepted = <<>>
  BY DEF Init
<1>2. Typed
  BY <1>1 DEF Typed
<1>3. PICK c \in Int : c = -1
  OBVIOUS
<1>4. Begun(c) = 0
  <2>1. c + PacketLength = 0 * PacketLength + (PacketLength - 1)
    BY Constants, <1>3
  <2>2. c >= -1 /\ 0 \in Nat /\ PacketLength - 1 \in 0..(PacketLength - 1)
    BY Constants, <1>3
  <2> QED BY <2>1, <2>2, BegunIs
<1>5. Len(rx) = 0 /\ Len(accepted) = 0
  BY <1>1
<1>6. Missing(c) = 0
  <2>1. sent = 0 /\ lost = 0
    BY <1>1
  <2> QED BY <1>3, <1>5, <2>1 DEF Missing
<1>7. Ordered(rx, sent, c)
  BY <1>1, <1>3, <1>5 DEF Ordered
<1>8. Between(c)
  BY <1>4, <1>5, <1>6 DEF Between, AcceptedBelow
<1>9. Reached(c)
  BY <1>1, <1>3, <1>6, <1>7, <1>8 DEF Reached
<1> QED BY <1>2, <1>9 DEF Kept

LEMMA AcceptedStay ==
    ASSUME UNCHANGED accepted, NEW x, AcceptedBelow(x)
    PROVE  AcceptedBelow(x)'
BY DEF AcceptedBelow, Number

LEMMA AcceptedFurther ==
    ASSUME Typed, NEW x \in Int, NEW y \in Int, x <= y, AcceptedBelow(x)
    PROVE  AcceptedBelow(y)
<1>1. ASSUME NEW k \in 1..Len(accepted)
      PROVE  Number(k) * PacketLength <= y
  <2>1. PICK n \in Nat : n = Number(k) /\ n * PacketLength <= x
    BY DEF AcceptedBelow
  <2>2. n * PacketLength \in Int
    BY Constants
  <2> QED BY <2>1, <2>2
<1> QED BY <1>1 DEF AcceptedBelow

\* A byte comes into the buffer, or is lost: what has been read is as it was.
LEMMA LineStep ==
    ASSUME Kept, ByteArrives \/ ByteLost
    PROVE  Kept'
<1>1. PICK c \in Int : Reached(c)
  BY DEF Kept
<1>2. /\ sent \in Nat /\ lost \in Nat /\ rx \in Seq(Nat)
      /\ sent' = sent + 1 /\ pc' = pc /\ accepted' = accepted
      /\ c >= -1 /\ Ordered(rx, sent, c) /\ Missing(c) >= 0
  BY <1>1 DEF Kept, Typed, ByteArrives, ByteLost, Reached
<1>3. /\ rx' \in Seq(Nat) /\ Ordered(rx', sent', c) /\ lost' \in Nat /\ lost <= lost'
      /\ Missing(c)' = Missing(c)
  <2>1. CASE rx' = rx /\ lost' = lost + 1
    <3>1. Ordered(rx', sent', c)
      BY <1>2, <2>1, OrderedLater
    <3>2. Len(rx) \in Nat
      BY <1>2
    <3>3. Missing(c)' = Missing(c)
      BY <1>2, <2>1, <3>2 DEF Missing
    <3> QED BY <1>2, <2>1, <3>1, <3>3
  <2>2. CASE rx' = Append(rx, sent) /\ lost' = lost
    <3>1. Ordered(rx', sent', c)
      BY <1>2, <2>2, OrderedAppend
    <3>2. Len(rx) \in Nat /\ Len(rx') = Len(rx) + 1 /\ rx' \in Seq(Nat)
      BY <1>2, <2>2, AppendProperties
    <3>3. Missing(c)' = Missing(c)
      BY <1>2, <2>2, <3>2 DEF Missing
    <3> QED BY <1>2, <2>2, <3>1, <3>2, <3>3
  <2> QED BY <2>1, <2>2 DEF ByteArrives, ByteLost
<1>4. Typed'
  BY <1>2, <1>3 DEF Kept, Typed
<1>5. (InPacket(c) => InPacket(c)') /\ (Between(c) => Between(c)')
  BY <1>2, <1>3, AcceptedStay DEF InPacket, Between, Begun
<1>6. lost' < PacketLength => lost < PacketLength
  BY <1>2, <1>3, Constants
<1>7. Reached(c)'
  BY <1>1, <1>2, <1>3, <1>5, <1>6 DEF Reached
<1> QED BY <1>4, <1>7 DEF Kept

\* loop() calls ReadCommand, or the trials end.
LEMMA OutsideStep ==
    ASSUME Kept, Enter \/ TrialsEnd \/ UNCHANGED vars
    PROVE  Kept'
<1>1. PICK c \in Int : Reached(c)
  BY DEF Kept
<1>2. UNCHANGED <<sent, rx, lost, accepted>> /\ (pc' = "packet" <=> pc = "packet")
  BY DEF Enter, TrialsEnd, vars
<1>3. Typed'
  BY <1>2 DEF Kept, Typed
<1>4. Missing(c)' = Missing(c) /\ Ordered(rx, sent, c)' = Ordered(rx, sent, c)
  BY <1>2 DEF Missing
<1>5. (InPacket(c) => InPacket(c)') /\ (Between(c) => Between(c)')
  BY <1>2, <1>4, AcceptedStay DEF InPacket, Between, Begun
<1>6. Reached(c)'
  BY <1>1, <1>2, <1>4, <1>5 DEF Reached
<1> QED BY <1>3, <1>6 DEF Kept

\* What reading the first n bytes of the buffer makes of the line.
LEMMA ReadFacts ==
    ASSUME Typed, NEW c \in Int, Reached(c), NEW n \in 1..Len(rx), NEW e, e = rx[n],
           rx' = SubSeq(rx, n + 1, Len(rx)), UNCHANGED <<sent, lost>>
    PROVE  /\ rx' \in Seq(Nat) /\ Ordered(rx', sent', e)
           /\ e \in Nat /\ c + n <= e /\ Missing(c) \in Nat
           /\ Missing(e)' = Missing(c) + (e - c - n)
           /\ Missing(e)' <= lost
<1>1. /\ sent \in Nat /\ lost \in Nat /\ rx \in Seq(Nat) /\ Len(rx) \in Nat /\ n \in Int
      /\ Ordered(rx, sent, c) /\ Missing(c) >= 0
  BY DEF Typed, Reached
<1>2. /\ rx' \in Seq(Nat) /\ Len(rx') = Len(rx) - n /\ Ordered(rx', sent', e)
  BY <1>1, OrderedRead
<1>3. e \in Nat
  BY <1>1
<1>4. c + n <= e
  BY <1>1 DEF Ordered
<1>5. Len(rx') <= sent - 1 - e
  BY <1>1, <1>2 DEF Ordered
<1>6. PICK l \in Nat : l = Len(rx)
  BY <1>1
<1>7. /\ Missing(c) = lost - (sent - 1 - c - l)
      /\ Missing(e)' = lost - (sent - 1 - e - (l - n)) /\ l - n <= sent - 1 - e
  BY <1>2, <1>5, <1>6 DEF Missing
<1>8. PICK s \in Nat, o \in Nat : s = sent /\ o = lost
  BY <1>1
<1>9. PICK m \in Int, f \in Int : m = o - (s - 1 - c - l) /\ f = o - (s - 1 - e - (l - n))
  <2>1. PICK i \in Int, x \in Int : i = n /\ x = e
    BY <1>1, <1>3
  <2>2. o - (s - 1 - c - l) \in Int /\ o - (s - 1 - x - (l - i)) \in Int
    OBVIOUS
  <2> QED BY <2>1, <2>2
<1>10. m = Missing(c) /\ f = Missing(e)'
  BY <1>7, <1>8, <1>9
<1>11. m >= 0 /\ l - n <= s - 1 - e
  BY <1>1, <1>7, <1>8, <1>10
<1>12. m \in Nat /\ f = m + (e - c - n) /\ f <= o
  <2>1. PICK i \in Int, x \in Int, k \in Int : i = n /\ x = e /\ k = c
    BY <1>1, <1>3
  <2>2. /\ m >= 0 /\ l - i <= s - 1 - x
        /\ m = o - (s - 1 - k - l) /\ f = o - (s - 1 - x - (l - i))
    BY <1>9, <1>11, <2>1
  <2>3. m \in Nat
    BY <2>2
  <2>4. f = m + (x - k - i)
    BY <2>2
  <2>5. f <= o
    BY <2>2
  <2> QED BY <2>1, <2>3, <2>4, <2>5
<1>13. /\ Missing(c) \in Nat /\ Missing(e)' = Missing(c) + (e - c - n)
       /\ Missing(e)' <= lost
  BY <1>8, <1>10, <1>12
<1> QED BY <1>2, <1>3, <1>4, <1>13

\* The search for the first byte of a packet.
LEMMA HuntStep ==
    ASSUME Kept, Hunt
    PROVE  Kept'
<1>1. PICK c \in Int : Reached(c)
  BY DEF Kept
<1>2. Typed /\ rx \in Seq(Nat) /\ rx /= <<>> /\ c >= -1
  BY <1>1 DEF Kept, Typed, Hunt, Reached
<1>3. 1 \in 1..Len(rx) /\ Head(rx) = rx[1] /\ Tail(rx) = SubSeq(rx, 2, Len(rx))
  BY <1>2, TailIsSubSeq
<1>4. PICK e : e = rx[1]
  OBVIOUS
<1>5. /\ rx' = SubSeq(rx, 1 + 1, Len(rx)) /\ UNCHANGED <<sent, lost, accepted>>
      /\ pc = "hunt" /\ pc' = IF IsSTX(e) THEN "packet" ELSE "hunt"
  BY <1>3, <1>4 DEF Hunt
<1>6. /\ rx' \in Seq(Nat) /\ Ordered(rx', sent', e)
      /\ e \in Nat /\ c + 1 <= e /\ Missing(c) \in Nat
      /\ Missing(e)' = Missing(c) + (e - c - 1)
  BY <1>1, <1>2, <1>3, <1>4, <1>5, ReadFacts
<1>7. Typed'
  BY <1>2, <1>5, <1>6 DEF Typed
<1>8. Missing(e)' >= 0
  BY <1>6
<1>9. ASSUME lost < PacketLength
      PROVE  IF IsSTX(e) THEN InPacket(e)' ELSE Between(e)'
  <2>1. AcceptedBelow(c + 1) /\ Begun(c) - Len(accepted) <= 2 * Missing(c)
    BY <1>1, <1>5, <1>9 DEF Reached, Between
  <2>2. AcceptedBelow(e)' /\ AcceptedBelow(e + 1)'
    <3>1. AcceptedBelow(e) /\ AcceptedBelow(e + 1)
      BY <1>2, <1>6, <2>1, AcceptedFurther
    <3> QED BY <1>5, <3>1, AcceptedStay
  <2>3. Begun(c) \in Nat /\ Begun(e) \in Nat /\ Len(accepted) \in Nat
    <3>1. e \in Int /\ e >= -1
      BY <1>6
    <3>2. Begun(c) \in Nat /\ Begun(e) \in Nat
      BY <1>2, <3>1, BegunExists
    <3>3. Len(accepted) \in Nat
      BY <1>2 DEF Typed
    <3> QED BY <3>2, <3>3
  <2>4. /\ IsSTX(e) => Begun(e) - 1 <= Begun(c) + (e - c - 1)
        /\ ~IsSTX(e) => Begun(e) <= Begun(c) + (e - c - 1)
    BY <1>2, <1>6, BegunOnTheWay
  <2>5. /\ IsSTX(e) => Begun(e) - 1 - Len(accepted) <= 2 * Missing(e)'
        /\ ~IsSTX(e) => Begun(e) - Len(accepted) <= 2 * Missing(e)'
    <3>1. PICK p \in Nat, q \in Nat, j \in Nat, m \in Nat :
              p = Begun(c) /\ q = Begun(e) /\ j = Len(accepted) /\ m = Missing(c)
      BY <1>6, <2>3
    <3>2. PICK g \in Nat : g = e - c - 1
      BY <1>2, <1>6
    <3>3. Missing(e)' = m + g
      BY <1>6, <3>1, <3>2
    <3>4. p - j <= 2 * m
      BY <2>1, <3>1
    <3>5. q <= p + g => q - j <= 2 * (m + g)
      BY <3>4
    <3>6. q - 1 <= p + g => q - 1 - j <= 2 * (m + g)
      BY <3>4
    <3>7. (IsSTX(e) => q - 1 <= p + g) /\ (~IsSTX(e) => q <= p + g)
      BY <2>4, <3>1, <3>2
    <3> QED BY <3>1, <3>3, <3>5, <3>6, <3>7
  <2> QED BY <1>5, <2>2, <2>5 DEF InPacket, Between, Begun
<1>10. Reached(e)'
  BY <1>5, <1>6, <1>8, <1>9 DEF Reached, IsSTX
<1> QED BY <1>6, <1>7, <1>10 DEF Kept

\* One more packet, the one that begins at byte a.
LEMMA AcceptedOneMore ==
    ASSUME Typed, NEW a \in Nat, IsSTX(a), AcceptedBelow(a),
           NEW s, s = [k \in 1..DIGITS |-> a + k], accepted' = Append(accepted, s)
    PROVE  AcceptedBelow(a + PacketLength)'
<1>1. PICK n \in Nat : n = Len(accepted)
  BY DEF Typed
<1>2. /\ Len(accepted') = n + 1 /\ accepted'[n + 1] = s
      /\ \A k \in 1..n : accepted'[k] = accepted[k]
  BY <1>1, AppendProperties DEF Typed
<1>3. /\ NumberOf(s) \in Nat \ {0} /\ s = PacketSent(NumberOf(s))
      /\ NumberOf(s) * PacketLength = a + PacketLength
  BY NumberOfPacket
<1>4. Number(n + 1)' = NumberOf(s) /\ \A k \in 1..n : Number(k)' = Number(k)
  BY <1>2 DEF Number, NumberOf
<1>5. ASSUME NEW k \in 1..n
      PROVE  /\ Number(k) \in Nat \ {0} /\ accepted[k] = PacketSent(Number(k))
             /\ Number(k) * PacketLength <= a
  BY <1>1, <1>5 DEF AcceptedBelow
<1>6. ASSUME NEW k \in 1..n
      PROVE  Number(k) < NumberOf(s) /\ Number(k) * PacketLength <= a + PacketLength
  <2>1. PICK i \in Nat, j \in Nat : i = Number(k) /\ j = NumberOf(s)
    BY <1>3, <1>5
  <2>2. i * PacketLength <= a /\ j * PacketLength = a + PacketLength
    BY <1>3, <1>5, <2>1
  <2>3. j < i => j * PacketLength + PacketLength <= i * PacketLength
    BY Constants, MultiplesApart
  <2>4. i * PacketLength \in Int
    BY Constants
  <2>5. i /= j
    BY Constants, <2>2
  <2>6. i < j
    BY Constants, <2>2, <2>3, <2>4, <2>5
  <2>7. i * PacketLength <= a + PacketLength
    BY Constants, <2>2, <2>4
  <2> QED BY <2>1, <2>6, <2>7
<1>7. ASSUME NEW k \in 1..Len(accepted')
      PROVE  /\ Number(k)' \in Nat \ {0} /\ accepted'[k] = PacketSent(Number(k)')
             /\ Number(k)' * PacketLength <= a + PacketLength
  <2>1. CASE k \in 1..n
    <3>1. Number(k)' = Number(k) /\ accepted'[k] = accepted[k]
      BY <1>2, <1>4, <2>1
    <3> QED BY <1>5, <1>6, <2>1, <3>1
  <2>2. CASE k = n + 1
    <3>1. Number(k)' = NumberOf(s) /\ accepted'[k] = s
      BY <1>2, <1>4, <2>2
    <3>2. NumberOf(s) * PacketLength <= a + PacketLength
      BY Constants, <1>3
    <3> QED BY <1>3, <3>1, <3>2
  <2> QED BY <1>1, <1>2, <2>1, <2>2
<1>8. ASSUME NEW k \in 2..Len(accepted')
      PROVE  Number(k - 1)' < Number(k)'
  <2>1. CASE k \in 2..n
    <3>1. k \in 1..n /\ k - 1 \in 1..n
      BY <2>1
    <3>2. Number(k)' = Number(k) /\ Number(k - 1)' = Number(k - 1)
      BY <1>4, <3>1
    <3> QED BY <1>1, <2>1, <3>2 DEF AcceptedBelow
  <2>2. CASE k = n + 1
    <3>1. n \in 1..n /\ k - 1 = n
      BY <1>1, <1>2, <2>2
    <3>2. Number(k)' = NumberOf(s) /\ Number(k - 1)' = Number(n)
      BY <1>4, <2>2, <3>1
    <3> QED BY <1>6, <3>1, <3>2
  <2> QED BY <1>1, <1>2, <2>1, <2>2
<1> QED BY <1>7, <1>8 DEF AcceptedBelow

\* A packet is read from behind its first byte a up to byte b, its last one or not.
LEMMA ReadStep ==
    ASSUME Kept, ReadPacket
    PROVE  Kept'
<1>1. PICK a \in Int : Reached(a)
  BY DEF Kept
<1>2. /\ Typed /\ rx \in Seq(Nat) /\ Len(rx) \in Nat /\ Len(rx) >= DIGITS + 1
      /\ pc = "packet" /\ a \in Nat /\ IsSTX(a) /\ Ordered(rx, sent, a)
  BY <1>1 DEF Kept, Typed, ReadPacket, PacketIn, Reached
<1>3. PICK n \in 1..Len(rx) : n = DIGITS + 1
  BY Constants, <1>2
<1>4. PICK b : b = rx[n]
  OBVIOUS
<1>5. PICK s : s = SubSeq(rx, 1, DIGITS)
  OBVIOUS
<1>6. /\ rx' = SubSeq(rx, n + 1, Len(rx)) /\ UNCHANGED <<sent, lost>>
      /\ IsETX(b) => accepted' = Append(accepted, s) /\ pc' /= "packet"
      /\ ~IsETX(b) => accepted' = accepted /\ pc' /= "packet"
  <2>1. n + 1 = DIGITS + 2
    BY Constants, <1>3
  <2> QED BY <1>3, <1>4, <1>5, <2>1 DEF ReadPacket, Accept
<1>7. /\ rx' \in Seq(Nat) /\ Ordered(rx', sent', b)
      /\ b \in Nat /\ a + n <= b /\ Missing(a) \in Nat
      /\ Missing(b)' = Missing(a) + (b - a - n) /\ Missing(b)' <= lost
  BY <1>1, <1>2, <1>3, <1>4, <1>6, ReadFacts
<1>8. /\ s \in Seq(Nat) /\ Len(s) = DIGITS
      /\ \A k \in 1..DIGITS : s[k] = rx[k]
  <2>1. \A k \in 1..DIGITS : rx[k] \in Nat
    BY Constants, <1>2
  <2> QED BY Constants, <1>5, <2>1, SubSeqProperties
<1>9. Typed'
  <2>1. Append(accepted, s) \in Seq(Seq(Nat))
    BY <1>2, <1>8 DEF Typed
  <2> QED BY <1>2, <1>6, <1>7, <2>1 DEF Typed
<1>10. PICK m \in Nat, f \in Int, l \in Nat : m = Missing(a) /\ f = Missing(b)' /\ l = lost
  BY <1>2, <1>7 DEF Typed
<1>11. f = m + (b - a - n) /\ f <= l /\ f \in Nat
  BY <1>3, <1>7, <1>10
<1>12. ASSUME lost < PacketLength PROVE Between(b)'
  <2>1. AcceptedBelow(a) /\ Begun(a) - 1 - Len(accepted) <= 2 * m
    BY <1>1, <1>2, <1>10, <1>12 DEF Reached, InPacket
  <2>2. a + DIGITS + 1 <= b /\ b <= a + DIGITS + 1 + PacketLength - 1
    BY Constants, <1>3, <1>7, <1>10, <1>11, <1>12
  <2>3. a + PacketLength - 1 <= b /\ b < a + 2 * PacketLength - 1
    BY Constants, <1>7, <2>2
  <2>4. Begun(a) \in Nat /\ Begun(b) \in Nat /\ Begun(b) <= Begun(a) + 1
    <3>1. b \in Int /\ b >= -1 /\ a >= -1
      BY <1>2, <1>7
    <3>2. Begun(a) \in Nat /\ Begun(b) \in Nat
      BY <3>1, BegunExists
    <3> QED BY <1>2, <1>7, <2>3, <3>2, BegunInPacket
  <2>5. PICK p \in Nat, q \in Nat, i \in Nat : p = Begun(a) /\ q = Begun(b) /\ i = Len(accepted)
    BY <1>2, <2>4 DEF Typed
  <2>6. CASE IsETX(b)
    <3>1. b = a + DIGITS + 1
      BY <1>2, <1>7, <2>2, <2>6, WholePacket
    <3>2. q = p /\ f = m
      <4>1. b = a + PacketLength - 1
        BY Constants, <1>2, <3>1
      <4> QED BY Constants, <1>2, <1>3, <1>7, <1>11, <2>3, <2>5, <3>1, <4>1, BegunInPacket
    <3>3. s = [k \in 1..DIGITS |-> a + k]
      <4>1. ASSUME NEW k \in 1..DIGITS PROVE s[k] = a + k
        <5>1. /\ k \in 1..Len(rx) /\ n \in 1..Len(rx) /\ k <= n
              /\ rx[k] \in Nat /\ s[k] = rx[k]
          BY Constants, <1>2, <1>3, <1>8
        <5>2. PICK x \in Nat : x = rx[k]
          BY <5>1
        <5>3. a + k <= x /\ n - k <= b - x
          BY <1>2, <1>4, <5>1, <5>2 DEF Ordered
        <5>4. x = a + k
          BY Constants, <1>2, <1>3, <1>7, <3>1, <5>3
        <5> QED BY <5>1, <5>2, <5>4
      <4>2. s = [k \in 1..DIGITS |-> s[k]]
        BY <1>8
      <4> QED BY <4>1, <4>2
    <3>4. AcceptedBelow(a + PacketLength)'
      BY <1>2, <1>6, <2>1, <2>6, <3>3, AcceptedOneMore
    <3>5. Len(accepted)' = i + 1
      BY <1>2, <1>6, <2>5, <2>6 DEF Typed
    <3>6. a + PacketLength = b + 1
      BY Constants, <1>2, <3>1
    <3>7. AcceptedBelow(b + 1)'
      BY <3>4, <3>6
    <3>8. q - (i + 1) <= 2 * f
      BY <2>1, <2>5, <3>2
    <3> QED BY <1>10, <2>5, <3>5, <3>7, <3>8 DEF Between, Begun
  <2>7. CASE ~IsETX(b)
    <3>1. b /= a + PacketLength - 1
      <4>1. SUFFICES ASSUME b = a + PacketLength - 1 PROVE FALSE
        OBVIOUS
      <4>2. PICK j \in Nat : a = j * PacketLength
        BY <1>2, FirstByte
      <4>3. /\ b = j * PacketLength + (PacketLength - 1)
            /\ PacketLength - 1 \in 0..(PacketLength - 1)
        BY Constants, <4>1, <4>2
      <4>4. b % PacketLength = PacketLength - 1
        <5>1. PICK d \in Nat \ {0}, r \in Nat : d = PacketLength /\ r = d - 1
          BY Constants
        <5>2. b = j * d + r /\ r \in 0..(d - 1) /\ b \in Nat
          BY <1>7, <4>3, <5>1
        <5>3. b % d = r
          BY <5>2, QuotientIs
        <5> QED BY <5>1, <5>3
      <4> QED BY <2>7, <4>4 DEF IsETX
    <3>2. f >= m + 1
      BY Constants, <1>2, <1>3, <1>7, <1>11, <2>3, <3>1
    <3>3. AcceptedBelow(b + 1)'
      <4>1. a <= b + 1 /\ b + 1 \in Int
        BY Constants, <1>2, <1>7, <2>3
      <4>2. AcceptedBelow(b + 1)
        BY <1>2, <2>1, <4>1, AcceptedFurther
      <4> QED BY <1>6, <2>7, <4>2, AcceptedStay
    <3>4. q - i <= 2 * f
      BY <2>1, <2>4, <2>5, <3>2
    <3> QED BY <1>6, <1>10, <2>5, <2>7, <3>3, <3>4 DEF Between, Begun
  <2> QED BY <2>6, <2>7
<1>13. pc' /= "packet"
  BY <1>6
<1>14. Missing(b)' >= 0
  BY <1>10, <1>11
<1>15. Reached(b)'
  BY <1>6, <1>7, <1>12, <1>13, <1>14 DEF Reached
<1> QED BY <1>7, <1>9, <1>15 DEF Kept

LEMMA KeptHolds == Spec => []Kept
<1>1. Init => Kept
  BY KeptInit
<1>2. Kept /\ [Next]_vars => Kept'
  BY LineStep, OutsideStep, HuntStep, ReadStep DEF Next, Receiver
<1> QED BY <1>1, <1>2, PTL DEF Spec

\* The packets of Numbers are those of Number.
LEMMA NumbersAre ==
    ASSUME Typed
    PROVE  \A k \in 1..Len(accepted) : Numbers[k] = Number(k)
BY DEF Typed, Numbers, Number, NumberOf

\* Whatever the line loses, as long as it is less than a packet: what DoCommand is
\* given are packets the computer sent, each once and in the order they were sent
\* (ReadCommand of src/Reciver/Reciver.ino).
THEOREM OnlyPacketsAreAccepted == Spec => []OnlyPacketsSent
<1>1. Kept => OnlyPacketsSent
  <2>1. SUFFICES ASSUME Kept, lost < PacketLength
                 PROVE  /\ \A i \in 1..Len(accepted) : accepted[i] = PacketSent(Numbers[i])
                        /\ \A i \in 2..Len(accepted) : Numbers[i - 1] < Numbers[i]
    BY DEF OnlyPacketsSent, PacketLength
  <2>2. PICK x \in Int : AcceptedBelow(x)
    BY <2>1 DEF Kept, Reached, InPacket, Between
  <2>3. Typed /\ \A k \in 1..Len(accepted) : Numbers[k] = Number(k)
    BY <2>1, NumbersAre DEF Kept
  <2>4. ASSUME NEW i \in 1..Len(accepted)
        PROVE  accepted[i] = PacketSent(Numbers[i])
    BY <2>2, <2>3 DEF AcceptedBelow
  <2>5. ASSUME NEW i \in 2..Len(accepted)
        PROVE  Numbers[i - 1] < Numbers[i]
    <3>1. i \in 1..Len(accepted) /\ i - 1 \in 1..Len(accepted)
      BY <2>3 DEF Typed
    <3> QED BY <2>2, <2>3, <3>1 DEF AcceptedBelow
  <2> QED BY <2>4, <2>5
<1> QED BY <1>1, KeptHolds, PTL

\* A lost byte costs two packets at most, whatever the length of a packet and the
\* size of the buffer (ReadCommand of src/Reciver/Reciver.ino).
THEOREM LossCostsTwo == Spec => []LossIsBounded
<1>1. Kept => LossIsBounded
  <2>1. SUFFICES ASSUME Kept, lost < PacketLength, accepted /= <<>>
                 PROVE  Numbers[Len(accepted)] - Len(accepted) <= 2 * lost
    BY DEF LossIsBounded, PacketLength
  <2>2. PICK c \in Int : Reached(c)
    BY <2>1 DEF Kept
  <2>3. /\ Typed /\ c >= -1 /\ Missing(c) >= 0 /\ sent \in Nat /\ lost \in Nat
        /\ Len(rx) \in Nat /\ Len(rx) <= sent - 1 - c
    BY <2>1, <2>2 DEF Kept, Typed, Reached, Ordered
  <2>4. PICK i \in Nat, l \in Nat : i = Len(accepted) /\ l = lost
    BY <2>3 DEF Typed
  <2>5. i \in 1..Len(accepted)
    BY <2>1, <2>3, <2>4 DEF Typed
  <2>6. PICK m \in Int : m = Missing(c) /\ m <= l
    <3>1. PICK t \in Nat, r \in Nat : t = sent /\ r = Len(rx)
      BY <2>3
    <3>2. l - (t - 1 - c - r) \in Int /\ l - (t - 1 - c - r) <= l
      BY <2>3, <3>1
    <3> QED BY <2>4, <3>1, <3>2 DEF Missing
  <2>7. PICK n \in Nat : n = Number(i) /\ Numbers[i] = Number(i)
    <3>1. \E x \in Int : AcceptedBelow(x)
      BY <2>1, <2>2 DEF Reached, InPacket, Between
    <3> QED BY <2>3, <2>5, <3>1, NumbersAre DEF AcceptedBelow
  <2>8. PICK p \in Nat : p = Begun(c)
    BY <2>3, BegunExists
  <2>9. CASE pc = "packet"
    <3>1. c \in Nat /\ IsSTX(c) /\ n * PacketLength <= c /\ p - 1 - i <= 2 * m
      BY <2>1, <2>2, <2>4, <2>5, <2>6, <2>7, <2>8, <2>9 DEF Reached, InPacket, AcceptedBelow
    <3>2. PICK j \in Nat : c = j * PacketLength
      BY <3>1, FirstByte
    <3>3. p = j + 1
      BY <2>8, <3>1, <3>2, BegunAtFirstByte
    <3>4. j < n => j * PacketLength + PacketLength <= n * PacketLength
      BY Constants, MultiplesApart
    <3>5. n <= j
      <4>1. n * PacketLength \in Int
        BY Constants
      <4> QED BY Constants, <3>1, <3>2, <3>4, <4>1
    <3>6. n - i <= 2 * l
      BY <2>6, <3>1, <3>3, <3>5
    <3> QED BY <2>4, <2>7, <3>6
  <2>10. CASE pc /= "packet"
    <3>1. n * PacketLength <= c + 1 /\ p - i <= 2 * m
      BY <2>1, <2>2, <2>4, <2>5, <2>6, <2>7, <2>8, <2>10 DEF Reached, Between, AcceptedBelow
    <3>2. n <= p
      BY <2>3, <2>8, <3>1, EndedHaveBegun
    <3>3. n - i <= 2 * l
      BY <2>6, <3>1, <3>2
    <3> QED BY <2>4, <2>7, <3>3
  <2> QED BY <2>9, <2>10
<1> QED BY <1>1, KeptHolds, PTL

(***************************************************************************)
(* Without loss. What increases from 1 on does so by one at least.         *)
(***************************************************************************)
Less == {ss \in Nat \X Nat : ss[1] < ss[2]}

LEMMA LeastElement ==
    ASSUME NEW T, T \subseteq Nat, T /= {}
    PROVE  \E m \in T : \A n \in T : m <= n
<1>1. IsWellFoundedOn(Less, Nat)
  BY NatLessThanWellFounded DEF OpToRel, Less
<1>2. PICK m \in T : \A n \in T : ~ (<<n, m>> \in Less)
  BY <1>1, WFMin
<1>3. ASSUME NEW n \in T PROVE m <= n
  <2>1. m \in Nat /\ n \in Nat
    OBVIOUS
  <2>2. n < m => <<n, m>> \in Less
    BY <2>1 DEF Less
  <2> QED BY <1>2, <2>1, <2>2
<1> QED BY <1>2, <1>3

LEMMA Increasing ==
    ASSUME NEW n \in Nat, NEW f, \A k \in 1..n : f[k] \in Nat \ {0},
           \A k \in 2..n : f[k - 1] < f[k], NEW a \in 1..n, NEW b \in 1..n, a <= b
    PROVE  b - a <= f[b] - f[a]
<1> DEFINE T == {k \in 1..n : a <= k /\ f[k] - f[a] < k - a}
<1>1. SUFFICES ASSUME T /= {} PROVE FALSE
  <2>1. b \notin T => b - a <= f[b] - f[a]
    OBVIOUS
  <2> QED BY <2>1
<1>2. PICK m \in T : \A k \in T : m <= k
  <2>1. T \subseteq Nat
    OBVIOUS
  <2> HIDE DEF T
  <2> QED BY <1>1, <2>1, LeastElement
<1>3. m \in 1..n /\ a <= m /\ f[m] - f[a] < m - a
  BY <1>2
<1>4. m /= a
  BY <1>3
<1>5. m \in 2..n /\ m - 1 \in 1..n /\ a <= m - 1 /\ m - 1 \notin T
  BY <1>2, <1>3, <1>4
<1>6. PICK x \in Nat, y \in Nat, z \in Nat : x = f[m] /\ y = f[m - 1] /\ z = f[a]
  BY <1>3, <1>5
<1>7. y < x /\ (m - 1) - a <= y - z /\ x - z < m - a
  BY <1>3, <1>5, <1>6
<1> QED BY <1>5, <1>7

\* The numbers of the accepted packets grow by one at least from each to the next.
LEMMA NumbersGrow ==
    ASSUME Typed, NEW x \in Int, AcceptedBelow(x),
           NEW a \in 1..Len(accepted), NEW b \in 1..Len(accepted), a <= b
    PROVE  b - a <= Number(b) - Number(a)
<1>1. PICK n \in Nat : n = Len(accepted)
  BY DEF Typed
<1>2. PICK f : f = [k \in 1..n |-> Number(k)]
  OBVIOUS
<1>3. \A k \in 1..n : f[k] \in Nat \ {0} /\ f[k] = Number(k)
  BY <1>1, <1>2 DEF AcceptedBelow
<1>4. ASSUME NEW k \in 2..n PROVE f[k - 1] < f[k]
  <2>1. k \in 1..n /\ k - 1 \in 1..n
    BY <1>1
  <2> QED BY <1>1, <1>3, <2>1 DEF AcceptedBelow
<1>5. b - a <= f[b] - f[a]
  BY <1>1, <1>3, <1>4, Increasing
<1> QED BY <1>1, <1>3, <1>5

\* When no more packets have begun than are accepted, the accepted ones are all of them.
LEMMA NumbersAreAll ==
    ASSUME Typed, NEW x \in Int, AcceptedBelow(x), NEW n \in Nat, n = Len(accepted),
           n > 0 => Number(n) <= n
    PROVE  \A k \in 1..n : Number(k) = k
<1> SUFFICES ASSUME NEW k \in 1..n PROVE Number(k) = k
  OBVIOUS
<1>1. 1 \in 1..n /\ n \in 1..n /\ n > 0
  OBVIOUS
<1>2. k - 1 <= Number(k) - Number(1) /\ n - k <= Number(n) - Number(k)
  BY <1>1, NumbersGrow
<1>3. PICK f \in Nat, k1 \in Nat, fn \in Nat :
          f = Number(1) /\ k1 = Number(k) /\ fn = Number(n) /\ f > 0
  BY <1>1 DEF AcceptedBelow
<1> QED BY <1>1, <1>2, <1>3

\* A line that loses nothing: the packets are accepted in turn, none is skipped, and
\* all that is read is part of one (ReadCommand of src/Reciver/Reciver.ino).
THEOREM WithoutLossNothingIsSkipped == Spec => []NothingSkipped
<1>1. Kept => NothingSkipped
  <2>1. SUFFICES ASSUME Kept, lost = 0
                 PROVE  /\ \A i \in 1..Len(accepted) : accepted[i] = PacketSent(i)
                        /\ sent - Len(rx) = Len(accepted) * PacketLength
                                              + (IF pc = "packet" THEN 1 ELSE 0)
    BY DEF NothingSkipped
  <2>2. PICK c \in Int : Reached(c)
    BY <2>1 DEF Kept
  <2>3. /\ Typed /\ c >= -1 /\ Missing(c) >= 0 /\ sent \in Nat
        /\ Len(rx) \in Nat /\ Len(rx) <= sent - 1 - c /\ lost < PacketLength
    BY <2>1, <2>2, Constants DEF Kept, Typed, Reached, Ordered
  <2>4. Missing(c) = 0 /\ sent - Len(rx) = c + 1
    <3>1. PICK t \in Nat, r \in Nat : t = sent /\ r = Len(rx)
      BY <2>3
    <3>2. Missing(c) = 0 - (t - 1 - c - r)
      BY <2>1, <3>1 DEF Missing
    <3>3. 0 - (t - 1 - c - r) >= 0 /\ r <= t - 1 - c
      BY <2>3, <3>1, <3>2
    <3>4. 0 - (t - 1 - c - r) = 0 /\ t - r = c + 1
      BY <3>3
    <3> QED BY <3>1, <3>2, <3>4
  <2>5. PICK n \in Nat : n = Len(accepted)
    BY <2>3 DEF Typed
  <2>6. ASSUME NEW x \in Int, AcceptedBelow(x), n > 0 => Number(n) <= n
        PROVE  \A i \in 1..Len(accepted) : accepted[i] = PacketSent(i)
    <3>1. \A k \in 1..n : Number(k) = k
      BY <2>3, <2>5, <2>6, NumbersAreAll
    <3> QED BY <2>5, <2>6, <3>1 DEF AcceptedBelow
  <2>7. CASE pc = "packet"
    <3>1. c \in Nat /\ IsSTX(c) /\ AcceptedBelow(c) /\ Begun(c) - 1 - n <= 0
      BY <2>2, <2>3, <2>4, <2>5, <2>7 DEF Reached, InPacket
    <3>2. PICK p \in Nat : c = p * PacketLength
      BY <3>1, FirstByte
    <3>3. Begun(c) = p + 1 /\ p <= n
      <4>1. Begun(c) = p + 1
        BY <3>1, <3>2, BegunAtFirstByte
      <4> QED BY <3>1, <4>1
    <3>4. n > 0 => Number(n) <= p /\ Number(n) \in Nat
      <4>1. SUFFICES ASSUME n > 0 PROVE Number(n) <= p /\ Number(n) \in Nat
        OBVIOUS
      <4>2. PICK k \in Nat : k = Number(n) /\ k * PacketLength <= c
        <5>1. n \in 1..n
          BY <4>1
        <5> QED BY <2>5, <3>1, <5>1 DEF AcceptedBelow
      <4>3. p < k => p * PacketLength + PacketLength <= k * PacketLength
        BY Constants, MultiplesApart
      <4>4. p * PacketLength \in Int /\ k * PacketLength \in Int
        BY Constants
      <4> QED BY Constants, <3>2, <4>2, <4>3, <4>4
    <3>5. n > 0 => Number(n) <= n
      BY <3>3, <3>4
    <3>6. n = p
      <4>1. n > 0 => Number(n) = n
        <5>1. SUFFICES ASSUME n > 0 PROVE Number(n) = n
          OBVIOUS
        <5>2. \A k \in 1..n : Number(k) = k
          BY <2>3, <2>5, <3>1, <3>5, NumbersAreAll
        <5> QED BY <5>1, <5>2
      <4> QED BY <3>3, <3>4, <4>1
    <3>7. sent - Len(rx) = n * PacketLength + 1
      BY <2>4, <3>2, <3>6
    <3>8. \A i \in 1..Len(accepted) : accepted[i] = PacketSent(i)
      BY <2>6, <3>1, <3>5
    <3> QED BY <2>5, <2>7, <3>7, <3>8
  <2>8. CASE pc /= "packet"
    <3>1. AcceptedBelow(c + 1) /\ Begun(c) - n <= 0
      BY <2>2, <2>3, <2>4, <2>5, <2>8 DEF Reached, Between
    <3>2. PICK q \in Nat, r \in 0..(PacketLength - 1) :
              c + PacketLength = q * PacketLength + r /\ Begun(c) = q
      BY <2>3, BegunExists
    <3>3. q <= n
      BY <3>1, <3>2
    <3>4. n > 0 => /\ Number(n) \in Nat /\ Number(n) <= q
                   /\ Number(n) * PacketLength <= c + 1
      <4>1. SUFFICES ASSUME n > 0
                     PROVE  /\ Number(n) \in Nat /\ Number(n) <= q
                            /\ Number(n) * PacketLength <= c + 1
        OBVIOUS
      <4>2. Number(n) \in Nat /\ Number(n) * PacketLength <= c + 1
        <5>1. n \in 1..n
          BY <4>1
        <5> QED BY <2>5, <3>1, <5>1 DEF AcceptedBelow
      <4>3. Number(n) <= Begun(c)
        BY <2>3, <4>2, EndedHaveBegun
      <4> QED BY <3>2, <4>2, <4>3
    <3>5. n > 0 => Number(n) <= n
      BY <3>3, <3>4
    <3>6. n = q /\ n * PacketLength <= c + 1
      <4>1. CASE n > 0
        <5>1. \A k \in 1..n : Number(k) = k
          BY <2>3, <2>5, <3>1, <3>5, NumbersAreAll
        <5>2. Number(n) = n
          BY <4>1, <5>1
        <5> QED BY <3>3, <3>4, <4>1, <5>2
      <4>2. CASE n = 0
        BY Constants, <2>3, <3>3, <4>2
      <4> QED BY <4>1, <4>2
    <3>7. n * PacketLength = c + 1
      <4>1. PICK d \in Nat \ {0}, y \in Int : d = PacketLength /\ y = n * PacketLength
        BY Constants
      <4>2. c + d = y + r /\ y <= c + 1 /\ r <= d - 1
        BY <3>2, <3>6, <4>1
      <4>3. y = c + 1
        BY <4>1, <4>2
      <4> QED BY <4>1, <4>3
    <3>8. sent - Len(rx) = n * PacketLength + 0
      BY <2>3, <2>4, <3>7
    <3>9. \A i \in 1..Len(accepted) : accepted[i] = PacketSent(i)
      BY <2>6, <3>1, <3>5
    <3> QED BY <2>5, <2>8, <3>8, <3>9
  <2> QED BY <2>7, <2>8
<1> QED BY <1>1, KeptHolds, PTL

\* A line that loses nothing: the receiver that waits when all is sent has accepted
\* everything. With fairness this is why every packet arrives (the waits of loop()
\* and ReadCommand of src/Reciver/Reciver.ino, lines 115 and 288 to 303).
THEOREM WaitsAreNotInVain == Spec => []NeverWaitsInVain
<1>1. Kept /\ NothingSkipped => NeverWaitsInVain
  <2>1. SUFFICES ASSUME Kept, NothingSkipped, lost = 0, sent = Total, Waiting
                 PROVE  Len(accepted) = NPACKETS
    BY DEF NeverWaitsInVain
  <2>2. PICK l \in Nat, n \in Nat : l = Len(rx) /\ n = Len(accepted)
    BY <2>1 DEF Kept, Typed
  <2>3. NPACKETS \in Nat /\ n * PacketLength \in Int /\ NPACKETS * PacketLength \in Int
    BY Constants, FramingAssumption
  <2>4. /\ n < NPACKETS => n * PacketLength + PacketLength <= NPACKETS * PacketLength
        /\ NPACKETS < n => NPACKETS * PacketLength + PacketLength <= n * PacketLength
    BY Constants, <2>3, MultiplesApart
  <2>5. CASE pc = "packet"
    <3>1. NPACKETS * PacketLength - l = n * PacketLength + 1
      BY <2>1, <2>2, <2>5 DEF NothingSkipped, Total
    <3>2. l < DIGITS + 1
      BY Constants, <2>1, <2>2, <2>5 DEF Waiting, PacketIn
    <3> QED BY Constants, <2>2, <2>3, <2>4, <3>1, <3>2
  <2>6. CASE pc /= "packet"
    <3>1. NPACKETS * PacketLength - l = n * PacketLength + 0
      BY <2>1, <2>2, <2>6 DEF NothingSkipped, Total
    <3>2. l = 0
      BY <2>1, <2>2, <2>6 DEF Waiting
    <3> QED BY Constants, <2>2, <2>3, <2>4, <3>1, <3>2
  <2> QED BY <2>5, <2>6
<1> QED BY <1>1, KeptHolds, WithoutLossNothingIsSkipped, PTL
=============================================================================
