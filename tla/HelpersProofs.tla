---------------------------- MODULE HelpersProofs ----------------------------
(***************************************************************************)
(* Theorems about Base64, for inputs of every length, and about Helpers,   *)
(* for every set of transactions, texts and sizes.                         *)
(***************************************************************************)
EXTENDS Helpers, TLAPS, FiniteSetTheorems, SequenceTheorems

(***************************************************************************)
(* Base64.                                                                 *)
(***************************************************************************)


\* The four digits of three bytes, and the bytes they give.
LEMMA DigitsOfBlock ==
    ASSUME NEW a \in Byte, NEW b \in Byte, NEW c \in Byte
    PROVE  /\ Get0(a) \in Digit
           /\ Get1(a, b) \in Digit
           /\ Get2(b, c) \in Digit
           /\ Get3(c) \in Digit
BY DEF Get0, Get1, Get2, Get3, Byte, Digit

LEMMA FirstByte ==
    ASSUME NEW a \in Byte, NEW b \in Byte
    PROVE  Get0(a) * 4 + Get1(a, b) \div 16 = a
<1>1. b \div 16 \in 0 .. 15 /\ a % 4 \in 0 .. 3
    BY DEF Byte
<1>2. ((a % 4) * 16 + b \div 16) \div 16 = a % 4
    BY <1>1
<1>3. (a \div 4) * 4 + (a % 4) = a
    BY DEF Byte
<1> QED
    BY <1>2, <1>3 DEF Get0, Get1

LEMMA SecondByte ==
    ASSUME NEW a \in Byte, NEW b \in Byte, NEW c \in Byte
    PROVE  ((Get1(a, b) * 16) % 256) + Get2(b, c) \div 4 = b
<1>1. c \div 64 \in 0 .. 3 /\ b % 16 \in 0 .. 15 /\ b \div 16 \in 0 .. 15 /\ a % 4 \in 0 .. 3
    BY DEF Byte
<1>2. ((b % 16) * 4 + c \div 64) \div 4 = b % 16
    BY <1>1
<1>3. ((a % 4) * 16 + b \div 16) * 16 = 256 * (a % 4) + 16 * (b \div 16)
    BY <1>1
<1>4. (256 * (a % 4) + 16 * (b \div 16)) % 256 = 16 * (b \div 16)
    BY <1>1
<1>5. 16 * (b \div 16) + (b % 16) = b
    BY DEF Byte
<1> QED
    BY <1>2, <1>3, <1>4, <1>5 DEF Get1, Get2

LEMMA ThirdByte ==
    ASSUME NEW b \in Byte, NEW c \in Byte
    PROVE  ((Get2(b, c) * 64) % 256) + Get3(c) = c
<1>1. c \div 64 \in 0 .. 3 /\ b % 16 \in 0 .. 15
    BY DEF Byte
<1>2. ((b % 16) * 4 + c \div 64) * 64 = 256 * (b % 16) + 64 * (c \div 64)
    BY <1>1
<1>3. (256 * (b % 16) + 64 * (c \div 64)) % 256 = 64 * (c \div 64)
    BY <1>1
<1>4. 64 * (c \div 64) + (c % 64) = c
    BY DEF Byte
<1> QED
    BY <1>2, <1>3, <1>4 DEF Get2, Get3

-----------------------------------------------------------------------------

\* The number of digits of n bytes, and that of the bytes they give.
DigitCount(n) == n + Blocks(n)

LEMMA CountDigits ==
    ASSUME NEW n \in Nat
    PROVE  /\ Blocks(n) \in Nat
           /\ DigitCount(n) \in Nat
           /\ DigitCount(n) \in 0 .. 4 * Blocks(n)
           /\ BytesOf(DigitCount(n)) = n
           /\ n % 3 = 0 => DigitCount(n) % 4 = 0 /\ DigitCount(n) = 4 * Blocks(n)
           /\ n % 3 = 1 => DigitCount(n) % 4 = 2 /\ DigitCount(n) + 2 = 4 * Blocks(n)
           /\ n % 3 = 2 => DigitCount(n) % 4 = 3 /\ DigitCount(n) + 1 = 4 * Blocks(n)
<1> DEFINE q == n \div 3
<1>1. q \in Nat /\ n % 3 \in 0 .. 2 /\ n = 3 * q + (n % 3)
    OBVIOUS
<1>2. CASE n % 3 = 0
  <2>1. Blocks(n) = q /\ DigitCount(n) = 4 * q
      BY <1>1, <1>2 DEF Blocks, DigitCount
  <2>2. (4 * q) % 4 = 0 /\ (4 * q) \div 4 = q
      BY <1>1
  <2> QED
      BY <1>1, <1>2, <2>1, <2>2 DEF BytesOf
<1>3. CASE n % 3 = 1
  <2>1. Blocks(n) = q + 1 /\ DigitCount(n) = 4 * q + 2
      BY <1>1, <1>3 DEF Blocks, DigitCount
  <2>2. (4 * q + 2) % 4 = 2 /\ (4 * q + 2) \div 4 = q
      BY <1>1
  <2> QED
      BY <1>1, <1>3, <2>1, <2>2 DEF BytesOf
<1>4. CASE n % 3 = 2
  <2>1. Blocks(n) = q + 1 /\ DigitCount(n) = 4 * q + 3
      BY <1>1, <1>4 DEF Blocks, DigitCount
  <2>2. (4 * q + 3) % 4 = 3 /\ (4 * q + 3) \div 4 = q
      BY <1>1
  <2> QED
      BY <1>1, <1>4, <2>1, <2>2 DEF BytesOf
<1> QED
    BY <1>1, <1>2, <1>3, <1>4

LEMMA ByteAtType ==
    ASSUME NEW s \in Seq(Byte), NEW p \in Nat \ {0}
    PROVE  ByteAt(s, p) \in Byte
<1>1. CASE p <= Len(s)
    BY <1>1 DEF ByteAt
<1>2. CASE ~(p <= Len(s))
    BY <1>2 DEF ByteAt, Byte
<1> QED
    BY <1>1, <1>2

\* The digits of block k, up to the end of the bytes.
LEMMA BlockDigits ==
    ASSUME NEW s \in Seq(Byte), NEW k \in Nat
    PROVE  /\ DigitAt(s, 4 * k + 1) = Get0(ByteAt(s, 3 * k + 1))
           /\ DigitAt(s, 4 * k + 2) = Get1(ByteAt(s, 3 * k + 1), ByteAt(s, 3 * k + 2))
           /\ DigitAt(s, 4 * k + 3) =
                  IF 3 * k + 2 > Len(s) THEN Terminator
                  ELSE Get2(ByteAt(s, 3 * k + 2), ByteAt(s, 3 * k + 3))
           /\ DigitAt(s, 4 * k + 4) =
                  IF 3 * k + 3 > Len(s) THEN Terminator
                  ELSE Get3(ByteAt(s, 3 * k + 3))
<1>1. /\ (4 * k + 1 - 1) \div 4 = k /\ (4 * k + 1 - 1) % 4 = 0
      /\ (4 * k + 2 - 1) \div 4 = k /\ (4 * k + 2 - 1) % 4 = 1
      /\ (4 * k + 3 - 1) \div 4 = k /\ (4 * k + 3 - 1) % 4 = 2
      /\ (4 * k + 4 - 1) \div 4 = k /\ (4 * k + 4 - 1) % 4 = 3
    OBVIOUS
<1>2. /\ DigitAt(s, 4 * k + 1) = DigitOf(s, 3 * k, 0)
      /\ DigitAt(s, 4 * k + 2) = DigitOf(s, 3 * k, 1)
      /\ DigitAt(s, 4 * k + 3) = DigitOf(s, 3 * k, 2)
      /\ DigitAt(s, 4 * k + 4) = DigitOf(s, 3 * k, 3)
  <2>1. ASSUME NEW i \in Int, NEW j \in 0 .. 3, (i - 1) \div 4 = k, (i - 1) % 4 = j
        PROVE  DigitAt(s, i) = DigitOf(s, 3 * k, j)
      BY <2>1, Zenon DEF DigitAt
  <2> QED
      BY <1>1, <2>1
<1>3. /\ DigitOf(s, 3 * k, 0) = Get0(ByteAt(s, 3 * k + 1))
      /\ DigitOf(s, 3 * k, 1) = Get1(ByteAt(s, 3 * k + 1), ByteAt(s, 3 * k + 2))
    BY DEF DigitOf
<1>4. DigitOf(s, 3 * k, 2) =
          IF 3 * k + 2 > Len(s) THEN Terminator
          ELSE Get2(ByteAt(s, 3 * k + 2), ByteAt(s, 3 * k + 3))
    BY DEF DigitOf, Padded
<1>5. DigitOf(s, 3 * k, 3) =
          IF 3 * k + 3 > Len(s) THEN Terminator ELSE Get3(ByteAt(s, 3 * k + 3))
    BY DEF DigitOf, Padded
<1> QED
    BY <1>2, <1>3, <1>4, <1>5

\* The text begins with DigitCount digits and goes on with "=" alone.
LEMMA DigitsThenPads ==
    ASSUME NEW s \in Seq(Byte), NEW i \in 1 .. 4 * Blocks(Len(s))
    PROVE  /\ i <= DigitCount(Len(s)) => DigitAt(s, i) \in Digit
           /\ i > DigitCount(Len(s)) => DigitAt(s, i) = Terminator
<1> DEFINE n == Len(s)
           k == (i - 1) \div 4
           q == n \div 3
<1>1. n \in Nat /\ Blocks(n) \in Nat /\ i \in Nat
    BY CountDigits
<1>2. k \in Nat /\ i \in {4 * k + 1, 4 * k + 2, 4 * k + 3, 4 * k + 4} /\ k < Blocks(n)
    BY <1>1
<1>3. /\ ByteAt(s, 3 * k + 1) \in Byte
      /\ ByteAt(s, 3 * k + 2) \in Byte
      /\ ByteAt(s, 3 * k + 3) \in Byte
    BY <1>2, ByteAtType
<1>4. /\ Get0(ByteAt(s, 3 * k + 1)) \in Digit
      /\ Get1(ByteAt(s, 3 * k + 1), ByteAt(s, 3 * k + 2)) \in Digit
      /\ Get2(ByteAt(s, 3 * k + 2), ByteAt(s, 3 * k + 3)) \in Digit
      /\ Get3(ByteAt(s, 3 * k + 3)) \in Digit
    BY <1>3, DigitsOfBlock
<1>5. q \in Nat /\ n % 3 \in 0 .. 2 /\ n = 3 * q + (n % 3)
    BY <1>1
<1>6. /\ n % 3 = 0 => Blocks(n) = q /\ DigitCount(n) = 4 * q
      /\ n % 3 = 1 => Blocks(n) = q + 1 /\ DigitCount(n) = 4 * q + 2
      /\ n % 3 = 2 => Blocks(n) = q + 1 /\ DigitCount(n) = 4 * q + 3
    BY <1>5 DEF Blocks, DigitCount
<1>7. /\ 4 * k + 1 <= DigitCount(n) /\ 4 * k + 2 <= DigitCount(n)
      /\ 4 * k + 3 <= DigitCount(n) <=> 3 * k + 2 <= n
      /\ 4 * k + 4 <= DigitCount(n) <=> 3 * k + 3 <= n
    BY <1>2, <1>5, <1>6
<1>8. /\ DigitAt(s, 4 * k + 1) \in Digit /\ DigitAt(s, 4 * k + 2) \in Digit
      /\ DigitAt(s, 4 * k + 3) \in Digit \/ 3 * k + 2 > n
      /\ DigitAt(s, 4 * k + 4) \in Digit \/ 3 * k + 3 > n
      /\ 3 * k + 2 > n => DigitAt(s, 4 * k + 3) = Terminator
      /\ 3 * k + 3 > n => DigitAt(s, 4 * k + 4) = Terminator
    BY <1>2, <1>4, BlockDigits
<1>9. DigitCount(n) \in Nat
    BY <1>1, CountDigits
<1>10. CASE i = 4 * k + 1
    BY <1>7, <1>8, <1>9, <1>10
<1>11. CASE i = 4 * k + 2
    BY <1>7, <1>8, <1>9, <1>11
<1>12. CASE i = 4 * k + 3
    BY <1>1, <1>2, <1>7, <1>8, <1>9, <1>12
<1>13. CASE i = 4 * k + 4
    BY <1>1, <1>2, <1>7, <1>8, <1>9, <1>13
<1> QED
    BY <1>2, <1>10, <1>11, <1>12, <1>13

LEMMA EncodedType ==
    ASSUME NEW s \in Seq(Byte)
    PROVE  /\ Len(BinToB64(s)) = 4 * Blocks(Len(s))
           /\ BinToB64(s) \in Seq(Symbol)
           /\ \A i \in 1 .. 4 * Blocks(Len(s)) : BinToB64(s)[i] = DigitAt(s, i)
<1> DEFINE m == 4 * Blocks(Len(s))
<1>1. m \in Nat /\ DigitCount(Len(s)) \in Nat
  <2>1. Len(s) \in Nat
      OBVIOUS
  <2>2. Blocks(Len(s)) \in Nat /\ DigitCount(Len(s)) \in Nat
      BY <2>1, CountDigits
  <2> QED
      BY <2>2
<1>2. \A i \in 1 .. m : DigitAt(s, i) \in Symbol
    BY <1>1, DigitsThenPads DEF Symbol
<1> HIDE DEF m
<1>3. [i \in 1 .. m |-> DigitAt(s, i)] \in Seq(Symbol)
    BY <1>1, <1>2
<1>4. Len([i \in 1 .. m |-> DigitAt(s, i)]) = m
    BY <1>1
<1> QED
    BY <1>3, <1>4 DEF BinToB64, m

\* b64tobin stops after the digits that bintob64 has written.
LEMMA DigitRunOfEncoded ==
    ASSUME NEW s \in Seq(Byte)
    PROVE  DigitRun(BinToB64(s)) = DigitCount(Len(s))
<1> DEFINE t == BinToB64(s)
           m == 4 * Blocks(Len(s))
           d == DigitCount(Len(s))
           Stop(n) == IsRun(t, n) /\ SymbolAt(t, n + 1) \notin Digit
<1>1. Len(t) = m /\ m \in Nat /\ d \in 0 .. m
    BY EncodedType, CountDigits
<1>2. /\ \A i \in 1 .. d : t[i] \in Digit
      /\ \A i \in d + 1 .. m : t[i] = Terminator
    BY <1>1, EncodedType, DigitsThenPads
<1> HIDE DEF t, m, d
<1>3. Terminator \notin Digit /\ NotABase64 \notin Digit
    BY DEF Terminator, NotABase64, Digit
<1>4. Stop(d)
  <2>1. IsRun(t, d)
      BY <1>2 DEF IsRun
  <2>2. SymbolAt(t, d + 1) \notin Digit
      BY <1>1, <1>2, <1>3 DEF SymbolAt
  <2> QED
      BY <2>1, <2>2
<1>5. ASSUME NEW n \in 0 .. m, Stop(n)
      PROVE  n = d
  <2>1. CASE n < d
      BY <1>1, <1>2, <1>5, <2>1 DEF SymbolAt
  <2>2. CASE n > d
    <3>1. d + 1 \in 1 .. n /\ d + 1 \in d + 1 .. m
        BY <1>1, <2>2
    <3> QED
        BY <1>2, <1>3, <1>5, <3>1 DEF IsRun
  <2> QED
      BY <1>1, <2>1, <2>2
<1>6. DigitRun(t) = CHOOSE n \in 0 .. m : Stop(n)
    BY <1>1 DEF DigitRun
<1> HIDE DEF Stop
<1>7. (CHOOSE n \in 0 .. m : Stop(n)) = d
    BY <1>1, <1>4, <1>5
<1> QED
    BY <1>6, <1>7 DEF t, d

\* The bytes of block b, as far as there are any.
LEMMA BytesOfBlock ==
    ASSUME NEW s \in Seq(Byte), NEW b \in Nat
    PROVE  LET t == BinToB64(s)
           IN  /\ 3 * b + 1 <= Len(s) => ByteOf(t, 4 * b, 0) = s[3 * b + 1]
               /\ 3 * b + 2 <= Len(s) => ByteOf(t, 4 * b, 1) = s[3 * b + 2]
               /\ 3 * b + 3 <= Len(s) => ByteOf(t, 4 * b, 2) = s[3 * b + 3]
<1> DEFINE t == BinToB64(s)
           n == Len(s)
           x == ByteAt(s, 3 * b + 1)
           y == ByteAt(s, 3 * b + 2)
           z == ByteAt(s, 3 * b + 3)
<1>1. x \in Byte /\ y \in Byte /\ z \in Byte
    BY ByteAtType
<1>2. n \in Nat /\ Blocks(n) \in Nat
    BY CountDigits
<1>3. 3 * b + 1 <= n => {4 * b + 1, 4 * b + 2, 4 * b + 3, 4 * b + 4} \subseteq 1 .. 4 * Blocks(n)
  <2>1. 3 * b + 1 <= n => b < Blocks(n)
      BY <1>2 DEF Blocks
  <2> QED
      BY <1>2, <2>1
<1>4. 3 * b + 1 <= n => /\ t[4 * b + 1] = Get0(x)
                        /\ t[4 * b + 2] = Get1(x, y)
                        /\ t[4 * b + 3] = DigitAt(s, 4 * b + 3)
                        /\ t[4 * b + 4] = DigitAt(s, 4 * b + 4)
    BY <1>3, EncodedType, BlockDigits
<1>5. 3 * b + 2 <= n => t[4 * b + 3] = Get2(y, z)
    BY <1>2, <1>4, BlockDigits
<1>6. 3 * b + 3 <= n => t[4 * b + 4] = Get3(z)
    BY <1>2, <1>4, BlockDigits
<1>7. /\ 3 * b + 1 <= n => x = s[3 * b + 1]
      /\ 3 * b + 2 <= n => y = s[3 * b + 2]
      /\ 3 * b + 3 <= n => z = s[3 * b + 3]
    BY DEF ByteAt
<1> HIDE DEF t, n, x, y, z
<1>8. ASSUME 3 * b + 1 <= n
      PROVE  ByteOf(t, 4 * b, 0) = x
  <2>1. ByteOf(t, 4 * b, 0) = t[4 * b + 1] * 4 + t[4 * b + 2] \div 16
      BY DEF ByteOf
  <2> QED
      BY <1>1, <1>4, <1>8, <2>1, FirstByte
<1>9. ASSUME 3 * b + 2 <= n
      PROVE  ByteOf(t, 4 * b, 1) = y
  <2>1. ByteOf(t, 4 * b, 1) = ((t[4 * b + 2] * 16) % 256) + t[4 * b + 3] \div 4
      BY DEF ByteOf
  <2>2. 3 * b + 1 <= n
      BY <1>2, <1>9
  <2> QED
      BY <1>1, <1>4, <1>5, <1>9, <2>1, <2>2, SecondByte
<1>10. ASSUME 3 * b + 3 <= n
       PROVE  ByteOf(t, 4 * b, 2) = z
  <2>1. ByteOf(t, 4 * b, 2) = ((t[4 * b + 3] * 64) % 256) + t[4 * b + 4]
      BY DEF ByteOf
  <2>2. 3 * b + 2 <= n
      BY <1>2, <1>10
  <2> QED
      BY <1>1, <1>5, <1>6, <1>10, <2>1, <2>2, ThirdByte
<1> QED
    BY <1>7, <1>8, <1>9, <1>10 DEF t, n, x, y, z

\* b64tobin gives back the bytes bintob64 was given, however many.
THEOREM RoundTrip ==
    ASSUME NEW s \in Seq(Byte)
    PROVE  B64ToBin(BinToB64(s)) = [ok |-> TRUE, bytes |-> s]
<1> DEFINE t == BinToB64(s)
           n == Len(s)
           d == DigitCount(n)
<1>1. n \in Nat /\ Len(t) = 4 * Blocks(n)
    BY EncodedType
<1>2. DigitRun(t) = d /\ BytesOf(d) = n /\ d \in Nat
    BY <1>1, DigitRunOfEncoded, CountDigits
<1>3. \A i \in d + 1 .. Len(t) : SymbolAt(t, i) = Terminator
  <2>1. \A i \in d + 1 .. 4 * Blocks(n) : t[i] = Terminator
      BY <1>1, <1>2, EncodedType, DigitsThenPads
  <2> QED
      BY <1>1, <1>2, <2>1 DEF SymbolAt
<1>4. EndsWell(t, d)
  <2> HIDE DEF t, n, d
  <2>1. CASE n % 3 = 0
      BY <1>1, <2>1, CountDigits DEF EndsWell, d
  <2>2. CASE n % 3 = 1
    <3>1. d % 4 = 2 /\ d + 2 = Len(t)
        BY <1>1, <2>2, CountDigits DEF d
    <3>2. d + 1 \in d + 1 .. Len(t) /\ d + 2 \in d + 1 .. Len(t)
        BY <1>2, <3>1
    <3> QED
        BY <1>3, <3>1, <3>2 DEF EndsWell
  <2>3. CASE n % 3 = 2
    <3>1. d % 4 = 3 /\ d + 1 = Len(t)
        BY <1>1, <2>3, CountDigits DEF d
    <3>2. d + 1 \in d + 1 .. Len(t)
        BY <1>2, <3>1
    <3> QED
        BY <1>3, <3>1, <3>2 DEF EndsWell
  <2> QED
      BY <1>1, <2>1, <2>2, <2>3
<1>5. ASSUME NEW k \in 1 .. n
      PROVE  StoredAt(t, k) = s[k]
  <2> DEFINE b == (k - 1) \div 3
             j == (k - 1) % 3
  <2>1. b \in Nat /\ j \in 0 .. 2 /\ k = 3 * b + j + 1
      BY <1>1
  <2>2. StoredAt(t, k) = ByteOf(t, 4 * b, j)
      BY DEF StoredAt
  <2> HIDE DEF b, j
  <2>3. CASE j = 0
      BY <1>1, <2>1, <2>2, <2>3, BytesOfBlock
  <2>4. CASE j = 1
      BY <1>1, <2>1, <2>2, <2>4, BytesOfBlock
  <2>5. CASE j = 2
      BY <1>1, <2>1, <2>2, <2>5, BytesOfBlock
  <2> QED
      BY <2>1, <2>3, <2>4, <2>5
<1>6. s = [k \in 1 .. n |-> s[k]]
    OBVIOUS
<1>7. [k \in 1 .. BytesOf(d) |-> StoredAt(t, k)] = s
    BY <1>2, <1>5, <1>6
<1> HIDE DEF t, d
<1> QED
    BY <1>2, <1>4, <1>7 DEF B64ToBin, t

\* The payload of a transaction of any size has room in its allocation.
THEOREM PayloadHasRoom ==
    ASSUME NEW n \in Nat
    PROVE  PayloadSize(n) <= AllocationSize(n)
<1>1. n + 3 - 1 = n + 2
    OBVIOUS
<1>2. (n + 2) \div 3 \in Nat
    OBVIOUS
<1> QED
    BY <1>1, <1>2 DEF PayloadSize, AllocationSize, Blocks

\* A set of numbers has a least one.
LEMMA Least ==
    ASSUME NEW T, T \subseteq Nat, T # {}
    PROVE  \E x \in T : \A y \in T : ~(y < x)
<1> DEFINE R == StrictSubsetOrdering(Nat)
           W == {1 .. n : n \in T}
<1>1. IsWellFoundedOn(R, FiniteSubsetsOf(Nat))
    BY FS_StrictSubsetOrderingWellFounded
<1>2. W \subseteq FiniteSubsetsOf(Nat) /\ W # {}
  <2>1. ASSUME NEW n \in T
        PROVE  1 .. n \in FiniteSubsetsOf(Nat)
    <3>1. IsFiniteSet(1 .. n)
        BY FS_Interval
    <3>2. 1 .. n \in SUBSET Nat
        OBVIOUS
    <3> QED
        BY <3>1, <3>2 DEF FiniteSubsetsOf
  <2> QED
      BY <2>1
<1>3. \E X \in W : \A Y \in W : ~ (<<Y, X>> \in R)
  <2> HIDE DEF R, W
  <2> QED
      BY <1>1, <1>2, WFMin, Zenon
<1>4. \A a, b \in Nat : a < b => <<1 .. a, 1 .. b>> \in R
    BY DEF StrictSubsetOrdering
<1> HIDE DEF R
<1> QED
    BY <1>3, <1>4

\* b64tobin stops somewhere: behind the digits the text begins with.
LEMMA DigitRunStops ==
    ASSUME NEW s \in Seq(Symbol)
    PROVE  /\ DigitRun(s) \in 0 .. Len(s)
           /\ IsRun(s, DigitRun(s))
           /\ SymbolAt(s, DigitRun(s) + 1) \notin Digit
<1> DEFINE T == {i \in 1 .. Len(s) + 1 : SymbolAt(s, i) \notin Digit}
           Stop(n) == IsRun(s, n) /\ SymbolAt(s, n + 1) \notin Digit
<1>1. Len(s) \in Nat
    OBVIOUS
<1>2. Len(s) + 1 \in T
  <2>1. SymbolAt(s, Len(s) + 1) = NotABase64
      BY <1>1 DEF SymbolAt
  <2>2. NotABase64 \notin Digit
      BY DEF NotABase64, Digit
  <2>3. Len(s) + 1 \in 1 .. Len(s) + 1
      BY <1>1
  <2> QED
      BY <2>1, <2>2, <2>3
<1>3. PICK m \in T : \A y \in T : ~(y < m)
  <2>1. T \subseteq Nat /\ T # {}
      BY <1>1, <1>2
  <2> QED
      BY <2>1, Least
<1>4. m - 1 \in 0 .. Len(s) /\ m \in 1 .. Len(s) + 1 /\ (m - 1) + 1 = m
    BY <1>1, <1>3
<1>5. IsRun(s, m - 1)
  <2>1. ASSUME NEW i \in 1 .. m - 1
        PROVE  s[i] \in Digit
    <3>1. i \in 1 .. Len(s) + 1 /\ i < m /\ i <= Len(s)
        BY <1>1, <1>4
    <3>2. i \notin T
        BY <1>3, <3>1
    <3> QED
        BY <3>1, <3>2 DEF SymbolAt
  <2> QED
      BY <2>1 DEF IsRun
<1>6. Stop(m - 1)
    BY <1>3, <1>4, <1>5
<1> HIDE DEF Stop
<1>7. LET d == CHOOSE n \in 0 .. Len(s) : Stop(n)
      IN  d \in 0 .. Len(s) /\ Stop(d)
    BY <1>4, <1>6
<1> QED
    BY <1>7 DEF DigitRun, Stop

\* A block of digits gives bytes.
LEMMA BytesOfDigits ==
    ASSUME NEW a \in Digit, NEW b \in Digit
    PROVE  /\ a * 4 + b \div 16 \in Byte
           /\ ((a * 16) % 256) + b \div 4 \in Byte
           /\ ((a * 64) % 256) + b \in Byte
<1>1. b \div 16 \in 0 .. 3 /\ b \div 4 \in 0 .. 15 /\ a \in 0 .. 63 /\ b \in 0 .. 63
    BY DEF Digit
<1>2. a * 4 \in 0 .. 252
    BY <1>1
<1>3. (a * 16) % 256 \in 0 .. 240
  <2>1. PICK u \in 0 .. 3, v \in 0 .. 15 : a = 16 * u + v
    <3>1. a \div 16 \in 0 .. 3 /\ a % 16 \in 0 .. 15 /\ a = 16 * (a \div 16) + (a % 16)
        BY <1>1
    <3> QED
        BY <3>1
  <2>2. (256 * u + 16 * v) % 256 = 16 * v
      BY <2>1
  <2> QED
      BY <2>1, <2>2
<1>4. (a * 64) % 256 \in 0 .. 192
  <2>1. PICK u \in 0 .. 15, v \in 0 .. 3 : a = 4 * u + v
    <3>1. a \div 4 \in 0 .. 15 /\ a % 4 \in 0 .. 3 /\ a = 4 * (a \div 4) + (a % 4)
        BY <1>1
    <3> QED
        BY <3>1
  <2>2. (256 * u + 64 * v) % 256 = 64 * v
      BY <2>1
  <2> QED
      BY <2>1, <2>2
<1> QED
    BY <1>1, <1>2, <1>3, <1>4 DEF Byte

\* How many bytes d digits give, and how many digits those are encoded in.
LEMMA CountBytes ==
    ASSUME NEW d \in Nat
    PROVE  /\ BytesOf(d) \in Nat \/ d % 4 = 1
           /\ d % 4 = 0 => 4 * Blocks(BytesOf(d)) = d
           /\ d % 4 = 2 => 4 * Blocks(BytesOf(d)) = d + 2
           /\ d % 4 = 3 => 4 * Blocks(BytesOf(d)) = d + 1
           /\ BytesOf(d) <= 3 * ((d + 3) \div 4)
           /\ \A k \in Nat : /\ 3 * k + 1 <= BytesOf(d) => 4 * k + 2 <= d
                             /\ 3 * k + 2 <= BytesOf(d) => 4 * k + 3 <= d
                             /\ 3 * k + 3 <= BytesOf(d) => 4 * k + 4 <= d
<1> DEFINE q == d \div 4
<1>1. q \in Nat /\ d % 4 \in 0 .. 3 /\ d = 4 * q + (d % 4)
    OBVIOUS
<1>2. CASE d % 4 = 0
  <2>1. BytesOf(d) = 3 * q /\ (3 * q + 2) \div 3 = q /\ (d + 3) \div 4 = q
      BY <1>1, <1>2 DEF BytesOf
  <2> QED
      BY <1>1, <1>2, <2>1 DEF Blocks
<1>3. CASE d % 4 = 1
  <2>1. BytesOf(d) = 3 * q /\ (d + 3) \div 4 = q + 1
      BY <1>1, <1>3 DEF BytesOf
  <2> QED
      BY <1>1, <1>3, <2>1
<1>4. CASE d % 4 = 2
  <2>1. BytesOf(d) = 3 * q + 1 /\ (3 * q + 1 + 2) \div 3 = q + 1 /\ (d + 3) \div 4 = q + 1
      BY <1>1, <1>4 DEF BytesOf
  <2> QED
      BY <1>1, <1>4, <2>1 DEF Blocks
<1>5. CASE d % 4 = 3
  <2>1. BytesOf(d) = 3 * q + 2 /\ (3 * q + 2 + 2) \div 3 = q + 1 /\ (d + 3) \div 4 = q + 1
      BY <1>1, <1>5 DEF BytesOf
  <2> QED
      BY <1>1, <1>5, <2>1 DEF Blocks
<1> QED
    BY <1>1, <1>2, <1>3, <1>4, <1>5

\* What b64tobin stores behind the digits of a text it takes are bytes.
LEMMA StoredIsByte ==
    ASSUME NEW s \in Seq(Symbol), NEW k \in 1 .. BytesOf(DigitRun(s)),
           DigitRun(s) % 4 # 1
    PROVE  StoredAt(s, k) \in Byte
<1> DEFINE d == DigitRun(s)
           b == (k - 1) \div 3
           j == (k - 1) % 3
<1>1. d \in Nat /\ \A i \in 1 .. d : s[i] \in Digit
    BY DigitRunStops DEF IsRun
<1>2. BytesOf(d) \in Nat
    BY <1>1, CountBytes
<1>3. b \in Nat /\ j \in 0 .. 2 /\ k = 3 * b + j + 1 /\ k <= BytesOf(d)
    BY <1>2
<1>4. StoredAt(s, k) = ByteOf(s, 4 * b, j)
    BY DEF StoredAt
<1> HIDE DEF d, b, j
<1>5. CASE j = 0
  <2>1. 4 * b + 1 \in 1 .. d /\ 4 * b + 2 \in 1 .. d
      BY <1>1, <1>3, <1>5, CountBytes
  <2>2. s[4 * b + 1] * 4 + s[4 * b + 2] \div 16 \in Byte
      BY <1>1, <2>1, BytesOfDigits
  <2> QED
      BY <1>4, <1>5, <2>2 DEF ByteOf
<1>6. CASE j = 1
  <2>1. 4 * b + 2 \in 1 .. d /\ 4 * b + 3 \in 1 .. d
      BY <1>1, <1>3, <1>6, CountBytes
  <2>2. ((s[4 * b + 2] * 16) % 256) + s[4 * b + 3] \div 4 \in Byte
      BY <1>1, <2>1, BytesOfDigits
  <2> QED
      BY <1>4, <1>6, <2>2 DEF ByteOf
<1>7. CASE j = 2
  <2>1. 4 * b + 3 \in 1 .. d /\ 4 * b + 4 \in 1 .. d
      BY <1>1, <1>3, <1>7, CountBytes
  <2>2. ((s[4 * b + 3] * 64) % 256) + s[4 * b + 4] \in Byte
      BY <1>1, <2>1, BytesOfDigits
  <2> QED
      BY <1>4, <1>7, <2>2 DEF ByteOf
<1> QED
    BY <1>3, <1>5, <1>6, <1>7

\* Of a text of any length that b64tobin takes, it writes no more bytes than
\* there is room for, and they are encoded anew in no more digits than the
\* text has and decode to the same.
THEOREM DecodeThenEncode ==
    ASSUME NEW s \in Seq(Symbol), B64ToBin(s).ok
    PROVE  LET out == B64ToBin(s)
               again == BinToB64(out.bytes)
           IN  /\ out.bytes \in Seq(Byte)
               /\ B64ToBin(again) = out
               /\ Len(out.bytes) <= 3 * ((Len(s) + 3) \div 4)
               /\ Len(again) <= Len(s)
<1> DEFINE d == DigitRun(s)
           bytes == [k \in 1 .. BytesOf(d) |-> StoredAt(s, k)]
<1>1. EndsWell(s, d)
    BY DEF B64ToBin
<1>2. B64ToBin(s) = [ok |-> TRUE, bytes |-> bytes]
    BY <1>1 DEF B64ToBin
<1>3. d \in Nat /\ d <= Len(s) /\ Len(s) \in Nat
    BY DigitRunStops
<1>4. d % 4 # 1 /\ d % 4 \in 0 .. 3
    BY <1>1, <1>3 DEF EndsWell
<1>5. BytesOf(d) \in Nat
    BY <1>3, <1>4, CountBytes
<1>6. bytes \in Seq(Byte) /\ Len(bytes) = BytesOf(d)
  <2>1. \A k \in 1 .. BytesOf(d) : StoredAt(s, k) \in Byte
      BY <1>4, StoredIsByte
  <2> QED
      BY <1>5, <2>1
<1> HIDE DEF bytes, d
<1>7. B64ToBin(BinToB64(bytes)) = [ok |-> TRUE, bytes |-> bytes]
    BY <1>6, RoundTrip
<1>8. Len(bytes) <= 3 * ((Len(s) + 3) \div 4)
  <2>1. BytesOf(d) <= 3 * ((d + 3) \div 4)
      BY <1>3, CountBytes
  <2>2. (d + 3) \div 4 <= (Len(s) + 3) \div 4
      BY <1>3
  <2> QED
      BY <1>3, <1>5, <1>6, <2>1, <2>2
<1>9. Len(BinToB64(bytes)) <= Len(s)
  <2>1. Len(BinToB64(bytes)) = 4 * Blocks(BytesOf(d))
      BY <1>6, EncodedType
  <2>2. \A i \in Nat : SymbolAt(s, i) = Terminator => i <= Len(s)
      BY DEF SymbolAt, Terminator, NotABase64
  <2>3. /\ d % 4 = 2 => d + 2 <= Len(s)
        /\ d % 4 = 3 => d + 1 <= Len(s)
      BY <1>1, <1>3, <2>2 DEF EndsWell
  <2>4. CASE d % 4 = 0
      BY <1>3, <2>1, <2>4, CountBytes
  <2>5. CASE d % 4 = 2
      BY <1>3, <2>1, <2>3, <2>5, CountBytes
  <2>6. CASE d % 4 = 3
      BY <1>3, <2>1, <2>3, <2>6, CountBytes
  <2> QED
      BY <1>4, <2>4, <2>5, <2>6
<1> QED
    BY <1>2, <1>6, <1>7, <1>8, <1>9

-----------------------------------------------------------------------------
(***************************************************************************)
(* Sequences and positions.                                                *)
(***************************************************************************)

\* A sequence cut at both ends, character by character.
LEMMA Cut ==
    ASSUME NEW S, NEW s \in Seq(S), NEW i \in Nat, NEW k \in Nat, i + k <= Len(s)
    PROVE  /\ SubSeq(s, i + 1, i + k) \in Seq(S)
           /\ Len(SubSeq(s, i + 1, i + k)) = k
           /\ \A j \in 1 .. k : SubSeq(s, i + 1, i + k)[j] = s[i + j]
<1> DEFINE m == i + 1
           n == i + k
<1>1. m \in Int /\ n \in Int /\ \A j \in m .. n : s[j] \in S
    OBVIOUS
<1>2. (IF m <= n THEN n - m + 1 ELSE 0) = k /\ n - m + 1 = k
    OBVIOUS
<1>3. \A j \in 1 .. k : m + j - 1 = i + j
    OBVIOUS
<1> HIDE DEF m, n
<1>4. /\ SubSeq(s, m, n) \in Seq(S)
      /\ Len(SubSeq(s, m, n)) = k
      /\ \A j \in 1 .. k : SubSeq(s, m, n)[j] = s[m + j - 1]
    BY <1>1, <1>2, SubSeqProperties
<1> QED
    BY <1>3, <1>4 DEF m, n

\* Two sequences of one length that agree at every place are one.
LEMMA SameSequence ==
    ASSUME NEW S, NEW s \in Seq(S), NEW t \in Seq(S), Len(s) = Len(t),
           \A j \in 1 .. Len(s) : s[j] = t[j]
    PROVE  s = t
OBVIOUS

\* What a search returns: the first position there is, or 0.
LEMMA FirstPosition ==
    ASSUME NEW n \in Nat, NEW I \in SUBSET (1 .. n), NEW m,
           m = IF I # {} THEN Min(I) ELSE 0
    PROVE  /\ I = {} => m = 0
           /\ I # {} => m \in I /\ \A i \in I : m <= i
<1>1. CASE I = {}
    BY <1>1
<1>2. CASE I # {}
  <2>1. I \subseteq Nat
      OBVIOUS
  <2>2. PICK x \in I : \A y \in I : x <= y
    <3>1. PICK x \in I : \A y \in I : ~(y < x)
        BY <1>2, <2>1, Least
    <3> QED
        BY <2>1, <3>1
  <2>3. Min(I) \in I /\ \A y \in I : Min(I) <= y
      BY <2>2 DEF Min
  <2> QED
      BY <1>2, <2>3
<1> QED
    BY <1>1, <1>2

LEMMA PositionsAreFinite ==
    ASSUME NEW n \in Nat, NEW P \in SUBSET (1 .. n)
    PROVE  IsFiniteSet(P) /\ Cardinality(P) \in Nat /\ (Cardinality(P) = 0 <=> P = {})
<1>1. IsFiniteSet(1 .. n)
    BY FS_Interval
<1>2. IsFiniteSet(P)
    BY <1>1, FS_Subset
<1> QED
    BY <1>2, FS_CardinalityType, FS_EmptySet

\* The others of a set of positions are below its greatest.
LEMMA BelowGreatest ==
    ASSUME NEW n \in Nat, NEW P \in SUBSET (1 .. n), P # {}
    PROVE  \E m \in P : Cardinality({q \in P : q < m}) = Cardinality(P) - 1
<1> DEFINE T == {n - q : q \in P}
<1>1. ASSUME NEW q \in P
      PROVE  q \in Nat /\ n - q \in Nat
  <2>1. q \in 1 .. n
      OBVIOUS
  <2> QED
      BY <2>1
<1>2. T \subseteq Nat /\ T # {}
    BY <1>1
<1>3. PICK x \in T : \A y \in T : ~(y < x)
    BY <1>2, Least
<1>4. PICK m \in P : x = n - m
    OBVIOUS
<1>5. ASSUME NEW q \in P
      PROVE  q <= m
  <2>1. n - q \in T /\ q \in Nat /\ m \in Nat
      BY <1>1
  <2>2. ~(n - q < n - m)
      BY <1>3, <1>4, <2>1
  <2> QED
      BY <2>1, <2>2
<1>6. {q \in P : q < m} = P \ {m}
  <2>1. ASSUME NEW q \in P
        PROVE  q < m <=> q # m
      BY <1>1, <1>5
  <2> QED
      BY <2>1
<1>7. Cardinality(P \ {m}) = Cardinality(P) - 1
    BY PositionsAreFinite, FS_RemoveElement
<1> QED
    BY <1>6, <1>7

\* For each number less than there are positions, one has that many below it.
LEMMA HasThatManyBelow ==
    ASSUME NEW n \in Nat, NEW P \in SUBSET (1 .. n), NEW k \in Nat, k < Cardinality(P)
    PROVE  \E p \in P : Cardinality({q \in P : q < p}) = k
<1> DEFINE Below(p) == {q \in P : q < p}
           T == {p \in P : k <= Cardinality(Below(p))}
<1>1. Cardinality(P) \in Nat /\ P # {} /\ P \subseteq Nat
  <2>1. Cardinality(P) \in Nat /\ (Cardinality(P) = 0 <=> P = {})
      BY PositionsAreFinite
  <2>2. 1 .. n \subseteq Nat
      OBVIOUS
  <2> QED
      BY <2>1, <2>2
<1>2. ASSUME NEW p
      PROVE  /\ Below(p) \in SUBSET (1 .. n)
             /\ Cardinality(Below(p)) \in Nat
             /\ Cardinality(Below(p)) = 0 <=> Below(p) = {}
  <2>1. Below(p) \in SUBSET (1 .. n)
      OBVIOUS
  <2> HIDE DEF Below
  <2> QED
      BY <2>1, PositionsAreFinite
<1>3. ASSUME NEW p \in P, NEW r \in Below(p)
      PROVE  {q \in Below(p) : q < r} = Below(r) /\ r \in P /\ r < p
  <2>1. r \in P /\ r < p /\ r \in Nat /\ p \in Nat
      BY <1>1
  <2>2. ASSUME NEW q \in P, q < r
        PROVE  q < p
    <3>1. q \in Nat
        BY <1>1
    <3> QED
        BY <2>1, <2>2, <3>1
  <2> QED
      BY <2>1, <2>2
<1>4. \E m \in P : Cardinality(Below(m)) = Cardinality(P) - 1
    BY <1>1, BelowGreatest
<1> HIDE DEF Below
<1>5. T \subseteq Nat /\ T # {}
  <2>1. PICK m \in P : Cardinality(Below(m)) = Cardinality(P) - 1
      BY <1>4
  <2>2. k <= Cardinality(Below(m))
      BY <1>1, <2>1
  <2>3. m \in T
      BY <2>2
  <2> QED
      BY <1>1, <2>3
<1>6. PICK p \in T : \A q \in T : ~(q < p)
    BY <1>5, Least
<1>7. p \in P /\ Cardinality(Below(p)) \in Nat /\ k <= Cardinality(Below(p))
    BY <1>2
<1>8. ASSUME k < Cardinality(Below(p))
      PROVE  FALSE
  <2>1. Below(p) \in SUBSET (1 .. n) /\ Below(p) # {}
      BY <1>2, <1>7, <1>8
  <2>2. PICK r \in Below(p) :
            Cardinality({q \in Below(p) : q < r}) = Cardinality(Below(p)) - 1
      BY <2>1, BelowGreatest
  <2>3. {q \in Below(p) : q < r} = Below(r) /\ r \in P /\ r < p
      BY <1>3, <1>7
  <2>4. k <= Cardinality(Below(r))
      BY <1>7, <1>8, <2>2, <2>3
  <2> QED
      BY <1>6, <2>3, <2>4
<1>9. Cardinality(Below(p)) = k
    BY <1>7, <1>8
<1> QED
    BY <1>7, <1>9 DEF Below

\* No two have as many.
LEMMA BelowDiffers ==
    ASSUME NEW n \in Nat, NEW P \in SUBSET (1 .. n), NEW p \in P
    PROVE  /\ Cardinality({q \in P : q < p}) \in 0 .. Cardinality(P) - 1
           /\ \A r \in P : Cardinality({q \in P : q < r}) = Cardinality({q \in P : q < p})
                               => r = p
<1> DEFINE Below(r) == {q \in P : q < r}
<1>1. P \subseteq Nat /\ IsFiniteSet(P)
  <2>1. 1 .. n \subseteq Nat
      OBVIOUS
  <2> QED
      BY <2>1, PositionsAreFinite
<1>2. ASSUME NEW r
      PROVE  IsFiniteSet(Below(r)) /\ Cardinality(Below(r)) \in Nat
  <2>1. Below(r) \in SUBSET (1 .. n)
      OBVIOUS
  <2> HIDE DEF Below
  <2> QED
      BY <2>1, PositionsAreFinite
<1>3. ASSUME NEW Q, NEW R, IsFiniteSet(R), Q \subseteq R, Q # R
      PROVE  Cardinality(Q) < Cardinality(R)
  <2>1. IsFiniteSet(Q) /\ Cardinality(Q) <= Cardinality(R) /\ Cardinality(Q) # Cardinality(R)
      BY <1>3, FS_Subset
  <2> QED
      BY <1>3, <2>1, FS_CardinalityType
<1>4. ASSUME NEW r \in P, NEW t \in P, r < t
      PROVE  Cardinality(Below(r)) < Cardinality(Below(t))
  <2>1. Below(r) \subseteq Below(t)
    <3>1. ASSUME NEW q \in P, q < r
          PROVE  q < t
      <4>1. q \in Nat /\ r \in Nat /\ t \in Nat
          BY <1>1
      <4> QED
          BY <1>4, <3>1, <4>1
    <3> QED
        BY <3>1
  <2>2. r \in Below(t) /\ r \notin Below(r)
      BY <1>1, <1>4
  <2> HIDE DEF Below
  <2> QED
      BY <1>2, <1>3, <2>1, <2>2
<1>5. Cardinality(Below(p)) < Cardinality(P)
  <2>1. Below(p) \subseteq P /\ p \in P /\ p \notin Below(p)
      BY <1>1
  <2> HIDE DEF Below
  <2> QED
      BY <1>1, <1>3, <2>1
<1>6. Cardinality(P) \in Nat
    BY PositionsAreFinite
<1> HIDE DEF Below
<1>7. Cardinality(Below(p)) \in 0 .. Cardinality(P) - 1
    BY <1>2, <1>5, <1>6
<1>8. ASSUME NEW r \in P, Cardinality(Below(r)) = Cardinality(Below(p))
      PROVE  r = p
  <2>1. ~(r < p) /\ ~(p < r)
      BY <1>2, <1>4, <1>8
  <2> QED
      BY <1>1, <2>1
<1> QED
    BY <1>7, <1>8 DEF Below

-----------------------------------------------------------------------------
(***************************************************************************)
(* The JSON readers.                                                       *)
(***************************************************************************)

LEMMA SearchIs ==
    ASSUME NEW S, NEW text \in Seq(S), NEW t
    PROVE  /\ Search(text, t) \in 0 .. Len(text)
           /\ Search(text, t) = 0 => \A p \in 1 .. Len(text) : text[p] # t
           /\ Search(text, t) # 0 =>
                  /\ text[Search(text, t)] = t
                  /\ \A p \in 1 .. Search(text, t) - 1 : text[p] # t
<1> DEFINE I == {p \in 1 .. Len(text) : text[p] = t}
<1>1. Search(text, t) = IF I # {} THEN Min(I) ELSE 0
    BY DEF Search, SelectInSeq
<1>2. Len(text) \in Nat /\ I \in SUBSET (1 .. Len(text))
    OBVIOUS
<1>3. /\ I = {} => Search(text, t) = 0
      /\ I # {} => Search(text, t) \in I /\ \A p \in I : Search(text, t) <= p
    BY <1>1, <1>2, FirstPosition
<1>4. CASE I = {}
    BY <1>2, <1>3, <1>4
<1>5. CASE I # {}
    BY <1>2, <1>3, <1>5
<1> QED
    BY <1>4, <1>5

LEMMA QuoteIs ==
    ASSUME NEW S, NEW text \in Seq(S), NEW end,
           end = NextQuote(text)
    PROVE  /\ end \in 0 .. Len(text)
           /\ end = 0 => \A p \in 1 .. Len(text) : ~StartsWithQuote(text[p])
           /\ end # 0 => /\ StartsWithQuote(text[end])
                         /\ \A p \in 1 .. end - 1 : ~StartsWithQuote(text[p])
<1> DEFINE I == {p \in 1 .. Len(text) : StartsWithQuote(text[p])}
<1>1. end = IF I # {} THEN Min(I) ELSE 0
    BY DEF NextQuote, SelectInSeq
<1>2. Len(text) \in Nat /\ I \in SUBSET (1 .. Len(text))
    OBVIOUS
<1>3. /\ I = {} => end = 0
      /\ I # {} => end \in I /\ \A p \in I : end <= p
    BY <1>1, <1>2, FirstPosition
<1>4. CASE I = {}
    BY <1>2, <1>3, <1>4 DEF StartsWithQuote
<1>5. CASE I # {}
    BY <1>2, <1>3, <1>5 DEF StartsWithQuote
<1> QED
    BY <1>4, <1>5

\* strstr finds a key with and without a blank behind it where it stands.
LEMMA KeyIs ==
    ASSUME NEW text, IsText(text), KeysOnce(text), NEW key, NEW p \in Keyed(text, key),
           text[p].quoted
    PROVE  FirstOf(Search(text, Key(key, TRUE, TRUE)), Search(text, Key(key, FALSE, TRUE))) = p
<1> DEFINE S == {text[q] : q \in 1 .. Len(text)}
           spaced == Search(text, Key(key, TRUE, TRUE))
           tight == Search(text, Key(key, FALSE, TRUE))
<1>1. text \in Seq(S) /\ Len(text) \in Nat
    BY DEF IsText
<1>2. p \in 1 .. Len(text) /\ text[p].kind = "key" /\ text[p].key = key
    BY DEF Keyed
<1>3. PICK gap, quoted \in BOOLEAN : text[p] = Key(key, gap, quoted)
    BY <1>2 DEF IsText
<1>4. quoted = TRUE
    BY <1>3 DEF Key
<1>5. ASSUME NEW q \in 1 .. Len(text), NEW gap2 \in BOOLEAN, text[q] = Key(key, gap2, TRUE)
      PROVE  q = p
  <2>1. text[q].kind = "key" /\ text[q].key = key
      BY <1>5 DEF Key
  <2>2. q \in Keyed(text, text[p].key)
      BY <1>2, <2>1 DEF Keyed
  <2> QED
      BY <1>2, <2>2 DEF KeysOnce
<1> HIDE DEF S
<1>6. /\ spaced \in 0 .. Len(text)
      /\ spaced = 0 => \A q \in 1 .. Len(text) : text[q] # Key(key, TRUE, TRUE)
      /\ spaced # 0 => text[spaced] = Key(key, TRUE, TRUE)
    BY <1>1, SearchIs
<1>7. /\ tight \in 0 .. Len(text)
      /\ tight = 0 => \A q \in 1 .. Len(text) : text[q] # Key(key, FALSE, TRUE)
      /\ tight # 0 => text[tight] = Key(key, FALSE, TRUE)
    BY <1>1, SearchIs
<1> HIDE DEF spaced, tight
<1>8. spaced # 0 => spaced = p
  <2>1. spaced # 0 => spaced \in 1 .. Len(text)
      BY <1>1, <1>6
  <2> QED
      BY <1>5, <1>6, <2>1, Zenon
<1>9. tight # 0 => tight = p
  <2>1. tight # 0 => tight \in 1 .. Len(text)
      BY <1>1, <1>7
  <2> QED
      BY <1>5, <1>7, <2>1, Zenon
<1>10. spaced # 0 \/ tight # 0
  <2>1. CASE gap = TRUE
      BY <1>2, <1>3, <1>4, <1>6, <2>1
  <2>2. CASE gap = FALSE
      BY <1>2, <1>3, <1>4, <1>7, <2>2
  <2> QED
      BY <2>1, <2>2
<1> QED
    BY <1>8, <1>9, <1>10 DEF FirstOf, spaced, tight

\* And nowhere if it is not there with a quote behind it.
LEMMA NoKey ==
    ASSUME NEW text, IsText(text), NEW key, \A p \in Keyed(text, key) : ~text[p].quoted
    PROVE  FirstOf(Search(text, Key(key, TRUE, TRUE)), Search(text, Key(key, FALSE, TRUE))) = 0
<1> DEFINE S == {text[q] : q \in 1 .. Len(text)}
<1>1. text \in Seq(S) /\ Len(text) \in Nat
    BY DEF IsText
<1>2. ASSUME NEW q \in 1 .. Len(text), NEW gap \in BOOLEAN
      PROVE  text[q] # Key(key, gap, TRUE)
    BY DEF Keyed, Key
<1> HIDE DEF S
<1>3. ASSUME NEW gap \in BOOLEAN
      PROVE  Search(text, Key(key, gap, TRUE)) = 0
  <2> DEFINE found == Search(text, Key(key, gap, TRUE))
  <2>1. found \in 0 .. Len(text) /\ (found # 0 => text[found] = Key(key, gap, TRUE))
      BY <1>1, SearchIs
  <2> HIDE DEF found
  <2>2. found = 0 \/ found \in 1 .. Len(text)
      BY <1>1, <2>1
  <2> QED
      BY <1>2, <2>1, <2>2, Zenon DEF found
<1> QED
    BY <1>3 DEF FirstOf

\* Behind the key: the value up to the next quote, if there is one.
LEMMA ValueBehind ==
    ASSUME NEW S, NEW text \in Seq(S), NEW p \in 1 .. Len(text), NEW end,
           end = NextQuote(From(text, p + 1))
    PROVE  /\ end \in 0 .. Len(text) - p
           /\ end = 0 => QuoteBehind(text, p) = {}
           /\ end # 0 => /\ QuoteBehind(text, p) = {p + end}
                         /\ SubSeq(From(text, p + 1), 1, end - 1) = SubSeq(text, p + 1, p + end - 1)
                         /\ Len(SubSeq(text, p + 1, p + end - 1)) = end - 1
<1> DEFINE rest == From(text, p + 1)
           n == Len(text) - p
<1>1. p \in Nat /\ n \in Nat /\ Len(text) \in Nat /\ p + n = Len(text)
    OBVIOUS
<1>2. rest \in Seq(S) /\ Len(rest) = n /\ \A i \in 1 .. n : rest[i] = text[p + i]
  <2>1. rest = SubSeq(text, p + 1, p + n)
      BY <1>1 DEF From
  <2> HIDE DEF rest, n
  <2>2. p + n <= Len(text)
      BY <1>1
  <2>3. /\ SubSeq(text, p + 1, p + n) \in Seq(S)
        /\ Len(SubSeq(text, p + 1, p + n)) = n
        /\ \A j \in 1 .. n : SubSeq(text, p + 1, p + n)[j] = text[p + j]
      BY <1>1, <2>2, Cut
  <2> QED
      BY <2>1, <2>3
<1> HIDE DEF rest, n
<1>3. /\ end \in 0 .. n
      /\ end = 0 => \A i \in 1 .. n : ~StartsWithQuote(rest[i])
      /\ end # 0 => /\ StartsWithQuote(rest[end])
                    /\ \A i \in 1 .. end - 1 : ~StartsWithQuote(rest[i])
    BY <1>2, QuoteIs DEF rest
<1>4. ASSUME NEW q \in Quotes(text), q > p
      PROVE  q - p \in 1 .. n /\ q = p + (q - p) /\ StartsWithQuote(rest[q - p])
  <2>1. q \in 1 .. Len(text) /\ StartsWithQuote(text[q])
      BY DEF Quotes
  <2>2. q - p \in 1 .. n /\ q = p + (q - p)
      BY <1>1, <1>4, <2>1
  <2>3. rest[q - p] = text[q]
      BY <1>2, <2>2
  <2> QED
      BY <2>1, <2>2, <2>3
<1>5. ASSUME end = 0
      PROVE  QuoteBehind(text, p) = {}
  <2>1. \A q \in Quotes(text) : ~(p < q)
      BY <1>3, <1>4, <1>5
  <2> QED
      BY <2>1 DEF QuoteBehind
<1>6. ASSUME end # 0
      PROVE  QuoteBehind(text, p) = {p + end}
  <2>1. p + end \in Quotes(text) /\ p < p + end
    <3>1. p + end \in 1 .. Len(text) /\ end \in 1 .. n /\ p < p + end
        BY <1>1, <1>3, <1>6
    <3>2. StartsWithQuote(text[p + end])
        BY <1>2, <1>3, <1>6, <3>1
    <3> QED
        BY <3>1, <3>2 DEF Quotes
  <2>2. ASSUME NEW r \in Quotes(text), r > p
        PROVE  p + end <= r
    <3>1. r - p \in 1 .. n /\ r = p + (r - p) /\ StartsWithQuote(rest[r - p])
        BY <1>4, <2>2
    <3>2. r - p \notin 1 .. end - 1
        BY <1>3, <1>6, <3>1
    <3> QED
        BY <1>1, <1>3, <3>1, <3>2
  <2>3. Quotes(text) \subseteq Nat /\ end \in Nat
    <3>1. Quotes(text) \subseteq 1 .. Len(text)
        BY DEF Quotes
    <3>2. end \in 0 .. n
        BY <1>3
    <3> QED
        BY <1>1, <3>1, <3>2
  <2>4. p + end \in QuoteBehind(text, p)
    <3>1. \A r \in Quotes(text) : r <= p \/ p + end <= r
        BY <1>1, <2>2, <2>3
    <3> QED
        BY <2>1, <3>1 DEF QuoteBehind
  <2>5. ASSUME NEW q \in QuoteBehind(text, p)
        PROVE  q = p + end
    <3>1. q \in Quotes(text) /\ p < q /\ (p + end <= p \/ q <= p + end)
        BY <2>1 DEF QuoteBehind
    <3>2. p + end <= q
        BY <2>2, <3>1
    <3> QED
        BY <1>1, <2>1, <2>3, <3>1, <3>2
  <2> QED
      BY <2>4, <2>5
<1>7. ASSUME end # 0
      PROVE  /\ SubSeq(rest, 1, end - 1) = SubSeq(text, p + 1, p + end - 1)
             /\ Len(SubSeq(text, p + 1, p + end - 1)) = end - 1
  <2> DEFINE k == end - 1
  <2>1. k \in Nat /\ 0 + k <= Len(rest) /\ p + k <= Len(text) /\ 0 + 1 = 1 /\ 0 + k = k
        /\ p + end - 1 = p + k /\ k <= n
      BY <1>1, <1>2, <1>3, <1>7
  <2> HIDE DEF k
  <2>2. /\ SubSeq(rest, 0 + 1, 0 + k) \in Seq(S)
        /\ Len(SubSeq(rest, 0 + 1, 0 + k)) = k
        /\ \A j \in 1 .. k : SubSeq(rest, 0 + 1, 0 + k)[j] = rest[0 + j]
      BY <1>2, <2>1, Cut
  <2>3. /\ SubSeq(text, p + 1, p + k) \in Seq(S)
        /\ Len(SubSeq(text, p + 1, p + k)) = k
        /\ \A j \in 1 .. k : SubSeq(text, p + 1, p + k)[j] = text[p + j]
      BY <1>1, <2>1, Cut
  <2>4. \A j \in 1 .. k : rest[0 + j] = text[p + j]
      BY <1>1, <1>2, <2>1
  <2>5. SubSeq(rest, 0 + 1, 0 + k) = SubSeq(text, p + 1, p + k)
      BY <2>2, <2>3, <2>4, SameSequence
  <2> QED
      BY <2>1, <2>3, <2>5 DEF k
<1> QED
    BY <1>3, <1>5, <1>6, <1>7 DEF rest, n

\* copyJsonValueString, once the key is found.
LEMMA CopyBehind ==
    ASSUME NEW text, NEW key, NEW size, NEW p \in Nat \ {0}, NEW value,
           FirstOf(Search(text, Key(key, TRUE, TRUE)), Search(text, Key(key, FALSE, TRUE))) = p,
           LET end == NextQuote(From(text, p + 1))
           IN  end # 0 => SubSeq(From(text, p + 1), 1, end - 1) = value
    PROVE  LET end == NextQuote(From(text, p + 1))
               copied == CopyJsonValueString(text, key, size)
           IN  /\ end = 0 => copied.ret = -2
               /\ end # 0 /\ Fits(value, size) => copied = [ret |-> 0, value |-> value]
               /\ end # 0 /\ ~Fits(value, size) => copied.ret = -3
<1> DEFINE end == NextQuote(From(text, p + 1))
           copied == CopyJsonValueString(text, key, size)
<1>1. p # 0
    OBVIOUS
<1>2. CASE end = 0
  <2>1. copied = [ret |-> -2, value |-> <<>>]
      BY <1>1, <1>2 DEF CopyJsonValueString
  <2> QED
      BY <1>2, <2>1
<1>3. CASE end # 0 /\ Fits(value, size)
    BY <1>1, <1>3 DEF CopyJsonValueString
<1>4. CASE end # 0 /\ ~Fits(value, size)
  <2>1. copied = [ret |-> -3, value |-> <<>>]
      BY <1>1, <1>4 DEF CopyJsonValueString
  <2> QED
      BY <1>4, <2>1
<1> QED
    BY <1>2, <1>3, <1>4

\* copyJsonValueString takes the value that stands behind the key and fits, and
\* fails if there is none.
LEMMA CopyTakesValue ==
    ASSUME NEW text, IsText(text), KeysOnce(text), NEW key, NEW size \in Nat \ {0}
    PROVE  LET copied == CopyJsonValueString(text, key, size)
           IN  /\ copied.ret = 0 => Values(text, key, size) = {copied.value}
               /\ copied.ret # 0 => Values(text, key, size) = {}
<1> DEFINE S == {text[q] : q \in 1 .. Len(text)}
           start == FirstOf(Search(text, Key(key, TRUE, TRUE)),
                            Search(text, Key(key, FALSE, TRUE)))
           copied == CopyJsonValueString(text, key, size)
<1>1. text \in Seq(S) /\ Len(text) \in Nat
    BY DEF IsText
<1> HIDE DEF S
<1>2. CASE \A p \in Keyed(text, key) : ~text[p].quoted
  <2>1. start = 0
      BY <1>2, NoKey
  <2>2. copied.ret = -1
      BY <2>1 DEF CopyJsonValueString
  <2>3. Values(text, key, size) = {}
      BY <1>2 DEF Values
  <2> QED
      BY <2>2, <2>3
<1>3. ASSUME NEW p \in Keyed(text, key), text[p].quoted
      PROVE  /\ copied.ret = 0 => Values(text, key, size) = {copied.value}
             /\ copied.ret # 0 => Values(text, key, size) = {}
  <2> DEFINE end == NextQuote(From(text, p + 1))
             value == SubSeq(text, p + 1, p + end - 1)
  <2>1. start = p /\ p \in 1 .. Len(text)
      BY <1>3, KeyIs DEF Keyed
  <2>2. {q \in Keyed(text, key) : text[q].quoted} = {p}
      BY <1>3 DEF KeysOnce, Keyed
  <2>3. Values(text, key, size) =
            {SubSeq(text, p + 1, q - 1) : q \in QuoteBehind(text, p) \cap 0 .. p + size}
      BY <2>2 DEF Values
  <2>4. /\ end \in 0 .. Len(text) - p
        /\ end = 0 => QuoteBehind(text, p) = {}
        /\ end # 0 => /\ QuoteBehind(text, p) = {p + end}
                      /\ SubSeq(From(text, p + 1), 1, end - 1) = value
                      /\ Len(value) = end - 1
      BY <1>1, <2>1, ValueBehind
  <2>5. /\ end = 0 => copied.ret = -2
        /\ end # 0 /\ Fits(value, size) => copied = [ret |-> 0, value |-> value]
        /\ end # 0 /\ ~Fits(value, size) => copied.ret = -3
    <3>1. p \in Nat \ {0}
        BY <1>1, <2>1
    <3> HIDE DEF value
    <3>2. end # 0 => SubSeq(From(text, p + 1), 1, end - 1) = value
        BY <2>4
    <3> QED
        BY <2>1, <3>1, <3>2, CopyBehind
  <2> HIDE DEF end, value, copied, start
  <2>6. CASE end = 0
      BY <2>3, <2>4, <2>5, <2>6
  <2>7. CASE end # 0 /\ end <= size
    <3>1. Fits(value, size) /\ p + end \in 0 .. p + size
        BY <1>1, <2>1, <2>4, <2>7 DEF Fits
    <3>2. copied = [ret |-> 0, value |-> value]
        BY <2>4, <2>5, <2>7, <3>1
    <3>3. QuoteBehind(text, p) \cap 0 .. p + size = {p + end}
        BY <2>4, <2>7, <3>1
    <3>4. Values(text, key, size) = {value}
      <4> DEFINE place == p + end
      <4>1. Values(text, key, size) = {SubSeq(text, p + 1, q - 1) : q \in {place}}
          BY <2>3, <3>3
      <4>2. value = SubSeq(text, p + 1, place - 1)
        <5>1. p + (end - 1) = (p + end) - 1
            BY <1>1, <2>1, <2>4
        <5> QED
            BY <5>1 DEF value
      <4> HIDE DEF place
      <4> QED
          BY <4>1, <4>2
    <3> QED
        BY <3>2, <3>4
  <2>8. CASE end # 0 /\ ~(end <= size)
    <3>1. ~Fits(value, size) /\ p + end \notin 0 .. p + size
        BY <1>1, <2>1, <2>4, <2>8 DEF Fits
    <3>2. copied.ret = -3
        BY <2>4, <2>5, <2>8, <3>1
    <3>3. QuoteBehind(text, p) \cap 0 .. p + size = {}
        BY <2>4, <2>8, <3>1
    <3> QED
        BY <2>3, <3>2, <3>3
  <2> QED
      BY <2>6, <2>7, <2>8
<1> QED
    BY <1>2, <1>3

LEMMA SearchKeyIs ==
    ASSUME NEW S, NEW text \in Seq(S), NEW key, NEW gap \in BOOLEAN, NEW I,
           I = {p \in 1 .. Len(text) : \E quoted \in BOOLEAN : text[p] = Key(key, gap, quoted)}
    PROVE  /\ I = {} => SearchKey(text, key, gap) = 0
           /\ I # {} => SearchKey(text, key, gap) \in I
<1>1. SearchKey(text, key, gap) = IF I # {} THEN Min(I) ELSE 0
    BY DEF SearchKey, SelectInSeq
<1>2. Len(text) \in Nat /\ I \in SUBSET (1 .. Len(text))
    OBVIOUS
<1> QED
    BY <1>1, <1>2, FirstPosition

\* parseJsonBoolean finds its key where it stands, if it does.
LEMMA BooleanKeyIs ==
    ASSUME NEW text, IsText(text), KeysOnce(text), NEW key, NEW start,
           start = FirstOf(SearchKey(text, key, TRUE), SearchKey(text, key, FALSE))
    PROVE  Keyed(text, key) = IF start = 0 THEN {} ELSE {start}
<1> DEFINE S == {text[q] : q \in 1 .. Len(text)}
           I(gap) == {p \in 1 .. Len(text) : \E quoted \in BOOLEAN : text[p] = Key(key, gap, quoted)}
           spaced == I(TRUE)
           tight == I(FALSE)
<1>1. text \in Seq(S)
    BY DEF IsText
<1>2. Keyed(text, key) = spaced \cup tight
  <2>1. ASSUME NEW p \in Keyed(text, key)
        PROVE  p \in spaced \cup tight
    <3>1. p \in 1 .. Len(text) /\ text[p].kind = "key" /\ text[p].key = key
        BY DEF Keyed
    <3>2. PICK gap, quoted \in BOOLEAN : text[p] = Key(key, gap, quoted)
        BY <3>1 DEF IsText
    <3>3. CASE gap = TRUE
        BY <3>1, <3>2, <3>3
    <3>4. CASE gap = FALSE
        BY <3>1, <3>2, <3>4
    <3> QED
        BY <3>3, <3>4
  <2>2. ASSUME NEW p \in spaced \cup tight
        PROVE  p \in Keyed(text, key)
    <3>1. PICK gap, quoted \in BOOLEAN : text[p] = Key(key, gap, quoted)
        OBVIOUS
    <3> QED
        BY <3>1 DEF Keyed, Key
  <2> QED
      BY <2>1, <2>2
<1>3. \A p, q \in Keyed(text, key) : p = q
    BY DEF Keyed, KeysOnce
<1> HIDE DEF S
<1>4. /\ spaced = {} => SearchKey(text, key, TRUE) = 0
      /\ spaced # {} => SearchKey(text, key, TRUE) \in spaced
    BY <1>1, SearchKeyIs
<1>5. /\ tight = {} => SearchKey(text, key, FALSE) = 0
      /\ tight # {} => SearchKey(text, key, FALSE) \in tight
    BY <1>1, SearchKeyIs
<1>6. 0 \notin spaced /\ 0 \notin tight
    OBVIOUS
<1> HIDE DEF spaced, tight
<1>7. CASE spaced = {} /\ tight = {}
    BY <1>2, <1>4, <1>5, <1>7 DEF FirstOf
<1>8. CASE spaced # {}
  <2>1. start \in spaced /\ start # 0
      BY <1>4, <1>6, <1>8 DEF FirstOf
  <2> QED
      BY <1>2, <1>3, <2>1
<1>9. CASE spaced = {} /\ tight # {}
  <2>1. start \in tight /\ start # 0
      BY <1>4, <1>5, <1>6, <1>9 DEF FirstOf
  <2> QED
      BY <1>2, <1>3, <2>1
<1> QED
    BY <1>7, <1>8, <1>9

\* parseJsonBoolean takes the word that stands behind the key, and fails if
\* there is none.
LEMMA BooleanTakesWord ==
    ASSUME NEW text, IsText(text), KeysOnce(text), NEW key
    PROVE  LET parsed == ParseJsonBoolean(text, key)
           IN  /\ parsed.ret = 0 => Words(text, key) = {parsed.value}
               /\ parsed.ret # 0 => Words(text, key) = {}
<1> DEFINE S == {text[q] : q \in 1 .. Len(text)}
           start == FirstOf(SearchKey(text, key, TRUE), SearchKey(text, key, FALSE))
           next == IF start = 0 \/ text[start].quoted THEN <<>> ELSE From(text, start + 1)
           isWord == next # <<>> /\ next[1].kind = "word"
           parsed == ParseJsonBoolean(text, key)
<1>1. text \in Seq(S) /\ Len(text) \in Nat
    BY DEF IsText
<1>2. /\ parsed.ret = IF start = 0 THEN -1 ELSE IF isWord THEN 0 ELSE -2
      /\ isWord /\ next[1].value \in BOOLEAN => parsed.value = next[1].value
  <2>1. parsed = [ret |-> IF start = 0 THEN -1 ELSE IF isWord THEN 0 ELSE -2,
                  value |-> isWord /\ next[1].value]
      BY Zenon DEF ParseJsonBoolean
  <2> HIDE DEF isWord, next, start, parsed
  <2> QED
      BY <2>1
<1>3. Keyed(text, key) = IF start = 0 THEN {} ELSE {start}
    BY BooleanKeyIs
<1>4. ASSUME start # 0
      PROVE  start \in 1 .. Len(text) /\ text[start].quoted \in BOOLEAN
  <2> HIDE DEF start
  <2>1. start \in 1 .. Len(text) /\ text[start].kind = "key"
      BY <1>3, <1>4 DEF Keyed
  <2>2. PICK gap, quoted \in BOOLEAN : text[start] = Key(text[start].key, gap, quoted)
      BY <2>1 DEF IsText
  <2>3. text[start].quoted = quoted
      BY <2>2 DEF Key
  <2> QED
      BY <2>1, <2>3
<1> HIDE DEF S, start
<1>5. CASE start = 0
    BY <1>2, <1>3, <1>5 DEF Words
<1>6. CASE start # 0 /\ text[start].quoted
    BY <1>2, <1>3, <1>6 DEF Words
<1>7. CASE start # 0 /\ ~text[start].quoted /\ start = Len(text)
  <2>1. next = <<>>
      BY <1>1, <1>4, <1>7 DEF From
  <2> QED
      BY <1>2, <1>3, <1>7, <2>1 DEF Words
<1>8. CASE start # 0 /\ ~text[start].quoted /\ start < Len(text)
  <2>1. next # <<>> /\ next[1] = text[start + 1]
    <3> DEFINE n == Len(text) - start
    <3>1. start \in Nat /\ n \in Nat \ {0} /\ start + n = Len(text) /\ start + n <= Len(text)
      <4>1. start \in 1 .. Len(text) /\ start < Len(text)
          BY <1>4, <1>8
      <4> QED
          BY <1>1, <4>1
    <3>2. next = SubSeq(text, start + 1, start + n)
        BY <1>8, <3>1 DEF From
    <3> HIDE DEF n, next
    <3>3. /\ Len(next) = n
          /\ \A j \in 1 .. n : next[j] = text[start + j]
        BY <1>1, <3>1, <3>2, Cut
    <3> QED
        BY <3>1, <3>3
  <2> HIDE DEF next
  <2>2. CASE text[start + 1].kind = "word"
    <3>1. text[start + 1].value \in BOOLEAN
      <4>1. start + 1 \in 1 .. Len(text)
        <5>1. start \in 1 .. Len(text) /\ start < Len(text)
            BY <1>4, <1>8
        <5> QED
            BY <1>1, <5>1
      <4> QED
          BY <2>2, <4>1 DEF IsText
    <3>2. {p \in Keyed(text, key) :
              ~text[p].quoted /\ p < Len(text) /\ text[p + 1].kind = "word"} = {start}
        BY <1>3, <1>8, <2>2
    <3>3. Words(text, key) = {text[start + 1].value}
        BY <3>2 DEF Words
    <3>4. parsed.ret = 0 /\ parsed.value = text[start + 1].value
        BY <1>2, <1>8, <2>1, <2>2, <3>1
    <3> QED
        BY <3>3, <3>4
  <2>3. CASE text[start + 1].kind # "word"
      BY <1>2, <1>3, <1>4, <1>8, <2>1, <2>3 DEF Words
  <2> QED
      BY <2>2, <2>3
<1>9. start = 0 \/ text[start].quoted \/ start = Len(text) \/ start < Len(text)
    BY <1>1, <1>4
<1> QED
    BY <1>4, <1>5, <1>6, <1>7, <1>8, <1>9

\* getPoPInfoFromJSON takes what the text says, if it says all of it.
LEMMA InfoIsTaken ==
    ASSUME NEW text, IsText(text), KeysOnce(text)
    PROVE  /\ \A info \in Said(text) :
                  GetPoPInfoFromJSON(text) = [result |-> TRUE, pop |-> info]
           /\ Said(text) = {} =>
                  GetPoPInfoFromJSON(text) = [result |-> FALSE, pop |-> ResetPopInfo]
<1> DEFINE i == CopyJsonValueString(text, "initiator", FieldSize)
           c == CopyJsonValueString(text, "challenger", FieldSize)
           e == CopyJsonValueString(text, "challengee", FieldSize)
           h == CopyJsonValueString(text, "height", HeightSize)
           number == ConvertStringToInt64(h.value)
           finished == ParseJsonBoolean(text, "finished")
           Is == Values(text, "initiator", FieldSize)
           Cs == Values(text, "challenger", FieldSize)
           Es == Values(text, "challengee", FieldSize)
           Hs == Values(text, "height", HeightSize)
           Fs == Words(text, "finished")
           result == /\ i.ret = 0 /\ c.ret = 0 /\ e.ret = 0
                     /\ h.ret = 0
                     /\ number.ok
                     /\ finished.ret = 0
           pop == [initiator |-> i.value, challenger |-> c.value, challengee |-> e.value,
                   blockHeight |-> number.value, finished |-> finished.value]
           out == GetPoPInfoFromJSON(text)
<1>1. FieldSize \in Nat \ {0} /\ HeightSize \in Nat \ {0}
    BY JsonTextAssumption
<1>2. /\ i.ret = 0 => Is = {i.value}
      /\ i.ret # 0 => Is = {}
    BY <1>1, CopyTakesValue
<1>3. /\ c.ret = 0 => Cs = {c.value}
      /\ c.ret # 0 => Cs = {}
    BY <1>1, CopyTakesValue
<1>4. /\ e.ret = 0 => Es = {e.value}
      /\ e.ret # 0 => Es = {}
    BY <1>1, CopyTakesValue
<1>5. /\ h.ret = 0 => Hs = {h.value}
      /\ h.ret # 0 => Hs = {}
    BY <1>1, CopyTakesValue
<1>6. /\ finished.ret = 0 => Fs = {finished.value}
      /\ finished.ret # 0 => Fs = {}
    BY BooleanTakesWord
<1>7. Said(text) = [initiator : Is, challenger : Cs, challengee : Es,
                    blockHeight : Numbers(Hs), finished : Fs]
    BY DEF Said
<1>8. /\ result => out = [result |-> TRUE, pop |-> pop]
      /\ ~result => out = [result |-> FALSE, pop |-> ResetPopInfo]
  <2>1. result <=> /\ \A key \in {"initiator", "challenger", "challengee"} :
                          CopyJsonValueString(text, key, FieldSize).ret = 0
                   /\ h.ret = 0
                   /\ number.ok
                   /\ finished.ret = 0
    <3> HIDE DEF h, number, finished
    <3> QED
        OBVIOUS
  <2> QED
      BY <2>1 DEF GetPoPInfoFromJSON
<1> HIDE DEF i, c, e, h, finished, Is, Cs, Es, Hs, Fs, out
<1>9. Numbers(Hs) = IF h.ret = 0 /\ number.ok THEN {number.value} ELSE {}
    BY <1>5 DEF Numbers
<1> HIDE DEF number
<1>10. CASE result
  <2>1. Said(text) = [initiator : {i.value}, challenger : {c.value}, challengee : {e.value},
                      blockHeight : {number.value}, finished : {finished.value}]
      BY <1>2, <1>3, <1>4, <1>6, <1>7, <1>9, <1>10
  <2>2. pop \in Said(text) /\ \A info \in Said(text) : info = pop
      BY <2>1
  <2> HIDE DEF pop
  <2> QED
      BY <1>8, <1>10, <2>2 DEF out
<1>11. CASE ~result
  <2>1. Is = {} \/ Cs = {} \/ Es = {} \/ Numbers(Hs) = {} \/ Fs = {}
      BY <1>2, <1>3, <1>4, <1>6, <1>9, <1>11
  <2>2. Said(text) = {}
      BY <1>7, <2>1
  <2> QED
      BY <1>8, <1>11, <2>2 DEF out
<1> QED
    BY <1>10, <1>11

LEMMA FoundFirst ==
    ASSUME NEW S, NEW text \in Seq(S), NEW t, NEW p \in 1 .. Len(text), IsFirst(text, p, t)
    PROVE  Search(text, t) = p
<1> DEFINE found == Search(text, t)
<1>1. /\ found \in 0 .. Len(text)
      /\ found = 0 => \A q \in 1 .. Len(text) : text[q] # t
      /\ found # 0 => /\ text[found] = t
                      /\ \A q \in 1 .. found - 1 : text[q] # t
    BY SearchIs
<1> HIDE DEF found
<1>2. text[p] = t /\ \A q \in 1 .. p - 1 : text[q] # t
    BY DEF IsFirst
<1>3. found # 0
    BY <1>1, <1>2
<1>4. ~(found < p)
  <2>1. found < p => found \in 1 .. p - 1
      BY <1>1, <1>3
  <2> QED
      BY <1>1, <1>2, <1>3, <2>1
<1>5. ~(p < found)
  <2>1. p < found => p \in 1 .. found - 1
      BY <1>1
  <2> QED
      BY <1>1, <1>2, <1>3, <2>1
<1> QED
    BY <1>1, <1>4, <1>5 DEF found

\* extractElement gives a CID of the text for each number less than there are.
LEMMA ElementIsThere ==
    ASSUME NEW text, IsText(text), NEW i \in Nat \ {0}, NEW n \in Nat,
           n < Cardinality(CidsFrom(text, i))
    PROVE  \E p \in CidsFrom(text, i) :
               /\ Cardinality({q \in CidsFrom(text, i) : q < p}) = n
               /\ ExtractElement(text, i, n) = text[p].cid
<1> DEFINE cids == CidsFrom(text, i)
           p == CHOOSE p \in cids : Cardinality({q \in cids : q < p}) = n
<1>1. Len(text) \in Nat
    BY DEF IsText
<1>2. cids \in SUBSET (1 .. Len(text))
    BY <1>1 DEF CidsFrom
<1>3. ExtractElement(text, i, n) = text[p].cid
    BY DEF ExtractElement, NthCid
<1> HIDE DEF cids
<1>4. \E q \in cids : Cardinality({r \in cids : r < q}) = n
    BY <1>1, <1>2, HasThatManyBelow DEF cids
<1>5. p \in cids /\ Cardinality({r \in cids : r < p}) = n
    BY <1>4
<1> QED
    BY <1>3, <1>5 DEF cids

\* What getRandomElementFromCIDJSONList finds in a list of CIDs: the brackets,
\* and as many CIDs as there are behind the first.
LEMMA ListIsSearched ==
    ASSUME NEW text \in CidLists, IsCidList(text)
    PROVE  LET start == Search(text, Bracket)
               cids  == CidsFrom(text, start)
           IN  /\ start \in Nat \ {0}
               /\ cids \in SUBSET (1 .. Len(text))
               /\ Cardinality(cids) \in Nat \ {0}
               /\ \A p \in cids : text[p].cid.length < CidBuffer
               /\ GetRandomElementFromCIDJSONList(text) =
                      UNION {Copied(ExtractElement(text, start, i)) :
                                 i \in 0 .. Cardinality(cids) - 1}
<1> DEFINE S == {text[q] : q \in 1 .. Len(text)}
<1>1. PICK start, end \in 1 .. Len(text) :
          /\ IsFirst(text, start, Bracket)
          /\ IsFirst(text, end, Closing)
          /\ CidsFrom(text, end) = {}
          /\ CidsFrom(text, start) # {}
          /\ \A p \in CidsFrom(text, start) : text[p].cid.length < CidBuffer
    BY DEF IsCidList
<1>2. IsText(text) /\ text \in Seq(S) /\ Len(text) \in Nat
  <2>1. IsText(text)
      BY CidListsAssumption
  <2> QED
      BY <2>1 DEF IsText
<1>3. Search(text, Bracket) = start /\ Search(text, Closing) = end
  <2> HIDE DEF S
  <2> QED
      BY <1>1, <1>2, FoundFirst
<1> DEFINE cids == CidsFrom(text, start)
           count == Cardinality(cids)
<1>4. cids \in SUBSET (1 .. Len(text)) /\ start \in Nat \ {0} /\ end \in Nat \ {0}
    BY <1>2 DEF CidsFrom
<1>5. ASSUME NEW p \in cids
      PROVE  p < end /\ start < end
  <2>1. p \in start .. Len(text) /\ text[p].kind = "cid"
      BY DEF CidsFrom
  <2>2. p \notin end .. Len(text)
      BY <1>1, <2>1 DEF CidsFrom
  <2> QED
      BY <1>2, <1>4, <2>1, <2>2
<1>6. count \in Nat \ {0}
    BY <1>1, <1>2, <1>4, PositionsAreFinite
<1>7. CountElements(text, start, end) = count
  <2>1. {p \in CidsFrom(text, start) : p < end} = cids
      BY <1>5
  <2>2. ~(start >= end)
      BY <1>1, <1>4, <1>5
  <2>3. CountElements(text, start, end) = count + 0
      BY <1>1, <2>1, <2>2 DEF CountElements
  <2> QED
      BY <1>6, <2>3
<1>8. GetRandomElementFromCIDJSONList(text) =
          UNION {Copied(ExtractElement(text, start, i)) : i \in 0 .. count - 1}
  <2>1. start # 0 /\ end # 0 /\ count # 0
      BY <1>4, <1>6
  <2> QED
      BY <1>3, <1>7, <2>1 DEF GetRandomElementFromCIDJSONList
<1> QED
    BY <1>1, <1>3, <1>4, <1>6, <1>8

\* It picks a CID, whole, whatever the random number.
LEMMA ListedIsPicked ==
    ASSUME NEW text \in CidLists, IsCidList(text),
           NEW out \in GetRandomElementFromCIDJSONList(text)
    PROVE  out.ret = "picked" /\ out.whole
<1> DEFINE start == Search(text, Bracket)
           cids == CidsFrom(text, start)
<1>1. /\ start \in Nat \ {0}
      /\ Cardinality(cids) \in Nat \ {0}
      /\ \A p \in cids : text[p].cid.length < CidBuffer
      /\ GetRandomElementFromCIDJSONList(text) =
             UNION {Copied(ExtractElement(text, start, i)) : i \in 0 .. Cardinality(cids) - 1}
    BY ListIsSearched
<1>2. IsText(text)
    BY CidListsAssumption
<1> HIDE DEF start
<1>3. PICK i \in 0 .. Cardinality(cids) - 1 : out \in Copied(ExtractElement(text, start, i))
    BY <1>1
<1>4. PICK p \in cids : ExtractElement(text, start, i) = text[p].cid
  <2>1. i \in Nat /\ i < Cardinality(CidsFrom(text, start))
      BY <1>1
  <2>2. \E p \in CidsFrom(text, start) :
            /\ Cardinality({q \in CidsFrom(text, start) : q < p}) = i
            /\ ExtractElement(text, start, i) = text[p].cid
      BY <1>1, <1>2, <2>1, ElementIsThere
  <2> QED
      BY <2>2
<1>5. out \in {[ret |-> "picked", cid |-> text[p].cid, whole |-> TRUE]}
  <2>1. text[p].cid.length < CidBuffer
      BY <1>1
  <2> QED
      BY <1>3, <1>4, <2>1 DEF Copied
<1> QED
    BY <1>1, <1>5

\* The brackets that getRandomElementFromCIDJSONList finds are the first.
LEMMA FoundIsFirst ==
    ASSUME NEW text, IsText(text), NEW t, Search(text, t) # 0
    PROVE  Search(text, t) \in 1 .. Len(text) /\ IsFirst(text, Search(text, t), t)
<1> DEFINE S == {text[q] : q \in 1 .. Len(text)}
<1>1. text \in Seq(S) /\ Len(text) \in Nat
    BY DEF IsText
<1> HIDE DEF S
<1>2. /\ Search(text, t) \in 0 .. Len(text)
      /\ text[Search(text, t)] = t
      /\ \A p \in 1 .. Search(text, t) - 1 : text[p] # t
    BY <1>1, SearchIs
<1> QED
    BY <1>1, <1>2 DEF IsFirst

\* A CID that is counted is in the list, or the first behind it.
LEMMA CountedIsSaid ==
    ASSUME NEW text, IsText(text),
           NEW start \in 1 .. Len(text), IsFirst(text, start, Bracket),
           NEW end \in 1 .. Len(text), IsFirst(text, end, Closing),
           NEW i \in 0 .. CountElements(text, start, end) - 1
    PROVE  \E p \in InList(text) \cup FirstBehind(text) :
               ExtractElement(text, start, i) = text[p].cid
<1> DEFINE all    == CidsFrom(text, start)
           inside == {p \in all : p < end}
           beyond == CidsFrom(text, end)
           count  == CountElements(text, start, end)
<1>1. Len(text) \in Nat /\ start \in Nat \ {0} /\ end \in Nat \ {0}
    BY DEF IsText
<1>2. ASSUME NEW n \in Nat \ {0}
      PROVE  /\ CidsFrom(text, n) \in SUBSET (1 .. Len(text))
             /\ \A p : p \in CidsFrom(text, n) <=>
                         p \in Nat /\ n <= p /\ p <= Len(text) /\ text[p].kind = "cid"
    BY <1>1 DEF CidsFrom
<1>3. /\ all \in SUBSET (1 .. Len(text))
      /\ \A p : p \in all <=>
                  p \in Nat /\ start <= p /\ p <= Len(text) /\ text[p].kind = "cid"
    BY <1>1, <1>2
<1>4. /\ beyond \in SUBSET (1 .. Len(text))
      /\ \A p : p \in beyond <=>
                  p \in Nat /\ end <= p /\ p <= Len(text) /\ text[p].kind = "cid"
    BY <1>1, <1>2
<1>5. \A p : p \in CidsFrom(text, 1) <=>
                 p \in Nat /\ 1 <= p /\ p <= Len(text) /\ text[p].kind = "cid"
    BY <1>2
<1>6. text[start].kind # "cid" /\ text[end].kind # "cid"
    BY DEF IsFirst, Bracket, Closing
<1>7. /\ inside \in SUBSET (1 .. Len(text)) /\ IsFiniteSet(inside)
      /\ Cardinality(inside) \in Nat /\ IsFiniteSet(all) /\ Cardinality(all) \in Nat
  <2>1. inside \in SUBSET (1 .. Len(text))
      BY <1>3
  <2> HIDE DEF inside, all
  <2> QED
      BY <1>1, <1>3, <2>1, PositionsAreFinite
<1>8. /\ start < end
      /\ count = Cardinality(inside) + IF beyond = {} THEN 0 ELSE 1
  <2>1. count = IF start >= end THEN 0
                ELSE Cardinality(inside) + IF beyond = {} THEN 0 ELSE 1
      BY DEF CountElements
  <2>2. count \in Nat /\ i \in 0 .. count - 1
    <3>1. count \in Nat
        BY <1>7, <2>1
    <3> QED
        BY <3>1
  <2> HIDE DEF count, inside, beyond
  <2>3. 0 < count
      BY <2>2
  <2> QED
      BY <1>1, <2>1, <2>3
<1>a. i \in 0 .. count - 1
    OBVIOUS
<1> HIDE DEF count
<1>9. i \in Nat /\ i < Cardinality(inside) + IF beyond = {} THEN 0 ELSE 1
  <2> HIDE DEF inside, beyond
  <2> QED
      BY <1>7, <1>8, <1>a
<1>10. beyond # {} => Cardinality(inside) + 1 <= Cardinality(all)
  <2> SUFFICES ASSUME NEW b \in beyond
               PROVE  Cardinality(inside) + 1 <= Cardinality(all)
      OBVIOUS
  <2>1. b \in all /\ b \notin inside
      BY <1>1, <1>3, <1>4, <1>8
  <2>2. inside \cup {b} \subseteq all
      BY <2>1
  <2> HIDE DEF inside, all
  <2>3. Cardinality(inside \cup {b}) = Cardinality(inside) + 1
      BY <1>7, <2>1, FS_AddElement
  <2> QED
      BY <1>7, <2>2, <2>3, FS_Subset
<1>11. Cardinality(inside) <= Cardinality(all)
  <2>1. inside \subseteq all
      OBVIOUS
  <2> HIDE DEF inside, all
  <2> QED
      BY <1>7, <2>1, FS_Subset
<1>12. i < Cardinality(all)
  <2> HIDE DEF inside, all, beyond
  <2> QED
      BY <1>7, <1>9, <1>10, <1>11
<1>13. PICK p \in all : /\ Cardinality({q \in all : q < p}) = i
                        /\ ExtractElement(text, start, i) = text[p].cid
    BY <1>1, <1>9, <1>12, ElementIsThere
<1>14. CASE p < end
  <2>1. p \in CidsFrom(text, 1)
      BY <1>1, <1>3, <1>5
  <2>2. start \in 1 .. p - 1 /\ end \in p + 1 .. Len(text)
      BY <1>1, <1>3, <1>6, <1>14
  <2>3. p \in InList(text)
      BY <2>1, <2>2 DEF InList
  <2> QED
      BY <1>13, <2>3
<1>15. CASE ~(p < end)
  <2>1. p \in beyond /\ p \in CidsFrom(text, 1)
      BY <1>1, <1>3, <1>4, <1>5, <1>15
  <2>2. end \in 1 .. p - 1
      BY <1>1, <1>4, <1>6, <2>1
  <2>3. ASSUME NEW q \in beyond, ~(p <= q)
        PROVE  FALSE
    <3>1. q \in all /\ q \notin inside /\ q < p
        BY <1>1, <1>3, <1>4, <1>8, <2>3
    <3> DEFINE below == {r \in all : r < p}
    <3>2. inside \cup {q} \subseteq below
        BY <1>1, <1>3, <1>15, <3>1
    <3>3. below \in SUBSET (1 .. Len(text))
        BY <1>3
    <3>4. Cardinality(below) = i
        BY <1>13
    <3> HIDE DEF inside, all, below
    <3>5. IsFiniteSet(below)
        BY <1>1, <3>3, PositionsAreFinite
    <3>6. Cardinality(inside \cup {q}) = Cardinality(inside) + 1
        BY <1>7, <3>1, FS_AddElement
    <3>7. Cardinality(inside \cup {q}) <= Cardinality(below)
        BY <3>2, <3>5, FS_Subset
    <3> HIDE DEF beyond
    <3> QED
        BY <1>7, <1>9, <3>4, <3>6, <3>7
  <2>4. p \in FirstBehind(text)
      BY <2>1, <2>2, <2>3 DEF FirstBehind
  <2> QED
      BY <1>13, <2>4
<1> QED
    BY <1>14, <1>15

\* Where nothing is counted the list is empty.
LEMMA TrapsOnEmpty ==
    ASSUME NEW text, IsText(text),
           NEW start \in 1 .. Len(text), IsFirst(text, start, Bracket),
           NEW end \in 1 .. Len(text), IsFirst(text, end, Closing),
           CountElements(text, start, end) = 0
    PROVE  InList(text) = {}
<1> SUFFICES ASSUME NEW p \in InList(text) PROVE FALSE
    OBVIOUS
<1>1. PICK s \in 1 .. p - 1, e \in p + 1 .. Len(text) :
          IsFirst(text, s, Bracket) /\ IsFirst(text, e, Closing)
    BY DEF InList
<1>2. Len(text) \in Nat /\ p \in 1 .. Len(text) /\ text[p].kind = "cid"
    BY DEF InList, CidsFrom, IsText
<1>3. s = start /\ e = end
    BY <1>1, <1>2 DEF IsFirst
<1> DEFINE inside == {q \in CidsFrom(text, start) : q < end}
<1>4. p \in inside /\ start < end
    BY <1>1, <1>2, <1>3 DEF CidsFrom
<1>5. inside \in SUBSET (1 .. Len(text))
    BY <1>2 DEF CidsFrom
<1>6. CountElements(text, start, end) =
          Cardinality(inside) + IF CidsFrom(text, end) = {} THEN 0 ELSE 1
    BY <1>2, <1>4 DEF CountElements
<1> HIDE DEF inside
<1>7. Cardinality(inside) \in Nat \ {0}
    BY <1>2, <1>4, <1>5, PositionsAreFinite
<1> QED
    BY <1>6, <1>7

\* Of whatever answer, it picks what is in the list or the first behind it, and
\* traps on an empty list alone.
LEMMA PickedIsSaid ==
    ASSUME NEW text, IsText(text), NEW out \in GetRandomElementFromCIDJSONList(text)
    PROVE  /\ out.ret = "picked" =>
                  out.cid \in {text[p].cid : p \in InList(text) \cup FirstBehind(text)}
           /\ out.ret = "trap" => InList(text) = {}
<1> DEFINE start == Search(text, Bracket)
           end   == Search(text, Closing)
           count == CountElements(text, start, end)
<1>1. CASE start = 0 \/ end = 0
  <2>1. out.ret = "none"
      BY <1>1 DEF GetRandomElementFromCIDJSONList, NotPicked
  <2> QED
      BY <2>1
<1>2. CASE start # 0 /\ end # 0
  <2>1. /\ start \in 1 .. Len(text) /\ IsFirst(text, start, Bracket)
        /\ end \in 1 .. Len(text) /\ IsFirst(text, end, Closing)
      BY <1>2, FoundIsFirst
  <2>2. CASE count = 0
    <3>1. out = NotPicked("trap")
        BY <1>2, <2>2 DEF GetRandomElementFromCIDJSONList
    <3>2. out.ret = "trap"
        BY <3>1 DEF NotPicked
    <3>3. InList(text) = {}
        BY <2>1, <2>2, TrapsOnEmpty
    <3> QED
        BY <3>2, <3>3
  <2>3. CASE count # 0
    <3>1. PICK i \in 0 .. count - 1 : out \in Copied(ExtractElement(text, start, i))
        BY <1>2, <2>3 DEF GetRandomElementFromCIDJSONList
    <3>2. out.ret # "trap" /\ out.cid = ExtractElement(text, start, i)
      <4> DEFINE cid == ExtractElement(text, start, i)
      <4>1. out \in Copied(cid)
          BY <3>1
      <4> HIDE DEF cid
      <4>2. out.ret # "trap" /\ out.cid = cid
          BY <4>1 DEF Copied
      <4> QED
          BY <4>2 DEF cid
    <3>3. \E p \in InList(text) \cup FirstBehind(text) :
              ExtractElement(text, start, i) = text[p].cid
      <4> HIDE DEF start, end
      <4> QED
          BY <2>1, <3>1, CountedIsSaid
    <3> QED
        BY <3>2, <3>3
  <2> QED
      BY <2>2, <2>3
<1> QED
    BY <1>1, <1>2

\* Each CID of a list can be the one a challenge is put for: some random number
\* makes getRandomElementFromCIDJSONList pick it, the first and the last too.
THEOREM EachCidCanBePicked ==
    ASSUME NEW text \in CidLists, IsCidList(text),
           NEW p \in CidsFrom(text, Search(text, Bracket))
    PROVE  [ret |-> "picked", cid |-> text[p].cid, whole |-> TRUE]
               \in GetRandomElementFromCIDJSONList(text)
<1> DEFINE start == Search(text, Bracket)
           cids == CidsFrom(text, start)
           n == Cardinality({q \in cids : q < p})
<1>1. /\ start \in Nat \ {0}
      /\ cids \in SUBSET (1 .. Len(text))
      /\ Cardinality(cids) \in Nat \ {0}
      /\ \A q \in cids : text[q].cid.length < CidBuffer
      /\ GetRandomElementFromCIDJSONList(text) =
             UNION {Copied(ExtractElement(text, start, i)) : i \in 0 .. Cardinality(cids) - 1}
    BY ListIsSearched
<1>2. Len(text) \in Nat
    BY CidListsAssumption DEF IsText
<1>a. p \in cids
    OBVIOUS
<1> HIDE DEF start, cids
<1>3. /\ n \in 0 .. Cardinality(cids) - 1
      /\ \A q \in cids : Cardinality({r \in cids : r < q}) = n => q = p
    BY <1>1, <1>2, <1>a, BelowDiffers
<1>4. ExtractElement(text, start, n) = text[p].cid
  <2> DEFINE chosen == CHOOSE q \in cids : Cardinality({r \in cids : r < q}) = n
  <2>1. chosen = p
      BY <1>3 DEF cids, start
  <2>2. ExtractElement(text, start, n) = text[chosen].cid
      BY DEF ExtractElement, NthCid, cids
  <2> QED
      BY <2>1, <2>2
<1>5. Copied(text[p].cid) = {[ret |-> "picked", cid |-> text[p].cid, whole |-> TRUE]}
    BY <1>1 DEF Copied, cids, start
<1> HIDE DEF n
<1> QED
    BY <1>1, <1>3, <1>4, <1>5

-----------------------------------------------------------------------------
(***************************************************************************)
(* Helpers.                                                                *)
(***************************************************************************)

\* A call is of one kind; only one of them writes files.
LEMMA StepCalls ==
    ASSUME [Next]_vars
    PROVE  \/ UNCHANGED vars
           \/ last'.call = "none" /\ UNCHANGED files
           \/ /\ last'.call = "encode" /\ UNCHANGED files
              /\ \E bytes \in Bytes : Encode(bytes)
           \/ /\ last'.call = "decode" /\ UNCHANGED files
              /\ \E text \in Texts64 : Decode(text)
           \/ /\ last'.call = "allocate" /\ UNCHANGED files
              /\ \E size \in Sizes : AllocatePayload(size)
           \/ /\ last'.call = "pop" /\ UNCHANGED files
              /\ \E info \in PoPInfos : ReadPoPInfo(info)
           \/ /\ last'.call = "pick" /\ UNCHANGED files
              /\ \E text \in CidLists : PickCid(text)
           \/ /\ last'.call = "write"
              /\ \E content \in Contents, time \in Times : WriteContent(content, time)
           \/ /\ last'.call = "read" /\ UNCHANGED files
              /\ \E content \in Contents : ReadContent(content)
<1>1. CASE \E bytes \in Bytes : Encode(bytes)
    BY <1>1 DEF Encode, Call
<1>2. CASE \E text \in Texts64 : Decode(text)
    BY <1>2 DEF Decode, Call
<1>3. CASE \E size \in Sizes : AllocatePayload(size)
    BY <1>3 DEF AllocatePayload, Call
<1>4. CASE \E info \in PoPInfos : ReadPoPInfo(info)
    BY <1>4 DEF ReadPoPInfo, Call
<1>5. CASE \E text \in CidLists : PickCid(text)
  <2>1. PICK text \in CidLists : PickCid(text)
      BY <1>5
  <2>2. last'.call = "pick" /\ UNCHANGED files
      BY <2>1 DEF PickCid, Call
  <2> QED
      BY <2>1, <2>2
<1>6. CASE \E content \in Contents, time \in Times : WriteContent(content, time)
    BY <1>6 DEF WriteContent, Call
<1>7. CASE \E content \in Contents : ReadContent(content)
    BY <1>7 DEF ReadContent, Call
<1>8. CASE Return
    BY <1>8 DEF Return, Returned
<1> QED
    BY <1>1, <1>2, <1>3, <1>4, <1>5, <1>6, <1>7, <1>8 DEF Next

\* Every transaction is decoded to the bytes that were encoded, whatever its
\* size (bintob64 and b64tobin).
THEOREM Base64RoundTripHolds == Spec => []Base64RoundTrip
<1>1. Init => Base64RoundTrip
    BY DEF Init, Returned, Base64RoundTrip
<1>2. ASSUME Base64RoundTrip, [Next]_vars
      PROVE  Base64RoundTrip'
  <2>1. CASE UNCHANGED vars
      BY <1>2, <2>1 DEF Base64RoundTrip, vars
  <2>2. CASE \E bytes \in Bytes : Encode(bytes)
    <3>1. PICK bytes \in Bytes : Encode(bytes)
        BY <2>2
    <3>2. B64ToBin(BinToB64(bytes)) = [ok |-> TRUE, bytes |-> bytes]
        BY RoundTrip, HelpersAssumption
    <3> QED
        BY <3>1, <3>2 DEF Encode, Call, Base64RoundTrip
  <2>3. CASE last'.call # "encode"
      BY <2>3 DEF Base64RoundTrip
  <2> QED
      BY <1>2, <2>1, <2>2, <2>3, StepCalls
<1> QED
    BY <1>1, <1>2, PTL DEF Spec

\* Whatever text b64tobin takes is the encoding of the bytes it gives, in room
\* that is known beforehand.
THEOREM DecodedIsEncodableHolds == Spec => []DecodedIsEncodable
<1>1. Init => DecodedIsEncodable
    BY DEF Init, Returned, DecodedIsEncodable
<1>2. ASSUME DecodedIsEncodable, [Next]_vars
      PROVE  DecodedIsEncodable'
  <2>1. CASE UNCHANGED vars
      BY <1>2, <2>1 DEF DecodedIsEncodable, vars
  <2>2. CASE \E text \in Texts64 : Decode(text)
    <3>1. PICK text \in Texts64 : Decode(text)
        BY <2>2
    <3>2. last'.in = text /\ last'.out = B64ToBin(text)
        BY <3>1 DEF Decode, Call
    <3>3. text \in Seq(Symbol)
        BY HelpersAssumption
    <3> QED
        BY <3>2, <3>3, DecodeThenEncode DEF DecodedIsEncodable
  <2>3. CASE last'.call # "decode"
      BY <2>3 DEF DecodedIsEncodable
  <2> QED
      BY <1>2, <2>1, <2>2, <2>3, StepCalls
<1> QED
    BY <1>1, <1>2, PTL DEF Spec

\* The payload of every transaction has room in the scratch memory taken for
\* it (create_transaction).
THEOREM PayloadFitsHolds == Spec => []PayloadFits
<1>1. Init => PayloadFits
    BY DEF Init, Returned, PayloadFits
<1>2. ASSUME PayloadFits, [Next]_vars
      PROVE  PayloadFits'
  <2>1. CASE UNCHANGED vars
      BY <1>2, <2>1 DEF PayloadFits, vars
  <2>2. CASE \E size \in Sizes : AllocatePayload(size)
    <3>1. PICK size \in Sizes : AllocatePayload(size)
        BY <2>2
    <3>2. PayloadSize(size) \leq AllocationSize(size)
        BY PayloadHasRoom, HelpersAssumption
    <3> QED
        BY <3>1, <3>2 DEF AllocatePayload, Call, PayloadFits
  <2>3. CASE last'.call # "allocate"
      BY <2>3 DEF PayloadFits
  <2> QED
      BY <1>2, <2>1, <2>2, <2>3, StepCalls
<1> QED
    BY <1>1, <1>2, PTL DEF Spec

\* Every answer about a challenge is taken whole or not at all, whatever its
\* fields and their lengths (getPoPInfoFromJSON).
THEOREM PoPInfoIsWholeHolds == Spec => []PoPInfoIsWhole
<1>1. Init => PoPInfoIsWhole
    BY DEF Init, Returned, PoPInfoIsWhole
<1>2. ASSUME PoPInfoIsWhole, [Next]_vars
      PROVE  PoPInfoIsWhole'
  <2>1. CASE UNCHANGED vars
      BY <1>2, <2>1 DEF PoPInfoIsWhole, vars
  <2>2. CASE \E info \in PoPInfos : ReadPoPInfo(info)
    <3>1. PICK info \in PoPInfos : ReadPoPInfo(info)
        BY <2>2
    <3>2. last'.in = info /\ last'.out = GetPoPInfoFromJSON(info.text)
        BY <3>1 DEF ReadPoPInfo, Call
    <3>3. /\ IsText(info.text) /\ KeysOnce(info.text)
          /\ info.readable => info.info \in Said(info.text)
          /\ ~info.readable => Said(info.text) = {}
        BY PoPInfosAssumption
    <3>4. /\ info.readable => last'.out = [result |-> TRUE, pop |-> info.info]
          /\ ~info.readable => last'.out = [result |-> FALSE, pop |-> ResetPopInfo]
        BY <3>2, <3>3, InfoIsTaken
    <3> QED
        BY <3>2, <3>4 DEF PoPInfoIsWhole
  <2>3. CASE last'.call # "pop"
      BY <2>3 DEF PoPInfoIsWhole
  <2> QED
      BY <1>2, <2>1, <2>2, <2>3, StepCalls
<1> QED
    BY <1>1, <1>2, PTL DEF Spec

\* Whatever the node answers, cut or empty or with something behind the list, and
\* whatever number is drawn, what is picked is in the list or the first CID behind
\* it; only an empty list traps; and of a list of CIDs that fit, with none behind,
\* one is picked whole (getRandomElementFromCIDJSONList).
THEOREM PickedIsListedHolds == Spec => []PickedIsListed
<1>1. Init => PickedIsListed
    BY DEF Init, Returned, PickedIsListed
<1>2. ASSUME PickedIsListed, [Next]_vars
      PROVE  PickedIsListed'
  <2>1. CASE UNCHANGED vars
      BY <1>2, <2>1 DEF PickedIsListed, vars
  <2>2. CASE \E text \in CidLists : PickCid(text)
    <3>1. PICK text \in CidLists : PickCid(text)
        BY <2>2
    <3>2. PICK out \in GetRandomElementFromCIDJSONList(text) :
              last'.in = text /\ last'.out = out
        BY <3>1 DEF PickCid, Call
    <3>3. IsCidList(text) => out.ret = "picked" /\ out.whole
        BY ListedIsPicked
    <3>4. /\ out.ret = "picked" =>
                 out.cid \in {text[p].cid : p \in InList(text) \cup FirstBehind(text)}
          /\ out.ret = "trap" => InList(text) = {}
        BY CidListsAssumption, PickedIsSaid
    <3> QED
        BY <3>2, <3>3, <3>4 DEF PickedIsListed
  <2>3. CASE last'.call # "pick"
      BY <2>3 DEF PickedIsListed
  <2> QED
      BY <1>2, <2>1, <2>2, <2>3, StepCalls
<1> QED
    BY <1>1, <1>2, PTL DEF Spec

-----------------------------------------------------------------------------
(***************************************************************************)
(* The file names of Tasmota.                                              *)
(***************************************************************************)

\* The file of a content is looked for by a part of its CID: where that
\* begins depends on the digits of the time alone.
LEMMA NameBegins ==
    ASSUME NEW c \in Contents, NEW t \in Times
    PROVE  /\ Len(c) + Len(t) - Limit \in 1 .. Len(c) - KeyLength
           /\ FirstChars(FileName(c, t), KeyLength) =
                  SubSeq(c, Len(c) + Len(t) - Limit + 1, Len(c) + Len(t) - Limit + KeyLength)
<1> DEFINE whole == c \o t
           i == Len(c) + Len(t) - Limit
           name == SubSeq(whole, i + 1, i + Limit)
<1>1. c \in Seq(Nat) /\ t \in Seq(Nat) /\ Len(c) \in Nat /\ Len(t) \in Nat
    BY NamesAssumption
<1>2. Len(c) > Limit /\ Len(t) <= Limit - KeyLength /\ Limit \in Nat /\ KeyLength \in 0 .. Limit
    BY NamesAssumption, CidFileNamesAssumption
<1>3. whole \in Seq(Nat) /\ Len(whole) = Len(c) + Len(t) /\ \A j \in 1 .. Len(c) : whole[j] = c[j]
    BY <1>1
<1>4. i \in 1 .. Len(c) - KeyLength
    BY <1>1, <1>2
<1>5. FileName(c, t) = name
  <2>1. Len(whole) > Limit
      BY <1>1, <1>2, <1>3
  <2>2. FileName(c, t) = SubSeq(whole, Len(whole) - Limit + 1, Len(whole))
      BY <2>1 DEF FileName, LastChars
  <2>3. Len(whole) - Limit + 1 = i + 1 /\ Len(whole) = i + Limit
      BY <1>1, <1>2, <1>3
  <2> HIDE DEF whole, i
  <2> QED
      BY <2>2, <2>3
<1>6. name \in Seq(Nat) /\ Len(name) = Limit /\ \A j \in 1 .. Limit : name[j] = whole[i + j]
  <2>1. i \in Nat /\ i + Limit <= Len(whole)
      BY <1>1, <1>2, <1>3, <1>4
  <2>2. whole \in Seq(Nat) /\ Limit \in Nat
      BY <1>2, <1>3
  <2> HIDE DEF whole, i, name
  <2>3. /\ SubSeq(whole, i + 1, i + Limit) \in Seq(Nat)
        /\ Len(SubSeq(whole, i + 1, i + Limit)) = Limit
        /\ \A j \in 1 .. Limit : SubSeq(whole, i + 1, i + Limit)[j] = whole[i + j]
      BY <2>1, <2>2, Cut
  <2> QED
      BY <2>3 DEF name
<1> HIDE DEF whole, i, name
<1>7. FirstChars(name, KeyLength) = SubSeq(name, 0 + 1, 0 + KeyLength)
    BY <1>2, <1>6 DEF FirstChars
<1>8. /\ SubSeq(name, 0 + 1, 0 + KeyLength) \in Seq(Nat)
      /\ Len(SubSeq(name, 0 + 1, 0 + KeyLength)) = KeyLength
      /\ \A j \in 1 .. KeyLength : SubSeq(name, 0 + 1, 0 + KeyLength)[j] = name[0 + j]
    BY <1>2, <1>6, Cut
<1>9. /\ SubSeq(c, i + 1, i + KeyLength) \in Seq(Nat)
      /\ Len(SubSeq(c, i + 1, i + KeyLength)) = KeyLength
      /\ \A j \in 1 .. KeyLength : SubSeq(c, i + 1, i + KeyLength)[j] = c[i + j]
  <2>1. i \in Nat /\ KeyLength \in Nat /\ i + KeyLength <= Len(c)
      BY <1>1, <1>2, <1>4
  <2>2. c \in Seq(Nat)
      BY <1>1
  <2> QED
      BY <2>1, <2>2, Cut
<1>10. \A j \in 1 .. KeyLength : name[0 + j] = c[i + j]
  <2>1. ASSUME NEW j \in 1 .. KeyLength
        PROVE  0 + j = j /\ j \in 1 .. Limit /\ i + j \in 1 .. Len(c)
      BY <1>1, <1>2, <1>4
  <2> QED
      BY <1>3, <1>6, <2>1
<1>11. SubSeq(name, 0 + 1, 0 + KeyLength) = SubSeq(c, i + 1, i + KeyLength)
    BY <1>8, <1>9, <1>10, SameSequence
<1> QED
    BY <1>4, <1>5, <1>7, <1>11 DEF i

\* Each file holds a content, under the name that content and time give it.
FilesAreNamed ==
    \A name \in DOMAIN files :
        /\ files[name].content \in Contents
        /\ files[name].time \in Times
        /\ name = FileName(files[name].content, files[name].time)

\* A file that is read is never another content's, and the one of a content
\* notarized with all the digits of the time is among those found.
LEMMA FoundIsAsked ==
    ASSUME FilesAreNamed, NEW c \in Contents
    PROVE  /\ \A name \in FilesFor(DOMAIN files, c) : files[name].content = c
           /\ \A name \in DOMAIN files :
                  /\ files[name].content = c
                  /\ Len(files[name].time) = Limit - KeyLength
                  => name \in FilesFor(DOMAIN files, c)
<1>1. FilesFor(DOMAIN files, c) =
          {name \in DOMAIN files : FirstChars(name, KeyLength) = LastChars(c, KeyLength)}
    BY NamesAssumption DEF FilesFor, Matches
<1>2. ASSUME NEW name \in DOMAIN files,
             FirstChars(name, KeyLength) = LastChars(c, KeyLength)
      PROVE  files[name].content = c
  <2> DEFINE d == files[name].content
             t == files[name].time
             i == Len(d) + Len(t) - Limit
  <2>1. d \in Contents /\ t \in Times /\ name = FileName(d, t)
      BY DEF FilesAreNamed
  <2>2. i \in 1 .. Len(d) - KeyLength
      BY <2>1, NameBegins
  <2>3. SubSeq(d, i + 1, i + KeyLength) = LastChars(c, KeyLength)
      BY <1>2, <2>1, NameBegins
  <2> HIDE DEF i, d, t
  <2>4. d = c
      BY <2>1, <2>2, <2>3, NoCollision
  <2> QED
      BY <2>4 DEF d
<1>3. ASSUME NEW name \in DOMAIN files, files[name].content = c,
             Len(files[name].time) = Limit - KeyLength
      PROVE  FirstChars(name, KeyLength) = LastChars(c, KeyLength)
  <2> DEFINE t == files[name].time
             i == Len(c) + Len(t) - Limit
  <2>1. t \in Times /\ name = FileName(c, t)
      BY <1>3 DEF FilesAreNamed
  <2>2. FirstChars(name, KeyLength) = SubSeq(c, i + 1, i + KeyLength)
      BY <2>1, NameBegins
  <2>3. Len(c) \in Nat /\ Limit \in Nat /\ KeyLength \in Nat
      BY NamesAssumption, CidFileNamesAssumption
  <2>4. i = Len(c) - KeyLength /\ i + KeyLength = Len(c)
      BY <1>3, <2>3
  <2> QED
      BY <2>2, <2>4 DEF LastChars
<1> QED
    BY <1>1, <1>2, <1>3

LEMMA NamesInvariant == Spec => []FilesAreNamed
<1>1. Init => FilesAreNamed
    BY DEF Init, FilesAreNamed
<1>2. ASSUME FilesAreNamed, [Next]_vars
      PROVE  FilesAreNamed'
  <2>1. CASE UNCHANGED files
      BY <1>2, <2>1 DEF FilesAreNamed
  <2>2. CASE \E content \in Contents, time \in Times : WriteContent(content, time)
    <3>1. PICK content \in Contents, time \in Times : WriteContent(content, time)
        BY <2>2
    <3> DEFINE written == FileName(content, time)
    <3>2. files' = [n \in DOMAIN files \cup {written} |->
                       IF n = written THEN [content |-> content, time |-> time]
                       ELSE files[n]]
        BY <3>1 DEF WriteContent
    <3> HIDE DEF written
    <3>3. ASSUME NEW name \in DOMAIN files'
          PROVE  /\ files'[name].content \in Contents
                 /\ files'[name].time \in Times
                 /\ name = FileName(files'[name].content, files'[name].time)
      <4>1. CASE name = written
          BY <3>2, <4>1 DEF written
      <4>2. CASE name # written
          BY <1>2, <3>2, <3>3, <4>2 DEF FilesAreNamed
      <4> QED
          BY <4>1, <4>2
    <3> QED
        BY <3>3 DEF FilesAreNamed
  <2> QED
      BY <1>2, <2>1, <2>2, StepCalls DEF vars
<1> QED
    BY <1>1, <1>2, PTL DEF Spec

\* The content asked for by its CID is found if it was notarized when the
\* clock was set, and it is never another's (rddlWritefileTasmota and
\* readfileTasmota).
THEOREM ReadAnswersChallengeHolds == Spec => []ReadAnswersChallenge
<1>1. Init => ReadAnswersChallenge
    BY DEF Init, Returned, ReadAnswersChallenge
<1>2. ASSUME ReadAnswersChallenge, FilesAreNamed, [Next]_vars
      PROVE  ReadAnswersChallenge'
  <2>1. CASE UNCHANGED vars
      BY <1>2, <2>1 DEF ReadAnswersChallenge, vars
  <2>2. CASE \E content \in Contents : ReadContent(content)
    <3>1. PICK c \in Contents : ReadContent(c)
        BY <2>2
    <3> DEFINE names == FilesFor(DOMAIN files, c)
    <3>2. last'.in = c /\ files' = files
        BY <3>1 DEF ReadContent, Call
    <3>3. \/ \E name \in names : last'.out = files[name].content
          \/ names = {} /\ last'.out = <<>>
        BY <3>1 DEF ReadContent, Call
    <3>4. /\ \A name \in names : files[name].content = c
          /\ \A name \in DOMAIN files :
                 /\ files[name].content = c
                 /\ Len(files[name].time) = Limit - KeyLength
                 => name \in names
        BY <1>2, FoundIsAsked
    <3> HIDE DEF names
    <3> QED
        BY <3>2, <3>3, <3>4 DEF ReadAnswersChallenge
  <2>3. CASE last'.call # "read"
      BY <2>3 DEF ReadAnswersChallenge
  <2> QED
      BY <1>2, <2>1, <2>2, <2>3, StepCalls
<1> QED
    BY <1>1, <1>2, NamesInvariant, PTL DEF Spec

=============================================================================
