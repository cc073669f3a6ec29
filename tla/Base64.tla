-------------------------------- MODULE Base64 --------------------------------
(***************************************************************************)
(* The base64 of transaction payloads: bintob64 and b64tobin of            *)
(* base64_planetmint, and the room create_transaction asks for.            *)
(*                                                                         *)
(* A text is a sequence of what digittobin makes of its characters: the    *)
(* digits 0 .. 63, Terminator for "=", NotABase64 for all others, the NUL  *)
(* at the end included.  The loops over blocks are given by what they      *)
(* leave at each position.                                                 *)
(***************************************************************************)
EXTENDS Integers, Sequences

Byte == 0 .. 255
Digit == 0 .. 63
NotABase64 == 64
Terminator == 65
Symbol == Digit \cup {NotABase64, Terminator}

Get0(a) == a \div 4
Get1(a, b) == (a % 4) * 16 + b \div 16
Get2(b, c) == (b % 16) * 4 + c \div 64
Get3(c) == c % 64

\* A block that is not whole.
Blocks(n) == (n + 2) \div 3

\* Mutant: the last block is padded as if it held one byte less.
PadEarly(n, p) == p >= n

\* No byte is left for the digit that begins with byte p.
Padded(n, p) == p > n

ByteAt(src, p) == IF p <= Len(src) THEN src[p] ELSE 0

\* Digit j of the block of bytes that begins behind p.
DigitOf(src, p, j) ==
    CASE j = 0 -> Get0(ByteAt(src, p + 1))
      [] j = 1 -> Get1(ByteAt(src, p + 1), ByteAt(src, p + 2))
      [] j = 2 -> IF Padded(Len(src), p + 2) THEN Terminator
                  ELSE Get2(ByteAt(src, p + 2), ByteAt(src, p + 3))
      [] j = 3 -> IF Padded(Len(src), p + 3) THEN Terminator
                  ELSE Get3(ByteAt(src, p + 3))

DigitAt(src, i) == DigitOf(src, 3 * ((i - 1) \div 4), (i - 1) % 4)

BinToB64(src) == [i \in 1 .. 4 * Blocks(Len(src)) |-> DigitAt(src, i)]

-----------------------------------------------------------------------------

\* What *src is at position i, and up to where there are digits only.
SymbolAt(src, i) == IF i <= Len(src) THEN src[i] ELSE NotABase64
IsRun(src, n) == \A i \in 1 .. n : src[i] \in Digit
DigitRun(src) ==
    CHOOSE n \in 0 .. Len(src) :
        IsRun(src, n) /\ SymbolAt(src, n + 1) \notin Digit

\* The bytes that d digits give: those of whole blocks, and of the last one.
BytesOf(d) == 3 * (d \div 4) + (IF d % 4 = 0 THEN 0 ELSE (d % 4) - 1)

\* Mutant: only the first of two "=" is looked for.
EndsAtFirstPad(src, d) ==
    d % 4 = 0 \/ (d % 4 > 1 /\ SymbolAt(src, d + 1) = Terminator)

\* How a text may end after d digits: anywhere between two blocks, otherwise
\* with "=" up to the end of the block.
EndsWell(src, d) ==
    \/ d % 4 = 0
    \/ d % 4 = 2 /\ SymbolAt(src, d + 1) = Terminator
                 /\ SymbolAt(src, d + 2) = Terminator
    \/ d % 4 = 3 /\ SymbolAt(src, d + 1) = Terminator

\* Byte j of the block of digits that begins behind q; *p is a char.
ByteOf(src, q, j) ==
    CASE j = 0 -> src[q + 1] * 4 + src[q + 2] \div 16
      [] j = 1 -> ((src[q + 2] * 16) % 256) + src[q + 3] \div 4
      [] j = 2 -> ((src[q + 3] * 64) % 256) + src[q + 4]

StoredAt(src, k) == ByteOf(src, 4 * ((k - 1) \div 3), (k - 1) % 3)

\* ok is whether the pointer returned is not 0.
B64ToBin(src) ==
    LET d == DigitRun(src)
    IN  IF EndsWell(src, d)
        THEN [ok |-> TRUE, bytes |-> [k \in 1 .. BytesOf(d) |-> StoredAt(src, k)]]
        ELSE [ok |-> FALSE, bytes |-> <<>>]

-----------------------------------------------------------------------------
(* create_transaction: the string literals around the digits, and the NUL. *)

PayloadSize(n) == 15 + 4 * Blocks(n) + 34 + 1

\* Mutant: the room is for the bytes.
AllocationForBytes(n) == n + 2 + 150

\* An integer division before ceil.
AllocationSize(n) == ((n + 3 - 1) \div 3) * 4 + 2 + 150

=============================================================================
