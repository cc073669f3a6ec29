------------------------------- MODULE JsonText -------------------------------
(***************************************************************************)
(* How the SDK reads JSON: it searches for a key with its quotes and its   *)
(* colon, or for "b, the quote and first letter of a CID.                  *)
(*                                                                         *)
(* A text is a sequence of tokens.  In a value each token stands for one   *)
(* character, so that values have the length they have in the code.        *)
(***************************************************************************)
EXTENDS Integers, Sequences, FiniteSets, SequencesExt

CONSTANTS
    FieldSize,   \* the size of initiator, challenger and challengee
    HeightSize,  \* the size of blockHeight, the local buffer
    Int64Max,    \* LLONG_MAX
    CidBuffer    \* the size of challengedCID

ASSUME JsonTextAssumption ==
    {FieldSize, HeightSize, Int64Max, CidBuffer} \subseteq Nat \ {0}

\* "key":  then a blank if gap, then the opening quote if quoted.
Key(key, gap, quoted) ==
    [kind |-> "key", key |-> key, gap |-> gap, quoted |-> quoted]
Quote     == [kind |-> "quote"]
Bracket   == [kind |-> "["]
Closing   == [kind |-> "]"]
Char(c)   == [kind |-> "char", char |-> c]
Number(n) == [kind |-> "digit", digit |-> n]
Word(b)   == [kind |-> "word", value |-> b]       \* true or false
Cid(c)    == [kind |-> "cid", cid |-> c]          \* with its opening quote

StartsWithQuote(t) == t.kind \in {"quote", "key", "cid"}

\* strstr and strchr: the first position, or 0.
Search(text, t) == SelectInSeq(text, LAMBDA u : u = t)
NextQuote(text) == SelectInSeq(text, StartsWithQuote)
SearchKey(text, key, gap) ==
    SelectInSeq(text, LAMBDA t : \E quoted \in BOOLEAN : t = Key(key, gap, quoted))
From(text, i) == SubSeq(text, i, Len(text))

\* What is found first: the key with a blank anywhere, then the one without.
FirstOf(spaced, tight) == IF spaced # 0 THEN spaced ELSE tight

-----------------------------------------------------------------------------

\* Mutant: the terminator is forgotten.
FitsUnterminated(value, size) == Len(value) <= size

Fits(value, size) == Len(value) < size

CopyJsonValueString(text, key, size) ==
    LET start == FirstOf(Search(text, Key(key, TRUE, TRUE)),
                         Search(text, Key(key, FALSE, TRUE)))
        rest  == From(text, start + 1)
        end   == NextQuote(rest)
        value == SubSeq(rest, 1, end - 1)
        Failed(ret) == [ret |-> ret, value |-> <<>>]
    IN  CASE start = 0 -> Failed(-1)
          [] start # 0 /\ end = 0 -> Failed(-2)
          [] OTHER -> IF Fits(value, size) THEN [ret |-> 0, value |-> value]
                      ELSE Failed(-3)

\* A blank after the colon is part of the key that is tried first; a quoted
\* value is neither true nor false.
ParseJsonBoolean(text, key) ==
    LET start == FirstOf(SearchKey(text, key, TRUE), SearchKey(text, key, FALSE))
        next  == IF start = 0 \/ text[start].quoted THEN <<>>
                 ELSE From(text, start + 1)
        isWord == next # <<>> /\ next[1].kind = "word"
    IN  [ret |-> IF start = 0 THEN -1 ELSE IF isWord THEN 0 ELSE -2,
         value |-> isWord /\ next[1].value]

\* strtoll takes the digits at the front, whatever follows them.  (The blanks
\* and the sign it takes as well are left out.)
ConvertStringToInt64(value) ==
    LET other  == SelectInSeq(value, LAMBDA t : t.kind # "digit")
        digits == IF other = 0 THEN value ELSE SubSeq(value, 1, other - 1)
        number == FoldLeft(LAMBDA n, t : 10 * n + t.digit, 0, digits)
    IN  [ok |-> digits # <<>> /\ number <= Int64Max, value |-> number]

ResetPopInfo ==
    [initiator |-> <<>>, challenger |-> <<>>, challengee |-> <<>>,
     blockHeight |-> 0, finished |-> FALSE]

\* The result, and what popParticipation is then.
GetPoPInfoFromJSON(text) ==
    LET Field(key) == CopyJsonValueString(text, key, FieldSize)
        fields     == {"initiator", "challenger", "challengee"}
        height     == CopyJsonValueString(text, "height", HeightSize)
        number     == ConvertStringToInt64(height.value)
        finished   == ParseJsonBoolean(text, "finished")
        result     == /\ \A key \in fields : Field(key).ret = 0
                      /\ height.ret = 0
                      /\ number.ok
                      /\ finished.ret = 0
    IN  [result |-> result,
         pop |-> IF ~result THEN ResetPopInfo
                 ELSE [initiator   |-> Field("initiator").value,
                       challenger  |-> Field("challenger").value,
                       challengee  |-> Field("challengee").value,
                       blockHeight |-> number.value,
                       finished    |-> finished.value]]

-----------------------------------------------------------------------------

\* The positions at which strstr finds a "b, from i on.
CidsFrom(text, i) == {p \in i .. Len(text) : text[p].kind = "cid"}

\* The loop looks on from the last CID before the end of the list, and counts
\* one more if there is a "b anywhere after it.
CountElements(text, start, end) ==
    LET inside == {p \in CidsFrom(text, start) : p < end}
        beyond == CidsFrom(text, end)
    IN  IF start >= end THEN 0
        ELSE Cardinality(inside) + IF beyond = {} THEN 0 ELSE 1

\* The one that comes behind n others.
NthCid(text, i, n) ==
    LET cids == CidsFrom(text, i)
    IN  text[CHOOSE p \in cids : Cardinality({q \in cids : q < p}) = n].cid

\* Mutant: the text is searched from its start.
ElementOfText(text, start, index) == NthCid(text, 1, index)

ExtractElement(text, start, index) == NthCid(text, start, index)

NotPicked(why) == [ret |-> why]

\* A CID whose quote is not among the characters copied is searched for it
\* beyond the buffer, and if there is one there not cut to size.
Copied(cid) ==
    IF cid.length < CidBuffer
    THEN {[ret |-> "picked", cid |-> cid, whole |-> TRUE]}
    ELSE {[ret |-> ret, cid |-> cid, whole |-> FALSE] : ret \in {"picked", "overrun"}}

\* All that may come of it; a list without CIDs divides by zero.
GetRandomElementFromCIDJSONList(text) ==
    LET start == Search(text, Bracket)
        end   == Search(text, Closing)
        count == CountElements(text, start, end)
    IN  IF start = 0 \/ end = 0 THEN {NotPicked("none")}
        ELSE IF count = 0 THEN {NotPicked("trap")}
        ELSE UNION {Copied(ExtractElement(text, start, i)) : i \in 0 .. count - 1}

=============================================================================
