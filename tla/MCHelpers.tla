------------------------------ MODULE MCHelpers ------------------------------
(***************************************************************************)
(* Helpers for TLC: small texts of each kind, with what they say.          *)
(***************************************************************************)
EXTENDS Helpers

SeqsUpTo(S, n) == UNION {[1 .. k -> S] : k \in 0 .. n}

BytesDef == SeqsUpTo({0, 3, 85, 240, 255}, 5)
Texts64Def == SeqsUpTo({0, 21, 63, NotABase64, Terminator}, 6)
SizesDef == 0 .. 20 \cup {300, 307, 1000, 5000}

\* Challenges: fields of up to two characters, of which one fits; heights that
\* are empty, too long, out of range, without or with something behind digits.
x == Char("x")
Heights == {<<>>, <<Number(7)>>, <<Number(9), Number(9)>>, <<x>>,
            <<Number(7), x>>, <<Number(0), Number(0), Number(7)>>}
Members(i, c, h, f, gap) ==
    <<Key("initiator", gap, TRUE)>> \o i \o <<Quote, Key("challenger", gap, TRUE)>>
    \o c \o <<Quote, Key("challengee", gap, TRUE), x, Quote, Key("height", gap, TRUE)>>
    \o h \o <<Quote, Key("success", gap, FALSE), Word(~f), Key("finished", gap, FALSE), Word(f)>>

HeightOf(h) == ConvertStringToInt64(h).value
PoPInfo(i, c, h, f, gap, from, upto) ==
    LET whole == Members(i, c, h, f, gap)
    IN  [text |-> SubSeq(whole, from, Len(whole) - upto),
         readable |-> /\ from = 1 /\ upto = 0 /\ Len(i) < FieldSize /\ Len(c) < FieldSize
                      /\ h \in {<<Number(7)>>, <<Number(7), x>>},
         info |-> [initiator |-> i, challenger |-> c, challengee |-> <<x>>,
                   blockHeight |-> 7, finished |-> f]]
PoPInfosDef ==
    {PoPInfo(i, c, h, f, gap, cut[1], cut[2]) :
        i \in {<<>>, <<x>>, <<x, x>>}, c \in {<<>>, <<x>>, <<x, x>>}, h \in Heights,
        f \in BOOLEAN, gap \in BOOLEAN,
        cut \in {<<1, n>> : n \in 0 .. 9} \cup {<<n, 0>> : n \in 2 .. 6}}

\* Lists of CIDs of 59 characters as all are, and of one the buffer is too
\* small for, with a "b before the list or two behind, and cut at either end.
CidNamed(n, length) == Cid([name |-> n, length |-> length])
Listed == {CidNamed(1, 59), CidNamed(2, 59), CidNamed(3, 64)}
Before == {<<>>, <<CidNamed(4, 59), Quote>>, <<Quote>>}
Behind == {<<>>, <<CidNamed(5, 59), Quote, CidNamed(6, 59), Quote>>, <<Quote>>}
ListText(cids, before, behind) ==
    before \o <<Bracket>> \o FlattenSeq([i \in 1 .. Len(cids) |-> <<cids[i], Quote>>])
    \o <<Closing>> \o behind
CidListsDef ==
    UNION {LET whole == ListText(cids, before, behind)
           IN  {SubSeq(whole, cut[1], Len(whole) - cut[2]) :
                   cut \in {<<1, n>> : n \in 0 .. 5} \cup {<<n, 0>> : n \in 2 .. 4}} :
              cids \in SeqsUpTo(Listed, 3), before \in Before, behind \in Behind}

\* CIDs of five characters; times of two digits when the clock is set.
ContentsDef == {<<21, 22, 23, 24, 25>>, <<31, 32, 33, 34, 35>>}
TimesDef == {<<1, 1>>, <<1, 2>>, <<9>>}
=============================================================================
