------------------------------- MODULE Helpers -------------------------------
(***************************************************************************)
(* The helpers the SDK is built on, one call after the other: base64 and   *)
(* the payload it goes to, the two JSON readers, and, on Tasmota, the file *)
(* a content is written to and read from by its CID.  Only the files       *)
(* outlive a call.                                                         *)
(***************************************************************************)
EXTENDS Base64, JsonText, CidFileNames

CONSTANTS
    Texts64,    \* texts to decode
    Bytes,      \* transactions to encode
    Sizes,      \* sizes of transactions
    PoPInfos,   \* answers the node gives about a challenge
    CidLists,   \* answers it gives about the CIDs of an address
    Contents,   \* contents to notarize; each is named by its CID
    Times       \* digits of time(), a long

ASSUME HelpersAssumption ==
    /\ Bytes \subseteq Seq(Byte)
    /\ Texts64 \subseteq Seq(Symbol)
    /\ Sizes \subseteq Nat

\* Characters by their codes; a long of 32 bits has ten digits at most.
ASSUME NamesAssumption ==
    /\ Contents \subseteq Seq(Nat)
    /\ Times \subseteq Seq(Nat)
    /\ \A c \in Contents : Len(c) > Limit
    /\ \A t \in Times : Len(t) \leq Limit - KeyLength

\* What a host relies on: no CID holds what is looked for of another, where
\* the cut of its file's name could begin.
ASSUME NoCollision ==
    \A c \in Contents, d \in Contents : \A i \in 1 .. Len(c) - KeyLength :
        c # d => SubSeq(c, i + 1, i + KeyLength) # LastChars(d, KeyLength)

\* What the text of an answer says: what stands behind a key, up to the next
\* quote or as a word, and the challenges of which each field is there and fits.
Keyed(text, key) == {p \in 1 .. Len(text) : text[p].kind = "key" /\ text[p].key = key}

Quotes(text) == {q \in 1 .. Len(text) : StartsWithQuote(text[q])}
QuoteBehind(text, p) ==
    {q \in Quotes(text) : p < q /\ \A r \in Quotes(text) : r <= p \/ q <= r}

Values(text, key, size) ==
    UNION {{SubSeq(text, p + 1, q - 1) : q \in QuoteBehind(text, p) \cap 0 .. p + size} :
               p \in {p \in Keyed(text, key) : text[p].quoted}}

Words(text, key) ==
    {text[p + 1].value : p \in
        {p \in Keyed(text, key) :
            ~text[p].quoted /\ p < Len(text) /\ text[p + 1].kind = "word"}}

Numbers(texts) ==
    {number.value : number \in
        {n \in {ConvertStringToInt64(text) : text \in texts} : n.ok}}

Said(text) ==
    [initiator   : Values(text, "initiator", FieldSize),
     challenger  : Values(text, "challenger", FieldSize),
     challengee  : Values(text, "challengee", FieldSize),
     blockHeight : Numbers(Values(text, "height", HeightSize)),
     finished    : Words(text, "finished")]

IsText(text) ==
    /\ text \in Seq({text[p] : p \in 1 .. Len(text)})
    /\ \A p \in 1 .. Len(text) :
           /\ text[p].kind = "key" =>
                  \E gap, quoted \in BOOLEAN : text[p] = Key(text[p].key, gap, quoted)
           /\ text[p].kind = "word" => text[p].value \in BOOLEAN

KeysOnce(text) ==
    \A p, q \in 1 .. Len(text) :
        text[p].kind = "key" /\ q \in Keyed(text, text[p].key) => p = q

\* JSON has a key at most once in an object.
ASSUME PoPInfosAssumption ==
    \A info \in PoPInfos :
        /\ IsText(info.text) /\ KeysOnce(info.text)
        /\ info.readable \in BOOLEAN
        /\ IF info.readable THEN info.info \in Said(info.text) ELSE Said(info.text) = {}

\* Answers to a query for CIDs may be any text, cut at either end or not.
ASSUME CidListsAssumption == \A text \in CidLists : IsText(text)

\* What the answer to a query for CIDs says: those between the first opening
\* and the first closing bracket, and what it is followed by.
IsFirst(text, p, t) == text[p] = t /\ \A q \in 1 .. p - 1 : text[q] # t

InList(text) ==
    {p \in CidsFrom(text, 1) :
        /\ \E start \in 1 .. p - 1 : IsFirst(text, start, Bracket)
        /\ \E end \in p + 1 .. Len(text) : IsFirst(text, end, Closing)}

FirstBehind(text) ==
    {p \in CidsFrom(text, 1) :
        \E end \in 1 .. p - 1 : /\ IsFirst(text, end, Closing)
                               /\ \A q \in CidsFrom(text, end) : p <= q}

\* A list and nothing like a CID behind it, of CIDs that fit the buffer.
IsCidList(text) ==
    \E start, end \in 1 .. Len(text) :
        /\ IsFirst(text, start, Bracket)
        /\ IsFirst(text, end, Closing)
        /\ CidsFrom(text, end) = {}
        /\ CidsFrom(text, start) # {}
        /\ \A p \in CidsFrom(text, start) : text[p].cid.length < CidBuffer

VARIABLES
    last,   \* the call made, what it was given and what came of it
    files   \* Tasmota: the content of each CID file, by name

vars == <<last, files>>

Returned == [call |-> "none"]
Call(call, in, out) ==
    /\ last = Returned
    /\ last' = [call |-> call, in |-> in, out |-> out]

Init == last = Returned /\ files = <<>>

Encode(bytes) ==
    Call("encode", bytes, B64ToBin(BinToB64(bytes))) /\ UNCHANGED files

Decode(text) ==
    Call("decode", text, B64ToBin(text)) /\ UNCHANGED files

AllocatePayload(size) ==
    Call("allocate", size, AllocationSize(size)) /\ UNCHANGED files

\* A challenge, and the text that is left of it; see PoPText.
ReadPoPInfo(info) ==
    Call("pop", info, GetPoPInfoFromJSON(info.text)) /\ UNCHANGED files

PickCid(text) ==
    /\ \E out \in GetRandomElementFromCIDJSONList(text) :
           Call("pick", text, out)
    /\ UNCHANGED files

\* A name that is there already gets the new content.
WriteContent(content, time) ==
    LET name == FileName(content, time)
    IN  /\ Call("write", content, name)
        /\ files' = [n \in DOMAIN files \cup {name} |->
                        IF n = name THEN [content |-> content, time |-> time]
                        ELSE files[n]]

\* TfsLoadFile of "/" alone, when there is no such file, fails.
ReadContent(content) ==
    /\ LET names == FilesFor(DOMAIN files, content)
       IN  \/ \E name \in names : Call("read", content, files[name].content)
           \/ names = {} /\ Call("read", content, <<>>)
    /\ UNCHANGED files

Return ==
    /\ last # Returned
    /\ last' = Returned
    /\ UNCHANGED files

\* The calls that have nothing to do with files are made before there are any.
Next ==
    \/ /\ last = Returned
       /\ files = <<>>
       /\ \/ \E bytes \in Bytes : Encode(bytes)
          \/ \E text \in Texts64 : Decode(text)
          \/ \E size \in Sizes : AllocatePayload(size)
          \/ \E info \in PoPInfos : ReadPoPInfo(info)
          \/ \E text \in CidLists : PickCid(text)
    \/ /\ last = Returned
       /\ \/ \E content \in Contents, time \in Times : WriteContent(content, time)
          \/ \E content \in Contents : ReadContent(content)
    \/ Return

Spec == Init /\ [][Next]_vars

-----------------------------------------------------------------------------
(* Properties.                                                             *)

\* The node decodes the transaction that was signed, byte for byte, also when
\* its size is no multiple of three.
Base64RoundTrip ==
    last.call = "encode" => last.out = [ok |-> TRUE, bytes |-> last.in]

\* Whatever it is given, b64tobin writes no more than three bytes for each
\* block begun, and a text it takes is the encoding of those bytes up to the
\* bits and characters it does not look at: encoded anew they decode to the
\* same, in no more digits than the text has.
DecodedIsEncodable ==
    last.call = "decode" /\ last.out.ok =>
        LET again == BinToB64(last.out.bytes)
        IN  /\ B64ToBin(again) = last.out
            /\ Len(last.out.bytes) \leq 3 * ((Len(last.in) + 3) \div 4)
            /\ Len(again) \leq Len(last.in)

\* A payload, with its quotes, its mode and its NUL, has room in what
\* create_transaction takes from the scratch memory for it.
PayloadFits ==
    last.call = "allocate" => PayloadSize(last.in) \leq last.out

\* getPoPInfoFromJSON takes a challenge whole or not at all: with every field
\* as the node sent it, in whichever style of blanks, or popParticipation is
\* reset.  What is cut off, does not fit or begins with no number is not taken.
PoPInfoIsWhole ==
    last.call = "pop" =>
        last.out = IF last.in.readable
                   THEN [result |-> TRUE, pop |-> last.in.info]
                   ELSE [result |-> FALSE, pop |-> ResetPopInfo]

\* Whatever the answer, cut or empty or with something behind it, a challenge is
\* put for a CID of the list, or for the one that follows it: none in front of
\* the list and none further behind.  The SDK traps on nothing but an empty list,
\* and of a list of CIDs that fit with none behind, one is picked whole.
PickedIsListed ==
    last.call = "pick" =>
        /\ last.out.ret = "picked" =>
               last.out.cid \in
                   {last.in[p].cid : p \in InList(last.in) \cup FirstBehind(last.in)}
        /\ last.out.ret = "trap" => InList(last.in) = {}
        /\ IsCidList(last.in) => last.out.ret = "picked" /\ last.out.whole

\* A content notarized when the clock was set, ten digits long, is found under
\* its CID when it is challenged, and never another's.
ReadAnswersChallenge ==
    last.call = "read" =>
        /\ last.out \in {last.in, <<>>}
        /\ (\E name \in DOMAIN files :
                /\ files[name].content = last.in
                /\ Len(files[name].time) = Limit - KeyLength)
           => last.out = last.in

=============================================================================
