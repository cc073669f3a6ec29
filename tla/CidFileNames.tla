----------------------------- MODULE CidFileNames -----------------------------
(***************************************************************************)
(* How Tasmota names the file of a notarized content and finds it again by *)
(* the CID: a name is cut to its last Limit characters, KeyLength of the   *)
(* CID and the ten digits of the time, and the CID asked for to its last   *)
(* KeyLength.                                                              *)
(*                                                                         *)
(* A name is a sequence of characters without the "/" in front of it.      *)
(***************************************************************************)
EXTENDS Integers, Sequences

CONSTANTS
    Limit,      \* limit in rddlWritefileTasmota and readfileTasmota
    KeyLength   \* 25

ASSUME CidFileNamesAssumption == Limit \in Nat /\ KeyLength \in 0 .. Limit

LastChars(name, n) == SubSeq(name, Len(name) - n + 1, Len(name))
FirstChars(name, n) == SubSeq(name, 1, IF n <= Len(name) THEN n ELSE Len(name))

\* cid_name, as rddlWritefileTasmota cuts it.
FileName(cid, time) ==
    LET name == cid \o time
    IN  IF Len(name) > Limit THEN LastChars(name, Limit) ELSE name

\* Mutant: the "/" is taken for one of the characters compared.
MatchesWithSlash(name, part) == FirstChars(name, KeyLength - 1) = part

\* The comparison in tasmotaFindCIDFile.
Matches(name, part) == FirstChars(name, KeyLength) = part

\* The files readfileTasmota may load; the directory is in no known order.
FilesFor(names, cid) ==
    IF Len(cid) > Limit
    THEN {name \in names : Matches(name, LastChars(cid, KeyLength))}
    ELSE {name \in names : name = cid}

=============================================================================
