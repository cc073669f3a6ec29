---------------------------- MODULE SettingsLinux ----------------------------
(***************************************************************************)
(* The settings on Linux: one file each, and one static buffer each that   *)
(* getSetting fills on first use and setSetting clears (getSetting and     *)
(* setSetting of src/platform/linux/rddlSDKAbst.c), and the transaction    *)
(* built from two of them (create_transaction of src/rddlSDKUtils.c).      *)
(*                                                                         *)
(* Texts are compared, cut short and laid over one another, and nothing    *)
(* else: a text laid over a longer one leaves that one, if it begins it,   *)
(* or else a text nobody wrote, Mixed.                                     *)
(***************************************************************************)
EXTENDS Integers

CONSTANTS
    Texts,      \* what a host saves, shorter than the buffers, and beginnings of it
    Shorter,    \* the beginnings of each text
    Mixed,      \* a text with the rest of a longer one behind it
    Absent,     \* no such file
    NoTx,       \* no transaction since the host last called setSetting
    Env         \* what may go wrong, see below

Settings == {"periodicity", "api", "chainid", "denom"}

\* The texts of configFile.h.
DefaultText ==
    [periodicity |-> "3600",
     api         |-> "https://testnet-api.rddl.io",
     chainid     |-> "planetmint-testnet-1",
     denom       |-> "plmnt"]

Empty == ""

(***************************************************************************)
(*   "open"      open() of a file for writing fails                        *)
(*   "write"     write() fails, after O_TRUNC has emptied the file         *)
(*   "short"     write() is cut short, which counts as a success           *)
(*   "crash"     the process dies while a file is being written            *)
(*   "read"      open() or read() of a file that is there fails            *)
(***************************************************************************)
ASSUME SettingsAssumption ==
    /\ Empty \notin Texts
    /\ Mixed \notin Texts \cup {Empty}
    /\ Absent \notin Texts \cup {Empty, Mixed}
    /\ Shorter \in [Texts \cup {Empty} -> SUBSET Texts]
    /\ Env \subseteq {"open", "write", "short", "crash", "read"}

VARIABLES
    file,       \* SETTINGS_..._FILE of each setting
    buffer,     \* sdk_periodicity, sdk_planetmintapi, sdk_chainid, sdk_denom
    tx,         \* denom and chain id of the last transaction
    denomSaved  \* history: the denom file has had a text

vars == <<file, buffer, tx, denomSaved>>

Tx == [denom : {Empty} \cup Texts \cup {DefaultText.denom},
       chainid : {Empty, Mixed} \cup Texts \cup {DefaultText.api}]

Init ==
    /\ file = [s \in Settings |-> Absent]
    /\ buffer = [s \in Settings |-> Empty]
    /\ tx = NoTx
    /\ denomSaved = FALSE

-----------------------------------------------------------------------------
(* getSetting.                                                             *)

\* The buffer the file of s is read into.
ReadTarget(s) == IF s = "denom" THEN "chainid" ELSE s

\* Mutant: the same default for one setting more.
ApiDefault(s) == DefaultText[IF s \in {"chainid", "denom"} THEN "api" ELSE s]

\* The text an empty file of s stands for.
FileDefault(s) == DefaultText[IF s = "chainid" THEN "api" ELSE s]

\* text read into a buffer that holds old, up to its length.
Overlaid(old, text) == IF old \in {Empty, text} THEN {text} ELSE {text, old, Mixed}

\* Mutant: a setting that cannot be read has its default.
ReadFailsToDefault(b, s) ==
    IF "read" \in Env THEN {[b EXCEPT ![s] = FileDefault(s)]} ELSE {}

\* readfile returns -1, which is not 0: no text and no default.
ReadFails(b, s) == IF "read" \in Env THEN {b} ELSE {}

\* readfile of a file that is there, and the default when it has nothing.
ReadSucceeds(b, s) ==
    IF file[s] = Empty THEN {[b EXCEPT ![s] = FileDefault(s)]}
    ELSE {[b EXCEPT ![ReadTarget(s)] = text] :
             text \in Overlaid(b[ReadTarget(s)], file[s])}

\* The buffers b may have become when getSetting(s) returns b[s].
AfterGet(b, s) ==
    IF b[s] # Empty \/ file[s] = Absent THEN {b}
    ELSE ReadSucceeds(b, s) \cup ReadFails(b, s)

\* sdkGetSetting; broadcast_transaction asks for the api.
GetSetting(s) ==
    /\ buffer' \in AfterGet(buffer, s)
    /\ UNCHANGED <<file, tx, denomSaved>>

\* create_transaction: denom and chain id are pointers into the buffers, used
\* once both have been filled.
CreateTransaction ==
    /\ \E b \in AfterGet(buffer, "denom") : buffer' \in AfterGet(b, "chainid")
    /\ tx' = [denom |-> buffer'["denom"], chainid |-> buffer'["chainid"]]
    /\ UNCHANGED <<file, denomSaved>>

-----------------------------------------------------------------------------
(* setSetting.                                                             *)

\* text is in the file of s.
Write(s, text) ==
    /\ file' = [file EXCEPT ![s] = text]
    /\ denomSaved' = (denomSaved \/ file'["denom"] \notin {Absent, Empty})

\* rddl_writefile, and what it may leave in the file.
WriteFile(s, text) ==
    \/ Write(s, text)
    \/ "write" \in Env /\ Write(s, Empty)
    \/ "short" \in Env /\ \E t \in Shorter[text] : Write(s, t)
    \/ "open" \in Env /\ UNCHANGED <<file, denomSaved>>

\* Mutant: the buffer is cleared only when the write succeeded.
SetSettingKeepsBuffer(s, text) ==
    /\ WriteFile(s, text)
    /\ buffer' = IF file'[s] = text THEN [buffer EXCEPT ![s] = Empty] ELSE buffer
    /\ tx' = NoTx

SetSetting(s, text) ==
    /\ WriteFile(s, text)
    /\ buffer' = [buffer EXCEPT ![s] = Empty]
    /\ tx' = NoTx

Restart ==
    /\ buffer' = [s \in Settings |-> Empty]
    /\ tx' = NoTx
    /\ UNCHANGED <<file, denomSaved>>

\* The process dies in setSetting, after O_TRUNC.
Crash(s, text) ==
    /\ "crash" \in Env
    /\ \E t \in {Empty, text} \cup Shorter[text] : Write(s, t)
    /\ buffer' = [t \in Settings |-> Empty]
    /\ tx' = NoTx

Next ==
    \/ \E s \in Settings : GetSetting(s)
    \/ CreateTransaction
    \/ \E s \in Settings, text \in Texts \cup {Empty} : SetSetting(s, text)
    \/ Restart
    \/ \E s \in Settings, text \in Texts \cup {Empty} : Crash(s, text)

Spec == Init /\ [][Next]_vars

-----------------------------------------------------------------------------
(* Properties.                                                             *)

TypeOK ==
    /\ file \in [Settings -> Texts \cup {Empty, Absent}]
    /\ buffer["periodicity"] \in Texts \cup {Empty, DefaultText.periodicity}
    /\ buffer["api"] \in Texts \cup {Empty, DefaultText.api}
    /\ buffer["chainid"] \in Texts \cup {Empty, Mixed, DefaultText.api}
    /\ buffer["denom"] \in Texts \cup {Empty, DefaultText.denom}
    /\ tx \in Tx \cup {NoTx}
    /\ denomSaved \in BOOLEAN

\* A buffer in use holds what getSetting would read now: no store that failed,
\* was cut off or crashed leaves the text of before in use.  Of the chain id
\* this holds only as long as no denom has been saved, which is read into
\* the chain id's buffer.
BuffersFollowFiles ==
    \A s \in Settings : (s = "chainid" => ~denomSaved) =>
        buffer[s] \in {Empty, IF file[s] = Empty THEN FileDefault(s) ELSE file[s]}

\* Transactions are made for the chain id the host has saved, where reading it
\* failed for none, and for another never: reading the settings in the order of
\* create_transaction mixes no two of them up, as long as no denom has been saved.
ChainIdIsSaved ==
    tx # NoTx /\ ~denomSaved /\ file["chainid"] \in Texts =>
        \/ tx.chainid = file["chainid"]
        \/ "read" \in Env /\ tx.chainid = Empty

\* docs/RDDL_SDK.odt: "Denom and chain-id information are retrieved from the
\* device.  If it is not saved in the device, default values are used which are
\* plmnt and planetmint-testnet-1 respectively."
Documented(s) == IF file[s] \in {Absent, Empty} THEN DefaultText[s] ELSE file[s]

TxAsDocumented ==
    tx # NoTx =>
        /\ tx.denom = Documented("denom")
        /\ tx.chainid = Documented("chainid")

=============================================================================
