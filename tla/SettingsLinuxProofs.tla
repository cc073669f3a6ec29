------------------------- MODULE SettingsLinuxProofs -------------------------
(***************************************************************************)
(* Theorems about SettingsLinux, for every set of texts and every          *)
(* environment.                                                            *)
(***************************************************************************)
EXTENDS SettingsLinux, TLAPS

-----------------------------------------------------------------------------
(* The inductive invariant, over any contents b of the buffers.            *)

AnyText == Texts \cup {Empty, Mixed} \cup {DefaultText[s] : s \in Settings}

BuffersOK(b) ==
    /\ b \in [Settings -> AnyText]
    /\ b["periodicity"] \in Texts \cup {Empty, DefaultText.periodicity}
    /\ b["api"] \in Texts \cup {Empty, DefaultText.api}
    /\ b["chainid"] \in Texts \cup {Empty, Mixed, DefaultText.api}
    /\ b["denom"] \in Texts \cup {Empty, DefaultText.denom}

FilesOK == file \in [Settings -> Texts \cup {Empty, Absent}]

\* What BuffersFollowFiles says of the buffers b.
Follow(b) ==
    \A s \in Settings : (s = "chainid" => ~denomSaved) =>
        b[s] \in {Empty, IF file[s] = Empty THEN FileDefault(s) ELSE file[s]}

\* The history says what is in the denom file.
DenomUnsaved == ~denomSaved => file["denom"] \in {Absent, Empty}

-----------------------------------------------------------------------------
(* getSetting.                                                             *)

LEMMA DefaultTexts ==
    /\ DefaultText.periodicity = DefaultText["periodicity"]
    /\ DefaultText.api = DefaultText["api"]
    /\ DefaultText.denom = DefaultText["denom"]
    /\ FileDefault("periodicity") = DefaultText.periodicity
    /\ FileDefault("api") = DefaultText.api
    /\ FileDefault("chainid") = DefaultText.api
    /\ FileDefault("denom") = DefaultText.denom
    /\ \A s \in Settings : FileDefault(s) \in AnyText
BY DEF DefaultText, FileDefault, AnyText, Settings

\* Each text an empty buffer may be filled with.
LEMMA GetCases ==
    ASSUME NEW b, BuffersOK(b), FilesOK, NEW s \in Settings, NEW c \in AfterGet(b, s)
    PROVE  \/ c = b /\ (b[s] # Empty \/ file[s] = Absent \/ "read" \in Env)
           \/ /\ b[s] = Empty /\ file[s] = Empty
              /\ c = [b EXCEPT ![s] = FileDefault(s)]
           \/ /\ b[s] = Empty /\ s # "denom" /\ file[s] \in Texts
              /\ c = [b EXCEPT ![s] = file[s]]
           \/ /\ s = "denom" /\ file[s] \in Texts
              /\ \E text \in {file[s], b["chainid"], Mixed} :
                     c = [b EXCEPT !["chainid"] = text]
<1>1. CASE b[s] # Empty \/ file[s] = Absent
    BY <1>1 DEF AfterGet
<1>0. CASE c \in ReadFails(b, s)
    BY <1>0 DEF ReadFails
<1>2. CASE b[s] = Empty /\ file[s] = Empty /\ c \in ReadSucceeds(b, s)
    BY <1>2 DEF ReadSucceeds
<1>3. CASE b[s] = Empty /\ file[s] \notin {Absent, Empty} /\ c \in ReadSucceeds(b, s)
  <2>1. PICK text \in Overlaid(b[ReadTarget(s)], file[s]) :
            c = [b EXCEPT ![ReadTarget(s)] = text]
      BY <1>3 DEF ReadSucceeds
  <2>2. file[s] \in Texts
      BY <1>3 DEF FilesOK
  <2>3. CASE s = "denom"
      BY <2>1, <2>2, <2>3 DEF ReadTarget, Overlaid
  <2>4. CASE s # "denom"
      BY <1>3, <2>1, <2>2, <2>4 DEF ReadTarget, Overlaid
  <2> QED BY <2>3, <2>4
<1> QED BY <1>0, <1>1, <1>2, <1>3 DEF AfterGet

LEMMA GetType ==
    ASSUME NEW b, BuffersOK(b), FilesOK, NEW s \in Settings, NEW c \in AfterGet(b, s)
    PROVE  BuffersOK(c)
<1>1. CASE c = b
    BY <1>1
<1>2. CASE c = [b EXCEPT ![s] = FileDefault(s)]
  <2>1. c \in [Settings -> AnyText]
      BY <1>2, DefaultTexts DEF BuffersOK
  <2>2. c[s] = FileDefault(s) /\ \A t \in Settings \ {s} : c[t] = b[t]
      BY <1>2 DEF BuffersOK
  <2> QED BY <2>1, <2>2, DefaultTexts DEF BuffersOK, Settings
<1>3. CASE s # "denom" /\ file[s] \in Texts /\ c = [b EXCEPT ![s] = file[s]]
  <2>1. c \in [Settings -> AnyText]
      BY <1>3 DEF BuffersOK, AnyText
  <2>2. c[s] = file[s] /\ \A t \in Settings \ {s} : c[t] = b[t]
      BY <1>3 DEF BuffersOK
  <2> QED BY <1>3, <2>1, <2>2 DEF BuffersOK, Settings
<1>4. CASE /\ file[s] \in Texts
           /\ \E text \in {file[s], b["chainid"], Mixed} :
                  c = [b EXCEPT !["chainid"] = text]
  <2>1. PICK text \in {file[s], b["chainid"], Mixed} :
            c = [b EXCEPT !["chainid"] = text]
      BY <1>4
  <2>2. c \in [Settings -> AnyText]
      BY <1>4, <2>1 DEF BuffersOK, AnyText, Settings
  <2>3. c["chainid"] = text /\ \A t \in Settings \ {"chainid"} : c[t] = b[t]
      BY <2>1 DEF BuffersOK, Settings
  <2> QED BY <1>4, <2>2, <2>3 DEF BuffersOK, Settings
<1> QED BY <1>1, <1>2, <1>3, <1>4, GetCases

LEMMA GetFollows ==
    ASSUME NEW b, BuffersOK(b), FilesOK, DenomUnsaved, Follow(b),
           NEW s \in Settings, NEW c \in AfterGet(b, s)
    PROVE  Follow(c)
<1>1. CASE c = b
    BY <1>1
<1>2. CASE file[s] = Empty /\ c = [b EXCEPT ![s] = FileDefault(s)]
  <2>1. c[s] = FileDefault(s) /\ \A t \in Settings \ {s} : c[t] = b[t]
      BY <1>2 DEF BuffersOK
  <2> QED BY <1>2, <2>1 DEF Follow
<1>3. CASE file[s] \in Texts /\ c = [b EXCEPT ![s] = file[s]]
  <2>1. c[s] = file[s] /\ \A t \in Settings \ {s} : c[t] = b[t]
      BY <1>3 DEF BuffersOK
  <2>2. file[s] # Empty
      BY <1>3, SettingsAssumption
  <2> QED BY <2>1, <2>2 DEF Follow
<1>4. CASE /\ s = "denom" /\ file[s] \in Texts
           /\ \E text \in {file[s], b["chainid"], Mixed} :
                  c = [b EXCEPT !["chainid"] = text]
  <2>1. denomSaved
      BY <1>4, SettingsAssumption DEF DenomUnsaved
  <2>2. \A t \in Settings \ {"chainid"} : c[t] = b[t]
      BY <1>4 DEF BuffersOK
  <2> QED BY <2>1, <2>2 DEF Follow
<1> QED BY <1>1, <1>2, <1>3, <1>4, GetCases

\* Once asked for, a saved chain id that can be read is in its buffer.
LEMMA GetReads ==
    ASSUME NEW b, BuffersOK(b), FilesOK, file["chainid"] \in Texts,
           "read" \notin Env,
           NEW c \in AfterGet(b, "chainid")
    PROVE  c["chainid"] # Empty
<1>1. file["chainid"] # Empty /\ file["chainid"] # Absent
    BY SettingsAssumption
<1>2. "chainid" \in Settings /\ "chainid" # "denom"
    BY DEF Settings
<1>3. \/ c = b /\ b["chainid"] # Empty
      \/ c = [b EXCEPT !["chainid"] = file["chainid"]]
    BY <1>1, <1>2, GetCases
<1> QED BY <1>1, <1>2, <1>3 DEF BuffersOK

-----------------------------------------------------------------------------
(* Types.                                                                  *)

Basics == TypeOK /\ BuffersOK(buffer)

LEMMA ClearedBuffers == BuffersOK([s \in Settings |-> Empty])
BY DEF BuffersOK, Settings, AnyText

LEMMA ClearBuffer ==
    ASSUME NEW b, BuffersOK(b), NEW s \in Settings
    PROVE  /\ BuffersOK([b EXCEPT ![s] = Empty])
           /\ [b EXCEPT ![s] = Empty][s] = Empty
           /\ \A t \in Settings \ {s} : [b EXCEPT ![s] = Empty][t] = b[t]
<1> DEFINE c == [b EXCEPT ![s] = Empty]
<1>1. c \in [Settings -> AnyText]
    BY DEF BuffersOK, AnyText
<1>2. c[s] = Empty /\ \A t \in Settings \ {s} : c[t] = b[t]
    BY DEF BuffersOK
<1> HIDE DEF c
<1>3. BuffersOK(c)
    BY <1>1, <1>2 DEF BuffersOK, Settings
<1> QED BY <1>2, <1>3 DEF c

\* What a store, complete or not, may do to the files and to the history.
LEMMA WriteEffect ==
    ASSUME Basics, NEW s \in Settings, NEW text \in Texts \cup {Empty},
           Write(s, text)
    PROVE  /\ FilesOK' /\ denomSaved' \in BOOLEAN
           /\ \A t \in Settings \ {s} : file'[t] = file[t]
           /\ denomSaved => denomSaved'
           /\ ~denomSaved' => file'["denom"] \in {Absent, Empty}
<1>1. FilesOK' /\ \A t \in Settings \ {s} : file'[t] = file[t]
    BY DEF Write, FilesOK, Basics, TypeOK
<1>2. /\ denomSaved' \in BOOLEAN
      /\ denomSaved => denomSaved'
      /\ ~denomSaved' => file'["denom"] \in {Absent, Empty}
    BY DEF Write
<1> QED BY <1>1, <1>2

\* A store that fails to open the file changes nothing; any other writes text,
\* a beginning of it or nothing.
LEMMA StoreEffect ==
    ASSUME NEW s \in Settings, NEW text \in Texts \cup {Empty},
           WriteFile(s, text) \/ Crash(s, text)
    PROVE  \/ UNCHANGED <<file, denomSaved>>
           \/ \E t \in Texts \cup {Empty} : Write(s, t)
<1>1. Shorter[text] \subseteq Texts
    BY SettingsAssumption
<1> QED BY <1>1 DEF WriteFile, Crash

LEMMA BuffersTyped ==
    ASSUME BuffersOK(buffer), FilesOK, tx \in Tx \cup {NoTx}, denomSaved \in BOOLEAN
    PROVE  Basics
BY DEF BuffersOK, FilesOK, Basics, TypeOK

LEMMA BasicsStep ==
    ASSUME Basics, [Next]_vars
    PROVE  Basics'
<1>0. BuffersOK(buffer) /\ FilesOK /\ tx \in Tx \cup {NoTx} /\ denomSaved \in BOOLEAN
    BY DEF Basics, TypeOK, FilesOK
<1>1. ASSUME NEW s \in Settings, GetSetting(s) PROVE Basics'
  <2>1. buffer' \in AfterGet(buffer, s) /\ UNCHANGED <<file, tx, denomSaved>>
      BY <1>1 DEF GetSetting
  <2>2. BuffersOK(buffer')
      BY <1>0, <2>1, GetType
  <2>3. FilesOK'
      BY <1>0, <2>1 DEF FilesOK
  <2> QED BY <1>0, <2>1, <2>2, <2>3 DEF BuffersOK, FilesOK, Basics, TypeOK
<1>2. CASE CreateTransaction
  <2>1. PICK b \in AfterGet(buffer, "denom") : buffer' \in AfterGet(b, "chainid")
      BY <1>2 DEF CreateTransaction
  <2>2. BuffersOK(b)
      BY <1>0, <2>1, GetType DEF Settings
  <2>3. BuffersOK(buffer')
      BY <1>0, <2>1, <2>2, GetType DEF Settings
  <2>4. /\ tx' = [denom |-> buffer'["denom"], chainid |-> buffer'["chainid"]]
        /\ UNCHANGED <<file, denomSaved>>
      BY <1>2 DEF CreateTransaction
  <2>5. tx' \in Tx
      BY <2>3, <2>4 DEF BuffersOK, Tx
  <2> QED BY <1>0, <2>3, <2>4, <2>5 DEF BuffersOK, FilesOK, Basics, TypeOK
<1>3. ASSUME NEW s \in Settings, NEW text \in Texts \cup {Empty}, SetSetting(s, text)
      PROVE  Basics'
  <2>1. BuffersOK(buffer')
      BY <1>0, <1>3, ClearBuffer DEF SetSetting
  <2>2. FilesOK' /\ denomSaved' \in BOOLEAN /\ tx' = NoTx
      BY <1>0, <1>3, StoreEffect, WriteEffect DEF SetSetting, FilesOK
  <2> QED BY <2>1, <2>2 DEF BuffersOK, FilesOK, Basics, TypeOK
<1>4. CASE Restart
  <2>1. BuffersOK(buffer') /\ tx' = NoTx /\ UNCHANGED <<file, denomSaved>>
      BY <1>4, ClearedBuffers DEF Restart
  <2> QED BY <1>0, <2>1 DEF BuffersOK, FilesOK, Basics, TypeOK
<1>5. ASSUME NEW s \in Settings, NEW text \in Texts \cup {Empty}, Crash(s, text)
      PROVE  Basics'
  <2>1. BuffersOK(buffer') /\ tx' = NoTx
      BY <1>5, ClearedBuffers DEF Crash
  <2>2. FilesOK' /\ denomSaved' \in BOOLEAN
      BY <1>0, <1>5, StoreEffect, WriteEffect DEF FilesOK
  <2> QED BY <1>0, <2>1, <2>2 DEF BuffersOK, FilesOK, Basics, TypeOK
<1>6. CASE UNCHANGED vars
    BY <1>0, <1>6 DEF vars, BuffersOK, FilesOK, Basics, TypeOK
<1> QED BY <1>1, <1>2, <1>3, <1>4, <1>5, <1>6 DEF Next

LEMMA BasicsInvariant == Spec => []Basics
<1>1. Init => Basics
  <2> SUFFICES ASSUME Init PROVE Basics
      OBVIOUS
  <2>1. BuffersOK(buffer) /\ FilesOK
      BY ClearedBuffers DEF Init, FilesOK
  <2> QED BY <2>1, BuffersTyped DEF Init
<1> QED BY <1>1, BasicsStep, PTL DEF Spec

\* Each buffer holds a text of its own setting, its own default or nothing;
\* only that of the chain id may hold a mixture, or another setting's text.
THEOREM TypeCorrect == Spec => []TypeOK
BY BasicsInvariant, PTL DEF Basics

-----------------------------------------------------------------------------
(* Buffers follow the files.                                               *)

FollowInv == Follow(buffer) /\ DenomUnsaved

LEMMA FollowStep ==
    ASSUME Basics, FollowInv, [Next]_vars
    PROVE  FollowInv'
<1>0. BuffersOK(buffer) /\ FilesOK /\ Follow(buffer) /\ DenomUnsaved
    BY DEF Basics, TypeOK, FilesOK, FollowInv
<1>a. UNCHANGED <<file, denomSaved>> /\ Follow(buffer') => FollowInv'
    BY <1>0 DEF FollowInv, Follow, DenomUnsaved
<1>1. ASSUME NEW s \in Settings, GetSetting(s) PROVE FollowInv'
    BY <1>0, <1>a, <1>1, GetFollows DEF GetSetting
<1>2. CASE CreateTransaction
  <2>1. PICK b \in AfterGet(buffer, "denom") : buffer' \in AfterGet(b, "chainid")
      BY <1>2 DEF CreateTransaction
  <2>2. BuffersOK(b) /\ Follow(b)
      BY <1>0, <2>1, GetType, GetFollows DEF Settings
  <2>3. Follow(buffer')
      BY <1>0, <2>1, <2>2, GetFollows DEF Settings
  <2> QED BY <1>a, <1>2, <2>3 DEF CreateTransaction
<1>3. ASSUME NEW s \in Settings, NEW text \in Texts \cup {Empty}, SetSetting(s, text)
      PROVE  FollowInv'
  <2>1. buffer'[s] = Empty /\ \A t \in Settings \ {s} : buffer'[t] = buffer[t]
      BY <1>0, <1>3, ClearBuffer DEF SetSetting
  <2>2. /\ \A t \in Settings \ {s} : file'[t] = file[t]
        /\ denomSaved => denomSaved'
        /\ ~denomSaved' => file'["denom"] \in {Absent, Empty}
      BY <1>0, <1>3, StoreEffect, WriteEffect DEF SetSetting, DenomUnsaved
  <2> QED BY <1>0, <2>1, <2>2 DEF FollowInv, Follow, DenomUnsaved
<1>4. CASE Restart
    BY <1>0, <1>4 DEF Restart, FollowInv, Follow, DenomUnsaved
<1>5. ASSUME NEW s \in Settings, NEW text \in Texts \cup {Empty}, Crash(s, text)
      PROVE  FollowInv'
  <2>1. \A t \in Settings : buffer'[t] = Empty
      BY <1>5 DEF Crash
  <2>2. ~denomSaved' => file'["denom"] \in {Absent, Empty}
      BY <1>0, <1>5, StoreEffect, WriteEffect DEF DenomUnsaved
  <2> QED BY <2>1, <2>2 DEF FollowInv, Follow, DenomUnsaved
<1>6. CASE UNCHANGED vars
    BY <1>0, <1>a, <1>6 DEF vars
<1> QED BY <1>1, <1>2, <1>3, <1>4, <1>5, <1>6 DEF Next

LEMMA FollowInvariant == Spec => [](Basics /\ FollowInv)
<1>1. Init => FollowInv
    BY DEF Init, FollowInv, Follow, DenomUnsaved, Settings
<1> QED BY <1>1, FollowStep, BasicsInvariant, PTL DEF Spec

\* A buffer in use holds what getSetting would read now: setSetting clears it
\* whether or not its write succeeds, so that neither failed, cut off nor
\* crashed stores leave the text of before in use (but see denom).
THEOREM BuffersFollowFilesHolds == Spec => []BuffersFollowFiles
<1>1. FollowInv => BuffersFollowFiles
    BY DEF FollowInv, Follow, BuffersFollowFiles
<1> QED BY <1>1, FollowInvariant, PTL

\* Until a denom is saved, the transactions made since the last setSetting are
\* for the chain id that is saved, in whatever order settings were read; where
\* reading its file may fail, for that one or none, but never for another.
THEOREM ChainIdIsSavedHolds == Spec => []ChainIdIsSaved
<1>1. Init => ChainIdIsSaved
    BY DEF Init, ChainIdIsSaved
<1>2. Basics /\ FollowInv /\ ChainIdIsSaved /\ [Next]_vars => ChainIdIsSaved'
  <2> SUFFICES ASSUME Basics, FollowInv, ChainIdIsSaved, [Next]_vars
               PROVE  ChainIdIsSaved'
      OBVIOUS
  <2>0. BuffersOK(buffer) /\ FilesOK /\ Follow(buffer) /\ DenomUnsaved
      BY DEF Basics, TypeOK, FilesOK, FollowInv
  <2>1. CASE CreateTransaction
    <3>1. PICK b \in AfterGet(buffer, "denom") : buffer' \in AfterGet(b, "chainid")
        BY <2>1 DEF CreateTransaction
    <3>2. BuffersOK(b) /\ Follow(b)
        BY <2>0, <3>1, GetType, GetFollows DEF Settings
    <3>3. Follow(buffer')
        BY <2>0, <3>1, <3>2, GetFollows DEF Settings
    <3>4. /\ tx'.chainid = buffer'["chainid"]
          /\ UNCHANGED <<file, denomSaved>>
        BY <2>1 DEF CreateTransaction
    <3>5. ASSUME ~denomSaved, file["chainid"] \in Texts
          PROVE  \/ buffer'["chainid"] = file["chainid"]
                 \/ "read" \in Env /\ buffer'["chainid"] = Empty
      <4>1. buffer'["chainid"] # Empty \/ "read" \in Env
          BY <2>0, <3>1, <3>2, <3>5, GetReads
      <4>2. file["chainid"] # Empty
          BY <3>5, SettingsAssumption
      <4> QED BY <3>3, <3>5, <4>1, <4>2 DEF Follow, Settings
    <3> QED BY <3>4, <3>5 DEF ChainIdIsSaved
  <2>2. CASE tx' = NoTx
      BY <2>2 DEF ChainIdIsSaved
  <2>3. CASE UNCHANGED <<file, tx, denomSaved>>
      BY <2>3 DEF ChainIdIsSaved
  <2> QED BY <2>1, <2>2, <2>3
          DEF Next, vars, GetSetting, SetSetting, Restart, Crash
<1> QED BY <1>1, <1>2, FollowInvariant, PTL DEF Spec

-----------------------------------------------------------------------------
(* What TxAsDocumented misses of the denom.                                *)

DenomIsDefault(b) == b["denom"] \in {Empty, DefaultText["denom"]}

LEMMA GetLeavesDenom ==
    ASSUME NEW b, BuffersOK(b), FilesOK, DenomIsDefault(b),
           NEW s \in Settings, NEW c \in AfterGet(b, s)
    PROVE  DenomIsDefault(c)
<1>1. CASE c = b
    BY <1>1
<1>2. CASE c = [b EXCEPT ![s] = FileDefault(s)]
    BY <1>2, DefaultTexts DEF BuffersOK, DenomIsDefault, Settings
<1>3. CASE s # "denom" /\ c = [b EXCEPT ![s] = file[s]]
    BY <1>3 DEF BuffersOK, DenomIsDefault, Settings
<1>4. CASE \E text \in {file[s], b["chainid"], Mixed} : c = [b EXCEPT !["chainid"] = text]
    BY <1>4 DEF BuffersOK, DenomIsDefault, Settings
<1> QED
    BY <1>1, <1>2, <1>3, <1>4, GetCases

DenomInv ==
    /\ DenomIsDefault(buffer)
    /\ tx # NoTx => tx.denom \in {Empty, DefaultText["denom"]}

\* No transaction is ever made with a denom that was saved: its text goes to the
\* buffer of the chain id, and create_transaction has the default if the file
\* is there and empty, and else none (getSetting of Linux).
THEOREM SavedDenomIsNeverUsed ==
    Spec => [](tx # NoTx => tx.denom \in {Empty, DefaultText["denom"]})
<1>1. Init => DenomInv
    BY DEF Init, DenomInv, DenomIsDefault, Settings
<1>2. Basics /\ DenomInv /\ [Next]_vars => DenomInv'
  <2> SUFFICES ASSUME Basics, DenomInv, [Next]_vars
               PROVE  DenomInv'
      OBVIOUS
  <2>0. BuffersOK(buffer) /\ FilesOK /\ DenomIsDefault(buffer)
      BY DEF Basics, TypeOK, FilesOK, DenomInv
  <2>1. CASE CreateTransaction
    <3>1. PICK b \in AfterGet(buffer, "denom") : buffer' \in AfterGet(b, "chainid")
        BY <2>1 DEF CreateTransaction
    <3>2. BuffersOK(b) /\ DenomIsDefault(b)
        BY <2>0, <3>1, GetType, GetLeavesDenom DEF Settings
    <3>3. DenomIsDefault(buffer')
        BY <2>0, <3>1, <3>2, GetLeavesDenom DEF Settings
    <3>4. tx'.denom = buffer'["denom"]
        BY <2>1 DEF CreateTransaction
    <3> QED
        BY <3>3, <3>4 DEF DenomInv, DenomIsDefault
  <2>2. ASSUME NEW s \in Settings, GetSetting(s)
        PROVE  DenomInv'
    <3>1. DenomIsDefault(buffer') /\ tx' = tx
        BY <2>0, <2>2, GetLeavesDenom DEF GetSetting
    <3> QED
        BY <3>1 DEF DenomInv, DenomIsDefault
  <2>3. ASSUME NEW s \in Settings, NEW text \in Texts \cup {Empty}, SetSetting(s, text)
        PROVE  DenomInv'
    <3>1. DenomIsDefault(buffer') /\ tx' = NoTx
        BY <2>0, <2>3 DEF SetSetting, DenomIsDefault, BuffersOK, Settings
    <3> QED
        BY <3>1 DEF DenomInv, DenomIsDefault
  <2>4. CASE Restart \/ \E s \in Settings, text \in Texts \cup {Empty} : Crash(s, text)
      BY <2>4 DEF Restart, Crash, DenomInv, DenomIsDefault, Settings
  <2>5. CASE UNCHANGED vars
      BY <2>5 DEF vars, DenomInv, DenomIsDefault
  <2> QED
      BY <2>1, <2>2, <2>3, <2>4, <2>5 DEF Next
<1>3. DenomInv => (tx # NoTx => tx.denom \in {Empty, DefaultText["denom"]})
    BY DEF DenomInv
<1> QED
    BY <1>1, <1>2, <1>3, BasicsInvariant, PTL DEF Spec

=============================================================================
