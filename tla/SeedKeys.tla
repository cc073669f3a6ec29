------------------------------- MODULE SeedKeys -------------------------------
(***************************************************************************)
(* The identity of a device: the file "seed", its copy secret_seed with    *)
(* the flag sdk_readSeed that says whether the copy may be used without    *)
(* reading the file, and the keys derived from the copy.                   *)
(* (storeSeed, readSeed, getPlntmntKeysLocal of src/rddlSDKUtils.c,        *)
(* sdkSetSeed, sdkStoreSeed, sdkReadSeed of src/rddlSDKAPI.c, rddl_writefile *)
(* and readfile of the platform.)                                          *)
(*                                                                         *)
(* Each byte of a buffer is named by the seed it is from, so that a file   *)
(* cut short, and a buffer a short file was read into, are told from a     *)
(* whole seed.                                                             *)
(***************************************************************************)
EXTENDS Integers, FiniteSets

CONSTANTS
    SeedSize, \* SEED_SIZE
    Seeds,   \* the seeds the host or the mnemonic generator comes up with
    Zero,    \* the content of secret_seed after a start
    NoKeys,  \* the key buffers before getPlntmntKeys ever ran
    Env,     \* what may go wrong, see below
    MaxNulls \* bound: how many different buffers sdkStoreSeed(NULL) stores

(***************************************************************************)
(*   "open"      open() of the seed file for writing fails                 *)
(*   "write"     write() fails, after O_TRUNC has emptied the file         *)
(*   "short"     write() is cut short, which counts as a success           *)
(*   "crash"     the process dies while the file is being written          *)
(***************************************************************************)
ASSUME SeedAssumption ==
    /\ SeedSize \in Nat \ {0}
    /\ Zero \notin Seeds
    /\ Env \subseteq {"open", "write", "short", "crash"}
    /\ MaxNulls \in Nat

VARIABLES
    seedFile,     \* what the file holds; an absent file reads like an empty one
    secret_seed,  \* the seed in memory
    sdk_readSeed, \* secret_seed is what the file holds
    keys,         \* the seed the key buffers were derived from
    pc,           \* "idle", or "write" while storeSeed has the file open
    stored,       \* history: every whole seed the file ever held
    nulled        \* history: what sdkStoreSeed(NULL) stored that no one chose

vars == <<seedFile, secret_seed, sdk_readSeed, keys, pc, stored, nulled>>

Origin   == Seeds \cup {Zero}
Seed     == [1 .. SeedSize -> Origin]
Whole(s) == [i \in 1 .. SeedSize |-> s]
Chosen   == {Whole(s) : s \in Seeds}

\* The seed file has all of a seed.
FileIsWhole == DOMAIN seedFile = 1 .. SeedSize

Init ==
    /\ seedFile = [i \in {} |-> Zero]
    /\ secret_seed = Whole(Zero)
    /\ sdk_readSeed = FALSE
    /\ keys = NoKeys
    /\ pc = "idle"
    /\ stored = {}
    /\ nulled = {}

-----------------------------------------------------------------------------
(* storeSeed: its write, then the flag, whatever became of the write.      *)

\* How much of the seed a write leaves in the file it has emptied.
WriteLengths ==
    {n \in 0 .. SeedSize :
        \/ n = SeedSize
        \/ n = 0 /\ "write" \in Env
        \/ n > 0 /\ "short" \in Env}

\* The first n bytes of the seed end up in the file.
WriteBytes(n) ==
    /\ seedFile' = [i \in 1 .. n |-> secret_seed[i]]
    /\ stored' = IF n = SeedSize THEN stored \cup {secret_seed} ELSE stored

\* Mutant: the flag is left as it was when the file cannot be opened.
OpenForStoreKeepsFlag(s) ==
    /\ pc = "idle"
    /\ secret_seed' = s
    /\ \/ seedFile' = [i \in {} |-> Zero] /\ pc' = "write"
       \/ "open" \in Env /\ UNCHANGED <<seedFile, pc>>
    /\ UNCHANGED <<sdk_readSeed, keys, stored>>

\* storeSeed with s in secret_seed, up to the open() of rddl_writefile.
OpenForStore(s) ==
    /\ pc = "idle"
    /\ secret_seed' = s
    /\ \/ /\ seedFile' = [i \in {} |-> Zero]
          /\ pc' = "write"
          /\ UNCHANGED sdk_readSeed
       \/ /\ "open" \in Env
          /\ sdk_readSeed' = FALSE
          /\ UNCHANGED <<seedFile, pc>>
    /\ UNCHANGED <<keys, stored>>

\* sdkSetSeed, and sdkStoreSeed with a new seed.
StoreNewSeed(s) ==
    /\ OpenForStore(Whole(s))
    /\ UNCHANGED nulled

\* sdkStoreSeed(NULL): whatever is in memory, the zeros of a start and a buffer
\* half overwritten by readSeed included.
StoreNull ==
    /\ OpenForStore(secret_seed)
    /\ nulled' = nulled \cup ({secret_seed} \ Chosen)
    /\ Cardinality(nulled') <= MaxNulls

\* Mutant: the flag is left as it was after the write.
WriteSeedKeepsFlag ==
    /\ pc = "write"
    /\ pc' = "idle"
    /\ \E n \in WriteLengths : WriteBytes(n)
    /\ UNCHANGED <<secret_seed, sdk_readSeed, keys, nulled>>

WriteSeed ==
    /\ pc = "write"
    /\ pc' = "idle"
    /\ sdk_readSeed' = FALSE
    /\ \E n \in WriteLengths : WriteBytes(n)
    /\ UNCHANGED <<secret_seed, keys, nulled>>

-----------------------------------------------------------------------------
(* The process being started again.                                        *)

ForgetMemory ==
    /\ secret_seed' = Whole(Zero)
    /\ sdk_readSeed' = FALSE
    /\ keys' = NoKeys

Restart ==
    /\ pc = "idle"
    /\ ForgetMemory
    /\ UNCHANGED <<seedFile, pc, stored, nulled>>

\* The file keeps what had been written so far.
Crash ==
    /\ "crash" \in Env
    /\ pc = "write"
    /\ pc' = "idle"
    /\ \E n \in 0 .. SeedSize : WriteBytes(n)
    /\ ForgetMemory
    /\ UNCHANGED nulled

-----------------------------------------------------------------------------
(* readSeed, and what is built on it.                                      *)

\* Mutant: any content is taken for a seed.
SeedReadUnchecked == sdk_readSeed \/ DOMAIN seedFile # {}

\* readSeed returns secret_seed rather than NULL.
SeedRead == sdk_readSeed \/ FileIsWhole

\* Mutant: the buffer is cleared before it is read into.
ReadIntoCleared ==
    IF sdk_readSeed THEN secret_seed ELSE seedFile

\* readfile overwrites as much of secret_seed as the file has.
SeedAfterRead ==
    IF sdk_readSeed THEN secret_seed
    ELSE [i \in 1 .. SeedSize |->
             IF i \in DOMAIN seedFile THEN seedFile[i] ELSE secret_seed[i]]

\* readSeed as a step: sdkReadSeed, signRDDLNetworkMessageContent.  One whose
\* readfile fails changes nothing.
ReadSeed ==
    /\ pc = "idle"
    /\ secret_seed' = SeedAfterRead
    /\ sdk_readSeed' = SeedRead
    /\ UNCHANGED <<seedFile, keys, pc, stored, nulled>>

\* getPlntmntKeysLocal, the first thing an attestation, a notarization, a
\* redeem claim and amIChallenger do; they go no further when it returns false.
GetPlntmntKeysLocal ==
    /\ pc = "idle"
    /\ secret_seed' = SeedAfterRead
    /\ sdk_readSeed' = SeedRead
    /\ keys' = IF SeedRead THEN secret_seed' ELSE keys
    /\ UNCHANGED <<seedFile, pc, stored, nulled>>

Next ==
    \/ \E s \in Seeds : StoreNewSeed(s)
    \/ StoreNull
    \/ WriteSeed
    \/ Restart
    \/ Crash
    \/ ReadSeed
    \/ GetPlntmntKeysLocal

Spec == Init /\ [][Next]_vars

-----------------------------------------------------------------------------
(* Properties.                                                             *)

TypeOK ==
    /\ \E n \in 0 .. SeedSize : seedFile \in [1 .. n -> Origin]
    /\ secret_seed \in Seed
    /\ sdk_readSeed \in BOOLEAN
    /\ keys \in Seed \cup {NoKeys}
    /\ pc \in {"idle", "write"}
    /\ stored \subseteq Seed
    /\ nulled \subseteq Seed

\* While sdk_readSeed lets readSeed skip the file, reading it would change
\* nothing: failed stores, short files and restarts included.
CacheCoherent == pc = "idle" /\ sdk_readSeed => secret_seed = seedFile

\* New keys are those of the seed in the file: the identity the network gets
\* to see is the one a restart comes back with, never one that only ever was
\* in memory because its store failed.
KeysFromFile == [][keys' \notin {keys, NoKeys} => keys' = seedFile']_vars

\* The keys in memory, however old, are those of a seed that once was stored.
IdentityWasStored == keys = NoKeys \/ keys \in stored

\* No store that fails, is cut short or dies makes an identity of its own, nor
\* does the buffer a short file was read into: keys are those of a seed someone
\* chose, or of what memory held when the host itself had it stored with
\* sdkStoreSeed(NULL), be it zeros or a mixture.
NoForeignIdentity == keys = NoKeys \/ keys \in Chosen \cup nulled

\* docs/RDDL_SDK.odt on sdkStoreSeed(NULL): it writes the seed produced by
\* sdkSetSeed.  So a whole file is a whole seed someone chose.
FileHoldsChosenSeed == FileIsWhole => seedFile \in Chosen

=============================================================================
