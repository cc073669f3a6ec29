---------------------------- MODULE SeedKeysProofs ----------------------------
(***************************************************************************)
(* Theorems about SeedKeys, for every set of seeds and every environment.  *)
(***************************************************************************)
EXTENDS SeedKeys, TLAPS

-----------------------------------------------------------------------------
(* Reading and writing.                                                    *)

\* The file O_TRUNC leaves.
LEMMA EmptyFile ==
    ASSUME NEW f, f = [i \in {} |-> Zero]
    PROVE  /\ \E n \in 0 .. SeedSize : f \in [1 .. n -> Origin]
           /\ DOMAIN f # 1 .. SeedSize
<1>1. 1 .. 0 = {} /\ 0 \in 0 .. SeedSize /\ 1 \in 1 .. SeedSize
    BY SeedAssumption
<1>2. f \in [1 .. 0 -> Origin] /\ DOMAIN f = {}
    BY <1>1
<1> QED BY <1>1, <1>2

\* readSeed leaves a seed in memory; a whole file, that of the file.
LEMMA ReadType ==
    ASSUME TypeOK
    PROVE  /\ SeedAfterRead \in Seed
           /\ FileIsWhole => seedFile \in Seed
           /\ ~sdk_readSeed /\ FileIsWhole => SeedAfterRead = seedFile
<1>1. PICK n \in 0 .. SeedSize : seedFile \in [1 .. n -> Origin]
    BY DEF TypeOK
<1>2. SeedAfterRead \in Seed
    BY <1>1, SeedAssumption DEF TypeOK, SeedAfterRead, Seed
<1>3. FileIsWhole => seedFile \in Seed
    BY <1>1 DEF FileIsWhole, Seed
<1>4. ASSUME ~sdk_readSeed, FileIsWhole PROVE SeedAfterRead = seedFile
    BY <1>3, <1>4 DEF SeedAfterRead, FileIsWhole, Seed
<1> QED BY <1>2, <1>3, <1>4

\* What a write leaves in the file.
LEMMA WriteType ==
    ASSUME TypeOK, NEW n \in 0 .. SeedSize, WriteBytes(n)
    PROVE  /\ \E k \in 0 .. SeedSize : seedFile' \in [1 .. k -> Origin]
           /\ FileIsWhole' => seedFile' = secret_seed /\ n = SeedSize
<1>1. seedFile' \in [1 .. n -> Origin]
    BY SeedAssumption DEF TypeOK, WriteBytes, Seed
<1>2. ASSUME FileIsWhole' PROVE n = SeedSize
  <2>1. 1 .. n = 1 .. SeedSize
      BY <1>2 DEF FileIsWhole, WriteBytes
  <2>2. SeedSize \in 1 .. n
      BY <2>1, SeedAssumption
  <2> QED BY <2>2, SeedAssumption
<1>3. ASSUME n = SeedSize PROVE seedFile' = secret_seed
    BY <1>3 DEF TypeOK, WriteBytes, Seed
<1> QED BY <1>1, <1>2, <1>3

-----------------------------------------------------------------------------
(* The inductive invariant: the flag tells the truth between calls, and a  *)
(* whole file has been recorded, so that keys read from it have been too.  *)

FileIsStored == FileIsWhole => seedFile \in stored

Inv ==
    /\ TypeOK
    /\ CacheCoherent
    /\ FileIsStored
    /\ IdentityWasStored

LEMMA StoreStep ==
    ASSUME Inv, NEW s \in Seed, OpenForStore(s), nulled' \subseteq Seed
    PROVE  Inv'
<1> USE DEF Inv, OpenForStore
<1>1. TypeOK'
  <2>1. \E n \in 0 .. SeedSize : seedFile' \in [1 .. n -> Origin]
    <3>1. CASE seedFile' = [i \in {} |-> Zero]
        BY <3>1, EmptyFile
    <3>2. CASE UNCHANGED seedFile
        BY <3>2 DEF TypeOK
    <3> QED BY <3>1, <3>2
  <2> QED BY <2>1 DEF TypeOK
<1>2. CacheCoherent'
    BY DEF CacheCoherent
<1>3. FileIsStored'
  <2>1. CASE seedFile' = [i \in {} |-> Zero]
      BY <2>1, EmptyFile DEF FileIsStored, FileIsWhole
  <2>2. CASE UNCHANGED seedFile
      BY <2>2 DEF FileIsStored, FileIsWhole
  <2> QED BY <2>1, <2>2
<1>4. IdentityWasStored'
    BY DEF IdentityWasStored
<1> QED BY <1>1, <1>2, <1>3, <1>4

LEMMA WriteStep ==
    ASSUME Inv, NEW n \in 0 .. SeedSize, WriteBytes(n),
           sdk_readSeed' = FALSE, pc' = "idle",
           secret_seed' \in Seed, keys' \in {keys, NoKeys}, nulled' = nulled
    PROVE  Inv'
<1>1. TypeOK'
    BY WriteType DEF Inv, TypeOK, WriteBytes
<1>2. CacheCoherent'
    BY DEF CacheCoherent
<1>3. FileIsStored'
    BY WriteType DEF Inv, FileIsStored, WriteBytes
<1>4. IdentityWasStored'
    BY DEF Inv, IdentityWasStored, WriteBytes
<1> QED BY <1>1, <1>2, <1>3, <1>4 DEF Inv

\* What readSeed returns is the seed in the file, flag or no flag.
LEMMA ReadReturnsFile ==
    ASSUME Inv, pc = "idle", SeedRead
    PROVE  SeedAfterRead = seedFile /\ seedFile \in stored /\ seedFile \in Seed
<1>1. CASE sdk_readSeed
  <2>1. SeedAfterRead = seedFile
      BY <1>1 DEF Inv, CacheCoherent, SeedAfterRead
  <2>2. seedFile \in Seed
      BY <1>1 DEF Inv, CacheCoherent, TypeOK
  <2>3. FileIsWhole
      BY <2>2 DEF Seed, FileIsWhole
  <2> QED BY <2>1, <2>2, <2>3 DEF Inv, FileIsStored
<1>2. CASE ~sdk_readSeed
    BY <1>2, ReadType DEF Inv, SeedRead, FileIsStored
<1> QED BY <1>1, <1>2

LEMMA ReadStep ==
    ASSUME Inv, ReadSeed \/ GetPlntmntKeysLocal
    PROVE  Inv'
<1>1. /\ pc = "idle" /\ pc' = pc
      /\ secret_seed' = SeedAfterRead /\ sdk_readSeed' = SeedRead
      /\ UNCHANGED <<seedFile, stored, nulled>>
      /\ keys' = keys \/ (SeedRead /\ keys' = secret_seed')
    BY DEF ReadSeed, GetPlntmntKeysLocal
<1>2. SeedRead \in BOOLEAN
    BY DEF Inv, TypeOK, SeedRead
<1>3. TypeOK'
    BY <1>1, <1>2, ReadType DEF Inv, TypeOK
<1>4. CacheCoherent'
    BY <1>1, ReadReturnsFile DEF CacheCoherent
<1>5. FileIsStored'
    BY <1>1 DEF Inv, FileIsStored, FileIsWhole
<1>6. IdentityWasStored'
    BY <1>1, ReadReturnsFile DEF Inv, IdentityWasStored
<1> QED BY <1>3, <1>4, <1>5, <1>6 DEF Inv

LEMMA InvStep == Inv /\ [Next]_vars => Inv'
<1> SUFFICES ASSUME Inv, [Next]_vars PROVE Inv'
    OBVIOUS
<1>0. Whole(Zero) \in Seed /\ \A s \in Seeds : Whole(s) \in Seed
    BY DEF Whole, Seed, Origin
<1>1. ASSUME NEW s \in Seeds, StoreNewSeed(s) PROVE Inv'
    BY <1>0, <1>1, StoreStep DEF StoreNewSeed, Inv, TypeOK
<1>2. CASE StoreNull
    BY <1>2, StoreStep DEF StoreNull, Inv, TypeOK
<1>3. CASE WriteSeed
  <2>1. PICK n \in WriteLengths : WriteBytes(n)
      BY <1>3 DEF WriteSeed
  <2>2. n \in 0 .. SeedSize
      BY DEF WriteLengths
  <2>3. secret_seed' \in Seed
      BY <1>3 DEF WriteSeed, Inv, TypeOK
  <2> QED BY <1>3, <2>1, <2>2, <2>3, WriteStep DEF WriteSeed
<1>4. CASE Restart
  <2>1. TypeOK'
      BY <1>0, <1>4 DEF Restart, ForgetMemory, Inv, TypeOK
  <2> QED BY <1>4, <2>1 DEF Restart, ForgetMemory, Inv, CacheCoherent,
                            FileIsStored, FileIsWhole, IdentityWasStored
<1>5. CASE Crash
    BY <1>0, <1>5, WriteStep DEF Crash, ForgetMemory
<1>6. CASE ReadSeed
    BY <1>6, ReadStep
<1>7. CASE GetPlntmntKeysLocal
    BY <1>7, ReadStep
<1>8. CASE UNCHANGED vars
    BY <1>8 DEF vars, Inv, TypeOK, CacheCoherent, FileIsStored, FileIsWhole,
                IdentityWasStored
<1> QED BY <1>1, <1>2, <1>3, <1>4, <1>5, <1>6, <1>7, <1>8 DEF Next

LEMMA Invariant == Spec => []Inv
<1>1. Init => Inv
  <2> SUFFICES ASSUME Init PROVE Inv
      OBVIOUS
  <2>1. TypeOK
      BY EmptyFile DEF Init, TypeOK, Whole, Seed, Origin
  <2>2. ~FileIsWhole
      BY EmptyFile DEF Init, FileIsWhole
  <2> QED BY <2>1, <2>2 DEF Init, Inv, CacheCoherent, FileIsStored, IdentityWasStored
<1> QED BY <1>1, InvStep, PTL DEF Spec

\* The seed file never holds more than a seed, whatever is left of it, and the
\* memory copy and the keys are those of whole seeds.
THEOREM TypeCorrect == Spec => []TypeOK
<1>1. Inv => TypeOK
    BY DEF Inv
<1> QED BY <1>1, Invariant, PTL

\* The flag sdk_readSeed never vouches for a memory copy that differs from the
\* seed file, whatever stores fail, are cut short or are never finished.
THEOREM CacheCoherentHolds == Spec => []CacheCoherent
<1>1. Inv => CacheCoherent
    BY DEF Inv
<1> QED BY <1>1, Invariant, PTL

\* Keys in use are always those of a seed the file once held whole.
THEOREM IdentityWasStoredHolds == Spec => []IdentityWasStored
<1>1. Inv => IdentityWasStored
    BY DEF Inv
<1> QED BY <1>1, Invariant, PTL

\* New keys are those of the seed the file holds at that moment.
THEOREM KeysFromFileHolds == Spec => KeysFromFile
<1>1. Inv /\ [Next]_vars => [keys' \notin {keys, NoKeys} => keys' = seedFile']_vars
  <2> SUFFICES ASSUME Inv, [Next]_vars, keys' \notin {keys, NoKeys}
               PROVE  keys' = seedFile'
      OBVIOUS
  <2>1. GetPlntmntKeysLocal
      BY DEF Next, vars, StoreNewSeed, StoreNull, OpenForStore, WriteSeed,
             Restart, Crash, ForgetMemory, ReadSeed
  <2> QED BY <2>1, ReadReturnsFile DEF GetPlntmntKeysLocal
<1> QED BY <1>1, Invariant, PTL DEF Spec, KeysFromFile

-----------------------------------------------------------------------------
(* What is on its way to the file was chosen, or was in memory when the    *)
(* host had memory stored.                                                 *)

Intended == Chosen \cup nulled

IntendedInv ==
    /\ pc = "write" => secret_seed \in Intended
    /\ stored \subseteq Intended

LEMMA IntendedStep ==
    ASSUME TypeOK, IntendedInv, [Next]_vars
    PROVE  IntendedInv'
<1> USE DEF IntendedInv, Intended, Chosen
<1>1. ASSUME NEW s \in Seeds, StoreNewSeed(s) PROVE IntendedInv'
    BY <1>1 DEF StoreNewSeed, OpenForStore, TypeOK
<1>2. CASE StoreNull
    BY <1>2 DEF StoreNull, OpenForStore, TypeOK
<1>3. CASE WriteSeed
    BY <1>3 DEF WriteSeed, WriteBytes
<1>4. CASE Restart
    BY <1>4 DEF Restart
<1>5. CASE Crash
    BY <1>5 DEF Crash, WriteBytes
<1>6. CASE ReadSeed
    BY <1>6 DEF ReadSeed
<1>7. CASE GetPlntmntKeysLocal
    BY <1>7 DEF GetPlntmntKeysLocal
<1>8. CASE UNCHANGED vars
    BY <1>8 DEF vars
<1> QED BY <1>1, <1>2, <1>3, <1>4, <1>5, <1>6, <1>7, <1>8 DEF Next

LEMMA IntendedInvariant == Spec => []IntendedInv
<1>1. Init => IntendedInv
    BY DEF Init, IntendedInv
<1>2. Inv /\ IntendedInv /\ [Next]_vars => IntendedInv'
    BY IntendedStep DEF Inv
<1> QED BY <1>1, <1>2, Invariant, PTL DEF Spec

\* Whatever stores fail or are cut short, keys are those of a seed someone
\* chose or of what memory held when the host called sdkStoreSeed(NULL).
THEOREM NoForeignIdentityHolds == Spec => []NoForeignIdentity
<1>1. Inv /\ IntendedInv => NoForeignIdentity
    BY DEF Inv, IntendedInv, Intended, IdentityWasStored, NoForeignIdentity
<1> QED BY <1>1, Invariant, IntendedInvariant, PTL

\* What the documentation says of sdkStoreSeed, that the file gets a seed that
\* was set, holds of a host as long as no sdkStoreSeed(NULL) of its finds
\* anything but a whole chosen seed in memory, whatever its stores come to.
THEOREM FileHoldsChosenSeedHolds == Spec => [](nulled = {} => FileHoldsChosenSeed)
<1>1. Inv /\ IntendedInv => (nulled = {} => FileHoldsChosenSeed)
    BY DEF Inv, IntendedInv, Intended, FileIsStored, FileHoldsChosenSeed
<1> QED BY <1>1, Invariant, IntendedInvariant, PTL

=============================================================================
