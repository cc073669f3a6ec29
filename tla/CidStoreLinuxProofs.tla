------------------------- MODULE CidStoreLinuxProofs -------------------------
(***************************************************************************)
(* Theorems about CidStoreLinux, for every capacity, set of contents,      *)
(* clock and word size.                                                    *)
(***************************************************************************)
EXTENDS CidStoreLinux, FiniteSetTheorems, TLAPS

LEMMA DirCardinality == TypeOK => Cardinality(dir) \in Nat
BY FS_CardinalityType DEF TypeOK

LEMMA CountType ==
    ASSUME TypeOK
    PROVE  CountAfterStore \subseteq 0 .. Word - 1
BY DirCardinality, CidStoreAssumption
   DEF CountAfterStore, DirCount, TypeOK

\* One entry more, or one fewer.
LEMMA AddEntry ==
    ASSUME TypeOK, NEW f \in File
    PROVE  /\ IsFiniteSet(dir \cup {f})
           /\ Cardinality(dir \cup {f}) =
                  IF f \in dir THEN Cardinality(dir) ELSE Cardinality(dir) + 1
BY FS_AddElement DEF TypeOK

LEMMA RemoveEntry ==
    ASSUME TypeOK, NEW f \in dir
    PROVE  /\ IsFiniteSet(dir \ {f})
           /\ Cardinality(dir \ {f}) = Cardinality(dir) - 1
BY FS_RemoveElement DEF TypeOK

\* The periodicity file replaces itself: at most one entry more.
LEMMA ReplaceEntry ==
    ASSUME TypeOK, NEW f \in File, NEW old \in SUBSET dir
    PROVE  /\ IsFiniteSet((dir \ old) \cup {f})
           /\ old = {} => Cardinality((dir \ old) \cup {f}) <= Cardinality(dir) + 1
           /\ old # {} => Cardinality((dir \ old) \cup {f}) <= Cardinality(dir)
<1> DEFINE rest == dir \ old
<1>1. IsFiniteSet(rest) /\ Cardinality(rest) <= Cardinality(dir)
    BY FS_Subset DEF TypeOK
<1>2. Cardinality(dir) \in Nat /\ Cardinality(rest) \in Nat
    BY <1>1, FS_CardinalityType DEF TypeOK
<1>3. /\ IsFiniteSet(rest \cup {f})
      /\ Cardinality(rest \cup {f}) <= Cardinality(rest) + 1
  <2>1. /\ IsFiniteSet(rest \cup {f})
        /\ Cardinality(rest \cup {f}) =
               IF f \in rest THEN Cardinality(rest) ELSE Cardinality(rest) + 1
      BY <1>1, FS_AddElement
  <2> HIDE DEF rest
  <2> QED BY <1>2, <2>1
<1>4. IsFiniteSet(dir) /\ rest \in SUBSET dir
    BY DEF TypeOK
<1>5. old # {} => Cardinality(rest) # Cardinality(dir)
    BY <1>4, FS_Subset
<1>6. Cardinality(rest \cup {f}) \in Nat
    BY <1>3, FS_CardinalityType
<1> QED BY <1>1, <1>2, <1>3, <1>5, <1>6

-----------------------------------------------------------------------------
(* Types.                                                                  *)

LEMMA TypeStep == TypeOK /\ [Next]_vars => TypeOK'
<1> SUFFICES ASSUME TypeOK, [Next]_vars PROVE TypeOK'
    OBVIOUS
<1> USE CidStoreAssumption DEF TypeOK, Times, Names
<1>1. CASE Tick
    BY <1>1 DEF Tick
<1>2. CASE SetClockBack
    BY <1>2 DEF SetClockBack
<1>3. CASE Restart
    BY <1>3 DEF Restart
<1>4. CASE Crash
    BY <1>4 DEF Crash
<1>5. ASSUME NEW c \in Cids, StoreCid(c) PROVE TypeOK'
  <2>1. [name |-> c, mtime |-> now] \in File
      BY DEF File
  <2> QED BY <1>5, <2>1, AddEntry DEF StoreCid
<1>6. CASE StoreFails
    BY <1>6 DEF StoreFails
<1>7. CASE SetPeriodicity
  <2> DEFINE f   == [name |-> Periodicity, mtime |-> now]
             old == {g \in dir : g.name = Periodicity}
  <2>1. f \in File
      BY DEF File
  <2>2. /\ dir' = (dir \ old) \cup {f}
        /\ created' = created \cup {f}
        /\ slips' \in {slips, slips + 1}
        /\ UNCHANGED <<env, num_of_cid_files, now, pc>>
      BY <1>7 DEF SetPeriodicity
  <2>3. old \in SUBSET dir
      OBVIOUS
  <2> HIDE DEF f, old
  <2>4. IsFiniteSet(dir')
      BY <2>1, <2>2, <2>3, ReplaceEntry
  <2> QED BY <2>1, <2>2, <2>4
<1>8. CASE CheckNumOfCIDFiles
  <2> PICK n \in CountAfterStore : HasRoom(n) \/ DeleteOldest(n) \/ DeleteFails(n)
      BY <1>8 DEF CheckNumOfCIDFiles
  <2>1. n \in 0 .. Word - 1
      BY CountType
  <2>2. CASE HasRoom(n)
      BY <1>8, <2>1, <2>2 DEF HasRoom, CheckNumOfCIDFiles
  <2>3. CASE DeleteOldest(n)
    <3>1. PICK f \in dir : dir' = dir \ {f}
        BY <2>3 DEF DeleteOldest, Oldest
    <3> QED BY <1>8, <2>1, <2>3, <3>1, RemoveEntry
            DEF DeleteOldest, CheckNumOfCIDFiles
  <2>4. CASE DeleteFails(n)
      BY <1>8, <2>1, <2>4 DEF DeleteFails, CheckNumOfCIDFiles
  <2> QED BY <2>2, <2>3, <2>4
<1>9. CASE UNCHANGED vars
    BY <1>9 DEF vars
<1> QED BY <1>1, <1>2, <1>3, <1>4, <1>5, <1>6, <1>7, <1>8, <1>9 DEF Next

\* The store's variables keep their types: the cached count stays a uint32_t,
\* whatever its arithmetic does, and the directory stays finite.
THEOREM TypeCorrect == Spec => []TypeOK
<1>1. Init => TypeOK
    BY FS_EmptySet, CidStoreAssumption DEF Init, TypeOK, Times
<1> QED BY <1>1, TypeStep, PTL DEF Spec

-----------------------------------------------------------------------------
(* How far the disk may outgrow the limit.                                 *)

OverrunInv ==
    CountIsReal =>
        /\ BoundedOverrun
        /\ num_of_cid_files <= Capacity - 1 + slips
        /\ num_of_cid_files # 0 =>
               Cardinality(dir) <= num_of_cid_files + Pending + Missed

LEMMA OverrunCheck ==
    ASSUME TypeOK, OverrunInv, CheckNumOfCIDFiles
    PROVE  OverrunInv'
<1> SUFFICES ASSUME CountIsReal' PROVE OverrunInv'
    BY DEF OverrunInv
<1> DEFINE size == Cardinality(dir)
<1>1. /\ Capacity \in Nat \ {0} /\ Word \in Nat
      /\ slips \in Nat /\ num_of_cid_files \in Nat
      /\ size \in Nat
    BY CidStoreAssumption, DirCardinality DEF TypeOK
<1> PICK n \in CountAfterStore : HasRoom(n) \/ DeleteOldest(n) \/ DeleteFails(n)
    BY DEF CheckNumOfCIDFiles
<1>2. /\ pc = "check" /\ pc' = "idle" /\ env' = env
      /\ slips' \in {slips, slips + 1}
    BY <1>1 DEF CheckNumOfCIDFiles, HasRoom, DeleteOldest, DeleteFails
<1>3. /\ CountIsReal
      /\ Pending = 1 /\ Pending' = 0
  <2>1. CountIsReal
    <3>1. CASE slips' = slips
        BY <3>1, <1>2 DEF CountIsReal
    <3>2. CASE slips' = slips + 1
        BY <3>2, <1>1, <1>2 DEF CountIsReal
    <3> QED BY <1>2, <3>1, <3>2
  <2>2. Pending = 1 /\ Pending' = 0
      BY <1>2 DEF Pending
  <2> QED BY <2>1, <2>2
<1>4. /\ size <= Capacity + slips
      /\ num_of_cid_files <= Capacity - 1 + slips
      /\ num_of_cid_files # 0 => size <= num_of_cid_files + 1 + Missed
    BY <1>1, <1>3 DEF OverrunInv, BoundedOverrun
<1> "opendir" \notin env
    BY <1>3 DEF CountIsReal
<1>5. size % Word = size /\ (num_of_cid_files + 1) % Word = num_of_cid_files + 1
    BY <1>1, <1>3, <1>4 DEF CountIsReal
<1>6. n \in Nat /\ n <= Capacity + slips /\ size <= n + Missed
    BY <1>1, <1>4, <1>5 DEF CountAfterStore, DirCount, Missed
<1>7. CASE HasRoom(n)
    BY <1>1, <1>2, <1>3, <1>6, <1>7
       DEF HasRoom, OverrunInv, BoundedOverrun, Missed, CountIsReal
<1>8. CASE DeleteOldest(n)
  <2>1. PICK f \in dir : dir' = dir \ {f}
      BY <1>8 DEF DeleteOldest, Oldest
  <2>2. Cardinality(dir') = size - 1
      BY <2>1, RemoveEntry
  <2> QED BY <1>1, <1>2, <1>3, <1>4, <1>6, <1>8, <2>2
          DEF DeleteOldest, OverrunInv, BoundedOverrun, Missed, CountIsReal
<1>9. CASE DeleteFails(n)
    BY <1>1, <1>2, <1>3, <1>4, <1>6, <1>9
       DEF DeleteFails, OverrunInv, BoundedOverrun, Missed, CountIsReal
<1> QED BY <1>7, <1>8, <1>9

LEMMA OverrunStep ==
    ASSUME TypeOK, OverrunInv, [Next]_vars
    PROVE  OverrunInv'
<1> USE CidStoreAssumption, DirCardinality
        DEF TypeOK, OverrunInv, BoundedOverrun, CountIsReal, Pending, Missed
<1>1. CASE Tick
    BY <1>1 DEF Tick
<1>2. CASE SetClockBack
    BY <1>2 DEF SetClockBack
<1>3. CASE Restart
    BY <1>3 DEF Restart
<1>4. CASE Crash
    BY <1>4 DEF Crash
<1>5. ASSUME NEW c \in Cids, StoreCid(c) PROVE OverrunInv'
  <2> DEFINE f == [name |-> c, mtime |-> now]
  <2>1. f \in File
      BY DEF File, Names
  <2>2. /\ dir' = dir \cup {f} /\ pc = "idle" /\ pc' = "check"
        /\ UNCHANGED <<env, num_of_cid_files, slips>>
      BY <1>5 DEF StoreCid
  <2>3. Cardinality(dir') =
            IF f \in dir THEN Cardinality(dir) ELSE Cardinality(dir) + 1
      BY <2>1, <2>2, AddEntry
  <2> HIDE DEF f
  <2> QED BY <2>2, <2>3
<1>6. CASE StoreFails
    BY <1>6 DEF StoreFails
<1>7. CASE SetPeriodicity
  <2> DEFINE f   == [name |-> Periodicity, mtime |-> now]
             old == {g \in dir : g.name = Periodicity}
  <2>1. f \in File
      BY DEF File, Names
  <2>2. /\ "settings" \in env
        /\ dir' = (dir \ old) \cup {f}
        /\ slips' = IF old = {} THEN slips + 1 ELSE slips
        /\ UNCHANGED <<env, num_of_cid_files, pc>>
      BY <1>7 DEF SetPeriodicity
  <2>3. old \in SUBSET dir
      OBVIOUS
  <2> HIDE DEF f, old
  <2>4. /\ IsFiniteSet(dir')
        /\ old = {} => Cardinality(dir') <= Cardinality(dir) + 1
        /\ old # {} => Cardinality(dir') <= Cardinality(dir)
      BY <2>1, <2>2, <2>3, ReplaceEntry
  <2>5. Cardinality(dir') \in Nat /\ slips' \in {slips, slips + 1}
      BY <2>2, <2>4, FS_CardinalityType
  <2>6. CASE old = {}
      BY <2>2, <2>4, <2>5, <2>6
  <2>7. CASE old # {}
      BY <2>2, <2>4, <2>5, <2>7
  <2> QED BY <2>6, <2>7
<1>8. CASE CheckNumOfCIDFiles
    BY <1>8, OverrunCheck
<1>9. CASE UNCHANGED vars
    BY <1>9 DEF vars
<1> QED BY <1>1, <1>2, <1>3, <1>4, <1>5, <1>6, <1>7, <1>8, <1>9 DEF Next

LEMMA OverrunInvariant == Spec => [](TypeOK /\ OverrunInv)
<1>1. Init => TypeOK /\ OverrunInv
    BY FS_EmptySet, CidStoreAssumption
       DEF Init, TypeOK, Times, OverrunInv, BoundedOverrun, Pending
<1>2. TypeOK /\ OverrunInv /\ [Next]_vars => (TypeOK /\ OverrunInv)'
    BY TypeStep, OverrunStep
<1> QED BY <1>1, <1>2, PTL DEF Spec

\* While opendir() works, each event that leaves a file behind (a crash inside
\* the window, a failed removal, a setting file) costs one file over the limit
\* and no sequence of them costs more.
THEOREM BoundedOverrunHolds == Spec => []BoundedOverrun
<1>1. OverrunInv => BoundedOverrun
    BY DEF OverrunInv, BoundedOverrun
<1> QED BY <1>1, OverrunInvariant, PTL

\* Failed opens, rewrites, failed removals, crashes and restarts never make the
\* cached count fall behind the disk, setting files only by their own number.
THEOREM NeverUndercountsHolds == Spec => []NeverUndercounts
<1>1. TypeOK /\ OverrunInv => NeverUndercounts
    BY DirCardinality
       DEF TypeOK, OverrunInv, NeverUndercounts, Missed, Pending
<1> QED BY <1>1, OverrunInvariant, PTL

-----------------------------------------------------------------------------
(* The cached count is exact, and removals are justified, as long as every *)
(* call of the workflow adds a file.                                       *)

NeverOvercounts ==
    EveryStoreAddsAFile => num_of_cid_files + Pending <= Cardinality(dir)

LEMMA CountIsOnDisk ==
    ASSUME TypeOK, NeverOvercounts, EveryStoreAddsAFile, pc = "check",
           NEW n \in CountAfterStore
    PROVE  n \in Nat /\ n <= Cardinality(dir)
<1> DEFINE size == Cardinality(dir)
<1>1. size \in Nat /\ num_of_cid_files \in Nat /\ Word \in Nat \ {0}
    BY CidStoreAssumption, DirCardinality DEF TypeOK
<1>2. num_of_cid_files + 1 <= size
    BY DEF NeverOvercounts, Pending
<1>3. n \in {size % Word, (num_of_cid_files + 1) % Word}
    BY DEF CountAfterStore, DirCount, EveryStoreAddsAFile
<1>4. \A k \in Nat : k % Word \in Nat /\ k % Word <= k
    BY <1>1
<1> QED BY <1>1, <1>2, <1>3, <1>4

LEMMA EnvFixed == [Next]_vars => env' = env
BY DEF Next, vars, Tick, SetClockBack, Restart, Crash, StoreCid, StoreFails,
       SetPeriodicity, CheckNumOfCIDFiles

LEMMA NeverOvercountsStep ==
    ASSUME TypeOK, NeverOvercounts, [Next]_vars
    PROVE  NeverOvercounts'
<1> SUFFICES ASSUME EveryStoreAddsAFile PROVE NeverOvercounts'
    BY EnvFixed DEF NeverOvercounts, EveryStoreAddsAFile
<1> USE CidStoreAssumption, DirCardinality DEF TypeOK, NeverOvercounts, Pending
<1>1. CASE Tick
    BY <1>1 DEF Tick
<1>2. CASE SetClockBack
    BY <1>2 DEF SetClockBack
<1>3. CASE Restart
    BY <1>3 DEF Restart
<1>4. CASE Crash
    BY <1>4 DEF Crash
<1>5. ASSUME NEW c \in Cids, StoreCid(c) PROVE NeverOvercounts'
  <2> DEFINE f == [name |-> c, mtime |-> now]
  <2>1. f \in File
      BY DEF File, Names
  <2>2. /\ dir' = dir \cup {f} /\ f \notin dir
        /\ pc = "idle" /\ pc' = "check"
        /\ UNCHANGED num_of_cid_files
      BY <1>5 DEF StoreCid, EveryStoreAddsAFile
  <2>3. Cardinality(dir') = Cardinality(dir) + 1
      BY <2>1, <2>2, AddEntry
  <2> HIDE DEF f
  <2> QED BY <2>2, <2>3
<1>6. CASE StoreFails
    BY <1>6 DEF StoreFails, EveryStoreAddsAFile
<1>7. CASE SetPeriodicity
    BY <1>7 DEF SetPeriodicity, EveryStoreAddsAFile
<1>8. CASE CheckNumOfCIDFiles
  <2> PICK n \in CountAfterStore : HasRoom(n) \/ DeleteOldest(n) \/ DeleteFails(n)
      BY <1>8 DEF CheckNumOfCIDFiles
  <2>1. pc = "check" /\ pc' = "idle"
      BY <1>8 DEF CheckNumOfCIDFiles
  <2>2. n \in Nat /\ n <= Cardinality(dir)
      BY <2>1, CountIsOnDisk
  <2>3. CASE HasRoom(n)
      BY <2>1, <2>2, <2>3 DEF HasRoom
  <2>4. CASE DeleteOldest(n)
    <3>1. PICK f \in dir : dir' = dir \ {f}
        BY <2>4 DEF DeleteOldest, Oldest
    <3>2. Cardinality(dir') = Cardinality(dir) - 1
        BY <3>1, RemoveEntry
    <3> QED BY <2>1, <2>2, <2>4, <3>2 DEF DeleteOldest
  <2>5. CASE DeleteFails(n)
      BY <2>1, <2>2, <2>5 DEF DeleteFails
  <2> QED BY <2>3, <2>4, <2>5
<1>9. CASE UNCHANGED vars
    BY <1>9 DEF vars
<1> QED BY <1>1, <1>2, <1>3, <1>4, <1>5, <1>6, <1>7, <1>8, <1>9 DEF Next

LEMMA ExactInvariant == Spec => [](TypeOK /\ NeverOvercounts)
<1>1. Init => TypeOK /\ NeverOvercounts
    BY FS_EmptySet, CidStoreAssumption
       DEF Init, TypeOK, Times, NeverOvercounts, Pending
<1>2. TypeOK /\ NeverOvercounts /\ [Next]_vars => (TypeOK /\ NeverOvercounts)'
    BY TypeStep, NeverOvercountsStep
<1> QED BY <1>1, <1>2, PTL DEF Spec

\* Increments and decrements across calls, failed removals, crashes, restarts
\* and a clock set back never make the cached count differ from the disk.
THEOREM CountTracksDiskHolds == Spec => []CountTracksDisk
<1>1. TypeOK /\ NeverOvercounts /\ NeverUndercounts => CountTracksDisk
    BY DirCardinality
       DEF TypeOK, NeverOvercounts, NeverUndercounts, CountTracksDisk, Pending,
           Missed, EveryStoreAddsAFile
<1> QED BY <1>1, NeverUndercountsHolds, ExactInvariant, PTL

\* Retention counts as FiniteSets does.
LEMMA SameCardinality == ASSUME NEW S PROVE Exact!Cardinality(S) = Cardinality(S)
BY Zenon DEF Exact!Cardinality, Cardinality

\* What is shown to Retention, where something is.
LEMMA Shown ==
    ASSUME EveryStoreAddsAFile, env' = env
    PROVE  \A S, T : /\ (IF EveryStoreAddsAFile THEN S ELSE T) = S
                     /\ (IF EveryStoreAddsAFile' THEN S ELSE T) = S
BY DEF EveryStoreAddsAFile

\* In the other environments nothing is.
LEMMA HiddenStep ==
    ASSUME ~EveryStoreAddsAFile, [Next]_vars
    PROVE  UNCHANGED Exact!vars
<1>1. ~EveryStoreAddsAFile'
    BY EnvFixed DEF EveryStoreAddsAFile
<1> QED BY <1>1 DEF Exact!vars

LEMMA RefinementStep ==
    ASSUME TypeOK, NeverOvercounts, [Next]_vars
    PROVE  [Exact!Next]_Exact!vars
<1> SUFFICES ASSUME EveryStoreAddsAFile PROVE [Exact!Next]_Exact!vars
    BY HiddenStep
<1>0. env' = env
    BY EnvFixed
<1>a. UNCHANGED <<dir, created>> => UNCHANGED Exact!vars
    BY <1>0 DEF Exact!vars, EveryStoreAddsAFile
<1>1. CASE Tick
    BY <1>a, <1>1 DEF Tick
<1>2. CASE SetClockBack
    BY <1>a, <1>2 DEF SetClockBack
<1>3. CASE Restart
    BY <1>a, <1>3 DEF Restart
<1>4. CASE Crash
    BY <1>a, <1>4 DEF Crash
<1>5. ASSUME NEW c \in Cids, StoreCid(c) PROVE Exact!Next
  <2> DEFINE f == [name |-> c, mtime |-> now]
  <2>1. f \in Exact!File
      BY DEF Exact!File, Names, TypeOK
  <2>2. Exact!Keep(f)
      BY <1>0, <1>5 DEF StoreCid, EveryStoreAddsAFile, Exact!Keep
  <2> QED BY <2>1, <2>2 DEF Exact!Next
<1>6. CASE StoreFails
    BY <1>6 DEF StoreFails, EveryStoreAddsAFile
<1>7. CASE SetPeriodicity
    BY <1>7 DEF SetPeriodicity, EveryStoreAddsAFile
<1>8. CASE CheckNumOfCIDFiles
  <2> PICK n \in CountAfterStore : HasRoom(n) \/ DeleteOldest(n) \/ DeleteFails(n)
      BY <1>8 DEF CheckNumOfCIDFiles
  <2>1. pc = "check" /\ UNCHANGED created
      BY <1>8 DEF CheckNumOfCIDFiles
  <2>2. n \in Nat /\ n <= Cardinality(dir) /\ Cardinality(dir) \in Nat
      BY <2>1, CountIsOnDisk, DirCardinality
  <2>3. CASE HasRoom(n)
      BY <1>a, <2>1, <2>3 DEF HasRoom
  <2>4. CASE DeleteOldest(n)
    <3>1. PICK f \in Oldest : dir' = dir \ {f}
        BY <2>4 DEF DeleteOldest
    <3>2. f \in dir /\ \A g \in dir : f.mtime <= g.mtime
        BY DEF Oldest
    <3>3. Exact!Cardinality(dir) >= Capacity
        BY <2>2, <2>4, CidStoreAssumption, SameCardinality DEF DeleteOldest
    <3>4. Exact!Expire(f)
        BY <1>0, <2>1, <3>1, <3>2, <3>3, Shown, Zenon DEF Exact!Expire
    <3> QED BY <3>2, <3>4 DEF Exact!Next
  <2>5. CASE DeleteFails(n)
      BY <1>a, <2>1, <2>5 DEF DeleteFails
  <2> QED BY <2>3, <2>4, <2>5
<1>9. CASE UNCHANGED vars
    BY <1>a, <1>9 DEF vars
<1> QED BY <1>1, <1>2, <1>3, <1>4, <1>5, <1>6, <1>7, <1>8, <1>9 DEF Next

\* The rotation of checkNumOfCIDFiles, with its cached count, implements the
\* retention MAX_CID_FILE_SIZE asks for.
THEOREM ImplementsRetentionHolds == Spec => ImplementsRetention
<1>1. Init => Exact!Init
    BY DEF Init, Exact!Init
<1>2. TypeOK /\ NeverOvercounts /\ [Next]_vars => [Exact!Next]_Exact!vars
    BY RefinementStep
<1> QED BY <1>1, <1>2, ExactInvariant, PTL
        DEF Spec, Exact!Spec, ImplementsRetention

\* So no content notarized within the last MAX_CID_FILE_SIZE - 1 is missing.
THEOREM HistoryRetainedHolds == Spec => []HistoryRetained
<1>1. Exact!RetentionAssumption
    BY CidStoreAssumption DEF Times, Exact!RetentionAssumption
<1>2. Exact!Spec => []Exact!Retained
    BY <1>1, Exact!RetentionHolds
<1>3. Exact!Retained => HistoryRetained
    BY DEF HistoryRetained, Exact!Retained, R!Retained,
           Exact!NewerThan, R!NewerThan, Exact!Cardinality, R!Cardinality
<1> QED BY <1>2, <1>3, ImplementsRetentionHolds, PTL
        DEF ImplementsRetention

=============================================================================
