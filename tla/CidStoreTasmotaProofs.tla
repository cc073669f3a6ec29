------------------------ MODULE CidStoreTasmotaProofs ------------------------
(***************************************************************************)
(* Theorems about CidStoreTasmota, for every capacity of two files or      *)
(* more, set of contents, clock and word size.                             *)
(***************************************************************************)
EXTENDS CidStoreTasmota, FiniteSetTheorems, TLAPS

-----------------------------------------------------------------------------
(* Arithmetic modulo the word.                                             *)

LEMMA Multiples ==
    ASSUME NEW W \in Nat \ {0}, NEW k \in Int, k >= 1
    PROVE  W * k >= W
OBVIOUS

\* A remainder is determined by any way to divide.
LEMMA Remainder ==
    ASSUME NEW W \in Nat \ {0}, NEW q \in Int, NEW r \in 0 .. W - 1
    PROVE  (W * q + r) % W = r
<1> DEFINE x == W * q + r
           p == x \div W
           s == x % W
           d == q - p
           e == p - q
<1>1. x \in Int /\ p \in Int /\ s \in 0 .. W - 1 /\ x = W * p + s
    OBVIOUS
<1>2. d \in Int /\ e \in Int /\ W * d = s - r /\ W * e = r - s
  <2>1. W * q + r = W * p + s
      BY <1>1
  <2>2. W * d = W * q - W * p /\ W * e = W * p - W * q
      BY <1>1
  <2>3. W * q \in Int /\ W * p \in Int
      BY <1>1
  <2> HIDE DEF p, s, x
  <2> QED BY <1>1, <2>1, <2>2, <2>3
<1>3. ~(d >= 1) /\ ~(e >= 1)
  <2> HIDE DEF d, e, p, s, x
  <2> QED BY <1>1, <1>2, Multiples
<1>4. p = q
  <2> HIDE DEF p
  <2> QED BY <1>1, <1>3
<1>5. W * p = W * q /\ W * q \in Int
    BY <1>4
<1> HIDE DEF p, s
<1>6. s = r
    BY <1>1, <1>5
<1> QED BY <1>6 DEF s

\* Counting up and down commutes with wrapping around.
LEMMA WordStep ==
    ASSUME NEW W \in Nat \ {0}, NEW x \in Int
    PROVE  /\ x % W \in 0 .. W - 1
           /\ (x + 1) % W = ((x % W) + 1) % W
           /\ (x - 1) % W = ((x % W) - 1) % W
<1> DEFINE q == x \div W
           r == x % W
<1>1. q \in Int /\ r \in 0 .. W - 1 /\ x = W * q + r /\ W * q \in Int
    OBVIOUS
<1>2. W * (q + 1) = W * q + W /\ W * (q - 1) = W * q - W
    BY <1>1
<1>3. W * 1 = W /\ W * 0 = 0 /\ W * (-1) = -W
    OBVIOUS
<1> HIDE DEF q, r
<1>4. (x + 1) % W = (r + 1) % W
  <2>1. CASE r = W - 1
    <3>1. x + 1 = W * (q + 1) + 0 /\ r + 1 = W * 1 + 0
        BY <1>1, <1>2, <1>3, <2>1
    <3>2. (x + 1) % W = 0 /\ (r + 1) % W = 0
        BY <1>1, <3>1, Remainder
    <3> QED BY <3>2
  <2>2. CASE r # W - 1
    <3>1. x + 1 = W * q + (r + 1) /\ r + 1 \in 0 .. W - 1
        BY <1>1, <2>2
    <3>2. (x + 1) % W = r + 1 /\ (r + 1) % W = r + 1
        BY <1>1, <3>1, Remainder
    <3> QED BY <3>2
  <2> QED BY <2>1, <2>2
<1>5. (x - 1) % W = (r - 1) % W
  <2>1. CASE r = 0
    <3>1. x - 1 = W * (q - 1) + (W - 1) /\ r - 1 = W * (-1) + (W - 1)
        BY <1>1, <1>2, <1>3, <2>1
    <3>2. (x - 1) % W = W - 1 /\ (r - 1) % W = W - 1
        BY <1>1, <3>1, Remainder
    <3> QED BY <3>2
  <2>2. CASE r # 0
    <3>1. x - 1 = W * q + (r - 1) /\ r - 1 \in 0 .. W - 1
        BY <1>1, <2>2
    <3>2. (x - 1) % W = r - 1 /\ (r - 1) % W = r - 1
        BY <1>1, <3>1, Remainder
    <3> QED BY <3>2
  <2> QED BY <2>1, <2>2
<1> QED BY <1>1, <1>4, <1>5 DEF r

LEMMA WordFits ==
    ASSUME NEW W \in Nat \ {0}
    PROVE  /\ \A x \in 0 .. W - 1 : x % W = x
           /\ \A x \in Nat : x % W <= x
OBVIOUS

-----------------------------------------------------------------------------
(* The vector.                                                             *)

\* Popping the back takes one copy of one file.
LEMMA PopVector ==
    ASSUME NEW bag, IsABag(bag), NEW b
    PROVE  /\ IsABag(bag (-) SetToBag({b}))
           /\ BagToSet(bag (-) SetToBag({b})) \subseteq BagToSet(bag)
           /\ BagToSet(bag) \ {b} \subseteq BagToSet(bag (-) SetToBag({b}))
BY DEF IsABag, BagToSet, SetToBag, (-)

LEMMA PopSingles ==
    ASSUME NEW bag, IsABag(bag), \A f \in BagToSet(bag) : bag[f] = 1, NEW b
    PROVE  /\ BagToSet(bag (-) SetToBag({b})) = BagToSet(bag) \ {b}
           /\ \A f \in BagToSet(bag) \ {b} : (bag (-) SetToBag({b}))[f] = 1
BY DEF IsABag, BagToSet, SetToBag, (-)

\* Listing the directory pushes one copy of each file.
LEMMA PushVector ==
    ASSUME NEW bag, IsABag(bag), NEW S
    PROVE  /\ IsABag(bag (+) SetToBag(S))
           /\ BagToSet(bag (+) SetToBag(S)) = BagToSet(bag) \cup S
BY DEF IsABag, BagToSet, SetToBag, (+)

LEMMA PushOntoEmpty ==
    ASSUME NEW S, NEW f \in S
    PROVE  (EmptyBag (+) SetToBag(S))[f] = 1
BY DEF EmptyBag, SetToBag, (+)

LEMMA EmptyVector ==
    /\ IsABag(EmptyBag) /\ BagToSet(EmptyBag) = {}
    /\ \A bag : IsABag(bag) /\ BagToSet(bag) = {} => bag = EmptyBag
BY DEF IsABag, BagToSet, EmptyBag, SetToBag

LEMMA BackOfVector ==
    ASSUME NEW bag, NEW b \in Backs(bag)
    PROVE  \/ bag = EmptyBag /\ b = NoFile
           \/ b \in BagToSet(bag) /\ \A g \in BagToSet(bag) : b.mtime <= g.mtime
BY DEF Backs

LEMMA DeleteBackEffect ==
    ASSUME NEW bag, IsABag(bag), NEW b, DeleteBack(bag, b)
    PROVE  /\ b \in dir /\ dir' = dir \ {b}
           /\ IsABag(cid_files') /\ back' \in Backs(cid_files')
           /\ BagToSet(cid_files') \subseteq BagToSet(bag)
           /\ BagToSet(bag) \ {b} \subseteq BagToSet(cid_files')
BY PopVector DEF DeleteBack

-----------------------------------------------------------------------------
(* The inductive invariant.                                                *)

Bag == BagToSet(cid_files)

DirIsFinite == IsFiniteSet(dir)

\* The count goes the ways of the directory modulo the uint32_t, and a write
\* has left its file there.
CountInv ==
    EveryStoreAddsAFile =>
        /\ num_of_cid_files # 0 =>
               (num_of_cid_files + Pending) % Word = Cardinality(dir) % Word
        /\ pc = "check" => dir # {}

\* Only a count of files that were never written passes the limit, and then
\* there is no file left.
OverrunInv ==
    RemovalsSucceed /\ Capacity + slips < Word =>
        /\ Cardinality(dir) <= Capacity - 1 + slips + Pending
        /\ num_of_cid_files # 0 => Cardinality(dir) <= num_of_cid_files + Pending
        /\ num_of_cid_files > Capacity - 1 + slips => Cardinality(dir) <= Pending

\* Once listed, the directory stays full, and what was written since then is
\* not older than anything in the vector.
ListedWhenFull ==
    EveryStoreAddsAFile /\ Bag # {} =>
        Cardinality(dir) >= Capacity - 1 + Pending

NothingFromTheFuture ==
    TimeIsOrder => \A f \in dir \cup Bag : f.mtime <= now

VectorIsOldest ==
    TimeIsOrder => \A f \in Bag, g \in dir \ Bag : f.mtime <= g.mtime

-----------------------------------------------------------------------------
(* Types.                                                                  *)

Basics == TypeOK /\ DirIsFinite

LEMMA DirCardinality == DirIsFinite => Cardinality(dir) \in Nat
BY FS_CardinalityType DEF DirIsFinite

LEMMA CountType ==
    ASSUME Basics
    PROVE  CountAfterStore \in 0 .. Word - 1
<1>1. Word \in Nat \ {0}
    BY CidStoreAssumption
<1>2. Cardinality(dir) \in Int /\ num_of_cid_files + 1 \in Int
    BY DirCardinality DEF Basics, TypeOK
<1>3. /\ Cardinality(dir) % Word \in 0 .. Word - 1
      /\ (num_of_cid_files + 1) % Word \in 0 .. Word - 1
    BY <1>1, <1>2, WordStep
<1> QED BY <1>3 DEF CountAfterStore

LEMMA AddFile ==
    ASSUME Basics, NEW f \in File
    PROVE  /\ IsFiniteSet(dir \cup {f})
           /\ Cardinality(dir \cup {f}) =
                  IF f \in dir THEN Cardinality(dir) ELSE Cardinality(dir) + 1
BY FS_AddElement DEF Basics, DirIsFinite

LEMMA RemoveFile ==
    ASSUME Basics, NEW f \in dir
    PROVE  /\ IsFiniteSet(dir \ {f})
           /\ Cardinality(dir \ {f}) = Cardinality(dir) - 1
BY FS_RemoveElement DEF Basics, DirIsFinite

LEMMA ReloadedType ==
    ASSUME Basics
    PROVE  /\ IsABag(Reloaded) /\ BagToSet(Reloaded) = Bag \cup dir
           /\ BagToSet(Reloaded) \subseteq File
BY PushVector DEF Basics, TypeOK, Reloaded, Bag

LEMMA BasicsStep == Basics /\ [Next]_vars => Basics'
<1> SUFFICES ASSUME Basics, [Next]_vars PROVE Basics'
    OBVIOUS
<1> USE CidStoreAssumption DEF Basics, TypeOK, DirIsFinite, Times, Names
<1>a. ForgetCache =>
        /\ IsABag(cid_files') /\ BagToSet(cid_files') \subseteq File
        /\ back' \in Backs(cid_files') /\ num_of_cid_files' \in 0 .. Word - 1
    BY EmptyVector DEF ForgetCache, Backs
<1>1. CASE Tick
    BY <1>1 DEF Tick, Backs
<1>2. CASE SetClockBack
    BY <1>2 DEF SetClockBack, Backs
<1>3. CASE Restart
    BY <1>a, <1>3 DEF Restart
<1>4. CASE Crash
    BY <1>a, <1>4 DEF Crash
<1>5. ASSUME NEW c \in Cids, StoreCid(c) PROVE Basics'
  <2>1. [name |-> c, mtime |-> now] \in File
      BY DEF File
  <2> QED BY <1>5, <2>1, AddFile DEF StoreCid, Backs
<1>6. CASE StoreFails
    BY <1>6 DEF StoreFails, Backs
<1>7. CASE CheckNumOfCIDFiles
  <2> DEFINE n == CountAfterStore
  <2>1. n \in 0 .. Word - 1
      BY CountType
  <2>2. UNCHANGED <<env, now, created>> /\ pc' = "idle"
      BY <1>7 DEF CheckNumOfCIDFiles
  <2>3. (n - 1) % Word \in 0 .. Word - 1
      BY <2>1, WordStep
  <2>4. DeleteCached(n) \/ HasRoom(n) \/ DeleteListed(n) \/ DeleteFails(n)
      BY <1>7 DEF CheckNumOfCIDFiles
  <2> HIDE DEF n
  <2>5. CASE DeleteCached(n)
    <3>1. DeleteBack(cid_files, back)
        BY <2>5 DEF DeleteCached
    <3> QED BY <2>2, <2>3, <2>5, <3>1, DeleteBackEffect, RemoveFile
            DEF DeleteCached
  <2>6. CASE HasRoom(n)
      BY <2>1, <2>2, <2>6 DEF HasRoom, Backs
  <2>7. CASE DeleteListed(n)
    <3>1. PICK b \in Backs(Reloaded) : DeleteBack(Reloaded, b)
        BY <2>7 DEF DeleteListed
    <3>2. n - 1 \in 0 .. Word - 1
        BY <2>1, <2>7 DEF DeleteListed
    <3> QED BY <2>2, <2>7, <3>1, <3>2, ReloadedType, DeleteBackEffect, RemoveFile
            DEF DeleteListed
  <2>8. CASE DeleteFails(n)
      BY <2>1, <2>2, <2>8, ReloadedType DEF DeleteFails
  <2> QED BY <2>4, <2>5, <2>6, <2>7, <2>8
<1>8. CASE UNCHANGED vars
    BY <1>8 DEF vars, Backs
<1> QED BY <1>1, <1>2, <1>3, <1>4, <1>5, <1>6, <1>7, <1>8 DEF Next

LEMMA BasicsInvariant == Spec => []Basics
<1>1. Init => Basics
    BY EmptyVector, FS_EmptySet, CidStoreAssumption
       DEF Init, Basics, TypeOK, DirIsFinite, Times, Backs
<1> QED BY <1>1, BasicsStep, PTL DEF Spec

\* The count stays a uint32_t, and the remembered back is always one of the
\* oldest of what the vector holds, across removals, lists and resets.
THEOREM TypeCorrect == Spec => []TypeOK
BY BasicsInvariant, PTL DEF Basics

-----------------------------------------------------------------------------
(* The vector lists files that are there, each once.                       *)

LEMMA EnvFixed == [Next]_vars => env' = env
BY DEF Next, vars, Tick, SetClockBack, Restart, Crash, StoreCid, StoreFails,
       CheckNumOfCIDFiles

\* While removals succeed, a removal at the back of the vector fails only
\* when there is nothing left in it.
LEMMA UsedUp ==
    ASSUME Basics, CacheOnDisk, RemovalsSucceed, CannotDelete(back)
    PROVE  cid_files = EmptyBag /\ Bag = {} /\ BagToSet(Reloaded) = dir
<1>1. back \notin dir
    BY DEF CannotDelete, RemovalsSucceed
<1>2. back \notin BagToSet(cid_files)
    BY <1>1 DEF CacheOnDisk
<1>3. cid_files = EmptyBag
    BY <1>2, BackOfVector DEF Basics, TypeOK
<1> QED BY <1>3, EmptyVector, ReloadedType DEF Bag

LEMMA CacheOnDiskStep ==
    ASSUME Basics, CacheOnDisk, [Next]_vars
    PROVE  CacheOnDisk'
<1> SUFFICES ASSUME RemovalsSucceed PROVE CacheOnDisk'
    BY EnvFixed DEF CacheOnDisk, RemovalsSucceed
<1>0. /\ IsABag(cid_files)
      /\ \A f \in BagToSet(cid_files) : f \in dir /\ cid_files[f] = 1
    BY DEF CacheOnDisk, Basics, TypeOK
<1>a. dir \subseteq dir' /\ cid_files' = cid_files => CacheOnDisk'
    BY <1>0 DEF CacheOnDisk
<1>b. cid_files' = EmptyBag => CacheOnDisk'
    BY EmptyVector DEF CacheOnDisk
<1>1. CASE Tick
    BY <1>a, <1>1 DEF Tick
<1>2. CASE SetClockBack
    BY <1>a, <1>2 DEF SetClockBack
<1>3. CASE Restart
    BY <1>b, <1>3 DEF Restart, ForgetCache
<1>4. CASE Crash
    BY <1>b, <1>4 DEF Crash, ForgetCache
<1>5. ASSUME NEW c \in Cids, StoreCid(c) PROVE CacheOnDisk'
    BY <1>a, <1>5 DEF StoreCid
<1>6. CASE StoreFails
    BY <1>a, <1>6 DEF StoreFails
<1>7. CASE CheckNumOfCIDFiles
  <2> DEFINE n == CountAfterStore
  <2>1. DeleteCached(n) \/ HasRoom(n) \/ DeleteListed(n) \/ DeleteFails(n)
      BY <1>7 DEF CheckNumOfCIDFiles
  <2> HIDE DEF n
  <2>2. CASE DeleteCached(n)
    <3>1. dir' = dir \ {back} /\ cid_files' = cid_files (-) SetToBag({back})
        BY <2>2 DEF DeleteCached, DeleteBack
    <3>2. /\ BagToSet(cid_files') = BagToSet(cid_files) \ {back}
          /\ \A f \in BagToSet(cid_files) \ {back} : cid_files'[f] = 1
        BY <1>0, <3>1, PopSingles
    <3> QED BY <1>0, <3>1, <3>2 DEF CacheOnDisk
  <2>3. CASE HasRoom(n)
      BY <1>a, <2>3 DEF HasRoom
  <2>4. CASE DeleteListed(n)
    <3>1. PICK b \in Backs(Reloaded) : DeleteBack(Reloaded, b)
        BY <2>4 DEF DeleteListed
    <3>2. dir' = dir \ {b} /\ cid_files' = Reloaded (-) SetToBag({b})
        BY <3>1 DEF DeleteBack
    <3>3. cid_files = EmptyBag /\ BagToSet(Reloaded) = dir
        BY <2>4, UsedUp DEF DeleteListed
    <3>4. IsABag(Reloaded) /\ \A f \in dir : Reloaded[f] = 1
        BY <3>3, ReloadedType, PushOntoEmpty DEF Reloaded
    <3>5. /\ BagToSet(cid_files') = dir \ {b}
          /\ \A f \in dir \ {b} : cid_files'[f] = 1
        BY <3>2, <3>3, <3>4, PopSingles
    <3> QED BY <3>2, <3>5 DEF CacheOnDisk
  <2>5. CASE DeleteFails(n)
    <3>1. cid_files' = Reloaded /\ dir' = dir
        BY <2>5 DEF DeleteFails
    <3>2. cid_files = EmptyBag /\ BagToSet(Reloaded) = dir
        BY <2>5, UsedUp DEF DeleteFails
    <3>3. \A f \in dir : Reloaded[f] = 1
        BY <3>2, PushOntoEmpty DEF Reloaded
    <3> QED BY <3>1, <3>2, <3>3 DEF CacheOnDisk
  <2> QED BY <2>1, <2>2, <2>3, <2>4, <2>5
<1>8. CASE UNCHANGED vars
    BY <1>a, <1>8 DEF vars
<1> QED BY <1>1, <1>2, <1>3, <1>4, <1>5, <1>6, <1>7, <1>8 DEF Next

\* As long as the flash removes what it is told to, the vector is a listing of
\* files that are there, each once: removals, lists and resets never leave the
\* name of a removed file, or a second copy of one, at the back.
THEOREM CacheOnDiskHolds == Spec => []CacheOnDisk
<1>1. Init => CacheOnDisk
    BY EmptyVector DEF Init, CacheOnDisk
<1>2. Basics /\ CacheOnDisk /\ [Next]_vars => CacheOnDisk'
    BY CacheOnDiskStep
<1> QED BY <1>1, <1>2, BasicsInvariant, PTL DEF Spec

-----------------------------------------------------------------------------
(* The cached count.                                                       *)

LEMMA CountOnDisk ==
    ASSUME Basics, CountInv, EveryStoreAddsAFile, pc = "check"
    PROVE  /\ CountAfterStore = Cardinality(dir) % Word
           /\ CountAfterStore \in Nat /\ CountAfterStore <= Cardinality(dir)
<1>1. Word \in Nat \ {0} /\ Cardinality(dir) \in Nat
    BY CidStoreAssumption, DirCardinality DEF Basics
<1>2. CountAfterStore = Cardinality(dir) % Word
    BY DEF CountAfterStore, CountInv, Pending
<1> QED BY <1>1, <1>2, WordFits, CountType

LEMMA CountInvStep ==
    ASSUME Basics, CountInv, [Next]_vars
    PROVE  CountInv'
<1> SUFFICES ASSUME EveryStoreAddsAFile PROVE CountInv'
    BY EnvFixed DEF CountInv, EveryStoreAddsAFile
<1> DEFINE size == Cardinality(dir)
<1>0. Word \in Nat \ {0} /\ size \in Nat /\ num_of_cid_files \in 0 .. Word - 1
    BY CidStoreAssumption, DirCardinality DEF Basics, TypeOK
<1>a. /\ num_of_cid_files # 0 =>
             (num_of_cid_files + Pending) % Word = size % Word
      /\ pc = "check" => dir # {}
    BY DEF CountInv
<1>b. UNCHANGED <<dir, num_of_cid_files, pc>> => CountInv'
    BY <1>a DEF CountInv, Pending
<1>c. num_of_cid_files' = 0 /\ pc' = "idle" => CountInv'
    BY DEF CountInv
<1>d. ASSUME pc' = "idle", num_of_cid_files' \in 0 .. Word - 1,
             num_of_cid_files' = Cardinality(dir') % Word
      PROVE  CountInv'
  <2>1. num_of_cid_files' % Word = num_of_cid_files'
      BY <1>0, <1>d, WordFits
  <2>2. num_of_cid_files' + Pending' = num_of_cid_files'
      BY <1>0, <1>d DEF Pending
  <2> QED BY <1>d, <2>1, <2>2 DEF CountInv
<1>1. CASE Tick
    BY <1>b, <1>1 DEF Tick
<1>2. CASE SetClockBack
    BY <1>b, <1>2 DEF SetClockBack
<1>3. CASE Restart
    BY <1>c, <1>3 DEF Restart, ForgetCache
<1>4. CASE Crash
    BY <1>c, <1>4 DEF Crash, ForgetCache
<1>5. ASSUME NEW c \in Cids, StoreCid(c) PROVE CountInv'
  <2> DEFINE f == [name |-> c, mtime |-> now]
  <2>1. f \in File
      BY DEF File, Names, Basics, TypeOK
  <2>2. /\ dir' = dir \cup {f} /\ f \notin dir
        /\ pc = "idle" /\ pc' = "check"
        /\ num_of_cid_files' = num_of_cid_files
      BY <1>5 DEF StoreCid, EveryStoreAddsAFile
  <2>3. Cardinality(dir') = size + 1
      BY <2>1, <2>2, AddFile
  <2>4. dir' # {}
      BY <2>2
  <2> HIDE DEF f
  <2>5. num_of_cid_files # 0 =>
            (num_of_cid_files + 1) % Word = (size + 1) % Word
    <3>1. num_of_cid_files # 0 => num_of_cid_files = size % Word
        BY <1>0, <1>a, <2>2, WordFits DEF Pending
    <3>2. (size + 1) % Word = ((size % Word) + 1) % Word
        BY <1>0, WordStep
    <3> QED BY <3>1, <3>2
  <2> QED BY <2>2, <2>3, <2>4, <2>5 DEF CountInv, Pending
<1>6. CASE StoreFails
    BY <1>6 DEF StoreFails, EveryStoreAddsAFile
<1>7. CASE CheckNumOfCIDFiles
  <2> DEFINE n == CountAfterStore
  <2>1. DeleteCached(n) \/ HasRoom(n) \/ DeleteListed(n) \/ DeleteFails(n)
      BY <1>7 DEF CheckNumOfCIDFiles
  <2>2. pc = "check" /\ pc' = "idle"
      BY <1>7 DEF CheckNumOfCIDFiles
  <2>3. n = size % Word /\ n \in 0 .. Word - 1
      BY <2>2, CountOnDisk, CountType
  <2>4. (n - 1) % Word = (size - 1) % Word /\ (n - 1) % Word \in 0 .. Word - 1
    <3>1. (size - 1) % Word = ((size % Word) - 1) % Word
        BY <1>0, WordStep
    <3>2. \A i \in Int : i % Word \in 0 .. Word - 1
        BY <1>0
    <3> HIDE DEF n
    <3> QED BY <2>3, <3>1, <3>2
  <2> HIDE DEF n
  <2>5. CASE DeleteCached(n)
    <3>1. back \in dir /\ dir' = dir \ {back} /\ num_of_cid_files' = (n - 1) % Word
        BY <2>5 DEF DeleteCached, DeleteBack
    <3>2. Cardinality(dir') = size - 1
        BY <3>1, RemoveFile
    <3> QED BY <1>d, <2>2, <2>4, <3>1, <3>2
  <2>6. CASE HasRoom(n)
      BY <1>d, <2>2, <2>3, <2>6 DEF HasRoom
  <2>7. CASE DeleteListed(n)
    <3>1. PICK b \in dir : dir' = dir \ {b}
        BY <2>7 DEF DeleteListed, DeleteBack
    <3>2. Cardinality(dir') = size - 1
        BY <3>1, RemoveFile
    <3>3. num_of_cid_files' = n - 1 /\ n - 1 \in 0 .. Word - 1
        BY <2>3, <2>7, CidStoreAssumption DEF DeleteListed
    <3>4. (n - 1) % Word = n - 1
        BY <1>0, <3>3, WordFits
    <3> QED BY <1>d, <2>2, <2>4, <3>2, <3>3, <3>4
  <2>8. CASE DeleteFails(n)
      BY <1>d, <2>2, <2>3, <2>8 DEF DeleteFails
  <2> QED BY <2>1, <2>5, <2>6, <2>7, <2>8
<1>8. CASE UNCHANGED vars
    BY <1>b, <1>8 DEF vars
<1> QED BY <1>1, <1>2, <1>3, <1>4, <1>5, <1>6, <1>7, <1>8 DEF Next

LEMMA CountInvariant == Spec => [](Basics /\ CountInv)
<1>1. Init => CountInv
    BY DEF Init, CountInv
<1>2. Basics /\ CountInv /\ [Next]_vars => CountInv'
    BY CountInvStep
<1> QED BY <1>1, <1>2, BasicsInvariant, PTL DEF Spec

\* Once taken, the count that checkNumOfCIDFiles keeps is the number of files,
\* although it is the vector that says which file goes, and although removals
\* fail, the clock is set back and the device is reset.
THEOREM CountTracksDiskHolds == Spec => []CountTracksDisk
<1>1. Basics /\ CountInv => CountTracksDisk
  <2> SUFFICES ASSUME Basics, CountInv, EveryStoreAddsAFile,
                      Cardinality(dir) < Word, num_of_cid_files # 0
               PROVE  num_of_cid_files + Pending = Cardinality(dir)
      BY DEF CountTracksDisk
  <2>1. /\ Word \in Nat \ {0} /\ Cardinality(dir) \in 0 .. Word - 1
        /\ num_of_cid_files \in 0 .. Word - 1
      BY CidStoreAssumption, DirCardinality DEF Basics, TypeOK
  <2>2. (num_of_cid_files + Pending) % Word = Cardinality(dir)
      BY <2>1, WordFits DEF CountInv
  <2>3. CASE num_of_cid_files + Pending \in 0 .. Word - 1
      BY <2>1, <2>2, <2>3, WordFits
  <2>4. CASE num_of_cid_files + Pending \notin 0 .. Word - 1
    <3>1. pc = "check" /\ num_of_cid_files + Pending = Word
        BY <2>1, <2>4 DEF Pending
    <3>2. Word = Word * 1 + 0 /\ 0 \in 0 .. Word - 1
        BY <2>1
    <3>3. Word % Word = 0
        BY <2>1, <3>2, Remainder
    <3>4. Cardinality(dir) = 0
        BY <2>2, <3>1, <3>3
    <3>5. dir = {}
        BY <3>4, FS_EmptySet DEF Basics, DirIsFinite
    <3> QED BY <3>1, <3>5 DEF CountInv
  <2> QED BY <2>3, <2>4
<1> QED BY <1>1, CountInvariant, PTL

-----------------------------------------------------------------------------
(* How far the disk may outgrow the limit.                                 *)

\* While removals succeed, the second attempt fails only on an empty directory.
LEMMA NothingToDelete ==
    ASSUME Basics, CacheOnDisk, RemovalsSucceed, NEW n, DeleteFails(n)
    PROVE  dir = {} /\ slips' = slips
<1>1. PICK b \in Backs(Reloaded) :
          CannotDelete(b) /\ slips' = IF b \in dir THEN slips + 1 ELSE slips
    BY DEF DeleteFails
<1>2. b \notin dir
    BY <1>1 DEF CannotDelete, RemovalsSucceed
<1>3. BagToSet(Reloaded) = dir
    BY UsedUp DEF DeleteFails
<1>4. Reloaded = EmptyBag
    BY <1>2, <1>3, BackOfVector
<1> QED BY <1>1, <1>2, <1>3, <1>4, EmptyVector

LEMMA OverrunCheck ==
    ASSUME Basics, CacheOnDisk, OverrunInv, CheckNumOfCIDFiles
    PROVE  OverrunInv'
<1> SUFFICES ASSUME RemovalsSucceed', (Capacity + slips < Word)'
             PROVE  OverrunInv'
    BY DEF OverrunInv
<1> DEFINE size == Cardinality(dir)
           n    == CountAfterStore
<1>1. /\ Capacity \in Nat /\ Capacity > 1 /\ Word \in Nat /\ Capacity < Word
      /\ slips \in Nat /\ num_of_cid_files \in 0 .. Word - 1
      /\ size \in Nat
    BY CidStoreAssumption, DirCardinality DEF Basics, TypeOK
<1>2. DeleteCached(n) \/ HasRoom(n) \/ DeleteListed(n) \/ DeleteFails(n)
    BY DEF CheckNumOfCIDFiles
<1>3. RemovalsSucceed /\ Pending = 1 /\ Pending' = 0
    BY DEF CheckNumOfCIDFiles, RemovalsSucceed, Pending
<1>4. slips' = slips
    BY <1>2, <1>3, NothingToDelete DEF DeleteCached, HasRoom, DeleteListed
<1>5. /\ size <= Capacity + slips /\ Capacity + slips < Word
      /\ num_of_cid_files # 0 => size <= num_of_cid_files + 1
      /\ num_of_cid_files > Capacity - 1 + slips => size <= 1
    BY <1>1, <1>3, <1>4 DEF OverrunInv
<1>6. n \in 0 .. Word - 1
    BY CountType
\* Either the count is no less than the directory, or it has wrapped around.
<1>7. \/ /\ size <= n
         /\ n <= Capacity + slips \/ size <= 1
      \/ n = 0 /\ size <= 1 /\ num_of_cid_files = Word - 1
  <2>1. CASE num_of_cid_files = 0
    <3>1. size % Word = size
        BY <1>1, <1>5, WordFits
    <3> QED BY <1>1, <1>5, <2>1, <3>1 DEF CountAfterStore
  <2>2. CASE num_of_cid_files \in 1 .. Word - 2
    <3>1. (num_of_cid_files + 1) % Word = num_of_cid_files + 1
        BY <1>1, <2>2, WordFits
    <3> QED BY <1>1, <1>5, <2>2, <3>1 DEF CountAfterStore
  <2>3. CASE num_of_cid_files = Word - 1
    <3>1. Word = Word * 1 + 0 /\ 0 \in 0 .. Word - 1
        BY <1>1
    <3>2. (num_of_cid_files + 1) % Word = 0
        BY <1>1, <2>3, <3>1, Remainder
    <3>3. size <= 1
        BY <1>1, <1>5, <2>3
    <3> QED BY <1>1, <2>3, <3>2, <3>3 DEF CountAfterStore
  <2> QED BY <1>1, <2>1, <2>2, <2>3
<1> HIDE DEF n
<1>8. CASE DeleteCached(n)
  <2>1. back \in dir /\ dir' = dir \ {back} /\ num_of_cid_files' = (n - 1) % Word
      BY <1>8 DEF DeleteCached, DeleteBack
  <2>2. Cardinality(dir') = size - 1 /\ Cardinality(dir') \in Nat
    <3>1. Cardinality(dir') = size - 1 /\ IsFiniteSet(dir')
        BY <2>1, RemoveFile
    <3> QED BY <3>1, FS_CardinalityType
  <2>3. CASE n = 0
    <3>1. size = 1 /\ Cardinality(dir') = 0
        BY <1>1, <1>7, <2>2, <2>3
    <3>2. num_of_cid_files' \in Nat
        BY <1>1, <2>1, <2>3, WordStep
    <3>3. Pending' \in Nat
        BY DEF Pending
    <3>4. \A i, j, k \in Nat : k >= 1 => 0 <= k - 1 + i + j /\ 0 <= i + j
        OBVIOUS
    <3>5. Capacity >= 1 /\ Capacity \in Nat /\ slips' \in Nat
        BY <1>1, <1>4
    <3>6. /\ 0 <= Capacity - 1 + slips' + Pending'
          /\ 0 <= num_of_cid_files' + Pending'
        BY <3>2, <3>3, <3>4, <3>5
    <3> QED BY <3>1, <3>3, <3>6 DEF OverrunInv
  <2>4. CASE n # 0
    <3>1. num_of_cid_files' = n - 1
        BY <1>1, <1>6, <2>1, <2>4, WordFits
    <3> QED BY <1>1, <1>3, <1>4, <1>5, <1>6, <1>7, <2>2, <2>4, <3>1 DEF OverrunInv
  <2> QED BY <2>3, <2>4
<1>9. CASE HasRoom(n)
    BY <1>1, <1>3, <1>4, <1>6, <1>7, <1>9 DEF HasRoom, OverrunInv
<1>10. CASE DeleteListed(n)
  <2>1. PICK b \in dir : dir' = dir \ {b}
      BY <1>10 DEF DeleteListed, DeleteBack
  <2>2. Cardinality(dir') = size - 1 /\ Cardinality(dir') \in Nat
    <3>1. Cardinality(dir') = size - 1 /\ IsFiniteSet(dir')
        BY <2>1, RemoveFile
    <3> QED BY <3>1, FS_CardinalityType
  <2> QED BY <1>1, <1>3, <1>4, <1>5, <1>6, <1>7, <1>10, <2>2
          DEF DeleteListed, OverrunInv
<1>11. CASE DeleteFails(n)
  <2>1. dir' = dir /\ size = 0
      BY <1>3, <1>11, NothingToDelete, FS_EmptySet DEF DeleteFails
  <2>2. num_of_cid_files' = n
      BY <1>11 DEF DeleteFails
  <2> QED BY <1>1, <1>3, <1>4, <1>6, <2>1, <2>2 DEF OverrunInv
<1> QED BY <1>2, <1>8, <1>9, <1>10, <1>11

LEMMA OverrunStep ==
    ASSUME Basics, CacheOnDisk, OverrunInv, [Next]_vars
    PROVE  OverrunInv'
<1> USE CidStoreAssumption, DirCardinality
        DEF Basics, TypeOK, OverrunInv, RemovalsSucceed, Pending
<1>1. CASE Tick
    BY <1>1 DEF Tick
<1>2. CASE SetClockBack
    BY <1>2 DEF SetClockBack
<1>3. CASE Restart
    BY <1>3 DEF Restart, ForgetCache
<1>4. CASE Crash
    BY <1>4 DEF Crash, ForgetCache
<1>5. ASSUME NEW c \in Cids, StoreCid(c) PROVE OverrunInv'
  <2> DEFINE f == [name |-> c, mtime |-> now]
  <2>1. f \in File
      BY DEF File, Names
  <2>2. /\ dir' = dir \cup {f} /\ pc = "idle" /\ pc' = "check"
        /\ UNCHANGED <<env, num_of_cid_files, slips>>
      BY <1>5 DEF StoreCid
  <2>3. Cardinality(dir') \in {Cardinality(dir), Cardinality(dir) + 1}
      BY <2>1, <2>2, AddFile
  <2> HIDE DEF f
  <2> QED BY <2>2, <2>3
<1>6. CASE StoreFails
    BY <1>6 DEF StoreFails
<1>7. CASE CheckNumOfCIDFiles
    BY <1>7, OverrunCheck
<1>8. CASE UNCHANGED vars
    BY <1>8 DEF vars
<1> QED BY <1>1, <1>2, <1>3, <1>4, <1>5, <1>6, <1>7, <1>8 DEF Next

\* While the flash removes what it is told to, only a reset between a write and
\* its rotation leaves a file over the limit, one each: neither writes that
\* fail, nor names written twice, nor a clock set back, nor the count wrapping
\* around add any.
THEOREM BoundedOverrunHolds == Spec => []BoundedOverrun
<1>1. Init => OverrunInv
    BY FS_EmptySet, CidStoreAssumption DEF Init, OverrunInv, Pending
<1>2. Basics /\ CacheOnDisk /\ OverrunInv /\ [Next]_vars => OverrunInv'
    BY OverrunStep
<1>3. OverrunInv => BoundedOverrun
    BY DEF OverrunInv, BoundedOverrun
<1> QED BY <1>1, <1>2, <1>3, BasicsInvariant, CacheOnDiskHolds, PTL DEF Spec

-----------------------------------------------------------------------------
(* What goes is the oldest file of a full directory.                       *)

LEMMA ListedWhenFullStep ==
    ASSUME Basics, CountInv, ListedWhenFull, [Next]_vars
    PROVE  ListedWhenFull'
<1> SUFFICES ASSUME EveryStoreAddsAFile PROVE ListedWhenFull'
    BY EnvFixed DEF ListedWhenFull, EveryStoreAddsAFile
<1> DEFINE size == Cardinality(dir)
<1>0. Capacity \in Nat /\ size \in Nat
    BY CidStoreAssumption, DirCardinality DEF Basics
<1>a. Bag # {} => size >= Capacity - 1 + Pending
    BY DEF ListedWhenFull
<1>b. UNCHANGED <<dir, cid_files, pc>> => ListedWhenFull'
    BY <1>a DEF ListedWhenFull, Pending, Bag
<1>c. cid_files' = EmptyBag => ListedWhenFull'
    BY EmptyVector DEF ListedWhenFull, Bag
<1>d. ASSUME pc' = "idle", Cardinality(dir') >= Capacity - 1
      PROVE  ListedWhenFull'
  <2>1. Pending' = 0 /\ Capacity - 1 + 0 = Capacity - 1
      BY <1>0, <1>d DEF Pending
  <2> QED BY <1>d, <2>1 DEF ListedWhenFull
<1>1. CASE Tick
    BY <1>b, <1>1 DEF Tick
<1>2. CASE SetClockBack
    BY <1>b, <1>2 DEF SetClockBack
<1>3. CASE Restart
    BY <1>c, <1>3 DEF Restart, ForgetCache
<1>4. CASE Crash
    BY <1>c, <1>4 DEF Crash, ForgetCache
<1>5. ASSUME NEW c \in Cids, StoreCid(c) PROVE ListedWhenFull'
  <2> DEFINE f == [name |-> c, mtime |-> now]
  <2>1. f \in File
      BY DEF File, Names, Basics, TypeOK
  <2>2. /\ dir' = dir \cup {f} /\ f \notin dir
        /\ pc = "idle" /\ pc' = "check" /\ cid_files' = cid_files
      BY <1>5 DEF StoreCid, EveryStoreAddsAFile
  <2>3. Cardinality(dir') = size + 1
      BY <2>1, <2>2, AddFile
  <2>4. Bag' = Bag /\ Pending = 0 /\ Pending' = 1
      BY <2>2 DEF Bag, Pending
  <2> HIDE DEF f
  <2> QED BY <1>0, <1>a, <2>3, <2>4 DEF ListedWhenFull
<1>6. CASE StoreFails
    BY <1>6 DEF StoreFails, EveryStoreAddsAFile
<1>7. CASE CheckNumOfCIDFiles
  <2> DEFINE n == CountAfterStore
  <2>1. DeleteCached(n) \/ HasRoom(n) \/ DeleteListed(n) \/ DeleteFails(n)
      BY <1>7 DEF CheckNumOfCIDFiles
  <2>2. pc = "check" /\ pc' = "idle" /\ Pending = 1 /\ Pending' = 0
      BY <1>7 DEF CheckNumOfCIDFiles, Pending
  <2>3. n \in Nat /\ n <= size
      BY <2>2, CountOnDisk
  <2> HIDE DEF n
  <2>4. CASE DeleteCached(n)
    <3>1. back \in dir /\ dir' = dir \ {back}
        BY <2>4 DEF DeleteCached, DeleteBack
    <3>2. back # NoFile
        BY <3>1, CidStoreAssumption DEF Basics, TypeOK
    <3>3. Bag # {}
        BY <3>2, BackOfVector DEF Basics, TypeOK, Bag
    <3>4. Cardinality(dir') = size - 1
        BY <3>1, RemoveFile
    <3> QED BY <1>0, <1>a, <1>d, <2>2, <3>3, <3>4
  <2>5. CASE HasRoom(n)
    <3>1. dir' = dir /\ Bag' = Bag
        BY <2>5 DEF HasRoom, Bag
    <3> QED BY <1>0, <1>a, <2>2, <3>1 DEF ListedWhenFull
  <2>6. CASE DeleteListed(n)
    <3>1. PICK b \in dir : dir' = dir \ {b}
        BY <2>6 DEF DeleteListed, DeleteBack
    <3>2. Cardinality(dir') = size - 1 /\ n >= Capacity
        BY <2>6, <3>1, RemoveFile DEF DeleteListed
    <3> QED BY <1>0, <1>d, <2>2, <2>3, <3>2
  <2>7. CASE DeleteFails(n)
    <3>1. dir' = dir /\ n >= Capacity
        BY <2>7 DEF DeleteFails
    <3> QED BY <1>0, <1>d, <2>2, <2>3, <3>1
  <2> QED BY <2>1, <2>4, <2>5, <2>6, <2>7
<1>8. CASE UNCHANGED vars
    BY <1>b, <1>8 DEF vars
<1> QED BY <1>1, <1>2, <1>3, <1>4, <1>5, <1>6, <1>7, <1>8 DEF Next

LEMMA OrderStep ==
    ASSUME Basics, NothingFromTheFuture, VectorIsOldest, [Next]_vars
    PROVE  NothingFromTheFuture' /\ VectorIsOldest'
<1> SUFFICES ASSUME TimeIsOrder PROVE NothingFromTheFuture' /\ VectorIsOldest'
    BY EnvFixed
       DEF NothingFromTheFuture, VectorIsOldest, TimeIsOrder, EveryStoreAddsAFile
<1>0. /\ \A f \in dir \cup Bag : f.mtime \in Nat /\ f.mtime <= now
      /\ \A f \in Bag, g \in dir \ Bag : f.mtime <= g.mtime
      /\ now \in Nat
  <2>1. dir \cup Bag \subseteq File /\ now \in Times
      BY DEF Basics, TypeOK, Bag
  <2>2. \A f \in File : f.mtime \in Nat
      BY DEF File, Times
  <2> QED BY <2>1, <2>2, CidStoreAssumption
          DEF NothingFromTheFuture, VectorIsOldest, Times
\* Files only go, or are listed.
<1>a. ASSUME dir' \subseteq dir, Bag' \subseteq Bag \cup dir,
             dir' \ Bag' \subseteq dir \ Bag,
             Bag' \subseteq Bag \/ dir' \ Bag' = {},
             now' \in Nat, now' >= now
      PROVE  NothingFromTheFuture' /\ VectorIsOldest'
  <2>1. NothingFromTheFuture'
      BY <1>0, <1>a DEF NothingFromTheFuture
  <2>2. VectorIsOldest'
      BY <1>0, <1>a DEF VectorIsOldest
  <2> QED BY <2>1, <2>2
<1>b. UNCHANGED <<dir, cid_files>> => dir' = dir /\ Bag' = Bag
    BY DEF Bag
<1>c. cid_files' = EmptyBag => Bag' = {}
    BY EmptyVector DEF Bag
<1>1. CASE Tick
    BY <1>0, <1>a, <1>b, <1>1 DEF Tick
<1>2. CASE SetClockBack
    BY <1>2 DEF SetClockBack, TimeIsOrder
<1>3. ASSUME Restart \/ Crash PROVE NothingFromTheFuture' /\ VectorIsOldest'
  <2>1. dir' = dir /\ now' = now /\ Bag' = {}
      BY <1>c, <1>3 DEF Restart, Crash, ForgetCache
  <2>2. NothingFromTheFuture'
      BY <1>0, <2>1 DEF NothingFromTheFuture
  <2>3. VectorIsOldest'
      BY <2>1 DEF VectorIsOldest
  <2> QED BY <2>2, <2>3
<1>5. ASSUME NEW c \in Cids, StoreCid(c)
      PROVE  NothingFromTheFuture' /\ VectorIsOldest'
  <2> DEFINE f == [name |-> c, mtime |-> now]
  <2>1. f.mtime = now
      OBVIOUS
  <2>2. dir' = dir \cup {f} /\ now' = now /\ Bag' = Bag
      BY <1>5 DEF StoreCid, Bag
  <2> HIDE DEF f
  <2>3. NothingFromTheFuture'
      BY <1>0, <2>1, <2>2 DEF NothingFromTheFuture
  <2>4. VectorIsOldest'
      BY <1>0, <2>1, <2>2 DEF VectorIsOldest
  <2> QED BY <2>3, <2>4
<1>6. CASE StoreFails
    BY <1>0, <1>a, <1>b, <1>6 DEF StoreFails
<1>7. CASE CheckNumOfCIDFiles
  <2> DEFINE n == CountAfterStore
  <2>1. DeleteCached(n) \/ HasRoom(n) \/ DeleteListed(n) \/ DeleteFails(n)
      BY <1>7 DEF CheckNumOfCIDFiles
  <2>2. now' = now
      BY <1>7 DEF CheckNumOfCIDFiles
  <2> HIDE DEF n
  <2>3. CASE DeleteCached(n)
    <3>1. DeleteBack(cid_files, back) /\ IsABag(cid_files)
        BY <2>3 DEF DeleteCached, Basics, TypeOK
    <3>2. dir' = dir \ {back} /\ Bag' \subseteq Bag /\ Bag \ {back} \subseteq Bag'
        BY <3>1, DeleteBackEffect DEF Bag
    <3> QED BY <1>0, <1>a, <2>2, <3>2
  <2>4. CASE HasRoom(n)
      BY <1>0, <1>a, <1>b, <2>2, <2>4 DEF HasRoom
  <2>5. CASE DeleteListed(n)
    <3>1. PICK b \in Backs(Reloaded) : DeleteBack(Reloaded, b)
        BY <2>5 DEF DeleteListed
    <3>2. IsABag(Reloaded) /\ BagToSet(Reloaded) = Bag \cup dir
        BY ReloadedType
    <3>3. /\ dir' = dir \ {b} /\ Bag' \subseteq Bag \cup dir
          /\ (Bag \cup dir) \ {b} \subseteq Bag'
        BY <3>1, <3>2, DeleteBackEffect DEF Bag
    <3> QED BY <1>0, <1>a, <2>2, <3>3
  <2>6. CASE DeleteFails(n)
    <3>1. dir' = dir /\ Bag' = Bag \cup dir
        BY <2>6, ReloadedType DEF DeleteFails, Bag
    <3> QED BY <1>0, <1>a, <2>2, <3>1
  <2> QED BY <2>1, <2>3, <2>4, <2>5, <2>6
<1>8. CASE UNCHANGED vars
    BY <1>0, <1>a, <1>b, <1>8 DEF vars
<1> QED BY <1>1, <1>2, <1>3, <1>5, <1>6, <1>7, <1>8 DEF Next

HistoryInv ==
    Basics /\ CountInv /\ ListedWhenFull /\ NothingFromTheFuture /\ VectorIsOldest

LEMMA HistoryInvariant == Spec => []HistoryInv
<1>1. Init => ListedWhenFull /\ NothingFromTheFuture /\ VectorIsOldest
    BY EmptyVector
       DEF Init, ListedWhenFull, NothingFromTheFuture, VectorIsOldest, Bag
<1>2. HistoryInv /\ [Next]_vars
        => ListedWhenFull' /\ NothingFromTheFuture' /\ VectorIsOldest'
    BY ListedWhenFullStep, OrderStep DEF HistoryInv
<1> QED BY <1>1, <1>2, CountInvariant, PTL DEF Spec, HistoryInv

\* Retention counts as FiniteSets does.
LEMMA SameCardinality == ASSUME NEW S PROVE Exact!Cardinality(S) = Cardinality(S)
BY Zenon DEF Exact!Cardinality, Cardinality

\* What is shown to Retention, where something is.
LEMMA Shown ==
    ASSUME TimeIsOrder, env' = env
    PROVE  \A S, T : /\ (IF TimeIsOrder THEN S ELSE T) = S
                     /\ (IF TimeIsOrder' THEN S ELSE T) = S
BY DEF TimeIsOrder, EveryStoreAddsAFile

\* In the other environments nothing is.
LEMMA HiddenStep ==
    ASSUME ~TimeIsOrder, [Next]_vars
    PROVE  UNCHANGED Exact!vars
<1>1. ~TimeIsOrder'
    BY EnvFixed DEF TimeIsOrder, EveryStoreAddsAFile
<1> QED BY <1>1 DEF Exact!vars

\* A removal at the back, of what was cached or of what is listed now.
LEMMA RemovalExpires ==
    ASSUME TimeIsOrder, env' = env, created' = created,
           Cardinality(dir) >= Capacity,
           NEW b \in dir, dir' = dir \ {b},
           \A g \in dir : b.mtime <= g.mtime
    PROVE  Exact!Next
<1>1. Exact!Cardinality(dir) >= Capacity
    BY SameCardinality
<1>2. Exact!Expire(b)
    BY <1>1, Shown, Zenon DEF Exact!Expire
<1> QED BY <1>2 DEF Exact!Next

LEMMA RefinementStep ==
    ASSUME HistoryInv, [Next]_vars
    PROVE  [Exact!Next]_Exact!vars
<1> SUFFICES ASSUME TimeIsOrder PROVE [Exact!Next]_Exact!vars
    BY HiddenStep
<1>0. env' = env /\ EveryStoreAddsAFile
    BY EnvFixed DEF TimeIsOrder
<1>a. UNCHANGED <<dir, created>> => UNCHANGED Exact!vars
    BY <1>0 DEF Exact!vars, TimeIsOrder, EveryStoreAddsAFile
<1> USE DEF HistoryInv
<1>1. CASE Tick
    BY <1>a, <1>1 DEF Tick
<1>2. CASE SetClockBack
    BY <1>a, <1>2 DEF SetClockBack
<1>3. CASE Restart
    BY <1>a, <1>3 DEF Restart
<1>4. CASE Crash
    BY <1>a, <1>4 DEF Crash
<1>5. ASSUME NEW c \in Cids, StoreCid(c) PROVE Exact!Next
  <2> DEFINE f == [name |-> c, mtime |-> now]
  <2>1. f \in Exact!File
      BY DEF Exact!File, Names, Basics, TypeOK
  <2>2. Exact!Keep(f)
      BY <1>0, <1>5 DEF StoreCid, TimeIsOrder, EveryStoreAddsAFile, Exact!Keep
  <2> QED BY <2>1, <2>2 DEF Exact!Next
<1>6. CASE StoreFails
    BY <1>a, <1>6 DEF StoreFails
<1>7. CASE CheckNumOfCIDFiles
  <2> DEFINE n == CountAfterStore
  <2>1. DeleteCached(n) \/ HasRoom(n) \/ DeleteListed(n) \/ DeleteFails(n)
      BY <1>7 DEF CheckNumOfCIDFiles
  <2>2. pc = "check" /\ created' = created /\ Pending = 1
      BY <1>7 DEF CheckNumOfCIDFiles, Pending
  <2>3. n \in Nat /\ n <= Cardinality(dir)
      BY <1>0, <2>2, CountOnDisk
  <2>4. Capacity \in Nat /\ Cardinality(dir) \in Nat
      BY CidStoreAssumption, DirCardinality DEF Basics
  <2> HIDE DEF n
  <2>5. CASE DeleteCached(n)
    <3>1. back \in dir /\ dir' = dir \ {back}
        BY <2>5 DEF DeleteCached, DeleteBack
    <3>2. back # NoFile
        BY <3>1, CidStoreAssumption DEF Basics, TypeOK
    <3>3. back \in Bag /\ \A g \in Bag : back.mtime <= g.mtime
        BY <3>2, BackOfVector DEF Basics, TypeOK, Bag
    <3>4. \A g \in dir : back.mtime <= g.mtime
        BY <3>3 DEF VectorIsOldest
    <3>5. Cardinality(dir) >= Capacity
        BY <1>0, <2>2, <2>4, <3>3 DEF ListedWhenFull
    <3> QED BY <1>0, <2>2, <3>1, <3>4, <3>5, RemovalExpires
  <2>6. CASE HasRoom(n)
      BY <1>a, <2>2, <2>6 DEF HasRoom
  <2>7. CASE DeleteListed(n)
    <3>1. PICK b \in Backs(Reloaded) : b \in dir /\ dir' = dir \ {b}
        BY <2>7 DEF DeleteListed, DeleteBack
    <3>2. BagToSet(Reloaded) = Bag \cup dir
        BY ReloadedType
    <3>3. b # NoFile
        BY <3>1, CidStoreAssumption DEF Basics, TypeOK
    <3>4. \A g \in dir : b.mtime <= g.mtime
        BY <3>2, <3>3, BackOfVector
    <3>5. Cardinality(dir) >= Capacity
        BY <2>3, <2>4, <2>7 DEF DeleteListed
    <3> QED BY <1>0, <2>2, <3>1, <3>4, <3>5, RemovalExpires
  <2>8. CASE DeleteFails(n)
      BY <1>a, <2>2, <2>8 DEF DeleteFails
  <2> QED BY <2>1, <2>5, <2>6, <2>7, <2>8
<1>8. CASE UNCHANGED vars
    BY <1>a, <1>8 DEF vars
<1> QED BY <1>1, <1>2, <1>3, <1>4, <1>5, <1>6, <1>7, <1>8 DEF Next

\* Removing from the back of a vector listed many notarizations ago implements
\* the retention that MAX_CID_FILE_SIZE asks for, also when removals fail and
\* leave names of removed files, or second copies, in the vector.
THEOREM ImplementsRetentionHolds == Spec => ImplementsRetention
<1>1. Init => Exact!Init
    BY DEF Init, Exact!Init
<1>2. HistoryInv /\ [Next]_vars => [Exact!Next]_Exact!vars
    BY RefinementStep
<1> QED BY <1>1, <1>2, HistoryInvariant, PTL
        DEF Spec, Exact!Spec, ImplementsRetention

\* So no content notarized within the last MAX_CID_FILE_SIZE - 1 is missing.
THEOREM HistoryRetainedHolds == Spec => []HistoryRetained
<1>1. Exact!RetentionAssumption
    BY CidStoreAssumption DEF Times, Exact!RetentionAssumption
<1>2. Exact!Spec => []Exact!Retained
    BY <1>1, Exact!RetentionHolds
<1>3. Exact!Retained => HistoryRetained
    BY DEF HistoryRetained, Exact!Retained, R!Retained,
           Exact!NewerThan, R!NewerThan, Exact!Cardinality, R!Cardinality
<1> QED BY <1>2, <1>3, ImplementsRetentionHolds, PTL
        DEF ImplementsRetention

=============================================================================
