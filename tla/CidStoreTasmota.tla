--------------------------- MODULE CidStoreTasmota ---------------------------
(***************************************************************************)
(* The CID files on a Tasmota device (src/platform/tasmota).  The file     *)
(* system is slow to list, so the rotation keeps the vector cid_files of   *)
(* what it found, newest first, and removes from its back, one file per    *)
(* notarization, until the vector is used up; only then, and only when the *)
(* directory is full, does it list the directory again.                    *)
(*                                                                         *)
(* Only the back of the sorted vector is ever looked at, so the vector is  *)
(* a bag of files and its back, one of the oldest of the bag: std::sort    *)
(* leaves the order of equal seconds open.                                 *)
(***************************************************************************)
EXTENDS Integers, FiniteSets, Bags

CONSTANTS
    Cids,       \* the CIDs of the contents that get notarized
    Capacity,   \* MAX_CID_FILE_SIZE
    Word,       \* 2^32: num_of_cid_files is a uint32_t
    NoFile,     \* the back of an empty vector
    Envs,       \* the environments to run in, sets of EnvEvents
    MaxTime,    \* bound: the last second of the clock
    MaxSlips    \* bound: how often the rotation may fail to make room

\* What may go wrong around the store, as in CidStoreLinux.
EnvEvents == {"crash", "open", "rewrite", "remove", "clock"}

Times == 0 .. MaxTime
Names == Cids
File  == [name : Names, mtime : Times]

\* MAX_CID_FILE_SIZE is 1008; with room for a single file, a count that has
\* wrapped around would let a second one in.
ASSUME CidStoreAssumption ==
    /\ Capacity \in Nat /\ Capacity > 1
    /\ Word \in Nat /\ Capacity < Word
    /\ NoFile \notin File
    /\ MaxTime \in Nat
    /\ MaxSlips \in Nat
    /\ Envs \subseteq SUBSET EnvEvents

VARIABLES
    env,              \* what may go wrong; chosen at the start, then fixed
    dir,              \* the CID files of the flash file system
    cid_files,        \* the vector, as a bag
    back,             \* its last element
    num_of_cid_files, \* the cached count, 0 after a start
    now,              \* time()
    pc,               \* "idle", or "check" between the write and the rotation
    created,          \* history: every file that was ever in dir
    slips             \* history: crashes, and removals that failed, behind
                      \* which a file is left over

vars ==
    <<env, dir, cid_files, back, num_of_cid_files, now, pc, created, slips>>

Init ==
    /\ env \in Envs
    /\ dir = {}
    /\ cid_files = EmptyBag
    /\ back = NoFile
    /\ num_of_cid_files = 0
    /\ now = 0
    /\ pc = "idle"
    /\ created = {}
    /\ slips = 0

-----------------------------------------------------------------------------
(* The clock, and the device being reset between or inside calls.          *)

Tick ==
    /\ now < MaxTime
    /\ now' = now + 1
    /\ UNCHANGED <<env, dir, cid_files, back, num_of_cid_files, pc, created, slips>>

SetClockBack ==
    /\ "clock" \in env
    /\ \E t \in 0 .. now - 1 : now' = t
    /\ UNCHANGED <<env, dir, cid_files, back, num_of_cid_files, pc, created, slips>>

\* A reset loses the count and the vector.
ForgetCache ==
    /\ cid_files' = EmptyBag
    /\ back' = NoFile
    /\ num_of_cid_files' = 0

Restart ==
    /\ pc = "idle"
    /\ ForgetCache
    /\ UNCHANGED <<env, dir, now, pc, created, slips>>

Crash ==
    /\ "crash" \in env
    /\ pc = "check"
    /\ pc' = "idle"
    /\ ForgetCache
    /\ slips' = slips + 1
    /\ UNCHANGED <<env, dir, now, created>>

-----------------------------------------------------------------------------
(* Writing.                                                                *)

StoreCid(c) ==
    LET f == [name |-> c, mtime |-> now]
    IN  /\ pc = "idle"
        /\ slips < MaxSlips
        /\ f \in dir => "rewrite" \in env
        /\ dir' = dir \cup {f}
        /\ created' = created \cup {f}
        /\ pc' = "check"
        /\ UNCHANGED <<env, cid_files, back, num_of_cid_files, now, slips>>

\* TfsSaveFile fails; the workflow does not look at the result.
StoreFails ==
    /\ "open" \in env
    /\ pc = "idle"
    /\ slips < MaxSlips
    /\ pc' = "check"
    /\ UNCHANGED <<env, dir, cid_files, back, num_of_cid_files, now, created, slips>>

-----------------------------------------------------------------------------
(* checkNumOfCIDFiles and abstDeleteOldestCIDFile.                         *)

\* Mutant: a call that finds a cached count does not count its own file.
UncountedStore ==
    IF num_of_cid_files = 0 THEN Cardinality(dir) % Word ELSE num_of_cid_files

CountAfterStore ==
    IF num_of_cid_files = 0 THEN Cardinality(dir) % Word
                            ELSE (num_of_cid_files + 1) % Word

\* Mutant: the comparison of the sort is turned around.
NewestLast(bag) ==
    IF bag = EmptyBag THEN {NoFile}
    ELSE {f \in BagToSet(bag) : \A g \in BagToSet(bag) : f.mtime >= g.mtime}

\* What may be the last element of the vector, once sorted.
Backs(bag) ==
    IF bag = EmptyBag THEN {NoFile}
    ELSE {f \in BagToSet(bag) : \A g \in BagToSet(bag) : f.mtime <= g.mtime}

\* Mutant: the deleted file stays at the back of the vector.
DeleteBackWithoutPop(bag, b) ==
    /\ b \in dir
    /\ dir' = dir \ {b}
    /\ cid_files' = bag
    /\ back' = b

\* Mutant: the back of the vector is remembered across the removal.
DeleteBackStale(bag, b) ==
    /\ b \in dir
    /\ dir' = dir \ {b}
    /\ cid_files' = bag (-) SetToBag({b})
    /\ back' = b

\* tasmotaDeleteOldestCIDFiles on vector bag with last element b, returning 0.
DeleteBack(bag, b) ==
    /\ b \in dir
    /\ dir' = dir \ {b}
    /\ cid_files' = bag (-) SetToBag({b})
    /\ back' \in Backs(cid_files')

\* The same call returning -1: nothing to delete, no such file, or an error.
CannotDelete(b) == b \notin dir \/ "remove" \in env

\* tasmotaGetCIDFiles pushes every file behind what the vector still holds.
Reloaded == cid_files (+) SetToBag(dir)

DeleteCached(n) ==
    /\ DeleteBack(cid_files, back)
    /\ num_of_cid_files' = (n - 1) % Word
    /\ UNCHANGED slips

HasRoom(n) ==
    /\ CannotDelete(back)
    /\ n < Capacity
    /\ num_of_cid_files' = n
    /\ UNCHANGED <<dir, cid_files, back, slips>>

\* Mutant: the listing is done again before the directory is full.
DeleteListedEarly(n) ==
    /\ CannotDelete(back)
    /\ n >= Capacity - 1
    /\ \E b \in Backs(Reloaded) : DeleteBack(Reloaded, b)
    /\ num_of_cid_files' = n - 1
    /\ UNCHANGED slips

DeleteListed(n) ==
    /\ CannotDelete(back)
    /\ n >= Capacity
    /\ \E b \in Backs(Reloaded) : DeleteBack(Reloaded, b)
    /\ num_of_cid_files' = n - 1
    /\ UNCHANGED slips

\* Mutant: the count goes down although nothing was removed.
DeleteFailsUnnoticed(n) ==
    /\ CannotDelete(back)
    /\ n >= Capacity
    /\ \E b \in Backs(Reloaded) :
           /\ CannotDelete(b)
           /\ cid_files' = Reloaded
           /\ back' = b
           /\ slips' = IF b \in dir THEN slips + 1 ELSE slips
    /\ num_of_cid_files' = n - 1
    /\ UNCHANGED dir

DeleteFails(n) ==
    /\ CannotDelete(back)
    /\ n >= Capacity
    /\ \E b \in Backs(Reloaded) :
           /\ CannotDelete(b)
           /\ cid_files' = Reloaded
           /\ back' = b
           /\ slips' = IF b \in dir THEN slips + 1 ELSE slips
    /\ num_of_cid_files' = n
    /\ UNCHANGED dir

CheckNumOfCIDFiles ==
    LET n == CountAfterStore
    IN  /\ pc = "check"
        /\ pc' = "idle"
        /\ DeleteCached(n) \/ HasRoom(n) \/ DeleteListed(n) \/ DeleteFails(n)
        /\ UNCHANGED <<env, now, created>>

Next ==
    \/ Tick
    \/ SetClockBack
    \/ Restart
    \/ Crash
    \/ \E c \in Cids : StoreCid(c)
    \/ StoreFails
    \/ CheckNumOfCIDFiles

Spec == Init /\ [][Next]_vars

-----------------------------------------------------------------------------
(* Properties.                                                             *)

TypeOK ==
    /\ env \in SUBSET EnvEvents
    /\ dir \subseteq File
    /\ IsABag(cid_files) /\ BagToSet(cid_files) \subseteq File
    /\ back \in Backs(cid_files)
    /\ num_of_cid_files \in 0 .. Word - 1
    /\ now \in Times
    /\ pc \in {"idle", "check"}
    /\ created \subseteq File
    /\ slips \in Nat

Pending == IF pc = "check" THEN 1 ELSE 0

RemovalsSucceed == "remove" \notin env

\* Each call of the workflow leaves one more file.
EveryStoreAddsAFile == env \cap {"open", "rewrite"} = {}

\* And each later file has a later second.
TimeIsOrder == EveryStoreAddsAFile /\ "clock" \notin env

\* The cached vector is a listing of files that are there, each once: a name
\* that is gone, or a second copy of one, blocks the back of the vector, and
\* with it every later removal.
CacheOnDisk ==
    RemovalsSucceed =>
        \A f \in BagToSet(cid_files) : f \in dir /\ cid_files[f] = 1

\* The cached count, once taken, is the number of files on disk (as far as a
\* uint32_t can tell), although the removals follow the vector and not the
\* count.
CountTracksDisk ==
    EveryStoreAddsAFile /\ Cardinality(dir) < Word /\ num_of_cid_files # 0 =>
        num_of_cid_files + Pending = Cardinality(dir)

\* MAX_CID_FILE_SIZE is "One every hour, 42 days in total": that many files
\* and no more, but for those a crash inside the window leaves over.  Stores
\* that fail make the count run ahead until it wraps around, and that is no harm.
BoundedOverrun ==
    RemovalsSucceed /\ Capacity + slips < Word =>
        Cardinality(dir) <= Capacity - 1 + slips + Pending

\* The same with removals that fail, one file over for each such failure.
BoundedOverrunAlways == Cardinality(dir) <= Capacity - 1 + slips + Pending

R == INSTANCE Retention WITH kept <- dir, ever <- created

\* Although what goes is the back of a vector listed long ago, a file that is
\* missing is never one of the newest MAX_CID_FILE_SIZE - 1.
HistoryRetained == TimeIsOrder => R!Retained

\* Removing from the back of a vector listed long ago still implements
\* Retention: what goes is the oldest file of a full directory.
Exact == INSTANCE Retention WITH
             kept <- IF TimeIsOrder THEN dir ELSE {},
             ever <- IF TimeIsOrder THEN created ELSE {}

ImplementsRetention == Exact!Spec

=============================================================================
