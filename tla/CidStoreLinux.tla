---------------------------- MODULE CidStoreLinux ----------------------------
(***************************************************************************)
(* The files the notarization workflow leaves in CID_FILE_DIRECTORY ("./") *)
(* on Linux, and the rotation that bounds their number:                    *)
(*   rddl_writefile, checkNumOfCIDFiles, abstGetNumOfCIDFiles and          *)
(*   abstDeleteOldestCIDFile of src/rddlSDKUtils.c and                     *)
(*   src/platform/linux/rddlSDKAbst.c.                                     *)
(*                                                                         *)
(* A directory entry is counted as a CID file when its name is longer than *)
(* 20 characters.  A CID file is named by its CID followed by the second   *)
(* it was written in, so <<name, mtime>> identifies it; the one other      *)
(* long-named file the SDK writes there, the setting                       *)
(* "notarizationperiodicity", has one entry whatever its mtime.            *)
(***************************************************************************)
EXTENDS Integers, FiniteSets

CONSTANTS
    Cids,        \* the CIDs of the contents that get notarized
    Periodicity, \* the name of SETTINGS_PERIODICITY_FILE
    Capacity,    \* MAX_CID_FILE_SIZE
    Word,        \* 2^32: num_of_cid_files is a uint32_t
    Envs,        \* the environments to run in, sets of EnvEvents
    MaxTime,     \* bound: the last second of the clock
    MaxSlips     \* bound: how often the rotation may fail to make room

(***************************************************************************)
(*   "crash"    the process dies between the write and the rotation        *)
(*   "open"     open() of the new file fails; the caller ignores that      *)
(*   "rewrite"  the same content is notarized twice within a second        *)
(*   "remove"   remove() of the oldest file fails                          *)
(*   "opendir"  opendir() fails                                            *)
(*   "clock"    the clock is set back                                      *)
(*   "settings" sdkSetSetting writes the periodicity                       *)
(***************************************************************************)
EnvEvents ==
    {"crash", "open", "rewrite", "remove", "opendir", "clock", "settings"}

ASSUME CidStoreAssumption ==
    /\ Capacity \in Nat \ {0}
    /\ Word \in Nat /\ Capacity < Word
    /\ MaxTime \in Nat
    /\ MaxSlips \in Nat
    /\ Periodicity \notin Cids
    /\ Envs \subseteq SUBSET EnvEvents

VARIABLES
    env,              \* what may go wrong; chosen at the start, then fixed
    dir,              \* the long-named entries of CID_FILE_DIRECTORY
    num_of_cid_files, \* the cached count, 0 after a start
    now,              \* time(NULL)
    pc,               \* "idle", or "check" between the write and the rotation
    created,          \* history: every entry that was ever in dir
    slips             \* history: new files that no removal made up for

vars == <<env, dir, num_of_cid_files, now, pc, created, slips>>

Times == 0 .. MaxTime
Names == Cids \cup {Periodicity}
File  == [name : Names, mtime : Times]

\* Each call of the workflow leaves one more file, and nothing else does.
EveryStoreAddsAFile == env \subseteq {"crash", "remove", "clock"}

Init ==
    /\ env \in Envs
    /\ dir = {}
    /\ num_of_cid_files = 0
    /\ now = 0
    /\ pc = "idle"
    /\ created = {}
    /\ slips = 0

-----------------------------------------------------------------------------
(* The clock, and the process being started again between two calls.       *)

Tick ==
    /\ now < MaxTime
    /\ now' = now + 1
    /\ UNCHANGED <<env, dir, num_of_cid_files, pc, created, slips>>

SetClockBack ==
    /\ "clock" \in env
    /\ \E t \in 0 .. now - 1 : now' = t
    /\ UNCHANGED <<env, dir, num_of_cid_files, pc, created, slips>>

Restart ==
    /\ pc = "idle"
    /\ num_of_cid_files' = 0
    /\ UNCHANGED <<env, dir, now, pc, created, slips>>

Crash ==
    /\ "crash" \in env
    /\ pc = "check"
    /\ pc' = "idle"
    /\ num_of_cid_files' = 0
    /\ slips' = slips + 1
    /\ UNCHANGED <<env, dir, now, created>>

-----------------------------------------------------------------------------
(* Writing.                                                                *)

\* rddl_writefile of CID c, stamped with the current second.  Writing the
\* name of an existing file truncates it: no entry is added.
StoreCid(c) ==
    LET f == [name |-> c, mtime |-> now]
    IN  /\ pc = "idle"
        /\ slips < MaxSlips
        /\ f \in dir => "rewrite" \in env
        /\ dir' = dir \cup {f}
        /\ created' = created \cup {f}
        /\ pc' = "check"
        /\ UNCHANGED <<env, num_of_cid_files, now, slips>>

\* rddl_writefile reports the failed open, the workflow goes on regardless.
StoreFails ==
    /\ "open" \in env
    /\ pc = "idle"
    /\ slips < MaxSlips
    /\ pc' = "check"
    /\ UNCHANGED <<env, dir, num_of_cid_files, now, created, slips>>

\* setSetting(SDK_SET_NOTARIZTATION_PERIODICITY): same directory, long name,
\* and no checkNumOfCIDFiles behind it.
SetPeriodicity ==
    LET f   == [name |-> Periodicity, mtime |-> now]
        old == {g \in dir : g.name = Periodicity}
    IN  /\ "settings" \in env
        /\ pc = "idle"
        /\ slips < MaxSlips
        /\ dir' = (dir \ old) \cup {f}
        /\ created' = created \cup {f}
        /\ slips' = IF old = {} THEN slips + 1 ELSE slips
        /\ UNCHANGED <<env, num_of_cid_files, now, pc>>

-----------------------------------------------------------------------------
(* checkNumOfCIDFiles: count, and remove one file when there are too many. *)

\* Mutant: the count is kept in an int.
SignedDirCount ==
    {Cardinality(dir) % Word} \cup {0 - 1 : e \in env \cap {"opendir"}}

\* abstGetNumOfCIDFiles as a uint32_t; its -1 becomes the largest one.
DirCount == {Cardinality(dir) % Word} \cup {Word - 1 : e \in env \cap {"opendir"}}

\* Mutant: a call that finds a cached count does not count its own file.
UncountedStore == IF num_of_cid_files = 0 THEN DirCount ELSE {num_of_cid_files}

\* The count abstDeleteOldestCIDFile compares with MAX_CID_FILE_SIZE.
CountAfterStore ==
    IF num_of_cid_files = 0 THEN DirCount ELSE {(num_of_cid_files + 1) % Word}

\* Mutant: the comparison of the scan is turned around.
Newest == {f \in dir : \A g \in dir : f.mtime >= g.mtime}

\* The scan of abstDeleteOldestCIDFile starts from the current time, and takes
\* a file only when it is strictly older than the best one so far.
Oldest == {f \in dir : f.mtime < now /\ \A g \in dir : f.mtime <= g.mtime}

\* Mutant: > for >= in the comparison with MAX_CID_FILE_SIZE.
HasRoomForOneMore(n) ==
    /\ n <= Capacity
    /\ num_of_cid_files' = n
    /\ UNCHANGED <<dir, slips>>

HasRoom(n) ==
    /\ n < Capacity
    /\ num_of_cid_files' = n
    /\ UNCHANGED <<dir, slips>>

\* Mutant: the rotation makes room before it has to.
DeleteOldestEarly(n) ==
    /\ n >= Capacity - 1
    /\ \E f \in Oldest : dir' = dir \ {f}
    /\ num_of_cid_files' = n - 1
    /\ UNCHANGED slips

DeleteOldest(n) ==
    /\ n >= Capacity
    /\ \E f \in Oldest : dir' = dir \ {f}
    /\ num_of_cid_files' = n - 1
    /\ UNCHANGED slips

\* Mutant: the count goes down although the removal failed.
DeleteFailsUnnoticed(n) ==
    /\ n >= Capacity
    /\ Oldest = {} \/ env \cap {"remove", "opendir"} # {}
    /\ num_of_cid_files' = n - 1
    /\ slips' = slips + 1
    /\ UNCHANGED dir

DeleteFails(n) ==
    /\ n >= Capacity
    /\ Oldest = {} \/ env \cap {"remove", "opendir"} # {}
    /\ num_of_cid_files' = n
    /\ slips' = slips + 1
    /\ UNCHANGED dir

CheckNumOfCIDFiles ==
    /\ pc = "check"
    /\ pc' = "idle"
    /\ \E n \in CountAfterStore : HasRoom(n) \/ DeleteOldest(n) \/ DeleteFails(n)
    /\ UNCHANGED <<env, now, created>>

Next ==
    \/ Tick
    \/ SetClockBack
    \/ Restart
    \/ Crash
    \/ \E c \in Cids : StoreCid(c)
    \/ StoreFails
    \/ SetPeriodicity
    \/ CheckNumOfCIDFiles

Spec == Init /\ [][Next]_vars

-----------------------------------------------------------------------------
(* Properties.                                                             *)

TypeOK ==
    /\ env \in SUBSET EnvEvents
    /\ dir \subseteq File
    /\ IsFiniteSet(dir)
    /\ num_of_cid_files \in 0 .. Word - 1
    /\ now \in Times
    /\ pc \in {"idle", "check"}
    /\ created \subseteq File
    /\ slips \in Nat

\* A file written but not yet rotated for.
Pending == IF pc = "check" THEN 1 ELSE 0

\* abstGetNumOfCIDFiles always gets to list the directory, and the uint32_t
\* count can hold as many files as the slips let the disk hold.
CountIsReal == "opendir" \notin env /\ Capacity + slips < Word

\* The setting files that may have been created beside the count.
Missed == IF "settings" \in env THEN slips ELSE 0

\* Calls that leave no file, failed removals, crashes and restarts never make the
\* cached count fall behind the disk, and setting files only by as many as were
\* created: a count that is too small would stop the rotation and fill the disk.
NeverUndercounts ==
    CountIsReal /\ num_of_cid_files # 0 =>
        num_of_cid_files + Pending + Missed >= Cardinality(dir)

\* The cached count of checkNumOfCIDFiles, once taken, is the number of files
\* on disk: increments and decrements made across calls, failed removals and
\* restarts never drift from what abstGetNumOfCIDFiles would count.
CountTracksDisk ==
    CountIsReal /\ EveryStoreAddsAFile /\ num_of_cid_files # 0 =>
        num_of_cid_files + Pending = Cardinality(dir)

\* The disk holds at most MAX_CID_FILE_SIZE - 1 files between calls; each crash
\* inside the window, each failed removal and each setting file created beside
\* the count costs at most one more.
BoundedOverrun ==
    CountIsReal => Cardinality(dir) <= Capacity - 1 + slips + Pending

\* What the store owes to Retention, and R!Retained what that owes to its user.
R == INSTANCE Retention WITH kept <- dir, ever <- created

\* While every call leaves a file, the newest MAX_CID_FILE_SIZE - 1 files are
\* never missing, however the count is cached and removals fail.
HistoryRetained == EveryStoreAddsAFile => R!Retained

\* The same of every environment: include/rddlSDKAbst.h:18 has MAX_CID_FILE_SIZE
\* files stand for 42 days of hourly notarizations.
FullHistoryRetained == R!Retained

\* The store implements Retention: it removes a file only while the directory
\* is full, and only the oldest.  Only where every call leaves a file: the
\* mapping shows nothing of the other environments.
Exact == INSTANCE Retention WITH
             kept <- IF EveryStoreAddsAFile THEN dir ELSE {},
             ever <- IF EveryStoreAddsAFile THEN created ELSE {}

ImplementsRetention == Exact!Spec

=============================================================================
