------------------------------ MODULE Retention ------------------------------
(***************************************************************************)
(* What the CID file store promises, on either platform, without saying    *)
(* how it counts or finds files: notarized contents are kept one file      *)
(* each, and a file goes only while the directory is full, oldest first.   *)
(* include/rddlSDKAbst.h states the size of "full": MAX_CID_FILE_SIZE is   *)
(* "One every hour, 42 days in total".                                     *)
(***************************************************************************)
EXTENDS Integers, FiniteSets, FiniteSetTheorems, TLAPS

CONSTANTS
    Names,      \* what a file is named after
    Times,      \* the seconds of the clock that stamps files
    Capacity    \* MAX_CID_FILE_SIZE

\* What the theorems below ask of the constants.
RetentionAssumption ==
    /\ Times \subseteq Nat
    /\ Capacity \in Nat

VARIABLES
    kept,       \* the files in the directory
    ever        \* every file that was ever in it

vars == <<kept, ever>>

File == [name : Names, mtime : Times]

Init ==
    /\ kept = {}
    /\ ever = {}

Keep(f) ==
    /\ f \notin kept
    /\ kept' = kept \cup {f}
    /\ ever' = ever \cup {f}

\* Mutant: any file may go, not only the oldest.
ExpireAny(f) ==
    /\ Cardinality(kept) >= Capacity
    /\ kept' = kept \ {f}
    /\ UNCHANGED ever

Expire(f) ==
    /\ Cardinality(kept) >= Capacity
    /\ \A g \in kept : f.mtime <= g.mtime
    /\ kept' = kept \ {f}
    /\ UNCHANGED ever

Next ==
    \/ \E f \in File : Keep(f)
    \/ \E f \in kept : Expire(f)

Spec == Init /\ [][Next]_vars

NewerThan(f) == {g \in kept : g.mtime >= f.mtime}

\* A stored file is missing only when a full directory of files at least as
\* new as it (less the one slot the next file needs) is there in its place:
\* the 42 days of history of the comment on MAX_CID_FILE_SIZE.
Retained == \A f \in ever \ kept : Cardinality(NewerThan(f)) >= Capacity - 1

TypeOK ==
    /\ kept \subseteq File
    /\ ever \subseteq File
    /\ kept \subseteq ever
    /\ IsFiniteSet(kept)

-----------------------------------------------------------------------------
(* Retained is inductive together with TypeOK.                             *)

LEMMA NewerThanIsFinite ==
    ASSUME TypeOK, NEW f
    PROVE  IsFiniteSet(NewerThan(f)) /\ Cardinality(NewerThan(f)) \in Nat
BY FS_Subset, FS_CardinalityType DEF TypeOK, NewerThan

\* Every step keeps the files typed and finitely many.
LEMMA TypeStep == TypeOK /\ [Next]_vars => TypeOK'
<1> SUFFICES ASSUME TypeOK, [Next]_vars PROVE TypeOK'
    OBVIOUS
<1>1. ASSUME NEW f \in File, Keep(f) PROVE TypeOK'
    BY <1>1, FS_AddElement DEF Keep, TypeOK
<1>2. ASSUME NEW f \in kept, Expire(f) PROVE TypeOK'
    BY <1>2, FS_RemoveElement DEF Expire, TypeOK
<1>3. CASE UNCHANGED vars
    BY <1>3 DEF vars, TypeOK
<1> QED BY <1>1, <1>2, <1>3 DEF Next

\* A new file only adds to what is newer than a missing one.
LEMMA KeepRetains ==
    ASSUME RetentionAssumption, TypeOK, TypeOK', Retained,
           NEW f \in File, Keep(f)
    PROVE  Retained'
<1> SUFFICES ASSUME NEW g \in ever' \ kept'
             PROVE  Cardinality(NewerThan(g)') >= Capacity - 1
    BY DEF Retained, NewerThan
<1>1. g \in ever \ kept
    BY DEF Keep
<1>2. NewerThan(g) \subseteq NewerThan(g)'
    BY DEF NewerThan, Keep
<1>3. IsFiniteSet(NewerThan(g)')
    BY FS_Subset DEF TypeOK, NewerThan
<1>4. /\ Cardinality(NewerThan(g)) \in Nat
      /\ Cardinality(NewerThan(g)') \in Nat
    BY <1>3, NewerThanIsFinite, FS_CardinalityType
<1>5. Cardinality(NewerThan(g)) <= Cardinality(NewerThan(g)')
    BY <1>2, <1>3, FS_Subset
<1> QED BY <1>1, <1>4, <1>5 DEF RetentionAssumption, Retained

\* What expires is the oldest of at least Capacity files: all the others are
\* at least as new as it, and as whatever went before it.
LEMMA ExpireRetains ==
    ASSUME RetentionAssumption, TypeOK, Retained,
           NEW f \in kept, Expire(f)
    PROVE  Retained'
<1> SUFFICES ASSUME NEW g \in ever' \ kept'
             PROVE  Cardinality(NewerThan(g)') >= Capacity - 1
    BY DEF Retained, NewerThan
<1> DEFINE rest == kept \ {f}
<1>1. kept' = rest /\ ever' = ever
    BY DEF Expire
<1>2. \A h \in kept \cup {g} : h.mtime \in Nat
    BY <1>1 DEF RetentionAssumption, TypeOK, File
<1>3. CASE f.mtime >= g.mtime
  <2>1. NewerThan(g)' = rest
      BY <1>1, <1>2, <1>3 DEF NewerThan, Expire
  <2>2. Cardinality(rest) = Cardinality(kept) - 1
      BY FS_RemoveElement DEF TypeOK
  <2>3. Cardinality(kept) \in Nat /\ Cardinality(kept) >= Capacity
      BY FS_CardinalityType DEF TypeOK, Expire
  <2> QED BY <2>1, <2>2, <2>3 DEF RetentionAssumption
<1>4. CASE ~(f.mtime >= g.mtime)
  <2>1. g # f
      BY <1>2, <1>4
  <2>2. g \in ever \ kept
      BY <2>1, <1>1
  <2>3. NewerThan(g)' = NewerThan(g)
      BY <1>1, <1>4 DEF NewerThan
  <2> QED BY <2>2, <2>3 DEF Retained
<1> QED BY <1>3, <1>4

\* The newest Capacity - 1 files are never the ones that are missing, whatever
\* files are stored and whenever the oldest of a full directory goes.
THEOREM RetentionHolds ==
    ASSUME RetentionAssumption
    PROVE  Spec => []Retained
<1>1. Init => TypeOK /\ Retained
    BY FS_EmptySet DEF Init, TypeOK, Retained
<1>2. TypeOK /\ Retained /\ [Next]_vars => (TypeOK /\ Retained)'
  <2> SUFFICES ASSUME TypeOK, Retained, [Next]_vars
               PROVE  TypeOK' /\ Retained'
      OBVIOUS
  <2>1. TypeOK'
      BY TypeStep
  <2>2. ASSUME NEW f \in File, Keep(f) PROVE Retained'
      BY <2>1, <2>2, KeepRetains
  <2>3. ASSUME NEW f \in kept, Expire(f) PROVE Retained'
      BY <2>3, ExpireRetains
  <2>4. CASE UNCHANGED vars
      BY <2>1, <2>4 DEF vars, Retained, NewerThan
  <2> QED BY <2>1, <2>2, <2>3, <2>4 DEF Next
<1> QED BY <1>1, <1>2, PTL DEF Spec

=============================================================================
