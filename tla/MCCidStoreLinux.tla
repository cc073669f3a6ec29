--------------------------- MODULE MCCidStoreLinux ---------------------------
(***************************************************************************)
(* CidStoreLinux for TLC: room for three files and a word small enough     *)
(* that a count of -1 is told from every other reachable count.            *)
(***************************************************************************)
EXTENDS CidStoreLinux, TLC

\* Every call leaves one more file; a new file may be missing or double; a count
\* may be -1; and everything but that, setting files included.
EnvsAll == {{"crash", "remove", "clock"},
            {"crash", "remove", "open", "rewrite"},
            {"opendir"},
            EnvEvents \ {"opendir"}}

\* Contents are only ever compared for equality.
CidSymmetry == Permutations(Cids)

EnvsOpen == {{"open"}}
=============================================================================
