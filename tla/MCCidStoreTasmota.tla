-------------------------- MODULE MCCidStoreTasmota --------------------------
(***************************************************************************)
(* CidStoreTasmota for TLC: room for three files, so that the vector       *)
(* outlives the call that filled it by one notarization or more.           *)
(***************************************************************************)
EXTENDS CidStoreTasmota, TLC

\* Removals that fail, and everything else.
EnvsAll == {{"crash", "remove"}, {"crash", "open", "rewrite", "clock"}}

\* Contents are only ever compared for equality.
CidSymmetry == Permutations(Cids)

EnvsRemove == {{"remove"}}
=============================================================================
