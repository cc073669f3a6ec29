--------------------------- MODULE MCSettingsLinux ---------------------------
(***************************************************************************)
(* SettingsLinux for TLC: two texts, so that one setting's can replace or  *)
(* be mistaken for another's, one of which begins the other.               *)
(***************************************************************************)
EXTENDS SettingsLinux

CONSTANTS t1, t2

OneBeginsTwo == [t \in Texts \cup {Empty} |-> IF t = t2 THEN {t1} ELSE {}]

EnvAll  == {"open", "write", "short", "crash", "read"}
EnvNone == {}
=============================================================================
