---------------------------- MODULE MCPoPChallenge ----------------------------
(***************************************************************************)
(* PoPChallenge for TLC: this device is the challenger of three blocks out *)
(* of four, the first two on different devices that have notarized one     *)
(* content in common, the last on a device that has notarized nothing.     *)
(***************************************************************************)
EXTENDS PoPChallenge

CONSTANTS me, d1, d2, d3, c1, c2, c3

MCBlocks     == 1 .. 4
MCAddresses  == {me, d1, d2, d3}
MCChallenger == <<me, me, d1, me>>
MCChallengee == <<d1, d2, d2, d3>>
MCCidsOf     == [a \in MCAddresses |->
                    CASE a = d1 -> {c1, c2}
                      [] a = d2 -> {c2}
                      [] a = me -> {c3}
                      [] OTHER  -> {}]

\* Answers in time or never; answers always, and in time, but doubled; and
\* everything.
EnvsAll == {{"http", "broadcast", "loss", "reset"},
            {"http", "broadcast", "reset", "dup"},
            EnvEvents}
=============================================================================
