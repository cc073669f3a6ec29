----------------------------- MODULE PoPReporting -----------------------------
(***************************************************************************)
(* What a device owes the network as challenger in proof of participation: *)
(* it reports on a block only when the block made it the challenger, only  *)
(* on the challenge it put for that block, and once.                       *)
(***************************************************************************)
CONSTANTS
    Blocks,      \* block heights with a PoP challenge
    Challenger,  \* [Blocks -> Addresses]
    Me           \* the address of this device

VARIABLES
    challenged,  \* the blocks for which this device has put its challenge
    reported     \* [height, success] for every result it sent

vars == <<challenged, reported>>

Init ==
    /\ challenged = {}
    /\ reported = {}

Challenge(b) ==
    /\ Challenger[b] = Me
    /\ challenged' = challenged \cup {b}
    /\ UNCHANGED reported

Report(b, success) ==
    /\ b \in challenged
    /\ \A r \in reported : r.height # b
    /\ reported' = reported \cup {[height |-> b, success |-> success]}
    /\ UNCHANGED challenged

Next ==
    \E b \in Blocks :
        \/ Challenge(b)
        \/ \E success \in BOOLEAN : Report(b, success)

Spec == Init /\ [][Next]_vars

=============================================================================
