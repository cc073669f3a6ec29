------------------------------ MODULE TxDelivery ------------------------------
(***************************************************************************)
(* What a caller may take for granted of the calls that end in a           *)
(* transaction: a call it has been told nothing came of never turns up on  *)
(* the chain after all, and a call that is on the chain is never said to   *)
(* have failed.  It promises nothing of a call said to have been sent.     *)
(***************************************************************************)
EXTENDS Naturals

CONSTANT MaxCalls   \* calls are numbered

VARIABLES
    asked,      \* the number of calls made
    delivered,  \* the calls whose transaction is on the chain
    refused     \* the calls that were said to have failed

vars == <<asked, delivered, refused>>

Open == (1 .. asked) \ (delivered \cup refused)

Init ==
    /\ asked = 0
    /\ delivered = {}
    /\ refused = {}

Ask ==
    /\ asked < MaxCalls
    /\ asked' = asked + 1
    /\ refused' \in {refused, refused \cup {asked + 1}}
    /\ UNCHANGED delivered

Deliver(c) ==
    /\ c \in Open
    /\ delivered' = delivered \cup {c}
    /\ UNCHANGED <<asked, refused>>

Refuse(c) ==
    /\ c \in Open
    /\ refused' = refused \cup {c}
    /\ UNCHANGED <<asked, delivered>>

Next == Ask \/ \E c \in Open : Deliver(c) \/ Refuse(c)

Spec == Init /\ [][Next]_vars

=============================================================================
