---------------------------- MODULE MCTxPipeline ----------------------------
(***************************************************************************)
(* TxPipeline for TLC.                                                     *)
(***************************************************************************)
EXTENDS TxPipeline

Environment(platform, api, faults, challenger, max) ==
    [platform |-> platform, api |-> api, faults |-> faults, known |-> {},
     challenger |-> challenger, max |-> max]

\* A network that works; one that does not always, for a device with an attested
\* machine and for a new one; local faults; and an API setting never saved.
EnvsAll ==
    {Environment("linux", "default", {}, FALSE, 2),
     Environment("linux", "default", {"silent"}, TRUE, 1),
     Environment("linux", "elsewhere", {"encode", "seed"}, FALSE, 2),
     [Environment("linux", "default", {"silent", "lost"}, FALSE, 2) EXCEPT
          !.known = {CHOOSE s \in Seeds : TRUE}],
     Environment("linux", "default", {"error", "long", "evict", "crash"}, FALSE, 2),
     Environment("tasmota", "default", {}, FALSE, 3),
     Environment("tasmota", "default", {}, TRUE, 2),
     Environment("tasmota", "default", {"silent", "error", "lost", "evict", "crash"}, TRUE, 2),
     Environment("tasmota", "default", {"noanswer", "encode", "prepare", "seed"}, FALSE, 2)}

EnvsWorking ==
    {Environment(p, "default", {}, FALSE, 1) : p \in {"linux", "tasmota"}}
=============================================================================
