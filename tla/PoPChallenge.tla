----------------------------- MODULE PoPChallenge -----------------------------
(***************************************************************************)
(* Proof of participation on a Tasmota device.  For each PoP block the     *)
(* host reads the challenge from the chain (getPoPFromChain), and when it  *)
(* names this device as challenger (amIChallenger) picks one of the CIDs   *)
(* the challengee notarized (getCIDofChallengee) and asks for its content  *)
(* over MQTT (ChallengeChallengee).  The answer comes in by itself, later  *)
(* or never, and processPoPChallengeResponse turns it into a result for    *)
(* the chain.                                                              *)
(*                                                                         *)
(* Nothing but the two globals popParticipation and challengedCID connects *)
(* these calls, and the answer carries neither a block nor an address.     *)
(***************************************************************************)
EXTENDS Integers, FiniteSets

CONSTANTS
    Blocks,      \* heights of the PoP blocks, 1 .. n
    Addresses,   \* the devices
    Me,          \* this device
    Challenger,  \* [Blocks -> Addresses], as the chain has it
    Challengee,  \* [Blocks -> Addresses]
    CidsOf,      \* [Addresses -> SUBSET Cids], what each device notarized
    NoPoP,       \* popParticipation after resetPopInfo
    NoCid,       \* challengedCID after a start
    Envs         \* the environments to run in, sets of EnvEvents

(***************************************************************************)
(*   "http"      a query fails, or its answer cannot be parsed             *)
(*   "broadcast" the result does not reach the chain                       *)
(*   "loss"      MQTT loses a message                                      *)
(*   "reset"     the device restarts                                       *)
(*   "late"      a message is still under way when the next block comes    *)
(*   "dup"       MQTT delivers an answer again                             *)
(***************************************************************************)
EnvEvents == {"http", "broadcast", "loss", "reset", "late", "dup"}

ASSUME PoPAssumption ==
    /\ Blocks \subseteq Nat
    /\ Me \in Addresses
    /\ Challenger \in [Blocks -> Addresses]
    /\ Challengee \in [Blocks -> Addresses]
    /\ DOMAIN CidsOf = Addresses
    /\ NoPoP \notin Blocks
    /\ \A a \in Addresses : NoCid \notin CidsOf[a]
    /\ Envs \subseteq SUBSET EnvEvents

VARIABLES
    env,              \* what may go wrong; chosen at the start, then fixed
    block,            \* the last PoP block the host was told of
    popParticipation, \* the block whose challenge it holds, or NoPoP
    challengedCID,    \* the CID an answer has to name
    pc,               \* the host's next call for this block, or "idle"
    topics,           \* the devices whose POPCHALLENGERESULT is subscribed
    mqtt,             \* messages under way
    challenged,       \* history: the blocks this device put its challenge for
    results           \* history: the results that reached the chain

vars == <<env, block, popParticipation, challengedCID, pc, topics, mqtt,
          challenged, results>>

Cids == UNION {CidsOf[a] : a \in Addresses}

\* A message to or from device peer about CID cid; block is that of the
\* challenge, which no message and no global of the SDK carries along.
Message ==
    [kind : {"challenge", "content", "wrong", "malformed"},
     peer : Addresses, cid : Cids, block : Blocks]

\* popParticipation.challengee; resetPopInfo leaves an empty string.
ChallengeeOf(pop) == IF pop = NoPoP THEN NoPoP ELSE Challengee[pop]

Init ==
    /\ env \in Envs
    /\ block = 0
    /\ popParticipation = NoPoP
    /\ challengedCID = NoCid
    /\ pc = "idle"
    /\ topics = {}
    /\ mqtt = {}
    /\ challenged = {}
    /\ results = {}

-----------------------------------------------------------------------------
(* The host's calls for a new block.                                       *)

\* An answer that cannot be parsed clears popParticipation; one of length 0, or
\* no memory for it, leaves the previous challenge there.
PoPAfterFailure == {NoPoP, popParticipation}

\* Mutant: a failed query is reported as a success.
GetPoPAlwaysSucceeds ==
    /\ pc = "idle"
    /\ block + 1 \in Blocks
    /\ mqtt = {} \/ "late" \in env
    /\ block' = block + 1
    /\ \/ popParticipation' = block + 1
       \/ "http" \in env /\ popParticipation' \in PoPAfterFailure
    /\ pc' = "role"
    /\ UNCHANGED <<env, challengedCID, topics, mqtt, challenged, results>>

\* getPoPFromChain, for the next PoP block.
GetPoPFromChain ==
    /\ pc = "idle"
    /\ block + 1 \in Blocks
    /\ mqtt = {} \/ "late" \in env
    /\ block' = block + 1
    /\ \/ /\ popParticipation' = block + 1
          /\ pc' = "role"
       \/ /\ "http" \in env
          /\ popParticipation' \in PoPAfterFailure
          /\ UNCHANGED pc
    /\ UNCHANGED <<env, challengedCID, topics, mqtt, challenged, results>>

AmIChallenger ==
    /\ pc = "role"
    /\ pc' = IF popParticipation # NoPoP /\ Challenger[popParticipation] = Me
             THEN "cid" ELSE "idle"
    /\ UNCHANGED <<env, block, popParticipation, challengedCID, topics, mqtt,
                   challenged, results>>

\* Mutant: the CIDs are those of the challenger.
GetCIDofChallenger ==
    /\ pc = "cid"
    /\ challengedCID' \in CidsOf[Challenger[popParticipation]]
    /\ pc' = "challenge"
    /\ UNCHANGED <<env, block, popParticipation, topics, mqtt, challenged,
                   results>>

\* getCIDofChallengee: one of the CIDs of the challengee at random, or NULL.
GetCIDofChallengee ==
    /\ pc = "cid"
    /\ \/ /\ challengedCID' \in CidsOf[Challengee[popParticipation]]
          /\ pc' = "challenge"
       \/ /\ "http" \in env
          /\ pc' = "idle"
          /\ UNCHANGED challengedCID
    /\ UNCHANGED <<env, block, popParticipation, topics, mqtt, challenged,
                   results>>

\* Mutant: block 0 of the cleared memory is taken for a block.
ForgetToBlockZero ==
    /\ popParticipation' = 0
    /\ challengedCID' = NoCid
    /\ pc' = "idle"
    /\ topics' = {}

\* The memory of the SDK and the subscriptions after a start.
ForgetMemory ==
    /\ popParticipation' = NoPoP
    /\ challengedCID' = NoCid
    /\ pc' = "idle"
    /\ topics' = {}

\* Picking from an empty list divides by zero, and the device traps.
EmptyListTraps ==
    /\ pc = "cid"
    /\ CidsOf[Challengee[popParticipation]] = {}
    /\ ForgetMemory
    /\ UNCHANGED <<env, block, mqtt, challenged, results>>

\* ChallengeChallengee with address NULL.
ChallengeChallengee ==
    LET peer == Challengee[popParticipation]
    IN  /\ pc = "challenge"
        /\ pc' = "idle"
        /\ topics' = topics \cup {peer}
        /\ mqtt' = mqtt \cup {[kind |-> "challenge", peer |-> peer,
                               cid |-> challengedCID,
                               block |-> popParticipation]}
        /\ challenged' = challenged \cup {popParticipation}
        /\ UNCHANGED <<env, block, popParticipation, challengedCID, results>>

-----------------------------------------------------------------------------
(* The challengee and MQTT.                                                *)

\* The challengee answers with the content, with something else, or with
\* fields missing; the answer names the CID it was asked for.
Answer(m) ==
    /\ m.kind = "challenge"
    /\ \E kind \in {"content", "wrong", "malformed"} :
           mqtt' = (mqtt \ {m}) \cup {[m EXCEPT !.kind = kind]}
    /\ UNCHANGED <<env, block, popParticipation, challengedCID, pc, topics,
                   challenged, results>>

\* Lost, or not delivered because the topic is not subscribed.
Drop(m) ==
    /\ "loss" \in env \/ (m.kind # "challenge" /\ m.peer \notin topics)
    /\ mqtt' = mqtt \ {m}
    /\ UNCHANGED <<env, block, popParticipation, challengedCID, pc, topics,
                   challenged, results>>

-----------------------------------------------------------------------------
(* processPoPChallengeResponse.                                            *)

\* The answer has all its fields and is about the CID asked for.
Reports(m) ==
    /\ m.kind \in {"content", "wrong"}
    /\ m.cid = challengedCID

\* Mutant: the challenge is cleared before its result is made.
ResultAfterReset(m) ==
    [height     |-> NoPoP,
     challengee |-> NoPoP,
     success    |-> m.kind = "content",
     again      |-> FALSE,
     from       |-> m.peer,
     asked      |-> m.block,
     cid        |-> m.cid]

\* CreatePoPResult: block and challengee are those of popParticipation; from
\* whom the answer was, to which challenge, and whether that block has a result
\* already, is only known to the history.
Result(m) ==
    [height     |-> popParticipation,
     challengee |-> ChallengeeOf(popParticipation),
     success    |-> m.kind = "content",
     again      |-> \E r \in results : r.height = popParticipation,
     from       |-> m.peer,
     asked      |-> m.block,
     cid        |-> m.cid]

\* Mutant: no topic is unsubscribed.
KeepTopics(m) ==
    /\ m.kind # "challenge"
    /\ m.peer \in topics
    /\ mqtt' \in {mqtt \ {m}} \cup {mqtt : e \in env \cap {"dup"}}
    /\ \/ /\ Reports(m)
          /\ results' = results \cup {Result(m)}
       \/ /\ ~Reports(m) \/ "broadcast" \in env
          /\ UNCHANGED results
    /\ UNCHANGED <<env, block, popParticipation, challengedCID, pc, topics,
                   challenged>>

\* The topic unsubscribed is that of the challengee in popParticipation.
ProcessPoPChallengeResponse(m) ==
    /\ m.kind # "challenge"
    /\ m.peer \in topics
    /\ mqtt' \in {mqtt \ {m}} \cup {mqtt : e \in env \cap {"dup"}}
    /\ topics' = topics \ {ChallengeeOf(popParticipation)}
    /\ \/ /\ Reports(m)
          /\ results' = results \cup {Result(m)}
       \/ /\ ~Reports(m) \/ "broadcast" \in env
          /\ UNCHANGED results
    /\ UNCHANGED <<env, block, popParticipation, challengedCID, pc, challenged>>

Reset ==
    /\ "reset" \in env
    /\ ForgetMemory
    /\ UNCHANGED <<env, block, mqtt, challenged, results>>

Next ==
    \/ GetPoPFromChain
    \/ AmIChallenger
    \/ GetCIDofChallengee
    \/ EmptyListTraps
    \/ ChallengeChallengee
    \/ \E m \in mqtt : Answer(m) \/ Drop(m) \/ ProcessPoPChallengeResponse(m)
    \/ Reset

Spec == Init /\ [][Next]_vars

-----------------------------------------------------------------------------
(* Properties.                                                             *)

TypeOK ==
    /\ env \in SUBSET EnvEvents
    /\ block \in Blocks \cup {0}
    /\ popParticipation \in Blocks \cup {NoPoP}
    /\ challengedCID \in Cids \cup {NoCid}
    /\ pc \in {"idle", "role", "cid", "challenge"}
    /\ topics \subseteq Addresses
    /\ mqtt \subseteq Message
    /\ challenged \subseteq Blocks

\* An answer comes before the next block does, or never, however often.
Timely == "late" \notin env

\* While answers are timely a result is filed under the block and the
\* challengee whose answer it is about, although the answer names neither.
ResultsOnAnswerer ==
    Timely => \A r \in results : r.height = r.asked /\ r.challengee = r.from

\* Nothing in the SDK records that a block has been reported on: that a doubled
\* answer is not reported a second time rests on the subscription alone, and on
\* popParticipation to name it.
ReportedOnce ==
    Timely => \A r \in results : ~r.again

\* Whatever is late, doubled, lost or reset, a success is reported only on the
\* strength of the content of a CID that the device it came from notarized,
\* and that this device had asked for.  Whom the report names is not part of
\* it: a late answer is reported in the name of whoever popParticipation says.
SuccessIsProven ==
    \A r \in results : r.success =>
        r.asked \in challenged /\ r.cid \in CidsOf[r.from]

\* The topic unsubscribed is the one that had been subscribed, although only
\* popParticipation says which: as long as every challenge is answered in time,
\* a subscription is there only while its answer is still to come.
NoTopicLeft ==
    Timely /\ "loss" \notin env =>
        \A a \in topics : \E m \in mqtt : m.peer = a

\* While answers are timely, the device reports what it owes the network and
\* no more.  The mapping shows nothing of the other environments.
P == INSTANCE PoPReporting WITH
         challenged <- IF Timely THEN challenged ELSE {},
         reported   <- IF Timely
                       THEN {[height |-> r.height, success |-> r.success] :
                                 r \in results}
                       ELSE {}

ImplementsReporting == P!Spec

=============================================================================
