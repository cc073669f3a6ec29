-------------------------- MODULE PoPChallengeProofs --------------------------
(***************************************************************************)
(* Theorems about PoPChallenge, for all blocks, devices, contents and      *)
(* assignments of challengers and challengees to blocks.                   *)
(***************************************************************************)
EXTENDS PoPChallenge, TLAPS

-----------------------------------------------------------------------------
(* The inductive invariant.                                                *)

\* In the middle of its calls for a block the host holds that block's
\* challenge, goes on only as its challenger, and with a CID of its challengee.
HostInv ==
    /\ pc # "idle" => popParticipation \in Blocks /\ popParticipation = block
    /\ pc \in {"cid", "challenge"} => Challenger[popParticipation] = Me
    /\ pc = "challenge" => challengedCID \in CidsOf[Challengee[popParticipation]]

\* What is under way goes back to a challenge of this device.
MqttInv ==
    \A m \in mqtt : m.block \in challenged /\ m.cid \in CidsOf[m.peer]

\* With timely answers, only the challenge of the last block is ever open, and
\* until it is closed the device remembers it or has been reset.
OpenInv ==
    Timely =>
        /\ \A m1, m2 \in mqtt : m1 = m2
        /\ mqtt # {} => pc = "idle"
        /\ \A m \in mqtt :
               /\ m.block = block /\ m.peer = Challengee[block]
               /\ popParticipation = block \/ topics = {}

\* The answer to a message under way would be delivered.
Awaited == \E m \in mqtt : m.peer \in topics

\* A challenge that may still be answered has no result yet.
ReportedInv ==
    Timely =>
        /\ \A r \in results : r.height \in Nat /\ r.height <= block
        /\ pc # "idle" \/ Awaited => \A r \in results : r.height # block

-----------------------------------------------------------------------------
(* Types, and what every step leaves alone.                                *)

LEMMA EnvFixed == [Next]_vars => env' = env
BY DEF Next, vars, GetPoPFromChain, AmIChallenger, GetCIDofChallengee,
       EmptyListTraps, ChallengeChallengee, Answer, Drop,
       ProcessPoPChallengeResponse, Reset

LEMMA MessageFields ==
    ASSUME NEW m \in Message
    PROVE  /\ m.peer \in Addresses /\ m.cid \in Cids /\ m.block \in Blocks
           /\ \A kind : /\ [m EXCEPT !.kind = kind].kind = kind
                        /\ [m EXCEPT !.kind = kind].peer = m.peer
                        /\ [m EXCEPT !.kind = kind].cid = m.cid
                        /\ [m EXCEPT !.kind = kind].block = m.block
           /\ \A kind \in {"content", "wrong", "malformed"} :
                  [m EXCEPT !.kind = kind] \in Message
BY DEF Message

\* The challenge sent for the block at hand.
Sent == [kind |-> "challenge", peer |-> Challengee[popParticipation],
         cid |-> challengedCID, block |-> popParticipation]

LEMMA SentFields ==
    /\ Sent.kind = "challenge" /\ Sent.peer = Challengee[popParticipation]
    /\ Sent.cid = challengedCID /\ Sent.block = popParticipation
BY DEF Sent

LEMMA ChallengeSends ==
    ASSUME ChallengeChallengee
    PROVE  /\ pc = "challenge" /\ pc' = "idle"
           /\ mqtt' = mqtt \cup {Sent}
           /\ challenged' = challenged \cup {popParticipation}
           /\ topics' = topics \cup {Challengee[popParticipation]}
           /\ UNCHANGED <<env, block, popParticipation, challengedCID, results>>
BY DEF ChallengeChallengee, Sent

LEMMA CidsAreCids ==
    ASSUME NEW a \in Addresses
    PROVE  CidsOf[a] \subseteq Cids
BY DEF Cids

LEMMA SentType ==
    ASSUME TypeOK, HostInv, pc = "challenge"
    PROVE  /\ Sent \in Message /\ popParticipation \in Blocks
           /\ popParticipation = block /\ Challenger[popParticipation] = Me
           /\ Challengee[popParticipation] \in Addresses
           /\ challengedCID \in CidsOf[Challengee[popParticipation]]
<1>1. /\ popParticipation \in Blocks /\ popParticipation = block
      /\ Challenger[popParticipation] = Me
      /\ challengedCID \in CidsOf[Challengee[popParticipation]]
    BY DEF HostInv
<1>2. Challengee[popParticipation] \in Addresses
    BY <1>1, PoPAssumption
<1>3. challengedCID \in Cids
    BY <1>1, <1>2, CidsAreCids
<1> QED BY <1>1, <1>2, <1>3 DEF Sent, Message

LEMMA TypeStep == TypeOK /\ HostInv /\ [Next]_vars => TypeOK'
<1> SUFFICES ASSUME TypeOK, HostInv, [Next]_vars PROVE TypeOK'
    OBVIOUS
<1> USE PoPAssumption DEF TypeOK
<1>1. CASE GetPoPFromChain
    BY <1>1 DEF GetPoPFromChain, PoPAfterFailure
<1>2. CASE AmIChallenger
    BY <1>2 DEF AmIChallenger
<1>3. CASE GetCIDofChallengee
  <2>1. popParticipation \in Blocks
      BY <1>3 DEF GetCIDofChallengee, HostInv
  <2>2. CidsOf[Challengee[popParticipation]] \subseteq Cids
      BY <2>1, CidsAreCids
  <2> QED BY <1>3, <2>2 DEF GetCIDofChallengee
<1>4. CASE EmptyListTraps
    BY <1>4 DEF EmptyListTraps, ForgetMemory
<1>5. CASE ChallengeChallengee
    BY <1>5, ChallengeSends, SentType
<1>6. ASSUME NEW m \in mqtt, Answer(m) PROVE TypeOK'
  <2>1. PICK kind \in {"content", "wrong", "malformed"} :
            mqtt' = (mqtt \ {m}) \cup {[m EXCEPT !.kind = kind]}
      BY <1>6 DEF Answer
  <2>2. [m EXCEPT !.kind = kind] \in Message
      BY MessageFields
  <2> QED BY <1>6, <2>1, <2>2 DEF Answer
<1>7. ASSUME NEW m \in mqtt, Drop(m) PROVE TypeOK'
    BY <1>7 DEF Drop
<1>8. ASSUME NEW m \in mqtt, ProcessPoPChallengeResponse(m) PROVE TypeOK'
    BY <1>8 DEF ProcessPoPChallengeResponse
<1>9. CASE Reset
    BY <1>9 DEF Reset, ForgetMemory
<1>10. CASE UNCHANGED vars
    BY <1>10 DEF vars
<1> QED BY <1>1, <1>2, <1>3, <1>4, <1>5, <1>6, <1>7, <1>8, <1>9, <1>10 DEF Next

LEMMA HostStep == TypeOK /\ HostInv /\ [Next]_vars => HostInv'
<1> SUFFICES ASSUME TypeOK, HostInv, [Next]_vars PROVE HostInv'
    OBVIOUS
<1> USE DEF HostInv
<1>1. CASE GetPoPFromChain
    BY <1>1 DEF GetPoPFromChain
<1>2. CASE AmIChallenger
    BY <1>2 DEF AmIChallenger
<1>3. CASE GetCIDofChallengee
    BY <1>3 DEF GetCIDofChallengee
<1>4. CASE EmptyListTraps
    BY <1>4 DEF EmptyListTraps, ForgetMemory
<1>5. CASE ChallengeChallengee
    BY <1>5 DEF ChallengeChallengee
<1>6. ASSUME NEW m \in mqtt, Answer(m) PROVE HostInv'
    BY <1>6 DEF Answer
<1>7. ASSUME NEW m \in mqtt, Drop(m) PROVE HostInv'
    BY <1>7 DEF Drop
<1>8. ASSUME NEW m \in mqtt, ProcessPoPChallengeResponse(m) PROVE HostInv'
    BY <1>8 DEF ProcessPoPChallengeResponse
<1>9. CASE Reset
    BY <1>9 DEF Reset, ForgetMemory
<1>10. CASE UNCHANGED vars
    BY <1>10 DEF vars
<1> QED BY <1>1, <1>2, <1>3, <1>4, <1>5, <1>6, <1>7, <1>8, <1>9, <1>10 DEF Next

LEMMA HostInvariant == Spec => [](TypeOK /\ HostInv)
<1>1. Init => TypeOK /\ HostInv
    BY PoPAssumption DEF Init, TypeOK, HostInv
<1> QED BY <1>1, TypeStep, HostStep, PTL DEF Spec

\* The globals of the SDK, the subscriptions and the messages keep their types.
THEOREM TypeCorrect == Spec => []TypeOK
BY HostInvariant, PTL

-----------------------------------------------------------------------------
(* A success is proven, whatever happens to the messages.                  *)

ProofInv == MqttInv /\ SuccessIsProven

LEMMA ProofStep == TypeOK /\ HostInv /\ ProofInv /\ [Next]_vars => ProofInv'
<1> SUFFICES ASSUME TypeOK, HostInv, ProofInv, [Next]_vars PROVE ProofInv'
    OBVIOUS
<1> USE DEF ProofInv, MqttInv, SuccessIsProven
<1>a. /\ mqtt' \subseteq mqtt /\ results' = results
      /\ challenged \subseteq challenged'
      => ProofInv'
    OBVIOUS
<1>1. CASE GetPoPFromChain
    BY <1>a, <1>1 DEF GetPoPFromChain
<1>2. CASE AmIChallenger
    BY <1>a, <1>2 DEF AmIChallenger
<1>3. CASE GetCIDofChallengee
    BY <1>a, <1>3 DEF GetCIDofChallengee
<1>4. CASE EmptyListTraps
    BY <1>a, <1>4 DEF EmptyListTraps
<1>5. CASE ChallengeChallengee
    BY <1>5, ChallengeSends, SentType, SentFields
<1>6. ASSUME NEW m \in mqtt, Answer(m) PROVE ProofInv'
  <2>1. PICK kind : mqtt' = (mqtt \ {m}) \cup {[m EXCEPT !.kind = kind]}
      BY <1>6 DEF Answer
  <2>2. results' = results /\ challenged' = challenged
      BY <1>6 DEF Answer
  <2>3. /\ [m EXCEPT !.kind = kind].block = m.block
        /\ [m EXCEPT !.kind = kind].cid = m.cid
        /\ [m EXCEPT !.kind = kind].peer = m.peer
      BY MessageFields DEF TypeOK
  <2> QED BY <2>1, <2>2, <2>3
<1>7. ASSUME NEW m \in mqtt, Drop(m) PROVE ProofInv'
    BY <1>a, <1>7 DEF Drop
<1>8. ASSUME NEW m \in mqtt, ProcessPoPChallengeResponse(m) PROVE ProofInv'
  <2>1. /\ mqtt' \subseteq mqtt /\ challenged' = challenged
        /\ results' \subseteq results \cup {Result(m)}
      BY <1>8 DEF ProcessPoPChallengeResponse
  <2>2. /\ Result(m).asked = m.block /\ Result(m).cid = m.cid
        /\ Result(m).from = m.peer
      BY DEF Result
  <2> QED BY <2>1, <2>2
<1>9. CASE Reset
    BY <1>a, <1>9 DEF Reset
<1>10. CASE UNCHANGED vars
    BY <1>a, <1>10 DEF vars
<1> QED BY <1>1, <1>2, <1>3, <1>4, <1>5, <1>6, <1>7, <1>8, <1>9, <1>10 DEF Next

LEMMA ProofInvariant == Spec => []ProofInv
<1>1. Init => ProofInv
    BY DEF Init, ProofInv, MqttInv, SuccessIsProven
<1> QED BY <1>1, ProofStep, HostInvariant, PTL DEF Spec

\* Whatever is late, doubled, lost or reset, and although popParticipation and
\* challengedCID may be those of another block by the time an answer comes, a
\* success rests on a content that the device it came from had notarized, and
\* on a challenge of this device.  It says nothing of whom the report names.
THEOREM SuccessIsProvenHolds == Spec => []SuccessIsProven
BY ProofInvariant, PTL DEF ProofInv

-----------------------------------------------------------------------------
(* Timely answers.                                                         *)

LEMMA OpenStep == TypeOK /\ HostInv /\ OpenInv /\ [Next]_vars => OpenInv'
<1> SUFFICES ASSUME TypeOK, HostInv, OpenInv, [Next]_vars, Timely PROVE OpenInv'
    BY EnvFixed DEF OpenInv, Timely
<1>0. /\ \A m1, m2 \in mqtt : m1 = m2
      /\ mqtt # {} => pc = "idle"
      /\ \A m \in mqtt :
             /\ m.block = block /\ m.peer = Challengee[block]
             /\ popParticipation = block \/ topics = {}
    BY DEF OpenInv
<1>a. mqtt' = {} => OpenInv'
    BY DEF OpenInv
<1>b. ASSUME mqtt' \subseteq mqtt, block' = block, pc' = pc,
             \/ popParticipation' = popParticipation /\ topics' \subseteq topics
             \/ topics' = {}
      PROVE  OpenInv'
    BY <1>0, <1>b DEF OpenInv
<1>1. CASE GetPoPFromChain
    BY <1>a, <1>1 DEF GetPoPFromChain, Timely
<1>2. CASE AmIChallenger
    BY <1>0, <1>a, <1>2 DEF AmIChallenger
<1>3. CASE GetCIDofChallengee
    BY <1>0, <1>a, <1>3 DEF GetCIDofChallengee
<1>4. CASE EmptyListTraps
    BY <1>0, <1>a, <1>4 DEF EmptyListTraps
<1>5. CASE ChallengeChallengee
  <2>1. mqtt = {}
      BY <1>0, <1>5 DEF ChallengeChallengee
  <2>2. mqtt' = {Sent} /\ pc' = "idle"
      BY <1>5, <2>1, ChallengeSends
  <2>3. /\ Sent.block = block' /\ Sent.peer = Challengee[block']
        /\ popParticipation' = block'
      BY <1>5, ChallengeSends, SentType, SentFields
  <2> QED BY <2>2, <2>3 DEF OpenInv
<1>6. ASSUME NEW m \in mqtt, Answer(m) PROVE OpenInv'
  <2>1. PICK kind : mqtt' = (mqtt \ {m}) \cup {[m EXCEPT !.kind = kind]}
      BY <1>6 DEF Answer
  <2>2. mqtt' = {[m EXCEPT !.kind = kind]}
      BY <1>0, <2>1
  <2>3. /\ [m EXCEPT !.kind = kind].block = m.block
        /\ [m EXCEPT !.kind = kind].peer = m.peer
      BY MessageFields DEF TypeOK
  <2>4. UNCHANGED <<block, popParticipation, pc, topics>>
      BY <1>6 DEF Answer
  <2> QED BY <1>0, <2>2, <2>3, <2>4 DEF OpenInv
<1>7. ASSUME NEW m \in mqtt, Drop(m) PROVE OpenInv'
    BY <1>b, <1>7 DEF Drop
<1>8. ASSUME NEW m \in mqtt, ProcessPoPChallengeResponse(m) PROVE OpenInv'
    BY <1>b, <1>8 DEF ProcessPoPChallengeResponse
<1>9. CASE Reset
    BY <1>0, <1>9 DEF Reset, ForgetMemory, OpenInv
<1>10. CASE UNCHANGED vars
    BY <1>b, <1>10 DEF vars
<1> QED BY <1>1, <1>2, <1>3, <1>4, <1>5, <1>6, <1>7, <1>8, <1>9, <1>10 DEF Next

\* When an answer comes in time, popParticipation is the challenge it is about.
LEMMA AnswerIsToLast ==
    ASSUME TypeOK, OpenInv, Timely, NEW m \in mqtt,
           ProcessPoPChallengeResponse(m)
    PROVE  /\ popParticipation \in Blocks /\ popParticipation = block
           /\ popParticipation = m.block
           /\ ChallengeeOf(popParticipation) = m.peer
           /\ topics' = topics \ {m.peer} /\ mqtt = {m}
           /\ mqtt' \subseteq mqtt /\ pc = "idle"
<1>1. m.peer \in topics
    BY DEF ProcessPoPChallengeResponse
<1>2. /\ m.block = block /\ m.peer = Challengee[block]
      /\ popParticipation = block /\ pc = "idle"
    BY <1>1 DEF OpenInv
<1>3. popParticipation \in Blocks
    BY <1>2 DEF TypeOK, Message
<1>4. /\ mqtt' \subseteq mqtt
      /\ topics' = topics \ {ChallengeeOf(popParticipation)}
    BY DEF ProcessPoPChallengeResponse
<1>5. mqtt = {m}
    BY DEF OpenInv
<1>6. ChallengeeOf(popParticipation) = m.peer
    BY <1>2, <1>3, PoPAssumption DEF ChallengeeOf
<1> QED BY <1>2, <1>3, <1>4, <1>5, <1>6

LEMMA OpenInvariant == Spec => [](TypeOK /\ HostInv /\ OpenInv)
<1>1. Init => OpenInv
    BY DEF Init, OpenInv
<1> QED BY <1>1, OpenStep, HostInvariant, PTL DEF Spec

LEMMA ResultsChange ==
    ASSUME [Next]_vars, results' # results
    PROVE  \E m \in mqtt : /\ ProcessPoPChallengeResponse(m)
                           /\ results' = results \cup {Result(m)}
BY DEF Next, vars, GetPoPFromChain, AmIChallenger, GetCIDofChallengee,
       EmptyListTraps, ChallengeChallengee, Answer, Drop,
       ProcessPoPChallengeResponse, Reset

\* As long as every answer comes before the next block or never, the result is
\* filed under the block and the challengee whose answer it is about.
THEOREM ResultsOnAnswererHolds == Spec => []ResultsOnAnswerer
<1>1. Init => ResultsOnAnswerer
    BY DEF Init, ResultsOnAnswerer
<1>2. TypeOK /\ OpenInv /\ ResultsOnAnswerer /\ [Next]_vars => ResultsOnAnswerer'
  <2> SUFFICES ASSUME TypeOK, OpenInv, ResultsOnAnswerer, [Next]_vars, Timely
               PROVE  ResultsOnAnswerer'
      BY EnvFixed DEF ResultsOnAnswerer, Timely
  <2>1. CASE results' = results
      BY <2>1 DEF ResultsOnAnswerer
  <2>2. CASE results' # results
    <3>1. PICK m \in mqtt : /\ ProcessPoPChallengeResponse(m)
                            /\ results' = results \cup {Result(m)}
        BY <2>2, ResultsChange
    <3>2. /\ Result(m).height = popParticipation /\ Result(m).asked = m.block
          /\ Result(m).challengee = ChallengeeOf(popParticipation)
          /\ Result(m).from = m.peer
        BY DEF Result
    <3> QED BY <3>1, <3>2, AnswerIsToLast DEF ResultsOnAnswerer
  <2> QED BY <2>1, <2>2
<1> QED BY <1>1, <1>2, OpenInvariant, PTL DEF Spec

LEMMA TopicStep ==
    ASSUME TypeOK, HostInv, OpenInv, NoTopicLeft, [Next]_vars
    PROVE  NoTopicLeft'
<1> SUFFICES ASSUME Timely, "loss" \notin env PROVE NoTopicLeft'
    BY EnvFixed DEF NoTopicLeft, Timely
<1>0. \A a \in topics : \E m \in mqtt : m.peer = a
    BY DEF NoTopicLeft
<1>a. mqtt' = mqtt /\ topics' \subseteq topics => NoTopicLeft'
    BY <1>0 DEF NoTopicLeft
<1>1. CASE GetPoPFromChain
    BY <1>a, <1>1 DEF GetPoPFromChain
<1>2. CASE AmIChallenger
    BY <1>a, <1>2 DEF AmIChallenger
<1>3. CASE GetCIDofChallengee
    BY <1>a, <1>3 DEF GetCIDofChallengee
<1>4. CASE EmptyListTraps
    BY <1>a, <1>4 DEF EmptyListTraps, ForgetMemory
<1>5. CASE ChallengeChallengee
  <2>1. /\ topics' = topics \cup {Challengee[popParticipation]}
        /\ mqtt' = mqtt \cup {Sent}
      BY <1>5, ChallengeSends
  <2> QED BY <1>0, <2>1, SentFields DEF NoTopicLeft
<1>6. ASSUME NEW m \in mqtt, Answer(m) PROVE NoTopicLeft'
  <2>1. PICK kind : mqtt' = (mqtt \ {m}) \cup {[m EXCEPT !.kind = kind]}
      BY <1>6 DEF Answer
  <2>2. [m EXCEPT !.kind = kind].peer = m.peer
      BY MessageFields DEF TypeOK
  <2>3. topics' = topics
      BY <1>6 DEF Answer
  <2> QED BY <1>0, <2>1, <2>2, <2>3 DEF NoTopicLeft
<1>7. ASSUME NEW m \in mqtt, Drop(m) PROVE NoTopicLeft'
  <2>1. m.peer \notin topics /\ mqtt' = mqtt \ {m} /\ topics' = topics
      BY <1>7 DEF Drop
  <2> QED BY <1>0, <2>1 DEF NoTopicLeft
<1>8. ASSUME NEW m \in mqtt, ProcessPoPChallengeResponse(m) PROVE NoTopicLeft'
  <2>1. topics' = topics \ {m.peer} /\ mqtt = {m}
      BY <1>8, AnswerIsToLast
  <2>2. topics' = {}
      BY <1>0, <2>1
  <2> QED BY <2>2 DEF NoTopicLeft
<1>9. CASE Reset
    BY <1>a, <1>9 DEF Reset, ForgetMemory
<1>10. CASE UNCHANGED vars
    BY <1>a, <1>10 DEF vars
<1> QED BY <1>1, <1>2, <1>3, <1>4, <1>5, <1>6, <1>7, <1>8, <1>9, <1>10 DEF Next

\* If every challenge is answered in time, what processPoPChallengeResponse
\* unsubscribes is the topic that ChallengeChallengee had subscribed, although
\* it only has popParticipation to tell it by.
THEOREM NoTopicLeftHolds == Spec => []NoTopicLeft
<1>1. Init => NoTopicLeft
    BY DEF Init, NoTopicLeft
<1> QED BY <1>1, TopicStep, OpenInvariant, PTL DEF Spec

-----------------------------------------------------------------------------
(* With timely answers, the device implements PoPReporting.                *)

LEMMA ReportedStep ==
    ASSUME TypeOK, HostInv, OpenInv, ReportedInv, [Next]_vars
    PROVE  ReportedInv'
<1> SUFFICES ASSUME Timely PROVE ReportedInv'
    BY EnvFixed DEF ReportedInv, Timely
<1>0. /\ \A r \in results : r.height \in Nat /\ r.height <= block
      /\ pc # "idle" \/ Awaited => \A r \in results : r.height # block
    BY DEF ReportedInv
<1>a. ASSUME results' = results, block' = block,
             pc' # "idle" \/ Awaited' => pc # "idle" \/ Awaited
      PROVE  ReportedInv'
    BY <1>0, <1>a DEF ReportedInv
<1>b. mqtt' \subseteq mqtt /\ topics' \subseteq topics => (Awaited' => Awaited)
    BY DEF Awaited
<1>1. CASE GetPoPFromChain
  <2>1. results' = results /\ block' = block + 1 /\ block \in Nat
      BY <1>1, PoPAssumption DEF GetPoPFromChain, TypeOK
  <2>2. \A r \in results' : /\ r.height \in Nat /\ r.height <= block'
                            /\ r.height # block'
      BY <1>0, <2>1
  <2> QED BY <2>2 DEF ReportedInv
<1>2. CASE AmIChallenger
    BY <1>a, <1>b, <1>2 DEF AmIChallenger
<1>3. CASE GetCIDofChallengee
    BY <1>a, <1>b, <1>3 DEF GetCIDofChallengee
<1>4. CASE EmptyListTraps
    BY <1>a, <1>b, <1>4 DEF EmptyListTraps, ForgetMemory
<1>5. CASE ChallengeChallengee
    BY <1>a, <1>5, ChallengeSends
<1>6. ASSUME NEW m \in mqtt, Answer(m) PROVE ReportedInv'
  <2>1. PICK kind : mqtt' = (mqtt \ {m}) \cup {[m EXCEPT !.kind = kind]}
      BY <1>6 DEF Answer
  <2>2. [m EXCEPT !.kind = kind].peer = m.peer
      BY MessageFields DEF TypeOK
  <2>3. topics' = topics
      BY <1>6 DEF Answer
  <2>4. Awaited' => Awaited
      BY <2>1, <2>2, <2>3 DEF Awaited
  <2> QED BY <1>a, <1>6, <2>4 DEF Answer
<1>7. ASSUME NEW m \in mqtt, Drop(m) PROVE ReportedInv'
    BY <1>a, <1>b, <1>7 DEF Drop
<1>8. ASSUME NEW m \in mqtt, ProcessPoPChallengeResponse(m) PROVE ReportedInv'
  <2>1. /\ results' \subseteq results \cup {Result(m)}
        /\ block' = block /\ pc' = pc
      BY <1>8 DEF ProcessPoPChallengeResponse
  <2>2. /\ topics' = topics \ {m.peer} /\ mqtt = {m} /\ mqtt' \subseteq mqtt
        /\ pc = "idle" /\ popParticipation \in Nat /\ popParticipation = block
      BY <1>8, AnswerIsToLast, PoPAssumption
  <2>3. Result(m).height = popParticipation
      BY DEF Result
  <2>4. ~Awaited'
      BY <2>2 DEF Awaited
  <2> QED BY <1>0, <2>1, <2>2, <2>3, <2>4 DEF ReportedInv
<1>9. CASE Reset
    BY <1>a, <1>b, <1>9 DEF Reset, ForgetMemory
<1>10. CASE UNCHANGED vars
    BY <1>a, <1>b, <1>10 DEF vars
<1> QED BY <1>1, <1>2, <1>3, <1>4, <1>5, <1>6, <1>7, <1>8, <1>9, <1>10 DEF Next

ReportingInv == TypeOK /\ HostInv /\ MqttInv /\ OpenInv /\ ReportedInv

LEMMA DeliveredIsAwaited ==
    ASSUME NEW m \in mqtt, ProcessPoPChallengeResponse(m)
    PROVE  Awaited
BY DEF ProcessPoPChallengeResponse, Awaited

LEMMA ReportingInvariant == Spec => []ReportingInv
<1>1. Init => ReportedInv
    BY DEF Init, ReportedInv
<1> QED BY <1>1, ReportedStep, OpenInvariant, ProofInvariant, PTL
        DEF Spec, ReportingInv, ProofInv

\* While answers are timely no block gets a second report, though nothing
\* records that it had its first, and an answer may come again after it.
THEOREM ReportedOnceHolds == Spec => []ReportedOnce
<1>1. Init => ReportedOnce
    BY DEF Init, ReportedOnce
<1>2. ReportingInv /\ ReportedOnce /\ [Next]_vars => ReportedOnce'
  <2> SUFFICES ASSUME ReportingInv, ReportedOnce, [Next]_vars, Timely
               PROVE  ReportedOnce'
      BY EnvFixed DEF ReportedOnce, Timely
  <2>1. CASE results' = results
      BY <2>1 DEF ReportedOnce
  <2>2. CASE results' # results
    <3>1. PICK m \in mqtt : /\ ProcessPoPChallengeResponse(m)
                            /\ results' = results \cup {Result(m)}
        BY <2>2, ResultsChange
    <3>2. popParticipation = block
        BY <3>1, AnswerIsToLast DEF ReportingInv
    <3>3. \A r \in results : r.height # popParticipation
        BY <3>1, <3>2, DeliveredIsAwaited DEF ReportingInv, ReportedInv
    <3>4. Result(m).again = \E r \in results : r.height = popParticipation
        BY DEF Result
    <3>5. ~Result(m).again
        BY <3>3, <3>4
    <3> QED BY <3>1, <3>5 DEF ReportedOnce
  <2> QED BY <2>1, <2>2
<1> QED BY <1>1, <1>2, ReportingInvariant, PTL DEF Spec

\* What PoPReporting sees of the results.
Filed(S) == {[height |-> r.height, success |-> r.success] : r \in S}

LEMMA Shown ==
    ASSUME Timely, env' = env
    PROVE  \A S, T : /\ (IF Timely THEN S ELSE T) = S
                     /\ (IF Timely' THEN S ELSE T) = S
BY DEF Timely

LEMMA HiddenStep ==
    ASSUME ~Timely, [Next]_vars
    PROVE  UNCHANGED P!vars
<1>1. ~Timely'
    BY EnvFixed DEF Timely
<1> QED BY <1>1 DEF P!vars

LEMMA ChallengeIsDue ==
    ASSUME TypeOK, HostInv, Timely, env' = env, ChallengeChallengee
    PROVE  P!Next
<1> DEFINE b == popParticipation
<1>1. /\ b \in Blocks /\ Challenger[b] = Me
      /\ challenged' = challenged \cup {b} /\ results' = results
    BY ChallengeSends, SentType
<1>2. P!Challenge(b)
    BY <1>1, Shown DEF P!Challenge
<1> QED BY <1>1, <1>2 DEF P!Next

LEMMA ReportIsDue ==
    ASSUME ReportingInv, Timely, env' = env,
           NEW m \in mqtt, ProcessPoPChallengeResponse(m),
           results' = results \cup {Result(m)}
    PROVE  P!Next
<1> DEFINE b == popParticipation
           success == m.kind = "content"
<1>1. b \in Blocks /\ b = block /\ b = m.block
    BY AnswerIsToLast DEF ReportingInv
<1>2. b \in challenged
    BY <1>1 DEF ReportingInv, MqttInv
<1>3. \A r \in results : r.height # b
    BY <1>1, DeliveredIsAwaited DEF ReportingInv, ReportedInv
<1>4. Result(m).height = b /\ (Result(m).success = success)
    BY DEF Result
<1>5. /\ Filed(results') = Filed(results) \cup {[height |-> b, success |-> success]}
      /\ challenged' = challenged
    BY <1>4 DEF Filed, ProcessPoPChallengeResponse
<1>6. \A f \in Filed(results) : f.height # b
    BY <1>3 DEF Filed
<1>7. P!Report(b, success)
    BY <1>2, <1>5, <1>6, Shown DEF P!Report, Filed
<1> QED BY <1>1, <1>7 DEF P!Next

LEMMA ReportingStep ==
    ASSUME ReportingInv, [Next]_vars
    PROVE  [P!Next]_(P!vars)
<1> SUFFICES ASSUME Timely PROVE [P!Next]_(P!vars)
    BY HiddenStep
<1>0. env' = env
    BY EnvFixed
<1>a. UNCHANGED <<challenged, results>> => UNCHANGED P!vars
    BY <1>0 DEF P!vars, Timely
<1>1. CASE ChallengeChallengee
    BY <1>0, <1>1, ChallengeIsDue DEF ReportingInv
<1>2. CASE results' # results
  <2>1. PICK m \in mqtt : /\ ProcessPoPChallengeResponse(m)
                          /\ results' = results \cup {Result(m)}
      BY <1>2, ResultsChange
  <2> QED BY <1>0, <2>1, ReportIsDue
<1>3. CASE results' = results /\ ~ChallengeChallengee
  <2>1. challenged' = challenged
      BY <1>3 DEF Next, vars, GetPoPFromChain, AmIChallenger,
             GetCIDofChallengee, EmptyListTraps, Answer, Drop,
             ProcessPoPChallengeResponse, Reset
  <2> QED BY <1>a, <1>3, <2>1
<1> QED BY <1>1, <1>2, <1>3

\* While answers are timely the device, with nothing but popParticipation and
\* challengedCID from one call to the next, puts a challenge only for a block
\* that made it the challenger, and reports only on a challenge it has put, and
\* once.
THEOREM ImplementsReportingHolds == Spec => ImplementsReporting
<1>1. Init => P!Init
    BY DEF Init, P!Init
<1>2. ReportingInv /\ [Next]_vars => [P!Next]_(P!vars)
    BY ReportingStep
<1> QED BY <1>1, <1>2, ReportingInvariant, PTL
        DEF Spec, P!Spec, ImplementsReporting

\* What is owed: reports are on challenges put as challenger, and no block has
\* a success as well as a failure.
VerdictsOf(put, verdicts) ==
    /\ \A b \in put : Challenger[b] = Me
    /\ \A v \in verdicts : v.height \in put
    /\ \A v, w \in verdicts : v.height = w.height => v = w

\* While answers are timely, no two results on one block contradict each other,
\* and there is none on a block for which the device was not the challenger: a
\* consequence of PoPReporting, of which PoPChallenge is an implementation.
THEOREM OneVerdictPerBlock ==
    Spec => [](Timely => VerdictsOf(challenged, Filed(results)))
<1> DEFINE Put == IF Timely THEN challenged ELSE {}
           Verdicts == IF Timely THEN Filed(results) ELSE {}
           Inv == VerdictsOf(Put, Verdicts)
<1>1. P!Init => Inv
    BY DEF P!Init, VerdictsOf, Filed
<1>2. Inv /\ [P!Next]_(P!vars) => Inv'
  <2> SUFFICES ASSUME Inv, [P!Next]_(P!vars)
               PROVE  Inv'
      OBVIOUS
  <2>1. CASE UNCHANGED P!vars
    <3>1. Put' = Put /\ Verdicts' = Verdicts
        BY <2>1 DEF P!vars, Filed
    <3> HIDE DEF Put, Verdicts
    <3> QED
        BY <3>1 DEF VerdictsOf
  <2>2. ASSUME NEW b \in Blocks, P!Challenge(b)
        PROVE  Inv'
    <3>1. Challenger[b] = Me /\ Put' = Put \cup {b} /\ Verdicts' = Verdicts
        BY <2>2 DEF P!Challenge, Filed
    <3> HIDE DEF Put, Verdicts
    <3> QED
        BY <3>1 DEF VerdictsOf
  <2>3. ASSUME NEW b \in Blocks, NEW success \in BOOLEAN, P!Report(b, success)
        PROVE  Inv'
    <3> DEFINE new == [height |-> b, success |-> success]
    <3>1. /\ b \in Put /\ \A v \in Verdicts : v.height # b
          /\ Verdicts' = Verdicts \cup {new} /\ Put' = Put
        BY <2>3 DEF P!Report, Filed
    <3>2. new.height = b
        OBVIOUS
    <3> HIDE DEF Put, Verdicts, new
    <3> QED
        BY <3>1, <3>2 DEF VerdictsOf
  <2> QED
      BY <2>1, <2>2, <2>3 DEF P!Next
<1>3. Inv => (Timely => VerdictsOf(challenged, Filed(results)))
    OBVIOUS
<1> QED
    BY <1>1, <1>2, <1>3, ImplementsReportingHolds, PTL DEF P!Spec, ImplementsReporting

=============================================================================
