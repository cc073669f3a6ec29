--------------------------- MODULE TxPipelineProofs ---------------------------
(***************************************************************************)
(* Theorems about TxPipeline, for every set of seeds and blocks, every     *)
(* number of calls and every environment.                                  *)
(***************************************************************************)
EXTENDS TxPipeline, FiniteSetTheorems, TLAPS

\* What a query may come to: only an answer to it is fresh, and curlOutput is
\* left alone or holds what the node said.
LEMMA QueryComesTo ==
    ASSUME NEW answer, answer # NoAnswer, NEW q \in Query(answer)
    PROVE  /\ q.fresh \in BOOLEAN
           /\ q.fresh => q.text \in {answer, ErrorBody}
           /\ ~q.fresh => q.text \in {NoAnswer, curlOutput}
           /\ q.buffer = curlOutput \/ (q.fresh /\ q.buffer = q.text)
           /\ q.fresh /\ Linux => q.buffer = q.text
<1>1. ASSUME Linux
      PROVE  \/ \E t \in {answer, ErrorBody} :
                    q = [text |-> t, fresh |-> TRUE, buffer |-> t]
             \/ \E t \in {NoAnswer, curlOutput} :
                    q = [text |-> t, fresh |-> FALSE, buffer |-> curlOutput]
    BY <1>1 DEF Query, QueryLinux, Faulty
<1>2. ASSUME ~Linux
      PROVE  \E t \in {answer, ErrorBody, NoAnswer} :
                    q = [text |-> t, fresh |-> t # NoAnswer, buffer |-> curlOutput]
    BY <1>2 DEF Query, QueryTasmota, Faulty
<1>3. CASE Linux
  <2>1. CASE \E t \in {answer, ErrorBody} :
                    q = [text |-> t, fresh |-> TRUE, buffer |-> t]
      BY <2>1
  <2>2. CASE \E t \in {NoAnswer, curlOutput} :
                    q = [text |-> t, fresh |-> FALSE, buffer |-> curlOutput]
      BY <2>2
  <2> QED
      BY <1>1, <1>3, <2>1, <2>2
<1>4. CASE ~Linux
  <2>1. PICK t \in {answer, ErrorBody, NoAnswer} :
                    q = [text |-> t, fresh |-> t # NoAnswer, buffer |-> curlOutput]
      BY <1>2, <1>4
  <2>2. q.text = t /\ q.buffer = curlOutput /\ q.fresh = (t # NoAnswer)
      BY <2>1
  <2> QED
      BY <1>4, <2>2
<1> QED
    BY <1>3, <1>4

LEMMA FreshMachine ==
    ASSUME NEW a, NEW q \in Query(MachineAnswer(a)), HasMachineBeenAttested(q)
    PROVE  a \in attested
<1>1. MachineAnswer(a) \in {Machine, ErrorBody} /\ Machine # ErrorBody
    BY DEF MachineAnswer, Machine, ErrorBody
<1>2. MachineAnswer(a) # NoAnswer
    BY <1>1 DEF Machine, ErrorBody, NoAnswer
<1>3. q.text = Machine /\ q.text \in {MachineAnswer(a), ErrorBody}
    BY <1>2, QueryComesTo DEF HasMachineBeenAttested
<1> QED
    BY <1>1, <1>3 DEF MachineAnswer

LEMMA FreshAccount ==
    ASSUME NEW a, NEW q \in Query(AccountAnswer(a)), q.fresh, q.text.kind = "account"
    PROVE  /\ account[a] # NoAccount
           /\ q.text.of = a
           /\ q.text.seq = account[a]
<1>1. AccountAnswer(a) # NoAnswer
    BY DEF AccountAnswer, AccountInfo, ErrorBody, NoAnswer
<1>2. q.text \in {AccountAnswer(a), ErrorBody}
    BY <1>1, QueryComesTo
<1>3. q.text # ErrorBody
    BY DEF ErrorBody
<1> QED
    BY <1>2, <1>3 DEF AccountAnswer, AccountInfo

-----------------------------------------------------------------------------
(* What holds of transactions.                                             *)

\* Of a transaction, wherever it is.
Sound(t) ==
    /\ t.signer # t.seed => t.kind = "report" /\ t.reseeded
    /\ t.kind = "notarize" => t.signer \in attested

\* Of one about to be broadcast: nothing has moved since its account query.
Undisturbed(t) ==
    /\ PendingOf(t.signer) = {}
    /\ account[t.signer] # NoAccount
    /\ t.account = t.signer
    /\ t.seq = account[t.signer]

\* Of the keys between calls: those of the host that has been told it is the
\* challenger are there, and those of the stored seed if none was stored since.
RoleInv ==
    /\ role \in Roles
    /\ role # "none" => keys \in Seeds
    /\ role = "challenger" => keys = seed

\* Of a call: the keys are those of the stored seed, but for a report of a host
\* that has stored another, and the attestation a notarization needs was there
\* when it began.
CallInv ==
    call # Idle =>
        /\ keys \in Seeds
        /\ call.seed = seed
        /\ keys # seed => call.kind = "report" /\ call.reseeded
        /\ call.kind = "notarize" => keys \in attested
        /\ call.pc = "broadcast" =>
               /\ Sound(call.tx)
               /\ call.tx.signer \in Seeds
               /\ call.tx.answered /\ ~call.tx.overlaps => Undisturbed(call.tx)

Typed == seed \in Seeds /\ account \in [Seeds -> Int]

TxInv ==
    /\ Typed
    /\ RoleInv
    /\ CallInv
    /\ \A t \in mempool \cup ledger \cup rejected : Sound(t)
    /\ RejectedOnlyByOverlap

\* The other calls of the host leave the transactions alone.
LEMMA BetweenCalls ==
    ASSUME TxInv, Typed', RoleInv', UNCHANGED <<env, attested, mempool, ledger, rejected>>,
           call' = Idle
    PROVE  TxInv'
BY DEF TxInv, CallInv, Sound, Fault, RejectedOnlyByOverlap

\* A call up to its account query.
LEMMA CallBegins ==
    ASSUME TxInv, BeginCall, NEW kind, Started(kind),
           keys' = seed \/ (kind = "report" /\ role # "none" /\ keys' = keys),
           kind = "notarize" => keys' \in attested
    PROVE  TxInv'
<1> USE DEF BeginCall, Started, chain
<1>1. Typed'
    BY DEF TxInv, Typed
<1>2. RoleInv'
    BY DEF TxInv, Typed, RoleInv
<1>3. CallInv'
  <2>1. /\ call'.pc = "account" /\ call'.kind = kind /\ call'.seed = seed /\ seed' = seed
        /\ kind = "report" /\ role = "reseeded" => call'.reseeded
      OBVIOUS
  <2>2. keys' \in Seeds
      BY DEF TxInv, Typed, RoleInv
  <2>3. keys' # seed => kind = "report" /\ role = "reseeded"
    <3>1. ASSUME keys' # seed PROVE role \notin {"none", "challenger"}
        BY <3>1 DEF TxInv, RoleInv
    <3> QED BY <3>1 DEF TxInv, RoleInv, Roles
  <2> QED
      BY <2>1, <2>2, <2>3 DEF CallInv
<1>4. \A t \in (mempool \cup ledger \cup rejected)' : Sound(t)'
    BY DEF TxInv, Sound
<1> QED
    BY <1>1, <1>2, <1>3, <1>4 DEF TxInv, RejectedOnlyByOverlap

\* One that ends before.
LEMMA CallGivenUp ==
    ASSUME TxInv, BeginCall, GiveUp, keys' \in {keys, seed}
    PROVE  TxInv'
<1>1. Typed'
    BY DEF BeginCall, chain, TxInv, Typed
<1>2. RoleInv'
    BY DEF BeginCall, TxInv, Typed, RoleInv
<1> QED
    BY <1>1, <1>2, BetweenCalls DEF BeginCall, GiveUp, chain

LEMMA AttestationKeepsTxInv ==
    ASSUME TxInv, RunMachineAttestation
    PROVE  TxInv'
<1>1. CASE NoSeedToRead
    BY <1>1, CallGivenUp DEF RunMachineAttestation, NoSeedToRead
<1>2. CASE DeriveKeys /\ Started("attest")
    BY <1>2, CallBegins DEF RunMachineAttestation, DeriveKeys
<1>3. CASE DeriveKeys /\ GiveUp
    BY <1>3, CallGivenUp DEF RunMachineAttestation, DeriveKeys
<1> QED
    BY <1>1, <1>2, <1>3 DEF RunMachineAttestation

LEMMA RedeemKeepsTxInv ==
    ASSUME TxInv, RedeemClaim
    PROVE  TxInv'
<1>1. CASE NoSeedToRead
    BY <1>1, CallGivenUp DEF RedeemClaim, NoSeedToRead
<1>2. CASE DeriveKeys /\ Started("redeem")
    BY <1>2, CallBegins DEF RedeemClaim, DeriveKeys
<1>3. CASE DeriveKeys /\ GiveUp
    BY <1>3, CallGivenUp DEF RedeemClaim, DeriveKeys
<1> QED
    BY <1>1, <1>2, <1>3 DEF RedeemClaim

\* The report: the keys are whatever the buffers hold.
LEMMA ReportKeepsTxInv ==
    ASSUME TxInv, ProcessPoPChallengeResponse
    PROVE  TxInv'
<1>1. CASE Started("report")
    BY <1>1, CallBegins DEF ProcessPoPChallengeResponse
<1>2. CASE GiveUp
    BY <1>2, CallGivenUp DEF ProcessPoPChallengeResponse
<1> QED
    BY <1>1, <1>2 DEF ProcessPoPChallengeResponse

LEMMA NotarizationKeepsTxInv ==
    ASSUME TxInv, RunNotarizationWorkflow
    PROVE  TxInv'
<1>1. CASE NoSeedToRead
    BY <1>1, CallGivenUp DEF RunNotarizationWorkflow, NoSeedToRead
<1>2. CASE DeriveKeys /\ GiveUp
    BY <1>2, CallGivenUp DEF RunNotarizationWorkflow, DeriveKeys
<1>3. ASSUME DeriveKeys, Started("notarize"),
             NEW q \in Query(MachineAnswer(seed)), HasMachineBeenAttested(q)
      PROVE  TxInv'
  <2>1. keys' = seed /\ keys' \in attested
      BY <1>3, FreshMachine DEF DeriveKeys
  <2> QED
      BY <1>3, <2>1, CallBegins DEF RunNotarizationWorkflow
<1> QED
    BY <1>1, <1>2, <1>3 DEF RunNotarizationWorkflow

LEMMA CreateKeepsTxInv ==
    ASSUME TxInv, CreateTransaction
    PROVE  TxInv'
<1>1. CASE SendFails
    BY <1>1, BetweenCalls DEF CreateTransaction, SendFails, chain, TxInv, Typed, RoleInv
<1>2. ASSUME NEW q \in Query(AccountAnswer(keys)), q.text.kind = "account",
             call' = [call EXCEPT
                        !.pc = "broadcast",
                        !.tx = [id |-> call.id, kind |-> call.kind,
                                signer |-> keys, account |-> q.text.of,
                                seq |-> q.text.seq, seed |-> call.seed,
                                reseeded |-> call.reseeded,
                                answered |-> q.fresh,
                                overlaps |-> PendingOf(keys) # {}]]
      PROVE  TxInv'
  <2>1. call # Idle /\ UNCHANGED <<env, seed, keys, role, chain, rejected>>
      BY DEF CreateTransaction, Idle
  <2>2. Typed' /\ RoleInv'
      BY <2>1 DEF TxInv, Typed, RoleInv, chain
  <2>3. /\ call'.seed = call.seed /\ call'.kind = call.kind /\ call'.id = call.id
        /\ call'.reseeded = call.reseeded /\ call'.tx.reseeded = call.reseeded
        /\ call'.tx.id = call.id /\ call'.tx.kind = call.kind
        /\ call'.tx.signer = keys /\ call'.tx.seed = call.seed
        /\ call'.tx.account = q.text.of /\ call'.tx.seq = q.text.seq
        /\ call'.tx.answered = q.fresh
        /\ call'.tx.overlaps = (PendingOf(keys) # {})
      BY <1>2, <2>1 DEF TxInv, CallInv
  <2>4. Sound(call.tx)'
      BY <2>1, <2>3 DEF TxInv, CallInv, Sound, Fault, chain
  <2>5. ASSUME call'.tx.answered, ~call'.tx.overlaps
        PROVE  Undisturbed(call.tx)'
    <3>1. account[keys] # NoAccount /\ q.text.of = keys /\ q.text.seq = account[keys]
        BY <1>2, <2>3, <2>5, FreshAccount
    <3>2. PendingOf(keys) = {}
        BY <2>3, <2>5
    <3> QED
        BY <2>1, <2>3, <3>1, <3>2 DEF Undisturbed, PendingOf, chain
  <2>6. CallInv'
      BY <2>1, <2>3, <2>4, <2>5 DEF TxInv, CallInv, Typed, Fault, chain
  <2>7. \A t \in (mempool \cup ledger \cup rejected)' : Sound(t)'
      BY <2>1 DEF TxInv, Sound, Fault, chain
  <2> QED
      BY <2>1, <2>2, <2>6, <2>7 DEF TxInv, RejectedOnlyByOverlap, chain
<1> QED
    BY <1>1, <1>2 DEF CreateTransaction

\* A transaction with nothing in its way is accepted.
LEMMA UndisturbedAccepted ==
    ASSUME NEW t, t.signer \in Seeds, Typed, Undisturbed(t)
    PROVE  CheckTx(t)
<1>1. Cardinality({}) = 0
    BY FS_EmptySet
<1>2. account[t.signer] \in Int
    BY DEF Typed
<1> QED
    BY <1>1, <1>2 DEF Undisturbed, CheckTx

LEMMA BroadcastKeepsTxInv ==
    ASSUME TxInv, BroadcastTransaction
    PROVE  TxInv'
<1>1. /\ call # Idle /\ call.pc = "broadcast" /\ call' = Idle
      /\ UNCHANGED <<env, seed, account, attested, ledger, role, keys>>
    BY DEF BroadcastTransaction, Idle, Ends, device
<1>2. /\ mempool' \subseteq mempool \cup {call.tx}
      /\ rejected' \subseteq rejected \cup {call.tx}
      /\ call.tx \in rejected' => call.tx \in rejected \/ ~CheckTx(call.tx)
    BY DEF BroadcastTransaction
<1>3. Sound(call.tx) /\ (call.tx.answered /\ ~call.tx.overlaps => CheckTx(call.tx))
    BY <1>1, UndisturbedAccepted DEF TxInv, CallInv
<1>4. Typed' /\ RoleInv'
    BY <1>1 DEF TxInv, Typed, RoleInv
<1>5. CallInv'
    BY <1>1 DEF CallInv
<1>6. \A t \in mempool' \cup ledger' \cup rejected' : Sound(t)
    BY <1>1, <1>2, <1>3 DEF TxInv
<1>7. \A t \in (mempool \cup ledger \cup rejected)' : Sound(t)'
    BY <1>1, <1>6 DEF Sound, Fault
<1>8. RejectedOnlyByOverlap'
    BY <1>2, <1>3 DEF TxInv, RejectedOnlyByOverlap
<1> QED
    BY <1>4, <1>5, <1>7, <1>8 DEF TxInv

\* What a block or the mempool's limits do to others' transactions, and to
\* those of a signer that has another under way.
LEMMA ChainKeepsTxInv ==
    ASSUME TxInv, NEW t \in mempool, Commit(t) \/ Evict(t)
    PROVE  TxInv'
<1>1. /\ UNCHANGED <<env, seed, keys, role, call, rejected>>
      /\ attested \subseteq attested'
      /\ mempool' = mempool \ {t}
      /\ ledger' \subseteq ledger \cup {t}
      /\ Typed'
    BY DEF Commit, Evict, device, history, TxInv, Typed
<1>2. \A u : Sound(u) => Sound(u)'
    BY <1>1 DEF Sound, Fault
<1>3. \A a \in Seeds : a # t.signer => account'[a] = account[a]
    BY DEF Commit, Evict, TxInv, Typed
<1>4. ASSUME NEW u, u.signer \in Seeds, Undisturbed(u)
      PROVE  Undisturbed(u)'
  <2>1. t.signer # u.signer
      BY <1>4 DEF Undisturbed, PendingOf
  <2>2. account'[u.signer] = account[u.signer]
      BY <1>3, <1>4, <2>1
  <2> QED
      BY <1>1, <1>4, <2>2 DEF Undisturbed, PendingOf
<1>5. CallInv'
  <2>1. CASE call # Idle /\ call.pc = "broadcast"
      BY <1>1, <1>2, <1>4, <2>1 DEF TxInv, CallInv, Fault
  <2>2. CASE ~(call # Idle /\ call.pc = "broadcast")
      BY <1>1, <2>2 DEF TxInv, CallInv, Fault
  <2> QED
      BY <2>1, <2>2
<1>6. \A u \in mempool' \cup ledger' \cup rejected' : Sound(u)'
    BY <1>1, <1>2 DEF TxInv
<1>7. RejectedOnlyByOverlap'
    BY <1>1 DEF TxInv, RejectedOnlyByOverlap
<1>8. RoleInv'
    BY <1>1 DEF TxInv, RoleInv
<1> QED
    BY <1>1, <1>5, <1>6, <1>7, <1>8 DEF TxInv

LEMMA StepKeepsTxInv == TxInv /\ [Next]_vars => TxInv'
<1> SUFFICES ASSUME TxInv, [Next]_vars
             PROVE  TxInv'
    OBVIOUS
<1> USE DEF chain, device, history
<1>1. CASE RunMachineAttestation
    BY <1>1, AttestationKeepsTxInv
<1>2. CASE RunNotarizationWorkflow
    BY <1>2, NotarizationKeepsTxInv
<1>3. CASE RedeemClaim
    BY <1>3, RedeemKeepsTxInv
<1>4. CASE CreateTransaction
    BY <1>4, CreateKeepsTxInv
<1>5. CASE BroadcastTransaction
    BY <1>5, BroadcastKeepsTxInv
<1>6. CASE \E s \in Seeds : SetSeed(s)
    BY <1>6, BetweenCalls DEF SetSeed, Between, TxInv, Typed, RoleInv, Roles
<1>7. CASE AmIChallenger
    BY <1>7, BetweenCalls DEF AmIChallenger, DeriveKeys, Between, TxInv, Typed, RoleInv, Roles
<1>8. CASE CreateAccount
  <2>1. Typed' /\ RoleInv'
      BY <1>8 DEF CreateAccount, TxInv, Typed, RoleInv
  <2> QED
      BY <1>8, <2>1, BetweenCalls DEF CreateAccount, Between
<1>9. CASE \E b \in Blocks : GetPoPFromChain(b)
    BY <1>9, BetweenCalls DEF GetPoPFromChain, Between, TxInv, Typed, RoleInv, Roles
<1>10. CASE GetCIDofChallengee
    BY <1>10, BetweenCalls DEF GetCIDofChallengee, ForgetMemory, TxInv, Typed, RoleInv, Roles
<1>11. CASE Restart
    BY <1>11, BetweenCalls DEF Restart, ForgetMemory, TxInv, Typed, RoleInv, Roles
<1>12. CASE \E t \in mempool : Commit(t) \/ Evict(t)
    BY <1>12, ChainKeepsTxInv
<1>13. CASE UNCHANGED vars
    BY <1>13 DEF vars, TxInv, Typed, RoleInv, CallInv, Sound, Undisturbed, PendingOf,
                 RejectedOnlyByOverlap
<1>14. CASE ProcessPoPChallengeResponse
    BY <1>14, ReportKeepsTxInv
<1> QED
    BY <1>1, <1>2, <1>3, <1>4, <1>5, <1>6, <1>7, <1>8, <1>9, <1>10, <1>11, <1>12, <1>13, <1>14
    DEF Next

LEMMA TxInvariant == Spec => []TxInv
<1>1. Init => TxInv
  <2> SUFFICES ASSUME Init
               PROVE  TxInv
      OBVIOUS
  <2>1. Typed
      BY DEF Init, Typed, NoAccount
  <2> QED
      BY <2>1 DEF Init, TxInv, RoleInv, Roles, CallInv, RejectedOnlyByOverlap
<1> QED
    BY <1>1, StepKeepsTxInv, PTL DEF Spec

\* A transaction is signed by the seed that was stored when its call was made
\* (getPlntmntKeysLocal at the start of every workflow), but for the report on a
\* challenge of a host that has stored a seed since amIChallenger
\* (processPoPChallengeResponse, which derives no keys).
THEOREM SignedByStoredSeedHolds == Spec => []SignedByStoredSeed
<1>1. TxInv => SignedByStoredSeed
    BY DEF TxInv, Sound, SignedByStoredSeed
<1> QED
    BY <1>1, TxInvariant, PTL

\* Only what an attested machine has signed is notarized
\* (hasMachineBeenAttested and its loop over fresh output).
THEOREM NotarizedByAttestedHolds == Spec => []NotarizedByAttested
<1>1. TxInv => NotarizedByAttested
    BY DEF TxInv, Sound, NotarizedByAttested
<1> QED
    BY <1>1, TxInvariant, PTL

\* A transaction is turned down only for one that was under way or for an
\* account query that was not answered (create_transaction).
THEOREM RejectedOnlyByOverlapHolds == Spec => []RejectedOnlyByOverlap
<1>1. TxInv => RejectedOnlyByOverlap
    BY DEF TxInv
<1> QED
    BY <1>1, TxInvariant, PTL

-----------------------------------------------------------------------------
(* Challenges.                                                             *)

\* A list that is still in curlOutput is that of the challengee of now, unless
\* there is no challenge.
ListInv == curlOutput.kind = "cids" => pop.block \in {0, curlOutput.of}

ChallengeInv == ListInv /\ ChallengeFitsBlock

LEMMA OtherQueriesKeepChallengeInv ==
    ASSUME ChallengeInv, UNCHANGED pop,
           curlOutput' = curlOutput \/ curlOutput'.kind # "cids"
    PROVE  ChallengeInv'
BY DEF ChallengeInv, ListInv, ChallengeFitsBlock

\* What is left in curlOutput by a query for something else than CIDs.
LEMMA NoListFromQuery ==
    ASSUME NEW answer, answer # NoAnswer, answer.kind # "cids", NEW q \in Query(answer)
    PROVE  q.buffer = curlOutput \/ q.buffer.kind # "cids"
BY QueryComesTo DEF ErrorBody

LEMMA ForgettingKeepsChallengeInv ==
    ASSUME ForgetMemory
    PROVE  ChallengeInv'
BY DEF ForgetMemory, NoPoP, Empty, ChallengeInv, ListInv, ChallengeFitsBlock

LEMMA PoPQueryKeepsChallengeInv ==
    ASSUME ChallengeInv, NEW b \in Blocks, GetPoPFromChain(b)
    PROVE  ChallengeInv'
<1>1. PICK q \in Query(Challenge(b)) :
          /\ curlOutput' = q.buffer
          /\ pop' = IF q.text = NoAnswer THEN pop
                    ELSE [block |-> ChallengeIn(q.text), cidOf |-> 0]
    BY DEF GetPoPFromChain, BufferAfterPoP
<1>2. Linux /\ Challenge(b) # NoAnswer /\ Challenge(b).kind # "cids"
    BY DEF GetPoPFromChain, Challenge, NoAnswer
<1>3. CASE q.text = NoAnswer
  <2>1. ~q.fresh
      BY <1>2, <1>3, QueryComesTo DEF ErrorBody, NoAnswer
  <2>2. q.buffer = curlOutput
      BY <1>2, <2>1, QueryComesTo
  <2> QED
      BY <1>1, <1>3, <2>2, OtherQueriesKeepChallengeInv
<1>4. CASE q.text # NoAnswer
  <2>1. q.buffer = q.text
      BY <1>2, <1>4, QueryComesTo
  <2>2. pop'.cidOf = 0 /\ pop'.block = ChallengeIn(q.text)
      BY <1>1, <1>4
  <2>3. q.text.kind = "cids" => ChallengeIn(q.text) = 0
      BY DEF ChallengeIn
  <2> QED
      BY <1>1, <2>1, <2>2, <2>3 DEF ChallengeInv, ListInv, ChallengeFitsBlock
<1> QED
    BY <1>3, <1>4

LEMMA CidQueryKeepsChallengeInv ==
    ASSUME ChallengeInv, GetCIDofChallengee
    PROVE  ChallengeInv'
<1>1. CASE ForgetMemory
    BY <1>1, ForgettingKeepsChallengeInv
<1>2. ASSUME NEW q \in Query(CidList(pop.block)), NEW t \in GetCids(q), t # NoAnswer,
             curlOutput' = IF q.fresh THEN t ELSE q.buffer,
             pop' = [pop EXCEPT !.cidOf = IF t.kind = "cids" THEN t.of ELSE 0]
      PROVE  ChallengeInv'
  <2>1. CidList(pop.block) # NoAnswer
      BY DEF CidList, NoAnswer
  <2>2. q.text = t \/ t = Part
      BY <1>2 DEF GetCids, Faulty
  <2>3. ~q.fresh => q.text = t
      BY <1>2 DEF GetCids
  <2>4. curlOutput' = t
    <3>1. CASE q.fresh
        BY <1>2, <3>1
    <3>2. CASE ~q.fresh
      <4>1. q.buffer = curlOutput /\ q.text = curlOutput
          BY <1>2, <2>1, <2>3, <3>2, QueryComesTo
      <4> QED
          BY <1>2, <2>3, <3>2, <4>1
    <3> QED
        BY <3>1, <3>2
  <2>5. t.kind = "cids" => t.of = pop.block
    <3>1. CASE q.fresh /\ q.text = t
        BY <2>1, <3>1, QueryComesTo DEF CidList, ErrorBody
    <3>2. CASE ~q.fresh
      <4>1. t = curlOutput
          BY <1>2, <2>1, <2>3, <3>2, QueryComesTo
      <4> QED
          BY <4>1 DEF ChallengeInv, ListInv, GetCIDofChallengee
    <3>3. CASE t = Part
        BY <3>3 DEF Part
    <3> QED
        BY <2>2, <3>1, <3>2, <3>3
  <2> QED
      BY <1>2, <2>4, <2>5 DEF ChallengeInv, ListInv, ChallengeFitsBlock, GetCIDofChallengee
<1> QED
    BY <1>1, <1>2 DEF GetCIDofChallengee

LEMMA StepKeepsChallengeInv == ChallengeInv /\ [Next]_vars => ChallengeInv'
<1> SUFFICES ASSUME ChallengeInv, [Next]_vars
             PROVE  ChallengeInv'
    OBVIOUS
<1> USE DEF device
<1>1. CASE UNCHANGED <<curlOutput, pop>>
    BY <1>1, OtherQueriesKeepChallengeInv
<1>2. CASE RunMachineAttestation \/ RedeemClaim \/ ProcessPoPChallengeResponse
    BY <1>1, <1>2 DEF RunMachineAttestation, RedeemClaim, ProcessPoPChallengeResponse,
                      BeginCall, NoSeedToRead
<1>3. CASE RunNotarizationWorkflow
  <2>1. UNCHANGED pop
      BY <1>3 DEF RunNotarizationWorkflow, BeginCall
  <2>2. CASE NoSeedToRead
      BY <2>1, <2>2, <1>1 DEF NoSeedToRead
  <2>3. ASSUME NEW q \in Query(MachineAnswer(seed)), curlOutput' = q.buffer
        PROVE  ChallengeInv'
    <3>1. MachineAnswer(seed) # NoAnswer /\ MachineAnswer(seed).kind # "cids"
        BY DEF MachineAnswer, Machine, ErrorBody, NoAnswer
    <3> QED
        BY <2>1, <2>3, <3>1, NoListFromQuery, OtherQueriesKeepChallengeInv
  <2> QED
      BY <1>3, <2>2, <2>3 DEF RunNotarizationWorkflow
<1>4. CASE CreateTransaction
  <2>1. PICK q \in Query(AccountAnswer(keys)) : curlOutput' = q.buffer
      BY <1>4 DEF CreateTransaction
  <2>2. AccountAnswer(keys) # NoAnswer /\ AccountAnswer(keys).kind # "cids"
      BY DEF AccountAnswer, AccountInfo, ErrorBody, NoAnswer
  <2>3. UNCHANGED pop
      BY <1>4 DEF CreateTransaction
  <2> QED
      BY <2>1, <2>2, <2>3, NoListFromQuery, OtherQueriesKeepChallengeInv
<1>5. CASE BroadcastTransaction
    BY <1>1, <1>5 DEF BroadcastTransaction
<1>6. CASE (\E s \in Seeds : SetSeed(s)) \/ AmIChallenger \/ CreateAccount
    BY <1>1, <1>6 DEF SetSeed, AmIChallenger, CreateAccount
<1>7. CASE \E b \in Blocks : GetPoPFromChain(b)
    BY <1>7, PoPQueryKeepsChallengeInv
<1>8. CASE GetCIDofChallengee
    BY <1>8, CidQueryKeepsChallengeInv
<1>9. CASE Restart
    BY <1>9, ForgettingKeepsChallengeInv DEF Restart
<1>10. CASE \E t \in mempool : Commit(t) \/ Evict(t)
    BY <1>1, <1>10 DEF Commit, Evict
<1>11. CASE UNCHANGED vars
    BY <1>1, <1>11 DEF vars
<1> QED
    BY <1>2, <1>3, <1>4, <1>5, <1>6, <1>7, <1>8, <1>9, <1>10, <1>11 DEF Next

\* A challenge is put for a CID of its challengee, although curlOutput may hold
\* the list of another (getPoPInfo, getCIDtoBeChallenged on Linux).
THEOREM ChallengeFitsBlockHolds == Spec => []ChallengeFitsBlock
<1>1. Init => ChallengeInv
    BY DEF Init, Empty, NoPoP, ChallengeInv, ListInv, ChallengeFitsBlock
<1>2. ChallengeInv => ChallengeFitsBlock
    BY DEF ChallengeInv
<1> QED
    BY <1>1, <1>2, StepKeepsChallengeInv, PTL DEF Spec

-----------------------------------------------------------------------------
(* The refinement of TxDelivery.                                           *)

\* Calls are numbered as they are made; one that is under way is neither
\* refused nor on its way to the chain; a transaction that is on its way is
\* the only one of its call.
CallIsLast ==
    call # Idle =>
        /\ call.id = calls
        /\ calls \in 1 .. calls
        /\ calls \notin refused
        /\ \A t \in mempool \cup ledger : t.id # calls
        /\ call.pc = "broadcast" => call.tx.id = calls

DeliveryInv ==
    /\ env \in EnvRecords
    /\ calls \in Nat
    /\ refused \subseteq 1 .. calls
    /\ \A t \in mempool \cup ledger : t.id \in 1 .. calls
    /\ \A t \in mempool : t.id \notin Committed
    /\ \A t, u \in mempool : t.id = u.id => t = u
    /\ CallIsLast
    /\ StatusIsReal => \A t \in mempool \cup ledger : t.id \notin refused

\* The steps of TxDelivery, under the mapping.
LEMMA MappedSteps ==
    ASSUME StatusIsReal, StatusIsReal'
    PROVE  /\ D!vars = <<calls, Committed, refused>>
           /\ D!vars' = <<calls, Committed, refused>>'
           /\ D!Open = (1 .. calls) \ (Committed \cup refused)
           /\ D!Ask <=> /\ calls < MaxCalls
                        /\ calls' = calls + 1
                        /\ refused' \in {refused, refused \cup {calls + 1}}
                        /\ Committed' = Committed
BY DEF D!vars, D!Open, D!Ask

LEMMA OtherStepsKeepDelivery ==
    ASSUME DeliveryInv, UNCHANGED <<env, calls, ledger, refused>>, mempool' \subseteq mempool,
           call' = call \/ call' = Idle
    PROVE  DeliveryInv' /\ UNCHANGED D!vars
<1>1. DeliveryInv'
    BY DEF DeliveryInv, CallIsLast, StatusIsReal, Linux, Fault, Committed
<1>2. UNCHANGED D!vars
    BY DEF D!vars, Committed, StatusIsReal, Linux, Fault
<1> QED
    BY <1>1, <1>2

LEMMA BeginImplementsDelivery ==
    ASSUME DeliveryInv, BeginCall,
           \/ GiveUp
           \/ (\E kind : Started(kind)) /\ UNCHANGED refused
    PROVE  DeliveryInv' /\ (StatusIsReal => D!Ask)
<1>1. /\ UNCHANGED <<env, mempool, ledger>> /\ calls < env.max /\ calls' = calls + 1
      /\ call' = Idle \/ (call'.pc = "account" /\ call'.id = calls' /\ UNCHANGED refused)
      /\ refused' \in {refused, refused \cup {calls + 1}}
    BY DEF BeginCall, GiveUp, Started, chain
<1>2. calls' \in Nat /\ calls < MaxCalls
    BY <1>1, TxAssumption DEF DeliveryInv, EnvRecords
<1>3. StatusIsReal' = StatusIsReal /\ Committed' = Committed
    BY <1>1 DEF StatusIsReal, Linux, Fault, Committed
<1>4. /\ refused' \subseteq 1 .. calls'
      /\ \A t \in mempool \cup ledger : t.id \in 1 .. calls' /\ t.id # calls + 1
      /\ CallIsLast'
  <2>1. /\ refused \subseteq 1 .. calls /\ 1 .. calls \subseteq 1 .. calls'
        /\ calls + 1 \notin 1 .. calls /\ calls + 1 \in 1 .. calls'
        /\ \A t \in mempool \cup ledger : t.id \in 1 .. calls
      BY <1>1 DEF DeliveryInv
  <2>2. \A t \in mempool \cup ledger : t.id # calls + 1
      BY <2>1
  <2>3. CallIsLast'
      BY <1>1, <2>1, <2>2 DEF CallIsLast
  <2> QED
      BY <1>1, <2>1, <2>2, <2>3
<1>5. DeliveryInv'
    BY <1>1, <1>2, <1>3, <1>4 DEF DeliveryInv
<1>6. StatusIsReal => D!Ask
    BY <1>1, <1>2, <1>3, MappedSteps
<1> QED
    BY <1>5, <1>6

\* The end of a call that sendMessages says has failed.
LEMMA EndImplementsDelivery ==
    ASSUME DeliveryInv, call # Idle, call' = Idle, refused' = refused \cup {call.id},
           UNCHANGED <<env, calls, mempool, ledger>>
    PROVE  DeliveryInv' /\ (StatusIsReal => \E c \in D!Open : D!Refuse(c))
<1>1. StatusIsReal' = StatusIsReal /\ Committed' = Committed
    BY DEF StatusIsReal, Linux, Fault, Committed
<1>2. /\ call.id \in 1 .. calls /\ call.id \notin refused
      /\ \A t \in mempool \cup ledger : t.id # call.id
    BY DEF DeliveryInv, CallIsLast
<1>3. DeliveryInv'
    BY <1>1, <1>2 DEF DeliveryInv, CallIsLast
<1>4. ASSUME StatusIsReal
      PROVE  call.id \in D!Open /\ D!Refuse(call.id)
  <2>1. call.id \notin Committed
      BY <1>2 DEF Committed
  <2> QED
      BY <1>1, <1>2, <1>4, <2>1 DEF D!Open, D!Refuse
<1> QED
    BY <1>3, <1>4

LEMMA CreateImplementsDelivery ==
    ASSUME DeliveryInv, CreateTransaction
    PROVE  DeliveryInv' /\ (StatusIsReal => [D!Next]_(D!vars))
<1>1. call # Idle /\ UNCHANGED <<env, calls, mempool, ledger>>
    BY DEF CreateTransaction, Idle, chain
<1>2. CASE SendFails
    BY <1>1, <1>2, EndImplementsDelivery DEF SendFails, D!Next
<1>3. ASSUME NEW q, UNCHANGED refused,
             call' = [call EXCEPT
                        !.pc = "broadcast",
                        !.tx = [id |-> call.id, kind |-> call.kind,
                                signer |-> keys, account |-> q.text.of,
                                seq |-> q.text.seq, seed |-> call.seed,
                                reseeded |-> call.reseeded,
                                answered |-> q.fresh,
                                overlaps |-> PendingOf(keys) # {}]]
      PROVE  DeliveryInv' /\ UNCHANGED D!vars
  <2>1. call'.id = call.id
      BY <1>3
  <2>2. call'.pc = "broadcast" => call'.tx.id = call.id
      BY <1>3, <1>1 DEF CreateTransaction
  <2>3. DeliveryInv'
      BY <1>1, <1>3, <2>1, <2>2 DEF DeliveryInv, CallIsLast, StatusIsReal, Linux, Fault, Committed
  <2>4. UNCHANGED D!vars
      BY <1>1, <1>3 DEF D!vars, Committed, StatusIsReal, Linux, Fault
  <2> QED
      BY <2>3, <2>4
<1> QED
    BY <1>2, <1>3 DEF CreateTransaction

\* Where the status is to be relied on it is negative only if nothing was sent.
LEMMA BroadcastImplementsDelivery ==
    ASSUME DeliveryInv, BroadcastTransaction
    PROVE  DeliveryInv' /\ (StatusIsReal => [D!Next]_(D!vars))
<1>1. /\ call # Idle /\ call.pc = "broadcast" /\ call' = Idle
      /\ UNCHANGED <<env, calls, ledger>>
    BY DEF BroadcastTransaction, Idle, Ends
<1>2. CASE UNCHANGED <<refused, mempool>>
    BY <1>1, <1>2, OtherStepsKeepDelivery
<1>3. CASE refused' = refused \cup {call.id} /\ UNCHANGED mempool
    BY <1>1, <1>3, EndImplementsDelivery DEF D!Next
<1>4. CASE /\ mempool' = mempool \cup {call.tx}
           /\ UNCHANGED refused \/ (refused' = refused \cup {call.id} /\ ~StatusIsReal)
  <2>1. StatusIsReal' = StatusIsReal /\ Committed' = Committed
      BY <1>1 DEF StatusIsReal, Linux, Fault, Committed
  <2>2. /\ call.tx.id = calls /\ call.id = calls /\ calls \in 1 .. calls /\ calls \notin refused
        /\ \A t \in mempool \cup ledger : t.id # calls
      BY <1>1 DEF DeliveryInv, CallIsLast
  <2>3. calls \notin Committed
      BY <2>2 DEF Committed
  <2>4. /\ \A t \in mempool' : t.id \in 1 .. calls /\ t.id \notin Committed
        /\ \A t, u \in mempool' : t.id = u.id => t = u
        /\ StatusIsReal => \A t \in mempool' : t.id \notin refused
      BY <1>4, <2>2, <2>3 DEF DeliveryInv
  <2>5. DeliveryInv'
      BY <1>1, <1>4, <2>1, <2>2, <2>4 DEF DeliveryInv, CallIsLast
  <2>6. StatusIsReal => UNCHANGED D!vars
      BY <1>1, <1>4, <2>1 DEF D!vars
  <2> QED
      BY <2>5, <2>6
<1>5. \/ UNCHANGED refused
      \/ /\ refused' = refused \cup {call.id}
         /\ UNCHANGED mempool \/ ~StatusIsReal
  <2>1. StatusIsReal => StatusOfSent \subseteq {0, 200}
      BY DEF StatusIsReal, StatusOfSent, Faulty
  <2>2. \A status \in {0, 200} : Ends(status) => UNCHANGED refused
      BY DEF Ends
  <2>3. \A status : Ends(status) => refused' \in {refused, refused \cup {call.id}}
      BY DEF Ends
  <2> QED
      BY <2>1, <2>2, <2>3 DEF BroadcastTransaction
<1>6. mempool' = mempool \/ mempool' = mempool \cup {call.tx}
    BY DEF BroadcastTransaction
<1> QED
    BY <1>2, <1>3, <1>4, <1>5, <1>6

LEMMA CommitImplementsDelivery ==
    ASSUME DeliveryInv, NEW t \in mempool, Commit(t)
    PROVE  DeliveryInv' /\ (StatusIsReal => \E c \in D!Open : D!Deliver(c))
<1>1. /\ UNCHANGED <<env, call, calls, refused>>
      /\ mempool' = mempool \ {t} /\ ledger' = ledger \cup {t}
      /\ Committed' = Committed \cup {t.id}
    BY DEF Commit, history, Committed
<1>2. StatusIsReal' = StatusIsReal
    BY <1>1 DEF StatusIsReal, Linux, Fault
<1>3. \A u \in mempool' : u.id \notin Committed'
    BY <1>1 DEF DeliveryInv
<1>4. CallIsLast'
    BY <1>1 DEF DeliveryInv, CallIsLast
<1>5. DeliveryInv'
    BY <1>1, <1>2, <1>3, <1>4 DEF DeliveryInv
<1>6. ASSUME StatusIsReal
      PROVE  t.id \in D!Open /\ D!Deliver(t.id)
    BY <1>1, <1>2, <1>6 DEF DeliveryInv, D!Open, D!Deliver
<1> QED
    BY <1>5, <1>6

LEMMA StepImplementsDelivery ==
    DeliveryInv /\ [Next]_vars => DeliveryInv' /\ [D!Next]_(D!vars)
<1> SUFFICES ASSUME DeliveryInv, [Next]_vars
             PROVE  DeliveryInv' /\ [D!Next]_(D!vars)
    OBVIOUS
<1> USE DEF chain, device, history
<1>1. ASSUME DeliveryInv', StatusIsReal => [D!Next]_(D!vars), UNCHANGED env
      PROVE  DeliveryInv' /\ [D!Next]_(D!vars)
  <2>1. CASE ~StatusIsReal
      BY <1>1, <2>1 DEF D!vars, StatusIsReal, Linux, Fault
  <2> QED
      BY <1>1, <2>1
<1>2. CASE BeginCall /\ (GiveUp \/ ((\E kind : Started(kind)) /\ UNCHANGED refused))
  <2>1. UNCHANGED env
      BY <1>2 DEF BeginCall
  <2> QED
      BY <1>1, <1>2, <2>1, BeginImplementsDelivery DEF D!Next
<1>3. CASE RunMachineAttestation
    BY <1>2, <1>3 DEF RunMachineAttestation, NoSeedToRead
<1>4. CASE RedeemClaim
    BY <1>2, <1>4 DEF RedeemClaim, NoSeedToRead
<1>5. CASE RunNotarizationWorkflow
    BY <1>2, <1>5 DEF RunNotarizationWorkflow, NoSeedToRead
<1>6. CASE CreateTransaction
    BY <1>1, <1>6, CreateImplementsDelivery DEF CreateTransaction
<1>7. CASE BroadcastTransaction
    BY <1>1, <1>7, BroadcastImplementsDelivery DEF BroadcastTransaction
<1>8. CASE (\E s \in Seeds : SetSeed(s)) \/ AmIChallenger
    BY <1>8, OtherStepsKeepDelivery DEF SetSeed, AmIChallenger, Between
<1>9. CASE CreateAccount \/ (\E b \in Blocks : GetPoPFromChain(b))
    BY <1>9, OtherStepsKeepDelivery DEF CreateAccount, GetPoPFromChain, Between
<1>10. CASE GetCIDofChallengee \/ Restart
    BY <1>10, OtherStepsKeepDelivery DEF GetCIDofChallengee, Restart, ForgetMemory
<1>11. ASSUME NEW t \in mempool, Commit(t)
       PROVE  DeliveryInv' /\ [D!Next]_(D!vars)
    BY <1>1, <1>11, CommitImplementsDelivery DEF Commit, D!Next
<1>12. ASSUME NEW t \in mempool, Evict(t)
       PROVE  DeliveryInv' /\ [D!Next]_(D!vars)
    BY <1>12, OtherStepsKeepDelivery DEF Evict
<1>13. CASE UNCHANGED vars
    BY <1>13, OtherStepsKeepDelivery DEF vars
<1>14. CASE ProcessPoPChallengeResponse
    BY <1>2, <1>14 DEF ProcessPoPChallengeResponse
<1> QED
    BY <1>3, <1>4, <1>5, <1>6, <1>7, <1>8, <1>9, <1>10, <1>11, <1>12, <1>13, <1>14 DEF Next

LEMMA DeliveryInvariant == Spec => []DeliveryInv
<1>1. Init => DeliveryInv
  <2> SUFFICES ASSUME Init
               PROVE  DeliveryInv
      OBVIOUS
  <2>1. env \in EnvRecords
      BY TxAssumption DEF Init
  <2> QED
      BY <2>1 DEF Init, DeliveryInv, CallIsLast, Committed
<1> QED
    BY <1>1, StepImplementsDelivery, PTL DEF Spec

\* What sendMessages says has failed never turns up on the chain, and what is
\* on the chain was never said to have failed.
THEOREM ImplementsDeliveryHolds == Spec => ImplementsDelivery
<1>1. Init => D!Init
    BY DEF Init, D!Init, Committed
<1> QED
    BY <1>1, DeliveryInvariant, StepImplementsDelivery, PTL
    DEF Spec, D!Spec, ImplementsDelivery

\* Where the status of a call is real, no call that was said to have failed is
\* on the chain, now or later, so that it can be made again without being made
\* twice: a consequence of TxDelivery.
THEOREM RefusedIsNotDelivered ==
    Spec => [](StatusIsReal => Committed \cap refused = {})
<1> DEFINE Asked == IF StatusIsReal THEN calls ELSE 0
           Delivered == IF StatusIsReal THEN Committed ELSE {}
           Refused == IF StatusIsReal THEN refused ELSE {}
           Inv == /\ Asked \in Nat
                  /\ Delivered \subseteq 1 .. Asked
                  /\ Delivered \cap Refused = {}
<1>1. D!Init => Inv
    BY DEF D!Init
<1>2. Inv /\ [D!Next]_(D!vars) => Inv'
  <2> SUFFICES ASSUME Inv, [D!Next]_(D!vars)
               PROVE  Inv'
      OBVIOUS
  <2>1. CASE UNCHANGED D!vars
    <3>1. Asked' = Asked /\ Delivered' = Delivered /\ Refused' = Refused
        BY <2>1 DEF D!vars
    <3> HIDE DEF Asked, Delivered, Refused
    <3> QED
        BY <3>1
  <2>2. CASE D!Ask
    <3>1. /\ Asked' = Asked + 1 /\ Delivered' = Delivered
          /\ Refused' \in {Refused, Refused \cup {Asked + 1}}
        BY <2>2 DEF D!Ask
    <3> HIDE DEF Asked, Delivered, Refused
    <3>2. Asked + 1 \notin 1 .. Asked /\ 1 .. Asked \subseteq 1 .. Asked + 1
        OBVIOUS
    <3> QED
        BY <3>1, <3>2
  <2>3. ASSUME NEW c \in D!Open, D!Deliver(c) \/ D!Refuse(c)
        PROVE  Inv'
    <3>1. /\ Asked' = Asked
          /\ \/ Delivered' = Delivered \cup {c} /\ Refused' = Refused
             \/ Delivered' = Delivered /\ Refused' = Refused \cup {c}
        BY <2>3 DEF D!Deliver, D!Refuse
    <3>2. c \in 1 .. Asked /\ c \notin Delivered /\ c \notin Refused
        BY DEF D!Open
    <3> HIDE DEF Asked, Delivered, Refused
    <3> QED
        BY <3>1, <3>2
  <2> QED
      BY <2>1, <2>2, <2>3 DEF D!Next
<1>3. Inv => (StatusIsReal => Committed \cap refused = {})
    OBVIOUS
<1> QED
    BY <1>1, <1>2, <1>3, ImplementsDeliveryHolds, PTL DEF D!Spec, ImplementsDelivery

-----------------------------------------------------------------------------
(* Type correctness.                                                       *)

\* A sequence is at most one ahead of the calls on the chain, and so of those
\* that were made.
SequencesCounted == \A a \in Seeds : account[a] <= 1 + Cardinality(Committed)

BroadcastTyped == call.pc = "broadcast" => call.tx \in Txs

TypeInv == TypeOK /\ SequencesCounted /\ BroadcastTyped

LEMMA AnswersByKind ==
    ASSUME NEW t \in Answers
    PROVE  /\ t.kind = "account" => t.of \in Seeds /\ t.seq \in Sequences
           /\ t.kind \in {"cids", "challenge"} => t.of \in Blocks
BY DEF Answers, Empty, NoAnswer, ErrorBody, Part, Machine, Challenge, CidList, AccountInfo

LEMMA QueryTyped ==
    ASSUME NEW answer \in Answers, answer # NoAnswer, NEW q \in Query(answer),
           curlOutput \in Answers \ {NoAnswer}
    PROVE  /\ q.text \in Answers
           /\ q.buffer \in Answers \ {NoAnswer}
<1>1. ErrorBody \in Answers \ {NoAnswer} /\ NoAnswer \in Answers
    BY DEF Answers, ErrorBody, NoAnswer
<1>2. q.text \in {answer, ErrorBody, NoAnswer, curlOutput}
    BY QueryComesTo
<1>3. q.buffer \in {answer, ErrorBody, curlOutput}
    BY QueryComesTo
<1> QED
    BY <1>1, <1>2, <1>3

LEMMA AnswersTyped ==
    ASSUME TypeOK
    PROVE  /\ \A a \in Seeds : MachineAnswer(a) \in Answers \ {NoAnswer}
           /\ \A a \in Seeds : AccountAnswer(a) \in Answers \ {NoAnswer}
           /\ \A b \in Blocks : Challenge(b) \in Answers \ {NoAnswer}
           /\ \A b \in Blocks : CidList(b) \in Answers \ {NoAnswer}
<1>1. {ErrorBody, Machine} \subseteq Answers \ {NoAnswer}
    BY DEF Answers, Machine, ErrorBody, NoAnswer
<1>2. ASSUME NEW a \in Seeds, NEW n \in Sequences
      PROVE  AccountInfo(a, n) \in Answers \ {NoAnswer}
  <2>1. AccountInfo(a, n) \in Answers
      BY DEF Answers
  <2>2. AccountInfo(a, n).kind # NoAnswer.kind
      BY DEF AccountInfo, NoAnswer
  <2> QED
      BY <2>1, <2>2
<1>3. ASSUME NEW b \in Blocks
      PROVE  {Challenge(b), CidList(b)} \subseteq Answers \ {NoAnswer}
  <2>1. Challenge(b) \in Answers /\ CidList(b) \in Answers
      BY DEF Answers
  <2>2. Challenge(b).kind # NoAnswer.kind /\ CidList(b).kind # NoAnswer.kind
      BY DEF Challenge, CidList, NoAnswer
  <2> QED
      BY <2>1, <2>2
<1>4. \A a \in Seeds : account[a] = NoAccount \/ account[a] \in Sequences
    BY DEF TypeOK
<1> QED
    BY <1>1, <1>2, <1>3, <1>4 DEF MachineAnswer, AccountAnswer

\* What steps that leave the chain alone have to keep.
LEMMA ChainUnchanged ==
    ASSUME TypeInv, UNCHANGED <<account, ledger>>
    PROVE  SequencesCounted'
BY DEF TypeInv, SequencesCounted, Committed

LEMMA BeginTyped ==
    ASSUME TypeInv, BeginCall, keys' \in Seeds \cup {NoKeys},
           curlOutput' \in Answers \ {NoAnswer}, used' \in 0 .. Arena,
           \/ GiveUp
           \/ /\ \E kind \in Kinds : Started(kind)
              /\ UNCHANGED refused
    PROVE  TypeInv'
<1> USE DEF BeginCall, chain
<1>1. calls \in Nat /\ calls' = calls + 1 /\ calls' \in 1 .. MaxCalls /\ seed \in Seeds
    BY TxAssumption DEF TypeInv, TypeOK, EnvRecords
<1>2. call' = Idle \/ call' \in [pc : {"account"}, id : 1 .. MaxCalls, kind : Kinds,
                                 seed : Seeds, reseeded : BOOLEAN, tx : {NoTx}]
  <2>1. CASE GiveUp
      BY <2>1 DEF GiveUp
  <2>2. ASSUME NEW kind \in Kinds, NEW reseeded \in BOOLEAN,
               call' = [pc |-> "account", id |-> calls', kind |-> kind, seed |-> seed,
                        reseeded |-> reseeded, tx |-> NoTx]
        PROVE  call' \in [pc : {"account"}, id : 1 .. MaxCalls, kind : Kinds,
                          seed : Seeds, reseeded : BOOLEAN, tx : {NoTx}]
      BY <1>1, <2>2
  <2>3. ASSUME NEW kind \in Kinds, Started(kind)
        PROVE  \E reseeded \in BOOLEAN :
                   call' = [pc |-> "account", id |-> calls', kind |-> kind, seed |-> seed,
                            reseeded |-> reseeded, tx |-> NoTx]
      BY <2>3, Zenon DEF Started
  <2> QED
      BY <2>1, <2>2, <2>3
<1>3. /\ call' \in {Idle} \cup [pc : {"account", "broadcast"}, id : 1 .. MaxCalls,
                               kind : Kinds,
                               seed : Seeds, reseeded : BOOLEAN, tx : Txs \cup {NoTx}]
      /\ BroadcastTyped'
    BY <1>2 DEF Idle, BroadcastTyped
<1>4. 1 .. calls \subseteq 1 .. calls' /\ calls' \in 1 .. calls'
    BY <1>1
<1>5. refused' \subseteq 1 .. calls'
    BY <1>4 DEF TypeInv, TypeOK, GiveUp
<1>6. SequencesCounted'
    BY ChainUnchanged
<1>7. /\ env' \in EnvRecords /\ seed' \in Seeds /\ calls' \in 0 .. MaxCalls
      /\ pop' \in [block : Blocks \cup {0}, cidOf : Blocks \cup {0}]
      /\ account' \in [Seeds -> {NoAccount} \cup Sequences]
      /\ attested' \subseteq Seeds /\ mempool' \subseteq Txs /\ ledger' \subseteq Txs
      /\ rejected' \subseteq Txs
      /\ opened' \in {"never", "reported", "unreported", "failed"} /\ role' \in Roles
    BY <1>1 DEF TypeInv, TypeOK
<1>8. TypeOK'
    BY <1>3, <1>5, <1>7 DEF TypeOK
<1> QED
    BY <1>3, <1>6, <1>8 DEF TypeInv

LEMMA WorkflowsTyped ==
    ASSUME TypeInv, \/ RunMachineAttestation \/ RunNotarizationWorkflow
                    \/ RedeemClaim \/ ProcessPoPChallengeResponse
    PROVE  TypeInv'
<1>1. /\ seed \in Seeds /\ keys \in Seeds \cup {NoKeys} /\ used \in 0 .. Arena
      /\ curlOutput \in Answers \ {NoAnswer}
      /\ 0 \in 0 .. Arena
    BY TxAssumption DEF TypeInv, TypeOK
<1> USE DEF RunMachineAttestation, RunNotarizationWorkflow, RedeemClaim,
            ProcessPoPChallengeResponse, NoSeedToRead
<1>2. BeginCall /\ used' \in 0 .. Arena
    BY <1>1
<1>3. keys' \in Seeds \cup {NoKeys}
    BY <1>1 DEF DeriveKeys
<1>4. curlOutput' \in Answers \ {NoAnswer}
  <2>1. CASE UNCHANGED curlOutput
      BY <1>1, <2>1
  <2>2. ASSUME NEW q \in Query(MachineAnswer(seed)), curlOutput' = q.buffer
        PROVE  curlOutput' \in Answers \ {NoAnswer}
      BY <1>1, <2>2, QueryTyped, AnswersTyped DEF TypeInv
  <2> QED
      BY <2>1, <2>2
<1>5. \/ GiveUp
      \/ /\ \E kind \in Kinds : Started(kind)
         /\ UNCHANGED refused
    BY DEF Kinds
<1> QED
    BY <1>2, <1>3, <1>4, <1>5, BeginTyped

LEMMA CreateTyped ==
    ASSUME TypeInv, CallInv, DeliveryInv, CreateTransaction
    PROVE  TypeInv'
<1> USE DEF chain
<1>1. /\ call # Idle /\ call.pc = "account"
      /\ UNCHANGED <<env, seed, keys, pop, role, calls, account, attested, mempool,
                     ledger, rejected, opened>>
    BY DEF CreateTransaction, Idle
<1>2. /\ keys \in Seeds /\ call.seed \in Seeds
      /\ call.id \in 1 .. calls /\ 1 .. calls \subseteq 1 .. MaxCalls
      /\ call.kind \in Kinds /\ call.reseeded \in BOOLEAN
    BY <1>1, TxAssumption DEF CallInv, TypeInv, TypeOK, DeliveryInv, CallIsLast
<1>3. PICK q \in Query(AccountAnswer(keys)) :
          /\ curlOutput' = q.buffer
          /\ \/ SendFails /\ UNCHANGED used
             \/ /\ q.text.kind = "account"
                /\ HasScratch
                /\ used' = used + 1
                /\ UNCHANGED refused
                /\ call' = [call EXCEPT
                        !.pc = "broadcast",
                        !.tx = [id |-> call.id, kind |-> call.kind,
                                signer |-> keys, account |-> q.text.of,
                                seq |-> q.text.seq, seed |-> call.seed,
                                reseeded |-> call.reseeded,
                                answered |-> q.fresh,
                                overlaps |-> PendingOf(keys) # {}]]
    BY DEF CreateTransaction
<1>4. q.text \in Answers /\ curlOutput' \in Answers \ {NoAnswer} /\ q.fresh \in BOOLEAN
  <2>1. AccountAnswer(keys) \in Answers \ {NoAnswer} /\ curlOutput \in Answers \ {NoAnswer}
      BY <1>2, AnswersTyped DEF TypeInv, TypeOK
  <2> QED
      BY <1>3, <2>1, QueryTyped, QueryComesTo
<1>5. used' \in 0 .. Arena
    BY <1>3, TxAssumption DEF TypeInv, TypeOK, HasScratch
<1>6. refused' \subseteq 1 .. calls
    BY <1>2, <1>3 DEF TypeInv, TypeOK, SendFails
<1>7. /\ call' \in {Idle} \cup [pc : {"account", "broadcast"}, id : 1 .. MaxCalls,
                               kind : Kinds,
                               seed : Seeds, reseeded : BOOLEAN, tx : Txs \cup {NoTx}]
      /\ BroadcastTyped'
  <2>1. CASE call' = Idle
      BY <2>1 DEF Idle, BroadcastTyped
  <2>2. ASSUME NEW tx, q.text.kind = "account",
               tx = [id |-> call.id, kind |-> call.kind,
                     signer |-> keys, account |-> q.text.of,
                     seq |-> q.text.seq, seed |-> call.seed,
                     reseeded |-> call.reseeded,
                     answered |-> q.fresh,
                     overlaps |-> PendingOf(keys) # {}],
               call' = [call EXCEPT !.pc = "broadcast", !.tx = tx]
        PROVE  /\ call' \in [pc : {"broadcast"}, id : 1 .. MaxCalls,
                             kind : Kinds,
                             seed : Seeds, reseeded : BOOLEAN, tx : Txs]
    <3>1. q.text.of \in Seeds /\ q.text.seq \in Sequences
        BY <1>4, <2>2, AnswersByKind
    <3>2. (PendingOf(keys) # {}) \in BOOLEAN
        OBVIOUS
    <3>3. tx \in Txs
        BY <1>2, <1>4, <2>2, <3>1, <3>2 DEF Txs
    <3>4. call \in [pc : {"account", "broadcast"}, id : 1 .. MaxCalls,
                    kind : Kinds,
                    seed : Seeds, reseeded : BOOLEAN, tx : Txs \cup {NoTx}]
        BY <1>1 DEF TypeInv, TypeOK
    <3> QED
        BY <2>2, <3>3, <3>4
  <2>3. CASE SendFails
      BY <2>1, <2>3 DEF SendFails
  <2> QED
      BY <1>3, <2>2, <2>3 DEF BroadcastTyped
<1>8. SequencesCounted'
    BY <1>1, ChainUnchanged
<1>9. TypeOK'
    BY <1>1, <1>4, <1>5, <1>6, <1>7 DEF TypeInv, TypeOK
<1> QED
    BY <1>7, <1>8, <1>9 DEF TypeInv

LEMMA BroadcastTypeCorrect ==
    ASSUME TypeInv, DeliveryInv, BroadcastTransaction
    PROVE  TypeInv'
<1>1. /\ call # Idle /\ call.pc = "broadcast" /\ call' = Idle
      /\ UNCHANGED <<env, seed, keys, curlOutput, used, pop, role, calls, account,
                     attested, ledger, opened>>
      /\ mempool' \subseteq mempool \cup {call.tx}
      /\ rejected' \subseteq rejected \cup {call.tx}
      /\ refused' \subseteq refused \cup {call.id}
    BY DEF BroadcastTransaction, Idle, Ends, device
<1>2. call.tx \in Txs /\ call.id \in 1 .. calls
    BY <1>1 DEF TypeInv, BroadcastTyped, DeliveryInv, CallIsLast
<1>3. TypeOK'
    BY <1>1, <1>2 DEF TypeInv, TypeOK
<1>4. SequencesCounted'
    BY <1>1, ChainUnchanged
<1>5. BroadcastTyped'
    BY <1>1 DEF BroadcastTyped, Idle
<1> QED
    BY <1>3, <1>4, <1>5 DEF TypeInv

LEMMA CommittedBounded ==
    ASSUME DeliveryInv
    PROVE  /\ IsFiniteSet(Committed)
           /\ Cardinality(Committed) \in Nat
           /\ Committed \subseteq 1 .. calls
<1>1. Committed \subseteq 1 .. calls
    BY DEF DeliveryInv, Committed
<1>2. IsFiniteSet(1 .. calls)
    BY FS_Interval DEF DeliveryInv
<1>3. IsFiniteSet(Committed)
    BY <1>1, <1>2, FS_Subset
<1> QED
    BY <1>1, <1>3, FS_CardinalityType

LEMMA CommitTyped ==
    ASSUME TypeInv, DeliveryInv, DeliveryInv', NEW t \in mempool, Commit(t)
    PROVE  TypeInv'
<1>1. /\ UNCHANGED <<env, seed, keys, curlOutput, used, pop, role, call, calls,
                     rejected, refused, opened>>
      /\ mempool' = mempool \ {t} /\ ledger' = ledger \cup {t}
      /\ t.seq = account[t.signer]
      /\ account' = [account EXCEPT ![t.signer] = @ + 1]
      /\ attested' \subseteq attested \cup {t.signer}
      /\ Committed' = Committed \cup {t.id}
    BY DEF Commit, device, history, Committed
<1>2. t \in Txs /\ t.signer \in Seeds /\ t.seq \in Sequences
    BY DEF TypeInv, TypeOK, Txs
<1>3. Cardinality(Committed') = Cardinality(Committed) + 1
    BY <1>1, CommittedBounded, FS_AddElement DEF DeliveryInv
<1>4. Cardinality(Committed') <= calls /\ calls <= MaxCalls /\ calls \in Nat
  <2>1. Committed' \subseteq 1 .. calls
      BY <1>1 DEF DeliveryInv, Committed
  <2>2. calls \in Nat
      BY DEF DeliveryInv
  <2>3. IsFiniteSet(1 .. calls) /\ Cardinality(1 .. calls) = calls
      BY <2>2, FS_Interval
  <2>4. Cardinality(Committed') <= Cardinality(1 .. calls)
      BY <2>1, <2>3, FS_Subset
  <2> QED
      BY <2>2, <2>3, <2>4, TxAssumption DEF TypeInv, TypeOK
<1>5. SequencesCounted'
  <2>1. \A a \in Seeds : account[a] \in Int /\ account[a] <= 1 + Cardinality(Committed)
      BY DEF TypeInv, TypeOK, SequencesCounted, NoAccount, Sequences
  <2>2. \A a \in Seeds : account'[a] \in {account[a], account[a] + 1}
      BY <1>1 DEF TypeInv, TypeOK
  <2> QED
      BY <1>3, <2>1, <2>2, CommittedBounded DEF SequencesCounted
<1>6. account' \in [Seeds -> {NoAccount} \cup Sequences]
  <2>1. account'[t.signer] = t.seq + 1
      BY <1>1, <1>2 DEF TypeInv, TypeOK
  <2>2. account'[t.signer] <= 1 + MaxCalls
      BY <1>2, <1>4, <1>5, <1>3, <2>1, CommittedBounded, TxAssumption DEF SequencesCounted, Sequences
  <2>3. t.seq + 1 \in Sequences
      BY <1>2, <2>1, <2>2, TxAssumption DEF Sequences
  <2> QED
      BY <1>1, <1>2, <2>3 DEF TypeInv, TypeOK
<1>7. TypeOK'
    BY <1>1, <1>2, <1>6 DEF TypeInv, TypeOK
<1> QED
    BY <1>1, <1>5, <1>7 DEF TypeInv, BroadcastTyped

\* The other calls of the host.
LEMMA HostTyped ==
    ASSUME TypeInv, call' = Idle,
           UNCHANGED <<env, calls, attested, mempool, ledger, rejected, refused>>,
           role' \in Roles, seed' \in Seeds, keys' \in Seeds \cup {NoKeys},
           curlOutput' \in Answers \ {NoAnswer}, used' \in 0 .. Arena,
           pop' \in [block : Blocks \cup {0}, cidOf : Blocks \cup {0}],
           account' \in [Seeds -> {NoAccount} \cup Sequences],
           \A a \in Seeds : account'[a] \in {account[a], 0},
           opened' \in {"never", "reported", "unreported", "failed"}, DeliveryInv
    PROVE  TypeInv'
<1>1. TypeOK'
    BY DEF TypeInv, TypeOK
<1>2. BroadcastTyped'
    BY DEF BroadcastTyped, Idle
<1>3. Cardinality(Committed) \in Nat /\ Committed' = Committed
    BY CommittedBounded DEF Committed
<1>4. SequencesCounted'
    BY <1>3 DEF SequencesCounted, TypeInv
<1> QED
    BY <1>1, <1>2, <1>4 DEF TypeInv

LEMMA ForgettingTyped ==
    ASSUME ForgetMemory
    PROVE  /\ keys' \in Seeds \cup {NoKeys}
           /\ curlOutput' \in Answers \ {NoAnswer}
           /\ used' \in 0 .. Arena
           /\ pop' \in [block : Blocks \cup {0}, cidOf : Blocks \cup {0}]
           /\ call' = Idle /\ role' \in Roles
<1>1. Empty \in Answers /\ Empty.kind # NoAnswer.kind
    BY DEF Answers, Empty, NoAnswer
<1> QED
    BY <1>1, TxAssumption DEF ForgetMemory, NoPoP, Roles

LEMMA PoPQueryTyped ==
    ASSUME TypeInv, NEW b \in Blocks, GetPoPFromChain(b)
    PROVE  /\ curlOutput' \in Answers \ {NoAnswer}
           /\ pop' \in [block : Blocks \cup {0}, cidOf : Blocks \cup {0}]
<1>1. PICK q \in Query(Challenge(b)) :
          /\ curlOutput' = q.buffer
          /\ pop' = IF q.text = NoAnswer THEN pop
                    ELSE [block |-> ChallengeIn(q.text), cidOf |-> 0]
    BY DEF GetPoPFromChain, BufferAfterPoP
<1>2. /\ q.text \in Answers /\ q.buffer \in Answers \ {NoAnswer}
      /\ pop \in [block : Blocks \cup {0}, cidOf : Blocks \cup {0}]
    BY AnswersTyped, QueryTyped DEF TypeInv, TypeOK
<1>3. ChallengeIn(q.text) \in Blocks \cup {0}
    BY <1>2, AnswersByKind DEF ChallengeIn
<1> QED
    BY <1>1, <1>2, <1>3

LEMMA CidQueryTyped ==
    ASSUME TypeInv, GetCIDofChallengee
    PROVE  /\ keys' \in Seeds \cup {NoKeys}
           /\ curlOutput' \in Answers \ {NoAnswer}
           /\ used' \in 0 .. Arena
           /\ pop' \in [block : Blocks \cup {0}, cidOf : Blocks \cup {0}]
           /\ call' = Idle /\ role' \in Roles
<1>1. /\ keys \in Seeds \cup {NoKeys} /\ used \in 0 .. Arena
      /\ curlOutput \in Answers \ {NoAnswer}
      /\ pop \in [block : Blocks \cup {0}, cidOf : Blocks \cup {0}] /\ role \in Roles
    BY DEF TypeInv, TypeOK
<1>2. CASE ForgetMemory
    BY <1>2, ForgettingTyped
<1>3. ASSUME NEW q \in Query(CidList(pop.block)), NEW t \in GetCids(q), t # NoAnswer,
             curlOutput' = IF q.fresh THEN t ELSE q.buffer,
             pop' = [pop EXCEPT !.cidOf = IF t.kind = "cids" THEN t.of ELSE 0]
      PROVE  /\ curlOutput' \in Answers \ {NoAnswer}
             /\ pop' \in [block : Blocks \cup {0}, cidOf : Blocks \cup {0}]
  <2>1. pop.block \in Blocks
      BY <1>1 DEF GetCIDofChallengee
  <2>2. q.text \in Answers /\ q.buffer \in Answers \ {NoAnswer}
      BY <1>1, <2>1, AnswersTyped, QueryTyped DEF TypeInv
  <2>3. t \in Answers
      BY <2>2 DEF GetCids, Faulty, Answers
  <2>4. t.kind = "cids" => t.of \in Blocks
      BY <2>3, AnswersByKind
  <2> QED
      BY <1>1, <1>3, <2>2, <2>3, <2>4
<1>4. CASE UNCHANGED <<keys, used, role, call>>
    BY <1>1, <1>3, <1>4, <1>2 DEF GetCIDofChallengee
<1> QED
    BY <1>2, <1>4 DEF GetCIDofChallengee

LEMMA StepTyped ==
    TypeInv /\ CallInv /\ DeliveryInv /\ DeliveryInv' /\ [Next]_vars => TypeInv'
<1> SUFFICES ASSUME TypeInv, CallInv, DeliveryInv, DeliveryInv', [Next]_vars
             PROVE  TypeInv'
    OBVIOUS
<1> USE DEF chain, history
<1>0. /\ seed \in Seeds /\ keys \in Seeds \cup {NoKeys} /\ used \in 0 .. Arena
      /\ curlOutput \in Answers \ {NoAnswer} /\ 0 \in 0 .. Arena
      /\ pop \in [block : Blocks \cup {0}, cidOf : Blocks \cup {0}]
      /\ account \in [Seeds -> {NoAccount} \cup Sequences]
      /\ opened \in {"never", "reported", "unreported", "failed"} /\ role \in Roles
    BY TxAssumption DEF TypeInv, TypeOK
<1>1. CASE \/ RunMachineAttestation \/ RunNotarizationWorkflow
           \/ RedeemClaim \/ ProcessPoPChallengeResponse
    BY <1>1, WorkflowsTyped
<1>2. CASE CreateTransaction
    BY <1>2, CreateTyped
<1>3. CASE BroadcastTransaction
    BY <1>3, BroadcastTypeCorrect
<1>4. CASE \E s \in Seeds : SetSeed(s)
    BY <1>0, <1>4, HostTyped DEF SetSeed, Between, Roles
<1>5. CASE AmIChallenger
    BY <1>0, <1>5, HostTyped DEF AmIChallenger, DeriveKeys, Between, Roles
<1>6. CASE CreateAccount
  <2>1. account' \in [Seeds -> {NoAccount} \cup Sequences]
      BY <1>0, <1>6, TxAssumption DEF CreateAccount, Sequences
  <2>2. \A a \in Seeds : account'[a] \in {account[a], 0}
      BY <1>6 DEF CreateAccount
  <2>3. opened' \in {"never", "reported", "unreported", "failed"} /\ used' \in 0 .. Arena
      BY <1>0, <1>6 DEF CreateAccount
  <2> QED
      BY <1>0, <1>6, <2>1, <2>2, <2>3, HostTyped DEF CreateAccount, Between
<1>7. CASE \E b \in Blocks : GetPoPFromChain(b)
    BY <1>0, <1>7, PoPQueryTyped, HostTyped DEF GetPoPFromChain, Between
<1>8. CASE GetCIDofChallengee
    BY <1>0, <1>8, CidQueryTyped, HostTyped DEF GetCIDofChallengee
<1>9. CASE Restart
    BY <1>0, <1>9, ForgettingTyped, HostTyped DEF Restart
<1>10. ASSUME NEW t \in mempool, Commit(t)
       PROVE  TypeInv'
    BY <1>10, CommitTyped
<1>11. ASSUME NEW t \in mempool, Evict(t)
       PROVE  TypeInv'
  <2>1. TypeOK'
      BY <1>11 DEF Evict, device, TypeInv, TypeOK
  <2> QED
      BY <1>11, <2>1, ChainUnchanged DEF Evict, TypeInv, BroadcastTyped
<1>12. CASE UNCHANGED vars
  <2>1. TypeOK'
      BY <1>12 DEF vars, device, TypeInv, TypeOK
  <2> QED
      BY <1>12, <2>1, ChainUnchanged DEF vars, TypeInv, BroadcastTyped
<1> QED
    BY <1>1, <1>2, <1>3, <1>4, <1>5, <1>6, <1>7, <1>8, <1>9, <1>10, <1>11, <1>12 DEF Next

LEMMA InitTyped == Init => TypeInv
<1> SUFFICES ASSUME Init
             PROVE  TypeInv
    OBVIOUS
<1> USE DEF Init
<1>1. env \in EnvRecords
    BY TxAssumption
<1>2. curlOutput \in Answers \ {NoAnswer} /\ pop \in [block : Blocks \cup {0}, cidOf : Blocks \cup {0}]
  <2>1. Empty \in Answers /\ Empty.kind # NoAnswer.kind
      BY DEF Answers, Empty, NoAnswer
  <2> QED
      BY <2>1 DEF NoPoP
<1>3. account \in [Seeds -> {NoAccount} \cup Sequences]
    BY TxAssumption DEF Sequences
<1>4. attested \subseteq Seeds
    BY <1>1 DEF EnvRecords
<1>5. 0 \in 0 .. Arena /\ 0 \in 0 .. MaxCalls
    BY TxAssumption
<1>6. TypeOK
    BY <1>1, <1>2, <1>3, <1>4, <1>5 DEF TypeOK, Roles
<1>7. SequencesCounted
  <2>1. Committed = {}
      BY DEF Committed
  <2>2. Cardinality(Committed) = 0
      BY <2>1, FS_EmptySet
  <2>3. \A a \in Seeds : account[a] \in {1, NoAccount}
      OBVIOUS
  <2> QED
      BY <2>2, <2>3 DEF SequencesCounted, NoAccount
<1> QED
    BY <1>6, <1>7 DEF TypeInv, BroadcastTyped, Idle

\* Type correctness; that used and account stay in their bounds is the limit of
\* getStack, and that a sequence counts what is on the chain.
THEOREM TypeCorrect == Spec => []TypeOK
<1>1. TxInv => CallInv
    BY DEF TxInv
<1>2. TypeInv => TypeOK
    BY DEF TypeInv
<1> QED
    BY <1>1, <1>2, InitTyped, StepTyped, TxInvariant, DeliveryInvariant, PTL DEF Spec

-----------------------------------------------------------------------------
(* Accounts.                                                               *)

\* On Tasmota an account that the service has opened is reported, unless the
\* answer to the request got lost: there createAccountCall returns the status of
\* the request, which CreateAccount compares with 200, or a negative one.
THEOREM AccountReportedOnTasmota ==
    Spec => [](~Linux /\ ~Fault("noanswer") => AccountReported)
<1> DEFINE Inv == ~Linux /\ ~Fault("noanswer") => AccountReported
<1>1. Init => Inv
    BY DEF Init, AccountReported
<1>2. Inv /\ [Next]_vars => Inv'
  <2> SUFFICES ASSUME Inv, [Next]_vars
               PROVE  Inv'
      OBVIOUS
  <2>1. CASE CreateAccount
    <3>1. (Linux' <=> Linux) /\ (Fault("noanswer")' <=> Fault("noanswer"))
        BY <2>1 DEF CreateAccount, Between, Linux, Fault
    <3>2. ASSUME ~Linux, ~Fault("noanswer") PROVE opened' # "unreported"
      <4>1. \A status \in AccountStatus(TRUE) : status = 200
          BY <3>2 DEF AccountStatus, CallTasmota, Faulty
      <4>2. PICK served \in BOOLEAN : \E status \in AccountStatus(served) :
                opened' = IF status = 200 THEN "reported"
                          ELSE IF served THEN "unreported" ELSE "failed"
          BY <2>1 DEF CreateAccount, Faulty
      <4> QED
          BY <4>1, <4>2
    <3> QED
        BY <3>1, <3>2 DEF AccountReported
  <2>2. CASE ~CreateAccount
    <3>1. UNCHANGED <<env, opened>>
      <4> USE DEF device, chain, history
      <4>1. CASE \/ RunMachineAttestation \/ RunNotarizationWorkflow
                 \/ RedeemClaim \/ ProcessPoPChallengeResponse
          BY <4>1 DEF RunMachineAttestation, RunNotarizationWorkflow, RedeemClaim,
                      ProcessPoPChallengeResponse, BeginCall
      <4>2. CASE CreateTransaction
          BY <4>2 DEF CreateTransaction
      <4>3. CASE BroadcastTransaction
          BY <4>3 DEF BroadcastTransaction
      <4>4. CASE (\E s \in Seeds : SetSeed(s)) \/ AmIChallenger
          BY <4>4 DEF SetSeed, AmIChallenger, Between
      <4>5. CASE \E b \in Blocks : GetPoPFromChain(b)
          BY <4>5 DEF GetPoPFromChain, Between
      <4>6. CASE GetCIDofChallengee \/ Restart
          BY <4>6 DEF GetCIDofChallengee, Restart
      <4>7. CASE \E t \in mempool : Commit(t) \/ Evict(t)
          BY <4>7 DEF Commit, Evict
      <4>8. CASE UNCHANGED vars
          BY <4>8 DEF vars
      <4> QED
          BY <2>2, <4>1, <4>2, <4>3, <4>4, <4>5, <4>6, <4>7, <4>8 DEF Next
    <3> QED
        BY <3>1 DEF AccountReported, Linux, Fault
  <2> QED
      BY <2>1, <2>2
<1> QED
    BY <1>1, <1>2, PTL DEF Spec

=============================================================================
