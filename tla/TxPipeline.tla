------------------------------ MODULE TxPipeline ------------------------------
(***************************************************************************)
(* The calls that end in a transaction - attestation, notarization,        *)
(* redeeming of claims and the report on a challenge - with the account    *)
(* service and, on Linux, the queries of proof of participation that share *)
(* a buffer with them.  The file a notarization writes is left to          *)
(* CidStoreLinux and CidStoreTasmota, what a report says to PoPChallenge.  *)
(*                                                                         *)
(* A call is cut where the chain may move: it asks whether the machine has *)
(* been attested (notarization only), asks for account and sequence, and   *)
(* broadcasts in sync mode, where the node answers before the transaction  *)
(* is in a block.  The SDK runs one call at a time.                        *)
(*                                                                         *)
(* On Linux a query is a curl command whose output is read into the static *)
(* curlOutput; a command that fails prints nothing and leaves there what   *)
(* the query before had read.  On Tasmota each answer has a String of its  *)
(* own.                                                                    *)
(***************************************************************************)
EXTENDS Integers, FiniteSets

CONSTANTS
    Seeds,     \* an identity is named by its seed
    NoKeys,    \* the key buffers after a start
    Blocks,    \* PoP blocks; the challengee of one is named by it
    MaxCalls,  \* bound: the most calls made in any environment
    Arena,     \* payloads the scratch memory has room for
    Envs       \* the environments to run in

(***************************************************************************)
(*   "silent"   a query gets no answer                                     *)
(*   "error"    a query is answered with an error                          *)
(*   "long"     a list of CIDs is longer than curlOutput                   *)
(*   "lost"     a broadcast does not reach the node                        *)
(*   "noanswer" the answer to a broadcast, or on Tasmota to the opening of *)
(*              an account, does not come back                             *)
(*   "evict"    the node drops a transaction from its mempool              *)
(*   "encode"   a message cannot be built                                  *)
(*   "prepare"  a transaction cannot be built                              *)
(*   "seed"     there is no seed to derive keys from                       *)
(*   "crash"    the process dies                                           *)
(***************************************************************************)
Faults == {"silent", "error", "long", "lost", "noanswer", "evict", "encode",
           "prepare", "seed", "crash"}

\* api: the chain the API setting names is the one DEFAULT_API_TEXT names; on
\* Linux an API that was never saved is an empty text and names none.
\* known: the machines that were attested earlier.  challenger: amIChallenger
\* may say so.  max: the calls made there.
EnvRecords == [platform : {"linux", "tasmota"}, api : {"default", "elsewhere"},
               faults : SUBSET Faults, known : SUBSET Seeds,
               challenger : BOOLEAN, max : 0 .. MaxCalls]

ASSUME TxAssumption ==
    /\ NoKeys \notin Seeds
    /\ Blocks \subseteq Nat \ {0}
    /\ MaxCalls \in Nat
    /\ Arena \in Nat
    /\ Envs \subseteq EnvRecords

VARIABLES
    env,        \* chosen at the start, then fixed
    seed,       \* the stored seed
    keys,       \* the identity in the key buffers, or NoKeys
    curlOutput, \* Linux: the last answer that was not empty
    used,       \* payloads taken from the scratch memory since it was cleared
    pop,        \* block of popParticipation; whose CID was picked for it
    role,       \* the host's, see below
    call,       \* the call under way, or Idle
    calls,      \* the number of calls made
    account,    \* chain: the sequence of each account, or NoAccount
    attested,   \* chain: the machines attested
    mempool,    \* chain: transactions accepted and not yet in a block
    ledger,     \* chain: transactions in blocks
    rejected,   \* history: transactions the node did not accept
    refused,    \* history: calls that ended before sendMessages or in its failure
    opened      \* history: what became of the last CreateAccount

chain == <<account, attested, mempool, ledger>>
device == <<seed, keys, curlOutput, used, pop, role>>
history == <<rejected, refused, opened>>
vars == <<env, device, call, calls, chain, history>>

\* "challenger" once amIChallenger has said so, and "reseeded" when a seed was
\* stored since then; before it has, the host answers to no challenge.
Roles == {"none", "challenger", "reseeded"}

Linux == env.platform = "linux"
Fault(f) == f \in env.faults

-----------------------------------------------------------------------------
(* Values.                                                                 *)

NoAccount == -1
Sequences == 0 .. MaxCalls + 1

Empty     == [kind |-> "empty"]    \* curlOutput after a start
NoAnswer  == [kind |-> "none"]     \* popen or the request failed
ErrorBody == [kind |-> "error"]    \* the node's error, and its empty list
Part      == [kind |-> "part"]     \* the end of an answer that was too long
Machine   == [kind |-> "machine"]
Challenge(b) == [kind |-> "challenge", of |-> b]
CidList(b)   == [kind |-> "cids", of |-> b]
AccountInfo(a, n) == [kind |-> "account", of |-> a, seq |-> n]

Answers ==
    {Empty, NoAnswer, ErrorBody, Part, Machine}
        \cup {Challenge(b) : b \in Blocks} \cup {CidList(b) : b \in Blocks}
        \cup {AccountInfo(a, n) : a \in Seeds, n \in Sequences}

\* A transaction: the call it is for, its signer, the account and sequence it
\* is signed with.  For the history: the seed stored when it was asked for,
\* whether that was a report and the host "reseeded", whether its account query
\* was answered, and whether another transaction of the signer was under way
\* then.
Kinds == {"attest", "notarize", "redeem", "report"}

Txs == [id : 1 .. MaxCalls, kind : Kinds,
        signer : Seeds, account : Seeds, seq : Sequences,
        seed : Seeds, reseeded : BOOLEAN, answered : BOOLEAN, overlaps : BOOLEAN]

NoTx == [kind |-> "none"]
Idle == [pc |-> "idle"]
NoPoP == [block |-> 0, cidOf |-> 0]

PendingOf(a) == {t \in mempool : t.signer = a}
Committed == {t.id : t \in ledger}

Init ==
    /\ env \in Envs
    /\ seed \in Seeds
    /\ keys = NoKeys
    /\ curlOutput = Empty
    /\ used = 0
    /\ pop = NoPoP
    /\ role = "none"
    /\ call = Idle
    /\ calls = 0
    /\ account = [a \in Seeds |-> IF a \in env.known THEN 1 ELSE NoAccount]
    /\ attested = env.known
    /\ mempool = {}
    /\ ledger = {}
    /\ rejected = {}
    /\ refused = {}
    /\ opened = "never"

-----------------------------------------------------------------------------
(* Queries.                                                                *)

\* Mutant: a query whose kind of answer is in curlOutput is not made again.
QueryOnce(answer) ==
    {[text |-> IF curlOutput.kind = answer.kind THEN curlOutput ELSE answer,
      fresh |-> TRUE,
      buffer |-> IF Linux /\ curlOutput.kind # answer.kind
                 THEN answer ELSE curlOutput]}

Faulty(f, result) == IF Fault(f) THEN {result} ELSE {}

\* What a query the node would answer so comes to: the text that is parsed,
\* whether it is an answer to this query, and what curlOutput holds after.
QueryLinux(answer) ==
    {[text |-> t, fresh |-> TRUE, buffer |-> t] :
         t \in {answer} \cup Faulty("error", ErrorBody)}
    \cup
    {[text |-> t, fresh |-> FALSE, buffer |-> curlOutput] :
         t \in Faulty("silent", NoAnswer) \cup Faulty("silent", curlOutput)}

QueryTasmota(answer) ==
    {[text |-> t, fresh |-> t # NoAnswer, buffer |-> curlOutput] :
         t \in {answer} \cup Faulty("error", ErrorBody) \cup Faulty("silent", NoAnswer)}

Query(answer) == IF Linux THEN QueryLinux(answer) ELSE QueryTasmota(answer)

AccountAnswer(a) ==
    IF account[a] = NoAccount THEN ErrorBody ELSE AccountInfo(a, account[a])

MachineAnswer(a) == IF a \in attested THEN Machine ELSE ErrorBody

\* Mutant: curlOutput is looked at after the loop.
AttestedInBuffer(q) == q.text = Machine

\* The loop that looks for "name" only sees what this query has printed.
HasMachineBeenAttested(q) == q.fresh /\ q.text = Machine

-----------------------------------------------------------------------------
(* The calls of the host: up to the account query.                         *)

\* Early returns, and no message; the caller of RDDLSDKRedeemClaim gets false.
GiveUp ==
    /\ call' = Idle
    /\ refused' = refused \cup {calls'}

Started(kind) ==
    call' = [pc |-> "account", id |-> calls', kind |-> kind, seed |-> seed,
             reseeded |-> kind = "report" /\ role = "reseeded", tx |-> NoTx]

BeginCall ==
    /\ call = Idle
    /\ calls < env.max
    /\ calls' = calls + 1
    /\ UNCHANGED <<env, seed, pop, role, chain, rejected, opened>>

\* Mutant: keys are derived once.
DeriveKeysOnce == keys' = IF keys = NoKeys THEN seed ELSE keys

\* getPlntmntKeysLocal: the keys of the stored seed, unless it cannot be read.
DeriveKeys == keys' = seed
NoSeedToRead == Fault("seed") /\ GiveUp /\ UNCHANGED <<keys, curlOutput>>

\* registerMachine, createRedeemClaimMsg and CreatePoPResult; what they build is
\* the kind and the signer of the transaction.
CannotBuild == Fault("encode")

RunMachineAttestation ==
    /\ BeginCall
    /\ used' = 0
    /\ \/ NoSeedToRead
       \/ /\ DeriveKeys
          /\ \/ Started("attest") /\ UNCHANGED refused
             \/ CannotBuild /\ GiveUp
          /\ UNCHANGED curlOutput

\* Neither the result of writing the file nor the status of the message is
\* looked at.
RunNotarizationWorkflow ==
    /\ BeginCall
    /\ used' = 0
    /\ \/ NoSeedToRead
       \/ /\ DeriveKeys
          /\ \E q \in Query(MachineAnswer(seed)) :
                 /\ curlOutput' = q.buffer
                 /\ \/ /\ ~HasMachineBeenAttested(q)
                       /\ GiveUp
                    \/ /\ HasMachineBeenAttested(q)
                       /\ Started("notarize")
                       /\ UNCHANGED refused

\* The scratch memory is not cleared.
RedeemClaim ==
    /\ BeginCall
    /\ \/ NoSeedToRead
       \/ /\ DeriveKeys
          /\ \/ Started("redeem") /\ UNCHANGED refused
             \/ CannotBuild /\ GiveUp
          /\ UNCHANGED curlOutput
    /\ UNCHANGED used

\* The report on a challenge, unless the answer is not what was asked for: no
\* keys are derived for it.  The status of the message is not looked at.
ProcessPoPChallengeResponse ==
    /\ role # "none"
    /\ BeginCall
    /\ used' = 0
    /\ \/ Started("report") /\ UNCHANGED refused
       \/ GiveUp
    /\ UNCHANGED <<keys, curlOutput>>

-----------------------------------------------------------------------------
(* sendMessages.                                                           *)

SendFails ==
    /\ call' = Idle
    /\ refused' = refused \cup {call.id}

\* Mutants: the size asked for is not compared; one too much is kept free.
ScratchUnchecked == used <= Arena
ScratchOneLeft == used + 1 < Arena

\* getStack has room for a payload.
HasScratch == used < Arena

\* prepareTx, by which nothing has been taken from the scratch memory.
CannotPrepare == Fault("prepare")

\* create_transaction: getAccountInfo, prepareTx, and a payload from the scratch
\* memory.
CreateTransaction ==
    /\ call.pc = "account"
    /\ \E q \in Query(AccountAnswer(keys)) :
           /\ curlOutput' = q.buffer
           /\ \/ /\ q.text.kind # "account" \/ CannotPrepare \/ ~HasScratch
                 /\ SendFails
                 /\ UNCHANGED used
              \/ /\ q.text.kind = "account"
                 /\ HasScratch
                 /\ used' = used + 1
                 /\ call' = [call EXCEPT
                        !.pc = "broadcast",
                        !.tx = [id |-> call.id, kind |-> call.kind,
                                signer |-> keys, account |-> q.text.of,
                                seq |-> q.text.seq, seed |-> call.seed,
                                reseeded |-> call.reseeded,
                                answered |-> q.fresh,
                                overlaps |-> PendingOf(keys) # {}]]
                 /\ UNCHANGED refused
    /\ UNCHANGED <<env, seed, keys, pop, role, calls, chain, rejected, opened>>

\* The node checks a transaction against its state and its mempool; its chain id
\* and denom, which come from the settings, it takes to be right.
CheckTx(t) ==
    /\ account[t.signer] # NoAccount
    /\ t.account = t.signer
    /\ t.seq = account[t.signer] + Cardinality(PendingOf(t.signer))

\* The API setting broadcast_transaction posts to is not the one queries use.
Reachable == env.api = "default"

\* Mutant: the exit status of curl is returned.
StatusOfCurl == IF Linux THEN {0, -1} ELSE {200}

\* On Linux the status is 0 whatever curl makes of the request.
StatusOfLost == IF Linux THEN {0} ELSE {-1}
StatusOfSent ==
    IF Linux THEN {0} ELSE {200} \cup Faulty("noanswer", -11)

\* The end of sendMessages, and of the call.
Ends(status) ==
    /\ call' = Idle
    /\ refused' = IF status < 0 THEN refused \cup {call.id} ELSE refused

BroadcastTransaction ==
    /\ call.pc = "broadcast"
    /\ \/ /\ Reachable
          /\ \/ CheckTx(call.tx) /\ mempool' = mempool \cup {call.tx}
                /\ UNCHANGED rejected
             \/ ~CheckTx(call.tx) /\ rejected' = rejected \cup {call.tx}
                /\ UNCHANGED mempool
          /\ \E status \in StatusOfSent : Ends(status)
       \/ /\ ~Reachable \/ Fault("lost")
          /\ \E status \in StatusOfLost : Ends(status)
          /\ UNCHANGED <<mempool, rejected>>
    /\ UNCHANGED <<env, device, calls, account, attested, ledger, opened>>

-----------------------------------------------------------------------------
(* Other calls of the host, between those above.                           *)

Between == call = Idle /\ UNCHANGED <<env, call, calls>>

\* A new seed is stored; the key buffers keep the old identity until a call
\* derives keys anew.
SetSeed(s) ==
    /\ Between
    /\ seed' = s
    /\ role' = IF role = "none" THEN "none" ELSE "reseeded"
    /\ UNCHANGED <<keys, curlOutput, used, pop, chain, history>>

\* amIChallenger, whether it returns true or false; with no seed to read it
\* changes nothing.
AmIChallenger ==
    /\ Between
    /\ DeriveKeys
    /\ role' \in {role} \cup (IF env.challenger THEN {"challenger"} ELSE {})
    /\ UNCHANGED <<seed, curlOutput, used, pop, chain, history>>

\* createAccountCall: 0 on Linux, the HTTP status on Tasmota, where it clears
\* the scratch memory, or a negative one for no answer.  CreateAccount takes 200
\* for success.
CallLinux(served) == {0}
CallTasmota(served) ==
    IF served THEN {200} \cup Faulty("noanswer", -11)
    ELSE {500} \cup Faulty("lost", -1)
AccountStatus(served) == IF Linux THEN CallLinux(served) ELSE CallTasmota(served)

CreateAccount ==
    /\ Between
    /\ used' = IF Linux THEN used ELSE 0
    /\ \E served \in {keys # NoKeys} \cup Faulty("lost", FALSE) :
           /\ account' = [a \in Seeds |->
                  IF served /\ a = keys /\ account[a] = NoAccount
                  THEN 0 ELSE account[a]]
           /\ \E status \in AccountStatus(served) :
                  opened' = IF status = 200 THEN "reported"
                            ELSE IF served THEN "unreported" ELSE "failed"
    /\ UNCHANGED <<seed, keys, curlOutput, pop, role, attested, mempool, ledger,
                   rejected, refused>>

\* Mutant: a buffer of getPoPInfo's own, as broadcast_transaction has one.
OwnBuffer(q) == curlOutput

BufferAfterPoP(q) == q.buffer

\* getPoPInfoFromJSON; 0 is resetPopInfo.
ChallengeIn(t) == IF t.kind = "challenge" THEN t.of ELSE 0

\* getPoPInfo: without an answer curlOutput is parsed all the same.
GetPoPFromChain(b) ==
    /\ Linux /\ Between
    /\ \E q \in Query(Challenge(b)) :
           /\ curlOutput' = BufferAfterPoP(q)
           /\ pop' = IF q.text = NoAnswer THEN pop
                     ELSE [block |-> ChallengeIn(q.text), cidOf |-> 0]
    /\ UNCHANGED <<seed, keys, used, role, chain, history>>

ForgetMemory ==
    /\ keys' = NoKeys
    /\ curlOutput' = Empty
    /\ used' = 0
    /\ pop' = NoPoP
    /\ role' = "none"
    /\ call' = Idle

\* fgets reads an answer piece by piece, each over the one before.
GetCids(q) == {q.text} \cup (IF q.fresh THEN Faulty("long", Part) ELSE {})

\* getCIDtoBeChallenged, for a host that has a challenge: a CID of the list,
\* or NULL.  No text to parse and a list without CIDs both end the process.
GetCIDofChallengee ==
    /\ Linux
    /\ call = Idle
    /\ pop.block # 0
    /\ \E q \in Query(CidList(pop.block)) :
           \E t \in GetCids(q) :
                \/ /\ t # NoAnswer
                   /\ curlOutput' = IF q.fresh THEN t ELSE q.buffer
                   /\ pop' = [pop EXCEPT !.cidOf =
                                IF t.kind = "cids" THEN t.of ELSE 0]
                   /\ UNCHANGED <<keys, used, role, call>>
                \/ /\ t \in {NoAnswer, ErrorBody}
                   /\ ForgetMemory
    /\ UNCHANGED <<env, seed, calls, chain, history>>

\* A restart; in the middle of a call it is a crash.
Restart ==
    /\ call = Idle \/ Fault("crash")
    /\ ForgetMemory
    /\ UNCHANGED <<env, seed, calls, chain, history>>

-----------------------------------------------------------------------------
(* The chain.                                                              *)

Commit(t) ==
    /\ t.seq = account[t.signer]
    /\ mempool' = mempool \ {t}
    /\ ledger' = ledger \cup {t}
    /\ account' = [account EXCEPT ![t.signer] = @ + 1]
    /\ attested' = IF t.kind = "attest" THEN attested \cup {t.signer} ELSE attested
    /\ UNCHANGED <<env, device, call, calls, history>>

Evict(t) ==
    /\ Fault("evict")
    /\ mempool' = mempool \ {t}
    /\ UNCHANGED <<env, device, call, calls, account, attested, ledger, history>>

Next ==
    \/ RunMachineAttestation
    \/ RunNotarizationWorkflow
    \/ RedeemClaim
    \/ ProcessPoPChallengeResponse
    \/ CreateTransaction
    \/ BroadcastTransaction
    \/ \E s \in Seeds : SetSeed(s)
    \/ AmIChallenger
    \/ CreateAccount
    \/ \E b \in Blocks : GetPoPFromChain(b)
    \/ GetCIDofChallengee
    \/ Restart
    \/ \E t \in mempool : Commit(t) \/ Evict(t)

\* A call that has begun is run to its end by the thread that makes it, and
\* the chain goes on making blocks.  Nothing obliges the host to call.
Fairness ==
    /\ WF_vars(CreateTransaction)
    /\ WF_vars(BroadcastTransaction)
    /\ WF_vars(\E t \in mempool : Commit(t))

Spec == Init /\ [][Next]_vars /\ Fairness

-----------------------------------------------------------------------------
(* Properties.                                                             *)

TypeOK ==
    /\ env \in EnvRecords
    /\ seed \in Seeds
    /\ keys \in Seeds \cup {NoKeys}
    /\ curlOutput \in Answers \ {NoAnswer}
    /\ used \in 0 .. Arena
    /\ pop \in [block : Blocks \cup {0}, cidOf : Blocks \cup {0}]
    /\ role \in Roles
    /\ call \in {Idle} \cup [pc : {"account", "broadcast"}, id : 1 .. MaxCalls,
                            kind : Kinds, seed : Seeds, reseeded : BOOLEAN,
                            tx : Txs \cup {NoTx}]
    /\ calls \in 0 .. MaxCalls
    /\ account \in [Seeds -> {NoAccount} \cup Sequences]
    /\ attested \subseteq Seeds
    /\ mempool \subseteq Txs
    /\ ledger \subseteq Txs
    /\ rejected \subseteq Txs
    /\ refused \subseteq 1 .. calls
    /\ opened \in {"never", "reported", "unreported", "failed"}

\* Whatever identity CreateAccount or an earlier call has left in the key
\* buffers, a transaction is signed by the seed that was stored when its call
\* was made.  Only the report on a challenge, which derives no keys, may be
\* signed by another, and that only if a seed was stored after amIChallenger
\* had said that the challenge was this device's.
SignedByStoredSeed ==
    \A t \in mempool \cup ledger \cup rejected :
        t.signer # t.seed => t.kind = "report" /\ t.reseeded

\* The node turns a transaction down for its sequence only if the call before
\* was still under way when the sequence was asked for, or if that query was
\* not answered and an older answer was taken for it.
RejectedOnlyByOverlap ==
    \A t \in rejected : t.overlaps \/ ~t.answered

\* Only an attested machine has anything notarized, although the attestation
\* is asked for before the account is, over a buffer that may still hold an
\* older identity's attestation.
NotarizedByAttested ==
    \A t \in mempool \cup ledger \cup rejected :
        t.kind = "notarize" => t.signer \in attested

\* The CID a challenge is put for is one of the challengee's: no list left in
\* curlOutput passes for that of another challengee.
ChallengeFitsBlock == pop.cidOf \in {0, pop.block}

\* The status of sendMessages is to be relied on when it is negative, unless
\* the answer to a broadcast may get lost on Tasmota.  The mapping shows
\* nothing of that environment.
StatusIsReal == Linux \/ ~Fault("noanswer")

D == INSTANCE TxDelivery WITH
         asked     <- IF StatusIsReal THEN calls ELSE 0,
         delivered <- IF StatusIsReal THEN Committed ELSE {},
         refused   <- IF StatusIsReal THEN refused ELSE {}

ImplementsDelivery == D!Spec

\* A call that asks for its sequence with an account, scratch memory, and no
\* transaction of its own under way gets on the chain, if the network works.
ClearRun(c) ==
    /\ env.faults \subseteq {"encode", "seed", "long"}
    /\ Reachable
    /\ call.pc = "account"
    /\ call.id = c
    /\ account[keys] # NoAccount
    /\ PendingOf(keys) = {}
    /\ used < Arena

ClearRunDelivered == \A c \in 1 .. MaxCalls : ClearRun(c) ~> c \in Committed

\* test/testRddlSDK.c, testCreateAccount: the result of CreateAccount is 0 once
\* the service has created the account.
AccountReported == opened # "unreported"

=============================================================================
