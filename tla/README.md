# A TLA+ verification development for rddl-sdk

rddl-sdk lets a device take part in the RDDL network: it keeps a seed and derives keys from it, attests the device,
notarizes contents (stores them under their CID and registers the CID on the Planetmint chain), takes part in proofs
of participation (PoP), and redeems claims. The same API (`src/rddlSDKAPI.c`, `src/rddlSDKUtils.c`) runs over two
platforms: Linux (`src/platform/linux`) and Tasmota firmware on an ESP32 (`src/platform/tasmota`).

Paths below are relative to the root of the repository; `PROJECT.json` prefixes them with `src/`.

## 1. Inventory

The SDK is single-threaded C called by a host. What makes it hard is not threads but state that outlives calls:
globals and static buffers that cache files, files that outlive crashes, and network answers that arrive after the
globals they are about have changed.

| Component | State | Operations | Hard behaviour | What makes it correct |
|---|---|---|---|---|
| CID file store, Linux | directory `./`, `num_of_cid_files` | `rddl_writefile`, `checkNumOfCIDFiles`, `abstGetNumOfCIDFiles`, `abstDeleteOldestCIDFile` | cached count; crash between write and rotation; failing open, opendir, remove; other long file names; clock | the count follows the disk; the disk is bounded; only the oldest of a full directory goes |
| CID file store, Tasmota | flash, `cid_files`, `num_of_cid_files` | the same, with `tasmotaGetCIDFiles`, `tasmotaSortCIDFiles`, `tasmotaDeleteOldestCIDFiles` | a vector listed once and used for many calls; appended to without being cleared | the vector lists what is there, once; as above |
| Seed and keys | file `seed`, `secret_seed`, `sdk_readSeed`, key buffers | `sdkSetSeed`, `sdkStoreSeed`, `sdkReadSeed`, `readSeed`, `getPlntmntKeysLocal` | `O_TRUNC` before the write, short writes and reads, ignored results, a flag that skips the file | keys are those of a whole seed that was stored; the flag never lies |
| Settings, Linux | a file and a buffer per setting | `getSetting`, `setSetting` | buffers that must follow failed writes; a buffer shared by mistake | what is read is what is saved, or the default |
| Proof of participation | `popParticipation`, `challengedCID`, MQTT subscriptions | `getPoPFromChain`, `amIChallenger`, `getCIDofChallengee`, `ChallengeChallengee`, `processPoPChallengeResponse` | answers late, lost, twice; queries failing in between; restart | a result is filed for the block and device it is about, once, and a success only for notarized content |
| CID file names, Tasmota | names on flash | `rddlWritefileTasmota`, `readfileTasmota`, `tasmotaFindCIDFile` | names cut to what the file system takes, and searched for by a part | a content is found under its CID, and never another's |
| Transaction pipeline | `curlOutput`, on-chain sequence, mempool | `create_transaction`, `sendMessages`, `broadcast_transaction`, `getAccountInfo`, `hasMachineBeenAttested` | sequence read before each broadcast, results ignored, a static response buffer shared with the PoP queries | a call said to have failed never arrives; what is turned down is turned down for an overlap or an unanswered query; a call with nothing in its way arrives |
| Workflows | none of their own | attestation, notarization, redeem, the report of `processPoPChallengeResponse`, `CreateAccount` | each step's failure against the next; key buffers left by an earlier identity | a workflow's transaction is signed with keys of the seed stored when it began; nothing notarized by a machine that is not attested |
| Scratch memory | librddl's arena | `getStack`, `clearStack` | cleared by callees while callers hold pointers; not cleared by some | no pointer outlives a clear; enough for each call |
| Helpers | none | JSON, base64, hex, random element | bounds, malformed input, blocks that are not whole | what they return is what the text says, or nothing; what is encoded is what is decoded |

Interaction: every workflow starts at `getPlntmntKeysLocal` (seed file → memory → keys); the notarization workflow then
writes a CID file, rotates the directory and sends a transaction, for which `create_transaction` reads two settings and
the account; setting files live in the directory the Linux rotation scans; PoP couples host, chain (HTTP) and challengee
(MQTT) through the two globals `popParticipation` and `challengedCID`.

## 2. Modules

| Module | Models |
|---|---|
| `Retention` | abstract: files are kept, and the oldest of a full directory may go; with its theorem |
| `CidStoreLinux` | the Linux CID store and its rotation; implements `Retention` |
| `CidStoreLinuxProofs` | theorems about it |
| `CidStoreTasmota`, `CidStoreTasmotaProofs` | the Tasmota CID store; implements `Retention`; theorems |
| `SeedKeys`, `SeedKeysProofs` | seed file, seed in memory, keys; theorems |
| `SettingsLinux`, `SettingsLinuxProofs` | setting files and buffers, and what `create_transaction` makes of them; theorems |
| `PoPReporting` | abstract: report on a block once, only if challenger, only on a challenge put for that block |
| `PoPChallenge`, `PoPChallengeProofs` | the PoP calls of a Tasmota device over HTTP and MQTT; implements `PoPReporting`; theorems |
| `TxDelivery` | abstract: a call said to have failed never arrives, one that arrived is never said to have failed |
| `TxPipeline` | the workflows, account service and Linux PoP queries over both platforms, with the chain; implements `TxDelivery` |
| `TxPipelineProofs` | theorems about it |
| `Base64` | `bintob64`, `b64tobin` and the size of a payload, as operators |
| `JsonText` | the JSON helpers, the PoP reader and the random pick, as operators |
| `CidFileNames` | Tasmota's file names, as operators |
| `Helpers`, `HelpersProofs` | one call of a helper after the other, over the files on flash; theorems about it, `Base64`, `JsonText` and `CidFileNames` |
| `MC...` | values for TLC |

### How state and actions correspond to the code

*Faults* are named events. In the two stores and in PoP the variable `env` holds the set of events that may happen in a
behaviour; it is chosen in `Init` out of the constant `Envs` and never changes, so that one run compares environments
and each property says in which it holds. In `SeedKeys` and `SettingsLinux` the set is the constant `Env`.

*CID stores.* A call of the notarization workflow is two steps, `StoreCid` (or `StoreFails`) and `CheckNumOfCIDFiles`,
because a crash may come between them (`Crash`); `Restart` comes between calls. `CheckNumOfCIDFiles` is the whole
function: it determines the count (`CountAfterStore`), then exactly one of `HasRoom`, `DeleteOldest`, `DeleteFails`
(on Tasmota also `DeleteCached` and `DeleteListed`) happens, which sets directory, vector and count. A file is its name
and second (`<CID><time>` is its file name). On Tasmota the vector is a bag with its last element: only the back is ever
looked at, and `std::sort` leaves the order of equal seconds open. `slips` counts the faults that leave a file behind,
`created` every file that ever was there; both are history, though `slips` also bounds how many faults a behaviour has.

*Seed.* Every byte of the file and of `secret_seed` is named by the seed it is from, so a short file and a buffer that
was partly overwritten are told from a whole seed. `storeSeed` is two steps, `OpenForStore` (up to `open`, which
truncates) and `WriteSeed`. An absent file and an empty one are both not `SEED_SIZE` bytes. The keys are named by
the seed they were derived from. `StoreNull` stores whatever is in memory, as `sdkStoreSeed(NULL)` does: the zeros of a
start, a chosen seed, or a buffer that a short file was read into; `nulled` records what was stored so and had not been
chosen. The file is written through `rddl_writefile` of Linux; on Tasmota `TfsSaveFile` and
`TfsLoadFile` take its place, and of a short file there `readfile` reports the full length, which is not modelled.

*Settings.* Texts are compared, cut short (`Shorter`) and laid over one another. A `readfile` that fails on a file that is
there (`ReadFails`) leaves the buffer empty and without a default, as one that finds no file does. `CreateTransaction` reads the denom and then the chain id,
as `create_transaction` does; both are pointers, so what counts is the buffers after both reads.

*PoP.* `pc` is the host's next call for the current block; the host is taken to call the functions in the order of the
SDK's documentation and to stop when one fails, and the keys to be available (`SeedKeys` is about that). Messages carry
the block of their challenge only for the history: no guard of the device reads it; nor does one read `again` of a result,
which says that its block had one before. `GetPoPFromChain` covers
`getPoPInfoTasmota` and `getPoPInfoFromJSON`, with the two states a failure leaves; a random pick is a choice of any.

*Transactions.* `env` is a record: the platform, whether the saved API setting names the chain that queries go to (on
Linux a setting that was never saved is an empty text), the faults, the machines attested before, and how many calls the
host makes. A call of `runRDDLSDKMachineAttestation`, `runRDDLSDKNotarizationWorkflow`, `RDDLSDKRedeemClaim` or
`processPoPChallengeResponse`, the four callers of `sendMessages`, is cut
where the chain may move in between: the workflow up to its account query (with the attestation query in the same step,
before which no call looks at the chain), `CreateTransaction`, and `BroadcastTransaction`, which
ends the call. The chain checks an accepted transaction against its state and its mempool (`CheckTx`), puts it in a block
(`Commit`) or drops it (`Evict`). On Linux a query yields what is parsed, whether the node said it, and what `curlOutput`
then holds: a curl that prints nothing leaves the answer to the query before, whichever it was for. `used` counts payloads
taken from the scratch memory since `clearStack`; `Arena` is how many it has room for. A transaction carries for the
history the seed stored when its call was made, whether its account query was answered, and whether another was pending.
`processPoPChallengeResponse` derives no keys and signs with those there are: `role` says whether `amIChallenger`, which
does derive them, has returned true, and whether a seed was stored since; a host that was never challenger gets no answer
to process. What the report says, and when it is due, is the matter of `PoPChallenge`. `CheckTx` takes the chain id and
denom of a transaction to be right, which `SettingsLinux` shows they need not be. The answer to a broadcast may get lost
on Tasmota, and so may that to the opening of an account, whose status is negative then.

*Helpers.* An operator that models a function has its name (`CopyJsonValueString` is `copyJsonValueString`), and
`Helpers` has an action per entry point. The variable `last` is what a call was given and returned; only files outlive a
call, so that the calls that do not touch files are made before there are any. In `JsonText` a text is a sequence of
tokens: a key with the blank and quote that follow it, a quote, a bracket, a CID with its opening quote, and, in values,
one token per character, so that lengths against buffer sizes are those of the code. In `Base64` the loops are given by
what they leave at each position (`DigitAt`, `StoredAt`), which is what makes them provable for every length; for the
same reason the loops of `countElements` and `extractElement` are given by the positions of CIDs (`CidsFrom`): how many
there are, and the one that has so many before it (`NthCid`). What an answer says is defined apart from how it is read:
`Said(text)` is the set of challenges of which each field stands behind its key up to the next quote, and fits; `InList(text)`
are the CIDs between the first brackets, and `FirstBehind(text)` is the one that follows them, if any.

## 3. Runs

| Run | Expected | Shows |
|---|---|---|
| `CidLinux` | pass | count never behind the disk by more than the setting files it did not see, exact where every call leaves a file; overrun of at most one file per fault; `Retention` implemented; history kept |
| `CidLinuxLostHistory` | violation of `FullHistoryRetained` | failed stores are counted, and history is removed from a directory that is not full |
| `CidTasmota` | pass | the cached vector lists what is there; count exact; bounded; `Retention` implemented even when removals fail |
| `CidTasmotaStuck` | violation of `BoundedOverrunAlways` | after one failed removal nothing is removed any more |
| `SeedKeys` | pass | flag coherent; keys only from whole, stored seeds, which the host chose or had stored from memory |
| `SeedKeysStoreNull` | violation of `FileHoldsChosenSeed` | `sdkStoreSeed(NULL)` on a fresh start stores zeros |
| `Settings` | pass | buffers follow files through stores that fail, are cut short or crash and reads that fail; the chain id in use is the saved one, or none where reading it fails, as long as no denom was saved |
| `SettingsDefaults` | violation of `TxAsDocumented` | the documented defaults are not what transactions are made with |
| `PoP` | pass | results filed right and once while answers are timely, doubled ones included; a success always proven |
| `Tx` | pass | `TxDelivery` implemented; signed by the seed stored when the call was made, reports of a host that stored one since it became challenger excepted; turned down only for an overlap or an unanswered query; notarized only by attested machines; a challenge fits its block; a call with nothing in its way arrives |
| `TxAccountUnreported` | violation of `AccountReported` | on Linux `CreateAccount` returns an error although the account was created and nothing was lost |
| `Helpers` | pass | base64 both ways; payloads have room; a challenge is read whole or not at all; a picked CID is one of the list or the first behind it, and only an empty list traps; contents are found under their CID |

The violations are disagreements between code and documentation or tests; `findings` in `PROJECT.json` quotes them.
Two more were met that need no run, since each is one early return: `docs/RDDL_SDK.odt` says that notarizing with a seed
that is not registered sends a registration first (`runRDDLSDKNotarizationWorkflow` returns), and that a failed account
query goes on with an account number and sequence of 0 (`create_transaction` returns `NULL`).

### Bounds, and why they are enough

* Stores: `Capacity = 3` (the code's 1008): room for a full directory, a next file, and a vector that outlives the call
  that filled it. Two contents, interchangeable (symmetric), four seconds, so that two files share a second and a full
  directory turns over once; at most two faults that leave files behind. `Word` stands for 2^32. In `CidLinux` it is 64, far
  above any reachable count, so that wrapping is only reached through -1; in `CidTasmota` it is 6, so that stores that fail
  carry the count past the `uint32_t` as well. Longer clocks with one content (six seconds, three faults) give the same
  results.
* Seed: three seeds of two bytes: enough for a file cut in the middle over another seed in memory, and a third to come;
  `sdkStoreSeed(NULL)` stores at most `MaxNulls = 2` buffers that nobody chose, the zeros and a mixture.
* Settings: two texts, each usable for each setting, one of which begins the other.
* PoP: four blocks: two in a row with this device as challenger of different devices that have one content in common (so
  that a late answer can pass for the next one's), one as bystander, one on a device without contents. The blocks run out,
  hence `CHECK_DEADLOCK FALSE` there; all other runs check for deadlock.
* Transactions: two seeds (the identity changes once between calls and back), two PoP blocks (an answer left over from
  the other one), `MaxCalls = 3`, made on Tasmota while everything works, and two calls elsewhere: a second call while
  the first is pending, and a third for scratch memory that holds `Arena = 2` payloads. Redeeming is the one call that
  does not clear it. A third seed or block is interchangeable with those there are: nothing compares more than two.
  (What is safe there is proved for any number.)
* Helpers: sizes are scaled, keeping what is compared with what: fields of one character and the terminator
  (`FieldSize = 2`), heights of two (`HeightSize = 3`) with `Int64Max = 50` in between, file names of four characters of
  which two are of the CID (the code's 35 and 25). Values of every length up to one past what fits; texts cut off at
  every token; both styles of blanks; lists of up to three CIDs with something like a CID before them or two behind. Base64:
  all inputs of up to five bytes out of five values, and all texts of up to six symbols out of five: two blocks, the last
  not whole in each way. What base64 does beyond that is proved.

In `CidLinux`, `env` is one of: `crash, remove, clock` (each call leaves a file); `crash, remove, open, rewrite`; `opendir`
(a count of -1); everything but `opendir`. In `CidTasmota`: `crash, remove`; `crash, open, rewrite, clock`. In `PoP`: timely
answers that may get lost; timely answers that may be doubled; and everything. In `Tx` (`EnvsAll` of `MCTxPipeline`), on Linux:
a network that works; one that is silent, for a challenger; local faults with an API that was never saved; a silent network
that loses broadcasts, for a machine attested before; errors, long lists, evictions and crashes; and on Tasmota: a network
that works, without and with reports on challenges; one that does not, with crashes; and lost answers with local faults.

### Fairness

`TxPipeline` assumes weak fairness of three actions. `CreateTransaction` and `BroadcastTransaction`: a call that has
begun is run to its end by the thread that makes it; neither waits for anything but an answer, and without one curl and
the HTTP client give up. `Commit`: the chain goes on making blocks. Nothing obliges the host to call, to retry or to come
back after a crash, so no fairness is assumed of any other step. `ClearRunDelivered` is the liveness property: a call that
asks for its sequence while nothing else of its signer is pending, with an account and scratch memory, gets on the chain
if the network works, whatever local faults befall other calls. It would fail without the fairness, and does with the
mutant that keeps a payload free.

The other modules assume none and state no liveness: every step there is a call the host may or may not make, or a
message MQTT may lose, and nothing in the SDK schedules a retry or a timeout. That an unanswered challenge is never
reported is listed as a hazard.

## 4. Proofs

For every value of the constants that satisfies the named assumptions (`CidStoreAssumption`, `SeedAssumption`,
`SettingsAssumption`, `PoPAssumption`, `TxAssumption`, `HelpersAssumption`, `JsonTextAssumption`, `PoPInfosAssumption`,
`CidListsAssumption`, `CidFileNamesAssumption`, `NamesAssumption`, `NoCollision`), and for every environment, TLAPS proves
every property of the passing runs except the liveness property `ClearRunDelivered` (see the end of this section). Each strengthening invariant below was checked with TLC on the run's
instance before it was proved.

* `Retention!RetentionHolds`: `Retained` is inductive with `TypeOK`. A new file only adds to what is newer than a missing
  file (`KeepRetains`); an expiring one is the oldest of at least `Capacity` files, so the others are all newer than it and
  than anything older that went before (`ExpireRetains`). Its assumption on the constants is a hypothesis of the theorem.
* `CidStoreLinuxProofs`: `TypeCorrect`; `BoundedOverrunHolds` and `NeverUndercountsHolds` from `OverrunInv`, which adds to
  the bound on the disk one on the count and one on what the count misses (setting files): the bound alone is not
  inductive, for the rotation goes by the count. Both are claimed where the directory can be listed (`CountIsReal`). `CountTracksDiskHolds` adds `NeverOvercounts`: where every call leaves a
  file the count is never ahead. `ImplementsRetentionHolds`: each step keeps, expires the oldest of a full directory, or
  stutters; "full" needs `NeverOvercounts`, since the code compares the count and not the directory.
  `HistoryRetainedHolds` follows by refinement from `RetentionHolds`.
* `CidStoreTasmotaProofs`: `TypeCorrect`. `CacheOnDiskHolds`: listing fills an empty vector from a set, and what leaves
  the disk leaves the vector (`PopVector`, `PushVector`). `CountTracksDiskHolds` from `CountInv`: count and directory agree
  modulo `Word`, for the code decrements the count on every path of a removal without looking at it, and a file that was
  just written is there. `BoundedOverrunHolds` from `OverrunInv`: a count that ran ahead is either still an upper bound of
  the directory, or has passed every limit, and then nothing is left but the file just written; without the second case the
  wrap-around would not be covered. `ImplementsRetentionHolds`: what goes is at the back of a vector listed long ago, and
  still the oldest of a full directory. It needs `ListedWhenFull` (a vector with entries was listed from a full directory,
  which has stayed full), `NothingFromTheFuture` (nothing is newer than the clock) and `VectorIsOldest` (nothing on disk but
  not in the vector is older than anything in it). `HistoryRetainedHolds` follows as on Linux.
  The assumptions are that `Capacity` is more than 1 (the code's is 1008; with room for one file a count that wrapped
  around lets a second one in), and that no count of files reaches `Word`: `Cardinality(dir) < Word` in
  `CountTracksDisk` and `Capacity + slips < Word` in `BoundedOverrun`, which name it as hypotheses. 2^32 files do not fit
  the flash. The proof of `CountInv` showed that the model had let the count become -1 where the code's `uint32_t` wraps;
  `DeleteCached` now wraps it.
* `SeedKeysProofs`: the invariant `Inv` joins the coherence of the flag with `FileIsStored` (a whole file is a recorded
  seed), from which `TypeCorrect`, `CacheCoherentHolds`, `IdentityWasStoredHolds`, `KeysFromFileHolds` follow; `NoForeignIdentityHolds`
  adds `IntendedInv`: what is in the file, or on its way there, is a seed someone chose or one of `nulled`.
* `SettingsLinuxProofs`: `TypeCorrect`, with `BuffersOK` for what a buffer may hold whatever failed; `BuffersFollowFilesHolds` from
  `Follow` (each buffer is empty, or what a read of its file would give if it succeeds), `ChainIdIsSavedHolds` from that and
  `DenomUnsaved`: as long as no denom was saved, `create_transaction` finds no denom to read into the buffer of the chain id.
* `PoPChallengeProofs`: `TypeCorrect`. `HostInv`: between its calls the host holds the challenge of the block at hand, as its
  challenger, and with a CID of its challengee. `MqttInv`: every message under way goes back to a challenge of this device,
  for a CID of the device it is to; from it `SuccessIsProvenHolds`, in every environment. `OpenInv`: while answers are
  timely, at most one challenge is open, that of the last block, and until it is closed the device remembers it or has
  been reset; from it `ResultsOnAnswererHolds` and `NoTopicLeftHolds`. `ReportedInv`: results are of blocks up to the last,
  and one whose answer is still subscribed has none yet; from it and `OpenInv`, `ReportedOnceHolds` and
  `ImplementsReportingHolds`. `SuccessIsProven` is about the device an answer came from; whom the report names is settled
  by `ResultsOnAnswerer`, and only for timely answers.
* `HelpersProofs`, on base64: `RoundTrip`, for byte strings of every length: decoding gives back what was encoded. The three
  bytes of a block come back from its four digits (`FirstByte`, `SecondByte`, `ThirdByte`), the digits before the padding
  are one run whose length gives the number of bytes back (`DigitCount`), and the padding is what `b64tobin` looks for at
  the end of the run. No induction is needed because positions stand for the loops. `DecodeThenEncode` is about any text:
  `b64tobin` stops somewhere (`DigitRunStops`, from the least position without a digit), what it stores are bytes
  (`StoredIsByte`), and if it takes the text they are encoded in no more digits than the text has (`CountBytes`) and
  come back by `RoundTrip`. `PayloadHasRoom`: the integer division in `create_transaction` still leaves room for quotes,
  mode and terminator. `Base64RoundTripHolds`, `DecodedIsEncodableHolds` and `PayloadFitsHolds` conclude from these.
* `HelpersProofs`, on the JSON readers: a search returns the first position there is (`SearchIs`, `QuoteIs`, from
  `FirstPosition`). In an answer that has each key at most once (`KeysOnce`, without which what it says would not be
  determined) the key is found where it stands, with a blank or without (`KeyIs`, `NoKey`, `BooleanKeyIs`); the next quote
  behind it ends the value (`ValueBehind`). So each field that is copied is the one the text says and fits, and one that is
  not copied is not said (`CopyTakesValue`, `BooleanTakesWord`); `InfoIsTaken` puts the five fields together, and
  `PoPInfoIsWholeHolds` follows. `PoPInfosAssumption` gives what an answer says by `Said` alone, not by the readers, except
  that both make the same of the digits of a height. An answer about CIDs may be any text. For each number less than
  there are CIDs behind the bracket, one has that many before it (`HasThatManyBelow`, by the least position with at least as
  many); what `countElements` counts are those of the list and at most one more, so that the one picked is in the list or the
  first behind it (`CountedIsSaid`), and where it counts none the list is empty (`TrapsOnEmpty`). Of a list whose CIDs fit,
  with none behind it (`IsCidList`), it counts all (`ListIsSearched`) and copies the one drawn whole: hence
  `PickedIsListedHolds`; and no two CIDs have as many before them (`BelowDiffers`), hence `EachCidCanBePicked`.
* `HelpersProofs`, on file names: `FilesAreNamed` (each file holds a content under the name that content and time give it) is
  inductive. The part of a name that is compared is a part of the CID that begins where the number of digits of the time says
  (`NameBegins`), so by `NoCollision` a name that matches is of the content asked for, and with all ten digits it does match
  (`FoundIsAsked`); hence `ReadAnswersChallengeHolds`. `NamesAssumption`: contents have CIDs longer than the limit of
  35 (they have 59 characters), and a `long` of 32 bits no more than ten digits.
* `TxPipelineProofs`: all safety properties of the run `Tx`, under `TxAssumption`. `TxInv`: while a call is under way the
  keys are those of the stored seed (nothing else runs then), what a notarization needed was there when it began and only
  grows, and a transaction about to be broadcast whose account query was answered with nothing pending is still
  undisturbed (`Undisturbed`), for only broadcasts fill the mempool; so the node accepts it (`UndisturbedAccepted`).
  `ChallengeInv` adds `ListInv`: a list left in `curlOutput` belongs to the challenge of now, or there is none.
  `DeliveryInv`: the call under way is the last one made, not refused, and has nothing in the mempool or on the chain yet;
  ids in the mempool are unique. From it `ImplementsDeliveryHolds`: an ended call that is refused was `Open`, and a commit
  delivers an `Open` one. `TypeCorrect` needs `SequencesCounted` (a sequence is at most one ahead of the calls on the
  chain), which needs that each commit is of a call not on the chain yet (`DeliveryInv`).

Theorems about what no run checks draw consequences of the refinements, and say how far the disagreements with the
documentation go:

* `OneVerdictPerBlock`, from `PoPReporting`: while answers are timely no block gets a success as well as a failure, and none
  gets a result for which the device was not challenger. `RefusedIsNotDelivered`, from `TxDelivery`: a call that was said to
  have failed is not on the chain, and never will be. Both are proved of the abstract module and hold by refinement.
* `FileHoldsChosenSeedHolds`: what `SeedKeysStoreNull` shows needs an `sdkStoreSeed(NULL)` with no chosen seed in memory.
  `SavedDenomIsNeverUsed`: what `SettingsDefaults` shows is so for every text and every order of calls; a saved denom never
  gets into a transaction. `AccountReportedOnTasmota`: what `TxAccountUnreported` shows on Linux without any fault takes, on
  Tasmota, an answer of the service that gets lost.

Only model-checked: `ClearRunDelivered`, as anything with fairness or `ENABLED` is out of the provers' reach. The readers'
theorems leave open what number `ConvertStringToInt64` makes of digits: it is a fold, and what a fold gives for every text
would need induction over data. TLC checks it on the heights of the run `Helpers`.

`ImplementsRetention`, `ImplementsReporting` and `ImplementsDelivery` show nothing of the behaviours of the environments
they are not claimed for: the refinement mapping gives the empty state there. For `ImplementsDelivery` that is Tasmota
when the answer to a broadcast gets lost (`StatusIsReal`): the status is negative then, though the transaction arrives.

## 5. Not modelled, and why

* librddl (key derivation, CIDs, signatures, the arena) and the protobuf messages: git submodules that are not in the
  tree; modelled only through how the SDK uses them. Which pointers into the arena are still in use when a callee clears
  it is not modelled, only how much of it is left.
* GPS, logging, GPIO: no state the SDK depends on.
* `fromhex` and `b64decode`: the SDK calls neither. (Nor does it call `b64tobin`, which is modelled as the inverse that
  `bintob64` must have: the node decodes what the SDK encodes.) `toHexString` is librddl's.
* The URLs and the curl command line, with the size they are cut to: formatting.
* Signs and blanks in front of a number, which `strtoll` takes as well.
* Undefined behaviour in the helpers (buffers without a terminator, unchecked NULL) beyond what changes control: the
  division by zero and the copy past `challengedCID` of the random pick are outcomes of their own (`trap`, `overrun`).
* Tasmota settings: the host firmware's. `TfsFlashFileSysHandle` returning nothing.

## 6. Plan

Done, in this order: `Retention`, `CidStoreLinux`, `CidStoreTasmota`, `SeedKeys`, `PoPReporting`, `PoPChallenge`,
`SettingsLinux`, `TxDelivery`, `TxPipeline`, `Base64`, `JsonText`, `CidFileNames`, `Helpers`; with the proofs of section 4.

1. The arena's pointers across `getStack` and `clearStack` in each workflow.
2. `Notarization`: composition of `SeedKeys`, `CidStoreLinux` and `TxPipeline` with the challengee's answer to a PoP
   challenge: what was registered can still be answered for after rotation.
