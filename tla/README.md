# TLA+ models of the TAC SDK

The TAC SDK (`src/src`, TypeScript) sends assets and calls between TON and the
TAC EVM chain.  It keeps no database and runs no server: what is hard about it
is that every call is a long sequence of awaits on services that fail, lag and
disagree - TON endpoints, lite sequencers, wallets, an indexer - and that the
caller must not be told more, or less, than what has happened.  The modules
here model those sequences, TLC checks them on small instances, and TLAPS
proves their safety properties for every value of the constants (section 4 says
which, and from which assumptions).

All paths below are relative to `src/src` unless they begin with `src/`.

## 1. Inventory

| Component | State | Operations | Talks to | Hard behaviour | What makes it correct |
|---|---|---|---|---|---|
| Failover between TON endpoints, `adapters/RetryableContractOpener.ts` | none across calls; per call the opener index, the attempt, `lastError` | all `ContractOpener` methods through `executeWithFallback` / `tryWithRetries`; proxied contract methods | the openers | nested retry loops that classify errors twice; methods differ in what stops the fallback | budgets are used in order; a rejection is justified; final errors are never retried |
| Transaction tree, `adapters/BaseContractOpener.ts` 325-574 | queue, visited search keys, processed hashes | `trackTransactionTree`, `trackTransactionTreeWithResult` | history scan | the chain is indexed while it is walked; a transaction is reached several ways; lookups throw or miss | success covers the whole tree; a failure is a real one; the walk ends |
| History scan, `adapters/BaseContractOpener.ts` 58-285 and the openers' `getTransactions` | cursor, seen cursors, count | `getTransactionByHash`, `ByTxHash`, `ByInMsgHash`, `ByOutMsgHash`, `getAdjacentTransactions` | toncenter, TON API v4, lite servers | page overlap, new transactions, limits | nothing skipped or repeated; null means not there |
| Highload batch sender, `sender/BatchSender.ts`, `wrappers/HighloadWalletV3.ts`, `HighloadQueryId.ts` | `lastCreatedAt` | `sendShardTransaction(s)` | wallet contract through an opener | concurrent calls, bursts, failing groups, restarts, repeated broadcasts | distinct query ids, executed at most once, results account for every message |
| Operation tracking, `sdk/OperationTracker.ts`, `LiteSequencerClient.ts`, `Utils.ts` `waitUntilSuccess` | none across calls | operation id, type, status, profiling, lists of them | lite sequencers over HTTP | failover inside retry inside timeout; lists in chunks; sequencers that disagree | the answer covers what was asked and passes the check; calls end in time |
| Cross-chain transactions: preparation, `sdk/TONTransactionManager.ts` 53-276 and 368-396, `Utils.ts` 306-337, `Simulator.ts` 68-133 | none across calls; writes the gas limit to the caller's `evmProxyMsg` | validation, aggregation, fees, messages, linkers, balance check | assets, simulation | transactions of a batch are prepared concurrently and may share an object; sums over lists and over the batch | what the caller gives is what the messages carry, once; the batch is covered |
| Cross-chain transactions: sending, `sdk/TONTransactionManager.ts` 278-366 and 398-427, `sender/TonConnectSender.ts` | none across calls; mutates the caller's `waitOptions` | `sendCrossChainTransaction(s)`, waiting for operation ids | senders, opener, operation tracking | chunks of which some fail, steps that fail after the send, colliding shards keys | a call that returns has sent everything; ids belong to their linkers |
| Plain wallet sender, `sender/RawSender.ts` | the wallet's seqno (on chain) | `sendShardTransaction(s)` | wallet contract through an opener | seqno read again before the last group is executed, by concurrent calls, from endpoints that lag | no group executed twice or out of order; none lost unnoticed |
| Operation lifecycle, `sdk/StartTracking.ts`, `OperationTracker.ts` 287-304 | the operation id, type and profiling collected so far | `startTracking`, `startTrackingMultiple`, `getSimplifiedOperationStatus` | operation tracking, a finalizer | polling with a limit, requests that sequencers with different views of one operation answer | what is returned has ended and was verified; a final status is true |
| Finalizer, `sdk/TxFinalizer.ts` | queue of hashes | `trackTransactionTree` | indexer API | an indexer that is down or behind | success means the tree was seen |
| TAC to TON bridge, `sdk/TACTransactionManager.ts` | allowances (on chain) | `bridgeTokensToTON` | asset resolution, operation tracking, EVM wallet and contracts | approvals are transactions of their own; each may fail, or only be reported to have failed | the message takes what was given, once, and the approvals cover it |
| Fee formulas, `sdk/Fees.ts`, `Simulator.ts` 135-260 | none | sums of storage, gas and forward fees over the steps of an operation | - | rounding in fixed point, which parts are rounded together | the messages carry it (checked with the preparation) |
| Assets, `assets/*` | `AssetCache` (process-wide map), asset objects shared by reference, the address an object remembers | `AssetFactory.from`, `normalizeAsset`, amounts, `getEVMAddress`, payloads, balances | opener, TAC contracts | awaits between lookup and store; objects with amounts in them; tokens that are deployed meanwhile | an asset is the one asked for, with its true origin and the amount given |
| Facade and configuration, `sdk/TacSdk.ts`, `Configuration.ts` | configuration | `create`, delegation | everything | two chains loaded concurrently, each with fallbacks; settings that change meanwhile | a configuration is complete, or refused for a reason |
| Construction of senders, `sender/SenderFactory.ts` | none | `getSender` | key derivation | - | - |
| `agnosticSdk/*` | call list being built | calldata builders | - | offsets of replaced arguments | encodings |
| Interfaces, structures, errors | - | - | - | - | - |

How they interact: `TacSdk` resolves the assets a caller names (`AssetFactory`)
and delegates to `TONTransactionManager`, which builds shard transactions
(`Simulator`, `Fees`), hands them to a sender, which sends through an opener, or
to `TACTransactionManager`, which sends transactions on TAC; the opener is usually a `RetryableContractOpener` over
a toncenter client and two orbs clients, each a `BaseContractOpener`.  The
manager then tracks the transaction tree through the opener and asks the
`OperationTracker` for the operation id.  All calls are `async` functions: the
code between two awaits is atomic, everything else interleaves.

## 2. Modules

| Module | Models | Written from |
|---|---|---|
| `FailoverCall` | what a call through interchangeable endpoints promises | abstract |
| `RetryableContractOpener` | one call through the wrapper; implements `FailoverCall` | `adapters/RetryableContractOpener.ts` |
| `TransactionTree` | the walk over a transaction tree while the chain is indexed | `adapters/BaseContractOpener.ts` 325-574 |
| `HistoryScan` | the search of an account's history, page by page | `adapters/BaseContractOpener.ts` 58-285, `LiteClientOpener.ts`, `TonClientOpener.ts`, `TonClient4Opener.ts` |
| `BatchSender` | concurrent batches through a highload wallet, with the contract | `sender/BatchSender.ts`, `wrappers/HighloadWalletV3.ts`, `HighloadQueryId.ts` |
| `GroupDelivery` | what a wallet with a sequence number promises a sender of groups | abstract |
| `RawSender` | concurrent calls on a standard wallet; implements `GroupDelivery` | `sender/RawSender.ts` |
| `OperationTracking` | one call of an `OperationTracker` method | `sdk/OperationTracker.ts`, `LiteSequencerClient.ts`, `Utils.ts` 174-240 |
| `StartTracking` | one call that polls one or several operations, or asks for a status | `sdk/StartTracking.ts`, `OperationTracker.ts` 287-304 |
| `TxFinalizer` | the walk over an indexer's answers | `sdk/TxFinalizer.ts` |
| `CrossChainSend` | concurrent calls from prepared messages to operation ids | `sdk/TONTransactionManager.ts` 278-366, 398-427, `sender/TonConnectSender.ts` |
| `TonFees` | what a message costs on TON (operators only) | `sdk/Fees.ts`, `Simulator.ts` 135-260 |
| `CrossChainPrepare` | a batch of transactions from the caller's assets to messages; uses `TonFees` | `sdk/TONTransactionManager.ts` 53-276, 368-396, 429-449, `Utils.ts`, `Simulator.ts`, `assets/TON.ts` |
| `AssetFactory` | concurrent resolutions over the shared cache | `assets/AssetFactory.ts`, `AssetCache.ts`, `FT.ts`, `NFT.ts`, `TON.ts`, `sdk/Utils.ts` |
| `TacBridge` | one call from a resolved list to the message on TAC; extends `AssetFactory` | `sdk/TACTransactionManager.ts` |
| `Configuration` | the creation of an SDK | `sdk/Configuration.ts`, `TacSdk.ts` |
| `TacSdk` | the facade: composes `CrossChainPrepare`, `AssetFactory`, `TacBridge` and `Configuration` | `sdk/TacSdk.ts` |
| `..._proofs` | the theorems: `ContractOpener_proofs` about `RetryableContractOpener` and `HistoryScan`, `Finality_proofs` about `StartTracking` and `TxFinalizer`, `TacSdk_proofs` about `TacSdk` and all it composes, and those named after their modules | |
| `MC...` | constants for TLC | |

Correspondence of state and actions:

* **RetryableContractOpener.** `index`, `attempt` and `lastError` are the loop
  variables of `executeWithFallback` and `tryWithRetries`; `tried` is a history
  variable.  An action is one settled attempt: `Succeed`, `FailFinally` (an error
  the retry loop returns at once), `FailAndRetry`, `ExhaustOpener` (the last
  attempt, where the fallback decides), and `WakeUp` after `sleep`.  Errors are
  records of what the two classifiers look at.  A method is one of three
  classes: those that need a defined value, those that pass any value on, and
  the two tracking methods, which pass `shouldFallbackOnError`.  The caller's
  operation is a remote call with any outcome.
* **TransactionTree.** `queue`, `visitedSearchKeys`, `processedTxHashes` and
  `checkedCount` are the variables of the walk; `NextSearch` is the head of the
  loop, `Found` the rest of an iteration, `RetryLater`, `GiveUp` and `WakeUp` the
  retries of `findTransactionWithRetry`.  `Index` is the endpoint's indexer.  A
  lookup scans the history of an account, newest first, and gives up after
  `maxScannedTransactions` (100 by default) of them: `Bury` is the account of an
  indexed transaction making so many others that the scan no longer reaches it,
  and `beyondLimit` the transactions that this has happened to.  A
  message is named by the transaction that receives it, and a search by message
  and kind of hash; hash formats and addresses are abstracted away.
* **HistoryScan.** An iteration of the `while` loop is one action, split by its
  branches (`EmptyPage`, `OnlyCursor`, `InspectPage`, `PageThrows`).  A
  transaction is its logical time.  `Page` is the openers' `getTransactions`: the
  toncenter client handles `to_lt` and `inclusive` at the server, the lite client
  and API v4 filter the page they got.  The API v4 opener called without a cursor
  passes logical time 0 to its server, whose answer the source does not tell;
  that start is modelled like the lite client's.
* **BatchSender.** `SubmitBatch` is `sendShardTransactions` up to its first
  send (`prepareGroups` included), `Stamp` the synchronous start of `sendGroup`,
  `TransferSucceeds` / `TransferFails` the settling of `sendTransfer` and what the
  loop does with it.  A message is its size.  `sent` holds what reached the
  network, whether or not the endpoint said so; `Deliver` is the wallet contract,
  modelled from how the code uses it (the comments at `BatchSender.ts:140` and
  `HighloadWalletV3.ts:109`): it refuses expired stamps, stamps of the future and
  remembered query ids.  `Restart` loses `lastCreatedAt` and the running calls.
* **OperationTracking.** An action is one HTTP request that settles;
  `processChunkedRequest`'s loop, `requestFn`'s loop over the clients and
  `waitUntilSuccess` are the nesting of `offset`, `client` and `attempt`.  An
  answer is the set of identifiers it has entries for, or `Null`; methods differ in
  what a missing one does (`Replies`: `''` takes its place, it is an error, or it is
  passed on), and `waitUntilSuccess` takes a null answer for a failed attempt before it
  looks at `successCheck` (`Accepts`), without asking the clients that are left.  A conversion, a
  simulation or a fee is a call with one identifier, which stands for what was
  asked.  `Learn` lets every sequencer learn of operations at its own pace.
* **TonFees.** Operators only: `StepFee` is `calculateTONFees` of one transaction,
  `EstimateTONFee` the sum over the pipeline of an operation.  Prices are whole
  numbers and `FixedPoint` the shift's factor; sizes of messages stand for
  messages.
* **CrossChainPrepare.** `ValidateBatch` is `prepareBatchTransactions` up to its
  `Promise.all`, `StartTx` the part of `prepareCrossChainTransaction` before the
  simulation, `Simulated` the part after it (up to the messages), `CheckBalance`
  is `TON.checkBalance`, and `PreparePayload` starts
  `prepareCrossChainTransactionPayload`, which takes one transaction through the
  same steps without a sender.  A payload is abstracted to the asset and amount it
  carries, whether it carries the fees, and its size.  The `evmProxyMsg` objects
  are shared memory: `gasLimit[m]`.
* **AssetFactory.** Objects are shared by reference, so they live in a heap,
  `objects`; `cache` maps keys to places in it.  `call[c].phase` says before which
  await caller `c` stands: `TakeInput` and `From` are the synchronous start of
  `normalizeAsset` and `AssetFactory.from` (a hit returns a clone), `Identify` asks
  for the TON contract behind an address, `InspectFT` and `InspectCollection` for
  its code, `DescribeFT` for decimals and multiplier, `ResolveItem` for an item's
  data, and `TakeAmount` sets the amount in the object that came back.
  `RequestFails` is any request of these that throws.  A contract stands for its
  addresses on both chains; `BridgeToken` is the bridge that deploys the
  counterpart of a token meanwhile.  An NFT object knows its collection, through
  which `getEVMAddress` goes; an item that a collection does not have is at an
  address without a contract (`Nowhere`).  `Copies` are jettons that run the code of the
  cross-chain layer's own minter.
* **TacBridge.** `bridge.phase` and `bridge.next` are where `bridgeTokensToTON`
  stands: `AssetsResolved`, `SuggestFee` (`getTVMExecutorFee`), one `Approve` per
  asset, `SendMessage`.  `ApproveFails` and `SendFails` are transactions that fail
  or are only reported to have failed.  `allowance` and `approved` are the tokens'
  state on TAC, `MayTake` and `Take` what the cross-chain layer does with the
  message, modelled from the message's fields.
* **Configuration.** `PrepareTON` and `PrepareTAC` are the two sides of the
  `Promise.all`; `Multicall` reads all settings at once and `ReadSetting` one,
  after a multicall that failed; `Publish` changes the settings on chain.  Options
  are the names of what the caller passes; a version stands for the settings'
  values on TAC.  `onTon` are the settings that the contract on TON holds, all read
  at once; `InPlaceOf` is what the SDK is given for one that is not there: `''` for an
  address, `undefined` for a code, the default for the gas that contracts use.
* **TacSdk.** `entry` says what the facade is asked for.  `NormalizeBatch` is the
  `Promise.all` of the resolutions in `sendCrossChainTransactions`; a single
  transaction is a batch of which the other one is empty.  The steps of the
  composed modules are taken as they are.
* **CrossChainSend.** `SendChunk` and `SendFails` are the loop of a sender,
  `Judge` what the manager does with its results, `Track` the tracking of the
  tree (a call that succeeds or throws), `Resolve` and `GiveUp` the two ends of
  the wait, whose attempts are `OperationTracking`'s.  `Learn` is the sequencer,
  which knows an operation once all its shards were sent; its answer to a
  batch is what it knows of the last chunk of the keys (`LastKeys`, finding 1).  The closure that
  `waitForOperationIds` leaves on `waitOptions` is `successCheck[object]`: the
  call whose linkers it counts.
* **RawSender.** `GetSeqno` and `Send` are the two awaits of `sendBatch`; what
  lies between them (the opener's `getContractState`, signing) fails in
  `PreparationFails`.  `pool` holds what reached the network, `Execute` is the
  wallet contract.  A group is named by the index of its first message.
* **StartTracking.** An action is one call of the tracker that settles, with the
  synchronous code after it; `iteration` is the loop counter.  `StatusOfId` and
  `AskStatusOfType` are the two requests of `getSimplifiedOperationStatus`, for
  callers that do not poll; `rolledBack` are the operations that end in a rollback.  A sequencer knows
  nothing of an operation, its id, or its end.  `OperationTracker`'s failover and
  retries are abstracted to the answer of any sequencer, or a failure.
* **TxFinalizer.** `NextHash` is the head of the loop, `Answered` and
  `RequestFails` a request that settles, `Check` one iteration over the answer.
  `gaps` is a history variable: the hashes about which the indexer did not tell
  everything.

## 3. Runs

| Run | Configuration | Checks | Shows |
|---|---|---|---|
| `retryable` | `MCRetryableContractOpener.cfg` | `BudgetSpentInOrder`, `RejectionJustified`, `NoAttemptAfterFinalError`, `CallSettles`, `ImplementsFailover` | the fallback does what `FailoverCall` promises |
| `transaction_tree` | `MCTransactionTree.cfg` | `WalkInv` (`TypeOK`, `ValidatedOnce`, `BreadthFirst`), `VerdictIsRight` (`SuccessCoversTree`, `FailureIsReal`), `WalkEnds`, `GoodTreeAccepted` | a verdict is right about the whole tree |
| `history_scan` | `MCHistoryScan.cfg` | `ScanInv` (`TypeOK`, `NoGapNoRepeat`, `ScanLimitExact`), `AnswerIsComplete`, `ScanEnds` | pages overlap without gaps |
| `batch_sender` | `MCBatchSender.cfg` | `DistinctQueryIds`, `ResultsAccountForMessages`, `ExecutedAtMostOnce` | concurrent batches do not disturb each other and nothing is executed twice, even across a restart |
| `operation_tracking` | `MCOperationTracking.cfg` | `CallInv` (`TypeOK`, `AskedForEverything`), `ResolvedMeansAnswered`, `UsesItsTime` (`EndsInTime`, `RejectedAfterAll`), `CallEnds` | what a resolved or rejected call means |
| `operation_tracking_chunks` | `MCOperationTrackingChunks.cfg` | `NoAnswerLost` (violated) | finding 1 |
| `tac_sdk` | `MCTacSdk.cfg` | `SdkInv` (types, `ShardsMatchLinker`), `ValueConserved`, `PaymentSuffices` (`FeesCoverSuggestion`, `BatchCovered`), `ResolvedAsAsked`, `SentAsNamed`, `BridgedAsGiven` (`ApprovalsCoverMessage`, `TakenAsGiven`), `ConfigurationSound` (`CreatedComplete`, `ReadInOrder`, `RejectedForAReason`) | from what a caller names to the messages: assets are the ones named, value is neither lost nor paid twice, what is sent can be paid, and a created SDK has what the settings contracts hold |
| `cross_chain_send` | `MCCrossChainSend.cfg` | `CallInv` (`TypeOK`, `IdsBelongToLinkers`), `ReturnedMeansSent`, `CompleteAnswerPasses`, `CallsEnd` | what a returned call means |
| `raw_sender` | `MCRawSender.cfg` | `OnceAndInOrder`, `ResultsAccountForMessages`, `ImplementsDelivery` | the wallet's history is that of `GroupDelivery` |
| `start_tracking` | `MCStartTracking.cfg` | `CallInv` (`TypeOK`, `RejectionJustified`), `ReturnMeansEndedAndVerified` (`ReturnMeansEnded`, `ReturnMeansVerified`, `StatusIsRight`), `TrackingEnds`, `EndIsNoticed` | what a returned profile, a status or a rejection means |
| `txfinalizer` | `MCTxFinalizer.cfg` | `WalkInv` (`TypeOK`, `AskedOnce`), `VerdictIsRight` (`SuccessCoversTree`, `FailureIsReal`), `WalkEnds` | with complete answers a verdict is right about the tree |
| `txfinalizer_missing` | `MCTxFinalizerMissing.cfg` | `MissingHashReported` (violated) | finding 2 |

`TypeOK` of `RetryableContractOpener`, `BatchSender` and `RawSender` is proved and
needs no run.  `CHECK_DEADLOCK FALSE` everywhere: each model is of calls that return, after
which nothing is left to do.

### Bounds

* `retryable`: three openers with 2, 0 and 1 retries, so that a first, a middle
  and a last opener, an opener without retries and an exhausted one all occur.
* `transaction_tree`: four transactions in a chain, in a fork with an external
  message, and in a fork that is entered at a leaf; depths 1 and 2, so that the
  limit cuts trees; at most one failing lookup and one retry; up to two bad
  transactions; one transaction (`MaxBuried`) falls behind the scan limit, at any
  time from before the walk on, which a walk that searches it a second time notices.
* `history_scan`: histories of up to four transactions, pages of two and three
  (overlap in the middle and at the end), scan limits 2 and 4, at most one
  matching transaction.
* `batch_sender`: two calls, a group of at most two messages, batches that need
  zero to three groups or cannot be grouped; eight query ids of which every
  fourth is invalid, stamps that run over the end of the ids, a lag of one
  second; a clock of five seconds against a timeout of two, so that the contract
  forgets ids and stamps expire before and after the one restart.
* `operation_tracking`: two sequencers, lists of one to three keys, one with a
  repeated key, chunks of two, three attempts, answers that are null; requests last zero or two units
  against a timeout of three, so that each of the three ways to give up occurs.
* `tac_sdk`: two transactions, which is what it takes to share an object or to
  compete for a balance.  With objects as assets: carts that are empty, hold TON
  only, repeat a jetton, a jetton with an NFT twice, or a zero amount; fee options
  below, at and above what a simulation suggests; balances that cover none, one or
  both; prices and usages such that each part of a fee shows and rounds.  With
  names: a jetton and its copycat, an ERC20, an NFT issued on each chain, by both
  addresses, twice in a list and by both callers, as display amounts (with a
  multiplier that may not be readable) and raw ones, before and after their
  counterpart is deployed; an index that no item of the collection has, and a
  token named like a collection.  Bridging has none to two assets beside the native one,
  while the other caller resolves.  Creation has a public, the dev and an unknown
  network, every set of options, and one change of the settings on TAC; the
  contract on TON holds all its settings, none, or an address, a code and
  the gas usage only (`TonContents`).
* `cross_chain_send`: two calls, transactions of one to three shards against
  chunks of two, so that a transaction is cut and two share a chunk; batches of
  two and three with equal and different keys against a `KeyChunk` of two, so that
  the keys of one batch need two requests.
* `raw_sender`: two calls of zero to three groups and a single transaction that
  does not fit into a message, sequence numbers that lag by one.
* `start_tracking`: one operation or two together, or a status, two sequencers, limits 0 (no
  poll at all) and 4 (one poll more than an id and a type take), one failing
  request, transactions in TON that go well or of which the second fails.
* `txfinalizer`: four transactions in a chain, a fork with a leaf that both branches share, a
  chain entered in the middle and one message, depths 0 to 3, one retry, eight kinds of transaction at one place.

The remaining constants (`MaxErrors`, `MaxTime`, `MaxRestarts`, `MaxLt`) only
bound the environment.

### Fairness

* `RetryableContractOpener`: weak fairness of the call.  The openers it wraps are
  created with `DEFAULT_HTTP_CLIENT_TIMEOUT_MS`, so an attempt settles, and a
  `sleep` ends.
* `TransactionTree`, `HistoryScan`: weak fairness of the loop, for the same
  reason; none of the indexer, of new transactions and of throwing lookups.
* `BatchSender`, `RawSender`, `TacSdk` and what it composes: safety only, no fairness.
* `OperationTracking`, `StartTracking`, `TxFinalizer`: only of timers and of what a call
  does between two requests.  `AxiosHttpClient` sets no timeout
  (`sdk/AxiosHttpClient.ts:13`), so a request may hang for ever; `CallEnds`,
  `TrackingEnds`, `EndIsNoticed` and `WalkEnds` (of `TxFinalizer`) therefore say what
  happens if requests settle, as an implication whose left side is weak fairness of
  those actions (`RequestSettles`, `Answered \/ RequestFails`).  `EndIsNoticed` asks it of
  the requests for the one operation only, whatever becomes of those for the others.
* `CrossChainSend`: weak fairness of what the manager does with results and of the
  tracking of the tree, whose lookups go through an opener.  A send may wait for
  the user of a wallet (TonConnect) and the wait for ids asks the sequencer without
  a timeout; `CallsEnd` has, for each call, that these settle (`SendSettles`,
  `WaitSettles`) as a hypothesis, and nothing about the other calls.
* None anywhere of what services, sequencers and indexers learn.

## 4. Proofs

Each proof module names its inductive invariant and proves it step by step, one
lemma per action; the theorems follow from it.  The assumptions on the constants
are those of the modules, which TLC evaluates on every run.

`ContractOpener_proofs`, of `RetryableContractOpener` for any number `N` of openers
and any budgets `Retries \in [1..N -> Nat]` (`OpenersAssumption`;
`NoErrorAssumption` says that the two markers are not errors):

* `TypeCorrect`, `BudgetTheorem`, `RejectionTheorem`: types and the invariants of the run.
  They are not inductive alone.  `IInv` adds `Running`, which ties the number of
  attempts made at the current opener to the loop counter `attempt`, and
  `LoopOver`, which says when the index has passed the last opener.
* `FinalErrorTheorem`: the action property, from `IInv`: after a final error the
  call is over, hence nothing is tried again.
* `FailoverTheorem`: `Spec => Failover!Spec` under the refinement mapping
  `givenUp <- index - 1`, `verdict <- Verdict`: initial states map to initial
  states, exhausting an opener is `GiveUp`, success and final errors are
  `Settle`, everything else stutters.

and of `HistoryScan`, for any history, pages and limits above one (with a limit
of one the search skips transactions, section 5; the theorems have that as a
hypothesis, `\A n \in Limits : n > 1`):

* `ScanTheorem`, `ScanAnswerTheorem`: nothing is skipped or inspected twice while the
  account goes on receiving, and null means that nothing matches.  The invariant
  says that what was inspected is exactly the part of the history from where the
  search began down to the cursor.

`BatchSender_proofs`, for any set of calls, any batches and any clock
(`BatchAssumption`; `BatchesAssumption` states the type of the recursive cut
`prepareGroups`, which induction over data would be needed to prove; TLC
evaluates it on every run):

* `TypeCorrect`.
* `AtMostOnceTheorem`: no group is executed twice, with restarts and any
  duplication or delay by the network.  The invariant `IInv` adds `Once` - a
  group of a call is stamped once, because a call that has sent it moves past it
  or ends - and `InPast` - an executed message was stamped no later than it was
  executed; then either the contract still remembers the id (the two executions
  are less than `Timeout` apart) or the stamp has expired.
* `DistinctQueryIdsTheorem`, until the process restarts (`FirstLife`): `Fresh`
  adds that every stamp in use is at most
  `lastCreatedAt` and belongs to one group; stamps that are acceptable at the
  same time are less than `Timeout < IdSpace` apart, so that different stamps
  have different ids (`QueryIdInjective`).
* `ResultsTheorem`: results account for messages.  `Accounted` follows a call:
  while it goes on, its results are successes and the last one ends where the
  next group begins.

`RawSender_proofs`, for any set of calls, any sizes and any lag of the endpoints
(`RawSenderAssumption`):

* `TypeCorrect`.
* `OrderTheorem`: the wallet executes no group twice and none after a later one
  of its call.  The order of the sequence numbers of a call's groups does not
  follow from the code - reads may be stale - so the invariant `IInv` says what
  happens instead: `Read` (a number that was read had been reached), `Past` (a
  call goes past a group that has reached the network, or ends), `Linked` (the
  i-th execution carries number i - 1) and `Superseded` (a group with a number
  below that of an earlier group of its call has lost its place).
* `DeliveryTheorem`: `Spec => Delivery!Spec` under `sent <- HandedOver`,
  `log <- executed`.
* `ResultsTheorem`: results account for messages, by an invariant `Accounted` like
  that of `BatchSender_proofs`.

`TransactionTree_proofs`, for any set of transactions, any trees and outcomes,
and an indexer of any pace (`TreeAssumption`: a message has one sender, and the
internal messages of a transaction, which `SelectSeq` computes by recursion, are
its messages without the external ones; TLC evaluates both for the trees of the
run):

* `VerdictTheorem`: a verdict is right about the whole tree, whatever falls behind the
  scan limit meanwhile; a `not_found` about a transaction that was already validated
  is one about a transaction beyond that limit.  `Complete` says that
  the neighbours of a processed transaction are processed or about to be searched
  for, at no more than one level more; `Searches` that every search has one target within its depth
  and that depths in the queue never decrease; `Visited` that a search that is
  skipped has found its target before.  `Frontier` puts them together: when the
  queue is empty, or its head is at depth d, everything nearer is processed.
* `ShapeTheorem`: types, no transaction validated twice, breadth first.

`Within(n)` is a recursive function over depths: `ReachableIs` shows from
`Paths` that its equations have a solution, and `Induction` - the least element of a
set of naturals - replaces the library's induction rule, which the provers
cannot instantiate.

`OperationTracking_proofs`, for any number of sequencers, any lists, chunk size
and limits (`TrackingAssumption`; durations have a longest one):

* `OneSequencerTheorem`, `AnswerTheorem`: types; one sequencer was asked for
  everything, though requests are cut into chunks and clients change between
  them, and what a resolved call returns is what that one knows.  `Progress` says
  what the clients before the present one were asked, and the present one so far.
* `TimeTheorem`: a call ends within its time and is rejected only after its
  attempts, of which the last one asked everybody or got from one sequencer an
  answer to the whole list that is null or fails the check.  `Timing` counts the requests that fit in an attempt: the j-th chunk
  at a client starts after at most `(client - 1) * Chunks + j` of the longest.

`CrossChainSend_proofs`, for any calls, requests and chunk size
(`SendAssumption`; that `Messages`, a fold, is a number is assumed and evaluated
by TLC).  Each theorem has a hypothesis, without which TLC shows that it is false
(section 5):

* `SentTheorem`: if single transactions are sent by wallets (`SinglesByWallet`), a
  call that returned has sent all its messages.  `SentInv` adds that a call comes
  to be judged either with everything sent or with a failure among its results.
* `IdsTheorem`, `PassTheorem`: if calls do not share a `waitOptions` object
  (`~SameObject`), ids belong to their linkers, and an answer to all of them passes
  the check if the keys fit in one chunk (`KeyChunk`; of more, the last chunk's
  answers are all that is left, finding 1).  `Waiting` says that a call that waits is checked by its own closure,
  `Learned` that the sequencer knows operations of linkers only; if linkers have
  different keys (`KeysDiffer`), what it knows of a key is that linker's operation.

`Finality_proofs`, of `StartTracking` for any linkers, sequencers, limits and
outcomes:

* `ReturnTheorem`: what a caller may conclude from a profile or a status.  `Sound` says
  for each operation that a final type was the answer of a sequencer where it had
  ended, and `Checked` that the transactions before those still to be verified went
  well.
* `RejectionTheorem`: why a call is rejected when no request failed.

and of `TxFinalizer`, for any tree, depth, retries and an indexer of any pace:

* `FinalizerTheorem`: with complete answers a verdict is right about the tree.
  `Progress` says that a hash that was asked about has led to the conclusions that
  its answer calls for, or is the one being checked; `Places` that depths in the
  queue are those of the tree.
* `AskedOnceTheorem`: no hash is asked about twice, retries excepted.

`TacSdk_proofs`, of the facade with all that it composes, for any number of
callers and transactions, any lists, contracts, options and prices, and any
interleaving.  Its parts:

* `ResolvedTheorem`: a resolved asset is the one that was named.  The inductive
  invariant `FactoryInv` is about the heap: `FactoryTypes`; `Progress` (how far each
  list is); `Lookup` (what a call knows of the contract it asks about); and `Heap`,
  of which `Owned` is the heart - no object belongs to two entries of the lists,
  or to an entry and to a call that is about to write its amount, although cached
  objects are handed out to whoever made them - with `CacheRight`, `ReturnedRight`
  and `DoneRight` for the three places where references are kept.
* `BridgedTheorem`: what is taken is what was given.  `HeapStep` reduces all that the
  resolution does to three changes of the heap, `Shared` says that clones of an NFT
  remember one address, `Approvals` what the approvals made so far allow (of a
  token named twice, the last one), and `LeftOver` that nothing else may be taken.
* `ConfigurationTheorem`, of `ConfigSpec`, and `SdkConfigurationTheorem`, of the
  facade.  A created SDK has all settings of TAC, and of TON those that the
  contract holds, with a substitute for each of the others.
  `TonSide` and `TacSide` say how far each chain's parameters are and what
  the caller must have given for that, `Settled` what the first rejection or the two
  successes mean.
* `SdkTheorem`, `ConservationTheorem`, `PaymentTheorem`, `SentTheorem`: the types of all
  parts and the number of shards that a linker announces; what a caller gives is what
  the messages carry; what is sent can be paid; and, end to end, a ready batch does
  with each token what its caller named.  They come in two steps.  First what the
  algorithms compute for every list: the loop over a list's amounts is the amount
  asked for (`RawAmountIs`), its addresses are listed without repeats
  (`AddressesAre`), the messages of a list have the shape that `MessagesShaped` says,
  from which conservation follows (`ShapedConserves`), fees are numbers
  (`NetworkFeeType`), and a joined list asks for what its parts ask for together
  (`BatchCart`).  Then `BatchInv`, which carries this through the batch: `Handed` (the
  lists that `sendCrossChainTransactions` hands over are the resolved ones), `Checked`
  (how far the batch is, so much has been checked, and nothing that was checked
  changes any more), `PreparedRight` (what a prepared transaction holds is
  determined by its list and its fees) and `FeesCoverSuggestion`.  A resolved list
  names a token by one address, kind and origin only if there is a contract at
  every address, which the check of the balances ensures; therefore `Checked` is
  part of the induction for `PreparedRight`.
  `SdkIInv` joins `BatchInv` to the invariants above.

The assumptions of these four (`FeesAssumption`, `PrepareAssumption`, `SdkAssumption`)
are the types of prices, options and answers; that asset objects passed by a caller
name a contract by one address, with one kind and origin (`Coherent`;
`aggregateTokens` takes the first asset of an address for all of them,
`sdk/Utils.ts:320-326`); and for `SentTheorem` that the assets are checked, the
default of `validateAssetsBalance` (`sdk/TONTransactionManager.ts:144`, `371`), and that
nobody owns anything at an address without a contract.  That asset objects may also
be passed unchecked is part of the other three theorems.

The sums are folds over sets, whose result could depend on the order in which
elements are chosen.  The first part of `TacSdk_proofs` shows once that such a fold
exists (`FoldExists`), that it is determined (`FoldUnique`), that a sum does not
depend on the order (`SumsAgree`) and may be taken apart (`SumOfParts`,
`SumWithoutZeros`); `NatInd` - the least element of a set of naturals - replaces the
library's induction rules, which have an operator as a parameter.

What only TLC checks: the liveness properties `CallSettles`, `WalkEnds` (of
`TransactionTree` and of `TxFinalizer`), `GoodTreeAccepted`, `ScanEnds`, `CallsEnd`, `CallEnds`,
`TrackingEnds` and `EndIsNoticed`, since liveness under fairness is out of the prover's
reach.  Every other property of a passing run is stated by a theorem.  Two facts
about recursive definitions are assumed and evaluated by TLC, since induction over
data is out of its reach as well: the type of the cut `prepareGroups` in
`BatchSender` and what `SelectSeq` and `Messages` return in `TransactionTree` and
`CrossChainSend`.

## 5. Findings and observations

Two disagreements between the code and its documentation have a run whose
property quotes the documentation and is violated:

1. Lists longer than a chunk keep the answer to their last chunk only:
   `sdk/LiteSequencerClient.ts:309` merges the envelopes, not the responses;
   `src/docs/sdks/lite_sequencer_client.md:92` promises automatic chunking.
2. `TxFinalizer` takes an indexer that cannot be reached, or does not know a
   hash, for one that knows no adjacent transaction, and succeeds
   (`sdk/TxFinalizer.ts:76`); `src/docs/sdks/utilities.md:215` says a hash that is
   not found is an error.

The models show more behaviour that a caller may not expect.  No run has it as
a property; the checked properties are stated so as to leave it out, at the
constants named here.

* `trackTransactionTree` does not pass `useRetries: false`
  (`adapters/RetryableContractOpener.ts:202`): tracking repeats its attempts at
  one opener (`tried` exceeds 1 for the method class `"track"`).
* A history scan with `limit: 1` inspects only the first transaction: after a
  page with nothing but the cursor, the previous transaction becomes the cursor
  uninspected (`adapters/BaseContractOpener.ts:102-117`).  With `Limits = {1}`,
  `AnswerIsComplete` is violated; the run has pages of two and three.
* A lookup that does not reach its transaction within `maxScannedTransactions`, 100 by
  default, finds nothing (`adapters/BaseContractOpener.ts:123`), so a walk over a busy
  account may end in `not_found` for a transaction that exists, of a tree that went
  well, and even for one it has validated before and looks up again from a child.
  `FailureIsReal` and `GoodTreeAccepted` name this case (`beyondLimit`).
* A null answer ends an attempt ("Empty result", `sdk/Utils.ts:196`) without the other
  sequencers being asked, although one of them may know more; `RejectedAfterAll`
  names it.
* A batch of more than `maxChunkSize` transactions, 100 by default, never gets its
  operation ids, by finding 1 (`sdk/LiteSequencerClient.ts:309`,
  `sdk/TONTransactionManager.ts:408`): `CompleteAnswerPasses` is about batches whose keys
  fit in one chunk (`KeyChunk`).
* An SDK is created although the settings contract on TON lacks an address or a code,
  which are `''` and `undefined` from then on (`sdk/Configuration.ts:117`,
  `sdk/Utils.ts:412`).  `CreatedComplete` says that what the contract holds is taken.
* A process that restarts within a second of its last group may stamp another group
  alike (`sender/BatchSender.ts:142`): the contract drops it as executed, and its
  result says success.  `DistinctQueryIds` is about the time until the restart;
  after it, `ExecutedAtMostOnce` says that nothing is executed twice.
* A burst of more groups than the lag has seconds is stamped later than the
  clock (`sender/BatchSender.ts:140`).
* `TxFinalizer` checks the transactions adjacent to a hash, never the one that
  the caller names (`sdk/TxFinalizer.ts:102`); its `VerdictIsRight` is about those.
* `startTracking` without `returnValue` resolves when its iterations are used up
  (`sdk/StartTracking.ts:89`), which is why `ReturnMeansEnded`, a part of
  `ReturnMeansEndedAndVerified`, is about callers that asked for the value.
* Its profile may come from a sequencer that is behind the one that called the
  operation final; then there is nothing in it to verify
  (`sdk/StartTracking.ts:96`), and the part `ReturnMeansVerified` is about the profile.
* The same NFT in two transactions of a batch counts once
  (`sdk/TONTransactionManager.ts:375`); `BatchCovered`, a part of `PaymentSuffices`, is about
  jettons and TON.
* Concurrent preparations that share an `evmProxyMsg` object share the gas limit
  of the simulation that answers first (`sdk/TONTransactionManager.ts:90`).
* Groups of one `RawSender` call may carry the same sequence number: the second
  is never executed and its result says success (`sender/RawSender.ts:98`).
  `ResultsAccountForMessages` is about messages handed over.
* A single transaction that TonConnect sends in chunks is judged by its first
  chunk (`sender/TonConnectSender.ts:112`): `ReturnedMeansSent` is violated once
  `Requests` has one with more shards than `ChunkSize`; the run sends single
  transactions through a wallet, and `SentTheorem` has the hypothesis
  `SinglesByWallet`.
* The `successCheck` of one batch stays on the caller's `waitOptions` and is used
  by the next (`sdk/TONTransactionManager.ts:405`): with `SameObject = TRUE`,
  `CompleteAnswerPasses` is violated, and `IdsTheorem` has the hypothesis
  `~SameObject`.
* When two linkers of a batch draw the same shards key, the wait for operation
  ids cannot succeed (`sdk/TONTransactionManager.ts:408`, `Utils.ts:38`).
* A rejection after the send - by the tracking of the tree, or by one chunk of a
  batch - does not hand out the linkers of what was sent
  (`sdk/TONTransactionManager.ts:318`, `358`).
* An asset that is twice in the list of `bridgeTokensToTON` is approved twice, and the
  second approval replaces the first (`sdk/TACTransactionManager.ts:87`);
  `ApprovalsCoverMessage` is about lists without repetitions (`NoRepeats`).
* With an executor's fee given by the caller nothing looks at the amounts of
  `bridgeTokensToTON`: zero amounts are sent.
* A token issued on TON that is named by the TAC address it is going to have
  resolves, before it is deployed there, to a token issued on TAC at an address
  where no contract is, and the cache keeps it (`assets/FT.ts:121`).
  `ResolvedAsAsked` leaves such names out (`MayMislead`).
* An item of a token - an ERC20's TAC address with an `itemIndex` - resolves to an item
  at a computed address without a contract (`assets/NFT.ts:194`).  Bridging it approves
  as many of the token as its index says (`sdk/TACTransactionManager.ts:40`);
  `BridgedAsGiven` is about lists without one (`NoItemsOfTokens`).
* `NFT.getEVMAddress` of an item whose collection is not deployed on TAC remembers an
  address that is not the collection's; `ApprovalsCoverMessage` is about lists
  whose addresses were known (`AddressesKnown`).
* A display multiplier that cannot be read counts as 1, and the cached object
  keeps it.
* Settings that are changed while they are read one after the other may end up in
  one configuration from before and after the change (`sdk/Configuration.ts:187`);
  `ReadInOrder` says that a later setting is never older than an earlier one.

## 6. Not modelled

* The composition of `RetryableContractOpener` with `TransactionTree`: tracking is
  one call of the first and one walk of the second.  A lookup inside the walk that
  fails with a transport error becomes `not_found`, which the first takes for a
  final answer; `FinalErrorTheorem` and `VerdictTheorem` say each half.
* `agnosticSdk`: builders of calldata for a contract that is not in this
  repository.  They append to a list and encode; which bytes a replacement
  covers is a question about the ABI encoding of a library.
* The walk of `HighloadQueryId` over query ids, which the senders do not use: they
  take ids from the clock.
* Construction of senders (keys and a choice of class), the sandbox opener, the
  wrappers of contracts other than the highload wallet, `ContentUtils`, encodings of
  cells, of payloads and of token metadata: calls of libraries over immutable data.
* Of the assets: that the key of the cache is lower-cased and does not name the
  network, the refresh of a display multiplier after five minutes, and
  `AssetCache.clear`, which nothing calls.
* Of sending: a batch without transactions, whose request for ids is refused before it is
  sent (`sdk/LiteSequencerClient.ts:122`) and which returns without ids.
* Of operation tracking: an empty operation type, which the code counts as
  successful and no documented answer has; the refusal of bad parameters before
  the first request of the single-answer calls.
* Of the facade: methods that delegate one call.
* Interfaces, structures, errors and logging.
