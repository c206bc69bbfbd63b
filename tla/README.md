# Pluribit in TLA+

A verification development for the Pluribit node: TLA+ modules translated from
its source, TLC configurations that model-check them on small instances, and
TLAPS proofs of the properties that matter most. `src/` below is the root of
the repository; the Rust core is `src/src/`, the native addon
`src/native/src/`, the node's worker thread `src/worker.js`.

## 1. The system

A Pluribit node is one Node.js process. `main.js` (terminal) starts
`worker.js` (a worker thread), which loads the Rust core as WebAssembly, the
native addon (RocksDB and the mining loop) and the libp2p node, and starts
`mining-worker.js` in another thread. Nodes talk over gossip topics and direct
streams; two users of two nodes can also run a payment channel or a swap with
Bitcoin over them.

| Component | State it keeps | Operations |
|---|---|---|
| **Chain state** (`src/src/lib.rs`, `blockchain.rs`, `native/src/db.rs`) | tip, height, total work; unspent outputs; coinbase index; side-block cache; mempool; in RocksDB: blocks, `height:` keys, `meta:tip_height`, `total_work`, outputs, coinbase index, the reorganisation marker | `init_blockchain_from_db`, `ingest_block_bytes`, `plan_reorg_for_tip`, `atomic_reorg`, `add_transaction_to_pool`, `mempool_hygiene_after_block` |
| **Block validation** (`blockchain.rs`, `block.rs`, `transaction.rs`, `mimblewimble.rs`) | none | `add_block`: proof of storage time (VRF, VDF), timestamps, Merkle root, sums of commitments, range proofs, kernels, cut-through |
| **Worker: block handling and synchronisation** (`worker.js` 270-2680) | `globalMutex`, `syncState` (IDLE, CONSENSUS, DOWNLOADING, COOLDOWN; `isSyncing`), `reorgState`, deferred blocks, timers | `handleRemoteBlockDownloaded`, `bootstrapSync`, `syncForward`, `triggerReorgPlan`, `checkAndRecoverFromIncompleteReorg` |
| **Mining** (`worker.js` 700-950 and 1720-1855, `mining-worker.js`, `native/src/mining_loop.rs`) | job id, `minerActive`, the candidate | `startPoSTMining`, `stopMining`, `abortCurrentMiningJob`, `handleMiningCandidate` |
| **Block fetching** (`worker.js` 1143-1292, 2622-2675, 2935-2995) | outstanding requests with a 15 s life, partial hash lists | `fetchBlockDirectly`, `fetchBlocksParallel`, `requestAllHashes` |
| **Peer-to-peer node** (`libp2p-node.js`, `config.js`, `p2p.proto`) | verification state per peer, challenges, bans and bad-block counts, poisoned hashes, Dandelion stem pool, message rate limits | connect, challenge and response, gossip handling, direct streams, stem and fluff |
| **Wallet** (`wallet.rs`, `worker.js` 4058-4262) | owned outputs, pending marks, synced height | scan, create transaction, revert, rescan after a reorganisation |
| **Payment channel** (`payment_channel.rs`, `worker.js` 3040-3520) | per party: state, sequence number, balances, current commitment, revocation secrets | propose, accept, complete, fund, pay, accept payment, complete payment, close, penalty |
| **Atomic swap** (`atomic_swap.rs`, `adaptor.rs`, `worker.js` 3525-4010) | swap state per party, two timeouts, adaptor secret | initiate, respond, lock, claim, extract, refund |
| **Consensus arithmetic** (`blockchain.rs`, `constants.rs`, `merkle.rs`, `block.rs`) | none | difficulty adjustment, chain work, reward, Merkle root, median time |
| **Cryptography**, **wire types**, **user interface** | none that the protocol depends on | |

How they interact. The worker calls the core through `safe(...)`: a wasm call
and the synchronous RocksDB calls it makes run to their end before any other
callback of the worker. Everything that awaits something real (a publish or a
fetch over libp2p, the idle message of the mining worker, a timer, the queue of
`globalMutex`) lets other callbacks in. Blocks reach the core along three
paths: gossip and fetched blocks through `handleRemoteBlockDownloaded` (under
`globalMutex`), batches through `syncForward` and probes of peers' tips through
`bootstrapSync` (without it). The core answers each block with an
`IngestResult`; for a side block the worker asks the core for a plan, waits for
the miner to stop, and applies the plan with `atomic_reorg`.

### What is hard, and what makes it correct

* **Chain state.** Order of arrival of blocks, several plans at once, plans
  applied to a tip they were not made for, eviction from the side-block cache,
  outputs spent and created inside the detached and attached segments, plans
  refused half-way, crashes between the many separate writes of one call. *Correct* means: one chain, in
  memory and on disk; outputs, coinbase index, work and fee total equal to a
  replay of that chain; fork choice by work; recovery after a crash.
* **Worker.** A handler that awaits while it holds `globalMutex`; early
  returns that leave `syncState` set; retries that find their own guard set;
  the miner's idle message. *Correct* means: the mutex is released and handed
  over in order, synchronisation always becomes possible again, the miner
  restarts on the new tip, a deferred block is processed.
* **Block fetching.** Answers that are lost, late, never come, or overtake each
  other; a broadcast request that every peer answers; a handler array that changes while
  it is walked; slots counted per peer. *Correct* means: no block or hash is
  forgotten, a list of hashes is one peer's, a completed synchronisation has
  caught up with it, every call ends as far as the peers let it.
* **Messages.** 78 classes with optional and repeated fields and oneofs, in
  JavaScript's several forms of a number. *Correct* means: what a node says is
  what the other hears, also across versions.
* **Peer-to-peer node.** Bans, challenges and stem transactions with lost and
  reordered messages. *Correct* means: a ban lasts, only verified peers are
  listened to, a transaction eventually leaves the stem.
* **Wallet.** A send that awaits between its steps and a load that reads the
  database again, on a chain that moves. *Correct* means: a coin in flight is not offered
  again, a wallet owns what a replay of the chain gives it, and a wallet that
  counts as synchronised misses no block.
* **Channel, swap.** Lost and reordered messages, secrets released at the wrong
  step, two timeouts. *Correct* means: the two parties agree on balances, a
  revoked state can be punished, a swap pays both or neither.

The full list, line by line, with the properties that cover each entry, is
under "hazards" in `PROJECT.json`.

## 2. The plan

| Module | Models | Over | Proofs |
|---|---|---|---|
| `BlockTree` | the blocks and transactions a node can meet | | `BlockTreeProofs` |
| `ChainState` | the chain, its memory, its database, crashes | `Ledger` through `ChainRefinement` | `ChainStateProofs` |
| `SyncStatus` | the synchronisation rounds, their shared status, pauses and circuit breaker | | `SyncStatusProofs` |
| `PromiseMutex`, `NodeWorker` | `globalMutex`, the block handler, the control of the miner | `FifoLock` | `WorkerProofs` |
| `BlockFetch` | one parallel download of a batch of blocks | | `BlockFetchProofs` |
| `HashSync` | one `syncForward` with the peers that answer it | | `HashSyncProofs` |
| `Wallet` | one wallet, its commands, the chain and the mempool under it | `Ledger`, instanced as its chain | `WalletProofs` |
| `WireSchema`, `WireCodec`, `Wire` | the generated codec and the messages the node publishes | | `WireProofs` |

The chain came first because everything else rests on it; the worker's rounds
and its mutex next, because they decide when the chain is called; then what the
rounds call (`HashSync`, `BlockFetch`), what reads the chain (`Wallet`) and what
carries the messages (`Wire`). All of this is done. `Wallet` stands on
`Ledger`, the promise `ChainState` is shown to keep, and not on its detail;
`NodeWorker` and `SyncStatus` take the answers of the core as choices limited
by what `ChainState` allows, and `HashSync` takes a fetched block as there or
missing, which is what `BlockFetch` returns.

What a next step could be is in section 6: the peer-to-peer node, and the
channels and swaps once their code runs.

## 3. The modules

**`BlockTree`** is the world a node meets: constants for the blocks (parent,
height, branch, work, rank of the hash), the transactions (inputs, outputs,
fee, the `source_height` of each input) and the replay of every branch. What
`add_block` decides from the block alone is one bit, `Sound`; what it decides
from the ledger is computed. A commitment has at most one live output
(`FreshOutputs`): commitments are random points. The assumptions are named and
TLC evaluates each of them on the instances. `HonestTree`, `OutputsBornOnce` and
`OnlyCoinbasesLackInputs` are not assumptions: they are hypotheses of single
theorems, and TLC evaluates them on the instances too.

**`ChainState`** is one node.

| Variable | Code |
|---|---|
| `tip_hash`, `current_height`, `total_work` | fields of `Blockchain` in memory |
| `utxo_set` | `UTXO_SET` and the `utxo:` keys, written together |
| `coinbase_index`, `db_coinbase` | `COINBASE_INDEX` and the `coinbase:` keys, which `add_block` lets drift apart |
| `side_blocks` | `SIDE_BLOCKS`, first in first out at capacity |
| `pending`, `fee_total` | `TX_POOL` |
| `height_index`, `tip_height`, `block_store`, `db_total_work` | RocksDB: `height:`, `meta:tip_height`, `block:`, `total_work` |
| `reorg_marker` | the marker `atomic_reorg` writes first |
| `pc`, `job` | where a multi-write call is |
| `plans` | plans computed by `triggerReorgPlan` that wait for the miner to stop |

| Action | Code |
|---|---|
| `ExtendCanonical`, then `SaveBlock`, `SaveTotalWork` | `ingest_block_bytes` on the fast path: `add_block`, pool hygiene, then the two writes |
| `StoredOnSide`, `NeedParent` | `validate_side_or_orphan` and `store_side_block` |
| `PlanSwitch`, `PlanKeep` | `plan_reorg_for_tip`; the plan goes to `plans` or nowhere |
| `RejectPlan` | `atomic_reorg`, the errors of Phase 1: nothing has changed |
| `BeginReorg`, `RefuseReorg` | the marker of Phase 2, then the comparison of the detach list with `working_tip_hash` (lines 3234-3248): one block passes, a second is refused with the marker left on disk |
| `DetachUtxos`, `AttachUtxos` | Phases 3 and 4.1, a step per attached block |
| `DetachCoinbases`, `AttachCoinbases` | Phase 4.2 |
| `CommitReorg`, `SaveReorgWork`, `ClearMarker` | Phases 4.4 to 5.4: pool, metadata, the batch of `commit_staged_reorg`, the work, the marker |
| `AddTransaction`, `ReplaceCheapest` | `add_transaction_to_pool` |
| `Crash`, `Restart` | the process dies; `checkAndRecoverFromIncompleteReorg` and `init_blockchain_from_db` |

Between `BeginReorg` and `ClearMarker`, and between `ExtendCanonical` and
`SaveTotalWork`, no other operation runs: these steps are one wasm call. They
are separate because a crash can fall between any two of them. Everything else
interleaves: in particular several plans can wait while blocks extend the tip,
because `triggerReorgPlan` awaits the miner without holding a lock.

`working_tip_hash` is set before the detach loop and not moved in it, so
`OnlyTheTip` is what the loop can do: a reorganisation takes the tip away and
attaches a branch of any length. A plan that detaches two blocks or more is
made, waits, writes its marker and is refused (`RefuseReorg`). Everything said
below about reorganisations is about the ones the code carries out and the ones
it refuses. A pooled transaction spends something (`Balances`): its kernel
commits to a fee that is at least the minimum, and without inputs it cannot
balance.

**`Ledger`** is what the rest of the node is promised: one chain, its outputs,
its work; it extends by a valid block or exchanges its last block for a branch,
in one step.
**`ChainRefinement`** maps `ChainState` to it. **`MCTree`** is
the tree of blocks of the instances, with forks one and two blocks deep; **`MCChain`** and
**`MCChainState`** are the instances.

### Properties

* `MemoryMatchesDatabase`, `UtxosAreTheReplay`, `CoinbasesAreTheReplay`,
  `WorkIsTheReplay`, `ReorgFollowsTheBranches`: what the node keeps by adding
  and taking away is what a replay of the canonical chain yields.
* `PlansDetach`, `ReorgsStartAtThePlannedTip`: `atomic_reorg` does not compare
  the tip a plan was made for; that it is still safe rests on the fork choice
  (a plan always detaches something) and on the check of the detach list.
* `DatabaseHoldsAChain`: across crashes and stale plans the height keys are
  one branch and every block on it loads.
* `FeeTotalIsTheSum`: the pool's running total.
* `ImplementsLedger`: the refinement.
* Violated, each a finding: `HeavierChainsAreAdopted` and
  `CanonicalBlocksAreValid`.

### The synchronisation rounds

**`SyncStatus`** models `bootstrapSync` and `syncForward` of the worker. A
*round* is one call of `bootstrapSync` from the timer that starts it to its
end, with the `syncForward` and the pauses it runs. Any number wait and run at
once between their awaits, and they share four cells.

| Variable | Code |
|---|---|
| `status`, `failures` | `syncState.syncProgress.status`, `syncState.consecutiveFailures` |
| `isSyncing` | `workerState.isSyncing`, which the block handler reads |
| `round` | for each round the await or timer it is at, and its `attempt` |
| `mutexStuck` | `globalMutex` is held by a handler that will not release it |

| Action | Code |
|---|---|
| `Trigger` | the timers at start-up, after a verified peer, a manual connection, a far block |
| `TimerSkips`, `TimerFindsNobody`, `TimerAsks`, `AskFails`, `AskSent` | `bootstrapSync` up to the published question |
| `NobodyAnswered`, `TipsReceived`, `NoBetterChain` | the callback two seconds later |
| `LongerChainFound`, `HashesEmpty`, `HashesReceived`, `BlocksFork`, `BlocksDone`, `BlocksDoneNoWallet`, `RescanDone`, `ReorgDone`, `SyncFails` | `syncForward`, one action per outcome of an await |
| `CooldownEnds`, `LastTry` | the timers its failures set |
| `ForkFound`, `TipFetched`, `TipHandled`, `TipMissing` | the short way for a heavier fork that is not longer |
| `HandlerWaitsForItself` | a block handler elsewhere that takes the mutex for ever |

What peers answer, whether anyone is connected and which block of a list is
bad are choices of the environment. `syncForward` without peers (line 1422) is
left out: its two callers always pass one.

* `ExclusiveSync`, `DownloadIsProtected`, `CooldownIsKept`: however the rounds
  interleave, one at most is in progress, the flag that protects a download is
  set while it runs, and a pause is waited out.
* `RoundsEndOrHang`: a round ends, or it waits for ever at one place: for a mutex
  that is never released, or for a direct stream that a peer keeps silent.

### The mutex, the block handler and the miner

**`FifoLock`** is what the callers of `globalMutex` expect: one at a time, in
the order in which they asked. **`PromiseMutex`** is the class `Mutex`: a chain
of promises, of which `unresolved` are not resolved; `place` names each call's
own. **`NodeWorker`** extends it with what runs under it.

| Variable | Code |
|---|---|
| `place`, `unresolved` | the promises of `globalMutex` |
| `at` | the await each call of `handleRemoteBlockDownloaded`, `startPoSTMining` and of a planned reorganisation is at |
| `tip` | height and branch of the canonical chain |
| `carried`, `processing` | the candidate a handler works on, `processingCandidateHeight` |
| `minerActive`, `isSyncing`, `isReorging` | the fields of `workerState` |
| `restarts` | restart timers and spawned restarts that have not begun |
| `job`, `found` | what `mining-worker.js` works on, and its candidate on the way |
| `height` | what `startPoSTMining` read before its await |
| `excused` | history: one of the known ways to lose the miner occurred |

| Action | Code |
|---|---|
| `BlockArrives`, `CandidateTaken`, `AssemblyFails`, `CandidateIgnored` | `handleRemoteBlockDownloaded` and `handleMiningCandidate` up to the mutex; a candidate whose height is, or once was, being processed is ignored |
| `BlockMissing`, `Defer`, `NothingToDo`, `AcceptedAndExtended`, `Published`, `AskForBlocks`, `Asked` | the handler under the mutex, one action per answer of the core |
| `PlanReorg`, `Reorganise`, `ReorgEnds`, `Resume` | the handler's reorganisation: stop the job, await `atomic_reorg` with `isReorging` set, which moves the tip or refuses; then the finally block, or the start of the miner |
| `Finish` | the finally block of the handler, with its test of `isReorging` (another call may be in `atomic_reorg`) |
| `UserStarts`, `UserStops`, `RestartBegins`, `RestartAcquires`, `StartGivesUp`, `StartReads`, `StartPosts` | `setMinerActive`, `startPoSTMining` |
| `CandidateFound`, `MinerGivesUp` | `mining-worker.js` |
| `SyncBegins`, `SyncIngests`, `SyncPlans`, `SyncReorganises`, `SyncReorgEnds`, `SyncResumes`, `SyncEnds` | what a synchronisation round does to the same cells, without the mutex |

* `MutexIsALock`: the promise chain implements `FifoLock`.
* `CriticalSections`: a handler past its acquire, or a start that has read the
  height, is alone.
* `OnlySyncMovesTheTipUnderAStart`: while a start holds the mutex only the
  synchronisation can move the tip; that exception is real, and the job then
  names a height read before the await and a previous hash read after it.
* `NoSilentStop`: while the user wants to mine there is a job, or something
  under way that starts one, unless one of the known ways to lose the miner
  occurred since the last job (`excused`).
* `CallsEnd`: every call ends, unless a handler waits for itself or lost its
  mutex.
* Violated: `MinerRestartsAfterReorg`. The handler that reorganised awaits
  `startPoSTMining` while holding the mutex that call waits for.

What the module shows besides: `processingCandidateHeight` is the BigInt of a
candidate, compared with the Number of a block (`worker.js:2065`), and so never
cleared: a later candidate of that height is ignored although nobody works on
another (1822 says it is ignored only then), and the miner is left without a job
(`excused`); a start of the user that returns false leaves `minerActive` false
(932); a refused reorganisation of `triggerReorgPlan` leaves a stopped miner
without a job; a stop by the user between a reorganisation and its resume is overridden
(`worker.js:2038` and 1373); a stop during the await of a start is lost; a
`setMinerActive` whose start throws leaves `minerActive` true; a block ingested
by a probe of `bootstrapSync` is neither scanned nor announced;
`isDownloadingChain` is never set.

### Downloading blocks

**`BlockFetch`** is one call of `fetchBlocksParallel`.

| Variable | Code |
|---|---|
| `loop`, `pending`, `inFlight`, `peerInFlightCounts`, `peerIndex` | its locals of the same names; the loop's place |
| `fetch` | for each hash the promise of `fetchBlockDirectly`: its attempt, its peer, what it awaits |
| `results` | the map that is returned |
| `handlers` | the array of handlers of `TOPICS.BLOCKS` in `libp2p-node.js` |
| `walk` | for each message the index of `for (... of handlers)` in `handleGossipMessage` |

| Action | Code |
|---|---|
| `Start`, `Filled`, `Race`, `Returned` | the while loop: fill the slots round robin, `Promise.race`, release the winner |
| `StreamGives`, `StreamRefuses`, `StreamFails` | the direct stream of a fetch |
| `BroadcastFails`, `GossipTimesOut`, `BackoffEnds` | its fallback, and the pause before a next attempt |
| `Arrives`, `CallOther`, `CallTemporary`, `WalkEnds` | a gossip message is walked through the live array of handlers |

* `SlotsAreKept`: the counter of a peer is the number of fetches that occupy
  it, and never above the limit.
* `EveryHashHasItsFetch`: no hash is forgotten or fetched twice; one that is
  neither pending nor in flight has its block or has used up its attempts.
* `OnlySilenceHangsTheBatch`: the call returns, or a peer keeps a direct stream
  open and silent for ever. `fetchBlockDirectly` reads `stream.source` with no
  timeout (`worker.js:1148`-1163), so that second case is real: one peer holds
  the batch, whatever the others answer.

A temporary handler that is called splices itself out of the array that is
being walked, so the walk skips the next handler (`worker.js:1193`,
`libp2p-node.js:1344`). The model has this; it costs the skipped fetch its
timeout and an attempt, and neither a slot nor the end of the call.

### Asking for hashes

**`HashSync`** is one call of `syncForward` with the peers it asks.

| Variable | Code |
|---|---|
| `phase`, `list`, `next` | where the call is, the chosen list of hashes and how far it is ingested |
| `request`, `entries`, `collected` | the promises of `requestAllHashes`, the keys of `hashRequestState` and what each has collected |
| `asks`, `chunks` | requests and chunks on their way |
| `theirs`, `serving` | the peers' tips and what each is reading out |
| `tip`, `stored` | the node's chain and the blocks it has |
| `moves` | bound counter |

| Action | Code |
|---|---|
| `Ask`, `AskFails`, `TimesOut` | `requestAllHashes` |
| `Hears`, `Reads`, `Answers`, `PeerMoves` | the peers: the handler of a hash request, height by height, and its chunks |
| `Overflows`, `Collects` | the handler of a chunk |
| `Compare` | the comparison of the lists |
| `BatchIsFetched` | `fetchBlocksParallel` returns, if it does |
| `BlockFails`, `AlreadyHave`, `Extends`, `Forks`, `ParentMissing`, `Complete` | the walk along the first list |
| `TipMoves` | a handler that was past the `isSyncing` test moves the node's tip |

* `CompleteMeansCaughtUp`: a call that ends as complete has the last block of
  every list it compared, and a chain at least as high, however chunks and
  chains moved: a list with a gap ends the call before.
* `OnlyTheAskedAnswers`: a list holds only what the peer that was asked read in
  its own chain, and that peer has said all it has to say; an empty list of a
  peer that is behind is not taken for the answer of another, and chunks of two
  peers are not mixed. That no chunk is missing is not promised: gossip may lose
  one, and the walk finds out (`CompleteMeansCaughtUp`).
* `WaitingRequestsHaveEntries`: a request that waits has its entry and an entry
  its request, except the one whose publish threw.
* `SyncForwardEndsOrFetches`: the call ends, or a batch of blocks never returns
  (`TIMEOUT_MS` is tested between batches only, `worker.js:1499`).

Requests are broadcast, so every peer answers every request and most of what
arrives is not for the entry it meets. The limiter of the answering side
(`MIN_HASH_REQUEST_INTERVAL_MS`, 5 ms although `config.js:65` says seconds)
drops all but the first of the requests that arrive together, so the comparison
of lists normally compares one; in the model this is a request never heard. An
entry stays behind when the publish throws (`worker.js:2672`). What peers do
after the requests have ended is left out, because no entry hears it.

### The wallet

**`Wallet`** is one wallet of a node; `MCTree` and **`MCWallet`** are the
instance.

| Variable | Code |
|---|---|
| `session`, `saved` | the wallet in `WALLET_SESSIONS` and in the database |
| `pending_utxos` | `PENDING_UTXOS` |
| `send` | where the command is, with what it built |
| `tip`, `pool` | the chain (module `Ledger`) and `TX_POOL` |
| `made`, `sent`, `failed`, `here` | history of the transactions built |

| Action | Code |
|---|---|
| `Load`, `LoadFails` | `handle_load_wallet_internal` of `lib.rs`: one step, because its awaits are over synchronous calls of the addon; it ends with the wallet scanned and stored, or at one of its error returns (wallet not found, blocks not readable, not stored) |
| `Build`, `ToPool`, `SendFails`, `Sent` | the worker's `createTransaction`: build and reserve, pool, publish, save |
| `Extend`, `Reorganise` | a block; `atomic_reorg`, which takes the tip back and scans the new branch in every open session |
| `FromNetwork`, `Restart` | a transaction of another node; the node restarts |

* `NoCoinOfferedTwice`: a transaction this node built and did not give up keeps
  its coins out of reach of the next one while the pool holds it, also after a
  load from a database that still lists them and after a reorganisation that
  puts them back. `ReservationInvariant` is why: what was built is reserved,
  and no two such transactions share a coin.
* `WholeWalletsAreReplays`: a wallet without gaps owns what a replay of its
  blocks leaves it, up to the coins it has tried to spend.
* `OnlyReorgsLeaveGaps`: while the chain only grows, no wallet misses a block.
* Violated: `SyncedWalletsKnowTheirCoins`.

What the module shows besides: `workerState.wallets` is always empty (the only
code that fills it, `handleLoadWallet`, `worker.js:4131`, is no longer called),
so the scan loops of the worker do nothing and a loaded session does not follow
new blocks; the worker calls `wallet_session_get_balance`,
`wallet_session_open`, `wallet_session_clear`, `clear_utxo_set` and
`process_block_for_recovery`, which the core does not export, so every send
reports an error although it was saved; a failed send removes its inputs from
the session, and a later save makes that permanent; reservations are never
dropped on confirmation; coins spent in detached blocks do not come back. A
reorganisation changes the sessions and stores none of them: the wallet in the
database stays on the old branch, and a load after it finds the wallet as high as
the tip, scans nothing and logs "already fully synced" while the coins of the
new branch are missing.

### The messages

**`WireSchema`** is the table of the 78 classes of `p2p_pb.cjs` with number,
name, type, rule and oneof of every field, read off their `encode` functions.
**`WireCodec`** gives such a table meaning: `Encode`, `Decode` and `Verify` of a
class over those of the classes of its fields. The table is a constant, of which
it assumes what protobuf demands (`SchemaAssumption`). A JavaScript value is its
form (a number, a `Long`, a `BigInt`, a string...), a number that stands for its
contents, and the properties of its own; an absent property has no values, an
array has several. What travels is a sequence of items with the number of a
field. `Limit` is what fits the two types of numbers, `Depth` bounds how deeply
messages nest. The recursion over the classes is a function (`Codec`), and so is
the loop over the fields and the items.
**`Wire`** sends an object of a class (`SendObject`, for the direct streams and
the threads) or the payload of a topic (`Publish`), lets a later version of the
class have put a field this one does not know at any place among the items, and
decodes what arrives.

* `ArrivesAsSent`: decoding gives back what encoding was given, whatever a later
  version has added. Objects that
  `verify` refuses, and numbers that do not fit, are exempt, for `encode` checks
  neither.
* `CanBeSentOn`: what was decoded verifies, fits and can be encoded again.
* `OnlyRustNamesAreLost`: whatever is sent, also what `verify` would refuse, each
  property that is a field of its class reaches the receiver
  (`OnlyUnknownNamesAreLost`); and of what the node publishes, through any of the
  19 publishers, everything is a field of its class, except in the five messages
  that hand over an object of the Rust core under the names of its struct
  (`channel_id`, `swap_id`...: the proposals of channels, payments and swaps, the
  answers to payments and swaps, `worker.js:3106`, 3214, 3550, 3642, 3710). Of
  those only the fields of one word arrive, without an error at either end,
  although `p2p.proto:5` calls itself the contract for all messages.

## 4. The runs

| Run | Question | Bounds | Distinct states |
|---|---|---|---|
| `chain_honest` | is everything the replay's, is no stale plan applied, is `Ledger` implemented? | 8 blocks: forks one block deep (`b3`, `d2` and what follows it) and two (`d4` against `a3`); rival and chained payments; maturity 2; side cache 2, pool 1, 2 waiting plans, no crash | 571 thousand |
| `chain_crash` | is the database a chain after any crash, does the memory follow it, and is the proof's invariant one? | the same tree, 1 plan, 1 crash anywhere, all operations at either side of the restart | 1.26 million |
| `chain_refuses` | is a heavier chain adopted? (no) | the same tree, 1 plan, no crash | |
| `chain_unsound` | is every canonical block valid? (no) | one block of the fork does not verify | |
| `sync_rounds` | do rounds exclude each other, protect the download, keep the pause, and end or hang where they may? | 3 rounds at once, 2 attempts, breaker at 2 failures | 1064 |
| `worker_rounds` | is the mutex a lock, are its sections alone, is the miner remembered, do calls end? | 2 block handlers, 1 start beside the inner one, height 1, 1 reorganisation | 182 thousand |
| `worker_self_wait` | does the miner start again after a reorganisation? (no) | the same | |
| `block_fetch` | are slots counted, is no hash forgotten, does the call return or a stream stay silent? | 3 hashes, 2 peers, 1 slot per peer, 2 attempts, 1 gossip message | 302 thousand |
| `hash_sync` | has a completed call caught up, is a list one peer's, does the call end or a batch hang? | 2 peers, branches to heights 3 and 4, chunks of 1, limit of 2 hashes, batches of 1, 1 move of a chain | 743 thousand |
| `wallet_sessions` | is a coin in flight ever offered, does a wallet without gaps own its replay? | the tree of the chain with a wallet's coins, pool 2, 2 reorganisations, 1 restart | 319 thousand |
| `wallet_skips` | does a synchronised wallet know its coins? (no) | 1 reorganisation, 1 restart | |
| `wire` | does every message arrive as sent, and which names are lost? | all 78 classes: empty, each field, all fields, all but one, two members of a oneof; all 19 calls of publish; limits 4 and 8; one unknown field anywhere | 13 thousand |

Why the bounds are enough:

* *Chain.* A fork at the tip, a longer one below it and one that asks for two
  blocks make every path of `atomic_reorg` run: the refusals of Phase 1 and of
  the detach loop, a detach that gives back an output and a coinbase, attaches of
  one block and of several with payments that conflict and chain; a cache of two
  evicts blocks a plan needs; two plans make one stale; a pool of one is full
  after one transaction; a crash is possible between any two writes.
* *Rounds.* Three rounds are one in progress, one that skips and one that
  starts after it; a breaker at two failures lets a pause, a second failure and
  each way to give up happen.
* *Worker.* Two handlers and a start make a queue of three; one reorganisation
  makes a candidate stale and a candidate far ahead of the tip.
* *Fetch.* Three hashes over two single slots make the round robin wrap and
  wait; with two attempts a temporary handler of the first is still there in the
  second.
* *Hashes.* Chunks of one make several chunks of a list; a limit of two cuts
  the longer branch; one move lets a peer's chain change under the walk, or the
  node's under the list.
* *Wallet.* Two reorganisations go there and back; one restart separates
  session from database.
* *Messages.* Every class is used and every field of it alone, beside all others
  and as the only one missing. The codec treats the fields one after another, so
  two wrong fields are two wrong samples. The limits are small because TLC's
  numbers are; samples lie below and above them.

Bounds that are not in the code: `MaxPlans`, `MaxCrashes`, `MaxReorgs`,
`MaxRestarts`, `MaxHeight`, `MaxMoves`, `Arrival`, guards of the actions they
limit, and the sets of calls that can be pending at once (`Rounds`, `Handlers`,
`Starters`). `hash_sync` and the wallet runs turn the deadlock check off: there
the call has ended, or the bounds are used up.

### What the violated properties show

* `chain_refuses`: the detach loop of `atomic_reorg` compares each block with
  `working_tip_hash`, set at `lib.rs:3234` and not moved in the loop. The first
  block passes, the second cannot. A node on `a3` that hears of the longer `d4`
  plans to detach `a3` and `a2`, writes the recovery marker (3223), is refused
  with "hash mismatch" (3247) and stays where it is; the marker stays on disk,
  although the comment at 3528 says that a reorganisation that fails before its
  commit must clear it. The worker reports the error and goes on; it plans the
  same again with the next block of the fork.
* `chain_unsound`: a side block is stored unvalidated and `atomic_reorg`
  attaches it unvalidated.
* `worker_self_wait`: `worker.js:2039` awaits `startPoSTMining` inside the
  mutex that function acquires first. No later block is handled.
* `wallet_skips`: step 4.3 of `atomic_reorg` scans the new branch into every
  open session; a session that was behind the fork counts as synchronised
  afterwards, and "load" skips the blocks below. The next payment writes that
  session to the database (`worker.js:4244`); until then a load that reads the
  stored wallet again mends it.

### Other disagreements the models contain

They are in the actions, at the lines named, without a run of their own:

* The recovery at start-up passes a decoded `Long` to the native `loadBlock`
  (`worker.js:785`), which throws; the error is logged and the node starts with
  the half-moved ledger (`Restart` of `ChainState`; `chain_crash` therefore
  checks the database and not the outputs).
* A payment whose inputs name a `source_height` of another branch is restored
  by a detach only when the canonical block at that height created it; nothing
  checks the height before. The ledger proofs assume the heights are right.
* When a requested parent arrives and extends the tip, no code looks for its
  waiting children.
* The retry after an unanswered question finds the status CONSENSUS its own
  round left (`worker.js:2414`; the comment at 2436 asks for it to be reset
  first, at another exit) and is skipped, so the branch for `MAX_ATTEMPTS` is
  dead; an empty hash list, or the last try with a bootstrap peer, leaves
  DOWNLOADING behind. No further round starts until the user retries by hand.
* The fork choice weighs the subtrees of the two tips (`lib.rs:2992`) and not the
  branches below them. As only forks one block below the tip can win, what
  loses is one block and no work is lost; a deeper detach would let the chain
  lose work.
* The tip of a heavier fork that is not longer is put off by the `isSyncing`
  flag its own round set (`TipHandled`).
* A first attempt without peers schedules no retry (`TimerFindsNobody`); a
  pause that ends with nobody connected leaves `isSyncing` set; a missing tip
  leaves `globalMutex` held (`TipMissing`).
* A silent direct stream holds a fetch, its batch, the call of `syncForward` and
  the round (`worker.js:1161`), although the comment at 1217 promises resilience
  against a single peer; the liveness properties name it as the exception.

## 5. The proofs

TLAPS checks every theorem for every value of the constants that satisfies the
assumptions of its component.

*Assumptions.* For the chain and the wallet: `TreeAssumption` and
`BranchAssumption` (a finite tree by parent links; a branch is the branch of the
parent and one block more), `TxAssumption` (types), `ReplayAssumption` (one
equation per block), and the types of the parameters of `ChainState` and
`Wallet`. For the messages: the table is a schema (`SchemaAssumption`), the
limits are positive (`LimitAssumption`), and what is sent is made of JavaScript
values (`ObjectsAssumption`). TLC evaluates all of them on every instance. Some theorems have
hypotheses of their own besides; they are named where they are used below.

*Data (`BlockTreeProofs`).* What the other proofs need of trees and sums is
derived. The induction theorems of the library take a property as an operator,
which the provers cannot instantiate; here a property is a set, and induction
over naturals (`SetInduction`), intervals (`RangeInduction`),
finite sets (`SubsetInduction`) and the tree (`TreeInduction`)
come from the library's theorem on minimal elements. `RangeRecursion` gives the
function that a recursion over heights defines;
`SumIsTheFold` shows the fold behind `TotalWork` and `TotalFee` to be a sum,
`TreeSums` says what it satisfies, and `BranchFacts` what a branch is: its
blocks have the heights they stand at, and a lower part of it is a branch.

*The chain (`ChainStateProofs`).* `DatabaseHoldsAChain` is not inductive: the
commit of a reorganisation is only right when the plan it runs is. The
strengthening `ChainInvariant` adds that every waiting plan and the running
reorganisation name two branches that really part at their ancestor (`Part`),
and that the tip in memory is the one on disk except while a block is being
saved. The interesting steps are:

* `ForksBelowTheTip`: a fork that grows from the tip can never win, because
  the tip's subtree contains the fork's and one block more; hence every plan
  detaches something. This is where the fork choice enters a safety proof.
* `FittingPlans`: a plan whose detach list matches the height keys was made
  for the current tip, because that list is not empty and ends in the old tip.
* `CommitFacts`: the batch leaves exactly the branch of the new tip and
  deletes none of its blocks.

No assumption is made on the blocks: they may be invalid, and any number of
crashes may happen. Consequences: `TypeCorrect`, `DatabaseCorrect`,
`PlansAlwaysDetach`, `NoStaleReorg`, `FeeTotalCorrect`. `MemoryCorrect` adds one
conjunct, `WorkIsSaved`: the `total_work` in the database is the one in memory
except between the writes of one call, so it is also what a restart reads.

*The ledger* (the second half of `ChainStateProofs`). Here every block is assumed honest
(`HonestTree`: valid on its parent, fresh outputs, source heights on its own
branch) and `MaxCrashes = 0`; the violated runs show that neither can be
dropped. `DetachOne` and `AttachOne` say what one block does, and `OnlyTheTip` that the
detached one is the tip;
`LedgerInvariant` adds `ReorgFollowsTheBranches`, which says where a running
reorganisation is. Consequences: `UtxosCorrect`, `WorkCorrect`, `ReorgCorrect`
and `ChainImplementsLedger`: `ExtendCanonical` is an `Extend`, `CommitReorg` a
`Reorganise`, and every other step, a refusal among them, a stutter, because the visible ledger of
every reachable state is the one of the tip.

`CoinbasesCorrect` is about the two copies of the coinbase index. A detach takes
the outputs of the old branch out of the index and puts back the coinbases it
spent, in loops of their own after the outputs have moved, so its invariant
(`CoinbaseInvariant`, `IndexedTo`) says what the index holds of each coin while
the loops run. It needs two hypotheses more: no branch creates a commitment
twice (`OutputsBornOnce`; commitments are random points, and with a coin born
twice the detach of the later birth would forget the earlier), and a
transaction without inputs is a coinbase (`OnlyCoinbasesLackInputs`; the pool
admits none without inputs, so a miner's only one is its coinbase). The second
one is not checked by `add_block`, and it matters: `atomic_reorg` recognises the
coinbase it restores by its missing inputs and `add_block` also by its fee.

*The rounds (`SyncStatusProofs`).* `SyncInvariant` adds to the three safety
properties which status belongs to which place of a round, and that no
download runs with the breaker open. `OthersIdle` is the key: a round that is
in progress, or that finds the status IDLE, is alone; so `MoveInvariant` has to
look at its own new place only. Proved, with the types, for any number of
rounds and any limits.

*The worker (`WorkerProofs`).* `MutexImplementsLock` is about the promise
chain alone, for any number of callers: `ChainInvariant` says that the places
of the unresolved promises are exactly 1 to their number, each held by one
call, which makes the queue of `FifoLock` well defined. `WorkerUsesTheMutex`
shows that every step of `NodeWorker` is a step of the mutex or leaves it alone,
so the lock carries over (`WorkerKeepsTheOrder`). `PlacesMatch` ties the await a
call is at to its promise; with it `CriticalSections`,
`OnlySyncMovesTheTipUnderAStart` and `NoSilentStop` are inductive.

*Fetching (`BlockFetchProofs`).* `SlotsAreKept` needs to know that a hash in
flight has a fetch and one that is not has none (`EveryHashHasItsFetch`), and
where the loop is while it fills; together with the types they are
`FetchInvariant`. Proved for any list of hashes and peers and any limits.

*Hashes (`HashSyncProofs`).* `OnlyTheAskedAnswers` rests on two facts about
messages: a chunk for a request is said at most once (`HeardOnce`) and a peer
that is over has said all of it (`SaidAtTheEnd`). `CompleteMeansCaughtUp` rests
on where the walk is: what lies before the current place of the list is the
node's (`Walking`), a branch that is the chain is stored (`ChainIsStored`), and
lists are not chosen before every request is settled (`Unasked`). Nothing is
assumed of the network beyond what the actions say, and nothing of the peers'
chains.

*The wallet (`WalletProofs`).* `ReservationInvariant` is inductive:
`Build` takes only coins that are not reserved, so what it reserves is disjoint
from what others have, and `SendFails` frees the coins of one transaction
only. `NoCoinOfferedTwice` follows. Both hold for every tree, whatever the
scans return.

The rest follows the scans block by block: `ScanRangeSteps`
turns the recursion over heights into a sequence of wallets, and the range
induction carries a property along it.

* `WalletTypesHold` also needs that a reorganisation parts from the chain at the
  parent of the tip (`ForkFacts`).
* `GapsCorrect`: until the first reorganisation both copies of the wallet, the
  session and the one in the database, are on the chain (`GrowthInvariant`), and
  a load scans from right above its height (`CaughtUpIsOnTheChain`).
* `ReplaysCorrect`: a block on top of a replay leaves a replay
  (`ScanKeepsReplay`). The removal of the detached block is the hard half
  (`RemoveKeepsReplay`): `remove_block_utxos` takes away what the block
  created and does not bring back what it spent. The first is right because
  nothing below created the same output (`OutputsBornOnce`), the second because
  what a block of the chain spends of the wallet the wallet itself has tried to
  spend (`MinedIsMade`, and `OnlyOwnersSpend`: only the owner has the key, and a
  transaction has one author). A session that was on another branch never
  reaches the fork and comes out with a gap, of which nothing is promised.
* `GrowingChainsHideNoCoins` puts the two together: while the chain has only
  grown, `SyncedWalletsKnowTheirCoins` holds. `wallet_skips` shows a
  reorganisation breaking it, in the session; so does the stored wallet no
  reorganisation reaches; the theorem says that nothing else does.

`ReservationInvariant`, `GapsCorrect` and the types have no hypothesis beyond
the assumptions; `MaxReorgs` and `MaxRestarts` are arbitrary.

*The messages (`WireProofs`).* The theorems are about every object of every
class and not about samples, and about every table that satisfies
`SchemaAssumption`: no class repeats a number or a name or contains itself.
TLC finds that the table of `p2p_pb.cjs` does.
`LevelEquation` and `CodecEquation` show that the recursive functions exist and
satisfy their equations; `ClassInduction` is induction over the nesting of the
classes, with a property given as a set.

* `CodecKeepsLevel`: a codec takes values and items of one depth to those of the
  same depth, so what is decoded is a value again.
* `ReadsTheFields`: after the items that `encode` wrote have been read, each
  field has exactly the elements its values were written as
  (`ReadItemsOfField`: the items of one field do not touch another), a packed
  list as one item, a list of messages one by one.
* `CodecIsFaithful`: what a class's `decode` makes of its `encode` says the same,
  verifies and fits, by induction over the classes.
* `SkipUnknown`: an item whose number no field has may stand anywhere.

`ArrivesAsSent` and `CanBeSentOn` are not inductive, because a later version may
have changed the wire after it was written. `WireInv` adds
`UnknownFieldsAreSkipped`: what is decoded is always what the items that
`encode` wrote are decoded to. `KnownFieldsArrive` is about names: of any object,
also of one that `verify` refuses, every property that is a field of its class
arrives, at every depth (`CodecConveys`), so that an unknown name is the only way
to lose one. Which of the names the node uses are unknown is a question about
the real table and the real publishers; `OnlyRustNamesAreLost` asks it and TLC
answers. The types (`WireTypesHold`) and the skipping
(`UnknownFieldsDoNotMatter`) are proved and not repeated in the run, whose
properties would show a field that is not skipped.

*Only model-checked:* liveness (`RoundsEndOrHang`, `CallsEnd`,
`OnlySilenceHangsTheBatch`, `SyncForwardEndsOrFetches`), which is beyond the
prover, and the names of the published fields.

*Fairness.* `ChainState` and `Wallet` are checked for safety only and assume
none. Elsewhere weak fairness is assumed of what the node does by itself, and
nothing of peers and of the network:

* `SyncStatus`: each round's pending timer or await ends (`Progress`): timers
  fire, requests for tips and hashes time out, a publish returns. Nothing is
  assumed for a round that fetches blocks or a tip (`Streaming`), because
  `fetchBlockDirectly` waits for its stream without a timeout, nor for one that
  needs `globalMutex` while that is stuck: `RoundsEndOrHang` names both.
* `NodeWorker`: each handler and each start that can go on does: publishes
  return or fail, an abort ends by its timer, resolved promises continue.
  Nothing is assumed of the mining thread and of new blocks.
* `BlockFetch`: the loop goes on and the timers fire (the wait for gossip, the
  pause before a retry). Nothing is assumed of gossip, nor of a stream: a peer
  may keep it open and silent.
* `HashSync`: `Ask` is made, a request times out, the walk goes on, except in the
  await of `fetchBlocksParallel`. That an answer arrives is not assumed.

## 6. Not modelled

* **Peer-to-peer node** (`libp2p-node.js`): the challenge of a new peer, bans,
  poisoned hashes, rate limits, the Dandelion stem. It decides which messages
  reach the worker, and the models take any message. It is the next module
  worth writing; reading it shows that `recordBadBlock` writes the old entry
  back over the ban it has just set (lines 165-183), so a ban ends at once.
* **Payment channels**: the code does not run far enough for a protocol to be
  checked. The worker calls `payment_channel_complete_open`,
  `payment_channel_accept_payment` and `payment_channel_complete_payment`,
  which are not exported; `handleChannelOpen` stores `NEGOTIATING` where
  `handleChannelAccept` wants `PROPOSED`; `accept_payment`
  (`payment_channel.rs:1617`) and `aggregate_partial_signatures` (1248, 1330)
  verify against the parties' public keys what was signed with a kernel
  blinding, so every payment and every funding fails; the wrappers of payment,
  unilateral close and penalty (`lib.rs:1579`, 1685, 1723) return no channel, so
  their change is lost; the first commitments spend a placeholder of zeros.
* **Atomic swaps**: the kernel of `bob_claim` takes the completed signature as
  its blinding, so the claim cannot balance, and `handleSwapRespond` takes
  Alice's timeout for Bob's.
* **Block validation** is one bit per block for all that `add_block` decides
  from the block alone; **consensus arithmetic** and **cryptography** are behind
  that bit.
* **Chain state**: block filters and wallet files written by the same calls;
  pruning; `force_reset_to_height`, which no caller reaches with arguments it
  accepts.
* **Wallet**: creation and restoration; amounts, fees and change are choices of
  coins; the JSON is one value.
* **Messages**: `fromObject`, `toObject` and the delimited forms of the codec,
  which the node does not use; the Rust side of the types.
* The scores of peers in `syncForward` choose among peers and change no list.
* The command `retrySync`, which forces the synchronisation state back while
  rounds may be running: `ExclusiveSync` does not hold after it.
* User interface, explorer, bootstrap server and operator tools keep no
  protocol state.
