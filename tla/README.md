# navexplorer-indexer-go in TLA+

The indexer follows a navcoin node (navcoind), turns each block into documents and stores them in Elasticsearch for a
block explorer. This directory models it in TLA+, checks the models with TLC and proves some of what they promise with
TLAPS. All line numbers are in `PROJECT.json` (`map`, `hazards`, `findings`), which pairs each definition with the code
it stands for.

## The system

One process (`cmd/indexerd`, `internal/daemon`) between two services it does not control:

    navcoind --- ZMQ "a block" --> subscriber --> indexer.SingleIndex -+
       ^                                                               v
       +--- RPC GetBlock, GetAddressHistory, ... <--- block / address / softfork indexers
                                                                       |  requests, keyed by slug
                                                         elastic_cache (request cache)
                                                                       |  bulk requests   searches, DeleteByQuery
                                                                       v                     v
                                                                Elasticsearch: stored  ->  searchable after a refresh

`daemon.Execute` runs `initialize` (indices, soft forks, consensus parameters), `rewind`, `bulkIndex` if
configured, and `subscribe`, and a process that meets an error it does not expect ends (`zap.L().Fatal`); whatever
supervises it starts it again, from what Elasticsearch holds.

| Component | State | Operations | What makes it correct | Module |
|---|---|---|---|---|
| Daemon (`internal/daemon`) | none of its own; where start-up stands | `rewind`, `bulkIndex`, `subscribe`, `targetHeight` | repairs at start whatever a kill left behind | `Indexer` |
| Indexer (`internal/indexer/indexer.go`) | `height`, `target` of the recursion | `SingleIndex`, `Index`, `index` | every block once, in order, on its parent; follows branch switches | `Indexer` |
| Rewinder (`internal/indexer/rewinder.go`) | the first search's answer across retries | `RewindToHeight`, `checkBlock` | afterwards the index is one chain that ends at the height, and its top the last block | `Indexer` |
| Block service, repository, orphan detection (`service/block`) | `lastBlockIndexed` in a shared in-memory cache | `Get/SetLastBlockIndexed`, `GetBestBlock`, `IsOrphanBlock` | the cached block is the top of the index | `Indexer`, `Chain` |
| Block indexer (`service/block/indexer.go`, `factory.go`) | the block, header and transactions of the last block; supply | `Index`, `indexPreviousTxData`, `updateStakingFees`, `updateSupply`, the factory | linked blocks; transactions, marks of spent outputs, fees, cycles and supply agree with the chain | `Indexer`, `Transactions`, `BlockFactory` |
| Elastic cache (`elastic_cache`) | requests by slug, expiring after 5 minutes | `AddRequest`, `Save`, `Persist`, `BatchPersist`, `DeleteHeightGT`, `ClearRequests` | what was requested is stored, nothing deleted survives | `ElasticCache`, `Indexer` |
| Soft forks (`service/softfork`, `.../signal`) | the `SoftForks` list of the process, signal documents | `InitSoftForks`, `Index`, `Rewind` | locked in only by signals of the indexed chain | `SoftForks` |
| Addresses (`service/address`) | address cache of the bulk run, history and address documents | `Index`, `Rewind`, `ClearCache`, `ResetAddress` | each address agrees with its histories, and those with the chain | `Addresses` |
| Consensus parameters (`service/dao/consensus`) | the parameters, in the same shared cache | `InitConsensusParameters`, `GetConsensusParameter`, `Rewind` | the cached parameters are the stored ones, and known when a block is indexed | `Consensus` |
| DAO proposals, payment requests, consultations, votes (`service/dao`) | lists of open items | rewind; indexing is commented out in `indexer.go` | - | not modelled (dormant) |
| Subscriber (external: `github.com/navcoin/subscriber`) | - | a ZMQ message starts `SingleIndex` | one message is enough to catch up | `Indexer` (`message`) |
| Configuration, dependency injection, logging, `balance_fix.go` | - | - | - | not modelled |

Hard to test, and what the models are for:

- **Kills.** A bulk request stores its documents one by one, a batch may take several bulk requests, and a `DeleteByQuery` removes
  documents one by one. A kill leaves any part done. The process has no journal: it relies on rewinding `ReindexSize` blocks at start.
- **Branch switches.** navcoind may switch branches between any two calls. Blocks are checked against their parent only in `SingleIndex`.
- **Refresh.** Every search and `DeleteByQuery` sees Elasticsearch as of its last refresh; the code refreshes nowhere and sleeps in some places.
- **uint64 heights**: two subtractions of `ReindexSize`, one of them unguarded.
- **Caches**: requests in memory, a cache shared by block service and consensus service which the address rewind flushes, updates of documents that a rewind may have deleted.
- **Replays**: soft forks are reset at each rewind and recomputed from stored signals, along other lines of code than those that computed them first.

## Modules

- `Chain`: a block is the sequence of branch marks from height 1, so that equal blocks are those with equal hashes, and
  `Previous`, `BlockAt` and `Ancestry` need no search. `Clean` and `Anchored` say how far a set of blocks is one chain.
- `Indexer`: the main line. `pc` is the place in the code between two calls that another system can come between:

  | `pc` | code | actions |
  |---|---|---|
  | `down` | not running | `Start`, `Reindex` (a run with REINDEX) |
  | `boot`, `reload` | `daemon.rewind` before and after `RewindToHeight` | `RewindAtStart`, `ReloadBestBlock` |
  | `rewind`, `delete`, `check` | `RewindToHeight`, `DeleteHeightGT`, `checkBlock` | `RewindAddresses`, `RewindRefused`, `DeleteBlocks`, `CheckBlock` |
  | `bulk`, `flush`, `verify` | `daemon.bulkIndex` before and after `Index` | `StartBulk`, `FlushBulk`, `FinishBulk` |
  | `idle` | `subscribe` waiting | `SingleIndex` |
  | `fetch`, `build`, `persist` | `index`: the block is fetched and checked, built, persisted | `HeightOutOfRange`, `FetchBlock`, `PersistForPreviousTx`, `BuildBlock`, `PersistBlock` |
  | `orphan` | `Index` on `ErrOrphanBlockFound` | `RewindOrphan` |

  `phase` says whether that happens at start, in the bulk run or after a message. `store` is what Elasticsearch has acknowledged and
  `view` what it lets a search see. A search at one of the `Sites` is made from `view`; at those outside `LagSites` it waits for the refresh (`CanSearch`). `pending` is the request cache. Around it are `Extend` and `Reorg` (navcoind), `Refresh`
  (Elasticsearch) and `Crash`, which leaves any of `Leftovers`.
- `BlockIndex`: the abstract specification. An index is a trunk (one linked chain from height 1) and debris
  (blocks above it with a gap below). Debris is bounded, and the trunk does not grow before it is gone. `Indexer` implements it
  with `trunk <- Trunk(store)`, the longest clean block, and `debris <- Debris(store)`, the distance from there to the highest block.
- `IndexerInvariant`: the inductive strengthening, one conjunct for each thing the process knows at each `pc`.
- `ElasticCache`: the request cache. `cache` holds a request (type, contents, age) per document, `sending` what `Persist` has read
  from it and not sent. `AddRequest`, `Persist`, `SendPart` and `FailPart` (a part of 100 is stored, or fails and ends the process with any of its
  documents stored), `Save` with `SaveSucceeds` and `SaveFails`, also of a document whose update waits (an address with two histories in one block, which the search does not find yet; at `replace` the caller goes on to
  request it again), `Tick` (the clock, after which old requests are dropped), `ClearRequests`, `DeleteHeightGT`, `Kill`. `wanted`
  remembers what callers count on. It treats as part of a module what the other modules use as a single step.
- `BlockFactory`: what the code computes from one transaction (`Type`, `Wrapped`, `Private`, `Fees`, `Stake`, `StakedBy`, ...) and
  adds to its block (`CreateBlockTransaction`, `CreateBlockCycle`, `UpdateSupply`), as operators. An output has the value navcoind answers and the coins it
  really `holds`, which for a private output is not its value (0).
- `Transactions` is the state machine around it: `FetchBlock`, one `IndexPreviousTx` per input (from the request cache, or else from
  Elasticsearch as of the last refresh), `IndexTransaction`, `FinishBlock`, `PersistForPreviousTx` (a search failed: everything requested, the unfinished block
  included, is persisted), `Persist`, and start, rewind and kill as in `Addresses`. `docs` are the transaction documents, each with its redeemed outputs.
  `TransactionsInvariant` is its invariant in inductive form. Its last part values the outputs (`PublicValue`, `WrappedValue`, `HiddenValue`) and adds up what a
  transaction makes less what it spends (`Net`).
- `SoftForks`: the state machines (`AddSignal`, `UpdateState`), the documents (`Signal`, and `Merged` for a partial update), batches, kills,
  and the rewind in its three steps (blocks, signals, replay). `bits` abstracts the block index to the versions of its blocks. `SoftForksInvariant` is its invariant in
  inductive form.
- `Addresses`: a transaction is the set of keys it touches and a balance the number of transactions that do. Histories, address
  documents, the request cache and the address cache, with the rewind in four steps. `seen` is `docs` as of the last refresh. A kill in a persist
  stores some of the requests, and one in a deletion deletes some (`DocsLeft`, `TopsLeft`). `AddressesInvariant` is its invariant in inductive form.
- `Consensus`: `stored` and `cached` parameters, the first run, a run with REINDEX, restarts, and a rewind, which flushes the cache it
  shares (`RewindAddresses`) before it sets up the parameters again. They are saved one by one (`SaveParameter`), with a `Kill` between any two.
- `MC...`: values of the constants for TLC. `IndexerProofs`, `IndexerRefinement`, `AddressesProofs`,
  `ElasticCacheProofs`, `ConsensusProofs`, `SoftForksProofs`, `TransactionsProofs`, `SupplyProofs` (which begins with lemmas on finite sums and remainders): the proofs.

`Indexer` is composed with the others by what it shows: the block index grows at its top, is cut back by a rewind, and every
start begins with a rewind unless it is empty. `SoftForks`, `Addresses`, `Transactions` and `Consensus` start from that and do not repeat it. They use
`ElasticCache` by what it shows: unless requests expire, a persist stores what was requested or ends the process.

## Runs

| Run | Properties | Shows |
|---|---|---|
| `safety` | `TypeOK`, `AlwaysAnchored`, `IdleIndexIsOneChain`, `IdleLastIsTop`, `IndexInv`, `RepairedBeforeGrowing`, `RewoundToHeight`, `RewindLeavesChain`, `BulkIndexComplete` | with the searches for an orphan, for what to delete and for the report before or after the refresh: no kill or branch switch leaves a gap the next rewind does not remove (but see `late`), and no rewind ends with anything but one chain |
| `liveness` | `Recovers`, `CatchesUp` | the process always comes back, and a message makes the index follow navcoind |
| `elastic_cache` | `TypeOK`, `NothingIsLost`, `UpdatesFindTheirDocument`, `NewestWins`, `CallsReturn` | requests, saves, parts, failures, expiry, deletions and kills: what is handed over is stored or waits, or the process is over |
| `transactions` | `TypeOK`, `TransactionsMatchChain`, `SpentIsMarked`, `UpdatesFindTheirDocument`, `FeeGoesToStaker`, `SupplyIsUnspent`, `PrivateSupplyIsHidden`, `MoneyIsConserved`, `BlockCycleFollowsHeight` | blocks with staking, private, wrapped and community fund transactions through bulk run, persists inside a block, rewinds and kills |
| `softforks` | `TypeOK`, `LockInIsEarned`, `CountsAreReal`, `StoredStateMatches`, `RewindReplays` | two soft forks through batches, kills, rewinds and replays |
| `addresses` | `TypeOK`, `HistoryIsComplete`, `AddressIsLatest`, `MultiSigBalance`, `AddressIndexComplete`, `AddressesAreReset` | with and without a bulk run whose last batch is not full |
| `consensus` | `TypeOK`, `CycleLengthKnown`, `CacheIsStored`, `RewindCompletes` | first start, reindex run, restarts and rewinds with a kill between any two saves |
| `stale_best`, `large_batch`, `softforks_boundary`, `addresses_flush`, `consensus_passed` | one each, violated | see the findings |

Each property of a passing run has a mutant in `PROJECT.json`, a plausible bug under which that run fails.

### Bounds

- `ReindexSize` and `BulkIndexSize` are 2 in `Indexer`: a batch then has a first, and a last block, two batches fit below
  `MaxHeight` = 6, and a rewind may end inside one. `MaxReorgDepth` = 3 is deeper than one rewind, so that the recursion of `Index` runs twice.
  Two branch switches let navcoind come back to a branch it has left (`BranchesReturn`), and two kills cover a kill in the repair of a kill.
- `WordSize` = 16 stands for 2^64: more than twice any height, so that an underflow is recognisable, as it is in uint64.
- `liveness` starts with a chain of 4 blocks (`InitHeight`) and `safety` with one. In the first heights an orphan makes the unguarded
  subtraction underflow, and `checkBlock` waits for a block near 2^64: safe, so that `safety` includes it, but not live. The real chain passed these heights long ago.
- `CycleLength` = `VotingLength` = 3, `Quorum` = 2 in `SoftForks`: a cycle may reach the quorum with a block to spare, and `MaxHeight` = 11 is the first
  height at which a soft fork can become active after the signals began (locked in at 8, active at 11).
- `FinalHeight` in `SoftForks` and `Addresses`: the blocks at the bottom which do not signal and touch nobody, high enough that the start's rewind, a kill and
  one more rewind do not empty the index. An emptied index is discussed below. No orphan is found among them in `SoftForks`.
- `transactions`: five blocks, the first two final, and two to five choices for the others, among them a transaction that spends an
  output of its own block, one that wraps coins again which were wrapped next to hidden ones, and one that gives hidden coins to the community fund. `ReindexSize` = `BatchSize` = 2 and a bulk run to 3, so that batches end inside the chain and a rewind can take any
  choice back. `WordSize` = 64 is more than all coins there are, and amounts are chosen so that different sums differ. The cycle has 3 blocks.
- `addresses`: blocks of at most two transactions (`MaxTxs`), two addresses and a multi signature, batches and rewinds of 2 and a bulk run to 3, so that its
  last batch is not full and begins below what is persisted.
- `elastic_cache`: three documents, two of them of one height, in parts of two: a persist may take two parts and fail in either. Requests expire
  after 2 ticks, with 3 attempts to save. Contents go up to 3: index, update, update.
- `consensus`: heights up to 4 with rewinds of 2, from an empty index or one of height 3. All 28 parameters of mainnet, with amounts of NAV in units of
  10000 satoshi, which fit TLC's integers. Two consultations, one of them above the height of some rewinds.
- Deadlock is not checked: the process legitimately waits for a message at `idle`, and all environments are bounded.

### Assumptions

- Searches come after the refresh except at `LagSites`. In `safety` these are the ones that follow a write at once: "orphan" (the height of the rewind when `Index` meets an orphan), "delete"
  (what `DeleteHeightGT` deletes) and "report" (the end of the bulk run). The searches at a start come after the time a process takes to start and a sleep of five seconds. That of `checkBlock` is the finding `stale_best`.
- A rewind whose height was searched for before the refresh goes further down than the stored blocks suggest, and a kill in the middle of it may leave a gap that the next start does not
  reach. The history variable `late` records such a rewind, and the kill in it; the invariants, and the refinement, are about indexes that are `Intact`: not torn (below), and not killed in a late rewind.
- A batch takes less than five minutes, after which `go-cache` drops a request, except in `ElasticCache`, where `NothingIsLost` shows that expiry
  is the only way to lose one. A search does not fail, except in `PersistForPreviousTx`. REWIND_TO_HEIGHT is not set,
  as it is an operator's one-off; with it set `checkBlock` may wait for ever (see the hazards).
- In a bulk run nothing compares a block with its parent, so that a branch switch during it may tear the index. The history variable
  `torn` records it; the safety properties are about indexes that are not torn. Nothing in the repository claims more.
- `SameCycles` in `SoftForks`: the voting cycle of the blocks, at whose end indexing updates the states, is as long as the soft fork cycle, at whose end the replay does. So it is on mainnet (20160). On testnet
  the voting cycle has 800 blocks (see the findings).
- In `Addresses`, navcoind answers for the chain that is indexed and the histories of a block are applied in order. In `SoftForks` the set of names
  navcoind reports is fixed. The filter for active soft forks in
  `softfork.Index` is kept in `NewSignals`, although a soft fork cannot become active with a block that signals it when a cycle has two blocks or more.
- In `Transactions` a block begins with its only coinbase, what it spends are outputs there are, and no two blocks of a chain share a transaction. The second transaction of
  a block with private transactions stakes it (`applyPrivateStatus` names `block.Tx[1]` as the one that redeems the fee), and an OP_RETURN output is never spent (`FeeAssumption`). No output is spent twice, a transaction with hidden coins balances (it pays its fee in an output), an output that
  wraps is a script of its own and not an OP_RETURN, and the first block has one transaction of public coins (`MoneyAssumption`). A contribution is an "OP_RETURN OP_CFUND" output of known value, a transaction with hidden
  coins that wraps none ends with its fee, the only one it has, and a block above `PrivateHeight` is staked by its second transaction, which is public, and has a coinbase that only pays out from the community fund
  (`BalanceAssumption`, which only `MoneyCorrect` uses). `PrivateHeight` is above 0.
- In `Transactions` the blocks of the first batch are final and indexed by a bulk run: with `BULK_INDEX` off a process that indexes the first
  block ends at `updateNextHashOfPreviousBlock`. The transaction and the block index are refreshed together when `checkBlock` ends its wait. `SpentIsMarked` is for searches
  after the refresh: one that meets an older document writes its outputs back as they were. Fees of a
  public transaction are a uint64 difference, which underflows if wrapped coins become private; no such transaction is among the values.
- In `Consensus` a kill at the first start leaves a prefix of the parameters, which later starts take for all of them until a rewind. A passed consultation has been stored by a
  build that indexes the DAO. `GetPassedConsultations` asks with "should" clauses, so that its height is no condition.
- `Crash` covers every `Fatal` caused by a failed call to a service. It may happen `MaxCrashes` times, at any point.

### Fairness

`liveness` assumes weak fairness of `Refresh` (Elasticsearch refreshes every second by default) and of `Process`: the process
is one thread of control which always runs, and so is its supervisor, which starts it again. There is no fairness of
navcoind or of kills, and none for a particular action of the process: at each `pc` the code decides. The exceptions are points with two enabled actions of the process
(`PersistForPreviousTx` beside `BuildBlock`, `RewindRefused` beside `RewindAddresses`), of which the first can only be taken once in a row and the second ends the process.

`elastic_cache` assumes weak fairness of `Answer`: a bulk request or an attempt to save returns, with success or not. That a call ends
then rests on the count of attempts and on the parts becoming fewer, not on any attempt that succeeds.

## Findings

Each is a run that TLC ends with a counterexample, for a property quoting a log message or setting of the repository.

1. `stale_best`: `checkBlock` calls itself until the best block has the right height, but each outer call then still sets the block its own search had returned.
2. `large_batch`: `.env.example` sets REINDEX_SIZE 10 and BULK_INDEX_SIZE 50. A kill in the bulk request of a batch then leaves a gap below the height of the next rewind.
3. `softforks_boundary`: the replay stops when a cycle starts at the rewind height, and drops the signal of that block.
4. `addresses_flush`: a `Persist` in the middle of a batch empties the request cache from which the addresses of the batch are read.
5. `consensus_passed`: the rewind assigns the answers of passed consultations to the loop's copies of the parameters, and saves the initial ones.

Met while modelling, and visible in the models, without a run of their own:

- `DeleteHeightGT` deletes what a search finds; the `Flush` request after it is built but never sent (no `Do`), and would come after the deletion. With "delete" in `LagSites` the newest block may stay above the height of the rewind.
  `safety` shows what comes of it: the process does not go on (`RewindLeavesChain`), because `checkBlock` meets that block after the refresh. It searches for ever, and the next start repairs the index: with
  `WriteLag`, `CatchesUp` is violated under the bounds of `liveness`.
- With "orphan" in `LagSites` the rewind goes deeper than `ReindexSize`, and a kill in the middle of its deletion may leave a gap wider than the next rewind. `AlwaysAnchored` without `late` is then violated, and so is
  `Recovers`: the height of the next rewind falls into the gap, and `checkBlock` finds no block there and searches for ever.
- With cycles of different lengths (`VotingLength` 2 or 5, `CycleLength` 3, `SameCycles` left out) TLC violates `LockInIsEarned` and `RewindReplays`: indexing and replay update the states at different heights, so that a soft fork
  that was locked in while blocks were indexed may come out of a rewind in another state. `TypeOK`, `CountsAreReal` and `StoredStateMatches` still hold.
- The replay of soft forks updates states with `end - 1`, indexing with `end`: an active soft fork comes out of some rewinds as locked in, until the next
  cycle ends. `RewindReplays` is therefore not about active ones.
- The reset of soft forks is stored by a partial update in which empty cycles and zero heights are omitted, so that the old ones stay in the
  document (`Merged`). A start with an empty block index, which replays nothing, takes them over. `StoredStateMatches` compares cycles if there are any.
- `ResetAddress` searches for the latest history right after deleting some. With `"history"` in `LagSites` it finds a deleted one, and `AddressesAreReset` is violated.
- With an empty block index nothing is rewound at the start: what a kill in the first persist has stored of soft forks and addresses stays (`LeavesBlock`).
- `updateStakingFees` writes to copies: the staking fee it computes is nowhere stored.
- `applyPrivateStatus` returns at once for a transaction that wraps, and leaves outputs it makes behind range proofs unmarked. A transaction that spends one of these, or public coins, and
  wraps in turn is then not taken for a private one although hidden coins are involved. The other way round, a public transaction that ends with an empty OP_RETURN is taken for a private one.
  Either makes every later supply wrong: TLC violates both supply properties with the transaction `rewrap` of `MCTransactions` if the condition on `Mistaken` transactions is dropped.
- `updateSupply` passes over an "OP_RETURN OP_CFUND" output before it asks whether its transaction is private: hidden coins given to the community fund stay in the private supply
  (`GivesHidden`). The two accounts of the block then disagree as well (`GivesPrivate`): the proof of `MoneyIsConserved` failed there
  before any run had such a transaction, and TLC violates the property with the transaction `gift` if `KeepsApart` leaves the condition out.

## Proofs

Proved for every value of the constants that satisfies `SizesAssumption` and `EnvironmentAssumption`:

- `TypeCorrect` (`IndexerProofs`): `Spec => []TypeOK`, without further assumption. It rests on the range of `rewindTo` (a difference modulo
  `WordSize`) and of `height` (never more than one above `MaxHeight`), which needs `ArgsOK` beside the types.

and, under `SafeSetting` (the searches of a start and of `checkBlock` come after the refresh, the others may come before; RewindToHeight not set; `BulkIndexSize <= ReindexSize`):

- `StaysAnchored`: `Spec => []AlwaysAnchored`; `IdleIsOneChain`: `Spec => []IdleIndexIsOneChain`; `IdleLastOnTop`: `Spec => []IdleLastIsTop`;
- `RewindReachesHeight`: `Spec => RewoundToHeight`; `RewindEndsInChain`: `Spec => RewindLeavesChain`;
- `BulkLeavesNoGap`: `Spec => BulkIndexComplete`.

`AlwaysAnchored` is not inductive: whether a kill leaves the index anchored depends on which requests are pending, and these on how the
process got where it is. `IndexInv` adds what it needs:

- `ControlInv`: which phases reach a `pc`, when requests are pending, how `height` relates to `last`, that there is no last block
  only with an empty index, that the answer `checkBlock` holds is a highest block, and that what a late search of a bulk run finds is still there;
- `ChainInv`: what is in the index at each `pc`. Before the rewind at start it is anchored; when it is about to be rewound
  what remains is one chain (`RewindKeepsChain`), and nothing is more than `ReindexSize` above its end (`RewindReady`) unless its height was searched for before the refresh; after it is one chain. While blocks are indexed
  (`Backlog`) the stored blocks and the pending ones together are the chain of the last block, and no height still pending was one
  at which a persist was due. From that and `MultipleInBatch` (among `BulkIndexSize` heights in a row one is a multiple of it) a backlog is
  never longer than `BulkIndexSize <= ReindexSize`, so that any part of it leaves an anchored index (`BacklogAnchored`, `LeftoversAnchored`);
- `HeightsInv`: the same for heights instead of blocks. It also holds of an index that a branch switch in a bulk run has torn, where `ChainInv` says nothing: a height may then have
  blocks of several branches, but none is missing, through any later rewinds and kills (`Filled`, `Gapless`, `BacklogFills`). `BulkIndexComplete`, which speaks of torn indexes too, follows from it.

`IndexInv` is proved inductive by `TypeNext`, `ControlNext`, `HeightsNext` and `ChainNext`, each with one step per action; `safety` checks it
with TLC. `IndexerProofs` begins with the facts about `BlockAt` and `Ancestry`.

`RepairsBeforeGrowing` (`IndexerRefinement`) proves under the same `SafeSetting` that `Indexer` implements `BlockIndex`:
`Spec => RepairedBeforeGrowing`. That a step leaves the trunk alone while there is debris needs more than `IndexInv`: a rewind or a kill in it removes some blocks, and
the longest clean block must not become a longer one. `LinearInv` says that the blocks of an index, debris included, are of one chain, so that removing some cannot
mend a gap. The lemmas are on sets of blocks: `CleanUnique` (one trunk), `TrunkShortened` and `TrunkExtended` (what removing and adding blocks does to it), `LeftoversStep` and `StoreSteps` (each
action that changes `store`, as a step of `BlockIndex`).

`ElasticCacheProofs`, for every set of documents with their heights, size of a part, number of attempts and expiry: `TypeCorrect`, `NothingLost`, `UpdatesFind`
and `NewestStays` (`Spec => NewestWins`). The invariant `CacheInv` adds to `NothingIsLost` and `UpdatesFindTheirDocument`, which need each
other, `ControlInv` (what is being sent or saved at each `pc`; what is sent is still to be flushed, or was flushed) and `OrderInv` (no request is older than what is stored, but for the document being saved, until its caller has replaced the request).

`AddressesProofs` proves `TypeCorrect` (`Spec => []TypeOK`) for every value of the constants of `Addresses`. The rest of it assumes a `SafeSetting` (searches
after the refresh, no persist in the middle of a batch, which `addresses_flush` shows to be needed) and `[][LeavesBlock]_vars`: a kill that
leaves no block at all leaves the address documents as they were. Without it a kill in the very first persist may store histories and no block; the next
start then has no best block, rewinds nothing, and the histories stay if navcoind has other blocks by then. Under both, for every set of blocks and addresses and every `BatchSize <= ReindexSize`:

- `HistoryCorrect`: `[]HistoryIsComplete`; `AddressCorrect`: `[]AddressIsLatest`;
- `CompleteCorrect`: `AddressIndexComplete`; `ResetCorrect`: `AddressesAreReset`.

`AddressInv` is inductive (`InvNext`, one lemma per action). What the two invariants say of a settled index must be said of every other point too:
while blocks are indexed the documents are right up to `top` (`PersistedInv`) and what waits brings them to the end of the chain (`RequestedInv`); elsewhere
they are right up to the height of the next rewind, and every address above it is going to be reset (`RewoundInv`). A kill in a persist leaves anything
between, but all of it above `top` (`PartWritten`), and the next rewind goes at least as far down, as a batch is no longer than a rewind (`KillTarget`).
`ExactLower` and `RightLower` say that what is right up to a height is right up to a lower one.

- `MultiSigCorrect`: `[]MultiSigBalance`, under both, without a bulk run (in which only the last block of a batch reaches `indexMultiSigs`, see the hazards), and if
  no block touches a multi signature twice (`OncePerBlock`; the search for the balance before would not find the one of the same block).

The balance is a sum over what a search finds, and not over what navcoind says. `SingleInv` therefore says that without a bulk run the histories of a multi signature are exactly the places at which a
block touches it, up to the height to which the others are complete, and that the balance of each is the number of places up to it. The one to be made finds them all (`RequestedOfMultiSig`, `LatestBalance`), as what is
requested is found first; `FoundBalance` carries that through a persist, and `MultiSigsLower` through a rewind.

`ConsensusProofs`, for every size of a rewind and set of consultations: `TypeCorrect`, `CycleLengthStaysKnown`, `CacheStaysStored` and `RewindsComplete`.
`ParametersInv` adds `FirstInv` (VOTING_CYCLE_LENGTH, the first parameter, is saved before any other, so that any part a kill leaves has it), `SharedCacheInv` (what the
shared cache holds at each `pc`) and `RewoundInv`.

`SoftForksProofs`, for every set of soft forks, length of a cycle, quorum, `BatchSize <= ReindexSize` and history of signals:

- `TypeCorrect` and `StoredMatches` (`Spec => []StoredStateMatches`), without further assumption;
- `CountsReal` (`[]CountsAreReal`), `LockInEarned` (`[]LockInIsEarned`) and `RewindsReplay` (`RewindReplays`), under `[]StartsClean`: a start with an empty
  block index finds no signals and no counts. Without it nothing is rewound at such a start, what a kill or a rewind to height 0 left in the documents counts
  again, and the theorems are false;
- `DeepStartsClean`: `[]StartsClean` holds if there are more final blocks than the kills and rewinds can take (`DeepHistory`, `FinalHeight > ReindexSize * (MaxKills + 1)`,
  as in `softforks`); `DeepHistorySafe` puts the two together.

`DataInv` is the inductive invariant. A soft fork `Fits` the first n blocks if its cycles are in order and count no more than those blocks signal (`CountsFit`), and either it is open
and no cycle but an unfinished one has a quorum (`OpenFits`), or a finished cycle had one and the heights are those of that cycle (`Earned`). That alone is not inductive: a rewind throws the
soft forks away and computes them again from the signals in Elasticsearch, so these must be those of indexed blocks (`Real`) and must be all there that matter (`Complete`). A signal is
stored only while a soft fork is open, so that the ones that matter are those of blocks before which no cycle had a quorum (`OpenThrough`).
While blocks are indexed the stored signals are complete up to `top` and with the waiting ones to the end; a kill takes the waiting ones, but the next rewind goes to `TargetHeight`, which
is not above `top` as a batch is no longer than a rewind. `DataStep` proves each action; `StepFits` says that a block leads from soft forks that fit to ones that fit, `ReplayFits` that a replay leads to such ones.

That the replay gives the soft forks the indexing gave (`ReplayIsMachine`) is an induction over heights, although the replay and `Machine` are recursive functions: the set of heights at which they agree contains the
first and with each height the next, and `SetInduction`, which speaks of a set and so needs no operator as a parameter, says it is all of them. Both are first
shown to be functions at all, by the same means (`ReplayExists`, `MachineExists`).

`TransactionsProofs`, for every set of transactions and of blocks at each height, sizes of a batch, a rewind, a word and a cycle, and number of kills:

- `TypeCorrect` (`Spec => []TypeOK`) and `CycleCorrect` (`[]BlockCycleFollowsHeight`), without further assumption;
- `TransactionsCorrect` (`[]TransactionsMatchChain`), `SpentCorrect` (`[]SpentIsMarked`), `UpdatesFind` (`[]UpdatesFindTheirDocument`) and `FeeCorrect` (`[]FeeGoesToStaker`), under
  `SafeSetting`: searches come after the refresh, or there are at least `ReindexSize + BatchSize` final blocks. The second is any chain that is older than its first blocks. Without it
  the theorems are false: when a process is killed after a rewind to height 0 and before the refresh, the next start rewinds nothing, and a late search may still meet what an earlier kill
  had left of a block which is not final. TLC finds it with two kills, if a transaction of block 3 comes back in block 4; `transactions` has one kill.

`Inv` is inductive (`InvStep`, one lemma per action). `Places` are the indexed transactions with their heights, those of the unfinished block included that are already requested. While blocks are indexed
(`IndexInv`), the documents are right for the places up to `top`, and `Now`, the documents as the process sees them through its requests, for all of them: each has its document, at its
height, with what it spends marked there. A kill writes any part of the requests, which is why the documents must be right twice: what is right in `docs` and in `Now` is right in any mixture
of them (`RightMixed`), because a legal chain spends no output twice (`Legal`) and so no mark of one transaction is the place of another's. What a kill leaves above `top` is no more than a batch above the chain (`ReachFact`),
within the next rewind. Only the first batch is not rewound, as there is no block: what is left of it is of final blocks (`LeftOver`), which come back as they were. A document rewritten for a mark
is found at the place where it was (`PreviousFound`), also by a late search, as no place changes its height but by a rewind, which waits for the refresh.

`CycleInv` and `StakerInv` say the same of all indexed blocks and the one under construction: that the cycle is that of the height (`NextCycle` is its arithmetic), and that the staker follows from the transactions of the block so far
(`StakerAfter`). `FeeInv` then says of every copy of a document, stored, requested or seen, that its fee is right for each block it may belong to: those that are indexed, under construction or final at its height
(`BlocksAt`). Only `FetchBlock` adds to those, at a height where the only documents are of final blocks (`HeightFact`).

`SupplyProofs`, for the same constants and at every point of the code, kills and late searches included (a block's supply is computed from the cached block before and the block's own transactions, and not from a search):

- `SupplyCorrect` (`[]SupplyIsUnspent`), under `[]CoinsFit`: the coins in unspent outputs are fewer than `WordSize`, 2^64, far more satoshi than there are;
- `PrivateSupplyCorrect` (`[]PrivateSupplyIsHidden`), without it: both sides are remainders.

Both speak of chains without `Mistaken` transactions, of which `updateSupply` gives a wrong account (see the findings), and the second without `GivesHidden` ones. `SupplyInv` is inductive: each block's supplies are
the remainder of what all transactions up to it have added (`AllNet`). For a transaction that is not mistaken, `PublicNet`, `WrappedNet` and `HiddenNet` show that the change `updateSupply` makes, which goes by
types, scripts and flags, is what the transaction adds; the hidden one is computed from public values and is right because the transaction balances (`MoneyAssumption`).
`UnspentSum` then takes sum and difference apart: what consistent transactions add, spending only each other's outputs and none twice, is what is in the outputs none of them spends.

- `MoneyCorrect` (`[]MoneyIsConserved`), without `CoinsFit`, for blocks that keep private coins apart (`KeepsApart`).

That the change of the supplies is what the block's own accounts say is not a property of a block's end alone: the accounts are made while its transactions are indexed. `MoneyInv` says at each point of the block what they are
(`AccountsRight`: the fees so far, the payout once the coinbase is through, the stake once the second transaction is, which the spends after it leave alone), and of all indexed blocks that they conserve the money. For one transaction,
`ChangeIs` gives the change of all three supplies as what comes in less what counts as going out; `PayoutBalance`, `StakeBalance` and `SpendBalance` show it to be the payout, the stake,
and for a spend the fee and the contributions with a minus. `AccountsFact` adds these up over a block, `SuppliesFact` what `updateSupply` does. As everything is computed in uint64, with negative differences on the way, these are
equalities but for multiples of the word (`Alike`, `SumAlike`).

The sums are those of the community modules, defined by a CHOOSE of a recursive function. That there is one (`SumExists`) and what it is (`SumAdd`) is an induction over subsets of a finite set,
again with a set in place of the operator (`FiniteInduction`).

Only model-checked: liveness (`Recovers`, `CatchesUp`, `CallsReturn`), which like ENABLED is out of the prover's reach. Every other property of a passing run is a theorem.

## Not modelled

- The indexing of DAO documents is commented out in `internal/indexer/indexer.go`. What is live is the rewind's deletion by height, which `Consensus` has for
  consultations, and `Load...` of the lists at the end of `daemon.rewind`, which no live code reads.
- `consensus.Indexer` and `consultation.updateConsensusParameter` are called by the DAO indexing only.
- Repository searches no code of the daemon uses, the reading of settings, the dependency container, logging, and the one-off `balance_fix.go`.
- Of the live parts: a failed `GetSignals`, which answers an empty list; the replay after an underflow of the rewind height, which walks 2^64 heights;
  the page size of 50000 in `GetAddressesHeightGt`; the unstable `sort.Slice` of histories, which may apply two of a block in the wrong
  order; a bulk target below `BulkIndexSize`, whose first batch would start at a height that underflows.

## Plan

1. The DAO lists, when their indexing is switched on again.
2. Proofs of `Addresses` and `Transactions` for single sites of a late search, as `SafeSetting` in `IndexerInvariant` has them for `Indexer`.
