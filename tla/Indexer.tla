------------------------------ MODULE Indexer ------------------------------
(***************************************************************************)
(* The indexer's main line: the daemon's start-up (rewind, bulk index,     *)
(* subscribe), the loop that indexes one block after another, the          *)
(* detection of orphan blocks, the rewind, and the request cache between   *)
(* them and Elasticsearch, restricted to the documents of the block index. *)
(*                                                                         *)
(* Around it are the two systems it talks to: navcoind, whose chain grows  *)
(* and switches branches between any two calls, and Elasticsearch, where a *)
(* write is durable at once but only seen by a search after a refresh.     *)
(* The process may be killed at any point and is started again.            *)
(***************************************************************************)
EXTENDS Chain, FiniteSets

CONSTANTS
    ReindexSize,       \* config.ReindexSize: how far a rewind goes back
    BulkIndexSize,     \* config.BulkIndexSize: blocks between two persists
    RewindToHeight,    \* config.RewindToHeight, 0 when not set
    BulkTargetHeight,  \* config.BulkTargetHeight, 0 when not set
    BulkIndex,         \* the values config.BulkIndex may have, at each start
    LagSites,          \* the searches that may come before the refresh
    WordSize,          \* 2^64 in the code: the range of uint64 arithmetic
    Mark,              \* the marks of the branches of navcoind's chain
    InitHeight,        \* height of navcoind's chain at first
    MaxHeight,         \* bound on the height of navcoind's chain
    MaxReorgs,         \* bound on the number of branch switches
    MaxReorgDepth,     \* bound on the blocks one branch switch replaces
    BranchesReturn,    \* may navcoind switch back to a branch it has left?
    MaxCrashes         \* bound on the number of kills and of reindex runs

\* The searches: GetBestBlock in daemon.rewind, before and after its sleep, in
\* Index for an orphan, in checkBlock and at the end of bulkIndex, and the search
\* of DeleteHeightGT.
Sites == {"start", "reload", "orphan", "check", "report", "delete"}

ASSUME SizesAssumption ==
    /\ ReindexSize \in Nat \ {0} /\ ReindexSize < WordSize
    /\ BulkIndexSize \in Nat \ {0}
    /\ RewindToHeight \in Nat
    /\ BulkTargetHeight \in Nat
    /\ BulkIndex \in SUBSET BOOLEAN \ {{}}
    /\ LagSites \subseteq Sites
    /\ MaxHeight \in Nat \ {0}
    /\ WordSize \in Nat /\ WordSize > 2 * MaxHeight
    /\ WordSize > RewindToHeight

ASSUME EnvironmentAssumption ==
    /\ InitHeight \in 1 .. MaxHeight
    /\ MaxReorgs \in Nat /\ MaxReorgDepth \in Nat /\ MaxCrashes \in Nat
    /\ BranchesReturn \in BOOLEAN
    /\ 0 .. MaxReorgs \subseteq Mark

VARIABLES
    chain,     \* navcoind's active chain: the branch marks from height 1 on
    reorgs,    \* branch switches so far
    store,     \* block documents Elasticsearch has acknowledged
    view,      \* block documents a search sees: the store at the last refresh
    pending,   \* the request cache of elastic_cache, block documents only
    last,      \* "lastBlockIndexed" in the shared cache, NoBlock when absent
    pc,        \* where the process stands
    phase,     \* "boot", or the IndexOption: "batch", "single"
    height,    \* argument `height` of index()
    target,    \* argument `target` of index(), 0 when there is none
    rewindTo,  \* argument of RewindToHeight
    best,      \* bestBlock of the outermost checkBlock call
    block,     \* the block under construction in block.Index
    message,   \* is a ZMQ message waiting for the subscriber?
    crashes,   \* kills and reindex runs so far
    torn,      \* history: a bulk run appended a block to one not its parent
    late       \* history: "rewind" in a rewind to a height that was searched for
               \* before the refresh, "killed" once the process died in one

envVars   == <<chain, reorgs>>
storeVars == <<store, view>>
argVars   == <<height, target, rewindTo, best, block>>
procVars  == <<pending, last, pc, phase, argVars, message>>
vars      == <<envVars, storeVars, procVars, crashes, torn, late>>

Points == {"down", "boot", "rewind", "delete", "check", "reload", "bulk",
           "fetch", "orphan", "build", "persist", "flush", "verify", "idle"}

Block == {c \in Seq(Mark) : Height(c) \in 1 .. MaxHeight}

Request == [type : {"index", "update"}, block : Block]

TypeOK ==
    /\ chain \in Block
    /\ reorgs \in 0 .. MaxReorgs
    /\ store \subseteq Block
    /\ view \subseteq Block
    /\ pending \subseteq Request
    /\ last \in Block \cup {NoBlock}
    /\ pc \in Points
    /\ phase \in {"boot", "batch", "single"}
    /\ height \in 0 .. MaxHeight + 1
    /\ target \in Nat
    /\ rewindTo \in 0 .. WordSize - 1
    /\ best \in Block \cup {NoBlock}
    /\ block \in Block \cup {NoBlock}
    /\ message \in BOOLEAN
    /\ crashes \in 0 .. MaxCrashes
    /\ torn \in BOOLEAN
    /\ late \in {"no", "rewind", "killed"}

Init ==
    /\ chain = [h \in 1 .. InitHeight |-> 0]
    /\ reorgs = 0
    /\ store = {}
    /\ view = {}
    /\ pending = {}
    /\ last = NoBlock
    /\ pc = "down"
    /\ phase = "boot"
    /\ height = 0
    /\ target = 0
    /\ rewindTo = 0
    /\ best = NoBlock
    /\ block = NoBlock
    /\ message = FALSE
    /\ crashes = 0
    /\ torn = FALSE
    /\ late = "no"

-----------------------------------------------------------------------------
(* navcoind *)

\* The subscriber's socket is open once the bulk run is over.
Subscribed == phase = "single"

Notify == message' = (message \/ Subscribed)

\* A block is staked on top of the active chain.
Extend ==
    /\ Height(chain) < MaxHeight
    /\ chain' = Append(chain, chain[Height(chain)])
    /\ Notify
    /\ UNCHANGED <<reorgs, storeVars, pending, last, pc, phase, argVars,
                   crashes, torn, late>>

\* A branch that leaves the chain after height h overtakes it.
Reorg ==
    /\ reorgs < MaxReorgs
    /\ Height(chain) < MaxHeight
    /\ \E h \in 0 .. Height(chain) - 1, m \in 0 .. MaxReorgs :
          /\ Height(chain) - h <= MaxReorgDepth
          /\ m # chain[h + 1]
          /\ BranchesReturn \/ m = reorgs + 1
          /\ chain' = [i \in 1 .. Height(chain) + 1 |->
                          IF i <= h THEN chain[i] ELSE m]
    /\ reorgs' = reorgs + 1
    /\ Notify
    /\ UNCHANGED <<storeVars, pending, last, pc, phase, argVars, crashes, torn, late>>

-----------------------------------------------------------------------------
(* Elasticsearch *)

\* The periodic refresh makes every acknowledged write searchable.
Refresh ==
    /\ view # store
    /\ view' = store
    /\ UNCHANGED <<envVars, store, procVars, crashes, torn, late>>

\* A search at a site outside LagSites comes after the refresh.
CanSearch(site) == site \in LagSites \/ view = store

\* The possible answers of GetBestBlock, NoBlock for ErrBlockNotFound.
BestBlocks == IF view = {} THEN {NoBlock} ELSE Highest(view)

-----------------------------------------------------------------------------
(* The request cache *)

\* AddRequest: a request replaces the one with its slug, but stays an index
\* request if that one was.
AddRequest(requests, type, b) ==
    LET old == {r \in requests : r.block = b}
    IN  (requests \ old) \cup
        {[type |-> IF \E r \in old : r.type = "index" THEN "index" ELSE type,
          block |-> b]}

\* The blocks for which requests of a type are pending.
Requested(requests, type) ==
    {r.block : r \in {q \in requests : q.type = type}}

\* An update request on a document that is not there fails in the bulk.
PersistFails ==
    ~ Requested(pending, "update") \subseteq store \cup Requested(pending, "index")

\* Persist, when every item of the bulk succeeds.
Persisted ==
    store' = store \cup Requested(pending, "index") /\ pending' = {}

\* Mutant of Doomed: the bound of the range query is off by one.
DoomedFromHeight == {b \in view : Height(b) >= rewindTo}

\* What a kill in the middle of a call to Elasticsearch may leave behind, and
\* what a bulk with a failing item may: a bulk stores its items one by one, 100
\* to a call, a DeleteByQuery removes them one by one.
Doomed == {b \in view : Height(b) > rewindTo}

Leftovers ==
    IF pc = "delete" THEN {store \ D : D \in SUBSET Doomed}
    ELSE IF pc \in {"build", "persist", "flush"}
         THEN {store \cup S : S \in SUBSET Requested(pending, "index")}
         ELSE {store}
-----------------------------------------------------------------------------
(* The life of the process *)

\* The process ends and loses all it holds in memory.
Die ==
    /\ pending' = {}
    /\ last' = NoBlock
    /\ pc' = "down"
    /\ phase' = "boot"
    /\ height' = 0 /\ target' = 0 /\ rewindTo' = 0
    /\ best' = NoBlock /\ block' = NoBlock
    /\ message' = FALSE
    /\ late' = IF late = "rewind" THEN "killed" ELSE late

\* zap's Fatal, or a panic.
Fatal == Die /\ UNCHANGED store

\* The process is killed, or a call to navcoind or Elasticsearch fails in a
\* way the code answers with Fatal.
Crash ==
    /\ pc # "down"
    /\ crashes < MaxCrashes
    /\ crashes' = crashes + 1
    /\ store' \in Leftovers
    /\ Die
    /\ UNCHANGED <<envVars, view, torn>>

\* A run with REINDEX set: InstallMappings deletes and creates every index.
Reindex ==
    /\ pc = "down"
    /\ crashes < MaxCrashes
    /\ crashes' = crashes + 1
    /\ store' = {}
    /\ view' = {}
    /\ torn' = FALSE
    /\ late' = "no"
    /\ UNCHANGED <<envVars, procVars>>

\* Execute: the process is started and has initialized.
Start ==
    /\ pc = "down"
    /\ pc' = "boot"
    /\ UNCHANGED <<envVars, storeVars, pending, last, phase, argVars, message,
                   crashes, torn, late>>

\* After the rewind, Execute calls bulkIndex if so configured, and subscribe.
BulkOrSubscribe ==
    \/ TRUE \in BulkIndex /\ pc' = "bulk" /\ UNCHANGED phase
    \/ FALSE \in BulkIndex /\ pc' = "idle" /\ phase' = "single"

\* Mutant of TargetHeight: without its guard.
TargetHeightUnguarded(b) ==
    IF RewindToHeight # 0 THEN RewindToHeight ELSE Height(b) - ReindexSize

\* daemon.targetHeight
TargetHeight(b) ==
    CASE RewindToHeight # 0       -> RewindToHeight
      [] RewindToHeight = 0 /\ Height(b) >= ReindexSize
                                  -> Height(b) - ReindexSize
      [] OTHER                    -> 0

\* daemon.rewind up to its call of RewindToHeight.
RewindAtStart ==
    /\ pc = "boot"
    /\ CanSearch("start")
    /\ \E b \in BestBlocks :
          IF b = NoBlock
          THEN BulkOrSubscribe /\ UNCHANGED rewindTo
          ELSE pc' = "rewind" /\ rewindTo' = TargetHeight(b) /\ UNCHANGED phase
    /\ UNCHANGED <<envVars, storeVars, pending, last, height, target, best,
                   block, message, crashes, torn, late>>

\* daemon.rewind from its sleep on.
ReloadBestBlock ==
    /\ pc = "reload"
    /\ CanSearch("reload")
    /\ \E b \in BestBlocks :
          IF b = NoBlock
          THEN Fatal
          ELSE /\ last' = b
               /\ BulkOrSubscribe
               /\ UNCHANGED <<store, pending, argVars, message, late>>
    /\ UNCHANGED <<envVars, view, crashes, torn>>

-----------------------------------------------------------------------------
(* RewindToHeight *)

\* ClearRequests, then the address rewind, which flushes the shared cache.
RewindAddresses ==
    /\ pc = "rewind"
    /\ pending' = {}
    /\ last' = NoBlock
    /\ pc' = "delete"
    /\ UNCHANGED <<envVars, storeVars, phase, argVars, message, crashes, torn, late>>

\* A height beyond the range of a signed long may be refused by the search.
RewindRefused ==
    /\ pc = "rewind"
    /\ rewindTo >= WordSize \div 2
    /\ Fatal
    /\ UNCHANGED <<envVars, view, crashes, torn>>

\* DeleteHeightGT on the block index: it deletes what a search finds.  The
\* rewinds of soft forks and DAO that follow leave the block index alone.
DeleteBlocks ==
    /\ pc = "delete"
    /\ CanSearch("delete")
    /\ store' = store \ Doomed
    /\ pc' = "check"
    /\ UNCHANGED <<envVars, view, pending, last, phase, argVars, message,
                   crashes, torn, late>>

\* indexer.Index after a rewind: SingleIndex goes on with the next height.
IndexNext(b) == height' = Height(b) + 1 /\ pc' = "fetch"

\* Mutants of IsBestBlockAtHeight: the answer of the search is not checked; a
\* best block above the height is accepted.
AnyBestBlock(b) == TRUE
BestBlockFromHeight(b) == Height(b) >= rewindTo

\* isBestBlockAtHeight
IsBestBlockAtHeight(b) == Height(b) = rewindTo

\* checkBlock searches until the best block is at the height asked for.  Each
\* retry is a recursive call; when the innermost one succeeds every caller
\* still sets its own answer, so the answer of the first search remains.
CheckBlock ==
    /\ pc = "check"
    /\ CanSearch("check")
    /\ \E b \in BestBlocks :
          LET first == IF best = NoBlock THEN b ELSE best
          IN  CASE b = NoBlock -> Fatal
                [] b # NoBlock /\ ~ IsBestBlockAtHeight(b) ->
                     /\ best' = first
                     /\ UNCHANGED <<store, pending, last, pc, phase, height,
                                    target, rewindTo, block, message, late>>
                [] b # NoBlock /\ IsBestBlockAtHeight(b) ->
                     /\ last' = first
                     /\ best' = NoBlock
                     /\ rewindTo' = 0
                     /\ late' = IF late = "rewind" THEN "no" ELSE late
                     /\ IF phase = "boot"
                        THEN pc' = "reload" /\ UNCHANGED height
                        ELSE IndexNext(first)
                     /\ UNCHANGED <<store, pending, phase, target, block,
                                    message>>
    /\ UNCHANGED <<envVars, view, crashes, torn>>

-----------------------------------------------------------------------------
(* Index and index *)

\* The possible answers of GetLastBlockIndexed, NoBlock for nil.
LastBlocks == IF last # NoBlock THEN {last} ELSE BestBlocks

\* bulkIndex: the target is the configured height or navcoind's tip.  Index
\* returns at once when the height to index already is the target.
StartBulk ==
    /\ pc = "bulk"
    /\ phase' = "batch"
    /\ target' = IF BulkTargetHeight = 0 THEN Height(chain) ELSE BulkTargetHeight
    /\ \E b \in LastBlocks :
          /\ last' = b
          /\ IF b # NoBlock /\ Height(b) + 1 = target'
             THEN pc' = "flush" /\ UNCHANGED height
             ELSE IndexNext(b)
    /\ UNCHANGED <<envVars, storeVars, pending, rewindTo, best, block, message,
                   crashes, torn, late>>

\* The subscriber hands a ZMQ message to SingleIndex, which calls Index.
SingleIndex ==
    /\ pc = "idle"
    /\ message
    /\ message' = FALSE
    /\ \E b \in LastBlocks : last' = b /\ IndexNext(b)
    /\ UNCHANGED <<envVars, storeVars, pending, phase, target, rewindTo, best,
                   block, crashes, torn, late>>

\* getBlockAtHeight beyond navcoind's chain answers "-8: Block height out of
\* range": SingleIndex ignores it, bulkIndex does not.
HeightOutOfRange ==
    /\ pc = "fetch"
    /\ height > Height(chain)
    /\ IF phase = "single"
       THEN /\ pc' = "idle"
            /\ height' = 0
            /\ UNCHANGED <<store, pending, last, phase, target, rewindTo, best,
                           block, message, late>>
       ELSE Fatal
    /\ UNCHANGED <<envVars, view, crashes, torn>>

\* Mutants of IsOrphan: no check; no check at height 2 either; the heights are
\* compared instead of the hashes.
NeverOrphan(b, previous) == FALSE
OrphanAboveTwo(b, previous) == Height(b) > 2 /\ previous # Previous(b)
OrphanByHeight(b, previous) == Height(b) # 1 /\ Height(previous) # Height(b) - 1

\* IsOrphanBlock
IsOrphan(b, previous) == Height(b) # 1 /\ previous # Previous(b)

\* The first part of block.Index: the block is fetched, and in SingleIndex
\* checked against the last block indexed.
FetchBlock ==
    /\ pc = "fetch"
    /\ height <= Height(chain)
    /\ LET b == BlockAt(chain, height)
       IN  IF phase = "single" /\ IsOrphan(b, last)
           THEN last' = NoBlock /\ pc' = "orphan" /\ UNCHANGED block
           ELSE block' = b /\ pc' = "build" /\ UNCHANGED last
    /\ UNCHANGED <<envVars, storeVars, pending, phase, height, target,
                   rewindTo, best, message, crashes, torn, late>>

\* Index on ErrOrphanBlockFound: the rewind height is a uint64 difference.
RewindOrphan ==
    /\ pc = "orphan"
    /\ CanSearch("orphan")
    /\ \E b \in BestBlocks :
          IF b = NoBlock
          THEN Fatal
          ELSE /\ last' = b
               /\ rewindTo' = (Height(b) - ReindexSize) % WordSize
               /\ pc' = "rewind"
               /\ height' = 0
               /\ late' = IF late = "no" /\ view # store THEN "rewind" ELSE late
               /\ UNCHANGED <<store, pending, phase, target, best, block,
                              message>>
    /\ UNCHANGED <<envVars, view, crashes, torn>>

\* indexPreviousTxData does not find a transaction, persists all requests and
\* tries again: blocks of an unfinished batch reach the index.
PersistForPreviousTx ==
    /\ pc = "build"
    /\ pending # {}
    /\ ~ PersistFails
    /\ Persisted
    /\ UNCHANGED <<envVars, view, last, pc, phase, argVars, message, crashes, torn, late>>

\* The rest of block.Index: SingleIndex first touches the document of the last
\* block (and panics on nil), then the block becomes the last one.
BuildBlock ==
    /\ pc = "build"
    /\ \E previous \in LastBlocks :
          IF phase = "single" /\ previous = NoBlock
          THEN Fatal /\ UNCHANGED torn
          ELSE /\ pending' =
                     IF phase = "single"
                     THEN AddRequest(AddRequest(pending, "update", previous),
                                     "index", block)
                     ELSE AddRequest(pending, "index", block)
               /\ last' = block
               /\ torn' = (torn \/ (phase = "batch" /\ Previous(block) # previous))
               /\ block' = NoBlock
               /\ pc' = "persist"
               /\ UNCHANGED <<store, phase, height, target, rewindTo, best,
                              message, late>>
    /\ UNCHANGED <<envVars, view, crashes>>

\* Mutant of PersistDue: a batch is one block too long.
PersistLate == phase = "single" \/ height % (BulkIndexSize + 1) = 0

\* Mutant of NextHeight: every second block is left out.
NextHeightSkips ==
    IF target # 0 /\ height = target
    THEN pc' = "flush" /\ height' = 0
    ELSE pc' = "fetch" /\ height' = height + 2

\* The end of index(): Persist, or BatchPersist at every multiple of the
\* batch size; then the next height, unless this one was the target.
PersistDue == phase = "single" \/ height % BulkIndexSize = 0

NextHeight ==
    IF target # 0 /\ height = target
    THEN pc' = "flush" /\ height' = 0
    ELSE pc' = "fetch" /\ height' = height + 1

PersistBlock ==
    /\ pc = "persist"
    /\ CASE ~ PersistDue ->
              NextHeight /\ UNCHANGED <<store, pending, last, phase, target,
                                        rewindTo, best, block, message, late>>
         [] PersistDue /\ PersistFails ->
              store' \in Leftovers /\ Die
         [] PersistDue /\ ~ PersistFails ->
              /\ Persisted
              /\ NextHeight
              /\ UNCHANGED <<last, phase, target, rewindTo, best, block,
                             message, late>>
    /\ UNCHANGED <<envVars, view, crashes, torn>>

\* bulkIndex after Index: the rest of the last batch is persisted.
FlushBulk ==
    /\ pc = "flush"
    /\ Persisted
    /\ pc' = "verify"
    /\ UNCHANGED <<envVars, view, last, phase, argVars, message, crashes, torn, late>>

\* bulkIndex reports the best block, then Execute subscribes.
FinishBulk ==
    /\ pc = "verify"
    /\ CanSearch("report")
    /\ IF view = {}
       THEN Fatal
       ELSE /\ pc' = "idle"
            /\ phase' = "single"
            /\ target' = 0
            /\ UNCHANGED <<store, pending, last, height, rewindTo, best, block,
                           message, late>>
    /\ UNCHANGED <<envVars, view, crashes, torn>>

-----------------------------------------------------------------------------
Environment == Extend \/ Reorg \/ Crash \/ Reindex

Process ==
    \/ Start \/ RewindAtStart \/ ReloadBestBlock
    \/ RewindAddresses \/ RewindRefused \/ DeleteBlocks \/ CheckBlock
    \/ StartBulk \/ SingleIndex \/ HeightOutOfRange \/ FetchBlock
    \/ RewindOrphan \/ PersistForPreviousTx \/ BuildBlock \/ PersistBlock
    \/ FlushBulk \/ FinishBulk

Next == Environment \/ Refresh \/ Process

Spec == Init /\ [][Next]_vars

\* The process runs whenever it can, and Elasticsearch refreshes each second.
Fairness == WF_vars(Refresh) /\ WF_vars(Process)

FairSpec == Spec /\ Fairness
-----------------------------------------------------------------------------
(* Properties *)

\* Nothing has happened that no rewind undoes: a bulk run over a branch switch,
\* or a kill in a rewind to a height that was searched for before the refresh.
Intact == ~ torn /\ late = "no"

\* However the process was killed before, the index stays anchored: it is one
\* linked chain except for blocks so close to its top that the rewind at the
\* next start removes them (daemon.rewind, ReindexSize).  A hole or a block of
\* another branch further down would never be repaired.
AlwaysAnchored == Intact => Anchored(store, ReindexSize)

\* When the process waits for a message, nothing is left of a broken batch, an
\* interrupted rewind or an abandoned branch: the block index is exactly one
\* chain, from height 1 to its top.
IdleIndexIsOneChain ==
    pc = "idle" /\ Intact =>
        \E b \in store \cup {NoBlock} : store = Ancestry(b)

\* When the process waits for a message, the block it will check the next one
\* against (lastBlockIndexed) is the top of the index.
IdleLastIsTop ==
    pc = "idle" /\ Intact /\ last # NoBlock => store = Ancestry(last)

\* The longest clean block of the index: the trunk a reader can rely on.
Trunk(S) ==
    CHOOSE b \in S \cup {NoBlock} :
        /\ Clean(S, b)
        /\ \A c \in S : Clean(S, c) => Height(c) <= Height(b)

\* How far the highest block of the index is above its trunk.
Debris(S) ==
    IF S = {} THEN 0
    ELSE (CHOOSE h \in {Height(b) : b \in Highest(S)} : TRUE) - Height(Trunk(S))

\* An index that is not intact is mapped to an empty one.
Index == INSTANCE BlockIndex WITH
    Reach  <- ReindexSize,
    trunk  <- IF Intact THEN Trunk(store) ELSE NoBlock,
    debris <- IF Intact THEN Debris(store) ELSE 0

\* The index implements BlockIndex: what a kill leaves above the trunk never
\* reaches further than a rewind goes back, and the process has removed all of
\* it before it adds a block (rewind and checkBlock before any Index).
RepairedBeforeGrowing == Index!Spec

\* RewindToHeight's checkBlock ends with lastBlockIndexed at the height it was
\* asked for, as its log message "Best block rewound to height" says.
RewoundToHeight ==
    [][pc = "check" /\ pc' \in {"reload", "fetch"} => Height(last') = rewindTo]_vars

\* The process goes on from RewindToHeight with a block index that holds nothing
\* above the height, and that is exactly the chain of the block checkBlock
\* returned, whatever a kill had left in it.  So it is even when the search for
\* the height and that of DeleteHeightGT came before the refresh and missed the
\* newest blocks: checkBlock finds these after the refresh, and does not return.
RewindLeavesChain ==
    [][pc = "check" /\ pc' \in {"reload", "fetch"} =>
          /\ \A b \in store' : Height(b) <= rewindTo
          /\ Intact' => store' = Ancestry(last')]_vars

\* When bulkIndex logs "Bulk index complete" for the best block, which its search
\* may find before the refresh, the blocks below it are indexed.
BulkIndexComplete ==
    [][pc = "verify" /\ pc' = "idle" /\ late # "killed" =>
          \A b \in Highest(view) : \A h \in 1 .. Height(b) :
             \E c \in store : Height(c) = h]_vars

\* The process always comes back: after any kill it starts, rewinds, runs the
\* bulk index and waits for messages.  checkBlock searches for ever if the
\* index has no block at the height it rewound to.
Recovers == pc = "down" ~> pc = "idle"

Synced == store = Ancestry(chain)

\* Once a message is handed to SingleIndex the index becomes the active chain
\* of navcoind, however many branch switches the process has to undo, unless
\* the process is killed meanwhile (or a bulk run tore the index before).
CatchesUp == (pc = "idle" /\ message) ~> (Synced \/ torn \/ pc = "down")
=============================================================================
