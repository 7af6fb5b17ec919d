---------------------------- MODULE Transactions ----------------------------
(***************************************************************************)
(* The transaction index and the supply: block.Index builds a block from   *)
(* its transactions, reads what each input spends, marks it as redeemed,   *)
(* and requests all these documents; they are persisted with the blocks,   *)
(* at the end of a block or a batch, or because a search failed.           *)
(*                                                                         *)
(* Which blocks follow each other is for navcoind to say, and Indexer      *)
(* shows what is indexed to be a chain.  Here a chain grows by any of the  *)
(* blocks that may follow and is cut back by rewinds.  An error that is no *)
(* search's ends the process (SingleIndex, bulkIndex), like a kill.        *)
(***************************************************************************)
EXTENDS BlockFactory

CONSTANTS
    Blocks,        \* for each height, the blocks there may be: their transactions
    FinalHeight,   \* the height up to which there is only one
    BatchSize,     \* config.BulkIndexSize
    ReindexSize,   \* config.ReindexSize
    Targets,       \* the heights the bulk run may end at
    Lags,          \* may a search meet an index that is not refreshed?
    MaxKills       \* bound on the number of kills

MaxHeight == Len(Blocks)

\* In the first batch there is nothing to rewind: its blocks are final.  They are
\* indexed by a bulk run, because a process that indexes a single block without
\* one before it ends (updateNextHashOfPreviousBlock).  They follow each other, so
\* that no transaction is in two of them.  A block begins with its coinbase.
ASSUME TransactionsAssumption ==
    /\ Blocks \in Seq(SUBSET Seq(Tx))
    /\ FinalHeight \in 1 .. MaxHeight
    /\ \A h \in 1 .. FinalHeight : \E txs \in Blocks[h] : Blocks[h] = {txs}
    /\ \A h, k \in 1 .. FinalHeight : \A txs \in Blocks[h], others \in Blocks[k] :
          h # k => \A i \in DOMAIN txs, j \in DOMAIN others : txs[i] # others[j]
    /\ \A h \in 1 .. MaxHeight : \A txs \in Blocks[h] : \A j \in DOMAIN txs :
          IsCoinbase(txs[j]) <=> j = 1
    /\ BatchSize \in 1 .. FinalHeight /\ ReindexSize \in Nat /\ BatchSize <= ReindexSize
    /\ Targets \subseteq {t \in Nat : t >= BatchSize}
    /\ Lags \subseteq BOOLEAN /\ MaxKills \in Nat

\* The second transaction of a block with private transactions stakes it, those
\* after it spend.  An OP_RETURN output is never spent.
ASSUME FeeAssumption ==
    /\ \A h \in 1 .. MaxHeight : \A txs \in Blocks[h] : \A j \in DOMAIN txs :
          /\ j > 2 => Type(txs[j]) = "spend"
          /\ PaysFee(txs[j]) => j > 2 /\ IsAnyStaking(txs[2])
    /\ \A t \in Tx : \A i \in Inputs(t) :
          OutputOf(Spent(t, i)).asm \notin {"OP_RETURN", "OP_RETURN OP_CFUND"}

VARIABLES
    target,     \* height at which the bulk run ends
    lag,        \* may a search meet an index that is not refreshed?
    chain,      \* the blocks indexed, those of an unfinished batch included
    top,        \* how many of them are persisted
    docs,       \* the transaction documents
    seen,       \* the same as of the last refresh
    requests,   \* the transaction documents in the request cache
    block,      \* the block under construction
    at,         \* the transaction and the input of it that come next
    pc,         \* "down", "check" in a rewind, "index", "build" in a block
    phase,      \* "boot", "batch" or "single"
    kills       \* kills so far

config  == <<target, lag>>
index   == <<chain, top, docs, seen>>
process == <<requests, block, at, pc, phase>>
vars    == <<config, index, process, kills>>

\* The documents of the transaction index: a block's height, where the fee goes to, and for each output
\* whether it is redeemed and by which transaction ("" for none).
Redeemed == [redeemed : BOOLEAN, by : Tx \cup {""}]
NotRedeemed == [redeemed |-> FALSE, by |-> ""]

None == [height |-> 0]   \* there is no document

IsDocument(t, d) ==
    \/ d = None
    \/ d \in [height : 1 .. MaxHeight, feeTo : AnyAddress, vout : [DOMAIN Raw[t].vout -> Redeemed]]

NoRequest == [type |-> "none", doc |-> None]

TypeOK ==
    /\ target \in Targets /\ lag \in Lags
    /\ Len(chain) <= MaxHeight /\ top \in 0 .. Len(chain)
    /\ \A h \in DOMAIN chain : chain[h].height = h /\ chain[h].txs \in Blocks[h]
    /\ \A t \in Tx : /\ IsDocument(t, docs[t]) /\ IsDocument(t, seen[t])
                     /\ IsDocument(t, requests[t].doc)
                     /\ requests[t].type \in {"none", "index", "update"}
                     /\ requests[t].type = "none" <=> requests[t].doc = None
    /\ pc \in {"down", "check", "index", "build"}
    /\ block = NoBlock <=> pc # "build"
    /\ phase \in {"boot", "batch", "single"}
    /\ kills \in 0 .. MaxKills

NoRequests == [t \in Tx |-> NoRequest]

Init ==
    /\ target \in Targets /\ lag \in Lags
    /\ chain = <<>> /\ top = 0
    /\ docs = [t \in Tx |-> None] /\ seen = docs
    /\ requests = NoRequests /\ block = NoBlock /\ at = <<0, 0>>
    /\ pc = "down" /\ phase = "boot"
    /\ kills = 0

Refresh ==
    /\ seen # docs
    /\ seen' = docs
    /\ UNCHANGED <<config, chain, top, docs, process, kills>>

CanSearch == lag \/ seen = docs

-----------------------------------------------------------------------------
(* Elasticsearch and the request cache *)

\* Mutant of AddRequest: the last type is kept.
AddRequestAsIs(t, type, doc) ==
    requests' = [requests EXCEPT ![t] = [type |-> type, doc |-> doc]]

\* AddRequest: an update of what is to be indexed is an index request.
AddRequest(t, type, doc) ==
    requests' = [requests EXCEPT ![t] =
        [type |-> IF @.type = "index" THEN "index" ELSE type, doc |-> doc]]

\* An update request replaces the outputs of a document as a whole.
Written(T) == [t \in Tx |-> IF t \in T THEN requests[t].doc ELSE docs[t]]

Requested == {t \in Tx : requests[t].type # "none"}

\* Updating what is not there is an error.
PersistFails == \E t \in Requested : requests[t].type = "update" /\ docs[t] = None

\* Mutant of GetTransactionByHash: the request cache is not looked at.
GetTransactionFromIndex(t) == seen[t]

\* GetTransactionByHash: the request cache first, then a search, which is tried
\* again until there is an answer.
GetTransactionByHash(t) ==
    IF requests[t].type # "none" THEN requests[t].doc ELSE seen[t]

-----------------------------------------------------------------------------
(* block.Index *)

SpentIn(txs) == UNION {{Spent(t, i) : i \in Inputs(t)} : t \in {txs[j] : j \in DOMAIN txs}}

ChainTxs(c) == UNION {{c[h].txs[j] : j \in DOMAIN c[h].txs} : h \in DOMAIN c}
ChainSpent(c) == UNION {SpentIn(c[h].txs) : h \in DOMAIN c}

Earlier(txs, j) == {txs[k] : k \in 1 .. j - 1}

\* navcoind only has blocks whose transactions are new and spend what there is
\* and is not spent.
MayFollow(txs) ==
    \A j \in DOMAIN txs :
       /\ txs[j] \notin ChainTxs(chain) \cup Earlier(txs, j)
       /\ \A i \in Inputs(txs[j]) :
             /\ Spent(txs[j], i)[1] \in ChainTxs(chain) \cup Earlier(txs, j)
             /\ Spent(txs[j], i) \notin ChainSpent(chain)
                   \cup UNION {{Spent(t, k) : k \in Inputs(t)} : t \in Earlier(txs, j)}

Last == IF chain = <<>> THEN NoBlock ELSE chain[Len(chain)]

FetchBlock ==
    /\ pc = "index"
    /\ Len(chain) < MaxHeight
    /\ IF phase = "single" THEN top = Len(chain)
       ELSE Len(chain) < target /\ (top = Len(chain) \/ Len(chain) % BatchSize # 0)
    /\ \E txs \in Blocks[Len(chain) + 1] :
          /\ MayFollow(txs)
          /\ block' = CreateBlock(txs, Last)
    /\ at' = <<1, 1>>
    /\ pc' = "build"
    /\ UNCHANGED <<config, index, requests, phase, kills>>

Building == pc = "build" /\ at[1] <= Len(block.txs)

Current == block.txs[at[1]]

Redeem(doc, n, t) == [doc EXCEPT !.vout[n] = [redeemed |-> TRUE, by |-> t]]

\* One input in indexPreviousTxData.
IndexPreviousTx ==
    /\ Building /\ at[2] \in Inputs(Current)
    /\ LET p == Spent(Current, at[2])
           doc == GetTransactionByHash(p[1])
       IN  /\ requests[p[1]].type # "none" \/ CanSearch
           /\ doc # None
           /\ AddRequest(p[1], "update", Redeem(doc, p[2], Current))
    /\ at' = <<at[1], at[2] + 1>>
    /\ UNCHANGED <<config, index, block, pc, phase, kills>>

\* The search of one input fails: everything requested so far is persisted, the
\* first transactions of an unfinished block among it, and it is tried again.
PersistForPreviousTx ==
    /\ Building /\ at[2] \in Inputs(Current)
    /\ requests[Spent(Current, at[2])[1]].type = "none"
    /\ Requested # {} /\ ~ PersistFails
    /\ docs' = Written(Requested)
    /\ top' = Len(chain)
    /\ requests' = NoRequests
    /\ UNCHANGED <<config, chain, seen, block, at, pc, phase, kills>>

\* Mutant of StakerOf: the block's staker is taken from the block before.
StakerOfPrevious(b) == Last.stakedBy

StakerOf(b) == b.stakedBy

\* A transaction as CreateBlockTransaction returns it: the fee of a private one
\* is the staker's, redeemed in the second transaction of the block.
Created(t, b) ==
    [height |-> b.height,
     feeTo  |-> IF PaysFee(t) THEN StakerOf(b) ELSE "",
     vout   |-> [n \in DOMAIN Raw[t].vout |->
                    IF IsFeeOutput(t, n) THEN [redeemed |-> FALSE, by |-> b.txs[2]]
                    ELSE NotRedeemed]]

\* The end of a transaction: it is requested.
IndexTransaction ==
    /\ Building /\ at[2] \notin Inputs(Current)
    /\ AddRequest(Current, "index", Created(Current, block))
    /\ block' = CreateBlockTransaction(Current, block)
    /\ at' = <<at[1] + 1, 1>>
    /\ UNCHANGED <<config, index, pc, phase, kills>>

\* The end of the block: updateSupply, SetLastBlockIndexed.  What
\* updateStakingFees writes goes to a copy of the transactions.
FinishBlock ==
    /\ pc = "build" /\ at[1] > Len(block.txs)
    /\ chain' = Append(chain, UpdateSupply(block))
    /\ block' = NoBlock /\ at' = <<0, 0>>
    /\ pc' = "index"
    /\ UNCHANGED <<config, top, docs, seen, requests, phase, kills>>

-----------------------------------------------------------------------------
(* The end of a block, the start and the rewind *)

\* The process ends and loses what it has in memory.
Die ==
    /\ requests' = NoRequests /\ block' = NoBlock /\ at' = <<0, 0>>
    /\ pc' = "down" /\ phase' = "boot"

Cut(n) == chain' = SubSeq(chain, 1, n) /\ top' = n

PersistDue == phase = "single" \/ Len(chain) % BatchSize = 0 \/ Len(chain) >= target

Persist ==
    /\ pc = "index"
    /\ top < Len(chain)
    /\ PersistDue
    /\ IF PersistFails
       THEN Die /\ Cut(top) /\ UNCHANGED docs
       ELSE /\ docs' = Written(Requested)
            /\ top' = Len(chain)
            /\ requests' = NoRequests
            /\ UNCHANGED <<chain, block, at, pc, phase>>
    /\ UNCHANGED <<config, seen, kills>>

FinishBulk ==
    /\ pc = "index" /\ phase = "batch"
    /\ Len(chain) >= target /\ top = Len(chain)
    /\ phase' = "single"
    /\ UNCHANGED <<config, index, requests, block, at, pc, kills>>

\* Index returns at once when the next block of an index that has blocks already
\* is the target.
LeftToSingle(c) == c # <<>> /\ Len(c) + 1 = target

\* The process starts to index: in a bulk run, unless there is none to do.
StartIndex(c) ==
    /\ pc' = "index"
    /\ phase' = IF Len(c) < target /\ ~ LeftToSingle(c) THEN "batch" ELSE "single"

\* Mutant of TargetHeight: without its guard.
TargetHeightUnguarded == Len(chain) - ReindexSize

\* daemon.targetHeight
TargetHeight == IF Len(chain) >= ReindexSize THEN Len(chain) - ReindexSize ELSE 0

\* Mutant of DeleteHeightGT: the bound of the range query is off by one.
DeleteHeightGTNext(height) ==
    docs' = [t \in Tx |-> IF docs[t].height > height + 1 THEN None ELSE docs[t]]

\* The documents above a height are deleted; marks below it stay as they are.
DeleteHeightGT(height) ==
    docs' = [t \in Tx |-> IF docs[t].height > height THEN None ELSE docs[t]]

Rewind(height) ==
    /\ seen = docs
    /\ DeleteHeightGT(height)
    /\ Cut(height)
    /\ requests' = NoRequests
    /\ pc' = "check"
    /\ UNCHANGED <<seen, block, at, phase>>

Start ==
    /\ pc = "down"
    /\ IF chain = <<>> THEN StartIndex(chain) /\ UNCHANGED <<index, requests, block, at>>
       ELSE Rewind(TargetHeight)
    /\ UNCHANGED <<config, kills>>

\* An orphan block is found, high enough for some block to be left.
RewindOrphan ==
    /\ pc = "index" /\ phase = "single"
    /\ top = Len(chain) /\ Len(chain) > ReindexSize
    /\ Rewind(Len(chain) - ReindexSize)
    /\ UNCHANGED <<config, kills>>

\* checkBlock waits until the last block is the one at the height, that is for a
\* refresh; with no block left it ends the process.
CheckBlock ==
    /\ pc = "check"
    /\ seen = docs
    /\ \/ chain = <<>> /\ Die
       \/ /\ chain # <<>> /\ phase = "boot"
          /\ StartIndex(chain) /\ UNCHANGED <<requests, block, at>>
       \/ /\ chain # <<>> /\ phase # "boot"
          /\ pc' = "index" /\ UNCHANGED <<requests, block, at, phase>>
    /\ UNCHANGED <<config, index, kills>>

\* The process is killed, or navcoind fails to answer; if there is something to
\* persist, any part of it may have been.
Kill ==
    /\ pc # "down"
    /\ kills < MaxKills
    /\ kills' = kills + 1
    /\ \E n \in top .. Len(chain), T \in SUBSET Requested :
          /\ (n > top \/ T # {}) => (pc = "build" \/ PersistDue)
          /\ Cut(n)
          /\ docs' = [t \in Tx |-> IF t \in T /\ (requests[t].type = "index" \/ docs[t] # None)
                                   THEN requests[t].doc ELSE docs[t]]
    /\ Die
    /\ UNCHANGED <<config, seen>>

Next ==
    \/ Refresh
    \/ FetchBlock \/ IndexPreviousTx \/ PersistForPreviousTx \/ IndexTransaction \/ FinishBlock
    \/ Persist \/ FinishBulk \/ Start \/ RewindOrphan \/ CheckBlock \/ Kill

Spec == Init /\ [][Next]_vars
-----------------------------------------------------------------------------
(* Properties *)

\* Between two blocks, with everything persisted.  With no block in the index a
\* start rewinds nothing, whatever a kill left there of the first transactions.
Settled == pc = "index" /\ top = Len(chain) /\ top > 0

\* However blocks were indexed, rewound, interrupted and indexed again, the
\* transaction index holds the transactions of the indexed blocks, at their
\* heights, and no other: not those of an unfinished block that was persisted
\* because a search failed, nor what a search met that was not refreshed.
TransactionsMatchChain ==
    Settled =>
        /\ \A t \in Tx : docs[t] # None <=> t \in ChainTxs(chain)
        /\ \A h \in DOMAIN chain : \A j \in DOMAIN chain[h].txs :
               docs[chain[h].txs[j]].height = h

\* Each output an indexed transaction spends is marked as redeemed by it, also
\* when the output was spent before by a transaction that is gone, or the
\* document was rewritten for another output: unless a search met a document
\* that was not refreshed, and wrote back the outputs it found there.
SpentIsMarked ==
    Settled /\ ~ lag => \A t \in ChainTxs(chain) : \A i \in Inputs(t) :
        docs[Spent(t, i)[1]].vout[Spent(t, i)[2]] = [redeemed |-> TRUE, by |-> t]

\* An update request never meets a document that is not there, which would end
\* the process ("Failed to persist requests"), however late the search.
UpdatesFindTheirDocument == ~ PersistFails

\* The fee of a private transaction goes to the staker of its own block.
FeeGoesToStaker ==
    Settled => \A h \in DOMAIN chain : \A j \in DOMAIN chain[h].txs :
        LET t == chain[h].txs[j]
        IN  PaysFee(t) =>
              /\ docs[t].feeTo = chain[h].stakedBy
              /\ \A n \in DOMAIN Raw[t].vout :
                    IsFeeOutput(t, n) => IsAnyStaking(docs[t].vout[n].by)

\* What is spent by no block of a chain.
Unspent(c) ==
    (UNION {{t} \X DOMAIN Raw[t].vout : t \in ChainTxs(c)}) \ ChainSpent(c)

\* The coins in some outputs, those behind a range proof included.
Coins(outputs) == SumFunction([p \in outputs |-> OutputOf(p).holds])

\* A transaction with coins behind range proofs, those it spends or makes.
HasHidden(t) ==
    \/ \E n \in DOMAIN Raw[t].vout : Raw[t].vout[n].rangeProof
    \/ \E i \in Inputs(t) : OutputOf(Spent(t, i)).rangeProof

\* The fee of such a transaction is in an output.
IsBurned(p) == IsNulldata(OutputOf(p)) /\ HasHidden(p[1])

IsPublic(p) ==
    /\ ~ OutputIsWrapped(OutputOf(p)) /\ ~ OutputOf(p).rangeProof
    /\ OutputOf(p).asm # "OP_RETURN OP_CFUND" /\ ~ IsBurned(p)

PublicCoins(c)  == Coins({p \in Unspent(c) : IsPublic(p)})
WrappedCoins(c) == Coins({p \in Unspent(c) : OutputIsWrapped(OutputOf(p))})
HiddenCoins(c)  == Coins({p \in Unspent(c) : OutputOf(p).rangeProof})

\* A transaction the code takes for a private one or not, and is mistaken: as
\* applyPrivateStatus passes over what is wrapped, hidden coins that are made
\* next to wrapped ones are not seen to be hidden when these are wrapped again,
\* and a public transaction that ends with an empty OP_RETURN is taken for a
\* private one.  A coinbase wraps nothing for applyWrappedStatus.
Mistaken(t) ==
    \/ IsPrivate(t) # HasHidden(t)
    \/ IsCoinbase(t) /\ \E n \in DOMAIN Raw[t].vout : OutputIsWrapped(Raw[t].vout[n])

\* What hidden coins give to the community fund stays in the private supply.
GivesHidden(t) == HasHidden(t) /\ Counted(t) # DOMAIN Raw[t].vout

\* Nothing is spent twice, and what has hidden coins pays its fee in an output;
\* a wrapping output is a script of its own.  In the first block, whose coins
\* are all public, there is nothing to spend.
ASSUME MoneyAssumption ==
    /\ \A t \in Tx : \A i, j \in Inputs(t) : Spent(t, i) = Spent(t, j) => i = j
    /\ \A t \in Tx : HasHidden(t) =>
          SumFunction([i \in Inputs(t) |-> OutputOf(Spent(t, i)).holds])
             = SumFunction([n \in DOMAIN Raw[t].vout |-> Raw[t].vout[n].holds])
    /\ \A t \in Tx : \A n \in DOMAIN Raw[t].vout :
          LET o == Raw[t].vout[n]
          IN  /\ OutputIsWrapped(o) => o.type # "nulldata" /\ ~ o.rangeProof
              /\ IsPrivateFee(o) => IsNulldata(o) \/ o.holds = 0
    /\ \A txs \in Blocks[1] : Len(txs) = 1 /\ Counted(txs[1]) = DOMAIN Raw[txs[1]].vout

\* A block was indexed and is still to be persisted.
Indexed == pc = "index" /\ top < Len(chain)

\* The supplies, which are carried from block to block by additions and
\* subtractions, are the coins in the outputs that are not spent, whatever blocks
\* there are, as long as no transaction is mistaken for another.
SupplyIsUnspent ==
    Indexed /\ (~ \E t \in ChainTxs(chain) : Mistaken(t)) =>
        /\ Last.supply.wrapped = WrappedCoins(chain)
        /\ Last.supply.public = PublicCoins(chain)

\* The private supply, known from PrivateHeight on and changed by public values
\* alone, follows the coins behind range proofs that nobody sees.
PrivateSupplyIsHidden ==
    /\ Indexed /\ Last.height >= PrivateHeight
    /\ ~ \E t \in ChainTxs(chain) : Mistaken(t) \/ GivesHidden(t)
    => Last.supply.private =
          Plus(PrivateSupply, HiddenCoins(chain) - HiddenCoins(SubSeq(chain, 1, PrivateHeight)))

\* A transaction that wraps private coins: applyFees takes it for a public one,
\* and its fees wrap around.
WrapsPrivate(t) == WrapsOutput(t) /\ \E i \in Inputs(t) : PrevPrivate(t, i)

\* What a transaction taken for a private one gives to the community fund: it
\* stays in the private supply.
GivesPrivate(t) == IsPrivate(t) /\ Counted(t) # DOMAIN Raw[t].vout

\* A contribution is an OP_RETURN OP_CFUND output.  What spends or makes hidden
\* coins, and wraps none, ends with its fee, the only one there is.  Blocks above
\* PrivateHeight are staked by their second transaction, which is public, and
\* their coinbase only pays out from the community fund.
ASSUME BalanceAssumption ==
    /\ \A t \in Tx : \A n \in DOMAIN Raw[t].vout :
          LET o == Raw[t].vout[n]
          IN  /\ o.type = "cfund_contribution" <=> o.asm = "OP_RETURN OP_CFUND"
              /\ o.type = "cfund_contribution" => ~ o.rangeProof
    /\ \A t \in Tx : MayBePrivate(t) /\ HasHidden(t) => PaysFee(t)
    /\ \A t \in Tx : PaysFee(t) => \A m, n \in DOMAIN Raw[t].vout :
          IsNulldata(Raw[t].vout[m]) /\ IsNulldata(Raw[t].vout[n]) => m = n
    /\ \A h \in PrivateHeight + 1 .. MaxHeight : \A txs \in Blocks[h] :
          /\ Len(txs) >= 2 /\ IsAnyStaking(txs[2]) /\ ~ IsPrivate(txs[2])
          /\ CFundPayout(txs[1]) = Sum([n \in Counted(txs[1]) |-> VoutValue(txs[1], n)])

TotalSupply(b) == b.supply.public + b.supply.private + b.supply.wrapped

\* The contributions of those who spend, of a block alone.
Contributions(b) ==
    {p \in Unspent(<<b>>) : Type(p[1]) = "spend" /\ OutputOf(p).type = "cfund_contribution"}

Conserved(b, previous) ==
    (TotalSupply(b) - TotalSupply(previous)) % WordSize
       = (b.stake + b.cfundPayout - b.fees - Coins(Contributions(b))) % WordSize

\* No transaction of a block turns private coins into wrapped ones or into
\* contributions.
KeepsApart(b) ==
    \A j \in DOMAIN b.txs : ~ WrapsPrivate(b.txs[j]) /\ ~ GivesPrivate(b.txs[j])

\* Two accounts of a block agree that are kept apart: what the supplies change
\* by, and what is staked and paid out less the fees and the contributions of
\* those who spend.
MoneyIsConserved ==
    Indexed /\ Last.height > PrivateHeight /\ KeepsApart(Last) =>
        Conserved(Last, chain[Last.height - 1])

\* The cycle a block is in, counted from block to block, follows from its height.
BlockCycleFollowsHeight ==
    Indexed =>
        Last.cycle = [size |-> CycleSize, cycle |-> (Last.height \div CycleSize) + 1,
                      index |-> Last.height % CycleSize]
=============================================================================
