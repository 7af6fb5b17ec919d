------------------------- MODULE TransactionsInvariant -------------------------
(***************************************************************************)
(* The inductive invariant of Transactions: how the transaction documents, *)
(* and those that are requested and not persisted, relate to the indexed   *)
(* blocks at each step, whatever a rewind or a kill left behind.           *)
(***************************************************************************)
EXTENDS Transactions

\* A search may come before the refresh only in a history deep enough that
\* whatever a search finds after a start with an empty index is of final blocks.
SafeSetting == Lags = {FALSE} \/ ReindexSize + BatchSize <= FinalHeight

-----------------------------------------------------------------------------
(* Where a transaction is *)

\* The transactions of a chain, each with the height of its block.
Placed(c) ==
    {p \in (DOMAIN c) \X Tx : \E j \in DOMAIN c[p[1]].txs : c[p[1]].txs[j] = p[2]}

\* The transactions of the unfinished block that are already requested.
Done == IF pc = "build" THEN Earlier(block.txs, at[1]) ELSE {}

\* Those that are indexed, the ones of the unfinished block included.
Places == Placed(chain) \cup {<<Len(chain) + 1, t>> : t \in Done}

UpTo(P, n) == {p \in P : p[1] <= n}

\* A transaction in some block there may be at a height.
MayBeAt(h, t) ==
    h \in 1 .. MaxHeight /\ \E txs \in Blocks[h] : \E j \in DOMAIN txs : txs[j] = t

\* A transaction of a final block.
Final(h, t) == h <= FinalHeight /\ MayBeAt(h, t)

\* What a kill in the first batch may have left of a block not yet indexed.
LeftOver(h, t) ==
    /\ phase = "batch" /\ ~ Settled
    /\ h <= BatchSize /\ h > Len(chain) /\ Final(h, t)

\* Each transaction has one place, spends earlier outputs, and no other spends
\* the same.
Legal(P) ==
    /\ \A p, q \in P : p[2] = q[2] => p = q
    /\ \A p \in P : \A i \in Inputs(p[2]) :
          \E q \in P : q[2] = Spent(p[2], i)[1] /\ q[1] <= p[1]
    /\ \A p, q \in P : \A i \in Inputs(p[2]), j \in Inputs(q[2]) :
          Spent(p[2], i) = Spent(q[2], j) => p[2] = q[2]

-----------------------------------------------------------------------------
(* Documents *)

\* The documents as the process sees them, which looks at its requests first.
Now == [t \in Tx |-> IF requests[t].type # "none" THEN requests[t].doc ELSE docs[t]]

IsMarked(d, n, u) == d.vout[n] = [redeemed |-> TRUE, by |-> u]

\* The transactions have their documents in d, with their heights.
Present(P, d) == \A p \in P : d[p[2]] # None /\ d[p[2]].height = p[1]

\* What they spend is marked there.
Marked(P, d) ==
    \A p \in P : \A i \in Inputs(p[2]) : IsMarked(d[Spent(p[2], i)[1]], Spent(p[2], i)[2], p[2])

Right(P, d) == Present(P, d) /\ (~ lag => Marked(P, d))

\* What the transaction under way has spent so far is marked.
CurrentMarked ==
    \A i \in 1 .. at[2] - 1 :
        IsMarked(Now[Spent(Current, i)[1]], Spent(Current, i)[2], Current)

-----------------------------------------------------------------------------
(* The steps of the process *)

Elements(s) == {s[i] : i \in DOMAIN s}

IsBlock(b) == DOMAIN b = DOMAIN NoBlock /\ b = [x \in DOMAIN b |-> b[x]]

\* The block under construction follows the chain.
BuildInv ==
    pc = "build" =>
        /\ IsBlock(block) /\ block.height = Len(chain) + 1 /\ Len(chain) < MaxHeight
        /\ block.txs \in Blocks[Len(chain) + 1] /\ MayFollow(block.txs)
        /\ block.stakedBy \in AnyAddress
        /\ at \in (1 .. Len(block.txs) + 1) \X (Nat \ {0})
        /\ Building => \A i \in 1 .. at[2] - 1 : i \in Inputs(Current)

\* What the steps say of the heights and the requests.
ShapeInv ==
    /\ chain \in Seq(Elements(chain)) /\ \A h \in DOMAIN chain : IsBlock(chain[h])
    /\ DOMAIN docs = Tx /\ DOMAIN seen = Tx
    /\ requests = [t \in Tx |-> requests[t]]
    /\ pc \in {"down", "check"} => requests = NoRequests /\ top = Len(chain)
    /\ pc = "index" /\ top = Len(chain) => requests = NoRequests
    /\ pc = "down" => phase = "boot"
    /\ pc = "check" => phase \in {"boot", "single"}
    /\ pc \in {"index", "build"} => phase \in {"batch", "single"}
    /\ pc = "index" /\ phase = "single" => Len(chain) <= top + 1
    /\ pc = "build" /\ phase = "single" => Len(chain) = top
    /\ \A h \in top + 1 .. Len(chain) - 1 : h % BatchSize # 0
    /\ pc = "build" /\ top < Len(chain) => Len(chain) % BatchSize # 0

TypeInv == TypeOK /\ ShapeInv /\ BuildInv

ChainInv == Legal(Places)

-----------------------------------------------------------------------------
(* The documents at each step *)

\* While blocks are indexed: what is persisted is right, and so is what is
\* requested; there is nothing else, but for what a kill left of the first batch.
IndexInv ==
    pc \in {"index", "build"} =>
        /\ Right(UpTo(Places, top), docs)
        /\ Right(Places, Now)
        /\ ~ lag /\ Building => CurrentMarked
        /\ \A t \in Requested : <<requests[t].doc.height, t>> \in Places
        /\ \A t \in Tx : docs[t] # None =>
              <<docs[t].height, t>> \in Places \/ LeftOver(docs[t].height, t)
        /\ lag => \A t \in Tx : seen[t] # None =>
              <<seen[t].height, t>> \in Places \/ Final(seen[t].height, t)

\* After a rewind.
CheckInv ==
    pc = "check" =>
        /\ Right(Places, docs)
        /\ \A t \in Tx : docs[t] # None => <<docs[t].height, t>> \in Places

\* When the process is not running.
DownInv ==
    pc = "down" =>
        /\ Right(UpTo(Places, TargetHeight), docs)
        /\ \A t \in Tx : docs[t] # None =>
              /\ docs[t].height <= TargetHeight => <<docs[t].height, t>> \in Places
              /\ docs[t].height <= Len(chain) + BatchSize
              /\ MayBeAt(docs[t].height, t)

\* An index without blocks has no document that is not of a final block.
EmptyInv ==
    pc \in {"down", "check"} /\ chain = <<>> /\ lag =>
        \A t \in Tx : seen[t] # None => Final(seen[t].height, t)

DataInv == ChainInv /\ IndexInv /\ CheckInv /\ DownInv /\ EmptyInv

\* An update finds its document.
UpdateInv == \A t \in Requested : requests[t].type = "update" => docs[t] # None

Inv == TypeInv /\ DataInv /\ UpdateInv

-----------------------------------------------------------------------------
(* Cycles and fees *)

CycleOf(h) == [size |-> CycleSize, cycle |-> (h \div CycleSize) + 1, index |-> h % CycleSize]

\* Each block follows the one before it.
CycleInv ==
    /\ \A h \in DOMAIN chain : chain[h].cycle = CycleOf(h)
    /\ pc = "build" => block.cycle = CycleOf(Len(chain) + 1)

\* A block that is so far staked by someone.
StakedSoFar(by) == [NoBlock EXCEPT !.stakedBy = by]

FirstStaker(txs) == StakedBy(txs[1], StakedSoFar(""))

\* The staker after the first transactions of a block, which are followed by
\* transactions that spend.
StakerAfter(txs, j) ==
    IF j = 0 THEN ""
    ELSE IF j = 1 \/ Type(txs[2]) = "spend" THEN FirstStaker(txs)
    ELSE StakedBy(txs[2], StakedSoFar(FirstStaker(txs)))

\* A block's staker is known from its transactions.
StakerInv ==
    /\ \A h \in DOMAIN chain : chain[h].stakedBy = StakerAfter(chain[h].txs, Len(chain[h].txs))
    /\ pc = "build" => block.stakedBy = StakerAfter(block.txs, at[1] - 1)

\* The blocks at a height that are indexed, under construction or final.
BlocksAt(h, c, b) ==
    {txs \in Blocks[h] : \/ h \in DOMAIN c /\ txs = c[h].txs
                         \/ h = b.height /\ txs = b.txs
                         \/ h <= FinalHeight}

\* The fee goes to the staker of such a block.
PaidRight(t, d, txs) ==
    PaysFee(t) =>
        /\ d.feeTo = StakerAfter(txs, Len(txs))
        /\ \A n \in DOMAIN Raw[t].vout : IsFeeOutput(t, n) => IsAnyStaking(d.vout[n].by)

Paid(t, d, c, b) == d # None => \A txs \in BlocksAt(d.height, c, b) : PaidRight(t, d, txs)

\* In whatever copy there is of a document.
FeeInv ==
    /\ \A t \in Tx : Paid(t, docs[t], chain, block) /\ Paid(t, requests[t].doc, chain, block)
    /\ lag => \A t \in Tx : Paid(t, seen[t], chain, block)

-----------------------------------------------------------------------------
(* Supplies *)

AllOutputs == UNION {{t} \X DOMAIN Raw[t].vout : t \in Tx}

\* What an output counts for in each supply.
ValueIf(S) == [p \in AllOutputs |-> IF p \in S THEN OutputOf(p).holds ELSE 0]

PublicValue  == ValueIf({p \in AllOutputs : IsPublic(p)})
WrappedValue == ValueIf({p \in AllOutputs : OutputIsWrapped(OutputOf(p))})
HiddenValue  == ValueIf({p \in AllOutputs : OutputOf(p).rangeProof})

\* What a transaction adds, if outputs have these values.
Net(v) ==
    [t \in Tx |-> SumFunction([n \in DOMAIN Raw[t].vout |-> v[<<t, n>>]])
                     - SumFunction([i \in Inputs(t) |-> v[Spent(t, i)]])]

AllNet(v, T) == SumFunctionOnSet(Net(v), T)

OutputsOf(T) == UNION {{t} \X DOMAIN Raw[t].vout : t \in T}

SpentBy(T) == UNION {{Spent(t, i) : i \in Inputs(t)} : t \in T}

\* Transactions that spend outputs of each other, and none twice.
Consistent(T) ==
    /\ T \subseteq Tx /\ IsFiniteSet(T)
    /\ SpentBy(T) \subseteq OutputsOf(T)
    /\ \A t, u \in T : \A i \in Inputs(t), j \in Inputs(u) :
          Spent(t, i) = Spent(u, j) => t = u /\ i = j

\* The transactions of the first blocks of a chain.
TxsTo(c, h) == UNION {Elements(c[k].txs) : k \in 1 .. h}

\* A block's supplies are what the transactions so far have added.
SuppliesRight(c, h) ==
    LET T == TxsTo(c, h)
    IN  (~ \E t \in T : Mistaken(t)) =>
          /\ c[h].supply.wrapped = AllNet(WrappedValue, T) % WordSize
          /\ c[h].supply.public = AllNet(PublicValue, T) % WordSize
          /\ h >= PrivateHeight /\ (~ \E t \in T : GivesHidden(t)) =>
                c[h].supply.private =
                   Plus(PrivateSupply, AllNet(HiddenValue, T)
                                          - AllNet(HiddenValue, TxsTo(c, PrivateHeight)))

SupplyInv ==
    /\ \A h \in DOMAIN chain : Consistent(TxsTo(chain, h)) /\ SuppliesRight(chain, h)
    /\ pc = "build" => block.supply = Last.supply

\* The coins there are can be counted.
CoinsFit == Coins(Unspent(chain)) < WordSize

-----------------------------------------------------------------------------
(* The accounts of a block *)

\* What a transaction adds to all supplies together.
Change(t) == PublicChange(t) + PrivateChange(t) + WrappedChange(t)

\* The fees of the first transactions of a block.
FeesTo(txs, k) == SumFunctionOnSet([j \in DOMAIN txs |-> Fees(txs[j])], 1 .. k)

\* What a block's first transactions have left in its accounts: the coinbase the
\* payout, and the transaction that stakes it the stake.
AccountsRight(b, k) ==
    /\ b.fees = FeesTo(b.txs, k) % WordSize
    /\ b.cfundPayout = IF k = 0 THEN 0 ELSE CFundPayout(b.txs[1])
    /\ b.height > PrivateHeight /\ k >= 2 =>
          b.stake = Minus(SpendableAmount(b.txs[2]), VinAmount(b.txs[2]))

Supplies == [public : 0 .. WordSize - 1, private : 0 .. WordSize - 1, wrapped : 0 .. WordSize - 1]

MoneyInv ==
    /\ \A h \in DOMAIN chain :
          /\ chain[h].supply \in Supplies
          /\ h > PrivateHeight /\ KeepsApart(chain[h]) => Conserved(chain[h], chain[h - 1])
    /\ pc = "build" =>
          block.supply = Last.supply /\ AccountsRight(block, at[1] - 1)
===============================================================================
