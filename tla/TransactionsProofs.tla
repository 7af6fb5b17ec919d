--------------------------- MODULE TransactionsProofs ---------------------------
(***************************************************************************)
(* Proofs about Transactions.                                              *)
(***************************************************************************)
EXTENDS TransactionsInvariant, FiniteSetTheorems, SequenceTheorems, WellFoundedInduction, TLAPS

LEMMA ConstantFact ==
    /\ BatchSize \in Nat /\ BatchSize >= 1 /\ BatchSize <= FinalHeight
    /\ ReindexSize \in Nat /\ BatchSize <= ReindexSize
    /\ FinalHeight \in Nat /\ FinalHeight >= 1 /\ FinalHeight <= MaxHeight
    /\ MaxHeight \in Nat /\ MaxKills \in Nat
    /\ Lags \subseteq BOOLEAN
    /\ \A h \in 1 .. MaxHeight : Blocks[h] \subseteq Seq(Tx)
    /\ \A n \in Targets : n \in Nat /\ n >= BatchSize
BY TransactionsAssumption DEF MaxHeight

-----------------------------------------------------------------------------
(* Places *)

\* A part of the places of a chain, up to a height, is legal if the whole is.
LEMMA LegalUpTo ==
    ASSUME NEW P, \A p \in P : p[1] \in Nat, Legal(P), NEW n \in Nat
    PROVE  Legal(UpTo(P, n))
<1>1. \A p \in UpTo(P, n) : p \in P /\ p[1] <= n
  BY DEF UpTo
<1>2. \A p \in UpTo(P, n) : \A i \in Inputs(p[2]) :
          \E q \in UpTo(P, n) : q[2] = Spent(p[2], i)[1] /\ q[1] <= p[1]
  <2> SUFFICES ASSUME NEW p \in UpTo(P, n), NEW i \in Inputs(p[2])
               PROVE  \E q \in UpTo(P, n) : q[2] = Spent(p[2], i)[1] /\ q[1] <= p[1]
    OBVIOUS
  <2>1. PICK q \in P : q[2] = Spent(p[2], i)[1] /\ q[1] <= p[1]
    BY <1>1 DEF Legal
  <2>2. q[1] <= n
    BY <1>1, <2>1
  <2> QED
    BY <2>1, <2>2 DEF UpTo
<1> QED
  BY <1>1, <1>2 DEF Legal

\* What is right for some transactions is right for fewer.
LEMMA RightFewer ==
    ASSUME NEW P, NEW Q, Q \subseteq P, NEW d, Right(P, d)
    PROVE  Right(Q, d)
BY DEF Right, Present, Marked

\* What is right in two states of the documents is right in any mixture of them.
LEMMA RightMixed ==
    ASSUME NEW P, P \subseteq Nat \X Tx, Legal(P), NEW d, NEW e, NEW m,
           Right(P, d), Right(P, e), \A t \in Tx : m[t] = d[t] \/ m[t] = e[t]
    PROVE  Right(P, m)
<1>1. \A p \in P : p[2] \in Tx
  OBVIOUS
<1>2. Present(P, m)
  BY <1>1 DEF Right, Present
<1>3. ASSUME Marked(P, d), Marked(P, e), NEW p \in P, NEW i \in Inputs(p[2])
      PROVE  IsMarked(m[Spent(p[2], i)[1]], Spent(p[2], i)[2], p[2])
  <2>1. PICK q \in P : q[2] = Spent(p[2], i)[1]
    BY DEF Legal
  <2>2. Spent(p[2], i)[1] \in Tx
    BY <1>1, <2>1
  <2>3. /\ IsMarked(d[Spent(p[2], i)[1]], Spent(p[2], i)[2], p[2])
        /\ IsMarked(e[Spent(p[2], i)[1]], Spent(p[2], i)[2], p[2])
    BY <1>3 DEF Marked
  <2>4. CASE m[Spent(p[2], i)[1]] = d[Spent(p[2], i)[1]]
    BY <2>3, <2>4
  <2>5. CASE m[Spent(p[2], i)[1]] = e[Spent(p[2], i)[1]]
    BY <2>3, <2>5
  <2> QED
    BY <2>2, <2>4, <2>5
<1> QED
  BY <1>2, <1>3 DEF Right, Marked

\* Documents that are the same for these transactions are right if the others are.
LEMMA RightSame ==
    ASSUME NEW P, P \subseteq Nat \X Tx, Legal(P), NEW d, NEW m,
           Right(P, d), \A p \in P : m[p[2]] = d[p[2]]
    PROVE  Right(P, m)
<1>1. Present(P, m)
  BY DEF Right, Present
<1>2. ASSUME Marked(P, d), NEW p \in P, NEW i \in Inputs(p[2])
      PROVE  IsMarked(m[Spent(p[2], i)[1]], Spent(p[2], i)[2], p[2])
  <2>1. PICK q \in P : q[2] = Spent(p[2], i)[1]
    BY DEF Legal
  <2>2. m[Spent(p[2], i)[1]] = d[Spent(p[2], i)[1]]
    BY <2>1
  <2> QED
    BY <1>2, <2>2 DEF Marked
<1> QED
  BY <1>1, <1>2 DEF Right, Marked

\* A chain with one more block has the places of the chain and those of the block.
LEMMA PlacedAppend ==
    ASSUME NEW c, c \in Seq(Elements(c)), NEW b
    PROVE  /\ Append(c, b) \in Seq(Elements(Append(c, b)))
           /\ Len(Append(c, b)) = Len(c) + 1 /\ Len(c) \in Nat
           /\ \A h \in DOMAIN c : Append(c, b)[h] = c[h]
           /\ DOMAIN Append(c, b) = 1 .. Len(c) + 1
           /\ Append(c, b)[Len(c) + 1] = b
           /\ Placed(Append(c, b)) = Placed(c) \cup
                 {<<Len(c) + 1, t>> : t \in {u \in Tx : \E j \in DOMAIN b.txs : b.txs[j] = u}}
<1> DEFINE a == Append(c, b)
<1>1. /\ Len(c) \in Nat /\ DOMAIN c = 1 .. Len(c)
      /\ Len(a) = Len(c) + 1 /\ DOMAIN a = 1 .. Len(c) + 1
      /\ \A h \in 1 .. Len(c) : a[h] = c[h]
      /\ a[Len(c) + 1] = b
  OBVIOUS
<1>2. a \in [1 .. Len(c) + 1 -> Elements(a)]
  <2>1. a \in Seq(Elements(c) \cup {b})
    BY DEF Elements
  <2>2. a \in [1 .. Len(c) + 1 -> Elements(c) \cup {b}]
    BY <1>1, <2>1, LenProperties
  <2> HIDE DEF a
  <2> QED
    BY <1>1, <2>2 DEF Elements
<1>3. a \in Seq(Elements(a))
  <2> HIDE DEF a
  <2> QED
    BY <1>1, <1>2
<1>4. \A p : p \in Placed(a) <=> p \in Placed(c) \cup
                {<<Len(c) + 1, t>> : t \in {u \in Tx : \E j \in DOMAIN b.txs : b.txs[j] = u}}
  <2> SUFFICES ASSUME NEW h \in 1 .. Len(c) + 1, NEW t \in Tx
               PROVE  <<h, t>> \in Placed(a) <=>
                         \/ <<h, t>> \in Placed(c)
                         \/ h = Len(c) + 1 /\ \E j \in DOMAIN b.txs : b.txs[j] = t
    BY <1>1 DEF Placed
  <2> HIDE DEF a
  <2>1. CASE h \in 1 .. Len(c)
    BY <1>1, <2>1 DEF Placed
  <2>2. CASE h = Len(c) + 1
    BY <1>1, <2>2 DEF Placed
  <2> QED
    BY <1>1, <2>1, <2>2
<1> QED
  BY <1>1, <1>3, <1>4

\* The places of a chain that is cut off are those up to there.
LEMMA PlacedCut ==
    ASSUME NEW c, c \in Seq(Elements(c)), NEW n \in 0 .. Len(c)
    PROVE  /\ SubSeq(c, 1, n) \in Seq(Elements(SubSeq(c, 1, n)))
           /\ Len(SubSeq(c, 1, n)) = n /\ n \in Nat
           /\ DOMAIN SubSeq(c, 1, n) = 1 .. n
           /\ \A h \in 1 .. n : h \in DOMAIN c /\ SubSeq(c, 1, n)[h] = c[h]
           /\ Placed(SubSeq(c, 1, n)) = UpTo(Placed(c), n)
<1> DEFINE a == SubSeq(c, 1, n)
<1>1. /\ Len(c) \in Nat /\ DOMAIN c = 1 .. Len(c)
      /\ Len(a) = n /\ DOMAIN a = 1 .. n /\ n \in Nat
      /\ \A h \in 1 .. n : h \in DOMAIN c /\ a[h] = c[h]
      /\ a \in Seq(Elements(c))
  OBVIOUS
<1>2. a \in [1 .. n -> Elements(a)]
  <2>1. a \in [1 .. n -> Elements(c)]
    BY <1>1, LenProperties
  <2> HIDE DEF a
  <2> QED
    BY <1>1, <2>1 DEF Elements
<1>3. a \in Seq(Elements(a))
  <2> HIDE DEF a
  <2> QED
    BY <1>1, <1>2
<1>4. \A p : p \in Placed(a) <=> p \in UpTo(Placed(c), n)
  <2> HIDE DEF a
  <2> QED
    BY <1>1 DEF Placed, UpTo
<1> QED
  BY <1>1, <1>3, <1>4

-----------------------------------------------------------------------------
(* What the types say *)

LEMMA TypeFact ==
    ASSUME TypeInv
    PROVE  /\ target \in Nat /\ target >= BatchSize /\ lag \in BOOLEAN
           /\ chain \in Seq(Elements(chain)) /\ DOMAIN chain = 1 .. Len(chain)
           /\ Len(chain) \in Nat /\ Len(chain) <= MaxHeight
           /\ top \in Nat /\ top <= Len(chain)
           /\ \A h \in 1 .. Len(chain) :
                 /\ chain[h].height = h /\ chain[h].txs \in Blocks[h] /\ IsBlock(chain[h])
                 /\ chain[h].txs \in Seq(Tx)
           /\ chain = <<>> <=> Len(chain) = 0
<1>1. /\ chain \in Seq(Elements(chain)) /\ DOMAIN chain = 1 .. Len(chain)
      /\ Len(chain) \in Nat
  BY DEF TypeInv, ShapeInv
<1> QED
  BY <1>1, ConstantFact DEF TypeInv, TypeOK, ShapeInv

\* A document that is there is a record.
LEMMA DocFact ==
    ASSUME NEW t, NEW d, IsDocument(t, d)
    PROVE  /\ d # None <=> d.height # 0
           /\ d # None => /\ d.height \in 1 .. MaxHeight /\ d.feeTo \in AnyAddress
                          /\ d.vout \in [DOMAIN Raw[t].vout -> Redeemed]
                          /\ d = [height |-> d.height, feeTo |-> d.feeTo, vout |-> d.vout]
BY ConstantFact DEF IsDocument, None

\* The inputs of a transaction are all of them, and spend outputs there are.
LEMMA InputFact ==
    ASSUME NEW t \in Tx
    PROVE  /\ \E n \in Nat : Inputs(t) = 1 .. n
           /\ \A i \in Inputs(t) :
                 /\ Spent(t, i) = <<Spent(t, i)[1], Spent(t, i)[2]>>
                 /\ Spent(t, i)[1] \in Tx
                 /\ Spent(t, i)[2] \in DOMAIN Raw[Spent(t, i)[1]].vout
<1>1. /\ Len(Raw[t].vin) \in Nat /\ DOMAIN Raw[t].vin = 1 .. Len(Raw[t].vin)
  BY RawAssumption, LenProperties
<1>2. (\E i \in DOMAIN Raw[t].vin : Raw[t].vin[i].coinbase) => Len(Raw[t].vin) = 1
  BY RawAssumption
<1>3. Inputs(t) \subseteq DOMAIN Raw[t].vin
  BY DEF Inputs
<1>4. \E n \in Nat : Inputs(t) = 1 .. n
  <2>1. CASE \E i \in DOMAIN Raw[t].vin : Raw[t].vin[i].coinbase
    <3>1. Inputs(t) = 1 .. 0
      BY <1>1, <1>2, <1>3, <2>1 DEF Inputs
    <3> QED
      BY <3>1
  <2>2. CASE \A i \in DOMAIN Raw[t].vin : ~ Raw[t].vin[i].coinbase
    <3>1. Inputs(t) = 1 .. Len(Raw[t].vin)
      BY <1>1, <2>2 DEF Inputs
    <3> QED
      BY <1>1, <3>1
  <2> QED
    BY <2>1, <2>2
<1>5. \A i \in Inputs(t) : RawVin(Raw[t].vin[i]) /\ ~ Raw[t].vin[i].coinbase
  BY RawAssumption DEF Inputs
<1> QED
  BY <1>4, <1>5 DEF RawVin, Spent

LEMMA PlacedType ==
    ASSUME TypeInv, NEW p \in Placed(chain)
    PROVE  /\ p = <<p[1], p[2]>> /\ p[1] \in 1 .. Len(chain) /\ p[2] \in Tx
           /\ MayBeAt(p[1], p[2])
<1>1. p[1] \in 1 .. Len(chain)
  BY TypeFact DEF Placed
<1> QED
  BY <1>1, TypeFact, ConstantFact DEF Placed, MayBeAt

\* The places of the indexed transactions.
LEMMA PlacesType ==
    ASSUME TypeInv, NEW p \in Places
    PROVE  /\ p = <<p[1], p[2]>> /\ p[1] \in 1 .. MaxHeight /\ p[2] \in Tx
           /\ p[1] <= Len(chain) + 1 /\ (pc # "build" => p[1] <= Len(chain))
           /\ MayBeAt(p[1], p[2])
<1>1. CASE p \in Placed(chain)
  BY <1>1, PlacedType, TypeFact, ConstantFact
<1>2. CASE p \notin Placed(chain)
  <2>1. pc = "build" /\ p = <<Len(chain) + 1, p[2]>> /\ p[2] \in Earlier(block.txs, at[1])
    BY <1>2 DEF Places, Done
  <2>2. /\ block.txs \in Blocks[Len(chain) + 1] /\ Len(chain) < MaxHeight
        /\ at[1] \in 1 .. Len(block.txs) + 1
    BY <2>1 DEF TypeInv, BuildInv
  <2>3. Len(chain) + 1 \in 1 .. MaxHeight
    BY <2>2, TypeFact, ConstantFact
  <2>4. block.txs \in Seq(Tx)
    BY <2>2, <2>3, ConstantFact
  <2>5. PICK j \in 1 .. at[1] - 1 : p[2] = block.txs[j]
    BY <2>1 DEF Earlier
  <2>6. j \in DOMAIN block.txs
    BY <2>2, <2>4, <2>5
  <2> QED
    BY <2>1, <2>2, <2>3, <2>4, <2>5, <2>6 DEF MayBeAt
<1> QED
  BY <1>1, <1>2

\* There is only one block at a final height, and a transaction is in one of them.
LEMMA FinalUnique ==
    ASSUME NEW h, NEW k, NEW t, Final(h, t), Final(k, t)
    PROVE  h = k
<1>1. h \in 1 .. FinalHeight /\ k \in 1 .. FinalHeight
  BY ConstantFact DEF Final, MayBeAt
<1> QED
  BY <1>1, TransactionsAssumption DEF Final, MayBeAt

LEMMA FinalBlock ==
    ASSUME NEW h \in 1 .. FinalHeight, NEW txs \in Blocks[h], NEW others \in Blocks[h]
    PROVE  txs = others
BY TransactionsAssumption

\* A transaction of a final block is nowhere else.
LEMMA FinalPlace ==
    ASSUME TypeInv, ChainInv, NEW h, NEW k, NEW t, <<h, t>> \in Places, Final(k, t)
    PROVE  h = k
<1>1. h \in 1 .. MaxHeight /\ h <= Len(chain) + 1 /\ MayBeAt(h, t) /\ t \in Tx
  BY PlacesType
<1>2. k \in 1 .. FinalHeight /\ MayBeAt(k, t)
  BY ConstantFact DEF Final, MayBeAt
<1>3. CASE k <= Len(chain)
  <2>1. PICK txs \in Blocks[k] : \E j \in DOMAIN txs : txs[j] = t
    BY <1>2 DEF MayBeAt
  <2>2. k \in 1 .. Len(chain)
    BY <1>2, <1>3, TypeFact, ConstantFact
  <2>3. chain[k].txs = txs
    BY <1>2, <2>1, <2>2, TypeFact, FinalBlock
  <2>4. <<k, t>> \in Placed(chain)
    BY <1>1, <2>1, <2>2, <2>3, TypeFact DEF Placed
  <2>5. <<k, t>> \in Places
    BY <2>4 DEF Places
  <2>6. <<h, t>> = <<k, t>>
    BY <2>5 DEF ChainInv, Legal
  <2> QED
    BY <2>6
<1>4. CASE k > Len(chain)
  <2>1. h <= FinalHeight
    BY <1>1, <1>2, <1>4, TypeFact, ConstantFact
  <2> QED
    BY <1>1, <2>1, FinalUnique DEF Final
<1> QED
  BY <1>2, <1>3, <1>4, TypeFact

\* Among BatchSize heights in a row there is one at which a batch ends.
LEMMA MultipleInBatch ==
    ASSUME NEW n \in Nat
    PROVE  \E h \in n + 1 .. n + BatchSize : h % BatchSize = 0
<1> DEFINE r == n % BatchSize
           q == n \div BatchSize
           h == n + BatchSize - r
<1>1. r \in 0 .. BatchSize - 1 /\ q \in Nat /\ n = BatchSize * q + r
  BY ConstantFact
<1>2. h \in n + 1 .. n + BatchSize
  BY <1>1, ConstantFact
<1>3. h = BatchSize * (q + 1)
  BY <1>1, ConstantFact
<1>4. (BatchSize * (q + 1)) % BatchSize = 0
  BY <1>1, ConstantFact
<1> QED
  BY <1>2, <1>3, <1>4

\* No more than a batch waits to be persisted.
LEMMA ReachFact ==
    ASSUME TypeInv
    PROVE  /\ Len(chain) <= top + BatchSize
           /\ pc = "build" => Len(chain) + 1 <= top + BatchSize
<1>1. PICK h \in top + 1 .. top + BatchSize : h % BatchSize = 0
  BY TypeFact, MultipleInBatch
<1>2. h \notin top + 1 .. Len(chain) - 1
  BY <1>1 DEF TypeInv, ShapeInv
<1>3. Len(chain) <= h
  BY <1>1, <1>2, TypeFact, ConstantFact
<1>4. pc = "build" /\ top < Len(chain) => Len(chain) # h
  BY <1>1 DEF TypeInv, ShapeInv
<1>5. /\ h \in Nat /\ h <= top + BatchSize /\ top \in Nat /\ Len(chain) \in Nat
      /\ top <= Len(chain) /\ BatchSize \in Nat /\ BatchSize >= 1
  BY TypeFact, ConstantFact
<1>6. CASE top < Len(chain)
  BY <1>3, <1>4, <1>5, <1>6
<1>7. CASE top = Len(chain)
  BY <1>5, <1>7
<1> QED
  BY <1>5, <1>6, <1>7

\* Where nothing is built the indexed transactions are those of the chain.
LEMMA PlacesIdle ==
    ASSUME pc # "build"
    PROVE  Places = Placed(chain)
BY DEF Places, Done

LEMMA PlacesBuild ==
    ASSUME TypeInv, pc = "build"
    PROVE  Places = Placed(chain) \cup {<<Len(chain) + 1, t>> : t \in Earlier(block.txs, at[1])}
BY DEF Places, Done

\* What is built: a transaction in a block, at its height.
LEMMA BuildFact ==
    ASSUME TypeInv, pc = "build"
    PROVE  /\ Len(chain) + 1 \in 1 .. MaxHeight
           /\ block.height = Len(chain) + 1 /\ IsBlock(block) /\ block.stakedBy \in AnyAddress
           /\ block.txs \in Blocks[Len(chain) + 1] /\ block.txs \in Seq(Tx)
           /\ Len(block.txs) \in Nat /\ DOMAIN block.txs = 1 .. Len(block.txs)
           /\ at = <<at[1], at[2]>> /\ at[1] \in 1 .. Len(block.txs) + 1 /\ at[2] \in Nat \ {0}
           /\ Building => at[1] \in DOMAIN block.txs /\ Current \in Tx
<1>1. /\ IsBlock(block) /\ block.height = Len(chain) + 1 /\ Len(chain) < MaxHeight
      /\ block.txs \in Blocks[Len(chain) + 1] /\ block.stakedBy \in AnyAddress
      /\ at = <<at[1], at[2]>> /\ at[1] \in 1 .. Len(block.txs) + 1 /\ at[2] \in Nat \ {0}
  BY DEF TypeInv, BuildInv
<1>2. Len(chain) + 1 \in 1 .. MaxHeight
  BY <1>1, TypeFact, ConstantFact
<1>3. block.txs \in Seq(Tx)
  BY <1>1, <1>2, ConstantFact
<1>4. Len(block.txs) \in Nat /\ DOMAIN block.txs = 1 .. Len(block.txs)
  BY <1>3
<1>5. Building => at[1] \in DOMAIN block.txs
  BY <1>1, <1>4 DEF Building
<1> QED
  BY <1>1, <1>2, <1>3, <1>4, <1>5 DEF Current

\* The transaction that comes next is new, and spends what is there and is not
\* spent.
LEMMA FetchedFact ==
    ASSUME TypeInv, Building
    PROVE  /\ \A p \in Places : p[2] # Current
           /\ \A i \in Inputs(Current) : \E q \in Places : q[2] = Spent(Current, i)[1]
           /\ \A p \in Places : \A i \in Inputs(Current), j \in Inputs(p[2]) :
                 Spent(p[2], j) # Spent(Current, i)
<1> DEFINE earlier == Earlier(block.txs, at[1])
<1>1. pc = "build" /\ at[1] \in DOMAIN block.txs
  BY BuildFact DEF Building
<1>2. /\ Current \notin ChainTxs(chain) \cup earlier
      /\ \A i \in Inputs(Current) :
            /\ Spent(Current, i)[1] \in ChainTxs(chain) \cup earlier
            /\ Spent(Current, i) \notin ChainSpent(chain)
                  \cup UNION {{Spent(t, k) : k \in Inputs(t)} : t \in earlier}
  BY <1>1 DEF TypeInv, BuildInv, MayFollow, Current
<1>3. Places = Placed(chain) \cup {<<Len(chain) + 1, t>> : t \in earlier}
  BY <1>1, PlacesBuild
<1>4. \A p \in Places : p[2] \in ChainTxs(chain) \cup earlier
  BY <1>3, TypeFact DEF Placed, ChainTxs
<1>5. \A t \in ChainTxs(chain) \cup earlier : \E q \in Places : q[2] = t
  <2>1. ASSUME NEW h \in DOMAIN chain, NEW j \in DOMAIN chain[h].txs
        PROVE  <<h, chain[h].txs[j]>> \in Places
    <3>1. chain[h].txs[j] \in Tx
      BY <2>1, TypeFact
    <3> QED
      BY <1>3, <3>1 DEF Placed
  <2>2. ASSUME NEW t \in ChainTxs(chain)
        PROVE  \E q \in Places : q[2] = t
    <3>1. PICK h \in DOMAIN chain : \E j \in DOMAIN chain[h].txs : t = chain[h].txs[j]
      BY DEF ChainTxs
    <3>2. <<h, t>> \in Places
      BY <2>1, <3>1
    <3> QED
      BY <3>2
  <2>3. ASSUME NEW t \in earlier
        PROVE  \E q \in Places : q[2] = t
    <3>1. <<Len(chain) + 1, t>> \in Places
      BY <1>3
    <3> QED
      BY <3>1
  <2> QED
    BY <2>2, <2>3
<1>6. ASSUME NEW p \in Places, NEW j \in Inputs(p[2])
      PROVE  Spent(p[2], j) \in ChainSpent(chain)
                  \cup UNION {{Spent(t, k) : k \in Inputs(t)} : t \in earlier}
  <2>1. CASE p \in Placed(chain)
    <3>1. p[1] \in DOMAIN chain /\ \E k \in DOMAIN chain[p[1]].txs : chain[p[1]].txs[k] = p[2]
      BY <2>1 DEF Placed
    <3>2. Spent(p[2], j) \in SpentIn(chain[p[1]].txs)
      BY <1>6, <3>1 DEF SpentIn
    <3> QED
      BY <3>1, <3>2 DEF ChainSpent
  <2>2. CASE p[2] \in earlier
    BY <1>6, <2>2
  <2> QED
    BY <1>3, <2>1, <2>2
<1> QED
  BY <1>2, <1>4, <1>5, <1>6

-----------------------------------------------------------------------------
(* Blocks *)

Fields == {"height", "txs", "stake", "stakedBy", "spend", "fees", "cfundPayout", "supply", "cycle"}

LEMMA NoBlockFact ==
    DOMAIN NoBlock = Fields /\ IsBlock(NoBlock) /\ NoBlock.height = 0 /\ NoBlock.stakedBy = ""
BY DEF NoBlock, Fields, IsBlock

\* To set one field of a block leaves the others as they are.
LEMMA SetField ==
    ASSUME NEW b, IsBlock(b), NEW f \in Fields, NEW v
    PROVE  /\ IsBlock([b EXCEPT ![f] = v])
           /\ [b EXCEPT ![f] = v][f] = v
           /\ \A g \in Fields \ {f} : [b EXCEPT ![f] = v][g] = b[g]
<1>1. DOMAIN b = Fields /\ b = [x \in Fields |-> b[x]]
  BY NoBlockFact DEF IsBlock
<1> QED
  BY <1>1, NoBlockFact DEF IsBlock

\* What a transaction adds to a block leaves its height, its transactions and its
\* cycle.
SameBlock(b, c) ==
    IsBlock(c) /\ c.height = b.height /\ c.txs = b.txs /\ c.cycle = b.cycle

LEMMA MinFact ==
    ASSUME NEW S, S \subseteq Nat, S # {}
    PROVE  Min(S) \in S
<1> DEFINE Less == {p \in Nat \X Nat : p[1] < p[2]}
<1>1. IsWellFoundedOn(Less, Nat)
  BY NatLessThanWellFounded DEF OpToRel
<1>2. PICK x \in S : \A y \in S : <<y, x>> \notin Less
  BY <1>1, WFMin
<1>3. ASSUME NEW y \in S PROVE x <= y
  <2>1. x \in Nat /\ y \in Nat /\ <<y, x>> \notin Less
    BY <1>2
  <2>2. ~ (y < x)
    BY <2>1
  <2> QED
    BY <2>1, <2>2
<1> QED
  BY <1>3 DEF Min

\* Whoever a transaction is staked by is an address, or none.
LEMMA FirstAddressType ==
    ASSUME NEW s, NEW D, D = DOMAIN s, D \subseteq Nat, \A i \in D : s[i] \in Seq(Address)
    PROVE  FirstAddress(s) \in AnyAddress
<1> DEFINE with == {i \in DOMAIN s : s[i] # <<>>}
<1>1. FirstAddress(s) = IF with = {} THEN "" ELSE s[Min(with)][1]
  BY DEF FirstAddress
<1>2. CASE with # {}
  <2>1. with \subseteq Nat
    OBVIOUS
  <2>2. Min(with) \in with
    BY <1>2, <2>1, MinFact
  <2>3. s[Min(with)] \in Seq(Address) /\ s[Min(with)] # <<>>
    BY <2>2
  <2>4. \A a \in Seq(Address) : a # <<>> => a[1] \in Address
    OBVIOUS
  <2> QED
    BY <1>1, <1>2, <2>3, <2>4 DEF AnyAddress
<1> HIDE DEF with
<1>3. CASE with = {}
  BY <1>1, <1>3 DEF AnyAddress
<1> QED
  BY <1>2, <1>3

LEMMA StakedByType ==
    ASSUME NEW t \in Tx, NEW b, b.stakedBy \in AnyAddress
    PROVE  StakedBy(t, b) \in AnyAddress
<1> DEFINE ins == [i \in DOMAIN Raw[t].vin |->
                      IF i \in Inputs(t) THEN VinAddresses(t, i) ELSE <<>>]
           outs == [n \in DOMAIN Raw[t].vout |-> Raw[t].vout[n].addresses]
<1>1. DOMAIN Raw[t].vin \subseteq Nat /\ DOMAIN Raw[t].vout \subseteq Nat
  <2>1. /\ DOMAIN Raw[t].vin = 1 .. Len(Raw[t].vin) /\ Len(Raw[t].vin) \in Nat
        /\ DOMAIN Raw[t].vout = 1 .. Len(Raw[t].vout) /\ Len(Raw[t].vout) \in Nat
    BY RawAssumption, LenProperties
  <2> QED
    BY <2>1
<1>2. \A u \in Tx : \A n \in DOMAIN Raw[u].vout : Raw[u].vout[n].addresses \in Seq(Address)
  BY RawAssumption DEF RawVout
<1>3. \A i \in Inputs(t) : VinAddresses(t, i) \in Seq(Address)
  BY <1>2, InputFact DEF VinAddresses, OutputOf
<1>4. FirstAddress(ins) \in AnyAddress
  <2>1. DOMAIN ins = DOMAIN Raw[t].vin /\ \A i \in DOMAIN Raw[t].vin : ins[i] \in Seq(Address)
    <3>1. <<>> \in Seq(Address)
      OBVIOUS
    <3> QED
      BY <1>3, <3>1
  <2> HIDE DEF ins
  <2> QED
    BY <1>1, <2>1, FirstAddressType
<1>5. FirstAddress(outs) \in AnyAddress
  <2>1. DOMAIN outs = DOMAIN Raw[t].vout /\ \A i \in DOMAIN Raw[t].vout : outs[i] \in Seq(Address)
    BY <1>2
  <2> HIDE DEF outs
  <2> QED
    BY <1>1, <2>1, FirstAddressType
<1>6. StakedBy(t, b) \in {FirstAddress(ins), FirstAddress(outs), b.stakedBy}
  BY DEF StakedBy
<1> HIDE DEF ins, outs
<1> QED
  BY <1>4, <1>5, <1>6

LEMMA CreatedBlockFact ==
    ASSUME NEW txs, NEW previous
    PROVE  LET b == CreateBlock(txs, previous) IN
           /\ IsBlock(b) /\ b.height = previous.height + 1 /\ b.txs = txs /\ b.stakedBy = ""
           /\ b.cycle = CreateBlockCycle(CycleSize, previous)
BY DEF CreateBlock, NoBlock, IsBlock

LEMMA AddedTransactionFact ==
    ASSUME NEW t \in Tx, NEW b, IsBlock(b), b.stakedBy \in AnyAddress
    PROVE  /\ SameBlock(b, CreateBlockTransaction(t, b))
           /\ CreateBlockTransaction(t, b).supply = b.supply
           /\ CreateBlockTransaction(t, b).stakedBy \in AnyAddress
           /\ CreateBlockTransaction(t, b).stakedBy
                 = (IF Type(t) = "spend" THEN b.stakedBy ELSE StakedBy(t, b))
<1> DEFINE b0 == [b EXCEPT !.stake = Stake(t, b)]
           b1 == ApplyStaking(t, b)
           b2 == ApplySpend(t, b1)
           b3 == ApplyCFundPayout(t, b2)
           b4 == ApplyFees(t, b3)
<1>1. /\ IsBlock(b1) /\ SameBlock(b, b1) /\ b1.supply = b.supply
      /\ b1.stakedBy = (IF Type(t) = "spend" THEN b.stakedBy ELSE StakedBy(t, b))
  <2>1. IsBlock(b0) /\ SameBlock(b, b0) /\ b0.stakedBy = b.stakedBy /\ b0.supply = b.supply
    BY SetField DEF SameBlock, Fields
  <2>2. b1 = IF Type(t) = "spend" THEN b ELSE [b0 EXCEPT !.stakedBy = StakedBy(t, b)]
    BY DEF ApplyStaking
  <2> HIDE DEF b0, b1
  <2>3. /\ IsBlock([b0 EXCEPT !.stakedBy = StakedBy(t, b)])
        /\ SameBlock(b0, [b0 EXCEPT !.stakedBy = StakedBy(t, b)])
        /\ [b0 EXCEPT !.stakedBy = StakedBy(t, b)].stakedBy = StakedBy(t, b)
        /\ [b0 EXCEPT !.stakedBy = StakedBy(t, b)].supply = b0.supply
    BY <2>1, SetField DEF SameBlock, Fields
  <2> QED
    BY <2>1, <2>2, <2>3 DEF SameBlock
<1> HIDE DEF b1
<1>2. IsBlock(b2) /\ SameBlock(b1, b2) /\ b2.stakedBy = b1.stakedBy /\ b2.supply = b1.supply
  BY <1>1, SetField DEF ApplySpend, SameBlock, Fields
<1> HIDE DEF b2
<1>3. IsBlock(b3) /\ SameBlock(b2, b3) /\ b3.stakedBy = b2.stakedBy /\ b3.supply = b2.supply
  BY <1>2, SetField DEF ApplyCFundPayout, SameBlock, Fields
<1> HIDE DEF b3
<1>4. IsBlock(b4) /\ SameBlock(b3, b4) /\ b4.stakedBy = b3.stakedBy /\ b4.supply = b3.supply
  BY <1>3, SetField DEF ApplyFees, SameBlock, Fields
<1>5. CreateBlockTransaction(t, b) = b4
  BY DEF CreateBlockTransaction, b1, b2, b3, b4
<1> HIDE DEF b4
<1>6. b4.stakedBy \in AnyAddress
  BY <1>1, <1>2, <1>3, <1>4, StakedByType
<1> QED
  BY <1>1, <1>2, <1>3, <1>4, <1>5, <1>6 DEF SameBlock

LEMMA UpdatedSupplyFact ==
    ASSUME NEW b, IsBlock(b)
    PROVE  /\ SameBlock(b, UpdateSupply(b)) /\ UpdateSupply(b).stakedBy = b.stakedBy
           /\ UpdateSupply(b).supply = SupplyAfter(b)
BY SetField DEF UpdateSupply, SameBlock, Fields

-----------------------------------------------------------------------------
(* Documents and requests *)

LEMMA RedeemFact ==
    ASSUME NEW t \in Tx, NEW d, IsDocument(t, d), d # None,
           NEW n \in DOMAIN Raw[t].vout, NEW u \in Tx
    PROVE  LET e == Redeem(d, n, u) IN
           /\ IsDocument(t, e) /\ e # None /\ e.height = d.height /\ e.feeTo = d.feeTo
           /\ IsMarked(e, n, u)
           /\ \A m \in DOMAIN Raw[t].vout : m # n => e.vout[m] = d.vout[m]
<1> DEFINE e == Redeem(d, n, u)
           mark == [redeemed |-> TRUE, by |-> u]
<1>1. /\ d.height \in 1 .. MaxHeight /\ d.feeTo \in AnyAddress
      /\ d.vout \in [DOMAIN Raw[t].vout -> Redeemed]
      /\ d = [height |-> d.height, feeTo |-> d.feeTo, vout |-> d.vout]
  BY DocFact
<1>2. e = [height |-> d.height, feeTo |-> d.feeTo, vout |-> [d.vout EXCEPT ![n] = mark]]
  <2>1. PICK h, f, v : d = [height |-> h, feeTo |-> f, vout |-> v]
    BY <1>1
  <2>2. d.height = h /\ d.feeTo = f /\ d.vout = v
    BY <2>1
  <2>3. e = [d EXCEPT !.vout = [d.vout EXCEPT ![n] = mark]]
    BY DEF Redeem
  <2> QED
    BY <2>1, <2>2, <2>3
<1>3. mark \in Redeemed
  BY DEF Redeemed
<1> DEFINE v == [d.vout EXCEPT ![n] = mark]
<1>4. /\ v \in [DOMAIN Raw[t].vout -> Redeemed] /\ v[n] = mark
      /\ \A m \in DOMAIN Raw[t].vout : m # n => v[m] = d.vout[m]
  BY <1>1, <1>3
<1> HIDE DEF v
<1>5. e = [height |-> d.height, feeTo |-> d.feeTo, vout |-> v]
  BY <1>2 DEF v
<1> HIDE DEF e
<1>6. IsDocument(t, e)
  BY <1>1, <1>4, <1>5 DEF IsDocument
<1>7. e.height = d.height /\ e.feeTo = d.feeTo /\ e.vout = v
  BY <1>5
<1>8. e # None
  BY <1>1, <1>6, <1>7, DocFact
<1>9. IsMarked(e, n, u)
  BY <1>4, <1>7 DEF IsMarked
<1> QED
  BY <1>4, <1>6, <1>7, <1>8, <1>9 DEF e

LEMMA AddRequestFact ==
    ASSUME requests = [u \in Tx |-> requests[u]], NEW t \in Tx, NEW type, NEW doc,
           AddRequest(t, type, doc)
    PROVE  /\ requests' = [u \in Tx |-> requests'[u]]
           /\ requests'[t].doc = doc
           /\ requests'[t].type = (IF requests[t].type = "index" THEN "index" ELSE type)
           /\ \A u \in Tx \ {t} : requests'[u] = requests[u]
BY DEF AddRequest

LEMMA CreatedFact ==
    ASSUME TypeInv, Building
    PROVE  /\ IsDocument(Current, Created(Current, block))
           /\ Created(Current, block) # None
           /\ Created(Current, block).height = Len(chain) + 1
<1> DEFINE d == Created(Current, block)
           by(n) == IF IsFeeOutput(Current, n) THEN [redeemed |-> FALSE, by |-> block.txs[2]]
                    ELSE NotRedeemed
<1>1. pc = "build" /\ at[1] \in DOMAIN block.txs /\ Current = block.txs[at[1]]
  BY BuildFact DEF Building, Current
<1>2. /\ block.height \in 1 .. MaxHeight /\ block.height = Len(chain) + 1
      /\ block.stakedBy \in AnyAddress
      /\ block.txs \in Blocks[block.height] /\ block.txs \in Seq(Tx)
      /\ Len(block.txs) \in Nat /\ DOMAIN block.txs = 1 .. Len(block.txs)
  BY <1>1, BuildFact
<1>3. ASSUME NEW n \in DOMAIN Raw[Current].vout PROVE by(n) \in Redeemed
  <2>1. CASE IsFeeOutput(Current, n)
    <3>1. ~ IsCoinbase(Current)
      BY <2>1 DEF IsFeeOutput, MayBePrivate
    <3>2. at[1] # 1
      BY <1>1, <1>2, <3>1, TransactionsAssumption
    <3>3. 2 \in DOMAIN block.txs
      BY <1>1, <1>2, <3>2
    <3>4. block.txs[2] \in Tx
      BY <1>2, <3>3
    <3> QED
      BY <2>1, <3>4 DEF Redeemed
  <2>2. CASE ~ IsFeeOutput(Current, n)
    BY <2>2 DEF Redeemed, NotRedeemed
  <2> QED
    BY <2>1, <2>2
<1> DEFINE feeTo == IF PaysFee(Current) THEN StakerOf(block) ELSE ""
           vout == [n \in DOMAIN Raw[Current].vout |-> by(n)]
<1>4. d = [height |-> block.height, feeTo |-> feeTo, vout |-> vout]
  BY DEF Created
<1>5. feeTo \in AnyAddress
  BY <1>2 DEF StakerOf, AnyAddress
<1>6. vout \in [DOMAIN Raw[Current].vout -> Redeemed]
  BY <1>3
<1> HIDE DEF feeTo, vout, d
<1>7. IsDocument(Current, d) /\ d.height = block.height
  BY <1>2, <1>4, <1>5, <1>6 DEF IsDocument
<1>8. d # None
  BY <1>2, <1>7, DocFact
<1> QED
  BY <1>2, <1>7, <1>8 DEF d

\* What GetTransactionByHash finds is a document.
LEMMA FoundFact ==
    ASSUME TypeInv, NEW t \in Tx
    PROVE  IsDocument(t, GetTransactionByHash(t))
BY DEF TypeInv, TypeOK, GetTransactionByHash

\* One step of indexPreviousTxData.
LEMMA PreviousFact ==
    ASSUME TypeInv, IndexPreviousTx
    PROVE  LET i == at[2]
               p == Spent(Current, i)
               doc == GetTransactionByHash(p[1])
               new == Redeem(doc, p[2], Current)
           IN  /\ Building /\ Current \in Tx /\ i \in Inputs(Current)
               /\ p[1] \in Tx /\ p[2] \in DOMAIN Raw[p[1]].vout
               /\ IsDocument(p[1], doc) /\ doc # None
               /\ IsDocument(p[1], new) /\ new # None /\ new.height = doc.height
               /\ new.feeTo = doc.feeTo
               /\ IsMarked(new, p[2], Current)
               /\ \A m \in DOMAIN Raw[p[1]].vout : m # p[2] => new.vout[m] = doc.vout[m]
               /\ requests' = [t \in Tx |-> requests'[t]]
               /\ requests'[p[1]].doc = new
               /\ requests'[p[1]].type = (IF requests[p[1]].type = "index" THEN "index" ELSE "update")
               /\ \A u \in Tx \ {p[1]} : requests'[u] = requests[u]
               /\ requests[p[1]].type # "none" \/ CanSearch
<1> DEFINE i == at[2]
           p == Spent(Current, i)
           doc == GetTransactionByHash(p[1])
           new == Redeem(doc, p[2], Current)
<1>1. /\ Building /\ i \in Inputs(Current)
      /\ requests[p[1]].type # "none" \/ CanSearch
      /\ doc # None /\ AddRequest(p[1], "update", new)
  BY DEF IndexPreviousTx
<1>2. Current \in Tx
  BY <1>1, BuildFact DEF Building
<1>3. p[1] \in Tx /\ p[2] \in DOMAIN Raw[p[1]].vout
  BY <1>1, <1>2, InputFact
<1>4. IsDocument(p[1], doc)
  BY <1>3, FoundFact
<1> HIDE DEF doc
<1>5. /\ IsDocument(p[1], new) /\ new # None /\ new.height = doc.height /\ new.feeTo = doc.feeTo
      /\ IsMarked(new, p[2], Current)
      /\ \A m \in DOMAIN Raw[p[1]].vout : m # p[2] => new.vout[m] = doc.vout[m]
  BY <1>1, <1>2, <1>3, <1>4, RedeemFact
<1> HIDE DEF new, p
<1>6. requests = [t \in Tx |-> requests[t]]
  BY DEF TypeInv, ShapeInv
<1>7. /\ requests' = [t \in Tx |-> requests'[t]]
      /\ requests'[p[1]].doc = new
      /\ requests'[p[1]].type = (IF requests[p[1]].type = "index" THEN "index" ELSE "update")
      /\ \A u \in Tx \ {p[1]} : requests'[u] = requests[u]
  BY <1>1, <1>3, <1>6, AddRequestFact
<1> QED
  BY <1>1, <1>2, <1>3, <1>4, <1>5, <1>7 DEF p, doc, new

\* What a persist writes.
LEMMA WrittenFact ==
    ASSUME TypeInv
    PROVE  /\ Written(Requested) = Now
           /\ \A t \in Tx : IsDocument(t, Now[t])
           /\ \A t \in Tx : t \notin Requested => Now[t] = docs[t]
           /\ \A t \in Requested : Now[t] = requests[t].doc /\ Now[t] # None
BY DEF TypeInv, TypeOK, Written, Now, Requested

-----------------------------------------------------------------------------
(* Type correctness *)

NoRequestsOK ==
    /\ NoRequests = [t \in Tx |-> NoRequests[t]]
    /\ \A t \in Tx : /\ IsDocument(t, NoRequests[t].doc) /\ NoRequests[t].type = "none"
                     /\ NoRequests[t].doc = None

LEMMA NoRequestsFact == NoRequestsOK
BY DEF NoRequestsOK, NoRequests, NoRequest, IsDocument

LEMMA NoRequestsNone ==
    ASSUME requests = NoRequests
    PROVE  /\ Requested = {} /\ Now = [t \in Tx |-> docs[t]]
           /\ \A t \in Tx : Now[t] = docs[t]
BY NoRequestsFact DEF NoRequestsOK, Requested, Now

LEMMA TypeInit == Init => TypeInv /\ DataInv /\ UpdateInv
<1> SUFFICES ASSUME Init PROVE TypeInv /\ DataInv /\ UpdateInv
  OBVIOUS
<1>1. /\ target \in Targets /\ lag \in Lags /\ chain = <<>> /\ top = 0
      /\ docs = [t \in Tx |-> None] /\ seen = docs /\ requests = NoRequests
      /\ block = NoBlock /\ at = <<0, 0>> /\ pc = "down" /\ phase = "boot" /\ kills = 0
  BY DEF Init
<1>2. <<>> \in Seq(Elements(<<>>)) /\ Len(<<>>) = 0
  BY DEF Elements
<1>3. \A t \in Tx : IsDocument(t, None)
  BY DEF IsDocument
<1>4. TypeOK
  BY <1>1, <1>2, <1>3, ConstantFact, NoRequestsFact DEF TypeOK, NoRequestsOK
<1>5. ShapeInv
  BY <1>1, <1>2, NoRequestsFact, ConstantFact DEF ShapeInv, NoRequestsOK
<1>6. BuildInv
  BY <1>1 DEF BuildInv
<1>7. Places = {}
  BY <1>1 DEF Places, Done, Placed
<1>8. ChainInv
  BY <1>7 DEF ChainInv, Legal
<1>9. Right(UpTo(Places, TargetHeight), docs)
  BY <1>7 DEF UpTo, Right, Present, Marked
<1>10. DataInv
  BY <1>1, <1>8, <1>9 DEF DataInv, IndexInv, CheckInv, DownInv, EmptyInv
<1>11. UpdateInv
  BY <1>1, NoRequestsFact DEF UpdateInv, NoRequestsOK, Requested
<1> QED
  BY <1>4, <1>5, <1>6, <1>10, <1>11 DEF TypeInv

LEMMA TypeRefresh == TypeInv /\ Refresh => TypeInv'
<1> SUFFICES ASSUME TypeInv, Refresh PROVE TypeInv'
  OBVIOUS
<1>1. /\ seen' = docs
      /\ UNCHANGED <<target, lag, chain, top, docs, requests, block, at, pc, phase, kills>>
  BY DEF Refresh, config, process
<1>2. TypeOK'
  BY <1>1 DEF TypeInv, TypeOK, IsDocument
<1>3. ShapeInv'
  BY <1>1 DEF TypeInv, ShapeInv, IsBlock
<1>4. BuildInv'
  BY <1>1 DEF TypeInv, BuildInv, Building, Current, MayFollow, Inputs, IsBlock
<1> QED
  BY <1>2, <1>3, <1>4 DEF TypeInv

LEMMA LastFact ==
    ASSUME TypeInv
    PROVE  Last.height = Len(chain)
<1>1. CASE chain = <<>>
  BY <1>1, TypeFact, NoBlockFact DEF Last
<1>2. CASE chain # <<>>
  <2>1. Len(chain) \in 1 .. Len(chain)
    BY <1>2, TypeFact
  <2>2. chain[Len(chain)].height = Len(chain)
    BY <2>1, TypeFact
  <2> QED
    BY <1>2, <2>2 DEF Last
<1> QED
  BY <1>1, <1>2

LEMMA TypeFetchBlock == TypeInv /\ FetchBlock => TypeInv'
<1> SUFFICES ASSUME TypeInv, FetchBlock PROVE TypeInv'
  OBVIOUS
<1>1. /\ pc = "index" /\ pc' = "build" /\ Len(chain) < MaxHeight /\ at' = <<1, 1>>
      /\ phase = "single" => top = Len(chain)
      /\ phase # "single" => top = Len(chain) \/ Len(chain) % BatchSize # 0
      /\ UNCHANGED <<target, lag, chain, top, docs, seen, requests, phase, kills>>
  BY DEF FetchBlock, config, index
<1>2. PICK txs \in Blocks[Len(chain) + 1] : MayFollow(txs) /\ block' = CreateBlock(txs, Last)
  BY DEF FetchBlock
<1>3. Len(chain) + 1 \in 1 .. MaxHeight
  BY <1>1, TypeFact, ConstantFact
<1>4. txs \in Seq(Tx) /\ Len(txs) \in Nat
  BY <1>2, <1>3, ConstantFact
<1>5. Last.height = Len(chain)
  BY LastFact
<1>6. /\ IsBlock(block') /\ block'.height = Len(chain) + 1 /\ block'.txs = txs
      /\ block'.stakedBy = ""
  BY <1>2, <1>5, CreatedBlockFact
<1>7. block' # NoBlock
  <2>1. Len(chain) + 1 # 0
    BY <1>3
  <2>2. block'.height # NoBlock.height
    BY <1>6, <2>1, NoBlockFact
  <2> QED
    BY <2>2
<1>8. TypeOK'
  BY <1>1, <1>7 DEF TypeInv, TypeOK, IsDocument
<1>9. ShapeInv'
  BY <1>1 DEF TypeInv, ShapeInv, IsBlock
<1>10. BuildInv'
  <2>1. MayFollow(block.txs)'
    BY <1>1, <1>2, <1>6 DEF MayFollow
  <2>2. \A i \in 1 .. at'[2] - 1 : FALSE
    BY <1>1
  <2>3. at' \in (1 .. Len(txs) + 1) \X (Nat \ {0})
    BY <1>1, <1>4
  <2>4. block'.stakedBy \in AnyAddress
    BY <1>6 DEF AnyAddress
  <2>5. (IsBlock(block))'
    BY <1>6 DEF IsBlock
  <2> QED
    BY <1>1, <1>2, <1>6, <2>1, <2>2, <2>3, <2>4, <2>5 DEF BuildInv
<1> QED
  BY <1>8, <1>9, <1>10 DEF TypeInv

LEMMA TypeIndexPreviousTx == TypeInv /\ IndexPreviousTx => TypeInv'
<1> SUFFICES ASSUME TypeInv, IndexPreviousTx PROVE TypeInv'
  OBVIOUS
<1> DEFINE p == Spent(Current, at[2])
           new == Redeem(GetTransactionByHash(p[1]), p[2], Current)
<1>1. /\ Building /\ at[2] \in Inputs(Current) /\ p[1] \in Tx
      /\ IsDocument(p[1], new) /\ new # None
      /\ requests' = [t \in Tx |-> requests'[t]]
      /\ requests'[p[1]].doc = new
      /\ requests'[p[1]].type = (IF requests[p[1]].type = "index" THEN "index" ELSE "update")
      /\ \A u \in Tx \ {p[1]} : requests'[u] = requests[u]
  BY PreviousFact
<1> HIDE DEF new, p
<1>2. /\ at' = <<at[1], at[2] + 1>> /\ pc = "build"
      /\ UNCHANGED <<target, lag, chain, top, docs, seen, block, pc, phase, kills>>
  BY DEF IndexPreviousTx, config, index, Building
<1>3. \A t \in Tx : /\ IsDocument(t, requests'[t].doc)
                    /\ requests'[t].type \in {"none", "index", "update"}
                    /\ requests'[t].type = "none" <=> requests'[t].doc = None
  <2> SUFFICES ASSUME NEW t \in Tx
               PROVE  /\ IsDocument(t, requests'[t].doc)
                      /\ requests'[t].type \in {"none", "index", "update"}
                      /\ requests'[t].type = "none" <=> requests'[t].doc = None
    OBVIOUS
  <2>1. CASE t = p[1]
    BY <1>1, <2>1
  <2>2. CASE t # p[1]
    BY <1>1, <2>2 DEF TypeInv, TypeOK
  <2> QED
    BY <2>1, <2>2
<1>4. TypeOK'
  BY <1>2, <1>3 DEF TypeInv, TypeOK, IsDocument
<1>5. ShapeInv'
  BY <1>1, <1>2 DEF TypeInv, ShapeInv, IsBlock
<1>6. BuildInv'
  <2>1. /\ at = <<at[1], at[2]>> /\ at[2] \in Nat \ {0} /\ at[1] \in 1 .. Len(block.txs) + 1
    BY <1>2, BuildFact
  <2>2. at' \in (1 .. Len(block.txs) + 1) \X (Nat \ {0}) /\ at'[1] = at[1] /\ at'[2] = at[2] + 1
    BY <1>2, <2>1
  <2>3. \A i \in 1 .. at[2] - 1 : i \in Inputs(Current)
    BY <1>1, <1>2 DEF TypeInv, BuildInv
  <2>4. \A i \in 1 .. at'[2] - 1 : i \in Inputs(Current)
    BY <1>1, <2>1, <2>2, <2>3
  <2>5. Current' = Current
    BY <1>2, <2>2 DEF Current
  <2>6. Inputs(Current)' = Inputs(Current)
    BY <2>5 DEF Inputs
  <2>7. MayFollow(block.txs)' = MayFollow(block.txs)
    BY <1>2 DEF MayFollow
  <2>8. IsBlock(block)' = IsBlock(block)
    BY <1>2 DEF IsBlock
  <2> QED
    BY <1>2, <2>2, <2>4, <2>6, <2>7, <2>8 DEF TypeInv, BuildInv
<1> QED
  BY <1>4, <1>5, <1>6 DEF TypeInv

LEMMA TypePersistForPreviousTx == TypeInv /\ PersistForPreviousTx => TypeInv'
<1> SUFFICES ASSUME TypeInv, PersistForPreviousTx PROVE TypeInv'
  OBVIOUS
<1>1. /\ pc = "build" /\ docs' = Now /\ top' = Len(chain) /\ requests' = NoRequests
      /\ UNCHANGED <<target, lag, chain, seen, block, at, pc, phase, kills>>
  BY WrittenFact DEF PersistForPreviousTx, config, Building
<1>2. \A t \in Tx : IsDocument(t, docs'[t])
  BY <1>1, WrittenFact
<1>3. TypeOK'
  <2>1. top' \in 0 .. Len(chain')
    BY <1>1, TypeFact
  <2> QED
    BY <1>1, <1>2, <2>1, NoRequestsFact DEF TypeInv, TypeOK, IsDocument, NoRequestsOK
<1>4. ShapeInv'
  <2>1. DOMAIN docs' = Tx
    BY <1>1 DEF Now
  <2>2. \A h \in top' + 1 .. Len(chain') - 1 : FALSE
    BY <1>1, TypeFact
  <2> QED
    BY <1>1, <2>1, <2>2, TypeFact, NoRequestsFact DEF TypeInv, ShapeInv, IsBlock, NoRequestsOK
<1>5. BuildInv'
  BY <1>1 DEF TypeInv, BuildInv, Building, Current, MayFollow, Inputs, IsBlock
<1> QED
  BY <1>3, <1>4, <1>5 DEF TypeInv

LEMMA TypeIndexTransaction == TypeInv /\ IndexTransaction => TypeInv'
<1> SUFFICES ASSUME TypeInv, IndexTransaction PROVE TypeInv'
  OBVIOUS
<1> DEFINE doc == Created(Current, block)
<1>1. /\ Building /\ AddRequest(Current, "index", doc)
      /\ block' = CreateBlockTransaction(Current, block)
      /\ at' = <<at[1] + 1, 1>> /\ pc = "build"
      /\ UNCHANGED <<target, lag, chain, top, docs, seen, pc, phase, kills>>
  BY DEF IndexTransaction, config, index, Building
<1>2. IsDocument(Current, doc) /\ doc # None
  BY <1>1, CreatedFact
<1> HIDE DEF doc
<1>3. /\ block.height = Len(chain) + 1 /\ IsBlock(block) /\ block.stakedBy \in AnyAddress
      /\ at[1] \in 1 .. Len(block.txs) /\ Current \in Tx /\ Len(block.txs) \in Nat
      /\ Len(chain) + 1 \in 1 .. MaxHeight
  BY <1>1, BuildFact
<1>4. /\ requests = [t \in Tx |-> requests[t]]
  BY DEF TypeInv, ShapeInv
<1>5. /\ requests' = [u \in Tx |-> requests'[u]]
      /\ requests'[Current].doc = doc /\ requests'[Current].type = "index"
      /\ \A u \in Tx \ {Current} : requests'[u] = requests[u]
  BY <1>1, <1>3, <1>4, AddRequestFact
<1>6. \A t \in Tx : /\ IsDocument(t, requests'[t].doc)
                    /\ requests'[t].type \in {"none", "index", "update"}
                    /\ requests'[t].type = "none" <=> requests'[t].doc = None
  <2> SUFFICES ASSUME NEW t \in Tx
               PROVE  /\ IsDocument(t, requests'[t].doc)
                      /\ requests'[t].type \in {"none", "index", "update"}
                      /\ requests'[t].type = "none" <=> requests'[t].doc = None
    OBVIOUS
  <2>1. CASE t = Current
    BY <1>2, <1>5, <2>1
  <2>2. CASE t # Current
    BY <1>5, <2>2 DEF TypeInv, TypeOK
  <2> QED
    BY <2>1, <2>2
<1>7. SameBlock(block, block') /\ block'.stakedBy \in AnyAddress
  BY <1>1, <1>3, AddedTransactionFact
<1>8. block' # NoBlock
  <2>1. Len(chain) + 1 # 0
    BY <1>3
  <2>2. block'.height # NoBlock.height
    BY <1>3, <1>7, <2>1, NoBlockFact DEF SameBlock
  <2> QED
    BY <2>2
<1>9. TypeOK'
  BY <1>1, <1>6, <1>8 DEF TypeInv, TypeOK, IsDocument
<1>10. ShapeInv'
  BY <1>1, <1>5 DEF TypeInv, ShapeInv, IsBlock
<1>11. BuildInv'
  <2>1. block'.txs = block.txs /\ block'.height = block.height
    BY <1>7 DEF SameBlock
  <2>2. at' \in (1 .. Len(block.txs) + 1) \X (Nat \ {0}) /\ at'[2] = 1
    BY <1>1, <1>3
  <2>3. \A i \in 1 .. at'[2] - 1 : FALSE
    BY <2>2
  <2>4. MayFollow(block.txs)' = MayFollow(block.txs)
    BY <1>1, <2>1 DEF MayFollow
  <2>5. IsBlock(block)'
    BY <1>7 DEF SameBlock, IsBlock
  <2> QED
    BY <1>1, <1>7, <2>1, <2>2, <2>3, <2>4, <2>5 DEF TypeInv, BuildInv
<1> QED
  BY <1>9, <1>10, <1>11 DEF TypeInv

LEMMA FinishedFact ==
    ASSUME TypeInv, FinishBlock
    PROVE  /\ pc = "build" /\ at[1] = Len(block.txs) + 1
           /\ chain' = Append(chain, UpdateSupply(block))
           /\ SameBlock(block, UpdateSupply(block)) /\ UpdateSupply(block).stakedBy = block.stakedBy
           /\ chain' \in Seq(Elements(chain')) /\ Len(chain') = Len(chain) + 1
           /\ DOMAIN chain' = 1 .. Len(chain) + 1
           /\ \A h \in 1 .. Len(chain) : chain'[h] = chain[h]
           /\ chain'[Len(chain) + 1] = UpdateSupply(block)
           /\ Len(chain) + 1 \in 1 .. MaxHeight
<1>1. /\ pc = "build" /\ at[1] > Len(block.txs)
      /\ chain' = Append(chain, UpdateSupply(block))
  BY DEF FinishBlock
<1>2. at[1] = Len(block.txs) + 1 /\ Len(chain) + 1 \in 1 .. MaxHeight
  BY <1>1, BuildFact
<1>3. SameBlock(block, UpdateSupply(block)) /\ UpdateSupply(block).stakedBy = block.stakedBy
  BY <1>1, BuildFact, UpdatedSupplyFact
<1> QED
  BY <1>1, <1>2, <1>3, TypeFact, PlacedAppend

LEMMA TypeFinishBlock == TypeInv /\ FinishBlock => TypeInv'
<1> SUFFICES ASSUME TypeInv, FinishBlock PROVE TypeInv'
  OBVIOUS
<1> DEFINE b == UpdateSupply(block)
<1>1. /\ pc = "build" /\ pc' = "index" /\ block' = NoBlock
      /\ UNCHANGED <<target, lag, top, docs, seen, requests, phase, kills>>
  BY DEF FinishBlock, config
<1>2. /\ SameBlock(block, b)
      /\ chain' \in Seq(Elements(chain')) /\ Len(chain') = Len(chain) + 1
      /\ DOMAIN chain' = 1 .. Len(chain) + 1
      /\ \A h \in 1 .. Len(chain) : chain'[h] = chain[h]
      /\ chain'[Len(chain) + 1] = b
      /\ Len(chain) + 1 \in 1 .. MaxHeight
  BY FinishedFact
<1> HIDE DEF b
<1>3. block.height = Len(chain) + 1 /\ block.txs \in Blocks[Len(chain) + 1]
  BY <1>1, BuildFact
<1>4. \A h \in DOMAIN chain' : chain'[h].height = h /\ chain'[h].txs \in Blocks[h] /\ IsBlock(chain'[h])
  <2> SUFFICES ASSUME NEW h \in 1 .. Len(chain) + 1
               PROVE  chain'[h].height = h /\ chain'[h].txs \in Blocks[h] /\ IsBlock(chain'[h])
    BY <1>2
  <2>1. CASE h \in 1 .. Len(chain)
    BY <1>2, <2>1, TypeFact
  <2>2. CASE h = Len(chain) + 1
    BY <1>2, <1>3, <2>2 DEF SameBlock
  <2> QED
    BY <2>1, <2>2, TypeFact
<1>5. TypeOK'
  <2>1. top \in 0 .. Len(chain') /\ Len(chain') <= MaxHeight
    BY <1>2, TypeFact, ConstantFact
  <2> QED
    BY <1>1, <1>4, <2>1 DEF TypeInv, TypeOK, IsDocument
<1>6. ShapeInv'
  <2>1. \A h \in top + 1 .. Len(chain') - 1 : h % BatchSize # 0
    <3> SUFFICES ASSUME NEW h \in top + 1 .. Len(chain) PROVE h % BatchSize # 0
      BY <1>2, TypeFact
    <3>1. CASE h = Len(chain)
      <4>1. top < Len(chain)
        BY <3>1, TypeFact
      <4> QED
        BY <1>1, <3>1, <4>1 DEF TypeInv, ShapeInv
    <3>2. CASE h # Len(chain)
      <4>1. top \in Nat /\ Len(chain) \in Nat
        BY TypeFact
      <4>2. h \in top + 1 .. Len(chain) - 1
        BY <3>2, <4>1
      <4> QED
        BY <4>2 DEF TypeInv, ShapeInv
    <3> QED
      BY <3>1, <3>2
  <2>2. top # Len(chain')
    BY <1>2, TypeFact
  <2>3. phase = "single" => Len(chain') <= top + 1
    <3>1. phase = "single" => Len(chain) = top
      BY <1>1 DEF TypeInv, ShapeInv
    <3> QED
      BY <1>2, <3>1, TypeFact
  <2>4. \A h \in DOMAIN chain' : (IsBlock(chain[h]))'
    BY <1>4 DEF IsBlock
  <2> QED
    BY <1>1, <1>2, <2>1, <2>2, <2>3, <2>4 DEF TypeInv, ShapeInv
<1>7. BuildInv'
  BY <1>1 DEF BuildInv
<1> QED
  BY <1>5, <1>6, <1>7 DEF TypeInv

\* A chain that is cut off is still one.
LEMMA CutType ==
    ASSUME TypeInv, NEW n \in 0 .. Len(chain), chain' = SubSeq(chain, 1, n)
    PROVE  /\ chain' \in Seq(Elements(chain')) /\ Len(chain') = n /\ n \in Nat
           /\ DOMAIN chain' = 1 .. n
           /\ \A h \in 1 .. n : /\ chain'[h] = chain[h] /\ chain'[h].height = h
                                /\ chain'[h].txs \in Blocks[h] /\ IsBlock(chain'[h])
           /\ Placed(chain)' = UpTo(Placed(chain), n)
<1>1. /\ chain' \in Seq(Elements(chain')) /\ Len(chain') = n /\ n \in Nat
      /\ DOMAIN chain' = 1 .. n
      /\ \A h \in 1 .. n : h \in DOMAIN chain /\ chain'[h] = chain[h]
      /\ Placed(chain') = UpTo(Placed(chain), n)
  BY TypeFact, PlacedCut
<1>2. Placed(chain)' = Placed(chain')
  BY DEF Placed
<1> QED
  BY <1>1, <1>2, TypeFact

\* After a cut nothing is built or requested, and everything left is persisted.
LEMMA CutTypeInv ==
    ASSUME TypeInv, NEW n \in 0 .. Len(chain), chain' = SubSeq(chain, 1, n), top' = n,
           requests' = NoRequests, DOMAIN docs' = Tx, \A t \in Tx : IsDocument(t, docs'[t]),
           block' = NoBlock, UNCHANGED <<target, lag, seen>>, kills' \in 0 .. MaxKills,
           \/ pc' = "down" /\ phase' = "boot"
           \/ pc' = "check" /\ phase' \in {"boot", "single"}
    PROVE  TypeInv'
<1>1. /\ chain' \in Seq(Elements(chain')) /\ Len(chain') = n /\ n \in Nat
      /\ DOMAIN chain' = 1 .. n
      /\ \A h \in 1 .. n : /\ chain'[h] = chain[h] /\ chain'[h].height = h
                           /\ chain'[h].txs \in Blocks[h] /\ IsBlock(chain'[h])
  BY CutType
<1>2. TypeOK'
  <2>1. top' \in 0 .. Len(chain') /\ Len(chain') <= MaxHeight
    BY <1>1, TypeFact, ConstantFact
  <2> QED
    BY <1>1, <2>1, NoRequestsFact DEF TypeInv, TypeOK, IsDocument, NoRequestsOK
<1>3. ShapeInv'
  <2>1. \A h \in top' + 1 .. Len(chain') - 1 : FALSE
    BY <1>1
  <2>2. \A h \in DOMAIN chain' : (IsBlock(chain[h]))'
    BY <1>1 DEF IsBlock
  <2> QED
    BY <1>1, <2>1, <2>2, NoRequestsFact DEF TypeInv, ShapeInv, NoRequestsOK
<1>4. BuildInv'
  BY DEF BuildInv
<1> QED
  BY <1>2, <1>3, <1>4 DEF TypeInv

LEMMA TypePersist == TypeInv /\ Persist => TypeInv'
<1> SUFFICES ASSUME TypeInv, Persist PROVE TypeInv'
  OBVIOUS
<1>1. /\ pc = "index" /\ top < Len(chain) /\ UNCHANGED <<target, lag, seen, kills>>
  BY DEF Persist, config
<1>2. CASE PersistFails
  <2>1. /\ chain' = SubSeq(chain, 1, top) /\ top' = top /\ requests' = NoRequests
        /\ block' = NoBlock /\ pc' = "down" /\ phase' = "boot" /\ docs' = docs
    BY <1>2 DEF Persist, Die, Cut
  <2>2. top \in 0 .. Len(chain)
    BY TypeFact
  <2>3. DOMAIN docs' = Tx /\ (\A t \in Tx : IsDocument(t, docs'[t])) /\ kills' \in 0 .. MaxKills
    BY <1>1, <2>1 DEF TypeInv, TypeOK, ShapeInv
  <2> QED
    BY <1>1, <2>1, <2>2, <2>3, CutTypeInv
<1>3. CASE ~ PersistFails
  <2>1. /\ docs' = Now /\ top' = Len(chain) /\ requests' = NoRequests
        /\ UNCHANGED <<chain, block, at, pc, phase>>
    BY <1>3, WrittenFact DEF Persist
  <2>2. \A t \in Tx : IsDocument(t, docs'[t])
    BY <2>1, WrittenFact
  <2>3. TypeOK'
    <3>1. top' \in 0 .. Len(chain')
      BY <2>1, TypeFact
    <3> QED
      BY <1>1, <2>1, <2>2, <3>1, NoRequestsFact DEF TypeInv, TypeOK, IsDocument, NoRequestsOK
  <2>4. ShapeInv'
    <3>1. DOMAIN docs' = Tx
      BY <2>1 DEF Now
    <3>2. \A h \in top' + 1 .. Len(chain') - 1 : FALSE
      BY <2>1, TypeFact
    <3>3. Len(chain') <= top' + 1
      BY <2>1, TypeFact
    <3> QED
      BY <1>1, <2>1, <3>1, <3>2, <3>3, NoRequestsFact DEF TypeInv, ShapeInv, IsBlock, NoRequestsOK
  <2>5. BuildInv'
    BY <1>1, <2>1 DEF BuildInv
  <2> QED
    BY <2>3, <2>4, <2>5 DEF TypeInv
<1> QED
  BY <1>2, <1>3

LEMMA TypeFinishBulk == TypeInv /\ FinishBulk => TypeInv'
<1> SUFFICES ASSUME TypeInv, FinishBulk PROVE TypeInv'
  OBVIOUS
<1>1. /\ pc = "index" /\ top = Len(chain) /\ phase' = "single"
      /\ UNCHANGED <<target, lag, chain, top, docs, seen, requests, block, at, pc, kills>>
  BY DEF FinishBulk, config, index
<1>2. TypeOK'
  BY <1>1 DEF TypeInv, TypeOK, IsDocument
<1>3. ShapeInv'
  <2>1. Len(chain) <= top + 1
    BY <1>1, TypeFact
  <2> QED
    BY <1>1, <2>1 DEF TypeInv, ShapeInv, IsBlock
<1>4. BuildInv'
  BY <1>1 DEF BuildInv
<1> QED
  BY <1>2, <1>3, <1>4 DEF TypeInv

LEMMA TargetFact ==
    ASSUME TypeInv
    PROVE  /\ TargetHeight \in 0 .. Len(chain) /\ TargetHeight \in Nat
           /\ Len(chain) <= TargetHeight + ReindexSize
           /\ TargetHeight + ReindexSize = Len(chain) \/ TargetHeight = 0
<1>1. Len(chain) \in Nat /\ ReindexSize \in Nat
  BY TypeFact, ConstantFact
<1> QED
  BY <1>1 DEF TargetHeight

\* A rewind deletes the documents above a height and cuts the chain off there.
LEMMA RewindFact ==
    ASSUME TypeInv, NEW h \in 0 .. Len(chain), Rewind(h), pc \in {"down", "index"},
           pc = "index" => phase = "single",
           UNCHANGED <<target, lag, kills>>
    PROVE  /\ TypeInv'
           /\ seen = docs /\ UNCHANGED <<seen, block, at, phase>>
           /\ chain' = SubSeq(chain, 1, h) /\ top' = h /\ pc' = "check"
           /\ requests' = NoRequests
           /\ \A t \in Tx : docs'[t] = (IF docs[t].height > h THEN None ELSE docs[t])
<1>1. /\ seen = docs /\ UNCHANGED <<seen, block, at, phase>>
      /\ chain' = SubSeq(chain, 1, h) /\ top' = h /\ pc' = "check"
      /\ requests' = NoRequests
      /\ docs' = [t \in Tx |-> IF docs[t].height > h THEN None ELSE docs[t]]
  BY DEF Rewind, Cut, DeleteHeightGT
<1>2. \A t \in Tx : IsDocument(t, docs'[t])
  <2>1. \A t \in Tx : IsDocument(t, docs[t]) /\ IsDocument(t, None)
    BY DEF TypeInv, TypeOK, IsDocument
  <2> QED
    BY <1>1, <2>1
<1>3. block' = NoBlock
  BY <1>1 DEF TypeInv, TypeOK
<1>4. phase' \in {"boot", "single"}
  BY <1>1 DEF TypeInv, ShapeInv
<1>5. DOMAIN docs' = Tx /\ kills' \in 0 .. MaxKills
  BY <1>1 DEF TypeInv, TypeOK
<1>6. TypeInv'
  BY <1>1, <1>2, <1>3, <1>4, <1>5, CutTypeInv
<1> QED
  BY <1>1, <1>6

\* Indexing starts where nothing is requested and everything is persisted.
LEMMA StartIndexType ==
    ASSUME TypeInv, pc \in {"down", "check"}, pc' = "index", phase' \in {"batch", "single"},
           UNCHANGED <<target, lag, chain, top, docs, seen, requests, block, at, kills>>
    PROVE  TypeInv'
<1>1. requests = NoRequests /\ top = Len(chain)
  BY DEF TypeInv, ShapeInv
<1>2. TypeOK'
  BY DEF TypeInv, TypeOK, IsDocument
<1>3. ShapeInv'
  <2>1. Len(chain) <= top + 1
    BY <1>1, TypeFact
  <2> QED
    BY <1>1, <2>1 DEF TypeInv, ShapeInv, IsBlock
<1>4. BuildInv'
  BY DEF BuildInv
<1> QED
  BY <1>2, <1>3, <1>4 DEF TypeInv

LEMMA TypeStart == TypeInv /\ Start => TypeInv'
<1> SUFFICES ASSUME TypeInv, Start PROVE TypeInv'
  OBVIOUS
<1>1. pc = "down" /\ UNCHANGED <<target, lag, kills>>
  BY DEF Start, config
<1>2. CASE chain = <<>>
  <2>1. /\ StartIndex(chain) /\ UNCHANGED <<chain, top, docs, seen, requests, block, at>>
    BY <1>2 DEF Start, index
  <2> QED
    BY <1>1, <2>1, StartIndexType DEF StartIndex
<1>3. CASE chain # <<>>
  <2>1. Rewind(TargetHeight)
    BY <1>3 DEF Start
  <2> QED
    BY <1>1, <2>1, TargetFact, RewindFact
<1> QED
  BY <1>2, <1>3

LEMMA OrphanFact ==
    ASSUME TypeInv, RewindOrphan
    PROVE  /\ pc = "index" /\ phase = "single" /\ top = Len(chain)
           /\ Rewind(Len(chain) - ReindexSize) /\ Len(chain) - ReindexSize \in 1 .. Len(chain)
           /\ UNCHANGED <<target, lag, kills>>
<1>1. /\ pc = "index" /\ phase = "single" /\ top = Len(chain) /\ Len(chain) > ReindexSize
      /\ Rewind(Len(chain) - ReindexSize) /\ UNCHANGED <<target, lag, kills>>
  BY DEF RewindOrphan, config
<1>2. Len(chain) \in Nat /\ ReindexSize \in Nat
  BY TypeFact, ConstantFact
<1> QED
  BY <1>1, <1>2

LEMMA TypeRewindOrphan == TypeInv /\ RewindOrphan => TypeInv'
<1> SUFFICES ASSUME TypeInv, RewindOrphan PROVE TypeInv'
  OBVIOUS
<1>1. Len(chain) - ReindexSize \in 0 .. Len(chain)
  BY OrphanFact
<1> QED
  BY <1>1, OrphanFact, RewindFact

LEMMA TypeCheckBlock == TypeInv /\ CheckBlock => TypeInv'
<1> SUFFICES ASSUME TypeInv, CheckBlock PROVE TypeInv'
  OBVIOUS
<1>1. pc = "check" /\ UNCHANGED <<target, lag, chain, top, docs, seen, kills>>
  BY DEF CheckBlock, config, index
<1>2. CASE chain = <<>>
  <2>1. /\ chain' = SubSeq(chain, 1, 0) /\ top' = 0 /\ 0 \in 0 .. Len(chain)
    <3>1. SubSeq(<<>>, 1, 0) = <<>> /\ Len(<<>>) = 0
      OBVIOUS
    <3> QED
      BY <1>1, <1>2, <3>1, TypeFact
  <2>2. Die
    BY <1>2 DEF CheckBlock
  <2>3. DOMAIN docs' = Tx /\ (\A t \in Tx : IsDocument(t, docs'[t])) /\ kills' \in 0 .. MaxKills
    BY <1>1 DEF TypeInv, TypeOK, ShapeInv
  <2> QED
    BY <1>1, <2>1, <2>2, <2>3, CutTypeInv DEF Die
<1>3. CASE chain # <<>>
  <2>1. pc' = "index" /\ phase' \in {"batch", "single"} /\ UNCHANGED <<requests, block, at>>
    BY <1>1, <1>3 DEF CheckBlock, StartIndex, TypeInv, ShapeInv
  <2> QED
    BY <1>1, <2>1, StartIndexType
<1> QED
  BY <1>2, <1>3

\* What a kill leaves: a part of what was to be persisted.
LEMMA KillFact ==
    ASSUME TypeInv, Kill
    PROVE  \E n \in 0 .. Len(chain) :
              /\ n >= top /\ (n > top => pc = "build" \/ PersistDue)
              /\ chain' = SubSeq(chain, 1, n) /\ top' = n
              /\ pc # "down" /\ pc' = "down" /\ phase' = "boot"
              /\ requests' = NoRequests /\ block' = NoBlock
              /\ UNCHANGED <<target, lag, seen>> /\ kills' \in 0 .. MaxKills
              /\ DOMAIN docs' = Tx
              /\ \A t \in Tx : docs'[t] = docs[t] \/ (t \in Requested /\ docs'[t] = Now[t])
<1>1. /\ pc # "down" /\ kills < MaxKills /\ kills' = kills + 1 /\ Die
      /\ UNCHANGED <<target, lag, seen>>
  BY DEF Kill, config
<1>2. PICK n \in top .. Len(chain) :
         \E T \in SUBSET Requested :
          /\ (n > top \/ T # {}) => (pc = "build" \/ PersistDue)
          /\ Cut(n)
          /\ docs' = [t \in Tx |-> IF t \in T /\ (requests[t].type = "index" \/ docs[t] # None)
                                   THEN requests[t].doc ELSE docs[t]]
  BY DEF Kill
<1>3. PICK T \in SUBSET Requested :
          /\ (n > top \/ T # {}) => (pc = "build" \/ PersistDue)
          /\ Cut(n)
          /\ docs' = [t \in Tx |-> IF t \in T /\ (requests[t].type = "index" \/ docs[t] # None)
                                   THEN requests[t].doc ELSE docs[t]]
  BY <1>2
<1>4. \A t \in Tx : docs'[t] = docs[t] \/ (t \in Requested /\ docs'[t] = Now[t])
  <2>1. \A t \in Requested : Now[t] = requests[t].doc
    BY WrittenFact
  <2> QED
    BY <1>3, <2>1
<1>5. n \in 0 .. Len(chain) /\ n >= top
  BY TypeFact
<1>6. kills' \in 0 .. MaxKills
  BY <1>1, ConstantFact DEF TypeInv, TypeOK
<1> QED
  BY <1>1, <1>3, <1>4, <1>5, <1>6 DEF Die, Cut

LEMMA TypeKill == TypeInv /\ Kill => TypeInv'
<1> SUFFICES ASSUME TypeInv, Kill PROVE TypeInv'
  OBVIOUS
<1>1. PICK n \in 0 .. Len(chain) :
         /\ chain' = SubSeq(chain, 1, n) /\ top' = n
         /\ pc' = "down" /\ phase' = "boot" /\ requests' = NoRequests /\ block' = NoBlock
         /\ UNCHANGED <<target, lag, seen>> /\ kills' \in 0 .. MaxKills
         /\ DOMAIN docs' = Tx
         /\ \A t \in Tx : docs'[t] = docs[t] \/ (t \in Requested /\ docs'[t] = Now[t])
  BY KillFact
<1>2. \A t \in Tx : IsDocument(t, docs'[t])
  BY <1>1, WrittenFact DEF TypeInv, TypeOK
<1> QED
  BY <1>1, <1>2, CutTypeInv

LEMMA TypeStutter == TypeInv /\ UNCHANGED vars => TypeInv'
<1> SUFFICES ASSUME TypeInv, UNCHANGED vars PROVE TypeInv'
  OBVIOUS
<1>1. UNCHANGED <<target, lag, chain, top, docs, seen, requests, block, at, pc, phase, kills>>
  BY DEF vars, config, index, process
<1>2. TypeOK'
  BY <1>1 DEF TypeInv, TypeOK, IsDocument
<1>3. ShapeInv'
  BY <1>1 DEF TypeInv, ShapeInv, IsBlock
<1>4. BuildInv'
  BY <1>1 DEF TypeInv, BuildInv, Building, Current, MayFollow, Inputs, IsBlock
<1> QED
  BY <1>2, <1>3, <1>4 DEF TypeInv

LEMMA TypeStep == TypeInv /\ [Next]_vars => TypeInv'
BY TypeRefresh, TypeFetchBlock, TypeIndexPreviousTx, TypePersistForPreviousTx,
   TypeIndexTransaction, TypeFinishBlock, TypePersist, TypeFinishBulk, TypeStart,
   TypeRewindOrphan, TypeCheckBlock, TypeKill, TypeStutter DEF Next

LEMMA TypeAlways == Spec => []TypeInv
BY TypeInit, TypeStep, PTL DEF Spec

\* The types, for all the blocks navcoind may have, all sizes of a batch and of a
\* rewind, and any number of kills.
THEOREM TypeCorrect == Spec => []TypeOK
BY TypeAlways, PTL DEF TypeInv

-----------------------------------------------------------------------------
(* The documents at each step *)

\* What the steps are shown to establish, with everything in the next state.
LEMMA PrimeFact ==
    ASSUME lag' = lag
    PROVE  /\ Right(Places, Now)' <=> Right(Places', Now')
           /\ Right(Places, docs)' <=> Right(Places', docs')
           /\ Right(UpTo(Places, top), docs)' <=> Right(UpTo(Places', top'), docs')
           /\ Right(UpTo(Places, TargetHeight), docs)'
                 <=> Right(UpTo(Places', TargetHeight'), docs')
           /\ Legal(Places)' <=> Legal(Places')
<1>1. Right(Places, Now)' <=> Right(Places', Now')
  BY DEF Right, Present, Marked, IsMarked, Inputs, Spent
<1>2. Right(Places, docs)' <=> Right(Places', docs')
  BY DEF Right, Present, Marked, IsMarked, Inputs, Spent
<1>3. Right(UpTo(Places, top), docs)' <=> Right(UpTo(Places', top'), docs')
  BY DEF Right, Present, Marked, IsMarked, Inputs, Spent, UpTo
<1>4. Right(UpTo(Places, TargetHeight), docs)' <=> Right(UpTo(Places', TargetHeight'), docs')
  BY DEF Right, Present, Marked, IsMarked, Inputs, Spent, UpTo
<1>5. Legal(Places)' <=> Legal(Places')
  BY DEF Legal, Inputs, Spent
<1> QED
  BY <1>1, <1>2, <1>3, <1>4, <1>5

\* A document that a kill in the first batch may leave.
IsLeftOver(h, t, c) == h <= BatchSize /\ h > Len(c) /\ Final(h, t)

LEMMA IndexInvFact ==
    ASSUME IndexInv, pc \in {"index", "build"}
    PROVE  /\ Right(UpTo(Places, top), docs) /\ Right(Places, Now)
           /\ ~ lag /\ Building => CurrentMarked
           /\ \A t \in Requested : <<requests[t].doc.height, t>> \in Places
           /\ \A t \in Tx : docs[t] # None =>
                 \/ <<docs[t].height, t>> \in Places
                 \/ phase = "batch" /\ ~ Settled /\ IsLeftOver(docs[t].height, t, chain)
           /\ lag => \A t \in Tx : seen[t] # None =>
                 <<seen[t].height, t>> \in Places \/ Final(seen[t].height, t)
BY DEF IndexInv, LeftOver, IsLeftOver

LEMMA IndexInvNext ==
    ASSUME lag' = lag, pc' \in {"index", "build"},
           Right(UpTo(Places', top'), docs'), Right(Places', Now'),
           ~ lag /\ Building' => CurrentMarked',
           \A t \in Requested' : <<requests'[t].doc.height, t>> \in Places',
           \A t \in Tx : docs'[t] # None =>
                 \/ <<docs'[t].height, t>> \in Places'
                 \/ phase' = "batch" /\ ~ Settled' /\ IsLeftOver(docs'[t].height, t, chain'),
           lag => \A t \in Tx : seen'[t] # None =>
                 <<seen'[t].height, t>> \in Places' \/ Final(seen'[t].height, t)
    PROVE  IndexInv' /\ CheckInv' /\ DownInv' /\ EmptyInv'
<1>1. IndexInv'
  <2>1. \A t \in Tx : docs'[t] # None =>
                 <<docs'[t].height, t>> \in Places' \/ LeftOver(docs[t].height, t)'
    BY DEF LeftOver, IsLeftOver, Final, MayBeAt
  <2>2. lag' => \A t \in Tx : seen'[t] # None =>
                 <<seen'[t].height, t>> \in Places' \/ Final(seen[t].height, t)'
    BY DEF Final, MayBeAt
  <2> QED
    BY <2>1, <2>2, PrimeFact DEF IndexInv
<1> QED
  BY <1>1 DEF CheckInv, DownInv, EmptyInv

\* The places of the indexed transactions while nothing is indexed.
LEMMA SamePlaces ==
    ASSUME chain' = chain, pc' # "build", pc # "build"
    PROVE  Places' = Places
BY DEF Places, Done, Placed

LEMMA SamePlacesBuild ==
    ASSUME UNCHANGED <<chain, pc>>, block'.txs = block.txs, at'[1] = at[1]
    PROVE  Places' = Places
BY DEF Places, Done, Placed, Earlier

LEMMA RefreshStep == Inv /\ Refresh => DataInv' /\ UpdateInv'
<1> SUFFICES ASSUME Inv, Refresh PROVE DataInv' /\ UpdateInv'
  OBVIOUS
<1>1. /\ seen' = docs
      /\ UNCHANGED <<target, lag, chain, top, docs, requests, block, at, pc, phase, kills>>
  BY DEF Refresh, config, process
<1>2. Places' = Places
  BY <1>1, SamePlacesBuild
<1>3. Now' = Now
  BY <1>1 DEF Now
<1>4. TypeInv /\ ChainInv /\ DataInv /\ UpdateInv
  BY DEF Inv, DataInv
<1>5. ChainInv'
  BY <1>1, <1>2, <1>4, PrimeFact DEF ChainInv
<1>6. UpdateInv'
  BY <1>1, <1>4 DEF UpdateInv, Requested
<1>7. CASE pc \in {"index", "build"}
  <2>1. IndexInv
    BY <1>4 DEF DataInv
  <2>2. ~ lag /\ Building' => CurrentMarked'
    <3>1. Building' = Building /\ CurrentMarked' = CurrentMarked
      BY <1>1, <1>3 DEF Building, CurrentMarked, Current, IsMarked, Spent
    <3> QED
      BY <1>7, <2>1, <3>1, IndexInvFact
  <2>3. Settled' = Settled /\ Requested' = Requested
    BY <1>1 DEF Settled, Requested
  <2>4. IndexInv' /\ CheckInv' /\ DownInv' /\ EmptyInv'
    <3>1. \A t \in Tx : seen'[t] # None =>
                 <<seen'[t].height, t>> \in Places' \/ Final(seen'[t].height, t)
      BY <1>1, <1>2, <1>7, <2>1, IndexInvFact DEF IsLeftOver
    <3> QED
      BY <1>1, <1>2, <1>3, <1>7, <2>1, <2>2, <2>3, <3>1, IndexInvFact, IndexInvNext
  <2> QED
    BY <1>5, <1>6, <2>4 DEF DataInv
<1>8. CASE pc \in {"down", "check"}
  <2>1. CheckInv'
    BY <1>1, <1>2, <1>4, PrimeFact DEF DataInv, CheckInv
  <2>2. DownInv'
    <3>1. TargetHeight' = TargetHeight /\ \A h, t : MayBeAt(h, t) = MayBeAt(h, t)'
      BY <1>1 DEF TargetHeight, MayBeAt
    <3>2. pc = "down" => Right(UpTo(Places', TargetHeight'), docs')
      BY <1>1, <1>2, <1>4, <3>1 DEF DataInv, DownInv
    <3>3. pc = "down" => \A t \in Tx : docs[t] # None =>
              /\ docs[t].height <= TargetHeight => <<docs[t].height, t>> \in Places
              /\ docs[t].height <= Len(chain) + BatchSize
              /\ MayBeAt(docs[t].height, t)
      BY <1>4 DEF DataInv, DownInv
    <3>4. \A t \in Tx : MayBeAt(docs[t].height, t) => MayBeAt(docs[t].height, t)'
      BY <1>1 DEF MayBeAt
    <3> QED
      BY <1>1, <1>2, <3>1, <3>2, <3>3, <3>4, PrimeFact DEF DownInv
  <2>3. EmptyInv'
    <3> SUFFICES ASSUME chain = <<>>, NEW t \in Tx, docs[t] # None
                 PROVE  Final(docs[t].height, t)
      BY <1>1 DEF EmptyInv, Final, MayBeAt
    <3>1. CASE pc = "down"
      <4>1. docs[t].height <= Len(chain) + BatchSize /\ MayBeAt(docs[t].height, t)
        BY <1>4, <3>1 DEF DataInv, DownInv
      <4>2. docs[t].height \in Nat
        BY <4>1, ConstantFact DEF MayBeAt
      <4>3. Len(chain) = 0
        OBVIOUS
      <4> QED
        BY <4>1, <4>2, <4>3, ConstantFact DEF Final
    <3>2. CASE pc = "check"
      <4>1. <<docs[t].height, t>> \in Placed(chain)
        BY <1>4, <3>2, PlacesIdle DEF DataInv, CheckInv
      <4> QED
        BY <4>1 DEF Placed
    <3> QED
      BY <1>8, <3>1, <3>2
  <2> QED
    BY <1>1, <1>5, <1>6, <1>8, <2>1, <2>2, <2>3 DEF DataInv, IndexInv
<1> QED
  BY <1>4, <1>7, <1>8 DEF TypeInv, TypeOK

\* The parts of the invariant that say something in the middle of the indexing.
LEMMA InvFact ==
    ASSUME Inv
    PROVE  TypeInv /\ ChainInv /\ IndexInv /\ CheckInv /\ DownInv /\ EmptyInv /\ UpdateInv
BY DEF Inv, DataInv

LEMMA FetchBlockStep == Inv /\ FetchBlock => DataInv' /\ UpdateInv'
<1> SUFFICES ASSUME Inv, FetchBlock PROVE DataInv' /\ UpdateInv'
  OBVIOUS
<1>1. /\ pc = "index" /\ pc' = "build" /\ at' = <<1, 1>>
      /\ UNCHANGED <<target, lag, chain, top, docs, seen, requests, phase, kills>>
  BY DEF FetchBlock, config, index
<1>2. Places' = Places
  BY <1>1 DEF Places, Done, Placed, Earlier
<1>3. Now' = Now /\ Requested' = Requested
  BY <1>1 DEF Now, Requested
<1>4. ChainInv'
  BY <1>1, <1>2, InvFact, PrimeFact DEF ChainInv
<1>5. UpdateInv'
  BY <1>1, <1>3, InvFact DEF UpdateInv
<1>6. CurrentMarked' /\ ~ Settled'
  <2>1. \A i \in 1 .. at'[2] - 1 : FALSE
    BY <1>1
  <2> QED
    BY <1>1, <2>1 DEF CurrentMarked, Settled
<1>7. IndexInv' /\ CheckInv' /\ DownInv' /\ EmptyInv'
  BY <1>1, <1>2, <1>3, <1>6, InvFact, IndexInvFact, IndexInvNext
<1> QED
  BY <1>4, <1>5, <1>7 DEF DataInv

\* What the documents are that indexPreviousTxData finds: those of the process,
\* and if they are not refreshed at least of the same block.
LEMMA PreviousFound ==
    ASSUME Inv, IndexPreviousTx
    PROVE  LET p == Spent(Current, at[2])
               doc == GetTransactionByHash(p[1])
           IN  /\ Now[p[1]] # None /\ <<doc.height, p[1]>> \in Places
               /\ Now[p[1]].height = doc.height
               /\ ~ lag => doc = Now[p[1]]
<1> DEFINE p == Spent(Current, at[2])
           doc == GetTransactionByHash(p[1])
<1>1. /\ Building /\ Current \in Tx /\ at[2] \in Inputs(Current) /\ p[1] \in Tx
      /\ IsDocument(p[1], doc) /\ doc # None
      /\ requests[p[1]].type # "none" \/ CanSearch
  BY InvFact, PreviousFact
<1>2. PICK q \in Places : q[2] = p[1]
  BY <1>1, InvFact, FetchedFact
<1> SUFFICES /\ Now[p[1]] # None /\ <<doc.height, p[1]>> \in Places
             /\ Now[p[1]].height = doc.height
             /\ ~ lag => doc = Now[p[1]]
  OBVIOUS
<1> HIDE DEF doc, p
<1>3. pc = "build" /\ Right(Places, Now)
  BY <1>1, InvFact, IndexInvFact DEF Building
<1>4. Now[p[1]] # None /\ Now[p[1]].height = q[1]
  BY <1>2, <1>3 DEF Right, Present
<1>5. q = <<q[1], q[2]>> /\ q \in Places
  BY <1>2, InvFact, PlacesType
<1>6. CASE requests[p[1]].type # "none"
  <2>1. doc = Now[p[1]]
    BY <1>1, <1>6 DEF doc, GetTransactionByHash, Now
  <2> QED
    BY <1>2, <1>4, <1>5, <2>1
<1>7. CASE requests[p[1]].type = "none"
  <2>1. doc = seen[p[1]] /\ Now[p[1]] = docs[p[1]]
    BY <1>1, <1>7 DEF doc, GetTransactionByHash, Now
  <2>2. CASE ~ lag
    <3>1. doc = Now[p[1]]
      BY <1>1, <1>7, <2>1, <2>2 DEF CanSearch
    <3> QED
      BY <1>2, <1>4, <1>5, <3>1
  <2>3. CASE lag
    <3>1. <<doc.height, p[1]>> \in Places \/ Final(doc.height, p[1])
      <4>1. seen[p[1]] # None /\ p[1] \in Tx
        BY <1>1, <2>1
      <4>2. \A t \in Tx : seen[t] # None =>
               <<seen[t].height, t>> \in Places \/ Final(seen[t].height, t)
        BY <1>3, <2>3, InvFact, IndexInvFact
      <4> QED
        BY <2>1, <4>1, <4>2
    <3>2. CASE <<doc.height, p[1]>> \in Places
      <4>1. <<doc.height, p[1]>> = q
        BY <1>2, <3>2, InvFact DEF ChainInv, Legal
      <4>2. q[1] = doc.height
        BY <4>1
      <4> QED
        BY <1>4, <2>3, <3>2, <4>2
    <3>3. CASE Final(doc.height, p[1])
      <4>1. <<q[1], p[1]>> \in Places
        BY <1>2, <1>5
      <4>2. q[1] = doc.height
        BY <3>3, <4>1, InvFact, FinalPlace
      <4> QED
        BY <1>4, <2>3, <4>1, <4>2
    <3> QED
      BY <3>1, <3>2, <3>3
  <2> QED
    BY <2>2, <2>3
<1> QED
  BY <1>6, <1>7

LEMMA IndexPreviousTxStep == Inv /\ IndexPreviousTx => DataInv' /\ UpdateInv'
<1> SUFFICES ASSUME Inv, IndexPreviousTx PROVE DataInv' /\ UpdateInv'
  OBVIOUS
<1> DEFINE p == Spent(Current, at[2])
           doc == GetTransactionByHash(p[1])
           new == Redeem(doc, p[2], Current)
<1>1. /\ Building /\ Current \in Tx /\ at[2] \in Inputs(Current)
      /\ p = <<p[1], p[2]>> /\ p[1] \in Tx /\ p[2] \in DOMAIN Raw[p[1]].vout
  BY InvFact, PreviousFact, InputFact
<1>2. /\ new # None /\ new.height = doc.height
      /\ IsMarked(new, p[2], Current)
      /\ \A m \in DOMAIN Raw[p[1]].vout : m # p[2] => new.vout[m] = doc.vout[m]
      /\ requests'[p[1]].doc = new
      /\ requests'[p[1]].type = (IF requests[p[1]].type = "index" THEN "index" ELSE "update")
      /\ \A u \in Tx \ {p[1]} : requests'[u] = requests[u]
  BY InvFact, PreviousFact
<1>3. /\ Now[p[1]] # None /\ <<doc.height, p[1]>> \in Places
      /\ Now[p[1]].height = doc.height
      /\ ~ lag => doc = Now[p[1]]
  BY PreviousFound
<1>4. /\ at' = <<at[1], at[2] + 1>> /\ pc = "build"
      /\ UNCHANGED <<target, lag, chain, top, docs, seen, block, pc, phase, kills>>
  BY DEF IndexPreviousTx, config, index, Building
<1> HIDE DEF p, doc, new
<1>5. /\ Places' = Places /\ Current' = Current
      /\ at = <<at[1], at[2]>> /\ at[2] \in Nat \ {0}
  BY <1>4, SamePlacesBuild, InvFact, BuildFact DEF Current
<1>6. Now'[p[1]] = new /\ (\A u \in Tx \ {p[1]} : Now'[u] = Now[u])
  BY <1>1, <1>2, <1>4 DEF Now
<1>7. \A q \in Places : q = <<q[1], q[2]>> /\ q[2] \in Tx
  BY InvFact, PlacesType
<1>8. Right(Places, Now) /\ Legal(Places)
  BY <1>4, InvFact, IndexInvFact DEF ChainInv
<1>9. Present(Places, Now')
  <2> SUFFICES ASSUME NEW q \in Places
               PROVE  Now'[q[2]] # None /\ Now'[q[2]].height = q[1]
    BY DEF Present
  <2>1. CASE q[2] = p[1]
    <3>1. q = <<doc.height, p[1]>>
      BY <1>3, <1>8, <2>1 DEF Legal
    <3> QED
      BY <1>2, <1>6, <2>1, <3>1
  <2>2. CASE q[2] # p[1]
    BY <1>6, <1>7, <1>8, <2>2 DEF Right, Present
  <2> QED
    BY <2>1, <2>2
\* An output of another place, or marked before, keeps its mark.
<1>10. ASSUME ~ lag, NEW s, s = <<s[1], s[2]>>, s[1] \in Tx, s[2] \in DOMAIN Raw[s[1]].vout, s # p
       PROVE  Now'[s[1]].vout[s[2]] = Now[s[1]].vout[s[2]]
  <2>1. CASE s[1] = p[1]
    <3>1. s[2] # p[2]
      BY <1>1, <1>10, <2>1
    <3> QED
      BY <1>2, <1>3, <1>6, <1>10, <2>1, <3>1
  <2>2. CASE s[1] # p[1]
    BY <1>6, <1>10, <2>2
  <2> QED
    BY <2>1, <2>2
<1>11. ASSUME ~ lag, NEW q \in Places, NEW j \in Inputs(q[2])
       PROVE  IsMarked(Now'[Spent(q[2], j)[1]], Spent(q[2], j)[2], q[2])
  <2>1. Spent(q[2], j) # p
    BY <1>1, <1>11, InvFact, FetchedFact DEF p
  <2>2. /\ Spent(q[2], j) = <<Spent(q[2], j)[1], Spent(q[2], j)[2]>>
        /\ Spent(q[2], j)[1] \in Tx
        /\ Spent(q[2], j)[2] \in DOMAIN Raw[Spent(q[2], j)[1]].vout
    BY <1>7, <1>11, InputFact
  <2>3. IsMarked(Now[Spent(q[2], j)[1]], Spent(q[2], j)[2], q[2])
    BY <1>8, <1>11 DEF Right, Marked
  <2> QED
    BY <1>10, <1>11, <2>1, <2>2, <2>3 DEF IsMarked
<1>12. Right(Places, Now')
  BY <1>9, <1>11 DEF Right, Marked
<1>13. ASSUME ~ lag, NEW i \in 1 .. at[2]
       PROVE  IsMarked(Now'[Spent(Current, i)[1]], Spent(Current, i)[2], Current)
  <2>1. CASE Spent(Current, i) = p
    BY <1>2, <1>6, <2>1
  <2>2. CASE Spent(Current, i) # p
    <3>1. i \in 1 .. at[2] - 1
      BY <1>5, <2>2 DEF p
    <3>2. i \in Inputs(Current)
      BY <1>1, <1>4, <3>1, InvFact DEF TypeInv, BuildInv
    <3>3. /\ Spent(Current, i) = <<Spent(Current, i)[1], Spent(Current, i)[2]>>
          /\ Spent(Current, i)[1] \in Tx
          /\ Spent(Current, i)[2] \in DOMAIN Raw[Spent(Current, i)[1]].vout
      BY <1>1, <3>2, InputFact
    <3>4. IsMarked(Now[Spent(Current, i)[1]], Spent(Current, i)[2], Current)
      BY <1>1, <1>4, <1>13, <3>1, InvFact, IndexInvFact DEF CurrentMarked
    <3> QED
      BY <1>10, <1>13, <2>2, <3>3, <3>4 DEF IsMarked
  <2> QED
    BY <2>1, <2>2
<1>14. ~ lag /\ Building' => CurrentMarked'
  <2>1. at'[2] - 1 = at[2]
    BY <1>4, <1>5
  <2> QED
    BY <1>5, <1>13, <2>1 DEF CurrentMarked, IsMarked, Spent
<1>15. \A t \in Requested' : <<requests'[t].doc.height, t>> \in Places'
  <2> SUFFICES ASSUME NEW t \in Tx, requests'[t].type # "none"
               PROVE  <<requests'[t].doc.height, t>> \in Places
    BY <1>5 DEF Requested
  <2>1. CASE t = p[1]
    BY <1>2, <1>3, <2>1
  <2>2. CASE t # p[1]
    <3>1. requests'[t] = requests[t]
      BY <1>2, <2>2
    <3>2. t \in Requested
      BY <3>1 DEF Requested
    <3> QED
      BY <1>4, <3>1, <3>2, InvFact, IndexInvFact
  <2> QED
    BY <2>1, <2>2
<1>16. Settled' = Settled
  BY <1>4 DEF Settled
<1>17. IndexInv' /\ CheckInv' /\ DownInv' /\ EmptyInv'
  BY <1>4, <1>5, <1>12, <1>14, <1>15, <1>16, InvFact, IndexInvFact, IndexInvNext
<1>18. UpdateInv'
  <2> SUFFICES ASSUME NEW t \in Tx, requests'[t].type = "update"
               PROVE  docs[t] # None
    BY <1>4 DEF UpdateInv, Requested
  <2>1. CASE t \in Requested /\ requests[t].type = "update"
    BY <2>1, InvFact DEF UpdateInv
  <2>2. CASE t = p[1] /\ t \notin Requested
    BY <1>3, <2>2, InvFact, WrittenFact
  <2>3. t = p[1] \/ requests'[t] = requests[t]
    BY <1>2
  <2>4. t = p[1] => requests[t].type # "index"
    BY <1>2
  <2>5. requests[t].type \in {"none", "index", "update"}
    BY InvFact DEF TypeInv, TypeOK
  <2> QED
    BY <2>1, <2>2, <2>3, <2>4, <2>5 DEF Requested
<1>19. ChainInv'
  BY <1>4, <1>5, <1>8, PrimeFact DEF ChainInv
<1> QED
  BY <1>17, <1>18, <1>19 DEF DataInv

\* After a persist the documents are as the process saw them.
LEMMA PersistedFact ==
    ASSUME Inv, pc \in {"index", "build"}, docs' = Now, requests' = NoRequests,
           top' = Len(chain), UNCHANGED <<lag, seen, chain, block, at, pc, phase>>,
           \A t \in Tx : ~ IsLeftOver(docs[t].height, t, chain) \/ ~ Settled'
    PROVE  DataInv' /\ UpdateInv'
<1>1. Places' = Places
  BY SamePlacesBuild
<1>2. Requested' = {} /\ Now' = Now
  <2>1. (\A t \in Tx : requests'[t].type = "none") /\ Requested' = {}
    BY NoRequestsFact DEF NoRequestsOK, Requested
  <2>2. Now' = [t \in Tx |-> docs'[t]]
    BY <2>1 DEF Now
  <2> QED
    BY <2>1, <2>2 DEF Now
<1>3. Right(Places, Now)
  BY InvFact, IndexInvFact
<1>4. Right(UpTo(Places', top'), docs')
  <2>1. UpTo(Places, Len(chain)) \subseteq Places
    BY DEF UpTo
  <2> QED
    BY <1>1, <1>3, <2>1, RightFewer
<1>5. ~ lag /\ Building' => CurrentMarked'
  <2>1. Building' = Building /\ CurrentMarked' = CurrentMarked
    BY <1>2 DEF Building, CurrentMarked, Current, IsMarked, Spent
  <2> QED
    BY <2>1, InvFact, IndexInvFact
<1>7. ASSUME NEW t \in Tx, docs'[t] # None
      PROVE  \/ <<docs'[t].height, t>> \in Places'
             \/ phase' = "batch" /\ ~ Settled' /\ IsLeftOver(docs'[t].height, t, chain')
  <2>1. CASE t \in Requested
    <3>1. docs'[t] = requests[t].doc
      BY <2>1, InvFact, WrittenFact
    <3> QED
      BY <1>1, <2>1, <3>1, InvFact, IndexInvFact
  <2>2. CASE t \notin Requested
    <3>1. docs'[t] = docs[t]
      BY <2>2, InvFact, WrittenFact
    <3>2. \/ <<docs[t].height, t>> \in Places
          \/ phase = "batch" /\ IsLeftOver(docs[t].height, t, chain)
      BY <1>7, <3>1, InvFact, IndexInvFact
    <3> QED
      BY <1>1, <3>1, <3>2
  <2> QED
    BY <2>1, <2>2
<1>8. lag => \A t \in Tx : seen'[t] # None =>
                 <<seen'[t].height, t>> \in Places' \/ Final(seen'[t].height, t)
  BY <1>1, InvFact, IndexInvFact
<1>9. IndexInv' /\ CheckInv' /\ DownInv' /\ EmptyInv'
  BY <1>1, <1>2, <1>3, <1>4, <1>5, <1>7, <1>8, IndexInvNext
<1>10. ChainInv'
  BY <1>1, InvFact, PrimeFact DEF ChainInv
<1>11. UpdateInv'
  BY <1>2 DEF UpdateInv
<1> QED
  BY <1>9, <1>10, <1>11 DEF DataInv

LEMMA PersistForPreviousTxStep == Inv /\ PersistForPreviousTx => DataInv' /\ UpdateInv'
<1> SUFFICES ASSUME Inv, PersistForPreviousTx PROVE DataInv' /\ UpdateInv'
  OBVIOUS
<1>1. /\ pc = "build" /\ docs' = Now /\ top' = Len(chain) /\ requests' = NoRequests
      /\ UNCHANGED <<target, lag, chain, seen, block, at, pc, phase, kills>>
  BY InvFact, WrittenFact DEF PersistForPreviousTx, config, Building
<1>2. ~ Settled'
  BY <1>1 DEF Settled
<1> QED
  BY <1>1, <1>2, PersistedFact

\* What is left of the first batch is gone when the batch is persisted.
LEMMA NoLeftOver ==
    ASSUME Len(chain) \in Nat, Len(chain) >= BatchSize
    PROVE  \A h, t : ~ IsLeftOver(h, t, chain)
<1> SUFFICES ASSUME NEW h, NEW t, IsLeftOver(h, t, chain) PROVE FALSE
  OBVIOUS
<1>1. h \in Nat
  BY ConstantFact DEF IsLeftOver, Final, MayBeAt
<1> QED
  BY <1>1, ConstantFact DEF IsLeftOver

LEMMA PersistStep == Inv /\ Persist => DataInv' /\ UpdateInv'
<1> SUFFICES ASSUME Inv, Persist PROVE DataInv' /\ UpdateInv'
  OBVIOUS
<1>1. /\ pc = "index" /\ top < Len(chain) /\ PersistDue /\ UNCHANGED <<target, lag, seen, kills>>
  BY DEF Persist, config
<1>2. ~ PersistFails
  BY InvFact DEF UpdateInv, PersistFails
<1>3. /\ docs' = Now /\ top' = Len(chain) /\ requests' = NoRequests
      /\ UNCHANGED <<chain, block, at, pc, phase>>
  BY <1>2, InvFact, WrittenFact DEF Persist
<1>4. CASE phase = "single"
  <2>1. \A t \in Tx : docs[t] # None => <<docs[t].height, t>> \in Places
    BY <1>1, <1>4, InvFact, IndexInvFact
  <2>2. ASSUME NEW t \in Tx PROVE ~ IsLeftOver(docs[t].height, t, chain)
    <3>1. CASE docs[t] = None
      BY <3>1 DEF IsLeftOver, Final, MayBeAt, None
    <3>2. CASE docs[t] # None
      <4>1. docs[t].height <= Len(chain) /\ docs[t].height \in 1 .. MaxHeight
        BY <1>1, <2>1, <3>2, InvFact, PlacesType
      <4> QED
        BY <4>1, ConstantFact, InvFact, TypeFact DEF IsLeftOver
    <3> QED
      BY <3>1, <3>2
  <2> QED
    BY <1>1, <1>3, <2>2, PersistedFact
<1>5. CASE phase # "single"
  <2>1. Len(chain) % BatchSize = 0 \/ Len(chain) >= target
    BY <1>1, <1>5 DEF PersistDue
  <2>2. Len(chain) \in Nat /\ top \in Nat /\ target \in Nat /\ target >= BatchSize
    BY InvFact, TypeFact
  <2>3. BatchSize \in Nat /\ BatchSize >= 1
    BY ConstantFact
  <2>4. Len(chain) >= BatchSize
    <3>1. CASE Len(chain) >= target
      BY <2>2, <2>3, <3>1
    <3>2. CASE Len(chain) % BatchSize = 0
      <4>1. SUFFICES ASSUME Len(chain) < BatchSize PROVE FALSE
        BY <2>2, <2>3
      <4>2. Len(chain) >= 1
        BY <1>1, <2>2
      <4>3. Len(chain) % BatchSize = Len(chain)
        BY <2>2, <2>3, <4>1
      <4> QED
        BY <3>2, <4>2, <4>3
    <3> QED
      BY <2>1, <3>1, <3>2
  <2>5. \A t \in Tx : ~ IsLeftOver(docs[t].height, t, chain)
    BY <2>2, <2>4, NoLeftOver
  <2> QED
    BY <1>1, <1>3, <2>5, PersistedFact
<1> QED
  BY <1>4, <1>5

LEMMA FinishBulkStep == Inv /\ FinishBulk => DataInv' /\ UpdateInv'
<1> SUFFICES ASSUME Inv, FinishBulk PROVE DataInv' /\ UpdateInv'
  OBVIOUS
<1>1. /\ pc = "index" /\ phase' = "single" /\ Len(chain) >= target
      /\ UNCHANGED <<target, lag, chain, top, docs, seen, requests, block, at, pc, kills>>
  BY DEF FinishBulk, config, index
<1>2. Places' = Places
  BY <1>1, SamePlacesBuild
<1>3. Now' = Now /\ Requested' = Requested /\ ~ Building'
  BY <1>1 DEF Now, Requested, Building
<1>4. \A t \in Tx : ~ IsLeftOver(docs[t].height, t, chain)
  <2>1. Len(chain) \in Nat /\ Len(chain) >= BatchSize
    BY <1>1, InvFact, TypeFact, ConstantFact
  <2> QED
    BY <2>1, NoLeftOver
<1>5. IndexInv' /\ CheckInv' /\ DownInv' /\ EmptyInv'
  BY <1>1, <1>2, <1>3, <1>4, InvFact, IndexInvFact, IndexInvNext
<1>6. ChainInv'
  BY <1>1, <1>2, InvFact, PrimeFact DEF ChainInv
<1>7. UpdateInv'
  BY <1>1, <1>3, InvFact DEF UpdateInv
<1> QED
  BY <1>5, <1>6, <1>7 DEF DataInv

LEMMA IndexTransactionStep == Inv /\ IndexTransaction => DataInv' /\ UpdateInv'
<1> SUFFICES ASSUME Inv, IndexTransaction PROVE DataInv' /\ UpdateInv'
  OBVIOUS
<1> DEFINE doc == Created(Current, block)
           new == <<Len(chain) + 1, Current>>
<1>1. /\ Building /\ pc = "build" /\ at[2] \notin Inputs(Current)
      /\ AddRequest(Current, "index", doc)
      /\ block' = CreateBlockTransaction(Current, block)
      /\ at' = <<at[1] + 1, 1>>
      /\ UNCHANGED <<target, lag, chain, top, docs, seen, pc, phase, kills>>
  BY DEF IndexTransaction, config, index, Building
<1>2. doc # None /\ doc.height = Len(chain) + 1
  BY <1>1, InvFact, CreatedFact
<1> HIDE DEF doc
<1>3. /\ Current \in Tx /\ Current = block.txs[at[1]] /\ Len(chain) + 1 \in 1 .. MaxHeight
      /\ at[1] \in 1 .. Len(block.txs) /\ at[2] \in Nat \ {0} /\ IsBlock(block)
      /\ block.stakedBy \in AnyAddress /\ at[1] \in Nat
  BY <1>1, InvFact, BuildFact DEF Current
<1>4. requests = [t \in Tx |-> requests[t]]
  BY InvFact DEF TypeInv, ShapeInv
<1>5. /\ requests'[Current].doc = doc /\ requests'[Current].type = "index"
      /\ \A u \in Tx \ {Current} : requests'[u] = requests[u]
  BY <1>1, <1>3, <1>4, AddRequestFact
<1>6. block'.txs = block.txs
  BY <1>1, <1>3, AddedTransactionFact DEF SameBlock
<1>7. Places' = Places \cup {new}
  <2>1. Earlier(block.txs, at[1] + 1) = Earlier(block.txs, at[1]) \cup {Current}
    <3>1. \A k : k \in 1 .. at[1] + 1 - 1 <=> (k \in 1 .. at[1] - 1 \/ k = at[1])
      BY <1>3
    <3> QED
      BY <1>3, <3>1 DEF Earlier
  <2>2. Placed(chain)' = Placed(chain)
    BY <1>1 DEF Placed
  <2>3. Places' = Placed(chain) \cup {<<Len(chain) + 1, t>> : t \in Earlier(block.txs, at[1] + 1)}
    <3>1. at'[1] = at[1] + 1
      BY <1>1
    <3> QED
      BY <1>1, <1>6, <2>2, <3>1 DEF Places, Done, Earlier
  <2>4. Places = Placed(chain) \cup {<<Len(chain) + 1, t>> : t \in Earlier(block.txs, at[1])}
    BY <1>1, InvFact, PlacesBuild
  <2> QED
    BY <2>1, <2>3, <2>4
<1>8. /\ \A q \in Places : /\ q = <<q[1], q[2]>> /\ q[2] \in Tx /\ q[2] # Current
                           /\ q[1] \in Nat /\ q[1] <= Len(chain) + 1
      /\ \A i \in Inputs(Current) : \E q \in Places : q[2] = Spent(Current, i)[1]
      /\ \A q \in Places : \A i \in Inputs(Current), j \in Inputs(q[2]) :
            Spent(q[2], j) # Spent(Current, i)
      /\ Len(chain) \in Nat
  <2>1. /\ \A q \in Places : q[2] # Current
        /\ \A i \in Inputs(Current) : \E q \in Places : q[2] = Spent(Current, i)[1]
        /\ \A q \in Places : \A i \in Inputs(Current), j \in Inputs(q[2]) :
              Spent(q[2], j) # Spent(Current, i)
    BY <1>1, InvFact, FetchedFact
  <2>2. \A q \in Places : /\ q = <<q[1], q[2]>> /\ q[2] \in Tx
                          /\ q[1] \in Nat /\ q[1] <= Len(chain) + 1
    BY InvFact, PlacesType, ConstantFact
  <2> QED
    BY <2>1, <2>2, InvFact, TypeFact
<1>9. Right(Places, Now) /\ Legal(Places)
  BY <1>1, InvFact, IndexInvFact DEF ChainInv
<1>10. Legal(Places')
  <2>1. ASSUME NEW q \in Places', NEW r \in Places', q[2] = r[2] PROVE q = r
    BY <1>7, <1>8, <1>9, <2>1 DEF Legal
  <2>2. ASSUME NEW q \in Places', NEW i \in Inputs(q[2])
        PROVE  \E r \in Places' : r[2] = Spent(q[2], i)[1] /\ r[1] <= q[1]
    <3>1. CASE q \in Places
      <4>1. PICK r \in Places : r[2] = Spent(q[2], i)[1] /\ r[1] <= q[1]
        BY <1>9, <2>2, <3>1 DEF Legal
      <4> QED
        BY <1>7, <4>1
    <3>2. CASE q = new
      <4>1. PICK r \in Places : r[2] = Spent(q[2], i)[1]
        BY <1>8, <2>2, <3>2
      <4>2. r[1] <= q[1]
        BY <1>8, <3>2
      <4> QED
        BY <1>7, <4>1, <4>2
    <3> QED
      BY <1>7, <3>1, <3>2
  <2>3. ASSUME NEW q \in Places', NEW r \in Places', NEW i \in Inputs(q[2]), NEW j \in Inputs(r[2]),
               Spent(q[2], i) = Spent(r[2], j)
        PROVE  q[2] = r[2]
    <3>1. CASE q \in Places /\ r \in Places
      BY <1>9, <2>3, <3>1 DEF Legal
    <3>2. CASE q = new /\ r \in Places
      BY <1>8, <2>3, <3>2
    <3>3. CASE q \in Places /\ r = new
      BY <1>8, <2>3, <3>3
    <3>4. CASE q = new /\ r = new
      BY <3>4
    <3> QED
      BY <1>7, <3>1, <3>2, <3>3, <3>4
  <2> QED
    BY <2>1, <2>2, <2>3 DEF Legal
<1>11. /\ Now'[Current] = doc
       /\ \A u \in Tx \ {Current} : Now'[u] = Now[u]
  BY <1>1, <1>3, <1>5 DEF Now
<1>12. Right(Places, Now')
  <2>1. Places \subseteq Nat \X Tx /\ \A q \in Places : Now'[q[2]] = Now[q[2]]
    BY <1>8, <1>11
  <2> QED
    BY <1>9, <2>1, RightSame
<1>13. ASSUME ~ lag, NEW i \in Inputs(Current)
       PROVE  IsMarked(Now'[Spent(Current, i)[1]], Spent(Current, i)[2], Current)
  <2>1. i \in 1 .. at[2] - 1
    <3>1. PICK n \in Nat : Inputs(Current) = 1 .. n
      BY <1>3, InputFact
    <3>2. at[2] > n
      BY <1>1, <1>3, <3>1
    <3> QED
      BY <1>3, <1>13, <3>1, <3>2
  <2>2. IsMarked(Now[Spent(Current, i)[1]], Spent(Current, i)[2], Current)
    BY <1>1, <1>13, <2>1, InvFact, IndexInvFact DEF CurrentMarked
  <2>3. Spent(Current, i)[1] \in Tx \ {Current}
    BY <1>8, <1>13
  <2> QED
    BY <1>11, <2>2, <2>3
<1>14. Right(Places', Now')
  <2>1. Present(Places', Now')
    BY <1>2, <1>7, <1>11, <1>12 DEF Right, Present
  <2>2. ~ lag => Marked(Places', Now')
    BY <1>7, <1>12, <1>13 DEF Right, Marked
  <2> QED
    BY <2>1, <2>2 DEF Right
<1>15. UpTo(Places', top') = UpTo(Places, top)
  <2>1. ~ (Len(chain) + 1 <= top)
    BY InvFact, TypeFact
  <2> QED
    BY <1>1, <1>7, <2>1 DEF UpTo
<1>16. CurrentMarked' /\ Settled' = Settled
  <2>1. \A i \in 1 .. at'[2] - 1 : FALSE
    BY <1>1
  <2> QED
    BY <1>1, <2>1 DEF CurrentMarked, Settled
<1>17. \A t \in Requested' : <<requests'[t].doc.height, t>> \in Places'
  <2> SUFFICES ASSUME NEW t \in Tx, requests'[t].type # "none"
               PROVE  <<requests'[t].doc.height, t>> \in Places'
    BY DEF Requested
  <2>1. CASE t = Current
    BY <1>2, <1>5, <1>7, <2>1
  <2>2. CASE t # Current
    <3>1. requests'[t] = requests[t]
      BY <1>5, <2>2
    <3>2. t \in Requested
      BY <3>1 DEF Requested
    <3> QED
      BY <1>1, <1>7, <3>1, <3>2, InvFact, IndexInvFact
  <2> QED
    BY <2>1, <2>2
<1>18. Right(UpTo(Places', top'), docs')
  BY <1>1, <1>15, InvFact, IndexInvFact
<1>19. \A t \in Tx : docs'[t] # None =>
          \/ <<docs'[t].height, t>> \in Places'
          \/ phase' = "batch" /\ ~ Settled' /\ IsLeftOver(docs'[t].height, t, chain')
  BY <1>1, <1>7, <1>16, InvFact, IndexInvFact
<1>20. lag => \A t \in Tx : seen'[t] # None =>
          <<seen'[t].height, t>> \in Places' \/ Final(seen'[t].height, t)
  BY <1>1, <1>7, InvFact, IndexInvFact
<1>21. IndexInv' /\ CheckInv' /\ DownInv' /\ EmptyInv'
  BY <1>1, <1>14, <1>16, <1>17, <1>18, <1>19, <1>20, IndexInvNext
<1>22. UpdateInv'
  <2> SUFFICES ASSUME NEW t \in Tx, requests'[t].type = "update" PROVE docs[t] # None
    BY <1>1 DEF UpdateInv, Requested
  <2>1. requests'[t] = requests[t]
    BY <1>5
  <2> QED
    BY <2>1, InvFact DEF UpdateInv, Requested
<1>23. ChainInv'
  BY <1>1, <1>10, PrimeFact DEF ChainInv
<1> QED
  BY <1>21, <1>22, <1>23 DEF DataInv

LEMMA FinishBlockStep == Inv /\ FinishBlock => DataInv' /\ UpdateInv'
<1> SUFFICES ASSUME Inv, FinishBlock PROVE DataInv' /\ UpdateInv'
  OBVIOUS
<1>1. /\ pc = "build" /\ pc' = "index"
      /\ UNCHANGED <<target, lag, top, docs, seen, requests, phase, kills>>
  BY DEF FinishBlock, config
<1>2. /\ at[1] = Len(block.txs) + 1 /\ chain' = Append(chain, UpdateSupply(block))
      /\ UpdateSupply(block).txs = block.txs /\ Len(chain') = Len(chain) + 1
      /\ chain'[Len(chain) + 1] = UpdateSupply(block)
      /\ DOMAIN chain' = 1 .. Len(chain) + 1
      /\ Len(chain) + 1 \in 1 .. MaxHeight
  BY InvFact, FinishedFact DEF SameBlock
<1>3. /\ block.txs \in Blocks[Len(chain) + 1] /\ block.txs \in Seq(Tx)
      /\ Len(block.txs) \in Nat /\ DOMAIN block.txs = 1 .. Len(block.txs)
  BY <1>1, InvFact, BuildFact
<1>4. Earlier(block.txs, at[1]) = {u \in Tx : \E j \in DOMAIN block.txs : block.txs[j] = u}
  <2>1. at[1] - 1 = Len(block.txs)
    BY <1>2, <1>3
  <2> QED
    BY <1>3, <2>1 DEF Earlier
<1>5. Places' = Places
  <2>1. Placed(chain') = Placed(chain) \cup {<<Len(chain) + 1, t>> : t \in Earlier(block.txs, at[1])}
    BY <1>2, <1>4, InvFact, TypeFact, PlacedAppend
  <2>2. Places' = Placed(chain')
    BY <1>1 DEF Places, Done, Placed
  <2>3. Places = Placed(chain) \cup {<<Len(chain) + 1, t>> : t \in Earlier(block.txs, at[1])}
    BY <1>1, InvFact, PlacesBuild
  <2> QED
    BY <2>1, <2>2, <2>3
<1>6. Now' = Now /\ Requested' = Requested /\ ~ Building'
  BY <1>1 DEF Now, Requested, Building
<1>7. ~ Settled'
  <2>1. top # Len(chain')
    BY <1>2, InvFact, TypeFact
  <2> QED
    BY <1>1, <2>1 DEF Settled
<1>8. ASSUME NEW t \in Tx, docs[t] # None
      PROVE  \/ <<docs[t].height, t>> \in Places
             \/ phase = "batch" /\ IsLeftOver(docs[t].height, t, chain')
  <2>1. \/ <<docs[t].height, t>> \in Places
        \/ phase = "batch" /\ IsLeftOver(docs[t].height, t, chain)
    BY <1>1, <1>8, InvFact, IndexInvFact
  <2>2. CASE IsLeftOver(docs[t].height, t, chain) /\ docs[t].height = Len(chain) + 1
    <3>1. /\ Len(chain) + 1 \in 1 .. FinalHeight
          /\ \E txs \in Blocks[Len(chain) + 1] : \E j \in DOMAIN txs : txs[j] = t
      BY <2>2, ConstantFact DEF IsLeftOver, Final, MayBeAt
    <3>2. \E j \in DOMAIN block.txs : block.txs[j] = t
      BY <1>3, <3>1, FinalBlock
    <3>3. t \in Earlier(block.txs, at[1])
      BY <1>4, <3>2
    <3>4. <<Len(chain) + 1, t>> \in Places
      BY <1>1, <3>3, InvFact, PlacesBuild
    <3> QED
      BY <2>2, <3>4
  <2>3. CASE IsLeftOver(docs[t].height, t, chain) /\ docs[t].height # Len(chain) + 1
    <3>1. docs[t].height \in Nat /\ Len(chain) \in Nat
      BY <2>3, ConstantFact, InvFact, TypeFact DEF IsLeftOver, Final, MayBeAt
    <3>2. docs[t].height > Len(chain')
      BY <1>2, <2>3, <3>1 DEF IsLeftOver
    <3> QED
      BY <2>1, <2>3, <3>2 DEF IsLeftOver
  <2> QED
    BY <2>1, <2>2, <2>3
<1>9. IndexInv' /\ CheckInv' /\ DownInv' /\ EmptyInv'
  BY <1>1, <1>5, <1>6, <1>7, <1>8, InvFact, IndexInvFact, IndexInvNext
<1>10. ChainInv'
  BY <1>1, <1>5, InvFact, PrimeFact DEF ChainInv
<1>11. UpdateInv'
  BY <1>1, <1>6, InvFact DEF UpdateInv
<1> QED
  BY <1>9, <1>10, <1>11 DEF DataInv

\* Indexing starts: after a rewind what is there is right; with an empty index
\* there may be documents of the first batch.
LEMMA StartIndexFact ==
    ASSUME Inv, pc \in {"down", "check"}, pc' = "index",
           UNCHANGED <<target, lag, chain, top, docs, seen, requests, block, at, kills>>,
           Right(Places, docs),
           \A t \in Tx : docs[t] # None =>
                 \/ <<docs[t].height, t>> \in Places
                 \/ phase' = "batch" /\ ~ Settled' /\ IsLeftOver(docs[t].height, t, chain),
           lag => \A t \in Tx : seen[t] # None =>
                 <<seen[t].height, t>> \in Places \/ Final(seen[t].height, t)
    PROVE  DataInv' /\ UpdateInv'
<1>1. requests = NoRequests
  BY InvFact DEF TypeInv, ShapeInv
<1>2. Places' = Places
  BY SamePlaces
<1>3. Requested' = {} /\ ~ Building'
  BY <1>1, NoRequestsNone DEF Requested, Building
<1>4. Right(Places, Now)
  <2>1. \A t \in Tx : Now[t] = docs[t]
    BY <1>1, NoRequestsNone
  <2>2. Places \subseteq Nat \X Tx /\ \A q \in Places : Now[q[2]] = docs[q[2]]
    <3>1. \A q \in Places : q = <<q[1], q[2]>> /\ q[2] \in Tx /\ q[1] \in Nat
      BY InvFact, PlacesType, ConstantFact
    <3> QED
      BY <2>1, <3>1
  <2> QED
    BY <2>2, InvFact, RightSame DEF ChainInv
<1>5. Now' = Now
  BY DEF Now
<1>6. Right(UpTo(Places', top'), docs')
  <2>1. UpTo(Places, top) \subseteq Places
    BY DEF UpTo
  <2> QED
    BY <1>2, <2>1, RightFewer
<1>7. IndexInv' /\ CheckInv' /\ DownInv' /\ EmptyInv'
  BY <1>2, <1>3, <1>4, <1>5, <1>6, IndexInvNext
<1>8. ChainInv'
  BY <1>2, InvFact, PrimeFact DEF ChainInv
<1>9. UpdateInv'
  BY <1>3 DEF UpdateInv
<1> QED
  BY <1>7, <1>8, <1>9 DEF DataInv

\* A rewind deletes what is not of the blocks that stay.
LEMMA RewindStep ==
    ASSUME Inv, NEW h \in 0 .. Len(chain), Rewind(h), pc \in {"down", "index"},
           pc = "index" => phase = "single",
           UNCHANGED <<target, lag, kills>>,
           Right(UpTo(Places, h), docs),
           \A t \in Tx : docs[t] # None /\ docs[t].height <= h => <<docs[t].height, t>> \in Places,
           h = 0 /\ lag => \A t \in Tx : docs[t] # None => Final(docs[t].height, t)
    PROVE  DataInv' /\ UpdateInv'
<1>1. /\ seen = docs /\ UNCHANGED <<seen, block, at, phase>>
      /\ chain' = SubSeq(chain, 1, h) /\ top' = h /\ pc' = "check"
      /\ requests' = NoRequests
      /\ \A t \in Tx : docs'[t] = (IF docs[t].height > h THEN None ELSE docs[t])
  BY InvFact, RewindFact
<1>2. Len(chain') = h /\ Placed(chain)' = UpTo(Placed(chain), h) /\ h \in Nat
  BY <1>1, InvFact, CutType
<1>3. Places' = UpTo(Places, h)
  BY <1>1, <1>2, PlacesIdle DEF Places, Done
<1>4. \A q \in Places : q = <<q[1], q[2]>> /\ q[2] \in Tx /\ q[1] \in Nat
  BY InvFact, PlacesType, ConstantFact
<1>5. Legal(UpTo(Places, h))
  BY <1>2, <1>4, InvFact, LegalUpTo DEF ChainInv
<1>6. \A t \in Tx : docs[t] # None => docs[t].height \in Nat \ {0}
  BY InvFact, DocFact, ConstantFact DEF TypeInv, TypeOK
<1>7. Right(UpTo(Places, h), docs')
  <2>1. UpTo(Places, h) \subseteq Nat \X Tx
    BY <1>4 DEF UpTo
  <2>2. ASSUME NEW q \in UpTo(Places, h) PROVE docs'[q[2]] = docs[q[2]]
    <3>1. q[2] \in Tx /\ q[1] \in Nat /\ q[1] <= h /\ docs[q[2]].height = q[1]
      BY <1>4 DEF UpTo, Right, Present
    <3>2. ~ (docs[q[2]].height > h)
      BY <1>2, <3>1
    <3> QED
      BY <1>1, <3>1, <3>2
  <2> QED
    BY <1>5, <2>1, <2>2, RightSame
<1>8. ASSUME NEW t \in Tx, docs'[t] # None
      PROVE  <<docs'[t].height, t>> \in Places'
  <2>1. docs'[t] = docs[t] /\ ~ (docs[t].height > h)
    BY <1>1, <1>8
  <2>2. docs[t].height <= h
    BY <1>2, <1>6, <1>8, <2>1
  <2>3. <<docs[t].height, t>> \in Places
    BY <1>8, <2>1, <2>2
  <2> QED
    BY <1>3, <2>1, <2>2, <2>3 DEF UpTo
<1>9. CheckInv'
  BY <1>3, <1>7, <1>8, PrimeFact DEF CheckInv
<1>10. EmptyInv'
  <2>1. chain' = <<>> => h = 0
    <3>1. Len(<<>>) = 0
      OBVIOUS
    <3> QED
      BY <1>2, <3>1
  <2>2. h = 0 /\ lag' => \A t \in Tx : seen'[t] # None => Final(seen[t].height, t)'
    BY <1>1 DEF Final, MayBeAt
  <2> QED
    BY <2>1, <2>2 DEF EmptyInv
<1>11. ChainInv'
  BY <1>3, <1>5, PrimeFact DEF ChainInv
<1>12. UpdateInv'
  BY <1>1, NoRequestsFact DEF UpdateInv, Requested, NoRequestsOK
<1> QED
  BY <1>1, <1>9, <1>10, <1>11, <1>12 DEF DataInv, IndexInv, DownInv

LEMMA EmptyPlaces ==
    ASSUME pc # "build", chain = <<>>
    PROVE  Places = {} /\ Len(chain) = 0
BY PlacesIdle DEF Placed

LEMMA StartStep == SafeSetting /\ Inv /\ Start => DataInv' /\ UpdateInv'
<1> SUFFICES ASSUME SafeSetting, Inv, Start PROVE DataInv' /\ UpdateInv'
  OBVIOUS
<1>1. pc = "down" /\ UNCHANGED <<target, lag, kills>>
  BY DEF Start, config
<1>2. \A t \in Tx : docs[t] # None =>
              /\ docs[t].height <= TargetHeight => <<docs[t].height, t>> \in Places
              /\ docs[t].height <= Len(chain) + BatchSize
              /\ MayBeAt(docs[t].height, t) /\ docs[t].height \in Nat \ {0}
  BY <1>1, InvFact, ConstantFact DEF DownInv, MayBeAt
<1>3. CASE chain = <<>>
  <2>1. /\ StartIndex(chain) /\ UNCHANGED <<chain, top, docs, seen, requests, block, at>>
    BY <1>3 DEF Start, index
  <2>2. Places = {} /\ Len(chain) = 0
    BY <1>1, <1>3, EmptyPlaces
  <2>3. phase' = "batch" /\ pc' = "index"
    <3>1. 0 < target
      BY InvFact, TypeFact, ConstantFact
    <3> QED
      BY <2>1, <2>2, <3>1 DEF StartIndex, LeftToSingle
  <2>4. ~ Settled'
    <3>1. top = 0
      BY <2>2, InvFact, TypeFact
    <3> QED
      BY <2>1, <3>1 DEF Settled
  <2>5. \A t \in Tx : docs[t] # None => IsLeftOver(docs[t].height, t, chain)
    BY <1>2, <2>2, ConstantFact DEF IsLeftOver, Final
  <2>6. Right(Places, docs)
    BY <2>2 DEF Right, Present, Marked
  <2>7. lag => \A t \in Tx : seen[t] # None => Final(seen[t].height, t)
    BY <1>1, <1>3, InvFact DEF EmptyInv
  <2> QED
    BY <1>1, <2>1, <2>3, <2>4, <2>5, <2>6, <2>7, StartIndexFact
<1>4. CASE chain # <<>>
  <2>1. Rewind(TargetHeight)
    BY <1>4 DEF Start
  <2>2. Right(UpTo(Places, TargetHeight), docs)
    BY <1>1, InvFact DEF DownInv
  <2>3. TargetHeight = 0 /\ lag => \A t \in Tx : docs[t] # None => Final(docs[t].height, t)
    <3> SUFFICES ASSUME TargetHeight = 0, lag, NEW t \in Tx, docs[t] # None
                 PROVE  Final(docs[t].height, t)
      OBVIOUS
    <3>1. ReindexSize + BatchSize <= FinalHeight
      BY InvFact DEF SafeSetting, TypeInv, TypeOK
    <3>2. Len(chain) <= ReindexSize /\ Len(chain) \in Nat
      BY InvFact, TargetFact, TypeFact, ConstantFact
    <3>3. docs[t].height <= FinalHeight
      <4>1. docs[t].height \in Nat /\ docs[t].height <= Len(chain) + BatchSize
        BY <1>2
      <4>2. BatchSize \in Nat /\ ReindexSize \in Nat /\ FinalHeight \in Nat
        BY ConstantFact
      <4> QED
        BY <3>1, <3>2, <4>1, <4>2
    <3> QED
      BY <1>2, <3>3 DEF Final
  <2> QED
    BY <1>1, <1>2, <2>1, <2>2, <2>3, InvFact, TargetFact, RewindStep
<1> QED
  BY <1>3, <1>4

LEMMA RewindOrphanStep == Inv /\ RewindOrphan => DataInv' /\ UpdateInv'
<1> SUFFICES ASSUME Inv, RewindOrphan PROVE DataInv' /\ UpdateInv'
  OBVIOUS
<1> DEFINE h == Len(chain) - ReindexSize
<1>1. /\ pc = "index" /\ phase = "single" /\ top = Len(chain) /\ Rewind(h)
      /\ h \in 1 .. Len(chain) /\ UNCHANGED <<target, lag, kills>>
  BY InvFact, OrphanFact
<1>2. Len(chain) \in Nat
  BY InvFact, TypeFact
<1> HIDE DEF h
<1>3. Right(UpTo(Places, h), docs)
  <2>1. UpTo(Places, h) \subseteq UpTo(Places, top)
    <3>1. \A q \in Places : q[1] \in Nat
      BY InvFact, PlacesType, ConstantFact
    <3>2. \A q \in Places : q[1] <= h => q[1] <= top
      BY <1>1, <1>2, <3>1
    <3> QED
      BY <3>2 DEF UpTo
  <2> QED
    BY <1>1, <2>1, InvFact, IndexInvFact, RightFewer
<1>4. \A t \in Tx : docs[t] # None => <<docs[t].height, t>> \in Places
  BY <1>1, InvFact, IndexInvFact
<1>5. h # 0 /\ h \in 0 .. Len(chain)
  BY <1>1, <1>2
<1> QED
  BY <1>1, <1>3, <1>4, <1>5, RewindStep

LEMMA CheckBlockStep == Inv /\ CheckBlock => DataInv' /\ UpdateInv'
<1> SUFFICES ASSUME Inv, CheckBlock PROVE DataInv' /\ UpdateInv'
  OBVIOUS
<1>1. /\ pc = "check" /\ seen = docs /\ UNCHANGED <<target, lag, chain, top, docs, seen, kills>>
  BY DEF CheckBlock, config, index
<1>2. Right(Places, docs) /\ \A t \in Tx : docs[t] # None => <<docs[t].height, t>> \in Places
  BY <1>1, InvFact DEF CheckInv
<1>3. CASE chain = <<>>
  <2>1. pc' = "down" /\ requests' = NoRequests
    BY <1>3 DEF CheckBlock, Die
  <2>2. Places = {} /\ Places' = Places
    BY <1>1, <1>3, <2>1, EmptyPlaces, SamePlaces
  <2>3. \A t \in Tx : docs'[t] = None
    BY <1>1, <1>2, <2>2
  <2>4. Right(UpTo(Places', TargetHeight'), docs')
    BY <2>2 DEF UpTo, Right, Present, Marked
  <2>5. DownInv'
    BY <1>1, <2>1, <2>3, <2>4, PrimeFact DEF DownInv
  <2>6. EmptyInv'
    BY <1>1, <2>3 DEF EmptyInv
  <2>7. ChainInv'
    BY <1>1, <2>2, InvFact, PrimeFact DEF ChainInv
  <2>8. UpdateInv'
    BY <2>1, NoRequestsFact DEF UpdateInv, Requested, NoRequestsOK
  <2> QED
    BY <2>1, <2>5, <2>6, <2>7, <2>8 DEF DataInv, IndexInv, CheckInv
<1>4. CASE chain # <<>>
  <2>1. pc' = "index" /\ UNCHANGED <<requests, block, at>>
    BY <1>1, <1>4 DEF CheckBlock, StartIndex
  <2> QED
    BY <1>1, <1>2, <2>1, StartIndexFact
<1> QED
  BY <1>3, <1>4

\* A kill may leave a part of what was requested; only documents above the height
\* of the next rewind are concerned.
LEMMA KillStep == Inv /\ Kill => DataInv' /\ UpdateInv'
<1> SUFFICES ASSUME Inv, Kill PROVE DataInv' /\ UpdateInv'
  OBVIOUS
<1>1. PICK n \in 0 .. Len(chain) :
         /\ n >= top
         /\ chain' = SubSeq(chain, 1, n) /\ top' = n
         /\ pc # "down" /\ pc' = "down" /\ phase' = "boot"
         /\ requests' = NoRequests /\ block' = NoBlock
         /\ UNCHANGED <<target, lag, seen>>
         /\ \A t \in Tx : docs'[t] = docs[t] \/ (t \in Requested /\ docs'[t] = Now[t])
  BY InvFact, KillFact
<1>2. Len(chain') = n /\ Placed(chain)' = UpTo(Placed(chain), n) /\ n \in Nat
  BY <1>1, InvFact, CutType
<1>3. Places' = UpTo(Placed(chain), n)
  BY <1>1, <1>2 DEF Places, Done
<1>4. /\ \A q \in Places : q = <<q[1], q[2]>> /\ q[2] \in Tx /\ q[1] \in Nat
      /\ Len(chain) \in Nat /\ top \in Nat /\ n <= Len(chain)
      /\ BatchSize \in Nat /\ BatchSize >= 1 /\ ReindexSize \in Nat /\ BatchSize <= ReindexSize
  BY InvFact, TypeFact, PlacesType, ConstantFact
<1>5. /\ Len(chain) <= top + BatchSize
      /\ \A q \in Places : q[1] <= top + BatchSize
  <2>1. /\ Len(chain) <= top + BatchSize
        /\ pc = "build" => Len(chain) + 1 <= top + BatchSize
    BY InvFact, ReachFact
  <2>2. \A q \in Places : q[1] <= Len(chain) + 1 /\ (pc # "build" => q[1] <= Len(chain))
    BY InvFact, PlacesType
  <2>3. ASSUME NEW q \in Places PROVE q[1] <= top + BatchSize
    <3>1. CASE pc = "build"
      BY <1>4, <2>1, <2>2, <3>1
    <3>2. CASE pc # "build"
      BY <1>4, <2>1, <2>2, <3>2
    <3> QED
      BY <3>1, <3>2
  <2> QED
    BY <2>1, <2>3
\* A place up to the height that stays is a place of the chain.
<1>6. \A q \in Places : q[1] <= n => q \in Places'
  <2> SUFFICES ASSUME NEW q \in Places, q[1] <= n PROVE q \in UpTo(Placed(chain), n)
    BY <1>3
  <2>1. q[1] # Len(chain) + 1
    BY <1>4
  <2>2. q \in Placed(chain)
    BY <2>1 DEF Places
  <2> QED
    BY <2>2 DEF UpTo
<1>7. Places' \subseteq UpTo(Places, n)
  BY <1>3 DEF Places, UpTo
<1>8. /\ TargetHeight' \in Nat /\ TargetHeight' <= n /\ TargetHeight' <= top
  <2>1. TargetHeight' = (IF n >= ReindexSize THEN n - ReindexSize ELSE 0)
    BY <1>2 DEF TargetHeight
  <2> QED
    BY <1>2, <1>4, <1>5, <2>1
<1>9. /\ Right(UpTo(Places, top), docs)
      /\ Right(UpTo(Places, top), Now)
      /\ \A t \in Requested : <<requests[t].doc.height, t>> \in Places
      /\ \A t \in Tx : docs[t] # None =>
            \/ <<docs[t].height, t>> \in Places
            \/ IsLeftOver(docs[t].height, t, chain)
  <2>1. CASE pc \in {"index", "build"}
    <3>1. UpTo(Places, top) \subseteq Places
      BY DEF UpTo
    <3> QED
      BY <2>1, <3>1, InvFact, IndexInvFact, RightFewer
  <2>2. CASE pc = "check"
    <3>1. requests = NoRequests /\ Right(Places, docs)
          /\ \A t \in Tx : docs[t] # None => <<docs[t].height, t>> \in Places
      BY <2>2, InvFact DEF TypeInv, ShapeInv, CheckInv
    <3>2. Requested = {} /\ \A t \in Tx : Now[t] = docs[t]
      BY <3>1, NoRequestsNone
    <3>3. Right(Places, Now)
      <4>1. Places \subseteq Nat \X Tx /\ \A q \in Places : Now[q[2]] = docs[q[2]]
        BY <1>4, <3>2
      <4> QED
        BY <3>1, <4>1, InvFact, RightSame DEF ChainInv
    <3>4. UpTo(Places, top) \subseteq Places
      BY DEF UpTo
    <3> QED
      BY <3>1, <3>2, <3>3, <3>4, RightFewer
  <2> QED
    BY <1>1, <2>1, <2>2, InvFact DEF TypeInv, TypeOK
<1>10. Legal(UpTo(Places, top)) /\ UpTo(Places, top) \subseteq Nat \X Tx
  <2>1. UpTo(Places, top) \subseteq Nat \X Tx
    BY <1>4 DEF UpTo
  <2> QED
    BY <1>4, <2>1, InvFact, LegalUpTo DEF ChainInv
<1>11. Right(UpTo(Places', TargetHeight'), docs')
  <2>1. UpTo(Places', TargetHeight') \subseteq UpTo(Places, top)
    <3> SUFFICES ASSUME NEW q \in Places', q[1] <= TargetHeight'
                 PROVE  q \in UpTo(Places, top)
      BY DEF UpTo
    <3>1. q \in Places
      BY <1>7 DEF UpTo
    <3>2. q[1] <= top
      BY <1>4, <1>8, <3>1
    <3> QED
      BY <3>1, <3>2 DEF UpTo
  <2>2. \A t \in Tx : docs'[t] = docs[t] \/ docs'[t] = Now[t]
    BY <1>1
  <2>3. Right(UpTo(Places, top), docs')
    BY <1>9, <1>10, <2>2, RightMixed
  <2> QED
    BY <2>1, <2>3, RightFewer
<1>12. ASSUME NEW t \in Tx, docs'[t] # None
       PROVE  <<docs'[t].height, t>> \in Places \/ IsLeftOver(docs'[t].height, t, chain)
  <2>1. CASE docs'[t] = docs[t]
    BY <1>9, <1>12, <2>1
  <2>2. CASE t \in Requested /\ docs'[t] = Now[t]
    <3>1. docs'[t] = requests[t].doc
      BY <2>2, InvFact, WrittenFact
    <3> QED
      BY <1>9, <2>2, <3>1
  <2> QED
    BY <1>1, <2>1, <2>2
<1>13. ASSUME NEW t \in Tx, docs'[t] # None
       PROVE  /\ docs'[t].height <= TargetHeight' => <<docs'[t].height, t>> \in Places'
              /\ docs'[t].height <= Len(chain') + BatchSize
              /\ MayBeAt(docs'[t].height, t)
  <2>1. CASE <<docs'[t].height, t>> \in Places
    <3>1. docs'[t].height <= top + BatchSize /\ docs'[t].height \in Nat
      BY <1>4, <1>5, <2>1
    <3>2. docs'[t].height <= Len(chain') + BatchSize
      BY <1>1, <1>2, <1>4, <3>1
    <3>3. MayBeAt(docs'[t].height, t)
      BY <2>1, InvFact, PlacesType
    <3>4. docs'[t].height <= TargetHeight' => docs'[t].height <= n
      BY <1>2, <1>8, <3>1
    <3> QED
      BY <1>6, <2>1, <3>2, <3>3, <3>4
  <2>2. CASE IsLeftOver(docs'[t].height, t, chain)
    <3>1. /\ docs'[t].height <= BatchSize /\ docs'[t].height > Len(chain)
          /\ MayBeAt(docs'[t].height, t)
      BY <2>2 DEF IsLeftOver, Final
    <3>2. docs'[t].height \in Nat
      BY <3>1, ConstantFact DEF MayBeAt
    <3> QED
      BY <1>2, <1>4, <1>8, <3>1, <3>2
  <2> QED
    BY <1>12, <1>13, <2>1, <2>2
<1>14. DownInv'
  <2>1. \A t \in Tx : MayBeAt(docs'[t].height, t) => MayBeAt(docs[t].height, t)'
    BY DEF MayBeAt
  <2> QED
    BY <1>1, <1>11, <1>13, <2>1, PrimeFact DEF DownInv
<1>15. EmptyInv'
  <2> SUFFICES ASSUME chain' = <<>>, lag, NEW t \in Tx, seen[t] # None
               PROVE  Final(seen[t].height, t)
    BY <1>1 DEF EmptyInv, Final, MayBeAt
  <2>1. n = 0
    <3>1. Len(<<>>) = 0
      OBVIOUS
    <3> QED
      BY <1>2, <3>1
  <2>2. top = 0
    BY <1>1, <1>4, <2>1
  <2>3. CASE pc \in {"index", "build"}
    <3>1. <<seen[t].height, t>> \in Places \/ Final(seen[t].height, t)
      BY <2>3, InvFact, IndexInvFact
    <3>2. CASE <<seen[t].height, t>> \in Places
      <4>1. seen[t].height <= BatchSize /\ seen[t].height \in Nat
        BY <1>4, <1>5, <2>2, <3>2
      <4>2. MayBeAt(seen[t].height, t)
        BY <3>2, InvFact, PlacesType
      <4> QED
        BY <4>1, <4>2, ConstantFact DEF Final
    <3> QED
      BY <3>1, <3>2
  <2>4. CASE pc = "check"
    <3>1. top = Len(chain)
      BY <2>4, InvFact DEF TypeInv, ShapeInv
    <3>2. chain = <<>>
      BY <2>2, <3>1, InvFact, TypeFact
    <3> QED
      BY <2>4, <3>2, InvFact DEF EmptyInv
  <2> QED
    BY <1>1, <2>3, <2>4, InvFact DEF TypeInv, TypeOK
<1>16. ChainInv'
  <2>1. Places' = UpTo(Places, n)
    <3>1. UpTo(Places, n) \subseteq Places'
      BY <1>6 DEF UpTo
    <3> QED
      BY <1>7, <3>1
  <2>2. Legal(UpTo(Places, n))
    BY <1>2, <1>4, InvFact, LegalUpTo DEF ChainInv
  <2> QED
    BY <1>1, <2>1, <2>2, PrimeFact DEF ChainInv
<1>17. UpdateInv'
  BY <1>1, NoRequestsFact DEF UpdateInv, Requested, NoRequestsOK
<1> QED
  BY <1>1, <1>14, <1>15, <1>16, <1>17 DEF DataInv, IndexInv, CheckInv

LEMMA StutterStep == Inv /\ UNCHANGED vars => DataInv' /\ UpdateInv'
<1> SUFFICES ASSUME Inv, UNCHANGED vars PROVE DataInv' /\ UpdateInv'
  OBVIOUS
<1>1. UNCHANGED <<target, lag, chain, top, docs, seen, requests, block, at, pc, phase, kills>>
  BY DEF vars, config, index, process
<1>2. Places' = Places /\ Now' = Now /\ Requested' = Requested /\ TargetHeight' = TargetHeight
  <2>1. Places' = Places
    BY <1>1, SamePlacesBuild
  <2> QED
    BY <1>1, <2>1 DEF Now, Requested, TargetHeight
<1>3. ChainInv'
  BY <1>1, <1>2, InvFact, PrimeFact DEF ChainInv
<1>4. UpdateInv'
  BY <1>1, <1>2, InvFact DEF UpdateInv
<1>5. IndexInv'
  <2>1. CASE pc \in {"index", "build"}
    <3>1. /\ Settled' = Settled /\ Building' = Building /\ CurrentMarked' = CurrentMarked
      BY <1>1, <1>2 DEF Settled, Building, CurrentMarked, Current, IsMarked, Spent
    <3> QED
      BY <1>1, <1>2, <2>1, <3>1, InvFact, IndexInvFact, IndexInvNext
  <2>2. CASE pc \notin {"index", "build"}
    BY <1>1, <2>2 DEF IndexInv
  <2> QED
    BY <2>1, <2>2
<1>6. CheckInv'
  BY <1>1, <1>2, InvFact, PrimeFact DEF CheckInv
<1>7. DownInv'
  <2>1. \A t \in Tx : MayBeAt(docs[t].height, t) => MayBeAt(docs[t].height, t)'
    BY <1>1 DEF MayBeAt
  <2> QED
    BY <1>1, <1>2, <2>1, InvFact, PrimeFact DEF DownInv
<1>8. EmptyInv'
  BY <1>1, InvFact DEF EmptyInv, Final, MayBeAt
<1> QED
  BY <1>3, <1>4, <1>5, <1>6, <1>7, <1>8 DEF DataInv

LEMMA InvStep == SafeSetting /\ Inv /\ [Next]_vars => Inv'
<1> SUFFICES ASSUME SafeSetting, Inv, [Next]_vars PROVE DataInv' /\ UpdateInv'
  BY InvFact, TypeStep DEF Inv
<1> QED
  BY RefreshStep, FetchBlockStep, IndexPreviousTxStep, PersistForPreviousTxStep,
     IndexTransactionStep, FinishBlockStep, PersistStep, FinishBulkStep, StartStep,
     RewindOrphanStep, CheckBlockStep, KillStep, StutterStep DEF Next

-----------------------------------------------------------------------------
(* The documents follow the chain *)

\* Whatever a kill, a rewind or a late search leaves behind, each document is the
\* one of an indexed transaction, or is deleted or written over in time.
THEOREM Invariant == SafeSetting => (Spec => []Inv)
<1> SUFFICES ASSUME SafeSetting PROVE Spec => []Inv
  OBVIOUS
<1>1. Init => Inv
  BY TypeInit DEF Inv
<1>2. Inv /\ [Next]_vars => Inv'
  BY InvStep
<1> QED
  BY <1>1, <1>2, PTL DEF Spec

\* The transaction index holds the transactions of the indexed blocks and no
\* other, for all blocks navcoind may have.
THEOREM TransactionsCorrect == SafeSetting => (Spec => []TransactionsMatchChain)
<1>1. Inv => TransactionsMatchChain
  <2> SUFFICES ASSUME Inv, Settled PROVE
        /\ \A t \in Tx : docs[t] # None <=> t \in ChainTxs(chain)
        /\ \A h \in DOMAIN chain : \A j \in DOMAIN chain[h].txs :
               docs[chain[h].txs[j]].height = h
    BY DEF TransactionsMatchChain
  <2>1. /\ pc = "index" /\ Right(Places, Now) /\ requests = NoRequests
        /\ \A t \in Tx : docs[t] # None => <<docs[t].height, t>> \in Places
    BY InvFact, IndexInvFact DEF Settled, TypeInv, ShapeInv
  <2>2. Places = Placed(chain) /\ \A t \in Tx : Now[t] = docs[t]
    BY <2>1, PlacesIdle, NoRequestsNone
  <2>3. ASSUME NEW h \in DOMAIN chain, NEW j \in DOMAIN chain[h].txs
        PROVE  /\ chain[h].txs[j] \in Tx /\ docs[chain[h].txs[j]] # None
               /\ docs[chain[h].txs[j]].height = h
    <3>1. chain[h].txs[j] \in Tx
      BY InvFact, TypeFact
    <3>2. <<h, chain[h].txs[j]>> \in Places
      BY <2>2, <3>1 DEF Placed
    <3> QED
      BY <2>1, <2>2, <3>1, <3>2 DEF Right, Present
  <2>4. ASSUME NEW t \in Tx, docs[t] # None PROVE t \in ChainTxs(chain)
    <3>1. <<docs[t].height, t>> \in Placed(chain)
      BY <2>1, <2>2, <2>4
    <3> QED
      BY <3>1 DEF Placed, ChainTxs
  <2>5. ASSUME NEW t \in Tx, t \in ChainTxs(chain) PROVE docs[t] # None
    <3>1. PICK h \in DOMAIN chain : \E j \in DOMAIN chain[h].txs : t = chain[h].txs[j]
      BY <2>5 DEF ChainTxs
    <3> QED
      BY <2>3, <3>1
  <2> QED
    BY <2>3, <2>4, <2>5
<1> QED
  BY <1>1, Invariant, PTL

\* Where every search meets a refreshed index, what an indexed transaction spends
\* is marked as redeemed by it.
THEOREM SpentCorrect == SafeSetting => (Spec => []SpentIsMarked)
<1>1. Inv => SpentIsMarked
  <2> SUFFICES ASSUME Inv, Settled, ~ lag, NEW t \in ChainTxs(chain), NEW i \in Inputs(t)
               PROVE  docs[Spent(t, i)[1]].vout[Spent(t, i)[2]] = [redeemed |-> TRUE, by |-> t]
    BY DEF SpentIsMarked
  <2>1. pc = "index" /\ Right(Places, Now) /\ requests = NoRequests
    BY InvFact, IndexInvFact DEF Settled, TypeInv, ShapeInv
  <2>2. Places = Placed(chain) /\ \A u \in Tx : Now[u] = docs[u]
    BY <2>1, PlacesIdle, NoRequestsNone
  <2>3. PICK h \in DOMAIN chain : \E j \in DOMAIN chain[h].txs : t = chain[h].txs[j]
    BY DEF ChainTxs
  <2>4. t \in Tx /\ <<h, t>> \in Places
    BY <2>2, <2>3, InvFact, TypeFact DEF Placed
  <2>5. Spent(t, i)[1] \in Tx
    BY <2>4, InputFact
  <2>6. IsMarked(Now[Spent(t, i)[1]], Spent(t, i)[2], t)
    BY <2>1, <2>4 DEF Right, Marked
  <2> QED
    BY <2>2, <2>5, <2>6 DEF IsMarked
<1> QED
  BY <1>1, Invariant, PTL

\* An update request never meets a document that is not there.
THEOREM UpdatesFind == SafeSetting => (Spec => []UpdatesFindTheirDocument)
<1>1. Inv => UpdatesFindTheirDocument
  BY InvFact DEF UpdateInv, UpdatesFindTheirDocument, PersistFails
<1> QED
  BY <1>1, Invariant, PTL

-----------------------------------------------------------------------------
(* The cycle a block is in *)

\* Multiples of the cycle size are a cycle apart.
LEMMA MultipleFact ==
    ASSUME NEW j \in Int, NEW k \in Int, j < k
    PROVE  /\ CycleSize * j \in Int /\ CycleSize * k \in Int
           /\ CycleSize * j + CycleSize <= CycleSize * k
<1> DEFINE d == k - j - 1
<1>1. d \in Nat /\ k = j + 1 + d
  OBVIOUS
<1>2. CycleSize \in Nat
  BY RawAssumption
<1> HIDE DEF d
<1>3. CycleSize * d \in Nat
  BY <1>1, <1>2
<1>4. CycleSize * (j + 1 + d) = CycleSize * j + CycleSize + CycleSize * d
  BY <1>1, <1>2
<1> QED
  BY <1>1, <1>2, <1>3, <1>4

\* The next height is one further in the same cycle, or begins the next cycle.
LEMMA NextCycle ==
    ASSUME NEW h \in Nat
    PROVE  /\ h % CycleSize # CycleSize - 1 =>
                (h + 1) \div CycleSize = h \div CycleSize /\ (h + 1) % CycleSize = (h % CycleSize) + 1
           /\ h % CycleSize = CycleSize - 1 => (h + 1) \div CycleSize = h \div CycleSize + 1
<1> DEFINE q == h \div CycleSize
           r == h % CycleSize
           p == (h + 1) \div CycleSize
           s == (h + 1) % CycleSize
<1>1. CycleSize \in Nat /\ CycleSize >= 2
  BY RawAssumption
<1>2. q \in Nat /\ r \in Nat /\ r < CycleSize /\ h = CycleSize * q + r
  BY <1>1
<1>3. p \in Nat /\ s \in Nat /\ s < CycleSize /\ h + 1 = CycleSize * p + s
  BY <1>1
<1> HIDE DEF q, r, p, s
<1>4. CycleSize * (q + 1) = CycleSize * q + CycleSize
  BY <1>1, <1>2
<1>5. CycleSize * q \in Nat /\ CycleSize * p \in Nat
  BY <1>1, <1>2, <1>3
<1>6. p = q \/ p = q + 1
  <2>1. ~ (p < q)
    BY <1>1, <1>2, <1>3, <1>5, MultipleFact
  <2>2. ~ (q + 1 < p)
    BY <1>1, <1>2, <1>3, <1>4, <1>5, MultipleFact
  <2> QED
    BY <1>2, <1>3, <2>1, <2>2
<1>7. r # CycleSize - 1 => p = q
  <2>1. CASE p = q + 1
    BY <1>1, <1>2, <1>3, <1>4, <1>5, <2>1
  <2> QED
    BY <1>6, <2>1
<1>8. r = CycleSize - 1 => p = q + 1
  <2>1. CASE p = q
    BY <1>1, <1>2, <1>3, <1>5, <2>1
  <2> QED
    BY <1>6, <2>1
<1>9. p = q => s = r + 1
  BY <1>1, <1>2, <1>3, <1>5
<1> QED
  BY <1>7, <1>8, <1>9 DEF p, q, r, s

LEMMA NewCycle ==
    ASSUME NEW previous, previous.height \in Nat,
           previous.height # 0 => previous.cycle = CycleOf(previous.height)
    PROVE  CreateBlockCycle(CycleSize, previous) = CycleOf(previous.height + 1)
<1>1. CycleSize \in Nat /\ CycleSize >= 2
  BY RawAssumption
<1>2. CASE previous.height = 0
  <2>1. 1 \div CycleSize = 0 /\ 1 % CycleSize = 1
    BY <1>1
  <2> QED
    BY <1>2, <2>1 DEF CreateBlockCycle, CycleOf
<1>3. CASE previous.height # 0
  <2> DEFINE h == previous.height
  <2>1. /\ previous.cycle.size = CycleSize /\ previous.cycle.cycle = (h \div CycleSize) + 1
        /\ previous.cycle.index = h % CycleSize
    BY <1>3 DEF CycleOf
  <2>2. CASE h % CycleSize # CycleSize - 1
    BY <1>3, <2>1, <2>2, NextCycle DEF CreateBlockCycle, CycleOf
  <2>3. CASE h % CycleSize = CycleSize - 1
    BY <1>3, <2>1, <2>3, NextCycle DEF CreateBlockCycle, CycleOf
  <2> QED
    BY <2>2, <2>3
<1> QED
  BY <1>2, <1>3

\* What a step does to the blocks: nothing, a new one, one more transaction, the
\* end of the block, or a cut.
LEMMA BlockStep ==
    ASSUME TypeInv, [Next]_vars
    PROVE  \/ UNCHANGED <<chain, block, at, pc>>
           \/ UNCHANGED <<chain, block>> /\ pc \notin {"build"} /\ pc' \notin {"build"}
           \/ FetchBlock \/ IndexPreviousTx \/ IndexTransaction \/ FinishBlock
           \/ pc' # "build" /\ \E n \in 0 .. Len(chain) : chain' = SubSeq(chain, 1, n)
<1>1. CASE UNCHANGED vars
  BY <1>1 DEF vars, index, process
<1>2. CASE Refresh \/ PersistForPreviousTx \/ FinishBulk
  BY <1>2 DEF Refresh, PersistForPreviousTx, FinishBulk, index, process
<1>3. CASE Persist
  <2>1. CASE PersistFails
    <3>1. chain' = SubSeq(chain, 1, top) /\ pc' = "down" /\ top \in 0 .. Len(chain)
      BY <1>3, <2>1, TypeFact DEF Persist, Die, Cut
    <3> QED
      BY <3>1
  <2>2. CASE ~ PersistFails
    BY <1>3, <2>2 DEF Persist
  <2> QED
    BY <2>1, <2>2
<1>4. CASE Start
  <2>1. pc = "down"
    BY <1>4 DEF Start
  <2>2. CASE chain = <<>>
    BY <1>4, <2>1, <2>2 DEF Start, StartIndex, index
  <2>3. CASE chain # <<>>
    <3>1. Rewind(TargetHeight)
      BY <1>4, <2>3 DEF Start
    <3> QED
      BY <3>1, TargetFact DEF Rewind, Cut
  <2> QED
    BY <2>2, <2>3
<1>5. CASE RewindOrphan
  <2>1. Rewind(Len(chain) - ReindexSize) /\ Len(chain) - ReindexSize \in 0 .. Len(chain)
    BY <1>5, OrphanFact
  <2> QED
    BY <2>1 DEF Rewind, Cut
<1>6. CASE CheckBlock
  <2>1. /\ chain' = chain /\ pc = "check" /\ block = NoBlock
        /\ pc' # "build" /\ block' = NoBlock
    BY <1>6 DEF CheckBlock, Die, StartIndex, index, TypeInv, TypeOK
  <2> QED
    BY <2>1
<1>7. CASE Kill
  <2>1. PICK n \in 0 .. Len(chain) : chain' = SubSeq(chain, 1, n) /\ pc' = "down"
    BY <1>7, KillFact
  <2> QED
    BY <2>1
<1> QED
  BY <1>1, <1>2, <1>3, <1>4, <1>5, <1>6, <1>7 DEF Next

LEMMA CycleStep == TypeInv /\ CycleInv /\ [Next]_vars => CycleInv'
<1> SUFFICES ASSUME TypeInv, CycleInv, [Next]_vars PROVE CycleInv'
  OBVIOUS
<1>1. CASE UNCHANGED <<chain, block, at, pc>>
  BY <1>1 DEF CycleInv, CycleOf
<1>2. CASE UNCHANGED <<chain, block>> /\ pc # "build" /\ pc' # "build"
  BY <1>2 DEF CycleInv, CycleOf
<1>3. CASE FetchBlock
  <2>1. PICK txs \in Blocks[Len(chain) + 1] : block' = CreateBlock(txs, Last)
    BY <1>3 DEF FetchBlock
  <2>2. chain' = chain /\ Last.height = Len(chain) /\ Len(chain) \in Nat
    BY <1>3, LastFact, TypeFact DEF FetchBlock, index
  <2>3. Last.height # 0 => Last.cycle = CycleOf(Last.height)
    <3> SUFFICES ASSUME Len(chain) # 0 PROVE Last.cycle = CycleOf(Last.height)
      BY <2>2
    <3>1. chain # <<>> /\ Len(chain) \in DOMAIN chain
      BY TypeFact
    <3> QED
      BY <2>2, <3>1 DEF CycleInv, Last
  <2>4. block'.cycle = CycleOf(Len(chain) + 1)
    <3>1. block'.cycle = CreateBlockCycle(CycleSize, Last)
      BY <2>1, CreatedBlockFact
    <3>2. CreateBlockCycle(CycleSize, Last) = CycleOf(Last.height + 1)
      BY <2>2, <2>3, NewCycle
    <3> QED
      BY <2>2, <3>1, <3>2
  <2> QED
    BY <2>2, <2>4 DEF CycleInv, CycleOf
<1>4. CASE IndexPreviousTx
  BY <1>4 DEF IndexPreviousTx, index, CycleInv, CycleOf
<1>5. CASE IndexTransaction
  <2>1. /\ Building /\ UNCHANGED <<chain, pc>> /\ pc = "build"
        /\ block' = CreateBlockTransaction(Current, block)
    BY <1>5 DEF IndexTransaction, index, Building
  <2>2. block'.cycle = block.cycle
    BY <2>1, BuildFact, AddedTransactionFact DEF SameBlock
  <2> QED
    BY <2>1, <2>2 DEF CycleInv, CycleOf
<1>6. CASE FinishBlock
  <2>1. /\ pc = "build" /\ pc' = "index" /\ UpdateSupply(block).cycle = block.cycle
        /\ DOMAIN chain' = 1 .. Len(chain) + 1
        /\ \A h \in 1 .. Len(chain) : chain'[h] = chain[h]
        /\ chain'[Len(chain) + 1] = UpdateSupply(block)
        /\ DOMAIN chain = 1 .. Len(chain) /\ Len(chain) \in Nat
    BY <1>6, FinishedFact, TypeFact DEF FinishBlock, SameBlock
  <2>2. ASSUME NEW h \in DOMAIN chain' PROVE chain'[h].cycle = CycleOf(h)
    <3>1. CASE h \in 1 .. Len(chain)
      BY <2>1, <3>1 DEF CycleInv
    <3>2. CASE h = Len(chain) + 1
      BY <2>1, <3>2 DEF CycleInv
    <3> QED
      BY <2>1, <3>1, <3>2
  <2> QED
    BY <2>1, <2>2 DEF CycleInv, CycleOf
<1>7. CASE pc' # "build" /\ \E n \in 0 .. Len(chain) : chain' = SubSeq(chain, 1, n)
  <2>1. PICK n \in 0 .. Len(chain) : chain' = SubSeq(chain, 1, n)
    BY <1>7
  <2>2. DOMAIN chain' = 1 .. n /\ \A h \in 1 .. n : h \in DOMAIN chain /\ chain'[h] = chain[h]
    BY <2>1, TypeFact, PlacedCut
  <2> QED
    BY <1>7, <2>2 DEF CycleInv, CycleOf
<1> QED
  BY <1>1, <1>2, <1>3, <1>4, <1>5, <1>6, <1>7, BlockStep

\* The cycle a block is in follows from its height, although it is counted from
\* the block before, for every number of rewinds in between.
THEOREM CycleCorrect == Spec => []BlockCycleFollowsHeight
<1>1. Init => CycleInv
  BY DEF Init, CycleInv
<1>2. TypeInv /\ CycleInv => BlockCycleFollowsHeight
  <2> SUFFICES ASSUME TypeInv, CycleInv, top < Len(chain)
               PROVE  Last.cycle = CycleOf(Last.height)
    BY DEF BlockCycleFollowsHeight, Indexed, CycleOf
  <2>1. chain # <<>> /\ Len(chain) \in DOMAIN chain /\ Last.height = Len(chain)
    BY TypeFact, LastFact
  <2> QED
    BY <2>1 DEF CycleInv, Last
<1> QED
  BY <1>1, <1>2, TypeAlways, CycleStep, PTL DEF Spec

-----------------------------------------------------------------------------
(* The fee of a private transaction *)

\* The staker of the block before is all that counts.
LEMMA StakedByFact ==
    ASSUME NEW t, NEW b, NEW c, b.stakedBy = c.stakedBy
    PROVE  StakedBy(t, b) = StakedBy(t, c)
BY DEF StakedBy

LEMMA StakedSoFarFact == \A by : StakedSoFar(by).stakedBy = by
BY DEF StakedSoFar, NoBlock

LEMMA StakerAfterFact ==
    ASSUME NEW txs
    PROVE  /\ StakerAfter(txs, 0) = ""
           /\ StakerAfter(txs, 1) = FirstStaker(txs)
           /\ StakerAfter(txs, 2) = IF Type(txs[2]) = "spend" THEN FirstStaker(txs)
                                    ELSE StakedBy(txs[2], StakedSoFar(FirstStaker(txs)))
           /\ \A j, k : j # 0 /\ j # 1 /\ k # 0 /\ k # 1
                 => StakerAfter(txs, j) = StakerAfter(txs, k)
BY DEF StakerAfter

\* The block's staker after one more of its transactions.
LEMMA StakerNext ==
    ASSUME TypeInv, Building, block.stakedBy = StakerAfter(block.txs, at[1] - 1)
    PROVE  CreateBlockTransaction(Current, block).stakedBy = StakerAfter(block.txs, at[1])
<1>1. /\ pc = "build" /\ Current \in Tx /\ Current = block.txs[at[1]]
      /\ block.txs \in Blocks[Len(chain) + 1] /\ Len(chain) + 1 \in 1 .. MaxHeight
      /\ at[1] \in DOMAIN block.txs /\ at[1] \in Nat /\ at[1] >= 1
      /\ IsBlock(block) /\ block.stakedBy \in AnyAddress
  BY BuildFact DEF Building, Current
<1>2. CreateBlockTransaction(Current, block).stakedBy
         = IF Type(Current) = "spend" THEN block.stakedBy ELSE StakedBy(Current, block)
  BY <1>1, AddedTransactionFact
<1>3. /\ at[1] > 2 => Type(Current) = "spend"
      /\ IsCoinbase(Current) <=> at[1] = 1
  BY <1>1, FeeAssumption, TransactionsAssumption
<1>4. CASE at[1] = 1
  <2>1. Type(Current) # "spend"
    BY <1>3, <1>4 DEF Type
  <2>2. block.stakedBy = ""
    <3>1. at[1] - 1 = 0
      BY <1>4
    <3> QED
      BY <3>1, StakerAfterFact
  <2>3. StakedBy(Current, block) = FirstStaker(block.txs)
    <3>1. StakedSoFar("").stakedBy = block.stakedBy
      BY <2>2, StakedSoFarFact
    <3>2. StakedBy(Current, block) = StakedBy(Current, StakedSoFar(""))
      BY <3>1, StakedByFact
    <3>3. Current = block.txs[1]
      BY <1>1, <1>4
    <3> QED
      BY <3>2, <3>3 DEF FirstStaker
  <2>4. StakerAfter(block.txs, at[1]) = FirstStaker(block.txs)
    BY <1>4, StakerAfterFact
  <2> QED
    BY <1>2, <2>1, <2>3, <2>4
<1>5. CASE at[1] = 2
  <2>1. block.stakedBy = FirstStaker(block.txs)
    <3>1. at[1] - 1 = 1
      BY <1>5
    <3> QED
      BY <3>1, StakerAfterFact
  <2>2. StakerAfter(block.txs, at[1])
           = IF Type(Current) = "spend" THEN FirstStaker(block.txs) ELSE StakedBy(Current, StakedSoFar(FirstStaker(block.txs)))
    BY <1>1, <1>5, StakerAfterFact
  <2>3. StakedBy(Current, block) = StakedBy(Current, StakedSoFar(FirstStaker(block.txs)))
    <3>1. StakedSoFar(FirstStaker(block.txs)).stakedBy = block.stakedBy
      BY <2>1, StakedSoFarFact
    <3> QED
      BY <3>1, StakedByFact
  <2> QED
    BY <1>2, <2>1, <2>2, <2>3
<1>6. CASE at[1] > 2
  <2>1. at[1] - 1 # 0 /\ at[1] - 1 # 1 /\ at[1] # 0 /\ at[1] # 1
    BY <1>1, <1>6
  <2>2. StakerAfter(block.txs, at[1]) = StakerAfter(block.txs, at[1] - 1)
    BY <2>1, StakerAfterFact
  <2> QED
    BY <1>2, <1>3, <1>6, <2>2
<1> QED
  BY <1>1, <1>4, <1>5, <1>6

LEMMA StakerStep == TypeInv /\ StakerInv /\ [Next]_vars => StakerInv'
<1> SUFFICES ASSUME TypeInv, StakerInv, [Next]_vars PROVE StakerInv'
  OBVIOUS
<1>1. CASE UNCHANGED <<chain, block, at, pc>>
  BY <1>1 DEF StakerInv
<1>2. CASE UNCHANGED <<chain, block>> /\ pc # "build" /\ pc' # "build"
  BY <1>2 DEF StakerInv
<1>3. CASE FetchBlock
  <2>1. PICK txs \in Blocks[Len(chain) + 1] : block' = CreateBlock(txs, Last)
    BY <1>3 DEF FetchBlock
  <2>2. block'.stakedBy = ""
    BY <2>1, CreatedBlockFact
  <2>3. at'[1] - 1 = 0 /\ chain' = chain
    BY <1>3 DEF FetchBlock, index
  <2> QED
    BY <2>2, <2>3 DEF StakerInv, StakerAfter
<1>4. CASE IndexPreviousTx
  BY <1>4 DEF IndexPreviousTx, index, StakerInv
<1>5. CASE IndexTransaction
  <2>1. /\ Building /\ UNCHANGED <<chain, pc>> /\ pc = "build"
        /\ block' = CreateBlockTransaction(Current, block) /\ at'[1] = at[1] + 1
    BY <1>5 DEF IndexTransaction, index, Building
  <2>2. block'.txs = block.txs /\ at[1] \in Nat
    BY <2>1, BuildFact, AddedTransactionFact DEF SameBlock
  <2>3. block'.stakedBy = StakerAfter(block.txs, at[1])
    BY <2>1, StakerNext DEF StakerInv
  <2>4. at'[1] - 1 = at[1]
    BY <2>1, <2>2
  <2> QED
    BY <2>1, <2>2, <2>3, <2>4 DEF StakerInv
<1>6. CASE FinishBlock
  <2>1. /\ pc = "build" /\ pc' = "index" /\ UpdateSupply(block).txs = block.txs
        /\ UpdateSupply(block).stakedBy = block.stakedBy
        /\ DOMAIN chain' = 1 .. Len(chain) + 1
        /\ \A h \in 1 .. Len(chain) : chain'[h] = chain[h]
        /\ chain'[Len(chain) + 1] = UpdateSupply(block)
        /\ DOMAIN chain = 1 .. Len(chain) /\ Len(chain) \in Nat
    BY <1>6, FinishedFact, TypeFact DEF FinishBlock, SameBlock
  <2>2. block.stakedBy = StakerAfter(block.txs, Len(block.txs))
    <3>1. at[1] - 1 = Len(block.txs)
      BY <1>6, <2>1, FinishedFact, BuildFact
    <3> QED
      BY <2>1, <3>1 DEF StakerInv
  <2>3. ASSUME NEW h \in DOMAIN chain'
        PROVE  chain'[h].stakedBy = StakerAfter(chain'[h].txs, Len(chain'[h].txs))
    <3>1. CASE h \in 1 .. Len(chain)
      BY <2>1, <3>1 DEF StakerInv
    <3>2. CASE h = Len(chain) + 1
      BY <2>1, <2>2, <3>2
    <3> QED
      BY <2>1, <3>1, <3>2
  <2> QED
    BY <2>1, <2>3 DEF StakerInv
<1>7. CASE pc' # "build" /\ \E n \in 0 .. Len(chain) : chain' = SubSeq(chain, 1, n)
  <2>1. PICK n \in 0 .. Len(chain) : chain' = SubSeq(chain, 1, n)
    BY <1>7
  <2>2. DOMAIN chain' = 1 .. n /\ \A h \in 1 .. n : h \in DOMAIN chain /\ chain'[h] = chain[h]
    BY <2>1, TypeFact, PlacedCut
  <2> QED
    BY <1>7, <2>2 DEF StakerInv
<1> QED
  BY <1>1, <1>2, <1>3, <1>4, <1>5, <1>6, <1>7, BlockStep

\* Only the fetch of a block adds to the blocks there are.
LEMMA BlocksAtStep ==
    ASSUME TypeInv, [Next]_vars, ~ FetchBlock, NEW h, h # 0
    PROVE  BlocksAt(h, chain', block') \subseteq BlocksAt(h, chain, block)
<1>1. TypeInv'
  BY TypeStep
<1>2. CASE UNCHANGED <<chain, block>>
  BY <1>2
<1>3. CASE UNCHANGED chain /\ block'.height = block.height /\ block'.txs = block.txs
  BY <1>3 DEF BlocksAt
<1>4. CASE IndexPreviousTx
  BY <1>2, <1>4 DEF IndexPreviousTx, index
<1>5. CASE IndexTransaction
  <2>1. Building /\ chain' = chain /\ block' = CreateBlockTransaction(Current, block)
    BY <1>5 DEF IndexTransaction, index
  <2>2. block'.txs = block.txs /\ block'.height = block.height
    BY <2>1, BuildFact, AddedTransactionFact DEF SameBlock, Building
  <2> QED
    BY <1>3, <2>1, <2>2
<1>6. CASE FinishBlock
  <2>1. /\ UpdateSupply(block).txs = block.txs
        /\ DOMAIN chain' = 1 .. Len(chain) + 1 /\ block.height = Len(chain) + 1
        /\ \A k \in 1 .. Len(chain) : chain'[k] = chain[k]
        /\ chain'[Len(chain) + 1] = UpdateSupply(block)
        /\ DOMAIN chain = 1 .. Len(chain) /\ Len(chain) \in Nat
        /\ block'.height = 0
    BY <1>6, FinishedFact, BuildFact, TypeFact, NoBlockFact DEF FinishBlock, SameBlock
  <2>2. ASSUME h \in DOMAIN chain'
        PROVE  \/ h \in DOMAIN chain /\ chain'[h].txs = chain[h].txs
               \/ h = block.height /\ chain'[h].txs = block.txs
    <3>1. h \in 1 .. Len(chain) \/ h = Len(chain) + 1
      BY <2>1, <2>2
    <3> QED
      BY <2>1, <3>1
  <2> QED
    BY <2>1, <2>2 DEF BlocksAt
<1>7. CASE pc' # "build" /\ \E n \in 0 .. Len(chain) : chain' = SubSeq(chain, 1, n)
  <2>1. PICK n \in 0 .. Len(chain) : chain' = SubSeq(chain, 1, n)
    BY <1>7
  <2>2. DOMAIN chain' = 1 .. n /\ \A k \in 1 .. n : k \in DOMAIN chain /\ chain'[k] = chain[k]
    BY <2>1, TypeFact, PlacedCut
  <2>3. block'.height = 0
    BY <1>1, <1>7, NoBlockFact DEF TypeInv, TypeOK
  <2> QED
    BY <2>2, <2>3 DEF BlocksAt
<1> QED
  BY <1>2, <1>4, <1>5, <1>6, <1>7, BlockStep

\* The fetch of a block adds its transactions to those at the next height.
LEMMA BlocksAtFetch ==
    ASSUME TypeInv, FetchBlock, NEW h, h # 0, h # Len(chain) + 1 \/ h <= FinalHeight
    PROVE  BlocksAt(h, chain', block') \subseteq BlocksAt(h, chain, block)
<1>1. PICK txs \in Blocks[Len(chain) + 1] : block' = CreateBlock(txs, Last)
  BY DEF FetchBlock
<1>2. block'.height = Len(chain) + 1 /\ chain' = chain
  BY <1>1, CreatedBlockFact, LastFact DEF FetchBlock, index
<1> QED
  BY <1>2 DEF BlocksAt

\* A document is as right as the one it was made from.
LEMMA PaidSame ==
    ASSUME NEW t, NEW d, NEW e, NEW c, NEW b, d # None, Paid(t, d, c, b),
           e.height = d.height, e.feeTo = d.feeTo,
           \A n \in DOMAIN Raw[t].vout : IsFeeOutput(t, n) => e.vout[n] = d.vout[n]
    PROVE  Paid(t, e, c, b)
BY DEF Paid, PaidRight

LEMMA PaidLess ==
    ASSUME NEW t, NEW d, Paid(t, d, chain, block),
           d # None => BlocksAt(d.height, chain', block') \subseteq BlocksAt(d.height, chain, block)
    PROVE  Paid(t, d, chain', block')
BY DEF Paid

LEMMA PaidNone ==
    ASSUME NEW t, NEW c, NEW b
    PROVE  Paid(t, None, c, b)
BY DEF Paid

\* Where the documents come from at all other steps.
LEMMA CopiesStep ==
    ASSUME TypeInv, [Next]_vars, ~ IndexPreviousTx, ~ IndexTransaction
    PROVE  /\ lag' = lag
           /\ \A t \in Tx : /\ docs'[t] \in {docs[t], requests[t].doc, None}
                            /\ requests'[t].doc \in {requests[t].doc, None}
                            /\ seen'[t] \in {seen[t], docs[t]}
<1> DEFINE Copied == /\ lag' = lag
                     /\ \A t \in Tx : /\ docs'[t] \in {docs[t], requests[t].doc, None}
                                      /\ requests'[t].doc \in {requests[t].doc, None}
                                      /\ seen'[t] \in {seen[t], docs[t]}
<1>1. \A t \in Tx : NoRequests[t].doc = None
  BY NoRequestsFact DEF NoRequestsOK
<1>2. ASSUME docs' = Written(Requested) PROVE \A t \in Tx : docs'[t] \in {docs[t], requests[t].doc}
  BY <1>2 DEF Written
<1>3. CASE UNCHANGED vars
  BY <1>3 DEF vars, config, index, process
<1>4. CASE Refresh
  BY <1>4 DEF Refresh, config, process
<1>5. CASE FetchBlock
  BY <1>5 DEF FetchBlock, config, index
<1>6. CASE PersistForPreviousTx
  BY <1>1, <1>2, <1>6 DEF PersistForPreviousTx, config
<1>7. CASE FinishBlock
  BY <1>7 DEF FinishBlock, config
<1>8. CASE Persist
  <2>1. CASE PersistFails
    BY <1>1, <1>8, <2>1 DEF Persist, Die, config
  <2>2. CASE ~ PersistFails
    BY <1>1, <1>2, <1>8, <2>2 DEF Persist, config
  <2> QED
    BY <2>1, <2>2
<1>9. CASE FinishBulk
  BY <1>9 DEF FinishBulk, config, index
<1>10. ASSUME NEW h, Rewind(h), lag' = lag PROVE Copied
  BY <1>1, <1>10 DEF Rewind, DeleteHeightGT
<1>11. CASE Start
  <2>1. CASE chain = <<>>
    BY <1>11, <2>1 DEF Start, config, index
  <2>2. CASE chain # <<>>
    BY <1>10, <1>11, <2>2 DEF Start, config
  <2> QED
    BY <2>1, <2>2
<1>12. CASE RewindOrphan
  BY <1>10, <1>12 DEF RewindOrphan, config
<1>13. CASE CheckBlock
  <2>1. /\ lag' = lag /\ docs' = docs /\ seen' = seen
        /\ requests' = requests \/ requests' = NoRequests
    BY <1>13 DEF CheckBlock, config, index, Die
  <2> QED
    BY <1>1, <2>1
<1>14. CASE Kill
  <2>1. /\ lag' = lag /\ seen' = seen /\ requests' = NoRequests
        /\ \A t \in Tx : docs'[t] = docs[t] \/ (t \in Requested /\ docs'[t] = Now[t])
    BY <1>14, KillFact
  <2> QED
    BY <1>1, <2>1, WrittenFact
<1> QED
  BY <1>3, <1>4, <1>5, <1>6, <1>7, <1>8, <1>9, <1>11, <1>12, <1>13, <1>14 DEF Next

\* No document that is not of a final block is as high as the next block.
LEMMA HeightFact ==
    ASSUME Inv, FetchBlock, NEW t \in Tx, NEW d,
           d \in {docs[t], requests[t].doc} \/ (lag /\ d = seen[t]), d # None
    PROVE  d.height # 0 /\ (d.height # Len(chain) + 1 \/ d.height <= FinalHeight)
<1>1. pc = "index" /\ TypeInv /\ IndexInv
  BY InvFact DEF FetchBlock
<1>2. IsDocument(t, d) /\ d.height # 0
  <2>1. IsDocument(t, d)
    BY <1>1 DEF TypeInv, TypeOK
  <2> QED
    BY <2>1, DocFact
<1>3. <<d.height, t>> \in Places \/ Final(d.height, t)
  <2>1. CASE d = requests[t].doc
    <3>1. t \in Requested
      BY <1>1, <2>1 DEF TypeInv, TypeOK, Requested
    <3> QED
      BY <1>1, <2>1, <3>1, IndexInvFact
  <2>2. CASE d = docs[t]
    BY <1>1, <2>2, IndexInvFact DEF IsLeftOver
  <2>3. CASE lag /\ d = seen[t]
    BY <1>1, <2>3, IndexInvFact
  <2> QED
    BY <2>1, <2>2, <2>3
<1>4. CASE <<d.height, t>> \in Places
  <2>1. d.height <= Len(chain) /\ Len(chain) \in Nat /\ d.height \in Nat
    BY <1>1, <1>4, PlacesType, TypeFact, ConstantFact
  <2> QED
    BY <1>2, <2>1
<1> QED
  BY <1>2, <1>3, <1>4 DEF Final

\* A step that only copies documents.
LEMMA FeeCopied ==
    ASSUME Inv, FeeInv, [Next]_vars, ~ IndexPreviousTx, ~ IndexTransaction
    PROVE  FeeInv'
<1>1. TypeInv
  BY InvFact
<1>2. ASSUME NEW t \in Tx, NEW d, IsDocument(t, d), Paid(t, d, chain, block),
             d \in {docs[t], requests[t].doc} \/ (lag /\ d = seen[t])
      PROVE  Paid(t, d, chain', block')
  <2>1. CASE d = None
    BY <2>1, PaidNone
  <2>2. CASE d # None
    <3>1. d.height # 0
      BY <1>2, <2>2, DocFact
    <3>2. BlocksAt(d.height, chain', block') \subseteq BlocksAt(d.height, chain, block)
      <4>1. CASE FetchBlock
        BY <1>1, <1>2, <2>2, <4>1, HeightFact, BlocksAtFetch
      <4>2. CASE ~ FetchBlock
        BY <1>1, <3>1, <4>2, BlocksAtStep
      <4> QED
        BY <4>1, <4>2
    <3> QED
      BY <1>2, <3>2, PaidLess
  <2> QED
    BY <2>1, <2>2
<1>3. ASSUME NEW t \in Tx
      PROVE  /\ Paid(t, docs[t], chain', block') /\ Paid(t, requests[t].doc, chain', block')
             /\ lag => Paid(t, seen[t], chain', block')
  <2>1. /\ IsDocument(t, docs[t]) /\ IsDocument(t, seen[t]) /\ IsDocument(t, requests[t].doc)
    BY <1>1 DEF TypeInv, TypeOK
  <2>2. /\ Paid(t, docs[t], chain, block) /\ Paid(t, requests[t].doc, chain, block)
        /\ lag => Paid(t, seen[t], chain, block)
    BY DEF FeeInv
  <2> QED
    BY <1>2, <2>1, <2>2
<1>4. ASSUME NEW t \in Tx
      PROVE  /\ Paid(t, docs'[t], chain', block') /\ Paid(t, requests'[t].doc, chain', block')
             /\ lag => Paid(t, seen'[t], chain', block')
  <2>1. /\ docs'[t] \in {docs[t], requests[t].doc, None}
        /\ requests'[t].doc \in {requests[t].doc, None}
        /\ seen'[t] \in {seen[t], docs[t]}
    BY <1>1, CopiesStep
  <2> QED
    BY <1>3, <2>1, PaidNone
<1>5. lag' = lag
  BY <1>1, CopiesStep
<1> QED
  BY <1>4, <1>5 DEF FeeInv

\* Of the requests, one is changed.
LEMMA FeeRequested ==
    ASSUME TypeInv, FeeInv, [Next]_vars, ~ FetchBlock, UNCHANGED <<lag, docs, seen>>,
           NEW t \in Tx, \A u \in Tx \ {t} : requests'[u] = requests[u],
           Paid(t, requests'[t].doc, chain', block')
    PROVE  FeeInv'
<1>1. ASSUME NEW u \in Tx, NEW d, IsDocument(u, d), Paid(u, d, chain, block)
      PROVE  Paid(u, d, chain', block')
  <2>1. CASE d = None
    BY <2>1, PaidNone
  <2>2. CASE d # None
    <3>1. d.height # 0
      BY <1>1, <2>2, DocFact
    <3>2. BlocksAt(d.height, chain', block') \subseteq BlocksAt(d.height, chain, block)
      BY <3>1, BlocksAtStep
    <3> QED
      BY <1>1, <3>2, PaidLess
  <2> QED
    BY <2>1, <2>2
<1>2. ASSUME NEW u \in Tx
      PROVE  /\ Paid(u, docs[u], chain', block') /\ Paid(u, requests[u].doc, chain', block')
             /\ lag => Paid(u, seen[u], chain', block')
  <2>1. /\ IsDocument(u, docs[u]) /\ IsDocument(u, seen[u]) /\ IsDocument(u, requests[u].doc)
    BY DEF TypeInv, TypeOK
  <2>2. /\ Paid(u, docs[u], chain, block) /\ Paid(u, requests[u].doc, chain, block)
        /\ lag => Paid(u, seen[u], chain, block)
    BY DEF FeeInv
  <2> QED
    BY <1>1, <2>1, <2>2
<1>3. \A u \in Tx : Paid(u, requests'[u].doc, chain', block')
  BY <1>2
<1> QED
  BY <1>2, <1>3 DEF FeeInv

\* To mark an output as redeemed leaves the fee, which nothing spends.
LEMMA FeeIndexPreviousTx == Inv /\ FeeInv /\ IndexPreviousTx => FeeInv'
<1> SUFFICES ASSUME Inv, FeeInv, IndexPreviousTx PROVE FeeInv'
  OBVIOUS
<1> DEFINE p == Spent(Current, at[2])
           doc == GetTransactionByHash(p[1])
           new == Redeem(doc, p[2], Current)
<1>1. TypeInv /\ pc = "build" /\ UNCHANGED <<lag, chain, docs, seen, block>> /\ ~ FetchBlock /\ [Next]_vars
  BY InvFact DEF IndexPreviousTx, config, index, Building, FetchBlock, Next
<1>2. /\ Current \in Tx /\ at[2] \in Inputs(Current) /\ p[1] \in Tx
      /\ IsDocument(p[1], doc) /\ doc # None /\ new.height = doc.height /\ new.feeTo = doc.feeTo
      /\ \A m \in DOMAIN Raw[p[1]].vout : m # p[2] => new.vout[m] = doc.vout[m]
      /\ requests'[p[1]].doc = new
      /\ \A u \in Tx \ {p[1]} : requests'[u] = requests[u]
      /\ requests[p[1]].type # "none" \/ CanSearch
  BY <1>1, PreviousFact
<1>3. ~ IsFeeOutput(p[1], p[2])
  BY <1>2, FeeAssumption DEF IsFeeOutput, IsNulldata, OutputOf
<1>4. Paid(p[1], doc, chain, block)
  <2>1. CASE requests[p[1]].type # "none"
    BY <1>2, <2>1 DEF GetTransactionByHash, FeeInv
  <2>2. CASE requests[p[1]].type = "none" /\ lag
    BY <1>2, <2>2 DEF GetTransactionByHash, FeeInv
  <2>3. CASE requests[p[1]].type = "none" /\ ~ lag
    <3>1. doc = docs[p[1]]
      BY <1>2, <2>3 DEF GetTransactionByHash, CanSearch
    <3> QED
      BY <1>2, <3>1 DEF FeeInv
  <2> QED
    BY <2>1, <2>2, <2>3
<1>5. Paid(p[1], new, chain, block)
  BY <1>2, <1>3, <1>4, PaidSame
<1>6. Paid(p[1], requests'[p[1]].doc, chain', block')
  BY <1>1, <1>2, <1>5
<1> QED
  BY <1>1, <1>2, <1>6, FeeRequested

\* The block under construction is the only one there is at its height.
LEMMA OneBlock ==
    ASSUME TypeInv, pc = "build", NEW txs \in BlocksAt(Len(chain) + 1, chain, block)
    PROVE  txs = block.txs
<1>1. /\ Len(chain) \in Nat /\ DOMAIN chain = 1 .. Len(chain)
      /\ block.txs \in Blocks[Len(chain) + 1] /\ block.height = Len(chain) + 1
  BY TypeFact, BuildFact
<1>2. Len(chain) + 1 \notin DOMAIN chain
  BY <1>1
<1>3. txs \in Blocks[Len(chain) + 1] /\ (txs = block.txs \/ Len(chain) + 1 <= FinalHeight)
  BY <1>1, <1>2 DEF BlocksAt
<1>4. CASE Len(chain) + 1 <= FinalHeight
  <2>1. Len(chain) + 1 \in 1 .. FinalHeight
    BY <1>1, <1>4, ConstantFact
  <2> QED
    BY <1>1, <1>3, <2>1, FinalBlock
<1> QED
  BY <1>3, <1>4

\* A transaction is created with the fee as it is due.
LEMMA CreatedPaid ==
    ASSUME TypeInv, StakerInv, Building
    PROVE  Paid(Current, Created(Current, block), chain, block)
<1> DEFINE d == Created(Current, block)
<1>1. /\ pc = "build" /\ Current = block.txs[at[1]] /\ at[1] \in 1 .. Len(block.txs)
      /\ Len(block.txs) \in Nat /\ Len(chain) + 1 \in 1 .. MaxHeight
      /\ block.txs \in Blocks[Len(chain) + 1] /\ DOMAIN block.txs = 1 .. Len(block.txs)
  BY BuildFact DEF Building, Current
<1>2. d.height = Len(chain) + 1
  BY CreatedFact
<1>3. ASSUME PaysFee(Current) PROVE PaidRight(Current, d, block.txs)
  <2>1. at[1] > 2 /\ IsAnyStaking(block.txs[2])
    BY <1>1, <1>3, FeeAssumption
  <2>2. block.stakedBy = StakerAfter(block.txs, Len(block.txs))
    <3>1. /\ at[1] - 1 # 0 /\ at[1] - 1 # 1
          /\ Len(block.txs) # 0 /\ Len(block.txs) # 1
      BY <1>1, <2>1
    <3> QED
      BY <1>1, <3>1, StakerAfterFact DEF StakerInv
  <2>3. d.feeTo = block.stakedBy
    BY <1>3 DEF Created, StakerOf
  <2>4. \A n \in DOMAIN Raw[Current].vout : IsFeeOutput(Current, n) => d.vout[n].by = block.txs[2]
    BY DEF Created
  <2> QED
    BY <2>1, <2>2, <2>3, <2>4 DEF PaidRight
<1>4. PaidRight(Current, d, block.txs)
  <2>1. CASE ~ PaysFee(Current)
    BY <2>1 DEF PaidRight
  <2> QED
    BY <1>3, <2>1
<1> HIDE DEF d
<1>5. \A txs \in BlocksAt(d.height, chain, block) : PaidRight(Current, d, txs)
  BY <1>1, <1>2, <1>4, OneBlock
<1>6. Paid(Current, d, chain, block)
  BY <1>5 DEF Paid
<1> QED
  BY <1>6 DEF d

LEMMA FeeIndexTransaction == Inv /\ StakerInv /\ FeeInv /\ IndexTransaction => FeeInv'
<1> SUFFICES ASSUME Inv, StakerInv, FeeInv, IndexTransaction PROVE FeeInv'
  OBVIOUS
<1> DEFINE d == Created(Current, block)
<1>1. /\ TypeInv /\ Building /\ pc = "build" /\ UNCHANGED <<lag, docs, seen>>
      /\ ~ FetchBlock /\ [Next]_vars /\ AddRequest(Current, "index", d)
  BY InvFact DEF IndexTransaction, config, index, Building, FetchBlock, Next
<1>2. Current \in Tx /\ IsDocument(Current, d) /\ d # None
  BY <1>1, BuildFact, CreatedFact
<1>3. Paid(Current, d, chain, block)
  BY <1>1, CreatedPaid
<1> HIDE DEF d
<1>4. Paid(Current, d, chain', block')
  <2>1. BlocksAt(d.height, chain', block') \subseteq BlocksAt(d.height, chain, block)
    BY <1>1, <1>2, DocFact, BlocksAtStep
  <2> QED
    BY <1>3, <2>1, PaidLess
<1>5. /\ requests'[Current].doc = d
      /\ \A u \in Tx \ {Current} : requests'[u] = requests[u]
  BY <1>1, <1>2, AddRequestFact DEF TypeInv, ShapeInv
<1> QED
  BY <1>1, <1>2, <1>4, <1>5, FeeRequested

LEMMA FeeStep == Inv /\ StakerInv /\ FeeInv /\ [Next]_vars => FeeInv'
BY FeeCopied, FeeIndexPreviousTx, FeeIndexTransaction

LEMMA FeeInit == Init => StakerInv /\ FeeInv
<1> SUFFICES ASSUME Init PROVE StakerInv /\ FeeInv
  OBVIOUS
<1>1. chain = <<>> /\ pc = "down" /\ \A t \in Tx : docs[t] = None /\ seen[t] = None
  BY DEF Init
<1>2. \A t \in Tx : requests[t].doc = None
  BY NoRequestsFact DEF Init, NoRequestsOK
<1> QED
  BY <1>1, <1>2, PaidNone DEF StakerInv, FeeInv

\* The fee of each private transaction goes to who stakes its own block, also if
\* an earlier block had it with another staker, for all blocks in which those
\* that pay a fee come after the one that stakes.
THEOREM FeeCorrect == SafeSetting => (Spec => []FeeGoesToStaker)
<1> SUFFICES ASSUME SafeSetting PROVE Spec => []FeeGoesToStaker
  OBVIOUS
<1>1. Inv /\ StakerInv /\ FeeInv => FeeGoesToStaker
  <2> SUFFICES ASSUME Inv, StakerInv, FeeInv, Settled,
                      NEW h \in DOMAIN chain, NEW j \in DOMAIN chain[h].txs,
                      PaysFee(chain[h].txs[j])
               PROVE  /\ docs[chain[h].txs[j]].feeTo = chain[h].stakedBy
                      /\ \A n \in DOMAIN Raw[chain[h].txs[j]].vout :
                            IsFeeOutput(chain[h].txs[j], n) => IsAnyStaking(docs[chain[h].txs[j]].vout[n].by)
    BY DEF FeeGoesToStaker
  <2> DEFINE t == chain[h].txs[j]
             txs == chain[h].txs
  <2>1. TypeInv /\ IndexInv /\ pc = "index" /\ top = Len(chain)
    BY InvFact DEF Settled
  <2>2. h \in 1 .. Len(chain) /\ txs \in Blocks[h] /\ txs \in Seq(Tx) /\ t \in Tx
    BY <2>1, TypeFact
  <2>3. <<h, t>> \in Places
    BY <2>1, <2>2, PlacesIdle DEF Placed
  <2>4. docs[t] # None /\ docs[t].height = h
    <3>1. <<h, t>> \in UpTo(Places, top)
      BY <2>1, <2>2, <2>3 DEF UpTo
    <3>2. Present(UpTo(Places, top), docs)
      BY <2>1, IndexInvFact DEF Right
    <3> QED
      BY <3>1, <3>2 DEF Present
  <2>5. txs \in BlocksAt(docs[t].height, chain, block)
    BY <2>2, <2>4 DEF BlocksAt
  <2>6. PaidRight(t, docs[t], txs)
    BY <2>2, <2>4, <2>5 DEF FeeInv, Paid
  <2>7. chain[h].stakedBy = StakerAfter(txs, Len(txs))
    BY DEF StakerInv
  <2> QED
    BY <2>6, <2>7 DEF PaidRight
<1> QED
  BY <1>1, Invariant, StakerStep, FeeStep, FeeInit, InvFact, PTL DEF Spec
===============================================================================
