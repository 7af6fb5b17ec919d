--------------------------- MODULE IndexerProofs ---------------------------
(***************************************************************************)
(* Proofs about Indexer: facts about the operators of module Chain, type   *)
(* correctness, and that the block index stays anchored, because the       *)
(* invariant of module IndexerInvariant is inductive.                      *)
(***************************************************************************)
EXTENDS IndexerInvariant, TLAPS

-----------------------------------------------------------------------------
(* The operators of module Chain *)

\* The block of a chain at a height is a block of that height with the chain's
\* own marks.
LEMMA BlockAtType ==
    ASSUME NEW M, NEW c \in Seq(M), NEW h \in 0 .. Len(c)
    PROVE  /\ BlockAt(c, h) \in Seq(M)
           /\ Height(BlockAt(c, h)) = h
           /\ \A i \in 1 .. h : BlockAt(c, h)[i] = c[i]
BY DEF BlockAt, Height

\* A block below a block of a chain is a block of the chain.
LEMMA BlockAtBlockAt ==
    ASSUME NEW M, NEW c \in Seq(M), NEW h \in 0 .. Len(c), NEW i \in 0 .. h
    PROVE  BlockAt(BlockAt(c, h), i) = BlockAt(c, i)
BY DEF BlockAt

\* The block at the height of a chain is its last.
LEMMA BlockAtTop ==
    ASSUME NEW M, NEW c \in Seq(M)
    PROVE  BlockAt(c, Height(c)) = c
BY DEF BlockAt, Height

\* There is no block at height 0.
LEMMA BlockAtZero ==
    ASSUME NEW M, NEW c \in Seq(M)
    PROVE  BlockAt(c, 0) = NoBlock
BY DEF BlockAt, NoBlock

\* The parent of a block of a chain is the block below it.
LEMMA PreviousBlockAt ==
    ASSUME NEW M, NEW c \in Seq(M), NEW h \in 1 .. Len(c)
    PROVE  Previous(BlockAt(c, h)) = BlockAt(c, h - 1)
BY DEF BlockAt, Previous

\* The chain of no block is empty.
LEMMA NoAncestry == Ancestry(NoBlock) = {}
BY DEF Ancestry, NoBlock

\* A chain consists of one block at each height from 1 to its top.
LEMMA AncestryFact ==
    ASSUME NEW M, NEW b \in Seq(M)
    PROVE  \A c : c \in Ancestry(b) <=> \E h \in 1 .. Height(b) : c = BlockAt(b, h)
BY DEF Ancestry, Height

\* The part of a chain up to a height is the chain that ends there.
LEMMA AncestryUpTo ==
    ASSUME NEW M, NEW b \in Seq(M), NEW h \in 0 .. Height(b)
    PROVE  {c \in Ancestry(b) : Height(c) <= h} = Ancestry(BlockAt(b, h))
<1>1. h \in Nat /\ Height(b) \in Nat /\ Len(b) = Height(b)
  BY DEF Height
<1>2. BlockAt(b, h) \in Seq(M) /\ Height(BlockAt(b, h)) = h
  BY <1>1, BlockAtType
<1>3. \A i \in 1 .. Height(b) : Height(BlockAt(b, i)) = i
  BY <1>1, BlockAtType
<1>4. \A i \in 0 .. h : BlockAt(BlockAt(b, h), i) = BlockAt(b, i)
  BY <1>1, BlockAtBlockAt
<1>5. ASSUME NEW c
      PROVE  c \in {d \in Ancestry(b) : Height(d) <= h} <=> c \in Ancestry(BlockAt(b, h))
  <2>1. c \in Ancestry(b) /\ Height(c) <= h
          <=> \E i \in 1 .. h : c = BlockAt(b, i)
    BY <1>1, <1>3, AncestryFact
  <2>2. c \in Ancestry(BlockAt(b, h)) <=> \E i \in 1 .. h : c = BlockAt(b, i)
    BY <1>2, <1>4, AncestryFact
  <2> QED
    BY <2>1, <2>2
<1> QED
  BY <1>5

\* A chain is the chain of its last block's parent and that block.
LEMMA AncestryGrows ==
    ASSUME NEW M, NEW b \in Seq(M), Height(b) > 0
    PROVE  Ancestry(b) = Ancestry(Previous(b)) \cup {b}
<1>1. Height(b) \in Nat \ {0} /\ Len(b) = Height(b)
  BY DEF Height
<1>2. Previous(b) = BlockAt(b, Height(b) - 1)
  BY DEF Previous, BlockAt, Height
<1>3. Ancestry(Previous(b)) = {c \in Ancestry(b) : Height(c) <= Height(b) - 1}
  BY <1>1, <1>2, AncestryUpTo
<1>4. \A i \in 1 .. Height(b) : Height(BlockAt(b, i)) = i
  BY <1>1, BlockAtType
<1>5. BlockAt(b, Height(b)) = b
  BY BlockAtTop
<1>6. ASSUME NEW c
      PROVE  c \in Ancestry(b) <=> c \in Ancestry(Previous(b)) \cup {b}
  BY <1>1, <1>3, <1>4, <1>5, AncestryFact
<1> QED
  BY <1>6

-----------------------------------------------------------------------------
(* Type correctness *)

\* What a block is: a sequence of marks with a height, not NoBlock.
LEMMA BlockFact ==
    ASSUME NEW b \in Block
    PROVE  b \in Seq(Mark) /\ Height(b) \in 1 .. MaxHeight /\ b # NoBlock
BY DEF Block, NoBlock, Height

\* NoBlock has height 0, as a nil block stands before the first one.
LEMMA NoBlockFact == Height(NoBlock) = 0 /\ NoBlock \in Seq(Mark)
BY DEF NoBlock, Height

\* The blocks of a chain of blocks are blocks.
LEMMA BlockAtBlock ==
    ASSUME NEW b \in Block, NEW h \in 1 .. Height(b)
    PROVE  BlockAt(b, h) \in Block /\ Height(BlockAt(b, h)) = h
<1>1. b \in Seq(Mark) /\ Height(b) \in 1 .. MaxHeight /\ Len(b) = Height(b)
  BY BlockFact DEF Height
<1>2. BlockAt(b, h) \in Seq(Mark) /\ Height(BlockAt(b, h)) = h
  BY <1>1, BlockAtType
<1> QED
  BY <1>1, <1>2, SizesAssumption DEF Block

\* GetBestBlock answers with a block or with none.
LEMMA BestBlocksType ==
    ASSUME TypeOK
    PROVE  BestBlocks \subseteq Block \cup {NoBlock}
BY DEF TypeOK, BestBlocks, Highest

\* GetLastBlockIndexed answers with a block or with none.
LEMMA LastBlocksType ==
    ASSUME TypeOK
    PROVE  LastBlocks \subseteq Block \cup {NoBlock}
BY BestBlocksType DEF TypeOK, LastBlocks

\* AddRequest adds requests only.
LEMMA AddRequestType ==
    ASSUME NEW requests \in SUBSET Request, NEW type \in {"index", "update"},
           NEW b \in Block
    PROVE  AddRequest(requests, type, b) \in SUBSET Request
BY DEF AddRequest, Request

\* What is requested are blocks.
LEMMA RequestedType ==
    ASSUME NEW requests \in SUBSET Request, NEW type
    PROVE  Requested(requests, type) \subseteq Block
BY DEF Requested, Request

\* A process that has died holds well-typed nothing.
LEMMA DieType ==
    ASSUME TypeOK, Die
    PROVE  /\ pending' \subseteq Request
           /\ last' \in Block \cup {NoBlock}
           /\ pc' \in Points
           /\ phase' \in {"boot", "batch", "single"}
           /\ height' \in 0 .. MaxHeight + 1
           /\ target' \in Nat
           /\ rewindTo' \in 0 .. WordSize - 1
           /\ best' \in Block \cup {NoBlock}
           /\ block' \in Block \cup {NoBlock}
           /\ message' \in BOOLEAN
           /\ late' \in {"no", "rewind", "killed"}
           /\ ArgsOK'
<1>1. message' \in BOOLEAN
  BY Zenon DEF Die
<1>4. late' \in {"no", "rewind", "killed"}
  BY DEF Die, TypeOK
<1>2. MaxHeight \in Nat /\ WordSize \in Nat \ {0}
  BY SizesAssumption
<1>3. ArgsOK'
  BY DEF Die, ArgsOK
<1> QED
  BY <1>1, <1>2, <1>3, <1>4 DEF Die, Points

\* uint64 arithmetic stays in its range.
LEMMA ModRange ==
    ASSUME NEW a \in Int, NEW n \in Nat \ {0}
    PROVE  a % n \in 0 .. n - 1
OBVIOUS

\* The types hold when the process has never run.
LEMMA TypeInit == Init => TypeInv
<1> SUFFICES ASSUME Init PROVE TypeInv
  OBVIOUS
<1>1. 0 \in Mark /\ InitHeight \in 1 .. MaxHeight /\ MaxHeight \in Nat
  BY SizesAssumption, EnvironmentAssumption
<1>2. chain \in Seq(Mark) /\ Height(chain) = InitHeight
  BY <1>1 DEF Init, Height
<1>3. chain \in Block
  BY <1>1, <1>2 DEF Block
<1>4. ArgsOK
  BY DEF Init, ArgsOK
<1>5. 0 \in 0 .. WordSize - 1 /\ 0 \in 0 .. MaxCrashes /\ 0 \in 0 .. MaxReorgs
  BY SizesAssumption, EnvironmentAssumption
<1>6. message \in BOOLEAN /\ torn \in BOOLEAN
  BY Zenon DEF Init
<1>7. TypeOK
  BY <1>1, <1>3, <1>5, <1>6 DEF Init, TypeOK, Points
<1> QED
  BY <1>4, <1>7 DEF TypeInv

\* Every step of the process, of navcoind and of Elasticsearch keeps the types.
LEMMA TypeNext == TypeInv /\ [Next]_vars => TypeInv'
<1> SUFFICES ASSUME TypeInv, [Next]_vars PROVE TypeInv'
  OBVIOUS
<1>a. TypeOK /\ ArgsOK
  BY DEF TypeInv
<1>b. \A b \in Block : Height(b) \in 1 .. MaxHeight /\ b # NoBlock
  BY BlockFact
<1>c. MaxHeight \in Nat \ {0} /\ WordSize \in Nat /\ 0 \in 0 .. WordSize - 1
  BY SizesAssumption
<1>d. BestBlocks \subseteq Block \cup {NoBlock}
  BY <1>a, BestBlocksType
<1>e. LastBlocks \subseteq Block \cup {NoBlock}
  BY <1>a, LastBlocksType
<1>f. Height(NoBlock) = 0
  BY NoBlockFact
<1> USE DEF TypeInv, TypeOK, ArgsOK
<1>1. CASE Extend
  <2>1. Height(chain) \in 1 .. MaxHeight - 1 /\ chain \in Seq(Mark)
    BY <1>1, <1>a, <1>c, BlockFact DEF Extend
  <2>2. chain[Height(chain)] \in Mark
    BY <2>1 DEF Height
  <2>3. chain' \in Seq(Mark) /\ Height(chain') = Height(chain) + 1
    BY <1>1, <2>1, <2>2 DEF Extend, Height
  <2>4. chain' \in Block
    BY <2>1, <2>3, <1>c DEF Block
  <2> QED
    BY <1>1, <1>a, <2>4 DEF Extend, Notify, Subscribed, storeVars, argVars
<1>2. CASE Reorg
  <2>1. Height(chain) \in 1 .. MaxHeight - 1 /\ chain \in Seq(Mark)
    BY <1>2, <1>a, <1>c, BlockFact DEF Reorg
  <2>2. PICK h \in 0 .. Height(chain) - 1, m \in 0 .. MaxReorgs :
          chain' = [i \in 1 .. Height(chain) + 1 |-> IF i <= h THEN chain[i] ELSE m]
    BY <1>2 DEF Reorg
  <2>3. m \in Mark
    BY EnvironmentAssumption
  <2>4. \A i \in 1 .. Height(chain) : chain[i] \in Mark
    BY <2>1 DEF Height
  <2>5. chain' \in Seq(Mark) /\ Height(chain') = Height(chain) + 1
    BY <2>1, <2>2, <2>3, <2>4 DEF Height
  <2>6. chain' \in Block
    BY <2>1, <2>5, <1>c DEF Block
  <2>7. reorgs' \in 0 .. MaxReorgs
    BY <1>2, <1>a, EnvironmentAssumption DEF Reorg
  <2> QED
    BY <1>2, <1>a, <2>6, <2>7 DEF Reorg, Notify, Subscribed, storeVars, argVars
<1>3. CASE Crash
  <2>1. crashes' \in 0 .. MaxCrashes
    BY <1>3, <1>a, EnvironmentAssumption DEF Crash
  <2>2. store' \subseteq Block
    BY <1>3, <1>a, RequestedType DEF Crash, Leftovers
  <2> QED
    BY <1>3, <1>a, <2>1, <2>2, DieType DEF Crash, envVars
<1>4. CASE Reindex
  <2>1. crashes' \in 0 .. MaxCrashes
    BY <1>4, <1>a, EnvironmentAssumption DEF Reindex
  <2> QED
    BY <1>4, <1>a, <2>1 DEF Reindex, envVars, procVars, argVars
<1>5. CASE Refresh
  BY <1>5, <1>a DEF Refresh, envVars, procVars, argVars
<1>6. CASE Start
  BY <1>6, <1>a DEF Start, envVars, storeVars, argVars, Points
<1>7. CASE RewindAtStart
  <2>1. PICK b \in BestBlocks :
          IF b = NoBlock
          THEN BulkOrSubscribe /\ UNCHANGED rewindTo
          ELSE pc' = "rewind" /\ rewindTo' = TargetHeight(b) /\ UNCHANGED phase
    BY <1>7 DEF RewindAtStart
  <2>2. ASSUME b # NoBlock PROVE TargetHeight(b) \in 0 .. WordSize - 1
    <3>1. Height(b) \in 1 .. MaxHeight
      BY <2>2, <1>b, <1>d
    <3> QED
      BY <3>1, SizesAssumption DEF TargetHeight
  <2>3. /\ rewindTo' \in 0 .. WordSize - 1
        /\ pc' \in {"rewind", "bulk", "idle"}
        /\ phase' \in {"boot", "batch", "single"}
    BY <2>1, <2>2, <1>a DEF BulkOrSubscribe
  <2> QED
    BY <1>7, <1>a, <2>3 DEF RewindAtStart, envVars, storeVars, Points
<1>8. CASE ReloadBestBlock
  <2>1. PICK b \in BestBlocks :
          IF b = NoBlock
          THEN Fatal
          ELSE /\ last' = b
               /\ BulkOrSubscribe
               /\ UNCHANGED <<store, pending, argVars, message, late>>
    BY <1>8 DEF ReloadBestBlock
  <2>2. CASE b = NoBlock
    BY <1>8, <1>a, <2>1, <2>2, DieType DEF ReloadBestBlock, Fatal, envVars
  <2>3. CASE b # NoBlock
    <3>1. pc' \in {"bulk", "idle"} /\ phase' \in {"boot", "batch", "single"}
      BY <2>1, <2>3, <1>a DEF BulkOrSubscribe
    <3> QED
      BY <1>8, <1>a, <1>d, <2>1, <2>3, <3>1
      DEF ReloadBestBlock, envVars, argVars, Points
  <2> QED
    BY <2>2, <2>3
<1>9. CASE RewindAddresses
  BY <1>9, <1>a DEF RewindAddresses, envVars, storeVars, argVars, Points
<1>10. CASE RewindRefused
  BY <1>10, <1>a, DieType DEF RewindRefused, Fatal, envVars
<1>11. CASE DeleteBlocks
  BY <1>11, <1>a DEF DeleteBlocks, envVars, argVars, Points
<1>12. CASE CheckBlock
  <2>1. PICK b \in BestBlocks :
          LET first == IF best = NoBlock THEN b ELSE best
          IN  CASE b = NoBlock -> Fatal
                [] b # NoBlock /\ Height(b) # rewindTo ->
                     /\ best' = first
                     /\ UNCHANGED <<store, pending, last, pc, phase, height,
                                    target, rewindTo, block, message, late>>
                [] b # NoBlock /\ Height(b) = rewindTo ->
                     /\ last' = first
                     /\ best' = NoBlock
                     /\ rewindTo' = 0
                     /\ late' = IF late = "rewind" THEN "no" ELSE late
                     /\ IF phase = "boot"
                        THEN pc' = "reload" /\ UNCHANGED height
                        ELSE IndexNext(first)
                     /\ UNCHANGED <<store, pending, phase, target, block,
                                    message>>
    BY <1>12 DEF CheckBlock, IsBestBlockAtHeight
  <2>2. CASE b = NoBlock
    BY <1>12, <1>a, <2>1, <2>2, DieType DEF CheckBlock, IsBestBlockAtHeight, Fatal, envVars
  <2>3. CASE b # NoBlock /\ Height(b) # rewindTo
    BY <1>12, <1>a, <1>d, <2>1, <2>3 DEF CheckBlock, IsBestBlockAtHeight, envVars
  <2>4. CASE b # NoBlock /\ Height(b) = rewindTo
    <3> DEFINE first == IF best = NoBlock THEN b ELSE best
    <3>1. first \in Block /\ Height(first) \in 1 .. MaxHeight
      BY <2>4, <1>a, <1>b, <1>d
    <3>2. /\ last' = first /\ best' = NoBlock /\ rewindTo' = 0
          /\ pc' \in {"reload", "fetch"}
          /\ height' \in 0 .. MaxHeight + 1
          /\ pc' = "fetch" => height' >= 1
      BY <2>1, <2>4, <3>1, <1>a, <1>c DEF IndexNext
    <3>3. /\ UNCHANGED <<store, pending, phase, target, block, message>>
          /\ late' \in {"no", "rewind", "killed"}
      BY <1>a, <2>1, <2>4
    <3> QED
      BY <1>12, <1>a, <1>c, <3>1, <3>2, <3>3 DEF CheckBlock, IsBestBlockAtHeight, envVars, Points
  <2> QED
    BY <2>2, <2>3, <2>4
<1>13. CASE StartBulk
  <2>1. PICK b \in LastBlocks :
          /\ last' = b
          /\ IF b # NoBlock /\ Height(b) + 1 = target'
             THEN pc' = "flush" /\ UNCHANGED height
             ELSE IndexNext(b)
    BY <1>13 DEF StartBulk
  <2>2. b \in Block \cup {NoBlock} /\ Height(b) \in 0 .. MaxHeight
    BY <1>b, <1>c, <1>e, <1>f
  <2>3. target' \in Nat
    BY <1>13, <1>a, <1>b, SizesAssumption DEF StartBulk
  <2>4. /\ pc' \in {"flush", "fetch"}
        /\ height' \in 0 .. MaxHeight + 1
        /\ pc' = "fetch" => height' >= 1
    BY <2>1, <2>2, <1>a, <1>c DEF IndexNext
  <2> QED
    BY <1>13, <1>a, <2>1, <2>2, <2>3, <2>4 DEF StartBulk, envVars, storeVars, Points
<1>14. CASE SingleIndex
  <2>1. PICK b \in LastBlocks : last' = b /\ IndexNext(b)
    BY <1>14 DEF SingleIndex
  <2>2. b \in Block \cup {NoBlock} /\ Height(b) \in 0 .. MaxHeight
    BY <1>b, <1>c, <1>e, <1>f
  <2>3. pc' = "fetch" /\ height' \in 1 .. MaxHeight + 1
    BY <2>1, <2>2, <1>c DEF IndexNext
  <2>4. message' \in BOOLEAN
    BY <1>14, Zenon DEF SingleIndex
  <2> QED
    BY <1>14, <1>a, <1>c, <2>1, <2>2, <2>3, <2>4
    DEF SingleIndex, envVars, storeVars, Points
<1>15. CASE HeightOutOfRange
  <2>1. CASE phase = "single"
    BY <1>15, <1>a, <1>c, <2>1 DEF HeightOutOfRange, envVars, Points
  <2>2. CASE phase # "single"
    BY <1>15, <1>a, <2>2, DieType DEF HeightOutOfRange, Fatal, envVars
  <2> QED
    BY <2>1, <2>2
<1>16. CASE FetchBlock
  <2>1. height \in 1 .. Height(chain) /\ Height(chain) \in 1 .. MaxHeight
    BY <1>16, <1>a, <1>b, <1>c DEF FetchBlock
  <2>2. BlockAt(chain, height) \in Block
    BY <2>1, <1>a, BlockAtBlock
  <2>3. \/ last' = NoBlock /\ pc' = "orphan" /\ UNCHANGED block
        \/ block' = BlockAt(chain, height) /\ pc' = "build" /\ UNCHANGED last
    BY <1>16 DEF FetchBlock
  <2> QED
    BY <1>16, <1>a, <1>c, <2>1, <2>2, <2>3 DEF FetchBlock, envVars, storeVars, Points
<1>17. CASE RewindOrphan
  <2>1. PICK b \in BestBlocks :
          IF b = NoBlock
          THEN Fatal
          ELSE /\ last' = b
               /\ rewindTo' = (Height(b) - ReindexSize) % WordSize
               /\ pc' = "rewind"
               /\ height' = 0
               /\ late' = IF late = "no" /\ view # store THEN "rewind" ELSE late
               /\ UNCHANGED <<store, pending, phase, target, best, block,
                              message>>
    BY <1>17 DEF RewindOrphan
  <2>2. CASE b = NoBlock
    BY <1>17, <1>a, <2>1, <2>2, DieType DEF RewindOrphan, Fatal, envVars
  <2>3. CASE b # NoBlock
    <3>1. b \in Block /\ Height(b) \in 1 .. MaxHeight
      BY <2>3, <1>b, <1>d
    <3>2. Height(b) - ReindexSize \in Int /\ WordSize \in Nat \ {0}
      BY <3>1, SizesAssumption
    <3>3. rewindTo' \in 0 .. WordSize - 1
      BY <2>1, <2>3, <3>2, ModRange
    <3> QED
      BY <1>17, <1>a, <1>c, <2>1, <2>3, <3>1, <3>3 DEF RewindOrphan, envVars, Points
  <2> QED
    BY <2>2, <2>3
<1>18. CASE PersistForPreviousTx
  <2>1. store' \subseteq Block /\ pending' = {}
    BY <1>18, <1>a, RequestedType DEF PersistForPreviousTx, Persisted
  <2> QED
    BY <1>18, <1>a, <2>1 DEF PersistForPreviousTx, envVars, argVars, Points
<1>19. CASE BuildBlock
  <2>1. PICK previous \in LastBlocks :
          IF phase = "single" /\ previous = NoBlock
          THEN Fatal /\ UNCHANGED torn
          ELSE /\ pending' =
                     IF phase = "single"
                     THEN AddRequest(AddRequest(pending, "update", previous),
                                     "index", block)
                     ELSE AddRequest(pending, "index", block)
               /\ last' = block
               /\ torn' = (torn \/ (phase = "batch" /\ Previous(block) # previous))
               /\ block' = NoBlock
               /\ pc' = "persist"
               /\ UNCHANGED <<store, phase, height, target, rewindTo, best,
                              message, late>>
    BY <1>19 DEF BuildBlock
  <2>2. block \in Block /\ height \in 1 .. MaxHeight
    BY <1>19, <1>a DEF BuildBlock
  <2>3. CASE phase = "single" /\ previous = NoBlock
    BY <1>19, <1>a, <2>1, <2>3, DieType DEF BuildBlock, Fatal, envVars
  <2>4. CASE ~ (phase = "single" /\ previous = NoBlock)
    <3>1. pending' \subseteq Request
      <4>1. CASE phase = "single"
        <5>1. previous \in Block
          BY <2>4, <4>1, <1>e
        <5>2. AddRequest(pending, "update", previous) \in SUBSET Request
          BY <1>a, <5>1, AddRequestType
        <5> QED
          BY <2>1, <2>2, <2>4, <4>1, <5>2, AddRequestType
      <4>2. CASE phase # "single"
        <5>1. pending \in SUBSET Request /\ pending' = AddRequest(pending, "index", block)
          BY <1>a, <2>1, <4>2
        <5> QED
          BY <2>2, <5>1, AddRequestType
      <4> QED
        BY <4>1, <4>2
    <3>2. torn' \in BOOLEAN
      <4>1. torn' = (torn \/ (phase = "batch" /\ Previous(block) # previous))
        BY <2>1, <2>4
      <4> QED
        BY <4>1, Zenon
    <3>3. /\ last' = block /\ block' = NoBlock /\ pc' = "persist"
          /\ UNCHANGED <<store, phase, height, target, rewindTo, best, message, late>>
      BY <2>1, <2>4
    <3> QED
      BY <1>19, <1>a, <2>2, <3>1, <3>2, <3>3 DEF BuildBlock, envVars, Points
  <2> QED
    BY <2>3, <2>4
<1>20. CASE PersistBlock
  <2>1. height \in 1 .. MaxHeight
    BY <1>20, <1>a DEF PersistBlock
  <2>2. store \cup Requested(pending, "index") \subseteq Block
    BY <1>a, RequestedType
  <2>3. ASSUME NextHeight
        PROVE  /\ pc' \in {"flush", "fetch"}
               /\ height' \in 0 .. MaxHeight + 1
               /\ pc' = "fetch" => height' >= 1
    BY <2>1, <2>3, <1>c DEF NextHeight
  <2>4. CASE ~ PersistDue
    BY <1>20, <1>a, <2>3, <2>4 DEF PersistBlock, envVars, Points
  <2>5. CASE PersistDue /\ PersistFails
    <3>1. store' \in Leftovers /\ pc = "persist" /\ Die
      BY <1>20, <2>5 DEF PersistBlock
    <3>2. store' \subseteq Block
      BY <1>a, <2>2, <3>1 DEF Leftovers
    <3> QED
      BY <1>20, <1>a, <3>1, <3>2, DieType DEF PersistBlock, envVars
  <2>6. CASE PersistDue /\ ~ PersistFails
    BY <1>20, <1>a, <2>2, <2>3, <2>6 DEF PersistBlock, Persisted, envVars, Points
  <2> QED
    BY <2>4, <2>5, <2>6
<1>21. CASE FlushBulk
  <2>1. store' \subseteq Block /\ pending' = {}
    BY <1>21, <1>a, RequestedType DEF FlushBulk, Persisted
  <2> QED
    BY <1>21, <1>a, <2>1 DEF FlushBulk, envVars, argVars, Points
<1>22. CASE FinishBulk
  <2>1. CASE view = {}
    BY <1>22, <1>a, <2>1, DieType DEF FinishBulk, Fatal, envVars
  <2>2. CASE view # {}
    BY <1>22, <1>a, <2>2 DEF FinishBulk, envVars, Points
  <2> QED
    BY <2>1, <2>2
<1>23. CASE UNCHANGED vars
  BY <1>23, <1>a DEF vars, envVars, storeVars, procVars, argVars
<1> QED
  BY <1>1, <1>2, <1>3, <1>4, <1>5, <1>6, <1>7, <1>8, <1>9, <1>10, <1>11, <1>12,
     <1>13, <1>14, <1>15, <1>16, <1>17, <1>18, <1>19, <1>20, <1>21, <1>22, <1>23
  DEF Next, Environment, Process

\* Every variable always holds a value of its type: in particular the argument
\* of RewindToHeight is a uint64 although it is a difference, and index() is
\* never called beyond one block above the greatest height.
THEOREM TypeCorrect == Spec => []TypeOK
<1>1. TypeInv => TypeOK
  BY DEF TypeInv
<1> QED
  BY <1>1, TypeInit, TypeNext, PTL DEF Spec

-----------------------------------------------------------------------------
(* Facts about chains, for sets of blocks *)

\* The height of a block, or of no block, is a number.
LEMMA HeightFact ==
    ASSUME NEW b \in Block \cup {NoBlock}
    PROVE  b \in Seq(Mark) /\ Height(b) \in Nat /\ Len(b) = Height(b)
<1>1. b \in Seq(Mark)
  BY BlockFact, NoBlockFact
<1> QED
  BY <1>1 DEF Height

\* A block of a chain is where its height says.
LEMMA MemberOfChain ==
    ASSUME NEW b \in Block \cup {NoBlock}, NEW c \in Ancestry(b)
    PROVE  /\ Height(c) \in 1 .. Height(b)
           /\ c = BlockAt(b, Height(c))
           /\ c \in Block /\ b \in Block
<1>1. b \in Seq(Mark) /\ Height(b) \in Nat /\ Len(b) = Height(b)
  BY HeightFact
<1>2. PICK h \in 1 .. Height(b) : c = BlockAt(b, h)
  BY <1>1, AncestryFact
<1>3. b \in Block
  BY <1>2, NoBlockFact
<1> QED
  BY <1>2, <1>3, BlockAtBlock

\* The last block of a chain is in it; no block has an empty chain.
LEMMA TopOfChain ==
    ASSUME NEW b \in Block
    PROVE  b \in Ancestry(b)
<1>1. b \in Seq(Mark) /\ Height(b) \in 1 .. MaxHeight /\ MaxHeight \in Nat
  BY BlockFact, SizesAssumption
<1> QED
  BY <1>1, AncestryFact, BlockAtTop

\* A chain cut at a height is a chain.
LEMMA CutChain ==
    ASSUME NEW b \in Block \cup {NoBlock}, NEW h \in 0 .. Height(b)
    PROVE  /\ BlockAt(b, h) \in Ancestry(b) \cup {NoBlock}
           /\ BlockAt(b, h) \in Block \cup {NoBlock}
           /\ Height(BlockAt(b, h)) = h
           /\ {c \in Ancestry(b) : Height(c) <= h} = Ancestry(BlockAt(b, h))
<1>1. b \in Seq(Mark) /\ Height(b) \in Nat /\ Len(b) = Height(b)
  BY HeightFact
<1>2. {c \in Ancestry(b) : Height(c) <= h} = Ancestry(BlockAt(b, h))
  BY <1>1, AncestryUpTo
<1>3. Height(BlockAt(b, h)) = h
  BY <1>1, BlockAtType
<1>4. CASE h = 0
  BY <1>1, <1>2, <1>3, <1>4, BlockAtZero
<1>5. CASE h # 0
  <2>1. BlockAt(b, h) \in Ancestry(b)
    BY <1>1, <1>5, AncestryFact
  <2> QED
    BY <1>2, <1>3, <2>1, MemberOfChain
<1> QED
  BY <1>4, <1>5

\* The highest block of a chain is its last.
LEMMA HighestOfChain ==
    ASSUME NEW S \in SUBSET Block, OneChain(S), NEW b \in Highest(S)
    PROVE  b \in Block /\ S = Ancestry(b)
<1>1. b \in S /\ b \in Block /\ \A c \in S : Height(c) <= Height(b)
  BY DEF Highest
<1>2. PICK t \in S \cup {NoBlock} : S = Ancestry(t)
  BY DEF OneChain
<1>3. t \in Block
  BY <1>1, <1>2, MemberOfChain
<1>4. Height(b) \in 1 .. Height(t) /\ b = BlockAt(t, Height(b))
  BY <1>1, <1>2, <1>3, MemberOfChain
<1>5. Height(t) <= Height(b)
  BY <1>1, <1>2, <1>3, TopOfChain
<1>6. t \in Seq(Mark) /\ Height(t) \in Nat
  BY <1>3, BlockFact
<1>7. b = t
  BY <1>4, <1>5, <1>6, BlockAtTop
<1> QED
  BY <1>1, <1>2, <1>7

\* One chain is anchored at its last block.
LEMMA OneChainAnchored ==
    ASSUME NEW S \in SUBSET Block, OneChain(S)
    PROVE  Anchored(S, ReindexSize)
<1>1. PICK b \in S \cup {NoBlock} : S = Ancestry(b)
  BY DEF OneChain
<1>2. b \in Block \cup {NoBlock}
  OBVIOUS
<1>3. \A c \in S : Height(c) \in 1 .. Height(b)
  BY <1>1, <1>2, MemberOfChain
<1>4. Height(b) \in Nat /\ ReindexSize \in Nat
  BY <1>2, BlockFact, NoBlockFact, SizesAssumption
<1> QED
  BY <1>1, <1>3, <1>4 DEF Anchored, Clean

\* An index about to be rewound is anchored, and stays so however much of the
\* rewind is done.
LEMMA RewindReadyAnchored ==
    ASSUME NEW S \in SUBSET Block, NEW to \in Nat, RewindReady(S, to),
           NEW D \in SUBSET {c \in S : Height(c) > to}
    PROVE  Anchored(S \ D, ReindexSize)
<1>1. PICK b \in S \cup {NoBlock} :
        /\ {c \in S : Height(c) <= to} = Ancestry(b)
        /\ \A c \in S : Height(c) <= Height(b) + ReindexSize
  BY DEF RewindReady
<1>2. \A c \in S \cup {NoBlock} : Height(c) \in Nat
  BY BlockFact, NoBlockFact
<1>3. Height(b) <= to
  <2>1. CASE b = NoBlock
    BY <2>1, NoBlockFact
  <2>2. CASE b # NoBlock
    BY <1>1, <2>2, TopOfChain
  <2> QED
    BY <2>1, <2>2
<1>4. b \in (S \ D) \cup {NoBlock}
  BY <1>2, <1>3
<1>5. \A c \in Ancestry(b) : Height(c) <= Height(b)
  BY <1>2, MemberOfChain
<1>6. {c \in S \ D : Height(c) <= Height(b)} = Ancestry(b)
  BY <1>1, <1>2, <1>3, <1>5
<1> QED
  BY <1>1, <1>4, <1>6 DEF Anchored, Clean

\* What is left of an index about to be rewound, however much of the rewind is
\* done, is as ready for it as before.
LEMMA RewindReadyStays ==
    ASSUME NEW S \in SUBSET Block, NEW to \in Nat, RewindKeepsChain(S, to),
           NEW D \in SUBSET {c \in S : Height(c) > to}
    PROVE  /\ RewindKeepsChain(S \ D, to)
           /\ RewindReady(S, to) => RewindReady(S \ D, to)
<1>1. \A c \in S : Height(c) \in Nat
  BY BlockFact
<1>2. {c \in S \ D : Height(c) <= to} = {c \in S : Height(c) <= to}
  BY <1>1
<1>3. ASSUME NEW b \in S \cup {NoBlock}, {c \in S : Height(c) <= to} = Ancestry(b)
      PROVE  b \in (S \ D) \cup {NoBlock}
  <2>1. CASE b = NoBlock
    BY <2>1
  <2>2. CASE b # NoBlock
    BY <1>2, <1>3, <2>2, TopOfChain
  <2> QED
    BY <2>1, <2>2
<1>4. RewindKeepsChain(S \ D, to)
  BY <1>2, <1>3 DEF RewindKeepsChain
<1>5. RewindReady(S, to) => RewindReady(S \ D, to)
  BY <1>2, <1>3 DEF RewindReady
<1> QED
  BY <1>4, <1>5

\* A rewind leaves one chain.
LEMMA RewindLeavesOneChain ==
    ASSUME NEW S \in SUBSET Block, NEW to \in Nat, RewindKeepsChain(S, to)
    PROVE  OneChain(S \ {c \in S : Height(c) > to})
<1>1. PICK b \in S \cup {NoBlock} : {c \in S : Height(c) <= to} = Ancestry(b)
  BY DEF RewindKeepsChain
<1>2. \A c \in S : Height(c) \in Nat
  BY BlockFact
<1>3. S \ {c \in S : Height(c) > to} = Ancestry(b)
  BY <1>1, <1>2
<1>4. b \in Ancestry(b) \cup {NoBlock}
  BY TopOfChain
<1> QED
  BY <1>3, <1>4 DEF OneChain

\* An index whose highest blocks are at the height of the rewind is one chain.
LEMMA RewoundIsOneChain ==
    ASSUME NEW S \in SUBSET Block, NEW to \in Nat, RewindKeepsChain(S, to),
           NEW b \in Highest(S), Height(b) = to
    PROVE  OneChain(S)
<1>1. \A c \in S : Height(c) \in Nat /\ Height(c) <= to
  BY BlockFact DEF Highest
<1>2. S \ {c \in S : Height(c) > to} = S
  BY <1>1
<1> QED
  BY <1>2, RewindLeavesOneChain

\* Whatever the height, a rewind keeps one chain of one chain.
LEMMA RewindOfOneChain ==
    ASSUME NEW S \in SUBSET Block, OneChain(S), NEW to \in Nat
    PROVE  RewindKeepsChain(S, to)
<1>1. PICK t \in S \cup {NoBlock} : S = Ancestry(t)
  BY DEF OneChain
<1>2. t \in Block \cup {NoBlock} /\ Height(t) \in Nat
  BY <1>1, HeightFact
<1>3. \A c \in S : Height(c) \in 1 .. Height(t)
  BY <1>1, <1>2, MemberOfChain
<1>4. CASE to >= Height(t)
  <2>1. {c \in S : Height(c) <= to} = S
    BY <1>2, <1>3, <1>4
  <2> QED
    BY <1>1, <2>1 DEF RewindKeepsChain
<1>5. CASE to < Height(t)
  <2>1. to \in 0 .. Height(t)
    BY <1>2, <1>5
  <2>2. /\ BlockAt(t, to) \in S \cup {NoBlock}
        /\ Ancestry(BlockAt(t, to)) = {c \in S : Height(c) <= to}
    BY <1>1, <1>2, <2>1, CutChain
  <2> QED
    BY <2>2 DEF RewindKeepsChain
<1> QED
  BY <1>2, <1>4, <1>5

\* The rewind at start goes back from the top of an anchored index to, or
\* below, its anchor.
LEMMA AnchoredRewindReady ==
    ASSUME NEW S \in SUBSET Block, Anchored(S, ReindexSize),
           NEW b \in Highest(S), NEW to,
           to = IF Height(b) >= ReindexSize THEN Height(b) - ReindexSize ELSE 0
    PROVE  RewindReady(S, to)
<1>1. b \in S /\ \A c \in S : Height(c) <= Height(b)
  BY DEF Highest
<1>2. PICK a \in S \cup {NoBlock} :
        /\ {c \in S : Height(c) <= Height(a)} = Ancestry(a)
        /\ \A c \in S : Height(c) <= Height(a) + ReindexSize
  BY DEF Anchored, Clean
<1>3. \A c \in S \cup {NoBlock} : Height(c) \in Nat
  BY BlockFact, NoBlockFact
<1>4. ReindexSize \in Nat
  BY SizesAssumption
<1>5. to \in 0 .. Height(a)
  BY <1>1, <1>2, <1>3, <1>4
<1> DEFINE w == BlockAt(a, to)
<1>6. /\ w \in Ancestry(a) \cup {NoBlock}
      /\ Height(w) = to
      /\ {c \in Ancestry(a) : Height(c) <= to} = Ancestry(w)
  BY <1>5, CutChain
<1>7. {c \in S : Height(c) <= to} = {c \in Ancestry(a) : Height(c) <= to}
  BY <1>2, <1>3, <1>5
<1>8. \A c \in S : Height(c) <= Height(w) + ReindexSize
  BY <1>1, <1>3, <1>4, <1>6
<1>9. w \in S \cup {NoBlock}
  BY <1>2, <1>6
<1> QED
  BY <1>6, <1>7, <1>8, <1>9 DEF RewindReady

\* uint64 subtraction of less than a word.
LEMMA WordDifference ==
    ASSUME NEW a \in Nat, NEW r \in Nat, NEW w \in Nat, a < w, r < w
    PROVE  (a - r) % w = IF a >= r THEN a - r ELSE a - r + w
<1>1. CASE a >= r
  <2>1. a - r \in 0 .. w - 1
    BY <1>1
  <2> QED
    BY <1>1, <2>1
<1>2. CASE a < r
  <2>1. a - r + w \in 0 .. w - 1
    BY <1>2
  <2>2. a - r = w * (-1) + (a - r + w)
    BY <1>2
  <2> QED
    BY <1>2, <2>1, <2>2
<1> QED
  BY <1>1, <1>2

\* The rewind of an orphan goes back from the top of a chain; when the height
\* underflows it is above every block, and nothing is deleted.
LEMMA OrphanRewindReady ==
    ASSUME NEW S \in SUBSET Block, OneChain(S), NEW b \in Highest(S), NEW to,
           to = (Height(b) - ReindexSize) % WordSize
    PROVE  RewindReady(S, to)
<1>1. b \in S /\ b \in Block /\ S = Ancestry(b)
  BY HighestOfChain DEF Highest
<1>2. /\ Height(b) \in 1 .. MaxHeight /\ MaxHeight \in Nat
      /\ ReindexSize \in Nat /\ ReindexSize < WordSize
      /\ WordSize \in Nat /\ MaxHeight < WordSize
  BY <1>1, BlockFact, SizesAssumption
<1>3. to = IF Height(b) >= ReindexSize
           THEN Height(b) - ReindexSize ELSE Height(b) - ReindexSize + WordSize
  BY <1>2, WordDifference
<1>4. CASE Height(b) >= ReindexSize
  BY <1>3, <1>4, OneChainAnchored, AnchoredRewindReady
<1>5. CASE Height(b) < ReindexSize
  <2>1. to \in Nat /\ to > Height(b)
    BY <1>2, <1>3, <1>5
  <2>2. \A c \in S : Height(c) \in 1 .. Height(b)
    BY <1>1, MemberOfChain
  <2>3. {c \in S : Height(c) <= to} = Ancestry(b)
    BY <1>1, <1>2, <2>1, <2>2
  <2>4. \A c \in S : Height(c) <= Height(b) + ReindexSize
    BY <1>2, <2>2
  <2> QED
    BY <1>1, <2>3, <2>4 DEF RewindReady
<1> QED
  BY <1>2, <1>4, <1>5
-----------------------------------------------------------------------------
(* Facts about the backlog *)

\* Among as many heights in a row as a batch has there is one at which a
\* persist is due.
LEMMA MultipleInBatch ==
    ASSUME NEW k \in Nat
    PROVE  \E h \in k + 1 .. k + BulkIndexSize : h % BulkIndexSize = 0
<1> DEFINE B == BulkIndexSize
           x == k + B
           r == x % B
           q == x \div B
<1>1. B \in Nat \ {0} /\ x \in Nat
  BY SizesAssumption
<1>2. r \in 0 .. B - 1 /\ q \in Int /\ x = B * q + r
  BY <1>1
<1>3. x - r \in k + 1 .. k + B
  BY <1>1, <1>2
<1>4. (B * q) % B = 0
  <2> DEFINE m == (B * q) % B
             d == q - (B * q) \div B
  <2>1. m \in 0 .. B - 1 /\ d \in Int /\ m = B * d
    BY <1>1, <1>2
  <2>2. d >= 1 => B * d >= B
    BY <1>1, <2>1
  <2>3. d <= -1 => B * d <= -B
    BY <1>1, <2>1
  <2>4. d = 0
    BY <1>1, <2>1, <2>2, <2>3
  <2> QED
    BY <1>1, <2>1, <2>4
<1>5. x - r = B * q
  BY <1>1, <1>2
<1>6. (x - r) % B = 0
  BY <1>4, <1>5
<1> QED
  BY <1>3, <1>6

\* A backlog is no longer than a rewind.
LEMMA BacklogBound ==
    ASSUME SafeSetting, TypeOK, phase \in {"batch", "single"},
           NEW k \in 0 .. Height(last), \A h \in k + 1 .. Whole : ~ Due(h)
    PROVE  Height(last) <= k + ReindexSize
<1>1. Height(last) \in Nat /\ k \in Nat
  BY HeightFact DEF TypeOK
<1>2. /\ ReindexSize \in Nat \ {0} /\ BulkIndexSize \in Nat \ {0}
      /\ BulkIndexSize <= ReindexSize
  BY SizesAssumption DEF SafeSetting
<1>3. Whole \in {Height(last) - 1, Height(last)}
  BY DEF Whole
<1>4. PICK h \in k + 1 .. k + BulkIndexSize : h % BulkIndexSize = 0
  BY <1>1, MultipleInBatch
<1>5. Due(h)
  BY <1>4 DEF Due
<1>6. ~ h \in k + 1 .. Whole
  BY <1>5
<1>7. Whole < k + BulkIndexSize
  BY <1>1, <1>2, <1>3, <1>4, <1>6
<1> QED
  BY <1>1, <1>2, <1>3, <1>7

\* Any part of the backlog may reach the index when the process is killed.
LEMMA BacklogAnchored ==
    ASSUME SafeSetting, TypeOK, phase \in {"batch", "single"}, Backlog,
           NEW T \in SUBSET Requested(pending, "index")
    PROVE  Anchored(store \cup T, ReindexSize)
<1>1. PICK k \in 0 .. Height(last) :
        /\ store = Ancestry(BlockAt(last, k))
        /\ Requested(pending, "index")
             = {BlockAt(last, h) : h \in k + 1 .. Height(last)}
        /\ \A h \in k + 1 .. Whole : ~ Due(h)
  BY DEF Backlog
<1>2. last \in Block \cup {NoBlock} /\ Height(last) \in Nat
  BY HeightFact DEF TypeOK
<1> DEFINE w == BlockAt(last, k)
<1>3. w \in Ancestry(last) \cup {NoBlock} /\ w \in Block \cup {NoBlock} /\ Height(w) = k
  BY <1>2, CutChain
<1>4. w \in store \cup {NoBlock}
  BY <1>1, <1>3, TopOfChain
<1>5. \A c \in T : Height(c) \in k + 1 .. Height(last)
  BY <1>1, <1>2, CutChain
<1>6. \A c \in store : Height(c) \in 1 .. k
  BY <1>1, <1>3, MemberOfChain
<1>7. {c \in store \cup T : Height(c) <= k} = Ancestry(w)
  BY <1>1, <1>2, <1>5, <1>6
<1>8. Height(last) <= k + ReindexSize
  BY <1>1, BacklogBound
<1>9. \A c \in store \cup T : Height(c) <= k + ReindexSize
  BY <1>2, <1>5, <1>6, <1>8, SizesAssumption
<1> QED
  BY <1>3, <1>4, <1>7, <1>9 DEF Anchored, Clean

\* Once the backlog is persisted the index is the chain of the last block.
LEMMA BacklogPersisted ==
    ASSUME TypeOK, Backlog
    PROVE  store \cup Requested(pending, "index") = Ancestry(last)
<1>1. PICK k \in 0 .. Height(last) :
        /\ store = Ancestry(BlockAt(last, k))
        /\ Requested(pending, "index")
             = {BlockAt(last, h) : h \in k + 1 .. Height(last)}
  BY DEF Backlog
<1>2. /\ last \in Block \cup {NoBlock} /\ Height(last) \in Nat
      /\ last \in Seq(Mark) /\ Len(last) = Height(last)
  BY HeightFact DEF TypeOK
<1>3. Ancestry(BlockAt(last, k)) = {c \in Ancestry(last) : Height(c) <= k}
  BY <1>2, CutChain
<1>4. \A h \in 1 .. Height(last) : Height(BlockAt(last, h)) = h
  BY <1>2, CutChain
<1>5. \A c : c \in Ancestry(last) <=> \E h \in 1 .. Height(last) : c = BlockAt(last, h)
  BY <1>2, AncestryFact
<1>6. ASSUME NEW c
      PROVE  c \in store \cup Requested(pending, "index") <=> c \in Ancestry(last)
  BY <1>1, <1>2, <1>3, <1>4, <1>5
<1> QED
  BY <1>6

\* A chain that ends with the last block indexed is a backlog of nothing.
LEMMA EmptyBacklog ==
    ASSUME NEW b \in Block \cup {NoBlock}, NEW S, S = Ancestry(b)
    PROVE  /\ Height(b) \in 0 .. Height(b)
           /\ S = Ancestry(BlockAt(b, Height(b)))
           /\ {} = {BlockAt(b, h) : h \in Height(b) + 1 .. Height(b)}
<1>1. Height(b) \in Nat /\ b \in Seq(Mark)
  BY HeightFact
<1>2. BlockAt(b, Height(b)) = b
  BY <1>1, BlockAtTop
<1> QED
  BY <1>1, <1>2

\* With nothing pending, an index that is the chain of the last block is a
\* backlog of nothing.
LEMMA NothingPending ==
    ASSUME last' \in Block \cup {NoBlock}, store' = Ancestry(last'),
           pending' = {}, Whole' = Height(last')
    PROVE  Backlog'
<1> DEFINE b == last'
           k == Height(b)
<1>1. k \in Nat /\ b \in Seq(Mark)
  BY HeightFact
<1>2. BlockAt(b, k) = b
  BY <1>1, BlockAtTop
<1>3. Requested(pending', "index") = {} /\ Requested(pending', "update") = {}
  BY DEF Requested
<1>4. k + 1 .. k = {}
  BY <1>1
<1>5. /\ store' = Ancestry(BlockAt(b, k))
      /\ Requested(pending', "index") = {BlockAt(b, h) : h \in k + 1 .. k}
      /\ Requested(pending', "update") \subseteq store'
      /\ \A h \in k + 1 .. Whole' : ~ Due(h)'
  BY <1>2, <1>3, <1>4
<1> QED
  BY <1>1, <1>5 DEF Backlog

\* A kill may leave the index as it is.
LEMMA StoreLeft == store \in Leftovers
<1>1. store \ {} = store /\ store \cup {} = store
  OBVIOUS
<1> QED
  BY <1>1 DEF Leftovers

\* Whatever a kill leaves behind, the index is anchored, unless a late search
\* has misled the rewind under way.
LEMMA LeftoversAnchored ==
    ASSUME SafeSetting, TypeInv, ControlInv, ChainInv, late # "rewind", NEW S \in Leftovers
    PROVE  Anchored(S, ReindexSize)
<1>1. store \in SUBSET Block /\ last \in Block \cup {NoBlock} /\ rewindTo \in Nat
  BY SizesAssumption DEF TypeInv, TypeOK
<1>2. CASE pc \in {"down", "boot"}
  BY <1>2 DEF ChainInv, Leftovers
<1>3. CASE pc \in {"rewind", "check"}
  <2>1. S = store \ {} /\ RewindReady(store, rewindTo)
    BY <1>3 DEF ChainInv, Leftovers
  <2> QED
    BY <1>1, <2>1, RewindReadyAnchored
<1>4. CASE pc = "delete"
  <2>1. PICK D \in SUBSET Doomed : S = store \ D
    BY <1>4 DEF Leftovers
  <2>2. RewindReady(store, rewindTo)
    BY <1>4 DEF ChainInv
  <2>3. D \cap store \in SUBSET {c \in store : Height(c) > rewindTo}
    BY DEF Doomed
  <2>4. S = store \ (D \cap store)
    BY <2>1
  <2> QED
    BY <1>1, <2>2, <2>3, <2>4, RewindReadyAnchored
<1>5. CASE pc \in {"reload", "orphan"}
  BY <1>1, <1>5, OneChainAnchored DEF ChainInv, Leftovers
<1>6. CASE pc \in {"bulk", "verify", "idle"}
  <2>1. S = store /\ store = Ancestry(last)
    BY <1>6 DEF ChainInv, Leftovers
  <2>2. last \in Ancestry(last) \cup {NoBlock}
    BY <1>1, TopOfChain
  <2>3. OneChain(store)
    BY <2>1, <2>2 DEF OneChain
  <2> QED
    BY <1>1, <2>1, <2>3, OneChainAnchored
<1>7. CASE pc \in {"fetch", "build", "persist", "flush"}
  <2>1. Backlog /\ phase \in {"batch", "single"} /\ TypeOK
    BY <1>7 DEF ChainInv, ControlInv, PhaseOK, TypeInv
  <2>2. PICK T \in SUBSET Requested(pending, "index") : S = store \cup T
    <3>1. CASE pc = "fetch"
      <4>1. S = store \cup {}
        BY <3>1 DEF Leftovers
      <4> QED
        BY <4>1
    <3>2. CASE pc # "fetch"
      BY <1>7, <3>2 DEF Leftovers
    <3> QED
      BY <3>1, <3>2
  <2> QED
    BY <2>1, <2>2, BacklogAnchored
<1> QED
  BY <1>2, <1>3, <1>4, <1>5, <1>6, <1>7 DEF TypeInv, TypeOK, Points
-----------------------------------------------------------------------------
(* The control invariant is inductive *)

\* The search finds nothing only in an empty view.
LEMMA NothingFound ==
    ASSUME TypeOK
    PROVE  /\ NoBlock \in BestBlocks => view = {}
           /\ \A b \in BestBlocks : b # NoBlock => b \in Highest(view)
<1>1. \A b \in Highest(view) : b # NoBlock
  BY BlockFact DEF TypeOK, Highest
<1> QED
  BY <1>1 DEF BestBlocks

\* GetLastBlockIndexed answers with the cached block, or with nothing when
\* nothing is indexed.
LEMMA LastFound ==
    ASSUME TypeOK, EmptyOK, pc \in {"bulk", "build", "idle"}
    PROVE  LastBlocks = {last}
<1>1. CASE last = NoBlock
  <2>1. view = {}
    BY <1>1 DEF EmptyOK
  <2> QED
    BY <1>1, <2>1 DEF LastBlocks, BestBlocks
<1>2. CASE last # NoBlock
  BY <1>2 DEF LastBlocks
<1> QED
  BY <1>1, <1>2

\* A process that has died satisfies the control invariant.
LEMMA DieControl ==
    ASSUME Die
    PROVE  ControlInv'
BY DEF Die, ControlInv, PhaseOK, PendingOK, HeightOK, EmptyOK, BestOK, ViewOK, LateOK

\* The control invariant holds when the process has never run.
LEMMA ControlInit == Init => ControlInv
BY DEF Init, ControlInv, PhaseOK, PendingOK, HeightOK, EmptyOK, BestOK, ViewOK, LateOK

\* Every step keeps the control invariant: which phase reaches which point of
\* the process, and what it holds there.
LEMMA ControlNext ==
    SafeSetting /\ TypeInv /\ ControlInv /\ [Next]_vars => ControlInv'
<1> SUFFICES ASSUME SafeSetting, TypeInv, ControlInv, [Next]_vars
             PROVE  ControlInv'
  OBVIOUS
<1>a. TypeOK /\ ArgsOK /\ EmptyOK
  BY DEF TypeInv, ControlInv
<1>b. ASSUME NEW site \in {"start", "reload", "check"}, CanSearch(site) PROVE view = store
  BY <1>b DEF CanSearch, SafeSetting
<1>c. NoBlock \in BestBlocks => view = {}
  BY <1>a, NothingFound
<1>d. \A b \in Block \cup {NoBlock} : Height(b) \in Nat
  BY HeightFact
<1>e. \A b \in Block : Height(b) >= 1
  BY BlockFact, SizesAssumption
<1>f. last \in Block \cup {NoBlock} /\ Height(NoBlock) = 0
  BY <1>a, NoBlockFact DEF TypeOK
<1> USE DEF ControlInv, PhaseOK, PendingOK, HeightOK, EmptyOK, BestOK, ViewOK, LateOK
<1>1. CASE Extend
  BY <1>1 DEF Extend, storeVars, argVars
<1>2. CASE Reorg
  BY <1>2 DEF Reorg, storeVars, argVars
<1>3. CASE Crash
  BY <1>3, DieControl DEF Crash
<1>4. CASE Reindex
  BY <1>4 DEF Reindex, procVars, argVars
<1>5. CASE Refresh
  BY <1>5 DEF Refresh, procVars, argVars
<1>6. CASE Start
  BY <1>6 DEF Start, storeVars, argVars
<1>7. CASE RewindAtStart
  <2>1. PICK b \in BestBlocks :
          IF b = NoBlock
          THEN BulkOrSubscribe /\ UNCHANGED rewindTo
          ELSE pc' = "rewind" /\ rewindTo' = TargetHeight(b) /\ UNCHANGED phase
    BY <1>7 DEF RewindAtStart
  <2>2. view = store
    BY <1>7, <1>b DEF RewindAtStart
  <2>3. CASE b = NoBlock
    <3>1. view = {} /\ store = {} /\ pending = {}
      BY <1>7, <1>c, <2>2, <2>3 DEF RewindAtStart
    <3> QED
      BY <1>7, <2>1, <2>3, <3>1 DEF RewindAtStart, BulkOrSubscribe, storeVars
  <2>4. CASE b # NoBlock
    BY <1>7, <2>1, <2>4 DEF RewindAtStart, storeVars
  <2> QED
    BY <2>3, <2>4
<1>8. CASE ReloadBestBlock
  <2>1. PICK b \in BestBlocks :
          IF b = NoBlock
          THEN Fatal
          ELSE /\ last' = b
               /\ BulkOrSubscribe
               /\ UNCHANGED <<store, pending, argVars, message, late>>
    BY <1>8 DEF ReloadBestBlock
  <2>2. CASE b = NoBlock
    BY <2>1, <2>2, DieControl DEF Fatal
  <2>3. CASE b # NoBlock
    <3>1. view = store
      BY <1>8, <1>b DEF ReloadBestBlock
    <3> QED
      BY <1>8, <2>1, <2>3, <3>1 DEF ReloadBestBlock, BulkOrSubscribe, argVars
  <2> QED
    BY <2>2, <2>3
<1>9. CASE RewindAddresses
  BY <1>9 DEF RewindAddresses, storeVars, argVars
<1>10. CASE RewindRefused
  BY <1>10, DieControl DEF RewindRefused, Fatal
<1>11. CASE DeleteBlocks
  BY <1>11 DEF DeleteBlocks, argVars
<1>12. CASE CheckBlock
  <2>1. PICK b \in BestBlocks :
          LET first == IF best = NoBlock THEN b ELSE best
          IN  CASE b = NoBlock -> Fatal
                [] b # NoBlock /\ Height(b) # rewindTo ->
                     /\ best' = first
                     /\ UNCHANGED <<store, pending, last, pc, phase, height,
                                    target, rewindTo, block, message, late>>
                [] b # NoBlock /\ Height(b) = rewindTo ->
                     /\ last' = first
                     /\ best' = NoBlock
                     /\ rewindTo' = 0
                     /\ late' = IF late = "rewind" THEN "no" ELSE late
                     /\ IF phase = "boot"
                        THEN pc' = "reload" /\ UNCHANGED height
                        ELSE IndexNext(first)
                     /\ UNCHANGED <<store, pending, phase, target, block,
                                    message>>
    BY <1>12 DEF CheckBlock, IsBestBlockAtHeight
  <2>2. CASE b = NoBlock
    BY <2>1, <2>2, DieControl DEF Fatal
  <2>3. CASE b # NoBlock /\ Height(b) # rewindTo
    <3>1. view = store /\ pc = "check"
      BY <1>12, <1>b DEF CheckBlock, IsBestBlockAtHeight
    <3>2. b \in Highest(store)
      BY <1>a, <2>3, <3>1, NothingFound
    <3>3. best' \in Highest(store)
      BY <2>1, <2>3, <3>2
    <3>4. UNCHANGED <<store, pending, last, pc, phase, height, target, late>>
      BY <2>1, <2>3
    <3>5. view' = view
      BY <1>12 DEF CheckBlock, IsBestBlockAtHeight
    <3> QED
      BY <3>1, <3>3, <3>4, <3>5
  <2>4. CASE b # NoBlock /\ Height(b) = rewindTo
    <3> DEFINE first == IF best = NoBlock THEN b ELSE best
    <3>1. first # NoBlock
      BY <2>4
    <3>2. /\ last' = first /\ best' = NoBlock
          /\ IF phase = "boot"
             THEN pc' = "reload" /\ UNCHANGED height
             ELSE height' = Height(first) + 1 /\ pc' = "fetch"
          /\ late' = IF late = "rewind" THEN "no" ELSE late
          /\ UNCHANGED <<store, pending, phase, target, block, message>>
      BY <2>1, <2>4 DEF IndexNext
    <3>3. phase \in {"boot", "single"} /\ pending = {} /\ pc = "check"
      BY <1>12 DEF CheckBlock, IsBestBlockAtHeight
    <3> QED
      BY <3>1, <3>2, <3>3
  <2> QED
    BY <2>2, <2>3, <2>4
<1>13. CASE StartBulk
  <2>1. PICK b \in LastBlocks :
          /\ last' = b
          /\ IF b # NoBlock /\ Height(b) + 1 = target'
             THEN pc' = "flush" /\ UNCHANGED height
             ELSE IndexNext(b)
    BY <1>13 DEF StartBulk
  <2>2. b = last
    BY <1>13, <1>a, <2>1, LastFound DEF StartBulk
  <2> QED
    BY <1>13, <2>1, <2>2 DEF StartBulk, IndexNext, storeVars
<1>14. CASE SingleIndex
  <2>1. PICK b \in LastBlocks : last' = b /\ IndexNext(b)
    BY <1>14 DEF SingleIndex
  <2>2. b = last
    BY <1>14, <1>a, <2>1, LastFound DEF SingleIndex
  <2> QED
    BY <1>14, <2>1, <2>2 DEF SingleIndex, IndexNext, storeVars
<1>15. CASE HeightOutOfRange
  <2>1. CASE phase = "single"
    BY <1>15, <2>1 DEF HeightOutOfRange
  <2>2. CASE phase # "single"
    BY <1>15, <2>2, DieControl DEF HeightOutOfRange, Fatal
  <2> QED
    BY <2>1, <2>2
<1>16. CASE FetchBlock
  <2>1. height \in 1 .. Height(chain)
    BY <1>16, <1>a, HeightFact DEF FetchBlock, TypeOK, ArgsOK
  <2>2. Height(BlockAt(chain, height)) = height
    BY <1>a, <2>1, BlockAtBlock DEF TypeOK
  <2>3. IF phase = "single" /\ IsOrphan(BlockAt(chain, height), last)
        THEN last' = NoBlock /\ pc' = "orphan" /\ UNCHANGED block
        ELSE block' = BlockAt(chain, height) /\ pc' = "build" /\ UNCHANGED last
    BY <1>16 DEF FetchBlock
  <2> QED
    BY <1>16, <2>2, <2>3 DEF FetchBlock, storeVars
<1>17. CASE RewindOrphan
  <2>1. PICK b \in BestBlocks :
          IF b = NoBlock
          THEN Fatal
          ELSE /\ last' = b
               /\ rewindTo' = (Height(b) - ReindexSize) % WordSize
               /\ pc' = "rewind"
               /\ height' = 0
               /\ late' = IF late = "no" /\ view # store THEN "rewind" ELSE late
               /\ UNCHANGED <<store, pending, phase, target, best, block,
                              message>>
    BY <1>17 DEF RewindOrphan
  <2>2. CASE b = NoBlock
    BY <2>1, <2>2, DieControl DEF Fatal
  <2>3. CASE b # NoBlock
    BY <1>17, <2>1, <2>3 DEF RewindOrphan
  <2> QED
    BY <2>2, <2>3
<1>18. CASE PersistForPreviousTx
  BY <1>18 DEF PersistForPreviousTx, Persisted, argVars
<1>19. CASE BuildBlock
  <2>1. \/ Die
        \/ /\ last' = block /\ pc' = "persist"
           /\ UNCHANGED <<store, phase, height, target, best, late>>
    BY <1>19 DEF BuildBlock, Fatal
  <2>2. CASE Die
    BY <2>2, DieControl
  <2>3. CASE /\ last' = block /\ pc' = "persist"
             /\ UNCHANGED <<store, phase, height, target, best, late>>
    <3>1. pc = "build" /\ view' = view
      BY <1>19 DEF BuildBlock
    <3> QED
      BY <2>3, <3>1
  <2> QED
    BY <2>1, <2>2, <2>3
<1>20. CASE PersistBlock
  <2>1. last # NoBlock
    BY <1>20, <1>a, <1>f DEF PersistBlock, ArgsOK
  <2>2. CASE PersistDue /\ PersistFails
    BY <1>20, <2>2, DieControl DEF PersistBlock
  <2>3. CASE ~ (PersistDue /\ PersistFails)
    <3>1. NextHeight /\ UNCHANGED <<view, last, phase, target, best, late>>
      BY <1>20, <2>3 DEF PersistBlock
    <3>5. store \subseteq store'
      BY <1>20, <2>3 DEF PersistBlock, Persisted
    <3>2. PersistDue => pending' = {}
      BY <1>20, <2>3 DEF PersistBlock, Persisted
    <3>3. pc = "persist" /\ (phase = "single" => PersistDue)
      BY <1>20 DEF PersistBlock, PersistDue
    <3>4. height >= 1
      BY <1>a, <3>3 DEF ArgsOK
    <3> QED
      BY <2>1, <3>1, <3>2, <3>3, <3>4, <3>5 DEF NextHeight
  <2> QED
    BY <2>2, <2>3
<1>21. CASE FlushBulk
  <2>1. Requested({}, "index") = {}
    BY DEF Requested
  <2> QED
    BY <1>21, <2>1 DEF FlushBulk, Persisted, argVars
<1>22. CASE FinishBulk
  <2>1. CASE view = {}
    BY <1>22, <2>1, DieControl DEF FinishBulk, Fatal
  <2>2. CASE view # {}
    BY <1>22, <2>2 DEF FinishBulk
  <2> QED
    BY <2>1, <2>2
<1>23. CASE UNCHANGED vars
  BY <1>23 DEF vars, storeVars, procVars, argVars
<1> QED
  BY <1>1, <1>2, <1>3, <1>4, <1>5, <1>6, <1>7, <1>8, <1>9, <1>10, <1>11, <1>12,
     <1>13, <1>14, <1>15, <1>16, <1>17, <1>18, <1>19, <1>20, <1>21, <1>22, <1>23
  DEF Next, Environment, Process
-----------------------------------------------------------------------------
(* The chain invariant is inductive *)

\* A process that dies leaves an anchored index.
LEMMA DieChain ==
    ASSUME Die, Anchored(store, ReindexSize)', store' \in SUBSET Block
    PROVE  ChainInv'
BY DEF Die, ChainInv

\* The requests of AddRequest: the block is requested, and no other changes.
LEMMA IndexRequested ==
    ASSUME NEW requests, NEW b, NEW added,
           added = AddRequest(requests, "index", b)
    PROVE  /\ Requested(added, "index") = Requested(requests, "index") \cup {b}
           /\ Requested(added, "update") \subseteq Requested(requests, "update")
<1> DEFINE kept  == {r \in requests : r.block # b}
           new   == [type |-> "index", block |-> b]
<1>1. added = kept \cup {new}
  BY DEF AddRequest
<1>2. new.type = "index" /\ new.block = b
  OBVIOUS
<1>3. ASSUME NEW c
      PROVE  c \in Requested(added, "index") <=> c \in Requested(requests, "index") \cup {b}
  BY <1>1, <1>2 DEF Requested
<1>4. ASSUME NEW c, c \in Requested(added, "update")
      PROVE  c \in Requested(requests, "update")
  BY <1>1, <1>2, <1>4 DEF Requested
<1> QED
  BY <1>3, <1>4

\* An update request in an empty cache is the only one.
LEMMA UpdateRequested ==
    ASSUME NEW b, NEW added, added = AddRequest({}, "update", b)
    PROVE  /\ Requested(added, "index") = {}
           /\ Requested(added, "update") = {b}
<1> DEFINE new == [type |-> "update", block |-> b]
<1>1. added = {new}
  BY DEF AddRequest
<1>2. new.type = "update" /\ new.block = b /\ "update" # "index"
  OBVIOUS
<1>3. {q \in added : q.type = "index"} = {} /\ {q \in added : q.type = "update"} = {new}
  BY <1>1, <1>2
<1> QED
  BY <1>2, <1>3 DEF Requested

\* A block on top of the last one extends the backlog by one.
LEMMA BacklogGrows ==
    ASSUME NEW l \in Block \cup {NoBlock}, NEW b \in Block,
           Height(b) = Height(l) + 1, Previous(b) = l
    PROVE  /\ \A h \in 0 .. Height(l) : BlockAt(b, h) = BlockAt(l, h)
           /\ BlockAt(b, Height(b)) = b
<1>1. /\ b \in Seq(Mark) /\ Len(b) = Height(b) /\ Height(b) \in Nat
      /\ l \in Seq(Mark) /\ Len(l) = Height(l) /\ Height(l) \in Nat
  BY HeightFact
<1>2. l = BlockAt(b, Height(l))
  BY <1>1 DEF Previous, BlockAt
<1> QED
  BY <1>1, <1>2, BlockAtBlockAt, BlockAtTop

\* An empty index is anchored.
LEMMA ChainInit == Init => ChainInv
<1> SUFFICES ASSUME Init PROVE ChainInv
  OBVIOUS
<1>1. Ancestry(NoBlock) = {}
  BY NoAncestry
<1>2. Anchored(store, ReindexSize)
  BY <1>1 DEF Init, Anchored, Clean
<1> QED
  BY <1>2 DEF Init, ChainInv

\* So is the index that a reindex run has made anew.
LEMMA ReindexChain == Reindex => ChainInv'
<1> SUFFICES ASSUME Reindex PROVE ChainInv'
  OBVIOUS
<1>1. Anchored(store', ReindexSize)
  BY NoAncestry DEF Reindex, Anchored, Clean
<1> QED
  BY <1>1 DEF Reindex, ChainInv, procVars

\* Every step keeps what is known of the blocks in the index at each point of
\* the process, until a bulk run tears the index or the process is killed in a
\* rewind that a late search has misled.
LEMMA ChainNext ==
    ASSUME SafeSetting, TypeInv, TypeInv', ControlInv, ControlInv',
           torn \/ ChainInv, late' # "killed", [Next]_vars
    PROVE  (torn \/ ChainInv)'
<1> SUFFICES ASSUME ~ torn' PROVE ChainInv'
  OBVIOUS
<1>a. TypeOK /\ ArgsOK /\ PhaseOK /\ PendingOK /\ HeightOK /\ EmptyOK /\ BestOK
  BY DEF TypeInv, ControlInv
<1>b. ASSUME NEW site \in {"start", "reload", "check"}, CanSearch(site) PROVE view = store
  BY <1>b DEF CanSearch, SafeSetting
<1>c. /\ NoBlock \in BestBlocks => view = {}
      /\ \A b \in BestBlocks : b # NoBlock => b \in Highest(view)
  BY <1>a, NothingFound
<1>d. store \in SUBSET Block /\ store' \in SUBSET Block
  BY DEF TypeInv, TypeOK
<1>e. rewindTo \in Nat /\ last \in Block \cup {NoBlock}
  BY SizesAssumption DEF TypeInv, TypeOK
<1>f. ASSUME ~ torn, Die, UNCHANGED store PROVE ChainInv'
  <2>1. Anchored(store, ReindexSize)
    BY <1>f, StoreLeft, LeftoversAnchored DEF Die
  <2> QED
    BY <1>d, <1>f, <2>1, DieChain
<1>1. CASE Extend
  BY <1>1 DEF Extend, ChainInv, Backlog, Whole, Due, storeVars, argVars
<1>2. CASE Reorg
  BY <1>2 DEF Reorg, ChainInv, Backlog, Whole, Due, storeVars, argVars
<1>3. CASE Crash
  <2>1. ~ torn /\ store' \in Leftovers /\ Die /\ late # "rewind"
    BY <1>3 DEF Crash, Die
  <2>2. Anchored(store', ReindexSize)
    BY <2>1, LeftoversAnchored
  <2> QED
    BY <1>d, <2>1, <2>2, DieChain
<1>4. CASE Reindex
  BY <1>4, ReindexChain
<1>5. CASE Refresh
  BY <1>5 DEF Refresh, ChainInv, Backlog, Whole, Due, procVars, argVars
<1>6. CASE Start
  BY <1>6 DEF Start, ChainInv, storeVars, argVars
<1>7. CASE RewindAtStart
  <2>1. PICK b \in BestBlocks :
          IF b = NoBlock
          THEN BulkOrSubscribe /\ UNCHANGED rewindTo
          ELSE pc' = "rewind" /\ rewindTo' = TargetHeight(b) /\ UNCHANGED phase
    BY <1>7 DEF RewindAtStart
  <2>2. view = store /\ pc = "boot" /\ ~ torn /\ UNCHANGED <<store, last>>
    BY <1>7, <1>b DEF RewindAtStart, storeVars
  <2>3. CASE b = NoBlock
    <3>1. store' = {} /\ last' = NoBlock
      BY <1>a, <1>c, <2>2, <2>3 DEF HeightOK
    <3>2. pc' \in {"bulk", "idle"}
      BY <2>1, <2>3 DEF BulkOrSubscribe
    <3> QED
      BY <3>1, <3>2, NoAncestry DEF ChainInv
  <2>4. CASE b # NoBlock
    <3>1. Anchored(store, ReindexSize) /\ b \in Highest(store)
      BY <1>c, <2>2, <2>4 DEF ChainInv
    <3>2. rewindTo' = IF Height(b) >= ReindexSize
                      THEN Height(b) - ReindexSize ELSE 0
      BY <2>1, <2>4 DEF TargetHeight, SafeSetting
    <3>3. RewindReady(store, rewindTo') /\ RewindKeepsChain(store, rewindTo')
      BY <1>d, <3>1, <3>2, AnchoredRewindReady DEF RewindReady, RewindKeepsChain
    <3> QED
      BY <2>1, <2>2, <2>4, <3>3 DEF ChainInv
  <2> QED
    BY <2>3, <2>4
<1>8. CASE ReloadBestBlock
  <2>1. PICK b \in BestBlocks :
          IF b = NoBlock
          THEN Fatal
          ELSE /\ last' = b
               /\ BulkOrSubscribe
               /\ UNCHANGED <<store, pending, argVars, message, late>>
    BY <1>8 DEF ReloadBestBlock
  <2>2. view = store /\ ~ torn /\ OneChain(store)
    BY <1>8, <1>b DEF ReloadBestBlock, ChainInv
  <2>3. CASE b = NoBlock
    BY <1>f, <2>1, <2>2, <2>3 DEF Fatal
  <2>4. CASE b # NoBlock
    <3>1. store = Ancestry(b)
      BY <1>c, <1>d, <2>2, <2>4, HighestOfChain
    <3>2. pc' \in {"bulk", "idle"} /\ last' = b /\ store' = store
      BY <2>1, <2>4 DEF BulkOrSubscribe
    <3> QED
      BY <3>1, <3>2 DEF ChainInv
  <2> QED
    BY <2>3, <2>4
<1>9. CASE RewindAddresses
  BY <1>9 DEF RewindAddresses, ChainInv, storeVars, argVars
<1>10. CASE RewindRefused
  BY <1>10, <1>f DEF RewindRefused, Fatal
<1>11. CASE DeleteBlocks
  <2>1. /\ ~ torn /\ RewindKeepsChain(store, rewindTo)
        /\ late = "rewind" \/ RewindReady(store, rewindTo)
    BY <1>11 DEF DeleteBlocks, ChainInv
  <2>2. store' = store \ (Doomed \cap store)
    BY <1>11 DEF DeleteBlocks
  <2>3. Doomed \cap store \in SUBSET {c \in store : Height(c) > rewindTo}
    BY DEF Doomed
  <2>4. /\ RewindKeepsChain(store', rewindTo)
        /\ RewindReady(store, rewindTo) => RewindReady(store', rewindTo)
    BY <1>d, <1>e, <2>1, <2>2, <2>3, RewindReadyStays
  <2>5. pc' = "check" /\ rewindTo' = rewindTo /\ late' = late
    BY <1>11 DEF DeleteBlocks, argVars
  <2> QED
    BY <2>1, <2>4, <2>5 DEF ChainInv
<1>12. CASE CheckBlock
  <2>1. PICK b \in BestBlocks :
          LET first == IF best = NoBlock THEN b ELSE best
          IN  CASE b = NoBlock -> Fatal
                [] b # NoBlock /\ Height(b) # rewindTo ->
                     /\ best' = first
                     /\ UNCHANGED <<store, pending, last, pc, phase, height,
                                    target, rewindTo, block, message, late>>
                [] b # NoBlock /\ Height(b) = rewindTo ->
                     /\ last' = first
                     /\ best' = NoBlock
                     /\ rewindTo' = 0
                     /\ late' = IF late = "rewind" THEN "no" ELSE late
                     /\ IF phase = "boot"
                        THEN pc' = "reload" /\ UNCHANGED height
                        ELSE IndexNext(first)
                     /\ UNCHANGED <<store, pending, phase, target, block,
                                    message>>
    BY <1>12 DEF CheckBlock, IsBestBlockAtHeight
  <2>2. /\ view = store /\ ~ torn /\ RewindKeepsChain(store, rewindTo)
        /\ late = "rewind" \/ RewindReady(store, rewindTo)
        /\ best \in Highest(store) \cup {NoBlock} /\ pc = "check"
    BY <1>12, <1>a, <1>b DEF CheckBlock, IsBestBlockAtHeight, ChainInv, BestOK
  <2>3. CASE b = NoBlock
    BY <1>f, <2>1, <2>2, <2>3 DEF Fatal
  <2> DEFINE first == IF best = NoBlock THEN b ELSE best
  <2>4. CASE b # NoBlock
    <3>1. first \in Highest(store)
      BY <1>c, <2>2, <2>4
    <3>3. CASE Height(b) # rewindTo
      <4>1. pc' = "check" /\ store' = store /\ rewindTo' = rewindTo /\ late' = late
        BY <2>1, <2>2, <2>4, <3>3
      <4> QED
        BY <2>2, <4>1 DEF ChainInv
    <3>4. CASE Height(b) = rewindTo
      <4>a. OneChain(store)
        BY <1>c, <1>d, <1>e, <2>2, <2>4, <3>4, RewoundIsOneChain
      <4>b. first \in Block /\ store = Ancestry(first)
        BY <1>d, <3>1, <4>a, HighestOfChain
      <4>1. /\ last' = first /\ store' = store /\ pending' = pending
            /\ phase' = phase
            /\ IF phase = "boot" THEN pc' = "reload" ELSE pc' = "fetch"
        BY <2>1, <2>4, <3>4 DEF IndexNext
      <4>2. pending' = {}
        BY <1>a, <2>2, <4>1 DEF PendingOK
      <4>3. CASE phase = "boot"
        BY <4>a, <4>1, <4>3 DEF ChainInv
      <4>4. CASE phase # "boot"
        <5>1. pc' = "fetch" /\ Whole' = Height(last')
          BY <4>1, <4>4 DEF Whole
        <5>2. Backlog'
          BY <4>b, <4>1, <4>2, <5>1, NothingPending
        <5> QED
          BY <5>1, <5>2 DEF ChainInv
      <4> QED
        BY <4>3, <4>4
    <3> QED
      BY <3>3, <3>4
  <2> QED
    BY <2>3, <2>4
<1>13. CASE StartBulk
  <2>1. PICK b \in LastBlocks :
          /\ last' = b
          /\ IF b # NoBlock /\ Height(b) + 1 = target'
             THEN pc' = "flush" /\ UNCHANGED height
             ELSE IndexNext(b)
    BY <1>13 DEF StartBulk
  <2>2. b = last
    BY <1>13, <1>a, <2>1, LastFound DEF StartBulk
  <2>3. store' = Ancestry(last') /\ pending' = {} /\ pc' \in {"flush", "fetch"}
    BY <1>13, <1>a, <2>1, <2>2 DEF StartBulk, IndexNext, ChainInv, PendingOK, storeVars
  <2>4. Whole' = Height(last')
    BY <2>3 DEF Whole
  <2>5. Backlog'
    BY <1>e, <2>1, <2>2, <2>3, <2>4, NothingPending
  <2> QED
    BY <2>3, <2>5 DEF ChainInv
<1>14. CASE SingleIndex
  <2>1. PICK b \in LastBlocks : last' = b /\ IndexNext(b)
    BY <1>14 DEF SingleIndex
  <2>2. b = last
    BY <1>14, <1>a, <2>1, LastFound DEF SingleIndex
  <2>3. store' = Ancestry(last') /\ pending' = {} /\ pc' = "fetch"
    BY <1>14, <1>a, <2>1, <2>2 DEF SingleIndex, IndexNext, ChainInv, PendingOK, storeVars
  <2>4. Whole' = Height(last')
    BY <2>3 DEF Whole
  <2>5. Backlog'
    BY <1>e, <2>1, <2>2, <2>3, <2>4, NothingPending
  <2> QED
    BY <2>3, <2>5 DEF ChainInv
<1>15. CASE HeightOutOfRange
  <2>1. pc = "fetch" /\ ~ torn /\ Backlog
    BY <1>15 DEF HeightOutOfRange, ChainInv
  <2>2. CASE phase = "single"
    <3>1. pending = {}
      BY <1>a, <2>1, <2>2 DEF PendingOK
    <3>2. store = Ancestry(last)
      BY <1>a, <2>1, <3>1, BacklogPersisted DEF Requested
    <3> QED
      BY <1>15, <2>2, <3>2 DEF HeightOutOfRange, ChainInv
  <2>3. CASE phase # "single"
    BY <1>15, <1>f, <2>1, <2>3 DEF HeightOutOfRange, Fatal
  <2> QED
    BY <2>2, <2>3
<1>16. CASE FetchBlock
  <2> DEFINE b == BlockAt(chain, height)
  <2>1. IF phase = "single" /\ IsOrphan(b, last)
        THEN last' = NoBlock /\ pc' = "orphan" /\ UNCHANGED block
        ELSE block' = b /\ pc' = "build" /\ UNCHANGED last
    BY <1>16 DEF FetchBlock
  <2>2. /\ pc = "fetch" /\ ~ torn /\ Backlog
        /\ UNCHANGED <<store, pending, phase, height>>
    BY <1>16 DEF FetchBlock, ChainInv, storeVars
  <2>3. phase = "single" => store = Ancestry(last)
    <3> SUFFICES ASSUME phase = "single" PROVE store = Ancestry(last)
      OBVIOUS
    <3>1. pending = {}
      BY <1>a, <2>2 DEF PendingOK
    <3> QED
      BY <1>a, <2>2, <3>1, BacklogPersisted DEF Requested
  <2>4. CASE phase = "single" /\ IsOrphan(b, last)
    <3>1. last \in store \cup {NoBlock}
      BY <1>e, <2>3, <2>4, TopOfChain
    <3>2. OneChain(store')
      BY <2>2, <2>3, <2>4, <3>1 DEF OneChain
    <3> QED
      BY <2>1, <2>4, <3>2 DEF ChainInv
  <2>5. CASE ~ (phase = "single" /\ IsOrphan(b, last))
    <3>1. block' = b /\ pc' = "build" /\ last' = last
      BY <2>1, <2>5
    <3>2. Backlog'
      BY <2>2, <3>1 DEF Backlog, Whole, Due
    <3>3. ASSUME phase = "single" PROVE Previous(b) = last
      <4>1. Height(b) = Height(last) + 1
        BY <1>a, <2>2, <3>1, <1>16 DEF HeightOK, FetchBlock, ControlInv
      <4>2. CASE Height(b) # 1
        BY <2>5, <3>3, <4>2 DEF IsOrphan
      <4>3. CASE Height(b) = 1
        <5>1. Height(last) = 0
          BY <1>e, <4>1, <4>3, HeightFact
        <5>2. last = NoBlock
          BY <1>e, <5>1, BlockFact
        <5> QED
          BY <4>3, <5>2 DEF Previous, Height, NoBlock
      <4> QED
        BY <4>2, <4>3
    <3> QED
      BY <2>2, <3>1, <3>2, <3>3 DEF ChainInv
  <2> QED
    BY <2>4, <2>5
<1>17. CASE RewindOrphan
  <2>1. PICK b \in BestBlocks :
          IF b = NoBlock
          THEN Fatal
          ELSE /\ last' = b
               /\ rewindTo' = (Height(b) - ReindexSize) % WordSize
               /\ pc' = "rewind"
               /\ height' = 0
               /\ late' = IF late = "no" /\ view # store THEN "rewind" ELSE late
               /\ UNCHANGED <<store, pending, phase, target, best, block,
                              message>>
    BY <1>17 DEF RewindOrphan
  <2>2. ~ torn /\ OneChain(store) /\ rewindTo' \in Nat
    BY <1>17, SizesAssumption DEF RewindOrphan, ChainInv, TypeInv, TypeOK
  <2>3. CASE b = NoBlock
    BY <1>f, <2>1, <2>2, <2>3 DEF Fatal
  <2>4. CASE b # NoBlock
    <3>1. /\ rewindTo' = (Height(b) - ReindexSize) % WordSize
          /\ pc' = "rewind" /\ store' = store
          /\ late' = IF late = "no" /\ view # store THEN "rewind" ELSE late
      BY <2>1, <2>4
    <3>2. RewindKeepsChain(store, rewindTo')
      BY <1>d, <2>2, RewindOfOneChain
    <3>3. ASSUME late' # "rewind" PROVE RewindReady(store, rewindTo')
      <4>1. view = store
        BY <1>a, <3>1, <3>3 DEF TypeOK
      <4>2. b \in Highest(store)
        BY <1>c, <2>4, <4>1
      <4> QED
        BY <1>d, <2>2, <3>1, <4>2, OrphanRewindReady
    <3> QED
      BY <3>1, <3>2, <3>3 DEF ChainInv
  <2> QED
    BY <2>3, <2>4
<1>18. CASE PersistForPreviousTx
  <2>1. /\ pc = "build" /\ ~ torn /\ Backlog
        /\ store' = store \cup Requested(pending, "index") /\ pending' = {}
        /\ UNCHANGED <<pc, phase, last, block>>
    BY <1>18 DEF PersistForPreviousTx, Persisted, ChainInv, argVars
  <2>2. store' = Ancestry(last')
    BY <1>a, <2>1, BacklogPersisted
  <2>3. Whole' = Height(last')
    BY <2>1 DEF Whole
  <2>4. Backlog'
    BY <1>e, <2>1, <2>2, <2>3, NothingPending
  <2> QED
    BY <2>1, <2>4 DEF ChainInv
<1>19. CASE BuildBlock
  <2>1. PICK previous \in LastBlocks :
          IF phase = "single" /\ previous = NoBlock
          THEN Fatal /\ UNCHANGED torn
          ELSE /\ pending' =
                     IF phase = "single"
                     THEN AddRequest(AddRequest(pending, "update", previous),
                                     "index", block)
                     ELSE AddRequest(pending, "index", block)
               /\ last' = block
               /\ torn' = (torn \/ (phase = "batch" /\ Previous(block) # previous))
               /\ block' = NoBlock
               /\ pc' = "persist"
               /\ UNCHANGED <<store, phase, height, target, rewindTo, best,
                              message, late>>
    BY <1>19 DEF BuildBlock
  <2>2. pc = "build" /\ previous = last
    BY <1>19, <1>a, <2>1, LastFound DEF BuildBlock
  <2>3. CASE phase = "single" /\ last = NoBlock
    BY <1>f, <2>1, <2>2, <2>3 DEF Fatal
  <2>4. CASE ~ (phase = "single" /\ last = NoBlock)
    <3>1. /\ ~ torn /\ Previous(block) = last
          /\ last' = block /\ pc' = "persist" /\ store' = store /\ phase' = phase
      <4>1. /\ torn' = (torn \/ (phase = "batch" /\ Previous(block) # last))
            /\ last' = block /\ pc' = "persist" /\ store' = store /\ phase' = phase
        BY <2>1, <2>2, <2>4
      <4>2. ~ torn /\ ~ (phase = "batch" /\ Previous(block) # last)
        BY <4>1
      <4>3. phase \in {"batch", "single"}
        BY <1>a, <2>2 DEF PhaseOK
      <4>4. phase = "single" => Previous(block) = last
        BY <2>2, <4>2 DEF ChainInv
      <4> QED
        BY <4>1, <4>2, <4>3, <4>4
    <3>2. Backlog /\ block \in Block /\ Height(block) = Height(last) + 1
      BY <1>a, <2>2, <3>1 DEF ChainInv, ArgsOK, HeightOK
    <3>3. PICK k \in 0 .. Height(last) :
            /\ store = Ancestry(BlockAt(last, k))
            /\ Requested(pending, "index")
                 = {BlockAt(last, h) : h \in k + 1 .. Height(last)}
            /\ Requested(pending, "update") \subseteq store
            /\ \A h \in k + 1 .. Whole : ~ Due(h)
      BY <3>2 DEF Backlog
    <3>4. /\ \A h \in 0 .. Height(last) : BlockAt(block, h) = BlockAt(last, h)
          /\ BlockAt(block, Height(block)) = block
      BY <1>e, <3>1, <3>2, BacklogGrows
    <3>5. Height(last) \in Nat
      BY <1>e, HeightFact
    <3>6. /\ Requested(pending', "index") = Requested(pending, "index") \cup {block}
          /\ Requested(pending', "update") \subseteq store
      <4>1. CASE phase = "single"
        <5>1. pending = {} /\ last # NoBlock
          BY <1>a, <2>2, <2>4, <4>1 DEF PendingOK
        <5>2. store = Ancestry(last)
          BY <1>a, <3>2, <5>1, BacklogPersisted DEF Requested
        <5>3. last \in store
          BY <1>e, <5>1, <5>2, TopOfChain
        <5> DEFINE touched == AddRequest({}, "update", last)
        <5>4. Requested(touched, "index") = {} /\ Requested(touched, "update") = {last}
          BY UpdateRequested
        <5>5. pending' = AddRequest(touched, "index", block)
          BY <2>1, <2>2, <2>4, <4>1, <5>1
        <5>6. /\ Requested(pending', "index") = Requested(touched, "index") \cup {block}
              /\ Requested(pending', "update") \subseteq Requested(touched, "update")
          BY <5>5, IndexRequested
        <5>7. Requested(pending, "index") = {}
          BY <5>1 DEF Requested
        <5> QED
          BY <5>3, <5>4, <5>6, <5>7
      <4>2. CASE phase # "single"
        <5>1. pending' = AddRequest(pending, "index", block)
          BY <2>1, <4>2
        <5> QED
          BY <3>3, <5>1, IndexRequested
      <4> QED
        BY <4>1, <4>2
    <3>7. Whole' = Whole /\ \A h : Due(h)' <=> Due(h)
      BY <2>2, <3>1, <3>2, <3>5 DEF Whole, Due
    <3>8. store' = Ancestry(BlockAt(last', k))
      BY <3>1, <3>3, <3>4
    <3>9. Requested(pending', "index") = {BlockAt(last', h) : h \in k + 1 .. Height(last')}
      <4>1. ASSUME NEW c
            PROVE  c \in Requested(pending', "index")
                     <=> \E h \in k + 1 .. Height(block) : c = BlockAt(block, h)
        BY <3>2, <3>3, <3>4, <3>5, <3>6
      <4> QED
        BY <3>1, <4>1
    <3>10. k \in 0 .. Height(last')
      BY <3>1, <3>2, <3>5
    <3>11. Backlog'
      BY <3>1, <3>3, <3>6, <3>7, <3>8, <3>9, <3>10 DEF Backlog
    <3> QED
      BY <3>1, <3>11 DEF ChainInv
  <2> QED
    BY <2>3, <2>4
<1>20. CASE PersistBlock
  <2>1. pc = "persist" /\ ~ torn /\ Backlog
    BY <1>20 DEF PersistBlock, ChainInv
  <2>2. height = Height(last) /\ height \in Nat
    BY <1>a, <1>e, <2>1, HeightFact DEF HeightOK
  <2>3. PICK k \in 0 .. Height(last) :
          /\ store = Ancestry(BlockAt(last, k))
          /\ Requested(pending, "index")
               = {BlockAt(last, h) : h \in k + 1 .. Height(last)}
          /\ Requested(pending, "update") \subseteq store
          /\ \A h \in k + 1 .. Whole : ~ Due(h)
    BY <2>1 DEF Backlog
  <2>4. ~ PersistFails
    BY <2>3 DEF PersistFails
  <2>5. NextHeight => pc' \in {"flush", "fetch"}
    BY DEF NextHeight
  <2>6. CASE ~ PersistDue
    <3>1. NextHeight /\ UNCHANGED <<store, pending, last, phase>>
      BY <1>20, <2>6 DEF PersistBlock
    <3>2. Whole' = Height(last') /\ Whole = Height(last) - 1
      BY <2>1, <2>5, <3>1 DEF Whole
    <3>3. \A h : Due(h)' <=> Due(h)
      BY <3>1 DEF Due
    <3>4. ~ Due(Height(last))
      BY <2>2, <2>6 DEF Due, PersistDue
    <3>5. \A h \in k + 1 .. Height(last) : ~ Due(h)
      BY <2>2, <2>3, <3>2, <3>4
    <3>6. Backlog'
      BY <2>3, <3>1, <3>2, <3>3, <3>5 DEF Backlog
    <3> QED
      BY <2>5, <3>1, <3>6 DEF ChainInv
  <2>7. CASE PersistDue
    <3>1. /\ store' = store \cup Requested(pending, "index") /\ pending' = {}
          /\ NextHeight /\ UNCHANGED <<last, phase>>
      BY <1>20, <2>4, <2>7 DEF PersistBlock, Persisted
    <3>2. store' = Ancestry(last')
      BY <1>a, <2>1, <3>1, BacklogPersisted
    <3>3. Whole' = Height(last')
      BY <2>5, <3>1 DEF Whole
    <3>4. Backlog'
      BY <1>e, <3>1, <3>2, <3>3, NothingPending
    <3> QED
      BY <2>5, <3>1, <3>4 DEF ChainInv
  <2> QED
    BY <2>6, <2>7
<1>21. CASE FlushBulk
  <2>1. /\ pc = "flush" /\ ~ torn /\ Backlog /\ pc' = "verify" /\ last' = last
        /\ store' = store \cup Requested(pending, "index")
    BY <1>21 DEF FlushBulk, Persisted, ChainInv
  <2>2. store' = Ancestry(last')
    BY <1>a, <2>1, BacklogPersisted
  <2> QED
    BY <2>1, <2>2 DEF ChainInv
<1>22. CASE FinishBulk
  <2>1. pc = "verify" /\ ~ torn /\ store = Ancestry(last)
    BY <1>22 DEF FinishBulk, ChainInv
  <2>2. CASE view = {}
    BY <1>22, <1>f, <2>1, <2>2 DEF FinishBulk, Fatal
  <2>3. CASE view # {}
    <3>1. pc' = "idle" /\ last' = last /\ store' = store
      BY <1>22, <2>3 DEF FinishBulk
    <3> QED
      BY <2>1, <3>1 DEF ChainInv
  <2> QED
    BY <2>2, <2>3
<1>23. CASE UNCHANGED vars
  BY <1>23 DEF ChainInv, Backlog, Whole, Due, vars, storeVars, procVars, argVars
<1> QED
  BY <1>1, <1>2, <1>3, <1>4, <1>5, <1>6, <1>7, <1>8, <1>9, <1>10, <1>11, <1>12,
     <1>13, <1>14, <1>15, <1>16, <1>17, <1>18, <1>19, <1>20, <1>21, <1>22, <1>23
  DEF Next, Environment, Process
-----------------------------------------------------------------------------
(* Facts about the heights of an index *)

\* Intervals of heights, one on top of the other.
LEMMA IntervalsJoin ==
    ASSUME NEW k \in Nat, NEW n \in Nat, k <= n
    PROVE  /\ (1 .. k) \cup (k + 1 .. n) = 1 .. n
           /\ (k + 1 .. n) \cup {n + 1} = k + 1 .. n + 1
           /\ k \in (1 .. k) \cup {0}
<1>1. ASSUME NEW h PROVE h \in (1 .. k) \cup (k + 1 .. n) <=> h \in 1 .. n
  OBVIOUS
<1>2. ASSUME NEW h PROVE h \in (k + 1 .. n) \cup {n + 1} <=> h \in k + 1 .. n + 1
  OBVIOUS
<1>3. CASE k = 0
  BY <1>1, <1>2, <1>3
<1>4. CASE k # 0
  <2>1. k \in 1 .. k
    BY <1>4
  <2> QED
    BY <1>1, <1>2, <2>1
<1> QED
  BY <1>3, <1>4

\* The heights of blocks are numbers above 0, and those of two sets of blocks
\* together are those of their union.
LEMMA HeightsFact ==
    ASSUME NEW S \in SUBSET Block
    PROVE  /\ \A h \in Heights(S) : h \in Nat \ {0}
           /\ \A b \in S : Height(b) \in Heights(S)
           /\ \A T : Heights(S \cup T) = Heights(S) \cup Heights(T)
<1>1. \A b \in S : Height(b) \in Nat \ {0}
  BY BlockFact
<1> QED
  BY <1>1 DEF Heights

\* The height of a highest block is the highest height.
LEMMA HighestHeight ==
    ASSUME NEW S \in SUBSET Block, NEW b \in Highest(S)
    PROVE  /\ Height(b) \in Heights(S)
           /\ Height(b) \in Nat \ {0}
           /\ \A h \in Heights(S) : h <= Height(b)
BY HeightsFact DEF Highest, Heights

\* In an index without gaps that is their number.
LEMMA GaplessTop ==
    ASSUME NEW S \in SUBSET Block, Gapless(S), NEW b \in Highest(S)
    PROVE  Heights(S) = 1 .. Height(b)
<1>1. PICK n \in Heights(S) \cup {0} : Heights(S) = 1 .. n
  BY DEF Gapless
<1>2. n \in Nat
  BY <1>1, HeightsFact
<1>3. Height(b) = n
  BY <1>1, <1>2, HighestHeight
<1> QED
  BY <1>1, <1>3

\* An index that is without gaps up to a number is gapless, and filled.
LEMMA GaplessFilled ==
    ASSUME NEW S \in SUBSET Block, NEW n \in Nat, Heights(S) = 1 .. n
    PROVE  Gapless(S) /\ Filled(S)
<1>1. n \in Heights(S) \cup {0}
  BY SMT
<1>2. 1 .. n \subseteq Heights(S) /\ \A h \in Heights(S) : h <= n + ReindexSize
  BY SizesAssumption
<1> QED
  BY <1>1, <1>2 DEF Gapless, Filled

\* The rewind at start goes down to the heights that are filled.
LEMMA FilledBeforeRewind ==
    ASSUME NEW S \in SUBSET Block, Filled(S), NEW b \in Highest(S), NEW to,
           to = IF Height(b) >= ReindexSize THEN Height(b) - ReindexSize ELSE 0
    PROVE  FilledTo(S, to)
<1>1. PICK n \in Heights(S) \cup {0} :
        1 .. n \subseteq Heights(S) /\ \A h \in Heights(S) : h <= n + ReindexSize
  BY DEF Filled
<1>2. n \in Nat /\ ReindexSize \in Nat /\ \A h \in Heights(S) : h \in Nat \ {0}
  BY <1>1, HeightsFact, SizesAssumption
<1>3. /\ Height(b) \in Nat /\ Height(b) \in Heights(S)
      /\ \A h \in Heights(S) : h <= Height(b)
  BY HighestHeight
<1>4. to \in Nat /\ to <= n
  BY <1>1, <1>2, <1>3
<1>5. {h \in Heights(S) : h <= to} = 1 .. to
  <2>1. ASSUME NEW h \in Heights(S), h <= to PROVE h \in 1 .. to
    BY <1>2, <1>4, <2>1
  <2>2. ASSUME NEW h \in 1 .. to PROVE h \in Heights(S) /\ h <= to
    BY <1>1, <1>2, <1>4
  <2> QED
    BY <2>1, <2>2
<1>6. to \in Heights(S) \cup {0}
  BY <1>1, <1>4
<1>7. \A h \in Heights(S) : h <= to + ReindexSize
  BY <1>2, <1>3
<1> QED
  BY <1>5, <1>6, <1>7 DEF FilledTo

\* So does that of an orphan, unless its height underflows and is above every
\* block.
LEMMA FilledBeforeOrphanRewind ==
    ASSUME NEW S \in SUBSET Block, Gapless(S), NEW b \in Highest(S), NEW to,
           to = (Height(b) - ReindexSize) % WordSize
    PROVE  FilledTo(S, to)
<1> DEFINE n == Height(b)
<1>1. Heights(S) = 1 .. n
  BY GaplessTop
<1>2. b \in Block
  BY DEF Highest
<1>3. /\ n \in 1 .. MaxHeight /\ MaxHeight \in Nat
      /\ ReindexSize \in Nat /\ ReindexSize < WordSize
      /\ WordSize \in Nat /\ MaxHeight < WordSize
  BY <1>2, BlockFact, SizesAssumption
<1>4. to = IF n >= ReindexSize THEN n - ReindexSize ELSE n - ReindexSize + WordSize
  BY <1>3, WordDifference
<1>5. CASE n >= ReindexSize
  <2>1. Filled(S)
    BY <1>1, <1>3, GaplessFilled
  <2>2. to = IF Height(b) >= ReindexSize THEN Height(b) - ReindexSize ELSE 0
    BY <1>4, <1>5
  <2> QED
    BY <2>1, <2>2, FilledBeforeRewind
<1>6. CASE n < ReindexSize
  <2>1. to \in Nat /\ to > n
    BY <1>3, <1>4, <1>6
  <2>2. {h \in Heights(S) : h <= to} = 1 .. n
    BY <1>1, <1>3, <2>1
  <2>3. n \in Heights(S) /\ \A h \in Heights(S) : h <= n + ReindexSize
    BY <1>1, <1>3
  <2> QED
    BY <2>2, <2>3 DEF FilledTo
<1> QED
  BY <1>3, <1>5, <1>6

\* What is left of an index about to be rewound, however much of the rewind is
\* done, has its heights filled as before.
LEMMA RewindKeepsFilled ==
    ASSUME NEW S \in SUBSET Block, NEW to \in Nat, RewindKeepsGapless(S, to),
           NEW D \in SUBSET {c \in S : Height(c) > to}
    PROVE  /\ RewindKeepsGapless(S \ D, to)
           /\ FilledTo(S, to) => FilledTo(S \ D, to) /\ Filled(S \ D)
<1> DEFINE T == S \ D
<1>1. \A h \in Heights(S) : h \in Nat \ {0}
  BY HeightsFact
<1>2. Heights(T) \subseteq Heights(S)
  BY DEF Heights
<1>3. \A h \in Heights(S) : h <= to => h \in Heights(T)
  BY <1>1 DEF Heights
<1>4. {h \in Heights(T) : h <= to} = {h \in Heights(S) : h <= to}
  BY <1>2, <1>3
<1>5. ASSUME NEW n \in Heights(S) \cup {0}, {h \in Heights(S) : h <= to} = 1 .. n
      PROVE  n \in Heights(T) \cup {0} /\ 1 .. n \subseteq Heights(T)
  <2>1. n \in Nat
    BY <1>1
  <2>2. n # 0 => n \in 1 .. n
    BY <2>1
  <2> QED
    BY <1>4, <1>5, <2>2
<1> HIDE DEF T
<1>6. RewindKeepsGapless(T, to)
  BY <1>4, <1>5 DEF RewindKeepsGapless
<1>7. ASSUME FilledTo(S, to) PROVE FilledTo(T, to) /\ Filled(T)
  <2>1. PICK n \in Heights(S) \cup {0} :
          /\ {h \in Heights(S) : h <= to} = 1 .. n
          /\ \A h \in Heights(S) : h <= n + ReindexSize
    BY <1>7 DEF FilledTo
  <2>2. n \in Heights(T) \cup {0} /\ 1 .. n \subseteq Heights(T)
    BY <1>5, <2>1
  <2>3. \A h \in Heights(T) : h <= n + ReindexSize
    BY <1>2, <2>1
  <2> QED
    BY <1>4, <2>1, <2>2, <2>3 DEF FilledTo, Filled
<1> QED
  BY <1>6, <1>7 DEF T

\* Heights that a rewind would leave as they are have no gap.
LEMMA RewoundIsGapless ==
    ASSUME NEW S \in SUBSET Block, NEW to \in Nat, RewindKeepsGapless(S, to),
           NEW b \in Highest(S), Height(b) = to
    PROVE  Gapless(S)
<1>1. \A h \in Heights(S) : h <= to
  BY HighestHeight
<1>2. {h \in Heights(S) : h <= to} = Heights(S)
  BY <1>1
<1> QED
  BY <1>2 DEF RewindKeepsGapless, Gapless

\* Whatever the height, a rewind leaves no gap in an index without gaps.
LEMMA RewindOfGapless ==
    ASSUME NEW S \in SUBSET Block, Gapless(S), NEW to \in Nat
    PROVE  RewindKeepsGapless(S, to)
<1>1. PICK n \in Heights(S) \cup {0} : Heights(S) = 1 .. n
  BY DEF Gapless
<1>2. n \in Nat
  BY <1>1, HeightsFact
<1>3. CASE to >= n
  <2>1. {h \in Heights(S) : h <= to} = 1 .. n
    BY <1>1, <1>2, <1>3
  <2> QED
    BY <2>1 DEF RewindKeepsGapless
<1>4. CASE to < n
  <2>1. {h \in Heights(S) : h <= to} = 1 .. to
    BY <1>1, <1>2, <1>4
  <2>2. to \in Heights(S) \cup {0}
    BY <1>1, <1>2, <1>4
  <2> QED
    BY <2>1, <2>2 DEF RewindKeepsGapless
<1> QED
  BY <1>2, <1>3, <1>4

\* A backlog is added to the index, or any part of it.
LEMMA BacklogFilled ==
    ASSUME SafeSetting, TypeOK, phase \in {"batch", "single"}, BacklogFills,
           NEW T \in SUBSET Requested(pending, "index")
    PROVE  /\ Filled(store \cup T)
           /\ Heights(store \cup Requested(pending, "index")) = 1 .. Height(last)
<1> DEFINE Q == Requested(pending, "index")
<1>1. PICK k \in 0 .. Height(last) :
        /\ Heights(store) = 1 .. k
        /\ Heights(Q) = k + 1 .. Height(last)
        /\ \A h \in k + 1 .. Whole : ~ Due(h)
  BY DEF BacklogFills
<1>2. Height(last) \in Nat /\ k \in Nat /\ ReindexSize \in Nat
  BY HeightFact, SizesAssumption DEF TypeOK
<1>a. /\ (1 .. k) \cup (k + 1 .. Height(last)) = 1 .. Height(last)
       /\ k \in (1 .. k) \cup {0}
  <2>1. k <= Height(last)
    BY <1>1, <1>2
  <2> QED
    BY <1>2, <2>1, IntervalsJoin
<1>3. store \in SUBSET Block
  BY DEF TypeOK
<1>4. Height(last) <= k + ReindexSize
  BY <1>1, BacklogBound
<1>5. Heights(T) \subseteq k + 1 .. Height(last)
  BY <1>1 DEF Heights
<1>6. Heights(store \cup T) = Heights(store) \cup Heights(T)
  BY <1>3, HeightsFact
<1>7. Filled(store \cup T)
  <2>1. k \in Heights(store \cup T) \cup {0}
    BY <1>1, <1>6, <1>a
  <2>2. 1 .. k \subseteq Heights(store \cup T)
    BY <1>1, <1>6
  <2>3. \A h \in Heights(store \cup T) : h <= k + ReindexSize
    BY <1>1, <1>2, <1>4, <1>5, <1>6
  <2> QED
    BY <2>1, <2>2, <2>3 DEF Filled
<1>8. Heights(store \cup Q) = Heights(store) \cup Heights(Q)
  BY <1>3, HeightsFact
<1>9. Heights(store \cup Q) = 1 .. Height(last)
  BY <1>1, <1>8, <1>a
<1> QED
  BY <1>7, <1>9

\* With nothing pending the backlog is empty: the heights are those of the index.
LEMMA NothingToFill ==
    ASSUME TypeOK, BacklogFills, Requested(pending, "index") = {}
    PROVE  Heights(store) = 1 .. Height(last)
<1>1. PICK k \in 0 .. Height(last) :
        Heights(store) = 1 .. k /\ Heights({}) = k + 1 .. Height(last)
  BY DEF BacklogFills
<1>2. Height(last) \in Nat
  BY HeightFact DEF TypeOK
<1>3. Heights({}) = {}
  BY DEF Heights
<1>4. k = Height(last)
  BY <1>1, <1>2, <1>3
<1> QED
  BY <1>1, <1>4

\* And the other way round.
LEMMA FilledUp ==
    ASSUME TypeOK', Heights(store') = 1 .. Height(last'), pending' = {},
           Whole' = Height(last')
    PROVE  BacklogFills'
<1> DEFINE k == Height(last')
<1>1. k \in Nat
  BY HeightFact DEF TypeOK
<1>2. Requested(pending', "index") = {}
  BY DEF Requested
<1>3. Heights({}) = {}
  BY DEF Heights
<1>4. k + 1 .. k = {}
  BY <1>1
<1>5. /\ Heights(store') = 1 .. k
      /\ Heights(Requested(pending', "index")) = k + 1 .. k
      /\ \A h \in k + 1 .. Whole' : ~ Due(h)'
  BY <1>2, <1>3, <1>4
<1> QED
  BY <1>1, <1>5 DEF BacklogFills

\* Whatever a kill leaves behind, it fills the heights.
LEMMA LeftoversFilled ==
    ASSUME SafeSetting, TypeInv, ControlInv, HeightsInv, late # "rewind",
           NEW S \in Leftovers
    PROVE  Filled(S)
<1>1. store \in SUBSET Block /\ rewindTo \in Nat /\ last \in Block \cup {NoBlock}
  BY SizesAssumption DEF TypeInv, TypeOK
<1>2. CASE pc \in {"down", "boot"}
  BY <1>2 DEF HeightsInv, Leftovers
<1>3. CASE pc \in {"rewind", "check"}
  <2>1. /\ S = store \ {} /\ FilledTo(store, rewindTo)
        /\ RewindKeepsGapless(store, rewindTo)
    BY <1>3 DEF HeightsInv, Leftovers
  <2>2. {} \in SUBSET {c \in store : Height(c) > rewindTo}
    OBVIOUS
  <2>3. Filled(store \ {})
    BY <1>1, <2>1, <2>2, RewindKeepsFilled
  <2> QED
    BY <2>1, <2>3
<1>4. CASE pc = "delete"
  <2>1. PICK D \in SUBSET Doomed : S = store \ D
    BY <1>4 DEF Leftovers
  <2>2. FilledTo(store, rewindTo) /\ RewindKeepsGapless(store, rewindTo)
    BY <1>4 DEF HeightsInv
  <2>3. D \cap store \in SUBSET {c \in store : Height(c) > rewindTo}
    BY DEF Doomed
  <2>4. S = store \ (D \cap store)
    BY <2>1
  <2>5. Filled(store \ (D \cap store))
    BY <1>1, <2>2, <2>3, RewindKeepsFilled
  <2> QED
    BY <2>4, <2>5
<1>5. CASE pc \in {"reload", "orphan"}
  <2>1. S = store /\ Gapless(store)
    BY <1>5 DEF HeightsInv, Leftovers
  <2>2. PICK n \in Heights(store) \cup {0} : Heights(store) = 1 .. n
    BY <2>1 DEF Gapless
  <2>3. n \in Nat
    BY <1>1, <2>2, HeightsFact
  <2> QED
    BY <1>1, <2>1, <2>2, <2>3, GaplessFilled
<1>6. CASE pc \in {"bulk", "verify", "idle"}
  <2>1. S = store /\ Heights(store) = 1 .. Height(last)
    BY <1>6 DEF HeightsInv, Leftovers
  <2>2. Height(last) \in Nat
    BY <1>1, HeightFact
  <2> QED
    BY <1>1, <2>1, <2>2, GaplessFilled
<1>7. CASE pc \in {"fetch", "build", "persist", "flush"}
  <2>1. BacklogFills /\ phase \in {"batch", "single"} /\ TypeOK
    BY <1>7 DEF HeightsInv, ControlInv, PhaseOK, TypeInv
  <2>2. PICK T \in SUBSET Requested(pending, "index") : S = store \cup T
    <3>1. CASE pc = "fetch"
      <4>1. S = store \cup {}
        BY <3>1 DEF Leftovers
      <4> QED
        BY <4>1
    <3>2. CASE pc # "fetch"
      BY <1>7, <3>2 DEF Leftovers
    <3> QED
      BY <3>1, <3>2
  <2> QED
    BY <2>1, <2>2, BacklogFilled
<1> QED
  BY <1>2, <1>3, <1>4, <1>5, <1>6, <1>7 DEF TypeInv, TypeOK, Points
-----------------------------------------------------------------------------
(* The heights invariant is inductive, in a torn index too *)

\* A process that dies leaves filled heights.
LEMMA DieHeights ==
    ASSUME Die, Filled(store)' PROVE HeightsInv'
BY DEF Die, HeightsInv

\* An index without a block has no gap.
LEMMA HeightsInit == Init => HeightsInv
<1>1. Heights({}) = 1 .. 0 /\ {} \in SUBSET Block /\ 0 \in Nat
  BY DEF Heights
<1>2. Filled({})
  BY <1>1, GaplessFilled
<1> QED
  BY <1>2 DEF Init, HeightsInv

\* Nor has the index that a reindex run has made anew.
LEMMA ReindexHeights == Reindex => HeightsInv'
<1>1. Heights({}) = 1 .. 0 /\ {} \in SUBSET Block /\ 0 \in Nat
  BY DEF Heights
<1>2. Filled({})
  BY <1>1, GaplessFilled
<1> QED
  BY <1>2 DEF Reindex, HeightsInv, procVars

\* Every step keeps what is known of the heights in the index at each point of
\* the process, until the process is killed in a rewind that a late search has
\* misled.
LEMMA HeightsNext ==
    ASSUME SafeSetting, TypeInv, TypeInv', ControlInv, ControlInv',
           HeightsInv, late' # "killed", [Next]_vars
    PROVE  HeightsInv'
<1>a. TypeOK /\ ArgsOK /\ PhaseOK /\ PendingOK /\ HeightOK /\ EmptyOK /\ BestOK
  BY DEF TypeInv, ControlInv
<1>b. ASSUME NEW site \in {"start", "reload", "check"}, CanSearch(site) PROVE view = store
  BY <1>b DEF CanSearch, SafeSetting
<1>c. /\ NoBlock \in BestBlocks => view = {}
      /\ \A b \in BestBlocks : b # NoBlock => b \in Highest(view)
  BY <1>a, NothingFound
<1>d. store \in SUBSET Block /\ TypeOK'
  BY DEF TypeInv, TypeOK
<1>e. rewindTo \in Nat /\ last \in Block \cup {NoBlock}
  BY SizesAssumption DEF TypeInv, TypeOK
<1>f. ASSUME Die, store' \in Leftovers PROVE HeightsInv'
  <2>1. late # "rewind"
    BY <1>f DEF Die
  <2>2. Filled(store')
    BY <1>f, <2>1, LeftoversFilled
  <2> QED
    BY <1>f, <2>2, DieHeights
<1>g. ASSUME Fatal PROVE HeightsInv'
  BY <1>f, <1>g, StoreLeft DEF Fatal
<1>h. Requested({}, "index") = {}
  BY DEF Requested
<1>1. CASE Extend
  BY <1>1 DEF Extend, HeightsInv, BacklogFills, Whole, Due, storeVars, argVars
<1>2. CASE Reorg
  BY <1>2 DEF Reorg, HeightsInv, BacklogFills, Whole, Due, storeVars, argVars
<1>3. CASE Crash
  BY <1>3, <1>f DEF Crash
<1>4. CASE Reindex
  BY <1>4, ReindexHeights
<1>5. CASE Refresh
  BY <1>5 DEF Refresh, HeightsInv, BacklogFills, Whole, Due, procVars, argVars
<1>6. CASE Start
  BY <1>6 DEF Start, HeightsInv, storeVars, argVars
<1>7. CASE RewindAtStart
  <2>1. PICK b \in BestBlocks :
          IF b = NoBlock
          THEN BulkOrSubscribe /\ UNCHANGED rewindTo
          ELSE pc' = "rewind" /\ rewindTo' = TargetHeight(b) /\ UNCHANGED phase
    BY <1>7 DEF RewindAtStart
  <2>2. view = store /\ pc = "boot" /\ UNCHANGED <<store, last>>
    BY <1>7, <1>b DEF RewindAtStart, storeVars
  <2>3. CASE b = NoBlock
    <3>1. store' = {} /\ last' = NoBlock
      BY <1>a, <1>c, <2>2, <2>3 DEF HeightOK
    <3>2. pc' \in {"bulk", "idle"}
      BY <2>1, <2>3 DEF BulkOrSubscribe
    <3>3. Heights(store') = 1 .. Height(last')
      BY <3>1, NoBlockFact DEF Heights
    <3> QED
      BY <3>2, <3>3 DEF HeightsInv
  <2>4. CASE b # NoBlock
    <3>1. Filled(store) /\ b \in Highest(store)
      BY <1>c, <2>2, <2>4 DEF HeightsInv
    <3>2. rewindTo' = IF Height(b) >= ReindexSize
                      THEN Height(b) - ReindexSize ELSE 0
      BY <2>1, <2>4 DEF TargetHeight, SafeSetting
    <3>3. FilledTo(store, rewindTo')
      BY <1>d, <3>1, <3>2, FilledBeforeRewind
    <3>4. RewindKeepsGapless(store, rewindTo')
      BY <3>3 DEF FilledTo, RewindKeepsGapless
    <3> QED
      BY <2>1, <2>2, <2>4, <3>3, <3>4 DEF HeightsInv
  <2> QED
    BY <2>3, <2>4
<1>8. CASE ReloadBestBlock
  <2>1. PICK b \in BestBlocks :
          IF b = NoBlock
          THEN Fatal
          ELSE /\ last' = b
               /\ BulkOrSubscribe
               /\ UNCHANGED <<store, pending, argVars, message, late>>
    BY <1>8 DEF ReloadBestBlock
  <2>2. view = store /\ Gapless(store)
    BY <1>8, <1>b DEF ReloadBestBlock, HeightsInv
  <2>3. CASE b = NoBlock
    BY <1>g, <2>1, <2>3
  <2>4. CASE b # NoBlock
    <3>1. Heights(store) = 1 .. Height(b)
      BY <1>c, <1>d, <2>2, <2>4, GaplessTop
    <3>2. pc' \in {"bulk", "idle"} /\ last' = b /\ store' = store
      BY <2>1, <2>4 DEF BulkOrSubscribe
    <3> QED
      BY <3>1, <3>2 DEF HeightsInv
  <2> QED
    BY <2>3, <2>4
<1>9. CASE RewindAddresses
  BY <1>9 DEF RewindAddresses, HeightsInv, storeVars, argVars
<1>10. CASE RewindRefused
  BY <1>10, <1>g DEF RewindRefused
<1>11. CASE DeleteBlocks
  <2>1. /\ RewindKeepsGapless(store, rewindTo)
        /\ late = "rewind" \/ FilledTo(store, rewindTo)
    BY <1>11 DEF DeleteBlocks, HeightsInv
  <2>2. /\ store' = store \ (Doomed \cap store) /\ pc' = "check"
        /\ rewindTo' = rewindTo /\ late' = late
    BY <1>11 DEF DeleteBlocks, argVars
  <2>3. Doomed \cap store \in SUBSET {c \in store : Height(c) > rewindTo}
    BY DEF Doomed
  <2>4. /\ RewindKeepsGapless(store \ (Doomed \cap store), rewindTo)
        /\ FilledTo(store, rewindTo) => FilledTo(store \ (Doomed \cap store), rewindTo)
    BY <1>d, <1>e, <2>1, <2>3, RewindKeepsFilled
  <2> QED
    BY <2>1, <2>2, <2>4 DEF HeightsInv
<1>12. CASE CheckBlock
  <2>1. PICK b \in BestBlocks :
          LET first == IF best = NoBlock THEN b ELSE best
          IN  CASE b = NoBlock -> Fatal
                [] b # NoBlock /\ Height(b) # rewindTo ->
                     /\ best' = first
                     /\ UNCHANGED <<store, pending, last, pc, phase, height,
                                    target, rewindTo, block, message, late>>
                [] b # NoBlock /\ Height(b) = rewindTo ->
                     /\ last' = first
                     /\ best' = NoBlock
                     /\ rewindTo' = 0
                     /\ late' = IF late = "rewind" THEN "no" ELSE late
                     /\ IF phase = "boot"
                        THEN pc' = "reload" /\ UNCHANGED height
                        ELSE IndexNext(first)
                     /\ UNCHANGED <<store, pending, phase, target, block,
                                    message>>
    BY <1>12 DEF CheckBlock, IsBestBlockAtHeight
  <2>2. /\ view = store /\ RewindKeepsGapless(store, rewindTo)
        /\ late = "rewind" \/ FilledTo(store, rewindTo)
        /\ best \in Highest(store) \cup {NoBlock} /\ pc = "check"
    BY <1>12, <1>a, <1>b DEF CheckBlock, IsBestBlockAtHeight, HeightsInv, BestOK
  <2>3. CASE b = NoBlock
    BY <1>g, <2>1, <2>3
  <2> DEFINE first == IF best = NoBlock THEN b ELSE best
  <2>4. CASE b # NoBlock
    <3>1. first \in Highest(store)
      BY <1>c, <2>2, <2>4
    <3>3. CASE Height(b) # rewindTo
      <4>1. pc' = "check" /\ store' = store /\ rewindTo' = rewindTo /\ late' = late
        BY <2>1, <2>2, <2>4, <3>3
      <4> QED
        BY <2>2, <4>1 DEF HeightsInv
    <3>4. CASE Height(b) = rewindTo
      <4>a. Gapless(store)
        BY <1>c, <1>d, <1>e, <2>2, <2>4, <3>4, RewoundIsGapless
      <4>b. Heights(store) = 1 .. Height(first)
        BY <1>d, <3>1, <4>a, GaplessTop
      <4>1. /\ last' = first /\ store' = store /\ pending' = pending
            /\ IF phase = "boot" THEN pc' = "reload" ELSE pc' = "fetch"
        BY <2>1, <2>4, <3>4 DEF IndexNext
      <4>2. pending' = {}
        BY <1>a, <2>2, <4>1 DEF PendingOK
      <4>3. CASE phase = "boot"
        BY <4>a, <4>1, <4>3 DEF HeightsInv
      <4>4. CASE phase # "boot"
        <5>1. pc' = "fetch" /\ Whole' = Height(last')
          BY <4>1, <4>4 DEF Whole
        <5>2. BacklogFills'
          BY <1>d, <4>b, <4>1, <4>2, <5>1, FilledUp
        <5> QED
          BY <5>1, <5>2 DEF HeightsInv
      <4> QED
        BY <4>3, <4>4
    <3> QED
      BY <3>3, <3>4
  <2> QED
    BY <2>3, <2>4
<1>13. CASE StartBulk
  <2>1. PICK b \in LastBlocks :
          /\ last' = b
          /\ IF b # NoBlock /\ Height(b) + 1 = target'
             THEN pc' = "flush" /\ UNCHANGED height
             ELSE IndexNext(b)
    BY <1>13 DEF StartBulk
  <2>2. b = last
    BY <1>13, <1>a, <2>1, LastFound DEF StartBulk
  <2>3. /\ Heights(store') = 1 .. Height(last')
        /\ pending' = {} /\ pc' \in {"flush", "fetch"}
    BY <1>13, <1>a, <2>1, <2>2 DEF StartBulk, IndexNext, HeightsInv, PendingOK, storeVars
  <2>4. Whole' = Height(last')
    BY <2>3 DEF Whole
  <2>5. BacklogFills'
    BY <1>d, <2>3, <2>4, FilledUp
  <2> QED
    BY <2>3, <2>5 DEF HeightsInv
<1>14. CASE SingleIndex
  <2>1. PICK b \in LastBlocks : last' = b /\ IndexNext(b)
    BY <1>14 DEF SingleIndex
  <2>2. b = last
    BY <1>14, <1>a, <2>1, LastFound DEF SingleIndex
  <2>3. Heights(store') = 1 .. Height(last') /\ pending' = {} /\ pc' = "fetch"
    BY <1>14, <1>a, <2>1, <2>2 DEF SingleIndex, IndexNext, HeightsInv, PendingOK, storeVars
  <2>4. Whole' = Height(last')
    BY <2>3 DEF Whole
  <2>5. BacklogFills'
    BY <1>d, <2>3, <2>4, FilledUp
  <2> QED
    BY <2>3, <2>5 DEF HeightsInv
<1>15. CASE HeightOutOfRange
  <2>1. pc = "fetch" /\ BacklogFills
    BY <1>15 DEF HeightOutOfRange, HeightsInv
  <2>2. CASE phase = "single"
    <3>1. pending = {}
      BY <1>a, <2>1, <2>2 DEF PendingOK
    <3>2. Heights(store) = 1 .. Height(last)
      BY <1>a, <1>h, <2>1, <3>1, NothingToFill
    <3> QED
      BY <1>15, <2>2, <3>2 DEF HeightOutOfRange, HeightsInv
  <2>3. CASE phase # "single"
    BY <1>15, <1>g, <2>3 DEF HeightOutOfRange
  <2> QED
    BY <2>2, <2>3
<1>16. CASE FetchBlock
  <2> DEFINE b == BlockAt(chain, height)
  <2>1. IF phase = "single" /\ IsOrphan(b, last)
        THEN last' = NoBlock /\ pc' = "orphan" /\ UNCHANGED block
        ELSE block' = b /\ pc' = "build" /\ UNCHANGED last
    BY <1>16 DEF FetchBlock
  <2>2. pc = "fetch" /\ BacklogFills /\ UNCHANGED <<store, pending, phase, height>>
    BY <1>16 DEF FetchBlock, HeightsInv, storeVars
  <2>3. CASE phase = "single" /\ IsOrphan(b, last)
    <3>1. pending = {}
      BY <1>a, <2>2, <2>3 DEF PendingOK
    <3>2. Heights(store) = 1 .. Height(last)
      BY <1>a, <1>h, <2>2, <3>1, NothingToFill
    <3>3. Height(last) \in Nat
      BY <1>e, HeightFact
    <3>4. Gapless(store)
      BY <1>d, <3>2, <3>3, GaplessFilled
    <3> QED
      BY <2>1, <2>2, <2>3, <3>4 DEF HeightsInv
  <2>4. CASE ~ (phase = "single" /\ IsOrphan(b, last))
    <3>1. pc' = "build" /\ last' = last
      BY <2>1, <2>4
    <3>2. BacklogFills'
      BY <2>2, <3>1 DEF BacklogFills, Whole, Due
    <3> QED
      BY <3>1, <3>2 DEF HeightsInv
  <2> QED
    BY <2>3, <2>4
<1>17. CASE RewindOrphan
  <2>1. PICK b \in BestBlocks :
          IF b = NoBlock
          THEN Fatal
          ELSE /\ last' = b
               /\ rewindTo' = (Height(b) - ReindexSize) % WordSize
               /\ pc' = "rewind"
               /\ height' = 0
               /\ late' = IF late = "no" /\ view # store THEN "rewind" ELSE late
               /\ UNCHANGED <<store, pending, phase, target, best, block,
                              message>>
    BY <1>17 DEF RewindOrphan
  <2>2. Gapless(store) /\ rewindTo' \in Nat
    BY <1>17, SizesAssumption DEF RewindOrphan, HeightsInv, TypeInv, TypeOK
  <2>3. CASE b = NoBlock
    BY <1>g, <2>1, <2>3
  <2>4. CASE b # NoBlock
    <3>1. /\ rewindTo' = (Height(b) - ReindexSize) % WordSize
          /\ pc' = "rewind" /\ store' = store
          /\ late' = IF late = "no" /\ view # store THEN "rewind" ELSE late
      BY <2>1, <2>4
    <3>2. RewindKeepsGapless(store, rewindTo')
      BY <1>d, <2>2, RewindOfGapless
    <3>3. ASSUME late' # "rewind" PROVE FilledTo(store, rewindTo')
      <4>1. view = store
        BY <1>a, <3>1, <3>3 DEF TypeOK
      <4>2. b \in Highest(store)
        BY <1>c, <2>4, <4>1
      <4> QED
        BY <1>d, <2>2, <3>1, <4>2, FilledBeforeOrphanRewind
    <3> QED
      BY <3>1, <3>2, <3>3 DEF HeightsInv
  <2> QED
    BY <2>3, <2>4
<1>18. CASE PersistForPreviousTx
  <2>1. /\ pc = "build" /\ BacklogFills /\ phase \in {"batch", "single"}
        /\ store' = store \cup Requested(pending, "index") /\ pending' = {}
        /\ UNCHANGED <<pc, phase, last>>
    BY <1>18, <1>a DEF PersistForPreviousTx, Persisted, HeightsInv, PhaseOK, argVars
  <2>2. Heights(store') = 1 .. Height(last')
    BY <1>a, <2>1, BacklogFilled
  <2>3. Whole' = Height(last')
    BY <2>1 DEF Whole
  <2>4. BacklogFills'
    BY <1>d, <2>1, <2>2, <2>3, FilledUp
  <2> QED
    BY <2>1, <2>4 DEF HeightsInv
<1>19. CASE BuildBlock
  <2>1. PICK previous \in LastBlocks :
          IF phase = "single" /\ previous = NoBlock
          THEN Fatal /\ UNCHANGED torn
          ELSE /\ pending' =
                     IF phase = "single"
                     THEN AddRequest(AddRequest(pending, "update", previous),
                                     "index", block)
                     ELSE AddRequest(pending, "index", block)
               /\ last' = block
               /\ torn' = (torn \/ (phase = "batch" /\ Previous(block) # previous))
               /\ block' = NoBlock
               /\ pc' = "persist"
               /\ UNCHANGED <<store, phase, height, target, rewindTo, best,
                              message, late>>
    BY <1>19 DEF BuildBlock
  <2>2. pc = "build" /\ BacklogFills
    BY <1>19 DEF BuildBlock, HeightsInv
  <2>3. CASE phase = "single" /\ previous = NoBlock
    BY <1>g, <2>1, <2>3
  <2>4. CASE ~ (phase = "single" /\ previous = NoBlock)
    <3>1. last' = block /\ pc' = "persist" /\ store' = store /\ phase' = phase
      BY <2>1, <2>4
    <3>2. block \in Block /\ Height(block) = Height(last) + 1
      BY <1>a, <2>2 DEF ArgsOK, HeightOK
    <3>3. PICK k \in 0 .. Height(last) :
            /\ Heights(store) = 1 .. k
            /\ Heights(Requested(pending, "index")) = k + 1 .. Height(last)
            /\ \A h \in k + 1 .. Whole : ~ Due(h)
      BY <2>2 DEF BacklogFills
    <3>4. Height(last) \in Nat
      BY <1>e, HeightFact
    <3>5. Requested(pending', "index") = Requested(pending, "index") \cup {block}
      <4>1. CASE phase = "single"
        <5>1. pending = {}
          BY <1>a, <2>2, <4>1 DEF PendingOK
        <5> DEFINE touched == AddRequest({}, "update", previous)
        <5>2. Requested(touched, "index") = {}
          BY UpdateRequested
        <5>3. pending' = AddRequest(touched, "index", block)
          BY <2>1, <2>4, <4>1, <5>1
        <5>4. Requested(pending', "index") = Requested(touched, "index") \cup {block}
          BY <5>3, IndexRequested
        <5> QED
          BY <1>h, <5>1, <5>2, <5>4
      <4>2. CASE phase # "single"
        <5>1. pending' = AddRequest(pending, "index", block)
          BY <2>1, <4>2
        <5> QED
          BY <5>1, IndexRequested
      <4> QED
        BY <4>1, <4>2
    <3>6. Heights(Requested(pending', "index"))
            = Heights(Requested(pending, "index")) \cup {Height(block)}
      BY <3>5 DEF Heights
    <3>7. Heights(Requested(pending', "index")) = k + 1 .. Height(last')
      <4>1. k \in Nat /\ k <= Height(last)
        BY <3>3, <3>4
      <4>2. (k + 1 .. Height(last)) \cup {Height(last) + 1} = k + 1 .. Height(last) + 1
        BY <3>4, <4>1, IntervalsJoin
      <4> QED
        BY <3>1, <3>2, <3>3, <3>6, <4>2
    <3>8. Whole' = Whole /\ \A h : Due(h)' <=> Due(h)
      BY <2>2, <3>1, <3>2, <3>4 DEF Whole, Due
    <3>9. k \in 0 .. Height(last')
      BY <3>1, <3>2, <3>4
    <3>10. BacklogFills'
      BY <3>1, <3>3, <3>7, <3>8, <3>9 DEF BacklogFills
    <3> QED
      BY <3>1, <3>10 DEF HeightsInv
  <2> QED
    BY <2>3, <2>4
<1>20. CASE PersistBlock
  <2>1. pc = "persist" /\ BacklogFills /\ phase \in {"batch", "single"}
    BY <1>20, <1>a DEF PersistBlock, HeightsInv, PhaseOK
  <2>2. height = Height(last) /\ height \in Nat
    BY <1>a, <1>e, <2>1, HeightFact DEF HeightOK
  <2>3. PICK k \in 0 .. Height(last) :
          /\ Heights(store) = 1 .. k
          /\ Heights(Requested(pending, "index")) = k + 1 .. Height(last)
          /\ \A h \in k + 1 .. Whole : ~ Due(h)
    BY <2>1 DEF BacklogFills
  <2>4. NextHeight => pc' \in {"flush", "fetch"}
    BY DEF NextHeight
  <2>5. CASE ~ PersistDue
    <3>1. NextHeight /\ UNCHANGED <<store, pending, last, phase>>
      BY <1>20, <2>5 DEF PersistBlock
    <3>2. Whole' = Height(last') /\ Whole = Height(last) - 1
      BY <2>1, <2>4, <3>1 DEF Whole
    <3>3. \A h : Due(h)' <=> Due(h)
      BY <3>1 DEF Due
    <3>4. ~ Due(Height(last))
      BY <2>2, <2>5 DEF Due, PersistDue
    <3>5. \A h \in k + 1 .. Height(last) : ~ Due(h)
      BY <2>2, <2>3, <3>2, <3>4
    <3>6. BacklogFills'
      BY <2>3, <3>1, <3>2, <3>3, <3>5 DEF BacklogFills
    <3> QED
      BY <2>4, <3>1, <3>6 DEF HeightsInv
  <2>6. CASE PersistDue /\ PersistFails
    BY <1>20, <1>f, <2>6 DEF PersistBlock
  <2>7. CASE PersistDue /\ ~ PersistFails
    <3>1. /\ store' = store \cup Requested(pending, "index") /\ pending' = {}
          /\ NextHeight /\ UNCHANGED <<last, phase>>
      BY <1>20, <2>7 DEF PersistBlock, Persisted
    <3>2. Heights(store') = 1 .. Height(last')
      BY <1>a, <2>1, <3>1, BacklogFilled
    <3>3. Whole' = Height(last')
      BY <2>4, <3>1 DEF Whole
    <3>4. BacklogFills'
      BY <1>d, <3>1, <3>2, <3>3, FilledUp
    <3> QED
      BY <2>4, <3>1, <3>4 DEF HeightsInv
  <2> QED
    BY <2>5, <2>6, <2>7
<1>21. CASE FlushBulk
  <2>1. /\ pc = "flush" /\ BacklogFills /\ pc' = "verify" /\ last' = last
        /\ phase \in {"batch", "single"}
        /\ store' = store \cup Requested(pending, "index")
    BY <1>21, <1>a DEF FlushBulk, Persisted, HeightsInv, PhaseOK
  <2>2. Heights(store') = 1 .. Height(last')
    BY <1>a, <2>1, BacklogFilled
  <2> QED
    BY <2>1, <2>2 DEF HeightsInv
<1>22. CASE FinishBulk
  <2>1. pc = "verify" /\ Heights(store) = 1 .. Height(last)
    BY <1>22 DEF FinishBulk, HeightsInv
  <2>2. CASE view = {}
    BY <1>22, <1>g, <2>2 DEF FinishBulk
  <2>3. CASE view # {}
    <3>1. pc' = "idle" /\ last' = last /\ store' = store
      BY <1>22, <2>3 DEF FinishBulk
    <3> QED
      BY <2>1, <3>1 DEF HeightsInv
  <2> QED
    BY <2>2, <2>3
<1>23. CASE UNCHANGED vars
  BY <1>23 DEF HeightsInv, BacklogFills, Whole, Due, vars, storeVars, procVars, argVars
<1> QED
  BY <1>1, <1>2, <1>3, <1>4, <1>5, <1>6, <1>7, <1>8, <1>9, <1>10, <1>11, <1>12,
     <1>13, <1>14, <1>15, <1>16, <1>17, <1>18, <1>19, <1>20, <1>21, <1>22, <1>23
  DEF Next, Environment, Process
-----------------------------------------------------------------------------
(* What follows from the invariant *)

\* The steps that have to do with late searches: Index rewinds to the height
\* found by one, checkBlock returns, the process dies, all indices are made anew.
LEMMA LateSteps ==
    ASSUME [Next]_vars
    PROVE  \/ late' = late
           \/ late = "no" /\ late' = "rewind"
           \/ late = "rewind" /\ late' = "no" /\ pc = "check" /\ pc' \in {"reload", "fetch"}
           \/ Die
           \/ Reindex
<1>1. CASE Extend \/ Reorg \/ Refresh \/ UNCHANGED vars
  BY <1>1 DEF Extend, Reorg, Refresh, vars
<1>2. CASE Crash \/ RewindRefused
  BY <1>2 DEF Crash, RewindRefused, Fatal
<1>3. CASE Start \/ RewindAtStart \/ RewindAddresses \/ DeleteBlocks \/ StartBulk
           \/ SingleIndex \/ FetchBlock \/ PersistForPreviousTx \/ FlushBulk
  BY <1>3 DEF Start, RewindAtStart, RewindAddresses, DeleteBlocks, StartBulk,
     SingleIndex, FetchBlock, PersistForPreviousTx, FlushBulk
<1>4. CASE ReloadBestBlock \/ HeightOutOfRange \/ BuildBlock \/ FinishBulk
  BY <1>4 DEF ReloadBestBlock, HeightOutOfRange, BuildBlock, FinishBulk, Fatal
<1>5. CASE PersistBlock
  BY <1>5 DEF PersistBlock
<1>6. CASE CheckBlock
  BY <1>6 DEF CheckBlock, Fatal, IndexNext
<1>7. CASE RewindOrphan
  BY <1>7 DEF RewindOrphan, Fatal
<1> QED
  BY <1>1, <1>2, <1>3, <1>4, <1>5, <1>6, <1>7 DEF Next, Environment, Process

\* A kill in a rewind that a late search has misled is forgotten only by a
\* reindex run.
LEMMA StaysKilled ==
    ASSUME [Next]_vars, late = "killed", ~ Reindex
    PROVE  late' = "killed"
BY LateSteps DEF Die

\* Wherever the process stands, between any two calls to another system, it knows
\* what IndexInv says of the index, the request cache and lastBlockIndexed: in the
\* start's rewind, the bulk run and the recursion of Index, whatever a kill in
\* daemon.Execute left behind.
THEOREM Invariant ==
    ASSUME SafeSetting
    PROVE  Spec => []IndexInv
<1>1. Init => IndexInv
  BY TypeInit, ControlInit, HeightsInit, ChainInit DEF IndexInv
<1>2. IndexInv /\ [Next]_vars => IndexInv'
  <2> SUFFICES ASSUME IndexInv, [Next]_vars PROVE IndexInv'
    OBVIOUS
  <2>1. TypeInv'
    BY TypeNext DEF IndexInv
  <2>2. ControlInv'
    BY ControlNext DEF IndexInv
  <2>3. CASE late' = "killed"
    BY <2>1, <2>2, <2>3 DEF IndexInv
  <2>4. CASE Reindex
    BY <2>1, <2>2, <2>4, ReindexChain, ReindexHeights DEF IndexInv
  <2>5. CASE late' # "killed" /\ ~ Reindex
    <3>1. late # "killed"
      BY <2>5, StaysKilled
    <3>2. (torn \/ ChainInv)'
      BY <2>1, <2>2, <2>5, <3>1, ChainNext DEF IndexInv
    <3>3. HeightsInv'
      BY <2>1, <2>2, <2>5, <3>1, HeightsNext DEF IndexInv
    <3> QED
      BY <2>1, <2>2, <3>2, <3>3 DEF IndexInv
  <2> QED
    BY <2>3, <2>4, <2>5
<1> QED
  BY <1>1, <1>2, PTL DEF Spec

\* However the process was killed, the block index is one chain except for
\* blocks that the rewind at the next start removes.
THEOREM StaysAnchored ==
    ASSUME SafeSetting
    PROVE  Spec => []AlwaysAnchored
<1>1. IndexInv => AlwaysAnchored
  <2> SUFFICES ASSUME IndexInv, ~ torn, late = "no" PROVE Anchored(store, ReindexSize)
    BY DEF AlwaysAnchored, Intact
  <2>1. store \in Leftovers
    BY StoreLeft
  <2> QED
    BY <2>1, LeftoversAnchored DEF IndexInv
<1> QED
  BY <1>1, Invariant, PTL

\* While the process waits for a message the block index is one chain.
THEOREM IdleIsOneChain ==
    ASSUME SafeSetting
    PROVE  Spec => []IdleIndexIsOneChain
<1>1. IndexInv => IdleIndexIsOneChain
  <2> SUFFICES ASSUME IndexInv, pc = "idle", ~ torn, late = "no"
               PROVE  \E b \in store \cup {NoBlock} : store = Ancestry(b)
    BY DEF IdleIndexIsOneChain, Intact
  <2>1. store = Ancestry(last) /\ last \in Block \cup {NoBlock}
    BY DEF IndexInv, ChainInv, TypeInv, TypeOK
  <2>2. last \in store \cup {NoBlock}
    BY <2>1, TopOfChain
  <2> QED
    BY <2>1, <2>2
<1> QED
  BY <1>1, Invariant, PTL

\* While the process waits for a message, the block it checks the next one
\* against is the top of that chain.
THEOREM IdleLastOnTop ==
    ASSUME SafeSetting
    PROVE  Spec => []IdleLastIsTop
<1>1. IndexInv => IdleLastIsTop
  BY DEF IndexInv, ChainInv, IdleLastIsTop, Intact
<1> QED
  BY <1>1, Invariant, PTL

\* Only checkBlock ends the check of a rewind.
LEMMA StepsOfRewind ==
    ASSUME [Next]_vars, pc = "check", pc' \in {"reload", "fetch"}
    PROVE  CheckBlock
<1>1. CASE Extend \/ Reorg \/ Refresh \/ UNCHANGED vars
  BY <1>1 DEF Extend, Reorg, Refresh, vars, procVars
<1>2. CASE Crash \/ Reindex
  BY <1>2 DEF Crash, Die, Reindex
<1>3. CASE Start \/ RewindAtStart \/ ReloadBestBlock \/ RewindAddresses
  BY <1>3 DEF Start, RewindAtStart, ReloadBestBlock, RewindAddresses
<1>4. CASE RewindRefused \/ StartBulk \/ SingleIndex \/ HeightOutOfRange
  BY <1>4 DEF RewindRefused, StartBulk, SingleIndex, HeightOutOfRange
<1>5. CASE FetchBlock \/ RewindOrphan \/ PersistForPreviousTx \/ BuildBlock
  BY <1>5 DEF FetchBlock, RewindOrphan, PersistForPreviousTx, BuildBlock
<1>6. CASE PersistBlock \/ FlushBulk \/ FinishBulk
  BY <1>6 DEF PersistBlock, FlushBulk, FinishBulk
<1>7. CASE DeleteBlocks
  BY <1>7 DEF DeleteBlocks
<1> QED
  BY <1>1, <1>2, <1>3, <1>4, <1>5, <1>6, <1>7 DEF Next, Environment, Process

\* checkBlock returns a highest block of the index, at the height asked for: its
\* first answer is as high as its last one.
LEMMA CheckReturns ==
    ASSUME SafeSetting, IndexInv, [Next]_vars, pc = "check", pc' \in {"reload", "fetch"}
    PROVE  /\ UNCHANGED <<store, torn>>
           /\ last' \in Highest(store) /\ Height(last') = rewindTo
           /\ late = "killed" => late' = "killed"
<1>1. CheckBlock
  BY StepsOfRewind
<1>2. view = store /\ BestOK /\ TypeOK
  BY <1>1 DEF CheckBlock, IsBestBlockAtHeight, CanSearch, SafeSetting, IndexInv, ControlInv, TypeInv
<1> DEFINE first(b) == IF best = NoBlock THEN b ELSE best
<1>3. PICK b \in BestBlocks :
        CASE b = NoBlock -> Fatal
          [] b # NoBlock /\ Height(b) # rewindTo -> UNCHANGED pc
          [] b # NoBlock /\ Height(b) = rewindTo ->
               /\ last' = first(b)
               /\ late' = IF late = "rewind" THEN "no" ELSE late
               /\ UNCHANGED store
  BY <1>1 DEF CheckBlock, IsBestBlockAtHeight
<1>4. /\ b # NoBlock /\ Height(b) = rewindTo /\ last' = first(b) /\ store' = store
      /\ late' = IF late = "rewind" THEN "no" ELSE late
  BY <1>3 DEF Fatal, Die
<1>7. torn' = torn
  BY <1>1 DEF CheckBlock
<1>5. b \in Highest(store) /\ first(b) \in Highest(store)
  BY <1>2, <1>4, NothingFound DEF BestOK
<1>6. Height(first(b)) = Height(b)
  <2>1. \A c \in store : Height(c) \in Nat
    BY <1>2, HeightFact DEF TypeOK
  <2> QED
    BY <1>5, <2>1 DEF Highest
<1> QED
  BY <1>4, <1>5, <1>6, <1>7

\* The rewind sets lastBlockIndexed to a block at the height it was asked for,
\* when checkBlock's searches see what the rewind has deleted.
THEOREM RewindReachesHeight ==
    ASSUME SafeSetting
    PROVE  Spec => RewoundToHeight
<1>1. IndexInv /\ [Next]_vars =>
        [pc = "check" /\ pc' \in {"reload", "fetch"} => Height(last') = rewindTo]_vars
  BY CheckReturns
<1> QED
  BY <1>1, Invariant, PTL DEF Spec, RewoundToHeight

\* It returns only when the index holds nothing above that height, and is the
\* chain of the block returned.
LEMMA ReturnsWithChain ==
    ASSUME SafeSetting, IndexInv, [Next]_vars, pc = "check", pc' \in {"reload", "fetch"}
    PROVE  /\ \A b \in store' : Height(b) <= rewindTo
           /\ Intact' => store' = Ancestry(last')
<1>1. /\ UNCHANGED <<store, torn>>
      /\ last' \in Highest(store) /\ Height(last') = rewindTo
      /\ late = "killed" => late' = "killed"
  BY CheckReturns
<1>2. store \in SUBSET Block /\ rewindTo \in Nat
  BY SizesAssumption DEF IndexInv, TypeInv, TypeOK
<1>3. \A b \in store' : Height(b) <= rewindTo
  BY <1>1 DEF Highest
<1>4. ASSUME Intact' PROVE store' = Ancestry(last')
  <2>1. ~ torn /\ late # "killed"
    BY <1>1, <1>4 DEF Intact
  <2>2. RewindKeepsChain(store, rewindTo)
    BY <2>1 DEF IndexInv, ChainInv
  <2>3. OneChain(store)
    BY <1>1, <1>2, <2>2, RewoundIsOneChain
  <2> QED
    BY <1>1, <1>2, <2>3, HighestOfChain
<1> QED
  BY <1>3, <1>4

\* The process goes on from a rewind only with an index that is the chain of the
\* block checkBlock returned and holds nothing above the height, also when the
\* search of DeleteHeightGT has missed blocks: checkBlock's search finds these,
\* and then does not return.
THEOREM RewindEndsInChain ==
    ASSUME SafeSetting
    PROVE  Spec => RewindLeavesChain
<1>1. IndexInv /\ [Next]_vars =>
        [pc = "check" /\ pc' \in {"reload", "fetch"} =>
            /\ \A b \in store' : Height(b) <= rewindTo
            /\ Intact' => store' = Ancestry(last')]_vars
  BY ReturnsWithChain
<1> QED
  BY <1>1, Invariant, PTL DEF Spec, RewindLeavesChain

\* When bulkIndex reports the best block as indexed, so is a block at each
\* height below it, whatever kills came before; a branch switch during the run
\* may make these blocks of different branches, but leaves no height out.
THEOREM BulkLeavesNoGap ==
    ASSUME SafeSetting
    PROVE  Spec => BulkIndexComplete
<1>1. ASSUME IndexInv, [Next]_vars, pc = "verify", pc' = "idle", late # "killed",
             NEW b \in Highest(view), NEW h \in 1 .. Height(b)
      PROVE  \E c \in store : Height(c) = h
  <2>1. phase = "batch" /\ view \subseteq store
    BY <1>1 DEF IndexInv, ControlInv, PhaseOK, ViewOK
  <2>2. b \in store
    BY <1>1, <2>1 DEF Highest
  <2>3. /\ store \in SUBSET Block /\ Height(last) \in Nat
        /\ Heights(store) = 1 .. Height(last)
    BY <1>1, HeightFact DEF IndexInv, HeightsInv, TypeInv, TypeOK
  <2>4. Height(b) \in Heights(store) /\ Height(b) \in Nat \ {0}
    BY <2>2, <2>3, HeightsFact
  <2>5. h \in Heights(store)
    BY <2>3, <2>4
  <2> QED
    BY <2>5 DEF Heights
<1>2. IndexInv /\ [Next]_vars =>
        [pc = "verify" /\ pc' = "idle" /\ late # "killed" =>
            \A b \in Highest(view) : \A h \in 1 .. Height(b) :
               \E c \in store : Height(c) = h]_vars
  BY <1>1
<1> QED
  BY <1>2, Invariant, PTL DEF Spec, BulkIndexComplete
=============================================================================
