------------------------- MODULE IndexerRefinement -------------------------
(***************************************************************************)
(* Indexer implements BlockIndex: proof that the trunk of the index never  *)
(* grows while there is debris above it.  What that takes beside IndexInv  *)
(* is that the blocks of an index, debris included, are of one chain, so   *)
(* that taking some of them away cannot mend a gap.                        *)
(***************************************************************************)
EXTENDS IndexerProofs, WellFoundedInduction

\* All blocks of S are of one chain, with gaps or without.
Linear(S) == \E c \in Block \cup {NoBlock} : S \subseteq Ancestry(c)

LinearInv == torn \/ late = "killed" \/ Linear(store)

-----------------------------------------------------------------------------
(* The trunk of a set of blocks *)

\* Some block is highest.
LEMMA GreatestHeight ==
    ASSUME NEW S \in SUBSET (Block \cup {NoBlock}), S # {}
    PROVE  \E b \in S : \A c \in S : Height(c) <= Height(b)
<1> DEFINE Gaps == {MaxHeight - Height(b) : b \in S}
           Less == {p \in Nat \X Nat : p[1] < p[2]}
<1>1. MaxHeight \in Nat /\ \A b \in S : Height(b) \in 0 .. MaxHeight
  BY SizesAssumption, BlockFact, NoBlockFact
<1>2. Gaps \subseteq Nat /\ Gaps # {}
  BY <1>1
<1>3. IsWellFoundedOn(Less, Nat)
  BY NatLessThanWellFounded DEF OpToRel
<1>4. PICK g \in Gaps : \A h \in Gaps : <<h, g>> \notin Less
  BY <1>2, <1>3, WFMin
<1>5. \A h \in Gaps : ~ (h < g)
  BY <1>2, <1>4
<1>6. PICK b \in S : g = MaxHeight - Height(b)
  BY <1>4
<1>7. \A c \in S : ~ (MaxHeight - Height(c) < MaxHeight - Height(b))
  BY <1>5, <1>6
<1>8. \A c \in S : Height(c) <= Height(b)
  BY <1>1, <1>7
<1> QED
  BY <1>8

\* No block is clean.
LEMMA NoBlockClean ==
    ASSUME NEW S \in SUBSET Block
    PROVE  Clean(S, NoBlock)
<1>1. \A c \in S : ~ (Height(c) <= Height(NoBlock))
  BY BlockFact, NoBlockFact
<1> QED
  BY <1>1, NoAncestry DEF Clean

\* Clean blocks of one height are the same.
LEMMA CleanUnique ==
    ASSUME NEW S \in SUBSET Block, NEW b \in S \cup {NoBlock}, NEW c \in S \cup {NoBlock},
           Clean(S, b), Clean(S, c), Height(b) = Height(c)
    PROVE  b = c
<1>1. CASE b = NoBlock \/ c = NoBlock
  BY <1>1, BlockFact, NoBlockFact
<1>2. CASE b # NoBlock /\ c # NoBlock
  <2>1. b \in Block /\ c \in Block
    BY <1>2
  <2>2. b \in Ancestry(c)
    BY <2>1, TopOfChain DEF Clean
  <2>3. b = BlockAt(c, Height(c))
    BY <2>1, <2>2, MemberOfChain
  <2> QED
    BY <2>1, <2>3, BlockAtTop, BlockFact
<1> QED
  BY <1>1, <1>2

\* The trunk is the highest clean block.
LEMMA TrunkFact ==
    ASSUME NEW S \in SUBSET Block
    PROVE  /\ Trunk(S) \in S \cup {NoBlock}
           /\ Clean(S, Trunk(S))
           /\ \A c \in S \cup {NoBlock} : Clean(S, c) => Height(c) <= Height(Trunk(S))
<1> DEFINE C == {b \in S \cup {NoBlock} : Clean(S, b)}
<1>1. C \in SUBSET (Block \cup {NoBlock}) /\ C # {}
  BY NoBlockClean
<1>2. \E b \in C : \A c \in C : Height(c) <= Height(b)
  <2> HIDE DEF C
  <2> QED
    BY <1>1, GreatestHeight
<1>3. \E b \in S \cup {NoBlock} :
         Clean(S, b) /\ \A c \in S : Clean(S, c) => Height(c) <= Height(b)
  BY <1>2
<1>4. /\ Trunk(S) \in S \cup {NoBlock}
      /\ Clean(S, Trunk(S))
      /\ \A c \in S : Clean(S, c) => Height(c) <= Height(Trunk(S))
  BY <1>3 DEF Trunk
<1>5. Height(NoBlock) <= Height(Trunk(S))
  BY <1>4, HeightFact, NoBlockFact
<1> QED
  BY <1>4, <1>5

\* There is only one highest clean block.
LEMMA TrunkIs ==
    ASSUME NEW S \in SUBSET Block, NEW b \in S \cup {NoBlock}, Clean(S, b),
           \A c \in S : Height(c) <= Height(b)
    PROVE  Trunk(S) = b
<1>1. /\ Trunk(S) \in S \cup {NoBlock} /\ Clean(S, Trunk(S))
      /\ Height(b) <= Height(Trunk(S))
  BY TrunkFact
<1>2. Height(Trunk(S)) \in Nat /\ Height(b) \in Nat
  BY <1>1, HeightFact
<1>3. Height(Trunk(S)) <= Height(b)
  BY <1>1, <1>2, NoBlockFact
<1> QED
  BY <1>1, <1>2, <1>3, CleanUnique

\* Debris is how far the highest block is above the trunk.
LEMMA DebrisFact ==
    ASSUME NEW S \in SUBSET Block, Anchored(S, ReindexSize)
    PROVE  Debris(S) \in 0 .. ReindexSize
<1>1. CASE S = {}
  BY <1>1, SizesAssumption DEF Debris
<1>2. CASE S # {}
  <2>1. PICK t \in S : \A c \in S : Height(c) <= Height(t)
    BY <1>2, GreatestHeight
  <2>2. \A b \in Highest(S) : Height(b) = Height(t)
    BY <2>1, HeightFact DEF Highest
  <2>3. t \in Highest(S)
    BY <2>1 DEF Highest
  <2>4. {Height(b) : b \in Highest(S)} = {Height(t)}
    BY <2>2, <2>3
  <2>5. Debris(S) = Height(t) - Height(Trunk(S))
    BY <1>2, <2>4 DEF Debris
  <2>6. PICK b \in S \cup {NoBlock} :
           Clean(S, b) /\ \A c \in S : Height(c) <= Height(b) + ReindexSize
    BY DEF Anchored
  <2>7. Trunk(S) \in S \cup {NoBlock} /\ Height(b) <= Height(Trunk(S))
    BY <2>6, TrunkFact
  <2>8. Height(Trunk(S)) <= Height(t)
    BY <2>1, <2>7, HeightFact, NoBlockFact
  <2>9. /\ Height(t) \in Nat /\ Height(Trunk(S)) \in Nat /\ Height(b) \in Nat
        /\ ReindexSize \in Nat
    BY <2>7, HeightFact, SizesAssumption
  <2> QED
    BY <2>1, <2>5, <2>6, <2>7, <2>8, <2>9
<1> QED
  BY <1>1, <1>2

\* One chain is all trunk.
LEMMA ChainIsTrunk ==
    ASSUME NEW b \in Block \cup {NoBlock}
    PROVE  Trunk(Ancestry(b)) = b /\ Debris(Ancestry(b)) = 0
<1> DEFINE S == Ancestry(b)
<1>1. S \in SUBSET Block /\ \A c \in S : Height(c) \in 1 .. Height(b)
  BY MemberOfChain
<1>2. b \in S \cup {NoBlock}
  BY TopOfChain
<1>3. Height(b) \in Nat
  BY HeightFact
<1>4. Clean(S, b)
  BY <1>1, <1>3 DEF Clean
<1>5. Trunk(S) = b
  BY <1>1, <1>2, <1>3, <1>4, TrunkIs
<1>6. CASE b = NoBlock
  BY <1>5, <1>6, NoAncestry DEF Debris
<1>7. CASE b # NoBlock
  <2>1. b \in Highest(S)
    BY <1>1, <1>2, <1>3, <1>7 DEF Highest
  <2>2. \A c \in Highest(S) : Height(c) = Height(b)
    BY <1>1, <1>2, <1>3, <1>7 DEF Highest
  <2>3. {Height(c) : c \in Highest(S)} = {Height(b)}
    BY <2>1, <2>2
  <2> QED
    BY <1>2, <1>3, <1>5, <1>7, <2>3 DEF Debris
<1> QED
  BY <1>5, <1>6, <1>7

-----------------------------------------------------------------------------
(* The steps of the index *)

\* Blocks of one chain that are taken away shorten the trunk, and never mend a
\* gap.
LEMMA TrunkShortened ==
    ASSUME NEW S \in SUBSET Block, Linear(S), NEW T \in SUBSET S
    PROVE  \E h \in 0 .. Height(Trunk(S)) : Trunk(T) = BlockAt(Trunk(S), h)
<1> DEFINE s == Trunk(S)
           t == Trunk(T)
<1>1. PICK c \in Block \cup {NoBlock} : S \subseteq Ancestry(c)
  BY DEF Linear
<1>2. /\ s \in S \cup {NoBlock} /\ t \in T \cup {NoBlock}
      /\ Clean(S, s) /\ Clean(T, t)
      /\ \A d \in S \cup {NoBlock} : Clean(S, d) => Height(d) <= Height(s)
  BY TrunkFact
<1>3. s \in Seq(Mark) /\ Height(s) \in Nat /\ Height(t) \in Nat
  BY <1>2, HeightFact
<1>4. CASE t = NoBlock
  <2>1. t = BlockAt(s, 0)
    BY <1>3, <1>4, BlockAtZero
  <2>2. 0 \in 0 .. Height(s)
    BY <1>3
  <2> QED
    BY <2>1, <2>2
<1>5. CASE t # NoBlock
  <2>1. t \in T /\ t \in Ancestry(c) /\ c \in Seq(Mark)
    BY <1>1, <1>2, <1>5, HeightFact
  <2>2. Height(t) \in 1 .. Height(c) /\ t = BlockAt(c, Height(t))
    BY <1>1, <2>1, MemberOfChain
  <2>3. {d \in Ancestry(c) : Height(d) <= Height(t)} = Ancestry(t)
    BY <1>1, <2>2, CutChain
  <2>4. {d \in T : Height(d) <= Height(t)} = Ancestry(t)
    BY <1>2 DEF Clean
  <2>5. {d \in S : Height(d) <= Height(t)} = Ancestry(t)
    BY <1>1, <2>3, <2>4
  <2>6. Height(t) <= Height(s)
    BY <1>2, <2>1, <2>5 DEF Clean
  <2>7. s \in S
    BY <1>2, <2>2, <2>6, NoBlockFact
  <2>8. Height(s) \in 1 .. Height(c) /\ s = BlockAt(c, Height(s))
    BY <1>1, <2>7, MemberOfChain
  <2>9. BlockAt(s, Height(t)) = BlockAt(c, Height(t))
    BY <1>3, <2>1, <2>2, <2>6, <2>8, BlockAtBlockAt DEF Height
  <2> QED
    BY <1>3, <2>2, <2>6, <2>9
<1> QED
  BY <1>4, <1>5

\* Blocks of one chain, added to the beginning of that chain, leave the trunk as
\* it is or lengthen it.
LEMMA TrunkExtended ==
    ASSUME NEW b \in Block \cup {NoBlock}, NEW k \in 0 .. Height(b),
           NEW T \in SUBSET Ancestry(b), Ancestry(BlockAt(b, k)) \subseteq T
    PROVE  /\ Trunk(T) \in Seq(Mark)
           /\ Height(Trunk(T)) >= k
           /\ BlockAt(Trunk(T), k) = BlockAt(b, k)
<1> DEFINE a == BlockAt(b, k)
           t == Trunk(T)
<1>1. /\ a \in Block \cup {NoBlock} /\ Height(a) = k
      /\ {c \in Ancestry(b) : Height(c) <= k} = Ancestry(a)
  BY CutChain
<1>2. T \in SUBSET Block /\ b \in Seq(Mark) /\ k \in Nat
  BY MemberOfChain, HeightFact
<1>3. Clean(T, a)
  BY <1>1 DEF Clean
<1>4. a \in T \cup {NoBlock}
  BY <1>1, TopOfChain
<1>5. t \in T \cup {NoBlock} /\ Height(t) >= k
  BY <1>1, <1>2, <1>3, <1>4, TrunkFact, HeightFact
<1>6. t \in Seq(Mark) /\ Height(t) \in Nat
  BY <1>2, <1>5, HeightFact
<1>7. BlockAt(t, k) = a
  <2>1. CASE t = NoBlock
    <3>1. k = 0
      BY <1>2, <1>5, <2>1, NoBlockFact
    <3> QED
      BY <1>2, <1>6, <3>1, BlockAtZero
  <2>2. CASE t # NoBlock
    <3>1. Height(t) \in 1 .. Height(b) /\ t = BlockAt(b, Height(t))
      BY <1>5, <2>2, MemberOfChain
    <3> QED
      BY <1>2, <1>5, <1>6, <3>1, BlockAtBlockAt DEF Height
  <2> QED
    BY <2>1, <2>2
<1> QED
  BY <1>5, <1>6, <1>7

\* Whatever of a call to Elasticsearch is done, the blocks of the index are still
\* of one chain, and the index has taken a step of BlockIndex.
LEMMA LeftoversStep ==
    ASSUME SafeSetting, IndexInv, ~ torn, late # "killed", Linear(store), NEW S \in Leftovers
    PROVE  /\ S \in SUBSET Block /\ Linear(S)
           /\ late = "no" => Debris(S) \in 0 .. ReindexSize
           /\ \/ \E h \in 0 .. Height(Trunk(store)) : Trunk(S) = BlockAt(Trunk(store), h)
              \/ /\ Debris(store) = 0
                 /\ Trunk(S) \in Seq(Mark)
                 /\ Height(Trunk(S)) >= Height(Trunk(store))
                 /\ BlockAt(Trunk(S), Height(Trunk(store))) = Trunk(store)
<1>1. /\ TypeInv /\ ControlInv /\ ChainInv
      /\ store \in SUBSET Block /\ last \in Block \cup {NoBlock}
  BY DEF IndexInv, TypeInv, TypeOK
<1>2. ASSUME late = "no", S \in SUBSET Block PROVE Debris(S) \in 0 .. ReindexSize
  <2>1. Anchored(S, ReindexSize)
    BY <1>1, <1>2, LeftoversAnchored
  <2> QED
    BY <1>2, <2>1, DebrisFact
<1>3. CASE pc \notin {"build", "persist", "flush"}
  <2>1. S \in SUBSET store
    BY <1>3 DEF Leftovers
  <2>2. Linear(S)
    BY <2>1 DEF Linear
  <2> QED
    BY <1>1, <1>2, <2>1, <2>2, TrunkShortened
<1>4. CASE pc \in {"build", "persist", "flush"}
  <2>1. Backlog
    BY <1>1, <1>4 DEF ChainInv
  <2>2. PICK k \in 0 .. Height(last) : store = Ancestry(BlockAt(last, k))
    BY <2>1 DEF Backlog
  <2>3. store \cup Requested(pending, "index") = Ancestry(last)
    BY <1>1, <2>1, BacklogPersisted DEF TypeInv
  <2>4. store \subseteq S /\ S \in SUBSET Ancestry(last)
    BY <1>4, <2>3 DEF Leftovers
  <2>5. S \in SUBSET Block /\ Linear(S)
    BY <1>1, <2>4, MemberOfChain DEF Linear
  <2>6. BlockAt(last, k) \in Block \cup {NoBlock} /\ Height(BlockAt(last, k)) = k
    BY <1>1, CutChain
  <2>7. Trunk(store) = BlockAt(last, k) /\ Debris(store) = 0
    BY <2>2, <2>6, ChainIsTrunk
  <2>8. /\ Trunk(S) \in Seq(Mark) /\ Height(Trunk(S)) >= k
        /\ BlockAt(Trunk(S), k) = BlockAt(last, k)
    BY <1>1, <2>2, <2>4, TrunkExtended
  <2> QED
    BY <1>2, <2>5, <2>6, <2>7, <2>8
<1> QED
  BY <1>3, <1>4

\* Every step leaves the index as it is, or leaves some of what a call to
\* Elasticsearch may; only a bulk run tears it, and only a new index is whole
\* again.
LEMMA StoreSteps ==
    ASSUME TypeInv, SafeSetting, [Next]_vars
    PROVE  \/ store' = {} /\ ~ torn'
           \/ store' \in Leftovers /\ torn' = torn
           \/ store' = store /\ torn'
<1>1. store \in Leftovers
  BY StoreLeft
<1>2. store \cup Requested(pending, "index") \in
         {store \cup S : S \in SUBSET Requested(pending, "index")}
  OBVIOUS
<1>3. CASE Extend \/ Reorg \/ Refresh \/ UNCHANGED vars
  BY <1>1, <1>3 DEF Extend, Reorg, Refresh, vars, storeVars
<1>4. CASE Crash \/ Reindex
  BY <1>4 DEF Crash, Reindex
<1>5. CASE Start \/ RewindAtStart \/ RewindAddresses \/ StartBulk \/ SingleIndex \/ FetchBlock
  BY <1>1, <1>5 DEF Start, RewindAtStart, RewindAddresses, StartBulk, SingleIndex, FetchBlock,
     storeVars
<1>6. CASE ReloadBestBlock \/ RewindRefused \/ HeightOutOfRange \/ RewindOrphan \/ FinishBulk
  BY <1>1, <1>6 DEF ReloadBestBlock, RewindRefused, HeightOutOfRange, RewindOrphan, FinishBulk,
     Fatal
<1>7. CASE CheckBlock
  <2>1. store' = store /\ torn' = torn
    <3>1. PICK b \in BestBlocks :
          LET first == IF best = NoBlock THEN b ELSE best
          IN  CASE b = NoBlock -> Fatal
                [] b # NoBlock /\ Height(b) # rewindTo ->
                     /\ best' = first
                     /\ UNCHANGED <<store, pending, last, pc, phase, height,
                                    target, rewindTo, block, message, late>>
                [] b # NoBlock /\ Height(b) = rewindTo ->
                     /\ last' = first
                     /\ best' = NoBlock
                     /\ rewindTo' = 0
                     /\ late' = IF late = "rewind" THEN "no" ELSE late
                     /\ IF phase = "boot"
                        THEN pc' = "reload" /\ UNCHANGED height
                        ELSE IndexNext(first)
                     /\ UNCHANGED <<store, pending, phase, target, block,
                                    message>>
      BY <1>7 DEF CheckBlock, IsBestBlockAtHeight
    <3>2. torn' = torn
      BY <1>7 DEF CheckBlock
    <3>3. CASE b = NoBlock
      BY <3>1, <3>2, <3>3 DEF Fatal
    <3>4. CASE b # NoBlock /\ Height(b) # rewindTo
      BY <3>1, <3>2, <3>4
    <3>5. CASE b # NoBlock /\ Height(b) = rewindTo
      BY <3>1, <3>2, <3>5
    <3> QED
      BY <3>3, <3>4, <3>5
  <2> QED
    BY <1>1, <2>1
<1>8. CASE DeleteBlocks
  BY <1>8 DEF DeleteBlocks, Leftovers
<1>9. CASE PersistForPreviousTx \/ FlushBulk
  BY <1>2, <1>9 DEF PersistForPreviousTx, FlushBulk, Persisted, Leftovers
<1>10. CASE BuildBlock
  <2>1. store' = store /\ (torn' = torn \/ torn')
    BY <1>10 DEF BuildBlock, Fatal, TypeInv, TypeOK
  <2> QED
    BY <1>1, <2>1
<1>11. CASE PersistBlock
  <2>1. pc = "persist" /\ torn' = torn
    BY <1>11 DEF PersistBlock
  <2>2. CASE ~ PersistDue
    BY <1>1, <1>11, <2>1, <2>2 DEF PersistBlock
  <2>3. CASE PersistDue /\ PersistFails
    BY <1>11, <2>1, <2>3 DEF PersistBlock
  <2>4. CASE PersistDue /\ ~ PersistFails
    BY <1>2, <1>11, <2>1, <2>4 DEF PersistBlock, Persisted, Leftovers
  <2> QED
    BY <2>2, <2>3, <2>4
<1> QED
  BY <1>3, <1>4, <1>5, <1>6, <1>7, <1>8, <1>9, <1>10, <1>11 DEF Next, Environment, Process

-----------------------------------------------------------------------------
(* The refinement *)

\* The blocks of an index are of one chain unless it is torn, or the process was
\* killed in a rewind that a late search has misled.
LEMMA StaysLinear ==
    ASSUME SafeSetting, IndexInv, LinearInv, [Next]_vars
    PROVE  LinearInv'
<1>1. Linear({})
  BY DEF Linear
<1>2. torn \in BOOLEAN /\ TypeInv
  BY DEF IndexInv, TypeInv, TypeOK
<1>3. CASE store' = {}
  BY <1>1, <1>3 DEF LinearInv
<1>4. CASE store' \in Leftovers /\ torn' = torn
  <2>1. CASE Reindex
    BY <1>3, <2>1 DEF Reindex
  <2>2. CASE torn \/ late' = "killed"
    BY <1>4, <2>2 DEF LinearInv
  <2>3. CASE ~ Reindex /\ ~ torn /\ late' # "killed"
    <3>1. late # "killed"
      BY <2>3, StaysKilled
    <3>2. Linear(store)
      BY <2>3, <3>1 DEF LinearInv
    <3>3. Linear(store')
      BY <1>4, <2>3, <3>1, <3>2, LeftoversStep
    <3> QED
      BY <3>3 DEF LinearInv
  <2> QED
    BY <2>1, <2>2, <2>3
<1>5. CASE store' = store /\ torn'
  BY <1>5 DEF LinearInv
<1> QED
  BY <1>2, <1>3, <1>4, <1>5, StoreSteps

\* A rewind that a late search has misled ends in one chain.
LEMMA LateRewindEnds ==
    ASSUME SafeSetting, IndexInv, [Next]_vars, ~ Intact, Intact', torn' = torn
    PROVE  \E b \in Block \cup {NoBlock} : store' = Ancestry(b)
<1>1. torn \in BOOLEAN /\ ~ torn /\ late # "no" /\ late' = "no"
  BY DEF Intact, IndexInv, TypeInv, TypeOK
<1>2. CASE Reindex
  BY <1>2, NoAncestry DEF Reindex
<1>3. CASE pc = "check" /\ pc' \in {"reload", "fetch"}
  <2>1. store' = Ancestry(last') /\ last' \in Highest(store)
    BY <1>3, ReturnsWithChain, CheckReturns
  <2>2. last' \in Block
    BY <2>1 DEF Highest, IndexInv, TypeInv, TypeOK
  <2> QED
    BY <2>1, <2>2
<1> QED
  BY <1>1, <1>2, <1>3, LateSteps DEF Die

\* Every step is a step of BlockIndex, or none.
LEMMA StepRefines ==
    ASSUME SafeSetting, IndexInv, LinearInv, [Next]_vars
    PROVE  [Index!Next]_<<IF Intact THEN Trunk(store) ELSE NoBlock,
                          IF Intact THEN Debris(store) ELSE 0>>
<1> DEFINE trunk  == IF Intact THEN Trunk(store) ELSE NoBlock
           debris == IF Intact THEN Debris(store) ELSE 0
<1>1. /\ torn \in BOOLEAN /\ TypeInv /\ store \in SUBSET Block
      /\ ReindexSize \in Nat
  BY SizesAssumption DEF IndexInv, TypeInv, TypeOK
<1>2. Trunk({}) = NoBlock /\ Debris({}) = 0
  BY NoAncestry, NoBlockFact, ChainIsTrunk
<1>3. trunk \in Block \cup {NoBlock}
  BY <1>1, TrunkFact
<1>4. trunk \in Seq(Mark) /\ Height(trunk) \in Nat
  BY <1>3, HeightFact
<1>5. ASSUME trunk' = NoBlock, debris' = 0 PROVE Index!Next
  <2>1. NoBlock = BlockAt(trunk, 0) /\ 0 \in 0 .. Height(trunk)
    BY <1>4, BlockAtZero
  <2> QED
    BY <1>5, <2>1 DEF Index!Next, Index!Cut, Index!Shortened, Index!BlockAt, BlockAt,
       Index!Height, Height
<1>6. CASE store' = {} /\ ~ torn'
  BY <1>2, <1>5, <1>6
<1>7. CASE ~ Intact'
  BY <1>5, <1>7
<1>8. CASE store' \in Leftovers /\ torn' = torn /\ Intact /\ Intact'
  <2>1. /\ Linear(store) /\ trunk = Trunk(store) /\ debris = Debris(store)
        /\ trunk' = Trunk(store') /\ debris' = Debris(store')
        /\ ~ torn /\ late = "no"
    BY <1>8 DEF LinearInv, Intact
  <2>2. /\ debris' \in 0 .. ReindexSize
        /\ \/ \E h \in 0 .. Height(trunk) : trunk' = BlockAt(trunk, h)
           \/ /\ debris = 0
              /\ trunk' \in Seq(Mark)
              /\ Height(trunk') >= Height(trunk)
              /\ BlockAt(trunk', Height(trunk)) = trunk
    BY <1>8, <2>1, LeftoversStep
  <2>3. debris' = 0 \/ debris' \in 1 .. ReindexSize
    BY <1>1, <2>2
  <2>4. CASE \E h \in 0 .. Height(trunk) : trunk' = BlockAt(trunk, h)
    <3>1. Index!Shortened
      BY <2>4 DEF Index!Shortened, Index!BlockAt, BlockAt, Index!Height, Height
    <3> QED
      BY <2>3, <3>1 DEF Index!Next, Index!Cut, Index!Break
  <2>5. CASE /\ debris = 0
             /\ trunk' \in Seq(Mark)
             /\ Height(trunk') >= Height(trunk)
             /\ BlockAt(trunk', Height(trunk)) = trunk
    <3>1. Index!Extended
      BY <2>5 DEF Index!Extended, Index!BlockAt, BlockAt, Index!Height, Height
    <3> QED
      BY <2>3, <2>5, <3>1 DEF Index!Next, Index!Grow, Index!Break
  <2> QED
    BY <2>2, <2>4, <2>5
<1>9. CASE torn' = torn /\ ~ Intact /\ Intact'
  <2>1. PICK b \in Block \cup {NoBlock} : store' = Ancestry(b)
    BY <1>9, LateRewindEnds
  <2>2. Trunk(store') = b /\ Debris(store') = 0
    BY <2>1, ChainIsTrunk
  <2>3. trunk = NoBlock /\ debris = 0 /\ trunk' = b /\ debris' = 0
    BY <1>9, <2>2
  <2>4. b \in Seq(Mark) /\ Height(b) \in Nat
    BY HeightFact
  <2>5. BlockAt(b, 0) = NoBlock
    BY <2>4, BlockAtZero
  <2>6. /\ trunk' \in Seq(Mark) /\ Height(trunk') >= Height(trunk)
        /\ BlockAt(trunk', Height(trunk)) = trunk
    <3> HIDE DEF trunk, debris
    <3> QED
      BY <2>3, <2>4, <2>5, NoBlockFact
  <2>7. Index!Extended
    BY <2>6 DEF Index!Extended, Index!BlockAt, BlockAt, Index!Height, Height
  <2> QED
    BY <2>3, <2>7 DEF Index!Next, Index!Grow
<1>10. torn' => ~ Intact'
  BY DEF Intact
<1> QED
  BY <1>1, <1>6, <1>7, <1>8, <1>9, <1>10, StoreSteps

\* The index implements BlockIndex: whatever a kill leaves above the trunk is
\* within the reach of a rewind, and is gone before the trunk grows again.
THEOREM RepairsBeforeGrowing ==
    ASSUME SafeSetting
    PROVE  Spec => RepairedBeforeGrowing
<1>1. Init => LinearInv
  BY DEF Init, LinearInv, Linear
<1>2. Init => Index!Init
  <2>1. Trunk({}) = NoBlock /\ Debris({}) = 0
    BY NoAncestry, NoBlockFact, ChainIsTrunk
  <2> QED
    BY <2>1 DEF Init, Intact, Index!Init, Index!NoBlock, NoBlock
<1>3. IndexInv /\ LinearInv /\ [Next]_vars => LinearInv'
  BY StaysLinear
<1>4. IndexInv /\ LinearInv /\ [Next]_vars =>
         [Index!Next]_<<IF Intact THEN Trunk(store) ELSE NoBlock,
                        IF Intact THEN Debris(store) ELSE 0>>
  BY StepRefines
<1>5. Spec => []IndexInv
  BY Invariant
<1> QED
  BY <1>1, <1>2, <1>3, <1>4, <1>5, PTL DEF Spec, RepairedBeforeGrowing, Index!Spec

=============================================================================
