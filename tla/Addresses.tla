----------------------------- MODULE Addresses -----------------------------
(***************************************************************************)
(* The address index: for each address its history, one document for each  *)
(* transaction that touches it, and the address document with the balance  *)
(* after the last of them.  Documents are written in batches during the    *)
(* bulk run and block by block afterwards; a rewind deletes histories and  *)
(* resets the addresses to what is left.                                   *)
(*                                                                         *)
(* A balance counts the transactions that touch an address.  The block     *)
(* index is taken as Indexer shows it to be: it grows or is cut back, and  *)
(* every start begins with a rewind unless it is empty.                    *)
(***************************************************************************)
EXTENDS Integers, Sequences, FiniteSets

CONSTANTS
    Address,       \* addresses navcoind keeps histories of
    MultiSig,      \* keys of multi signature outputs, which it does not know
    Blocks,        \* the blocks there may be: sequences of transactions
    MaxTxs,        \* the most transactions a block has
    BatchSize,     \* config.BulkIndexSize
    ReindexSize,   \* config.ReindexSize
    Targets,       \* the heights a bulk run may end at, 0 for no bulk run
    MayFlush,      \* may block.Index persist in the middle of a batch?
    LagSites,      \* the searches that may meet an index not yet refreshed
    FinalHeight,   \* blocks indexed at first, which touch no key
    MaxHeight,     \* bound on the height of the chain
    MaxKills       \* bound on the number of kills

\* A transaction is the set of the keys it touches.
Key == Address \cup MultiSig

\* The searches of GetOrCreateAddress and GetLatestHistoryByHash.
Sites == {"address", "history"}

ASSUME AddressesAssumption ==
    /\ Address \cap MultiSig = {}
    /\ Blocks \subseteq Seq(SUBSET Key) /\ <<{}>> \in Blocks
    /\ MaxTxs \in Nat /\ \A b \in Blocks : Len(b) <= MaxTxs
    /\ BatchSize \in Nat \ {0} /\ ReindexSize \in Nat /\ BatchSize <= ReindexSize
    /\ Targets \subseteq {0} \cup {t \in Nat : t >= BatchSize}
    /\ MayFlush \in BOOLEAN
    /\ LagSites \subseteq Sites
    /\ FinalHeight \in Nat /\ MaxHeight \in Nat \ {0} /\ FinalHeight <= MaxHeight
    /\ MaxKills \in Nat

VARIABLES
    target,     \* height at which the bulk run ends, 0 for no bulk run
    chain,      \* the blocks indexed, those of an unfinished batch included
    top,        \* how many of them are persisted
    docs,       \* the documents: [histories, addresses]
    seen,       \* the documents as of the last refresh
    requests,   \* the documents in the request cache
    oldest,     \* first block whose transactions are in the request cache
    cache,      \* the addresses in the shared cache
    pc,         \* where the process stands
    phase,      \* "boot", "batch" or "single"
    rewindTo,   \* argument of Rewind
    reset,      \* the addresses the rewind still has to reset
    kills       \* kills so far

blockVars  == <<target, chain, top>>
memoryVars == <<requests, oldest, cache>>
vars == <<blockVars, docs, seen, memoryVars, pc, phase, rewindTo, reset, kills>>

History == [key : Key, height : 1 .. MaxHeight, tx : 1 .. MaxTxs, balance : Nat]

None    == [height |-> -1, balance |-> 0]   \* there is no document
Created == [height |-> 0, balance |-> 0]    \* as CreateAddress returns it

AddressDoc == [height : 0 .. MaxHeight, balance : Nat] \cup {None}

Documents == [histories : SUBSET History, addresses : [Key -> AddressDoc]]

NoAddresses == [k \in Key |-> None]
NoDocuments == [histories |-> {}, addresses |-> NoAddresses]

TypeOK ==
    /\ target \in Targets
    /\ chain \in Seq(Blocks) /\ Len(chain) <= MaxHeight
    /\ top \in 0 .. Len(chain)
    /\ docs \in Documents /\ seen \in Documents /\ requests \in Documents
    /\ oldest \in 1 .. Len(chain) + 1
    /\ cache \in [Key -> AddressDoc]
    /\ pc \in {"down", "index", "read", "delete", "reset", "blocks"}
    /\ phase \in {"boot", "batch", "single"}
    /\ rewindTo \in 0 .. MaxHeight
    /\ reset \subseteq Key
    /\ kills \in 0 .. MaxKills

Init ==
    /\ target \in Targets
    /\ chain = [h \in 1 .. FinalHeight |-> <<{}>>] /\ top = FinalHeight
    /\ docs = NoDocuments /\ seen = NoDocuments
    /\ requests = NoDocuments /\ oldest = FinalHeight + 1 /\ cache = NoAddresses
    /\ pc = "down" /\ phase = "boot"
    /\ rewindTo = 0 /\ reset = {}
    /\ kills = 0

CanSearch(site) == site \in LagSites \/ seen = docs

Refresh ==
    /\ seen # docs
    /\ seen' = docs
    /\ UNCHANGED <<blockVars, docs, memoryVars, pc, phase, rewindTo, reset, kills>>

-----------------------------------------------------------------------------
(* Documents *)

SameSlug(g, h) == g.key = h.key /\ g.height = h.height /\ g.tx = h.tx

\* Documents after others are written over those with the same slug.
Written(old, new) ==
    [histories |-> new.histories \cup
                   {h \in old.histories : ~ \E g \in new.histories : SameSlug(g, h)},
     addresses |-> [k \in Key |-> IF new.addresses[k] = None THEN old.addresses[k]
                                  ELSE new.addresses[k]]]

Later(g, h) == g.height > h.height \/ (g.height = h.height /\ g.tx > h.tx)

\* The address after the last of some histories of it, Created without any.
Latest(hs) ==
    IF hs = {} THEN Created
    ELSE LET l == CHOOSE g \in hs : \A h \in hs \ {g} : Later(g, h)
         IN  [height |-> l.height, balance |-> l.balance]

HistoriesOf(hs, k) == {h \in hs : h.key = k}

-----------------------------------------------------------------------------
(* Indexing a block *)

\* The places where a key is touched in some blocks of a chain.
Touches(c, from, to, k) ==
    {p \in (from .. to) \X (1 .. MaxTxs) : p[2] \in DOMAIN c[p[1]] /\ k \in c[p[1]][p[2]]}

\* The balance after a transaction: how many have touched the key.
BalanceAt(c, k, p) ==
    Cardinality({q \in Touches(c, 1, p[1], k) : q[1] < p[1] \/ q[2] <= p[2]})

\* navcoind's answer for an address.
AddressHistory(c, from, to, k) ==
    {[key |-> k, height |-> p[1], tx |-> p[2], balance |-> BalanceAt(c, k, p)]
       : p \in Touches(c, from, to, k)}

\* Mutant of AddressHistories: the addresses of the last block only.
LastBlockHistories(c, from, to) ==
    UNION {AddressHistory(c, from, to, k) : k \in {j \in Address : Touches(c, to, to, j) # {}}}

\* indexAddresses: the addresses of the transactions in the request cache, with
\* their histories between two heights.
AddressHistories(c, from, to) ==
    LET waiting == {k \in Address : Touches(c, oldest, to, k) # {}}
    IN  UNION {AddressHistory(c, from, to, k) : k \in waiting}

\* getAddress: the shared cache is used in the bulk run only.
Cached(k) == phase = "batch" /\ cache[k] # None

Found(k) == IF Cached(k) THEN cache[k]
            ELSE IF seen.addresses[k] # None THEN seen.addresses[k] ELSE Created

\* indexMultiSigs: the balance is the one found plus the change.  What the
\* previous transaction of the same block has written is found in the bulk run
\* only.
MultiSigHistory(c, to, k) ==
    {[key |-> k, height |-> to, tx |-> p[2],
      balance |-> Found(k).balance +
          IF phase = "batch"
          THEN Cardinality({q \in Touches(c, to, to, k) : q[2] <= p[2]}) ELSE 1]
       : p \in Touches(c, to, to, k)}

MultiSigHistories(c, to) == UNION {MultiSigHistory(c, to, k) : k \in MultiSig}

\* In the bulk run addresses are indexed at the end of a batch, for the blocks of
\* the batch, and the multi signatures of its last block only.
AddressesDue(height) ==
    phase = "single" \/ height % BatchSize = 0 \/ height = target

\* Mutant of From: the first block of the batch is left out.
FromSecond(height) == IF phase = "single" THEN height ELSE height - BatchSize + 2

From(height) == IF phase = "single" THEN height ELSE height - BatchSize + 1

\* The histories requested at the end of a block.
NewHistories(c, height) ==
    IF AddressesDue(height)
    THEN AddressHistories(c, From(height), height) \cup MultiSigHistories(c, height)
    ELSE {}

Updated(new) == {h.key : h \in new}

Values(new) ==
    [k \in Key |-> IF k \in Updated(new) THEN Latest(HistoriesOf(new, k)) ELSE None]

IndexBlock ==
    /\ pc = "index"
    /\ Len(chain) < MaxHeight
    /\ IF phase = "single" THEN top = Len(chain)
       ELSE Len(chain) < target /\ (top = Len(chain) \/ Len(chain) % BatchSize # 0)
    /\ CanSearch("address")
    /\ \E b \in Blocks : chain' = Append(chain, b)
    /\ LET new == NewHistories(chain', Len(chain'))
       IN  /\ requests' = Written(requests, [histories |-> new, addresses |-> Values(new)])
           /\ cache' = [k \in Key |-> IF k \in Updated(new) THEN Values(new)[k] ELSE cache[k]]
           \* GetOrCreateAddress saves the addresses it creates at once
           /\ docs' = [docs EXCEPT !.addresses =
                          [k \in Key |-> IF /\ k \in Updated(new) /\ ~ Cached(k)
                                            /\ seen.addresses[k] = None
                                         THEN Created ELSE @[k]]]
    /\ UNCHANGED <<target, top, seen, oldest, pc, phase, rewindTo, reset, kills>>

\* Persist, at the end of a block, a batch or the bulk run, or because a
\* previous transaction of the next block is missing (indexPreviousTxData).
PersistDue ==
    \/ phase = "single" \/ Len(chain) % BatchSize = 0 \/ Len(chain) >= target
    \/ MayFlush

Persist ==
    /\ pc = "index"
    /\ top < Len(chain)
    /\ PersistDue
    /\ docs' = Written(docs, requests)
    /\ top' = Len(chain)
    /\ requests' = NoDocuments
    /\ oldest' = Len(chain) + 1
    /\ UNCHANGED <<target, chain, seen, cache, pc, phase, rewindTo, reset, kills>>

FinishBulk ==
    /\ pc = "index" /\ phase = "batch"
    /\ Len(chain) >= target /\ top = Len(chain)
    /\ phase' = "single"
    /\ UNCHANGED <<blockVars, docs, seen, memoryVars, pc, rewindTo, reset, kills>>

-----------------------------------------------------------------------------
(* Start and rewind *)

\* Index returns at once when the next block of an index that has blocks already
\* is the target.
LeftToSingle(c) == c # <<>> /\ Len(c) + 1 = target

\* The process starts to index: in a bulk run, unless there is none to do.
StartIndex(c) ==
    /\ pc' = "index"
    /\ phase' = IF Len(c) < target /\ ~ LeftToSingle(c) THEN "batch" ELSE "single"

\* Mutant of TargetHeight: without its guard.
TargetHeightUnguarded == Len(chain) - ReindexSize

\* daemon.targetHeight
TargetHeight == IF Len(chain) >= ReindexSize THEN Len(chain) - ReindexSize ELSE 0

Start ==
    /\ pc = "down"
    /\ IF chain = <<>>
       THEN StartIndex(chain) /\ UNCHANGED rewindTo
       ELSE /\ pc' = "read"
            /\ rewindTo' = TargetHeight
            /\ UNCHANGED phase
    /\ UNCHANGED <<blockVars, docs, seen, memoryVars, reset, kills>>

\* An orphan block is found, high enough for some block to be left.
RewindOrphan ==
    /\ pc = "index" /\ phase = "single"
    /\ top = Len(chain) /\ Len(chain) > ReindexSize
    /\ pc' = "read"
    /\ rewindTo' = Len(chain) - ReindexSize
    /\ UNCHANGED <<blockVars, docs, seen, memoryVars, phase, reset, kills>>

\* Mutant of ToReset: the bound of the range query is off by one.
ToResetAboveNext == {k \in Key : seen.addresses[k].height > rewindTo + 1}

\* GetAddressesHeightGt
ToReset == {k \in Key : seen.addresses[k].height > rewindTo}

ReadAddresses ==
    /\ pc = "read"
    /\ seen = docs
    /\ reset' = ToReset
    /\ pc' = "delete"
    /\ UNCHANGED <<blockVars, docs, seen, memoryVars, phase, rewindTo, kills>>

\* Mutant of Above: the bound of the range query is off by one.
AboveNext(hs) == {h \in hs : h.height > rewindTo + 1}

Above(hs) == {h \in hs : h.height > rewindTo}

\* DeleteHeightGT on the history index
DeleteHistories ==
    /\ pc = "delete"
    /\ docs' = [docs EXCEPT !.histories = @ \ Above(@)]
    /\ pc' = "reset"
    /\ UNCHANGED <<blockVars, seen, memoryVars, phase, rewindTo, reset, kills>>

\* ResetAddress saves the address as of its latest history.
ResetAddress ==
    /\ pc = "reset"
    /\ CanSearch("history")
    /\ \E k \in reset :
          /\ docs' = [docs EXCEPT !.addresses[k] = Latest(HistoriesOf(seen.histories, k))]
          /\ reset' = reset \ {k}
    /\ UNCHANGED <<blockVars, seen, memoryVars, pc, phase, rewindTo, kills>>

\* ClearCache
FinishReset ==
    /\ pc = "reset"
    /\ reset = {}
    /\ cache' = NoAddresses
    /\ pc' = "blocks"
    /\ UNCHANGED <<blockVars, docs, seen, requests, oldest, phase, rewindTo, reset, kills>>

\* The end of the process loses what it has in memory.
Die ==
    /\ requests' = NoDocuments
    /\ cache' = NoAddresses
    /\ pc' = "down" /\ phase' = "boot"
    /\ reset' = {}

\* The block rewind that comes next, and checkBlock, which stops the process if
\* there is no block left.
DeleteBlocks ==
    /\ pc = "blocks"
    /\ chain' = SubSeq(chain, 1, rewindTo) /\ top' = rewindTo
    /\ oldest' = rewindTo + 1
    /\ IF rewindTo = 0 THEN Die
       ELSE /\ IF phase = "boot" THEN StartIndex(chain') ELSE pc' = "index" /\ UNCHANGED phase
            /\ UNCHANGED <<requests, cache, reset>>
    /\ UNCHANGED <<target, docs, seen, rewindTo, kills>>

\* The requests for the addresses of some keys.
Some(K) == [k \in Key |-> IF k \in K THEN requests.addresses[k] ELSE None]

Persisting == pc = "index" /\ top < Len(chain) /\ PersistDue

\* The highest blocks a kill may leave: in a persist, in the block rewind, elsewhere.
TopsLeft ==
    IF Persisting THEN top .. Len(chain)
    ELSE IF pc = "blocks" THEN rewindTo .. Len(chain) ELSE {top}

\* The documents it may leave.
DocsLeft ==
    IF Persisting
    THEN {Written(docs, [histories |-> H, addresses |-> Some(K)])
             : H \in SUBSET requests.histories, K \in SUBSET Key}
    ELSE IF pc = "delete"
         THEN {[docs EXCEPT !.histories = @ \ H] : H \in SUBSET Above(docs.histories)}
         ELSE {docs}

\* The process is killed: between two calls, or in a persist or a deletion.
Kill ==
    /\ pc # "down"
    /\ kills < MaxKills
    /\ kills' = kills + 1
    /\ \E n \in TopsLeft : chain' = SubSeq(chain, 1, n) /\ top' = n /\ oldest' = n + 1
    /\ docs' \in DocsLeft
    /\ Die
    /\ UNCHANGED <<target, seen, rewindTo>>

Next ==
    \/ Refresh \/ IndexBlock \/ Persist \/ FinishBulk
    \/ Start \/ RewindOrphan \/ ReadAddresses \/ DeleteHistories \/ ResetAddress
    \/ FinishReset \/ DeleteBlocks \/ Kill

Spec == Init /\ [][Next]_vars
-----------------------------------------------------------------------------
(* Properties *)

\* Everything indexed so far is persisted, addresses included.
Settled == pc = "index" /\ top = Len(chain) /\ (top = 0 \/ AddressesDue(top))

\* The history index holds what navcoind says of the chain that is indexed, no
\* more and no less, however often blocks were indexed, rewound and indexed anew.
HistoryIsComplete ==
    Settled => \A k \in Address :
        HistoriesOf(docs.histories, k) = AddressHistory(chain, 1, Len(chain), k)

\* Each address document agrees with the latest history of the address, which
\* a rewind or a kill between the two must not set apart.
AddressIsLatest ==
    Settled => \A k \in Key :
        docs.addresses[k] \in {Latest(HistoriesOf(docs.histories, k))} \cup
            (IF HistoriesOf(docs.histories, k) = {} THEN {None} ELSE {})

\* The balance of a multi signature is the number of times it was touched, as
\* long as no block touches it twice and there is no bulk run: it is the only
\* balance that is computed here, from what a search finds, and not by navcoind.
MultiSigBalance ==
    Settled /\ target = 0 => \A k \in MultiSig :
        Latest(HistoriesOf(docs.histories, k)).balance
            = Cardinality(Touches(chain, 1, Len(chain), k))

\* When a batch logs "Address Index Complete" for the heights from .. to, there
\* is a history for each transaction at these heights.
AddressIndexComplete ==
    [][phase = "batch" /\ Len(chain') > Len(chain) /\ AddressesDue(Len(chain')) =>
          \A k \in Address :
             AddressHistory(chain', From(Len(chain')), Len(chain'), k)
                \subseteq docs.histories \cup requests'.histories]_vars

\* "Resetting address" leaves no address at a height above that of the rewind.
AddressesAreReset ==
    [][pc = "reset" /\ pc' = "blocks" =>
          \A k \in Key : docs.addresses[k].height <= rewindTo]_vars
=============================================================================
