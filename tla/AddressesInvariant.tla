------------------------- MODULE AddressesInvariant -------------------------
(***************************************************************************)
(* The invariants of Addresses in inductive form: what the process knows   *)
(* of chain and documents at each point of its code, when searches come    *)
(* after the refresh and nothing is persisted in the middle of a batch.    *)
(***************************************************************************)
EXTENDS Addresses

\* No two documents of the history index have the same id.
SlugsUnique(hs) == \A g, h \in hs : SameSlug(g, h) => g = h

Rewinding == {"read", "delete", "reset", "blocks"}

\* What holds in every setting: where documents and heights may stand.
ShapeInv ==
    /\ SlugsUnique(docs.histories) /\ SlugsUnique(seen.histories)
    /\ SlugsUnique(requests.histories)
    /\ pc = "index" => phase \in {"batch", "single"}
    /\ pc # "index" => top = Len(chain) /\ phase # "batch"
    /\ pc \in Rewinding => chain # <<>> /\ rewindTo = TargetHeight
    /\ pc = "down" => phase = "boot"

TypeInv == TypeOK /\ ShapeInv

-----------------------------------------------------------------------------
\* The histories of a key up to a height.
UpTo(hs, k, n) == {h \in hs : h.key = k /\ h.height <= n}

\* Up to a height some histories are what navcoind says of a chain.
Exact(c, hs, n) == \A k \in Address : UpTo(hs, k, n) = AddressHistory(c, 1, n, k)

\* An address document beside the histories of the address.
Agrees(a, hs) == a = Latest(hs) \/ (hs = {} /\ a = None)

\* The same up to a height: what is above it will be reset.
Right(d, k, n) ==
    d.addresses[k].height > n \/ Agrees(d.addresses[k], UpTo(d.histories, k, n))

\* A batch is persisted when it is complete, and the addresses are requested at
\* its end.
BatchInv ==
    /\ oldest = top + 1
    /\ pc = "index" /\ phase = "single" => Len(chain) <= top + 1
    /\ pc = "index" /\ phase = "batch" =>
          /\ Len(chain) <= target
          /\ \A h \in top + 1 .. Len(chain) - 1 : h % BatchSize # 0
    /\ ~ (pc = "index" /\ top < Len(chain) /\ AddressesDue(Len(chain)))
          => requests = NoDocuments

\* While blocks are indexed the documents are those of the persisted blocks.
PersistedInv ==
    pc = "index" =>
       /\ \A h \in docs.histories : h.height <= top
       /\ Exact(chain, docs.histories, top)
       /\ \A k \in Key : Agrees(docs.addresses[k], HistoriesOf(docs.histories, k))

\* What waits brings them to the end of the chain.
RequestedInv ==
    pc = "index" /\ top < Len(chain) /\ AddressesDue(Len(chain)) =>
       /\ \A k \in Address :
             /\ HistoriesOf(requests.histories, k) \subseteq AddressHistory(chain, 1, Len(chain), k)
             /\ \A h \in AddressHistory(chain, 1, Len(chain), k) :
                   h.height > top => h \in requests.histories
       /\ \A k \in MultiSig : \A h \in HistoriesOf(requests.histories, k) : h.height = Len(chain)
       /\ \A k \in Key :
             LET hs == HistoriesOf(requests.histories, k)
             IN  \/ hs = {} /\ requests.addresses[k] = None
                 \/ /\ requests.addresses[k] = Latest(hs)
                    /\ \E h \in hs : h.height > top

\* Before and in a rewind they are right up to its height, and what is above it
\* is about to be deleted or reset.
RewoundInv ==
    pc # "index" =>
       /\ Exact(chain, docs.histories, TargetHeight)
       /\ \A k \in Key : Right(docs, k, TargetHeight)
       /\ pc \in {"delete", "reset", "blocks"} =>
             \A k \in Key : docs.addresses[k].height > rewindTo => k \in reset
       /\ pc \in {"reset", "blocks"} => \A h \in docs.histories : h.height <= rewindTo
       /\ pc = "blocks" => reset = {}
       /\ chain = <<>> => /\ docs.histories = {}
                          /\ \A k \in Key : Agrees(docs.addresses[k], {})

DataInv == BatchInv /\ PersistedInv /\ RequestedInv /\ RewoundInv

\* Wherever the process is, and so wherever it is killed, the documents are those
\* of the blocks below the next rewind, and of all blocks while it indexes.
AddressInv == TypeInv /\ DataInv

-----------------------------------------------------------------------------
\* No block touches a multi signature twice.
OncePerBlock ==
    \A b \in Blocks : \A i, j \in DOMAIN b : b[i] \cap b[j] \cap MultiSig # {} => i = j

\* Up to a height the histories of the multi signatures are what navcoind would
\* say of them, if it knew them.
MultiSigsExact(c, hs, n) == \A k \in MultiSig : UpTo(hs, k, n) = AddressHistory(c, 1, n, k)

\* Without a bulk run the multi signatures are as exact as the addresses.
MultiSigInv ==
    /\ phase # "batch"
    /\ pc = "index" => MultiSigsExact(chain, docs.histories, top)
    /\ pc = "index" /\ top < Len(chain) =>
          \A k \in MultiSig : HistoriesOf(requests.histories, k)
                                  = AddressHistory(chain, Len(chain), Len(chain), k)
    /\ pc # "index" => MultiSigsExact(chain, docs.histories, TargetHeight)

SingleInv == target = 0 /\ OncePerBlock => MultiSigInv
=============================================================================
