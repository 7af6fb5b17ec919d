-------------------------- MODULE IndexerInvariant --------------------------
(***************************************************************************)
(* The inductive invariant of Indexer: what holds at each point of the     *)
(* process, so that the block index stays anchored whatever happens next.  *)
(*                                                                         *)
(* It is inductive when the searches of a start and of checkBlock come     *)
(* after the refresh, a batch is not longer than a rewind, and the rewind  *)
(* at start is not pinned to a height by the configuration.                *)
(***************************************************************************)
EXTENDS Indexer

SafeSetting ==
    /\ LagSites \subseteq {"orphan", "delete", "report"}
    /\ RewindToHeight = 0
    /\ BulkIndexSize <= ReindexSize

\* The arguments of index() and of the code it calls are in range where they
\* are used.
ArgsOK ==
    /\ pc \in {"fetch", "build", "persist"} => height >= 1
    /\ pc \in {"build", "persist"} => height <= MaxHeight
    /\ pc = "build" => block \in Block

TypeInv == TypeOK /\ ArgsOK

\* Which phases reach a point of the process.
PhaseOK ==
    /\ pc \in {"down", "boot", "reload", "bulk"} => phase = "boot"
    /\ pc \in {"rewind", "delete", "check"} => phase \in {"boot", "single"}
    /\ pc \in {"orphan", "idle"} => phase = "single"
    /\ pc \in {"fetch", "build", "persist"} => phase \in {"batch", "single"}
    /\ pc \in {"flush", "verify"} => phase = "batch"
    /\ phase # "batch" => target = 0

\* Requests are pending only while blocks are being indexed, and between two
\* blocks only in a batch.
PendingOK ==
    /\ pc \notin {"fetch", "build", "persist", "flush"} => pending = {}
    /\ pc \in {"fetch", "build"} /\ phase = "single" => pending = {}

\* The height to index follows the last block indexed.
HeightOK ==
    /\ pc \in {"down", "boot", "delete", "check", "orphan"} =>
          last = NoBlock
    /\ pc = "fetch" => height = Height(last) + 1
    /\ pc = "build" => height = Height(last) + 1 /\ Height(block) = height
    /\ pc = "persist" => height = Height(last)

\* Only an empty index has no last block.
EmptyOK ==
    last = NoBlock /\ pc \in {"bulk", "fetch", "build", "flush", "verify", "idle"} =>
        store = {} /\ view = {} /\ pending = {}

\* checkBlock's answer is held only while checkBlock searches, and is one of
\* the highest blocks throughout.
BestOK == best # NoBlock => pc = "check" /\ best \in Highest(store)

\* A search during a bulk run finds only blocks that are still there.
ViewOK == pc = "bulk" \/ phase = "batch" => view \subseteq store

\* Only Index searches for the height of a rewind before the refresh.
LateOK == late = "rewind" => pc \in {"rewind", "delete", "check"} /\ phase = "single"

ControlInv ==
    PhaseOK /\ PendingOK /\ HeightOK /\ EmptyOK /\ BestOK /\ ViewOK /\ LateOK

\* S is one chain.
OneChain(S) == \E b \in S \cup {NoBlock} : S = Ancestry(b)

\* What a rewind to a height leaves of S is one chain.
RewindKeepsChain(S, to) ==
    \E b \in S \cup {NoBlock} : {c \in S : Height(c) <= to} = Ancestry(b)

\* Besides, nothing of S is more than ReindexSize above the end of that chain.
RewindReady(S, to) ==
    \E b \in S \cup {NoBlock} :
        /\ {c \in S : Height(c) <= to} = Ancestry(b)
        /\ \A c \in S : Height(c) <= Height(b) + ReindexSize

\* The stored blocks and the pending ones are the chain that ends with the
\* last block indexed; a persist was due at no height that is still pending.
Whole == IF pc = "persist" THEN Height(last) - 1 ELSE Height(last)

Due(h) == phase = "single" \/ h % BulkIndexSize = 0

Backlog ==
    \E k \in 0 .. Height(last) :
        /\ store = Ancestry(BlockAt(last, k))
        /\ Requested(pending, "index") = {BlockAt(last, h) : h \in k + 1 .. Height(last)}
        /\ Requested(pending, "update") \subseteq store
        /\ \A h \in k + 1 .. Whole : ~ Due(h)

ChainInv ==
    /\ pc \in {"down", "boot"} => Anchored(store, ReindexSize)
    /\ pc \in {"rewind", "delete", "check"} =>
          /\ RewindKeepsChain(store, rewindTo)
          /\ late = "rewind" \/ RewindReady(store, rewindTo)
    /\ pc \in {"reload", "orphan"} => OneChain(store)
    /\ pc \in {"bulk", "verify", "idle"} => store = Ancestry(last)
    /\ pc \in {"fetch", "build", "persist", "flush"} => Backlog
    /\ pc = "build" /\ phase = "single" => Previous(block) = last

-----------------------------------------------------------------------------
(* What remains true of an index that a bulk run has torn: no height is     *)
(* missing, whatever branches its blocks belong to.                         *)

Heights(S) == {Height(b) : b \in S}

Gapless(S) == \E n \in Heights(S) \cup {0} : Heights(S) = 1 .. n

\* There are blocks at all heights up to some n, and none more than ReindexSize
\* above it.
Filled(S) ==
    \E n \in Heights(S) \cup {0} :
        1 .. n \subseteq Heights(S) /\ \A h \in Heights(S) : h <= n + ReindexSize

\* What a rewind to a height leaves of S has no gap.
RewindKeepsGapless(S, to) ==
    \E n \in Heights(S) \cup {0} : {h \in Heights(S) : h <= to} = 1 .. n

\* Besides, nothing of S is more than ReindexSize above that.
FilledTo(S, to) ==
    \E n \in Heights(S) \cup {0} :
        /\ {h \in Heights(S) : h <= to} = 1 .. n
        /\ \A h \in Heights(S) : h <= n + ReindexSize

\* The heights of the stored blocks and those of the pending ones are all up to
\* that of the last block; a persist was due at none still pending.
BacklogFills ==
    \E k \in 0 .. Height(last) :
        /\ Heights(store) = 1 .. k
        /\ Heights(Requested(pending, "index")) = k + 1 .. Height(last)
        /\ \A h \in k + 1 .. Whole : ~ Due(h)

HeightsInv ==
    /\ pc \in {"down", "boot"} => Filled(store)
    /\ pc \in {"rewind", "delete", "check"} =>
          /\ RewindKeepsGapless(store, rewindTo)
          /\ late = "rewind" \/ FilledTo(store, rewindTo)
    /\ pc \in {"reload", "orphan"} => Gapless(store)
    /\ pc \in {"bulk", "verify", "idle"} => Heights(store) = 1 .. Height(last)
    /\ pc \in {"fetch", "build", "persist", "flush"} => BacklogFills
-----------------------------------------------------------------------------
\* Of the blocks nothing is known once the process was killed in a late rewind.
IndexInv ==
    /\ TypeInv
    /\ ControlInv
    /\ late = "killed" \/ HeightsInv
    /\ late = "killed" \/ torn \/ ChainInv
=============================================================================
