-------------------------- MODULE SoftForksInvariant --------------------------
(***************************************************************************)
(* The inductive invariant of SoftForks: what holds of the documents at    *)
(* each step of a start, a rewind and the indexing of blocks, so that the  *)
(* soft forks of the process agree with the blocks in the index.           *)
(***************************************************************************)
EXTENDS SoftForks

\* A process that starts with an empty block index finds nothing of the soft
\* forks either.  (Of an index that a rewind or a kill has emptied this may be
\* false: nothing is rewound then, and what is stored counts again.)
StartsClean ==
    pc = "down" /\ bits = <<>> =>
        signals = {} /\ stored = [f \in Fork |-> Defined]

\* Where a start of the process rewinds to.
TargetHeight == IF Len(bits) >= ReindexSize THEN Len(bits) - ReindexSize ELSE 0

-----------------------------------------------------------------------------
(* Soft forks and the blocks that signal *)

\* The blocks among the first n of b that signal a soft fork within a cycle.
Voters(b, f, c, n) == {h \in 1 .. n : f \in b[h] /\ Cycle(h) = c}

\* No cycle that is complete at height n has had a quorum.
OpenThrough(b, f, n) ==
    \A c \in 1 .. Cycle(n) :
        CycleLength * c - 1 <= n => Cardinality(Voters(b, f, c, n)) < Quorum

\* The cycles of a soft fork are in order, and its counts no higher than what
\* the first n blocks signal.
CountsFit(cycles, b, f, n) ==
    /\ \A i, j \in DOMAIN cycles : i < j => cycles[i].cycle < cycles[j].cycle
    /\ \A i \in DOMAIN cycles :
          /\ cycles[i].cycle <= Cycle(n)
          /\ cycles[i].blocks <= Cardinality(Voters(b, f, cycles[i].cycle, n))

\* While a soft fork is open, only the cycle that is not over has a quorum.
OpenFits(sf, n) ==
    /\ sf.lockedIn = 0 /\ sf.activation = 0
    /\ sf.state = "defined" => sf.cycles = <<>>
    /\ \A i \in DOMAIN sf.cycles :
          sf.cycles[i].blocks >= Quorum => sf.cycles[i].cycle = Cycle(n) /\ ~ IsEnd(n)

\* A soft fork that is locked in or active has had a quorum in a complete cycle.
Earned(sf, b, f, n) ==
    \E c \in 1 .. Cycle(n) :
        /\ Cardinality(Voters(b, f, c, n)) >= Quorum
        /\ sf.lockedIn = CycleLength * c
        /\ sf.activation = CycleLength * (c + 1)
        /\ n >= CycleLength * c - 1

\* A soft fork that the first n blocks account for.
Fits(sf, b, f, n) ==
    /\ CountsFit(sf.cycles, b, f, n)
    /\ IF IsOpen(sf) THEN OpenFits(sf, n) ELSE Earned(sf, b, f, n)

-----------------------------------------------------------------------------
(* Signals *)

\* The signals are those of blocks of b, as far as these go.
Real(sigs, b) ==
    \A s \in sigs : s.height <= Len(b) => s.softForks \subseteq b[s.height]

\* The signals that the soft forks depend on are there up to a height.
Complete(sigs, b, n) ==
    \A f \in Fork, h \in 1 .. n :
        f \in b[h] /\ OpenThrough(b, f, h - 1)
            => \E s \in sigs : s.height = h /\ f \in s.softForks

-----------------------------------------------------------------------------
(* The invariant *)

\* What the steps of the process say of the heights.
ShapeInv ==
    /\ pc # "up" => requests = {} /\ top = Len(bits)
    /\ pc = "blocks" => rewindTo = TargetHeight
    /\ pc \in {"signals", "replay"} => rewindTo = Len(bits)
    /\ Len(bits) <= top + BatchSize
    /\ \A r \in requests : r.height \in top + 1 .. Len(bits)

TypeInv == TypeOK /\ ShapeInv

\* While blocks are indexed.
UpInv ==
    pc = "up" =>
        /\ \A s \in signals : s.height <= top
        /\ Real(requests, bits)
        /\ \A f \in Fork : Fits(forks[f], bits, f, Len(bits))
        /\ Complete(signals, bits, top)
        /\ Complete(signals \cup requests, bits, Len(bits))

\* From the start of the process, or the decision to rewind, to the replay.
RewindInv ==
    /\ pc # "up" => Complete(signals, bits, TargetHeight)
    /\ pc = "signals" => Complete(signals, bits, Len(bits))
    /\ pc = "replay" => /\ Complete(signals, bits, Len(bits))
                        /\ \A s \in signals : s.height <= Len(bits)

DataInv == Real(signals, bits) /\ UpInv /\ RewindInv
=============================================================================
