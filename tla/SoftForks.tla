----------------------------- MODULE SoftForks -----------------------------
(***************************************************************************)
(* The soft fork index: the state machine of each soft fork as blocks are  *)
(* indexed, its documents and the documents of the blocks that signal, and *)
(* the rewind, which resets the machines and replays the stored signals.   *)
(*                                                                         *)
(* The block index is taken as Indexer shows it to be: the chain that is   *)
(* indexed grows by one block or is cut back, the requests of up to        *)
(* BatchSize blocks wait to be persisted, and every start begins with a    *)
(* rewind unless the index is empty.  Searches come after the refresh.     *)
(***************************************************************************)
EXTENDS Integers, Sequences, FiniteSets

CONSTANTS
    Fork,          \* the names navcoind reports in getblockchaininfo
    Versions,      \* the soft forks the version of a block may signal
    CycleLength,   \* config.SoftForkBlockCycle
    VotingLength,  \* BlockCycle.Size, the consensus parameter
    Quorum,        \* GetQuorum: the signals that lock a soft fork in
    ReindexSize,   \* config.ReindexSize
    BatchSize,     \* config.BulkIndexSize
    FinalHeight,   \* blocks indexed at first, none of which signals; no orphan
                   \* is found among them
    MaxHeight,     \* bound on the height of the chain
    MaxKills       \* bound on the number of kills

ASSUME SoftForksAssumption ==
    /\ Versions \subseteq SUBSET Fork
    /\ CycleLength \in Nat \ {0, 1} /\ VotingLength \in Nat \ {0}
    /\ Quorum \in 1 .. CycleLength
    /\ BatchSize \in Nat \ {0} /\ ReindexSize \in Nat /\ BatchSize <= ReindexSize
    /\ FinalHeight \in Nat /\ MaxHeight \in Nat /\ FinalHeight <= MaxHeight
    /\ MaxKills \in Nat

\* The properties are about a network whose two cycles are of one length: 20160 on
\* mainnet.  The voting cycle of testnet has 800 blocks.
ASSUME SameCycles == VotingLength = CycleLength

VARIABLES
    bits,      \* the blocks indexed: the soft forks each one's version signals
    top,       \* how many of them are persisted
    requests,  \* Signal documents to be persisted with the others
    signals,   \* Signal documents
    forks,     \* the SoftForks of the process
    stored,    \* SoftFork documents
    pc,        \* where the process stands
    rewindTo,  \* argument of Rewind
    kills      \* kills so far

vars == <<bits, top, requests, signals, forks, stored, pc, rewindTo, kills>>

Signal == [height : 1 .. MaxHeight, softForks : SUBSET Fork]

SoftFork == [state      : {"defined", "started", "locked_in", "active"},
             lockedIn   : Nat,
             activation : Nat,
             cycles     : Seq([cycle : Nat \ {0}, blocks : Nat \ {0}])]

TypeOK ==
    /\ bits \in Seq(SUBSET Fork) /\ Len(bits) <= MaxHeight
    /\ top \in 0 .. Len(bits)
    /\ requests \subseteq Signal /\ signals \subseteq Signal
    /\ forks \in [Fork -> SoftFork]
    /\ stored \in [Fork -> SoftFork]
    /\ pc \in {"down", "blocks", "signals", "replay", "up"}
    /\ rewindTo \in 0 .. MaxHeight
    /\ kills \in 0 .. MaxKills

\* A soft fork as InitSoftForks creates it and as Rewind resets it.
Defined == [state |-> "defined", lockedIn |-> 0, activation |-> 0, cycles |-> <<>>]

Init ==
    /\ bits = [h \in 1 .. FinalHeight |-> {}]
    /\ top = FinalHeight
    /\ requests = {}
    /\ signals = {}
    /\ forks = [f \in Fork |-> Defined]
    /\ stored = [f \in Fork |-> Defined]
    /\ pc = "down"
    /\ rewindTo = 0
    /\ kills = 0

-----------------------------------------------------------------------------
(* The state machine of one soft fork *)

IsOpen(sf) == sf.state \in {"defined", "started"}

\* Mutant of Cycle: counted from 0.
CycleFromZero(height) == height \div CycleLength

\* GetSoftForkBlockCycle
Cycle(height) == height \div CycleLength + 1

\* BlockCycle.IsEnd: the voting cycle of the blocks ends.
IsEnd(height) == (height + 1) % VotingLength = 0

\* Mutant of Count: a new cycle is never begun.
CountInFirst(cycles, c) ==
    IF cycles = <<>> THEN <<[cycle |-> c, blocks |-> 1]>>
    ELSE [cycles EXCEPT ![1].blocks = @ + 1]

\* One more signalling block in a cycle.
Count(cycles, c) ==
    IF \E i \in DOMAIN cycles : cycles[i].cycle = c
    THEN [i \in DOMAIN cycles |->
             IF cycles[i].cycle = c
             THEN [cycles[i] EXCEPT !.blocks = @ + 1] ELSE cycles[i]]
    ELSE Append(cycles, [cycle |-> c, blocks |-> 1])

\* AddSoftForkSignal, for one soft fork.
AddSignal(sf, height) ==
    IF IsOpen(sf)
    THEN [sf EXCEPT !.state = "started", !.cycles = Count(@, Cycle(height))]
    ELSE sf

LatestCycle(sf) == sf.cycles[Len(sf.cycles)]

\* The two transitions of UpdateSoftForksState, for one soft fork.
LockIn(sf, height) ==
    IF /\ sf.state = "started"
       /\ height >= sf.lockedIn
       /\ LatestCycle(sf).blocks >= Quorum
    THEN [sf EXCEPT !.state = "locked_in",
                    !.lockedIn = CycleLength * Cycle(height),
                    !.activation = CycleLength * Cycle(height) + CycleLength]
    ELSE sf

Activate(sf, height) ==
    IF sf.state = "locked_in" /\ height >= sf.activation - 1
    THEN [sf EXCEPT !.state = "active"] ELSE sf

UpdateState(sf, height) ==
    IF sf.cycles = <<>> THEN sf ELSE Activate(LockIn(sf, height), height)

\* CreateSignal: the soft forks for which a block counts as signalling.
Signalled(version, height) ==
    {f \in version :
        \/ IsOpen(forks[f])
        \/ forks[f].state = "locked_in" /\ height <= forks[f].lockedIn}

\* softfork.Index, for one soft fork.
Indexed(sf, signalling, height) ==
    LET added == IF signalling THEN AddSignal(sf, height) ELSE sf
    IN  IF IsEnd(height) THEN UpdateState(added, height) ELSE added

-----------------------------------------------------------------------------
(* Documents *)

\* Mutant of Merged: the state is left out like the rest while it is "defined".
MergedOmittingState(old, new) ==
    IF new.state = "defined" THEN old
    ELSE [new EXCEPT !.cycles = IF @ = <<>> THEN old.cycles ELSE @]

\* An update request sends a partial document, which leaves out the heights
\* that are zero and the cycles if there are none: the stored ones remain.
Merged(old, new) ==
    [state      |-> new.state,
     lockedIn   |-> IF new.lockedIn = 0 THEN old.lockedIn ELSE new.lockedIn,
     activation |-> IF new.activation = 0 THEN old.activation ELSE new.activation,
     cycles     |-> IF new.cycles = <<>> THEN old.cycles ELSE new.cycles]

\* The documents once those of the soft forks in F are updated.
Updated(F, new) ==
    [f \in Fork |-> IF f \in F THEN Merged(stored[f], new[f]) ELSE stored[f]]

\* The soft forks once a block is indexed, and the documents it adds.
AfterBlock(version) ==
    LET height == Len(bits) + 1
    IN  [f \in Fork |-> Indexed(forks[f], f \in Signalled(version, height), height)]

\* Mutant of NewSignals: the loop over the soft forks ends with the first one.
NewSignalOfOne(version) ==
    LET height == Len(bits) + 1
        sent == Signalled(version, height)
    IN  IF sent = {} THEN {} ELSE {[height |-> height, softForks |-> {CHOOSE f \in sent : TRUE}]}

NewSignals(version) ==
    LET height == Len(bits) + 1
        sent == {f \in Signalled(version, height) :
                    AfterBlock(version)[f].state # "active"}
    IN  IF sent = {} THEN {} ELSE {[height |-> height, softForks |-> sent]}

-----------------------------------------------------------------------------
(* Indexing a block *)

IndexBlock ==
    /\ pc = "up"
    /\ Len(bits) < MaxHeight /\ Len(bits) < top + BatchSize
    /\ \E version \in Versions :
          /\ bits' = Append(bits, version)
          /\ forks' = AfterBlock(version)
          /\ requests' = requests \cup NewSignals(version)
    /\ UNCHANGED <<top, signals, stored, pc, rewindTo, kills>>

\* Persist: the update requests hold the soft forks themselves, so that it is
\* their present state that is stored, whichever block made the request.
Persist ==
    /\ pc = "up"
    /\ top < Len(bits)
    /\ top' = Len(bits)
    /\ signals' = signals \cup requests
    /\ stored' = Updated(Fork, forks)
    /\ requests' = {}
    /\ UNCHANGED <<bits, forks, pc, rewindTo, kills>>

\* The process ends; bits is what the next start finds in the block index.
Die(b) ==
    /\ bits' = b
    /\ top' = Len(b)
    /\ requests' = {}
    /\ pc' = "down"
    /\ kills' = kills + 1
    /\ UNCHANGED <<forks, rewindTo>>

\* The process is killed while it persists, or before: of the documents any
\* may be stored.
Kill ==
    /\ pc = "up"
    /\ kills < MaxKills
    /\ \E n \in top .. Len(bits), S \in SUBSET requests, F \in SUBSET Fork :
          /\ Die(SubSeq(bits, 1, n))
          /\ signals' = signals \cup S
          /\ stored' = IF top < Len(bits) THEN Updated(F, forks) ELSE stored

-----------------------------------------------------------------------------
(* Start and rewind *)

\* InitSoftForks, then the rewind of the daemon unless the index is empty.
Start ==
    /\ pc = "down"
    /\ forks' = stored
    /\ IF bits = <<>>
       THEN pc' = "up" /\ UNCHANGED rewindTo
       ELSE /\ pc' = "blocks"
            /\ rewindTo' = IF Len(bits) >= ReindexSize
                           THEN Len(bits) - ReindexSize ELSE 0
    /\ UNCHANGED <<bits, top, requests, signals, stored, kills>>

\* An orphan block is found, above the final height.
RewindOrphan ==
    /\ pc = "up"
    /\ top = Len(bits)
    /\ Len(bits) - ReindexSize >= FinalHeight
    /\ rewindTo' = Len(bits) - ReindexSize
    /\ pc' = "blocks"
    /\ UNCHANGED <<bits, top, requests, signals, forks, stored, kills>>

\* The block rewind that comes before the soft fork rewind.
DeleteBlocks ==
    /\ pc = "blocks"
    /\ bits' = SubSeq(bits, 1, rewindTo)
    /\ top' = rewindTo
    /\ pc' = "signals"
    /\ UNCHANGED <<requests, signals, forks, stored, rewindTo, kills>>

\* Mutant of KeptSignals: the bound of the range query is off by one.
KeptOneMore == {s \in signals : s.height <= rewindTo + 1}

\* What is left of the signals once those above the height are deleted.
KeptSignals == {s \in signals : s.height <= rewindTo}

\* The first call of Rewind: DeleteHeightGT on the signal index.
DeleteSignals ==
    /\ pc = "signals"
    /\ signals' = KeptSignals
    /\ pc' = "replay"
    /\ UNCHANGED <<bits, top, requests, forks, stored, rewindTo, kills>>

\* The replay goes from cycle to cycle and stops when a cycle begins at or
\* above the height: a signal at the very height is left out if a cycle begins
\* there.
LastReplayed == IF rewindTo % CycleLength = 0 THEN rewindTo - 1 ELSE rewindTo

\* The replay has a whole cycle behind it, one of blocksInCycle.
ReplayEnds(height) == (height + 1) % CycleLength = 0

\* The height the replay passes to UpdateSoftForksState at the end of a cycle.
ReplayedEnd(height) == height - 1

\* One height of the replay, for one soft fork.
ReplayedAt(sf, f, height) ==
    LET signalling == \E s \in signals : s.height = height /\ f \in s.softForks
        added == IF signalling THEN AddSignal(sf, height) ELSE sf
    IN  IF ReplayEnds(height) THEN UpdateState(added, ReplayedEnd(height)) ELSE added

\* The replay of the stored signals, for one soft fork.
Replayed(f) ==
    LET after[h \in -1 .. LastReplayed] ==
            IF h < 0 THEN Defined ELSE ReplayedAt(after[h - 1], f, h)
    IN  after[LastReplayed]

\* Rewind resets the soft forks, replays the signals and updates the documents;
\* an empty index then stops the process (isBestBlockAtHeight).
ReplaySignals ==
    /\ pc = "replay"
    /\ forks' = [f \in Fork |-> Replayed(f)]
    /\ stored' = Updated(Fork, forks')
    /\ pc' = IF bits = <<>> THEN "down" ELSE "up"
    /\ UNCHANGED <<bits, top, requests, signals, rewindTo, kills>>

\* The process is killed in the middle of a rewind.
KillInRewind ==
    /\ pc \in {"blocks", "signals", "replay"}
    /\ kills < MaxKills
    /\ Die(bits)
    /\ signals' \in IF pc = "signals"
                    THEN {KeptSignals \cup S : S \in SUBSET signals}
                    ELSE {signals}
    /\ stored' \in IF pc = "replay"
                   THEN {Updated(F, [f \in Fork |-> Replayed(f)]) : F \in SUBSET Fork}
                   ELSE {stored}

-----------------------------------------------------------------------------
Next ==
    \/ IndexBlock \/ Persist \/ Kill
    \/ Start \/ RewindOrphan \/ DeleteBlocks \/ DeleteSignals \/ ReplaySignals
    \/ KillInRewind

Spec == Init /\ [][Next]_vars
-----------------------------------------------------------------------------
(* Properties *)

Signalling(f, c) == {h \in 1 .. Len(bits) : f \in bits[h] /\ Cycle(h) = c}

\* While blocks are indexed, a soft fork is locked in or active only if the
\* blocks now indexed signalled it often enough within one whole cycle, and the
\* heights in its document belong to the end of that cycle: no kill, rewind or
\* abandoned branch leaves signals behind that count twice or count at all.
LockInIsEarned ==
    pc = "up" =>
        \A f \in Fork : forks[f].state \in {"locked_in", "active"} =>
            \E c \in 1 .. Cycle(Len(bits)) :
                /\ Cardinality(Signalling(f, c)) >= Quorum
                /\ forks[f].lockedIn = CycleLength * c
                /\ forks[f].activation = CycleLength * (c + 1)
                /\ Len(bits) >= CycleLength * c - 1

\* The counts a soft fork is locked in by are never higher than the number of
\* blocks in the index that signal it in the same cycle (BlocksSignalling), so
\* that no rewind, kill or replay counts a block twice or one that is gone.
CountsAreReal ==
    pc = "up" =>
        \A f \in Fork : \A i \in DOMAIN forks[f].cycles :
            forks[f].cycles[i].blocks
                <= Cardinality(Signalling(f, forks[f].cycles[i].cycle))

\* Once everything is persisted, the soft fork documents have the state and the
\* counts of the process (AddUpdateRequest, and Rewind's bulk update), although
\* what a rewind has reset is left out of the partial update.
StoredStateMatches ==
    pc = "up" /\ top = Len(bits) =>
        \A f \in Fork :
            /\ stored[f].state = forks[f].state
            /\ forks[f].cycles # <<>> => stored[f].cycles = forks[f].cycles

\* The soft fork after the blocks now indexed, had they been indexed one by one
\* from the first on.
Machine(f) ==
    LET after[h \in 0 .. Len(bits)] ==
            IF h = 0 THEN Defined ELSE Indexed(after[h - 1], f \in bits[h], h)
    IN  after[Len(bits)]

\* A rewind ends with each soft fork as it was when the height was first
\* indexed, whatever was indexed above it since - but for the signal at the
\* first height of a cycle (see AllSignalsCounted) and the activation, which the
\* replay reaches a cycle late because it updates the states with end - 1.
RewindReplays ==
    [][pc = "replay" /\ pc' = "up" /\ rewindTo % CycleLength # 0 =>
          \A f \in Fork : Machine(f).state # "active" => forks'[f] = Machine(f)]_vars

\* The replay keeps the "Signals" that are not "greater than height" and counts
\* them all.
AllSignalsCounted ==
    [][pc = "replay" /\ pc' = "up" =>
          \A f \in Fork : IsOpen(Machine(f)) => forks'[f].cycles = Machine(f).cycles]_vars
=============================================================================
