---------------------------- MODULE SoftForksProofs ----------------------------
(***************************************************************************)
(* Proofs about SoftForks.                                                 *)
(***************************************************************************)
EXTENDS SoftForksInvariant, FiniteSetTheorems, WellFoundedInduction, TLAPS

-----------------------------------------------------------------------------
(* Induction over the heights *)

\* A set of heights that holds 0 and the successor of each of its members.
Inductive(S) == S \subseteq Nat /\ 0 \in S /\ \A n \in S : n + 1 \in S

\* Such a set holds every height: there is no least one that it lacks.
LEMMA SetInduction ==
    ASSUME NEW S, Inductive(S)
    PROVE  S = Nat
<1> DEFINE Lacks == Nat \ S
           Less == {p \in Nat \X Nat : p[1] < p[2]}
<1>1. SUFFICES ASSUME Lacks # {} PROVE FALSE
  BY DEF Inductive
<1>2. IsWellFoundedOn(Less, Nat)
  BY NatLessThanWellFounded DEF OpToRel
<1>3. PICK n \in Lacks : \A m \in Lacks : <<m, n>> \notin Less
  BY <1>1, <1>2, WFMin
<1>4. \A m \in Lacks : ~ (m < n)
  BY <1>3
<1>5. n # 0 /\ n - 1 \in Nat /\ n - 1 \notin Lacks
  BY <1>4 DEF Inductive
<1> QED
  BY <1>5 DEF Inductive

-----------------------------------------------------------------------------
(* Voting cycles *)

LEMMA ConstantFact ==
    /\ CycleLength \in Nat /\ CycleLength >= 2
    /\ Quorum \in Nat /\ Quorum >= 1
    /\ BatchSize \in Nat /\ ReindexSize \in Nat /\ BatchSize >= 1 /\ BatchSize <= ReindexSize
    /\ FinalHeight \in Nat /\ MaxHeight \in Nat /\ FinalHeight <= MaxHeight
    /\ MaxKills \in Nat
    /\ Versions \subseteq SUBSET Fork
BY SoftForksAssumption

\* Multiples of the cycle length are a cycle apart.
LEMMA MultipleFact ==
    ASSUME NEW j \in Int, NEW k \in Int, j < k
    PROVE  /\ CycleLength * j \in Int /\ CycleLength * k \in Int
           /\ CycleLength * j + CycleLength <= CycleLength * k
<1> DEFINE d == k - j - 1
<1>1. d \in Nat /\ k = j + 1 + d
  OBVIOUS
<1> HIDE DEF d
<1>2. CycleLength * d \in Nat
  BY <1>1, ConstantFact
<1>3. CycleLength * (j + 1 + d) = CycleLength * j + CycleLength + CycleLength * d
  BY <1>1, ConstantFact
<1> QED
  BY <1>1, <1>2, <1>3, ConstantFact

\* A height lies within its cycle, and ends it if it is the last one.
LEMMA CycleFact ==
    ASSUME NEW h \in Nat
    PROVE  /\ Cycle(h) \in Nat /\ Cycle(h) >= 1
           /\ CycleLength * Cycle(h) \in Nat
           /\ CycleLength * Cycle(h) - CycleLength <= h
           /\ h < CycleLength * Cycle(h)
           /\ IsEnd(h) <=> h + 1 = CycleLength * Cycle(h)
<1> DEFINE q == h \div CycleLength
           r == h % CycleLength
           p == (h + 1) \div CycleLength
           s == (h + 1) % CycleLength
<1>1. q \in Nat /\ r \in Nat /\ r < CycleLength /\ h = CycleLength * q + r
  BY ConstantFact
<1>2. p \in Nat /\ s \in Nat /\ s < CycleLength /\ h + 1 = CycleLength * p + s
  BY ConstantFact
<1>3. Cycle(h) = q + 1 /\ (IsEnd(h) <=> s = 0)
  BY SameCycles DEF Cycle, IsEnd
<1> HIDE DEF q, r, p, s
<1>4. CycleLength * (q + 1) = CycleLength * q + CycleLength
  BY <1>1, ConstantFact
<1>5. CycleLength * q \in Nat /\ CycleLength * p \in Nat
  BY <1>1, <1>2, ConstantFact
<1>6. p = q \/ p = q + 1
  <2>1. ~ (p < q)
    BY <1>1, <1>2, <1>5, ConstantFact, MultipleFact
  <2>2. ~ (q + 1 < p)
    BY <1>1, <1>2, <1>4, <1>5, ConstantFact, MultipleFact
  <2> QED
    BY <1>1, <1>2, <2>1, <2>2
<1>7. s = 0 <=> h + 1 = CycleLength * (q + 1)
  BY <1>1, <1>2, <1>4, <1>5, <1>6, ConstantFact
<1> QED
  BY <1>1, <1>3, <1>4, <1>5, <1>7, ConstantFact

\* Which cycle a height is in.
LEMMA CycleIs ==
    ASSUME NEW h \in Nat, NEW c \in Int,
           CycleLength * c - CycleLength <= h, h < CycleLength * c
    PROVE  Cycle(h) = c
<1>1. /\ Cycle(h) \in Nat /\ CycleLength * Cycle(h) \in Nat
      /\ CycleLength * Cycle(h) - CycleLength <= h /\ h < CycleLength * Cycle(h)
  BY CycleFact
<1>2. ~ (c < Cycle(h)) /\ ~ (Cycle(h) < c)
  BY <1>1, MultipleFact, ConstantFact
<1> QED
  BY <1>1, <1>2

\* Later heights are in later cycles.
LEMMA CycleMonotone ==
    ASSUME NEW h \in Nat, NEW k \in Nat, h <= k
    PROVE  Cycle(h) <= Cycle(k)
<1>1. /\ Cycle(h) \in Nat /\ CycleLength * Cycle(h) - CycleLength <= h
      /\ Cycle(k) \in Nat /\ k < CycleLength * Cycle(k)
      /\ CycleLength * Cycle(h) \in Nat /\ CycleLength * Cycle(k) \in Nat
  BY CycleFact
<1>2. ~ (Cycle(k) < Cycle(h))
  BY <1>1, MultipleFact, ConstantFact
<1> QED
  BY <1>1, <1>2

\* The next height is in the same cycle, or in the next one after the end.
LEMMA CycleNext ==
    ASSUME NEW h \in Nat \ {0}
    PROVE  /\ h - 1 \in Nat
           /\ IsEnd(h - 1) => Cycle(h) = Cycle(h - 1) + 1
           /\ ~ IsEnd(h - 1) => Cycle(h) = Cycle(h - 1)
           /\ IsEnd(h) => ~ IsEnd(h - 1)
<1> DEFINE c == Cycle(h - 1)
<1>1. h - 1 \in Nat
  OBVIOUS
<1>2. /\ c \in Nat /\ c >= 1 /\ CycleLength * c \in Nat
      /\ CycleLength * c - CycleLength <= h - 1 /\ h - 1 < CycleLength * c
      /\ IsEnd(h - 1) <=> h = CycleLength * c
  BY <1>1, CycleFact
<1>3. /\ Cycle(h) \in Nat /\ IsEnd(h) <=> h + 1 = CycleLength * Cycle(h)
  BY CycleFact
<1> HIDE DEF c
<1>4. CycleLength * (c + 1) = CycleLength * c + CycleLength
  BY <1>2, ConstantFact
<1>5. IsEnd(h - 1) => Cycle(h) = c + 1
  BY <1>2, <1>4, CycleIs, ConstantFact
<1>6. ~ IsEnd(h - 1) => Cycle(h) = c
  BY <1>2, CycleIs, ConstantFact
<1>7. IsEnd(h) => ~ IsEnd(h - 1)
  BY <1>2, <1>3, <1>4, <1>5, ConstantFact
<1> QED
  BY <1>1, <1>5, <1>6, <1>7 DEF c

-----------------------------------------------------------------------------
(* One height, for one soft fork *)

Tally == [cycle : Nat \ {0}, blocks : Nat \ {0}]

\* What indexing a block and replaying a height have in common: the height
\* passed to UpdateSoftForksState is u.
Step(sf, signalling, h, u) ==
    LET added == IF signalling THEN AddSignal(sf, h) ELSE sf
    IN  IF IsEnd(h) THEN UpdateState(added, u) ELSE added

LEMMA IndexedIsStep ==
    ASSUME NEW sf, NEW signalling, NEW h
    PROVE  Indexed(sf, signalling, h) = Step(sf, signalling, h, h)
BY DEF Indexed, Step

\* There is a signal document for a soft fork at a height.
HasSignal(f, h) == \E s \in signals : s.height = h /\ f \in s.softForks

LEMMA ReplayedAtIsStep ==
    ASSUME NEW sf, NEW f, NEW h
    PROVE  ReplayedAt(sf, f, h) = Step(sf, HasSignal(f, h), h, h - 1)
BY SameCycles DEF ReplayedAt, ReplayedEnd, ReplayEnds, IsEnd, Step, HasSignal

\* A soft fork with other cycles, or in another state.
LEMMA SoftForkFact ==
    ASSUME NEW sf \in SoftFork
    PROVE  /\ sf.cycles \in Seq(Tally) /\ Len(sf.cycles) \in Nat
           /\ DOMAIN sf.cycles = 1 .. Len(sf.cycles)
           /\ \A i \in DOMAIN sf.cycles :
                  /\ sf.cycles[i] \in Tally
                  /\ sf.cycles[i].cycle \in Nat /\ sf.cycles[i].cycle >= 1
                  /\ sf.cycles[i].blocks \in Nat /\ sf.cycles[i].blocks >= 1
           /\ sf.state \in {"defined", "started", "locked_in", "active"}
           /\ sf.lockedIn \in Nat /\ sf.activation \in Nat
<1>1. sf.cycles \in Seq(Tally)
  BY DEF SoftFork, Tally
<1>2. \A i \in DOMAIN sf.cycles : sf.cycles[i] \in Tally
  BY <1>1
<1> QED
  BY <1>1, <1>2 DEF SoftFork, Tally

\* Counting a block in a cycle that has been counted before.
LEMMA CountAgain ==
    ASSUME NEW cycles \in Seq(Tally), NEW c \in Nat \ {0}, NEW k \in DOMAIN cycles,
           cycles[k].cycle = c
    PROVE  /\ Count(cycles, c) \in Seq(Tally)
           /\ DOMAIN Count(cycles, c) = DOMAIN cycles
           /\ Len(Count(cycles, c)) = Len(cycles)
           /\ \A i \in DOMAIN cycles :
                  /\ Count(cycles, c)[i].cycle = cycles[i].cycle
                  /\ Count(cycles, c)[i].blocks
                       = IF cycles[i].cycle = c THEN cycles[i].blocks + 1 ELSE cycles[i].blocks
<1> DEFINE A(i) == IF cycles[i].cycle = c
                   THEN [cycles[i] EXCEPT !.blocks = @ + 1] ELSE cycles[i]
<1>1. Count(cycles, c) = [i \in DOMAIN cycles |-> A(i)]
  BY DEF Count
<1>2. \A i \in DOMAIN cycles :
         /\ A(i) \in Tally
         /\ A(i).cycle = cycles[i].cycle
         /\ A(i).blocks = IF cycles[i].cycle = c THEN cycles[i].blocks + 1 ELSE cycles[i].blocks
  <2> TAKE i \in DOMAIN cycles
  <2>1. cycles[i] \in Tally
    OBVIOUS
  <2> QED
    BY <2>1 DEF Tally
<1> HIDE DEF A
<1>3. DOMAIN cycles = 1 .. Len(cycles) /\ Len(cycles) \in Nat
  OBVIOUS
<1>4. Count(cycles, c) \in Seq(Tally)
  BY <1>1, <1>2, <1>3
<1> QED
  BY <1>1, <1>2, <1>3, <1>4

\* Counting the first block of a cycle.
LEMMA CountFirst ==
    ASSUME NEW cycles \in Seq(Tally), NEW c \in Nat \ {0},
           ~ \E i \in DOMAIN cycles : cycles[i].cycle = c
    PROVE  /\ Count(cycles, c) \in Seq(Tally)
           /\ Len(Count(cycles, c)) = Len(cycles) + 1
           /\ DOMAIN Count(cycles, c) = 1 .. Len(cycles) + 1
           /\ \A i \in DOMAIN cycles : Count(cycles, c)[i] = cycles[i]
           /\ Count(cycles, c)[Len(cycles) + 1].cycle = c
           /\ Count(cycles, c)[Len(cycles) + 1].blocks = 1
<1> DEFINE t == [cycle |-> c, blocks |-> 1]
<1>1. Count(cycles, c) = Append(cycles, t)
  BY DEF Count
<1>2. t \in Tally /\ t.cycle = c /\ t.blocks = 1
  BY DEF Tally
<1> HIDE DEF t
<1> QED
  BY <1>1, <1>2

LEMMA CountType ==
    ASSUME NEW cycles \in Seq(Tally), NEW c \in Nat \ {0}
    PROVE  Count(cycles, c) \in Seq(Tally) /\ Count(cycles, c) # <<>>
<1>1. CASE \E i \in DOMAIN cycles : cycles[i].cycle = c
  <2>1. PICK k \in DOMAIN cycles : cycles[k].cycle = c
    BY <1>1
  <2>2. Count(cycles, c) \in Seq(Tally) /\ Len(Count(cycles, c)) = Len(cycles)
    BY <2>1, CountAgain
  <2> QED
    BY <2>1, <2>2
<1>2. CASE ~ \E i \in DOMAIN cycles : cycles[i].cycle = c
  <2>1. Count(cycles, c) \in Seq(Tally) /\ Len(Count(cycles, c)) = Len(cycles) + 1
    BY <1>2, CountFirst
  <2> QED
    BY <2>1
<1> QED
  BY <1>1, <1>2

\* The fields of a soft fork after a signal.
LEMMA AddSignalFact ==
    ASSUME NEW sf \in SoftFork, NEW h \in Nat, IsOpen(sf)
    PROVE  /\ AddSignal(sf, h) \in SoftFork
           /\ AddSignal(sf, h).state = "started"
           /\ AddSignal(sf, h).cycles = Count(sf.cycles, Cycle(h))
           /\ AddSignal(sf, h).lockedIn = sf.lockedIn
           /\ AddSignal(sf, h).activation = sf.activation
<1>1. Cycle(h) \in Nat \ {0}
  BY CycleFact
<1>2. Count(sf.cycles, Cycle(h)) \in Seq(Tally)
  BY <1>1, SoftForkFact, CountType
<1> QED
  BY <1>2 DEF AddSignal, SoftFork, Tally

LEMMA AddSignalType ==
    ASSUME NEW sf \in SoftFork, NEW h \in Nat
    PROVE  AddSignal(sf, h) \in SoftFork
BY AddSignalFact DEF AddSignal

\* The fields of a soft fork after a lock-in that takes place.
LEMMA LockInFact ==
    ASSUME NEW sf \in SoftFork, NEW u \in Nat
    PROVE  /\ LockIn(sf, u) \in SoftFork
           /\ LockIn(sf, u).cycles = sf.cycles
           /\ LockIn(sf, u) = sf
              \/ /\ LockIn(sf, u).state = "locked_in"
                 /\ LockIn(sf, u).lockedIn = CycleLength * Cycle(u)
                 /\ LockIn(sf, u).activation = CycleLength * Cycle(u) + CycleLength
<1>1. CycleLength * Cycle(u) \in Nat /\ CycleLength * Cycle(u) + CycleLength \in Nat
  BY CycleFact, ConstantFact
<1> QED
  BY <1>1 DEF LockIn, SoftFork

LEMMA ActivateFact ==
    ASSUME NEW sf \in SoftFork, NEW u
    PROVE  /\ Activate(sf, u) \in SoftFork
           /\ Activate(sf, u).cycles = sf.cycles
           /\ Activate(sf, u).lockedIn = sf.lockedIn
           /\ Activate(sf, u).activation = sf.activation
           /\ Activate(sf, u).state # sf.state
                => sf.state = "locked_in" /\ Activate(sf, u).state = "active"
BY DEF Activate, SoftFork

\* A step leaves a soft fork.
LEMMA StepType ==
    ASSUME NEW sf \in SoftFork, NEW signalling \in BOOLEAN, NEW h \in Nat, NEW u \in Nat
    PROVE  Step(sf, signalling, h, u) \in SoftFork
<1> DEFINE added == IF signalling THEN AddSignal(sf, h) ELSE sf
<1>1. added \in SoftFork
  BY AddSignalType
<1> HIDE DEF added
<1>2. UpdateState(added, u) \in SoftFork
  BY <1>1, LockInFact, ActivateFact DEF UpdateState
<1>3. Step(sf, signalling, h, u) = IF IsEnd(h) THEN UpdateState(added, u) ELSE added
  BY DEF Step, added
<1> QED
  BY <1>1, <1>2, <1>3

-----------------------------------------------------------------------------
(* The replay and the machine as functions of the height *)

\* g is the replay of f, up to a height.
IsReplay(g, f, n) ==
    g = [h \in -1 .. n |-> IF h < 0 THEN Defined ELSE ReplayedAt(g[h - 1], f, h)]

\* m is the machine of f over the blocks of b, up to a height.
IsMachine(m, b, f, n) ==
    m = [h \in 0 .. n |-> IF h = 0 THEN Defined ELSE Indexed(m[h - 1], f \in b[h], h)]

\* There is a replay up to every height.
LEMMA ReplayExists ==
    ASSUME NEW f, NEW n \in Int, n >= -1
    PROVE  \E g : IsReplay(g, f, n)
<1> DEFINE S == {k \in Nat : \E g : IsReplay(g, f, k - 1)}
<1>1. 0 \in S
  <2> DEFINE g == [h \in -1 .. -1 |-> Defined]
  <2>1. g = [h \in -1 .. -1 |-> IF h < 0 THEN Defined ELSE ReplayedAt(g[h - 1], f, h)]
    OBVIOUS
  <2>2. IsReplay(g, f, -1)
    BY <2>1 DEF IsReplay
  <2> HIDE DEF g
  <2> QED
    BY <2>2
<1>2. ASSUME NEW k \in S PROVE k + 1 \in S
  <2>1. PICK g : IsReplay(g, f, k - 1)
    OBVIOUS
  <2> DEFINE A(h) == ReplayedAt(g[h - 1], f, h)
             e == [h \in -1 .. k |-> IF h < 0 THEN Defined ELSE A(h)]
  <2>2. \A h \in -1 .. k - 1 : g[h] = IF h < 0 THEN Defined ELSE A(h)
    BY <2>1 DEF IsReplay
  <2>3. \A h \in 0 .. k : e[h - 1] = g[h - 1]
    <3> HIDE DEF A
    <3> QED
      BY <2>2
  <2>4. \A h \in 0 .. k : A(h) = ReplayedAt(e[h - 1], f, h)
    BY <2>3
  <2>5. e = [h \in -1 .. k |-> IF h < 0 THEN Defined ELSE ReplayedAt(e[h - 1], f, h)]
    <3> HIDE DEF A
    <3>1. \A h \in -1 .. k : ~ (h < 0) => h \in 0 .. k
      OBVIOUS
    <3> QED
      BY <2>4, <3>1
  <2>6. IsReplay(e, f, (k + 1) - 1)
    <3>1. (k + 1) - 1 = k
      OBVIOUS
    <3> QED
      BY <2>5, <3>1 DEF IsReplay
  <2> HIDE DEF e
  <2> QED
    BY <2>6
<1>3. Inductive(S)
  BY <1>1, <1>2 DEF Inductive
<1>4. n + 1 \in Nat /\ (n + 1) - 1 = n
  OBVIOUS
<1>5. n + 1 \in S
  <2> HIDE DEF S
  <2> QED
    BY <1>3, <1>4, SetInduction
<1> QED
  BY <1>4, <1>5

\* There is a machine up to every height.
LEMMA MachineExists ==
    ASSUME NEW b, NEW f, NEW n \in Nat
    PROVE  \E m : IsMachine(m, b, f, n)
<1> DEFINE S == {k \in Nat : \E m : IsMachine(m, b, f, k)}
<1>1. 0 \in S
  <2> DEFINE m == [h \in 0 .. 0 |-> Defined]
  <2>1. m = [h \in 0 .. 0 |-> IF h = 0 THEN Defined ELSE Indexed(m[h - 1], f \in b[h], h)]
    OBVIOUS
  <2>2. IsMachine(m, b, f, 0)
    BY <2>1 DEF IsMachine
  <2> HIDE DEF m
  <2> QED
    BY <2>2
<1>2. ASSUME NEW k \in S PROVE k + 1 \in S
  <2>1. PICK m : IsMachine(m, b, f, k)
    OBVIOUS
  <2> DEFINE A(h) == Indexed(m[h - 1], f \in b[h], h)
             e == [h \in 0 .. k + 1 |-> IF h = 0 THEN Defined ELSE A(h)]
  <2>2. \A h \in 0 .. k : m[h] = IF h = 0 THEN Defined ELSE A(h)
    BY <2>1 DEF IsMachine
  <2>3. \A h \in 1 .. k + 1 : e[h - 1] = m[h - 1]
    <3> HIDE DEF A
    <3> QED
      BY <2>2
  <2>4. \A h \in 1 .. k + 1 : A(h) = Indexed(e[h - 1], f \in b[h], h)
    BY <2>3
  <2>5. e = [h \in 0 .. k + 1 |-> IF h = 0 THEN Defined ELSE Indexed(e[h - 1], f \in b[h], h)]
    <3> HIDE DEF A
    <3>1. \A h \in 0 .. k + 1 : h # 0 => h \in 1 .. k + 1
      OBVIOUS
    <3> QED
      BY <2>4, <3>1
  <2>6. IsMachine(e, b, f, k + 1)
    BY <2>5 DEF IsMachine
  <2> HIDE DEF e
  <2> QED
    BY <2>6
<1>3. Inductive(S)
  BY <1>1, <1>2 DEF Inductive
<1> QED
  BY <1>3, SetInduction

\* The replay's last height decides.
LEMMA ReplayedFact ==
    ASSUME NEW f, LastReplayed \in Int, LastReplayed >= -1
    PROVE  \E g : IsReplay(g, f, LastReplayed) /\ Replayed(f) = g[LastReplayed]
<1> DEFINE g == CHOOSE g : IsReplay(g, f, LastReplayed)
<1>1. IsReplay(g, f, LastReplayed)
  BY ReplayExists
<1>2. Replayed(f) = g[LastReplayed]
  BY DEF Replayed, IsReplay
<1> HIDE DEF g
<1> QED
  BY <1>1, <1>2

LEMMA MachineFact ==
    ASSUME NEW f, Len(bits) \in Nat
    PROVE  \E m : IsMachine(m, bits, f, Len(bits)) /\ Machine(f) = m[Len(bits)]
<1> DEFINE m == CHOOSE m : IsMachine(m, bits, f, Len(bits))
<1>1. IsMachine(m, bits, f, Len(bits))
  BY MachineExists
<1>2. Machine(f) = m[Len(bits)]
  BY DEF Machine, IsMachine
<1> HIDE DEF m
<1> QED
  BY <1>1, <1>2

-----------------------------------------------------------------------------
(* Voters *)

LEMMA VotersType ==
    ASSUME NEW b, NEW f, NEW c, NEW n \in Nat
    PROVE  /\ IsFiniteSet(Voters(b, f, c, n))
           /\ Cardinality(Voters(b, f, c, n)) \in Nat
<1>1. Voters(b, f, c, n) \subseteq 1 .. n
  BY DEF Voters
<1>2. IsFiniteSet(1 .. n)
  BY FS_Interval
<1>3. IsFiniteSet(Voters(b, f, c, n))
  BY <1>1, <1>2, FS_Subset
<1> QED
  BY <1>3, FS_CardinalityType

\* One block more adds to the voters of its own cycle.
LEMMA VotersNext ==
    ASSUME NEW b, NEW f, NEW c, NEW h \in Nat \ {0}
    PROVE  Cardinality(Voters(b, f, c, h))
             = IF f \in b[h] /\ Cycle(h) = c
               THEN Cardinality(Voters(b, f, c, h - 1)) + 1
               ELSE Cardinality(Voters(b, f, c, h - 1))
<1>1. h - 1 \in Nat /\ 1 .. h = (1 .. h - 1) \cup {h} /\ h \notin 1 .. h - 1
  OBVIOUS
<1>2. IsFiniteSet(Voters(b, f, c, h - 1)) /\ h \notin Voters(b, f, c, h - 1)
  <2>1. IsFiniteSet(Voters(b, f, c, h - 1))
    BY <1>1, VotersType
  <2>2. h \notin Voters(b, f, c, h - 1)
    BY <1>1 DEF Voters
  <2> QED
    BY <2>1, <2>2
<1>3. CASE f \in b[h] /\ Cycle(h) = c
  <2>1. Voters(b, f, c, h) = Voters(b, f, c, h - 1) \cup {h}
    BY <1>1, <1>3 DEF Voters
  <2> QED
    BY <1>2, <1>3, <2>1, FS_AddElement
<1>4. CASE ~ (f \in b[h] /\ Cycle(h) = c)
  <2>1. Voters(b, f, c, h) = Voters(b, f, c, h - 1)
    BY <1>1, <1>4 DEF Voters
  <2> QED
    BY <1>4, <2>1
<1> QED
  BY <1>3, <1>4

\* The same blocks have the same voters.
SameUpTo(b, d, n) == \A h \in 1 .. n : b[h] = d[h]

LEMMA VotersSame ==
    ASSUME NEW b, NEW d, NEW f, NEW c, NEW n, SameUpTo(b, d, n)
    PROVE  Voters(b, f, c, n) = Voters(d, f, c, n)
BY DEF SameUpTo, Voters

LEMMA FitsSame ==
    ASSUME NEW b, NEW d, NEW f, NEW sf, NEW n, SameUpTo(b, d, n), Fits(sf, b, f, n)
    PROVE  Fits(sf, d, f, n)
BY VotersSame DEF Fits, CountsFit, Earned

LEMMA OpenThroughSame ==
    ASSUME NEW b, NEW d, NEW f, NEW n, SameUpTo(b, d, n)
    PROVE  OpenThrough(b, f, n) <=> OpenThrough(d, f, n)
BY VotersSame DEF OpenThrough

-----------------------------------------------------------------------------
(* A step keeps a soft fork accounted for *)

LEMMA CountsKeep ==
    ASSUME NEW cycles \in Seq(Tally), NEW b, NEW f, NEW h \in Nat \ {0},
           CountsFit(cycles, b, f, h - 1)
    PROVE  CountsFit(cycles, b, f, h)
<1>1. h - 1 \in Nat
  OBVIOUS
<1>2. Cycle(h - 1) \in Nat /\ Cycle(h) \in Nat /\ Cycle(h - 1) <= Cycle(h)
  BY <1>1, CycleFact, CycleMonotone
<1>3. ASSUME NEW i \in DOMAIN cycles
      PROVE  /\ cycles[i].cycle <= Cycle(h)
             /\ cycles[i].blocks <= Cardinality(Voters(b, f, cycles[i].cycle, h))
  <2> DEFINE c == cycles[i].cycle
  <2>1. cycles[i] \in Tally
    OBVIOUS
  <2>2. c \in Nat /\ cycles[i].blocks \in Nat
    BY <2>1 DEF Tally
  <2>3. c <= Cycle(h - 1) /\ cycles[i].blocks <= Cardinality(Voters(b, f, c, h - 1))
    BY DEF CountsFit
  <2> HIDE DEF c
  <2>4. Cardinality(Voters(b, f, c, h - 1)) \in Nat
    BY <1>1, VotersType
  <2>5. cycles[i].blocks <= Cardinality(Voters(b, f, c, h))
    BY <2>2, <2>3, <2>4, VotersNext
  <2> QED
    BY <1>2, <2>2, <2>3, <2>5 DEF c
<1> QED
  BY <1>3 DEF CountsFit

LEMMA CountsAdd ==
    ASSUME NEW cycles \in Seq(Tally), NEW b, NEW f, NEW h \in Nat \ {0}, f \in b[h],
           CountsFit(cycles, b, f, h - 1)
    PROVE  CountsFit(Count(cycles, Cycle(h)), b, f, h)
<1> DEFINE c == Cycle(h)
           new == Count(cycles, c)
<1>1. c \in Nat \ {0} /\ h - 1 \in Nat
  BY CycleFact
<1>2. CountsFit(cycles, b, f, h)
  BY CountsKeep
<1>3. Cardinality(Voters(b, f, c, h)) = Cardinality(Voters(b, f, c, h - 1)) + 1
  BY VotersNext
<1>4. Cardinality(Voters(b, f, c, h - 1)) \in Nat
  BY <1>1, VotersType
<1>5. \A i \in DOMAIN cycles : cycles[i].cycle \in Nat /\ cycles[i].blocks \in Nat
  <2>1. \A i \in DOMAIN cycles : cycles[i] \in Tally
    OBVIOUS
  <2> QED
    BY <2>1 DEF Tally
<1>6. DOMAIN cycles = 1 .. Len(cycles) /\ Len(cycles) \in Nat
  OBVIOUS
<1>7. CASE \E i \in DOMAIN cycles : cycles[i].cycle = c
  <2>1. PICK k \in DOMAIN cycles : cycles[k].cycle = c
    BY <1>7
  <2>2. /\ DOMAIN new = DOMAIN cycles
        /\ \A i \in DOMAIN cycles :
              /\ new[i].cycle = cycles[i].cycle
              /\ new[i].blocks
                   = IF cycles[i].cycle = c THEN cycles[i].blocks + 1 ELSE cycles[i].blocks
    BY <1>1, <2>1, CountAgain
  <2> HIDE DEF new, c
  <2>3. ASSUME NEW i \in DOMAIN cycles
        PROVE  new[i].blocks <= Cardinality(Voters(b, f, new[i].cycle, h))
    <3>1. CASE cycles[i].cycle = c
      <4>1. cycles[i].blocks <= Cardinality(Voters(b, f, c, h - 1))
        BY <3>1 DEF CountsFit
      <4> QED
        BY <1>3, <1>4, <1>5, <2>2, <3>1, <4>1
    <3>2. CASE cycles[i].cycle # c
      BY <1>2, <2>2, <3>2 DEF CountsFit
    <3> QED
      BY <3>1, <3>2
  <2>4. CountsFit(new, b, f, h)
    BY <1>2, <2>2, <2>3 DEF CountsFit
  <2> QED
    BY <2>4 DEF new, c
<1>8. CASE ~ \E i \in DOMAIN cycles : cycles[i].cycle = c
  <2> DEFINE l == Len(cycles) + 1
  <2>1. /\ DOMAIN new = 1 .. l
        /\ \A i \in DOMAIN cycles : new[i] = cycles[i]
        /\ new[l].cycle = c /\ new[l].blocks = 1
    BY <1>1, <1>8, CountFirst
  <2>2. \A i \in DOMAIN cycles : cycles[i].cycle < c
    BY <1>1, <1>2, <1>5, <1>8 DEF CountsFit
  <2>3. \A i \in 1 .. l : i = l \/ i \in DOMAIN cycles
    BY <1>6
  <2>4. l \in Nat /\ \A i \in DOMAIN cycles : i < l
    BY <1>6
  <2> HIDE DEF new, l
  <2>5. \A i, j \in DOMAIN new : i < j => new[i].cycle < new[j].cycle
    <3> SUFFICES ASSUME NEW i \in DOMAIN new, NEW j \in DOMAIN new, i < j
                 PROVE  new[i].cycle < new[j].cycle
      OBVIOUS
    <3>1. i \in DOMAIN cycles
      BY <1>6, <2>1, <2>3, <2>4
    <3>2. CASE j = l
      BY <2>1, <2>2, <3>1, <3>2
    <3>3. CASE j \in DOMAIN cycles
      BY <1>2, <2>1, <3>1, <3>3 DEF CountsFit
    <3> QED
      BY <2>1, <2>3, <3>2, <3>3
  <2>6. \A i \in DOMAIN new :
           /\ new[i].cycle <= c
           /\ new[i].blocks <= Cardinality(Voters(b, f, new[i].cycle, h))
    <3> SUFFICES ASSUME NEW i \in DOMAIN new
                 PROVE  /\ new[i].cycle <= c
                        /\ new[i].blocks <= Cardinality(Voters(b, f, new[i].cycle, h))
      OBVIOUS
    <3>1. CASE i = l
      BY <1>1, <1>3, <1>4, <2>1, <3>1
    <3>2. CASE i \in DOMAIN cycles
      BY <1>2, <2>1, <3>2 DEF CountsFit
    <3> QED
      BY <2>1, <2>3, <3>1, <3>2
  <2>7. CountsFit(new, b, f, h)
    BY <2>5, <2>6 DEF CountsFit
  <2> QED
    BY <2>7 DEF new
<1> QED
  BY <1>7, <1>8

\* Before the update of the states at a cycle's end, the cycle may have a quorum.
OpenBefore(sf, n) ==
    /\ sf.lockedIn = 0 /\ sf.activation = 0
    /\ sf.state = "defined" => sf.cycles = <<>>
    /\ \A i \in DOMAIN sf.cycles :
          sf.cycles[i].blocks >= Quorum => sf.cycles[i].cycle = Cycle(n)

FitsBefore(sf, b, f, n) ==
    /\ CountsFit(sf.cycles, b, f, n)
    /\ IF IsOpen(sf) THEN OpenBefore(sf, n) ELSE Earned(sf, b, f, n)

LEMMA EarnedKeep ==
    ASSUME NEW sf \in SoftFork, NEW b, NEW f, NEW h \in Nat \ {0}, Earned(sf, b, f, h - 1)
    PROVE  Earned(sf, b, f, h)
<1>1. h - 1 \in Nat
  OBVIOUS
<1>2. Cycle(h - 1) \in Nat /\ Cycle(h) \in Nat /\ Cycle(h - 1) <= Cycle(h)
  BY <1>1, CycleFact, CycleMonotone
<1>3. PICK c \in 1 .. Cycle(h - 1) :
        /\ Cardinality(Voters(b, f, c, h - 1)) >= Quorum
        /\ sf.lockedIn = CycleLength * c
        /\ sf.activation = CycleLength * (c + 1)
        /\ h - 1 >= CycleLength * c - 1
  BY DEF Earned
<1>4. Cardinality(Voters(b, f, c, h - 1)) \in Nat
  BY <1>1, VotersType
<1>5. Cardinality(Voters(b, f, c, h)) >= Quorum
  BY <1>3, <1>4, VotersNext, ConstantFact
<1>6. c \in 1 .. Cycle(h)
  BY <1>2
<1>7. h >= CycleLength * c - 1
  BY <1>3, SoftForkFact
<1> QED
  BY <1>3, <1>5, <1>6, <1>7 DEF Earned

\* What is accounted for at a height still is before the update at the next.
LEMMA FitsKeep ==
    ASSUME NEW sf \in SoftFork, NEW b, NEW f, NEW h \in Nat \ {0}, Fits(sf, b, f, h - 1)
    PROVE  FitsBefore(sf, b, f, h)
<1>1. CountsFit(sf.cycles, b, f, h)
  BY CountsKeep, SoftForkFact DEF Fits
<1>2. CASE IsOpen(sf)
  <2>1. OpenFits(sf, h - 1)
    BY <1>2 DEF Fits
  <2>2. OpenBefore(sf, h)
    BY <2>1, CycleNext DEF OpenFits, OpenBefore
  <2> QED
    BY <1>1, <1>2, <2>2 DEF FitsBefore
<1>3. CASE ~ IsOpen(sf)
  BY <1>1, <1>3, EarnedKeep DEF Fits, FitsBefore
<1> QED
  BY <1>2, <1>3

\* So it is when a signal of the block at that height is added.
LEMMA FitsAdd ==
    ASSUME NEW sf \in SoftFork, NEW b, NEW f, NEW h \in Nat \ {0}, f \in b[h],
           Fits(sf, b, f, h - 1)
    PROVE  FitsBefore(AddSignal(sf, h), b, f, h)
<1>1. CASE ~ IsOpen(sf)
  BY <1>1, FitsKeep DEF AddSignal
<1>2. CASE IsOpen(sf)
  <2> DEFINE new == AddSignal(sf, h)
             c == Cycle(h)
  <2>1. /\ new \in SoftFork /\ new.state = "started"
        /\ new.cycles = Count(sf.cycles, c)
        /\ new.lockedIn = sf.lockedIn /\ new.activation = sf.activation
    BY <1>2, AddSignalFact
  <2>2. CountsFit(new.cycles, b, f, h)
    BY <2>1, CountsAdd, SoftForkFact DEF Fits
  <2>3. OpenBefore(sf, h)
    BY <1>2, FitsKeep DEF FitsBefore
  <2>4. c \in Nat \ {0} /\ sf.cycles \in Seq(Tally)
    BY CycleFact, SoftForkFact
  <2> HIDE DEF new, c
  <2>5. \A i \in DOMAIN new.cycles : new.cycles[i].blocks >= Quorum => new.cycles[i].cycle = c
    <3>1. CASE \E i \in DOMAIN sf.cycles : sf.cycles[i].cycle = c
      <4>1. PICK k \in DOMAIN sf.cycles : sf.cycles[k].cycle = c
        BY <3>1
      <4>2. /\ DOMAIN Count(sf.cycles, c) = DOMAIN sf.cycles
            /\ \A i \in DOMAIN sf.cycles :
                 /\ Count(sf.cycles, c)[i].cycle = sf.cycles[i].cycle
                 /\ Count(sf.cycles, c)[i].blocks
                      = IF sf.cycles[i].cycle = c THEN sf.cycles[i].blocks + 1
                        ELSE sf.cycles[i].blocks
        BY <2>4, <4>1, CountAgain
      <4> QED
        BY <2>1, <2>3, <4>2 DEF OpenBefore, c
    <3>2. CASE ~ \E i \in DOMAIN sf.cycles : sf.cycles[i].cycle = c
      <4>1. /\ DOMAIN Count(sf.cycles, c) = 1 .. Len(sf.cycles) + 1
            /\ \A i \in DOMAIN sf.cycles : Count(sf.cycles, c)[i] = sf.cycles[i]
            /\ Count(sf.cycles, c)[Len(sf.cycles) + 1].cycle = c
        BY <2>4, <3>2, CountFirst
      <4>2. DOMAIN sf.cycles = 1 .. Len(sf.cycles) /\ Len(sf.cycles) \in Nat
        BY SoftForkFact
      <4>3. \A i \in 1 .. Len(sf.cycles) + 1 : i = Len(sf.cycles) + 1 \/ i \in DOMAIN sf.cycles
        BY <4>2
      <4> QED
        BY <2>1, <2>3, <4>1, <4>3 DEF OpenBefore, c
    <3> QED
      BY <3>1, <3>2
  <2>6. OpenBefore(new, h)
    BY <2>1, <2>3, <2>5 DEF OpenBefore, c
  <2>7. IsOpen(new)
    BY <2>1 DEF IsOpen
  <2> QED
    BY <2>2, <2>6, <2>7 DEF FitsBefore, new
<1> QED
  BY <1>1, <1>2

\* Where no cycle ends, the states are not updated.
LEMMA FitsMiddle ==
    ASSUME NEW sf, NEW b, NEW f, NEW h, ~ IsEnd(h), FitsBefore(sf, b, f, h)
    PROVE  Fits(sf, b, f, h)
BY DEF Fits, FitsBefore, OpenFits, OpenBefore

\* The update of the states at the end of a cycle, with the height of the end
\* or the one before.
LEMMA FitsEnd ==
    ASSUME NEW sf \in SoftFork, NEW b, NEW f, NEW h \in Nat \ {0}, IsEnd(h),
           NEW u \in {h - 1, h}, FitsBefore(sf, b, f, h)
    PROVE  Fits(UpdateState(sf, u), b, f, h)
<1>1. u \in Nat /\ Cycle(u) = Cycle(h)
  BY CycleNext
<1>2. /\ Cycle(h) \in Nat /\ Cycle(h) >= 1 /\ CycleLength * Cycle(h) \in Nat
      /\ h + 1 = CycleLength * Cycle(h)
  BY CycleFact
<1>3. /\ sf.cycles \in Seq(Tally) /\ Len(sf.cycles) \in Nat
      /\ DOMAIN sf.cycles = 1 .. Len(sf.cycles)
      /\ \A i \in DOMAIN sf.cycles :
                  /\ sf.cycles[i].cycle \in Nat /\ sf.cycles[i].cycle >= 1
                  /\ sf.cycles[i].blocks \in Nat /\ sf.cycles[i].blocks >= 1
      /\ sf.lockedIn \in Nat /\ sf.activation \in Nat
  BY SoftForkFact
<1>4. CASE sf.cycles = <<>>
  <2>1. UpdateState(sf, u) = sf
    BY <1>4 DEF UpdateState
  <2>2. IsOpen(sf) => OpenFits(sf, h)
    BY <1>3, <1>4 DEF FitsBefore, OpenBefore, OpenFits
  <2> QED
    BY <2>1, <2>2 DEF FitsBefore, Fits
<1>5. CASE sf.cycles # <<>>
  <2> DEFINE l == Len(sf.cycles)
             locked == LockIn(sf, u)
             new == Activate(locked, u)
  <2>1. UpdateState(sf, u) = new
    BY <1>5 DEF UpdateState
  <2>2. l \in DOMAIN sf.cycles /\ LatestCycle(sf) = sf.cycles[l]
    BY <1>3, <1>5 DEF LatestCycle
  <2>3. /\ locked \in SoftFork /\ locked.cycles = sf.cycles
        /\ \/ locked = sf
           \/ /\ locked.state = "locked_in"
              /\ locked.lockedIn = CycleLength * Cycle(h)
              /\ locked.activation = CycleLength * Cycle(h) + CycleLength
    BY <1>1, LockInFact
  <2>4. /\ new.cycles = locked.cycles
        /\ new.lockedIn = locked.lockedIn /\ new.activation = locked.activation
        /\ new.state # locked.state => locked.state = "locked_in" /\ new.state = "active"
        /\ new \in SoftFork
    BY <2>3, ActivateFact
  <2>5. CountsFit(new.cycles, b, f, h)
    BY <2>3, <2>4 DEF FitsBefore
  <2>6. CASE locked = sf
    <3>1. CASE IsOpen(sf)
      <4>1. OpenBefore(sf, h)
        BY <3>1 DEF FitsBefore
      <4>2. sf.state = "started"
        BY <1>5, <3>1, <4>1 DEF OpenBefore, IsOpen
      <4>3. ~ (sf.cycles[l].blocks >= Quorum)
        <5>1. u >= sf.lockedIn
          BY <1>1, <4>1 DEF OpenBefore
        <5>2. ~ (sf.cycles[l].blocks >= Quorum) \/ locked.state = "locked_in"
          BY <2>2, <4>2, <5>1 DEF LockIn, SoftFork
        <5> QED
          BY <2>6, <4>2, <5>2
      <4>4. \A i \in DOMAIN sf.cycles : ~ (sf.cycles[i].blocks >= Quorum)
        <5> SUFFICES ASSUME NEW i \in DOMAIN sf.cycles, sf.cycles[i].blocks >= Quorum
                     PROVE  FALSE
          OBVIOUS
        <5>1. sf.cycles[i].cycle = Cycle(h)
          BY <4>1 DEF OpenBefore
        <5>2. i # l
          BY <4>3
        <5>3. i < l
          BY <1>3, <5>2
        <5>4. sf.cycles[i].cycle < sf.cycles[l].cycle /\ sf.cycles[l].cycle <= Cycle(h)
          BY <2>2, <5>3 DEF FitsBefore, CountsFit
        <5> QED
          BY <1>2, <1>3, <2>2, <5>1, <5>4
      <4>5. new = sf
        BY <2>6, <4>2 DEF Activate
      <4>6. OpenFits(sf, h)
        BY <4>1, <4>4 DEF OpenBefore, OpenFits
      <4> QED
        BY <2>1, <2>5, <3>1, <4>5, <4>6 DEF Fits
    <3>2. CASE ~ IsOpen(sf)
      <4>1. ~ IsOpen(new)
        BY <2>4, <2>6, <3>2 DEF IsOpen
      <4>2. Earned(sf, b, f, h)
        BY <3>2 DEF FitsBefore
      <4>3. Earned(new, b, f, h)
        BY <2>4, <2>6, <4>2 DEF Earned
      <4> QED
        BY <2>1, <2>5, <4>1, <4>3 DEF Fits
    <3> QED
      BY <3>1, <3>2
  <2>7. CASE locked # sf
    <3>1. sf.state = "started" /\ sf.cycles[l].blocks >= Quorum
      BY <2>2, <2>7 DEF LockIn
    <3>2. OpenBefore(sf, h)
      BY <3>1 DEF FitsBefore, IsOpen
    <3>3. sf.cycles[l].cycle = Cycle(h)
      BY <2>2, <3>1, <3>2 DEF OpenBefore
    <3>4. sf.cycles[l].blocks <= Cardinality(Voters(b, f, Cycle(h), h))
      BY <2>2, <3>3 DEF FitsBefore, CountsFit
    <3>5. Cardinality(Voters(b, f, Cycle(h), h)) \in Nat
      BY VotersType
    <3>6. Cardinality(Voters(b, f, Cycle(h), h)) >= Quorum
      BY <1>3, <2>2, <3>1, <3>4, <3>5, ConstantFact
    <3>7. CycleLength * (Cycle(h) + 1) = CycleLength * Cycle(h) + CycleLength
      BY <1>2, ConstantFact
    <3>8. Earned(new, b, f, h)
      BY <1>2, <2>3, <2>4, <2>7, <3>6, <3>7 DEF Earned
    <3>9. ~ IsOpen(new)
      BY <2>3, <2>4, <2>7 DEF IsOpen
    <3> QED
      BY <2>1, <2>5, <3>8, <3>9 DEF Fits
  <2> QED
    BY <2>6, <2>7
<1> QED
  BY <1>4, <1>5

\* One height more, indexed or replayed.
LEMMA StepFits ==
    ASSUME NEW sf \in SoftFork, NEW b, NEW f, NEW h \in Nat \ {0}, NEW u \in {h - 1, h},
           NEW signalling \in BOOLEAN, signalling => f \in b[h], Fits(sf, b, f, h - 1)
    PROVE  Fits(Step(sf, signalling, h, u), b, f, h)
<1> DEFINE added == IF signalling THEN AddSignal(sf, h) ELSE sf
<1>1. added \in SoftFork
  BY AddSignalType
<1>2. FitsBefore(added, b, f, h)
  BY FitsKeep, FitsAdd
<1>3. Step(sf, signalling, h, u) = IF IsEnd(h) THEN UpdateState(added, u) ELSE added
  BY DEF Step
<1> HIDE DEF added
<1> QED
  BY <1>1, <1>2, <1>3, FitsMiddle, FitsEnd

-----------------------------------------------------------------------------
(* The replay and the machine, height by height *)

LEMMA DefinedFact ==
    /\ Defined \in SoftFork /\ IsOpen(Defined)
    /\ Defined.state = "defined" /\ Defined.cycles = <<>>
    /\ Defined.lockedIn = 0 /\ Defined.activation = 0
BY DEF Defined, SoftFork, IsOpen

LEMMA DefinedFits ==
    ASSUME NEW b, NEW f, NEW n
    PROVE  Fits(Defined, b, f, n)
BY DefinedFact DEF Fits, CountsFit, OpenFits

\* What follows the height before, at each height of the replay.
LEMMA ReplayAt ==
    ASSUME NEW g, NEW f, NEW n \in Int, IsReplay(g, f, n), NEW h \in -1 .. n
    PROVE  g[h] = IF h < 0 THEN Defined
                  ELSE Step(g[h - 1], HasSignal(f, h), h, h - 1)
<1>1. g[h] = IF h < 0 THEN Defined ELSE ReplayedAt(g[h - 1], f, h)
  BY DEF IsReplay
<1> QED
  BY <1>1, ReplayedAtIsStep

LEMMA MachineAt ==
    ASSUME NEW m, NEW b, NEW f, NEW n \in Nat, IsMachine(m, b, f, n), NEW h \in 0 .. n
    PROVE  m[h] = IF h = 0 THEN Defined ELSE Step(m[h - 1], f \in b[h], h, h)
<1>1. m[h] = IF h = 0 THEN Defined ELSE Indexed(m[h - 1], f \in b[h], h)
  BY DEF IsMachine
<1> QED
  BY <1>1, IndexedIsStep

\* The genesis block signals nothing and ends no cycle.
LEMMA ReplayGenesis ==
    ASSUME signals \subseteq Signal, NEW g, NEW f, NEW n \in Nat, IsReplay(g, f, n)
    PROVE  g[-1] = Defined /\ g[0] = Defined
<1>1. g[-1] = Defined
  <2>1. -1 \in -1 .. n /\ -1 < 0
    OBVIOUS
  <2> QED
    BY <2>1, ReplayAt
<1>2. ~ IsEnd(0)
  <2>1. Cycle(0) \in Nat /\ Cycle(0) >= 1 /\ CycleLength * Cycle(0) \in Nat
        /\ (IsEnd(0) <=> 0 + 1 = CycleLength * Cycle(0))
    BY CycleFact
  <2>2. CycleLength * 0 + CycleLength <= CycleLength * Cycle(0) /\ CycleLength * 0 = 0
    BY <2>1, MultipleFact, ConstantFact
  <2> QED
    BY <2>1, <2>2, ConstantFact
<1>3. HasSignal(f, 0) = FALSE
  BY ConstantFact DEF Signal, HasSignal
<1>4. g[0] = Step(g[0 - 1], HasSignal(f, 0), 0, 0 - 1)
  <2>1. 0 \in -1 .. n /\ ~ (0 < 0)
    OBVIOUS
  <2> QED
    BY <2>1, ReplayAt
<1>5. g[0] = g[0 - 1]
  BY <1>2, <1>3, <1>4 DEF Step
<1>6. 0 - 1 = -1
  OBVIOUS
<1> QED
  BY <1>1, <1>5, <1>6

LEMMA ReplayType ==
    ASSUME signals \subseteq Signal, NEW g, NEW f, NEW n \in Int, IsReplay(g, f, n),
           NEW h \in -1 .. n
    PROVE  g[h] \in SoftFork
<1> DEFINE S == {k \in Nat : k - 1 <= n => g[k - 1] \in SoftFork}
<1>1. 0 \in S
  <2>1. n >= -1 /\ -1 \in -1 .. n /\ 0 - 1 = -1
    OBVIOUS
  <2>2. g[-1] = Defined
    <3>1. -1 < 0
      OBVIOUS
    <3> QED
      BY <2>1, <3>1, ReplayAt
  <2> QED
    BY <2>1, <2>2, DefinedFact
<1>2. ASSUME NEW k \in S PROVE k + 1 \in S
  <2>1. (k + 1) - 1 = k
    OBVIOUS
  <2>2. CASE ~ (k <= n)
    BY <2>1, <2>2
  <2>3. CASE k <= n
    <3> DEFINE signalling == HasSignal(f, k)
    <3>1. k \in -1 .. n /\ ~ (k < 0) /\ k - 1 <= n
      BY <2>3
    <3>2. g[k - 1] \in SoftFork
      BY <3>1
    <3>3. g[k] = Step(g[k - 1], signalling, k, k - 1)
      BY <3>1, ReplayAt
    <3>4. CASE k = 0
      <4>1. n \in Nat
        BY <2>3, <3>4
      <4>2. g[0] = Defined
        BY <4>1, ReplayGenesis
      <4> QED
        BY <2>1, <3>4, <4>2, DefinedFact
    <3>5. CASE k # 0
      <4>1. k - 1 \in Nat /\ signalling \in BOOLEAN
        BY <3>5 DEF HasSignal
      <4> HIDE DEF signalling
      <4>2. g[k] \in SoftFork
        BY <3>2, <3>3, <4>1, StepType
      <4> QED
        BY <2>1, <4>2
    <3> QED
      BY <3>4, <3>5
  <2> QED
    BY <2>2, <2>3
<1>3. Inductive(S)
  BY <1>1, <1>2 DEF Inductive
<1>4. h + 1 \in Nat /\ (h + 1) - 1 = h /\ h <= n
  OBVIOUS
<1>5. h + 1 \in S
  <2> HIDE DEF S
  <2> QED
    BY <1>3, <1>4, SetInduction
<1> QED
  BY <1>4, <1>5

\* The replay of signals that are real leaves a soft fork accounted for.
LEMMA ReplayFits ==
    ASSUME signals \subseteq Signal, Real(signals, bits), Len(bits) \in Nat,
           NEW g, NEW f, NEW n \in Nat, n <= Len(bits), IsReplay(g, f, n), NEW h \in 0 .. n
    PROVE  Fits(g[h], bits, f, h)
<1> DEFINE S == {k \in Nat : k <= n => Fits(g[k], bits, f, k)}
<1>1. 0 \in S
  BY ReplayGenesis, DefinedFits
<1>2. ASSUME NEW k \in S PROVE k + 1 \in S
  <2>1. SUFFICES ASSUME k + 1 <= n PROVE Fits(g[k + 1], bits, f, k + 1)
    OBVIOUS
  <2> DEFINE i == k + 1
             signalling == HasSignal(f, i)
  <2>2. i \in Nat \ {0} /\ i \in -1 .. n /\ ~ (i < 0) /\ i - 1 = k /\ k \in -1 .. n
    BY <2>1
  <2>3. Fits(g[k], bits, f, k)
    BY <2>1
  <2>4. g[k] \in SoftFork
    BY <2>2, ReplayType
  <2> HIDE DEF i
  <2>5. g[i] = Step(g[i - 1], signalling, i, i - 1)
    BY <2>2, ReplayAt
  <2>6. signalling \in BOOLEAN
    BY DEF HasSignal
  <2>7. signalling => f \in bits[i]
    BY <2>2 DEF Real, HasSignal
  <2> HIDE DEF signalling
  <2>8. Fits(g[i], bits, f, i)
    BY <2>2, <2>3, <2>4, <2>5, <2>6, <2>7, StepFits
  <2> QED
    BY <2>8 DEF i
<1>3. Inductive(S)
  BY <1>1, <1>2 DEF Inductive
<1>4. h \in S
  <2> HIDE DEF S
  <2> QED
    BY <1>3, SetInduction
<1> QED
  BY <1>4

\* The machine's soft forks are accounted for by the blocks it went through.
LEMMA MachineFits ==
    ASSUME NEW m, NEW b, NEW f, NEW n \in Nat, IsMachine(m, b, f, n), NEW h \in 0 .. n
    PROVE  m[h] \in SoftFork /\ Fits(m[h], b, f, h)
<1> DEFINE S == {k \in Nat : k <= n => m[k] \in SoftFork /\ Fits(m[k], b, f, k)}
<1>1. 0 \in S
  <2>1. m[0] = Defined
    BY MachineAt
  <2> QED
    BY <2>1, DefinedFact, DefinedFits
<1>2. ASSUME NEW k \in S PROVE k + 1 \in S
  <2>1. SUFFICES ASSUME k + 1 <= n
                 PROVE  m[k + 1] \in SoftFork /\ Fits(m[k + 1], b, f, k + 1)
    OBVIOUS
  <2> DEFINE i == k + 1
             signalling == f \in b[i]
  <2>2. i \in Nat \ {0} /\ i \in 0 .. n /\ i - 1 = k /\ i # 0
    BY <2>1
  <2>3. m[k] \in SoftFork /\ Fits(m[k], b, f, k)
    BY <2>1
  <2> HIDE DEF i
  <2>4. m[i] = Step(m[i - 1], signalling, i, i)
    BY <2>2, MachineAt
  <2>5. signalling \in BOOLEAN
    OBVIOUS
  <2>6. signalling => f \in b[i]
    OBVIOUS
  <2> HIDE DEF signalling
  <2>7. m[i] \in SoftFork
    BY <2>2, <2>3, <2>4, <2>5, StepType
  <2>8. Fits(m[i], b, f, i)
    BY <2>2, <2>3, <2>4, <2>5, <2>6, StepFits
  <2> QED
    BY <2>7, <2>8 DEF i
<1>3. Inductive(S)
  BY <1>1, <1>2 DEF Inductive
<1>4. h \in S
  <2> HIDE DEF S
  <2> QED
    BY <1>3, SetInduction
<1> QED
  BY <1>4

-----------------------------------------------------------------------------
(* While it is open, the machine counts every voter *)

\* The counts are those of the first n blocks.
Exact(cycles, b, f, n) ==
    \A c \in Nat \ {0} :
        \/ Cardinality(Voters(b, f, c, n)) = 0
        \/ \E i \in DOMAIN cycles : /\ cycles[i].cycle = c
                                    /\ cycles[i].blocks = Cardinality(Voters(b, f, c, n))

\* What a step leaves of the cycles and the state.
LEMMA StepCycles ==
    ASSUME NEW sf \in SoftFork, NEW signalling \in BOOLEAN, NEW h \in Nat, NEW u \in Nat
    PROVE  /\ Step(sf, signalling, h, u).cycles
                = IF signalling /\ IsOpen(sf) THEN Count(sf.cycles, Cycle(h)) ELSE sf.cycles
           /\ IsOpen(Step(sf, signalling, h, u)) => IsOpen(sf)
           /\ sf.state = "active" => Step(sf, signalling, h, u).state = "active"
<1> DEFINE added == IF signalling THEN AddSignal(sf, h) ELSE sf
           locked == LockIn(added, u)
           new == Activate(locked, u)
<1>1. /\ added \in SoftFork
      /\ added.cycles = IF signalling /\ IsOpen(sf) THEN Count(sf.cycles, Cycle(h)) ELSE sf.cycles
      /\ IsOpen(added) => IsOpen(sf)
      /\ sf.state = "active" => added.state = "active"
  <2>1. CASE signalling /\ IsOpen(sf)
    BY <2>1, AddSignalFact DEF IsOpen
  <2>2. CASE ~ (signalling /\ IsOpen(sf))
    BY <2>2 DEF AddSignal
  <2> QED
    BY <2>1, <2>2
<1>2. Step(sf, signalling, h, u)
        = IF IsEnd(h) THEN (IF added.cycles = <<>> THEN added ELSE new) ELSE added
  BY DEF Step, UpdateState
<1> HIDE DEF added
<1>3. /\ locked \in SoftFork /\ locked.cycles = added.cycles
      /\ locked = added \/ locked.state = "locked_in"
      /\ added.state = "active" => locked = added
  BY <1>1, LockInFact DEF LockIn
<1> HIDE DEF locked
<1>4. /\ new.cycles = locked.cycles
      /\ new.state # locked.state => locked.state = "locked_in" /\ new.state = "active"
  BY <1>3, ActivateFact
<1> HIDE DEF new
<1> QED
  BY <1>1, <1>2, <1>3, <1>4 DEF IsOpen

LEMMA ExactNext ==
    ASSUME NEW cycles \in Seq(Tally), NEW b, NEW f, NEW h \in Nat \ {0},
           CountsFit(cycles, b, f, h - 1), Exact(cycles, b, f, h - 1)
    PROVE  Exact(IF f \in b[h] THEN Count(cycles, Cycle(h)) ELSE cycles, b, f, h)
<1> DEFINE n == Cycle(h)
           new == IF f \in b[h] THEN Count(cycles, n) ELSE cycles
           was(c) == Cardinality(Voters(b, f, c, h - 1))
           now(c) == Cardinality(Voters(b, f, c, h))
<1>1. n \in Nat \ {0} /\ h - 1 \in Nat
  BY CycleFact
<1>2. \A i \in DOMAIN cycles :
         /\ cycles[i].cycle \in Nat /\ cycles[i].blocks \in Nat /\ cycles[i].blocks # 0
         /\ cycles[i].blocks <= was(cycles[i].cycle)
  <2>1. \A i \in DOMAIN cycles : cycles[i] \in Tally
    OBVIOUS
  <2> QED
    BY <2>1 DEF Tally, CountsFit
<1>3. DOMAIN cycles = 1 .. Len(cycles) /\ Len(cycles) \in Nat
  OBVIOUS
<1>4. \A i, j \in DOMAIN cycles : cycles[i].cycle = cycles[j].cycle => i = j
  <2>1. \A i, j \in DOMAIN cycles : i # j => i < j \/ j < i
    BY <1>3
  <2> QED
    BY <1>2, <2>1 DEF CountsFit
<1>5. ASSUME NEW c \in Nat \ {0}
      PROVE  now(c) = 0 \/ \E i \in DOMAIN new : new[i].cycle = c /\ new[i].blocks = now(c)
  <2>1. was(c) \in Nat
    BY <1>1, VotersType
  <2>2. now(c) = IF f \in b[h] /\ n = c THEN was(c) + 1 ELSE was(c)
    BY VotersNext
  <2>3. was(c) = 0 \/ \E i \in DOMAIN cycles : cycles[i].cycle = c /\ cycles[i].blocks = was(c)
    BY DEF Exact
  <2>4. CASE f \notin b[h]
    <3>1. new = cycles
      BY <2>4
    <3> HIDE DEF new, was, now
    <3> QED
      BY <2>2, <2>3, <2>4, <3>1
  <2>5. CASE f \in b[h] /\ \E i \in DOMAIN cycles : cycles[i].cycle = n
    <3>1. PICK k \in DOMAIN cycles : cycles[k].cycle = n
      BY <2>5
    <3>2. /\ DOMAIN new = DOMAIN cycles
          /\ \A i \in DOMAIN cycles :
                /\ new[i].cycle = cycles[i].cycle
                /\ new[i].blocks
                     = IF cycles[i].cycle = n THEN cycles[i].blocks + 1 ELSE cycles[i].blocks
      BY <1>1, <2>5, <3>1, CountAgain
    <3>3. n = c => cycles[k].blocks = was(c)
      <4> HIDE DEF was
      <4> QED
        BY <1>2, <1>4, <2>1, <2>3, <3>1
    <3> HIDE DEF new, was, now, n
    <3>4. CASE n # c
      BY <2>2, <2>3, <3>2, <3>4
    <3>5. CASE n = c
      BY <2>2, <2>5, <3>1, <3>2, <3>3, <3>5
    <3> QED
      BY <3>4, <3>5
  <2>6. CASE f \in b[h] /\ ~ \E i \in DOMAIN cycles : cycles[i].cycle = n
    <3>1. /\ DOMAIN new = 1 .. Len(cycles) + 1
          /\ \A i \in DOMAIN cycles : new[i] = cycles[i]
          /\ new[Len(cycles) + 1].cycle = n
          /\ new[Len(cycles) + 1].blocks = 1
      BY <1>1, <2>6, CountFirst
    <3>2. Len(cycles) + 1 \in DOMAIN new /\ \A i \in DOMAIN cycles : i \in DOMAIN new
      BY <1>3, <3>1
    <3> HIDE DEF was, now, new, n
    <3>3. CASE n = c
      BY <2>1, <2>2, <2>3, <2>6, <3>1, <3>2, <3>3
    <3>4. CASE n # c
      BY <2>2, <2>3, <3>1, <3>2, <3>4
    <3> QED
      BY <3>3, <3>4
  <2> HIDE DEF was, now, new, n
  <2> QED
    BY <2>4, <2>5, <2>6
<1>6. Exact(new, b, f, h)
  <2> HIDE DEF new
  <2> QED
    BY <1>5 DEF Exact
<1> QED
  BY <1>6

\* The machine of a soft fork that is still open has counted every voter.
LEMMA MachineExact ==
    ASSUME NEW m, NEW b, NEW f, NEW n \in Nat, IsMachine(m, b, f, n), NEW h \in 0 .. n,
           IsOpen(m[h])
    PROVE  Exact(m[h].cycles, b, f, h)
<1> DEFINE S == {k \in Nat : k <= n /\ IsOpen(m[k]) => Exact(m[k].cycles, b, f, k)}
<1>1. 0 \in S
  <2>1. \A c : Voters(b, f, c, 0) = {}
    BY DEF Voters
  <2>2. \A c : Cardinality(Voters(b, f, c, 0)) = 0
    BY <2>1, FS_EmptySet
  <2> QED
    BY <2>2 DEF Exact
<1>2. ASSUME NEW k \in S PROVE k + 1 \in S
  <2>1. SUFFICES ASSUME k + 1 <= n, IsOpen(m[k + 1])
                 PROVE  Exact(m[k + 1].cycles, b, f, k + 1)
    OBVIOUS
  <2> DEFINE i == k + 1
             signalling == f \in b[i]
  <2>2. i \in Nat \ {0} /\ i \in 0 .. n /\ i - 1 = k /\ i # 0 /\ k \in 0 .. n /\ k <= n
    BY <2>1
  <2>3. m[k] \in SoftFork /\ Fits(m[k], b, f, k)
    BY <2>2, MachineFits
  <2>4. IsOpen(m[k]) => Exact(m[k].cycles, b, f, k)
    BY <2>2
  <2>5. IsOpen(m[i])
    BY <2>1
  <2> HIDE DEF i
  <2>6. m[i] = Step(m[k], signalling, i, i)
    BY <2>2, MachineAt
  <2>7. signalling \in BOOLEAN
    OBVIOUS
  <2> HIDE DEF signalling
  <2>8. /\ m[i].cycles = IF signalling /\ IsOpen(m[k]) THEN Count(m[k].cycles, Cycle(i))
                         ELSE m[k].cycles
        /\ IsOpen(m[i]) => IsOpen(m[k])
    BY <2>2, <2>3, <2>6, <2>7, StepCycles
  <2>9. m[i].cycles = IF f \in b[i] THEN Count(m[k].cycles, Cycle(i)) ELSE m[k].cycles
    BY <2>5, <2>8 DEF signalling
  <2>10. m[k].cycles \in Seq(Tally) /\ CountsFit(m[k].cycles, b, f, i - 1)
         /\ Exact(m[k].cycles, b, f, i - 1)
    BY <2>2, <2>3, <2>4, <2>5, <2>8, SoftForkFact DEF Fits
  <2>11. Exact(m[i].cycles, b, f, i)
    BY <2>2, <2>9, <2>10, ExactNext
  <2> QED
    BY <2>11 DEF i
<1>3. Inductive(S)
  BY <1>1, <1>2 DEF Inductive
<1>4. h \in S
  <2> HIDE DEF S
  <2> QED
    BY <1>3, SetInduction
<1> QED
  BY <1>4

\* So it is open only while no complete cycle has had a quorum.
LEMMA MachineOpenThrough ==
    ASSUME NEW m, NEW b, NEW f, NEW n \in Nat, IsMachine(m, b, f, n), NEW h \in 0 .. n,
           IsOpen(m[h])
    PROVE  OpenThrough(b, f, h)
<1>1. m[h] \in SoftFork /\ OpenFits(m[h], h)
  BY MachineFits DEF Fits
<1>2. Exact(m[h].cycles, b, f, h)
  BY MachineExact
<1> SUFFICES ASSUME NEW c \in 1 .. Cycle(h), CycleLength * c - 1 <= h,
                    ~ (Cardinality(Voters(b, f, c, h)) < Quorum)
             PROVE  FALSE
  BY DEF OpenThrough
<1>3. /\ Cycle(h) \in Nat /\ h < CycleLength * Cycle(h) /\ CycleLength * Cycle(h) \in Nat
      /\ IsEnd(h) <=> h + 1 = CycleLength * Cycle(h)
  BY CycleFact
<1>4. Cardinality(Voters(b, f, c, h)) \in Nat
  BY VotersType
<1>5. PICK i \in DOMAIN m[h].cycles :
        m[h].cycles[i].cycle = c /\ m[h].cycles[i].blocks = Cardinality(Voters(b, f, c, h))
  BY <1>2, <1>3, <1>4, ConstantFact DEF Exact
<1>6. c = Cycle(h) /\ ~ IsEnd(h)
  BY <1>1, <1>4, <1>5, ConstantFact DEF OpenFits
<1> QED
  BY <1>3, <1>6

\* A soft fork that is accounted for is open as long as no cycle had a quorum.
LEMMA OpenIfThrough ==
    ASSUME NEW sf \in SoftFork, NEW b, NEW f, NEW n \in Nat,
           Fits(sf, b, f, n), OpenThrough(b, f, n)
    PROVE  IsOpen(sf)
<1> SUFFICES ASSUME ~ IsOpen(sf) PROVE FALSE
  OBVIOUS
<1>1. PICK c \in 1 .. Cycle(n) : /\ Cardinality(Voters(b, f, c, n)) >= Quorum
                                 /\ sf.lockedIn = CycleLength * c
                                 /\ n >= CycleLength * c - 1
  BY DEF Fits, Earned
<1>2. Cardinality(Voters(b, f, c, n)) \in Nat
  BY VotersType
<1>3. Cardinality(Voters(b, f, c, n)) < Quorum
  BY <1>1, SoftForkFact DEF OpenThrough
<1> QED
  BY <1>1, <1>2, <1>3, ConstantFact

-----------------------------------------------------------------------------
(* The replay follows the machine *)

\* The height passed to the update of the states matters to the activation only.
LEMMA StepSame ==
    ASSUME NEW sf \in SoftFork, NEW h \in Nat \ {0}, NEW s \in BOOLEAN, NEW t \in BOOLEAN,
           IsOpen(sf) => (s <=> t) /\ sf.lockedIn = 0,
           Step(sf, t, h, h).state # "active"
    PROVE  Step(sf, s, h, h - 1) = Step(sf, t, h, h)
<1> DEFINE added == IF t THEN AddSignal(sf, h) ELSE sf
<1>1. (IF s THEN AddSignal(sf, h) ELSE sf) = added
  BY DEF AddSignal
<1>2. added \in SoftFork /\ (added.state = "started" => added.lockedIn = 0)
  <2>1. CASE IsOpen(sf)
    BY <2>1, AddSignalFact
  <2>2. CASE ~ IsOpen(sf)
    BY <2>2 DEF AddSignal, IsOpen
  <2> QED
    BY <2>1, <2>2
<1>3. /\ Step(sf, s, h, h - 1) = IF IsEnd(h) THEN UpdateState(added, h - 1) ELSE added
      /\ Step(sf, t, h, h) = IF IsEnd(h) THEN UpdateState(added, h) ELSE added
  BY <1>1 DEF Step
<1> HIDE DEF added
<1>4. CASE ~ IsEnd(h) \/ added.cycles = <<>>
  BY <1>3, <1>4 DEF UpdateState
<1>5. CASE IsEnd(h) /\ added.cycles # <<>>
  <2>1. Cycle(h - 1) = Cycle(h) /\ h - 1 \in Nat
    BY <1>5, CycleNext
  <2>2. LockIn(added, h - 1) = LockIn(added, h)
    <3> DEFINE u == h - 1
    <3>1. added.state = "started" => u >= added.lockedIn /\ h >= added.lockedIn
      BY <1>2, <2>1
    <3>2. Cycle(u) = Cycle(h)
      BY <2>1
    <3> HIDE DEF u
    <3>3. LockIn(added, u) = LockIn(added, h)
      BY <3>1, <3>2 DEF LockIn
    <3> QED
      BY <3>3 DEF u
  <2> DEFINE locked == LockIn(added, h)
  <2>3. locked \in SoftFork
    BY <1>2, LockInFact
  <2>4. Step(sf, s, h, h - 1) = Activate(locked, h - 1) /\ Step(sf, t, h, h) = Activate(locked, h)
    BY <1>3, <1>5, <2>2 DEF UpdateState
  <2> HIDE DEF locked
  <2>5. ~ (locked.state = "locked_in" /\ h >= locked.activation - 1)
    BY <2>3, <2>4 DEF Activate, SoftFork
  <2>6. ~ (locked.state = "locked_in" /\ h - 1 >= locked.activation - 1)
    BY <2>3, <2>5, SoftForkFact
  <2> QED
    BY <2>4, <2>5, <2>6 DEF Activate
<1> QED
  BY <1>4, <1>5

\* As long as the machine has not activated the soft fork, the replay of signals
\* that are real and complete is where the machine is.
LEMMA ReplayIsMachine ==
    ASSUME signals \subseteq Signal, Len(bits) \in Nat, Real(signals, bits),
           Complete(signals, bits, Len(bits)),
           NEW f \in Fork, NEW g, NEW m,
           IsReplay(g, f, Len(bits)), IsMachine(m, bits, f, Len(bits)),
           NEW h \in 0 .. Len(bits), m[h].state # "active"
    PROVE  g[h] = m[h]
<1> DEFINE n == Len(bits)
           S == {k \in Nat : k <= n /\ m[k].state # "active" => g[k] = m[k]}
<1>1. 0 \in S
  <2>1. g[0] = Defined
    BY ReplayGenesis
  <2>2. m[0] = Defined
    BY MachineAt
  <2> QED
    BY <2>1, <2>2
<1>2. ASSUME NEW k \in S PROVE k + 1 \in S
  <2>1. SUFFICES ASSUME k + 1 <= n, m[k + 1].state # "active" PROVE g[k + 1] = m[k + 1]
    OBVIOUS
  <2> DEFINE i == k + 1
             sent == HasSignal(f, i)
             signalling == f \in bits[i]
  <2>2. /\ i \in Nat \ {0} /\ i \in 0 .. n /\ i - 1 = k /\ i # 0 /\ k \in 0 .. n
        /\ i \in -1 .. n /\ ~ (i < 0) /\ i \in 1 .. n /\ n \in Nat /\ k <= n
    BY <2>1
  <2>3. m[k].state # "active" => g[k] = m[k]
    BY <2>2
  <2>4. m[i].state # "active"
    BY <2>1
  <2>5. m[k] \in SoftFork /\ Fits(m[k], bits, f, k)
    BY <2>2, MachineFits
  <2> HIDE DEF i
  <2>6. m[i] = Step(m[k], signalling, i, i)
    BY <2>2, MachineAt
  <2>7. g[i] = Step(g[k], sent, i, i - 1)
    BY <2>2, ReplayAt
  <2>8. sent \in BOOLEAN /\ signalling \in BOOLEAN
    BY DEF HasSignal
  <2>9. IsOpen(m[k]) => (sent <=> signalling)
    <3>1. sent => signalling
      BY <2>2 DEF Real, HasSignal
    <3>2. ASSUME IsOpen(m[k]), signalling PROVE sent
      <4>1. OpenThrough(bits, f, i - 1)
        BY <2>2, <3>2, MachineOpenThrough
      <4> QED
        BY <2>2, <3>2, <4>1 DEF Complete, HasSignal
    <3> QED
      BY <3>1, <3>2
  <2> HIDE DEF sent, signalling
  <2>10. IsOpen(m[k]) => m[k].lockedIn = 0
    BY <2>5 DEF Fits, OpenFits
  <2>11. m[k].state # "active"
    BY <2>2, <2>4, <2>5, <2>6, <2>8, StepCycles
  <2>12. Step(m[k], sent, i, i - 1) = Step(m[k], signalling, i, i)
    BY <2>2, <2>4, <2>5, <2>6, <2>8, <2>9, <2>10, StepSame
  <2>13. g[i] = m[i]
    BY <2>3, <2>6, <2>7, <2>11, <2>12
  <2> QED
    BY <2>13 DEF i
<1>3. Inductive(S)
  BY <1>1, <1>2 DEF Inductive
<1>4. h \in S
  <2> HIDE DEF S
  <2> QED
    BY <1>3, SetInduction
<1> QED
  BY <1>4

-----------------------------------------------------------------------------
(* Types *)

LEMMA CutFact ==
    ASSUME NEW T, NEW b \in Seq(T), NEW n \in 0 .. Len(b)
    PROVE  /\ SubSeq(b, 1, n) \in Seq(T) /\ Len(SubSeq(b, 1, n)) = n
           /\ \A i \in 1 .. n : SubSeq(b, 1, n)[i] = b[i]
OBVIOUS

LEMMA AppendFact ==
    ASSUME NEW T, NEW b \in Seq(T), NEW v \in T
    PROVE  /\ Append(b, v) \in Seq(T) /\ Len(Append(b, v)) = Len(b) + 1
           /\ \A i \in 1 .. Len(b) : Append(b, v)[i] = b[i]
           /\ Append(b, v)[Len(b) + 1] = v
OBVIOUS

LEMMA MergedType ==
    ASSUME NEW old \in SoftFork, NEW new \in SoftFork
    PROVE  Merged(old, new) \in SoftFork
BY DEF Merged, SoftFork

LEMMA UpdatedType ==
    ASSUME stored \in [Fork -> SoftFork], NEW new \in [Fork -> SoftFork], NEW F
    PROVE  Updated(F, new) \in [Fork -> SoftFork]
BY MergedType DEF Updated

\* A rewind goes back to a block that is there.
LEMMA TargetFact ==
    ASSUME TypeOK
    PROVE  /\ Len(bits) \in Nat /\ TargetHeight \in 0 .. Len(bits)
           /\ Len(bits) <= TargetHeight + ReindexSize
BY ConstantFact DEF TypeOK, TargetHeight

LEMMA AfterBlockFact ==
    ASSUME TypeOK, NEW version, NEW f \in Fork
    PROVE  /\ AfterBlock(version)[f] = Step(forks[f], f \in Signalled(version, Len(bits) + 1),
                                            Len(bits) + 1, Len(bits) + 1)
           /\ AfterBlock(version)[f] \in SoftFork
<1> DEFINE h == Len(bits) + 1
           s == f \in Signalled(version, h)
<1>1. AfterBlock(version)[f] = Indexed(forks[f], s, h)
  BY DEF AfterBlock
<1>2. h \in Nat /\ s \in BOOLEAN /\ forks[f] \in SoftFork
  BY DEF TypeOK
<1> HIDE DEF h, s
<1>3. AfterBlock(version)[f] = Step(forks[f], s, h, h)
  BY <1>1, IndexedIsStep
<1>4. AfterBlock(version)[f] \in SoftFork
  BY <1>2, <1>3, StepType
<1> QED
  BY <1>3, <1>4 DEF h, s

LEMMA AfterBlockType ==
    ASSUME TypeOK, NEW version
    PROVE  AfterBlock(version) \in [Fork -> SoftFork]
<1>1. \A f \in Fork : AfterBlock(version)[f] \in SoftFork
  BY AfterBlockFact
<1> QED
  BY <1>1 DEF AfterBlock

\* The signal documents of a block.
LEMMA NewSignalsFact ==
    ASSUME TypeOK, Len(bits) < MaxHeight, NEW version \in SUBSET Fork
    PROVE  /\ NewSignals(version) \subseteq Signal
           /\ \A r \in NewSignals(version) :
                 r.height = Len(bits) + 1 /\ r.softForks \subseteq version
<1>1. Len(bits) + 1 \in 1 .. MaxHeight
  BY ConstantFact DEF TypeOK
<1>2. \A r \in NewSignals(version) :
         /\ r \in [height : {Len(bits) + 1}, softForks : SUBSET version]
  BY DEF NewSignals, Signalled
<1> QED
  BY <1>1, <1>2 DEF Signal

\* Where the replay ends.
LEMMA LastReplayedFact ==
    ASSUME rewindTo \in Nat
    PROVE  /\ LastReplayed \in Int /\ LastReplayed >= -1
           /\ LastReplayed = rewindTo \/ (LastReplayed = rewindTo - 1 /\ ~ IsEnd(rewindTo))
           /\ rewindTo % CycleLength # 0 => LastReplayed = rewindTo
<1>1. CASE rewindTo % CycleLength # 0
  BY <1>1 DEF LastReplayed
<1>2. CASE rewindTo % CycleLength = 0
  <2>1. LastReplayed = rewindTo - 1
    BY <1>2 DEF LastReplayed
  <2> DEFINE q == rewindTo \div CycleLength
  <2>2. q \in Nat /\ rewindTo = CycleLength * q
    BY <1>2, ConstantFact
  <2> HIDE DEF q
  <2>3. CycleLength * (q + 1) = CycleLength * q + CycleLength
    BY <2>2, ConstantFact
  <2>4. Cycle(rewindTo) = q + 1
    BY <2>2, <2>3, CycleIs, ConstantFact
  <2>5. ~ IsEnd(rewindTo)
    BY <2>2, <2>3, <2>4, CycleFact, ConstantFact
  <2> QED
    BY <1>2, <2>1, <2>5
<1> QED
  BY <1>1, <1>2

LEMMA ReplayedType ==
    ASSUME TypeOK, NEW f
    PROVE  Replayed(f) \in SoftFork
<1>1. LastReplayed \in Int /\ LastReplayed >= -1
  BY LastReplayedFact DEF TypeOK
<1>2. PICK g : IsReplay(g, f, LastReplayed) /\ Replayed(f) = g[LastReplayed]
  BY <1>1, ReplayedFact
<1>3. LastReplayed \in -1 .. LastReplayed
  BY <1>1
<1> QED
  BY <1>1, <1>2, <1>3, ReplayType DEF TypeOK

LEMMA TypeInit ==
    ASSUME Init
    PROVE  TypeInv
<1>1. /\ bits \in Seq(SUBSET Fork) /\ Len(bits) = FinalHeight /\ top = Len(bits)
      /\ Len(bits) <= MaxHeight
  BY ConstantFact DEF Init
<1>2. forks \in [Fork -> SoftFork] /\ stored \in [Fork -> SoftFork]
  BY DefinedFact DEF Init
<1>3. TypeOK
  BY <1>1, <1>2, ConstantFact DEF Init, TypeOK
<1> QED
  BY <1>1, <1>3, ConstantFact DEF Init, TypeInv, ShapeInv

LEMMA TypeIndexBlock ==
    ASSUME TypeInv, IndexBlock
    PROVE  TypeInv'
<1>1. PICK version \in Versions :
         /\ bits' = Append(bits, version)
         /\ forks' = AfterBlock(version)
         /\ requests' = requests \cup NewSignals(version)
  BY DEF IndexBlock
<1>2. TypeOK /\ version \in SUBSET Fork /\ Len(bits) < MaxHeight
  BY ConstantFact DEF TypeInv, IndexBlock
<1>3. bits' \in Seq(SUBSET Fork) /\ Len(bits') = Len(bits) + 1
  BY <1>1, <1>2, AppendFact DEF TypeOK
<1>4. forks' \in [Fork -> SoftFork]
  BY <1>1, <1>2, AfterBlockType
<1>5. requests' \subseteq Signal /\ \A r \in requests' : r.height \in top + 1 .. Len(bits')
  <2>1. /\ NewSignals(version) \subseteq Signal
        /\ \A r \in NewSignals(version) : r.height = Len(bits) + 1
    BY <1>2, NewSignalsFact
  <2>2. \A r \in requests : r.height \in top + 1 .. Len(bits)
    BY DEF TypeInv, ShapeInv
  <2> QED
    BY <1>1, <1>2, <1>3, <2>1, <2>2 DEF TypeOK
<1>6. TypeOK'
  BY <1>2, <1>3, <1>4, <1>5, ConstantFact DEF TypeOK, IndexBlock
<1>7. ShapeInv'
  BY <1>2, <1>3, <1>5, ConstantFact DEF TypeOK, TypeInv, ShapeInv, IndexBlock
<1> QED
  BY <1>6, <1>7 DEF TypeInv

LEMMA TypePersist ==
    ASSUME TypeInv, Persist
    PROVE  TypeInv'
<1>1. stored' \in [Fork -> SoftFork]
  BY UpdatedType DEF Persist, TypeInv, TypeOK
<1>2. TypeOK'
  BY <1>1 DEF Persist, TypeInv, TypeOK
<1>3. ShapeInv'
  BY ConstantFact DEF Persist, TypeInv, TypeOK, ShapeInv
<1> QED
  BY <1>2, <1>3 DEF TypeInv

\* The process ends with one of the blocks of before.
LEMMA TypeDie ==
    ASSUME TypeInv, kills < MaxKills, NEW b \in Seq(SUBSET Fork), Len(b) <= Len(bits), Die(b),
           signals' \subseteq Signal, stored' \in [Fork -> SoftFork]
    PROVE  TypeInv'
<1>1. TypeOK'
  BY ConstantFact DEF TypeInv, TypeOK, Die
<1>2. ShapeInv'
  BY <1>1, ConstantFact DEF ShapeInv, TypeOK, Die
<1> QED
  BY <1>1, <1>2 DEF TypeInv

LEMMA TypeKill ==
    ASSUME TypeInv, Kill
    PROVE  TypeInv'
<1>1. PICK n \in top .. Len(bits), S \in SUBSET requests, F \in SUBSET Fork :
         /\ Die(SubSeq(bits, 1, n))
         /\ signals' = signals \cup S
         /\ stored' = IF top < Len(bits) THEN Updated(F, forks) ELSE stored
  BY DEF Kill
<1>2. TypeOK /\ kills < MaxKills
  BY DEF TypeInv, Kill
<1>3. SubSeq(bits, 1, n) \in Seq(SUBSET Fork) /\ Len(SubSeq(bits, 1, n)) <= Len(bits)
  BY <1>2, CutFact DEF TypeOK
<1>4. stored' \in [Fork -> SoftFork]
  BY <1>1, <1>2, UpdatedType DEF TypeOK
<1>5. signals' \subseteq Signal
  BY <1>1, <1>2 DEF TypeOK
<1> QED
  BY <1>1, <1>2, <1>3, <1>4, <1>5, TypeDie

LEMMA TypeStart ==
    ASSUME TypeInv, Start
    PROVE  TypeInv'
<1>1. TargetHeight \in 0 .. MaxHeight
  BY TargetFact, ConstantFact DEF TypeInv, TypeOK
<1>2. TypeOK'
  BY <1>1 DEF Start, TypeInv, TypeOK, TargetHeight
<1>3. ShapeInv'
  BY DEF Start, TypeInv, ShapeInv, TargetHeight
<1> QED
  BY <1>2, <1>3 DEF TypeInv

LEMMA TypeRewindOrphan ==
    ASSUME TypeInv, RewindOrphan
    PROVE  TypeInv'
<1>1. TargetHeight \in 0 .. MaxHeight /\ rewindTo' = TargetHeight
  BY TargetFact, ConstantFact DEF TypeInv, TypeOK, RewindOrphan, TargetHeight
<1>2. TypeOK'
  BY <1>1 DEF RewindOrphan, TypeInv, TypeOK
<1>3. requests = {}
  BY ConstantFact DEF RewindOrphan, TypeInv, ShapeInv, TypeOK
<1>4. ShapeInv'
  BY <1>1, <1>3 DEF RewindOrphan, TypeInv, ShapeInv, TargetHeight
<1> QED
  BY <1>2, <1>4 DEF TypeInv

LEMMA TypeDeleteBlocks ==
    ASSUME TypeInv, DeleteBlocks
    PROVE  TypeInv'
<1>1. rewindTo \in 0 .. Len(bits) /\ Len(bits) \in Nat
  BY TargetFact DEF TypeInv, ShapeInv, DeleteBlocks
<1>2. bits' \in Seq(SUBSET Fork) /\ Len(bits') = rewindTo
  BY <1>1, CutFact DEF TypeInv, TypeOK, DeleteBlocks
<1>3. TypeOK'
  BY <1>1, <1>2, ConstantFact DEF DeleteBlocks, TypeInv, TypeOK
<1>4. ShapeInv'
  BY <1>1, <1>2, ConstantFact DEF DeleteBlocks, TypeInv, ShapeInv
<1> QED
  BY <1>3, <1>4 DEF TypeInv

LEMMA TypeDeleteSignals ==
    ASSUME TypeInv, DeleteSignals
    PROVE  TypeInv'
<1>1. TypeOK'
  BY DEF DeleteSignals, TypeInv, TypeOK, KeptSignals
<1>2. ShapeInv'
  BY DEF DeleteSignals, TypeInv, ShapeInv
<1> QED
  BY <1>1, <1>2 DEF TypeInv

LEMMA ReplayedAllType ==
    ASSUME TypeOK
    PROVE  [f \in Fork |-> Replayed(f)] \in [Fork -> SoftFork]
<1>1. \A f \in Fork : Replayed(f) \in SoftFork
  BY ReplayedType
<1> QED
  BY <1>1

LEMMA TypeReplaySignals ==
    ASSUME TypeInv, ReplaySignals
    PROVE  TypeInv'
<1>1. forks' \in [Fork -> SoftFork]
  BY ReplayedAllType DEF ReplaySignals, TypeInv
<1>2. stored' \in [Fork -> SoftFork]
  BY <1>1, UpdatedType DEF ReplaySignals, TypeInv, TypeOK
<1>3. TypeOK'
  BY <1>1, <1>2 DEF ReplaySignals, TypeInv, TypeOK
<1>4. ShapeInv'
  BY DEF ReplaySignals, TypeInv, ShapeInv
<1> QED
  BY <1>3, <1>4 DEF TypeInv

LEMMA TypeKillInRewind ==
    ASSUME TypeInv, KillInRewind
    PROVE  TypeInv'
<1>1. signals' \subseteq Signal
  BY DEF KillInRewind, TypeInv, TypeOK, KeptSignals
<1>2. stored' \in [Fork -> SoftFork]
  <2>1. CASE pc = "replay"
    <3>1. PICK F \in SUBSET Fork : stored' = Updated(F, [f \in Fork |-> Replayed(f)])
      BY <2>1 DEF KillInRewind
    <3>2. [f \in Fork |-> Replayed(f)] \in [Fork -> SoftFork]
      BY ReplayedAllType DEF TypeInv
    <3> QED
      BY <3>1, <3>2, UpdatedType DEF TypeInv, TypeOK
  <2>2. CASE pc # "replay"
    BY <2>2 DEF KillInRewind, TypeInv, TypeOK
  <2> QED
    BY <2>1, <2>2
<1>3. bits \in Seq(SUBSET Fork) /\ Len(bits) <= Len(bits) /\ Die(bits) /\ kills < MaxKills
  BY DEF KillInRewind, TypeInv, TypeOK
<1> QED
  BY <1>1, <1>2, <1>3, TypeDie

LEMMA TypeStep ==
    ASSUME TypeInv, [Next]_vars
    PROVE  TypeInv'
<1>1. CASE UNCHANGED vars
  BY <1>1 DEF vars, TypeInv, TypeOK, ShapeInv, TargetHeight
<1> QED
  BY <1>1, TypeIndexBlock, TypePersist, TypeKill, TypeStart, TypeRewindOrphan,
     TypeDeleteBlocks, TypeDeleteSignals, TypeReplaySignals, TypeKillInRewind DEF Next

\* The soft forks, their documents and the signals have their types at every
\* step: what is added to a cycle, merged into a document or replayed from the
\* signals is a soft fork, and a rewind goes back to a block that is there.
THEOREM TypeCorrect == Spec => []TypeOK
<1>1. Init => TypeInv
  BY TypeInit
<1>2. TypeInv /\ [Next]_vars => TypeInv'
  BY TypeStep
<1>3. TypeInv => TypeOK
  BY DEF TypeInv
<1> QED
  BY <1>1, <1>2, <1>3, PTL DEF Spec

-----------------------------------------------------------------------------
(* Signals *)

\* Sooner heights and more signals are complete as well.
LEMMA CompleteFewer ==
    ASSUME NEW sigs, NEW more, NEW b, NEW n \in Nat, NEW k \in 0 .. n, Complete(sigs, b, n),
           \A s \in sigs : s.height <= k => s \in more
    PROVE  Complete(more, b, k)
<1>1. \A h \in 1 .. k : h \in 1 .. n /\ h <= k
  OBVIOUS
<1> QED
  BY <1>1 DEF Complete

LEMMA CompleteSame ==
    ASSUME NEW sigs, NEW b, NEW d, NEW n \in Nat, SameUpTo(b, d, n), Complete(sigs, b, n)
    PROVE  Complete(sigs, d, n)
<1> SUFFICES ASSUME NEW f \in Fork, NEW h \in 1 .. n, f \in d[h], OpenThrough(d, f, h - 1)
             PROVE  \E s \in sigs : s.height = h /\ f \in s.softForks
  BY DEF Complete
<1>1. SameUpTo(b, d, h - 1) /\ b[h] = d[h]
  BY DEF SameUpTo
<1>2. OpenThrough(b, f, h - 1)
  BY <1>1, OpenThroughSame
<1> QED
  BY <1>1, <1>2 DEF Complete

LEMMA CompleteNone ==
    ASSUME NEW sigs, NEW b
    PROVE  Complete(sigs, b, 0)
BY DEF Complete

\* Blocks that are cut off take no signal away.
LEMMA RealCut ==
    ASSUME NEW sigs, sigs \subseteq Signal, NEW b \in Seq(SUBSET Fork), NEW n \in 0 .. Len(b),
           Real(sigs, b)
    PROVE  Real(sigs, SubSeq(b, 1, n))
<1> SUFFICES ASSUME NEW s \in sigs, s.height <= n
             PROVE  s.softForks \subseteq SubSeq(b, 1, n)[s.height]
  BY CutFact DEF Real
<1>1. s.height \in 1 .. n /\ s.height <= Len(b)
  BY ConstantFact DEF Signal
<1>2. SubSeq(b, 1, n)[s.height] = b[s.height]
  BY <1>1, CutFact
<1> QED
  BY <1>1, <1>2 DEF Real

\* A soft fork that is open when a block is indexed is not active after it.
LEMMA NotYetActive ==
    ASSUME NEW sf \in SoftFork, NEW signalling \in BOOLEAN, NEW h \in Nat, IsOpen(sf)
    PROVE  Step(sf, signalling, h, h).state # "active"
<1> DEFINE added == IF signalling THEN AddSignal(sf, h) ELSE sf
           locked == LockIn(added, h)
           new == Activate(locked, h)
<1>1. added \in SoftFork /\ IsOpen(added)
  BY AddSignalFact DEF IsOpen
<1>2. Step(sf, signalling, h, h)
        = IF IsEnd(h) THEN (IF added.cycles = <<>> THEN added ELSE new) ELSE added
  BY DEF Step, UpdateState
<1> HIDE DEF added
<1>3. /\ locked \in SoftFork
      /\ \/ locked = added
         \/ /\ locked.state = "locked_in"
            /\ locked.activation = CycleLength * Cycle(h) + CycleLength
  BY <1>1, LockInFact
<1> HIDE DEF locked
<1>4. CycleLength * Cycle(h) \in Nat /\ h < CycleLength * Cycle(h)
  BY CycleFact
<1>5. new.state # "active"
  BY <1>1, <1>3, <1>4, ConstantFact DEF Activate, IsOpen
<1> QED
  BY <1>1, <1>2, <1>5 DEF IsOpen

-----------------------------------------------------------------------------
(* The actions keep the invariant *)

LEMMA DataInit ==
    ASSUME Init
    PROVE  DataInv
<1>1. signals = {} /\ pc = "down" /\ TargetHeight \in Nat
  BY ConstantFact DEF Init, TargetHeight
<1>2. \A h \in 1 .. TargetHeight : h \in 1 .. FinalHeight /\ bits[h] = {}
  BY ConstantFact DEF Init, TargetHeight
<1>3. Complete(signals, bits, TargetHeight)
  BY <1>2 DEF Complete
<1> QED
  BY <1>1, <1>3 DEF DataInv, Real, UpInv, RewindInv

LEMMA DataIndexBlock ==
    ASSUME TypeInv, DataInv, IndexBlock
    PROVE  DataInv'
<1> DEFINE n == Len(bits)
           i == n + 1
<1>1. PICK version \in Versions :
         /\ bits' = Append(bits, version)
         /\ forks' = AfterBlock(version)
         /\ requests' = requests \cup NewSignals(version)
  BY DEF IndexBlock
<1>2. /\ TypeOK /\ version \in SUBSET Fork /\ n < MaxHeight
      /\ n \in Nat /\ top \in 0 .. n /\ pc = "up" /\ pc' = "up" /\ top' = top
      /\ signals' = signals
      /\ requests \subseteq Signal /\ signals \subseteq Signal
      /\ \A r \in requests : r.height <= n
  BY ConstantFact DEF TypeInv, ShapeInv, TypeOK, IndexBlock
<1>3. /\ Len(bits') = i /\ SameUpTo(bits, bits', n) /\ bits'[i] = version
  BY <1>1, <1>2, AppendFact DEF TypeOK, SameUpTo
<1>4. /\ Real(signals, bits) /\ \A s \in signals : s.height <= top
      /\ Real(requests, bits)
      /\ \A f \in Fork : Fits(forks[f], bits, f, n)
      /\ Complete(signals, bits, top)
      /\ Complete(signals \cup requests, bits, n)
  BY <1>2 DEF DataInv, UpInv
<1>5. /\ NewSignals(version) \subseteq Signal
      /\ \A r \in NewSignals(version) : r.height = i /\ r.softForks \subseteq version
  BY <1>2, NewSignalsFact
<1>6. i \in Nat \ {0} /\ i - 1 = n /\ 1 .. i = (1 .. n) \cup {i} /\ n \in 0 .. n
  BY <1>2
<1> HIDE DEF n, i
<1>7. Real(signals', bits')
  <2> SUFFICES ASSUME NEW s \in signals PROVE s.softForks \subseteq bits'[s.height]
    BY <1>2 DEF Real
  <2>1. s.height \in 1 .. n /\ s.height <= Len(bits)
    BY <1>2, <1>4, ConstantFact DEF Signal, n
  <2> QED
    BY <1>3, <1>4, <2>1 DEF Real, SameUpTo
<1>8. Real(requests', bits')
  <2> SUFFICES ASSUME NEW r \in requests' PROVE r.softForks \subseteq bits'[r.height]
    BY DEF Real
  <2>1. CASE r \in requests
    <3>1. r.height \in 1 .. n /\ r.height <= Len(bits)
      BY <1>2, <2>1, ConstantFact DEF Signal, n
    <3> QED
      BY <1>3, <1>4, <2>1, <3>1 DEF Real, SameUpTo
  <2>2. CASE r \in NewSignals(version)
    BY <1>3, <1>5, <2>2
  <2> QED
    BY <1>1, <2>1, <2>2
<1>9. ASSUME NEW f \in Fork
      PROVE  /\ forks'[f] = Step(forks[f], f \in Signalled(version, i), i, i)
             /\ forks[f] \in SoftFork
  <2>1. AfterBlock(version)[f] = Step(forks[f], f \in Signalled(version, i), i, i)
    BY <1>2, AfterBlockFact DEF n, i
  <2> QED
    BY <1>1, <1>2, <2>1 DEF TypeOK
<1>10. ASSUME NEW f \in Fork PROVE Fits(forks'[f], bits', f, i)
  <2> DEFINE signalling == f \in Signalled(version, i)
  <2>1. signalling \in BOOLEAN /\ (signalling => f \in bits'[i])
    BY <1>3 DEF Signalled
  <2>2. Fits(forks[f], bits', f, i - 1)
    BY <1>3, <1>4, <1>6, FitsSame
  <2>3. forks'[f] = Step(forks[f], signalling, i, i) /\ forks[f] \in SoftFork
    BY <1>9
  <2> HIDE DEF signalling
  <2>4. i \in {i - 1, i}
    OBVIOUS
  <2>5. Fits(Step(forks[f], signalling, i, i), bits', f, i)
    BY <1>6, <2>1, <2>2, <2>3, <2>4, StepFits
  <2> QED
    BY <2>3, <2>5
<1>11. Complete(signals', bits', top')
  <2>1. SameUpTo(bits, bits', top)
    BY <1>2, <1>3 DEF SameUpTo
  <2> QED
    BY <1>2, <1>4, <2>1, CompleteSame
<1>12. Complete(signals' \cup requests', bits', i)
  <2>1. Complete(signals \cup requests, bits', n)
    BY <1>2, <1>3, <1>4, CompleteSame
  <2>2. ASSUME NEW f \in Fork, f \in bits'[i], OpenThrough(bits', f, i - 1)
        PROVE  \E s \in NewSignals(version) : s.height = i /\ f \in s.softForks
    <3>1. OpenThrough(bits, f, n)
      BY <1>3, <1>6, <2>2, OpenThroughSame
    <3>2. IsOpen(forks[f])
      BY <1>2, <1>4, <1>9, <3>1, OpenIfThrough
    <3>3. f \in Signalled(version, i)
      BY <1>3, <2>2, <3>2 DEF Signalled
    <3> DEFINE signalling == f \in Signalled(version, i)
    <3>4. signalling \in BOOLEAN /\ forks'[f] = Step(forks[f], signalling, i, i)
          /\ forks[f] \in SoftFork /\ i \in Nat
      BY <1>6, <1>9
    <3> HIDE DEF signalling
    <3>5. forks'[f].state # "active"
      BY <3>2, <3>4, NotYetActive
    <3>6. f \in {g \in Signalled(version, i) : AfterBlock(version)[g].state # "active"}
      BY <1>1, <3>3, <3>5
    <3> QED
      BY <3>6 DEF NewSignals, n, i
  <2>3. SUFFICES ASSUME NEW f \in Fork, NEW h \in 1 .. i, f \in bits'[h],
                        OpenThrough(bits', f, h - 1)
                 PROVE  \E s \in signals \cup requests' : s.height = h /\ f \in s.softForks
    BY <1>2 DEF Complete
  <2>4. CASE h = i
    BY <1>1, <2>2, <2>3, <2>4
  <2>5. CASE h \in 1 .. n
    BY <1>1, <2>1, <2>3, <2>5 DEF Complete
  <2> QED
    BY <1>6, <2>4, <2>5
<1>13. UpInv'
  BY <1>2, <1>3, <1>4, <1>8, <1>10, <1>11, <1>12 DEF UpInv
<1>14. RewindInv'
  BY <1>2 DEF RewindInv
<1> QED
  BY <1>7, <1>13, <1>14 DEF DataInv

LEMMA DataPersist ==
    ASSUME TypeInv, DataInv, Persist
    PROVE  DataInv'
<1>1. /\ pc = "up" /\ pc' = "up" /\ bits' = bits /\ top' = Len(bits) /\ forks' = forks
      /\ signals' = signals \cup requests /\ requests' = {}
      /\ Len(bits) \in Nat /\ top \in 0 .. Len(bits)
      /\ requests \subseteq Signal /\ signals \subseteq Signal
      /\ \A r \in requests : r.height <= Len(bits)
  BY ConstantFact DEF TypeInv, ShapeInv, TypeOK, Persist
<1>2. /\ Real(signals, bits) /\ \A s \in signals : s.height <= top
      /\ Real(requests, bits)
      /\ \A f \in Fork : Fits(forks[f], bits, f, Len(bits))
      /\ Complete(signals \cup requests, bits, Len(bits))
  BY <1>1 DEF DataInv, UpInv
<1>3. \A s \in signals' : s.height <= top'
  BY <1>1, <1>2, ConstantFact DEF Signal
<1>4. Real(signals', bits') /\ Real(requests', bits')
  BY <1>1, <1>2 DEF Real
<1>5. signals' \cup requests' = signals'
  BY <1>1
<1>6. Complete(signals', bits', top') /\ Complete(signals' \cup requests', bits', Len(bits'))
  BY <1>1, <1>2, <1>5
<1>7. UpInv'
  BY <1>1, <1>2, <1>3, <1>4, <1>6 DEF UpInv
<1>8. RewindInv'
  BY <1>1 DEF RewindInv
<1> QED
  BY <1>4, <1>7, <1>8 DEF DataInv

LEMMA DataKill ==
    ASSUME TypeInv, DataInv, Kill
    PROVE  DataInv'
<1>1. PICK n \in top .. Len(bits), S \in SUBSET requests :
         /\ Die(SubSeq(bits, 1, n))
         /\ signals' = signals \cup S
  BY DEF Kill
<1>2. /\ TypeOK /\ pc = "up" /\ pc' = "down" /\ bits' = SubSeq(bits, 1, n)
      /\ Len(bits) \in Nat /\ top \in 0 .. Len(bits) /\ n \in 0 .. Len(bits)
      /\ Len(bits) <= top + BatchSize
      /\ bits \in Seq(SUBSET Fork) /\ signals' \subseteq Signal
  BY <1>1, ConstantFact DEF TypeInv, ShapeInv, TypeOK, Kill, Die
<1>3. Len(bits') = n /\ SameUpTo(bits, bits', n)
  BY <1>2, CutFact DEF SameUpTo
<1>4. Real(signals', bits) /\ Complete(signals, bits, top)
  BY <1>1, <1>2 DEF DataInv, UpInv, Real
<1>5. Real(signals', bits')
  BY <1>2, <1>4, RealCut
<1> DEFINE t == TargetHeight'
<1>6. t \in 0 .. top /\ t \in 0 .. n
  BY <1>2, <1>3, ConstantFact DEF TargetHeight
<1>7. Complete(signals', bits', t)
  <2> HIDE DEF t
  <2>1. Complete(signals', bits, t)
    BY <1>1, <1>2, <1>4, <1>6, CompleteFewer
  <2>2. SameUpTo(bits, bits', t)
    BY <1>3, <1>6 DEF SameUpTo
  <2> QED
    BY <1>6, <2>1, <2>2, CompleteSame
<1>8. UpInv' /\ RewindInv'
  BY <1>2, <1>7 DEF UpInv, RewindInv
<1> QED
  BY <1>5, <1>8 DEF DataInv

LEMMA DataStart ==
    ASSUME TypeInv, DataInv, StartsClean, Start
    PROVE  DataInv'
<1>1. /\ pc = "down" /\ bits' = bits /\ signals' = signals /\ forks' = stored /\ top' = top
      /\ requests = {} /\ requests' = {} /\ top = Len(bits)
      /\ TargetHeight' = TargetHeight
  BY DEF Start, TypeInv, ShapeInv, TargetHeight
<1>2. Real(signals, bits) /\ Complete(signals, bits, TargetHeight)
  BY <1>1 DEF DataInv, RewindInv
<1>3. CASE bits = <<>>
  <2>1. pc' = "up" /\ signals = {} /\ stored = [f \in Fork |-> Defined] /\ Len(bits) = 0
    BY <1>1, <1>3 DEF Start, StartsClean
  <2>2. \A f \in Fork : Fits(forks'[f], bits', f, Len(bits'))
    BY <1>1, <2>1, DefinedFits
  <2>3. Complete(signals', bits', top') /\ Complete(signals' \cup requests', bits', Len(bits'))
    BY <1>1, <2>1, CompleteNone
  <2>4. UpInv'
    BY <1>1, <2>1, <2>2, <2>3 DEF UpInv, Real
  <2>5. RewindInv'
    BY <2>1 DEF RewindInv
  <2> QED
    BY <1>1, <1>2, <2>4, <2>5 DEF DataInv
<1>4. CASE bits # <<>>
  <2>1. pc' = "blocks"
    BY <1>4 DEF Start
  <2>2. UpInv' /\ RewindInv'
    BY <1>1, <1>2, <2>1 DEF UpInv, RewindInv
  <2> QED
    BY <1>1, <1>2, <2>2 DEF DataInv
<1> QED
  BY <1>3, <1>4

LEMMA DataRewindOrphan ==
    ASSUME TypeInv, DataInv, RewindOrphan
    PROVE  DataInv'
<1>1. /\ pc = "up" /\ pc' = "blocks" /\ bits' = bits /\ signals' = signals
      /\ top = Len(bits) /\ TargetHeight' = TargetHeight
  BY DEF RewindOrphan, TargetHeight
<1>2. TargetHeight \in 0 .. Len(bits) /\ Len(bits) \in Nat
  BY TargetFact DEF TypeInv
<1>3. Real(signals, bits) /\ Complete(signals, bits, Len(bits))
  BY <1>1 DEF DataInv, UpInv
<1>4. Complete(signals, bits, TargetHeight)
  BY <1>2, <1>3, CompleteFewer
<1>5. UpInv' /\ RewindInv'
  BY <1>1, <1>4 DEF UpInv, RewindInv
<1> QED
  BY <1>1, <1>3, <1>5 DEF DataInv

LEMMA DataDeleteBlocks ==
    ASSUME TypeInv, TypeInv', DataInv, DeleteBlocks
    PROVE  DataInv'
<1>1. /\ pc = "blocks" /\ pc' = "signals" /\ signals' = signals /\ rewindTo = TargetHeight
      /\ bits' = SubSeq(bits, 1, rewindTo) /\ bits \in Seq(SUBSET Fork)
      /\ signals \subseteq Signal
  BY DEF DeleteBlocks, TypeInv, TypeOK, ShapeInv
<1>2. rewindTo \in 0 .. Len(bits) /\ Len(bits) \in Nat
  BY <1>1, TargetFact DEF TypeInv
<1>3. Len(bits') = rewindTo /\ SameUpTo(bits, bits', rewindTo)
  BY <1>1, <1>2, CutFact DEF SameUpTo
<1>4. Real(signals, bits) /\ Complete(signals, bits, rewindTo)
  BY <1>1 DEF DataInv, RewindInv
<1>5. Real(signals', bits')
  BY <1>1, <1>2, <1>4, RealCut
<1>6. Complete(signals', bits', Len(bits'))
  BY <1>1, <1>2, <1>3, <1>4, CompleteSame
<1>7. TargetHeight' \in 0 .. Len(bits') /\ Len(bits') \in Nat
  BY <1>2, <1>3, ConstantFact DEF TargetHeight
<1>8. Complete(signals', bits', TargetHeight')
  BY <1>6, <1>7, CompleteFewer
<1>9. UpInv' /\ RewindInv'
  BY <1>1, <1>6, <1>8 DEF UpInv, RewindInv
<1> QED
  BY <1>5, <1>9 DEF DataInv

LEMMA DataDeleteSignals ==
    ASSUME TypeInv, DataInv, DeleteSignals
    PROVE  DataInv'
<1>1. /\ pc = "signals" /\ pc' = "replay" /\ bits' = bits /\ signals' = KeptSignals
      /\ rewindTo = Len(bits) /\ Len(bits) \in Nat /\ TargetHeight' = TargetHeight
  BY DEF DeleteSignals, TypeInv, TypeOK, ShapeInv, TargetHeight
<1>2. Real(signals, bits) /\ Complete(signals, bits, Len(bits))
  BY <1>1 DEF DataInv, RewindInv
<1>3. Real(signals', bits') /\ \A s \in signals' : s.height <= Len(bits')
  BY <1>1, <1>2 DEF Real, KeptSignals
<1>4. Complete(signals', bits', Len(bits'))
  <2>1. \A s \in signals : s.height <= Len(bits) => s \in signals'
    BY <1>1 DEF KeptSignals
  <2>2. Len(bits) \in 0 .. Len(bits)
    BY <1>1
  <2>3. Complete(signals', bits, Len(bits))
    BY <1>1, <1>2, <2>1, <2>2, CompleteFewer
  <2> QED
    BY <1>1, <2>3
<1>5. Complete(signals', bits', TargetHeight')
  <2>1. TargetHeight' \in 0 .. Len(bits') /\ Len(bits') \in Nat
    BY <1>1, TargetFact DEF TypeInv
  <2> QED
    BY <1>4, <2>1, CompleteFewer
<1>6. UpInv' /\ RewindInv'
  BY <1>1, <1>3, <1>4, <1>5 DEF UpInv, RewindInv
<1> QED
  BY <1>3, <1>6 DEF DataInv

\* After the replay the soft forks are accounted for by the blocks that are left.
LEMMA ReplayedFits ==
    ASSUME TypeInv, DataInv, pc = "replay", NEW f \in Fork
    PROVE  Fits(Replayed(f), bits, f, Len(bits))
<1>1. /\ rewindTo = Len(bits) /\ Len(bits) \in Nat /\ rewindTo \in Nat
      /\ Real(signals, bits) /\ signals \subseteq Signal
  BY DEF DataInv, TypeInv, TypeOK, ShapeInv
<1>2. /\ LastReplayed \in Int /\ LastReplayed >= -1
      /\ LastReplayed = rewindTo \/ (LastReplayed = rewindTo - 1 /\ ~ IsEnd(rewindTo))
  BY <1>1, LastReplayedFact
<1>3. PICK g : IsReplay(g, f, LastReplayed) /\ Replayed(f) = g[LastReplayed]
  BY <1>2, ReplayedFact
<1>4. CASE LastReplayed = rewindTo
  <2>1. LastReplayed \in 0 .. LastReplayed /\ LastReplayed \in Nat /\ LastReplayed <= Len(bits)
    BY <1>1, <1>4
  <2> QED
    BY <1>1, <1>3, <1>4, <2>1, ReplayFits
<1>5. CASE LastReplayed = rewindTo - 1 /\ rewindTo = 0
  <2>1. LastReplayed \in -1 .. LastReplayed /\ LastReplayed < 0
    BY <1>5
  <2>2. g[LastReplayed] = Defined
    BY <1>2, <1>3, <2>1, ReplayAt
  <2> QED
    BY <1>3, <2>2, DefinedFits
<1>6. CASE LastReplayed = rewindTo - 1 /\ rewindTo # 0 /\ ~ IsEnd(rewindTo)
  <2>1. /\ LastReplayed \in 0 .. LastReplayed /\ LastReplayed \in Nat /\ LastReplayed <= Len(bits)
        /\ LastReplayed \in -1 .. LastReplayed /\ rewindTo \in Nat \ {0}
    BY <1>1, <1>6
  <2>2. Fits(g[LastReplayed], bits, f, rewindTo - 1)
    BY <1>1, <1>3, <1>6, <2>1, ReplayFits
  <2>3. g[LastReplayed] \in SoftFork
    BY <1>1, <1>2, <1>3, <2>1, ReplayType
  <2>4. FitsBefore(g[LastReplayed], bits, f, rewindTo)
    BY <2>1, <2>2, <2>3, FitsKeep
  <2>5. Fits(g[LastReplayed], bits, f, rewindTo)
    BY <1>6, <2>4, FitsMiddle
  <2> QED
    BY <1>1, <1>3, <2>5
<1> QED
  BY <1>2, <1>4, <1>5, <1>6

LEMMA DataReplaySignals ==
    ASSUME TypeInv, DataInv, ReplaySignals
    PROVE  DataInv'
<1>1. /\ pc = "replay" /\ bits' = bits /\ signals' = signals /\ top' = top /\ top = Len(bits)
      /\ requests' = {} /\ forks' = [f \in Fork |-> Replayed(f)]
      /\ pc' \in {"down", "up"} /\ TargetHeight' = TargetHeight
  BY DEF ReplaySignals, TypeInv, TypeOK, ShapeInv, TargetHeight
<1>2. /\ Real(signals, bits) /\ Complete(signals, bits, Len(bits))
      /\ Complete(signals, bits, TargetHeight)
      /\ \A s \in signals : s.height <= Len(bits)
  BY <1>1 DEF DataInv, RewindInv
<1>3. \A f \in Fork : Fits(forks'[f], bits', f, Len(bits'))
  BY <1>1, ReplayedFits
<1>4. signals' \cup requests' = signals /\ Real(requests', bits')
  BY <1>1 DEF Real
<1>5. UpInv'
  BY <1>1, <1>2, <1>3, <1>4 DEF UpInv
<1>6. RewindInv'
  BY <1>1, <1>2 DEF RewindInv
<1> QED
  BY <1>1, <1>2, <1>5, <1>6 DEF DataInv

LEMMA DataKillInRewind ==
    ASSUME TypeInv, DataInv, KillInRewind
    PROVE  DataInv'
<1>1. /\ pc \in {"blocks", "signals", "replay"} /\ pc' = "down" /\ bits' = bits
      /\ TargetHeight' = TargetHeight
  BY DEF KillInRewind, Die, TargetHeight
<1>2. Real(signals, bits) /\ Complete(signals, bits, TargetHeight)
  BY <1>1 DEF DataInv, RewindInv
<1>3. signals' \subseteq signals
  BY DEF KillInRewind, KeptSignals
<1>4. TargetHeight \in 0 .. TargetHeight /\ TargetHeight \in Nat /\ TargetHeight <= Len(bits)
      /\ Len(bits) \in Nat
  BY TargetFact DEF TypeInv
<1>5. \A s \in signals : s.height <= TargetHeight => s \in signals'
  <2>1. CASE pc = "signals"
    <3>1. rewindTo = Len(bits) /\ KeptSignals \subseteq signals'
      BY <2>1 DEF KillInRewind, TypeInv, ShapeInv
    <3>2. \A s \in signals : s.height \in Nat
      BY ConstantFact DEF TypeInv, TypeOK, Signal
    <3> QED
      BY <1>4, <3>1, <3>2 DEF KeptSignals
  <2>2. CASE pc # "signals"
    BY <2>2 DEF KillInRewind
  <2> QED
    BY <2>1, <2>2
<1>6. Complete(signals', bits', TargetHeight')
  <2>1. Complete(signals', bits, TargetHeight)
    BY <1>2, <1>4, <1>5, CompleteFewer
  <2> QED
    BY <1>1, <2>1
<1>7. Real(signals', bits')
  BY <1>1, <1>2, <1>3 DEF Real
<1>8. UpInv' /\ RewindInv'
  BY <1>1, <1>6 DEF UpInv, RewindInv
<1> QED
  BY <1>7, <1>8 DEF DataInv

LEMMA DataStep ==
    ASSUME TypeInv, DataInv, StartsClean, [Next]_vars
    PROVE  DataInv'
<1>1. TypeInv'
  BY TypeStep
<1>2. CASE UNCHANGED vars
  BY <1>2 DEF vars, DataInv, UpInv, RewindInv, TargetHeight
<1> QED
  BY <1>1, <1>2, DataIndexBlock, DataPersist, DataKill, DataStart, DataRewindOrphan,
     DataDeleteBlocks, DataDeleteSignals, DataReplaySignals, DataKillInRewind DEF Next

-----------------------------------------------------------------------------
(* What the documents say *)

\* The documents of the soft forks agree with the process whenever everything is
\* persisted, although an update request leaves out what is zero or empty.
LEMMA StoredStep ==
    ASSUME TypeInv, StoredStateMatches, [Next]_vars
    PROVE  StoredStateMatches'
<1>1. \A new \in [Fork -> SoftFork], f \in Fork :
         /\ Updated(Fork, new)[f].state = new[f].state
         /\ new[f].cycles # <<>> => Updated(Fork, new)[f].cycles = new[f].cycles
  BY DEF Updated, Merged
<1>2. CASE IndexBlock
  <2>1. top' < Len(bits')
    <3>1. PICK version \in Versions : bits' = Append(bits, version)
      BY <1>2 DEF IndexBlock
    <3>2. version \in SUBSET Fork
      BY ConstantFact
    <3>3. Len(bits') = Len(bits) + 1
      BY <3>1, <3>2, AppendFact DEF TypeInv, TypeOK
    <3> QED
      BY <1>2, <3>3 DEF IndexBlock, TypeInv, TypeOK
  <2>2. top' # Len(bits')
    BY <2>1, TypeStep DEF TypeInv, TypeOK
  <2> QED
    BY <2>2 DEF StoredStateMatches
<1>3. CASE Persist
  <2>1. stored' = Updated(Fork, forks) /\ forks' = forks /\ forks \in [Fork -> SoftFork]
    BY <1>3 DEF Persist, TypeInv, TypeOK
  <2> QED
    BY <1>1, <2>1 DEF StoredStateMatches
<1>4. CASE Start
  BY <1>4 DEF Start, StoredStateMatches
<1>5. CASE ReplaySignals
  <2>1. stored' = Updated(Fork, forks') /\ forks' \in [Fork -> SoftFork]
    BY <1>5, ReplayedAllType DEF ReplaySignals, TypeInv
  <2> DEFINE new == forks'
  <2>2. stored' = Updated(Fork, new) /\ new \in [Fork -> SoftFork] /\ forks' = new
    BY <2>1
  <2> HIDE DEF new
  <2> QED
    BY <1>1, <2>2 DEF StoredStateMatches
<1>6. CASE Kill \/ KillInRewind
  BY <1>6 DEF Kill, KillInRewind, Die, StoredStateMatches
<1>7. CASE RewindOrphan \/ DeleteBlocks \/ DeleteSignals
  BY <1>7 DEF RewindOrphan, DeleteBlocks, DeleteSignals, StoredStateMatches
<1>8. CASE UNCHANGED vars
  BY <1>8 DEF vars, StoredStateMatches
<1> QED
  BY <1>2, <1>3, <1>4, <1>5, <1>6, <1>7, <1>8 DEF Next

\* Once everything is persisted, the soft fork documents have the state and the
\* counts of the process, whatever was indexed, killed or rewound before.
THEOREM StoredMatches == Spec => []StoredStateMatches
<1>1. Init => TypeInv /\ StoredStateMatches
  BY TypeInit DEF Init, StoredStateMatches
<1>2. TypeInv /\ [Next]_vars => TypeInv'
  BY TypeStep
<1>3. TypeInv /\ StoredStateMatches /\ [Next]_vars => StoredStateMatches'
  BY StoredStep
<1> QED
  BY <1>1, <1>2, <1>3, PTL DEF Spec

\* The invariant, of every behaviour in which an empty index is a new one.
LEMMA DataCorrect == Spec /\ []StartsClean => [](TypeInv /\ DataInv)
<1>1. Init => TypeInv /\ DataInv
  BY TypeInit, DataInit
<1>2. TypeInv /\ DataInv /\ StartsClean /\ [Next]_vars => TypeInv' /\ DataInv'
  BY TypeStep, DataStep
<1> QED
  BY <1>1, <1>2, PTL DEF Spec

\* The counts of a soft fork are never higher than the number of blocks in the
\* index that signal it in the same cycle: no rewind, kill or replay counts a
\* block twice or one that is gone.
THEOREM CountsReal == Spec /\ []StartsClean => []CountsAreReal
<1>1. TypeInv /\ DataInv => CountsAreReal
  <2> SUFFICES ASSUME TypeInv, DataInv, pc = "up", NEW f \in Fork
               PROVE  \A i \in DOMAIN forks[f].cycles :
                         forks[f].cycles[i].blocks
                           <= Cardinality(Signalling(f, forks[f].cycles[i].cycle))
    BY DEF CountsAreReal
  <2>1. CountsFit(forks[f].cycles, bits, f, Len(bits))
    BY DEF DataInv, UpInv, Fits
  <2> QED
    BY <2>1 DEF CountsFit, Voters, Signalling
<1> QED
  BY <1>1, DataCorrect, PTL

\* A soft fork is locked in or active only if the blocks now indexed signalled
\* it often enough within one whole cycle, and its heights are those of the end
\* of that cycle.
THEOREM LockInEarned == Spec /\ []StartsClean => []LockInIsEarned
<1>1. TypeInv /\ DataInv => LockInIsEarned
  <2> SUFFICES ASSUME TypeInv, DataInv, pc = "up", NEW f \in Fork,
                      forks[f].state \in {"locked_in", "active"}
               PROVE  \E c \in 1 .. Cycle(Len(bits)) :
                         /\ Cardinality(Signalling(f, c)) >= Quorum
                         /\ forks[f].lockedIn = CycleLength * c
                         /\ forks[f].activation = CycleLength * (c + 1)
                         /\ Len(bits) >= CycleLength * c - 1
    BY DEF LockInIsEarned
  <2>1. Earned(forks[f], bits, f, Len(bits))
    BY DEF DataInv, UpInv, Fits, IsOpen
  <2> QED
    BY <2>1 DEF Earned, Voters, Signalling
<1> QED
  BY <1>1, DataCorrect, PTL

\* A rewind that does not end at the first height of a cycle leaves every soft
\* fork that is not active by then exactly as it was when that height was first
\* indexed.
THEOREM RewindsReplay == Spec /\ []StartsClean => RewindReplays
<1> DEFINE Replays ==
      pc = "replay" /\ pc' = "up" /\ rewindTo % CycleLength # 0 =>
          \A f \in Fork : Machine(f).state # "active" => forks'[f] = Machine(f)
<1>1. TypeInv /\ DataInv /\ [Next]_vars => Replays
  <2> SUFFICES ASSUME TypeInv, DataInv, [Next]_vars,
                      pc = "replay", pc' = "up", rewindTo % CycleLength # 0,
                      NEW f \in Fork, Machine(f).state # "active"
               PROVE  forks'[f] = Machine(f)
    OBVIOUS
  <2>1. ReplaySignals
    BY DEF Next, vars, IndexBlock, Persist, Kill, Die, Start, RewindOrphan, DeleteBlocks,
           DeleteSignals, KillInRewind
  <2>2. /\ rewindTo = Len(bits) /\ Len(bits) \in Nat /\ signals \subseteq Signal
        /\ Real(signals, bits) /\ Complete(signals, bits, Len(bits))
    BY DEF TypeInv, TypeOK, ShapeInv, DataInv, RewindInv
  <2>3. LastReplayed = Len(bits) /\ LastReplayed \in Int /\ LastReplayed >= -1
    BY <2>2, LastReplayedFact
  <2>4. PICK g : IsReplay(g, f, LastReplayed) /\ Replayed(f) = g[LastReplayed]
    BY <2>3, ReplayedFact
  <2>5. PICK m : IsMachine(m, bits, f, Len(bits)) /\ Machine(f) = m[Len(bits)]
    BY <2>2, MachineFact
  <2>6. IsReplay(g, f, Len(bits)) /\ Replayed(f) = g[Len(bits)]
    BY <2>3, <2>4
  <2>7. Len(bits) \in 0 .. Len(bits) /\ m[Len(bits)].state # "active"
    BY <2>2, <2>5
  <2>8. g[Len(bits)] = m[Len(bits)]
    BY <2>2, <2>5, <2>6, <2>7, ReplayIsMachine
  <2> QED
    BY <2>1, <2>5, <2>6, <2>8 DEF ReplaySignals
<1>2. TypeInv /\ DataInv /\ [Next]_vars => [Replays]_vars
  BY <1>1
<1> QED
  BY <1>2, DataCorrect, PTL DEF Spec, RewindReplays

-----------------------------------------------------------------------------
(* A history that no series of rewinds goes back through *)

\* The index begins with more blocks than the rewinds of all the starts take
\* away together.
DeepHistory == FinalHeight > ReindexSize * (MaxKills + 1)

\* A kill costs the blocks of one rewind; the first start has one, too.
DeepInv ==
    /\ Len(bits) >= FinalHeight - ReindexSize * (kills + 1)
    /\ pc \in {"down", "blocks"} => Len(bits) >= FinalHeight - ReindexSize * kills
    /\ top >= FinalHeight - ReindexSize * (kills + 1)

LEMMA RewindsFact ==
    ASSUME NEW k \in Nat
    PROVE  /\ ReindexSize * k \in Nat
           /\ ReindexSize * (k + 1) = ReindexSize * k + ReindexSize
BY ConstantFact

LEMMA DeepStep ==
    ASSUME DeepHistory, TypeInv, DeepInv, [Next]_vars
    PROVE  DeepInv'
<1> DEFINE lost == ReindexSize * kills
<1>1. /\ lost \in Nat /\ ReindexSize \in Nat /\ FinalHeight \in Nat
      /\ ReindexSize * (kills + 1) = lost + ReindexSize
      /\ ReindexSize * (kills + 1 + 1) = lost + ReindexSize + ReindexSize
      /\ Len(bits) \in Nat /\ top \in 0 .. Len(bits)
  <2>1. kills \in Nat /\ kills + 1 \in Nat /\ Len(bits) \in Nat /\ top \in 0 .. Len(bits)
    BY DEF TypeInv, TypeOK
  <2> QED
    BY <2>1, RewindsFact, ConstantFact
<1>2. /\ Len(bits) >= FinalHeight - (lost + ReindexSize)
      /\ pc \in {"down", "blocks"} => Len(bits) >= FinalHeight - lost
      /\ top >= FinalHeight - (lost + ReindexSize)
  BY <1>1 DEF DeepInv
<1>3. ASSUME kills' = kills,
             Len(bits') >= FinalHeight - (lost + ReindexSize),
             pc' \in {"down", "blocks"} => Len(bits') >= FinalHeight - lost,
             top' >= FinalHeight - (lost + ReindexSize)
      PROVE  DeepInv'
  BY <1>1, <1>3 DEF DeepInv
<1>4. ASSUME NEW b \in Seq(SUBSET Fork), Die(b), Len(b) >= FinalHeight - (lost + ReindexSize)
      PROVE  DeepInv'
  <2>1. kills' = kills + 1 /\ bits' = b /\ top' = Len(b) /\ Len(b) \in Nat
    BY <1>4 DEF Die
  <2>2. ReindexSize * kills' = lost + ReindexSize
    BY <1>1, <2>1
  <2>3. ReindexSize * (kills' + 1) = lost + ReindexSize + ReindexSize
    BY <1>1, <2>1
  <2> HIDE DEF lost
  <2> QED
    BY <1>1, <1>4, <2>1, <2>2, <2>3 DEF DeepInv
<1>5. bits # <<>>
  <2>1. kills \in 0 .. MaxKills /\ ReindexSize * (MaxKills + 1) < FinalHeight
    BY ConstantFact, RewindsFact DEF DeepHistory, TypeInv, TypeOK
  <2> DEFINE d == MaxKills - kills
  <2>2. d \in Nat /\ MaxKills + 1 = kills + 1 + d
    BY <2>1, ConstantFact
  <2> HIDE DEF d
  <2>3. ReindexSize * (kills + 1 + d) = ReindexSize * (kills + 1) + ReindexSize * d
    BY <2>1, <2>2, ConstantFact
  <2>4. ReindexSize * d \in Nat
    BY <2>2, RewindsFact
  <2>5. ReindexSize * (kills + 1) < FinalHeight
    BY <1>1, <2>1, <2>2, <2>3, <2>4
  <2>6. Len(bits) > 0
    BY <1>1, <1>2, <2>5
  <2> QED
    BY <2>6
<1> HIDE DEF lost
<1>6. CASE IndexBlock
  <2>1. PICK version \in Versions : bits' = Append(bits, version)
    BY <1>6 DEF IndexBlock
  <2>2. Len(bits') = Len(bits) + 1
    BY <2>1, AppendFact, ConstantFact DEF TypeInv, TypeOK
  <2> QED
    BY <1>1, <1>2, <1>3, <1>6, <2>2 DEF IndexBlock
<1>7. CASE Persist
  BY <1>1, <1>2, <1>3, <1>7 DEF Persist
<1>8. CASE Kill
  <2>1. PICK n \in top .. Len(bits) : Die(SubSeq(bits, 1, n))
    BY <1>8 DEF Kill
  <2>2. SubSeq(bits, 1, n) \in Seq(SUBSET Fork) /\ Len(SubSeq(bits, 1, n)) = n
    BY <1>1, CutFact DEF TypeInv, TypeOK
  <2>3. n >= FinalHeight - (lost + ReindexSize)
    BY <1>1, <1>2
  <2> QED
    BY <1>4, <2>1, <2>2, <2>3
<1>9. CASE Start
  BY <1>1, <1>2, <1>3, <1>9 DEF Start
<1>10. CASE RewindOrphan
  BY <1>1, <1>2, <1>3, <1>10 DEF RewindOrphan
<1>11. CASE DeleteBlocks
  <2>1. pc = "blocks" /\ rewindTo = TargetHeight /\ TargetHeight \in 0 .. Len(bits)
        /\ Len(bits) <= TargetHeight + ReindexSize
    BY <1>11, TargetFact DEF DeleteBlocks, TypeInv, ShapeInv
  <2>2. Len(bits') = rewindTo /\ top' = rewindTo /\ pc' = "signals" /\ kills' = kills
    BY <1>1, <1>11, <2>1, CutFact DEF DeleteBlocks, TypeInv, TypeOK
  <2> QED
    BY <1>1, <1>2, <1>3, <2>1, <2>2
<1>12. CASE DeleteSignals
  BY <1>2, <1>3, <1>12 DEF DeleteSignals
<1>13. CASE ReplaySignals
  BY <1>2, <1>3, <1>5, <1>13 DEF ReplaySignals
<1>14. CASE KillInRewind
  <2>1. Die(bits) /\ bits \in Seq(SUBSET Fork)
    BY <1>14 DEF KillInRewind, TypeInv, TypeOK
  <2> QED
    BY <1>2, <1>4, <2>1
<1>15. CASE UNCHANGED vars
  BY <1>2, <1>3, <1>15 DEF vars
<1> QED
  BY <1>6, <1>7, <1>8, <1>9, <1>10, <1>11, <1>12, <1>13, <1>14, <1>15 DEF Next

\* With such a history no kill and no rewind ever empties the index, so that the
\* theorems above need no hypothesis about the documents of an empty one.
THEOREM DeepStartsClean == DeepHistory /\ Spec => []StartsClean
<1> SUFFICES ASSUME DeepHistory PROVE Spec => []StartsClean
  OBVIOUS
<1>1. Init => TypeInv
  BY TypeInit
<1>2. Init => DeepInv
  <2> SUFFICES ASSUME Init PROVE DeepInv
    OBVIOUS
  <2>1. Len(bits) = FinalHeight /\ top = FinalHeight /\ kills = 0
    BY ConstantFact DEF Init
  <2>2. ReindexSize * 0 = 0 /\ ReindexSize * (0 + 1) = ReindexSize
    BY ConstantFact
  <2> QED
    BY <2>1, <2>2, ConstantFact DEF DeepInv
<1>3. TypeInv /\ DeepInv => StartsClean
  <2> SUFFICES ASSUME TypeInv, DeepInv, pc = "down", bits = <<>> PROVE FALSE
    BY DEF StartsClean
  <2> DEFINE d == MaxKills + 1 - kills
  <2>1. kills \in Nat /\ d \in Nat /\ MaxKills + 1 = kills + d
    BY ConstantFact DEF TypeInv, TypeOK
  <2> HIDE DEF d
  <2>2. ReindexSize * (kills + d) = ReindexSize * kills + ReindexSize * d
    BY <2>1, ConstantFact
  <2>3. ReindexSize * kills \in Nat /\ ReindexSize * d \in Nat
    BY <2>1, RewindsFact
  <2>4. Len(bits) = 0 /\ 0 >= FinalHeight - ReindexSize * kills
    BY DEF DeepInv
  <2> QED
    BY <2>1, <2>2, <2>3, <2>4, ConstantFact DEF DeepHistory
<1>4. TypeInv /\ [Next]_vars => TypeInv'
  BY TypeStep
<1>5. TypeInv /\ DeepInv /\ [Next]_vars => DeepInv'
  BY DeepStep
<1> QED
  BY <1>1, <1>2, <1>3, <1>4, <1>5, PTL DEF Spec

\* So of every behaviour with such a history: no soft fork is locked in on
\* signals that the indexed blocks do not have, no count is too high, and a
\* rewind replays what was indexed.
THEOREM DeepHistorySafe ==
    DeepHistory /\ Spec => [](LockInIsEarned /\ CountsAreReal) /\ RewindReplays
BY DeepStartsClean, LockInEarned, CountsReal, RewindsReplay, PTL

===============================================================================
