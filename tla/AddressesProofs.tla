-------------------------- MODULE AddressesProofs ---------------------------
(***************************************************************************)
(* Proofs about Addresses: facts about histories and documents, the type   *)
(* invariant in every setting, what a kill leaves, and, when searches come *)
(* after the refresh and nothing is persisted in the middle of a batch,    *)
(* that histories and address documents agree with the chain and with each *)
(* other.                                                                  *)
(***************************************************************************)
EXTENDS AddressesInvariant, FiniteSetTheorems, WellFoundedInduction, TLAPS

-----------------------------------------------------------------------------
(* Documents *)

\* A bounded set of numbers has a greatest one.
LEMMA GreatestOf ==
    ASSUME NEW S \in SUBSET Nat, NEW N \in Nat, S # {}, \A x \in S : x <= N
    PROVE  \E m \in S : \A x \in S : x <= m
<1> DEFINE Gaps == {N - x : x \in S}
           Less == {p \in Nat \X Nat : p[1] < p[2]}
<1>1. Gaps \subseteq Nat /\ Gaps # {}
  <2>1. \A x \in S : N - x \in Nat
    OBVIOUS
  <2> QED
    BY <2>1
<1>2. IsWellFoundedOn(Less, Nat)
  BY NatLessThanWellFounded DEF OpToRel
<1>3. PICK g \in Gaps : \A h \in Gaps : <<h, g>> \notin Less
  BY <1>1, <1>2, WFMin
<1>4. \A h \in Gaps : ~ (h < g)
  BY <1>1, <1>3
<1>5. PICK m \in S : g = N - m
  BY <1>3
<1>6. \A x \in S : ~ (N - x < N - m)
  BY <1>4, <1>5
<1> QED
  BY <1>6

\* Later than another means not the same, and one of two is not later both ways.
LEMMA LaterFact ==
    ASSUME NEW g \in History, NEW h \in History, Later(g, h)
    PROVE  ~ Later(h, g) /\ g # h
BY DEF Later, History

\* Without two documents of one id, one of an address's histories is the latest,
\* and the address after it is what Latest says.
LEMMA LatestFact ==
    ASSUME NEW hs \in SUBSET History, NEW k, hs # {}, SlugsUnique(hs),
           \A h \in hs : h.key = k
    PROVE  \E l \in hs : /\ \A h \in hs \ {l} : Later(l, h)
                         /\ Latest(hs) = [height |-> l.height, balance |-> l.balance]
<1>1. PICK g \in hs : \A h \in hs : h.height <= g.height
  <2> DEFINE S == {h.height : h \in hs}
  <2>1. S \in SUBSET Nat /\ S # {} /\ MaxHeight \in Nat /\ \A x \in S : x <= MaxHeight
    BY AddressesAssumption DEF History
  <2>2. PICK m \in S : \A x \in S : x <= m
    BY <2>1, GreatestOf
  <2> QED
    BY <2>2
<1>2. PICK l \in hs : l.height = g.height /\ \A h \in hs : h.height = g.height => h.tx <= l.tx
  <2> DEFINE T == {h.tx : h \in {f \in hs : f.height = g.height}}
  <2>1. T \in SUBSET Nat /\ T # {} /\ MaxTxs \in Nat /\ \A x \in T : x <= MaxTxs
    BY AddressesAssumption DEF History
  <2>2. PICK m \in T : \A x \in T : x <= m
    BY <2>1, GreatestOf
  <2>3. PICK l \in {f \in hs : f.height = g.height} : l.tx = m
    BY <2>2
  <2> QED
    BY <2>2, <2>3
<1>3. \A h \in hs \ {l} : Later(l, h)
  <2> SUFFICES ASSUME NEW h \in hs \ {l} PROVE Later(l, h)
    OBVIOUS
  <2>1. h \in History /\ l \in History /\ h.height <= l.height
    BY <1>1, <1>2
  <2>2. CASE h.height = l.height
    <3>1. h.tx <= l.tx
      BY <1>2, <2>2
    <3>2. h.tx # l.tx
      BY <2>2 DEF SlugsUnique, SameSlug
    <3> QED
      BY <2>1, <2>2, <3>1, <3>2 DEF Later, History
  <2>3. CASE h.height # l.height
    BY <2>1, <2>3 DEF Later, History
  <2> QED
    BY <2>2, <2>3
<1>4. \A f \in hs : (\A h \in hs \ {f} : Later(f, h)) => f = l
  BY <1>3, LaterFact
<1>5. l = CHOOSE f \in hs : \A h \in hs \ {f} : Later(f, h)
  BY <1>3, <1>4
<1> QED
  BY <1>3, <1>5 DEF Latest

\* Whichever history is later than the others decides about Latest.
LEMMA LatestIs ==
    ASSUME NEW hs \in SUBSET History, NEW l \in hs, \A h \in hs \ {l} : Later(l, h)
    PROVE  Latest(hs) = [height |-> l.height, balance |-> l.balance]
<1>1. \A f \in hs : (\A h \in hs \ {f} : Later(f, h)) => f = l
  BY LaterFact
<1>2. l = CHOOSE f \in hs : \A h \in hs \ {f} : Later(f, h)
  BY <1>1
<1> QED
  BY <1>2 DEF Latest

\* The address after some histories is an address document.
LEMMA LatestType ==
    ASSUME NEW hs \in SUBSET History, NEW k, SlugsUnique(hs), \A h \in hs : h.key = k
    PROVE  Latest(hs) \in AddressDoc /\ Latest(hs) # None
<1>1. CASE hs = {}
  BY <1>1, AddressesAssumption DEF Latest, Created, AddressDoc, None
<1>2. CASE hs # {}
  <2>1. PICK l \in hs : Latest(hs) = [height |-> l.height, balance |-> l.balance]
    BY <1>2, LatestFact
  <2>2. l.height \in 1 .. MaxHeight /\ l.balance \in Nat
    BY DEF History
  <2> QED
    BY <2>1, <2>2 DEF AddressDoc, None
<1> QED
  BY <1>1, <1>2

\* Documents written over others keep their ids unique.
LEMMA WrittenFact ==
    ASSUME NEW old \in Documents, NEW new \in Documents,
           SlugsUnique(old.histories), SlugsUnique(new.histories)
    PROVE  Written(old, new) \in Documents /\ SlugsUnique(Written(old, new).histories)
<1> DEFINE W == Written(old, new)
<1>1. W.histories = new.histories \cup
                    {h \in old.histories : ~ \E g \in new.histories : SameSlug(g, h)}
  BY DEF Written
<1>2. W \in Documents
  BY DEF Written, Documents
<1>3. \A g, h \in W.histories : SameSlug(g, h) => g = h
  <2> SUFFICES ASSUME NEW g \in W.histories, NEW h \in W.histories, SameSlug(g, h)
               PROVE  g = h
    OBVIOUS
  <2>1. SameSlug(h, g)
    BY DEF SameSlug
  <2> QED
    BY <1>1, <2>1 DEF SlugsUnique
<1> QED
  BY <1>2, <1>3 DEF SlugsUnique

-----------------------------------------------------------------------------
(* Histories of a chain *)

\* How often a key has been touched is a number.
LEMMA BalanceType ==
    ASSUME NEW c, NEW k, NEW p \in Int \X Int
    PROVE  BalanceAt(c, k, p) \in Nat
<1> DEFINE B == {q \in Touches(c, 1, p[1], k) : q[1] < p[1] \/ q[2] <= p[2]}
<1>1. p[1] \in Int /\ MaxTxs \in Nat
  BY AddressesAssumption
<1>2. IsFiniteSet(1 .. p[1]) /\ IsFiniteSet(1 .. MaxTxs)
  BY <1>1, FS_Interval
<1>3. IsFiniteSet((1 .. p[1]) \X (1 .. MaxTxs))
  BY <1>2, FS_Product
<1>4. B \subseteq (1 .. p[1]) \X (1 .. MaxTxs)
  BY DEF Touches
<1>5. IsFiniteSet(B)
  BY <1>3, <1>4, FS_Subset
<1>6. Cardinality(B) \in Nat
  BY <1>5, FS_CardinalityType
<1> QED
  BY <1>6 DEF BalanceAt

\* A place in a part of a chain.
LEMMA TouchesFact ==
    ASSUME NEW c, NEW k, NEW from, NEW to
    PROVE  \A p \in Touches(c, from, to, k) :
              /\ p[1] \in from .. to /\ p[2] \in 1 .. MaxTxs /\ p = <<p[1], p[2]>>
              /\ p[2] \in DOMAIN c[p[1]] /\ k \in c[p[1]][p[2]]
BY DEF Touches

\* The place a history is about, and the history of a place.
Place(h) == <<h.height, h.tx>>

HistoryAt(c, k, p) ==
    [key |-> k, height |-> p[1], tx |-> p[2], balance |-> BalanceAt(c, k, p)]

\* The histories of a key are those at the places where it is touched.
LEMMA HistoryAtPlace ==
    ASSUME NEW c, NEW k, NEW from, NEW to, NEW h
    PROVE  h \in AddressHistory(c, from, to, k) <=>
              Place(h) \in Touches(c, from, to, k) /\ h = HistoryAt(c, k, Place(h))
<1>1. ASSUME h \in AddressHistory(c, from, to, k)
      PROVE  Place(h) \in Touches(c, from, to, k) /\ h = HistoryAt(c, k, Place(h))
  <2>1. PICK p \in Touches(c, from, to, k) : h = HistoryAt(c, k, p)
    BY <1>1 DEF AddressHistory, HistoryAt
  <2>2. h.height = p[1] /\ h.tx = p[2]
    BY <2>1 DEF HistoryAt
  <2>3. p = <<h.height, h.tx>>
    BY <2>2, TouchesFact
  <2> QED
    BY <2>1, <2>3 DEF Place
<1>2. ASSUME Place(h) \in Touches(c, from, to, k), h = HistoryAt(c, k, Place(h))
      PROVE  h \in AddressHistory(c, from, to, k)
  BY <1>2 DEF AddressHistory, HistoryAt
<1> QED
  BY <1>1, <1>2

\* The fields of a history.
LEMMA HistoryFields ==
    ASSUME NEW c, NEW k, NEW from, NEW to, NEW h \in AddressHistory(c, from, to, k)
    PROVE  /\ h.key = k /\ h.height \in from .. to /\ h.tx \in 1 .. MaxTxs
           /\ Place(h) \in Touches(c, from, to, k) /\ h = HistoryAt(c, k, Place(h))
<1>1. Place(h) \in Touches(c, from, to, k) /\ h = HistoryAt(c, k, Place(h))
  BY HistoryAtPlace
<1>2. h.key = k
  BY <1>1 DEF HistoryAt
<1>3. Place(h)[1] = h.height /\ Place(h)[2] = h.tx
  BY DEF Place
<1> QED
  BY <1>1, <1>2, <1>3, TouchesFact

\* navcoind's answer is a set of histories with unique ids.
LEMMA AddressHistoryType ==
    ASSUME NEW c, NEW k \in Key, NEW from \in Nat \ {0}, NEW to \in 0 .. MaxHeight
    PROVE  /\ AddressHistory(c, from, to, k) \in SUBSET History
           /\ SlugsUnique(AddressHistory(c, from, to, k))
<1>1. MaxHeight \in Nat /\ MaxTxs \in Nat
  BY AddressesAssumption
<1>2. ASSUME NEW h \in AddressHistory(c, from, to, k) PROVE h \in History
  <2>1. h.height \in from .. to /\ h.tx \in 1 .. MaxTxs /\ h = HistoryAt(c, k, Place(h))
    BY HistoryFields
  <2>2. h.height \in 1 .. MaxHeight
    BY <1>1, <2>1
  <2>3. Place(h) \in Int \X Int
    BY <1>1, <2>1, <2>2 DEF Place
  <2>4. BalanceAt(c, k, Place(h)) \in Nat
    BY <2>3, BalanceType
  <2>5. Place(h)[1] = h.height /\ Place(h)[2] = h.tx
    BY DEF Place
  <2> QED
    BY <2>1, <2>2, <2>4, <2>5 DEF History, HistoryAt
<1>3. SlugsUnique(AddressHistory(c, from, to, k))
  <2> SUFFICES ASSUME NEW g \in AddressHistory(c, from, to, k),
                      NEW h \in AddressHistory(c, from, to, k), SameSlug(g, h)
               PROVE  g = h
    BY DEF SlugsUnique
  <2>1. Place(g) = Place(h)
    BY DEF SameSlug, Place
  <2>2. g = HistoryAt(c, k, Place(g)) /\ h = HistoryAt(c, k, Place(h))
    BY HistoryFields
  <2> QED
    BY <2>1, <2>2
<1> QED
  BY <1>2, <1>3

\* A part of a chain is touched where the chain is.
LEMMA TouchesPart ==
    ASSUME NEW c, NEW k, NEW from \in Nat \ {0}, NEW to \in Nat, NEW n \in Nat, NEW p
    PROVE  /\ p \in Touches(c, from, to, k)
                 <=> p \in Touches(c, 1, to, k) /\ p[1] >= from
           /\ n <= to => (p \in Touches(c, from, n, k)
                             <=> p \in Touches(c, from, to, k) /\ p[1] <= n)
BY DEF Touches

\* The histories of a part of a chain are those at its heights.
LEMMA HistoryPart ==
    ASSUME NEW c, NEW k, NEW from \in Nat \ {0}, NEW to \in Nat, NEW n \in Nat, NEW h
    PROVE  /\ h \in AddressHistory(c, from, to, k)
                 <=> h \in AddressHistory(c, 1, to, k) /\ h.height >= from
           /\ n <= to => (h \in AddressHistory(c, from, n, k)
                             <=> h \in AddressHistory(c, from, to, k) /\ h.height <= n)
<1>1. Place(h)[1] = h.height
  BY DEF Place
<1>2. /\ Place(h) \in Touches(c, from, to, k)
            <=> Place(h) \in Touches(c, 1, to, k) /\ h.height >= from
      /\ n <= to => (Place(h) \in Touches(c, from, n, k)
                        <=> Place(h) \in Touches(c, from, to, k) /\ h.height <= n)
  BY <1>1, TouchesPart
<1> QED
  BY <1>2, HistoryAtPlace

\* Chains that are equal up to a height have the same histories up to there.
SameUpTo(c, d, n) == \A i \in 1 .. n : c[i] = d[i]

LEMMA HistoryPrefix ==
    ASSUME NEW c, NEW d, NEW k, NEW n \in Nat, SameUpTo(c, d, n),
           NEW from \in Nat \ {0}, NEW to \in 0 .. n
    PROVE  /\ Touches(c, from, to, k) = Touches(d, from, to, k)
           /\ AddressHistory(c, from, to, k) = AddressHistory(d, from, to, k)
<1>1. \A f \in Nat \ {0}, t \in 0 .. n : Touches(c, f, t, k) = Touches(d, f, t, k)
  <2> SUFFICES ASSUME NEW f \in Nat \ {0}, NEW t \in 0 .. n
               PROVE  Touches(c, f, t, k) = Touches(d, f, t, k)
    OBVIOUS
  <2>1. \A i \in f .. t : c[i] = d[i]
    BY DEF SameUpTo
  <2> QED
    BY <2>1 DEF Touches
<1>2. \A p \in Touches(c, from, to, k) : BalanceAt(c, k, p) = BalanceAt(d, k, p)
  <2> SUFFICES ASSUME NEW p \in Touches(c, from, to, k)
               PROVE  BalanceAt(c, k, p) = BalanceAt(d, k, p)
    OBVIOUS
  <2>1. p[1] \in from .. to
    BY TouchesFact
  <2>2. p[1] \in 0 .. n
    BY <2>1
  <2>3. Touches(c, 1, p[1], k) = Touches(d, 1, p[1], k)
    BY <1>1, <2>2
  <2> QED
    BY <2>3 DEF BalanceAt
<1> QED
  BY <1>1, <1>2 DEF AddressHistory

-----------------------------------------------------------------------------
(* What is requested at the end of a block *)

\* The heights navcoind is asked about begin with 1 or later.
LEMMA FromFact ==
    ASSUME TypeOK, NEW height \in Nat \ {0}, AddressesDue(height)
    PROVE  From(height) \in Nat \ {0} /\ From(height) <= height
<1>1. BatchSize \in Nat \ {0} /\ target \in Targets
  BY AddressesAssumption DEF TypeOK
<1>2. CASE phase = "single"
  BY <1>2 DEF From
<1>3. CASE phase # "single" /\ height % BatchSize = 0
  <2>1. height < BatchSize => height % BatchSize = height
    BY <1>1
  <2>2. height >= BatchSize
    BY <1>1, <1>3, <2>1
  <2> QED
    BY <1>1, <1>3, <2>2 DEF From
<1>4. CASE phase # "single" /\ height = target
  <2>1. height \in Nat /\ height >= BatchSize
    BY <1>1, <1>4, AddressesAssumption
  <2> QED
    BY <1>1, <1>4, <2>1 DEF From
<1> QED
  BY <1>2, <1>3, <1>4 DEF AddressesDue

\* The histories of a multi signature are histories with unique ids.
LEMMA MultiSigHistoryType ==
    ASSUME TypeOK, NEW c, NEW to \in 1 .. MaxHeight, NEW k \in MultiSig
    PROVE  /\ MultiSigHistory(c, to, k) \in SUBSET History
           /\ SlugsUnique(MultiSigHistory(c, to, k))
           /\ \A h \in MultiSigHistory(c, to, k) : h.key = k /\ h.height = to
<1>1. k \in Key /\ MaxTxs \in Nat /\ MaxHeight \in Nat
  BY AddressesAssumption DEF Key
<1>2. Found(k) \in AddressDoc
  BY <1>1, AddressesAssumption DEF TypeOK, Documents, Found, AddressDoc, Created
<1>3. Found(k).balance \in Nat
  BY <1>2 DEF AddressDoc, None
<1> DEFINE change(p) == IF phase = "batch"
                        THEN Cardinality({q \in Touches(c, to, to, k) : q[2] <= p[2]}) ELSE 1
           at(p) == [key |-> k, height |-> to, tx |-> p[2], balance |-> Found(k).balance + change(p)]
<1>4. \A p : change(p) \in Nat
  <2> SUFFICES ASSUME NEW p PROVE change(p) \in Nat
    OBVIOUS
  <2> DEFINE B == {q \in Touches(c, to, to, k) : q[2] <= p[2]}
  <2>1. to \in Int /\ 1 \in Int /\ MaxTxs \in Int
    BY <1>1
  <2>6. IsFiniteSet(to .. to)
    BY <2>1, FS_Interval
  <2>7. IsFiniteSet(1 .. MaxTxs)
    BY <2>1, FS_Interval
  <2>2. IsFiniteSet((to .. to) \X (1 .. MaxTxs))
    BY <2>6, <2>7, FS_Product
  <2>3. B \subseteq (to .. to) \X (1 .. MaxTxs)
    BY DEF Touches
  <2>4. IsFiniteSet(B)
    BY <2>2, <2>3, FS_Subset
  <2>5. Cardinality(B) \in Nat
    BY <2>4, FS_CardinalityType
  <2> QED
    BY <2>5
<1> HIDE DEF change
<1>5. MultiSigHistory(c, to, k) = {at(p) : p \in Touches(c, to, to, k)}
  BY DEF MultiSigHistory, change
<1>6. \A p \in Touches(c, to, to, k) : at(p) \in History /\ at(p).key = k /\ at(p).height = to
  <2> SUFFICES ASSUME NEW p \in Touches(c, to, to, k)
               PROVE  at(p) \in History /\ at(p).key = k /\ at(p).height = to
    OBVIOUS
  <2>1. p[2] \in 1 .. MaxTxs
    BY TouchesFact
  <2>2. Found(k).balance + change(p) \in Nat
    BY <1>3, <1>4
  <2> QED
    BY <1>1, <2>1, <2>2 DEF History
<1>7. \A p, q \in Touches(c, to, to, k) : at(p).tx = at(q).tx => at(p) = at(q)
  <2> SUFFICES ASSUME NEW p \in Touches(c, to, to, k), NEW q \in Touches(c, to, to, k),
                      p[2] = q[2]
               PROVE  p = q
    OBVIOUS
  <2>1. p[1] = q[1]
    BY <1>1, TouchesFact
  <2> QED
    BY <2>1, TouchesFact
<1> HIDE DEF at
<1>8. SlugsUnique(MultiSigHistory(c, to, k))
  BY <1>5, <1>7 DEF SlugsUnique, SameSlug
<1> QED
  BY <1>5, <1>6, <1>8

\* What is requested for one key.
LEMMA NewOfKey ==
    ASSUME TypeOK, NEW c, NEW height \in 1 .. MaxHeight, NEW k \in Key
    PROVE  HistoriesOf(NewHistories(c, height), k) =
              IF ~ AddressesDue(height) THEN {}
              ELSE IF k \in MultiSig THEN MultiSigHistory(c, height, k)
              ELSE IF Touches(c, oldest, height, k) # {}
                   THEN AddressHistory(c, From(height), height, k) ELSE {}
<1> DEFINE N == NewHistories(c, height)
           A(j) == AddressHistory(c, From(height), height, j)
<1>1. CASE ~ AddressesDue(height)
  BY <1>1 DEF NewHistories, HistoriesOf
<1>2. CASE AddressesDue(height)
  <2>1. \A h : h \in N <=> \/ \E j \in Address : Touches(c, oldest, height, j) # {} /\ h \in A(j)
                          \/ \E j \in MultiSig : h \in MultiSigHistory(c, height, j)
    BY <1>2 DEF NewHistories, AddressHistories, MultiSigHistories
  <2>2. \A j, h : h \in A(j) => h.key = j
    BY HistoryFields
  <2>3. \A j \in MultiSig : \A h \in MultiSigHistory(c, height, j) : h.key = j
    BY MultiSigHistoryType
  <2>4. Address \cap MultiSig = {} /\ Key = Address \cup MultiSig
    BY AddressesAssumption DEF Key
  <2> HIDE DEF N, A
  <2>5. CASE k \in MultiSig
    <3>1. \A h : h \in N /\ h.key = k <=> h \in MultiSigHistory(c, height, k)
      BY <2>1, <2>2, <2>3, <2>4, <2>5
    <3> QED
      BY <1>2, <2>5, <3>1 DEF HistoriesOf, N
  <2>6. CASE k \in Address
    <3>1. \A h : h \in N /\ h.key = k <=> Touches(c, oldest, height, k) # {} /\ h \in A(k)
      BY <2>1, <2>2, <2>3, <2>4, <2>6
    <3> QED
      BY <1>2, <2>4, <2>6, <3>1 DEF HistoriesOf, N, A
  <2> QED
    BY <2>4, <2>5, <2>6
<1> QED
  BY <1>1, <1>2

\* What is requested are histories with unique ids.
LEMMA NewType ==
    ASSUME TypeOK, NEW c, NEW height \in 1 .. MaxHeight
    PROVE  /\ NewHistories(c, height) \in SUBSET History
           /\ SlugsUnique(NewHistories(c, height))
           /\ Values(NewHistories(c, height)) \in [Key -> AddressDoc]
<1> DEFINE N == NewHistories(c, height)
<1>1. MaxHeight \in Nat /\ Key = Address \cup MultiSig
  BY AddressesAssumption DEF Key
<1>2. \A k \in Key : HistoriesOf(N, k) \in SUBSET History /\ SlugsUnique(HistoriesOf(N, k))
  <2> SUFFICES ASSUME NEW k \in Key
               PROVE  HistoriesOf(N, k) \in SUBSET History /\ SlugsUnique(HistoriesOf(N, k))
    OBVIOUS
  <2>1. AddressesDue(height) => From(height) \in Nat \ {0}
    BY <1>1, FromFact
  <2>2. height \in 0 .. MaxHeight
    BY <1>1
  <2>3. AddressesDue(height) =>
           /\ AddressHistory(c, From(height), height, k) \in SUBSET History
           /\ SlugsUnique(AddressHistory(c, From(height), height, k))
    BY <2>1, <2>2, AddressHistoryType
  <2>4. k \in MultiSig => /\ MultiSigHistory(c, height, k) \in SUBSET History
                          /\ SlugsUnique(MultiSigHistory(c, height, k))
    BY MultiSigHistoryType
  <2>5. SlugsUnique({})
    BY DEF SlugsUnique
  <2> QED
    BY <2>3, <2>4, <2>5, NewOfKey
<1>3. \A h \in N : h.key \in Key
  <2> SUFFICES ASSUME NEW h \in N PROVE h.key \in Key
    OBVIOUS
  <2>1. CASE \E k \in Address : h \in AddressHistory(c, From(height), height, k)
    BY <1>1, <2>1, HistoryFields
  <2>2. CASE \E k \in MultiSig : h \in MultiSigHistory(c, height, k)
    BY <1>1, <2>2, MultiSigHistoryType
  <2> QED
    BY <2>1, <2>2 DEF NewHistories, AddressHistories, MultiSigHistories
<1> HIDE DEF N
<1>4. \A h \in N : h \in HistoriesOf(N, h.key)
  BY DEF HistoriesOf
<1>5. N \in SUBSET History
  BY <1>2, <1>3, <1>4
<1>6. SlugsUnique(N)
  <2> SUFFICES ASSUME NEW g \in N, NEW h \in N, SameSlug(g, h) PROVE g = h
    BY DEF SlugsUnique
  <2>1. g.key = h.key /\ g.key \in Key
    BY <1>3 DEF SameSlug
  <2>2. SlugsUnique(HistoriesOf(N, g.key))
    BY <1>2, <2>1
  <2> QED
    BY <1>4, <2>1, <2>2 DEF SlugsUnique
<1>7. \A k \in Key : Latest(HistoriesOf(N, k)) \in AddressDoc
  BY <1>2, LatestType DEF HistoriesOf
<1>8. Values(N) \in [Key -> AddressDoc]
  BY <1>7 DEF Values, AddressDoc
<1> QED
  BY <1>5, <1>6, <1>8 DEF N

-----------------------------------------------------------------------------
(* Type correctness *)

\* A rewind goes to a height of the chain.
LEMMA TargetFact ==
    ASSUME NEW c \in Seq(Blocks)
    PROVE  /\ Len(c) \in Nat
           /\ (IF Len(c) >= ReindexSize THEN Len(c) - ReindexSize ELSE 0) \in 0 .. Len(c)
BY AddressesAssumption

\* The beginning of a chain is a chain, with the same blocks.
LEMMA CutFact ==
    ASSUME NEW c \in Seq(Blocks), NEW n \in 0 .. Len(c)
    PROVE  /\ SubSeq(c, 1, n) \in Seq(Blocks) /\ Len(SubSeq(c, 1, n)) = n
           /\ \A i \in 1 .. n : SubSeq(c, 1, n)[i] = c[i]
           /\ n = 0 => SubSeq(c, 1, n) = <<>>
           /\ n # 0 => SubSeq(c, 1, n) # <<>>
OBVIOUS

\* Documents without some of their histories.
LEMMA RemovedType ==
    ASSUME NEW d \in Documents, SlugsUnique(d.histories), NEW H
    PROVE  /\ [d EXCEPT !.histories = @ \ H] \in Documents
           /\ SlugsUnique([d EXCEPT !.histories = @ \ H].histories)
BY DEF Documents, SlugsUnique

\* No documents are documents.
LEMMA NoDocumentsType ==
    /\ NoDocuments \in Documents /\ SlugsUnique(NoDocuments.histories)
    /\ NoAddresses \in [Key -> AddressDoc]
<1>1. NoAddresses \in [Key -> AddressDoc]
  BY DEF NoAddresses, AddressDoc
<1> QED
  BY <1>1 DEF NoDocuments, Documents, SlugsUnique

\* The invariant at the beginning.
LEMMA TypeInit == Init => TypeInv
<1> SUFFICES ASSUME Init PROVE TypeInv
  OBVIOUS
<1>1. chain \in Seq(Blocks) /\ Len(chain) = FinalHeight
  BY AddressesAssumption DEF Init
<1>2. TypeOK
  BY <1>1, NoDocumentsType, AddressesAssumption DEF Init, TypeOK
<1>3. ShapeInv
  BY <1>1, NoDocumentsType DEF Init, ShapeInv, Rewinding
<1> QED
  BY <1>2, <1>3 DEF TypeInv

\* A block is indexed.
LEMMA TypeIndexBlock == TypeInv /\ IndexBlock => TypeInv'
<1> SUFFICES ASSUME TypeInv, IndexBlock PROVE TypeInv'
  OBVIOUS
<1> USE DEF TypeInv
<1> DEFINE N == NewHistories(chain', Len(chain'))
           R == [histories |-> N, addresses |-> Values(N)]
<1>1. PICK b \in Blocks : chain' = Append(chain, b)
  BY DEF IndexBlock
<1>2. chain' \in Seq(Blocks) /\ Len(chain') = Len(chain) + 1 /\ Len(chain') \in 1 .. MaxHeight
  BY <1>1, AddressesAssumption DEF IndexBlock, TypeOK
<1>3. N \in SUBSET History /\ SlugsUnique(N) /\ Values(N) \in [Key -> AddressDoc]
  BY <1>2, NewType
<1>4. R \in Documents /\ SlugsUnique(R.histories)
  BY <1>3 DEF Documents
<1>5. requests' = Written(requests, R)
  BY DEF IndexBlock
<1> HIDE DEF N, R
<1>6. requests' \in Documents /\ SlugsUnique(requests'.histories)
  BY <1>4, <1>5, WrittenFact DEF TypeOK, ShapeInv
<1>7. cache' \in [Key -> AddressDoc]
  BY <1>3 DEF IndexBlock, TypeOK, N
<1>8. docs' \in Documents /\ docs'.histories = docs.histories
  <2> DEFINE A == [k \in Key |-> IF k \in Updated(N) /\ ~ Cached(k) /\ seen.addresses[k] = None
                               THEN Created ELSE docs.addresses[k]]
  <2>1. docs' = [docs EXCEPT !.addresses = A]
    BY DEF IndexBlock, N
  <2>2. Created \in AddressDoc
    BY AddressesAssumption DEF Created, AddressDoc
  <2>3. A \in [Key -> AddressDoc]
    BY <2>2 DEF TypeOK, Documents
  <2> HIDE DEF A
  <2> QED
    BY <2>1, <2>3 DEF TypeOK, Documents
<1>9. TypeOK'
  BY <1>2, <1>6, <1>7, <1>8 DEF IndexBlock, TypeOK
<1>10. ShapeInv'
  BY <1>6, <1>8 DEF IndexBlock, ShapeInv, Rewinding
<1> QED
  BY <1>9, <1>10

\* The process is killed.
LEMMA TypeKill == TypeInv /\ Kill => TypeInv'
<1> SUFFICES ASSUME TypeInv, Kill PROVE TypeInv'
  OBVIOUS
<1> USE DEF TypeInv
<1>1. PICK n \in TopsLeft : chain' = SubSeq(chain, 1, n) /\ top' = n /\ oldest' = n + 1
  BY DEF Kill
<1>2. n \in 0 .. Len(chain)
  BY <1>1, TargetFact DEF TopsLeft, TypeOK, ShapeInv, TargetHeight, Rewinding
<1>3. chain' \in Seq(Blocks) /\ Len(chain') = n /\ n <= MaxHeight
  BY <1>1, <1>2, CutFact, AddressesAssumption DEF TypeOK
<1>4. docs' \in Documents /\ SlugsUnique(docs'.histories)
  <2>1. docs' \in DocsLeft
    BY DEF Kill
  <2>2. CASE Persisting
    <3>1. PICK H \in SUBSET requests.histories, K \in SUBSET Key :
             docs' = Written(docs, [histories |-> H, addresses |-> Some(K)])
      BY <2>1, <2>2 DEF DocsLeft
    <3> DEFINE R == [histories |-> H, addresses |-> Some(K)]
    <3>2. Some(K) \in [Key -> AddressDoc]
      BY DEF Some, TypeOK, Documents, AddressDoc
    <3>3. R \in Documents /\ SlugsUnique(R.histories)
      BY <3>2 DEF TypeOK, Documents, ShapeInv, SlugsUnique
    <3> HIDE DEF R
    <3> QED
      BY <3>1, <3>3, WrittenFact DEF R, TypeOK, ShapeInv
  <2>3. CASE ~ Persisting /\ pc = "delete"
    <3>1. PICK H : docs' = [docs EXCEPT !.histories = @ \ H]
      BY <2>1, <2>3 DEF DocsLeft
    <3> QED
      BY <3>1, RemovedType DEF TypeOK, ShapeInv
  <2>4. CASE ~ Persisting /\ pc # "delete"
    BY <2>1, <2>4 DEF DocsLeft, TypeOK, ShapeInv
  <2> QED
    BY <2>2, <2>3, <2>4
<1>5. kills' \in 0 .. MaxKills
  BY AddressesAssumption DEF Kill, TypeOK
<1>6. TypeOK'
  BY <1>1, <1>2, <1>3, <1>4, <1>5, NoDocumentsType DEF Kill, Die, TypeOK
<1>7. ShapeInv'
  BY <1>1, <1>3, <1>4, NoDocumentsType DEF Kill, Die, ShapeInv, Rewinding
<1> QED
  BY <1>6, <1>7

\* Every step keeps the type invariant.
LEMMA TypeNext == TypeInv /\ [Next]_vars => TypeInv'
<1> SUFFICES ASSUME TypeInv, [Next]_vars PROVE TypeInv'
  OBVIOUS
<1> USE DEF TypeInv
<1>1. CASE Refresh
  BY <1>1 DEF Refresh, TypeOK, ShapeInv, Rewinding, TargetHeight, blockVars, memoryVars
<1>2. CASE IndexBlock
  BY <1>2, TypeIndexBlock
<1>3. CASE Persist
  <2>1. docs' \in Documents /\ SlugsUnique(docs'.histories)
    BY <1>3, WrittenFact DEF Persist, TypeOK, ShapeInv
  <2>2. TypeOK'
    BY <1>3, <2>1, NoDocumentsType DEF Persist, TypeOK
  <2> QED
    BY <1>3, <2>1, <2>2, NoDocumentsType DEF Persist, ShapeInv, Rewinding
<1>4. CASE FinishBulk
  BY <1>4 DEF FinishBulk, TypeOK, ShapeInv, Rewinding, TargetHeight, blockVars, memoryVars
<1>5. CASE Start
  <2>1. TargetHeight \in 0 .. MaxHeight
    BY TargetFact, AddressesAssumption DEF TypeOK, TargetHeight
  <2> QED
    BY <1>5, <2>1 DEF Start, StartIndex, TypeOK, ShapeInv, Rewinding, TargetHeight, blockVars, memoryVars
<1>6. CASE RewindOrphan
  <2>1. TargetHeight \in 0 .. MaxHeight /\ Len(chain) - ReindexSize = TargetHeight /\ chain # <<>>
    BY <1>6, TargetFact, AddressesAssumption DEF TypeOK, TargetHeight, RewindOrphan
  <2> QED
    BY <1>6, <2>1 DEF RewindOrphan, TypeOK, ShapeInv, Rewinding, TargetHeight, blockVars, memoryVars
<1>7. CASE ReadAddresses
  BY <1>7 DEF ReadAddresses, ToReset, TypeOK, ShapeInv, Rewinding, TargetHeight, blockVars, memoryVars
<1>8. CASE DeleteHistories
  <2>1. docs' \in Documents /\ SlugsUnique(docs'.histories)
    BY <1>8, RemovedType DEF DeleteHistories, TypeOK, ShapeInv
  <2> QED
    BY <1>8, <2>1 DEF DeleteHistories, TypeOK, ShapeInv, Rewinding, TargetHeight, blockVars, memoryVars
<1>9. CASE ResetAddress
  <2>1. PICK k \in reset :
           /\ docs' = [docs EXCEPT !.addresses[k] = Latest(HistoriesOf(seen.histories, k))]
           /\ reset' = reset \ {k}
    BY <1>9 DEF ResetAddress
  <2>2. k \in Key
    BY DEF TypeOK
  <2>3. Latest(HistoriesOf(seen.histories, k)) \in AddressDoc
    <3> DEFINE hs == HistoriesOf(seen.histories, k)
    <3>1. hs \in SUBSET History /\ SlugsUnique(hs) /\ \A h \in hs : h.key = k
      BY DEF TypeOK, ShapeInv, Documents, HistoriesOf, SlugsUnique
    <3> HIDE DEF hs
    <3> QED
      BY <3>1, LatestType DEF hs
  <2>4. docs' \in Documents /\ docs'.histories = docs.histories
    BY <2>1, <2>2, <2>3 DEF TypeOK, Documents
  <2> QED
    BY <1>9, <2>1, <2>4 DEF ResetAddress, TypeOK, ShapeInv, Rewinding, TargetHeight, blockVars, memoryVars
<1>10. CASE FinishReset
  BY <1>10, NoDocumentsType
     DEF FinishReset, TypeOK, ShapeInv, Rewinding, TargetHeight, blockVars, memoryVars
<1>11. CASE DeleteBlocks
  <2>1. rewindTo \in 0 .. Len(chain) /\ pc = "blocks" /\ phase \in {"boot", "batch", "single"}
    BY <1>11, TargetFact DEF DeleteBlocks, TypeOK, ShapeInv, TargetHeight, Rewinding
  <2>2. chain' \in Seq(Blocks) /\ Len(chain') = rewindTo
    BY <1>11, <2>1, CutFact DEF DeleteBlocks, TypeOK
  <2>3. CASE rewindTo = 0
    <3>1. TypeOK'
      BY <1>11, <2>1, <2>2, <2>3, NoDocumentsType DEF DeleteBlocks, Die, TypeOK
    <3> QED
      BY <1>11, <2>2, <2>3, <3>1, NoDocumentsType DEF DeleteBlocks, Die, ShapeInv, Rewinding
  <2>4. CASE rewindTo # 0
    <3>1. pc' = "index" /\ phase' \in {"batch", "single"}
      BY <1>11, <2>1, <2>4 DEF DeleteBlocks, StartIndex
    <3>2. TypeOK'
      BY <1>11, <2>1, <2>2, <2>4, <3>1 DEF DeleteBlocks, TypeOK
    <3> QED
      BY <1>11, <2>2, <2>4, <3>1, <3>2 DEF DeleteBlocks, ShapeInv, Rewinding
  <2> QED
    BY <2>3, <2>4
<1>12. CASE Kill
  BY <1>12, TypeKill
<1>13. CASE UNCHANGED vars
  BY <1>13 DEF vars, blockVars, memoryVars, TypeOK, ShapeInv, Rewinding, TargetHeight
<1> QED
  BY <1>1, <1>2, <1>3, <1>4, <1>5, <1>6, <1>7, <1>8, <1>9, <1>10, <1>11, <1>12, <1>13 DEF Next

\* The type invariant of Addresses, in every setting: with a persist in the middle
\* of a batch, searches before the refresh, and kills anywhere.
THEOREM TypeCorrect == Spec => []TypeOK
<1>1. Spec => []TypeInv
  BY TypeInit, TypeNext, PTL DEF Spec
<1>2. TypeInv => TypeOK
  BY DEF TypeInv
<1> QED
  BY <1>1, <1>2, PTL

-----------------------------------------------------------------------------
(* Histories and addresses up to a height *)

\* Searches come after the refresh, and no previous transaction is missing.
SafeSetting == LagSites = {} /\ MayFlush = FALSE

\* Among as many heights in a row as a batch has there is one at which a
\* persist is due.
LEMMA MultipleInBatch ==
    ASSUME NEW k \in Nat
    PROVE  \E h \in k + 1 .. k + BatchSize : h % BatchSize = 0
<1> DEFINE B == BatchSize
           x == k + B
           r == x % B
           q == x \div B
<1>1. B \in Nat \ {0} /\ x \in Nat
  BY AddressesAssumption
<1>2. r \in 0 .. B - 1 /\ q \in Int /\ x = B * q + r
  BY <1>1
<1>3. x - r \in k + 1 .. k + B
  BY <1>1, <1>2
<1>4. (B * q) % B = 0
  <2> DEFINE m == (B * q) % B
             d == q - (B * q) \div B
  <2>1. m \in 0 .. B - 1 /\ d \in Int /\ m = B * d
    BY <1>1, <1>2
  <2>2. d >= 1 => B * d >= B
    BY <1>1, <2>1
  <2>3. d <= -1 => B * d <= -B
    BY <1>1, <2>1
  <2>4. d = 0
    BY <1>1, <2>1, <2>2, <2>3
  <2> QED
    BY <1>1, <2>1, <2>4
<1>5. (x - r) % B = 0
  BY <1>1, <1>2, <1>4
<1> QED
  BY <1>3, <1>5

\* What is not persisted is no longer than a batch.
LEMMA BacklogBound ==
    ASSUME TypeInv, BatchInv, pc = "index"
    PROVE  Len(chain) <= top + BatchSize
<1>1. Len(chain) \in Nat /\ top \in Nat /\ BatchSize \in Nat \ {0}
  BY TargetFact, AddressesAssumption DEF TypeInv, TypeOK
<1>2. CASE phase = "single"
  BY <1>1, <1>2 DEF BatchInv
<1>3. CASE phase = "batch"
  <2>1. PICK h \in top + 1 .. top + BatchSize : h % BatchSize = 0
    BY <1>1, MultipleInBatch
  <2>2. h \notin top + 1 .. Len(chain) - 1
    BY <1>3, <2>1 DEF BatchInv
  <2> QED
    BY <1>1, <2>1, <2>2
<1> QED
  BY <1>2, <1>3 DEF TypeInv, ShapeInv

\* Histories of a key that are right up to a height are right up to a lower one,
\* also for a chain that is the same up to there.
LEMMA HistoriesLower ==
    ASSUME NEW c, NEW d, NEW k, NEW hs \in SUBSET History, NEW m \in Nat, NEW n \in Nat, n <= m,
           UpTo(hs, k, m) = AddressHistory(c, 1, m, k), SameUpTo(c, d, n)
    PROVE  UpTo(hs, k, n) = AddressHistory(d, 1, n, k)
<1>1. \A h : h \in UpTo(hs, k, n) <=> h \in UpTo(hs, k, m) /\ h.height <= n
  <2>1. \A h \in hs : h.height \in Int
    BY DEF History
  <2> QED
    BY <2>1 DEF UpTo
<1>2. \A h : h \in AddressHistory(c, 1, n, k) <=> h \in AddressHistory(c, 1, m, k) /\ h.height <= n
  BY HistoryPart
<1>3. AddressHistory(c, 1, n, k) = AddressHistory(d, 1, n, k)
  BY HistoryPrefix
<1> QED
  BY <1>1, <1>2, <1>3

LEMMA ExactLower ==
    ASSUME NEW c, NEW d, NEW hs \in SUBSET History, NEW m \in Nat, NEW n \in Nat, n <= m,
           Exact(c, hs, m), SameUpTo(c, d, n)
    PROVE  Exact(d, hs, n)
BY HistoriesLower DEF Exact

\* The same for an address: if it is not above the lower height, it is about
\* histories that are not.
LEMMA RightLower ==
    ASSUME NEW d \in Documents, SlugsUnique(d.histories), NEW k \in Key,
           NEW m \in Nat, NEW n \in Nat, n <= m, Right(d, k, m)
    PROVE  Right(d, k, n)
<1> DEFINE S == UpTo(d.histories, k, m)
           T == UpTo(d.histories, k, n)
           a == d.addresses[k]
<1>1. S \in SUBSET History /\ SlugsUnique(S) /\ \A h \in S : h.key = k
  BY DEF UpTo, Documents, SlugsUnique
<1>2. a \in AddressDoc /\ a.height \in Int
  BY DEF Documents, AddressDoc, None
<1>3. \A h : h \in T <=> h \in S /\ h.height <= n
  BY DEF UpTo, Documents, History
<1>4. CASE a.height > m
  BY <1>2, <1>4 DEF Right
<1>5. CASE Agrees(a, S)
  <2>1. CASE S = {}
    <3>1. T = S
      BY <1>3, <2>1
    <3> QED
      BY <1>5, <3>1 DEF Right
  <2>2. CASE S # {}
    <3>1. a = Latest(S)
      BY <1>5, <2>2 DEF Agrees
    <3> HIDE DEF S, T
    <3>2. PICK l \in S : /\ \A h \in S \ {l} : Later(l, h)
                         /\ Latest(S) = [height |-> l.height, balance |-> l.balance]
      BY <1>1, <2>2, LatestFact
    <3>3. \A h \in S : h.height <= l.height
      BY <1>1, <3>2 DEF Later, History
    <3>4. a.height = l.height
      BY <3>1, <3>2
    <3>5. CASE l.height > n
      BY <3>4, <3>5 DEF Right
    <3>6. CASE ~ (l.height > n)
      <4>1. \A h \in S : h.height <= n
        BY <1>1, <3>3, <3>6 DEF History
      <4>2. T = S
        BY <1>3, <4>1
      <4> QED
        BY <1>5, <4>2 DEF Right, T
    <3> QED
      BY <3>5, <3>6
  <2> QED
    BY <2>1, <2>2
<1> QED
  BY <1>4, <1>5 DEF Right

\* Histories of one key, and some that are not, or not all, above a height.
OfKey(hs, k) == \A h \in hs : h.key = k
NotAbove(hs, n) == \A h \in hs : h.height <= n
Reaching(hs, n) == \E h \in hs : h.height > n

\* A later history than all the old ones decides.
LEMMA LatestOfUnion ==
    ASSUME NEW old \in SUBSET History, NEW new \in SUBSET History, NEW k, NEW n \in Nat,
           SlugsUnique(new), OfKey(new, k), NotAbove(old, n), Reaching(new, n)
    PROVE  Latest(old \cup new) = Latest(new) /\ Latest(new).height > n
<1> USE DEF OfKey, NotAbove, Reaching
<1>1. PICK l \in new : /\ \A h \in new \ {l} : Later(l, h)
                       /\ Latest(new) = [height |-> l.height, balance |-> l.balance]
  BY LatestFact
<1>2. PICK g \in new : g.height > n
  OBVIOUS
<1>3. l.height > n
  BY <1>1, <1>2 DEF Later, History
<1>4. \A h \in (old \cup new) \ {l} : Later(l, h)
  BY <1>1, <1>3 DEF Later, History
<1>5. Latest(old \cup new) = [height |-> l.height, balance |-> l.balance]
  BY <1>4, LatestIs
<1> QED
  BY <1>1, <1>3, <1>5

\* Where no history is above a height, all of them are up to it.
LEMMA AllUpTo ==
    ASSUME NEW hs, NEW k, NEW n, \A h \in hs : h.height <= n
    PROVE  UpTo(hs, k, n) = HistoriesOf(hs, k)
BY DEF UpTo, HistoriesOf

-----------------------------------------------------------------------------
(* The process is killed *)

\* A kill in the very first persist stores a block with whatever it stores, so
\* that the next start has something to rewind.
LeavesBlock == Kill /\ chain' = <<>> => docs' = docs

\* The height up to which everything is right.
RightUpTo == IF pc = "index" THEN top ELSE TargetHeight

\* Up to there it is right, whatever the process is doing.
LEMMA RightNow ==
    ASSUME TypeInv, DataInv
    PROVE  /\ RightUpTo \in Nat /\ RightUpTo <= Len(chain)
           /\ Exact(chain, docs.histories, RightUpTo)
           /\ \A k \in Key : Right(docs, k, RightUpTo)
<1>1. CASE pc = "index"
  <2>1. RightUpTo = top /\ top \in 0 .. Len(chain)
    BY <1>1 DEF RightUpTo, TypeInv, TypeOK
  <2>2. \A h \in docs.histories : h.height <= top
    BY <1>1 DEF DataInv, PersistedInv
  <2>3. \A k \in Key : UpTo(docs.histories, k, top) = HistoriesOf(docs.histories, k)
    BY <2>2, AllUpTo
  <2>4. \A k \in Key : Right(docs, k, top)
    BY <1>1, <2>3 DEF DataInv, PersistedInv, Right
  <2> QED
    BY <1>1, <2>1, <2>4, TargetFact DEF DataInv, PersistedInv, TypeInv, TypeOK
<1>2. CASE pc # "index"
  BY <1>2, TargetFact DEF RightUpTo, DataInv, RewoundInv, TypeInv, TypeOK, TargetHeight
<1> QED
  BY <1>1, <1>2

\* A persist that is due has the addresses in it.
LEMMA DueFact ==
    ASSUME SafeSetting, TypeInv, DataInv, pc = "index", PersistDue, top < Len(chain)
    PROVE  AddressesDue(Len(chain))
<1>1. phase \in {"batch", "single"} /\ Len(chain) \in Nat /\ target \in Nat
  BY TargetFact, AddressesAssumption DEF TypeInv, TypeOK, ShapeInv
<1>2. phase = "batch" => Len(chain) <= target
  BY DEF DataInv, BatchInv
<1> QED
  BY <1>1, <1>2 DEF SafeSetting, PersistDue, AddressesDue

\* Any part of what waits leaves everything up to there as it is.
LEMMA PartWritten ==
    ASSUME SafeSetting, TypeInv, DataInv, Persisting,
           NEW H \in SUBSET requests.histories, NEW K \in SUBSET Key, NEW k \in Key,
           NEW d, d = Written(docs, [histories |-> H, addresses |-> Some(K)])
    PROVE  /\ UpTo(d.histories, k, top) = UpTo(docs.histories, k, top)
           /\ d.addresses[k] = docs.addresses[k] \/ d.addresses[k].height > top
<1>1. pc = "index" /\ top < Len(chain) /\ AddressesDue(Len(chain))
  BY DueFact DEF Persisting
<1>2. top \in Nat /\ Len(chain) \in Nat /\ docs.histories \in SUBSET History
      /\ requests.histories \in SUBSET History /\ SlugsUnique(docs.histories)
      /\ SlugsUnique(requests.histories)
  BY TargetFact DEF TypeInv, TypeOK, ShapeInv, Documents
<1>3. d.histories = H \cup {h \in docs.histories : ~ \E g \in H : SameSlug(g, h)}
  BY DEF Written
<1>4. \A h \in requests.histories : h.height <= top => h \in docs.histories
  <2> SUFFICES ASSUME NEW h \in requests.histories, h.height <= top
               PROVE  h \in docs.histories
    OBVIOUS
  <2>1. h \in HistoriesOf(requests.histories, h.key) /\ h.key \in Key
    BY <1>2 DEF HistoriesOf, History
  <2>2. h.key \notin MultiSig
    BY <1>1, <1>2, <2>1 DEF DataInv, RequestedInv
  <2>3. h.key \in Address
    BY <2>1, <2>2 DEF Key
  <2>4. h \in AddressHistory(chain, 1, Len(chain), h.key)
    BY <1>1, <2>1, <2>3 DEF DataInv, RequestedInv
  <2>5. h \in AddressHistory(chain, 1, top, h.key)
    BY <1>1, <1>2, <2>4, HistoryPart
  <2>6. h \in UpTo(docs.histories, h.key, top)
    BY <1>1, <2>3, <2>5 DEF DataInv, PersistedInv, Exact
  <2> QED
    BY <2>6 DEF UpTo
<1>5. UpTo(d.histories, k, top) = UpTo(docs.histories, k, top)
  <2>1. ASSUME NEW h \in d.histories, h.height <= top PROVE h \in docs.histories
    BY <1>3, <1>4, <2>1
  <2>2. ASSUME NEW h \in docs.histories, h.height <= top PROVE h \in d.histories
    <3>1. CASE \E g \in H : SameSlug(g, h)
      <4>1. PICK g \in H : SameSlug(g, h)
        BY <3>1
      <4>2. g.height <= top
        BY <2>2, <4>1 DEF SameSlug
      <4>3. g = h
        BY <1>2, <1>4, <4>1, <4>2 DEF SlugsUnique
      <4> QED
        BY <1>3, <4>3
    <3>2. CASE ~ \E g \in H : SameSlug(g, h)
      BY <1>3, <3>2
    <3> QED
      BY <3>1, <3>2
  <2> QED
    BY <2>1, <2>2 DEF UpTo
<1>6. d.addresses[k] = docs.addresses[k] \/ d.addresses[k].height > top
  <2> DEFINE hs == HistoriesOf(requests.histories, k)
  <2>1. CASE k \in K /\ requests.addresses[k] # None
    <3>1. d.addresses[k] = requests.addresses[k]
      BY <2>1 DEF Written, Some
    <3>2. requests.addresses[k] = Latest(hs) /\ \E h \in hs : h.height > top
      BY <1>1, <2>1 DEF DataInv, RequestedInv
    <3>3. hs \in SUBSET History /\ SlugsUnique(hs) /\ OfKey(hs, k) /\ Reaching(hs, top)
      BY <1>2, <3>2 DEF HistoriesOf, SlugsUnique, OfKey, Reaching
    <3>4. Latest(hs).height > top
      <4>1. {} \in SUBSET History /\ NotAbove({}, top)
        BY DEF NotAbove
      <4> HIDE DEF hs
      <4>2. Latest({} \cup hs) = Latest(hs) /\ Latest(hs).height > top
        BY <1>2, <3>3, <4>1, LatestOfUnion
      <4> QED
        BY <4>2
    <3> QED
      BY <3>1, <3>2, <3>4
  <2>2. CASE ~ (k \in K /\ requests.addresses[k] # None)
    BY <2>2 DEF Written, Some
  <2> QED
    BY <2>1, <2>2
<1> QED
  BY <1>5, <1>6

\* What a kill leaves.
LEMMA KillLeaves ==
    ASSUME SafeSetting, TypeInv, DataInv, Kill, NEW k \in Key
    PROVE  /\ UpTo(docs'.histories, k, RightUpTo) = UpTo(docs.histories, k, RightUpTo)
           /\ docs'.addresses[k] = docs.addresses[k] \/ docs'.addresses[k].height > RightUpTo
<1>1. docs' \in DocsLeft
  BY DEF Kill
<1>2. CASE Persisting
  <2>1. PICK H \in SUBSET requests.histories, K \in SUBSET Key :
           docs' = Written(docs, [histories |-> H, addresses |-> Some(K)])
    BY <1>1, <1>2 DEF DocsLeft
  <2>2. RightUpTo = top
    BY <1>2 DEF Persisting, RightUpTo
  <2> QED
    BY <1>2, <2>1, <2>2, PartWritten
<1>3. CASE ~ Persisting /\ pc = "delete"
  <2>1. PICK H \in SUBSET Above(docs.histories) : docs' = [docs EXCEPT !.histories = @ \ H]
    BY <1>1, <1>3 DEF DocsLeft
  <2>2. RightUpTo = rewindTo /\ rewindTo \in Nat
    BY <1>3, AddressesAssumption DEF RightUpTo, TypeInv, TypeOK, ShapeInv, Rewinding
  <2>3. docs'.histories = docs.histories \ H /\ docs'.addresses = docs.addresses
    BY <2>1 DEF TypeInv, TypeOK, Documents
  <2>4. \A h \in H : ~ (h.height <= rewindTo)
    BY <2>2 DEF Above, TypeInv, TypeOK, Documents, History
  <2> QED
    BY <2>2, <2>3, <2>4 DEF UpTo
<1>4. CASE ~ Persisting /\ pc # "delete"
  BY <1>1, <1>4 DEF DocsLeft
<1> QED
  BY <1>2, <1>3, <1>4

-----------------------------------------------------------------------------
(* Kills *)

\* Where the next rewind goes after a kill everything was right, and still is.
LEMMA KillTarget ==
    ASSUME TypeInv, DataInv, Kill, TypeInv'
    PROVE  /\ TargetHeight' \in Nat /\ TargetHeight' <= RightUpTo
           /\ SameUpTo(chain, chain', TargetHeight')
<1>1. PICK n \in TopsLeft : chain' = SubSeq(chain, 1, n)
  BY DEF Kill
<1>2. /\ Len(chain) \in Nat /\ top \in 0 .. Len(chain) /\ chain \in Seq(Blocks)
      /\ TargetHeight \in 0 .. Len(chain)
      /\ BatchSize \in Nat \ {0} /\ ReindexSize \in Nat /\ BatchSize <= ReindexSize
      /\ pc \in Rewinding => top = Len(chain) /\ rewindTo = TargetHeight
  BY TargetFact, AddressesAssumption DEF TypeInv, TypeOK, ShapeInv, TargetHeight, Rewinding
<1>3. n \in 0 .. Len(chain)
  BY <1>1, <1>2 DEF TopsLeft, Rewinding
<1>4. Len(chain') = n
  BY <1>1, <1>2, <1>3, CutFact
<1>5. TargetHeight' = IF n >= ReindexSize THEN n - ReindexSize ELSE 0
  BY <1>4 DEF TargetHeight
<1>6. TargetHeight' \in Nat /\ TargetHeight' <= n
  BY <1>2, <1>3, <1>5
<1>7. TargetHeight' <= RightUpTo
  <2>1. CASE pc = "index" /\ Persisting
    <3>1. Len(chain) <= top + BatchSize
      BY <2>1, BacklogBound DEF DataInv
    <3> QED
      BY <1>2, <1>3, <1>5, <2>1, <3>1 DEF RightUpTo
  <2>2. CASE pc = "index" /\ ~ Persisting
    <3>1. n = top
      BY <1>1, <2>2 DEF TopsLeft
    <3> QED
      BY <1>2, <1>6, <2>2, <3>1 DEF RightUpTo
  <2>3. CASE pc # "index"
    <3>1. RightUpTo = IF Len(chain) >= ReindexSize THEN Len(chain) - ReindexSize ELSE 0
      BY <2>3 DEF RightUpTo, TargetHeight
    <3> QED
      BY <1>2, <1>3, <1>5, <3>1
  <2> QED
    BY <2>1, <2>2, <2>3
<1>8. SameUpTo(chain, chain', TargetHeight')
  <2>1. \A i \in 1 .. n : chain'[i] = chain[i]
    BY <1>1, <1>2, <1>3, CutFact
  <2> QED
    BY <1>3, <1>6, <2>1 DEF SameUpTo
<1> QED
  BY <1>6, <1>7, <1>8

\* A kill that leaves no block leaves nothing of the addresses.
LEMMA KillEmpty ==
    ASSUME TypeInv, DataInv, Kill, LeavesBlock, chain' = <<>>
    PROVE  /\ docs'.histories = {}
           /\ \A k \in Key : Agrees(docs'.addresses[k], {})
<1>1. docs' = docs
  BY DEF LeavesBlock
<1>2. PICK n \in TopsLeft : chain' = SubSeq(chain, 1, n)
  BY DEF Kill
<1>3. /\ Len(chain) \in Nat /\ top \in 0 .. Len(chain) /\ chain \in Seq(Blocks)
      /\ TargetHeight \in 0 .. Len(chain)
      /\ pc \in Rewinding => top = Len(chain) /\ rewindTo = TargetHeight /\ chain # <<>>
      /\ docs \in Documents
      /\ pc \in {"index"} \cup Rewinding
  BY TargetFact DEF TypeInv, TypeOK, ShapeInv, TargetHeight, Rewinding, Kill
<1>4. n \in 0 .. Len(chain)
  BY <1>2, <1>3 DEF TopsLeft, Rewinding
<1>5. n = 0
  BY <1>2, <1>3, <1>4, CutFact
<1>6. \A k \in Key : UpTo({}, k, 0) = {} /\ HistoriesOf({}, k) = {}
  BY DEF UpTo, HistoriesOf
<1>7. CASE pc = "index"
  <2>1. top = 0
    BY <1>3, <1>5, <1>7 DEF TopsLeft
  <2>2. docs.histories = {}
    BY <1>3, <1>7, <2>1 DEF DataInv, PersistedInv, Documents, History
  <2> QED
    BY <1>1, <1>6, <1>7, <2>2 DEF DataInv, PersistedInv
<1>8. CASE pc = "blocks"
  <2>1. rewindTo = 0 /\ TargetHeight = 0
    BY <1>3, <1>5, <1>8 DEF TopsLeft, Persisting, Rewinding
  <2>2. docs.histories = {}
    BY <1>3, <1>8, <2>1 DEF DataInv, RewoundInv, Documents, History
  <2>3. \A k \in Key : ~ (docs.addresses[k].height > 0)
    BY <1>8, <2>1 DEF DataInv, RewoundInv
  <2>4. \A k \in Key : Right(docs, k, 0)
    BY <1>8, <2>1 DEF DataInv, RewoundInv
  <2> QED
    BY <1>1, <1>6, <2>2, <2>3, <2>4 DEF Right
<1>9. CASE pc \in Rewinding \ {"blocks"}
  <2>1. n = Len(chain)
    BY <1>2, <1>3, <1>9 DEF TopsLeft, Persisting, Rewinding
  <2> QED
    BY <1>3, <1>5, <1>9, <2>1
<1> QED
  BY <1>3, <1>7, <1>8, <1>9 DEF Rewinding

\* The process is killed.
LEMMA DataKill ==
    ASSUME SafeSetting, TypeInv, TypeInv', DataInv, Kill, LeavesBlock
    PROVE  DataInv'
<1> DEFINE R == RightUpTo
           T == TargetHeight'
<1>1. /\ pc' = "down" /\ requests' = NoDocuments /\ oldest' = top' + 1
  BY DEF Kill, Die
<1>2. R \in Nat /\ Exact(chain, docs.histories, R) /\ \A k \in Key : Right(docs, k, R)
  BY RightNow
<1>3. T \in Nat /\ T <= R /\ SameUpTo(chain, chain', T)
  BY KillTarget
<1>4. docs' \in Documents /\ SlugsUnique(docs'.histories) /\ docs'.histories \in SUBSET History
  BY DEF TypeInv, TypeOK, ShapeInv, Documents
<1>5. \A k \in Key :
         /\ UpTo(docs'.histories, k, R) = UpTo(docs.histories, k, R)
         /\ docs'.addresses[k] = docs.addresses[k] \/ docs'.addresses[k].height > R
  BY KillLeaves
<1> HIDE DEF R, T
<1>6. Exact(chain, docs'.histories, R)
  BY <1>2, <1>5 DEF Exact, Key
<1>7. Exact(chain', docs'.histories, T)
  BY <1>2, <1>3, <1>4, <1>6, ExactLower
<1>8. \A k \in Key : Right(docs', k, R)
  BY <1>2, <1>5 DEF Right
<1>9. \A k \in Key : Right(docs', k, T)
  BY <1>2, <1>3, <1>4, <1>8, RightLower
<1>10. chain' = <<>> => /\ docs'.histories = {}
                        /\ \A k \in Key : Agrees(docs'.addresses[k], {})
  BY KillEmpty
<1>11. BatchInv'
  BY <1>1 DEF BatchInv
<1>12. PersistedInv' /\ RequestedInv'
  BY <1>1 DEF PersistedInv, RequestedInv
<1>13. RewoundInv'
  BY <1>1, <1>7, <1>9, <1>10 DEF RewoundInv, T
<1> QED
  BY <1>11, <1>12, <1>13 DEF DataInv

-----------------------------------------------------------------------------
(* Start and rewind *)

\* Nothing is to be found where nothing is touched.
LEMMA NoHistory ==
    ASSUME NEW c, NEW k, NEW n
    PROVE  /\ AddressHistory(c, 1, 0, k) = {}
           /\ Touches(c, 1, n, k) = {} => AddressHistory(c, 1, n, k) = {}
<1>1. Touches(c, 1, 0, k) = {}
  BY DEF Touches
<1>2. \A m : Touches(c, 1, m, k) = {} => AddressHistory(c, 1, m, k) = {}
  BY DEF AddressHistory
<1> QED
  BY <1>1, <1>2

\* No documents are right for a chain that touches nothing.
LEMMA NothingIsRight ==
    ASSUME NEW d, d.histories = {}, NEW k, Agrees(d.addresses[k], {}), NEW n
    PROVE  /\ UpTo(d.histories, k, n) = {} /\ HistoriesOf(d.histories, k) = {}
           /\ Right(d, k, n) /\ Agrees(d.addresses[k], HistoriesOf(d.histories, k))
<1>1. UpTo(d.histories, k, n) = {} /\ HistoriesOf(d.histories, k) = {}
  BY DEF UpTo, HistoriesOf
<1> QED
  BY <1>1 DEF Right

\* The invariant at the beginning.
LEMMA DataInit == Init => DataInv
<1> SUFFICES ASSUME Init PROVE DataInv
  OBVIOUS
<1>1. pc = "down" /\ requests = NoDocuments /\ oldest = top + 1 /\ docs = NoDocuments
  BY DEF Init
<1>2. docs.histories = {} /\ \A k \in Key : Agrees(docs.addresses[k], {})
  BY <1>1 DEF NoDocuments, NoAddresses, Agrees
<1>3. Len(chain) = FinalHeight /\ FinalHeight \in Nat /\ TargetHeight \in 0 .. FinalHeight
  BY AddressesAssumption DEF Init, TargetHeight
<1>4. \A k : Touches(chain, 1, TargetHeight, k) = {}
  <2> SUFFICES ASSUME NEW k, NEW p \in Touches(chain, 1, TargetHeight, k) PROVE FALSE
    OBVIOUS
  <2>1. p[1] \in 1 .. FinalHeight /\ p[2] \in DOMAIN chain[p[1]] /\ k \in chain[p[1]][p[2]]
    BY <1>3, TouchesFact
  <2>2. chain[p[1]] = <<{}>>
    BY <2>1 DEF Init
  <2> QED
    BY <2>1, <2>2
<1>5. Exact(chain, docs.histories, TargetHeight)
  BY <1>2, <1>4, NoHistory DEF Exact, UpTo
<1>6. \A k \in Key : Right(docs, k, TargetHeight)
  BY <1>2, NothingIsRight
<1> QED
  BY <1>1, <1>2, <1>5, <1>6 DEF DataInv, BatchInv, PersistedInv, RequestedInv, RewoundInv

\* The process starts.
LEMMA DataStart == ASSUME TypeInv, DataInv, Start PROVE DataInv'
<1>1. pc = "down" /\ requests = NoDocuments /\ oldest = top + 1 /\ top = Len(chain)
  BY DEF Start, DataInv, BatchInv, TypeInv, ShapeInv
<1>2. /\ UNCHANGED <<target, chain, top, docs, requests, oldest>>
  BY DEF Start, blockVars, memoryVars
<1>3. target \in Nat
  BY AddressesAssumption DEF TypeInv, TypeOK
<1>4. CASE chain = <<>>
  <2>1. pc' = "index" /\ phase' = IF 0 < target THEN "batch" ELSE "single"
    BY <1>4 DEF Start, StartIndex, LeftToSingle
  <2>2. top = 0 /\ docs.histories = {} /\ \A k \in Key : Agrees(docs.addresses[k], {})
    BY <1>1, <1>4 DEF DataInv, RewoundInv
  <2>3. BatchInv'
    BY <1>1, <1>2, <1>3, <1>4, <2>1, <2>2 DEF BatchInv
  <2>4. PersistedInv'
    <3>1. Exact(chain, docs.histories, 0)
      BY <2>2, NoHistory DEF Exact, UpTo
    <3>2. \A k \in Key : Agrees(docs.addresses[k], HistoriesOf(docs.histories, k))
      BY <2>2, NothingIsRight
    <3> QED
      BY <1>2, <2>2, <3>1, <3>2 DEF PersistedInv
  <2>5. RequestedInv' /\ RewoundInv'
    BY <1>1, <1>2, <1>4, <2>1 DEF RequestedInv, RewoundInv
  <2> QED
    BY <2>3, <2>4, <2>5 DEF DataInv
<1>5. CASE chain # <<>>
  <2>1. pc' = "read"
    BY <1>5 DEF Start
  <2>2. TargetHeight' = TargetHeight
    BY <1>2 DEF TargetHeight
  <2>3. RewoundInv'
    BY <1>1, <1>2, <1>5, <2>1, <2>2 DEF DataInv, RewoundInv
  <2> QED
    BY <1>1, <1>2, <2>1, <2>3 DEF DataInv, BatchInv, PersistedInv, RequestedInv
<1> QED
  BY <1>4, <1>5

\* An orphan block is found.
LEMMA DataRewindOrphan == ASSUME TypeInv, DataInv, RewindOrphan PROVE DataInv'
<1>1. /\ pc = "index" /\ pc' = "read" /\ top = Len(chain) /\ requests = NoDocuments
      /\ oldest = top + 1
  BY DEF RewindOrphan, DataInv, BatchInv, TypeInv, TypeOK
<1>2. UNCHANGED <<target, chain, top, docs, requests, oldest>>
  BY DEF RewindOrphan, blockVars, memoryVars
<1>3. /\ TargetHeight' = TargetHeight /\ TargetHeight \in Nat /\ TargetHeight <= top
      /\ top \in Nat /\ docs \in Documents /\ SlugsUnique(docs.histories)
      /\ docs.histories \in SUBSET History
  BY <1>1, <1>2, TargetFact DEF TargetHeight, TypeInv, TypeOK, ShapeInv, Documents
<1>4. Exact(chain, docs.histories, top) /\ \A k \in Key : Right(docs, k, top)
  BY <1>1, RightNow DEF RightUpTo
<1>5. Exact(chain, docs.histories, TargetHeight)
  <2>1. SameUpTo(chain, chain, TargetHeight)
    BY DEF SameUpTo
  <2> QED
    BY <1>3, <1>4, <2>1, ExactLower
<1>6. \A k \in Key : Right(docs, k, TargetHeight)
  BY <1>3, <1>4, RightLower
<1>7. chain # <<>>
  BY AddressesAssumption DEF RewindOrphan
<1>8. RewoundInv'
  BY <1>1, <1>2, <1>3, <1>5, <1>6, <1>7 DEF RewoundInv
<1> QED
  BY <1>1, <1>2, <1>8 DEF DataInv, BatchInv, PersistedInv, RequestedInv

\* The addresses above the height are read.
LEMMA DataReadAddresses == ASSUME TypeInv, DataInv, ReadAddresses PROVE DataInv'
<1>1. /\ pc = "read" /\ pc' = "delete" /\ TargetHeight' = TargetHeight
      /\ UNCHANGED <<target, chain, top, docs, requests, oldest, rewindTo>>
      /\ chain # <<>>
  BY DEF ReadAddresses, blockVars, memoryVars, TargetHeight, TypeInv, ShapeInv, Rewinding
<1>2. \A k \in Key : docs.addresses[k].height > rewindTo => k \in reset'
  BY DEF ReadAddresses, ToReset
<1>3. RewoundInv'
  BY <1>1, <1>2 DEF DataInv, RewoundInv
<1> QED
  BY <1>1, <1>3 DEF DataInv, BatchInv, PersistedInv, RequestedInv

\* The histories above the height are deleted.
LEMMA DataDeleteHistories == ASSUME TypeInv, DataInv, DeleteHistories PROVE DataInv'
<1>1. /\ pc = "delete" /\ pc' = "reset" /\ TargetHeight' = TargetHeight
      /\ UNCHANGED <<target, chain, top, requests, oldest, rewindTo, reset>>
      /\ chain # <<>> /\ TargetHeight = rewindTo
  BY DEF DeleteHistories, blockVars, memoryVars, TargetHeight, TypeInv, ShapeInv, Rewinding
<1>2. docs'.histories = docs.histories \ Above(docs.histories) /\ docs'.addresses = docs.addresses
  BY DEF DeleteHistories, TypeInv, TypeOK, Documents
<1>3. \A h \in docs.histories : h \in Above(docs.histories) <=> ~ (h.height <= rewindTo)
  BY AddressesAssumption DEF Above, TypeInv, TypeOK, Documents, History
<1>4. \A k \in Key : UpTo(docs'.histories, k, rewindTo) = UpTo(docs.histories, k, rewindTo)
  BY <1>2, <1>3 DEF UpTo
<1>5. RewoundInv'
  <2>1. Exact(chain, docs'.histories, TargetHeight)
    BY <1>1, <1>4 DEF DataInv, RewoundInv, Exact, Key
  <2>2. \A k \in Key : Right(docs', k, TargetHeight)
    BY <1>1, <1>2, <1>4 DEF DataInv, RewoundInv, Right
  <2>3. \A h \in docs'.histories : h.height <= rewindTo
    BY <1>2, <1>3
  <2> QED
    BY <1>1, <1>2, <2>1, <2>2, <2>3 DEF DataInv, RewoundInv
<1> QED
  BY <1>1, <1>5 DEF DataInv, BatchInv, PersistedInv, RequestedInv

\* An address is reset.
LEMMA DataResetAddress == ASSUME SafeSetting, TypeInv, DataInv, ResetAddress PROVE DataInv'
<1>1. /\ pc = "reset" /\ pc' = "reset" /\ TargetHeight' = TargetHeight
      /\ UNCHANGED <<target, chain, top, requests, oldest, rewindTo>>
      /\ chain # <<>> /\ TargetHeight = rewindTo /\ rewindTo \in Nat
  BY AddressesAssumption
     DEF ResetAddress, blockVars, memoryVars, TargetHeight, TypeInv, TypeOK, ShapeInv, Rewinding
<1>2. PICK k \in reset :
         /\ docs' = [docs EXCEPT !.addresses[k] = Latest(HistoriesOf(docs.histories, k))]
         /\ reset' = reset \ {k}
  BY DEF ResetAddress, CanSearch, SafeSetting
<1> DEFINE hs == HistoriesOf(docs.histories, k)
<1>3. /\ k \in Key /\ docs'.histories = docs.histories
      /\ docs'.addresses = [docs.addresses EXCEPT ![k] = Latest(hs)]
      /\ docs'.addresses[k] = Latest(hs)
      /\ \A j \in Key \ {k} : docs'.addresses[j] = docs.addresses[j]
  BY <1>2 DEF TypeInv, TypeOK, Documents
<1>4. hs \in SUBSET History /\ SlugsUnique(hs) /\ OfKey(hs, k) /\ NotAbove(hs, rewindTo)
  BY <1>1 DEF TypeInv, TypeOK, ShapeInv, Documents, HistoriesOf, SlugsUnique, OfKey, NotAbove,
              DataInv, RewoundInv
<1>5. hs = UpTo(docs.histories, k, rewindTo)
  BY <1>4 DEF UpTo, HistoriesOf, NotAbove
<1> HIDE DEF hs
<1>6. ~ (Latest(hs).height > rewindTo)
  <2>1. CASE hs = {}
    BY <1>1, <2>1 DEF Latest, Created
  <2>2. CASE hs # {}
    <3>1. \A h \in hs : h.key = k
      BY <1>4 DEF OfKey
    <3>2. PICK l \in hs : Latest(hs) = [height |-> l.height, balance |-> l.balance]
      BY <1>4, <2>2, <3>1, LatestFact
    <3>3. l.height <= rewindTo /\ l.height \in Nat
      BY <1>4 DEF NotAbove, History
    <3> QED
      BY <1>1, <3>2, <3>3
  <2> QED
    BY <2>1, <2>2
<1>7. RewoundInv'
  <2>1. Exact(chain, docs'.histories, TargetHeight)
    BY <1>1, <1>3 DEF DataInv, RewoundInv
  <2>2. \A j \in Key : Right(docs', j, TargetHeight)
    <3>1. Right(docs', k, TargetHeight)
      BY <1>1, <1>3, <1>5 DEF Right, Agrees
    <3>2. \A j \in Key \ {k} : Right(docs', j, TargetHeight)
      BY <1>1, <1>3 DEF DataInv, RewoundInv, Right
    <3> QED
      BY <3>1, <3>2
  <2>3. \A j \in Key : docs'.addresses[j].height > rewindTo => j \in reset'
    BY <1>1, <1>2, <1>3, <1>6 DEF DataInv, RewoundInv
  <2>4. \A h \in docs'.histories : h.height <= rewindTo
    BY <1>1, <1>3 DEF DataInv, RewoundInv
  <2> QED
    BY <1>1, <2>1, <2>2, <2>3, <2>4 DEF RewoundInv
<1> QED
  BY <1>1, <1>7 DEF DataInv, BatchInv, PersistedInv, RequestedInv

\* No address is left to reset.
LEMMA DataFinishReset == ASSUME TypeInv, DataInv, FinishReset PROVE DataInv'
<1>1. /\ pc = "reset" /\ pc' = "blocks" /\ TargetHeight' = TargetHeight
      /\ UNCHANGED <<target, chain, top, docs, requests, oldest, rewindTo, reset>>
      /\ reset = {} /\ chain # <<>>
  BY DEF FinishReset, blockVars, TargetHeight, TypeInv, ShapeInv, Rewinding
<1>2. RewoundInv'
  BY <1>1 DEF DataInv, RewoundInv
<1> QED
  BY <1>1, <1>2 DEF DataInv, BatchInv, PersistedInv, RequestedInv

\* The blocks are deleted.
LEMMA DataDeleteBlocks == ASSUME TypeInv, DataInv, DeleteBlocks PROVE DataInv'
<1>1. /\ pc = "blocks" /\ chain \in Seq(Blocks) /\ rewindTo = TargetHeight
      /\ rewindTo \in 0 .. Len(chain) /\ rewindTo \in Nat /\ reset = {}
      /\ docs' = docs /\ docs \in Documents /\ target' = target /\ target \in Nat
      /\ requests = NoDocuments /\ phase \in {"boot", "single"} /\ ReindexSize \in Nat \ {0}
  BY TargetFact, AddressesAssumption
     DEF DeleteBlocks, TypeInv, TypeOK, ShapeInv, Rewinding, TargetHeight, DataInv, BatchInv,
         RewoundInv
<1>2. /\ chain' = SubSeq(chain, 1, rewindTo) /\ top' = rewindTo /\ oldest' = rewindTo + 1
      /\ Len(chain') = rewindTo /\ \A i \in 1 .. rewindTo : chain'[i] = chain[i]
  BY <1>1, CutFact DEF DeleteBlocks
<1>3. \A h \in docs.histories : h.height <= rewindTo
  BY <1>1 DEF DataInv, RewoundInv
<1>4. Exact(chain', docs.histories, rewindTo)
  <2>1. Exact(chain, docs.histories, rewindTo) /\ SameUpTo(chain, chain', rewindTo)
    BY <1>1, <1>2 DEF DataInv, RewoundInv, SameUpTo
  <2>2. docs.histories \in SUBSET History
    BY <1>1 DEF Documents
  <2> QED
    BY <1>1, <2>1, <2>2, ExactLower
<1>5. \A k \in Key : Agrees(docs.addresses[k], HistoriesOf(docs.histories, k))
  <2>1. \A k \in Key : UpTo(docs.histories, k, rewindTo) = HistoriesOf(docs.histories, k)
    BY <1>3, AllUpTo
  <2>2. \A k \in Key : ~ (docs.addresses[k].height > rewindTo) /\ Right(docs, k, rewindTo)
    BY <1>1 DEF DataInv, RewoundInv
  <2> QED
    BY <2>1, <2>2 DEF Right
<1>6. CASE rewindTo = 0
  <2>1. pc' = "down" /\ requests' = NoDocuments
    BY <1>6 DEF DeleteBlocks, Die
  <2>2. TargetHeight' = 0
    BY <1>1, <1>2, <1>6 DEF TargetHeight
  <2>3. docs.histories = {}
    BY <1>1, <1>3, <1>6 DEF Documents, History
  <2>4. \A k \in Key : Agrees(docs.addresses[k], {})
    BY <1>5, <2>3 DEF HistoriesOf
  <2>5. \A k \in Key : Right(docs, k, 0)
    BY <2>3, <2>4, NothingIsRight
  <2>6. RewoundInv'
    BY <1>1, <1>4, <1>6, <2>1, <2>2, <2>3, <2>4, <2>5 DEF RewoundInv
  <2> QED
    BY <1>2, <2>1, <2>6 DEF DataInv, BatchInv, PersistedInv, RequestedInv
<1>7. CASE rewindTo # 0
  <2>1. /\ pc' = "index" /\ requests' = requests
        /\ phase' = "batch" => Len(chain') < target
    BY <1>1, <1>7 DEF DeleteBlocks, StartIndex
  <2>2. BatchInv'
    BY <1>1, <1>2, <2>1 DEF BatchInv
  <2>3. PersistedInv'
    BY <1>1, <1>2, <1>3, <1>4, <1>5 DEF PersistedInv
  <2> QED
    BY <1>1, <1>2, <2>1, <2>2, <2>3 DEF DataInv, RequestedInv, RewoundInv
<1> QED
  BY <1>6, <1>7

-----------------------------------------------------------------------------
(* Blocks are indexed and persisted *)

\* The histories of a key after a persist, and the key's document.
LEMMA PersistOfKey ==
    ASSUME SafeSetting, TypeInv, DataInv, Persist, NEW k \in Key
    PROVE  /\ HistoriesOf(docs'.histories, k) =
                 HistoriesOf(requests.histories, k) \cup
                 {h \in HistoriesOf(docs.histories, k) :
                     ~ \E g \in HistoriesOf(requests.histories, k) : SameSlug(g, h)}
           /\ docs'.addresses[k] = IF requests.addresses[k] = None THEN docs.addresses[k]
                                   ELSE requests.addresses[k]
<1>1. /\ docs'.histories = requests.histories \cup
           {h \in docs.histories : ~ \E g \in requests.histories : SameSlug(g, h)}
      /\ docs'.addresses[k] = IF requests.addresses[k] = None THEN docs.addresses[k]
                              ELSE requests.addresses[k]
  BY DEF Persist, Written
<1>2. \A g, h : SameSlug(g, h) => g.key = h.key
  BY DEF SameSlug
<1> QED
  BY <1>1, <1>2 DEF HistoriesOf

\* A persist is due, so the addresses are in it.
LEMMA PersistFact ==
    ASSUME SafeSetting, TypeInv, DataInv, Persist
    PROVE  /\ pc = "index" /\ top < Len(chain) /\ AddressesDue(Len(chain))
           /\ top \in Nat /\ Len(chain) \in 0 .. MaxHeight /\ Len(chain) \in Nat
           /\ docs.histories \in SUBSET History /\ SlugsUnique(docs.histories)
           /\ requests.histories \in SUBSET History /\ SlugsUnique(requests.histories)
<1>1. pc = "index" /\ top < Len(chain) /\ PersistDue
  BY DEF Persist
<1> QED
  BY <1>1, DueFact, TargetFact, AddressesAssumption DEF TypeInv, TypeOK, ShapeInv, Documents

\* After a persist an address has the histories of the whole chain.
LEMMA PersistExact ==
    ASSUME SafeSetting, TypeInv, DataInv, Persist, NEW k \in Address
    PROVE  HistoriesOf(docs'.histories, k) = AddressHistory(chain, 1, Len(chain), k)
<1> DEFINE old == HistoriesOf(docs.histories, k)
           new == HistoriesOf(requests.histories, k)
           all == AddressHistory(chain, 1, Len(chain), k)
<1>1. k \in Key
  BY DEF Key
<1>2. HistoriesOf(docs'.histories, k) = new \cup {h \in old : ~ \E g \in new : SameSlug(g, h)}
  BY <1>1, PersistOfKey
<1>3. new \subseteq all /\ \A h \in all : h.height > top => h \in new
  BY PersistFact DEF DataInv, RequestedInv, HistoriesOf, AddressHistory
<1>4. \A h : h \in old <=> h \in all /\ h.height <= top
  <2>1. UpTo(docs.histories, k, top) = old
    BY PersistFact, AllUpTo DEF DataInv, PersistedInv
  <2>2. old = AddressHistory(chain, 1, top, k)
    BY <2>1, PersistFact DEF DataInv, PersistedInv, Exact
  <2> QED
    BY <2>2, PersistFact, HistoryPart
<1>5. all \in SUBSET History /\ SlugsUnique(all)
  <2>1. 1 \in Nat \ {0} /\ Len(chain) \in 0 .. MaxHeight
    BY PersistFact
  <2> QED
    BY <1>1, <2>1, AddressHistoryType
<1> HIDE DEF old, new, all
<1>6. \A h \in all : h \in new \/ h \in old
  BY <1>3, <1>4, <1>5, PersistFact DEF History
<1>7. \A h \in old : \A g \in new : SameSlug(g, h) => g = h
  BY <1>3, <1>4, <1>5 DEF SlugsUnique
<1>8. new \cup {h \in old : ~ \E g \in new : SameSlug(g, h)} = all
  BY <1>3, <1>4, <1>6, <1>7
<1> QED
  BY <1>2, <1>8 DEF all

\* After a persist an address document agrees with the histories of the address.
LEMMA PersistAgrees ==
    ASSUME SafeSetting, TypeInv, DataInv, Persist, NEW k \in Key
    PROVE  Agrees(docs'.addresses[k], HistoriesOf(docs'.histories, k))
<1> DEFINE old == HistoriesOf(docs.histories, k)
           new == HistoriesOf(requests.histories, k)
           kept == {h \in old : ~ \E g \in new : SameSlug(g, h)}
<1>1. /\ HistoriesOf(docs'.histories, k) = new \cup kept
      /\ docs'.addresses[k] = IF requests.addresses[k] = None THEN docs.addresses[k]
                              ELSE requests.addresses[k]
  BY PersistOfKey
<1>2. \/ new = {} /\ requests.addresses[k] = None
      \/ requests.addresses[k] = Latest(new) /\ \E h \in new : h.height > top
  BY PersistFact DEF DataInv, RequestedInv
<1>3. Agrees(docs.addresses[k], old)
  BY PersistFact DEF DataInv, PersistedInv
<1>4. /\ new \in SUBSET History /\ SlugsUnique(new) /\ OfKey(new, k)
      /\ kept \in SUBSET History /\ NotAbove(kept, top)
  BY PersistFact DEF HistoriesOf, SlugsUnique, OfKey, NotAbove, DataInv, PersistedInv
<1>5. CASE new = {} /\ requests.addresses[k] = None
  <2>1. new \cup kept = old
    BY <1>5
  <2> QED
    BY <1>1, <1>3, <1>5, <2>1
<1>6. CASE requests.addresses[k] = Latest(new) /\ \E h \in new : h.height > top
  <2> HIDE DEF old, new, kept
  <2>1. Reaching(new, top)
    BY <1>6 DEF Reaching
  <2>2. Latest(kept \cup new) = Latest(new) /\ Latest(new).height > top
    BY <1>4, <2>1, PersistFact, LatestOfUnion
  <2>3. Latest(new) # None
    BY <2>2, PersistFact DEF None
  <2>4. kept \cup new = new \cup kept
    OBVIOUS
  <2> QED
    BY <1>1, <1>6, <2>2, <2>3, <2>4 DEF Agrees
<1> QED
  BY <1>2, <1>5, <1>6

\* What waits is persisted.
LEMMA DataPersist ==
    ASSUME SafeSetting, TypeInv, TypeInv', DataInv, Persist
    PROVE  DataInv'
<1>1. /\ pc = "index" /\ pc' = "index" /\ top' = Len(chain) /\ requests' = NoDocuments
      /\ oldest' = Len(chain) + 1 /\ UNCHANGED <<target, chain, phase>>
  BY DEF Persist
<1>2. BatchInv'
  BY <1>1, PersistFact DEF DataInv, BatchInv
<1>3. \A h \in docs'.histories : h.height <= Len(chain)
  <2> SUFFICES ASSUME NEW h \in docs'.histories PROVE h.height <= Len(chain)
    OBVIOUS
  <2>1. h \in History /\ h.key \in Key /\ h \in HistoriesOf(docs'.histories, h.key)
    BY DEF TypeInv, TypeOK, Documents, History, HistoriesOf
  <2>2. CASE h.key \in Address
    BY <2>1, <2>2, PersistExact, HistoryFields, PersistFact
  <2>3. CASE h.key \in MultiSig
    <3>1. h \in HistoriesOf(requests.histories, h.key) \/ h \in HistoriesOf(docs.histories, h.key)
      BY <2>1, PersistOfKey
    <3>2. h \in HistoriesOf(requests.histories, h.key) => h.height = Len(chain)
      BY <2>3, PersistFact DEF DataInv, RequestedInv
    <3>3. h \in HistoriesOf(docs.histories, h.key) => h.height <= top
      BY PersistFact DEF DataInv, PersistedInv, HistoriesOf
    <3> QED
      BY <2>1, <3>1, <3>2, <3>3, PersistFact DEF History
  <2> QED
    BY <2>1, <2>2, <2>3 DEF Key
<1>4. Exact(chain, docs'.histories, Len(chain))
  <2> SUFFICES ASSUME NEW k \in Address
               PROVE  UpTo(docs'.histories, k, Len(chain)) = AddressHistory(chain, 1, Len(chain), k)
    BY DEF Exact
  <2>1. UpTo(docs'.histories, k, Len(chain)) = HistoriesOf(docs'.histories, k)
    BY <1>3, AllUpTo
  <2> QED
    BY <2>1, PersistExact
<1>5. PersistedInv'
  BY <1>1, <1>3, <1>4, PersistAgrees DEF PersistedInv
<1> QED
  BY <1>1, <1>2, <1>5, PersistFact DEF DataInv, RequestedInv, RewoundInv

\* The bulk run is over.
LEMMA DataFinishBulk == ASSUME TypeInv, DataInv, FinishBulk PROVE DataInv'
<1>1. /\ pc = "index" /\ top = Len(chain) /\ phase' = "single" /\ top \in Nat
      /\ UNCHANGED <<target, chain, top, docs, requests, oldest, pc>>
  BY TargetFact DEF FinishBulk, blockVars, memoryVars, TypeInv, TypeOK
<1> QED
  BY <1>1 DEF DataInv, BatchInv, PersistedInv, RequestedInv, RewoundInv

\* A block is added to a chain whose last batch is not complete.
LEMMA IndexFact ==
    ASSUME TypeInv, DataInv, IndexBlock
    PROVE  /\ pc = "index" /\ requests = NoDocuments /\ oldest = top + 1
           /\ UNCHANGED <<target, top, oldest, pc, phase>>
           /\ Len(chain') = Len(chain) + 1 /\ Len(chain) \in Nat /\ top \in 0 .. Len(chain)
           /\ Len(chain') \in 1 .. MaxHeight /\ SameUpTo(chain, chain', Len(chain))
           /\ phase = "single" => top = Len(chain)
           /\ phase = "batch" => /\ Len(chain) < target
                                 /\ \A h \in top + 1 .. Len(chain) : h % BatchSize # 0
           /\ phase \in {"batch", "single"}
<1>1. /\ pc = "index" /\ oldest = top + 1 /\ UNCHANGED <<target, top, oldest, pc, phase>>
      /\ phase \in {"batch", "single"} /\ top \in 0 .. Len(chain) /\ target \in Nat
  BY AddressesAssumption
     DEF IndexBlock, DataInv, BatchInv, TypeInv, TypeOK, ShapeInv
<1>2. PICK b \in Blocks : chain' = Append(chain, b)
  BY DEF IndexBlock
<1>3. /\ Len(chain') = Len(chain) + 1 /\ Len(chain) \in Nat /\ Len(chain') \in 1 .. MaxHeight
      /\ SameUpTo(chain, chain', Len(chain))
  BY <1>2, AddressesAssumption DEF IndexBlock, TypeInv, TypeOK, SameUpTo
<1>4. phase = "single" => top = Len(chain)
  BY DEF IndexBlock
<1>5. phase = "batch" => /\ Len(chain) < target /\ (top = Len(chain) \/ Len(chain) % BatchSize # 0)
                         /\ \A h \in top + 1 .. Len(chain) - 1 : h % BatchSize # 0
  BY <1>1 DEF IndexBlock, DataInv, BatchInv
<1>6. phase = "batch" => \A h \in top + 1 .. Len(chain) : h % BatchSize # 0
  BY <1>1, <1>3, <1>5
<1>7. ~ (top < Len(chain) /\ AddressesDue(Len(chain)))
  BY <1>1, <1>3, <1>4, <1>5 DEF AddressesDue
<1>8. requests = NoDocuments
  BY <1>7 DEF DataInv, BatchInv
<1> QED
  BY <1>1, <1>3, <1>4, <1>5, <1>6, <1>8

\* navcoind is asked about all that is not persisted.
LEMMA FromTop ==
    ASSUME TypeInv, DataInv, IndexBlock, AddressesDue(Len(chain'))
    PROVE  From(Len(chain')) \in Nat \ {0} /\ From(Len(chain')) <= top + 1
<1>1. From(Len(chain')) \in Nat \ {0}
  BY IndexFact, FromFact, AddressesAssumption DEF TypeInv
<1>2. CASE phase = "single"
  BY <1>1, <1>2, IndexFact DEF From
<1>3. CASE phase = "batch"
  <2>1. PICK h \in top + 1 .. top + BatchSize : h % BatchSize = 0
    BY IndexFact, MultipleInBatch
  <2>2. h \notin top + 1 .. Len(chain)
    BY <1>3, <2>1, IndexFact
  <2>3. Len(chain') <= top + BatchSize
    BY <2>1, <2>2, IndexFact, AddressesAssumption
  <2> QED
    BY <1>1, <1>3, <2>3, IndexFact, AddressesAssumption DEF From
<1> QED
  BY <1>2, <1>3, IndexFact

\* What is requested of an address at the end of a batch is all it needs.
LEMMA RequestedOfAddress ==
    ASSUME TypeInv, DataInv, IndexBlock, AddressesDue(Len(chain')), NEW k \in Address
    PROVE  LET all == AddressHistory(chain', 1, Len(chain'), k)
               new == HistoriesOf(NewHistories(chain', Len(chain')), k)
           IN  /\ new \subseteq all
               /\ \A h \in all : h.height > top => h \in new
               /\ new # {} => \E h \in new : h.height > top
<1> DEFINE n == Len(chain')
           all == AddressHistory(chain', 1, n, k)
           part == AddressHistory(chain', From(n), n, k)
           new == HistoriesOf(NewHistories(chain', n), k)
<1>1. /\ n \in 1 .. MaxHeight /\ n \in Nat /\ top \in Nat /\ oldest = top + 1
      /\ From(n) \in Nat \ {0} /\ From(n) <= top + 1
  BY IndexFact, FromTop, AddressesAssumption
<1>2. k \in Key /\ k \notin MultiSig
  BY AddressesAssumption DEF Key
<1>3. new = IF Touches(chain', oldest, n, k) # {} THEN part ELSE {}
  BY <1>1, <1>2, NewOfKey DEF TypeInv
<1>4. \A h : h \in part <=> h \in all /\ h.height >= From(n)
  BY <1>1, HistoryPart
<1>5. \A h \in all : h.height \in Nat /\ Place(h) \in Touches(chain', 1, n, k)
                    /\ Place(h)[1] = h.height
  <2> SUFFICES ASSUME NEW h \in all
               PROVE  h.height \in Nat /\ Place(h) \in Touches(chain', 1, n, k)
                      /\ Place(h)[1] = h.height
    OBVIOUS
  <2>1. h.height \in 1 .. n /\ Place(h) \in Touches(chain', 1, n, k)
    BY HistoryFields
  <2> QED
    BY <1>1, <2>1 DEF Place
<1> HIDE DEF n, all, part, new
<1>6. \A h \in all : h.height > top => h \in new
  <2> SUFFICES ASSUME NEW h \in all, h.height > top PROVE h \in new
    OBVIOUS
  <2>1. Place(h) \in Touches(chain', top + 1, n, k)
    BY <1>1, <1>5, TouchesPart
  <2>2. h \in part
    BY <1>1, <1>4, <1>5
  <2> QED
    BY <1>1, <1>3, <2>1, <2>2
<1>7. new \subseteq all
  BY <1>3, <1>4
<1>8. new # {} => \E h \in new : h.height > top
  <2> SUFFICES ASSUME new # {} PROVE \E h \in new : h.height > top
    OBVIOUS
  <2>1. PICK p : p \in Touches(chain', top + 1, n, k)
    BY <1>1, <1>3
  <2>2. p \in Touches(chain', 1, n, k) /\ p[1] >= top + 1
    BY <1>1, <2>1, TouchesPart
  <2> DEFINE h == HistoryAt(chain', k, p)
  <2>3. h \in all /\ h.height = p[1]
    BY <2>2 DEF all, n, AddressHistory, HistoryAt
  <2>4. h.height > top
    BY <1>1, <1>5, <2>2, <2>3
  <2> QED
    BY <1>6, <2>3, <2>4
<1> QED
  BY <1>6, <1>7, <1>8 DEF all, new, n

\* A block is indexed.
LEMMA DataIndexBlock ==
    ASSUME SafeSetting, TypeInv, TypeInv', DataInv, IndexBlock
    PROVE  DataInv'
<1> DEFINE n == Len(chain')
           N == NewHistories(chain', n)
<1>1. /\ requests'.histories = N /\ requests'.addresses = Values(N)
  <2>1. requests' = Written(NoDocuments, [histories |-> N, addresses |-> Values(N)])
    BY IndexFact DEF IndexBlock
  <2>2. requests'.histories = N
    BY <2>1 DEF Written, NoDocuments
  <2>3. requests'.addresses = [k \in Key |-> Values(N)[k]]
    BY <2>1 DEF Written, NoDocuments, NoAddresses
  <2> QED
    BY <2>2, <2>3 DEF Values
<1>2. n \in Nat /\ n > top /\ top \in Nat /\ n \in 1 .. MaxHeight /\ pc' = "index"
      /\ n = Len(chain) + 1 /\ n - 1 = Len(chain) /\ target \in Nat
  <2>1. target \in Nat
    BY AddressesAssumption DEF TypeInv, TypeOK
  <2>2. Len(chain') \in Nat /\ top \in Nat /\ top <= Len(chain)
    BY IndexFact, AddressesAssumption
  <2> QED
    BY <2>1, <2>2, IndexFact
<1>3. AddressesDue(Len(chain))' <=> AddressesDue(n)
  BY IndexFact DEF AddressesDue
<1>4. BatchInv'
  <2>1. ~ AddressesDue(n) => requests' = NoDocuments
    <3> SUFFICES ASSUME ~ AddressesDue(n) PROVE requests' = NoDocuments
      OBVIOUS
    <3>1. N = {}
      BY DEF NewHistories
    <3>2. Values(N) = NoAddresses
      BY <3>1 DEF Values, Updated, NoAddresses
    <3>3. requests' \in Documents
      BY DEF TypeInv, TypeOK
    <3>4. requests' = [histories |-> requests'.histories, addresses |-> requests'.addresses]
      BY <3>3 DEF Documents
    <3> QED
      BY <1>1, <3>1, <3>2, <3>4 DEF NoDocuments
  <2>2. phase = "single" => n <= top + 1
    BY IndexFact
  <2>3. phase = "batch" => n <= target /\ \A h \in top + 1 .. n - 1 : h % BatchSize # 0
    <3> HIDE DEF n, N
    <3>1. phase = "batch" => /\ Len(chain) < target
                             /\ \A h \in top + 1 .. Len(chain) : h % BatchSize # 0
      BY IndexFact
    <3> QED
      BY <1>2, <3>1, IndexFact
  <2> HIDE DEF N
  <2> QED
    BY <1>2, <1>3, <2>1, <2>2, <2>3, IndexFact DEF BatchInv
<1>5. /\ docs'.histories = docs.histories
      /\ \A k \in Key : \/ docs'.addresses[k] = docs.addresses[k]
                        \/ docs.addresses[k] = None /\ docs'.addresses[k] = Created
  <2> DEFINE A == [k \in Key |-> IF k \in Updated(N) /\ ~ Cached(k) /\ docs.addresses[k] = None
                               THEN Created ELSE docs.addresses[k]]
  <2>1. docs' = [docs EXCEPT !.addresses = A]
    BY DEF IndexBlock, CanSearch, SafeSetting
  <2>2. \A k \in Key : \/ A[k] = docs.addresses[k]
                       \/ docs.addresses[k] = None /\ A[k] = Created
    OBVIOUS
  <2> HIDE DEF A
  <2>3. docs'.histories = docs.histories /\ docs'.addresses = A
    BY <2>1 DEF TypeInv, TypeOK, Documents
  <2> QED
    BY <2>2, <2>3
<1>6. PersistedInv'
  <2>1. Exact(chain', docs.histories, top)
    <3>1. docs.histories \in SUBSET History /\ Exact(chain, docs.histories, top)
      BY IndexFact DEF TypeInv, TypeOK, Documents, DataInv, PersistedInv
    <3>2. SameUpTo(chain, chain', top)
      BY IndexFact DEF SameUpTo
    <3> QED
      BY <1>2, <3>1, <3>2, ExactLower
  <2>2. ASSUME NEW k \in Key
        PROVE  Agrees(docs'.addresses[k], HistoriesOf(docs.histories, k))
    <3> DEFINE hs == HistoriesOf(docs.histories, k)
    <3>1. Agrees(docs.addresses[k], hs)
      BY IndexFact DEF DataInv, PersistedInv
    <3>2. hs \in SUBSET History /\ SlugsUnique(hs) /\ \A h \in hs : h.key = k
      BY DEF TypeInv, TypeOK, ShapeInv, Documents, HistoriesOf, SlugsUnique
    <3> HIDE DEF hs
    <3>3. Latest(hs) # None
      BY <3>2, LatestType
    <3>4. docs.addresses[k] = None => hs = {}
      BY <3>1, <3>3 DEF Agrees
    <3>5. Latest({}) = Created
      BY DEF Latest
    <3> QED
      BY <1>5, <3>1, <3>4, <3>5 DEF Agrees, hs
  <2>3. \A h \in docs.histories : h.height <= top
    BY IndexFact DEF DataInv, PersistedInv
  <2> HIDE DEF n, N
  <2> QED
    BY <1>5, <2>1, <2>2, <2>3, IndexFact DEF PersistedInv
<1>7. RequestedInv'
  <2> HIDE DEF n, N
  <2> SUFFICES ASSUME AddressesDue(n) PROVE RequestedInv'
    BY <1>3 DEF RequestedInv
  <2> USE DEF n, N
  <2>1. ASSUME NEW k \in Address
        PROVE  /\ HistoriesOf(N, k) \subseteq AddressHistory(chain', 1, n, k)
               /\ \A h \in AddressHistory(chain', 1, n, k) : h.height > top => h \in N
    BY RequestedOfAddress DEF HistoriesOf
  <2>2. \A k \in MultiSig : \A h \in HistoriesOf(N, k) : h.height = n
    BY <1>2, NewOfKey, MultiSigHistoryType DEF TypeInv, Key
  <2>3. ASSUME NEW k \in Key
        PROVE  LET hs == HistoriesOf(N, k)
               IN  \/ hs = {} /\ Values(N)[k] = None
                   \/ Values(N)[k] = Latest(hs) /\ \E h \in hs : h.height > top
    <3> DEFINE hs == HistoriesOf(N, k)
    <3>1. Values(N)[k] = IF k \in Updated(N) THEN Latest(hs) ELSE None
      BY DEF Values
    <3>2. k \in Updated(N) <=> hs # {}
      BY DEF Updated, HistoriesOf
    <3>3. hs # {} => \E h \in hs : h.height > top
      <4>1. CASE k \in Address
        BY <4>1, RequestedOfAddress
      <4>2. CASE k \in MultiSig
        BY <1>2, <2>2, <4>2
      <4> QED
        BY <4>1, <4>2 DEF Key
    <3> HIDE DEF hs, N, n
    <3> QED
      BY <3>1, <3>2, <3>3 DEF hs
  <2> HIDE DEF N
  <2> QED
    BY <1>1, <2>1, <2>2, <2>3, IndexFact DEF RequestedInv
<1>8. RewoundInv'
  BY <1>2 DEF RewoundInv
<1> QED
  BY <1>4, <1>6, <1>7, <1>8 DEF DataInv

-----------------------------------------------------------------------------
(* Multi signatures, without a bulk run *)

LEMMA MultiSigsLower ==
    ASSUME NEW c, NEW d, NEW hs \in SUBSET History, NEW m \in Nat, NEW n \in Nat, n <= m,
           MultiSigsExact(c, hs, m), SameUpTo(c, d, n)
    PROVE  MultiSigsExact(d, hs, n)
BY HistoriesLower DEF MultiSigsExact

\* The places where a key is touched up to a height can be counted.
LEMMA TouchesFinite ==
    ASSUME NEW c, NEW k, NEW n \in Nat
    PROVE  IsFiniteSet(Touches(c, 1, n, k))
<1>1. IsFiniteSet(1 .. n) /\ IsFiniteSet(1 .. MaxTxs)
  BY AddressesAssumption, FS_Interval
<1>2. IsFiniteSet((1 .. n) \X (1 .. MaxTxs))
  BY <1>1, FS_Product
<1>3. Touches(c, 1, n, k) \subseteq (1 .. n) \X (1 .. MaxTxs)
  BY DEF Touches
<1> QED
  BY <1>2, <1>3, FS_Subset

\* The latest balance counts all places where the key is touched.
LEMMA LatestBalance ==
    ASSUME NEW c, NEW k \in Key, NEW n \in 0 .. MaxHeight
    PROVE  Latest(AddressHistory(c, 1, n, k)).balance = Cardinality(Touches(c, 1, n, k))
<1> DEFINE hs == AddressHistory(c, 1, n, k)
           T == Touches(c, 1, n, k)
<1>1. hs \in SUBSET History /\ SlugsUnique(hs)
  BY AddressesAssumption, AddressHistoryType
<1>2. \A h \in hs : h.key = k /\ Place(h) \in T /\ h = HistoryAt(c, k, Place(h))
  BY HistoryFields
<1>3. \A p \in T : HistoryAt(c, k, p) \in hs
  BY DEF AddressHistory, HistoryAt
<1>4. CASE hs = {}
  <2>1. T = {}
    BY <1>3, <1>4
  <2> QED
    BY <1>4, <2>1, FS_EmptySet DEF Latest, Created
<1>5. CASE hs # {}
  <2> HIDE DEF hs
  <2>1. PICK l \in hs : /\ \A h \in hs \ {l} : Later(l, h)
                        /\ Latest(hs) = [height |-> l.height, balance |-> l.balance]
    BY <1>1, <1>2, <1>5, LatestFact
  <2>2. Place(l) \in T /\ l = HistoryAt(c, k, Place(l)) /\ l.height \in Int /\ l.tx \in Int
    BY <1>1, <1>2 DEF History
  <2>3. l.balance = BalanceAt(c, k, Place(l)) /\ Latest(hs).balance = l.balance
    BY <2>1, <2>2 DEF HistoryAt
  <2>4. Place(l)[1] = l.height /\ Place(l)[2] = l.tx
    BY DEF Place
  <2>5. l.height \in 1 .. n
    BY <2>2, <2>4, TouchesFact
  <2>6. ASSUME NEW p \in T
        PROVE  /\ p \in Touches(c, 1, l.height, k)
               /\ p[1] < l.height \/ p[2] <= l.tx
    <3> DEFINE h == HistoryAt(c, k, p)
    <3>1. h \in hs /\ h.height = p[1] /\ h.tx = p[2]
      BY <1>3 DEF HistoryAt
    <3>2. p[1] \in 1 .. n /\ p[2] \in 1 .. MaxTxs
      BY TouchesFact
    <3> HIDE DEF h
    <3>3. h = l \/ Later(l, h)
      BY <2>1, <3>1
    <3>4. p[1] <= l.height /\ (p[1] < l.height \/ p[2] <= l.tx)
      BY <2>2, <2>5, <3>1, <3>2, <3>3, AddressesAssumption DEF Later
    <3>5. p \in Touches(c, 1, l.height, k)
      BY <2>5, <3>4, TouchesPart
    <3> QED
      BY <3>4, <3>5
  <2>7. Touches(c, 1, l.height, k) \subseteq T
    BY <2>5, TouchesPart
  <2>8. {q \in Touches(c, 1, l.height, k) : q[1] < l.height \/ q[2] <= l.tx} = T
    BY <2>6, <2>7
  <2> HIDE DEF T
  <2>9. BalanceAt(c, k, Place(l)) = Cardinality(T)
    BY <2>4, <2>8 DEF BalanceAt
  <2> QED
    BY <2>3, <2>9 DEF hs, T
<1> QED
  BY <1>4, <1>5


\* What a block that is indexed requests of a multi signature.
LEMMA RequestedHistories ==
    ASSUME TypeInv, DataInv, IndexBlock
    PROVE  requests'.histories = NewHistories(chain', Len(chain'))
<1>1. requests = NoDocuments
  BY IndexFact
<1> QED
  BY <1>1 DEF IndexBlock, Written, NoDocuments

\* The address that is found has the balance of the indexed blocks.
LEMMA FoundBalance ==
    ASSUME SafeSetting, TypeInv, DataInv, MultiSigInv, IndexBlock, NEW k \in MultiSig
    PROVE  Found(k).balance = Cardinality(Touches(chain, 1, Len(chain), k))
<1> DEFINE hs == HistoriesOf(docs.histories, k)
           a == docs.addresses[k]
<1>1. /\ pc = "index" /\ phase = "single" /\ top = Len(chain) /\ Len(chain) \in 0 .. MaxHeight
      /\ k \in Key /\ docs.histories \in SUBSET History /\ SlugsUnique(docs.histories)
  BY IndexFact, AddressesAssumption
     DEF MultiSigInv, Key, TypeInv, TypeOK, ShapeInv, Documents
<1>2. seen = docs
  BY DEF IndexBlock, CanSearch, SafeSetting
<1>3. hs = AddressHistory(chain, 1, Len(chain), k)
  <2>1. UpTo(docs.histories, k, top) = hs
    BY <1>1, AllUpTo DEF DataInv, PersistedInv
  <2> QED
    BY <1>1, <2>1 DEF MultiSigInv, MultiSigsExact
<1>4. Agrees(a, hs)
  BY <1>1 DEF DataInv, PersistedInv
<1>5. hs \in SUBSET History /\ SlugsUnique(hs) /\ \A h \in hs : h.key = k
  BY <1>1 DEF HistoriesOf, SlugsUnique
<1>6. Found(k) = IF a # None THEN a ELSE Created
  BY <1>1, <1>2 DEF Found, Cached
<1> HIDE DEF hs, a
<1>7. Latest(hs) # None
  BY <1>5, LatestType
<1>8. Latest({}) = Created
  BY DEF Latest
<1>9. Found(k) = Latest(hs)
  BY <1>4, <1>6, <1>7, <1>8 DEF Agrees
<1> QED
  BY <1>1, <1>3, <1>9, LatestBalance

\* Its histories are the ones navcoind would answer for the block.
LEMMA RequestedOfMultiSig ==
    ASSUME SafeSetting, OncePerBlock, TypeInv, TypeInv', DataInv, MultiSigInv, IndexBlock,
           NEW k \in MultiSig
    PROVE  HistoriesOf(requests'.histories, k)
              = AddressHistory(chain', Len(chain'), Len(chain'), k)
<1> DEFINE n == Len(chain')
           T == Touches(chain', n, n, k)
           old == Touches(chain, 1, Len(chain), k)
<1>1. /\ n \in 1 .. MaxHeight /\ n = Len(chain) + 1 /\ Len(chain) \in Nat /\ phase = "single"
      /\ k \in Key /\ SameUpTo(chain, chain', Len(chain)) /\ n \in Nat
  BY IndexFact, AddressesAssumption DEF MultiSigInv, Key
<1>2. HistoriesOf(requests'.histories, k) = MultiSigHistory(chain', n, k)
  <2>1. AddressesDue(n)
    BY <1>1 DEF AddressesDue
  <2>2. HistoriesOf(NewHistories(chain', n), k) = MultiSigHistory(chain', n, k)
    BY <1>1, <2>1, NewOfKey DEF TypeInv
  <2> QED
    BY <2>2, RequestedHistories
<1>3. MultiSigHistory(chain', n, k) =
         {[key |-> k, height |-> n, tx |-> p[2], balance |-> Cardinality(old) + 1] : p \in T}
  BY <1>1, FoundBalance DEF MultiSigHistory
<1>4. old = Touches(chain', 1, Len(chain), k) /\ IsFiniteSet(old)
  BY <1>1, HistoryPrefix, TouchesFinite
<1>5. chain'[n] \in Blocks
  BY <1>1 DEF TypeInv, TypeOK
<1>6. ASSUME NEW p \in T
      PROVE  p[1] = n /\ BalanceAt(chain', k, p) = Cardinality(old) + 1
  <2>1. p[1] = n /\ p = <<p[1], p[2]>> /\ p[2] \in 1 .. MaxTxs
        /\ p[2] \in DOMAIN chain'[n] /\ k \in chain'[n][p[2]]
    <3>1. p[1] \in n .. n
      BY TouchesFact
    <3>2. p[1] = n
      BY <1>1, <3>1
    <3> QED
      BY <3>2, TouchesFact
  <2>2. p \in Touches(chain', 1, n, k)
    BY <1>1, TouchesPart
  <2>3. p \notin old
    BY <1>1, <2>1, TouchesFact
  <2>4. ASSUME NEW q \in Touches(chain', 1, n, k), q # p PROVE q \in old
    <3>1. /\ q[1] \in 1 .. n /\ q = <<q[1], q[2]>>
          /\ q[2] \in DOMAIN chain'[q[1]] /\ k \in chain'[q[1]][q[2]]
      BY TouchesFact
    <3>2. q[1] # n
      <4> SUFFICES ASSUME q[1] = n PROVE FALSE
        OBVIOUS
      <4>1. k \in chain'[n][p[2]] \cap chain'[n][q[2]] \cap MultiSig
        BY <2>1, <3>1
      <4>2. p[2] = q[2]
        BY <1>5, <2>1, <3>1, <4>1 DEF OncePerBlock
      <4> QED
        BY <2>1, <2>4, <3>1, <4>2
    <3>3. q[1] <= Len(chain) /\ Len(chain) <= n
      BY <1>1, <3>1, <3>2
    <3> QED
      BY <1>1, <1>4, <3>3, TouchesPart
  <2>5. \A q \in old : q \in Touches(chain', 1, n, k) /\ q[1] < n
    <3> SUFFICES ASSUME NEW q \in old PROVE q \in Touches(chain', 1, n, k) /\ q[1] < n
      OBVIOUS
    <3>1. q \in Touches(chain', 1, Len(chain), k) /\ Len(chain) <= n
      BY <1>1, <1>4
    <3>2. q[1] \in 1 .. Len(chain)
      BY TouchesFact
    <3> QED
      BY <1>1, <3>1, <3>2, TouchesPart
  <2> HIDE DEF n, T, old
  <2>6. {q \in Touches(chain', 1, n, k) : q[1] < n \/ q[2] <= p[2]} = old \cup {p}
    BY <2>1, <2>2, <2>4, <2>5, AddressesAssumption
  <2>7. BalanceAt(chain', k, p) = Cardinality(old \cup {p})
    BY <2>1, <2>6 DEF BalanceAt
  <2> QED
    BY <1>4, <2>1, <2>3, <2>7, FS_AddElement
<1>7. AddressHistory(chain', n, n, k) =
         {[key |-> k, height |-> p[1], tx |-> p[2], balance |-> BalanceAt(chain', k, p)] : p \in T}
  BY DEF AddressHistory
<1> HIDE DEF n, T, old
<1>8. MultiSigHistory(chain', n, k) = AddressHistory(chain', n, n, k)
  BY <1>3, <1>6, <1>7
<1> QED
  BY <1>2, <1>8 DEF n

\* A block is indexed.
LEMMA MultiSigIndexBlock ==
    ASSUME SafeSetting, OncePerBlock, TypeInv, TypeInv', DataInv, MultiSigInv, IndexBlock
    PROVE  MultiSigInv'
<1>1. /\ pc = "index" /\ pc' = "index" /\ phase' = phase /\ top' = top /\ phase # "batch"
      /\ top = Len(chain) /\ top \in Nat /\ SameUpTo(chain, chain', top)
  BY IndexFact DEF MultiSigInv
<1>2. docs.histories \in SUBSET History /\ docs'.histories = docs.histories
  BY DEF IndexBlock, TypeInv, TypeOK, Documents
<1>3. MultiSigsExact(chain', docs.histories, top)
  BY <1>1, <1>2, MultiSigsLower DEF MultiSigInv
<1> QED
  BY <1>1, <1>2, <1>3, RequestedOfMultiSig DEF MultiSigInv, MultiSigsExact

\* What waits is persisted.
LEMMA MultiSigPersist ==
    ASSUME SafeSetting, TypeInv, TypeInv', DataInv, MultiSigInv, Persist
    PROVE  MultiSigInv'
<1> DEFINE n == Len(chain)
<1>1. /\ pc = "index" /\ pc' = "index" /\ phase' = phase /\ phase # "batch" /\ chain' = chain
      /\ top' = n /\ n = top + 1 /\ top \in Nat /\ n \in Nat /\ top < n
  BY PersistFact DEF Persist, MultiSigInv, DataInv, BatchInv, TypeInv, ShapeInv
<1>2. ASSUME NEW k \in MultiSig
      PROVE  UpTo(docs'.histories, k, n) = AddressHistory(chain, 1, n, k)
  <2> DEFINE old == HistoriesOf(docs.histories, k)
             new == HistoriesOf(requests.histories, k)
             all == AddressHistory(chain, 1, n, k)
  <2>1. k \in Key
    BY DEF Key
  <2>2. \A h : h \in old <=> h \in all /\ h.height <= top
    <3>1. UpTo(docs.histories, k, top) = old
      BY PersistFact, AllUpTo DEF DataInv, PersistedInv
    <3>2. old = AddressHistory(chain, 1, top, k)
      BY <1>1, <3>1 DEF MultiSigInv, MultiSigsExact
    <3> QED
      BY <1>1, <3>2, HistoryPart
  <2>3. \A h : h \in new <=> h \in all /\ h.height >= n
    <3>1. new = AddressHistory(chain, n, n, k)
      BY <1>1 DEF MultiSigInv
    <3> QED
      BY <1>1, <3>1, HistoryPart
  <2>4. \A h \in all : h.height \in 1 .. n
    BY HistoryFields
  <2>5. HistoriesOf(docs'.histories, k) = new \cup {h \in old : ~ \E g \in new : SameSlug(g, h)}
    BY <2>1, PersistOfKey
  <2> HIDE DEF old, new, all
  <2>6. \A h \in old : ~ \E g \in new : SameSlug(g, h)
    BY <1>1, <2>2, <2>3, <2>4 DEF SameSlug
  <2>7. HistoriesOf(docs'.histories, k) = all
    <3>1. \A h \in all : h \in old \/ h \in new
      BY <1>1, <2>2, <2>3, <2>4
    <3> QED
      BY <2>2, <2>3, <2>5, <2>6, <3>1
  <2>8. UpTo(docs'.histories, k, n) = HistoriesOf(docs'.histories, k)
    <3>1. \A h \in HistoriesOf(docs'.histories, k) : h.height <= n
      BY <1>1, <2>4, <2>7
    <3> QED
      BY <3>1 DEF UpTo, HistoriesOf
  <2> QED
    BY <2>7, <2>8 DEF all
<1> QED
  BY <1>1, <1>2 DEF MultiSigInv, MultiSigsExact

\* The process is killed.
LEMMA MultiSigKill ==
    ASSUME SafeSetting, TypeInv, TypeInv', DataInv, MultiSigInv, Kill
    PROVE  MultiSigInv'
<1> DEFINE R == RightUpTo
           T == TargetHeight'
<1>1. pc' = "down" /\ phase' = "boot"
  BY DEF Kill, Die
<1>2. R \in Nat /\ MultiSigsExact(chain, docs.histories, R)
  BY RightNow DEF MultiSigInv, RightUpTo
<1>3. T \in Nat /\ T <= R /\ SameUpTo(chain, chain', T)
  BY KillTarget
<1>4. docs'.histories \in SUBSET History
  BY DEF TypeInv, TypeOK, Documents
<1>5. \A k \in Key : UpTo(docs'.histories, k, R) = UpTo(docs.histories, k, R)
  BY KillLeaves
<1> HIDE DEF R, T
<1>6. MultiSigsExact(chain, docs'.histories, R)
  BY <1>2, <1>5 DEF MultiSigsExact, Key
<1>7. MultiSigsExact(chain', docs'.histories, T)
  BY <1>2, <1>3, <1>4, <1>6, MultiSigsLower
<1> QED
  BY <1>1, <1>7 DEF MultiSigInv, T

\* A rewind begins.
LEMMA MultiSigRewindOrphan ==
    ASSUME TypeInv, DataInv, MultiSigInv, RewindOrphan
    PROVE  MultiSigInv'
<1>1. /\ pc = "index" /\ pc' = "read" /\ UNCHANGED <<chain, docs, phase>> /\ top = Len(chain)
      /\ TargetHeight' = TargetHeight
  BY DEF RewindOrphan, blockVars, TargetHeight
<1>2. /\ TargetHeight \in Nat /\ TargetHeight <= top /\ top \in Nat
      /\ docs.histories \in SUBSET History /\ SameUpTo(chain, chain, TargetHeight)
  BY <1>1, TargetFact DEF TargetHeight, TypeInv, TypeOK, Documents, SameUpTo
<1>3. MultiSigsExact(chain, docs.histories, TargetHeight)
  BY <1>1, <1>2, MultiSigsLower DEF MultiSigInv
<1> QED
  BY <1>1, <1>3 DEF MultiSigInv

\* The histories above the height are deleted.
LEMMA MultiSigDeleteHistories ==
    ASSUME TypeInv, MultiSigInv, DeleteHistories
    PROVE  MultiSigInv'
<1>1. /\ pc = "delete" /\ pc' = "reset" /\ TargetHeight' = TargetHeight
      /\ UNCHANGED <<chain, phase>> /\ TargetHeight = rewindTo
  BY DEF DeleteHistories, blockVars, TargetHeight, TypeInv, ShapeInv, Rewinding
<1>2. docs'.histories = docs.histories \ Above(docs.histories)
  BY DEF DeleteHistories, TypeInv, TypeOK, Documents
<1>3. \A h \in docs.histories : h \in Above(docs.histories) <=> ~ (h.height <= rewindTo)
  BY AddressesAssumption DEF Above, TypeInv, TypeOK, Documents, History
<1>4. \A k : UpTo(docs'.histories, k, rewindTo) = UpTo(docs.histories, k, rewindTo)
  BY <1>2, <1>3 DEF UpTo
<1> QED
  BY <1>1, <1>4 DEF MultiSigInv, MultiSigsExact

\* The blocks above the height are deleted.
LEMMA MultiSigDeleteBlocks ==
    ASSUME TypeInv, DataInv, MultiSigInv, target = 0, DeleteBlocks
    PROVE  MultiSigInv'
<1>1. /\ pc = "blocks" /\ chain \in Seq(Blocks) /\ rewindTo = TargetHeight /\ phase # "batch"
      /\ rewindTo \in 0 .. Len(chain) /\ rewindTo \in Nat /\ ReindexSize \in Nat
      /\ docs' = docs /\ docs.histories \in SUBSET History
  BY TargetFact, AddressesAssumption
     DEF DeleteBlocks, TypeInv, TypeOK, ShapeInv, Rewinding, TargetHeight, Documents, MultiSigInv
<1>2. /\ top' = rewindTo /\ Len(chain') = rewindTo /\ \A i \in 1 .. rewindTo : chain'[i] = chain[i]
  BY <1>1, CutFact DEF DeleteBlocks
<1>3. MultiSigsExact(chain', docs.histories, rewindTo)
  <2>1. MultiSigsExact(chain, docs.histories, rewindTo) /\ SameUpTo(chain, chain', rewindTo)
    BY <1>1, <1>2 DEF MultiSigInv, SameUpTo
  <2> QED
    BY <1>1, <2>1, MultiSigsLower
<1>4. CASE rewindTo = 0
  <2>1. pc' = "down" /\ phase' = "boot" /\ TargetHeight' = 0
    BY <1>1, <1>2, <1>4 DEF DeleteBlocks, Die, TargetHeight
  <2> QED
    BY <1>1, <1>3, <1>4, <2>1 DEF MultiSigInv
<1>5. CASE rewindTo # 0
  <2>1. pc' = "index" /\ phase' # "batch"
    BY <1>1, <1>2, <1>5 DEF DeleteBlocks, StartIndex
  <2> QED
    BY <1>1, <1>2, <1>3, <2>1 DEF MultiSigInv
<1> QED
  BY <1>4, <1>5

\* The process starts.
LEMMA MultiSigStart ==
    ASSUME TypeInv, DataInv, MultiSigInv, target = 0, Start
    PROVE  MultiSigInv'
<1>1. /\ pc = "down" /\ UNCHANGED <<chain, top, docs>> /\ top = Len(chain) /\ phase # "batch"
      /\ TargetHeight' = TargetHeight /\ MultiSigsExact(chain, docs.histories, TargetHeight)
  BY DEF Start, blockVars, TypeInv, ShapeInv, TargetHeight, MultiSigInv
<1>2. CASE chain = <<>>
  <2>1. pc' = "index" /\ phase' # "batch" /\ top = 0 /\ TargetHeight = 0
    BY <1>1, <1>2, AddressesAssumption DEF Start, StartIndex, TargetHeight
  <2> QED
    BY <1>1, <1>2, <2>1 DEF MultiSigInv
<1>3. CASE chain # <<>>
  <2>1. pc' = "read" /\ phase' = phase
    BY <1>3 DEF Start
  <2> QED
    BY <1>1, <2>1 DEF MultiSigInv
<1> QED
  BY <1>2, <1>3

LEMMA MultiSigInit == ASSUME Init PROVE MultiSigInv
<1>1. pc = "down" /\ phase = "boot" /\ docs.histories = {}
  BY DEF Init, NoDocuments
<1>2. Len(chain) = FinalHeight /\ FinalHeight \in Nat /\ TargetHeight \in 0 .. FinalHeight
  BY AddressesAssumption DEF Init, TargetHeight
<1>3. ASSUME NEW k PROVE Touches(chain, 1, TargetHeight, k) = {}
  <2> SUFFICES ASSUME NEW p \in Touches(chain, 1, TargetHeight, k) PROVE FALSE
    OBVIOUS
  <2>1. p[1] \in 1 .. FinalHeight /\ p[2] \in DOMAIN chain[p[1]] /\ k \in chain[p[1]][p[2]]
    BY <1>2, TouchesFact
  <2>2. chain[p[1]] = <<{}>>
    BY <2>1 DEF Init
  <2> QED
    BY <2>1, <2>2
<1>4. MultiSigsExact(chain, docs.histories, TargetHeight)
  BY <1>1, <1>3, NoHistory DEF MultiSigsExact, UpTo
<1> QED
  BY <1>1, <1>4 DEF MultiSigInv

\* Every step keeps the multi signatures exact.
LEMMA SingleNext ==
    ASSUME SafeSetting, AddressInv, AddressInv', SingleInv, [Next]_vars
    PROVE  SingleInv'
<1> SUFFICES ASSUME target' = 0, OncePerBlock PROVE MultiSigInv'
  BY DEF SingleInv
<1>1. target = 0
  BY DEF Next, Refresh, IndexBlock, Persist, FinishBulk, Start, RewindOrphan, ReadAddresses,
         DeleteHistories, ResetAddress, FinishReset, DeleteBlocks, Kill, vars, blockVars
<1>2. MultiSigInv /\ TypeInv /\ TypeInv' /\ DataInv
  BY <1>1 DEF SingleInv, AddressInv
<1>3. CASE Refresh \/ ReadAddresses \/ FinishReset \/ UNCHANGED vars
  <2>1. /\ UNCHANGED <<chain, top, docs, phase, requests>>
        /\ pc' = pc \/ {pc, pc'} \cap {"index"} = {}
    BY <1>3 DEF Refresh, ReadAddresses, FinishReset, vars, blockVars, memoryVars
  <2> QED
    BY <1>2, <2>1 DEF MultiSigInv, MultiSigsExact, TargetHeight
<1>4. CASE ResetAddress
  <2>1. UNCHANGED <<chain, phase, pc>> /\ pc = "reset" /\ docs'.histories = docs.histories
    BY <1>2, <1>4 DEF ResetAddress, blockVars, TypeInv, TypeOK, Documents
  <2> QED
    BY <1>2, <2>1 DEF MultiSigInv, MultiSigsExact, TargetHeight
<1>5. CASE IndexBlock
  BY <1>2, <1>5, MultiSigIndexBlock
<1>6. CASE Persist
  BY <1>2, <1>6, MultiSigPersist
<1>7. CASE FinishBulk
  BY <1>2, <1>7 DEF FinishBulk, MultiSigInv
<1>8. CASE Start
  BY <1>1, <1>2, <1>8, MultiSigStart
<1>9. CASE RewindOrphan
  BY <1>2, <1>9, MultiSigRewindOrphan
<1>10. CASE DeleteHistories
  BY <1>2, <1>10, MultiSigDeleteHistories
<1>11. CASE DeleteBlocks
  BY <1>1, <1>2, <1>11, MultiSigDeleteBlocks
<1>12. CASE Kill
  BY <1>2, <1>12, MultiSigKill
<1> QED
  BY <1>3, <1>4, <1>5, <1>6, <1>7, <1>8, <1>9, <1>10, <1>11, <1>12 DEF Next

-----------------------------------------------------------------------------
(* The invariant and what follows from it *)

\* Every step keeps the invariant, except the kill that LeavesBlock rules out.
LEMMA InvNext ==
    ASSUME SafeSetting, AddressInv, [Next]_vars, [LeavesBlock]_vars
    PROVE  AddressInv'
<1> USE DEF AddressInv
<1>1. TypeInv'
  BY TypeNext
<1>2. CASE Refresh
  <2>1. UNCHANGED <<blockVars, docs, requests, oldest, pc, phase, rewindTo, reset>>
    BY <1>2 DEF Refresh, memoryVars
  <2> QED
    BY <1>1, <2>1
       DEF blockVars, DataInv, BatchInv, PersistedInv, RequestedInv, RewoundInv, TargetHeight,
           AddressesDue
<1>3. CASE IndexBlock
  BY <1>1, <1>3, DataIndexBlock
<1>4. CASE Persist
  BY <1>1, <1>4, DataPersist
<1>5. CASE FinishBulk
  BY <1>1, <1>5, DataFinishBulk
<1>6. CASE Start
  BY <1>1, <1>6, DataStart
<1>7. CASE RewindOrphan
  BY <1>1, <1>7, DataRewindOrphan
<1>8. CASE ReadAddresses
  BY <1>1, <1>8, DataReadAddresses
<1>9. CASE DeleteHistories
  BY <1>1, <1>9, DataDeleteHistories
<1>10. CASE ResetAddress
  BY <1>1, <1>10, DataResetAddress
<1>11. CASE FinishReset
  BY <1>1, <1>11, DataFinishReset
<1>12. CASE DeleteBlocks
  BY <1>1, <1>12, DataDeleteBlocks
<1>13. CASE Kill
  <2>1. kills' # kills
    BY <1>13 DEF Kill, TypeInv, TypeOK
  <2>2. LeavesBlock
    BY <2>1 DEF vars
  <2> QED
    BY <1>1, <1>13, <2>2, DataKill
<1>14. CASE UNCHANGED vars
  <2>1. UNCHANGED <<blockVars, docs, requests, oldest, pc, phase, rewindTo, reset>>
    BY <1>14 DEF vars, memoryVars
  <2> QED
    BY <1>1, <2>1
       DEF blockVars, DataInv, BatchInv, PersistedInv, RequestedInv, RewoundInv, TargetHeight,
           AddressesDue
<1> QED
  BY <1>2, <1>3, <1>4, <1>5, <1>6, <1>7, <1>8, <1>9, <1>10, <1>11, <1>12, <1>13, <1>14 DEF Next

\* Only IndexBlock adds a block.
LEMMA OnlyIndexBlockGrows ==
    ASSUME TypeInv, [Next]_vars, Len(chain') > Len(chain)
    PROVE  IndexBlock
<1>1. /\ chain \in Seq(Blocks) /\ Len(chain) \in Nat /\ top \in 0 .. Len(chain)
      /\ pc = "blocks" => rewindTo \in 0 .. Len(chain)
  BY TargetFact DEF TypeInv, TypeOK, ShapeInv, Rewinding, TargetHeight
<1>2. \A n \in 0 .. Len(chain) : Len(SubSeq(chain, 1, n)) = n
  BY <1>1, CutFact
<1>3. ~ DeleteBlocks
  BY <1>1, <1>2 DEF DeleteBlocks
<1>4. ~ Kill
  <2> SUFFICES ASSUME Kill PROVE FALSE
    OBVIOUS
  <2>1. PICK n \in TopsLeft : chain' = SubSeq(chain, 1, n)
    BY DEF Kill
  <2>2. n \in 0 .. Len(chain)
    BY <1>1, <2>1 DEF TopsLeft
  <2> QED
    BY <1>1, <1>2, <2>1, <2>2
<1>5. chain' # chain
  BY <1>1
<1> QED
  BY <1>3, <1>4, <1>5
     DEF Next, Refresh, Persist, FinishBulk, Start, RewindOrphan, ReadAddresses, DeleteHistories,
         ResetAddress, FinishReset, vars, blockVars

\* When the addresses of a batch are indexed, no history of it is missing.
LEMMA BatchComplete ==
    ASSUME SafeSetting, AddressInv, IndexBlock, AddressesDue(Len(chain')), NEW k \in Address
    PROVE  AddressHistory(chain', From(Len(chain')), Len(chain'), k)
              \subseteq docs.histories \cup requests'.histories
<1> USE DEF AddressInv
<1> DEFINE n == Len(chain')
           all == AddressHistory(chain', 1, n, k)
<1>1. n \in Nat /\ top \in Nat /\ top <= n /\ From(n) \in Nat \ {0} /\ pc = "index"
  BY IndexFact, FromTop, AddressesAssumption
<1> SUFFICES ASSUME NEW h \in AddressHistory(chain', From(n), n, k)
             PROVE  h \in docs.histories \cup requests'.histories
  OBVIOUS
<1>2. h \in all /\ h.height \in 1 .. n
  <2>1. h \in all
    BY <1>1, HistoryPart
  <2> QED
    BY <2>1, HistoryFields
<1>3. CASE h.height > top
  <2>1. h \in NewHistories(chain', n)
    BY <1>2, <1>3, RequestedOfAddress DEF HistoriesOf
  <2>2. NewHistories(chain', n) \subseteq requests'.histories
    BY DEF IndexBlock, Written
  <2> QED
    BY <2>1, <2>2
<1>4. CASE ~ (h.height > top)
  <2>1. h \in AddressHistory(chain', 1, top, k)
    BY <1>1, <1>2, <1>4, HistoryPart
  <2>2. SameUpTo(chain, chain', top)
    BY IndexFact DEF SameUpTo
  <2>3. h \in AddressHistory(chain, 1, top, k)
    <3>1. top \in 0 .. top /\ 1 \in Nat \ {0}
      BY <1>1
    <3> QED
      BY <1>1, <2>1, <2>2, <3>1, HistoryPrefix
  <2>4. h \in UpTo(docs.histories, k, top)
    BY <1>1, <2>3 DEF DataInv, PersistedInv, Exact
  <2> QED
    BY <2>4 DEF UpTo
<1> QED
  BY <1>3, <1>4

\* Documents and chain are in step at every point of the code, in indexing, in a
\* rewind and after a kill: the inductive form of the two theorems below.
THEOREM Invariant == SafeSetting => (Spec /\ [][LeavesBlock]_vars => []AddressInv)
<1> SUFFICES ASSUME SafeSetting PROVE Spec /\ [][LeavesBlock]_vars => []AddressInv
  OBVIOUS
<1>1. Init => AddressInv
  BY TypeInit, DataInit DEF AddressInv
<1>2. AddressInv /\ [Next]_vars /\ [LeavesBlock]_vars => AddressInv'
  BY InvNext
<1> QED
  BY <1>1, <1>2, PTL DEF Spec

\* A history of each transaction that touches an address, and no other, whatever
\* was rewound or killed in between.
THEOREM HistoryCorrect ==
    SafeSetting => (Spec /\ [][LeavesBlock]_vars => []HistoryIsComplete)
<1> SUFFICES ASSUME SafeSetting PROVE Spec /\ [][LeavesBlock]_vars => []HistoryIsComplete
  OBVIOUS
<1>1. AddressInv => HistoryIsComplete
  <2> SUFFICES ASSUME AddressInv, Settled, NEW k \in Address
               PROVE  HistoriesOf(docs.histories, k) = AddressHistory(chain, 1, Len(chain), k)
    BY DEF HistoryIsComplete
  <2>1. pc = "index" /\ top = Len(chain)
    BY DEF Settled
  <2>2. UpTo(docs.histories, k, top) = HistoriesOf(docs.histories, k)
    BY <2>1, AllUpTo DEF AddressInv, DataInv, PersistedInv
  <2> QED
    BY <2>1, <2>2 DEF AddressInv, DataInv, PersistedInv, Exact
<1> QED
  BY <1>1, Invariant, PTL

\* Each address document is the one after the latest history of the address.
THEOREM AddressCorrect ==
    SafeSetting => (Spec /\ [][LeavesBlock]_vars => []AddressIsLatest)
<1> SUFFICES ASSUME SafeSetting PROVE Spec /\ [][LeavesBlock]_vars => []AddressIsLatest
  OBVIOUS
<1>1. AddressInv => AddressIsLatest
  <2> SUFFICES ASSUME AddressInv, Settled, NEW k \in Key
               PROVE  Agrees(docs.addresses[k], HistoriesOf(docs.histories, k))
    BY DEF AddressIsLatest, Agrees
  <2> QED
    BY DEF Settled, AddressInv, DataInv, PersistedInv
<1> QED
  BY <1>1, Invariant, PTL

\* When a batch reports its addresses as complete they are.
THEOREM CompleteCorrect ==
    SafeSetting => (Spec /\ [][LeavesBlock]_vars => AddressIndexComplete)
<1> SUFFICES ASSUME SafeSetting PROVE Spec /\ [][LeavesBlock]_vars => AddressIndexComplete
  OBVIOUS
<1> DEFINE Complete ==
      phase = "batch" /\ Len(chain') > Len(chain) /\ AddressesDue(Len(chain')) =>
         \A k \in Address :
            AddressHistory(chain', From(Len(chain')), Len(chain'), k)
               \subseteq docs.histories \cup requests'.histories
<1>1. AddressInv /\ [Next]_vars => [Complete]_vars
  BY OnlyIndexBlockGrows, BatchComplete DEF AddressInv
<1>2. AddressIndexComplete <=> [][Complete]_vars
  BY DEF AddressIndexComplete
<1> QED
  BY <1>1, <1>2, Invariant, PTL DEF Spec

\* When the rewind of the addresses is over none is above its height.
THEOREM ResetCorrect ==
    SafeSetting => (Spec /\ [][LeavesBlock]_vars => AddressesAreReset)
<1> SUFFICES ASSUME SafeSetting PROVE Spec /\ [][LeavesBlock]_vars => AddressesAreReset
  OBVIOUS
<1> DEFINE Reset == pc = "reset" /\ pc' = "blocks" =>
                       \A k \in Key : docs.addresses[k].height <= rewindTo
<1>1. AddressInv /\ [Next]_vars => [Reset]_vars
  <2> SUFFICES ASSUME AddressInv, Next, pc = "reset", pc' = "blocks", NEW k \in Key
               PROVE  docs.addresses[k].height <= rewindTo
    OBVIOUS
  <2>1. FinishReset
    BY DEF Next, Refresh, IndexBlock, Persist, FinishBulk, Start, RewindOrphan, ReadAddresses,
           DeleteHistories, ResetAddress, DeleteBlocks, Kill, Die
  <2>2. k \notin reset
    BY <2>1 DEF FinishReset
  <2>3. ~ (docs.addresses[k].height > rewindTo)
    BY <2>2 DEF AddressInv, DataInv, RewoundInv
  <2>4. docs.addresses[k].height \in Int /\ rewindTo \in Nat
    BY AddressesAssumption DEF AddressInv, TypeInv, TypeOK, Documents, AddressDoc, None
  <2> QED
    BY <2>3, <2>4
<1>2. AddressesAreReset <=> [][Reset]_vars
  BY DEF AddressesAreReset
<1> QED
  BY <1>1, <1>2, Invariant, PTL DEF Spec

\* The balance of a multi signature, which is computed from what a search finds,
\* is the number of times it was touched, through rewinds and kills.
THEOREM MultiSigCorrect ==
    SafeSetting /\ OncePerBlock => (Spec /\ [][LeavesBlock]_vars => []MultiSigBalance)
<1> SUFFICES ASSUME SafeSetting, OncePerBlock
             PROVE  Spec /\ [][LeavesBlock]_vars => []MultiSigBalance
  OBVIOUS
<1>1. Init => SingleInv
  BY MultiSigInit DEF SingleInv
<1>2. AddressInv /\ AddressInv' /\ SingleInv /\ [Next]_vars => SingleInv'
  BY SingleNext
<1>3. AddressInv /\ SingleInv => MultiSigBalance
  <2> SUFFICES ASSUME AddressInv, SingleInv, Settled, target = 0, NEW k \in MultiSig
               PROVE  Latest(HistoriesOf(docs.histories, k)).balance
                         = Cardinality(Touches(chain, 1, Len(chain), k))
    BY DEF MultiSigBalance
  <2>1. pc = "index" /\ top = Len(chain) /\ Len(chain) \in 0 .. MaxHeight /\ k \in Key
    BY AddressesAssumption DEF Settled, AddressInv, TypeInv, TypeOK, Key
  <2>2. UpTo(docs.histories, k, top) = HistoriesOf(docs.histories, k)
    BY <2>1, AllUpTo DEF AddressInv, DataInv, PersistedInv
  <2>3. HistoriesOf(docs.histories, k) = AddressHistory(chain, 1, Len(chain), k)
    BY <2>1, <2>2 DEF SingleInv, MultiSigInv, MultiSigsExact
  <2> QED
    BY <2>1, <2>3, LatestBalance
<1> QED
  BY <1>1, <1>2, <1>3, Invariant, PTL DEF Spec
===============================================================================
