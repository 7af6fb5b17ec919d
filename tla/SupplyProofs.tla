------------------------------ MODULE SupplyProofs ------------------------------
\* Proofs about the supply the block documents carry (service/block/indexer.go,
\* updateSupply): it is the coins in the outputs no block of the index spends,
\* and it changes by what the accounts of a block say (createBlockTransaction).
EXTENDS TransactionsProofs, Functions

-----------------------------------------------------------------------------
(* Sums over finite sets, and sums that wrap around *)

\* A set that holds each part of S of which it holds all smaller parts holds S.
LEMMA SubsetInduction ==
    ASSUME NEW S, IsFiniteSet(S), NEW F,
           \A T \in SUBSET S : (\A U \in SUBSET T : U # T => U \in F) => T \in F
    PROVE  \A T \in SUBSET S : T \in F
<1> DEFINE Lacks == {T \in SUBSET S : T \notin F}
<1>1. SUFFICES ASSUME Lacks # {} PROVE FALSE
  OBVIOUS
<1>2. IsWellFoundedOn(StrictSubsetOrdering(S), SUBSET S)
  BY FS_StrictSubsetOrderingWellFounded, FS_FiniteSubsetsOfFinite
<1>3. PICK T \in Lacks : \A U \in Lacks : <<U, T>> \notin StrictSubsetOrdering(S)
  <2>1. Lacks \subseteq SUBSET S
    OBVIOUS
  <2> HIDE DEF Lacks
  <2> QED
    BY <1>1, <1>2, <2>1, WFMin
<1>4. \A U \in SUBSET T : U # T => U \in F
  BY <1>3 DEF StrictSubsetOrdering
<1> QED
  BY <1>3, <1>4

\* The fold of MapThenSumSet, for the values of a function.
Some(s) == CHOOSE x \in s : TRUE

IsSum(g, v, S) ==
    g = [s \in SUBSET S |-> IF s = {} THEN 0 ELSE v[Some(s)] + g[s \ {Some(s)}]]

LEMMA SumUnfolded ==
    ASSUME NEW v, NEW S
    PROVE  SumFunctionOnSet(v, S) = (CHOOSE g : IsSum(g, v, S))[S]
BY DEF SumFunctionOnSet, FoldFunctionOnSet, MapThenFoldSet, IsSum, Some

LEMMA SomeFact ==
    ASSUME NEW s, s # {}
    PROVE  Some(s) \in s
BY DEF Some

\* Two sums agree on what both are of.
LEMMA SumUnique ==
    ASSUME NEW v, NEW g, NEW h, NEW S, NEW U, IsFiniteSet(U), IsSum(g, v, S), IsSum(h, v, U),
           U \subseteq S
    PROVE  \A T \in SUBSET U : g[T] = h[T]
<1> DEFINE F == {T \in SUBSET U : g[T] = h[T]}
<1>1. ASSUME NEW T \in SUBSET U, \A W \in SUBSET T : W # T => W \in F PROVE T \in F
  <2>1. CASE T = {}
    BY <2>1 DEF IsSum
  <2>2. CASE T # {}
    <3>1. Some(T) \in T
      BY <2>2, SomeFact
    <3>2. T \ {Some(T)} \in F
      BY <1>1, <3>1
    <3>3. g[T] = v[Some(T)] + g[T \ {Some(T)}] /\ h[T] = v[Some(T)] + h[T \ {Some(T)}]
      BY <2>2 DEF IsSum
    <3> QED
      BY <3>2, <3>3
  <2> QED
    BY <2>1, <2>2
<1> HIDE DEF F
<1>2. \A T \in SUBSET U : T \in F
  BY <1>1, SubsetInduction
<1> QED
  BY <1>2 DEF F

Value(v, s) == (CHOOSE g : IsSum(g, v, s))[s]

Added(v, s) == IF s = {} THEN 0 ELSE v[Some(s)] + Value(v, s \ {Some(s)})

\* What a sum is of a set less one element, if there is one.
LEMMA ValueFact ==
    ASSUME NEW v, NEW s, IsFiniteSet(s), \E g : IsSum(g, v, s),
           \A t \in SUBSET s : t # s => \E g : IsSum(g, v, t)
    PROVE  Value(v, s) = Added(v, s)
<1> DEFINE g == CHOOSE g : IsSum(g, v, s)
<1>1. IsSum(g, v, s)
  OBVIOUS
<1> HIDE DEF g
<1>2. g[s] = IF s = {} THEN 0 ELSE v[Some(s)] + g[s \ {Some(s)}]
  BY <1>1 DEF IsSum
<1>3. Value(v, s) = g[s]
  BY DEF Value, g
<1>4. CASE s = {}
  BY <1>2, <1>3, <1>4 DEF Added
<1>5. CASE s # {}
  <2> DEFINE t == s \ {Some(s)}
             h == CHOOSE h : IsSum(h, v, t)
  <2>1. t \in SUBSET s /\ t # s
    BY <1>5, SomeFact
  <2>2. IsSum(h, v, t)
    BY <2>1
  <2>3. IsFiniteSet(t)
    BY FS_RemoveElement
  <2>4. h[t] = Value(v, t)
    BY DEF Value
  <2> HIDE DEF h, t
  <2>5. g[t] = h[t]
    BY <1>1, <2>1, <2>2, <2>3, SumUnique
  <2> QED
    BY <1>2, <1>3, <1>5, <2>4, <2>5 DEF Added, t
<1> QED
  BY <1>4, <1>5

LEMMA SumExists ==
    ASSUME NEW v, NEW S, IsFiniteSet(S)
    PROVE  \A T \in SUBSET S : \E g : IsSum(g, v, T)
<1> DEFINE F == {T \in SUBSET S : \E g : IsSum(g, v, T)}
<1>1. ASSUME NEW T \in SUBSET S, \A U \in SUBSET T : U # T => U \in F PROVE T \in F
  <2> DEFINE g == [s \in SUBSET T |-> Added(v, s)]
  <2>1. ASSUME NEW s \in SUBSET T, s # {} PROVE g[s \ {Some(s)}] = Value(v, s \ {Some(s)})
    <3> DEFINE t == s \ {Some(s)}
    <3>1. Some(s) \in s
      BY <2>1, SomeFact
    <3>2. t \in SUBSET T /\ t # T /\ \A u \in SUBSET t : u \in SUBSET T /\ u # T
      BY <3>1
    <3>3. IsFiniteSet(t)
      BY <3>2, FS_Subset
    <3>4. \A u \in SUBSET t : \E h : IsSum(h, v, u)
      BY <1>1, <3>2
    <3> HIDE DEF t
    <3>5. Value(v, t) = Added(v, t)
      BY <3>3, <3>4, ValueFact
    <3> QED
      BY <3>2, <3>5 DEF t
  <2>2. g = [s \in SUBSET T |-> IF s = {} THEN 0 ELSE v[Some(s)] + g[s \ {Some(s)}]]
    <3> DEFINE e == [s \in SUBSET T |-> IF s = {} THEN 0 ELSE v[Some(s)] + g[s \ {Some(s)}]]
    <3>1. \A s \in SUBSET T : g[s] = e[s]
      BY <2>1 DEF Added
    <3> QED
      BY <3>1
  <2>3. IsSum(g, v, T)
    BY <2>2 DEF IsSum
  <2> HIDE DEF g
  <2> QED
    BY <2>3
<1> HIDE DEF F
<1>2. \A T \in SUBSET S : T \in F
  BY <1>1, SubsetInduction
<1> QED
  BY <1>2 DEF F

\* The sum of a finite set, as it is computed.
LEMMA SumStep ==
    ASSUME NEW v, NEW S, IsFiniteSet(S)
    PROVE  /\ S = {} => SumFunctionOnSet(v, S) = 0
           /\ S # {} => SumFunctionOnSet(v, S) = v[Some(S)] + SumFunctionOnSet(v, S \ {Some(S)})
<1>1. Value(v, S) = Added(v, S)
  BY SumExists, ValueFact
<1>2. \A T : SumFunctionOnSet(v, T) = Value(v, T)
  BY SumUnfolded DEF Value
<1> QED
  BY <1>1, <1>2 DEF Added

LEMMA SumType ==
    ASSUME NEW v, NEW S, IsFiniteSet(S), \A x \in S : v[x] \in Int
    PROVE  SumFunctionOnSet(v, S) \in Int
<1> DEFINE F == {T \in SUBSET S : SumFunctionOnSet(v, T) \in Int}
<1>1. ASSUME NEW T \in SUBSET S, \A U \in SUBSET T : U # T => U \in F PROVE T \in F
  <2>1. IsFiniteSet(T)
    BY FS_Subset
  <2>2. CASE T = {}
    <3>1. SumFunctionOnSet(v, T) = 0
      BY <2>1, <2>2, SumStep
    <3> QED
      BY <3>1
  <2>3. CASE T # {}
    <3>1. Some(T) \in T
      BY <2>3, SomeFact
    <3>2. SumFunctionOnSet(v, T \ {Some(T)}) \in Int
      BY <1>1, <3>1
    <3>3. SumFunctionOnSet(v, T) = v[Some(T)] + SumFunctionOnSet(v, T \ {Some(T)})
      BY <2>1, <2>3, SumStep
    <3> QED
      BY <3>1, <3>2, <3>3
  <2> QED
    BY <2>2, <2>3
<1> HIDE DEF F
<1>2. S \in F
  BY <1>1, SubsetInduction
<1> QED
  BY <1>2 DEF F

\* Any element may be taken out.
LEMMA SumRemove ==
    ASSUME NEW v, NEW S, IsFiniteSet(S), \A x \in S : v[x] \in Int
    PROVE  \A x \in S : SumFunctionOnSet(v, S) = v[x] + SumFunctionOnSet(v, S \ {x})
<1> DEFINE F == {T \in SUBSET S : \A x \in T : SumFunctionOnSet(v, T) = v[x] + SumFunctionOnSet(v, T \ {x})}
<1>0. \A T \in SUBSET S : IsFiniteSet(T) /\ SumFunctionOnSet(v, T) \in Int
  BY SumType, FS_Subset
<1>1. ASSUME NEW T \in SUBSET S, \A U \in SUBSET T : U # T => U \in F PROVE T \in F
  <2> SUFFICES ASSUME NEW x \in T PROVE SumFunctionOnSet(v, T) = v[x] + SumFunctionOnSet(v, T \ {x})
    OBVIOUS
  <2> DEFINE y == Some(T)
  <2>1. y \in T /\ SumFunctionOnSet(v, T) = v[y] + SumFunctionOnSet(v, T \ {y})
    BY <1>0, SomeFact, SumStep
  <2> HIDE DEF y
  <2>2. CASE x = y
    BY <2>1, <2>2
  <2>3. CASE x # y
    <3>1. T \ {y} \in F /\ T \ {x} \in F
      BY <1>1, <2>1
    <3>2. SumFunctionOnSet(v, T \ {y}) = v[x] + SumFunctionOnSet(v, (T \ {y}) \ {x})
      BY <2>3, <3>1
    <3>3. SumFunctionOnSet(v, T \ {x}) = v[y] + SumFunctionOnSet(v, (T \ {x}) \ {y})
      BY <2>1, <2>3, <3>1
    <3>4. (T \ {y}) \ {x} = (T \ {x}) \ {y}
      OBVIOUS
    <3> DEFINE r == SumFunctionOnSet(v, (T \ {x}) \ {y})
    <3>5. r \in Int
      BY <1>0
    <3> HIDE DEF r
    <3>6. SumFunctionOnSet(v, T) = v[y] + (v[x] + r) /\ SumFunctionOnSet(v, T \ {x}) = v[y] + r
      BY <2>1, <3>2, <3>3, <3>4 DEF r
    <3>7. v[x] \in Int /\ v[y] \in Int
      BY <2>1
    <3> QED
      BY <3>5, <3>6, <3>7
  <2> QED
    BY <2>2, <2>3
<1> HIDE DEF F
<1>2. S \in F
  BY <1>1, SubsetInduction
<1> QED
  BY <1>2 DEF F

LEMMA SumEmpty == \A v : SumFunctionOnSet(v, {}) = 0
BY SumStep, FS_EmptySet

LEMMA SumAdd ==
    ASSUME NEW v, NEW S, IsFiniteSet(S), \A x \in S : v[x] \in Int,
           NEW y, y \notin S, v[y] \in Int
    PROVE  SumFunctionOnSet(v, S \cup {y}) = v[y] + SumFunctionOnSet(v, S)
<1> DEFINE T == S \cup {y}
<1>1. IsFiniteSet(T) /\ \A x \in T : v[x] \in Int
  BY FS_AddElement
<1>2. T \ {y} = S /\ y \in T
  OBVIOUS
<1> HIDE DEF T
<1>3. SumFunctionOnSet(v, T) = v[y] + SumFunctionOnSet(v, T \ {y})
  BY <1>1, <1>2, SumRemove
<1> QED
  BY <1>2, <1>3 DEF T

\* Induction for sets that grow by one element.
LEMMA FiniteInduction ==
    ASSUME NEW S, IsFiniteSet(S), NEW F, {} \in F,
           \A T \in SUBSET S : \A x \in S \ T : T \in F => T \cup {x} \in F
    PROVE  \A T \in SUBSET S : T \in F
<1>1. ASSUME NEW T \in SUBSET S, \A U \in SUBSET T : U # T => U \in F PROVE T \in F
  <2>1. CASE T = {}
    BY <2>1
  <2>2. CASE T # {}
    <3>1. PICK x : x \in T
      BY <2>2
    <3> DEFINE U == T \ {x}
    <3>2. U \in SUBSET T /\ U # T /\ U \in SUBSET S /\ x \in S \ U /\ T = U \cup {x}
      BY <3>1
    <3> HIDE DEF U
    <3>3. U \in F
      BY <1>1, <3>2
    <3> QED
      BY <3>2, <3>3
  <2> QED
    BY <2>1, <2>2
<1> QED
  BY <1>1, SubsetInduction

\* Values that are the sums of two others.
LEMMA SumPlus ==
    ASSUME NEW u, NEW v, NEW w, NEW S, IsFiniteSet(S),
           \A x \in S : v[x] \in Int /\ w[x] \in Int /\ u[x] = v[x] + w[x]
    PROVE  SumFunctionOnSet(u, S) = SumFunctionOnSet(v, S) + SumFunctionOnSet(w, S)
<1> DEFINE F == {T \in SUBSET S : SumFunctionOnSet(u, T) = SumFunctionOnSet(v, T) + SumFunctionOnSet(w, T)}
<1>1. {} \in F
  BY SumEmpty
<1>2. ASSUME NEW T \in SUBSET S, NEW x \in S \ T, T \in F PROVE T \cup {x} \in F
  <2>1. IsFiniteSet(T) /\ \A y \in T : v[y] \in Int /\ w[y] \in Int /\ u[y] \in Int
    BY FS_Subset
  <2>2. u[x] \in Int /\ v[x] \in Int /\ w[x] \in Int /\ u[x] = v[x] + w[x]
    OBVIOUS
  <2>3. /\ SumFunctionOnSet(u, T \cup {x}) = u[x] + SumFunctionOnSet(u, T)
        /\ SumFunctionOnSet(v, T \cup {x}) = v[x] + SumFunctionOnSet(v, T)
        /\ SumFunctionOnSet(w, T \cup {x}) = w[x] + SumFunctionOnSet(w, T)
    BY <2>1, <2>2, SumAdd
  <2>4. SumFunctionOnSet(u, T) \in Int /\ SumFunctionOnSet(v, T) \in Int /\ SumFunctionOnSet(w, T) \in Int
    BY <2>1, SumType
  <2>5. SumFunctionOnSet(u, T) = SumFunctionOnSet(v, T) + SumFunctionOnSet(w, T)
    BY <1>2
  <2>6. SumFunctionOnSet(u, T \cup {x}) = SumFunctionOnSet(v, T \cup {x}) + SumFunctionOnSet(w, T \cup {x})
    BY <2>2, <2>3, <2>4, <2>5
  <2> QED
    BY <2>6
<1> HIDE DEF F
<1>3. S \in F
  BY <1>1, <1>2, FiniteInduction
<1> QED
  BY <1>3 DEF F

LEMMA SumZero ==
    ASSUME NEW v, NEW S, IsFiniteSet(S), \A x \in S : v[x] = 0
    PROVE  SumFunctionOnSet(v, S) = 0
<1> DEFINE F == {T \in SUBSET S : SumFunctionOnSet(v, T) = 0}
<1>1. {} \in F
  BY SumEmpty
<1>2. ASSUME NEW T \in SUBSET S, NEW x \in S \ T, T \in F PROVE T \cup {x} \in F
  <2>1. IsFiniteSet(T) /\ \A y \in T : v[y] \in Int
    BY FS_Subset
  <2>2. SumFunctionOnSet(v, T \cup {x}) = v[x] + SumFunctionOnSet(v, T)
    BY <2>1, SumAdd
  <2>3. SumFunctionOnSet(v, T) = 0 /\ v[x] = 0
    BY <1>2
  <2> QED
    BY <2>2, <2>3
<1> HIDE DEF F
<1>3. S \in F
  BY <1>1, <1>2, FiniteInduction
<1> QED
  BY <1>3 DEF F

\* Only the values of the elements count.
LEMMA SumSame ==
    ASSUME NEW v, NEW w, NEW S, IsFiniteSet(S), \A x \in S : v[x] \in Int /\ v[x] = w[x]
    PROVE  SumFunctionOnSet(v, S) = SumFunctionOnSet(w, S)
<1> DEFINE z == [x \in S |-> 0]
<1>1. SumFunctionOnSet(z, S) = 0
  BY SumZero
<1>2. \A x \in S : w[x] \in Int /\ z[x] \in Int /\ v[x] = w[x] + z[x]
  OBVIOUS
<1> HIDE DEF z
<1>3. SumFunctionOnSet(v, S) = SumFunctionOnSet(w, S) + SumFunctionOnSet(z, S)
  BY <1>2, SumPlus
<1>4. SumFunctionOnSet(w, S) \in Int
  BY SumType
<1> QED
  BY <1>1, <1>3, <1>4

LEMMA SumNat ==
    ASSUME NEW v, NEW S, IsFiniteSet(S), \A x \in S : v[x] \in Nat
    PROVE  SumFunctionOnSet(v, S) \in Nat
<1> DEFINE F == {T \in SUBSET S : SumFunctionOnSet(v, T) \in Nat}
<1>1. {} \in F
  BY SumEmpty
<1>2. ASSUME NEW T \in SUBSET S, NEW x \in S \ T, T \in F PROVE T \cup {x} \in F
  <2>1. IsFiniteSet(T) /\ \A y \in T : v[y] \in Int
    BY FS_Subset
  <2>2. SumFunctionOnSet(v, T \cup {x}) = v[x] + SumFunctionOnSet(v, T)
    BY <2>1, SumAdd
  <2>3. SumFunctionOnSet(v, T) \in Nat /\ v[x] \in Nat
    BY <1>2
  <2> QED
    BY <2>2, <2>3
<1> HIDE DEF F
<1>3. S \in F
  BY <1>1, <1>2, FiniteInduction
<1> QED
  BY <1>3 DEF F

LEMMA SumUnion ==
    ASSUME NEW v, NEW S, NEW U, IsFiniteSet(S), IsFiniteSet(U), S \cap U = {},
           \A x \in S \cup U : v[x] \in Int
    PROVE  SumFunctionOnSet(v, S \cup U) = SumFunctionOnSet(v, S) + SumFunctionOnSet(v, U)
<1> DEFINE F == {T \in SUBSET U : SumFunctionOnSet(v, S \cup T) = SumFunctionOnSet(v, S) + SumFunctionOnSet(v, T)}
<1>1. {} \in F
  <2>1. SumFunctionOnSet(v, S) \in Int
    BY SumType
  <2>2. S \cup {} = S
    OBVIOUS
  <2> QED
    BY <2>1, <2>2, SumEmpty
<1>2. ASSUME NEW T \in SUBSET U, NEW x \in U \ T, T \in F PROVE T \cup {x} \in F
  <2>1. IsFiniteSet(T) /\ (\A y \in T : v[y] \in Int) /\ x \notin T /\ v[x] \in Int
    BY FS_Subset
  <2>2. IsFiniteSet(S \cup T) /\ (\A y \in S \cup T : v[y] \in Int) /\ x \notin S \cup T
    BY <2>1, FS_Union
  <2>3. SumFunctionOnSet(v, (S \cup T) \cup {x}) = v[x] + SumFunctionOnSet(v, S \cup T)
    BY <2>1, <2>2, SumAdd
  <2>4. SumFunctionOnSet(v, T \cup {x}) = v[x] + SumFunctionOnSet(v, T)
    BY <2>1, SumAdd
  <2>5. SumFunctionOnSet(v, S) \in Int /\ SumFunctionOnSet(v, T) \in Int
    BY <2>1, SumType
  <2>6. SumFunctionOnSet(v, S \cup T) = SumFunctionOnSet(v, S) + SumFunctionOnSet(v, T)
    BY <1>2
  <2>7. SumFunctionOnSet(v, (S \cup T) \cup {x}) = SumFunctionOnSet(v, S) + SumFunctionOnSet(v, T \cup {x})
    BY <2>1, <2>3, <2>4, <2>5, <2>6
  <2>8. (S \cup T) \cup {x} = S \cup (T \cup {x})
    OBVIOUS
  <2> QED
    BY <2>7, <2>8
<1> HIDE DEF F
<1>3. U \in F
  BY <1>1, <1>2, FiniteInduction
<1> QED
  BY <1>3 DEF F

\* Elements that count for nothing may be left out.
LEMMA SumPart ==
    ASSUME NEW v, NEW w, NEW S, NEW T, IsFiniteSet(S), T \subseteq S,
           \A x \in T : v[x] \in Int /\ w[x] = v[x], \A x \in S \ T : w[x] = 0
    PROVE  SumFunctionOnSet(w, S) = SumFunctionOnSet(v, T)
<1>1. IsFiniteSet(T) /\ IsFiniteSet(S \ T) /\ T \cap (S \ T) = {} /\ S = T \cup (S \ T)
  BY FS_Subset
<1>2. SumFunctionOnSet(w, S) = SumFunctionOnSet(w, T) + SumFunctionOnSet(w, S \ T)
  <2>1. \A x \in T \cup (S \ T) : w[x] \in Int
    OBVIOUS
  <2> QED
    BY <1>1, <2>1, SumUnion
<1>3. SumFunctionOnSet(w, S \ T) = 0
  BY <1>1, SumZero
<1>4. SumFunctionOnSet(w, T) = SumFunctionOnSet(v, T) /\ SumFunctionOnSet(v, T) \in Int
  BY <1>1, SumSame, SumType
<1> QED
  BY <1>2, <1>3, <1>4

\* Values that are the differences of two others.
LEMMA SumMinus ==
    ASSUME NEW u, NEW v, NEW w, NEW S, IsFiniteSet(S),
           \A x \in S : v[x] \in Int /\ w[x] \in Int /\ u[x] = v[x] - w[x]
    PROVE  SumFunctionOnSet(u, S) = SumFunctionOnSet(v, S) - SumFunctionOnSet(w, S)
<1>1. \A x \in S : u[x] \in Int /\ w[x] \in Int /\ v[x] = u[x] + w[x]
  OBVIOUS
<1>2. SumFunctionOnSet(v, S) = SumFunctionOnSet(u, S) + SumFunctionOnSet(w, S)
  BY <1>1, SumPlus
<1>3. /\ SumFunctionOnSet(u, S) \in Int /\ SumFunctionOnSet(v, S) \in Int
      /\ SumFunctionOnSet(w, S) \in Int
  BY <1>1, SumType
<1> QED
  BY <1>2, <1>3

\* A part of natural numbers is not more than the whole.
LEMMA SumLess ==
    ASSUME NEW v, NEW S, NEW T, IsFiniteSet(S), T \subseteq S, \A x \in S : v[x] \in Nat
    PROVE  SumFunctionOnSet(v, T) <= SumFunctionOnSet(v, S)
<1>1. IsFiniteSet(T) /\ IsFiniteSet(S \ T) /\ T \cap (S \ T) = {} /\ S = T \cup (S \ T)
  BY FS_Subset
<1>2. \A x \in T \cup (S \ T) : v[x] \in Int
  OBVIOUS
<1>3. SumFunctionOnSet(v, S) = SumFunctionOnSet(v, T) + SumFunctionOnSet(v, S \ T)
  BY <1>1, <1>2, SumUnion
<1>4. SumFunctionOnSet(v, T) \in Nat /\ SumFunctionOnSet(v, S \ T) \in Nat
  BY <1>1, SumNat
<1> QED
  BY <1>3, <1>4

Image(f, S) == {f[x] : x \in S}

LEMMA FiniteImage ==
    ASSUME NEW f, NEW S, IsFiniteSet(S)
    PROVE  IsFiniteSet(Image(f, S))
<1> DEFINE F == {T \in SUBSET S : IsFiniteSet(Image(f, T))}
<1>1. {} \in F
  <2>1. Image(f, {}) = {}
    BY DEF Image
  <2> QED
    BY <2>1, FS_EmptySet
<1>2. ASSUME NEW T \in SUBSET S, NEW x \in S \ T, T \in F PROVE T \cup {x} \in F
  <2>1. Image(f, T \cup {x}) = Image(f, T) \cup {f[x]}
    BY DEF Image
  <2>2. IsFiniteSet(Image(f, T))
    BY <1>2
  <2>3. IsFiniteSet(Image(f, T) \cup {f[x]})
    BY <2>2, FS_AddElement
  <2> QED
    BY <2>1, <2>3
<1> HIDE DEF F
<1>3. S \in F
  BY <1>1, <1>2, FiniteInduction
<1> QED
  BY <1>3 DEF F

\* Different elements may be given other names.
LEMMA SumImage ==
    ASSUME NEW v, NEW w, NEW f, NEW S, IsFiniteSet(S), \A x, y \in S : f[x] = f[y] => x = y,
           \A x \in S : w[x] \in Int /\ w[x] = v[f[x]]
    PROVE  IsFiniteSet(Image(f, S)) /\ SumFunctionOnSet(v, Image(f, S)) = SumFunctionOnSet(w, S)
<1> DEFINE F == {T \in SUBSET S : /\ IsFiniteSet(Image(f, T))
                                  /\ SumFunctionOnSet(v, Image(f, T)) = SumFunctionOnSet(w, T)}
<1>1. {} \in F
  <2>1. Image(f, {}) = {}
    BY DEF Image
  <2> QED
    BY <2>1, SumEmpty, FS_EmptySet
<1>2. ASSUME NEW T \in SUBSET S, NEW x \in S \ T, T \in F PROVE T \cup {x} \in F
  <2>1. IsFiniteSet(T) /\ (\A y \in T : w[y] \in Int) /\ x \notin T /\ w[x] \in Int
    BY FS_Subset
  <2>2. Image(f, T \cup {x}) = Image(f, T) \cup {f[x]}
    BY DEF Image
  <2>3. \A y \in Image(f, T) : v[y] \in Int
    BY DEF Image
  <2>4. f[x] \notin Image(f, T) /\ v[f[x]] \in Int /\ v[f[x]] = w[x]
    BY DEF Image
  <2>5. IsFiniteSet(Image(f, T))
    BY <1>2
  <2> DEFINE I == Image(f, T)
             y == f[x]
  <2> HIDE DEF I, y
  <2>6. I \cup {y} = Image(f, T \cup {x})
    BY <2>2 DEF I, y
  <2>7. SumFunctionOnSet(v, I \cup {y}) = v[y] + SumFunctionOnSet(v, I)
    BY <2>3, <2>4, <2>5, SumAdd DEF I, y
  <2>8. SumFunctionOnSet(w, T \cup {x}) = w[x] + SumFunctionOnSet(w, T)
    BY <2>1, SumAdd
  <2>9. SumFunctionOnSet(v, I) = SumFunctionOnSet(w, T)
    BY <1>2 DEF I
  <2>10. IsFiniteSet(I \cup {y})
    BY <2>5, FS_AddElement DEF I
  <2>11. v[y] = w[x]
    BY <2>4 DEF y
  <2> QED
    BY <2>6, <2>7, <2>8, <2>9, <2>10, <2>11
<1> HIDE DEF F
<1>3. S \in F
  BY <1>1, <1>2, FiniteInduction
<1> QED
  BY <1>3 DEF F

\* What is in the parts, and a part is for each element of a set.
Together(B, S) == UNION {B[x] : x \in S}

\* A sum over parts that share nothing.
LEMMA SumNested ==
    ASSUME NEW v, NEW B, NEW w, NEW S, IsFiniteSet(S),
           \A x \in S : IsFiniteSet(B[x]), \A x \in S : \A p \in B[x] : v[p] \in Int,
           \A x, y \in S : x # y => B[x] \cap B[y] = {},
           \A x \in S : w[x] = SumFunctionOnSet(v, B[x])
    PROVE  /\ IsFiniteSet(Together(B, S))
           /\ SumFunctionOnSet(v, Together(B, S)) = SumFunctionOnSet(w, S)
<1> DEFINE F == {T \in SUBSET S :
                   /\ IsFiniteSet(Together(B, T))
                   /\ SumFunctionOnSet(v, Together(B, T)) = SumFunctionOnSet(w, T)}
<1>0. \A x \in S : w[x] \in Int
  BY SumType
<1>1. {} \in F
  <2>1. Together(B, {}) = {}
    BY DEF Together
  <2> QED
    BY <2>1, SumEmpty, FS_EmptySet
<1>2. ASSUME NEW T \in SUBSET S, NEW x \in S \ T, T \in F PROVE T \cup {x} \in F
  <2>1. IsFiniteSet(T) /\ (\A y \in T : w[y] \in Int) /\ x \notin T /\ w[x] \in Int
    BY <1>0, FS_Subset
  <2>2. Together(B, T \cup {x}) = Together(B, T) \cup B[x]
    BY DEF Together
  <2>3. \A p \in Together(B, T) \cup B[x] : v[p] \in Int
    BY DEF Together
  <2>4. Together(B, T) \cap B[x] = {}
    <3> SUFFICES ASSUME NEW y \in T PROVE B[y] \cap B[x] = {}
      BY DEF Together
    <3> QED
      OBVIOUS
  <2>5. IsFiniteSet(Together(B, T)) /\ IsFiniteSet(B[x])
    BY <1>2
  <2> DEFINE I == Together(B, T)
             J == B[x]
  <2> HIDE DEF I, J
  <2>6. I \cup J = Together(B, T \cup {x})
    BY <2>2 DEF I, J
  <2>7. SumFunctionOnSet(v, I \cup J) = SumFunctionOnSet(v, I) + SumFunctionOnSet(v, J)
    BY <2>3, <2>4, <2>5, SumUnion DEF I, J
  <2>8. SumFunctionOnSet(w, T \cup {x}) = w[x] + SumFunctionOnSet(w, T)
    BY <2>1, SumAdd
  <2>9. SumFunctionOnSet(v, I) = SumFunctionOnSet(w, T) /\ w[x] = SumFunctionOnSet(v, J)
    BY <1>2 DEF I, J
  <2>10. IsFiniteSet(I \cup J)
    BY <2>5, FS_Union DEF I, J
  <2>11. SumFunctionOnSet(w, T) \in Int
    BY <2>1, SumType
  <2>12. SumFunctionOnSet(v, I \cup J) = SumFunctionOnSet(w, T \cup {x})
    BY <2>1, <2>7, <2>8, <2>9, <2>11
  <2> QED
    BY <2>6, <2>10, <2>12
<1> HIDE DEF F
<1>3. S \in F
  BY <1>1, <1>2, FiniteInduction
<1> QED
  BY <1>3 DEF F

-----------------------------------------------------------------------------
(* Arithmetic *)

LEMMA Multiples ==
    ASSUME NEW n \in Nat \ {0}, NEW j \in Int, NEW k \in Int, j < k
    PROVE  n * j \in Int /\ n * k \in Int /\ n * j + n <= n * k
<1> DEFINE d == k - j - 1
<1>1. d \in Nat /\ k = j + 1 + d
  OBVIOUS
<1> HIDE DEF d
<1>2. n * d \in Nat
  BY <1>1
<1>3. n * (j + 1 + d) = n * j + n + n * d
  BY <1>1
<1> QED
  BY <1>1, <1>2, <1>3

\* What is left of a number is the same however it is taken.
LEMMA ModFact ==
    ASSUME NEW a \in Int, NEW n \in Nat \ {0}
    PROVE  /\ a % n \in 0 .. n - 1
           /\ a \div n \in Int /\ a = n * (a \div n) + (a % n)
           /\ \A q \in Int, r \in 0 .. n - 1 : a = n * q + r => a % n = r
<1>1. a % n \in 0 .. n - 1 /\ a \div n \in Int /\ a = n * (a \div n) + (a % n)
  OBVIOUS
<1>2. ASSUME NEW q \in Int, NEW r \in 0 .. n - 1, a = n * q + r PROVE a % n = r
  <2> DEFINE p == a \div n
             s == a % n
  <2>1. s \in 0 .. n - 1 /\ p \in Int /\ a = n * p + s
    BY <1>1
  <2> HIDE DEF p, s
  <2>2. ~ p < q
    BY <1>2, <2>1, Multiples
  <2>3. ~ q < p
    BY <1>2, <2>1, Multiples
  <2>4. p = q
    BY <2>1, <2>2, <2>3
  <2>5. n * q \in Int
    OBVIOUS
  <2> QED
    BY <1>2, <2>1, <2>4, <2>5 DEF s
<1> QED
  BY <1>1, <1>2

\* It does not matter when the rest is taken.
LEMMA ModPlus ==
    ASSUME NEW a \in Int, NEW b \in Int, NEW n \in Nat \ {0}
    PROVE  ((a % n) + b) % n = (a + b) % n
<1> DEFINE q == a \div n
           r == a % n
           c == r + b
           p == c \div n
           s == c % n
<1>1. r \in 0 .. n - 1 /\ q \in Int /\ a = n * q + r
  BY ModFact
<1> HIDE DEF q, r
<1>2. c \in Int
  BY <1>1
<1> HIDE DEF c
<1>3. s \in 0 .. n - 1 /\ p \in Int /\ c = n * p + s
  BY <1>2, ModFact
<1> HIDE DEF p, s
<1>4. n * (q + p) = n * q + n * p /\ n * q \in Int /\ n * p \in Int
  BY <1>1, <1>3
<1>5. a + b = n * (q + p) + s
  BY <1>1, <1>3, <1>4 DEF c
<1>6. a + b \in Int /\ q + p \in Int
  BY <1>1, <1>3
<1>7. (a + b) % n = s
  BY <1>3, <1>5, <1>6, ModFact
<1> QED
  BY <1>7 DEF s, c, r

LEMMA ModTwice ==
    ASSUME NEW a \in Int, NEW n \in Nat \ {0}
    PROVE  (a % n) % n = a % n
<1>1. PICK z \in Int : z = 0
  OBVIOUS
<1>2. n \in Nat /\ n > 0
  OBVIOUS
<1>3. a % n \in Int
  BY <1>2
<1>4. ((a % n) + z) % n = (a + z) % n
  BY ModPlus
<1>5. (a % n) + z = a % n /\ a + z = a
  BY <1>1, <1>3
<1> QED
  BY <1>4, <1>5

LEMMA ModSmall ==
    ASSUME NEW n \in Nat \ {0}, NEW a \in 0 .. n - 1
    PROVE  a % n = a
<1>1. PICK z \in Int : z = 0
  OBVIOUS
<1>2. n * z = 0
  BY <1>1
<1>3. a \in Int /\ a = n * z + a
  BY <1>2
<1> QED
  BY <1>3, ModFact


-----------------------------------------------------------------------------
(* Outputs *)

LEMMA OutputFact ==
    ASSUME NEW p \in AllOutputs
    PROVE  /\ p = <<p[1], p[2]>> /\ p[1] \in Tx /\ p[2] \in DOMAIN Raw[p[1]].vout
           /\ RawVout(OutputOf(p)) /\ OutputOf(p).holds \in Nat
           /\ OutputOf(p).value = (IF OutputOf(p).rangeProof THEN 0 ELSE OutputOf(p).holds)
<1>1. p = <<p[1], p[2]>> /\ p[1] \in Tx /\ p[2] \in DOMAIN Raw[p[1]].vout
  BY DEF AllOutputs
<1>2. RawVout(OutputOf(p))
  BY <1>1, RawAssumption DEF OutputOf
<1> QED
  BY <1>1, <1>2 DEF RawVout

LEMMA VoutFact ==
    ASSUME NEW t \in Tx
    PROVE  /\ IsFiniteSet(DOMAIN Raw[t].vout)
           /\ \A n \in DOMAIN Raw[t].vout :
                 <<t, n>> \in AllOutputs /\ OutputOf(<<t, n>>) = Raw[t].vout[n]
<1>1. Raw[t].vout \in Seq({Raw[t].vout[n] : n \in DOMAIN Raw[t].vout})
  BY RawAssumption
<1>2. DOMAIN Raw[t].vout = 1 .. Len(Raw[t].vout) /\ Len(Raw[t].vout) \in Nat
  BY <1>1, LenProperties
<1>3. IsFiniteSet(DOMAIN Raw[t].vout)
  BY <1>2, FS_Interval
<1>4. ASSUME NEW n \in DOMAIN Raw[t].vout
      PROVE  <<t, n>> \in AllOutputs /\ OutputOf(<<t, n>>) = Raw[t].vout[n]
  BY <1>4 DEF AllOutputs, OutputOf
<1> QED
  BY <1>3, <1>4

LEMMA VinFact ==
    ASSUME NEW t \in Tx
    PROVE  /\ IsFiniteSet(Inputs(t))
           /\ \A i \in Inputs(t) : Spent(t, i) \in AllOutputs
<1>1. IsFiniteSet(Inputs(t))
  <2>1. PICK n \in Nat : Inputs(t) = 1 .. n
    BY InputFact
  <2> QED
    BY <2>1, FS_Interval
<1>2. ASSUME NEW i \in Inputs(t) PROVE Spent(t, i) \in AllOutputs
  <2>1. /\ Spent(t, i) = <<Spent(t, i)[1], Spent(t, i)[2]>> /\ Spent(t, i)[1] \in Tx
        /\ Spent(t, i)[2] \in DOMAIN Raw[Spent(t, i)[1]].vout
    BY InputFact
  <2> QED
    BY <2>1 DEF AllOutputs
<1> QED
  BY <1>1, <1>2

\* Values that may be added up.
IsValue(v) == \A p \in AllOutputs : v[p] \in Nat

LEMMA ValueIfFact ==
    ASSUME NEW S
    PROVE  /\ IsValue(ValueIf(S))
           /\ \A p \in AllOutputs : ValueIf(S)[p] = IF p \in S THEN OutputOf(p).holds ELSE 0
BY OutputFact DEF ValueIf, IsValue

-----------------------------------------------------------------------------
(* What is not spent *)

\* What a transaction makes and spends, of some values.
Made(v)  == [t \in Tx |-> SumFunctionOnSet(v, {t} \X DOMAIN Raw[t].vout)]
Taken(v) == [t \in Tx |-> SumFunctionOnSet(v, {Spent(t, i) : i \in Inputs(t)})]

LEMMA MadeFact ==
    ASSUME NEW v, IsValue(v), NEW t \in Tx
    PROVE  /\ IsFiniteSet({t} \X DOMAIN Raw[t].vout)
           /\ Made(v)[t] \in Int
           /\ Made(v)[t] = SumFunction([n \in DOMAIN Raw[t].vout |-> v[<<t, n>>]])
<1> DEFINE D == DOMAIN Raw[t].vout
           f == [n \in D |-> <<t, n>>]
           w == [n \in D |-> v[<<t, n>>]]
<1>1. IsFiniteSet(D) /\ \A n \in D : <<t, n>> \in AllOutputs
  BY VoutFact
<1>2. ASSUME NEW n \in D PROVE w[n] \in Int /\ w[n] = v[f[n]]
  <2>1. v[<<t, n>>] \in Nat
    <3> DEFINE p == <<t, n>>
    <3>1. p \in AllOutputs
      BY <1>1
    <3> HIDE DEF p
    <3>2. v[p] \in Nat
      BY <3>1 DEF IsValue
    <3> QED
      BY <3>2 DEF p
  <2>2. w[n] = v[<<t, n>>] /\ f[n] = <<t, n>>
    OBVIOUS
  <2> QED
    BY <2>1, <2>2
<1>3. \A n, m \in D : f[n] = f[m] => n = m
  OBVIOUS
<1>4. Image(f, D) = {t} \X D
  <2>1. Image(f, D) = {<<t, n>> : n \in D}
    BY DEF Image
  <2> HIDE DEF D
  <2>2. {<<t, n>> : n \in D} = {t} \X D
    OBVIOUS
  <2> QED
    BY <2>1, <2>2
<1>5. SumFunction(w) = SumFunctionOnSet(w, D)
  BY DEF SumFunction
<1> HIDE DEF f, w, D
<1>6. /\ IsFiniteSet(Image(f, D))
      /\ SumFunctionOnSet(v, Image(f, D)) = SumFunctionOnSet(w, D)
  BY <1>1, <1>2, <1>3, SumImage
<1>7. SumFunctionOnSet(w, D) \in Int
  BY <1>1, <1>2, SumType
<1> QED
  BY <1>4, <1>5, <1>6, <1>7 DEF Made, w, D

LEMMA TakenFact ==
    ASSUME NEW v, IsValue(v), NEW t \in Tx
    PROVE  /\ IsFiniteSet({Spent(t, i) : i \in Inputs(t)})
           /\ Taken(v)[t] \in Int
           /\ Taken(v)[t] = SumFunction([i \in Inputs(t) |-> v[Spent(t, i)]])
<1> DEFINE D == Inputs(t)
           f == [i \in D |-> Spent(t, i)]
           w == [i \in D |-> v[Spent(t, i)]]
<1>1. IsFiniteSet(D) /\ \A i \in D : Spent(t, i) \in AllOutputs
  BY VinFact
<1>2. \A i \in D : w[i] \in Int /\ w[i] = v[f[i]]
  BY <1>1 DEF IsValue
<1>3. \A i, j \in D : f[i] = f[j] => i = j
  BY MoneyAssumption
<1>4. Image(f, D) = {Spent(t, i) : i \in Inputs(t)}
  BY DEF Image
<1>5. SumFunction(w) = SumFunctionOnSet(w, D)
  BY DEF SumFunction
<1> HIDE DEF f, w, D
<1>6. /\ IsFiniteSet(Image(f, D))
      /\ SumFunctionOnSet(v, Image(f, D)) = SumFunctionOnSet(w, D)
  BY <1>1, <1>2, <1>3, SumImage
<1>7. SumFunctionOnSet(w, D) \in Int
  BY <1>1, <1>2, SumType
<1> QED
  BY <1>4, <1>5, <1>6, <1>7 DEF Taken, w, D

LEMMA NetFact ==
    ASSUME NEW v, IsValue(v), NEW t \in Tx
    PROVE  Net(v)[t] = Made(v)[t] - Taken(v)[t] /\ Net(v)[t] \in Int
<1> DEFINE made == SumFunction([n \in DOMAIN Raw[t].vout |-> v[<<t, n>>]])
           taken == SumFunction([i \in Inputs(t) |-> v[Spent(t, i)]])
<1>1. Net(v)[t] = made - taken
  BY DEF Net
<1>2. Made(v)[t] = made /\ Made(v)[t] \in Int
  BY MadeFact
<1>3. Taken(v)[t] = taken /\ Taken(v)[t] \in Int
  BY TakenFact
<1> HIDE DEF made, taken
<1> QED
  BY <1>1, <1>2, <1>3

\* The values of what is not spent are what the transactions have added.
LEMMA UnspentSum ==
    ASSUME NEW v, IsValue(v), NEW T, Consistent(T)
    PROVE  /\ IsFiniteSet(OutputsOf(T)) /\ OutputsOf(T) \subseteq AllOutputs
           /\ SumFunctionOnSet(v, OutputsOf(T) \ SpentBy(T)) = AllNet(v, T)
<1> DEFINE B == [t \in Tx |-> {t} \X DOMAIN Raw[t].vout]
           C == [t \in Tx |-> {Spent(t, i) : i \in Inputs(t)}]
<1>0. T \subseteq Tx /\ IsFiniteSet(T) /\ SpentBy(T) \subseteq OutputsOf(T)
  BY DEF Consistent
<1>1. /\ IsFiniteSet(Together(B, T))
      /\ SumFunctionOnSet(v, Together(B, T)) = SumFunctionOnSet(Made(v), T)
  <2>1. \A t \in T : IsFiniteSet(B[t])
    BY <1>0, MadeFact
  <2>2. \A t \in T : \A p \in B[t] : v[p] \in Int
    BY <1>0, VoutFact DEF IsValue
  <2>3. \A t, u \in T : t # u => B[t] \cap B[u] = {}
    BY <1>0
  <2>4. \A t \in T : Made(v)[t] = SumFunctionOnSet(v, B[t])
    BY <1>0 DEF Made
  <2> HIDE DEF B
  <2> QED
    BY <1>0, <2>1, <2>2, <2>3, <2>4, SumNested
<1>2. /\ IsFiniteSet(Together(C, T))
      /\ SumFunctionOnSet(v, Together(C, T)) = SumFunctionOnSet(Taken(v), T)
  <2>1. \A t \in T : IsFiniteSet(C[t])
    BY <1>0, TakenFact
  <2>2. \A t \in T : \A p \in C[t] : v[p] \in Int
    BY <1>0, VinFact DEF IsValue
  <2>3. \A t, u \in T : t # u => C[t] \cap C[u] = {}
    BY <1>0 DEF Consistent
  <2>4. \A t \in T : Taken(v)[t] = SumFunctionOnSet(v, C[t])
    BY <1>0 DEF Taken
  <2> HIDE DEF C
  <2> QED
    BY <1>0, <2>1, <2>2, <2>3, <2>4, SumNested
<1>3. Together(B, T) = OutputsOf(T)
  BY <1>0 DEF Together, OutputsOf
<1>4. Together(C, T) = SpentBy(T)
  BY <1>0 DEF Together, SpentBy
<1> HIDE DEF B, C
<1> DEFINE O == OutputsOf(T)
           S == SpentBy(T)
<1>5. O \subseteq AllOutputs
  BY <1>0 DEF OutputsOf, AllOutputs
<1>6. IsFiniteSet(O) /\ IsFiniteSet(S) /\ S \subseteq O
  BY <1>0, <1>1, <1>2, <1>3, <1>4
<1>7. SumFunctionOnSet(v, O) = SumFunctionOnSet(v, O \ S) + SumFunctionOnSet(v, S)
  <2> HIDE DEF O, S
  <2>1. IsFiniteSet(O \ S) /\ (O \ S) \cap S = {} /\ O = (O \ S) \cup S
    BY <1>6, FS_Subset
  <2>2. \A p \in (O \ S) \cup S : v[p] \in Int
    BY <1>5, <1>6 DEF IsValue
  <2> QED
    BY <1>6, <2>1, <2>2, SumUnion
<1>8. AllNet(v, T) = SumFunctionOnSet(Made(v), T) - SumFunctionOnSet(Taken(v), T)
  <2>1. \A t \in T : /\ Made(v)[t] \in Int /\ Taken(v)[t] \in Int
                     /\ Net(v)[t] = Made(v)[t] - Taken(v)[t]
    BY <1>0, NetFact, MadeFact, TakenFact
  <2> QED
    BY <1>0, <2>1, SumMinus DEF AllNet
<1>9. SumFunctionOnSet(v, O \ S) \in Int /\ SumFunctionOnSet(v, S) \in Int
  <2> HIDE DEF O, S
  <2>1. IsFiniteSet(O \ S)
    BY <1>6, FS_Subset
  <2>2. \A p \in O : v[p] \in Int
    BY <1>5 DEF IsValue
  <2> QED
    BY <1>6, <2>1, <2>2, SumType
<1>10. SumFunctionOnSet(v, O) = SumFunctionOnSet(Made(v), T)
  BY <1>1, <1>3
<1>11. SumFunctionOnSet(v, S) = SumFunctionOnSet(Taken(v), T)
  BY <1>2, <1>4
<1> QED
  BY <1>5, <1>6, <1>7, <1>8, <1>9, <1>10, <1>11

-----------------------------------------------------------------------------
(* What a transaction adds to the supplies *)

\* A function that is 0 where it was not defined has the same sum.
Spread(f, S) == [x \in S |-> IF x \in DOMAIN f THEN f[x] ELSE 0]

LEMMA SpreadFact ==
    ASSUME NEW S, IsFiniteSet(S), NEW f, DOMAIN f \subseteq S, \A x \in DOMAIN f : f[x] \in Int
    PROVE  /\ SumFunction(f) = SumFunctionOnSet(Spread(f, S), S)
           /\ \A x \in S : Spread(f, S)[x] \in Int
<1>1. \A x \in DOMAIN f : f[x] \in Int /\ Spread(f, S)[x] = f[x]
  BY DEF Spread
<1>2. \A x \in S \ DOMAIN f : Spread(f, S)[x] = 0
  BY DEF Spread
<1>3. SumFunctionOnSet(Spread(f, S), S) = SumFunctionOnSet(f, DOMAIN f)
  BY <1>1, <1>2, SumPart
<1> QED
  BY <1>1, <1>2, <1>3 DEF SumFunction

\* The type and the value of an output.
LEMMA RawFact ==
    ASSUME NEW t \in Tx, NEW n \in DOMAIN Raw[t].vout
    PROVE  LET o == Raw[t].vout[n] IN
           /\ o.holds \in Nat /\ o.rangeProof \in BOOLEAN
           /\ VoutValue(t, n) = (IF o.rangeProof THEN 0 ELSE o.holds)
           /\ OutputIsWrapped(o) => o.type # "nulldata" /\ ~ o.rangeProof /\ o.asm = "MULTISIG"
           /\ IsPrivateFee(o) => IsNulldata(o) \/ o.holds = 0
<1>1. RawVout(Raw[t].vout[n])
  BY RawAssumption
<1>2. /\ OutputIsWrapped(Raw[t].vout[n]) =>
              Raw[t].vout[n].type # "nulldata" /\ ~ Raw[t].vout[n].rangeProof
      /\ IsPrivateFee(Raw[t].vout[n]) => IsNulldata(Raw[t].vout[n]) \/ Raw[t].vout[n].holds = 0
  BY MoneyAssumption
<1> QED
  BY <1>1, <1>2 DEF RawVout, VoutValue, OutputIsWrapped, IsMultiSig

LEMMA PublicOut ==
    ASSUME NEW t \in Tx, ~ Mistaken(t), NEW n \in DOMAIN Raw[t].vout
    PROVE  (IF n \in PublicOutputs(t) THEN VoutValue(t, n) ELSE 0)
              - (IF n \in FeeOutputs(t) THEN VoutValue(t, n) ELSE 0) = PublicValue[<<t, n>>]
<1> DEFINE o == Raw[t].vout[n]
           p == <<t, n>>
<1>1. p \in AllOutputs /\ OutputOf(p) = o /\ p[1] = t /\ p[2] = n
  BY VoutFact
<1>2. PublicValue[p] = IF IsPublic(p) THEN o.holds ELSE 0
  BY <1>1, ValueIfFact DEF PublicValue
<1>3. /\ o.holds \in Nat /\ VoutValue(t, n) = (IF o.rangeProof THEN 0 ELSE o.holds)
      /\ OutputIsWrapped(o) => o.type # "nulldata" /\ ~ o.rangeProof /\ o.asm = "MULTISIG"
      /\ IsPrivateFee(o) => IsNulldata(o) \/ o.holds = 0
      /\ o.rangeProof \in BOOLEAN
  BY RawFact
<1>4. /\ IsPublic(p) <=> /\ ~ OutputIsWrapped(o) /\ ~ o.rangeProof
                         /\ o.asm # "OP_RETURN OP_CFUND" /\ ~ (IsNulldata(o) /\ HasHidden(t))
      /\ n \in Counted(t) <=> o.asm # "OP_RETURN OP_CFUND"
  BY <1>1 DEF IsPublic, IsBurned, Counted
<1>5. IsPrivate(t) <=> HasHidden(t)
  BY DEF Mistaken, IsPrivate, HasHidden
<1>6. Wrapped(t, n) <=> OutputIsWrapped(o)
  BY DEF Mistaken, Wrapped
<1>7. Private(t, n) => o.rangeProof
  BY DEF Private
<1>8. /\ n \in PublicOutputs(t) <=> n \in Counted(t) /\ ~ Private(t, n) /\ ~ Wrapped(t, n)
      /\ n \in FeeOutputs(t) <=> n \in Counted(t) /\ IsPrivate(t) /\ IsPrivateFee(o)
  BY DEF PublicOutputs, FeeOutputs, Counted
<1>9. IsNulldata(o) => IsPrivateFee(o)
  BY DEF IsNulldata, IsPrivateFee
<1>10. OutputIsWrapped(o) => ~ IsPrivateFee(o)
  BY <1>3 DEF IsPrivateFee
<1> HIDE DEF o, p
<1>11. CASE o.rangeProof
  <2>1. VoutValue(t, n) = 0
    BY <1>3, <1>11
  <2>2. PublicValue[p] = 0
    BY <1>2, <1>4, <1>11
  <2> QED
    BY <2>1, <2>2 DEF p
<1>12. CASE ~ o.rangeProof /\ OutputIsWrapped(o)
  <2>1. n \notin PublicOutputs(t) /\ n \notin FeeOutputs(t)
    BY <1>6, <1>8, <1>10, <1>12
  <2>2. PublicValue[p] = 0
    BY <1>2, <1>4, <1>12
  <2> QED
    BY <2>1, <2>2 DEF p
<1>13. CASE ~ o.rangeProof /\ ~ OutputIsWrapped(o)
  <2>1. VoutValue(t, n) = o.holds
    BY <1>3, <1>13
  <2>2. n \in PublicOutputs(t) <=> n \in Counted(t)
    BY <1>6, <1>7, <1>8, <1>13
  <2>3. n \in FeeOutputs(t) <=> n \in Counted(t) /\ HasHidden(t) /\ IsPrivateFee(o)
    BY <1>5, <1>8
  <2>4. IsPublic(p) <=> n \in Counted(t) /\ ~ (IsNulldata(o) /\ HasHidden(t))
    BY <1>4, <1>13
  <2> QED
    BY <1>2, <1>3, <1>9, <2>1, <2>2, <2>3, <2>4 DEF p
<1> QED
  BY <1>11, <1>12, <1>13 DEF p

\* The transaction that made an output is not mistaken for another.
LEMMA PublicIn ==
    ASSUME NEW t \in Tx, NEW i \in Inputs(t), ~ Mistaken(Spent(t, i)[1])
    PROVE  (IF ~ PrevPrivate(t, i) /\ ~ PrevWrapped(t, i) THEN VinValue(t, i) ELSE 0)
              = PublicValue[Spent(t, i)]
<1> DEFINE p == Spent(t, i)
           o == OutputOf(p)
<1>1. p \in AllOutputs /\ p[1] \in Tx /\ p[2] \in DOMAIN Raw[p[1]].vout /\ o = Raw[p[1]].vout[p[2]]
  BY VinFact, OutputFact DEF OutputOf
<1>2. PublicValue[p] = IF IsPublic(p) THEN o.holds ELSE 0
  BY <1>1, ValueIfFact DEF PublicValue
<1>3. o.holds \in Nat /\ VinValue(t, i) = (IF o.rangeProof THEN 0 ELSE o.holds)
  BY <1>1, OutputFact DEF VinValue
<1>4. IsPublic(p) <=> ~ OutputIsWrapped(o) /\ ~ o.rangeProof
  <2>1. o.asm \notin {"OP_RETURN", "OP_RETURN OP_CFUND"}
    BY FeeAssumption
  <2> QED
    BY <2>1 DEF IsPublic, IsBurned, IsNulldata
<1>5. PrevPrivate(t, i) => o.rangeProof
  BY <1>1 DEF PrevPrivate, Private
<1>6. PrevWrapped(t, i) <=> OutputIsWrapped(o)
  BY <1>1 DEF PrevWrapped, Wrapped, Mistaken
<1> HIDE DEF o, p
<1> QED
  BY <1>2, <1>3, <1>4, <1>5, <1>6 DEF p

\* No transaction is mistaken, nor is one it spends an output of.
Sound(t) == ~ Mistaken(t) /\ \A i \in Inputs(t) : ~ Mistaken(Spent(t, i)[1])

\* A change that counts each output and each input for its value.
LEMMA ChangeFact ==
    ASSUME NEW t \in Tx, NEW v, IsValue(v), NEW out, NEW in,
           \A n \in DOMAIN Raw[t].vout : out[n] = v[<<t, n>>],
           \A i \in Inputs(t) : in[i] = v[Spent(t, i)]
    PROVE  SumFunctionOnSet(out, DOMAIN Raw[t].vout) - SumFunctionOnSet(in, Inputs(t)) = Net(v)[t]
<1> DEFINE D == DOMAIN Raw[t].vout
           I == Inputs(t)
           f == [n \in D |-> v[<<t, n>>]]
           g == [i \in I |-> v[Spent(t, i)]]
<1>1. Net(v)[t] = SumFunction(f) - SumFunction(g)
  BY DEF Net
<1>2. SumFunction(f) = SumFunctionOnSet(f, D) /\ SumFunction(g) = SumFunctionOnSet(g, I)
  BY DEF SumFunction
<1>3. ASSUME NEW n \in D PROVE f[n] \in Int /\ f[n] = out[n]
  <2> DEFINE p == <<t, n>>
  <2>1. p \in AllOutputs /\ f[n] = v[p] /\ out[n] = v[p]
    BY VoutFact
  <2> HIDE DEF p, f
  <2> QED
    BY <2>1 DEF IsValue
<1>4. ASSUME NEW i \in I PROVE g[i] \in Int /\ g[i] = in[i]
  <2> DEFINE p == Spent(t, i)
  <2>1. p \in AllOutputs /\ g[i] = v[p] /\ in[i] = v[p]
    BY VinFact
  <2> HIDE DEF p, g
  <2> QED
    BY <2>1 DEF IsValue
<1>5. IsFiniteSet(D) /\ IsFiniteSet(I)
  BY VoutFact, VinFact
<1> HIDE DEF f, g, D, I
<1>6. SumFunctionOnSet(f, D) = SumFunctionOnSet(out, D)
  BY <1>3, <1>5, SumSame
<1>7. SumFunctionOnSet(g, I) = SumFunctionOnSet(in, I)
  BY <1>4, <1>5, SumSame
<1> QED
  BY <1>1, <1>2, <1>6, <1>7 DEF D, I

LEMMA VoutValueFact ==
    ASSUME NEW t \in Tx
    PROVE  /\ \A n \in DOMAIN Raw[t].vout : VoutValue(t, n) \in Nat
           /\ \A i \in Inputs(t) : VinValue(t, i) \in Nat
<1>1. ASSUME NEW n \in DOMAIN Raw[t].vout PROVE VoutValue(t, n) \in Nat
  BY RawFact
<1>2. ASSUME NEW i \in Inputs(t) PROVE VinValue(t, i) \in Nat
  <2>1. Spent(t, i) \in AllOutputs
    BY VinFact
  <2> QED
    BY <2>1, OutputFact DEF VinValue
<1> QED
  BY <1>1, <1>2

\* The public supply changes by what a transaction makes public and spends.
LEMMA PublicNet ==
    ASSUME NEW t \in Tx, Sound(t)
    PROVE  PublicChange(t) = Net(PublicValue)[t]
<1> DEFINE D == DOMAIN Raw[t].vout
           I == Inputs(t)
           P == {i \in I : ~ PrevPrivate(t, i) /\ ~ PrevWrapped(t, i)}
           a == [n \in PublicOutputs(t) |-> VoutValue(t, n)]
           b == [n \in FeeOutputs(t) |-> VoutValue(t, n)]
           c == [i \in P |-> VinValue(t, i)]
           u == Spread(a, D)
           w == Spread(b, D)
           in == Spread(c, I)
           out == [n \in D |-> u[n] - w[n]]
<1>1. PublicChange(t) = SumFunction(a) - SumFunction(b) - SumFunction(c)
  BY DEF PublicChange
<1>2. IsFiniteSet(D) /\ IsFiniteSet(I)
  BY VoutFact, VinFact
<1>3. /\ DOMAIN a \subseteq D /\ \A n \in DOMAIN a : a[n] \in Int
      /\ DOMAIN b \subseteq D /\ \A n \in DOMAIN b : b[n] \in Int
  <2>1. PublicOutputs(t) \subseteq D /\ FeeOutputs(t) \subseteq D
    BY DEF PublicOutputs, FeeOutputs, Counted
  <2>2. \A n \in D : VoutValue(t, n) \in Int
    BY VoutValueFact
  <2> HIDE DEF D
  <2> QED
    BY <2>1, <2>2
<1>4. DOMAIN c \subseteq I /\ \A i \in DOMAIN c : c[i] \in Int
  BY VoutValueFact
<1>5. ASSUME NEW n \in D PROVE out[n] = PublicValue[<<t, n>>]
  <2>1. /\ u[n] = (IF n \in PublicOutputs(t) THEN VoutValue(t, n) ELSE 0)
        /\ w[n] = (IF n \in FeeOutputs(t) THEN VoutValue(t, n) ELSE 0)
    BY DEF Spread
  <2>2. u[n] - w[n] = PublicValue[<<t, n>>]
    BY <2>1, PublicOut DEF Sound
  <2>3. out[n] = u[n] - w[n]
    OBVIOUS
  <2> HIDE DEF out, u, w
  <2> QED
    BY <2>2, <2>3
<1>6. ASSUME NEW i \in I PROVE in[i] = PublicValue[Spent(t, i)]
  <2>1. in[i] = (IF ~ PrevPrivate(t, i) /\ ~ PrevWrapped(t, i) THEN VinValue(t, i) ELSE 0)
    BY DEF Spread
  <2> HIDE DEF in
  <2> QED
    BY <2>1, PublicIn DEF Sound
<1>7. \A n \in D : out[n] = u[n] - w[n]
  OBVIOUS
<1>8. IsValue(PublicValue)
  BY ValueIfFact DEF PublicValue
<1> HIDE DEF a, b, c, D, I, P
<1>9. SumFunction(a) = SumFunctionOnSet(u, D) /\ \A n \in D : u[n] \in Int
  BY <1>2, <1>3, SpreadFact
<1>10. SumFunction(b) = SumFunctionOnSet(w, D) /\ \A n \in D : w[n] \in Int
  BY <1>2, <1>3, SpreadFact
<1>11. SumFunction(c) = SumFunctionOnSet(in, I)
  BY <1>2, <1>4, SpreadFact
<1> HIDE DEF u, w, in, out
<1>12. SumFunctionOnSet(out, D) = SumFunctionOnSet(u, D) - SumFunctionOnSet(w, D)
  BY <1>2, <1>7, <1>9, <1>10, SumMinus
<1>13. SumFunctionOnSet(out, D) - SumFunctionOnSet(in, I) = Net(PublicValue)[t]
  BY <1>5, <1>6, <1>8, ChangeFact DEF D, I
<1> QED
  BY <1>1, <1>9, <1>10, <1>11, <1>12, <1>13

LEMMA WrappedNet ==
    ASSUME NEW t \in Tx, Sound(t)
    PROVE  WrappedChange(t) = Net(WrappedValue)[t]
<1> DEFINE D == DOMAIN Raw[t].vout
           I == Inputs(t)
           a == [n \in {n \in Counted(t) : Wrapped(t, n)} |-> VoutValue(t, n)]
           c == [i \in {i \in I : PrevWrapped(t, i)} |-> VinValue(t, i)]
           out == Spread(a, D)
           in == Spread(c, I)
<1>1. WrappedChange(t) = SumFunction(a) - SumFunction(c)
  BY DEF WrappedChange
<1>2. IsFiniteSet(D) /\ IsFiniteSet(I)
  BY VoutFact, VinFact
<1>3. DOMAIN a \subseteq D /\ \A n \in DOMAIN a : a[n] \in Int
  <2>1. {n \in Counted(t) : Wrapped(t, n)} \subseteq D
    BY DEF Counted
  <2>2. \A n \in D : VoutValue(t, n) \in Int
    BY VoutValueFact
  <2> HIDE DEF D
  <2> QED
    BY <2>1, <2>2
<1>4. DOMAIN c \subseteq I /\ \A i \in DOMAIN c : c[i] \in Int
  BY VoutValueFact
<1>5. ASSUME NEW n \in D PROVE out[n] = WrappedValue[<<t, n>>]
  <2> DEFINE o == Raw[t].vout[n]
             p == <<t, n>>
  <2>1. p \in AllOutputs /\ OutputOf(p) = o
    BY VoutFact
  <2>2. WrappedValue[p] = IF OutputIsWrapped(o) THEN o.holds ELSE 0
    BY <2>1, ValueIfFact DEF WrappedValue
  <2>3. out[n] = IF n \in Counted(t) /\ Wrapped(t, n) THEN VoutValue(t, n) ELSE 0
    BY DEF Spread
  <2>4. OutputIsWrapped(o) => VoutValue(t, n) = o.holds /\ n \in Counted(t)
    BY RawFact DEF Counted
  <2>5. Wrapped(t, n) <=> OutputIsWrapped(o)
    BY DEF Sound, Mistaken, Wrapped
  <2> HIDE DEF o, out
  <2> QED
    BY <2>2, <2>3, <2>4, <2>5
<1>6. ASSUME NEW i \in I PROVE in[i] = WrappedValue[Spent(t, i)]
  <2> DEFINE p == Spent(t, i)
             o == OutputOf(p)
  <2>1. /\ p \in AllOutputs /\ p[1] \in Tx /\ p[2] \in DOMAIN Raw[p[1]].vout
        /\ o = Raw[p[1]].vout[p[2]]
    BY VinFact, OutputFact DEF OutputOf
  <2>2. WrappedValue[p] = IF OutputIsWrapped(o) THEN o.holds ELSE 0
    BY <2>1, ValueIfFact DEF WrappedValue
  <2>3. in[i] = IF PrevWrapped(t, i) THEN VinValue(t, i) ELSE 0
    BY DEF Spread
  <2>4. OutputIsWrapped(o) => ~ o.rangeProof
    BY <2>1, RawFact
  <2>5. VinValue(t, i) = (IF o.rangeProof THEN 0 ELSE o.holds)
    BY <2>1, OutputFact DEF VinValue
  <2>6. PrevWrapped(t, i) <=> OutputIsWrapped(o)
    BY <2>1 DEF PrevWrapped, Wrapped, Sound, Mistaken
  <2> HIDE DEF o, p, in
  <2> QED
    BY <2>2, <2>3, <2>4, <2>5, <2>6 DEF p
<1>7. IsValue(WrappedValue)
  BY ValueIfFact DEF WrappedValue
<1> HIDE DEF a, c, D, I
<1>8. SumFunction(a) = SumFunctionOnSet(out, D)
  BY <1>2, <1>3, SpreadFact
<1>9. SumFunction(c) = SumFunctionOnSet(in, I)
  BY <1>2, <1>4, SpreadFact
<1> HIDE DEF in, out
<1>10. SumFunctionOnSet(out, D) - SumFunctionOnSet(in, I) = Net(WrappedValue)[t]
  BY <1>5, <1>6, <1>7, ChangeFact DEF D, I
<1> QED
  BY <1>1, <1>8, <1>9, <1>10

\* What an output holds is its value or is hidden.
LEMMA HiddenPart ==
    ASSUME NEW p \in AllOutputs
    PROVE  /\ HiddenValue[p] \in Int /\ OutputOf(p).value \in Int
           /\ OutputOf(p).holds = OutputOf(p).value + HiddenValue[p]
           /\ ~ OutputOf(p).rangeProof => HiddenValue[p] = 0
<1>1. HiddenValue[p] = IF OutputOf(p).rangeProof THEN OutputOf(p).holds ELSE 0
  BY ValueIfFact DEF HiddenValue
<1>2. /\ OutputOf(p).holds \in Nat
      /\ OutputOf(p).value = (IF OutputOf(p).rangeProof THEN 0 ELSE OutputOf(p).holds)
  BY OutputFact
<1> QED
  BY <1>1, <1>2

\* What is not in the values of a private transaction is hidden.
LEMMA HiddenNet ==
    ASSUME NEW t \in Tx, Sound(t), ~ GivesHidden(t)
    PROVE  PrivateChange(t) = Net(HiddenValue)[t]
<1> DEFINE D == DOMAIN Raw[t].vout
           I == Inputs(t)
           values == [n \in D |-> VoutValue(t, n)]
           spent == [i \in I |-> VinValue(t, i)]
           out == [n \in D |-> HiddenValue[<<t, n>>]]
           in == [i \in I |-> HiddenValue[Spent(t, i)]]
           made == [n \in D |-> Raw[t].vout[n].holds]
           taken == [i \in I |-> OutputOf(Spent(t, i)).holds]
<1>1. IsFiniteSet(D) /\ IsFiniteSet(I)
  BY VoutFact, VinFact
<1>2. ASSUME NEW n \in D
      PROVE  /\ values[n] \in Int /\ out[n] \in Int /\ made[n] = values[n] + out[n]
             /\ ~ Raw[t].vout[n].rangeProof => out[n] = 0
  <2> DEFINE p == <<t, n>>
  <2>1. p \in AllOutputs /\ OutputOf(p) = Raw[t].vout[n]
    BY VoutFact
  <2>2. values[n] = OutputOf(p).value /\ out[n] = HiddenValue[p] /\ made[n] = OutputOf(p).holds
    BY <2>1 DEF VoutValue
  <2> HIDE DEF p, values, out, made
  <2> QED
    BY <2>1, <2>2, HiddenPart
<1>3. ASSUME NEW i \in I
      PROVE  /\ spent[i] \in Int /\ in[i] \in Int /\ taken[i] = spent[i] + in[i]
             /\ ~ OutputOf(Spent(t, i)).rangeProof => in[i] = 0
  <2> DEFINE p == Spent(t, i)
  <2>1. p \in AllOutputs
    BY VinFact
  <2>2. spent[i] = OutputOf(p).value /\ in[i] = HiddenValue[p] /\ taken[i] = OutputOf(p).holds
    BY DEF VinValue
  <2> HIDE DEF p, spent, in, taken
  <2> QED
    BY <2>1, <2>2, HiddenPart DEF p
<1>4. Net(HiddenValue)[t] = SumFunctionOnSet(out, D) - SumFunctionOnSet(in, I)
  BY DEF Net, SumFunction
<1>5. CASE ~ HasHidden(t)
  <2>1. \A n \in D : out[n] = 0
    <3> HIDE DEF out
    <3> QED
      BY <1>2, <1>5 DEF HasHidden
  <2>2. \A i \in I : in[i] = 0
    <3> HIDE DEF in
    <3> QED
      BY <1>3, <1>5 DEF HasHidden
  <2>3. SumFunctionOnSet(out, D) = 0 /\ SumFunctionOnSet(in, I) = 0
    <3> HIDE DEF out, in, D, I
    <3> QED
      BY <1>1, <2>1, <2>2, SumZero
  <2>4. ~ IsPrivate(t)
    BY <1>5 DEF Sound, Mistaken, IsPrivate, HasHidden
  <2>5. PrivateChange(t) = 0
    BY <2>4 DEF PrivateChange
  <2> QED
    BY <1>4, <2>3, <2>5
<1>6. CASE HasHidden(t)
  <2>1. IsPrivate(t) /\ Counted(t) = D
    BY <1>6 DEF Sound, Mistaken, IsPrivate, HasHidden, GivesHidden
  <2>2. PrivateChange(t) = SumFunctionOnSet(spent, I) - SumFunctionOnSet(values, D)
    BY <2>1 DEF PrivateChange, SumFunction
  <2>3. SumFunctionOnSet(taken, I) = SumFunctionOnSet(made, D)
    BY <1>6, MoneyAssumption DEF SumFunction
  <2> HIDE DEF D, I, values, spent, out, in, made, taken
  <2>4. SumFunctionOnSet(made, D) = SumFunctionOnSet(values, D) + SumFunctionOnSet(out, D)
    BY <1>1, <1>2, SumPlus
  <2>5. SumFunctionOnSet(taken, I) = SumFunctionOnSet(spent, I) + SumFunctionOnSet(in, I)
    BY <1>1, <1>3, SumPlus
  <2>6. /\ SumFunctionOnSet(values, D) \in Int /\ SumFunctionOnSet(out, D) \in Int
        /\ SumFunctionOnSet(spent, I) \in Int /\ SumFunctionOnSet(in, I) \in Int
    BY <1>1, <1>2, <1>3, SumType
  <2> QED
    BY <1>4, <2>2, <2>3, <2>4, <2>5, <2>6
<1> QED
  BY <1>5, <1>6

-----------------------------------------------------------------------------
(* The supplies after a block *)

\* What the transactions of a block change, one after the other.
LEMMA BlockSum ==
    ASSUME NEW txs \in Seq(Tx), IsInjective(txs), NEW v, IsValue(v),
           NEW f, DOMAIN f = DOMAIN txs, \A j \in DOMAIN txs : f[j] = Net(v)[txs[j]]
    PROVE  IsFiniteSet(Elements(txs)) /\ SumFunction(f) = AllNet(v, Elements(txs))
<1>1. IsFiniteSet(DOMAIN txs) /\ \A j \in DOMAIN txs : txs[j] \in Tx
  <2>1. DOMAIN txs = 1 .. Len(txs) /\ Len(txs) \in Nat
    OBVIOUS
  <2> QED
    BY <2>1, FS_Interval
<1>2. \A j \in DOMAIN txs : f[j] \in Int /\ f[j] = Net(v)[txs[j]]
  BY <1>1, NetFact
<1>3. Image(txs, DOMAIN txs) = Elements(txs)
  BY DEF Image, Elements
<1>4. /\ IsFiniteSet(Image(txs, DOMAIN txs))
      /\ SumFunctionOnSet(Net(v), Image(txs, DOMAIN txs)) = SumFunctionOnSet(f, DOMAIN txs)
  BY <1>1, <1>2, SumImage DEF IsInjective
<1> QED
  BY <1>3, <1>4 DEF AllNet, SumFunction

LEMMA ValuesFact == IsValue(PublicValue) /\ IsValue(WrappedValue) /\ IsValue(HiddenValue)
BY ValueIfFact DEF PublicValue, WrappedValue, HiddenValue

LEMMA AllNetType ==
    ASSUME NEW T, T \subseteq Tx, IsFiniteSet(T)
    PROVE  /\ AllNet(PublicValue, T) \in Int /\ AllNet(WrappedValue, T) \in Int
           /\ AllNet(HiddenValue, T) \in Int
<1>1. ASSUME NEW v, IsValue(v) PROVE AllNet(v, T) \in Int
  <2>1. \A t \in T : Net(v)[t] \in Int
    BY <1>1, NetFact
  <2> QED
    BY <2>1, SumType DEF AllNet
<1> QED
  BY <1>1, ValuesFact

\* The changes of the supplies in a block that is not the first.
Changes(b, E) ==
    /\ SupplyAfter(b).public = Plus(b.supply.public, AllNet(PublicValue, E))
    /\ SupplyAfter(b).wrapped = Plus(b.supply.wrapped, AllNet(WrappedValue, E))
    /\ b.height = PrivateHeight => SupplyAfter(b).private = PrivateSupply
    /\ b.height > PrivateHeight /\ (~ \E t \in E : GivesHidden(t)) =>
          SupplyAfter(b).private = Plus(b.supply.private, AllNet(HiddenValue, E))

LEMMA SupplyChanges ==
    ASSUME NEW b, b.txs \in Seq(Tx), IsInjective(b.txs), b.height \in Nat \ {0, 1},
           \A t \in Elements(b.txs) : Sound(t)
    PROVE  Changes(b, Elements(b.txs))
<1> DEFINE E == Elements(b.txs)
           D == DOMAIN b.txs
           public == [j \in D |-> PublicChange(b.txs[j])]
           private == [j \in D |-> PrivateChange(b.txs[j])]
           wrapped == [j \in D |-> WrappedChange(b.txs[j])]
<1>1. \A j \in D : b.txs[j] \in Tx /\ b.txs[j] \in E
  BY DEF Elements
<1>2. SumFunction(public) = AllNet(PublicValue, E)
  <2>1. \A j \in D : public[j] = Net(PublicValue)[b.txs[j]]
    BY <1>1, PublicNet
  <2>2. DOMAIN public = D
    OBVIOUS
  <2> HIDE DEF public
  <2> QED
    BY <2>1, <2>2, ValuesFact, BlockSum
<1>3. SumFunction(wrapped) = AllNet(WrappedValue, E)
  <2>1. \A j \in D : wrapped[j] = Net(WrappedValue)[b.txs[j]]
    BY <1>1, WrappedNet
  <2>2. DOMAIN wrapped = D
    OBVIOUS
  <2> HIDE DEF wrapped
  <2> QED
    BY <2>1, <2>2, ValuesFact, BlockSum
<1>4. ASSUME ~ \E t \in E : GivesHidden(t)
      PROVE  SumFunction(private) = AllNet(HiddenValue, E)
  <2>1. \A j \in D : private[j] = Net(HiddenValue)[b.txs[j]]
    BY <1>1, <1>4, HiddenNet
  <2>2. DOMAIN private = D
    OBVIOUS
  <2> HIDE DEF private
  <2> QED
    BY <2>1, <2>2, ValuesFact, BlockSum
<1>5. /\ SupplyAfter(b).public = Plus(b.supply.public, SumFunction(public))
      /\ SupplyAfter(b).wrapped = Plus(b.supply.wrapped, SumFunction(wrapped))
      /\ SupplyAfter(b).private = IF b.height < PrivateHeight THEN 0
                                  ELSE IF b.height = PrivateHeight THEN PrivateSupply
                                  ELSE Plus(b.supply.private, SumFunction(private))
  BY DEF SupplyAfter
<1>6. PrivateHeight \in Nat
  BY RawAssumption
<1> HIDE DEF public, private, wrapped, D, E
<1> QED
  BY <1>2, <1>3, <1>4, <1>5, <1>6 DEF Changes, E

LEMMA SumOne ==
    ASSUME NEW v, NEW x, v[x] \in Int
    PROVE  SumFunctionOnSet(v, {x}) = v[x]
<1>1. IsFiniteSet({x}) /\ \A y \in {x} : v[y] \in Int
  BY FS_Singleton
<1>2. {x} \ {x} = {}
  OBVIOUS
<1>3. SumFunctionOnSet(v, {x}) = v[x] + SumFunctionOnSet(v, {x} \ {x})
  BY <1>1, SumRemove
<1> QED
  BY <1>2, <1>3, SumEmpty

\* In the first block the coins of its coinbase are public.
LEMMA FirstSupply ==
    ASSUME NEW b, b.txs \in Blocks[1], b.txs \in Seq(Tx), b.height = 1, b.supply = NoSupply,
           \A t \in Elements(b.txs) : Sound(t)
    PROVE  /\ SupplyAfter(b).public = AllNet(PublicValue, Elements(b.txs)) % WordSize
           /\ SupplyAfter(b).wrapped = AllNet(WrappedValue, Elements(b.txs)) % WordSize
           /\ PrivateHeight = 1 => SupplyAfter(b).private = PrivateSupply
<1> DEFINE t == b.txs[1]
           D == DOMAIN Raw[t].vout
           values == [n \in D |-> VoutValue(t, n)]
           in == [i \in Inputs(t) |-> 0]
<1>1. Len(b.txs) = 1 /\ Counted(t) = D
  BY MoneyAssumption
<1>2. DOMAIN b.txs = {1} /\ t \in Tx /\ Elements(b.txs) = {t}
  <2>1. DOMAIN b.txs = 1 .. 1
    BY <1>1
  <2>2. 1 .. 1 = {1}
    OBVIOUS
  <2> QED
    BY <2>1, <2>2 DEF Elements
<1>3. Sound(t)
  BY <1>2
<1>4. IsCoinbase(t)
  <2>1. 1 \in 1 .. MaxHeight
    BY ConstantFact
  <2> QED
    BY <1>2, <2>1, TransactionsAssumption
<1>5. Inputs(t) = {}
  <2> DEFINE vin == Raw[t].vin
  <2>1. /\ vin \in Seq({vin[i] : i \in DOMAIN vin}) /\ vin # <<>> /\ vin[1].coinbase
        /\ (\E i \in DOMAIN vin : vin[i].coinbase) => Len(vin) = 1
    BY <1>2, <1>4, RawAssumption DEF IsCoinbase
  <2>2. Inputs(t) = {i \in DOMAIN vin : ~ vin[i].coinbase}
    BY DEF Inputs
  <2> HIDE DEF vin
  <2>3. DOMAIN vin = 1 .. Len(vin) /\ Len(vin) \in Nat /\ Len(vin) # 0
    BY <2>1, LenProperties, EmptySeq
  <2>4. 1 \in DOMAIN vin
    BY <2>3
  <2>5. DOMAIN vin = 1 .. 1
    BY <2>1, <2>3, <2>4
  <2> QED
    BY <2>1, <2>2, <2>5
<1>6. /\ Net(PublicValue)[t] \in Int /\ Net(WrappedValue)[t] \in Int
      /\ AllNet(PublicValue, {t}) = Net(PublicValue)[t]
      /\ AllNet(WrappedValue, {t}) = Net(WrappedValue)[t]
  <2> HIDE DEF t
  <2> QED
    BY <1>2, NetFact, ValuesFact, SumOne DEF AllNet
<1>7. WordSize \in Nat \ {0}
  BY RawAssumption
<1>8. VoutAmount(t) = Net(PublicValue)[t] % WordSize
  <2>1. VoutAmount(t) = SumFunctionOnSet(values, D) % WordSize
    BY DEF VoutAmount, Sum, SumFunction
  <2>2. ASSUME NEW n \in D PROVE values[n] = PublicValue[<<t, n>>]
    <3>1. ~ Private(t, n) /\ ~ Wrapped(t, n) /\ ~ IsPrivate(t)
      BY <1>4, <1>5 DEF Private, Wrapped, MayBePrivate, IsPrivate, HidesOutput, IsFeeOutput
    <3>2. n \in PublicOutputs(t) /\ n \notin FeeOutputs(t)
      BY <1>1, <3>1 DEF PublicOutputs, FeeOutputs
    <3>3. VoutValue(t, n) \in Nat
      BY <1>2, VoutValueFact
    <3>4. VoutValue(t, n) - 0 = PublicValue[<<t, n>>]
      BY <1>2, <1>3, <3>2, PublicOut DEF Sound
    <3> QED
      BY <3>3, <3>4
  <2>3. SumFunctionOnSet(values, D) - SumFunctionOnSet(in, Inputs(t)) = Net(PublicValue)[t]
    <3>1. \A i \in Inputs(t) : in[i] = PublicValue[Spent(t, i)]
      BY <1>5
    <3> HIDE DEF values, in
    <3> QED
      BY <1>2, <2>2, <3>1, ValuesFact, ChangeFact
  <2>4. SumFunctionOnSet(in, Inputs(t)) = 0
    BY <1>5, SumEmpty
  <2>5. SumFunctionOnSet(values, D) \in Int
    <3>1. IsFiniteSet(D)
      BY <1>2, VoutFact
    <3>2. \A n \in D : values[n] \in Int
      BY <1>2, VoutValueFact
    <3> HIDE DEF values, D
    <3> QED
      BY <3>1, <3>2, SumType
  <2> HIDE DEF values, in, D
  <2> QED
    BY <2>1, <2>3, <2>4, <2>5
<1>9. Net(WrappedValue)[t] = 0
  <2>1. {n \in Counted(t) : Wrapped(t, n)} = {} /\ {i \in Inputs(t) : PrevWrapped(t, i)} = {}
    BY <1>4, <1>5 DEF Wrapped
  <2>2. WrappedChange(t) = SumFunction([n \in {} |-> VoutValue(t, n)])
                              - SumFunction([i \in {} |-> VinValue(t, i)])
    BY <2>1 DEF WrappedChange
  <2>3. \A f : DOMAIN f = {} => SumFunction(f) = 0
    BY SumEmpty DEF SumFunction
  <2> QED
    BY <1>2, <1>3, <2>2, <2>3, WrappedNet
<1>10. SupplyAfter(b).public = (0 + VoutAmount(t)) % WordSize
  <2> DEFINE f == [j \in DOMAIN b.txs |-> VoutAmount(b.txs[j])]
  <2>1. f[1] = VoutAmount(t) /\ DOMAIN f = {1}
    BY <1>2
  <2>2. VoutAmount(t) \in Int
    BY <1>6, <1>7, <1>8
  <2>3. SupplyAfter(b).public = Plus(0, SumFunction(f))
    BY DEF SupplyAfter, NoSupply
  <2> HIDE DEF f
  <2>4. SumFunction(f) = VoutAmount(t)
    BY <2>1, <2>2, SumOne DEF SumFunction
  <2> QED
    BY <2>3, <2>4 DEF Plus
<1>11. SupplyAfter(b).wrapped = (0 + 0) % WordSize
  BY DEF SupplyAfter, NoSupply, Plus
<1>12. PrivateHeight = 1 => SupplyAfter(b).private = PrivateSupply
  BY DEF SupplyAfter
<1> HIDE DEF t
<1>13. (0 + (Net(PublicValue)[t] % WordSize)) % WordSize = Net(PublicValue)[t] % WordSize
  <2>1. WordSize \in Nat /\ WordSize > 0
    BY <1>7
  <2>2. \A r \in Int : 0 + r = r
    OBVIOUS
  <2>3. Net(PublicValue)[t] % WordSize \in Int
    BY <1>6, <2>1
  <2> QED
    BY <1>6, <1>7, <2>2, <2>3, ModTwice
<1> QED
  BY <1>2, <1>6, <1>8, <1>9, <1>10, <1>11, <1>12, <1>13

-----------------------------------------------------------------------------
(* The transactions so far *)

\* MayFollow, for the transactions there are.
Follows(txs, T) ==
    \A j \in DOMAIN txs :
       /\ txs[j] \notin T \cup Earlier(txs, j)
       /\ \A i \in Inputs(txs[j]) :
             /\ Spent(txs[j], i)[1] \in T \cup Earlier(txs, j)
             /\ Spent(txs[j], i) \notin SpentBy(T) \cup SpentBy(Earlier(txs, j))

LEMMA ChainFact ==
    ASSUME TypeInv
    PROVE  /\ ChainTxs(chain) = TxsTo(chain, Len(chain))
           /\ ChainSpent(chain) = SpentBy(ChainTxs(chain))
           /\ \A txs : MayFollow(txs) <=> Follows(txs, ChainTxs(chain))
<1>1. ChainTxs(chain) = TxsTo(chain, Len(chain))
  BY TypeFact DEF ChainTxs, TxsTo, Elements
<1>2. ChainSpent(chain) = SpentBy(ChainTxs(chain))
  BY DEF ChainSpent, SpentIn, SpentBy, ChainTxs
<1>3. \A txs : MayFollow(txs) <=> Follows(txs, ChainTxs(chain))
  BY <1>2 DEF MayFollow, Follows, SpentBy
<1> QED
  BY <1>1, <1>2, <1>3

LEMMA EarlierFact ==
    ASSUME NEW txs \in Seq(Tx), NEW j \in DOMAIN txs
    PROVE  /\ Earlier(txs, j) \subseteq Elements(txs)
           /\ \A k \in DOMAIN txs : k < j => txs[k] \in Earlier(txs, j)
<1>1. DOMAIN txs = 1 .. Len(txs) /\ Len(txs) \in Nat
  OBVIOUS
<1> QED
  BY <1>1 DEF Earlier, Elements

\* A block's transactions follow those there are.
LEMMA ConsistentNext ==
    ASSUME NEW T, Consistent(T), NEW txs \in Seq(Tx), Follows(txs, T)
    PROVE  /\ Consistent(T \cup Elements(txs)) /\ IsFiniteSet(Elements(txs))
           /\ T \cap Elements(txs) = {} /\ IsInjective(txs)
<1> DEFINE E == Elements(txs)
<1>1. /\ DOMAIN txs = 1 .. Len(txs) /\ Len(txs) \in Nat /\ \A j \in DOMAIN txs : txs[j] \in Tx
  OBVIOUS
<1>2. E \subseteq Tx /\ \A t \in E : \E j \in DOMAIN txs : t = txs[j]
  BY <1>1 DEF Elements
<1>3. IsFiniteSet(E)
  <2>1. IsFiniteSet(DOMAIN txs)
    BY <1>1, FS_Interval
  <2>2. E = Image(txs, DOMAIN txs)
    BY DEF Elements, Image
  <2> QED
    BY <2>1, <2>2, FiniteImage
<1>4. T \cap E = {}
  BY <1>2 DEF Follows
<1>5. ASSUME NEW j \in DOMAIN txs, NEW k \in DOMAIN txs, j < k PROVE txs[j] # txs[k]
  BY <1>5, EarlierFact DEF Follows
<1>6. IsInjective(txs)
  <2> SUFFICES ASSUME NEW j \in DOMAIN txs, NEW k \in DOMAIN txs, txs[j] = txs[k] PROVE j = k
    BY DEF IsInjective
  <2> QED
    BY <1>1, <1>5
<1>7. ASSUME NEW t \in E, NEW i \in Inputs(t)
      PROVE  Spent(t, i) \in OutputsOf(T \cup E) /\ Spent(t, i) \notin SpentBy(T)
  <2>1. PICK j \in DOMAIN txs : t = txs[j]
    BY <1>2
  <2>2. Spent(t, i)[1] \in T \cup E /\ Spent(t, i) \notin SpentBy(T)
    BY <2>1, EarlierFact DEF Follows
  <2>3. /\ Spent(t, i) = <<Spent(t, i)[1], Spent(t, i)[2]>>
        /\ Spent(t, i)[2] \in DOMAIN Raw[Spent(t, i)[1]].vout
    BY <1>2, InputFact
  <2> QED
    BY <2>2, <2>3 DEF OutputsOf
<1>8. ASSUME NEW j \in DOMAIN txs, NEW k \in DOMAIN txs, j < k,
             NEW a \in Inputs(txs[j]), NEW b \in Inputs(txs[k])
      PROVE  Spent(txs[j], a) # Spent(txs[k], b)
  <2>1. txs[j] \in Earlier(txs, k)
    BY <1>8, EarlierFact
  <2>2. Spent(txs[j], a) \in SpentBy(Earlier(txs, k))
    BY <2>1 DEF SpentBy
  <2> QED
    BY <2>2 DEF Follows
<1>9. ASSUME NEW t \in E, NEW u \in E, NEW a \in Inputs(t), NEW b \in Inputs(u),
             Spent(t, a) = Spent(u, b)
      PROVE  t = u /\ a = b
  <2>1. PICK j \in DOMAIN txs, k \in DOMAIN txs : t = txs[j] /\ u = txs[k]
    BY <1>2
  <2>2. ~ j < k /\ ~ k < j
    BY <1>8, <1>9, <2>1
  <2>3. t = u
    BY <1>1, <2>1, <2>2
  <2> QED
    BY <1>2, <1>9, <2>3, MoneyAssumption
<1>10. \A t \in T : \A a \in Inputs(t) : Spent(t, a) \in SpentBy(T)
  BY DEF SpentBy
<1>11. /\ T \cup E \subseteq Tx /\ IsFiniteSet(T \cup E)
  BY <1>2, <1>3, FS_Union DEF Consistent
<1>12. SpentBy(T \cup E) \subseteq OutputsOf(T \cup E)
  <2>1. OutputsOf(T) \subseteq OutputsOf(T \cup E)
    BY DEF OutputsOf
  <2>2. SpentBy(T) \subseteq OutputsOf(T)
    BY DEF Consistent
  <2>3. ASSUME NEW p \in SpentBy(T \cup E) PROVE p \in OutputsOf(T \cup E)
    <3>1. PICK t \in T \cup E : \E i \in Inputs(t) : p = Spent(t, i)
      BY DEF SpentBy
    <3>2. CASE t \in T
      BY <1>10, <2>1, <2>2, <3>1, <3>2
    <3>3. CASE t \in E
      BY <1>7, <3>1, <3>3
    <3> QED
      BY <3>2, <3>3
  <2> QED
    BY <2>3
<1>13. ASSUME NEW t \in T \cup E, NEW u \in T \cup E, NEW a \in Inputs(t), NEW b \in Inputs(u),
              Spent(t, a) = Spent(u, b)
       PROVE  t = u /\ a = b
  <2>1. CASE t \in T /\ u \in T
    BY <1>13, <2>1 DEF Consistent
  <2>2. CASE t \in T /\ u \in E
    BY <1>7, <1>10, <1>13, <2>2
  <2>3. CASE t \in E /\ u \in T
    BY <1>7, <1>10, <1>13, <2>3
  <2>4. CASE t \in E /\ u \in E
    BY <1>9, <1>13, <2>4
  <2> QED
    BY <2>1, <2>2, <2>3, <2>4
<1> QED
  BY <1>3, <1>4, <1>6, <1>11, <1>12, <1>13 DEF Consistent

LEMMA TxsToSame ==
    ASSUME NEW c, NEW d, NEW n \in Nat, \A k \in 1 .. n : c[k] = d[k], NEW h \in 0 .. n
    PROVE  TxsTo(c, h) = TxsTo(d, h)
<1>1. \A k \in 1 .. h : k \in 1 .. n
  OBVIOUS
<1> QED
  BY <1>1 DEF TxsTo

\* The supplies of a block depend on no later block.
LEMMA SuppliesSame ==
    ASSUME NEW c, NEW d, NEW n \in Nat, \A k \in 1 .. n : c[k] = d[k], NEW h \in 1 .. n,
           SuppliesRight(c, h)
    PROVE  SuppliesRight(d, h)
<1>1. TxsTo(c, h) = TxsTo(d, h) /\ c[h] = d[h]
  BY TxsToSame
<1>2. h >= PrivateHeight => TxsTo(c, PrivateHeight) = TxsTo(d, PrivateHeight)
  <2>1. h >= PrivateHeight => PrivateHeight \in 0 .. n
    BY RawAssumption
  <2> QED
    BY <2>1, TxsToSame
<1> QED
  BY <1>1, <1>2 DEF SuppliesRight

LEMMA AllNetUnion ==
    ASSUME NEW T, NEW E, T \subseteq Tx, E \subseteq Tx, IsFiniteSet(T), IsFiniteSet(E),
           T \cap E = {}
    PROVE  \A v : IsValue(v) => AllNet(v, T \cup E) = AllNet(v, T) + AllNet(v, E)
<1> SUFFICES ASSUME NEW v, IsValue(v)
             PROVE  AllNet(v, T \cup E) = AllNet(v, T) + AllNet(v, E)
  OBVIOUS
<1>1. \A t \in T \cup E : Net(v)[t] \in Int
  BY NetFact
<1> QED
  BY <1>1, SumUnion DEF AllNet

\* The supplies after the block under construction.
LEMMA SuppliesNext ==
    ASSUME TypeInv, SupplyInv, pc = "build",
           NEW T, T = ChainTxs(chain), NEW E, E = Elements(block.txs)
    PROVE  /\ Consistent(T \cup E)
           /\ (~ \E t \in T \cup E : Mistaken(t)) =>
                 /\ SupplyAfter(block).wrapped = AllNet(WrappedValue, T \cup E) % WordSize
                 /\ SupplyAfter(block).public = AllNet(PublicValue, T \cup E) % WordSize
                 /\ block.height = PrivateHeight => SupplyAfter(block).private = PrivateSupply
                 /\ block.height > PrivateHeight /\ (~ \E t \in T \cup E : GivesHidden(t)) =>
                       SupplyAfter(block).private =
                          Plus(PrivateSupply, AllNet(HiddenValue, T \cup E)
                                                 - AllNet(HiddenValue, TxsTo(chain, PrivateHeight)))
<1> DEFINE n == Len(chain)
<1>1. /\ block.txs \in Seq(Tx) /\ block.height = n + 1 /\ block.txs \in Blocks[n + 1]
      /\ n \in Nat /\ DOMAIN chain = 1 .. n
  BY BuildFact, TypeFact
<1>2. Follows(block.txs, T)
  BY ChainFact DEF TypeInv, BuildInv
<1>3. T = TxsTo(chain, n)
  BY ChainFact
<1>4. Consistent(T)
  <2>1. CASE n = 0
    <3>1. T = {}
      BY <1>3, <2>1 DEF TxsTo
    <3> QED
      BY <3>1, FS_EmptySet DEF Consistent, SpentBy, OutputsOf
  <2>2. CASE n # 0
    <3>1. n \in DOMAIN chain
      BY <1>1, <2>2
    <3> QED
      BY <1>3, <3>1 DEF SupplyInv
  <2> QED
    BY <2>1, <2>2
<1>5. /\ Consistent(T \cup E) /\ IsFiniteSet(E) /\ T \cap E = {} /\ IsInjective(block.txs)
      /\ T \subseteq Tx /\ E \subseteq Tx /\ IsFiniteSet(T)
  <2>1. /\ Consistent(T \cup E) /\ IsFiniteSet(E) /\ T \cap E = {} /\ IsInjective(block.txs)
    BY <1>1, <1>2, <1>4, ConsistentNext
  <2>2. T \cup E \subseteq Tx
    BY <2>1 DEF Consistent
  <2>3. IsFiniteSet(T)
    BY <1>4 DEF Consistent
  <2> QED
    BY <2>1, <2>2, <2>3
<1>6. ASSUME ~ \E t \in T \cup E : Mistaken(t), NEW t \in E
      PROVE  Sound(t)
  <2>1. ASSUME NEW i \in Inputs(t) PROVE Spent(t, i)[1] \in T \cup E
    <3>1. Spent(t, i) \in OutputsOf(T \cup E)
      BY <1>5 DEF Consistent, SpentBy
    <3> QED
      BY <3>1 DEF OutputsOf
  <2> QED
    BY <1>6, <2>1 DEF Sound
<1>7. \A v : IsValue(v) => AllNet(v, T \cup E) = AllNet(v, T) + AllNet(v, E)
  BY <1>5, AllNetUnion
<1>8. block.supply = Last.supply
  BY DEF SupplyInv
<1>9. PrivateHeight \in Nat \ {0} /\ WordSize \in Nat \ {0} /\ PrivateSupply \in 0 .. WordSize - 1
  BY RawAssumption
<1>10. SUFFICES ASSUME ~ \E t \in T \cup E : Mistaken(t)
                PROVE  /\ SupplyAfter(block).wrapped = AllNet(WrappedValue, T \cup E) % WordSize
                       /\ SupplyAfter(block).public = AllNet(PublicValue, T \cup E) % WordSize
                       /\ n + 1 = PrivateHeight => SupplyAfter(block).private = PrivateSupply
                       /\ n + 1 > PrivateHeight /\ (~ \E t \in T \cup E : GivesHidden(t)) =>
                             SupplyAfter(block).private =
                                Plus(PrivateSupply, AllNet(HiddenValue, T \cup E)
                                   - AllNet(HiddenValue, TxsTo(chain, PrivateHeight)))
  BY <1>1, <1>5
<1>11. CASE n = 0
  <2>1. T = {} /\ T \cup E = E
    BY <1>3, <1>11 DEF TxsTo
  <2>2. block.supply = NoSupply
    <3>1. chain = <<>>
      BY <1>11, TypeFact
    <3> QED
      BY <1>8, <3>1 DEF Last, NoBlock
  <2>3. \A t \in Elements(block.txs) : Sound(t)
    BY <1>6, <1>10
  <2>4. block.txs \in Blocks[1] /\ block.height = 1
    BY <1>1, <1>11
  <2>5. /\ SupplyAfter(block).public = AllNet(PublicValue, E) % WordSize
        /\ SupplyAfter(block).wrapped = AllNet(WrappedValue, E) % WordSize
        /\ PrivateHeight = 1 => SupplyAfter(block).private = PrivateSupply
    BY <1>1, <2>2, <2>3, <2>4, FirstSupply
  <2>6. ~ n + 1 > PrivateHeight
    BY <1>9, <1>11
  <2> QED
    BY <1>11, <2>1, <2>5, <2>6
<1>12. CASE n # 0
  <2>1. n \in DOMAIN chain /\ Last = chain[n]
    BY <1>1, <1>12, TypeFact DEF Last
  <2>2. SuppliesRight(chain, n)
    BY <2>1 DEF SupplyInv
  <2>3. Changes(block, E)
    <3>1. block.height \in Nat \ {0, 1}
      BY <1>1, <1>12
    <3>2. \A t \in Elements(block.txs) : Sound(t)
      BY <1>6, <1>10
    <3> QED
      BY <1>1, <1>5, <3>1, <3>2, SupplyChanges
  <2> DEFINE a == AllNet(PublicValue, T)
             b == AllNet(PublicValue, E)
             c == AllNet(WrappedValue, T)
             d == AllNet(WrappedValue, E)
             e == AllNet(HiddenValue, T)
             f == AllNet(HiddenValue, E)
             g == AllNet(HiddenValue, TxsTo(chain, PrivateHeight))
  <2>4. /\ a \in Int /\ b \in Int /\ c \in Int /\ d \in Int /\ e \in Int /\ f \in Int
        /\ AllNet(PublicValue, T \cup E) = a + b
        /\ AllNet(WrappedValue, T \cup E) = c + d
        /\ AllNet(HiddenValue, T \cup E) = e + f
    BY <1>5, <1>7, AllNetType, ValuesFact
  <2>5. block.supply.public = a % WordSize /\ block.supply.wrapped = c % WordSize
    BY <1>3, <1>8, <1>10, <2>1, <2>2 DEF SuppliesRight
  <2>6. n >= PrivateHeight /\ (~ \E t \in T \cup E : GivesHidden(t)) =>
           block.supply.private = (PrivateSupply + (e - g)) % WordSize
    BY <1>3, <1>8, <1>10, <2>1, <2>2 DEF SuppliesRight, Plus
  <2>7. n >= PrivateHeight => g \in Int
    <3>1. n >= PrivateHeight => PrivateHeight \in DOMAIN chain
      BY <1>1, <1>9
    <3>2. n >= PrivateHeight => Consistent(TxsTo(chain, PrivateHeight))
      BY <3>1 DEF SupplyInv
    <3> QED
      BY <3>2, AllNetType DEF Consistent
  <2>8. /\ SupplyAfter(block).public = ((a % WordSize) + b) % WordSize
        /\ SupplyAfter(block).wrapped = ((c % WordSize) + d) % WordSize
        /\ n + 1 = PrivateHeight => SupplyAfter(block).private = PrivateSupply
        /\ n + 1 > PrivateHeight /\ (~ \E t \in T \cup E : GivesHidden(t)) =>
              SupplyAfter(block).private = (block.supply.private + f) % WordSize
    BY <1>1, <2>3, <2>5 DEF Changes, Plus
  <2> HIDE DEF a, b, c, d, e, f, g
  <2>9. /\ SupplyAfter(block).public = (a + b) % WordSize
        /\ SupplyAfter(block).wrapped = (c + d) % WordSize
    BY <1>9, <2>4, <2>8, ModPlus
  <2>10. ASSUME n + 1 > PrivateHeight, ~ \E t \in T \cup E : GivesHidden(t)
         PROVE  SupplyAfter(block).private = (PrivateSupply + ((e + f) - g)) % WordSize
    <3> DEFINE x == PrivateSupply + (e - g)
    <3>1. n >= PrivateHeight
      BY <1>1, <1>9, <2>10
    <3>2. x \in Int
      BY <1>9, <2>4, <2>7, <3>1
    <3>3. SupplyAfter(block).private = ((x % WordSize) + f) % WordSize
      BY <2>6, <2>8, <2>10, <3>1
    <3>4. x + f = PrivateSupply + ((e + f) - g)
      BY <1>9, <2>4, <2>7, <3>1
    <3> HIDE DEF x
    <3>5. ((x % WordSize) + f) % WordSize = (x + f) % WordSize
      BY <1>9, <2>4, <3>2, ModPlus
    <3> QED
      BY <3>3, <3>4, <3>5
  <2> QED
    BY <2>4, <2>8, <2>9, <2>10 DEF Plus, g
<1> QED
  BY <1>11, <1>12

-----------------------------------------------------------------------------
(* The invariant *)

LEMMA SupplyFinish == TypeInv /\ SupplyInv /\ FinishBlock => SupplyInv'
<1> SUFFICES ASSUME TypeInv, SupplyInv, FinishBlock PROVE SupplyInv'
  OBVIOUS
<1> DEFINE n == Len(chain)
           c == chain'
           b == UpdateSupply(block)
           T == ChainTxs(chain)
           E == Elements(block.txs)
<1>1. /\ pc = "build" /\ pc' = "index" /\ n \in Nat /\ DOMAIN chain = 1 .. n
      /\ DOMAIN c = 1 .. n + 1 /\ c[n + 1] = b /\ \A h \in 1 .. n : c[h] = chain[h]
      /\ block.height = n + 1
  BY FinishedFact, TypeFact, BuildFact DEF FinishBlock
<1>2. b.txs = block.txs /\ b.supply = SupplyAfter(block)
  BY <1>1, BuildFact, UpdatedSupplyFact DEF SameBlock
<1>3. \A h \in 0 .. n : TxsTo(c, h) = TxsTo(chain, h)
  <2>1. \A h \in 1 .. n : chain[h] = c[h]
    BY <1>1
  <2> HIDE DEF c
  <2> QED
    BY <1>1, <2>1, TxsToSame
<1>4. TxsTo(c, n + 1) = T \cup E
  <2>1. T = TxsTo(c, n)
    BY <1>1, <1>3, ChainFact
  <2>2. 1 .. n + 1 = (1 .. n) \cup {n + 1}
    BY <1>1
  <2>3. TxsTo(c, n + 1) = TxsTo(c, n) \cup Elements(c[n + 1].txs)
    BY <2>2 DEF TxsTo
  <2> QED
    BY <1>1, <1>2, <2>1, <2>3
<1>5. Consistent(T \cup E)
  BY <1>1, SuppliesNext
<1>6. SuppliesRight(c, n + 1)
  <2>1. (~ \E t \in T \cup E : Mistaken(t)) =>
           /\ b.supply.wrapped = AllNet(WrappedValue, T \cup E) % WordSize
           /\ b.supply.public = AllNet(PublicValue, T \cup E) % WordSize
           /\ n + 1 = PrivateHeight => b.supply.private = PrivateSupply
           /\ n + 1 > PrivateHeight /\ (~ \E t \in T \cup E : GivesHidden(t)) =>
                 b.supply.private =
                    Plus(PrivateSupply, AllNet(HiddenValue, T \cup E)
                                           - AllNet(HiddenValue, TxsTo(chain, PrivateHeight)))
    BY <1>1, <1>2, SuppliesNext
  <2>2. CASE n + 1 = PrivateHeight
    <3>1. AllNet(HiddenValue, T \cup E) - AllNet(HiddenValue, T \cup E) = 0
      <4>1. AllNet(HiddenValue, T \cup E) \in Int
        BY <1>5, AllNetType DEF Consistent
      <4> QED
        BY <4>1
    <3>2. Plus(PrivateSupply, 0) = PrivateSupply
      <4>1. PrivateSupply \in 0 .. WordSize - 1 /\ WordSize \in Nat \ {0}
        BY RawAssumption
      <4>2. PrivateSupply + 0 = PrivateSupply
        BY <4>1
      <4> QED
        BY <4>1, <4>2, ModSmall DEF Plus
    <3>3. TxsTo(c, PrivateHeight) = T \cup E
      BY <1>4, <2>2
    <3> HIDE DEF b, T, E, c
    <3> QED
      BY <1>1, <1>4, <2>1, <2>2, <3>1, <3>2, <3>3 DEF SuppliesRight
  <2>3. CASE n + 1 # PrivateHeight
    <3>1. PrivateHeight \in Nat
      BY RawAssumption
    <3>2. n + 1 >= PrivateHeight => n + 1 > PrivateHeight /\ PrivateHeight \in 0 .. n
      BY <1>1, <2>3, <3>1
    <3>3. n + 1 >= PrivateHeight => TxsTo(c, PrivateHeight) = TxsTo(chain, PrivateHeight)
      BY <1>3, <3>2
    <3> HIDE DEF b, T, E, c
    <3> QED
      BY <1>1, <1>4, <2>1, <3>2, <3>3 DEF SuppliesRight
  <2> QED
    BY <2>2, <2>3
<1>7. ASSUME NEW h \in 1 .. n PROVE Consistent(TxsTo(c, h)) /\ SuppliesRight(c, h)
  <2>1. Consistent(TxsTo(chain, h)) /\ SuppliesRight(chain, h)
    BY <1>1 DEF SupplyInv
  <2>2. h \in 0 .. n /\ \A k \in 1 .. n : chain[k] = c[k]
    BY <1>1
  <2> HIDE DEF c
  <2> QED
    BY <1>1, <1>3, <2>1, <2>2, SuppliesSame
<1>8. ASSUME NEW h \in DOMAIN c PROVE Consistent(TxsTo(c, h)) /\ SuppliesRight(c, h)
  <2>1. h \in 1 .. n \/ h = n + 1
    BY <1>1
  <2> HIDE DEF c, T, E, b
  <2> QED
    BY <1>4, <1>5, <1>6, <1>7, <2>1
<1> QED
  BY <1>1, <1>8 DEF SupplyInv

\* The supplies of what is left of a chain.
LEMMA SupplyCut ==
    ASSUME TypeInv, SupplyInv, NEW n \in 0 .. Len(chain), chain' = SubSeq(chain, 1, n), pc' # "build"
    PROVE  SupplyInv'
<1> DEFINE c == chain'
<1>1. DOMAIN c = 1 .. n /\ n \in Nat /\ \A h \in 1 .. n : h \in DOMAIN chain /\ chain[h] = c[h]
  BY TypeFact, PlacedCut
<1>2. ASSUME NEW h \in DOMAIN c PROVE Consistent(TxsTo(c, h)) /\ SuppliesRight(c, h)
  <2>1. h \in 1 .. n /\ h \in 0 .. n
    BY <1>1
  <2>2. Consistent(TxsTo(chain, h)) /\ SuppliesRight(chain, h)
    BY <1>1, <2>1 DEF SupplyInv
  <2> HIDE DEF c
  <2>3. TxsTo(chain, h) = TxsTo(c, h)
    BY <1>1, <2>1, TxsToSame
  <2> QED
    BY <1>1, <2>1, <2>2, <2>3, SuppliesSame
<1> QED
  BY <1>2 DEF SupplyInv

LEMMA SupplyStep == TypeInv /\ SupplyInv /\ [Next]_vars => SupplyInv'
<1> SUFFICES ASSUME TypeInv, SupplyInv, [Next]_vars PROVE SupplyInv'
  OBVIOUS
<1>0. ASSUME chain' = chain, pc' = "build" => block'.supply = Last.supply PROVE SupplyInv'
  BY <1>0 DEF SupplyInv, SuppliesRight, TxsTo, Last
<1>1. CASE UNCHANGED <<chain, block, at, pc>>
  BY <1>0, <1>1 DEF SupplyInv
<1>2. CASE UNCHANGED <<chain, block>> /\ pc # "build" /\ pc' # "build"
  BY <1>0, <1>2
<1>3. CASE FetchBlock
  <2>1. PICK txs : block' = CreateBlock(txs, Last)
    BY <1>3 DEF FetchBlock
  <2>2. block'.supply = Last.supply
    BY <2>1 DEF CreateBlock, NoBlock
  <2>3. chain' = chain
    BY <1>3 DEF FetchBlock, index
  <2> QED
    BY <1>0, <2>2, <2>3
<1>4. CASE IndexPreviousTx
  BY <1>0, <1>4 DEF IndexPreviousTx, index, SupplyInv
<1>5. CASE IndexTransaction
  <2>1. /\ Building /\ UNCHANGED <<chain, pc>> /\ pc = "build"
        /\ block' = CreateBlockTransaction(Current, block)
    BY <1>5 DEF IndexTransaction, index, Building
  <2>2. block'.supply = block.supply
    BY <2>1, BuildFact, AddedTransactionFact
  <2>3. block.supply = Last.supply
    BY <2>1 DEF SupplyInv
  <2> QED
    BY <1>0, <2>1, <2>2, <2>3
<1>6. CASE FinishBlock
  BY <1>6, SupplyFinish
<1>7. CASE pc' # "build" /\ \E n \in 0 .. Len(chain) : chain' = SubSeq(chain, 1, n)
  BY <1>7, SupplyCut
<1> QED
  BY <1>1, <1>2, <1>3, <1>4, <1>5, <1>6, <1>7, BlockStep

\* In every block, however often it was indexed, the supplies are what the
\* transactions so far have added, and those follow each other.
THEOREM SupplyInvariant == Spec => []SupplyInv
<1>1. Init => SupplyInv
  BY DEF Init, SupplyInv
<1>2. TypeInv /\ SupplyInv /\ [Next]_vars => SupplyInv'
  BY SupplyStep
<1> QED
  BY <1>1, <1>2, TypeAlways, PTL DEF Spec

-----------------------------------------------------------------------------
(* Supplies and coins *)

\* The coins in what is not spent, by what the transactions have added.
LEMMA CoinsFact ==
    ASSUME NEW T, Consistent(T), NEW S, S \subseteq AllOutputs
    PROVE  LET U == OutputsOf(T) \ SpentBy(T) IN
           /\ Coins(U \cap S) = AllNet(ValueIf(S), T)
           /\ Coins(U \cap S) \in Nat /\ Coins(U \cap S) <= Coins(U)
<1> DEFINE U == OutputsOf(T) \ SpentBy(T)
           v == [p \in AllOutputs |-> OutputOf(p).holds]
           w == ValueIf(S)
<1>1. IsValue(w) /\ \A p \in AllOutputs : w[p] = IF p \in S THEN OutputOf(p).holds ELSE 0
  BY ValueIfFact
<1>2. /\ IsFiniteSet(OutputsOf(T)) /\ OutputsOf(T) \subseteq AllOutputs
      /\ SumFunctionOnSet(w, U) = AllNet(w, T)
  BY <1>1, UnspentSum
<1>3. IsFiniteSet(U) /\ U \subseteq AllOutputs
  BY <1>2, FS_Subset
<1>4. \A p \in AllOutputs : v[p] \in Nat /\ v[p] = OutputOf(p).holds
  BY OutputFact
<1>5. ASSUME NEW Q, Q \subseteq U PROVE Coins(Q) = SumFunctionOnSet(v, Q)
  <2> DEFINE f == [p \in Q |-> OutputOf(p).holds]
  <2>1. Coins(Q) = SumFunctionOnSet(f, Q)
    BY DEF Coins, SumFunction
  <2>2. \A p \in Q : f[p] = OutputOf(p).holds /\ p \in AllOutputs
    BY <1>3, <1>5
  <2>3. IsFiniteSet(Q)
    BY <1>3, <1>5, FS_Subset
  <2> HIDE DEF f, v
  <2>4. \A p \in Q : f[p] \in Int /\ f[p] = v[p]
    BY <1>4, <2>2
  <2> QED
    BY <2>1, <2>3, <2>4, SumSame
<1> HIDE DEF U, v, w
<1>6. IsFiniteSet(U \cap S) /\ U \cap S \subseteq U
  BY <1>3, FS_Subset
<1>7. SumFunctionOnSet(w, U) = SumFunctionOnSet(v, U \cap S)
  <2>1. \A p \in U \cap S : v[p] \in Int /\ w[p] = v[p]
    BY <1>1, <1>3, <1>4
  <2>2. \A p \in U \ (U \cap S) : w[p] = 0
    BY <1>1, <1>3
  <2> QED
    BY <1>3, <1>6, <2>1, <2>2, SumPart
<1>8. SumFunctionOnSet(v, U \cap S) \in Nat
  BY <1>3, <1>4, <1>6, SumNat
<1>9. SumFunctionOnSet(v, U \cap S) <= SumFunctionOnSet(v, U)
  BY <1>3, <1>4, <1>6, SumLess
<1>10. Coins(U \cap S) = SumFunctionOnSet(v, U \cap S) /\ Coins(U) = SumFunctionOnSet(v, U)
  BY <1>5, <1>6
<1> QED
  BY <1>2, <1>7, <1>8, <1>9, <1>10 DEF U, w

\* What no block of a chain spends.
LEMMA UnspentFact ==
    ASSUME NEW c, NEW n, DOMAIN c = 1 .. n
    PROVE  Unspent(c) = OutputsOf(TxsTo(c, n)) \ SpentBy(TxsTo(c, n))
<1>1. ChainTxs(c) = TxsTo(c, n)
  BY DEF ChainTxs, TxsTo, Elements
<1>2. ChainSpent(c) = SpentBy(ChainTxs(c))
  BY DEF ChainSpent, SpentIn, SpentBy, ChainTxs
<1> QED
  BY <1>1, <1>2 DEF Unspent, OutputsOf

LEMMA ChainCoins ==
    ASSUME NEW c, NEW n, DOMAIN c = 1 .. n, Consistent(TxsTo(c, n))
    PROVE  /\ PublicCoins(c) = AllNet(PublicValue, TxsTo(c, n))
           /\ WrappedCoins(c) = AllNet(WrappedValue, TxsTo(c, n))
           /\ HiddenCoins(c) = AllNet(HiddenValue, TxsTo(c, n))
           /\ PublicCoins(c) \in Nat /\ PublicCoins(c) <= Coins(Unspent(c))
           /\ WrappedCoins(c) \in Nat /\ WrappedCoins(c) <= Coins(Unspent(c))
<1> DEFINE P == {p \in AllOutputs : IsPublic(p)}
           W == {p \in AllOutputs : OutputIsWrapped(OutputOf(p))}
           H == {p \in AllOutputs : OutputOf(p).rangeProof}
           U == Unspent(c)
<1>1. U = OutputsOf(TxsTo(c, n)) \ SpentBy(TxsTo(c, n))
  BY UnspentFact
<1>2. U \subseteq AllOutputs
  BY <1>1 DEF OutputsOf, AllOutputs, Consistent
<1>3. /\ {p \in U : IsPublic(p)} = U \cap P
      /\ {p \in U : OutputIsWrapped(OutputOf(p))} = U \cap W
      /\ {p \in U : OutputOf(p).rangeProof} = U \cap H
  BY <1>2
<1>4. /\ PublicCoins(c) = Coins(U \cap P) /\ WrappedCoins(c) = Coins(U \cap W)
      /\ HiddenCoins(c) = Coins(U \cap H)
  BY <1>3 DEF PublicCoins, WrappedCoins, HiddenCoins
<1>5. P \subseteq AllOutputs /\ W \subseteq AllOutputs /\ H \subseteq AllOutputs
  OBVIOUS
<1>6. PublicValue = ValueIf(P) /\ WrappedValue = ValueIf(W) /\ HiddenValue = ValueIf(H)
  BY DEF PublicValue, WrappedValue, HiddenValue
<1> HIDE DEF P, W, H, U
<1>7. ASSUME NEW S, S \subseteq AllOutputs
      PROVE  /\ Coins(U \cap S) = AllNet(ValueIf(S), TxsTo(c, n))
             /\ Coins(U \cap S) \in Nat /\ Coins(U \cap S) <= Coins(U)
  BY <1>1, <1>7, CoinsFact
<1> QED
  BY <1>4, <1>5, <1>6, <1>7 DEF U

\* The last block, which is there.
LEMMA LastSupply ==
    ASSUME TypeInv, SupplyInv, Indexed
    PROVE  /\ Len(chain) \in DOMAIN chain /\ DOMAIN chain = 1 .. Len(chain)
           /\ Last = chain[Len(chain)] /\ Last.height = Len(chain)
           /\ TxsTo(chain, Len(chain)) = ChainTxs(chain)
           /\ Consistent(ChainTxs(chain)) /\ SuppliesRight(chain, Len(chain))
<1>1. /\ Len(chain) \in Nat /\ DOMAIN chain = 1 .. Len(chain) /\ top \in Nat /\ top < Len(chain)
      /\ chain = <<>> <=> Len(chain) = 0
  BY TypeFact DEF Indexed
<1>2. Len(chain) \in DOMAIN chain /\ Last = chain[Len(chain)]
  BY <1>1 DEF Last
<1>3. Last.height = Len(chain)
  BY LastFact
<1>4. TxsTo(chain, Len(chain)) = ChainTxs(chain)
  BY ChainFact
<1>5. Consistent(TxsTo(chain, Len(chain))) /\ SuppliesRight(chain, Len(chain))
  BY <1>2 DEF SupplyInv
<1> QED
  BY <1>1, <1>2, <1>3, <1>4, <1>5

\* The public and the wrapped supply are the coins in the outputs that are not
\* spent, for every history of blocks, rewinds and kills, as long as the coins
\* there are fit into a uint64 and no transaction is mistaken for another: what
\* is carried from block to block by additions and subtractions never drifts.
THEOREM SupplyCorrect == Spec /\ []CoinsFit => []SupplyIsUnspent
<1>1. TypeInv /\ SupplyInv /\ CoinsFit => SupplyIsUnspent
  <2> SUFFICES ASSUME TypeInv, SupplyInv, CoinsFit, Indexed,
                      ~ \E t \in ChainTxs(chain) : Mistaken(t)
               PROVE  /\ Last.supply.wrapped = WrappedCoins(chain)
                      /\ Last.supply.public = PublicCoins(chain)
    BY DEF SupplyIsUnspent
  <2> DEFINE T == ChainTxs(chain)
  <2>1. /\ DOMAIN chain = 1 .. Len(chain) /\ TxsTo(chain, Len(chain)) = T /\ Consistent(T)
        /\ Last = chain[Len(chain)] /\ SuppliesRight(chain, Len(chain))
    BY LastSupply
  <2>2. /\ Last.supply.wrapped = AllNet(WrappedValue, T) % WordSize
        /\ Last.supply.public = AllNet(PublicValue, T) % WordSize
    BY <2>1 DEF SuppliesRight
  <2>3. /\ PublicCoins(chain) = AllNet(PublicValue, T)
        /\ WrappedCoins(chain) = AllNet(WrappedValue, T)
        /\ PublicCoins(chain) \in Nat /\ PublicCoins(chain) <= Coins(Unspent(chain))
        /\ WrappedCoins(chain) \in Nat /\ WrappedCoins(chain) <= Coins(Unspent(chain))
    BY <2>1, ChainCoins
  <2>4. Coins(Unspent(chain)) < WordSize /\ WordSize \in Nat \ {0}
    BY RawAssumption DEF CoinsFit
  <2>5. Coins(Unspent(chain)) \in Int
    <3> DEFINE S == AllOutputs
               U == OutputsOf(T) \ SpentBy(T)
    <3>1. Unspent(chain) = U
      BY <2>1, UnspentFact
    <3>2. U \cap S = U
      BY <2>1, UnspentSum, ValuesFact
    <3>3. Coins(U \cap S) \in Nat
      BY <2>1, CoinsFact
    <3> QED
      BY <3>1, <3>2, <3>3
  <2>6. PublicCoins(chain) \in 0 .. WordSize - 1 /\ WrappedCoins(chain) \in 0 .. WordSize - 1
    BY <2>3, <2>4, <2>5
  <2> QED
    BY <2>2, <2>3, <2>4, <2>6, ModSmall
<1> QED
  BY <1>1, TypeAlways, SupplyInvariant, PTL

\* The private supply follows the coins behind range proofs, for every history:
\* what is hidden is the difference of values that are public.
THEOREM PrivateSupplyCorrect == Spec => []PrivateSupplyIsHidden
<1>1. TypeInv /\ SupplyInv => PrivateSupplyIsHidden
  <2> SUFFICES ASSUME TypeInv, SupplyInv, Indexed, Last.height >= PrivateHeight,
                      ~ \E t \in ChainTxs(chain) : Mistaken(t) \/ GivesHidden(t)
               PROVE  Last.supply.private =
                         Plus(PrivateSupply, HiddenCoins(chain)
                                                - HiddenCoins(SubSeq(chain, 1, PrivateHeight)))
    BY DEF PrivateSupplyIsHidden
  <2> DEFINE T == ChainTxs(chain)
             c == SubSeq(chain, 1, PrivateHeight)
  <2>1. /\ DOMAIN chain = 1 .. Len(chain) /\ TxsTo(chain, Len(chain)) = T /\ Consistent(T)
        /\ Last = chain[Len(chain)] /\ SuppliesRight(chain, Len(chain)) /\ Last.height = Len(chain)
    BY LastSupply
  <2>2. PrivateHeight \in 1 .. Len(chain) /\ PrivateHeight \in Nat
    BY <2>1, RawAssumption, TypeFact
  <2>3. Last.supply.private =
           Plus(PrivateSupply, AllNet(HiddenValue, T)
                                  - AllNet(HiddenValue, TxsTo(chain, PrivateHeight)))
    BY <2>1 DEF SuppliesRight
  <2>4. DOMAIN c = 1 .. PrivateHeight /\ \A h \in 1 .. PrivateHeight : chain[h] = c[h]
    BY <2>2, TypeFact, PlacedCut
  <2>5. Consistent(TxsTo(chain, PrivateHeight))
    BY <2>1, <2>2 DEF SupplyInv
  <2> HIDE DEF c
  <2>6. TxsTo(chain, PrivateHeight) = TxsTo(c, PrivateHeight)
    BY <2>2, <2>4, TxsToSame
  <2>7. HiddenCoins(c) = AllNet(HiddenValue, TxsTo(chain, PrivateHeight))
    BY <2>4, <2>5, <2>6, ChainCoins
  <2>8. HiddenCoins(chain) = AllNet(HiddenValue, T)
    BY <2>1, ChainCoins
  <2> QED
    BY <2>3, <2>7, <2>8 DEF c
<1> QED
  BY <1>1, TypeAlways, SupplyInvariant, PTL

-----------------------------------------------------------------------------
(* Sums that are the same but for multiples of the word size *)

\* The same but for multiples of n.
Alike(a, b, n) == a % n = b % n

LEMMA AlikeSum ==
    ASSUME NEW n \in Nat \ {0}, NEW a \in Int, NEW b \in Int, NEW c \in Int, NEW d \in Int,
           Alike(a, b, n), Alike(c, d, n)
    PROVE  Alike(a + c, b + d, n)
<1>1. ((a % n) + c) % n = (a + c) % n /\ ((b % n) + c) % n = (b + c) % n
  BY ModPlus
<1>2. ((c % n) + b) % n = (c + b) % n /\ ((d % n) + b) % n = (d + b) % n
  BY ModPlus
<1>3. b + c = c + b /\ b + d = d + b
  OBVIOUS
<1> QED
  BY <1>1, <1>2, <1>3 DEF Alike

LEMMA AlikeLess ==
    ASSUME NEW n \in Nat \ {0}, NEW a \in Int, NEW b \in Int, NEW c \in Int,
           Alike(a, b, n)
    PROVE  Alike(c - a, c - b, n)
<1> DEFINE q == a \div n
           r == a % n
           p == b \div n
           e == c - b
           u == e \div n
           s == e % n
<1>1. r \in 0 .. n - 1 /\ q \in Int /\ a = n * q + r
  BY ModFact
<1>2. p \in Int /\ b = n * p + r
  BY ModFact DEF Alike
<1> HIDE DEF q, r, p, e
<1>3. e \in Int
  BY DEF e
<1>4. s \in 0 .. n - 1 /\ u \in Int /\ e = n * u + s
  BY <1>3, ModFact
<1> HIDE DEF u, s
<1>5. n * (u + p - q) = n * u + n * p - n * q /\ n * u \in Int /\ n * p \in Int /\ n * q \in Int
  BY <1>1, <1>2, <1>4
<1>6. c - a = n * (u + p - q) + s
  BY <1>1, <1>2, <1>4, <1>5 DEF e
<1>7. c - a \in Int /\ u + p - q \in Int
  BY <1>1, <1>2, <1>4
<1>8. (c - a) % n = s
  <2> DEFINE x == c - a
             k == u + p - q
  <2>1. x \in Int /\ k \in Int /\ x = n * k + s
    BY <1>6, <1>7
  <2> HIDE DEF x, k
  <2>2. x % n = s
    BY <1>4, <2>1, ModFact
  <2> QED
    BY <2>2 DEF x
<1> QED
  BY <1>8 DEF s, e, Alike

LEMMA AlikeRest ==
    ASSUME NEW n \in Nat \ {0}, NEW a \in Int
    PROVE  a % n \in Int /\ Alike(a % n, a, n) /\ Alike(a, a % n, n)
<1>1. a % n \in Int
  BY ModFact
<1> QED
  BY <1>1, ModTwice DEF Alike

\* Values that are the same but for multiples of n.
LEMMA SumAlike ==
    ASSUME NEW n \in Nat \ {0}, NEW v, NEW w, NEW S, IsFiniteSet(S),
           \A x \in S : v[x] \in Int /\ w[x] \in Int /\ Alike(v[x], w[x], n)
    PROVE  Alike(SumFunctionOnSet(v, S), SumFunctionOnSet(w, S), n)
<1> DEFINE F == {T \in SUBSET S : Alike(SumFunctionOnSet(v, T), SumFunctionOnSet(w, T), n)}
<1>1. {} \in F
  BY SumEmpty DEF Alike
<1>2. ASSUME NEW T \in SUBSET S, NEW x \in S \ T, T \in F PROVE T \cup {x} \in F
  <2>1. IsFiniteSet(T) /\ \A y \in T : v[y] \in Int /\ w[y] \in Int
    BY FS_Subset
  <2>2. /\ SumFunctionOnSet(v, T \cup {x}) = v[x] + SumFunctionOnSet(v, T)
        /\ SumFunctionOnSet(w, T \cup {x}) = w[x] + SumFunctionOnSet(w, T)
    BY <2>1, SumAdd
  <2>3. SumFunctionOnSet(v, T) \in Int /\ SumFunctionOnSet(w, T) \in Int
    BY <2>1, SumType
  <2>4. Alike(SumFunctionOnSet(v, T), SumFunctionOnSet(w, T), n)
    BY <1>2
  <2>5. v[x] \in Int /\ w[x] \in Int /\ Alike(v[x], w[x], n)
    OBVIOUS
  <2>6. Alike(v[x] + SumFunctionOnSet(v, T), w[x] + SumFunctionOnSet(w, T), n)
    BY <2>3, <2>4, <2>5, AlikeSum
  <2> QED
    BY <2>2, <2>6
<1> HIDE DEF F
<1>3. S \in F
  BY <1>1, <1>2, FiniteInduction
<1> QED
  BY <1>3 DEF F

-----------------------------------------------------------------------------
(* What a transaction adds to all supplies *)

\* What the code counts of a transaction's outputs, inputs and fees.
CountedOut(t) == SumFunction([n \in Counted(t) |-> VoutValue(t, n)])
CountedIn(t)  == SumFunction([i \in Inputs(t) |-> VinValue(t, i)])
CountedFee(t) == SumFunction([n \in FeeOutputs(t) |-> VoutValue(t, n)])

\* The values of some outputs, or of some inputs, as a sum over all of them.
LEMMA PartOut ==
    ASSUME NEW t \in Tx, NEW S, S \subseteq DOMAIN Raw[t].vout
    PROVE  LET f == Spread([n \in S |-> VoutValue(t, n)], DOMAIN Raw[t].vout) IN
           /\ SumFunction([n \in S |-> VoutValue(t, n)]) = SumFunctionOnSet(f, DOMAIN Raw[t].vout)
           /\ SumFunction([n \in S |-> VoutValue(t, n)]) \in Int
           /\ \A n \in DOMAIN Raw[t].vout : /\ f[n] \in Int
                                            /\ f[n] = IF n \in S THEN VoutValue(t, n) ELSE 0
<1> DEFINE D == DOMAIN Raw[t].vout
           a == [n \in S |-> VoutValue(t, n)]
           f == Spread(a, D)
<1>1. IsFiniteSet(D)
  BY VoutFact
<1>2. DOMAIN a \subseteq D /\ \A n \in DOMAIN a : a[n] \in Int
  BY VoutValueFact
<1>3. \A n \in D : f[n] = IF n \in S THEN VoutValue(t, n) ELSE 0
  BY DEF Spread
<1> HIDE DEF a, D
<1>4. SumFunction(a) = SumFunctionOnSet(f, D) /\ \A n \in D : f[n] \in Int
  BY <1>1, <1>2, SpreadFact
<1> HIDE DEF f
<1>5. SumFunctionOnSet(f, D) \in Int
  BY <1>1, <1>4, SumType
<1> QED
  BY <1>3, <1>4, <1>5 DEF a, D, f

LEMMA PartIn ==
    ASSUME NEW t \in Tx, NEW S, S \subseteq Inputs(t)
    PROVE  LET f == Spread([i \in S |-> VinValue(t, i)], Inputs(t)) IN
           /\ SumFunction([i \in S |-> VinValue(t, i)]) = SumFunctionOnSet(f, Inputs(t))
           /\ SumFunction([i \in S |-> VinValue(t, i)]) \in Int
           /\ \A i \in Inputs(t) : /\ f[i] \in Int
                                   /\ f[i] = IF i \in S THEN VinValue(t, i) ELSE 0
<1> DEFINE D == Inputs(t)
           a == [i \in S |-> VinValue(t, i)]
           f == Spread(a, D)
<1>1. IsFiniteSet(D)
  BY VinFact
<1>2. DOMAIN a \subseteq D /\ \A i \in DOMAIN a : a[i] \in Int
  BY VoutValueFact
<1>3. \A i \in D : f[i] = IF i \in S THEN VinValue(t, i) ELSE 0
  BY DEF Spread
<1> HIDE DEF a, D
<1>4. SumFunction(a) = SumFunctionOnSet(f, D) /\ \A i \in D : f[i] \in Int
  BY <1>1, <1>2, SpreadFact
<1> HIDE DEF f
<1>5. SumFunctionOnSet(f, D) \in Int
  BY <1>1, <1>4, SumType
<1> QED
  BY <1>3, <1>4, <1>5 DEF a, D, f

\* An output is public, wrapped, or private with the value 0.
LEMMA KindsOut ==
    ASSUME NEW t \in Tx
    PROVE  CountedOut(t) = SumFunction([n \in PublicOutputs(t) |-> VoutValue(t, n)])
                             + SumFunction([n \in {n \in Counted(t) : Wrapped(t, n)} |-> VoutValue(t, n)])
<1> DEFINE D == DOMAIN Raw[t].vout
           C == Counted(t)
           P == PublicOutputs(t)
           W == {n \in C : Wrapped(t, n)}
           c == Spread([n \in C |-> VoutValue(t, n)], D)
           p == Spread([n \in P |-> VoutValue(t, n)], D)
           w == Spread([n \in W |-> VoutValue(t, n)], D)
<1>1. C \subseteq D /\ P \subseteq D /\ W \subseteq D
  BY DEF Counted, PublicOutputs
<1>2. ASSUME NEW n \in D
      PROVE  /\ n \in P <=> n \in C /\ ~ Private(t, n) /\ ~ Wrapped(t, n)
             /\ n \in W <=> n \in C /\ Wrapped(t, n)
             /\ Private(t, n) => VoutValue(t, n) = 0
             /\ VoutValue(t, n) \in Int
  <2>1. Private(t, n) => VoutValue(t, n) = 0
    BY RawFact DEF Private
  <2>2. VoutValue(t, n) \in Nat
    BY VoutValueFact
  <2> QED
    BY <2>1, <2>2 DEF PublicOutputs
<1>3. IsFiniteSet(D)
  BY VoutFact
<1> HIDE DEF P, W
<1>4. /\ CountedOut(t) = SumFunctionOnSet(c, D)
      /\ \A n \in D : c[n] = IF n \in C THEN VoutValue(t, n) ELSE 0
  BY <1>1, PartOut DEF CountedOut
<1>5. /\ SumFunction([n \in P |-> VoutValue(t, n)]) = SumFunctionOnSet(p, D)
      /\ \A n \in D : p[n] \in Int /\ p[n] = IF n \in P THEN VoutValue(t, n) ELSE 0
  BY <1>1, PartOut
<1>6. /\ SumFunction([n \in W |-> VoutValue(t, n)]) = SumFunctionOnSet(w, D)
      /\ \A n \in D : w[n] \in Int /\ w[n] = IF n \in W THEN VoutValue(t, n) ELSE 0
  BY <1>1, PartOut
<1> HIDE DEF C, D, c, p, w
<1>7. \A n \in D : p[n] \in Int /\ w[n] \in Int /\ c[n] = p[n] + w[n]
  BY <1>2, <1>4, <1>5, <1>6
<1>8. SumFunctionOnSet(c, D) = SumFunctionOnSet(p, D) + SumFunctionOnSet(w, D)
  BY <1>3, <1>7, SumPlus
<1> QED
  BY <1>4, <1>5, <1>6, <1>8 DEF P, W, C

LEMMA KindsIn ==
    ASSUME NEW t \in Tx
    PROVE  CountedIn(t)
              = SumFunction([i \in {i \in Inputs(t) : ~ PrevPrivate(t, i) /\ ~ PrevWrapped(t, i)}
                                |-> VinValue(t, i)])
                  + SumFunction([i \in {i \in Inputs(t) : PrevWrapped(t, i)} |-> VinValue(t, i)])
<1> DEFINE C == Inputs(t)
           P == {i \in C : ~ PrevPrivate(t, i) /\ ~ PrevWrapped(t, i)}
           W == {i \in C : PrevWrapped(t, i)}
           c == Spread([i \in C |-> VinValue(t, i)], C)
           p == Spread([i \in P |-> VinValue(t, i)], C)
           w == Spread([i \in W |-> VinValue(t, i)], C)
<1>1. C \subseteq C /\ P \subseteq C /\ W \subseteq C
  OBVIOUS
<1>2. ASSUME NEW i \in C
      PROVE  /\ i \in P <=> ~ PrevPrivate(t, i) /\ ~ PrevWrapped(t, i)
             /\ i \in W <=> PrevWrapped(t, i)
             /\ PrevPrivate(t, i) => VinValue(t, i) = 0
             /\ VinValue(t, i) \in Int
  <2> DEFINE s == Spent(t, i)
  <2>1. s \in AllOutputs
    BY VinFact
  <2>2. PrevPrivate(t, i) => OutputOf(s).rangeProof
    BY DEF PrevPrivate, Private, OutputOf
  <2>3. VinValue(t, i) = OutputOf(s).value
    BY DEF VinValue
  <2> HIDE DEF s
  <2>4. PrevPrivate(t, i) => VinValue(t, i) = 0
    BY <2>1, <2>2, <2>3, OutputFact
  <2>5. VinValue(t, i) \in Nat
    BY VoutValueFact
  <2> QED
    BY <2>4, <2>5
<1>3. IsFiniteSet(C)
  BY VinFact
<1> HIDE DEF P, W
<1>4. /\ CountedIn(t) = SumFunctionOnSet(c, C)
      /\ \A i \in C : c[i] = VinValue(t, i)
  BY <1>1, PartIn DEF CountedIn
<1>5. /\ SumFunction([i \in P |-> VinValue(t, i)]) = SumFunctionOnSet(p, C)
      /\ \A i \in C : p[i] \in Int /\ p[i] = IF i \in P THEN VinValue(t, i) ELSE 0
  BY <1>1, PartIn
<1>6. /\ SumFunction([i \in W |-> VinValue(t, i)]) = SumFunctionOnSet(w, C)
      /\ \A i \in C : w[i] \in Int /\ w[i] = IF i \in W THEN VinValue(t, i) ELSE 0
  BY <1>1, PartIn
<1>7. ASSUME NEW i \in C PROVE ~ (PrevPrivate(t, i) /\ PrevWrapped(t, i))
  <2> DEFINE s == Spent(t, i)
  <2>1. s[2] \in DOMAIN Raw[s[1]].vout
    BY VinFact, OutputFact
  <2> QED
    BY <2>1 DEF PrevPrivate, PrevWrapped, Private, MayBePrivate, WrapsOutput
<1> HIDE DEF C, c, p, w
<1>8. \A i \in C : p[i] \in Int /\ w[i] \in Int /\ c[i] = p[i] + w[i]
  BY <1>2, <1>4, <1>5, <1>6, <1>7
<1>9. SumFunctionOnSet(c, C) = SumFunctionOnSet(p, C) + SumFunctionOnSet(w, C)
  BY <1>3, <1>8, SumPlus
<1> QED
  BY <1>4, <1>5, <1>6, <1>9 DEF P, W, C

\* The supplies together lose the fee of a private transaction, and change by
\* the values of any other.
LEMMA ChangeIs ==
    ASSUME NEW t \in Tx
    PROVE  /\ PublicChange(t) \in Int /\ PrivateChange(t) \in Int /\ WrappedChange(t) \in Int
           /\ CountedOut(t) \in Int /\ CountedIn(t) \in Int /\ CountedFee(t) \in Int
           /\ Change(t) = IF IsPrivate(t) THEN 0 - CountedFee(t) ELSE CountedOut(t) - CountedIn(t)
<1> DEFINE po == SumFunction([n \in PublicOutputs(t) |-> VoutValue(t, n)])
           wo == SumFunction([n \in {n \in Counted(t) : Wrapped(t, n)} |-> VoutValue(t, n)])
           P == {i \in Inputs(t) : ~ PrevPrivate(t, i) /\ ~ PrevWrapped(t, i)}
           pi == SumFunction([i \in P |-> VinValue(t, i)])
           W == {i \in Inputs(t) : PrevWrapped(t, i)}
           wi == SumFunction([i \in W |-> VinValue(t, i)])
<1>1. /\ CountedOut(t) \in Int /\ CountedFee(t) \in Int /\ po \in Int /\ wo \in Int
  <2>1. /\ Counted(t) \subseteq DOMAIN Raw[t].vout /\ PublicOutputs(t) \subseteq DOMAIN Raw[t].vout
        /\ FeeOutputs(t) \subseteq DOMAIN Raw[t].vout
        /\ {n \in Counted(t) : Wrapped(t, n)} \subseteq DOMAIN Raw[t].vout
    BY DEF Counted, PublicOutputs, FeeOutputs
  <2> QED
    BY <2>1, PartOut DEF CountedOut, CountedFee
<1>2. CountedIn(t) \in Int /\ pi \in Int /\ wi \in Int
  <2>1. Inputs(t) \subseteq Inputs(t) /\ P \subseteq Inputs(t) /\ W \subseteq Inputs(t)
    OBVIOUS
  <2> HIDE DEF P, W
  <2> QED
    BY <2>1, PartIn DEF CountedIn
<1>3. CountedOut(t) = po + wo
  BY KindsOut
<1>4. CountedIn(t) = pi + wi
  BY KindsIn
<1>5. PublicChange(t) = po - CountedFee(t) - pi
  BY DEF PublicChange, CountedFee
<1>6. WrappedChange(t) = wo - wi
  BY DEF WrappedChange
<1>7. PrivateChange(t) = IF IsPrivate(t) THEN CountedIn(t) - CountedOut(t) ELSE 0
  BY DEF PrivateChange, CountedIn, CountedOut
<1>8. ~ IsPrivate(t) => CountedFee(t) = 0
  <2>1. \A f : DOMAIN f = {} => SumFunction(f) = 0
    BY SumEmpty DEF SumFunction
  <2>2. ~ IsPrivate(t) => FeeOutputs(t) = {}
    BY DEF FeeOutputs
  <2> QED
    BY <2>1, <2>2 DEF CountedFee
<1> HIDE DEF po, wo, pi, wi
<1>9. CASE IsPrivate(t)
  BY <1>1, <1>2, <1>3, <1>4, <1>5, <1>6, <1>7, <1>9 DEF Change
<1>10. CASE ~ IsPrivate(t)
  BY <1>1, <1>2, <1>3, <1>4, <1>5, <1>6, <1>7, <1>8, <1>10 DEF Change
<1> QED
  BY <1>9, <1>10

-----------------------------------------------------------------------------
(* The two accounts of a transaction *)

LEMMA CoinbaseFact ==
    ASSUME NEW t \in Tx, IsCoinbase(t)
    PROVE  Inputs(t) = {} /\ ~ IsPrivate(t)
<1> DEFINE vin == Raw[t].vin
<1>1. /\ vin \in Seq({vin[i] : i \in DOMAIN vin}) /\ vin # <<>> /\ vin[1].coinbase
      /\ (\E i \in DOMAIN vin : vin[i].coinbase) => Len(vin) = 1
  BY RawAssumption DEF IsCoinbase
<1>2. Inputs(t) = {i \in DOMAIN vin : ~ vin[i].coinbase}
  BY DEF Inputs
<1> HIDE DEF vin
<1>3. DOMAIN vin = 1 .. Len(vin) /\ Len(vin) \in Nat /\ Len(vin) # 0
  BY <1>1, LenProperties, EmptySeq
<1>4. 1 \in DOMAIN vin
  BY <1>3
<1>5. DOMAIN vin = 1 .. 1
  BY <1>1, <1>3, <1>4
<1>6. Inputs(t) = {}
  BY <1>1, <1>2, <1>5
<1> QED
  BY <1>6 DEF IsPrivate, HidesOutput, Private, IsFeeOutput, MayBePrivate

\* What those who spend contribute to the community fund.
IsGift(p) == Type(p[1]) = "spend" /\ OutputOf(p).type = "cfund_contribution"

GiftValue == ValueIf({p \in AllOutputs : IsGift(p)})

LEMMA GiftsFact ==
    ASSUME NEW t \in Tx
    PROVE  /\ IsValue(GiftValue) /\ Net(GiftValue)[t] \in Int
           /\ \A i \in Inputs(t) : ~ IsGift(Spent(t, i))
           /\ Net(GiftValue)[t] = Made(GiftValue)[t]
           /\ \A n \in DOMAIN Raw[t].vout :
                 GiftValue[<<t, n>>] = IF Type(t) = "spend" /\ n \notin Counted(t)
                                       THEN VoutValue(t, n) ELSE 0
           /\ Type(t) # "spend" \/ Counted(t) = DOMAIN Raw[t].vout => Net(GiftValue)[t] = 0
<1> DEFINE D == DOMAIN Raw[t].vout
           I == Inputs(t)
           f == [n \in D |-> GiftValue[<<t, n>>]]
           g == [i \in I |-> GiftValue[Spent(t, i)]]
<1>1. /\ IsValue(GiftValue)
      /\ \A p \in AllOutputs : GiftValue[p] = IF IsGift(p) THEN OutputOf(p).holds ELSE 0
  BY ValueIfFact DEF GiftValue
<1>2. ASSUME NEW i \in I PROVE ~ IsGift(Spent(t, i)) /\ g[i] = 0
  <2> DEFINE p == Spent(t, i)
  <2>1. p \in AllOutputs /\ p[1] \in Tx /\ p[2] \in DOMAIN Raw[p[1]].vout
    BY VinFact, OutputFact
  <2>2. OutputOf(p).asm # "OP_RETURN OP_CFUND"
    BY FeeAssumption
  <2>3. ~ IsGift(p)
    BY <2>1, <2>2, BalanceAssumption DEF IsGift, OutputOf
  <2>4. g[i] = GiftValue[p]
    OBVIOUS
  <2> HIDE DEF p, g
  <2>5. g[i] = 0
    BY <1>1, <2>1, <2>3, <2>4
  <2> QED
    BY <2>3, <2>5 DEF p
<1>3. ASSUME NEW n \in D
      PROVE  /\ f[n] = GiftValue[<<t, n>>]
             /\ f[n] = IF Type(t) = "spend" /\ n \notin Counted(t) THEN VoutValue(t, n) ELSE 0
  <2> DEFINE p == <<t, n>>
             o == Raw[t].vout[n]
  <2>1. p \in AllOutputs /\ OutputOf(p) = o /\ p[1] = t
    BY VoutFact
  <2>2. o.type = "cfund_contribution" => VoutValue(t, n) = o.holds
    BY RawFact, BalanceAssumption
  <2>3. o.type = "cfund_contribution" <=> n \notin Counted(t)
    BY BalanceAssumption DEF Counted
  <2>4. f[n] = GiftValue[p]
    OBVIOUS
  <2>5. f[n] = IF IsGift(p) THEN o.holds ELSE 0
    BY <1>1, <2>1, <2>4
  <2>6. IsGift(p) <=> Type(t) = "spend" /\ n \notin Counted(t)
    BY <2>1, <2>3 DEF IsGift
  <2> HIDE DEF f, o, p
  <2>7. f[n] = IF Type(t) = "spend" /\ n \notin Counted(t) THEN VoutValue(t, n) ELSE 0
    BY <2>2, <2>3, <2>5, <2>6
  <2> QED
    BY <2>4, <2>7 DEF p
<1>4. IsFiniteSet(D) /\ IsFiniteSet(I)
  BY VoutFact, VinFact
<1>5. Net(GiftValue)[t] = SumFunctionOnSet(f, D) - SumFunctionOnSet(g, I)
  BY DEF Net, SumFunction
<1>6. Made(GiftValue)[t] = SumFunctionOnSet(f, D) /\ Made(GiftValue)[t] \in Int
  BY <1>1, MadeFact DEF SumFunction
<1>7. Net(GiftValue)[t] \in Int
  BY <1>1, NetFact
<1> HIDE DEF f, g, D, I
<1>8. SumFunctionOnSet(g, I) = 0
  BY <1>2, <1>4, SumZero
<1>9. Net(GiftValue)[t] = Made(GiftValue)[t]
  BY <1>5, <1>6, <1>8
<1>10. ASSUME Type(t) # "spend" \/ Counted(t) = D PROVE Net(GiftValue)[t] = 0
  <2>1. \A n \in D : f[n] = 0
    BY <1>3, <1>10
  <2> QED
    BY <1>4, <1>6, <1>9, <2>1, SumZero
<1> QED
  BY <1>1, <1>2, <1>3, <1>7, <1>9, <1>10 DEF D, I

\* What a transaction that is not private pays and gives is what is left of its
\* inputs.
LEMMA PublicBalance ==
    ASSUME NEW t \in Tx, Type(t) = "spend", ~ IsPrivate(t)
    PROVE  Fees(t) \in Int /\ Alike(Change(t), 0 - Fees(t) - Net(GiftValue)[t], WordSize)
<1> DEFINE D == DOMAIN Raw[t].vout
           out == [n \in D |-> VoutValue(t, n)]
           c == Spread([n \in Counted(t) |-> VoutValue(t, n)], D)
           g == [n \in D |-> GiftValue[<<t, n>>]]
           o == SumFunctionOnSet(out, D)
           i == CountedIn(t)
           k == Net(GiftValue)[t]
           W == WordSize
<1>1. CountedOut(t) = SumFunctionOnSet(c, D)
      /\ \A n \in D : c[n] \in Int /\ c[n] = IF n \in Counted(t) THEN VoutValue(t, n) ELSE 0
  <2>1. Counted(t) \subseteq D
    BY DEF Counted
  <2> QED
    BY <2>1, PartOut DEF CountedOut
<1>2. k = SumFunctionOnSet(g, D)
  BY GiftsFact, MadeFact DEF SumFunction
<1>3. ASSUME NEW n \in D PROVE g[n] \in Int /\ c[n] \in Int /\ out[n] = c[n] + g[n]
  <2>1. g[n] = IF n \notin Counted(t) THEN VoutValue(t, n) ELSE 0
    BY GiftsFact
  <2>2. out[n] = VoutValue(t, n) /\ VoutValue(t, n) \in Nat
    BY VoutValueFact
  <2> HIDE DEF g, c, out
  <2> QED
    BY <1>1, <2>1, <2>2
<1>4. o = CountedOut(t) + k
  <2>1. IsFiniteSet(D)
    BY VoutFact
  <2> HIDE DEF D, out, c, g
  <2> QED
    BY <1>1, <1>2, <1>3, <2>1, SumPlus DEF o
<1>5. ~ HidesOutput(t)
  BY DEF IsPrivate
<1>6. /\ VinAmount(t) = i % W /\ VoutAmount(t) = o % W
      /\ Fees(t) = (VinAmount(t) - VoutAmount(t)) % W
  BY <1>5 DEF VinAmount, VoutAmount, Sum, SumFunction, CountedIn, Fees, Minus
<1>7. Change(t) = CountedOut(t) - i /\ CountedOut(t) \in Int /\ i \in Int
  BY ChangeIs
<1>8. k \in Int /\ W \in Nat \ {0}
  BY GiftsFact, RawAssumption
<1> HIDE DEF o, i, k, W
<1> DEFINE x == i % W
           y == o % W
           d == x - y
<1>9. o \in Int
  BY <1>4, <1>7, <1>8
<1>10. x \in Int /\ Alike(x, i, W) /\ y \in Int /\ Alike(y, o, W)
  BY <1>7, <1>8, <1>9, AlikeRest
<1> HIDE DEF x, y
<1>11. d \in Int
  BY <1>10
<1>12. Fees(t) \in Int /\ Alike(Fees(t), d, W)
  <2> HIDE DEF d
  <2>1. d % W \in Int /\ Alike(d % W, d, W)
    BY <1>8, <1>11, AlikeRest
  <2>2. Fees(t) = d % W
    BY <1>6 DEF x, y, d
  <2> QED
    BY <2>1, <2>2
<1>13. Alike(x - y, x - o, W)
  BY <1>8, <1>9, <1>10, AlikeLess
<1>14. Alike(x - o, i - o, W)
  <2>1. Alike(0 - o, 0 - o, W)
    BY DEF Alike
  <2>2. Alike(x + (0 - o), i + (0 - o), W)
    BY <1>7, <1>8, <1>9, <1>10, <2>1, AlikeSum
  <2>3. x + (0 - o) = x - o /\ i + (0 - o) = i - o
    BY <1>7, <1>9, <1>10
  <2> QED
    BY <2>2, <2>3
<1>15. Alike(Fees(t), i - o, W)
  BY <1>12, <1>13, <1>14 DEF Alike, d
<1>16. Alike((0 - k) - Fees(t), (0 - k) - (i - o), W)
  <2>1. i - o \in Int /\ 0 - k \in Int
    BY <1>7, <1>8, <1>9
  <2> QED
    BY <1>8, <1>12, <1>15, <2>1, AlikeLess
<1>17. /\ (0 - k) - Fees(t) = 0 - Fees(t) - k
       /\ (0 - k) - (i - o) = Change(t)
  BY <1>4, <1>7, <1>8, <1>12
<1>18. Alike(Change(t), 0 - Fees(t) - k, W)
  BY <1>16, <1>17 DEF Alike
<1> QED
  BY <1>12, <1>18 DEF k, W

\* A private transaction pays its fee by an output, and gives nothing else away.
LEMMA PrivateBalance ==
    ASSUME NEW t \in Tx, Type(t) = "spend", IsPrivate(t), ~ WrapsPrivate(t), ~ GivesPrivate(t)
    PROVE  /\ Fees(t) \in Int /\ Fees(t) = CountedFee(t)
           /\ Alike(Change(t), 0 - Fees(t) - Net(GiftValue)[t], WordSize)
<1> DEFINE D == DOMAIN Raw[t].vout
<1>1. Counted(t) = D
  BY DEF GivesPrivate
<1>2. PaysFee(t)
  <2>1. ~ IsCoinbase(t)
    BY DEF Type
  <2>2. HidesOutput(t) => MayBePrivate(t)
    BY DEF HidesOutput, Private, IsFeeOutput
  <2>3. ASSUME NEW i \in Inputs(t), PrevPrivate(t, i) PROVE MayBePrivate(t) /\ HasHidden(t)
    <3>1. ~ WrapsOutput(t)
      BY <2>3 DEF WrapsPrivate
    <3>2. OutputOf(Spent(t, i)).rangeProof
      BY <2>3 DEF PrevPrivate, Private, OutputOf
    <3> QED
      BY <2>1, <3>1, <3>2 DEF MayBePrivate, HasHidden
  <2>4. ASSUME NEW n \in D, Private(t, n) PROVE MayBePrivate(t) /\ HasHidden(t)
    BY <2>4 DEF Private, HasHidden
  <2>5. PaysFee(t) \/ (MayBePrivate(t) /\ HasHidden(t))
    BY <2>3, <2>4 DEF IsPrivate, HidesOutput, PaysFee
  <2> QED
    BY <2>5, BalanceAssumption
<1>3. PICK n \in D : IsFeeOutput(t, n)
  BY <1>2 DEF PaysFee
<1>4. IsNulldata(Raw[t].vout[n]) /\ \A m \in D : IsNulldata(Raw[t].vout[m]) => m = n
  <2>1. IsNulldata(Raw[t].vout[n])
    BY <1>3 DEF IsFeeOutput
  <2> QED
    BY <1>2, <2>1, BalanceAssumption
<1>5. HidesOutput(t)
  BY <1>3 DEF HidesOutput
<1>6. Fees(t) = VoutValue(t, n) /\ Fees(t) \in Int
  <2>1. {m \in D : IsNulldata(Raw[t].vout[m])} = {n}
    BY <1>4
  <2>2. Min({n}) = n
    <3>1. D \subseteq Nat
      <4>1. Raw[t].vout \in Seq({Raw[t].vout[m] : m \in D})
        BY RawAssumption
      <4>2. D = 1 .. Len(Raw[t].vout) /\ Len(Raw[t].vout) \in Nat
        BY <4>1, LenProperties
      <4> HIDE DEF D
      <4> QED
        BY <4>2
    <3>2. {n} \subseteq Nat /\ {n} # {}
      BY <3>1
    <3>3. Min({n}) \in {n}
      BY <3>2, MinFact
    <3> QED
      BY <3>3
  <2>3. PrivateFees(t) = VoutValue(t, n)
    <3>1. PrivateFees(t) = LET fees == {m \in D : IsNulldata(Raw[t].vout[m])}
                           IN  IF fees = {} THEN 0 ELSE VoutValue(t, Min(fees))
      BY DEF PrivateFees
    <3> QED
      BY <2>1, <2>2, <3>1
  <2>4. Fees(t) = PrivateFees(t)
    BY <1>5 DEF Fees
  <2> QED
    BY <2>3, <2>4, VoutValueFact
<1>7. CountedFee(t) = VoutValue(t, n)
  <2> DEFINE F == FeeOutputs(t)
             v == [m \in F |-> VoutValue(t, m)]
  <2>1. F \subseteq D /\ n \in F /\ \A m \in F : IsPrivateFee(Raw[t].vout[m])
    BY <1>1, <1>4 DEF FeeOutputs, IsPrivateFee, IsNulldata
  <2>2. ASSUME NEW m \in F, m # n PROVE v[m] = 0
    <3>1. m \in D /\ ~ IsNulldata(Raw[t].vout[m])
      BY <1>4, <2>1, <2>2
    <3>2. Raw[t].vout[m].holds = 0
      BY <2>1, <3>1, RawFact
    <3>3. VoutValue(t, m) = 0
      BY <3>1, <3>2, RawFact
    <3> QED
      BY <3>3
  <2>3. IsFiniteSet(F)
    BY <2>1, VoutFact, FS_Subset
  <2>4. v[n] = VoutValue(t, n) /\ v[n] \in Int
    BY <2>1, VoutValueFact
  <2>5. CountedFee(t) = SumFunctionOnSet(v, F)
    BY DEF CountedFee, SumFunction
  <2> HIDE DEF v, F
  <2>6. SumFunctionOnSet(v, F) = SumFunctionOnSet(v, {n})
    <3>1. {n} \subseteq F /\ (\A x \in {n} : v[x] \in Int /\ v[x] = v[x]) /\ \A x \in F \ {n} : v[x] = 0
      BY <2>1, <2>2, <2>4
    <3> QED
      BY <2>3, <3>1, SumPart
  <2> QED
    BY <2>4, <2>5, <2>6, SumOne
<1>8. Net(GiftValue)[t] = 0
  BY <1>1, GiftsFact
<1>9. Change(t) = 0 - CountedFee(t)
  BY ChangeIs
<1>10. 0 - Fees(t) - Net(GiftValue)[t] = Change(t)
  BY <1>6, <1>7, <1>8, <1>9
<1> QED
  BY <1>6, <1>7, <1>10 DEF Alike

LEMMA SpendBalance ==
    ASSUME NEW t \in Tx, Type(t) = "spend", ~ WrapsPrivate(t), ~ GivesPrivate(t)
    PROVE  Fees(t) \in Int /\ Alike(Change(t), 0 - Fees(t) - Net(GiftValue)[t], WordSize)
BY PublicBalance, PrivateBalance

\* The transaction that stakes a block adds its stake.
LEMMA StakeBalance ==
    ASSUME NEW t \in Tx, ~ IsPrivate(t)
    PROVE  /\ Minus(SpendableAmount(t), VinAmount(t)) \in Int
           /\ Alike(Change(t), Minus(SpendableAmount(t), VinAmount(t)), WordSize)
<1> DEFINE c == CountedOut(t)
           i == CountedIn(t)
           x == c % WordSize
           y == i % WordSize
           d == x - y
<1>1. SpendableAmount(t) = x
  <2>1. {n \in DOMAIN Raw[t].vout : Raw[t].vout[n].type # "cfund_contribution"} = Counted(t)
    BY BalanceAssumption DEF Counted
  <2> QED
    BY <2>1 DEF SpendableAmount, Sum, CountedOut
<1>2. VinAmount(t) = y
  BY DEF VinAmount, Sum, CountedIn
<1>3. Minus(SpendableAmount(t), VinAmount(t)) = d % WordSize
  BY <1>1, <1>2 DEF Minus
<1>4. Change(t) = c - i /\ c \in Int /\ i \in Int /\ WordSize \in Nat \ {0}
  BY ChangeIs, RawAssumption
<1> HIDE DEF c, i
<1>5. x \in Int /\ Alike(x, c, WordSize) /\ y \in Int /\ Alike(y, i, WordSize)
  BY <1>4, AlikeRest
<1> HIDE DEF x, y
<1>6. d \in Int
  BY <1>5
<1>7. Alike(x - y, x - i, WordSize)
  BY <1>4, <1>5, AlikeLess
<1>8. Alike(x - i, c - i, WordSize)
  <2>1. Alike(0 - i, 0 - i, WordSize)
    BY DEF Alike
  <2>2. Alike(x + (0 - i), c + (0 - i), WordSize)
    BY <1>4, <1>5, <2>1, AlikeSum
  <2>3. x + (0 - i) = x - i /\ c + (0 - i) = c - i
    BY <1>4, <1>5
  <2> QED
    BY <2>2, <2>3
<1>9. Alike(d, Change(t), WordSize)
  BY <1>4, <1>7, <1>8 DEF Alike, d
<1> HIDE DEF d
<1>10. d % WordSize \in Int /\ Alike(d % WordSize, d, WordSize)
  BY <1>4, <1>6, AlikeRest
<1> QED
  BY <1>3, <1>9, <1>10 DEF Alike

\* A coinbase that only pays out from the community fund adds what it pays.
LEMMA PayoutBalance ==
    ASSUME NEW t \in Tx, IsCoinbase(t),
           CFundPayout(t) = Sum([n \in Counted(t) |-> VoutValue(t, n)])
    PROVE  CFundPayout(t) \in Int /\ Alike(Change(t), CFundPayout(t), WordSize)
<1>1. ~ IsPrivate(t) /\ Inputs(t) = {}
  BY CoinbaseFact
<1>2. CFundPayout(t) = CountedOut(t) % WordSize
  BY DEF Sum, CountedOut
<1>3. CountedIn(t) = 0
  BY <1>1, SumEmpty DEF CountedIn, SumFunction
<1>4. Change(t) = CountedOut(t) - CountedIn(t) /\ CountedOut(t) \in Int /\ WordSize \in Nat \ {0}
  BY <1>1, ChangeIs, RawAssumption
<1>5. Change(t) = CountedOut(t)
  BY <1>3, <1>4
<1> QED
  BY <1>2, <1>4, <1>5, AlikeRest

\* Payouts are only of a coinbase.
LEMMA PayoutFact ==
    ASSUME NEW t \in Tx
    PROVE  /\ CFundPayout(t) \in 0 .. WordSize - 1
           /\ ~ IsCoinbase(t) => CFundPayout(t) = 0
<1> DEFINE S == {n \in DOMAIN Raw[t].vout : Raw[t].vout[n].type = "pubkeyhash"}
           s == SumFunction([n \in S |-> VoutValue(t, n)])
<1>1. CFundPayout(t) = IF IsCoinbase(t) /\ Raw[t].version = 3 THEN s % WordSize ELSE 0
  BY DEF CFundPayout, Sum
<1>2. s \in Int
  BY PartOut
<1>3. WordSize \in Nat \ {0}
  BY RawAssumption
<1> HIDE DEF s
<1>4. s % WordSize \in 0 .. WordSize - 1
  BY <1>2, <1>3, ModFact
<1>5. 0 \in 0 .. WordSize - 1
  BY <1>3
<1> QED
  BY <1>1, <1>4, <1>5

-----------------------------------------------------------------------------
(* The two accounts of a block *)

\* The contributions of a block, transaction by transaction.
LEMMA ContributionsFact ==
    ASSUME NEW b, b.txs \in Seq(Tx), IsInjective(b.txs)
    PROVE  Coins(Contributions(b))
              = SumFunction([j \in DOMAIN b.txs |-> Net(GiftValue)[b.txs[j]]])
<1> DEFINE E == Elements(b.txs)
           v == GiftValue
           f == [j \in DOMAIN b.txs |-> Net(v)[b.txs[j]]]
           B == [t \in Tx |-> {t} \X DOMAIN Raw[t].vout]
           w == [p \in Contributions(b) |-> OutputOf(p).holds]
<1>1. IsValue(v)
  BY ValueIfFact DEF GiftValue
<1>2. E \subseteq Tx
  BY DEF Elements
<1>3. IsFiniteSet(E) /\ SumFunction(f) = AllNet(v, E)
  <2>1. DOMAIN f = DOMAIN b.txs /\ \A j \in DOMAIN b.txs : f[j] = Net(v)[b.txs[j]]
    OBVIOUS
  <2> HIDE DEF f, v
  <2> QED
    BY <1>1, <2>1, BlockSum
<1>4. /\ IsFiniteSet(Together(B, E))
      /\ SumFunctionOnSet(v, Together(B, E)) = SumFunctionOnSet(Made(v), E)
  <2>1. \A t \in E : IsFiniteSet(B[t])
    BY <1>1, <1>2, MadeFact
  <2>2. \A t \in E : \A p \in B[t] : v[p] \in Int
    BY <1>1, <1>2, VoutFact DEF IsValue
  <2>3. \A t, u \in E : t # u => B[t] \cap B[u] = {}
    BY <1>2
  <2>4. \A t \in E : Made(v)[t] = SumFunctionOnSet(v, B[t])
    BY <1>2 DEF Made
  <2> HIDE DEF B, E, v
  <2> QED
    BY <1>3, <2>1, <2>2, <2>3, <2>4, SumNested
<1>5. Together(B, E) = OutputsOf(E)
  BY <1>2 DEF Together, OutputsOf
<1>6. AllNet(v, E) = SumFunctionOnSet(Made(v), E)
  <2>1. \A t \in E : Net(v)[t] \in Int /\ Net(v)[t] = Made(v)[t]
    BY <1>2, GiftsFact
  <2> HIDE DEF v, E
  <2> QED
    BY <1>3, <2>1, SumSame DEF AllNet
<1>7. Contributions(b) = {p \in OutputsOf(E) : IsGift(p)}
  <2>1. Unspent(<<b>>) = OutputsOf(E) \ SpentBy(E)
    <3>1. DOMAIN <<b>> = 1 .. 1
      OBVIOUS
    <3>2. TxsTo(<<b>>, 1) = E
      BY DEF TxsTo
    <3> QED
      BY <3>1, <3>2, UnspentFact
  <2>2. \A p \in SpentBy(E) : ~ IsGift(p)
    BY <1>2, GiftsFact DEF SpentBy
  <2> QED
    BY <2>1, <2>2 DEF Contributions, IsGift
<1>8. OutputsOf(E) \subseteq AllOutputs
  BY <1>2 DEF OutputsOf, AllOutputs
<1>9. \A p \in AllOutputs : v[p] = IF IsGift(p) THEN OutputOf(p).holds ELSE 0
  BY ValueIfFact DEF GiftValue
<1>10. SumFunctionOnSet(v, OutputsOf(E)) = SumFunctionOnSet(w, Contributions(b))
  <2>1. \A p \in Contributions(b) : w[p] \in Int /\ v[p] = w[p]
    BY <1>7, <1>8, <1>9, OutputFact
  <2>2. \A p \in OutputsOf(E) \ Contributions(b) : v[p] = 0
    BY <1>7, <1>8, <1>9
  <2>3. IsFiniteSet(OutputsOf(E)) /\ Contributions(b) \subseteq OutputsOf(E)
    BY <1>4, <1>5, <1>7
  <2> HIDE DEF v, w, E
  <2> QED
    BY <2>1, <2>2, <2>3, SumPart
<1>11. Coins(Contributions(b)) = SumFunctionOnSet(w, Contributions(b))
  BY DEF Coins, SumFunction
<1> HIDE DEF f, w, E
<1> QED
  BY <1>3, <1>4, <1>5, <1>6, <1>10, <1>11 DEF f

\* A block above PrivateHeight, with all its transactions in its accounts.
IsCounted(b) ==
    /\ b.txs \in Seq(Tx) /\ IsInjective(b.txs)
    /\ b.height \in 1 .. MaxHeight /\ b.height > PrivateHeight /\ b.txs \in Blocks[b.height]
    /\ AccountsRight(b, Len(b.txs)) /\ KeepsApart(b)

\* What the transactions of a block change is what its accounts say.
LEMMA AccountsFact ==
    ASSUME NEW b, IsCounted(b)
    PROVE  Alike(SumFunction([j \in DOMAIN b.txs |-> Change(b.txs[j])]),
                 b.stake + b.cfundPayout - b.fees - Coins(Contributions(b)), WordSize)
<1> DEFINE txs == b.txs
           D == DOMAIN txs
           pay == CFundPayout(txs[1])
           stake == Minus(SpendableAmount(txs[2]), VinAmount(txs[2]))
           c == [j \in D |-> Change(txs[j])]
           f == [j \in D |-> Fees(txs[j])]
           k == [j \in D |-> Net(GiftValue)[txs[j]]]
           x == [j \in D |-> IF j = 1 THEN pay ELSE IF j = 2 THEN stake ELSE 0]
           y == [j \in D |-> x[j] - f[j]]
           r == [j \in D |-> y[j] - k[j]]
<1>1. /\ D = 1 .. Len(txs) /\ Len(txs) \in Nat /\ Len(txs) >= 2 /\ \A j \in D : txs[j] \in Tx
      /\ IsAnyStaking(txs[2]) /\ ~ IsPrivate(txs[2]) /\ WordSize \in Nat \ {0}
      /\ CFundPayout(txs[1]) = Sum([n \in Counted(txs[1]) |-> VoutValue(txs[1], n)])
      /\ \A j \in D : /\ IsCoinbase(txs[j]) <=> j = 1
                      /\ j > 2 => Type(txs[j]) = "spend"
                      /\ ~ WrapsPrivate(txs[j]) /\ ~ GivesPrivate(txs[j])
  <2>1. /\ txs \in Seq(Tx) /\ txs \in Blocks[b.height] /\ b.height \in 1 .. MaxHeight
        /\ b.height > PrivateHeight /\ KeepsApart(b)
    BY DEF IsCounted
  <2>2. b.height \in PrivateHeight + 1 .. MaxHeight
    BY <2>1, RawAssumption, ConstantFact
  <2>3. D = 1 .. Len(txs) /\ Len(txs) \in Nat /\ \A j \in D : txs[j] \in Tx
    BY <2>1
  <2>4. /\ Len(txs) >= 2 /\ IsAnyStaking(txs[2]) /\ ~ IsPrivate(txs[2])
        /\ CFundPayout(txs[1]) = Sum([n \in Counted(txs[1]) |-> VoutValue(txs[1], n)])
    BY <2>1, <2>2, BalanceAssumption
  <2>5. \A j \in D : /\ IsCoinbase(txs[j]) <=> j = 1
                     /\ j > 2 => Type(txs[j]) = "spend"
    BY <2>1, TransactionsAssumption, FeeAssumption
  <2>6. \A j \in D : ~ WrapsPrivate(txs[j]) /\ ~ GivesPrivate(txs[j])
    BY <2>1 DEF KeepsApart
  <2> QED
    BY <2>3, <2>4, <2>5, <2>6, RawAssumption
<1>2. IsFiniteSet(D) /\ 1 \in D /\ 2 \in D
  BY <1>1, FS_Interval
<1>3. /\ pay \in Int /\ Alike(Change(txs[1]), pay, WordSize)
      /\ stake \in Int /\ Alike(Change(txs[2]), stake, WordSize)
  BY <1>1, <1>2, PayoutBalance, StakeBalance
<1>4. ASSUME NEW j \in D
      PROVE  /\ c[j] \in Int /\ f[j] \in Int /\ k[j] \in Int /\ x[j] \in Int
             /\ y[j] = x[j] - f[j] /\ r[j] = y[j] - k[j] /\ Alike(c[j], r[j], WordSize)
             /\ x[j] = IF j = 1 THEN pay ELSE IF j = 2 THEN stake ELSE 0
  <2>1. c[j] = Change(txs[j]) /\ f[j] = Fees(txs[j]) /\ k[j] = Net(GiftValue)[txs[j]]
    OBVIOUS
  <2>2. y[j] = x[j] - f[j] /\ r[j] = y[j] - k[j]
    OBVIOUS
  <2>3. x[j] = IF j = 1 THEN pay ELSE IF j = 2 THEN stake ELSE 0
    OBVIOUS
  <2>4. c[j] \in Int /\ k[j] \in Int
    <3>1. k[j] \in Int
      BY <1>1, <2>1, GiftsFact
    <3>2. Change(txs[j]) \in Int
      <4>1. txs[j] \in Tx
        BY <1>1
      <4>2. /\ PublicChange(txs[j]) \in Int /\ PrivateChange(txs[j]) \in Int
            /\ WrappedChange(txs[j]) \in Int
        BY <4>1, ChangeIs
      <4> QED
        BY <4>2 DEF Change
    <3> QED
      BY <2>1, <3>1, <3>2
  <2>5. ASSUME Type(txs[j]) # "spend" PROVE f[j] = 0 /\ k[j] = 0
    BY <1>1, <2>1, <2>5, GiftsFact DEF Fees
  <2>6. CASE j = 1
    <3>1. Type(txs[j]) # "spend"
      BY <1>1, <2>6 DEF Type
    <3>2. c[j] = Change(txs[1]) /\ x[j] = pay
      BY <2>1, <2>3, <2>6
    <3> HIDE DEF c, f, k, x, y, r, pay
    <3>3. r[j] = pay
      BY <1>3, <2>2, <2>5, <3>1, <3>2
    <3> QED
      BY <1>3, <2>2, <2>3, <2>4, <2>5, <3>1, <3>2, <3>3
  <2>7. CASE j = 2
    <3>1. Type(txs[j]) # "spend"
      BY <1>1, <2>7 DEF Type
    <3>2. c[j] = Change(txs[2]) /\ x[j] = stake
      BY <2>1, <2>3, <2>7
    <3> HIDE DEF c, f, k, x, y, r, stake
    <3>3. r[j] = stake
      BY <1>3, <2>2, <2>5, <3>1, <3>2
    <3> QED
      BY <1>3, <2>2, <2>3, <2>4, <2>5, <3>1, <3>2, <3>3
  <2>8. CASE j # 1 /\ j # 2
    <3>1. Type(txs[j]) = "spend" /\ txs[j] \in Tx
      BY <1>1, <2>8
    <3>2. /\ Fees(txs[j]) \in Int
          /\ Alike(Change(txs[j]), 0 - Fees(txs[j]) - Net(GiftValue)[txs[j]], WordSize)
      BY <1>1, <3>1, SpendBalance
    <3>3. x[j] = 0
      BY <2>3, <2>8
    <3> HIDE DEF c, f, k, x, y, r
    <3>4. r[j] = 0 - Fees(txs[j]) - Net(GiftValue)[txs[j]]
      BY <2>1, <2>2, <3>3
    <3> QED
      BY <2>1, <2>2, <2>3, <2>4, <3>2, <3>3, <3>4
  <2> QED
    BY <2>6, <2>7, <2>8
<1> HIDE DEF D, c, f, k, x, y, r
<1>5. Alike(SumFunctionOnSet(c, D), SumFunctionOnSet(r, D), WordSize)
  <2>1. \A j \in D : c[j] \in Int /\ r[j] \in Int /\ Alike(c[j], r[j], WordSize)
    BY <1>4
  <2> QED
    BY <1>1, <1>2, <2>1, SumAlike
<1>6. SumFunctionOnSet(y, D) = SumFunctionOnSet(x, D) - SumFunctionOnSet(f, D)
  BY <1>2, <1>4, SumMinus
<1>7. SumFunctionOnSet(r, D) = SumFunctionOnSet(y, D) - SumFunctionOnSet(k, D)
  <2>1. \A j \in D : y[j] \in Int /\ k[j] \in Int /\ r[j] = y[j] - k[j]
    BY <1>4
  <2> QED
    BY <1>2, <2>1, SumMinus
<1>8. SumFunctionOnSet(x, D) = stake + pay
  <2>1. SumFunctionOnSet(x, D) = SumFunctionOnSet(x, {1} \cup {2})
    <3>1. {1} \cup {2} \subseteq D
      BY <1>2
    <3>2. \A j \in {1} \cup {2} : x[j] \in Int /\ x[j] = x[j]
      BY <1>4, <3>1
    <3>3. \A j \in D \ ({1} \cup {2}) : x[j] = 0
      BY <1>4
    <3> QED
      BY <1>2, <3>1, <3>2, <3>3, SumPart
  <2>2. x[1] = pay /\ x[2] = stake
    BY <1>2, <1>4
  <2>3. SumFunctionOnSet(x, {1}) = pay
    BY <1>3, <2>2, SumOne
  <2>4. SumFunctionOnSet(x, {1} \cup {2}) = x[2] + SumFunctionOnSet(x, {1})
    <3>1. IsFiniteSet({1}) /\ 2 \notin {1}
      <4>1. {1} \subseteq D /\ 2 \notin {1}
        BY <1>2
      <4> QED
        BY <1>2, <4>1, FS_Subset
    <3>2. \A j \in {1} : x[j] \in Int
      BY <1>3, <2>2
    <3>3. x[2] \in Int
      BY <1>3, <2>2
    <3> QED
      BY <3>1, <3>2, <3>3, SumAdd
  <2> QED
    BY <2>1, <2>2, <2>3, <2>4
<1>9. Coins(Contributions(b)) = SumFunctionOnSet(k, D)
  BY ContributionsFact DEF IsCounted, SumFunction, k, D
<1>10. /\ SumFunctionOnSet(f, D) \in Int /\ SumFunctionOnSet(k, D) \in Int
       /\ SumFunctionOnSet(c, D) \in Int
  <2>1. (\A j \in D : f[j] \in Int) /\ (\A j \in D : k[j] \in Int) /\ \A j \in D : c[j] \in Int
    BY <1>4
  <2> QED
    BY <1>2, <2>1, SumType
<1>11. /\ b.fees = SumFunctionOnSet(f, D) % WordSize /\ b.cfundPayout = pay /\ b.stake = stake
  <2>1. AccountsRight(b, Len(txs)) /\ b.height > PrivateHeight
    BY DEF IsCounted
  <2>2. FeesTo(txs, Len(txs)) = SumFunctionOnSet(f, D)
    BY <1>1 DEF FeesTo, f, D
  <2>3. Len(txs) # 0
    BY <1>1
  <2> QED
    BY <1>1, <2>1, <2>2, <2>3 DEF AccountsRight
<1> HIDE DEF pay, stake
<1> DEFINE F == SumFunctionOnSet(f, D)
           K == SumFunctionOnSet(k, D)
           a == stake + pay - K
<1>12. F \in Int /\ K \in Int /\ a \in Int
  BY <1>3, <1>10
<1>13. SumFunctionOnSet(r, D) = a - F
  BY <1>3, <1>6, <1>7, <1>8, <1>10
<1>14. b.stake + b.cfundPayout - b.fees - Coins(Contributions(b)) = a - b.fees
  <2>1. b.fees \in Int
    BY <1>1, <1>10, <1>11, AlikeRest
  <2> QED
    BY <1>3, <1>9, <1>11, <1>12, <2>1
<1> HIDE DEF F, a
<1>15. F % WordSize \in Int /\ Alike(F, F % WordSize, WordSize)
  BY <1>1, <1>12, AlikeRest
<1>16. Alike(a - F, a - b.fees, WordSize)
  <2>1. b.fees \in Int /\ Alike(F, b.fees, WordSize)
    BY <1>11, <1>15 DEF F
  <2> QED
    BY <1>1, <1>12, <2>1, AlikeLess
<1>17. Alike(SumFunctionOnSet(c, D), a - b.fees, WordSize)
  BY <1>5, <1>13, <1>16 DEF Alike
<1>18. SumFunctionOnSet(c, D) = SumFunction([j \in DOMAIN b.txs |-> Change(b.txs[j])])
  BY DEF SumFunction, c, D
<1> QED
  BY <1>14, <1>17, <1>18

\* The supplies after a block, together.
LEMMA SuppliesFact ==
    ASSUME NEW b, b.txs \in Seq(Tx), b.height \in Nat, b.supply \in Supplies
    PROVE  /\ SupplyAfter(b) \in Supplies
           /\ b.height > PrivateHeight =>
                Alike((SupplyAfter(b).public + SupplyAfter(b).private + SupplyAfter(b).wrapped)
                         - (b.supply.public + b.supply.private + b.supply.wrapped),
                      SumFunction([j \in DOMAIN b.txs |-> Change(b.txs[j])]), WordSize)
<1> DEFINE D == DOMAIN b.txs
           W == WordSize
           amount == [j \in D |-> VoutAmount(b.txs[j])]
           p == [j \in D |-> PublicChange(b.txs[j])]
           q == [j \in D |-> PrivateChange(b.txs[j])]
           w == [j \in D |-> WrappedChange(b.txs[j])]
           c == [j \in D |-> Change(b.txs[j])]
           pq == [j \in D |-> p[j] + q[j]]
           first == b.height = 1
           was == b.supply
           m1 == was.public
           m2 == was.private
           m3 == was.wrapped
<1>1. W \in Nat \ {0} /\ PrivateHeight \in Nat \ {0} /\ PrivateSupply \in 0 .. W - 1
  BY RawAssumption
<1>2. IsFiniteSet(D) /\ \A j \in D : b.txs[j] \in Tx
  <2>1. D = 1 .. Len(b.txs) /\ Len(b.txs) \in Nat /\ \A j \in D : b.txs[j] \in Tx
    OBVIOUS
  <2>2. IsFiniteSet(1 .. Len(b.txs))
    BY <2>1, FS_Interval
  <2> QED
    BY <2>1, <2>2
<1>3. m1 \in 0 .. W - 1 /\ m2 \in 0 .. W - 1 /\ m3 \in 0 .. W - 1
  BY DEF Supplies
<1>4. ASSUME NEW j \in D
      PROVE  /\ amount[j] \in Int /\ p[j] \in Int /\ q[j] \in Int /\ w[j] \in Int
             /\ pq[j] = p[j] + q[j] /\ c[j] = pq[j] + w[j]
  <2>1. b.txs[j] \in Tx
    BY <1>2
  <2>2. VoutAmount(b.txs[j]) \in Int
    <3> DEFINE t == b.txs[j]
               s == SumFunction([n \in DOMAIN Raw[t].vout |-> VoutValue(t, n)])
    <3>1. s \in Int
      <4>1. DOMAIN Raw[t].vout \subseteq DOMAIN Raw[t].vout
        OBVIOUS
      <4> QED
        BY <2>1, <4>1, PartOut
    <3>2. VoutAmount(t) = s % W
      BY DEF VoutAmount, Sum
    <3> HIDE DEF s
    <3> QED
      BY <1>1, <3>1, <3>2, AlikeRest
  <2>3. /\ PublicChange(b.txs[j]) \in Int /\ PrivateChange(b.txs[j]) \in Int
        /\ WrappedChange(b.txs[j]) \in Int
    BY <2>1, ChangeIs
  <2>4. /\ amount[j] = VoutAmount(b.txs[j]) /\ p[j] = PublicChange(b.txs[j])
        /\ q[j] = PrivateChange(b.txs[j]) /\ w[j] = WrappedChange(b.txs[j])
        /\ pq[j] = p[j] + q[j] /\ c[j] = Change(b.txs[j])
    OBVIOUS
  <2> HIDE DEF amount, p, q, w, pq, c
  <2> QED
    BY <2>2, <2>3, <2>4 DEF Change
<1>5. /\ SupplyAfter(b)
           = [public  |-> Plus(m1, IF first THEN SumFunction(amount) ELSE SumFunction(p)),
              private |-> IF b.height < PrivateHeight THEN 0
                          ELSE IF b.height = PrivateHeight THEN PrivateSupply
                          ELSE Plus(m2, IF first THEN 0 ELSE SumFunction(q)),
              wrapped |-> Plus(m3, IF first THEN 0 ELSE SumFunction(w))]
  BY DEF SupplyAfter
<1>6. /\ SumFunction(amount) = SumFunctionOnSet(amount, D) /\ SumFunction(p) = SumFunctionOnSet(p, D)
      /\ SumFunction(q) = SumFunctionOnSet(q, D) /\ SumFunction(w) = SumFunctionOnSet(w, D)
      /\ SumFunction(c) = SumFunctionOnSet(c, D)
  BY DEF SumFunction
<1> HIDE DEF D, W, amount, p, q, w, c, pq, m1, m2, m3
<1> DEFINE P == SumFunctionOnSet(p, D)
           Q == SumFunctionOnSet(q, D)
           R == SumFunctionOnSet(w, D)
           A == SumFunctionOnSet(amount, D)
<1>7. P \in Int /\ Q \in Int /\ R \in Int /\ A \in Int
  <2>1. /\ (\A j \in D : p[j] \in Int) /\ (\A j \in D : q[j] \in Int)
        /\ (\A j \in D : w[j] \in Int) /\ (\A j \in D : amount[j] \in Int)
    BY <1>4
  <2> QED
    BY <1>2, <2>1, SumType
<1>8. SumFunctionOnSet(c, D) = P + Q + R
  <2>1. \A j \in D : pq[j] \in Int
    BY <1>4
  <2>2. SumFunctionOnSet(pq, D) = P + Q
    BY <1>2, <1>4, SumPlus
  <2>3. SumFunctionOnSet(c, D) = SumFunctionOnSet(pq, D) + R
    BY <1>2, <1>4, <2>1, SumPlus
  <2> QED
    BY <2>2, <2>3
<1>9. \A m \in 0 .. W - 1, d \in Int : Plus(m, d) \in 0 .. W - 1 /\ Alike(Plus(m, d), m + d, W)
  <2> SUFFICES ASSUME NEW m \in 0 .. W - 1, NEW d \in Int
               PROVE  Plus(m, d) \in 0 .. W - 1 /\ Alike(Plus(m, d), m + d, W)
    OBVIOUS
  <2> DEFINE e == m + d
  <2>1. e \in Int
    BY <1>1
  <2> HIDE DEF e
  <2>2. e % W \in 0 .. W - 1 /\ Alike(e % W, e, W)
    BY <1>1, <2>1, ModFact, AlikeRest
  <2>3. Plus(m, d) = e % W
    BY DEF Plus, e, W
  <2> QED
    BY <2>2, <2>3 DEF e
<1> HIDE DEF P, Q, R, A
<1>10. SupplyAfter(b) \in Supplies
  <2> DEFINE a1 == IF first THEN A ELSE P
             a2 == IF first THEN 0 ELSE Q
             a3 == IF first THEN 0 ELSE R
             x == Plus(m1, a1)
             y == Plus(m2, a2)
             z == Plus(m3, a3)
  <2>1. a1 \in Int /\ a2 \in Int /\ a3 \in Int
    BY <1>7
  <2> HIDE DEF a1, a2, a3
  <2>2. x \in 0 .. W - 1 /\ y \in 0 .. W - 1 /\ z \in 0 .. W - 1 /\ 0 \in 0 .. W - 1
    <3>1. x \in 0 .. W - 1
      BY <1>3, <1>9, <2>1, Zenon
    <3>2. y \in 0 .. W - 1
      BY <1>3, <1>9, <2>1, Zenon
    <3>3. z \in 0 .. W - 1
      BY <1>3, <1>9, <2>1, Zenon
    <3>4. 0 \in 0 .. W - 1
      BY <1>1
    <3> QED
      BY <3>1, <3>2, <3>3, <3>4
  <2>3. SupplyAfter(b)
           = [public  |-> x,
              private |-> IF b.height < PrivateHeight THEN 0
                          ELSE IF b.height = PrivateHeight THEN PrivateSupply ELSE y,
              wrapped |-> z]
    BY <1>5, <1>6 DEF a1, a2, a3, P, Q, R, A
  <2> HIDE DEF x, y, z
  <2>4. (IF b.height < PrivateHeight THEN 0
         ELSE IF b.height = PrivateHeight THEN PrivateSupply ELSE y) \in 0 .. W - 1
    BY <1>1, <2>2
  <2> QED
    BY <2>2, <2>3, <2>4 DEF Supplies, W
<1>11. ASSUME b.height > PrivateHeight
       PROVE  Alike((SupplyAfter(b).public + SupplyAfter(b).private + SupplyAfter(b).wrapped)
                       - (m1 + m2 + m3), SumFunction(c), W)
  <2>1. ~ first /\ ~ b.height < PrivateHeight /\ b.height # PrivateHeight
    BY <1>1, <1>11
  <2> DEFINE x == Plus(m1, P)
             y == Plus(m2, Q)
             z == Plus(m3, R)
             s == m1 + m2 + m3
  <2>2. /\ SupplyAfter(b).public = x /\ SupplyAfter(b).private = y /\ SupplyAfter(b).wrapped = z
    BY <1>5, <1>6, <2>1 DEF P, Q, R
  <2>3. /\ x \in Int /\ Alike(x, m1 + P, W)
        /\ y \in Int /\ Alike(y, m2 + Q, W)
        /\ z \in Int /\ Alike(z, m3 + R, W)
    <3>1. x \in 0 .. W - 1 /\ Alike(x, m1 + P, W)
      BY <1>3, <1>7, <1>9, Zenon
    <3>2. y \in 0 .. W - 1 /\ Alike(y, m2 + Q, W)
      BY <1>3, <1>7, <1>9, Zenon
    <3>3. z \in 0 .. W - 1 /\ Alike(z, m3 + R, W)
      BY <1>3, <1>7, <1>9, Zenon
    <3> HIDE DEF x, y, z
    <3> QED
      BY <1>1, <3>1, <3>2, <3>3
  <2>4. m1 + P \in Int /\ m2 + Q \in Int /\ m3 + R \in Int /\ s \in Int
    BY <1>1, <1>3, <1>7
  <2> HIDE DEF x, y, z
  <2>5. Alike(x + y, (m1 + P) + (m2 + Q), W)
    BY <1>1, <2>3, <2>4, AlikeSum
  <2>6. x + y \in Int /\ (m1 + P) + (m2 + Q) \in Int
    BY <2>3, <2>4
  <2>7. Alike((x + y) + z, ((m1 + P) + (m2 + Q)) + (m3 + R), W)
    BY <1>1, <2>3, <2>4, <2>5, <2>6, AlikeSum
  <2> DEFINE u == (x + y) + z
             v == ((m1 + P) + (m2 + Q)) + (m3 + R)
  <2>8. u \in Int /\ v \in Int /\ Alike(u, v, W)
    <3>1. u \in Int
      BY <2>3
    <3>2. v \in Int
      BY <2>4
    <3> QED
      BY <2>7, <3>1, <3>2
  <2>9. v - s = P + Q + R
    BY <1>1, <1>3, <1>7, <2>4
  <2> HIDE DEF u, v, s
  <2>10. Alike(0 - s, 0 - s, W) /\ 0 - s \in Int
    BY <2>4 DEF Alike
  <2>11. Alike(u + (0 - s), v + (0 - s), W)
    BY <1>1, <2>8, <2>10, AlikeSum
  <2>12. u + (0 - s) = u - s /\ v + (0 - s) = v - s
    BY <2>4, <2>8
  <2>13. Alike(u - s, SumFunction(c), W)
    <3>1. SumFunction(c) = v - s
      BY <1>6, <1>8, <2>9
    <3> QED
      BY <2>11, <2>12, <3>1
  <2> DEFINE g == SupplyAfter(b).public + SupplyAfter(b).private + SupplyAfter(b).wrapped
             h == m1 + m2 + m3
  <2>14. g = u
    <3> DEFINE a == SupplyAfter(b)
    <3>1. a.public = x /\ a.private = y /\ a.wrapped = z
      BY <2>2
    <3> HIDE DEF a
    <3>2. a.public + a.private + a.wrapped = x + y + z
      BY <3>1
    <3> QED
      BY <3>2 DEF a, u
  <2>15. h = s
    BY DEF s
  <2> SUFFICES Alike(g - h, SumFunction(c), W)
    OBVIOUS
  <2> HIDE DEF g, h
  <2> QED
    BY <2>13, <2>14, <2>15
<1> QED
  BY <1>10, <1>11 DEF W, c, D, m1, m2, m3

\* What a transaction adds to the accounts of its block.
LEMMA AddedAccounts ==
    ASSUME NEW t \in Tx, NEW b, IsBlock(b)
    PROVE  LET d == CreateBlockTransaction(t, b) IN
           /\ d.fees = Plus(b.fees, Fees(t))
           /\ d.cfundPayout = Plus(b.cfundPayout, CFundPayout(t))
           /\ d.stake = IF Type(t) = "spend" THEN b.stake ELSE Stake(t, b)
<1> DEFINE b0 == [b EXCEPT !.stake = Stake(t, b)]
           b1 == ApplyStaking(t, b)
           b2 == ApplySpend(t, b1)
           b3 == ApplyCFundPayout(t, b2)
           b4 == ApplyFees(t, b3)
<1>1. /\ IsBlock(b1) /\ b1.fees = b.fees /\ b1.cfundPayout = b.cfundPayout
      /\ b1.stake = IF Type(t) = "spend" THEN b.stake ELSE Stake(t, b)
  <2>1. /\ IsBlock(b0) /\ b0.fees = b.fees /\ b0.cfundPayout = b.cfundPayout
        /\ b0.stake = Stake(t, b)
    BY SetField DEF Fields
  <2>2. b1 = IF Type(t) = "spend" THEN b ELSE [b0 EXCEPT !.stakedBy = StakedBy(t, b)]
    BY DEF ApplyStaking
  <2> HIDE DEF b0, b1
  <2> DEFINE d == [b0 EXCEPT !.stakedBy = StakedBy(t, b)]
  <2>3. IsBlock(d) /\ d.fees = b0.fees /\ d.cfundPayout = b0.cfundPayout /\ d.stake = b0.stake
    BY <2>1, SetField DEF Fields
  <2> HIDE DEF d
  <2>4. CASE Type(t) = "spend"
    BY <2>2, <2>4
  <2>5. CASE Type(t) # "spend"
    <3>1. b1 = d
      BY <2>2, <2>5 DEF d
    <3> QED
      BY <2>1, <2>3, <2>5, <3>1
  <2> QED
    BY <2>4, <2>5
<1> HIDE DEF b1
<1>2. /\ IsBlock(b2) /\ b2.fees = b1.fees /\ b2.cfundPayout = b1.cfundPayout
      /\ b2.stake = b1.stake
  BY <1>1, SetField DEF ApplySpend, Fields
<1> HIDE DEF b2
<1>3. /\ IsBlock(b3) /\ b3.fees = b2.fees /\ b3.stake = b2.stake
      /\ b3.cfundPayout = Plus(b2.cfundPayout, CFundPayout(t))
  BY <1>2, SetField DEF ApplyCFundPayout, Fields
<1> HIDE DEF b3
<1>4. /\ b4.cfundPayout = b3.cfundPayout /\ b4.stake = b3.stake
      /\ b4.fees = Plus(b3.fees, Fees(t))
  BY <1>3, SetField DEF ApplyFees, Fields
<1>5. CreateBlockTransaction(t, b) = b4
  BY DEF CreateBlockTransaction, b1, b2, b3, b4
<1> HIDE DEF b4
<1> QED
  BY <1>1, <1>2, <1>3, <1>4, <1>5

LEMMA FeesType ==
    ASSUME NEW t \in Tx
    PROVE  Fees(t) \in Int
<1>1. WordSize \in Nat \ {0}
  BY RawAssumption
<1>2. VinAmount(t) \in Int /\ VoutAmount(t) \in Int
  <2>1. /\ DOMAIN Raw[t].vout \subseteq DOMAIN Raw[t].vout /\ Inputs(t) \subseteq Inputs(t)
    OBVIOUS
  <2> DEFINE o == SumFunction([n \in DOMAIN Raw[t].vout |-> VoutValue(t, n)])
             i == SumFunction([n \in Inputs(t) |-> VinValue(t, n)])
  <2>2. o \in Int /\ i \in Int
    BY <2>1, PartOut, PartIn
  <2>3. VoutAmount(t) = o % WordSize /\ VinAmount(t) = i % WordSize
    BY DEF VoutAmount, VinAmount, Sum
  <2> HIDE DEF o, i
  <2> QED
    BY <1>1, <2>2, <2>3, AlikeRest
<1>3. Minus(VinAmount(t), VoutAmount(t)) \in Int
  <2> DEFINE d == VinAmount(t) - VoutAmount(t)
  <2>1. d \in Int
    BY <1>2
  <2> HIDE DEF d
  <2>2. d % WordSize \in Int
    BY <1>1, <2>1, AlikeRest
  <2> QED
    BY <2>2 DEF d, Minus
<1>4. PrivateFees(t) \in Int
  <2> DEFINE fees == {n \in DOMAIN Raw[t].vout : IsNulldata(Raw[t].vout[n])}
  <2>1. PrivateFees(t) = IF fees = {} THEN 0 ELSE VoutValue(t, Min(fees))
    BY DEF PrivateFees
  <2>2. fees \subseteq Nat /\ fees \subseteq DOMAIN Raw[t].vout
    <3>1. Raw[t].vout \in Seq({Raw[t].vout[m] : m \in DOMAIN Raw[t].vout})
      BY RawAssumption
    <3>2. DOMAIN Raw[t].vout = 1 .. Len(Raw[t].vout) /\ Len(Raw[t].vout) \in Nat
      BY <3>1, LenProperties
    <3> QED
      BY <3>2
  <2> HIDE DEF fees
  <2>3. fees # {} => Min(fees) \in fees
    BY <2>2, MinFact
  <2>4. fees # {} => VoutValue(t, Min(fees)) \in Nat
    BY <2>2, <2>3, VoutValueFact
  <2> QED
    BY <2>1, <2>4
<1> QED
  BY <1>3, <1>4 DEF Fees

\* The accounts of a block after one more transaction.
LEMMA AccountsNext ==
    ASSUME NEW b, IsBlock(b), b.txs \in Seq(Tx), b.height \in 1 .. MaxHeight, b.txs \in Blocks[b.height],
           NEW j \in DOMAIN b.txs, AccountsRight(b, j - 1)
    PROVE  LET d == CreateBlockTransaction(b.txs[j], b) IN
           d.txs = b.txs /\ d.height = b.height => AccountsRight(d, j)
<1> DEFINE txs == b.txs
           t == txs[j]
           d == CreateBlockTransaction(t, b)
           f == [i \in DOMAIN txs |-> Fees(txs[i])]
<1>0. SUFFICES ASSUME d.txs = txs, d.height = b.height PROVE AccountsRight(d, j)
  OBVIOUS
<1>1. /\ DOMAIN txs = 1 .. Len(txs) /\ Len(txs) \in Nat /\ j \in Nat /\ j >= 1
      /\ \A i \in DOMAIN txs : txs[i] \in Tx
  OBVIOUS
<1>2. t \in Tx
  BY <1>1
<1>3. /\ IsCoinbase(t) <=> j = 1
      /\ j > 2 => Type(t) = "spend"
  BY TransactionsAssumption, FeeAssumption
<1>4. /\ d.fees = Plus(b.fees, Fees(t)) /\ d.cfundPayout = Plus(b.cfundPayout, CFundPayout(t))
      /\ d.stake = IF Type(t) = "spend" THEN b.stake ELSE Stake(t, b)
  BY <1>2, AddedAccounts
<1>5. WordSize \in Nat \ {0}
  BY RawAssumption
<1> HIDE DEF d
<1>6. d.fees = FeesTo(txs, j) % WordSize
  <2>1. \A i \in DOMAIN txs : f[i] \in Int /\ f[i] = Fees(txs[i])
    BY <1>1, FeesType
  <2> DEFINE S == 1 .. j - 1
             F == SumFunctionOnSet(f, S)
             x == f[j]
  <2>2. b.fees = F % WordSize
    BY DEF AccountsRight, FeesTo
  <2>3. FeesTo(txs, j) = SumFunctionOnSet(f, 1 .. j)
    BY DEF FeesTo
  <2> HIDE DEF f
  <2>4. S \subseteq DOMAIN txs /\ j \notin S /\ 1 .. j = S \cup {j} /\ IsFiniteSet(S)
    <3>1. j <= Len(txs) /\ j - 1 \in Nat
      BY <1>1
    <3>2. IsFiniteSet(S)
      BY <3>1, FS_Interval
    <3>3. 1 .. j = S \cup {j}
      BY <1>1
    <3>4. \A i \in S : i \in 1 .. Len(txs) /\ i # j
      BY <1>1, <3>1
    <3> QED
      BY <1>1, <3>2, <3>3, <3>4
  <2>5. F \in Int /\ x \in Int /\ SumFunctionOnSet(f, S \cup {j}) = x + F
    <3> HIDE DEF S
    <3>1. \A i \in S : f[i] \in Int
      BY <2>1, <2>4
    <3>2. f[j] \in Int
      BY <2>1
    <3> QED
      BY <2>4, <3>1, <3>2, SumType, SumAdd
  <2>6. Fees(t) = x
    BY <2>1
  <2>7. FeesTo(txs, j) = x + F
    BY <2>3, <2>4, <2>5
  <2> HIDE DEF F, x
  <2>8. ((F % WordSize) + x) % WordSize = (F + x) % WordSize
    BY <1>5, <2>5, ModPlus
  <2>9. F + x = x + F
    BY <2>5
  <2> QED
    BY <1>4, <2>2, <2>6, <2>7, <2>8, <2>9 DEF Plus
<1>7. d.cfundPayout = CFundPayout(txs[1])
  <2>1. CFundPayout(t) \in 0 .. WordSize - 1 /\ (j # 1 => CFundPayout(t) = 0)
    BY <1>2, <1>3, PayoutFact
  <2>2. CASE j = 1
    <3>1. b.cfundPayout = 0
      BY <2>2 DEF AccountsRight
    <3>2. 0 + CFundPayout(t) = CFundPayout(t)
      BY <1>5, <2>1
    <3>3. Plus(0, CFundPayout(t)) = CFundPayout(t)
      BY <1>5, <2>1, <3>2, ModSmall DEF Plus
    <3> QED
      BY <1>4, <2>2, <3>1, <3>3
  <2>3. CASE j # 1
    <3>1. txs[1] \in Tx
      BY <1>1
    <3> DEFINE x == CFundPayout(txs[1])
    <3>2. x \in 0 .. WordSize - 1
      BY <3>1, PayoutFact
    <3>3. b.cfundPayout = x
      BY <1>1, <2>3 DEF AccountsRight
    <3> HIDE DEF x
    <3>4. x + 0 = x
      BY <1>5, <3>2
    <3>5. Plus(x, 0) = x
      BY <1>5, <3>2, <3>4, ModSmall DEF Plus
    <3> QED
      BY <1>4, <2>1, <2>3, <3>3, <3>5 DEF x
  <2> QED
    BY <2>2, <2>3
<1>8. ASSUME d.height > PrivateHeight, j >= 2
      PROVE  d.stake = Minus(SpendableAmount(txs[2]), VinAmount(txs[2]))
  <2>1. CASE j = 2
    <3>1. IsAnyStaking(t)
      <4>1. b.height \in PrivateHeight + 1 .. MaxHeight
        BY <1>0, <1>8, RawAssumption, ConstantFact
      <4> QED
        BY <2>1, <4>1, BalanceAssumption
    <3>2. Type(t) # "spend"
      BY <3>1 DEF Type
    <3>3. Stake(t, b) = Minus(SpendableAmount(t), VinAmount(t))
      BY <3>1 DEF Stake
    <3> QED
      BY <1>4, <2>1, <3>2, <3>3
  <2>2. CASE j # 2
    <3>1. j > 2 /\ j - 1 >= 2
      BY <1>1, <1>8, <2>2
    <3>2. b.stake = Minus(SpendableAmount(txs[2]), VinAmount(txs[2]))
      BY <1>0, <1>8, <3>1 DEF AccountsRight
    <3> QED
      BY <1>3, <1>4, <3>1, <3>2
  <2> QED
    BY <2>1, <2>2
<1>9. j # 0
  BY <1>1
<1> QED
  BY <1>0, <1>6, <1>7, <1>8, <1>9 DEF AccountsRight

-----------------------------------------------------------------------------
(* The invariant of the accounts *)

\* Of a block's contributions only its transactions matter.
LEMMA SameContributions ==
    ASSUME NEW b, NEW c, c.txs = b.txs
    PROVE  Contributions(c) = Contributions(b)
<1>1. \A d : Unspent(<<d>>) = OutputsOf(Elements(d.txs)) \ SpentBy(Elements(d.txs))
  <2> TAKE d
  <2>1. DOMAIN <<d>> = 1 .. 1
    OBVIOUS
  <2>2. TxsTo(<<d>>, 1) = Elements(d.txs)
    BY DEF TxsTo
  <2> QED
    BY <2>1, <2>2, UnspentFact
<1>2. Unspent(<<c>>) = Unspent(<<b>>)
  BY <1>1
<1> QED
  BY <1>2 DEF Contributions

\* Transactions that follow each other are different.
LEMMA FollowsInjective ==
    ASSUME NEW T, NEW txs \in Seq(Tx), Follows(txs, T)
    PROVE  IsInjective(txs)
<1> SUFFICES ASSUME NEW j \in DOMAIN txs, NEW k \in DOMAIN txs, txs[j] = txs[k] PROVE j = k
  BY DEF IsInjective
<1>1. DOMAIN txs = 1 .. Len(txs) /\ Len(txs) \in Nat
  OBVIOUS
<1>2. ~ j < k /\ ~ k < j
  BY EarlierFact DEF Follows
<1> QED
  BY <1>1, <1>2

LEMMA LastSupplies ==
    ASSUME TypeInv, MoneyInv
    PROVE  Last.supply \in Supplies
<1>1. CASE chain = <<>>
  <2>1. Last.supply = NoSupply
    BY <1>1 DEF Last, NoBlock
  <2>2. 0 \in 0 .. WordSize - 1
    BY RawAssumption
  <2> QED
    BY <2>1, <2>2 DEF NoSupply, Supplies
<1>2. CASE chain # <<>>
  <2>1. Len(chain) \in DOMAIN chain /\ Last = chain[Len(chain)]
    BY <1>2, TypeFact DEF Last
  <2> QED
    BY <2>1 DEF MoneyInv
<1> QED
  BY <1>1, <1>2

\* The block that is finished conserves the money.
LEMMA FinishedConserved ==
    ASSUME TypeInv, MoneyInv, FinishBlock
    PROVE  LET b == UpdateSupply(block) IN
           /\ b.supply \in Supplies
           /\ Len(chain) + 1 > PrivateHeight /\ KeepsApart(b) => Conserved(b, chain[Len(chain)])
<1> DEFINE n == Len(chain)
           b == UpdateSupply(block)
           was == Last.supply
           now == SupplyAfter(block)
<1>1. /\ pc = "build" /\ at[1] = Len(block.txs) + 1 /\ n \in Nat /\ DOMAIN chain = 1 .. n
      /\ n + 1 \in 1 .. MaxHeight /\ IsBlock(block) /\ block.height = n + 1
      /\ block.txs \in Blocks[n + 1] /\ block.txs \in Seq(Tx) /\ Len(block.txs) \in Nat
  BY FinishedFact, TypeFact, BuildFact
<1>2. /\ b.txs = block.txs /\ b.stake = block.stake /\ b.fees = block.fees
      /\ b.cfundPayout = block.cfundPayout /\ b.supply = now
  BY <1>1, SetField DEF UpdateSupply, Fields
<1>3. block.supply = was /\ AccountsRight(block, Len(block.txs))
  <2>1. at[1] - 1 = Len(block.txs)
    BY <1>1
  <2> QED
    BY <1>1, <2>1 DEF MoneyInv
<1>4. was \in Supplies
  BY LastSupplies
<1>5. block.supply \in Supplies /\ block.height \in Nat
  BY <1>1, <1>3, <1>4
<1> DEFINE change == SumFunction([j \in DOMAIN block.txs |-> Change(block.txs[j])])
<1>6. /\ now \in Supplies
      /\ n + 1 > PrivateHeight =>
           Alike((now.public + now.private + now.wrapped)
                    - (was.public + was.private + was.wrapped), change, WordSize)
  BY <1>1, <1>3, <1>5, SuppliesFact
<1> HIDE DEF change, b, was, now
<1>7. ASSUME n + 1 > PrivateHeight, KeepsApart(b) PROVE Conserved(b, chain[n])
  <2>1. IsInjective(block.txs)
    <3>1. Follows(block.txs, ChainTxs(chain))
      BY <1>1, ChainFact DEF TypeInv, BuildInv
    <3> QED
      BY <1>1, <3>1, FollowsInjective
  <2>2. KeepsApart(block)
    BY <1>2, <1>7 DEF KeepsApart
  <2>3. IsCounted(block)
    BY <1>1, <1>3, <1>7, <2>1, <2>2 DEF IsCounted
  <2>4. Alike(change, block.stake + block.cfundPayout - block.fees - Coins(Contributions(block)),
              WordSize)
    BY <2>3, AccountsFact DEF change
  <2>5. chain[n].supply = was
    <3>1. PrivateHeight \in Nat \ {0}
      BY RawAssumption
    <3>2. Last = chain[n]
      BY <1>1, <1>7, <3>1, TypeFact DEF Last
    <3> QED
      BY <3>2 DEF was
  <2>6. TotalSupply(b) = now.public + now.private + now.wrapped
    BY <1>2 DEF TotalSupply
  <2>7. TotalSupply(chain[n]) = was.public + was.private + was.wrapped
    BY <2>5 DEF TotalSupply
  <2>8. Alike(TotalSupply(b) - TotalSupply(chain[n]), change, WordSize)
    BY <1>6, <1>7, <2>6, <2>7
  <2>9. Contributions(b) = Contributions(block)
    BY <1>2, SameContributions
  <2>10. block.stake + block.cfundPayout - block.fees - Coins(Contributions(block))
           = b.stake + b.cfundPayout - b.fees - Coins(Contributions(b))
    BY <1>2, <2>9
  <2> QED
    BY <2>4, <2>8, <2>10 DEF Alike, Conserved
<1> QED
  BY <1>2, <1>6, <1>7 DEF b

LEMMA MoneyFinish == TypeInv /\ MoneyInv /\ FinishBlock => MoneyInv'
<1> SUFFICES ASSUME TypeInv, MoneyInv, FinishBlock PROVE MoneyInv'
  OBVIOUS
<1> DEFINE n == Len(chain)
           c == chain'
           b == UpdateSupply(block)
<1>1. /\ n \in Nat /\ DOMAIN chain = 1 .. n /\ PrivateHeight \in Nat \ {0} /\ pc' # "build"
      /\ DOMAIN c = 1 .. n + 1 /\ c[n + 1] = b /\ \A h \in 1 .. n : c[h] = chain[h]
  BY FinishedFact, TypeFact, RawAssumption DEF FinishBlock
<1>2. b.supply \in Supplies /\ (n + 1 > PrivateHeight /\ KeepsApart(b) => Conserved(b, chain[n]))
  BY FinishedConserved
<1> HIDE DEF c, b
<1>3. ASSUME NEW h \in DOMAIN c
      PROVE  /\ c[h].supply \in Supplies
             /\ h > PrivateHeight /\ KeepsApart(c[h]) => Conserved(c[h], c[h - 1])
  <2>1. CASE h \in 1 .. n
    <3>1. h > PrivateHeight => h - 1 \in 1 .. n
      BY <1>1, <2>1
    <3>2. c[h] = chain[h] /\ (h > PrivateHeight => c[h - 1] = chain[h - 1])
      BY <1>1, <2>1, <3>1
    <3>3. /\ chain[h].supply \in Supplies
          /\ h > PrivateHeight /\ KeepsApart(chain[h]) => Conserved(chain[h], chain[h - 1])
      BY <1>1, <2>1 DEF MoneyInv
    <3> QED
      BY <3>2, <3>3
  <2>2. CASE h = n + 1
    <3>1. n + 1 > PrivateHeight => n \in 1 .. n /\ (n + 1) - 1 = n
      BY <1>1
    <3>2. n + 1 > PrivateHeight => c[(n + 1) - 1] = chain[n]
      BY <1>1, <3>1
    <3> QED
      BY <1>1, <1>2, <2>2, <3>2
  <2> QED
    BY <1>1, <2>1, <2>2
<1> QED
  BY <1>1, <1>3 DEF MoneyInv, c

LEMMA MoneyCut ==
    ASSUME TypeInv, MoneyInv, NEW n \in 0 .. Len(chain), chain' = SubSeq(chain, 1, n), pc' # "build"
    PROVE  MoneyInv'
<1> DEFINE c == chain'
<1>1. DOMAIN c = 1 .. n /\ n \in Nat /\ \A h \in 1 .. n : h \in DOMAIN chain /\ chain[h] = c[h]
  BY TypeFact, PlacedCut
<1> HIDE DEF c
<1>2. ASSUME NEW h \in DOMAIN c
      PROVE  /\ c[h].supply \in Supplies
             /\ h > PrivateHeight /\ KeepsApart(c[h]) => Conserved(c[h], c[h - 1])
  <2>1. h > PrivateHeight => h - 1 \in 1 .. n
    BY <1>1, RawAssumption
  <2>2. c[h] = chain[h] /\ (h > PrivateHeight => c[h - 1] = chain[h - 1])
    BY <1>1, <2>1
  <2>3. /\ chain[h].supply \in Supplies
        /\ h > PrivateHeight /\ KeepsApart(chain[h]) => Conserved(chain[h], chain[h - 1])
    BY <1>1 DEF MoneyInv
  <2> QED
    BY <2>2, <2>3
<1> QED
  BY <1>2 DEF MoneyInv, c

\* A block that is begun has no accounts yet.
LEMMA MoneyFetch == TypeInv /\ MoneyInv /\ FetchBlock => MoneyInv'
<1> SUFFICES ASSUME TypeInv, MoneyInv, FetchBlock PROVE MoneyInv'
  OBVIOUS
<1>1. PICK txs \in Blocks[Len(chain) + 1] : block' = CreateBlock(txs, Last)
  BY DEF FetchBlock
<1>2. /\ block'.supply = Last.supply /\ block'.txs = txs
      /\ block'.fees = 0 /\ block'.cfundPayout = 0
  BY <1>1 DEF CreateBlock, NoBlock
<1>3. chain' = chain /\ at' = <<1, 1>>
  BY DEF FetchBlock, index
<1>4. FeesTo(txs, 0) % WordSize = 0
  <2> DEFINE f == [j \in DOMAIN txs |-> Fees(txs[j])]
  <2>1. 1 .. 0 = {}
    OBVIOUS
  <2>2. FeesTo(txs, 0) = SumFunctionOnSet(f, {})
    BY <2>1 DEF FeesTo
  <2> HIDE DEF f
  <2>3. FeesTo(txs, 0) = 0
    BY <2>2, SumEmpty
  <2>4. 0 \in 0 .. WordSize - 1 /\ WordSize \in Nat \ {0}
    BY RawAssumption
  <2> QED
    BY <2>3, <2>4, ModSmall
<1>5. at'[1] - 1 = 0
  BY <1>3
<1>6. AccountsRight(block', 0)
  BY <1>2, <1>4 DEF AccountsRight
<1>7. Last' = Last
  BY <1>3 DEF Last
<1> QED
  BY <1>2, <1>3, <1>5, <1>6, <1>7 DEF MoneyInv

LEMMA MoneyIndexTransaction == TypeInv /\ MoneyInv /\ IndexTransaction => MoneyInv'
<1> SUFFICES ASSUME TypeInv, MoneyInv, IndexTransaction PROVE MoneyInv'
  OBVIOUS
<1> DEFINE j == at[1]
           b == block'
<1>1. /\ Building /\ UNCHANGED <<chain, pc>> /\ pc = "build"
      /\ b = CreateBlockTransaction(block.txs[j], block) /\ at' = <<j + 1, 1>>
  BY DEF IndexTransaction, index, Building, Current
<1>2. /\ IsBlock(block) /\ block.txs \in Seq(Tx) /\ block.height = Len(chain) + 1
      /\ block.height \in 1 .. MaxHeight /\ block.txs \in Blocks[block.height]
      /\ j \in DOMAIN block.txs /\ j \in Nat /\ block.stakedBy \in AnyAddress
      /\ block.txs[j] \in Tx
  BY <1>1, BuildFact
<1>3. block.supply = Last.supply /\ AccountsRight(block, j - 1)
  BY <1>1 DEF MoneyInv
<1>4. b.txs = block.txs /\ b.height = block.height /\ b.supply = block.supply
  BY <1>1, <1>2, AddedTransactionFact DEF SameBlock
<1> HIDE DEF b, j
<1>5. AccountsRight(b, j)
  BY <1>1, <1>2, <1>3, <1>4, AccountsNext
<1>6. at'[1] - 1 = j
  BY <1>1, <1>2
<1>7. Last' = Last
  BY <1>1 DEF Last
<1> QED
  BY <1>1, <1>3, <1>4, <1>5, <1>6, <1>7 DEF MoneyInv, b

LEMMA MoneyStep == TypeInv /\ MoneyInv /\ [Next]_vars => MoneyInv'
<1> SUFFICES ASSUME TypeInv, MoneyInv, [Next]_vars PROVE MoneyInv'
  OBVIOUS
<1>1. CASE UNCHANGED <<chain, block, at, pc>>
  <2>1. Last' = Last
    BY <1>1 DEF Last
  <2> QED
    BY <1>1, <2>1 DEF MoneyInv
<1>2. CASE UNCHANGED <<chain, block>> /\ pc # "build" /\ pc' # "build"
  BY <1>2 DEF MoneyInv
<1>3. CASE IndexPreviousTx
  <2>1. chain' = chain /\ block' = block /\ pc' = pc /\ at'[1] = at[1]
    BY <1>3 DEF IndexPreviousTx, index
  <2>2. Last' = Last
    BY <2>1 DEF Last
  <2> QED
    BY <2>1, <2>2 DEF MoneyInv
<1>4. CASE pc' # "build" /\ \E n \in 0 .. Len(chain) : chain' = SubSeq(chain, 1, n)
  BY <1>4, MoneyCut
<1> QED
  BY <1>1, <1>2, <1>3, <1>4, MoneyFetch, MoneyIndexTransaction, MoneyFinish, BlockStep

\* The accounts of a block under construction are those of its transactions so
\* far, and each indexed block conserves the money, however often it was indexed.
THEOREM MoneyInvariant == Spec => []MoneyInv
<1>1. Init => MoneyInv
  BY DEF Init, MoneyInv
<1>2. TypeInv /\ MoneyInv /\ [Next]_vars => MoneyInv'
  BY MoneyStep
<1> QED
  BY <1>1, <1>2, TypeAlways, PTL DEF Spec

\* What the supplies change by in a block is what is staked and paid out in it
\* less its fees and contributions, for every block above PrivateHeight, although
\* block.Index keeps the two accounts apart and they wrap around as uint64.
THEOREM MoneyCorrect == Spec => []MoneyIsConserved
<1>1. TypeInv /\ MoneyInv => MoneyIsConserved
  <2> SUFFICES ASSUME TypeInv, MoneyInv, Indexed, Last.height > PrivateHeight, KeepsApart(Last)
               PROVE  Conserved(Last, chain[Last.height - 1])
    BY DEF MoneyIsConserved
  <2>1. Len(chain) \in DOMAIN chain /\ Last = chain[Len(chain)]
    <3>1. Len(chain) \in Nat /\ top \in Nat /\ top < Len(chain) /\ DOMAIN chain = 1 .. Len(chain)
      BY TypeFact DEF Indexed
    <3> QED
      BY <3>1, TypeFact DEF Last
  <2>2. Last.height = Len(chain)
    BY LastFact
  <2> QED
    BY <2>1, <2>2 DEF MoneyInv
<1> QED
  BY <1>1, TypeAlways, MoneyInvariant, PTL
===============================================================================
