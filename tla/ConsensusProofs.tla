-------------------------- MODULE ConsensusProofs ---------------------------
(***************************************************************************)
(* Proofs about Consensus: its invariants, for every size of the rewind    *)
(* and every set of consultations.                                         *)
(***************************************************************************)
EXTENDS Consensus, WellFoundedInduction, TLAPS

\* Parameters are a function from some ids.
IsFunction(ps) == ps = [i \in DOMAIN ps |-> ps[i]]

\* The first parameter is there whenever another is, and saved before it.
FirstInv ==
    /\ IsFunction(stored) /\ IsFunction(cached)
    /\ stored # NoParameters => VotingCycleLength \in DOMAIN stored
    /\ unsaved # {} => VotingCycleLength \in unsaved \cup DOMAIN stored

\* What the shared cache holds at each pc.
SharedCacheInv ==
    /\ pc \in {"down", "load", "blocks", "dao"} => cached = NoParameters
    /\ pc \in {"make", "init", "start", "rewind", "restore", "delete", "idle"} =>
          /\ VotingCycleLength \in DOMAIN cached
          /\ DOMAIN stored \subseteq DOMAIN cached
          /\ \A i \in DOMAIN cached \ unsaved : i \in DOMAIN stored /\ stored[i] = cached[i]
    /\ pc = "make" => ~ rewound
    /\ pc \in {"restore", "delete"} => cached = InitialState

\* After a rewind the parameters are the initial ones in every place.
RewoundInv ==
    /\ rewound => stored = InitialState /\ cached \in {NoParameters, InitialState}

ParametersInv == TypeOK /\ FirstInv /\ SharedCacheInv /\ RewoundInv

-----------------------------------------------------------------------------
\* The initial state of either network: a natural number for every id.
LEMMA InitialStateFact ==
    /\ InitialState \in [Id -> Nat]
    /\ VotingCycleLength \in DOMAIN InitialState
    /\ IsParameters(InitialState) /\ IsFunction(InitialState)
<1>1. \A i \in Id : Mainnet[i + 1] \in Nat
  BY DEF Id, Mainnet
<1>2. \A i \in Id : Testnet[i + 1] \in Nat
  BY DEF Id, Testnet
<1>3. InitialState \in [Id -> Nat]
  BY <1>1, <1>2 DEF InitialState
<1>4. VotingCycleLength \in Id
  BY DEF VotingCycleLength, Id
<1> QED
  BY <1>3, <1>4 DEF IsParameters, IsFunction

\* NoParameters is the one function without an id.
LEMMA NoParametersFact ==
    /\ DOMAIN NoParameters = {} /\ IsParameters(NoParameters) /\ IsFunction(NoParameters)
    /\ \A ps : IsFunction(ps) /\ DOMAIN ps = {} => ps = NoParameters
BY DEF NoParameters, IsParameters, IsFunction

\* NoParameters has no first parameter.
LEMMA KnownFact ==
    ASSUME NEW ps, VotingCycleLength \in DOMAIN ps
    PROVE  ps # NoParameters
BY NoParametersFact

\* A process that ends keeps what is stored.
LEMMA DieParameters ==
    ASSUME ParametersInv, Die, consultations' \subseteq Consultation,
           UNCHANGED <<stored, height, target>>, rewound' \in BOOLEAN,
           rewound' => stored = InitialState
    PROVE  ParametersInv'
BY NoParametersFact DEF ParametersInv, TypeOK, FirstInv, SharedCacheInv, RewoundInv, Die

LEMMA InitParameters == Init => ParametersInv
<1> SUFFICES ASSUME Init PROVE ParametersInv
  OBVIOUS
<1>1. TypeOK
  <2>1. IsParameters(stored) /\ IsParameters(cached)
    BY InitialStateFact, NoParametersFact DEF Init
  <2>2. height \in 0 .. MaxHeight /\ target \in 0 .. MaxHeight
    BY ConsensusAssumption DEF Init
  <2>3. consultations \subseteq Consultation
    BY DEF Init
  <2>4. unsaved = {} /\ pc = "down" /\ rewound = FALSE
    BY DEF Init
  <2>5. rewound \in BOOLEAN /\ unsaved \subseteq DOMAIN cached
    BY <2>4
  <2>6. (pc \in {"make", "init", "restore"}) = (unsaved # {})
    BY <2>4
  <2>7. pc \in {"down", "make", "load", "init", "start", "rewind", "blocks", "dao",
               "restore", "delete", "idle"}
    BY <2>4
  <2> QED
    BY <2>1, <2>2, <2>3, <2>5, <2>6, <2>7 DEF TypeOK
<1>2. FirstInv /\ SharedCacheInv /\ RewoundInv
  BY InitialStateFact, NoParametersFact DEF Init, FirstInv, SharedCacheInv, RewoundInv
<1> QED
  BY <1>1, <1>2 DEF ParametersInv

\* Update: all parameters are still to be saved.
LEMMA UpdateParameters ==
    ASSUME ParametersInv, NEW parameters, Update(parameters),
           IsParameters(parameters), IsFunction(parameters),
           VotingCycleLength \in DOMAIN parameters,
           UNCHANGED <<height, target>>,
           UNCHANGED <<stored, consultations, rewound>>,
           DOMAIN stored \subseteq DOMAIN parameters,
           rewound => parameters = InitialState,
           pc' = "init" \/ (pc' = "restore" /\ parameters = InitialState)
    PROVE  ParametersInv'
<1> USE DEF ParametersInv
<1>1. cached' = parameters /\ unsaved' = DOMAIN parameters /\ unsaved' # {}
  BY DEF Update
<1>2. IsParameters(stored)' /\ IsFunction(stored)'
  BY NoParametersFact DEF TypeOK, FirstInv
<1>3. TypeOK'
  <2>1. pc' \in {"make", "init", "restore"} /\ rewound' \in BOOLEAN
    BY DEF TypeOK
  <2>2. IsParameters(cached)' /\ unsaved' \subseteq DOMAIN cached'
    BY <1>1
  <2> QED
    BY <2>1, <2>2, <1>1, <1>2 DEF TypeOK
<1>4. FirstInv'
  BY <1>1, <1>2, NoParametersFact DEF FirstInv
<1>5. SharedCacheInv'
  BY <1>1 DEF SharedCacheInv
<1>6. RewoundInv'
  BY <1>1 DEF RewoundInv
<1> QED
  BY <1>3, <1>4, <1>5, <1>6

\* What is stored was saved by Update, the first parameter first.
LEMMA LoadedFact ==
    ASSUME ParametersInv
    PROVE  /\ IsParameters(Loaded) /\ IsFunction(Loaded)
           /\ VotingCycleLength \in DOMAIN Loaded
           /\ DOMAIN stored \subseteq DOMAIN Loaded
           /\ rewound => Loaded = InitialState
BY InitialStateFact, NoParametersFact
   DEF Loaded, ParametersInv, TypeOK, FirstInv, RewoundInv

LEMMA InitConsensusParametersStep ==
    ASSUME ParametersInv, InitConsensusParameters
    PROVE  ParametersInv'
BY LoadedFact, UpdateParameters DEF InitConsensusParameters, ParametersInv, TypeOK

LEMMA ReindexStep ==
    ASSUME ParametersInv, Reindex
    PROVE  ParametersInv'
<1> USE DEF ParametersInv
<1>1. /\ stored' = NoParameters /\ cached' = InitialState /\ unsaved' = DOMAIN InitialState
      /\ consultations' = {} /\ height' = 0 /\ ~ rewound' /\ rewound' \in BOOLEAN
      /\ pc' = "make" /\ target' = target
  BY DEF Reindex, Update
<1>2. unsaved' # {} /\ 0 \in 0 .. MaxHeight
  BY <1>1, InitialStateFact, ConsensusAssumption
<1>3. TypeOK'
  BY <1>1, <1>2, InitialStateFact, NoParametersFact DEF TypeOK
<1>4. FirstInv'
  BY <1>1, InitialStateFact, NoParametersFact DEF FirstInv
<1>5. SharedCacheInv'
  BY <1>1, InitialStateFact, NoParametersFact DEF SharedCacheInv
<1>6. RewoundInv'
  BY <1>1 DEF RewoundInv
<1> QED
  BY <1>3, <1>4, <1>5, <1>6

LEMMA RewindDaoStep ==
    ASSUME ParametersInv, RewindDao
    PROVE  ParametersInv'
<1>1. Update(InitialState) /\ pc' = "restore"
      /\ UNCHANGED <<stored, consultations, height, target, rewound>>
  BY DEF RewindDao, Restored, AfterAnswers
<1>2. DOMAIN stored \subseteq DOMAIN InitialState
  BY InitialStateFact DEF ParametersInv, TypeOK, IsParameters
<1> QED
  BY <1>1, <1>2, InitialStateFact, UpdateParameters DEF ParametersInv, TypeOK

\* There is a lowest one among the ids still to be saved.
LEMMA NextToSaveFact ==
    ASSUME ParametersInv, unsaved # {}
    PROVE  /\ NextToSave \in unsaved
           /\ VotingCycleLength \in unsaved => NextToSave = VotingCycleLength
<1>1. unsaved \subseteq Id
  BY DEF ParametersInv, TypeOK, IsParameters
<1>2. \E i \in unsaved : \A j \in unsaved : i <= j
  <2>1. IsWellFoundedOn({p \in Nat \X Nat : p[1] < p[2]}, Nat)
    BY NatLessThanWellFounded DEF OpToRel
  <2>2. unsaved \subseteq Nat
    BY <1>1 DEF Id
  <2>3. PICK i \in unsaved : \A j \in unsaved : <<j, i>> \notin {p \in Nat \X Nat : p[1] < p[2]}
    BY <2>1, <2>2, WFMin
  <2>4. \A j \in unsaved : ~ (j < i)
    BY <2>2, <2>3
  <2> QED
    BY <2>2, <2>4
<1>3. NextToSave \in unsaved /\ \A j \in unsaved : NextToSave <= j
  BY <1>2 DEF NextToSave
<1>4. VotingCycleLength \in unsaved => NextToSave <= 0
  BY <1>3 DEF VotingCycleLength
<1> QED
  BY <1>1, <1>3, <1>4 DEF Id, VotingCycleLength

\* One more parameter is stored; when none is left, stored and cached agree.
LEMMA SaveParameterStep ==
    ASSUME ParametersInv, SaveParameter
    PROVE  ParametersInv'
<1> DEFINE n == NextToSave
<1> USE DEF ParametersInv
<1>1. /\ n \in unsaved /\ n \in DOMAIN cached
      /\ VotingCycleLength \in unsaved => n = VotingCycleLength
  BY NextToSaveFact DEF SaveParameter, TypeOK
<1> HIDE DEF n
<1>2. /\ stored' = [i \in DOMAIN stored \cup {n} |-> IF i = n THEN cached[i] ELSE stored[i]]
      /\ unsaved' = unsaved \ {n} /\ unsaved # {}
      /\ pc' = IF unsaved' = {} THEN AfterSave ELSE pc
      /\ cached' = IF pc' = "down" THEN NoParameters ELSE cached
      /\ UNCHANGED <<consultations, height, target, rewound>>
  BY DEF SaveParameter, n
<1>3. pc \in {"make", "init", "restore"}
  BY <1>2 DEF TypeOK
<1>4. /\ DOMAIN stored' = DOMAIN stored \cup {n} /\ stored'[n] = cached[n]
      /\ \A i \in DOMAIN stored \ {n} : stored'[i] = stored[i]
  BY <1>2
<1>5. \/ pc' = pc /\ cached' = cached /\ unsaved' # {}
      \/ pc' = AfterSave /\ unsaved' = {} /\ cached' \in {cached, NoParameters}
           /\ (pc' # "down" => cached' = cached)
  BY <1>2, <1>3 DEF AfterSave
<1>6. AfterSave \in {"down", "start", "delete"} /\ (AfterSave = "down" <=> pc = "make")
      /\ (AfterSave = "delete" <=> pc = "restore")
  BY <1>3 DEF AfterSave
<1>7. TypeOK'
  <2>1. IsParameters(stored)'
    BY <1>1, <1>4 DEF TypeOK, IsParameters
  <2>2. IsParameters(cached)'
    BY <1>5, NoParametersFact DEF TypeOK
  <2>3. unsaved' \subseteq DOMAIN cached'
    BY <1>2, <1>5 DEF TypeOK
  <2>4. pc' \in {"make", "init", "restore"} <=> unsaved' # {}
    BY <1>3, <1>5, <1>6
  <2>5. pc' \in {"down", "make", "init", "restore", "start", "delete"}
    BY <1>3, <1>5, <1>6
  <2> QED
    BY <1>2, <2>1, <2>2, <2>3, <2>4, <2>5 DEF TypeOK
<1>8. FirstInv'
  <2>1. IsFunction(stored)' /\ IsFunction(cached)'
    BY <1>2, <1>5, NoParametersFact DEF FirstInv, IsFunction
  <2>2. VotingCycleLength \in DOMAIN stored'
    BY <1>1, <1>2, <1>4 DEF FirstInv
  <2> QED
    BY <2>1, <2>2 DEF FirstInv
<1>9. SharedCacheInv'
  <2>1. pc' \notin {"load", "blocks", "dao"} /\ (pc' = "down" => cached' = NoParameters)
    BY <1>2, <1>3, <1>5, <1>6
  <2>2. pc' # "down" => cached' = cached
    BY <1>2
  <2>3. /\ VotingCycleLength \in DOMAIN cached
        /\ DOMAIN stored' \subseteq DOMAIN cached
        /\ \A i \in DOMAIN cached \ unsaved' : i \in DOMAIN stored' /\ stored'[i] = cached[i]
    BY <1>1, <1>2, <1>3, <1>4 DEF SharedCacheInv
  <2>4. pc' = "make" => ~ rewound'
    BY <1>2, <1>3, <1>5, <1>6 DEF SharedCacheInv
  <2>5. pc' \in {"restore", "delete"} => cached' = InitialState
    BY <1>3, <1>5, <1>6 DEF SharedCacheInv
  <2> QED
    BY <2>1, <2>2, <2>3, <2>4, <2>5 DEF SharedCacheInv
<1>10. RewoundInv'
  <2> SUFFICES ASSUME rewound
               PROVE  stored' = InitialState /\ cached' \in {NoParameters, InitialState}
    BY <1>2 DEF RewoundInv
  <2>1. stored = InitialState /\ cached \in {NoParameters, InitialState}
    BY DEF RewoundInv
  <2>2. cached = InitialState
    BY <1>1, <2>1, NoParametersFact
  <2>3. stored' = [i \in DOMAIN InitialState |-> InitialState[i]]
    BY <1>1, <1>2, <2>1, <2>2
  <2> QED
    BY <1>5, <2>2, <2>3, InitialStateFact DEF IsFunction
<1> QED
  BY <1>7, <1>8, <1>9, <1>10

\* The end of the rewind: all parameters have been saved.
LEMMA DeleteConsultationsStep ==
    ASSUME ParametersInv, DeleteConsultations
    PROVE  ParametersInv'
<1> USE DEF ParametersInv
<1>1. /\ pc = "delete" /\ consultations' \subseteq consultations /\ rewound' = TRUE
      /\ UNCHANGED <<stored, height, target>>
      /\ (pc' = "idle" /\ UNCHANGED <<cached, unsaved>>) \/ Die
  BY DEF DeleteConsultations, Kept
<1>2. unsaved = {} /\ cached = InitialState
  BY <1>1 DEF TypeOK, SharedCacheInv
<1>3. stored = InitialState
  <2>1. DOMAIN stored = DOMAIN InitialState /\ \A i \in DOMAIN stored : stored[i] = InitialState[i]
    BY <1>1, <1>2 DEF SharedCacheInv
  <2> QED
    BY <2>1, InitialStateFact DEF FirstInv, IsFunction
<1>4. consultations' \subseteq Consultation
  BY <1>1 DEF TypeOK
<1>5. CASE Die
  BY <1>1, <1>3, <1>4, <1>5, DieParameters
<1>6. CASE pc' = "idle" /\ UNCHANGED <<cached, unsaved>>
  <2>1. TypeOK'
    BY <1>1, <1>2, <1>4, <1>6 DEF TypeOK
  <2>2. FirstInv' /\ RewoundInv'
    BY <1>1, <1>2, <1>3, <1>6 DEF FirstInv, RewoundInv
  <2>3. SharedCacheInv'
    BY <1>1, <1>2, <1>6 DEF SharedCacheInv
  <2> QED
    BY <2>1, <2>2, <2>3
<1> QED
  BY <1>1, <1>5, <1>6

LEMMA KillStep ==
    ASSUME ParametersInv, Kill
    PROVE  ParametersInv'
<1>1. consultations' \subseteq Consultation
  BY DEF Kill, ParametersInv, TypeOK
<1> QED
  BY <1>1, DieParameters DEF Kill, ParametersInv, TypeOK, RewoundInv

\* The steps that leave the parameters alone, or flush them.
LEMMA OtherSteps ==
    ASSUME ParametersInv,
           \/ Start \/ RewindAtStart \/ RewindOrphan
           \/ RewindAddresses \/ RewindBlocks \/ IndexBlock
    PROVE  ParametersInv'
<1> USE DEF ParametersInv
<1>1. UNCHANGED <<stored, consultations, unsaved, rewound>>
  BY DEF Start, RewindAtStart, RewindOrphan, RewindAddresses, RewindBlocks, IndexBlock
<1>2. /\ pc \in {"down", "start", "idle", "rewind", "blocks"}
      /\ pc' \in {"load", "rewind", "idle", "blocks", "dao"}
      /\ unsaved = {}
  BY DEF Start, RewindAtStart, RewindOrphan, RewindAddresses, RewindBlocks, IndexBlock, TypeOK
<1>3. height' \in 0 .. MaxHeight /\ target' \in 0 .. MaxHeight
  BY ConsensusAssumption
     DEF Start, RewindAtStart, RewindOrphan, RewindAddresses, RewindBlocks, IndexBlock, TypeOK
<1>4. \/ pc' \in {"blocks", "dao", "load"} /\ cached' = NoParameters
      \/ pc' \in {"rewind", "idle"} /\ cached' = cached /\ pc \in {"start", "idle"}
  BY DEF Start, RewindAtStart, RewindOrphan, RewindAddresses, RewindBlocks, IndexBlock, SharedCacheInv
<1>5. TypeOK'
  <2>1. IsParameters(cached)'
    BY <1>4, NoParametersFact DEF TypeOK
  <2> QED
    BY <1>1, <1>2, <1>3, <2>1 DEF TypeOK
<1>6. FirstInv'
  BY <1>1, <1>4, NoParametersFact DEF FirstInv
<1>7. SharedCacheInv'
  BY <1>1, <1>2, <1>4 DEF SharedCacheInv
<1>8. RewoundInv'
  BY <1>1, <1>4 DEF RewoundInv
<1> QED
  BY <1>5, <1>6, <1>7, <1>8

LEMMA NextParameters ==
    ASSUME ParametersInv, [Next]_vars
    PROVE  ParametersInv'
<1>1. CASE \/ Start \/ RewindAtStart \/ RewindOrphan
           \/ RewindAddresses \/ RewindBlocks \/ IndexBlock
  BY <1>1, OtherSteps
<1>2. CASE Reindex
  BY <1>2, ReindexStep
<1>3. CASE InitConsensusParameters
  BY <1>3, InitConsensusParametersStep
<1>4. CASE SaveParameter
  BY <1>4, SaveParameterStep
<1>5. CASE RewindDao
  BY <1>5, RewindDaoStep
<1>6. CASE DeleteConsultations \/ Kill
  BY <1>6, DeleteConsultationsStep, KillStep
<1>7. CASE UNCHANGED vars
  BY <1>7 DEF vars, ParametersInv, TypeOK, FirstInv, SharedCacheInv, RewoundInv
<1> QED
  BY <1>1, <1>2, <1>3, <1>4, <1>5, <1>6, <1>7 DEF Next

LEMMA ParametersInvariant == Spec => []ParametersInv
BY InitParameters, NextParameters, PTL DEF Spec

-----------------------------------------------------------------------------
(* The theorems *)

\* The types of Consensus's variables, for every value of the constants.
THEOREM TypeCorrect == Spec => []TypeOK
<1>1. ParametersInv => TypeOK
  BY DEF ParametersInv
<1> QED
  BY <1>1, ParametersInvariant, PTL

\* A block is never indexed without VOTING_CYCLE_LENGTH.
THEOREM CycleLengthStaysKnown == Spec => []CycleLengthKnown
<1>1. ParametersInv => CycleLengthKnown
  BY DEF ParametersInv, SharedCacheInv, CycleLengthKnown
<1> QED
  BY <1>1, ParametersInvariant, PTL

\* The shared cache and Elasticsearch agree about all that has been saved.
THEOREM CacheStaysStored == Spec => []CacheIsStored
<1>1. ParametersInv => CacheIsStored
  <2> SUFFICES ASSUME ParametersInv, cached # NoParameters, NEW i \in Id \ unsaved
               PROVE  /\ i \in DOMAIN cached => i \in DOMAIN stored /\ stored[i] = cached[i]
                      /\ pc = "idle" => (i \in DOMAIN stored) = (i \in DOMAIN cached)
    BY DEF CacheIsStored
  <2>1. pc \in {"make", "init", "start", "rewind", "restore", "delete", "idle"}
    BY DEF ParametersInv, SharedCacheInv, TypeOK
  <2>2. /\ DOMAIN stored \subseteq DOMAIN cached
        /\ \A j \in DOMAIN cached \ unsaved : j \in DOMAIN stored /\ stored[j] = cached[j]
    BY <2>1 DEF ParametersInv, SharedCacheInv
  <2>3. i \in DOMAIN cached => i \in DOMAIN stored /\ stored[i] = cached[i]
    BY <2>2
  <2> QED
    BY <2>2, <2>3
<1> QED
  BY <1>1, ParametersInvariant, PTL

\* After a rewind all parameters are there, whatever a kill left out before it.
THEOREM RewindsComplete == Spec => []RewindCompletes
<1>1. ParametersInv => RewindCompletes
  BY NoParametersFact DEF ParametersInv, SharedCacheInv, RewoundInv, RewindCompletes
<1> QED
  BY <1>1, ParametersInvariant, PTL
=============================================================================
