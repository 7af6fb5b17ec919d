----------------------------- MODULE Consensus ------------------------------
(***************************************************************************)
(* The consensus parameters: set up at the start, held in the in-memory    *)
(* cache that the block service and the address indexer share, needed for  *)
(* every block, and set to their initial state by a rewind.                *)
(*                                                                         *)
(* A parameter is its value: UpdatedOnBlock is assigned to copies only and *)
(* stays 0.  The passed consultations are documents stored by a build that *)
(* indexes the DAO; this one reads and deletes them.                       *)
(***************************************************************************)
EXTENDS Integers, Sequences

CONSTANTS
    SoftForkBlockCycle,  \* 20160 for mainnet
    ReindexSize,         \* the blocks a rewind takes away
    MaxHeight,           \* bound on the height of the index
    InitHeight,          \* the height of an index there is at the beginning
    Consultation,        \* the passed consultations there may be
    ParameterOf,         \* the parameter each is about: its field Min
    Answer,              \* its passed answer
    CreatedAt            \* the height of its document

ASSUME ConsensusAssumption ==
    /\ ReindexSize \in Nat \ {0} /\ MaxHeight \in Nat /\ InitHeight \in 1 .. MaxHeight
    /\ ParameterOf \in [Consultation -> 0 .. 27]
    /\ Answer \in [Consultation -> Nat]
    /\ CreatedAt \in [Consultation -> 1 .. InitHeight]

VARIABLES
    stored,         \* the parameters in Elasticsearch
    cached,         \* those in the shared cache
    unsaved,        \* the ids of those that Update has still to save
    consultations,  \* the passed consultations in Elasticsearch
    height,         \* the height of the best block in the index, 0: none
    target,         \* the height of the rewind under way
    pc,             \* where the process stands, see TypeOK
    rewound         \* history: a rewind has ended since the indices were made

vars == <<stored, cached, unsaved, consultations, height, target, pc, rewound>>

-----------------------------------------------------------------------------
(* The parameters *)

Id == 0 .. 27

VotingCycleLength == 0

\* By id, starting with 0; amounts of NAV in units of 10000 satoshi.
Mainnet ==
    <<20160, 150, 150, 2, 4, 4, 1, 1000000, 500000, 5000, 7000, 7000, 500000, 6, 5000, 7000,
      7000, 0, 8, 500, 2000, 25000, 1000000, 1000, 0, 1152000, 1024, 30000>>

Testnet ==
    <<800, 150, 150, 2, 4, 4, 1, 1000000, 500000, 5000, 7000, 7000, 1, 6, 5000, 7000,
      7000, 0, 8, 500, 2000, 25000, 1000000, 1000, 0, 1152000, 1024, 30000>>

InitialState ==
    [i \in Id |-> IF SoftForkBlockCycle # 20160 THEN Testnet[i + 1] ELSE Mainnet[i + 1]]

NoParameters == [i \in {} |-> 0]

IsParameters(ps) == DOMAIN ps \subseteq Id /\ \A i \in DOMAIN ps : ps[i] \in Nat

TypeOK ==
    /\ IsParameters(stored) /\ IsParameters(cached)
    /\ unsaved \subseteq DOMAIN cached
    /\ consultations \subseteq Consultation
    /\ height \in 0 .. MaxHeight /\ target \in 0 .. MaxHeight
    /\ pc \in {"down", "make", "load", "init", "start", "rewind", "blocks", "dao",
               "restore", "delete", "idle"}
    /\ (pc \in {"make", "init", "restore"}) = (unsaved # {})
    /\ rewound \in BOOLEAN

\* There is no index yet, or one whose parameters are complete.
Init ==
    /\ \/ stored = NoParameters /\ height = 0 /\ consultations = {}
       \/ stored = InitialState /\ height = InitHeight /\ consultations \in SUBSET Consultation
    /\ cached = NoParameters /\ unsaved = {}
    /\ target = 0
    /\ pc = "down"
    /\ rewound = FALSE

-----------------------------------------------------------------------------
(* The service *)

\* Mutant of Update: the loop ends after the first parameter.
UpdateFirst(parameters) ==
    /\ cached' = parameters
    /\ unsaved' = {CHOOSE i \in DOMAIN parameters : \A j \in DOMAIN parameters : i <= j}

\* Mutant of Update: only what is not stored yet is saved.
UpdateMissing(parameters) ==
    /\ cached' = parameters
    /\ unsaved' = DOMAIN parameters \ DOMAIN stored

Update(parameters) ==
    /\ cached' = parameters
    /\ unsaved' = DOMAIN parameters

\* Mutant of NextToSave: from the end.
LastToSave == CHOOSE i \in unsaved : \A j \in unsaved : i >= j

\* The lowest id: InitialState has them in order, and so has the search.
NextToSave == CHOOSE i \in unsaved : \A j \in unsaved : i <= j

AfterSave ==
    IF pc = "make" THEN "down" ELSE IF pc = "init" THEN "start" ELSE "delete"

\* One call of Save.
SaveParameter ==
    /\ unsaved # {}
    /\ stored' = [i \in DOMAIN stored \cup {NextToSave} |->
                     IF i = NextToSave THEN cached[i] ELSE stored[i]]
    /\ unsaved' = unsaved \ {NextToSave}
    /\ pc' = IF unsaved' = {} THEN AfterSave ELSE pc
    /\ cached' = IF pc' = "down" THEN NoParameters ELSE cached
    /\ UNCHANGED <<consultations, height, target, rewound>>

Loaded == IF stored = NoParameters THEN InitialState ELSE stored

InitConsensusParameters ==
    /\ pc = "load"
    /\ Update(Loaded)
    /\ pc' = "init"
    /\ UNCHANGED <<stored, consultations, height, target, rewound>>

-----------------------------------------------------------------------------
(* The daemon and a rewind *)

Start ==
    /\ pc = "down"
    /\ pc' = "load"
    /\ UNCHANGED <<stored, cached, unsaved, consultations, height, target, rewound>>

\* A run with REINDEX deletes every index, sets up the parameters, and ends.
Reindex ==
    /\ pc = "down"
    /\ stored' = NoParameters /\ consultations' = {} /\ height' = 0
    /\ rewound' = FALSE
    /\ Update(InitialState)
    /\ pc' = "make"
    /\ UNCHANGED target

\* daemon.rewind: without a block there is nothing to rewind.
RewindAtStart ==
    /\ pc = "start"
    /\ \/ height = 0 /\ pc' = "idle" /\ UNCHANGED target
       \/ /\ height # 0
          /\ target' = IF height >= ReindexSize THEN height - ReindexSize ELSE 0
          /\ pc' = "rewind"
    /\ UNCHANGED <<stored, cached, unsaved, consultations, height, rewound>>

\* An orphan, above the heights at which the subtraction underflows.
RewindOrphan ==
    /\ pc = "idle"
    /\ height >= ReindexSize
    /\ target' = height - ReindexSize
    /\ pc' = "rewind"
    /\ UNCHANGED <<stored, cached, unsaved, consultations, height, rewound>>

\* The address rewinder ends with ClearCache, which flushes all of the cache.
RewindAddresses ==
    /\ pc = "rewind"
    /\ cached' = NoParameters
    /\ pc' = "blocks"
    /\ UNCHANGED <<stored, unsaved, consultations, height, target, rewound>>

RewindBlocks ==
    /\ pc = "blocks"
    /\ height' = target
    /\ pc' = "dao"
    /\ UNCHANGED <<stored, cached, unsaved, consultations, target, rewound>>

\* The clauses of the search are "should": the height is no condition.
GetPassedConsultations(maxHeight) == consultations

\* The value and UpdatedOnBlock are assigned to the loop's copy of a parameter.
AfterAnswers(parameters, passed) == parameters

\* Mutant of Restored: the rewind begins with the stored parameters.
RestoredFromStored(passed) == AfterAnswers(Loaded, passed)

Restored(passed) == AfterAnswers(InitialState, passed)

RewindDao ==
    /\ pc = "dao"
    /\ Update(Restored(GetPassedConsultations(target)))
    /\ pc' = "restore"
    /\ UNCHANGED <<stored, consultations, height, target, rewound>>

Die == pc' = "down" /\ cached' = NoParameters /\ unsaved' = {}

Kept == {c \in consultations : CreatedAt[c] <= target}

\* The end of the rewind: checkBlock ends a process without a block.
DeleteConsultations ==
    /\ pc = "delete"
    /\ consultations' = Kept
    /\ rewound' = TRUE
    /\ \/ target # 0 /\ pc' = "idle" /\ UNCHANGED <<cached, unsaved>>
       \/ target = 0 /\ Die
    /\ UNCHANGED <<stored, height, target>>

\* A block is indexed only if VOTING_CYCLE_LENGTH is found.
IndexBlock ==
    /\ pc = "idle"
    /\ height < MaxHeight
    /\ VotingCycleLength \in DOMAIN cached
    /\ height' = height + 1
    /\ UNCHANGED <<stored, cached, unsaved, consultations, target, pc, rewound>>

\* The process is killed, also between the deletions of a DeleteByQuery.
Kill ==
    /\ pc # "down"
    /\ Die
    /\ consultations' \in IF pc # "delete" THEN {consultations}
                          ELSE {K \in SUBSET consultations : Kept \subseteq K}
    /\ UNCHANGED <<stored, height, target, rewound>>

Next ==
    \/ Start \/ Reindex \/ InitConsensusParameters \/ SaveParameter
    \/ RewindAtStart \/ RewindOrphan \/ RewindAddresses \/ RewindBlocks \/ RewindDao
    \/ DeleteConsultations \/ IndexBlock \/ Kill

Spec == Init /\ [][Next]_vars

-----------------------------------------------------------------------------
(* Properties *)

\* VOTING_CYCLE_LENGTH is known whenever a block may be indexed, or the process
\* would end with "Consensus Parameter `VOTING_CYCLE_LENGTH` not found": after the
\* flush in a rewind, and although a kill may leave only some of the parameters
\* for the next start to load.
CycleLengthKnown == pc = "idle" => VotingCycleLength \in DOMAIN cached

\* What the process goes by is what is stored, and what is about to be saved.
CacheIsStored ==
    cached # NoParameters =>
        \A i \in Id \ unsaved :
            /\ i \in DOMAIN cached => i \in DOMAIN stored /\ stored[i] = cached[i]
            /\ pc = "idle" => (i \in DOMAIN stored) = (i \in DOMAIN cached)

\* What a kill at the first start leaves incomplete is complete after a rewind,
\* and no later kill takes anything away again.  The values are the initial ones
\* even if consultations have passed: what should be of those is stated by
\* PassedAnswersAreApplied, which the code does not keep.
RewindCompletes ==
    rewound => stored = InitialState /\ (pc = "idle" => cached = InitialState)

\* A consultation that has passed decides about the value of its parameter,
\* "ConsensusRewinder: Update Consensus Parameter".
PassedAnswersAreApplied ==
    pc = "idle" /\ rewound =>
        \A c \in consultations : cached[ParameterOf[c]] = Answer[c]
=============================================================================
