---------------------------- MODULE ElasticCache ----------------------------
(***************************************************************************)
(* The request cache in front of Elasticsearch: documents are requested,   *)
(* looked up while they wait, and sent in parts by Persist; others are     *)
(* saved at once.  Requests that wait too long are dropped.                *)
(*                                                                         *)
(* The contents of a document are numbered in the order in which callers   *)
(* hand them over; 0 is no document.                                       *)
(***************************************************************************)
EXTENDS Integers, FiniteSets

CONSTANTS
    Slug,          \* the documents there may be, by their ids
    Height,        \* the height each of them carries
    PartSize,      \* requests in one bulk request: 100
    SaveAttempts,  \* 3
    Expiration,    \* five minutes, in ticks of the clock
    MaxContent     \* bound on the contents of a document

ASSUME CacheAssumption ==
    /\ Height \in [Slug -> Nat]
    /\ PartSize \in Nat \ {0} /\ SaveAttempts \in Nat \ {0} /\ Expiration \in Nat \ {0}
    /\ MaxContent \in Nat

VARIABLES
    store,     \* the contents of the documents in Elasticsearch
    cache,     \* the request cache
    sending,   \* the requests Persist has read and not sent
    wanted,    \* history: the contents the callers count on
    attempt,   \* the attempts of the save under way
    saving,    \* its document, also until what it overtook is replaced
    pc,        \* "down", "run", "persist", "save", "replace" or "rewind"
    expired    \* history: a request was dropped

vars == <<store, cache, sending, wanted, attempt, saving, pc, expired>>

Request == [type : {"index", "update"}, content : 1 .. MaxContent, age : 0 .. Expiration - 1]

NoRequest == [type |-> "none", content |-> 0, age |-> 0]

NoRequests == [s \in Slug |-> NoRequest]

TypeOK ==
    /\ store \in [Slug -> 0 .. MaxContent]
    /\ cache \in [Slug -> Request \cup {NoRequest}]
    /\ sending \in [Slug -> Request \cup {NoRequest}]
    /\ wanted \in [Slug -> 0 .. MaxContent]
    /\ attempt \in 0 .. SaveAttempts
    /\ saving \in SUBSET Slug
    /\ pc \in {"down", "run", "persist", "save", "replace", "rewind"}
    /\ expired \in BOOLEAN

Init ==
    /\ store = [s \in Slug |-> 0] /\ wanted = store
    /\ cache = NoRequests /\ sending = NoRequests
    /\ attempt = 0 /\ saving = {}
    /\ pc = "down"
    /\ expired = FALSE

HasRequest(s) == cache[s] # NoRequest

Waiting(r) == {s \in Slug : r[s] # NoRequest}

-----------------------------------------------------------------------------
(* Requests *)

\* Mutant of RequestType: the last one is kept.
LastType(s, type) == type

\* AddRequest: "Switch update to index"
RequestType(s, type) ==
    IF HasRequest(s) /\ cache[s].type = "index" THEN "index" ELSE type

\* A caller requests new contents, an update only of a document it has handed
\* over before, or has found.  It replaces what a saved document overtook.
AddRequest(s, type) ==
    /\ pc \in {"run", "replace"}
    /\ wanted[s] < MaxContent
    /\ type = "update" => wanted[s] # 0
    /\ wanted' = [wanted EXCEPT ![s] = @ + 1]
    /\ cache' = [cache EXCEPT ![s] = [type |-> RequestType(s, type),
                                      content |-> wanted[s] + 1, age |-> 0]]
    /\ saving' = saving \ {s}
    /\ pc' = IF saving' = {} THEN "run" ELSE pc
    /\ UNCHANGED <<store, sending, attempt, expired>>

\* A request that has waited for Expiration is not found any more.
Aged(r) ==
    IF r = NoRequest \/ r.age + 1 = Expiration THEN NoRequest ELSE [r EXCEPT !.age = @ + 1]

Tick ==
    /\ pc # "down"
    /\ Waiting(cache) # {}
    /\ cache' = [s \in Slug |-> Aged(cache[s])]
    /\ expired' = (expired \/ (pc # "persist" /\ Waiting(cache') # Waiting(cache)))
    /\ UNCHANGED <<store, sending, wanted, attempt, saving, pc>>

\* Persist reads the requests once.
Persist ==
    /\ pc = "run"
    /\ Waiting(cache) # {}
    /\ sending' = cache
    /\ pc' = "persist"
    /\ UNCHANGED <<store, cache, wanted, attempt, saving, expired>>

\* The next part, in the order of a Go map: any.
Parts ==
    LET rest == Waiting(sending)
        n == IF Cardinality(rest) < PartSize THEN Cardinality(rest) ELSE PartSize
    IN  {P \in SUBSET rest : Cardinality(P) = n}

Written(P) == [s \in Slug |-> IF s \in P THEN sending[s].content ELSE store[s]]

Missing(P) == {s \in P : sending[s].type = "update" /\ store[s] = 0}

\* Mutant of Rest: what is left is read from the cache that was flushed.
RestOfCache(P) == NoRequests

Rest(P) == [s \in Slug |-> IF s \in P THEN NoRequest ELSE sending[s]]

\* persist: the cache is flushed after every part.
SendPart ==
    /\ pc = "persist"
    /\ \E P \in Parts :
          /\ Missing(P) = {}
          /\ store' = Written(P)
          /\ sending' = Rest(P)
    /\ cache' = NoRequests
    /\ pc' = IF Waiting(sending') = {} THEN "run" ELSE "persist"
    /\ UNCHANGED <<wanted, attempt, saving, expired>>

Die ==
    /\ cache' = NoRequests /\ sending' = NoRequests
    /\ attempt' = 0 /\ saving' = {}
    /\ pc' = "down"

\* A bulk request fails, as a whole or for some of its documents, those among
\* them that are to be updated and are not there: the process ends.
FailPart ==
    /\ pc = "persist"
    /\ \E P \in Parts : \E Q \in SUBSET (P \ Missing(P)) : store' = Written(Q)
    /\ Die
    /\ UNCHANGED <<wanted, expired>>

-----------------------------------------------------------------------------
(* Documents that are saved at once, and deletions *)

\* An address is saved when it is created, other documents at the start or in a
\* rewind.  The request of an address may wait meanwhile: the search does not find
\* it yet, and a second history creates it again.
Save(s) ==
    /\ pc = "run"
    /\ wanted[s] < MaxContent
    /\ wanted' = [wanted EXCEPT ![s] = @ + 1]
    /\ saving' = {s} /\ attempt' = 1
    /\ pc' = "save"
    /\ UNCHANGED <<store, cache, sending, expired>>

Saved == [s \in Slug |-> IF s \in saving THEN wanted[s] ELSE store[s]]

\* A request older than what is saved still waits: the caller, updateAddress,
\* requests the address next.  The indexers have come back before Persist.
SaveSucceeds ==
    /\ pc = "save"
    /\ store' = Saved
    /\ saving' = {s \in saving : HasRequest(s)} /\ attempt' = 0
    /\ pc' = IF saving' = {} THEN "run" ELSE "replace"
    /\ UNCHANGED <<cache, sending, wanted, expired>>

\* Mutant of NextAttempt: the attempts begin anew.
NeverGiveUp ==
    /\ attempt' = IF attempt = SaveAttempts THEN 1 ELSE attempt + 1
    /\ UNCHANGED <<cache, sending, saving, pc>>

\* Mutant of NextAttempt: the bound is compared after the attempt.
OneAttemptMore ==
    IF attempt > SaveAttempts THEN Die
    ELSE attempt' = attempt + 1 /\ UNCHANGED <<cache, sending, saving, pc>>

NextAttempt ==
    IF attempt = SaveAttempts THEN Die
    ELSE attempt' = attempt + 1 /\ UNCHANGED <<cache, sending, saving, pc>>

\* An attempt fails, whether or not the document was stored.
SaveFails ==
    /\ pc = "save"
    /\ store' \in {store, Saved}
    /\ NextAttempt
    /\ UNCHANGED <<wanted, expired>>

\* Mutant of ClearCache: the requests stay.
KeepRequests == cache' = cache

ClearCache == cache' = NoRequests

\* RewindToHeight begins with ClearRequests: the callers start anew from what is
\* stored.
ClearRequests ==
    /\ pc = "run"
    /\ ClearCache
    /\ wanted' = store
    /\ pc' = "rewind"
    /\ UNCHANGED <<store, sending, attempt, saving, expired>>

Above(height) == {s \in Slug : Height[s] > height}

DeleteHeightGT ==
    /\ pc = "rewind"
    /\ \E s \in Slug :
          /\ store' = [r \in Slug |-> IF r \in Above(Height[s]) THEN 0 ELSE store[r]]
          /\ wanted' = [r \in Slug |-> IF r \in Above(Height[s]) THEN 0 ELSE wanted[r]]
    /\ pc' = "run"
    /\ UNCHANGED <<cache, sending, attempt, saving, expired>>

-----------------------------------------------------------------------------
(* The process *)

\* The process is killed, also within a deletion.
Kill ==
    /\ pc # "down"
    /\ store' \in IF pc # "rewind" THEN {store}
                  ELSE {[s \in Slug |-> IF s \in D THEN 0 ELSE store[s]] : D \in SUBSET Slug}
    /\ Die
    /\ UNCHANGED <<wanted, expired>>

\* A new process knows what is stored.
Start ==
    /\ pc = "down"
    /\ pc' = "run"
    /\ wanted' = store
    /\ expired' = FALSE
    /\ UNCHANGED <<store, cache, sending, attempt, saving>>

Next ==
    \/ \E s \in Slug : AddRequest(s, "index") \/ AddRequest(s, "update") \/ Save(s)
    \/ Tick \/ Persist \/ SendPart \/ FailPart
    \/ SaveSucceeds \/ SaveFails \/ ClearRequests \/ DeleteHeightGT
    \/ Kill \/ Start

Spec == Init /\ [][Next]_vars

\* A bulk request and an attempt to save are answered, one way or another.
Answer == SendPart \/ FailPart \/ SaveSucceeds \/ SaveFails

FairSpec == Spec /\ WF_vars(Answer)

-----------------------------------------------------------------------------
(* Properties *)

\* The contents a request will leave.
AfterRequest(r, content) == IF r = NoRequest THEN content ELSE r.content

\* What a document will be, once what waits is stored.
Owed(s) ==
    IF s \in saving THEN IF pc = "save" THEN wanted[s] ELSE store[s]
    ELSE AfterRequest(sending[s], AfterRequest(cache[s], store[s]))

\* Whatever a caller hands over is stored, or waits, or the process is over; and
\* nothing waits or is stored that was given up: in parts, with a flush after
\* each of them, and with documents saved and deleted in between.  Only a request
\* that waits longer than Expiration is lost, and nobody is told.
NothingIsLost ==
    pc # "down" /\ ~ expired => \A s \in Slug : Owed(s) = wanted[s]

\* A document is only updated if it is there, or the process ends with "Failed to
\* persist requests": an update of what is still to be indexed is an index.
UpdatesFindTheirDocument ==
    ~ expired => /\ Missing(Waiting(sending)) = {}
                 /\ \A s \in Slug : cache[s].type = "update" => store[s] # 0

\* A document never goes back to older contents, other than by a deletion.
NewestWins ==
    [][\A s \in Slug : store'[s] >= store[s] \/ store'[s] = 0]_vars

\* A call returns, or ends the process, even if no attempt ever succeeds.
CallsReturn == pc \in {"persist", "save"} ~> pc \in {"run", "replace", "down"}
=============================================================================
