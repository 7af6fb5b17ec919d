------------------------- MODULE ElasticCacheProofs -------------------------
(***************************************************************************)
(* Proofs about ElasticCache: its safety properties, for every value of    *)
(* the constants.                                                          *)
(***************************************************************************)
EXTENDS ElasticCache, TLAPS

\* What the process holds at each pc.
ControlInv ==
    /\ pc # "persist" => sending = NoRequests
    /\ pc \in {"down", "rewind"} => cache = NoRequests
    /\ pc \notin {"save", "replace"} => saving = {}
    /\ pc = "replace" => \A s \in saving : store[s] = wanted[s]
    /\ pc = "persist" =>
          \A s \in Slug : HasRequest(s) => /\ sending[s] # NoRequest
                                           /\ sending[s].content = cache[s].content

\* The contents of a document, from the oldest to the newest; only a document
\* that is saved overtakes what is requested.
Between(s, r) ==
    r[s] # NoRequest => /\ s \in saving \/ store[s] <= r[s].content
                        /\ r[s].content <= wanted[s]

OrderInv ==
    \A s \in Slug : store[s] <= wanted[s] /\ Between(s, cache) /\ Between(s, sending)

\* The strengthening: NothingIsLost holds as long as nothing expires, what waits
\* is newer than what is stored, and only Persist holds requests twice.
CacheInv ==
    TypeOK /\ ControlInv /\ OrderInv /\ NothingIsLost /\ UpdatesFindTheirDocument

-----------------------------------------------------------------------------
(* Requests *)

\* NoRequest is no request, and what is requested has contents.
LEMMA RequestFact ==
    /\ NoRequest \notin Request
    /\ \A r \in Request : r.type \in {"index", "update"} /\ r.content \in 1 .. MaxContent
    /\ NoRequest.type = "none" /\ NoRequest.content = 0
BY DEF NoRequest, Request

\* There is no request in NoRequests.
LEMMA NoRequestsFact ==
    /\ NoRequests \in [Slug -> Request \cup {NoRequest}]
    /\ \A s \in Slug : NoRequests[s] = NoRequest
BY DEF NoRequests

\* A new process, one that has ended and one that rewinds hold nothing: what is
\* stored is all there is.
LEMMA NothingHeld ==
    ASSUME TypeOK, cache = NoRequests, sending = NoRequests, saving = {}
    PROVE  /\ \A s \in Slug : Owed(s) = store[s] /\ ~ HasRequest(s)
           /\ UpdatesFindTheirDocument
           /\ Waiting(cache) = {} /\ Waiting(sending) = {}
<1>1. \A s \in Slug : Owed(s) = store[s] /\ ~ HasRequest(s)
  BY NoRequestsFact DEF Owed, AfterRequest, HasRequest
<1>2. \A s \in Slug : cache[s].type # "update"
  BY NoRequestsFact, RequestFact
<1>3. Waiting(cache) = {} /\ Waiting(sending) = {}
  BY NoRequestsFact DEF Waiting
<1> QED
  BY <1>1, <1>2, <1>3 DEF UpdatesFindTheirDocument, Missing



\* A request that grows older is dropped, or stays as it is.
LEMMA AgedFact ==
    ASSUME NEW r \in Request, Aged(r) # NoRequest
    PROVE  Aged(r) \in Request /\ Aged(r).type = r.type /\ Aged(r).content = r.content
<1>1. r.age \in 0 .. Expiration - 1 /\ r.age + 1 # Expiration
  BY DEF Aged, Request
<1>2. r.age + 1 \in 0 .. Expiration - 1
  BY <1>1, CacheAssumption
<1>3. Aged(r) = [r EXCEPT !.age = @ + 1]
  BY DEF Aged
<1> QED
  BY <1>2, <1>3 DEF Request

-----------------------------------------------------------------------------
(* Each action *)

\* The indices are empty at the beginning.
LEMMA InitCache == Init => CacheInv
<1> SUFFICES ASSUME Init PROVE CacheInv
  OBVIOUS
<1>1. TypeOK
  <2>1. 0 \in 0 .. MaxContent /\ 0 \in 0 .. SaveAttempts
    BY CacheAssumption
  <2>2. store \in [Slug -> 0 .. MaxContent] /\ wanted \in [Slug -> 0 .. MaxContent]
    BY <2>1 DEF Init
  <2>3. cache \in [Slug -> Request \cup {NoRequest}] /\ sending \in [Slug -> Request \cup {NoRequest}]
    BY NoRequestsFact DEF Init
  <2> QED
    BY <2>1, <2>2, <2>3 DEF Init, TypeOK
<1>2. ControlInv
  BY DEF Init, ControlInv
<1>3. OrderInv
  BY NoRequestsFact DEF Init, OrderInv, Between
<1>4. NothingIsLost /\ UpdatesFindTheirDocument
  BY <1>1, NothingHeld DEF Init, NothingIsLost
<1> QED
  BY <1>1, <1>2, <1>3, <1>4 DEF CacheInv

\* AddRequest: what is requested is newer than anything, and an update finds its
\* document because nothing that was handed over is lost.
LEMMA AddRequestCache ==
    ASSUME CacheInv, NEW s \in Slug, NEW type \in {"index", "update"}, AddRequest(s, type)
    PROVE  CacheInv'
<1> DEFINE new == [type |-> RequestType(s, type), content |-> wanted[s] + 1, age |-> 0]
<1> USE DEF CacheInv
<1>1. /\ wanted[s] \in Nat /\ wanted[s] + 1 \in 1 .. MaxContent
      /\ \A r \in Slug : store[r] \in Nat /\ wanted[r] \in Nat
  BY CacheAssumption DEF AddRequest, TypeOK
<1>2. RequestType(s, type) \in {"index", "update"}
  BY RequestFact DEF RequestType, HasRequest, TypeOK
<1>3. new \in Request /\ new # NoRequest
  BY <1>1, <1>2, CacheAssumption DEF Request, NoRequest
<1>4. /\ cache' = [cache EXCEPT ![s] = new] /\ wanted' = [wanted EXCEPT ![s] = @ + 1]
      /\ UNCHANGED <<store, sending, attempt, expired>> /\ pc \in {"run", "replace"}
      /\ saving' = saving \ {s} /\ pc' = IF saving' = {} THEN "run" ELSE pc
  BY DEF AddRequest
<1>5. TypeOK'
  BY <1>1, <1>3, <1>4 DEF TypeOK
<1>6. /\ cache'[s] = new /\ wanted'[s] = wanted[s] + 1
      /\ \A r \in Slug \ {s} : cache'[r] = cache[r] /\ wanted'[r] = wanted[r]
  BY <1>4 DEF TypeOK
<1>7. ControlInv'
  BY <1>4, <1>6 DEF ControlInv, TypeOK
<1>8. sending = NoRequests
  BY <1>4 DEF ControlInv
<1>9. OrderInv'
  BY <1>1, <1>3, <1>4, <1>6, <1>8, NoRequestsFact DEF OrderInv, Between
<1>10. NothingIsLost'
  <2> SUFFICES ASSUME ~ expired, NEW r \in Slug PROVE Owed(r)' = wanted'[r]
    BY <1>4 DEF NothingIsLost
  <2>1. Owed(r) = wanted[r] /\ sending'[r] = NoRequest /\ sending[r] = NoRequest
    BY <1>4, <1>8, NoRequestsFact DEF NothingIsLost
  <2>2. CASE r = s
    BY <2>1, <2>2, <1>3, <1>4, <1>6 DEF Owed, AfterRequest
  <2>3. CASE r # s
    BY <2>1, <2>3, <1>4, <1>6 DEF Owed, AfterRequest
  <2> QED
    BY <2>2, <2>3
<1>11. UpdatesFindTheirDocument'
  <2> SUFFICES ASSUME ~ expired PROVE UpdatesFindTheirDocument'
    BY <1>4 DEF UpdatesFindTheirDocument
  <2>1. Missing(Waiting(sending)) = {} /\ Missing(Waiting(sending))' = Missing(Waiting(sending))
    BY <1>4 DEF UpdatesFindTheirDocument, Missing, Waiting
  <2>2. new.type = "update" => store[s] # 0
    <3>1. CASE HasRequest(s)
      <4>1. new.type = "update" => cache[s].type = "update"
        BY <3>1, RequestFact DEF RequestType, HasRequest, TypeOK
      <4> QED
        BY <4>1 DEF UpdatesFindTheirDocument
    <3>2. CASE ~ HasRequest(s)
      <4>1. wanted[s] = store[s]
        BY <3>2, <1>4, <1>8, NoRequestsFact
           DEF NothingIsLost, Owed, AfterRequest, HasRequest, ControlInv
      <4>2. new.type = "update" => wanted[s] # 0
        BY <3>2 DEF RequestType, AddRequest
      <4> QED
        BY <4>1, <4>2
    <3> QED
      BY <3>1, <3>2
  <2> QED
    BY <2>1, <2>2, <1>4, <1>6 DEF UpdatesFindTheirDocument
<1> QED
  BY <1>5, <1>7, <1>9, <1>10, <1>11

\* What the clock makes of the requests: it only takes some of them away.
LEMMA TickCache ==
    ASSUME CacheInv, Tick
    PROVE  CacheInv'
<1> USE DEF CacheInv
<1>1. /\ UNCHANGED <<store, sending, wanted, attempt, saving, pc>>
      /\ expired' = (expired \/ (pc # "persist" /\ Waiting(cache') # Waiting(cache)))
  BY DEF Tick, Aged
<1>2. \A s \in Slug : ~ HasRequest(s) => cache'[s] = NoRequest
  BY DEF Tick, Aged, HasRequest
<1>3. \A s \in Slug : cache'[s] = Aged(cache[s])
  BY DEF Tick
<1>4. \A s \in Slug : HasRequest(s) /\ cache'[s] # NoRequest =>
          /\ cache'[s] \in Request
          /\ cache'[s].type = cache[s].type /\ cache'[s].content = cache[s].content
  BY <1>3, AgedFact DEF HasRequest, TypeOK
<1>5. cache' = [s \in Slug |-> cache'[s]]
  BY DEF Tick, Aged
<1>6. TypeOK'
  <2>1. \A s \in Slug : cache'[s] \in Request \cup {NoRequest}
    BY <1>2, <1>4
  <2>2. expired' \in BOOLEAN
    BY <1>1
  <2> QED
    BY <2>1, <2>2, <1>1, <1>5 DEF TypeOK
<1>7. ControlInv'
  <2>1. \A s \in Slug : HasRequest(s)' => HasRequest(s)
    BY <1>2 DEF HasRequest
  <2>2. pc # "down" /\ Waiting(cache) # {}
    BY DEF Tick, Aged
  <2>3. cache # NoRequests
    BY <2>2, NoRequestsFact DEF Waiting
  <2>5. ASSUME pc = "persist", NEW s \in Slug, HasRequest(s)'
        PROVE  sending'[s] # NoRequest /\ sending'[s].content = cache'[s].content
    BY <2>5, <2>1, <1>4, <1>1 DEF ControlInv, HasRequest
  <2> QED
    BY <2>3, <2>5, <1>1 DEF ControlInv
<1>8. OrderInv'
  BY <1>1, <1>2, <1>4 DEF OrderInv, Between, HasRequest
<1>9. NothingIsLost'
  <2> SUFFICES ASSUME pc # "down", ~ expired', NEW s \in Slug
               PROVE  Owed(s)' = wanted[s]
    BY <1>1 DEF NothingIsLost
  <2>1. Owed(s) = wanted[s]
    BY <1>1 DEF NothingIsLost
  <2>2. CASE pc = "persist"
    <3>1. saving = {} /\ (HasRequest(s) => sending[s] # NoRequest)
      BY <2>2 DEF ControlInv
    <3>2. HasRequest(s)' => HasRequest(s)
      BY <1>2 DEF HasRequest
    <3> QED
      BY <3>1, <3>2, <2>1, <1>1 DEF Owed, AfterRequest, HasRequest
  <2>3. CASE pc # "persist"
    <3>1. HasRequest(s)' = HasRequest(s)
      BY <2>3, <1>1 DEF Waiting, HasRequest
    <3>2. HasRequest(s) => cache'[s].content = cache[s].content
      BY <3>1, <1>4 DEF HasRequest
    <3> QED
      BY <3>1, <3>2, <2>1, <1>1 DEF Owed, AfterRequest, HasRequest
  <2> QED
    BY <2>2, <2>3
<1>10. UpdatesFindTheirDocument'
  <2>1. \A s \in Slug : cache'[s].type = "update" => cache[s].type = "update"
    BY <1>2, <1>4, RequestFact DEF HasRequest
  <2> QED
    BY <2>1, <1>1 DEF UpdatesFindTheirDocument, Missing, Waiting
<1> QED
  BY <1>6, <1>7, <1>8, <1>9, <1>10

\* Persist holds a copy of the requests.
LEMMA PersistCache ==
    ASSUME CacheInv, Persist
    PROVE  CacheInv'
<1> USE DEF CacheInv
<1>1. /\ sending' = cache /\ pc' = "persist" /\ pc = "run"
      /\ UNCHANGED <<store, cache, wanted, attempt, saving, expired>>
  BY DEF Persist
<1>2. sending = NoRequests /\ saving = {}
  BY <1>1 DEF ControlInv
<1>3. TypeOK'
  BY <1>1 DEF TypeOK
<1>4. ControlInv'
  BY <1>1, <1>2 DEF ControlInv, HasRequest
<1>5. OrderInv'
  BY <1>1 DEF OrderInv, Between
<1>6. NothingIsLost'
  BY <1>1, <1>2, NoRequestsFact DEF NothingIsLost, Owed, AfterRequest
<1>7. UpdatesFindTheirDocument'
  BY <1>1 DEF UpdatesFindTheirDocument, Missing, Waiting
<1> QED
  BY <1>3, <1>4, <1>5, <1>6, <1>7

\* A bulk request makes documents newer, and up to what the callers count on.
LEMMA WrittenFact ==
    ASSUME TypeOK, OrderInv, saving = {}, NEW P \in SUBSET Waiting(sending)
    PROVE  /\ Written(P) \in [Slug -> 0 .. MaxContent]
           /\ \A s \in Slug : Written(P)[s] = IF s \in P THEN sending[s].content ELSE store[s]
           /\ \A s \in Slug : /\ store[s] <= Written(P)[s] /\ Written(P)[s] <= wanted[s]
                              /\ store[s] # 0 => Written(P)[s] # 0
<1>1. \A s \in Slug : store[s] \in 0 .. MaxContent /\ wanted[s] \in 0 .. MaxContent
  BY DEF TypeOK
<1>2. \A s \in P : /\ s \in Slug /\ sending[s] # NoRequest
                   /\ sending[s].content \in 1 .. MaxContent
                   /\ store[s] <= sending[s].content /\ sending[s].content <= wanted[s]
  BY RequestFact DEF Waiting, TypeOK, OrderInv, Between
<1>3. \A s \in Slug : Written(P)[s] = IF s \in P THEN sending[s].content ELSE store[s]
  BY DEF Written
<1>4. \A s \in Slug : Written(P)[s] \in 0 .. MaxContent
  BY <1>1, <1>2, <1>3
<1>5. Written(P) \in [Slug -> 0 .. MaxContent]
  BY <1>3, <1>4 DEF Written
<1>6. \A s \in Slug : store[s] <= wanted[s]
  BY DEF OrderInv
<1>7. ASSUME NEW s \in Slug
      PROVE  /\ store[s] <= Written(P)[s] /\ Written(P)[s] <= wanted[s]
             /\ store[s] # 0 => Written(P)[s] # 0
  <2>1. CASE s \in P
    BY <2>1, <1>1, <1>2, <1>3
  <2>2. CASE s \notin P
    BY <2>2, <1>1, <1>3, <1>6
  <2> QED
    BY <2>1, <2>2
<1> QED
  BY <1>3, <1>5, <1>7

\* What a part does: its requests are stored, the others wait in the copy alone.
LEMMA SendPartCache ==
    ASSUME CacheInv, SendPart
    PROVE  CacheInv'
<1> USE DEF CacheInv
<1>1. PICK P \in Parts : Missing(P) = {} /\ store' = Written(P) /\ sending' = Rest(P)
  BY DEF SendPart
<1>2. /\ cache' = NoRequests /\ pc = "persist" /\ UNCHANGED <<wanted, attempt, saving, expired>>
      /\ pc' = IF Waiting(sending') = {} THEN "run" ELSE "persist"
  BY DEF SendPart
<1>3. P \in SUBSET Waiting(sending)
  BY <1>1 DEF Parts
<1>4. \A s \in Slug : sending'[s] = IF s \in P THEN NoRequest ELSE sending[s]
  BY <1>1 DEF Rest
<1>5. saving = {}
  BY <1>2 DEF ControlInv
<1>6. \A s \in Slug : cache'[s] = NoRequest
  BY <1>2, NoRequestsFact
<1>7. TypeOK'
  <2>1. sending' \in [Slug -> Request \cup {NoRequest}]
    BY <1>1 DEF Rest, TypeOK
  <2>2. store' \in [Slug -> 0 .. MaxContent]
    BY <1>1, <1>3, <1>5, WrittenFact
  <2> QED
    BY <2>1, <2>2, <1>2, NoRequestsFact DEF TypeOK
<1>8. ControlInv'
  <2>1. pc' # "persist" => sending' = NoRequests
    <3>1. pc' # "persist" => \A s \in Slug : sending'[s] = NoRequest
      BY <1>2 DEF Waiting
    <3>2. sending' = [s \in Slug |-> sending'[s]]
      BY <1>1 DEF Rest
    <3> QED
      BY <3>1, <3>2 DEF NoRequests
  <2> QED
    BY <2>1, <1>2, <1>5, <1>6 DEF ControlInv, HasRequest
<1>9. OrderInv'
  <2>1. \A s \in Slug : store'[s] <= wanted[s]
    BY <1>1, <1>3, <1>5, WrittenFact
  <2>2. \A s \in Slug : s \notin P => store'[s] = store[s]
    BY <1>1, <1>3, <1>5, WrittenFact
  <2> QED
    BY <2>1, <2>2, <1>2, <1>4, <1>6 DEF OrderInv, Between
<1>10. NothingIsLost'
  <2> SUFFICES ASSUME ~ expired, NEW s \in Slug PROVE Owed(s)' = wanted[s]
    BY <1>2 DEF NothingIsLost
  <2>1. Owed(s) = wanted[s]
    BY <1>2 DEF NothingIsLost
  <2>2. CASE s \in P
    <3>1. sending[s] # NoRequest /\ store'[s] = sending[s].content
      BY <2>2, <1>1, <1>3, <1>5, WrittenFact DEF Waiting
    <3> QED
      BY <3>1, <2>1, <2>2, <1>2, <1>4, <1>5, <1>6 DEF Owed, AfterRequest
  <2>3. CASE s \notin P
    <3>1. store'[s] = store[s] /\ sending'[s] = sending[s]
      BY <2>3, <1>1, <1>3, <1>4, <1>5, WrittenFact
    <3>2. cache[s] # NoRequest => sending[s] # NoRequest
      BY <1>2 DEF ControlInv, HasRequest
    <3> QED
      BY <3>1, <3>2, <2>1, <1>2, <1>5, <1>6 DEF Owed, AfterRequest
  <2> QED
    BY <2>2, <2>3
<1>11. UpdatesFindTheirDocument'
  <2>1. \A s \in Slug : cache'[s].type # "update"
    BY <1>6, RequestFact
  <2>2. \A s \in Slug : store[s] # 0 => store'[s] # 0
    BY <1>1, <1>3, <1>5, WrittenFact
  <2>3. Waiting(sending') \subseteq Waiting(sending)
    BY <1>4 DEF Waiting
  <2>4. \A s \in Waiting(sending') : sending'[s] = sending[s]
    BY <1>4 DEF Waiting
  <2>5. ~ expired => Missing(Waiting(sending))' = {}
    BY <2>2, <2>3, <2>4 DEF UpdatesFindTheirDocument, Missing, Waiting
  <2> QED
    BY <2>1, <2>5, <1>2 DEF UpdatesFindTheirDocument
<1> QED
  BY <1>7, <1>8, <1>9, <1>10, <1>11

\* A process that ends leaves documents no newer than what the callers know.
LEMMA DieCache ==
    ASSUME CacheInv, Die, store' \in [Slug -> 0 .. MaxContent], wanted' = wanted,
           expired' = expired, \A s \in Slug : store'[s] <= wanted[s]
    PROVE  CacheInv'
<1> USE DEF CacheInv
<1>1. /\ cache' = NoRequests /\ sending' = NoRequests /\ attempt' = 0 /\ saving' = {}
      /\ pc' = "down"
  BY DEF Die
<1>2. TypeOK'
  BY <1>1, NoRequestsFact, CacheAssumption DEF TypeOK
<1>3. ControlInv'
  BY <1>1 DEF ControlInv
<1>4. OrderInv'
  BY <1>1, NoRequestsFact DEF OrderInv, Between
<1>5. NothingIsLost' /\ UpdatesFindTheirDocument'
  <2>1. \A s \in Slug : cache'[s].type # "update"
    BY <1>1, NoRequestsFact, RequestFact
  <2>2. Waiting(sending)' = {}
    BY <1>1, NoRequestsFact DEF Waiting
  <2> QED
    BY <2>1, <2>2, <1>1 DEF NothingIsLost, UpdatesFindTheirDocument, Missing
<1> QED
  BY <1>2, <1>3, <1>4, <1>5

\* A part that fails may have stored some of its documents.
LEMMA FailPartCache ==
    ASSUME CacheInv, FailPart
    PROVE  CacheInv'
<1>1. PICK P \in Parts : \E Q \in SUBSET (P \ Missing(P)) : store' = Written(Q)
  BY DEF FailPart
<1>2. PICK Q \in SUBSET (P \ Missing(P)) : store' = Written(Q)
  BY <1>1
<1>3. Q \in SUBSET Waiting(sending) /\ saving = {}
  BY DEF Parts, FailPart, CacheInv, ControlInv
<1> QED
  BY <1>2, <1>3, WrittenFact, DieCache DEF FailPart, CacheInv

\* Save overtakes what waits.
LEMMA SaveCache ==
    ASSUME CacheInv, NEW s \in Slug, Save(s)
    PROVE  CacheInv'
<1> USE DEF CacheInv
<1>1. /\ pc = "run" /\ wanted' = [wanted EXCEPT ![s] = @ + 1]
      /\ saving' = {s} /\ attempt' = 1 /\ pc' = "save" /\ wanted[s] < MaxContent
      /\ UNCHANGED <<store, cache, sending, expired>>
  BY DEF Save
<1>2. \A r \in Slug : wanted[r] \in 0 .. MaxContent /\ store[r] \in 0 .. MaxContent
  BY DEF TypeOK
<1>3. wanted[s] + 1 \in 0 .. MaxContent /\ 1 \in 0 .. SaveAttempts
  BY <1>1, <1>2, CacheAssumption
<1>4. wanted'[s] = wanted[s] + 1 /\ \A r \in Slug \ {s} : wanted'[r] = wanted[r]
  BY <1>1 DEF TypeOK
<1>5. TypeOK'
  BY <1>1, <1>3 DEF TypeOK
<1>6. sending = NoRequests /\ saving = {}
  BY <1>1 DEF ControlInv
<1>7. ControlInv'
  BY <1>1, <1>6 DEF ControlInv
<1>8. OrderInv'
  <2>1. \A r \in Slug : sending'[r] = NoRequest
    BY <1>1, <1>6, NoRequestsFact
  <2>2. ASSUME NEW r \in Slug PROVE store'[r] <= wanted'[r] /\ Between(r, cache)'
    <3>1. store[r] <= wanted[r] /\ wanted[r] <= wanted'[r]
      BY <1>2, <1>4 DEF OrderInv
    <3>2. cache[r] # NoRequest =>
              /\ store[r] <= cache[r].content /\ cache[r].content <= wanted[r]
              /\ cache[r].content \in Nat
      BY <1>6, RequestFact DEF OrderInv, Between, TypeOK
    <3>3. store'[r] = store[r] /\ cache'[r] = cache[r]
      BY <1>1
    <3>4. wanted'[r] \in Nat
      BY <1>5 DEF TypeOK
    <3>5. store'[r] <= wanted'[r]
      BY <3>1, <3>3, <3>4, <1>2
    <3>6. cache'[r] # NoRequest => store'[r] <= cache'[r].content /\ cache'[r].content <= wanted'[r]
      BY <3>1, <3>2, <3>3, <3>4, <1>2
    <3> QED
      BY <3>5, <3>6 DEF Between
  <2> QED
    BY <2>1, <2>2 DEF OrderInv, Between
<1>9. NothingIsLost'
  BY <1>1, <1>4, <1>6 DEF NothingIsLost, Owed, AfterRequest
<1>10. UpdatesFindTheirDocument'
  BY <1>1 DEF UpdatesFindTheirDocument, Missing, Waiting
<1> QED
  BY <1>5, <1>7, <1>8, <1>9, <1>10

\* What an attempt stores is what the caller counts on.
LEMMA SavedFact ==
    ASSUME TypeOK, OrderInv
    PROVE  /\ Saved \in [Slug -> 0 .. MaxContent]
           /\ \A s \in Slug : /\ Saved[s] = IF s \in saving THEN wanted[s] ELSE store[s]
                              /\ store[s] <= Saved[s] /\ Saved[s] <= wanted[s]
                              /\ store[s] # 0 => Saved[s] # 0
<1>1. \A s \in Slug : /\ store[s] \in 0 .. MaxContent /\ wanted[s] \in 0 .. MaxContent
                      /\ store[s] <= wanted[s]
  BY DEF TypeOK, OrderInv
<1>2. \A s \in Slug : Saved[s] = IF s \in saving THEN wanted[s] ELSE store[s]
  BY DEF Saved
<1>3. Saved \in [Slug -> 0 .. MaxContent]
  BY <1>1 DEF Saved
<1>4. ASSUME NEW s \in Slug
      PROVE  /\ store[s] <= Saved[s] /\ Saved[s] <= wanted[s]
             /\ store[s] # 0 => Saved[s] # 0
  BY <1>1, <1>2
<1> QED
  BY <1>2, <1>3, <1>4

\* An attempt that stores the document, or not, while the process goes on.
LEMMA AttemptCache ==
    ASSUME CacheInv, pc = "save", store' \in {store, Saved},
           UNCHANGED <<cache, sending, wanted, expired>>, attempt' \in 0 .. SaveAttempts,
           \/ pc' = "save" /\ saving' = saving
           \/ /\ saving' = {s \in saving : HasRequest(s)} /\ store' = Saved
              /\ pc' = IF saving' = {} THEN "run" ELSE "replace"
    PROVE  CacheInv'
<1> USE DEF CacheInv
<1>1. /\ store' \in [Slug -> 0 .. MaxContent]
      /\ \A s \in Slug : /\ store[s] <= store'[s] /\ store'[s] <= wanted[s]
                         /\ store[s] # 0 => store'[s] # 0
  <2>1. CASE store' = Saved
    BY <2>1, SavedFact
  <2>2. CASE store' = store
    <3>1. \A s \in Slug : store[s] \in 0 .. MaxContent /\ store[s] <= wanted[s]
      BY DEF TypeOK, OrderInv
    <3> QED
      BY <2>2, <3>1 DEF TypeOK
  <2> QED
    BY <2>1, <2>2
<1>2. \A s \in Slug : s \notin saving => store'[s] = store[s]
  BY SavedFact
<1>3. sending = NoRequests
  BY DEF ControlInv
<1>4. TypeOK'
  BY <1>1 DEF TypeOK
<1>5. ControlInv'
  <2>1. pc' = "replace" => \A s \in saving' : store'[s] = wanted[s]
    BY SavedFact DEF TypeOK
  <2> QED
    BY <1>3, <2>1 DEF ControlInv
<1>6. OrderInv'
  <2>1. ASSUME NEW s \in Slug PROVE Between(s, cache)' /\ Between(s, sending)'
    <3>1. s \in saving => s \in saving' \/ cache[s] = NoRequest
      BY DEF HasRequest
    <3> QED
      BY <3>1, <1>2, <1>3, NoRequestsFact DEF OrderInv, Between
  <2> QED
    BY <2>1, <1>1 DEF OrderInv
<1>7. NothingIsLost'
  <2> SUFFICES ASSUME ~ expired, NEW s \in Slug PROVE Owed(s)' = wanted[s]
    BY DEF NothingIsLost
  <2>1. Owed(s) = wanted[s] /\ sending[s] = NoRequest
    BY <1>3, NoRequestsFact DEF NothingIsLost
  <2>2. CASE s \in saving /\ pc' # "save"
    <3>1. store'[s] = wanted[s] /\ (s \in saving' \/ cache[s] = NoRequest)
      BY <2>2, SavedFact DEF HasRequest
    <3> QED
      BY <2>1, <2>2, <3>1 DEF Owed, AfterRequest
  <2>3. CASE s \in saving /\ pc' = "save"
    BY <2>3 DEF Owed
  <2>4. CASE s \notin saving
    BY <2>1, <2>4, <1>2 DEF Owed, AfterRequest
  <2> QED
    BY <2>2, <2>3, <2>4
<1>8. UpdatesFindTheirDocument'
  BY <1>1, <1>3, NoRequestsFact DEF UpdatesFindTheirDocument, Missing, Waiting
<1> QED
  BY <1>4, <1>5, <1>6, <1>7, <1>8

LEMMA SaveSucceedsCache ==
    ASSUME CacheInv, SaveSucceeds
    PROVE  CacheInv'
BY AttemptCache, CacheAssumption DEF SaveSucceeds

LEMMA SaveFailsCache ==
    ASSUME CacheInv, SaveFails
    PROVE  CacheInv'
<1>1. pc = "save" /\ store' \in {store, Saved} /\ NextAttempt /\ UNCHANGED <<wanted, expired>>
  BY DEF SaveFails
<1>2. CASE Die
  <2>1. store' \in [Slug -> 0 .. MaxContent] /\ \A s \in Slug : store'[s] <= wanted[s]
    BY <1>1, SavedFact DEF CacheInv, TypeOK, OrderInv
  <2> QED
    BY <1>1, <1>2, <2>1, DieCache
<1>3. CASE ~ Die
  <2>1. attempt # SaveAttempts /\ attempt' = attempt + 1 /\ UNCHANGED <<cache, sending, saving, pc>>
    BY <1>1, <1>3 DEF NextAttempt
  <2>2. attempt' \in 0 .. SaveAttempts
    BY <2>1, CacheAssumption DEF CacheInv, TypeOK
  <2> QED
    BY <1>1, <2>1, <2>2, AttemptCache
<1> QED
  BY <1>2, <1>3

\* Where nothing waits and nothing is saved, what is stored is what is wanted.
LEMMA EmptyCache ==
    ASSUME TypeOK', cache' = NoRequests, sending' = NoRequests, saving' = {},
           pc' # "down" => wanted' = store' \/ (expired' /\ \A s \in Slug : store'[s] <= wanted'[s]),
           pc' # "down", pc' # "persist"
    PROVE  CacheInv'
<1>1. ControlInv'
  BY DEF ControlInv
<1>2. \A s \in Slug : store'[s] \in 0 .. MaxContent /\ wanted'[s] \in 0 .. MaxContent
  BY DEF TypeOK
<1>3. OrderInv'
  BY <1>2, NoRequestsFact DEF OrderInv, Between
<1>4. NothingIsLost'
  BY NoRequestsFact DEF NothingIsLost, Owed, AfterRequest
<1>5. UpdatesFindTheirDocument'
  <2>1. \A s \in Slug : cache'[s].type # "update"
    BY NoRequestsFact, RequestFact
  <2>2. Waiting(sending)' = {}
    BY NoRequestsFact DEF Waiting
  <2> QED
    BY <2>1, <2>2 DEF UpdatesFindTheirDocument, Missing
<1> QED
  BY <1>1, <1>3, <1>4, <1>5 DEF CacheInv

\* A rewind begins with nothing that waits.
LEMMA ClearRequestsCache ==
    ASSUME CacheInv, ClearRequests
    PROVE  CacheInv'
<1>1. /\ cache' = NoRequests /\ wanted' = store /\ pc' = "rewind" /\ pc = "run"
      /\ UNCHANGED <<store, sending, attempt, saving, expired>>
  BY DEF ClearRequests, ClearCache
<1>2. sending = NoRequests /\ saving = {}
  BY <1>1 DEF CacheInv, ControlInv
<1>3. TypeOK'
  BY <1>1, NoRequestsFact DEF CacheInv, TypeOK
<1> QED
  BY <1>1, <1>2, <1>3, EmptyCache

\* What is deleted was not counted on any more.
LEMMA DeleteCache ==
    ASSUME CacheInv, DeleteHeightGT
    PROVE  CacheInv'
<1>1. PICK s \in Slug :
          /\ store' = [r \in Slug |-> IF r \in Above(Height[s]) THEN 0 ELSE store[r]]
          /\ wanted' = [r \in Slug |-> IF r \in Above(Height[s]) THEN 0 ELSE wanted[r]]
  BY DEF DeleteHeightGT
<1>2. pc = "rewind" /\ pc' = "run" /\ UNCHANGED <<cache, sending, attempt, saving, expired>>
  BY DEF DeleteHeightGT
<1>3. cache = NoRequests /\ sending = NoRequests /\ saving = {}
  BY <1>2 DEF CacheInv, ControlInv
<1>4. TypeOK'
  <2>1. \A r \in Slug : store[r] \in 0 .. MaxContent /\ wanted[r] \in 0 .. MaxContent
    BY DEF CacheInv, TypeOK
  <2>2. 0 \in 0 .. MaxContent
    BY CacheAssumption
  <2>3. store' \in [Slug -> 0 .. MaxContent] /\ wanted' \in [Slug -> 0 .. MaxContent]
    BY <1>1, <2>1, <2>2
  <2> QED
    BY <2>3, <1>2 DEF CacheInv, TypeOK
<1>5. expired' \/ wanted' = store'
  <2>1. ~ expired => \A r \in Slug : store[r] = wanted[r]
    BY <1>2, <1>3, NoRequestsFact DEF CacheInv, NothingIsLost, Owed, AfterRequest
  <2> QED
    BY <2>1, <1>1, <1>2
<1>6. \A r \in Slug : store'[r] <= wanted'[r]
  <2>1. \A r \in Slug : store[r] \in 0 .. MaxContent /\ store[r] <= wanted[r]
    BY DEF CacheInv, TypeOK, OrderInv
  <2> QED
    BY <2>1, <1>1
<1> QED
  BY <1>2, <1>3, <1>4, <1>5, <1>6, EmptyCache

\* A process that is killed within a deletion leaves some documents deleted.
LEMMA KillCache ==
    ASSUME CacheInv, Kill
    PROVE  CacheInv'
<1>1. \A s \in Slug : store[s] \in 0 .. MaxContent /\ wanted[s] \in 0 .. MaxContent
                      /\ store[s] <= wanted[s]
  BY DEF CacheInv, TypeOK, OrderInv
<1>2. store' = store \/ \E D \in SUBSET Slug : store' = [s \in Slug |-> IF s \in D THEN 0 ELSE store[s]]
  BY DEF Kill
<1>3. store' \in [Slug -> 0 .. MaxContent] /\ \A s \in Slug : store'[s] <= wanted[s]
  <2>1. CASE store' = store
    BY <2>1, <1>1 DEF CacheInv, TypeOK
  <2>2. ASSUME NEW D \in SUBSET Slug, store' = [s \in Slug |-> IF s \in D THEN 0 ELSE store[s]]
        PROVE  store' \in [Slug -> 0 .. MaxContent] /\ \A s \in Slug : store'[s] <= wanted[s]
    BY <2>2, <1>1, CacheAssumption
  <2> QED
    BY <1>2, <2>1, <2>2
<1> QED
  BY <1>3, DieCache DEF Kill

LEMMA StartCache ==
    ASSUME CacheInv, Start
    PROVE  CacheInv'
<1>1. /\ pc = "down" /\ pc' = "run" /\ wanted' = store /\ expired' = FALSE
      /\ UNCHANGED <<store, cache, sending, attempt, saving>>
  BY DEF Start
<1>2. cache = NoRequests /\ sending = NoRequests /\ saving = {}
  BY <1>1 DEF CacheInv, ControlInv
<1>3. TypeOK'
  BY <1>1 DEF CacheInv, TypeOK
<1> QED
  BY <1>1, <1>2, <1>3, EmptyCache

-----------------------------------------------------------------------------
(* The theorems *)

LEMMA NextCache ==
    ASSUME CacheInv, [Next]_vars
    PROVE  CacheInv'
<1>1. ASSUME NEW s \in Slug, AddRequest(s, "index") \/ AddRequest(s, "update") PROVE CacheInv'
  BY <1>1, AddRequestCache
<1>2. ASSUME NEW s \in Slug, Save(s) PROVE CacheInv'
  BY <1>2, SaveCache
<1>3. CASE Tick
  BY <1>3, TickCache
<1>4. CASE Persist \/ SendPart \/ FailPart
  BY <1>4, PersistCache, SendPartCache, FailPartCache
<1>5. CASE SaveSucceeds \/ SaveFails
  BY <1>5, SaveSucceedsCache, SaveFailsCache
<1>6. CASE ClearRequests \/ DeleteHeightGT
  BY <1>6, ClearRequestsCache, DeleteCache
<1>7. CASE Kill \/ Start
  BY <1>7, KillCache, StartCache
<1>8. CASE UNCHANGED vars
  BY <1>8 DEF vars, CacheInv, TypeOK, ControlInv, OrderInv, Between, NothingIsLost, Owed,
     AfterRequest, HasRequest, UpdatesFindTheirDocument, Missing, Waiting
<1> QED
  BY <1>1, <1>2, <1>3, <1>4, <1>5, <1>6, <1>7, <1>8 DEF Next

LEMMA CacheInvariant == Spec => []CacheInv
BY InitCache, NextCache, PTL DEF Spec

\* The types of ElasticCache's variables, for every value of the constants.
THEOREM TypeCorrect == Spec => []TypeOK
<1>1. CacheInv => TypeOK
  BY DEF CacheInv
<1> QED
  BY <1>1, CacheInvariant, PTL

\* Persist, Save and the rewinds lose nothing, whatever the size of a part, the
\* number of attempts and of documents.
THEOREM NothingLost == Spec => []NothingIsLost
<1>1. CacheInv => NothingIsLost
  BY DEF CacheInv
<1> QED
  BY <1>1, CacheInvariant, PTL

\* No bulk request updates a document that is not there.
THEOREM UpdatesFind == Spec => []UpdatesFindTheirDocument
<1>1. CacheInv => UpdatesFindTheirDocument
  BY DEF CacheInv
<1> QED
  BY <1>1, CacheInvariant, PTL

\* What a step makes of one document: newer, or nothing.
LEMMA StepIsNewer ==
    ASSUME CacheInv, Next, NEW s \in Slug
    PROVE  store'[s] >= store[s] \/ store'[s] = 0
<1>1. store[s] \in 0 .. MaxContent
  BY DEF CacheInv, TypeOK
<1>2. CASE store' = store
  BY <1>1, <1>2
<1>3. CASE SendPart \/ FailPart
  <2>1. \E P \in SUBSET Waiting(sending) : store' = Written(P)
    BY <1>3 DEF SendPart, FailPart, Parts
  <2>2. PICK P \in SUBSET Waiting(sending) : store' = Written(P)
    BY <2>1
  <2>3. store[s] <= Written(P)[s] /\ Written(P)[s] \in 0 .. MaxContent
    BY <1>3, WrittenFact DEF CacheInv, ControlInv, SendPart, FailPart
  <2> QED
    BY <1>1, <2>2, <2>3
<1>4. CASE store' = Saved
  <2>1. store[s] <= Saved[s] /\ Saved[s] \in 0 .. MaxContent
    BY SavedFact DEF CacheInv
  <2> QED
    BY <1>1, <1>4, <2>1
<1>5. ASSUME NEW D \in SUBSET Slug, store' = [r \in Slug |-> IF r \in D THEN 0 ELSE store[r]]
      PROVE  store'[s] >= store[s] \/ store'[s] = 0
  BY <1>1, <1>5
<1>6. CASE DeleteHeightGT
  <2>1. PICK r \in Slug : store' = [q \in Slug |-> IF q \in Above(Height[r]) THEN 0 ELSE store[q]]
    BY <1>6 DEF DeleteHeightGT
  <2> QED
    BY <2>1, <1>1
<1>7. CASE Kill
  <2>1. store' = store \/ \E D \in SUBSET Slug : store' = [q \in Slug |-> IF q \in D THEN 0 ELSE store[q]]
    BY <1>7 DEF Kill
  <2> QED
    BY <2>1, <1>2, <1>5
<1> QED
  BY <1>2, <1>3, <1>4, <1>6, <1>7
     DEF Next, AddRequest, Tick, Persist, Save, SaveSucceeds, SaveFails, ClearRequests, Start

\* A document never goes back to older contents.
THEOREM NewestStays == Spec => NewestWins
<1>1. CacheInv /\ [Next]_vars => [\A s \in Slug : store'[s] >= store[s] \/ store'[s] = 0]_vars
  BY StepIsNewer
<1> QED
  BY <1>1, CacheInvariant, PTL DEF Spec, NewestWins
=============================================================================
