------------------------- MODULE SemanticState_proofs --------------------------
(***************************************************************************)
(* Proofs about SemanticState, for every set of loaders, readers and       *)
(* documents: the type invariant, the safety invariants, the immutability  *)
(* of revisions, and the refinement of ModelRegistry.                      *)
(***************************************************************************)
EXTENDS SemanticState, TLAPS

(***************************************************************************)
(* The strengthening.  Holding the lock is a matter of control state; a    *)
(* request under way holds a revision, and one that has built a graph      *)
(* holds a revision whose graph builds.                                    *)
(***************************************************************************)
LockHeld ==
  /\ \A l \in Loader : lpc[l] \in {"locked", "drafted"} <=> writer = l
  /\ writer # None => guard = {}

RequestHolds ==
  \A r \in Reader :
    /\ rpc[r] = "idle" <=> held[r] = 0
    /\ rpc[r] = "built" => Builds(heap[held[r]].models)

(* What a request holds is named in the registry; a query is routed to one there. *)
NamesKnown ==
  \A r \in Reader :
    /\ held[r] # 0 => Named(heap[held[r]].models) \subseteq Named(heap[state].models)
    /\ rpc[r] = "routed" =>
         held[r] # 0 /\ (Named(heap[held[r]].models) # {} => source[r] \in Named(heap[state].models))

IInv ==
  /\ TypeOK
  /\ LockHeld
  /\ RequestHolds
  /\ CacheCoherent
  /\ GraphOfHeldRevision
  /\ NamesKnown
  /\ DraftExtendsCurrent

--------------------------------------------------------------------------------
(* The graph of well-formed models is well formed. *)
LEMMA GraphTyped ==
  ASSUME NEW m \in Models
  PROVE  Graph(m) \in GraphType
<1>1. Loaded(m) \subseteq Valid
  BY DEF Loaded, Models
<1>2. NodesOf(m) \subseteq Entity
  BY <1>1, DocAssumption DEF NodesOf
<1>3. JoinsOf(m) \subseteq Entity \X Entity
  BY <1>1, DocAssumption DEF JoinsOf
<1>4. {<<j[2], j[1]>> : j \in JoinsOf(m)} \subseteq Entity \X Entity
  BY <1>3
<1> QED
  BY <1>2, <1>3, <1>4 DEF Graph, GraphType

(* A well-formed graph is not the empty cache cell. *)
LEMMA GraphIsNotNone ==
  ASSUME NEW g \in GraphType
  PROVE  g # None
BY NoneIsFresh DEF GraphType

(* Inserting parsed models in registered ones gives well-formed models. *)
LEMMA OverlayTyped ==
  ASSUME NEW m \in Models, NEW p \in Models
  PROVE  Overlay(m, p) \in Models
BY DEF Overlay, Models

LEMMA EmptyTyped == Empty \in Models
BY DEF Empty, Models

--------------------------------------------------------------------------------
LEMMA InitIInv == Init => IInv
<1> SUFFICES ASSUME Init PROVE IInv
  OBVIOUS
<1> USE DEF Init
<1>1. Empty \in Models
  BY EmptyTyped
<1>2. heap \in Seq(Revision) /\ Len(heap) = 1
  BY <1>1 DEF Revision
<1>3. heap[1].graph = None
  OBVIOUS
<1>4. TypeOK
  <2>1. state = Len(heap) /\ state > 0 /\ heap \in Seq(Revision)
    BY <1>2
  <2>2. held \in [Reader -> 0..Len(heap)]
    BY <1>2
  <2>3. parsed \in [Loader -> Models]
    BY <1>1
  <2>4. /\ writer \in Loader \cup {None}
        /\ guard  \in SUBSET Reader
        /\ files  \in [Loader -> (SUBSET Doc) \cup {None}]
        /\ todo   \in [Loader -> SUBSET Doc]
        /\ draft  \in [Loader -> Revision \cup {None}]
    OBVIOUS
  <2>5. /\ rpc \in [Reader -> {"idle", "checking", "built", "answered", "routed", "failed"}]
        /\ val \in [Reader -> GraphType \cup {None}]
        /\ source \in [Reader -> Name \cup {None}]
    OBVIOUS
  <2>6. lpc \in [Loader -> {"idle", "reading", "waiting", "locked", "drafted",
                            "loaded", "failed"}]
    OBVIOUS
  <2> QED
    BY <2>1, <2>2, <2>3, <2>4, <2>5, <2>6, Zenon DEF TypeOK
<1>5. LockHeld /\ RequestHolds /\ GraphOfHeldRevision /\ NamesKnown /\ DraftExtendsCurrent
  BY NoneIsFresh
     DEF LockHeld, RequestHolds, GraphOfHeldRevision, NamesKnown, DraftExtendsCurrent
<1>6. CacheCoherent
  BY <1>3 DEF CacheCoherent
<1> QED
  BY <1>4, <1>5, <1>6 DEF IInv

(***************************************************************************)
(* The steps of a loader before it holds the lock change nothing the       *)
(* invariant speaks of but its own control state.                          *)
(***************************************************************************)
LEMMA LoaderBefore ==
  ASSUME IInv, NEW l \in Loader,
         BeginYaml(l) \/ BeginDir(l) \/ ReadDoc(l) \/ ReadError(l) \/ RequestWrite(l)
  PROVE  IInv'
<1> USE DEF IInv
<1>1. UNCHANGED <<heap, state, writer, guard, draft, readVars>>
  BY DEF BeginYaml, BeginDir, Begin, ReadDoc, ReadError, RequestWrite
<1>2. PICK pc \in {"reading", "waiting", "failed"} : lpc' = [lpc EXCEPT ![l] = pc]
  BY DEF BeginYaml, BeginDir, Begin, ReadDoc, ReadError, RequestWrite, TypeOK
<1>3. lpc[l] \notin {"locked", "drafted"}
  BY DEF BeginYaml, BeginDir, Begin, ReadDoc, ReadError, RequestWrite
<1>4. TypeOK'
  <2>1. /\ files' \in [Loader -> (SUBSET Doc) \cup {None}]
        /\ todo'  \in [Loader -> SUBSET Doc]
    <3>1. ASSUME NEW docs \in SUBSET Doc, Begin(l, docs)
          PROVE  /\ files' \in [Loader -> (SUBSET Doc) \cup {None}]
                 /\ todo'  \in [Loader -> SUBSET Doc]
      BY <3>1 DEF Begin, TypeOK
    <3>2. CASE BeginYaml(l) \/ BeginDir(l)
      <4>1. PICK docs \in SUBSET Doc : Begin(l, docs)
        BY <3>2, DirsAssumption DEF BeginYaml, BeginDir
      <4> QED
        BY <3>1, <4>1
    <3>3. CASE ReadDoc(l)
      BY <3>3 DEF ReadDoc, TypeOK
    <3>4. CASE ReadError(l) \/ RequestWrite(l)
      BY <3>4 DEF ReadError, RequestWrite, TypeOK
    <3> QED
      BY <3>2, <3>3, <3>4
  <2>2. parsed' \in [Loader -> Models]
    <3>1. CASE ReadDoc(l)
      <4>1. PICK d \in Valid : parsed' = [parsed EXCEPT ![l][NameOf[d]] = d]
        BY <3>1 DEF ReadDoc
      <4>2. [parsed[l] EXCEPT ![NameOf[d]] = d] \in Models
        BY DocAssumption DEF TypeOK, Models
      <4> QED
        BY <4>1, <4>2 DEF TypeOK
    <3>2. CASE ~ReadDoc(l)
      BY <3>2 DEF BeginYaml, BeginDir, Begin, ReadError, RequestWrite, TypeOK
    <3> QED
      BY <3>1, <3>2
  <2> QED
    BY <1>1, <1>2, <2>1, <2>2 DEF TypeOK, readVars
<1>5. LockHeld'
  BY <1>1, <1>2, <1>3 DEF LockHeld, TypeOK
<1>6. (RequestHolds /\ CacheCoherent /\ GraphOfHeldRevision /\ NamesKnown)'
  BY <1>1 DEF RequestHolds, CacheCoherent, GraphOfHeldRevision, NamesKnown, readVars
<1>7. DraftExtendsCurrent'
  <2> SUFFICES ASSUME NEW k \in Loader, lpc'[k] = "drafted"
               PROVE  draft'[k] = [models |-> Overlay(heap'[state'].models, parsed'[k]),
                                   graph  |-> None]
    BY DEF DraftExtendsCurrent
  <2>1. k # l /\ lpc[k] = "drafted"
    BY <1>2, <1>3 DEF TypeOK
  <2>2. parsed'[k] = parsed[k]
    BY <2>1 DEF BeginYaml, BeginDir, Begin, ReadDoc, ReadError, RequestWrite, TypeOK
  <2> QED
    BY <1>1, <2>1, <2>2 DEF DraftExtendsCurrent
<1> QED
  BY <1>4, <1>5, <1>6, <1>7

LEMMA LoaderAcquires ==
  ASSUME IInv, NEW l \in Loader, AcquireWrite(l)
  PROVE  IInv'
<1> USE DEF IInv, AcquireWrite
<1>1. TypeOK'
  BY DEF TypeOK, readVars
<1>2. LockHeld'
  BY NoneIsFresh DEF LockHeld, TypeOK
<1>3. (RequestHolds /\ CacheCoherent /\ GraphOfHeldRevision /\ NamesKnown)'
  BY DEF RequestHolds, CacheCoherent, GraphOfHeldRevision, NamesKnown, readVars
<1>4. DraftExtendsCurrent'
  BY DEF DraftExtendsCurrent, TypeOK
<1> QED
  BY <1>1, <1>2, <1>3, <1>4

LEMMA LoaderClones ==
  ASSUME IInv, NEW l \in Loader, CloneInsert(l)
  PROVE  IInv'
<1> USE DEF IInv, CloneInsert
<1> DEFINE next == [models |-> Overlay(heap[state].models, parsed[l]), graph |-> None]
<1>1. heap[state] \in Revision
  BY DEF TypeOK
<1>2. draft' = [draft EXCEPT ![l] = next]
  BY DEF Clone, Insert
<1>3. next \in Revision
  BY <1>1, OverlayTyped DEF Revision, TypeOK
<1>4. TypeOK'
  BY <1>2, <1>3 DEF TypeOK, readVars
<1>5. LockHeld'
  BY NoneIsFresh DEF LockHeld, TypeOK
<1>6. (RequestHolds /\ CacheCoherent /\ GraphOfHeldRevision /\ NamesKnown)'
  BY DEF RequestHolds, CacheCoherent, GraphOfHeldRevision, NamesKnown, readVars
<1>7. DraftExtendsCurrent'
  BY <1>2 DEF DraftExtendsCurrent, TypeOK
<1> QED
  BY <1>4, <1>5, <1>6, <1>7

LEMMA LoaderPublishes ==
  ASSUME IInv, NEW l \in Loader, Publish(l)
  PROVE  IInv'
<1> USE DEF IInv, Publish
<1>1. draft[l] \in Revision /\ draft[l].graph = None
  <2>1. draft[l] = [models |-> Overlay(heap[state].models, parsed[l]), graph |-> None]
    BY DEF DraftExtendsCurrent
  <2>2. heap[state] \in Revision
    BY DEF TypeOK
  <2> QED
    BY <2>1, <2>2, OverlayTyped DEF Revision, TypeOK
<1>2. /\ heap' \in Seq(Revision)
      /\ Len(heap') = Len(heap) + 1
      /\ heap'[Len(heap) + 1] = draft[l]
      /\ \A i \in 1..Len(heap) : heap'[i] = heap[i]
  BY <1>1 DEF TypeOK
<1>3. writer = l /\ guard = {}
  BY NoneIsFresh DEF LockHeld
<1>4. TypeOK'
  BY <1>2 DEF TypeOK, readVars
<1>5. LockHeld'
  BY <1>3, NoneIsFresh DEF LockHeld, TypeOK
<1>6. RequestHolds'
  BY <1>2 DEF RequestHolds, readVars, TypeOK
<1>7. CacheCoherent'
  <2> SUFFICES ASSUME NEW i \in DOMAIN heap', heap'[i].graph # None
               PROVE  Builds(heap'[i].models) /\ heap'[i].graph = Graph(heap'[i].models)
    BY DEF CacheCoherent
  <2>1. i \in 1..Len(heap)
    BY <1>1, <1>2 DEF TypeOK
  <2> QED
    BY <1>2, <2>1 DEF CacheCoherent, TypeOK
<1>8. GraphOfHeldRevision'
  BY <1>2 DEF GraphOfHeldRevision, readVars, TypeOK
<1>9. NamesKnown'
  <2>1. Named(heap[state].models) \subseteq Named(heap'[state'].models)
    <3>1. state' = Len(heap) + 1
      OBVIOUS
    <3>2. draft[l] = [models |-> Overlay(heap[state].models, parsed[l]), graph |-> None]
      BY DEF DraftExtendsCurrent
    <3> QED
      BY <1>2, <3>1, <3>2 DEF Named, Overlay
  <2>2. \A r \in Reader : held[r] # 0 => heap'[held[r]] = heap[held[r]]
    BY <1>2 DEF TypeOK
  <2>3. UNCHANGED <<rpc, held, source>>
    BY DEF readVars
  <2> SUFFICES ASSUME NEW r \in Reader
               PROVE  /\ held[r] # 0 => Named(heap'[held[r]].models) \subseteq Named(heap'[state'].models)
                      /\ rpc[r] = "routed" =>
                           held[r] # 0 /\ (Named(heap'[held[r]].models) # {} =>
                                              source[r] \in Named(heap'[state'].models))
    BY <2>3, Zenon DEF NamesKnown
  <2> QED
    BY <2>1, <2>2 DEF NamesKnown
<1>10. DraftExtendsCurrent'
  BY <1>3, NoneIsFresh DEF DraftExtendsCurrent, LockHeld, TypeOK
<1> QED
  BY <1>4, <1>5, <1>6, <1>7, <1>8, <1>9, <1>10

(***************************************************************************)
(* Readers.                                                                *)
(***************************************************************************)
LEMMA ReaderBegins ==
  ASSUME IInv, NEW r \in Reader, BeginGuarded(r) \/ BeginSnapshot(r)
  PROVE  IInv'
<1> USE DEF IInv
<1>1. /\ UNCHANGED <<heap, state, writer, loadVars, val, source>>
      /\ writer = None
      /\ rpc'  = [rpc EXCEPT ![r] = "checking"]
      /\ held' = [held EXCEPT ![r] = state]
      /\ guard' \in {guard, guard \cup {r}}
  BY DEF BeginGuarded, BeginSnapshot, MayRead
<1>2. TypeOK'
  BY <1>1 DEF TypeOK, loadVars
<1>3. LockHeld'
  BY <1>1 DEF LockHeld, loadVars
<1>4. RequestHolds'
  BY <1>1 DEF RequestHolds, TypeOK
<1>5. (CacheCoherent /\ DraftExtendsCurrent)'
  BY <1>1 DEF CacheCoherent, DraftExtendsCurrent, loadVars
<1>6. GraphOfHeldRevision'
  BY <1>1 DEF GraphOfHeldRevision, TypeOK
<1>7. NamesKnown'
  BY <1>1 DEF NamesKnown, TypeOK
<1> QED
  BY <1>2, <1>3, <1>4, <1>5, <1>6, <1>7

LEMMA ReaderHits ==
  ASSUME IInv, NEW r \in Reader, CacheHit(r)
  PROVE  IInv'
<1> USE DEF IInv, CacheHit
<1>1. held[r] \in DOMAIN heap
  BY DEF RequestHolds, TypeOK
<1>2. heap[held[r]] \in Revision
  BY <1>1 DEF TypeOK
<1>3. heap[held[r]].graph \in GraphType
  BY <1>2 DEF Revision
<1>4. TypeOK'
  BY <1>3 DEF TypeOK, loadVars
<1>5. (LockHeld /\ CacheCoherent /\ DraftExtendsCurrent)'
  BY DEF LockHeld, CacheCoherent, DraftExtendsCurrent, loadVars
<1>6. NamesKnown'
  <2>1. UNCHANGED <<heap, state, held, source>> /\ \A s \in Reader : rpc'[s] = "routed" => rpc[s] = "routed"
    BY DEF TypeOK
  <2> QED
    BY <2>1, Zenon DEF NamesKnown
<1>7. RequestHolds'
  BY DEF RequestHolds, TypeOK
<1>8. GraphOfHeldRevision'
  BY <1>1 DEF GraphOfHeldRevision, CacheCoherent, RequestHolds, TypeOK
<1> QED
  BY <1>4, <1>5, <1>6, <1>7, <1>8

LEMMA ReaderMisses ==
  ASSUME IInv, NEW r \in Reader, CacheMiss(r)
  PROVE  IInv'
<1> USE DEF IInv, CacheMiss
<1>1. held[r] \in DOMAIN heap
  BY DEF RequestHolds, TypeOK
<1>2. heap[held[r]] \in Revision
  BY <1>1 DEF TypeOK
<1>3. Graph(heap[held[r]].models) \in GraphType
  BY <1>2, GraphTyped DEF Revision
<1>4. TypeOK'
  BY <1>3 DEF TypeOK, loadVars
<1>5. (LockHeld /\ CacheCoherent /\ DraftExtendsCurrent)'
  BY DEF LockHeld, CacheCoherent, DraftExtendsCurrent, loadVars
<1>6. NamesKnown'
  <2>1. UNCHANGED <<heap, state, held, source>> /\ \A s \in Reader : rpc'[s] = "routed" => rpc[s] = "routed"
    BY DEF TypeOK
  <2> QED
    BY <2>1, Zenon DEF NamesKnown
<1>7. RequestHolds'
  BY DEF RequestHolds, TypeOK
<1>8. GraphOfHeldRevision'
  BY DEF GraphOfHeldRevision, RequestHolds, TypeOK
<1> QED
  BY <1>4, <1>5, <1>6, <1>7, <1>8

(* Writing the cache cell changes no models and only an empty cell. *)
LEMMA CellWritten ==
  ASSUME IInv, NEW r \in Reader, SetCache(r)
  PROVE  /\ held[r] \in DOMAIN heap
         /\ DOMAIN heap' = DOMAIN heap
         /\ heap' \in Seq(Revision)
         /\ Len(heap') = Len(heap)
         /\ \A i \in DOMAIN heap :
              /\ heap'[i].models = heap[i].models
              /\ heap[i].graph # None \/ i # held[r] => heap'[i] = heap[i]
         /\ heap[held[r]].graph = None => heap'[held[r]].graph = val[r]
<1> USE DEF IInv
<1>1. held[r] \in DOMAIN heap
  BY DEF RequestHolds, TypeOK, SetCache
<1>2. heap[held[r]] \in Revision
  BY <1>1 DEF TypeOK
<1>3. val[r] \in GraphType
  BY <1>2, GraphTyped DEF GraphOfHeldRevision, SetCache, Revision
<1>4. CASE heap[held[r]].graph = None
  <2> DEFINE new == [models |-> heap[held[r]].models, graph |-> val[r]]
  <2>1. new \in Revision
    BY <1>2, <1>3 DEF Revision
  <2>2. heap' = [heap EXCEPT ![held[r]] = new]
    <3>1. heap' = [heap EXCEPT ![held[r]] = [heap[held[r]] EXCEPT !.graph = val[r]]]
      BY <1>4 DEF SetCache
    <3>2. [heap[held[r]] EXCEPT !.graph = val[r]] = new
      BY <1>2 DEF Revision
    <3> QED
      BY <3>1, <3>2
  <2> HIDE DEF new
  <2>3. heap' \in Seq(Revision) /\ Len(heap') = Len(heap) /\ DOMAIN heap' = DOMAIN heap
    BY <1>1, <2>1, <2>2 DEF TypeOK
  <2>4. heap'[held[r]] = new /\ \A i \in DOMAIN heap : i # held[r] => heap'[i] = heap[i]
    BY <1>1, <2>2 DEF TypeOK
  <2> QED
    BY <1>1, <1>4, <2>3, <2>4 DEF new
<1>5. CASE heap[held[r]].graph # None
  BY <1>1, <1>5 DEF SetCache, TypeOK
<1> QED
  BY <1>4, <1>5

LEMMA ReaderSets ==
  ASSUME IInv, NEW r \in Reader, SetCache(r)
  PROVE  IInv'
<1> USE DEF IInv
<1>1. UNCHANGED <<state, writer, guard, loadVars, held, val, source>>
  BY DEF SetCache
<1>2. rpc[r] = "built" /\ rpc' = [rpc EXCEPT ![r] = "answered"]
  BY DEF SetCache
<1>3. TypeOK'
  BY <1>1, <1>2, CellWritten DEF TypeOK, loadVars
<1>4. LockHeld'
  BY <1>1 DEF LockHeld, loadVars
<1>5. RequestHolds'
  <2> SUFFICES ASSUME NEW q \in Reader
               PROVE  /\ rpc'[q] = "idle" <=> held'[q] = 0
                      /\ rpc'[q] = "built" => Builds(heap'[held'[q]].models)
    BY DEF RequestHolds
  <2>1. /\ held' = held /\ (rpc'[q] = "idle" <=> rpc[q] = "idle") /\ (rpc'[q] = "built" => rpc[q] = "built")
        /\ rpc[q] = "built" => held[q] \in DOMAIN heap
    BY <1>1, <1>2 DEF RequestHolds, TypeOK
  <2>2. \A i \in DOMAIN heap : heap'[i].models = heap[i].models
    BY CellWritten
  <2> QED
    BY <2>1, <2>2 DEF RequestHolds
<1>6. CacheCoherent'
  <2> SUFFICES ASSUME NEW i \in DOMAIN heap, heap'[i].graph # None
               PROVE  Builds(heap[i].models) /\ heap'[i].graph = Graph(heap[i].models)
    BY CellWritten DEF CacheCoherent
  <2>1. CASE heap[i].graph # None \/ i # held[r]
    BY <2>1, CellWritten DEF CacheCoherent
  <2>2. CASE heap[i].graph = None /\ i = held[r]
    BY <1>2, <2>2, CellWritten DEF RequestHolds, GraphOfHeldRevision
  <2> QED
    BY <2>1, <2>2
<1>7. GraphOfHeldRevision'
  <2> SUFFICES ASSUME NEW s \in Reader, rpc'[s] \in {"built", "answered"}
               PROVE  held[s] # 0 /\ val[s] = Graph(heap'[held[s]].models)
    BY <1>1 DEF GraphOfHeldRevision
  <2>1. rpc[s] \in {"built", "answered"}
    BY <1>2 DEF TypeOK
  <2>2. held[s] # 0 /\ val[s] = Graph(heap[held[s]].models)
    BY <2>1 DEF GraphOfHeldRevision
  <2>3. heap'[held[s]].models = heap[held[s]].models
    BY <2>2, CellWritten DEF TypeOK
  <2> QED
    BY <2>2, <2>3
<1>8. DraftExtendsCurrent'
  BY <1>1, CellWritten DEF DraftExtendsCurrent, TypeOK, loadVars
<1>9. NamesKnown'
  <2>1. \A i \in DOMAIN heap : heap'[i].models = heap[i].models
    BY CellWritten
  <2>2. state \in DOMAIN heap /\ \A s \in Reader : held[s] # 0 => held[s] \in DOMAIN heap
    BY DEF TypeOK
  <2>3. \A s \in Reader : rpc'[s] = "routed" => rpc[s] = "routed"
    BY <1>2 DEF TypeOK
  <2>4. UNCHANGED <<state, held, source>>
    BY DEF SetCache
  <2> QED
    BY <2>1, <2>2, <2>3, <2>4 DEF NamesKnown
<1> QED
  BY <1>3, <1>4, <1>5, <1>6, <1>7, <1>8, <1>9

LEMMA ReaderRoutes ==
  ASSUME IInv, NEW r \in Reader, GetDefaultModel(r)
  PROVE  IInv'
<1> USE DEF IInv
<1>1. UNCHANGED <<heap, state, writer, guard, loadVars, held, val>>
  BY DEF GetDefaultModel
<1>2. rpc[r] = "answered" /\ rpc' = [rpc EXCEPT ![r] = "routed"] /\ held[r] # 0
  BY DEF GetDefaultModel, RequestHolds
<1>3. PICK n \in Name \cup {None} :
        /\ source' = [source EXCEPT ![r] = n]
        /\ Named(heap[state].models) # {} => n \in Named(heap[state].models)
  BY Zenon DEF GetDefaultModel, Named
<1>4. TypeOK'
  BY <1>1, <1>2, <1>3 DEF TypeOK, loadVars
<1>5. (LockHeld /\ CacheCoherent /\ DraftExtendsCurrent)'
  BY <1>1 DEF LockHeld, CacheCoherent, DraftExtendsCurrent, loadVars
<1>6. (RequestHolds /\ GraphOfHeldRevision)'
  BY <1>1, <1>2 DEF RequestHolds, GraphOfHeldRevision, TypeOK
<1>7. NamesKnown'
  <2> SUFFICES ASSUME NEW s \in Reader
               PROVE  /\ held[s] # 0 => Named(heap[held[s]].models) \subseteq Named(heap[state].models)
                      /\ rpc'[s] = "routed" =>
                           held[s] # 0 /\ (Named(heap[held[s]].models) # {} =>
                                              source'[s] \in Named(heap[state].models))
    BY <1>1, Zenon DEF NamesKnown
  <2>1. CASE s = r
    <3>1. source'[r] = n
      BY <1>3 DEF TypeOK
    <3>2. Named(heap[held[r]].models) \subseteq Named(heap[state].models)
      BY <1>2 DEF NamesKnown
    <3> QED
      BY <1>2, <1>3, <2>1, <3>1, <3>2
  <2>2. CASE s # r
    <3>1. rpc'[s] = rpc[s] /\ source'[s] = source[s]
      BY <1>2, <1>3, <2>2 DEF TypeOK
    <3> QED
      BY <3>1 DEF NamesKnown
  <2> QED
    BY <2>1, <2>2
<1> QED
  BY <1>4, <1>5, <1>6, <1>7

LEMMA ReaderEnds ==
  ASSUME IInv, NEW r \in Reader, EndQuery(r)
  PROVE  IInv'
<1> USE DEF IInv, EndQuery
<1>1. TypeOK'
  BY DEF TypeOK, loadVars
<1>2. (LockHeld /\ CacheCoherent /\ DraftExtendsCurrent)'
  BY DEF LockHeld, CacheCoherent, DraftExtendsCurrent, loadVars
<1>3. (RequestHolds /\ GraphOfHeldRevision)'
  BY DEF RequestHolds, GraphOfHeldRevision, TypeOK
<1>4. NamesKnown'
  BY DEF NamesKnown, TypeOK
<1> QED
  BY <1>1, <1>2, <1>3, <1>4

LEMMA NextIInv == IInv /\ [Next]_vars => IInv'
<1> SUFFICES ASSUME IInv, [Next]_vars
             PROVE  IInv'
  OBVIOUS
<1>1. ASSUME NEW l \in Loader, LoaderStep(l)
      PROVE  IInv'
  BY <1>1, LoaderBefore, LoaderAcquires, LoaderClones, LoaderPublishes DEF LoaderStep
<1>2. ASSUME NEW r \in Reader, ReaderStep(r)
      PROVE  IInv'
  BY <1>2, ReaderBegins, ReaderHits, ReaderMisses, ReaderSets, ReaderRoutes, ReaderEnds
     DEF ReaderStep, GetGraph
<1>3. CASE UNCHANGED vars
  BY <1>3 DEF vars, loadVars, readVars, IInv, TypeOK, LockHeld, RequestHolds, CacheCoherent,
              GraphOfHeldRevision, NamesKnown, DraftExtendsCurrent
<1> QED
  BY <1>1, <1>2, <1>3 DEF Next

(***************************************************************************)
(* The inductive invariant holds of the specification, and with it each of *)
(* its conjuncts.                                                          *)
(***************************************************************************)
THEOREM Invariance == Spec => []IInv
BY InitIInv, NextIInv, PTL DEF Spec

(***************************************************************************)
(* The state keeps its shape: a loader holds a well-formed draft, a reader *)
(* a published revision, the cells well-formed graphs.                     *)
(***************************************************************************)
THEOREM TypeCorrect == Spec => []TypeOK
BY Invariance, PTL DEF IInv

(***************************************************************************)
(* No load leaves a stale graph in the cache it publishes, whatever the    *)
(* interleaving of loads and get_graph calls.                              *)
(***************************************************************************)
THEOREM CacheCorrect == Spec => []CacheCoherent
BY Invariance, PTL DEF IInv

(***************************************************************************)
(* A request is compiled with the graph of the models it holds.            *)
(***************************************************************************)
THEOREM AnswerCorrect == Spec => []GraphOfHeldRevision
BY Invariance, PTL DEF IInv

(***************************************************************************)
(* A compiled query finds a data source, loads in between or not, and the  *)
(* one of its own model when there is no other.                            *)
(***************************************************************************)
THEOREM RouteCorrect == Spec => []QueryRouted
<1>1. IInv => QueryRouted
  BY DEF IInv, NamesKnown, QueryRouted
<1> QED
  BY <1>1, Invariance, PTL

(***************************************************************************)
(* No load is lost: what a loader publishes extends the current state.     *)
(***************************************************************************)
THEOREM DraftCorrect == Spec => []DraftExtendsCurrent
BY Invariance, PTL DEF IInv

--------------------------------------------------------------------------------
(* Only Publish and SetCache write to the heap. *)
LEMMA HeapFrame ==
  ASSUME [Next]_vars,
         \A l \in Loader : ~Publish(l),
         \A r \in Reader : ~SetCache(r)
  PROVE  UNCHANGED <<heap, state>>
BY DEF Next, LoaderStep, ReaderStep, GetGraph, vars, BeginYaml, BeginDir, Begin, ReadDoc, ReadError,
       RequestWrite, AcquireWrite, CloneInsert, BeginGuarded, BeginSnapshot, CacheHit, CacheMiss,
       GetDefaultModel, EndQuery

(* Publication adds a revision after the others. *)
LEMMA Published ==
  ASSUME IInv, NEW l \in Loader, Publish(l)
  PROVE  /\ draft[l] = [models |-> Overlay(heap[state].models, parsed[l]), graph |-> None]
         /\ state' = Len(heap) + 1
         /\ DOMAIN heap' = 1..(Len(heap) + 1)
         /\ heap'[state'] = draft[l]
         /\ heap'[state'].models = Overlay(heap[state].models, parsed[l])
         /\ \A i \in DOMAIN heap : heap'[i] = heap[i]
<1> USE DEF IInv, Publish
<1>1. draft[l] = [models |-> Overlay(heap[state].models, parsed[l]), graph |-> None]
  BY DEF DraftExtendsCurrent
<1>2. heap \in Seq(Revision) /\ heap' = Append(heap, draft[l])
  BY DEF TypeOK
<1>3. draft[l] \in Revision
  <2>1. heap[state] \in Revision
    BY DEF TypeOK
  <2> QED
    BY <1>1, <2>1, OverlayTyped DEF Revision, TypeOK
<1>4. state' = Len(heap) + 1 /\ DOMAIN heap = 1..Len(heap)
  BY <1>2
<1>5. /\ DOMAIN heap' = 1..(Len(heap) + 1)
      /\ heap'[Len(heap) + 1] = draft[l]
      /\ \A i \in 1..Len(heap) : heap'[i] = heap[i]
  <2> HIDE DEF IInv, Publish
  <2> QED
    BY <1>2, <1>3
<1> QED
  BY <1>1, <1>4, <1>5

(***************************************************************************)
(* Published revisions never change, and cache cells are written once.     *)
(***************************************************************************)
THEOREM Immutability == Spec => RevisionsImmutable
<1> DEFINE Keeps == \A i \in DOMAIN heap :
                      /\ i \in DOMAIN heap'
                      /\ heap'[i].models = heap[i].models
                      /\ heap[i].graph # None => heap'[i].graph = heap[i].graph
<1>1. ASSUME IInv, [Next]_vars
      PROVE  Keeps
  <2>1. CASE \E l \in Loader : Publish(l)
    BY <1>1, <2>1, Published DEF IInv, TypeOK
  <2>2. CASE \E r \in Reader : SetCache(r)
    BY <1>1, <2>2, CellWritten DEF IInv, TypeOK
  <2>3. CASE /\ \A l \in Loader : ~Publish(l)
             /\ \A r \in Reader : ~SetCache(r)
    BY <1>1, <2>3, HeapFrame
  <2> QED
    BY <2>1, <2>2, <2>3
<1>2. IInv /\ [Next]_vars => [Keeps]_heap
  BY <1>1
<1> QED
  BY <1>2, Invariance, PTL DEF Spec, RevisionsImmutable

(***************************************************************************)
(* A registered name stays registered.                                     *)
(***************************************************************************)
THEOREM Persistence == Spec => NamesPersist
<1> DEFINE Keeps == \A n \in Name :
                      heap[state].models[n] # None => heap'[state'].models[n] # None
<1>1. ASSUME IInv, [Next]_vars
      PROVE  Keeps
  <2>1. ASSUME NEW l \in Loader, Publish(l)
        PROVE  Keeps
    <3>1. heap'[state'].models = Overlay(heap[state].models, parsed[l])
      BY <1>1, <2>1, Published
    <3> QED
      BY <3>1 DEF Overlay
  <2>2. ASSUME NEW r \in Reader, SetCache(r)
        PROVE  Keeps
    <3>1. state' = state
      BY <2>2 DEF SetCache
    <3> QED
      BY <1>1, <2>2, <3>1, CellWritten DEF IInv, TypeOK
  <2>3. CASE /\ \A l \in Loader : ~Publish(l)
             /\ \A r \in Reader : ~SetCache(r)
    BY <1>1, <2>3, HeapFrame
  <2> QED
    BY <2>1, <2>2, <2>3
<1>2. IInv /\ [Next]_vars => [Keeps]_<<heap, state>>
  BY <1>1
<1> QED
  BY <1>2, Invariance, PTL DEF Spec, NamesPersist

--------------------------------------------------------------------------------
(***************************************************************************)
(* Refinement of ModelRegistry.  What a loader has parsed is what the      *)
(* documents it has read register, all of them valid; when it asks for the *)
(* lock it has read everything it was asked to load.                       *)
(***************************************************************************)
LoadProgress ==
  \A l \in Loader :
    /\ lpc[l] = "idle" => files[l] = None /\ parsed[l] = Empty
    /\ lpc[l] # "idle" =>
         /\ files[l] \in SUBSET Doc
         /\ todo[l] \subseteq files[l]
         /\ files[l] \ todo[l] \subseteq Valid
         /\ Registry!Registers(files[l] \ todo[l], parsed[l])
    /\ lpc[l] \in {"waiting", "locked", "drafted", "loaded"} => todo[l] = {}

(* Reading one more valid document registers it. *)
LEMMA RegistersOneMore ==
  ASSUME NEW docs \in SUBSET Valid, NEW p \in Models, NEW d \in Valid,
         Registry!Registers(docs, p)
  PROVE  Registry!Registers(docs \cup {d}, [p EXCEPT ![NameOf[d]] = d])
<1> DEFINE q == [p EXCEPT ![NameOf[d]] = d]
<1> SUFFICES ASSUME NEW n \in Name
             PROVE  LET named == {e \in docs \cup {d} : NameOf[e] = n}
                    IN  IF named = {} THEN q[n] = None ELSE q[n] \in named
  BY DEF Registry!Registers
<1>1. CASE NameOf[d] = n
  BY <1>1 DEF Models
<1>2. CASE NameOf[d] # n
  <2>1. q[n] = p[n]
    BY <1>2 DEF Models
  <2>2. {e \in docs \cup {d} : NameOf[e] = n} = {e \in docs : NameOf[e] = n}
    BY <1>2
  <2> QED
    BY <2>1, <2>2 DEF Registry!Registers
<1> QED
  BY <1>1, <1>2

LEMMA InitProgress == Init => LoadProgress
BY DEF Init, LoadProgress

LEMMA NextProgress == IInv /\ LoadProgress /\ [Next]_vars => LoadProgress'
<1> SUFFICES ASSUME IInv, LoadProgress, [Next]_vars
             PROVE  LoadProgress'
  OBVIOUS
<1>1. ASSUME NEW l \in Loader, NEW docs \in SUBSET Doc, Begin(l, docs)
      PROVE  LoadProgress'
  <2>1. files' = [files EXCEPT ![l] = docs] /\ todo' = [todo EXCEPT ![l] = docs]
    BY <1>1 DEF Begin
  <2>2. lpc' = [lpc EXCEPT ![l] = "reading"] /\ parsed' = parsed /\ lpc[l] = "idle"
    BY <1>1 DEF Begin
  <2>3. docs \ docs = {} /\ Registry!Registers({}, Empty)
    BY DEF Registry!Registers, Empty
  <2> QED
    BY <2>1, <2>2, <2>3 DEF LoadProgress, IInv, TypeOK
<1>2. ASSUME NEW l \in Loader, ReadDoc(l)
      PROVE  LoadProgress'
  <2>1. PICK d \in todo[l] \cap Valid :
           /\ parsed' = [parsed EXCEPT ![l] = [parsed[l] EXCEPT ![NameOf[d]] = d]]
           /\ todo'   = [todo EXCEPT ![l] = todo[l] \ {d}]
    BY <1>2 DEF ReadDoc
  <2>2. lpc' = lpc /\ files' = files /\ lpc[l] = "reading"
    BY <1>2 DEF ReadDoc
  <2>3. /\ files[l] \in SUBSET Doc
        /\ todo[l] \subseteq files[l]
        /\ files[l] \ todo[l] \subseteq Valid
        /\ Registry!Registers(files[l] \ todo[l], parsed[l])
    BY <2>2 DEF LoadProgress
  <2>4. files[l] \ (todo[l] \ {d}) = (files[l] \ todo[l]) \cup {d}
    BY <2>1, <2>3
  <2>5. Registry!Registers(files[l] \ (todo[l] \ {d}), [parsed[l] EXCEPT ![NameOf[d]] = d])
    <3>1. parsed[l] \in Models /\ d \in Valid
      BY <2>1 DEF IInv, TypeOK
    <3>2. Registry!Registers((files[l] \ todo[l]) \cup {d}, [parsed[l] EXCEPT ![NameOf[d]] = d])
      BY <2>3, <3>1, RegistersOneMore
    <3> QED
      BY <2>4, <3>2
  <2> HIDE DEF IInv
  <2>0. DOMAIN parsed = Loader /\ DOMAIN todo = Loader
    BY DEF IInv, TypeOK
  <2>6. parsed'[l] = [parsed[l] EXCEPT ![NameOf[d]] = d] /\ todo'[l] = todo[l] \ {d}
    BY <2>0, <2>1
  <2>7. \A k \in Loader : k # l => parsed'[k] = parsed[k] /\ todo'[k] = todo[k]
    BY <2>0, <2>1
  <2> QED
    BY <2>2, <2>3, <2>4, <2>5, <2>6, <2>7, Zenon DEF LoadProgress
<1>3. ASSUME NEW l \in Loader,
             ReadError(l) \/ RequestWrite(l) \/ AcquireWrite(l) \/ CloneInsert(l) \/ Publish(l)
      PROVE  LoadProgress'
  <2>1. UNCHANGED <<files, todo, parsed>>
    BY <1>3 DEF ReadError, RequestWrite, AcquireWrite, CloneInsert, Publish
  <2>2. /\ \A k \in Loader : k # l => lpc'[k] = lpc[k]
        /\ lpc[l] # "idle" /\ lpc'[l] # "idle"
        /\ lpc'[l] \in {"waiting", "locked", "drafted", "loaded"} => todo[l] = {}
    <3>1. lpc[l] \in {"reading", "waiting", "locked", "drafted"}
      BY <1>3 DEF ReadError, RequestWrite, AcquireWrite, CloneInsert, Publish
    <3>2. PICK pc \in {"failed", "waiting", "locked", "drafted", "loaded"} :
             lpc' = [lpc EXCEPT ![l] = pc]
      BY <1>3 DEF ReadError, RequestWrite, AcquireWrite, CloneInsert, Publish
    <3>3. lpc[l] = "reading" /\ pc # "failed" => todo[l] = {}
      BY <1>3, <3>2 DEF ReadError, RequestWrite, AcquireWrite, CloneInsert, Publish, IInv, TypeOK
    <3>4. lpc[l] # "reading" => todo[l] = {}
      BY <3>1 DEF LoadProgress
    <3>5. lpc'[l] = pc /\ \A k \in Loader : k # l => lpc'[k] = lpc[k]
      BY <3>2 DEF IInv, TypeOK
    <3> QED
      BY <3>1, <3>3, <3>4, <3>5
  <2> QED
    BY <2>1, <2>2 DEF LoadProgress
<1>4. CASE UNCHANGED loadVars
  BY <1>4 DEF LoadProgress, loadVars
<1>5. ASSUME NEW l \in Loader, LoaderStep(l)
      PROVE  LoadProgress'
  BY <1>1, <1>2, <1>3, <1>5, DirsAssumption DEF LoaderStep, BeginYaml, BeginDir
<1>6. ASSUME NEW r \in Reader, ReaderStep(r)
      PROVE  UNCHANGED loadVars
  BY <1>6 DEF ReaderStep, GetGraph, BeginGuarded, BeginSnapshot, CacheHit, CacheMiss, SetCache,
              GetDefaultModel, EndQuery
<1> QED
  BY <1>4, <1>5, <1>6 DEF Next, vars

LEMMA ProgressInvariance == Spec => [](IInv /\ LoadProgress)
<1>1. IInv /\ LoadProgress /\ [Next]_vars => (IInv /\ LoadProgress)'
  BY NextIInv, NextProgress
<1> QED
  BY <1>1, InitIInv, InitProgress, PTL DEF Spec

(***************************************************************************)
(* The steps of the code are steps of the registry, or change nothing it   *)
(* speaks of.                                                              *)
(***************************************************************************)
Outcome == [l \in Loader |-> IF lpc[l] \in {"loaded", "failed"} THEN lpc[l] ELSE "pending"]
View    == [r \in Reader |-> IF held[r] = 0 THEN None ELSE heap[held[r]].models]

LEMMA InitRefines == Init => Registry!Init
BY DEF Init, Registry!Init, Empty, Registry!Empty

LEMMA BeginRefines ==
  ASSUME IInv, LoadProgress, NEW l \in Loader, NEW docs \in SUBSET Doc, Begin(l, docs)
  PROVE  Registry!Ask(l)
<1>1. files[l] = None /\ files' = [files EXCEPT ![l] = docs]
  BY DEF Begin, LoadProgress
<1>2. UNCHANGED <<heap[state].models, View>>
  BY DEF Begin, readVars, View
<1>3. Outcome' = Outcome
  BY DEF Begin, Outcome, IInv, TypeOK
<1> QED
  BY <1>1, <1>2, <1>3 DEF Registry!Ask, Outcome, View

LEMMA ReadErrorRefines ==
  ASSUME IInv, LoadProgress, NEW l \in Loader, ReadError(l)
  PROVE  Registry!Reject(l)
<1>1. files[l] # None
  BY NoneIsFresh DEF ReadError, LoadProgress
<1>2. UNCHANGED <<files, heap[state].models, View>>
  BY DEF ReadError, readVars, View
<1>3. Outcome[l] = "pending" /\ Outcome' = [Outcome EXCEPT ![l] = "failed"]
  BY DEF ReadError, Outcome, IInv, TypeOK
<1> QED
  BY <1>1, <1>2, <1>3 DEF Registry!Reject, Outcome, View

LEMMA PublishRefines ==
  ASSUME IInv, LoadProgress, NEW l \in Loader, Publish(l)
  PROVE  Registry!Commit(l)
<1>1. lpc[l] = "drafted" /\ todo[l] = {}
  BY DEF Publish, LoadProgress
<1>2. files[l] # None /\ files[l] \subseteq Valid /\ Registry!Registers(files[l], parsed[l])
  <2>1. files[l] \ todo[l] = files[l]
    BY <1>1
  <2> QED
    BY <1>1, <2>1, NoneIsFresh DEF LoadProgress
<1>3. parsed[l] \in Registry!Models
  BY DEF IInv, TypeOK, Models, Registry!Models
<1>4. heap'[state'].models = Registry!Overlay(heap[state].models, parsed[l])
  BY Published DEF Overlay, Registry!Overlay
<1>5. Outcome[l] = "pending" /\ Outcome' = [Outcome EXCEPT ![l] = "loaded"]
  BY DEF Publish, Outcome, IInv, TypeOK
<1>6. View' = View
  <2>1. \A r \in Reader : held[r] # 0 => heap'[held[r]].models = heap[held[r]].models
    BY Published DEF IInv, TypeOK
  <2> QED
    BY <2>1 DEF View, Publish, readVars
<1>7. files' = files
  BY DEF Publish
<1> QED
  BY <1>2, <1>3, <1>4, <1>5, <1>6, <1>7 DEF Registry!Commit, Outcome, View

(* The other steps of a loader are invisible. *)
LEMMA LoaderStutters ==
  ASSUME IInv, LoadProgress, NEW l \in Loader,
         ReadDoc(l) \/ RequestWrite(l) \/ AcquireWrite(l) \/ CloneInsert(l)
  PROVE  UNCHANGED Registry!vars
<1>1. UNCHANGED <<files, heap, state, View>>
  BY DEF ReadDoc, RequestWrite, AcquireWrite, CloneInsert, readVars, View
<1>2. Outcome' = Outcome
  <2>1. PICK pc \in {"reading", "waiting", "locked", "drafted"} : lpc' = [lpc EXCEPT ![l] = pc]
    BY DEF ReadDoc, RequestWrite, AcquireWrite, CloneInsert, IInv, TypeOK
  <2>2. lpc[l] \in {"reading", "waiting", "locked"}
    BY DEF ReadDoc, RequestWrite, AcquireWrite, CloneInsert
  <2> QED
    BY <2>1, <2>2 DEF Outcome, IInv, TypeOK
<1> QED
  BY <1>1, <1>2 DEF Registry!vars, Outcome, View

LEMMA ReaderBeginRefines ==
  ASSUME IInv, NEW r \in Reader, BeginGuarded(r) \/ BeginSnapshot(r)
  PROVE  Registry!Open(r)
<1>1. UNCHANGED <<files, heap, state, Outcome>>
  BY DEF BeginGuarded, BeginSnapshot, loadVars, Outcome
<1>2. held' = [held EXCEPT ![r] = state] /\ held[r] = 0 /\ state # 0
  BY DEF BeginGuarded, BeginSnapshot, IInv, TypeOK, RequestHolds
<1>3. View[r] = None /\ View' = [View EXCEPT ![r] = heap[state].models]
  BY <1>1, <1>2 DEF View, IInv, TypeOK
<1> QED
  BY <1>1, <1>3 DEF Registry!Open, Outcome, View

LEMMA ReaderEndRefines ==
  ASSUME IInv, NEW r \in Reader, EndQuery(r)
  PROVE  Registry!Close(r)
<1>1. UNCHANGED <<files, heap, state, Outcome>>
  BY DEF EndQuery, loadVars, Outcome
<1>2. held' = [held EXCEPT ![r] = 0] /\ held[r] \in DOMAIN heap /\ held[r] # 0
  BY DEF EndQuery, IInv, TypeOK, RequestHolds
<1>3. heap[held[r]].models # None
  <2>1. heap[held[r]] \in Revision
    BY <1>2 DEF IInv, TypeOK
  <2> QED
    BY <2>1, NoneIsFresh DEF Revision, Models
<1>4. View[r] # None
  BY <1>2, <1>3 DEF View
<1>5. View' = [View EXCEPT ![r] = None]
  <2>1. held \in [Reader -> Nat]
    BY DEF IInv, TypeOK
  <2> QED
    BY <1>1, <1>2, <2>1 DEF View
<1> QED
  BY <1>1, <1>4, <1>5 DEF Registry!Close, Outcome, View

LEMMA GetGraphStutters ==
  ASSUME IInv, NEW r \in Reader, GetGraph(r)
  PROVE  UNCHANGED Registry!vars
<1>1. UNCHANGED <<files, state, held, Outcome>>
  BY DEF GetGraph, CacheHit, CacheMiss, SetCache, loadVars, Outcome
<1>2. \A i \in DOMAIN heap : heap'[i].models = heap[i].models
  <2>1. CASE SetCache(r)
    BY <2>1, CellWritten
  <2>2. CASE CacheHit(r) \/ CacheMiss(r)
    BY <2>2 DEF CacheHit, CacheMiss
  <2> QED
    BY <2>1, <2>2 DEF GetGraph
<1>3. heap'[state].models = heap[state].models
  BY <1>2 DEF IInv, TypeOK
<1>4. View' = View
  BY <1>1, <1>2 DEF View, IInv, TypeOK
<1> QED
  BY <1>1, <1>3, <1>4 DEF Registry!vars, Outcome, View

(***************************************************************************)
(* StateMgr implements the registry of ModelRegistry: a load takes effect  *)
(* at its publication, whole, or not at all; a request sees the registry   *)
(* of the instant it took its Arc.                                         *)
(***************************************************************************)
THEOREM Refinement == Spec => ImplementsRegistry
<1>1. ASSUME IInv, LoadProgress, [Next]_vars
      PROVE  [Registry!Next]_(Registry!vars)
  <2>1. ASSUME NEW l \in Loader, LoaderStep(l)
        PROVE  [Registry!Next]_(Registry!vars)
    <3>1. CASE BeginYaml(l) \/ BeginDir(l)
      <4>1. PICK docs \in SUBSET Doc : Begin(l, docs)
        BY <3>1, DirsAssumption DEF BeginYaml, BeginDir
      <4> QED
        BY <1>1, <4>1, BeginRefines DEF Registry!Next
    <3>2. CASE ReadError(l)
      BY <1>1, <3>2, ReadErrorRefines DEF Registry!Next
    <3>3. CASE Publish(l)
      BY <1>1, <3>3, PublishRefines DEF Registry!Next
    <3>4. CASE ReadDoc(l) \/ RequestWrite(l) \/ AcquireWrite(l) \/ CloneInsert(l)
      BY <1>1, <3>4, LoaderStutters
    <3> QED
      BY <2>1, <3>1, <3>2, <3>3, <3>4 DEF LoaderStep
  <2>2. ASSUME NEW r \in Reader, ReaderStep(r)
        PROVE  [Registry!Next]_(Registry!vars)
    <3>1. CASE BeginGuarded(r) \/ BeginSnapshot(r)
      BY <1>1, <3>1, ReaderBeginRefines DEF Registry!Next
    <3>2. CASE GetGraph(r)
      BY <1>1, <3>2, GetGraphStutters
    <3>3. CASE EndQuery(r)
      BY <1>1, <3>3, ReaderEndRefines DEF Registry!Next
    <3>4. CASE GetDefaultModel(r)
      <4>1. UNCHANGED <<files, heap, state, lpc, held>>
        BY <3>4 DEF GetDefaultModel, loadVars
      <4> QED
        BY <4>1 DEF Registry!vars
    <3> QED
      BY <2>2, <3>1, <3>2, <3>3, <3>4 DEF ReaderStep
  <2>3. CASE UNCHANGED vars
    BY <2>3 DEF vars, loadVars, readVars, Registry!vars
  <2> QED
    BY <1>1, <2>1, <2>2, <2>3 DEF Next
<1>2. IInv /\ LoadProgress /\ [Next]_vars => [Registry!Next]_(Registry!vars)
  BY <1>1
<1>3. Init => Registry!Init
  BY InitRefines
<1> QED
  BY <1>2, <1>3, ProgressInvariance, PTL DEF Spec, ImplementsRegistry, Registry!Spec
================================================================================
