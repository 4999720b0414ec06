----------------------------- MODULE SemanticState -----------------------------
(***************************************************************************)
(* may_core/src/models/state.rs: StateMgr, the copy-on-write registry of   *)
(* semantic models, and SemanticState with its lazily built join graph.    *)
(*                                                                         *)
(* StateMgr is Arc<RwLock<Arc<SemanticState>>>.  A load parses and         *)
(* validates outside the lock, then under the write lock clones the        *)
(* current state, inserts the parsed models into the clone and publishes   *)
(* it as a new Arc.  Readers work on an Arc they took under the read lock: *)
(* the REST handler keeps the read guard for the whole compilation, the    *)
(* wire-protocol handler releases it at once (StateMgr::snapshot), and     *)
(* reads the registry again to find the data source for what it compiled.  *)
(*                                                                         *)
(* Every Arc<SemanticState> ever published is a "revision", an element of  *)
(* the sequence heap; `state` is the one the lock protects.  Revisions are *)
(* never removed from heap, which stands for readers that still hold them. *)
(*                                                                         *)
(* A panic under the write guard (which would poison the lock) can only    *)
(* come from a failed allocation and is not modelled, nor are the          *)
(* LockError returns that follow from it.                                  *)
(***************************************************************************)
EXTENDS Naturals, Sequences

CONSTANTS
  Loader,    \* threads that call load_from_yaml or load_dir, once each
  Reader,    \* threads that compile requests, over and over
  Name,      \* model names, the keys of SemanticState.models
  Entity,    \* entity names
  Doc,       \* YAML documents a loader may be given or find on disk
  Valid,     \* those that parse and validate
  NameOf,    \* NameOf[d]: the `name` field of d
  Entities,  \* Entities[d]: the names of the entities d declares
  Joins,     \* Joins[d]: the <<left_entity, right_entity>> pairs d declares
  Dirs,      \* what a path given to load_dir may hold, each a set of documents
  WriterPreferred, \* TRUE when the RwLock admits no reader while a writer waits
  None       \* an absent key, an empty cache cell, an unheld lock

ASSUME DocAssumption ==
  /\ Valid \subseteq Doc
  /\ NameOf   \in [Valid -> Name]
  /\ Entities \in [Valid -> SUBSET Entity]
  /\ Joins    \in [Valid -> SUBSET (Entity \X Entity)]
ASSUME DirsAssumption == Dirs \subseteq SUBSET Doc
ASSUME WriterPreferredAssumption == WriterPreferred \in BOOLEAN
ASSUME NoneIsFresh ==
  /\ None \notin Doc \cup Loader
  /\ \A docs \in SUBSET Doc : docs # None
  /\ None \notin [node : SUBSET Entity, edge : SUBSET (Entity \X Entity)]
  /\ None \notin [Name -> Valid \cup {None}]

VARIABLES
  heap,      \* heap[i]: revision i, its models and its graph_cache cell
  state,     \* the revision the RwLock protects
  writer,    \* the loader that holds the write lock, or None
  guard,     \* the readers that hold a read guard
  lpc,       \* control state of each loader
  files,     \* files[l]: the documents loader l was asked to load, or None
  todo,      \* todo[l]: those it has still to read
  parsed,    \* parsed[l]: the models l has parsed, the last of a name winning
  draft,     \* draft[l]: `next`, the clone l is filling under the lock
  rpc,       \* control state of each reader
  held,      \* held[r]: the revision reader r works on, 0 for none
  val,       \* val[r]: the graph get_graph built or found for r
  source     \* source[r]: the data source a compiled query is sent to, or None

loadVars == <<lpc, files, todo, parsed, draft>>
readVars == <<rpc, held, val, source>>
vars     == <<heap, state, writer, guard, loadVars, readVars>>

Models == [Name -> Valid \cup {None}]
Empty  == [n \in Name |-> None]

--------------------------------------------------------------------------------
(***************************************************************************)
(* build_semantic_graph: one node per declared entity, two edges per join. *)
(* It fails with MissingNode when a join names an entity no loaded model   *)
(* declares.  Columns, tables and the choice between models that declare   *)
(* the same entity name are left to JoinPlanner.tla.                       *)
(***************************************************************************)
Loaded(m)    == {m[n] : n \in Name} \ {None}
NodesOf(m)   == UNION {Entities[d] : d \in Loaded(m)}
JoinsOf(m)   == UNION {Joins[d] : d \in Loaded(m)}
Builds(m)    == JoinsOf(m) \subseteq NodesOf(m) \X NodesOf(m)
Graph(m)     == [node |-> NodesOf(m),
                 edge |-> JoinsOf(m) \cup {<<j[2], j[1]>> : j \in JoinsOf(m)}]

GraphType    == [node : SUBSET Entity, edge : SUBSET (Entity \X Entity)]
Revision     == [models : Models, graph : GraphType \cup {None}]

(***************************************************************************)
(* HashMap::insert of every parsed model, in order.                        *)
(***************************************************************************)
Overlay(m, p) == [n \in Name |-> IF p[n] = None THEN m[n] ELSE p[n]]

Insert(rev, p) == [models |-> Overlay(rev.models, p), graph |-> rev.graph]

(***************************************************************************)
(* Clone for SemanticState: the models are copied, the cache cell is new.  *)
(***************************************************************************)
Clone(rev) == [models |-> rev.models, graph |-> None]

Init ==
  /\ heap   = <<[models |-> Empty, graph |-> None]>>
  /\ state  = 1
  /\ writer = None
  /\ guard  = {}
  /\ lpc    = [l \in Loader |-> "idle"]
  /\ files  = [l \in Loader |-> None]
  /\ todo   = [l \in Loader |-> {}]
  /\ parsed = [l \in Loader |-> Empty]
  /\ draft  = [l \in Loader |-> None]
  /\ rpc    = [r \in Reader |-> "idle"]
  /\ held   = [r \in Reader |-> 0]
  /\ val    = [r \in Reader |-> None]
  /\ source = [r \in Reader |-> None]

--------------------------------------------------------------------------------
(***************************************************************************)
(* Loaders.                                                                *)
(***************************************************************************)

Begin(l, docs) ==
  /\ lpc[l] = "idle"
  /\ files' = [files EXCEPT ![l] = docs]
  /\ todo'  = [todo EXCEPT ![l] = docs]
  /\ lpc'   = [lpc EXCEPT ![l] = "reading"]
  /\ UNCHANGED <<heap, state, writer, guard, parsed, draft, readVars>>

(* load_from_yaml is handed one document, load_dir the path of one file. *)
BeginYaml(l) == \E d \in Doc : Begin(l, {d})

(* load_dir collects the entries of a directory. *)
BeginDir(l) == \E docs \in Dirs : Begin(l, docs)

(* The next file, in whatever order the directory lists them, is parsed and validated. *)
ReadDoc(l) ==
  /\ lpc[l] = "reading"
  /\ \E d \in todo[l] \cap Valid :
       /\ parsed' = [parsed EXCEPT ![l][NameOf[d]] = d]
       /\ todo'   = [todo EXCEPT ![l] = @ \ {d}]
  /\ UNCHANGED <<heap, state, writer, guard, lpc, files, draft, readVars>>

(* Mutant: a file that fails is skipped and the load goes on. *)
ReadErrorSkips(l) ==
  /\ lpc[l] = "reading"
  /\ \E d \in todo[l] : todo' = [todo EXCEPT ![l] = @ \ {d}]
  /\ UNCHANGED <<heap, state, writer, guard, lpc, files, parsed, draft, readVars>>

(***************************************************************************)
(* The directory or a file cannot be read, or a file does not parse or     *)
(* validate: the load returns the error before it asks for the lock.       *)
(***************************************************************************)
ReadError(l) ==
  /\ lpc[l] = "reading"
  /\ todo[l] # {} \/ files[l] = {}
  /\ lpc' = [lpc EXCEPT ![l] = "failed"]
  /\ UNCHANGED <<heap, state, writer, guard, files, todo, parsed, draft, readVars>>

(* Everything is parsed: the loader calls self.state.write(). *)
RequestWrite(l) ==
  /\ lpc[l] = "reading"
  /\ todo[l] = {}
  /\ lpc' = [lpc EXCEPT ![l] = "waiting"]
  /\ UNCHANGED <<heap, state, writer, guard, files, todo, parsed, draft, readVars>>

(* ... and is granted the lock. *)
AcquireWrite(l) ==
  /\ lpc[l] = "waiting"
  /\ writer = None
  /\ guard = {}
  /\ writer' = l
  /\ lpc'    = [lpc EXCEPT ![l] = "locked"]
  /\ UNCHANGED <<heap, state, guard, files, todo, parsed, draft, readVars>>

(* Mutant: the models parsed replace those registered. *)
CloneAfresh(l) ==
  /\ lpc[l] = "locked"
  /\ draft' = [draft EXCEPT ![l] = Insert([models |-> Empty, graph |-> None], parsed[l])]
  /\ lpc' = [lpc EXCEPT ![l] = "drafted"]
  /\ UNCHANGED <<heap, state, writer, guard, files, todo, parsed, readVars>>

(* The current state is cloned and the parsed models are inserted in the clone. *)
CloneInsert(l) ==
  /\ lpc[l] = "locked"
  /\ draft' = [draft EXCEPT ![l] = Insert(Clone(heap[state]), parsed[l])]
  /\ lpc' = [lpc EXCEPT ![l] = "drafted"]
  /\ UNCHANGED <<heap, state, writer, guard, files, todo, parsed, readVars>>

(* Mutant: the state is changed in place instead of replaced. *)
PublishInPlace(l) ==
  /\ lpc[l] = "drafted"
  /\ heap'   = [heap EXCEPT ![state] = draft[l]]
  /\ writer' = None
  /\ lpc'    = [lpc EXCEPT ![l] = "loaded"]
  /\ draft'  = [draft EXCEPT ![l] = None]
  /\ UNCHANGED <<state, guard, files, todo, parsed, readVars>>

(* The clone becomes the current state and the write guard is dropped. *)
Publish(l) ==
  /\ lpc[l] = "drafted"
  /\ heap'   = Append(heap, draft[l])
  /\ state'  = Len(heap) + 1
  /\ writer' = None
  /\ lpc'    = [lpc EXCEPT ![l] = "loaded"]
  /\ draft'  = [draft EXCEPT ![l] = None]
  /\ UNCHANGED <<guard, files, todo, parsed, readVars>>

--------------------------------------------------------------------------------
(***************************************************************************)
(* Readers.                                                                *)
(***************************************************************************)

(* self.state.read() is granted. *)
MayRead ==
  /\ writer = None
  /\ WriterPreferred => \A l \in Loader : lpc[l] # "waiting"

(* query_handler: the read guard lives until the compilation has ended. *)
BeginGuarded(r) ==
  /\ rpc[r] = "idle"
  /\ MayRead
  /\ guard' = guard \cup {r}
  /\ held'  = [held EXCEPT ![r] = state]
  /\ rpc'   = [rpc EXCEPT ![r] = "checking"]
  /\ UNCHANGED <<heap, state, writer, loadVars, val, source>>

(* StateMgr::snapshot: the Arc is cloned and the guard dropped at once. *)
BeginSnapshot(r) ==
  /\ rpc[r] = "idle"
  /\ MayRead
  /\ held' = [held EXCEPT ![r] = state]
  /\ rpc'  = [rpc EXCEPT ![r] = "checking"]
  /\ UNCHANGED <<heap, state, writer, guard, loadVars, val, source>>

(* Mutant: the graph is taken from the current state, not from the Arc held. *)
CacheHitOfCurrent(r) ==
  /\ rpc[r] = "checking"
  /\ heap[state].graph # None
  /\ val' = [val EXCEPT ![r] = heap[state].graph]
  /\ rpc' = [rpc EXCEPT ![r] = "answered"]
  /\ UNCHANGED <<heap, state, writer, guard, loadVars, held, source>>

(* get_graph finds the cell set. *)
CacheHit(r) ==
  /\ rpc[r] = "checking"
  /\ heap[held[r]].graph # None
  /\ val' = [val EXCEPT ![r] = heap[held[r]].graph]
  /\ rpc' = [rpc EXCEPT ![r] = "answered"]
  /\ UNCHANGED <<heap, state, writer, guard, loadVars, held, source>>

(* get_graph finds the cell empty and builds the graph, or fails to. *)
CacheMiss(r) ==
  /\ rpc[r] = "checking"
  /\ heap[held[r]].graph = None
  /\ IF Builds(heap[held[r]].models)
     THEN /\ val' = [val EXCEPT ![r] = Graph(heap[held[r]].models)]
          /\ rpc' = [rpc EXCEPT ![r] = "built"]
     ELSE /\ rpc' = [rpc EXCEPT ![r] = "failed"]
          /\ UNCHANGED val
  /\ UNCHANGED <<heap, state, writer, guard, loadVars, held, source>>

(* OnceLock::set keeps the first value and is ignored after that. *)
SetCache(r) ==
  /\ rpc[r] = "built"
  /\ heap' = IF heap[held[r]].graph = None
             THEN [heap EXCEPT ![held[r]].graph = val[r]]
             ELSE heap
  /\ rpc' = [rpc EXCEPT ![r] = "answered"]
  /\ UNCHANGED <<state, writer, guard, loadVars, held, val, source>>

(***************************************************************************)
(* do_query has compiled with the snapshot and asks the registry as it is  *)
(* now for the data source: get_default_model, the first of the values of  *)
(* a HashMap, whichever that is.                                           *)
(***************************************************************************)
Named(m) == {n \in Name : m[n] # None}

GetDefaultModel(r) ==
  /\ rpc[r] = "answered" /\ r \notin guard
  /\ MayRead
  /\ LET names == Named(heap[state].models) IN
       \E n \in IF names = {} THEN {None} ELSE names : source' = [source EXCEPT ![r] = n]
  /\ rpc' = [rpc EXCEPT ![r] = "routed"]
  /\ UNCHANGED <<heap, state, writer, guard, loadVars, held, val>>

(* Mutant: the read guard outlives the request. *)
EndQueryKeepsGuard(r) ==
  /\ rpc[r] \in {"checking", "answered", "routed", "failed"}
  /\ rpc'  = [rpc EXCEPT ![r] = "idle"]
  /\ held' = [held EXCEPT ![r] = 0]
  /\ val'  = [val EXCEPT ![r] = None]
  /\ source' = [source EXCEPT ![r] = None]
  /\ UNCHANGED <<heap, state, writer, guard, loadVars>>

(***************************************************************************)
(* The request ends: with SQL, with what the data source answered, with    *)
(* the error of get_graph, or with an error of compile() before or after   *)
(* it asked for the graph.  The Arc and, if there is one, the read guard   *)
(* are dropped.                                                            *)
(***************************************************************************)
EndQuery(r) ==
  /\ rpc[r] \in {"checking", "answered", "routed", "failed"}
  /\ rpc'   = [rpc EXCEPT ![r] = "idle"]
  /\ held'  = [held EXCEPT ![r] = 0]
  /\ val'   = [val EXCEPT ![r] = None]
  /\ source' = [source EXCEPT ![r] = None]
  /\ guard' = guard \ {r}
  /\ UNCHANGED <<heap, state, writer, loadVars>>

--------------------------------------------------------------------------------
LoaderStep(l) ==
  \/ BeginYaml(l) \/ BeginDir(l) \/ ReadDoc(l) \/ ReadError(l)
  \/ RequestWrite(l) \/ AcquireWrite(l) \/ CloneInsert(l) \/ Publish(l)

GetGraph(r)   == CacheHit(r) \/ CacheMiss(r) \/ SetCache(r)
ReaderStep(r) ==
  \/ BeginGuarded(r) \/ BeginSnapshot(r) \/ GetGraph(r) \/ GetDefaultModel(r)
  \/ EndQuery(r)

Next ==
  \/ \E l \in Loader : LoaderStep(l)
  \/ \E r \in Reader : ReaderStep(r)

Spec == Init /\ [][Next]_vars

(***************************************************************************)
(* A thread that runs is scheduled again, and a request that has begun     *)
(* ends.  Nothing forces a load or a request to begin.  Weak fairness of   *)
(* AcquireWrite says no more than that a free lock is given to somebody    *)
(* who waits for it; that the lock ever becomes free is the business of    *)
(* WriterPreferred.                                                        *)
(***************************************************************************)
Fairness ==
  /\ \A l \in Loader :
       /\ WF_vars(ReadDoc(l) \/ ReadError(l) \/ RequestWrite(l))
       /\ WF_vars(AcquireWrite(l) \/ CloneInsert(l) \/ Publish(l))
  /\ \A r \in Reader : WF_vars(GetGraph(r)) /\ WF_vars(EndQuery(r))

FairSpec == Spec /\ Fairness
--------------------------------------------------------------------------------
TypeOK ==
  /\ heap   \in Seq(Revision)
  /\ state  = Len(heap)
  /\ state  > 0
  /\ writer \in Loader \cup {None}
  /\ guard  \in SUBSET Reader
  /\ lpc    \in [Loader -> {"idle", "reading", "waiting", "locked", "drafted",
                         "loaded", "failed"}]
  /\ files  \in [Loader -> (SUBSET Doc) \cup {None}]
  /\ todo   \in [Loader -> SUBSET Doc]
  /\ parsed \in [Loader -> Models]
  /\ draft  \in [Loader -> Revision \cup {None}]
  /\ rpc    \in [Reader -> {"idle", "checking", "built", "answered", "routed", "failed"}]
  /\ held   \in [Reader -> 0..Len(heap)]
  /\ val    \in [Reader -> GraphType \cup {None}]
  /\ source \in [Reader -> Name \cup {None}]

(***************************************************************************)
(* A revision's cached graph is the graph of that revision's own models:   *)
(* no load leaves the graph of older models in the cache it publishes      *)
(* (Clone, state.rs:43-52, and get_graph, state.rs:60-68).                 *)
(***************************************************************************)
CacheCoherent ==
  \A i \in DOMAIN heap :
    heap[i].graph # None =>
      /\ Builds(heap[i].models)
      /\ heap[i].graph = Graph(heap[i].models)

(***************************************************************************)
(* A request is compiled with the graph of the revision it holds, whoever  *)
(* built it and however many loads were published meanwhile.               *)
(***************************************************************************)
GraphOfHeldRevision ==
  \A r \in Reader :
    rpc[r] \in {"built", "answered"} =>
      /\ held[r] # 0
      /\ val[r] = Graph(heap[held[r]].models)

(***************************************************************************)
(* do_query reads the registry twice (handler.rs:243 and 325), and loads   *)
(* are published in between: a query that was compiled for a model is      *)
(* still given the name of a registered one, never the error "No semantic  *)
(* model loaded", and that of a model it may have been compiled for if     *)
(* only one is registered.  Where several are, the name may be any of      *)
(* theirs, a model's loaded since included.                                *)
(***************************************************************************)
QueryRouted ==
  \A r \in Reader : rpc[r] = "routed" =>
    LET then == Named(heap[held[r]].models)
        now  == Named(heap[state].models)
    IN  then # {} =>
          /\ source[r] \in now
          /\ \A n \in Name : now = {n} => source[r] \in then

(***************************************************************************)
(* What a loader is about to publish is the current state plus its own     *)
(* models: no other load slips in between its clone and its publication,   *)
(* so no load is lost (state.rs:111-114, 147-152).                         *)
(***************************************************************************)
DraftExtendsCurrent ==
  \A l \in Loader :
    lpc[l] = "drafted" =>
      draft[l] = [models |-> Overlay(heap[state].models, parsed[l]), graph |-> None]

(***************************************************************************)
(* A published revision never changes under the readers that hold it: its  *)
(* models stay, and its cache cell is written at most once.                *)
(***************************************************************************)
RevisionsImmutable ==
  [][\A i \in DOMAIN heap :
       /\ i \in DOMAIN heap'
       /\ heap'[i].models = heap[i].models
       /\ heap[i].graph # None => heap'[i].graph = heap[i].graph]_heap

(***************************************************************************)
(* A name that is registered stays registered: loads add and replace,      *)
(* none removes, and no load undoes another's.                             *)
(***************************************************************************)
NamesPersist ==
  [][\A n \in Name :
       heap[state].models[n] # None => heap'[state'].models[n] # None]_<<heap, state>>

(***************************************************************************)
(* Every load that begins ends, though requests keep coming and hold the   *)
(* read guard while they compile, if the lock prefers writers.             *)
(***************************************************************************)
LoadsEnd == \A l \in Loader : lpc[l] = "reading" ~> lpc[l] \in {"loaded", "failed"}

(***************************************************************************)
(* The code implements the registry of ModelRegistry.tla: a load takes     *)
(* effect at its publication, whole, or not at all; a request sees the     *)
(* registry of the instant it took its Arc.                                *)
(***************************************************************************)
Registry == INSTANCE ModelRegistry WITH
  models  <- heap[state].models,
  request <- files,
  outcome <- [l \in Loader |-> IF lpc[l] \in {"loaded", "failed"} THEN lpc[l]
                                                                  ELSE "pending"],
  view    <- [r \in Reader |-> IF held[r] = 0 THEN None ELSE heap[held[r]].models]

ImplementsRegistry == Registry!Spec
================================================================================
