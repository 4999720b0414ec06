------------------------------ MODULE JoinPlanner ------------------------------
(***************************************************************************)
(* How the compiler turns the dimensions of a request into the FROM clause *)
(* (may_core/src): the join graph (graph/engine.rs), the search for join   *)
(* paths (graph/resolver.rs), their merge into one list of joins           *)
(* (compiler/semantic_compiler.rs, STEP 5 and 6), the fan-out verdict      *)
(* (compiler/fanout.rs) and the aliased FROM clause (ast/builder.rs).      *)
(*                                                                         *)
(* One behaviour is one compilation: the declared joins and the entity of  *)
(* the measure are chosen at the start; the dimensions, any number of      *)
(* them, are chosen as the loop comes to them.  Nothing bounds a request.  *)
(*                                                                         *)
(* Entity names are taken to be unique across models, and every entity of  *)
(* a request is in the graph, so TableNotFound does not arise; BrokenPath  *)
(* cannot, a path being made of edges.  Join types are not modelled: the   *)
(* reverse edge keeps the declared type.  The debug assertions of the      *)
(* builder are off, as in a release build; HopsChain states the second.    *)
(***************************************************************************)
EXTENDS Naturals, Sequences, FiniteSets

CONSTANTS
  Entity,      \* entity names
  Table,       \* physical tables
  Column,      \* column names
  TableOf,     \* TableOf[e]: the table of entity e; entities may share one
  KeyOf,       \* KeyOf[e]: the primary_key column of e
  Fact,        \* the entities of type Fact
  Declared,    \* join declarations the loaded models may hold
  Numbered,    \* Numbered[t][n]: the identifier format!("{t}_{n}")
  None         \* no entity, no alias, no column, no verdict yet

Hop == [left : Entity, right : Entity, lcol : Column, rcol : Column]

ASSUME EntityAssumption ==
  /\ TableOf \in [Entity -> Table]
  /\ KeyOf \in [Entity -> Column]
  /\ Fact \subseteq Entity
  /\ IsFiniteSet(Entity)
ASSUME DeclaredAssumption == Declared \subseteq Hop
ASSUME NoneAssumption == None \notin Entity \cup Column
\* A table may be numbered as often as there are entities that could share it.
ASSUME NumberedAssumption == \A t \in Table : 1..Cardinality(Entity) \subseteq DOMAIN Numbered[t]

VARIABLES
  declared,    \* the joins the loaded models declare
  base,        \* the entity of the measure
  pred,        \* the search tree of astar from base, see SearchTrees
  seen,        \* the entities of the dimensions treated so far
  path,        \* the nodes of the current path, from its end while it is
               \* traced back, then those still to be walked
  joins,       \* all_joins
  verdict,     \* what FanOutDetector::classify said, None before
  from,        \* the relations of the FROM clause, the base first
  pc           \* control state

inputs == <<declared, base, pred>>
vars   == <<inputs, seen, path, joins, verdict, from, pc>>

--------------------------------------------------------------------------------
(* Mutant: the reverse edge keeps the columns as they are declared. *)
ReverseUnswapped(j) == [left |-> j.right, right |-> j.left, lcol |-> j.lcol, rcol |-> j.rcol]

(* Mutant: a join can be walked only as it is declared. *)
EdgesAsDeclared(ds) == ds

(***************************************************************************)
(* build_semantic_graph: each declared join is an edge from left to right  *)
(* and one back, with the columns swapped.                                 *)
(***************************************************************************)
Reverse(j) == [left |-> j.right, right |-> j.left, lcol |-> j.rcol, rcol |-> j.lcol]
Edges(ds)  == ds \cup {Reverse(j) : j \in ds}

Adjacent(ds) == [a \in Entity |-> {j.right : j \in {k \in Edges(ds) : k.left = a}}]

(***************************************************************************)
(* petgraph's astar with unit costs and no heuristic.  It expands nodes in *)
(* order of their distance from the source, and the predecessor it gives a *)
(* node when it first meets it is never replaced, since no later path is   *)
(* shorter.  Every search from one source in one graph meets the nodes in  *)
(* the same order, so all the paths it returns are branches of one tree;   *)
(* how it breaks ties is its own affair.                                   *)
(***************************************************************************)
Within(ds, b) ==
  LET adj == Adjacent(ds)
      W[n \in 0..Cardinality(Entity)] ==
        IF n = 0 THEN {b} ELSE W[n - 1] \cup UNION {adj[a] : a \in W[n - 1]}
  IN  W

Dist(ds, b) ==
  LET W == Within(ds, b)
  IN  [e \in W[Cardinality(Entity)] |->
         CHOOSE n \in DOMAIN W : e \in W[n] /\ (n = 0 \/ e \notin W[n - 1])]

(* Mutant: a search that may reach a node by a longer way. *)
ReachableBy(ds, d, e) == {a \in (Entity \cap DOMAIN d) \ {e} : e \in Adjacent(ds)[a] /\ d[a] <= d[e]}

Nearer(ds, d, e) == {a \in Entity \cap DOMAIN d : e \in Adjacent(ds)[a] /\ d[e] = d[a] + 1}

SearchTrees(ds, b) ==
  LET d      == Dist(ds, b)
      nearer == [e \in Entity |-> IF e \in DOMAIN d \ {b} THEN Nearer(ds, d, e) ELSE {None}]
  IN  {p \in [Entity -> UNION {nearer[e] : e \in Entity}] :
         \A e \in Entity : p[e] \in nearer[e]}

Init ==
  /\ declared \in SUBSET Declared
  /\ base \in Entity
  /\ pred \in SearchTrees(declared, base)
  /\ seen    = {}
  /\ path    = <<>>
  /\ joins   = <<>>
  /\ verdict = None
  /\ from    = <<>>
  /\ pc      = "choosing"

--------------------------------------------------------------------------------
(***************************************************************************)
(* The next dimension of the request.  One of the measure's own entity     *)
(* needs no join; astar is run for the others.                             *)
(***************************************************************************)
TakeDimension ==
  /\ pc = "choosing"
  /\ \E e \in Entity :
       /\ seen' = seen \cup {e}
       /\ IF e = base
          THEN UNCHANGED <<path, pc>>
          ELSE path' = <<e>> /\ pc' = "tracing"
  /\ UNCHANGED <<inputs, joins, verdict, from>>

(* astar found its goal and rebuilds the path from the predecessors. *)
TraceBack ==
  /\ pc = "tracing"
  /\ pred[Head(path)] # None
  /\ path' = <<pred[Head(path)]>> \o path
  /\ pc' = IF pred[Head(path)] = base THEN "walking" ELSE "tracing"
  /\ UNCHANGED <<inputs, seen, joins, verdict, from>>

(* astar found no way: UnreachablePath, and the compilation fails. *)
FailUnreachable ==
  /\ pc = "tracing"
  /\ pred[Head(path)] = None
  /\ pc' = "unreachable"
  /\ UNCHANGED <<inputs, seen, path, joins, verdict, from>>

HasJoin(a, b) == \E k \in DOMAIN joins : joins[k].left = a /\ joins[k].right = b

(* Mutant: a hop is compared with the last one only. *)
IsLastJoin(a, b) == joins # <<>> /\ joins[Len(joins)].left = a /\ joins[Len(joins)].right = b
AddHopUnlessLast ==
  /\ pc = "walking"
  /\ \E j \in Edges(declared) :
       /\ j.left = path[1]
       /\ j.right = path[2]
       /\ joins' = IF IsLastJoin(path[1], path[2]) THEN joins ELSE Append(joins, j)
  /\ path' = Tail(path)
  /\ pc' = IF Len(path) = 2 THEN "choosing" ELSE "walking"
  /\ UNCHANGED <<inputs, seen, verdict, from>>

(* Mutant: a new hop is put before the others. *)
AddHopInFront ==
  /\ pc = "walking"
  /\ \E j \in Edges(declared) :
       /\ j.left = path[1]
       /\ j.right = path[2]
       /\ joins' = IF HasJoin(path[1], path[2]) THEN joins ELSE <<j>> \o joins
  /\ path' = Tail(path)
  /\ pc' = IF Len(path) = 2 THEN "choosing" ELSE "walking"
  /\ UNCHANGED <<inputs, seen, verdict, from>>

(***************************************************************************)
(* The next hop of the path joins the list unless a join of the same two   *)
(* entities is there.  Between two nodes with several edges find_edge      *)
(* takes the one its adjacency list has first.                             *)
(***************************************************************************)
AddHop ==
  /\ pc = "walking"
  /\ \E j \in Edges(declared) :
       /\ j.left = path[1]
       /\ j.right = path[2]
       /\ joins' = IF HasJoin(path[1], path[2]) THEN joins ELSE Append(joins, j)
  /\ path' = Tail(path)
  /\ pc' = IF Len(path) = 2 THEN "choosing" ELSE "walking"
  /\ UNCHANGED <<inputs, seen, verdict, from>>

--------------------------------------------------------------------------------
(* The entities of the path, base first, as classify and the builder see them. *)
PathEntities == <<base>> \o [k \in DOMAIN joins |-> joins[k].right]

Verdict == {"PureDimension", "SingleFact", "MultiFactJoin"}

(* Mutant: only the hops are counted, the base forgotten. *)
ClassifyHops(entities) ==
  LET facts == Cardinality({k \in 2..Len(entities) : entities[k] \in Fact})
  IN  CASE facts = 0 -> "PureDimension"
        [] facts = 1 -> "SingleFact"
        [] OTHER     -> "MultiFactJoin"

(* FanOutDetector::classify: the number of facts met, counted up to two. *)
Classify(entities) ==
  LET facts == Cardinality({k \in DOMAIN entities : entities[k] \in Fact})
  IN  CASE facts = 0 -> "PureDimension"
        [] facts = 1 -> "SingleFact"
        [] OTHER     -> "MultiFactJoin"

(* Mutant: every relation goes by its table's name. *)
TableNameAt(entities, k) == TableOf[entities[k]]

(***************************************************************************)
(* build_from_join_path: the first relation on a table goes by the table's *)
(* name, the next ones by a numbered alias; ON conditions name entities by *)
(* the alias last given to them.                                           *)
(***************************************************************************)
AliasAt(entities, k) ==
  LET table == TableOf[entities[k]]
      count == Cardinality({i \in 1..(k - 1) : TableOf[entities[i]] = table})
  IN  IF count = 0 THEN table ELSE Numbered[table][count]

AliasOf(entities, e) ==
  LET uses == {k \in DOMAIN entities : entities[k] = e}
  IN  IF uses = {} THEN TableOf[e]
      ELSE AliasAt(entities, CHOOSE k \in uses : \A i \in uses : i <= k)

Relation(entities, j) ==
  [entity |-> j.right,                alias  |-> AliasOf(entities, j.right),
   lalias |-> AliasOf(entities, j.left), lcol |-> j.lcol, rcol |-> j.rcol]

FromClause(entities) ==
  <<[entity |-> base, alias |-> AliasAt(entities, 1),
     lalias |-> None, lcol |-> None, rcol |-> None]>>
    \o [k \in DOMAIN joins |-> Relation(entities, joins[k])]

(* Every dimension has its path: the verdict and the FROM clause follow. *)
BuildFrom ==
  /\ pc = "choosing"
  /\ verdict' = Classify(PathEntities)
  /\ from' = FromClause(PathEntities)
  /\ pc' = "planned"
  /\ UNCHANGED <<inputs, seen, path, joins>>

Next == TakeDimension \/ TraceBack \/ FailUnreachable \/ AddHop \/ BuildFrom

Spec == Init /\ [][Next]_vars
--------------------------------------------------------------------------------
TypeOK ==
  /\ declared \subseteq Declared
  /\ base \in Entity
  /\ pred \in [Entity -> Entity \cup {None}]
  /\ seen \subseteq Entity
  /\ path \in Seq(Entity)
  /\ joins \in Seq(Hop)
  /\ verdict \in Verdict \cup {None}
  /\ pc \in {"choosing", "tracing", "walking", "planned", "unreachable"}
  /\ pc = "tracing" => Len(path) > 0
  /\ pc = "walking" => Len(path) > 1

(***************************************************************************)
(* However many dimensions share hops, an entity is joined at most once    *)
(* and the measure's entity never again (semantic_compiler.rs:154-170):    *)
(* a second copy of a relation would multiply the measure.                 *)
(***************************************************************************)
JoinedOnce ==
  /\ \A k \in DOMAIN joins : joins[k].right # base
  /\ \A i, k \in DOMAIN joins : joins[i].right = joins[k].right => i = k

(***************************************************************************)
(* A join's left side is in the FROM clause before it: an ON condition     *)
(* refers only to relations SQL has already met.                           *)
(***************************************************************************)
LeftIntroduced ==
  \A k \in DOMAIN joins :
    \/ joins[k].left = base
    \/ \E i \in 1..(k - 1) : joins[i].right = joins[k].left

(***************************************************************************)
(* "the minimum number of JOINs required to connect the source to the      *)
(* target" (resolver.rs:8-11) survives the merge: every joined entity is   *)
(* one hop farther from the base than the relation it is joined to.        *)
(***************************************************************************)
ShortestWay ==
  pc = "planned" =>
    LET d == Dist(declared, base)
    IN  \A k \in DOMAIN joins : d[joins[k].right] = d[joins[k].left] + 1

(***************************************************************************)
(* The verdict tells how many different facts are joined, so that the      *)
(* chasm-trap rewrite runs exactly when two facts meet.                    *)
(***************************************************************************)
VerdictCountsFacts ==
  pc = "planned" =>
    LET facts == Fact \cap ({base} \cup {joins[k].right : k \in DOMAIN joins})
    IN  /\ verdict = "PureDimension" <=> facts = {}
        /\ verdict = "SingleFact" <=> \E f \in facts : facts = {f}

(***************************************************************************)
(* Two relations of the FROM clause never go by one name, even when        *)
(* entities share a table, unless a table happens to be called like the    *)
(* numbered alias of another.                                              *)
(***************************************************************************)
NumberedAreFresh ==
  \A t, u \in Table : \A n \in DOMAIN Numbered[t] :
    /\ Numbered[t][n] # u
    /\ \A m \in DOMAIN Numbered[u] : Numbered[t][n] = Numbered[u][m] => t = u /\ n = m

AliasesUnique ==
  NumberedAreFresh => \A i, k \in DOMAIN from : from[i].alias = from[k].alias => i = k

(***************************************************************************)
(* An ON condition compares the columns the model declares, each qualified *)
(* by the relation of the entity that owns it, in whichever direction the  *)
(* join is walked.                                                         *)
(***************************************************************************)
OnComparesDeclaredColumns ==
  \A k \in 2..Len(from) :
    \E i \in 1..(k - 1) : \E j \in declared :
      /\ from[k].lalias = from[i].alias
      /\ {<<from[i].entity, from[k].lcol>>, <<from[k].entity, from[k].rcol>>}
           = {<<j.left, j.lcol>>, <<j.right, j.rcol>>}

(***************************************************************************)
(* The plan that comes out of STEP 5 to 7: the pairs of entities there are *)
(* joins for, the entities joined and those under their table's own name.  *)
(***************************************************************************)
Links  == {{j.left, j.right} : j \in declared}
Joined == {from[k].entity : k \in DOMAIN from}
Plain  == {from[k].entity : k \in {i \in DOMAIN from : from[i].alias = TableOf[from[i].entity]}}

Plan == INSTANCE JoinPlan WITH
  links   <- Links,
  targets <- seen \ {base},
  joined  <- Joined,
  plain   <- Plain,
  several <- pc = "planned" /\ verdict = "MultiFactJoin",
  outcome <- IF pc \in {"planned", "unreachable"} THEN pc ELSE "open"

(***************************************************************************)
(* Paths searched one at a time, traced back, merged hop by hop and walked *)
(* through edges of either direction come to what JoinPlan promises, and   *)
(* what the later steps of compile are modelled to rely on: each way       *)
(* shortest, nothing joined beside the ways, one plain relation a table,   *)
(* and an error (UnreachablePath) only where there is no way at all.       *)
(***************************************************************************)
ImplementsPlan == Plan!Spec

(***************************************************************************)
(* The builder asserts "join hops must chain (prev.right == next.left)"    *)
(* (builder.rs:106-111), tables standing for entities.                     *)
(***************************************************************************)
HopsChain ==
  pc = "planned" =>
    \A k \in 1..(Len(joins) - 1) : TableOf[joins[k].right] = TableOf[joins[k + 1].left]

(***************************************************************************)
(* SingleFact: "Exactly one fact table appears in the path — no fan-out    *)
(* risk" (fanout.rs:8).  A hop cannot multiply the rows on its left when   *)
(* it is joined on the key of its right side.                              *)
(***************************************************************************)
SingleFactNoFanOut ==
  verdict = "SingleFact" => \A k \in DOMAIN joins : joins[k].rcol = KeyOf[joins[k].right]
================================================================================
