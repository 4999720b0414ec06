-------------------------------- MODULE Compiler -------------------------------
(***************************************************************************)
(* SemanticCompiler::compile (may_core/src/compiler/semantic_compiler.rs)  *)
(* from the request to the lowered, restricted query: validation           *)
(* (request_parser.rs), the metric and the names it resolves               *)
(* (metric_resolver.rs), lowering to columns (lowering.rs), row-level      *)
(* security (rls.rs) and the errors of SQL generation (dialects/core.rs).  *)
(*                                                                         *)
(* Several models are loaded, and they may give one entity, one dimension, *)
(* one measure or one metric the same name; nothing stops an entity from   *)
(* declaring a name twice.  The resolver looks a name up in the metric's   *)
(* model, lowering in an index over all models, the graph and row-level    *)
(* security in all models.                                                 *)
(*                                                                         *)
(* What other modules look into is abstract here: the joins are what       *)
(* JoinPlan promises and JoinPlanner shows, and two facts among them are   *)
(* pre-aggregated, each in a CTE, or refused (ChasmTrap).                  *)
(* Operators, literals, limits and the text of the SQL are left out.       *)
(***************************************************************************)
EXTENDS Naturals, FiniteSets, JoinPaths

CONSTANTS
  Model, Dimension, Measure, Metric, Table, Claim,
  TimeDimension,        \* the dimensions of type Time
  Granularity, DatePart, \* what a request may ask for, and what a dialect knows
  Blank,                \* a metric name of white space
  TableOf,              \* TableOf[m, e]: the table of entity e of model m
  Columns,              \* Columns[t]: the columns of table t
  ColumnOf,             \* ColumnOf[m, e, d]: the column of dimension d of that entity
  Worlds,               \* the models that may be loaded, see World
  Requests,             \* see Request
  Contexts,             \* sets of claims, or None
  None

CompilerError ==
  {"RequestParsing", "AmbiguousMetric", "MetricResolution", "UnsupportedRequestFeature",
   "GraphConstruction", "JoinResolution", "ChasmTrapHandlingFailed", "Lowering", "Rls",
   "CodeGeneration"}

Place   == Model \X Entity
Policy  == [of : Place, claim : Claim, dim : Dimension]
Request == [metric : Metric \cup {Blank}, dims : SUBSET Dimension, filters : SUBSET Dimension,
            grain : Granularity \cup {None}]

(* dims[m, e, d]: how often entity e of model m declares d.  A model that has no e: never. *)
World ==
  [entities : SUBSET Place,
   dims     : [Model \X Entity \X Dimension -> 0..2],
   measures : [Model \X Entity \X Measure -> 0..2],
   metrics  : SUBSET [model : Model, name : Metric, measure : Measure, dims : SUBSET Dimension],
   links    : SUBSET SUBSET Entity,
   policies : SUBSET Policy]

ASSUME CompilerAssumption ==
  /\ Worlds \subseteq World /\ Requests \subseteq Request
  /\ Contexts \subseteq (SUBSET Claim) \cup {None}
  /\ IsFiniteSet(Model) /\ IsFiniteSet(Entity) /\ Fact \subseteq Entity
  /\ TimeDimension \subseteq Dimension /\ DatePart \subseteq Granularity
  /\ TableOf \in [Place -> Table]
  /\ Blank \notin Metric /\ None \notin Granularity \cup CompilerError

(* A dimension is a column of its entity's table, as it is in a database the models fit. *)
ASSUME ColumnsAssumption ==
  \A w \in Worlds : \A x \in DOMAIN w.dims :
    w.dims[x] > 0 => ColumnOf[x] \in Columns[TableOf[<<x[1], x[2]>>]]

VARIABLES
  state,    \* the snapshot of the models
  request, context,
  owner,    \* the model of the metric, None before
  base,     \* the entity of its measure
  dims,     \* resolved dimensions, as <<entity, dimension>>
  rank,     \* the order in which the map of models is walked
  joined,   \* the entities in the FROM clause
  from,     \* its relations: the table, and whether under the table's own name
  facts,    \* the entities pre-aggregated, each read in a CTE instead
  columns,  \* columns[r]: the column that reference r is lowered to, a bare name
  where,    \* where[l]: the predicates at level l, a CTE's fact or "outer"
  error, pc

asked    == <<state, request, context>>
resolved == <<owner, base, dims>>
planned  == <<rank, joined, from, facts>>
written  == <<columns, where>>
cvars    == <<asked, resolved, planned, written, error, pc>>

--------------------------------------------------------------------------------
EntitiesOf(m)       == {e \in Entity : <<m, e>> \in state.entities}
Holders(m, d)       == {e \in EntitiesOf(m) : state.dims[<<m, e, d>>] > 0}
MeasureHolders(m, n) == {e \in EntitiesOf(m) : state.measures[<<m, e, n>>] > 0}
Owners              == {t.model : t \in {s \in state.metrics : s.name = request.metric}}
TheMetric           == CHOOSE t \in state.metrics : t.model = owner /\ t.name = request.metric
TheHolder(m, d)     == CHOOSE e \in Holders(m, d) : TRUE
Resolvable(m, ds)   == \A d \in ds : Cardinality(Holders(m, d)) = 1

Idle ==
  /\ owner = None /\ base = None /\ dims = {} /\ rank = <<>> /\ joined = {} /\ from = {}
  /\ facts = {} /\ columns = <<>> /\ where = <<>> /\ error = None

Fail(e)           == error' = e /\ pc' = "failed"
Go(s)             == pc' = s /\ UNCHANGED error
Check(bad, e, s)  == IF bad THEN Fail(e) ELSE Go(s)

(* STEP 1. *)
ValidateRequest ==
  /\ pc = "validating"
  /\ Check(\/ request.metric = Blank
           \/ Owners = {}
           \/ \E d \in request.dims : \A m \in Model : Holders(m, d) = {},
           "RequestParsing", "finding")
  /\ UNCHANGED <<asked, resolved, planned, written>>

(* STEP 2. *)
FindModel ==
  /\ pc = "finding"
  /\ Check(Cardinality(Owners) > 1, "AmbiguousMetric", "resolving")
  /\ owner' = IF Cardinality(Owners) > 1 THEN None ELSE CHOOSE m \in Owners : TRUE
  /\ UNCHANGED <<asked, base, dims, planned, written>>

(* STEP 3.  The metric's own dimensions must resolve even when the request replaces them. *)
ResolveMetric ==
  /\ pc = "resolving"
  /\ LET at    == MeasureHolders(owner, TheMetric.measure)
         names == IF request.dims = {} THEN TheMetric.dims ELSE request.dims
         bad   == Cardinality(at) # 1 \/ ~Resolvable(owner, TheMetric.dims \cup names)
     IN  /\ Check(bad, "MetricResolution", "truncating")
         /\ IF bad THEN UNCHANGED <<base, dims>>
            ELSE /\ base' = CHOOSE e \in at : TRUE
                 /\ dims' = {<<TheHolder(owner, d), d>> : d \in names}
  /\ UNCHANGED <<asked, owner, planned, written>>

(* The declarations of type Time of entity e of model m. *)
TimeDeclarations(m, e) == {t \in TimeDimension \X (1..2) : t[2] <= state.dims[<<m, e, t[1]>>]}

Truncate ==
  /\ pc = "truncating"
  /\ Check(request.grain # None /\ Cardinality(TimeDeclarations(owner, base)) # 1,
           "UnsupportedRequestFeature", "graph")
  /\ UNCHANGED <<asked, resolved, planned, written>>

(* STEP 4.  The snapshot's map has an order, and keeps it. *)
GetGraph ==
  /\ pc = "graph"
  /\ LET known == {p[2] : p \in state.entities}
         bad   == \E l \in state.links : ~(l \subseteq known)
     IN  /\ Check(bad, "GraphConstruction", "joining")
         /\ IF bad THEN UNCHANGED rank
            ELSE /\ rank' \in [Model -> 1..Cardinality(Model)]
                 /\ \A m, n \in Model : rank'[m] = rank'[n] => m = n
  /\ joined' = {base}
  /\ UNCHANGED <<asked, resolved, from, facts, written>>

(* Mutant: the joins are planned for the metric's own dimensions. *)
DefaultsToJoin == {TheHolder(owner, d) : d \in TheMetric.dims} \ {base}

ToJoin == {d[1] : d \in dims} \ {base}

(* STEP 5 and 6: a path to the entity of each dimension. *)
Join ==
  /\ pc = "joining"
  /\ LET bad == \E e \in ToJoin : Ways(state.links, base, e) = {}
     IN  /\ Check(bad, "JoinResolution", "assembling")
         /\ IF bad THEN UNCHANGED joined ELSE joined' \in Plans(state.links, base, ToJoin)
  /\ UNCHANGED <<asked, resolved, rank, from, facts, written>>

--------------------------------------------------------------------------------
Declaring(e)  == {m \in Model : <<m, e>> \in state.entities}
NodeOf(e)     == CHOOSE m \in Declaring(e) : \A n \in Declaring(e) : rank[n] <= rank[m]
FoundIn(e)    == CHOOSE m \in Declaring(e) : \A n \in Declaring(e) : rank[m] <= rank[n]

(* Of the models that declare e the last has its node in the graph, and find_entity takes the first. *)
NodeTable(e)  == IF e = base THEN TableOf[<<owner, e>>] ELSE TableOf[<<NodeOf(e), e>>]
FoundTable(e) == TableOf[<<FoundIn(e), e>>]

Relation(e, plain) == [entity |-> e, table |-> NodeTable(e), plain |-> plain]

(* STEP 7 to 10: the first relation on a table, the base if it is one, has the table's own name. *)
Assemble ==
  /\ pc = "assembling"
  /\ \E first \in Plainly([e \in joined |-> NodeTable(e)], base, joined) :
       from' = {Relation(e, e \in first) : e \in joined}
  /\ Check(~Resolvable(owner, request.filters), "MetricResolution", "facts")
  /\ UNCHANGED <<asked, resolved, rank, joined, facts, written>>

(* The chasm-trap rewrite, or its refusal of a link or a dimension that is not there. *)
PreAggregate ==
  /\ pc = "facts"
  /\ \/ Go("lowering") /\ facts' = IF Several(joined) THEN joined \cap Fact ELSE {}
     \/ Several(joined) /\ Fail("ChasmTrapHandlingFailed") /\ UNCHANGED facts
  /\ UNCHANGED <<asked, resolved, rank, joined, from, written>>

(* The references left to lower; those to a fact that is pre-aggregated are columns already. *)
FilterRefs == {<<TheHolder(owner, d), d>> : d \in request.filters}
GrainRefs  == IF request.grain = None THEN {} ELSE {<<base, t[1]>> : t \in TimeDeclarations(owner, base)}
DimRefs    == {r \in dims \cup FilterRefs : r[1] \notin facts} \cup GrainRefs

(* dim_index: what the entities of that name declare under the name, in any model. *)
Index(r) == {h \in Model \X (1..2) : h[2] <= state.dims[<<h[1], r[1], r[2]>>]}

(* Mutant: of several models the first found. *)
HitsOfFirst(r) == {h \in Index(r) : \A g \in Index(r) : rank[h[1]] <= rank[g[1]]}

Hits(r) == {h \in Index(r) : h[1] = owner}

(* STEP 11: of each reference's one declaration nothing stays but the column's name. *)
Lower ==
  /\ pc = "lowering"
  /\ LET bad == \/ \E r \in DimRefs : Cardinality(Hits(r)) # 1
                \/ base \notin facts /\ state.measures[<<owner, base, TheMetric.measure>>] # 1
     IN  /\ Check(bad, "Lowering", "restricting")
         /\ IF bad THEN UNCHANGED columns
            ELSE columns' = [r \in DimRefs |->
                               ColumnOf[<<(CHOOSE h \in Hits(r) : TRUE)[1], r[1], r[2]>>]]
  /\ UNCHANGED <<asked, resolved, planned, where>>

--------------------------------------------------------------------------------
(* The queries of the SQL: the outer one and a CTE for each fact, and the tables each reads. *)
Levels == {"outer"} \cup facts

Replaced(r)   == r.plain /\ \E f \in facts : FoundTable(f) = r.table
Relations(l)  == IF l = "outer" THEN {r \in from : ~Replaced(r)} 
                ELSE {[entity |-> l, table |-> FoundTable(l), plain |-> TRUE]}

(* Mutant: only the policies of the metric's model. *)
OwnPolicies(t) == {p \in state.policies : p.of[1] = owner /\ TableOf[p.of] = t}

(* find_entities_for_table: an entity of any model. *)
PoliciesOn(t) == {p \in state.policies : TableOf[p.of] = t}

(* A claim the caller has not, or not of the dimension's type, makes the predicate 1 = 0. *)
Predicate(p) == [policy |-> p, denies |-> p.claim \notin context]

(* collect_table_names leaves aliased relations out. *)
PoliciesAt(l) == UNION {PoliciesOn(r.table) : r \in {s \in Relations(l) : s.plain}}

(* RlsInjector::inject, at every level; skipped without a context. *)
Inject ==
  /\ pc = "restricting"
  /\ IF context = None
     THEN Go("generating") /\ where' = [l \in Levels |-> {}]
     ELSE IF \E l \in Levels : \E p \in PoliciesAt(l) : state.dims[<<p.of[1], p.of[2], p.dim>>] = 0
          THEN Fail("Rls") /\ UNCHANGED where
          ELSE Go("generating") /\ where' = [l \in Levels |-> {Predicate(p) : p \in PoliciesAt(l)}]
  /\ UNCHANGED <<asked, resolved, planned, columns>>

(* STEP 12: of what is left only a granularity may be unknown to the dialect. *)
Generate ==
  /\ pc = "generating"
  /\ Check(request.grain # None /\ request.grain \notin DatePart, "CodeGeneration", "compiled")
  /\ UNCHANGED <<asked, resolved, planned, written>>

Compile ==
  \/ ValidateRequest \/ FindModel \/ ResolveMetric \/ Truncate \/ GetGraph \/ Join
  \/ Assemble \/ PreAggregate \/ Lower \/ Inject \/ Generate

--------------------------------------------------------------------------------
CompilerTypeOK ==
  /\ request \in Requests
  /\ owner \in Model \cup {None} /\ base \in Entity \cup {None}
  /\ dims \subseteq Entity \X Dimension
  /\ joined \subseteq Entity /\ facts \subseteq joined \cap Fact
  /\ \A s \in from : s.entity \in joined /\ s.plain \in BOOLEAN
  /\ DOMAIN columns \subseteq Entity \X Dimension
  /\ error \in CompilerError \cup {None}

Compiled == pc = "compiled"

(* What lowering fails for. *)
DeclaredTwice ==
  \/ \E r \in DimRefs : state.dims[<<owner, r[1], r[2]>>] = 2
  \/ state.measures[<<owner, base, TheMetric.measure>>] = 2

(***************************************************************************)
(* Every dimension in SELECT and GROUP BY, and the one that is truncated,  *)
(* belongs to a relation of the FROM clause, and a pre-aggregated fact to  *)
(* one that its CTE replaces; this if no two models give an entity one     *)
(* name (graph/engine.rs keeps the last of them and find_entity takes the  *)
(* first) and no CTE reads another relation's table.  (A filter's need     *)
(* not: STEP 9.5 resolves filters after the joins and adds none.)          *)
(***************************************************************************)
FactsOwnTheirTable == \A f \in facts, e \in joined : NodeTable(e) = FoundTable(f) => e = f
NamesUnique        == \A e \in Entity : Cardinality(Declaring(e)) <= 1

SelectedIsJoined ==
  Compiled =>
    \A r \in dims \cup GrainRefs : \E s \in from :
      /\ s.entity = r[1]
      /\ r[1] \in facts /\ NamesUnique /\ FactsOwnTheirTable => Replaced(s)

(***************************************************************************)
(* The names of the resolver, of lowering and of the graph are looked up   *)
(* in one model, in an index over all of them and in the last that has the *)
(* entity; the name that comes of it is bare (lowering.rs:114).  Still, a  *)
(* reference to an entity that is joined and not pre-aggregated can be     *)
(* read from that entity's own relation: if the database takes the query,  *)
(* the name is not silently another relation's.  That it is not ambiguous  *)
(* is not promised, see ChasmTrap.  Premise: the entity's node is on the   *)
(* table the metric's model gives it, and no CTE takes that table's place. *)
(***************************************************************************)
OnOwnTable(e) ==
  NodeTable(e) = TableOf[<<owner, e>>] /\ \A f \in facts : FoundTable(f) # NodeTable(e)

OwnColumnRead ==
  Compiled =>
    \A r \in DimRefs :
      r[1] \in joined \ facts /\ OnOwnTable(r[1]) =>
        \E s \in Relations("outer") : s.entity = r[1] /\ columns[r] \in Columns[s.table]

(***************************************************************************)
(* "For every base table in each query's FROM clause, each matching        *)
(* RlsPolicy adds AND <column> = <value>" (rls.rs:164), 1 = 0 without the  *)
(* claim, though a relation under an alias is not looked at: the builder   *)
(* aliases the second relation on a table, never the first.  Premise: no   *)
(* CTE reads the table of another fact's or entity's relation, as the      *)
(* first relation on it is then in the CTE alone.                          *)
(***************************************************************************)
PoliciesApplied ==
  Compiled /\ context # None /\ FactsOwnTheirTable =>
    \A l \in Levels : \A r \in Relations(l) : \A p \in state.policies :
      TableOf[p.of] = r.table =>
        \E w \in where[l] : w.policy = p /\ (p.claim \notin context => w.denies)
================================================================================
