------------------------------- MODULE ChasmTrap -------------------------------
(***************************************************************************)
(* The chasm-trap rewrite (may_core/src/compiler): when the path of a      *)
(* request holds several facts, semantic_compiler.rs:323-403 picks a link  *)
(* dimension and a group key for each fact, and chasm_trap.rs replaces     *)
(* each fact's table by a CTE that groups it by its key and re-aggregates  *)
(* the measure outside.                                                    *)
(*                                                                         *)
(* One behaviour is one compilation, from the plan JoinPlanner.tla ends    *)
(* with to the rewritten and lowered query.  A query is the list of its    *)
(* CTEs and, for each clause, the references in it: the relation that      *)
(* qualifies the column, as a position in the path, or None, for lowering  *)
(* (lowering.rs:64-72, 114) leaves the column of a dimension or a measure  *)
(* bare; its name; and the declaration it stands for.  Operators,          *)
(* literals and ordering are left out.                                     *)
(*                                                                         *)
(* EmptyFactTableList and NotAQueryNode cannot be returned from here: two  *)
(* facts are in the path, and the compiler builds a Query node.  Filters   *)
(* are taken to name dimensions of entities in the path.                   *)
(***************************************************************************)
EXTENDS Naturals, Sequences, FiniteSets

CONSTANTS
  Entity,     \* entity names
  Fact,       \* those of type Fact
  Table,      \* physical tables
  TableOf,    \* TableOf[e]: the table of entity e
  CteName,    \* CteName[t]: agg_alias, which drops the schema of t
  Column,     \* column names
  Columns,    \* Columns[t]: the columns of table t
  Dimension,  \* dimensions a request may name, as <<entity, column>>
  TimeColumn, \* columns of time dimensions
  Measured,   \* columns measures aggregate
  Plans,      \* plans a compilation may have, as <<base, joins>>
  None        \* no link, no key, no granularity, no error

Hop == [left : Entity, right : Entity, lcol : Column, rcol : Column]

Aggregation == {"sum", "count", "average", "min", "max", "count_distinct"}

ASSUME EntityAssumption ==
  /\ Fact \subseteq Entity
  /\ TableOf \in [Entity -> Table]
  /\ Dimension \subseteq Entity \X Column
  /\ TimeColumn \subseteq Column
  /\ Measured \subseteq Column

(* The models describe the tables: a column is declared where the table has it. *)
ASSUME ColumnsAssumption ==
  /\ Columns \in [Table -> SUBSET Column]
  /\ \A d \in Dimension : d[2] \in Columns[TableOf[d[1]]]
  /\ \A plan \in Plans : \A k \in DOMAIN plan[2] :
       /\ plan[2][k].lcol \in Columns[TableOf[plan[2][k].left]]
       /\ plan[2][k].rcol \in Columns[TableOf[plan[2][k].right]]

(* path_entities, the base first. *)
PathOf(b, js) == <<b>> \o [k \in DOMAIN js |-> js[k].right]

(* The order in which joins are accumulated: no entity twice, none before its left side. *)
Tree(b, js) ==
  LET path == PathOf(b, js)
  IN  /\ \A i, k \in DOMAIN path : path[i] = path[k] => i = k
      /\ \A k \in DOMAIN js : \E i \in 1..k : path[i] = js[k].left

(* MultiFactJoin. *)
Several(b, js) ==
  \E i, k \in DOMAIN PathOf(b, js) :
    i # k /\ PathOf(b, js)[i] \in Fact /\ PathOf(b, js)[k] \in Fact

(* What JoinPlanner shows of its plans (JoinedOnce, LeftIntroduced, VerdictCountsFacts). *)
ASSUME PlansAssumption ==
  \A plan \in Plans :
    plan \in Entity \X Seq(Hop) /\ Tree(plan[1], plan[2]) /\ Several(plan[1], plan[2])
ASSUME NoneAssumption == None \notin Entity \cup Column \cup Nat

(* The two columns that carry an average, which no table has. *)
Sum(c)   == <<c, "__sum">>
Count(c) == <<c, "__cnt">>

ASSUME PartsAssumption == \A c \in Column : {Sum(c), Count(c)} \cap Column = {}

VARIABLES
  base,      \* the entity of the measure
  joins,     \* all_joins
  dims,      \* the dimensions the request selects
  filters,   \* the dimensions its filters name
  grain,     \* the column time_granularity truncates, or None
  measure,   \* the measure: its aggregation and its column
  link,      \* link_entity, None before
  next,      \* the place in the path of the next entity to be looked at
  facts,     \* the FactPreAgg of each fact so far
  ctes,      \* the CTEs injected so far
  query,     \* query[c]: the references in clause c of the query that comes out
  error,     \* the ChasmTrapError returned, or None
  pc         \* control state

inputs == <<base, joins, dims, filters, grain, measure>>
vars   == <<inputs, link, next, facts, ctes, query, error, pc>>

--------------------------------------------------------------------------------
Path == PathOf(base, joins)

InPath(e) == \E k \in DOMAIN Path : Path[k] = e
At(e)     == CHOOSE k \in DOMAIN Path : Path[k] = e

(* What JoinPlanner guarantees and SELECT asks: every leaf of the path is a dimension's. *)
Needed(b, js, ds) ==
  /\ \A d \in ds : \E k \in DOMAIN PathOf(b, js) : PathOf(b, js)[k] = d[1]
  /\ \A k \in DOMAIN js :
       \/ \E d \in ds : d[1] = js[k].right
       \/ \E i \in DOMAIN js : js[i].left = js[k].right

Init ==
  /\ \E plan \in Plans : base = plan[1] /\ joins = plan[2]
  /\ dims \in SUBSET Dimension
  /\ Needed(base, joins, dims)
  /\ \E d \in Dimension : filters \in {{}, {d}}
  /\ \A d \in filters : InPath(d[1])
  /\ grain \in {None} \cup {c \in TimeColumn : <<base, c>> \in Dimension}
  /\ measure \in [agg : Aggregation, column : Measured \cap Columns[TableOf[base]]]
  /\ link  = None
  /\ next  = 1
  /\ facts = <<>>
  /\ ctes  = <<>>
  /\ query = <<>>
  /\ error = None
  /\ pc    = "linking"

Fail(e) == error' = e /\ pc' = "failed"

--------------------------------------------------------------------------------
(***************************************************************************)
(* link_entity: the first dimension in the path that is joined to two      *)
(* different facts.                                                        *)
(***************************************************************************)
Joined(a, b, k) == {joins[k].left, joins[k].right} = {a, b}

ConnectedFacts(d) == {f \in Fact : \E k \in DOMAIN joins : Joined(d, f, k)}

(* Mutant: one fact joined to it makes a dimension the link. *)
LinksOfOne ==
  {k \in DOMAIN Path : Path[k] \notin Fact /\ Cardinality(ConnectedFacts(Path[k])) >= 1}

Links ==
  {k \in DOMAIN Path : Path[k] \notin Fact /\ Cardinality(ConnectedFacts(Path[k])) >= 2}

ChooseLink ==
  /\ pc = "linking"
  /\ IF Links = {}
     THEN Fail("LinkDimensionNotFound") /\ UNCHANGED link
     ELSE /\ link' = Path[CHOOSE k \in Links : \A i \in Links : k <= i]
          /\ pc' = "keys"
          /\ UNCHANGED error
  /\ UNCHANGED <<inputs, next, facts, ctes, query>>

(* Mutant: the key is always the left column of the hop. *)
KeyOnTheLeft(f) ==
  LET hops == {k \in DOMAIN joins : Joined(link, f, k)}
      j    == joins[CHOOSE k \in hops : \A i \in hops : k <= i]
  IN  IF hops = {} THEN None ELSE j.lcol

(* The fact's side of the first hop between it and the link. *)
KeyOf(f) ==
  LET hops == {k \in DOMAIN joins : Joined(link, f, k)}
      j    == joins[CHOOSE k \in hops : \A i \in hops : k <= i]
  IN  IF hops = {} THEN None ELSE IF j.left = f THEN j.lcol ELSE j.rcol

(* Mutant: no dimension is too fine. *)
NeverFiner(f) == FALSE

(* A dimension of the fact that is not its key is finer than the conformed grain. *)
Finer(f) == \E d \in dims : d[1] = f /\ d[2] # KeyOf(f)

FactPreAgg(f) ==
  [entity |-> f, table |-> TableOf[f], key |-> KeyOf(f),
   measures |-> IF f = base THEN <<measure>> ELSE <<>>]

(* The loop over fact_tables, which are the facts of the path in its order. *)
TakeFact ==
  /\ pc = "keys"
  /\ next <= Len(Path)
  /\ next' = next + 1
  /\ LET e == Path[next]
     IN  CASE e \notin Fact -> UNCHANGED <<facts, error, pc>>
           [] e \in Fact /\ KeyOf(e) = None ->
                Fail("LinkDimensionNotFound") /\ UNCHANGED facts
           [] e \in Fact /\ KeyOf(e) # None /\ Finer(e) ->
                Fail("FinerThanConformedGrain") /\ UNCHANGED facts
           [] OTHER ->
                facts' = Append(facts, FactPreAgg(e)) /\ UNCHANGED <<error, pc>>
  /\ UNCHANGED <<inputs, link, ctes, query>>

(* inject_ctes: a distinct count cannot be combined from those of groups. *)
Inject ==
  /\ pc = "keys"
  /\ next > Len(Path)
  /\ IF \E n \in DOMAIN facts : \E m \in DOMAIN facts[n].measures :
          facts[n].measures[m].agg = "count_distinct"
     THEN Fail("UnsupportedCountDistinctReaggregation")
     ELSE pc' = "ctes" /\ UNCHANGED error
  /\ next' = 1
  /\ UNCHANGED <<inputs, link, facts, ctes, query>>

--------------------------------------------------------------------------------
(***************************************************************************)
(* build_cte_query: the key and the measure, of which a fact has one at    *)
(* most (semantic_compiler.rs:383-391), under the names of their columns.  *)
(* An average is carried as a sum and a count.                             *)
(***************************************************************************)

(* Mutant: an average is projected under the measure's own column. *)
ProjectedWhole(m) == <<m.column>>

Projected(m) ==
  IF m.agg = "average" THEN <<Sum(m.column), Count(m.column)>> ELSE <<m.column>>

Cte(f) ==
  [alias |-> CteName[f.table], table |-> f.table, key |-> f.key,
   columns |-> <<f.key>> \o IF f.measures = <<>> THEN <<>> ELSE Projected(f.measures[1])]

(* The CTE of the next fact, unless its alias is taken. *)
AddCte ==
  /\ pc = "ctes"
  /\ next <= Len(facts)
  /\ next' = next + 1
  /\ ctes' = IF \E n \in DOMAIN ctes : ctes[n].alias = CteName[facts[next].table]
             THEN ctes
             ELSE Append(ctes, Cte(facts[next]))
  /\ UNCHANGED <<inputs, link, facts, query, error, pc>>

--------------------------------------------------------------------------------
(***************************************************************************)
(* rewrite_outer_query.  The builder gives a table's own name to the first *)
(* relation on it and an alias to the others; only a relation under the    *)
(* table's own name is replaced by the CTE.                                *)
(***************************************************************************)
FirstOn(t) ==
  CHOOSE k \in DOMAIN Path :
    TableOf[Path[k]] = t /\ \A i \in 1..(k - 1) : TableOf[Path[i]] # t

Swapped(k) ==
  /\ k = FirstOn(TableOf[Path[k]])
  /\ \E n \in DOMAIN facts : facts[n].table = TableOf[Path[k]]

(* A reference to a fact's dimension becomes its group key; others are lowered to bare columns. *)
OuterDimension(d) ==
  LET own == {n \in DOMAIN facts : facts[n].entity = d[1]}
  IN  IF own = {} THEN [at |-> None, column |-> d[2], of |-> d]
      ELSE [at |-> FirstOn(TableOf[d[1]]), column |-> facts[CHOOSE n \in own : TRUE].key, of |-> d]

OuterMeasure ==
  LET parts == IF measure.agg = "average" THEN {Sum(measure.column), Count(measure.column)}
                                          ELSE {measure.column}
  IN  IF base \in Fact
      THEN {[at |-> FirstOn(TableOf[base]), column |-> c, of |-> <<base, measure.column>>] :
              c \in parts}
      ELSE {[at |-> None, column |-> measure.column, of |-> <<base, measure.column>>]}

(* DATE_TRUNC over a dimension is none of the expressions rewritten: it is lowered as it is. *)
OuterGrain ==
  IF grain = None THEN {} ELSE {[at |-> None, column |-> grain, of |-> <<base, grain>>]}

(* A join's columns were qualified when it was built. *)
OnOf(k) == {[at |-> At(joins[k].left), column |-> joins[k].lcol,
             of |-> <<joins[k].left, joins[k].lcol>>],
            [at |-> k + 1, column |-> joins[k].rcol,
             of |-> <<joins[k].right, joins[k].rcol>>]}

Rewrite ==
  /\ pc = "ctes"
  /\ next > Len(facts)
  /\ query' = [select  |-> {OuterDimension(d) : d \in dims},
               measure |-> OuterMeasure,
               grain   |-> OuterGrain,
               where   |-> {OuterDimension(d) : d \in filters},
               on      |-> UNION {OnOf(k) : k \in DOMAIN joins}]
  /\ pc' = "rewritten"
  /\ UNCHANGED <<inputs, link, next, facts, ctes, error>>

Next == ChooseLink \/ TakeFact \/ Inject \/ AddCte \/ Rewrite

Spec == Init /\ [][Next]_vars
--------------------------------------------------------------------------------
(***************************************************************************)
(* The premise of what follows: no two relations of the path are on one    *)
(* table or on tables that differ only by their schema.  Otherwise the     *)
(* second fact has no CTE of its own (chasm_trap.rs:121-125).              *)
(***************************************************************************)
TablesDistinct ==
  \A i, k \in DOMAIN Path : CteName[TableOf[Path[i]]] = CteName[TableOf[Path[k]]] => i = k

Finished == pc = "rewritten" /\ TablesDistinct

CteAt(k) == CHOOSE c \in {ctes[n] : n \in DOMAIN ctes} : c.table = TableOf[Path[k]]

(* What the k-th relation of FROM has: the CTE the list it projects, a table its columns. *)
Offered(k) ==
  IF Swapped(k) THEN CteAt(k).columns ELSE [c \in Columns[TableOf[Path[k]]] |-> c]

(* The n-th column of the k-th relation is one that r can name. *)
Fits(r, k, n) == r.at \in {None, k} /\ Offered(k)[n] = r.column

(* It is the only one that it can, and is of the relation that r stands for. *)
Resolves(r) ==
  LET own == At(r.of[1]) IN
    \E n \in DOMAIN Offered(own) :
      \A k \in DOMAIN Path : \A m \in DOMAIN Offered(k) :
        Fits(r, k, m) <=> k = own /\ m = n

(***************************************************************************)
(* Two more premises, each of which the code would need a check for.  The  *)
(* measure's column is not the one its fact is grouped by, unless it is    *)
(* averaged: its CTE would have two columns of one name.  And of the       *)
(* tables in the path no other has a column of the name: lowering leaves   *)
(* what does not belong to a fact bare.                                    *)
(***************************************************************************)
KeyUnmeasured ==
  base \in Fact => measure.agg = "average" \/ measure.column # KeyOf(base)

NamedOnce(d) == \A k \in DOMAIN Path : d[2] \in Columns[TableOf[Path[k]]] => Path[k] = d[1]

(***************************************************************************)
(* Every fact of the path, and nothing else, is replaced by a CTE of its   *)
(* own, and joined to the link by the column the CTE groups by: a join     *)
(* meets one row of it at most, and nothing is counted twice.              *)
(***************************************************************************)
FactsPreAggregated ==
  Finished =>
    \A k \in DOMAIN Path :
      /\ Swapped(k) <=> Path[k] \in Fact
      /\ Swapped(k) =>
           /\ Cardinality({n \in DOMAIN ctes : ctes[n].table = TableOf[Path[k]]}) = 1
           /\ \E i \in DOMAIN joins :
                /\ Joined(link, Path[k], i)
                /\ \E r \in OnOf(i) : r.at = k /\ r.column = CteAt(k).key

(***************************************************************************)
(* Selecting a dimension gives that dimension.  For a fact's, the group    *)
(* key to which every reference to the fact is rewritten stands for no     *)
(* other column of it (chasm_trap.rs:432-447), and the CTE has it once.    *)
(* A bare column that meant one thing before the rewrite still means it,   *)
(* whatever the CTEs hide and project.                                     *)
(***************************************************************************)
SelectedKeepColumn ==
  Finished /\ KeyUnmeasured =>
    \A r \in query.select :
      /\ r.column = r.of[2]
      /\ r.of[1] \in Fact \/ NamedOnce(r.of) => Resolves(r)

(***************************************************************************)
(* What the outer query re-aggregates is what the CTE projects, once, an   *)
(* average by its two parts (chasm_trap.rs:128-150 and 387-426), the key   *)
(* averaged included; what it aggregates of a dimension is the column of   *)
(* that dimension.                                                         *)
(***************************************************************************)
MeasureProvided ==
  Finished /\ KeyUnmeasured =>
    \A r \in query.measure : r.of[1] \in Fact \/ NamedOnce(r.of) => Resolves(r)

(* What is selected, filtered and measured names one column, without the two premises. *)
SelectedMeant == \A r \in query.select \cup query.where : Resolves(r)
MeasureMeant  == \A r \in query.measure : Resolves(r)

(* What the request selects by time_granularity is no finer than the CTE. *)
GrainMeant == \A r \in query.grain : Resolves(r)

(* The same of a dimension reached through a fact, by a column that is not the fact's key. *)
JoinsMeant == \A r \in query.on : Resolves(r)

(* "A single filter predicate applied to a dimension column" (compiler/request.rs:16): to its own. *)
FiltersKeepColumn == \A r \in query.where : r.column = r.of[2]

(***************************************************************************)
(* Every reference of the query that comes out names one column, and the   *)
(* one it stands for: "the compiler adds the correct table/alias prefix"   *)
(* to the bare columns of models (models/core.rs:53-54 and 74-75), and     *)
(* what "is finer than the conformed chasm-trap grain ... cannot be        *)
(* selected through a pre-aggregated join" (chasm_trap.rs:20), where the   *)
(* check for it (semantic_compiler.rs:372) looks at selected dimensions    *)
(* only.  Each of the five parts fails by itself.                          *)
(***************************************************************************)
ReferencesMeant ==
  Finished => SelectedMeant /\ MeasureMeant /\ GrainMeant /\ JoinsMeant /\ FiltersKeepColumn

(* The request as ConformedFacts sees it. *)
Meant == INSTANCE ConformedFacts
  WITH hops     <- {joins[k] : k \in DOMAIN joins},
       distinct <- base \in Fact /\ measure.agg = "count_distinct",
       keys     <- IF pc = "rewritten"
                   THEN {<<facts[n].entity, facts[n].key>> : n \in DOMAIN facts} ELSE {},
       outcome  <- CASE pc = "failed" -> error
                     [] pc = "rewritten" -> "rewritten"
                     [] OTHER -> "open"

(***************************************************************************)
(* The link is the first dimension joined to two facts                     *)
(* (semantic_compiler.rs:325-345), and only then is it asked whether all   *)
(* facts are joined to it.  A request is nevertheless refused only if no   *)
(* dimension would do: plans are trees, in which two dimensions are not    *)
(* joined to the same two facts.                                           *)
(***************************************************************************)
ImplementsConformedFacts == Meant!Spec
================================================================================
