-------------------------------- MODULE JoinPaths -------------------------------
(***************************************************************************)
(* What the rest of the compiler relies on when it asks for joins          *)
(* (may_core/src): the entities of the shortest ways from the measure's    *)
(* entity to those of the dimensions (graph/resolver.rs), merged, the      *)
(* relations that go by their table's own name (ast/builder.rs), and the   *)
(* case in which facts must be pre-aggregated (compiler/fanout.rs).        *)
(*                                                                         *)
(* A link is the set of the two entities a declared join joins.            *)
(***************************************************************************)
EXTENDS Naturals, FiniteSets

CONSTANTS
  Entity,      \* entity names
  Fact         \* the entities of type Fact

(* The entities of s hang together by links between them. *)
Hangs(links, s) ==
  LET among == {l \in links : l \subseteq s}
  IN  \A t \in (SUBSET s) \ {{}, s} : \E l \in among : l \cap t # {} /\ ~(l \subseteq t)

(* The entities of a shortest path from a to b: the fewest that hold both and hang together. *)
Ways(links, a, b) ==
  LET w == {s \in SUBSET Entity : a \in s /\ b \in s /\ Hangs(links, s)}
  IN  {s \in w : \A t \in w : Cardinality(s) <= Cardinality(t)}

(* What a FROM clause may join: the base, and a way from it to each target. *)
Plans(links, base, targets) ==
  LET ways == UNION {{e} \X Ways(links, base, e) : e \in targets}
  IN  {{base} \cup UNION {way[e] : e \in targets} :
         way \in {w \in [targets -> {p[2] : p \in ways}] :
                   \A e \in targets : <<e, w[e]>> \in ways}}

(* The entities of es read under their table's own name: one on each table, the base on its. *)
Plainly(table, base, es) ==
  {first \in SUBSET es :
     /\ base \in first
     /\ \A e \in es : \E f \in first : table[f] = table[e]
     /\ \A e, f \in first : table[e] = table[f] => e = f}

(* MultiFactJoin: pre-aggregation is needed when two facts are joined. *)
Several(es) == Cardinality(es \cap Fact) > 1
================================================================================
