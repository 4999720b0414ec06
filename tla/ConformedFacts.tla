----------------------------- MODULE ConformedFacts ----------------------------
(***************************************************************************)
(* What the pre-aggregation of facts promises (STEP 10 of compile,         *)
(* semantic_compiler.rs:323-403): a request is rewritten exactly when it   *)
(* can be.  It can if one dimension is joined to every fact, the selected  *)
(* dimensions of facts are the keys of these joins, and the measure can be *)
(* combined from groups; it is refused only for what it fails in, whatever *)
(* dimension is looked at.  No order of joins or entities appears here.    *)
(***************************************************************************)
CONSTANTS Entity, Fact, Column, Dimension

Hop == [left : Entity, right : Entity, lcol : Column, rcol : Column]

VARIABLES
  base,      \* the entity of the measure
  hops,      \* the joins
  dims,      \* the selected dimensions, as <<entity, column>>
  distinct,  \* whether a fact's measure counts distinct values
  keys,      \* the columns by which the facts are grouped and joined, as <<fact, column>>
  outcome    \* "open", "rewritten" or the error

request == <<base, hops, dims, distinct>>

Entities == {base} \cup {h.right : h \in hops}
Facts    == Entities \cap Fact

(* The facts' sides of the joins of l and a fact. *)
Keys(l) ==
  {<<h.left,  h.lcol>> : h \in {j \in hops : j.right = l /\ j.left \in Fact}} \cup
  {<<h.right, h.rcol>> : h \in {j \in hops : j.left = l /\ j.right \in Fact}}

(* The conformed dimensions: those every fact is joined to. *)
Conformed == {l \in Entities \ Fact : \A f \in Facts : \E key \in Keys(l) : key[1] = f}

(* Nothing is selected that is finer than the keys. *)
Grained(l) == \A d \in dims : d[1] \in Fact => d \in Keys(l)

Init ==
  /\ base \in Entity /\ hops \in SUBSET Hop /\ dims \in SUBSET Dimension
  /\ distinct \in BOOLEAN
  /\ keys = {} /\ outcome = "open"

Rewrite ==
  /\ outcome = "open" /\ ~distinct
  /\ \E l \in Conformed : Grained(l) /\ keys' = Keys(l)
  /\ outcome' = "rewritten"
  /\ UNCHANGED request

Refuse ==
  /\ outcome = "open"
  /\ \/ Conformed = {} /\ outcome' = "LinkDimensionNotFound"
     \/ (\A l \in Conformed : ~Grained(l)) /\ outcome' = "FinerThanConformedGrain"
     \/ distinct /\ outcome' = "UnsupportedCountDistinctReaggregation"
  /\ UNCHANGED <<request, keys>>

Next == Rewrite \/ Refuse

Spec == Init /\ [][Next]_<<request, keys, outcome>>
================================================================================
