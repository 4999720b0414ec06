-------------------------------- MODULE JoinPlan --------------------------------
(***************************************************************************)
(* What the join planning of one request promises, whatever the order of   *)
(* its dimensions and however the search breaks ties: the plan joins the   *)
(* base and a shortest way to the entity of each dimension, nothing else;  *)
(* and it fails only for an entity that no way leads to.                   *)
(***************************************************************************)
EXTENDS JoinPaths

CONSTANT TableOf   \* TableOf[e]: the table of entity e

VARIABLES
  links,    \* the pairs of entities the loaded models join
  base,     \* the entity of the measure
  targets,  \* the other entities the request has dimensions of
  joined,   \* the entities of the FROM clause, the base among them
  plain,    \* those read under their table's own name
  several,  \* whether facts are to be pre-aggregated
  outcome

Init ==
  /\ links \in SUBSET SUBSET Entity
  /\ base \in Entity
  /\ targets = {}
  /\ joined = {} /\ plain = {} /\ several = FALSE
  /\ outcome = "open"

Want ==
  /\ outcome = "open"
  /\ \E e \in Entity \ {base} : targets' = targets \cup {e}
  /\ UNCHANGED <<links, base, joined, plain, several, outcome>>

Plan ==
  /\ outcome = "open" /\ outcome' = "planned"
  /\ joined' \in Plans(links, base, targets)
  /\ plain' \in Plainly(TableOf, base, joined')
  /\ several' = Several(joined')
  /\ UNCHANGED <<links, base, targets>>

Fail ==
  /\ outcome = "open" /\ outcome' = "unreachable"
  /\ \E e \in targets : Ways(links, base, e) = {}
  /\ UNCHANGED <<links, base, targets, joined, plain, several>>

Next == Want \/ Plan \/ Fail

Spec == Init /\ [][Next]_<<links, base, targets, joined, plain, several, outcome>>
================================================================================
