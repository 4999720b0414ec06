----------------------------- MODULE ModelRegistry -----------------------------
(***************************************************************************)
(* What StateMgr promises its callers, without locks, copies or caches: a  *)
(* registry of semantic models that changes only by whole loads.           *)
(*                                                                         *)
(*   - a loader is asked for a set of documents and then, in one step,    *)
(*     either registers all of them or none; it registers nothing if one   *)
(*     of them is not valid;                                               *)
(*   - a reader sees the registry as it was at one instant of its request, *)
(*     however long the request takes.                                     *)
(*                                                                         *)
(* SemanticState.tla, which follows the code, is checked to implement it.  *)

CONSTANTS
  Loader,    \* callers of load_from_yaml and load_dir
  Reader,    \* callers that compile a request
  Name,      \* model names, the keys of SemanticState.models
  Doc,       \* YAML documents
  Valid,     \* those that parse and validate
  NameOf,    \* NameOf[d] is the `name` field of document d
  None       \* no document, no request

VARIABLES
  models,    \* the registry: the document registered under each name
  request,   \* request[l]: the documents loader l was asked to load, or None
  outcome,   \* outcome[l]: "pending", "loaded" or "failed"
  view       \* view[r]: the registry reader r works on, None between requests

vars == <<models, request, outcome, view>>

Models == [Name -> Valid \cup {None}]
Empty  == [n \in Name |-> None]

(***************************************************************************)
(* The entries of p replace those of m that have the same name.            *)
(***************************************************************************)
Overlay(m, p) == [n \in Name |-> IF p[n] = None THEN m[n] ELSE p[n]]

(***************************************************************************)
(* What a set of documents registers: one document for each of its names.  *)
(* Which one, if two share a name, is up to the order they are read in.    *)
(***************************************************************************)
Registers(docs, p) ==
  \A n \in Name :
    LET named == {d \in docs : NameOf[d] = n}
    IN  IF named = {} THEN p[n] = None ELSE p[n] \in named

Init ==
  /\ models  = Empty
  /\ request = [l \in Loader |-> None]
  /\ outcome = [l \in Loader |-> "pending"]
  /\ view    = [r \in Reader |-> None]

Ask(l) ==
  /\ request[l] = None
  /\ \E docs \in SUBSET Doc : request' = [request EXCEPT ![l] = docs]
  /\ UNCHANGED <<models, outcome, view>>

Commit(l) ==
  /\ request[l] # None
  /\ outcome[l] = "pending"
  /\ request[l] \subseteq Valid
  /\ \E p \in Models : Registers(request[l], p) /\ models' = Overlay(models, p)
  /\ outcome' = [outcome EXCEPT ![l] = "loaded"]
  /\ UNCHANGED <<request, view>>

Reject(l) ==
  /\ request[l] # None
  /\ outcome[l] = "pending"
  /\ outcome' = [outcome EXCEPT ![l] = "failed"]
  /\ UNCHANGED <<models, request, view>>

Open(r) ==
  /\ view[r] = None
  /\ view' = [view EXCEPT ![r] = models]
  /\ UNCHANGED <<models, request, outcome>>

Close(r) ==
  /\ view[r] # None
  /\ view' = [view EXCEPT ![r] = None]
  /\ UNCHANGED <<models, request, outcome>>

Next ==
  \/ \E l \in Loader : Ask(l) \/ Commit(l) \/ Reject(l)
  \/ \E r \in Reader : Open(r) \/ Close(r)

Spec == Init /\ [][Next]_vars
================================================================================
