------------------------------ MODULE Gateway_proofs ----------------------------
(***************************************************************************)
(* Proofs about the way of a query from the request to its answer, for any *)
(* models, requests and contexts, and results of any length.  Not proved   *)
(* here, as it rests on fairness: Answered.                                *)
(***************************************************************************)
EXTENDS Gateway, FiniteSetTheorems, WellFoundedInduction, TLAPS

--------------------------------------------------------------------------------
(* Of a singleton. *)
LEMMA OneIsSome ==
  ASSUME NEW S, Cardinality(S) = 1
  PROVE  S # {}
<1>1. Cardinality({}) = 0
  BY FS_EmptySet
<1>2. ASSUME S = {} PROVE FALSE
  <2>1. Cardinality(S) = 0
    BY ONLY <1>1, <1>2
  <2> QED
    BY <2>1
<1> QED
  BY <1>2

LEMMA AtMostOne ==
  ASSUME NEW S, IsFiniteSet(S), Cardinality(S) <= 1, NEW x \in S
  PROVE  S = {x}
<1>1. Cardinality(S) \in Nat
  BY FS_CardinalityType
<1>2. Cardinality(S) # 0
  BY FS_EmptySet
<1>3. PICK y : S = {y}
  BY <1>1, <1>2, FS_Singleton
<1> QED
  BY <1>3

--------------------------------------------------------------------------------
(* The stages of compile, and the part of the state each has settled. *)
Early     == {"asked", "validating", "finding", "resolving", "truncating", "graph", "joining",
              "assembling", "facts"}
Restrained == {"generating", "compiled"}
Lowered   == Restrained \cup {"restricting"}
Assembled == Lowered \cup {"facts", "lowering"}
Joined    == Assembled \cup {"assembling"}
Ranked    == Joined \cup {"joining"}
Resolved  == Ranked \cup {"truncating", "graph"}
Working   == Early \cup {"lowering", "restricting", "generating"}

Typed ==
  /\ state \in Worlds /\ request \in Requests /\ CompilerTypeOK
  /\ pc \in Early => facts = {}
  /\ pc \in Early \ {"facts"} => from = {}

ErrorFits ==
  /\ pc \in Working => error = None
  /\ error = "Lowering" => DeclaredTwice

(* A reference to something entity r[1] of the metric's model declares. *)
Declared(r) ==
  \E e \in Entity, d \in Dimension :
    r = <<e, d>> /\ e \in EntitiesOf(owner) /\ state.dims[<<owner, e, d>>] > 0

MetricFound ==
  /\ pc = "finding" => Owners # {}
  /\ pc = "resolving" => owner \in Owners
  /\ pc \in Resolved =>
       /\ owner \in Model /\ base \in EntitiesOf(owner) /\ TheMetric.measure \in Measure
       /\ state.measures[<<owner, base, TheMetric.measure>>] > 0
       /\ \A r \in dims : Declared(r)

DimsJoined ==
  /\ pc \in Ranked =>
       /\ rank \in [Model -> 1..Cardinality(Model)]
       /\ \A l \in state.links : \A e \in l : Declaring(e) # {}
  /\ pc \in Joined =>
       /\ base \in joined
       /\ \A r \in dims : r[1] \in joined
       /\ \A e \in joined : Declaring(e) # {}

FromWhole ==
  pc \in Assembled =>
    /\ Resolvable(owner, request.filters)
    /\ \E first \in SUBSET joined :
         /\ base \in first
         /\ \A e \in joined : \E f \in first : NodeTable(f) = NodeTable(e)
         /\ \A e, f \in first : NodeTable(e) = NodeTable(f) => e = f
         /\ from = {Relation(e, e \in first) : e \in joined}

RefsLowered ==
  pc \in Lowered =>
    columns = [r \in DimRefs |-> ColumnOf[<<owner, r[1], r[2]>>]]

PoliciesPlaced ==
  pc \in Restrained /\ context # None =>
    where = [l \in Levels |-> {Predicate(p) : p \in PoliciesAt(l)}]

CInv ==
  /\ Typed /\ ErrorFits /\ MetricFound /\ DimsJoined /\ FromWhole /\ RefsLowered /\ PoliciesPlaced

--------------------------------------------------------------------------------
(* What the metric, the request's names and the references mean depends on little. *)
LEMMA SameNames ==
  ASSUME UNCHANGED <<state, request>>
  PROVE  /\ Owners' = Owners
         /\ \A m, d : Holders(m, d)' = Holders(m, d)
         /\ \A m, d : TheHolder(m, d)' = TheHolder(m, d)
         /\ \A m : EntitiesOf(m)' = EntitiesOf(m)
         /\ \A e : Declaring(e)' = Declaring(e)
         /\ \A m, ds : Resolvable(m, ds)' = Resolvable(m, ds)
BY DEF Owners, Holders, TheHolder, EntitiesOf, Declaring, Resolvable

LEMMA SameMetric ==
  ASSUME UNCHANGED <<state, request, owner>>
  PROVE  TheMetric' = TheMetric
BY DEF TheMetric

(* Once the metric is found, what was found of it stays. *)
LEMMA MetricStays ==
  ASSUME MetricFound, UNCHANGED <<state, request, owner, base, dims>>,
         pc \in Resolved, pc' \in Resolved
  PROVE  MetricFound'
<1>1. /\ owner' \in Model /\ base' \in EntitiesOf(owner)' /\ TheMetric' = TheMetric
      /\ TheMetric.measure \in Measure /\ state'.measures[<<owner', base', TheMetric.measure>>] > 0
  BY SameNames, SameMetric DEF MetricFound
<1>2. \A r \in dims' : Declared(r)'
  BY SameNames DEF MetricFound, Declared
<1>3. pc' # "finding" /\ pc' # "resolving"
  BY DEF Resolved, Ranked, Joined, Assembled, Lowered, Restrained
<1> QED
  BY <1>1, <1>2, <1>3 DEF MetricFound

(* Once the entities are joined, they stay so. *)
LEMMA JoinedStays ==
  ASSUME DimsJoined, UNCHANGED <<state, request, base, dims, joined, rank>>,
         pc \in Joined, pc' \in Joined
  PROVE  DimsJoined'
BY SameNames DEF DimsJoined, Ranked

LEMMA SameRefs ==
  ASSUME UNCHANGED <<state, request, owner, base, dims, facts>>
  PROVE  DimRefs' = DimRefs /\ (DeclaredTwice' <=> DeclaredTwice)
<1>1. FilterRefs' = FilterRefs
  BY DEF FilterRefs, TheHolder, Holders, EntitiesOf
<1>2. GrainRefs' = GrainRefs
  BY DEF GrainRefs, TimeDeclarations
<1>3. DimRefs' = DimRefs
  BY <1>1, <1>2 DEF DimRefs
<1>4. TheMetric' = TheMetric
  BY SameMetric
<1>5. (\E r \in DimRefs : state.dims[<<owner, r[1], r[2]>>] = 2)'
      <=> \E r \in DimRefs : state.dims[<<owner, r[1], r[2]>>] = 2
  BY <1>3
<1>6. (state.measures[<<owner, base, TheMetric.measure>>] = 2)'
      <=> state.measures[<<owner, base, TheMetric.measure>>] = 2
  BY <1>4
<1> QED
  BY <1>3, <1>5, <1>6 DEF DeclaredTwice

LEMMA SameTables ==
  ASSUME UNCHANGED <<state, request, owner, base, rank>>
  PROVE  /\ \A e : NodeTable(e)' = NodeTable(e)
         /\ \A e : FoundTable(e)' = FoundTable(e)
         /\ \A e, b : Relation(e, b)' = Relation(e, b)
<1>1. \A e : NodeOf(e)' = NodeOf(e) /\ FoundIn(e)' = FoundIn(e)
  BY DEF NodeOf, FoundIn, Declaring
<1>2. \A e : NodeTable(e)' = NodeTable(e) /\ FoundTable(e)' = FoundTable(e)
  BY <1>1 DEF NodeTable, FoundTable
<1> QED
  BY <1>2 DEF Relation

LEMMA SamePolicies ==
  ASSUME UNCHANGED <<state, request, context, owner, base, rank, from, facts>>
  PROVE  /\ Levels' = Levels
         /\ \A l : PoliciesAt(l)' = PoliciesAt(l)
         /\ \A p : Predicate(p)' = Predicate(p)
<1>1. Levels' = Levels
  BY DEF Levels
<1>2. \A r : Replaced(r)' = Replaced(r)
  BY SameTables DEF Replaced
<1>3. \A l : Relations(l)' = Relations(l)
  BY <1>2, SameTables DEF Relations
<1>4. \A t : PoliciesOn(t)' = PoliciesOn(t)
  BY DEF PoliciesOn
<1>5. \A l : PoliciesAt(l)' = PoliciesAt(l)
  BY <1>3, <1>4 DEF PoliciesAt
<1> QED
  BY <1>1, <1>5 DEF Predicate

(* A step that leaves the compiler's variables, and goes on with it or away from it. *)
LEMMA Elsewhere ==
  ASSUME CInv, UNCHANGED <<asked, resolved, planned, written, error>>,
         \/ pc' = pc
         \/ pc = "asked" /\ pc' = "validating"
         \/ pc' \in {"answered", "dispatching", "executing", "reading"}
  PROVE  CInv'
<1>1. UNCHANGED <<state, request, context, owner, base, dims, rank, joined, from, facts,
                  columns, where, error>>
  BY DEF asked, resolved, planned, written
<1>2. Typed'
  BY <1>1 DEF CInv, Typed, CompilerTypeOK, Early
<1>3. ErrorFits'
  BY <1>1, SameRefs DEF CInv, ErrorFits, Working, Early
<1>4. MetricFound'
  <2>1. CASE pc' \in Resolved
    <3>1. pc \in Resolved
      BY <2>1 DEF Resolved, Ranked, Joined, Assembled, Lowered, Restrained
    <3> QED
      BY <1>1, <2>1, <3>1, MetricStays DEF CInv
  <2>2. CASE pc' \notin Resolved
    BY <1>1, <2>2, SameNames DEF CInv, MetricFound
  <2> QED
    BY <2>1, <2>2
<1>5. DimsJoined'
  BY <1>1, SameNames
     DEF CInv, DimsJoined, Ranked, Joined, Assembled, Lowered, Restrained
<1>6. FromWhole'
  BY <1>1, SameNames, SameTables DEF CInv, FromWhole, Assembled, Lowered, Restrained
<1>7. RefsLowered'
  BY <1>1, SameRefs DEF CInv, RefsLowered, Lowered, Restrained
<1>8. PoliciesPlaced'
  BY <1>1, SamePolicies DEF CInv, PoliciesPlaced, Restrained
<1> QED
  BY <1>2, <1>3, <1>4, <1>5, <1>6, <1>7, <1>8 DEF CInv

--------------------------------------------------------------------------------
(* The steps of compile.  One that fails settles nothing any more. *)
LEMMA NoError == None \notin CompilerError
BY CompilerAssumption

LEMMA Failing ==
  ASSUME CInv, UNCHANGED <<state, request>>, pc' = "failed", error' # "Lowering", CompilerTypeOK'
  PROVE  CInv'
BY DEF CInv, Typed, ErrorFits, MetricFound, DimsJoined, FromWhole, RefsLowered, PoliciesPlaced,
       Early, Restrained, Lowered, Assembled, Joined, Ranked, Resolved, Working

LEMMA Validate ==
  ASSUME CInv, ValidateRequest
  PROVE  CInv'
<1>1. /\ UNCHANGED <<state, request, context, owner, base, dims, rank, joined, from, facts,
                     columns, where>>
      /\ pc = "validating"
      /\ \/ pc' = "failed" /\ error' = "RequestParsing"
         \/ pc' = "finding" /\ Owners # {} /\ error' = error
  BY DEF ValidateRequest, Check, Fail, Go, asked, resolved, planned, written
<1>2. CompilerTypeOK'
  BY <1>1 DEF CInv, Typed, CompilerTypeOK, CompilerError
<1>3. CASE pc' = "failed" /\ error' = "RequestParsing"
  BY <1>1, <1>2, <1>3, Failing
<1>4. CASE pc' = "finding" /\ Owners # {} /\ error' = error
  <2>1. Typed' /\ ErrorFits'
    BY <1>1, <1>2, <1>4, SameRefs DEF CInv, Typed, ErrorFits, Early, Working
  <2>2. MetricFound'
    BY <1>1, <1>4, SameNames DEF MetricFound, Resolved, Ranked, Joined, Assembled, Lowered, Restrained
  <2>3. DimsJoined' /\ FromWhole' /\ RefsLowered' /\ PoliciesPlaced'
    BY <1>4 DEF DimsJoined, FromWhole, RefsLowered, PoliciesPlaced,
                Ranked, Joined, Assembled, Lowered, Restrained
  <2> QED
    BY <2>1, <2>2, <2>3 DEF CInv
<1> QED
  BY <1>1, <1>3, <1>4

LEMMA OwnersAreModels == state \in Worlds => Owners \subseteq Model
BY CompilerAssumption DEF World, Owners

LEMMA Find ==
  ASSUME CInv, FindModel
  PROVE  CInv'
<1>1. /\ UNCHANGED <<state, request, context, base, dims, rank, joined, from, facts, columns, where>>
      /\ pc = "finding"
      /\ \/ pc' = "failed" /\ error' = "AmbiguousMetric" /\ owner' = None
         \/ pc' = "resolving" /\ error' = error /\ owner' = CHOOSE m \in Owners : TRUE
  BY DEF FindModel, Check, Fail, Go, asked, planned, written
<1>2. Owners # {} /\ Owners \subseteq Model
  BY <1>1, OwnersAreModels DEF CInv, Typed, MetricFound
<1>3. CASE pc' = "failed" /\ error' = "AmbiguousMetric" /\ owner' = None
  <2>1. CompilerTypeOK'
    BY <1>1, <1>3 DEF CInv, Typed, CompilerTypeOK, CompilerError
  <2> QED
    BY <1>1, <1>3, <2>1, Failing
<1>4. CASE pc' = "resolving" /\ error' = error /\ owner' = CHOOSE m \in Owners : TRUE
  <2>1. owner' \in Owners
    BY <1>2, <1>4
  <2>2. CompilerTypeOK'
    BY <1>1, <1>2, <2>1 DEF CInv, Typed, CompilerTypeOK, CompilerError
  <2>3. Typed' /\ ErrorFits'
    BY <1>1, <1>4, <2>2, NoError DEF CInv, Typed, ErrorFits, Early, Working, CompilerError
  <2>4. MetricFound'
    BY <1>1, <1>4, <2>1, SameNames
       DEF MetricFound, Resolved, Ranked, Joined, Assembled, Lowered, Restrained
  <2>5. DimsJoined' /\ FromWhole' /\ RefsLowered' /\ PoliciesPlaced'
    BY <1>4 DEF DimsJoined, FromWhole, RefsLowered, PoliciesPlaced,
                Ranked, Joined, Assembled, Lowered, Restrained
  <2> QED
    BY <2>3, <2>4, <2>5 DEF CInv
<1> QED
  BY <1>1, <1>3, <1>4

(* A resolvable name is held by an entity of the model. *)
LEMMA HolderHolds ==
  ASSUME NEW m, NEW ds, Resolvable(m, ds), NEW d \in ds
  PROVE  TheHolder(m, d) \in EntitiesOf(m) /\ state.dims[<<m, TheHolder(m, d), d>>] > 0
<1>1. Holders(m, d) # {}
  BY OneIsSome DEF Resolvable
<1>2. TheHolder(m, d) \in Holders(m, d)
  BY <1>1 DEF TheHolder
<1> QED
  BY <1>2 DEF Holders

LEMMA MetricExists ==
  ASSUME owner \in Owners
  PROVE  TheMetric \in state.metrics /\ TheMetric.model = owner /\ TheMetric.name = request.metric
<1>1. \E t \in state.metrics : t.model = owner /\ t.name = request.metric
  BY DEF Owners
<1> QED
  BY <1>1 DEF TheMetric

LEMMA Resolve ==
  ASSUME CInv, ResolveMetric
  PROVE  CInv'
<1> DEFINE at    == MeasureHolders(owner, TheMetric.measure)
           names == IF request.dims = {} THEN TheMetric.dims ELSE request.dims
           bad   == Cardinality(at) # 1 \/ ~Resolvable(owner, TheMetric.dims \cup names)
<1>1. /\ UNCHANGED <<state, request, context, owner, rank, joined, from, facts, columns, where>>
      /\ pc = "resolving"
      /\ \/ bad /\ pc' = "failed" /\ error' = "MetricResolution" /\ UNCHANGED <<base, dims>>
         \/ /\ ~bad /\ pc' = "truncating" /\ error' = error
            /\ base' = CHOOSE e \in at : TRUE
            /\ dims' = {<<TheHolder(owner, d), d>> : d \in names}
  BY DEF ResolveMetric, Check, Fail, Go, asked, planned, written
<1>2. owner \in Owners /\ owner \in Model /\ state \in World /\ request \in Request
  BY <1>1, OwnersAreModels, CompilerAssumption DEF CInv, Typed, MetricFound
<1>3. TheMetric.measure \in Measure /\ TheMetric.dims \subseteq Dimension /\ names \subseteq Dimension
  BY <1>2, MetricExists DEF World, Request
<1> HIDE DEF at, names
<1>4. CASE bad /\ pc' = "failed" /\ error' = "MetricResolution" /\ UNCHANGED <<base, dims>>
  <2>1. CompilerTypeOK'
    BY <1>1, <1>4 DEF CInv, Typed, CompilerTypeOK, CompilerError
  <2> QED
    BY <1>1, <1>4, <2>1, Failing
<1>5. CASE /\ ~bad /\ pc' = "truncating" /\ error' = error
           /\ base' = CHOOSE e \in at : TRUE
           /\ dims' = {<<TheHolder(owner, d), d>> : d \in names}
  <2>1. base' \in at
    BY <1>5, OneIsSome
  <2>2. base' \in EntitiesOf(owner) /\ state.measures[<<owner, base', TheMetric.measure>>] > 0
    BY <2>1 DEF at, MeasureHolders
  <2>3. \A d \in names : TheHolder(owner, d) \in EntitiesOf(owner)
                         /\ state.dims[<<owner, TheHolder(owner, d), d>>] > 0
    BY <1>5, HolderHolds
  <2>4. ASSUME NEW r \in dims'
        PROVE  \E e \in Entity, d \in Dimension :
                 r = <<e, d>> /\ e \in EntitiesOf(owner) /\ state.dims[<<owner, e, d>>] > 0
    BY <1>3, <1>5, <2>3 DEF EntitiesOf
  <2>5. CompilerTypeOK'
    <3>1. dims' \subseteq Entity \X Dimension
      <4>1. ASSUME NEW r \in dims' PROVE r \in Entity \X Dimension
        <5>1. PICK e \in Entity, d \in Dimension : r = <<e, d>>
          BY <2>4
        <5> QED
          BY <5>1
      <4> QED
        BY <4>1
    <3>2. base' \in Entity
      BY <2>2 DEF EntitiesOf
    <3> QED
      BY <1>1, <1>5, <3>1, <3>2 DEF CInv, Typed, CompilerTypeOK, CompilerError
  <2>6. Typed' /\ ErrorFits'
    BY <1>1, <1>5, <2>5, NoError DEF CInv, Typed, ErrorFits, Early, Working, CompilerError
  <2>7. MetricFound'
    <3>1. EntitiesOf(owner)' = EntitiesOf(owner) /\ TheMetric' = TheMetric
      BY <1>1, SameNames, SameMetric
    <3>2. \A r \in dims' : Declared(r)'
      BY <1>1, <2>4, <3>1 DEF Declared
    <3> QED
      BY <1>1, <1>2, <1>3, <1>5, <2>2, <3>1, <3>2 DEF MetricFound
  <2>8. DimsJoined' /\ FromWhole' /\ RefsLowered' /\ PoliciesPlaced'
    BY <1>5 DEF DimsJoined, FromWhole, RefsLowered, PoliciesPlaced,
                Ranked, Joined, Assembled, Lowered, Restrained
  <2> QED
    BY <2>6, <2>7, <2>8 DEF CInv
<1> QED
  BY <1>1, <1>4, <1>5

LEMMA Truncating ==
  ASSUME CInv, Truncate
  PROVE  CInv'
<1>1. /\ UNCHANGED <<state, request, context, owner, base, dims, rank, joined, from, facts,
                     columns, where>>
      /\ pc = "truncating"
      /\ \/ pc' = "failed" /\ error' = "UnsupportedRequestFeature"
         \/ pc' = "graph" /\ error' = error
  BY DEF Truncate, Check, Fail, Go, asked, resolved, planned, written
<1>2. CompilerTypeOK'
  BY <1>1 DEF CInv, Typed, CompilerTypeOK, CompilerError
<1>3. CASE pc' = "failed" /\ error' = "UnsupportedRequestFeature"
  BY <1>1, <1>2, <1>3, Failing
<1>4. CASE pc' = "graph" /\ error' = error
  <2>1. Typed' /\ ErrorFits'
    BY <1>1, <1>2, <1>4, SameRefs DEF CInv, Typed, ErrorFits, Early, Working
  <2>2. MetricFound'
    BY <1>1, <1>4, MetricStays DEF CInv, Resolved
  <2>3. DimsJoined' /\ FromWhole' /\ RefsLowered' /\ PoliciesPlaced'
    BY <1>4 DEF DimsJoined, FromWhole, RefsLowered, PoliciesPlaced,
                Ranked, Joined, Assembled, Lowered, Restrained
  <2> QED
    BY <2>1, <2>2, <2>3 DEF CInv
<1> QED
  BY <1>1, <1>3, <1>4

LEMMA Graphing ==
  ASSUME CInv, GetGraph
  PROVE  CInv'
<1> DEFINE known == {p[2] : p \in state.entities}
<1>1. /\ UNCHANGED <<state, request, context, owner, base, dims, from, facts, columns, where>>
      /\ pc = "graph" /\ joined' = {base}
      /\ \/ pc' = "failed" /\ error' = "GraphConstruction"
         \/ /\ pc' = "joining" /\ error' = error
            /\ \A l \in state.links : l \subseteq known
            /\ rank' \in [Model -> 1..Cardinality(Model)]
  BY DEF GetGraph, Check, Fail, Go, asked, resolved, written
<1>2. base \in Entity /\ facts = {} /\ from = {} /\ state \in World
  BY <1>1, CompilerAssumption
     DEF CInv, Typed, MetricFound, Early, Resolved, EntitiesOf
<1>3. CompilerTypeOK'
  BY <1>1, <1>2 DEF CInv, Typed, CompilerTypeOK, CompilerError
<1>4. CASE pc' = "failed" /\ error' = "GraphConstruction"
  BY <1>1, <1>3, <1>4, Failing
<1>5. CASE /\ pc' = "joining" /\ error' = error
           /\ \A l \in state.links : l \subseteq known
           /\ rank' \in [Model -> 1..Cardinality(Model)]
  <2>1. Typed' /\ ErrorFits'
    BY <1>1, <1>3, <1>5, SameRefs DEF CInv, Typed, ErrorFits, Early, Working
  <2>2. MetricFound'
    BY <1>1, <1>5, MetricStays DEF CInv, Resolved, Ranked
  <2>3. ASSUME NEW e \in known PROVE Declaring(e) # {}
    <3>1. PICK p \in state.entities : e = p[2]
      BY <2>3
    <3>2. p \in Model \X Entity
      BY <1>2, <3>1 DEF World, Place
    <3>3. p[1] \in Model /\ <<p[1], e>> \in state.entities
      BY <3>1, <3>2
    <3> QED
      BY <3>3 DEF Declaring
  <2>4. DimsJoined'
    BY <1>1, <1>5, <2>3, SameNames DEF DimsJoined, Joined, Assembled, Lowered, Restrained
  <2>5. FromWhole' /\ RefsLowered' /\ PoliciesPlaced'
    BY <1>5 DEF FromWhole, RefsLowered, PoliciesPlaced, Assembled, Lowered, Restrained
  <2> QED
    BY <2>1, <2>2, <2>4, <2>5 DEF CInv
<1> QED
  BY <1>1, <1>4, <1>5

(* Whatever a way out of the base passes through is an end of a join. *)
LEMMA WayLinked ==
  ASSUME NEW a, NEW b, a # b, NEW s \in Ways(state.links, a, b), NEW e \in s
  PROVE  \E l \in state.links : e \in l
<1>1. s \in SUBSET Entity /\ a \in s /\ b \in s /\ Hangs(state.links, s)
  BY DEF Ways
<1>2. {e} \in (SUBSET s) \ {{}, s}
  BY <1>1
<1>3. PICK l \in state.links : l \cap {e} # {}
  BY <1>1, <1>2 DEF Hangs
<1> QED
  BY <1>3

LEMMA Joining ==
  ASSUME CInv, Join
  PROVE  CInv'
<1>1. /\ UNCHANGED <<state, request, context, owner, base, dims, rank, from, facts, columns, where>>
      /\ pc = "joining"
      /\ \/ pc' = "failed" /\ error' = "JoinResolution" /\ joined' = joined
         \/ /\ pc' = "assembling" /\ error' = error
            /\ joined' \in Plans(state.links, base, ToJoin)
  BY DEF Join, Check, Fail, Go, asked, resolved, written
<1>2. base \in EntitiesOf(owner) /\ owner \in Model /\ facts = {} /\ from = {}
  BY <1>1 DEF CInv, Typed, MetricFound, Early, Resolved, Ranked
<1>3. CASE pc' = "failed" /\ error' = "JoinResolution" /\ joined' = joined
  <2>1. CompilerTypeOK'
    BY <1>1, <1>3 DEF CInv, Typed, CompilerTypeOK, CompilerError
  <2> QED
    BY <1>1, <1>3, <2>1, Failing
<1>4. ASSUME pc' = "assembling", error' = error,
             joined' \in Plans(state.links, base, ToJoin)
      PROVE  CInv'
  <2>1. PICK way :
          /\ \A e \in ToJoin : way[e] \in Ways(state.links, base, e)
          /\ joined' = {base} \cup UNION {way[e] : e \in ToJoin}
    <3>1. PICK way :
            /\ \A e \in ToJoin : <<e, way[e]>> \in UNION {{f} \X Ways(state.links, base, f) : f \in ToJoin}
            /\ joined' = {base} \cup UNION {way[e] : e \in ToJoin}
      BY <1>4 DEF Plans
    <3>2. ASSUME NEW e \in ToJoin PROVE way[e] \in Ways(state.links, base, e)
      <4>1. PICK f \in ToJoin : <<e, way[e]>> \in {f} \X Ways(state.links, base, f)
        BY <3>1
      <4> QED
        BY <4>1
    <3> QED
      BY <3>1, <3>2
  <2>2. \A e \in ToJoin : way[e] \subseteq Entity
    BY <2>1 DEF Ways
  <2>3. joined' \subseteq Entity
    BY <1>2, <2>1, <2>2 DEF EntitiesOf
  <2>4. CompilerTypeOK'
    BY <1>1, <1>2, <1>4, <2>3 DEF CInv, Typed, CompilerTypeOK
  <2>5. Typed' /\ ErrorFits'
    BY <1>1, <1>4, <2>4, SameRefs DEF CInv, Typed, ErrorFits, Early, Working
  <2>6. MetricFound'
    BY <1>1, <1>4, MetricStays DEF CInv, Resolved, Ranked, Joined
  <2>7. \A r \in dims : r[1] \in joined'
    <3>1. SUFFICES ASSUME NEW r \in dims, r[1] # base PROVE r[1] \in joined'
      BY <2>1
    <3>2. r[1] \in ToJoin
      BY <3>1 DEF ToJoin
    <3>3. r[1] \in way[r[1]]
      BY <2>1, <3>2 DEF Ways
    <3> QED
      BY <2>1, <3>2, <3>3
  <2>8. \A e \in joined' : Declaring(e) # {}
    <3>1. SUFFICES ASSUME NEW e \in joined' PROVE Declaring(e) # {}
      OBVIOUS
    <3>2. CASE e = base
      BY <1>2, <3>2 DEF EntitiesOf, Declaring
    <3>3. CASE e # base
      <4>1. PICK to \in ToJoin : e \in way[to]
        BY <2>1, <3>1, <3>3
      <4>2. base # to
        BY DEF ToJoin
      <4>3. PICK l \in state.links : e \in l
        BY <2>1, <4>1, <4>2, WayLinked
      <4> QED
        BY <1>1, <4>3 DEF CInv, DimsJoined, Ranked
    <3> QED
      BY <3>2, <3>3
  <2>9. DimsJoined'
    BY <1>1, <1>4, <2>1, <2>3, <2>7, <2>8, SameNames DEF CInv, DimsJoined, Ranked
  <2>10. FromWhole' /\ RefsLowered' /\ PoliciesPlaced'
    BY <1>4 DEF FromWhole, RefsLowered, PoliciesPlaced, Assembled, Lowered, Restrained
  <2> QED
    BY <2>5, <2>6, <2>9, <2>10 DEF CInv
<1> QED
  BY <1>1, <1>3, <1>4

LEMMA Assembling ==
  ASSUME CInv, Assemble
  PROVE  CInv'
<1>1. /\ UNCHANGED <<state, request, context, owner, base, dims, rank, joined, facts, columns, where>>
      /\ pc = "assembling"
      /\ \/ pc' = "failed" /\ error' = "MetricResolution"
         \/ pc' = "facts" /\ error' = error /\ Resolvable(owner, request.filters)
  BY DEF Assemble, Check, Fail, Go, asked, resolved, written
<1>2. PICK first \in SUBSET joined :
        /\ base \in first
        /\ \A e \in joined : \E f \in first : NodeTable(f) = NodeTable(e)
        /\ \A e, f \in first : NodeTable(e) = NodeTable(f) => e = f
        /\ from' = {Relation(e, e \in first) : e \in joined}
  <2>1. PICK first \in Plainly([e \in joined |-> NodeTable(e)], base, joined) :
          from' = {Relation(e, e \in first) : e \in joined}
    BY DEF Assemble
  <2> QED
    BY <2>1 DEF Plainly
<1>3. \A s \in from' : s.entity \in joined /\ s.plain \in BOOLEAN
  <2>1. SUFFICES ASSUME NEW e \in joined, NEW s, s = Relation(e, e \in first)
                 PROVE  s.entity \in joined /\ s.plain \in BOOLEAN
    BY <1>2
  <2>2. s.entity = e
    BY <2>1 DEF Relation
  <2>3. s.plain = (e \in first)
    BY Zenon, <2>1 DEF Relation
  <2>4. (e \in first) \in BOOLEAN
    OBVIOUS
  <2> QED
    BY Zenon, <2>2, <2>3, <2>4
<1>4. CompilerTypeOK'
  BY <1>1, <1>3 DEF CInv, Typed, CompilerTypeOK, CompilerError
<1>5. CASE pc' = "failed" /\ error' = "MetricResolution"
  BY <1>1, <1>4, <1>5, Failing
<1>6. CASE pc' = "facts" /\ error' = error /\ Resolvable(owner, request.filters)
  <2>1. Typed' /\ ErrorFits'
    BY <1>1, <1>4, <1>6, SameRefs DEF CInv, Typed, ErrorFits, Early, Working
  <2>2. MetricFound' /\ DimsJoined'
    <3>1. pc \in Joined /\ pc' \in Joined
      BY <1>1, <1>6 DEF Joined, Assembled
    <3>2. MetricFound'
      BY <1>1, <3>1, MetricStays DEF CInv, Resolved, Ranked, Joined
    <3> QED
      BY <1>1, <3>1, <3>2, JoinedStays DEF CInv
  <2>3. FromWhole'
    BY <1>1, <1>2, <1>6, SameNames, SameTables DEF FromWhole
  <2>4. RefsLowered' /\ PoliciesPlaced'
    BY <1>6 DEF RefsLowered, PoliciesPlaced, Lowered, Restrained
  <2> QED
    BY <2>1, <2>2, <2>3, <2>4 DEF CInv
<1> QED
  BY <1>1, <1>5, <1>6

LEMMA PreAggregating ==
  ASSUME CInv, PreAggregate
  PROVE  CInv'
<1>1. /\ UNCHANGED <<state, request, context, owner, base, dims, rank, joined, from, columns, where>>
      /\ pc = "facts" /\ facts' \subseteq (joined \cap Fact) \cup facts
      /\ \/ pc' = "failed" /\ error' = "ChasmTrapHandlingFailed"
         \/ pc' = "lowering" /\ error' = error
  BY DEF PreAggregate, Fail, Go, asked, resolved, written
<1>2. CompilerTypeOK'
  BY <1>1 DEF CInv, Typed, CompilerTypeOK, CompilerError
<1>3. CASE pc' = "failed" /\ error' = "ChasmTrapHandlingFailed"
  BY <1>1, <1>2, <1>3, Failing
<1>4. CASE pc' = "lowering" /\ error' = error
  <2>1. Typed' /\ ErrorFits'
    BY <1>1, <1>2, <1>4, NoError DEF CInv, Typed, ErrorFits, Early, Working, CompilerError
  <2>2. MetricFound' /\ DimsJoined'
    <3>1. pc \in Joined /\ pc' \in Joined
      BY <1>1, <1>4 DEF Joined, Assembled
    <3>2. MetricFound'
      BY <1>1, <3>1, MetricStays DEF CInv, Resolved, Ranked, Joined
    <3> QED
      BY <1>1, <3>1, <3>2, JoinedStays DEF CInv
  <2>3. FromWhole'
    BY <1>1, <1>4, SameNames, SameTables DEF CInv, FromWhole, Assembled
  <2>4. RefsLowered' /\ PoliciesPlaced'
    BY <1>4 DEF RefsLowered, PoliciesPlaced, Lowered, Restrained
  <2> QED
    BY <2>1, <2>2, <2>3, <2>4 DEF CInv
<1> QED
  BY <1>1, <1>3, <1>4

(* A reference that is left to lower is declared by its entity, once or twice. *)
LEMMA RefsDeclared ==
  ASSUME CInv, pc \in Assembled, NEW r \in DimRefs
  PROVE  \E e \in Entity, d \in Dimension : r = <<e, d>> /\ state.dims[<<owner, e, d>>] \in 1..2
<1>1. /\ owner \in Model /\ base \in EntitiesOf(owner) /\ (\A q \in dims : Declared(q))
      /\ Resolvable(owner, request.filters) /\ state \in World /\ request \in Request
  BY CompilerAssumption DEF CInv, Typed, MetricFound, FromWhole, Resolved, Ranked, Joined
<1>2. \A e \in Entity, d \in Dimension : state.dims[<<owner, e, d>>] \in 0..2
  BY <1>1 DEF World
<1>3. CASE r \in dims
  <2>1. PICK e \in Entity, d \in Dimension : r = <<e, d>> /\ state.dims[<<owner, e, d>>] > 0
    BY <1>1, <1>3 DEF Declared
  <2>2. state.dims[<<owner, e, d>>] \in 1..2
    BY <1>2, <2>1
  <2> QED
    BY <2>1, <2>2
<1>4. CASE r \in FilterRefs
  <2>1. PICK d \in request.filters : r = <<TheHolder(owner, d), d>>
    BY <1>4 DEF FilterRefs
  <2>2. TheHolder(owner, d) \in Entity /\ state.dims[<<owner, TheHolder(owner, d), d>>] > 0
    BY <1>1, HolderHolds DEF EntitiesOf
  <2>3. d \in Dimension
    BY <1>1 DEF Request
  <2> QED
    BY <1>2, <2>1, <2>2, <2>3
<1>5. CASE r \in GrainRefs
  <2>1. PICK t \in TimeDeclarations(owner, base) : r = <<base, t[1]>>
    BY <1>5 DEF GrainRefs
  <2>2. t \in TimeDimension \X (1..2) /\ t[2] <= state.dims[<<owner, base, t[1]>>]
    BY <2>1 DEF TimeDeclarations
  <2>3. t[1] \in Dimension /\ base \in Entity /\ t[2] \in 1..2
    BY <1>1, <2>2, CompilerAssumption DEF EntitiesOf
  <2>4. state.dims[<<owner, base, t[1]>>] \in 1..2
    <3>1. state.dims[<<owner, base, t[1]>>] \in 0..2
      BY <1>2, <2>3
    <3> QED
      BY <2>2, <2>3, <3>1
  <2> QED
    BY <2>1, <2>3, <2>4
<1> QED
  BY <1>3, <1>4, <1>5 DEF DimRefs

(* A declaration made once is one hit. *)
LEMMA OneHit ==
  ASSUME NEW r, owner \in Model, state.dims[<<owner, r[1], r[2]>>] = 1
  PROVE  Cardinality(Hits(r)) = 1
<1>1. Hits(r) = {<<owner, 1>>}
  <2>1. ASSUME NEW h \in Hits(r) PROVE h = <<owner, 1>>
    <3>1. h \in Model \X (1..2) /\ h[1] = owner /\ h[2] <= state.dims[<<h[1], r[1], r[2]>>]
      BY <2>1 DEF Hits, Index
    <3> QED
      BY <3>1
  <2>2. <<owner, 1>> \in Hits(r)
    <3>1. <<owner, 1>> \in Model \X (1..2)
      OBVIOUS
    <3> QED
      BY <3>1 DEF Hits, Index
  <2> QED
    BY <2>1, <2>2
<1> QED
  BY <1>1, FS_Singleton

(* What is lowered is the declaration of the metric's model. *)
LEMMA HitIsOwn ==
  ASSUME NEW r, Cardinality(Hits(r)) = 1
  PROVE  (CHOOSE h \in Hits(r) : TRUE)[1] = owner
<1>1. Hits(r) # {}
  BY OneIsSome
<1>2. (CHOOSE h \in Hits(r) : TRUE) \in Hits(r)
  BY <1>1
<1> QED
  BY <1>2 DEF Hits

LEMMA Lowering ==
  ASSUME CInv, Lower
  PROVE  CInv'
<1> DEFINE bad == \/ \E r \in DimRefs : Cardinality(Hits(r)) # 1
                  \/ base \notin facts /\ state.measures[<<owner, base, TheMetric.measure>>] # 1
<1>1. /\ UNCHANGED <<state, request, context, owner, base, dims, rank, joined, from, facts, where>>
      /\ pc = "lowering"
      /\ \/ bad /\ pc' = "failed" /\ error' = "Lowering" /\ columns' = columns
         \/ /\ ~bad /\ pc' = "restricting" /\ error' = error
            /\ columns' = [r \in DimRefs |->
                           ColumnOf[<<(CHOOSE h \in Hits(r) : TRUE)[1], r[1], r[2]>>]]
  BY DEF Lower, Check, Fail, Go, asked, resolved, planned
<1>2. CASE bad /\ pc' = "failed" /\ error' = "Lowering" /\ columns' = columns
  <2>1. CompilerTypeOK'
    BY <1>1, <1>2 DEF CInv, Typed, CompilerTypeOK, CompilerError
  <2>2. DeclaredTwice
    <3>1. CASE \E r \in DimRefs : Cardinality(Hits(r)) # 1
      <4>1. PICK r \in DimRefs : Cardinality(Hits(r)) # 1
        BY <3>1
      <4>2. PICK e \in Entity, d \in Dimension : r = <<e, d>> /\ state.dims[<<owner, e, d>>] \in 1..2
        BY <1>1, RefsDeclared DEF Assembled
      <4>3. state.dims[<<owner, e, d>>] # 1
        <5>1. owner \in Model
          BY <1>1 DEF CInv, MetricFound, Resolved, Ranked, Joined, Assembled
        <5> QED
          BY <4>1, <4>2, <5>1, OneHit
      <4>4. state.dims[<<owner, e, d>>] = 2
        BY <4>2, <4>3
      <4> QED
        BY <4>2, <4>4 DEF DeclaredTwice
    <3>2. CASE state.measures[<<owner, base, TheMetric.measure>>] # 1
      <4>1. /\ owner \in Model /\ base \in Entity /\ TheMetric.measure \in Measure
            /\ state \in World /\ state.measures[<<owner, base, TheMetric.measure>>] > 0
        BY <1>1, CompilerAssumption
           DEF CInv, Typed, MetricFound, Resolved, Ranked, Joined, Assembled, EntitiesOf
      <4>2. state.measures[<<owner, base, TheMetric.measure>>] \in 0..2
        BY <4>1 DEF World
      <4> QED
        BY <3>2, <4>1, <4>2 DEF DeclaredTwice
    <3> QED
      BY <1>2, <3>1, <3>2
  <2>3. ErrorFits'
    BY <1>1, <1>2, <2>2, SameRefs DEF ErrorFits, Working, Early
  <2> QED
    BY <1>1, <1>2, <2>1, <2>3
       DEF CInv, Typed, MetricFound, DimsJoined, FromWhole, RefsLowered, PoliciesPlaced,
           Early, Restrained, Lowered, Assembled, Joined, Ranked, Resolved
<1>3. CASE /\ ~bad /\ pc' = "restricting" /\ error' = error
           /\ columns' = [r \in DimRefs |->
                           ColumnOf[<<(CHOOSE h \in Hits(r) : TRUE)[1], r[1], r[2]>>]]
  <2>1. columns' = [r \in DimRefs |-> ColumnOf[<<owner, r[1], r[2]>>]]
    <3>1. ASSUME NEW r \in DimRefs PROVE (CHOOSE h \in Hits(r) : TRUE)[1] = owner
      <4>1. Cardinality(Hits(r)) = 1
        BY <1>3
      <4> QED
        BY <4>1, HitIsOwn
    <3> QED
      BY <1>3, <3>1
  <2>2. CompilerTypeOK'
    <3>1. ASSUME NEW r \in DimRefs PROVE r \in Entity \X Dimension
      <4>1. PICK e \in Entity, d \in Dimension : r = <<e, d>>
        BY <1>1, RefsDeclared DEF Assembled
      <4> QED
        BY <4>1
    <3>2. DOMAIN columns' \subseteq Entity \X Dimension
      BY <2>1, <3>1
    <3> QED
      BY <1>1, <1>3, <3>2 DEF CInv, Typed, CompilerTypeOK
  <2>3. Typed' /\ ErrorFits'
    BY <1>1, <1>3, <2>2, SameRefs DEF CInv, Typed, ErrorFits, Early, Working
  <2>4. MetricFound' /\ DimsJoined'
    <3>1. pc \in Joined /\ pc' \in Joined
      BY <1>1, <1>3 DEF Joined, Assembled, Lowered
    <3>2. MetricFound'
      BY <1>1, <3>1, MetricStays DEF CInv, Resolved, Ranked, Joined
    <3> QED
      BY <1>1, <3>1, <3>2, JoinedStays DEF CInv
  <2>5. FromWhole'
    BY <1>1, <1>3, SameNames, SameTables DEF CInv, FromWhole, Assembled, Lowered
  <2>7. RefsLowered'
    BY <1>1, <2>1, SameRefs DEF RefsLowered
  <2>8. PoliciesPlaced'
    BY <1>3 DEF PoliciesPlaced, Restrained
  <2> QED
    BY <2>3, <2>4, <2>5, <2>7, <2>8 DEF CInv
<1> QED
  BY <1>1, <1>2, <1>3

LEMMA Restricting ==
  ASSUME CInv, Inject \/ Generate
  PROVE  CInv'
<1>1. /\ UNCHANGED <<state, request, context, owner, base, dims, rank, joined, from, facts, columns>>
      /\ \/ pc' = "failed" /\ error' \in {"Rls", "CodeGeneration"}
         \/ /\ pc = "restricting" /\ pc' = "generating" /\ error' = error
            /\ context # None => where' = [l \in Levels |-> {Predicate(p) : p \in PoliciesAt(l)}]
         \/ pc = "generating" /\ pc' = "compiled" /\ error' = error /\ where' = where
  <2>1. CASE Inject
    BY <2>1 DEF Inject, Fail, Go, asked, resolved, planned
  <2>2. CASE Generate
    BY <2>2 DEF Generate, Check, Fail, Go, asked, resolved, planned, written
  <2> QED
    BY <2>1, <2>2
<1>2. CompilerTypeOK'
  BY <1>1 DEF CInv, Typed, CompilerTypeOK, CompilerError
<1>3. CASE pc' = "failed" /\ error' \in {"Rls", "CodeGeneration"}
  BY <1>1, <1>2, <1>3, Failing
<1>4. CASE pc \in {"restricting", "generating"} /\ pc' \in Restrained /\ error' = error
  <2>1. Typed' /\ ErrorFits'
    BY <1>1, <1>2, <1>4, SameRefs DEF CInv, Typed, ErrorFits, Early, Working, Restrained
  <2>2. MetricFound' /\ DimsJoined'
    <3>1. pc \in Joined /\ pc' \in Joined
      BY <1>4 DEF Joined, Assembled, Lowered, Restrained
    <3>2. MetricFound'
      BY <1>1, <3>1, MetricStays DEF CInv, Resolved, Ranked, Joined
    <3> QED
      BY <1>1, <3>1, <3>2, JoinedStays DEF CInv
  <2>3. FromWhole'
    BY <1>1, <1>4, SameNames, SameTables DEF CInv, FromWhole, Assembled, Lowered, Restrained
  <2>4. RefsLowered'
    BY <1>1, <1>4, SameRefs DEF CInv, RefsLowered, Lowered, Restrained
  <2>5. PoliciesPlaced'
    <3>1. ASSUME context # None PROVE where' = [l \in Levels |-> {Predicate(p) : p \in PoliciesAt(l)}]
      BY <1>1, <1>4, <3>1 DEF CInv, PoliciesPlaced, Restrained
    <3> QED
      BY <1>1, <3>1, SamePolicies DEF PoliciesPlaced
  <2> QED
    BY <2>1, <2>2, <2>3, <2>4, <2>5 DEF CInv
<1> QED
  BY <1>1, <1>3, <1>4 DEF Restrained

LEMMA Compiling ==
  ASSUME CInv, Compile
  PROVE  CInv'
<1>1. CASE ValidateRequest \/ FindModel \/ ResolveMetric \/ Truncate \/ GetGraph
  BY <1>1, Validate, Find, Resolve, Truncating, Graphing
<1>2. CASE Join \/ Assemble \/ PreAggregate \/ Lower
  BY <1>2, Joining, Assembling, PreAggregating, Lowering
<1>3. CASE Inject \/ Generate
  BY <1>3, Restricting
<1> QED
  BY <1>1, <1>2, <1>3 DEF Compile

--------------------------------------------------------------------------------
(***************************************************************************)
(* The gateway: who asks is one of Asks, and for the statement in hand the *)
(* stream has given its first k rows, all before any error; what was taken *)
(* are rows.                                                               *)
(***************************************************************************)
AskKept ==
  /\ \E a \in Asks : /\ caller = a.caller /\ context = a.context /\ body = a.body
                     /\ text = a.text /\ quotes = a.quotes
  /\ rows \in Statement
  /\ pc # "answered" => answer = None

StreamTyped == out \in [Statement -> Seq(Nat)] /\ ended \in [Statement -> BOOLEAN]

RowsFirst(s, k) == k <= Len(s) /\ \A i \in 1..Len(s) : s[i] = IF i <= k THEN i ELSE 0

RowsGiven ==
  \E k \in 0..rows : /\ RowsFirst(out[rows], k)
                     /\ ended[rows] /\ Len(out[rows]) = k => k = rows

RowsTaken ==
  /\ got \in 0..Len(out[rows])
  /\ \A i \in 1..got : out[rows][i] # 0

GInv == CInv /\ AskKept /\ StreamTyped /\ RowsGiven /\ RowsTaken /\ WholeOrError

(* A step of the compiler, or of the gateway before it reads rows or after. *)
LEMMA StreamStays ==
  ASSUME GInv, CInv', UNCHANGED <<caller, context, body, text, quotes, rows, out, ended, got>>,
         \/ pc' # "answered" /\ answer' = answer
         \/ pc' = "answered" /\ answer'[1] # "rows",
         pc # "answered"
  PROVE  GInv'
<1>1. AskKept'
  BY DEF GInv, AskKept
<1>2. StreamTyped' /\ RowsGiven' /\ RowsTaken'
  BY DEF GInv, StreamTyped, RowsGiven, RowsFirst, RowsTaken
<1>3. WholeOrError'
  BY DEF WholeOrError
<1> QED
  BY <1>1, <1>2, <1>3 DEF GInv

LEMMA CompilingKeeps ==
  ASSUME GInv, Compile, UNCHANGED <<gvars, stream, got, answer>>
  PROVE  GInv'
<1>1. CInv'
  BY Compiling DEF GInv
<1>2. pc # "answered" /\ pc' # "answered" /\ context' = context
  BY DEF Compile, ValidateRequest, FindModel, ResolveMetric, Truncate, GetGraph, Join, Assemble,
         PreAggregate, Lower, Inject, Generate, Check, Fail, Go, asked
<1> QED
  BY <1>1, <1>2, StreamStays DEF gvars, stream

(* Asking, answering and dispatching. *)
LEMMA ServingKeeps ==
  ASSUME GInv,
         MapRequest \/ AnswerCompiled \/ ReadText \/ WireCompiled \/ Dispatch \/ Execute
  PROVE  GInv'
<1>1. /\ UNCHANGED <<asked, resolved, planned, written, error>>
      /\ UNCHANGED <<caller, context, body, text, quotes, rows, out, ended, got>>
      /\ pc # "answered"
  BY DEF MapRequest, AnswerCompiled, ReadText, WireCompiled, Dispatch, Execute, gvars, stream, asked
<1>2. \/ pc = "asked" /\ pc' = "validating"
      \/ pc' \in {"answered", "dispatching", "executing", "reading"}
  BY DEF MapRequest, AnswerCompiled, ReadText, WireCompiled, Dispatch, Execute, Answer
<1>3. \/ pc' # "answered" /\ answer' = answer
      \/ pc' = "answered" /\ answer'[1] # "rows"
  <2>1. ASSUME NEW kind \in {"status", "empty query", "error", "OK", "version", "one"}, NEW n,
               pc' = "answered", answer' = <<kind, n>>
        PROVE  answer'[1] # "rows"
    BY <2>1
  <2>2. CASE MapRequest
    <3>1. CASE Refused
      <4>1. pc' = "answered" /\ answer' = <<"status", 400>>
        BY <2>2, <3>1, Zenon DEF MapRequest, Answer
      <4> QED
        BY <2>1, <4>1
    <3>2. CASE ~Refused
      <4>1. pc' = "validating" /\ answer' = answer
        BY <2>2, <3>2, Zenon DEF MapRequest
      <4> QED
        BY <4>1
    <3> QED
      BY <3>1, <3>2
  <2>3. CASE AnswerCompiled
    <3>1. \E n : pc' = "answered" /\ answer' = <<"status", n>>
      BY <2>3, Zenon DEF AnswerCompiled, Answer
    <3> QED
      BY <2>1, <3>1
  <2>4. CASE ReadText
    <3>1. CASE text \in {"", "SEMANTIC bad JSON"}
      <4>1. \/ pc' = "answered" /\ answer' = <<"empty query", 0>>
            \/ pc' = "answered" /\ answer' = <<"error", 0>>
        BY <2>4, <3>1 DEF ReadText, Answer
      <4> QED
        BY <2>1, <4>1
    <3>2. CASE text \notin {"", "SEMANTIC bad JSON"}
      BY <2>4, <3>2 DEF ReadText
    <3> QED
      BY <3>1, <3>2
  <2>5. CASE WireCompiled
    BY <2>5, <2>1 DEF WireCompiled, Answer
  <2>6. CASE Dispatch
    BY <2>6, <2>1 DEF Dispatch, Answer
  <2>7. CASE Execute
    BY <2>7, <2>1 DEF Execute, Answer
  <2> QED
    BY <2>2, <2>3, <2>4, <2>5, <2>6, <2>7
<1>4. CInv'
  BY <1>1, <1>2, Elsewhere DEF GInv
<1> QED
  BY <1>1, <1>3, <1>4, StreamStays

LEMMA PollKeeps ==
  ASSUME GInv, Poll
  PROVE  GInv'
<1>1. /\ pc = "reading" /\ pc' = pc /\ got = Len(out[rows]) /\ Source!Step(rows)
      /\ UNCHANGED <<caller, body, text, quotes, rows, got, answer, context>>
      /\ UNCHANGED <<asked, resolved, planned, written, error>>
  BY DEF Poll, Given, cvars, gvars, asked
<1>2. CInv'
  BY <1>1, Elsewhere DEF GInv
<1>3. AskKept' /\ WholeOrError'
  BY <1>1 DEF GInv, AskKept, WholeOrError
<1>4. PICK k \in 0..rows : RowsFirst(out[rows], k) /\ (ended[rows] /\ Len(out[rows]) = k => k = rows)
  BY DEF GInv, RowsGiven
<1>5. /\ rows \in Statement /\ rows \in Nat /\ MaxRows \in Nat
      /\ out \in [Statement -> Seq(Nat)] /\ ended \in [Statement -> BOOLEAN] /\ got \in Nat
      /\ \A i \in 1..got : out[rows][i] # 0
  BY GatewayAssumption DEF GInv, AskKept, StreamTyped, RowsTaken, Statement
<1>6. Len(out[rows]) = k /\ ~Source!Failed(out[rows])
  <2>1. out[rows] \in Seq(Nat)
    BY <1>5
  <2>2. ~Source!Failed(out[rows])
    BY <1>1, <1>5, <2>1 DEF Source!Failed, Source!Error
  <2>3. ASSUME Len(out[rows]) > k PROVE FALSE
    BY <1>1, <1>4, <1>5, <2>1, <2>3 DEF RowsFirst
  <2> QED
    BY <1>4, <2>1, <2>2, <2>3 DEF RowsFirst
<1>7. PICK n \in k..rows : \/ out' = [out EXCEPT ![rows] = Source!Prefix(n)]
                              /\ (ended'[rows] => Len(out'[rows]) = rows)
                           \/ out' = [out EXCEPT ![rows] = Append(Source!Prefix(n), 0)]
  BY <1>1, <1>5, <1>6
     DEF Source!Step, Source!Gives, Source!Breaks, Source!Error
<1>n. n \in Nat
  BY <1>4, <1>5
<1>8. PICK s \in Seq(Nat) : s = Source!Prefix(n) /\ Len(s) = n /\ \A i \in 1..n : s[i] = i
  <2>1. /\ Source!Prefix(n) \in Seq(Nat) /\ Len(Source!Prefix(n)) = n
        /\ \A i \in 1..n : Source!Prefix(n)[i] = i
    BY <1>n DEF Source!Prefix
  <2> QED
    BY <2>1
<1>9. StreamTyped'
  <2>1. out' \in [Statement -> Seq(Nat)]
    <3>1. PICK t \in Seq(Nat) : out' = [out EXCEPT ![rows] = t]
      <4>1. Append(s, 0) \in Seq(Nat)
        BY <1>8
      <4> QED
        BY <1>7, <1>8, <4>1
    <3> QED
      BY <1>5, <3>1
  <2>2. PICK e \in BOOLEAN : ended' = [ended EXCEPT ![rows] = e]
    BY <1>1 DEF Source!Step
  <2> QED
    BY <1>5, <2>1, <2>2 DEF StreamTyped
<1>10. PICK t \in Seq(Nat) :
         /\ t = out'[rows] /\ RowsFirst(t, n) /\ \A i \in 1..n : t[i] = i
         /\ Len(t) >= n
         /\ ended'[rows] /\ Len(t) = n => n = rows
  <2>1. CASE out' = [out EXCEPT ![rows] = Source!Prefix(n)] /\ (ended'[rows] => Len(out'[rows]) = rows)
    <3>1. out'[rows] = s
      BY <1>5, <1>8, <2>1
    <3>2. RowsFirst(s, n)
      BY <1>5, <1>8 DEF RowsFirst
    <3> QED
      BY <1>8, <2>1, <3>1, <3>2
  <2>2. CASE out' = [out EXCEPT ![rows] = Append(Source!Prefix(n), 0)]
    <3>1. PICK t \in Seq(Nat) : t = Append(s, 0) /\ Len(t) = n + 1 /\ t[n + 1] = 0
                                /\ \A i \in 1..n : t[i] = i
      <4>1. /\ Append(s, 0) \in Seq(Nat) /\ Len(Append(s, 0)) = Len(s) + 1
            /\ Append(s, 0)[Len(s) + 1] = 0
        BY <1>8
      <4>2. ASSUME NEW i \in 1..n PROVE Append(s, 0)[i] = i
        <5>1. i \in 1..Len(s) /\ s[i] = i
          BY <1>8, <4>2
        <5>2. Append(s, 0)[i] = s[i]
          BY <5>1
        <5> QED
          BY <5>1, <5>2
      <4> QED
        BY <1>8, <4>1, <4>2
    <3>2. out'[rows] = t
      BY <1>5, <1>8, <2>2, <3>1
    <3>3. RowsFirst(t, n)
      BY <1>n, <3>1 DEF RowsFirst
    <3>4. Len(t) >= n /\ Len(t) # n
      BY <1>n, <3>1
    <3> QED
      BY <3>1, <3>2, <3>3, <3>4
  <2> QED
    BY <1>7, <2>1, <2>2
<1>11. n \in 0..rows /\ got <= n /\ rows' = rows /\ got' = got
  BY <1>1, <1>4, <1>5, <1>6
<1>12. RowsGiven'
  BY <1>10, <1>11 DEF RowsGiven
<1>13. RowsTaken'
  <2>1. got \in 0..Len(t)
    BY <1>5, <1>10, <1>11
  <2>2. \A i \in 1..got : t[i] # 0
    BY <1>5, <1>10, <1>11
  <2> QED
    BY <1>10, <1>11, <2>1, <2>2 DEF RowsTaken
<1> QED
  BY <1>2, <1>3, <1>9, <1>12, <1>13 DEF GInv

LEMMA TakeKeeps ==
  ASSUME GInv, Take
  PROVE  GInv'
<1>1. /\ pc = "reading" /\ got < Len(out[rows])
      /\ UNCHANGED <<caller, context, body, text, quotes, rows, out, ended>>
      /\ UNCHANGED <<asked, resolved, planned, written, error>>
      /\ \/ pc' = "answered" /\ answer' = <<"error", 0>> /\ got' = got
         \/ pc' = pc /\ answer' = answer /\ got' = got + 1 /\ out[rows][got + 1] # 0
  BY DEF Take, Given, gvars, stream, asked, Answer, Source!Error
<1>2. CInv'
  BY <1>1, Elsewhere DEF GInv
<1>3. CASE pc' = "answered" /\ answer' = <<"error", 0>> /\ got' = got
  <2>1. answer'[1] # "rows"
    BY <1>3
  <2> QED
    BY <1>1, <1>2, <1>3, <2>1, StreamStays
<1>4. CASE pc' = pc /\ answer' = answer /\ got' = got + 1 /\ out[rows][got + 1] # 0
  <2>1. AskKept' /\ StreamTyped' /\ RowsGiven' /\ WholeOrError'
    BY <1>1, <1>4 DEF GInv, AskKept, StreamTyped, RowsGiven, RowsFirst, WholeOrError
  <2>2. RowsTaken'
    <3>1. out[rows] \in Seq(Nat) /\ got \in Nat /\ \A i \in 1..got : out[rows][i] # 0
      BY DEF GInv, AskKept, StreamTyped, RowsTaken
    <3>2. got + 1 \in 0..Len(out[rows]) /\ \A i \in 1..(got + 1) : out[rows][i] # 0
      BY <1>1, <1>4, <3>1
    <3> QED
      BY <1>1, <1>4, <3>2 DEF RowsTaken
  <2> QED
    BY <1>2, <2>1, <2>2 DEF GInv
<1> QED
  BY <1>1, <1>3, <1>4

(* The stream has ended and nothing it gave is an error: it gave all rows. *)
LEMMA DeliverKeeps ==
  ASSUME GInv, Deliver
  PROVE  GInv'
<1>1. /\ pc = "reading" /\ ended[rows] /\ got = Len(out[rows])
      /\ pc' = "answered" /\ answer' = <<"rows", got>>
      /\ UNCHANGED <<caller, context, body, text, quotes, rows, out, ended, got>>
      /\ UNCHANGED <<asked, resolved, planned, written, error>>
  BY DEF Deliver, Given, gvars, stream, asked, Answer
<1>2. CInv'
  BY <1>1, Elsewhere DEF GInv
<1>3. AskKept' /\ StreamTyped' /\ RowsGiven' /\ RowsTaken'
  BY <1>1 DEF GInv, AskKept, StreamTyped, RowsGiven, RowsFirst, RowsTaken
<1>4. PICK k \in 0..rows : RowsFirst(out[rows], k) /\ (Len(out[rows]) = k => k = rows)
  BY <1>1 DEF GInv, RowsGiven
<1>5. out[rows] \in Seq(Nat) /\ rows \in Nat /\ \A i \in 1..Len(out[rows]) : out[rows][i] # 0
  BY <1>1, GatewayAssumption DEF GInv, AskKept, StreamTyped, RowsTaken, Statement
<1>6. Len(out[rows]) = k
  BY <1>4, <1>5 DEF RowsFirst
<1>7. ~Source!Failed(out[rows])
  BY <1>5 DEF Source!Failed, Source!Error
<1>8. WholeOrError'
  BY <1>1, <1>4, <1>6, <1>7 DEF WholeOrError, Given, Source!Failed, Source!Error
<1> QED
  BY <1>2, <1>3, <1>8 DEF GInv

--------------------------------------------------------------------------------
LEMMA Starts == Init => GInv
<1> SUFFICES ASSUME Init PROVE GInv
  OBVIOUS
<1>1. PICK a \in Asks :
        /\ caller = a.caller /\ context = a.context /\ body = a.body
        /\ text = a.text /\ quotes = a.quotes
        /\ rows \in IF a.text = "other" /\ a.caller = "wire" THEN Statement ELSE {MaxRows}
        /\ pc = IF a.caller = "library" THEN "validating" ELSE "asked"
  BY DEF Init
<1>2. /\ owner = None /\ base = None /\ dims = {} /\ joined = {} /\ from = {}
      /\ facts = {} /\ columns = <<>> /\ error = None /\ got = 0 /\ answer = None
      /\ state \in Worlds /\ request \in Requests /\ Source!Init
  BY DEF Init, Idle
<1>3. rows \in Statement
  BY <1>1, GatewayAssumption DEF Statement
<1>4. AskKept
  BY <1>1, <1>2, <1>3 DEF AskKept
<1>5. CInv
  <2>1. Typed
    BY <1>1, <1>2 DEF Typed, CompilerTypeOK, Early
  <2>2. ErrorFits
    BY <1>1, <1>2, NoError DEF ErrorFits, CompilerError
  <2> QED
    BY <1>1, <2>1, <2>2
       DEF CInv, MetricFound, DimsJoined, FromWhole, RefsLowered, PoliciesPlaced,
           Restrained, Lowered, Assembled, Joined, Ranked, Resolved
<1>6. StreamTyped
  BY <1>2 DEF StreamTyped, Source!Init
<1>7. out[rows] = <<>> /\ ended[rows] = FALSE /\ rows \in Nat
  BY <1>2, <1>3, GatewayAssumption DEF Source!Init, Statement
<1>8. RowsGiven
  <2>1. RowsFirst(<<>>, 0) /\ 0 \in 0..rows
    BY <1>7 DEF RowsFirst
  <2> QED
    BY <1>7, <2>1 DEF RowsGiven
<1>9. RowsTaken /\ WholeOrError
  BY <1>1, <1>2, <1>7 DEF RowsTaken, WholeOrError
<1> QED
  BY <1>4, <1>5, <1>6, <1>8, <1>9 DEF GInv

LEMMA Steps == GInv /\ [Next]_vars => GInv'
<1> SUFFICES ASSUME GInv, [Next]_vars PROVE GInv'
  OBVIOUS
<1>1. CASE Compile /\ UNCHANGED <<gvars, stream, got, answer>>
  BY <1>1, CompilingKeeps
<1>2. CASE MapRequest \/ AnswerCompiled \/ ReadText \/ WireCompiled \/ Dispatch \/ Execute
  BY <1>2, ServingKeeps
<1>3. CASE Poll \/ Take \/ Deliver
  BY <1>3, PollKeeps, TakeKeeps, DeliverKeeps
<1>4. CASE UNCHANGED vars
  <2>1. /\ UNCHANGED <<asked, resolved, planned, written, error>> /\ pc' = pc
        /\ UNCHANGED <<caller, body, text, quotes, rows, out, ended, got, answer, context>>
    BY <1>4 DEF vars, cvars, gvars, stream, asked
  <2>2. CInv'
    BY <2>1, Elsewhere DEF GInv
  <2>3. AskKept' /\ StreamTyped' /\ RowsGiven' /\ RowsTaken' /\ WholeOrError'
    BY <2>1 DEF GInv, AskKept, StreamTyped, RowsGiven, RowsFirst, RowsTaken, WholeOrError, Given,
                Source!Failed, Source!Error
  <2> QED
    BY <2>2, <2>3 DEF GInv
<1> QED
  BY <1>1, <1>2, <1>3, <1>4 DEF Next

THEOREM Inductive == Spec => []GInv
BY Starts, Steps, PTL DEF Spec

(* The state of every query is of its type. *)
THEOREM TypeCorrect == Spec => []TypeOK
<1>1. GInv => TypeOK
  <2> SUFFICES ASSUME GInv PROVE TypeOK
    OBVIOUS
  <2>1. CompilerTypeOK
    BY DEF GInv, CInv, Typed
  <2>2. PICK k \in 0..rows : RowsFirst(out[rows], k)
    BY DEF GInv, RowsGiven
  <2>3. /\ rows \in Nat /\ got \in 0..Len(out[rows]) /\ out[rows] \in Seq(Nat)
        /\ \A i \in 1..got : out[rows][i] # 0
    BY GatewayAssumption DEF GInv, AskKept, StreamTyped, RowsTaken, Statement
  <2>4. got <= k
    <3>1. SUFFICES ASSUME got > k PROVE FALSE
      BY <2>2, <2>3
    <3>2. got \in 1..got /\ got \in 1..Len(out[rows])
      BY <2>3, <3>1
    <3>3. out[rows][got] = 0
      BY <2>2, <3>1, <3>2 DEF RowsFirst
    <3> QED
      BY <2>3, <3>2, <3>3
  <2>5. got <= rows
    BY <2>2, <2>3, <2>4
  <2> QED
    BY <2>1, <2>3, <2>5 DEF TypeOK, GInv, AskKept, Given
<1> QED
  BY <1>1, Inductive, PTL

(***************************************************************************)
(* A wire client that gets rows gets the whole result of its statement,    *)
(* however long, and however often the stream is polled in vain.           *)
(***************************************************************************)
THEOREM RowsAreWhole == Spec => []WholeOrError
<1>1. GInv => WholeOrError
  BY DEF GInv
<1> QED
  BY <1>1, Inductive, PTL

(***************************************************************************)
(* Whatever the models share of names and tables, a reference to an entity *)
(* that is joined and on its own table can be read from its own relation:  *)
(* the relation is in FROM, no CTE has taken its place, and its table has  *)
(* the bare column the reference was lowered to.                           *)
(***************************************************************************)
THEOREM OwnColumnCorrect == Spec => []OwnColumnRead
<1>1. ASSUME CInv, Compiled, NEW r \in DimRefs, r[1] \in joined \ facts, OnOwnTable(r[1])
      PROVE  \E s \in Relations("outer") : s.entity = r[1] /\ columns[r] \in Columns[s.table]
  <2>1. /\ pc \in Lowered /\ pc \in Assembled /\ pc \in Resolved
        /\ columns = [x \in DimRefs |-> ColumnOf[<<owner, x[1], x[2]>>]]
    BY <1>1 DEF CInv, RefsLowered, Compiled, Lowered, Restrained, Assembled, Joined, Ranked, Resolved
  <2>2. PICK first \in SUBSET joined : from = {Relation(e, e \in first) : e \in joined}
    BY <1>1, <2>1 DEF CInv, FromWhole
  <2> DEFINE s == Relation(r[1], r[1] \in first)
  <2>3. s \in from /\ s.entity = r[1] /\ s.table = TableOf[<<owner, r[1]>>]
    BY <1>1, <2>2 DEF Relation, OnOwnTable
  <2>4. ~Replaced(s)
    BY <1>1, <2>3 DEF Replaced, OnOwnTable
  <2>5. s \in Relations("outer")
    BY <2>3, <2>4 DEF Relations
  <2>6. columns[r] \in Columns[TableOf[<<owner, r[1]>>]]
    <3>1. PICK e \in Entity, d \in Dimension : r = <<e, d>> /\ state.dims[<<owner, e, d>>] \in 1..2
      BY <1>1, <2>1, RefsDeclared
    <3>2. state \in Worlds /\ owner \in Model /\ state \in World
      BY <1>1, <2>1, CompilerAssumption DEF CInv, Typed, MetricFound
    <3>3. <<owner, e, d>> \in DOMAIN state.dims
      BY <3>2 DEF World
    <3>4. ColumnOf[<<owner, e, d>>] \in Columns[TableOf[<<owner, e>>]]
      BY <3>1, <3>2, <3>3, ColumnsAssumption
    <3>5. columns[r] = ColumnOf[<<owner, r[1], r[2]>>]
      BY <2>1
    <3> QED
      BY <3>1, <3>4, <3>5
  <2> QED
    BY <2>3, <2>5, <2>6
<1>2. GInv => OwnColumnRead
  BY <1>1 DEF GInv, OwnColumnRead
<1> QED
  BY <1>2, Inductive, PTL

(* Where the names are unique and no fact shares its table, the CTE of a fact replaces it. *)
LEMMA FactReplaced ==
  ASSUME CInv, pc \in Assembled, NEW f \in facts, NamesUnique, FactsOwnTheirTable
  PROVE  \E s \in from : s.entity = f /\ Replaced(s)
<1>1. PICK first \in SUBSET joined :
        /\ base \in first
        /\ \A e \in joined : \E g \in first : NodeTable(g) = NodeTable(e)
        /\ from = {Relation(e, e \in first) : e \in joined}
  BY DEF CInv, FromWhole
<1>2. /\ f \in joined /\ joined \subseteq Entity /\ base \in EntitiesOf(owner) /\ owner \in Model
      /\ Declaring(f) # {}
  BY DEF CInv, Typed, CompilerTypeOK, MetricFound, DimsJoined, Resolved, Ranked, Joined
<1>3. PICK m \in Model : Declaring(f) = {m}
  <2>1. IsFiniteSet(Declaring(f)) /\ Cardinality(Declaring(f)) <= 1
    <3>1. Declaring(f) \subseteq Model /\ IsFiniteSet(Model)
      BY CompilerAssumption DEF Declaring
    <3> QED
      BY <1>2, <3>1, FS_Subset DEF NamesUnique
  <2>2. PICK m \in Declaring(f) : TRUE
    BY <1>2
  <2> QED
    BY <2>1, <2>2, AtMostOne DEF Declaring
<1>4. NodeOf(f) = m /\ FoundIn(f) = m
  <2>1. rank[m] <= rank[m]
    <3>1. rank \in [Model -> 1..Cardinality(Model)]
      BY DEF CInv, DimsJoined, Ranked, Joined
    <3> QED
      BY <3>1
  <2> QED
    BY <1>3, <2>1 DEF NodeOf, FoundIn
<1>5. NodeTable(f) = FoundTable(f)
  <2>1. CASE f = base
    <3>1. owner = m
      BY <1>2, <1>3, <2>1 DEF EntitiesOf, Declaring
    <3> QED
      BY <1>4, <2>1, <3>1 DEF NodeTable, FoundTable
  <2>2. CASE f # base
    BY <1>4, <2>2 DEF NodeTable, FoundTable
  <2> QED
    BY <2>1, <2>2
<1>6. f \in first
  <2>1. PICK g \in first : NodeTable(g) = NodeTable(f)
    BY <1>1, <1>2
  <2>2. g = f
    BY <1>1, <1>5, <2>1 DEF FactsOwnTheirTable
  <2> QED
    BY <2>1, <2>2
<1>7. Relation(f, f \in first) \in from
  BY <1>1, <1>2
<1>8. /\ Relation(f, f \in first).entity = f
      /\ Relation(f, f \in first).table = NodeTable(f)
      /\ Relation(f, f \in first).plain
  <2>1. Relation(f, f \in first).plain = (f \in first)
    BY Zenon DEF Relation
  <2> QED
    BY <1>6, <2>1 DEF Relation
<1>9. Replaced(Relation(f, f \in first))
  BY <1>5, <1>8 DEF Replaced
<1> QED
  BY <1>7, <1>8, <1>9

(***************************************************************************)
(* Whatever is selected, grouped by or truncated is in the FROM clause,    *)
(* and a pre-aggregated fact in a relation its CTE replaces.               *)
(***************************************************************************)
THEOREM SelectionJoined == Spec => []SelectedIsJoined
<1>1. GInv => SelectedIsJoined
  <2> SUFFICES ASSUME GInv, pc = "compiled", NEW r \in dims \cup GrainRefs
               PROVE  \E s \in from :
                        /\ s.entity = r[1]
                        /\ r[1] \in facts /\ NamesUnique /\ FactsOwnTheirTable => Replaced(s)
    BY DEF SelectedIsJoined, Compiled
  <2>1. CInv /\ pc \in Assembled /\ base \in joined /\ \A q \in dims : q[1] \in joined
    BY DEF GInv, CInv, DimsJoined, Assembled, Lowered, Restrained, Joined
  <2>2. r[1] \in joined
    BY <2>1 DEF GrainRefs
  <2>3. PICK s \in from : s.entity = r[1]
    <3>1. PICK first : from = {Relation(e, e \in first) : e \in joined}
      BY <2>1 DEF CInv, FromWhole
    <3>2. Relation(r[1], r[1] \in first) \in from
      BY <2>2, <3>1
    <3>3. Relation(r[1], r[1] \in first).entity = r[1]
      BY DEF Relation
    <3> QED
      BY <3>2, <3>3
  <2>4. CASE r[1] \in facts /\ NamesUnique /\ FactsOwnTheirTable
    BY <2>1, <2>4, FactReplaced
  <2> QED
    BY <2>3, <2>4
<1> QED
  BY <1>1, Inductive, PTL

(***************************************************************************)
(* With a user context, the policies on the table of each relation of each *)
(* query restrict that query: the relations the injector leaves out share  *)
(* their table with one it looks at.                                       *)
(***************************************************************************)
THEOREM PoliciesHold == Spec => []PoliciesApplied
<1>1. GInv => PoliciesApplied
  <2> SUFFICES ASSUME GInv, pc = "compiled", context # None, FactsOwnTheirTable,
                      NEW l \in Levels, NEW r \in Relations(l), NEW p \in state.policies,
                      TableOf[p.of] = r.table
               PROVE  \E w \in where[l] : w.policy = p /\ (p.claim \notin context => w.denies)
    BY DEF PoliciesApplied, Compiled
  <2>1. CInv /\ where = [k \in Levels |-> {Predicate(q) : q \in PoliciesAt(k)}]
    BY DEF GInv, CInv, PoliciesPlaced, Restrained
  <2>2. PICK s \in Relations(l) : s.plain /\ s.table = r.table
    <3>1. CASE l = "outer"
      <4>1. r \in from /\ ~Replaced(r) /\ Relations(l) = {q \in from : ~Replaced(q)}
        BY <3>1 DEF Relations
      <4>2. PICK first \in SUBSET joined :
              /\ \A e \in joined : \E g \in first : NodeTable(g) = NodeTable(e)
              /\ from = {Relation(e, e \in first) : e \in joined}
        BY <2>1 DEF CInv, FromWhole, Assembled, Lowered, Restrained
      <4>3. PICK e \in joined : r = Relation(e, e \in first)
        BY <4>1, <4>2
      <4>4. PICK g \in first : NodeTable(g) = NodeTable(e)
        BY <4>2
      <4>5. Relation(g, g \in first).plain = (g \in first)
        BY Zenon DEF Relation
      <4>6. /\ Relation(g, g \in first) \in from /\ Relation(g, g \in first).plain
            /\ Relation(g, g \in first).table = NodeTable(e) /\ r.table = NodeTable(e)
        BY <4>2, <4>3, <4>4, <4>5 DEF Relation
      <4>7. ~Replaced(Relation(g, g \in first))
        <5>1. SUFFICES ASSUME NEW f \in facts, FoundTable(f) = NodeTable(e) PROVE FALSE
          BY <4>6 DEF Replaced
        <5>2. e = f /\ g = f
          BY <4>4, <5>1 DEF FactsOwnTheirTable
        <5>3. r = Relation(g, g \in first)
          BY <4>3, <5>2
        <5> QED
          BY <4>1, <4>6, <5>1, <5>3 DEF Replaced
      <4> QED
        BY <4>1, <4>6, <4>7
    <3>2. CASE l # "outer"
      <4>1. Relations(l) = {[entity |-> l, table |-> FoundTable(l), plain |-> TRUE]}
        BY <3>2 DEF Relations
      <4> QED
        BY <4>1
    <3> QED
      BY <3>1, <3>2
  <2>3. p \in PoliciesAt(l)
    BY <2>2 DEF PoliciesAt, PoliciesOn
  <2>4. Predicate(p) \in where[l]
    BY <2>1, <2>3
  <2>5. Predicate(p).policy = p
    BY DEF Predicate
  <2>6. Predicate(p).denies = (p.claim \notin context)
    BY Zenon DEF Predicate
  <2> QED
    BY <2>4, <2>5, <2>6
<1> QED
  BY <1>1, Inductive, PTL

--------------------------------------------------------------------------------
(***************************************************************************)
(* From here on: what a status says of its cause.  Ways are sets that hang *)
(* together, so that reaching an entity is told without counting steps.    *)
(***************************************************************************)
(* Of the sets that hang together and hold both ends there is a smallest. *)
LEMMA SmallestWay ==
  ASSUME NEW a, NEW b, NEW s \in SUBSET Entity, a \in s, b \in s, Hangs(state.links, s)
  PROVE  Ways(state.links, a, b) # {}
<1> DEFINE w == {t \in SUBSET Entity : a \in t /\ b \in t /\ Hangs(state.links, t)}
           N == {Cardinality(t) : t \in w}
<1>1. \A t \in w : Cardinality(t) \in Nat
  BY CompilerAssumption, FS_Subset, FS_CardinalityType
<1>2. N \subseteq Nat /\ N # {}
  BY <1>1
<1>3. PICK k \in N : \A i \in N : ~ (<<i, k>> \in OpToRel(<, Nat))
  <2> HIDE DEF N
  <2> QED
    BY <1>2, WFMin, NatLessThanWellFounded, Zenon
<1>4. \A i \in N : i \in Nat /\ k \in Nat /\ ~ (i < k)
  <2> HIDE DEF N
  <2>1. k \in Nat /\ \A i \in N : i \in Nat
    BY <1>2, <1>3
  <2> QED
    BY <1>3, <2>1, Zenon DEF OpToRel
<1>5. PICK t \in w : Cardinality(t) = k
  BY <1>3
<1>6. \A u \in w : Cardinality(t) <= Cardinality(u)
  BY <1>1, <1>4, <1>5
<1>7. Ways(state.links, a, b) = {q \in w : \A u \in w : Cardinality(q) <= Cardinality(u)}
  BY DEF Ways
<1> QED
  BY <1>5, <1>6, <1>7

(* A set that hangs together does so with a join that touches it. *)
LEMMA HangsOn ==
  ASSUME NEW s, Hangs(state.links, s), NEW l \in state.links, NEW x \in s, x \in l
  PROVE  Hangs(state.links, s \cup l)
<1> SUFFICES ASSUME NEW t \in (SUBSET (s \cup l)) \ {{}, s \cup l}
             PROVE  \E k \in state.links : k \subseteq s \cup l /\ k \cap t # {} /\ ~(k \subseteq t)
  BY DEF Hangs
<1>1. CASE t \cap s = {}
  <2>1. l \cap t # {} /\ ~(l \subseteq t) /\ l \subseteq s \cup l
    BY <1>1
  <2> QED
    BY <2>1
<1>2. CASE s \subseteq t
  <2>1. l \cap t # {} /\ ~(l \subseteq t) /\ l \subseteq s \cup l
    BY <1>2
  <2> QED
    BY <2>1
<1>3. CASE t \cap s # {} /\ ~(s \subseteq t)
  <2>1. t \cap s \in (SUBSET s) \ {{}, s}
    BY <1>3
  <2>2. PICK k \in state.links : k \subseteq s /\ k \cap (t \cap s) # {} /\ ~(k \subseteq t \cap s)
    BY <2>1 DEF Hangs
  <2>3. k \subseteq s \cup l /\ k \cap t # {} /\ ~(k \subseteq t)
    BY <2>2
  <2> QED
    BY <2>3
<1> QED
  BY <1>1, <1>2, <1>3

(* Two entities without a way between them are apart. *)
LEMMA NoWayApart ==
  ASSUME NEW a \in Entity, NEW b, \A l \in state.links : l \subseteq Entity, Ways(state.links, a, b) = {}
  PROVE  Apart(a, b)
<1> DEFINE W == {s \in SUBSET Entity : a \in s /\ Hangs(state.links, s)}
           R == UNION W
<1>1. {a} \in W
  BY DEF Hangs
<1>2. a \in R /\ R \in SUBSET Entity
  BY <1>1
<1>3. b \notin R
  <2> SUFFICES ASSUME NEW s \in W, b \in s PROVE FALSE
    OBVIOUS
  <2> QED
    BY SmallestWay
<1>4. ASSUME NEW l \in state.links, l \cap R # {} PROVE l \subseteq R
  <2>1. PICK s \in W : l \cap s # {}
    BY <1>4
  <2>2. PICK x \in s : x \in l
    BY <2>1
  <2>3. s \cup l \in W
    BY <2>2, HangsOn
  <2> QED
    BY <2>3
<1> HIDE DEF R
<1> QED
  BY <1>2, <1>3, <1>4 DEF Apart

(* And those with a way between them are not. *)
LEMMA WayNotApart ==
  ASSUME NEW a, NEW b, NEW s \in Ways(state.links, a, b)
  PROVE  ~Apart(a, b)
<1>1. a \in s /\ b \in s /\ Hangs(state.links, s)
  BY DEF Ways
<1> SUFFICES ASSUME NEW r \in SUBSET Entity, a \in r, b \notin r,
                    \A l \in state.links : l \subseteq r \/ l \cap r = {}
             PROVE  FALSE
  BY DEF Apart
<1>2. s \cap r \in (SUBSET s) \ {{}, s}
  BY <1>1
<1>3. PICK l \in state.links : l \subseteq s /\ l \cap (s \cap r) # {} /\ ~(l \subseteq s \cap r)
  BY <1>1, <1>2 DEF Hangs
<1> QED
  BY <1>3

(* What a request that has come so far is free of. *)
Settled ==
  /\ pc \in Resolved \cup {"resolving"} => Owners = {owner}
  /\ pc \in Resolved => /\ Resolvable(owner, TheMetric.dims \cup request.dims)
                        /\ Cardinality(MeasureHolders(owner, TheMetric.measure)) = 1
  /\ pc \in Resolved \ {"truncating"} =>
       request.grain = None \/ Cardinality(TimeDeclarations(owner, base)) = 1
  /\ pc \in Joined => \A d \in dims : ~Apart(base, d[1])
  /\ pc = "compiled" => request.grain \in DatePart \cup {None}

(* Each error has its cause; only with a user context may a policy be one. *)
Blamed ==
  pc = "failed" => IF Status(error) = 400 THEN CallersFault
                   ELSE Status(error) = 500 /\ (ServersFault \/ context # None)

Answering ==
  /\ caller = "rest" /\ pc \notin {"asked", "answered"} => ~Refused
  /\ pc \in {"dispatching", "executing", "reading"} => caller = "wire"
  /\ StatusNamesCause

Causes == Settled /\ Blamed /\ Answering

LEMMA SameShapes ==
  ASSUME UNCHANGED state
  PROVE  /\ \A m, n : MeasureHolders(m, n)' = MeasureHolders(m, n)
         /\ \A m, e : TimeDeclarations(m, e)' = TimeDeclarations(m, e)
         /\ \A a, e : Apart(a, e)' <=> Apart(a, e)
<1>1. \A m, n : MeasureHolders(m, n)' = MeasureHolders(m, n)
  BY DEF MeasureHolders, EntitiesOf
<1>2. \A m, e : TimeDeclarations(m, e)' = TimeDeclarations(m, e)
  BY DEF TimeDeclarations
<1>3. \A a, e : Apart(a, e)' <=> Apart(a, e)
  BY DEF Apart
<1> QED
  BY <1>1, <1>2, <1>3

LEMMA SameFaults ==
  ASSUME UNCHANGED <<state, request, owner, base, dims, body>>
  PROVE  /\ Refused' <=> Refused
         /\ CallersFault' <=> CallersFault
         /\ ModelsAtFault' <=> ModelsAtFault
         /\ joined' = joined => (ServersFault' <=> ServersFault)
<1>1. Refused' <=> Refused
  BY DEF Refused
<1>2. NameAtFault' <=> NameAtFault
  BY SameNames DEF NameAtFault
<1>3. MetricAtFault' <=> MetricAtFault
  BY SameNames, SameMetric, SameShapes DEF MetricAtFault
<1>4. ShapeAtFault' <=> ShapeAtFault
  BY SameShapes DEF ShapeAtFault
<1>5. ModelsAtFault' <=> ModelsAtFault
  BY SameNames DEF ModelsAtFault
<1> QED
  BY <1>1, <1>2, <1>3, <1>4, <1>5 DEF CallersFault, ServersFault

(* What is settled stays so while nothing it is about changes. *)
LEMMA SettledStays ==
  ASSUME Settled, UNCHANGED <<state, request, owner, base, dims>>,
         \/ pc' = pc
         \/ pc' \in {"asked", "validating", "finding", "failed", "answered", "dispatching",
                     "executing", "reading"}
         \/ pc = "graph" /\ pc' = "joining"
         \/ pc = "joining" /\ pc' = "assembling" /\ \A d \in dims : ~Apart(base, d[1])
         \/ pc = "truncating" /\ pc' = "graph"
            /\ (request.grain = None \/ Cardinality(TimeDeclarations(owner, base)) = 1)
         \/ pc \in Joined /\ pc' \in Joined \ {"compiled"}
         \/ pc = "generating" /\ pc' = "compiled" /\ request.grain \in DatePart \cup {None}
  PROVE  Settled'
<1>1. /\ Owners' = Owners /\ TheMetric' = TheMetric
      /\ \A m, ds : Resolvable(m, ds)' = Resolvable(m, ds)
      /\ \A m, n : MeasureHolders(m, n)' = MeasureHolders(m, n)
      /\ \A m, e : TimeDeclarations(m, e)' = TimeDeclarations(m, e)
      /\ \A a, e : Apart(a, e)' <=> Apart(a, e)
  BY SameNames, SameMetric, SameShapes
<1> QED
  BY <1>1 DEF Settled, Resolved, Ranked, Joined, Assembled, Lowered, Restrained

--------------------------------------------------------------------------------
(* A step that goes on has nothing to blame; one that fails settles nothing. *)
LEMMA FailingSettles == pc' = "failed" => Settled'
BY DEF Settled, Resolved, Ranked, Joined, Assembled, Lowered, Restrained

LEMMA CallerBlamed ==
  ASSUME CallersFault', error' \in {"RequestParsing", "MetricResolution", "JoinResolution",
                                    "UnsupportedRequestFeature", "AmbiguousMetric"}
  PROVE  Blamed'
BY DEF Blamed, Status

LEMMA ServerBlamed ==
  ASSUME ServersFault' \/ context' # None,
         error' \in {"GraphConstruction", "ChasmTrapHandlingFailed", "Lowering", "Rls",
                     "CodeGeneration"}
  PROVE  Blamed'
<1>1. Status(error') = 500
  BY DEF Status
<1> QED
  BY <1>1 DEF Blamed

(* No entity of the model holds the name. *)
LEMMA NoHolder ==
  ASSUME NEW m, NEW d, Holders(m, d) = {}, NEW ds, d \in ds
  PROVE  ~Resolvable(m, ds)
<1>1. Cardinality(Holders(m, d)) # 1
  BY OneIsSome
<1> QED
  BY <1>1 DEF Resolvable

LEMMA ValidateBlames ==
  ASSUME CInv, ValidateRequest, body' = body
  PROVE  Settled' /\ Blamed'
<1> DEFINE bad == \/ request.metric = Blank
                  \/ Owners = {}
                  \/ \E d \in request.dims : \A m \in Model : Holders(m, d) = {}
<1>1. /\ UNCHANGED <<state, request, owner, base, dims, joined>>
      /\ \/ bad /\ pc' = "failed" /\ error' = "RequestParsing"
         \/ pc' = "finding"
  BY DEF ValidateRequest, Check, Fail, Go, asked, resolved, planned
<1>2. CASE pc' = "finding"
  BY <1>2 DEF Settled, Blamed, Resolved, Ranked, Joined, Assembled, Lowered, Restrained
<1>3. CASE bad /\ pc' = "failed" /\ error' = "RequestParsing"
  <2>1. CallersFault
    <3>1. CASE request.metric = Blank
      BY <3>1 DEF CallersFault, Refused
    <3>2. CASE Owners = {}
      BY <3>2 DEF CallersFault, NameAtFault
    <3>3. CASE Owners # {} /\ \E d \in request.dims : \A m \in Model : Holders(m, d) = {}
      <4>1. PICK d \in request.dims : \A m \in Model : Holders(m, d) = {}
        BY <3>3
      <4>2. PICK m \in Owners : m \in Model
        BY <3>3, OwnersAreModels DEF CInv, Typed
      <4>3. ~Resolvable(m, request.dims \cup request.filters)
        BY <4>1, <4>2, NoHolder
      <4> QED
        BY <4>3 DEF CallersFault, NameAtFault
    <3> QED
      BY <1>3, <3>1, <3>2, <3>3
  <2>2. CallersFault'
    BY <1>1, <2>1, SameFaults
  <2> QED
    BY <1>3, <2>2, CallerBlamed, FailingSettles
<1> QED
  BY <1>1, <1>2, <1>3

LEMMA FindBlames ==
  ASSUME CInv, FindModel
  PROVE  Settled' /\ Blamed'
<1>1. /\ UNCHANGED <<state, request>> /\ pc = "finding"
      /\ \/ Cardinality(Owners) > 1 /\ pc' = "failed" /\ error' = "AmbiguousMetric"
         \/ ~(Cardinality(Owners) > 1) /\ pc' = "resolving" /\ owner' = CHOOSE m \in Owners : TRUE
  BY DEF FindModel, Check, Fail, Go, asked
<1>2. Owners' = Owners /\ Owners # {} /\ Owners \subseteq Model /\ IsFiniteSet(Model)
  BY <1>1, SameNames, OwnersAreModels, CompilerAssumption DEF CInv, Typed, MetricFound
<1>3. CASE Cardinality(Owners) > 1 /\ pc' = "failed" /\ error' = "AmbiguousMetric"
  <2>1. CallersFault'
    BY <1>2, <1>3 DEF CallersFault, MetricAtFault
  <2> QED
    BY <1>3, <2>1, CallerBlamed, FailingSettles
<1>4. CASE ~(Cardinality(Owners) > 1) /\ pc' = "resolving" /\ owner' = CHOOSE m \in Owners : TRUE
  <2>1. owner' \in Owners
    BY <1>2, <1>4
  <2>2. IsFiniteSet(Owners) /\ Cardinality(Owners) \in Nat
    BY <1>2, FS_Subset, FS_CardinalityType
  <2>3. Cardinality(Owners) <= 1
    BY <1>4, <2>2
  <2>4. Owners = {owner'}
    BY <2>1, <2>2, <2>3, AtMostOne
  <2> QED
    BY <1>2, <1>4, <2>4
       DEF Settled, Blamed, Resolved, Ranked, Joined, Assembled, Lowered, Restrained
<1> QED
  BY <1>1, <1>3, <1>4

LEMMA ResolveBlames ==
  ASSUME CInv, Settled, ResolveMetric, body' = body
  PROVE  Settled' /\ Blamed'
<1> DEFINE at    == MeasureHolders(owner, TheMetric.measure)
           names == IF request.dims = {} THEN TheMetric.dims ELSE request.dims
           bad   == Cardinality(at) # 1 \/ ~Resolvable(owner, TheMetric.dims \cup names)
<1>1. /\ UNCHANGED <<state, request, owner, joined>> /\ pc = "resolving"
      /\ \/ bad /\ pc' = "failed" /\ error' = "MetricResolution" /\ UNCHANGED <<base, dims>>
         \/ ~bad /\ pc' = "truncating"
  BY DEF ResolveMetric, Check, Fail, Go, asked, planned
<1>2. Owners = {owner} /\ TheMetric.dims \cup names = TheMetric.dims \cup request.dims
  BY <1>1 DEF Settled
<1>3. CASE bad /\ pc' = "failed" /\ error' = "MetricResolution" /\ UNCHANGED <<base, dims>>
  <2>1. CallersFault
    <3>1. CASE Cardinality(at) # 1
      BY <1>2, <3>1 DEF CallersFault, MetricAtFault
    <3>2. CASE ~Resolvable(owner, TheMetric.dims)
      BY <1>2, <3>2 DEF CallersFault, MetricAtFault
    <3>3. CASE ~Resolvable(owner, request.dims \cup request.filters)
      BY <1>2, <3>3 DEF CallersFault, NameAtFault
    <3> QED
      BY <1>2, <1>3, <3>1, <3>2, <3>3 DEF Resolvable
  <2>2. CallersFault'
    BY <1>1, <1>3, <2>1, SameFaults
  <2> QED
    BY <1>3, <2>2, CallerBlamed, FailingSettles
<1>4. CASE ~bad /\ pc' = "truncating"
  <2>1. /\ Owners' = Owners /\ TheMetric' = TheMetric
        /\ \A m, ds : Resolvable(m, ds)' = Resolvable(m, ds)
        /\ \A m, n : MeasureHolders(m, n)' = MeasureHolders(m, n)
    BY <1>1, SameNames, SameMetric, SameShapes
  <2>2. Resolvable(owner, TheMetric.dims \cup request.dims)
    BY <1>2, <1>4
  <2> QED
    BY <1>1, <1>2, <1>4, <2>1, <2>2
       DEF Settled, Blamed, Ranked, Joined, Assembled, Lowered, Restrained
<1> QED
  BY <1>1, <1>3, <1>4

LEMMA TruncateBlames ==
  ASSUME CInv, Settled, Truncate, body' = body
  PROVE  Settled' /\ Blamed'
<1> DEFINE bad == request.grain # None /\ Cardinality(TimeDeclarations(owner, base)) # 1
<1>1. /\ UNCHANGED <<state, request, owner, base, dims, joined>> /\ pc = "truncating"
      /\ \/ bad /\ pc' = "failed" /\ error' = "UnsupportedRequestFeature"
         \/ ~bad /\ pc' = "graph"
  BY DEF Truncate, Check, Fail, Go, asked, resolved, planned
<1>2. CASE bad /\ pc' = "failed" /\ error' = "UnsupportedRequestFeature"
  <2>1. CallersFault'
    <3>1. CallersFault
      BY <1>2 DEF CallersFault, ShapeAtFault
    <3> QED
      BY <1>1, <3>1, SameFaults
  <2> QED
    BY <1>2, <2>1, CallerBlamed, FailingSettles
<1>3. CASE ~bad /\ pc' = "graph"
  BY <1>1, <1>3, SettledStays DEF Blamed
<1> QED
  BY <1>1, <1>2, <1>3

LEMMA GraphBlames ==
  ASSUME CInv, Settled, GetGraph, body' = body
  PROVE  Settled' /\ Blamed'
<1> DEFINE known == {p[2] : p \in state.entities}
           bad   == \E l \in state.links : ~(l \subseteq known)
<1>1. /\ UNCHANGED <<state, request, owner, base, dims>> /\ pc = "graph"
      /\ \/ bad /\ pc' = "failed" /\ error' = "GraphConstruction"
         \/ pc' = "joining"
  BY DEF GetGraph, Check, Fail, Go, asked, resolved
<1>2. CASE bad /\ pc' = "failed" /\ error' = "GraphConstruction"
  <2>1. ModelsAtFault
    <3>1. PICK l \in state.links : ~(l \subseteq known)
      BY <1>2
    <3>2. PICK e \in l : e \notin known
      BY <3>1
    <3>3. Declaring(e) = {}
      <4>1. ASSUME NEW m \in Declaring(e) PROVE FALSE
        <5>1. <<m, e>> \in state.entities
          BY DEF Declaring
        <5>2. <<m, e>>[2] \in known
          BY <5>1
        <5> QED
          BY <3>2, <5>2
      <4> QED
        BY <4>1
    <3> QED
      BY <3>1, <3>2, <3>3 DEF ModelsAtFault
  <2>2. ServersFault'
    BY <1>1, <2>1, SameFaults DEF ServersFault
  <2> QED
    BY <1>2, <2>2, ServerBlamed, FailingSettles
<1>3. CASE pc' = "joining"
  BY <1>1, <1>3, SettledStays DEF Blamed
<1> QED
  BY <1>1, <1>2, <1>3

LEMMA JoinBlames ==
  ASSUME CInv, Settled, Join, body' = body
  PROVE  Settled' /\ Blamed'
<1>1. /\ UNCHANGED <<state, request, owner, base, dims>> /\ pc = "joining"
      /\ \/ /\ \E e \in ToJoin : Ways(state.links, base, e) = {}
            /\ pc' = "failed" /\ error' = "JoinResolution"
         \/ pc' = "assembling" /\ \A e \in ToJoin : Ways(state.links, base, e) # {}
  BY DEF Join, Check, Fail, Go, asked, resolved
<1>2. base \in Entity /\ \A l \in state.links : l \subseteq Entity
  <2>1. state \in World
    BY CompilerAssumption DEF CInv, Typed
  <2> QED
    BY <1>1, <2>1 DEF CInv, MetricFound, Resolved, Ranked, EntitiesOf, World
<1>3. CASE pc' = "failed" /\ error' = "JoinResolution" /\ \E e \in ToJoin : Ways(state.links, base, e) = {}
  <2>1. PICK d \in dims : Ways(state.links, base, d[1]) = {}
    BY <1>3 DEF ToJoin
  <2>2. Apart(base, d[1])
    BY <1>2, <2>1, NoWayApart
  <2>3. CallersFault
    BY <2>2 DEF CallersFault, ShapeAtFault
  <2>4. CallersFault'
    BY <1>1, <2>3, SameFaults
  <2> QED
    BY <1>3, <2>4, CallerBlamed, FailingSettles
<1>4. CASE pc' = "assembling" /\ \A e \in ToJoin : Ways(state.links, base, e) # {}
  <2>1. ASSUME NEW d \in dims PROVE ~Apart(base, d[1])
    <3>1. CASE d[1] = base
      BY <3>1 DEF Apart
    <3>2. CASE d[1] # base
      <4>1. d[1] \in ToJoin
        BY <3>2 DEF ToJoin
      <4>2. PICK s \in Ways(state.links, base, d[1]) : TRUE
        BY <1>4, <4>1
      <4> QED
        BY <4>2, WayNotApart
    <3> QED
      BY <3>1, <3>2
  <2> QED
    BY <1>1, <1>4, <2>1, SettledStays DEF Blamed
<1> QED
  BY <1>1, <1>3, <1>4

LEMMA AssembleBlames ==
  ASSUME CInv, Settled, Assemble, body' = body
  PROVE  Settled' /\ Blamed'
<1>1. /\ UNCHANGED <<state, request, owner, base, dims, joined>> /\ pc = "assembling"
      /\ \/ ~Resolvable(owner, request.filters) /\ pc' = "failed" /\ error' = "MetricResolution"
         \/ pc' = "facts"
  BY DEF Assemble, Check, Fail, Go, asked, resolved
<1>2. CASE ~Resolvable(owner, request.filters) /\ pc' = "failed" /\ error' = "MetricResolution"
  <2>1. Owners = {owner}
    BY <1>1 DEF Settled, Resolved, Ranked, Joined
  <2>2. ~Resolvable(owner, request.dims \cup request.filters)
    BY <1>2 DEF Resolvable
  <2>3. CallersFault
    BY <2>1, <2>2 DEF CallersFault, NameAtFault
  <2>4. CallersFault'
    BY <1>1, <2>3, SameFaults
  <2> QED
    BY <1>2, <2>4, CallerBlamed, FailingSettles
<1>3. CASE pc' = "facts"
  <2>1. pc \in Joined /\ pc' \in Joined \ {"compiled"}
    BY <1>1, <1>3 DEF Joined, Assembled
  <2> QED
    BY <1>1, <1>3, <2>1, SettledStays DEF Blamed
<1> QED
  BY <1>1, <1>2, <1>3

LEMMA PreAggregateBlames ==
  ASSUME CInv, Settled, PreAggregate, body' = body
  PROVE  Settled' /\ Blamed'
<1>1. /\ UNCHANGED <<state, request, owner, base, dims, joined>> /\ pc = "facts"
      /\ \/ /\ Several(joined)
            /\ pc' = "failed" /\ error' = "ChasmTrapHandlingFailed"
         \/ pc' = "lowering"
  BY DEF PreAggregate, Fail, Go, asked, resolved
<1>2. CASE Several(joined) /\ pc' = "failed" /\ error' = "ChasmTrapHandlingFailed"
  <2>1. ServersFault'
    BY <1>1, <1>2 DEF ServersFault
  <2> QED
    BY <1>2, <2>1, ServerBlamed, FailingSettles
<1>3. CASE pc' = "lowering"
  <2>1. pc \in Joined /\ pc' \in Joined \ {"compiled"}
    BY <1>1, <1>3 DEF Joined, Assembled
  <2> QED
    BY <1>1, <1>3, <2>1, SettledStays DEF Blamed
<1> QED
  BY <1>1, <1>2, <1>3

LEMMA LowerBlames ==
  ASSUME CInv, Settled, Lower, CInv', body' = body
  PROVE  Settled' /\ Blamed'
<1>1. /\ UNCHANGED <<state, request, owner, base, dims, joined, facts>> /\ pc = "lowering"
      /\ \/ pc' = "failed" /\ error' = "Lowering"
         \/ pc' = "restricting"
  BY DEF Lower, Check, Fail, Go, asked, resolved, planned
<1>2. CASE pc' = "failed" /\ error' = "Lowering"
  <2>1. DeclaredTwice
    BY <1>1, <1>2, SameRefs DEF CInv, ErrorFits
  <2>2. /\ owner \in Model /\ base \in Entity /\ TheMetric.measure \in Measure /\ state \in World
    BY <1>1, CompilerAssumption
       DEF CInv, Typed, MetricFound, Resolved, Ranked, Joined, Assembled, EntitiesOf
  <2>3. ModelsAtFault
    <3>1. CASE \E r \in DimRefs : state.dims[<<owner, r[1], r[2]>>] = 2
      <4>1. PICK r \in DimRefs : state.dims[<<owner, r[1], r[2]>>] = 2
        BY <3>1
      <4>2. PICK e \in Entity, d \in Dimension : r = <<e, d>>
        BY <1>1, RefsDeclared DEF Assembled
      <4>3. <<owner, e, d>> \in DOMAIN state.dims /\ state.dims[<<owner, e, d>>] = 2
        BY <2>2, <4>1, <4>2 DEF World
      <4> QED
        BY <4>3 DEF ModelsAtFault
    <3>2. CASE state.measures[<<owner, base, TheMetric.measure>>] = 2
      <4>1. <<owner, base, TheMetric.measure>> \in DOMAIN state.measures
        BY <2>2 DEF World
      <4> QED
        BY <3>2, <4>1 DEF ModelsAtFault
    <3> QED
      BY <2>1, <3>1, <3>2 DEF DeclaredTwice
  <2>4. ServersFault'
    BY <1>1, <2>3, SameFaults DEF ServersFault
  <2> QED
    BY <1>2, <2>4, ServerBlamed, FailingSettles
<1>3. CASE pc' = "restricting"
  <2>1. pc \in Joined /\ pc' \in Joined \ {"compiled"}
    BY <1>1, <1>3 DEF Joined, Assembled, Lowered
  <2> QED
    BY <1>1, <1>3, <2>1, SettledStays DEF Blamed
<1> QED
  BY <1>1, <1>2, <1>3

LEMMA InjectBlames ==
  ASSUME CInv, Settled, Inject, body' = body
  PROVE  Settled' /\ Blamed'
<1>1. /\ UNCHANGED <<state, request, context, owner, base, dims, joined>> /\ pc = "restricting"
      /\ \/ context # None /\ pc' = "failed" /\ error' = "Rls"
         \/ pc' = "generating"
  BY DEF Inject, Fail, Go, asked, resolved, planned
<1>2. CASE context # None /\ pc' = "failed" /\ error' = "Rls"
  BY <1>1, <1>2, ServerBlamed, FailingSettles
<1>3. CASE pc' = "generating"
  <2>1. pc \in Joined /\ pc' \in Joined \ {"compiled"}
    BY <1>1, <1>3 DEF Joined, Assembled, Lowered, Restrained
  <2> QED
    BY <1>1, <1>3, <2>1, SettledStays DEF Blamed
<1> QED
  BY <1>1, <1>2, <1>3

LEMMA GenerateBlames ==
  ASSUME CInv, Settled, Generate, body' = body
  PROVE  Settled' /\ Blamed'
<1> DEFINE bad == request.grain # None /\ request.grain \notin DatePart
<1>1. /\ UNCHANGED <<state, request, owner, base, dims, joined>> /\ pc = "generating"
      /\ \/ bad /\ pc' = "failed" /\ error' = "CodeGeneration"
         \/ ~bad /\ pc' = "compiled"
  BY DEF Generate, Check, Fail, Go, asked, resolved, planned
<1>2. CASE bad /\ pc' = "failed" /\ error' = "CodeGeneration"
  <2>1. ServersFault'
    BY <1>1, <1>2 DEF ServersFault
  <2> QED
    BY <1>2, <2>1, ServerBlamed, FailingSettles
<1>3. CASE ~bad /\ pc' = "compiled"
  BY <1>1, <1>3, SettledStays DEF Blamed
<1> QED
  BY <1>1, <1>2, <1>3

--------------------------------------------------------------------------------
LEMMA CompileBlames ==
  ASSUME GInv, Causes, Compile, UNCHANGED <<gvars, stream, got, answer>>, GInv'
  PROVE  Causes'
<1>1. CInv /\ CInv' /\ Settled /\ body' = body /\ caller' = caller
  BY DEF GInv, Causes, gvars
<1>2. Settled' /\ Blamed'
  BY <1>1, ValidateBlames, FindBlames, ResolveBlames, TruncateBlames, GraphBlames, JoinBlames,
     AssembleBlames, PreAggregateBlames, LowerBlames, InjectBlames, GenerateBlames DEF Compile
<1>3. /\ UNCHANGED <<state, request>> /\ pc \notin {"asked", "answered"}
      /\ pc' \notin {"answered", "dispatching", "executing", "reading"}
  BY DEF Compile, ValidateRequest, FindModel, ResolveMetric, Truncate, GetGraph, Join, Assemble,
         PreAggregate, Lower, Inject, Generate, Check, Fail, Go, asked
<1>4. Refused' <=> Refused
  BY <1>1, <1>3 DEF Refused
<1>5. Answering'
  BY <1>1, <1>3, <1>4 DEF Causes, Answering, StatusNamesCause
<1> QED
  BY <1>2, <1>5 DEF Causes

(* A request that has come to be compiled is without fault. *)
LEMMA CompiledFaultless ==
  ASSUME CInv, Settled, ~Refused, pc = "compiled"
  PROVE  ~CallersFault /\ request.grain \in DatePart \cup {None}
<1>1. /\ Owners = {owner} /\ Resolvable(owner, TheMetric.dims \cup request.dims)
      /\ Cardinality(MeasureHolders(owner, TheMetric.measure)) = 1
      /\ request.grain = None \/ Cardinality(TimeDeclarations(owner, base)) = 1
      /\ \A d \in dims : ~Apart(base, d[1])
      /\ request.grain \in DatePart \cup {None}
  BY DEF Settled, Resolved, Ranked, Joined, Assembled, Lowered, Restrained
<1>2. Resolvable(owner, request.filters)
  BY DEF CInv, FromWhole, Assembled, Lowered, Restrained
<1>3. Resolvable(owner, request.dims \cup request.filters) /\ Resolvable(owner, TheMetric.dims)
  BY <1>1, <1>2 DEF Resolvable
<1>4. ~NameAtFault
  BY <1>1, <1>3 DEF NameAtFault
<1>5. Cardinality(Owners) = 1
  BY <1>1, FS_Singleton
<1>6. ~MetricAtFault
  BY <1>1, <1>3, <1>5 DEF MetricAtFault
<1>7. ~ShapeAtFault
  BY <1>1 DEF ShapeAtFault
<1> QED
  BY <1>1, <1>4, <1>6, <1>7 DEF CallersFault

LEMMA ServingBlames ==
  ASSUME GInv, Causes, [Next]_vars, ~(Compile /\ UNCHANGED <<gvars, stream, got, answer>>)
  PROVE  Causes'
<1>1. UNCHANGED <<asked, resolved, planned, written, error>> /\ UNCHANGED gvars
  BY Zenon DEF Next, MapRequest, AnswerCompiled, ReadText, WireCompiled, Dispatch, Execute, Poll, Take,
         Deliver, vars, cvars
<1>2. /\ UNCHANGED <<state, request, owner, base, dims, joined, body>>
      /\ UNCHANGED <<caller, context, error>>
  BY <1>1 DEF asked, resolved, planned, gvars
<1>3. /\ Refused' <=> Refused
      /\ CallersFault' <=> CallersFault
      /\ ServersFault' <=> ServersFault
  BY <1>2, SameFaults
<1>4. \/ pc' = pc /\ answer' = answer
      \/ caller = "rest" /\ pc = "asked" /\ Refused /\ pc' = "answered" /\ answer' = <<"status", 400>>
      \/ caller = "rest" /\ pc = "asked" /\ ~Refused /\ pc' = "validating"
      \/ caller # "wire" /\ pc = "compiled" /\ pc' = "answered" /\ answer' = <<"status", 200>>
      \/ caller # "wire" /\ pc = "failed" /\ pc' = "answered" /\ answer' = <<"status", Status(error)>>
      \/ caller = "wire" /\ pc' \in {"validating", "answered", "dispatching", "executing", "reading"}
  <2>1. CASE MapRequest
    BY <2>1 DEF MapRequest, Answer
  <2>2. CASE AnswerCompiled
    BY <2>2 DEF AnswerCompiled, Answer
  <2>3. CASE ReadText \/ WireCompiled
    <3>1. caller = "wire" /\ pc' \in {"validating", "answered", "dispatching"}
      BY <2>3, Zenon DEF ReadText, WireCompiled, Answer
    <3> QED
      BY <3>1
  <2>4. CASE Dispatch \/ Execute \/ Poll \/ Take \/ Deliver
    <3>1. pc \in {"dispatching", "executing", "reading"}
      BY <2>4 DEF Dispatch, Execute, Poll, Take, Deliver
    <3>2. caller = "wire"
      BY <3>1 DEF Causes, Answering
    <3>3. pc' \in {"answered", "executing", "reading"}
      BY <2>4, <3>1, Zenon DEF Dispatch, Execute, Poll, Take, Deliver, Answer, cvars
    <3> QED
      BY <3>2, <3>3
  <2>5. CASE UNCHANGED vars
    BY <2>5 DEF vars, cvars
  <2> QED
    BY <2>1, <2>2, <2>3, <2>4, <2>5 DEF Next
<1>5. Settled'
  BY <1>2, <1>4, SettledStays DEF Causes
<1>6. Blamed'
  <2>1. pc' = "failed" => pc = "failed"
    BY <1>4
  <2> QED
    BY <1>2, <1>3, <2>1 DEF Causes, Blamed
<1>7. Answering'
  <2>1. ASSUME caller' = "rest", pc' \notin {"asked", "answered"} PROVE ~Refused'
    BY <1>2, <1>3, <1>4, <2>1 DEF Causes, Answering
  <2>2. ASSUME pc' \in {"dispatching", "executing", "reading"} PROVE caller' = "wire"
    BY <1>2, <1>4, <2>2 DEF Causes, Answering
  <2>3. StatusNamesCause'
    <3> SUFFICES ASSUME caller' = "rest", pc' = "answered"
                 PROVE  CASE answer'[2] = 400 -> CallersFault'
                          [] answer'[2] = 500 -> ServersFault'
                          [] OTHER -> ~CallersFault' /\ request'.grain \in DatePart \cup {None}
      BY DEF StatusNamesCause
    <3>1. CASE pc' = pc /\ answer' = answer
      <4>1. /\ answer[2] = 400 => CallersFault
            /\ answer[2] = 500 => ServersFault
            /\ answer[2] \notin {400, 500} => ~CallersFault /\ request.grain \in DatePart \cup {None}
        BY <1>2, <3>1 DEF Causes, Answering, StatusNamesCause
      <4> QED
        BY <1>2, <1>3, <3>1, <4>1
    <3>2. CASE Refused /\ answer' = <<"status", 400>>
      <4>1. CallersFault' /\ answer'[2] = 400
        BY <1>3, <3>2 DEF CallersFault
      <4> QED
        BY <4>1
    <3>3. CASE pc = "compiled" /\ answer' = <<"status", 200>>
      <4>1. ~Refused /\ CInv /\ Settled
        BY <1>2, <3>3 DEF Causes, Answering, GInv
      <4>2. answer'[2] = 200 /\ ~CallersFault' /\ request'.grain \in DatePart \cup {None}
        BY <1>2, <1>3, <3>3, <4>1, CompiledFaultless
      <4> QED
        BY <4>2
    <3>4. CASE pc = "failed" /\ answer' = <<"status", Status(error)>>
      <4>1. context = None
        BY <1>2, ServicesAssumption DEF GInv, AskKept
      <4>2. answer'[2] = Status(error)
        BY <3>4
      <4>3. IF Status(error) = 400 THEN CallersFault ELSE Status(error) = 500 /\ ServersFault
        BY <3>4, <4>1 DEF Causes, Blamed
      <4> QED
        BY <1>3, <4>2, <4>3
    <3> QED
      BY <1>2, <1>4, <3>1, <3>2, <3>3, <3>4
  <2> QED
    BY <2>1, <2>2, <2>3 DEF Answering
<1> QED
  BY <1>5, <1>6, <1>7 DEF Causes

(***************************************************************************)
(* For any models and any request over REST: a 400 has its cause in the    *)
(* request or the metric, a 500 in the models, the granularity or several  *)
(* facts, and a request that is answered with SQL had no fault to name.    *)
(***************************************************************************)
THEOREM StatusRight == Spec => []StatusNamesCause
<1>1. Init => Causes
  <2> SUFFICES ASSUME Init PROVE Causes
    OBVIOUS
  <2>1. pc \in {"asked", "validating"} /\ (caller = "rest" => pc = "asked")
    BY DEF Init
  <2> QED
    BY <2>1 DEF Causes, Settled, Blamed, Answering, StatusNamesCause,
                Resolved, Ranked, Joined, Assembled, Lowered, Restrained
<1>2. GInv /\ GInv' /\ Causes /\ [Next]_vars => Causes'
  BY CompileBlames, ServingBlames
<1>3. Causes => StatusNamesCause
  BY DEF Causes, Answering
<1> QED
  BY <1>1, <1>2, <1>3, Inductive, PTL DEF Spec

================================================================================
