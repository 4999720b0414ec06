---------------------------- MODULE ChasmTrap_proofs ----------------------------
(***************************************************************************)
(* Proofs about ChasmTrap, for every schema, every plan and every request: *)
(* facts are replaced by CTEs of their own, joined by their group keys,    *)
(* what the outer query selects and measures is a column they have once,   *)
(* and no request is refused that some link could serve (Refinement).      *)
(***************************************************************************)
EXTENDS ChasmTrap, SequenceTheorems, FiniteSetTheorems, FunctionTheorems, WellFoundedInduction,
        TLAPS

(* The facts that get past the checks of the loop over the path. *)
Admitted == {f \in Fact : InPath(f) /\ KeyOf(f) # None /\ ~Finer(f)}
Taken    == {FactPreAgg(f) : f \in Admitted}

Linked == pc \in {"keys", "ctes", "rewritten"}

Typed ==
  /\ base \in Entity /\ joins \in Seq(Hop) /\ dims \subseteq Dimension
  /\ Needed(base, joins, dims)
  /\ next \in Nat \ {0}
  /\ pc \in {"linking", "keys", "ctes", "rewritten", "failed"}

(* What is pre-aggregated: facts of the path, all of those passed so far. *)
FactsTaken ==
  /\ pc = "linking" => facts = <<>> /\ next = 1
  /\ pc \in {"linking", "keys"} => ctes = <<>>
  /\ Linked =>
       /\ link \notin Fact
       /\ facts \in Seq(Taken)
       /\ \A k \in DOMAIN Path :
            Path[k] \in Fact /\ (pc = "keys" => k < next)
              => \E n \in DOMAIN facts : facts[n].entity = Path[k]

(* The CTEs: each is a fact's, no two have one alias, and no alias is left out. *)
CtesInjected ==
  pc \in {"ctes", "rewritten"} =>
    /\ ctes \in Seq({Cte(g) : g \in Taken})
    /\ \A n, m \in DOMAIN ctes : ctes[n].alias = ctes[m].alias => n = m
    /\ \A n \in DOMAIN facts :
         (pc = "ctes" => n < next)
           => \E m \in DOMAIN ctes : ctes[m].alias = CteName[facts[n].table]

QueryBuilt ==
  pc = "rewritten" => /\ query.select  = {OuterDimension(d) : d \in dims}
                      /\ query.measure = OuterMeasure

IInv == Typed /\ FactsTaken /\ CtesInjected /\ QueryBuilt

--------------------------------------------------------------------------------
(* A set of positions has a first. *)
LEMMA FirstPosition ==
  ASSUME NEW S, S \subseteq Nat, S # {}
  PROVE  \E k \in S : \A i \in S : k <= i
<1>1. PICK k \in S : \A i \in S : ~ (<<i, k>> \in OpToRel(<, Nat))
  BY WFMin, NatLessThanWellFounded, Zenon
<1>2. \A i \in S : ~ (i < k)
  BY <1>1, Zenon DEF OpToRel
<1> QED
  BY <1>2

(* The path, position by position. *)
LEMMA PathShape ==
  ASSUME Typed
  PROVE  /\ Path \in Seq(Entity) /\ Len(Path) = Len(joins) + 1
         /\ Len(joins) \in Nat /\ DOMAIN joins = 1..Len(joins)
         /\ DOMAIN Path = 1..(Len(joins) + 1)
         /\ Path[1] = base
         /\ \A k \in DOMAIN joins : Path[k + 1] = joins[k].right
<1>1. joins \in Seq(Hop) /\ Len(joins) \in Nat /\ DOMAIN joins = 1..Len(joins) /\ base \in Entity
  BY LenProperties DEF Typed
<1>2. PICK rights \in Seq(Entity) : /\ rights = [k \in DOMAIN joins |-> joins[k].right]
                                    /\ Len(rights) = Len(joins)
                                    /\ \A k \in DOMAIN joins : rights[k] = joins[k].right
  <2>1. \A k \in 1..Len(joins) : joins[k].right \in Entity
    <3>1. \A k \in 1..Len(joins) : joins[k] \in Hop
      BY <1>1, ElementOfSeq
    <3> QED
      BY <3>1 DEF Hop
  <2>2. /\ [k \in 1..Len(joins) |-> joins[k].right] \in Seq(Entity)
        /\ Len([k \in 1..Len(joins) |-> joins[k].right]) = Len(joins)
    BY <1>1, <2>1
  <2>3. [k \in 1..Len(joins) |-> joins[k].right] = [k \in DOMAIN joins |-> joins[k].right]
    BY <1>1, Zenon
  <2> QED
    BY <2>2, <2>3, Zenon
<1>3. PICK first \in Seq(Entity) : first = <<base>> /\ Len(first) = 1 /\ first[1] = base
  <2>1. <<base>> \in Seq(Entity) /\ Len(<<base>>) = 1 /\ <<base>>[1] = base
    BY <1>1
  <2> QED
    BY <2>1
<1>4. Path = first \o rights
  BY <1>2, <1>3 DEF Path, PathOf
<1>5. /\ first \o rights \in Seq(Entity) /\ Len(first \o rights) = 1 + Len(rights)
      /\ \A k \in 1..(1 + Len(rights)) :
           (first \o rights)[k] = IF k <= 1 THEN first[k] ELSE rights[k - 1]
  BY <1>3, ConcatProperties
<1>6. Path \in Seq(Entity) /\ Len(Path) = Len(joins) + 1
  BY <1>1, <1>2, <1>4, <1>5
<1>7. DOMAIN Path = 1..(Len(joins) + 1)
  BY <1>6, LenProperties
<1>8. ASSUME NEW k \in DOMAIN joins PROVE Path[k + 1] = joins[k].right
  <2>1. k + 1 \in 1..(1 + Len(rights)) /\ ~(k + 1 <= 1) /\ (k + 1) - 1 = k
    BY <1>1, <1>2
  <2>2. (first \o rights)[k + 1] = rights[(k + 1) - 1]
    BY <1>5, <2>1
  <2> QED
    BY <1>2, <1>4, <2>1, <2>2
<1>9. Path[1] = base
  BY <1>1, <1>2, <1>3, <1>4, <1>5
<1> QED
  BY <1>1, <1>6, <1>7, <1>8, <1>9

(* The key of a fact is its side of a hop that joins it to the link. *)
LEMMA KeyOfHop ==
  ASSUME Typed, NEW f, KeyOf(f) # None
  PROVE  \E i \in DOMAIN joins :
           Joined(link, f, i) /\ KeyOf(f) = IF joins[i].left = f THEN joins[i].lcol ELSE joins[i].rcol
<1> DEFINE hops  == {k \in DOMAIN joins : Joined(link, f, k)}
           first == CHOOSE k \in hops : \A i \in hops : k <= i
<1>1. KeyOf(f) = IF hops = {} THEN None
                 ELSE IF joins[first].left = f THEN joins[first].lcol ELSE joins[first].rcol
  BY Zenon DEF KeyOf
<1>2. hops # {} /\ hops \subseteq Nat
  <2>1. DOMAIN joins \subseteq Nat
    BY PathShape
  <2>2. hops \subseteq DOMAIN joins
    OBVIOUS
  <2> HIDE DEF hops, first
  <2> QED
    BY <1>1, <2>1, <2>2
<1> HIDE DEF hops
<1>3. first \in hops
  BY <1>2, FirstPosition
<1> HIDE DEF first
<1> USE DEF hops
<1> QED
  BY <1>1, <1>2, <1>3

(* A fact taken is described by what the plan says of it. *)
LEMMA TakenShape ==
  ASSUME NEW g \in Taken
  PROVE  /\ g = FactPreAgg(g.entity) /\ g.entity \in Admitted
         /\ g.table = TableOf[g.entity] /\ g.key = KeyOf(g.entity)
         /\ g.measures = IF g.entity = base THEN <<measure>> ELSE <<>>
BY DEF Taken, FactPreAgg

LEMMA CteShape ==
  ASSUME NEW g
  PROVE  Cte(g).alias = CteName[g.table] /\ Cte(g).table = g.table /\ Cte(g).key = g.key
BY DEF Cte

--------------------------------------------------------------------------------
LEMMA InitIInv == Init => IInv
<1> SUFFICES ASSUME Init PROVE IInv
  OBVIOUS
<1>1. base \in Entity /\ joins \in Seq(Hop)
  BY PlansAssumption DEF Init
<1> QED
  BY <1>1 DEF Init, IInv, Typed, Linked, FactsTaken, CtesInjected, QueryBuilt

(* What a step that keeps the inputs and the link keeps. *)
LEMMA SameInputs ==
  ASSUME UNCHANGED <<inputs, link>>
  PROVE  Taken' = Taken /\ Path' = Path
BY DEF inputs, Taken, Admitted, InPath, Path, PathOf, KeyOf, Finer, Joined, FactPreAgg

LEMMA ChooseLinkStep == IInv /\ ChooseLink => IInv'
<1> SUFFICES ASSUME IInv, ChooseLink PROVE IInv'
  OBVIOUS
<1>1. UNCHANGED <<inputs, next, facts, ctes, query>> /\ facts = <<>> /\ ctes = <<>> /\ next = 1
  BY DEF ChooseLink, IInv, FactsTaken
<1>2. Typed'
  BY <1>1 DEF ChooseLink, Fail, IInv, Typed, Linked, inputs
<1>3. pc' = "keys" => link' \notin Fact
  <2> SUFFICES ASSUME pc' = "keys" PROVE link' \notin Fact
    OBVIOUS
  <2>1. Links # {} /\ link' = Path[CHOOSE k \in Links : \A i \in Links : k <= i]
    BY DEF ChooseLink, Fail
  <2>2. Links \subseteq Nat
    BY PathShape DEF Links, IInv
  <2>3. (CHOOSE k \in Links : \A i \in Links : k <= i) \in Links
    BY <2>1, <2>2, FirstPosition
  <2> QED
    BY <2>1, <2>3 DEF Links
<1>4. pc' \in {"keys", "failed"}
  BY DEF ChooseLink, Fail
<1>5. FactsTaken'
  <2>1. Path' = Path /\ DOMAIN Path \subseteq Nat \ {0}
    BY <1>1, PathShape DEF Path, PathOf, inputs, IInv
  <2>2. facts' = <<>> /\ <<>> \in Seq(Taken')
    BY <1>1
  <2>3. \A k \in DOMAIN Path : ~(k < next')
    BY <1>1, <2>1
  <2> QED
    BY <1>1, <1>3, <1>4, <2>1, <2>2, <2>3 DEF FactsTaken, Linked
<1> QED
  BY <1>2, <1>4, <1>5 DEF IInv, CtesInjected, QueryBuilt

LEMMA TakeFactStep == IInv /\ TakeFact => IInv'
<1> SUFFICES ASSUME IInv, TakeFact PROVE IInv'
  OBVIOUS
<1>1. /\ pc = "keys" /\ next <= Len(Path) /\ next' = next + 1 /\ next \in Nat \ {0}
      /\ UNCHANGED <<inputs, link, ctes, query>> /\ pc' \in {"keys", "failed"}
  BY DEF TakeFact, Fail, IInv, Typed
<1>2. Taken' = Taken /\ Path' = Path
  BY <1>1, SameInputs
<1>3. Typed'
  BY <1>1 DEF IInv, Typed, Linked, inputs
<1>4. CASE pc' = "failed"
  BY <1>1, <1>3, <1>4 DEF IInv, FactsTaken, CtesInjected, QueryBuilt, Linked
<1>5. CASE pc' = "keys"
  <2>1. next \in DOMAIN Path
    BY <1>1, PathShape DEF IInv
  <2>2. facts \in Seq(Taken) /\ link \notin Fact /\ ctes = <<>>
    BY <1>1 DEF IInv, FactsTaken, Linked
  <2>3. \A k \in DOMAIN Path : Path[k] \in Fact /\ k < next
                                 => \E n \in DOMAIN facts : facts[n].entity = Path[k]
    BY <1>1 DEF IInv, FactsTaken, Linked
  <2>4. \A k \in DOMAIN Path : k < next' => k < next \/ k = next
    BY <1>1, PathShape DEF IInv
  <2>5. /\ facts' \in Seq(Taken)
        /\ \A k \in DOMAIN Path : Path[k] \in Fact /\ k < next'
                                    => \E n \in DOMAIN facts' : facts'[n].entity = Path[k]
    <3>1. CASE Path[next] \notin Fact
      BY <1>5, <2>2, <2>3, <2>4, <3>1 DEF TakeFact, Fail
    <3>2. CASE Path[next] \in Fact
      <4> DEFINE e == Path[next]
                 g == FactPreAgg(e)
      <4>1. KeyOf(e) # None /\ ~Finer(e) /\ facts' = Append(facts, g)
        BY <1>5, <3>2 DEF TakeFact, Fail
      <4>2. g \in Taken /\ g.entity = e
        BY <2>1, <3>2, <4>1 DEF Taken, Admitted, InPath, FactPreAgg
      <4> HIDE DEF g, e
      <4>3. /\ facts' \in Seq(Taken) /\ DOMAIN facts' = 1..(Len(facts) + 1)
            /\ facts'[Len(facts) + 1] = g /\ Len(facts) \in Nat /\ DOMAIN facts = 1..Len(facts)
            /\ \A n \in DOMAIN facts : facts'[n] = facts[n]
        BY <2>2, <4>1, <4>2
      <4> USE DEF e
      <4> QED
        BY <2>3, <2>4, <4>2, <4>3
    <3> QED
      BY <3>1, <3>2
  <2>6. FactsTaken'
    BY <1>1, <1>2, <1>5, <2>2, <2>5 DEF FactsTaken, Linked
  <2> QED
    BY <1>3, <1>5, <2>6 DEF IInv, CtesInjected, QueryBuilt
<1> QED
  BY <1>1, <1>4, <1>5

LEMMA InjectStep == IInv /\ Inject => IInv'
<1> SUFFICES ASSUME IInv, Inject PROVE IInv'
  OBVIOUS
<1>1. /\ pc = "keys" /\ next > Len(Path) /\ next' = 1
      /\ UNCHANGED <<inputs, link, facts, ctes, query>> /\ pc' \in {"ctes", "failed"}
  BY DEF Inject, Fail
<1>2. Taken' = Taken /\ Path' = Path
  BY <1>1, SameInputs
<1>3. Typed'
  BY <1>1 DEF IInv, Typed, Linked, inputs
<1>4. facts \in Seq(Taken) /\ link \notin Fact /\ ctes = <<>>
  BY <1>1 DEF IInv, FactsTaken, Linked
<1>5. \A k \in DOMAIN Path : k < next
  BY <1>1, PathShape DEF IInv, Typed
<1>6. \A k \in DOMAIN Path : Path[k] \in Fact => \E n \in DOMAIN facts : facts[n].entity = Path[k]
  BY <1>1, <1>5 DEF IInv, FactsTaken, Linked
<1>7. FactsTaken'
  BY <1>1, <1>2, <1>4, <1>6 DEF FactsTaken, Linked
<1>8. CtesInjected'
  <2>1. ctes' = <<>> /\ <<>> \in Seq({Cte(g) : g \in Taken})' /\ DOMAIN ctes' = {}
    BY <1>1, <1>4
  <2>2. \A n \in DOMAIN facts : ~(n < 1)
    BY <1>4
  <2> QED
    BY <1>1, <2>1, <2>2 DEF CtesInjected
<1> QED
  BY <1>1, <1>3, <1>7, <1>8 DEF IInv, QueryBuilt

LEMMA AddCteStep == IInv /\ AddCte => IInv'
<1> SUFFICES ASSUME IInv, AddCte PROVE IInv'
  OBVIOUS
<1>1. /\ pc = "ctes" /\ next <= Len(facts) /\ next' = next + 1 /\ next \in Nat \ {0}
      /\ UNCHANGED <<inputs, link, facts, query, pc>>
  BY DEF AddCte, IInv, Typed
<1>2. Taken' = Taken /\ Path' = Path
  BY <1>1, SameInputs
<1>3. Typed' /\ FactsTaken' /\ QueryBuilt'
  BY <1>1, <1>2 DEF IInv, Typed, FactsTaken, QueryBuilt, Linked, inputs
<1> DEFINE C == {Cte(g) : g \in Taken}
<1>4. /\ facts \in Seq(Taken) /\ next \in DOMAIN facts /\ facts[next] \in Taken
      /\ DOMAIN facts \subseteq Nat
  <2>1. facts \in Seq(Taken)
    BY <1>1 DEF IInv, FactsTaken, Linked
  <2> QED
    BY <1>1, <2>1
<1>5. ctes \in Seq(C) /\ \A n, m \in DOMAIN ctes : ctes[n].alias = ctes[m].alias => n = m
  BY <1>1 DEF IInv, CtesInjected
<1>6. \A n \in DOMAIN facts :
        n < next => \E m \in DOMAIN ctes : ctes[m].alias = CteName[facts[n].table]
  BY <1>1 DEF IInv, CtesInjected
<1>7. \A n \in DOMAIN facts : n < next + 1 => n < next \/ n = next
  BY <1>1, <1>4
<1> DEFINE a == CteName[facts[next].table]
<1>8. /\ ctes' \in Seq(C)
      /\ \A n, m \in DOMAIN ctes' : ctes'[n].alias = ctes'[m].alias => n = m
      /\ \A n \in DOMAIN facts :
           n < next + 1 => \E m \in DOMAIN ctes' : ctes'[m].alias = CteName[facts[n].table]
  <2>1. CASE \E n \in DOMAIN ctes : ctes[n].alias = a
    <3>1. ctes' = ctes
      BY <2>1 DEF AddCte
    <3> QED
      BY <1>5, <1>6, <1>7, <2>1, <3>1
  <2>2. CASE ~ \E n \in DOMAIN ctes : ctes[n].alias = a
    <3> DEFINE c == Cte(facts[next])
    <3>1. ctes' = Append(ctes, c)
      BY <2>2 DEF AddCte
    <3>2. c \in C
      BY <1>4
    <3>3. c.alias = a
      BY CteShape
    <3> HIDE DEF c, C
    <3>4. /\ ctes' \in Seq(C) /\ DOMAIN ctes' = 1..(Len(ctes) + 1)
          /\ ctes'[Len(ctes) + 1] = c /\ Len(ctes) \in Nat /\ DOMAIN ctes = 1..Len(ctes)
          /\ \A n \in DOMAIN ctes : ctes'[n] = ctes[n]
      BY <1>5, <3>1, <3>2
    <3>5. ASSUME NEW n \in DOMAIN ctes', NEW m \in DOMAIN ctes', ctes'[n].alias = ctes'[m].alias
          PROVE  n = m
      <4>1. (n \in DOMAIN ctes \/ n = Len(ctes) + 1) /\ (m \in DOMAIN ctes \/ m = Len(ctes) + 1)
        BY <3>4
      <4> HIDE DEF a
      <4> USE <2>2
      <4> QED
        BY <1>5, <3>3, <3>4, <3>5, <4>1 DEF a
    <3>6. ASSUME NEW n \in DOMAIN facts, n < next + 1
          PROVE  \E m \in DOMAIN ctes' : ctes'[m].alias = CteName[facts[n].table]
      <4>1. CASE n = next
        BY <3>3, <3>4, <4>1
      <4>2. CASE n < next
        <5>1. PICK m \in DOMAIN ctes : ctes[m].alias = CteName[facts[n].table]
          BY <1>6, <4>2
        <5>2. m \in DOMAIN ctes' /\ ctes'[m] = ctes[m]
          BY <3>4
        <5> QED
          BY <5>1, <5>2
      <4> QED
        BY <1>7, <3>6, <4>1, <4>2
    <3> QED
      BY <3>4, <3>5, <3>6
  <2> QED
    BY <2>1, <2>2
<1>9. {Cte(g) : g \in Taken}' = C
  BY <1>2 DEF Cte, Projected
<1> HIDE DEF C
<1>10. CtesInjected'
  BY <1>1, <1>8, <1>9 DEF CtesInjected
<1> QED
  BY <1>3, <1>10 DEF IInv

LEMMA RewriteStep == IInv /\ Rewrite => IInv'
<1> SUFFICES ASSUME IInv, Rewrite PROVE IInv'
  OBVIOUS
<1>1. /\ pc = "ctes" /\ next > Len(facts) /\ pc' = "rewritten"
      /\ UNCHANGED <<inputs, link, next, facts, ctes>>
      /\ query'.select = {OuterDimension(d) : d \in dims} /\ query'.measure = OuterMeasure
  BY DEF Rewrite
<1>2. Taken' = Taken /\ Path' = Path
  BY <1>1, SameInputs
<1>3. Typed' /\ FactsTaken'
  BY <1>1, <1>2 DEF IInv, Typed, FactsTaken, Linked, inputs
<1>4. facts \in Seq(Taken)
  BY <1>1 DEF IInv, FactsTaken, Linked
<1>5. \A n \in DOMAIN facts : n < next
  BY <1>1, <1>4 DEF IInv, Typed
<1>6. {Cte(g) : g \in Taken}' = {Cte(g) : g \in Taken}
  BY <1>2 DEF Cte, Projected
<1>7. CtesInjected'
  BY <1>1, <1>5, <1>6 DEF IInv, CtesInjected
<1>8. QueryBuilt'
  <2>1. OuterMeasure' = OuterMeasure
    BY <1>1, <1>2 DEF OuterMeasure, FirstOn, inputs
  <2>2. {OuterDimension(d) : d \in dims}' = {OuterDimension(d) : d \in dims}
    BY <1>1, <1>2 DEF OuterDimension, FirstOn, At, inputs
  <2> QED
    BY <1>1, <2>1, <2>2 DEF QueryBuilt
<1> QED
  BY <1>3, <1>7, <1>8 DEF IInv

THEOREM Invariance == Spec => []IInv
<1>1. IInv /\ [Next]_vars => IInv'
  <2>1. IInv /\ UNCHANGED vars => IInv'
    <3> SUFFICES ASSUME IInv, UNCHANGED vars PROVE IInv'
      OBVIOUS
    <3>1. UNCHANGED <<inputs, link>>
      BY DEF vars
    <3>2. Taken' = Taken /\ Path' = Path
      BY <3>1, SameInputs
    <3>3. {Cte(g) : g \in Taken}' = {Cte(g) : g \in Taken}
      BY <3>2 DEF Cte, Projected
    <3>4. OuterMeasure' = OuterMeasure
      BY <3>2 DEF OuterMeasure, FirstOn, vars, inputs
    <3>5. {OuterDimension(d) : d \in dims}' = {OuterDimension(d) : d \in dims}
      BY <3>2 DEF OuterDimension, FirstOn, At, vars, inputs
    <3> QED
      BY <3>2, <3>3, <3>4, <3>5
      DEF IInv, Typed, FactsTaken, CtesInjected, QueryBuilt, Linked, vars, inputs
  <2> QED
    BY <2>1, ChooseLinkStep, TakeFactStep, InjectStep, AddCteStep, RewriteStep DEF Next
<1> QED
  BY <1>1, InitIInv, PTL DEF Spec

--------------------------------------------------------------------------------
(* With one relation per table, a table and an entity have one place in the path. *)
LEMMA Places ==
  ASSUME Typed, TablesDistinct, NEW k \in DOMAIN Path
  PROVE  /\ FirstOn(TableOf[Path[k]]) = k /\ At(Path[k]) = k
         /\ \A i \in DOMAIN Path : Path[i] = Path[k] => i = k
         /\ \A i \in DOMAIN Path : TableOf[Path[i]] = TableOf[Path[k]] => i = k
<1>1. \A i, n \in DOMAIN Path : TableOf[Path[i]] = TableOf[Path[n]] => i = n
  BY DEF TablesDistinct
<1>2. \A i \in DOMAIN Path : Path[i] = Path[k] <=> i = k
  BY <1>1
<1>3. At(Path[k]) = k
  BY <1>2 DEF At
<1>4. \A i \in DOMAIN Path : \A n \in 1..(i - 1) : n \in DOMAIN Path /\ n # i
  BY PathShape
<1>5. \A i \in DOMAIN Path :
        (TableOf[Path[i]] = TableOf[Path[k]]
           /\ \A n \in 1..(i - 1) : TableOf[Path[n]] # TableOf[Path[k]]) <=> i = k
  BY <1>1, <1>4
<1>6. FirstOn(TableOf[Path[k]]) = k
  BY <1>5 DEF FirstOn
<1> QED
  BY <1>1, <1>2, <1>3, <1>6

(* Once rewritten, a fact of the path is in the list. *)
LEMMA ListedFacts ==
  ASSUME IInv, pc = "rewritten"
  PROVE  /\ facts \in Seq(Taken)
         /\ \A n \in DOMAIN facts : facts[n] \in Taken
         /\ \A k \in DOMAIN Path :
              Path[k] \in Fact => \E n \in DOMAIN facts : facts[n] = FactPreAgg(Path[k])
<1>1. facts \in Seq(Taken)
  BY DEF IInv, FactsTaken, Linked
<1>2. \A n \in DOMAIN facts : facts[n] \in Taken
  BY <1>1, ElementOfSeq, LenProperties
<1>3. \A k \in DOMAIN Path :
        Path[k] \in Fact => \E n \in DOMAIN facts : facts[n].entity = Path[k]
  BY DEF IInv, FactsTaken, Linked
<1>4. \A n \in DOMAIN facts : facts[n] = FactPreAgg(facts[n].entity)
  BY <1>2, TakenShape
<1>5. \A k \in DOMAIN Path :
        Path[k] \in Fact => \E n \in DOMAIN facts : facts[n] = FactPreAgg(Path[k])
  BY <1>3, <1>4
<1> QED
  BY <1>1, <1>2, <1>5

(* The relations replaced are the facts. *)
LEMMA FactsSwapped ==
  ASSUME IInv, Finished, NEW k \in DOMAIN Path
  PROVE  Swapped(k) <=> Path[k] \in Fact
<1>1. k = FirstOn(TableOf[Path[k]])
  BY Places DEF IInv, Finished
<1>2. ASSUME NEW n \in DOMAIN facts, facts[n].table = TableOf[Path[k]]
      PROVE  Path[k] \in Fact
  <2>1. facts[n].entity \in Admitted /\ facts[n].table = TableOf[facts[n].entity]
    BY ListedFacts, TakenShape DEF Finished
  <2>2. PICK i \in DOMAIN Path : Path[i] = facts[n].entity
    BY <2>1 DEF Admitted, InPath
  <2>3. i = k
    BY <1>2, <2>1, <2>2, Places DEF IInv, Finished
  <2> QED
    BY <2>1, <2>2, <2>3 DEF Admitted
<1>3. ASSUME Path[k] \in Fact
      PROVE  \E n \in DOMAIN facts : facts[n].table = TableOf[Path[k]]
  BY <1>3, ListedFacts DEF FactPreAgg, Finished
<1> QED
  BY <1>1, <1>2, <1>3 DEF Swapped

(* The one CTE on the table of a fact is the fact's. *)
LEMMA CteOfFact ==
  ASSUME IInv, Finished, NEW k \in DOMAIN Path, Path[k] \in Fact
  PROVE  /\ \E m \in DOMAIN ctes : {n \in DOMAIN ctes : ctes[n].table = TableOf[Path[k]]} = {m}
         /\ CteAt(k) = Cte(FactPreAgg(Path[k]))
         /\ Path[k] \in Admitted
<1> DEFINE f == Path[k]
           t == TableOf[f]
           own(m) == ctes[m] = Cte(FactPreAgg(f))
<1>1. PICK n0 \in DOMAIN facts : facts[n0] = FactPreAgg(f)
  BY ListedFacts DEF Finished
<1>2. facts[n0].table = t /\ facts[n0].entity = f /\ f \in Admitted
  BY <1>1, ListedFacts, TakenShape DEF FactPreAgg, Finished
<1>3. /\ ctes \in Seq({Cte(g) : g \in Taken})
      /\ \A n, m \in DOMAIN ctes : ctes[n].alias = ctes[m].alias => n = m
      /\ \A n \in DOMAIN facts : \E m \in DOMAIN ctes : ctes[m].alias = CteName[facts[n].table]
  BY DEF IInv, CtesInjected, Finished
<1>4. PICK m0 \in DOMAIN ctes : ctes[m0].alias = CteName[t]
  BY <1>2, <1>3
<1>5. \A m \in DOMAIN ctes : ctes[m] \in {Cte(g) : g \in Taken}
  BY <1>3, ElementOfSeq, LenProperties
<1>6. \A m \in DOMAIN ctes : ctes[m].alias = CteName[ctes[m].table]
  BY <1>5, CteShape
<1>7. own(m0)
  <2>1. PICK g \in Taken : ctes[m0] = Cte(g)
    BY <1>5
  <2>2. /\ CteName[g.table] = CteName[t] /\ g = FactPreAgg(g.entity)
        /\ g.table = TableOf[g.entity] /\ g.entity \in Admitted
    BY <1>4, <2>1, CteShape, TakenShape
  <2>3. PICK i \in DOMAIN Path : Path[i] = g.entity
    BY <2>2 DEF Admitted, InPath
  <2>4. i = k
    BY <2>2, <2>3 DEF Finished, TablesDistinct
  <2> QED
    BY <2>1, <2>2, <2>3, <2>4
<1>8. ctes[m0].table = t
  BY <1>7, CteShape DEF FactPreAgg
<1>9. \A m \in DOMAIN ctes : ctes[m].table = t => m = m0
  BY <1>3, <1>4, <1>6
<1>10. {n \in DOMAIN ctes : ctes[n].table = TableOf[Path[k]]} = {m0}
  BY <1>8, <1>9
<1>11. CteAt(k) = ctes[m0]
  <2>1. \A c \in {ctes[n] : n \in DOMAIN ctes} : c.table = TableOf[Path[k]] <=> c = ctes[m0]
    BY <1>8, <1>9
  <2> QED
    BY <2>1 DEF CteAt
<1> QED
  BY <1>2, <1>7, <1>10, <1>11

(***************************************************************************)
(* Whatever the schema and the plan, every fact of the path and nothing    *)
(* else is replaced by one CTE, and joined to the link by its group key.   *)
(***************************************************************************)
THEOREM EveryFactAggregated == Spec => []FactsPreAggregated
<1>1. IInv => FactsPreAggregated
  <2> SUFFICES ASSUME IInv, Finished, NEW k \in DOMAIN Path
               PROVE  /\ Swapped(k) <=> Path[k] \in Fact
                      /\ Swapped(k) =>
                           /\ Cardinality({n \in DOMAIN ctes : ctes[n].table = TableOf[Path[k]]}) = 1
                           /\ \E i \in DOMAIN joins :
                                /\ Joined(link, Path[k], i)
                                /\ \E r \in OnOf(i) : r.at = k /\ r.column = CteAt(k).key
    BY DEF FactsPreAggregated
  <2>1. Swapped(k) <=> Path[k] \in Fact
    BY FactsSwapped
  <2>2. ASSUME Path[k] \in Fact
        PROVE  Cardinality({n \in DOMAIN ctes : ctes[n].table = TableOf[Path[k]]}) = 1
    <3>1. PICK m \in DOMAIN ctes : {n \in DOMAIN ctes : ctes[n].table = TableOf[Path[k]]} = {m}
      BY <2>2, CteOfFact
    <3> QED
      BY <3>1, FS_Singleton
  <2>3. ASSUME Path[k] \in Fact
        PROVE  \E i \in DOMAIN joins :
                 /\ Joined(link, Path[k], i)
                 /\ \E r \in OnOf(i) : r.at = k /\ r.column = CteAt(k).key
    <3> DEFINE f == Path[k]
    <3>1. CteAt(k).key = KeyOf(f) /\ KeyOf(f) # None
      <4>1. CteAt(k) = Cte(FactPreAgg(f)) /\ f \in Admitted
        BY <2>3, CteOfFact
      <4>2. Cte(FactPreAgg(f)).key = FactPreAgg(f).key /\ FactPreAgg(f).key = KeyOf(f)
        BY CteShape DEF FactPreAgg
      <4> QED
        BY <4>1, <4>2 DEF Admitted
    <3>2. PICK i \in DOMAIN joins :
            Joined(link, f, i) /\ KeyOf(f) = IF joins[i].left = f THEN joins[i].lcol ELSE joins[i].rcol
      BY <3>1, KeyOfHop DEF IInv
    <3>3. link # f
      BY <2>3 DEF IInv, FactsTaken, Linked, Finished
    <3>4. CASE joins[i].left = f
      <4> DEFINE r == [at |-> At(joins[i].left), column |-> joins[i].lcol,
                       of |-> <<joins[i].left, joins[i].lcol>>]
      <4>1. r \in OnOf(i) /\ r.at = At(f) /\ r.column = KeyOf(f)
        BY <3>2, <3>4 DEF OnOf
      <4>2. At(f) = k
        BY Places DEF IInv, Finished
      <4> HIDE DEF r
      <4> QED
        BY <3>1, <3>2, <4>1, <4>2
    <3>5. CASE joins[i].left # f
      <4> DEFINE r == [at |-> i + 1, column |-> joins[i].rcol,
                       of |-> <<joins[i].right, joins[i].rcol>>]
      <4>1. joins[i].right = f
        BY <3>2, <3>5 DEF Joined
      <4>2. i + 1 \in DOMAIN Path /\ Path[i + 1] = f
        BY <4>1, PathShape DEF IInv
      <4>3. i + 1 = k
        BY <4>2, Places DEF IInv, Finished
      <4>4. r \in OnOf(i) /\ r.at = k /\ r.column = KeyOf(f)
        BY <3>2, <3>5, <4>3 DEF OnOf
      <4> HIDE DEF r
      <4> QED
        BY <3>1, <3>2, <4>4
    <3> QED
      BY <3>4, <3>5
  <2> QED
    BY <2>1, <2>2, <2>3
<1> QED
  BY <1>1, Invariance, PTL

(***************************************************************************)
(* What the relations of the outer query have.  The request and the plan   *)
(* name columns that the tables have.                                      *)
(***************************************************************************)
Described ==
  /\ measure.column \in Column \cap Columns[TableOf[base]]
  /\ \A k \in DOMAIN joins :
       /\ joins[k].lcol \in Columns[TableOf[joins[k].left]]
       /\ joins[k].rcol \in Columns[TableOf[joins[k].right]]

LEMMA AlwaysDescribed == Spec => []Described
<1>1. Init => Described
  <2> SUFFICES ASSUME Init PROVE Described
    OBVIOUS
  <2>1. PICK plan \in Plans : base = plan[1] /\ joins = plan[2]
    BY DEF Init
  <2>2. measure.column \in Measured \cap Columns[TableOf[base]]
    BY DEF Init
  <2> QED
    BY <2>1, <2>2, ColumnsAssumption, EntityAssumption DEF Described
<1>2. Described /\ [Next]_vars => Described'
  <2> SUFFICES ASSUME Described, [Next]_vars PROVE Described'
    OBVIOUS
  <2>1. UNCHANGED inputs
    BY DEF Next, vars, ChooseLink, TakeFact, Inject, AddCte, Rewrite
  <2> QED
    BY <2>1 DEF Described, inputs
<1> QED
  BY <1>1, <1>2, PTL DEF Spec

(* A key is a column of its fact's table. *)
LEMMA KeyIsColumn ==
  ASSUME Typed, Described, NEW f, KeyOf(f) # None
  PROVE  KeyOf(f) \in Column \cap Columns[TableOf[f]]
<1>1. PICK i \in DOMAIN joins :
        Joined(link, f, i) /\ KeyOf(f) = IF joins[i].left = f THEN joins[i].lcol ELSE joins[i].rcol
  BY KeyOfHop
<1>2. joins[i] \in Hop
  BY PathShape, ElementOfSeq DEF Typed
<1>3. joins[i].left = f \/ joins[i].right = f
  BY <1>1 DEF Joined
<1> QED
  BY <1>1, <1>2, <1>3 DEF Described, Hop

(* Short lists, joined. *)
LEMMA OneAndOne ==
  ASSUME NEW a, NEW b
  PROVE  <<a>> \o <<b>> = <<a, b>>
<1> DEFINE S == {a, b}
<1>1. /\ <<a>> \in Seq(S) /\ <<b>> \in Seq(S) /\ <<a, b>> \in Seq(S)
      /\ Len(<<a>>) = 1 /\ Len(<<b>>) = 1 /\ Len(<<a, b>>) = 2
  OBVIOUS
<1> HIDE DEF S
<1>2. /\ <<a>> \o <<b>> \in Seq(S) /\ Len(<<a>> \o <<b>>) = 2
      /\ \A i \in 1..2 : (<<a>> \o <<b>>)[i] = <<a, b>>[i]
  BY <1>1, ConcatProperties
<1> QED
  BY <1>1, <1>2, SeqEqual

LEMMA OneAndTwo ==
  ASSUME NEW a, NEW b, NEW d
  PROVE  <<a>> \o <<b, d>> = <<a, b, d>>
<1> DEFINE S == {a, b, d}
<1>1. /\ <<a>> \in Seq(S) /\ <<b, d>> \in Seq(S) /\ <<a, b, d>> \in Seq(S)
      /\ Len(<<a>>) = 1 /\ Len(<<b, d>>) = 2 /\ Len(<<a, b, d>>) = 3
  OBVIOUS
<1> HIDE DEF S
<1>2. /\ <<a>> \o <<b, d>> \in Seq(S) /\ Len(<<a>> \o <<b, d>>) = 3
      /\ \A i \in 1..3 : (<<a>> \o <<b, d>>)[i] = <<a, b, d>>[i]
  BY <1>1, ConcatProperties
<1> QED
  BY <1>1, <1>2, SeqEqual

(* The columns of a fact's CTE: the key, and after it those of its measure. *)
LEMMA FactOffers ==
  ASSUME IInv, Finished, NEW k \in DOMAIN Path, Path[k] \in Fact
  PROVE  LET c == measure.column IN
         /\ KeyOf(Path[k]) # None
         /\ Offered(k) = IF Path[k] # base THEN <<KeyOf(Path[k])>>
                         ELSE IF measure.agg = "average" THEN <<KeyOf(Path[k]), Sum(c), Count(c)>>
                         ELSE <<KeyOf(Path[k]), c>>
<1> DEFINE f == Path[k]
           g == FactPreAgg(f)
<1>1. Offered(k) = Cte(g).columns /\ KeyOf(f) # None
  BY FactsSwapped, CteOfFact DEF Offered, Admitted
<1>2. g.key = KeyOf(f) /\ g.measures = IF f = base THEN <<measure>> ELSE <<>>
  BY DEF FactPreAgg
<1>3. Cte(g).columns = <<g.key>> \o IF g.measures = <<>> THEN <<>> ELSE Projected(g.measures[1])
  BY DEF Cte
<1> HIDE DEF g
<1>4. CASE f # base
  BY <1>1, <1>2, <1>3, <1>4
<1>5. CASE f = base
  <2>1. <<measure>> # <<>> /\ <<measure>>[1] = measure
    OBVIOUS
  <2>2. Offered(k) = <<KeyOf(f)>> \o Projected(measure)
    BY <1>1, <1>2, <1>3, <1>5, <2>1
  <2>3. CASE measure.agg = "average"
    <3>1. Projected(measure) = <<Sum(measure.column), Count(measure.column)>>
      BY <2>3 DEF Projected
    <3> QED
      BY <1>1, <1>5, <2>2, <2>3, <3>1, OneAndTwo, Zenon
  <2>4. CASE measure.agg # "average"
    <3>1. Projected(measure) = <<measure.column>>
      BY <2>4 DEF Projected
    <3> QED
      BY <1>1, <1>5, <2>2, <2>4, <3>1, OneAndOne, Zenon
  <2> QED
    BY <2>3, <2>4
<1> QED
  BY <1>4, <1>5

LEMMA TableOffers ==
  ASSUME IInv, Finished, NEW k \in DOMAIN Path, Path[k] \notin Fact
  PROVE  Offered(k) = [c \in Columns[TableOf[Path[k]]] |-> c]
BY FactsSwapped DEF Offered

(* A CTE offers no name that its table does not, but for the parts of an average. *)
LEMMA OffersOfTable ==
  ASSUME IInv, Described, Finished, NEW k \in DOMAIN Path, NEW n \in DOMAIN Offered(k),
         Offered(k)[n] \in Column
  PROVE  Offered(k)[n] \in Columns[TableOf[Path[k]]]
<1>1. CASE Path[k] \notin Fact
  BY <1>1, TableOffers
<1>2. CASE Path[k] \in Fact
  <2> DEFINE c == measure.column
             key == KeyOf(Path[k])
  <2>1. key \in Columns[TableOf[Path[k]]]
    BY <1>2, FactOffers, KeyIsColumn DEF IInv
  <2>2. c \in Column /\ (Path[k] = base => c \in Columns[TableOf[Path[k]]])
    BY DEF Described
  <2>3. Sum(c) \notin Column /\ Count(c) \notin Column
    BY <2>2, PartsAssumption
  <2>4. \/ Path[k] # base /\ Offered(k) = <<key>>
        \/ Offered(k) = <<key, Sum(c), Count(c)>>
        \/ Path[k] = base /\ Offered(k) = <<key, c>>
    BY <1>2, FactOffers
  <2>5. CASE Offered(k) = <<key>>
    BY <2>1, <2>5
  <2>6. CASE Offered(k) = <<key, Sum(c), Count(c)>>
    <3>1. n \in 1..3 /\ Offered(k)[1] = key /\ Offered(k)[2] = Sum(c) /\ Offered(k)[3] = Count(c)
      BY <2>6
    <3> QED
      BY <2>1, <2>3, <3>1
  <2>7. CASE Path[k] = base /\ Offered(k) = <<key, c>>
    <3>1. n \in 1..2 /\ Offered(k)[1] = key /\ Offered(k)[2] = c
      BY <2>7
    <3> QED
      BY <2>1, <2>2, <2>7, <3>1
  <2> QED
    BY <2>4, <2>5, <2>6, <2>7
<1> QED
  BY <1>1, <1>2

(* A qualified reference resolves if its relation has one column of the name. *)
LEMMA QualifiedResolves ==
  ASSUME Typed, NEW r, NEW k \in DOMAIN Path, r.at = k, At(r.of[1]) = k,
         NEW n \in DOMAIN Offered(k),
         \A m \in DOMAIN Offered(k) : Offered(k)[m] = r.column <=> m = n
  PROVE  Resolves(r)
<1>1. k # None
  BY PathShape, NoneAssumption
<1>2. \A i \in DOMAIN Path : \A m \in DOMAIN Offered(i) : Fits(r, i, m) <=> i = k /\ m = n
  BY <1>1 DEF Fits
<1>3. At(r.of[1]) = k
  OBVIOUS
<1> QED
  BY <1>2, <1>3 DEF Resolves

(* A bare one, of an entity that is no fact, if no other table in the path has the name. *)
LEMMA BareResolves ==
  ASSUME IInv, Described, Finished, NEW r, NEW k \in DOMAIN Path, Path[k] \notin Fact,
         NEW c \in Column \cap Columns[TableOf[Path[k]]],
         r.at = None, r.column = c, r.of = <<Path[k], c>>, NamedOnce(r.of)
  PROVE  Resolves(r)
<1>1. At(r.of[1]) = k
  BY Places DEF IInv, Finished
<1>2. Offered(k) = [a \in Columns[TableOf[Path[k]]] |-> a]
  BY TableOffers
<1>3. ASSUME NEW i \in DOMAIN Path, NEW m \in DOMAIN Offered(i)
      PROVE  Fits(r, i, m) <=> i = k /\ m = c
  <2>1. CASE i = k
    BY <1>2, <2>1 DEF Fits
  <2>2. CASE i # k
    <3> SUFFICES ASSUME Offered(i)[m] = c PROVE FALSE
      BY <2>2 DEF Fits
    <3>1. c \in Columns[TableOf[Path[i]]]
      BY OffersOfTable
    <3>2. Path[i] = Path[k]
      BY <3>1 DEF NamedOnce
    <3> QED
      BY <2>2, <3>2, Places DEF IInv, Finished
  <2> QED
    BY <2>1, <2>2
<1>4. c \in DOMAIN Offered(k)
  BY <1>2
<1> QED
  BY <1>1, <1>3, <1>4, Zenon DEF Resolves

(* The key of a fact is the first column of its CTE, and the only one of its name. *)
LEMMA KeyOfferedOnce ==
  ASSUME IInv, Described, Finished, KeyUnmeasured, NEW k \in DOMAIN Path, Path[k] \in Fact
  PROVE  1 \in DOMAIN Offered(k)
         /\ \A m \in DOMAIN Offered(k) : Offered(k)[m] = KeyOf(Path[k]) <=> m = 1
<1> DEFINE c == measure.column
           key == KeyOf(Path[k])
<1>1. key \in Column /\ c \in Column
  BY FactOffers, KeyIsColumn DEF IInv, Described
<1>2. Sum(c) # key /\ Count(c) # key
  BY <1>1, PartsAssumption
<1>3. CASE Path[k] # base
  BY <1>3, FactOffers
<1>4. CASE Path[k] = base /\ measure.agg = "average"
  <2>1. Offered(k) = <<key, Sum(c), Count(c)>>
    BY <1>4, FactOffers
  <2> QED
    BY <1>2, <2>1
<1>5. CASE Path[k] = base /\ measure.agg # "average"
  <2>1. Offered(k) = <<key, c>>
    BY <1>5, FactOffers
  <2>2. c # key
    BY <1>5 DEF KeyUnmeasured
  <2> QED
    BY <2>1, <2>2
<1> QED
  BY <1>3, <1>4, <1>5

(***************************************************************************)
(* Whatever the schema, the plan and the request: a selected dimension of  *)
(* a fact is the column its CTE groups by, which the CTE has once; and     *)
(* what was not ambiguous before the rewrite is not so after it.           *)
(***************************************************************************)
THEOREM SelectionKept == Spec => []SelectedKeepColumn
<1>1. IInv /\ Described => SelectedKeepColumn
  <2> SUFFICES ASSUME IInv, Described, Finished, KeyUnmeasured, NEW d \in dims
               PROVE  LET r == OuterDimension(d)
                      IN  /\ r.column = r.of[2]
                          /\ r.of[1] \in Fact \/ NamedOnce(r.of) => Resolves(r)
    <3> SUFFICES ASSUME IInv, Described, Finished, KeyUnmeasured, NEW r \in query.select
                 PROVE  /\ r.column = r.of[2]
                        /\ r.of[1] \in Fact \/ NamedOnce(r.of) => Resolves(r)
      BY DEF SelectedKeepColumn
    <3>1. query.select = {OuterDimension(d) : d \in dims}
      BY DEF IInv, QueryBuilt, Finished
    <3>2. PICK d \in dims : r = OuterDimension(d)
      BY <3>1
    <3> QED
      BY <3>2, Zenon
  <2> DEFINE own == {n \in DOMAIN facts : facts[n].entity = d[1]}
             n0  == CHOOSE n \in own : TRUE
             r   == OuterDimension(d)
  <2>1. PICK k \in DOMAIN Path : Path[k] = d[1]
    BY DEF IInv, Typed, Needed, Path
  <2>2. At(d[1]) = k /\ FirstOn(TableOf[d[1]]) = k
    BY <2>1, Places DEF IInv, Finished
  <2>3. d = <<d[1], d[2]>> /\ d[2] \in Column \cap Columns[TableOf[d[1]]]
    BY EntityAssumption, ColumnsAssumption DEF IInv, Typed
  <2>4. CASE own = {}
    <3>1. r = [at |-> None, column |-> d[2], of |-> d]
      BY <2>4 DEF OuterDimension
    <3>2. d[1] \notin Fact
      BY <2>1, <2>4, ListedFacts DEF FactPreAgg, Finished
    <3>3. r.at = None /\ r.column = d[2] /\ r.of = <<Path[k], d[2]>> /\ r.of = d
      BY <2>1, <2>3, <3>1
    <3> HIDE DEF r
    <3>4. NamedOnce(r.of) => Resolves(r)
      BY <2>1, <2>3, <3>2, <3>3, BareResolves
    <3> QED
      BY <3>2, <3>3, <3>4 DEF r
  <2>5. CASE own # {}
    <3>1. n0 \in DOMAIN facts /\ facts[n0].entity = d[1]
      BY <2>5
    <3>2. facts[n0].key = KeyOf(d[1]) /\ d[1] \in Admitted
      BY <3>1, ListedFacts, TakenShape DEF Finished
    <3>3. KeyOf(d[1]) = d[2]
      BY <3>2 DEF Admitted, Finer
    <3>4. r = [at |-> FirstOn(TableOf[d[1]]), column |-> facts[n0].key, of |-> d]
      BY <2>5 DEF OuterDimension
    <3> HIDE DEF n0
    <3>5. r.at = k /\ r.column = KeyOf(Path[k]) /\ r.of = d
      BY <2>1, <2>2, <3>2, <3>4
    <3> HIDE DEF r
    <3>6. Resolves(r)
      <4>1. At(r.of[1]) = k /\ Path[k] \in Fact
        BY <2>1, <2>2, <3>2, <3>5 DEF Admitted
      <4>2. /\ 1 \in DOMAIN Offered(k)
            /\ \A m \in DOMAIN Offered(k) : Offered(k)[m] = r.column <=> m = 1
        BY <3>5, <4>1, KeyOfferedOnce
      <4> QED
        BY <3>5, <4>1, <4>2, QualifiedResolves DEF IInv
    <3> QED
      BY <2>1, <3>3, <3>5, <3>6 DEF r
  <2> QED
    BY <2>4, <2>5
<1> QED
  BY <1>1, Invariance, AlwaysDescribed, PTL

(***************************************************************************)
(* The columns the outer query re-aggregates are those the CTE of the      *)
(* measure's fact projects for it, each once.                              *)
(***************************************************************************)
THEOREM MeasureKept == Spec => []MeasureProvided
<1>1. IInv /\ Described => MeasureProvided
  <2> SUFFICES ASSUME IInv, Described, Finished, KeyUnmeasured, NEW r \in OuterMeasure,
                      r.of[1] \in Fact \/ NamedOnce(r.of)
               PROVE  Resolves(r)
    BY DEF MeasureProvided, IInv, QueryBuilt, Finished
  <2> DEFINE c == measure.column
             key == KeyOf(base)
  <2>1. 1 \in DOMAIN Path /\ Path[1] = base
    BY PathShape DEF IInv
  <2>2. At(base) = 1 /\ FirstOn(TableOf[base]) = 1
    BY <2>1, Places DEF IInv, Finished
  <2>3. r.of = <<base, c>>
    BY DEF OuterMeasure
  <2>4. CASE base \in Fact
    <3>1. key \in Column /\ c \in Column
      BY <2>1, <2>4, FactOffers, KeyIsColumn DEF IInv, Described
    <3>2. Sum(c) # key /\ Count(c) # key
      BY <3>1, PartsAssumption
    <3>3. r.at = 1 /\ At(r.of[1]) = 1
      BY <2>2, <2>3, <2>4 DEF OuterMeasure
    <3>4. \E n \in DOMAIN Offered(1) :
            \A m \in DOMAIN Offered(1) : Offered(1)[m] = r.column <=> m = n
      <4>1. CASE measure.agg = "average"
        <5>1. Offered(1) = <<key, Sum(c), Count(c)>>
          BY <2>1, <2>4, <4>1, FactOffers
        <5>2. r.column \in {Sum(c), Count(c)}
          BY <2>4, <4>1 DEF OuterMeasure
        <5>3. Sum(c) # Count(c)
          BY DEF Sum, Count
        <5>4. CASE r.column = Sum(c)
          BY <3>2, <5>1, <5>3, <5>4
        <5>5. CASE r.column = Count(c)
          BY <3>2, <5>1, <5>3, <5>5
        <5> QED
          BY <5>2, <5>4, <5>5
      <4>2. CASE measure.agg # "average"
        <5>1. Offered(1) = <<key, c>>
          BY <2>1, <2>4, <4>2, FactOffers
        <5>2. r.column = c
          BY <2>4, <4>2 DEF OuterMeasure
        <5>3. c # key
          BY <2>4, <4>2 DEF KeyUnmeasured
        <5> QED
          BY <5>1, <5>2, <5>3
      <4> QED
        BY <4>1, <4>2
    <3> QED
      BY <2>1, <3>3, <3>4, QualifiedResolves DEF IInv
  <2>5. CASE base \notin Fact
    <3>1. r.at = None /\ r.column = c
      BY <2>5 DEF OuterMeasure
    <3>2. c \in Column \cap Columns[TableOf[Path[1]]] /\ Path[1] \notin Fact
      BY <2>1, <2>5 DEF Described
    <3>3. NamedOnce(r.of) /\ r.of = <<Path[1], c>>
      BY <2>1, <2>3, <2>5
    <3> QED
      BY <2>1, <3>1, <3>2, <3>3, BareResolves
  <2> QED
    BY <2>4, <2>5
<1> QED
  BY <1>1, Invariance, AlwaysDescribed, PTL

--------------------------------------------------------------------------------
(***************************************************************************)
(* The choice of the link: what is settled of it from step to step.        *)
(***************************************************************************)
Chosen ==
  /\ Tree(base, joins) /\ Several(base, joins)
  /\ Linked => \E k \in Links : link = Path[k]
  /\ pc \in {"ctes", "rewritten"} => ~(base \in Fact /\ measure.agg = "count_distinct")

(* The column of f in the k-th join. *)
Side(f, k) == IF joins[k].left = f THEN joins[k].lcol ELSE joins[k].rcol

(* A join leads from an earlier place of the path to the one after it. *)
LEMMA JoinShape ==
  ASSUME Typed, Tree(base, joins), NEW h \in DOMAIN joins
  PROVE  /\ joins[h] \in Hop
         /\ h + 1 \in DOMAIN Path /\ Path[h + 1] = joins[h].right
         /\ \E i \in DOMAIN Path : i <= h /\ Path[i] = joins[h].left
<1>1. joins \in Seq(Hop) /\ h \in 1..Len(joins) /\ Len(joins) \in Nat
  BY PathShape DEF Typed
<1>2. joins[h] \in Hop
  BY <1>1, ElementOfSeq
<1>3. h + 1 \in DOMAIN Path /\ Path[h + 1] = joins[h].right
  BY <1>1, PathShape
<1>4. \E i \in 1..h : Path[i] = joins[h].left
  BY Zenon DEF Tree, Path
<1>5. 1..h \subseteq DOMAIN Path
  BY <1>1, PathShape
<1> QED
  BY <1>1, <1>2, <1>3, <1>4, <1>5

(* The later of two places that are joined is the right side of the join. *)
LEMMA LaterIsRight ==
  ASSUME Typed, Tree(base, joins), NEW i \in DOMAIN Path, NEW k \in DOMAIN Path, i < k,
         NEW h \in DOMAIN joins, Joined(Path[i], Path[k], h)
  PROVE  h + 1 = k /\ joins[h].left = Path[i]
<1>1. \A m, n \in DOMAIN Path : Path[m] = Path[n] => m = n
  BY Zenon DEF Tree, Path
<1>2. h + 1 \in DOMAIN Path /\ Path[h + 1] = joins[h].right
  BY JoinShape
<1>3. PICK j \in DOMAIN Path : j <= h /\ Path[j] = joins[h].left
  BY JoinShape
<1>4. /\ joins[h].left = Path[i] \/ joins[h].left = Path[k]
      /\ joins[h].right = Path[i] \/ joins[h].right = Path[k]
  BY Zenon DEF Joined
<1>5. (j = i \/ j = k) /\ (h + 1 = i \/ h + 1 = k)
  BY <1>1, <1>2, <1>3, <1>4, Zenon
<1>6. h \in Nat /\ i \in Nat /\ k \in Nat /\ j \in Nat
  BY PathShape
<1>7. h + 1 = k /\ j = i
  BY <1>3, <1>5, <1>6
<1> QED
  BY <1>3, <1>7

LEMMA JoinedEitherWay ==
  ASSUME NEW a, NEW b, NEW k, Joined(a, b, k)
  PROVE  Joined(b, a, k)
BY DEF Joined

(* Two places are joined. *)
Meet(i, k) == \E h \in DOMAIN joins : Joined(Path[i], Path[k], h)

(* A place is joined to one earlier place only. *)
LEMMA OneEarlier ==
  ASSUME Typed, Tree(base, joins), NEW i \in DOMAIN Path, NEW j \in DOMAIN Path,
         NEW k \in DOMAIN Path, i < k, j < k, Meet(i, k), Meet(j, k)
  PROVE  i = j
<1>1. PICK g \in DOMAIN joins : Joined(Path[i], Path[k], g)
  BY Zenon DEF Meet
<1>2. PICK h \in DOMAIN joins : Joined(Path[j], Path[k], h)
  BY Zenon DEF Meet
<1>3. g + 1 = k /\ joins[g].left = Path[i]
  BY <1>1, LaterIsRight
<1>4. h + 1 = k /\ joins[h].left = Path[j]
  BY <1>2, LaterIsRight
<1>5. g \in Nat /\ h \in Nat /\ k \in Nat
  BY PathShape
<1>6. g = h
  BY <1>3, <1>4, <1>5
<1>7. \A m, n \in DOMAIN Path : Path[m] = Path[n] => m = n
  BY Zenon DEF Tree, Path
<1> QED
  BY <1>3, <1>4, <1>6, <1>7

LEMMA MeetEitherWay ==
  ASSUME NEW i, NEW k, Meet(i, k)
  PROVE  Meet(k, i)
BY JoinedEitherWay DEF Meet

(* Two dimensions are not joined to the same two facts: the last of the four would have two lefts. *)
LEMMA NoSquare ==
  ASSUME Typed, Tree(base, joins),
         NEW a \in DOMAIN Path, NEW b \in DOMAIN Path,
         NEW f \in DOMAIN Path, NEW g \in DOMAIN Path,
         {a, b} \cap {f, g} = {}, f # g,
         Meet(a, f), Meet(a, g), Meet(b, f), Meet(b, g)
  PROVE  a = b
<1>1. a \in Nat /\ b \in Nat /\ f \in Nat /\ g \in Nat
  BY PathShape
<1>2. Meet(f, a) /\ Meet(g, a) /\ Meet(f, b) /\ Meet(g, b)
  BY MeetEitherWay
<1>3. ~(f < a /\ g < a) /\ ~(f < b /\ g < b)
  BY <1>2, OneEarlier
<1>4. a < f /\ b < f => a = b
  BY OneEarlier
<1>5. a < g /\ b < g => a = b
  BY OneEarlier
<1>6. a # f /\ a # g /\ b # f /\ b # g
  OBVIOUS
<1> QED
  BY <1>1, <1>3, <1>4, <1>5, <1>6

(* Two of a kind are two of them, and at least that. *)
LEMMA TwoMembers ==
  ASSUME NEW S, IsFiniteSet(S)
  PROVE  Cardinality(S) >= 2 <=> \E f, g \in S : f # g
<1>1. ASSUME Cardinality(S) >= 2 PROVE \E f, g \in S : f # g
  <2>1. S # {}
    BY <1>1, FS_EmptySet
  <2>2. PICK x \in S : TRUE
    BY <2>1
  <2>3. S # {x}
    BY <1>1, FS_Singleton
  <2> QED
    BY <2>2, <2>3
<1>2. ASSUME NEW f \in S, NEW g \in S, f # g PROVE Cardinality(S) >= 2
  <2>1. IsFiniteSet({f}) /\ Cardinality({f}) = 1
    BY FS_Singleton
  <2>2. Cardinality({f} \cup {g}) = 2
    BY <1>2, <2>1, FS_AddElement
  <2>3. ({f} \cup {g}) \in SUBSET S
    OBVIOUS
  <2>4. Cardinality({f} \cup {g}) <= Cardinality(S)
    BY <2>3, FS_Subset
  <2>5. Cardinality(S) \in Nat
    BY FS_CardinalityType
  <2> QED
    BY <2>2, <2>4, <2>5
<1> QED
  BY <1>1, <1>2

LEMMA ConnectedFinite ==
  ASSUME Typed, NEW d
  PROVE  IsFiniteSet(ConnectedFacts(d))
<1> DEFINE N  == DOMAIN joins
           lf == [k \in N |-> joins[k].left]
           rf == [k \in N |-> joins[k].right]
           L  == {lf[k] : k \in N}
           R  == {rf[k] : k \in N}
<1>1. IsFiniteSet(N)
  <2>1. N = 1..Len(joins) /\ Len(joins) \in Nat
    BY PathShape
  <2> QED
    BY <2>1, FS_Interval
<1>2. lf \in Surjection(N, L) /\ rf \in Surjection(N, R)
  BY Fun_IsSurj
<1> HIDE DEF lf, rf, L, R
<1>3. IsFiniteSet(L) /\ IsFiniteSet(R)
  BY <1>1, <1>2, FS_Surjection, Zenon
<1>4. IsFiniteSet(L \cup R)
  BY <1>3, FS_Union
<1>5. ConnectedFacts(d) \in SUBSET (L \cup R)
  BY DEF ConnectedFacts, Joined, L, R, lf, rf
<1> QED
  BY <1>4, <1>5, FS_Subset

(* Two facts are joined to a link. *)
LEMMA LinkMeetsTwo ==
  ASSUME Typed, NEW k \in DOMAIN Path
  PROVE  k \in Links <=>
           /\ Path[k] \notin Fact
           /\ \E f, g \in Fact : /\ f # g
                                 /\ \E h \in DOMAIN joins : Joined(Path[k], f, h)
                                 /\ \E h \in DOMAIN joins : Joined(Path[k], g, h)
<1>1. Cardinality(ConnectedFacts(Path[k])) >= 2
        <=> \E f, g \in ConnectedFacts(Path[k]) : f # g
  BY ConnectedFinite, TwoMembers
<1>2. k \in Links <=> Path[k] \notin Fact /\ Cardinality(ConnectedFacts(Path[k])) >= 2
  BY Zenon DEF Links
<1>3. \A f : f \in ConnectedFacts(Path[k])
               <=> f \in Fact /\ \E h \in DOMAIN joins : Joined(Path[k], f, h)
  BY Zenon DEF ConnectedFacts
<1> QED
  BY <1>1, <1>2, <1>3, Zenon

(* Both ends of a join are in the path. *)
LEMMA EndsInPath ==
  ASSUME Typed, Tree(base, joins), NEW a, NEW b, NEW h \in DOMAIN joins, Joined(a, b, h)
  PROVE  \E i \in DOMAIN Path : Path[i] = b
<1>1. h + 1 \in DOMAIN Path /\ Path[h + 1] = joins[h].right
  BY JoinShape
<1>2. \E i \in DOMAIN Path : Path[i] = joins[h].left
  BY JoinShape
<1>3. b = joins[h].left \/ b = joins[h].right
  BY DEF Joined
<1> QED
  BY <1>1, <1>2, <1>3

(* The same of entities: a dimension joined to two facts is the only one that is. *)
LEMMA OneLink ==
  ASSUME Typed, Tree(base, joins),
         NEW i \in DOMAIN Path, NEW k \in DOMAIN Path,
         Path[i] \notin Fact, Path[k] \notin Fact,
         NEW f \in Fact, NEW g \in Fact, f # g,
         \E h \in DOMAIN joins : Joined(Path[i], f, h),
         \E h \in DOMAIN joins : Joined(Path[i], g, h),
         \E h \in DOMAIN joins : Joined(Path[k], f, h),
         \E h \in DOMAIN joins : Joined(Path[k], g, h)
  PROVE  Path[i] = Path[k]
<1>1. PICK m \in DOMAIN Path : Path[m] = f
  BY EndsInPath
<1>2. PICK n \in DOMAIN Path : Path[n] = g
  BY EndsInPath
<1>3. Meet(i, m) /\ Meet(i, n) /\ Meet(k, m) /\ Meet(k, n)
  BY <1>1, <1>2, Zenon DEF Meet
<1>4. m # n /\ i # m /\ i # n /\ k # m /\ k # n
  BY <1>1, <1>2
<1>5. {i, k} \cap {m, n} = {}
  BY <1>4
<1>6. i = k
  BY <1>3, <1>4, <1>5, NoSquare
<1> QED
  BY <1>6

(* A fact joined to the link is joined to it by one join, whose column is its key. *)
LEMMA KeyIsSide ==
  ASSUME Typed, Tree(base, joins), link \notin Fact, NEW f \in Fact,
         NEW h \in DOMAIN joins, Joined(link, f, h)
  PROVE  KeyOf(f) = Side(f, h) /\ KeyOf(f) # None
<1> DEFINE hops  == {k \in DOMAIN joins : Joined(link, f, k)}
           first == CHOOSE k \in hops : \A i \in hops : k <= i
<1>1. KeyOf(f) = IF hops = {} THEN None ELSE Side(f, first)
  BY Zenon DEF KeyOf, Side
<1>2. PICK n \in DOMAIN Path : Path[n] = f
  BY EndsInPath
<1>3. PICK m \in DOMAIN Path : Path[m] = link
  BY JoinedEitherWay, EndsInPath
<1>4. m # n /\ m \in Nat /\ n \in Nat
  BY <1>2, <1>3, PathShape
<1>5. ASSUME NEW k \in hops, NEW j \in hops PROVE k = j
  <2>1. /\ Joined(Path[m], Path[n], k) /\ Joined(Path[n], Path[m], k) /\ k \in DOMAIN joins
        /\ Joined(Path[m], Path[n], j) /\ Joined(Path[n], Path[m], j) /\ j \in DOMAIN joins
    BY <1>2, <1>3, <1>5, JoinedEitherWay
  <2>2. k \in Nat /\ j \in Nat
    BY <2>1, PathShape
  <2>3. CASE m < n
    <3>1. k + 1 = n /\ j + 1 = n
      BY <2>1, <2>3, LaterIsRight
    <3> QED
      BY <2>2, <3>1
  <2>4. CASE n < m
    <3>1. k + 1 = m /\ j + 1 = m
      BY <2>1, <2>4, LaterIsRight
    <3> QED
      BY <2>2, <3>1
  <2> QED
    BY <1>4, <2>3, <2>4
<1>6. h \in hops /\ hops \subseteq Nat
  BY PathShape
<1> HIDE DEF hops
<1>7. first \in hops
  BY <1>6, FirstPosition
<1>8. first = h
  BY <1>5, <1>6, <1>7
<1>9. Side(f, h) \in Column
  BY JoinShape DEF Side, Hop
<1> HIDE DEF first
<1> QED
  BY <1>1, <1>6, <1>8, <1>9, NoneAssumption

(***************************************************************************)
(* What ConformedFacts speaks of, in terms of the path.                    *)
(***************************************************************************)
LEMMA EntitiesAre ==
  ASSUME Typed, NEW e
  PROVE  e \in Meant!Entities <=> \E k \in DOMAIN Path : Path[k] = e
<1>1. /\ DOMAIN joins = 1..Len(joins) /\ Len(joins) \in Nat
      /\ DOMAIN Path = 1..(Len(joins) + 1) /\ Path[1] = base
      /\ \A k \in DOMAIN joins : Path[k + 1] = joins[k].right
  BY PathShape
<1>2. e \in Meant!Entities <=> e = base \/ \E k \in DOMAIN joins : e = joins[k].right
  BY DEF Meant!Entities
<1>3. ASSUME NEW k \in DOMAIN Path, Path[k] = e
      PROVE  e = base \/ \E h \in DOMAIN joins : e = joins[h].right
  <2>1. CASE k = 1
    BY <1>1, <1>3, <2>1
  <2>2. CASE k # 1
    <3>1. k - 1 \in DOMAIN joins /\ (k - 1) + 1 = k
      BY <1>1, <2>2
    <3>2. Path[(k - 1) + 1] = joins[k - 1].right
      BY <1>1, <3>1, Zenon
    <3> QED
      BY <1>3, <3>1, <3>2
  <2> QED
    BY <2>1, <2>2
<1>4. 1 \in DOMAIN Path /\ \A k \in DOMAIN joins : k + 1 \in DOMAIN Path
  BY <1>1
<1> QED
  BY <1>1, <1>2, <1>3, <1>4

LEMMA KeysAre ==
  ASSUME NEW l, l \notin Fact
  PROVE  /\ \A key \in Meant!Keys(l) : key = <<key[1], key[2]>>
         /\ \A f, c : <<f, c>> \in Meant!Keys(l)
              <=> f \in Fact /\ \E h \in DOMAIN joins : Joined(l, f, h) /\ c = Side(f, h)
<1> DEFINE Lefts  == {<<h.left,  h.lcol>> : h \in {j \in {joins[k] : k \in DOMAIN joins} :
                                                     j.right = l /\ j.left \in Fact}}
           Rights == {<<h.right, h.rcol>> : h \in {j \in {joins[k] : k \in DOMAIN joins} :
                                                     j.left = l /\ j.right \in Fact}}
<1>1. Meant!Keys(l) = Lefts \cup Rights
  BY Zenon DEF Meant!Keys
<1>2. \A key \in Lefts : key = <<key[1], key[2]>>
  OBVIOUS
<1>3. \A key \in Rights : key = <<key[1], key[2]>>
  OBVIOUS
<1>4. ASSUME NEW f, NEW c
      PROVE  <<f, c>> \in Lefts
               <=> \E k \in DOMAIN joins : /\ joins[k].right = l /\ joins[k].left \in Fact
                                           /\ joins[k].left = f /\ joins[k].lcol = c
  OBVIOUS
<1>5. ASSUME NEW f, NEW c
      PROVE  <<f, c>> \in Rights
               <=> \E k \in DOMAIN joins : /\ joins[k].left = l /\ joins[k].right \in Fact
                                           /\ joins[k].right = f /\ joins[k].rcol = c
  OBVIOUS
<1> HIDE DEF Lefts, Rights
<1>6. ASSUME NEW f \in Fact, NEW k \in DOMAIN joins
      PROVE  /\ Joined(l, f, k) <=> \/ joins[k].right = l /\ joins[k].left = f
                                    \/ joins[k].left = l /\ joins[k].right = f
             /\ joins[k].left = f => Side(f, k) = joins[k].lcol
             /\ joins[k].left = l => Side(f, k) = joins[k].rcol
  BY <1>6 DEF Joined, Side
<1>7. ASSUME NEW f, NEW c
      PROVE  <<f, c>> \in Meant!Keys(l)
              <=> f \in Fact /\ \E h \in DOMAIN joins : Joined(l, f, h) /\ c = Side(f, h)
  <2>1. CASE f \in Fact
    BY <1>1, <1>4, <1>5, <1>6, <2>1
  <2>2. CASE f \notin Fact
    BY <1>1, <1>4, <1>5, <2>2
  <2> QED
    BY <2>1, <2>2
<1> QED
  BY <1>1, <1>2, <1>3, <1>7

LEMMA ConformedAre ==
  ASSUME Typed, NEW l
  PROVE  l \in Meant!Conformed
           <=> /\ l \notin Fact /\ \E k \in DOMAIN Path : Path[k] = l
               /\ \A k \in DOMAIN Path :
                    Path[k] \in Fact => \E h \in DOMAIN joins : Joined(l, Path[k], h)
<1>1. l \in Meant!Conformed
        <=> /\ l \in Meant!Entities /\ l \notin Fact
            /\ \A f \in Meant!Entities :
                 f \in Fact => \E key \in Meant!Keys(l) : key[1] = f
  BY Zenon DEF Meant!Conformed, Meant!Facts
<1>2. ASSUME l \notin Fact, NEW f \in Fact
      PROVE  (\E key \in Meant!Keys(l) : key[1] = f) <=> \E h \in DOMAIN joins : Joined(l, f, h)
  <2>1. \A key \in Meant!Keys(l) : key = <<key[1], key[2]>>
    BY <1>2, KeysAre
  <2>2. \A c : <<f, c>> \in Meant!Keys(l)
                 <=> \E h \in DOMAIN joins : Joined(l, f, h) /\ c = Side(f, h)
    BY <1>2, KeysAre
  <2>3. ASSUME NEW key \in Meant!Keys(l), key[1] = f
        PROVE  \E h \in DOMAIN joins : Joined(l, f, h)
    <3>1. <<f, key[2]>> \in Meant!Keys(l)
      BY <2>1, <2>3, Zenon
    <3> QED
      BY <2>2, <3>1, Zenon
  <2>4. ASSUME NEW h \in DOMAIN joins, Joined(l, f, h)
        PROVE  \E key \in Meant!Keys(l) : key[1] = f
    <3>1. <<f, Side(f, h)>> \in Meant!Keys(l)
      BY <2>2, <2>4, Zenon
    <3> DEFINE key == <<f, Side(f, h)>>
    <3>2. key[1] = f
      OBVIOUS
    <3> QED
      BY <3>1, <3>2, Zenon
  <2> QED
    BY <2>3, <2>4
<1> QED
  BY <1>1, <1>2, EntitiesAre

(* All facts are two at least: a conformed dimension is joined to two. *)
LEMMA ConformedIsLink ==
  ASSUME Typed, Tree(base, joins), Several(base, joins), NEW l \in Meant!Conformed
  PROVE  \E k \in Links : Path[k] = l
<1>1. PICK i, k \in DOMAIN Path : i # k /\ Path[i] \in Fact /\ Path[k] \in Fact
  BY Zenon DEF Several, Path
<1>2. Path[i] # Path[k]
  BY <1>1, Zenon DEF Tree, Path
<1>3. PICK n \in DOMAIN Path : Path[n] = l
  BY ConformedAre
<1>4. /\ l \notin Fact
      /\ \E h \in DOMAIN joins : Joined(l, Path[i], h)
      /\ \E h \in DOMAIN joins : Joined(l, Path[k], h)
  BY <1>1, ConformedAre
<1>5. n \in Links
  BY <1>1, <1>2, <1>3, <1>4, LinkMeetsTwo
<1> QED
  BY <1>3, <1>5

(* No other dimension than the link chosen is conformed. *)
LEMMA OnlyLink ==
  ASSUME Typed, Chosen, Linked, NEW l \in Meant!Conformed
  PROVE  l = link
<1>1. Tree(base, joins) /\ Several(base, joins)
  BY DEF Chosen
<1>2. PICK k \in Links : link = Path[k]
  BY DEF Chosen
<1>3. k \in DOMAIN Path
  BY <1>2 DEF Links
<1>4. PICK f, g \in Fact : /\ f # g /\ link \notin Fact
                           /\ \E h \in DOMAIN joins : Joined(link, f, h)
                           /\ \E h \in DOMAIN joins : Joined(link, g, h)
  BY <1>2, <1>3, LinkMeetsTwo
<1>5. PICK m \in DOMAIN Path : Path[m] = f
  BY <1>1, <1>4, EndsInPath
<1>6. PICK n \in DOMAIN Path : Path[n] = g
  BY <1>1, <1>4, EndsInPath
<1>7. PICK i \in DOMAIN Path : Path[i] = l
  BY ConformedAre
<1>8. /\ l \notin Fact
      /\ \E h \in DOMAIN joins : Joined(l, f, h)
      /\ \E h \in DOMAIN joins : Joined(l, g, h)
  BY <1>4, <1>5, <1>6, ConformedAre
<1> QED
  BY <1>1, <1>2, <1>3, <1>4, <1>7, <1>8, OneLink

Distinct == base \in Fact /\ measure.agg = "count_distinct"

(* inject_ctes refuses exactly a distinct count of a fact. *)
LEMMA DistinctRefused ==
  ASSUME IInv, Inject
  PROVE  \/ Distinct /\ pc' = "failed" /\ error' = "UnsupportedCountDistinctReaggregation"
         \/ ~Distinct /\ pc' = "ctes" /\ UNCHANGED error
<1> DEFINE counted == \E n \in DOMAIN facts :
                        \E m \in DOMAIN facts[n].measures :
                          facts[n].measures[m].agg = "count_distinct"
<1>1. /\ pc = "keys" /\ next > Len(Path)
      /\ IF counted THEN Fail("UnsupportedCountDistinctReaggregation")
                    ELSE pc' = "ctes" /\ UNCHANGED error
  BY DEF Inject
<1>2. facts \in Seq(Taken)
  BY <1>1 DEF IInv, FactsTaken, Linked
<1>3. ASSUME NEW n \in DOMAIN facts
      PROVE  /\ facts[n].entity \in Fact
             /\ facts[n].measures = IF facts[n].entity = base THEN <<measure>> ELSE <<>>
  <2>1. facts[n] \in Taken
    BY <1>2
  <2> QED
    BY <2>1, TakenShape DEF Admitted
<1>4. base \in Fact => \E n \in DOMAIN facts : facts[n].entity = base
  <2>1. 1 \in DOMAIN Path /\ Path[1] = base /\ 1 < next
    BY <1>1, PathShape DEF IInv, Typed
  <2> QED
    BY <1>1, <2>1 DEF IInv, FactsTaken, Linked
<1>5. counted <=> Distinct
  <2>1. ASSUME NEW n \in DOMAIN facts
        PROVE  (\E m \in DOMAIN facts[n].measures : facts[n].measures[m].agg = "count_distinct")
                 <=> facts[n].entity = base /\ measure.agg = "count_distinct"
    <3>1. CASE facts[n].entity = base
      BY <1>3, <3>1
    <3>2. CASE facts[n].entity # base
      BY <1>3, <3>2
    <3> QED
      BY <3>1, <3>2
  <2> QED
    BY <1>3, <1>4, <2>1 DEF Distinct
<1> HIDE DEF counted
<1> QED
  BY <1>1, <1>5 DEF Fail

LEMMA SameInputsLinks ==
  ASSUME UNCHANGED inputs
  PROVE  Links' = Links /\ Path' = Path
<1>1. base' = base /\ joins' = joins
  BY DEF inputs
<1> QED
  BY <1>1 DEF Links, ConnectedFacts, Joined, Path, PathOf

(***************************************************************************)
(* The link chosen stays the link, and past inject_ctes nothing distinct   *)
(* is counted.                                                             *)
(***************************************************************************)
THEOREM LinkKept == Spec => []Chosen
<1>1. Init => Chosen
  <2> SUFFICES ASSUME Init PROVE Chosen
    OBVIOUS
  <2>1. PICK plan \in Plans : base = plan[1] /\ joins = plan[2]
    BY DEF Init
  <2>2. Tree(base, joins) /\ Several(base, joins)
    BY <2>1, PlansAssumption, Zenon
  <2> QED
    BY <2>2 DEF Init, Chosen, Linked
<1>2. Chosen /\ IInv /\ [Next]_vars => Chosen'
  <2> SUFFICES ASSUME Chosen, IInv, [Next]_vars PROVE Chosen'
    OBVIOUS
  <2>1. UNCHANGED inputs
    BY DEF Next, vars, ChooseLink, TakeFact, Inject, AddCte, Rewrite
  <2>2. Links' = Links /\ Path' = Path
    BY <2>1, SameInputsLinks
  <2>3. (Tree(base, joins) /\ Several(base, joins))'
    BY <2>1 DEF Chosen, inputs
  <2>4. Distinct' = Distinct
    BY <2>1 DEF Distinct, inputs
  <2>5. CASE ChooseLink
    <3>1. pc' = "keys" => \E k \in Links : link' = Path[k]
      <4>1. pc' = "keys" => Links # {} /\ link' = Path[CHOOSE k \in Links : \A i \in Links : k <= i]
        BY <2>5 DEF ChooseLink, Fail
      <4>2. Links \subseteq Nat
        BY PathShape DEF Links, IInv
      <4>3. Links # {} => (CHOOSE k \in Links : \A i \in Links : k <= i) \in Links
        BY <4>2, FirstPosition
      <4> QED
        BY <4>1, <4>3
    <3>2. pc' \in {"keys", "failed"}
      BY <2>5 DEF ChooseLink, Fail
    <3> QED
      BY <2>2, <2>3, <3>1, <3>2 DEF Chosen, Linked
  <2>6. CASE TakeFact
    <3>1. pc = "keys" /\ pc' \in {"keys", "failed"} /\ link' = link
      BY <2>6 DEF TakeFact, Fail
    <3> QED
      BY <2>2, <2>3, <3>1 DEF Chosen, Linked
  <2>7. CASE Inject
    <3>1. pc = "keys" /\ link' = link
      BY <2>7 DEF Inject
    <3>2. pc' \in {"ctes", "failed"} /\ (pc' = "ctes" => ~Distinct)
      BY <2>7, DistinctRefused
    <3> QED
      BY <2>2, <2>3, <2>4, <3>1, <3>2 DEF Chosen, Linked, Distinct
  <2>8. CASE AddCte \/ Rewrite
    <3>1. pc = "ctes" /\ pc' \in {"ctes", "rewritten"} /\ link' = link
      BY <2>8 DEF AddCte, Rewrite
    <3> QED
      BY <2>2, <2>3, <2>4, <3>1 DEF Chosen, Linked, Distinct
  <2>9. CASE UNCHANGED vars
    <3>1. pc' = pc /\ link' = link
      BY <2>9 DEF vars
    <3> QED
      BY <2>2, <2>3, <2>4, <3>1 DEF Chosen, Linked, Distinct
  <2> QED
    BY <2>5, <2>6, <2>7, <2>8, <2>9 DEF Next
<1> QED
  BY <1>1, <1>2, Invariance, PTL DEF Spec

(* Without a link there is no conformed dimension. *)
LEMMA NoLink ==
  ASSUME Typed, Chosen, Links = {}
  PROVE  Meant!Conformed = {}
BY ConformedIsLink DEF Chosen

(* If a fact has no key there is none either. *)
LEMMA NoKey ==
  ASSUME IInv, Chosen, pc = "keys", NEW k \in DOMAIN Path, Path[k] \in Fact, KeyOf(Path[k]) = None
  PROVE  Meant!Conformed = {}
<1> SUFFICES ASSUME NEW l \in Meant!Conformed PROVE FALSE
  OBVIOUS
<1>1. Typed /\ Tree(base, joins) /\ Linked /\ link \notin Fact
  BY DEF IInv, Chosen, Linked, FactsTaken
<1>2. l = link
  BY <1>1, OnlyLink
<1>3. PICK h \in DOMAIN joins : Joined(link, Path[k], h)
  BY <1>1, <1>2, ConformedAre
<1> QED
  BY <1>1, <1>3, KeyIsSide

(* A dimension too fine for the link is too fine for every conformed dimension. *)
LEMMA TooFine ==
  ASSUME IInv, Chosen, pc = "keys", NEW f \in Fact, Finer(f), NEW l \in Meant!Conformed
  PROVE  ~Meant!Grained(l)
<1>1. Typed /\ Tree(base, joins) /\ Linked /\ link \notin Fact
  BY DEF IInv, Chosen, Linked, FactsTaken
<1>2. l = link
  BY <1>1, OnlyLink
<1>3. PICK d \in dims : d[1] = f /\ d[2] # KeyOf(f)
  BY DEF Finer
<1>4. d = <<f, d[2]>>
  BY <1>1, <1>3, EntityAssumption DEF Typed
<1>5. d \notin Meant!Keys(link)
  <2> SUFFICES ASSUME d \in Meant!Keys(link) PROVE FALSE
    OBVIOUS
  <2>1. <<f, d[2]>> \in Meant!Keys(link)
    BY <1>4
  <2>2. PICK h \in DOMAIN joins : Joined(link, f, h) /\ d[2] = Side(f, h)
    BY <1>1, <2>1, KeysAre
  <2> QED
    BY <1>1, <1>3, <2>2, KeyIsSide
<1> QED
  BY <1>2, <1>3, <1>5 DEF Meant!Grained

(* What a request that is not refused has been found to have. *)
LEMMA LinkConforms ==
  ASSUME IInv, Chosen, pc = "ctes"
  PROVE  /\ link \in Meant!Conformed /\ Meant!Grained(link)
         /\ {<<facts[n].entity, facts[n].key>> : n \in DOMAIN facts} = Meant!Keys(link)
<1> DEFINE taken == {<<facts[n].entity, facts[n].key>> : n \in DOMAIN facts}
<1>1. Typed /\ Tree(base, joins) /\ Linked /\ link \notin Fact /\ facts \in Seq(Taken)
  BY DEF IInv, Chosen, Linked, FactsTaken
<1>2. ASSUME NEW n \in DOMAIN facts
      PROVE  facts[n].entity \in Admitted /\ facts[n].key = KeyOf(facts[n].entity)
  <2>1. facts[n] \in Taken
    BY <1>1
  <2> QED
    BY <2>1, TakenShape
<1>3. \A k \in DOMAIN Path : Path[k] \in Fact => \E n \in DOMAIN facts : facts[n].entity = Path[k]
  BY DEF IInv, FactsTaken, Linked
<1>4. ASSUME NEW f \in Admitted
      PROVE  f \in Fact /\ \E h \in DOMAIN joins : Joined(link, f, h) /\ KeyOf(f) = Side(f, h)
  <2>1. f \in Fact /\ KeyOf(f) # None
    BY DEF Admitted
  <2> QED
    BY <1>1, <2>1, KeyOfHop DEF Side
<1>5. link \in Meant!Conformed
  <2>1. \E k \in DOMAIN Path : Path[k] = link
    BY <1>1 DEF Chosen, Links
  <2>2. \A k \in DOMAIN Path :
          Path[k] \in Fact => \E h \in DOMAIN joins : Joined(link, Path[k], h)
    BY <1>2, <1>3, <1>4
  <2> QED
    BY <1>1, <2>1, <2>2, ConformedAre
<1>6. ASSUME NEW f, NEW c
      PROVE  <<f, c>> \in Meant!Keys(link) <=> f \in Admitted /\ c = KeyOf(f)
  <2>1. <<f, c>> \in Meant!Keys(link)
          <=> f \in Fact /\ \E h \in DOMAIN joins : Joined(link, f, h) /\ c = Side(f, h)
    BY <1>1, KeysAre
  <2>2. ASSUME f \in Admitted, c = KeyOf(f) PROVE <<f, c>> \in Meant!Keys(link)
    BY <1>4, <2>1, <2>2
  <2>3. ASSUME f \in Fact, NEW h \in DOMAIN joins, Joined(link, f, h), c = Side(f, h)
        PROVE  f \in Admitted /\ c = KeyOf(f)
    <3>1. PICK k \in DOMAIN Path : Path[k] = f
      BY <1>1, <2>3, EndsInPath
    <3>2. f \in Admitted
      BY <1>2, <1>3, <2>3, <3>1
    <3> QED
      BY <1>1, <2>3, <3>2, KeyIsSide
  <2> QED
    BY <2>1, <2>2, <2>3
<1>7. Meant!Grained(link)
  <2> SUFFICES ASSUME NEW d \in dims, d[1] \in Fact PROVE d \in Meant!Keys(link)
    BY DEF Meant!Grained
  <2>1. PICK k \in DOMAIN Path : Path[k] = d[1]
    BY <1>1 DEF Typed, Needed, Path
  <2>2. d[1] \in Admitted
    BY <1>2, <1>3, <2>1
  <2>3. d[2] = KeyOf(d[1])
    BY <2>2 DEF Admitted, Finer
  <2>4. d = <<d[1], d[2]>>
    BY <1>1, EntityAssumption DEF Typed
  <2>5. <<d[1], d[2]>> \in Meant!Keys(link)
    BY <1>6, <2>2, <2>3
  <2> QED
    BY <2>4, <2>5
<1>8. taken = Meant!Keys(link)
  <2>1. ASSUME NEW key \in taken PROVE key \in Meant!Keys(link)
    <3>1. PICK n \in DOMAIN facts : key = <<facts[n].entity, facts[n].key>>
      OBVIOUS
    <3> QED
      BY <1>2, <1>6, <3>1
  <2>2. ASSUME NEW key \in Meant!Keys(link) PROVE key \in taken
    <3>1. key = <<key[1], key[2]>>
      BY <1>1, KeysAre
    <3>2. key[1] \in Admitted /\ key[2] = KeyOf(key[1])
      <4>1. <<key[1], key[2]>> \in Meant!Keys(link)
        BY <3>1
      <4> QED
        BY <1>6, <4>1
    <3>3. PICK n \in DOMAIN facts : facts[n].entity = key[1]
      BY <1>3, <3>2 DEF Admitted, InPath
    <3>4. key = <<facts[n].entity, facts[n].key>>
      BY <1>2, <3>1, <3>2, <3>3
    <3> QED
      BY <3>4
  <2> QED
    BY <2>1, <2>2
<1> QED
  BY <1>5, <1>7, <1>8

(* The state of ConformedFacts, as ChasmTrap has it. *)
Hops    == {joins[k] : k \in DOMAIN joins}
Keys    == IF pc = "rewritten" THEN {<<facts[n].entity, facts[n].key>> : n \in DOMAIN facts} ELSE {}
Outcome == CASE pc = "failed" -> error
             [] pc = "rewritten" -> "rewritten"
             [] OTHER -> "open"
Abstract == <<base, Hops, dims, Distinct, Keys, Outcome>>

LEMMA OutcomeIs ==
  ASSUME Typed
  PROVE  /\ pc \in {"linking", "keys", "ctes"} => Outcome = "open" /\ Keys = {}
         /\ pc = "failed" => Outcome = error /\ Keys = {}
         /\ pc = "rewritten" => Outcome = "rewritten"
BY DEF Outcome, Keys, Typed

(***************************************************************************)
(* Whatever the schema, the plan and the request: facts are pre-aggregated *)
(* exactly if some dimension conforms, however the link is searched for.   *)
(***************************************************************************)
THEOREM Refinement == Spec => ImplementsConformedFacts
<1> DEFINE Same == UNCHANGED Abstract
<1>1. Init => Meant!Init
  <2> SUFFICES ASSUME Init PROVE Meant!Init
    OBVIOUS
  <2>1. Typed /\ pc = "linking"
    BY InitIInv DEF IInv, Init
  <2>2. Keys = {} /\ Outcome = "open"
    BY <2>1, OutcomeIs
  <2>3. Hops \in SUBSET Meant!Hop
    <3>1. Meant!Hop = Hop
      BY DEF Meant!Hop, Hop
    <3>2. \A k \in DOMAIN joins : joins[k] \in Hop
      BY <2>1, ElementOfSeq, PathShape DEF Typed
    <3> QED
      BY <3>1, <3>2 DEF Hops
  <2>4. base \in Entity /\ dims \in SUBSET Dimension /\ Distinct \in BOOLEAN
    BY <2>1 DEF Typed, Distinct
  <2> QED
    BY <2>2, <2>3, <2>4, Zenon DEF Meant!Init, Keys, Outcome, Hops, Distinct
<1>2. IInv /\ IInv' /\ Chosen /\ [Next]_vars => Meant!Next \/ Same
  <2> SUFFICES ASSUME IInv, IInv', Chosen, [Next]_vars PROVE Meant!Next \/ Same
    OBVIOUS
  <2>1. UNCHANGED inputs
    BY DEF Next, vars, ChooseLink, TakeFact, Inject, AddCte, Rewrite
  <2>2. base' = base /\ Hops' = Hops /\ dims' = dims /\ Distinct' = Distinct
    BY <2>1 DEF inputs, Hops, Distinct
  <2>3. Typed /\ Typed'
    BY DEF IInv
  <2>4. /\ pc' \in {"linking", "keys", "ctes"} => Outcome' = "open" /\ Keys' = {}
        /\ pc' = "failed" => Outcome' = error' /\ Keys' = {}
        /\ pc' = "rewritten" => Outcome' = "rewritten"
    BY <2>3 DEF Outcome, Keys, Typed
  <2>5. pc \in {"linking", "keys", "ctes"} => Outcome = "open" /\ Keys = {}
    BY <2>3, OutcomeIs
  <2>6. ASSUME pc \in {"linking", "keys", "ctes"}, pc' = "failed",
               \/ Meant!Conformed = {} /\ error' = "LinkDimensionNotFound"
               \/ (\A l \in Meant!Conformed : ~Meant!Grained(l)) /\ error' = "FinerThanConformedGrain"
               \/ Distinct /\ error' = "UnsupportedCountDistinctReaggregation"
        PROVE  Meant!Refuse
    <3>1. Outcome = "open" /\ Outcome' = error' /\ Keys' = Keys
      BY <2>4, <2>5, <2>6
    <3> QED
      BY <2>2, <2>6, <3>1, Zenon DEF Meant!Refuse, Meant!request, Keys, Outcome, Hops, Distinct
  <2>7. ASSUME pc \in {"linking", "keys", "ctes"}, pc' \in {"linking", "keys", "ctes"}
        PROVE  Same
    BY <2>2, <2>4, <2>5, <2>7 DEF Abstract
  <2>8. CASE ChooseLink
    <3>1. pc = "linking" /\ (pc' = "keys" \/ (Links = {} /\ Fail("LinkDimensionNotFound")))
      BY <2>8 DEF ChooseLink
    <3>2. CASE pc' = "keys"
      BY <2>7, <3>1, <3>2
    <3>3. CASE Links = {} /\ Fail("LinkDimensionNotFound")
      <4>1. Meant!Conformed = {} /\ pc' = "failed" /\ error' = "LinkDimensionNotFound"
        BY <2>3, <3>3, NoLink DEF Fail
      <4> QED
        BY <2>6, <3>1, <4>1 DEF Meant!Next
    <3> QED
      BY <3>1, <3>2, <3>3
  <2>9. CASE TakeFact
    <3> DEFINE e == Path[next]
    <3>1. pc = "keys" /\ next \in DOMAIN Path
      <4>1. pc = "keys" /\ next <= Len(Path)
        BY <2>9 DEF TakeFact
      <4> QED
        BY <2>3, <4>1, PathShape DEF Typed
    <3>2. \/ pc' = pc
          \/ e \in Fact /\ KeyOf(e) = None /\ Fail("LinkDimensionNotFound")
          \/ e \in Fact /\ Finer(e) /\ Fail("FinerThanConformedGrain")
      BY <2>9, Zenon DEF TakeFact
    <3>3. CASE pc' = pc
      BY <2>7, <3>1, <3>3
    <3>4. CASE e \in Fact /\ KeyOf(e) = None /\ Fail("LinkDimensionNotFound")
      <4>1. Meant!Conformed = {} /\ pc' = "failed" /\ error' = "LinkDimensionNotFound"
        BY <3>1, <3>4, NoKey DEF Fail
      <4> QED
        BY <2>6, <3>1, <4>1 DEF Meant!Next
    <3>5. CASE e \in Fact /\ Finer(e) /\ Fail("FinerThanConformedGrain")
      <4>1. /\ \A l \in Meant!Conformed : ~Meant!Grained(l)
            /\ pc' = "failed" /\ error' = "FinerThanConformedGrain"
        BY <3>1, <3>5, TooFine DEF Fail
      <4> QED
        BY <2>6, <3>1, <4>1 DEF Meant!Next
    <3> QED
      BY <3>2, <3>3, <3>4, <3>5
  <2>10. CASE Inject
    <3>1. pc = "keys"
      BY <2>10 DEF Inject
    <3>2. \/ Distinct /\ pc' = "failed" /\ error' = "UnsupportedCountDistinctReaggregation"
          \/ pc' = "ctes"
      BY <2>10, DistinctRefused
    <3> QED
      BY <2>6, <2>7, <3>1, <3>2 DEF Meant!Next
  <2>11. CASE AddCte
    <3>1. pc = "ctes" /\ pc' = "ctes"
      BY <2>11 DEF AddCte
    <3> QED
      BY <2>7, <3>1
  <2>12. CASE Rewrite
    <3>1. pc = "ctes" /\ pc' = "rewritten" /\ facts' = facts
      BY <2>12 DEF Rewrite
    <3>2. ~Distinct
      BY <3>1 DEF Chosen, Distinct
    <3>3. link \in Meant!Conformed /\ Meant!Grained(link) /\ Keys' = Meant!Keys(link)
      BY <3>1, LinkConforms DEF Keys
    <3>4. Outcome = "open" /\ Outcome' = "rewritten"
      BY <2>4, <2>5, <3>1
    <3>5. Meant!Rewrite
      BY <2>2, <3>2, <3>3, <3>4, Zenon DEF Meant!Rewrite, Meant!request, Keys, Outcome, Hops, Distinct
    <3> QED
      BY <3>5 DEF Meant!Next
  <2>13. CASE UNCHANGED vars
    BY <2>13 DEF vars, inputs, Abstract, Hops, Keys, Outcome, Distinct
  <2> QED
    BY <2>8, <2>9, <2>10, <2>11, <2>12, <2>13 DEF Next
<1>3. Same => UNCHANGED <<Meant!request, Keys, Outcome>>
  BY Zenon DEF Abstract, Meant!request, Hops, Distinct
<1>4. Same => UNCHANGED <<Meant!request,
                          IF pc = "rewritten"
                          THEN {<<facts[n].entity, facts[n].key>> : n \in DOMAIN facts} ELSE {},
                          CASE pc = "failed" -> error
                            [] pc = "rewritten" -> "rewritten"
                            [] OTHER -> "open">>
  BY <1>3, Zenon DEF Keys, Outcome
<1> QED
  BY <1>1, <1>2, <1>4, Invariance, LinkKept, PTL DEF Spec, ImplementsConformedFacts, Meant!Spec
================================================================================
