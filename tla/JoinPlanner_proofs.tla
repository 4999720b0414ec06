--------------------------- MODULE JoinPlanner_proofs ---------------------------
(***************************************************************************)
(* Proofs about JoinPlanner, for every set of entities, every declaration  *)
(* of joins and requests of any length: the merged list of joins joins     *)
(* each entity once and in an order SQL accepts.                           *)
(***************************************************************************)
EXTENDS JoinPlanner, SequenceTheorems, FiniteSetTheorems, WellFoundedInduction, TLAPS

(***************************************************************************)
(* The strengthening: the current path and the list of joins both lie on   *)
(* the one search tree, and the walk starts from a relation that is        *)
(* already in the FROM clause.                                             *)
(***************************************************************************)
PathOnTree ==
  \A k \in 2..Len(path) : path[k] # base /\ pred[path[k]] = path[k - 1]

PathStart ==
  /\ pc = "tracing" => path[1] # base
  /\ pc = "walking" => path[1] = base \/ \E i \in DOMAIN joins : joins[i].right = path[1]

JoinsOnTree ==
  \A k \in DOMAIN joins : joins[k].right # base /\ pred[joins[k].right] = joins[k].left

IInv ==
  /\ TypeOK
  /\ PathOnTree
  /\ PathStart
  /\ JoinsOnTree
  /\ JoinedOnce
  /\ LeftIntroduced

--------------------------------------------------------------------------------
(* An edge of the join graph is a hop between entities. *)
LEMMA EdgesAreHops ==
  ASSUME NEW ds, ds \subseteq Declared
  PROVE  Edges(ds) \subseteq Hop
BY DeclaredAssumption DEF Edges, Reverse, Hop

(* The predecessors a search gives are entities. *)
LEMMA SearchTreeTyped ==
  ASSUME NEW ds, NEW b, NEW p \in SearchTrees(ds, b)
  PROVE  p \in [Entity -> Entity \cup {None}]
<1> DEFINE d      == Dist(ds, b)
           nearer == [e \in Entity |-> IF e \in DOMAIN d \ {b} THEN Nearer(ds, d, e)
                                                               ELSE {None}]
<1>1. \A e \in Entity : nearer[e] \subseteq Entity \cup {None}
  BY DEF Nearer
<1>2. p \in [Entity -> UNION {nearer[e] : e \in Entity}]
  BY DEF SearchTrees
<1>3. \A e \in Entity : p[e] \in nearer[e]
  BY DEF SearchTrees
<1> HIDE DEF nearer
<1> QED
  BY <1>1, <1>2, <1>3

LEMMA InitIInv == Init => IInv
<1> SUFFICES ASSUME Init PROVE IInv
  OBVIOUS
<1> USE DEF Init
<1>1. pred \in [Entity -> Entity \cup {None}]
  BY SearchTreeTyped
<1>2. TypeOK
  BY <1>1 DEF TypeOK
<1>3. PathOnTree /\ PathStart
  BY DEF PathOnTree, PathStart
<1>4. JoinsOnTree /\ JoinedOnce /\ LeftIntroduced
  BY DEF JoinsOnTree, JoinedOnce, LeftIntroduced
<1> QED
  BY <1>2, <1>3, <1>4 DEF IInv

--------------------------------------------------------------------------------
(* A new dimension puts a single node, not the base, on the path. *)
LEMMA TakeDimensionIInv == IInv /\ TakeDimension => IInv'
<1> SUFFICES ASSUME IInv, TakeDimension PROVE IInv'
  OBVIOUS
<1> USE DEF IInv
<1>1. PICK e \in Entity :
        /\ seen' = seen \cup {e}
        /\ IF e = base THEN UNCHANGED <<path, pc>> ELSE path' = <<e>> /\ pc' = "tracing"
  BY DEF TakeDimension
<1>2. UNCHANGED <<inputs, joins, verdict, from>>
  BY DEF TakeDimension
<1>3. pc = "choosing"
  BY DEF TakeDimension
<1>4. CASE e = base
  BY <1>1, <1>2, <1>3, <1>4
     DEF TypeOK, PathOnTree, PathStart, JoinsOnTree, JoinedOnce, LeftIntroduced, inputs
<1>5. CASE e # base
  <2>1. path' \in Seq(Entity) /\ Len(path') = 1 /\ path'[1] = e
    <3>1. path' = <<e>>
      BY <1>1, <1>5
    <3> QED
      BY <3>1
  <2>2. pc' = "tracing"
    BY <1>1, <1>5
  <2>3. TypeOK'
    BY <1>1, <1>2, <2>1, <2>2 DEF TypeOK, inputs
  <2>4. PathOnTree' /\ PathStart'
    BY <1>2, <1>5, <2>1, <2>2 DEF PathOnTree, PathStart, inputs
  <2>5. JoinsOnTree' /\ JoinedOnce' /\ LeftIntroduced'
    BY <1>2 DEF JoinsOnTree, JoinedOnce, LeftIntroduced, inputs
  <2> QED
    BY <2>3, <2>4, <2>5
<1> QED
  BY <1>4, <1>5

(* Tracing back puts the predecessor of the first node before it. *)
LEMMA TraceBackIInv == IInv /\ TraceBack => IInv'
<1> SUFFICES ASSUME IInv, TraceBack PROVE IInv'
  OBVIOUS
<1> USE DEF IInv
<1> DEFINE p == pred[path[1]]
<1>1. path \in Seq(Entity) /\ Len(path) > 0 /\ Head(path) = path[1] /\ path[1] \in Entity
  <2>1. path \in Seq(Entity) /\ Len(path) > 0
    BY DEF TraceBack, TypeOK
  <2> QED
    BY <2>1, ElementOfSeq
<1>2. p \in Entity
  BY <1>1 DEF TraceBack, TypeOK
<1>3. path' = <<p>> \o path
  BY <1>1 DEF TraceBack
<1>4. pc = "tracing" /\ pc' = IF p = base THEN "walking" ELSE "tracing"
  BY <1>1 DEF TraceBack
<1>5. UNCHANGED <<declared, base, pred, seen, joins, verdict, from>>
  BY DEF TraceBack, inputs
<1>6. /\ path' \in Seq(Entity)
      /\ Len(path') = Len(path) + 1
      /\ path'[1] = p
      /\ \A k \in 2..Len(path') : path'[k] = path[k - 1]
  <2>1. <<p>> \in Seq(Entity) /\ Len(<<p>>) = 1
    BY <1>2
  <2> QED
    BY <1>1, <1>2, <1>3, <2>1, ConcatProperties
<1>7. TypeOK'
  BY <1>1, <1>4, <1>5, <1>6 DEF TypeOK
<1>8. PathOnTree'
  <2> SUFFICES ASSUME NEW k \in 2..Len(path')
               PROVE  path'[k] # base /\ pred[path'[k]] = path'[k - 1]
    BY <1>5 DEF PathOnTree
  <2>1. CASE k = 2
    <3>1. path'[2] = path[1] /\ path'[1] = p
      BY <1>6, <2>1
    <3>2. path[1] # base
      BY <1>4 DEF PathStart
    <3> QED
      BY <2>1, <3>1, <3>2
  <2>2. CASE k > 2
    <3>1. k - 1 \in 2..Len(path) /\ k \in Int
      BY <1>1, <1>6, <2>2, LenProperties
    <3>2. path'[k] = path[k - 1] /\ path'[k - 1] = path[(k - 1) - 1]
      BY <1>1, <1>6, <2>2, <3>1
    <3> QED
      BY <3>1, <3>2 DEF PathOnTree
  <2> QED
    BY <2>1, <2>2
<1>9. PathStart'
  BY <1>4, <1>5, <1>6 DEF PathStart
<1>10. JoinsOnTree' /\ JoinedOnce' /\ LeftIntroduced'
  BY <1>5 DEF JoinsOnTree, JoinedOnce, LeftIntroduced
<1> QED
  BY <1>7, <1>8, <1>9, <1>10

--------------------------------------------------------------------------------
(***************************************************************************)
(* A hop of the path is already in the list, or it joins an entity no join *)
(* of the list joins: that entity has one predecessor in the tree.         *)
(***************************************************************************)
LEMMA AddHopIInv == IInv /\ AddHop => IInv'
<1> SUFFICES ASSUME IInv, AddHop PROVE IInv'
  OBVIOUS
<1> USE DEF IInv
<1>1. PICK j \in Edges(declared) :
        /\ j.left = path[1]
        /\ j.right = path[2]
        /\ joins' = IF HasJoin(path[1], path[2]) THEN joins ELSE Append(joins, j)
  BY DEF AddHop
<1>2. pc = "walking" /\ path' = Tail(path)
  BY DEF AddHop
<1>3. UNCHANGED <<declared, base, pred, seen, verdict, from>>
  BY DEF AddHop, inputs
<1>4. pc' = IF Len(path) = 2 THEN "choosing" ELSE "walking"
  BY DEF AddHop
<1>5. path \in Seq(Entity) /\ Len(path) > 1 /\ Len(path) \in Nat
  BY <1>2, LenProperties DEF TypeOK
<1>6. /\ path' \in Seq(Entity)
      /\ Len(path') = Len(path) - 1
      /\ \A k \in 1..Len(path') : path'[k] = path[k + 1]
  BY <1>2, <1>5, HeadTailProperties
<1>7. j \in Hop
  BY EdgesAreHops DEF TypeOK
<1>8. j.right # base /\ pred[j.right] = j.left
  BY <1>1, <1>5 DEF PathOnTree
<1>9. joins \in Seq(Hop) /\ Len(joins) \in Nat /\ DOMAIN joins = 1..Len(joins)
  BY LenProperties DEF TypeOK
<1>10. PathOnTree'
  BY <1>3, <1>5, <1>6 DEF PathOnTree
<1>11. path'[1] = j.right
  BY <1>1, <1>5, <1>6
<1>12. CASE HasJoin(path[1], path[2])
  <2>1. joins' = joins
    BY <1>1, <1>12
  <2>2. \E i \in DOMAIN joins : joins[i].right = path[2]
    BY <1>12 DEF HasJoin
  <2>3. TypeOK'
    BY <1>3, <1>4, <1>5, <1>6, <2>1 DEF TypeOK
  <2>4. PathStart'
    BY <1>1, <1>4, <1>11, <2>1, <2>2 DEF PathStart
  <2>5. JoinsOnTree' /\ JoinedOnce' /\ LeftIntroduced'
    BY <1>3, <2>1 DEF JoinsOnTree, JoinedOnce, LeftIntroduced
  <2> QED
    BY <1>10, <2>3, <2>4, <2>5
<1>13. CASE ~HasJoin(path[1], path[2])
  <2> DEFINE n == Len(joins) + 1
  <2>1. joins' = Append(joins, j)
    BY <1>1, <1>13
  <2>2. /\ joins' \in Seq(Hop)
        /\ Len(joins') = n
        /\ DOMAIN joins' = 1..n
        /\ joins'[n] = j
        /\ \A k \in DOMAIN joins : joins'[k] = joins[k]
    BY <1>7, <1>9, <2>1, AppendProperties, LenProperties
  <2>3. \A k \in DOMAIN joins : joins[k].right # j.right
    <3> SUFFICES ASSUME NEW k \in DOMAIN joins, joins[k].right = j.right
                 PROVE  FALSE
      OBVIOUS
    <3>1. joins[k].left = j.left
      BY <1>8 DEF JoinsOnTree
    <3> QED
      BY <1>1, <1>13, <3>1 DEF HasJoin
  <2>4. TypeOK'
    BY <1>3, <1>4, <1>5, <1>6, <2>2 DEF TypeOK
  <2>5. PathStart'
    BY <1>4, <1>9, <1>11, <2>2 DEF PathStart
  <2>6. JoinsOnTree'
    BY <1>3, <1>8, <1>9, <2>2 DEF JoinsOnTree
  <2>7. JoinedOnce'
    BY <1>3, <1>8, <1>9, <2>2, <2>3 DEF JoinedOnce
  <2>8. LeftIntroduced'
    <3> SUFFICES ASSUME NEW k \in DOMAIN joins'
                 PROVE  \/ joins'[k].left = base
                        \/ \E i \in 1..(k - 1) : joins'[i].right = joins'[k].left
      BY <1>3 DEF LeftIntroduced
    <3>1. CASE k = n
      <4>1. j.left = base \/ \E i \in DOMAIN joins : joins[i].right = j.left
        BY <1>1, <1>2 DEF PathStart
      <4> QED
        BY <1>9, <2>2, <3>1, <4>1
    <3>2. CASE k # n
      <4>1. k \in DOMAIN joins
        BY <1>9, <2>2, <3>2
      <4>2. joins'[k] = joins[k] /\ \A i \in 1..(k - 1) : joins'[i] = joins[i]
        BY <1>9, <2>2, <4>1
      <4> QED
        BY <4>1, <4>2 DEF LeftIntroduced
    <3> QED
      BY <3>1, <3>2
  <2> QED
    BY <1>10, <2>4, <2>5, <2>6, <2>7, <2>8
<1> QED
  BY <1>12, <1>13

--------------------------------------------------------------------------------
LEMMA NextIInv == IInv /\ [Next]_vars => IInv'
<1> SUFFICES ASSUME IInv, [Next]_vars PROVE IInv'
  OBVIOUS
<1>1. CASE TakeDimension
  BY <1>1, TakeDimensionIInv
<1>2. CASE TraceBack
  BY <1>2, TraceBackIInv
<1>3. CASE FailUnreachable
  BY <1>3 DEF FailUnreachable, IInv, TypeOK, PathOnTree, PathStart, JoinsOnTree, JoinedOnce,
              LeftIntroduced, inputs
<1>4. CASE AddHop
  BY <1>4, AddHopIInv
<1>5. CASE BuildFrom
  <2>1. verdict' \in Verdict
    BY <1>5 DEF BuildFrom, Classify, Verdict
  <2>2. UNCHANGED <<inputs, seen, path, joins>> /\ pc' = "planned"
    BY <1>5 DEF BuildFrom
  <2> QED
    BY <2>1, <2>2 DEF IInv, TypeOK, PathOnTree, PathStart, JoinsOnTree, JoinedOnce,
                      LeftIntroduced, inputs
<1>6. CASE UNCHANGED vars
  BY <1>6 DEF vars, inputs, IInv, TypeOK, PathOnTree, PathStart, JoinsOnTree, JoinedOnce,
              LeftIntroduced
<1> QED
  BY <1>1, <1>2, <1>3, <1>4, <1>5, <1>6 DEF Next

(* The strengthening is an invariant. *)
THEOREM Invariance == Spec => []IInv
BY InitIInv, NextIInv, PTL DEF Spec

(* Type correctness. *)
THEOREM TypeCorrect == Spec => []TypeOK
<1>1. IInv => TypeOK
  BY DEF IInv
<1> QED
  BY <1>1, Invariance, PTL

(* However the dimensions share hops, no entity is joined twice (semantic_compiler.rs:154-170). *)
THEOREM JoinsUnique == Spec => []JoinedOnce
<1>1. IInv => JoinedOnce
  BY DEF IInv
<1> QED
  BY <1>1, Invariance, PTL

(* The merged list is in an order SQL accepts: left sides come first. *)
THEOREM JoinsOrdered == Spec => []LeftIntroduced
<1>1. IInv => LeftIntroduced
  BY DEF IInv
<1> QED
  BY <1>1, Invariance, PTL

--------------------------------------------------------------------------------
(***************************************************************************)
(* What the finished plan is made of.  The joins are edges of the graph;   *)
(* every dimension treated is joined or at the end of the current path;    *)
(* and whatever is joined is on the way to one, or to what the walk joins  *)
(* next.                                                                   *)
(***************************************************************************)
JoinsDeclared == \A k \in DOMAIN joins : joins[k] \in Edges(declared)

GoalSeen ==
  pc \in {"tracing", "walking"} => path[Len(path)] \in seen \ {base}

SeenReached ==
  \A e \in seen :
    \/ e = base
    \/ \E k \in DOMAIN joins : joins[k].right = e
    \/ pc \in {"tracing", "walking", "unreachable"} /\ e = path[Len(path)]

OnTheWay ==
  \A k \in DOMAIN joins :
    \/ joins[k].right \in seen
    \/ \E i \in DOMAIN joins : joins[i].left = joins[k].right
    \/ pc = "walking" /\ path[1] = joins[k].right

Finished ==
  IF pc = "planned" THEN verdict = Classify(PathEntities) /\ from = FromClause(PathEntities)
                    ELSE from = <<>>

PlanInv == JoinsDeclared /\ GoalSeen /\ SeenReached /\ OnTheWay /\ Finished

LEMMA InitPlan == Init => PlanInv
BY DEF Init, PlanInv, JoinsDeclared, GoalSeen, SeenReached, OnTheWay, Finished

LEMMA TakeDimensionPlan == IInv /\ PlanInv /\ TakeDimension => PlanInv'
<1> SUFFICES ASSUME IInv, PlanInv, TakeDimension PROVE PlanInv'
  OBVIOUS
<1>1. PICK e \in Entity :
        /\ seen' = seen \cup {e}
        /\ IF e = base THEN UNCHANGED <<path, pc>> ELSE path' = <<e>> /\ pc' = "tracing"
  BY DEF TakeDimension
<1>2. UNCHANGED <<declared, base, pred, joins, verdict, from>> /\ pc = "choosing"
  BY DEF TakeDimension, inputs
<1>3. pc' # "planned" /\ pc' # "walking"
  BY <1>1, <1>2
<1>4. JoinsDeclared' /\ OnTheWay' /\ Finished'
  BY <1>1, <1>2, <1>3 DEF PlanInv, JoinsDeclared, OnTheWay, Finished
<1>5. CASE e = base
  BY <1>1, <1>2, <1>4, <1>5 DEF PlanInv, GoalSeen, SeenReached
<1>6. CASE e # base
  <2>1. path' = <<e>> /\ Len(path') = 1 /\ path'[1] = e /\ pc' = "tracing"
    BY <1>1, <1>6
  <2>2. GoalSeen' /\ SeenReached'
    BY <1>1, <1>2, <1>6, <2>1 DEF PlanInv, GoalSeen, SeenReached
  <2> QED
    BY <1>4, <2>2 DEF PlanInv
<1> QED
  BY <1>5, <1>6

LEMMA TraceBackPlan == IInv /\ PlanInv /\ TraceBack => PlanInv'
<1> SUFFICES ASSUME IInv, PlanInv, TraceBack PROVE PlanInv'
  OBVIOUS
<1>1. /\ pc = "tracing" /\ pc' \in {"tracing", "walking"}
      /\ UNCHANGED <<declared, base, pred, seen, joins, verdict, from>>
      /\ path' = <<pred[Head(path)]>> \o path /\ pred[Head(path)] # None
  BY DEF TraceBack, inputs
<1>2. path \in Seq(Entity) /\ Len(path) \in Nat /\ Len(path) > 0 /\ pred[Head(path)] \in Entity
  <2>1. path \in Seq(Entity) /\ Len(path) \in Nat /\ Len(path) > 0 /\ pred \in [Entity -> Entity \cup {None}]
    BY <1>1, LenProperties DEF IInv, TypeOK
  <2>2. Head(path) \in Entity
    BY <2>1, ElementOfSeq
  <2> QED
    BY <1>1, <2>1, <2>2
<1>3. path'[Len(path')] = path[Len(path)]
  <2>1. <<pred[Head(path)]>> \in Seq(Entity) /\ Len(<<pred[Head(path)]>>) = 1
    BY <1>2
  <2>2. Len(path') = Len(path) + 1 /\ path'[Len(path) + 1] = path[(Len(path) + 1) - 1]
    BY <1>1, <1>2, <2>1, ConcatProperties
  <2> QED
    BY <1>2, <2>2
<1> QED
  BY <1>1, <1>3 DEF PlanInv, JoinsDeclared, GoalSeen, SeenReached, OnTheWay, Finished

LEMMA AddHopPlan == IInv /\ PlanInv /\ AddHop => PlanInv'
<1> SUFFICES ASSUME IInv, PlanInv, AddHop PROVE PlanInv'
  OBVIOUS
<1>1. PICK j \in Edges(declared) :
        /\ j.left = path[1]
        /\ j.right = path[2]
        /\ joins' = IF HasJoin(path[1], path[2]) THEN joins ELSE Append(joins, j)
  BY DEF AddHop
<1>2. /\ pc = "walking" /\ path' = Tail(path)
      /\ UNCHANGED <<declared, base, pred, seen, verdict, from>>
      /\ pc' = IF Len(path) = 2 THEN "choosing" ELSE "walking"
  BY DEF AddHop, inputs
<1>3. path \in Seq(Entity) /\ Len(path) > 1 /\ Len(path) \in Nat
  BY <1>2, LenProperties DEF IInv, TypeOK
<1>4. /\ Len(path') = Len(path) - 1
      /\ \A k \in 1..Len(path') : path'[k] = path[k + 1]
  BY <1>2, <1>3, HeadTailProperties
<1>5. path'[1] = path[2] /\ path'[Len(path')] = path[Len(path)]
  BY <1>3, <1>4
<1>6. joins \in Seq(Hop) /\ Len(joins) \in Nat /\ DOMAIN joins = 1..Len(joins) /\ j \in Hop
  BY LenProperties, EdgesAreHops DEF IInv, TypeOK
<1>7. /\ \A k \in DOMAIN joins : k \in DOMAIN joins' /\ joins'[k] = joins[k]
      /\ \A k \in DOMAIN joins' : k \in DOMAIN joins \/ joins'[k] = j
      /\ \E k \in DOMAIN joins' : joins'[k].right = path[2] /\ joins'[k].left = path[1]
  <2>1. CASE HasJoin(path[1], path[2])
    BY <1>1, <2>1 DEF HasJoin
  <2>2. CASE ~HasJoin(path[1], path[2])
    <3>1. joins' = Append(joins, j)
      BY <1>1, <2>2
    <3>2. /\ Len(joins') = Len(joins) + 1 /\ DOMAIN joins' = 1..(Len(joins) + 1)
          /\ joins'[Len(joins) + 1] = j /\ \A k \in DOMAIN joins : joins'[k] = joins[k]
      BY <1>6, <3>1, AppendProperties, LenProperties
    <3> QED
      BY <1>1, <1>6, <3>2
  <2> QED
    BY <2>1, <2>2
<1>8. path[Len(path)] \in seen \ {base}
  BY <1>2 DEF PlanInv, GoalSeen
<1>9. JoinsDeclared'
  BY <1>1, <1>2, <1>7 DEF PlanInv, JoinsDeclared
<1>10. GoalSeen' /\ Finished'
  BY <1>2, <1>5, <1>8 DEF PlanInv, GoalSeen, Finished
<1>11. SeenReached'
  <2> SUFFICES ASSUME NEW e \in seen
               PROVE  \/ e = base
                      \/ \E k \in DOMAIN joins' : joins'[k].right = e
                      \/ pc' = "walking" /\ e = path'[Len(path')]
    BY <1>2 DEF SeenReached
  <2>1. \/ e = base
        \/ \E k \in DOMAIN joins : joins[k].right = e
        \/ e = path[Len(path)]
    BY DEF PlanInv, SeenReached
  <2>2. CASE e = path[Len(path)]
    <3>1. CASE Len(path) = 2
      BY <1>7, <2>2, <3>1
    <3>2. CASE Len(path) # 2
      BY <1>2, <1>5, <2>2, <3>2
    <3> QED
      BY <3>1, <3>2
  <2> QED
    BY <1>7, <2>1, <2>2
<1>12. OnTheWay'
  <2> SUFFICES ASSUME NEW k \in DOMAIN joins'
               PROVE  \/ joins'[k].right \in seen
                      \/ \E i \in DOMAIN joins' : joins'[i].left = joins'[k].right
                      \/ pc' = "walking" /\ path'[1] = joins'[k].right
    BY <1>2 DEF OnTheWay
  <2>1. CASE joins'[k].right = path[2]
    <3>1. CASE Len(path) = 2
      BY <1>8, <2>1, <3>1
    <3>2. CASE Len(path) # 2
      BY <1>2, <1>5, <2>1, <3>2
    <3> QED
      BY <3>1, <3>2
  <2>2. CASE joins'[k].right # path[2]
    <3>1. k \in DOMAIN joins /\ joins'[k] = joins[k]
      BY <1>1, <1>7, <2>2
    <3>2. \/ joins[k].right \in seen
          \/ \E i \in DOMAIN joins : joins[i].left = joins[k].right
          \/ path[1] = joins[k].right
      BY <3>1 DEF PlanInv, OnTheWay
    <3> QED
      BY <1>7, <3>1, <3>2
  <2> QED
    BY <2>1, <2>2
<1> QED
  BY <1>9, <1>10, <1>11, <1>12 DEF PlanInv

LEMMA NextPlan == IInv /\ PlanInv /\ [Next]_vars => PlanInv'
<1> SUFFICES ASSUME IInv, PlanInv, [Next]_vars PROVE PlanInv'
  OBVIOUS
<1>1. CASE TakeDimension
  BY <1>1, TakeDimensionPlan
<1>2. CASE TraceBack
  BY <1>2, TraceBackPlan
<1>3. CASE AddHop
  BY <1>3, AddHopPlan
<1>4. CASE FailUnreachable
  BY <1>4 DEF FailUnreachable, inputs, PlanInv, JoinsDeclared, GoalSeen, SeenReached, OnTheWay,
              Finished
<1>5. CASE BuildFrom
  <2>1. /\ pc = "choosing" /\ pc' = "planned" /\ UNCHANGED <<declared, base, pred, seen, path, joins>>
        /\ verdict' = Classify(PathEntities) /\ from' = FromClause(PathEntities)
    BY <1>5 DEF BuildFrom, inputs
  <2>2. Finished'
    BY <2>1 DEF Finished, PathEntities, FromClause, Relation
  <2> QED
    BY <2>1, <2>2 DEF PlanInv, JoinsDeclared, GoalSeen, SeenReached, OnTheWay
<1>6. CASE UNCHANGED vars
  <2>1. UNCHANGED <<declared, base, pred, seen, path, joins, verdict, from, pc>>
    BY <1>6 DEF vars, inputs
  <2>2. Finished'
    BY <2>1 DEF PlanInv, Finished, PathEntities, FromClause, Relation
  <2> QED
    BY <2>1, <2>2 DEF PlanInv, JoinsDeclared, GoalSeen, SeenReached, OnTheWay
<1> QED
  BY <1>1, <1>2, <1>3, <1>4, <1>5, <1>6 DEF Next

THEOREM PlanInvariance == Spec => [](IInv /\ PlanInv)
<1>1. Init => IInv /\ PlanInv
  BY InitIInv, InitPlan
<1>2. IInv /\ PlanInv /\ [Next]_vars => (IInv /\ PlanInv)'
  BY NextIInv, NextPlan
<1> QED
  BY <1>1, <1>2, PTL DEF Spec

(***************************************************************************)
(* The finished plan reaches every dimension and joins nothing that is not *)
(* on the way to one.                                                      *)
(***************************************************************************)
JoinsExactlyWhatIsNeeded ==
  pc = "planned" =>
    LET joined == {joins[k].right : k \in DOMAIN joins}
        needed == seen \ {base}
    IN  /\ needed \subseteq joined
        /\ joined \subseteq needed \cup {joins[k].left : k \in DOMAIN joins}

THEOREM JoinsNeeded == Spec => []JoinsExactlyWhatIsNeeded
<1>1. IInv /\ PlanInv => JoinsExactlyWhatIsNeeded
  <2> SUFFICES ASSUME IInv, PlanInv, pc = "planned" PROVE
         /\ seen \ {base} \subseteq {joins[k].right : k \in DOMAIN joins}
         /\ {joins[k].right : k \in DOMAIN joins}
              \subseteq (seen \ {base}) \cup {joins[k].left : k \in DOMAIN joins}
    BY DEF JoinsExactlyWhatIsNeeded
  <2>1. \A e \in seen : e = base \/ \E k \in DOMAIN joins : joins[k].right = e
    BY DEF PlanInv, SeenReached
  <2>2. \A k \in DOMAIN joins :
          /\ joins[k].right # base
          /\ joins[k].right \in seen \/ \E i \in DOMAIN joins : joins[i].left = joins[k].right
    BY DEF PlanInv, OnTheWay, IInv, JoinsOnTree
  <2> QED
    BY <2>1, <2>2
<1> QED
  BY <1>1, PlanInvariance, PTL

--------------------------------------------------------------------------------
(***************************************************************************)
(* The relations of a finished plan: entity k of the path is the base or   *)
(* the right side of join k - 1, and no entity comes twice.                *)
(***************************************************************************)
LEMMA PathShape ==
  ASSUME IInv
  PROVE  /\ PathEntities \in Seq(Entity) /\ Len(PathEntities) = Len(joins) + 1
         /\ Len(joins) \in Nat /\ DOMAIN joins = 1..Len(joins)
         /\ DOMAIN PathEntities = 1..(Len(joins) + 1)
         /\ PathEntities[1] = base
         /\ \A k \in DOMAIN joins : PathEntities[k + 1] = joins[k].right
<1>1. joins \in Seq(Hop) /\ Len(joins) \in Nat /\ DOMAIN joins = 1..Len(joins) /\ base \in Entity
  BY LenProperties DEF IInv, TypeOK
<1>2. PICK rights \in Seq(Entity) : /\ rights = [k \in DOMAIN joins |-> joins[k].right]
                                    /\ Len(rights) = Len(joins)
  <2>1. \A k \in DOMAIN joins : joins[k] \in Hop
    BY <1>1, ElementOfSeq
  <2>2. \A k \in 1..Len(joins) : joins[k].right \in Entity
    BY <1>1, <2>1 DEF Hop
  <2>3. /\ [k \in 1..Len(joins) |-> joins[k].right] \in Seq(Entity)
        /\ Len([k \in 1..Len(joins) |-> joins[k].right]) = Len(joins)
    BY <1>1, <2>2
  <2>4. [k \in 1..Len(joins) |-> joins[k].right] = [k \in DOMAIN joins |-> joins[k].right]
    BY <1>1, Zenon
  <2> QED
    BY <2>3, <2>4, Zenon
<1>3. PICK first \in Seq(Entity) : first = <<base>> /\ Len(first) = 1 /\ first[1] = base
  <2>1. <<base>> \in Seq(Entity) /\ Len(<<base>>) = 1 /\ <<base>>[1] = base
    BY <1>1
  <2> QED
    BY <2>1
<1>4. PathEntities = first \o rights
  BY <1>2, <1>3 DEF PathEntities
<1>5. /\ first \o rights \in Seq(Entity) /\ Len(first \o rights) = 1 + Len(rights)
      /\ \A k \in 1..(1 + Len(rights)) : (first \o rights)[k] = IF k <= 1 THEN first[k] ELSE rights[k - 1]
  BY <1>3, ConcatProperties
<1>6. PathEntities[1] = base
  BY <1>1, <1>2, <1>3, <1>4, <1>5
<1>7. ASSUME NEW k \in DOMAIN joins PROVE PathEntities[k + 1] = joins[k].right
  <2>1. k + 1 \in 1..(1 + Len(rights)) /\ ~(k + 1 <= 1) /\ (k + 1) - 1 = k
    BY <1>1, <1>2
  <2>2. (first \o rights)[k + 1] = rights[(k + 1) - 1]
    BY <1>5, <2>1
  <2> QED
    BY <1>2, <1>4, <2>1, <2>2
<1>8. PathEntities \in Seq(Entity) /\ Len(PathEntities) = Len(joins) + 1
  BY <1>1, <1>2, <1>4, <1>5
<1>9. DOMAIN PathEntities = 1..(Len(joins) + 1)
  BY <1>8, LenProperties
<1> QED
  BY <1>1, <1>6, <1>7, <1>8, <1>9

LEMMA PathOnce ==
  ASSUME IInv, NEW i \in DOMAIN PathEntities, NEW k \in DOMAIN PathEntities,
         PathEntities[i] = PathEntities[k]
  PROVE  i = k
<1>1. /\ Len(joins) \in Nat /\ DOMAIN joins = 1..Len(joins)
      /\ DOMAIN PathEntities = 1..(Len(joins) + 1) /\ PathEntities[1] = base
      /\ \A n \in DOMAIN joins : PathEntities[n + 1] = joins[n].right
  BY PathShape
<1>2. \A n \in DOMAIN PathEntities : n = 1 \/ (n - 1 \in DOMAIN joins /\ PathEntities[n] = joins[n - 1].right)
  <2> SUFFICES ASSUME NEW n \in DOMAIN PathEntities, n # 1
               PROVE  n - 1 \in DOMAIN joins /\ PathEntities[n] = joins[n - 1].right
    OBVIOUS
  <2>1. n - 1 \in DOMAIN joins /\ (n - 1) + 1 = n
    BY <1>1
  <2> QED
    BY <1>1, <2>1
<1>3. JoinedOnce
  BY DEF IInv
<1>4. i \in Int /\ k \in Int
  BY <1>1
<1>5. CASE i = 1 \/ k = 1
  BY <1>1, <1>2, <1>3, <1>5 DEF JoinedOnce
<1>6. CASE i # 1 /\ k # 1
  <2>1. i - 1 = k - 1
    BY <1>2, <1>3, <1>6 DEF JoinedOnce
  <2> QED
    BY <1>4, <2>1
<1> QED
  BY <1>5, <1>6

(* The verdict counts the facts of the plan, each once. *)
THEOREM VerdictRight == Spec => []VerdictCountsFacts
<1>1. IInv /\ PlanInv => VerdictCountsFacts
  <2> DEFINE facts == Fact \cap ({base} \cup {joins[k].right : k \in DOMAIN joins})
             met   == {k \in DOMAIN PathEntities : PathEntities[k] \in Fact}
  <2> SUFFICES ASSUME IInv, PlanInv, pc = "planned"
               PROVE  /\ verdict = "PureDimension" <=> facts = {}
                      /\ verdict = "SingleFact" <=> \E f \in facts : facts = {f}
    BY DEF VerdictCountsFacts
  <2>1. IsFiniteSet(met)
    <3>1. met \subseteq 1..(Len(joins) + 1) /\ 1 \in Int /\ Len(joins) + 1 \in Int
      BY PathShape
    <3> QED
      BY <3>1, FS_Interval, FS_Subset
  <2>2. \A f : f \in facts <=> \E k \in met : PathEntities[k] = f
    <3>1. ASSUME NEW f \in facts PROVE \E k \in met : PathEntities[k] = f
      <4>1. CASE f = base
        BY <3>1, <4>1, PathShape
      <4>2. CASE f # base
        <5>1. PICK k \in DOMAIN joins : joins[k].right = f
          BY <3>1, <4>2
        <5>2. k + 1 \in DOMAIN PathEntities /\ PathEntities[k + 1] = f
          BY <5>1, PathShape
        <5> QED
          BY <3>1, <5>2
      <4> QED
        BY <4>1, <4>2
    <3>2. ASSUME NEW k \in met PROVE PathEntities[k] \in facts
      <4>1. CASE k = 1
        BY <3>2, <4>1, PathShape
      <4>2. CASE k # 1
        <5>1. k - 1 \in DOMAIN joins /\ (k - 1) + 1 = k
          BY <3>2, <4>2, PathShape
        <5>2. PathEntities[k] = joins[k - 1].right
          BY <5>1, PathShape
        <5> QED
          BY <3>2, <5>1, <5>2
      <4> QED
        BY <4>1, <4>2
    <3> QED
      BY <3>1, <3>2
  <2>3. \A i, k \in met : PathEntities[i] = PathEntities[k] => i = k
    BY PathOnce
  <2>4. Cardinality(met) = 0 <=> facts = {}
    <3>1. Cardinality(met) = 0 <=> met = {}
      BY <2>1, FS_EmptySet
    <3>2. met = {} <=> facts = {}
      <4> HIDE DEF met, facts
      <4> QED
        BY <2>2
    <3> QED
      BY <3>1, <3>2
  <2>5. Cardinality(met) = 1 <=> \E f \in facts : facts = {f}
    <3>1. Cardinality(met) = 1 <=> \E k : met = {k}
      BY <2>1, FS_Singleton
    <3>2. (\E k : met = {k}) <=> \E f \in facts : facts = {f}
      <4> HIDE DEF met, facts
      <4>1. ASSUME NEW k, met = {k} PROVE facts = {PathEntities[k]}
        BY <2>2, <4>1
      <4>2. ASSUME NEW f \in facts, facts = {f} PROVE \E k : met = {k}
        <5>1. PICK k \in met : PathEntities[k] = f
          BY <2>2, <4>2
        <5>2. \A i \in met : i = k
          BY <2>2, <2>3, <4>2, <5>1
        <5>3. met = {k}
          BY <5>1, <5>2
        <5> QED
          BY <5>3
      <4> QED
        BY <4>1, <4>2
    <3> QED
      BY <3>1, <3>2
  <2>6. verdict = CASE Cardinality(met) = 0 -> "PureDimension"
                    [] Cardinality(met) = 1 -> "SingleFact"
                    [] OTHER -> "MultiFactJoin"
    BY DEF PlanInv, Finished, Classify
  <2>7. verdict = "PureDimension" <=> Cardinality(met) = 0
    <3> HIDE DEF met
    <3> QED
      BY <2>6
  <2>8. verdict = "SingleFact" <=> Cardinality(met) = 1
    <3> HIDE DEF met
    <3> QED
      BY <2>6
  <2> HIDE DEF met, facts
  <2> QED
    BY <2>4, <2>5, <2>7, <2>8
<1> QED
  BY <1>1, PlanInvariance, PTL

--------------------------------------------------------------------------------
(* An entity of the path goes by the alias given to it where it comes. *)
LEMMA AliasFound ==
  ASSUME IInv, NEW k \in DOMAIN PathEntities
  PROVE  AliasOf(PathEntities, PathEntities[k]) = AliasAt(PathEntities, k)
<1> DEFINE uses == {i \in DOMAIN PathEntities : PathEntities[i] = PathEntities[k]}
<1>1. uses = {k}
  BY PathOnce
<1>2. k <= k
  BY PathShape
<1> HIDE DEF uses
<1>3. (CHOOSE n \in uses : \A i \in uses : i <= n) = k
  BY <1>1, <1>2
<1>4. uses # {}
  BY <1>1
<1>5. AliasOf(PathEntities, PathEntities[k])
        = IF uses = {} THEN TableOf[PathEntities[k]]
          ELSE AliasAt(PathEntities, CHOOSE n \in uses : \A i \in uses : i <= n)
  BY DEF AliasOf, uses
<1> QED
  BY <1>3, <1>4, <1>5

(* The relations of the FROM clause, one by one. *)
LEMMA FromShape ==
  ASSUME IInv, from = FromClause(PathEntities)
  PROVE  /\ DOMAIN from = 1..(Len(joins) + 1) /\ Len(from) = Len(joins) + 1
         /\ \A k \in DOMAIN from : from[k].entity = PathEntities[k]
                                   /\ from[k].alias = AliasAt(PathEntities, k)
         /\ \A k \in DOMAIN joins :
              /\ from[k + 1].lalias = AliasOf(PathEntities, joins[k].left)
              /\ from[k + 1].lcol = joins[k].lcol
              /\ from[k + 1].rcol = joins[k].rcol
<1> DEFINE first == [entity |-> base, alias |-> AliasAt(PathEntities, 1),
                     lalias |-> None, lcol |-> None, rcol |-> None]
           other(k) == Relation(PathEntities, joins[k])
           S     == {first} \cup {other(k) : k \in DOMAIN joins}
<1>1. /\ Len(joins) \in Nat /\ DOMAIN joins = 1..Len(joins)
      /\ DOMAIN PathEntities = 1..(Len(joins) + 1) /\ PathEntities[1] = base
      /\ \A n \in DOMAIN joins : PathEntities[n + 1] = joins[n].right
  BY PathShape
<1>2. from = <<first>> \o [k \in DOMAIN joins |-> other(k)]
  BY DEF FromClause
<1>3. \A k \in DOMAIN joins : /\ other(k).entity = joins[k].right
                              /\ other(k).alias = AliasOf(PathEntities, joins[k].right)
                              /\ other(k).lalias = AliasOf(PathEntities, joins[k].left)
                              /\ other(k).lcol = joins[k].lcol
                              /\ other(k).rcol = joins[k].rcol
  BY DEF Relation
<1>4. first.entity = base /\ first.alias = AliasAt(PathEntities, 1) /\ first \in S
  OBVIOUS
<1>5. \A k \in DOMAIN joins : other(k) \in S
  OBVIOUS
<1> HIDE DEF first, other, S
<1>6. /\ [k \in 1..Len(joins) |-> other(k)] \in Seq(S)
      /\ Len([k \in 1..Len(joins) |-> other(k)]) = Len(joins)
      /\ \A k \in 1..Len(joins) : [i \in 1..Len(joins) |-> other(i)][k] = other(k)
  BY <1>1, <1>5
<1>7. [k \in 1..Len(joins) |-> other(k)] = [k \in DOMAIN joins |-> other(k)]
  BY <1>1, Zenon
<1>8. PICK a \in Seq(S), b \in Seq(S) :
        /\ from = a \o b /\ Len(a) = 1 /\ a[1] = first
        /\ Len(b) = Len(joins) /\ \A k \in 1..Len(joins) : b[k] = other(k)
  <2>1. <<first>> \in Seq(S) /\ Len(<<first>>) = 1 /\ <<first>>[1] = first
    BY <1>4
  <2>2. from = <<first>> \o [k \in 1..Len(joins) |-> other(k)]
    BY <1>2, <1>7, Zenon
  <2> QED
    BY <1>6, <2>1, <2>2
<1>9. /\ from \in Seq(S) /\ Len(from) = 1 + Len(joins)
      /\ \A k \in 1..(1 + Len(joins)) : from[k] = IF k <= 1 THEN a[k] ELSE b[k - 1]
  <2>1. /\ a \o b \in Seq(S) /\ Len(a \o b) = Len(a) + Len(b)
        /\ \A k \in 1..(Len(a) + Len(b)) :
             (a \o b)[k] = IF k <= Len(a) THEN a[k] ELSE b[k - Len(a)]
    BY ConcatProperties, Zenon
  <2>2. from = a \o b /\ Len(a) = 1 /\ Len(b) = Len(joins)
    BY <1>8
  <2>3. /\ from \in Seq(S) /\ Len(from) = Len(a) + Len(b)
        /\ \A k \in 1..(Len(a) + Len(b)) : from[k] = IF k <= Len(a) THEN a[k] ELSE b[k - Len(a)]
    BY <2>1, <2>2, Zenon
  <2> QED
    BY <2>2, <2>3
<1>10. DOMAIN from = 1..(Len(joins) + 1) /\ Len(from) = Len(joins) + 1
  BY <1>1, <1>9, LenProperties
<1>11. from[1] = first
  BY <1>1, <1>8, <1>9
<1>12. \A k \in DOMAIN joins : from[k + 1] = other(k)
  <2> SUFFICES ASSUME NEW k \in DOMAIN joins PROVE from[k + 1] = other(k)
    OBVIOUS
  <2>1. k + 1 \in 1..(1 + Len(joins)) /\ ~(k + 1 <= 1) /\ (k + 1) - 1 = k
    BY <1>1
  <2> QED
    BY <1>1, <1>8, <1>9, <2>1
<1>13. ASSUME NEW k \in DOMAIN from
       PROVE  from[k].entity = PathEntities[k] /\ from[k].alias = AliasAt(PathEntities, k)
  <2>1. CASE k = 1
    BY <1>1, <1>4, <1>11, <2>1
  <2>2. CASE k # 1
    <3>1. k - 1 \in DOMAIN joins /\ (k - 1) + 1 = k /\ k \in DOMAIN PathEntities
      BY <1>1, <1>10, <2>2
    <3>2. from[k] = other(k - 1) /\ PathEntities[k] = joins[k - 1].right
      BY <1>1, <1>12, <3>1
    <3> QED
      BY <1>3, <3>1, <3>2, AliasFound
  <2> QED
    BY <2>1, <2>2
<1> QED
  BY <1>3, <1>10, <1>12, <1>13

(***************************************************************************)
(* In whichever direction a join is walked, its ON condition compares the  *)
(* declared columns, each of the relation of the entity that owns it.      *)
(***************************************************************************)
THEOREM ColumnsDeclared == Spec => []OnComparesDeclaredColumns
<1>1. IInv /\ PlanInv => OnComparesDeclaredColumns
  <2> SUFFICES ASSUME IInv, PlanInv, NEW k \in 2..Len(from)
               PROVE  \E i \in 1..(k - 1) : \E j \in declared :
                        /\ from[k].lalias = from[i].alias
                        /\ {<<from[i].entity, from[k].lcol>>, <<from[k].entity, from[k].rcol>>}
                             = {<<j.left, j.lcol>>, <<j.right, j.rcol>>}
    BY DEF OnComparesDeclaredColumns
  <2>1. from = FromClause(PathEntities)
    <3>1. CASE from = <<>>
      BY <3>1
    <3> QED
      BY <3>1 DEF PlanInv, Finished
  <2>2. /\ Len(joins) \in Nat /\ DOMAIN joins = 1..Len(joins)
        /\ DOMAIN PathEntities = 1..(Len(joins) + 1) /\ PathEntities[1] = base
        /\ \A n \in DOMAIN joins : PathEntities[n + 1] = joins[n].right
    BY PathShape
  <2>3. /\ DOMAIN from = 1..(Len(joins) + 1) /\ Len(from) = Len(joins) + 1
        /\ \A n \in DOMAIN from : from[n].entity = PathEntities[n]
                                  /\ from[n].alias = AliasAt(PathEntities, n)
        /\ \A n \in DOMAIN joins :
             /\ from[n + 1].lalias = AliasOf(PathEntities, joins[n].left)
             /\ from[n + 1].lcol = joins[n].lcol
             /\ from[n + 1].rcol = joins[n].rcol
    BY <2>1, FromShape
  <2>4. k - 1 \in DOMAIN joins /\ (k - 1) + 1 = k /\ k \in DOMAIN from
    BY <2>2, <2>3
  <2>5. PICK i \in 1..(k - 1) : PathEntities[i] = joins[k - 1].left
    <3>1. \/ joins[k - 1].left = base
          \/ \E n \in 1..((k - 1) - 1) : joins[n].right = joins[k - 1].left
      BY <2>4 DEF IInv, LeftIntroduced
    <3>2. CASE joins[k - 1].left = base
      BY <2>2, <2>4, <3>2
    <3>3. CASE \E n \in 1..((k - 1) - 1) : joins[n].right = joins[k - 1].left
      <4>1. PICK n \in 1..((k - 1) - 1) : joins[n].right = joins[k - 1].left
        BY <3>3
      <4>2. n \in DOMAIN joins /\ n + 1 \in 1..(k - 1)
        BY <2>2, <2>4, <4>1
      <4> QED
        BY <2>2, <4>1, <4>2
    <3> QED
      BY <3>1, <3>2, <3>3
  <2>6. i \in DOMAIN from /\ i \in DOMAIN PathEntities
    BY <2>2, <2>3, <2>4, <2>5
  <2>7. /\ from[k].lalias = AliasAt(PathEntities, i) /\ from[i].alias = AliasAt(PathEntities, i)
        /\ from[i].entity = joins[k - 1].left /\ from[k].entity = joins[k - 1].right
        /\ from[k].lcol = joins[k - 1].lcol /\ from[k].rcol = joins[k - 1].rcol
    <3>1. AliasOf(PathEntities, PathEntities[i]) = AliasAt(PathEntities, i)
      BY <2>6, AliasFound
    <3> QED
      BY <2>2, <2>3, <2>4, <2>5, <2>6, <3>1
  <2>8. PICK j \in declared : joins[k - 1] = j \/ joins[k - 1] = Reverse(j)
    BY <2>4 DEF PlanInv, JoinsDeclared, Edges
  <2>9. {<<joins[k - 1].left, joins[k - 1].lcol>>, <<joins[k - 1].right, joins[k - 1].rcol>>}
          = {<<j.left, j.lcol>>, <<j.right, j.rcol>>}
    BY <2>8 DEF Reverse
  <2> QED
    BY <2>7, <2>9
<1> QED
  BY <1>1, PlanInvariance, PTL

(***************************************************************************)
(* Relations on one table count the ones before them, so that no two count *)
(* the same, and none more than there are entities.                        *)
(***************************************************************************)
Before(k) == {i \in 1..(k - 1) : TableOf[PathEntities[i]] = TableOf[PathEntities[k]]}

LEMMA BeforeCounted ==
  ASSUME IInv, NEW k \in DOMAIN PathEntities
  PROVE  IsFiniteSet(Before(k)) /\ Cardinality(Before(k)) \in 0..Cardinality(Entity)
<1>1. /\ Len(joins) \in Nat /\ DOMAIN PathEntities = 1..(Len(joins) + 1)
      /\ PathEntities \in Seq(Entity)
  BY PathShape
<1>2. k - 1 \in Int /\ 1..(k - 1) \subseteq DOMAIN PathEntities
  BY <1>1
<1>3. IsFiniteSet(1..(k - 1))
  BY <1>2, FS_Interval
<1>4. IsFiniteSet(Before(k))
  BY <1>3, FS_Subset DEF Before
<1> DEFINE f == [i \in Before(k) |-> PathEntities[i]]
<1>5. f \in Injection(Before(k), Entity)
  <2>1. \A i \in Before(k) : i \in DOMAIN PathEntities /\ PathEntities[i] \in Entity
    BY <1>1, <1>2, ElementOfSeq DEF Before
  <2>2. \A i, n \in Before(k) : f[i] = f[n] => i = n
    BY <2>1, PathOnce
  <2>3. f \in [Before(k) -> Entity]
    BY <2>1
  <2> HIDE DEF f
  <2> QED
    BY <2>2, <2>3 DEF Injection, IsInjective
<1>6. Cardinality(Before(k)) <= Cardinality(Entity)
  <2> HIDE DEF f
  <2> QED
    BY <1>5, FS_Injection, EntityAssumption
<1>7. Cardinality(Before(k)) \in Nat /\ Cardinality(Entity) \in Nat
  BY <1>4, FS_CardinalityType, EntityAssumption
<1> QED
  BY <1>4, <1>6, <1>7

LEMMA BeforeGrows ==
  ASSUME IInv, NEW i \in DOMAIN PathEntities, NEW k \in DOMAIN PathEntities, i < k,
         TableOf[PathEntities[i]] = TableOf[PathEntities[k]]
  PROVE  Cardinality(Before(i)) < Cardinality(Before(k))
<1>1. DOMAIN PathEntities = 1..(Len(joins) + 1) /\ Len(joins) \in Nat
  BY PathShape
<1>2. i \in Int /\ k \in Int /\ i \in 1..(k - 1) /\ i \notin 1..(i - 1) /\ 1..(i - 1) \subseteq 1..(k - 1)
  BY <1>1
<1>3. i \notin Before(i) /\ Before(i) \cup {i} \subseteq Before(k)
  BY <1>2 DEF Before
<1>4. IsFiniteSet(Before(i)) /\ IsFiniteSet(Before(k))
      /\ Cardinality(Before(i)) \in Nat /\ Cardinality(Before(k)) \in Nat
  <2>1. IsFiniteSet(Before(i)) /\ IsFiniteSet(Before(k))
    BY BeforeCounted
  <2> QED
    BY <2>1, FS_CardinalityType
<1>5. Cardinality(Before(i) \cup {i}) = Cardinality(Before(i)) + 1
  BY <1>3, <1>4, FS_AddElement
<1>6. Cardinality(Before(i) \cup {i}) <= Cardinality(Before(k))
  BY <1>3, <1>4, FS_Subset
<1> QED
  BY <1>4, <1>5, <1>6

(***************************************************************************)
(* No two relations of the FROM clause go by one name, if no table is      *)
(* called like a numbered alias.                                           *)
(***************************************************************************)
THEOREM AliasesDiffer == Spec => []AliasesUnique
<1>1. IInv /\ PlanInv => AliasesUnique
  <2> SUFFICES ASSUME IInv, PlanInv, NumberedAreFresh, NEW i \in DOMAIN from, NEW k \in DOMAIN from,
                      from[i].alias = from[k].alias
               PROVE  i = k
    BY DEF AliasesUnique
  <2>1. from = FromClause(PathEntities)
    <3>1. CASE from = <<>>
      BY <3>1
    <3> QED
      BY <3>1 DEF PlanInv, Finished
  <2>2. /\ DOMAIN from = DOMAIN PathEntities /\ DOMAIN PathEntities \subseteq Int
        /\ PathEntities \in Seq(Entity)
        /\ AliasAt(PathEntities, i) = AliasAt(PathEntities, k)
    BY <2>1, FromShape, PathShape
  <2> DEFINE t(n) == TableOf[PathEntities[n]]
             c(n) == Cardinality(Before(n))
  <2>3. \A n \in DOMAIN from :
          /\ t(n) \in Table /\ c(n) \in 0..Cardinality(Entity)
          /\ AliasAt(PathEntities, n) = IF c(n) = 0 THEN t(n) ELSE Numbered[t(n)][c(n)]
    <3> SUFFICES ASSUME NEW n \in DOMAIN from
                 PROVE  /\ t(n) \in Table /\ c(n) \in 0..Cardinality(Entity)
                        /\ AliasAt(PathEntities, n) = IF c(n) = 0 THEN t(n) ELSE Numbered[t(n)][c(n)]
      OBVIOUS
    <3>1. PathEntities[n] \in Entity
      BY <2>2, ElementOfSeq, PathShape
    <3>2. t(n) \in Table
      BY <3>1, EntityAssumption
    <3>3. c(n) \in 0..Cardinality(Entity)
      BY <2>2, BeforeCounted
    <3>4. AliasAt(PathEntities, n) = IF c(n) = 0 THEN t(n) ELSE Numbered[t(n)][c(n)]
      BY DEF AliasAt, Before
    <3> QED
      BY <3>2, <3>3, <3>4
  <2>4. \A n \in DOMAIN from : c(n) # 0 => c(n) \in DOMAIN Numbered[t(n)]
    <3> SUFFICES ASSUME NEW n \in DOMAIN from, c(n) # 0 PROVE c(n) \in DOMAIN Numbered[t(n)]
      OBVIOUS
    <3>1. c(n) \in 0..Cardinality(Entity) /\ t(n) \in Table
      BY <2>3
    <3> HIDE DEF c, t
    <3>2. c(n) \in 1..Cardinality(Entity)
      BY <3>1
    <3> QED
      BY <3>1, <3>2, NumberedAssumption
  <2>5. t(i) = t(k) /\ c(i) = c(k)
    <3> HIDE DEF c, t
    <3>1. CASE c(i) = 0 /\ c(k) = 0
      BY <2>2, <2>3, <3>1
    <3>2. CASE c(i) # 0 /\ c(k) = 0
      BY <2>2, <2>3, <2>4, <3>2 DEF NumberedAreFresh
    <3>3. CASE c(i) = 0 /\ c(k) # 0
      BY <2>2, <2>3, <2>4, <3>3 DEF NumberedAreFresh
    <3>4. CASE c(i) # 0 /\ c(k) # 0
      BY <2>2, <2>3, <2>4, <3>4 DEF NumberedAreFresh
    <3> QED
      BY <3>1, <3>2, <3>3, <3>4
  <2>6. ASSUME i < k PROVE FALSE
    <3>1. c(i) < c(k)
      BY <2>2, <2>5, <2>6, BeforeGrows
    <3>2. c(i) \in Int
      BY <2>3
    <3> HIDE DEF c, t
    <3> QED
      BY <2>5, <3>1, <3>2
  <2>7. ASSUME k < i PROVE FALSE
    <3>1. c(k) < c(i)
      BY <2>2, <2>5, <2>7, BeforeGrows
    <3>2. c(i) \in Int
      BY <2>3
    <3> HIDE DEF c, t
    <3> QED
      BY <2>5, <3>1, <3>2
  <2>8. i \in Int /\ k \in Int
    BY <2>2
  <2> QED
    BY <2>6, <2>7, <2>8
<1> QED
  BY <1>1, PlanInvariance, PTL

--------------------------------------------------------------------------------
(* The search tree stays the one the search of this request made. *)
TreeKept == pred \in SearchTrees(declared, base)

LEMMA TreeInvariance == Spec => []TreeKept
<1>1. Init => TreeKept
  BY DEF Init, TreeKept
<1>2. TreeKept /\ [Next]_vars => TreeKept'
  <2> SUFFICES ASSUME TreeKept, [Next]_vars PROVE TreeKept'
    OBVIOUS
  <2>1. UNCHANGED inputs
    BY DEF Next, vars, TakeDimension, TraceBack, FailUnreachable, AddHop, BuildFrom
  <2> QED
    BY <2>1 DEF TreeKept, inputs
<1> QED
  BY <1>1, <1>2, PTL DEF Spec

(* The predecessor of a node that has one is a hop nearer to the base. *)
LEMMA PredecessorNearer ==
  ASSUME NEW ds, NEW b \in Entity, NEW p \in SearchTrees(ds, b),
         NEW e \in Entity, p[e] # None
  PROVE  p[e] \in Nearer(ds, Dist(ds, b), e)
<1> DEFINE d      == Dist(ds, b)
           nearer == [x \in Entity |-> IF x \in DOMAIN d \ {b} THEN Nearer(ds, d, x)
                                                               ELSE {None}]
<1>1. p[e] \in nearer[e]
  BY DEF SearchTrees
<1> HIDE DEF d
<1>2. p[e] \in IF e \in DOMAIN d \ {b} THEN Nearer(ds, d, e) ELSE {None}
  BY <1>1
<1> QED
  BY <1>2 DEF d

(***************************************************************************)
(* The minimum number of joins survives the merge of the paths, whatever   *)
(* the graph, the request and the way astar breaks ties: every join of the *)
(* finished plan goes one hop farther from the base.                       *)
(***************************************************************************)
THEOREM JoinsShortest == Spec => []ShortestWay
<1>1. IInv /\ TreeKept => ShortestWay
  <2> SUFFICES ASSUME IInv, TreeKept, NEW k \in DOMAIN joins
               PROVE  Dist(declared, base)[joins[k].right] = Dist(declared, base)[joins[k].left] + 1
    BY DEF ShortestWay
  <2>1. joins[k] \in Hop
    BY ElementOfSeq DEF IInv, TypeOK
  <2>2. joins[k].left \in Entity /\ joins[k].right \in Entity /\ base \in Entity
    BY <2>1 DEF Hop, IInv, TypeOK
  <2>3. pred[joins[k].right] = joins[k].left
    BY DEF IInv, JoinsOnTree
  <2>4. pred[joins[k].right] # None
    BY <2>2, <2>3, NoneAssumption
  <2>5. joins[k].left \in Nearer(declared, Dist(declared, base), joins[k].right)
    BY <2>2, <2>3, <2>4, PredecessorNearer DEF TreeKept
  <2> QED
    BY <2>5 DEF Nearer
<1> QED
  BY <1>1, Invariance, TreeInvariance, PTL

--------------------------------------------------------------------------------
(***************************************************************************)
(* What the search trees are made of means what it says: Within is a set   *)
(* of entities reached, Dist a distance.  Within is recursive, and what    *)
(* holds of it at every index is proved by a least counterexample.         *)
(***************************************************************************)
(* A set of numbers has a least one. *)
LEMMA LeastNumber ==
  ASSUME NEW S, S \subseteq Nat, S # {}
  PROVE  \E k \in S : \A i \in S : k <= i
<1>1. PICK k \in S : \A i \in S : ~ (<<i, k>> \in OpToRel(<, Nat))
  BY WFMin, NatLessThanWellFounded, Zenon
<1>2. \A i \in S : ~ (i < k)
  BY <1>1, Zenon DEF OpToRel
<1> QED
  BY <1>2

(* f lists what m steps make of c. *)
Iteration(f, S, c, step, m) ==
  f \in [0..m -> S] /\ f[0] = c /\ \A n \in 1..m : f[n] = step[f[n - 1]]

LEMMA Iterates ==
  ASSUME NEW S, NEW c \in S, NEW step \in [S -> S], NEW last \in Nat
  PROVE  \E f : Iteration(f, S, c, step, last)
<1> DEFINE Bad == {m \in Nat : ~ \E f : Iteration(f, S, c, step, m)}
<1>1. SUFFICES ASSUME Bad # {} PROVE FALSE
  OBVIOUS
<1>2. PICK m \in Bad : \A i \in Bad : m <= i
  BY <1>1, LeastNumber
<1>3. m # 0
  <2>1. Iteration([n \in 0..0 |-> c], S, c, step, 0)
    BY DEF Iteration
  <2> QED
    BY <2>1
<1>4. m - 1 \in Nat /\ m - 1 \notin Bad
  BY <1>2, <1>3
<1>5. PICK f : Iteration(f, S, c, step, m - 1)
  BY <1>4
<1> DEFINE g == [n \in 0..m |-> IF n = m THEN step[f[m - 1]] ELSE f[n]]
<1>6. Iteration(g, S, c, step, m)
  <2>1. m \in Nat /\ f \in [0..(m - 1) -> S] /\ f[0] = c /\ \A n \in 1..(m - 1) : f[n] = step[f[n - 1]]
    BY <1>5 DEF Iteration
  <2>2. f[m - 1] \in S
    BY <1>4, <2>1
  <2>3. g \in [0..m -> S] /\ g[0] = c
    BY <1>3, <2>1, <2>2
  <2>4. ASSUME NEW n \in 1..m PROVE g[n] = step[g[n - 1]]
    <3>1. CASE n = m
      BY <1>3, <2>1, <3>1
    <3>2. CASE n # m
      <4>1. n \in 1..(m - 1) /\ n - 1 \in 0..m /\ n - 1 # m /\ n \in 0..m
        BY <2>1, <3>2
      <4> QED
        BY <2>1, <3>2, <4>1
    <3> QED
      BY <3>1, <3>2
  <2> QED
    BY <2>3, <2>4 DEF Iteration
<1> HIDE DEF g
<1> QED
  BY <1>2, <1>6

(* How far Within goes. *)
Rounds == Cardinality(Entity)

(* A set of entities and all that are one hop away. *)
Grown(ds, s) == s \cup UNION {Adjacent(ds)[a] : a \in s}

LEMMA WithinUnfolds ==
  ASSUME NEW ds, ds \subseteq Declared, NEW b \in Entity
  PROVE  /\ Rounds \in Nat
         /\ Within(ds, b) \in [0..Rounds -> SUBSET Entity]
         /\ Within(ds, b)[0] = {b}
         /\ \A n \in 1..Rounds : Within(ds, b)[n] = Grown(ds, Within(ds, b)[n - 1])
<1>1. Rounds \in Nat
  BY EntityAssumption, FS_CardinalityType DEF Rounds
<1> DEFINE adj == Adjacent(ds)
           Step(f, n) == IF n = 0 THEN {b} ELSE f[n - 1] \cup UNION {adj[a] : a \in f[n - 1]}
           Unfolds(f) == f = [n \in 0..Cardinality(Entity) |-> Step(f, n)]
<1>2. adj \in [Entity -> SUBSET Entity]
  BY EdgesAreHops DEF Adjacent, Hop
<1>3. \A s \in SUBSET Entity : Grown(ds, s) \in SUBSET Entity
  BY <1>2 DEF Grown
<1>4. PICK f \in [0..Rounds -> SUBSET Entity] :
        f[0] = {b} /\ \A n \in 1..Rounds : f[n] = [s \in SUBSET Entity |-> Grown(ds, s)][f[n - 1]]
  <2> DEFINE grow == [s \in SUBSET Entity |-> Grown(ds, s)]
  <2>1. grow \in [SUBSET Entity -> SUBSET Entity]
    BY <1>3
  <2>2. {b} \in SUBSET Entity
    OBVIOUS
  <2>3. PICK f : Iteration(f, SUBSET Entity, {b}, grow, Rounds)
    <3> HIDE DEF grow
    <3> QED
      BY <1>1, <2>1, <2>2, Iterates, Zenon
  <2>4. f \in [0..Rounds -> SUBSET Entity] /\ f[0] = {b} /\ \A n \in 1..Rounds : f[n] = grow[f[n - 1]]
    BY <2>3, Zenon DEF Iteration
  <2> QED
    BY <2>4
<1>5. Unfolds(f)
  <2>1. ASSUME NEW n \in 0..Rounds PROVE f[n] = Step(f, n)
    <3>1. CASE n = 0
      BY <1>4, <3>1
    <3>2. CASE n # 0
      <4>1. n \in 1..Rounds /\ n - 1 \in 0..Rounds
        BY <1>1, <3>2
      <4>2. f[n] = Grown(ds, f[n - 1])
        BY <1>4, <4>1
      <4> QED
        BY <3>2, <4>2 DEF Grown
    <3> QED
      BY <3>1, <3>2
  <2>2. f = [n \in 0..Rounds |-> f[n]]
    OBVIOUS
  <2> QED
    BY <2>1, <2>2 DEF Rounds
<1>6. Within(ds, b) = CHOOSE W : Unfolds(W)
  BY DEF Within
<1>7. Unfolds(Within(ds, b))
  <2> HIDE DEF Unfolds
  <2> QED
    BY <1>5, <1>6
<1> DEFINE W == Within(ds, b)
<1>8. /\ DOMAIN W = 0..Rounds /\ W = [n \in 0..Rounds |-> W[n]]
      /\ W[0] = {b}
      /\ \A n \in 1..Rounds : W[n] = Grown(ds, W[n - 1])
  <2> HIDE DEF W
  <2>1. W = [n \in 0..Rounds |-> Step(W, n)]
    BY <1>7 DEF W, Rounds
  <2>2. \A n \in 0..Rounds : W[n] = Step(W, n)
    <3> HIDE DEF Step
    <3> QED
      BY <2>1, Zenon
  <2>3. W[0] = {b}
    <3>1. 0 \in 0..Rounds
      BY <1>1
    <3>2. W[0] = Step(W, 0)
      <4> HIDE DEF Step
      <4> QED
        BY <2>2, <3>1
    <3> QED
      BY <3>2
  <2>4. ASSUME NEW n \in 1..Rounds PROVE W[n] = Grown(ds, W[n - 1])
    <3>1. n \in 0..Rounds /\ n # 0
      BY <1>1
    <3>2. W[n] = Step(W, n)
      <4> HIDE DEF Step
      <4> QED
        BY <2>2, <3>1
    <3> QED
      BY <3>1, <3>2 DEF Grown
  <2>5. DOMAIN W = 0..Rounds /\ W = [n \in 0..Rounds |-> W[n]]
    <3> HIDE DEF Step
    <3>1. DOMAIN W = 0..Rounds
      BY <2>1, Zenon
    <3>2. [n \in 0..Rounds |-> Step(W, n)] = [n \in 0..Rounds |-> W[n]]
      BY <2>2, Zenon
    <3> QED
      BY <2>1, <3>1, <3>2, Zenon
  <2> QED
    BY <2>3, <2>4, <2>5
<1>9. \A n \in 0..Rounds : W[n] \in SUBSET Entity
  <2> DEFINE Bad == {n \in 0..Rounds : W[n] \notin SUBSET Entity}
  <2> HIDE DEF W
  <2>1. SUFFICES ASSUME Bad # {} PROVE FALSE
    OBVIOUS
  <2>2. PICK m \in Bad : \A i \in Bad : m <= i
    <3>1. Bad \subseteq Nat
      OBVIOUS
    <3> QED
      BY <2>1, <3>1, LeastNumber
  <2>3. m # 0
    BY <1>8
  <2>4. m \in 1..Rounds /\ m - 1 \in 0..Rounds /\ m - 1 \notin Bad
    BY <1>1, <2>2, <2>3
  <2> QED
    BY <1>3, <1>8, <2>2, <2>4
<1> HIDE DEF W
<1>10. W \in [0..Rounds -> SUBSET Entity]
  BY <1>8, <1>9
<1> QED
  BY <1>1, <1>8, <1>10 DEF W

(* Hop by hop the set only grows, and stays among the entities. *)
LEMMA WithinGrows ==
  ASSUME NEW ds, ds \subseteq Declared, NEW b \in Entity,
         NEW i \in 0..Rounds, NEW j \in 0..Rounds, i <= j
  PROVE  Within(ds, b)[i] \subseteq Within(ds, b)[j]
<1> DEFINE W   == Within(ds, b)
           Bad == {n \in 0..Rounds : i <= n /\ ~ (W[i] \subseteq W[n])}
<1>1. Rounds \in Nat /\ \A n \in 1..Rounds : W[n - 1] \subseteq W[n]
  <2>1. Rounds \in Nat /\ \A n \in 1..Rounds : W[n] = Grown(ds, W[n - 1])
    BY WithinUnfolds, Zenon
  <2> HIDE DEF W
  <2> QED
    BY <2>1 DEF Grown
<1> HIDE DEF W
<1>2. SUFFICES ASSUME Bad # {} PROVE FALSE
  BY DEF W
<1>3. PICK m \in Bad : \A n \in Bad : m <= n
  <2>1. Bad \subseteq Nat
    BY <1>1
  <2> QED
    BY <1>2, <2>1, LeastNumber
<1>4. m # i
  BY <1>3
<1>5. m \in 1..Rounds /\ m - 1 \in 0..Rounds /\ i <= m - 1
  BY <1>1, <1>3, <1>4
<1>6. m - 1 \notin Bad
  BY <1>1, <1>3, <1>5
<1> QED
  BY <1>1, <1>3, <1>5, <1>6

(***************************************************************************)
(* After as many rounds as there are entities nothing is left to reach: a  *)
(* round that adds something adds an entity, and one that adds nothing is  *)
(* the last to be needed.                                                  *)
(***************************************************************************)
LEMMA WithinSaturated ==
  ASSUME NEW ds, ds \subseteq Declared, NEW b \in Entity
  PROVE  Grown(ds, Within(ds, b)[Rounds]) = Within(ds, b)[Rounds]
<1> DEFINE W == Within(ds, b)
<1>1. /\ Rounds \in Nat /\ W \in [0..Rounds -> SUBSET Entity] /\ W[0] = {b}
      /\ \A n \in 1..Rounds : W[n] = Grown(ds, W[n - 1]) /\ W[n - 1] \subseteq W[n]
  <2>1. /\ Rounds \in Nat /\ W \in [0..Rounds -> SUBSET Entity] /\ W[0] = {b}
        /\ \A n \in 1..Rounds : W[n] = Grown(ds, W[n - 1])
    BY WithinUnfolds, Zenon
  <2> HIDE DEF W
  <2>2. \A n \in 1..Rounds : W[n - 1] \subseteq W[n]
    BY <2>1 DEF Grown
  <2> QED
    BY <2>1, <2>2
<1> HIDE DEF W
<1>2. \A n \in 0..Rounds : IsFiniteSet(W[n]) /\ Cardinality(W[n]) \in Nat /\ Cardinality(W[n]) <= Rounds
  <2> TAKE n \in 0..Rounds
  <2>1. W[n] \subseteq Entity
    BY <1>1
  <2> QED
    BY <2>1, EntityAssumption, FS_Subset, FS_CardinalityType DEF Rounds
<1>3. PICK m \in 1..Rounds : W[m] = W[m - 1]
  <2> SUFFICES ASSUME \A m \in 1..Rounds : W[m] # W[m - 1] PROVE FALSE
    OBVIOUS
  <2> DEFINE Bad == {n \in 0..Rounds : Cardinality(W[n]) <= n}
  <2>1. Rounds \in Bad
    BY <1>1, <1>2
  <2>2. PICK n \in Bad : \A k \in Bad : n <= k
    <3>1. Bad \subseteq Nat /\ Bad # {}
      BY <1>1, <2>1
    <3> QED
      BY <3>1, LeastNumber
  <2>3. n # 0
    <3>1. Cardinality(W[0]) = 1
      BY <1>1, FS_Singleton
    <3> QED
      BY <2>2, <3>1
  <2>4. n \in 1..Rounds /\ n - 1 \in 0..Rounds /\ n \in 0..Rounds /\ n - 1 \notin Bad
    BY <1>1, <2>2, <2>3
  <2>5. W[n - 1] \subseteq W[n] /\ W[n - 1] # W[n]
    BY <1>1, <2>4
  <2>6. Cardinality(W[n - 1]) < Cardinality(W[n])
    <3>1. Cardinality(W[n - 1]) <= Cardinality(W[n])
      BY <1>2, <2>4, <2>5, FS_Subset
    <3>2. Cardinality(W[n - 1]) # Cardinality(W[n])
      BY <1>2, <2>4, <2>5, FS_Subset
    <3> QED
      BY <1>2, <2>4, <3>1, <3>2
  <2>7. ~ (Cardinality(W[n - 1]) <= n - 1) /\ Cardinality(W[n]) <= n
    BY <2>2, <2>4
  <2> QED
    BY <1>2, <2>4, <2>6, <2>7
<1>4. \A n \in 0..Rounds : m <= n => W[n] = W[m - 1]
  <2> DEFINE Bad == {n \in 0..Rounds : m <= n /\ W[n] # W[m - 1]}
  <2>1. SUFFICES ASSUME Bad # {} PROVE FALSE
    OBVIOUS
  <2>2. PICK n \in Bad : \A k \in Bad : n <= k
    <3>1. Bad \subseteq Nat
      BY <1>1
    <3> QED
      BY <2>1, <3>1, LeastNumber
  <2>3. n # m
    BY <1>3, <2>2
  <2>4. n \in 1..Rounds /\ n - 1 \in 0..Rounds /\ m <= n - 1
    BY <1>1, <2>2, <2>3
  <2>5. n - 1 \notin Bad
    BY <1>1, <2>2, <2>4
  <2>6. W[n - 1] = W[m - 1]
    BY <2>4, <2>5
  <2>7. W[n] = Grown(ds, W[n - 1]) /\ W[m] = Grown(ds, W[m - 1])
    BY <1>1, <2>4
  <2> QED
    BY <1>3, <2>2, <2>6, <2>7
<1>5. W[Rounds] = W[m - 1]
  BY <1>1, <1>4
<1>6. W[m] = Grown(ds, W[m - 1])
  BY <1>1
<1> QED
  BY <1>3, <1>5, <1>6 DEF W

(***************************************************************************)
(* A walk from b to e over the declared joins, in either direction.        *)
(***************************************************************************)
Walk(ds, b, w, e) ==
  /\ w \in Seq(Entity) /\ w # <<>>
  /\ w[1] = b /\ w[Len(w)] = e
  /\ \A k \in 1..(Len(w) - 1) : w[k + 1] \in Adjacent(ds)[w[k]]

(* Whatever is within n hops has a walk of at most n hops. *)
LEMMA WithinWalked ==
  ASSUME NEW ds, ds \subseteq Declared, NEW b \in Entity,
         NEW n \in 0..Rounds, NEW e \in Within(ds, b)[n]
  PROVE  \E w : Walk(ds, b, w, e) /\ Len(w) <= n + 1
<1> DEFINE W         == Within(ds, b)
           Near(x, m) == \E w : Walk(ds, b, w, x) /\ Len(w) <= m + 1
           Bad       == {m \in 0..Rounds : \E x \in W[m] : ~ Near(x, m)}
<1>1. /\ Rounds \in Nat /\ W \in [0..Rounds -> SUBSET Entity] /\ W[0] = {b}
      /\ \A m \in 1..Rounds : W[m] = Grown(ds, W[m - 1])
  BY WithinUnfolds
<1> HIDE DEF W
<1>2. SUFFICES ASSUME Bad # {} PROVE FALSE
  <2> HIDE DEF Near
  <2> QED
    BY <1>1 DEF W, Near
<1>3. PICK m \in Bad : \A k \in Bad : m <= k
  <2> HIDE DEF Near
  <2>1. Bad \subseteq Nat
    BY <1>1
  <2> QED
    BY <1>2, <2>1, LeastNumber
<1>4. PICK x \in W[m] : ~ Near(x, m)
  <2> HIDE DEF Near
  <2> QED
    BY <1>3
<1>5. m # 0
  <2> SUFFICES ASSUME m = 0 PROVE FALSE
    OBVIOUS
  <2>1. x = b
    BY <1>1, <1>4
  <2>2. Walk(ds, b, <<b>>, b) /\ Len(<<b>>) <= 0 + 1
    BY DEF Walk
  <2>3. Near(b, 0)
    BY <2>2
  <2> HIDE DEF Near
  <2> QED
    BY <1>4, <2>1, <2>3
<1>6. m \in 1..Rounds /\ m - 1 \in 0..Rounds /\ m - 1 \notin Bad
  <2> HIDE DEF Near
  <2> QED
    BY <1>1, <1>3, <1>5
<1>7. \A y \in W[m - 1] : Near(y, m - 1)
  <2> HIDE DEF Near
  <2> QED
    BY <1>6
<1>8. W[m] = Grown(ds, W[m - 1]) /\ W[m - 1] \subseteq Entity /\ W[m] \subseteq Entity
  BY <1>1, <1>6
<1>9. CASE x \in W[m - 1]
  <2>1. PICK w : Walk(ds, b, w, x) /\ Len(w) <= (m - 1) + 1
    BY <1>7, <1>9
  <2>2. Len(w) \in Nat
    BY <2>1, LenProperties DEF Walk
  <2> QED
    BY <1>4, <1>6, <2>1, <2>2
<1>10. CASE x \notin W[m - 1]
  <2>1. PICK a \in W[m - 1] : x \in Adjacent(ds)[a]
    BY <1>4, <1>8, <1>10 DEF Grown
  <2>2. PICK w : Walk(ds, b, w, a) /\ Len(w) <= (m - 1) + 1
    BY <1>7, <2>1
  <2>3. w \in Seq(Entity) /\ Len(w) \in Nat /\ Len(w) # 0 /\ x \in Entity
    BY <1>4, <1>8, <2>2, LenProperties, EmptySeq DEF Walk
  <2> DEFINE v == Append(w, x)
  <2>4. /\ v \in Seq(Entity) /\ Len(v) = Len(w) + 1 /\ v[Len(w) + 1] = x
        /\ \A k \in 1..Len(w) : v[k] = w[k]
    BY <2>3, AppendProperties
  <2> HIDE DEF v
  <2>5. v # <<>> /\ v[1] = b /\ v[Len(v)] = x
    BY <2>2, <2>3, <2>4 DEF Walk
  <2>6. ASSUME NEW k \in 1..(Len(v) - 1) PROVE v[k + 1] \in Adjacent(ds)[v[k]]
    <3>1. CASE k = Len(w)
      BY <2>1, <2>2, <2>3, <2>4, <3>1 DEF Walk
    <3>2. CASE k # Len(w)
      <4>1. k \in 1..(Len(w) - 1) /\ k \in 1..Len(w) /\ k + 1 \in 1..Len(w)
        BY <2>3, <2>4, <3>2
      <4> QED
        BY <2>2, <2>4, <4>1 DEF Walk
    <3> QED
      BY <3>1, <3>2
  <2>7. Walk(ds, b, v, x)
    BY <2>4, <2>5, <2>6 DEF Walk
  <2>8. Len(v) <= m + 1
    BY <1>6, <2>2, <2>3, <2>4
  <2> QED
    BY <1>4, <2>7, <2>8
<1> QED
  BY <1>9, <1>10

(* The k-th entity of a walk is within k - 1 hops, and within reach however long the walk. *)
LEMMA WalkWithin ==
  ASSUME NEW ds, ds \subseteq Declared, NEW b \in Entity,
         NEW w, NEW e, Walk(ds, b, w, e), NEW k \in 1..Len(w)
  PROVE  /\ w[k] \in Within(ds, b)[Rounds]
         /\ k - 1 <= Rounds => w[k] \in Within(ds, b)[k - 1]
<1> DEFINE W     == Within(ds, b)
           In(i) == w[i] \in W[Rounds] /\ (i - 1 <= Rounds => w[i] \in W[i - 1])
           Bad   == {i \in 1..Len(w) : ~ In(i)}
<1>1. /\ Rounds \in Nat /\ W \in [0..Rounds -> SUBSET Entity] /\ W[0] = {b}
      /\ \A m \in 1..Rounds : W[m] = Grown(ds, W[m - 1])
      /\ W[Rounds] = Grown(ds, W[Rounds])
  BY WithinUnfolds, WithinSaturated, Zenon
<1>2. W[0] \subseteq W[Rounds]
  <2>1. 0 \in 0..Rounds /\ Rounds \in 0..Rounds /\ 0 <= Rounds
    BY <1>1
  <2> QED
    BY <2>1, WithinGrows, Zenon
<1> HIDE DEF W
<1>3. w \in Seq(Entity) /\ Len(w) \in Nat /\ w[1] = b
  BY LenProperties DEF Walk
<1>4. SUFFICES ASSUME Bad # {} PROVE FALSE
  BY DEF W
<1>5. PICK i \in Bad : \A j \in Bad : i <= j
  <2> HIDE DEF In
  <2>1. Bad \subseteq Nat
    BY <1>3
  <2> QED
    BY <1>4, <2>1, LeastNumber
<1>6. i # 1
  BY <1>1, <1>2, <1>3, <1>5
<1>7. i \in 1..Len(w) /\ i - 1 \in 1..(Len(w) - 1) /\ i - 1 \in 1..Len(w) /\ i - 1 \notin Bad
  <2> HIDE DEF In
  <2> QED
    BY <1>3, <1>5, <1>6
<1>8. In(i - 1)
  <2> HIDE DEF In
  <2> QED
    BY <1>7
<1>9. w[i] \in Adjacent(ds)[w[i - 1]]
  <2>1. w[(i - 1) + 1] \in Adjacent(ds)[w[i - 1]]
    BY <1>7 DEF Walk
  <2>2. (i - 1) + 1 = i
    BY <1>7
  <2> QED
    BY <2>1, <2>2
<1>10. w[i] \in W[Rounds]
  BY <1>1, <1>8, <1>9 DEF Grown
<1>11. ASSUME i - 1 <= Rounds PROVE w[i] \in W[i - 1]
  <2>1. i - 1 \in 1..Rounds /\ (i - 1) - 1 <= Rounds
    BY <1>1, <1>3, <1>7, <1>11
  <2>2. W[i - 1] = Grown(ds, W[(i - 1) - 1]) /\ w[i - 1] \in W[(i - 1) - 1]
    BY <1>1, <1>8, <2>1
  <2> QED
    BY <1>9, <2>2 DEF Grown
<1> QED
  BY <1>5, <1>10, <1>11

(* Dist gives an entity the number of the round that first reaches it. *)
LEMMA DistLeast ==
  ASSUME NEW ds, ds \subseteq Declared, NEW b \in Entity
  PROVE  /\ DOMAIN Dist(ds, b) = Within(ds, b)[Rounds]
         /\ \A e \in DOMAIN Dist(ds, b) :
              /\ Dist(ds, b)[e] \in 0..Rounds
              /\ e \in Within(ds, b)[Dist(ds, b)[e]]
              /\ \A n \in 0..Rounds : e \in Within(ds, b)[n] => Dist(ds, b)[e] <= n
<1> DEFINE W        == Within(ds, b)
           First(e) == {n \in DOMAIN W : e \in W[n] /\ (n = 0 \/ e \notin W[n - 1])}
           d        == Dist(ds, b)
<1>1. Rounds \in Nat /\ DOMAIN W = 0..Rounds
  <2>1. Rounds \in Nat /\ W \in [0..Rounds -> SUBSET Entity]
    BY WithinUnfolds, Zenon
  <2> HIDE DEF W
  <2> QED
    BY <2>1
<1>2. \A i, j \in 0..Rounds : i <= j => W[i] \subseteq W[j]
  BY WithinGrows, Zenon
<1>3. d = [e \in W[Rounds] |-> CHOOSE n \in DOMAIN W : e \in W[n] /\ (n = 0 \/ e \notin W[n - 1])]
  BY DEF Dist, Rounds
<1> HIDE DEF W
<1>4. DOMAIN d = W[Rounds]
  <2> HIDE DEF d
  <2> QED
    BY <1>3
<1>5. ASSUME NEW e \in W[Rounds]
      PROVE  /\ d[e] \in 0..Rounds
             /\ e \in W[d[e]]
             /\ \A n \in 0..Rounds : e \in W[n] => d[e] <= n
  <2>1. d[e] = CHOOSE n \in DOMAIN W : e \in W[n] /\ (n = 0 \/ e \notin W[n - 1])
    <3> HIDE DEF d
    <3> QED
      BY <1>3
  <2> HIDE DEF d
  <2>2. \E n \in DOMAIN W : e \in W[n] /\ (n = 0 \/ e \notin W[n - 1])
    <3> DEFINE S == {n \in 0..Rounds : e \in W[n]}
    <3>1. S \subseteq Nat /\ S # {}
      BY <1>1
    <3>2. PICK n \in S : \A i \in S : n <= i
      BY <3>1, LeastNumber
    <3>3. n = 0 \/ n - 1 \notin S
      BY <1>1, <3>2
    <3>4. n = 0 \/ n - 1 \in 0..Rounds
      BY <1>1, <3>2
    <3> QED
      BY <1>1, <3>2, <3>3, <3>4
  <2>3. d[e] \in DOMAIN W /\ e \in W[d[e]] /\ (d[e] = 0 \/ e \notin W[d[e] - 1])
    BY <2>1, <2>2
  <2>4. ASSUME NEW n \in 0..Rounds, e \in W[n], ~ (d[e] <= n) PROVE FALSE
    <3>1. d[e] # 0 /\ d[e] - 1 \in 0..Rounds /\ n <= d[e] - 1
      BY <1>1, <2>3, <2>4
    <3>2. e \in W[d[e] - 1]
      BY <1>2, <2>4, <3>1
    <3> QED
      BY <2>3, <3>1, <3>2
  <2> QED
    BY <1>1, <2>3, <2>4
<1> QED
  BY <1>4, <1>5 DEF W

(***************************************************************************)
(* Dist is the distance in the join graph: it is defined for the entities  *)
(* that have a walk from the base, of whatever length; one has as many     *)
(* hops as it says; and none has fewer.                                    *)
(***************************************************************************)
THEOREM DistanceShortest ==
  ASSUME NEW ds, ds \subseteq Declared, NEW b \in Entity
  PROVE  /\ \A e : e \in DOMAIN Dist(ds, b) <=> \E w : Walk(ds, b, w, e)
         /\ \A e \in DOMAIN Dist(ds, b) :
              /\ Dist(ds, b)[e] \in Nat
              /\ \E w : Walk(ds, b, w, e) /\ Len(w) = Dist(ds, b)[e] + 1
              /\ \A w : Walk(ds, b, w, e) => Dist(ds, b)[e] + 1 <= Len(w)
<1> DEFINE W == Within(ds, b)
           d == Dist(ds, b)
<1>1. /\ Rounds \in Nat
      /\ DOMAIN d = W[Rounds]
      /\ \A e \in DOMAIN d :
           /\ d[e] \in 0..Rounds
           /\ e \in W[d[e]]
           /\ \A n \in 0..Rounds : e \in W[n] => d[e] <= n
  BY DistLeast, WithinUnfolds, Zenon
<1> HIDE DEF W, d
<1>2. ASSUME NEW e, NEW w, Walk(ds, b, w, e)
      PROVE  e \in DOMAIN d /\ d[e] + 1 <= Len(w) /\ Len(w) \in Nat
  <2>1. Len(w) \in Nat /\ Len(w) \in 1..Len(w) /\ w[Len(w)] = e
    BY <1>2, LenProperties, EmptySeq DEF Walk
  <2>2. e \in W[Rounds] /\ (Len(w) - 1 <= Rounds => e \in W[Len(w) - 1])
    BY <1>2, <2>1, WalkWithin DEF W
  <2>3. e \in DOMAIN d /\ d[e] \in 0..Rounds /\ \A n \in 0..Rounds : e \in W[n] => d[e] <= n
    BY <1>1, <2>2
  <2>4. CASE Len(w) - 1 <= Rounds
    <3>1. Len(w) - 1 \in 0..Rounds
      BY <1>1, <2>1, <2>4
    <3>2. d[e] <= Len(w) - 1
      BY <2>2, <2>3, <2>4, <3>1
    <3> QED
      BY <1>1, <2>1, <2>3, <3>2
  <2>5. CASE ~ (Len(w) - 1 <= Rounds)
    BY <1>1, <2>1, <2>3, <2>5
  <2> QED
    BY <2>4, <2>5
<1>3. ASSUME NEW e \in DOMAIN d
      PROVE  \E w : Walk(ds, b, w, e) /\ Len(w) = d[e] + 1
  <2>1. d[e] \in 0..Rounds /\ e \in W[d[e]]
    BY <1>1
  <2>2. PICK w : Walk(ds, b, w, e) /\ Len(w) <= d[e] + 1
    BY <2>1, WithinWalked DEF W
  <2>3. d[e] + 1 <= Len(w) /\ Len(w) \in Nat
    BY <1>2, <2>2
  <2>4. Len(w) = d[e] + 1
    BY <1>1, <2>1, <2>2, <2>3
  <2> QED
    BY <2>2, <2>4
<1>4. \A e : e \in DOMAIN d <=> \E w : Walk(ds, b, w, e)
  BY <1>2, <1>3
<1>5. \A e \in DOMAIN d : d[e] \in Nat
  BY <1>1
<1> QED
  BY <1>2, <1>3, <1>4, <1>5 DEF d

--------------------------------------------------------------------------------
(* The way of the plan from the base to its k-th join: joins, each joined to the one before. *)
Chain(c, k) ==
  /\ c \in Seq(DOMAIN joins) /\ c # <<>>
  /\ joins[c[1]].left = base /\ c[Len(c)] = k
  /\ \A i \in 1..(Len(c) - 1) : joins[c[i + 1]].left = joins[c[i]].right

(***************************************************************************)
(* "the minimum number of JOINs required to connect the source to the      *)
(* target" (resolver.rs:8-11), said of the finished plan and of every walk *)
(* over declared joins: none reaches the entity of a join with fewer.      *)
(***************************************************************************)
MinimumJoins ==
  pc = "planned" =>
    \A k \in DOMAIN joins : \E c :
      /\ Chain(c, k)
      /\ \A w : Walk(declared, base, w, joins[k].right) => Len(c) <= Len(w) - 1

LEMMA ChainsShortest ==
  ASSUME IInv, TreeKept, NEW k \in DOMAIN joins
  PROVE  \E c : Chain(c, k) /\ joins[k].right \in DOMAIN Dist(declared, base)
                            /\ Len(c) = Dist(declared, base)[joins[k].right]
<1> DEFINE d       == Dist(declared, base)
           Good(n) == \E c : Chain(c, n) /\ joins[n].right \in DOMAIN d /\ Len(c) = d[joins[n].right]
           Bad     == {n \in DOMAIN joins : ~ Good(n)}
<1>1. /\ declared \subseteq Declared /\ base \in Entity
      /\ joins \in Seq(Hop) /\ Len(joins) \in Nat /\ DOMAIN joins = 1..Len(joins)
  BY LenProperties DEF IInv, TypeOK
<1>2. SUFFICES ASSUME Bad # {} PROVE FALSE
  <2> HIDE DEF Good
  <2>1. Good(k)
    BY <1>2
  <2> QED
    BY <2>1 DEF Good
<1>3. PICK n \in Bad : \A i \in Bad : n <= i
  <2> HIDE DEF Good
  <2>1. Bad \subseteq Nat
    BY <1>1
  <2> QED
    BY <1>2, <2>1, LeastNumber
<1>4. n \in DOMAIN joins /\ ~ Good(n)
  <2> HIDE DEF Good
  <2> QED
    BY <1>3
<1> DEFINE left == joins[n].left
           right == joins[n].right
<1>5. left \in Entity /\ right \in Entity /\ right # base /\ pred[right] = left
  <2>1. joins[n] \in Hop
    BY <1>1, <1>4, ElementOfSeq
  <2> QED
    BY <1>4, <2>1 DEF Hop, IInv, JoinsOnTree
<1>6. left \in DOMAIN d /\ right \in Adjacent(declared)[left] /\ d[right] = d[left] + 1
  <2>1. left \in Nearer(declared, d, right)
    BY <1>1, <1>5, NoneAssumption, PredecessorNearer DEF TreeKept
  <2> HIDE DEF d
  <2> QED
    BY <2>1 DEF Nearer
<1>7. right \in DOMAIN d
  <2>1. pred[right] # None
    BY <1>5, NoneAssumption
  <2>2. pred[right] \in [e \in Entity |-> IF e \in DOMAIN d \ {base} THEN Nearer(declared, d, e)
                                                                   ELSE {None}][right]
    BY <1>5 DEF TreeKept, SearchTrees
  <2> HIDE DEF d
  <2> QED
    BY <1>5, <2>1, <2>2
<1> HIDE DEF d
<1>8. CASE left = base
  <2>1. Chain(<<n>>, n)
    BY <1>4, <1>8 DEF Chain
  <2>2. d[base] = 0
    <3>1. Walk(declared, base, <<base>>, base)
      BY <1>1 DEF Walk
    <3>2. base \in DOMAIN d /\ d[base] \in Nat /\ d[base] + 1 <= Len(<<base>>)
      BY <1>1, <3>1, DistanceShortest DEF d
    <3> QED
      BY <3>2
  <2>3. Good(n)
    BY <1>6, <1>7, <1>8, <2>1, <2>2
  <2> QED
    BY <1>4, <2>3
<1>9. CASE left # base
  <2>1. PICK i \in 1..(n - 1) : joins[i].right = left
    BY <1>4, <1>9 DEF IInv, LeftIntroduced
  <2>2. i \in DOMAIN joins /\ i \notin Bad
    <3> HIDE DEF Good
    <3> QED
      BY <1>1, <1>3, <1>4, <2>1
  <2>3. Good(i)
    <3> HIDE DEF Good
    <3> QED
      BY <2>2
  <2>4. PICK c : Chain(c, i) /\ Len(c) = d[left]
    BY <2>1, <2>3
  <2>5. c \in Seq(DOMAIN joins) /\ Len(c) \in Nat /\ Len(c) # 0
    BY <2>4, LenProperties, EmptySeq DEF Chain
  <2> DEFINE v == Append(c, n)
  <2>6. /\ v \in Seq(DOMAIN joins) /\ Len(v) = Len(c) + 1 /\ v[Len(c) + 1] = n
        /\ \A m \in 1..Len(c) : v[m] = c[m]
    BY <1>4, <2>5, AppendProperties
  <2> HIDE DEF v
  <2>7. v # <<>> /\ joins[v[1]].left = base /\ v[Len(v)] = n
    <3>1. 1 \in 1..Len(c) /\ Len(v) # 0
      BY <2>5, <2>6
    <3>2. v[1] = c[1] /\ joins[c[1]].left = base
      BY <2>4, <2>6, <3>1 DEF Chain
    <3>3. v # <<>>
      BY <3>1
    <3> QED
      BY <2>6, <3>2, <3>3
  <2>8. ASSUME NEW m \in 1..(Len(v) - 1) PROVE joins[v[m + 1]].left = joins[v[m]].right
    <3>1. CASE m = Len(c)
      <4>1. v[m] = i /\ v[m + 1] = n
        <5>1. Len(c) \in 1..Len(c) /\ c[Len(c)] = i
          BY <2>4, <2>5 DEF Chain
        <5> QED
          BY <2>6, <3>1, <5>1
      <4> QED
        BY <2>1, <4>1
    <3>2. CASE m # Len(c)
      <4>1. m \in 1..(Len(c) - 1) /\ m \in 1..Len(c) /\ m + 1 \in 1..Len(c)
        BY <2>5, <2>6, <3>2
      <4> QED
        BY <2>4, <2>6, <4>1 DEF Chain
    <3> QED
      BY <3>1, <3>2
  <2>9. Chain(v, n) /\ Len(v) = d[right]
    BY <1>6, <2>4, <2>6, <2>7, <2>8 DEF Chain
  <2>10. Good(n)
    BY <1>7, <2>9
  <2> QED
    BY <1>4, <2>10
<1> QED
  BY <1>8, <1>9

(* The finished plan has the minimum number of joins on the way to each entity. *)
THEOREM PlanMinimal == Spec => []MinimumJoins
<1>1. IInv /\ TreeKept => MinimumJoins
  <2> SUFFICES ASSUME IInv, TreeKept, NEW k \in DOMAIN joins
               PROVE  \E c :
                        /\ Chain(c, k)
                        /\ \A w : Walk(declared, base, w, joins[k].right) => Len(c) <= Len(w) - 1
    BY DEF MinimumJoins
  <2> DEFINE d == Dist(declared, base)
  <2>1. PICK c : Chain(c, k) /\ joins[k].right \in DOMAIN d /\ Len(c) = d[joins[k].right]
    BY ChainsShortest
  <2>2. \A w : Walk(declared, base, w, joins[k].right) => d[joins[k].right] + 1 <= Len(w)
    BY <2>1, DistanceShortest DEF IInv, TypeOK
  <2>3. d[joins[k].right] \in Nat
    BY <2>1, DistanceShortest DEF IInv, TypeOK
  <2>4. \A w : Walk(declared, base, w, joins[k].right) => Len(w) \in Nat
    BY LenProperties DEF Walk
  <2> HIDE DEF d
  <2> QED
    BY <2>1, <2>2, <2>3, <2>4
<1> QED
  BY <1>1, Invariance, TreeInvariance, PTL

(***************************************************************************)
(* UnreachablePath (resolver.rs) is returned only for a dimension that no  *)
(* walk over the declared joins leads to, never half-way along a path.     *)
(***************************************************************************)
UnreachableRight ==
  pc = "unreachable" => \E e \in seen : ~ \E w : Walk(declared, base, w, e)

THEOREM FailsRightly == Spec => []UnreachableRight
<1>1. Init => UnreachableRight
  BY DEF Init, UnreachableRight
<1>2. IInv /\ PlanInv /\ TreeKept /\ UnreachableRight /\ [Next]_vars => UnreachableRight'
  <2> SUFFICES ASSUME IInv, PlanInv, TreeKept, UnreachableRight, [Next]_vars, pc' = "unreachable"
               PROVE  \E e \in seen' : ~ \E w : Walk(declared, base, w, e)'
    BY DEF UnreachableRight
  <2>1. UNCHANGED inputs /\ UNCHANGED seen /\ (pc = "unreachable" \/ FailUnreachable)
    BY DEF Next, vars, inputs, TakeDimension, TraceBack, FailUnreachable, AddHop, BuildFrom
  <2>2. CASE pc = "unreachable"
    BY <2>1, <2>2 DEF UnreachableRight, inputs, Walk
  <2>3. CASE FailUnreachable
    <3> DEFINE d == Dist(declared, base)
    <3>1. pc = "tracing" /\ pred[Head(path)] = None
      BY <2>3 DEF FailUnreachable
    <3>2. path \in Seq(Entity) /\ Len(path) \in Nat /\ Len(path) > 0 /\ Head(path) = path[1]
      BY <3>1, LenProperties DEF IInv, TypeOK
    <3>3. path[1] \in Entity /\ path[1] # base
      BY <3>1, <3>2, ElementOfSeq DEF IInv, PathStart
    <3>4. declared \subseteq Declared /\ base \in Entity
      BY DEF IInv, TypeOK
    <3>5. path[1] \notin DOMAIN d
      <4>1. pred[path[1]] \in
              [e \in Entity |-> IF e \in DOMAIN d \ {base} THEN Nearer(declared, d, e)
                                                         ELSE {None}][path[1]]
        BY <3>3 DEF TreeKept, SearchTrees
      <4>2. None \notin Nearer(declared, d, path[1])
        BY NoneAssumption DEF Nearer
      <4> HIDE DEF d
      <4> QED
        BY <3>1, <3>2, <3>3, <4>1, <4>2
    <3>6. Len(path) = 1
      <4> SUFFICES ASSUME Len(path) # 1 PROVE FALSE
        OBVIOUS
      <4>1. 2 \in 2..Len(path) /\ path[2] \in Entity
        <5> DEFINE m == Len(path)
        <5>1. 2 \in 2..Len(path) /\ 2 \in 1..Len(path)
          <6>1. m \in Nat /\ m > 0 /\ m # 1
            BY <3>2
          <6> HIDE DEF m
          <6>2. 2 \in 2..m /\ 2 \in 1..m
            BY <6>1
          <6> QED
            BY <6>2 DEF m
        <5>2. path[2] \in Entity
          BY <3>2, <5>1, ElementOfSeq, Zenon
        <5> QED
          BY <5>1, <5>2
      <4>2. pred[path[2]] = path[1]
        <5>1. pred[path[2]] = path[2 - 1]
          BY <4>1 DEF IInv, PathOnTree
        <5> QED
          BY <5>1
      <4>3. path[1] \in Nearer(declared, d, path[2])
        BY <3>3, <3>4, <4>1, <4>2, NoneAssumption, PredecessorNearer DEF TreeKept
      <4> HIDE DEF d
      <4> QED
        BY <3>5, <4>3 DEF Nearer
    <3>7. path[1] \in seen
      BY <3>1, <3>6 DEF PlanInv, GoalSeen
    <3>8. ~ \E w : Walk(declared, base, w, path[1])
      BY <3>4, <3>5, DistanceShortest
    <3>9. UNCHANGED <<declared, base, seen>>
      BY <2>1 DEF inputs
    <3> QED
      BY <3>7, <3>8, <3>9 DEF Walk
  <2> QED
    BY <2>1, <2>2, <2>3
<1> QED
  BY <1>1, <1>2, PlanInvariance, TreeInvariance, PTL DEF Spec

--------------------------------------------------------------------------------
(***************************************************************************)
(* From here on: the planner keeps the promise of JoinPlan, in which a     *)
(* shortest way is a smallest set of entities that hang together by links. *)
(* A set that hangs together and holds the base has an entity at every     *)
(* distance up to that of its farthest; the branch of the search tree to   *)
(* an entity has one at each, so that none is smaller.                     *)
(***************************************************************************)
(* Two entities are adjacent in the graph if a link joins them. *)
LEMMA AdjacentLinked ==
  ASSUME NEW x \in Entity, NEW y
  PROVE  y \in Adjacent(declared)[x] <=> \E j \in declared : \/ j.left = x /\ j.right = y
                                                             \/ j.right = x /\ j.left = y
<1>1. Adjacent(declared)[x] = {j.right : j \in {k \in Edges(declared) : k.left = x}}
  BY DEF Adjacent
<1>2. y \in Adjacent(declared)[x] <=> \E k \in Edges(declared) : k.left = x /\ k.right = y
  BY <1>1
<1>3. \A j : Reverse(j).left = j.right /\ Reverse(j).right = j.left
  BY DEF Reverse
<1> QED
  BY <1>2, <1>3 DEF Edges

LEMMA LinkOfAdjacent ==
  ASSUME NEW x \in Entity, NEW y \in Adjacent(declared)[x]
  PROVE  {x, y} \in Links
<1>1. PICK j \in declared : \/ j.left = x /\ j.right = y
                            \/ j.right = x /\ j.left = y
  BY AdjacentLinked
<1>2. {x, y} = {j.left, j.right}
  BY <1>1
<1> QED
  BY <1>2 DEF Links

LEMMA AdjacentOfLink ==
  ASSUME NEW l \in Links, NEW x \in l, NEW y \in l, x # y, x \in Entity
  PROVE  y \in Adjacent(declared)[x]
<1>1. PICK j \in declared : l = {j.left, j.right}
  BY DEF Links
<1> QED
  BY <1>1, AdjacentLinked

(* Each round reaches another entity of a set that hangs together, until it has them all. *)
LEMMA HangingReached ==
  ASSUME IInv, NEW s \in SUBSET Entity, base \in s, Plan!Hangs(Links, s), NEW last \in 0..Rounds
  PROVE  LET W == Within(declared, base)
         IN  s \subseteq W[last] \/ last + 1 <= Cardinality(s \cap W[last])
<1> DEFINE W       == Within(declared, base)
           Good(n) == s \subseteq W[n] \/ n + 1 <= Cardinality(s \cap W[n])
           Bad     == {n \in 0..Rounds : ~ Good(n)}
<1>1. declared \subseteq Declared /\ base \in Entity
  BY DEF IInv, TypeOK
<1>2. /\ Rounds \in Nat /\ W \in [0..Rounds -> SUBSET Entity] /\ W[0] = {base}
      /\ \A n \in 1..Rounds : W[n] = Grown(declared, W[n - 1])
  BY <1>1, WithinUnfolds, Zenon
<1>3. \A t \in SUBSET Entity : IsFiniteSet(t) /\ Cardinality(t) \in Nat
  BY EntityAssumption, FS_Subset, FS_CardinalityType
<1> HIDE DEF W
<1>4. SUFFICES ASSUME Bad # {} PROVE FALSE
  BY DEF W
<1>5. PICK n \in Bad : \A i \in Bad : n <= i
  <2>1. Bad \subseteq Nat
    BY <1>2
  <2> HIDE DEF Bad
  <2> QED
    BY <1>4, <2>1, LeastNumber
<1>6. n # 0
  <2>1. s \cap W[0] = {base}
    BY <1>2
  <2>2. Cardinality({base}) = 1
    BY FS_Singleton
  <2>3. Good(0)
    BY <2>1, <2>2
  <2> QED
    BY <1>5, <2>3
<1>7. n \in 1..Rounds /\ n - 1 \in 0..Rounds /\ n - 1 \notin Bad
  <2>1. n \in 0..Rounds
    BY <1>5
  <2>2. n \in 1..Rounds /\ n - 1 \in 0..Rounds
    BY <1>2, <1>6, <2>1
  <2>3. n - 1 \notin Bad
    <3> HIDE DEF Bad
    <3> QED
      BY <1>2, <1>5, <2>2
  <2> QED
    BY <2>2, <2>3
<1>8. Good(n - 1) /\ ~ Good(n)
  BY <1>5, <1>7
<1>9. W[n - 1] \subseteq W[n] /\ W[n - 1] \in SUBSET Entity /\ W[n] \in SUBSET Entity
  BY <1>2, <1>7 DEF Grown
<1>10. ~ (s \subseteq W[n - 1]) /\ (n - 1) + 1 <= Cardinality(s \cap W[n - 1])
  BY <1>8, <1>9
<1> DEFINE t == s \cap W[n - 1]
<1>11. base \in t
  <2>1. W[0] \subseteq W[n - 1]
    <3>1. 0 \in 0..Rounds /\ n - 1 \in 0..Rounds /\ 0 <= n - 1
      BY <1>2, <1>7
    <3> QED
      BY <1>1, <3>1, WithinGrows, Zenon DEF W
  <2> QED
    BY <1>2, <2>1
<1>12. t \in (SUBSET s) \ {{}, s}
  BY <1>10, <1>11
<1>13. PICK l \in Links : l \subseteq s /\ l \cap t # {} /\ ~(l \subseteq t)
  BY <1>12 DEF Plan!Hangs
<1>14. PICK x \in l \cap t : TRUE
  BY <1>13
<1>15. PICK y \in l : y \notin t
  BY <1>13
<1>16. x \in Entity /\ x \in W[n - 1] /\ y \in s /\ y \notin W[n - 1] /\ x # y
  BY <1>13, <1>14, <1>15
<1>17. y \in W[n]
  <2>1. y \in Adjacent(declared)[x]
    BY <1>14, <1>15, <1>16, AdjacentOfLink
  <2>2. y \in Grown(declared, W[n - 1])
    BY <1>16, <2>1 DEF Grown
  <2>3. W[n] = Grown(declared, W[n - 1])
    BY <1>2, <1>7
  <2> QED
    BY <2>2, <2>3
<1>18. t \cup {y} \subseteq s \cap W[n] /\ y \notin t
  BY <1>9, <1>16, <1>17
<1>19. Cardinality(t \cup {y}) = Cardinality(t) + 1
  <2>1. IsFiniteSet(t)
    BY <1>3
  <2> HIDE DEF t
  <2> QED
    BY <1>18, <2>1, FS_AddElement
<1>20. Cardinality(t \cup {y}) <= Cardinality(s \cap W[n])
  <2>1. IsFiniteSet(s \cap W[n])
    BY <1>3
  <2> QED
    BY <1>18, <2>1, FS_Subset
<1>21. Cardinality(s \cap W[n]) \in Nat /\ Cardinality(t) \in Nat /\ Cardinality(t \cup {y}) \in Nat
  <2>1. s \cap W[n] \in SUBSET Entity /\ t \in SUBSET Entity /\ t \cup {y} \in SUBSET Entity
    BY <1>16
  <2> QED
    BY <1>3, <2>1
<1>22. n + 1 <= Cardinality(s \cap W[n])
  <2>1. n <= Cardinality(t) /\ n \in Nat
    BY <1>2, <1>7, <1>10
  <2> HIDE DEF t
  <2> QED
    BY <1>19, <1>20, <1>21, <2>1
<1> QED
  BY <1>8, <1>22

(* A set that hangs together has more entities than there are hops to any of them. *)
LEMMA HangingSpans ==
  ASSUME IInv, NEW s \in SUBSET Entity, base \in s, Plan!Hangs(Links, s), NEW e \in s
  PROVE  LET d == Dist(declared, base)
         IN  e \in DOMAIN d /\ d[e] + 1 <= Cardinality(s)
<1> DEFINE W == Within(declared, base)
           d == Dist(declared, base)
<1>1. declared \subseteq Declared /\ base \in Entity
  BY DEF IInv, TypeOK
<1>2. /\ Rounds \in Nat /\ DOMAIN d = W[Rounds]
      /\ \A x \in DOMAIN d : /\ d[x] \in 0..Rounds
                             /\ \A n \in 0..Rounds : x \in W[n] => d[x] <= n
  BY <1>1, DistLeast, WithinUnfolds, Zenon
<1>3. \A n \in 0..Rounds : s \subseteq W[n] \/ n + 1 <= Cardinality(s \cap W[n])
  BY HangingReached
<1>4. \A t \in SUBSET s : IsFiniteSet(t) /\ Cardinality(t) \in Nat /\ Cardinality(t) <= Cardinality(s)
  BY EntityAssumption, FS_Subset, FS_CardinalityType
<1>5. Cardinality(s) \in Nat /\ Cardinality(s) <= Rounds
  BY EntityAssumption, FS_Subset, FS_CardinalityType DEF Rounds
<1> HIDE DEF W, d
<1>6. e \in DOMAIN d
  <2> SUFFICES ASSUME e \notin W[Rounds] PROVE FALSE
    BY <1>2
  <2>1. Rounds \in 0..Rounds /\ s \cap W[Rounds] \in SUBSET s
    BY <1>2
  <2>2. Rounds + 1 <= Cardinality(s \cap W[Rounds])
    BY <1>3, <2>1
  <2>3. Cardinality(s \cap W[Rounds]) <= Cardinality(s) /\ Cardinality(s \cap W[Rounds]) \in Nat
    BY <1>4, <2>1
  <2> QED
    BY <1>2, <1>5, <2>2, <2>3
<1>7. d[e] + 1 <= Cardinality(s)
  <2>1. CASE d[e] = 0
    <3>1. Cardinality(s) # 0
      BY <1>4, FS_EmptySet
    <3> QED
      BY <1>5, <2>1, <3>1
  <2>2. CASE d[e] # 0
    <3>1. d[e] \in 0..Rounds /\ d[e] - 1 \in 0..Rounds /\ d[e] \in Nat
      BY <1>2, <1>6, <2>2
    <3>2. e \notin W[d[e] - 1]
      <4>1. ASSUME e \in W[d[e] - 1] PROVE FALSE
        <5>1. d[e] <= d[e] - 1
          BY <1>2, <1>6, <3>1, <4>1
        <5> QED
          BY <3>1, <5>1
      <4> QED
        BY <4>1
    <3> DEFINE t == s \cap W[d[e] - 1]
    <3>3. (d[e] - 1) + 1 <= Cardinality(t)
      BY <1>3, <3>1, <3>2
    <3>4. t \in SUBSET s /\ t \cup {e} \in SUBSET s /\ e \notin t
      BY <3>2
    <3> HIDE DEF t
    <3>5. /\ Cardinality(t \cup {e}) = Cardinality(t) + 1 /\ Cardinality(t) \in Nat
          /\ Cardinality(t \cup {e}) <= Cardinality(s)
      <4>1. IsFiniteSet(t) /\ Cardinality(t) \in Nat /\ Cardinality(t \cup {e}) <= Cardinality(s)
        BY <1>4, <3>4
      <4> QED
        BY <3>4, <4>1, FS_AddElement
    <3> QED
      BY <1>5, <3>1, <3>3, <3>5
  <2> QED
    BY <2>1, <2>2
<1> QED
  BY <1>6, <1>7 DEF d

(* A node has a predecessor if it can be reached, and is a hop farther than it. *)
LEMMA OnePredecessor ==
  ASSUME IInv, TreeKept, NEW e \in Entity
  PROVE  LET d == Dist(declared, base)
         IN  /\ e \in DOMAIN d \ {base} <=> pred[e] # None
             /\ pred[e] # None =>
                  /\ pred[e] \in Entity /\ pred[e] \in DOMAIN d
                  /\ d[e] = d[pred[e]] + 1
                  /\ e \in Adjacent(declared)[pred[e]]
<1> DEFINE d == Dist(declared, base)
<1>1. pred[e] \in [x \in Entity |-> IF x \in DOMAIN d \ {base} THEN Nearer(declared, d, x)
                                                               ELSE {None}][e]
  BY DEF TreeKept, SearchTrees
<1> HIDE DEF d
<1>2. pred[e] \in IF e \in DOMAIN d \ {base} THEN Nearer(declared, d, e) ELSE {None}
  BY <1>1
<1>3. pred[e] \in Nearer(declared, d, e) =>
        /\ pred[e] \in Entity /\ pred[e] \in DOMAIN d
        /\ d[e] = d[pred[e]] + 1
        /\ e \in Adjacent(declared)[pred[e]]
  BY DEF Nearer
<1>4. None \notin Entity
  BY NoneAssumption
<1> QED
  BY <1>2, <1>3, <1>4 DEF d

(* Entities with the predecessors of each of them but the base. *)
Rooted(s) == \A x \in s \ {base} : pred[x] \in s

(* The entities from the base to e on the search tree. *)
Branch(s, e) ==
  LET d == Dist(declared, base)
  IN  /\ s \in SUBSET Entity /\ base \in s /\ e \in s
      /\ s \subseteq DOMAIN d /\ Rooted(s)
      /\ Cardinality(s) = d[e] + 1
      /\ \A x \in s : d[x] <= d[e]
      /\ \A r \in SUBSET Entity : e \in r /\ Rooted(r) => s \subseteq r \cup {base}

LEMMA BranchExists ==
  ASSUME IInv, TreeKept, NEW e \in DOMAIN Dist(declared, base)
  PROVE  \E s : Branch(s, e)
<1> DEFINE d     == Dist(declared, base)
           Bad   == {n \in Nat : \E x \in DOMAIN d : d[x] = n /\ ~ \E s : Branch(s, x)}
<1>1. declared \subseteq Declared /\ base \in Entity
  BY DEF IInv, TypeOK
<1>2. /\ \A x \in DOMAIN d : x \in Entity /\ d[x] \in Nat
      /\ base \in DOMAIN d /\ d[base] = 0
  <2>1. \A x \in DOMAIN d : d[x] \in Nat
    BY <1>1, DistanceShortest
  <2>2. DOMAIN d \subseteq Entity
    <3>1. /\ Rounds \in Nat /\ Within(declared, base) \in [0..Rounds -> SUBSET Entity]
          /\ DOMAIN d = Within(declared, base)[Rounds]
      BY <1>1, WithinUnfolds, DistLeast, Zenon
    <3> QED
      BY <3>1
  <2>3. Walk(declared, base, <<base>>, base)
    BY <1>1 DEF Walk
  <2>4. base \in DOMAIN d /\ d[base] + 1 <= Len(<<base>>)
    BY <1>1, <2>3, DistanceShortest
  <2> HIDE DEF d
  <2> QED
    BY <2>1, <2>2, <2>4
<1>3. SUFFICES ASSUME Bad # {} PROVE FALSE
  <2>1. d[e] \in Nat
    BY <1>2
  <2> QED
    BY <2>1
<1>4. PICK n \in Bad : \A i \in Bad : n <= i
  <2>1. Bad \subseteq Nat
    OBVIOUS
  <2> HIDE DEF Bad
  <2> QED
    BY <1>3, <2>1, LeastNumber
<1>5. PICK x \in DOMAIN d : d[x] = n /\ ~ \E s : Branch(s, x)
  BY <1>4
<1>6. CASE x = base
  <2>1. Cardinality({base}) = 1
    BY FS_Singleton
  <2>2. Branch({base}, base)
    BY <1>1, <1>2, <2>1 DEF Branch, Rooted
  <2> QED
    BY <1>5, <1>6, <2>2
<1>7. CASE x # base
  <2> DEFINE q == pred[x]
  <2>1. q \in Entity /\ q \in DOMAIN d /\ d[x] = d[q] + 1 /\ x \in Entity
    BY <1>2, <1>5, <1>7, OnePredecessor
  <2> HIDE DEF d
  <2>2. d[q] \in Nat /\ d[q] < n /\ d[q] \notin Bad
    <3>1. d[q] \in Nat /\ d[q] < n
      BY <1>2, <1>5, <2>1
    <3>2. d[q] \notin Bad
      <4> HIDE DEF Bad
      <4>1. n \in Nat
        BY <1>2, <1>5
      <4> QED
        BY <1>4, <3>1, <4>1
    <3> QED
      BY <3>1, <3>2
  <2>3. PICK s : Branch(s, q)
    BY <2>1, <2>2
  <2>4. /\ s \in SUBSET Entity /\ base \in s /\ q \in s /\ s \subseteq DOMAIN d /\ Rooted(s)
        /\ Cardinality(s) = d[q] + 1
        /\ \A y \in s : d[y] <= d[q]
        /\ \A r \in SUBSET Entity : q \in r /\ Rooted(r) => s \subseteq r \cup {base}
    BY <2>3 DEF Branch, d
  <2>5. x \notin s
    <3>1. d[x] # d[q] /\ ~ (d[x] <= d[q])
      BY <2>1, <2>2
    <3> QED
      BY <2>4, <3>1
  <2>6. Cardinality(s \cup {x}) = d[x] + 1
    <3>1. IsFiniteSet(s)
      BY <2>4, EntityAssumption, FS_Subset
    <3>2. Cardinality(s \cup {x}) = Cardinality(s) + 1
      BY <2>5, <3>1, FS_AddElement
    <3> QED
      BY <2>1, <2>2, <2>4, <3>2
  <2>7. Rooted(s \cup {x})
    BY <2>4 DEF Rooted
  <2>8. \A y \in s \cup {x} : d[y] <= d[x]
    <3>1. \A y \in s : d[y] \in Nat /\ d[y] <= d[q]
      BY <1>2, <2>4
    <3> QED
      BY <2>1, <2>2, <3>1
  <2>9. ASSUME NEW r \in SUBSET Entity, x \in r, Rooted(r) PROVE s \cup {x} \subseteq r \cup {base}
    <3>1. q \in r
      BY <1>7, <2>9 DEF Rooted
    <3> QED
      BY <2>4, <2>9, <3>1
  <2>10. s \cup {x} \in SUBSET Entity /\ s \cup {x} \subseteq DOMAIN d
    BY <1>5, <2>1, <2>4
  <2>11. Branch(s \cup {x}, x)
    BY <2>4, <2>6, <2>7, <2>8, <2>9, <2>10 DEF Branch, d
  <2> QED
    BY <1>5, <2>11
<1> QED
  BY <1>6, <1>7

(* A branch hangs together: the nearest entity of a part without the base leaves it by its hop. *)
LEMMA BranchHangs ==
  ASSUME IInv, TreeKept, NEW e, NEW s, Branch(s, e)
  PROVE  Plan!Hangs(Links, s)
<1> DEFINE d == Dist(declared, base)
<1>1. declared \subseteq Declared /\ base \in Entity
  BY DEF IInv, TypeOK
<1>2. /\ s \in SUBSET Entity /\ base \in s /\ s \subseteq DOMAIN d /\ Rooted(s)
  BY DEF Branch
<1>3. \A x \in s : d[x] \in Nat
  BY <1>1, <1>2, DistanceShortest
<1>4. \A x \in s \ {base} : /\ pred[x] \in s /\ d[x] = d[pred[x]] + 1
                            /\ {pred[x], x} \in Links
  <2> SUFFICES ASSUME NEW x \in s \ {base}
               PROVE  pred[x] \in s /\ d[x] = d[pred[x]] + 1 /\ {pred[x], x} \in Links
    OBVIOUS
  <2>1. /\ pred[x] \in Entity /\ d[x] = d[pred[x]] + 1 /\ x \in Adjacent(declared)[pred[x]]
    BY <1>2, OnePredecessor
  <2>2. {pred[x], x} \in Links
    BY <2>1, LinkOfAdjacent
  <2>3. pred[x] \in s
    BY <1>2 DEF Rooted
  <2> QED
    BY <2>1, <2>2, <2>3
<1> HIDE DEF d
<1>5. ASSUME NEW t \in SUBSET s, t # {}, base \notin t
      PROVE  \E x \in t : pred[x] \in s \ t /\ {pred[x], x} \in Links
  <2> DEFINE N == {d[x] : x \in t}
  <2>1. N \subseteq Nat /\ N # {}
    BY <1>3, <1>5
  <2> HIDE DEF N
  <2>2. PICK k \in N : \A i \in N : k <= i
    BY <2>1, LeastNumber
  <2>3. PICK x \in t : d[x] = k
    BY <2>2 DEF N
  <2>4. x \in s \ {base}
    BY <1>5
  <2>5. pred[x] \notin t
    <3> SUFFICES ASSUME pred[x] \in t PROVE FALSE
      OBVIOUS
    <3>1. d[pred[x]] \in N
      BY DEF N
    <3>2. d[x] <= d[pred[x]] /\ d[x] = d[pred[x]] + 1 /\ d[pred[x]] \in Nat
      BY <1>3, <1>4, <2>2, <2>3, <2>4, <3>1
    <3> QED
      BY <3>2
  <2> QED
    BY <1>4, <2>4, <2>5
<1>6. ASSUME NEW t \in (SUBSET s) \ {{}, s}
      PROVE  \E l \in Links : l \subseteq s /\ l \cap t # {} /\ ~(l \subseteq t)
  <2>1. CASE base \notin t
    <3>1. PICK x \in t : pred[x] \in s \ t /\ {pred[x], x} \in Links
      BY <1>5, <2>1
    <3>2. {pred[x], x} \subseteq s /\ {pred[x], x} \cap t # {} /\ ~({pred[x], x} \subseteq t)
      BY <3>1
    <3> QED
      BY <3>1, <3>2
  <2>2. CASE base \in t
    <3>1. s \ t \in SUBSET s /\ s \ t # {} /\ base \notin s \ t
      BY <2>2
    <3>2. PICK x \in s \ t : pred[x] \in s \ (s \ t) /\ {pred[x], x} \in Links
      BY <1>5, <3>1
    <3>3. {pred[x], x} \subseteq s /\ {pred[x], x} \cap t # {} /\ ~({pred[x], x} \subseteq t)
      BY <3>2
    <3> QED
      BY <3>2, <3>3
  <2> QED
    BY <2>1, <2>2
<1> QED
  BY <1>6 DEF Plan!Hangs

(* JoinPlan counts as this module does. *)
LEMMA SameCount == \A S : Plan!Cardinality(S) = Cardinality(S)
BY Zenon DEF Plan!Cardinality, Cardinality

(* A branch is a way, and without a branch there is none. *)
LEMMA BranchIsWay ==
  ASSUME IInv, TreeKept, NEW e, NEW s, Branch(s, e)
  PROVE  s \in Plan!Ways(Links, base, e)
<1> DEFINE d == Dist(declared, base)
           w == {t \in SUBSET Entity : base \in t /\ e \in t /\ Plan!Hangs(Links, t)}
<1>1. s \in SUBSET Entity /\ base \in s /\ e \in s /\ Cardinality(s) = d[e] + 1
  BY DEF Branch
<1>2. s \in w
  BY <1>1, BranchHangs
<1>3. \A t \in w : Cardinality(s) <= Cardinality(t)
  <2> SUFFICES ASSUME NEW t \in w PROVE Cardinality(s) <= Cardinality(t)
    OBVIOUS
  <2>1. d[e] + 1 <= Cardinality(t)
    BY HangingSpans
  <2> HIDE DEF d
  <2> QED
    BY <1>1, <2>1
<1>4. Plan!Ways(Links, base, e) = {t \in w : \A u \in w : Plan!Cardinality(t) <= Plan!Cardinality(u)}
  BY DEF Plan!Ways
<1> HIDE DEF w
<1> QED
  BY <1>2, <1>3, <1>4, SameCount

LEMMA NoWayBeyond ==
  ASSUME IInv, NEW e, e \notin DOMAIN Dist(declared, base)
  PROVE  Plan!Ways(Links, base, e) = {}
<1> SUFFICES ASSUME NEW s \in Plan!Ways(Links, base, e) PROVE FALSE
  OBVIOUS
<1>1. s \in SUBSET Entity /\ base \in s /\ e \in s /\ Plan!Hangs(Links, s)
  BY DEF Plan!Ways
<1> QED
  BY <1>1, HangingSpans

(* What a plan joins beside the base. *)
Rights == {joins[k].right : k \in DOMAIN joins}

(* A plan is rooted, and what it joins can be reached. *)
LEMMA RightsRooted ==
  ASSUME IInv, TreeKept
  PROVE  /\ Rights \in SUBSET Entity /\ base \in Entity /\ base \notin Rights
         /\ Rooted({base} \cup Rights)
         /\ Rights \subseteq DOMAIN Dist(declared, base)
<1>1. base \in Entity /\ \A k \in DOMAIN joins : joins[k] \in Hop
  BY ElementOfSeq DEF IInv, TypeOK
<1>2. ASSUME NEW k \in DOMAIN joins
      PROVE  /\ joins[k].right \in Entity /\ joins[k].right # base
             /\ pred[joins[k].right] \in {base} \cup Rights
             /\ joins[k].right \in DOMAIN Dist(declared, base)
  <2>1. /\ joins[k].left \in Entity /\ joins[k].right \in Entity /\ joins[k].right # base
        /\ pred[joins[k].right] = joins[k].left
    BY <1>1 DEF Hop, IInv, JoinsOnTree
  <2>2. joins[k].left = base \/ \E i \in 1..(k - 1) : joins[i].right = joins[k].left
    BY DEF IInv, LeftIntroduced
  <2>3. DOMAIN joins = 1..Len(joins) /\ Len(joins) \in Nat
    BY LenProperties DEF IInv, TypeOK
  <2>4. 1..(k - 1) \subseteq DOMAIN joins
    BY <2>3
  <2>5. joins[k].left \in {base} \cup Rights
    BY <2>2, <2>4 DEF Rights
  <2>6. pred[joins[k].right] # None
    BY <2>1, NoneAssumption
  <2> QED
    BY <2>1, <2>5, <2>6, OnePredecessor
<1> QED
  BY <1>1, <1>2 DEF Rights, Rooted

(***************************************************************************)
(* The merged list joins the branches to the dimensions, and nothing else: *)
(* of the joined entities that are on no branch the farthest would be no   *)
(* dimension, and so on the way to one that is farther.                    *)
(***************************************************************************)
LEMMA RightsAreBranches ==
  ASSUME IInv, PlanInv, TreeKept, pc = "planned",
         NEW way, \A e \in seen \ {base} : Branch(way[e], e)
  PROVE  {base} \cup Rights = {base} \cup UNION {way[e] : e \in seen \ {base}}
<1> DEFINE d == Dist(declared, base)
           U == UNION {way[e] : e \in seen \ {base}}
<1>1. declared \subseteq Declared /\ base \in Entity
  BY DEF IInv, TypeOK
<1>2. /\ Rights \in SUBSET Entity /\ base \notin Rights /\ Rooted({base} \cup Rights)
      /\ Rights \subseteq DOMAIN d
  BY RightsRooted
<1>3. seen \ {base} \subseteq Rights
  BY DEF PlanInv, SeenReached, Rights
<1>4. U \subseteq {base} \cup Rights
  <2> SUFFICES ASSUME NEW e \in seen \ {base} PROVE way[e] \subseteq {base} \cup Rights
    OBVIOUS
  <2>1. \A r \in SUBSET Entity : e \in r /\ Rooted(r) => way[e] \subseteq r \cup {base}
    BY DEF Branch
  <2>2. {base} \cup Rights \in SUBSET Entity /\ e \in {base} \cup Rights
    BY <1>1, <1>2, <1>3
  <2> QED
    BY <1>2, <2>1, <2>2
<1>5. Rights \subseteq U
  <2> DEFINE Lost == Rights \ U
             N    == {Rounds - d[x] : x \in Lost}
  <2>1. SUFFICES ASSUME Lost # {} PROVE FALSE
    OBVIOUS
  <2>2. Rounds \in Nat /\ \A x \in Rights : d[x] \in 0..Rounds
    BY <1>1, <1>2, WithinUnfolds, DistLeast, Zenon
  <2> HIDE DEF d, U
  <2>3. N \subseteq Nat /\ N # {}
    <3>1. \A x \in Lost : Rounds - d[x] \in Nat
      BY <2>2
    <3> QED
      BY <2>1, <3>1
  <2> HIDE DEF N
  <2>4. PICK m \in N : \A i \in N : m <= i
    BY <2>3, LeastNumber
  <2>5. PICK x \in Lost : Rounds - d[x] = m
    BY <2>4 DEF N
  <2>6. PICK k \in DOMAIN joins : joins[k].right = x
    BY <2>5 DEF Rights
  <2>7. x \notin seen
    <3> SUFFICES ASSUME x \in seen PROVE FALSE
      OBVIOUS
    <3>1. x \in seen \ {base}
      BY <1>2, <2>5
    <3>2. x \in way[x]
      BY <3>1 DEF Branch
    <3> QED
      BY <2>5, <3>1, <3>2 DEF U
  <2>8. PICK i \in DOMAIN joins : joins[i].left = x
    BY <2>6, <2>7 DEF PlanInv, OnTheWay
  <2> DEFINE y == joins[i].right
  <2>9. y \in Rights /\ y # base /\ pred[y] = x /\ y \in Entity
    <3>1. y \in Rights
      BY DEF Rights
    <3>2. y # base /\ pred[y] = x
      BY <2>8 DEF IInv, JoinsOnTree
    <3> QED
      BY <1>2, <3>1, <3>2
  <2>10. d[y] = d[x] + 1
    <3>1. pred[y] # None
      BY <1>2, <2>5, <2>9, NoneAssumption
    <3> HIDE DEF y
    <3> QED
      BY <2>9, <3>1, OnePredecessor DEF d
  <2> HIDE DEF y
  <2>11. y \notin Lost
    <3> SUFFICES ASSUME y \in Lost PROVE FALSE
      OBVIOUS
    <3>1. Rounds - d[y] \in N
      BY DEF N
    <3>2. Rounds - d[x] <= Rounds - d[y]
      BY <2>4, <2>5, <3>1
    <3>3. d[x] \in 0..Rounds /\ d[y] \in 0..Rounds
      BY <2>2, <2>5, <2>9
    <3> QED
      BY <2>2, <2>10, <3>2, <3>3
  <2>12. PICK e \in seen \ {base} : y \in way[e]
    BY <2>9, <2>11 DEF U
  <2>13. x \in way[e]
    <3>1. Rooted(way[e])
      BY DEF Branch
    <3> QED
      BY <2>9, <2>12, <3>1 DEF Rooted
  <2> QED
    BY <2>5, <2>13 DEF U
<1> QED
  BY <1>4, <1>5

LEMMA RightsPlanned ==
  ASSUME IInv, PlanInv, TreeKept, pc = "planned"
  PROVE  {base} \cup Rights \in Plan!Plans(Links, base, seen \ {base})
<1> DEFINE targets == seen \ {base}
           way     == [e \in targets |-> CHOOSE s : Branch(s, e)]
           ways    == UNION {{e} \X Plan!Ways(Links, base, e) : e \in targets}
           among   == {p[2] : p \in ways}
<1>1. targets \subseteq DOMAIN Dist(declared, base)
  <2>1. targets \subseteq Rights
    BY DEF PlanInv, SeenReached, Rights
  <2> QED
    BY <2>1, RightsRooted
<1>2. \A e \in targets : Branch(way[e], e)
  <2> SUFFICES ASSUME NEW e \in targets PROVE Branch(way[e], e)
    OBVIOUS
  <2>1. \E s : Branch(s, e)
    BY <1>1, BranchExists
  <2> QED
    BY <2>1
<1>3. \A e \in targets : <<e, way[e]>> \in ways /\ way[e] \in among
  <2> SUFFICES ASSUME NEW e \in targets PROVE <<e, way[e]>> \in ways /\ way[e] \in among
    OBVIOUS
  <2>1. way[e] \in Plan!Ways(Links, base, e)
    BY <1>2, BranchIsWay
  <2> HIDE DEF way
  <2>2. <<e, way[e]>> \in ways
    BY <2>1
  <2>3. way[e] = <<e, way[e]>>[2]
    OBVIOUS
  <2> QED
    BY <2>2, <2>3
<1>4. way \in {w \in [targets -> among] : \A e \in targets : <<e, w[e]>> \in ways}
  <2>1. way = [e \in targets |-> way[e]]
    OBVIOUS
  <2> HIDE DEF way, ways, among
  <2> QED
    BY <1>3, <2>1
<1>5. {base} \cup Rights = {base} \cup UNION {way[e] : e \in targets}
  <2> HIDE DEF way
  <2> QED
    BY <1>2, RightsAreBranches
<1>6. Plan!Plans(Links, base, targets)
        = {{base} \cup UNION {w[e] : e \in targets} :
             w \in {v \in [targets -> among] : \A e \in targets : <<e, v[e]>> \in ways}}
  BY DEF Plan!Plans
<1> DEFINE Joint(w) == {base} \cup UNION {w[e] : e \in targets}
           Choices  == {w \in [targets -> among] : \A e \in targets : <<e, w[e]>> \in ways}
<1>7. Plan!Plans(Links, base, targets) = {Joint(w) : w \in Choices}
  BY <1>6
<1>8. {base} \cup Rights = Joint(way) /\ way \in Choices
  BY <1>4, <1>5
<1> HIDE DEF way, Joint, Choices
<1> QED
  BY <1>7, <1>8

(* The FROM clause of a plan holds the base and what is joined. *)
LEMMA FromJoins ==
  ASSUME IInv, PlanInv, pc = "planned"
  PROVE  /\ Joined = {base} \cup Rights
         /\ DOMAIN from = DOMAIN PathEntities
         /\ DOMAIN PathEntities = 1..(Len(joins) + 1) /\ Len(joins) \in Nat
         /\ PathEntities[1] = base
         /\ \A k \in DOMAIN from : /\ from[k].entity = PathEntities[k] /\ PathEntities[k] \in Entity
                                   /\ from[k].alias = AliasAt(PathEntities, k)
<1>1. from = FromClause(PathEntities)
  BY DEF PlanInv, Finished
<1>2. /\ DOMAIN from = DOMAIN PathEntities
      /\ DOMAIN PathEntities = 1..(Len(joins) + 1) /\ Len(joins) \in Nat
      /\ DOMAIN joins = 1..Len(joins)
      /\ PathEntities \in Seq(Entity) /\ PathEntities[1] = base
      /\ \A k \in DOMAIN joins : PathEntities[k + 1] = joins[k].right
      /\ \A k \in DOMAIN from : /\ from[k].entity = PathEntities[k]
                                /\ from[k].alias = AliasAt(PathEntities, k)
  BY <1>1, FromShape, PathShape
<1>3. \A k \in DOMAIN from : PathEntities[k] \in Entity
  BY <1>2, ElementOfSeq
<1>4. Joined = {PathEntities[k] : k \in 1..(Len(joins) + 1)}
  BY <1>2 DEF Joined
<1>5. ASSUME NEW k \in 1..(Len(joins) + 1) PROVE PathEntities[k] \in {base} \cup Rights
  <2>1. CASE k = 1
    BY <1>2, <2>1
  <2>2. CASE k # 1
    <3>1. k - 1 \in DOMAIN joins /\ (k - 1) + 1 = k
      BY <1>2, <2>2
    <3>2. PathEntities[k] = joins[k - 1].right
      BY <1>2, <3>1
    <3> QED
      BY <3>1, <3>2 DEF Rights
  <2> QED
    BY <2>1, <2>2
<1>6. ASSUME NEW e \in {base} \cup Rights PROVE \E k \in 1..(Len(joins) + 1) : PathEntities[k] = e
  <2>1. CASE e = base
    BY <1>2, <2>1
  <2>2. CASE e \in Rights
    <3>1. PICK k \in DOMAIN joins : joins[k].right = e
      BY <2>2 DEF Rights
    <3>2. k + 1 \in 1..(Len(joins) + 1)
      BY <1>2
    <3> QED
      BY <1>2, <3>1, <3>2
  <2> QED
    BY <2>1, <2>2
<1>7. Joined = {base} \cup Rights
  BY <1>4, <1>5, <1>6
<1> QED
  BY <1>2, <1>3, <1>7

(* The first relation on each table goes by the table's name, and it alone. *)
LEMMA PlainRelations ==
  ASSUME IInv, PlanInv, pc = "planned", NumberedAreFresh
  PROVE  Plain \in Plan!Plainly(TableOf, base, Joined)
<1>1. /\ DOMAIN from = DOMAIN PathEntities
      /\ DOMAIN PathEntities = 1..(Len(joins) + 1) /\ Len(joins) \in Nat
      /\ PathEntities[1] = base
      /\ \A k \in DOMAIN from : /\ from[k].entity = PathEntities[k] /\ PathEntities[k] \in Entity
                                /\ from[k].alias = AliasAt(PathEntities, k)
  BY FromJoins
<1>2. ASSUME NEW k \in DOMAIN from
      PROVE  from[k].alias = TableOf[from[k].entity] <=> Before(k) = {}
  <2> DEFINE t == TableOf[PathEntities[k]]
             c == Cardinality(Before(k))
  <2>1. IsFiniteSet(Before(k)) /\ c \in 0..Cardinality(Entity)
    BY <1>1, BeforeCounted
  <2>2. t \in Table
    BY <1>1, EntityAssumption
  <2>3. AliasAt(PathEntities, k) = IF c = 0 THEN t ELSE Numbered[t][c]
    BY DEF AliasAt, Before
  <2>4. c = 0 <=> Before(k) = {}
    BY <2>1, FS_EmptySet
  <2>5. from[k].alias = AliasAt(PathEntities, k) /\ TableOf[from[k].entity] = t
    BY <1>1
  <2> HIDE DEF t, c
  <2>6. c # 0 => c \in DOMAIN Numbered[t]
    <3> SUFFICES ASSUME c # 0 PROVE c \in DOMAIN Numbered[t]
      OBVIOUS
    <3>1. c \in 1..Cardinality(Entity)
      BY <2>1
    <3> QED
      BY <2>2, <3>1, NumberedAssumption
  <2>7. c # 0 => Numbered[t][c] # t
    BY <2>2, <2>6 DEF NumberedAreFresh
  <2> QED
    BY <2>3, <2>4, <2>5, <2>7
<1>3. \A e : e \in Plain <=> \E k \in DOMAIN from : PathEntities[k] = e /\ Before(k) = {}
  <2>1. \A e : e \in Plain <=> \E k \in DOMAIN from : /\ from[k].alias = TableOf[from[k].entity]
                                                       /\ from[k].entity = e
    BY DEF Plain
  <2> QED
    BY <1>1, <1>2, <2>1
<1>4. Plain \in SUBSET Joined
  BY <1>1, <1>3 DEF Joined
<1>5. base \in Plain
  <2>1. 1 \in DOMAIN from /\ Before(1) = {}
    BY <1>1 DEF Before
  <2> QED
    BY <1>1, <1>3, <2>1
<1>6. ASSUME NEW e \in Joined PROVE \E f \in Plain : TableOf[f] = TableOf[e]
  <2>1. PICK k \in DOMAIN from : PathEntities[k] = e
    BY <1>1 DEF Joined
  <2> DEFINE S == {i \in DOMAIN from : TableOf[PathEntities[i]] = TableOf[e]}
  <2>2. S \subseteq Nat /\ S # {}
    BY <1>1, <2>1
  <2>3. PICK i \in S : \A n \in S : i <= n
    <3> HIDE DEF S
    <3> QED
      BY <2>2, LeastNumber
  <2>4. Before(i) = {}
    <3> SUFFICES ASSUME NEW n \in Before(i) PROVE FALSE
      OBVIOUS
    <3>1. n \in 1..(i - 1) /\ TableOf[PathEntities[n]] = TableOf[PathEntities[i]]
      BY DEF Before
    <3>2. n \in S /\ n < i /\ i \in Nat
      BY <1>1, <2>3, <3>1
    <3>3. i <= n /\ n \in Nat
      <4> HIDE DEF S
      <4> QED
        BY <2>2, <2>3, <3>2
    <3> QED
      BY <3>2, <3>3
  <2>5. PathEntities[i] \in Plain
    BY <1>3, <2>3, <2>4
  <2> QED
    BY <2>3, <2>5
<1>7. ASSUME NEW e \in Plain, NEW f \in Plain, TableOf[e] = TableOf[f] PROVE e = f
  <2>1. PICK i \in DOMAIN from : PathEntities[i] = e /\ Before(i) = {}
    BY <1>3
  <2>2. PICK k \in DOMAIN from : PathEntities[k] = f /\ Before(k) = {}
    BY <1>3
  <2>3. i \in Nat /\ k \in Nat /\ i >= 1 /\ k >= 1
    BY <1>1
  <2>4. ~ (i < k)
    <3> SUFFICES ASSUME i < k PROVE FALSE
      OBVIOUS
    <3>1. i \in 1..(k - 1)
      BY <2>3
    <3>2. i \in Before(k)
      BY <1>7, <2>1, <2>2, <3>1 DEF Before
    <3> QED
      BY <2>2, <3>2
  <2>5. ~ (k < i)
    <3> SUFFICES ASSUME k < i PROVE FALSE
      OBVIOUS
    <3>1. k \in 1..(i - 1)
      BY <2>3
    <3>2. k \in Before(i)
      BY <1>7, <2>1, <2>2, <3>1 DEF Before
    <3> QED
      BY <2>1, <3>2
  <2>6. i = k
    BY <2>3, <2>4, <2>5
  <2> QED
    BY <2>1, <2>2, <2>6
<1> HIDE DEF Plain, Joined
<1> QED
  BY <1>4, <1>5, <1>6, <1>7 DEF Plan!Plainly

(* MultiFactJoin is the verdict when several facts are joined. *)
LEMMA SeveralFacts ==
  ASSUME IInv, PlanInv, VerdictCountsFacts, pc = "planned"
  PROVE  verdict = "MultiFactJoin" <=> Plan!Several(Joined)
<1> DEFINE facts == Fact \cap ({base} \cup Rights)
           n     == Cardinality(facts)
<1>1. /\ verdict = "PureDimension" <=> facts = {}
      /\ verdict = "SingleFact" <=> \E f \in facts : facts = {f}
  BY DEF VerdictCountsFacts, Rights
<1>2. verdict \in {"PureDimension", "SingleFact", "MultiFactJoin"}
  BY DEF PlanInv, Finished, Classify
<1>3. IsFiniteSet(facts) /\ n \in Nat
  BY EntityAssumption, FS_Subset, FS_CardinalityType
<1>4. n = 0 <=> facts = {}
  BY <1>3, FS_EmptySet
<1>5. n = 1 <=> \E f \in facts : facts = {f}
  <2>1. n = 1 <=> \E f : facts = {f}
    BY <1>3, FS_Singleton
  <2> HIDE DEF facts
  <2>2. (\E f : facts = {f}) <=> \E f \in facts : facts = {f}
    OBVIOUS
  <2> QED
    BY <2>1, <2>2
<1>6. Plan!Several(Joined) <=> n > 1
  <2>1. Joined \cap Fact = facts
    BY FromJoins
  <2>2. Plan!Several(Joined) <=> Plan!Cardinality(Joined \cap Fact) > 1
    BY DEF Plan!Several
  <2>3. Plan!Cardinality(Joined \cap Fact) = Cardinality(facts)
    BY <2>1, SameCount
  <2> QED
    BY <2>2, <2>3
<1> HIDE DEF facts, n
<1> QED
  BY <1>1, <1>2, <1>3, <1>4, <1>5, <1>6

(* A compilation fails for want of a way only when there is none. *)
LEMMA NoWayTo ==
  ASSUME IInv, UnreachableRight, pc = "unreachable"
  PROVE  \E e \in seen \ {base} : Plan!Ways(Links, base, e) = {}
<1>1. declared \subseteq Declared /\ base \in Entity
  BY DEF IInv, TypeOK
<1>2. PICK e \in seen : ~ \E w : Walk(declared, base, w, e)
  BY DEF UnreachableRight
<1>3. Walk(declared, base, <<base>>, base)
  BY <1>1 DEF Walk
<1>4. e # base /\ e \notin DOMAIN Dist(declared, base)
  BY <1>1, <1>2, <1>3, DistanceShortest
<1> QED
  BY <1>4, NoWayBeyond

(* What a compilation that has ended keeps of the promise. *)
PromiseKept ==
  /\ pc = "planned" =>
       /\ Joined \in Plan!Plans(Links, base, seen \ {base})
       /\ Plain \in Plan!Plainly(TableOf, base, Joined)
       /\ (verdict = "MultiFactJoin") = Plan!Several(Joined)
  /\ pc = "unreachable" => \E e \in seen \ {base} : Plan!Ways(Links, base, e) = {}

LEMMA PlansKeepPromise ==
  ASSUME NumberedAreFresh, IInv, PlanInv, TreeKept, VerdictCountsFacts, UnreachableRight
  PROVE  PromiseKept
<1>1. ASSUME pc = "planned"
      PROVE  /\ Joined \in Plan!Plans(Links, base, seen \ {base})
             /\ Plain \in Plan!Plainly(TableOf, base, Joined)
             /\ (verdict = "MultiFactJoin") = Plan!Several(Joined)
  <2>1. Joined \in Plan!Plans(Links, base, seen \ {base})
    BY <1>1, FromJoins, RightsPlanned
  <2>2. Plain \in Plan!Plainly(TableOf, base, Joined)
    BY <1>1, PlainRelations
  <2>3. (verdict = "MultiFactJoin") = Plan!Several(Joined)
    BY <1>1, SeveralFacts DEF Plan!Several
  <2> QED
    BY <2>1, <2>2, <2>3
<1>2. pc = "unreachable" => \E e \in seen \ {base} : Plan!Ways(Links, base, e) = {}
  BY NoWayTo
<1> QED
  BY <1>1, <1>2 DEF PromiseKept

(* The state of JoinPlan, as it is read off the planner's. *)
planVars == <<Links, base, seen \ {base}, Joined, Plain,
              pc = "planned" /\ verdict = "MultiFactJoin",
              IF pc \in {"planned", "unreachable"} THEN pc ELSE "open">>

LEMMA InitPlans == Init => Plan!Init
<1> SUFFICES ASSUME Init PROVE Plan!Init
  OBVIOUS
<1>1. Links \in SUBSET SUBSET Entity
  BY DeclaredAssumption DEF Init, Links, Hop
<1>2. Joined = {} /\ Plain = {}
  BY DEF Init, Joined, Plain
<1>3. pc = "choosing" /\ base \in Entity /\ seen \ {base} = {}
  BY DEF Init
<1> QED
  BY <1>1, <1>2, <1>3 DEF Plan!Init

(* What is read off the list of joins, the FROM clause and the inputs stays with them. *)
LEMMA PlanStays ==
  /\ UNCHANGED declared => UNCHANGED Links
  /\ UNCHANGED from => UNCHANGED <<Joined, Plain>>
BY DEF Links, Joined, Plain

LEMMA StepPlans ==
  ASSUME PromiseKept', [Next]_vars
  PROVE  Plan!Next \/ UNCHANGED planVars
<1>1. UNCHANGED <<declared, base, Links>>
  <2>1. UNCHANGED inputs
    BY DEF Next, vars, TakeDimension, TraceBack, FailUnreachable, AddHop, BuildFrom
  <2> QED
    BY <2>1, PlanStays DEF inputs
<1>2. CASE UNCHANGED vars
  <2>1. UNCHANGED <<seen, verdict, from, pc>>
    BY <1>2 DEF vars
  <2> QED
    BY <1>1, <2>1, PlanStays DEF planVars
<1>3. CASE TakeDimension
  <2>1. /\ pc = "choosing" /\ pc' \in {"choosing", "tracing"}
        /\ UNCHANGED <<verdict, from, Joined, Plain>>
    BY <1>3, PlanStays DEF TakeDimension
  <2>2. PICK e \in Entity : seen' = seen \cup {e}
    BY <1>3 DEF TakeDimension
  <2>3. CASE e = base
    <3>1. seen' \ {base}' = seen \ {base}
      BY <1>1, <2>2, <2>3
    <3> QED
      BY <1>1, <2>1, <3>1 DEF planVars
  <2>4. CASE e # base
    <3>1. e \in Entity \ {base} /\ seen' \ {base'} = (seen \ {base}) \cup {e}
      BY <1>1, <2>2, <2>4
    <3>2. Plan!Want
      BY <1>1, <2>1, <3>1 DEF Plan!Want
    <3> QED
      BY <3>2 DEF Plan!Next
  <2> QED
    BY <2>3, <2>4
<1>4. CASE TraceBack \/ AddHop
  <2>1. /\ pc \in {"tracing", "walking"} /\ pc' \in {"choosing", "tracing", "walking"}
        /\ UNCHANGED <<seen, verdict, from, Joined, Plain>>
    BY <1>4, PlanStays DEF TraceBack, AddHop
  <2> QED
    BY <1>1, <2>1 DEF planVars
<1>5. CASE FailUnreachable
  <2>1. /\ pc = "tracing" /\ pc' = "unreachable"
        /\ UNCHANGED <<seen, verdict, from, Joined, Plain>>
    BY <1>5, PlanStays DEF FailUnreachable
  <2>2. \E e \in (seen \ {base})' : Plan!Ways(Links, base, e)' = {}
    BY <2>1 DEF PromiseKept
  <2>3. PICK e \in seen \ {base} : Plan!Ways(Links, base, e)' = {}
    BY <1>1, <2>1, <2>2
  <2>4. Plan!Ways(Links, base, e) = {}
    <3>1. Plan!Ways(Links, base, e)' = Plan!Ways(Links, base, e)
      BY <1>1 DEF Plan!Ways, Plan!Hangs
    <3> QED
      BY <2>3, <3>1
  <2>5. Plan!Fail
    BY <1>1, <2>1, <2>4 DEF Plan!Fail
  <2> QED
    BY <2>5 DEF Plan!Next
<1>6. CASE BuildFrom
  <2>1. pc = "choosing" /\ pc' = "planned" /\ UNCHANGED seen
    BY <1>6 DEF BuildFrom
  <2>2. /\ Joined' \in Plan!Plans(Links, base, seen \ {base})'
        /\ Plain' \in Plan!Plainly(TableOf, base, Joined)'
        /\ (verdict' = "MultiFactJoin") = Plan!Several(Joined)'
    BY <2>1 DEF PromiseKept
  <2>3. Plan!Plans(Links, base, seen \ {base})' = Plan!Plans(Links, base, seen \ {base})
    BY <1>1, <2>1 DEF Plan!Plans, Plan!Ways, Plan!Hangs
  <2>4. /\ Plan!Plainly(TableOf, base, Joined)' = Plan!Plainly(TableOf, base, Joined')
        /\ Plan!Several(Joined)' = Plan!Several(Joined')
    BY <1>1 DEF Plan!Plainly, Plan!Several
  <2>5. Plan!Plan
    BY <1>1, <2>1, <2>2, <2>3, <2>4 DEF Plan!Plan
  <2> QED
    BY <2>5 DEF Plan!Next
<1> QED
  BY <1>2, <1>3, <1>4, <1>5, <1>6 DEF Next

(***************************************************************************)
(* The join planning of compile implements JoinPlan, for any entities and  *)
(* joins and requests of any length, if no table is called like a numbered *)
(* alias: what Compiler takes for granted is what JoinPlanner does.        *)
(***************************************************************************)
THEOREM Refinement ==
  ASSUME NumberedAreFresh
  PROVE  Spec => ImplementsPlan
<1>1. Init => Plan!Init
  BY InitPlans
<1>2. PromiseKept' /\ [Next]_vars => [Plan!Next]_planVars
  BY StepPlans
<1>3. IInv /\ PlanInv /\ TreeKept /\ VerdictCountsFacts /\ UnreachableRight => PromiseKept
  BY PlansKeepPromise
<1> QED
  BY <1>1, <1>2, <1>3, PlanInvariance, TreeInvariance, VerdictRight, FailsRightly, PTL
     DEF Spec, ImplementsPlan, Plan!Spec, planVars

================================================================================
