-------------------------- MODULE PreAggregation_proofs ------------------------
(***************************************************************************)
(* Proofs about PreAggregation, for tables of any size, with any keys,     *)
(* attributes and values: the rewritten query gives the groups and the     *)
(* numbers the measure means.                                              *)
(*                                                                         *)
(* There are four parts: sums over finite sets, extremes of finite sets,   *)
(* aggregates of aggregates, and the joins of FROM.                        *)
(***************************************************************************)
EXTENDS PreAggregation, FiniteSetTheorems, WellFoundedInduction, TLAPS

(***************************************************************************)
(* SUMS.  Total recurs over the subsets of a set.  What holds of it for    *)
(* every finite set is proved by a smallest counterexample.                *)
(***************************************************************************)
LEMMA SmallestSet ==
  ASSUME NEW Bad, Bad # {}, \A s \in Bad : IsFiniteSet(s)
  PROVE  \E s \in Bad : \A t \in Bad : t \subseteq s => t = s
<1> DEFINE U == UNION Bad
<1>1. Bad \subseteq FiniteSubsetsOf(U)
  BY DEF FiniteSubsetsOf
<1>2. IsWellFoundedOn(StrictSubsetOrdering(U), FiniteSubsetsOf(U))
  BY FS_StrictSubsetOrderingWellFounded
<1> HIDE DEF U
<1>3. PICK s \in Bad : \A t \in Bad : ~ (<<t, s>> \in StrictSubsetOrdering(U))
  BY <1>1, <1>2, WFMin, Zenon
<1>4. \A t \in Bad : t \in SUBSET U
  BY <1>1 DEF FiniteSubsetsOf
<1> QED
  BY <1>3, <1>4 DEF StrictSubsetOrdering

First(s) == CHOOSE x \in s : TRUE

(* The function Total is the value of. *)
Sums(g, f, S) ==
  g = [s \in SUBSET S |->
         IF s = {} THEN 0 ELSE LET x == CHOOSE x \in s : TRUE IN f[x] + g[s \ {x}]]

LEMMA TotalIs ==
  ASSUME NEW f, NEW S
  PROVE  Total(f, S) = (CHOOSE g : Sums(g, f, S))[S]
BY Zenon DEF Total, MapThenSumSet, MapThenFoldSet, Sums

LEMMA FirstIn ==
  ASSUME NEW s, s # {}
  PROVE  First(s) \in s
BY DEF First

LEMMA SumsAt ==
  ASSUME NEW g, NEW f, NEW S, Sums(g, f, S)
  PROVE  /\ g[{}] = 0
         /\ \A s \in SUBSET S : s # {} => g[s] = f[First(s)] + g[s \ {First(s)}]
<1>1. g = [s \in SUBSET S |-> IF s = {} THEN 0 ELSE f[First(s)] + g[s \ {First(s)}]]
  BY Zenon DEF Sums, First
<1> QED
  BY <1>1

LEMMA SumsBy ==
  ASSUME NEW g, NEW f, NEW S,
         g = [s \in SUBSET S |-> IF s = {} THEN 0 ELSE f[First(s)] + g[s \ {First(s)}]]
  PROVE  Sums(g, f, S)
BY Zenon DEF Sums, First

(* There is one way to sum f. *)
LEMMA SumsUnique ==
  ASSUME NEW f, NEW S, NEW T, NEW g, NEW h, Sums(g, f, S), Sums(h, f, T),
         NEW s, s \subseteq S, s \subseteq T, IsFiniteSet(s)
  PROVE  g[s] = h[s]
<1> DEFINE Bad == {t \in SUBSET s : g[t] # h[t]}
<1>1. SUFFICES ASSUME Bad # {} PROVE FALSE
  OBVIOUS
<1>2. \A t \in Bad : IsFiniteSet(t)
  BY FS_Subset
<1>3. PICK t \in Bad : \A u \in Bad : u \subseteq t => u = t
  <2> HIDE DEF Bad
  <2> QED BY <1>1, <1>2, SmallestSet
<1>4. t # {}
  BY SumsAt
<1>5. t \ {First(t)} \in SUBSET s /\ t \ {First(t)} # t /\ t \ {First(t)} \subseteq t
  BY <1>4, FirstIn
<1>6. g[t \ {First(t)}] = h[t \ {First(t)}]
  BY <1>3, <1>5
<1>7. /\ t \in SUBSET S /\ t \in SUBSET T
  OBVIOUS
<1>8. g[t] = f[First(t)] + g[t \ {First(t)}] /\ h[t] = f[First(t)] + h[t \ {First(t)}]
  <2>1. \A u \in SUBSET S : u # {} => g[u] = f[First(u)] + g[u \ {First(u)}]
    BY SumsAt
  <2>2. \A u \in SUBSET T : u # {} => h[u] = f[First(u)] + h[u \ {First(u)}]
    BY SumsAt
  <2> QED BY <1>4, <1>7, <2>1, <2>2
<1> QED
  BY <1>6, <1>8

LEMMA SumsExist ==
  ASSUME NEW f, NEW S, IsFiniteSet(S)
  PROVE  \E g : Sums(g, f, S)
<1> DEFINE Bad == {T \in SUBSET S : ~ \E g : Sums(g, f, T)}
<1>1. SUFFICES ASSUME Bad # {} PROVE FALSE
  OBVIOUS
<1>2. \A T \in Bad : IsFiniteSet(T)
  BY FS_Subset
<1>3. PICK T \in Bad : \A u \in Bad : u \subseteq T => u = T
  <2> HIDE DEF Bad
  <2> QED BY <1>1, <1>2, SmallestSet
<1>4. \A s \in SUBSET T : IsFiniteSet(s) /\ s \in SUBSET S
  BY FS_Subset
<1> DEFINE A(s) == CHOOSE g : Sums(g, f, s)
           W(s) == A(s)[s]
           V(s) == IF s = {} THEN 0 ELSE f[First(s)] + W(s \ {First(s)})
           G    == [s \in SUBSET T |-> V(s)]
<1>5. \A s \in SUBSET T : s # T => Sums(A(s), f, s)
  BY <1>3, <1>4
<1>6. ASSUME NEW s \in SUBSET T, s # T, s # {}
      PROVE  W(s) = f[First(s)] + W(s \ {First(s)})
  <2> DEFINE r == s \ {First(s)}
  <2>1. First(s) \in s
    BY <1>6, FirstIn
  <2>2. r \in SUBSET T /\ r # T /\ r \subseteq s
    BY <2>1
  <2>3. Sums(A(s), f, s) /\ Sums(A(r), f, r) /\ IsFiniteSet(r)
    BY <1>4, <1>5, <1>6, <2>2
  <2>4. A(s)[s] = f[First(s)] + A(s)[r]
    <3> HIDE DEF A
    <3> QED BY <1>6, <2>3, SumsAt
  <2>5. A(s)[r] = A(r)[r]
    <3> HIDE DEF A, r
    <3> QED BY <2>2, <2>3, SumsUnique
  <2> QED
    BY <2>4, <2>5
<1>7. W({}) = 0 \/ T = {}
  <2> HIDE DEF A
  <2> QED BY <1>5, SumsAt
<1>8. \A s \in SUBSET T : s # T => W(s) = V(s)
  <2> SUFFICES ASSUME NEW s \in SUBSET T, s # T PROVE W(s) = V(s)
    OBVIOUS
  <2>1. CASE s = {}
    BY <1>7, <2>1
  <2>2. CASE s # {}
    <3>1. W(s) = f[First(s)] + W(s \ {First(s)})
      BY <1>6, <2>2
    <3> HIDE DEF W
    <3> QED BY <2>2, <3>1
  <2> QED BY <2>1, <2>2
<1>9. \A s \in SUBSET T : s # {} => s \ {First(s)} \in SUBSET T /\ s \ {First(s)} # T
  BY FirstIn
<1>10. G = [s \in SUBSET T |-> IF s = {} THEN 0 ELSE f[First(s)] + G[s \ {First(s)}]]
  <2>1. \A s \in SUBSET T : s # {} => G[s \ {First(s)}] = W(s \ {First(s)})
    <3> HIDE DEF W
    <3>1. \A s \in SUBSET T : G[s] = V(s)
      OBVIOUS
    <3> HIDE DEF G, V
    <3> QED BY <1>8, <1>9, <3>1
  <2>2. \A s \in SUBSET T : V(s) = IF s = {} THEN 0 ELSE f[First(s)] + G[s \ {First(s)}]
    <3> HIDE DEF W, G
    <3> QED BY <2>1
  <2> HIDE DEF V
  <2> QED BY <2>2
<1>11. Sums(G, f, T)
  <2> HIDE DEF G
  <2> QED BY <1>10, SumsBy
<1> QED
  BY <1>3, <1>11, Zenon

(* Total, step by step. *)
LEMMA TotalUnfolds ==
  ASSUME NEW f, NEW S, IsFiniteSet(S)
  PROVE  /\ Total(f, {}) = 0
         /\ S # {} => Total(f, S) = f[First(S)] + Total(f, S \ {First(S)})
<1> DEFINE A(s) == CHOOSE g : Sums(g, f, s)
<1>1. \A s : IsFiniteSet(s) => Sums(A(s), f, s)
  BY SumsExist
<1>2. \A s : Total(f, s) = A(s)[s]
  BY TotalIs
<1> HIDE DEF A
<1>3. Total(f, {}) = 0
  BY <1>1, <1>2, SumsAt, FS_EmptySet
<1>4. ASSUME S # {} PROVE Total(f, S) = f[First(S)] + Total(f, S \ {First(S)})
  <2> DEFINE r == S \ {First(S)}
  <2>1. IsFiniteSet(r) /\ r \subseteq S /\ r \subseteq r
    BY FS_RemoveElement
  <2>2. A(S)[S] = f[First(S)] + A(S)[r]
    BY <1>1, <1>4, SumsAt
  <2>3. Sums(A(S), f, S) /\ Sums(A(r), f, r)
    BY <1>1, <2>1
  <2> HIDE DEF r
  <2>4. A(S)[r] = A(r)[r]
    BY <2>1, <2>3, SumsUnique
  <2>5. Total(f, S) = f[First(S)] + Total(f, r)
    BY <1>2, <2>2, <2>4
  <2> QED
    BY <2>5 DEF r
<1> QED
  BY <1>3, <1>4

Integral(f, S) == \A x \in S : f[x] \in Int

LEMMA TotalInt ==
  ASSUME NEW f, NEW S, IsFiniteSet(S), Integral(f, S)
  PROVE  Total(f, S) \in Int
<1> DEFINE Bad == {t \in SUBSET S : Total(f, t) \notin Int}
<1>1. SUFFICES ASSUME Bad # {} PROVE FALSE
  OBVIOUS
<1>2. \A t \in Bad : IsFiniteSet(t)
  BY FS_Subset
<1>3. PICK t \in Bad : \A u \in Bad : u \subseteq t => u = t
  <2> HIDE DEF Bad
  <2> QED BY <1>1, <1>2, SmallestSet
<1>4. t # {} /\ IsFiniteSet(t)
  <2>1. Total(f, {}) = 0
    BY TotalUnfolds
  <2> QED BY <1>2, <2>1
<1>5. First(t) \in t
  BY <1>4, FirstIn
<1>6. f[First(t)] \in Int /\ Total(f, t \ {First(t)}) \in Int
  BY <1>3, <1>5 DEF Integral
<1>7. Total(f, t) = f[First(t)] + Total(f, t \ {First(t)})
  BY <1>4, TotalUnfolds
<1> QED
  BY <1>6, <1>7

(* Functions that agree on a set have the same sum over it. *)
LEMMA TotalSame ==
  ASSUME NEW f, NEW h, NEW S, IsFiniteSet(S), \A x \in S : f[x] = h[x]
  PROVE  Total(f, S) = Total(h, S)
<1> DEFINE Bad == {t \in SUBSET S : Total(f, t) # Total(h, t)}
<1>1. SUFFICES ASSUME Bad # {} PROVE FALSE
  OBVIOUS
<1>2. \A t \in Bad : IsFiniteSet(t)
  BY FS_Subset
<1>3. PICK t \in Bad : \A u \in Bad : u \subseteq t => u = t
  <2> HIDE DEF Bad
  <2> QED BY <1>1, <1>2, SmallestSet
<1>4. t # {} /\ IsFiniteSet(t)
  BY <1>2, TotalUnfolds
<1>5. First(t) \in t
  BY <1>4, FirstIn
<1>6. f[First(t)] = h[First(t)] /\ Total(f, t \ {First(t)}) = Total(h, t \ {First(t)})
  BY <1>3, <1>5
<1>7. /\ Total(f, t) = f[First(t)] + Total(f, t \ {First(t)})
      /\ Total(h, t) = h[First(t)] + Total(h, t \ {First(t)})
  BY <1>4, TotalUnfolds
<1> QED
  BY <1>6, <1>7

(* Any element can be taken out of a sum. *)
LEMMA TotalWithout ==
  ASSUME NEW f, NEW S, IsFiniteSet(S), Integral(f, S), NEW x \in S
  PROVE  Total(f, S) = f[x] + Total(f, S \ {x})
<1> DEFINE Bad == {t \in SUBSET S : \E y \in t : Total(f, t) # f[y] + Total(f, t \ {y})}
<1>1. SUFFICES ASSUME Bad # {} PROVE FALSE
  OBVIOUS
<1>2. \A t \in Bad : IsFiniteSet(t)
  BY FS_Subset
<1>3. PICK t \in Bad : \A u \in Bad : u \subseteq t => u = t
  <2> HIDE DEF Bad
  <2> QED BY <1>1, <1>2, SmallestSet
<1>4. PICK y \in t : Total(f, t) # f[y] + Total(f, t \ {y})
  OBVIOUS
<1> DEFINE z == First(t)
<1>5. z \in t /\ z \in S /\ y \in S
  BY <1>4, FirstIn
<1>6. Total(f, t) = f[z] + Total(f, t \ {z})
  BY <1>2, <1>4, TotalUnfolds
<1> HIDE DEF z
<1>7. z # y
  BY <1>4, <1>6
<1>8. Total(f, t \ {z}) = f[y] + Total(f, (t \ {z}) \ {y})
  <2>1. t \ {z} \notin Bad /\ y \in t \ {z}
    BY <1>3, <1>4, <1>5, <1>7
  <2> QED BY <2>1
<1>9. Total(f, t \ {y}) = f[z] + Total(f, (t \ {y}) \ {z})
  <2>1. t \ {y} \notin Bad /\ z \in t \ {y}
    BY <1>3, <1>4, <1>5, <1>7
  <2> QED BY <2>1
<1>10. (t \ {z}) \ {y} = (t \ {y}) \ {z}
  OBVIOUS
<1>11. Total(f, (t \ {y}) \ {z}) \in Int
  <2> DEFINE r == (t \ {y}) \ {z}
  <2>1. IsFiniteSet(r)
    BY <1>2, FS_RemoveElement
  <2>2. Integral(f, r)
    BY DEF Integral
  <2> HIDE DEF r
  <2>3. Total(f, r) \in Int
    BY <2>1, <2>2, TotalInt
  <2> QED BY <2>3 DEF r
<1>12. f[y] \in Int /\ f[z] \in Int
  BY <1>5 DEF Integral
<1>13. Total(f, t) = f[y] + Total(f, t \ {y})
  <2> DEFINE rest == Total(f, (t \ {y}) \ {z})
             noZ  == Total(f, t \ {z})
             noY  == Total(f, t \ {y})
  <2>1. Total(f, (t \ {z}) \ {y}) = rest
    BY <1>10, Zenon
  <2>2. noZ = f[y] + rest
    BY <1>8, <2>1, Zenon
  <2>3. noY = f[z] + rest /\ rest \in Int /\ Total(f, t) = f[z] + noZ
    BY <1>6, <1>9, <1>11, Zenon
  <2> HIDE DEF rest, noZ, noY
  <2>4. Total(f, t) = f[y] + noY
    BY <1>12, <2>2, <2>3
  <2> QED BY <2>4 DEF noY
<1> QED
  BY <1>4, <1>13

(* The elements of S that p takes to y, and what p takes S to. *)
Fibre(p, S, y) == {x \in S : p[x] = y}
Image(p, S)    == {p[x] : x \in S}

LEMMA ImageFinite ==
  ASSUME NEW p, NEW S, IsFiniteSet(S)
  PROVE  /\ IsFiniteSet(Image(p, S))
         /\ \A y : IsFiniteSet(Fibre(p, S, y))
<1>1. \A y : Fibre(p, S, y) \in SUBSET S
  BY DEF Fibre
<1>2. \A y : IsFiniteSet(Fibre(p, S, y))
  BY <1>1, FS_Subset
<1>3. IsFiniteSet(Image(p, S))
  <2> DEFINE Bad == {T \in SUBSET S : ~ IsFiniteSet(Image(p, T))}
  <2>1. SUFFICES ASSUME Bad # {} PROVE FALSE
    OBVIOUS
  <2>2. \A T \in Bad : IsFiniteSet(T)
    BY FS_Subset
  <2>3. PICK T \in Bad : \A u \in Bad : u \subseteq T => u = T
    <3> HIDE DEF Bad
    <3> QED BY <2>1, <2>2, SmallestSet
  <2>4. T # {}
    <3>1. Image(p, {}) = {}
      BY DEF Image
    <3> QED BY <3>1, FS_EmptySet
  <2>5. PICK x \in T : TRUE
    BY <2>4
  <2>6. IsFiniteSet(Image(p, T \ {x}))
    BY <2>3, <2>5
  <2>7. Image(p, T) = Image(p, T \ {x}) \cup {p[x]}
    BY DEF Image
  <2>8. IsFiniteSet(Image(p, T))
    <3> HIDE DEF Bad
    <3> QED BY <2>6, <2>7, FS_AddElement
  <2> QED
    BY <2>8
<1> QED
  BY <1>2, <1>3

(***************************************************************************)
(* A sum can be made group by group: that of the sums of the groups is     *)
(* that of the elements.                                                   *)
(***************************************************************************)
Groups(f, p, S) == [y \in Image(p, S) |-> Total(f, Fibre(p, S, y))]

LEMMA TotalByGroups ==
  ASSUME NEW f, NEW p, NEW S, IsFiniteSet(S), Integral(f, S)
  PROVE  Total(Groups(f, p, S), Image(p, S)) = Total(f, S)
<1> DEFINE Same(T) == Total(Groups(f, p, T), Image(p, T)) = Total(f, T)
           Bad == {T \in SUBSET S : ~ Same(T)}
<1>1. SUFFICES ASSUME Bad # {} PROVE FALSE
  OBVIOUS
<1>2. \A T \in SUBSET S : IsFiniteSet(T) /\ Integral(f, T)
  BY FS_Subset DEF Integral
<1>3. PICK T \in Bad : \A u \in Bad : u \subseteq T => u = T
  <2>1. \A T \in Bad : IsFiniteSet(T)
    BY <1>2
  <2> HIDE DEF Bad
  <2> QED BY <1>1, <2>1, SmallestSet
<1>4. T # {}
  <2>1. Image(p, {}) = {}
    BY DEF Image
  <2>2. \A g : Total(g, {}) = 0
    BY FS_EmptySet, TotalUnfolds
  <2> QED BY <2>1, <2>2
<1>5. PICK x \in T : TRUE
  BY <1>4
<1> DEFINE R == T \ {x}
           y == p[x]
           GT == Groups(f, p, T)
           GR == Groups(f, p, R)
           J  == Image(p, T) \ {y}
<1>6. R \in SUBSET S /\ T \in SUBSET S /\ R # T /\ R \subseteq T /\ x \in S
  BY <1>5
<1>7. Total(GR, Image(p, R)) = Total(f, R)
  BY <1>3, <1>6
<1>8. Total(f, T) = f[x] + Total(f, R) /\ Total(f, R) \in Int /\ f[x] \in Int
  <2>1. f[x] \in Int
    BY <1>6 DEF Integral
  <2> QED BY <1>2, <1>5, <1>6, <2>1, TotalInt, TotalWithout
<1>9. /\ \A z : IsFiniteSet(Fibre(p, T, z)) /\ Integral(f, Fibre(p, T, z))
      /\ \A z : IsFiniteSet(Fibre(p, R, z)) /\ Integral(f, Fibre(p, R, z))
      /\ IsFiniteSet(Image(p, T)) /\ IsFiniteSet(Image(p, R)) /\ IsFiniteSet(J)
  <2>1. \A z : Integral(f, Fibre(p, T, z)) /\ Integral(f, Fibre(p, R, z))
    BY <1>2, <1>6 DEF Integral, Fibre
  <2>2. J \in SUBSET Image(p, T)
    OBVIOUS
  <2> QED BY <1>2, <1>6, <2>1, <2>2, ImageFinite, FS_Subset
<1>10. \A z \in J : Fibre(p, T, z) = Fibre(p, R, z)
  BY DEF Fibre
<1>11. J \subseteq Image(p, R) /\ Image(p, R) \ {y} = J /\ y \in Image(p, T)
  BY <1>5 DEF Image
<1>12. \A z \in J : GT[z] = GR[z]
  BY <1>10, <1>11 DEF Groups
<1>13. Total(GT, J) = Total(GR, J)
  <2> HIDE DEF J, GT, GR
  <2> QED BY <1>9, <1>12, TotalSame
<1>14. GT[y] = f[x] + Total(f, Fibre(p, R, y)) /\ Total(f, Fibre(p, R, y)) \in Int
  <2>1. x \in Fibre(p, T, y) /\ Fibre(p, T, y) \ {x} = Fibre(p, R, y)
    BY <1>5 DEF Fibre
  <2>2. Total(f, Fibre(p, T, y)) = f[x] + Total(f, Fibre(p, T, y) \ {x})
    <3> HIDE DEF y
    <3> QED BY <1>9, <2>1, TotalWithout
  <2>3. GT[y] = Total(f, Fibre(p, T, y))
    BY <1>11 DEF Groups
  <2>4. Total(f, Fibre(p, R, y)) \in Int
    <3> HIDE DEF R, y
    <3> QED BY <1>9, TotalInt
  <2> QED BY <2>1, <2>2, <2>3, <2>4
<1>15. Integral(GT, Image(p, T)) /\ Integral(GR, Image(p, R)) /\ Integral(GR, J)
  <2>1. \A z : Total(f, Fibre(p, T, z)) \in Int /\ Total(f, Fibre(p, R, z)) \in Int
    <3> HIDE DEF R
    <3> QED BY <1>9, TotalInt
  <2> QED BY <1>11, <2>1 DEF Integral, Groups
<1>16. Total(GT, Image(p, T)) = GT[y] + Total(GT, J)
  <2> HIDE DEF GT, y
  <2>1. Total(GT, Image(p, T)) = GT[y] + Total(GT, Image(p, T) \ {y})
    BY <1>9, <1>11, <1>15, TotalWithout
  <2> QED BY <2>1
<1>17. Total(GR, J) \in Int
  <2> HIDE DEF GR, J
  <2> QED BY <1>9, <1>15, TotalInt
<1>18. Total(f, R) = Total(f, Fibre(p, R, y)) + Total(GR, J)
  <2>1. CASE y \in Image(p, R)
    <3>1. GR[y] = Total(f, Fibre(p, R, y))
      BY <2>1 DEF Groups
    <3>2. Total(GR, Image(p, R)) = GR[y] + Total(GR, Image(p, R) \ {y})
      <4> HIDE DEF GR, y, R
      <4> QED BY <1>9, <1>15, <2>1, TotalWithout
    <3> HIDE DEF GR, y, R, J
    <3> QED BY <1>7, <1>11, <3>1, <3>2
  <2>2. CASE y \notin Image(p, R)
    <3>1. Fibre(p, R, y) = {} /\ Image(p, R) = J
      BY <1>11, <2>2 DEF Fibre, Image
    <3>2. Total(f, Fibre(p, R, y)) = 0
      BY <3>1, FS_EmptySet, TotalUnfolds
    <3> HIDE DEF GR, y, R, J
    <3> QED BY <1>7, <1>17, <3>1, <3>2
  <2> QED BY <2>1, <2>2
<1>19. Total(GT, Image(p, T)) = Total(f, T)
  <2> HIDE DEF GT, GR, y, R, J
  <2> QED BY <1>8, <1>13, <1>14, <1>16, <1>17, <1>18
<1> QED
  BY <1>19

(* A count is a sum of ones. *)
LEMMA CountIsTotal ==
  ASSUME NEW f, NEW h, NEW S, IsFiniteSet(S),
         \A x \in S : h[x] = IF f[x] = Null THEN 0 ELSE 1
  PROVE  Total(h, S) = Cardinality({x \in S : f[x] # Null})
<1> DEFINE N(t) == {x \in t : f[x] # Null}
           Bad == {t \in SUBSET S : Total(h, t) # Cardinality(N(t))}
<1>1. SUFFICES ASSUME Bad # {} PROVE FALSE
  OBVIOUS
<1>2. \A t \in SUBSET S : IsFiniteSet(t)
  BY FS_Subset
<1>3. PICK t \in Bad : \A u \in Bad : u \subseteq t => u = t
  <2>1. \A t \in Bad : IsFiniteSet(t)
    BY <1>2
  <2> HIDE DEF Bad
  <2> QED BY <1>1, <2>1, SmallestSet
<1>4. t # {}
  <2>1. Total(h, {}) = 0 /\ N({}) = {}
    BY TotalUnfolds, FS_EmptySet
  <2> HIDE DEF N
  <2> QED BY <2>1, FS_EmptySet
<1> DEFINE x == First(t)
           r == t \ {x}
<1>5. x \in t /\ r \in SUBSET S /\ r # t /\ r \subseteq t /\ IsFiniteSet(N(r)) /\ t \in SUBSET S
  <2>1. x \in t
    BY <1>4, FirstIn
  <2>2. N(r) \in SUBSET S
    OBVIOUS
  <2> QED BY <1>2, <2>1, <2>2
<1>6. Total(h, t) = h[x] + Total(h, r)
  BY <1>2, <1>4, <1>5, TotalUnfolds
<1>7. Total(h, r) = Cardinality(N(r))
  BY <1>3, <1>5
<1>8. Cardinality(N(t)) = h[x] + Cardinality(N(r))
  <2>0. Cardinality(N(r)) \in Nat
    BY <1>5, FS_CardinalityType
  <2>1. CASE f[x] = Null
    <3>1. N(t) = N(r) /\ h[x] = 0
      BY <1>5, <2>1
    <3> HIDE DEF N
    <3> QED BY <2>0, <3>1
  <2>2. CASE f[x] # Null
    <3>1. N(t) = N(r) \cup {x} /\ x \notin N(r) /\ h[x] = 1
      BY <1>5, <2>2
    <3> HIDE DEF N
    <3>2. Cardinality(N(t)) = Cardinality(N(r)) + 1
      BY <1>5, <3>1, FS_AddElement
    <3> QED BY <2>0, <3>1, <3>2
  <2> QED BY <2>1, <2>2
<1>9. Total(h, t) = Cardinality(N(t))
  BY <1>6, <1>7, <1>8
<1> QED
  BY <1>9

(***************************************************************************)
(* EXTREMES.  A finite set of numbers has them, and those of a set can be  *)
(* taken group by group.                                                   *)
(***************************************************************************)
LEMMA ExtremesExist ==
  ASSUME NEW S, IsFiniteSet(S), S # {}, S \subseteq Int
  PROVE  /\ \E m \in S : \A x \in S : m <= x
         /\ \E m \in S : \A x \in S : m >= x
<1> DEFINE Low(t)  == \E m \in t : \A x \in t : m <= x
           High(t) == \E m \in t : \A x \in t : m >= x
           Bad == {t \in SUBSET S : t # {} /\ ~ (Low(t) /\ High(t))}
<1>1. SUFFICES ASSUME Bad # {} PROVE FALSE
  OBVIOUS
<1>2. \A t \in Bad : IsFiniteSet(t)
  BY FS_Subset
<1>3. PICK t \in Bad : \A u \in Bad : u \subseteq t => u = t
  <2> HIDE DEF Bad
  <2> QED BY <1>1, <1>2, SmallestSet
<1>4. PICK x \in t : TRUE
  OBVIOUS
<1>5. x \in Int /\ t \subseteq Int
  OBVIOUS
<1>6. CASE t \ {x} = {}
  <2>1. t = {x}
    BY <1>4, <1>6
  <2> QED BY <1>5, <2>1
<1>7. CASE t \ {x} # {}
  <2>1. t \ {x} \notin Bad
    BY <1>3, <1>4
  <2>2. Low(t \ {x}) /\ High(t \ {x})
    BY <1>7, <2>1
  <2>3. PICK l \in t \ {x} : \A y \in t \ {x} : l <= y
    BY <2>2
  <2>4. PICK h \in t \ {x} : \A y \in t \ {x} : h >= y
    BY <2>2
  <2>5. Low(t)
    <3>1. CASE l <= x
      BY <2>3, <3>1
    <3>2. CASE ~ (l <= x)
      BY <1>4, <1>5, <2>3, <3>2
    <3> QED BY <3>1, <3>2
  <2>6. High(t)
    <3>1. CASE h >= x
      BY <2>4, <3>1
    <3>2. CASE ~ (h >= x)
      BY <1>4, <1>5, <2>4, <3>2
    <3> QED BY <3>1, <3>2
  <2> QED BY <2>5, <2>6
<1> QED
  BY <1>6, <1>7

LEMMA MinIs ==
  ASSUME NEW S, IsFiniteSet(S), S # {}, S \subseteq Int
  PROVE  Min(S) \in S /\ \A x \in S : Min(S) <= x
BY ExtremesExist DEF Min

LEMMA MaxIs ==
  ASSUME NEW S, IsFiniteSet(S), S # {}, S \subseteq Int
  PROVE  Max(S) \in S /\ \A x \in S : Max(S) >= x
BY ExtremesExist DEF Max

LEMMA ImageOfIntegral ==
  ASSUME NEW f, NEW S, IsFiniteSet(S), S # {}, Integral(f, S)
  PROVE  IsFiniteSet(Image(f, S)) /\ Image(f, S) # {} /\ Image(f, S) \subseteq Int
<1>1. IsFiniteSet(Image(f, S))
  BY ImageFinite
<1> QED
  BY <1>1 DEF Image, Integral

LEMMA MinByGroups ==
  ASSUME NEW f, NEW p, NEW S, IsFiniteSet(S), S # {}, Integral(f, S),
         NEW h, \A y \in Image(p, S) : h[y] = Min(Image(f, Fibre(p, S, y)))
  PROVE  Min(Image(h, Image(p, S))) = Min(Image(f, S))
<1> DEFINE M(y) == Image(f, Fibre(p, S, y))
           A    == Image(h, Image(p, S))
           B    == Image(f, S)
<1>1. IsFiniteSet(B) /\ B # {} /\ B \subseteq Int
  BY ImageOfIntegral
<1>2. ASSUME NEW y \in Image(p, S)
      PROVE  M(y) \subseteq B /\ h[y] \in M(y) /\ \A x \in M(y) : h[y] <= x
  <2>1. /\ IsFiniteSet(Fibre(p, S, y)) /\ Fibre(p, S, y) # {}
        /\ Integral(f, Fibre(p, S, y)) /\ M(y) \subseteq B
    <3>1. IsFiniteSet(Fibre(p, S, y))
      BY ImageFinite
    <3>2. Fibre(p, S, y) # {} /\ Fibre(p, S, y) \subseteq S
      BY DEF Fibre, Image
    <3>3. M(y) \subseteq B
      BY <3>2 DEF Image
    <3>4. Integral(f, Fibre(p, S, y))
      BY <3>2 DEF Integral
    <3> QED BY <3>1, <3>2, <3>3, <3>4
  <2>2. IsFiniteSet(M(y)) /\ M(y) # {} /\ M(y) \subseteq Int
    BY <2>1, ImageOfIntegral
  <2> HIDE DEF M
  <2>3. Min(M(y)) \in M(y) /\ \A x \in M(y) : Min(M(y)) <= x
    BY <2>2, MinIs
  <2>4. h[y] = Min(M(y))
    BY DEF M
  <2> QED BY <2>1, <2>3, <2>4
<1>3. IsFiniteSet(A) /\ A # {} /\ A \subseteq B
  <2>1. IsFiniteSet(A)
    BY ImageFinite
  <2>2. A # {}
    <3>1. PICK y : y \in Image(p, S)
      BY DEF Image
    <3>2. h[y] \in Image(h, Image(p, S))
      BY <3>1, Zenon DEF Image
    <3> QED BY <3>2
  <2>3. \A y \in Image(p, S) : h[y] \in B
    <3> HIDE DEF M, B
    <3> QED BY <1>2
  <2>4. A \subseteq B
    BY <2>3 DEF Image
  <2> QED BY <2>1, <2>2, <2>4
<1>4. \A v \in B : \E y \in Image(p, S) : v \in M(y)
  BY DEF Image, Fibre
<1> HIDE DEF M
<1>5. \A v \in B : \E w \in A : w <= v
  <2> SUFFICES ASSUME NEW v \in B PROVE \E w \in A : w <= v
    OBVIOUS
  <2>1. PICK y \in Image(p, S) : v \in M(y)
    BY <1>4
  <2>2. h[y] <= v
    BY <1>2, <2>1
  <2>3. h[y] \in A
    BY DEF Image
  <2> QED BY <2>2, <2>3
<1> HIDE DEF A, B
<1>6. /\ Min(A) \in A /\ \A x \in A : Min(A) <= x
      /\ Min(B) \in B /\ \A x \in B : Min(B) <= x
  BY <1>1, <1>3, MinIs
<1>7. Min(A) = Min(B)
  <2>1. PICK w \in A : w <= Min(B)
    BY <1>5, <1>6
  <2>2. Min(A) <= w /\ Min(B) <= Min(A) /\ w \in Int /\ Min(A) \in Int /\ Min(B) \in Int
    BY <1>1, <1>3, <1>6
  <2> QED BY <2>1, <2>2
<1> QED
  BY <1>7 DEF A, B

LEMMA MaxByGroups ==
  ASSUME NEW f, NEW p, NEW S, IsFiniteSet(S), S # {}, Integral(f, S),
         NEW h, \A y \in Image(p, S) : h[y] = Max(Image(f, Fibre(p, S, y)))
  PROVE  Max(Image(h, Image(p, S))) = Max(Image(f, S))
<1> DEFINE M(y) == Image(f, Fibre(p, S, y))
           A    == Image(h, Image(p, S))
           B    == Image(f, S)
<1>1. IsFiniteSet(B) /\ B # {} /\ B \subseteq Int
  BY ImageOfIntegral
<1>2. ASSUME NEW y \in Image(p, S)
      PROVE  M(y) \subseteq B /\ h[y] \in M(y) /\ \A x \in M(y) : h[y] >= x
  <2>1. /\ IsFiniteSet(Fibre(p, S, y)) /\ Fibre(p, S, y) # {}
        /\ Integral(f, Fibre(p, S, y)) /\ M(y) \subseteq B
    <3>1. IsFiniteSet(Fibre(p, S, y))
      BY ImageFinite
    <3>2. Fibre(p, S, y) # {} /\ Fibre(p, S, y) \subseteq S
      BY DEF Fibre, Image
    <3>3. M(y) \subseteq B
      BY <3>2 DEF Image
    <3>4. Integral(f, Fibre(p, S, y))
      BY <3>2 DEF Integral
    <3> QED BY <3>1, <3>2, <3>3, <3>4
  <2>2. IsFiniteSet(M(y)) /\ M(y) # {} /\ M(y) \subseteq Int
    BY <2>1, ImageOfIntegral
  <2> HIDE DEF M
  <2>3. Max(M(y)) \in M(y) /\ \A x \in M(y) : Max(M(y)) >= x
    BY <2>2, MaxIs
  <2>4. h[y] = Max(M(y))
    BY DEF M
  <2> QED BY <2>1, <2>3, <2>4
<1>3. IsFiniteSet(A) /\ A # {} /\ A \subseteq B
  <2>1. IsFiniteSet(A)
    BY ImageFinite
  <2>2. A # {}
    <3>1. PICK y : y \in Image(p, S)
      BY DEF Image
    <3>2. h[y] \in Image(h, Image(p, S))
      BY <3>1, Zenon DEF Image
    <3> QED BY <3>2
  <2>3. \A y \in Image(p, S) : h[y] \in B
    <3> HIDE DEF M, B
    <3> QED BY <1>2
  <2>4. A \subseteq B
    BY <2>3 DEF Image
  <2> QED BY <2>1, <2>2, <2>4
<1>4. \A v \in B : \E y \in Image(p, S) : v \in M(y)
  BY DEF Image, Fibre
<1> HIDE DEF M
<1>5. \A v \in B : \E w \in A : w >= v
  <2> SUFFICES ASSUME NEW v \in B PROVE \E w \in A : w >= v
    OBVIOUS
  <2>1. PICK y \in Image(p, S) : v \in M(y)
    BY <1>4
  <2>2. h[y] >= v
    BY <1>2, <2>1
  <2>3. h[y] \in A
    BY DEF Image
  <2> QED BY <2>2, <2>3
<1> HIDE DEF A, B
<1>6. /\ Max(A) \in A /\ \A x \in A : Max(A) >= x
      /\ Max(B) \in B /\ \A x \in B : Max(B) >= x
  BY <1>1, <1>3, MaxIs
<1>7. Max(A) = Max(B)
  <2>1. PICK w \in A : w >= Max(B)
    BY <1>5, <1>6
  <2>2. Max(A) >= w /\ Max(B) >= Max(A) /\ w \in Int /\ Max(A) \in Int /\ Max(B) \in Int
    BY <1>1, <1>3, <1>6
  <2> QED BY <2>1, <2>2
<1> QED
  BY <1>7 DEF A, B

(***************************************************************************)
(* AGGREGATES.  Sums, least and greatest values are those of the groups'   *)
(* own; a count is a sum of counts.                                        *)
(***************************************************************************)
Given(f) == {i \in DOMAIN f : f[i] # Null}

Value(a, f, S) ==
  CASE a = "sum" -> Total(f, S)
    [] a = "min" -> Min(Image(f, S))
    [] a = "max" -> Max(Image(f, S))

Decomposable == {"sum", "min", "max"}

LEMMA AggregateIs ==
  ASSUME NEW f
  PROVE  /\ Aggregate("count", f) = Cardinality(Given(f))
         /\ Aggregate("average", f) =
              IF Given(f) = {} THEN Null ELSE Ratio(Total(f, Given(f)), Cardinality(Given(f)))
         /\ \A a \in Decomposable :
              Aggregate(a, f) = IF Given(f) = {} THEN Null ELSE Value(a, f, Given(f))
<1> DEFINE G == {i \in DOMAIN f : f[i] # Null}
<1>1. \A a : Aggregate(a, f) =
              IF a = "count" THEN Cardinality(G)
              ELSE IF G = {} THEN Null
              ELSE CASE a = "sum"     -> Total(f, G)
                     [] a = "average" -> Ratio(Total(f, G), Cardinality(G))
                     [] a = "min"     -> Min({f[i] : i \in G})
                     [] a = "max"     -> Max({f[i] : i \in G})
  BY DEF Aggregate
<1>2. {f[i] : i \in G} = Image(f, G)
  BY DEF Image
<1>3. G = Given(f)
  BY DEF Given
<1> HIDE DEF G
<1>4. Aggregate("count", f) = Cardinality(G)
  BY <1>1
<1>5. Aggregate("average", f) = IF G = {} THEN Null ELSE Ratio(Total(f, G), Cardinality(G))
  BY <1>1
<1>6. Aggregate("sum", f) = IF G = {} THEN Null ELSE Total(f, G)
  BY <1>1
<1>7. Aggregate("min", f) = IF G = {} THEN Null ELSE Min(Image(f, G))
  BY <1>1, <1>2
<1>8. Aggregate("max", f) = IF G = {} THEN Null ELSE Max(Image(f, G))
  BY <1>1, <1>2
<1>9. ASSUME NEW a \in Decomposable
      PROVE  Aggregate(a, f) = IF G = {} THEN Null ELSE Value(a, f, G)
  <2>1. CASE a = "sum"
    BY <1>6, <2>1 DEF Value
  <2>2. CASE a = "min"
    BY <1>7, <2>2 DEF Value
  <2>3. CASE a = "max"
    BY <1>8, <2>3 DEF Value
  <2> QED BY <2>1, <2>2, <2>3 DEF Decomposable
<1> QED
  BY <1>3, <1>4, <1>5, <1>9

LEMMA ValueInt ==
  ASSUME NEW a \in Decomposable, NEW f, NEW S, IsFiniteSet(S), S # {}, Integral(f, S)
  PROVE  Value(a, f, S) \in Int
<1>1. Total(f, S) \in Int
  BY TotalInt
<1>2. IsFiniteSet(Image(f, S)) /\ Image(f, S) # {} /\ Image(f, S) \subseteq Int
  BY ImageOfIntegral
<1>3. Min(Image(f, S)) \in Int /\ Max(Image(f, S)) \in Int
  BY <1>2, MinIs, MaxIs
<1> QED
  BY <1>1, <1>3 DEF Decomposable, Value

(* A value depends only on the function over the set. *)
LEMMA ValueSame ==
  ASSUME NEW a \in Decomposable, NEW f, NEW h, NEW S, IsFiniteSet(S), \A x \in S : f[x] = h[x]
  PROVE  Value(a, f, S) = Value(a, h, S)
<1>1. Total(f, S) = Total(h, S)
  BY TotalSame
<1>2. Image(f, S) = Image(h, S)
  BY DEF Image
<1> QED
  BY <1>1, <1>2 DEF Decomposable, Value

LEMMA ValueByGroups ==
  ASSUME NEW a \in Decomposable, NEW f, NEW p, NEW S, IsFiniteSet(S), S # {}, Integral(f, S),
         NEW h, \A y \in Image(p, S) : h[y] = Value(a, f, Fibre(p, S, y))
  PROVE  Value(a, h, Image(p, S)) = Value(a, f, S)
<1>1. CASE a = "sum"
  <2>1. \A y \in Image(p, S) : h[y] = Groups(f, p, S)[y]
    BY <1>1 DEF Value, Groups
  <2>2. IsFiniteSet(Image(p, S))
    BY ImageFinite
  <2>3. Total(h, Image(p, S)) = Total(Groups(f, p, S), Image(p, S))
    BY <2>1, <2>2, TotalSame
  <2>4. Total(h, Image(p, S)) = Total(f, S)
    BY <2>3, TotalByGroups
  <2> QED BY <1>1, <2>4 DEF Value
<1>2. CASE a = "min"
  <2>1. \A y \in Image(p, S) : h[y] = Min(Image(f, Fibre(p, S, y)))
    BY <1>2 DEF Value
  <2>2. Min(Image(h, Image(p, S))) = Min(Image(f, S))
    BY <2>1, MinByGroups
  <2> QED BY <1>2, <2>2 DEF Value
<1>3. CASE a = "max"
  <2>1. \A y \in Image(p, S) : h[y] = Max(Image(f, Fibre(p, S, y)))
    BY <1>3 DEF Value
  <2>2. Max(Image(h, Image(p, S))) = Max(Image(f, S))
    BY <2>1, MaxByGroups
  <2> QED BY <1>3, <2>2 DEF Value
<1> QED
  BY <1>1, <1>2, <1>3 DEF Decomposable

Nullable(f, S) == DOMAIN f = S /\ \A x \in S : f[x] \in OrNull(Int)

LEMMA GivenFinite ==
  ASSUME NEW S, IsFiniteSet(S), NEW f, Nullable(f, S)
  PROVE  /\ Given(f) \subseteq S /\ IsFiniteSet(Given(f)) /\ Integral(f, Given(f))
         /\ Cardinality(Given(f)) \in Nat
         /\ Given(f) # {} => Cardinality(Given(f)) # 0
<1>1. Given(f) \in SUBSET S /\ Integral(f, Given(f))
  BY DEF Given, Nullable, Integral, OrNull
<1>2. IsFiniteSet(Given(f))
  BY <1>1, FS_Subset
<1> QED
  BY <1>1, <1>2, FS_CardinalityType, FS_EmptySet

(* col[u] is the aggregate of the rows p takes to u, or NULL for want of them. *)
Grouped(a, f, p, col) ==
  /\ Image(p, Given(f)) \subseteq DOMAIN col
  /\ \A u \in DOMAIN col : col[u] = IF Fibre(p, Given(f), u) = {} THEN Null
                                    ELSE Value(a, f, Fibre(p, Given(f), u))

LEMMA AggregateByGroups ==
  ASSUME NEW a \in Decomposable, NEW S, IsFiniteSet(S), NEW f, Nullable(f, S),
         NEW p, NEW U, NEW col, DOMAIN col = U, Image(p, Given(f)) \subseteq U,
         \A u \in U : col[u] = IF Fibre(p, Given(f), u) = {} THEN Null
                               ELSE Value(a, f, Fibre(p, Given(f), u))
  PROVE  Aggregate(a, col) = Aggregate(a, f)
<1> DEFINE G == Given(f)
<1>1. IsFiniteSet(G) /\ Integral(f, G)
  BY GivenFinite
<1>2. \A u : /\ IsFiniteSet(Fibre(p, G, u)) /\ Integral(f, Fibre(p, G, u))
             /\ Fibre(p, G, u) # {} <=> u \in Image(p, G)
  <2>1. \A u : Fibre(p, G, u) \subseteq G
    BY DEF Fibre
  <2>2. \A u : Integral(f, Fibre(p, G, u))
    BY <1>1, <2>1 DEF Integral
  <2>3. \A u : Fibre(p, G, u) # {} <=> u \in Image(p, G)
    BY DEF Fibre, Image
  <2>4. \A u : IsFiniteSet(Fibre(p, G, u))
    <3> HIDE DEF G
    <3> QED BY <1>1, ImageFinite
  <2> QED BY <2>2, <2>3, <2>4
<1>3. \A u \in Image(p, G) : col[u] = Value(a, f, Fibre(p, G, u)) /\ col[u] \in Int
  <2> SUFFICES ASSUME NEW u \in Image(p, G)
               PROVE  col[u] = Value(a, f, Fibre(p, G, u)) /\ col[u] \in Int
    OBVIOUS
  <2> HIDE DEF G
  <2>1. col[u] = Value(a, f, Fibre(p, G, u))
    BY <1>2 DEF G
  <2> QED BY <1>2, <2>1, ValueInt
<1>4. Given(col) = Image(p, G)
  <2>1. \A u \in U : u \in Image(p, G) <=> col[u] # Null
    BY <1>2, <1>3, NullAssumption
  <2> HIDE DEF G
  <2> QED BY <2>1 DEF G, Given
<1>5. G = {} <=> Image(p, G) = {}
  BY DEF Image
<1>6. G # {} => Value(a, col, Image(p, G)) = Value(a, f, G)
  <2> HIDE DEF G
  <2> QED BY <1>1, <1>3, ValueByGroups
<1>7. /\ Aggregate(a, col) = IF Given(col) = {} THEN Null ELSE Value(a, col, Given(col))
      /\ Aggregate(a, f) = IF G = {} THEN Null ELSE Value(a, f, G)
  BY AggregateIs
<1> HIDE DEF G
<1> QED
  BY <1>4, <1>5, <1>6, <1>7

LEMMA AggregateGrouped ==
  ASSUME NEW a \in Decomposable, NEW f, IsFiniteSet(DOMAIN f), Nullable(f, DOMAIN f),
         NEW p, NEW col, Grouped(a, f, p, col)
  PROVE  Aggregate(a, col) = Aggregate(a, f)
BY AggregateByGroups DEF Grouped

(* The counts of the groups add up, but those of no group to NULL. *)
LEMMA CountByGroups ==
  ASSUME NEW S, IsFiniteSet(S), NEW f, Nullable(f, S),
         NEW p, NEW U, NEW col, DOMAIN col = U, Image(p, S) \subseteq U,
         \A u \in U : col[u] = IF u \in Image(p, S) THEN Cardinality(Fibre(p, Given(f), u))
                                                    ELSE Null
  PROVE  Aggregate("sum", col) = IF S = {} THEN Null ELSE Cardinality(Given(f))
<1> DEFINE one == [x \in S |-> IF f[x] = Null THEN 0 ELSE 1]
           I   == Image(p, S)
<1>1. \A u : /\ IsFiniteSet(Fibre(p, S, u)) /\ Fibre(p, S, u) \subseteq S
             /\ Fibre(p, Given(f), u) = {x \in Fibre(p, S, u) : f[x] # Null}
  <2>1. \A u : IsFiniteSet(Fibre(p, S, u))
    BY ImageFinite
  <2>2. \A u : Fibre(p, S, u) \subseteq S
    BY DEF Fibre
  <2>3. \A u : Fibre(p, Given(f), u) = {x \in Fibre(p, S, u) : f[x] # Null}
    BY DEF Fibre, Given, Nullable
  <2> QED BY <2>1, <2>2, <2>3
<1>2. \A T \in SUBSET S : IsFiniteSet(T) => Total(one, T) = Cardinality({x \in T : f[x] # Null})
  <2> SUFFICES ASSUME NEW T \in SUBSET S, IsFiniteSet(T)
               PROVE  Total(one, T) = Cardinality({x \in T : f[x] # Null})
    OBVIOUS
  <2>1. \A x \in T : one[x] = IF f[x] = Null THEN 0 ELSE 1
    OBVIOUS
  <2> HIDE DEF one
  <2> QED BY <2>1, CountIsTotal
<1>3. Integral(one, S)
  BY DEF Integral
<1> HIDE DEF one
<1>4. \A u \in I : col[u] = Groups(one, p, S)[u]
  <2> SUFFICES ASSUME NEW u \in I PROVE col[u] = Groups(one, p, S)[u]
    OBVIOUS
  <2>1. Total(one, Fibre(p, S, u)) = Cardinality(Fibre(p, Given(f), u))
    BY <1>1, <1>2
  <2> QED BY <2>1 DEF Groups
<1>5. IsFiniteSet(I)
  BY ImageFinite
<1>6. \A u \in I : col[u] \in Int
  <2> SUFFICES ASSUME NEW u \in I PROVE col[u] \in Int
    OBVIOUS
  <2>1. IsFiniteSet(Given(f))
    BY GivenFinite
  <2>2. IsFiniteSet(Fibre(p, Given(f), u))
    BY <2>1, ImageFinite
  <2>3. Cardinality(Fibre(p, Given(f), u)) \in Nat
    BY <2>2, FS_CardinalityType
  <2> QED BY <2>3
<1>7. Given(col) = I
  BY <1>6, NullAssumption DEF Given
<1>8. S = {} <=> I = {}
  BY DEF Image
<1>9. Total(col, I) = Total(one, S)
  <2>1. Total(col, I) = Total(Groups(one, p, S), I)
    <3> HIDE DEF I
    <3> QED BY <1>4, <1>5, TotalSame
  <2> QED BY <1>3, <2>1, TotalByGroups
<1>10. Total(one, S) = Cardinality(Given(f))
  <2>1. Given(f) = {x \in S : f[x] # Null}
    BY DEF Given, Nullable
  <2>2. S \in SUBSET S
    OBVIOUS
  <2> QED BY <1>2, <2>1, <2>2
<1>11. Aggregate("sum", col) = IF Given(col) = {} THEN Null ELSE Total(col, Given(col))
  BY AggregateIs DEF Decomposable, Value
<1> HIDE DEF I
<1> QED
  BY <1>7, <1>8, <1>9, <1>10, <1>11

(***************************************************************************)
(* JOINS.  Which rows FROM puts together depends on the keys alone: on     *)
(* those the base fact and the other fact have, and on the link's.         *)
(***************************************************************************)
Tables ==
  /\ base \in [Row -> 0..MaxRows] /\ link \in Links /\ other \in [Key -> 0..MaxOthers]
  /\ types \in JoinType \X JoinType /\ agg \in Aggregation /\ grain \in SUBSET {"base", "link"}

Outer(type) == type \in {"left", "full"}

(* b, of a fact with the keys KB, and l are together in base JOIN link. *)
Met(KB, b, l) ==
  \/ b # Null /\ l # Null /\ b[1] = l[1]
  \/ b # Null /\ l = Null /\ Outer(types[1]) /\ b[1] \notin DOMAIN link
  \/ b = Null /\ l # Null /\ types[1] = "full" /\ l[1] \notin KB

(* The link's row with key k is in base JOIN link. *)
Kept(KB, k) == k \in DOMAIN link /\ (k \in KB \/ types[1] = "full")

(* b, l and o, of a fact with the keys KO, are together in FROM. *)
Together(KB, KO, b, l, o) ==
  \/ Met(KB, b, l) /\ o # Null /\ l # Null /\ l[1] = o[1]
  \/ Met(KB, b, l) /\ o = Null /\ Outer(types[2]) /\ (l = Null \/ l[1] \notin KO)
  \/ b = Null /\ l = Null /\ o # Null /\ types[2] = "full" /\ ~ Kept(KB, o[1])

BaseJoin(B) == Join(B, LinkRows, {m \in B \X LinkRows : m[1][1] = m[2][1]}, types[1])

(* Rows of two facts, or of their CTEs. *)
Facts(B, O) == B \subseteq BaseRow \cup CteRow /\ O \subseteq OtherRow \cup CteRow

LEMMA RowsAreNotNull ==
  ASSUME Tables, NEW B, NEW O, Facts(B, O)
  PROVE  /\ Null \notin B /\ Null \notin O
         /\ LinkRows \subseteq LinkRow /\ Null \notin LinkRows
         /\ \A x \in OrNull(B) \X OrNull(LinkRows) : x # Null
<1>1. LinkRows \subseteq LinkRow
  BY LinksAssumption DEF Tables, LinkRows, LinkRow
<1>2. Null \notin B /\ Null \notin O /\ Null \notin LinkRows
  BY <1>1, NullAssumption DEF Facts
<1>3. OrNull(B) \X OrNull(LinkRows) \subseteq OrNull(BaseRow \cup CteRow) \X OrNull(LinkRow)
  BY <1>1 DEF Facts, OrNull
<1> QED
  BY <1>1, <1>2, <1>3, NullAssumption

LEMMA LinkRowsAre ==
  /\ \A l \in LinkRows : l = <<l[1], link[l[1]]>> /\ l[1] \in DOMAIN link /\ l[2] = link[l[1]]
  /\ \A k \in DOMAIN link : <<k, link[k]>> \in LinkRows /\ <<k, link[k]>>[1] = k
BY DEF LinkRows

LEMMA BaseJoinIs ==
  ASSUME Tables, NEW B, NEW O, Facts(B, O)
  PROVE  /\ BaseJoin(B) \subseteq OrNull(B) \X OrNull(LinkRows)
         /\ \A b \in OrNull(B), l \in OrNull(LinkRows) :
              <<b, l>> \in BaseJoin(B) <=> Met(GroupKeys(B), b, l)
<1> DEFINE L == LinkRows
           M == {m \in B \X L : m[1][1] = m[2][1]}
           aloneB == {b \in B : \A l \in L : <<b, l>> \notin M}
           aloneL == {l \in L : \A b \in B : <<b, l>> \notin M}
           onlyB  == {<<b, Null>> : b \in IF Outer(types[1]) THEN aloneB ELSE {}}
           onlyL  == {<<Null, l>> : l \in IF types[1] = "full" THEN aloneL ELSE {}}
<1>1. BaseJoin(B) = M \cup onlyB \cup onlyL
  BY DEF BaseJoin, Join, Outer
<1>2. Null \notin B /\ Null \notin L
  BY RowsAreNotNull
<1>3. \A b \in B, l \in L : <<b, l>> \in M <=> b[1] = l[1]
  OBVIOUS
<1>4. \A b \in B : b \in aloneB <=> b[1] \notin DOMAIN link
  <2> SUFFICES ASSUME NEW b \in B PROVE b \in aloneB <=> b[1] \notin DOMAIN link
    OBVIOUS
  <2>1. (\E l \in L : b[1] = l[1]) <=> b[1] \in DOMAIN link
    BY LinkRowsAre
  <2> HIDE DEF M
  <2> QED BY <1>3, <2>1
<1>5. \A l \in L : l \in aloneL <=> l[1] \notin GroupKeys(B)
  <2>1. \A l \in L : (\E b \in B : b[1] = l[1]) <=> l[1] \in GroupKeys(B)
    BY DEF GroupKeys
  <2> HIDE DEF M, L
  <2> QED BY <1>3, <2>1
<1>6. aloneB \subseteq B /\ aloneL \subseteq L /\ M \subseteq B \X L
  OBVIOUS
<1> HIDE DEF M, aloneB, aloneL, L
<1>7. BaseJoin(B) \subseteq OrNull(B) \X OrNull(L)
  BY <1>1, <1>6 DEF OrNull
<1>8. ASSUME NEW b \in OrNull(B), NEW l \in OrNull(L)
      PROVE  <<b, l>> \in BaseJoin(B) <=> Met(GroupKeys(B), b, l)
  <2>1. <<b, l>> \in onlyB <=> l = Null /\ Outer(types[1]) /\ b \in aloneB
    OBVIOUS
  <2>2. <<b, l>> \in onlyL <=> b = Null /\ types[1] = "full" /\ l \in aloneL
    OBVIOUS
  <2>3. <<b, l>> \in M <=> b \in B /\ l \in L /\ b[1] = l[1]
    BY <1>3, <1>6
  <2>4. (b \in B <=> b # Null) /\ (l \in L <=> l # Null)
    BY <1>2, <1>8 DEF OrNull
  <2> HIDE DEF onlyB, onlyL
  <2>5. <<b, l>> \in BaseJoin(B) <=> <<b, l>> \in M \/ <<b, l>> \in onlyB \/ <<b, l>> \in onlyL
    BY <1>1
  <2>6. b \in aloneB <=> b \in B /\ b[1] \notin DOMAIN link
    BY <1>4, <1>6
  <2>7. l \in aloneL <=> l \in L /\ l[1] \notin GroupKeys(B)
    BY <1>5, <1>6
  <2> QED
    BY <2>1, <2>2, <2>3, <2>4, <2>5, <2>6, <2>7, Zenon DEF Met
<1> QED
  BY <1>7, <1>8 DEF L

LEMMA FromIs ==
  ASSUME Tables, NEW B, NEW O, Facts(B, O)
  PROVE  /\ From(B, O) \subseteq OrNull(B) \X OrNull(LinkRows) \X OrNull(O)
         /\ \A b \in OrNull(B), l \in OrNull(LinkRows), o \in OrNull(O) :
              <<b, l, o>> \in From(B, O) <=> Together(GroupKeys(B), GroupKeys(O), b, l, o)
<1> DEFINE L      == LinkRows
           F      == BaseJoin(B)
           linked == {m \in F \X O : m[1][2] # Null /\ m[1][2][1] = m[2][1]}
           aloneF == {x \in F : \A o \in O : <<x, o>> \notin linked}
           aloneO == {o \in O : \A x \in F : <<x, o>> \notin linked}
           onlyF  == {<<x, Null>> : x \in IF Outer(types[2]) THEN aloneF ELSE {}}
           onlyO  == {<<Null, o>> : o \in IF types[2] = "full" THEN aloneO ELSE {}}
           second == linked \cup onlyF \cup onlyO
           LeftOf(q) == IF q[1] = Null THEN <<Null, Null>> ELSE q[1]
<1>1. From(B, O) = {<<LeftOf(q)[1], LeftOf(q)[2], q[2]>> : q \in second}
  BY Zenon DEF From, Join, BaseJoin, Outer
<1>2. /\ Null \notin B /\ Null \notin O /\ Null \notin L
      /\ \A x \in OrNull(B) \X OrNull(L) : x # Null
  BY RowsAreNotNull
<1>3. /\ F \subseteq OrNull(B) \X OrNull(L)
      /\ \A b \in OrNull(B), l \in OrNull(L) : <<b, l>> \in F <=> Met(GroupKeys(B), b, l)
  BY BaseJoinIs
<1>4. ~ \E l : Met(GroupKeys(B), Null, Null)
  BY DEF Met
<1> HIDE DEF L, F
<1>5. \A x \in F, o \in O : <<x, o>> \in linked <=> x[2] # Null /\ x[2][1] = o[1]
  OBVIOUS
<1>6. ASSUME NEW x \in F
      PROVE  x \in aloneF <=> x[2] = Null \/ x[2][1] \notin GroupKeys(O)
  <2>1. (\E o \in O : x[2][1] = o[1]) <=> x[2][1] \in GroupKeys(O)
    BY DEF GroupKeys
  <2> HIDE DEF linked
  <2> QED BY <1>5, <2>1
<1>7. ASSUME NEW o \in O
      PROVE  o \in aloneO <=> ~ Kept(GroupKeys(B), o[1])
  <2>1. ASSUME NEW x \in F, x[2] # Null, x[2][1] = o[1]
        PROVE  Kept(GroupKeys(B), o[1])
    <3>1. x = <<x[1], x[2]>> /\ x[1] \in OrNull(B) /\ x[2] \in L
      BY <1>3, <2>1 DEF OrNull
    <3>2. Met(GroupKeys(B), x[1], x[2])
      BY <1>3, <3>1 DEF OrNull
    <3>3. o[1] \in DOMAIN link
      BY <2>1, <3>1, LinkRowsAre DEF L
    <3>4. x[1] # Null => x[1][1] \in GroupKeys(B)
      BY <3>1 DEF OrNull, GroupKeys
    <3> QED
      BY <2>1, <3>2, <3>3, <3>4 DEF Met, Kept
  <2>2. ASSUME Kept(GroupKeys(B), o[1])
        PROVE  \E x \in F : x[2] # Null /\ x[2][1] = o[1]
    <3> DEFINE l == <<o[1], link[o[1]]>>
    <3>1. l \in L /\ l[1] = o[1] /\ l # Null
      BY <1>2, <2>2, LinkRowsAre DEF L, Kept
    <3> HIDE DEF l
    <3>2. CASE o[1] \in GroupKeys(B)
      <4>1. PICK b \in B : b[1] = o[1]
        BY <3>2 DEF GroupKeys
      <4>2. b # Null
        BY <1>2
      <4>3. Met(GroupKeys(B), b, l)
        BY <3>1, <4>1, <4>2 DEF Met
      <4>4. <<b, l>> \in F
        BY <1>3, <3>1, <4>3 DEF OrNull
      <4> QED BY <3>1, <4>4
    <3>3. CASE o[1] \notin GroupKeys(B)
      <4>1. Met(GroupKeys(B), Null, l)
        BY <2>2, <3>1, <3>3 DEF Met, Kept
      <4>2. <<Null, l>> \in F
        BY <1>3, <3>1, <4>1 DEF OrNull
      <4> QED BY <3>1, <4>2
    <3> QED BY <3>2, <3>3
  <2>3. (\E x \in F : <<x, o>> \in linked) <=> Kept(GroupKeys(B), o[1])
    <3> HIDE DEF linked
    <3> QED BY <1>5, <2>1, <2>2
  <2> HIDE DEF linked
  <2> QED BY <2>3
<1>8. linked \subseteq F \X O /\ aloneF \subseteq F /\ aloneO \subseteq O
  OBVIOUS
<1> HIDE DEF linked, aloneF, aloneO
<1>9. \A x \in F : x = <<x[1], x[2]>> /\ x # Null /\ x[1] \in OrNull(B) /\ x[2] \in OrNull(L)
  BY <1>2, <1>3
<1>10. \A q \in second : \/ q \in linked /\ q[1] \in F /\ q[2] \in O /\ q = <<q[1], q[2]>>
                         \/ q \in onlyF /\ q[1] \in aloneF /\ q[2] = Null /\ Outer(types[2])
                         \/ q \in onlyO /\ q[1] = Null /\ q[2] \in aloneO /\ types[2] = "full"
  BY <1>8
<1>11. ASSUME NEW q \in second
       PROVE  \E b \in OrNull(B), l \in OrNull(L), o \in OrNull(O) :
                /\ <<LeftOf(q)[1], LeftOf(q)[2], q[2]>> = <<b, l, o>>
                /\ Together(GroupKeys(B), GroupKeys(O), b, l, o)
  <2> HIDE DEF second, onlyF, onlyO
  <2>1. CASE q \in linked /\ q[1] \in F /\ q[2] \in O /\ q = <<q[1], q[2]>>
    <3> DEFINE b == q[1][1]
               l == q[1][2]
               o == q[2]
    <3>1. <<LeftOf(q)[1], LeftOf(q)[2], q[2]>> = <<b, l, o>>
      BY <1>9, <2>1
    <3>2. b \in OrNull(B) /\ l \in OrNull(L) /\ o \in OrNull(O) /\ o # Null /\ <<b, l>> \in F
      BY <1>2, <1>9, <2>1 DEF OrNull
    <3>3. l # Null /\ l[1] = o[1]
      BY <1>5, <2>1
    <3>4. Met(GroupKeys(B), b, l)
      BY <1>3, <3>2
    <3> HIDE DEF b, l, o
    <3> QED BY <3>1, <3>2, <3>3, <3>4 DEF Together
  <2>2. CASE q[1] \in aloneF /\ q[2] = Null /\ Outer(types[2])
    <3> DEFINE b == q[1][1]
               l == q[1][2]
    <3>0. q[1] \in F
      BY <1>8, <2>2
    <3>1. <<LeftOf(q)[1], LeftOf(q)[2], q[2]>> = <<b, l, Null>>
      BY <1>9, <2>2, <3>0
    <3>2. b \in OrNull(B) /\ l \in OrNull(L) /\ Null \in OrNull(O) /\ <<b, l>> \in F
      BY <1>9, <3>0 DEF OrNull
    <3>3. l = Null \/ l[1] \notin GroupKeys(O)
      BY <1>6, <2>2, <3>0
    <3>4. Met(GroupKeys(B), b, l)
      BY <1>3, <3>2
    <3> HIDE DEF b, l
    <3> QED BY <2>2, <3>1, <3>2, <3>3, <3>4 DEF Together
  <2>3. CASE q[1] = Null /\ q[2] \in aloneO /\ types[2] = "full"
    <3> DEFINE o == q[2]
    <3>1. <<LeftOf(q)[1], LeftOf(q)[2], q[2]>> = <<Null, Null, o>>
      BY <2>3
    <3>2. o \in O /\ o # Null /\ ~ Kept(GroupKeys(B), o[1])
      BY <1>2, <1>7, <1>8, <2>3
    <3>3. Null \in OrNull(B) /\ Null \in OrNull(L) /\ o \in OrNull(O)
      BY <3>2 DEF OrNull
    <3> HIDE DEF o
    <3> QED BY <2>3, <3>1, <3>2, <3>3 DEF Together
  <2> QED BY <1>10, <2>1, <2>2, <2>3
<1>12. ASSUME NEW b \in OrNull(B), NEW l \in OrNull(L), NEW o \in OrNull(O),
              Together(GroupKeys(B), GroupKeys(O), b, l, o)
       PROVE  \E q \in second : <<LeftOf(q)[1], LeftOf(q)[2], q[2]>> = <<b, l, o>>
  <2>1. CASE Met(GroupKeys(B), b, l) /\ o # Null /\ l # Null /\ l[1] = o[1]
    <3>1. <<b, l>> \in F /\ <<b, l>> # Null /\ o \in O
      BY <1>3, <1>9, <2>1 DEF OrNull
    <3>2. <<<<b, l>>, o>> \in linked
      BY <1>5, <2>1, <3>1
    <3>3. <<<<b, l>>, o>> \in second
      BY <3>2
    <3>4. LET q == <<<<b, l>>, o>> IN <<LeftOf(q)[1], LeftOf(q)[2], q[2]>> = <<b, l, o>>
      BY <3>1
    <3> HIDE DEF second
    <3> QED BY <3>3, <3>4
  <2>2. CASE Met(GroupKeys(B), b, l) /\ o = Null /\ Outer(types[2]) /\ (l = Null \/ l[1] \notin GroupKeys(O))
    <3>1. <<b, l>> \in F /\ <<b, l>> # Null
      BY <1>3, <1>9, <2>2
    <3>2. <<b, l>> \in aloneF
      BY <1>6, <2>2, <3>1
    <3>3. <<<<b, l>>, Null>> \in second
      BY <2>2, <3>2
    <3>4. LET q == <<<<b, l>>, Null>> IN <<LeftOf(q)[1], LeftOf(q)[2], q[2]>> = <<b, l, o>>
      BY <2>2, <3>1
    <3> HIDE DEF second
    <3> QED BY <3>3, <3>4
  <2>3. CASE b = Null /\ l = Null /\ o # Null /\ types[2] = "full" /\ ~ Kept(GroupKeys(B), o[1])
    <3>1. o \in aloneO
      BY <1>7, <2>3 DEF OrNull
    <3>2. <<Null, o>> \in second
      BY <2>3, <3>1
    <3>3. LET q == <<Null, o>> IN <<LeftOf(q)[1], LeftOf(q)[2], q[2]>> = <<b, l, o>>
      BY <2>3
    <3> HIDE DEF second
    <3> QED BY <3>2, <3>3
  <2> QED BY <1>12, <2>1, <2>2, <2>3 DEF Together
<1> HIDE DEF second
<1>13. \A t : t \in From(B, O) <=>
          \E b \in OrNull(B), l \in OrNull(L), o \in OrNull(O) :
            t = <<b, l, o>> /\ Together(GroupKeys(B), GroupKeys(O), b, l, o)
  <2>1. \A t \in From(B, O) :
          \E b \in OrNull(B), l \in OrNull(L), o \in OrNull(O) :
            t = <<b, l, o>> /\ Together(GroupKeys(B), GroupKeys(O), b, l, o)
    <3> SUFFICES ASSUME NEW q \in second
                 PROVE  \E b \in OrNull(B), l \in OrNull(L), o \in OrNull(O) :
                          /\ <<LeftOf(q)[1], LeftOf(q)[2], q[2]>> = <<b, l, o>>
                          /\ Together(GroupKeys(B), GroupKeys(O), b, l, o)
      BY <1>1
    <3> QED BY <1>11
  <2>2. \A b \in OrNull(B), l \in OrNull(L), o \in OrNull(O) :
          Together(GroupKeys(B), GroupKeys(O), b, l, o) => <<b, l, o>> \in From(B, O)
    <3> SUFFICES ASSUME NEW b \in OrNull(B), NEW l \in OrNull(L), NEW o \in OrNull(O),
                        Together(GroupKeys(B), GroupKeys(O), b, l, o)
                 PROVE  <<b, l, o>> \in From(B, O)
      OBVIOUS
    <3>1. PICK q \in second : <<LeftOf(q)[1], LeftOf(q)[2], q[2]>> = <<b, l, o>>
      BY <1>12
    <3> QED BY <1>1, <3>1
  <2> QED BY <2>1, <2>2
<1> QED
  BY <1>13 DEF L

(***************************************************************************)
(* The rewritten query's FROM is that of the facts, each row replaced by   *)
(* the row of the CTE it was grouped into.                                 *)
(***************************************************************************)
CteTable  == {<<k>> : k \in GroupKeys(BaseRows)}
CteJoined == From(CteTable, OtherCteRows)

CteOf(x)    == IF x = Null THEN Null ELSE <<x[1]>>
Collapse(t) == <<CteOf(t[1]), t[2], CteOf(t[3])>>

LEMMA FactsAre ==
  ASSUME Tables
  PROVE  /\ Facts(BaseRows, OtherRows) /\ Facts(CteTable, OtherCteRows)
         /\ GroupKeys(CteTable) = GroupKeys(BaseRows)
         /\ GroupKeys(OtherCteRows) = GroupKeys(OtherRows)
         /\ \A b \in BaseRows : b[2] \in OrNull(Int)
<1>1. ASSUME NEW b \in BaseRows
      PROVE  b \in BaseRow /\ b[1] \in OrNull(Key) /\ b[2] \in OrNull(Int)
  <2>1. PICK r \in Row : \E n \in 1..base[r] : b = <<r[1], r[2], n>>
    BY DEF BaseRows
  <2>2. PICK n \in 1..base[r] : b = <<r[1], r[2], n>>
    BY <2>1
  <2>3. n \in 1..MaxRows
    BY BoundsAssumption DEF Tables
  <2>4. b \in BaseRow
    BY <2>2, <2>3 DEF BaseRow
  <2> QED BY <2>2, <2>4, RowAssumption
<1>2. ASSUME NEW o \in OtherRows
      PROVE  o \in OtherRow /\ o[1] \in Key
  <2>1. PICK k \in Key : \E n \in 1..other[k] : o = <<k, n>>
    BY DEF OtherRows
  <2>2. PICK n \in 1..other[k] : o = <<k, n>>
    BY <2>1
  <2>3. n \in 1..MaxOthers
    BY BoundsAssumption DEF Tables
  <2> QED BY <2>2, <2>3 DEF OtherRow
<1>3. GroupKeys(BaseRows) \subseteq OrNull(Key) /\ GroupKeys(OtherRows) \subseteq OrNull(Key)
  BY <1>1, <1>2 DEF GroupKeys, OrNull
<1>4. ASSUME NEW K PROVE GroupKeys({<<k>> : k \in K}) = K
  <2> DEFINE T == {<<k>> : k \in K}
  <2>1. \A k \in K : <<k>> \in T /\ <<k>>[1] = k
    OBVIOUS
  <2>2. \A t \in T : t[1] \in K
    OBVIOUS
  <2> HIDE DEF T
  <2>3. GroupKeys(T) \subseteq K
    BY <2>2 DEF GroupKeys
  <2>4. \A k \in K : \E t \in T : t[1] = k
    BY <2>1
  <2>5. K \subseteq GroupKeys(T)
    BY <2>4 DEF GroupKeys
  <2> QED BY <2>3, <2>5 DEF T
<1>5. CteTable \subseteq CteRow /\ OtherCteRows \subseteq CteRow
  BY <1>3 DEF CteTable, OtherCteRows, CteRow
<1>6. Facts(BaseRows, OtherRows) /\ Facts(CteTable, OtherCteRows)
  BY <1>1, <1>2, <1>5 DEF Facts
<1>7. GroupKeys(CteTable) = GroupKeys(BaseRows)
  BY <1>4 DEF CteTable
<1>8. GroupKeys(OtherCteRows) = GroupKeys(OtherRows)
  BY <1>4 DEF OtherCteRows
<1> QED
  BY <1>1, <1>6, <1>7, <1>8

LEMMA BaseRowsFinite ==
  ASSUME Tables
  PROVE  IsFiniteSet(BaseRows)
<1> DEFINE of(r) == [n \in 1..base[r] |-> <<r[1], r[2], n>>]
           R(r)  == Image(of(r), 1..base[r])
           F     == [r \in Row |-> R(r)]
<1>1. \A r \in Row : R(r) = {<<r[1], r[2], n>> : n \in 1..base[r]}
  BY DEF Image
<1>2. \A r \in Row : IsFiniteSet(R(r))
  <2> SUFFICES ASSUME NEW r \in Row PROVE IsFiniteSet(R(r))
    OBVIOUS
  <2>1. 0 \in Int /\ 1 \in Int /\ base[r] \in Int
    BY BoundsAssumption DEF Tables
  <2>2. IsFiniteSet(1..base[r])
    BY <2>1, FS_Interval
  <2> HIDE DEF of
  <2> QED BY <2>2, ImageFinite
<1>3. IsFiniteSet(Image(F, Row)) /\ Image(F, Row) = {R(r) : r \in Row}
  <2>1. IsFiniteSet(Image(F, Row))
    <3> HIDE DEF F
    <3> QED BY RowAssumption, ImageFinite
  <2> HIDE DEF R
  <2> QED BY <2>1 DEF Image
<1> HIDE DEF F, R
<1>4. \A T \in Image(F, Row) : IsFiniteSet(T)
  BY <1>2, <1>3
<1>5. IsFiniteSet(UNION Image(F, Row))
  BY <1>3, <1>4, FS_UNION
<1>6. BaseRows = UNION {R(r) : r \in Row}
  BY <1>1 DEF BaseRows
<1> QED
  BY <1>3, <1>5, <1>6

(* What is together depends on the keys, which a row shares with its CTE's. *)
LEMMA TogetherByKey ==
  ASSUME NEW KB, NEW KO, NEW b, NEW l, NEW o, CteOf(b) = Null <=> b = Null,
         CteOf(o) = Null <=> o = Null
  PROVE  Together(KB, KO, CteOf(b), l, CteOf(o)) <=> Together(KB, KO, b, l, o)
BY DEF Together, Met, CteOf

LEMMA CteRows ==
  ASSUME Tables
  PROVE  /\ \A b \in OrNull(BaseRows) : CteOf(b) \in OrNull(CteTable) /\ (CteOf(b) = Null <=> b = Null)
         /\ \A o \in OrNull(OtherRows) :
              CteOf(o) \in OrNull(OtherCteRows) /\ (CteOf(o) = Null <=> o = Null)
         /\ \A c \in CteTable : \E b \in BaseRows : CteOf(b) = c
         /\ \A c \in OtherCteRows : \E o \in OtherRows : CteOf(o) = c
<1>1. /\ Null \notin BaseRows /\ Null \notin OtherRows
      /\ Null \notin CteTable /\ Null \notin OtherCteRows
  BY FactsAre, RowsAreNotNull
<1>2. \A b \in BaseRows : <<b[1]>> \in CteTable
  BY DEF CteTable, GroupKeys
<1>3. \A o \in OtherRows : <<o[1]>> \in OtherCteRows
  BY DEF OtherCteRows, GroupKeys
<1>4. \A c \in CteTable : \E b \in BaseRows : c = <<b[1]>>
  BY DEF CteTable, GroupKeys
<1>5. \A c \in OtherCteRows : \E o \in OtherRows : c = <<o[1]>>
  BY DEF OtherCteRows, GroupKeys
<1> QED
  BY <1>1, <1>2, <1>3, <1>4, <1>5 DEF CteOf, OrNull

LEMMA JoinedAre ==
  ASSUME Tables
  PROVE  /\ RawJoined \subseteq OrNull(BaseRows) \X OrNull(LinkRows) \X OrNull(OtherRows)
         /\ \A b \in OrNull(BaseRows), l \in OrNull(LinkRows), o \in OrNull(OtherRows) :
              <<b, l, o>> \in RawJoined
                <=> Together(GroupKeys(BaseRows), GroupKeys(OtherRows), b, l, o)
         /\ CteJoined \subseteq OrNull(CteTable) \X OrNull(LinkRows) \X OrNull(OtherCteRows)
         /\ \A b \in OrNull(CteTable), l \in OrNull(LinkRows), o \in OrNull(OtherCteRows) :
              <<b, l, o>> \in CteJoined
                <=> Together(GroupKeys(BaseRows), GroupKeys(OtherRows), b, l, o)
<1>1. /\ RawJoined \subseteq OrNull(BaseRows) \X OrNull(LinkRows) \X OrNull(OtherRows)
      /\ \A b \in OrNull(BaseRows), l \in OrNull(LinkRows), o \in OrNull(OtherRows) :
           <<b, l, o>> \in RawJoined
             <=> Together(GroupKeys(BaseRows), GroupKeys(OtherRows), b, l, o)
  BY FactsAre, FromIs DEF RawJoined
<1>2. /\ CteJoined \subseteq OrNull(CteTable) \X OrNull(LinkRows) \X OrNull(OtherCteRows)
      /\ \A b \in OrNull(CteTable), l \in OrNull(LinkRows), o \in OrNull(OtherCteRows) :
           <<b, l, o>> \in CteJoined
             <=> Together(GroupKeys(CteTable), GroupKeys(OtherCteRows), b, l, o)
  BY FactsAre, FromIs DEF CteJoined
<1> QED
  BY <1>1, <1>2, FactsAre

LEMMA CollapseJoins ==
  ASSUME Tables, NEW t \in RawJoined
  PROVE  Collapse(t) \in CteJoined
<1> DEFINE b == t[1]
           l == t[2]
           o == t[3]
<1>1. t = <<b, l, o>> /\ b \in OrNull(BaseRows) /\ l \in OrNull(LinkRows) /\ o \in OrNull(OtherRows)
  BY JoinedAre
<1> HIDE DEF b, l, o
<1>2. Together(GroupKeys(BaseRows), GroupKeys(OtherRows), b, l, o)
  BY <1>1, JoinedAre
<1>3. /\ CteOf(b) \in OrNull(CteTable) /\ CteOf(o) \in OrNull(OtherCteRows)
      /\ Together(GroupKeys(BaseRows), GroupKeys(OtherRows), CteOf(b), l, CteOf(o))
  BY <1>1, <1>2, CteRows, TogetherByKey
<1>4. <<CteOf(b), l, CteOf(o)>> \in CteJoined
  BY <1>1, <1>3, JoinedAre
<1> QED
  BY <1>4 DEF Collapse, b, l, o

(* Every row of the CTE stands for all the rows grouped into it. *)
LEMMA CollapseCovers ==
  ASSUME Tables, NEW u \in CteJoined
  PROVE  /\ u[1] # Null =>
              \A b \in BaseRows : CteOf(b) = u[1] => \E t \in RawJoined : t[1] = b /\ Collapse(t) = u
         /\ \E t \in RawJoined : Collapse(t) = u
<1> DEFINE c == u[1]
           l == u[2]
           d == u[3]
<1>1. u = <<c, l, d>> /\ c \in OrNull(CteTable) /\ l \in OrNull(LinkRows) /\ d \in OrNull(OtherCteRows)
  BY JoinedAre
<1> HIDE DEF c, l, d
<1>2. Together(GroupKeys(BaseRows), GroupKeys(OtherRows), c, l, d)
  BY <1>1, JoinedAre
<1>3. PICK o \in OrNull(OtherRows) : CteOf(o) = d
  BY <1>1, CteRows DEF OrNull, CteOf
<1>4. ASSUME NEW b \in OrNull(BaseRows), CteOf(b) = c
      PROVE  <<b, l, o>> \in RawJoined /\ <<b, l, o>>[1] = b /\ Collapse(<<b, l, o>>) = u
  <2>1. Together(GroupKeys(BaseRows), GroupKeys(OtherRows), b, l, o)
    BY <1>2, <1>3, <1>4, CteRows, TogetherByKey
  <2> QED BY <1>1, <1>3, <1>4, <2>1, JoinedAre DEF Collapse
<1>5. \E b \in OrNull(BaseRows) : CteOf(b) = c
  BY <1>1, CteRows DEF OrNull, CteOf
<1>6. BaseRows \subseteq OrNull(BaseRows)
  BY DEF OrNull
<1> QED
  BY <1>4, <1>5, <1>6 DEF c

(* A row of the base's CTE is joined once. *)
LEMMA JoinedOnce ==
  ASSUME Tables, NEW u \in CteJoined, NEW v \in CteJoined, u[1] = v[1], u[1] # Null
  PROVE  u = v
<1> DEFINE KB == GroupKeys(BaseRows)
           KO == GroupKeys(OtherRows)
           b == u[1]
<1>1. /\ u = <<b, u[2], u[3]>> /\ v = <<b, v[2], v[3]>>
      /\ b \in OrNull(CteTable)
      /\ u[2] \in OrNull(LinkRows) /\ v[2] \in OrNull(LinkRows)
      /\ u[3] \in OrNull(OtherCteRows) /\ v[3] \in OrNull(OtherCteRows)
  BY JoinedAre
<1>2. Together(KB, KO, b, u[2], u[3]) /\ Together(KB, KO, b, v[2], v[3])
  BY <1>1, JoinedAre
<1> HIDE DEF KB
<1>3. Met(KB, b, u[2]) /\ Met(KB, b, v[2])
  BY <1>2 DEF Together
<1>4. \A l \in OrNull(LinkRows) : Met(KB, b, l) =>
        l = IF b[1] \in DOMAIN link THEN <<b[1], link[b[1]]>> ELSE Null
  BY LinkRowsAre DEF Met, OrNull
<1>5. u[2] = v[2]
  BY <1>1, <1>3, <1>4
<1>6. \A o \in OtherCteRows : o = <<o[1]>> /\ o[1] \in KO
  BY DEF OtherCteRows
<1> HIDE DEF KO, b
<1>7. \A l, o : o \in OrNull(OtherCteRows) /\ Together(KB, KO, b, l, o) =>
        o = IF l # Null /\ l[1] \in KO THEN <<l[1]>> ELSE Null
  BY <1>6 DEF Together, OrNull, b
<1>8. u[3] = v[3]
  BY <1>1, <1>2, <1>5, <1>7
<1> QED
  BY <1>1, <1>5, <1>8

LEMMA GroupCollapses ==
  ASSUME Tables, NEW t \in RawJoined
  PROVE  Group(Collapse(t)) = Group(t)
<1>1. t[1] \in OrNull(BaseRows) /\ t[3] \in OrNull(OtherRows)
  BY JoinedAre
<1>2. \A x : (CteOf(x) = Null <=> x = Null) => Of(CteOf(x), 1) = Of(x, 1)
  BY DEF Of, CteOf
<1>3. Of(CteOf(t[1]), 1) = Of(t[1], 1) /\ Of(CteOf(t[3]), 1) = Of(t[3], 1)
  BY <1>1, <1>2, CteRows
<1>4. Collapse(t)[1] = CteOf(t[1]) /\ Collapse(t)[2] = t[2] /\ Collapse(t)[3] = CteOf(t[3])
  BY DEF Collapse
<1> QED
  BY <1>3, <1>4 DEF Group

(***************************************************************************)
(* THE REWRITE.  The rows of a group are those whose CTE row is in it, and *)
(* each is in one tuple of the group.                                      *)
(***************************************************************************)
Measured(S)    == [b \in S |-> b[2]]
RowsOf(k)      == {r \in BaseRows : r[1] = k}
GroupJoined(g) == {u \in CteJoined : Group(u) = g}
TupleOf(g)     == [b \in RowsIn(g) |-> CHOOSE u \in GroupJoined(g) : u[1] = CteOf(b)]

LEMMA SameGroups ==
  ASSUME Tables
  PROVE  {Group(t) : t \in CteJoined} = {Group(t) : t \in RawJoined}
<1>1. \A t \in RawJoined : Collapse(t) \in CteJoined /\ Group(Collapse(t)) = Group(t)
  BY CollapseJoins, GroupCollapses
<1>2. \A u \in CteJoined : \E t \in RawJoined : Group(t) = Group(u)
  BY CollapseCovers, GroupCollapses
<1>3. {Group(t) : t \in CteJoined} \subseteq {Group(t) : t \in RawJoined}
  BY <1>2
<1>4. {Group(t) : t \in RawJoined} \subseteq {Group(t) : t \in CteJoined}
  <2> SUFFICES ASSUME NEW t \in RawJoined PROVE Group(t) \in {Group(u) : u \in CteJoined}
    OBVIOUS
  <2>1. Collapse(t) \in CteJoined /\ Group(Collapse(t)) = Group(t)
    BY <1>1
  <2> QED BY <2>1
<1> QED
  BY <1>3, <1>4

LEMMA RowsInAre ==
  ASSUME Tables, NEW g
  PROVE  RowsIn(g) = {b \in BaseRows : \E u \in GroupJoined(g) : u[1] = CteOf(b)}
<1>1. Null \notin BaseRows
  BY FactsAre, RowsAreNotNull
<1>2. ASSUME NEW b \in RowsIn(g)
      PROVE  b \in BaseRows /\ \E u \in GroupJoined(g) : u[1] = CteOf(b)
  <2>1. PICK t \in RawJoined : Group(t) = g /\ t[1] = b /\ b # Null
    BY DEF RowsIn
  <2>2. b \in BaseRows
    BY <2>1, JoinedAre DEF OrNull
  <2>3. Collapse(t) \in GroupJoined(g)
    BY <2>1, CollapseJoins, GroupCollapses DEF GroupJoined
  <2>4. Collapse(t)[1] = CteOf(b)
    BY <2>1 DEF Collapse
  <2> QED BY <2>2, <2>3, <2>4
<1>3. ASSUME NEW b \in BaseRows, NEW u \in GroupJoined(g), u[1] = CteOf(b)
      PROVE  b \in RowsIn(g)
  <2>1. u \in CteJoined /\ Group(u) = g
    BY DEF GroupJoined
  <2>2. u[1] # Null
    BY <1>1, <1>3, CteRows DEF OrNull
  <2>3. PICK t \in RawJoined : t[1] = b /\ Collapse(t) = u
    BY <1>3, <2>1, <2>2, CollapseCovers
  <2>4. Group(t) = g
    BY <2>1, <2>3, GroupCollapses
  <2> QED BY <1>1, <2>3, <2>4 DEF RowsIn
<1> QED
  BY <1>2, <1>3

LEMMA RowsInFinite ==
  ASSUME Tables, NEW g
  PROVE  /\ RowsIn(g) \subseteq BaseRows /\ IsFiniteSet(RowsIn(g))
         /\ Nullable(Measured(RowsIn(g)), RowsIn(g))
<1>1. RowsIn(g) \in SUBSET BaseRows
  BY RowsInAre
<1>2. IsFiniteSet(RowsIn(g))
  BY <1>1, BaseRowsFinite, FS_Subset
<1>3. Nullable(Measured(RowsIn(g)), RowsIn(g))
  BY <1>1, FactsAre DEF Nullable, Measured
<1> QED
  BY <1>1, <1>2, <1>3

LEMMA TupleOfIs ==
  ASSUME Tables, NEW g
  PROVE  /\ \A b \in RowsIn(g) : TupleOf(g)[b] \in GroupJoined(g) /\ TupleOf(g)[b][1] = CteOf(b)
         /\ \A u \in GroupJoined(g) :
              IF u[1] = Null THEN Fibre(TupleOf(g), RowsIn(g), u) = {}
              ELSE /\ Fibre(TupleOf(g), RowsIn(g), u) = RowsOf(u[1][1])
                   /\ RowsOf(u[1][1]) # {}
<1> DEFINE p == TupleOf(g)
           R == RowsIn(g)
<1>0. R \subseteq BaseRows /\ Null \notin BaseRows
  BY RowsInFinite, FactsAre, RowsAreNotNull
<1>1. \A b \in R : p[b] \in GroupJoined(g) /\ p[b][1] = CteOf(b)
  <2> SUFFICES ASSUME NEW b \in R PROVE p[b] \in GroupJoined(g) /\ p[b][1] = CteOf(b)
    OBVIOUS
  <2>1. \E u \in GroupJoined(g) : u[1] = CteOf(b)
    BY RowsInAre
  <2>2. p[b] = CHOOSE u \in GroupJoined(g) : u[1] = CteOf(b)
    BY DEF TupleOf
  <2> HIDE DEF p
  <2> QED BY <2>1, <2>2
<1>2. \A b \in BaseRows : CteOf(b) = <<b[1]>> /\ CteOf(b) # Null
  BY <1>0, CteRows DEF OrNull, CteOf
<1> HIDE DEF p
<1>3. ASSUME NEW u \in GroupJoined(g), u[1] = Null
      PROVE  Fibre(p, R, u) = {}
  BY <1>0, <1>1, <1>2, <1>3 DEF Fibre
<1>4. ASSUME NEW u \in GroupJoined(g), u[1] # Null
      PROVE  Fibre(p, R, u) = RowsOf(u[1][1]) /\ RowsOf(u[1][1]) # {}
  <2>1. u \in CteJoined /\ \A v \in GroupJoined(g) : v \in CteJoined
    BY DEF GroupJoined
  <2>2. u[1] \in CteTable
    BY <1>4, <2>1, JoinedAre DEF OrNull
  <2>3. PICK k \in GroupKeys(BaseRows) : u[1] = <<k>>
    BY <2>2 DEF CteTable
  <2>4. u[1][1] = k
    BY <2>3
  <2>5. \A b \in BaseRows : b[1] = k <=> CteOf(b) = u[1]
    BY <1>2, <2>3
  <2>6. \A b \in R : p[b] = u => b[1] = k
    BY <1>0, <1>1, <2>5
  <2>7. \A b \in BaseRows : b[1] = k => b \in R /\ p[b] = u
    <3> SUFFICES ASSUME NEW b \in BaseRows, b[1] = k PROVE b \in R /\ p[b] = u
      OBVIOUS
    <3>1. b \in R
      BY <2>5, RowsInAre
    <3>2. p[b] \in CteJoined /\ p[b][1] = u[1]
      BY <1>1, <2>1, <2>5, <3>1
    <3> QED BY <1>4, <2>1, <3>1, <3>2, JoinedOnce
  <2>8. Fibre(p, R, u) = RowsOf(k)
    BY <1>0, <2>6, <2>7 DEF Fibre, RowsOf
  <2>9. RowsOf(k) # {}
    BY DEF RowsOf, GroupKeys
  <2> QED BY <2>4, <2>8, <2>9
<1> QED
  BY <1>1, <1>3, <1>4 DEF p

(* The rows of a tuple that have a value, in the group and in the CTE. *)
LEMMA GivenOf ==
  ASSUME Tables, NEW g, NEW u \in GroupJoined(g)
  PROVE  LET G == Fibre(TupleOf(g), Given(Measured(RowsIn(g))), u) IN
           /\ u[1] = Null => G = {}
           /\ u[1] # Null => G = Given(Measured(RowsOf(u[1][1])))
           /\ \A b \in G : Measured(RowsIn(g))[b] = b[2]
           /\ IsFiniteSet(G)
<1> DEFINE f == Measured(RowsIn(g))
           p == TupleOf(g)
           G == Fibre(p, Given(f), u)
<1>1. \A S : Given(Measured(S)) = {b \in S : b[2] # Null}
  BY DEF Given, Measured
<1>2. G = {b \in Fibre(p, RowsIn(g), u) : b[2] # Null}
  BY <1>1 DEF Fibre
<1>3. u[1] = Null => G = {}
  BY <1>2, TupleOfIs
<1>4. u[1] # Null => G = Given(Measured(RowsOf(u[1][1])))
  BY <1>1, <1>2, TupleOfIs
<1>5. \A b \in G : f[b] = b[2]
  BY <1>2 DEF Measured, Fibre
<1>6. IsFiniteSet(G)
  <2>1. G \in SUBSET RowsIn(g)
    BY <1>2 DEF Fibre
  <2> QED BY <2>1, RowsInFinite, FS_Subset
<1> QED
  BY <1>3, <1>4, <1>5, <1>6

LEMMA ColumnAdds ==
  ASSUME Tables, NEW g, NEW a \in Decomposable, NEW col, DOMAIN col = GroupJoined(g),
         \A u \in GroupJoined(g) :
           col[u] = IF u[1] = Null THEN Null ELSE Aggregate(a, Measured(RowsOf(u[1][1])))
  PROVE  Aggregate(a, col) = Aggregate(a, Measured(RowsIn(g)))
<1> DEFINE f == Measured(RowsIn(g))
           p == TupleOf(g)
           G(u) == Fibre(p, Given(f), u)
<1>1. IsFiniteSet(RowsIn(g)) /\ Nullable(f, RowsIn(g))
  BY RowsInFinite
<1>2. Image(p, Given(f)) \subseteq GroupJoined(g)
  <2>1. Given(f) \subseteq RowsIn(g)
    BY <1>1, GivenFinite
  <2> QED BY <2>1, TupleOfIs DEF Image
<1>3. ASSUME NEW u \in GroupJoined(g)
      PROVE  col[u] = IF G(u) = {} THEN Null ELSE Value(a, f, G(u))
  <2>1. /\ u[1] = Null => G(u) = {}
        /\ u[1] # Null => G(u) = Given(Measured(RowsOf(u[1][1])))
        /\ \A b \in G(u) : f[b] = b[2]
        /\ IsFiniteSet(G(u))
    BY GivenOf
  <2> HIDE DEF G, f
  <2>2. CASE u[1] = Null
    BY <2>1, <2>2
  <2>3. CASE u[1] # Null
    <3> DEFINE h == Measured(RowsOf(u[1][1]))
    <3>1. col[u] = IF Given(h) = {} THEN Null ELSE Value(a, h, Given(h))
      BY <2>3, AggregateIs
    <3>2. \A b \in Given(h) : h[b] = b[2]
      BY DEF Measured, Given
    <3>3. G(u) = Given(h)
      BY <2>1, <2>3
    <3> HIDE DEF h
    <3>4. \A b \in G(u) : f[b] = h[b]
      BY <2>1, <3>2, <3>3
    <3>5. Value(a, f, G(u)) = Value(a, h, G(u))
      BY <2>1, <3>4, ValueSame
    <3> QED BY <3>1, <3>3, <3>5
  <2> QED BY <2>2, <2>3
<1> HIDE DEF f, p
<1>4. \A u \in GroupJoined(g) : col[u] = IF Fibre(p, Given(f), u) = {} THEN Null
                                         ELSE Value(a, f, Fibre(p, Given(f), u))
  BY <1>3
<1>5. Aggregate(a, col) = Aggregate(a, f)
  <2>1. IsFiniteSet(DOMAIN f) /\ Nullable(f, DOMAIN f)
    BY <1>1 DEF Nullable
  <2>2. Grouped(a, f, p, col)
    BY <1>2, <1>4 DEF Grouped
  <2> QED BY <2>1, <2>2, AggregateGrouped
<1> QED
  BY <1>5 DEF f

LEMMA ColumnCounts ==
  ASSUME Tables, NEW g, NEW col, DOMAIN col = GroupJoined(g),
         \A u \in GroupJoined(g) :
           col[u] = IF u[1] = Null THEN Null ELSE Aggregate("count", Measured(RowsOf(u[1][1])))
  PROVE  Aggregate("sum", col) =
           IF RowsIn(g) = {} THEN Null ELSE Aggregate("count", Measured(RowsIn(g)))
<1> DEFINE f == Measured(RowsIn(g))
           p == TupleOf(g)
           R == RowsIn(g)
<1>1. IsFiniteSet(R) /\ Nullable(f, R)
  BY RowsInFinite
<1>2. Image(p, R) \subseteq GroupJoined(g)
  BY TupleOfIs DEF Image
<1>3. ASSUME NEW u \in GroupJoined(g)
      PROVE  col[u] = IF u \in Image(p, R) THEN Cardinality(Fibre(p, Given(f), u)) ELSE Null
  <2>1. u \in Image(p, R) <=> u[1] # Null
    <3>1. u \in Image(p, R) <=> Fibre(p, R, u) # {}
      BY DEF Image, Fibre
    <3> HIDE DEF p, R
    <3> QED BY <3>1, TupleOfIs DEF p, R
  <2>2. u[1] # Null => Fibre(p, Given(f), u) = Given(Measured(RowsOf(u[1][1])))
    BY GivenOf
  <2> HIDE DEF p, R, f
  <2> QED BY <2>1, <2>2, AggregateIs
<1>4. Aggregate("count", f) = Cardinality(Given(f))
  BY AggregateIs
<1> HIDE DEF f, p, R
<1>5. Aggregate("sum", col) = IF R = {} THEN Null ELSE Cardinality(Given(f))
  BY <1>1, <1>2, <1>3, CountByGroups
<1> QED
  BY <1>4, <1>5 DEF R, f

(* No row is missing from a group unless a join is full. *)
LEMMA RowsInEvery ==
  ASSUME Tables, NEW t \in RawJoined, RowsIn(Group(t)) = {}
  PROVE  "full" \in {types[1], types[2]}
<1>1. t = <<t[1], t[2], t[3]>> /\ t[1] \in OrNull(BaseRows) /\ t[2] \in OrNull(LinkRows) /\ t[3] \in OrNull(OtherRows)
  BY JoinedAre
<1>2. t[1] = Null
  BY DEF RowsIn
<1>3. Together(GroupKeys(BaseRows), GroupKeys(OtherRows), t[1], t[2], t[3])
  BY <1>1, JoinedAre
<1> QED
  BY <1>2, <1>3 DEF Together, Met

Computed == [k \in GroupKeys(BaseRows) |-> Projected(Measured(RowsOf(k)))]

LEMMA KeyOf ==
  ASSUME Tables, NEW u \in CteJoined, u[1] # Null
  PROVE  u[1][1] \in GroupKeys(BaseRows)
<1>1. u[1] \in CteTable
  BY JoinedAre DEF OrNull
<1>2. PICK k \in GroupKeys(BaseRows) : u[1] = <<k>>
  BY <1>1 DEF CteTable
<1> QED
  BY <1>2

(* What the outer query makes of a group's columns. *)
LEMMA OuterMeasureIs ==
  ASSUME Tables, cte = Computed, NEW g
  PROVE  \/ OuterMeasure(GroupJoined(g)) = Aggregate(agg, Measured(RowsIn(g)))
         \/ agg = "count" /\ RowsIn(g) = {} /\ OuterMeasure(GroupJoined(g)) = Null
<1> DEFINE U == GroupJoined(g)
           Column(c) == [t \in U |-> IF t[1] = Null THEN Null ELSE cte[t[1][1]][c]]
           M == Measured(RowsIn(g))
<1>1. OuterMeasure(U) =
        IF agg # "average" THEN Aggregate(Reaggregate(agg), Column("val"))
        ELSE IF Aggregate("sum", Column("sum")) = Null \/ Aggregate("sum", Column("cnt")) \in {Null, 0}
             THEN Null
             ELSE Ratio(Aggregate("sum", Column("sum")), Aggregate("sum", Column("cnt")))
  BY DEF OuterMeasure
<1>2. \A u \in U : u[1] # Null => cte[u[1][1]] = Projected(Measured(RowsOf(u[1][1])))
  BY KeyOf DEF Computed, GroupJoined
<1> HIDE DEF U
<1>3. CASE agg # "average"
  <2>1. \A f : Projected(f).val = Aggregate(agg, f)
    BY <1>3 DEF Projected
  <2>2. \A u \in U : Column("val")[u] =
           IF u[1] = Null THEN Null ELSE Aggregate(agg, Measured(RowsOf(u[1][1])))
    BY <1>2, <2>1
  <2>3. DOMAIN Column("val") = U
    OBVIOUS
  <2> HIDE DEF Column
  <2>4. CASE agg = "count"
    <3>1. Aggregate("sum", Column("val")) =
            IF RowsIn(g) = {} THEN Null ELSE Aggregate("count", M)
      BY <2>2, <2>3, <2>4, ColumnCounts DEF U
    <3>2. OuterMeasure(U) = Aggregate("sum", Column("val"))
      BY <1>1, <1>3, <2>4 DEF Reaggregate
    <3> QED BY <2>4, <3>1, <3>2 DEF U
  <2>5. CASE agg # "count"
    <3>1. agg \in Decomposable
      BY <1>3, <2>5 DEF Tables, Aggregation, Decomposable
    <3>2. Aggregate(agg, Column("val")) = Aggregate(agg, M)
      BY <2>2, <2>3, <3>1, ColumnAdds DEF U
    <3>3. OuterMeasure(U) = Aggregate(agg, Column("val"))
      BY <1>1, <1>3, <2>5 DEF Reaggregate
    <3> QED BY <3>2, <3>3 DEF U
  <2> QED BY <2>4, <2>5
<1>4. CASE agg = "average"
  <2>1. \A f : Projected(f).sum = Aggregate("sum", f) /\ Projected(f).cnt = Aggregate("count", f)
    BY <1>4 DEF Projected
  <2>2. \A u \in U : /\ Column("sum")[u] =
                          IF u[1] = Null THEN Null ELSE Aggregate("sum", Measured(RowsOf(u[1][1])))
                     /\ Column("cnt")[u] =
                          IF u[1] = Null THEN Null ELSE Aggregate("count", Measured(RowsOf(u[1][1])))
    BY <1>2, <2>1
  <2>3. DOMAIN Column("sum") = U /\ DOMAIN Column("cnt") = U
    OBVIOUS
  <2> HIDE DEF Column
  <2>4. Aggregate("sum", Column("sum")) = Aggregate("sum", M)
    BY <2>2, <2>3, ColumnAdds DEF U, Decomposable
  <2>5. Aggregate("sum", Column("cnt")) =
          IF RowsIn(g) = {} THEN Null ELSE Aggregate("count", M)
    BY <2>2, <2>3, ColumnCounts DEF U
  <2>6. IsFiniteSet(RowsIn(g)) /\ Nullable(M, RowsIn(g))
    BY RowsInFinite
  <2>7. /\ Given(M) \subseteq RowsIn(g) /\ Cardinality(Given(M)) \in Nat
        /\ Given(M) # {} => Cardinality(Given(M)) # 0
        /\ IsFiniteSet(Given(M)) /\ Integral(M, Given(M))
    <3> HIDE DEF M
    <3> QED BY <2>6, GivenFinite
  <2>8. Total(M, Given(M)) \in Int
    <3> HIDE DEF M
    <3> QED BY <2>7, TotalInt
  <2>9. /\ Aggregate("sum", M) = IF Given(M) = {} THEN Null ELSE Total(M, Given(M))
        /\ Aggregate("count", M) = Cardinality(Given(M))
        /\ Aggregate("average", M) =
             IF Given(M) = {} THEN Null ELSE Ratio(Total(M, Given(M)), Cardinality(Given(M)))
    BY AggregateIs DEF Decomposable, Value
  <2> HIDE DEF M
  <2>10. CASE Given(M) = {}
    <3>1. Aggregate("sum", Column("sum")) = Null
      BY <2>4, <2>9, <2>10
    <3> QED BY <1>1, <1>4, <2>9, <2>10, <3>1 DEF M, U
  <2>11. CASE Given(M) # {}
    <3>1. Aggregate("sum", Column("sum")) = Total(M, Given(M)) /\ Total(M, Given(M)) # Null
      BY <2>4, <2>8, <2>9, <2>11, NullAssumption
    <3>2. RowsIn(g) # {}
      BY <2>7, <2>11
    <3>3. Aggregate("sum", Column("cnt")) = Cardinality(Given(M))
      BY <2>5, <2>9, <3>2
    <3>4. Cardinality(Given(M)) \notin {Null, 0}
      BY <2>7, <2>11, NullAssumption
    <3>5. OuterMeasure(U) = Ratio(Total(M, Given(M)), Cardinality(Given(M)))
      BY <1>1, <1>4, <3>1, <3>3, <3>4
    <3> QED BY <1>4, <2>9, <2>11, <3>5 DEF M, U
  <2> QED BY <2>10, <2>11
<1> QED
  BY <1>3, <1>4

(***************************************************************************)
(* The inductive invariant: the tables stay as they are, and what is made  *)
(* of them so far is what the query says.                                  *)
(***************************************************************************)
Answered == [g \in {Group(t) : t \in CteJoined} |-> OuterMeasure(GroupJoined(g))]

IInv ==
  /\ Tables
  /\ pc \in {"ctes", "joins", "answer", "done"}
  /\ pc # "ctes" => cte = Computed
  /\ pc \in {"answer", "done"} => joined = CteJoined
  /\ pc = "done" => answer = Answered

LEMMA InitIInv == Init => IInv
BY DEF Init, IInv, Tables

LEMMA NextIInv == IInv /\ [Next]_vars => IInv'
<1> SUFFICES ASSUME IInv, [Next]_vars PROVE IInv'
  OBVIOUS
<1>1. ASSUME UNCHANGED inputs
      PROVE  Tables' /\ Computed' = Computed /\ CteJoined' = CteJoined
  <2>1. Tables'
    BY <1>1 DEF IInv, Tables, inputs
  <2>2. BaseRows' = BaseRows /\ LinkRows' = LinkRows /\ OtherRows' = OtherRows
    BY <1>1 DEF inputs, BaseRows, LinkRows, OtherRows
  <2>3. Computed' = Computed
    BY <1>1, <2>2 DEF Computed, Measured, RowsOf, Projected, inputs
  <2>4. OtherCteRows' = OtherCteRows /\ CteTable' = CteTable
    BY <2>2 DEF OtherCteRows, CteTable
  <2>5. CteJoined' = CteJoined
    BY <1>1, <2>2, <2>4 DEF CteJoined, From, inputs
  <2> QED BY <2>1, <2>3, <2>5
<1>2. CASE PreAggregate
  <2>1. UNCHANGED inputs /\ pc' = "joins"
    BY <1>2 DEF PreAggregate
  <2>2. cte' = Computed
    BY <1>2 DEF PreAggregate, Computed, Measured, RowsOf
  <2> QED BY <1>1, <2>1, <2>2 DEF IInv
<1>3. CASE JoinTables
  <2>1. UNCHANGED inputs /\ pc' = "answer" /\ cte' = cte /\ cte = Computed
    BY <1>3 DEF JoinTables, IInv
  <2>2. DOMAIN cte = GroupKeys(BaseRows)
    BY <2>1 DEF Computed
  <2>3. joined' = CteJoined
    BY <1>3, <2>2 DEF JoinTables, CteJoined, CteTable
  <2> QED BY <1>1, <2>1, <2>3 DEF IInv
<1>4. CASE Answer
  <2>1. UNCHANGED <<inputs, cte, joined>> /\ pc' = "done" /\ cte = Computed /\ joined = CteJoined
    BY <1>4 DEF Answer, IInv
  <2>2. answer' = Answered
    BY <1>4, <2>1 DEF Answer, Answered, GroupJoined
  <2>3. Answered' = Answered
    <3>1. /\ \A t : Group(t)' = Group(t)
          /\ \A T : OuterMeasure(T)' = OuterMeasure(T)
      BY <2>1 DEF Group, OuterMeasure, inputs
    <3> QED BY <1>1, <2>1, <3>1 DEF Answered, GroupJoined
  <2> QED BY <1>1, <2>1, <2>2, <2>3 DEF IInv
<1>5. CASE UNCHANGED vars
  <2>1. UNCHANGED <<inputs, cte, joined, answer, pc>>
    BY <1>5 DEF vars
  <2>2. Answered' = Answered
    <3>1. /\ \A t : Group(t)' = Group(t)
          /\ \A T : OuterMeasure(T)' = OuterMeasure(T)
      BY <2>1 DEF Group, OuterMeasure, inputs
    <3> QED BY <1>1, <2>1, <3>1 DEF Answered, GroupJoined
  <2> QED BY <1>1, <2>1, <2>2 DEF IInv
<1> QED
  BY <1>2, <1>3, <1>4, <1>5 DEF Next

LEMMA Invariant == Spec => []IInv
<1>1. Init => IInv
  BY InitIInv
<1>2. IInv /\ [Next]_vars => IInv'
  BY NextIInv
<1> QED
  BY <1>1, <1>2, PTL DEF Spec

(* The groups are the same, and each group's value is what OuterMeasureIs tells. *)
LEMMA ExactWhenDone == IInv => RewriteExact
<1> SUFFICES ASSUME IInv, pc = "done" PROVE RewriteExact
  BY DEF RewriteExact
<1>1. Tables /\ cte = Computed /\ answer = Answered
  BY DEF IInv
<1> DEFINE Gs == {Group(t) : t \in RawJoined}
<1>2. DOMAIN answer = Gs /\ \A g \in Gs : answer[g] = OuterMeasure(GroupJoined(g))
  BY <1>1, SameGroups DEF Answered
<1>3. DOMAIN Meant = Gs /\ \A g \in Gs : Meant[g] = Aggregate(agg, Measured(RowsIn(g)))
  BY DEF Meant, Measured
<1>4. \A g \in Gs : RowsIn(g) = {} => "full" \in {types[1], types[2]}
  BY <1>1, RowsInEvery
<1> HIDE DEF Gs
<1>5. \A g \in Gs : \/ answer[g] = Meant[g]
                    \/ /\ agg = "count" /\ "full" \in {types[1], types[2]}
                       /\ RowsIn(g) = {} /\ answer[g] = Null
  <2> SUFFICES ASSUME NEW g \in Gs
               PROVE  \/ answer[g] = Meant[g]
                      \/ /\ agg = "count" /\ "full" \in {types[1], types[2]}
                         /\ RowsIn(g) = {} /\ answer[g] = Null
    OBVIOUS
  <2>1. \/ OuterMeasure(GroupJoined(g)) = Aggregate(agg, Measured(RowsIn(g)))
        \/ agg = "count" /\ RowsIn(g) = {} /\ OuterMeasure(GroupJoined(g)) = Null
    BY <1>1, OuterMeasureIs
  <2> QED BY <1>2, <1>3, <1>4, <2>1
<1> QED
  BY <1>2, <1>3, <1>5 DEF RewriteExact

(***************************************************************************)
(* chasm_trap.rs: at the end of every rewrite, whatever the tables hold,   *)
(* the joins are and the query selects, the groups and the values are      *)
(* those of the query it replaces, each row of the base counted once.      *)
(***************************************************************************)
THEOREM RewriteIsExact == Spec => []RewriteExact
BY Invariant, ExactWhenDone, PTL

(***************************************************************************)
(* TOTALS.  With left joins each row of the base is in exactly one group,  *)
(* whose attribute is the one its key is linked to.                        *)
(***************************************************************************)
TupleFor(b) == CHOOSE u \in CteJoined : u[1] = CteOf(b)

LEMMA LeftJoinsKeep ==
  ASSUME Tables, types = <<"left", "left">>, NEW b \in BaseRows
  PROVE  /\ TupleFor(b) \in CteJoined /\ TupleFor(b)[1] = CteOf(b)
         /\ \A u \in CteJoined : u[1] = CteOf(b) => u = TupleFor(b)
         /\ \A g : b \in RowsIn(g) <=> Group(TupleFor(b)) = g
<1> DEFINE KB == GroupKeys(BaseRows)
           KO == GroupKeys(OtherRows)
           c  == CteOf(b)
           k  == b[1]
           l  == IF k \in DOMAIN link THEN <<k, link[k]>> ELSE Null
           o  == IF l # Null /\ k \in KO THEN <<k>> ELSE Null
<1>1. c \in CteTable /\ c # Null /\ c = <<k>> /\ Null \notin CteTable
  <2>1. Null \notin BaseRows /\ Null \notin CteTable
    BY FactsAre, RowsAreNotNull
  <2> QED BY <2>1, CteRows DEF OrNull, CteOf
<1>2. /\ k \in DOMAIN link => l \in LinkRows /\ l[1] = k /\ l # Null
      /\ k \notin DOMAIN link => l = Null
  <2>1. Null \notin LinkRows
    BY FactsAre, RowsAreNotNull
  <2> QED BY <2>1, LinkRowsAre
<1>3. /\ l # Null /\ k \in KO => o \in OtherCteRows /\ o[1] = k /\ o # Null
      /\ ~ (l # Null /\ k \in KO) => o = Null
  <2>1. Null \notin OtherCteRows
    BY FactsAre, RowsAreNotNull
  <2> HIDE DEF l
  <2> QED BY <2>1 DEF OtherCteRows
<1>4. Outer(types[1]) /\ Outer(types[2])
  BY DEF Outer
<1>5. c[1] = k
  BY <1>1
<1> HIDE DEF c, l, o, k, KB, KO
<1>6. Met(KB, c, l)
  BY <1>1, <1>2, <1>4, <1>5 DEF Met
<1>7. Together(KB, KO, c, l, o)
  BY <1>2, <1>3, <1>4, <1>6 DEF Together
<1>8. <<c, l, o>> \in CteJoined
  <2>1. c \in OrNull(CteTable) /\ l \in OrNull(LinkRows) /\ o \in OrNull(OtherCteRows)
    BY <1>1, <1>2, <1>3 DEF OrNull
  <2> QED BY <1>7, <2>1, JoinedAre DEF KB, KO
<1>9. \E u \in CteJoined : u[1] = c
  <2>1. <<c, l, o>>[1] = c
    OBVIOUS
  <2> QED BY <1>8, <2>1
<1>10. TupleFor(b) \in CteJoined /\ TupleFor(b)[1] = c
  BY <1>9 DEF TupleFor, c
<1>11. \A u \in CteJoined : u[1] = c => u = TupleFor(b)
  BY <1>1, <1>10, JoinedOnce
<1>12. \A g : b \in RowsIn(g) <=> Group(TupleFor(b)) = g
  BY <1>10, <1>11, RowsInAre DEF GroupJoined, c
<1> QED
  BY <1>10, <1>11, <1>12 DEF c

LEMMA AttributeOf ==
  ASSUME Tables, "link" \in grain, NEW u \in CteJoined, u[1] # Null, NEW a \in Attribute
  PROVE  Group(u).link = a <=> <<u[1][1], a>> \in LinkRows
<1> DEFINE k == u[1][1]
           l == u[2]
<1>1. Group(u).link = Of(l, 2)
  BY DEF Group
<1>2. l \in OrNull(LinkRows) /\ Met(GroupKeys(BaseRows), u[1], l)
  <2>1. u = <<u[1], u[2], u[3]>> /\ u[1] \in OrNull(CteTable) /\ u[2] \in OrNull(LinkRows)
        /\ u[3] \in OrNull(OtherCteRows)
    BY JoinedAre
  <2>2. Together(GroupKeys(BaseRows), GroupKeys(OtherRows), u[1], u[2], u[3])
    BY <2>1, JoinedAre
  <2> QED BY <2>1, <2>2 DEF Together
<1>3. a # Null
  BY NullAssumption
<1>4. <<k, a>> \in LinkRows <=> k \in DOMAIN link /\ link[k] = a
  BY DEF LinkRows
<1>5. CASE l = Null
  <2>1. k \notin DOMAIN link
    BY <1>2, <1>5 DEF Met
  <2>2. Of(l, 2) = Null
    BY <1>5 DEF Of
  <2> QED BY <1>1, <1>3, <1>4, <2>1, <2>2
<1>6. CASE l # Null
  <2>1. l \in LinkRows /\ l[1] = k
    BY <1>2, <1>6 DEF Met, OrNull
  <2>2. k \in DOMAIN link /\ l[2] = link[k]
    BY <2>1, LinkRowsAre
  <2>3. Of(l, 2) = link[k]
    BY <1>6, <2>2 DEF Of
  <2> QED BY <1>1, <1>4, <2>2, <2>3
<1> QED
  BY <1>5, <1>6

LEMMA TotalsWhenDone == IInv => TotalsAgree
<1> SUFFICES ASSUME IInv, pc = "done", agg = "sum", types = <<"left", "left">>, "link" \in grain,
                    NEW a \in Attribute
             PROVE  LET groups == {g \in DOMAIN answer : g.link = a /\ answer[g] # Null}
                        rows   == {b \in BaseRows : b[2] # Null /\ <<b[1], a>> \in LinkRows}
                    IN  Total(answer, groups) = Total([b \in rows |-> b[2]], rows)
  BY DEF TotalsAgree
<1> DEFINE Gs     == {Group(t) : t \in CteJoined}
           groups == {g \in DOMAIN answer : g.link = a /\ answer[g] # Null}
           rows   == {b \in BaseRows : b[2] # Null /\ <<b[1], a>> \in LinkRows}
           f      == [b \in rows |-> b[2]]
           q      == [b \in rows |-> Group(TupleFor(b))]
<1>1. Tables /\ cte = Computed /\ answer = Answered
  BY DEF IInv
<1>2. DOMAIN answer = Gs
  BY <1>1 DEF Answered
<1>3. IsFiniteSet(rows) /\ Integral(f, rows)
  <2>1. rows \in SUBSET BaseRows
    OBVIOUS
  <2>2. IsFiniteSet(rows)
    BY <1>1, <2>1, BaseRowsFinite, FS_Subset
  <2>3. \A b \in rows : b[2] \in Int
    BY <1>1, FactsAre DEF OrNull
  <2> QED BY <2>2, <2>3 DEF Integral
<1>4. ASSUME NEW b \in BaseRows
      PROVE  /\ Group(TupleFor(b)) \in Gs
             /\ Group(TupleFor(b)).link = a <=> <<b[1], a>> \in LinkRows
             /\ \A g : b \in RowsIn(g) <=> Group(TupleFor(b)) = g
  <2>1. /\ TupleFor(b) \in CteJoined /\ TupleFor(b)[1] = CteOf(b)
        /\ \A g : b \in RowsIn(g) <=> Group(TupleFor(b)) = g
    BY <1>1, LeftJoinsKeep
  <2>2. CteOf(b) # Null /\ CteOf(b)[1] = b[1]
    <3>1. Null \notin BaseRows
      BY <1>1, FactsAre, RowsAreNotNull
    <3> QED BY <1>1, <3>1, CteRows DEF OrNull, CteOf
  <2>3. Group(TupleFor(b)).link = a <=> <<b[1], a>> \in LinkRows
    BY <1>1, <2>1, <2>2, AttributeOf
  <2> QED BY <2>1, <2>3
<1>5. ASSUME NEW g \in Gs
      PROVE  answer[g] = LET G == Given(Measured(RowsIn(g)))
                         IN  IF G = {} THEN Null ELSE Total(Measured(RowsIn(g)), G)
  <2>1. answer[g] = OuterMeasure(GroupJoined(g))
    BY <1>1 DEF Answered
  <2>2. OuterMeasure(GroupJoined(g)) = Aggregate("sum", Measured(RowsIn(g)))
    BY <1>1, OuterMeasureIs
  <2> QED BY <2>1, <2>2, AggregateIs DEF Decomposable, Value
<1>6. ASSUME NEW g \in Gs, g.link = a
      PROVE  /\ Given(Measured(RowsIn(g))) = Fibre(q, rows, g)
             /\ \A b \in Fibre(q, rows, g) : Measured(RowsIn(g))[b] = f[b]
  <2>1. Given(Measured(RowsIn(g))) = {b \in RowsIn(g) : b[2] # Null}
    BY DEF Given, Measured
  <2>2. RowsIn(g) \subseteq BaseRows
    BY <1>1, RowsInFinite
  <2>3. \A b \in BaseRows : b \in RowsIn(g) /\ b[2] # Null <=> b \in rows /\ Group(TupleFor(b)) = g
    BY <1>4, <1>6
  <2>4. Fibre(q, rows, g) = {b \in rows : Group(TupleFor(b)) = g}
    BY DEF Fibre
  <2>5. rows \subseteq BaseRows
    OBVIOUS
  <2>6. Given(Measured(RowsIn(g))) = Fibre(q, rows, g)
    <3> HIDE DEF rows, q
    <3> QED BY <2>1, <2>2, <2>3, <2>4, <2>5
  <2>7. \A b \in Fibre(q, rows, g) : b \in RowsIn(g) /\ b \in rows
    <3> HIDE DEF rows, q
    <3> QED BY <2>1, <2>4, <2>6
  <2> QED BY <2>6, <2>7 DEF Measured
<1>7. ASSUME NEW g \in Gs, g.link = a
      PROVE  answer[g] = IF Fibre(q, rows, g) = {} THEN Null ELSE Total(f, Fibre(q, rows, g))
  <2> HIDE DEF q, rows, f, Gs
  <2>1. IsFiniteSet(Fibre(q, rows, g))
    BY <1>3, ImageFinite
  <2>2. Total(Measured(RowsIn(g)), Fibre(q, rows, g)) = Total(f, Fibre(q, rows, g))
    BY <1>6, <1>7, <2>1, TotalSame
  <2> QED BY <1>5, <1>6, <1>7, <2>2
<1>8. \A g : Fibre(q, rows, g) # {} => Total(f, Fibre(q, rows, g)) # Null
  <2> SUFFICES ASSUME NEW g PROVE Total(f, Fibre(q, rows, g)) # Null
    OBVIOUS
  <2>1. Fibre(q, rows, g) \subseteq rows
    BY DEF Fibre
  <2>2. Integral(f, Fibre(q, rows, g))
    BY <1>3, <2>1 DEF Integral
  <2> HIDE DEF q, rows, f
  <2>3. IsFiniteSet(Fibre(q, rows, g))
    BY <1>3, ImageFinite
  <2>4. Total(f, Fibre(q, rows, g)) \in Int
    BY <2>2, <2>3, TotalInt
  <2> QED BY <2>4, NullAssumption
<1>9. \A b \in rows : q[b] = Group(TupleFor(b)) /\ q[b] \in Gs /\ q[b].link = a
  BY <1>4
<1>10. groups = {g \in Gs : g.link = a /\ answer[g] # Null}
  BY <1>2
<1> HIDE DEF q, rows, f, Gs, groups
<1>11. groups = Image(q, rows)
  <2>1. \A g : Fibre(q, rows, g) # {} <=> g \in Image(q, rows)
    BY DEF Fibre, Image
  <2>2. \A g \in Image(q, rows) : g \in Gs /\ g.link = a
    BY <1>9 DEF Image
  <2>3. \A g \in Gs : g.link = a => (answer[g] # Null <=> Fibre(q, rows, g) # {})
    BY <1>7, <1>8
  <2> QED BY <1>10, <2>1, <2>2, <2>3
<1>12. \A g \in groups : answer[g] = Groups(f, q, rows)[g]
  <2> SUFFICES ASSUME NEW g \in groups PROVE answer[g] = Groups(f, q, rows)[g]
    OBVIOUS
  <2>1. g \in Gs /\ g.link = a /\ answer[g] # Null
    BY <1>10
  <2>2. answer[g] = Total(f, Fibre(q, rows, g))
    BY <1>7, <2>1
  <2> QED BY <1>11, <2>2 DEF Groups
<1>13. IsFiniteSet(groups)
  BY <1>3, <1>11, ImageFinite
<1>14. Total(answer, groups) = Total(Groups(f, q, rows), groups)
  BY <1>12, <1>13, TotalSame
<1>15. Total(answer, groups) = Total(f, rows)
  BY <1>3, <1>11, <1>14, TotalByGroups
<1> QED
  BY <1>15 DEF groups, f, rows

(***************************************************************************)
(* chasm_trap_e2e_test.rs:182-237, for every table: added up over the keys *)
(* of the other fact, the sums the rewritten query gives an attribute are  *)
(* those of base and link alone.                                           *)
(***************************************************************************)
THEOREM TotalsAlwaysAgree == Spec => []TotalsAgree
BY Invariant, TotalsWhenDone, PTL
================================================================================
