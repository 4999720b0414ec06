----------------------------- MODULE PreAggregation ----------------------------
(***************************************************************************)
(* The numbers a query gives after the chasm-trap rewrite                  *)
(* (may_core/src/compiler/chasm_trap.rs), against the measure it stands    *)
(* for.  ChasmTrap.tla is about the columns of the rewritten query; here   *)
(* it runs on tables.                                                      *)
(*                                                                         *)
(* The query is the one the rewrite is for: a measure of a base fact,      *)
(* joined to a link dimension, joined to another fact with many rows of    *)
(* one key.  A step is a part of the query: the CTEs, the joins, the outer *)
(* aggregation.  A row is a tuple whose first component is the column it   *)
(* is joined by.                                                           *)
(***************************************************************************)
EXTENDS Integers, Sequences, FiniteSets, FiniteSetsExt

CONSTANTS
  Row,        \* rows of the base fact, as <<key, value>>
  MaxRows,    \* bound on their number, equal ones included
  Key,        \* primary keys of the link dimension
  Attribute,  \* values of its other column
  Links,      \* tables it may be, as functions from keys to attributes
  MaxOthers,  \* bound on the rows of the other fact with one key
  Null        \* SQL's NULL

(* The rows tables may have, and those of the CTEs. *)
OrNull(S) == S \cup {Null}

BaseRow  == {<<r[1], r[2], n>> : r \in Row, n \in 1..MaxRows}
LinkRow  == Key \X Attribute
OtherRow == Key \X (1..MaxOthers)
CteRow   == {<<k>> : k \in OrNull(Key)}

(* NULL is no value of a column and no row, of a table or of a join. *)
ASSUME NullAssumption ==
  /\ Null \notin Key \cup Attribute /\ Null \notin Int
  /\ Null \notin BaseRow \cup LinkRow \cup OtherRow \cup CteRow
  /\ Null \notin OrNull(BaseRow \cup CteRow) \X OrNull(LinkRow)
ASSUME BoundsAssumption == MaxRows \in Nat /\ MaxOthers \in Nat
ASSUME RowAssumption ==
  /\ IsFiniteSet(Row)
  /\ \A r \in Row : r[1] \in OrNull(Key) /\ r[2] \in OrNull(Int)
ASSUME LinksAssumption ==
  \A l \in Links : DOMAIN l \subseteq Key /\ \A k \in DOMAIN l : l[k] \in Attribute

JoinType == {"inner", "left", "full"}

(* COUNT(DISTINCT) is refused. *)
Aggregation == {"sum", "count", "average", "min", "max"}

VARIABLES
  base,     \* base[r]: how many rows r the base fact has
  link,     \* link[k]: the attribute of the link's row with key k
  other,    \* other[k]: how many rows with key k the other fact has
  types,    \* types of the joins from base to link and from link to other
  agg,      \* the measure's aggregation
  grain,    \* dimensions selected besides the other fact's key
  cte,      \* cte[k]: the row of the base's CTE for key k
  joined,   \* what FROM gives, as <<base row, link row, other row>>
  answer,   \* answer[g]: the measure's value in the row for group g
  pc        \* the part of the query to come

inputs == <<base, link, other, types, agg, grain>>
vars   == <<inputs, cte, joined, answer, pc>>

BaseRows  == UNION {{<<r[1], r[2], n>> : n \in 1..base[r]} : r \in Row}
LinkRows  == {<<k, link[k]>> : k \in DOMAIN link}
OtherRows == UNION {{<<k, n>> : n \in 1..other[k]} : k \in Key}
--------------------------------------------------------------------------------
(* The sum of f over S. *)
Total(f, S) == MapThenSumSet(LAMBDA i : f[i], S)

Init ==
  /\ base \in {b \in [Row -> 0..MaxRows] : Total(b, Row) <= MaxRows}
  /\ link \in Links
  /\ other \in [Key -> 0..MaxOthers]
  /\ types \in JoinType \X JoinType
  /\ agg \in Aggregation
  /\ grain \in SUBSET {"base", "link"}
  /\ cte    = <<>>
  /\ joined = {}
  /\ answer = <<>>
  /\ pc     = "ctes"

--------------------------------------------------------------------------------
(***************************************************************************)
(* SQL.  An aggregate skips NULL and, but for COUNT, is NULL when nothing  *)
(* is left.                                                                *)
(***************************************************************************)
Ratio(n, d) ==
  LET g == Max({k \in 1..d : n % k = 0 /\ d % k = 0}) IN <<n \div g, d \div g>>

Aggregate(a, f) ==
  LET given == {i \in DOMAIN f : f[i] # Null}
      total == Total(f, given)
  IN  IF a = "count" THEN Cardinality(given)
      ELSE IF given = {} THEN Null
      ELSE CASE a = "sum"     -> total
             [] a = "average" -> Ratio(total, Cardinality(given))
             [] a = "min"     -> Min({f[i] : i \in given})
             [] a = "max"     -> Max({f[i] : i \in given})

(* The join of L and R, whose rows match as M says. *)
Join(L, R, M, type) ==
  LET aloneL == {l \in L : \A r \in R : <<l, r>> \notin M}
      aloneR == {r \in R : \A l \in L : <<l, r>> \notin M}
  IN  M \cup {<<l, Null>> : l \in IF type \in {"left", "full"} THEN aloneL ELSE {}}
        \cup {<<Null, r>> : r \in IF type = "full" THEN aloneR ELSE {}}

(* FROM base JOIN link JOIN other. *)
From(B, O) ==
  LET first  == Join(B, LinkRows, {m \in B \X LinkRows : m[1][1] = m[2][1]}, types[1])
      linked == {m \in first \X O : m[1][2] # Null /\ m[1][2][1] = m[2][1]}
      second == Join(first, O, linked, types[2])
      Left(p) == IF p[1] = Null THEN <<Null, Null>> ELSE p[1]
  IN  {<<Left(p)[1], Left(p)[2], p[2]>> : p \in second}

Of(row, column) == IF row = Null THEN Null ELSE row[column]

(* GROUP BY the other fact's key and the dimensions of the grain. *)
Group(t) ==
  [other |-> Of(t[3], 1),
   base  |-> IF "base" \in grain THEN Of(t[1], 1) ELSE Null,
   link  |-> IF "link" \in grain THEN Of(t[2], 2) ELSE Null]
--------------------------------------------------------------------------------
(***************************************************************************)
(* build_cte_query, executed: each fact grouped by its key.                *)
(***************************************************************************)
Projected(f) ==
  IF agg = "average" THEN [sum |-> Aggregate("sum", f), cnt |-> Aggregate("count", f)]
                     ELSE [val |-> Aggregate(agg, f)]

GroupKeys(rows) == {b[1] : b \in rows}

PreAggregate ==
  /\ pc = "ctes"
  /\ cte' = [k \in GroupKeys(BaseRows) |->
               Projected([b \in {r \in BaseRows : r[1] = k} |-> b[2]])]
  /\ pc' = "joins"
  /\ UNCHANGED <<inputs, joined, answer>>

(* Mutant: a fact without measures is not grouped. *)
OtherRowsUngrouped == OtherRows

OtherCteRows == {<<k>> : k \in GroupKeys(OtherRows)}

JoinTables ==
  /\ pc = "joins"
  /\ joined' = From({<<k>> : k \in DOMAIN cte}, OtherCteRows)
  /\ pc' = "answer"
  /\ UNCHANGED <<inputs, cte, answer>>

(* Mutant: counts are counted. *)
ReaggregateAlike(a) == a

Reaggregate(a) == IF a = "count" THEN "sum" ELSE a

(* SUM(sum) * 1.0 / NULLIF(SUM(cnt), 0), or the re-aggregated column. *)
OuterMeasure(tuples) ==
  LET Column(c) == [t \in tuples |-> IF t[1] = Null THEN Null ELSE cte[t[1][1]][c]]
      sum == Aggregate("sum", Column("sum"))
      cnt == Aggregate("sum", Column("cnt"))
  IN  IF agg # "average" THEN Aggregate(Reaggregate(agg), Column("val"))
      ELSE IF sum = Null \/ cnt \in {Null, 0} THEN Null
      ELSE Ratio(sum, cnt)

Answer ==
  /\ pc = "answer"
  /\ answer' = [g \in {Group(t) : t \in joined} |-> OuterMeasure({t \in joined : Group(t) = g})]
  /\ pc' = "done"
  /\ UNCHANGED <<inputs, cte, joined>>

Next == PreAggregate \/ JoinTables \/ Answer

Spec == Init /\ [][Next]_vars
--------------------------------------------------------------------------------
(***************************************************************************)
(* The measure without the rewrite, were a row of the base counted once in *)
(* a group however many rows of the other fact it meets.                   *)
(***************************************************************************)
RawJoined == From(BaseRows, OtherRows)

RowsIn(g) == {t[1] : t \in {u \in RawJoined : Group(u) = g}} \ {Null}

Meant == [g \in {Group(t) : t \in RawJoined} |-> Aggregate(agg, [b \in RowsIn(g) |-> b[2]])]

(***************************************************************************)
(* The rewritten query gives the groups and the values the measure means,  *)
(* whatever the tables hold and the joins are.  Only a count over no row,  *)
(* which a full join can ask for, is NULL instead of 0                     *)
(* (chasm_trap.rs:369-378 sums the counts).                                *)
(***************************************************************************)
RewriteExact ==
  pc = "done" =>
    /\ DOMAIN answer = DOMAIN Meant
    /\ \A g \in DOMAIN Meant :
         \/ answer[g] = Meant[g]
         \/ agg = "count" /\ "full" \in {types[1], types[2]} /\ RowsIn(g) = {} /\ answer[g] = Null

(***************************************************************************)
(* "Get true store-level totals" (may_core/tests/integration/              *)
(* chasm_trap_e2e_test.rs:182-237): added up over the keys of the other    *)
(* fact, the sums of an attribute are those of base and link alone.        *)
(***************************************************************************)
TotalsAgree ==
  pc = "done" /\ agg = "sum" /\ types = <<"left", "left">> /\ "link" \in grain =>
    \A a \in Attribute :
      LET groups == {g \in DOMAIN answer : g.link = a /\ answer[g] # Null}
          rows   == {b \in BaseRows : b[2] # Null /\ <<b[1], a>> \in LinkRows}
      IN  Total(answer, groups) = Total([b \in rows |-> b[2]], rows)
================================================================================
