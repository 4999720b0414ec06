------------------------------- MODULE MCGateway -------------------------------
(***************************************************************************)
(* Gateway on a shop: model m1 has orders and returns, two facts, and      *)
(* customers and staff on one table; model m2 gives the name customers to  *)
(* something on the table of m1's orders.  Worlds are this one and those   *)
(* one or two declarations away from it.                                   *)
(***************************************************************************)
EXTENDS Gateway, TLC

CONSTANTS m1, m2, orders, returns, customers, staff, day, title, badge, reason,
          amount, sales, refunds, month, era, t_orders, t_returns, t_people, role, area, label

MCTableOf == [p \in Place |-> CASE p[2] = orders -> t_orders
                                [] p[2] = returns -> t_returns
                                [] p = <<m2, customers>> -> t_orders
                                [] OTHER -> t_people]

(* The column of a dimension has the dimension's name, but for those on t_orders beside the day. *)
MCColumnOf == [x \in Model \X Entity \X Dimension |->
                 IF MCTableOf[<<x[1], x[2]>>] = t_orders /\ x[3] # day THEN label ELSE x[3]]
MCColumns  == [t \in Table |-> CASE t = t_orders -> {day, label}
                                 [] t = t_returns -> {reason}
                                 [] OTHER -> {title, badge}]

(* A function of f that is 1 on s, 0 elsewhere. *)
Once(f, s) == [x \in f |-> IF x \in s THEN 1 ELSE 0]

OwnDims == {<<m1, orders, day>>, <<m1, customers, title>>, <<m1, staff, badge>>, <<m1, returns, reason>>}

Shop ==
  [entities |-> {<<m1, orders>>, <<m1, returns>>, <<m1, customers>>, <<m1, staff>>, <<m2, customers>>},
   dims     |-> Once(Model \X Entity \X Dimension, OwnDims \cup {<<m2, customers, title>>}),
   measures |-> Once(Model \X Entity \X Measure, {<<m1, orders, amount>>}),
   metrics  |-> {[model |-> m1, name |-> sales, measure |-> amount, dims |-> {}]},
   links    |-> {{orders, customers}, {returns, customers}, {orders, staff}},
   policies |-> {[of |-> <<m1, staff>>, claim |-> role, dim |-> badge],
                 [of |-> <<m2, customers>>, claim |-> area, dim |-> title]}]

(* m2 gone: every name is unique. *)
Single ==
  [Shop EXCEPT !.entities = {p \in @ : p[1] = m1}, !.dims = Once(Model \X Entity \X Dimension, OwnDims),
               !.policies = {p \in @ : p.of[1] = m1}]

Empty ==
  [Shop EXCEPT !.entities = {}, !.dims = Once(DOMAIN Shop.dims, {}),
               !.measures = Once(DOMAIN Shop.measures, {}),
               !.metrics = {}, !.links = {}, !.policies = {}]

Redeclared(w) ==
  {[w EXCEPT !.dims = [w.dims EXCEPT ![x] = n]] :
     x \in {<<m1, orders, day>>, <<m1, orders, title>>, <<m1, customers, title>>,
            <<m1, staff, badge>>, <<m1, returns, reason>>}, n \in 0..2}
  \cup {[w EXCEPT !.measures = [w.measures EXCEPT ![x] = n]] : x \in {<<m1, orders, amount>>, <<m1, returns, amount>>}, n \in 0..2}

Rejoined(w) == {[w EXCEPT !.links = s] : s \in SUBSET w.links}

Remeasured(w) ==
  {[w EXCEPT !.metrics = {[model |-> m1, name |-> sales, measure |-> amount, dims |-> ds]}] :
     ds \in {{title}, {badge}, {reason, day}}}
  \cup {[w EXCEPT !.metrics = @ \cup {[model |-> m2, name |-> sales, measure |-> amount, dims |-> {}]}]}

MCWorlds ==
  {Empty, [Single EXCEPT !.entities = @ \ {<<m1, staff>>}, !.dims = Once(Model \X Entity \X Dimension, OwnDims \ {<<m1, staff, badge>>}), !.policies = {}]}
  \cup UNION {Redeclared(w) \cup Rejoined(w) \cup Remeasured(w) : w \in {Shop, Single}}

MCRequests ==
  {[metric |-> sales, dims |-> ds, filters |-> fs, grain |-> g] :
     ds \in {{}, {title}, {badge}, {title, badge}, {reason}, {day}},
     fs \in {{}, {title}, {badge}}, g \in {None, month, era}}
  \cup {[metric |-> n, dims |-> {}, filters |-> {}, grain |-> None] : n \in {refunds, Blank}}

Plain == [metrics |-> 1, limit |-> None, bounds |-> FALSE]
Asking(who, ctx, b, t, q) == [caller |-> who, context |-> ctx, body |-> b, text |-> t, quotes |-> q]

MCContexts == {None, {}, {role}, {role, area}}

MCAsks ==
  {Asking("library", ctx, Plain, "other", FALSE) : ctx \in {{}, {role}, {role, area}}}
  \cup {Asking("rest", None, b, "other", FALSE) :
          b \in {Plain} \cup {[Plain EXCEPT !.metrics = 0], [Plain EXCEPT !.limit = MaxLimit],
                             [Plain EXCEPT !.limit = MaxLimit + 1], [Plain EXCEPT !.bounds = TRUE]}}
  \cup {Asking("wire", None, Plain, t, FALSE) : t \in Text}
  \cup {Asking("wire", None, Plain, "SEMANTIC", TRUE)}
================================================================================
