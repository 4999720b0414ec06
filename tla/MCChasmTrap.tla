----------------------------- MODULE MCChasmTrap -------------------------------
(***************************************************************************)
(* ChasmTrap on a shop: orders, returns and archived orders are facts of   *)
(* customers; orders and customers lie in a region, and returns name their *)
(* order too, which may leave them without a hop to the link.  The archive *)
(* is a table of the same name as orders' in another schema, so the two    *)
(* share a CTE name.  Plans are all ordered trees of up to three joins     *)
(* with two facts in them, which is what JoinPlanner can end with.         *)
(***************************************************************************)
EXTENDS ChasmTrap, TLC

CONSTANTS orders, returns, archive, customers, regions,
          id, customer_id, buyer_id, region_id, order_id, created_at, reason,
          title, amount, balance

MCEntity  == {orders, returns, archive, customers, regions}
MCFact    == {orders, returns, archive}
MCTable   == {<<"public", "orders">>, <<"public", "returns">>, <<"archive", "orders">>,
              <<"public", "customers">>, <<"public", "regions">>}
MCTableOf == (orders :> <<"public", "orders">>) @@ (returns :> <<"public", "returns">>)
               @@ (archive :> <<"archive", "orders">>)
               @@ (customers :> <<"public", "customers">>)
               @@ (regions :> <<"public", "regions">>)
MCCteName == [t \in MCTable |-> t[2]]
MCColumn  == {id, customer_id, buyer_id, region_id, order_id, created_at, reason, title,
              amount, balance}

MCColumnsOf == (orders :> {id, buyer_id, region_id, created_at, amount})
                 @@ (returns :> {id, customer_id, order_id, reason, amount})
                 @@ (archive :> {id, customer_id, amount})
                 @@ (customers :> {id, region_id, title, balance})
                 @@ (regions :> {id, title, balance})
MCColumns == [t \in MCTable |-> MCColumnsOf[CHOOSE e \in MCEntity : MCTableOf[e] = t]]

MCDimension == {<<orders, buyer_id>>, <<orders, created_at>>, <<returns, customer_id>>,
                <<returns, reason>>, <<archive, customer_id>>, <<customers, title>>,
                <<regions, title>>}

Declared ==
  { [left |-> orders,    right |-> customers, lcol |-> buyer_id,    rcol |-> id],
    [left |-> returns,   right |-> customers, lcol |-> customer_id, rcol |-> id],
    [left |-> archive,   right |-> customers, lcol |-> customer_id, rcol |-> id],
    [left |-> orders,    right |-> regions,   lcol |-> region_id,   rcol |-> id],
    [left |-> customers, right |-> regions,   lcol |-> region_id,   rcol |-> id],
    [left |-> returns,   right |-> orders,    lcol |-> order_id,    rcol |-> id] }

Edges == Declared \cup {[left |-> j.right, right |-> j.left, lcol |-> j.rcol, rcol |-> j.lcol] :
                          j \in Declared}

MCPlans ==
  {<<b, js>> \in MCEntity \X (UNION {[1..n -> Edges] : n \in 1..3}) :
     Tree(b, js) /\ Several(b, js)}
================================================================================
