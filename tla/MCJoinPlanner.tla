----------------------------- MODULE MCJoinPlanner -----------------------------
(***************************************************************************)
(* JoinPlanner on the model of a small shop.  Orders and returns are       *)
(* facts.  Orders name a buyer and a receiver, two entities on the table   *)
(* users; both users live in a region, and returns name a user and an      *)
(* order, so that there are cycles, even and odd, and equally short ways.  *)
(* Two declarations join orders to the buyer on different columns.  Any    *)
(* subset of the declarations may be loaded, any entity may carry the      *)
(* measure.                                                                *)
(***************************************************************************)
EXTENDS JoinPlanner, TLC

CONSTANTS orders, returns, buyer, receiver, region,
          tOrders, tReturns, tUsers, tRegions,
          id, buyer_id, payer_id, receiver_id, region_id, user_id, order_id

MCEntity  == {orders, returns, buyer, receiver, region}
MCTable   == {tOrders, tReturns, tUsers, tRegions}
MCColumn  == {id, buyer_id, payer_id, receiver_id, region_id, user_id, order_id}
MCFact    == {orders, returns}
MCKeyOf   == [e \in MCEntity |-> id]
MCTableOf == (orders :> tOrders) @@ (returns :> tReturns) @@ (buyer :> tUsers)
               @@ (receiver :> tUsers) @@ (region :> tRegions)

Join(l, lc, r) == [left |-> l, right |-> r, lcol |-> lc, rcol |-> id]

MCDeclared ==
  { Join(orders, buyer_id, buyer), Join(orders, payer_id, buyer),
    Join(orders, receiver_id, receiver), Join(returns, user_id, buyer),
    Join(buyer, region_id, region), Join(receiver, region_id, region),
    Join(returns, order_id, orders) }

(* No table is called like a numbered alias of another. *)
MCNumbered == [t \in MCTable |-> [n \in 1..5 |-> <<t, n>>]]
================================================================================
