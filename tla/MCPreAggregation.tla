--------------------------- MODULE MCPreAggregation ----------------------------
(***************************************************************************)
(* PreAggregation on up to three payments of two customers, in one store   *)
(* or two, with up to two rentals of each.  A payment may have no amount   *)
(* or no customer, and a customer may be missing.  Three payments are the  *)
(* fewest that tell an average from an average of averages.                *)
(***************************************************************************)
EXTENDS PreAggregation, TLC

CONSTANTS c1, c2, s1, s2

MCRow   == {<<c1, 1>>, <<c1, 2>>, <<c2, 2>>, <<c2, Null>>, <<Null, 1>>}
MCLinks == {<<>>, c1 :> s1, (c1 :> s1) @@ (c2 :> s1), (c1 :> s1) @@ (c2 :> s2)}
================================================================================
