------------------------------ MODULE MCConnectors -----------------------------
(***************************************************************************)
(* Connectors on a small instance: one statement with a result in three    *)
(* pages, the second of them empty, and one without a result set.          *)
(***************************************************************************)
EXTENDS Connectors, TLC

CONSTANTS c1, c2

MCUpto == (c1 :> <<1, 1, 3>>) @@ (c2 :> <<>>)
================================================================================
