---------------------------- MODULE MCSemanticState ----------------------------
(***************************************************************************)
(* SemanticState on a small instance.  Two model names, three valid        *)
(* documents: `sales` declares the entity orders; `people` declares users  *)
(* and joins orders to it, so its graph builds only beside `sales`;        *)
(* `sales2` is another document named sales that renames the entity to     *)
(* invoices, so that loading it after `people` breaks the graph.           *)
(***************************************************************************)
EXTENDS SemanticState, TLC

CONSTANTS sales, sales2, people, broken, orders, invoices, users, nSales, nPeople

MCDoc      == {sales, sales2, people, broken}
MCValid    == {sales, sales2, people}
MCDirs     == {{}, {sales, people}, {sales2, broken}, {sales, sales2}}
MCName     == {nSales, nPeople}
MCEntity   == {orders, invoices, users}
MCNameOf   == (sales :> nSales) @@ (sales2 :> nSales) @@ (people :> nPeople)
MCEntities == (sales :> {orders}) @@ (sales2 :> {invoices}) @@ (people :> {users})
MCJoins    == (sales :> {}) @@ (sales2 :> {}) @@ (people :> {<<orders, users>>})
================================================================================
