------------------------------- MODULE RowStream -------------------------------
(***************************************************************************)
(* may_connectors/src/traits.rs and models.rs: what                        *)
(* WarehouseConnector::execute promises whoever reads its QueryResult, for *)
(* each of the warehouses.  A row is its position in the result of the     *)
(* statement, 1 .. Total[c]; an Err item is 0.  The stream gives the rows  *)
(* of the result in order, each of them once.  It ends without an error    *)
(* only after the last row, and after an error gives no row any more.      *)
(***************************************************************************)
EXTENDS Naturals, Sequences

CONSTANTS
  Caller,  \* calls of execute
  Total    \* Total[c]: how many rows the statement of call c has

Assumption == Total \in [Caller -> Nat]

VARIABLES
  out,     \* out[c]: the items the stream of call c has given
  ended    \* ended[c]: the stream has given its last item

Error     == 0
Prefix(n) == [i \in 1..n |-> i]
Failed(s) == s # <<>> /\ s[Len(s)] = Error

Init ==
  /\ out   = [c \in Caller |-> <<>>]
  /\ ended = [c \in Caller |-> FALSE]

(* Some more of the rows, in order, or none. *)
Gives(c) ==
  \E n \in Len(out[c])..Total[c] : out' = [out EXCEPT ![c] = Prefix(n)]

(* Some more of the rows, and an error. *)
Breaks(c) ==
  \E n \in Len(out[c])..Total[c] : out' = [out EXCEPT ![c] = Append(Prefix(n), Error)]

(***************************************************************************)
(* One step of call c.  A stream that has not failed gives rows, and ends  *)
(* only with the last one, or fails; one that has failed can fail again.   *)
(***************************************************************************)
Step(c) ==
  /\ ~ended[c]
  /\ \E e \in BOOLEAN : ended' = [ended EXCEPT ![c] = e]
  /\ \/ /\ ~Failed(out[c])
        /\ \/ Gives(c) /\ (ended'[c] => Len(out'[c]) = Total[c])
           \/ Breaks(c)
     \/ /\ Failed(out[c])
        /\ out' \in {out, [out EXCEPT ![c] = Append(@, Error)]}

Next == \E c \in Caller : Step(c)

Spec == Init /\ [][Next]_<<out, ended>>
================================================================================
