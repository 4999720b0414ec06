------------------------------- MODULE Warehouse -------------------------------
(***************************************************************************)
(* What the warehouse connectors of may_connectors have in common: calls   *)
(* of execute that share one connector, each with a statement whose result *)
(* the warehouse cuts into pages (Snowflake's partitions, BigQuery's       *)
(* pages; Postgres sends row after row).  Rows are their positions in the  *)
(* result and an Err item is 0, as in RowStream.                           *)
(*                                                                         *)
(* The rows of a page are those its answer shows the connector.  What an   *)
(* answer leaves out or garbles - no array of rows, an element that is no  *)
(* row - is skipped without an error and counts for no row here: that a    *)
(* result is whole is said of the answers, not of the table behind them.   *)
(*                                                                         *)
(* Time is a clock in units of the smallest delay; MaxTime bounds it.      *)
(***************************************************************************)
EXTENDS Naturals, Sequences

CONSTANTS
  Caller,   \* calls of execute, one each
  Upto,     \* Upto[c][p]: rows in the first p pages of c's result; <<>>: no result set
  Margin,   \* the 60 s a cached token must still have
  MaxTime,  \* bound on the clock
  None      \* an unheld lock

ASSUME UptoAssumption ==
  /\ Upto \in [Caller -> Seq(Nat)]
  /\ \A c \in Caller : \A p, q \in DOMAIN Upto[c] : p < q => Upto[c][p] <= Upto[c][q]
ASSUME TimeAssumption == Margin \in Nat /\ MaxTime \in Nat \ {0}
ASSUME NoneIsNoCaller == None \notin Caller

VARIABLES
  clock,
  pc,      \* control state of each call
  began,   \* began[c]: the time call c reads the clock first
  tok,     \* tok[c]: the expiry of the token call c sends, 0 for none
  cache,   \* the expiry of the cached token, 0 for none
  lock,    \* who holds the lock that is kept while a secret is fetched
  part,    \* part[c]: the page of the result call c wants next
  out      \* out[c]: what the stream of c has given

Error == 0

Pages(c)     == Len(Upto[c])
RowCount(c)  == IF Pages(c) = 0 THEN 0 ELSE Upto[c][Pages(c)]
Before(c, p) == IF p = 1 THEN 0 ELSE Upto[c][p - 1]
Page(c, p)   == [i \in 1..(Upto[c][p] - Before(c, p)) |-> Before(c, p) + i]

Goto(c, at) == pc' = [pc EXCEPT ![c] = at]

(* The stream gives items; `yield Err(..); return`. *)
Yield(c, items) == out' = [out EXCEPT ![c] = @ \o items]
Fail(c, items)  == Yield(c, Append(items, Error)) /\ Goto(c, "done")

(***************************************************************************)
(* A cell of page p cannot be decoded: the rows before its row have been   *)
(* given already.                                                          *)
(***************************************************************************)
BadCell(c, p) == \E k \in DOMAIN Page(c, p) : Fail(c, SubSeq(Page(c, p), 1, k - 1))

(* A server takes a request whose token has not expired. *)
Live(c) == tok[c] > clock

Ended == {"done", "abandoned"}

SharedInit ==
  /\ clock = 1
  /\ pc    = [c \in Caller |-> "idle"]
  /\ began = [c \in Caller |-> 0]
  /\ tok   = [c \in Caller |-> 0]
  /\ cache = 0
  /\ lock  = None
  /\ part  = [c \in Caller |-> 1]
  /\ out   = [c \in Caller |-> <<>>]

SharedTypeOK ==
  /\ clock \in 1..MaxTime
  /\ began \in [Caller -> 0..MaxTime]
  /\ tok   \in [Caller -> Nat]
  /\ cache \in Nat
  /\ lock  \in Caller \cup {None}
  /\ part  \in [Caller -> Nat]
  /\ out   \in [Caller -> Seq(Nat)]

(* The promise of execute, for every connector. *)
Stream == INSTANCE RowStream WITH
  Total <- [c \in Caller |-> RowCount(c)],
  ended <- [c \in Caller |-> pc[c] \in Ended]
================================================================================
