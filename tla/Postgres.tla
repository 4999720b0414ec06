-------------------------------- MODULE Postgres -------------------------------
(***************************************************************************)
(* may_connectors/src/dwh/postgres.rs: PostgresConnector.  Each call       *)
(* fetches the secret and connects under a timeout, and returns a stream   *)
(* that runs the query on its own connection, outside the timeout.         *)
(*                                                                         *)
(* External: the server gives the rows in order and may fail at any time;  *)
(* after an error tokio_postgres's row stream may end or fail again, when  *)
(* the connection is gone (MaxErrors bounds how often).                    *)
(***************************************************************************)
EXTENDS Warehouse

CONSTANTS
  QueryTimeout,  \* QUERY_TIMEOUT, 30 s
  MaxErrors      \* bound on what a stream gives beyond its rows

Assumption == QueryTimeout \in Nat /\ MaxErrors \in Nat

vars == <<clock, pc, began, tok, cache, lock, part, out>>
rest == <<clock, began, tok, cache, lock, part>>

(* The last item given was an error. *)
Broken(c) == out[c] # <<>> /\ out[c][Len(out[c])] = Error

(* execute: timeout(QUERY_TIMEOUT, ..) starts. *)
Connect(c) ==
  /\ pc[c] = "idle"
  /\ began' = [began EXCEPT ![c] = clock]
  /\ Goto(c, "connect")
  /\ UNCHANGED <<clock, tok, cache, lock, part, out>>

Connected(c) ==
  /\ pc[c] = "connect"
  /\ Goto(c, "query")
  /\ UNCHANGED <<rest, out>>

(* The secret is missing or of another kind, the server refuses, or the timeout is over. *)
ConnectFails(c) ==
  /\ pc[c] = "connect"
  /\ Fail(c, <<>>)
  /\ UNCHANGED rest

(* query_raw, when the stream is first polled. *)
QueryRuns(c) ==
  /\ pc[c] = "query"
  /\ Goto(c, "rows")
  /\ UNCHANGED <<rest, out>>

QueryFails(c) ==
  /\ pc[c] = "query"
  /\ Fail(c, <<>>)
  /\ UNCHANGED rest

Row(c) ==
  /\ pc[c] = "rows" /\ ~Broken(c) /\ Len(out[c]) < RowCount(c)
  /\ Yield(c, <<Len(out[c]) + 1>>)
  /\ UNCHANGED <<rest, pc>>

(* A column of a row cannot be mapped: `yield Err(e); return`. *)
RowUnreadable(c) ==
  /\ pc[c] = "rows" /\ ~Broken(c) /\ Len(out[c]) < RowCount(c)
  /\ Fail(c, <<>>)
  /\ UNCHANGED rest

(* The row stream fails: the error is passed on and the loop goes round again. *)
RowError(c) ==
  /\ pc[c] = "rows" /\ Len(out[c]) < RowCount(c) + MaxErrors
  /\ Yield(c, <<Error>>)
  /\ UNCHANGED <<rest, pc>>

RowsEnd(c) ==
  /\ pc[c] = "rows" /\ (Broken(c) \/ Len(out[c]) = RowCount(c))
  /\ Goto(c, "done")
  /\ UNCHANGED <<rest, out>>

--------------------------------------------------------------------------------
Init == SharedInit

Call(c) ==
  \/ Connect(c) \/ Connected(c) \/ ConnectFails(c)
  \/ QueryRuns(c) \/ QueryFails(c)
  \/ Row(c) \/ RowUnreadable(c) \/ RowError(c) \/ RowsEnd(c)

(* The timeout fires when it is due. *)
Tick ==
  /\ clock < MaxTime
  /\ \A c \in Caller : pc[c] = "connect" => clock < began[c] + QueryTimeout
  /\ clock' = clock + 1
  /\ UNCHANGED <<pc, began, tok, cache, lock, part, out>>

Next == Tick \/ \E c \in Caller : Call(c)

Spec == Init /\ [][Next]_vars

(* The server answers; the row stream some time ends. *)
Fairness == \A c \in Caller : WF_vars(Call(c))

--------------------------------------------------------------------------------
TypeOK ==
  /\ SharedTypeOK
  /\ pc \in [Caller -> {"idle", "connect", "query", "rows"} \cup Ended]

(***************************************************************************)
(* "Maximum wall-clock time for a single Postgres query before it is       *)
(* abandoned" (postgres.rs:13): no call is still running after it.         *)
(***************************************************************************)
QueryWithinTimeout ==
  \A c \in Caller :
    pc[c] \in {"connect", "query", "rows"} => clock <= began[c] + QueryTimeout
================================================================================
