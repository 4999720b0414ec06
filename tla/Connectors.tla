------------------------------- MODULE Connectors ------------------------------
(***************************************************************************)
(* One warehouse connector of any of the three kinds, used by several      *)
(* calls at once: whichever it is, its streams keep the promise of         *)
(* RowStream and end.  A behaviour is one of the chosen connector; the     *)
(* variables the connector does not have stay as they are.                 *)
(***************************************************************************)
EXTENDS Warehouse

CONSTANTS
  Kinds,                                      \* the kinds a run looks at
  TokenLife, MaxPolls, FirstDelay, MaxDelay,  \* Snowflake
  Lives,                                      \* BigQuery
  QueryTimeout, MaxErrors                     \* Postgres

VARIABLES kind, polls, delay, wake, mgr, goal

SF == INSTANCE Snowflake
BQ == INSTANCE BigQuery
PG == INSTANCE Postgres

ASSUME ConnectorsAssumption ==
  SF!Assumption /\ BQ!Assumption /\ PG!Assumption /\ Stream!Assumption

sfOnly == <<polls, delay, wake>>
bqOnly == <<mgr, goal>>
vars   == <<clock, pc, began, tok, cache, lock, part, out, kind, sfOnly, bqOnly>>

Init == kind \in Kinds /\ SF!Init /\ BQ!Init

SnowflakeNext == kind = "snowflake" /\ SF!Next /\ UNCHANGED <<kind, bqOnly>>
BigQueryNext  == kind = "bigquery"  /\ BQ!Next /\ UNCHANGED <<kind, sfOnly>>
PostgresNext  == kind = "postgres"  /\ PG!Next /\ UNCHANGED <<kind, sfOnly, bqOnly>>

(* The clock is at its bound: nothing more need happen.  (StreamsEnd finds stuck calls.) *)
Over == clock = MaxTime /\ UNCHANGED vars

Next == SnowflakeNext \/ BigQueryNext \/ PostgresNext \/ Over

Spec == Init /\ [][Next]_vars

FairSpec ==
  /\ Spec
  /\ kind = "snowflake" => SF!Fairness
  /\ kind = "bigquery"  => BQ!Fairness
  /\ kind = "postgres"  => PG!Fairness

--------------------------------------------------------------------------------
TypeOK ==
  /\ kind = "snowflake" => SF!TypeOK
  /\ kind = "bigquery"  => BQ!TypeOK
  /\ kind = "postgres"  => PG!TypeOK

(* snowflake.rs: a statement's token outlives its first Margin. *)
LiveWithinMargin == kind = "snowflake" => SF!LiveWithinMargin

(* snowflake.rs: the mutex belongs to the call that signs. *)
SignerHoldsLock == kind = "snowflake" => SF!SignerHoldsLock

(* snowflake.rs: no statement is given up before its budget of sleeps is spent. *)
AbandonedLate == kind = "snowflake" => SF!AbandonedLate

(* bigquery.rs: no request carries an expired token. *)
LiveTokenSent == kind = "bigquery" => BQ!LiveTokenSent

(* bigquery.rs: one call at a time, and only one, makes the auth_manager. *)
ManagerMadeOnce == kind = "bigquery" => BQ!ManagerMadeOnce

(* bigquery.rs: the auth_manager is there when execute unwraps it. *)
ManagerBeforeUnwrap == kind = "bigquery" => BQ!ManagerBeforeUnwrap

(* postgres.rs: QUERY_TIMEOUT bounds the query, as its comment has it. *)
QueryWithinTimeout == kind = "postgres" => PG!QueryWithinTimeout

(* Every connector: rows in order, each once, all of them or an error. *)
ImplementsRowStream == Stream!Spec

(***************************************************************************)
(* Every connector: each stream ends, whatever fails and whoever holds a   *)
(* lock, provided that the other side answers.                             *)
(***************************************************************************)
StreamsEnd == \A c \in Caller : <>(pc[c] \in Ended)
================================================================================
