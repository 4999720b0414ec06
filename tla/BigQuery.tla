-------------------------------- MODULE BigQuery -------------------------------
(***************************************************************************)
(* may_connectors/src/dwh/bigquery.rs: BigQueryConnector.                  *)
(*                                                                         *)
(* Calls share a token cache and an auth_manager, made on first use from   *)
(* the service account's key.  Every request, the POST, each poll and each *)
(* further page, gets its token from the cache, or from the manager when   *)
(* the cached one is within Margin of its expiry; the fetch is made with   *)
(* no lock held, so that several may be on their way.  Polling has no      *)
(* limit of its own.                                                       *)
(*                                                                         *)
(* External: BigQuery refuses an expired token, may fail any request,      *)
(* keeps a complete job complete and sends a schema exactly when there is  *)
(* a result set; gcp_auth gives a token that has not expired, with any     *)
(* life in Lives.  Between getting a token and sending it no time passes.  *)
(* seed_cache_for_test, a hook of the tests, is not modelled.              *)
(***************************************************************************)
EXTENDS Warehouse

CONSTANT Lives  \* what a token the provider gives may have left

Assumption == Lives \subseteq Nat \ {0}

VARIABLES
  mgr,   \* auth_manager is Some
  goal   \* goal[c]: the request call c needs a token for

vars == <<clock, pc, began, tok, cache, lock, part, out, mgr, goal>>

--------------------------------------------------------------------------------
Fresh == clock + Margin < cache

UseCached(c) == Fresh /\ tok' = [tok EXCEPT ![c] = cache] /\ Goto(c, "send")

(* get_token looks in the cache first. *)
GetToken(c) ==
  /\ pc[c] = "idle"
  /\ began' = [began EXCEPT ![c] = clock]
  /\ \/ UseCached(c)
     \/ ~Fresh /\ Goto(c, "manager") /\ UNCHANGED tok
  /\ UNCHANGED <<clock, cache, lock, part, out, mgr, goal>>

(* Is there a manager?  The read lock waits for whoever is making one. *)
ReadManager(c) ==
  /\ pc[c] = "manager" /\ lock = None
  /\ Goto(c, IF mgr THEN "token" ELSE "make")
  /\ UNCHANGED <<clock, began, tok, cache, lock, part, out, mgr, goal>>

(* Under the write lock, it looks again: another call may have made it meanwhile. *)
LockManager(c) ==
  /\ pc[c] = "make" /\ lock = None
  /\ \/ mgr /\ Goto(c, "token") /\ UNCHANGED lock
     \/ ~mgr /\ lock' = c /\ Goto(c, "secret")
  /\ UNCHANGED <<clock, began, tok, cache, part, out, mgr, goal>>

(* Mutant: the manager made is not kept. *)
MakeManagerUnkept(c) ==
  /\ pc[c] = "secret"
  /\ lock' = None
  /\ Goto(c, "token")
  /\ UNCHANGED <<clock, began, tok, cache, part, out, mgr, goal>>

(* The write lock is held until the key is here and parsed. *)
MakeManager(c) ==
  /\ pc[c] = "secret"
  /\ mgr'  = TRUE
  /\ lock' = None
  /\ Goto(c, "token")
  /\ UNCHANGED <<clock, began, tok, cache, part, out, goal>>

SecretFails(c) ==
  /\ pc[c] = "secret"
  /\ lock' = None
  /\ Fail(c, <<>>)
  /\ UNCHANGED <<clock, began, tok, cache, part, mgr, goal>>

--------------------------------------------------------------------------------
(* fetch_or_refresh_token: the cache again, under its read lock, *)
LookAgain(c) ==
  /\ pc[c] = "token"
  /\ \/ UseCached(c)
     \/ ~Fresh /\ Goto(c, "fetch") /\ UNCHANGED tok
  /\ UNCHANGED <<clock, began, cache, lock, part, out, mgr, goal>>

(* then the provider, with no lock held, *)
TokenArrives(c) ==
  /\ pc[c] = "fetch"
  /\ \E life \in Lives : tok' = [tok EXCEPT ![c] = clock + life]
  /\ Goto(c, "store")
  /\ UNCHANGED <<clock, began, cache, lock, part, out, mgr, goal>>

TokenFails(c) ==
  /\ pc[c] = "fetch"
  /\ Fail(c, <<>>)
  /\ UNCHANGED <<clock, began, tok, cache, lock, part, mgr, goal>>

(* Mutant: the call goes on with what the cache holds, perhaps another's older token. *)
StoreIfEmpty(c) ==
  /\ pc[c] = "store"
  /\ cache' = IF cache = 0 THEN tok[c] ELSE cache
  /\ tok'   = [tok EXCEPT ![c] = cache']
  /\ Goto(c, "send")
  /\ UNCHANGED <<clock, began, lock, part, out, mgr, goal>>

(* and its answer replaces whatever is cached by now. *)
StoreToken(c) ==
  /\ pc[c] = "store"
  /\ cache' = tok[c]
  /\ Goto(c, "send")
  /\ UNCHANGED <<clock, began, tok, lock, part, out, mgr, goal>>

--------------------------------------------------------------------------------
requestVars == <<clock, began, tok, cache, lock, mgr>>

(* A request fails, or its answer does not parse. *)
RequestFails(c) ==
  /\ pc[c] = "send"
  /\ Fail(c, <<>>)
  /\ UNCHANGED <<requestVars, part, goal>>

(***************************************************************************)
(* A complete job's answer: no schema, or rows and perhaps a pageToken; an *)
(* answer without "rows" is an empty page.                                 *)
(***************************************************************************)
Answered(c) ==
  \/ Pages(c) = 0 /\ Goto(c, "done") /\ UNCHANGED <<part, out, goal>>
  \/ /\ Pages(c) > 0
     /\ \/ /\ Yield(c, Page(c, part[c]))
           /\ \/ /\ part[c] < Pages(c)
                 /\ part' = [part EXCEPT ![c] = @ + 1]
                 /\ goal' = [goal EXCEPT ![c] = "page"]
                 /\ Goto(c, "token")
              \/ part[c] = Pages(c) /\ Goto(c, "done") /\ UNCHANGED <<part, goal>>
        \/ BadCell(c, part[c]) /\ UNCHANGED <<part, goal>>

(* The answer to the POST, to a poll or to a page's GET. *)
Complete(c) ==
  /\ pc[c] = "send" /\ Live(c)
  /\ Answered(c)
  /\ UNCHANGED requestVars

(* jobComplete is false: poll, with a token got anew. *)
Incomplete(c) ==
  /\ pc[c] = "send" /\ Live(c) /\ goal[c] # "page"
  /\ goal' = [goal EXCEPT ![c] = "poll"]
  /\ Goto(c, "token")
  /\ UNCHANGED <<requestVars, part, out>>

--------------------------------------------------------------------------------
Init ==
  /\ SharedInit
  /\ mgr  = FALSE
  /\ goal = [c \in Caller |-> "submit"]

Call(c) ==
  \/ GetToken(c) \/ ReadManager(c) \/ LockManager(c) \/ MakeManager(c) \/ SecretFails(c)
  \/ LookAgain(c) \/ TokenArrives(c) \/ TokenFails(c) \/ StoreToken(c)
  \/ RequestFails(c) \/ Complete(c) \/ Incomplete(c)

Tick ==
  /\ clock < MaxTime
  /\ \A c \in Caller : pc[c] \notin {"store", "send"}
  /\ clock' = clock + 1
  /\ UNCHANGED <<pc, began, tok, cache, lock, part, out, mgr, goal>>

Next == Tick \/ \E c \in Caller : Call(c)

Spec == Init /\ [][Next]_vars

(***************************************************************************)
(* Everything asked is answered, and a job that is polled again and again  *)
(* is some time found complete: the loop itself has no limit.              *)
(***************************************************************************)
Fairness ==
  \A c \in Caller : WF_vars(Call(c)) /\ SF_vars(Complete(c))

--------------------------------------------------------------------------------
TypeOK ==
  /\ SharedTypeOK
  /\ pc \in [Caller -> {"idle", "manager", "make", "secret", "token", "fetch", "store", "send"}
                         \cup Ended]
  /\ mgr \in BOOLEAN
  /\ goal \in [Caller -> {"submit", "poll", "page"}]

(***************************************************************************)
(* However the fetches of several calls overwrite each other, every        *)
(* request carries a token that has not expired.                           *)
(***************************************************************************)
LiveTokenSent == \A c \in Caller : pc[c] = "send" => Live(c)

(***************************************************************************)
(* A call that fetches the key has the write lock, and no manager has been *)
(* made: the key is read once for the life of the connector.               *)
(***************************************************************************)
ManagerMadeOnce ==
  \A c \in Caller : /\ pc[c] = "secret" <=> lock = c
                    /\ pc[c] = "secret" => ~mgr

(***************************************************************************)
(* execute unwraps auth_manager when the POST is answered, also when its   *)
(* token came from the cache and it never asked for the manager.           *)
(***************************************************************************)
ManagerBeforeUnwrap == \A c \in Caller : pc[c] = "send" => mgr
================================================================================
