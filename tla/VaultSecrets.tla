------------------------------ MODULE VaultSecrets ------------------------------
(***************************************************************************)
(* may_secrets/src/providers/vault.rs: VaultSecretsProvider, which reads   *)
(* warehouse credentials from Vault over HTTP, keeps them in a cache with  *)
(* a time to live and, under AppRole, logs in for a token it shares among  *)
(* the calls of get_secret until the token's own time to live is over.     *)
(*                                                                         *)
(* Calls of get_secret are tasks that run concurrently.  A guard of the    *)
(* cache lock is never held across an await, nor is a read guard of the    *)
(* token lock, so what is done under one is a single step; the write guard *)
(* of the token lock is held while the login request is on its way.  A     *)
(* call may be dropped at any await (PostgresConnector::execute wraps it   *)
(* in tokio::time::timeout), which drops the guard it holds.               *)
(*                                                                         *)
(* A secret is abstracted to the instant at which Vault gave it: what a    *)
(* call returns tells how long ago its value was the one Vault had.  Vault *)
(* may refuse any token at any time.                                       *)
(***************************************************************************)
EXTENDS Naturals

CONSTANTS
  Caller,     \* tasks that call get_secret, over and over
  SecretName, \* names of secrets
  CacheTtl,   \* cache_ttl_secs
  TokenTtl,   \* token_ttl_secs
  Latency,    \* the longest an answer of Vault is on its way
  MaxTime,    \* bound: instants, the clock stops there
  MaxLogins,  \* bound: tokens Vault hands out
  None        \* no cache entry, no token, nobody

ASSUME TtlAssumption ==
  /\ CacheTtl \in Nat
  /\ TokenTtl \in Nat
  /\ Latency \in Nat
  /\ MaxTime \in Nat
  /\ MaxLogins \in Nat
ASSUME NoneAssumption ==
  /\ None \notin Caller \cup SecretName
  /\ None \notin [asOf : Nat, ts : Nat] \cup [token : Nat, ts : Nat]

VARIABLES
  now,       \* Instant::now()
  auth,      \* config.auth, "Token" or "AppRole"
  cache,     \* cache[n]: the moment of the secret and that of its insertion
  approle,   \* approle_token
  writer,    \* the call that holds the write guard of approle_token, or None
  issued,    \* the number of tokens Vault has handed out
  pc,        \* control state of each call
  name,      \* name[c]: the secret c asks for
  tok,       \* tok[c]: the token c uses; 0 for none and for the static one
  asOf,      \* asOf[c]: the instant of the secret c was given
  forgotten  \* history: tokens cleared because Vault refused them

vaultVars  == <<now, auth, issued>>
sharedVars == <<cache, approle, writer>>
callVars   == <<pc, name, tok, asOf>>
vars       == <<vaultVars, sharedVars, callVars, forgotten>>

Entry == [asOf : Nat, ts : Nat]
Token == [token : Nat, ts : Nat]

(* Mutant: an age of exactly the time to live counts as fresh. *)
FreshAtExpiry(e, ttl) == e # None /\ now - e.ts <= ttl

(* ts.elapsed() < ttl *)
Fresh(e, ttl) == e # None /\ now - e.ts < ttl

Goto(c, s) == pc' = [pc EXCEPT ![c] = s]

Init ==
  /\ now       = 0
  /\ auth      \in {"Token", "AppRole"}
  /\ cache     = [n \in SecretName |-> None]
  /\ approle   = None
  /\ writer    = None
  /\ issued    = 0
  /\ pc        = [c \in Caller |-> "idle"]
  /\ name      = [c \in Caller |-> None]
  /\ tok       = [c \in Caller |-> 0]
  /\ asOf      = [c \in Caller |-> 0]
  /\ forgotten = {}

--------------------------------------------------------------------------------
(***************************************************************************)
(* get_secret: the cache.                                                  *)
(***************************************************************************)
Call(c) ==
  /\ pc[c] = "idle"
  /\ \E n \in SecretName : name' = [name EXCEPT ![c] = n]
  /\ Goto(c, "called")
  /\ UNCHANGED <<vaultVars, sharedVars, tok, asOf, forgotten>>

CacheHit(c) ==
  /\ pc[c] = "called"
  /\ Fresh(cache[name[c]], CacheTtl)
  /\ asOf' = [asOf EXCEPT ![c] = cache[name[c]].asOf]
  /\ Goto(c, "given")
  /\ UNCHANGED <<vaultVars, sharedVars, name, tok, forgotten>>

CacheMiss(c) ==
  /\ pc[c] = "called"
  /\ ~Fresh(cache[name[c]], CacheTtl)
  /\ Goto(c, "needsToken")
  /\ UNCHANGED <<vaultVars, sharedVars, name, tok, asOf, forgotten>>

--------------------------------------------------------------------------------
(***************************************************************************)
(* get_token.                                                              *)
(***************************************************************************)
UseStaticToken(c) ==
  /\ pc[c] = "needsToken"
  /\ auth = "Token"
  /\ Goto(c, "reading")
  /\ UNCHANGED <<vaultVars, sharedVars, name, tok, asOf, forgotten>>

UseToken(c) ==
  /\ tok' = [tok EXCEPT ![c] = approle.token]
  /\ Goto(c, "reading")

(* Under the read guard: the shared token is used if it is fresh. *)
ReadToken(c) ==
  /\ pc[c] = "needsToken"
  /\ auth = "AppRole"
  /\ writer = None
  /\ IF Fresh(approle, TokenTtl)
     THEN UseToken(c)
     ELSE Goto(c, "locking") /\ UNCHANGED tok
  /\ UNCHANGED <<vaultVars, sharedVars, name, asOf, forgotten>>

(* Mutant: the token is not looked at again under the write guard. *)
LockTokenUnchecked(c) ==
  /\ pc[c] = "locking"
  /\ writer = None
  /\ writer' = c
  /\ Goto(c, "login")
  /\ UNCHANGED <<vaultVars, cache, approle, name, tok, asOf, forgotten>>

(***************************************************************************)
(* Under the write guard: another call may have logged in meanwhile; if    *)
(* not, the guard is kept for the login.                                   *)
(***************************************************************************)
LockToken(c) ==
  /\ pc[c] = "locking"
  /\ writer = None
  /\ IF Fresh(approle, TokenTtl)
     THEN UseToken(c) /\ UNCHANGED writer
     ELSE writer' = c /\ Goto(c, "login") /\ UNCHANGED tok
  /\ UNCHANGED <<vaultVars, cache, approle, name, asOf, forgotten>>

(* Vault accepts the AppRole login and hands out a token. *)
VaultLogin(c) ==
  /\ pc[c] = "login"
  /\ issued < MaxLogins
  /\ issued' = issued + 1
  /\ tok' = [tok EXCEPT ![c] = issued + 1]
  /\ Goto(c, "loggedIn")
  /\ UNCHANGED <<now, auth, sharedVars, name, asOf, forgotten>>

(* The answer has come: the token is stored and the write guard dropped. *)
StoreToken(c) ==
  /\ pc[c] = "loggedIn"
  /\ approle' = [token |-> tok[c], ts |-> now]
  /\ writer' = None
  /\ Goto(c, "reading")
  /\ UNCHANGED <<vaultVars, cache, name, tok, asOf, forgotten>>

(* The login is refused, does not arrive, or its answer is lost or unreadable. *)
LoginFails(c) ==
  /\ pc[c] \in {"login", "loggedIn"}
  /\ writer' = None
  /\ Goto(c, "failed")
  /\ UNCHANGED <<vaultVars, cache, approle, name, tok, asOf, forgotten>>

--------------------------------------------------------------------------------
(***************************************************************************)
(* get_secret: the secret is read with the token.                          *)
(***************************************************************************)
VaultGives(c) ==
  /\ pc[c] = "reading"
  /\ asOf' = [asOf EXCEPT ![c] = now]
  /\ Goto(c, "answered")
  /\ UNCHANGED <<vaultVars, sharedVars, name, tok, forgotten>>

(* FORBIDDEN: only a token got by AppRole is forgotten. *)
VaultForbids(c) ==
  /\ pc[c] = "reading"
  /\ Goto(c, IF auth = "AppRole" THEN "forbidden" ELSE "failed")
  /\ UNCHANGED <<vaultVars, sharedVars, name, tok, asOf, forgotten>>

(* NOT_FOUND, another status, a transport error, or a body that makes no secret. *)
ReadFails(c) ==
  /\ pc[c] \in {"reading", "answered"}
  /\ Goto(c, "failed")
  /\ UNCHANGED <<vaultVars, sharedVars, name, tok, asOf, forgotten>>

CacheSecret(c) ==
  /\ pc[c] = "answered"
  /\ cache' = [cache EXCEPT ![name[c]] = [asOf |-> asOf[c], ts |-> now]]
  /\ Goto(c, "given")
  /\ UNCHANGED <<vaultVars, approle, writer, name, tok, asOf, forgotten>>

(* Mutant: the token is cleared only if it is past its time to live. *)
ForgetTokenExpired(c) ==
  /\ pc[c] = "forbidden"
  /\ writer = None
  /\ approle' = IF Fresh(approle, TokenTtl) THEN approle ELSE None
  /\ forgotten' = forgotten \cup {tok[c]}
  /\ Goto(c, "failed")
  /\ UNCHANGED <<vaultVars, cache, writer, name, tok, asOf>>

(***************************************************************************)
(* The shared token is cleared, whichever it is by now, and the call       *)
(* returns VaultError.                                                     *)
(***************************************************************************)
ForgetToken(c) ==
  /\ pc[c] = "forbidden"
  /\ writer = None
  /\ approle' = None
  /\ forgotten' = forgotten \cup {tok[c]}
  /\ Goto(c, "failed")
  /\ UNCHANGED <<vaultVars, cache, writer, name, tok, asOf>>

--------------------------------------------------------------------------------
Returned == {"given", "failed"}

(* The caller takes the result. *)
Return(c) ==
  /\ pc[c] \in Returned
  /\ Goto(c, "idle")
  /\ name' = [name EXCEPT ![c] = None]
  /\ tok'  = [tok EXCEPT ![c] = 0]
  /\ asOf' = [asOf EXCEPT ![c] = 0]
  /\ UNCHANGED <<vaultVars, sharedVars, forgotten>>

(* Mutant: a call dropped during its login leaves the guard behind. *)
CancelLocked(c) ==
  /\ pc[c] \notin Returned \cup {"idle"}
  /\ Goto(c, "idle")
  /\ name' = [name EXCEPT ![c] = None]
  /\ tok'  = [tok EXCEPT ![c] = 0]
  /\ asOf' = [asOf EXCEPT ![c] = 0]
  /\ UNCHANGED <<vaultVars, sharedVars, forgotten>>

(* The future is dropped at an await; a guard it holds is dropped with it. *)
Cancel(c) ==
  /\ pc[c] \notin Returned \cup {"idle"}
  /\ writer' = IF writer = c THEN None ELSE writer
  /\ Goto(c, "idle")
  /\ name' = [name EXCEPT ![c] = None]
  /\ tok'  = [tok EXCEPT ![c] = 0]
  /\ asOf' = [asOf EXCEPT ![c] = 0]
  /\ UNCHANGED <<vaultVars, cache, approle, forgotten>>

(* Time passes, but an answer does not stay on its way for longer than Latency. *)
Tick ==
  /\ now < MaxTime
  /\ \A c \in Caller : pc[c] = "answered" => now < asOf[c] + Latency
  /\ now' = now + 1
  /\ UNCHANGED <<auth, issued, sharedVars, callVars, forgotten>>

--------------------------------------------------------------------------------
GetToken(c) ==
  \/ UseStaticToken(c) \/ ReadToken(c) \/ LockToken(c)
  \/ VaultLogin(c) \/ StoreToken(c) \/ LoginFails(c)

ReadSecret(c) ==
  \/ VaultGives(c) \/ VaultForbids(c) \/ ReadFails(c) \/ CacheSecret(c) \/ ForgetToken(c)

GetSecret(c) ==
  Call(c) \/ CacheHit(c) \/ CacheMiss(c) \/ GetToken(c) \/ ReadSecret(c) \/ Return(c) \/ Cancel(c)

Next == Tick \/ \E c \in Caller : GetSecret(c)

Spec == Init /\ [][Next]_vars

(***************************************************************************)
(* A task that can run does, and every HTTP request is answered or fails:  *)
(* the client sets no timeout, so the code relies on it.  tokio's RwLock   *)
(* serves its queue in order, hence strong fairness for the steps that     *)
(* wait for the token lock.                                                *)
(***************************************************************************)
Fairness ==
  \A c \in Caller :
    /\ WF_vars(CacheHit(c) \/ CacheMiss(c) \/ UseStaticToken(c))
    /\ WF_vars(VaultLogin(c) \/ StoreToken(c) \/ LoginFails(c))
    /\ WF_vars(VaultGives(c) \/ VaultForbids(c) \/ ReadFails(c) \/ CacheSecret(c))
    /\ SF_vars(ReadToken(c))
    /\ SF_vars(LockToken(c))
    /\ SF_vars(ForgetToken(c))

FairSpec == Spec /\ Fairness
--------------------------------------------------------------------------------
TypeOK ==
  /\ now \in Nat
  /\ auth \in {"Token", "AppRole"}
  /\ cache \in [SecretName -> Entry \cup {None}]
  /\ approle \in Token \cup {None}
  /\ writer \in Caller \cup {None}
  /\ issued \in Nat
  /\ pc \in [Caller -> {"idle", "called", "needsToken", "locking", "login", "loggedIn",
                      "reading", "answered", "forbidden", "given", "failed"}]
  /\ name \in [Caller -> SecretName \cup {None}]
  /\ tok \in [Caller -> Nat]
  /\ asOf \in [Caller -> Nat]
  /\ forgotten \subseteq Nat

(***************************************************************************)
(* The write guard of the token is held exactly by the call that logs in:  *)
(* a login that fails, or a call dropped in the middle of one, leaves no   *)
(* guard behind, and no two logins are under way.                          *)
(***************************************************************************)
LoginHoldsGuard ==
  \A c \in Caller : writer = c <=> pc[c] \in {"login", "loggedIn"}

(***************************************************************************)
(* A token Vault has refused, once cleared, is never shared again, however *)
(* long ago the other calls read it or logged in (vault.rs:252-257).       *)
(***************************************************************************)
RefusedNotShared == approle # None => approle.token \notin forgotten

(***************************************************************************)
(* A fresh shared token is never replaced: calls that found it missing at  *)
(* the same time do not log in one after the other (vault.rs:160-165).  It *)
(* may only be cleared.                                                    *)
(***************************************************************************)
FreshTokenKept ==
  [][Fresh(approle, TokenTtl) => approle' \in {approle, None}]_approle

(***************************************************************************)
(* The secret a call returns was Vault's less than cache_ttl_secs and the  *)
(* way of one answer ago, whoever read it, or no longer than the way of    *)
(* its own answer.                                                         *)
(***************************************************************************)
StalenessBounded ==
  [][\A c \in Caller :
       pc[c] # "given" /\ pc'[c] = "given" =>
         \/ now <= asOf'[c] + Latency
         \/ now < asOf'[c] + CacheTtl + Latency]_pc

(***************************************************************************)
(* Every call of get_secret ends, though it may wait for another's login.  *)
(***************************************************************************)
CallsEnd == \A c \in Caller : pc[c] = "called" ~> pc[c] \in Returned \cup {"idle"}
================================================================================
