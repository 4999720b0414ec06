-------------------------- MODULE VaultSecrets_proofs ---------------------------
(***************************************************************************)
(* Proofs about VaultSecrets, for every number of callers and every time   *)
(* to live.                                                                *)
(***************************************************************************)
EXTENDS VaultSecrets, TLAPS

(***************************************************************************)
(* The strengthening.  Tokens are told apart by when Vault handed them     *)
(* out; one that is being stored has not been refused yet, since clearing  *)
(* a token takes the guard its login holds.                                *)
(***************************************************************************)
TokensIssued ==
  /\ \A c \in Caller : tok[c] <= issued
  /\ approle # None => approle.token <= issued
  /\ \A t \in forgotten : t <= issued

LoginTokenNew == \A c \in Caller : pc[c] = "loggedIn" => tok[c] \notin forgotten

(* A login is under way only while no fresh token is shared. *)
LoginWhenStale == writer # None => ~Fresh(approle, TokenTtl)

(* A cached secret was on its way for Latency at most when it was cached. *)
EntriesDated ==
  \A n \in SecretName :
    cache[n] # None => cache[n].ts <= cache[n].asOf + Latency /\ cache[n].ts <= now

AnswersDated == \A c \in Caller : pc[c] = "answered" => now <= asOf[c] + Latency

NameGiven == \A c \in Caller : pc[c] \in {"called", "answered", "reading", "needsToken",
                 "locking", "login", "loggedIn"} => name[c] \in SecretName

IInv ==
  /\ TypeOK
  /\ LoginHoldsGuard
  /\ RefusedNotShared
  /\ TokensIssued
  /\ LoginTokenNew
  /\ LoginWhenStale
  /\ EntriesDated
  /\ AnswersDated
  /\ NameGiven

Control == {"idle", "called", "needsToken", "locking", "login", "loggedIn",
            "reading", "answered", "forbidden", "given", "failed"}

--------------------------------------------------------------------------------
LEMMA InitIInv == Init => IInv
BY NoneAssumption
   DEF Init, IInv, TypeOK, LoginHoldsGuard, RefusedNotShared, TokensIssued, LoginTokenNew,
       LoginWhenStale, EntriesDated, AnswersDated, NameGiven

(***************************************************************************)
(* The steps that change nothing the invariant speaks of but the control   *)
(* state, and neither enter nor leave a login.                             *)
(***************************************************************************)
LEMMA ControlStep ==
  ASSUME IInv, NEW c \in Caller,
         \/ CacheMiss(c) \/ UseStaticToken(c) \/ VaultForbids(c) \/ ReadFails(c)
  PROVE  IInv'
<1> USE DEF IInv
<1>1. PICK s \in {"needsToken", "reading", "forbidden", "failed"} : pc' = [pc EXCEPT ![c] = s]
  BY DEF CacheMiss, UseStaticToken, VaultForbids, ReadFails, Goto
<1>2. UNCHANGED <<vaultVars, sharedVars, name, tok, asOf, forgotten>>
  BY DEF CacheMiss, UseStaticToken, VaultForbids, ReadFails
<1>3. pc[c] \notin {"login", "loggedIn"}
  BY DEF CacheMiss, UseStaticToken, VaultForbids, ReadFails
<1>4. s \in {"needsToken", "reading"} => name[c] \in SecretName
  BY <1>1 DEF CacheMiss, UseStaticToken, VaultForbids, ReadFails, Goto, NameGiven, TypeOK
<1> USE <1>1, <1>2, <1>3 DEF vaultVars, sharedVars
<1>5. TypeOK'
  BY DEF TypeOK
<1>6. LoginHoldsGuard'
  BY DEF LoginHoldsGuard, TypeOK
<1>7. RefusedNotShared' /\ TokensIssued' /\ EntriesDated' /\ LoginWhenStale'
  BY DEF RefusedNotShared, TokensIssued, EntriesDated, LoginWhenStale, Fresh
<1>8. LoginTokenNew' /\ AnswersDated'
  BY DEF LoginTokenNew, AnswersDated, TypeOK
<1>9. NameGiven'
  BY <1>4 DEF NameGiven, TypeOK
<1> QED
  BY <1>5, <1>6, <1>7, <1>8, <1>9

(* A call begins, returns, or is dropped: its own variables are reset. *)
LEMMA CallStep ==
  ASSUME IInv, NEW c \in Caller, Call(c) \/ Return(c) \/ Cancel(c)
  PROVE  IInv'
<1> USE DEF IInv
<1>1. PICK s \in {"called", "idle"}, n \in SecretName \cup {None} :
        /\ pc' = [pc EXCEPT ![c] = s]
        /\ name' = [name EXCEPT ![c] = n]
        /\ s = "called" => n \in SecretName
  BY DEF Call, Return, Cancel, Goto
<1>2. /\ tok' = tok \/ tok' = [tok EXCEPT ![c] = 0]
      /\ asOf' = asOf \/ asOf' = [asOf EXCEPT ![c] = 0]
  BY DEF Call, Return, Cancel
<1>3. UNCHANGED <<vaultVars, cache, approle, forgotten>>
  BY DEF Call, Return, Cancel, sharedVars
<1>4. writer' = IF writer = c THEN None ELSE writer
  <2>1. CASE Cancel(c)
    BY <2>1 DEF Cancel
  <2>2. CASE Call(c) \/ Return(c)
    <3>1. writer' = writer
      BY <2>2 DEF Call, Return, sharedVars
    <3>2. pc[c] \notin {"login", "loggedIn"}
      BY <2>2 DEF Call, Return, Returned
    <3> QED
      BY <3>1, <3>2 DEF LoginHoldsGuard
  <2> QED
    BY <2>1, <2>2
<1> USE <1>1, <1>2, <1>3 DEF vaultVars
<1>5. TypeOK'
  <2>1. tok' \in [Caller -> Nat] /\ asOf' \in [Caller -> Nat]
    BY DEF TypeOK
  <2> QED
    BY <1>4, <2>1 DEF TypeOK
<1>6. LoginHoldsGuard'
  BY <1>4, NoneAssumption DEF LoginHoldsGuard, TypeOK
<1>7. RefusedNotShared' /\ EntriesDated' /\ LoginWhenStale'
  BY <1>4 DEF RefusedNotShared, EntriesDated, LoginWhenStale, Fresh
<1>8. TokensIssued'
  <2>1. \A d \in Caller : tok'[d] = tok[d] \/ tok'[d] = 0
    BY DEF TypeOK
  <2> QED
    BY <2>1 DEF TokensIssued, TypeOK
<1>9. LoginTokenNew' /\ AnswersDated' /\ NameGiven'
  BY DEF LoginTokenNew, AnswersDated, NameGiven, TypeOK
<1> QED
  BY <1>5, <1>6, <1>7, <1>8, <1>9

(* A call takes the shared token, or goes to wait for the write guard, or takes it. *)
LEMMA TokenStep ==
  ASSUME IInv, NEW c \in Caller, ReadToken(c) \/ LockToken(c)
  PROVE  IInv'
<1> USE DEF IInv
<1>1. /\ writer = None
      /\ pc[c] \in {"needsToken", "locking"}
      /\ UNCHANGED <<vaultVars, cache, approle, name, asOf, forgotten>>
  BY DEF ReadToken, LockToken, sharedVars
<1> USE <1>1 DEF vaultVars
<1>2. RefusedNotShared' /\ EntriesDated'
  BY DEF RefusedNotShared, EntriesDated
<1>3. CASE Fresh(approle, TokenTtl)
  <2>1. tok' = [tok EXCEPT ![c] = approle.token] /\ pc' = [pc EXCEPT ![c] = "reading"]
    BY <1>3 DEF ReadToken, LockToken, UseToken, Goto
  <2>2. writer' = writer
    BY <1>3 DEF ReadToken, LockToken, sharedVars
  <2>3. approle \in Token
    BY <1>3 DEF Fresh, TypeOK
  <2>4. TypeOK'
    BY <2>1, <2>2, <2>3 DEF TypeOK, Token
  <2>5. LoginHoldsGuard' /\ LoginTokenNew' /\ LoginWhenStale' /\ AnswersDated' /\ NameGiven'
    BY <2>1, <2>2, NoneAssumption
       DEF LoginHoldsGuard, LoginTokenNew, LoginWhenStale, AnswersDated, NameGiven, TypeOK
  <2>6. TokensIssued'
    BY <1>3, <2>1, <2>3 DEF TokensIssued, TypeOK, Fresh
  <2> QED
    BY <1>2, <2>4, <2>5, <2>6
<1>4. CASE ~Fresh(approle, TokenTtl) /\ ReadToken(c)
  <2>1. pc' = [pc EXCEPT ![c] = "locking"] /\ UNCHANGED <<tok, writer>>
    BY <1>4 DEF ReadToken, Goto, sharedVars
  <2> QED
    BY <1>2, <2>1
       DEF TypeOK, LoginHoldsGuard, LoginTokenNew, LoginWhenStale, AnswersDated, NameGiven,
           TokensIssued
<1>5. CASE ~Fresh(approle, TokenTtl) /\ LockToken(c)
  <2>1. pc' = [pc EXCEPT ![c] = "login"] /\ writer' = c /\ tok' = tok
    BY <1>5 DEF LockToken, Goto
  <2>2. LoginHoldsGuard'
    BY <2>1, NoneAssumption DEF LoginHoldsGuard, TypeOK
  <2> QED
    BY <1>2, <1>5, <2>1, <2>2
       DEF TypeOK, LoginTokenNew, LoginWhenStale, Fresh, AnswersDated, NameGiven, TokensIssued
<1> QED
  BY <1>3, <1>4, <1>5

(* Vault hands out a token no call has had, and so none has seen refused. *)
LEMMA VaultLoginStep ==
  ASSUME IInv, NEW c \in Caller, VaultLogin(c)
  PROVE  IInv'
<1> USE DEF IInv
<1>1. /\ pc[c] = "login"
      /\ issued' = issued + 1
      /\ tok' = [tok EXCEPT ![c] = issued + 1]
      /\ pc' = [pc EXCEPT ![c] = "loggedIn"]
      /\ UNCHANGED <<now, auth, sharedVars, name, asOf, forgotten>>
  BY DEF VaultLogin, Goto
<1> USE <1>1 DEF sharedVars
<1>2. TypeOK'
  BY DEF TypeOK
<1>3. issued \in Nat /\ issued + 1 \notin forgotten
  BY DEF TypeOK, TokensIssued
<1>4. LoginHoldsGuard' /\ AnswersDated' /\ NameGiven' /\ RefusedNotShared' /\ EntriesDated'
       /\ LoginWhenStale'
  BY DEF LoginHoldsGuard, AnswersDated, NameGiven, RefusedNotShared, EntriesDated, TypeOK,
         LoginWhenStale, Fresh
<1>5. LoginTokenNew'
  BY <1>3 DEF LoginTokenNew, TypeOK
<1>6. TokensIssued'
  <2>1. \A d \in Caller : tok'[d] <= issued'
    BY <1>3 DEF TokensIssued, TypeOK
  <2>2. approle # None => approle.token \in Nat
    BY DEF TypeOK, Token
  <2> QED
    BY <1>3, <2>1, <2>2 DEF TokensIssued, TypeOK
<1> QED
  BY <1>2, <1>4, <1>5, <1>6

(* A login ends, with the token stored or without. *)
LEMMA LoginEnds ==
  ASSUME IInv, NEW c \in Caller, StoreToken(c) \/ LoginFails(c)
  PROVE  IInv'
<1> USE DEF IInv
<1>1. /\ writer' = None
      /\ UNCHANGED <<vaultVars, cache, name, tok, asOf, forgotten>>
      /\ writer = c
  BY DEF StoreToken, LoginFails, LoginHoldsGuard
<1>2. PICK s \in {"reading", "failed"} :
        pc' = [pc EXCEPT ![c] = s] /\ (s = "reading" => StoreToken(c))
  BY DEF StoreToken, LoginFails, Goto
<1>3. \/ approle' = approle
      \/ pc[c] = "loggedIn" /\ approle' = [token |-> tok[c], ts |-> now]
  BY DEF StoreToken, LoginFails
<1> USE <1>1, <1>2 DEF vaultVars
<1>4. approle' \in Token \cup {None}
  BY <1>3 DEF TypeOK, Token
<1>5. TypeOK'
  BY <1>4 DEF TypeOK
<1>6. LoginHoldsGuard'
  BY NoneAssumption DEF LoginHoldsGuard, TypeOK
<1>7. RefusedNotShared'
  BY <1>3 DEF RefusedNotShared, LoginTokenNew
<1>8. TokensIssued'
  BY <1>3 DEF TokensIssued
<1>9. LoginTokenNew' /\ LoginWhenStale' /\ EntriesDated' /\ AnswersDated'
  BY DEF LoginTokenNew, LoginWhenStale, EntriesDated, AnswersDated, TypeOK
<1>10. NameGiven'
  <2>1. s = "reading" => name[c] \in SecretName
    BY DEF StoreToken, NameGiven
  <2> QED
    BY <2>1 DEF NameGiven, TypeOK
<1> QED
  BY <1>5, <1>6, <1>7, <1>8, <1>9, <1>10

(* Vault gives the secret: it is of this instant. *)
LEMMA VaultGivesStep ==
  ASSUME IInv, NEW c \in Caller, VaultGives(c)
  PROVE  IInv'
<1> USE DEF IInv
<1>1. /\ pc[c] = "reading"
      /\ asOf' = [asOf EXCEPT ![c] = now]
      /\ pc' = [pc EXCEPT ![c] = "answered"]
      /\ UNCHANGED <<vaultVars, sharedVars, name, tok, forgotten>>
  BY DEF VaultGives, Goto
<1> USE <1>1 DEF vaultVars, sharedVars
<1>2. TypeOK'
  BY DEF TypeOK
<1>3. LoginHoldsGuard' /\ LoginTokenNew' /\ NameGiven'
  BY DEF LoginHoldsGuard, LoginTokenNew, NameGiven, TypeOK
<1>4. RefusedNotShared' /\ TokensIssued' /\ EntriesDated' /\ LoginWhenStale'
  BY DEF RefusedNotShared, TokensIssued, EntriesDated, LoginWhenStale, Fresh
<1>5. AnswersDated'
  BY TtlAssumption DEF AnswersDated, TypeOK
<1> QED
  BY <1>2, <1>3, <1>4, <1>5

(* The secret is cached, or found in the cache. *)
LEMMA GivenStep ==
  ASSUME IInv, NEW c \in Caller, CacheSecret(c) \/ CacheHit(c)
  PROVE  IInv'
<1> USE DEF IInv
<1>1. /\ pc' = [pc EXCEPT ![c] = "given"]
      /\ pc[c] \in {"answered", "called"}
      /\ UNCHANGED <<vaultVars, approle, writer, name, tok, forgotten>>
  BY DEF CacheSecret, CacheHit, Goto, sharedVars
<1>2. name[c] \in SecretName
  BY <1>1 DEF NameGiven
<1> USE <1>1 DEF vaultVars
<1>3. LoginHoldsGuard' /\ LoginTokenNew' /\ NameGiven'
  BY DEF LoginHoldsGuard, LoginTokenNew, NameGiven, TypeOK
<1>4. RefusedNotShared' /\ TokensIssued' /\ LoginWhenStale'
  BY DEF RefusedNotShared, TokensIssued, LoginWhenStale, Fresh
<1>5. CASE CacheSecret(c)
  <2>1. /\ cache' = [cache EXCEPT ![name[c]] = [asOf |-> asOf[c], ts |-> now]]
        /\ pc[c] = "answered"
        /\ asOf' = asOf
    BY <1>5 DEF CacheSecret
  <2>2. [asOf |-> asOf[c], ts |-> now] \in Entry
    BY DEF TypeOK, Entry
  <2>3. TypeOK'
    BY <1>2, <2>1, <2>2 DEF TypeOK
  <2>4. AnswersDated'
    BY <2>1 DEF AnswersDated, TypeOK
  <2>5. EntriesDated'
    <3> SUFFICES ASSUME NEW n \in SecretName, cache'[n] # None
                 PROVE  cache'[n].ts <= cache'[n].asOf + Latency /\ cache'[n].ts <= now
      BY DEF EntriesDated
    <3>1. CASE n = name[c]
      <4>1. cache'[n] = [asOf |-> asOf[c], ts |-> now]
        BY <1>2, <2>1, <3>1 DEF TypeOK
      <4> QED
        BY <2>1, <4>1 DEF AnswersDated, TypeOK
    <3>2. CASE n # name[c]
      <4>1. cache'[n] = cache[n]
        BY <2>1, <3>2 DEF TypeOK
      <4> QED
        BY <4>1 DEF EntriesDated
    <3> QED
      BY <3>1, <3>2
  <2> QED
    BY <1>3, <1>4, <2>3, <2>4, <2>5
<1>6. CASE CacheHit(c)
  <2>1. /\ asOf' = [asOf EXCEPT ![c] = cache[name[c]].asOf]
        /\ cache' = cache
        /\ cache[name[c]] # None
    BY <1>6 DEF CacheHit, Fresh, sharedVars
  <2>2. cache[name[c]].asOf \in Nat
    BY <1>2, <2>1 DEF TypeOK, Entry
  <2>3. TypeOK'
    BY <2>1, <2>2 DEF TypeOK
  <2>4. AnswersDated' /\ EntriesDated'
    BY <2>1 DEF AnswersDated, EntriesDated, TypeOK
  <2> QED
    BY <1>3, <1>4, <2>3, <2>4
<1> QED
  BY <1>5, <1>6

(* A refused token is forgotten: no login is under way, and nothing is shared. *)
LEMMA ForgetStep ==
  ASSUME IInv, NEW c \in Caller, ForgetToken(c)
  PROVE  IInv'
<1> USE DEF IInv
<1>1. /\ pc[c] = "forbidden"
      /\ writer = None
      /\ approle' = None
      /\ forgotten' = forgotten \cup {tok[c]}
      /\ pc' = [pc EXCEPT ![c] = "failed"]
      /\ UNCHANGED <<vaultVars, cache, writer, name, tok, asOf>>
  BY DEF ForgetToken, Goto
<1> USE <1>1 DEF vaultVars
<1>2. TypeOK'
  BY DEF TypeOK
<1>3. \A d \in Caller : pc'[d] \notin {"login", "loggedIn"}
  BY NoneAssumption DEF LoginHoldsGuard, TypeOK
<1>4. LoginHoldsGuard' /\ LoginTokenNew'
  BY <1>3, NoneAssumption DEF LoginHoldsGuard, LoginTokenNew
<1>5. RefusedNotShared' /\ TokensIssued' /\ EntriesDated' /\ LoginWhenStale'
  BY DEF RefusedNotShared, TokensIssued, EntriesDated, LoginWhenStale
<1>6. AnswersDated' /\ NameGiven'
  BY DEF AnswersDated, NameGiven, TypeOK
<1> QED
  BY <1>2, <1>4, <1>5, <1>6

LEMMA TickStep == IInv /\ Tick => IInv'
<1> SUFFICES ASSUME IInv, Tick PROVE IInv'
  OBVIOUS
<1> USE DEF IInv
<1>1. /\ now' = now + 1
      /\ \A c \in Caller : pc[c] = "answered" => now < asOf[c] + Latency
      /\ UNCHANGED <<auth, issued, sharedVars, callVars, forgotten>>
  BY DEF Tick
<1> USE <1>1 DEF sharedVars, callVars
<1>2. TypeOK'
  BY DEF TypeOK
<1>3. LoginHoldsGuard' /\ LoginTokenNew' /\ NameGiven' /\ RefusedNotShared' /\ TokensIssued'
  BY DEF LoginHoldsGuard, LoginTokenNew, NameGiven, RefusedNotShared, TokensIssued
<1>4. EntriesDated'
  <2>1. \A n \in SecretName : cache[n] # None => cache[n].ts \in Nat
    BY DEF TypeOK, Entry
  <2> QED
    BY <2>1 DEF EntriesDated, TypeOK
<1>5. AnswersDated'
  BY TtlAssumption DEF AnswersDated, TypeOK
<1>6. LoginWhenStale'
  <2>1. now \in Nat /\ (approle # None => approle.ts \in Nat)
    BY DEF TypeOK, Token
  <2> QED
    BY <2>1, TtlAssumption DEF LoginWhenStale, Fresh
<1> QED
  BY <1>2, <1>3, <1>4, <1>5, <1>6

LEMMA NextIInv == IInv /\ [Next]_vars => IInv'
<1> SUFFICES ASSUME IInv, [Next]_vars PROVE IInv'
  OBVIOUS
<1>1. CASE Tick
  BY <1>1, TickStep
<1>2. ASSUME NEW c \in Caller, GetSecret(c) PROVE IInv'
  BY <1>2, ControlStep, CallStep, TokenStep, VaultLoginStep, LoginEnds, VaultGivesStep,
     GivenStep, ForgetStep
     DEF GetSecret, GetToken, ReadSecret
<1>3. CASE UNCHANGED vars
  BY <1>3
     DEF vars, vaultVars, sharedVars, callVars, IInv, TypeOK, LoginHoldsGuard, RefusedNotShared,
         TokensIssued, LoginTokenNew, LoginWhenStale, Fresh, EntriesDated, AnswersDated, NameGiven
<1> QED
  BY <1>1, <1>2, <1>3 DEF Next

--------------------------------------------------------------------------------
(* The strengthening is an invariant. *)
THEOREM Invariance == Spec => []IInv
BY InitIInv, NextIInv, PTL DEF Spec

(* Type correctness. *)
THEOREM TypeCorrect == Spec => []TypeOK
<1>1. IInv => TypeOK
  BY DEF IInv
<1> QED
  BY <1>1, Invariance, PTL

(* No login leaves the write guard behind (vault.rs:160-200). *)
THEOREM GuardCorrect == Spec => []LoginHoldsGuard
<1>1. IInv => LoginHoldsGuard
  BY DEF IInv
<1> QED
  BY <1>1, Invariance, PTL

(* A token that was refused and cleared is never shared again (vault.rs:252-257). *)
THEOREM RefusalCorrect == Spec => []RefusedNotShared
<1>1. IInv => RefusedNotShared
  BY DEF IInv
<1> QED
  BY <1>1, Invariance, PTL

(* A secret that is returned was Vault's no longer ago than the bound. *)
LEMMA StalenessStep ==
  ASSUME IInv, [Next]_vars, NEW c \in Caller, pc[c] # "given", pc'[c] = "given"
  PROVE  \/ now <= asOf'[c] + Latency
         \/ now < asOf'[c] + CacheTtl + Latency
<1> USE DEF IInv
<1>1. CacheSecret(c) \/ CacheHit(c)
  <2>1. PICK d \in Caller : GetSecret(d)
    BY DEF Next, Tick, vars, callVars
  <2>2. CASE CacheSecret(d) \/ CacheHit(d)
    BY <2>2 DEF CacheSecret, CacheHit, Goto, TypeOK
  <2>3. CASE ~CacheSecret(d) /\ ~CacheHit(d)
    <3>1. PICK s \in Control \ {"given"} : pc' = [pc EXCEPT ![d] = s]
      BY <2>1, <2>3
         DEF GetSecret, GetToken, ReadSecret, Call, CacheMiss, UseStaticToken, ReadToken,
             LockToken, VaultLogin, StoreToken, LoginFails, VaultGives, VaultForbids, ReadFails,
             ForgetToken, Return, Cancel, UseToken, Goto, Control
    <3> QED
      BY <3>1 DEF TypeOK
  <2> QED
    BY <2>2, <2>3
<1>2. CASE CacheSecret(c)
  BY <1>2 DEF CacheSecret, AnswersDated
<1>3. CASE CacheHit(c)
  <2> DEFINE e == cache[name[c]]
  <2>1. pc[c] = "called" /\ e # None /\ now - e.ts < CacheTtl /\ asOf'[c] = e.asOf
    BY <1>3 DEF CacheHit, Fresh, TypeOK
  <2>2. name[c] \in SecretName
    BY <2>1 DEF NameGiven
  <2>3. e.ts <= e.asOf + Latency /\ e \in Entry
    BY <2>1, <2>2 DEF EntriesDated, TypeOK
  <2>4. e.ts \in Nat /\ e.asOf \in Nat /\ now \in Nat
    BY <2>3 DEF Entry, TypeOK
  <2> HIDE DEF e
  <2> QED
    BY <2>1, <2>3, <2>4, TtlAssumption
<1> QED
  BY <1>1, <1>2, <1>3

(* Returned secrets are no staler than the time to live allows (vault.rs:219-226, 290-291). *)
THEOREM Staleness == Spec => StalenessBounded
<1>1. IInv /\ [Next]_vars =>
        [\A c \in Caller :
           pc[c] # "given" /\ pc'[c] = "given" =>
             \/ now <= asOf'[c] + Latency
             \/ now < asOf'[c] + CacheTtl + Latency]_pc
  BY StalenessStep
<1> QED
  BY <1>1, Invariance, PTL DEF Spec, StalenessBounded

(* The shared token changes when a login ends or a refused token is cleared. *)
LEMMA TokenKeptStep ==
  ASSUME IInv, [Next]_vars, Fresh(approle, TokenTtl)
  PROVE  approle' \in {approle, None}
<1>1. ASSUME NEW c \in Caller, StoreToken(c) PROVE FALSE
  <2>1. writer = c
    BY <1>1 DEF StoreToken, IInv, LoginHoldsGuard
  <2> QED
    BY <2>1, NoneAssumption DEF IInv, LoginWhenStale
<1>2. ASSUME NEW c \in Caller, ForgetToken(c) PROVE approle' = None
  BY <1>2 DEF ForgetToken
<1>3. ASSUME NEW c \in Caller, GetSecret(c), ~StoreToken(c), ~ForgetToken(c)
      PROVE  approle' = approle
  BY <1>3
     DEF GetSecret, GetToken, ReadSecret, sharedVars, Call, CacheHit, CacheMiss, UseStaticToken,
         ReadToken, LockToken, VaultLogin, LoginFails, VaultGives, VaultForbids, ReadFails,
         CacheSecret, Return, Cancel
<1>4. CASE Tick \/ UNCHANGED vars
  BY <1>4 DEF Tick, vars, sharedVars
<1> QED
  BY <1>1, <1>2, <1>3, <1>4 DEF Next

(* A fresh token is never replaced by another login (vault.rs:160-165). *)
THEOREM TokenKept == Spec => FreshTokenKept
<1>1. IInv /\ [Next]_vars => [Fresh(approle, TokenTtl) => approle' \in {approle, None}]_approle
  BY TokenKeptStep
<1> QED
  BY <1>1, Invariance, PTL DEF Spec, FreshTokenKept
================================================================================
