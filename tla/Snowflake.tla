------------------------------- MODULE Snowflake -------------------------------
(***************************************************************************)
(* may_connectors/src/dwh/snowflake.rs: SnowflakeConnector.                *)
(*                                                                         *)
(* execute takes one token, signed for TokenLife and kept in a cache       *)
(* behind a mutex that is held while the private key is fetched, and uses  *)
(* it for every request of the statement: the POST, up to MaxPolls polls   *)
(* with a doubling delay, and one GET per further partition.               *)
(*                                                                         *)
(* Snowflake itself is external: it refuses an expired token, may fail any *)
(* request, keeps the result of a finished statement, and sends            *)
(* resultSetMetaData exactly when the statement has a result set.  The     *)
(* caller asks for the first item as soon as execute returns, as do_query  *)
(* does: no time passes between taking the token and the POST.             *)
(***************************************************************************)
EXTENDS Warehouse

CONSTANTS
  TokenLife,  \* the 3600 s a token is signed for
  MaxPolls,   \* max_retries
  FirstDelay, \* the 500 ms before the first poll
  MaxDelay    \* the 30 s the delay is capped at

Assumption ==
  /\ TokenLife \in Nat /\ Margin < TokenLife
  /\ MaxPolls \in Nat \ {0}
  /\ FirstDelay \in Nat /\ MaxDelay \in Nat

VARIABLES
  polls,   \* retries
  delay,   \* delay_ms
  wake     \* wake[c]: when the sleep before the next poll is over

pollVars == <<polls, delay, wake>>
vars     == <<clock, pc, began, tok, cache, lock, part, out, pollVars>>

Least(a, b) == IF a < b THEN a ELSE b

--------------------------------------------------------------------------------
(* Mutant: a token is used to its last second. *)
ReusableToTheEnd == clock < cache

(* The cached token is reused while more than Margin from its expiry. *)
Reusable == clock + Margin < cache

(***************************************************************************)
(* get_jwt_token.  The clock is read once the mutex is held, and the       *)
(* expiry is counted from there, however long the secret takes.            *)
(***************************************************************************)
TakeToken(c) ==
  /\ pc[c] = "idle" /\ lock = None
  /\ began' = [began EXCEPT ![c] = clock]
  /\ \/ /\ Reusable
        /\ tok' = [tok EXCEPT ![c] = cache]
        /\ Goto(c, "submit")
        /\ UNCHANGED lock
     \/ /\ ~Reusable
        /\ lock' = c
        /\ Goto(c, "sign")
        /\ UNCHANGED tok
  /\ UNCHANGED <<clock, cache, part, out, pollVars>>

SignToken(c) ==
  /\ pc[c] = "sign"
  /\ cache' = began[c] + TokenLife
  /\ tok'   = [tok EXCEPT ![c] = began[c] + TokenLife]
  /\ lock'  = None
  /\ Goto(c, "submit")
  /\ UNCHANGED <<clock, began, part, out, pollVars>>

(* Mutant: the guard outlives the error. *)
SignFailsHoldingLock(c) ==
  /\ pc[c] = "sign"
  /\ Fail(c, <<>>)
  /\ UNCHANGED <<clock, began, tok, cache, lock, part, pollVars>>

(* No secret, one of another kind, or a key that cannot be read: the guard is dropped. *)
SignFails(c) ==
  /\ pc[c] = "sign"
  /\ lock' = None
  /\ Fail(c, <<>>)
  /\ UNCHANGED <<clock, began, tok, cache, part, pollVars>>

--------------------------------------------------------------------------------
requestVars == <<clock, began, tok, cache, lock>>

(***************************************************************************)
(* The statement is finished and its answer is here: no result set, or the *)
(* rows of the first partition, none if it has no array "data".            *)
(***************************************************************************)
Answered(c) ==
  \/ /\ Pages(c) = 0
     /\ Goto(c, "done")
     /\ UNCHANGED <<part, out>>
  \/ /\ Pages(c) > 0
     /\ \/ /\ Yield(c, Page(c, 1))
           /\ part' = [part EXCEPT ![c] = 2]
           /\ Goto(c, "partition")
        \/ BadCell(c, 1) /\ UNCHANGED part

(***************************************************************************)
(* Any request may fail: no connection, the client's timeout, an error     *)
(* status (an expired token's among them), an answer that does not parse,  *)
(* a 202 without a statementHandle, a statement that failed.               *)
(***************************************************************************)
RequestFails(c) ==
  /\ \/ pc[c] \in {"submit", "partition"}
     \/ pc[c] = "poll" /\ polls[c] < MaxPolls /\ wake[c] <= clock
  /\ pc[c] = "partition" => part[c] <= Pages(c)
  /\ Fail(c, <<>>)
  /\ UNCHANGED <<requestVars, part, pollVars>>

Sleep(c, d) ==
  /\ delay' = [delay EXCEPT ![c] = d]
  /\ wake'  = [wake EXCEPT ![c] = Least(clock + d, MaxTime)]

(* POST /api/v2/statements: 200 with the result, or 202. *)
Submit(c) ==
  /\ pc[c] = "submit" /\ Live(c)
  /\ \/ Answered(c) /\ UNCHANGED pollVars
     \/ /\ Goto(c, "poll")
        /\ Sleep(c, FirstDelay)
        /\ UNCHANGED <<polls, part, out>>
  /\ UNCHANGED requestVars

(* GET /api/v2/statements/{handle}. *)
PollDone(c) ==
  /\ pc[c] = "poll" /\ polls[c] < MaxPolls /\ wake[c] <= clock /\ Live(c)
  /\ Answered(c)
  /\ UNCHANGED <<requestVars, pollVars>>

(* Mutant: the sleep is skipped when the statement is still running. *)
PollAgainAtOnce(c) ==
  /\ pc[c] = "poll" /\ polls[c] < MaxPolls /\ wake[c] <= clock /\ Live(c)
  /\ polls' = [polls EXCEPT ![c] = @ + 1]
  /\ UNCHANGED <<requestVars, pc, part, out, delay, wake>>

(* Mutant: retries > max_retries. *)
PollAgainOnceMore(c) ==
  /\ pc[c] = "poll" /\ polls[c] <= MaxPolls /\ wake[c] <= clock /\ Live(c)
  /\ polls' = [polls EXCEPT ![c] = @ + 1]
  /\ Sleep(c, Least(2 * delay[c], MaxDelay))
  /\ UNCHANGED <<requestVars, pc, part, out>>

PollAgain(c) ==
  /\ pc[c] = "poll" /\ polls[c] < MaxPolls /\ wake[c] <= clock /\ Live(c)
  /\ polls' = [polls EXCEPT ![c] = @ + 1]
  /\ Sleep(c, Least(2 * delay[c], MaxDelay))
  /\ UNCHANGED <<requestVars, pc, part, out>>

(* retries >= max_retries: ConnectorError::Timeout, without another sleep. *)
GiveUp(c) ==
  /\ pc[c] = "poll" /\ polls[c] = MaxPolls
  /\ Yield(c, <<Error>>)
  /\ Goto(c, "abandoned")
  /\ UNCHANGED <<requestVars, part, pollVars>>

(* Mutant: the partition loop starts at 0, with the rows that came inline. *)
GetPartitionFromZero(c) ==
  /\ pc[c] = "partition" /\ part[c] <= Pages(c) /\ Live(c)
  /\ Yield(c, Page(c, part[c] - 1))
  /\ part' = [part EXCEPT ![c] = @ + 1]
  /\ UNCHANGED <<requestVars, pc, pollVars>>

(* GET ?partition=i; an answer without "data" is an empty partition. *)
GetPartition(c) ==
  /\ pc[c] = "partition" /\ part[c] <= Pages(c) /\ Live(c)
  /\ \/ /\ Yield(c, Page(c, part[c]))
        /\ part' = [part EXCEPT ![c] = @ + 1]
        /\ UNCHANGED pc
     \/ BadCell(c, part[c]) /\ UNCHANGED part
  /\ UNCHANGED <<requestVars, pollVars>>

Finish(c) ==
  /\ pc[c] = "partition" /\ part[c] > Pages(c)
  /\ Goto(c, "done")
  /\ UNCHANGED <<requestVars, part, out, pollVars>>

--------------------------------------------------------------------------------
Init ==
  /\ SharedInit
  /\ polls = [c \in Caller |-> 0]
  /\ delay = [c \in Caller |-> 0]
  /\ wake  = [c \in Caller |-> 0]

Call(c) ==
  \/ TakeToken(c) \/ SignToken(c) \/ SignFails(c)
  \/ Submit(c) \/ RequestFails(c)
  \/ PollDone(c) \/ PollAgain(c) \/ GiveUp(c)
  \/ GetPartition(c) \/ Finish(c)

Tick ==
  /\ clock < MaxTime
  /\ \A c \in Caller : pc[c] # "submit"
  /\ clock' = clock + 1
  /\ UNCHANGED <<pc, began, tok, cache, lock, part, out, pollVars>>

Next == Tick \/ \E c \in Caller : Call(c)

Spec == Init /\ [][Next]_vars

(***************************************************************************)
(* The secrets provider and Snowflake answer or the client times out,      *)
(* sleeps end, and the tokio mutex is handed on.                           *)
(***************************************************************************)
Fairness == WF_vars(Tick) /\ \A c \in Caller : WF_vars(Call(c))

--------------------------------------------------------------------------------
TypeOK ==
  /\ SharedTypeOK
  /\ pc \in [Caller -> {"idle", "sign", "submit", "poll", "partition"} \cup Ended]
  /\ polls \in [Caller -> 0..MaxPolls]
  /\ delay \in [Caller -> Nat]
  /\ wake  \in [Caller -> Nat]

Requesting == {"submit", "poll", "partition"}

(***************************************************************************)
(* The token of a statement outlives its first Margin, whether it was      *)
(* signed for it or found in the cache, perhaps signed for another call    *)
(* while this one waited for the mutex: a statement answered in that time  *)
(* is never lost to an expired token.  (Later polls can be: the token is   *)
(* not looked at again.)                                                   *)
(***************************************************************************)
LiveWithinMargin ==
  \A c \in Caller : pc[c] \in Requesting /\ clock <= began[c] + Margin => Live(c)

(***************************************************************************)
(* The mutex is held by the one call that is signing, and by no call that  *)
(* has ended: a failed signature does not lock the others out.             *)
(***************************************************************************)
SignerHoldsLock == \A c \in Caller : pc[c] = "sign" <=> lock = c

(* The sum of the sleeps before the first n polls. *)
DelayBefore[n \in Nat] ==
  IF n <= 1 THEN FirstDelay ELSE Least(2 * DelayBefore[n - 1], MaxDelay)
Budget[n \in Nat] == IF n = 0 THEN 0 ELSE Budget[n - 1] + DelayBefore[n]

(***************************************************************************)
(* A statement is abandoned as timed out only after the whole budget of    *)
(* sleeps, 500 ms doubling to 30 s, MaxPolls of them, or at MaxTime.       *)
(***************************************************************************)
AbandonedLate ==
  \A c \in Caller :
    pc[c] = "abandoned" => clock >= Least(began[c] + Budget[MaxPolls], MaxTime)
================================================================================
