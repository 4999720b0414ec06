---------------------------- MODULE Connectors_proofs --------------------------
(***************************************************************************)
(* Proofs about the warehouse connectors, for any number of calls, results *)
(* of any number of pages, and every token life, margin and delay.         *)
(***************************************************************************)
EXTENDS Connectors, SequenceTheorems, WellFoundedInduction, TLAPS

Rows(n)    == Stream!Prefix(n)
Broken(c, n) == out' = [out EXCEPT ![c] = Append(Rows(n), 0)]

--------------------------------------------------------------------------------
(* Pages of a result, and what a stream holds after one. *)

(* The rows b+1 .. n. *)
RowsFrom(b, n) == [i \in 1..(n - b) |-> b + i]

LEMMA RowsTyped ==
  ASSUME NEW b \in Nat
  PROVE  Rows(b) \in Seq(Nat) /\ Len(Rows(b)) = b /\ \A i \in 1..b : Rows(b)[i] = i
BY DEF Rows, Stream!Prefix

(* The rows b+1 .. n, after the rows 1 .. b, are the rows 1 .. n, *)
LEMMA RowsAppended ==
  ASSUME NEW b \in Nat, NEW n \in Nat, b <= n
  PROVE  RowsFrom(b, n) \in Seq(Nat) /\ Rows(b) \o RowsFrom(b, n) = Rows(n)
<1>1. RowsFrom(b, n) \in Seq(Nat) /\ Len(RowsFrom(b, n)) = n - b
  BY DEF RowsFrom
<1> QED
  BY <1>1, RowsTyped DEF Rows, RowsFrom, Stream!Prefix

LEMMA Concatenated ==
  ASSUME NEW s \in Seq(Nat), NEW t \in Seq(Nat)
  PROVE  /\ s \o t \in Seq(Nat) /\ Len(s \o t) = Len(s) + Len(t)
         /\ \A i \in 1..Len(s) : (s \o t)[i] = s[i]
         /\ \A j \in 1..Len(t) : (s \o t)[Len(s) + j] = t[j]
OBVIOUS

(* and m of them and an error are the rows 1 .. b+m and an error. *)
LEMMA ErrorAppended ==
  ASSUME NEW b \in Nat, NEW n \in Nat, NEW m \in Nat, b + m <= n
  PROVE  Rows(b) \o Append(SubSeq(RowsFrom(b, n), 1, m), 0) = Append(Rows(b + m), 0)
<1> DEFINE some  == SubSeq(RowsFrom(b, n), 1, m)
           tail  == Append(some, 0)
           left  == Rows(b) \o tail
           right == Append(Rows(b + m), 0)
<1>1. RowsFrom(b, n) \in Seq(Nat) /\ Len(RowsFrom(b, n)) = n - b
  BY DEF RowsFrom
<1>2. some \in Seq(Nat) /\ Len(some) = m /\ \A j \in 1..m : some[j] = b + j
  BY <1>1 DEF RowsFrom
<1> HIDE DEF some
<1>3. /\ tail \in Seq(Nat) /\ Len(tail) = m + 1
      /\ tail[m + 1] = 0 /\ \A j \in 1..m : tail[j] = b + j
  BY <1>2
<1> HIDE DEF tail
<1>4. /\ left \in Seq(Nat) /\ Len(left) = b + m + 1
      /\ \A i \in 1..b : left[i] = i
      /\ \A j \in 1..(m + 1) : left[b + j] = tail[j]
  <2>1. Rows(b) \in Seq(Nat) /\ Len(Rows(b)) = b /\ \A i \in 1..b : Rows(b)[i] = i
    BY RowsTyped
  <2>2. PICK s \in Seq(Nat), t \in Seq(Nat) : s = Rows(b) /\ t = tail
    BY <1>3, <2>1
  <2>3. /\ s \o t \in Seq(Nat) /\ Len(s \o t) = Len(s) + Len(t)
        /\ \A i \in 1..Len(s) : (s \o t)[i] = s[i]
        /\ \A j \in 1..Len(t) : (s \o t)[Len(s) + j] = t[j]
    BY Concatenated
  <2>4. left = s \o t /\ Len(s) = b /\ Len(t) = m + 1
    BY <1>3, <2>1, <2>2
  <2> HIDE DEF left
  <2>5. left \in Seq(Nat) /\ Len(left) = b + m + 1
    BY <2>3, <2>4
  <2>6. \A i \in 1..b : left[i] = i
    BY <2>1, <2>2, <2>3, <2>4
  <2>7. \A j \in 1..(m + 1) : left[b + j] = tail[j]
    BY <2>2, <2>3, <2>4
  <2> QED
    BY <2>5, <2>6, <2>7
<1>5. /\ right \in Seq(Nat) /\ Len(right) = b + m + 1
      /\ right[b + m + 1] = 0 /\ \A i \in 1..(b + m) : right[i] = i
  <2>1. b + m \in Nat
    OBVIOUS
  <2>2. /\ Rows(b + m) \in Seq(Nat) /\ Len(Rows(b + m)) = b + m
        /\ \A i \in 1..(b + m) : Rows(b + m)[i] = i
    BY <2>1, RowsTyped
  <2> QED
    BY <2>1, <2>2
<1> HIDE DEF left, right
<1>6. ASSUME NEW i \in 1..(b + m + 1) PROVE left[i] = right[i]
  <2>1. CASE i <= b
    BY <1>4, <1>5, <2>1
  <2>2. CASE i > b /\ i <= b + m
    <3>1. PICK j \in 1..m : i = b + j
      BY <2>2
    <3>2. left[i] = tail[j] /\ right[i] = i
      BY <1>4, <1>5, <2>2, <3>1
    <3> QED
      BY <1>3, <3>1, <3>2
  <2>3. CASE i = b + m + 1
    <3>1. i = b + (m + 1) /\ m + 1 \in 1..(m + 1)
      BY <2>3
    <3> QED
      BY <1>3, <1>4, <1>5, <2>3, <3>1
  <2> QED
    BY <2>1, <2>2, <2>3
<1>7. left = right
  BY <1>4, <1>5, <1>6
<1> QED
  BY <1>7 DEF left, right, tail, some

LEMMA PagesOrdered ==
  ASSUME NEW c \in Caller, NEW p \in 1..Pages(c)
  PROVE  /\ Before(c, p) \in Nat /\ Upto[c][p] \in Nat /\ RowCount(c) \in Nat
         /\ Before(c, p) <= Upto[c][p] /\ Upto[c][p] <= RowCount(c)
         /\ p > 1 => Before(c, p) = Upto[c][p - 1]
         /\ p = Pages(c) => Upto[c][p] = RowCount(c)
<1>1. Upto[c] \in Seq(Nat) /\ \A a, b \in DOMAIN Upto[c] : a < b => Upto[c][a] <= Upto[c][b]
  BY UptoAssumption
<1>2. Pages(c) \in Nat /\ Pages(c) > 0 /\ DOMAIN Upto[c] = 1..Pages(c)
  BY <1>1 DEF Pages
<1>3. RowCount(c) = Upto[c][Pages(c)] /\ RowCount(c) \in Nat /\ Upto[c][p] \in Nat
  BY <1>1, <1>2 DEF RowCount
<1>4. Upto[c][p] <= RowCount(c)
  BY <1>1, <1>2, <1>3
<1>5. Before(c, p) \in Nat /\ Before(c, p) <= Upto[c][p]
  <2>1. CASE p = 1
    BY <1>3, <2>1 DEF Before
  <2>2. CASE p > 1
    <3>1. PICK q \in DOMAIN Upto[c] : q = p - 1 /\ q < p
      BY <1>2, <2>2
    <3> QED
      BY <1>1, <1>2, <2>2, <3>1 DEF Before
  <2> QED
    BY <2>1, <2>2
<1> QED
  BY <1>2, <1>3, <1>4, <1>5 DEF Before

(* A page is given after those before it. *)
LEMMA PageGiven ==
  ASSUME NEW c \in Caller, NEW p \in 1..Pages(c), out \in [Caller -> Seq(Nat)],
         out[c] = Rows(Before(c, p)), Yield(c, Page(c, p))
  PROVE  out' = [out EXCEPT ![c] = Rows(Upto[c][p])]
<1>1. PICK b \in Nat, n \in Nat : b = Before(c, p) /\ n = Upto[c][p] /\ b <= n
  BY PagesOrdered
<1>2. Page(c, p) = RowsFrom(b, n)
  BY <1>1 DEF Page, RowsFrom
<1> QED
  BY <1>1, <1>2, RowsAppended DEF Yield

(* A page's row cannot be decoded: the rows before it have been given. *)
LEMMA PageBroken ==
  ASSUME NEW c \in Caller, NEW p \in 1..Pages(c), out \in [Caller -> Seq(Nat)],
         out[c] = Rows(Before(c, p)), BadCell(c, p)
  PROVE  /\ pc' = [pc EXCEPT ![c] = "done"]
         /\ \E n \in Before(c, p)..RowCount(c) : Broken(c, n)
<1>1. PICK b \in Nat, n \in Nat :
        b = Before(c, p) /\ n = Upto[c][p] /\ b <= n /\ n <= RowCount(c) /\ RowCount(c) \in Nat
  BY PagesOrdered
<1>2. Page(c, p) = RowsFrom(b, n) /\ DOMAIN Page(c, p) = 1..(n - b)
  BY <1>1 DEF Page, RowsFrom
<1>3. PICK k \in 1..(n - b) : Fail(c, SubSeq(Page(c, p), 1, k - 1))
  BY <1>2 DEF BadCell
<1>4. PICK m \in Nat : m = k - 1 /\ b + m <= n
  BY <1>1
<1>5. out[c] \o Append(SubSeq(Page(c, p), 1, m), 0) = Append(Rows(b + m), 0)
  <2>1. Rows(b) \o Append(SubSeq(RowsFrom(b, n), 1, m), 0) = Append(Rows(b + m), 0)
    BY <1>4, ErrorAppended
  <2> QED
    BY <1>1, <1>2, <2>1
<1>6. Broken(c, b + m) /\ pc' = [pc EXCEPT ![c] = "done"]
  BY <1>3, <1>4, <1>5 DEF Fail, Yield, Goto, Error, Broken
<1>7. b + m \in Before(c, p)..RowCount(c)
  BY <1>1, <1>4
<1> QED
  BY <1>6, <1>7

(* No row has been given: the stream fails at once. *)
LEMMA FailsEmpty ==
  ASSUME NEW c \in Caller, NEW n \in Nat,
         out \in [Caller -> Seq(Nat)], out[c] = Rows(n), Fail(c, <<>>)
  PROVE  pc' = [pc EXCEPT ![c] = "done"] /\ Broken(c, n)
<1>1. out[c] \in Seq(Nat)
  OBVIOUS
<1>2. out[c] \o Append(<<>>, 0) = Append(out[c], 0)
  BY <1>1
<1> QED
  BY <1>2 DEF Fail, Yield, Goto, Error, Broken

--------------------------------------------------------------------------------
(***************************************************************************)
(* snowflake.rs.  A call that sends requests has a token that outlives its *)
(* Margin; what its stream has given is the partitions before part.        *)
(***************************************************************************)
SFState == {"idle", "sign", "submit", "poll", "partition", "done", "abandoned"}

SFCall(c) ==
  /\ pc[c] \in SF!Requesting => tok[c] > began[c] + Margin
  /\ pc[c] \in {"idle", "sign", "submit", "poll"} => out[c] = Rows(0) /\ part[c] = 1
  /\ pc[c] = "partition" =>
       /\ part[c] \in 2..(Pages(c) + 1)
       /\ out[c] = Rows(Upto[c][part[c] - 1])

SFTypes ==
  /\ clock \in 1..MaxTime /\ pc \in [Caller -> SFState] /\ began \in [Caller -> 0..MaxTime]
  /\ tok \in [Caller -> Nat] /\ cache \in Nat /\ lock \in Caller \cup {None}
  /\ part \in [Caller -> Nat] /\ out \in [Caller -> Seq(Nat)]
  /\ polls \in [Caller -> 0..MaxPolls] /\ delay \in [Caller -> Nat] /\ wake \in [Caller -> Nat]

SFInv == SFTypes /\ SF!SignerHoldsLock /\ \A c \in Caller : SFCall(c)

(***************************************************************************)
(* What a step does to the streams: nothing, or one call's gives rows, or  *)
(* ends, or fails, or, having failed, fails again or ends.                 *)
(***************************************************************************)
Gives(c, n) ==
  /\ n \in Len(out[c])..RowCount(c)
  /\ out[c] = Rows(Len(out[c]))
  /\ out' = [out EXCEPT ![c] = Rows(n)] /\ out'[c] = Rows(n)
  /\ pc'[c] \in Ended => n = RowCount(c)
Breaks(c, n) ==
  /\ n \in Len(out[c])..RowCount(c)
  /\ out[c] = Rows(Len(out[c]))
  /\ Broken(c, n)
BreaksAgain(c) ==
  /\ Stream!Failed(out[c])
  /\ out' \in {out, [out EXCEPT ![c] = Append(@, 0)]}
StreamStep ==
  \/ out' = out /\ \A c \in Caller : pc'[c] \in Ended <=> pc[c] \in Ended
  \/ \E c \in Caller :
       /\ pc[c] \notin Ended
       /\ \A d \in Caller \ {c} : pc'[d] = pc[d]
       /\ BreaksAgain(c) \/ \E n \in Nat : Gives(c, n) \/ Breaks(c, n)

LEMMA Breaking ==
  ASSUME NEW S, pc \in [Caller -> S], NEW c \in Caller, pc[c] \notin Ended,
         NEW s, pc' = [pc EXCEPT ![c] = s],
         NEW b \in Nat, out[c] = Rows(b), RowCount(c) \in Nat,
         NEW n \in b..RowCount(c), Broken(c, n)
  PROVE  StreamStep
<1>1. Len(out[c]) = b
  BY RowsTyped
<1>2. Breaks(c, n) /\ n \in Nat
  BY <1>1 DEF Breaks
<1> QED
  BY <1>2 DEF StreamStep

LEMMA Giving ==
  ASSUME NEW S, pc \in [Caller -> S], out \in [Caller -> Seq(Nat)],
         NEW c \in Caller, pc[c] \notin Ended,
         NEW s, pc' = [pc EXCEPT ![c] = s],
         NEW b \in Nat, out[c] = Rows(b), RowCount(c) \in Nat,
         NEW n \in b..RowCount(c), out' = [out EXCEPT ![c] = Rows(n)],
         s \in Ended => n = RowCount(c)
  PROVE  StreamStep
<1>1. Len(out[c]) = b
  BY RowsTyped
<1>2. Gives(c, n) /\ n \in Nat
  BY <1>1 DEF Gives
<1> QED
  BY <1>2 DEF StreamStep

LEMMA RowsCounted == \A c \in Caller : RowCount(c) \in Nat
<1> SUFFICES ASSUME NEW c \in Caller PROVE RowCount(c) \in Nat
  OBVIOUS
<1>1. Upto[c] \in Seq(Nat)
  BY UptoAssumption
<1>2. Pages(c) \in Nat /\ (Pages(c) > 0 => Upto[c][Pages(c)] \in Nat)
  BY <1>1 DEF Pages
<1> QED
  BY <1>2 DEF RowCount

(* The answer to a request of a call that has given the partitions before p. *)
LEMMA SFAnswered ==
  ASSUME NEW c \in Caller, NEW p \in 1..Pages(c), out \in [Caller -> Seq(Nat)],
         out[c] = Rows(Before(c, p))
  PROVE  /\ SF!Yield(c, SF!Page(c, p)) => out' = [out EXCEPT ![c] = Rows(Upto[c][p])]
         /\ SF!BadCell(c, p) => /\ pc' = [pc EXCEPT ![c] = "done"]
                                /\ \E n \in Before(c, p)..RowCount(c) : Broken(c, n)
<1>1. SF!Page(c, p) = Page(c, p)
  BY DEF SF!Page, Page, SF!Before, Before
<1>2. SF!Yield(c, SF!Page(c, p)) => Yield(c, Page(c, p))
  BY <1>1 DEF SF!Yield, Yield
<1>3. SF!BadCell(c, p) => BadCell(c, p)
  BY <1>1 DEF SF!BadCell, BadCell, SF!Fail, Fail, SF!Yield, Yield, SF!Goto, Goto, SF!Error, Error
<1> QED
  BY <1>2, <1>3, PageGiven, PageBroken

LEMMA SFConstants ==
  /\ MaxTime \in Nat /\ Margin \in Nat /\ TokenLife \in Nat /\ Margin < TokenLife
  /\ MaxPolls \in Nat \ {0} /\ FirstDelay \in Nat /\ MaxDelay \in Nat /\ None \notin Caller
BY TimeAssumption, NoneIsNoCaller, ConnectorsAssumption DEF SF!Assumption

LEMMA SFTokenStep ==
  ASSUME SFInv, NEW c \in Caller, SF!TakeToken(c) \/ SF!SignToken(c) \/ SF!SignFails(c)
  PROVE  SFInv' /\ StreamStep
<1> USE SFConstants
<1>1. SFTypes /\ SFCall(c) /\ SF!SignerHoldsLock /\ \A d \in Caller : SFCall(d)
  BY DEF SFInv
<1>2. CASE SF!TakeToken(c)
  <2>1. PICK s \in {"submit", "sign"}, t \in Nat, k \in {lock, c} :
          /\ pc' = [pc EXCEPT ![c] = s] /\ tok' = [tok EXCEPT ![c] = t] /\ lock' = k
          /\ s = "submit" => t > clock + Margin /\ k = None
          /\ s = "sign" => k = c
    <3>1. CASE SF!Reusable /\ tok' = [tok EXCEPT ![c] = cache]
               /\ SF!Goto(c, "submit") /\ UNCHANGED lock
      BY <1>1, <1>2, <3>1 DEF SF!TakeToken, SF!Goto, SF!Reusable, SFTypes
    <3>2. CASE lock' = c /\ SF!Goto(c, "sign") /\ UNCHANGED tok
      <4>1. tok' = [tok EXCEPT ![c] = tok[c]]
        BY <1>1, <3>2 DEF SFTypes
      <4> QED
        BY <1>1, <1>2, <3>2, <4>1 DEF SFTypes, SF!TakeToken, SF!Goto
    <3> QED
      BY <1>2, <3>1, <3>2 DEF SF!TakeToken
  <2>2. /\ pc[c] = "idle" /\ lock = None /\ began' = [began EXCEPT ![c] = clock]
        /\ UNCHANGED <<clock, cache, part, out, polls, delay, wake>>
    BY <1>2 DEF SF!TakeToken, SF!pollVars
  <2>3. SFTypes'
    BY <1>1, <2>1, <2>2 DEF SFTypes, SFState
  <2>4. SF!SignerHoldsLock'
    <3>1. pc'[c] = s /\ \A d \in Caller \ {c} : pc'[d] = pc[d] /\ pc[d] # "sign"
      BY <1>1, <2>1, <2>2 DEF SF!SignerHoldsLock, SFTypes
    <3> QED
      BY <2>1, <3>1 DEF SF!SignerHoldsLock
  <2>5. \A d \in Caller : SFCall(d)'
    BY <1>1, <2>1, <2>2 DEF SFTypes, SFCall, SF!Requesting, Pages
  <2>6. StreamStep
    BY <1>1, <2>1, <2>2 DEF StreamStep, Ended, SFTypes
  <2> QED
    BY <2>3, <2>4, <2>5, <2>6 DEF SFInv
<1>3. CASE SF!SignToken(c)
  <2>1. /\ pc[c] = "sign" /\ pc' = [pc EXCEPT ![c] = "submit"]
        /\ cache' = began[c] + TokenLife /\ tok' = [tok EXCEPT ![c] = began[c] + TokenLife]
        /\ lock' = None /\ UNCHANGED <<clock, began, part, out, polls, delay, wake>>
    BY <1>3 DEF SF!SignToken, SF!Goto, SF!pollVars
  <2>2. SFTypes'
    BY <1>1, <2>1 DEF SFTypes, SFState
  <2>3. SF!SignerHoldsLock'
    BY <1>1, <2>1 DEF SF!SignerHoldsLock, SFTypes
  <2>4. \A d \in Caller : SFCall(d)'
    BY <1>1, <2>1 DEF SFTypes, SFCall, SF!Requesting, Pages
  <2>5. StreamStep
    BY <1>1, <2>1 DEF StreamStep, Ended, SFTypes
  <2> QED
    BY <2>2, <2>3, <2>4, <2>5 DEF SFInv
<1>4. CASE SF!SignFails(c)
  <2>1. /\ pc[c] = "sign" /\ lock' = None /\ Fail(c, <<>>)
        /\ UNCHANGED <<clock, began, tok, cache, part, polls, delay, wake>>
    BY <1>4 DEF SF!SignFails, SF!Fail, SF!Yield, SF!Goto, SF!Error, SF!pollVars,
                Fail, Yield, Goto, Error
  <2>2. out[c] = Rows(0) /\ out \in [Caller -> Seq(Nat)]
    BY <1>1, <2>1 DEF SFCall, SFTypes
  <2>3. pc' = [pc EXCEPT ![c] = "done"] /\ Broken(c, 0)
    BY <1>1, <2>1, <2>2, FailsEmpty
  <2>4. Append(Rows(0), 0) \in Seq(Nat) /\ Len(Rows(0)) = 0
    BY RowsTyped
  <2>5. SFTypes'
    BY <1>1, <2>1, <2>3, <2>4 DEF SFTypes, SFState, Broken
  <2>6. SF!SignerHoldsLock'
    BY <1>1, <2>1, <2>3 DEF SF!SignerHoldsLock, SFTypes
  <2>7. \A d \in Caller : SFCall(d)'
    BY <1>1, <2>1, <2>3 DEF SFTypes, SFCall, SF!Requesting, Pages, Broken
  <2>8. StreamStep
    <3>1. 0 \in 0..RowCount(c) /\ pc[c] \notin Ended /\ "done" \in Ended
      BY <2>1, RowsCounted DEF Ended
    <3> QED
      BY <1>1, <2>2, <2>3, <3>1, RowsCounted, Breaking DEF SFTypes
  <2> QED
    BY <2>5, <2>6, <2>7, <2>8 DEF SFInv
<1> QED
  BY <1>2, <1>3, <1>4

(***************************************************************************)
(* The outcomes of a request: it is polled for, or the call gives a        *)
(* partition, or ends, or fails.                                           *)
(***************************************************************************)
SFRequest(c) ==
  /\ pc[c] \in SF!Requesting
  /\ UNCHANGED <<clock, began, tok, cache, lock>>
  /\ polls' \in [Caller -> 0..MaxPolls] /\ delay' \in [Caller -> Nat] /\ wake' \in [Caller -> Nat]

LEMMA SFPolls ==
  ASSUME SFInv, NEW c \in Caller, SFRequest(c), pc[c] \in {"submit", "poll"},
         pc' = [pc EXCEPT ![c] = "poll"], UNCHANGED <<part, out>>
  PROVE  SFInv' /\ StreamStep
<1>1. SFTypes' /\ SF!SignerHoldsLock'
  BY DEF SFInv, SFTypes, SFRequest, SFState, SF!SignerHoldsLock
<1>2. \A d \in Caller : SFCall(d)'
  BY DEF SFInv, SFTypes, SFRequest, SFCall, SF!Requesting, Pages
<1>3. StreamStep
  BY DEF StreamStep, Ended, SFInv, SFTypes
<1> QED
  BY <1>1, <1>2, <1>3 DEF SFInv

LEMMA SFGives ==
  ASSUME SFInv, NEW c \in Caller, SFRequest(c), NEW p \in 1..Pages(c), out[c] = Rows(Before(c, p)),
         pc' = [pc EXCEPT ![c] = "partition"], part' = [part EXCEPT ![c] = p + 1],
         out' = [out EXCEPT ![c] = Rows(Upto[c][p])]
  PROVE  SFInv' /\ StreamStep
<1>1. /\ Before(c, p) \in Nat /\ Upto[c][p] \in Before(c, p)..RowCount(c) /\ RowCount(c) \in Nat
      /\ Rows(Upto[c][p]) \in Seq(Nat) /\ p + 1 \in 2..(Pages(c) + 1) /\ (p + 1) - 1 = p
      /\ p + 1 \in Nat
  <2>1. Pages(c) \in Nat
    BY UptoAssumption DEF Pages
  <2>2. /\ Before(c, p) \in Nat /\ Upto[c][p] \in Nat /\ RowCount(c) \in Nat
        /\ Before(c, p) <= Upto[c][p] /\ Upto[c][p] <= RowCount(c)
    BY PagesOrdered
  <2>3. Rows(Upto[c][p]) \in Seq(Nat)
    BY <2>2, RowsTyped
  <2>4. p \in Nat /\ 1 <= p /\ p <= Pages(c)
    BY <2>1
  <2>5. p + 1 \in 2..(Pages(c) + 1) /\ (p + 1) - 1 = p /\ p + 1 \in Nat
    BY <2>1, <2>4
  <2> QED
    BY <2>2, <2>3, <2>5
<1>2. SFTypes' /\ SF!SignerHoldsLock'
  BY <1>1 DEF SFInv, SFTypes, SFRequest, SFState, SF!SignerHoldsLock, SF!Requesting
<1>3. ASSUME NEW d \in Caller PROVE SFCall(d)'
  <2>1. CASE d = c
    <3>1. out'[d] = Rows(Upto[d][p]) /\ part'[d] = p + 1 /\ pc'[d] = "partition"
      BY <2>1 DEF SFInv, SFTypes
    <3>2. tok[c] > began[c] + Margin /\ tok' = tok /\ began' = began
      BY DEF SFInv, SFCall, SFRequest
    <3> QED
      BY <1>1, <2>1, <3>1, <3>2 DEF SFCall, Pages
  <2>2. CASE d # c
    BY <2>2 DEF SFInv, SFTypes, SFRequest, SFCall, SF!Requesting, Pages
  <2> QED
    BY <2>1, <2>2
<1>4. StreamStep
  <2>1. pc[c] \notin Ended /\ "partition" \notin Ended
    BY DEF SFRequest, SF!Requesting, Ended
  <2> QED
    BY <1>1, <2>1, Giving DEF SFInv, SFTypes
<1> QED
  BY <1>2, <1>3, <1>4 DEF SFInv

LEMMA SFEnds ==
  ASSUME SFInv, NEW c \in Caller, SFRequest(c), out[c] = Rows(RowCount(c)),
         pc' = [pc EXCEPT ![c] = "done"], UNCHANGED <<part, out>>
  PROVE  SFInv' /\ StreamStep
<1>1. SFTypes' /\ SF!SignerHoldsLock'
  BY DEF SFInv, SFTypes, SFRequest, SFState, SF!SignerHoldsLock, SF!Requesting
<1>2. \A d \in Caller : SFCall(d)'
  BY DEF SFInv, SFTypes, SFRequest, SFCall, SF!Requesting, Pages
<1>3. StreamStep
  <2>1. pc[c] \notin Ended
    BY DEF SFRequest, SF!Requesting, Ended
  <2>2. out' = [out EXCEPT ![c] = Rows(RowCount(c))] /\ RowCount(c) \in RowCount(c)..RowCount(c)
    BY RowsCounted DEF SFInv, SFTypes
  <2> QED
    BY <2>1, <2>2, RowsCounted, Giving DEF SFInv, SFTypes
<1> QED
  BY <1>1, <1>2, <1>3 DEF SFInv

LEMMA SFBreaks ==
  ASSUME SFInv, NEW c \in Caller, SFRequest(c), NEW s \in {"done", "abandoned"},
         pc' = [pc EXCEPT ![c] = s], part' = part,
         NEW b \in Nat, out[c] = Rows(b), NEW n \in b..RowCount(c), Broken(c, n)
  PROVE  SFInv' /\ StreamStep
<1>1. n \in Nat /\ Append(Rows(n), 0) \in Seq(Nat)
  BY RowsCounted, RowsTyped
<1>2. SFTypes' /\ SF!SignerHoldsLock'
  BY <1>1 DEF SFInv, SFTypes, SFRequest, SFState, SF!SignerHoldsLock, SF!Requesting, Broken
<1>3. \A d \in Caller : SFCall(d)'
  BY DEF SFInv, SFTypes, SFRequest, SFCall, SF!Requesting, Pages, Broken
<1>4. StreamStep
  <2>1. pc[c] \notin Ended /\ s \in Ended
    BY DEF SFRequest, SF!Requesting, Ended
  <2> QED
    BY <2>1, RowsCounted, Breaking DEF SFInv, SFTypes
<1> QED
  BY <1>2, <1>3, <1>4 DEF SFInv

(* What a call that sends requests has given, it has given whole. *)
LEMMA SFGiven ==
  ASSUME SFInv, NEW c \in Caller, pc[c] \in SF!Requesting
  PROVE  /\ pc[c] \in {"submit", "poll"} => out[c] = Rows(0)
         /\ pc[c] = "partition" =>
              /\ part[c] \in 2..(Pages(c) + 1)
              /\ part[c] <= Pages(c) => out[c] = Rows(Before(c, part[c]))
              /\ part[c] > Pages(c) => out[c] = Rows(RowCount(c))
         /\ Pages(c) \in Nat
         /\ \E b \in Nat : out[c] = Rows(b) /\ b <= RowCount(c)
<1>1. SFCall(c) /\ Pages(c) \in Nat
  BY UptoAssumption DEF SFInv, Pages
<1>2. CASE pc[c] \in {"submit", "poll"}
  BY <1>1, <1>2, RowsCounted DEF SFCall
<1>3. CASE pc[c] = "partition"
  <2>1. part[c] \in 2..(Pages(c) + 1) /\ out[c] = Rows(Upto[c][part[c] - 1])
    BY <1>1, <1>3 DEF SFCall
  <2>2. PICK q \in 1..Pages(c) : q = part[c] - 1
    BY <1>1, <2>1
  <2>3. /\ Upto[c][q] \in Nat /\ Upto[c][q] <= RowCount(c)
        /\ q = Pages(c) => Upto[c][q] = RowCount(c)
    BY PagesOrdered
  <2>4. part[c] <= Pages(c) => Before(c, part[c]) = Upto[c][q]
    BY <1>1, <2>1, <2>2 DEF Before
  <2> QED
    BY <1>1, <1>3, <2>1, <2>2, <2>3, <2>4
<1> QED
  BY <1>2, <1>3 DEF SF!Requesting

LEMMA SFAnsweredStep ==
  ASSUME SFInv, NEW c \in Caller, pc[c] \in {"submit", "poll"}, SF!Answered(c),
         UNCHANGED SF!requestVars, UNCHANGED SF!pollVars
  PROVE  SFInv' /\ StreamStep
<1>1. SFRequest(c)
  BY DEF SFRequest, SF!requestVars, SF!pollVars, SF!Requesting, SFInv, SFTypes
<1>2. out[c] = Rows(0) /\ part[c] = 1
  BY DEF SFInv, SFCall
<1>3. CASE SF!Pages(c) = 0 /\ SF!Goto(c, "done") /\ UNCHANGED <<part, out>>
  <2>1. RowCount(c) = 0
    BY <1>3 DEF RowCount, SF!Pages, Pages
  <2> QED
    BY <1>1, <1>2, <1>3, <2>1, SFEnds DEF SF!Goto
<1>4. CASE SF!Pages(c) > 0
  <2>1. 1 \in 1..Pages(c) /\ Before(c, 1) = 0 /\ out \in [Caller -> Seq(Nat)]
    <3>1. Pages(c) \in Nat /\ Pages(c) > 0
      BY <1>4, UptoAssumption DEF SF!Pages, Pages
    <3>2. Before(c, 1) = 0
      BY DEF Before
    <3> QED
      BY <3>1, <3>2 DEF SFInv, SFTypes
  <2>2. CASE /\ SF!Yield(c, SF!Page(c, 1)) /\ part' = [part EXCEPT ![c] = 2]
             /\ SF!Goto(c, "partition")
    <3>1. out' = [out EXCEPT ![c] = Rows(Upto[c][1])]
      BY <1>2, <2>1, <2>2, SFAnswered
    <3>2. part' = [part EXCEPT ![c] = 1 + 1]
      BY <2>2
    <3> QED
      BY <1>1, <1>2, <2>1, <2>2, <3>1, <3>2, SFGives DEF SF!Goto
  <2>3. CASE SF!BadCell(c, 1) /\ UNCHANGED part
    <3>1. /\ pc' = [pc EXCEPT ![c] = "done"] /\ part' = part
          /\ \E n \in 0..RowCount(c) : Broken(c, n)
      BY <1>2, <2>1, <2>3, SFAnswered
    <3> QED
      BY <1>1, <1>2, <3>1, SFBreaks
  <2> QED
    BY <1>3, <1>4, <2>2, <2>3 DEF SF!Answered
<1> QED
  BY <1>3, <1>4 DEF SF!Answered

LEMMA SFRequestStep ==
  ASSUME SFInv, NEW c \in Caller,
         \/ SF!Submit(c) \/ SF!RequestFails(c) \/ SF!PollDone(c) \/ SF!PollAgain(c)
         \/ SF!GiveUp(c) \/ SF!GetPartition(c) \/ SF!Finish(c)
  PROVE  SFInv' /\ StreamStep
<1>1. SFTypes
  BY DEF SFInv
<1>2. ASSUME NEW d \in Nat, SF!Sleep(c, d)
      PROVE  delay' \in [Caller -> Nat] /\ wake' \in [Caller -> Nat]
  <2>1. SF!Least(clock + d, MaxTime) \in Nat
    BY <1>1, SFConstants DEF SFTypes, SF!Least
  <2> QED
    BY <1>1, <1>2, <2>1 DEF SFTypes, SF!Sleep
<1>3. CASE SF!Submit(c)
  <2>1. pc[c] = "submit" /\ UNCHANGED SF!requestVars
    BY <1>3 DEF SF!Submit
  <2>2. CASE SF!Answered(c) /\ UNCHANGED SF!pollVars
    BY <2>1, <2>2, SFAnsweredStep
  <2>3. CASE SF!Goto(c, "poll") /\ SF!Sleep(c, FirstDelay) /\ UNCHANGED <<polls, part, out>>
    <3>1. SFRequest(c)
      BY <1>1, <1>2, <2>1, <2>3, SFConstants DEF SFRequest, SF!requestVars, SF!Requesting, SFTypes
    <3> QED
      BY <2>1, <2>3, <3>1, SFPolls DEF SF!Goto
  <2> QED
    BY <1>3, <2>2, <2>3 DEF SF!Submit
<1>4. CASE SF!RequestFails(c)
  <2>1. SFRequest(c) /\ part' = part /\ Fail(c, <<>>)
    BY <1>1, <1>4
       DEF SF!RequestFails, SFRequest, SF!requestVars, SF!pollVars, SF!Requesting, SFTypes,
           SF!Fail, SF!Yield, SF!Goto, SF!Error, Fail, Yield, Goto, Error
  <2>2. PICK b \in Nat : out[c] = Rows(b) /\ b <= RowCount(c)
    BY <2>1, SFGiven DEF SFRequest
  <2>3. pc' = [pc EXCEPT ![c] = "done"] /\ Broken(c, b)
    BY <1>1, <2>1, <2>2, FailsEmpty DEF SFTypes
  <2>4. b \in b..RowCount(c)
    BY <2>2, RowsCounted
  <2> QED
    BY <2>1, <2>2, <2>3, <2>4, SFBreaks
<1>5. CASE SF!PollDone(c)
  BY <1>5, SFAnsweredStep DEF SF!PollDone, SF!requestVars, SF!pollVars
<1>6. CASE SF!PollAgain(c)
  <2>1. /\ pc[c] = "poll" /\ polls[c] < MaxPolls /\ polls' = [polls EXCEPT ![c] = polls[c] + 1]
        /\ SF!Sleep(c, SF!Least(2 * delay[c], MaxDelay))
        /\ UNCHANGED <<clock, began, tok, cache, lock, pc, part, out>>
    BY <1>6 DEF SF!PollAgain, SF!requestVars
  <2>2. SF!Least(2 * delay[c], MaxDelay) \in Nat
    BY <1>1, SFConstants DEF SFTypes, SF!Least
  <2>3. delay' \in [Caller -> Nat] /\ wake' \in [Caller -> Nat]
    BY <1>2, <2>1, <2>2
  <2>4. polls' \in [Caller -> 0..MaxPolls]
    <3>1. polls \in [Caller -> 0..MaxPolls] /\ MaxPolls \in Nat
      BY <1>1, SFConstants DEF SFTypes
    <3>2. polls[c] \in 0..MaxPolls /\ polls[c] < MaxPolls
      BY <2>1, <3>1
    <3>3. polls[c] + 1 \in 0..MaxPolls
      BY <3>1, <3>2
    <3> QED
      BY <2>1, <3>1, <3>3
  <2>5. SFRequest(c) /\ pc' = [pc EXCEPT ![c] = "poll"]
    BY <1>1, <2>1, <2>3, <2>4 DEF SFRequest, SF!Requesting, SFTypes
  <2> QED
    BY <2>1, <2>5, SFPolls
<1>7. CASE SF!GiveUp(c)
  <2>1. /\ pc[c] = "poll" /\ pc' = [pc EXCEPT ![c] = "abandoned"] /\ part' = part
        /\ out' = [out EXCEPT ![c] = out[c] \o <<0>>]
    BY <1>7 DEF SF!GiveUp, SF!Yield, SF!Goto, SF!Error
  <2>2. SFRequest(c)
    BY <1>1, <1>7 DEF SF!GiveUp, SFRequest, SF!requestVars, SF!pollVars, SF!Requesting, SFTypes
  <2>3. out[c] = Rows(0) /\ 0 \in 0..RowCount(c)
    BY <2>1, SFGiven, RowsCounted DEF SF!Requesting
  <2>4. out[c] \o <<0>> = Append(out[c], 0)
    BY <2>3, RowsTyped
  <2>5. Broken(c, 0)
    BY <2>1, <2>3, <2>4 DEF Broken
  <2> QED
    BY <2>1, <2>2, <2>3, <2>5, SFBreaks
<1>8. CASE SF!GetPartition(c)
  <2>1. SFRequest(c) /\ pc[c] = "partition" /\ part[c] <= Pages(c)
    BY <1>1, <1>8
       DEF SF!GetPartition, SFRequest, SF!requestVars, SF!pollVars, SF!Requesting, SFTypes,
           SF!Pages, Pages
  <2>2. PICK p \in 1..Pages(c) : p = part[c] /\ out[c] = Rows(Before(c, p))
    BY <2>1, SFGiven DEF SF!Requesting
  <2>3. CASE SF!Yield(c, SF!Page(c, part[c])) /\ part' = [part EXCEPT ![c] = @ + 1] /\ UNCHANGED pc
    <3>1. out' = [out EXCEPT ![c] = Rows(Upto[c][p])]
      BY <1>1, <2>2, <2>3, SFAnswered DEF SFTypes
    <3>2. pc' = [pc EXCEPT ![c] = "partition"] /\ part' = [part EXCEPT ![c] = p + 1]
      BY <1>1, <2>1, <2>2, <2>3 DEF SFTypes
    <3> QED
      BY <2>1, <2>2, <3>1, <3>2, SFGives
  <2>4. CASE SF!BadCell(c, part[c]) /\ UNCHANGED part
    <3>1. /\ pc' = [pc EXCEPT ![c] = "done"] /\ part' = part
          /\ \E n \in Before(c, p)..RowCount(c) : Broken(c, n)
      BY <1>1, <2>2, <2>4, SFAnswered DEF SFTypes
    <3>2. Before(c, p) \in Nat
      BY PagesOrdered
    <3> QED
      BY <2>1, <2>2, <3>1, <3>2, SFBreaks
  <2> QED
    BY <1>8, <2>3, <2>4 DEF SF!GetPartition
<1>9. CASE SF!Finish(c)
  <2>1. /\ SFRequest(c) /\ pc[c] = "partition" /\ part[c] > Pages(c)
        /\ pc' = [pc EXCEPT ![c] = "done"] /\ UNCHANGED <<part, out>>
    BY <1>1, <1>9
       DEF SF!Finish, SFRequest, SF!requestVars, SF!pollVars, SF!Requesting, SFTypes,
           SF!Pages, Pages, SF!Goto
  <2>2. out[c] = Rows(RowCount(c))
    BY <2>1, SFGiven DEF SF!Requesting
  <2> QED
    BY <2>1, <2>2, SFEnds
<1> QED
  BY <1>3, <1>4, <1>5, <1>6, <1>7, <1>8, <1>9

LEMMA SFNext ==
  ASSUME SFInv, SF!Next
  PROVE  SFInv' /\ StreamStep
<1>1. CASE SF!Tick
  <2>0. /\ clock' \in 1..MaxTime
        /\ UNCHANGED <<pc, began, tok, cache, lock, part, out, polls, delay, wake>>
    BY <1>1, SFConstants DEF SF!Tick, SF!pollVars, SFInv, SFTypes
  <2>1. SFTypes' /\ SF!SignerHoldsLock'
    BY <2>0 DEF SFInv, SFTypes, SF!SignerHoldsLock
  <2>2. \A d \in Caller : SFCall(d)'
    BY <1>1 DEF SF!Tick, SF!pollVars, SFInv, SFCall, Pages
  <2>3. StreamStep
    BY <1>1 DEF SF!Tick, StreamStep
  <2> QED
    BY <2>1, <2>2, <2>3 DEF SFInv
<1>2. CASE \E c \in Caller : SF!Call(c)
  BY <1>2, SFTokenStep, SFRequestStep DEF SF!Call
<1> QED
  BY <1>1, <1>2 DEF SF!Next

LEMMA SFHolds ==
  SFInv => SF!TypeOK /\ SF!LiveWithinMargin /\ SF!SignerHoldsLock
<1> SUFFICES ASSUME SFInv PROVE SF!TypeOK /\ SF!LiveWithinMargin /\ SF!SignerHoldsLock
  OBVIOUS
<1>1. SF!TypeOK
  BY DEF SFInv, SFTypes, SFState, SF!TypeOK, SF!SharedTypeOK, SF!Ended
<1>2. SF!LiveWithinMargin
  BY SFConstants DEF SFInv, SFTypes, SFCall, SF!LiveWithinMargin, SF!Live
<1> QED
  BY <1>1, <1>2 DEF SFInv

--------------------------------------------------------------------------------
(***************************************************************************)
(* bigquery.rs.  A call that has a manager to ask, or a token to send, got *)
(* it from a connector whose manager is made; what its stream has given is *)
(* the pages before part.                                                  *)
(***************************************************************************)
BQState == {"idle", "manager", "make", "secret", "token", "fetch", "store", "send",
            "done", "abandoned"}

BQToken(c) ==
  /\ pc[c] = "secret" <=> lock = c
  /\ pc[c] = "secret" => ~mgr
  /\ pc[c] \in {"token", "fetch", "store", "send"} => mgr
  /\ pc[c] \in {"store", "send"} => tok[c] > clock

BQStream(c) ==
  pc[c] \notin Ended =>
    /\ part[c] >= 1
    /\ part[c] <= Pages(c) \/ (Pages(c) = 0 /\ part[c] = 1)
    /\ out[c] = Rows(Before(c, part[c]))

BQTypes ==
  /\ clock \in 1..MaxTime /\ pc \in [Caller -> BQState] /\ began \in [Caller -> 0..MaxTime]
  /\ tok \in [Caller -> Nat] /\ cache \in Nat /\ lock \in Caller \cup {None}
  /\ part \in [Caller -> Nat] /\ out \in [Caller -> Seq(Nat)]
  /\ mgr \in BOOLEAN /\ goal \in [Caller -> {"submit", "poll", "page"}]

BQInv ==
  /\ BQTypes
  /\ cache > 0 => mgr
  /\ \A c \in Caller : BQToken(c) /\ BQStream(c)

LEMMA BQConstants ==
  /\ MaxTime \in Nat /\ Margin \in Nat /\ None \notin Caller
  /\ \A life \in Lives : life \in Nat /\ life > 0
BY TimeAssumption, NoneIsNoCaller, ConnectorsAssumption DEF BQ!Assumption

(* What the streams hold when call c goes on, *)
LEMMA BQMoves ==
  ASSUME BQInv, NEW c \in Caller, pc[c] \notin Ended, NEW s \in BQState \ Ended,
         pc' = [pc EXCEPT ![c] = s], UNCHANGED <<part, out>>
  PROVE  (\A d \in Caller : BQStream(d)') /\ StreamStep
<1>1. \A d \in Caller : BQStream(d)'
  BY DEF BQInv, BQTypes, BQStream, Pages, Before
<1>2. StreamStep
  BY DEF StreamStep, BQInv, BQTypes
<1> QED
  BY <1>1, <1>2

(* what it has given, it has given whole, *)
LEMMA BQGiven ==
  ASSUME BQInv, NEW c \in Caller, pc[c] \notin Ended
  PROVE  /\ out[c] = Rows(Before(c, part[c]))
         /\ Before(c, part[c]) \in 0..RowCount(c)
         /\ Pages(c) = 0 => Before(c, part[c]) = RowCount(c)
         /\ Pages(c) > 0 => part[c] \in 1..Pages(c)
         /\ Pages(c) \in Nat /\ RowCount(c) \in Nat
<1>1. BQStream(c) /\ Pages(c) \in Nat /\ RowCount(c) \in Nat /\ part[c] \in Nat
  BY UptoAssumption, RowsCounted DEF BQInv, BQTypes, Pages
<1>2. CASE Pages(c) = 0
  <2>1. part[c] = 1 /\ Before(c, part[c]) = 0 /\ RowCount(c) = 0
    BY <1>1, <1>2 DEF BQStream, Before, RowCount
  <2> QED
    BY <1>1, <1>2, <2>1 DEF BQStream
<1>3. CASE Pages(c) > 0
  <2>1. part[c] \in 1..Pages(c) /\ out[c] = Rows(Before(c, part[c]))
    BY <1>1, <1>3 DEF BQStream
  <2>2. /\ Before(c, part[c]) \in Nat /\ Upto[c][part[c]] \in Nat
        /\ Before(c, part[c]) <= Upto[c][part[c]] /\ Upto[c][part[c]] <= RowCount(c)
    BY <2>1, PagesOrdered
  <2>3. Before(c, part[c]) \in 0..RowCount(c)
    BY <1>1, <2>2
  <2> QED
    BY <1>1, <1>3, <2>1, <2>3
<1> QED
  BY <1>1, <1>2, <1>3

(* and when it fails, *)
LEMMA BQBreaks ==
  ASSUME BQInv, NEW c \in Caller, pc[c] \notin Ended, pc' = [pc EXCEPT ![c] = "done"],
         part' = part, NEW n \in Before(c, part[c])..RowCount(c), Broken(c, n)
  PROVE  (\A d \in Caller : BQStream(d)') /\ StreamStep /\ out' \in [Caller -> Seq(Nat)]
<1>1. Before(c, part[c]) \in Nat /\ out[c] = Rows(Before(c, part[c])) /\ RowCount(c) \in Nat
  BY BQGiven
<1>2. n \in Nat /\ Append(Rows(n), 0) \in Seq(Nat)
  BY <1>1, RowsTyped
<1>3. \A d \in Caller : BQStream(d)'
  BY DEF BQInv, BQTypes, BQStream, Pages, Before, Broken, Ended
<1>4. StreamStep
  BY <1>1, Breaking DEF BQInv, BQTypes
<1>5. out' \in [Caller -> Seq(Nat)]
  BY <1>2 DEF BQInv, BQTypes, Broken
<1> QED
  BY <1>3, <1>4, <1>5

(* at the first thing it asks for. *)
LEMMA BQFails ==
  ASSUME BQInv, NEW c \in Caller, pc[c] \notin Ended, BQ!Fail(c, <<>>), part' = part
  PROVE  /\ pc' = [pc EXCEPT ![c] = "done"]
         /\ (\A d \in Caller : BQStream(d)') /\ StreamStep /\ out' \in [Caller -> Seq(Nat)]
<1>1. Fail(c, <<>>)
  BY DEF BQ!Fail, BQ!Yield, BQ!Goto, BQ!Error, Fail, Yield, Goto, Error
<1>2. PICK n \in Before(c, part[c])..RowCount(c) :
        n \in Nat /\ n = Before(c, part[c]) /\ out[c] = Rows(n)
  BY BQGiven
<1>3. pc' = [pc EXCEPT ![c] = "done"] /\ Broken(c, n)
  BY <1>1, <1>2, FailsEmpty DEF BQInv, BQTypes
<1> QED
  BY <1>2, <1>3, BQBreaks

LEMMA BQManagerStep ==
  ASSUME BQInv, NEW c \in Caller,
         \/ BQ!GetToken(c) \/ BQ!ReadManager(c) \/ BQ!LockManager(c)
         \/ BQ!MakeManager(c) \/ BQ!SecretFails(c)
  PROVE  BQInv' /\ StreamStep
<1> USE BQConstants
<1>1. BQTypes /\ (cache > 0 => mgr) /\ \A d \in Caller : BQToken(d)
  BY DEF BQInv
<1>2. CASE BQ!GetToken(c)
  <2>1. PICK s \in {"send", "manager"}, t \in Nat :
          /\ pc' = [pc EXCEPT ![c] = s] /\ tok' = [tok EXCEPT ![c] = t]
          /\ s = "send" => t > clock /\ mgr
    <3>1. CASE BQ!UseCached(c)
      <4>1. cache \in Nat /\ cache > clock /\ cache > 0
        BY <1>1, <3>1 DEF BQ!UseCached, BQ!Fresh, BQTypes
      <4> QED
        BY <1>1, <3>1, <4>1 DEF BQ!UseCached, BQ!Goto
    <3>2. CASE BQ!Goto(c, "manager") /\ UNCHANGED tok
      <4>1. tok' = [tok EXCEPT ![c] = tok[c]] /\ tok[c] \in Nat
        BY <1>1, <3>2 DEF BQTypes
      <4> QED
        BY <3>2, <4>1 DEF BQ!Goto
    <3> QED
      BY <1>2, <3>1, <3>2 DEF BQ!GetToken
  <2>2. /\ pc[c] = "idle" /\ began' = [began EXCEPT ![c] = clock]
        /\ UNCHANGED <<clock, cache, lock, part, out, mgr, goal>>
    BY <1>2 DEF BQ!GetToken
  <2>3. BQTypes' /\ (cache > 0 => mgr)'
    BY <1>1, <2>1, <2>2 DEF BQTypes, BQState
  <2>4. \A d \in Caller : BQToken(d)'
    BY <1>1, <2>1, <2>2 DEF BQTypes, BQToken
  <2>5. (\A d \in Caller : BQStream(d)') /\ StreamStep
    BY <2>1, <2>2, BQMoves DEF BQState, Ended
  <2> QED
    BY <2>3, <2>4, <2>5 DEF BQInv
<1>3. CASE BQ!ReadManager(c)
  <2>1. PICK s \in {"token", "make"} : pc' = [pc EXCEPT ![c] = s] /\ (s = "token" => mgr)
    BY <1>3 DEF BQ!ReadManager, BQ!Goto
  <2>2. /\ pc[c] = "manager"
        /\ UNCHANGED <<clock, began, tok, cache, lock, part, out, mgr, goal>>
    BY <1>3 DEF BQ!ReadManager
  <2>3. BQTypes' /\ (cache > 0 => mgr)'
    BY <1>1, <2>1, <2>2 DEF BQTypes, BQState
  <2>4. \A d \in Caller : BQToken(d)'
    BY <1>1, <2>1, <2>2 DEF BQTypes, BQToken
  <2>5. (\A d \in Caller : BQStream(d)') /\ StreamStep
    BY <2>1, <2>2, BQMoves DEF BQState, Ended
  <2> QED
    BY <2>3, <2>4, <2>5 DEF BQInv
<1>4. CASE BQ!LockManager(c)
  <2>1. PICK s \in {"token", "secret"}, k \in {lock, c} :
          /\ pc' = [pc EXCEPT ![c] = s] /\ lock' = k
          /\ s = "token" => mgr /\ k = lock
          /\ s = "secret" => ~mgr /\ k = c
    BY <1>4 DEF BQ!LockManager, BQ!Goto
  <2>2. /\ pc[c] = "make" /\ lock = None
        /\ UNCHANGED <<clock, began, tok, cache, part, out, mgr, goal>>
    BY <1>4 DEF BQ!LockManager
  <2>3. BQTypes' /\ (cache > 0 => mgr)'
    BY <1>1, <2>1, <2>2 DEF BQTypes, BQState
  <2>4. \A d \in Caller : BQToken(d)'
    BY <1>1, <2>1, <2>2 DEF BQTypes, BQToken
  <2>5. (\A d \in Caller : BQStream(d)') /\ StreamStep
    BY <2>1, <2>2, BQMoves DEF BQState, Ended
  <2> QED
    BY <2>3, <2>4, <2>5 DEF BQInv
<1>5. CASE BQ!MakeManager(c)
  <2>1. /\ pc[c] = "secret" /\ mgr' = TRUE /\ lock' = None
        /\ pc' = [pc EXCEPT ![c] = "token"]
        /\ UNCHANGED <<clock, began, tok, cache, part, out, goal>>
    BY <1>5 DEF BQ!MakeManager, BQ!Goto
  <2>2. BQTypes' /\ (cache > 0 => mgr)'
    BY <1>1, <2>1 DEF BQTypes, BQState
  <2>3. \A d \in Caller : BQToken(d)'
    BY <1>1, <2>1 DEF BQTypes, BQToken
  <2>4. (\A d \in Caller : BQStream(d)') /\ StreamStep
    BY <2>1, BQMoves DEF BQState, Ended
  <2> QED
    BY <2>2, <2>3, <2>4 DEF BQInv
<1>6. CASE BQ!SecretFails(c)
  <2>1. /\ pc[c] = "secret" /\ lock' = None /\ BQ!Fail(c, <<>>)
        /\ UNCHANGED <<clock, began, tok, cache, part, mgr, goal>>
    BY <1>6 DEF BQ!SecretFails
  <2>2. /\ pc' = [pc EXCEPT ![c] = "done"]
        /\ (\A d \in Caller : BQStream(d)') /\ StreamStep /\ out' \in [Caller -> Seq(Nat)]
    BY <2>1, BQFails DEF Ended
  <2>3. BQTypes' /\ (cache > 0 => mgr)'
    BY <1>1, <2>1, <2>2 DEF BQTypes, BQState
  <2>4. \A d \in Caller : BQToken(d)'
    BY <1>1, <2>1, <2>2 DEF BQTypes, BQToken
  <2> QED
    BY <2>2, <2>3, <2>4 DEF BQInv
<1> QED
  BY <1>2, <1>3, <1>4, <1>5, <1>6

LEMMA BQTokenStep ==
  ASSUME BQInv, NEW c \in Caller,
         BQ!LookAgain(c) \/ BQ!TokenArrives(c) \/ BQ!TokenFails(c) \/ BQ!StoreToken(c)
  PROVE  BQInv' /\ StreamStep
<1> USE BQConstants
<1>1. BQTypes /\ (cache > 0 => mgr) /\ \A d \in Caller : BQToken(d)
  BY DEF BQInv
<1>2. CASE BQ!LookAgain(c)
  <2>1. PICK s \in {"send", "fetch"}, t \in Nat :
          /\ pc' = [pc EXCEPT ![c] = s] /\ tok' = [tok EXCEPT ![c] = t]
          /\ s = "send" => t > clock
    <3>1. CASE BQ!UseCached(c)
      <4>1. cache \in Nat /\ cache > clock
        BY <1>1, <3>1 DEF BQ!UseCached, BQ!Fresh, BQTypes
      <4> QED
        BY <3>1, <4>1 DEF BQ!UseCached, BQ!Goto
    <3>2. CASE BQ!Goto(c, "fetch") /\ UNCHANGED tok
      <4>1. tok' = [tok EXCEPT ![c] = tok[c]] /\ tok[c] \in Nat
        BY <1>1, <3>2 DEF BQTypes
      <4> QED
        BY <3>2, <4>1 DEF BQ!Goto
    <3> QED
      BY <1>2, <3>1, <3>2 DEF BQ!LookAgain
  <2>2. pc[c] = "token" /\ UNCHANGED <<clock, began, cache, lock, part, out, mgr, goal>>
    BY <1>2 DEF BQ!LookAgain
  <2>3. BQTypes' /\ (cache > 0 => mgr)'
    BY <1>1, <2>1, <2>2 DEF BQTypes, BQState
  <2>4. \A d \in Caller : BQToken(d)'
    BY <1>1, <2>1, <2>2 DEF BQTypes, BQToken
  <2>5. (\A d \in Caller : BQStream(d)') /\ StreamStep
    BY <2>1, <2>2, BQMoves DEF BQState, Ended
  <2> QED
    BY <2>3, <2>4, <2>5 DEF BQInv
<1>3. CASE BQ!TokenArrives(c)
  <2>1. PICK t \in Nat : tok' = [tok EXCEPT ![c] = t] /\ t > clock
    <3>1. PICK life \in Lives : tok' = [tok EXCEPT ![c] = clock + life]
      BY <1>3 DEF BQ!TokenArrives
    <3>2. clock + life \in Nat /\ clock + life > clock
      BY <1>1 DEF BQTypes
    <3> QED
      BY <3>1, <3>2
  <2>2. /\ pc[c] = "fetch" /\ pc' = [pc EXCEPT ![c] = "store"]
        /\ UNCHANGED <<clock, began, cache, lock, part, out, mgr, goal>>
    BY <1>3 DEF BQ!TokenArrives, BQ!Goto
  <2>3. BQTypes' /\ (cache > 0 => mgr)'
    BY <1>1, <2>1, <2>2 DEF BQTypes, BQState
  <2>4. \A d \in Caller : BQToken(d)'
    BY <1>1, <2>1, <2>2 DEF BQTypes, BQToken
  <2>5. (\A d \in Caller : BQStream(d)') /\ StreamStep
    BY <2>2, BQMoves DEF BQState, Ended
  <2> QED
    BY <2>3, <2>4, <2>5 DEF BQInv
<1>4. CASE BQ!TokenFails(c)
  <2>1. /\ pc[c] = "fetch" /\ BQ!Fail(c, <<>>)
        /\ UNCHANGED <<clock, began, tok, cache, lock, part, mgr, goal>>
    BY <1>4 DEF BQ!TokenFails
  <2>2. /\ pc' = [pc EXCEPT ![c] = "done"]
        /\ (\A d \in Caller : BQStream(d)') /\ StreamStep /\ out' \in [Caller -> Seq(Nat)]
    BY <2>1, BQFails DEF Ended
  <2>3. BQTypes' /\ (cache > 0 => mgr)'
    BY <1>1, <2>1, <2>2 DEF BQTypes, BQState
  <2>4. \A d \in Caller : BQToken(d)'
    BY <1>1, <2>1, <2>2 DEF BQTypes, BQToken
  <2> QED
    BY <2>2, <2>3, <2>4 DEF BQInv
<1>5. CASE BQ!StoreToken(c)
  <2>1. /\ pc[c] = "store" /\ pc' = [pc EXCEPT ![c] = "send"] /\ cache' = tok[c]
        /\ UNCHANGED <<clock, began, tok, lock, part, out, mgr, goal>>
    BY <1>5 DEF BQ!StoreToken, BQ!Goto
  <2>2. mgr /\ tok[c] \in Nat
    BY <1>1, <2>1 DEF BQToken, BQTypes
  <2>3. BQTypes' /\ (cache > 0 => mgr)'
    BY <1>1, <2>1, <2>2 DEF BQTypes, BQState
  <2>4. \A d \in Caller : BQToken(d)'
    BY <1>1, <2>1 DEF BQTypes, BQToken
  <2>5. (\A d \in Caller : BQStream(d)') /\ StreamStep
    BY <2>1, BQMoves DEF BQState, Ended
  <2> QED
    BY <2>3, <2>4, <2>5 DEF BQInv
<1> QED
  BY <1>2, <1>3, <1>4, <1>5

LEMMA BQRequestStep ==
  ASSUME BQInv, NEW c \in Caller, BQ!RequestFails(c) \/ BQ!Complete(c) \/ BQ!Incomplete(c)
  PROVE  BQInv' /\ StreamStep
<1>1. BQTypes /\ (cache > 0 => mgr) /\ \A d \in Caller : BQToken(d) /\ BQStream(d)
  BY DEF BQInv
<1>2. /\ pc[c] = "send" /\ UNCHANGED <<clock, began, tok, cache, lock, mgr>>
      /\ pc[c] \notin Ended
  BY DEF BQ!RequestFails, BQ!Complete, BQ!Incomplete, BQ!requestVars, Ended
<1>3. ASSUME NEW s \in {"token", "done"}, pc' = [pc EXCEPT ![c] = s],
             part' \in [Caller -> Nat], out' \in [Caller -> Seq(Nat)],
             goal' \in [Caller -> {"submit", "poll", "page"}]
      PROVE  BQTypes' /\ (cache > 0 => mgr)' /\ \A d \in Caller : BQToken(d)'
  <2>1. BQTypes' /\ (cache > 0 => mgr)'
    BY <1>1, <1>2, <1>3 DEF BQTypes, BQState
  <2>2. \A d \in Caller : BQToken(d)'
    BY <1>1, <1>2, <1>3 DEF BQTypes, BQToken
  <2> QED
    BY <2>1, <2>2
<1>4. part \in [Caller -> Nat] /\ out \in [Caller -> Seq(Nat)]
      /\ goal \in [Caller -> {"submit", "poll", "page"}] /\ pc \in [Caller -> BQState]
  BY <1>1 DEF BQTypes
<1>5. CASE BQ!RequestFails(c)
  <2>1. BQ!Fail(c, <<>>) /\ UNCHANGED <<part, goal>>
    BY <1>5 DEF BQ!RequestFails
  <2>2. /\ pc' = [pc EXCEPT ![c] = "done"]
        /\ (\A d \in Caller : BQStream(d)') /\ StreamStep /\ out' \in [Caller -> Seq(Nat)]
    BY <1>2, <2>1, BQFails
  <2>3. BQTypes' /\ (cache > 0 => mgr)' /\ \A d \in Caller : BQToken(d)'
    BY <1>3, <1>4, <2>1, <2>2
  <2> QED
    BY <2>2, <2>3 DEF BQInv
<1>6. CASE BQ!Incomplete(c)
  <2>1. /\ pc' = [pc EXCEPT ![c] = "token"] /\ UNCHANGED <<part, out>>
        /\ goal' = [goal EXCEPT ![c] = "poll"]
    BY <1>6 DEF BQ!Incomplete, BQ!Goto
  <2>2. (\A d \in Caller : BQStream(d)') /\ StreamStep
    BY <1>2, <2>1, BQMoves DEF BQState, Ended
  <2>3. BQTypes' /\ (cache > 0 => mgr)' /\ \A d \in Caller : BQToken(d)'
    BY <1>3, <1>4, <2>1
  <2> QED
    BY <2>2, <2>3 DEF BQInv
<1>7. CASE BQ!Complete(c)
  <2>1. BQ!Answered(c)
    BY <1>7 DEF BQ!Complete
  <2>2. /\ out[c] = Rows(Before(c, part[c])) /\ Before(c, part[c]) \in 0..RowCount(c)
        /\ Pages(c) = 0 => Before(c, part[c]) = RowCount(c)
        /\ Pages(c) > 0 => part[c] \in 1..Pages(c)
        /\ Pages(c) \in Nat /\ RowCount(c) \in Nat /\ BQ!Pages(c) = Pages(c)
    BY <1>2, BQGiven DEF BQ!Pages, Pages
  <2>3. ASSUME pc' = [pc EXCEPT ![c] = "done"], UNCHANGED <<part, goal>>,
               out' = [out EXCEPT ![c] = Rows(RowCount(c))]
        PROVE  BQInv' /\ StreamStep
    <3>1. out' \in [Caller -> Seq(Nat)]
      BY <1>4, <2>2, <2>3, RowsTyped
    <3>2. BQTypes' /\ (cache > 0 => mgr)' /\ \A d \in Caller : BQToken(d)'
      BY <1>3, <1>4, <2>3, <3>1
    <3>3. \A d \in Caller : BQStream(d)'
      BY <1>1, <1>4, <2>3 DEF BQStream, Pages, Before, Ended
    <3>4. RowCount(c) \in Before(c, part[c])..RowCount(c) /\ Before(c, part[c]) \in Nat
      BY <2>2
    <3>5. StreamStep
      BY <1>2, <1>4, <2>2, <2>3, <3>4, Giving
    <3> QED
      BY <3>2, <3>3, <3>5 DEF BQInv
  <2>4. CASE BQ!Pages(c) = 0 /\ BQ!Goto(c, "done") /\ UNCHANGED <<part, out, goal>>
    <3>1. out' = [out EXCEPT ![c] = Rows(RowCount(c))]
      BY <1>4, <2>2, <2>4
    <3> QED
      BY <2>3, <2>4, <3>1 DEF BQ!Goto
  <2>5. CASE BQ!Pages(c) > 0
    <3>1. PICK p \in 1..Pages(c) : p = part[c] /\ out[c] = Rows(Before(c, p))
      BY <2>2, <2>5
    <3>2. BQ!Page(c, p) = Page(c, p)
      BY DEF BQ!Page, Page, BQ!Before, Before
    <3>3. /\ Before(c, p) \in Nat /\ Upto[c][p] \in Nat /\ Upto[c][p] <= RowCount(c)
          /\ Before(c, p) <= Upto[c][p] /\ (p = Pages(c) => Upto[c][p] = RowCount(c))
      BY PagesOrdered
    <3>4. BQ!Yield(c, BQ!Page(c, p)) => out' = [out EXCEPT ![c] = Rows(Upto[c][p])]
      BY <1>4, <3>1, <3>2, PageGiven DEF BQ!Yield, Yield
    <3>5. CASE /\ BQ!Yield(c, BQ!Page(c, p)) /\ p < Pages(c)
               /\ part' = [part EXCEPT ![c] = @ + 1] /\ goal' = [goal EXCEPT ![c] = "page"]
               /\ BQ!Goto(c, "token")
      <4>1. /\ out' = [out EXCEPT ![c] = Rows(Upto[c][p])] /\ part' = [part EXCEPT ![c] = p + 1]
            /\ pc' = [pc EXCEPT ![c] = "token"]
        BY <3>1, <3>4, <3>5 DEF BQ!Goto
      <4>2. Rows(Upto[c][p]) \in Seq(Nat) /\ p + 1 \in Nat
        BY <3>3, RowsTyped
      <4>3. /\ part' \in [Caller -> Nat] /\ out' \in [Caller -> Seq(Nat)]
            /\ goal' \in [Caller -> {"submit", "poll", "page"}]
        BY <1>4, <3>5, <4>1, <4>2
      <4>4. BQTypes' /\ (cache > 0 => mgr)' /\ \A d \in Caller : BQToken(d)'
        BY <1>3, <4>1, <4>3
      <4>5. ASSUME NEW d \in Caller PROVE BQStream(d)'
        <5>1. CASE d = c
          <6>1. part'[c] = p + 1 /\ out'[c] = Rows(Upto[c][p])
            BY <1>4, <4>1
          <6>2. p + 1 >= 1 /\ p + 1 <= Pages(c) /\ p + 1 # 1 /\ (p + 1) - 1 = p
            BY <2>2, <3>5
          <6>3. Before(c, p + 1) = Upto[c][p]
            BY <6>2 DEF Before
          <6> QED
            BY <5>1, <6>1, <6>2, <6>3 DEF BQStream, Pages, Before
        <5>2. CASE d # c
          BY <1>1, <1>4, <4>1, <5>2 DEF BQStream, Pages, Before
        <5> QED
          BY <5>1, <5>2
      <4>6. Upto[c][p] \in Before(c, p)..RowCount(c) /\ "token" \notin Ended
        BY <2>2, <3>3 DEF Ended
      <4>7. StreamStep
        BY <1>2, <1>4, <2>2, <3>1, <3>3, <4>1, <4>6, Giving
      <4> QED
        BY <4>4, <4>5, <4>7 DEF BQInv
    <3>6. CASE /\ BQ!Yield(c, BQ!Page(c, p)) /\ p = Pages(c)
               /\ BQ!Goto(c, "done") /\ UNCHANGED <<part, goal>>
      BY <2>3, <3>3, <3>4, <3>6 DEF BQ!Goto
    <3>7. CASE BQ!BadCell(c, p) /\ UNCHANGED <<part, goal>>
      <4>1. BadCell(c, p)
        BY <3>2, <3>7 DEF BQ!BadCell, BadCell, BQ!Fail, Fail, BQ!Yield, Yield, BQ!Goto, Goto,
                          BQ!Error, Error
      <4>2. PICK n \in Before(c, p)..RowCount(c) : Broken(c, n)
        BY <1>4, <3>1, <4>1, PageBroken
      <4>3. pc' = [pc EXCEPT ![c] = "done"]
        BY <1>4, <3>1, <4>1, PageBroken
      <4>4. (\A d \in Caller : BQStream(d)') /\ StreamStep /\ out' \in [Caller -> Seq(Nat)]
        BY <1>2, <3>1, <3>7, <4>2, <4>3, BQBreaks
      <4>5. BQTypes' /\ (cache > 0 => mgr)' /\ \A d \in Caller : BQToken(d)'
        BY <1>3, <1>4, <3>7, <4>3, <4>4
      <4> QED
        BY <4>4, <4>5 DEF BQInv
    <3> QED
      BY <2>1, <2>2, <2>5, <3>1, <3>5, <3>6, <3>7 DEF BQ!Answered
  <2> QED
    BY <2>1, <2>4, <2>5 DEF BQ!Answered
<1> QED
  BY <1>5, <1>6, <1>7

LEMMA BQNext ==
  ASSUME BQInv, BQ!Next
  PROVE  BQInv' /\ StreamStep
<1>1. CASE BQ!Tick
  <2>1. /\ clock < MaxTime /\ clock' = clock + 1
        /\ \A c \in Caller : pc[c] \notin {"store", "send"}
        /\ UNCHANGED <<pc, began, tok, cache, lock, part, out, mgr, goal>>
    BY <1>1 DEF BQ!Tick
  <2>2. BQTypes' /\ (cache > 0 => mgr)'
    BY <2>1, BQConstants DEF BQInv, BQTypes
  <2>3. \A d \in Caller : BQToken(d)' /\ BQStream(d)'
    BY <2>1 DEF BQInv, BQToken, BQStream, Pages, Before
  <2>4. StreamStep
    BY <2>1 DEF StreamStep
  <2> QED
    BY <2>2, <2>3, <2>4 DEF BQInv
<1>2. CASE \E c \in Caller : BQ!Call(c)
  BY <1>2, BQManagerStep, BQTokenStep, BQRequestStep DEF BQ!Call
<1> QED
  BY <1>1, <1>2 DEF BQ!Next

LEMMA BQHolds ==
  BQInv => BQ!TypeOK /\ BQ!LiveTokenSent /\ BQ!ManagerMadeOnce /\ BQ!ManagerBeforeUnwrap
<1>1. BQInv => BQ!TypeOK
  BY DEF BQInv, BQTypes, BQState, BQ!TypeOK, BQ!SharedTypeOK, BQ!Ended
<1>2. BQInv => BQ!LiveTokenSent /\ BQ!ManagerMadeOnce /\ BQ!ManagerBeforeUnwrap
  BY DEF BQInv, BQToken, BQ!LiveTokenSent, BQ!Live, BQ!ManagerMadeOnce, BQ!ManagerBeforeUnwrap
<1> QED
  BY <1>1, <1>2

--------------------------------------------------------------------------------
(***************************************************************************)
(* postgres.rs.  Until the stream fails it has given some first rows.      *)
(***************************************************************************)
PGState == {"idle", "connect", "query", "rows", "done", "abandoned"}

PGCall(c) ==
  /\ pc[c] \in {"idle", "connect", "query"} => out[c] = Rows(0)
  /\ pc[c] = "rows" => Stream!Failed(out[c]) \/ \E n \in 0..RowCount(c) : out[c] = Rows(n)

PGTypes ==
  /\ clock \in 1..MaxTime /\ pc \in [Caller -> PGState] /\ began \in [Caller -> 0..MaxTime]
  /\ tok \in [Caller -> Nat] /\ cache \in Nat /\ lock \in Caller \cup {None}
  /\ part \in [Caller -> Nat] /\ out \in [Caller -> Seq(Nat)]

PGInv == PGTypes /\ \A c \in Caller : PGCall(c)

LEMMA PGBreaks ==
  ASSUME PGInv, NEW c \in Caller, pc[c] \notin Ended, NEW s \in {"rows", "done"},
         pc' = [pc EXCEPT ![c] = s], UNCHANGED <<clock, began, tok, cache, lock, part>>,
         NEW n \in 0..RowCount(c), out[c] = Rows(n), Broken(c, n)
  PROVE  PGInv' /\ StreamStep
<1>1. n \in Nat /\ RowCount(c) \in Nat /\ n \in n..RowCount(c)
  BY RowsCounted
<1>2. PICK fault \in Seq(Nat) : fault = Append(Rows(n), 0) /\ Stream!Failed(fault)
  <2>1. Rows(n) \in Seq(Nat) /\ Len(Rows(n)) = n
    BY <1>1, RowsTyped
  <2>2. PICK t \in Seq(Nat) : t = Rows(n)
    BY <2>1
  <2>3. Append(t, 0) \in Seq(Nat) /\ Append(t, 0) # <<>> /\ Append(t, 0)[Len(Append(t, 0))] = 0
    OBVIOUS
  <2> QED
    BY <2>2, <2>3 DEF Stream!Failed, Stream!Error
<1>3. out' = [out EXCEPT ![c] = fault]
  BY <1>2 DEF Broken
<1>4. PGTypes'
  BY <1>3 DEF PGInv, PGTypes, PGState
<1>5. \A d \in Caller : PGCall(d)'
  BY <1>2, <1>3 DEF PGInv, PGTypes, PGCall, RowCount, Pages
<1>6. StreamStep
  BY <1>1, Breaking DEF PGInv, PGTypes
<1> QED
  BY <1>4, <1>5, <1>6 DEF PGInv

LEMMA PGMoves ==
  ASSUME PGInv, NEW c \in Caller, pc[c] \in {"idle", "connect", "query"},
         NEW s \in {"connect", "query", "rows"}, pc' = [pc EXCEPT ![c] = s],
         began' \in [Caller -> 0..MaxTime], UNCHANGED <<clock, tok, cache, lock, part, out>>
  PROVE  PGInv' /\ StreamStep
<1>1. out[c] = Rows(0) /\ 0 \in 0..RowCount(c)
  BY RowsCounted DEF PGInv, PGCall
<1>2. PGTypes'
  BY DEF PGInv, PGTypes, PGState
<1>3. \A d \in Caller : PGCall(d)'
  BY <1>1 DEF PGInv, PGTypes, PGCall, RowCount, Pages
<1>4. StreamStep
  BY DEF StreamStep, Ended, PGInv, PGTypes
<1> QED
  BY <1>2, <1>3, <1>4 DEF PGInv

(* A stream that has not failed has given n rows. *)
LEMMA PGWhole ==
  ASSUME PGInv, NEW c \in Caller, pc[c] = "rows", ~Stream!Failed(out[c])
  PROVE  \E n \in 0..RowCount(c) :
           n \in Nat /\ out[c] = Rows(n) /\ Len(out[c]) = n /\ RowCount(c) \in Nat
<1>1. PICK n \in 0..RowCount(c) : out[c] = Rows(n)
  BY DEF PGInv, PGCall
<1>2. n \in Nat /\ RowCount(c) \in Nat
  BY RowsCounted
<1> QED
  BY <1>1, <1>2, RowsTyped

LEMMA PGStep ==
  ASSUME PGInv, NEW c \in Caller, PG!Call(c)
  PROVE  PGInv' /\ StreamStep
<1>1. PGTypes /\ (\A d \in Caller : PGCall(d)) /\ RowCount(c) \in Nat /\ 0 \in 0..RowCount(c)
  BY RowsCounted DEF PGInv
<1>2. pc \in [Caller -> PGState] /\ out \in [Caller -> Seq(Nat)] /\ began \in [Caller -> 0..MaxTime]
  BY <1>1 DEF PGTypes
<1>3. PG!RowCount(c) = RowCount(c) /\ (PG!Broken(c) <=> Stream!Failed(out[c]))
  BY DEF PG!RowCount, RowCount, PG!Pages, Pages, PG!Broken, PG!Error, Stream!Failed, Stream!Error
<1>4. PG!Fail(c, <<>>) <=> Fail(c, <<>>)
  BY DEF PG!Fail, PG!Yield, PG!Goto, PG!Error, Fail, Yield, Goto, Error
<1>5. CASE PG!Connect(c)
  <2>1. began' \in [Caller -> 0..MaxTime]
    <3>1. began' = [began EXCEPT ![c] = clock] /\ clock \in 0..MaxTime
      BY <1>1, <1>5, TimeAssumption DEF PG!Connect, PGTypes
    <3> QED
      BY <1>2, <3>1
  <2> QED
    BY <1>5, <2>1, PGMoves DEF PG!Connect, PG!Goto
<1>6. CASE PG!Connected(c) \/ PG!QueryRuns(c)
  <2>1. PICK s \in {"query", "rows"} : pc' = [pc EXCEPT ![c] = s]
    BY <1>6 DEF PG!Connected, PG!QueryRuns, PG!Goto
  <2>2. /\ pc[c] \in {"connect", "query"}
        /\ UNCHANGED <<clock, began, tok, cache, lock, part, out>>
    BY <1>6 DEF PG!Connected, PG!QueryRuns, PG!rest
  <2> QED
    BY <1>2, <2>1, <2>2, PGMoves
<1>7. CASE PG!ConnectFails(c) \/ PG!QueryFails(c)
  <2>1. /\ pc[c] \in {"connect", "query"} /\ Fail(c, <<>>)
        /\ UNCHANGED <<clock, began, tok, cache, lock, part>>
    BY <1>4, <1>7 DEF PG!ConnectFails, PG!QueryFails, PG!rest
  <2>2. out[c] = Rows(0) /\ pc[c] \notin Ended
    BY <1>1, <2>1 DEF PGCall, Ended
  <2>3. pc' = [pc EXCEPT ![c] = "done"] /\ Broken(c, 0)
    BY <1>2, <2>1, <2>2, FailsEmpty
  <2> QED
    BY <1>1, <2>1, <2>2, <2>3, PGBreaks
<1>8. CASE PG!RowUnreadable(c)
  <2>1. /\ pc[c] = "rows" /\ ~Stream!Failed(out[c]) /\ Fail(c, <<>>)
        /\ UNCHANGED <<clock, began, tok, cache, lock, part>> /\ pc[c] \notin Ended
    BY <1>3, <1>4, <1>8 DEF PG!RowUnreadable, PG!rest, Ended
  <2>2. PICK n \in 0..RowCount(c) : n \in Nat /\ out[c] = Rows(n)
    BY <2>1, PGWhole
  <2>3. pc' = [pc EXCEPT ![c] = "done"] /\ Broken(c, n)
    BY <1>2, <2>1, <2>2, FailsEmpty
  <2> QED
    BY <2>1, <2>2, <2>3, PGBreaks
<1>9. CASE PG!Row(c)
  <2>1. /\ pc[c] = "rows" /\ ~Stream!Failed(out[c]) /\ Len(out[c]) < RowCount(c)
        /\ out' = [out EXCEPT ![c] = out[c] \o <<Len(out[c]) + 1>>]
        /\ UNCHANGED <<clock, began, tok, cache, lock, part, pc>> /\ pc[c] \notin Ended
    BY <1>3, <1>9 DEF PG!Row, PG!rest, PG!Yield, Ended
  <2>2. PICK n \in Nat : out[c] = Rows(n) /\ Len(out[c]) = n /\ n + 1 \in n..RowCount(c)
                         /\ n + 1 \in 0..RowCount(c)
    BY <1>1, <2>1, PGWhole
  <2>3. Rows(n) \o <<n + 1>> = Rows(n + 1)
    <3>1. RowsFrom(n, n + 1) = <<n + 1>>
      <4>1. (n + 1) - n = 1
        OBVIOUS
      <4>2. RowsFrom(n, n + 1) = [i \in 1..1 |-> n + i]
        BY <4>1 DEF RowsFrom
      <4>3. [i \in 1..1 |-> n + i] = <<n + 1>>
        OBVIOUS
      <4> QED
        BY <4>2, <4>3
    <3>2. n + 1 \in Nat /\ n <= n + 1
      OBVIOUS
    <3>3. Rows(n) \o RowsFrom(n, n + 1) = Rows(n + 1)
      BY <3>2, RowsAppended
    <3> QED
      BY <3>1, <3>3
  <2>4. out' = [out EXCEPT ![c] = Rows(n + 1)]
    BY <2>1, <2>2, <2>3
  <2>5. Rows(n + 1) \in Seq(Nat)
    BY RowsTyped
  <2>6. PGTypes'
    BY <1>1, <2>1, <2>4, <2>5 DEF PGTypes
  <2>7. \A d \in Caller : PGCall(d)'
    BY <1>1, <1>2, <2>1, <2>2, <2>4 DEF PGCall, RowCount, Pages
  <2>8. pc' = [pc EXCEPT ![c] = "rows"] /\ "rows" \notin Ended
    BY <1>2, <2>1 DEF Ended
  <2>9. StreamStep
    BY <1>1, <1>2, <2>1, <2>2, <2>4, <2>8, Giving
  <2> QED
    BY <2>6, <2>7, <2>9 DEF PGInv
<1>10. CASE PG!RowError(c)
  <2>1. /\ pc[c] = "rows" /\ out' = [out EXCEPT ![c] = out[c] \o <<0>>]
        /\ UNCHANGED <<clock, began, tok, cache, lock, part, pc>> /\ pc[c] \notin Ended
    BY <1>10 DEF PG!RowError, PG!rest, PG!Yield, PG!Error, Ended
  <2>2. PICK fault \in Seq(Nat) :
          /\ fault = Append(out[c], 0) /\ Stream!Failed(fault)
          /\ out' = [out EXCEPT ![c] = fault]
    <3>1. out[c] \in Seq(Nat)
      BY <1>2
    <3>2. out[c] \o <<0>> = Append(out[c], 0) /\ Append(out[c], 0) \in Seq(Nat)
      BY <3>1
    <3>3. Stream!Failed(Append(out[c], 0))
      BY <3>1 DEF Stream!Failed, Stream!Error
    <3> QED
      BY <2>1, <3>2, <3>3
  <2>3. CASE Stream!Failed(out[c])
    <3>1. PGTypes'
      BY <1>1, <2>1, <2>2 DEF PGTypes
    <3>2. \A d \in Caller : PGCall(d)'
      BY <1>1, <1>2, <2>1, <2>2 DEF PGCall, RowCount, Pages
    <3>3. BreaksAgain(c)
      BY <2>2, <2>3 DEF BreaksAgain
    <3>4. StreamStep
      BY <2>1, <3>3 DEF StreamStep
    <3> QED
      BY <3>1, <3>2, <3>4 DEF PGInv
  <2>4. CASE ~Stream!Failed(out[c])
    <3>1. PICK n \in 0..RowCount(c) : n \in Nat /\ out[c] = Rows(n)
      BY <2>1, <2>4, PGWhole
    <3>2. Broken(c, n) /\ pc' = [pc EXCEPT ![c] = "rows"]
      BY <1>2, <2>1, <2>2, <3>1 DEF Broken
    <3> QED
      BY <2>1, <3>1, <3>2, PGBreaks
  <2> QED
    BY <2>3, <2>4
<1>11. CASE PG!RowsEnd(c)
  <2>1. /\ pc[c] = "rows" /\ pc' = [pc EXCEPT ![c] = "done"]
        /\ UNCHANGED <<clock, began, tok, cache, lock, part, out>>
        /\ Stream!Failed(out[c]) \/ Len(out[c]) = RowCount(c)
        /\ pc[c] \notin Ended
    BY <1>3, <1>11 DEF PG!RowsEnd, PG!rest, PG!Goto, Ended
  <2>2. PGTypes'
    BY <1>1, <2>1 DEF PGTypes, PGState
  <2>3. \A d \in Caller : PGCall(d)'
    BY <1>1, <1>2, <2>1 DEF PGCall, RowCount, Pages
  <2>4. CASE Stream!Failed(out[c])
    <3>1. BreaksAgain(c)
      BY <2>1, <2>4 DEF BreaksAgain
    <3>2. StreamStep
      BY <1>2, <2>1, <3>1 DEF StreamStep
    <3> QED
      BY <2>2, <2>3, <3>2 DEF PGInv
  <2>5. CASE ~Stream!Failed(out[c])
    <3>1. out[c] = Rows(RowCount(c)) /\ out' = [out EXCEPT ![c] = Rows(RowCount(c))]
      BY <1>2, <2>1, <2>5, PGWhole
    <3>2. RowCount(c) \in RowCount(c)..RowCount(c)
      BY <1>1
    <3>3. StreamStep
      BY <1>1, <1>2, <2>1, <3>1, <3>2, Giving
    <3> QED
      BY <2>2, <2>3, <3>3 DEF PGInv
  <2> QED
    BY <2>4, <2>5
<1> QED
  BY <1>5, <1>6, <1>7, <1>8, <1>9, <1>10, <1>11 DEF PG!Call

LEMMA PGNext ==
  ASSUME PGInv, PG!Next
  PROVE  PGInv' /\ StreamStep
<1>1. CASE PG!Tick
  <2>1. PGTypes'
    BY <1>1, TimeAssumption DEF PG!Tick, PGInv, PGTypes
  <2>2. \A d \in Caller : PGCall(d)'
    BY <1>1 DEF PG!Tick, PGInv, PGCall, RowCount, Pages
  <2>3. StreamStep
    BY <1>1 DEF PG!Tick, StreamStep
  <2> QED
    BY <2>1, <2>2, <2>3 DEF PGInv
<1>2. CASE \E c \in Caller : PG!Call(c)
  BY <1>2, PGStep
<1> QED
  BY <1>1, <1>2 DEF PG!Next

LEMMA PGHolds == PGInv => PG!TypeOK
BY DEF PGInv, PGTypes, PGState, PG!TypeOK, PG!SharedTypeOK, PG!Ended

--------------------------------------------------------------------------------
(***************************************************************************)
(* The connector is one of the three, for good.                            *)
(***************************************************************************)
IInv ==
  /\ kind = "snowflake" => SFInv
  /\ kind = "bigquery"  => BQInv
  /\ kind = "postgres"  => PGInv

LEMMA Starts ==
  ASSUME Init
  PROVE  SFInv /\ BQInv /\ PGInv /\ out = [c \in Caller |-> <<>>] /\ pc = [c \in Caller |-> "idle"]
<1>1. SF!SharedInit /\ polls = [c \in Caller |-> 0] /\ delay = [c \in Caller |-> 0]
      /\ wake = [c \in Caller |-> 0]
  BY DEF Init, SF!Init
<1>2. mgr = FALSE /\ goal = [c \in Caller |-> "submit"]
  BY DEF Init, BQ!Init
<1>3. /\ clock = 1 /\ pc = [c \in Caller |-> "idle"] /\ began = [c \in Caller |-> 0]
      /\ tok = [c \in Caller |-> 0] /\ cache = 0 /\ lock = None
      /\ part = [c \in Caller |-> 1] /\ out = [c \in Caller |-> <<>>]
  BY <1>1 DEF SF!SharedInit
<1>4. Rows(0) = <<>> /\ <<>> \in Seq(Nat)
  BY DEF Rows, Stream!Prefix
<1>5. MaxTime \in Nat /\ 1 \in 1..MaxTime /\ 0 \in 0..MaxTime /\ 0 \in 0..MaxPolls
  BY TimeAssumption, SFConstants
<1>6. PGInv
  BY <1>3, <1>4, <1>5 DEF PGInv, PGTypes, PGState, PGCall
<1>7. SFInv
  <2>1. SFTypes
    BY <1>1, <1>3, <1>4, <1>5 DEF SFTypes, SFState
  <2>2. SF!SignerHoldsLock
    BY <1>3, SFConstants DEF SF!SignerHoldsLock
  <2>3. \A c \in Caller : SFCall(c)
    BY <1>3, <1>4 DEF SFCall, SF!Requesting
  <2> QED
    BY <2>1, <2>2, <2>3 DEF SFInv
<1>8. BQInv
  <2>1. BQTypes
    BY <1>2, <1>3, <1>4, <1>5 DEF BQTypes, BQState
  <2>2. \A c \in Caller : BQToken(c)
    BY <1>3, BQConstants DEF BQToken
  <2>3. \A c \in Caller : BQStream(c)
    <3>1. SUFFICES ASSUME NEW c \in Caller PROVE BQStream(c)
      OBVIOUS
    <3>2. Pages(c) \in Nat /\ Before(c, 1) = 0
      BY UptoAssumption DEF Pages, Before
    <3> QED
      BY <1>3, <1>4, <3>2 DEF BQStream
  <2> QED
    BY <1>3, <2>1, <2>2, <2>3 DEF BQInv
<1> QED
  BY <1>3, <1>6, <1>7, <1>8

LEMMA Steps ==
  ASSUME IInv, [Next]_vars
  PROVE  IInv' /\ (StreamStep \/ UNCHANGED <<pc, out>>)
<1>1. CASE SnowflakeNext
  BY <1>1, SFNext DEF SnowflakeNext, IInv
<1>2. CASE BigQueryNext
  BY <1>2, BQNext DEF BigQueryNext, IInv
<1>3. CASE PostgresNext
  BY <1>3, PGNext DEF PostgresNext, IInv
<1>4. CASE UNCHANGED vars
  <2>1. /\ UNCHANGED <<clock, pc, began, tok, cache, lock, part, out, kind>>
        /\ UNCHANGED <<polls, delay, wake, mgr, goal>>
    BY <1>4 DEF vars, sfOnly, bqOnly
  <2>2. SFInv => SFInv'
    BY <2>1 DEF SFInv, SFTypes, SF!SignerHoldsLock, SFCall, Pages
  <2>3. BQInv => BQInv'
    BY <2>1 DEF BQInv, BQTypes, BQToken, BQStream, Pages, Before
  <2>4. PGInv => PGInv'
    BY <2>1 DEF PGInv, PGTypes, PGCall, RowCount, Pages
  <2> QED
    BY <2>1, <2>2, <2>3, <2>4 DEF IInv
<1> QED
  BY <1>1, <1>2, <1>3, <1>4 DEF Next, Over

THEOREM Inductive == Spec => []IInv
<1>1. Init => IInv
  BY Starts DEF IInv
<1>2. IInv /\ [Next]_vars => IInv'
  BY Steps
<1> QED
  BY <1>1, <1>2, PTL DEF Spec

(* Whatever the connector, the state is of its type. *)
THEOREM TypeCorrect == Spec => []TypeOK
<1>1. IInv => TypeOK
  BY SFHolds, BQHolds, PGHolds DEF IInv, TypeOK
<1> QED
  BY <1>1, Inductive, PTL

(***************************************************************************)
(* snowflake.rs: the token of every request made within Margin of the      *)
(* call's start has not expired, and the mutex is the signing call's.      *)
(***************************************************************************)
THEOREM StatementTokenLives == Spec => []LiveWithinMargin
<1>1. IInv => LiveWithinMargin
  BY SFHolds DEF IInv, LiveWithinMargin
<1> QED
  BY <1>1, Inductive, PTL

THEOREM MutexGivenBack == Spec => []SignerHoldsLock
<1>1. IInv => SignerHoldsLock
  BY SFHolds DEF IInv, SignerHoldsLock
<1> QED
  BY <1>1, Inductive, PTL

(***************************************************************************)
(* bigquery.rs: no request carries an expired token, the unwrap of         *)
(* auth_manager finds one, and the key is read once.                       *)
(***************************************************************************)
THEOREM RequestTokenLives == Spec => []LiveTokenSent
<1>1. IInv => LiveTokenSent
  BY BQHolds DEF IInv, LiveTokenSent
<1> QED
  BY <1>1, Inductive, PTL

THEOREM UnwrapSafe == Spec => []ManagerBeforeUnwrap
<1>1. IInv => ManagerBeforeUnwrap
  BY BQHolds DEF IInv, ManagerBeforeUnwrap
<1> QED
  BY <1>1, Inductive, PTL

THEOREM KeyReadOnce == Spec => []ManagerMadeOnce
<1>1. IInv => ManagerMadeOnce
  BY BQHolds DEF IInv, ManagerMadeOnce
<1> QED
  BY <1>1, Inductive, PTL

--------------------------------------------------------------------------------
LEMMA NoneIn ==
  ASSUME NEW S, NEW E, NEW f, \A x \in S : f[x] \notin E
  PROVE  \A x \in S : (f[x] \in E) = FALSE
OBVIOUS

LEMMA StreamStarts == Init => Stream!Init
<1> SUFFICES ASSUME Init PROVE Stream!Init
  OBVIOUS
<1>1. out = [c \in Caller |-> <<>>] /\ pc = [c \in Caller |-> "idle"]
  BY Starts
<1>2. \A c \in Caller : pc[c] \notin Ended
  BY <1>1 DEF Ended
<1>3. \A c \in Caller : (pc[c] \in Ended) = FALSE
  BY <1>2, NoneIn
<1>4. [c \in Caller |-> pc[c] \in Ended] = [c \in Caller |-> FALSE]
  BY Zenon, <1>3
<1> QED
  BY <1>1, <1>4 DEF Stream!Init

LEMMA StreamSteps ==
  ASSUME StreamStep \/ UNCHANGED <<pc, out>>
  PROVE  [Stream!Next]_<<out, [c \in Caller |-> pc[c] \in Ended]>>
<1> DEFINE over == [c \in Caller |-> pc[c] \in Ended]
<1>1. CASE UNCHANGED <<pc, out>>
  BY <1>1
<1>2. CASE out' = out /\ \A c \in Caller : pc'[c] \in Ended <=> pc[c] \in Ended
  <2>1. \A c \in Caller : (pc'[c] \in Ended) = (pc[c] \in Ended)
    BY <1>2
  <2>2. over' = over
    BY Zenon, <2>1
  <2> QED
    BY <1>2, <2>2
<1>3. ASSUME NEW c \in Caller, pc[c] \notin Ended, \A d \in Caller \ {c} : pc'[d] = pc[d],
             BreaksAgain(c) \/ \E n \in Nat : Gives(c, n) \/ Breaks(c, n)
      PROVE  Stream!Next
  <2>1. ~over[c]
    BY <1>3
  <2>2. PICK e \in BOOLEAN : e <=> pc'[c] \in Ended
    <3>1. CASE pc'[c] \in Ended
      BY <3>1
    <3>2. CASE pc'[c] \notin Ended
      BY <3>2
    <3> QED
      BY <3>1, <3>2
  <2>3. \A d \in Caller : (pc'[d] \in Ended) = (IF d = c THEN e ELSE over[d])
    BY Zenon, <1>3, <2>2
  <2>4. over' = [over EXCEPT ![c] = e]
    BY Zenon, <2>3
  <2>5. over'[c] => pc'[c] \in Ended
    BY Zenon, <1>3
  <2>6. CASE BreaksAgain(c)
    BY <2>1, <2>4, <2>6 DEF Stream!Next, Stream!Step, BreaksAgain, Stream!Error
  <2>7. ASSUME NEW n \in Nat, Gives(c, n) \/ Breaks(c, n)
        PROVE  Stream!Next
    <3>1. /\ out[c] = Rows(Len(out[c])) /\ Len(out[c]) \in Nat
          /\ n \in Len(out[c])..RowCount(c)
      BY <2>7 DEF Gives, Breaks
    <3>2. ~Stream!Failed(out[c])
      <4>1. PICK k \in Nat : out[c] = Rows(k)
        BY <3>1
      <4>2. Rows(k) \in Seq(Nat) /\ Len(Rows(k)) = k /\ \A i \in 1..k : Rows(k)[i] = i
        BY RowsTyped
      <4>3. k > 0 => Rows(k)[k] = k
        BY <4>2
      <4> QED
        BY <4>1, <4>2, <4>3 DEF Stream!Failed, Stream!Error
    <3>3. CASE Gives(c, n)
      <4>1. Stream!Gives(c)
        BY <3>1, <3>3 DEF Gives, Stream!Gives, Rows
      <4>2. over'[c] => Len(out'[c]) = RowCount(c)
        <5>1. out'[c] = Rows(n) /\ (pc'[c] \in Ended => n = RowCount(c))
          BY <3>3 DEF Gives
        <5>2. Len(out'[c]) = n
          BY <5>1, RowsTyped
        <5> QED
          BY <2>5, <5>1, <5>2
      <4> QED
        BY <2>1, <2>4, <3>2, <4>1, <4>2 DEF Stream!Next, Stream!Step
    <3>4. CASE Breaks(c, n)
      <4>1. Stream!Breaks(c)
        BY <3>1, <3>4 DEF Breaks, Broken, Stream!Breaks, Stream!Error, Rows
      <4> QED
        BY <2>1, <2>4, <3>2, <4>1 DEF Stream!Next, Stream!Step
    <3> QED
      BY <2>7, <3>3, <3>4
  <2> QED
    BY <1>3, <2>6, <2>7
<1> QED
  BY <1>1, <1>2, <1>3 DEF StreamStep

(***************************************************************************)
(* Every connector implements RowStream: for any number of concurrent      *)
(* calls and any result, the rows come in order, each once, and all of     *)
(* them or an error.                                                       *)
(***************************************************************************)
THEOREM Refinement == Spec => ImplementsRowStream
<1>1. Init => Stream!Init
  BY StreamStarts
<1>2. IInv /\ [Next]_vars => [Stream!Next]_<<out, [c \in Caller |-> pc[c] \in Ended]>>
  BY Steps, StreamSteps
<1> QED
  BY <1>1, <1>2, Inductive, PTL DEF Spec, ImplementsRowStream, Stream!Spec

--------------------------------------------------------------------------------
(***************************************************************************)
(* snowflake.rs: the budget of sleeps.  DelayBefore and Budget are         *)
(* recursive; that they are what their equations say is shown first, by a  *)
(* least counterexample.                                                   *)
(***************************************************************************)
LEMMA LeastNumber ==
  ASSUME NEW S, S \subseteq Nat, S # {}
  PROVE  \E k \in S : \A i \in S : k <= i
<1>1. PICK k \in S : \A i \in S : ~ (<<i, k>> \in OpToRel(<, Nat))
  BY WFMin, NatLessThanWellFounded, Zenon
<1>2. \A i \in S : ~ (i < k)
  BY <1>1, Zenon DEF OpToRel
<1> QED
  BY <1>2

(* How each number follows from the one before. *)
IsStep(step) == step \in [Nat -> [Nat -> Nat]]

(* f lists the first m numbers that step gives, from c on. *)
Iteration(f, c, step, m) ==
  f \in [0..m -> Nat] /\ f[0] = c /\ \A n \in 1..m : f[n] = step[n][f[n - 1]]

LEMMA Iterates ==
  ASSUME NEW c \in Nat, NEW step, IsStep(step), NEW last \in Nat
  PROVE  \E f : Iteration(f, c, step, last)
<1> DEFINE Bad == {m \in Nat : ~ \E f : Iteration(f, c, step, m)}
<1>1. SUFFICES ASSUME Bad # {} PROVE FALSE
  OBVIOUS
<1>2. PICK m \in Bad : \A i \in Bad : m <= i
  BY <1>1, LeastNumber
<1>3. m # 0
  <2>1. Iteration([n \in 0..0 |-> c], c, step, 0)
    BY DEF Iteration
  <2> QED
    BY <2>1
<1>4. m \in Nat /\ m - 1 \in Nat /\ m - 1 \notin Bad
  BY <1>2, <1>3
<1>5. PICK f : Iteration(f, c, step, m - 1)
  BY <1>4
<1> DEFINE g == [n \in 0..m |-> IF n = m THEN step[m][f[m - 1]] ELSE f[n]]
<1>6. Iteration(g, c, step, m)
  <2>1. f \in [0..(m - 1) -> Nat] /\ f[0] = c /\ \A n \in 1..(m - 1) : f[n] = step[n][f[n - 1]]
    BY <1>5 DEF Iteration
  <2>2. f[m - 1] \in Nat /\ step[m][f[m - 1]] \in Nat
    <3>1. m - 1 \in 0..(m - 1)
      BY <1>4
    <3>2. f[m - 1] \in Nat
      BY <2>1, <3>1
    <3>3. step[m] \in [Nat -> Nat]
      BY <1>4 DEF IsStep
    <3> QED
      BY <3>2, <3>3
  <2>3. g \in [0..m -> Nat] /\ g[0] = c
    <3>1. ASSUME NEW n \in 0..m PROVE (IF n = m THEN step[m][f[m - 1]] ELSE f[n]) \in Nat
      <4>1. n # m => n \in 0..(m - 1)
        BY <1>4
      <4> QED
        BY <2>1, <2>2, <4>1
    <3>2. 0 \in 0..m
      BY <1>4
    <3> QED
      BY <1>3, <2>1, <3>1, <3>2
  <2>4. ASSUME NEW n \in 1..m PROVE g[n] = step[n][g[n - 1]]
    <3>1. CASE n = m
      BY <1>3, <1>4, <2>1, <3>1
    <3>2. CASE n # m
      <4>1. n \in 1..(m - 1) /\ n - 1 \in 0..m /\ n - 1 # m /\ n \in 0..m
        BY <1>4, <3>2
      <4> QED
        BY <2>1, <3>2, <4>1
    <3> QED
      BY <3>1, <3>2
  <2> QED
    BY <2>3, <2>4 DEF Iteration
<1> HIDE DEF g
<1> QED
  BY <1>2, <1>6

LEMMA IterationUnique ==
  ASSUME NEW c \in Nat, NEW step, IsStep(step),
         NEW m \in Nat, NEW n \in Nat, m <= n,
         NEW f, Iteration(f, c, step, m), NEW g, Iteration(g, c, step, n)
  PROVE  f[m] = g[m]
<1> DEFINE Bad == {i \in 0..m : f[i] # g[i]}
<1>1. SUFFICES ASSUME Bad # {} PROVE FALSE
  OBVIOUS
<1>2. PICK i \in Bad : \A j \in Bad : i <= j
  <2>1. Bad \subseteq Nat
    OBVIOUS
  <2> QED
    BY <1>1, <2>1, LeastNumber
<1>3. i # 0
  BY <1>2 DEF Iteration
<1>4. i \in 1..m /\ i \in 1..n /\ i - 1 \in 0..m /\ i - 1 \notin Bad
  BY <1>2, <1>3
<1>5. f[i - 1] = g[i - 1]
  BY <1>4
<1>6. f[i] = step[i][f[i - 1]] /\ g[i] = step[i][g[i - 1]]
  BY <1>4 DEF Iteration
<1> QED
  BY <1>2, <1>5, <1>6

Generated(f, c, step) ==
  f \in [Nat -> Nat] /\ f[0] = c /\ \A n \in Nat \ {0} : f[n] = step[n][f[n - 1]]

LEMMA RecursionDefines ==
  ASSUME NEW c \in Nat, NEW step, IsStep(step)
  PROVE  \E f : Generated(f, c, step)
<1> DEFINE g(m) == CHOOSE f : Iteration(f, c, step, m)
           f    == [m \in Nat |-> g(m)[m]]
<1>1. \A m \in Nat : Iteration(g(m), c, step, m)
  BY Iterates
<1> HIDE DEF g
<1>2. f \in [Nat -> Nat] /\ f[0] = c
  BY <1>1 DEF Iteration
<1>3. ASSUME NEW n \in Nat \ {0} PROVE f[n] = step[n][f[n - 1]]
  <2>1. n \in Nat /\ n - 1 \in Nat /\ n - 1 <= n /\ n - 1 \in 0..(n - 1) /\ n \in 1..n
    OBVIOUS
  <2>2. g(n)[n] = step[n][g(n)[n - 1]]
    BY <1>1, <2>1 DEF Iteration
  <2>3. g(n - 1)[n - 1] = g(n)[n - 1]
    <3>1. Iteration(g(n - 1), c, step, n - 1) /\ Iteration(g(n), c, step, n)
      BY <1>1, <2>1
    <3>2. \A p, q : Iteration(p, c, step, n - 1) /\ Iteration(q, c, step, n)
                     => p[n - 1] = q[n - 1]
      BY <2>1, IterationUnique
    <3> QED
      BY <3>1, <3>2
  <2> QED
    BY <2>1, <2>2, <2>3
<1>4. Generated(f, c, step)
  <2> HIDE DEF f
  <2> QED
    BY <1>2, <1>3 DEF Generated
<1> QED
  BY <1>4, Zenon

LEMMA DelayUnfolds ==
  /\ SF!DelayBefore \in [Nat -> Nat]
  /\ SF!DelayBefore[1] = FirstDelay
  /\ \A n \in Nat \ {0, 1} : SF!DelayBefore[n] = SF!Least(2 * SF!DelayBefore[n - 1], MaxDelay)
<1> DEFINE Step(f, n) == IF n <= 1 THEN FirstDelay ELSE SF!Least(2 * f[n - 1], MaxDelay)
           Unfolds(f) == f = [n \in Nat |-> Step(f, n)]
           step       == [n \in Nat |-> [d \in Nat |-> IF n <= 1 THEN FirstDelay
                                                       ELSE SF!Least(2 * d, MaxDelay)]]
<1>1. FirstDelay \in Nat /\ MaxDelay \in Nat /\ \A d \in Nat : SF!Least(2 * d, MaxDelay) \in Nat
  BY SFConstants DEF SF!Least
<1>2. IsStep(step)
  BY <1>1 DEF IsStep
<1>3. PICK f : /\ f \in [Nat -> Nat] /\ f[0] = FirstDelay
               /\ \A n \in Nat \ {0} : f[n] = step[n][f[n - 1]]
  <2> HIDE DEF step
  <2>1. 0 \in Nat
    OBVIOUS
  <2>2. PICK f : Generated(f, FirstDelay, step)
    BY <1>1, <2>1, <1>2, RecursionDefines, Zenon
  <2> QED
    BY <2>2, Zenon DEF Generated
<1>4. Unfolds(f)
  <2>1. ASSUME NEW n \in Nat PROVE f[n] = Step(f, n)
    <3>1. CASE n = 0
      BY <1>3, <3>1
    <3>2. CASE n # 0
      <4>1. n \in Nat \ {0} /\ f[n - 1] \in Nat
        BY <1>3, <3>2
      <4>2. f[n] = step[n][f[n - 1]]
        BY <1>3, <4>1
      <4> QED
        BY <4>1, <4>2
    <3> QED
      BY <3>1, <3>2
  <2> QED
    BY <1>3, <2>1
<1>5. Unfolds(SF!DelayBefore)
  <2>1. SF!DelayBefore = CHOOSE g : Unfolds(g)
    BY DEF SF!DelayBefore
  <2> HIDE DEF Unfolds
  <2> QED
    BY <1>4, <2>1
<1> DEFINE D == SF!DelayBefore
<1>6. DOMAIN D = Nat /\ D = [n \in Nat |-> D[n]] /\ \A n \in Nat : D[n] = Step(D, n)
  <2> HIDE DEF D
  <2>1. D = [n \in Nat |-> Step(D, n)]
    BY <1>5 DEF D
  <2> HIDE DEF Step
  <2>2. DOMAIN D = Nat /\ \A n \in Nat : D[n] = Step(D, n)
    BY <2>1, Zenon
  <2>3. [n \in Nat |-> Step(D, n)] = [n \in Nat |-> D[n]]
    BY <2>2, Zenon
  <2> QED
    BY <2>1, <2>2, <2>3, Zenon
<1> HIDE DEF D
<1>7. D[1] = FirstDelay /\ \A n \in Nat \ {0, 1} : D[n] = SF!Least(2 * D[n - 1], MaxDelay)
  <2>1. \A n \in Nat : D[n] = Step(D, n)
    BY <1>6
  <2>2. D[1] = FirstDelay
    BY <2>1
  <2>3. ASSUME NEW n \in Nat \ {0, 1} PROVE D[n] = SF!Least(2 * D[n - 1], MaxDelay)
    <3>1. n \in Nat /\ ~ (n <= 1)
      OBVIOUS
    <3>2. D[n] = Step(D, n)
      BY <2>1, <3>1
    <3> QED
      BY <3>1, <3>2
  <2> QED
    BY <2>2, <2>3
<1>8. \A n \in Nat : D[n] \in Nat
  <2> DEFINE Bad == {n \in Nat : D[n] \notin Nat}
  <2>1. SUFFICES ASSUME Bad # {} PROVE FALSE
    OBVIOUS
  <2>2. PICK n \in Bad : \A i \in Bad : n <= i
    BY <2>1, LeastNumber
  <2>3. ~ (n <= 1)
    BY <1>1, <1>6, <2>2
  <2>4. n - 1 \in Nat /\ n - 1 \notin Bad
    BY <2>2, <2>3
  <2> QED
    BY <1>1, <1>6, <2>2, <2>3, <2>4
<1> QED
  BY <1>6, <1>7, <1>8 DEF D

LEMMA BudgetUnfolds ==
  /\ SF!Budget \in [Nat -> Nat]
  /\ SF!Budget[0] = 0
  /\ \A n \in Nat \ {0} : SF!Budget[n] = SF!Budget[n - 1] + SF!DelayBefore[n]
<1> DEFINE D          == SF!DelayBefore
           Step(f, n) == IF n = 0 THEN 0 ELSE f[n - 1] + D[n]
           Unfolds(f) == f = [n \in Nat |-> Step(f, n)]
           step       == [n \in Nat |-> [s \in Nat |-> s + D[n]]]
<1>1. D \in [Nat -> Nat]
  BY DelayUnfolds
<1>2. SF!Budget = CHOOSE g : Unfolds(g)
  BY DEF SF!Budget
<1> HIDE DEF D
<1>3. IsStep(step)
  BY <1>1 DEF IsStep
<1>4. PICK f : /\ f \in [Nat -> Nat] /\ f[0] = 0
               /\ \A n \in Nat \ {0} : f[n] = step[n][f[n - 1]]
  <2> HIDE DEF step
  <2>1. 0 \in Nat
    OBVIOUS
  <2>2. PICK f : Generated(f, 0, step)
    BY <1>1, <2>1, <1>3, RecursionDefines, Zenon
  <2> QED
    BY <2>2, Zenon DEF Generated
<1>5. Unfolds(f)
  <2>1. ASSUME NEW n \in Nat PROVE f[n] = Step(f, n)
    <3>1. CASE n = 0
      BY <1>4, <3>1
    <3>2. CASE n # 0
      <4>1. n \in Nat \ {0} /\ f[n - 1] \in Nat
        BY <1>4, <3>2
      <4>2. f[n] = step[n][f[n - 1]]
        BY <1>4, <4>1
      <4> QED
        BY <4>1, <4>2
    <3> QED
      BY <3>1, <3>2
  <2> QED
    BY <1>4, <2>1
<1> DEFINE B == SF!Budget
<1>6. Unfolds(B)
  <2> HIDE DEF Unfolds
  <2> QED
    BY <1>2, <1>5
<1> HIDE DEF B
<1>7. DOMAIN B = Nat /\ B = [n \in Nat |-> B[n]] /\ \A n \in Nat : B[n] = Step(B, n)
  <2>1. B = [n \in Nat |-> Step(B, n)]
    BY <1>6
  <2> HIDE DEF Step
  <2>2. DOMAIN B = Nat /\ \A n \in Nat : B[n] = Step(B, n)
    BY <2>1, Zenon
  <2>3. [n \in Nat |-> Step(B, n)] = [n \in Nat |-> B[n]]
    BY <2>2, Zenon
  <2> QED
    BY <2>1, <2>2, <2>3, Zenon
<1>8. B[0] = 0 /\ \A n \in Nat \ {0} : B[n] = B[n - 1] + D[n]
  BY <1>7
<1>9. \A n \in Nat : B[n] \in Nat
  <2> DEFINE Bad == {n \in Nat : B[n] \notin Nat}
  <2>1. SUFFICES ASSUME Bad # {} PROVE FALSE
    OBVIOUS
  <2>2. PICK n \in Bad : \A i \in Bad : n <= i
    BY <2>1, LeastNumber
  <2>3. n # 0
    BY <1>8, <2>2
  <2>4. n \in Nat \ {0} /\ n - 1 \in Nat /\ n - 1 \notin Bad
    BY <2>2, <2>3
  <2> QED
    BY <1>1, <1>8, <2>2, <2>4
<1> QED
  BY <1>7, <1>8, <1>9 DEF B, D

(***************************************************************************)
(* The strengthening of AbandonedLate: while a statement is polled for,    *)
(* the sleeps before its polls so far are over, the next delay is the one  *)
(* DelayBefore tells, and the sleep under way ends no earlier than the     *)
(* budget up to the next poll.                                             *)
(***************************************************************************)
Spent(c, n, t) == t >= SF!Least(began[c] + SF!Budget[n], MaxTime)

SFBudget(c) ==
  /\ pc[c] \in {"idle", "sign", "submit"} => polls[c] = 0
  /\ began[c] <= clock
  /\ pc[c] = "poll" =>
       /\ Spent(c, polls[c], clock)
       /\ polls[c] < MaxPolls =>
            /\ delay[c] = SF!DelayBefore[polls[c] + 1]
            /\ Spent(c, polls[c] + 1, wake[c])
  /\ pc[c] = "abandoned" => Spent(c, MaxPolls, clock)

(* Time passing takes nothing back. *)
LEMMA BudgetKept ==
  ASSUME SFTypes, NEW c \in Caller, SFBudget(c), clock' \in Nat, clock <= clock',
         /\ pc'[c] = pc[c] /\ began'[c] = began[c] /\ polls'[c] = polls[c]
         /\ delay'[c] = delay[c] /\ wake'[c] = wake[c]
  PROVE  SFBudget(c)'
<1>0. \A n \in Nat : SF!Budget[n] \in Nat
  BY BudgetUnfolds
<1>1. /\ clock \in Nat /\ began[c] \in Nat /\ MaxTime \in Nat
      /\ polls[c] \in Nat /\ MaxPolls \in Nat
  BY SFConstants DEF SFTypes
<1>2. \A n \in Nat : Spent(c, n, clock) => began'[c] = began[c] /\ clock' >= SF!Least(began'[c] + SF!Budget[n], MaxTime)
  BY <1>0, <1>1 DEF Spent, SF!Least
<1>3. Spent(c, polls[c], clock) => Spent(c, polls[c], clock)'
  BY <1>1, <1>2 DEF Spent
<1>4. Spent(c, polls[c] + 1, wake[c]) => Spent(c, polls[c] + 1, wake[c])'
  BY DEF Spent
<1>5. Spent(c, MaxPolls, clock) => Spent(c, MaxPolls, clock)'
  BY <1>1, <1>2 DEF Spent
<1>6. began'[c] <= clock'
  BY <1>1 DEF SFBudget
<1>7. polls[c] < MaxPolls <=> polls'[c] < MaxPolls
  OBVIOUS
<1> QED
  BY <1>3, <1>4, <1>5, <1>6 DEF SFBudget

(* A call that is neither polled for nor given up has nothing to account for. *)
LEMMA BudgetElsewhere ==
  ASSUME SFTypes, NEW c \in Caller, SFBudget(c), UNCHANGED <<clock, began>>,
         pc'[c] \notin {"idle", "sign", "submit", "poll", "abandoned"}
  PROVE  SFBudget(c)'
BY DEF SFBudget

LEMMA BudgetTokenStep ==
  ASSUME SFTypes, NEW c \in Caller, SFBudget(c),
         SF!TakeToken(c) \/ SF!SignToken(c) \/ SF!SignFails(c)
  PROVE  SFBudget(c)'
<1>1. CASE SF!TakeToken(c)
  <2>1. /\ pc[c] = "idle" /\ began' = [began EXCEPT ![c] = clock] /\ UNCHANGED <<clock, polls>>
        /\ pc' \in {[pc EXCEPT ![c] = "submit"], [pc EXCEPT ![c] = "sign"]}
    BY <1>1 DEF SF!TakeToken, SF!Goto, SF!pollVars
  <2>2. pc'[c] \in {"submit", "sign"} /\ began'[c] = clock /\ clock \in Nat
    BY <2>1, SFConstants DEF SFTypes
  <2> QED
    BY <2>1, <2>2 DEF SFBudget
<1>2. CASE SF!SignToken(c)
  <2>1. /\ pc[c] = "sign" /\ pc' = [pc EXCEPT ![c] = "submit"] /\ UNCHANGED <<clock, began, polls>>
    BY <1>2 DEF SF!SignToken, SF!Goto, SF!pollVars
  <2>2. pc'[c] = "submit"
    BY <2>1 DEF SFTypes
  <2> QED
    BY <2>1, <2>2 DEF SFBudget
<1>3. CASE SF!SignFails(c)
  <2>1. pc' = [pc EXCEPT ![c] = "done"] /\ UNCHANGED <<clock, began>>
    BY <1>3 DEF SF!SignFails, SF!Fail, SF!Goto
  <2>2. pc'[c] = "done"
    BY <2>1 DEF SFTypes
  <2> QED
    BY <2>1, <2>2, BudgetElsewhere
<1> QED
  BY <1>1, <1>2, <1>3

LEMMA BudgetRequestStep ==
  ASSUME SFTypes, NEW c \in Caller, SFBudget(c),
         \/ SF!Submit(c) \/ SF!RequestFails(c) \/ SF!PollDone(c) \/ SF!PollAgain(c)
         \/ SF!GiveUp(c) \/ SF!GetPartition(c) \/ SF!Finish(c)
  PROVE  SFBudget(c)'
<1>0. \A n \in Nat : SF!Budget[n] \in Nat /\ SF!DelayBefore[n] \in Nat
  BY BudgetUnfolds, DelayUnfolds
<1>1. /\ clock \in Nat /\ began[c] \in Nat /\ MaxTime \in Nat /\ clock <= MaxTime
      /\ polls[c] \in Nat /\ polls[c] <= MaxPolls /\ MaxPolls \in Nat \ {0}
  BY SFConstants DEF SFTypes
<1>2. UNCHANGED <<clock, began>>
  BY DEF SF!Submit, SF!RequestFails, SF!PollDone, SF!PollAgain, SF!GiveUp, SF!GetPartition,
         SF!Finish, SF!requestVars
<1>3. ASSUME SF!Answered(c) PROVE SFBudget(c)'
  <2>1. pc' \in {[pc EXCEPT ![c] = "done"], [pc EXCEPT ![c] = "partition"]}
    BY <1>3 DEF SF!Answered, SF!Goto, SF!BadCell, SF!Fail
  <2>2. pc'[c] \in {"done", "partition"}
    BY <2>1 DEF SFTypes
  <2> QED
    BY <1>2, <2>2, BudgetElsewhere
<1>4. CASE SF!Submit(c)
  <2>1. pc[c] = "submit" /\ polls[c] = 0
    BY <1>4 DEF SF!Submit, SFBudget
  <2>2. CASE SF!Goto(c, "poll") /\ SF!Sleep(c, FirstDelay) /\ UNCHANGED <<polls, part, out>>
    <3>1. /\ pc'[c] = "poll" /\ polls'[c] = 0 /\ delay'[c] = FirstDelay
          /\ wake'[c] = SF!Least(clock + FirstDelay, MaxTime) /\ began'[c] = began[c]
      BY <1>2, <2>1, <2>2 DEF SF!Goto, SF!Sleep, SFTypes
    <3>2. SF!Budget[0] = 0 /\ SF!Budget[1] = FirstDelay /\ SF!DelayBefore[1] = FirstDelay
      <4>1. SF!Budget[1] = SF!Budget[1 - 1] + SF!DelayBefore[1]
        BY BudgetUnfolds
      <4>2. FirstDelay \in Nat
        BY SFConstants
      <4> QED
        BY <4>1, <4>2, BudgetUnfolds, DelayUnfolds
    <3>3. began[c] <= clock /\ FirstDelay \in Nat
      BY SFConstants DEF SFBudget
    <3>4. clock' >= SF!Least(began'[c] + SF!Budget[0], MaxTime)
      BY <1>1, <1>2, <3>1, <3>2, <3>3 DEF SF!Least
    <3>5. wake'[c] >= SF!Least(began'[c] + SF!Budget[0 + 1], MaxTime)
      BY <1>1, <1>2, <3>1, <3>2, <3>3 DEF SF!Least
    <3>6. delay'[c] = SF!DelayBefore[0 + 1]
      BY <3>1, <3>2
    <3> QED
      BY <1>2, <3>1, <3>3, <3>4, <3>5, <3>6 DEF SFBudget, Spent
  <2> QED
    BY <1>3, <1>4, <2>2 DEF SF!Submit
<1>5. CASE SF!RequestFails(c)
  <2>1. pc'[c] = "done"
    BY <1>5 DEF SF!RequestFails, SF!Fail, SF!Goto, SFTypes
  <2> QED
    BY <1>2, <2>1, BudgetElsewhere
<1>6. CASE SF!PollDone(c)
  BY <1>3, <1>6 DEF SF!PollDone
<1>7. CASE SF!PollAgain(c)
  <2> DEFINE p == polls[c]
             d == SF!DelayBefore[(p + 1) + 1]
  <2>1. /\ pc[c] = "poll" /\ p < MaxPolls /\ wake[c] <= clock
        /\ pc'[c] = "poll" /\ polls'[c] = p + 1
        /\ delay'[c] = SF!Least(2 * delay[c], MaxDelay)
        /\ wake'[c] = SF!Least(clock + SF!Least(2 * delay[c], MaxDelay), MaxTime)
    BY <1>7 DEF SF!PollAgain, SF!Sleep, SFTypes
  <2>2. delay[c] = SF!DelayBefore[p + 1] /\ Spent(c, p + 1, wake[c])
    BY <2>1 DEF SFBudget
  <2>3. SF!Least(2 * delay[c], MaxDelay) = d
    <3>1. (p + 1) + 1 \in Nat \ {0, 1} /\ ((p + 1) + 1) - 1 = p + 1
      BY <1>1
    <3>2. SF!DelayBefore[(p + 1) + 1] = SF!Least(2 * SF!DelayBefore[((p + 1) + 1) - 1], MaxDelay)
      BY <3>1, DelayUnfolds
    <3> QED
      BY <2>2, <3>1, <3>2
  <2>4. SF!Budget[(p + 1) + 1] = SF!Budget[p + 1] + d
    <3>1. (p + 1) + 1 \in Nat \ {0} /\ ((p + 1) + 1) - 1 = p + 1
      BY <1>1
    <3>2. SF!Budget[(p + 1) + 1] = SF!Budget[((p + 1) + 1) - 1] + SF!DelayBefore[(p + 1) + 1]
      BY <3>1, BudgetUnfolds
    <3> QED
      BY <3>1, <3>2
  <2>5. p \in Nat /\ d \in Nat /\ SF!Budget[p + 1] \in Nat /\ wake[c] \in Nat
    <3>1. p \in Nat /\ wake[c] \in Nat
      BY <1>1 DEF SFTypes
    <3>2. p + 1 \in Nat /\ (p + 1) + 1 \in Nat
      BY <3>1
    <3> QED
      BY <1>0, <3>1, <3>2
  <2> HIDE DEF p, d
  <2> DEFINE b == SF!Budget[p + 1]
             w == wake[c]
             s == began[c]
  <2>6. clock >= SF!Least(s + b, MaxTime)
    <3>1. w >= SF!Least(s + b, MaxTime)
      BY <2>2 DEF Spent
    <3>2. b \in Nat /\ w \in Nat /\ s \in Nat /\ w <= clock
      BY <1>1, <2>1, <2>5
    <3> HIDE DEF b, w, s
    <3> QED
      BY <1>1, <3>1, <3>2 DEF SF!Least
  <2>7. wake'[c] >= SF!Least(s + SF!Budget[(p + 1) + 1], MaxTime)
    <3>1. wake'[c] = SF!Least(clock + d, MaxTime)
      BY <2>1, <2>3
    <3>2. b \in Nat /\ s \in Nat
      BY <1>1, <2>5
    <3> HIDE DEF b, s
    <3>3. SF!Least(clock + d, MaxTime) >= SF!Least(s + (b + d), MaxTime)
      BY <1>1, <2>5, <2>6, <3>2 DEF SF!Least
    <3>4. s + SF!Budget[(p + 1) + 1] = s + (b + d)
      BY <2>4 DEF b
    <3> QED
      BY <3>1, <3>3, <3>4
  <2>8. began'[c] = began[c] /\ clock' = clock /\ began[c] <= clock
    BY <1>2 DEF SFBudget
  <2> QED
    BY <2>1, <2>3, <2>6, <2>7, <2>8 DEF SFBudget, Spent, d
<1>8. CASE SF!GiveUp(c)
  <2>1. pc[c] = "poll" /\ polls[c] = MaxPolls /\ pc'[c] = "abandoned"
    BY <1>8 DEF SF!GiveUp, SF!Goto, SFTypes
  <2>2. Spent(c, MaxPolls, clock)
    BY <2>1 DEF SFBudget
  <2> QED
    BY <1>2, <2>1, <2>2 DEF SFBudget, Spent
<1>9. CASE SF!GetPartition(c)
  <2>1. pc[c] = "partition" /\ pc'[c] \in {"partition", "done"}
    BY <1>9 DEF SF!GetPartition, SF!BadCell, SF!Fail, SF!Goto, SFTypes
  <2> QED
    BY <1>2, <2>1, BudgetElsewhere
<1>10. CASE SF!Finish(c)
  <2>1. pc'[c] = "done"
    BY <1>10 DEF SF!Finish, SF!Goto, SFTypes
  <2> QED
    BY <1>2, <2>1, BudgetElsewhere
<1> QED
  BY <1>4, <1>5, <1>6, <1>7, <1>8, <1>9, <1>10

(* A call changes only what is its own. *)
LEMMA CallsApart ==
  ASSUME SFTypes, NEW c \in Caller, SF!Call(c), NEW d \in Caller \ {c}
  PROVE  /\ clock' = clock /\ pc'[d] = pc[d] /\ began'[d] = began[d] /\ polls'[d] = polls[d]
         /\ delay'[d] = delay[d] /\ wake'[d] = wake[d]
<1> USE DEF SFTypes, SF!Goto, SF!Fail, SF!Sleep, SF!pollVars, SF!requestVars
<1>1. SF!Answered(c) => pc'[d] = pc[d]
  BY DEF SF!Answered, SF!BadCell
<1>2. CASE SF!TakeToken(c) \/ SF!SignToken(c) \/ SF!SignFails(c)
  BY <1>2 DEF SF!TakeToken, SF!SignToken, SF!SignFails
<1>3. CASE SF!Submit(c)
  BY <1>1, <1>3 DEF SF!Submit
<1>4. CASE SF!RequestFails(c) \/ SF!GiveUp(c) \/ SF!Finish(c)
  BY <1>4 DEF SF!RequestFails, SF!GiveUp, SF!Finish
<1>5. CASE SF!PollDone(c) \/ SF!PollAgain(c)
  BY <1>1, <1>5 DEF SF!PollDone, SF!PollAgain
<1>6. CASE SF!GetPartition(c)
  BY <1>6 DEF SF!GetPartition, SF!BadCell
<1> QED
  BY <1>2, <1>3, <1>4, <1>5, <1>6 DEF SF!Call

BudgetInv == kind = "snowflake" => \A c \in Caller : SFBudget(c)

LEMMA BudgetStep ==
  ASSUME IInv, BudgetInv, [Next]_vars
  PROVE  BudgetInv'
<1> SUFFICES ASSUME kind' = "snowflake", NEW c \in Caller PROVE SFBudget(c)'
  BY DEF BudgetInv
<1>1. kind' = kind
  BY DEF Next, vars, SnowflakeNext, BigQueryNext, PostgresNext, Over
<1>2. SFTypes /\ SFBudget(c)
  BY <1>1 DEF IInv, SFInv, BudgetInv
<1>3. clock \in Nat
  BY <1>2 DEF SFTypes
<1>4. CASE UNCHANGED vars
  BY <1>2, <1>3, <1>4, BudgetKept DEF vars, sfOnly
<1>5. CASE SF!Tick
  <2>1. clock' = clock + 1 /\ UNCHANGED <<pc, began, polls, delay, wake>>
    BY <1>5 DEF SF!Tick, SF!pollVars
  <2> QED
    BY <1>2, <1>3, <2>1, BudgetKept
<1>6. CASE \E d \in Caller : SF!Call(d)
  <2>1. PICK d \in Caller : SF!Call(d)
    BY <1>6
  <2>2. CASE d = c
    BY <1>2, <2>1, <2>2, BudgetTokenStep, BudgetRequestStep DEF SF!Call
  <2>3. CASE d # c
    <3>1. /\ clock' = clock /\ pc'[c] = pc[c] /\ began'[c] = began[c] /\ polls'[c] = polls[c]
          /\ delay'[c] = delay[c] /\ wake'[c] = wake[c]
      BY <1>2, <2>1, <2>3, CallsApart
    <3> QED
      BY <1>2, <1>3, <3>1, BudgetKept
  <2> QED
    BY <2>2, <2>3
<1> QED
  BY <1>1, <1>4, <1>5, <1>6 DEF Next, SnowflakeNext, BigQueryNext, PostgresNext, Over, SF!Next

(***************************************************************************)
(* snowflake.rs: a statement is given up only after the whole budget of    *)
(* doubling sleeps, however the polls of several calls interleave.         *)
(***************************************************************************)
THEOREM BudgetSpent == Spec => []AbandonedLate
<1>1. Init => BudgetInv
  <2> SUFFICES ASSUME Init, NEW c \in Caller PROVE SFBudget(c)
    BY DEF BudgetInv
  <2>1. SF!SharedInit /\ polls = [d \in Caller |-> 0]
    BY DEF Init, SF!Init
  <2>2. clock = 1 /\ pc[c] = "idle" /\ began[c] = 0 /\ polls[c] = 0
    BY <2>1 DEF SF!SharedInit
  <2> QED
    BY <2>2 DEF SFBudget
<1>2. IInv /\ BudgetInv /\ [Next]_vars => BudgetInv'
  BY BudgetStep
<1>3. BudgetInv => AbandonedLate
  BY DEF BudgetInv, AbandonedLate, SF!AbandonedLate, SFBudget, Spent
<1> QED
  BY <1>1, <1>2, <1>3, Inductive, PTL DEF Spec

================================================================================
