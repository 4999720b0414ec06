---------------------------- MODULE Identity_proofs ----------------------------
(***************************************************************************)
(* Proofs about Identity, for every set of users, clients and connections, *)
(* every expiry, latency and page size.                                    *)
(***************************************************************************)
EXTENDS Identity, FiniteSetTheorems, FunctionTheorems, TLAPS

(* Rows and requests are what the routes and the seed make them. *)
ReadTyped ==
  /\ DOMAIN read = Client
  /\ \A c \in Client : pc[c] = "verify" =>
       read[c].user \in Name /\ read[c].row \in Account!Row /\ since[c] > 0

WriteTyped ==
  /\ DOMAIN write = Client
  /\ \A c \in Client : pc[c] = "write" => write[c] \in AllWrites /\ since[c] > 0

(* adminAt is the time somebody was last an admin, which may be now. *)
AdminsDated ==
  \A u \in Name : adminAt[u] <= clock /\ (Account!IsAdmin(u) => adminAt[u] = clock)

InTime == \A c \in Client : pc[c] # "idle" => clock <= since[c] + Latency

(* The role a login has read was its user's when the login began, *)
ReadDated ==
  \A c \in Client : pc[c] = "verify" /\ read[c].row.role = "admin" =>
    since[c] <= adminAt[read[c].user]

(* so an admin's token expires an Expiry and a Latency after that at most, *)
TokensDated ==
  \A c \in Client : token[c] # None /\ token[c].role = "admin" =>
    /\ adminAt[token[c].sub] > 0
    /\ token[c].exp <= adminAt[token[c].sub] + Latency + Expiry

(* and had not expired when the write was admitted. *)
WritersAdmitted ==
  \A c \in Client : pc[c] = "write" =>
    token[c] # None /\ token[c].role = "admin" /\ since[c] <= token[c].exp

(* A name is listed once and stays listed; the seeded admin is. *)
AdminListed == row[Admin] # None

(* So is provenAt the time somebody was last active with a password, *)
ProofsDated ==
  \A u \in Name, p \in Password :
    provenAt[u][p] <= clock /\ (Proven(u, p) => provenAt[u][p] = clock)

(* and a connection compares what was its user's when it began to. *)
WireTyped ==
  wire \in [Connection -> [at : {"new", "password", "verify", "ready"}, user : Name \cup {None},
                           row : Account!Row \cup {None}, given : Password \cup {None}, begun : Nat]]

WireDated ==
  \A k \in Connection : wire[k].at = "verify" =>
    LET w == wire[k] IN
      /\ w.user \in Name /\ w.row \in Account!Row /\ w.given \in Password /\ w.begun > 0
      /\ w.begun <= provenAt[w.user][w.row.pw] /\ clock <= w.begun + Latency

(***************************************************************************)
(* A walk that is to read page q next has read the pages before: a user    *)
(* who is due, not seen, and alone with their created_at has so many newer *)
(* ones.  No page but the last was empty, so the offset stays below Width. *)
(***************************************************************************)
Offset(q) == (q - 1) * PerPage
Alone(u)  == \A v \in Listed \ {u} : created[v] # created[u]
Newer(u)  == {v \in Listed : created[v] > created[u]}

WalkTyped == walk \in [Client -> [page : Nat, due : SUBSET Name, seen : SUBSET Name]]

WalkDue ==
  \A c \in Client : walk[c].page > 1 =>
    /\ Offset(walk[c].page) < Cardinality(Listed) + PerPage
    /\ \A u \in walk[c].due \ walk[c].seen :
         Alone(u) => Cardinality(Newer(u)) >= Offset(walk[c].page)

DueListed == \A c \in Client : walk[c].due \subseteq Listed

IInv ==
  /\ TypeOK /\ ReadTyped /\ WriteTyped /\ AdminsDated /\ InTime /\ ReadDated
  /\ TokensDated /\ WritersAdmitted /\ AdminListed
  /\ ProofsDated /\ WireTyped /\ WireDated
  /\ WalkTyped /\ WalkDue /\ DueListed /\ WalkSeesEveryone

--------------------------------------------------------------------------------
(* A step opens an account, changes one that is active, or leaves the table alone. *)
Opened(u, r) ==
  /\ row[u] = None /\ r.active
  /\ row' = [row EXCEPT ![u] = r]
  /\ \E now \in 1..MaxTime : created' = [created EXCEPT ![u] = now]
Changed(u, r) ==
  /\ row[u] # None /\ row[u].active
  /\ row' = [row EXCEPT ![u] = r] /\ created' = created

TableStep ==
  \/ UNCHANGED tableVars
  \/ /\ clock' = clock
     /\ \E c \in Client : pc[c] = "write"
     /\ \E u \in Name, r \in Account!Row : Opened(u, r) \/ Changed(u, r)

LEMMA WriteOnTable ==
  ASSUME IInv, NEW c \in Client, DoWrite(c)
  PROVE  \E u \in Name, r \in Account!Row : Opened(u, r) \/ Changed(u, r)
<1> DEFINE w == write[c]
<1>1. w \in AllWrites /\ pc[c] = "write"
  BY DEF IInv, WriteTyped, DoWrite
<1>2. CASE w.op = "create" /\ Create(w.user, w.pw, w.role, since[c])
  <2>1. w.user \in Name /\ w.pw \in Password /\ w.role \in Role
    BY <1>1, <1>2, IdentityAssumption DEF AllWrites
  <2>2. NewRow(w.role, w.pw) \in Account!Row
    BY <2>1 DEF NewRow, Account!Row
  <2>3. Opened(w.user, NewRow(w.role, w.pw))
    <3>1. since[c] \in Nat /\ since[c] > 0 /\ clock \in 1..MaxTime /\ MaxTime \in Nat
      BY <1>1, IdentityAssumption DEF IInv, TypeOK, WriteTyped
    <3>2. since[c]..clock \subseteq 1..MaxTime
      BY <3>1
    <3> QED
      BY <1>2, <3>2 DEF Create, Opened, NewRow
  <2> QED
    BY <2>1, <2>2, <2>3
<1>3. CASE w.op = "update" /\ Update(w.user, w.role, w.pw)
  <2>1. w.user \in Name /\ w.role \in Role \cup {None} /\ w.pw \in Password \cup {None}
    BY <1>1, <1>3, IdentityAssumption DEF AllWrites
  <2>2. row[w.user] \in Account!Row /\ row[w.user].active /\ row[w.user] # None
    BY <1>3, <2>1 DEF Update, Active, Account!Active, IInv, TypeOK
  <2> DEFINE old == row[w.user]
             r   == [old EXCEPT !.role = IF w.role = None THEN old.role ELSE w.role,
                                !.pw   = IF w.pw = None THEN old.pw ELSE w.pw]
  <2>3. r \in Account!Row
    BY <2>1, <2>2 DEF Account!Row
  <2>4. row' = [row EXCEPT ![w.user] = r] /\ created' = created
    BY <1>3, <2>1, <2>2 DEF Update, Account!Row, IInv, TypeOK
  <2> QED
    BY <2>1, <2>2, <2>3, <2>4 DEF Changed
<1>4. CASE w.op = "deactivate" /\ Deactivate(w.user)
  <2>1. w.user \in Name
    BY <1>1, <1>4 DEF AllWrites
  <2>2. row[w.user] \in Account!Row /\ row[w.user].active /\ row[w.user] # None
    BY <1>4, <2>1 DEF Deactivate, Active, Account!Active, IInv, TypeOK
  <2> DEFINE r == [row[w.user] EXCEPT !.active = FALSE]
  <2>3. r \in Account!Row
    BY <2>2 DEF Account!Row
  <2>4. row' = [row EXCEPT ![w.user] = r] /\ created' = created
    BY <1>4, <2>1, <2>2 DEF Deactivate, Account!Row, IInv, TypeOK
  <2> QED
    BY <2>1, <2>2, <2>3, <2>4 DEF Changed
<1> QED
  BY <1>2, <1>3, <1>4 DEF DoWrite

LEMMA OnTable == ASSUME IInv, [Next]_vars PROVE TableStep
<1>1. CASE \E c \in Client : DoWrite(c) /\ clock' = clock
  BY <1>1, WriteOnTable DEF TableStep, DoWrite
<1>2. CASE RestRestarts
  BY <1>2 DEF RestRestarts, EnsureAdmin, IInv, AdminListed, TableStep
<1>3. CASE UNCHANGED vars
  BY <1>3 DEF vars, TableStep
<1>4. CASE Tick \/ GatewayRestarts
  BY <1>4 DEF Tick, GatewayRestarts, TableStep
<1>5. CASE \E k \in Connection : Message(k)
  BY <1>5 DEF Message, Startup, PasswordFinds, Ready, Disconnect, TableStep
<1>6. CASE \E c \in Client : FindUser(c) \/ Issue(c) \/ LoginFails(c) \/ AskWrite(c)
                               \/ WriteFails(c) \/ ListPage(c)
  BY <1>6 DEF FindUser, Issue, LoginFails, AskWrite, WriteFails, ListPage, TableStep
<1> QED
  BY <1>1, <1>2, <1>3, <1>4, <1>5, <1>6 DEF Next, Request

(***************************************************************************)
(* The table stays what it is a table of: no row goes or changes its date, *)
(* and a new one has any.                                                  *)
(***************************************************************************)
LEMMA TableTyped ==
  ASSUME IInv, [Next]_vars
  PROVE  /\ row' \in [Name -> Account!Row \cup {None}]
         /\ created' \in [Name -> 0..MaxTime]
         /\ \A v \in Name : (v \in Listed <=> created[v] > 0)'
         /\ Listed \subseteq Listed'
         /\ \A v \in Listed : created'[v] = created[v]
<1>1. /\ row \in [Name -> Account!Row \cup {None}] /\ created \in [Name -> 0..MaxTime]
      /\ \A v \in Name : v \in Listed <=> created[v] > 0
      /\ MaxTime \in Nat
  BY IdentityAssumption DEF IInv, TypeOK
<1>2. None \notin Account!Row
  BY IdentityAssumption DEF Account!Row
<1>3. CASE UNCHANGED tableVars
  BY <1>1, <1>3 DEF tableVars, Listed
<1>4. CASE \E u \in Name, r \in Account!Row : Changed(u, r)
  BY <1>1, <1>2, <1>4 DEF Changed, Listed
<1>5. CASE \E u \in Name, r \in Account!Row : Opened(u, r)
  <2>1. PICK u \in Name, r \in Account!Row : Opened(u, r)
    BY <1>5
  <2>2. PICK now \in 1..MaxTime : created' = [created EXCEPT ![u] = now]
    BY <2>1 DEF Opened
  <2>3. u \notin Listed /\ row' = [row EXCEPT ![u] = r]
    BY <2>1 DEF Opened, Listed
  <2>4. Listed' = Listed \cup {u}
    BY <1>1, <1>2, <2>3 DEF Listed
  <2>5. created'[u] = now /\ \A v \in Name \ {u} : created'[v] = created[v]
    BY <1>1, <2>2
  <2>6. row' \in [Name -> Account!Row \cup {None}] /\ created' \in [Name -> 0..MaxTime]
    BY <1>1, <2>2, <2>3
  <2>7. Listed \subseteq Name
    BY DEF Listed
  <2> QED
    BY <1>1, <2>3, <2>4, <2>5, <2>6, <2>7
<1> QED
  BY <1>3, <1>4, <1>5, OnTable DEF TableStep

LEMMA AdminStays == ASSUME IInv, [Next]_vars PROVE AdminListed'
BY TableTyped, IdentityAssumption DEF IInv, TypeOK, AdminListed, Listed

(* Time passes, and adminAt with it. *)
LEMMA OnClock ==
  ASSUME IInv, [Next]_vars
  PROVE  /\ clock' \in 1..MaxTime /\ clock' \in {clock, clock + 1}
         /\ adminAt' \in [Name -> 0..MaxTime]
         /\ \A u \in Name : adminAt[u] <= adminAt'[u]
         /\ AdminsDated'
<1>1. clock \in 1..MaxTime /\ adminAt \in [Name -> 0..MaxTime] /\ MaxTime \in Nat
  BY IdentityAssumption DEF IInv, TypeOK
<1>2. \A u \in Name : adminAt[u] <= clock
  BY DEF IInv, AdminsDated
<1>3. CASE UNCHANGED vars
  BY <1>1, <1>3 DEF vars, tableVars, IInv, AdminsDated, Account!IsAdmin, Account!Active
<1>4. CASE Next
  <2>1. adminAt' = [u \in Name |-> IF Account!IsAdmin(u)' THEN clock' ELSE adminAt[u]]
    BY <1>4 DEF Next, Account!Note
  <2>2. clock' = clock \/ (clock < MaxTime /\ clock' = clock + 1)
    BY <1>4 DEF Next, Tick
  <2> HIDE <1>4
  <2>3. clock' \in 1..MaxTime
    BY <1>1, <2>2
  <2>4. adminAt' \in [Name -> 0..MaxTime] /\ \A u \in Name : adminAt[u] <= adminAt'[u]
    BY <1>1, <1>2, <2>1, <2>2, <2>3
  <2>5. AdminsDated'
    BY <1>1, <1>2, <2>1, <2>2, <2>3 DEF AdminsDated
  <2> QED
    BY <2>2, <2>3, <2>4, <2>5
<1> QED
  BY <1>3, <1>4

(* provenAt follows the table as time passes. *)
LEMMA OnProofs ==
  ASSUME IInv, [Next]_vars
  PROVE  /\ provenAt' \in [Name -> [Password -> 0..MaxTime]]
         /\ \A u \in Name, p \in Password : provenAt[u][p] <= provenAt'[u][p]
         /\ ProofsDated'
<1>1. /\ clock \in 1..MaxTime /\ clock' \in 1..MaxTime /\ clock' \in {clock, clock + 1}
      /\ provenAt \in [Name -> [Password -> 0..MaxTime]] /\ MaxTime \in Nat
  BY OnClock, IdentityAssumption DEF IInv, TypeOK
<1>2. \A u \in Name, p \in Password : provenAt[u][p] <= clock /\ provenAt[u][p] \in 0..MaxTime
  BY <1>1 DEF IInv, ProofsDated
<1>3. CASE UNCHANGED vars
  <2>1. provenAt' = provenAt /\ clock' = clock /\ row' = row
    BY <1>3 DEF vars, tableVars
  <2>2. \A u \in Name, p \in Password : Proven(u, p)' <=> Proven(u, p)
    BY <2>1 DEF Proven, Active, Account!Active
  <2>3. ProofsDated'
    BY <2>1, <2>2 DEF IInv, ProofsDated
  <2> QED
    BY <1>1, <1>2, <2>1, <2>3
<1>4. CASE Next
  <2>1. provenAt' = [u \in Name |-> [p \in Password |->
                       IF Proven(u, p)' THEN clock' ELSE provenAt[u][p]]]
    BY <1>4 DEF Next, NoteProven
  <2> HIDE <1>4
  <2>2. ASSUME NEW u \in Name, NEW p \in Password
        PROVE  /\ provenAt'[u][p] \in 0..MaxTime /\ provenAt[u][p] <= provenAt'[u][p]
               /\ provenAt'[u][p] <= clock' /\ (Proven(u, p)' => provenAt'[u][p] = clock')
    <3>1. provenAt'[u][p] = IF Proven(u, p)' THEN clock' ELSE provenAt[u][p]
      BY <2>1
    <3> QED
      BY <1>1, <1>2, <3>1
  <2>3. provenAt' \in [Name -> [Password -> 0..MaxTime]]
    BY <2>1, <1>1, <1>2
  <2> QED
    BY <2>2, <2>3 DEF ProofsDated
<1> QED
  BY <1>3, <1>4

--------------------------------------------------------------------------------
(***************************************************************************)
(* What a step does to one client: nothing, or one of these.               *)
(***************************************************************************)
Stays(d) ==
  /\ pc'[d] = pc[d] /\ since'[d] = since[d] /\ token'[d] = token[d]
  /\ read'[d] = read[d] /\ write'[d] = write[d]
Returns(d) == pc'[d] = "idle" /\ since'[d] = 0 /\ token'[d] = token[d]
Reads(d) ==
  /\ pc'[d] = "verify" /\ since'[d] = clock /\ token'[d] = token[d]
  /\ \E u \in Name : Active(u) /\ read'[d].user = u /\ read'[d].row = row[u]
Signs(d) ==
  /\ pc[d] = "verify" /\ pc'[d] = "idle" /\ since'[d] = 0
  /\ token'[d] = [sub |-> read[d].user, role |-> read[d].row.role, exp |-> clock + Expiry]
Asks(d) ==
  /\ pc'[d] = "write" /\ since'[d] = clock /\ token'[d] = token[d]
  /\ Admitted(d) /\ write'[d] \in AllWrites

ClientStep(d) ==
  \/ Stays(d) /\ (clock' = clock \/ (pc[d] # "idle" => clock' <= since[d] + Latency))
  \/ Returns(d)
  \/ clock' = clock /\ (Reads(d) \/ Signs(d) \/ Asks(d))

ClientsTyped ==
  /\ pc = [d \in Client |-> pc[d]]
  /\ since = [d \in Client |-> since[d]]
  /\ token = [d \in Client |-> token[d]]
  /\ DOMAIN read = Client /\ DOMAIN write = Client

LEMMA OnClients ==
  ASSUME IInv, [Next]_vars
  PROVE  ClientsTyped' /\ \A d \in Client : ClientStep(d)
<1>1. ClientsTyped
  BY DEF IInv, TypeOK, ReadTyped, WriteTyped, ClientsTyped
<1>2. clock \in Nat /\ since \in [Client -> Nat] /\ Latency \in Nat
  BY IdentityAssumption DEF IInv, TypeOK
<1>3. ASSUME NEW c \in Client, clock' = clock,
             \/ FindUser(c) \/ LoginFails(c) \/ DoWrite(c) \/ WriteFails(c)
      PROVE  ClientsTyped' /\ \A d \in Client : ClientStep(d)
  <2>1. CASE FindUser(c)
    <3>1. PICK u \in Name, p \in Usable :
            Active(u) /\ read' = [read EXCEPT ![c] = [user |-> u, row |-> row[u], given |-> p]]
      BY <2>1, WantedAssumption DEF FindUser
    <3>2. Reads(c) /\ \A d \in Client \ {c} : Stays(d)
      BY <1>1, <2>1, <3>1 DEF FindUser, Wait, Reads, Stays, ClientsTyped
    <3>3. ClientsTyped'
      BY <1>1, <2>1, <3>1 DEF FindUser, Wait, ClientsTyped
    <3> QED
      BY <1>3, <3>2, <3>3 DEF ClientStep
  <2>2. CASE LoginFails(c) \/ DoWrite(c) \/ WriteFails(c)
    <3>1. Returns(c) /\ \A d \in Client \ {c} : Stays(d)
      BY <1>1, <2>2 DEF LoginFails, DoWrite, WriteFails, Return, Returns, Stays, ClientsTyped
    <3>2. ClientsTyped'
      BY <1>1, <2>2 DEF LoginFails, DoWrite, WriteFails, Return, ClientsTyped
    <3> QED
      BY <1>3, <3>1, <3>2 DEF ClientStep
  <2> QED
    BY <1>3, <2>1, <2>2
<1>4. ASSUME NEW c \in Client, clock' = clock, Issue(c)
      PROVE  ClientsTyped' /\ \A d \in Client : ClientStep(d)
  <2>1. Signs(c) /\ \A d \in Client \ {c} : Stays(d)
    BY <1>1, <1>4 DEF Issue, Return, Signs, Stays, ClientsTyped
  <2>2. ClientsTyped'
    BY <1>1, <1>4 DEF Issue, Return, ClientsTyped
  <2> QED
    BY <1>4, <2>1, <2>2 DEF ClientStep
<1>5. ASSUME NEW c \in Client, clock' = clock, AskWrite(c)
      PROVE  ClientsTyped' /\ \A d \in Client : ClientStep(d)
  <2>1. PICK w \in Wanted[c] : write' = [write EXCEPT ![c] = w]
    BY <1>5 DEF AskWrite
  <2>2. w \in AllWrites
    BY WantedAssumption
  <2>3. Asks(c) /\ \A d \in Client \ {c} : Stays(d)
    BY <1>1, <1>5, <2>1, <2>2 DEF AskWrite, Wait, Asks, Stays, ClientsTyped
  <2>4. ClientsTyped'
    BY <1>1, <1>5, <2>1 DEF AskWrite, Wait, ClientsTyped
  <2> QED
    BY <1>5, <2>3, <2>4 DEF ClientStep
<1>6. CASE RestRestarts
  BY <1>1, <1>6 DEF RestRestarts, ClientStep, Returns, ClientsTyped
<1>7. CASE Tick /\ clock' = clock + 1
  BY <1>1, <1>2, <1>7 DEF Tick, restVars, ClientStep, Stays, ClientsTyped
<1>8. ASSUME clock' = clock, UNCHANGED <<pc, since, token, read, write>>
      PROVE  ClientsTyped' /\ \A d \in Client : ClientStep(d)
  BY <1>1, <1>8 DEF ClientStep, Stays, ClientsTyped
<1>9. CASE UNCHANGED vars
  BY <1>8, <1>9 DEF vars, restVars
<1>10. CASE clock' = clock /\ GatewayRestarts
  BY <1>8, <1>10 DEF GatewayRestarts, restVars
<1>11. ASSUME NEW k \in Connection, clock' = clock, Message(k)
       PROVE  ClientsTyped' /\ \A d \in Client : ClientStep(d)
  BY <1>8, <1>11 DEF Message, Startup, PasswordFinds, Ready, Disconnect, restVars
<1>12. ASSUME NEW c \in Client, clock' = clock, ListPage(c)
       PROVE  ClientsTyped' /\ \A d \in Client : ClientStep(d)
  BY <1>8, <1>12 DEF ListPage
<1>13. ASSUME NEW c \in Client, clock' = clock, Request(c)
       PROVE  ClientsTyped' /\ \A d \in Client : ClientStep(d)
  BY <1>3, <1>4, <1>5, <1>12, <1>13 DEF Request
<1> QED
  BY <1>6, <1>7, <1>9, <1>10, <1>11, <1>13 DEF Next

LEMMA ClientsStayTyped ==
  ASSUME IInv, [Next]_vars
  PROVE  /\ pc' \in [Client -> {"idle", "verify", "write"}]
         /\ since' \in [Client -> 0..MaxTime]
         /\ token' \in [Client -> Claims \cup {None}]
         /\ ReadTyped' /\ WriteTyped' /\ InTime'
<1>1. ClientsTyped' /\ \A d \in Client : ClientStep(d)
  BY OnClients
<1>2. /\ clock \in 1..MaxTime /\ clock' \in 1..MaxTime
      /\ MaxTime \in Nat /\ Expiry \in Nat /\ Latency \in Nat
  BY OnClock, IdentityAssumption DEF IInv, TypeOK
<1>3. /\ pc \in [Client -> {"idle", "verify", "write"}]
      /\ since \in [Client -> 0..MaxTime]
      /\ token \in [Client -> Claims \cup {None}]
      /\ row \in [Name -> Account!Row \cup {None}]
  BY DEF IInv, TypeOK
<1>4. ASSUME NEW d \in Client
      PROVE  /\ pc'[d] \in {"idle", "verify", "write"} /\ since'[d] \in 0..MaxTime
             /\ pc'[d] = "verify" =>
                  read'[d].user \in Name /\ read'[d].row \in Account!Row /\ since'[d] > 0
             /\ pc'[d] = "write" => write'[d] \in AllWrites /\ since'[d] > 0
             /\ pc'[d] # "idle" => clock' <= since'[d] + Latency
  <2>1. /\ pc[d] = "verify" =>
             read[d].user \in Name /\ read[d].row \in Account!Row /\ since[d] > 0
        /\ pc[d] = "write" => write[d] \in AllWrites /\ since[d] > 0
        /\ pc[d] # "idle" => clock <= since[d] + Latency
    BY DEF IInv, ReadTyped, WriteTyped, InTime
  <2>2. CASE Stays(d) /\ (clock' = clock \/ (pc[d] # "idle" => clock' <= since[d] + Latency))
    BY <1>3, <2>1, <2>2 DEF Stays
  <2>3. CASE Returns(d) \/ Signs(d)
    BY <1>2, <2>3 DEF Returns, Signs
  <2>4. CASE clock' = clock /\ Reads(d)
    BY <1>2, <1>3, <2>4 DEF Reads, Active, Account!Active
  <2>5. CASE clock' = clock /\ Asks(d)
    BY <1>2, <2>5 DEF Asks
  <2> QED
    BY <1>1, <2>2, <2>3, <2>4, <2>5 DEF ClientStep
<1>5. ASSUME NEW d \in Client PROVE token'[d] \in Claims \cup {None}
  <2>1. CASE token'[d] = token[d]
    BY <1>3, <2>1
  <2>2. CASE Signs(d)
    <3>1. read[d].user \in Name /\ read[d].row.role \in Role
      BY <2>2 DEF Signs, IInv, ReadTyped, Account!Row
    <3> QED
      BY <1>2, <2>2, <3>1 DEF Signs, Claims
  <2> QED
    BY <1>1, <2>1, <2>2 DEF ClientStep, Stays, Returns, Reads, Asks
<1> QED
  BY <1>1, <1>4, <1>5 DEF ClientsTyped, ReadTyped, WriteTyped, InTime

(***************************************************************************)
(* What the dates of tokens, logins and writes amount to is kept.          *)
(***************************************************************************)
LEMMA DatesKept ==
  ASSUME IInv, [Next]_vars
  PROVE  ReadDated' /\ TokensDated' /\ WritersAdmitted'
<1>1. \A d \in Client : ClientStep(d)
  BY OnClients
<1>2. /\ clock \in Nat /\ clock' \in Nat /\ Expiry \in Nat /\ Latency \in Nat
      /\ adminAt \in [Name -> Nat] /\ adminAt' \in [Name -> Nat] /\ since \in [Client -> Nat]
      /\ \A u \in Name : adminAt[u] <= adminAt'[u]
  BY OnClock, IdentityAssumption DEF IInv, TypeOK
<1>3. \A c \in Client : token[c] # None => token[c].sub \in Name /\ token[c].exp \in Nat
  BY DEF IInv, TypeOK, Claims
<1>4. ASSUME NEW d \in Client
      PROVE  pc'[d] = "verify" /\ read'[d].row.role = "admin" =>
               since'[d] <= adminAt'[read'[d].user]
  <2>1. ASSUME Stays(d), pc[d] = "verify", read[d].row.role = "admin"
        PROVE  since'[d] <= adminAt'[read'[d].user]
    <3>1. read[d].user \in Name /\ since[d] <= adminAt[read[d].user]
      BY <2>1 DEF IInv, ReadTyped, ReadDated
    <3> QED
      BY <1>2, <2>1, <3>1 DEF Stays
  <2>2. CASE Reads(d)
    <3>1. PICK u \in Name : Active(u) /\ read'[d].user = u /\ read'[d].row = row[u]
      BY <2>2 DEF Reads
    <3>2. row[u].role = "admin" => adminAt[u] = clock
      BY <3>1 DEF IInv, AdminsDated, Account!IsAdmin, Active
    <3> QED
      BY <1>2, <2>2, <3>1, <3>2 DEF Reads
  <2> QED
    BY <1>1, <2>1, <2>2 DEF ClientStep, Stays, Returns, Signs, Asks
<1>5. ASSUME NEW d \in Client
      PROVE  token'[d] # None /\ token'[d].role = "admin" =>
               /\ adminAt'[token'[d].sub] > 0
               /\ token'[d].exp <= adminAt'[token'[d].sub] + Latency + Expiry
  <2>1. CASE token'[d] = token[d]
    BY <1>2, <1>3, <2>1 DEF IInv, TokensDated
  <2>2. CASE Signs(d)
    <3>1. /\ read[d].user \in Name /\ since[d] > 0 /\ clock <= since[d] + Latency
          /\ read[d].row.role = "admin" => since[d] <= adminAt[read[d].user]
      BY <2>2 DEF Signs, IInv, ReadTyped, ReadDated, InTime
    <3> QED
      BY <1>2, <2>2, <3>1 DEF Signs
  <2> QED
    BY <1>1, <2>1, <2>2 DEF ClientStep, Stays, Returns, Reads, Asks
<1>6. ASSUME NEW d \in Client
      PROVE  pc'[d] = "write" =>
               token'[d] # None /\ token'[d].role = "admin" /\ since'[d] <= token'[d].exp
  BY <1>1 DEF ClientStep, Stays, Returns, Reads, Signs, Asks, Admitted, IInv, WritersAdmitted
<1> QED
  BY <1>4, <1>5, <1>6 DEF ReadDated, TokensDated, WritersAdmitted

LEMMA WritersDated == IInv => WritersWereAdmins
<1> SUFFICES ASSUME IInv, NEW c \in Client, pc[c] = "write"
             PROVE  /\ adminAt[token[c].sub] > 0
                    /\ clock <= adminAt[token[c].sub] + Expiry + 2 * Latency
  BY DEF WritersWereAdmins
<1>1. /\ clock \in Nat /\ since[c] \in Nat /\ Expiry \in Nat /\ Latency \in Nat
      /\ token[c] \in Claims \cup {None} /\ adminAt \in [Name -> Nat]
  BY IdentityAssumption DEF IInv, TypeOK
<1>2. token[c] # None /\ token[c].role = "admin" /\ since[c] <= token[c].exp
  BY DEF IInv, WritersAdmitted
<1>3. token[c].sub \in Name /\ token[c].exp \in Nat
  BY <1>1, <1>2 DEF Claims
<1>4. /\ adminAt[token[c].sub] > 0
      /\ token[c].exp <= adminAt[token[c].sub] + Latency + Expiry
      /\ clock <= since[c] + Latency
  BY <1>2 DEF IInv, TokensDated, InTime
<1> QED
  BY <1>1, <1>2, <1>3, <1>4

--------------------------------------------------------------------------------
(***************************************************************************)
(* What a step does to one connection: nothing, or one of these; time      *)
(* passes only while every comparison is in time.                          *)
(***************************************************************************)
Link == [at : {"new", "password", "verify", "ready"}, user : Name \cup {None},
         row : Account!Row \cup {None}, given : Password \cup {None}, begun : Nat]

Finds(k) ==
  /\ wire[k].user \in Name /\ Active(wire[k].user)
  /\ \E p \in Password :
       wire'[k] = [at |-> "verify", user |-> wire[k].user, row |-> row[wire[k].user],
                   given |-> p, begun |-> clock]
Readies(k) ==
  /\ wire[k].at = "verify" /\ wire[k].given = wire[k].row.pw
  /\ wire'[k].user = wire[k].user /\ wire'[k].given = wire[k].given /\ wire'[k].at = "ready"

LinkStep(k) ==
  /\ wire'[k] \in Link
  /\ \/ wire'[k] = wire[k] /\
          (clock' = clock \/ (wire[k].at = "verify" => clock' <= wire[k].begun + Latency))
     \/ wire'[k].at \in {"new", "password"}
     \/ clock' = clock /\ (Finds(k) \/ Readies(k))

LEMMA OnWire ==
  ASSUME IInv, [Next]_vars
  PROVE  DOMAIN wire' = Connection /\ wire' = [k \in Connection |-> wire'[k]]
           /\ \A k \in Connection : LinkStep(k)
<1>1. wire \in [Connection -> Link]
  BY DEF IInv, WireTyped, Link
<1>2. /\ clock \in Nat /\ Latency \in Nat
      /\ \A u \in Name : row[u] \in Account!Row \cup {None}
  BY IdentityAssumption DEF IInv, TypeOK
<1> DEFINE Goal == DOMAIN wire' = Connection /\ wire' = [k \in Connection |-> wire'[k]]
                     /\ \A k \in Connection : LinkStep(k)
<1>3. ASSUME wire' = wire, clock' = clock PROVE Goal
  BY <1>1, <1>3 DEF LinkStep
<1>4. ASSUME NEW k \in Connection, NEW new \in Link, wire' = [wire EXCEPT ![k] = new],
             clock' = clock,
             new.at \in {"new", "password"} \/ Finds(k) \/ Readies(k)
      PROVE  Goal
  <2>1. wire'[k] = new /\ \A j \in Connection \ {k} : wire'[j] = wire[j]
    BY <1>1, <1>4
  <2>2. \A j \in Connection : LinkStep(j)
    BY <1>1, <1>4, <2>1 DEF LinkStep
  <2>3. DOMAIN wire' = Connection /\ wire' = [j \in Connection |-> wire'[j]]
    BY <1>1, <1>4
  <2> QED
    BY <2>2, <2>3
<1>5. ASSUME clock' = clock, GatewayRestarts PROVE Goal
  <2>1. wire' = [k \in Connection |-> Closed]
    BY <1>5 DEF GatewayRestarts
  <2>2. Closed \in Link /\ Closed.at = "new"
    BY DEF Closed, Link
  <2>3. \A k \in Connection : LinkStep(k)
    BY <2>1, <2>2 DEF LinkStep
  <2> QED
    BY <2>1, <2>3
<1>6. ASSUME NEW k \in Connection, Startup(k), clock' = clock PROVE Goal
  <2>1. PICK u \in Name \cup {None} :
          wire' = [wire EXCEPT ![k].at = "password", ![k].user = u]
    BY <1>6 DEF Startup
  <2> DEFINE new == [wire[k] EXCEPT !.at = "password", !.user = u]
  <2>2. new \in Link /\ new.at = "password"
    BY <1>1, <2>1 DEF Link
  <2>3. wire' = [wire EXCEPT ![k] = new]
    BY <1>1, <2>1
  <2> QED
    BY <1>4, <1>6, <2>2, <2>3
<1>7. ASSUME NEW k \in Connection, PasswordFinds(k), clock' = clock PROVE Goal
  <2>1. PICK u \in Name : u = wire[k].user /\ Active(u)
    BY <1>1, <1>7 DEF PasswordFinds, Link
  <2>2. PICK p \in Password :
          wire' = [wire EXCEPT ![k] = [at |-> "verify", user |-> u, row |-> row[u],
                                       given |-> p, begun |-> clock]]
    BY <1>1, <1>7, <2>1 DEF PasswordFinds
  <2> DEFINE new == [at |-> "verify", user |-> u, row |-> row[u], given |-> p, begun |-> clock]
  <2>3. new \in Link
    BY <1>2 DEF Link
  <2>4. wire'[k] = new
    BY <1>1, <2>2
  <2>5. Finds(k)
    BY <2>1, <2>4 DEF Finds
  <2> QED
    BY <1>4, <1>7, <2>2, <2>3, <2>5
<1>8. ASSUME NEW k \in Connection, Ready(k), clock' = clock PROVE Goal
  <2> DEFINE new == [wire[k] EXCEPT !.at = "ready"]
  <2>1. new \in Link /\ wire' = [wire EXCEPT ![k] = new]
    BY <1>1, <1>8 DEF Ready, Link
  <2>2. wire'[k] = new
    BY <1>1, <2>1
  <2>3. Readies(k)
    BY <1>1, <1>8, <2>2 DEF Ready, Readies, Link
  <2> QED
    BY <1>4, <1>8, <2>1, <2>3
<1>9. ASSUME NEW k \in Connection, Disconnect(k), clock' = clock PROVE Goal
  <2>1. Closed \in Link /\ Closed.at = "new" /\ wire' = [wire EXCEPT ![k] = Closed]
    BY <1>9 DEF Disconnect, Close, Closed, Link
  <2> QED
    BY <1>4, <1>9, <2>1
<1>10. ASSUME Tick, clock' = clock + 1 PROVE Goal
  <2>1. wire' = wire /\ \A k \in Connection : wire[k].at = "verify" => clock < wire[k].begun + Latency
    BY <1>10 DEF Tick, wireVars
  <2>2. \A k \in Connection : wire[k].begun \in Nat
    BY <1>1 DEF Link
  <2>3. \A k \in Connection : wire[k].at = "verify" => clock' <= wire[k].begun + Latency
    BY <1>2, <1>10, <2>1, <2>2
  <2> QED
    BY <1>1, <2>1, <2>3 DEF LinkStep
<1>11. ASSUME UNCHANGED vars PROVE Goal
  BY <1>3, <1>11 DEF vars, wireVars
<1>12. ASSUME NEW c \in Client, Request(c), clock' = clock PROVE Goal
  <2>1. wire' = wire
    BY <1>12 DEF Request, FindUser, Issue, LoginFails, AskWrite, DoWrite, WriteFails, ListPage,
                 wireVars
  <2> QED
    BY <1>3, <1>12, <2>1
<1>13. ASSUME RestRestarts, clock' = clock PROVE Goal
  BY <1>3, <1>13 DEF RestRestarts, wireVars
<1>14. ASSUME NEW k \in Connection, Message(k), clock' = clock PROVE Goal
  BY <1>6, <1>7, <1>8, <1>9, <1>14 DEF Message
<1> HIDE DEF Goal
<1>15. ASSUME Next PROVE Goal
  BY <1>5, <1>10, <1>12, <1>13, <1>14, <1>15 DEF Next
<1>16. Goal
  BY <1>11, <1>15
<1> QED
  BY <1>16 DEF Goal

(* A comparison keeps the row it is made with, whatever becomes of the table. *)
LEMMA WireKept ==
  ASSUME IInv, [Next]_vars
  PROVE  WireTyped' /\ WireDated'
<1>1. /\ wire' = [k \in Connection |-> wire'[k]] /\ \A k \in Connection : LinkStep(k)
  BY OnWire
<1>2. WireTyped'
  BY <1>1 DEF LinkStep, Link, WireTyped
<1>3. /\ clock \in 1..MaxTime /\ MaxTime \in Nat /\ Latency \in Nat
      /\ provenAt \in [Name -> [Password -> 0..MaxTime]]
      /\ provenAt' \in [Name -> [Password -> 0..MaxTime]]
      /\ \A u \in Name, p \in Password : provenAt[u][p] <= provenAt'[u][p]
      /\ \A u \in Name : row[u] \in Account!Row \cup {None}
      /\ \A r \in Account!Row : r.pw \in Password
  BY OnProofs, IdentityAssumption DEF IInv, TypeOK, Account!Row
<1>4. ASSUME NEW k \in Connection, wire'[k].at = "verify"
      PROVE  LET w == wire'[k] IN
               /\ w.user \in Name /\ w.row \in Account!Row /\ w.given \in Password /\ w.begun > 0
               /\ w.begun <= provenAt'[w.user][w.row.pw] /\ clock' <= w.begun + Latency
  <2>1. CASE wire'[k] = wire[k] /\
               (clock' = clock \/ (wire[k].at = "verify" => clock' <= wire[k].begun + Latency))
    <3>1. /\ wire[k].user \in Name /\ wire[k].row \in Account!Row /\ wire[k].given \in Password
          /\ wire[k].begun > 0
          /\ wire[k].begun <= provenAt[wire[k].user][wire[k].row.pw]
          /\ clock <= wire[k].begun + Latency
      BY <1>4, <2>1 DEF IInv, WireDated
    <3>2. wire[k].begun \in Nat
      BY DEF IInv, WireTyped
    <3>3. wire[k].begun <= provenAt'[wire[k].user][wire[k].row.pw]
      <4> DEFINE u == wire[k].user
                 p == wire[k].row.pw
      <4>1. u \in Name /\ p \in Password
        BY <1>3, <3>1
      <4>2. provenAt[u][p] \in Nat /\ provenAt'[u][p] \in Nat /\ provenAt[u][p] <= provenAt'[u][p]
        BY <1>3, <4>1
      <4>3. wire[k].begun <= provenAt[u][p]
        BY <3>1
      <4> QED
        BY <3>2, <4>2, <4>3
    <3> QED
      BY <1>4, <2>1, <3>1, <3>3
  <2>2. CASE clock' = clock /\ Finds(k)
    <3>1. PICK u \in Name : u = wire[k].user /\ Active(u)
      BY <2>2 DEF Finds
    <3>2. row[u] \in Account!Row /\ row[u].pw \in Password
      BY <1>3, <3>1 DEF Active, Account!Active
    <3>3. provenAt[u][row[u].pw] = clock
      BY <3>1, <3>2 DEF IInv, ProofsDated, Proven
    <3>4. clock <= provenAt'[u][row[u].pw]
      BY <1>3, <3>1, <3>2, <3>3
    <3>5. wire'[k].user = u /\ wire'[k].row = row[u] /\ wire'[k].given \in Password
            /\ wire'[k].begun = clock
      BY <2>2, <3>1 DEF Finds
    <3> QED
      BY <1>3, <2>2, <3>2, <3>4, <3>5
  <2> QED
    BY <1>1, <1>4, <2>1, <2>2 DEF LinkStep, Readies
<1>5. WireDated'
  BY <1>4 DEF WireDated
<1> QED
  BY <1>2, <1>5

(* So a session that begins was right for its user a Latency ago at most. *)
LEMMA SessionDated ==
  ASSUME IInv, [Next]_vars
  PROVE  \A k \in Connection : Begins(k) =>
           LET last == provenAt[wire'[k].user][wire'[k].given]
           IN  last > 0 /\ clock <= last + Latency
<1> SUFFICES ASSUME NEW k \in Connection, Begins(k)
             PROVE  LET last == provenAt[wire'[k].user][wire'[k].given]
                    IN  last > 0 /\ clock <= last + Latency
  OBVIOUS
<1>1. LinkStep(k)
  BY OnWire
<1>2. Readies(k)
  <2>1. wire'[k].at = "ready" /\ wire[k].at # "ready"
    BY DEF Begins
  <2>2. wire'[k] # wire[k] /\ wire'[k].at \notin {"new", "password"}
    BY <2>1
  <2>3. ASSUME Finds(k) PROVE FALSE
    <3>1. wire'[k].at = "verify"
      BY <2>3 DEF Finds
    <3> QED
      BY <2>1, <3>1
  <2>4. Finds(k) \/ Readies(k)
    BY <1>1, <2>2 DEF LinkStep
  <2> QED
    BY <2>3, <2>4
<1>3. /\ wire[k].user \in Name /\ wire[k].row \in Account!Row /\ wire[k].given \in Password
      /\ wire[k].begun > 0
      /\ wire[k].begun <= provenAt[wire[k].user][wire[k].row.pw]
      /\ clock <= wire[k].begun + Latency
  BY <1>2 DEF Readies, IInv, WireDated
<1>4. wire[k].begun \in Nat /\ clock \in Nat /\ Latency \in Nat
  BY IdentityAssumption DEF IInv, WireTyped, TypeOK
<1>5. provenAt[wire[k].user][wire[k].given] \in Nat
  BY <1>3, IdentityAssumption DEF IInv, TypeOK
<1>6. /\ provenAt[wire[k].user][wire[k].given] > 0
      /\ clock <= provenAt[wire[k].user][wire[k].given] + Latency
  BY <1>2, <1>3, <1>4, <1>5 DEF Readies
<1> QED
  BY <1>2, <1>6 DEF Readies

--------------------------------------------------------------------------------
(* Offsets are exact while they are below Width. *)
LEMMA OffsetExact ==
  ASSUME NEW off \in Nat, off < Width
  PROVE  off % Width = off
<1>1. Width \in Nat \ {0}
  BY IdentityAssumption
<1> QED
  BY <1>1

LEMMA NextOffset ==
  ASSUME NEW q \in Nat, q > 0
  PROVE  Offset(q) \in Nat /\ Offset(q + 1) = Offset(q) + PerPage
<1>1. PerPage \in Nat
  BY IdentityAssumption
<1>2. q - 1 \in Nat /\ (q + 1) - 1 = (q - 1) + 1
  OBVIOUS
<1>3. ((q - 1) + 1) * PerPage = (q - 1) * PerPage + PerPage
  BY <1>1, <1>2
<1> QED
  BY <1>1, <1>2, <1>3 DEF Offset

LEMMA ListedFinite ==
  ASSUME IInv
  PROVE  /\ Listed \subseteq Name /\ IsFiniteSet(Listed) /\ Cardinality(Listed) \in Nat
         /\ Cardinality(Listed) < Width - PerPage
<1>1. Listed \subseteq Name
  BY DEF Listed
<1>2. IsFiniteSet(Listed) /\ Cardinality(Listed) <= Cardinality(Name)
  BY <1>1, IdentityAssumption, FS_Subset
<1>3. Cardinality(Name) \in Nat /\ Cardinality(Listed) \in Nat
  BY <1>2, IdentityAssumption, FS_CardinalityType
<1> QED
  BY <1>1, <1>2, <1>3, IdentityAssumption

(* Whoever is alone with their date has as many newer ones as their rank, in any ranking. *)
LEMMA RankOfAlone ==
  ASSUME IsFiniteSet(Listed), \A v \in Listed : created[v] \in Nat,
         NEW rank \in Rankings(Listed), NEW u \in Listed, Alone(u)
  PROVE  rank[u] = Cardinality(Newer(u))
<1> DEFINE n == Cardinality(Listed)
<1>1. /\ n \in Nat /\ rank \in Bijection(Listed, 0..n - 1)
      /\ \A v, w \in Listed : created[v] > created[w] => rank[v] < rank[w]
  BY FS_CardinalityType DEF Rankings
<1> HIDE DEF n
<1>2. /\ rank \in [Listed -> 0..n - 1]
      /\ \A v, w \in Listed : rank[v] = rank[w] => v = w
      /\ \A i \in 0..n - 1 : \E v \in Listed : rank[v] = i
  BY <1>1 DEF Bijection, Injection, Surjection, IsInjective
<1>3. Newer(u) = {v \in Listed : rank[v] < rank[u]}
  <2>1. ASSUME NEW v \in Listed PROVE created[v] > created[u] <=> rank[v] < rank[u]
    <3>1. rank[v] \in Int /\ rank[u] \in Int /\ created[v] \in Nat /\ created[u] \in Nat
      BY <1>1, <1>2
    <3>2. CASE v = u
      BY <3>1, <3>2
    <3>3. CASE v # u
      <4>1. created[v] # created[u]
        BY <3>3 DEF Alone
      <4> QED
        BY <1>1, <3>1, <4>1
    <3> QED
      BY <3>2, <3>3
  <2> QED
    BY <2>1 DEF Newer
<1> DEFINE front == [v \in Newer(u) |-> rank[v]]
<1>4. front \in Bijection(Newer(u), 0..rank[u] - 1)
  <2>1. rank[u] \in 0..n - 1
    BY <1>2
  <2>2. front \in [Newer(u) -> 0..rank[u] - 1]
    BY <1>1, <1>2, <1>3
  <2>3. \A v, w \in Newer(u) : front[v] = front[w] => v = w
    BY <1>2, <1>3
  <2>4. ASSUME NEW i \in 0..rank[u] - 1 PROVE \E v \in Newer(u) : front[v] = i
    <3>1. i \in 0..n - 1 /\ i < rank[u]
      BY <1>1, <2>1
    <3>2. PICK v \in Listed : rank[v] = i
      BY <1>2, <3>1
    <3>3. v \in Newer(u)
      BY <1>3, <3>1, <3>2
    <3> QED
      BY <3>2, <3>3
  <2> HIDE DEF front
  <2> QED
    BY <2>2, <2>3, <2>4, Fun_IsBij
<1>5. rank[u] \in Nat
  BY <1>1, <1>2
<1>6. IsFiniteSet(0..rank[u] - 1) /\ Cardinality(0..rank[u] - 1) = rank[u]
  <2>1. rank[u] - 1 \in Int /\ 0 \in Int
    BY <1>5
  <2>2. /\ IsFiniteSet(0..rank[u] - 1)
        /\ Cardinality(0..rank[u] - 1) = IF 0 > rank[u] - 1 THEN 0 ELSE (rank[u] - 1) - 0 + 1
    BY <2>1, FS_Interval
  <2> QED
    BY <1>5, <2>2
<1>7. IsFiniteSet(Newer(u))
  BY FS_Subset DEF Newer
<1>8. Cardinality(0..rank[u] - 1) = Cardinality(Newer(u))
  BY <1>4, <1>7, FS_Bijection DEF ExistsBijection
<1> QED
  BY <1>6, <1>8

(* What a walk gathers while others write: newer ones may come, and none goes. *)
LEMMA WalkWaits ==
  ASSUME IInv, [Next]_vars, UNCHANGED walk
  PROVE  WalkTyped' /\ WalkDue' /\ DueListed' /\ WalkSeesEveryone'
<1>1. WalkTyped' /\ WalkTyped
  BY DEF IInv, WalkTyped
<1>2. /\ Listed \subseteq Listed' /\ \A v \in Listed : created'[v] = created[v]
      /\ Listed' \subseteq Name
  BY TableTyped DEF Listed
<1>3. DueListed' /\ \A c \in Client : walk[c].due \subseteq Listed
  BY <1>2 DEF IInv, DueListed
<1>4. IsFiniteSet(Listed') /\ Cardinality(Listed) <= Cardinality(Listed')
      /\ Cardinality(Listed) \in Nat /\ Cardinality(Listed') \in Nat
  BY <1>2, IdentityAssumption, FS_Subset, FS_CardinalityType
<1>5. ASSUME NEW u \in Listed, Alone(u)'
      PROVE  /\ Alone(u) /\ Cardinality(Newer(u)) <= Cardinality(Newer(u)')
             /\ Cardinality(Newer(u)) \in Nat /\ Cardinality(Newer(u)') \in Nat
  <2>1. Alone(u)
    BY <1>2, <1>5 DEF Alone
  <2>2. Newer(u) \subseteq Newer(u)' /\ Newer(u)' \subseteq Listed'
    BY <1>2 DEF Newer
  <2>3. IsFiniteSet(Newer(u)')
    BY <1>4, <2>2, FS_Subset
  <2> QED
    BY <2>1, <2>2, <2>3, FS_Subset, FS_CardinalityType
<1>6. ASSUME NEW c \in Client, walk[c].page > 1
      PROVE  /\ Offset(walk[c].page) < Cardinality(Listed') + PerPage
             /\ \A u \in walk[c].due \ walk[c].seen :
                  Alone(u)' => Cardinality(Newer(u)') >= Offset(walk[c].page)
  <2>1. /\ Offset(walk[c].page) < Cardinality(Listed) + PerPage
        /\ \A u \in walk[c].due \ walk[c].seen :
             Alone(u) => Cardinality(Newer(u)) >= Offset(walk[c].page)
    BY <1>6 DEF IInv, WalkDue
  <2>2. PICK off \in Nat : off = Offset(walk[c].page)
    BY <1>1, <1>6, NextOffset DEF WalkTyped
  <2>3. PerPage \in Nat
    BY IdentityAssumption
  <2>4. off < Cardinality(Listed') + PerPage
    BY <1>4, <2>1, <2>2, <2>3
  <2>5. ASSUME NEW u \in walk[c].due \ walk[c].seen, Alone(u)'
        PROVE  Cardinality(Newer(u)') >= off
    <3>1. u \in Listed
      BY <1>3
    <3>2. Alone(u) /\ Cardinality(Newer(u)) <= Cardinality(Newer(u)')
          /\ Cardinality(Newer(u)) \in Nat /\ Cardinality(Newer(u)') \in Nat
      BY <1>5, <2>5, <3>1
    <3>3. Cardinality(Newer(u)) >= off
      BY <2>1, <2>2, <2>5, <3>2
    <3> QED
      BY <2>2, <3>2, <3>3
  <2> QED
    BY <2>2, <2>4, <2>5
<1>7. WalkDue'
  BY <1>6 DEF WalkDue
<1>8. WalkSeesEveryone'
  BY <1>2, <1>3 DEF IInv, WalkSeesEveryone
<1> QED
  BY <1>1, <1>3, <1>7, <1>8

(* A page is read. *)
LEMMA WalkReads ==
  ASSUME IInv, NEW c \in Client, ListPage(c)
  PROVE  WalkTyped' /\ WalkDue' /\ DueListed' /\ WalkSeesEveryone'
<1> DEFINE w   == walk[c]
           q   == w.page
           due == IF q = 1 THEN Listed ELSE w.due
           n   == Cardinality(Listed)
<1>1. /\ WalkTyped /\ w \in [page : Nat, due : SUBSET Name, seen : SUBSET Name] /\ q > 0
      /\ due \subseteq Listed /\ row' = row /\ created' = created
      /\ created \in [Name -> 0..MaxTime] /\ MaxTime \in Nat
  BY IdentityAssumption DEF IInv, TypeOK, WalkTyped, DueListed, ListPage, tableVars
<1>2. PICK off \in Nat : off = Offset(q) /\ Offset(q + 1) = off + PerPage
  BY <1>1, NextOffset
<1>3. PerPage \in Nat \ {0} /\ Width \in Nat
  BY IdentityAssumption
<1>4. Listed \subseteq Name /\ IsFiniteSet(Listed) /\ n \in Nat /\ n < Width - PerPage
  BY ListedFinite
<1>5. /\ off < n + PerPage
      /\ \A u \in due \ w.seen : Alone(u) => Cardinality(Newer(u)) >= off
  <2>1. CASE q > 1
    BY <1>1, <1>2, <2>1 DEF IInv, WalkDue
  <2>2. CASE q = 1
    <3>1. off = 0
      BY <1>2, <1>3, <2>2 DEF Offset
    <3>2. ASSUME NEW u \in due PROVE Cardinality(Newer(u)) \in Nat
      <4>1. IsFiniteSet(Newer(u))
        BY <1>4, FS_Subset DEF Newer
      <4> QED
        BY <4>1, FS_CardinalityType
    <3> QED
      BY <1>3, <1>4, <3>1, <3>2
  <2> QED
    BY <1>1, <2>1, <2>2
<1>6. off % Width = off
  <2>1. off < Width
    BY <1>3, <1>4, <1>5
  <2> QED
    BY <2>1, OffsetExact
<1>7. PICK rank \in Rankings(Listed), rows \in SUBSET Listed :
        /\ rows = {u \in Listed : off <= rank[u] /\ rank[u] < off + PerPage}
        /\ walk' = [walk EXCEPT ![c] = [page |-> IF rows = {} THEN 0 ELSE q + 1,
                                        due |-> due, seen |-> w.seen \cup rows]]
  <2>1. PICK rows \in List(q) :
          walk' = [walk EXCEPT ![c] = [page |-> IF rows = {} THEN 0 ELSE q + 1,
                                        due |-> due, seen |-> w.seen \cup rows]]
    BY DEF ListPage
  <2>2. PICK rank \in Rankings(Listed) :
          rows = {u \in Listed : off <= rank[u] /\ rank[u] < off + PerPage}
    BY <1>2, <1>6, <2>1 DEF List, PagesOf, Offset
  <2> QED
    BY <2>1, <2>2
<1>8. /\ rank \in [Listed -> 0..n - 1]
      /\ \A i \in 0..n - 1 : \E u \in Listed : rank[u] = i
  BY <1>7 DEF Rankings, Bijection, Surjection, Injection
<1>9. ASSUME NEW u \in due \ w.seen, Alone(u)
      PROVE  /\ rank[u] = Cardinality(Newer(u)) /\ rank[u] >= off
             /\ rank[u] \in 0..n - 1
  <2>1. \A v \in Listed : created[v] \in Nat
    BY <1>1, <1>4
  <2>2. rank[u] = Cardinality(Newer(u))
    BY <1>1, <1>4, <1>7, <1>9, <2>1, RankOfAlone
  <2> QED
    BY <1>1, <1>5, <1>8, <1>9, <2>2
<1> DEFINE next == [page |-> IF rows = {} THEN 0 ELSE q + 1,
                    due |-> due, seen |-> w.seen \cup rows]
<1>10. next \in [page : Nat, due : SUBSET Name, seen : SUBSET Name]
  BY <1>1, <1>4, <1>7
<1>11. ASSUME next.page = 0, NEW u \in due \ next.seen, Alone(u)
       PROVE  FALSE
  <2>1. rows = {} /\ u \in due \ w.seen
    BY <1>1, <1>11
  <2>2. off \in 0..n - 1
    BY <1>4, <1>9, <1>11, <2>1
  <2>3. PICK v \in Listed : rank[v] = off
    BY <1>8, <2>2
  <2>4. v \in rows
    BY <1>3, <1>7, <2>3
  <2> QED
    BY <2>1, <2>4
<1>12. ASSUME next.page > 1
       PROVE  /\ Offset(next.page) < n + PerPage
              /\ \A u \in due \ next.seen :
                   Alone(u) => Cardinality(Newer(u)) >= Offset(next.page)
  <2>1. rows # {} /\ next.page = q + 1 /\ Offset(next.page) = off + PerPage
    BY <1>2, <1>12
  <2>2. PICK v \in rows : TRUE
    BY <2>1
  <2>3. v \in Listed /\ off <= rank[v] /\ rank[v] \in 0..n - 1
    BY <1>7, <1>8, <2>2
  <2>4. off < n
    BY <1>4, <2>3
  <2>5. ASSUME NEW u \in due \ next.seen, Alone(u)
        PROVE  Cardinality(Newer(u)) >= off + PerPage
    <3>1. u \in due \ w.seen /\ u \in Listed /\ u \notin rows
      BY <1>1, <2>5
    <3>2. rank[u] = Cardinality(Newer(u)) /\ rank[u] >= off /\ rank[u] \in 0..n - 1
      BY <1>9, <2>5, <3>1
    <3>3. ~(rank[u] < off + PerPage)
      BY <1>7, <3>1, <3>2
    <3> QED
      BY <1>3, <1>4, <3>2, <3>3
  <2> QED
    BY <1>3, <1>4, <2>1, <2>4, <2>5
<1>13. walk' = [walk EXCEPT ![c] = next] /\ next.due = due
  BY <1>7
<1> HIDE DEF next, due
<1>14. walk'[c] = next /\ \A d \in Client \ {c} : walk'[d] = walk[d]
  BY <1>1, <1>13 DEF WalkTyped
<1>15. WalkTyped'
  BY <1>1, <1>10, <1>13 DEF WalkTyped
<1>16. /\ Listed' = Listed
       /\ \A u : (Alone(u)' <=> Alone(u)) /\ Newer(u)' = Newer(u)
  BY <1>1 DEF Listed, Alone, Newer
<1>17. DueListed'
  BY <1>1, <1>13, <1>14, <1>16 DEF IInv, DueListed
<1>18. WalkSeesEveryone'
  <2> SUFFICES ASSUME NEW d \in Client, walk'[d].page = 0, NEW u \in walk'[d].due \ walk'[d].seen
               PROVE  ~Alone(u)
    BY <1>1, <1>16 DEF WalkSeesEveryone, Alone
  <2>1. CASE d = c
    BY <1>11, <1>13, <1>14, <2>1
  <2>2. CASE d # c
    BY <1>14, <2>2 DEF IInv, WalkSeesEveryone, Alone
  <2> QED
    BY <2>1, <2>2
<1>19. WalkDue'
  BY <1>12, <1>13, <1>14, <1>16 DEF IInv, WalkDue
<1> QED
  BY <1>15, <1>17, <1>18, <1>19

LEMMA WalkKept ==
  ASSUME IInv, [Next]_vars
  PROVE  WalkTyped' /\ WalkDue' /\ DueListed' /\ WalkSeesEveryone'
<1>1. CASE UNCHANGED vars \/ Tick \/ RestRestarts \/ GatewayRestarts
  BY <1>1, WalkWaits DEF vars, Tick, RestRestarts, GatewayRestarts, restVars
<1>2. CASE \E k \in Connection : Message(k)
  BY <1>2, WalkWaits DEF Message, Startup, PasswordFinds, Ready, Disconnect, restVars
<1>3. CASE \E c \in Client : ListPage(c)
  BY <1>3, WalkReads
<1>4. CASE \E c \in Client : \/ FindUser(c) \/ Issue(c) \/ LoginFails(c)
                             \/ AskWrite(c) \/ DoWrite(c) \/ WriteFails(c)
  BY <1>4, WalkWaits DEF FindUser, Issue, LoginFails, AskWrite, DoWrite, WriteFails
<1> QED
  BY <1>1, <1>2, <1>3, <1>4 DEF Next, Request

--------------------------------------------------------------------------------
LEMMA InitIInv == Init => IInv
<1> SUFFICES ASSUME Init PROVE IInv
  OBVIOUS
<1> USE IdentityAssumption DEF Init
<1>1. /\ NewRow("admin", SeedPassword) \in Account!Row
      /\ NewRow("admin", SeedPassword) # None
  <2>1. NewRow("admin", SeedPassword) \in Account!Row
    BY DEF NewRow, Account!Row, Role
  <2>2. None \notin Account!Row
    BY DEF Account!Row
  <2> QED
    BY <2>1, <2>2
<1>2. TypeOK
  <2>1. row \in [Name -> Account!Row \cup {None}]
    BY <1>1
  <2>2. Listed = {Admin} /\ created \in [Name -> 0..MaxTime]
    BY <1>1 DEF Listed
  <2>3. \A u \in Name : u \in Listed <=> created[u] > 0
    BY <2>2
  <2>4. provenAt \in [Name -> [Password -> 0..MaxTime]]
    OBVIOUS
  <2> QED
    BY <2>1, <2>2, <2>3, <2>4 DEF TypeOK
<1>3. AdminsDated
  BY DEF AdminsDated, Account!IsAdmin, Account!Active
<1>4. ReadTyped /\ WriteTyped /\ InTime /\ ReadDated /\ TokensDated /\ WritersAdmitted
  BY DEF ReadTyped, WriteTyped, InTime, ReadDated, TokensDated, WritersAdmitted
<1>5. AdminListed
  BY <1>1 DEF AdminListed
<1>6. WireTyped /\ WireDated
  BY DEF WireTyped, WireDated, Closed
<1>8. ProofsDated
  <2>1. clock = 1 /\ \A u \in Name, p \in Password :
          provenAt[u][p] = IF u = Admin /\ p = SeedPassword THEN 1 ELSE 0
    OBVIOUS
  <2>2. \A u \in Name, p \in Password : Proven(u, p) => u = Admin /\ p = SeedPassword
    BY DEF Proven, Active, Account!Active, NewRow
  <2> QED
    BY <2>1, <2>2 DEF ProofsDated
<1>7. WalkTyped /\ WalkDue /\ DueListed /\ WalkSeesEveryone
  BY DEF WalkTyped, WalkDue, DueListed, WalkSeesEveryone, NoWalk
<1> QED
  BY <1>2, <1>3, <1>4, <1>5, <1>6, <1>7, <1>8 DEF IInv

LEMMA NextIInv == IInv /\ [Next]_vars => IInv'
<1> SUFFICES ASSUME IInv, [Next]_vars PROVE IInv'
  OBVIOUS
<1>1. TypeOK'
  BY TableTyped, OnClock, OnProofs, ClientsStayTyped DEF TypeOK
<1> QED
  BY <1>1, OnClock, OnProofs, AdminStays, ClientsStayTyped, DatesKept, WireKept, WalkKept
     DEF IInv

LEMMA Invariance == Spec => []IInv
BY InitIInv, NextIInv, PTL DEF Spec

(* Identity keeps its types: who has a row has a date, and dates are in bounds. *)
THEOREM TypeCorrect == Spec => []TypeOK
<1>1. IInv => TypeOK
  BY DEF IInv
<1> QED
  BY <1>1, Invariance, PTL

(***************************************************************************)
(* However logins, demotions and restarts interleave, whoever writes was   *)
(* an active admin an Expiry and two Latencies ago at most.                *)
(***************************************************************************)
THEOREM AuthorityBounded == Spec => []WritersWereAdmins
BY Invariance, WritersDated, PTL

(***************************************************************************)
(* A wire session begins only for a user who was active with the password  *)
(* given a Latency ago at most, whatever happened to the row since.        *)
(***************************************************************************)
THEOREM SessionCorrect == Spec => SessionsVerified
<1>1. IInv /\ [Next]_vars =>
        [\A k \in Connection : Begins(k) =>
           LET last == provenAt[wire'[k].user][wire'[k].given]
           IN  last > 0 /\ clock <= last + Latency]_vars
  BY SessionDated
<1> QED
  BY <1>1, Invariance, PTL DEF Spec, SessionsVerified

(* A walk by pages of any size misses nobody whose date is their own, whoever is created. *)
THEOREM WalkComplete == Spec => []WalkSeesEveryone
<1>1. IInv => WalkSeesEveryone
  BY DEF IInv
<1> QED
  BY <1>1, Invariance, PTL

--------------------------------------------------------------------------------
(***************************************************************************)
(* The users table with its logins, tokens and restarts implements         *)
(* Accounts: a write is a change by somebody who was an admin, every other *)
(* step lets time pass or is a stutter.                                    *)
(***************************************************************************)
THEOREM Refinement == Spec => ImplementsAccounts
<1>1. Init => Account!Init
  BY IdentityAssumption DEF Init, Account!Init, NewRow
<1>2. IInv /\ [Next]_vars => [Account!Next]_<<clock, row, adminAt>>
  <2> SUFFICES ASSUME IInv, [Next]_vars PROVE [Account!Next]_<<clock, row, adminAt>>
    OBVIOUS
  <2>1. CASE UNCHANGED vars
    BY <2>1 DEF vars, tableVars
  <2>2. CASE Next
    <3>1. Account!Note
      BY <2>2 DEF Next
    <3>2. clock' = clock \/ (Tick /\ clock' = clock + 1)
      BY <2>2 DEF Next
    <3>3. CASE Tick /\ clock' = clock + 1
      BY <3>1, <3>3 DEF Tick, tableVars, Account!Next, Account!Pass
    <3>4. CASE clock' = clock /\ UNCHANGED tableVars
      <4>1. row' = row
        BY <3>4 DEF tableVars
      <4>2. adminAt' = [u \in Name |-> IF Account!IsAdmin(u)' THEN clock' ELSE adminAt[u]]
        BY <3>1 DEF Account!Note
      <4>3. adminAt \in [Name -> 0..MaxTime]
        BY DEF IInv, TypeOK
      <4>4. \A u \in Name : Account!IsAdmin(u)' => adminAt[u] = clock
        BY <4>1 DEF IInv, AdminsDated, Account!IsAdmin, Account!Active
      <4>5. adminAt' = adminAt
        BY <3>4, <4>2, <4>3, <4>4
      <4> QED
        BY <3>4, <4>1, <4>5
    <3>5. ASSUME clock' = clock, NEW c \in Client, pc[c] = "write",
                 NEW u \in Name, NEW r \in Account!Row, Opened(u, r) \/ Changed(u, r)
          PROVE  Account!Change
      <4>1. /\ token[c].sub \in Name /\ adminAt[token[c].sub] > 0
            /\ clock <= adminAt[token[c].sub] + Expiry + 2 * Latency
        BY <3>5, WritersDated DEF IInv, TypeOK, WritersAdmitted, WritersWereAdmins, Claims
      <4>2. /\ Expiry \in Nat /\ Latency \in Nat /\ adminAt[token[c].sub] \in Nat
        BY <4>1, IdentityAssumption DEF IInv, TypeOK
      <4>3. \E a \in Name : adminAt[a] > 0 /\ clock <= adminAt[a] + (Expiry + 2 * Latency)
        BY <4>1, <4>2
      <4>4. ~Account!Retired(u) /\ (r.active \/ Account!Active(u)) /\ row' = [row EXCEPT ![u] = r]
        BY <3>5 DEF Opened, Changed, Account!Retired, Account!Active
      <4> QED
        BY <3>1, <3>5, <4>3, <4>4 DEF Account!Change
    <3>6. TableStep
      BY OnTable
    <3> QED
      BY <3>2, <3>3, <3>4, <3>5, <3>6 DEF TableStep, Account!Next
  <2> QED
    BY <2>1, <2>2
<1> QED
  BY <1>1, <1>2, Invariance, PTL DEF Spec, ImplementsAccounts, Account!Spec
================================================================================
