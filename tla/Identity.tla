-------------------------------- MODULE Identity -------------------------------
(***************************************************************************)
(* may_auth with the two services that use it: the users table             *)
(* (repository.rs, seed.rs), login and user administration over REST       *)
(* (routes/auth.rs, routes/users.rs, middleware/auth.rs, token.rs), and    *)
(* the startup of wire connections (may_pgwire/src/handler.rs).            *)
(*                                                                         *)
(* A login reads a row, verifies the password in a blocking task and only  *)
(* then signs what it read; a write is authorised by the token when the    *)
(* request arrives and reaches the table later.  In between others change  *)
(* the table.  A refused request leaves no trace and is not a step, unless *)
(* it is refused after a step of its own.                                  *)
(*                                                                         *)
(* Users are named and never deleted, so a name stands for its id.  A      *)
(* password stands for its hash.  created_at is the time at which the      *)
(* inserting statement began, which is not when its row appears: rows may  *)
(* appear out of order, and may share a created_at.                        *)
(***************************************************************************)
EXTENDS Naturals, FiniteSets, Functions

CONSTANTS
  Name, Admin,   \* users, and the name ensure_admin seeds
  Password,
  SeedPassword,  \* MAY_ADMIN_PASSWORD
  Usable,        \* passwords that are not empty and not too long
  Client,        \* REST clients, a request at a time each
  Connection,    \* wire connections
  Parties,       \* the sets of clients and connections a run puts together
  Wanted,        \* Wanted[c]: the writes client c asks for
  Logins,        \* Logins[c]: the users client c logs in as
  Reader,        \* the clients that read the list
  Expiry,        \* MAY_JWT_EXPIRY_SECS
  Latency,       \* the longest a request is taken to last; the code sets no limit
  MaxTime,       \* bound on the clock
  PerPage,       \* per_page of a client that reads the whole list
  Width,         \* the product of page and per_page is computed modulo Width (2^32)
  None

Role == {"admin", "viewer"}

ASSUME IdentityAssumption ==
  /\ Admin \in Name /\ IsFiniteSet(Name)
  /\ SeedPassword \in Password /\ Usable \subseteq Password
  /\ Expiry \in Nat /\ Latency \in Nat /\ MaxTime \in Nat \ {0}
  /\ PerPage \in Nat \ {0}
  /\ Width \in Nat /\ Cardinality(Name) + PerPage < Width
  /\ None \notin Name /\ None \notin [role : Role, active : BOOLEAN, pw : Password]
  /\ Parties \subseteq SUBSET (Client \cup Connection) /\ Reader \subseteq Client

VARIABLES
  clock, row, adminAt,
  created, \* created[u]: the created_at of u's row, 0 without one
  provenAt,\* provenAt[u][p]: when u was last active with password p, 0 for never
  pc, since,  \* what a client waits for, and since when
  token,   \* token[c]: the claims of the token client c holds, or None
  read,    \* read[c]: the user login c has found, its row and the password given
  write,   \* write[c]: the write on its way
  walk,    \* walk[c]: the next page, and the users due and seen, of a walk through the list
  wire,    \* wire[k]: state of a connection, its user, the row and password it compares
  usesDb,  \* the gateway reached the identity database when it started
  party    \* the clients and connections of this behaviour

tableVars == <<row, created>>
restVars  == <<pc, since, token, read, write, walk>>
wireVars  == <<wire, usesDb>>
vars      == <<clock, adminAt, provenAt, tableVars, restVars, wireVars, party>>

Account == INSTANCE Accounts WITH
  Absent <- None,
  Lag    <- Expiry + 2 * Latency

Active(u)   == Account!Active(u)
NewRow(r, p) == [role |-> r, active |-> TRUE, pw |-> p]

--------------------------------------------------------------------------------
(* repository.rs and seed.rs: one statement each. *)

Listed == {u \in Name : row[u] # None}

(* Mutant: no DEFAULT for created_at. *)
CreateUndated(u, p, r, asked) ==
  /\ row[u] = None
  /\ row'     = [row EXCEPT ![u] = NewRow(r, p)]
  /\ created' = [created EXCEPT ![u] = 0]

(* INSERT, run since it was asked for: the name is UNIQUE, deactivated users included. *)
Create(u, p, r, asked) ==
  /\ row[u] = None
  /\ row' = [row EXCEPT ![u] = NewRow(r, p)]
  /\ \E now \in asked..clock : created' = [created EXCEPT ![u] = now]

(* UPDATE .. COALESCE .. WHERE is_active: None leaves a column alone. *)
Update(u, r, p) ==
  /\ Active(u)
  /\ row' = [row EXCEPT ![u].role = IF r = None THEN @ ELSE r,
                        ![u].pw   = IF p = None THEN @ ELSE p]
  /\ UNCHANGED created

Deactivate(u) ==
  /\ Active(u)
  /\ row' = [row EXCEPT ![u].active = FALSE]
  /\ UNCHANGED created

(* Mutant: ON CONFLICT DO UPDATE. *)
SeedOver ==
  /\ row' = [row EXCEPT ![Admin] = NewRow("admin", SeedPassword)]
  /\ UNCHANGED created

(* ensure_admin: ON CONFLICT (username) DO NOTHING. *)
EnsureAdmin ==
  IF row[Admin] = None THEN Create(Admin, SeedPassword, "admin", clock) ELSE UNCHANGED tableVars

(***************************************************************************)
(* A page of the rows of some users, counted from 1; LIMIT and OFFSET.     *)
(* The rows are ranked from the newest, rows of one created_at as it comes *)
(* out each time.                                                          *)
(***************************************************************************)
Rankings(users) ==
  {rank \in Bijection(users, 0..Cardinality(users) - 1) :
     \A u, v \in users : created[u] > created[v] => rank[u] < rank[v]}

PagesOf(users, page) ==
  LET offset == ((page - 1) * PerPage) % Width
  IN  {{u \in users : offset <= rank[u] /\ rank[u] < offset + PerPage} :
         rank \in Rankings(users)}

(* Mutant: the list leaves out deactivated users. *)
ListActive(page) == PagesOf({u \in Listed : Active(u)}, page)

(* ORDER BY created_at DESC LIMIT .. OFFSET .. *)
List(page) == PagesOf(Listed, page)

--------------------------------------------------------------------------------
(* routes/auth.rs: login. *)

Wait(c, at) ==
  /\ pc'    = [pc EXCEPT ![c] = at]
  /\ since' = [since EXCEPT ![c] = clock]
Return(c) ==
  /\ pc'    = [pc EXCEPT ![c] = "idle"]
  /\ since' = [since EXCEPT ![c] = 0]
  /\ read'  = [read EXCEPT ![c] = None]
  /\ write' = [write EXCEPT ![c] = None]

(* Lengths, and the user, if active; any error so far is a 401. *)
FindUser(c) ==
  /\ pc[c] = "idle"
  /\ \E u \in Logins[c], p \in Usable :
       /\ Active(u)
       /\ read' = [read EXCEPT ![c] = [user |-> u, row |-> row[u], given |-> p]]
  /\ Wait(c, "verify")
  /\ UNCHANGED <<tableVars, token, write, walk, wireVars>>

(* Mutant: a token that does not expire. *)
IssueUndated(c) ==
  /\ pc[c] = "verify" /\ read[c].given = read[c].row.pw
  /\ token' = [token EXCEPT ![c] =
                 [sub |-> read[c].user, role |-> read[c].row.role, exp |-> MaxTime]]
  /\ Return(c)
  /\ UNCHANGED <<tableVars, walk, wireVars>>

(* The password is right: issue signs the role that was read. *)
Issue(c) ==
  /\ pc[c] = "verify" /\ read[c].given = read[c].row.pw
  /\ token' = [token EXCEPT ![c] =
                 [sub |-> read[c].user, role |-> read[c].row.role, exp |-> clock + Expiry]]
  /\ Return(c)
  /\ UNCHANGED <<tableVars, walk, wireVars>>

(* It is wrong, or the task fails. *)
LoginFails(c) ==
  /\ pc[c] = "verify"
  /\ Return(c)
  /\ UNCHANGED <<tableVars, token, walk, wireVars>>

--------------------------------------------------------------------------------
(* middleware/auth.rs and routes/users.rs. *)

(* AuthClaims, TokenService::verify without leeway, and the role in the claims. *)
Admitted(c) == token[c] # None /\ clock <= token[c].exp /\ token[c].role = "admin"

AllWrites ==
  [op : {"create"}, user : Name, role : Role, pw : Usable]
    \cup [op : {"update"}, user : Name, role : Role \cup {None}, pw : Password \cup {None}]
    \cup [op : {"deactivate"}, user : Name, role : {None}, pw : {None}]

ASSUME WantedAssumption ==
  Wanted \in [Client -> SUBSET AllWrites] /\ Logins \in [Client -> SUBSET Name]

(* The request is admitted; the password, if any, goes to be hashed. *)
AskWrite(c) ==
  /\ pc[c] = "idle" /\ Admitted(c)
  /\ \E w \in Wanted[c] : write' = [write EXCEPT ![c] = w]
  /\ Wait(c, "write")
  /\ UNCHANGED <<tableVars, token, read, walk, wireVars>>

(* The statement runs. *)
DoWrite(c) ==
  /\ pc[c] = "write"
  /\ LET w == write[c] IN
       \/ w.op = "create" /\ Create(w.user, w.pw, w.role, since[c])
       \/ w.op = "update" /\ Update(w.user, w.role, w.pw)
       \/ w.op = "deactivate" /\ Deactivate(w.user)
  /\ Return(c)
  /\ UNCHANGED <<token, walk, wireVars>>

(* No such active user (404), a name that is taken, a failed hash or statement (500). *)
WriteFails(c) ==
  /\ pc[c] = "write"
  /\ Return(c)
  /\ UNCHANGED <<tableVars, token, walk, wireVars>>

(***************************************************************************)
(* list_users, asked by a client that reads page after page until one is   *)
(* empty.                                                                  *)
(***************************************************************************)
NoWalk == [page |-> 1, due |-> {}, seen |-> {}]

ListPage(c) ==
  /\ pc[c] = "idle" /\ Admitted(c)
  /\ \E rows \in List(walk[c].page) :
       LET w   == walk[c]
           due == IF w.page = 1 THEN Listed ELSE w.due
       IN  walk' = [walk EXCEPT ![c] = [page |-> IF rows = {} THEN 0 ELSE w.page + 1,
                                        due  |-> due,
                                        seen |-> w.seen \cup rows]]
  /\ walk[c].page > 0
  /\ UNCHANGED <<tableVars, pc, since, token, read, write, wireVars>>

--------------------------------------------------------------------------------
(* may_pgwire/src/handler.rs: on_startup, one message after another. *)

Closed == [at |-> "new", user |-> None, row |-> None, given |-> None, begun |-> 0]
Close(k) == wire' = [wire EXCEPT ![k] = Closed]

(* Startup: the parameters are kept, the password is asked for. *)
Startup(k) ==
  /\ wire[k].at = "new"
  /\ \E u \in Name \cup {None} :
       wire' = [wire EXCEPT ![k].at = "password", ![k].user = u]
  /\ UNCHANGED <<tableVars, restVars, usesDb>>

(* Mutant: deactivated users are found too. *)
PasswordFindsRetired(k) ==
  /\ wire[k].at = "password" /\ usesDb
  /\ wire[k].user # None /\ row[wire[k].user] # None
  /\ \E p \in Password :
       wire' = [wire EXCEPT ![k] = [at |-> "verify", user |-> @.user, row |-> row[@.user],
                                    given |-> p, begun |-> clock]]
  /\ UNCHANGED <<tableVars, restVars, usesDb>>

(* Password: find_by_username, which DenyAllRepository refuses. *)
PasswordFinds(k) ==
  /\ wire[k].at = "password" /\ usesDb
  /\ wire[k].user # None /\ Active(wire[k].user)
  /\ \E p \in Password :
       wire' = [wire EXCEPT ![k] = [at |-> "verify", user |-> @.user, row |-> row[@.user],
                                    given |-> p, begun |-> clock]]
  /\ UNCHANGED <<tableVars, restVars, usesDb>>

(* finish_authentication. *)
Ready(k) ==
  /\ wire[k].at = "verify" /\ wire[k].given = wire[k].row.pw
  /\ wire' = [wire EXCEPT ![k].at = "ready"]
  /\ UNCHANGED <<tableVars, restVars, usesDb>>

(* FATAL 28P01 at any point, or the client goes. *)
Disconnect(k) ==
  /\ wire[k].at # "new"
  /\ Close(k)
  /\ UNCHANGED <<tableVars, restVars, usesDb>>

--------------------------------------------------------------------------------
(***************************************************************************)
(* may_rest/src/main.rs: requests are lost, and the admin is seeded before *)
(* the first one is served.  Clients keep their tokens, the key is the     *)
(* same.                                                                   *)
(***************************************************************************)
RestRestarts ==
  /\ pc'    = [c \in Client |-> "idle"]
  /\ since' = [c \in Client |-> 0]
  /\ read'  = [c \in Client |-> None]
  /\ write' = [c \in Client |-> None]
  /\ EnsureAdmin
  /\ UNCHANGED <<token, walk, wireVars>>

(* may_pgwire/src/server.rs: the repository is chosen once. *)
GatewayRestarts ==
  /\ Connection \cap party # {}
  /\ wire' = [k \in Connection |-> Closed]
  /\ usesDb' \in BOOLEAN
  /\ UNCHANGED <<tableVars, restVars>>

Tick ==
  /\ clock < MaxTime
  /\ \A c \in Client : pc[c] # "idle" => clock < since[c] + Latency
  /\ \A k \in Connection : wire[k].at = "verify" => clock < wire[k].begun + Latency
  /\ UNCHANGED <<tableVars, restVars, wireVars>>

--------------------------------------------------------------------------------
Init ==
  /\ clock   = 1
  /\ row     = [u \in Name |-> IF u = Admin THEN NewRow("admin", SeedPassword) ELSE None]
  /\ adminAt = [u \in Name |-> IF u = Admin THEN 1 ELSE 0]
  /\ created = [u \in Name |-> IF u = Admin THEN 1 ELSE 0]
  /\ provenAt = [u \in Name |-> [p \in Password |->
                   IF u = Admin /\ p = SeedPassword THEN 1 ELSE 0]]
  /\ pc      = [c \in Client |-> "idle"]
  /\ since   = [c \in Client |-> 0]
  /\ token   = [c \in Client |-> None]
  /\ read    = [c \in Client |-> None]
  /\ write   = [c \in Client |-> None]
  /\ walk    = [c \in Client |-> NoWalk]
  /\ wire    = [k \in Connection |-> Closed]
  /\ usesDb  = TRUE
  /\ party   \in Parties

Request(c) ==
  \/ walk[c].page > 0 /\ FindUser(c)
  \/ Issue(c) \/ LoginFails(c)
  \/ AskWrite(c) \/ DoWrite(c) \/ WriteFails(c)
  \/ c \in Reader /\ ListPage(c)

(* provenAt follows the table. *)
Proven(u, p) == Active(u) /\ row[u].pw = p
NoteProven ==
  provenAt' = [u \in Name |-> [p \in Password |->
                 IF Proven(u, p)' THEN clock' ELSE provenAt[u][p]]]

Message(k) == Startup(k) \/ PasswordFinds(k) \/ Ready(k) \/ Disconnect(k)

Next ==
  /\ \/ /\ \/ \E c \in Client \cap party : Request(c)
           \/ \E k \in Connection \cap party : Message(k)
           \/ RestRestarts \/ GatewayRestarts
        /\ UNCHANGED clock
     \/ Tick /\ clock' = clock + 1
  /\ Account!Note /\ NoteProven
  /\ UNCHANGED party

Spec == Init /\ [][Next]_vars

--------------------------------------------------------------------------------
Claims == [sub : Name, role : Role, exp : Nat]

TypeOK ==
  /\ clock \in 1..MaxTime
  /\ row \in [Name -> Account!Row \cup {None}]
  /\ adminAt \in [Name -> 0..MaxTime]
  /\ provenAt \in [Name -> [Password -> 0..MaxTime]]
  /\ created \in [Name -> 0..MaxTime]
  /\ \A u \in Name : u \in Listed <=> created[u] > 0
  /\ pc \in [Client -> {"idle", "verify", "write"}]
  /\ since \in [Client -> 0..MaxTime]
  /\ token \in [Client -> Claims \cup {None}]

(***************************************************************************)
(* routes/users.rs decides by the role in a token, which was read before   *)
(* the token was signed, and a token is checked before the write: whoever  *)
(* writes was an active admin at most Expiry and two Latencies ago,        *)
(* whatever demotions and deactivations came in between.                   *)
(***************************************************************************)
WritersWereAdmins ==
  \A c \in Client : pc[c] = "write" =>
    /\ adminAt[token[c].sub] > 0
    /\ clock <= adminAt[token[c].sub] + Expiry + 2 * Latency

(***************************************************************************)
(* The users table keeps the promise of Accounts: every change is an       *)
(* administrator's, and no creation, update, seed or restart touches a     *)
(* retired account.                                                        *)
(***************************************************************************)
ImplementsAccounts == Account!Spec

(***************************************************************************)
(* A wire session is that of the user its startup message named: when it   *)
(* begins, that user was active with the password given at most a Latency  *)
(* ago, however the row that is compared (handler.rs:159-176) has changed  *)
(* since it was read, whoever was deactivated, given another password or   *)
(* opened in between.                                                      *)
(***************************************************************************)
Begins(k) == wire[k].at # "ready" /\ wire'[k].at = "ready"

SessionsVerified ==
  [][\A k \in Connection : Begins(k) =>
       LET last == provenAt[wire'[k].user][wire'[k].given]
       IN  last > 0 /\ clock <= last + Latency]_vars

(***************************************************************************)
(* list_users pages by OFFSET while others create and deactivate users,    *)
(* whose rows may appear anywhere in the order: a client that reads until  *)
(* an empty page has seen every user there was when it began, some perhaps *)
(* twice, but for users who share their created_at with another.           *)
(***************************************************************************)
WalkSeesEveryone ==
  \A c \in Client : walk[c].page = 0 =>
    \A u \in walk[c].due \ walk[c].seen :
      \E v \in Listed \ {u} : created[v] = created[u]
================================================================================
