# A TLA+ model of maysemantic

maysemantic is a semantic layer: YAML documents declare entities, dimensions,
metrics and joins over warehouse tables; a request names a metric and
dimensions; the program compiles the request to SQL, and two servers (REST and
the PostgreSQL wire protocol) expose it, the second one running the SQL on a
warehouse.  This directory holds TLA+ specifications of its core logic, the TLC
configurations that check them on small instances, and TLAPS proofs that hold
for every instance.

Every definition is translated from the source; `PROJECT.json` gives, for each,
the file and the lines.  Paths below are relative to the repository.

## Running it

    tlc -workers 2 -config Gateway.cfg MCGateway
    tlapm Gateway_proofs.tla

`PROJECT.json` lists all runs with their module and configuration, and for each
property a mutant: a plausible bug, defined beside the action or operator it
replaces, under which TLC finds the property violated.

## Inventory

| Component | State | Operations | Interacts with |
|---|---|---|---|
| Model registry, `may_core/src/models/state.rs` | `RwLock<Arc<SemanticState>>`: the models by name, and per state a `OnceLock` with its join graph | `load_from_yaml`, `load_dir`, `get_state` (read guard), `snapshot`, `get_graph`, `get_default_model` | both servers read it, the CLI and the servers load it |
| Join graph, `may_core/src/graph/engine.rs` | a petgraph of entities, two edges per declared join | `build_semantic_graph` | built by `get_graph` |
| Join paths, `may_core/src/graph/resolver.rs` | none | `find_join_path`, `find_join_path_resolved` | one search per dimension of a request |
| Compiler, `may_core/src/compiler` | local to a call: what is resolved, the joins, the query tree | `SemanticCompiler::compile`: validation, metric resolution, fan-out detection, chasm-trap rewrite, lowering, row-level security | registry, graph, `ast/builder.rs`, dialects |
| Dialects, `may_core/src/dialects` | none | rendering of the query tree | compiler |
| Vault provider, `may_secrets/src/providers/vault.rs` | secret cache and AppRole token, each under a tokio `RwLock`, each entry with its time | `get_secret`, `get_token` | called by connectors, inside a timeout in `PostgresConnector::execute` |
| Environment provider, configuration, bootstrap, `may_secrets` | none after start | reading of variables and of a YAML file | chosen once at start |
| Connectors, `may_connectors/src/dwh` | a token behind a mutex (Snowflake), a lazily made `auth_manager` and a token cache (BigQuery) | `execute`: a stream of rows; polling, pages, partitions | secrets provider, warehouse over the network |
| Identity, `may_auth` | rows of users in a database | create, update, deactivate, list, login tokens, seeding of an administrator | REST, wire gateway |
| REST, `may_rest` | the registry, the pool | query, users, auth routes | all of the above |
| Wire gateway, `may_pgwire` | per connection: the startup and authentication state | `do_query`, startup, shutdown | registry, connectors, identity |
| CLI, `may_cli` | a registry of its own | `validate`, `compile` | registry |

What is hard in it, and what makes each part correct:

- **Registry.** Loads and requests run on many threads.  A load must not lose
  another one's models, must register a directory whole or not at all, and must
  not change what a request under way is compiled against.  The lazily built
  graph of a state must be that of its own models, although states are made by
  cloning one another and several requests may fill one cell.
- **Joins.** The paths of a request's dimensions are searched one by one and
  merged.  No entity may be joined twice (it would multiply the measure), no
  join may come before its left side, no hop may be superfluous, and aliases and
  ON conditions must be right when two entities share a table or a join is
  walked backwards.  The fan-out verdict decides whether the chasm-trap rewrite
  runs.
- **Chasm trap.** Pre-aggregating each fact must give the numbers that the
  measures mean, whatever rows the tables hold.
- **Compiler.** Several models may be loaded and share names.  Each step looks a
  name up somewhere else: the resolver in the metric's model, lowering in an
  index over all models, the graph and the policies in all models; what one step
  settled must be what the next one finds.  The first error decides whether the
  caller is blamed.
- **Vault.** Callers share a token and a cache: a refused token must not stay in
  use, concurrent misses must log in once, a failed or dropped login must not
  leave the lock taken, and no secret may be staler than its times to live say.
- **Connectors.** Rows must come once each and in the end all of them, or an
  error; tokens expire between polls; pages and partitions may fail midway;
  concurrent refreshes of a token overwrite each other.
- **Identity.** A token outlives the role it was signed for, a login signs a row
  that may have changed, restarts seed the administrator again, clients page
  through a table that moves.
- **Gateway.** A stream that fails in the middle must not reach the client as a
  result.

`PROJECT.json` lists the hazards line by line, with the properties that cover
them or the reason why none does.

## Modules

| Module | What it is |
|---|---|
| `ModelRegistry` | abstract: loads are atomic, readers see one instant |
| `SemanticState` | `state.rs` with its lock, copy-on-write and cache; implements `ModelRegistry` |
| `JoinPaths` | what a join plan is: shortest ways, their union, the relations without an alias |
| `JoinPlan` | abstract: what the join planning of a request promises |
| `JoinPlanner` | from the dimensions of a request to its FROM clause; implements `JoinPlan` |
| `ConformedFacts` | abstract: which requests over several facts are rewritten, by which keys, and which are refused |
| `ChasmTrap` | from a plan with several facts to the rewritten query: link, keys, CTEs, and the columns its clauses refer to; implements `ConformedFacts` |
| `PreAggregation` | the rewritten query run on tables, against what the measure means |
| `VaultSecrets` | the Vault provider with its two caches |
| `RowStream` | abstract: what `WarehouseConnector::execute` promises of its stream |
| `Warehouse` | what the three connectors share: calls, pages, tokens, streams |
| `Snowflake`, `BigQuery`, `Postgres` | one connector each, over `Warehouse` |
| `Connectors` | a connector of any of the kinds; implements `RowStream` |
| `Accounts` | abstract: what may happen to the table of users |
| `Identity` | `may_auth` with the REST routes and the wire startup that use it; implements `Accounts` |
| `Compiler` | `compile` from the request to the restricted query, step by step, with its errors |
| `Gateway` | REST, wire and library callers around `Compiler`, and the stream of a `RowStream` |
| `MC*` | small instances of the above for TLC |
| `*_proofs` | theorems about `SemanticState`, `JoinPlanner`, `VaultSecrets`, `Connectors`, `Identity`, `Gateway`, `ChasmTrap` |

How they compose: `Gateway` extends `Compiler`, and reads a stream that is an
instance of `RowStream`, which `Connectors` refines; `Connectors` instantiates the three connectors
over one set of variables.  `Compiler` abstracts what two other modules
look into.  Its `Join` and `Assemble` take any plan, and any choice of relations
without an alias, that the operators of `JoinPaths` allow; by the same operators
`JoinPlan` says what a plan is, and `JoinPlanner`, with its searches and its loop over hops,
implements `JoinPlan`.  Its `PreAggregate`, which
pre-aggregates all facts or refuses, stands for a behaviour of `ConformedFacts`, which says when it is which
and which `ChasmTrap` implements.  `PreAggregation` starts from the shape of query `ChasmTrap` ends
with.  The `state` of `Compiler` is the
snapshot `SemanticState` shows to be one published revision.  `StreamsEnd` of
`Connectors` is the assumption under which `Answered` of `Gateway` is checked.

### SemanticState

`heap` is the sequence of all states ever published, `state` the index of the
one the lock protects; a revision has its `models` and its `graph` cell.
`writer` and `guard` are the two sides of the `RwLock`.  A loader goes through
`Begin*`, `ReadDoc` (in any order, as a directory lists its files), `RequestWrite`,
`AcquireWrite`, `CloneInsert`, `Publish`, or ends in `ReadError` before it asks for
the lock.  A reader begins with the guard (`BeginGuarded`, the REST handler,
`may_rest/src/routes/query.rs:48-66`) or without (`BeginSnapshot`, the wire
gateway, `may_pgwire/src/handler.rs:243`), then runs `get_graph` as three steps,
`CacheHit` or `CacheMiss` and `SetCache`.  A wire query then reads the registry a second
time, after other loads may have been published: `GetDefaultModel` is the call at
`handler.rs:325` that picks the data source (`source`).  What a document declares is a
constant.  Columns are abstracted from the graph: here the question is whose
graph it is.

`QueryRouted` is what the two reads of a wire query give together: a query compiled for a
registered model finds a registered name to run under, and if only one is registered, one it may
have been compiled for.  With several models the first of a `HashMap` may be any of them, also one published since.

*Refinement.* `Registry == INSTANCE ModelRegistry WITH models <- heap[state].models,
...`; a load is `Commit` at its `Publish` step, `Reject` at its `ReadError` step,
and everything else about it stutters.

*Run* `state`: two loaders and two readers, two model names, three valid
documents (two with one name, one whose joins need another document) and an
invalid one, four directories.  Two loaders are the fewest of which one
publishes between another's reading and its cloning; two readers fill one cell, or two
cells of different revisions.  Each loader loads once; readers run for ever.
Two requests that find the cell of one revision empty both build its graph, and
the second one's is dropped: the result is the same, although `get_graph` says
"once on first access".  Any number of loaders and readers is covered by the
proofs.

*Fairness.* Threads that can run do, and a request that has begun ends (the
compiler has no unbounded loop).  Nothing forces a request or a load to begin.
`WriterPreferred` says that no reader is admitted while a writer waits: the
futex-based `std::sync::RwLock` behaves so on Linux, though the documentation of
the standard library leaves the policy open.  `LoadsEnd` needs it and is
false without it (requests that overlap for ever starve a load); the safety
properties do not, and the theorems cover both values.

### JoinPlanner

One behaviour is one compilation.  The declared joins, the entity of the measure
and the tree petgraph's `astar` searches are chosen at the start.  `astar` with
unit costs gives a node its predecessor when it first meets it and does not
replace it, and it meets the nodes of one graph from one source in one order;
so all the paths a compilation asks for are branches of one tree `pred`, any tree
of shortest ways.  The dimensions are chosen as the loop reaches them, without a
bound on their number.  `TakeDimension`, `TraceBack`, `AddHop` are the body of the loop
(`semantic_compiler.rs:154-170`), `BuildFrom` the verdict and the FROM clause
(`fanout.rs`, `ast/builder.rs:96-187`).

*Runs.* `joins` tries every subset of seven joins over five entities, every base
entity, every tree.  The seven joins hold an even and an odd cycle, equally short ways, two entities
on one table and two joins between the same entities, so every case the merge
distinguishes occurs; the longest path has four hops.  The state space is finite
because a dimension that comes again changes nothing.
`Numbered` gives identifiers for the numbered aliases; `NumberedAreFresh` is the
precondition of `AliasesUnique`: a table called like a numbered alias (`users_1`)
would break it.

*Refinement.* `Plan == INSTANCE JoinPlan WITH links <- Links, targets <- seen \ {base}, ...`:
`TakeDimension` of a new entity is `Want`, `BuildFrom` is `Plan`, `FailUnreachable` is `Fail`, and all
else stutters.  `Joined` is read off the finished FROM clause, `Plain` are its relations
that bear their table's own name, `several` is the verdict.  JoinPlan defines a way without a graph search, as a
smallest set of entities that hangs together, so what `astar` finds is checked against another
definition of it.

`joins_chain` and `joins_fanout` show two disagreements, see
Findings.

### ChasmTrap

One behaviour is one compilation, from the plan `JoinPlanner` ends with (a base
and an ordered tree of joins with two facts in it).  `ChooseLink` finds the link
dimension, `TakeFact` goes through the facts in the order of the path
(`semantic_compiler.rs:323-400`), `Inject` refuses distinct counts, `AddCte` and
`Rewrite` are `build_cte_query` and `rewrite_outer_query` (`chasm_trap.rs`).  A
clause of the query is the set of its references: the relation that qualifies the column, or none,
since lowering leaves the column of a dimension bare (`lowering.rs:114`); the column; and
the declaration it stands for.  A CTE has the list of columns it projects, a table those that
`Columns` gives it, and `Resolves` is what a database makes of a reference: it
must fit one column of all the relations in FROM, and that column must be of the
relation it stands for.  `Swapped` says which relations of FROM become CTEs: those that bear
the table's own name, since the second relation on a table has an alias.  The
properties assume `TablesDistinct`; facts on tables of one name in two schemas
share one CTE, which the model shows (the instance has them) and no property
judges.  `SelectedKeepColumn` and `MeasureProvided` have two more premises, each a
check the code does not make: `KeyUnmeasured`, as a measure over the group key gives
the CTE two columns of one name unless it is an average; and, for what stays bare, `NamedOnce`, as
another table of the path may have a column of that name.  What the properties say
beyond them is that the rewrite keeps what a reference meant: a table hidden by its CTE, a
fact's columns reduced to its key, a measure's column split in two.

*Refinement.* `Meant == INSTANCE ConformedFacts WITH hops <- {joins[k] : k \in DOMAIN
joins}, ...`: the order of the joins is gone, and with it the notion of a first link.
A request is rewritten, by the keys of a dimension that every fact is joined to, or refused for
a reason that holds of every such dimension.  The code commits itself to the first dimension that two
facts are joined to (`semantic_compiler.rs:343`), and would refuse requests another
link could serve if joins could form anything but a tree: `ImplementsConformedFacts`
rests on `PlansAssumption`, which asks of the plans what `JoinPlanner` shows of its
own (`JoinedOnce`, `LeftIntroduced`, `VerdictCountsFacts`).

*Runs.* `chasm` takes every plan of up to three joins over five entities, three of
them facts, every set of selected dimensions that needs the plan, one filter or
none, a time granularity or none, every aggregation.  Three joins are enough for a
link that is the base, next to it or beyond a fact, for a fact not next to the
link, and for a dimension beyond a fact.  Customers and regions both have a `title`, which may
be selected, and a `balance`, which may be measured; a measured column may be the key of its fact.  So the
premises are false in part of the instance, and each is needed there.  `chasm_refs` shows the
disagreements without them: each of the five parts of `ReferencesMeant` fails by itself.

### PreAggregation

`base`, `link` and `other` are tables (a bag of rows, a function, a number of rows per
key); `PreAggregate`, `JoinTables` and `Answer` are the parts of the rewritten query:
`Projected` the CTE's columns, `Reaggregate` and `OuterMeasure` the outer expressions.
Joins, NULL and aggregates are SQL's, modelled as external.  `Meant` is the reference:
the aggregate over the base rows of a group in the query without the rewrite, each
counted once.  `TotalsAgree` is what `chasm_trap_e2e_test.rs` asserts on one database.

*Run* `preaggregation` takes every table of up to three base rows (two values, no
value, no key), up to two link rows and two rows per key of the other fact, inner, left
and full joins, five aggregations.  Three base rows over two keys of one group are the
fewest for which an average of averages is wrong; two rows of the other fact are the
fewest that multiply.

### VaultSecrets

A secret is represented by the instant at which Vault gave it, so that staleness
can be stated.  `cache`, `approle` and `writer` are the two `RwLock`s with their
contents; a lock held for less than one await is no step of its own.  Each call
goes from the cache (`CacheHit`, `CacheMiss`) through `get_token` (`ReadToken`,
`LockToken`, `VaultLogin`, `StoreToken`) to the read of the secret (`VaultGives`,
`VaultForbids`, `ReadFails`), then `CacheSecret` or `ForgetToken`.  `Cancel` drops a
call at any await, with the guard it holds.  Vault may refuse any token at any
time.  `forgotten` is a history variable.

*Bounds* of run `vault`.  `MaxTime` stops the clock, `MaxLogins` the tokens.  With both times to
live 2 and a clock that runs to 3, an entry is fresh, exactly as old as its time
to live, and past it; a second login replaces a refused or an expired token.
Two callers are one that logs in and one that waits, or is refused meanwhile, or is
dropped.  The theorems hold for any number.  `Latency` is the longest
an answer of Vault is on its way to the cache: the code does not bound it, and
`StalenessBounded` is stated relative to it.

*Fairness.* tokio's `RwLock` serves its queue in order, hence strong fairness of
the steps that wait for it.  A request to Vault is assumed to be answered or to
fail: the client has no timeout (`vault.rs:136`), so `CallsEnd` rests on this
assumption and not on the code.

### Connectors

A row is its position in the result of the statement, an `Err` item is 0, and the
result is cut into pages (`Upto`).  `tok[c]` and `cache` are the expiries of the
token call `c` sends and of the cached one, `lock` is the lock that is held across
the await that fetches a secret: Snowflake's token mutex, the write lock of BigQuery's
`auth_manager`.  Locks that are not held across an await are not steps.

- **Snowflake** takes one token for a statement (`TakeToken`, `SignToken`), posts
  it, polls at most `MaxPolls` times with a doubling, capped delay (`PollAgain`,
  `GiveUp`), and reads partitions 2, 3, ... (`GetPartition`).
- **BigQuery** gets a token anew for every request (`GetToken`, `ReadManager`,
  `LockManager`, `LookAgain`, `TokenArrives`, `StoreToken`), polls without a limit
  (`Incomplete`) and follows page tokens (`Complete`).
- **Postgres** connects under a timeout and runs the query when the stream is
  polled, outside it.

Any request may fail, any cell may be undecodable, a call waits where the code
awaits.  The warehouse is external: it refuses expired tokens, keeps a finished
result, and sends the schema exactly when there is a result set.  The rows of the model are
the rows that the answers show.  The connectors take an answer without its array of
rows for an empty one and pass over a row that is no array (`snowflake.rs:424-426`, `480-482`,
`bigquery.rs:394`), so that the whole result arrives is said of warehouses whose answers are well formed.

*Refinement.* `ImplementsRowStream` maps `ended` to "the call is over" and leaves
`out` as it is: rows in order, once each, all of them or an error at the end.

*Runs.* `connectors`: two calls share a connector of each kind; one result has three
pages, the second of them empty, the other statement has no result set.  The clock
runs to 5 with a margin of 1, token lives of 1 and 3 and three polls, so that a cached token is
reused, is too old to be reused but alive, and expires between two polls; two fetches
cross and are stored in either order.  Calls are made once each.  `connectors_timeout` shows a
disagreement.

*Fairness.* Each call goes on (the secrets provider and the warehouse answer, or
the HTTP client fails; tokio's mutex is handed on), and for Snowflake, where a call
sleeps, time passes.  For BigQuery, `Complete` is strongly fair: the loop at
`bigquery.rs:339` has no limit, and only the warehouse ends it.  `StreamsEnd` holds
under that assumption about the warehouse, and not by the code.

### Identity

`row[u]` is the row of user `u`, `created[u]` its `created_at`.  That is the default
`now()`, the time at which the inserting transaction began, without a constraint (migration 0001):
rows may share it, and
may appear behind rows that were there before.  A page is a page of any ranking by
descending `created_at` (`Rankings`, `PagesOf`), chosen anew by each read where dates tie.  The four
statements of `repository.rs` and the seed are one action or operator each.  A login
is two steps (`FindUser`, then `Issue` after the password has been verified in a blocking
task), a write is two (`AskWrite` is admitted by the token, `DoWrite` runs the statement),
a wire session is started by `Startup`, `PasswordFinds`, `Ready`.  `RestRestarts` drops
what is under way and seeds the administrator, `GatewayRestarts` chooses the repository, the
database's or the one that denies all.  `adminAt` and `provenAt` are history variables: when a user was last an active
administrator, and when last active with a given password.  `Latency` bounds how long a request
lasts; the code has no such
limit, and the theorems are stated relative to it.

*Refinement.* `ImplementsAccounts`: the table changes only as an administrator, at most
`Expiry + 2 * Latency` ago, may change it, and a retired account is never touched.

`SessionsVerified` ties a wire session to the user its startup named: that user was active with the
password given at most a `Latency` before the session begins, whatever was written while the
password was compared.  `WalkSeesEveryone` leaves out users who share their `created_at` with another, since
two reads may order those differently.

*Run* `identity`: the seeded administrator and two more names, in three parties: two clients that change
roles; one that opens and retires an account while another pages through the list and opens a third; and one
that opens, retires and changes passwords while a wire client connects.  Pages have one row, so with three names a
creation while page two is due pushes a user who was not seen yet, and a late one
appears on a page already read.  Two clients are enough for a demotion between another's admission and its write.
The clock runs to 5, past `Expiry + 2 * Latency` from the start.  There is no liveness: clients need not do
anything.

### Compiler and Gateway

`Compiler` has an action for every step of `compile`, in the code's order, each with
its error: `ValidateRequest`, `FindModel`, `ResolveMetric`, `Truncate`, `GetGraph`,
`Join`, `Assemble`, `PreAggregate`, `Lower`, `Inject`, `Generate`.  A world is a
set of models; `dims` counts how often an entity of a model declares a name, so
that nothing is unique that the code does not make so.  `rank` is the order in which
the snapshot's `HashMap` is walked, which decides whose node of two entities with one name stays in
the graph (`NodeOf`) and whose table is found (`FoundIn`).  `Lower` looks a reference up in an
index over all models (`Index`), wants exactly one entry of the metric's model (`Hits`) and keeps its bare
column (`columns`); `OwnColumnRead` says that
a reference can still be read from the relation of its own entity, so that a database which
takes the query does not read another one's column.  That the name is not ambiguous is not true
(see Findings).  `from` has a relation per joined entity, `plain` if it is
the first on its table and has no alias; `where[l]` are the predicates of
the query at level `l`, a CTE or the outer one.

`Gateway` adds the callers: a REST request is mapped and refused or compiled and
answered with a status; a wire statement is told apart by its text, compiled, answered on the
spot or executed, and its rows are buffered until the end of the stream (`Poll`, `Take`,
`Deliver`); a library caller passes a user context, which neither service does
(`query.rs:62`, `handler.rs:258`).

*Run* `queries`: a shop with two facts, two entities on one table, policies in two models and
an entity name both models use (where one table calls a dimension's column otherwise than the
others), and the worlds one or two declarations away from it (a name declared twice or not at
all, joins missing, metrics with dimensions of their own, a metric in two models, a single model, none);
requests with every mix of selected, filtered and truncated dimensions that the steps treat
differently; results of none to two rows, where two tell a failure of the first row from one of a later row.

*Fairness.* `WF_vars(Next)`: the one query of a behaviour goes on; a behaviour has
no second actor that could starve it.  The stream moves when polled.

## What is proved

All theorems hold for all values of the constants that satisfy the named
assumptions of the modules, without the sizes of the runs (bounds such as `MaxTime`
and `MaxLogins` are constants of any size).  Each proof shows `Init => IInv`,
`IInv /\ [Next]_vars => IInv'`, one lemma per action or group of alike actions, and that `IInv` implies the
property.

- **SemanticState.** `TypeCorrect`, `CacheCorrect`, `AnswerCorrect`, `RouteCorrect`,
  `DraftCorrect`, `Immutability`, `Persistence`, `Refinement`.  The inductive invariant adds to
  the checked invariants `LockHeld` (the writer is the loader whose control state says so,
  and no read guard coexists with it), `RequestHolds` (a request under way holds a
  revision; one that has built a graph holds one whose graph builds) and `NamesKnown` (the
  names of the revision held are among those of the current one).  Without
  `LockHeld` the draft of one loader could be overtaken by another's publication;
  without `RequestHolds` nothing says that what `SetCache` writes fits the revision.
- **JoinPlanner.** `TypeCorrect`, `JoinsUnique`, `JoinsOrdered`, `JoinsNeeded`,
  `VerdictRight`, `ColumnsDeclared`, `AliasesDiffer`, and `Refinement`: `Spec => ImplementsPlan`.
  The inductive invariant says
  that the path being walked and the list of joins lie on the one tree (`PathOnTree`,
  `JoinsOnTree`) and that the walk always starts from a relation already in the list
  (`PathStart`).  Then two joins of one entity would have one left side, and would be
  the same join.  `PlanInv` adds the other direction, that a dimension treated is
  reached (`SeenReached`) and the one under way lies ahead on the path (`OnTheWay`),
  from which the plan is complete and its verdict counts the facts of the whole plan.
  `JoinsShortest`, `DistanceShortest`, `PlanMinimal`, `FailsRightly` are about distances.  `Within` is
  a recursive function: that it has a value with the equations of its definition is
  proved from lists of its first values (`Iterates`), and what holds at
  every index by a least counterexample.  The rounds saturate because each that adds
  something adds an entity (`WithinSaturated`), so `Dist` is the length of a shortest
  walk and the predecessors of the search tree are one hop nearer (`PredecessorNearer`).
  `FromShape` reads the FROM clause relation by relation.  Aliases differ because
  the number of an entity on a table counts the earlier ones there (`BeforeGrows`); the
  proof needs as many numbered names per table as there are entities (`NumberedAssumption`).
  `Refinement` compares two definitions of a shortest way.  The branch of the search tree that leads to an
  entity holds one entity for each distance up to its own (`BranchExists`) and hangs together
  (`BranchHangs`); a set that hangs together and holds both ends has an entity at each of these distances
  (`HangingSpans`), so no such set is smaller (`BranchIsWay`), and without a walk there is none
  (`NoWayBeyond`).  What the plan joins is the union of the branches of its
  dimensions (`RightsAreBranches`).  It assumes `NumberedAreFresh`: a relation is taken to
  bear its table's own name when its alias is that name.
- **VaultSecrets.** `TypeCorrect`, `GuardCorrect`, `RefusalCorrect`, `Staleness`, `TokenKept`.
  The inductive invariant tells tokens apart by their number (`TokensIssued`),
  says that one being stored has not been refused (`LoginTokenNew`: clearing needs
  the guard the login holds), that a login happens only while no fresh token is
  shared (`LoginWhenStale`), and dates cached entries and answers under way
  (`EntriesDated`, `AnswersDated`).
- **Connectors.** `TypeCorrect`, `StatementTokenLives`, `MutexGivenBack`, `RequestTokenLives`,
  `UnwrapSafe`, `KeyReadOnce`, and `Refinement`: `Spec => ImplementsRowStream`.  The
  inductive invariant has a part per kind.  It says what the stream of a call holds at
  each control state, exactly the rows before the page it wants next (`SFCall`,
  `BQStream`, `PGCall`), from which every step is a step of `RowStream`.
  For BigQuery, a cached token means that the manager is there
  (`cache > 0 => mgr`), which is why `execute` may unwrap it although it never asked.
  The arithmetic of pages (that appending page after page gives the rows in order) is
  a group of lemmas.  `BudgetSpent` has an invariant of its own (`SFBudget`): while a
  statement is polled for, the sleeps before the polls so far are over and the one under
  way ends no earlier than the budget up to the next; `DelayUnfolds` and `BudgetUnfolds`
  give the two recursive functions their equations.
- **Identity.** `TypeCorrect`, `AuthorityBounded`, `SessionCorrect`, `WalkComplete`, and
  `Refinement`: `Spec => ImplementsAccounts`.  The inductive invariant dates what each
  stage of a request rests on: a row read is of an administrator of that moment (`ReadDated`), a
  token was signed at most a latency after (`TokensDated`), a write was admitted while its
  token lived (`WritersAdmitted`); the bound is their sum.  A row being compared was that of the
  user named when it was read, no longer than a latency ago (`WireDated`), so the password that
  matches it was then the user's.  `WalkDue` says that a user
  not yet seen is still beyond the offset of the next page: a user alone with a `created_at` has
  one rank, the number of newer rows (`RankOfAlone`), and rows are never removed.  It needs
  a `Width` no offset of such a walk reaches (`IdentityAssumption`).
- **Gateway** (with Compiler). `TypeCorrect`, `RowsAreWhole`, `OwnColumnCorrect`,
  `SelectionJoined`, `PoliciesHold`, `StatusRight`.  `CInv` carries, from the step that
  settles it to the end, what each later step relies on: the metric is found in the one model that
  owns it (`MetricFound`), the resolved dimensions are declared and joined
  (`DimsJoined`), the FROM clause has a relation for every joined entity and an
  unaliased one for every table (`FromWhole`), every reference is lowered to the column the metric's
  model declares for it (`RefsLowered`), and
  every level has its predicates (`PoliciesPlaced`).  `GInv` adds what a stream has given
  and what of it was buffered (`RowsGiven`, `RowsTaken`).  `RowsAreWhole` rests only on the
  promise of `RowStream`, so with the refinement theorem it holds for every connector.
  `StatusRight` has an invariant of its own, `Causes`: what a request that has come to a stage is
  free of (`Settled`), and that each error has its cause (`Blamed`).  It needs that both services pass
  no user context (`ServicesAssumption`): with one, a policy over an undeclared dimension
  would be a 500 that none of these causes explains.  That a path exists exactly if no set of
  entities separates its ends is
  proved without counting steps: two sets that hang together and share a join's end do so
  together (`HangsOn`, `NoWayApart`, `WayNotApart`).
- **ChasmTrap.** `EveryFactAggregated`, `SelectionKept`, `MeasureKept`, `LinkKept`, and
  `Refinement`: `Spec => ImplementsConformedFacts`.  The inductive invariant says
  that the list of facts holds all facts of the path passed so far and only such as passed the
  checks (`FactsTaken`), and that every listed table has one CTE (`CtesInjected`); where
  tables differ, a table then stands for one place in the path (`Places`).  For `SelectionKept` and
  `MeasureKept`, `Described` says that what is asked for is a column of its table; with the premises, a name
  is then one of one relation, either since the CTE projects it once (`KeyOfferedOnce`) or since no other
  table has it (`BareResolves`).  The refinement
  needs one fact about trees, `NoSquare`: of two dimensions and two facts with all four
  joins between them, the last in the path would have two left sides, and a place is joined to
  one earlier place only (`OneEarlier`).  A dimension all facts are joined to is joined to two, as there
  are two, so it is the link chosen (`OnlyLink`), and the key found first is the only one (`KeyIsSide`).
- **PreAggregation.** `RewriteIsExact`, `TotalsAlwaysAgree`, for finite tables of any size with any
  keys, attributes, integer values, join types and selections; `NullAssumption` says
  that NULL is none of the values and rows it is compared with.  The inductive
  invariant says what the CTEs, the joined tuples and the answer are once computed; the work is in
  the algebra below it.  Sums: `Total` is the fold of the community modules, its equations come from
  `SumsExist` and `SumsUnique`, any element can be taken out of a sum first (`TotalWithout`), and a sum
  can be made group by group (`TotalByGroups`).  Extremes and counts can, too
  (`MinByGroups`, `CountByGroups`).  Joins: which rows FROM puts together depends on their keys
  alone (`FromIs`), so the rewritten FROM is that of the facts with each row replaced by that of
  its CTE (`CollapseJoins`, `CollapseCovers`), and a row of the base's CTE is joined once
  (`JoinedOnce`), which is why nothing is counted twice.

Only model-checked:

- liveness: `LoadsEnd`, `CallsEnd`, `StreamsEnd`, `Answered`, since TLAPS does not reach
  liveness under fairness.

No safety property is only model-checked.  The folds and the recursive functions of the
model are reasoned about by least counterexamples (`LeastNumber`, `SmallestSet`), since the induction
theorems of the library cannot be instantiated here.

Only proved: the type invariants of `SemanticState`, `JoinPlanner`, `VaultSecrets` and `Gateway`,
`JoinsExactlyWhatIsNeeded`, `LoginHoldsGuard`, `SignerHoldsLock` and `ManagerMadeOnce` are in no
run, since a theorem says more.

## Findings

- `build_from_join_path` asserts that "join hops must chain" (`ast/builder.rs:106-111`).
  The compiler hands it the merged paths of all dimensions, which form a tree
  (`joins_chain`): two dimensions on two tables next to the base make a debug build
  panic.
- `SingleFact` is documented as "no fan-out risk" (`fanout.rs:8`).  A measure of a
  dimension entity grouped by an attribute of a fact multiplies the measure's rows
  with one fact in the path (`joins_fanout`).
- The compiler refuses a dimension "finer than the conformed chasm-trap grain"
  (`chasm_trap.rs:20`), but only among selected dimensions.  A time granularity
  still truncates a column the CTE does not have (`chasm_refs`).  By the same
  invariant an ON condition for a dimension reached through a fact by another column than
  the link's names a missing column, and a filter on a dimension of a
  pre-aggregated fact becomes one on the fact's group key (`chasm_trap.rs:439`), which
  answers another question without an error.
- "The compiler adds the correct table/alias prefix" to the bare columns of models
  (`models/core.rs:39`, `53-54`, `74-75`), but lowering makes bare identifiers of them
  (`lowering.rs:114`) and nothing qualifies those that are not of a pre-aggregated fact: two
  selected dimensions whose tables share a column name give an ambiguous query (`chasm_refs`).
- A CTE projects its group key and its measure under their columns' names
  (`chasm_trap.rs:128`): a measure over the key, such as a count of `customer_id`, makes the
  outer reference ambiguous (`chasm_refs`).
- The TODOs at `chasm_trap.rs:95-98` say that CTEs group by the link key only and
  aggregate nothing, that the outer query does not use them and that one key serves all facts.
  The code below them does otherwise, which `chasm` shows.
- `QUERY_TIMEOUT` is the "Maximum wall-clock time for a single Postgres query"
  (`postgres.rs:13`), but the timeout covers fetching the secret and
  connecting; the query runs when the stream is polled, and nothing bounds it
  (`connectors_timeout`).

Premises that hold by convention and not by the code are part of the properties and
named there: unique entity names across models (`NamesUnique`), no other entity on a fact's table
(`FactsOwnTheirTable`, `TablesDistinct`), no table named like a numbered alias
(`NumberedAreFresh`), no measure over the group key (`KeyUnmeasured`), no second table of the path
with a selected column's name (`NamedOnce`), an entity on the table its metric's model gives
it (`OnOwnTable`), and no two users created at one time.

## Not modelled

- Parsing and validation of YAML (what a document declares is a constant) and of JSON
  bodies beyond what `TryFrom<QueryRequest>` branches on.
- The text of SQL: the dialects (`may_core/src/dialects`) render a tree to a string, without
  state; the one error a request can cause there is in `Generate`.
- Operators, literals and limits of filters, and the decoding and encoding of cells
  (that it may fail is modelled).
- Password hashing (taken as one-to-one), cryptography of tokens.
- Environment provider, secrets configuration, bootstrap, connector registry: read or filled once
  at start.  HTTP routing, OpenAPI, health checks, the TLS refusal and the extended-query
  placeholder of the wire protocol: no state.
- The CLI's output; its loads are those of `SemanticState`.
- Deployment files, demos, generated schemas.
- Poisoning of the registry's lock: nothing under the write guard panics.

## Plan

1. Larger parties in `Identity`, three calls in `Connectors`.
2. Answers of a warehouse that lack their rows, with a property that says what a stream over
   them promises.
