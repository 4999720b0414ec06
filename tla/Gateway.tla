-------------------------------- MODULE Gateway --------------------------------
(***************************************************************************)
(* The two ways a query reaches the compiler, from the request to the      *)
(* answer: POST /api/v1/query (may_rest/src/routes/query.rs), which        *)
(* answers with the SQL or an HTTP status, and a simple query on a wire    *)
(* connection (may_pgwire/src/handler.rs), which is run at the warehouse.  *)
(* A third caller is a program that calls compile itself, the only one     *)
(* that passes a user context: both services pass None.                    *)
(*                                                                         *)
(* The warehouse's stream is a RowStream, which Connectors shows each      *)
(* connector to implement.  It is lazy: it moves when it is polled.  The   *)
(* text of a statement is abstracted to what do_query branches on.  Schema *)
(* and encoding of rows are left out.                                      *)
(***************************************************************************)
EXTENDS Compiler, Sequences

CONSTANTS
  MaxRows,  \* bound on the rows of a statement
  MaxLimit, \* MAX_LIMIT
  Limits,   \* the limits REST requests have, or None
  Asks      \* who asks, with what: see Ask

VARIABLES
  caller,   \* "rest", "wire" or "library"
  body,     \* what else the REST body holds
  text,     \* the kind of statement the wire client sends
  quotes,   \* the compiled SQL holds VERSION() in a literal
  rows,     \* how many rows the statement has
  out, ended, \* the streams of the connector, one for each such statement
  got,      \* rows buffered for the client
  answer    \* what the caller gets, None before

gvars == <<caller, body, text, quotes, rows>>
stream == <<out, ended>>
vars  == <<cvars, gvars, stream, got, answer>>

Statement == 0..MaxRows
Source    == INSTANCE RowStream WITH Caller <- Statement, Total <- [n \in Statement |-> n]

Body == [metrics : 0..2, limit : Limits, bounds : BOOLEAN]
Text == {"", "SEMANTIC", "SEMANTIC bad JSON", "SET", "VERSION()", "SELECT 1", "other"}
Ask  == [caller : {"rest", "wire", "library"}, context : Contexts, body : Body, text : Text,
         quotes : BOOLEAN]

ASSUME GatewayAssumption ==
  MaxRows \in Nat /\ MaxLimit \in Nat /\ Asks \subseteq Ask /\ Source!Assumption
ASSUME ServicesAssumption == \A a \in Asks : a.caller # "library" => a.context = None

Init ==
  /\ state \in Worlds /\ request \in Requests
  /\ \E a \in Asks :
       /\ caller = a.caller /\ context = a.context /\ body = a.body
       /\ text = a.text /\ quotes = a.quotes
       /\ rows \in IF a.text = "other" /\ a.caller = "wire" THEN Statement ELSE {MaxRows}
       /\ pc = IF a.caller = "library" THEN "validating" ELSE "asked"
  /\ Idle /\ Source!Init /\ got = 0 /\ answer = None

Answer(kind, n) == answer' = <<kind, n>> /\ pc' = "answered"

--------------------------------------------------------------------------------
(* TryFrom<QueryRequest>. *)
Refused ==
  \/ body.metrics # 1
  \/ request.metric = Blank
  \/ body.limit # None /\ (body.limit = 0 \/ body.limit > MaxLimit)
  \/ body.bounds

MapRequest ==
  /\ caller = "rest" /\ pc = "asked"
  /\ IF Refused THEN Answer("status", 400) ELSE pc' = "validating" /\ UNCHANGED answer
  /\ UNCHANGED <<asked, resolved, planned, written, error, gvars, stream, got>>

(* Mutant: an error of lowering is put to the caller. *)
StatusOfLowering(e) ==
  IF e \in {"RequestParsing", "MetricResolution", "JoinResolution", "UnsupportedRequestFeature",
            "AmbiguousMetric", "Lowering"}
  THEN 400 ELSE 500

(* from_compiler_error. *)
Status(e) ==
  IF e \in {"RequestParsing", "MetricResolution", "JoinResolution", "UnsupportedRequestFeature",
            "AmbiguousMetric"}
  THEN 400 ELSE 500

(* query_handler: the SQL or a status; the library hands both on. *)
AnswerCompiled ==
  /\ caller # "wire" /\ pc \in {"compiled", "failed"}
  /\ Answer("status", IF pc = "compiled" THEN 200 ELSE Status(error))
  /\ UNCHANGED <<asked, resolved, planned, written, error, gvars, stream, got>>

--------------------------------------------------------------------------------
(* do_query up to the compiler. *)
ReadText ==
  /\ caller = "wire" /\ pc = "asked"
  /\ CASE text = "" -> Answer("empty query", 0)
       [] text = "SEMANTIC bad JSON" -> Answer("error", 0)
       [] text = "SEMANTIC" -> pc' = "validating" /\ UNCHANGED answer
       [] OTHER -> pc' = "dispatching" /\ UNCHANGED answer
  /\ UNCHANGED <<asked, resolved, planned, written, error, gvars, stream, got>>

(* The SQL goes the way of any other statement. *)
WireCompiled ==
  /\ caller = "wire" /\ pc \in {"compiled", "failed"}
  /\ IF pc = "failed" THEN Answer("error", 0) ELSE pc' = "dispatching" /\ UNCHANGED answer
  /\ UNCHANGED <<asked, resolved, planned, written, error, gvars, stream, got>>

Loaded == {t.model : t \in state.metrics} \cup {p[1] : p \in state.entities}

(* Setup commands and probes are answered here; the rest goes to the default model's connector. *)
Dispatch ==
  /\ pc = "dispatching"
  /\ CASE text = "SET" -> Answer("OK", 0)
       [] text = "VERSION()" \/ (text = "SEMANTIC" /\ quotes) -> Answer("version", 0)
       [] text = "SELECT 1" -> Answer("one", 0)
       [] text = "other" /\ Loaded = {} -> Answer("error", 0)
       [] OTHER -> pc' = "executing" /\ UNCHANGED answer
  /\ UNCHANGED <<asked, resolved, planned, written, error, gvars, stream, got>>

(* connector.execute: a stream or an error. *)
Execute ==
  /\ pc = "executing"
  /\ \/ Answer("error", 0)
     \/ pc' = "reading" /\ UNCHANGED answer
  /\ UNCHANGED <<asked, resolved, planned, written, error, gvars, stream, got>>

Given == out[rows]

(* query_result.next(): the stream moves only if nothing it gave is left. *)
Poll ==
  /\ pc = "reading" /\ got = Len(Given)
  /\ Source!Step(rows) /\ stream' # stream
  /\ UNCHANGED <<cvars, gvars, got, answer>>

(* Mutant: an error ends the rows like the end of the stream. *)
TakeUntilError ==
  /\ pc = "reading" /\ got < Len(Given)
  /\ IF Given[got + 1] = Source!Error
     THEN Answer("rows", got) /\ UNCHANGED got
     ELSE got' = got + 1 /\ UNCHANGED <<answer, pc>>
  /\ UNCHANGED <<asked, resolved, planned, written, error, gvars, stream>>

(* The rows are buffered; an error, of the first or of a later one, is all the client gets. *)
Take ==
  /\ pc = "reading" /\ got < Len(Given)
  /\ IF Given[got + 1] = Source!Error
     THEN Answer("error", 0) /\ UNCHANGED got
     ELSE got' = got + 1 /\ UNCHANGED <<answer, pc>>
  /\ UNCHANGED <<asked, resolved, planned, written, error, gvars, stream>>

(* Mutant: an empty result is waited for. *)
DeliverSome ==
  /\ pc = "reading" /\ ended[rows] /\ got = Len(Given) /\ got > 0
  /\ Answer("rows", got)
  /\ UNCHANGED <<asked, resolved, planned, written, error, gvars, stream, got>>

(* The stream has ended: the client gets the rows, or an empty result. *)
Deliver ==
  /\ pc = "reading" /\ ended[rows] /\ got = Len(Given)
  /\ Answer("rows", got)
  /\ UNCHANGED <<asked, resolved, planned, written, error, gvars, stream, got>>

--------------------------------------------------------------------------------
Next ==
  \/ Compile /\ UNCHANGED <<gvars, stream, got, answer>>
  \/ MapRequest \/ AnswerCompiled
  \/ ReadText \/ WireCompiled \/ Dispatch \/ Execute \/ Poll \/ Take \/ Deliver

Spec     == Init /\ [][Next]_vars
FairSpec == Spec /\ WF_vars(Next)

TypeOK ==
  /\ CompilerTypeOK
  /\ \E a \in Asks : /\ caller = a.caller /\ context = a.context /\ body = a.body
                     /\ text = a.text /\ quotes = a.quotes
  /\ rows \in Statement
  /\ got \in 0..Len(Given) /\ got <= rows
  /\ pc # "answered" => answer = None

(***************************************************************************)
(* What a wire client gets as rows is the whole result: where the stream   *)
(* failed, at the first row or at a later one, there is an error and no    *)
(* row (handler.rs:363-453).                                               *)
(***************************************************************************)
WholeOrError ==
  pc = "answered" /\ answer[1] = "rows" => answer[2] = rows /\ ~Source!Failed(Given)

(***************************************************************************)
(* What may be wrong, told from the models and the request alone.          *)
(***************************************************************************)
(* Some set of entities has the base, not e, and no join out of it. *)
Apart(a, e) ==
  \E s \in SUBSET Entity :
    a \in s /\ e \notin s /\ \A l \in state.links : l \subseteq s \/ l \cap s = {}

(* A name the request holds means nothing, or two things, to the metric's model. *)
NameAtFault ==
  \/ Owners = {}
  \/ \E m \in Owners : ~Resolvable(m, request.dims \cup request.filters)

(* The metric itself is declared twice or does not hold together. *)
MetricAtFault ==
  \/ Cardinality(Owners) > 1
  \/ /\ owner \in Owners
     /\ \/ ~Resolvable(owner, TheMetric.dims)
        \/ Cardinality(MeasureHolders(owner, TheMetric.measure)) # 1

(* The entities asked for cannot be joined, or the base has no one time to truncate. *)
ShapeAtFault ==
  \/ request.grain # None /\ Cardinality(TimeDeclarations(owner, base)) # 1
  \/ \E d \in dims : Apart(base, d[1])

ModelsAtFault ==
  \/ \E l \in state.links : \E e \in l : Declaring(e) = {}
  \/ \E x \in DOMAIN state.dims : state.dims[x] = 2
  \/ \E x \in DOMAIN state.measures : state.measures[x] = 2

CallersFault == Refused \/ NameAtFault \/ MetricAtFault \/ ShapeAtFault

ServersFault ==
  ModelsAtFault \/ request.grain \notin DatePart \cup {None} \/ Several(joined)

(***************************************************************************)
(* "caller-caused problems become 400, internal/config failures become     *)
(* 500" (query.rs:238), with the exceptions the code makes in both         *)
(* directions: a metric that is at fault itself is a 400; a granularity    *)
(* no dialect knows and a request the chasm-trap rewrite refuses are a     *)
(* 500.  And no fault but these: 200 is only for requests without any.     *)
(***************************************************************************)
StatusNamesCause ==
  caller = "rest" /\ pc = "answered" =>
    CASE answer[2] = 400 -> CallersFault
      [] answer[2] = 500 -> ServersFault
      [] OTHER -> ~CallersFault /\ request.grain \in DatePart \cup {None}

(* Every query is answered, if compiler and stream go on (StreamsEnd of Connectors). *)
Answered == <>(pc = "answered")
================================================================================
