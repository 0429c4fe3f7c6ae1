------------------------------- MODULE Client -------------------------------
(***************************************************************************)
(* The HTTP requests of one es_search query (client.go), from the mapping  *)
(* that OnBind asks for to the DELETE of the PIT: who they say is asking,  *)
(* in which dialect, and what becomes of each kind of answer.  OnBind and  *)
(* NewState build them from the arguments (optsFromArgs), the ticks from   *)
(* the scan's state (options).                                             *)
(*                                                                         *)
(* What pages hold, ticks driven twice and PITs that move are in module    *)
(* Scan.  A definition named X_Something is a wrong variant of X.          *)
(***************************************************************************)
EXTENDS Integers

CONSTANTS Flavors,         \* spellings of the flavor argument
          Elasticsearch,   \* those that equal "elasticsearch" but for case
          MaxPages,        \* bound on the full pages of a result
          NoRequest        \* no request in flight

ASSUME ClientAssumption == Elasticsearch \subseteq Flavors /\ MaxPages \in Nat

VARIABLES args,       \* the arguments of the call
          cluster,    \* the cluster: its dialect, whom it lets in, its certificate
          pages,      \* how many full pages match, before a short one
          step,       \* where the query is
          pending,    \* the request in flight
          state,      \* the scan's state, as far as requests go
          pit,        \* the query's PIT in the cluster: "none", "open" or "closed"
          got,        \* the pages emitted
          sent,       \* all requests sent
          declined,   \* has the cluster turned down what a search asks for?
          disturbed,  \* the kinds of request that something has got in the way of
          disguised   \* has a search got a 200 answer other than the cluster's full one?

world == <<args, cluster, pages>>
vars == <<world, step, pending, state, pit, got, sent, declined, disturbed, disguised>>

Dialects == {"opensearch", "elasticsearch"}
Words == {"", "secret"}
Arguments ==
  [target : {"null", "empty", "named"},    \* endpoint and index
   fields : BOOLEAN,                       \* is a `fields` argument given?
   flavor : Flavors, username : Words, password : Words, apiKey : Words, insecureTLS : BOOLEAN]

(* A cluster lets in whoever sends the header it knows, or everyone. *)
Everyone == <<"everyone">>
Headers == {<<"ApiKey", "secret">>, <<"Basic", "secret", "secret">>}
Clusters == [dialect : Dialects, accepts : Headers \cup {Everyone}, selfSigned : BOOLEAN]

-----------------------------------------------------------------------------
(* Options: the same fields from the arguments and from the scan's state;  *)
(* neither sets a timeout.                                                 *)
Dialect(flavor) == IF flavor \in Elasticsearch THEN "elasticsearch" ELSE "opensearch"
Options(from) ==
  [dialect |-> Dialect(from.flavor), username |-> from.username, password |-> from.password,
   apiKey |-> from.apiKey, insecureTLS |-> from.insecureTLS, timeout |-> 0]

(* What NewState keeps of the arguments. *)
SearchState_NoKey(a) ==
  [flavor |-> a.flavor, username |-> a.username, password |-> a.password, apiKey |-> "",
   insecureTLS |-> a.insecureTLS, pitId |-> FALSE, done |-> FALSE, noInput |-> FALSE]
SearchState(a) ==
  [flavor |-> a.flavor, username |-> a.username, password |-> a.password, apiKey |-> a.apiKey,
   insecureTLS |-> a.insecureTLS, pitId |-> FALSE, done |-> FALSE, noInput |-> FALSE]

(* applyAuth: an API key goes before a user, and half a user will do. *)
ApplyAuth(o) ==
  CASE o.apiKey # "" -> <<"ApiKey", o.apiKey>>
    [] o.apiKey = "" /\ (o.username # "" \/ o.password # "") -> <<"Basic", o.username, o.password>>
    [] OTHER -> <<>>

DefaultTimeout == 30
Deadline_AsGiven(timeout) == timeout
Deadline(timeout) == IF timeout <= 0 THEN DefaultTimeout ELSE timeout

(* The key that names the PIT in the body of a DELETE. *)
PitKey_Same(dialect) == "pit_id"
PitKey(dialect) == IF dialect = "elasticsearch" THEN "id" ELSE "pit_id"

Request(verb, o) ==
  [verb |-> verb, dialect |-> o.dialect, key |-> PitKey(o.dialect), auth |-> ApplyAuth(o),
   insecureTLS |-> o.insecureTLS, deadline |-> Deadline(o.timeout)]
Send(verb, o) ==
  /\ pending' = Request(verb, o)
  /\ sent' = sent \cup {pending'}
SendNothing == pending' = NoRequest /\ UNCHANGED sent

Verbs == {"mapping", "open", "search", "close"}
Authorizations ==
  {<<>>} \cup {<<"ApiKey", k>> : k \in Words} \cup {<<"Basic", u, p>> : u \in Words, p \in Words}
Requests == [verb : Verbs, dialect : Dialects, key : {"id", "pit_id"}, auth : Authorizations,
             insecureTLS : BOOLEAN, deadline : Nat \ {0}]
ASSUME RequestAssumption == NoRequest \notin Requests

NoState == SearchState([flavor |-> "", username |-> "", password |-> "", apiKey |-> "",
                        insecureTLS |-> FALSE])
Planned(a) == IF a.target = "null" THEN [NoState EXCEPT !.noInput = TRUE] ELSE SearchState(a)

TypeOK ==
  /\ args \in Arguments /\ cluster \in Clusters /\ pages \in 0..MaxPages
  /\ step \in {"start", "binding", "bound", "planning", "ready", "opening", "searching", "closing",
               "finished", "failed"}
  /\ step \in {"binding", "planning", "opening", "searching", "closing"} <=> pending # NoRequest
  /\ pending # NoRequest => pending \in sent
  /\ sent \subseteq Requests
  /\ state \in [flavor : Flavors \cup {""}, username : Words, password : Words, apiKey : Words,
                insecureTLS : BOOLEAN, pitId : BOOLEAN, done : BOOLEAN, noInput : BOOLEAN]
  /\ pit \in {"none", "open", "closed"}
  /\ got \in 0..(MaxPages + 1)
  /\ declined \in BOOLEAN /\ disturbed \subseteq Verbs /\ disguised \in BOOLEAN

Init ==
  /\ args \in Arguments /\ cluster \in Clusters /\ pages \in 0..MaxPages
  /\ step = "start" /\ pending = NoRequest /\ state = NoState
  /\ pit = "none" /\ got = 0 /\ sent = {}
  /\ declined = FALSE /\ disturbed = {} /\ disguised = FALSE

-----------------------------------------------------------------------------
(* resolveColumns: fields that are given need no cluster, and a target     *)
(* that is null or empty has none.                                         *)
Introspects_IgnoresFields == args.target = "named"
Introspects == ~ args.fields /\ args.target = "named"

OnBind ==
  /\ step = "start"
  /\ IF Introspects
     THEN step' = "binding" /\ Send("mapping", Options(args))
     ELSE step' = "bound" /\ SendNothing
  /\ UNCHANGED <<world, state, pit, got, declined, disturbed, disguised>>

(* NewState: no columns are resolved for a NULL endpoint or index. *)
NewState ==
  /\ step = "bound"
  /\ IF Introspects
     THEN step' = "planning" /\ Send("mapping", Options(args)) /\ UNCHANGED state
     ELSE step' = "ready" /\ state' = Planned(args) /\ SendNothing
  /\ UNCHANGED <<world, pit, got, declined, disturbed, disguised>>

(* Process, to its first request: OpenPIT wants an index, doJSON an        *)
(* endpoint.                                                               *)
Process ==
  /\ step = "ready"
  /\ CASE state.noInput \/ state.done -> step' = "finished" /\ SendNothing
       [] ~ (state.noInput \/ state.done) /\ ~ state.pitId /\ args.target = "empty" ->
            step' = "failed" /\ SendNothing
       [] ~ (state.noInput \/ state.done) /\ ~ state.pitId /\ args.target = "named" ->
            step' = "opening" /\ Send("open", Options(state))
       [] ~ (state.noInput \/ state.done) /\ state.pitId ->
            step' = "searching" /\ Send("search", Options(state))
  /\ UNCHANGED <<world, state, pit, got, declined, disturbed, disguised>>

-----------------------------------------------------------------------------
(* What comes back for a request: the cluster's full answer, another JSON  *)
(* object (an error, a proxy's, a page from which failed shards left hits  *)
(* out), no JSON at all (HTML, a body cut off at maxBody), or nothing.     *)
Answer(status, body) == [status |-> status, body |-> body]
NoAnswer == Answer(0, "none")
Own == Answer(200, "own")
Refusal == Answer(400, "json")

Handshakes(r) == cluster.selfSigned => r.insecureTLS
Serves(r) ==
  /\ Handshakes(r)
  /\ cluster.accepts \in {Everyone, r.auth}
  /\ r.verb \in {"open", "close"} => r.dialect = cluster.dialect
  /\ r.verb = "close" => r.key = IF cluster.dialect = "elasticsearch" THEN "id" ELSE "pit_id"
CarryOut(r) ==
  pit' = IF Serves(r) /\ r.verb = "open" THEN "open"
         ELSE IF Serves(r) /\ r.verb = "close" THEN "closed" ELSE pit

(* doJSON: is there an error?  Only ClosePIT leaves the body undecoded.    *)
Fails_AnyStatus(r, answer) ==
  answer = NoAnswer \/ (answer.body = "garbage" /\ r.verb # "close")
Fails(r, answer) ==
  answer.status # 200 \/ (answer.body = "garbage" /\ r.verb # "close")

Fail == step' = "failed" /\ SendNothing /\ UNCHANGED <<state, got>>

(* GetMapping: another object may decode, into no fields. *)
MappingReturned(answer) ==
  /\ step \in {"binding", "planning"}
  /\ \/ (Fails(pending, answer) \/ answer.body # "own") /\ Fail
     \/ /\ ~ Fails(pending, answer)
        /\ IF step = "binding"
           THEN step' = "bound" /\ UNCHANGED state
           ELSE step' = "ready" /\ state' = Planned(args)
        /\ SendNothing /\ UNCHANGED got

(* OpenPIT: another object has no id; then NextPage searches. *)
OpenReturned(answer) ==
  /\ step = "opening"
  /\ IF Fails(pending, answer) \/ answer.body # "own"
     THEN Fail
     ELSE /\ step' = "searching" /\ state' = [state EXCEPT !.pitId = TRUE]
          /\ Send("search", Options(state)) /\ UNCHANGED got

(* Search: another object decodes into a page without hits, a short one.   *)
SearchReturned(answer) ==
  /\ step = "searching"
  /\ IF Fails(pending, answer)
     THEN Fail
     ELSE IF answer.body = "own" /\ got < pages
     THEN step' = "ready" /\ got' = got + 1 /\ SendNothing /\ UNCHANGED state
     ELSE /\ step' = "closing" /\ state' = [state EXCEPT !.done = TRUE]
          /\ Send("close", Options(state)) /\ UNCHANGED got

(* closePIT ignores what became of the DELETE; the short page is emitted.  *)
CloseReturned(answer) ==
  /\ step = "closing"
  /\ step' = "ready" /\ got' = got + 1 /\ SendNothing /\ UNCHANGED state

Returned(answer) ==
  /\ MappingReturned(answer) \/ OpenReturned(answer) \/ SearchReturned(answer) \/ CloseReturned(answer)
  /\ disguised' = (disguised \/ (answer = Answer(200, "json") /\ pending.verb = "search"))
  /\ UNCHANGED world

(* The cluster serves the request or turns down who asks, and how. *)
Answered ==
  /\ pending # NoRequest
  /\ CarryOut(pending)
  /\ Returned(IF Serves(pending) THEN Own ELSE IF Handshakes(pending) THEN Refusal ELSE NoAnswer)
  /\ UNCHANGED <<declined, disturbed>>

(* Or it turns down what is asked for: an index that is not there, query   *)
(* DSL, a constant or a sort field that it cannot take, a page above its   *)
(* window.  A search fails like that with the PIT open, and NextPage       *)
(* returns before it comes to closePIT.                                    *)
Declined ==
  /\ pending # NoRequest /\ pending.verb \in {"mapping", "open", "search"} /\ Serves(pending)
  /\ UNCHANGED pit /\ Returned(Refusal)
  /\ declined' = (declined \/ pending.verb = "search") /\ UNCHANGED disturbed

(* Or something is in the way: the connection breaks or the answer is cut  *)
(* off, whether or not the request was carried out; or it never gets there *)
(* (the cluster is overloaded, a proxy answers).                           *)
Disturbed ==
  /\ pending # NoRequest
  /\ \/ \E answer \in {NoAnswer, Answer(200, "garbage")} :
          (CarryOut(pending) \/ UNCHANGED pit) /\ Returned(answer)
     \/ \E answer \in {Answer(503, "json"), Answer(200, "json")} :
          UNCHANGED pit /\ Returned(answer)
  /\ disturbed' = disturbed \cup {pending.verb} /\ UNCHANGED declined

(* Or nothing is heard until the deadline, the context's and the client's. *)
Expired ==
  /\ pending # NoRequest /\ pending.deadline > 0
  /\ CarryOut(pending) \/ UNCHANGED pit
  /\ Returned(NoAnswer)
  /\ disturbed' = disturbed \cup {pending.verb} /\ UNCHANGED declined

Worker == OnBind \/ NewState \/ Process \/ Expired
Next == Worker \/ Answered \/ Declined \/ Disturbed

(* Go's timers fire, and the engine drives the query on; nobody promises   *)
(* that the cluster answers.                                               *)
Spec == Init /\ [][Next]_vars /\ WF_vars(Worker)

-----------------------------------------------------------------------------
(* All requests of a query carry the same credentials, trust the same      *)
(* certificates and speak one dialect, those of the bind and those that    *)
(* are rebuilt from the stored state at every tick (Options: "rebuilt from *)
(* plain gob-encodable scan-state fields").                                *)
OneCaller ==
  \A r, q \in sent :
    r.auth = q.auth /\ r.insecureTLS = q.insecureTLS /\ r.dialect = q.dialect

(* With `fields` given nothing is asked before the first tick, and without *)
(* an endpoint and an index nothing is ever asked (functions.go, NewState: *)
(* "NO network I/O except mapping introspection").                         *)
AsksOnlyWhenNeeded ==
  /\ args.target # "named" => sent = {}
  /\ args.fields /\ step \in {"start", "bound"} => sent = {}
  /\ args.fields /\ ~ state.pitId /\ step = "ready" => sent = {}

(* No error is taken for the end of the data: a query that finishes has    *)
(* every page, whatever became of its requests, unless a search was        *)
(* answered 200 with some other object, which Search cannot tell.          *)
ErrorsSurface ==
  step = "finished" /\ args.target = "named" /\ ~ disguised => got = pages + 1

(* What leaves a PIT behind, in either dialect: a finished query only a    *)
(* DELETE that something got in the way of (closePIT ignores its errors,   *)
(* so one in the wrong form would leak every PIT unnoticed), and a failed  *)
(* one only an OpenPIT or a search that something got in the way of, or a  *)
(* search that the cluster turned down: NextPage returns these errors      *)
(* without closePIT, and that PIT stays until its keep_alive is over.      *)
LeavesNoPIT ==
  pit = "open" =>
    /\ step = "finished" => "close" \in disturbed
    /\ step = "failed" => declined \/ disturbed \cap {"open", "search"} # {}

(* Every query ends, also when the cluster never answers again.            *)
QueryEnds == <>(step \in {"finished", "failed"})
-----------------------------------------------------------------------------
(* The inductive invariant behind them.  Every request is the call's own.  *)
Mine(r) ==
  /\ r.auth = ApplyAuth(Options(args)) /\ r.insecureTLS = args.insecureTLS
  /\ r.dialect = Dialect(args.flavor) /\ r.key = PitKey(r.dialect)

(* The state in the plan is of the same caller, and of a target.           *)
Stored ==
  /\ state.noInput <=> args.target = "null"
  /\ args.target # "null" =>
       /\ state.flavor = args.flavor /\ state.insecureTLS = args.insecureTLS
       /\ state.username = args.username /\ state.password = args.password
       /\ state.apiKey = args.apiKey

(* What the query has done at each step.                                   *)
Course ==
  /\ step \in {"start", "binding", "bound", "planning"} => state = NoState
  /\ step \in {"binding", "planning"} => Introspects /\ pending.verb = "mapping"
  /\ step \in {"ready", "opening", "searching", "closing"} => Stored
  /\ step = "opening" => pending.verb = "open" /\ ~ state.pitId
  /\ step = "searching" => pending.verb = "search"
  /\ step = "closing" => pending.verb = "close" /\ state.done
  /\ step \in {"opening", "searching"} => ~ state.done
  /\ step \in {"searching", "closing"} \/ (step = "ready" /\ state.done) => state.pitId
  /\ step \in {"opening", "searching", "closing"} \/ state.pitId => args.target = "named"

(* How many pages the state accounts for.                                  *)
Counts ==
  /\ ~ state.done \/ step = "closing" => got <= pages
  /\ step = "closing" /\ ~ disguised => got = pages
  /\ step = "ready" /\ state.done /\ ~ disguised => got = pages + 1

(* A PIT is open only in a cluster that takes this caller's requests.      *)
Welcome ==
  /\ cluster.selfSigned => args.insecureTLS
  /\ cluster.accepts \in {Everyone, ApplyAuth(Options(args))}
  /\ cluster.dialect = Dialect(args.flavor)

(* Until it ends the query knows of it; and what its end needs to leave it *)
(* behind has happened by then.                                            *)
AccountsForPIT ==
  pit = "open" =>
    /\ Welcome /\ step \in {"ready", "searching", "closing", "finished", "failed"}
    /\ step \in {"ready", "searching", "closing"} => state.pitId
    /\ step = "finished" \/ (step = "ready" /\ state.done) => "close" \in disturbed
    /\ step = "failed" => declined \/ disturbed \cap {"open", "search"} # {}

(* A query's step, state and pages, its requests and its PIT fit together  *)
(* at every moment of it.                                                  *)
IInv ==
  /\ TypeOK /\ \A r \in sent : Mine(r)
  /\ Course /\ Counts /\ AccountsForPIT
  /\ AsksOnlyWhenNeeded /\ ErrorsSurface
=============================================================================
