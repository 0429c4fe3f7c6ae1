----------------------------- MODULE ClientProofs -----------------------------
(***************************************************************************)
(* Theorems about the requests of a query, for any flavors, any result and *)
(* any sequence of answers.                                                *)
(***************************************************************************)
EXTENDS Client, TLAPS

States == [flavor : Flavors \cup {""}, username : Words, password : Words, apiKey : Words,
           insecureTLS : BOOLEAN, pitId : BOOLEAN, done : BOOLEAN, noInput : BOOLEAN]
Answers == {Own, Refusal, NoAnswer} \cup
           {Answer(200, "garbage"), Answer(503, "json"), Answer(200, "json")}

(* What Options makes of a source of options.                              *)
LEMMA OptionsFields ==
  ASSUME NEW from
  PROVE  /\ Options(from).dialect = Dialect(from.flavor)
         /\ Options(from).username = from.username /\ Options(from).password = from.password
         /\ Options(from).apiKey = from.apiKey /\ Options(from).insecureTLS = from.insecureTLS
         /\ Options(from).timeout = 0
BY DEF Options

(* The header is one of few, and depends on the credentials only.          *)
LEMMA AuthWellFormed ==
  ASSUME NEW o, o.username \in Words, o.password \in Words, o.apiKey \in Words
  PROVE  ApplyAuth(o) \in Authorizations
<1>1. CASE o.apiKey # ""
  <2>1. ApplyAuth(o) = <<"ApiKey", o.apiKey>>
    BY <1>1 DEF ApplyAuth
  <2> QED BY <2>1 DEF Authorizations
<1>2. CASE o.apiKey = "" /\ (o.username # "" \/ o.password # "")
  <2>1. ApplyAuth(o) = <<"Basic", o.username, o.password>>
    BY <1>2 DEF ApplyAuth
  <2> QED BY <2>1 DEF Authorizations
<1>3. CASE o.apiKey = "" /\ o.username = "" /\ o.password = ""
  <2>1. ApplyAuth(o) = <<>>
    BY <1>3 DEF ApplyAuth
  <2> QED BY <2>1 DEF Authorizations
<1> QED BY <1>1, <1>2, <1>3

LEMMA AuthByCredentials ==
  ASSUME NEW o, NEW p, o.username = p.username, o.password = p.password, o.apiKey = p.apiKey
  PROVE  ApplyAuth(o) = ApplyAuth(p)
BY Zenon DEF ApplyAuth

(* A request is well-formed, and that of the options it is made of.        *)
LEMMA RequestFields ==
  ASSUME NEW verb \in Verbs, NEW from, from.username \in Words, from.password \in Words,
         from.apiKey \in Words, from.insecureTLS \in BOOLEAN
  PROVE  LET r == Request(verb, Options(from)) IN
         /\ r \in Requests /\ r # NoRequest
         /\ r.verb = verb /\ r.auth = ApplyAuth(Options(from))
         /\ r.insecureTLS = from.insecureTLS /\ r.dialect = Dialect(from.flavor)
         /\ r.key = PitKey(r.dialect) /\ r.deadline > 0
<1> DEFINE r == Request(verb, Options(from))
<1>1. /\ r.verb = verb /\ r.dialect = Dialect(from.flavor) /\ r.key = PitKey(r.dialect)
      /\ r.auth = ApplyAuth(Options(from)) /\ r.insecureTLS = from.insecureTLS
      /\ r.deadline = Deadline(0)
  BY OptionsFields DEF Request
<1>2. Deadline(0) \in Nat \ {0}
  BY DEF Deadline, DefaultTimeout
<1>3. Dialect(from.flavor) \in Dialects /\ PitKey(Dialect(from.flavor)) \in {"id", "pit_id"}
  BY DEF Dialect, Dialects, PitKey
<1>4. r \in Requests
  <2>1. ApplyAuth(Options(from)) \in Authorizations
    BY OptionsFields, AuthWellFormed
  <2> QED BY <1>2, <1>3, <2>1, OptionsFields DEF Request, Requests
<1> QED BY <1>1, <1>2, <1>4, RequestAssumption

(* What the arguments, the empty state and the planned one hold.           *)
LEMMA ArgumentFields ==
  ASSUME args \in Arguments
  PROVE  /\ args.target \in {"null", "empty", "named"} /\ args.fields \in BOOLEAN
         /\ args.flavor \in Flavors /\ args.insecureTLS \in BOOLEAN
         /\ args.username \in Words /\ args.password \in Words /\ args.apiKey \in Words
BY DEF Arguments

LEMMA PlannedState ==
  ASSUME args \in Arguments
  PROVE  /\ Planned(args) \in States /\ NoState \in States
         /\ ~ Planned(args).pitId /\ ~ Planned(args).done
         /\ ~ NoState.pitId /\ ~ NoState.done
         /\ Planned(args).noInput <=> args.target = "null"
         /\ args.target # "null" =>
              /\ Planned(args).flavor = args.flavor /\ Planned(args).insecureTLS = args.insecureTLS
              /\ Planned(args).username = args.username /\ Planned(args).password = args.password
              /\ Planned(args).apiKey = args.apiKey
BY ArgumentFields DEF Planned, NoState, SearchState, States, Words

(* What the caller sends from the arguments, or from a state that stores   *)
(* them, is its own.                                                       *)
LEMMA SentIsMine ==
  ASSUME IInv, NEW verb \in Verbs, NEW from, Send(verb, Options(from)), args' = args,
         from = args \/ (from = state /\ Stored /\ args.target = "named")
  PROVE  /\ pending' # NoRequest /\ pending'.verb = verb /\ pending' \in sent'
         /\ sent' \subseteq Requests /\ \A r \in sent' : Mine(r)'
<1>1. args \in Arguments /\ state \in States /\ sent \subseteq Requests
  BY DEF IInv, TypeOK, States
<1>2. /\ from.username = args.username /\ from.password = args.password
      /\ from.apiKey = args.apiKey /\ from.insecureTLS = args.insecureTLS
      /\ from.flavor = args.flavor
  BY DEF Stored
<1>3. /\ from.username \in Words /\ from.password \in Words /\ from.apiKey \in Words
      /\ from.insecureTLS \in BOOLEAN
  BY <1>1, <1>2, ArgumentFields
<1>4. ApplyAuth(Options(from)) = ApplyAuth(Options(args))
  BY <1>2, OptionsFields, AuthByCredentials
<1>5. pending' = Request(verb, Options(from)) /\ sent' = sent \cup {pending'}
  BY DEF Send
<1>6. /\ pending' \in Requests /\ pending' # NoRequest /\ pending'.verb = verb
      /\ pending'.auth = ApplyAuth(Options(args)) /\ pending'.insecureTLS = args.insecureTLS
      /\ pending'.dialect = Dialect(args.flavor) /\ pending'.key = PitKey(pending'.dialect)
  BY <1>2, <1>3, <1>4, <1>5, RequestFields
<1>7. ASSUME NEW r, r = pending' PROVE Mine(r)'
  BY <1>6, <1>7 DEF Mine, Options
<1>8. \A r \in sent : Mine(r)'
  BY DEF IInv, Mine, Options
<1> QED BY <1>1, <1>5, <1>6, <1>7, <1>8

(* A step that sends nothing leaves no request in flight.                  *)
LEMMA NothingSent ==
  ASSUME IInv, SendNothing, args' = args
  PROVE  /\ pending' = NoRequest /\ sent' = sent
         /\ sent' \subseteq Requests /\ \A r \in sent' : Mine(r)'
BY DEF IInv, TypeOK, SendNothing, Mine, Options

LEMMA InitCoherent == Init => IInv
<1> SUFFICES ASSUME Init PROVE IInv
  OBVIOUS
<1>1. args \in Arguments /\ state = NoState /\ step = "start" /\ sent = {} /\ pending = NoRequest
  BY DEF Init
<1>2. TypeOK
  <2>1. state \in States /\ sent \subseteq Requests
    BY <1>1, PlannedState
  <2>2. 0 \in 0..(MaxPages + 1)
    BY ClientAssumption
  <2> QED BY <1>1, <2>1, <2>2 DEF Init, TypeOK, States
<1>3. Course /\ Counts /\ AccountsForPIT
  BY <1>1, PlannedState, ClientAssumption DEF Init, Course, Counts, AccountsForPIT
<1>4. AsksOnlyWhenNeeded /\ ErrorsSurface
  BY <1>1 DEF AsksOnlyWhenNeeded, ErrorsSurface
<1> QED BY <1>1, <1>2, <1>3, <1>4 DEF IInv

(* The variables that TypeOK constrains, by name.                          *)
LEMMA Types ==
  ASSUME IInv
  PROVE  /\ args \in Arguments /\ cluster \in Clusters /\ pages \in Nat /\ got \in Nat
         /\ pages <= MaxPages /\ got <= MaxPages + 1 /\ state \in States /\ sent \subseteq Requests
         /\ pending # NoRequest => pending \in sent /\ pending \in Requests /\ Mine(pending)
         /\ declined \in BOOLEAN /\ disturbed \subseteq Verbs /\ disguised \in BOOLEAN
<1>1. TypeOK /\ \A r \in sent : Mine(r)
  BY DEF IInv
<1>2. pages \in Nat /\ got \in Nat /\ pages <= MaxPages /\ got <= MaxPages + 1
  <2>1. pages \in 0..MaxPages /\ got \in 0..(MaxPages + 1)
    BY <1>1 DEF TypeOK
  <2> QED BY <2>1, ClientAssumption DEF ClientAssumption
<1> QED BY <1>1, <1>2 DEF TypeOK, States

-----------------------------------------------------------------------------
LEMMA OnBindKeeps ==
  ASSUME IInv, OnBind
  PROVE  IInv'
<1>1. /\ UNCHANGED <<args, cluster, pages, state, pit, got, declined, disturbed, disguised>>
      /\ step = "start"
      /\ IF Introspects THEN step' = "binding" /\ Send("mapping", Options(args))
                        ELSE step' = "bound" /\ SendNothing
  BY DEF OnBind, world
<1>2. /\ sent' \subseteq Requests /\ \A r \in sent' : Mine(r)'
      /\ step' \in {"binding", "bound"}
      /\ step' = "binding" <=> pending' # NoRequest
      /\ pending' # NoRequest => pending' \in sent'
      /\ step' = "binding" => Introspects /\ pending'.verb = "mapping"
      /\ step' = "bound" => ~ Introspects /\ sent' = sent
  <2>1. CASE Introspects
    BY <1>1, <2>1, SentIsMine DEF Verbs
  <2>2. CASE ~ Introspects
    BY <1>1, <2>2, NothingSent
  <2> QED BY <2>1, <2>2
<1>3. TypeOK'
  BY <1>1, <1>2 DEF IInv, TypeOK
<1>4. Course'
  BY <1>1, <1>2 DEF IInv, Course, Introspects
<1>5. Counts' /\ AccountsForPIT'
  BY <1>1, <1>2 DEF IInv, Counts, AccountsForPIT, Welcome, Options, Course
<1>6. AsksOnlyWhenNeeded' /\ ErrorsSurface'
  BY <1>1, <1>2 DEF IInv, AsksOnlyWhenNeeded, ErrorsSurface, Introspects
<1> QED BY <1>2, <1>3, <1>4, <1>5, <1>6 DEF IInv

LEMMA NewStateKeeps ==
  ASSUME IInv, NewState
  PROVE  IInv'
<1>1. /\ UNCHANGED <<args, cluster, pages, pit, got, declined, disturbed, disguised>>
      /\ step = "bound"
      /\ IF Introspects THEN step' = "planning" /\ Send("mapping", Options(args)) /\ state' = state
                        ELSE step' = "ready" /\ state' = Planned(args) /\ SendNothing
  BY DEF NewState, world
<1>2. /\ sent' \subseteq Requests /\ \A r \in sent' : Mine(r)'
      /\ step' \in {"planning", "ready"}
      /\ step' = "planning" <=> pending' # NoRequest
      /\ pending' # NoRequest => pending' \in sent'
      /\ step' = "planning" => Introspects /\ pending'.verb = "mapping" /\ state' = state
      /\ step' = "ready" => ~ Introspects /\ sent' = sent /\ state' = Planned(args)
  <2>1. CASE Introspects
    BY <1>1, <2>1, SentIsMine DEF Verbs
  <2>2. CASE ~ Introspects
    BY <1>1, <2>2, NothingSent
  <2> QED BY <2>1, <2>2
<1>3. state = NoState /\ state' \in States /\ ~ state'.pitId /\ ~ state'.done /\ ~ state.done
  BY <1>1, <1>2, Types, PlannedState DEF IInv, Course
<1>4. TypeOK'
  BY <1>1, <1>2, <1>3 DEF IInv, TypeOK, States
<1>5. Course'
  BY <1>1, <1>2, <1>3, Types, PlannedState DEF IInv, Course, Introspects, Stored
<1>6. Counts' /\ AccountsForPIT'
  BY <1>1, <1>2, <1>3 DEF IInv, Counts, AccountsForPIT, Welcome, Options
<1>7. AsksOnlyWhenNeeded' /\ ErrorsSurface'
  BY <1>1, <1>2 DEF IInv, AsksOnlyWhenNeeded, ErrorsSurface, Introspects
<1> QED BY <1>2, <1>4, <1>5, <1>6, <1>7 DEF IInv

LEMMA ProcessKeeps ==
  ASSUME IInv, Process
  PROVE  IInv'
<1>1. /\ UNCHANGED <<args, cluster, pages, state, pit, got, declined, disturbed, disguised>>
      /\ step = "ready" /\ Stored /\ args.target \in {"null", "empty", "named"}
      /\ state \in States /\ (state.pitId => args.target = "named")
      /\ state.done => state.pitId
  BY Types, ArgumentFields DEF Process, world, IInv, Course
<1>2. \/ (state.noInput \/ state.done) /\ step' = "finished" /\ SendNothing
      \/ ~ state.done /\ ~ state.pitId /\ args.target = "empty" /\ step' = "failed" /\ SendNothing
      \/ /\ ~ state.done /\ ~ state.pitId /\ args.target = "named"
         /\ step' = "opening" /\ Send("open", Options(state))
      \/ /\ ~ state.done /\ state.pitId
         /\ step' = "searching" /\ Send("search", Options(state))
  BY <1>1 DEF Process, Stored, States
<1>3. /\ sent' \subseteq Requests /\ \A r \in sent' : Mine(r)'
      /\ step' \in {"opening", "searching"} <=> pending' # NoRequest
      /\ pending' # NoRequest => pending' \in sent'
      /\ step' = "opening" => pending'.verb = "open"
      /\ step' = "searching" => pending'.verb = "search"
      /\ args.target # "named" => sent' = sent
  <2>1. CASE step' \in {"finished", "failed"} /\ SendNothing
    BY <1>1, <2>1, NothingSent
  <2>2. CASE args.target = "named" /\ step' = "opening" /\ Send("open", Options(state))
    BY <1>1, <2>2, SentIsMine DEF Verbs
  <2>3. CASE args.target = "named" /\ step' = "searching" /\ Send("search", Options(state))
    BY <1>1, <2>3, SentIsMine DEF Verbs
  <2> QED BY <1>1, <1>2, <2>1, <2>2, <2>3
<1>4. TypeOK'
  BY <1>1, <1>2, <1>3 DEF IInv, TypeOK, States
<1>5. Course'
  BY <1>1, <1>2, <1>3 DEF IInv, Course, Stored
<1>6. Counts' /\ AccountsForPIT'
  <2>1. state.noInput => ~ state.pitId
    BY <1>1 DEF Stored
  <2> QED BY <1>1, <1>2, <2>1 DEF IInv, Counts, AccountsForPIT, Welcome, Options
<1>7. AsksOnlyWhenNeeded'
  BY <1>1, <1>2, <1>3 DEF IInv, AsksOnlyWhenNeeded
<1>8. ErrorsSurface'
  BY <1>1, <1>2 DEF IInv, Counts, ErrorsSurface, Stored
<1> QED BY <1>3, <1>4, <1>5, <1>6, <1>7, <1>8 DEF IInv

-----------------------------------------------------------------------------
(* What an answer finds: a request in flight, of the caller.               *)
LEMMA InFlight ==
  ASSUME IInv, NEW answer, Returned(answer)
  PROVE  /\ step \in {"binding", "planning", "opening", "searching", "closing"}
         /\ pending # NoRequest /\ pending \in Requests /\ Mine(pending)
         /\ UNCHANGED <<args, cluster, pages>>
<1>1. step \in {"binding", "planning", "opening", "searching", "closing"}
  BY DEF Returned, MappingReturned, OpenReturned, SearchReturned, CloseReturned
<1>2. pending # NoRequest
  BY <1>1 DEF IInv, TypeOK
<1> QED BY <1>1, <1>2, Types DEF Returned, world

(* A caller that the cluster lets in, or whose request it has served, is   *)
(* welcome; its requests are not turned away.                              *)
LEMMA ServedIfWelcome ==
  ASSUME IInv, pending # NoRequest
  PROVE  /\ Welcome => Serves(pending)
         /\ pending.verb \in {"open", "close"} /\ Serves(pending) => Welcome
<1>1. Mine(pending) /\ cluster.dialect \in Dialects
  BY Types DEF Clusters
<1>2. PitKey(cluster.dialect) = IF cluster.dialect = "elasticsearch" THEN "id" ELSE "pit_id"
  BY DEF PitKey
<1>3. Welcome => Serves(pending)
  BY <1>1, <1>2 DEF Serves, Handshakes, Welcome, Mine
<1>4. pending.verb \in {"open", "close"} /\ Serves(pending) => Welcome
  BY <1>1 DEF Serves, Handshakes, Welcome, Mine
<1> QED BY <1>3, <1>4

(* The states and requests after an answer, step by step.                  *)
LEMMA MappingStep ==
  ASSUME IInv, NEW answer, Returned(answer), MappingReturned(answer)
  PROVE  /\ step \in {"binding", "planning"} /\ SendNothing /\ got' = got
         /\ \/ step' = "failed" /\ state' = state
            \/ step = "binding" /\ step' = "bound" /\ state' = state
            \/ step = "planning" /\ step' = "ready" /\ state' = Planned(args)
BY DEF MappingReturned, Fail

LEMMA OpenStep ==
  ASSUME IInv, NEW answer, Returned(answer), OpenReturned(answer)
  PROVE  /\ step = "opening" /\ got' = got
         /\ \/ step' = "failed" /\ state' = state /\ SendNothing
            \/ /\ step' = "searching" /\ state' = [state EXCEPT !.pitId = TRUE]
               /\ Send("search", Options(state))
         /\ answer = Own => step' = "searching"
BY DEF OpenReturned, Fail, Fails, Own, Answer

LEMMA SearchStep ==
  ASSUME IInv, NEW answer \in Answers, Returned(answer), SearchReturned(answer)
  PROVE  /\ step = "searching"
         /\ \/ step' = "failed" /\ state' = state /\ SendNothing /\ got' = got
            \/ step' = "ready" /\ state' = state /\ SendNothing /\ got' = got + 1 /\ got < pages
            \/ /\ step' = "closing" /\ state' = [state EXCEPT !.done = TRUE]
               /\ Send("close", Options(state)) /\ got' = got
               /\ got >= pages \/ disguised'
         /\ answer = Own => step' # "failed"
<1>1. step = "searching" /\ pending.verb = "search"
  BY DEF SearchReturned, IInv, Course
<1>2. CASE Fails(pending, answer)
  <2>1. answer # Own
    BY <1>1, <1>2 DEF Fails, Own, Answer
  <2> QED BY <1>1, <1>2, <2>1 DEF SearchReturned, Fail
<1>3. CASE ~ Fails(pending, answer) /\ answer.body = "own" /\ got < pages
  BY <1>1, <1>3 DEF SearchReturned
<1>4. CASE ~ Fails(pending, answer) /\ ~ (answer.body = "own" /\ got < pages)
  <2>1. /\ step' = "closing" /\ state' = [state EXCEPT !.done = TRUE]
        /\ Send("close", Options(state)) /\ got' = got
    BY <1>4 DEF SearchReturned
  <2>2. CASE answer.body = "own"
    BY <1>1, <1>4, <2>1, <2>2, Types
  <2>3. CASE answer.body # "own"
    <3>1. answer = Answer(200, "json")
      BY <1>1, <1>4, <2>3 DEF Fails, Answers, Answer, Own, Refusal, NoAnswer
    <3> QED BY <1>1, <2>1, <3>1 DEF Returned
  <2> QED BY <2>2, <2>3
<1> QED BY <1>2, <1>3, <1>4

LEMMA CloseStep ==
  ASSUME IInv, NEW answer, Returned(answer), CloseReturned(answer)
  PROVE  step = "closing" /\ step' = "ready" /\ got' = got + 1 /\ SendNothing /\ state' = state
BY DEF CloseReturned

(* The four kinds of answer, and what follows from each for the query.     *)
LEMMA ReturnedKeeps ==
  ASSUME IInv, NEW answer \in Answers, Returned(answer),
         pit' \in {"none", "open", "closed"}, declined' \in BOOLEAN,
         disturbed' \subseteq Verbs, AccountsForPIT'
  PROVE  IInv'
<1>1. /\ UNCHANGED <<args, cluster, pages>> /\ disguised' \in BOOLEAN
      /\ disguised => disguised'
      /\ got \in Nat /\ pages \in Nat /\ pages <= MaxPages /\ MaxPages \in Nat
      /\ state \in States /\ args \in Arguments
  BY InFlight, Types, ClientAssumption DEF Returned
<1>2. SUFFICES /\ sent' \subseteq Requests /\ \A r \in sent' : Mine(r)'
               /\ pending' # NoRequest => pending' \in sent'
               /\ step' \in {"binding", "planning", "opening", "searching", "closing"}
                    <=> pending' # NoRequest
               /\ step' \in {"bound", "ready", "searching", "closing", "failed"}
               /\ state' \in States /\ got' \in 0..(MaxPages + 1)
               /\ Course' /\ Counts' /\ AsksOnlyWhenNeeded' /\ ErrorsSurface'
  <2>1. TypeOK'
    BY <1>1, <1>2 DEF IInv, TypeOK, States
  <2> QED BY <1>2, <2>1 DEF IInv
<1>3. CASE MappingReturned(answer)
  <2>1. /\ step \in {"binding", "planning"} /\ SendNothing /\ got' = got
        /\ \/ step' = "failed" /\ state' = state
           \/ step = "binding" /\ step' = "bound" /\ state' = state
           \/ step = "planning" /\ step' = "ready" /\ state' = Planned(args)
    BY <1>3, MappingStep
  <2>2. /\ pending' = NoRequest /\ sent' = sent
        /\ sent' \subseteq Requests /\ \A r \in sent' : Mine(r)'
    BY <1>1, <2>1, NothingSent
  <2>3. /\ state = NoState /\ ~ state.done /\ ~ state.pitId /\ Introspects
        /\ state' \in States /\ ~ state'.done /\ ~ state'.pitId /\ got <= pages
    BY <1>1, <2>1, PlannedState DEF IInv, Course, Counts
  <2>4. Course'
    BY <1>1, <2>1, <2>2, <2>3, PlannedState DEF Course, Stored
  <2>5. Counts' /\ AsksOnlyWhenNeeded' /\ ErrorsSurface'
    BY <1>1, <2>1, <2>2, <2>3 DEF Counts, AsksOnlyWhenNeeded, ErrorsSurface, Introspects, IInv
  <2>6. got' \in 0..(MaxPages + 1)
    BY <1>1, <2>1, <2>3
  <2> QED BY <2>1, <2>2, <2>3, <2>4, <2>5, <2>6
<1>4. CASE OpenReturned(answer)
  <2>1. /\ step = "opening" /\ got' = got
        /\ \/ step' = "failed" /\ state' = state /\ SendNothing
           \/ /\ step' = "searching" /\ state' = [state EXCEPT !.pitId = TRUE]
              /\ Send("search", Options(state))
    BY <1>4, OpenStep
  <2>2. Stored /\ args.target = "named" /\ ~ state.done /\ got <= pages
    BY <2>1 DEF IInv, Course, Counts
  <2>3. /\ sent' \subseteq Requests /\ \A r \in sent' : Mine(r)'
        /\ \/ step' = "failed" /\ pending' = NoRequest /\ sent' = sent
           \/ /\ step' = "searching" /\ pending' # NoRequest
              /\ pending'.verb = "search" /\ pending' \in sent'
    <3>1. CASE step' = "failed" /\ SendNothing
      BY <1>1, <3>1, NothingSent
    <3>2. CASE step' = "searching" /\ Send("search", Options(state))
      BY <1>1, <2>2, <3>2, SentIsMine DEF Verbs
    <3> QED BY <2>1, <3>1, <3>2
  <2>4. /\ state' \in States /\ ~ state'.done /\ state'.noInput = state.noInput
        /\ step' = "searching" => state'.pitId
        /\ state'.flavor = state.flavor /\ state'.username = state.username
        /\ state'.password = state.password /\ state'.apiKey = state.apiKey
        /\ state'.insecureTLS = state.insecureTLS
    BY <1>1, <2>1, <2>2 DEF States
  <2>5. Course'
    BY <1>1, <2>1, <2>2, <2>3, <2>4 DEF Course, Stored
  <2>6. Counts' /\ AsksOnlyWhenNeeded' /\ ErrorsSurface'
    BY <1>1, <2>1, <2>2, <2>3, <2>4 DEF Counts, AsksOnlyWhenNeeded, ErrorsSurface
  <2>7. got' \in 0..(MaxPages + 1)
    BY <1>1, <2>1, <2>2
  <2> QED BY <2>1, <2>3, <2>4, <2>5, <2>6, <2>7
<1>5. CASE SearchReturned(answer)
  <2>1. /\ step = "searching"
        /\ \/ step' = "failed" /\ state' = state /\ SendNothing /\ got' = got
           \/ step' = "ready" /\ state' = state /\ SendNothing /\ got' = got + 1 /\ got < pages
           \/ /\ step' = "closing" /\ state' = [state EXCEPT !.done = TRUE]
              /\ Send("close", Options(state)) /\ got' = got
              /\ got >= pages \/ disguised'
    BY <1>5, SearchStep
  <2>2. /\ Stored /\ args.target = "named" /\ ~ state.done /\ state.pitId /\ got <= pages
    BY <2>1 DEF IInv, Course, Counts
  <2>3. /\ sent' \subseteq Requests /\ \A r \in sent' : Mine(r)'
        /\ \/ step' \in {"failed", "ready"} /\ pending' = NoRequest /\ sent' = sent
           \/ /\ step' = "closing" /\ pending' # NoRequest
              /\ pending'.verb = "close" /\ pending' \in sent'
    <3>1. CASE step' \in {"failed", "ready"} /\ SendNothing
      BY <1>1, <3>1, NothingSent
    <3>2. CASE step' = "closing" /\ Send("close", Options(state))
      BY <1>1, <2>2, <3>2, SentIsMine DEF Verbs
    <3> QED BY <2>1, <3>1, <3>2
  <2>4. /\ state' \in States /\ state'.noInput = state.noInput /\ state'.pitId
        /\ IF step' = "closing" THEN state'.done ELSE ~ state'.done
        /\ state'.flavor = state.flavor /\ state'.username = state.username
        /\ state'.password = state.password /\ state'.apiKey = state.apiKey
        /\ state'.insecureTLS = state.insecureTLS
    BY <1>1, <2>1, <2>2 DEF States
  <2>5. Course'
    BY <1>1, <2>1, <2>2, <2>3, <2>4 DEF Course, Stored
  <2>6. Counts' /\ AsksOnlyWhenNeeded' /\ ErrorsSurface'
    BY <1>1, <2>1, <2>2, <2>3, <2>4 DEF Counts, AsksOnlyWhenNeeded, ErrorsSurface
  <2>7. got' \in 0..(MaxPages + 1)
    BY <1>1, <2>1, <2>2
  <2> QED BY <2>1, <2>3, <2>4, <2>5, <2>6, <2>7
<1>6. CASE CloseReturned(answer)
  <2>1. step = "closing" /\ step' = "ready" /\ got' = got + 1 /\ SendNothing /\ state' = state
    BY <1>6, CloseStep
  <2>2. /\ pending' = NoRequest /\ sent' = sent
        /\ sent' \subseteq Requests /\ \A r \in sent' : Mine(r)'
    BY <1>1, <2>1, NothingSent
  <2>3. /\ Stored /\ args.target = "named" /\ state.done /\ state.pitId
        /\ got <= pages /\ (~ disguised => got = pages)
    BY <2>1 DEF IInv, Course, Counts
  <2>4. Course'
    BY <1>1, <2>1, <2>2, <2>3 DEF Course, Stored
  <2>5. Counts' /\ AsksOnlyWhenNeeded' /\ ErrorsSurface'
    BY <1>1, <2>1, <2>2, <2>3 DEF Counts, AsksOnlyWhenNeeded, ErrorsSurface
  <2>6. got' \in 0..(MaxPages + 1)
    BY <1>1, <2>1, <2>3
  <2> QED BY <1>1, <2>1, <2>2, <2>3, <2>4, <2>5, <2>6
<1> QED BY <1>3, <1>4, <1>5, <1>6 DEF Returned

(* The steps to which an answer leads.                                     *)
LEMMA NextStep ==
  ASSUME IInv, NEW answer, Returned(answer)
  PROVE  /\ step \in {"binding", "planning"} => step' \in {"failed", "bound", "ready"}
         /\ step = "opening" => step' \in {"failed", "searching"}
         /\ step = "searching" => step' \in {"failed", "ready", "closing"}
         /\ step = "closing" => step' = "ready"
         /\ step \in {"binding", "planning", "opening", "searching", "closing"}
         /\ step = "closing" \/ (step = "searching" /\ step' = "ready") => state' = state
         /\ step = "opening" /\ step' = "searching" => state' = [state EXCEPT !.pitId = TRUE]
         /\ step = "searching" /\ step' = "closing" => state' = [state EXCEPT !.done = TRUE]
BY DEF Returned, MappingReturned, OpenReturned, SearchReturned, CloseReturned, Fail

(* The kind of the request in flight.                                      *)
LEMMA VerbOf ==
  ASSUME IInv, pending # NoRequest
  PROVE  /\ step \in {"binding", "planning"} => pending.verb = "mapping"
         /\ step = "opening" => pending.verb = "open"
         /\ step = "searching" => pending.verb = "search"
         /\ step = "closing" => pending.verb = "close"
         /\ pending.verb \in Verbs
BY Types DEF IInv, Course, Requests

(* Whether it was carried out or not, an answer leaves the PIT accounted   *)
(* for, when what it makes of a failure or a DELETE is on record.          *)
LEMMA PITAccounted ==
  ASSUME IInv, NEW answer, Returned(answer), pending # NoRequest,
         CarryOut(pending) \/ pit' = pit,
         declined => declined', disturbed \subseteq disturbed',
         step = "opening" /\ step' = "failed" /\ Serves(pending) => pit' = pit \/ "open" \in disturbed',
         step = "searching" /\ step' = "failed" /\ Serves(pending) =>
           declined' \/ "search" \in disturbed',
         step = "closing" /\ Serves(pending) => pit' # "open" \/ "close" \in disturbed'
  PROVE  AccountsForPIT'
<1> SUFFICES ASSUME pit' = "open" PROVE AccountsForPIT'
  BY DEF AccountsForPIT
<1>1. UNCHANGED <<args, cluster, pages>> /\ state \in States
  BY InFlight, Types
<1>2. /\ AccountsForPIT /\ (Welcome => Serves(pending))
      /\ pending.verb \in {"open", "close"} /\ Serves(pending) => Welcome
  BY ServedIfWelcome DEF IInv
<1>3. pit = "open" \/ (Serves(pending) /\ pending.verb = "open")
  BY DEF CarryOut
<1>4. Welcome /\ Welcome' /\ Serves(pending)
  <2>1. Welcome' = Welcome
    BY <1>1 DEF Welcome, Options
  <2>2. Welcome
    BY <1>2, <1>3 DEF AccountsForPIT
  <2> QED BY <1>2, <2>1, <2>2
<1>5. CASE step = "opening"
  <2>1. pit # "open" /\ step' \in {"failed", "searching"}
    BY <1>2, <1>5, NextStep DEF AccountsForPIT
  <2>2. step' = "searching" => state'.pitId
    BY <1>1, <1>5, NextStep DEF States
  <2> QED BY <1>4, <1>5, <2>1, <2>2 DEF AccountsForPIT
<1>6. CASE step = "searching"
  <2>1. ~ state.done /\ state.pitId /\ step' \in {"failed", "ready", "closing"}
    BY <1>6, NextStep DEF IInv, Course
  <2>2. step' # "failed" => state'.pitId
    BY <1>1, <1>6, <2>1, NextStep DEF States
  <2>3. step' = "ready" => ~ state'.done
    BY <1>6, <2>1, NextStep
  <2> QED BY <1>4, <1>6, <2>1, <2>2, <2>3 DEF AccountsForPIT
<1>7. CASE step = "closing"
  <2>1. step' = "ready" /\ state' = state /\ state.pitId
    BY <1>7, NextStep DEF IInv, Course
  <2> QED BY <1>4, <1>7, <2>1 DEF AccountsForPIT
<1>8. CASE step \in {"binding", "planning"}
  BY <1>2, <1>3, <1>8, VerbOf DEF AccountsForPIT
<1> QED BY <1>5, <1>6, <1>7, <1>8, NextStep

LEMMA AnsweredKeeps ==
  ASSUME IInv, Answered
  PROVE  IInv'
<1> DEFINE answer == IF Serves(pending) THEN Own ELSE IF Handshakes(pending) THEN Refusal ELSE NoAnswer
<1>1. /\ Returned(answer) /\ answer \in Answers /\ CarryOut(pending)
      /\ declined' = declined /\ disturbed' = disturbed /\ pending # NoRequest
  BY DEF Answered, Answers
<1>2. pit' \in {"none", "open", "closed"} /\ declined' \in BOOLEAN /\ disturbed' \subseteq Verbs
  BY <1>1, Types DEF CarryOut, IInv, TypeOK
<1>3. step \in {"opening", "searching"} /\ Serves(pending) => step' # "failed"
  <2> SUFFICES ASSUME step \in {"opening", "searching"}, Serves(pending) PROVE step' # "failed"
    OBVIOUS
  <2>1. answer = Own
    OBVIOUS
  <2>2. CASE step = "opening"
    <3>1. OpenReturned(answer)
      BY <1>1, <2>2 DEF Returned, MappingReturned, SearchReturned, CloseReturned
    <3> QED BY <1>1, <2>1, <3>1, OpenStep
  <2>3. CASE step = "searching"
    <3>1. SearchReturned(answer)
      BY <1>1, <2>3 DEF Returned, MappingReturned, OpenReturned, CloseReturned
    <3> QED BY <1>1, <2>1, <3>1, SearchStep
  <2> QED BY <2>2, <2>3
<1>4. step = "closing" /\ Serves(pending) => pit' # "open"
  BY <1>1, VerbOf DEF CarryOut
<1> HIDE DEF answer
<1>5. AccountsForPIT'
  BY <1>1, <1>3, <1>4, PITAccounted
<1> QED BY <1>1, <1>2, <1>5, ReturnedKeeps

LEMMA DeclinedKeeps ==
  ASSUME IInv, Declined
  PROVE  IInv'
<1>1. /\ Returned(Refusal) /\ Refusal \in Answers /\ pending # NoRequest /\ pit' = pit
      /\ pending.verb \in {"mapping", "open", "search"}
      /\ declined' = (declined \/ pending.verb = "search") /\ disturbed' = disturbed
  BY DEF Declined, Answers
<1>2. pit' \in {"none", "open", "closed"} /\ declined' \in BOOLEAN /\ disturbed' \subseteq Verbs
  BY <1>1, Types DEF IInv, TypeOK
<1>3. step # "closing" /\ (step = "searching" => declined') /\ (declined => declined')
  BY <1>1, VerbOf
<1>4. AccountsForPIT'
  BY <1>1, <1>3, PITAccounted
<1> QED BY <1>1, <1>2, <1>4, ReturnedKeeps

LEMMA BrokenKeeps ==
  ASSUME IInv, NEW answer \in Answers, pending # NoRequest, Returned(answer),
         CarryOut(pending) \/ pit' = pit, disturbed' = disturbed \cup {pending.verb},
         declined' = declined
  PROVE  IInv'
<1>1. pit' \in {"none", "open", "closed"} /\ declined' \in BOOLEAN /\ disturbed' \subseteq Verbs
  BY Types, VerbOf DEF CarryOut, IInv, TypeOK
<1>2. AccountsForPIT'
  BY PITAccounted, VerbOf
<1> QED BY <1>1, <1>2, ReturnedKeeps

(* The inductive step: one case per action.                                *)
LEMMA StepCoherent ==
  ASSUME IInv, [Next]_vars
  PROVE  IInv'
<1>1. CASE OnBind
  BY <1>1, OnBindKeeps
<1>2. CASE NewState
  BY <1>2, NewStateKeeps
<1>3. CASE Process
  BY <1>3, ProcessKeeps
<1>4. CASE Expired
  <2>1. NoAnswer \in Answers
    BY DEF Answers
  <2> QED BY <1>4, <2>1, BrokenKeeps DEF Expired
<1>5. CASE Answered
  BY <1>5, AnsweredKeeps
<1>6. CASE Disturbed
  <2>1. PICK answer \in Answers : Returned(answer) /\ (CarryOut(pending) \/ pit' = pit)
    BY <1>6 DEF Disturbed, Answers
  <2> QED BY <1>6, <2>1, BrokenKeeps DEF Disturbed
<1>7. CASE UNCHANGED vars
  <2>1. /\ UNCHANGED <<args, cluster, pages, step, pending, state, pit, got, sent>>
        /\ UNCHANGED <<declined, disturbed, disguised>>
    BY <1>7 DEF vars, world
  <2>2. TypeOK' /\ (\A r \in sent : Mine(r))'
    <3>1. TypeOK'
      BY <2>1 DEF IInv, TypeOK
    <3>2. ASSUME NEW r \in sent PROVE Mine(r)'
      BY <2>1 DEF IInv, Mine, Options
    <3> QED BY <2>1, <3>1, <3>2
  <2>3. Course' /\ Counts'
    BY <2>1 DEF IInv, Course, Stored, Introspects, Counts
  <2>4. AccountsForPIT' /\ AsksOnlyWhenNeeded' /\ ErrorsSurface'
    BY <2>1 DEF IInv, AccountsForPIT, Welcome, Options, AsksOnlyWhenNeeded, ErrorsSurface
  <2> QED BY <2>2, <2>3, <2>4 DEF IInv
<1>8. CASE Declined
  BY <1>8, DeclinedKeeps
<1> QED BY <1>1, <1>2, <1>3, <1>4, <1>5, <1>6, <1>7, <1>8 DEF Next, Worker

-----------------------------------------------------------------------------
(* Every reachable state of a query is coherent: the type invariant, and   *)
(* how step, state, requests, pages and PIT fit together, whatever the     *)
(* arguments, the cluster and its answers.                                 *)
THEOREM QueriesCoherent == Spec => []IInv
<1> QED BY InitCoherent, StepCoherent, PTL DEF Spec

(* All requests of a query carry the same credentials, the same trust in   *)
(* certificates and the same dialect (options, optsFromArgs).              *)
THEOREM CallersAreOne == Spec => []OneCaller
<1>1. IInv => OneCaller
  BY DEF IInv, Mine, OneCaller
<1> QED BY <1>1, QueriesCoherent, PTL

(* Nothing is asked before it is needed: not of a cluster that is not      *)
(* named, and with `fields` not before the first tick (resolveColumns).    *)
THEOREM NothingAskedEarly == Spec => []AsksOnlyWhenNeeded
<1>1. IInv => AsksOnlyWhenNeeded
  BY DEF IInv
<1> QED BY <1>1, QueriesCoherent, PTL

(* No error of a request is taken for the end of the data (doJSON).        *)
THEOREM NoErrorEndsTheData == Spec => []ErrorsSurface
<1>1. IInv => ErrorsSurface
  BY DEF IInv
<1> QED BY <1>1, QueriesCoherent, PTL

(* A query that ends leaves its PIT only for a reason: it finished and its *)
(* DELETE was got in the way of, or it failed by an OpenPIT or a search    *)
(* that was, or by a search that the cluster turned down (NextPage returns *)
(* before closePIT); never by asking for the DELETE in the wrong form, or  *)
(* not at all.                                                             *)
THEOREM NoPITLeft == Spec => []LeavesNoPIT
<1>1. IInv => LeavesNoPIT
  BY DEF IInv, AccountsForPIT, LeavesNoPIT
<1> QED BY <1>1, QueriesCoherent, PTL

(* The clients, the cluster and the PITs keep their types.                 *)
THEOREM ClientTypes == Spec => []TypeOK
<1>1. IInv => TypeOK
  BY DEF IInv
<1> QED BY <1>1, QueriesCoherent, PTL
=============================================================================
