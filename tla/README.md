# A verification of es_search

TLA+ models, model-checking runs and machine-checked proofs for
vgi-elasticsearch, a worker that lets DuckDB read an Elasticsearch or OpenSearch
index as a table. Paths without a directory are files of
`src/internal/esworker/`.

## 1. The system

| part | code | state | operations |
|---|---|---|---|
| scan lifecycle | `functions.go`: NewState, Process, NextPage, closePIT | `searchState`, gob-encoded between ticks: pit id, last sort values, done, ownership of the PIT, the plan | plan a scan; a tick: open a PIT or use the one in the state, read a page, advance, close on a short page, emit; finish |
| sort and cursor | `functions.go`: parseSortSpec; `query.go`: sortToDSL, BuildSearchBody | none of its own | sort clause with the `_id` tiebreaker; cursor to and from JSON |
| HTTP client | `client.go`; `functions.go`: optsFromArgs, options | none; rebuilt for every request | OpenPIT, ClosePIT, Search, GetMapping over doJSON: credentials, dialect, TLS, deadline, status and decoding |
| columns and binding | `functions.go`: OnBind, resolveColumns, projectColumns, NewState; `types.go` | bound schema (DuckDB's), column plan and `_source` list (scan state) | resolve columns from `fields` or the mapping, twice; project; restore types |
| predicate pushdown | `query.go`: BuildQueryFromFilters; `functions.go`: buildMergedQuery, query | QueryJSON in the scan state | translate filters, merge the raw query, encode, decode |
| rows | `rows.go` | none | a cell for each hit and column |
| type-mapping view | `views.go` | none; a constant table | tells the DuckDB type of each Elasticsearch type |
| worker main | `cmd/vgi-elasticsearch-worker/main.go`, `docker-entrypoint.sh` | the transport | filter unknown flags, parse the rest, serve HTTP, a socket or stdio |
| seeder | `cmd/seed/main.go` | none | DELETE, create, bulk, refresh, one after the other |
| integration script | `ci/run-integration.sh` | WORKER_PID, the socket, the exit status | wait for the cluster, seed, start the worker, wait for it, run the suite, judge, clean up |
| tests, build, images, CI | `*_test.go`, `test/sql`, `Makefile`, `Dockerfile`, `.github` | none | not modelled |

DuckDB's VGI extension calls OnBind, then NewState, then Process ("a tick") until
it says Finish. Between ticks only the encoded `searchState` survives, with the
engine (over HTTP it travels in a continuation token, `ci/README.md:59-63`). A tick
makes up to three requests to the cluster: open a PIT, search, delete the PIT. Writers
change the index and its mapping all the while. The script runs the worker, a cluster and
the seeder as processes of their own, and any of them may die, be late or be cancelled.

What is hard here: ticks that die between two requests or whose answer is lost and
that are driven again from an old state; requests given up on that the cluster carries out
later; PITs that expire, are renamed, or leak; pages that must neither overlap nor leave
gaps although the sort has ties and the cursor passes through JSON; answers that are no
answers; two readings of the mapping that may differ; three evaluators of one filter
(worker, cluster, DuckDB); a script whose parts fail at any point. `PROJECT.json` lists each
of these hazards at its line with the properties that cover it.

What makes each part correct:

- *scan*: the rows returned are always those of one snapshot up to the cursor, each
  once; a scan that finishes returned the whole snapshot; pages come in order; a scan
  ends; its PIT is given back; it fails only when something outside failed;
- *cursor*: resuming after the last hit of a page gives exactly what the page left;
- *client*: all requests of a query are one caller's; no error passes for the end of the
  data; a PIT is left only by a DELETE that failed or a search that did; a query ends though
  the cluster never answers;
- *binding*: a batch shows, at each position, the column bound there, with its type, and
  every field that a document writes by a column's name;
- *pushdown*: the cluster returns at least what DuckDB keeps, and only what the raw
  query allows; a column reported as pushed in full needs no post-filter;
- *rows*: null means null;
- *view*: it tells the type that a field gets;
- *script*: seeded means seeded, a worker serves what was asked, nothing stays behind,
  green means that something passed, and red that something was wrong.

## 2. Modules

| module | what it is |
|---|---|
| `Doubles` | what decoding an integer into `any` makes of it |
| `SearchAfter` | documents, the sort, the cursor, what a search returns (pure operators) |
| `SnapshotScan` | the abstract promise: a scan reads one state of the index, in order, once |
| `Scan` | the scan lifecycle over a cluster, with faults; its properties |
| `ScanInvariant` | the inductive invariants of `Scan`: IInv on what was read, Ledger on whose the PITs are |
| `OrderProofs`, `ScanProofs`, `LedgerProofs` | theorems about the order and pages, about what `Scan` reads, and about its PITs and the refinement |
| `Client` | the requests of a query: caller, dialect, answers, deadlines |
| `ClientProofs` | theorems about `Client` |
| `Loops`, `LoopProofs` | a loop that filters a slice, and lemmas on what loops compute |
| `Columns`, `TypeMapping` | types, columns and cells; the es_type_mapping view (pure operators) |
| `Binding` | OnBind, projection, NewState, ticks, while mappings change |
| `BindingProofs` | theorems about `Binding`, the plan's round trip and the view |
| `Pushdown`, `PushdownProofs` | filters to query to hits to answer, and theorems about it |
| `Launch` | the worker's command line (pure operators) |
| `Seed` | the seeder over a cluster |
| `Integration`, `IntegrationProofs` | the script with seeder, worker and runner, and theorems about it |
| `MCScan`, `MCBinding`, `MCPushdown`, `MCClient`, `MCIntegration` | values of the constants for the runs |

`Scan` extends `SearchAfter`; `Pushdown` and `Binding` extend `Columns`, the latter through
`TypeMapping`, and `Columns` extends `Loops`; `Integration` extends `Seed` and `Launch` and
interleaves the seeder's steps with its own. The query's modules meet in the scan state:
`Scan` leaves out the plan because no tick changes it, `Binding` and `Pushdown` model the two
parts of the plan that are more than constants, `Client` the fields that requests are built
from. The hits of `Pushdown` are the snapshot that `Scan` pages through.

A definition named `X_Something` is a wrong variant of `X`. Nothing uses it; putting it
in the place of `X` must break a property, which `PROJECT.json` names under "mutants".

### Scan

`token[s]` is the `searchState` the engine holds, `work[s]` the copy the current tick
changes; nothing else of a tick outlives it (DropTick). `step[s]` is the next request
of the tick. The variables `rows`, `view`, `pinned` and `excuse` are read by properties
only.

| action | code |
|---|---|
| NewState | NewState: a plan, or NoInput for a NULL argument |
| Finish | Process when `done()` |
| BeginTick | Process decodes the state; NextPage looks for an open PIT |
| OpenPIT, OpenPITFails | OpenPIT; it fails by the PIT limit, or without an answer |
| Search, SearchFails | BuildSearchBody, Search and the rest of NextPage; the PIT is gone, or there is no answer |
| ClosePIT | closePIT, whose failure is ignored, and Done |
| Emit | Emit, after which rows and new state reach the engine together |
| LoseTick | a tick that dies or whose answer is lost; the engine drives it again |
| Abandon | a LIMIT or a cancel, of which the worker never hears |
| Expire | keep_alive runs out |
| CarryOut | a request nobody waits for takes effect after all, or never will |
| IndexDoc, DeleteDoc | writers, at any time |

A request that is not answered goes into `late` or never reached the cluster (GiveUp); what
is in `late` may be carried out at any time, at once or many steps later. A late open makes
a PIT that no scan knows, a late search may move a PIT to a new id, a late DELETE may close
the PIT of a tick that was driven again.

A search fails here because its PIT is gone or no answer comes. Searches that the cluster
turns down for what they ask are in `Client`, so OnlyExcusedFailures is a claim about the
handling of PITs and no other cause.

The cluster may answer a search with the same PIT id, without one, or with a new one
that replaces the old (the comment at functions.go:493). With PartialResults it may
miss shards and still answer 200. The dialect of the default flavor is modelled;
Elasticsearch adds an implicit `_shard_doc` tiebreaker of its own, which only helps.

The state is a value, so gob's encoding is the identity, except for what a later decoding
makes of the JSON inside (SearchAfterOf). `Started` is written and never read, and is left
out.

### Client

One query, from the mapping that OnBind asks for to the DELETE. `args` are the arguments,
`cluster` its dialect, the credentials it knows and whether its certificate is self-signed;
`state` holds the fields of `searchState` that requests are built from. OnBind and NewState
build requests with optsFromArgs, Process with options(); both are `Options`.

| action | code |
|---|---|
| OnBind, NewState | resolveColumns, with or without a request for the mapping; the state |
| Process | done, no index, open a PIT, or search |
| Answered | the cluster serves the request, or turns down who asks and how; what the worker makes of the answer (MappingReturned, OpenReturned, SearchReturned, CloseReturned) |
| Declined | the cluster turns down what is asked for: an index that is not there, query DSL, a constant or a sort field that it cannot take, a page above its window |
| Disturbed | broken connections, bodies cut off, an overload, another JSON object in the answer's place |
| Expired | nothing is heard until the deadline |

`disturbed` holds the kinds of request to which something other than the cluster's own answer
came back, `declined` says that a search was turned down for what it asks, `disguised` that
one got a 200 answer that is not the cluster's full one. A search that fails, turned down
or disturbed, leaves its PIT open: NextPage returns the error (functions.go:485-488) and closePIT is
called only after a short page (503), so the PIT stays until keep_alive. AccountsForPIT and
LeavesNoPIT name that case, as the only one besides an OpenPIT or a DELETE that was disturbed.
Pages hold no documents here and ticks are not driven twice: that is `Scan`.

### Binding

Indices have mappings, which may disagree and change. OnBind and NewState each resolve
the columns; for the mapping, GetMapping merges the indices in any order, as Go's maps
are iterated. DuckDB projects by position. Process restores the types of the plan's
columns and Emit compares them with the engine's schema by position and type only, as
the comment at functions.go:328-331 says. A document is the set of names that its `_source`
writes; `Within` says in which object a dotted name lies. The cluster's `_source` filter
takes a name for all that lies in it (Covers); buildColumn looks up the whole name only
(Shown). `Steady` says when the two resolutions cannot differ: `fields` is given, or the
mappings agree and do not change. An empty `index` fails in OpenPIT.

`Only` is the loop that appends or continues: it is what projectColumns does with the ids,
parseFieldsSpec with the parts and SourceIncludes with the columns. `Sorted` stands for
sort.Strings: the one enumeration of the names in their order.

### Pushdown

One column, of the source or a meta column, and its filters. A document's field has one of
six shapes of content, from absent to an array; values are ranks in the order of the type, 0
being Go's zero value. A filter is a comparison, IN, a null test, an AND, or any other set
of cells (OR, struct, expression and join-key filters). `ip`, `version` and the narrow
floats are kept by the index as another value (IndexedAs); constants that the cluster cannot
parse for the field (Unparsable) and ranges of `_id` make it refuse the search. DuckDB's
evaluation of filters on cells and the cluster's evaluation of clauses on indexed terms are
external definitions; everything between them is translated. A raw query selects some of the
documents, or those with one integer in a field of its own (Keys, RawKeys). buildMergedQuery and
query() decode that integer as a double, so the cluster is asked for SentKeys: Constrained is the
raw query as written, Unfiltered as sent.

### Launch, Seed, Integration

`Launch` has filterKnownFlags, Go's flag package and the choice of a transport as functions on
sequences of tokens: FilterStep and ParseStep are one turn of either loop, and Served is the
transport that a command line comes to. Log settings are taken to be valid. `Seed` is `run`
with its four requests: Answered, Unanswered (an error or a timeout before, after or without
an end of the request), Arrives (a late one takes effect). `Integration` adds the script:

| action | code |
|---|---|
| Start, WaitForCluster, Seeded | SKIP_MOCK; the readiness loop; `set -e` on the seeder |
| Launch, RecordPid, WaitForWorker | the worker and its command line; `WORKER_PID=$!`; the loop on its log and socket |
| RunTest, Judge | the runner, test by test; its status and the guard against all-skipped runs |
| Cleanup, Reap | the EXIT trap: kill, then wait and remove the socket |
| Cancel, Abort | the job is cancelled: the trap runs from wherever the script is; cancelled again, or during cleanup, the trap ends there |
| Hang | `curl` (line 112) or the runner (lines 252 and 267), which have no timeout, do not return |
| Boot, Listen, Announce, Die | the cluster and the worker process |

`env` chooses the transport, a prelaunched worker (the image's entry point), SKIP_MOCK, and
what the build under test is worth: good, wrong rows, or requests that the cluster refuses.
Transports gives, for each way of launching a worker, what its command lines come to, with any
flags of `Noise` before and after them, and Asked what was meant. NoiseAssumption says that the
added flags ask for no transport and that the last of them has its value: one that ended in a
bare `--log-level` would take `--http` for its value, as Go's flag package would without a
filter. A test reaches a worker that lives and has announced its port or socket (Reachable):
that is what the loop on the log is for, and RedMeansBroken fails without it.

## 3. Runs

All bounds are constants of the cfg files. MaxExact = 16 stands for 2^53, the last integer up to
which doubles hold every integer: above it they hold the even ones only, until twice as far.

| run | bounds | what it shows |
|---|---|---|
| `scan_paging` | one scan, four document versions in three slots, two of them tied, pages of 2, two PITs, two faults | pages resume exactly, a finished scan is exact, nothing twice, one version, every leak and failure excused, pages in order, both inductive invariants, and that scans implement `SnapshotScan` |
| `scan_pair` | two scans of pages of 1 by two keys, the last the caller's own `_id:desc` (no tiebreaker is appended), two documents, ONE PIT, one fault | each scan ends; no PIT stays open; Ledger holds between scans that compete |
| `client` | every combination of target, flavor, credentials, TLS setting, `fields`, dialect, authentication and certificate; up to one full page before the short one | one caller, nothing asked early, errors surface, every PIT left is accounted for, the query ends |
| `bind` | two indices, each with one of three mappings that agree or not; four names, one dotted; five `fields` arguments; two documents; one change of a mapping; projections of up to two columns in any order | steady queries have the bound columns and types, every field written by a column's name is shown, the view told the types; the inductive invariant |
| `push_exact` | two documents, seven types and `_id`, three values, every operator, pairs and ANDs of filters, raw queries for any documents or for an integer just below or above 2^53 | pushdown changes no answer; full pushes suffice |
| `integration` | three transports, all environments, two documents, two tries per loop, two faults, five kinds of added flags | what the seeder reports is there, workers serve what was asked, nothing is left, green means tested, red means broken, the script ends or hangs |

Three slots and pages of 2 give a full first page, a tie across the boundary, a short
last page, and, when a document is deleted or moved, an exact multiple of the page size with an
empty last page. Two faults suffice for a failure after a failure (a lost tick after a
lost answer, a late DELETE under a tick driven again), and two PITs for one that leaked and
one in use. Documents of `Pushdown` do not interact except through the raw query, so two
are enough. One full page before the short one takes a query of `Client` through every
kind of request with a state from an earlier tick. Two tries make a first look, a last one
and the limit. Nothing grows without bound but `rows`, which a scan bounds by the snapshot,
and `sent`, a set of requests that differ in their verb only; faults and mapping changes are
bounded by MaxFaults and MaxChanges in their guards. `CHECK_DEADLOCK FALSE` is said only
where one query or one script is modelled, which stops when it is over.

Fairness:

- `scan_pair`: FairSpec has weak fairness on each scan's own steps and on the expiry of PITs
  no scan will use. The first is justified because the engine keeps calling Process until
  Finish and doJSON bounds each request by a timeout (client.go:107-112): a step succeeds or
  fails, it does not hang. The second is keep_alive. There is none on writers, faults or
  abandonment.
- `client`: weak fairness on the worker, whose steps are driven by the engine and whose
  requests end by Go's timers (Expired); none on the cluster, which may never answer.
- `integration`: weak fairness on the script's own steps, on the seeder's requests, which its
  client's 30 seconds end, and on the death of a killed worker; none on the cluster's start or
  on a worker's readiness. The script need not go on: Hang may take it at every probe of the
  cluster and during the suite, for good, because neither `curl` nor the runner has a
  timeout. ScriptEnds promises an end to a script that does not hang, or that is cancelled.

Some promises of the documentation and the comments are broken. One run shows each of
these; `PROJECT.json` quotes the line under "findings":

| run | what it shows |
|---|---|
| `scan_pagesize0` | page_size <= 0: no page is short, the scan never ends |
| `scan_bigint` | sort values above 2^53 are rounded in the cursor: documents twice |
| `scan_wildcard` | `_id` is no tiebreaker across indices: documents skipped |
| `push_score` | a filter on `_score` is pushed as one on a field that no index has: no rows |
| `push_nulls` | an explicit null reads as 0, FALSE or "" |
| `bind_drift` | the mapping changed between OnBind and NewState: a column shows another's values |

The models show more of the same kind when constants of a run are changed. These are
not runs of their own:

| run, and what to change | property violated | why |
|---|---|---|
| `scan_paging`: PartialResults = TRUE, ExactlyOnce alone | ExactlyOnce | SearchResponse (client.go:213-219) reads neither `_shards` nor `timed_out` |
| `push_score`: Cols <- SourceColumns, Types = {"long"}, Shapes = {"plain"}, Values = {16, 17, 18, 19} | PushdownIsSuperset | query() (functions.go:458) decodes the constants of filters as doubles |
| the same with Types = {"keyword"}, Shapes = {"plain", "many"}, Values = {1, 2} | PushdownIsSuperset | the cluster matches any element of an array, DuckDB compares the whole cell |
| the same with Types = {"text"}, Values = {1, 2, 3} | PushdownIsSuperset | the term test is made on analyzed words, DuckDB's `=` is not |
| the same with Types = {"double"}, and FilterSets made of ScalarsOrNull (NaN included), RawConstrains alone | RawConstrains | NewState drops the error of json.Marshal (functions.go:358), and the raw query with it |
| the same with Types = {"version"} or {"half_float"}, Values = {0, 1, 2}, and OpsOn giving Ops | PushdownIsSuperset | ranges follow the order of the index, not that of the cells (query.go:206) |
| `bind`: MaxChanges = 0, TypesAgree alone | TypesAgree | the order in which disagreeing indices are merged (client.go:261) is drawn twice |
| `integration`: GreenMeansTested without its "skipped" disjunct | GreenMeansTested | the guard (run-integration.sh:279) sees only runs in which everything was skipped: if the offline tests pass, the leg is green although no es_search test ran |

| `push_exact`: RawConstrains without RawExact | RawConstrains | buildMergedQuery (functions.go:387) and query() (458) decode the raw query's own integers as doubles |
| `integration`: SeededAsReported without `wiped` | SeededAsReported | the seeder ignores an unanswered DELETE (seed/main.go:35), which may come after the PUT |
| `integration`: ScriptEnds without its second disjunct | ScriptEnds | no timeout at run-integration.sh:112 and 267 |
| `client`: LeavesNoPIT without `declined` | LeavesNoPIT | NextPage returns a refused search's error without closePIT (functions.go:485-488) |

Each is a limit of the code that the conditions of the passing runs, and the assumptions
of the theorems, exclude by name. So the properties that PROJECT.json lists for such a
hazard say that nothing beyond the excused case goes wrong, and its "note" says so.
One more needs no model: when only meta columns are projected the request has no `_source`
key (query.go:54), so whole documents are sent, where README.md:80-81 says that `_source` is
skipped.

## 4. Proofs

Assumed throughout: the named ASSUMEs of the modules (finite documents, integer values,
a sort that names known fields, PIT ids other than the empty one, bounds that are numbers,
finitely many field names with one order, added flags that are harmless).

**Pages** (`OrderProofs`). Precedes, the order of sort arrays, is irreflexive,
transitive and, because the sort always ends in `_id`, total on documents with different
ids. So what precedes the last hit of a page is the page and what went before, and
PageSplits follows: search_after from the last hit returns what the page left, provided
the cursor survives its way through doubles. ShortPageIsAll: a response with fewer hits
than asked for holds all that was left.

**Scans** (`ScanProofs`). TypeCorrect needs no assumption on documents or cluster. The
others assume OneIndex (one concrete index), ExactSortValues (doubles hold the sort values) and
NoPartialResults; `scan_wildcard`, `scan_bigint` and the table above show that each is
needed. ResumePoint is not inductive: it says nothing of the tick in progress, whose
page and state become rows and token at Emit. IInv (`ScanInvariant`) adds, for each scan, what
the working state and page are at each step (TickShape: the page read is what lies
between the two cursors), that a PIT a scan refers to, if open, holds the snapshot the
scan pinned (PITHoldsView), that two open PITs differ in id (PITsDistinct), and what a
token is between ticks (TokenShape, AtRest). The proof has one lemma per kind of step and
uses PageSplits for Search and ShortPageIsAll for the short page. ResumesExactly,
FinishedScansAreExact, NothingTwice and NoTwoVersions are consequences.

**PITs** (`LedgerProofs`). LeaksExcused and OnlyExcusedFailures relate a scan to the PITs of
the cluster, of which IInv knows only the snapshot. Ledger adds an owner to each: a PIT that
a running scan refers to is its own; a scan that met no fault has no other, means to close
this one, and finds it open until it is done; and a late request, which could take a PIT
away or add one, belongs to a scan that failed or was disturbed and names no other scan's
PIT. No assumption on the data is needed.

**The promise** (end of `LedgerProofs`). RowsComeInOrder follows from IInv: a page lies after the
cursor in the token, what was returned does not. ScansKeepThePromise shows that `Scan`
implements `SnapshotScan` under PhaseOf, one action at a time: OpenPIT after a token without
a PIT is the abstract pin, Emit the abstract page, Finish the abstract end, which needs that
all of the view was read; all other steps stutter.

**Requests** (`ClientProofs`). The inductive invariant says that every request is the call's
own (Mine), what the stored state holds of the arguments (Stored), what was done at each step
(Course), how many pages are accounted for (Counts), and what becomes of a PIT
(AccountsForPIT): it is only ever open in a cluster that takes this caller's requests (Welcome),
so that a DELETE nothing disturbs closes it; until the query ends the state names it; and
after the end it is open only if the DELETE was disturbed, the search was turned down, or the
search or OpenPIT was disturbed. OneCaller, AsksOnlyWhenNeeded, ErrorsSurface and
LeavesNoPIT follow, for any flavors and any number of pages.

**Pushdown** (`PushdownProofs`). The plan and the hits are functions of the request
(PlanFollows). KeptIsMatched: if a field holds at most one value, of its own type and not
analyzed, and doubles hold the constants, a filter that keeps the cell becomes a clause
that the document satisfies. Hence PushdownIsSuperset for all filters; RawConstrains
when no constant is beyond JSON and the raw query's integers are exact (SentAsWritten); and
ExactAnswer. PushedSuffices is the converse for columns
of which all filters were pushed and none is a `!=`. TypeOK holds without assumptions: no
null, no NaN and no empty list of terms gets into the stored query.

**Loops** (`LoopProofs`). The library's induction theorems take a predicate, which the provers
cannot instantiate. Two lemmas stand in for them: a nonempty set of positions has a first one
(FirstPosition), and a set that holds 0 and with each position the next holds all
(PositionInduction). A predicate becomes the set of positions where it holds. LoopRuns says that
a function defined by its value at the previous position is that function, OnlyRuns and its
companions what a filtering loop keeps. The proofs about `Binding` and `Launch` rest on these.

**Columns** (`BindingProofs`). ViewTellsTypes: every row of the view names the DuckDB type of
what esTypeToArrow gives its type. PlanKeepsTypes: the round trip through the stored plan
restores every column. The properties of `Binding` speak of emitted batches; IInv (checked in
`bind`) says what leads there. A plan holds columns that survive their round trip and asks for
exactly the source fields among them (PlanShape); a steady query, once bound, was bound with
what it would still resolve (BoundNow), and, once planned, planned with the same columns
(PlannedNow). The step that carries it is SteadyResolves: if `fields` is given, or the mappings
agree, resolving twice gives the same columns, because every order of the merge yields the same
function (MergedFrom) and the names have one sorted enumeration (SortedIs). ProjectedAsBound then
says that projectColumns, for ids that are positions of the bound schema, picks at each place
the column that DuckDB projects there. ColumnsAsBound, TypesAsBound, NoFieldIsLost and
ViewPredictsTypes follow for any indices, names, mappings, `fields` arguments and documents.
What is assumed of them is BindingAssumption: among others, that no field is named `_id` or
`_score` (see 5).

**The script** (`IntegrationProofs`). Of a seeder that met no error only its DELETE can be
late; its index is what it asked for so far, or was wiped and has not its mapping
(SeederOnCourse). With the course of the script and what verdicts rest on (Coherent:
ScriptsCoherent), SeededAsReported, NothingLeft and GreenMeansTested follow for any documents,
tries, faults and added flags. RedMeansBroken needs more, which IInv adds (ScriptsUnharmed): while no
fault has happened the seeder finds the index as it needs it (SeederUnharmed) and the worker
listens when the tests begin (WorkerUnharmed), the script kills only a worker of its own and only
when it leaves (KillsItsOwn), and without a reason no test went amiss (Reasoned). RedHasAReason
follows.

**The launch** (also `IntegrationProofs`). A command line passes two loops. FilterRuns and
ParseRuns describe each by its step, and ReadsAll joins them: parsing what the filter kept is
one pass over the tokens, as if the parser skipped what it does not know. NoiseIsSkipped:
harmless flags take this pass from a state that waits for no value to another one, with the
same transport options. So CommandLinesServe: each kind of command line, with any harmless
flags around it, comes to the transport and address asked for. WorkersServeAsAsked carries
this through every step of the script.

**Types of states.** TypeCorrect, PlansAreWellFormed, BindingTypes, ClientTypes and ScriptTypes
state the type invariant of each module; the last three follow from its inductive invariant.

**Only model-checked**: ScanEnds, PITsReleased, QueryEnds and ScriptEnds. They are liveness
under fairness, which is out of the prover's reach. Every invariant and action property of the
passing runs is also a theorem.

## 5. Not modelled

- URLs, marshalling, error texts: no state and no control beyond success and failure.
- The parsing of numbers and dates beyond whether it succeeds; the overflow of
  milliseconds times 1000 (rows.go:164), for dates beyond the year 294247.
- Several columns' filters at once: they are conjoined in one query, as the filters of one
  column are.
- A meta column's name in `fields` (`fields => '_id:long'` binds a second `_id`, which
  reattachArrowType, types.go:111, restores as VARCHAR): BindingAssumption excludes it.
- Idle connections: every request has a Transport of its own (client.go:82), whose
  connection stays open until the server closes it.
- Catalog metadata, and the SQL text of the view (`views.go`, `main.go`).
- Building, staging, the awk rewriting of tests and the extension cache of the script;
  Docker, CI, and the tests, which were read as documentation.

Wording that the code does not follow and no property is about: client.go:49 speaks of basic
auth "when both are set", applyAuth (client.go:94) sends it when one is; the table of
README.md:50-51 names the arguments `apikey` and `insecuretls`, optsFromArgs
(functions.go:285-286) reads `api_key` and `insecure_tls`.

## 6. Plan

1. *(done)* the scan and its cursor, with late requests; the client; binding with dotted
   names; pushdown with converted types and meta columns; the view; the launch, the seeder
   and the script; the refinement of `SnapshotScan`.
2. *(done)* inductive invariants and theorems for `Scan`, `Client`, `Pushdown`, `Binding` and
   `Integration`, with the lemmas on loops that the last two need.
3. Left: a refinement of `Binding` by an abstract binding of names to values; filters on several
   columns in `Pushdown`, and the theorems that this changes; `_shard_doc` of Elasticsearch as a
   tiebreaker.
