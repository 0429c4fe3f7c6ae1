---------------------------- MODULE Integration ----------------------------
(***************************************************************************)
(* The integration script (ci/run-integration.sh) with what it drives: the *)
(* cluster it waits for, the seeder, the worker it starts and ends, and    *)
(* the runner whose verdict on the two tests it turns into its own.        *)
(*                                                                         *)
(* A definition named X_Something is a wrong variant of X.                 *)
(***************************************************************************)
EXTENDS Seed, Launch

CONSTANTS MaxTries,   \* how often the script looks before it gives up (60 and 50)
          Noise       \* flags the extension adds, to tell its workers apart

\* They ask for no transport, and the last of them has its value.
Harmless(tokens) ==
  /\ \A i \in DOMAIN tokens : tokens[i].flag \notin {"http", "http-addr", "unix"}
  /\ tokens # <<>> => ~ Bare(tokens[Len(tokens)])

ASSUME NoiseAssumption == \A tokens \in Noise : Harmless(tokens)
ASSUME IntegrationAssumption == MaxTries \in Nat \ {0} /\ Noise \subseteq Seq([flag : STRING, value : STRING])

VARIABLES env,       \* what the script is run with, and the code under test
          up,        \* does the cluster answer?
          script,    \* where the script is
          tries,     \* how often the present loop has looked
          status,    \* the exit status
          pid,       \* is WORKER_PID set?
          worker,    \* the worker process
          socket,    \* is there a file at the socket's path?
          results    \* what became of each test

vars == <<seedVars, env, up, script, tries, status, pid, worker, socket, results>>

Tests == {"es_search", "offline"}
Environments ==
  {e \in [transport : {"subprocess", "http", "unix"}, prelaunched : BOOLEAN, skipMock : BOOLEAN,
          build : {"good", "wrongRows", "badRequests"}] : e.prelaunched => e.transport = "http"}

(* SKIP_MOCK comes with the pattern of the offline test (docker-publish).  *)
Wanted == IF env.skipMock THEN {"offline"} ELSE Tests

NoWorker == [alive |-> FALSE, killed |-> FALSE, announced |-> FALSE, serves |-> <<"nothing">>]
Process(transport) == [NoWorker EXCEPT !.alive = TRUE, !.serves = transport]
Noisy(args) == {a \o args \o b : a \in Noise, b \in Noise}

(* What the command lines of the image's entry point, the script and the   *)
(* extension come to, and what each is meant to come to.                   *)
Launcher == IF env.prelaunched THEN "image" ELSE env.transport
EntryPoint == <<Flag("http"), Flag("http-addr"), Word("0.0.0.0:8000")>>
Serving(lines) == {Served(args) : args \in lines}
Transports ==
  [image |-> Serving(Noisy(EntryPoint)),
   http |-> Serving({<<Flag("http")>>}),
   unix |-> Serving({<<Flag("unix"), Word("es.sock")>>}),
   subprocess |-> Serving(Noisy(<<>>))]
Asked ==
  [image |-> <<"http", "0.0.0.0:8000">>, http |-> <<"http", "127.0.0.1:0">>,
   unix |-> <<"unix", "es.sock">>, subprocess |-> <<"stdio">>]

Workers ==
  [alive : BOOLEAN, killed : BOOLEAN, announced : BOOLEAN,
   serves : {<<"nothing">>} \cup UNION {Transports[l] : l \in DOMAIN Transports}]

TypeOK ==
  /\ SeedTypeOK /\ env \in Environments
  /\ script \in {"start", "waiting", "seeding", "launching", "started", "polling", "running",
                 "leaving", "reaping", "exited", "hung", "aborted"}
  /\ tries \in 0..MaxTries /\ status \in {0, 1}
  /\ up \in BOOLEAN /\ pid \in BOOLEAN /\ socket \in BOOLEAN
  /\ worker \in Workers
  /\ results \in [Tests -> {"not run", "passed", "failed", "skipped"}]
  /\ seeder \in Requests => script \in {"seeding", "leaving", "reaping", "exited", "aborted"}

Init ==
  /\ SeedInit /\ env \in Environments /\ up \in BOOLEAN
  /\ script = "start" /\ tries = 0 /\ status = 1 /\ pid = FALSE /\ socket = FALSE
  /\ worker \in IF env.prelaunched
                THEN {[Process(t) EXCEPT !.announced = TRUE] : t \in Transports[Launcher]}
                ELSE {NoWorker}
  /\ results = [t \in Tests |-> "not run"]

-----------------------------------------------------------------------------
Leave(code) == script' = "leaving" /\ status' = code

(* A loop that looks MaxTries times: done, once more, or too often. *)
Look_OneMore(ready, then) ==
  /\ tries' = IF ready THEN 0 ELSE tries + 1
  /\ IF ready THEN script' = then /\ UNCHANGED status
     ELSE IF tries = MaxTries THEN Leave(1)
     ELSE UNCHANGED <<script, status>>
Look(ready, then) ==
  /\ tries' = IF ready THEN 0 ELSE tries + 1
  /\ IF ready THEN script' = then /\ UNCHANGED status
     ELSE IF tries + 1 = MaxTries THEN Leave(1)
     ELSE UNCHANGED <<script, status>>

Start ==
  /\ script = "start"
  /\ script' = IF env.skipMock THEN "launching" ELSE "waiting"
  /\ UNCHANGED <<seedVars, env, up, tries, status, pid, worker, socket, results>>

WaitForCluster ==
  /\ script = "waiting"
  /\ Look(up, "seeding")
  /\ seeder' = IF up THEN "delete" ELSE seeder
  /\ UNCHANGED <<index, late, refused, wiped, faults, env, up, pid, worker, socket, results>>

(* set -e: a seeder that fails ends the script. *)
Seeded ==
  /\ script = "seeding" /\ seeder \in {"done", "failed"}
  /\ IF seeder = "done" THEN script' = "launching" /\ UNCHANGED status ELSE Leave(1)
  /\ UNCHANGED <<seedVars, env, up, tries, pid, worker, socket, results>>

(* A worker of the script's own, for http and unix; then WORKER_PID=$!.    *)
Launch ==
  /\ script = "launching"
  /\ IF env.transport = "subprocess" \/ env.prelaunched
     THEN script' = "running" /\ UNCHANGED <<worker, socket>>
     ELSE /\ script' = "started"
          /\ worker' \in {Process(t) : t \in Transports[Launcher]}
          /\ socket' = FALSE
  /\ UNCHANGED <<seedVars, env, up, tries, status, pid, results>>
RecordPid ==
  /\ script = "started"
  /\ script' = "polling" /\ pid' = TRUE
  /\ UNCHANGED <<seedVars, env, up, tries, status, worker, socket, results>>

(* The PORT: or UNIX: line, and the socket; or the worker has died. *)
WaitForWorker_NoLoop ==
  /\ script = "polling" /\ script' = "running"
  /\ UNCHANGED <<seedVars, env, up, tries, status, pid, worker, socket, results>>
WaitForWorker ==
  /\ script = "polling"
  /\ LET ready == worker.announced /\ (env.transport = "unix" => socket)
     IN  IF ready \/ worker.alive THEN Look(ready, "running") ELSE Leave(1) /\ UNCHANGED tries
  /\ UNCHANGED <<seedVars, env, up, pid, worker, socket, results>>

-----------------------------------------------------------------------------
(* The runner takes the tests one by one.  It skips, and does not fail, a  *)
(* test whose error says "HTTP": a worker that cannot be reached over http *)
(* says so, but so does the worker itself of a request that the cluster    *)
(* turned down (client.go, doJSON).                                        *)
Reachable ==
  IF env.transport = "subprocess" THEN TRUE
  ELSE worker.alive /\ worker.announced /\ (env.transport = "unix" => socket)
Unreachable == IF env.transport = "http" THEN "skipped" ELSE "failed"
Answers(t) ==
  CASE ~ Reachable -> Unreachable
    [] Reachable /\ t = "offline" -> "passed"
    [] Reachable /\ t = "es_search" /\ (index = NoIndex \/ env.build = "badRequests") -> "skipped"
    [] Reachable /\ t = "es_search" /\ index # NoIndex /\ env.build # "badRequests" ->
         IF index = Full /\ env.build = "good" THEN "passed" ELSE "failed"

RunTest(t) ==
  /\ script = "running" /\ t \in Wanted /\ results[t] = "not run"
  /\ t = "offline" => \A u \in Wanted : u = t \/ results[u] # "not run"
  /\ worker' \in IF env.transport = "subprocess"   \* which the extension runs while it is attached
                 THEN {[NoWorker EXCEPT !.serves = u] : u \in Transports[Launcher]}
                 ELSE {worker}
  /\ \/ results' = [results EXCEPT ![t] = Answers(t)] /\ UNCHANGED faults
     \/ t = "es_search" /\ faults < MaxFaults /\ faults' = faults + 1   \* the cluster gives out
        /\ \E r \in {"failed", "skipped"} : results' = [results EXCEPT ![t] = r]
  /\ UNCHANGED <<seeder, index, late, refused, wiped, env, up, script, tries, status, pid, socket>>

(* The runner's own status counts failures; its report tells of a run in   *)
(* which all tests were skipped.                                           *)
Green_AnyRun == \A t \in Wanted : results[t] # "failed"
Green == /\ \A t \in Wanted : results[t] # "failed"
         /\ \E t \in Wanted : results[t] # "skipped"
Judge ==
  /\ script = "running" /\ \A t \in Wanted : results[t] # "not run"
  /\ Leave(IF Green THEN 0 ELSE 1)
  /\ UNCHANGED <<seedVars, env, up, tries, pid, worker, socket, results>>

-----------------------------------------------------------------------------
(* cleanup, on every way out: kill the worker, wait for it, and remove the *)
(* socket.                                                                 *)
Cleanup_NoKill ==
  /\ script = "leaving"
  /\ script' = "reaping"
  /\ UNCHANGED <<seedVars, env, up, tries, status, pid, worker, socket, results>>
Cleanup ==
  /\ script = "leaving"
  /\ script' = "reaping" /\ worker' = [worker EXCEPT !.killed = @ \/ (pid /\ worker.alive)]
  /\ UNCHANGED <<seedVars, env, up, tries, status, pid, socket, results>>

Waited_Never == TRUE
Waited == pid => ~ worker.alive
Reap ==
  /\ script = "reaping" /\ Waited
  /\ script' = "exited" /\ socket' = FALSE
  /\ UNCHANGED <<seedVars, env, up, tries, status, pid, worker, results>>

(* The job is cancelled: bash runs the EXIT trap.  A signal that comes     *)
(* while the trap runs ends it wherever it is.                             *)
Cancel ==
  /\ script \notin {"leaving", "reaping", "exited", "aborted"} /\ faults < MaxFaults
  /\ faults' = faults + 1 /\ Leave(1)
  /\ UNCHANGED <<seeder, index, late, refused, wiped, env, up, tries, pid, worker, socket, results>>
Abort ==
  /\ script \in {"leaving", "reaping"} /\ faults < MaxFaults
  /\ faults' = faults + 1 /\ script' = "aborted" /\ status' = 1
  /\ UNCHANGED <<seeder, index, late, refused, wiped, env, up, tries, pid, worker, socket, results>>

(* Neither curl's probe of the cluster nor the runner, on the warming file *)
(* or on the suite, has a timeout: what they wait for may never come.      *)
Hang ==
  /\ script \in {"waiting", "running"} /\ script' = "hung"
  /\ UNCHANGED <<seedVars, env, up, tries, status, pid, worker, socket, results>>

-----------------------------------------------------------------------------
Boot ==
  /\ ~ up /\ up' = TRUE
  /\ UNCHANGED <<seedVars, env, script, tries, status, pid, worker, socket, results>>

(* The worker makes its socket, then says that it listens; a killed one    *)
(* may have come that far.                                                 *)
Listen ==
  /\ worker.alive /\ ~ worker.announced /\ worker.serves # <<"usage">>
  /\ worker.serves[1] = "unix" /\ ~ socket /\ socket' = TRUE
  /\ UNCHANGED <<seedVars, env, up, script, tries, status, pid, worker, results>>
Announce ==
  /\ worker.alive /\ ~ worker.announced /\ worker.serves # <<"usage">>
  /\ worker.serves[1] = "unix" => socket
  /\ worker' = [worker EXCEPT !.announced = TRUE]
  /\ UNCHANGED <<seedVars, env, up, script, tries, status, pid, socket, results>>

(* It ends when it is killed, and may crash. *)
Die ==
  /\ worker.alive
  /\ faults' = IF worker.killed \/ worker.serves = <<"usage">> THEN faults ELSE faults + 1
  /\ faults' <= MaxFaults
  /\ worker' = [worker EXCEPT !.alive = FALSE]
  /\ UNCHANGED <<seeder, index, late, refused, wiped, env, up, script, tries, status, pid, socket, results>>
Killed == worker.killed /\ Die

Untouched == UNCHANGED <<env, up, script, tries, status, pid, worker, socket, results>>
Script == Start \/ WaitForCluster \/ Seeded \/ Launch \/ RecordPid \/ WaitForWorker
          \/ (\E t \in Tests : RunTest(t)) \/ Judge \/ Cleanup \/ Reap
Cluster == (SeederSteps \/ Arrives) /\ Untouched
Next == Script \/ Cluster \/ Cancel \/ Abort \/ Hang \/ Boot \/ Listen \/ Announce \/ Die

(* While it does not hang the script goes on: its loops sleep a bounded    *)
(* time.  The seeder's requests end by their timeout, and a killed worker  *)
(* dies.                                                                   *)
Spec == Init /\ [][Next]_vars /\ WF_vars(Script) /\ WF_vars(SeederSteps /\ Untouched) /\ WF_vars(Killed)

-----------------------------------------------------------------------------
(* Every worker serves the transport and address its caller meant, with    *)
(* whatever flags the extension or the caller of the image added (main.go: *)
(* unknown launcher flags are tolerated).                                  *)
LaunchedAsAsked == worker.serves \in {<<"nothing">>, Asked[Launcher]}

(* When the script has exited, for whatever reason it left, its worker is  *)
(* gone and so is the socket.  Excused are a cancellation between the      *)
(* start of the worker and WORKER_PID=$!, and one that comes while cleanup *)
(* itself runs ("aborted").                                                *)
NothingLeft ==
  script = "exited" /\ pid => ~ worker.alive /\ ~ socket

(* A green leg tested something: some test passed, and es_search, when it  *)
(* is wanted, passed against a good build and a full index, or was skipped *)
(* for an error that says "HTTP", which the guard does not see.            *)
GreenMeansTested ==
  script = "exited" /\ status = 0 =>
    /\ \E t \in Wanted : results[t] = "passed"
    /\ "es_search" \in Wanted =>
         \/ results["es_search"] = "skipped"
         \/ env.build = "good" /\ refused = {}

(* A red leg has a reason: something went wrong, the build is bad, the     *)
(* cluster refused documents, or a loop has given up.  No order in which   *)
(* cluster, seeder and worker come up turns a good leg red: in particular  *)
(* no test is run before the worker says that it listens.                  *)
Reasons == faults > 0 \/ env.build # "good" \/ refused # {} \/ tries = MaxTries
RedMeansBroken == script = "exited" /\ status = 1 => Reasons

(* The script ends, also when the cluster or the worker never comes up; or *)
(* it hangs, and nobody cancels it.                                        *)
ScriptEnds == <>(script \in {"exited", "aborted"}) \/ <>[](script = "hung")

-----------------------------------------------------------------------------
(* The inductive invariant behind these and SeededAsReported.  Of a *)
(* seeder that has met no error only the DELETE can be late, and its index *)
(* is what it asked for, or was wiped and is not of its mapping.           *)
SeederOnCourse ==
  /\ seeder # "failed" => late \subseteq {"delete"}
  /\ seeder \in {"idle", "delete"} => late = {}
  /\ seeder \in {"idle", "delete", "create", "bulk"} => refused = {}
  /\ seeder = "bulk" /\ ~ wiped => index = Index("seed", {}, {})
  /\ seeder = "refresh" /\ ~ wiped => index = Index("seed", Docs \ refused, {})
  /\ seeder = "done" /\ ~ wiped => index = Index("seed", Docs \ refused, Docs \ refused)
  /\ seeder \in {"idle", "delete", "create"} => ~ wiped /\ index.mapping # "seed"
  /\ seeder \in {"bulk", "refresh", "done"} /\ wiped => index.mapping # "seed"

(* How far the script has come, and what it has looked for.                *)
ScriptOnCourse ==
  /\ script \in {"start", "waiting"} => seeder = "idle"
  /\ script \in {"start", "waiting", "seeding", "launching", "started", "polling"} => tries < MaxTries
  /\ script \in {"launching", "started", "polling", "running"} => env.skipMock \/ seeder = "done"

(* The verdicts, and what they rest on.                                    *)
Verdicts ==
  /\ results["es_search"] = "passed" => seeder = "done" /\ refused = {} /\ env.build = "good"
  /\ status = 0 => /\ script \in {"leaving", "reaping", "exited"}
                   /\ \A t \in Wanted : results[t] \in {"passed", "skipped"}
                   /\ \E t \in Wanted : results[t] = "passed"

Coherent == TypeOK /\ SeederOnCourse /\ ScriptOnCourse /\ Verdicts /\ NothingLeft

(* While nothing goes wrong the seeder finds the index as it needs it, and *)
(* the worker lives and listens when the tests begin.                      *)
SeederUnharmed ==
  /\ late = {} /\ ~ wiped /\ seeder # "failed"
  /\ seeder = "create" => index = NoIndex
WorkerUnharmed ==
  /\ env.prelaunched => worker.alive /\ worker.announced
  /\ script \in {"started", "polling"} => worker.alive
  /\ script = "running" => Reachable
Unharmed == faults = 0 => SeederUnharmed /\ WorkerUnharmed

(* The script kills only a worker of its own, and only when it leaves.     *)
KillsItsOwn ==
  /\ worker.killed => script \in {"reaping", "exited", "aborted"} /\ pid
  /\ pid => ~ env.prelaunched
  /\ script \in {"started", "polling"} => env.transport # "subprocess" /\ ~ env.prelaunched

(* Without a reason no test goes amiss, and the script leaves green.       *)
Reasoned ==
  \/ Reasons
  \/ /\ \A t \in Wanted : results[t] \in {"not run", "passed"}
     /\ script \in {"leaving", "reaping", "exited", "aborted"} => status = 0

IInv == Coherent /\ Unharmed /\ KillsItsOwn /\ Reasoned
=============================================================================
