--------------------------- MODULE IntegrationProofs ---------------------------
(***************************************************************************)
(* Theorems about the integration script and the seeder, for any documents *)
(* and any number of faults and tries.                                     *)
(***************************************************************************)
EXTENDS Integration, LoopProofs

IndexStates == [mapping : {"none", "other", "seed", "dynamic"},
                docs : SUBSET (Docs \cup {OldDoc}), visible : SUBSET (Docs \cup {OldDoc})]

(* The indices that the definitions of Seed name.                          *)
LEMMA IndexFields ==
  ASSUME NEW m, NEW D, NEW V
  PROVE  /\ Index(m, D, V).mapping = m /\ Index(m, D, V).docs = D /\ Index(m, D, V).visible = V
BY DEF Index

LEMMA IndexTyped ==
  ASSUME NEW m \in {"none", "other", "seed", "dynamic"},
         NEW D \in SUBSET (Docs \cup {OldDoc}), NEW V \in SUBSET (Docs \cup {OldDoc})
  PROVE  Index(m, D, V) \in IndexStates
BY DEF Index, IndexStates

(* A bulk request answers 200, and indexes what it does not refuse.        *)
LEMMA BulkOutcome ==
  ASSUME NEW outcome \in Outcomes("bulk")
  PROVE  /\ outcome.refused \in SUBSET Docs
         /\ outcome.index = Index(IF index = NoIndex THEN "dynamic" ELSE index.mapping,
                                  index.docs \cup (Docs \ outcome.refused), index.visible)
<1> DEFINE after(items) == Index(IF index = NoIndex THEN "dynamic" ELSE index.mapping,
                                 index.docs \cup (Docs \ items), index.visible)
<1>1. Outcomes("bulk") = {Outcome(200, after(items), items) : items \in SUBSET Docs}
  BY Zenon DEF Outcomes
<1> HIDE DEF after
<1>2. PICK items \in SUBSET Docs : outcome = Outcome(200, after(items), items)
  BY <1>1
<1>3. outcome.refused = items /\ outcome.index = after(items)
  BY <1>2 DEF Outcome
<1> QED BY <1>3 DEF after

(* An outcome leaves an index, and refuses documents of the seeder only.   *)
LEMMA OutcomeTyped ==
  ASSUME SeedTypeOK, NEW request \in Requests, NEW outcome \in Outcomes(request)
  PROVE  outcome.index \in IndexStates /\ outcome.refused \subseteq Docs
<1>1. index \in IndexStates
  BY DEF SeedTypeOK, IndexStates
<1>2. NoIndex \in IndexStates /\ Index("seed", {}, {}) \in IndexStates
  BY IndexTyped DEF NoIndex
<1>3. [index EXCEPT !.visible = index.docs] \in IndexStates
  BY <1>1 DEF IndexStates
<1>4. ASSUME NEW items \in SUBSET Docs
      PROVE  Index(IF index = NoIndex THEN "dynamic" ELSE index.mapping,
                   index.docs \cup (Docs \ items), index.visible) \in IndexStates
  BY <1>1, IndexTyped DEF IndexStates
<1>5. CASE request = "bulk"
  BY <1>4, <1>5, BulkOutcome
<1>6. CASE request # "bulk"
  BY <1>1, <1>2, <1>3, <1>6 DEF Outcomes, Outcome
<1> QED BY <1>5, <1>6

(* What the other outcomes are, request by request.                        *)
LEMMA DeleteOutcome ==
  ASSUME NEW outcome \in Outcomes("delete")
  PROVE  outcome.index = NoIndex /\ outcome.refused = {}
BY DEF Outcomes, Outcome

LEMMA CreateOutcome ==
  ASSUME NEW outcome \in Outcomes("create"), ~ Fails("create", outcome.status)
  PROVE  outcome.index = Index("seed", {}, {}) /\ outcome.refused = {}
BY DEF Outcomes, Outcome, Fails

LEMMA RefreshOutcome ==
  ASSUME NEW outcome \in Outcomes("refresh"), ~ Fails("refresh", outcome.status)
  PROVE  outcome.index = [index EXCEPT !.visible = index.docs] /\ outcome.refused = {}
BY DEF Outcomes, Outcome, Fails

(* The requests are told apart, and a request ends as it should.           *)
LEMMA Following4 ==
  /\ Following("delete") = "create" /\ Following("create") = "bulk"
  /\ Following("bulk") = "refresh" /\ Following("refresh") = "done"
  /\ Requests = {"delete", "create", "bulk", "refresh"}
BY DEF Following, Requests

LEMMA AnsweredSeeds ==
  ASSUME SeedTypeOK, SeederOnCourse, Answered
  PROVE  SeedTypeOK' /\ SeederOnCourse'
<1>1. PICK outcome \in Outcomes(seeder) :
        /\ index' = outcome.index /\ refused' = refused \cup outcome.refused
        /\ Proceed(seeder, Fails(seeder, outcome.status))
  BY DEF Answered
<1>2. seeder \in Requests /\ late' = late /\ wiped' = wiped /\ faults' = faults
  BY DEF Answered
<1>3. SeedTypeOK'
  <2>1. index' \in IndexStates /\ refused' \subseteq Docs
    BY <1>1, <1>2, OutcomeTyped DEF SeedTypeOK
  <2>2. seeder' \in Requests \cup {"done", "failed"}
    BY <1>1, <1>2, Following4 DEF Proceed
  <2> QED BY <1>2, <2>1, <2>2 DEF SeedTypeOK, IndexStates
<1>4. CASE seeder = "delete"
  <2>1. seeder' = "create" /\ index' = NoIndex /\ refused' = {} /\ late' = {}
    BY <1>1, <1>2, <1>4, DeleteOutcome, Following4 DEF Proceed, SeederOnCourse
  <2> QED BY <1>2, <1>3, <1>4, <2>1, IndexFields DEF SeederOnCourse, NoIndex
<1>5. CASE seeder = "create"
  <2>1. CASE Fails("create", outcome.status)
    BY <1>1, <1>3, <1>5, <2>1 DEF Proceed, SeederOnCourse
  <2>2. CASE ~ Fails("create", outcome.status)
    <3>1. seeder' = "bulk" /\ index' = Index("seed", {}, {}) /\ refused' = {}
      BY <1>1, <1>5, <2>2, CreateOutcome, Following4 DEF Proceed, SeederOnCourse
    <3> QED BY <1>2, <1>3, <1>5, <3>1 DEF SeederOnCourse
  <2> QED BY <2>1, <2>2
<1>6. CASE seeder = "bulk"
  <2>1. CASE Fails("bulk", outcome.status)
    BY <1>1, <1>3, <1>6, <2>1 DEF Proceed, SeederOnCourse
  <2>2. CASE ~ Fails("bulk", outcome.status)
    <3>1. /\ seeder' = "refresh" /\ refused' = outcome.refused /\ refused' \in SUBSET Docs
          /\ index' = Index(IF index = NoIndex THEN "dynamic" ELSE index.mapping,
                            index.docs \cup (Docs \ refused'), index.visible)
      BY <1>1, <1>6, <2>2, BulkOutcome, Following4 DEF Proceed, SeederOnCourse
    <3>2. wiped => index'.mapping # "seed"
      BY <1>6, <3>1, IndexFields DEF SeederOnCourse
    <3>3. ASSUME ~ wiped PROVE index' = Index("seed", Docs \ refused', {})
      <4>1. index.mapping = "seed" /\ index.docs = {} /\ index.visible = {} /\ index # NoIndex
        BY <1>6, <3>3, IndexFields DEF SeederOnCourse, NoIndex
      <4>2. index.docs \cup (Docs \ refused') = Docs \ refused'
        BY <4>1
      <4> QED BY <3>1, <4>1, <4>2
    <3> QED BY <1>2, <1>3, <1>6, <3>1, <3>2, <3>3 DEF SeederOnCourse
  <2> QED BY <2>1, <2>2
<1>7. CASE seeder = "refresh"
  <2>1. CASE Fails("refresh", outcome.status)
    BY <1>1, <1>3, <1>7, <2>1 DEF Proceed, SeederOnCourse
  <2>2. CASE ~ Fails("refresh", outcome.status)
    <3>1. seeder' = "done" /\ refused' = refused /\ index' = [index EXCEPT !.visible = index.docs]
      BY <1>1, <1>7, <2>2, RefreshOutcome, Following4 DEF Proceed
    <3>2. index'.mapping = index.mapping /\ index'.docs = index.docs /\ index'.visible = index.docs
      BY <3>1 DEF SeedTypeOK
    <3>3. ~ wiped => index' = Index("seed", Docs \ refused, Docs \ refused)
      BY <1>7, <3>1 DEF SeederOnCourse, Index
    <3> QED BY <1>2, <1>3, <1>7, <3>1, <3>2, <3>3 DEF SeederOnCourse
  <2> QED BY <2>1, <2>2
<1> QED BY <1>2, <1>3, <1>4, <1>5, <1>6, <1>7, Following4

(* Without an answer the seeder fails, or goes on from a DELETE that may   *)
(* have been carried out, or be late.                                      *)
LEMMA UnansweredSeeds ==
  ASSUME SeedTypeOK, SeederOnCourse, Unanswered
  PROVE  SeedTypeOK' /\ SeederOnCourse'
<1>1. /\ seeder \in Requests /\ refused' = refused /\ wiped' = wiped
      /\ faults < MaxFaults /\ faults' = faults + 1 /\ Proceed(seeder, TRUE)
  BY DEF Unanswered
<1>2. /\ index' \in IndexStates /\ late' \in {late, late \cup {seeder}}
      /\ index' = index \/ \E outcome \in Outcomes(seeder) : index' = outcome.index
  BY OutcomeTyped DEF Unanswered, SeedTypeOK, IndexStates
<1>3. seeder' = IF seeder = "delete" THEN "create" ELSE "failed"
  BY <1>1, Following4 DEF Proceed
<1>4. SeedTypeOK'
  <2>1. faults' \in 0..MaxFaults
    BY <1>1, SeedAssumption DEF SeedTypeOK
  <2>2. seeder' \in Requests \cup {"failed"} /\ late' \subseteq Requests
    BY <1>1, <1>2, <1>3, Following4 DEF SeedTypeOK
  <2> QED BY <1>1, <1>2, <2>1, <2>2 DEF SeedTypeOK, IndexStates
<1>5. CASE seeder = "delete"
  <2>1. index'.mapping # "seed"
    BY <1>2, <1>5, DeleteOutcome, IndexFields DEF SeederOnCourse, NoIndex
  <2> QED BY <1>1, <1>2, <1>3, <1>4, <1>5, <2>1 DEF SeederOnCourse
<1>6. CASE seeder # "delete"
  BY <1>1, <1>3, <1>4, <1>6 DEF SeederOnCourse
<1> QED BY <1>5, <1>6

(* Of a seeder that has not failed only a DELETE arrives late.             *)
LEMMA ArrivesSeeds ==
  ASSUME SeedTypeOK, SeederOnCourse, Arrives
  PROVE  /\ SeedTypeOK' /\ SeederOnCourse'
         /\ seeder' = seeder /\ refused' = refused
<1>1. PICK request \in late : \E outcome \in Outcomes(request) :
        /\ index' = outcome.index /\ late' = late \ {request}
        /\ wiped' = (wiped \/ (request = "delete" /\ index.mapping = "seed"))
        /\ seeder' = seeder /\ refused' = refused /\ faults' = faults
  BY DEF Arrives
<1>2. request \in Requests /\ index' \in IndexStates
  BY <1>1, OutcomeTyped DEF SeedTypeOK
<1>3. SeedTypeOK'
  BY <1>1, <1>2 DEF SeedTypeOK, IndexStates
<1>4. CASE seeder = "failed"
  BY <1>1, <1>3, <1>4 DEF SeederOnCourse
<1>5. CASE seeder # "failed"
  <2>1. request = "delete" /\ index' = NoIndex /\ late # {}
    BY <1>1, <1>5, DeleteOutcome DEF SeederOnCourse
  <2>2. index'.mapping = "none"
    BY <2>1, IndexFields DEF NoIndex
  <2>3. seeder \notin {"idle", "delete"}
    BY <2>1 DEF SeederOnCourse
  <2>4. ~ wiped' => ~ wiped /\ index.mapping # "seed"
    BY <1>1, <2>1
  <2>5. seeder \in {"bulk", "refresh", "done"} => wiped'
    BY <2>4, IndexFields DEF SeederOnCourse
  <2>6. seeder = "create" => ~ wiped'
    BY <1>1 DEF SeederOnCourse
  <2> QED BY <1>1, <1>3, <1>5, <2>2, <2>3, <2>5, <2>6 DEF SeederOnCourse
<1> QED BY <1>1, <1>3, <1>4, <1>5

LEMMA SeederKeeps ==
  ASSUME SeedTypeOK, SeederOnCourse, SeederSteps \/ Arrives
  PROVE  SeedTypeOK' /\ SeederOnCourse'
BY AnsweredSeeds, UnansweredSeeds, ArrivesSeeds DEF SeederSteps

-----------------------------------------------------------------------------
(* A step of the script or the worker that leaves the seeder alone.        *)
LEMMA SeedUntouched ==
  ASSUME SeedTypeOK, SeederOnCourse, UNCHANGED seedVars
  PROVE  SeedTypeOK' /\ SeederOnCourse'
BY DEF SeedTypeOK, SeederOnCourse, seedVars, Index

(* One that only spends a fault.                                           *)
LEMMA SeedFault ==
  ASSUME SeedTypeOK, SeederOnCourse, UNCHANGED <<seeder, index, late, refused, wiped>>,
         faults' \in 0..MaxFaults
  PROVE  SeedTypeOK' /\ SeederOnCourse'
BY DEF SeedTypeOK, SeederOnCourse, Index

(* The processes: none, one that was started, and one that has come to     *)
(* listen.                                                                 *)
LEMMA ProcessTyped ==
  ASSUME env \in Environments, NEW t \in Transports[Launcher]
  PROVE  /\ Process(t) \in Workers /\ Process(t).alive = TRUE /\ Process(t).killed = FALSE
         /\ [Process(t) EXCEPT !.announced = TRUE] \in Workers
         /\ [Process(t) EXCEPT !.announced = TRUE].killed = FALSE
         /\ [NoWorker EXCEPT !.serves = t] \in Workers
         /\ [NoWorker EXCEPT !.serves = t].alive = FALSE
         /\ Process(t).serves = t /\ [NoWorker EXCEPT !.serves = t].serves = t
         /\ [Process(t) EXCEPT !.announced = TRUE].serves = t
<1>1. Launcher \in DOMAIN Transports
  BY DEF Launcher, Environments, Transports
<1> DEFINE S == {<<"nothing">>} \cup UNION {Transports[l] : l \in DOMAIN Transports}
<1>2. t \in S /\ <<"nothing">> \in S
  BY <1>1
<1> HIDE DEF S
<1>3. Workers = [alive : BOOLEAN, killed : BOOLEAN, announced : BOOLEAN, serves : S]
  BY DEF Workers, S
<1>4. /\ NoWorker \in [alive : BOOLEAN, killed : BOOLEAN, announced : BOOLEAN, serves : S]
      /\ NoWorker.alive = FALSE /\ NoWorker.killed = FALSE
  BY <1>2 DEF NoWorker
<1>5. Process(t) \in Workers /\ Process(t).alive = TRUE /\ Process(t).killed = FALSE /\ Process(t).serves = t
  BY <1>2, <1>3, <1>4 DEF Process
<1>6. /\ [NoWorker EXCEPT !.serves = t] \in Workers /\ [NoWorker EXCEPT !.serves = t].alive = FALSE
      /\ [NoWorker EXCEPT !.serves = t].serves = t
  BY <1>2, <1>3, <1>4
<1>7. /\ [Process(t) EXCEPT !.announced = TRUE] \in Workers
      /\ [Process(t) EXCEPT !.announced = TRUE].killed = FALSE
      /\ [Process(t) EXCEPT !.announced = TRUE].serves = t
  BY <1>3, <1>5
<1> QED BY <1>5, <1>6, <1>7

(* What becomes of a process leaves it one, and what it serves.            *)
LEMMA ProcessChanges ==
  ASSUME NEW w \in Workers, NEW b \in BOOLEAN
  PROVE  /\ w.alive \in BOOLEAN /\ w.killed \in BOOLEAN /\ w.announced \in BOOLEAN
         /\ [w EXCEPT !.alive = b] \in Workers /\ [w EXCEPT !.alive = b].alive = b
         /\ [w EXCEPT !.killed = b] \in Workers /\ [w EXCEPT !.killed = b].alive = w.alive
         /\ [w EXCEPT !.announced = b] \in Workers /\ [w EXCEPT !.announced = b].alive = w.alive
         /\ [w EXCEPT !.alive = b].serves = w.serves /\ [w EXCEPT !.killed = b].serves = w.serves
         /\ [w EXCEPT !.announced = b].serves = w.serves
<1> DEFINE S == {<<"nothing">>} \cup UNION {Transports[l] : l \in DOMAIN Transports}
<1>1. Workers = [alive : BOOLEAN, killed : BOOLEAN, announced : BOOLEAN, serves : S]
  BY DEF Workers
<1> HIDE DEF S
<1> QED BY <1>1

LEMMA NoWorkerTyped == NoWorker \in Workers /\ NoWorker.alive = FALSE /\ NoWorker.serves = <<"nothing">>
BY DEF NoWorker, Workers

LEMMA InitCoherent == Init => Coherent
<1> SUFFICES ASSUME Init PROVE Coherent
  OBVIOUS
<1>1. SeedTypeOK /\ SeederOnCourse
  <2>1. NoIndex \in IndexStates /\ Leftover \in IndexStates
    BY IndexTyped DEF NoIndex, Leftover
  <2>2. NoIndex.mapping # "seed" /\ Leftover.mapping # "seed"
    BY IndexFields DEF NoIndex, Leftover
  <2>3. 0 \in 0..MaxFaults
    BY SeedAssumption
  <2> QED BY <2>1, <2>2, <2>3 DEF Init, SeedInit, SeedTypeOK, SeederOnCourse, IndexStates, Requests
<1>2. worker \in Workers
  <2>1. CASE env.prelaunched
    <3>1. PICK t \in Transports[Launcher] : worker = [Process(t) EXCEPT !.announced = TRUE]
      BY <2>1 DEF Init
    <3> QED BY <3>1, ProcessTyped DEF Init
  <2>2. CASE ~ env.prelaunched
    BY <2>2, NoWorkerTyped DEF Init
  <2> QED BY <2>1, <2>2
<1>3. TypeOK
  <2>1. 0 \in 0..MaxTries
    BY IntegrationAssumption
  <2> QED BY <1>1, <1>2, <2>1 DEF Init, SeedInit, TypeOK, Requests
<1>4. /\ script = "start" /\ seeder = "idle" /\ tries = 0 /\ status = 1
      /\ results = [t \in Tests |-> "not run"]
  BY DEF Init, SeedInit
<1>5. ScriptOnCourse
  <2>1. 0 < MaxTries
    BY IntegrationAssumption
  <2>2. script = "start" /\ seeder = "idle" /\ tries = 0
    BY <1>4
  <2> QED BY <2>1, <2>2 DEF ScriptOnCourse
<1>6. Verdicts /\ NothingLeft
  <2>1. results["es_search"] # "passed" /\ script # "exited"
    BY <1>4 DEF Tests
  <2>2. status # 0
    <3>1. status = 1
      BY <1>4
    <3> QED BY <3>1
  <2> QED BY <2>1, <2>2 DEF Verdicts, NothingLeft
<1> QED BY <1>1, <1>3, <1>5, <1>6 DEF Coherent

(* The cluster and the seeder, while the script waits or after it is gone. *)
LEMMA ClusterKeeps ==
  ASSUME Coherent, Cluster
  PROVE  Coherent'
<1>1. UNCHANGED <<env, up, script, tries, status, pid, worker, socket, results>>
  BY DEF Cluster, Untouched
<1>2. SeedTypeOK' /\ SeederOnCourse'
  BY SeederKeeps DEF Cluster, Coherent, TypeOK
<1>3. seeder \in Requests \/ (seeder' = seeder /\ refused' = refused)
  BY DEF Cluster, SeederSteps, Answered, Unanswered, Arrives
<1>4. TypeOK' /\ NothingLeft'
  <2>1. TypeOK'
    BY <1>1, <1>2, <1>3 DEF Coherent, TypeOK, Requests
  <2>2. NothingLeft'
    BY <1>1, <1>2, <1>3 DEF Coherent, NothingLeft
  <2> QED BY <2>1, <2>2
<1>5. ScriptOnCourse'
  BY <1>1, <1>3 DEF Coherent, TypeOK, ScriptOnCourse, Requests
<1>6. Verdicts'
  BY <1>1, <1>3 DEF Coherent, Verdicts, Requests, Wanted, Tests
<1> QED BY <1>2, <1>4, <1>5, <1>6 DEF Coherent

(* A round of a loop counts a try or leaves the loop.                      *)
LEMMA LookCounts ==
  ASSUME TypeOK, NEW ready \in BOOLEAN, NEW then, Look(ready, then), tries < MaxTries
  PROVE  /\ tries' \in 0..MaxTries
         /\ \/ ready /\ script' = then /\ status' = status /\ tries' < MaxTries
            \/ ~ ready /\ script' = "leaving" /\ status' = 1
            \/ ~ ready /\ script' = script /\ status' = status /\ tries' < MaxTries
<1>1. tries \in 0..MaxTries /\ MaxTries \in Nat \ {0}
  BY IntegrationAssumption DEF TypeOK
<1>2. CASE ready
  BY <1>1, <1>2 DEF Look
<1>3. CASE ~ ready /\ tries + 1 = MaxTries
  BY <1>1, <1>3 DEF Look, Leave
<1>4. CASE ~ ready /\ tries + 1 # MaxTries
  BY <1>1, <1>4 DEF Look
<1> QED BY <1>2, <1>3, <1>4

(* A step that changes neither the seeder, nor results, nor the status but *)
(* to 1 when it leaves, keeps the verdicts.                                *)
LEMMA VerdictsKept ==
  ASSUME Coherent, UNCHANGED <<seeder, refused, env, results>>,
         \/ status' = status /\ (script' = script \/ status = 1)
         \/ status' = 1
         \/ status' = status /\ script \in {"leaving", "reaping"} /\ script' \in {"reaping", "exited"}
  PROVE  Verdicts'
BY DEF Coherent, Verdicts, Wanted, Tests

(* The exit status is 1 until the verdict.                                 *)
LEMMA NotYetGreen ==
  ASSUME Coherent, script \notin {"leaving", "reaping", "exited", "aborted"}
  PROVE  status = 1
BY DEF Coherent, TypeOK, Verdicts

LEMMA StartKeeps ==
  ASSUME Coherent, Start
  PROVE  Coherent'
<1>1. /\ UNCHANGED seedVars /\ UNCHANGED <<env, up, tries, status, pid, worker, socket, results>>
      /\ script = "start" /\ script' = IF env.skipMock THEN "launching" ELSE "waiting"
  BY DEF Start
<1>2. SeedTypeOK' /\ SeederOnCourse'
  BY <1>1, SeedUntouched DEF Coherent, TypeOK
<1>3. TypeOK' /\ NothingLeft'
  <2>1. TypeOK'
    BY <1>1, <1>2 DEF Coherent, TypeOK, ScriptOnCourse, seedVars, Requests
  <2>2. NothingLeft'
    BY <1>1, <1>2 DEF Coherent, NothingLeft
  <2> QED BY <2>1, <2>2
<1>4. ScriptOnCourse'
  BY <1>1 DEF Coherent, ScriptOnCourse, seedVars
<1>5. Verdicts'
  BY <1>1, VerdictsKept, NotYetGreen DEF seedVars
<1> QED BY <1>2, <1>3, <1>4, <1>5 DEF Coherent

LEMMA WaitForClusterKeeps ==
  ASSUME Coherent, WaitForCluster
  PROVE  Coherent'
<1>1. /\ UNCHANGED <<index, late, refused, wiped, faults, env, up, pid, worker, socket, results>>
      /\ script = "waiting" /\ seeder = "idle" /\ tries < MaxTries /\ up \in BOOLEAN /\ status = 1
      /\ Look(up, "seeding") /\ seeder' = IF up THEN "delete" ELSE seeder
  BY NotYetGreen DEF WaitForCluster, Coherent, TypeOK, ScriptOnCourse
<1>2. /\ tries' \in 0..MaxTries
      /\ \/ up /\ script' = "seeding" /\ status' = status /\ tries' < MaxTries
         \/ ~ up /\ script' = "leaving" /\ status' = 1
         \/ ~ up /\ script' = script /\ status' = status /\ tries' < MaxTries
  BY <1>1, LookCounts DEF Coherent
<1>3. SeedTypeOK' /\ SeederOnCourse'
  BY <1>1 DEF Coherent, TypeOK, SeedTypeOK, SeederOnCourse, Requests, Index
<1>4. TypeOK'
  BY <1>1, <1>2, <1>3 DEF Coherent, TypeOK, Requests
<1>5. ScriptOnCourse' /\ NothingLeft'
  BY <1>1, <1>2 DEF Coherent, ScriptOnCourse, NothingLeft
<1>6. Verdicts'
  BY <1>1, <1>2 DEF Coherent, Verdicts, Wanted, Tests
<1> QED BY <1>3, <1>4, <1>5, <1>6 DEF Coherent

LEMMA SeededKeeps ==
  ASSUME Coherent, Seeded
  PROVE  Coherent'
<1>1. /\ UNCHANGED seedVars /\ UNCHANGED <<env, up, tries, pid, worker, socket, results>>
      /\ script = "seeding" /\ status = 1 /\ status' = 1 /\ seeder \notin Requests
      /\ \/ seeder = "done" /\ script' = "launching"
         \/ script' = "leaving"
  BY NotYetGreen DEF Seeded, Leave, Requests
<1>2. SeedTypeOK' /\ SeederOnCourse'
  BY <1>1, SeedUntouched DEF Coherent, TypeOK
<1>3. TypeOK' /\ NothingLeft'
  <2>1. TypeOK'
    BY <1>1, <1>2 DEF Coherent, TypeOK, seedVars
  <2>2. NothingLeft'
    BY <1>1, <1>2 DEF Coherent, NothingLeft
  <2> QED BY <2>1, <2>2
<1>4. ScriptOnCourse'
  BY <1>1 DEF Coherent, ScriptOnCourse, seedVars
<1>5. Verdicts'
  BY <1>1, VerdictsKept DEF seedVars
<1> QED BY <1>2, <1>3, <1>4, <1>5 DEF Coherent

LEMMA LaunchKeeps ==
  ASSUME Coherent, Launch \/ RecordPid
  PROVE  Coherent'
<1>1. /\ UNCHANGED seedVars /\ UNCHANGED <<env, up, tries, status, results>>
      /\ script \in {"launching", "started"} /\ status = 1
      /\ \/ script = "launching" /\ script' \in {"running", "started"} /\ pid' = pid
         \/ script = "started" /\ script' = "polling" /\ pid' = TRUE
  BY NotYetGreen DEF Launch, RecordPid
<1>2. worker' \in Workers /\ socket' \in BOOLEAN
  <2>1. worker' = worker \/ \E t \in Transports[Launcher] : worker' = Process(t)
    BY DEF Launch, RecordPid
  <2>2. worker' \in Workers
    BY <2>1, ProcessTyped DEF Coherent, TypeOK
  <2> QED BY <2>2 DEF Launch, RecordPid, Coherent, TypeOK
<1>3. SeedTypeOK' /\ SeederOnCourse'
  BY <1>1, SeedUntouched DEF Coherent, TypeOK
<1>4. TypeOK' /\ NothingLeft'
  <2>1. TypeOK'
    BY <1>1, <1>2, <1>3 DEF Coherent, TypeOK, seedVars
  <2>2. NothingLeft'
    BY <1>1, <1>2, <1>3 DEF Coherent, NothingLeft
  <2> QED BY <2>1, <2>2
<1>5. ScriptOnCourse'
  BY <1>1 DEF Coherent, ScriptOnCourse, seedVars
<1>6. Verdicts'
  BY <1>1, VerdictsKept DEF seedVars
<1> QED BY <1>3, <1>4, <1>5, <1>6 DEF Coherent

LEMMA WaitForWorkerKeeps ==
  ASSUME Coherent, WaitForWorker
  PROVE  Coherent'
<1> DEFINE ready == worker.announced /\ (env.transport = "unix" => socket)
<1>1. /\ UNCHANGED seedVars /\ UNCHANGED <<env, up, pid, worker, socket, results>>
      /\ script = "polling" /\ status = 1 /\ tries < MaxTries
      /\ IF ready \/ worker.alive THEN Look(ready, "running") ELSE Leave(1) /\ UNCHANGED tries
  BY NotYetGreen DEF WaitForWorker, Coherent, ScriptOnCourse
<1>2. /\ tries' \in 0..MaxTries /\ status' = 1
      /\ \/ script' = "running" \/ script' = "leaving" \/ (script' = script /\ tries' < MaxTries)
  <2>1. CASE ready \/ worker.alive
    <3>1. Look(ready, "running") /\ ready \in BOOLEAN
      BY <1>1, <2>1
    <3> QED BY <1>1, <3>1, LookCounts DEF Coherent
  <2>2. CASE ~ (ready \/ worker.alive)
    BY <1>1, <2>2 DEF Leave, Coherent, TypeOK
  <2> QED BY <2>1, <2>2
<1>3. SeedTypeOK' /\ SeederOnCourse'
  BY <1>1, SeedUntouched DEF Coherent, TypeOK
<1>4. TypeOK' /\ NothingLeft'
  <2>1. TypeOK'
    BY <1>1, <1>2, <1>3 DEF Coherent, TypeOK, seedVars
  <2>2. NothingLeft'
    BY <1>1, <1>2, <1>3 DEF Coherent, NothingLeft
  <2> QED BY <2>1, <2>2
<1>5. ScriptOnCourse'
  BY <1>1, <1>2 DEF Coherent, ScriptOnCourse, seedVars
<1>6. Verdicts'
  BY <1>1, <1>2, VerdictsKept DEF seedVars
<1> QED BY <1>3, <1>4, <1>5, <1>6 DEF Coherent

(* A test passes only with the code and the index in order.                *)
LEMMA AnswersHonest ==
  ASSUME Coherent, seeder = "done", Answers("es_search") = "passed"
  PROVE  refused = {} /\ env.build = "good"
<1>1. index = Full /\ env.build = "good"
  BY DEF Answers, Unreachable
<1>2. index.mapping = "seed" /\ index.docs = Docs
  BY <1>1, IndexFields DEF Full
<1>3. ~ wiped
  BY <1>2 DEF Coherent, SeederOnCourse
<1>4. index.docs = Docs \ refused
  BY <1>3, IndexFields DEF Coherent, SeederOnCourse
<1>5. refused \subseteq Docs
  BY DEF Coherent, TypeOK, SeedTypeOK
<1> QED BY <1>1, <1>2, <1>4, <1>5

LEMMA RunTestKeeps ==
  ASSUME Coherent, NEW t \in Tests, RunTest(t)
  PROVE  Coherent'
<1>1. /\ UNCHANGED <<seeder, index, late, refused, wiped, env, up, script, tries, status, pid, socket>>
      /\ script = "running" /\ t \in Wanted /\ results[t] = "not run" /\ status = 1
  BY NotYetGreen DEF RunTest
<1>2. \/ results' = [results EXCEPT ![t] = Answers(t)] /\ faults' = faults
      \/ /\ t = "es_search" /\ faults < MaxFaults /\ faults' = faults + 1
         /\ \E r \in {"failed", "skipped"} : results' = [results EXCEPT ![t] = r]
  BY DEF RunTest
<1>3. faults' \in 0..MaxFaults
  <2>1. faults \in 0..MaxFaults
    BY DEF Coherent, TypeOK, SeedTypeOK
  <2>2. faults' = faults \/ (faults < MaxFaults /\ faults' = faults + 1)
    BY <1>2
  <2> QED BY <2>1, <2>2, SeedAssumption
<1>4. SeedTypeOK' /\ SeederOnCourse'
  BY <1>1, <1>3, SeedFault DEF Coherent, TypeOK
<1>5. worker' \in Workers
  <2>1. worker' = worker \/ \E u \in Transports[Launcher] : worker' = [NoWorker EXCEPT !.serves = u]
    BY DEF RunTest
  <2> QED BY <2>1, ProcessTyped DEF Coherent, TypeOK
<1>6. Answers(t) \in {"passed", "failed", "skipped"}
  BY DEF Answers, Unreachable, Tests
<1>7. results' \in [Tests -> {"not run", "passed", "failed", "skipped"}]
  BY <1>2, <1>6 DEF Coherent, TypeOK
<1>8. TypeOK'
  BY <1>1, <1>4, <1>5, <1>7 DEF Coherent, TypeOK
<1>9. ScriptOnCourse' /\ NothingLeft'
  BY <1>1 DEF Coherent, ScriptOnCourse, NothingLeft
<1>10. ASSUME results'["es_search"] = "passed"
       PROVE  seeder' = "done" /\ refused' = {} /\ env'.build = "good"
  <2>1. CASE t = "es_search"
    <3>1. ~ env.skipMock /\ seeder = "done"
      BY <1>1, <2>1 DEF Wanted, Coherent, ScriptOnCourse
    <3>2. Answers("es_search") = "passed"
      BY <1>2, <1>10, <2>1 DEF Coherent, TypeOK, Tests
    <3> QED BY <1>1, <3>1, <3>2, AnswersHonest
  <2>2. CASE t # "es_search"
    <3>1. results["es_search"] = "passed"
      BY <1>2, <1>10, <2>2 DEF Coherent, TypeOK, Tests
    <3> QED BY <1>1, <3>1 DEF Coherent, Verdicts
  <2> QED BY <2>1, <2>2
<1>11. Verdicts'
  <2>1. status' # 0
    <3>1. status' = 1
      BY <1>1
    <3> QED BY <3>1
  <2> QED BY <1>10, <2>1 DEF Verdicts
<1> QED BY <1>4, <1>8, <1>9, <1>11 DEF Coherent

LEMMA JudgeKeeps ==
  ASSUME Coherent, Judge
  PROVE  Coherent'
<1>1. /\ UNCHANGED seedVars /\ UNCHANGED <<env, up, tries, pid, worker, socket, results>>
      /\ script = "running" /\ script' = "leaving" /\ status' = IF Green THEN 0 ELSE 1
      /\ \A t \in Wanted : results[t] # "not run"
  BY DEF Judge, Leave
<1>2. SeedTypeOK' /\ SeederOnCourse'
  BY <1>1, SeedUntouched DEF Coherent, TypeOK
<1>3. TypeOK' /\ ScriptOnCourse' /\ NothingLeft'
  <2>1. TypeOK'
    BY <1>1, <1>2 DEF Coherent, TypeOK, seedVars
  <2>2. ScriptOnCourse'
    BY <1>1, <1>2 DEF Coherent, ScriptOnCourse, seedVars
  <2>3. NothingLeft'
    BY <1>1, <1>2 DEF Coherent, NothingLeft
  <2> QED BY <2>1, <2>2, <2>3
<1>4. ASSUME Green
      PROVE  /\ \A t \in Wanted : results[t] \in {"passed", "skipped"}
             /\ \E t \in Wanted : results[t] = "passed"
  <2>1. \A t \in Wanted : results[t] \in {"not run", "passed", "failed", "skipped"}
    BY DEF Coherent, TypeOK, Wanted, Tests
  <2> QED BY <1>1, <1>4, <2>1 DEF Green
<1>5. Wanted' = Wanted
  BY <1>1 DEF Wanted
<1>6. Verdicts'
  <2>1. /\ UNCHANGED <<seeder, refused, env, results>> /\ script' = "leaving"
        /\ status' = 0 => Green
    <3>1. status' = IF Green THEN 0 ELSE 1
      BY <1>1
    <3>2. status' = 0 => Green
      BY <3>1
    <3> QED BY <1>1, <3>2 DEF seedVars
  <2> QED BY <1>4, <1>5, <2>1 DEF Coherent, Verdicts
<1> QED BY <1>2, <1>3, <1>6 DEF Coherent

(* cleanup: a worker that the script knows of is gone when it exits.       *)
LEMMA CleanupKeeps ==
  ASSUME Coherent, Cleanup \/ Reap
  PROVE  Coherent'
<1>1. /\ UNCHANGED seedVars /\ UNCHANGED <<env, up, tries, status, pid, results>>
      /\ \/ script = "leaving" /\ script' = "reaping" /\ socket' = socket
         \/ /\ script = "reaping" /\ script' = "exited" /\ socket' = FALSE
            /\ worker' = worker /\ (pid => ~ worker.alive)
  BY DEF Cleanup, Reap, Waited
<1>2. worker' \in Workers
  <2>1. CASE Reap
    BY <2>1 DEF Reap, Coherent, TypeOK
  <2>2. CASE Cleanup
    <3>1. worker' = [worker EXCEPT !.killed = worker.killed \/ (pid /\ worker.alive)]
      BY <2>2 DEF Cleanup
    <3>2. (worker.killed \/ (pid /\ worker.alive)) \in BOOLEAN
      OBVIOUS
    <3> QED BY <3>1, <3>2, ProcessChanges DEF Coherent, TypeOK
  <2> QED BY <2>1, <2>2
<1>3. SeedTypeOK' /\ SeederOnCourse'
  BY <1>1, SeedUntouched DEF Coherent, TypeOK
<1>4. TypeOK' /\ ScriptOnCourse' /\ NothingLeft'
  <2>1. TypeOK'
    BY <1>1, <1>2, <1>3 DEF Coherent, TypeOK, seedVars
  <2>2. ScriptOnCourse'
    BY <1>1, <1>2, <1>3 DEF Coherent, ScriptOnCourse, seedVars
  <2>3. NothingLeft'
    BY <1>1, <1>2, <1>3 DEF Coherent, NothingLeft
  <2> QED BY <2>1, <2>2, <2>3
<1>5. Verdicts'
  BY <1>1, VerdictsKept DEF seedVars
<1> QED BY <1>3, <1>4, <1>5 DEF Coherent

LEMMA CancelKeeps ==
  ASSUME Coherent, Cancel
  PROVE  Coherent'
<1>1. /\ UNCHANGED <<seeder, index, late, refused, wiped, env, up, tries, pid, worker, socket, results>>
      /\ faults < MaxFaults /\ faults' = faults + 1
      /\ script' = "leaving" /\ status' = 1
  BY DEF Cancel, Leave
<1>2. faults' \in 0..MaxFaults
  <2>1. faults \in 0..MaxFaults
    BY DEF Coherent, TypeOK, SeedTypeOK
  <2> QED BY <1>1, <2>1, SeedAssumption
<1>3. SeedTypeOK' /\ SeederOnCourse'
  BY <1>1, <1>2, SeedFault DEF Coherent, TypeOK
<1>4. TypeOK' /\ ScriptOnCourse' /\ NothingLeft'
  <2>1. TypeOK'
    BY <1>1, <1>3 DEF Coherent, TypeOK
  <2>2. ScriptOnCourse'
    BY <1>1, <1>3 DEF Coherent, ScriptOnCourse
  <2>3. NothingLeft'
    BY <1>1, <1>3 DEF Coherent, NothingLeft
  <2> QED BY <2>1, <2>2, <2>3
<1>5. Verdicts'
  BY <1>1, VerdictsKept
<1> QED BY <1>3, <1>4, <1>5 DEF Coherent

LEMMA AbortKeeps ==
  ASSUME Coherent, Abort
  PROVE  Coherent'
<1>1. /\ UNCHANGED <<seeder, index, late, refused, wiped, env, up, tries, pid, worker, socket, results>>
      /\ faults < MaxFaults /\ faults' = faults + 1 /\ script \in {"leaving", "reaping"}
      /\ script' = "aborted" /\ status' = 1
  BY DEF Abort
<1>2. faults' \in 0..MaxFaults
  <2>1. faults \in 0..MaxFaults
    BY DEF Coherent, TypeOK, SeedTypeOK
  <2> QED BY <1>1, <2>1, SeedAssumption
<1>3. SeedTypeOK' /\ SeederOnCourse'
  BY <1>1, <1>2, SeedFault DEF Coherent, TypeOK
<1>4. TypeOK' /\ ScriptOnCourse' /\ NothingLeft'
  <2>1. TypeOK'
    BY <1>1, <1>3 DEF Coherent, TypeOK
  <2>2. ScriptOnCourse'
    BY <1>1, <1>3 DEF Coherent, ScriptOnCourse
  <2>3. NothingLeft'
    BY <1>1, <1>3 DEF Coherent, NothingLeft
  <2> QED BY <2>1, <2>2, <2>3
<1>5. Verdicts'
  BY <1>1, VerdictsKept
<1> QED BY <1>3, <1>4, <1>5 DEF Coherent

LEMMA HangKeeps ==
  ASSUME Coherent, Hang
  PROVE  Coherent'
<1>1. /\ UNCHANGED seedVars /\ UNCHANGED <<env, up, tries, status, pid, worker, socket, results>>
      /\ script \in {"waiting", "running"} /\ script' = "hung"
  BY DEF Hang
<1>2. SeedTypeOK' /\ SeederOnCourse'
  BY <1>1, SeedUntouched DEF Coherent, TypeOK
<1>3. TypeOK' /\ ScriptOnCourse' /\ NothingLeft'
  <2>1. TypeOK'
    BY <1>1, <1>2 DEF Coherent, TypeOK, seedVars
  <2>2. ScriptOnCourse'
    BY <1>1, <1>2 DEF Coherent, ScriptOnCourse, seedVars
  <2>3. NothingLeft'
    BY <1>1, <1>2 DEF Coherent, NothingLeft
  <2> QED BY <2>1, <2>2, <2>3
<1>4. Verdicts'
  BY <1>1, VerdictsKept, NotYetGreen DEF seedVars
<1> QED BY <1>2, <1>3, <1>4 DEF Coherent

(* The cluster comes up; the worker opens its socket and says so.          *)
LEMMA ListenKeeps ==
  ASSUME Coherent, Boot \/ Listen \/ Announce
  PROVE  Coherent'
<1>1. /\ UNCHANGED seedVars /\ UNCHANGED <<env, script, tries, status, pid, results>>
      /\ up' \in BOOLEAN /\ socket' \in BOOLEAN
  BY DEF Boot, Listen, Announce, Coherent, TypeOK
<1>2. worker' \in Workers /\ worker'.alive = worker.alive /\ (socket' = socket \/ worker.alive)
  <2>1. worker \in Workers
    BY DEF Coherent, TypeOK
  <2>2. CASE worker' = worker /\ (socket' = socket \/ worker.alive)
    BY <2>1, <2>2
  <2>3. CASE worker' = [worker EXCEPT !.announced = TRUE] /\ socket' = socket
    BY <2>1, <2>3, ProcessChanges
  <2> QED BY <2>2, <2>3 DEF Boot, Listen, Announce
<1>3. SeedTypeOK' /\ SeederOnCourse'
  BY <1>1, SeedUntouched DEF Coherent, TypeOK
<1>4. TypeOK' /\ ScriptOnCourse' /\ NothingLeft'
  <2>1. TypeOK'
    BY <1>1, <1>2, <1>3 DEF Coherent, TypeOK, seedVars
  <2>2. ScriptOnCourse'
    BY <1>1 DEF Coherent, ScriptOnCourse, seedVars
  <2>3. NothingLeft'
    BY <1>1, <1>2 DEF Coherent, NothingLeft
  <2> QED BY <2>1, <2>2, <2>3
<1>5. Verdicts'
  BY <1>1, VerdictsKept DEF seedVars
<1> QED BY <1>3, <1>4, <1>5 DEF Coherent

LEMMA DieKeeps ==
  ASSUME Coherent, Die
  PROVE  Coherent'
<1>1. /\ UNCHANGED <<seeder, index, late, refused, wiped, env, up, script, tries, status, pid, socket, results>>
      /\ worker.alive /\ worker' = [worker EXCEPT !.alive = FALSE]
      /\ faults' <= MaxFaults /\ faults' \in {faults, faults + 1}
  BY DEF Die
<1>2. faults' \in 0..MaxFaults
  <2>1. faults \in 0..MaxFaults
    BY DEF Coherent, TypeOK, SeedTypeOK
  <2> QED BY <1>1, <2>1, SeedAssumption
<1>3. worker' \in Workers
  <2> QED BY <1>1, ProcessChanges DEF Coherent, TypeOK
<1>4. SeedTypeOK' /\ SeederOnCourse'
  BY <1>1, <1>2, SeedFault DEF Coherent, TypeOK
<1>5. script # "exited" \/ ~ pid
  BY <1>1 DEF Coherent, NothingLeft
<1>6. TypeOK' /\ ScriptOnCourse' /\ NothingLeft'
  <2>1. TypeOK'
    BY <1>1, <1>3, <1>4, <1>5 DEF Coherent, TypeOK
  <2>2. ScriptOnCourse'
    BY <1>1, <1>3, <1>4, <1>5 DEF Coherent, ScriptOnCourse
  <2>3. NothingLeft'
    BY <1>1, <1>3, <1>4, <1>5 DEF Coherent, NothingLeft
  <2> QED BY <2>1, <2>2, <2>3
<1>7. Verdicts'
  BY <1>1, VerdictsKept
<1> QED BY <1>4, <1>6, <1>7 DEF Coherent

LEMMA IdleKeeps ==
  ASSUME Coherent, UNCHANGED vars
  PROVE  Coherent'
<1>1. UNCHANGED seedVars /\ UNCHANGED <<env, up, script, tries, status, pid, worker, socket, results>>
  BY DEF vars
<1>2. SeedTypeOK' /\ SeederOnCourse'
  BY <1>1, SeedUntouched DEF Coherent, TypeOK
<1>3. TypeOK' /\ ScriptOnCourse' /\ NothingLeft'
  <2>1. TypeOK'
    BY <1>1, <1>2 DEF Coherent, TypeOK, seedVars
  <2>2. ScriptOnCourse'
    BY <1>1, <1>2 DEF Coherent, ScriptOnCourse, seedVars
  <2>3. NothingLeft'
    BY <1>1, <1>2 DEF Coherent, NothingLeft
  <2> QED BY <2>1, <2>2, <2>3
<1>4. Verdicts'
  BY <1>1, VerdictsKept DEF seedVars
<1> QED BY <1>2, <1>3, <1>4 DEF Coherent

-----------------------------------------------------------------------------
(* The seeder, the script and the verdicts keep to their course, in every  *)
(* order of faults, late requests, crashes and cancellations.              *)
THEOREM ScriptsCoherent == Spec => []Coherent
<1>1. ASSUME Coherent, [Next]_vars PROVE Coherent'
  BY <1>1, StartKeeps, WaitForClusterKeeps, SeededKeeps, LaunchKeeps, WaitForWorkerKeeps,
     RunTestKeeps, JudgeKeeps, CleanupKeeps, ClusterKeeps, CancelKeeps, AbortKeeps,
     HangKeeps, ListenKeeps, DieKeeps, IdleKeeps DEF Next, Script
<1> QED BY <1>1, InitCoherent, PTL DEF Spec

(* A seeder that reports success has left exactly its documents, unless    *)
(* items were refused or a late DELETE wiped them (seed, run).             *)
THEOREM SeedersReport == Spec => []SeededAsReported
<1>1. Coherent => SeededAsReported
  <2> SUFFICES ASSUME Coherent, seeder = "done", refused = {}, ~ wiped PROVE index = Full
    BY DEF SeededAsReported
  <2>1. index = Index("seed", Docs \ refused, Docs \ refused)
    BY DEF Coherent, SeederOnCourse
  <2>2. Docs \ refused = Docs
    OBVIOUS
  <2> QED BY <2>1, <2>2 DEF Full
<1> QED BY <1>1, ScriptsCoherent, PTL

(* However it ends, the script leaves no worker and no socket (cleanup).   *)
THEOREM WorkersAreReaped == Spec => []NothingLeft
<1>1. Coherent => NothingLeft
  BY DEF Coherent
<1> QED BY <1>1, ScriptsCoherent, PTL

(* A green leg has a test that passed, and es_search passed against a good *)
(* build and a whole index, or was skipped (the guard against all-skipped  *)
(* runs in run-integration.sh).                                            *)
THEOREM GreenIsTested == Spec => []GreenMeansTested
<1>1. Coherent => GreenMeansTested
  BY DEF Coherent, Verdicts, GreenMeansTested
<1> QED BY <1>1, ScriptsCoherent, PTL

-----------------------------------------------------------------------------
(* What the flag package reads: tokens, the options, and how far it is.    *)
Texts == STRING \cup {"", "http", "http-addr", "unix", "es.sock", "0.0.0.0:8000", "127.0.0.1:0"}
Token == [flag : Texts, value : Texts]
Options == [http : BOOLEAN, addr : Texts, unix : Texts, usage : BOOLEAN]
Readings == [options : Options, awaits : Texts, stopped : BOOLEAN]

LEMMA SetTyped ==
  ASSUME NEW o \in Options, NEW name \in Texts, NEW value \in Texts
  PROVE  /\ Set(o, name, value) \in Options /\ Usage(o) \in Options
         /\ name \notin {"unix", "http-addr", "http"} => Set(o, name, value) = o
BY DEF Set, Usage, Options

LEMMA ParseTyped ==
  ASSUME NEW s \in Readings, NEW a \in Token
  PROVE  ParseStep(s, a) \in Readings
<1>1. s.options \in Options /\ s.awaits \in Texts /\ a.flag \in Texts /\ a.value \in Texts /\ "" \in Texts
  BY DEF Readings, Token, Texts
<1>2. /\ Set(s.options, s.awaits, a.value) \in Options /\ Set(s.options, a.flag, a.value) \in Options
      /\ Usage(s.options) \in Options
  BY <1>1, SetTyped
<1> QED BY <1>1, <1>2 DEF ParseStep, Readings

LEMMA NothingTyped == NothingParsed \in Readings /\ Default \in Options
BY DEF NothingParsed, Readings, Options, Default, Texts

(* The flag package reads token by token.                                  *)
LEMMA ParseRuns ==
  ASSUME NEW s \in Seq(Token)
  PROVE  \E f \in [0..Len(s) -> Readings] :
           /\ f[0] = NothingParsed /\ Parsed(s) = f[Len(s)]
           /\ \A i \in 1..Len(s) : f[i] = ParseStep(f[i - 1], s[i])
<1> DEFINE n == Len(s)
           Body == [p \in Readings \X (1..n) |-> ParseStep(p[1], s[p[2]])]
           Unfolds(f) == f = [i \in 0..n |-> IF i = 0 THEN NothingParsed ELSE ParseStep(f[i - 1], s[i])]
<1>1. n \in Nat /\ \A i \in 1..n : s[i] \in Token
  OBVIOUS
<1>2. Body \in [Readings \X (1..n) -> Readings]
  BY <1>1, ParseTyped
<1>3. PICK f : f \in [0..n -> Readings] /\ IsRun(f, n, NothingParsed, Body)
  <2> HIDE DEF Body, n
  <2> QED BY <1>1, <1>2, NothingTyped, LoopRuns
<1>4. ASSUME NEW i \in 1..n PROVE f[i] = ParseStep(f[i - 1], s[i])
  <2>1. f[i - 1] \in Readings
    BY <1>1, <1>3
  <2> QED BY <1>3, <2>1 DEF IsRun
<1>5. f[0] = NothingParsed
  BY <1>3 DEF IsRun
<1>6. Unfolds(f)
  <2> HIDE DEF n
  <2>1. \A i \in 0..n : i = 0 \/ i \in 1..n
    BY <1>1
  <2>2. \A i \in 0..n : f[i] = IF i = 0 THEN NothingParsed ELSE ParseStep(f[i - 1], s[i])
    BY <1>4, <1>5, <2>1
  <2> QED BY <1>3, <2>2
<1> DEFINE g == CHOOSE h : Unfolds(h)
<1>7. Unfolds(g)
  <2> HIDE DEF Unfolds
  <2> QED BY <1>6
<1>8. Parsed(s) = g[n]
  BY DEF Parsed
<1> HIDE DEF g
<1>9. g[0] = NothingParsed /\ \A i \in 1..n : g[i] = ParseStep(g[i - 1], s[i])
  <2> HIDE DEF n
  <2>1. 0 \in 0..n /\ \A i \in 1..n : i \in 0..n /\ i # 0
    BY <1>1
  <2> QED BY <1>7, <2>1
<1> DEFINE P == {i \in 0..n : g[i] = f[i]}
<1>10. 0 \in P
  BY <1>1, <1>5, <1>9
<1>11. ASSUME NEW i \in 1..n, i - 1 \in P PROVE i \in P
  <2>1. g[i - 1] = f[i - 1] /\ i \in 0..n
    BY <1>1, <1>11
  <2> QED BY <1>4, <1>9, <2>1
<1>12. n \in P
  <2> HIDE DEF P, n
  <2>1. \A i \in 0..n : i \in P
    BY <1>1, <1>10, <1>11, PositionInduction
  <2> QED BY <1>1, <2>1
<1>13. Parsed(s) = f[n]
  BY <1>8, <1>12
<1> QED BY <1>3, <1>4, <1>5, <1>13

LEMMA ParsedAppend ==
  ASSUME NEW s \in Seq(Token), NEW a \in Token
  PROVE  Parsed(s) \in Readings /\ Parsed(Append(s, a)) = ParseStep(Parsed(s), a)
<1> DEFINE n == Len(s)
           u == Append(s, a)
<1>1. u \in Seq(Token) /\ Len(u) = n + 1 /\ u[n + 1] = a /\ n \in Nat /\ \A i \in 1..n : u[i] = s[i]
  BY AppendProperties
<1>2. PICK f \in [0..n -> Readings] :
        /\ f[0] = NothingParsed /\ Parsed(s) = f[n]
        /\ \A i \in 1..n : f[i] = ParseStep(f[i - 1], s[i])
  BY ParseRuns
<1> HIDE DEF u
<1>3. PICK g \in [0..Len(u) -> Readings] :
        /\ g[0] = NothingParsed /\ Parsed(u) = g[Len(u)]
        /\ \A i \in 1..Len(u) : g[i] = ParseStep(g[i - 1], u[i])
  BY <1>1, ParseRuns
<1> DEFINE P == {i \in 0..n : g[i] = f[i]}
<1>4. 0 \in P
  BY <1>1, <1>2, <1>3
<1>5. ASSUME NEW i \in 1..n, i - 1 \in P PROVE i \in P
  <2>1. g[i - 1] = f[i - 1] /\ i \in 0..n /\ i \in 1..Len(u)
    BY <1>1, <1>5
  <2> QED BY <1>1, <1>2, <1>3, <2>1
<1>6. n \in P
  <2> HIDE DEF P, n
  <2>1. \A i \in 0..n : i \in P
    BY <1>1, <1>4, <1>5, PositionInduction
  <2> QED BY <1>1, <2>1
<1>7. g[n + 1] = ParseStep(g[n], a)
  <2>1. n + 1 \in 1..Len(u) /\ (n + 1) - 1 = n
    BY <1>1
  <2> QED BY <1>1, <1>3, <2>1
<1>8. Parsed(u) = ParseStep(f[n], a)
  BY <1>1, <1>3, <1>6, <1>7
<1>9. f[n] \in Readings
  BY <1>1, <1>2
<1> QED BY <1>2, <1>8, <1>9 DEF u

LEMMA ParsedNothing == Parsed(<<>>) = NothingParsed
<1>1. <<>> \in Seq(Token) /\ Len(<<>>) = 0
  OBVIOUS
<1> QED BY <1>1, ParseRuns

(* filterKnownFlags goes token by token.                                   *)
FilterStates == [kept : Seq(Token), value : BOOLEAN]

LEMMA FilterTyped ==
  ASSUME NEW s \in FilterStates, NEW a \in Token
  PROVE  FilterStep(s, a) \in FilterStates
<1>1. Append(s.kept, a) \in Seq(Token) /\ Bare(a) \in BOOLEAN
  BY DEF FilterStates, Bare
<1> QED BY <1>1 DEF FilterStep, FilterStates

LEMMA FilterRuns ==
  ASSUME NEW args \in Seq(Token)
  PROVE  \E f \in [0..Len(args) -> FilterStates] :
           /\ f[0] = NothingKept /\ FilterKnownFlags(args) = f[Len(args)].kept
           /\ \A i \in 1..Len(args) : f[i] = FilterStep(f[i - 1], args[i])
<1> DEFINE n == Len(args)
           Body == [p \in FilterStates \X (1..n) |-> FilterStep(p[1], args[p[2]])]
           Unfolds(f) == f = [i \in 0..n |-> IF i = 0 THEN NothingKept ELSE FilterStep(f[i - 1], args[i])]
<1>1. n \in Nat /\ \A i \in 1..n : args[i] \in Token
  OBVIOUS
<1>2. Body \in [FilterStates \X (1..n) -> FilterStates]
  BY <1>1, FilterTyped
<1>0. NothingKept \in FilterStates
  BY DEF NothingKept, FilterStates
<1>3. PICK f : f \in [0..n -> FilterStates] /\ IsRun(f, n, NothingKept, Body)
  <2> HIDE DEF Body, n
  <2> QED BY <1>0, <1>1, <1>2, LoopRuns
<1>4. ASSUME NEW i \in 1..n PROVE f[i] = FilterStep(f[i - 1], args[i])
  <2>1. f[i - 1] \in FilterStates
    BY <1>1, <1>3
  <2> QED BY <1>3, <2>1 DEF IsRun
<1>5. f[0] = NothingKept
  BY <1>3 DEF IsRun
<1>6. Unfolds(f)
  <2> HIDE DEF n
  <2>1. \A i \in 0..n : i = 0 \/ i \in 1..n
    BY <1>1
  <2>2. \A i \in 0..n : f[i] = IF i = 0 THEN NothingKept ELSE FilterStep(f[i - 1], args[i])
    BY <1>4, <1>5, <2>1
  <2> QED BY <1>3, <2>2
<1> DEFINE g == CHOOSE h : Unfolds(h)
<1>7. Unfolds(g)
  <2> HIDE DEF Unfolds
  <2> QED BY <1>6
<1>8. FilterKnownFlags(args) = g[n].kept
  BY DEF FilterKnownFlags
<1> HIDE DEF g
<1>9. g[0] = NothingKept /\ \A i \in 1..n : g[i] = FilterStep(g[i - 1], args[i])
  <2> HIDE DEF n
  <2>1. 0 \in 0..n /\ \A i \in 1..n : i \in 0..n /\ i # 0
    BY <1>1
  <2> QED BY <1>7, <2>1
<1> DEFINE P == {i \in 0..n : g[i] = f[i]}
<1>10. 0 \in P
  BY <1>1, <1>5, <1>9
<1>11. ASSUME NEW i \in 1..n, i - 1 \in P PROVE i \in P
  <2>1. g[i - 1] = f[i - 1] /\ i \in 0..n
    BY <1>1, <1>11
  <2> QED BY <1>4, <1>9, <2>1
<1>12. n \in P
  <2> HIDE DEF P, n
  <2>1. \A i \in 0..n : i \in P
    BY <1>1, <1>10, <1>11, PositionInduction
  <2> QED BY <1>1, <2>1
<1>13. FilterKnownFlags(args) = f[n].kept
  BY <1>8, <1>12
<1> QED BY <1>3, <1>4, <1>5, <1>13

-----------------------------------------------------------------------------
(* The filter and the parser together read the command line as if they     *)
(* skipped what is unknown: a bare word never stops the parser, no unknown *)
(* flag ends the process, and a flag and its value stay together.          *)
ReadStep(s, a) == IF s.awaits = "" /\ a.flag \notin Defined THEN s ELSE ParseStep(s, a)
Reads(r, args) ==
  /\ r \in [0..Len(args) -> Readings]
  /\ r[0] = NothingParsed /\ Parsed(FilterKnownFlags(args)) = r[Len(args)]
  /\ \A i \in 1..Len(args) : r[i] = ReadStep(r[i - 1], args[i])
  /\ \A i \in 0..Len(args) : ~ r[i].stopped

LEMMA ReadsAll ==
  ASSUME NEW args \in Seq(Token)
  PROVE  \E r : Reads(r, args)
<1> DEFINE n == Len(args)
<1>1. PICK f \in [0..n -> FilterStates] :
        /\ f[0] = NothingKept /\ FilterKnownFlags(args) = f[n].kept
        /\ \A i \in 1..n : f[i] = FilterStep(f[i - 1], args[i])
  BY FilterRuns
<1>2. n \in Nat /\ \A i \in 1..n : args[i] \in Token
  OBVIOUS
<1> DEFINE r == [i \in 0..n |-> Parsed(f[i].kept)]
           P == {i \in 0..n : ~ r[i].stopped /\ (f[i].value <=> r[i].awaits # "")}
<1>3. \A i \in 0..n : f[i] \in FilterStates /\ f[i].kept \in Seq(Token)
  BY DEF FilterStates
<1>4. r \in [0..n -> Readings]
  <2> HIDE DEF n
  <2>1. \A i \in 0..n : Parsed(f[i].kept) \in Readings
    <3> SUFFICES ASSUME NEW i \in 0..n PROVE Parsed(f[i].kept) \in Readings
      OBVIOUS
    <3>1. f[i].kept \in Seq(Token)
      BY <1>3
    <3>2. PICK q \in [0..Len(f[i].kept) -> Readings] : Parsed(f[i].kept) = q[Len(f[i].kept)]
      BY <3>1, ParseRuns
    <3>3. Len(f[i].kept) \in 0..Len(f[i].kept)
      BY <3>1
    <3> QED BY <3>2, <3>3
  <2> QED BY <2>1
<1>5. r[0] = NothingParsed /\ Parsed(FilterKnownFlags(args)) = r[n]
  BY <1>1, <1>2, ParsedNothing DEF NothingKept
<1>6. 0 \in P
  <2>1. 0 \in 0..n
    BY <1>2
  <2>2. ~ NothingParsed.stopped /\ NothingParsed.awaits = "" /\ ~ NothingKept.value
    BY DEF NothingParsed, NothingKept
  <2>3. r[0] = NothingParsed /\ f[0] = NothingKept
    BY <1>1, <1>5
  <2> HIDE DEF r
  <2> QED BY <2>1, <2>2, <2>3
<1>7. ASSUME NEW i \in 1..n, i - 1 \in P
      PROVE  i \in P /\ r[i] = ReadStep(r[i - 1], args[i])
  <2> DEFINE b == f[i - 1]
             s == r[i - 1]
             a == args[i]
  <2>1. i - 1 \in 0..n /\ i \in 0..n /\ a \in Token
    BY <1>2
  <2>2. b \in FilterStates /\ b.kept \in Seq(Token) /\ s = Parsed(b.kept) /\ s \in Readings
    BY <1>3, <1>4, <2>1
  <2>3. ~ s.stopped /\ (b.value <=> s.awaits # "")
    BY <1>7
  <2>4. f[i] = FilterStep(b, a) /\ r[i] = Parsed(f[i].kept)
    BY <1>1, <2>1
  <2>5. Parsed(Append(b.kept, a)) = ParseStep(s, a)
    BY <2>1, <2>2, ParsedAppend
  <2>6. (b.value \/ a.flag \in Defined => r[i] = ParseStep(s, a)) /\ (~ b.value /\ a.flag \notin Defined => r[i] = s)
    <3> HIDE DEF r
    <3> QED BY <2>2, <2>4, <2>5 DEF FilterStep
  <2>7. /\ b.value => ~ f[i].value
        /\ ~ b.value /\ a.flag \in Defined => (f[i].value <=> Bare(a))
        /\ ~ b.value /\ a.flag \notin Defined => (f[i].value <=> b.value)
    <3>1. b.value => f[i] = [kept |-> Append(b.kept, a), value |-> FALSE]
      BY <2>4 DEF FilterStep
    <3>2. ~ b.value /\ a.flag \in Defined => f[i] = [kept |-> Append(b.kept, a), value |-> Bare(a)]
      BY <2>4 DEF FilterStep
    <3>3. ~ b.value /\ a.flag \notin Defined => f[i] = b
      BY <2>4 DEF FilterStep
    <3> HIDE DEF a, b
    <3> QED BY <3>1, <3>2, <3>3
  <2> HIDE DEF b, s, a, r
  <2>8. r[i] = ReadStep(s, a)
    BY <2>3, <2>6 DEF ReadStep
  <2>9. ~ r[i].stopped /\ (f[i].value <=> r[i].awaits # "")
    <3>1. CASE b.value
      <4>1. ParseStep(s, a) = [s EXCEPT !.options = Set(@, s.awaits, a.value), !.awaits = ""]
        BY <2>3, <3>1 DEF ParseStep
      <4> QED BY <2>2, <2>3, <2>6, <2>7, <3>1, <4>1 DEF Readings
    <3>2. CASE ~ b.value /\ a.flag \in Defined
      <4>1. a.flag # ""
        BY <3>2 DEF Defined, ValueFlags
      <4>2. ParseStep(s, a) = IF Bare(a) THEN [s EXCEPT !.awaits = a.flag]
                              ELSE [s EXCEPT !.options = Set(@, a.flag, a.value)]
        BY <2>3, <3>2, <4>1 DEF ParseStep
      <4>3. Bare(a) => ParseStep(s, a).awaits # "" /\ ~ ParseStep(s, a).stopped
        BY <2>2, <2>3, <4>1, <4>2 DEF Readings
      <4>4. ~ Bare(a) => ParseStep(s, a).awaits = "" /\ ~ ParseStep(s, a).stopped
        BY <2>2, <2>3, <3>2, <4>2 DEF Readings
      <4> QED BY <2>6, <2>7, <3>2, <4>3, <4>4
    <3>3. CASE ~ b.value /\ a.flag \notin Defined
      BY <2>3, <2>6, <2>7, <3>3
    <3> QED BY <3>1, <3>2, <3>3
  <2> QED BY <2>1, <2>8, <2>9 DEF s, a
<1>8. \A i \in 0..n : i \in P
  <2> HIDE DEF P, n
  <2> QED BY <1>2, <1>6, <1>7, PositionInduction
<1>9. \A i \in 1..n : r[i] = ReadStep(r[i - 1], args[i])
  <2> SUFFICES ASSUME NEW i \in 1..n PROVE r[i] = ReadStep(r[i - 1], args[i])
    OBVIOUS
  <2>1. i - 1 \in 0..n
    BY <1>2
  <2> HIDE DEF P, r, n
  <2> QED BY <1>7, <1>8, <2>1
<1>10. \A i \in 0..n : ~ r[i].stopped
  BY <1>8
<1> HIDE DEF r
<1>11. Reads(r, args)
  BY <1>4, <1>5, <1>9, <1>10 DEF Reads
<1> QED BY <1>11

-----------------------------------------------------------------------------
(* The tokens are in the command line, after the first m.                  *)
HasAt(args, m, tokens) ==
  m + Len(tokens) <= Len(args) /\ \A j \in 1..Len(tokens) : args[m + j] = tokens[j]

(* No value is awaited. *)
Ready(s) == s.awaits = ""

(* Harmless flags are read without effect: r reads them from position m on *)
(* and has the same options after them.                                    *)
LEMMA NoiseIsSkipped ==
  ASSUME NEW args \in Seq(Token), NEW r, Reads(r, args),
         NEW tokens \in Seq(Token), Harmless(tokens),
         NEW m \in Nat, HasAt(args, m, tokens), Ready(r[m])
  PROVE  Ready(r[m + Len(tokens)]) /\ r[m + Len(tokens)].options = r[m].options
<1> DEFINE k == Len(tokens)
           Chooses == {"http", "http-addr", "unix"}
           P == {j \in 0..k : /\ r[m + j].options = r[m].options /\ r[m + j].awaits \notin Chooses
                              /\ r[m + j].awaits # "" => j > 0 /\ Bare(tokens[j])}
           N == Len(args)
<1>1. k \in Nat /\ N \in Nat /\ m + k <= N /\ DOMAIN tokens = 1..k
  BY DEF HasAt
<1>0. ~ (r[m].awaits # "") /\ r[m].awaits \notin Chooses
  BY DEF Ready
<1>2. 0 \in P
  <2>1. m + 0 = m /\ 0 \in 0..k
    <3> HIDE DEF k, N
    <3> QED BY <1>1
  <2> HIDE DEF k, Chooses
  <2> QED BY <1>0, <2>1
<1>3. ASSUME NEW j \in 1..k, j - 1 \in P PROVE j \in P
  <2> DEFINE s == r[m + (j - 1)]
             a == tokens[j]
  <2>1. /\ j - 1 \in 0..k /\ m + j \in 1..N /\ (m + j) - 1 = m + (j - 1)
        /\ m + (j - 1) \in 0..N /\ j \in 0..k /\ j > 0
    <3> HIDE DEF k, N, P
    <3> QED BY <1>1
  <2>2. s \in Readings /\ ~ s.stopped /\ a \in Token
    <3>1. r \in [0..N -> Readings] /\ \A i \in 0..N : ~ r[i].stopped
      BY DEF Reads
    <3>2. a \in Token
      OBVIOUS
    <3> HIDE DEF N, k, P
    <3> QED BY <2>1, <3>1, <3>2
  <2>3. r[m + j] = ReadStep(s, a)
    <3>1. args[m + j] = a
      BY DEF HasAt
    <3> QED BY <2>1, <3>1 DEF Reads
  <2>4. s.options = r[m].options /\ s.awaits \notin Chooses
    BY <1>3
  <2>5. a.flag \notin Chooses
    BY <1>1 DEF Harmless
  <2>6. /\ s.options \in Options /\ s.awaits \in Texts /\ a.flag \in Texts /\ a.value \in Texts
    BY <2>2 DEF Readings, Token
  <2>7. Set(s.options, s.awaits, a.value) = s.options /\ Set(s.options, a.flag, a.value) = s.options
    BY <2>4, <2>5, <2>6, SetTyped
  <2> HIDE DEF s, a
  <2>8. CASE s.awaits # ""
    <3>1. r[m + j] = [s EXCEPT !.options = s.options, !.awaits = ""]
      BY <2>2, <2>3, <2>7, <2>8 DEF ReadStep, ParseStep
    <3>2. r[m + j].options = s.options /\ r[m + j].awaits = ""
      BY <2>2, <3>1 DEF Readings
    <3> QED BY <2>1, <2>4, <3>2
  <2>9. CASE s.awaits = "" /\ a.flag \notin Defined
    <3>1. r[m + j] = s
      BY <2>3, <2>9 DEF ReadStep
    <3> QED BY <2>1, <2>4, <2>9, <3>1
  <2>10. CASE s.awaits = "" /\ a.flag \in Defined
    <3>1. a.flag # ""
      BY <2>10 DEF Defined, ValueFlags
    <3>2. r[m + j] = IF Bare(a) THEN [s EXCEPT !.awaits = a.flag] ELSE [s EXCEPT !.options = s.options]
      BY <2>2, <2>3, <2>7, <2>10, <3>1 DEF ReadStep, ParseStep
    <3>3. /\ r[m + j].options = s.options /\ r[m + j].awaits \in {"", a.flag}
          /\ r[m + j].awaits # "" => Bare(a)
      BY <2>2, <2>10, <3>2 DEF Readings
    <3>4. "" \notin Chooses
      OBVIOUS
    <3> QED BY <2>1, <2>4, <2>5, <3>3, <3>4 DEF a
  <2> QED BY <2>8, <2>9, <2>10
<1>4. k \in P
  <2> HIDE DEF P, k, N
  <2>1. \A j \in 0..k : j \in P
    BY <1>1, <1>2, <1>3, PositionInduction
  <2>2. k \in 0..k
    BY <1>1
  <2> QED BY <2>1, <2>2
<1>5. k > 0 => ~ Bare(tokens[k])
  <2>1. tokens = <<>> => k = 0
    OBVIOUS
  <2> QED BY <2>1 DEF Harmless
<1> QED BY <1>4, <1>5 DEF Ready

(* A flag with its value in the next token, and a switch.                  *)
LEMMA PairIsRead ==
  ASSUME NEW s \in Readings, ~ s.stopped, Ready(s), NEW f \in {"unix", "http-addr"}, NEW v \in Texts
  PROVE  /\ Ready(ReadStep(ReadStep(s, Flag(f)), Word(v)))
         /\ ReadStep(ReadStep(s, Flag(f)), Word(v)).options = Set(s.options, f, v)
<1> DEFINE t == [s EXCEPT !.awaits = f]
<1>1. f # "" /\ f \in Defined /\ Bare(Flag(f)) /\ Flag(f).flag = f /\ Word(v).value = v
  BY DEF Defined, ValueFlags, Bare, Flag, Word
<1>2. ReadStep(s, Flag(f)) = t
  BY <1>1 DEF Ready, ReadStep, ParseStep
<1>3. t.awaits = f /\ ~ t.stopped /\ t.options = s.options
  BY DEF Readings
<1>4. ReadStep(t, Word(v)) = [t EXCEPT !.options = Set(s.options, f, v), !.awaits = ""]
  <2> HIDE DEF t
  <2> QED BY <1>1, <1>3 DEF ReadStep, ParseStep
<1>5. /\ [t EXCEPT !.options = Set(s.options, f, v), !.awaits = ""].awaits = ""
      /\ [t EXCEPT !.options = Set(s.options, f, v), !.awaits = ""].options = Set(s.options, f, v)
  BY DEF Readings
<1> HIDE DEF t
<1> QED BY <1>2, <1>4, <1>5 DEF Ready

LEMMA SwitchIsRead ==
  ASSUME NEW s \in Readings, ~ s.stopped, Ready(s)
  PROVE  /\ Ready(ReadStep(s, Flag("http")))
         /\ ReadStep(s, Flag("http")).options = Set(s.options, "http", "")
<1> DEFINE a == Flag("http")
<1>1. a.flag = "http" /\ a.value = "" /\ "http" \in Defined /\ ~ Bare(a)
  BY DEF Defined, ValueFlags, Bare, Flag
<1> HIDE DEF a
<1>2. ReadStep(s, a) = [s EXCEPT !.options = Set(s.options, "http", "")]
  BY <1>1 DEF Ready, ReadStep, ParseStep
<1>3. /\ [s EXCEPT !.options = Set(s.options, "http", "")].options = Set(s.options, "http", "")
      /\ [s EXCEPT !.options = Set(s.options, "http", "")].awaits = s.awaits
  BY DEF Readings
<1> QED BY <1>2, <1>3 DEF Ready, a

(* What the worker serves is what it has read.                             *)
LEMMA ServedIsRead ==
  ASSUME NEW args, NEW r, Reads(r, args), Ready(r[Len(args)])
  PROVE  Served(args) = Transport(r[Len(args)].options)
<1>1. Parsed(FilterKnownFlags(args)) = r[Len(args)]
  BY DEF Reads
<1> QED BY <1>1 DEF Served, Parse, Ready

(* A command line of noise, what is asked for, and noise.                  *)
LEMMA NoisyHas ==
  ASSUME NEW a \in Seq(Token), NEW c \in Seq(Token), NEW b \in Seq(Token)
  PROVE  /\ a \o c \o b \in Seq(Token) /\ Len(a \o c \o b) = Len(a) + Len(c) + Len(b)
         /\ HasAt(a \o c \o b, 0, a) /\ HasAt(a \o c \o b, Len(a), c)
         /\ HasAt(a \o c \o b, Len(a) + Len(c), b)
<1> DEFINE ac == a \o c
           args == ac \o b
<1>1. /\ ac \in Seq(Token) /\ Len(ac) = Len(a) + Len(c) /\ Len(a) \in Nat /\ Len(c) \in Nat /\ Len(b) \in Nat
      /\ \A i \in 1..Len(a) : ac[i] = a[i]
      /\ \A i \in 1..Len(c) : ac[Len(a) + i] = c[i]
  OBVIOUS
<1> HIDE DEF ac
<1>2. /\ args \in Seq(Token) /\ Len(args) = Len(ac) + Len(b)
      /\ \A i \in 1..Len(ac) : args[i] = ac[i]
      /\ \A i \in 1..Len(b) : args[Len(ac) + i] = b[i]
  <2>1. ac \in Seq(Token) /\ b \in Seq(Token)
    BY <1>1
  <2> QED BY <2>1
<1> HIDE DEF args
<1>3. HasAt(args, 0, a)
  BY <1>1, <1>2 DEF HasAt
<1>4. HasAt(args, Len(a), c)
  BY <1>1, <1>2 DEF HasAt
<1>5. HasAt(args, Len(a) + Len(c), b)
  BY <1>1, <1>2 DEF HasAt
<1> QED BY <1>1, <1>2, <1>3, <1>4, <1>5 DEF args, ac

LEMMA NoiseTyped ==
  ASSUME NEW a \in Noise
  PROVE  a \in Seq(Token) /\ Harmless(a)
<1>1. a \in Seq([flag : STRING, value : STRING])
  BY IntegrationAssumption
<1>2. [flag : STRING, value : STRING] \subseteq Token
  BY DEF Token, Texts
<1> QED BY <1>1, <1>2, NoiseAssumption, SeqMonotonic

(* Read from the defaults, after m tokens, c sets the options o.           *)
SetsAt(m, c, o) ==
  \A args \in Seq(Token) : \A r :
    Reads(r, args) /\ HasAt(args, m, c) /\ Ready(r[m]) /\ r[m].options = Default
      => Ready(r[m + Len(c)]) /\ r[m + Len(c)].options = o

(* After noise nothing has been read, and what is read then stays.         *)
LEMMA NoisyServes ==
  ASSUME NEW a \in Noise, NEW b \in Noise, NEW c \in Seq(Token), NEW o, SetsAt(Len(a), c, o)
  PROVE  Served(a \o c \o b) = Transport(o)
<1> DEFINE args == a \o c \o b
           m == Len(a)
           k == Len(a) + Len(c)
<1>1. a \in Seq(Token) /\ Harmless(a) /\ b \in Seq(Token) /\ Harmless(b)
  BY NoiseTyped
<1>2. /\ args \in Seq(Token) /\ Len(args) = k + Len(b) /\ m \in Nat /\ k \in Nat
      /\ HasAt(args, 0, a) /\ HasAt(args, m, c) /\ HasAt(args, k, b)
  BY <1>1, NoisyHas
<1> HIDE DEF args, k
<1>3. PICK r : Reads(r, args)
  BY <1>2, ReadsAll
<1>4. Ready(r[0]) /\ r[0].options = Default
  <2>1. r[0] = NothingParsed
    BY <1>3 DEF Reads
  <2>2. NothingParsed.awaits = "" /\ NothingParsed.options = Default
    BY DEF NothingParsed
  <2> QED BY <2>1, <2>2 DEF Ready
<1>5. 0 + m = m
  BY <1>2
<1>6. Ready(r[m]) /\ r[m].options = Default
  BY <1>1, <1>2, <1>3, <1>4, <1>5, NoiseIsSkipped
<1>7. Ready(r[k]) /\ r[k].options = o
  BY <1>2, <1>3, <1>6 DEF k, SetsAt
<1>8. Ready(r[Len(args)]) /\ r[Len(args)].options = o
  BY <1>1, <1>2, <1>3, <1>7, NoiseIsSkipped
<1> QED BY <1>3, <1>8, ServedIsRead DEF args

-----------------------------------------------------------------------------
(* Every command line comes to what it asks for.                           *)
LEMMA FlagsTyped ==
  ASSUME NEW f \in Texts, NEW v \in Texts
  PROVE  Flag(f) \in Token /\ Word(v) \in Token
BY DEF Flag, Word, Token, Texts

LEMMA ImageServes ==
  ASSUME NEW a \in Noise, NEW b \in Noise
  PROVE  Served(a \o <<Flag("http"), Flag("http-addr"), Word("0.0.0.0:8000")>> \o b) = Asked.image
<1> DEFINE c == <<Flag("http"), Flag("http-addr"), Word("0.0.0.0:8000")>>
           o == [http |-> TRUE, addr |-> "0.0.0.0:8000", unix |-> "", usage |-> FALSE]
<1>1. c \in Seq(Token) /\ Len(c) = 3
  <2>1. {"http", "http-addr", "0.0.0.0:8000"} \subseteq Texts
    BY DEF Texts
  <2>2. Flag("http") \in Token /\ Flag("http-addr") \in Token /\ Word("0.0.0.0:8000") \in Token
    BY <2>1, FlagsTyped
  <2> QED BY <2>2
<1>3. Set(Set(Default, "http", ""), "http-addr", "0.0.0.0:8000") = o
  BY DEF Set, Default
<1>4. ASSUME NEW args \in Seq(Token), NEW r, Reads(r, args), HasAt(args, Len(a), c),
             Ready(r[Len(a)]), r[Len(a)].options = Default
      PROVE  Ready(r[Len(a) + Len(c)]) /\ r[Len(a) + Len(c)].options = o
  <2> DEFINE m == Len(a)
  <2>1. m \in Nat
    BY NoiseTyped
  <2> HIDE DEF m
  <2>2. /\ m + 3 <= Len(args) /\ Len(args) \in Nat
        /\ args[m + 1] = Flag("http") /\ args[m + 2] = Flag("http-addr") /\ args[m + 3] = Word("0.0.0.0:8000")
    <3>1. m + Len(c) <= Len(args) /\ \A j \in 1..Len(c) : args[m + j] = c[j]
      BY <1>4 DEF HasAt, m
    <3>2. c[1] = Flag("http") /\ c[2] = Flag("http-addr") /\ c[3] = Word("0.0.0.0:8000")
      OBVIOUS
    <3> HIDE DEF c
    <3> QED BY <1>1, <3>1, <3>2
  <2>3. /\ r[m + 1] = ReadStep(r[m], Flag("http"))
        /\ r[m + 3] = ReadStep(ReadStep(r[m + 1], Flag("http-addr")), Word("0.0.0.0:8000"))
    <3>1. /\ {m + 1, m + 2, m + 3} \subseteq 1..Len(args)
          /\ (m + 1) - 1 = m /\ (m + 2) - 1 = m + 1 /\ (m + 3) - 1 = m + 2
      BY <2>1, <2>2
    <3>2. \A i \in 1..Len(args) : r[i] = ReadStep(r[i - 1], args[i])
      BY <1>4 DEF Reads
    <3> QED BY <2>2, <3>1, <3>2
  <2>4. r[m] \in Readings /\ ~ r[m].stopped /\ r[m + 1] \in Readings /\ ~ r[m + 1].stopped
    <3>1. m \in 0..Len(args) /\ m + 1 \in 0..Len(args)
      BY <2>1, <2>2
    <3> QED BY <1>4, <3>1 DEF Reads
  <2>5. Ready(r[m + 1]) /\ r[m + 1].options = Set(Default, "http", "")
    BY <1>4, <2>3, <2>4, SwitchIsRead DEF m
  <2>6. Ready(r[m + 3]) /\ r[m + 3].options = Set(Set(Default, "http", ""), "http-addr", "0.0.0.0:8000")
    <3>1. "0.0.0.0:8000" \in Texts
      BY DEF Texts
    <3> QED BY <2>3, <2>4, <2>5, <3>1, PairIsRead
  <2> HIDE DEF c, o
  <2> QED BY <1>1, <1>3, <2>6 DEF m
<1>5. Transport(o) = Asked.image
  BY DEF Transport, Asked
<1> HIDE DEF c, o
<1>6. Served(a \o c \o b) = Transport(o)
  <2>1. SetsAt(Len(a), c, o)
    BY <1>4 DEF SetsAt
  <2> QED BY <1>1, <2>1, NoisyServes
<1> QED BY <1>5, <1>6 DEF c

LEMMA SubprocessServes ==
  ASSUME NEW a \in Noise, NEW b \in Noise
  PROVE  Served(a \o <<>> \o b) = Asked.subprocess
<1> DEFINE c == <<>>
<1>1. c \in Seq(Token) /\ Len(c) = 0 /\ Len(a) \in Nat
  BY NoiseTyped
<1> HIDE DEF c
<1>2. Len(a) + Len(c) = Len(a)
  BY <1>1
<1>3. Served(a \o c \o b) = Transport(Default)
  <2>1. SetsAt(Len(a), c, Default)
    BY <1>1, <1>2 DEF SetsAt
  <2> QED BY <1>1, <2>1, NoisyServes
<1>4. Transport(Default) = Asked.subprocess
  BY DEF Transport, Default, Asked
<1> QED BY <1>3, <1>4 DEF c

(* The script adds no noise.                                               *)
LEMMA ScriptServes ==
  /\ Served(<<Flag("http")>>) = Asked.http
  /\ Served(<<Flag("unix"), Word("es.sock")>>) = Asked.unix
<1>1. {"http", "unix", "es.sock"} \subseteq Texts
  BY DEF Texts
<1>2. Flag("http") \in Token /\ Flag("unix") \in Token /\ Word("es.sock") \in Token
  BY <1>1, FlagsTyped
<1>3. Served(<<Flag("http")>>) = Asked.http
  <2> DEFINE args == <<Flag("http")>>
  <2>1. args \in Seq(Token) /\ Len(args) = 1 /\ args[1] = Flag("http")
    BY <1>2
  <2> HIDE DEF args
  <2>2. PICK r : Reads(r, args)
    BY <2>1, ReadsAll
  <2>3. r[0] = NothingParsed /\ r[1] = ReadStep(r[0], Flag("http"))
    BY <2>1, <2>2 DEF Reads
  <2>4. NothingParsed \in Readings /\ ~ NothingParsed.stopped /\ Ready(NothingParsed)
        /\ NothingParsed.options = Default
    BY NothingTyped DEF NothingParsed, Ready
  <2>5. Ready(r[1]) /\ r[1].options = Set(Default, "http", "")
    BY <2>3, <2>4, SwitchIsRead
  <2>6. Transport(Set(Default, "http", "")) = Asked.http
    BY DEF Transport, Set, Default, Asked
  <2> QED BY <2>1, <2>2, <2>5, <2>6, ServedIsRead DEF args
<1>4. Served(<<Flag("unix"), Word("es.sock")>>) = Asked.unix
  <2> DEFINE args == <<Flag("unix"), Word("es.sock")>>
  <2>1. args \in Seq(Token) /\ Len(args) = 2 /\ args[1] = Flag("unix") /\ args[2] = Word("es.sock")
    BY <1>2
  <2> HIDE DEF args
  <2>2. PICK r : Reads(r, args)
    BY <2>1, ReadsAll
  <2>3. r[0] = NothingParsed /\ r[2] = ReadStep(ReadStep(r[0], Flag("unix")), Word("es.sock"))
    BY <2>1, <2>2 DEF Reads
  <2>4. NothingParsed \in Readings /\ ~ NothingParsed.stopped /\ Ready(NothingParsed)
        /\ NothingParsed.options = Default
    BY NothingTyped DEF NothingParsed, Ready
  <2>5. Ready(r[2]) /\ r[2].options = Set(Default, "unix", "es.sock")
    BY <1>1, <2>3, <2>4, PairIsRead
  <2>6. Transport(Set(Default, "unix", "es.sock")) = Asked.unix
    BY DEF Transport, Set, Default, Asked
  <2> QED BY <2>1, <2>2, <2>5, <2>6, ServedIsRead DEF args
<1> QED BY <1>3, <1>4

(* Whatever harmless flags the extension or the caller of the image adds,  *)
(* every command line is filtered, parsed and read as the transport and    *)
(* the address that were asked for (filterKnownFlags, main).               *)
THEOREM CommandLinesServe == \A l \in DOMAIN Transports : Transports[l] \subseteq {Asked[l]}
<1>0. ASSUME NEW core, NEW t \in Serving(Noisy(core))
      PROVE  \E a, b \in Noise : t = Served(a \o core \o b)
  <2>1. PICK args \in Noisy(core) : t = Served(args)
    BY <1>0 DEF Serving
  <2>2. PICK a \in Noise : \E b \in Noise : args = a \o core \o b
    <3> DEFINE line(a, b) == a \o core \o b
    <3>1. Noisy(core) = {line(a, b) : a \in Noise, b \in Noise}
      BY DEF Noisy
    <3> HIDE DEF line
    <3>2. \E a \in Noise : \E b \in Noise : args = line(a, b)
      BY <2>1, <3>1
    <3> QED BY <3>2 DEF line
  <2> QED BY <2>1, <2>2
<1>1. Transports.image \subseteq {Asked.image}
  <2> SUFFICES ASSUME NEW t \in Serving(Noisy(EntryPoint)) PROVE t = Asked.image
    BY DEF Transports
  <2>1. PICK a \in Noise :
          \E b \in Noise : t = Served(a \o EntryPoint \o b)
    BY <1>0
  <2> QED BY <2>1, ImageServes DEF EntryPoint
<1>2. Transports.http \subseteq {Asked.http} /\ Transports.unix \subseteq {Asked.unix}
  BY ScriptServes DEF Transports, Serving
<1>3. Transports.subprocess \subseteq {Asked.subprocess}
  <2> SUFFICES ASSUME NEW t \in Serving(Noisy(<<>>)) PROVE t = Asked.subprocess
    BY DEF Transports
  <2>1. PICK a \in Noise : \E b \in Noise : t = Served(a \o <<>> \o b)
    BY <1>0
  <2> QED BY <2>1, SubprocessServes
<1>4. DOMAIN Transports = {"image", "http", "unix", "subprocess"}
  BY DEF Transports
<1> QED BY <1>1, <1>2, <1>3, <1>4

(* Every worker serves the transport that was asked for, from its start to *)
(* its end.                                                                *)
THEOREM WorkersServeAsAsked == Spec => []LaunchedAsAsked
<1>1. ASSUME env \in Environments, NEW t \in Transports[Launcher] PROVE t = Asked[Launcher]
  <2>1. Launcher \in DOMAIN Transports
    BY <1>1 DEF Launcher, Environments, Transports
  <2> QED BY <1>1, <2>1, CommandLinesServe
<1>2. Init => LaunchedAsAsked
  <2> SUFFICES ASSUME Init PROVE worker.serves \in {<<"nothing">>, Asked[Launcher]}
    BY DEF LaunchedAsAsked
  <2>1. CASE env.prelaunched
    <3>1. PICK t \in Transports[Launcher] : worker = [Process(t) EXCEPT !.announced = TRUE]
      BY <2>1 DEF Init
    <3> QED BY <1>1, <3>1, ProcessTyped DEF Init
  <2>2. CASE ~ env.prelaunched
    BY <2>2, NoWorkerTyped DEF Init
  <2> QED BY <2>1, <2>2
<1>3. ASSUME Coherent, LaunchedAsAsked, [Next]_vars PROVE LaunchedAsAsked'
  <2>1. env' = env /\ env \in Environments /\ worker \in Workers
    <3>1. env \in Environments /\ worker \in Workers
      BY <1>3 DEF Coherent, TypeOK
    <3>2. env' = env
      BY <1>3 DEF Next, Script, Start, WaitForCluster, Seeded, Launch, RecordPid, WaitForWorker, RunTest, Judge,
                  Cleanup, Reap, Cluster, Untouched, Cancel, Abort, Hang, Boot, Listen, Announce, Die, vars
    <3> QED BY <3>1, <3>2
  <2>2. Launcher' = Launcher
    BY <2>1 DEF Launcher
  <2>3. \/ worker' = worker
        \/ \E t \in Transports[Launcher] : worker' = Process(t) \/ worker' = [NoWorker EXCEPT !.serves = t]
        \/ worker' = [worker EXCEPT !.killed = worker.killed \/ (pid /\ worker.alive)]
        \/ worker' = [worker EXCEPT !.announced = TRUE]
        \/ worker' = [worker EXCEPT !.alive = FALSE]
    BY <1>3 DEF Next, Script, Start, WaitForCluster, Seeded, Launch, RecordPid, WaitForWorker, RunTest, Judge,
                Cleanup, Reap, Cluster, Untouched, Cancel, Abort, Hang, Boot, Listen, Announce, Die, vars
  <2>4. (worker.killed \/ (pid /\ worker.alive)) \in BOOLEAN
    OBVIOUS
  <2>5. worker'.serves = worker.serves \/ worker'.serves = Asked[Launcher]
    <3>1. CASE \E t \in Transports[Launcher] : worker' = Process(t) \/ worker' = [NoWorker EXCEPT !.serves = t]
      <4>1. PICK t \in Transports[Launcher] : worker' = Process(t) \/ worker' = [NoWorker EXCEPT !.serves = t]
        BY <3>1
      <4>2. worker'.serves = t
        BY <2>1, <4>1, ProcessTyped
      <4> QED BY <1>1, <2>1, <4>2
    <3>2. CASE worker' = [worker EXCEPT !.killed = worker.killed \/ (pid /\ worker.alive)]
      BY <2>1, <2>4, <3>2, ProcessChanges
    <3>3. CASE worker' = [worker EXCEPT !.announced = TRUE]
      BY <2>1, <3>3, ProcessChanges
    <3>4. CASE worker' = [worker EXCEPT !.alive = FALSE]
      BY <2>1, <3>4, ProcessChanges
    <3> QED BY <2>3, <3>1, <3>2, <3>3, <3>4
  <2> QED BY <1>3, <2>2, <2>5 DEF LaunchedAsAsked
<1> QED BY <1>2, <1>3, ScriptsCoherent, PTL DEF Spec

-----------------------------------------------------------------------------
(* What no step takes back: the environment and the reasons for red.       *)
LEMMA ReasonsStay ==
  ASSUME Coherent, [Next]_vars
  PROVE  /\ env' = env /\ Wanted' = Wanted /\ faults \in Nat /\ faults' \in Nat /\ faults <= faults'
         /\ Reasons => Reasons'
<1>1. faults \in Nat /\ ScriptOnCourse
  <2>1. faults \in 0..MaxFaults /\ ScriptOnCourse
    BY DEF Coherent, TypeOK, SeedTypeOK
  <2> QED BY <2>1, SeedAssumption
<1>2. env' = env
  BY DEF Next, Script, Start, WaitForCluster, Seeded, Launch, RecordPid, WaitForWorker, RunTest, Judge,
         Cleanup, Reap, Cluster, Untouched, Cancel, Abort, Hang, Boot, Listen, Announce, Die, vars
<1>3. faults' = faults \/ faults' = faults + 1
  BY DEF Next, Script, Start, WaitForCluster, Seeded, Launch, RecordPid, WaitForWorker, RunTest, Judge,
         Cleanup, Reap, Cluster, SeederSteps, Answered, Unanswered, Arrives, Cancel, Abort, Hang, Boot,
         Listen, Announce, Die, vars, seedVars
<1>4. refused' = refused \/ \E items : refused' = refused \cup items
  BY DEF Next, Script, Start, WaitForCluster, Seeded, Launch, RecordPid, WaitForWorker, RunTest, Judge,
         Cleanup, Reap, Cluster, SeederSteps, Answered, Unanswered, Arrives, Cancel, Abort, Hang, Boot,
         Listen, Announce, Die, vars, seedVars
<1>5. tries' = tries \/ script \in {"waiting", "polling"}
  BY DEF Next, Script, Start, WaitForCluster, Seeded, Launch, RecordPid, WaitForWorker, RunTest, Judge,
         Cleanup, Reap, Cluster, Untouched, Cancel, Abort, Hang, Boot, Listen, Announce, Die, vars
<1>6. tries = MaxTries => tries' = MaxTries
  <2>1. script \in {"waiting", "polling"} => tries < MaxTries
    BY <1>1 DEF ScriptOnCourse
  <2>2. tries \in 0..MaxTries /\ MaxTries \in Nat
    BY IntegrationAssumption DEF Coherent, TypeOK
  <2> QED BY <1>5, <2>1, <2>2
<1>7. refused # {} => refused' # {}
  BY <1>4
<1>8. Wanted' = Wanted
  BY <1>2 DEF Wanted
<1>9. faults' \in Nat /\ faults <= faults'
  BY <1>1, <1>3
<1>10. faults > 0 => faults' > 0
  BY <1>1, <1>9
<1> QED BY <1>1, <1>2, <1>6, <1>7, <1>8, <1>9, <1>10 DEF Reasons

(* A step without a fault, from a state without one.                       *)
LEMMA NoFaultBefore ==
  ASSUME Coherent, Unharmed, [Next]_vars, faults' = 0
  PROVE  faults = 0 /\ SeederUnharmed /\ WorkerUnharmed
BY ReasonsStay DEF Unharmed

(* Without faults each request of the seeder finds the index that the one  *)
(* before it left, and succeeds.                                           *)
LEMMA SeederStaysUnharmed ==
  ASSUME Coherent, SeederUnharmed, faults \in Nat, faults' = 0, faults = 0, SeederSteps \/ Arrives
  PROVE  SeederUnharmed'
<1>1. late = {} /\ ~ wiped /\ SeederOnCourse
  BY DEF SeederUnharmed, Coherent
<1>2. Answered
  BY <1>1 DEF SeederSteps, Unanswered, Arrives
<1>3. PICK outcome \in Outcomes(seeder) :
        /\ index' = outcome.index
        /\ Proceed(seeder, Fails(seeder, outcome.status))
  BY <1>2 DEF Answered
<1>4. seeder \in Requests /\ late' = {} /\ ~ wiped'
  BY <1>1, <1>2 DEF Answered
<1>5. CASE seeder = "delete"
  <2>1. seeder' = "create" /\ index' = NoIndex
    BY <1>3, <1>5, DeleteOutcome, Following4 DEF Proceed
  <2> QED BY <1>4, <2>1 DEF SeederUnharmed
<1>6. CASE seeder = "create"
  <2>1. index = NoIndex
    BY <1>6 DEF SeederUnharmed
  <2>2. outcome.status = 200
    BY <1>6, <2>1 DEF Outcomes, Outcome
  <2>3. seeder' = "bulk"
    BY <1>3, <1>6, <2>2, Following4 DEF Proceed, Fails
  <2> QED BY <1>4, <2>3 DEF SeederUnharmed
<1>7. CASE seeder = "bulk"
  <2>1. outcome.status = 200
    <3> DEFINE after(items) == Index(IF index = NoIndex THEN "dynamic" ELSE index.mapping,
                                     index.docs \cup (Docs \ items), index.visible)
    <3>1. Outcomes("bulk") = {Outcome(200, after(items), items) : items \in SUBSET Docs}
      BY Zenon DEF Outcomes
    <3> HIDE DEF after
    <3>2. PICK items \in SUBSET Docs : outcome = Outcome(200, after(items), items)
      BY <1>7, <3>1
    <3> QED BY <3>2 DEF Outcome
  <2>2. seeder' = "refresh"
    BY <1>3, <1>7, <2>1, Following4 DEF Proceed, Fails
  <2> QED BY <1>4, <2>2 DEF SeederUnharmed
<1>8. CASE seeder = "refresh"
  <2>1. index.mapping = "seed" /\ NoIndex.mapping = "none"
    BY <1>1, <1>8, IndexFields DEF SeederOnCourse, NoIndex
  <2>2. outcome.status = 200
    BY <1>8, <2>1 DEF Outcomes, Outcome
  <2>3. seeder' = "done"
    BY <1>3, <1>8, <2>2, Following4 DEF Proceed, Fails
  <2> QED BY <1>4, <2>3 DEF SeederUnharmed
<1> QED BY <1>4, <1>5, <1>6, <1>7, <1>8, Following4

LEMMA SeederSafe ==
  ASSUME Coherent, Unharmed, [Next]_vars, faults' = 0
  PROVE  SeederUnharmed'
<1>1. faults = 0 /\ SeederUnharmed
  BY NoFaultBefore
<1>2. CASE SeederSteps \/ Arrives
  BY <1>1, <1>2, SeederStaysUnharmed
<1>3. CASE UNCHANGED <<late, wiped, index>> /\ (seeder' = seeder \/ seeder' = "delete")
  BY <1>1, <1>3 DEF SeederUnharmed, NoIndex, Index
<1>4. (SeederSteps \/ Arrives)
      \/ (UNCHANGED <<late, wiped, index>> /\ (seeder' = seeder \/ seeder' = "delete"))
  BY DEF Next, Script, Start, WaitForCluster, Seeded, Launch, RecordPid, WaitForWorker, RunTest, Judge,
         Cleanup, Reap, Cluster, Cancel, Abort, Hang, Boot, Listen, Announce, Die, vars, seedVars
<1> QED BY <1>2, <1>3, <1>4

(* A worker that does what it was asked dies only of a kill or a fault.    *)
LEMMA UsageNotServed ==
  ASSUME env \in Environments, LaunchedAsAsked
  PROVE  worker.serves # <<"usage">>
<1>1. Launcher \in {"image", "http", "unix", "subprocess"}
  BY DEF Launcher, Environments
<1>2. Asked[Launcher] # <<"usage">>
  BY <1>1 DEF Asked
<1>3. <<"nothing">> # <<"usage">>
  OBVIOUS
<1> QED BY <1>2, <1>3 DEF LaunchedAsAsked

(* An unharmed worker stays so when nothing happens to it.                 *)
LEMMA WorkerLeftAlone ==
  ASSUME WorkerUnharmed, UNCHANGED <<env, worker, socket>>,
         script' \in {"started", "polling"} => worker.alive,
         script' = "running" => Reachable
  PROVE  WorkerUnharmed'
BY DEF WorkerUnharmed, Reachable

LEMMA WorkerSafe ==
  ASSUME Coherent, LaunchedAsAsked, Unharmed, KillsItsOwn, [Next]_vars, faults' = 0
  PROVE  WorkerUnharmed'
<1>1. /\ faults = 0 /\ WorkerUnharmed /\ env' = env /\ env \in Environments /\ worker \in Workers
  BY NoFaultBefore, ReasonsStay DEF Coherent, TypeOK
<1>2. env.prelaunched => env.transport = "http"
  BY <1>1 DEF Environments
<1>3. CASE Start \/ WaitForCluster \/ Seeded \/ Judge \/ Cancel \/ Abort \/ Hang \/ Cluster \/ Boot \/ UNCHANGED vars
  <2>1. UNCHANGED <<worker, socket>>
    BY <1>3 DEF Start, WaitForCluster, Seeded, Judge, Cancel, Abort, Hang, Cluster, Untouched, Boot, vars
  <2>2. script' = script \/ script' \notin {"started", "polling", "running"}
    BY <1>3 DEF Start, WaitForCluster, Look, Seeded, Judge, Leave, Cancel, Abort, Hang, Cluster, Untouched, Boot, vars
  <2>3. /\ script' \in {"started", "polling"} => worker.alive
        /\ script' = "running" => Reachable
    BY <1>1, <2>2 DEF WorkerUnharmed
  <2> QED BY <1>1, <2>1, <2>3, WorkerLeftAlone
<1>4. CASE Launch
  <2>1. CASE env.transport = "subprocess" \/ env.prelaunched
    <3>1. script' = "running" /\ UNCHANGED <<worker, socket>>
      BY <1>4, <2>1 DEF Launch
    <3>2. Reachable
      BY <1>1, <1>2, <2>1 DEF Reachable, WorkerUnharmed
    <3> QED BY <1>1, <3>1, <3>2, WorkerLeftAlone
  <2>2. CASE ~ (env.transport = "subprocess" \/ env.prelaunched)
    <3>1. script' = "started" /\ \E t \in Transports[Launcher] : worker' = Process(t)
      BY <1>4, <2>2 DEF Launch
    <3>2. worker'.alive
      BY <1>1, <3>1, ProcessTyped
    <3> QED BY <1>1, <2>2, <3>1, <3>2 DEF WorkerUnharmed
  <2> QED BY <2>1, <2>2
<1>5. CASE RecordPid
  <2>1. script = "started" /\ script' = "polling" /\ UNCHANGED <<worker, socket>>
    BY <1>5 DEF RecordPid
  <2> QED BY <1>1, <2>1, WorkerLeftAlone DEF WorkerUnharmed
<1>6. CASE WaitForWorker
  <2> DEFINE ready == worker.announced /\ (env.transport = "unix" => socket)
  <2>1. /\ script = "polling" /\ UNCHANGED <<worker, socket>>
        /\ IF ready \/ worker.alive THEN Look(ready, "running") ELSE Leave(1) /\ UNCHANGED tries
    BY <1>6 DEF WaitForWorker
  <2>2. worker.alive
    BY <1>1, <2>1 DEF WorkerUnharmed
  <2>3. Look(ready, "running")
    BY <2>1, <2>2
  <2>4. script' = "running" => ready
    BY <2>1, <2>3 DEF Look, Leave
  <2>5. script' = "running" => Reachable
    BY <2>2, <2>4 DEF Reachable
  <2> QED BY <1>1, <2>1, <2>2, <2>5, WorkerLeftAlone
<1>7. ASSUME NEW t \in Tests, RunTest(t) PROVE WorkerUnharmed'
  <2>1. /\ script = "running" /\ script' = script /\ socket' = socket
        /\ env.transport # "subprocess" => worker' = worker
    BY <1>7 DEF RunTest
  <2>2. CASE env.transport = "subprocess"
    BY <1>1, <1>2, <2>1, <2>2 DEF WorkerUnharmed, Reachable
  <2>3. CASE env.transport # "subprocess"
    BY <1>1, <2>1, <2>3, WorkerLeftAlone DEF WorkerUnharmed
  <2> QED BY <2>2, <2>3
<1>8. CASE Cleanup \/ Reap
  <2>1. script' \in {"reaping", "exited"}
    BY <1>8 DEF Cleanup, Reap
  <2>2. worker'.alive = worker.alive /\ worker'.announced = worker.announced
    BY <1>1, <1>8 DEF Cleanup, Reap, Workers
  <2> QED BY <1>1, <2>1, <2>2 DEF WorkerUnharmed
<1>9. CASE Listen \/ Announce
  <2>1. /\ script' = script /\ worker'.alive = worker.alive
        /\ worker.announced => worker'.announced /\ (socket => socket')
    BY <1>1, <1>9 DEF Listen, Announce, Workers
  <2> QED BY <1>1, <1>9, <2>1 DEF WorkerUnharmed, Reachable, Listen, Announce
<1>10. CASE Die
  <2>1. worker.killed
    BY <1>1, <1>10, UsageNotServed DEF Die
  <2>2. script' = script /\ script \in {"reaping", "exited", "aborted"} /\ ~ env.prelaunched
    BY <1>10, <2>1 DEF Die, KillsItsOwn
  <2> QED BY <1>1, <2>2 DEF WorkerUnharmed
<1> QED BY <1>3, <1>4, <1>5, <1>6, <1>7, <1>8, <1>9, <1>10 DEF Next, Script

(* The script kills the worker that it has recorded, and only in cleanup.  *)
LEMMA KillsOwnOnly ==
  ASSUME Coherent, KillsItsOwn, [Next]_vars
  PROVE  KillsItsOwn'
<1>1. env' = env /\ env \in Environments /\ worker \in Workers
  BY ReasonsStay DEF Coherent, TypeOK
<1>2. CASE Launch
  <2>1. /\ pid' = pid /\ script = "launching" /\ ~ worker.killed
        /\ \/ worker' = worker /\ script' = "running"
           \/ /\ env.transport # "subprocess" /\ ~ env.prelaunched /\ script' = "started"
              /\ \E t \in Transports[Launcher] : worker' = Process(t)
    BY <1>2 DEF Launch, KillsItsOwn
  <2>2. ~ worker'.killed
    BY <1>1, <2>1, ProcessTyped
  <2> QED BY <1>1, <2>1, <2>2 DEF KillsItsOwn
<1>3. CASE RecordPid
  BY <1>1, <1>3 DEF RecordPid, KillsItsOwn
<1>4. CASE Cleanup
  <2>1. /\ script = "leaving" /\ script' = "reaping" /\ pid' = pid
        /\ worker' = [worker EXCEPT !.killed = worker.killed \/ (pid /\ worker.alive)]
    BY <1>4 DEF Cleanup
  <2>2. worker'.killed => pid
    BY <1>1, <2>1 DEF Workers, KillsItsOwn
  <2> QED BY <1>1, <2>1, <2>2 DEF KillsItsOwn
<1>5. ASSUME NEW t \in Tests, RunTest(t) PROVE KillsItsOwn'
  <2>1. /\ script = "running" /\ script' = script /\ pid' = pid /\ ~ worker.killed
        /\ worker' = worker \/ \E u \in Transports[Launcher] : worker' = [NoWorker EXCEPT !.serves = u]
    BY <1>5 DEF RunTest, KillsItsOwn
  <2>2. ~ worker'.killed
    BY <1>1, <2>1 DEF NoWorker
  <2> QED BY <1>1, <2>1, <2>2 DEF KillsItsOwn
<1>6. CASE Listen \/ Announce \/ Die
  <2>1. script' = script /\ pid' = pid /\ worker'.killed = worker.killed
    BY <1>1, <1>6 DEF Listen, Announce, Die, Workers
  <2> QED BY <1>1, <2>1 DEF KillsItsOwn
<1>7. CASE Reap \/ Abort
  BY <1>1, <1>7 DEF Reap, Abort, KillsItsOwn
<1>8. CASE Start \/ WaitForCluster \/ Seeded \/ WaitForWorker \/ Judge \/ Cancel \/ Hang \/ Cluster \/ Boot
           \/ UNCHANGED vars
  <2>1. pid' = pid /\ worker' = worker
    BY <1>8 DEF Start, WaitForCluster, Seeded, WaitForWorker, Judge, Cancel, Hang, Cluster, Untouched, Boot, vars
  <2>2. \/ script' = script
        \/ script' \notin {"started", "polling"} /\ script \notin {"reaping", "exited", "aborted"}
    BY <1>8 DEF Start, WaitForCluster, Look, Seeded, WaitForWorker, Judge, Leave, Cancel, Hang, Cluster, Untouched,
                Boot, vars
  <2> QED BY <1>1, <2>1, <2>2 DEF KillsItsOwn
<1> QED BY <1>2, <1>3, <1>4, <1>5, <1>6, <1>7, <1>8 DEF Next, Script

(* Without a reason for it no test fails or is skipped.                    *)
LEMMA AnswersPass ==
  ASSUME Coherent, SeederUnharmed, WorkerUnharmed, script = "running", NEW t \in Wanted,
         env.build = "good", refused = {}
  PROVE  Answers(t) = "passed"
<1>1. Reachable
  BY DEF WorkerUnharmed
<1>2. CASE t = "offline"
  BY <1>1, <1>2 DEF Answers
<1>3. CASE t = "es_search"
  <2>1. seeder = "done"
    BY <1>3 DEF Wanted, Coherent, ScriptOnCourse
  <2>2. index = Index("seed", Docs \ refused, Docs \ refused)
    BY <2>1 DEF Coherent, SeederOnCourse, SeederUnharmed
  <2>3. Docs \ refused = Docs
    OBVIOUS
  <2>4. index = Full /\ index # NoIndex
    BY <2>2, <2>3, IndexFields DEF Full, NoIndex
  <2> QED BY <1>1, <1>3, <2>4 DEF Answers
<1> QED BY <1>2, <1>3 DEF Wanted, Tests

LEMMA StaysReasoned ==
  ASSUME Coherent, Unharmed, Reasoned, [Next]_vars
  PROVE  Reasoned'
<1> SUFFICES ASSUME ~ Reasons' PROVE Reasoned'
  BY DEF Reasoned
<1>1. /\ faults = 0 /\ faults' = 0 /\ env.build = "good" /\ refused = {} /\ tries' # MaxTries
      /\ env' = env /\ Wanted' = Wanted /\ ~ Reasons
  <2>1. faults' = 0
    BY ReasonsStay DEF Reasons
  <2> QED BY <2>1, ReasonsStay DEF Reasons
<1>2. /\ \A t \in Wanted : results[t] \in {"not run", "passed"}
      /\ script \in {"leaving", "reaping", "exited", "aborted"} => status = 0
      /\ SeederUnharmed /\ WorkerUnharmed
  BY <1>1 DEF Reasoned, Unharmed
<1>3. CASE UNCHANGED <<status, results>> /\ (script' = script \/ script \in {"leaving", "reaping"}
                                           \/ script' \notin {"leaving", "reaping", "exited", "aborted"})
  BY <1>1, <1>2, <1>3 DEF Reasoned
<1>4. CASE WaitForCluster
  <2>1. Look(up, "seeding") /\ UNCHANGED results
    BY <1>4 DEF WaitForCluster
  <2>2. status' = status /\ (script' = script \/ script' = "seeding")
    BY <1>1, <2>1 DEF Look, Coherent, TypeOK
  <2> QED BY <1>3, <2>1, <2>2
<1>5. CASE Seeded
  <2>1. seeder = "done"
    BY <1>2, <1>5 DEF Seeded, SeederUnharmed
  <2> QED BY <1>3, <1>5, <2>1 DEF Seeded
<1>6. CASE WaitForWorker
  <2> DEFINE ready == worker.announced /\ (env.transport = "unix" => socket)
  <2>1. Look(ready, "running") /\ UNCHANGED results
    BY <1>2, <1>6 DEF WaitForWorker, WorkerUnharmed
  <2>2. status' = status /\ (script' = script \/ script' = "running")
    BY <1>1, <2>1 DEF Look, Coherent, TypeOK
  <2> QED BY <1>3, <2>1, <2>2
<1>7. ASSUME NEW t \in Tests, RunTest(t) PROVE Reasoned'
  <2>1. /\ script = "running" /\ script' = script /\ status' = status /\ t \in Wanted
        /\ results' = [results EXCEPT ![t] = Answers(t)] \/ faults' = faults + 1
    BY <1>7 DEF RunTest
  <2>2. results' = [results EXCEPT ![t] = Answers(t)]
    BY <1>1, <2>1
  <2>3. Answers(t) = "passed"
    BY <1>1, <1>2, <2>1, AnswersPass
  <2>4. \A u \in Wanted : results'[u] \in {"not run", "passed"}
    BY <1>2, <2>1, <2>2, <2>3 DEF Coherent, TypeOK, Wanted, Tests
  <2> QED BY <1>1, <2>1, <2>4 DEF Reasoned
<1>8. CASE Judge
  <2>1. /\ UNCHANGED results /\ status' = IF Green THEN 0 ELSE 1
        /\ \A t \in Wanted : results[t] # "not run"
    BY <1>8 DEF Judge, Leave
  <2>2. \A t \in Wanted : results[t] = "passed"
    BY <1>2, <2>1
  <2>3. "offline" \in Wanted
    BY DEF Wanted, Tests
  <2>4. Green
    BY <2>2, <2>3 DEF Green
  <2> QED BY <1>1, <1>2, <2>1, <2>4 DEF Reasoned
<1>9. ~ Cancel /\ ~ Abort
  BY <1>1 DEF Cancel, Abort
<1> QED BY <1>3, <1>4, <1>5, <1>6, <1>7, <1>8, <1>9 DEF Next, Script, Start, Launch, RecordPid, Cleanup, Reap,
      Cluster, Untouched, Hang, Boot, Listen, Announce, Die, vars

LEMMA InitUnharmed == Init => Unharmed /\ KillsItsOwn /\ Reasoned
<1> SUFFICES ASSUME Init PROVE Unharmed /\ KillsItsOwn /\ Reasoned
  OBVIOUS
<1>1. /\ script = "start" /\ pid = FALSE /\ env \in Environments
      /\ seeder = "idle" /\ late = {} /\ wiped = FALSE
      /\ results = [t \in Tests |-> "not run"]
  BY DEF Init, SeedInit
<1>2. /\ env.prelaunched => worker.alive /\ worker.announced
      /\ ~ worker.killed
  <2>1. CASE env.prelaunched
    <3>1. PICK t \in Transports[Launcher] : worker = [Process(t) EXCEPT !.announced = TRUE]
      BY <2>1 DEF Init
    <3>2. Process(t) \in Workers /\ Process(t).alive /\ ~ Process(t).killed
      BY <1>1, ProcessTyped
    <3> QED BY <3>1, <3>2 DEF Workers
  <2>2. CASE ~ env.prelaunched
    <3>1. worker = NoWorker
      BY <2>2 DEF Init
    <3>2. NoWorker.killed = FALSE
      BY DEF NoWorker
    <3> QED BY <2>2, <3>1, <3>2
  <2> QED BY <2>1, <2>2
<1>3. Unharmed
  BY <1>1, <1>2 DEF Unharmed, SeederUnharmed, WorkerUnharmed
<1>4. KillsItsOwn
  BY <1>1, <1>2 DEF KillsItsOwn
<1>5. Reasoned
  BY <1>1 DEF Reasoned, Wanted, Tests
<1> QED BY <1>3, <1>4, <1>5

(* The inductive invariant: besides, while nothing goes wrong the seeder   *)
(* and the worker are unharmed, no test goes amiss and the script leaves   *)
(* green.                                                                  *)
THEOREM ScriptsUnharmed == Spec => []IInv
<1>1. Init => Unharmed /\ KillsItsOwn /\ Reasoned
  BY InitUnharmed
<1>2. ASSUME Coherent, LaunchedAsAsked, Unharmed /\ KillsItsOwn /\ Reasoned, [Next]_vars
      PROVE  (Unharmed /\ KillsItsOwn /\ Reasoned)'
  <2>1. ASSUME faults' = 0 PROVE SeederUnharmed' /\ WorkerUnharmed'
    BY <1>2, <2>1, SeederSafe, WorkerSafe
  <2>2. Unharmed'
    BY <2>1 DEF Unharmed
  <2> QED BY <1>2, <2>2, KillsOwnOnly, StaysReasoned
<1>3. Spec => [](Unharmed /\ KillsItsOwn /\ Reasoned)
  BY <1>1, <1>2, ScriptsCoherent, WorkersServeAsAsked, PTL DEF Spec
<1>4. Coherent /\ Unharmed /\ KillsItsOwn /\ Reasoned => IInv
  BY DEF IInv
<1> QED BY <1>3, <1>4, ScriptsCoherent, PTL

(* A red leg has a reason: a fault, a bad build, refused documents or a    *)
(* loop that gave up; never that the script went on before the cluster,    *)
(* the seeder or the worker was ready (run-integration.sh, its loops).     *)
THEOREM RedHasAReason == Spec => []RedMeansBroken
<1>1. IInv => RedMeansBroken
  <2> SUFFICES ASSUME IInv, script = "exited", status = 1, ~ Reasons PROVE FALSE
    BY DEF RedMeansBroken
  <2>1. status = 0
    BY DEF IInv, Reasoned
  <2> QED BY <2>1
<1> QED BY <1>1, ScriptsUnharmed, PTL

(* The script, the seeder, the cluster and the worker keep their types.    *)
THEOREM ScriptTypes == Spec => []TypeOK
<1>1. Coherent => TypeOK
  BY DEF Coherent
<1> QED BY <1>1, ScriptsCoherent, PTL
=============================================================================
