-------------------------------- MODULE Seed --------------------------------
(***************************************************************************)
(* The seeder (cmd/seed): four requests, one after the other, that leave   *)
(* the test index with exactly the documents of Docs, and the cluster that *)
(* carries them out, perhaps after the seeder has given up on them.        *)
(*                                                                         *)
(* A definition named X_Something is a wrong variant of X.                 *)
(***************************************************************************)
EXTENDS Integers

CONSTANTS Docs,       \* the documents to index
          OldDoc,     \* a document that an earlier run left behind
          MaxFaults   \* bound on what goes wrong in a behaviour

ASSUME SeedAssumption == OldDoc \notin Docs /\ MaxFaults \in Nat

VARIABLES seeder,    \* where run is: the request in flight, or how it ended
          index,     \* the test index: its mapping, documents, and those that searches see
          late,      \* requests nobody waits for that the cluster may still carry out
          refused,   \* the documents that the answered bulk request refused
          wiped,     \* has a late DELETE removed the new index?
          faults     \* how many things went wrong

seedVars == <<seeder, index, late, refused, wiped, faults>>

Requests == {"delete", "create", "bulk", "refresh"}
Index(mapping, docs, visible) == [mapping |-> mapping, docs |-> docs, visible |-> visible]
NoIndex == Index("none", {}, {})
Leftover == Index("other", {OldDoc}, {OldDoc})
Full == Index("seed", Docs, Docs)

SeedTypeOK ==
  /\ seeder \in Requests \cup {"idle", "done", "failed"}
  /\ index \in [mapping : {"none", "other", "seed", "dynamic"},
                docs : SUBSET (Docs \cup {OldDoc}), visible : SUBSET (Docs \cup {OldDoc})]
  /\ late \subseteq Requests
  /\ refused \subseteq Docs
  /\ wiped \in BOOLEAN /\ faults \in 0..MaxFaults

SeedInit ==
  /\ seeder = "idle" /\ index \in {NoIndex, Leftover}
  /\ late = {} /\ refused = {} /\ wiped = FALSE /\ faults = 0

(* What the cluster may do with a request: the status, the index after it, *)
(* and the items it refused.  A bulk request answers 200 whatever became   *)
(* of its items, and creates an index that is missing.                     *)
Outcome(status, i, items) == [status |-> status, index |-> i, refused |-> items]
Outcomes(request) ==
  CASE request = "delete" /\ index # NoIndex -> {Outcome(200, NoIndex, {})}
    [] request = "create" /\ index = NoIndex -> {Outcome(200, Index("seed", {}, {}), {})}
    [] request = "create" /\ index # NoIndex -> {Outcome(400, index, {})}
    [] request = "bulk" ->
         {Outcome(200, Index(IF index = NoIndex THEN "dynamic" ELSE index.mapping,
                             index.docs \cup (Docs \ items), index.visible), items) : items \in SUBSET Docs}
    [] request = "refresh" /\ index # NoIndex -> {Outcome(200, [index EXCEPT !.visible = index.docs], {})}
    [] OTHER -> {Outcome(404, index, {})}

(* do: is there an error?  A status is none for a DELETE. *)
Fails_NoStatus(request, status) == FALSE
Fails(request, status) == status >= 400 /\ request # "delete"

Following(request) ==
  CASE request = "delete" -> "create"
    [] request = "create" -> "bulk"
    [] request = "bulk" -> "refresh"
    [] request = "refresh" -> "done"

(* run ignores any error of the DELETE and stops at any other. *)
Proceed(request, error) ==
  seeder' = IF error /\ request # "delete" THEN "failed" ELSE Following(request)

Answered ==
  /\ seeder \in Requests
  /\ \E outcome \in Outcomes(seeder) :
       /\ index' = outcome.index
       /\ refused' = refused \cup outcome.refused
       /\ Proceed(seeder, Fails(seeder, outcome.status))
  /\ UNCHANGED <<late, wiped, faults>>

(* The connection breaks or the client's timeout of 30 seconds runs out,   *)
(* before the request, after it, or while the cluster still has it; or the *)
(* cluster has no room for it.                                             *)
Unanswered ==
  /\ seeder \in Requests /\ faults < MaxFaults
  /\ faults' = faults + 1
  /\ \/ UNCHANGED <<index, late>>
     \/ \E outcome \in Outcomes(seeder) : index' = outcome.index /\ UNCHANGED late
     \/ late' = late \cup {seeder} /\ UNCHANGED index
  /\ Proceed(seeder, TRUE)
  /\ UNCHANGED <<refused, wiped>>

Arrives ==
  \E request \in late :
    /\ \E outcome \in Outcomes(request) : index' = outcome.index
    /\ late' = late \ {request}
    /\ wiped' = (wiped \/ (request = "delete" /\ index.mapping = "seed"))
    /\ UNCHANGED <<seeder, refused, faults>>

SeederSteps == Answered \/ Unanswered

(* What the seeder reports is there: exactly its documents, all visible,   *)
(* under its mapping, whatever an earlier run left.  Two things it cannot  *)
(* see are excused: items refused in a bulk request that answers 200, and  *)
(* a DELETE given up on, an error run ignores, that removes the new index. *)
SeededAsReported ==
  seeder = "done" /\ refused = {} /\ ~ wiped => index = Full
=============================================================================
