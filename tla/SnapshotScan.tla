---------------------------- MODULE SnapshotScan ----------------------------
(***************************************************************************)
(* What es_search promises: every scan reads ONE state the index was in    *)
(* during the scan, in the order it asked for, each document once, and     *)
(* says it is finished only when it has returned them all.  It may fail or *)
(* be abandoned at any point, with a prefix returned.                      *)
(***************************************************************************)
EXTENDS SearchAfter

CONSTANT Scans
VARIABLES index,   \* the documents a search would see now
          phase,   \* phase[s]: where the scan is
          view,    \* view[s]: the state of the index it reads
          rows     \* rows[s][d]: how often it has returned d

vars == <<index, phase, view, rows>>

Once(S) == [d \in Docs |-> IF d \in S THEN 1 ELSE 0]
Unread(s) == {d \in view[s] : rows[s][d] = 0}
Ended == {"finished", "failed", "abandoned"}

Init ==
  /\ index \in SUBSET Docs
  /\ phase = [s \in Scans |-> "unbound"]
  /\ view = [s \in Scans |-> {}]
  /\ rows = [s \in Scans |-> Once({})]

Start(s) ==
  /\ phase[s] = "unbound"
  /\ \E p \in {"started", "null"} : phase' = [phase EXCEPT ![s] = p]
  /\ UNCHANGED <<index, view, rows>>

(* The state to read is the one of the moment; it is chosen for good once  *)
(* a row has been returned.                                                *)
Pin(s) ==
  /\ phase[s] \in {"started", "reading"}
  /\ rows[s] = Once({})
  /\ view' = [view EXCEPT ![s] = index]
  /\ phase' = [phase EXCEPT ![s] = "reading"]
  /\ UNCHANGED <<index, rows>>

(* A batch: documents not returned yet, the first of those in the order.   *)
Deliver(s) ==
  /\ phase[s] = "reading"
  /\ \E batch \in SUBSET Unread(s) :
       /\ \A d \in batch, e \in Unread(s) \ batch : Precedes(SortArray(d), SortArray(e))
       /\ rows' = [rows EXCEPT ![s] = [d \in Docs |-> IF d \in batch THEN 1 ELSE @[d]]]
  /\ UNCHANGED <<index, phase, view>>

Finish(s) ==
  /\ \/ phase[s] = "null"
     \/ phase[s] = "reading" /\ rows[s] = Once(view[s])
  /\ phase' = [phase EXCEPT ![s] = "finished"]
  /\ UNCHANGED <<index, view, rows>>

Stop(s) ==
  /\ phase[s] \in {"started", "null", "reading"}
  /\ \E p \in {"failed", "abandoned"} : phase' = [phase EXCEPT ![s] = p]
  /\ UNCHANGED <<index, view, rows>>

Write ==
  /\ index' \in SUBSET Docs
  /\ UNCHANGED <<phase, view, rows>>

Next == Write \/ \E s \in Scans : Start(s) \/ Pin(s) \/ Deliver(s) \/ Finish(s) \/ Stop(s)
Spec == Init /\ [][Next]_vars
=============================================================================
