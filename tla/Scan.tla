-------------------------------- MODULE Scan --------------------------------
(***************************************************************************)
(* es_search scans over a cluster.  A scan is driven by Process calls      *)
(* ("ticks"): its externalized state (the token) is rehydrated, one page   *)
(* is read with PIT + search_after, and the rows are answered together     *)
(* with the token for the next tick.  Writers change the index meanwhile,  *)
(* requests fail before their effect, after it or with it still to come,   *)
(* PITs expire, ticks are lost and driven again from the last token, scans *)
(* are abandoned.                                                          *)
(*                                                                         *)
(* A definition named X_Something is a wrong variant of X that nothing     *)
(* uses: put in X's place it must break a property, which shows that the   *)
(* property depends on X.                                                  *)
(***************************************************************************)
EXTENDS SearchAfter

CONSTANTS Scans,            \* the scans in flight
          PitIds,           \* the PITs the cluster can have open at once
          NoPit,            \* the empty pit id
          PageSize,         \* PageSize[s]: the page_size argument of scan s
          DefaultPageSize,  \* the size of a request that asks for none
          PartialResults,   \* may a search miss shards and still answer 200?
          MaxFaults         \* bound on requests failed, ticks lost, PITs expired in use

ASSUME ScanAssumption ==
  /\ NoPit \notin PitIds
  /\ PageSize \in [Scans -> Int]
  /\ DefaultPageSize \in Nat \ {0}
  /\ PartialResults \in BOOLEAN
  /\ MaxFaults \in Nat

VARIABLES token,   \* token[s]: the searchState between ticks
          work,    \* work[s]: the searchState the current tick works on
          step,    \* step[s]: what the current tick does next
          page,    \* page[s]: the hits the current tick has read
          status,  \* status[s]: what became of the scan
          index,   \* the documents a search opened now would see
          open,    \* the PITs the cluster holds: id, snapshot and who opened it
          late,    \* the requests nobody waits for that may still be carried out
          faults   \* how many faults the environment has spent

\* What only the properties read.
VARIABLES rows,    \* rows[s][d]: how often document version d was returned
          view,    \* view[s]: the snapshot the scan last pinned
          pinned,  \* the scans that have pinned a snapshot
          excuse   \* excuse[s]: the faults the scan was hit by

ghosts == <<rows, view, pinned, excuse>>
vars == <<token, work, step, page, status, index, open, late, faults, ghosts>>

(* The cursor fields of searchState.  (Its other fields are the plan, which *)
(* no tick changes, and Started, which no code reads.)                      *)
SearchState == [pit : PitIds \cup {NoPit}, sort : {NoCursor} \cup {SortArray(d) : d \in Docs},
                done : BOOLEAN, noInput : BOOLEAN, owns : BOOLEAN]
ZeroState == [pit |-> NoPit, sort |-> NoCursor,
              done |-> FALSE, noInput |-> FALSE, owns |-> FALSE]

Steps == {"idle", "open", "search", "close", "emit"}
Requests == {"open", "search", "close"}    \* the steps that send one
LateRequest == [kind : Requests, scan : Scans, pit : PitIds \cup {NoPit}, n : 0..MaxFaults]
Faults == {"transport", "rejected", "expired", "lost", "closeFailed"}

SameSlot(d, e) == IndexOf[d] = IndexOf[e] /\ Id[d] = Id[e]
IsIndex(S) == \A d, e \in S : SameSlot(d, e) => d = e

TypeOK ==
  /\ token \in [Scans -> SearchState]
  /\ work \in [Scans -> SearchState]
  /\ step \in [Scans -> Steps]
  /\ page \in [Scans -> SUBSET Docs]
  /\ status \in [Scans -> {"unbound", "running", "finished", "failed", "abandoned"}]
  /\ index \in SUBSET Docs /\ IsIndex(index)
  /\ open \in SUBSET [id : PitIds, docs : SUBSET Docs, owner : Scans]
  /\ late \in SUBSET LateRequest
  /\ faults \in 0..MaxFaults
  /\ rows \in [Scans -> [Docs -> Nat]]
  /\ view \in [Scans -> SUBSET Docs]
  /\ pinned \in SUBSET Scans
  /\ excuse \in [Scans -> SUBSET Faults]

Init ==
  /\ token = [s \in Scans |-> ZeroState]
  /\ work = [s \in Scans |-> ZeroState]
  /\ step = [s \in Scans |-> "idle"]
  /\ page = [s \in Scans |-> {}]
  /\ status = [s \in Scans |-> "unbound"]
  /\ index \in SUBSET Docs /\ IsIndex(index)
  /\ open = {}
  /\ late = {}
  /\ faults = 0
  /\ rows = [s \in Scans |-> [d \in Docs |-> 0]]
  /\ view = [s \in Scans |-> {}]
  /\ pinned = {}
  /\ excuse = [s \in Scans |-> {}]

-----------------------------------------------------------------------------
(* A scan that is still to be answered refers to this PIT. *)
Held(id) == \E s \in Scans : status[s] = "running" /\ id \in {token[s].pit, work[s].pit}
Fresh(id) == ~ Held(id) /\ (\A p \in open : p.id # id) /\ (\A r \in late : r.pit # id)
Opened(id, s) == open' = open \cup {[id |-> id, docs |-> index, owner |-> s]}

Blame(s, why) == excuse' = [excuse EXCEPT ![s] = @ \cup {why}]
Fault == faults < MaxFaults /\ faults' = faults + 1

(* The request of this step gets no answer in time, or nobody is left to    *)
(* read it: it never reached the cluster, or the cluster is still at it.    *)
Request(s) == [kind |-> step[s], scan |-> s, pit |-> work[s].pit, n |-> faults]
GiveUp(s) == late' \in {late, late \cup {Request(s)}}

(* The tick is over, and with it the worker's copy of the state. *)
DropTick(s) ==
  /\ work' = [work EXCEPT ![s] = ZeroState]
  /\ page' = [page EXCEPT ![s] = {}]
  /\ step' = [step EXCEPT ![s] = "idle"]

(* An error out of Process ends the query. *)
FailScan(s) ==
  /\ DropTick(s)
  /\ status' = [status EXCEPT ![s] = "failed"]

(* NewState: the plan, and no network I/O; a NULL endpoint or index leaves *)
(* nothing to read.                                                        *)
NewState(s) ==
  /\ status[s] = "unbound"
  /\ \E null \in BOOLEAN : token' = [token EXCEPT ![s].noInput = null]
  /\ status' = [status EXCEPT ![s] = "running"]
  /\ UNCHANGED <<work, step, page, index, open, late, faults, ghosts>>

ScanDone(state) == state.noInput \/ state.done

Between(s) == status[s] = "running" /\ step[s] = "idle"

(* Process on a state that is done. *)
Finish(s) ==
  /\ Between(s) /\ ScanDone(token[s])
  /\ status' = [status EXCEPT ![s] = "finished"]
  /\ UNCHANGED <<token, work, step, page, index, open, late, faults, ghosts>>

(* Process on a state that is not: rehydrate it; a PIT already open is used *)
(* again.                                                                   *)
NeedsPIT_Always(state) == TRUE
NeedsPIT(state) == state.pit = NoPit
BeginTick(s) ==
  /\ Between(s) /\ ~ ScanDone(token[s])
  /\ work' = [work EXCEPT ![s] = token[s]]
  /\ step' = [step EXCEPT ![s] = IF NeedsPIT(token[s]) THEN "open" ELSE "search"]
  /\ UNCHANGED <<token, page, status, index, open, late, faults, ghosts>>

(* OpenPIT: the index as it is now is what this scan will read. *)
OpenPIT(s) ==
  /\ step[s] = "open"
  /\ \E id \in PitIds :
       /\ Fresh(id) /\ Opened(id, s)
       /\ work' = [work EXCEPT ![s].pit = id, ![s].owns = TRUE]
  /\ view' = [view EXCEPT ![s] = index]
  /\ pinned' = pinned \cup {s}
  /\ step' = [step EXCEPT ![s] = "search"]
  /\ UNCHANGED <<token, page, status, index, late, faults, rows, excuse>>

(* It fails: rejected by a cluster that has no PIT left, or unanswered,     *)
(* which may leave a PIT that nobody knows of, now or later.                *)
OpenPITFails(s) ==
  /\ step[s] = "open"
  /\ \/ /\ \A id \in PitIds : ~ Fresh(id)
        /\ Blame(s, "rejected")
        /\ UNCHANGED <<late, faults>>
     \/ Fault /\ Blame(s, "transport") /\ GiveUp(s)
  /\ FailScan(s)
  /\ UNCHANGED <<token, index, open, rows, view, pinned>>

-----------------------------------------------------------------------------
RequestSize(s) == IF PageSize[s] <= 0 THEN DefaultPageSize ELSE PageSize[s]

(* The state after a response with these hits, the last of them `last`: the *)
(* latest PIT id, the last hit's sort array.                                *)
LatestPit_First(old, answered) == old
LatestPit_Unchecked(old, answered) == answered
LatestPit(old, answered) == IF answered # NoPit THEN answered ELSE old

Advance_FirstHit(sort, hits, last) ==
  IF hits = {} THEN sort
  ELSE SortArray(CHOOSE d \in hits : \A e \in hits : ~ Precedes(SortArray(e), SortArray(d)))
Advance_IdOnly(sort, hits, last) == IF hits # {} THEN <<Id[last]>> ELSE sort
Advance(sort, hits, last) == IF hits # {} THEN SortArray(last) ELSE sort

(* A page shorter than the page_size argument is the last one. *)
ShortPage_OffByOne(s, hits) == Cardinality(hits) <= PageSize[s]
ShortPage_TooShort(s, hits) == Cardinality(hits) < PageSize[s] - 1
ShortPage(s, hits) == Cardinality(hits) < PageSize[s]

(* The cluster answers with the PIT's id, with none, or moves the PIT to a  *)
(* new id, which the old one then no longer finds.                          *)
Answer(s, p, answered) ==
  \/ answered \in {NoPit, p.id} /\ UNCHANGED open
  \/ answered \in PitIds /\ Fresh(answered) /\ open' = (open \ {p}) \cup {[p EXCEPT !.id = answered]}

(* Search: one page after the cursor.  The request carries a cursor only if *)
(* there is one.  The shards a partial answer misses go unnoticed.          *)
SearchPage(s, p, missed, hits, last, answered) ==
  /\ missed # {} => faults < MaxFaults
  /\ IsPage(hits, After(p.docs \ missed, work[s].sort), RequestSize(s))
  /\ IF hits # {} THEN IsLast(last, hits) ELSE last = CHOOSE d \in Docs : TRUE
  /\ Answer(s, p, answered)
  /\ page' = [page EXCEPT ![s] = hits]
  /\ work' = [work EXCEPT ![s].pit = LatestPit(work[s].pit, answered),
                          ![s].sort = Advance(work[s].sort, hits, last)]
  /\ step' = [step EXCEPT ![s] = IF ShortPage(s, hits) THEN "close" ELSE "emit"]
  /\ faults' = IF missed # {} THEN faults + 1 ELSE faults
  /\ UNCHANGED <<token, status, index, late, ghosts>>
Search(s) ==
  /\ step[s] = "search"
  /\ \E p \in open :
       /\ p.id = work[s].pit
       /\ \E missed \in IF PartialResults THEN SUBSET p.docs ELSE {{}} :
            \E hits \in SUBSET p.docs, last \in Docs, answered \in PitIds \cup {NoPit} :
               SearchPage(s, p, missed, hits, last, answered)

(* The PIT is not found, or the request or its answer is lost. *)
SearchFails(s) ==
  /\ step[s] = "search"
  /\ \/ /\ \A p \in open : p.id # work[s].pit
        /\ UNCHANGED <<late, faults, excuse>>
     \/ Fault /\ Blame(s, "transport") /\ GiveUp(s)
  /\ FailScan(s)
  /\ UNCHANGED <<token, index, open, rows, view, pinned>>

(* closePIT, best effort, then Done.  A failure is logged and forgotten. *)
MustClose(state) == state.owns /\ state.pit # NoPit
ClosePIT(s) ==
  /\ step[s] = "close"
  /\ \/ ~ MustClose(work[s]) /\ UNCHANGED <<open, late, faults, excuse>>
     \/ /\ MustClose(work[s])
        /\ \/ /\ open' = {p \in open : p.id # work[s].pit}
              /\ UNCHANGED <<late, faults, excuse>>
           \/ Fault /\ Blame(s, "closeFailed") /\ GiveUp(s) /\ UNCHANGED open
  /\ work' = [work EXCEPT ![s].owns = IF MustClose(work[s]) THEN FALSE ELSE work[s].owns,
                          ![s].done = TRUE]
  /\ step' = [step EXCEPT ![s] = "emit"]
  /\ UNCHANGED <<token, page, status, index, rows, view, pinned>>

(* Emit: the page and the next token are answered together. *)
Emit(s) ==
  /\ step[s] = "emit"
  /\ rows' = [rows EXCEPT ![s] = [d \in Docs |-> IF d \in page[s] THEN @[d] + 1 ELSE @[d]]]
  /\ token' = [token EXCEPT ![s] = work[s]]
  /\ DropTick(s)
  /\ UNCHANGED <<status, index, open, late, faults, view, pinned, excuse>>

-----------------------------------------------------------------------------
(* The tick dies, or its answer does, and the engine drives the scan again *)
(* from the token it holds.  A request of the tick may outlive it.         *)
LoseTick(s) ==
  /\ status[s] = "running" /\ step[s] # "idle"
  /\ Fault /\ Blame(s, "lost")
  /\ IF step[s] \in Requests THEN GiveUp(s) ELSE UNCHANGED late
  /\ DropTick(s)
  /\ UNCHANGED <<token, status, index, open, rows, view, pinned>>

(* The engine stops asking: a LIMIT is reached, the query is cancelled.    *)
(* There is no call by which the worker would hear of it.                  *)
Abandon(s) ==
  /\ Between(s)
  /\ status' = [status EXCEPT ![s] = "abandoned"]
  /\ UNCHANGED <<token, work, step, page, index, open, late, faults, ghosts>>

(* keep_alive runs out: of a PIT no scan will use again, or of one whose   *)
(* scan stalls.                                                            *)
Expire(p) ==
  /\ open' = open \ {p}
  /\ IF Held(p.id)
     THEN Fault /\ Blame(p.owner, "expired")
     ELSE UNCHANGED <<faults, excuse>>
  /\ UNCHANGED <<token, work, step, page, status, index, late, rows, view, pinned>>

(* A late request arrives after all, or is dropped for good.               *)
CarryOut(r) ==
  /\ late' = late \ {r}
  /\ \/ UNCHANGED open
     \/ r.kind = "open" /\ \E id \in PitIds : Fresh(id) /\ Opened(id, r.scan)
     \/ r.kind = "search" /\ \E p \in open, id \in PitIds : p.id = r.pit /\ Answer(r.scan, p, id)
     \/ r.kind = "close" /\ open' = {p \in open : p.id # r.pit}
  /\ UNCHANGED <<token, work, step, page, status, index, faults, ghosts>>

(* Writers: a version replaces the one in its slot. *)
IndexDoc(d) ==
  /\ d \notin index
  /\ index' = {e \in index : ~ SameSlot(e, d)} \cup {d}
  /\ UNCHANGED <<token, work, step, page, status, open, late, faults, ghosts>>
DeleteDoc(d) ==
  /\ d \in index
  /\ index' = index \ {d}
  /\ UNCHANGED <<token, work, step, page, status, open, late, faults, ghosts>>

Tick(s) ==
  \/ NewState(s) \/ BeginTick(s) \/ Finish(s)
  \/ OpenPIT(s) \/ OpenPITFails(s)
  \/ Search(s) \/ SearchFails(s)
  \/ ClosePIT(s) \/ Emit(s)
Environment ==
  \/ \E s \in Scans : LoseTick(s) \/ Abandon(s)
  \/ \E p \in open : Expire(p)
  \/ \E r \in late : CarryOut(r)
  \/ \E d \in Docs : IndexDoc(d) \/ DeleteDoc(d)
Next == (\E s \in Scans : Tick(s)) \/ Environment

Spec == Init /\ [][Next]_vars

(* The engine keeps asking, every request ends (doJSON's timeout), and the *)
(* cluster drops a PIT that nothing keeps alive.                           *)
ExpireUnused(id) == \E p \in open : p.id = id /\ ~ Held(id) /\ Expire(p)
FairSpec ==
  /\ Spec
  /\ \A s \in Scans : WF_vars(Tick(s))
  /\ \A id \in PitIds : WF_vars(ExpireUnused(id))

-----------------------------------------------------------------------------
(* What the promise of exactness rests on, beside ExactSortValues: one     *)
(* concrete index, in which an `_id` names one document, and a cluster     *)
(* that answers for all its shards or not at all.                          *)
OneIndex == \A d, e \in Docs : IndexOf[d] = IndexOf[e]
NoPartialResults == ~ PartialResults

Once(S) == [d \in Docs |-> IF d \in S THEN 1 ELSE 0]

(* What the token says has been read of the snapshot. *)
ReadSoFar(s) ==
  IF token[s].pit = NoPit THEN {} ELSE view[s] \ After(view[s], token[s].sort)

(* The rows returned so far are exactly the documents of the pinned        *)
(* snapshot up to the cursor in the token, each once: whatever is lost,    *)
(* the next tick resumes where the engine's rows end (README.md, "no       *)
(* duplicates and no drops").                                              *)
ResumePoint == \A s \in Scans : rows[s] = Once(ReadSoFar(s))

(* A scan that finishes has returned the whole snapshot, each document     *)
(* once.                                                                   *)
CompleteSnapshot(s) ==
  status[s] = "finished" /\ ~ token[s].noInput => s \in pinned /\ rows[s] = Once(view[s])
ExactlyOnce == \A s \in Scans : CompleteSnapshot(s)

(* No document version is returned twice, whatever becomes of the scan.    *)
NoDuplicates == \A s \in Scans, d \in Docs : rows[s][d] <= 1

(* A document that is updated while it is scanned is never returned in two *)
(* versions: the pages all read one snapshot.                              *)
OneVersion ==
  \A s \in Scans : \A d, e \in Docs :
     rows[s][d] > 0 /\ rows[s][e] > 0 /\ SameSlot(d, e) => d = e

(* The PITs of a scan are the one it will close, unless it failed or was   *)
(* abandoned, its DELETE failed, or an answer that would have told of one  *)
(* was lost: every leak is somebody's fault, and a scan that finishes      *)
(* undisturbed leaves none.                                                *)
LeaksExcused ==
  \A p \in open :
     \/ Held(p.id)
     \/ status[p.owner] \in {"failed", "abandoned"}
     \/ excuse[p.owner] \cap {"closeFailed", "lost"} # {}

(* The scan's own bookkeeping never makes it fail: not a PIT id it let go  *)
(* stale, not one it closed too early.  It fails when its environment did. *)
(* Its searches ask for what a cluster takes: Client has the others.       *)
OnlyExcusedFailures == \A s \in Scans : status[s] = "failed" => excuse[s] # {}

(* Rows come in the order asked for across pages: what a tick returns      *)
(* follows everything returned before it.                                  *)
PagesInOrder ==
  [][\A s \in Scans : \A d, e \in Docs :
       rows'[s][d] > rows[s][d] /\ rows[s][e] > 0
         => Precedes(SortArray(e), SortArray(d))]_vars

(* A running scan ends: it reaches a short page, or fails, or is abandoned *)
(* (README.md, "when a page is short, close the PIT and finish").          *)
ScanEnds == \A s \in Scans : status[s] = "running" ~> status[s] # "running"

(* Every PIT is given back in the end, the leaked ones by keep_alive, which *)
(* no scan that has ended prolongs.                                        *)
PITsReleased == \A id \in PitIds : (\E p \in open : p.id = id) ~> (\A p \in open : p.id # id)

(* Scans implement the promise of SnapshotScan: the phase of a scan is in  *)
(* its token and its status, its PIT and its faults are hidden.            *)
PhaseOf(s) ==
  IF status[s] # "running" THEN status[s]
  ELSE IF token[s].noInput THEN "null"
  ELSE IF s \in pinned THEN "reading" ELSE "started"
Promise == INSTANCE SnapshotScan WITH phase <- [s \in Scans |-> PhaseOf(s)]
ImplementsPromise == Promise!Spec
=============================================================================
