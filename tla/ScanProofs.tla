------------------------------ MODULE ScanProofs ------------------------------
(***************************************************************************)
(* Theorems about Scan, for any scans, documents, orders and page sizes.   *)
(***************************************************************************)
EXTENDS ScanInvariant, OrderProofs

(* The action of a step, named for the proofs that go through them all.    *)
LEMMA NextCases ==
  ASSUME Next
  PROVE  \/ \E s \in Scans :
              \/ NewState(s) \/ BeginTick(s) \/ Finish(s) \/ OpenPIT(s) \/ OpenPITFails(s)
              \/ Search(s) \/ SearchFails(s) \/ ClosePIT(s) \/ Emit(s)
              \/ LoseTick(s) \/ Abandon(s)
         \/ \E p \in open : Expire(p)
         \/ \E r \in late : CarryOut(r)
         \/ \E d \in Docs : IndexDoc(d) \/ DeleteDoc(d)
BY DEF Next, Tick, Environment

LEMMA ZeroStateType == ZeroState \in SearchState
BY DEF ZeroState, SearchState

(* Updating fields of one scan's state.                                    *)
LEMMA StateUpdate ==
  ASSUME NEW f \in [Scans -> SearchState], NEW s \in Scans
  PROVE  /\ \A null \in BOOLEAN : [f EXCEPT ![s].noInput = null] \in [Scans -> SearchState]
         /\ \A id \in PitIds : [f EXCEPT ![s].pit = id, ![s].owns = TRUE] \in [Scans -> SearchState]
         /\ \A own \in BOOLEAN :
              [f EXCEPT ![s].owns = own, ![s].done = TRUE] \in [Scans -> SearchState]
         /\ \A id \in PitIds \cup {NoPit}, sort \in {NoCursor} \cup {SortArray(d) : d \in Docs} :
              [f EXCEPT ![s].pit = id, ![s].sort = sort] \in [Scans -> SearchState]
BY DEF SearchState

LEMMA DropType ==
  ASSUME TypeOK, NEW s \in Scans, DropTick(s)
  PROVE  /\ work' \in [Scans -> SearchState]
         /\ page' \in [Scans -> SUBSET Docs]
         /\ step' \in [Scans -> Steps]
BY ZeroStateType DEF DropTick, TypeOK, Steps

LEMMA BlameType ==
  ASSUME TypeOK, NEW s \in Scans, NEW why \in Faults, Blame(s, why)
  PROVE  excuse' \in [Scans -> SUBSET Faults]
BY DEF Blame, TypeOK

LEMMA FaultType ==
  ASSUME TypeOK, Fault
  PROVE  faults' \in 0..MaxFaults
BY ScanAssumption DEF Fault, TypeOK

LEMMA OpenedType ==
  ASSUME TypeOK, NEW id \in PitIds, NEW s \in Scans,
         Opened(id, s)
  PROVE  open' \in SUBSET [id : PitIds, docs : SUBSET Docs, owner : Scans]
BY DEF TypeOK, Opened

LEMMA AnswerType ==
  ASSUME TypeOK, NEW s \in Scans, NEW p \in open, NEW answered \in PitIds \cup {NoPit},
         Answer(s, p, answered)
  PROVE  open' \in SUBSET [id : PitIds, docs : SUBSET Docs, owner : Scans]
<1>1. p \in [id : PitIds, docs : SUBSET Docs, owner : Scans]
  BY DEF TypeOK
<1>2. answered \in PitIds =>
        [p EXCEPT !.id = answered] \in [id : PitIds, docs : SUBSET Docs, owner : Scans]
  BY <1>1
<1> QED BY <1>2 DEF Answer, TypeOK

LEMMA GiveUpType ==
  ASSUME TypeOK, NEW s \in Scans, step[s] \in Requests, GiveUp(s)
  PROVE  late' \in SUBSET LateRequest
<1>1. work[s].pit \in PitIds \cup {NoPit} /\ faults \in 0..MaxFaults
  BY DEF TypeOK, SearchState
<1>2. Request(s) \in LateRequest
  BY <1>1 DEF Request, LateRequest
<1> QED BY <1>2 DEF GiveUp, TypeOK

(* TypeOK: the variables keep their types, and the index holds one version *)
(* of a document per slot.                                                 *)
THEOREM TypeCorrect == Spec => []TypeOK
<1>1. Init => TypeOK
  BY ZeroStateType, ScanAssumption DEF Init, TypeOK, Steps
<1>2. ASSUME TypeOK, [Next]_vars PROVE TypeOK'
  <2> USE <1>2
  <2>0. token \in [Scans -> SearchState] /\ work \in [Scans -> SearchState]
    BY DEF TypeOK
  <2>1. CASE UNCHANGED vars
    BY <2>1 DEF TypeOK, vars, ghosts
  <2>2. ASSUME NEW s \in Scans, NewState(s) PROVE TypeOK'
    <3>1. token' \in [Scans -> SearchState]
      <4>1. PICK null \in BOOLEAN : token' = [token EXCEPT ![s].noInput = null]
        BY <2>2 DEF NewState
      <4> QED BY <2>0, <4>1, StateUpdate
    <3> QED BY <2>2, <3>1 DEF NewState, TypeOK, ghosts
  <2>3. ASSUME NEW s \in Scans, BeginTick(s) PROVE TypeOK'
    BY <2>3 DEF BeginTick, TypeOK, Steps, ghosts
  <2>4. ASSUME NEW s \in Scans, Finish(s) PROVE TypeOK'
    BY <2>4 DEF Finish, TypeOK, ghosts
  <2>5. ASSUME NEW s \in Scans, OpenPIT(s) PROVE TypeOK'
    <3>1. work' \in [Scans -> SearchState]
      <4>1. PICK id \in PitIds : work' = [work EXCEPT ![s].pit = id, ![s].owns = TRUE]
        BY <2>5 DEF OpenPIT
      <4> QED BY <2>0, <4>1, StateUpdate
    <3>2. open' \in SUBSET [id : PitIds, docs : SUBSET Docs, owner : Scans]
      BY <2>5, OpenedType DEF OpenPIT
    <3> QED BY <2>5, <3>1, <3>2 DEF OpenPIT, TypeOK, Steps
  <2>6. ASSUME NEW s \in Scans, OpenPITFails(s) PROVE TypeOK'
    <3>1. late' \in SUBSET LateRequest
      BY <2>6, GiveUpType DEF OpenPITFails, TypeOK, Requests
    <3>2. excuse' \in [Scans -> SUBSET Faults]
      BY <2>6, BlameType DEF OpenPITFails, Faults
    <3>3. faults' \in 0..MaxFaults
      BY <2>6, FaultType DEF OpenPITFails, TypeOK
    <3>4. DropTick(s) /\ status' = [status EXCEPT ![s] = "failed"]
          /\ UNCHANGED <<token, index, open, rows, view, pinned>>
      BY <2>6 DEF OpenPITFails, FailScan
    <3> QED BY <3>1, <3>2, <3>3, <3>4, DropType DEF TypeOK
  <2>7. ASSUME NEW s \in Scans, Search(s) PROVE TypeOK'
    <3> SUFFICES ASSUME NEW p \in open, NEW missed, NEW hits \in SUBSET p.docs,
                        NEW last \in Docs, NEW answered \in PitIds \cup {NoPit},
                        SearchPage(s, p, missed, hits, last, answered)
                 PROVE  TypeOK'
      BY <2>7 DEF Search
    <3>1. page' \in [Scans -> SUBSET Docs]
      BY DEF SearchPage, TypeOK
    <3>2. work' \in [Scans -> SearchState]
      <4>1. work[s].pit \in PitIds \cup {NoPit}
            /\ work[s].sort \in {NoCursor} \cup {SortArray(d) : d \in Docs}
        BY DEF TypeOK, SearchState
      <4>2. LatestPit(work[s].pit, answered) \in PitIds \cup {NoPit}
        BY <4>1 DEF LatestPit
      <4>3. Advance(work[s].sort, hits, last) \in {NoCursor} \cup {SortArray(d) : d \in Docs}
        BY <4>1 DEF Advance
      <4> QED BY <4>2, <4>3, StateUpdate DEF SearchPage, TypeOK
    <3>3. open' \in SUBSET [id : PitIds, docs : SUBSET Docs, owner : Scans]
      BY AnswerType DEF SearchPage
    <3>4. faults' \in 0..MaxFaults
      BY ScanAssumption DEF SearchPage, TypeOK
    <3> QED BY <3>1, <3>2, <3>3, <3>4 DEF SearchPage, TypeOK, Steps, ghosts
  <2>8. ASSUME NEW s \in Scans, SearchFails(s) PROVE TypeOK'
    <3>1. excuse' \in [Scans -> SUBSET Faults]
      BY <2>8, BlameType DEF SearchFails, Faults, TypeOK
    <3>2. faults' \in 0..MaxFaults
      BY <2>8, FaultType DEF SearchFails, TypeOK
    <3>4. late' \in SUBSET LateRequest
      BY <2>8, GiveUpType DEF SearchFails, TypeOK, Requests
    <3>3. DropTick(s) /\ status' = [status EXCEPT ![s] = "failed"]
          /\ UNCHANGED <<token, index, open, rows, view, pinned>>
      BY <2>8 DEF SearchFails, FailScan
    <3> QED BY <3>1, <3>2, <3>3, <3>4, DropType DEF TypeOK
  <2>9. ASSUME NEW s \in Scans, ClosePIT(s) PROVE TypeOK'
    <3>1. work' \in [Scans -> SearchState]
      <4>1. work[s].owns \in BOOLEAN
        BY DEF TypeOK, SearchState
      <4> DEFINE own == IF MustClose(work[s]) THEN FALSE ELSE work[s].owns
      <4>2. own \in BOOLEAN
        BY <4>1
      <4>3. work' = [work EXCEPT ![s].owns = own, ![s].done = TRUE]
        BY <2>9 DEF ClosePIT
      <4> HIDE DEF own
      <4> QED BY <4>2, <4>3, StateUpdate DEF TypeOK
    <3>2. open' \in SUBSET [id : PitIds, docs : SUBSET Docs, owner : Scans]
      BY <2>9 DEF ClosePIT, TypeOK
    <3>3. excuse' \in [Scans -> SUBSET Faults]
      BY <2>9, BlameType DEF ClosePIT, Faults, TypeOK
    <3>4. faults' \in 0..MaxFaults
      BY <2>9, FaultType DEF ClosePIT, TypeOK
    <3>5. late' \in SUBSET LateRequest
      BY <2>9, GiveUpType DEF ClosePIT, TypeOK, Requests
    <3> QED BY <2>9, <3>1, <3>2, <3>3, <3>4, <3>5 DEF ClosePIT, TypeOK, Steps
  <2>10. ASSUME NEW s \in Scans, Emit(s) PROVE TypeOK'
    <3>1. rows' \in [Scans -> [Docs -> Nat]]
      BY <2>10 DEF Emit, TypeOK
    <3>2. token' \in [Scans -> SearchState]
      BY <2>10 DEF Emit, TypeOK
    <3>3. DropTick(s) /\ UNCHANGED <<status, index, open, late, faults, view, pinned, excuse>>
      BY <2>10 DEF Emit
    <3> QED BY <3>1, <3>2, <3>3, DropType DEF TypeOK
  <2>11. ASSUME NEW s \in Scans, LoseTick(s) PROVE TypeOK'
    <3>1. excuse' \in [Scans -> SUBSET Faults] /\ faults' \in 0..MaxFaults
      BY <2>11, BlameType, FaultType DEF LoseTick, Faults
    <3>2. DropTick(s) /\ UNCHANGED <<token, status, index, open, rows, view, pinned>>
      BY <2>11 DEF LoseTick
    <3>3. late' \in SUBSET LateRequest
      BY <2>11, GiveUpType DEF LoseTick, TypeOK
    <3> QED BY <3>1, <3>2, <3>3, DropType DEF TypeOK
  <2>12. ASSUME NEW s \in Scans, Abandon(s) PROVE TypeOK'
    BY <2>12 DEF Abandon, TypeOK, ghosts
  <2>13. ASSUME NEW p \in open, Expire(p) PROVE TypeOK'
    <3>1. p.owner \in Scans
      BY DEF TypeOK
    <3>2. excuse' \in [Scans -> SUBSET Faults] /\ faults' \in 0..MaxFaults
      BY <2>13, <3>1, BlameType, FaultType DEF Expire, Faults, TypeOK
    <3>3. open' \in SUBSET [id : PitIds, docs : SUBSET Docs, owner : Scans]
          /\ UNCHANGED <<token, work, step, page, status, index, late, rows, view, pinned>>
      BY <2>13 DEF Expire, TypeOK
    <3> QED BY <3>2, <3>3 DEF TypeOK
  <2>14. ASSUME NEW d \in Docs, IndexDoc(d) PROVE TypeOK'
    <3>1. IsIndex(index)'
      BY <2>14 DEF IndexDoc, TypeOK, IsIndex, SameSlot
    <3> QED BY <2>14, <3>1 DEF IndexDoc, TypeOK, ghosts
  <2>15. ASSUME NEW d \in Docs, DeleteDoc(d) PROVE TypeOK'
    <3>1. IsIndex(index)'
      BY <2>15 DEF DeleteDoc, TypeOK, IsIndex
    <3> QED BY <2>15, <3>1 DEF DeleteDoc, TypeOK, ghosts
  <2>16. ASSUME NEW r \in late, CarryOut(r) PROVE TypeOK'
    <3>1. r.scan \in Scans
      BY DEF TypeOK, LateRequest
    <3>2. open' \in SUBSET [id : PitIds, docs : SUBSET Docs, owner : Scans]
      BY <2>16, <3>1, OpenedType, AnswerType DEF CarryOut, TypeOK
    <3> QED BY <2>16, <3>2 DEF CarryOut, TypeOK, ghosts
  <2> QED BY <2>1, <2>2, <2>3, <2>4, <2>5, <2>6, <2>7, <2>8, <2>9, <2>10, <2>11,
             <2>12, <2>13, <2>14, <2>15, <2>16, NextCases
<1> QED BY <1>1, <1>2, PTL DEF Spec

-----------------------------------------------------------------------------
(* What a scan's coherence depends on: its own state, and that no PIT takes *)
(* an id the scan refers to.                                               *)
LEMMA Untouched ==
  ASSUME NEW s \in Scans, Coherent(s),
         token'[s] = token[s], work'[s] = work[s], step'[s] = step[s], page'[s] = page[s],
         status'[s] = status[s], rows'[s] = rows[s], view'[s] = view[s],
         s \in pinned' <=> s \in pinned,
         \A p \in open' : p \in open \/ status[s] # "running"
                           \/ p.id \notin {token[s].pit, work[s].pit}
  PROVE  Coherent(s)'
<1>1. AtRest(s)'
  BY DEF Coherent, AtRest
<1>2. TokenShape(s)'
  BY DEF Coherent, TokenShape
<1>3. TickShape(s)'
  BY DEF Coherent, TickShape
<1>4. PITHoldsView(s)'
  BY DEF Coherent, PITHoldsView
<1>5. IsIndex(view[s])'
  BY DEF Coherent
<1>6. ReadSoFar(s)' = ReadSoFar(s)
  BY DEF ReadSoFar
<1>7. rows'[s] = Once(ReadSoFar(s)')
  BY <1>6 DEF Coherent
<1> QED BY <1>1, <1>2, <1>3, <1>4, <1>5, <1>7 DEF Coherent

(* A fresh id is one that no running scan refers to.                       *)
LEMMA FreshUnheld ==
  ASSUME NEW id, Fresh(id), NEW s \in Scans, status[s] = "running"
  PROVE  id \notin {token[s].pit, work[s].pit}
BY DEF Fresh, Held

(* The step that drops the worker's copy keeps the scan coherent.          *)
LEMMA Dropped ==
  ASSUME TypeOK, TypeOK', NEW s \in Scans, Coherent(s), DropTick(s),
         status' \in [Scans -> {"unbound", "running", "finished", "failed", "abandoned"}],
         status[s] # "unbound" /\ status'[s] \in {status[s], "failed"},
         UNCHANGED <<token, rows, view, pinned>>,
         \A p \in open' : p \in open \/ p.id # token[s].pit
  PROVE  Coherent(s)'
<1>1. work'[s] = ZeroState /\ step'[s] = "idle"
  BY DEF DropTick, TypeOK
<1>2. AtRest(s)'
  BY <1>1 DEF AtRest
<1>3. TokenShape(s)'
  BY DEF Coherent, TokenShape
<1>4. TickShape(s)'
  BY <1>1 DEF TickShape, ZeroState
<1>5. PITHoldsView(s)'
  <2> SUFFICES ASSUME status'[s] = "running", NEW p \in open',
                      p.id \in {token[s].pit, ZeroState.pit}
               PROVE  p.docs = view[s]
    BY <1>1 DEF PITHoldsView
  <2>1. p.id = token[s].pit
    BY ScanAssumption DEF TypeOK, ZeroState
  <2>2. status[s] = "running" /\ p \in open
    BY <2>1
  <2> QED BY <2>1, <2>2 DEF Coherent, PITHoldsView
<1>6. IsIndex(view[s])' /\ rows'[s] = Once(ReadSoFar(s)')
  BY DEF Coherent, ReadSoFar
<1> QED BY <1>2, <1>3, <1>4, <1>5, <1>6 DEF Coherent

(* One lemma per step of a tick: it keeps the scan that takes it coherent. *)
LEMMA BeginTickCoherent ==
  ASSUME TypeOK, NEW s \in Scans, Coherent(s), BeginTick(s)
  PROVE  Coherent(s)'
<1>1. /\ status[s] = "running" /\ step[s] = "idle" /\ ~ ScanDone(token[s])
      /\ work'[s] = token[s]
      /\ step'[s] = IF token[s].pit = NoPit THEN "open" ELSE "search"
      /\ UNCHANGED <<token, page, status, open, rows, view, pinned>>
  BY DEF BeginTick, Between, NeedsPIT, TypeOK, ghosts
<1>2. AtRest(s)'
  BY <1>1 DEF AtRest
<1>3. TokenShape(s)'
  BY <1>1 DEF Coherent, TokenShape
<1>4. TickShape(s)'
  BY <1>1 DEF Coherent, TokenShape, TickShape, ScanDone
<1>5. PITHoldsView(s)'
  BY <1>1 DEF Coherent, PITHoldsView
<1>6. IsIndex(view[s])' /\ rows'[s] = Once(ReadSoFar(s)')
  BY <1>1 DEF Coherent, ReadSoFar
<1> QED BY <1>2, <1>3, <1>4, <1>5, <1>6 DEF Coherent

LEMMA OpenPITCoherent ==
  ASSUME TypeOK, NEW s \in Scans, Coherent(s), OpenPIT(s)
  PROVE  Coherent(s)'
<1>1. PICK id \in PitIds :
        /\ Fresh(id)
        /\ open' = open \cup {[id |-> id, docs |-> index, owner |-> s]}
        /\ work' = [work EXCEPT ![s].pit = id, ![s].owns = TRUE]
  BY DEF OpenPIT, Opened
<1>2. /\ step[s] = "open" /\ step'[s] = "search" /\ view'[s] = index /\ s \in pinned'
      /\ UNCHANGED <<token, page, status, rows>>
  BY DEF OpenPIT, TypeOK
<1>3. /\ work[s] = token[s] /\ token[s].pit = NoPit
      /\ token[s].sort = NoCursor /\ ~ token[s].done
  BY <1>2 DEF Coherent, TickShape, TokenShape
<1>4. work'[s].pit = id /\ work'[s].sort = token[s].sort /\ work'[s].done = token[s].done
  BY <1>1, <1>3 DEF TypeOK, SearchState
<1>5. id # NoPit
  BY ScanAssumption
<1>6. AtRest(s)'
  BY <1>2 DEF Coherent, AtRest
<1>7. TokenShape(s)'
  BY <1>2, <1>3 DEF Coherent, AtRest, TokenShape
<1>8. TickShape(s)'
  BY <1>2, <1>3, <1>4, <1>5 DEF TickShape
<1>9. PITHoldsView(s)'
  <2> SUFFICES ASSUME NEW p \in open', p.id \in {NoPit, id} PROVE p.docs = index
    BY <1>2, <1>3, <1>4 DEF PITHoldsView
  <2>1. CASE p \in open
    <3>1. p.id \in PitIds /\ p.id # id
      BY <1>1, <2>1 DEF TypeOK, Fresh
    <3> QED BY <3>1, ScanAssumption
  <2>2. CASE p \notin open
    BY <1>1, <2>2
  <2> QED BY <2>1, <2>2
<1>10. IsIndex(view[s])'
  BY <1>2 DEF TypeOK
<1>11. rows'[s] = Once(ReadSoFar(s)')
  BY <1>2, <1>3 DEF Coherent, ReadSoFar
<1> QED BY <1>6, <1>7, <1>8, <1>9, <1>10, <1>11 DEF Coherent

LEMMA SearchCoherent ==
  ASSUME TypeOK, PITsDistinct, OneIndex, ExactSortValues, NoPartialResults,
         NEW s \in Scans, Coherent(s), Search(s)
  PROVE  Coherent(s)'
<1>1. step[s] = "search" /\ status[s] = "running"
  BY DEF Search, Coherent, AtRest
<1>2. /\ work[s].pit # NoPit /\ s \in pinned
      /\ work[s].sort = token[s].sort /\ ~ work[s].done
  BY <1>1 DEF Coherent, TickShape
<1> SUFFICES ASSUME NEW p \in open, p.id = work[s].pit, NEW hits \in SUBSET p.docs,
                    NEW last \in Docs, NEW answered \in PitIds \cup {NoPit},
                    SearchPage(s, p, {}, hits, last, answered)
             PROVE  Coherent(s)'
  BY DEF Search, NoPartialResults
<1>3. p.docs = view[s] /\ p.docs \in SUBSET Docs
  BY <1>1 DEF Coherent, PITHoldsView, TypeOK
<1> DEFINE cursor == token[s].sort
           next == Advance(cursor, hits, last)
           left == After(view[s], cursor)
<1>4. IsPage(hits, left, RequestSize(s))
  BY <1>2, <1>3 DEF SearchPage
<1>5. /\ page'[s] = hits
      /\ work'[s].pit = LatestPit(work[s].pit, answered)
      /\ work'[s].sort = next /\ work'[s].done = work[s].done
      /\ step'[s] = IF ShortPage(s, hits) THEN "close" ELSE "emit"
      /\ UNCHANGED <<token, status, rows, view, pinned>>
  BY <1>2 DEF SearchPage, TypeOK, SearchState, ghosts
<1>6. work'[s].pit # NoPit
  BY <1>2, <1>5 DEF LatestPit
<1>7. hits \subseteq left
  BY <1>4 DEF IsPage
<1>8. After(view[s], next) = left \ hits
  <2>1. CASE hits = {}
    BY <2>1 DEF Advance
  <2>2. CASE hits # {}
    <3>1. IsLast(last, hits) /\ next = SortArray(last)
      BY <2>2 DEF SearchPage, Advance
    <3>2. \A d, e \in view[s] : Id[d] = Id[e] => d = e
      BY <1>3 DEF Coherent, IsIndex, SameSlot, OneIndex
    <3>3. cursor \in {NoCursor} \cup {SortArray(d) : d \in Docs}
      BY DEF TypeOK, SearchState
    <3>4. view[s] \in SUBSET Docs
      BY <1>3
    <3> HIDE DEF next, cursor
    <3>5. IsPage(hits, After(view[s], cursor), RequestSize(s))
      BY <1>4
    <3>6. After(view[s], SortArray(last)) = After(view[s], cursor) \ hits
      BY <3>1, <3>2, <3>3, <3>4, <3>5, PageSplits, Z3
    <3> QED BY <3>1, <3>6
  <2> QED BY <2>1, <2>2
<1>9. ShortPage(s, hits) => left \ hits = {}
  <2> SUFFICES ASSUME ShortPage(s, hits) PROVE hits = left
    OBVIOUS
  <2>1. left \in SUBSET Docs
    BY <1>3 DEF After
  <2>2. Cardinality(hits) \in Nat
    BY <1>3, DocAssumption, FS_Subset, FS_CardinalityType
  <2>3. PageSize[s] \in Int /\ Cardinality(hits) < PageSize[s] /\ RequestSize(s) = PageSize[s]
    BY <2>2, ScanAssumption DEF ShortPage, RequestSize
  <2> HIDE DEF left
  <2> QED BY <1>4, <2>1, <2>3, ShortPageIsAll
<1> HIDE DEF next, left, cursor
<1>10. AtRest(s)'
  BY <1>1, <1>5 DEF AtRest
<1>11. TokenShape(s)'
  BY <1>5 DEF Coherent, TokenShape
<1>12. TickShape(s)'
  BY <1>2, <1>5, <1>6, <1>7, <1>8, <1>9 DEF TickShape, left, cursor
<1>13. PITHoldsView(s)'
  <2> SUFFICES ASSUME NEW q \in open', q.id \in {token[s].pit, work'[s].pit}
               PROVE  q.docs = view[s]
    BY <1>5 DEF PITHoldsView
  <2>1. CASE q \in open /\ q.id \in {token[s].pit, work[s].pit}
    BY <1>1, <2>1 DEF Coherent, PITHoldsView
  <2>2. CASE q \in open /\ q.id \notin {token[s].pit, work[s].pit}
    <3>1. q.id = answered /\ answered # NoPit
      BY <1>5, <2>2 DEF LatestPit
    <3>2. answered \notin {NoPit, p.id}
      BY <2>2, <3>1
    <3>3. Fresh(answered)
      BY <3>2 DEF SearchPage, Answer
    <3> QED BY <2>2, <3>1, <3>3 DEF Fresh
  <2>3. CASE q \notin open
    <3>1. q = [p EXCEPT !.id = answered]
      BY <2>3 DEF SearchPage, Answer
    <3>2. p \in [id : PitIds, docs : SUBSET Docs, owner : Scans]
      BY DEF TypeOK
    <3> QED BY <1>3, <3>1, <3>2
  <2> QED BY <2>1, <2>2, <2>3
<1>14. IsIndex(view[s])' /\ rows'[s] = Once(ReadSoFar(s)')
  BY <1>5 DEF Coherent, ReadSoFar
<1> QED BY <1>10, <1>11, <1>12, <1>13, <1>14 DEF Coherent

LEMMA ClosePITCoherent ==
  ASSUME TypeOK, NEW s \in Scans, Coherent(s), ClosePIT(s)
  PROVE  Coherent(s)'
<1>1. /\ step[s] = "close" /\ step'[s] = "emit"
      /\ work'[s].pit = work[s].pit /\ work'[s].sort = work[s].sort
      /\ open' \subseteq open
      /\ UNCHANGED <<token, page, status, rows, view, pinned>>
  BY DEF ClosePIT, TypeOK, SearchState
<1>2. AtRest(s)'
  BY <1>1 DEF Coherent, AtRest
<1>3. TokenShape(s)'
  BY <1>1 DEF Coherent, TokenShape
<1>4. TickShape(s)'
  BY <1>1 DEF Coherent, TickShape
<1>5. PITHoldsView(s)'
  BY <1>1 DEF Coherent, PITHoldsView
<1>6. IsIndex(view[s])' /\ rows'[s] = Once(ReadSoFar(s)')
  BY <1>1 DEF Coherent, ReadSoFar
<1> QED BY <1>2, <1>3, <1>4, <1>5, <1>6 DEF Coherent

LEMMA EmitCoherent ==
  ASSUME TypeOK, NEW s \in Scans, Coherent(s), Emit(s)
  PROVE  Coherent(s)'
<1>1. /\ step[s] = "emit" /\ step'[s] = "idle"
      /\ token'[s] = work[s] /\ work'[s] = ZeroState
      /\ rows'[s] = [d \in Docs |-> IF d \in page[s] THEN rows[s][d] + 1 ELSE rows[s][d]]
      /\ UNCHANGED <<status, open, view, pinned>>
  BY DEF Emit, DropTick, TypeOK
<1>2. status[s] = "running"
  BY <1>1 DEF Coherent, AtRest
<1>3. /\ work[s].pit # NoPit /\ s \in pinned
      /\ page[s] \subseteq After(view[s], token[s].sort)
      /\ After(view[s], work[s].sort) = After(view[s], token[s].sort) \ page[s]
      /\ work[s].done => After(view[s], work[s].sort) = {}
  BY <1>1 DEF Coherent, TickShape
<1>4. AtRest(s)'
  BY <1>1, <1>2 DEF AtRest
<1>5. TokenShape(s)'
  BY <1>1, <1>2, <1>3 DEF TokenShape
<1>6. TickShape(s)'
  BY <1>1 DEF TickShape, ZeroState
<1>7. PITHoldsView(s)'
  <2> SUFFICES ASSUME NEW p \in open, p.id \in {work[s].pit, NoPit} PROVE p.docs = view[s]
    BY <1>1 DEF PITHoldsView, ZeroState
  <2>1. p.id = work[s].pit
    BY ScanAssumption DEF TypeOK
  <2> QED BY <1>2, <2>1 DEF Coherent, PITHoldsView
<1>8. IsIndex(view[s])'
  BY <1>1 DEF Coherent
<1>9. rows'[s] = Once(ReadSoFar(s)')
  <2> DEFINE old == view[s] \ After(view[s], token[s].sort)
             new == view[s] \ After(view[s], work[s].sort)
  <2>1. ReadSoFar(s) = old
    BY DEF Coherent, TokenShape, ReadSoFar, After
  <2>2. ReadSoFar(s)' = new
    BY <1>1, <1>3 DEF ReadSoFar
  <2>3. page[s] \subseteq view[s]
    BY <1>3 DEF After
  <2>4. new = old \cup page[s] /\ old \cap page[s] = {}
    BY <1>3, <2>3
  <2>5. rows[s] = Once(old)
    BY <2>1 DEF Coherent
  <2> HIDE DEF old, new
  <2>6. rows'[s] = Once(new)
    BY <1>1, <2>4, <2>5 DEF Once
  <2> QED BY <2>2, <2>6
<1> QED BY <1>4, <1>5, <1>6, <1>7, <1>8, <1>9 DEF Coherent

-----------------------------------------------------------------------------
(* New ids are fresh, so no two PITs share one.                            *)
LEMMA PITsStayDistinct ==
  ASSUME TypeOK, PITsDistinct, NEW s \in Scans,
         \/ open' \subseteq open
         \/ \E id \in PitIds : Fresh(id) /\ Opened(id, s)
         \/ \E p \in open, id \in PitIds :
              Fresh(id) /\ open' = (open \ {p}) \cup {[p EXCEPT !.id = id]}
  PROVE  PITsDistinct'
<1>1. CASE open' \subseteq open
  BY <1>1 DEF PITsDistinct
<1>2. ASSUME NEW id \in PitIds, Fresh(id), Opened(id, s)
      PROVE  PITsDistinct'
  BY <1>2 DEF PITsDistinct, Fresh, Opened
<1>3. ASSUME NEW p \in open, NEW id \in PitIds, Fresh(id),
             open' = (open \ {p}) \cup {[p EXCEPT !.id = id]}
      PROVE  PITsDistinct'
  <2>1. p \in [id : PitIds, docs : SUBSET Docs, owner : Scans]
    BY DEF TypeOK
  <2>2. [p EXCEPT !.id = id].id = id
    BY <2>1
  <2>3. \A q \in open : q.id # id
    BY <1>3 DEF Fresh
  <2> QED BY <1>3, <2>2, <2>3 DEF PITsDistinct
<1> QED BY <1>1, <1>2, <1>3

(* A PIT that an answer moved has the answer's id, which is fresh.          *)
LEMMA AnswerFresh ==
  ASSUME TypeOK, NEW s, NEW p \in open, NEW answered \in PitIds \cup {NoPit},
         Answer(s, p, answered)
  PROVE  \A q \in open' : q \in open \/ Fresh(q.id)
<1>1. p \in [id : PitIds, docs : SUBSET Docs, owner : Scans]
  BY DEF TypeOK
<1>2. [p EXCEPT !.id = answered].id = answered
  BY <1>1
<1> QED BY <1>2 DEF Answer

(* A step of scan s leaves the others as they are, and takes only ids that *)
(* none of them refers to.                                                 *)
LEMMA OthersUntouched ==
  ASSUME IInv, NEW s \in Scans, NEW t \in Scans, t # s,
         NewState(s) \/ BeginTick(s) \/ Finish(s) \/ OpenPIT(s) \/ OpenPITFails(s)
           \/ Search(s) \/ SearchFails(s) \/ ClosePIT(s) \/ Emit(s) \/ LoseTick(s) \/ Abandon(s)
  PROVE  Coherent(t)'
<1>1. TypeOK /\ Coherent(t)
  BY DEF IInv
<1>2. /\ token'[t] = token[t] /\ work'[t] = work[t] /\ step'[t] = step[t]
      /\ page'[t] = page[t] /\ status'[t] = status[t] /\ rows'[t] = rows[t]
      /\ view'[t] = view[t] /\ (t \in pinned' <=> t \in pinned)
  <2>1. CASE NewState(s) \/ BeginTick(s) \/ Finish(s) \/ OpenPIT(s) \/ Abandon(s)
    BY <1>1, <2>1 DEF TypeOK, NewState, BeginTick, Finish, OpenPIT, Abandon, ghosts
  <2>2. CASE OpenPITFails(s) \/ SearchFails(s)
    BY <1>1, <2>2 DEF TypeOK, OpenPITFails, SearchFails, FailScan, DropTick
  <2>3. CASE Search(s)
    <3>1. PICK p, missed, hits, last, answered : SearchPage(s, p, missed, hits, last, answered)
      BY <2>3 DEF Search
    <3> QED BY <1>1, <3>1 DEF TypeOK, SearchPage, ghosts
  <2>4. CASE ClosePIT(s)
    BY <1>1, <2>4 DEF TypeOK, ClosePIT
  <2>5. CASE Emit(s) \/ LoseTick(s)
    BY <1>1, <2>5 DEF TypeOK, Emit, LoseTick, DropTick
  <2> QED BY <2>1, <2>2, <2>3, <2>4, <2>5
<1>3. \A p \in open' : p \in open \/ Fresh(p.id)
  <2>1. CASE NewState(s) \/ BeginTick(s) \/ Finish(s) \/ Abandon(s) \/ SearchFails(s)
             \/ ClosePIT(s) \/ Emit(s) \/ LoseTick(s)
    BY <2>1 DEF NewState, BeginTick, Finish, Abandon, SearchFails, ClosePIT, Emit, LoseTick
  <2>2. CASE OpenPIT(s) \/ OpenPITFails(s)
    <3>1. open' = open \/ \E id \in PitIds : Fresh(id) /\ Opened(id, s)
      BY <2>2 DEF OpenPIT, OpenPITFails
    <3> QED BY <3>1 DEF Opened
  <2>3. CASE Search(s)
    BY <1>1, <2>3, AnswerFresh DEF Search, SearchPage
  <2> QED BY <2>1, <2>2, <2>3
<1> QED BY <1>1, <1>2, <1>3, Untouched, FreshUnheld

(* The inductive invariant, for one index, sort values that doubles hold    *)
(* and a cluster that does not answer in part.                              *)
THEOREM ScansCoherent ==
  ASSUME OneIndex, ExactSortValues, NoPartialResults
  PROVE  Spec => []IInv
<1>1. Init => IInv
  <2> SUFFICES ASSUME Init PROVE IInv
    OBVIOUS
  <2>1. TypeOK
    BY ZeroStateType, ScanAssumption DEF Init, TypeOK, Steps
  <2>2. PITsDistinct
    BY DEF Init, PITsDistinct
  <2>3. ASSUME NEW s \in Scans PROVE Coherent(s)
    BY DEF Init, Coherent, AtRest, TokenShape, TickShape, PITHoldsView, IsIndex,
           ZeroState, ReadSoFar, Once
  <2> QED BY <2>1, <2>2, <2>3 DEF IInv
<1>2. ASSUME TypeOK', IInv, [Next]_vars PROVE IInv'
  <2> USE <1>2
  <2>0. TypeOK /\ PITsDistinct /\ \A s \in Scans : Coherent(s)
    BY DEF IInv
  <2>1. CASE UNCHANGED vars
    <3>1. \A s \in Scans : Coherent(s)'
      BY <2>0, <2>1, Untouched DEF vars, ghosts
    <3> QED BY <2>0, <2>1, <3>1 DEF IInv, PITsDistinct, vars
  <2>2. ASSUME NEW s \in Scans,
               NewState(s) \/ BeginTick(s) \/ Finish(s) \/ OpenPIT(s) \/ OpenPITFails(s)
                 \/ Search(s) \/ SearchFails(s) \/ ClosePIT(s) \/ Emit(s) \/ LoseTick(s) \/ Abandon(s)
        PROVE  IInv'
    <3>1. Coherent(s)'
      <4>1. CASE NewState(s)
        <5>1. /\ step[s] = "idle" /\ work[s] = ZeroState /\ token[s] = ZeroState
              /\ status'[s] = "running"
              /\ UNCHANGED <<work, step, page, open, rows, view, pinned>>
          BY <2>0, <4>1 DEF NewState, TypeOK, ghosts, Coherent, AtRest, TokenShape
        <5>2. token'[s].pit = NoPit /\ token'[s].sort = NoCursor /\ ~ token'[s].done
          <6>1. PICK null \in BOOLEAN : token' = [token EXCEPT ![s].noInput = null]
            BY <4>1 DEF NewState
          <6> QED BY <2>0, <5>1, <6>1 DEF TypeOK, SearchState, ZeroState
        <5>3. PITHoldsView(s)'
          <6>1. \A p \in open : p.id # NoPit
            BY <2>0, ScanAssumption DEF TypeOK
          <6> QED BY <5>1, <5>2, <6>1 DEF PITHoldsView, ZeroState
        <5>4. rows'[s] = Once(ReadSoFar(s)')
          <6>1. token[s].pit = NoPit
            BY <5>1 DEF ZeroState
          <6>2. ReadSoFar(s) = {} /\ ReadSoFar(s)' = {}
            BY <5>2, <6>1 DEF ReadSoFar
          <6>3. rows[s] = Once(ReadSoFar(s))
            BY <2>0 DEF Coherent
          <6> QED BY <5>1, <6>2, <6>3
        <5> QED BY <2>0, <5>1, <5>2, <5>3, <5>4
              DEF Coherent, AtRest, TokenShape, TickShape, ZeroState
      <4>2. CASE BeginTick(s)
        BY <2>0, <4>2, BeginTickCoherent
      <4>3. CASE Finish(s) \/ Abandon(s)
        BY <2>0, <4>3 DEF Finish, Abandon, Between, TypeOK, ghosts, Coherent, AtRest,
              TokenShape, TickShape, PITHoldsView, ReadSoFar
      <4>4. CASE OpenPIT(s)
        BY <2>0, <4>4, OpenPITCoherent
      <4>5. CASE OpenPITFails(s)
        <5>1. DropTick(s) /\ status' = [status EXCEPT ![s] = "failed"]
              /\ UNCHANGED <<token, rows, view, pinned>>
          BY <4>5 DEF OpenPITFails, FailScan
        <5>2. status[s] = "running"
          BY <2>0, <4>5 DEF OpenPITFails, Coherent, AtRest
        <5>3. \A p \in open' : p \in open \/ p.id # token[s].pit
          BY <4>5, <5>2, FreshUnheld DEF OpenPITFails
        <5>4. status' \in [Scans -> {"unbound", "running", "finished", "failed", "abandoned"}]
              /\ status'[s] = "failed"
          BY <2>0, <5>1 DEF TypeOK
        <5> QED BY <2>0, <5>1, <5>2, <5>3, <5>4, Dropped
      <4>6. CASE Search(s)
        BY <2>0, <4>6, SearchCoherent
      <4>7. CASE SearchFails(s)
        <5>1. DropTick(s) /\ status' = [status EXCEPT ![s] = "failed"]
              /\ UNCHANGED <<token, open, rows, view, pinned>>
          BY <4>7 DEF SearchFails, FailScan
        <5>2. status[s] = "running"
          BY <2>0, <4>7 DEF SearchFails, Coherent, AtRest
        <5>3. status' \in [Scans -> {"unbound", "running", "finished", "failed", "abandoned"}]
              /\ status'[s] = "failed"
          BY <2>0, <5>1 DEF TypeOK
        <5> QED BY <2>0, <5>1, <5>2, <5>3, Dropped
      <4>8. CASE ClosePIT(s)
        BY <2>0, <4>8, ClosePITCoherent
      <4>9. CASE Emit(s)
        BY <2>0, <4>9, EmitCoherent
      <4>10. CASE LoseTick(s)
        BY <2>0, <4>10, Dropped DEF LoseTick, TypeOK
      <4> QED BY <2>2, <4>1, <4>2, <4>3, <4>4, <4>5, <4>6, <4>7, <4>8, <4>9, <4>10
    <3>2. \A t \in Scans \ {s} : Coherent(t)'
      BY <2>2, OthersUntouched
    <3>3. PITsDistinct'
      <4>1. CASE Search(s)
        BY <2>0, <4>1, PITsStayDistinct DEF Search, SearchPage, Answer
      <4>2. CASE OpenPIT(s) \/ OpenPITFails(s)
        BY <2>0, <4>2, PITsStayDistinct DEF OpenPIT, OpenPITFails
      <4>3. CASE ~ (Search(s) \/ OpenPIT(s) \/ OpenPITFails(s))
        <5>1. open' \subseteq open
          BY <2>2, <4>3 DEF NewState, BeginTick, Finish, SearchFails, ClosePIT, Emit, LoseTick, Abandon
        <5> QED BY <2>0, <5>1, PITsStayDistinct
      <4> QED BY <4>1, <4>2, <4>3
    <3> QED BY <3>1, <3>2, <3>3 DEF IInv
  <2>3. ASSUME NEW p \in open, Expire(p) PROVE IInv'
    <3>1. \A s \in Scans : Coherent(s)'
      BY <2>0, <2>3, Untouched DEF Expire
    <3> QED BY <2>0, <2>3, <3>1 DEF IInv, PITsDistinct, Expire
  <2>4. ASSUME NEW d \in Docs, IndexDoc(d) \/ DeleteDoc(d) PROVE IInv'
    <3>1. \A s \in Scans : Coherent(s)'
      BY <2>0, <2>4, Untouched DEF IndexDoc, DeleteDoc, ghosts
    <3> QED BY <2>0, <2>4, <3>1 DEF IInv, PITsDistinct, IndexDoc, DeleteDoc
  <2>5. ASSUME NEW r \in late, CarryOut(r) PROVE IInv'
    <3>1. r.scan \in Scans
      BY <2>0 DEF TypeOK, LateRequest
    <3>2. \A p \in open' : p \in open \/ Fresh(p.id)
      BY <2>0, <2>5, <3>1, AnswerFresh DEF CarryOut, Opened
    <3>3. \A s \in Scans : Coherent(s)'
      BY <2>0, <2>5, <3>2, Untouched, FreshUnheld DEF CarryOut, ghosts
    <3>4. PITsDistinct'
      BY <2>0, <2>5, <3>1, PITsStayDistinct DEF CarryOut, Answer
    <3> QED BY <3>3, <3>4 DEF IInv
  <2> QED BY <2>1, <2>2, <2>3, <2>4, <2>5, NextCases
<1> QED BY <1>1, <1>2, TypeCorrect, PTL DEF Spec

-----------------------------------------------------------------------------
(* ResumePoint: the rows returned are the snapshot up to the token's cursor. *)
THEOREM ResumesExactly ==
  ASSUME OneIndex, ExactSortValues, NoPartialResults
  PROVE  Spec => []ResumePoint
<1>1. IInv => ResumePoint
  BY DEF IInv, Coherent, ResumePoint
<1> QED BY <1>1, ScansCoherent, PTL

(* ExactlyOnce: a scan that finishes returned its whole snapshot, once.    *)
THEOREM FinishedScansAreExact ==
  ASSUME OneIndex, ExactSortValues, NoPartialResults
  PROVE  Spec => []ExactlyOnce
<1>1. IInv => ExactlyOnce
  <2> SUFFICES ASSUME IInv, NEW s \in Scans, status[s] = "finished", ~ token[s].noInput
               PROVE  s \in pinned /\ rows[s] = Once(view[s])
    BY DEF ExactlyOnce, CompleteSnapshot
  <2>1. TokenShape(s) /\ rows[s] = Once(ReadSoFar(s))
    BY DEF IInv, Coherent
  <2>2. token[s].done /\ token[s].pit # NoPit /\ s \in pinned
    BY <2>1 DEF TokenShape, ScanDone
  <2>3. ReadSoFar(s) = view[s]
    BY <2>1, <2>2 DEF TokenShape, ReadSoFar
  <2> QED BY <2>1, <2>2, <2>3
<1> QED BY <1>1, ScansCoherent, PTL

(* NoDuplicates: no document is returned twice, whatever becomes of a scan. *)
THEOREM NothingTwice ==
  ASSUME OneIndex, ExactSortValues, NoPartialResults
  PROVE  Spec => []NoDuplicates
<1>1. IInv => NoDuplicates
  <2> SUFFICES ASSUME IInv, NEW s \in Scans, NEW d \in Docs PROVE rows[s][d] <= 1
    BY DEF NoDuplicates
  <2>1. rows[s][d] \in {0, 1}
    BY DEF IInv, Coherent, Once
  <2> QED BY <2>1
<1> QED BY <1>1, ScansCoherent, PTL

(* OneVersion: no scan returns two versions of a document.                 *)
THEOREM NoTwoVersions ==
  ASSUME OneIndex, ExactSortValues, NoPartialResults
  PROVE  Spec => []OneVersion
<1>1. IInv => OneVersion
  <2> SUFFICES ASSUME IInv, NEW s \in Scans, NEW d \in Docs, NEW e \in Docs,
                      rows[s][d] > 0, rows[s][e] > 0, SameSlot(d, e)
               PROVE  d = e
    BY DEF OneVersion
  <2>1. IsIndex(view[s]) /\ rows[s] = Once(ReadSoFar(s))
    BY DEF IInv, Coherent
  <2>2. d \in ReadSoFar(s) /\ e \in ReadSoFar(s)
    BY <2>1 DEF Once
  <2>3. d \in view[s] /\ e \in view[s]
    BY <2>2 DEF ReadSoFar
  <2> QED BY <2>1, <2>3 DEF IsIndex
<1> QED BY <1>1, ScansCoherent, PTL
=============================================================================
