----------------------------- MODULE LedgerProofs -----------------------------
(***************************************************************************)
(* Theorems about the PITs of Scan, for any scans, documents, orders, page *)
(* sizes and faults: no assumption is needed on sort values, indices or    *)
(* partial answers.  Then what the scans promise: what a tick returns      *)
(* follows what was returned before, and every step of Scan is a step of   *)
(* SnapshotScan or changes nothing in it.                                  *)
(***************************************************************************)
EXTENDS ScanProofs

(* Blame only adds to the excuses, and FailScan only fails its scan.       *)
LEMMA BlameGrows ==
  ASSUME TypeOK, NEW s \in Scans, NEW why, Blame(s, why)
  PROVE  /\ excuse'[s] = excuse[s] \cup {why}
         /\ \A t \in Scans : excuse[t] \subseteq excuse'[t]
         /\ \A t \in Scans \ {s} : excuse'[t] = excuse[t]
BY DEF Blame, TypeOK

(* No PIT has the empty id.                                                *)
LEMMA OpenIds ==
  ASSUME TypeOK, NEW p \in open
  PROVE  p.id \in PitIds /\ p.id # NoPit /\ p.owner \in Scans
BY ScanAssumption DEF TypeOK

(* A PIT moved by an answer keeps its owner.                               *)
LEMMA Moved ==
  ASSUME TypeOK, NEW s, NEW p \in open, NEW answered \in PitIds \cup {NoPit},
         Answer(s, p, answered)
  PROVE  \/ open' = open /\ answered \in {NoPit, p.id}
         \/ /\ Fresh(answered) /\ answered \in PitIds /\ answered # p.id
            /\ \E q \in open' : /\ q.id = answered /\ q.owner = p.owner
                                /\ open' = (open \ {p}) \cup {q}
<1>1. p \in [id : PitIds, docs : SUBSET Docs, owner : Scans]
  BY DEF TypeOK
<1>2. [p EXCEPT !.id = answered].id = answered /\ [p EXCEPT !.id = answered].owner = p.owner
  BY <1>1
<1>3. CASE open' = open /\ answered \in {NoPit, p.id}
  BY <1>3
<1>4. CASE /\ answered \in PitIds /\ Fresh(answered)
           /\ open' = (open \ {p}) \cup {[p EXCEPT !.id = answered]}
  <2>1. answered # p.id
    BY <1>4 DEF Fresh
  <2> QED BY <1>2, <1>4, <2>1
<1> QED BY <1>3, <1>4 DEF Answer

-----------------------------------------------------------------------------
(* What a scan's account of its PITs depends on: its own state, that the   *)
(* PITs that appear are not its own, or it is past accounting for them,    *)
(* and that those that disappear are nobody's, another's or excused.       *)
LEMMA AccountKept ==
  ASSUME TypeOK, NEW t \in Scans, Bookkeeping(t), OwnPIT(t),
         token'[t] = token[t], work'[t] = work[t], step'[t] = step[t],
         status'[t] = status[t], excuse'[t] = excuse[t],
         \A p \in open' : p \in open \/
           (Fresh(p.id) /\ (p.owner # t \/ ~ Undisturbed(t) \/ status[t] = "failed")),
         \A p \in open : p \in open' \/ p.owner # t \/ ~ Held(p.id) \/ excuse[t] # {}
                           \/ status[t] # "running"
  PROVE  Bookkeeping(t)' /\ OwnPIT(t)'
<1>1. Bookkeeping(t)'
  BY DEF Bookkeeping, AtRest
<1>2. status[t] = "running" =>
        \A p \in open' : p.id \in {token[t].pit, work[t].pit} => p.owner = t
  BY DEF OwnPIT, Fresh, Held
<1>3. Undisturbed(t) /\ status[t] \notin {"failed", "abandoned"} =>
        \A p \in open' : p.owner = t => p.id = Current(t).pit /\ Current(t).owns
  BY DEF OwnPIT
<1>4. ASSUME status[t] = "running", excuse[t] = {}, ~ Current(t).done, Current(t).pit # NoPit
      PROVE  \E p \in open' : p.id = Current(t).pit
  <2>1. PICK p \in open : p.id = Current(t).pit
    BY <1>4 DEF OwnPIT
  <2>2. p.id \in {token[t].pit, work[t].pit}
    BY <2>1 DEF Current
  <2>3. p.owner = t /\ Held(p.id)
    BY <1>4, <2>2 DEF OwnPIT, Held
  <2> QED BY <1>4, <2>1, <2>3
<1>5. Current(t)' = Current(t) /\ Undisturbed(t)' = Undisturbed(t)
  BY DEF Current, Undisturbed
<1>6. OwnPIT(t)'
  BY <1>2, <1>3, <1>4, <1>5 DEF OwnPIT
<1> QED BY <1>1, <1>6

(* Late requests stay harmless: new PITs take no id they name, and one that *)
(* is added comes from a scan that failed or was disturbed.                *)
LEMMA LateKept ==
  ASSUME Ledger, NEW s \in Scans,
         \A t \in Scans : status[t] = "failed" => status'[t] = "failed",
         \A t \in Scans : ~ Undisturbed(t) => ~ Undisturbed(t)',
         \A p \in open' : p \in open \/ Fresh(p.id),
         \/ late' \subseteq late
         \/ /\ late' \subseteq late \cup {Request(s)} /\ open' \subseteq open
            /\ status[s] = "running"
            /\ status'[s] = "failed" \/ ~ Undisturbed(s)'
  PROVE  \A r \in late' : LateHarmless(r)'
<1>1. ASSUME NEW r \in late PROVE LateHarmless(r)'
  <2>1. LateHarmless(r) /\ r.scan \in Scans
    BY DEF Ledger, TypeOK, LateRequest
  <2>2. ASSUME NEW p \in open', p.id = r.pit PROVE p.owner = r.scan
    BY <2>1, <2>2 DEF LateHarmless, Fresh
  <2> QED BY <2>1, <2>2 DEF LateHarmless
<1>2. ASSUME NEW r, r = Request(s), open' \subseteq open, status[s] = "running",
             status'[s] = "failed" \/ ~ Undisturbed(s)'
      PROVE  LateHarmless(r)'
  <2>1. r.scan = s /\ r.pit = work[s].pit
    BY <1>2 DEF Request
  <2>2. \A p \in open' : p.id = work[s].pit => p.owner = s
    BY <1>2 DEF Ledger, OwnPIT
  <2> QED BY <1>2, <2>1, <2>2 DEF LateHarmless
<1> QED BY <1>1, <1>2

-----------------------------------------------------------------------------
(* One lemma per step of a tick: the scan that takes it accounts for its   *)
(* PITs as before.                                                         *)
LEMMA NewStateOwns ==
  ASSUME TypeOK, NEW s \in Scans, Bookkeeping(s), OwnPIT(s), NewState(s)
  PROVE  Bookkeeping(s)' /\ OwnPIT(s)'
<1>1. PICK null \in BOOLEAN : token' = [token EXCEPT ![s].noInput = null]
  BY DEF NewState
<1>2. /\ status[s] = "unbound" /\ status'[s] = "running"
      /\ step[s] = "idle" /\ token[s] = ZeroState /\ work[s] = ZeroState
      /\ UNCHANGED <<work, step, open, excuse>>
  BY DEF NewState, TypeOK, Bookkeeping, AtRest, ghosts
<1>3. token'[s].pit = NoPit /\ token'[s].done = FALSE /\ token'[s].owns = FALSE
  BY <1>1, <1>2 DEF TypeOK, SearchState, ZeroState
<1>4. Bookkeeping(s)'
  BY <1>2, <1>3 DEF Bookkeeping, AtRest
<1>5. Undisturbed(s) => \A p \in open : p.owner # s
  <2> SUFFICES ASSUME Undisturbed(s), NEW p \in open, p.owner = s PROVE FALSE
    OBVIOUS
  <2>1. p.id = token[s].pit
    BY <1>2 DEF OwnPIT, Current
  <2> QED BY <1>2, <2>1, OpenIds DEF ZeroState
<1>6. \A p \in open : p.id \notin {token'[s].pit, work'[s].pit}
  BY <1>2, <1>3, OpenIds DEF ZeroState
<1>7. OwnPIT(s)'
  BY <1>2, <1>3, <1>5, <1>6 DEF OwnPIT, Current, Undisturbed
<1> QED BY <1>4, <1>7

LEMMA BeginTickOwns ==
  ASSUME TypeOK, NEW s \in Scans, Bookkeeping(s), OwnPIT(s), BeginTick(s)
  PROVE  Bookkeeping(s)' /\ OwnPIT(s)'
<1>1. /\ status[s] = "running" /\ step[s] = "idle" /\ ~ ScanDone(token[s])
      /\ work'[s] = token[s]
      /\ step'[s] = IF token[s].pit = NoPit THEN "open" ELSE "search"
      /\ UNCHANGED <<token, status, open, excuse>>
  BY DEF BeginTick, Between, NeedsPIT, TypeOK, ghosts
<1>2. Bookkeeping(s)'
  BY <1>1 DEF Bookkeeping, AtRest, ScanDone
<1>3. OwnPIT(s)'
  BY <1>1 DEF OwnPIT, Current, Undisturbed
<1> QED BY <1>2, <1>3

LEMMA RestOwns ==
  ASSUME TypeOK, NEW s \in Scans, Bookkeeping(s), OwnPIT(s), Finish(s) \/ Abandon(s)
  PROVE  Bookkeeping(s)' /\ OwnPIT(s)'
<1>1. /\ status[s] = "running" /\ step[s] = "idle"
      /\ (status'[s] = "finished" /\ ScanDone(token[s])) \/ status'[s] = "abandoned"
      /\ UNCHANGED <<token, work, step, open, excuse>>
  BY DEF Finish, Abandon, Between, TypeOK, ghosts
<1>2. Bookkeeping(s)'
  BY <1>1 DEF Bookkeeping, AtRest
<1>3. OwnPIT(s)'
  BY <1>1 DEF OwnPIT, Current, Undisturbed
<1> QED BY <1>2, <1>3

LEMMA OpenPITOwns ==
  ASSUME TypeOK, NEW s \in Scans, Bookkeeping(s), OwnPIT(s), OpenPIT(s)
  PROVE  Bookkeeping(s)' /\ OwnPIT(s)'
<1>1. PICK id \in PitIds :
        /\ Fresh(id)
        /\ open' = open \cup {[id |-> id, docs |-> index, owner |-> s]}
        /\ work' = [work EXCEPT ![s].pit = id, ![s].owns = TRUE]
  BY DEF OpenPIT, Opened
<1>2. /\ step[s] = "open" /\ step'[s] = "search" /\ status[s] = "running"
      /\ token[s].pit = NoPit /\ work[s].pit = NoPit
      /\ UNCHANGED <<token, status, excuse>>
  BY DEF OpenPIT, TypeOK, Bookkeeping, AtRest
<1>3. work'[s].pit = id /\ work'[s].owns = TRUE
      /\ work'[s].done = work[s].done /\ work'[s].noInput = work[s].noInput
  BY <1>1 DEF TypeOK, SearchState
<1>4. Undisturbed(s) => \A p \in open : p.owner # s
  BY <1>2, OpenIds DEF OwnPIT, Current
<1>5. \A p \in open : p.id \notin {NoPit, id}
  BY <1>1, OpenIds DEF Fresh
<1>6. id # NoPit
  BY ScanAssumption
<1>7. Bookkeeping(s)'
  BY <1>2, <1>3, <1>6 DEF Bookkeeping, AtRest
<1>8. OwnPIT(s)'
  <2>1. Current(s)' = work'[s] /\ Undisturbed(s)' = Undisturbed(s)
    BY <1>2 DEF Current, Undisturbed
  <2>2. \A p \in open' : p \in open \/ (p.id = id /\ p.owner = s)
    <3> SUFFICES ASSUME NEW p \in open', p \notin open PROVE p.id = id /\ p.owner = s
      OBVIOUS
    <3>1. p = [id |-> id, docs |-> index, owner |-> s]
      BY <1>1
    <3> QED BY <3>1
  <2>3. \E p \in open' : p.id = id
    <3>1. [id |-> id, docs |-> index, owner |-> s] \in open'
      BY <1>1
    <3>2. [id |-> id, docs |-> index, owner |-> s].id = id
      OBVIOUS
    <3> QED BY <3>1, <3>2
  <2> QED BY <1>2, <1>3, <1>4, <1>5, <2>1, <2>2, <2>3 DEF OwnPIT
<1> QED BY <1>7, <1>8

LEMMA SearchOwns ==
  ASSUME TypeOK, PITsDistinct, NEW s \in Scans, Bookkeeping(s), OwnPIT(s), Search(s)
  PROVE  Bookkeeping(s)' /\ OwnPIT(s)'
<1>0. PICK p \in open, answered \in PitIds \cup {NoPit} :
        p.id = work[s].pit
        /\ \E missed, hits, last : SearchPage(s, p, missed, hits, last, answered)
  BY DEF Search
<1>1. PICK missed, hits, last :
        p.id = work[s].pit /\ SearchPage(s, p, missed, hits, last, answered)
  BY <1>0
<1>2. /\ step[s] = "search" /\ step'[s] \in {"close", "emit"} /\ status[s] = "running"
      /\ work'[s].pit = LatestPit(p.id, answered)
      /\ work'[s].owns = work[s].owns /\ work'[s].done = work[s].done
      /\ work'[s].noInput = work[s].noInput
      /\ UNCHANGED <<token, status, excuse>>
  BY <1>1 DEF Search, SearchPage, TypeOK, SearchState, Bookkeeping, AtRest, ghosts
<1>3. p.owner = s /\ p.id \in PitIds /\ p.id # NoPit
  BY <1>1, <1>2, OpenIds DEF OwnPIT
<1> DEFINE Follows ==
      /\ work'[s].pit \in PitIds
      /\ \E q \in open' : q.id = work'[s].pit
      /\ \A q \in open' : q.owner = s => q.id = work'[s].pit \/ (q \in open /\ q # p)
      /\ \A q \in open' : q.id \in {token[s].pit, work'[s].pit} => q.owner = s
<1>4. Follows
  <2>1. CASE open' = open /\ answered \in {NoPit, p.id}
    <3>1. work'[s].pit = p.id
      BY <1>2, <2>1 DEF LatestPit
    <3> QED BY <1>1, <1>2, <1>3, <2>1, <3>1 DEF OwnPIT
  <2>2. ASSUME Fresh(answered), answered \in PitIds, answered # p.id,
               NEW q \in open', q.id = answered, q.owner = p.owner,
               open' = (open \ {p}) \cup {q}
        PROVE  Follows
    <3>1. work'[s].pit = answered
      BY <1>2, <2>2, ScanAssumption DEF LatestPit
    <3>2. \A o \in open : o.id # answered
      BY <2>2 DEF Fresh
    <3> QED BY <1>2, <1>3, <2>2, <3>1, <3>2 DEF OwnPIT
  <2>3. Answer(s, p, answered)
    BY <1>1 DEF SearchPage
  <2> HIDE DEF Follows
  <2> QED BY <2>1, <2>2, <2>3, Moved
<1>5. Bookkeeping(s)'
  BY <1>2, <1>4, ScanAssumption DEF Bookkeeping, AtRest
<1>6. Undisturbed(s) => work[s].owns /\ \A q \in open : q.owner = s => q = p
  BY <1>1, <1>2, <1>3 DEF OwnPIT, Current, PITsDistinct
<1>7. OwnPIT(s)'
  <2>1. Current(s)' = work'[s] /\ Undisturbed(s)' = Undisturbed(s)
    BY <1>2 DEF Current, Undisturbed
  <2> QED BY <1>2, <1>4, <1>6, <2>1 DEF OwnPIT
<1> QED BY <1>5, <1>7

LEMMA ClosePITOwns ==
  ASSUME TypeOK, NEW s \in Scans, Bookkeeping(s), OwnPIT(s), ClosePIT(s)
  PROVE  Bookkeeping(s)' /\ OwnPIT(s)'
<1>1. /\ step[s] = "close" /\ step'[s] = "emit" /\ status[s] = "running"
      /\ work'[s].pit = work[s].pit /\ work'[s].done = TRUE /\ work'[s].owns = FALSE
      /\ work'[s].noInput = work[s].noInput /\ work[s].pit # NoPit
      /\ UNCHANGED <<token, status>>
  BY DEF ClosePIT, MustClose, TypeOK, SearchState, Bookkeeping, AtRest
<1>2. Bookkeeping(s)'
  BY <1>1 DEF Bookkeeping, AtRest
<1>3. open' \subseteq open
  BY DEF ClosePIT
<1>4. excuse[s] \subseteq excuse'[s]
  BY BlameGrows DEF ClosePIT
<1>5. Undisturbed(s)' => \A p \in open' : p.owner # s
  <2> SUFFICES ASSUME Undisturbed(s)', NEW p \in open', p.owner = s PROVE FALSE
    OBVIOUS
  <2>1. ~ Blame(s, "closeFailed")
    BY BlameGrows DEF Undisturbed
  <2>2. Undisturbed(s)
    BY <1>4 DEF Undisturbed
  <2>3. p.id = work[s].pit /\ work[s].owns
    BY <1>1, <1>3, <2>2 DEF OwnPIT, Current
  <2>4. MustClose(work[s])
    BY <1>1, <2>3 DEF MustClose
  <2> QED BY <2>1, <2>3, <2>4 DEF ClosePIT
<1>6. OwnPIT(s)'
  <2>1. Current(s)' = work'[s]
    BY <1>1 DEF Current
  <2> QED BY <1>1, <1>3, <1>5, <2>1 DEF OwnPIT
<1> QED BY <1>2, <1>6

LEMMA EmitOwns ==
  ASSUME TypeOK, NEW s \in Scans, Bookkeeping(s), OwnPIT(s), Emit(s)
  PROVE  Bookkeeping(s)' /\ OwnPIT(s)'
<1>1. /\ step[s] = "emit" /\ step'[s] = "idle" /\ status[s] = "running"
      /\ token'[s] = work[s] /\ work'[s] = ZeroState
      /\ UNCHANGED <<status, open, excuse>>
  BY DEF Emit, DropTick, TypeOK, Bookkeeping, AtRest
<1>2. Bookkeeping(s)'
  BY <1>1 DEF Bookkeeping, AtRest
<1>3. \A p \in open : p.id \in {work[s].pit, NoPit} => p.owner = s
  BY <1>1, OpenIds DEF OwnPIT
<1>4. OwnPIT(s)'
  BY <1>1, <1>3 DEF OwnPIT, Current, Undisturbed, ZeroState
<1> QED BY <1>2, <1>4

(* A tick that ends in an error, or is lost.                               *)
LEMMA DropOwns ==
  ASSUME TypeOK, NEW s \in Scans, Bookkeeping(s), OwnPIT(s), DropTick(s),
         UNCHANGED <<token, open>>, status[s] = "running",
         \/ status'[s] = "failed" /\ excuse'[s] # {}
         \/ status'[s] = "running" /\ ~ Undisturbed(s)'
  PROVE  Bookkeeping(s)' /\ OwnPIT(s)'
<1>1. work'[s] = ZeroState /\ step'[s] = "idle"
  BY DEF DropTick, TypeOK
<1>2. Bookkeeping(s)'
  BY <1>1 DEF Bookkeeping, AtRest
<1>3. \A p \in open : p.id \in {token[s].pit, NoPit} => p.owner = s
  BY OpenIds DEF OwnPIT
<1>4. ~ Undisturbed(s)' => excuse'[s] # {}
  BY DEF Undisturbed
<1>5. OwnPIT(s)'
  BY <1>1, <1>3, <1>4 DEF OwnPIT, ZeroState
<1> QED BY <1>2, <1>5

-----------------------------------------------------------------------------
(* What the step of one scan does to the excuses and to the ends of all.   *)
LEMMA StepMonotone ==
  ASSUME Ledger, NEW s \in Scans,
         NewState(s) \/ BeginTick(s) \/ Finish(s) \/ OpenPIT(s) \/ OpenPITFails(s)
           \/ Search(s) \/ SearchFails(s) \/ ClosePIT(s) \/ Emit(s) \/ LoseTick(s) \/ Abandon(s)
  PROVE  /\ \A t \in Scans : status[t] = "failed" => status'[t] = "failed"
         /\ \A t \in Scans : ~ Undisturbed(t) => ~ Undisturbed(t)'
         /\ \A t \in Scans \ {s} : excuse'[t] = excuse[t]
         /\ \A t \in Scans \ {s} : status'[t] = status[t]
<1>1. TypeOK /\ (step[s] # "idle" => status[s] = "running")
  BY DEF Ledger, Bookkeeping, AtRest
<1>2. excuse' = excuse \/ \E why : Blame(s, why)
  <2>1. CASE NewState(s) \/ BeginTick(s) \/ Finish(s) \/ OpenPIT(s) \/ Emit(s) \/ Abandon(s)
    BY <2>1 DEF NewState, BeginTick, Finish, OpenPIT, Emit, Abandon, ghosts
  <2>2. CASE Search(s)
    BY <2>2 DEF Search, SearchPage, ghosts
  <2>3. CASE OpenPITFails(s) \/ SearchFails(s) \/ ClosePIT(s) \/ LoseTick(s)
    BY <2>3 DEF OpenPITFails, SearchFails, ClosePIT, LoseTick
  <2> QED BY <2>1, <2>2, <2>3
<1>3. /\ \A t \in Scans \ {s} : status'[t] = status[t]
      /\ status[s] # "failed"
  <2>1. CASE NewState(s) \/ BeginTick(s) \/ Finish(s) \/ OpenPIT(s) \/ Emit(s) \/ Abandon(s)
    BY <1>1, <2>1 DEF NewState, BeginTick, Finish, OpenPIT, Emit, Abandon, Between, TypeOK, ghosts
  <2>2. CASE Search(s)
    BY <1>1, <2>2 DEF Search, SearchPage, ghosts
  <2>3. CASE OpenPITFails(s) \/ SearchFails(s) \/ ClosePIT(s) \/ LoseTick(s)
    BY <1>1, <2>3 DEF OpenPITFails, SearchFails, ClosePIT, LoseTick, FailScan, TypeOK
  <2> QED BY <2>1, <2>2, <2>3
<1>4. \A t \in Scans : excuse[t] \subseteq excuse'[t]
  BY <1>1, <1>2, BlameGrows
<1>5. \A t \in Scans : ~ Undisturbed(t) => ~ Undisturbed(t)'
  BY <1>4 DEF Undisturbed
<1>6. \A t \in Scans \ {s} : excuse'[t] = excuse[t]
  BY <1>1, <1>2, BlameGrows
<1> QED BY <1>3, <1>5, <1>6

(* What the step of one scan does to the PITs: those that appear are its    *)
(* own under fresh ids, those that disappear were its own.                 *)
LEMMA StepTouchesOwn ==
  ASSUME Ledger, NEW s \in Scans,
         NewState(s) \/ BeginTick(s) \/ Finish(s) \/ OpenPIT(s) \/ OpenPITFails(s)
           \/ Search(s) \/ SearchFails(s) \/ ClosePIT(s) \/ Emit(s) \/ LoseTick(s) \/ Abandon(s)
  PROVE  /\ \A p \in open' : p \in open \/ (Fresh(p.id) /\ p.owner = s)
         /\ \A p \in open : p \in open' \/ p.owner = s
<1>1. TypeOK /\ OwnPIT(s) /\ (step[s] # "idle" => status[s] = "running")
  BY DEF Ledger, Bookkeeping, AtRest
<1>2. CASE NewState(s) \/ BeginTick(s) \/ Finish(s) \/ OpenPITFails(s) \/ SearchFails(s)
           \/ Emit(s) \/ LoseTick(s) \/ Abandon(s)
  BY <1>2 DEF NewState, BeginTick, Finish, OpenPITFails, SearchFails, Emit, LoseTick, Abandon
<1>3. CASE OpenPIT(s)
  <2>1. PICK id \in PitIds : Fresh(id) /\ open' = open \cup {[id |-> id, docs |-> index, owner |-> s]}
    BY <1>3 DEF OpenPIT, Opened
  <2> QED BY <2>1
<1>4. CASE Search(s)
  <2>1. PICK p \in open, answered \in PitIds \cup {NoPit} :
          p.id = work[s].pit /\ Answer(s, p, answered)
    BY <1>4 DEF Search, SearchPage
  <2>2. p.owner = s
    BY <1>1, <1>4, <2>1 DEF OwnPIT, Search
  <2> QED BY <1>1, <2>1, <2>2, Moved
<1>5. CASE ClosePIT(s)
  BY <1>1, <1>5 DEF ClosePIT, OwnPIT
<1> QED BY <1>2, <1>3, <1>4, <1>5

(* Ledger: every PIT has one owner, who accounts for it.                   *)
THEOREM PITsAccountedFor == Spec => []Ledger
<1>1. Init => Ledger
  <2> SUFFICES ASSUME Init PROVE Ledger
    OBVIOUS
  <2>1. TypeOK
    BY ZeroStateType, ScanAssumption DEF Init, TypeOK, Steps
  <2>2. ASSUME NEW s \in Scans PROVE Bookkeeping(s) /\ OwnPIT(s)
    BY DEF Init, Bookkeeping, AtRest, OwnPIT, ZeroState
  <2> QED BY <2>1, <2>2 DEF Init, Ledger, PITsDistinct
<1>2. ASSUME TypeOK', Ledger, [Next]_vars PROVE Ledger'
  <2> USE <1>2
  <2>0. TypeOK /\ PITsDistinct /\ \A s \in Scans : Bookkeeping(s) /\ OwnPIT(s)
    BY DEF Ledger
  <2>1. CASE UNCHANGED vars
    <3>1. \A s \in Scans : Bookkeeping(s)' /\ OwnPIT(s)'
      BY <2>0, <2>1, AccountKept DEF vars, ghosts
    <3>2. \A r \in late' : LateHarmless(r)'
      BY <2>1 DEF Ledger, LateHarmless, Undisturbed, vars, ghosts
    <3> QED BY <2>0, <2>1, <3>1, <3>2 DEF Ledger, PITsDistinct, vars
  <2>2. ASSUME NEW s \in Scans,
               NewState(s) \/ BeginTick(s) \/ Finish(s) \/ OpenPIT(s) \/ OpenPITFails(s)
                 \/ Search(s) \/ SearchFails(s) \/ ClosePIT(s) \/ Emit(s) \/ LoseTick(s) \/ Abandon(s)
        PROVE  Ledger'
    <3>1. status[s] = "running" \/ step[s] = "idle"
      BY <2>0 DEF Bookkeeping, AtRest
    <3>2. CASE OpenPITFails(s) \/ SearchFails(s) \/ LoseTick(s)
      <4>1. step[s] # "idle" /\ status[s] = "running"
        BY <3>1, <3>2 DEF OpenPITFails, SearchFails, LoseTick
      <4>2. DropTick(s) /\ UNCHANGED <<token, open>>
            /\ late' \subseteq late \cup {Request(s)}
        BY <3>2 DEF OpenPITFails, SearchFails, LoseTick, FailScan, GiveUp
      <4>3. \/ status'[s] = "failed" /\ excuse'[s] # {}
            \/ status'[s] = "running" /\ ~ Undisturbed(s)'
        <5>1. CASE OpenPITFails(s)
          <6>1. status'[s] = "failed"
            BY <2>0, <5>1 DEF OpenPITFails, FailScan, TypeOK
          <6>2. \E why : Blame(s, why)
            BY <5>1 DEF OpenPITFails
          <6> QED BY <2>0, <6>1, <6>2, BlameGrows
        <5>2. CASE SearchFails(s)
          <6>1. status'[s] = "failed" /\ step[s] = "search"
            BY <2>0, <5>2 DEF SearchFails, FailScan, TypeOK
          <6>2. CASE Blame(s, "transport")
            BY <2>0, <6>1, <6>2, BlameGrows
          <6>3. CASE excuse' = excuse /\ \A p \in open : p.id # work[s].pit
            BY <2>0, <4>1, <6>1, <6>3 DEF OwnPIT, Bookkeeping, Current
          <6> QED BY <5>2, <6>2, <6>3 DEF SearchFails
        <5>3. CASE LoseTick(s)
          BY <2>0, <4>1, <5>3, BlameGrows DEF LoseTick, Undisturbed
        <5> QED BY <3>2, <5>1, <5>2, <5>3
      <4>4. Bookkeeping(s)' /\ OwnPIT(s)'
        BY <2>0, <4>1, <4>2, <4>3, DropOwns
      <4>5. \A r \in late' : LateHarmless(r)'
        BY <2>2, <4>1, <4>2, <4>3, LateKept, StepMonotone
      <4>6. PITsDistinct'
        BY <2>0, <4>2 DEF PITsDistinct
      <4>7. \A t \in Scans \ {s} : Bookkeeping(t)' /\ OwnPIT(t)'
        <5>1. \A t \in Scans \ {s} : token'[t] = token[t] /\ work'[t] = work[t] /\ step'[t] = step[t]
          BY <2>0, <4>2 DEF DropTick, TypeOK
        <5> QED BY <2>0, <2>2, <4>2, <5>1, AccountKept, StepMonotone
      <4> QED BY <4>4, <4>5, <4>6, <4>7 DEF Ledger
    <3>3. CASE NewState(s) \/ BeginTick(s) \/ Finish(s) \/ OpenPIT(s)
               \/ Search(s) \/ ClosePIT(s) \/ Emit(s) \/ Abandon(s)
      <4>1. Bookkeeping(s)' /\ OwnPIT(s)'
        BY <2>0, <3>3, NewStateOwns, BeginTickOwns, RestOwns, OpenPITOwns, SearchOwns,
           ClosePITOwns, EmitOwns
      <4>2. \A t \in Scans \ {s} : token'[t] = token[t] /\ work'[t] = work[t] /\ step'[t] = step[t]
        <5>1. CASE NewState(s) \/ BeginTick(s) \/ Finish(s) \/ OpenPIT(s) \/ ClosePIT(s) \/ Abandon(s)
          BY <2>0, <5>1 DEF TypeOK, NewState, BeginTick, Finish, OpenPIT, ClosePIT, Abandon, ghosts
        <5>2. CASE Search(s)
          BY <2>0, <5>2 DEF TypeOK, Search, SearchPage, ghosts
        <5>3. CASE Emit(s)
          BY <2>0, <5>3 DEF TypeOK, Emit, DropTick
        <5> QED BY <3>3, <5>1, <5>2, <5>3
      <4>3. \A t \in Scans \ {s} : Bookkeeping(t)' /\ OwnPIT(t)'
        BY <2>0, <2>2, <4>2, AccountKept, StepMonotone, StepTouchesOwn
      <4>4. \A r \in late' : LateHarmless(r)'
        <5>1. CASE late' = late
          BY <2>2, <5>1, LateKept, StepMonotone, StepTouchesOwn
        <5>2. CASE late' # late
          <6>1. ClosePIT(s)
            BY <3>3, <5>2 DEF NewState, BeginTick, Finish, OpenPIT, Search, SearchPage, Emit, Abandon
          <6>2. /\ late' \subseteq late \cup {Request(s)} /\ open' \subseteq open
                /\ Blame(s, "closeFailed") /\ status[s] = "running"
            BY <3>1, <5>2, <6>1 DEF ClosePIT, GiveUp
          <6>3. ~ Undisturbed(s)'
            BY <2>0, <6>2, BlameGrows DEF Undisturbed
          <6> QED BY <2>2, <6>2, <6>3, LateKept, StepMonotone
        <5> QED BY <5>1, <5>2
      <4>5. PITsDistinct'
        <5>1. CASE Search(s)
          BY <2>0, <5>1, PITsStayDistinct DEF Search, SearchPage, Answer
        <5>2. CASE OpenPIT(s)
          BY <2>0, <5>2, PITsStayDistinct DEF OpenPIT
        <5>3. CASE ~ (Search(s) \/ OpenPIT(s))
          <6>1. open' \subseteq open
            BY <3>3, <5>3 DEF NewState, BeginTick, Finish, ClosePIT, Emit, Abandon
          <6> QED BY <6>1 , <2>0 DEF PITsDistinct
        <5> QED BY <5>1, <5>2, <5>3
      <4> QED BY <4>1, <4>3, <4>4, <4>5 DEF Ledger
    <3> QED BY <2>2, <3>2, <3>3
  <2>3. ASSUME NEW p \in open, Expire(p) PROVE Ledger'
    <3>1. /\ open' = open \ {p} /\ late' = late
          /\ UNCHANGED <<token, work, step, status>>
          /\ p.owner \in Scans
      BY <2>0, <2>3 DEF Expire, TypeOK
    <3>2. \A t \in Scans : 
          \/ excuse'[t] = excuse[t]
          \/ Held(p.id) /\ t = p.owner /\ excuse'[t] = excuse[t] \cup {"expired"}
      BY <2>0, <2>3, <3>1, BlameGrows DEF Expire
    <3>3. ASSUME NEW t \in Scans PROVE Bookkeeping(t)' /\ OwnPIT(t)'
      <4>1. CASE excuse'[t] = excuse[t] /\ (~ Held(p.id) \/ p.owner # t)
        BY <2>0, <3>1, <4>1, AccountKept
      <4>2. CASE Held(p.id) /\ p.owner = t
        <5>1. excuse'[t] = excuse[t] \cup {"expired"}
          BY <2>0, <2>3, <4>2, <3>1, BlameGrows DEF Expire
        <5>2. Undisturbed(t)' = Undisturbed(t) /\ Current(t)' = Current(t)
          BY <3>1, <5>1 DEF Undisturbed, Current
        <5>3. Bookkeeping(t)'
          BY <2>0, <3>1 DEF Bookkeeping, AtRest
        <5>4. OwnPIT(t)'
          BY <2>0, <3>1, <5>1, <5>2 DEF OwnPIT
        <5> QED BY <5>3, <5>4
      <4> QED BY <3>2, <4>1, <4>2
    <3>4. \A r \in late' : LateHarmless(r)'
      <4>1. \A t \in Scans : ~ Undisturbed(t) => ~ Undisturbed(t)'
        BY <3>2 DEF Undisturbed
      <4> QED BY <3>1, <4>1, LateKept
    <3> QED BY <2>0, <3>1, <3>3, <3>4 DEF Ledger, PITsDistinct
  <2>4. ASSUME NEW d \in Docs, IndexDoc(d) \/ DeleteDoc(d) PROVE Ledger'
    <3>1. UNCHANGED <<token, work, step, status, open, late, excuse>>
      BY <2>4 DEF IndexDoc, DeleteDoc, ghosts
    <3>2. \A s \in Scans : Bookkeeping(s)' /\ OwnPIT(s)'
      BY <2>0, <3>1, AccountKept
    <3>3. \A r \in late' : LateHarmless(r)'
      BY <3>1 DEF Ledger, LateHarmless, Undisturbed
    <3> QED BY <2>0, <3>1, <3>2, <3>3 DEF Ledger, PITsDistinct
  <2>5. ASSUME NEW r \in late, CarryOut(r) PROVE Ledger'
    <3>1. /\ r.scan \in Scans /\ LateHarmless(r)
          /\ UNCHANGED <<token, work, step, status, excuse>> /\ late' \subseteq late
      BY <2>0, <2>5 DEF Ledger, TypeOK, LateRequest, CarryOut, ghosts
    <3>2. /\ \A p \in open' : p \in open \/ (Fresh(p.id) /\ p.owner = r.scan)
          /\ \A p \in open : p \in open' \/ p.owner = r.scan
      <4>1. CASE open' = open
        BY <4>1
      <4>2. ASSUME NEW id \in PitIds, Fresh(id), Opened(id, r.scan) PROVE <3>2
        BY <4>2 DEF Opened
      <4>3. ASSUME NEW p \in open, NEW id \in PitIds, p.id = r.pit, Answer(r.scan, p, id)
            PROVE  <3>2
        BY <2>0, <3>1, <4>3, Moved DEF LateHarmless
      <4>4. CASE open' = {p \in open : p.id # r.pit}
        BY <3>1, <4>4 DEF LateHarmless
      <4> QED BY <2>5, <4>1, <4>2, <4>3, <4>4 DEF CarryOut
    <3>3. ASSUME NEW t \in Scans PROVE Bookkeeping(t)' /\ OwnPIT(t)'
      <4>1. t = r.scan => ~ Undisturbed(t) \/ status[t] = "failed"
        BY <3>1 DEF LateHarmless
      <4>2. ~ Undisturbed(t) => excuse[t] # {}
        BY DEF Undisturbed
      <4> QED BY <2>0, <3>1, <3>2, <4>1, <4>2, AccountKept
    <3>4. \A q \in late' : LateHarmless(q)'
      <4>1. \A t \in Scans : Undisturbed(t)' = Undisturbed(t)
        BY <3>1 DEF Undisturbed
      <4> QED BY <3>1, <3>2, <4>1, LateKept
    <3>5. PITsDistinct'
      BY <2>0, <2>5, <3>1, PITsStayDistinct DEF CarryOut, Answer
    <3> QED BY <3>3, <3>4, <3>5 DEF Ledger
  <2> QED BY <2>1, <2>2, <2>3, <2>4, <2>5, NextCases
<1> QED BY <1>1, <1>2, TypeCorrect, PTL DEF Spec

(* LeaksExcused: every PIT is held by its scan, or left over by a scan that *)
(* failed, was abandoned or was disturbed.                                 *)
THEOREM LeaksAreExcused == Spec => []LeaksExcused
<1>1. Ledger => LeaksExcused
  <2> SUFFICES ASSUME Ledger, NEW p \in open, Undisturbed(p.owner),
                      status[p.owner] \notin {"failed", "abandoned"}
               PROVE  Held(p.id)
    BY DEF LeaksExcused, Undisturbed
  <2> DEFINE s == p.owner
  <2>1. s \in Scans /\ p.id # NoPit
    BY OpenIds DEF Ledger
  <2>2. Bookkeeping(s) /\ TypeOK /\ p.id = Current(s).pit /\ Current(s).owns
    BY <2>1 DEF Ledger, OwnPIT
  <2>3. status[s] # "unbound"
    BY <2>1, <2>2 DEF Bookkeeping, AtRest, Current, ZeroState
  <2>4. status[s] # "finished"
    BY <2>1, <2>2 DEF Bookkeeping, AtRest, Current, ScanDone
  <2>5. status[s] = "running"
    BY <2>1, <2>2, <2>3, <2>4 DEF TypeOK
  <2> QED BY <2>1, <2>2, <2>5 DEF Held, Current
<1> QED BY <1>1, PITsAccountedFor, PTL

(* OnlyExcusedFailures: no scan fails by its own bookkeeping.              *)
THEOREM FailuresAreExcused == Spec => []OnlyExcusedFailures
<1>1. Ledger => OnlyExcusedFailures
  BY DEF Ledger, OwnPIT, OnlyExcusedFailures
<1> QED BY <1>1, PITsAccountedFor, PTL

-----------------------------------------------------------------------------
(* A cursor splits a snapshot in order: what it leaves to read follows     *)
(* what it does not.                                                       *)
LEMMA CursorSplits ==
  ASSUME ExactSortValues, NEW snap \in SUBSET Docs,
         NEW cursor \in {NoCursor} \cup {SortArray(d) : d \in Docs},
         NEW d \in After(snap, cursor), NEW e \in snap \ After(snap, cursor)
  PROVE  Precedes(SortArray(e), SortArray(d))
<1>1. PICK c \in Docs : cursor = SortArray(c) /\ cursor # NoCursor
  BY DEF After
<1>2. After(snap, cursor) = {x \in snap : Precedes(SortArray(c), SortArray(x))}
  BY <1>1, CursorSurvives DEF After, ExactSortValues
<1>3. d \in Docs /\ e \in Docs
  BY <1>2
<1>4. Precedes(SortArray(c), SortArray(d)) /\ ~ Precedes(SortArray(c), SortArray(e))
  BY <1>2
<1>5. CASE SortArray(e) = SortArray(c)
  BY <1>4, <1>5
<1>6. CASE SortArray(e) # SortArray(c)
  <2>1. Precedes(SortArray(e), SortArray(c))
    BY <1>1, <1>3, <1>4, <1>6, SortArrayType, PrecedesTotal
  <2> QED BY <1>1, <1>3, <1>4, <2>1, SortArrayType, PrecedesTransitive
<1> QED BY <1>5, <1>6

(* Only the last step of a tick returns rows, and only its own scan's.     *)
LEMMA OnlyEmitReturns ==
  ASSUME TypeOK, [Next]_vars
  PROVE  rows' = rows \/ \E s \in Scans : Emit(s)
<1>1. CASE UNCHANGED vars
  BY <1>1 DEF vars, ghosts
<1>2. ASSUME NEW s \in Scans,
             NewState(s) \/ BeginTick(s) \/ Finish(s) \/ OpenPIT(s) \/ OpenPITFails(s)
               \/ SearchFails(s) \/ ClosePIT(s) \/ LoseTick(s) \/ Abandon(s)
      PROVE  rows' = rows
  BY <1>2 DEF NewState, BeginTick, Finish, OpenPIT, OpenPITFails, SearchFails, ClosePIT,
              LoseTick, Abandon, ghosts
<1>3. ASSUME NEW s \in Scans, Search(s) PROVE rows' = rows
  BY <1>3 DEF Search, SearchPage, ghosts
<1>4. ASSUME NEW p \in open, Expire(p) PROVE rows' = rows
  BY <1>4 DEF Expire
<1>5. ASSUME NEW r \in late, CarryOut(r) PROVE rows' = rows
  BY <1>5 DEF CarryOut, ghosts
<1>6. ASSUME NEW d \in Docs, IndexDoc(d) \/ DeleteDoc(d) PROVE rows' = rows
  BY <1>6 DEF IndexDoc, DeleteDoc, ghosts
<1> QED BY <1>1, <1>2, <1>3, <1>4, <1>5, <1>6, NextCases

(* What the last step of a coherent tick finds and leaves.                 *)
LEMMA EmitShape ==
  ASSUME IInv, NEW s \in Scans, Emit(s)
  PROVE  /\ status[s] = "running" /\ s \in pinned
         /\ token[s].sort \in {NoCursor} \cup {SortArray(d) : d \in Docs}
         /\ work[s].sort \in {NoCursor} \cup {SortArray(d) : d \in Docs}
         /\ view[s] \in SUBSET Docs
         /\ page[s] \subseteq After(view[s], token[s].sort)
         /\ After(view[s], work[s].sort) = After(view[s], token[s].sort) \ page[s]
         /\ rows[s] = Once(view[s] \ After(view[s], token[s].sort))
<1>1. TypeOK /\ Coherent(s) /\ step[s] = "emit"
  BY DEF IInv, Emit
<1>2. token[s].pit = NoPit => token[s].sort = NoCursor
  BY <1>1 DEF Coherent, TokenShape
<1>3. ReadSoFar(s) = view[s] \ After(view[s], token[s].sort)
  BY <1>2 DEF ReadSoFar, After
<1> QED BY <1>1, <1>3 DEF Coherent, AtRest, TickShape, TypeOK, SearchState

(* PagesInOrder: the rows of a tick follow those of all ticks before.      *)
THEOREM RowsComeInOrder ==
  ASSUME OneIndex, ExactSortValues, NoPartialResults
  PROVE  Spec => PagesInOrder
<1>1. ASSUME IInv, [Next]_vars,
             NEW s \in Scans, NEW d \in Docs, NEW e \in Docs, rows'[s][d] > rows[s][d], rows[s][e] > 0
      PROVE  Precedes(SortArray(e), SortArray(d))
  <2>1. TypeOK
    BY <1>1 DEF IInv
  <2>2. PICK t \in Scans : Emit(t)
    BY <1>1, <2>1, OnlyEmitReturns DEF TypeOK
  <2>3. t = s /\ d \in page[s]
    BY <1>1, <2>1, <2>2 DEF Emit, TypeOK
  <2>4. e \in view[s] \ After(view[s], token[s].sort)
    <3>1. rows[s] = Once(view[s] \ After(view[s], token[s].sort))
      BY <1>1, <2>2, <2>3, EmitShape
    <3> QED BY <1>1, <3>1 DEF Once
  <2> QED BY <1>1, <2>2, <2>3, <2>4, EmitShape, CursorSplits
<1>2. IInv /\ [Next]_vars =>
        [\A s \in Scans : \A d, e \in Docs :
           rows'[s][d] > rows[s][d] /\ rows[s][e] > 0 => Precedes(SortArray(e), SortArray(d))]_vars
  BY <1>1
<1> QED BY <1>2, ScansCoherent, PTL DEF Spec, PagesInOrder

-----------------------------------------------------------------------------
(* The abstract phases.                                                    *)
LEMMA PhaseKept ==
  ASSUME \A s \in Scans : PhaseOf(s)' = PhaseOf(s)
  PROVE  [s \in Scans |-> PhaseOf(s)]' = [s \in Scans |-> PhaseOf(s)]
OBVIOUS

LEMMA PhaseSet ==
  ASSUME NEW t \in Scans, NEW p, PhaseOf(t)' = p, \A s \in Scans \ {t} : PhaseOf(s)' = PhaseOf(s)
  PROVE  [s \in Scans |-> PhaseOf(s)]' = [[s \in Scans |-> PhaseOf(s)] EXCEPT ![t] = p]
OBVIOUS

(* A step that keeps status, token, pins, index, views and rows is none of *)
(* the abstract specification's.                                           *)
LEMMA Stutter ==
  ASSUME \A s \in Scans : PhaseOf(s)' = PhaseOf(s), UNCHANGED <<index, view, rows>>
  PROVE  UNCHANGED Promise!vars
BY PhaseKept DEF Promise!vars

(* The first answer of a tick that opened a PIT pins the snapshot.         *)
LEMMA OpenPITPins ==
  ASSUME IInv, Ledger, NEW s \in Scans, OpenPIT(s)
  PROVE  Promise!Pin(s)
<1>1. /\ TypeOK /\ Coherent(s) /\ Bookkeeping(s) /\ step[s] = "open"
      /\ view' = [view EXCEPT ![s] = index] /\ pinned' = pinned \cup {s}
      /\ UNCHANGED <<token, status, index, rows>>
  BY DEF IInv, Ledger, OpenPIT
<1>2. status[s] = "running" /\ ~ token[s].noInput /\ token[s].pit = NoPit
  BY <1>1 DEF Bookkeeping, AtRest
<1>3. PhaseOf(s) \in {"started", "reading"} /\ PhaseOf(s)' = "reading"
  BY <1>1, <1>2 DEF PhaseOf
<1>4. \A t \in Scans \ {s} : PhaseOf(t)' = PhaseOf(t)
  BY <1>1 DEF PhaseOf
<1>5. rows[s] = Promise!Once({})
  BY <1>1, <1>2 DEF Coherent, ReadSoFar, Once, Promise!Once
<1> QED BY <1>1, <1>3, <1>4, <1>5, PhaseSet DEF Promise!Pin

(* The abstract specification sorts by the same order.                     *)
LEMMA SameOrder ==
  /\ \A d : Promise!SortArray(d) = SortArray(d)
  /\ \A a, b : Promise!Precedes(a, b) = Precedes(a, b)
<1>1. Promise!Order = Order
  BY DEF Promise!Order, Order, Promise!SortToDSL, SortToDSL, Promise!ParseSortSpec, ParseSortSpec,
         Promise!IdTiebreaker, IdTiebreaker
<1>2. \A d, key : Promise!SortValue(d, key) = SortValue(d, key)
  BY DEF Promise!SortValue, SortValue
<1>3. \A d : Promise!SortArray(d) = SortArray(d)
  BY <1>1, <1>2 DEF Promise!SortArray, SortArray
<1>4. \A a, b : Promise!Precedes(a, b) = Precedes(a, b)
  BY <1>1 DEF Promise!Precedes, Precedes, Promise!KeyBefore, KeyBefore
<1> QED BY <1>3, <1>4

(* The last step of a tick delivers its page.                              *)
LEMMA EmitDelivers ==
  ASSUME IInv, Ledger, ExactSortValues, NEW s \in Scans, Emit(s)
  PROVE  Promise!Deliver(s)
<1>1. /\ TypeOK /\ Bookkeeping(s) /\ step[s] = "emit"
      /\ token' = [token EXCEPT ![s] = work[s]]
      /\ rows' = [rows EXCEPT ![s] = [d \in Docs |-> IF d \in page[s] THEN @[d] + 1 ELSE @[d]]]
      /\ UNCHANGED <<status, index, view, pinned>>
  BY DEF IInv, Ledger, Emit
<1>2. /\ status[s] = "running" /\ s \in pinned /\ view[s] \in SUBSET Docs
      /\ page[s] \subseteq After(view[s], token[s].sort)
      /\ After(view[s], work[s].sort) = After(view[s], token[s].sort) \ page[s]
      /\ rows[s] = Once(view[s] \ After(view[s], token[s].sort))
      /\ work[s].sort \in {NoCursor} \cup {SortArray(d) : d \in Docs}
  BY EmitShape
<1>3. ~ token[s].noInput /\ ~ work[s].noInput
  BY <1>1 DEF Bookkeeping
<1>4. PhaseOf(s) = "reading" /\ \A t \in Scans : PhaseOf(t)' = PhaseOf(t)
  BY <1>1, <1>2, <1>3 DEF PhaseOf, TypeOK
<1>5. Promise!Unread(s) = After(view[s], token[s].sort)
  BY <1>2 DEF Promise!Unread, Once, After
<1>6. page[s] \in SUBSET Promise!Unread(s)
  BY <1>2, <1>5
<1>7. \A d \in page[s], e \in Promise!Unread(s) \ page[s] : Precedes(SortArray(d), SortArray(e))
  <2> SUFFICES ASSUME NEW d \in page[s], NEW e \in Promise!Unread(s) \ page[s]
               PROVE  Precedes(SortArray(d), SortArray(e))
    OBVIOUS
  <2>1. e \in After(view[s], work[s].sort)
    BY <1>2, <1>5
  <2>2. d \in view[s] \ After(view[s], work[s].sort)
    BY <1>2 DEF After
  <2> QED BY <1>2, <2>1, <2>2, CursorSplits
<1>8. rows' = [rows EXCEPT ![s] = [d \in Docs |-> IF d \in page[s] THEN 1 ELSE @[d]]]
  <2>1. \A d \in page[s] : d \in Docs /\ rows[s][d] = 0
    BY <1>2 DEF Once, After
  <2>2. [d \in Docs |-> IF d \in page[s] THEN rows[s][d] + 1 ELSE rows[s][d]]
        = [d \in Docs |-> IF d \in page[s] THEN 1 ELSE rows[s][d]]
    BY <2>1
  <2> QED BY <1>1, <2>2 DEF TypeOK
<1>9. \A d \in page[s], e \in Promise!Unread(s) \ page[s] :
         Promise!Precedes(Promise!SortArray(d), Promise!SortArray(e))
  BY <1>7, SameOrder
<1> QED BY <1>1, <1>4, <1>6, <1>8, <1>9, PhaseKept DEF Promise!Deliver

(* ImplementsPromise: scans implement SnapshotScan.                        *)
THEOREM ScansKeepThePromise ==
  ASSUME OneIndex, ExactSortValues, NoPartialResults
  PROVE  Spec => ImplementsPromise
<1>1. Init => Promise!Init
  BY DEF Init, PhaseOf, Once, Promise!Init, Promise!Once
<1>2. ASSUME IInv, Ledger, [Next]_vars PROVE [Promise!Next]_Promise!vars
  <2> USE <1>2
  <2>0. TypeOK /\ \A s \in Scans : Coherent(s) /\ Bookkeeping(s)
    BY DEF IInv, Ledger
  <2>1. CASE UNCHANGED vars
    BY <2>1, Stutter DEF vars, ghosts, PhaseOf
  <2>2. ASSUME NEW s \in Scans, NewState(s) PROVE Promise!Start(s)
    <3>1. /\ status[s] = "unbound" /\ s \notin pinned /\ status' = [status EXCEPT ![s] = "running"]
          /\ UNCHANGED <<index, view, rows, pinned>>
      BY <2>0, <2>2 DEF NewState, ghosts, Coherent, TokenShape
    <3>2. PICK null \in BOOLEAN : token' = [token EXCEPT ![s].noInput = null]
      BY <2>2 DEF NewState
    <3>3. token'[s].noInput = null /\ \A t \in Scans \ {s} : token'[t] = token[t]
      BY <2>0, <3>2 DEF TypeOK, SearchState
    <3>4. PhaseOf(s) = "unbound" /\ PhaseOf(s)' = IF null THEN "null" ELSE "started"
      BY <2>0, <3>1, <3>3 DEF PhaseOf, TypeOK
    <3>5. \A t \in Scans \ {s} : PhaseOf(t)' = PhaseOf(t)
      BY <2>0, <3>1, <3>3 DEF PhaseOf, TypeOK
    <3>6. \E p \in {"started", "null"} :
            [t \in Scans |-> PhaseOf(t)]' = [[t \in Scans |-> PhaseOf(t)] EXCEPT ![s] = p]
      BY <3>4, <3>5, PhaseSet
    <3> QED BY <3>1, <3>4, <3>6 DEF Promise!Start
  <2>3. ASSUME NEW s \in Scans, BeginTick(s) \/ ClosePIT(s) \/ LoseTick(s) PROVE UNCHANGED Promise!vars
    BY <2>3, Stutter DEF BeginTick, ClosePIT, LoseTick, ghosts, PhaseOf
  <2>4. ASSUME NEW s \in Scans, Finish(s) PROVE Promise!Finish(s)
    <3>1. /\ status[s] = "running" /\ ScanDone(token[s])
          /\ status' = [status EXCEPT ![s] = "finished"]
          /\ UNCHANGED <<token, index, view, rows, pinned>>
      BY <2>4 DEF Finish, Between, ghosts
    <3>2. PhaseOf(s) = "null" \/ (PhaseOf(s) = "reading" /\ rows[s] = Promise!Once(view[s]))
      <4>1. CASE token[s].noInput
        BY <3>1, <4>1 DEF PhaseOf
      <4>2. CASE ~ token[s].noInput
        <5>1. token[s].done /\ token[s].pit # NoPit /\ s \in pinned
              /\ After(view[s], token[s].sort) = {}
          BY <2>0, <3>1, <4>2 DEF Coherent, TokenShape, ScanDone
        <5>2. rows[s] = Once(view[s])
          BY <2>0, <5>1 DEF Coherent, ReadSoFar
        <5> QED BY <3>1, <4>2, <5>1, <5>2 DEF PhaseOf, Once, Promise!Once
      <4> QED BY <4>1, <4>2
    <3>3. PhaseOf(s)' = "finished" /\ \A t \in Scans \ {s} : PhaseOf(t)' = PhaseOf(t)
      BY <2>0, <3>1 DEF PhaseOf, TypeOK
    <3> QED BY <3>1, <3>2, <3>3, PhaseSet DEF Promise!Finish
  <2>5. ASSUME NEW s \in Scans, OpenPITFails(s) \/ SearchFails(s) \/ Abandon(s) PROVE Promise!Stop(s)
    <3>1. PICK end \in {"failed", "abandoned"} : status' = [status EXCEPT ![s] = end]
      BY <2>5 DEF OpenPITFails, SearchFails, Abandon, FailScan
    <3>2. status[s] = "running" /\ UNCHANGED <<token, index, view, rows, pinned>>
      BY <2>0, <2>5 DEF OpenPITFails, SearchFails, Abandon, Between, Bookkeeping, AtRest, ghosts
    <3>3. PhaseOf(s) \in {"started", "null", "reading"}
      BY <3>2 DEF PhaseOf
    <3>4. PhaseOf(s)' = end /\ \A t \in Scans \ {s} : PhaseOf(t)' = PhaseOf(t)
      BY <2>0, <3>1, <3>2 DEF PhaseOf, TypeOK
    <3> QED BY <3>1, <3>2, <3>3, <3>4, PhaseSet DEF Promise!Stop
  <2>6. ASSUME NEW s \in Scans, Search(s) PROVE UNCHANGED Promise!vars
    BY <2>6, Stutter DEF Search, SearchPage, ghosts, PhaseOf
  <2>7. ASSUME NEW p \in open, Expire(p) PROVE UNCHANGED Promise!vars
    BY <2>7, Stutter DEF Expire, PhaseOf
  <2>8. ASSUME NEW r \in late, CarryOut(r) PROVE UNCHANGED Promise!vars
    BY <2>8, Stutter DEF CarryOut, ghosts, PhaseOf
  <2>9. ASSUME NEW d \in Docs, IndexDoc(d) \/ DeleteDoc(d) PROVE Promise!Write
    <3>1. index' \in SUBSET Docs
      BY <2>0, <2>9 DEF IndexDoc, DeleteDoc, TypeOK
    <3>2. UNCHANGED <<token, status, view, rows, pinned>>
      BY <2>9 DEF IndexDoc, DeleteDoc, ghosts
    <3>3. \A t \in Scans : PhaseOf(t)' = PhaseOf(t)
      BY <3>2 DEF PhaseOf
    <3> QED BY <3>1, <3>2, <3>3, PhaseKept DEF Promise!Write
  <2> QED BY <2>1, <2>2, <2>3, <2>4, <2>5, <2>6, <2>7, <2>8, <2>9, OpenPITPins, EmitDelivers,
             NextCases DEF Promise!Next
<1>3. Spec => Promise!Spec
  BY <1>1, <1>2, ScansCoherent, PITsAccountedFor, PTL DEF Spec, Promise!Spec
<1> QED BY <1>3 DEF ImplementsPromise
=============================================================================
