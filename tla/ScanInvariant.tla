---------------------------- MODULE ScanInvariant ----------------------------
(***************************************************************************)
(* The inductive invariants behind the safety properties: what holds at    *)
(* every step of a tick, not only between ticks.  IInv is about what a     *)
(* scan has read; Ledger, which needs no assumption on orders or values,   *)
(* about whose the PITs are.                                               *)
(***************************************************************************)
EXTENDS Scan

(* A scan at rest has no worker copy; one that is not running is at rest.  *)
AtRest(s) ==
  /\ step[s] = "idle" => work[s] = ZeroState
  /\ status[s] # "running" => step[s] = "idle"

(* A token without a PIT is that of a scan that has read nothing.          *)
TokenShape(s) ==
  /\ status[s] = "unbound" => token[s] = ZeroState /\ s \notin pinned
  /\ token[s].pit = NoPit => token[s].sort = NoCursor /\ ~ token[s].done
  /\ token[s].pit # NoPit => s \in pinned
  /\ token[s].done => After(view[s], token[s].sort) = {}
  /\ status[s] = "finished" => ScanDone(token[s])

(* What the tick has done so far with its copy of the token.               *)
TickShape(s) ==
  /\ step[s] = "open" => work[s] = token[s] /\ token[s].pit = NoPit
  /\ step[s] = "search" =>
       /\ work[s].pit # NoPit /\ s \in pinned
       /\ work[s].sort = token[s].sort /\ ~ work[s].done
  /\ step[s] \in {"close", "emit"} =>
       /\ work[s].pit # NoPit /\ s \in pinned
       /\ page[s] \subseteq After(view[s], token[s].sort)
       /\ After(view[s], work[s].sort) = After(view[s], token[s].sort) \ page[s]
  /\ step[s] = "close" \/ work[s].done => After(view[s], work[s].sort) = {}

(* The PIT a running scan refers to, if it is there, holds its snapshot.   *)
PITHoldsView(s) ==
  status[s] = "running" =>
    \A p \in open : p.id \in {token[s].pit, work[s].pit} => p.docs = view[s]

PITsDistinct == \A p, q \in open : p.id = q.id => p = q

(* A scan's token, tick and PIT agree on the snapshot and on what has been *)
(* read of it, and so do the rows.                                         *)
Coherent(s) ==
  /\ AtRest(s)
  /\ TokenShape(s)
  /\ TickShape(s)
  /\ PITHoldsView(s)
  /\ IsIndex(view[s])
  /\ rows[s] = Once(ReadSoFar(s))

(* The inductive invariant: every scan is coherent at every step, not only *)
(* between ticks.                                                          *)
IInv == TypeOK /\ PITsDistinct /\ \A s \in Scans : Coherent(s)

-----------------------------------------------------------------------------
(* The state in force: the worker's copy during a tick, else the token.    *)
Current(s) == IF step[s] = "idle" THEN token[s] ELSE work[s]

(* No DELETE of the scan failed, and no answer to it was lost.             *)
Undisturbed(s) == excuse[s] \cap {"closeFailed", "lost"} = {}

(* Where the fields of a searchState stand against one another.            *)
Bookkeeping(s) ==
  /\ AtRest(s)
  /\ status[s] = "unbound" => token[s] = ZeroState
  /\ status[s] = "finished" => ScanDone(token[s])
  /\ token[s].noInput => token[s].pit = NoPit
  /\ token[s].done => ~ token[s].owns
  /\ step[s] # "idle" => /\ ~ token[s].noInput /\ ~ work[s].noInput
                         /\ work[s].done => ~ work[s].owns
  /\ step[s] = "open" => token[s].pit = NoPit /\ work[s].pit = NoPit
  /\ step[s] \in {"search", "close"} => work[s].pit # NoPit
  /\ step[s] \in {"open", "search"} => ~ work[s].done

(* A PIT a running scan refers to is its own; undisturbed, it has no other  *)
(* and means to close this one; and nothing but a fault takes it away.     *)
OwnPIT(s) ==
  /\ status[s] = "running" =>
       \A p \in open : p.id \in {token[s].pit, work[s].pit} => p.owner = s
  /\ Undisturbed(s) /\ status[s] \notin {"failed", "abandoned"} =>
       \A p \in open : p.owner = s => p.id = Current(s).pit /\ Current(s).owns
  /\ status[s] = "running" /\ excuse[s] = {} /\ ~ Current(s).done /\ Current(s).pit # NoPit =>
       \E p \in open : p.id = Current(s).pit
  /\ status[s] = "failed" => excuse[s] # {}

(* A late request is that of a scan that failed or was disturbed, and can  *)
(* do no harm to a PIT of another.                                         *)
LateHarmless(r) ==
  /\ status[r.scan] # "failed" => ~ Undisturbed(r.scan)
  /\ \A p \in open : p.id = r.pit => p.owner = r.scan

(* The inductive invariant about PITs: each has one owner, who accounts    *)
(* for it.                                                                 *)
Ledger ==
  /\ TypeOK /\ PITsDistinct
  /\ \A s \in Scans : Bookkeeping(s) /\ OwnPIT(s)
  /\ \A r \in late : LateHarmless(r)
=============================================================================
