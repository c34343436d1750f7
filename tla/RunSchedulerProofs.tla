------------------------- MODULE RunSchedulerProofs -------------------------
(***************************************************************************)
(* Theorems about RunScheduler for any number of daemons, Runs, approvals  *)
(* and commands and for any bounds.                                        *)
(***************************************************************************)
EXTENDS RunScheduler, TLAPS

(* What a transaction that is not about the lease leaves alone: the lease, *)
(* the claim on the continuation, and a continuation that is pending.      *)
SameClaim(row, new) ==
  /\ new.holder = row.holder /\ new.gen = row.gen /\ new.live = row.live
  /\ new.by = row.by /\ new.epoch = row.epoch
  /\ new.act = "claimed" <=> row.act = "claimed"
  /\ row.act = "pending" => new.act = "pending"

(* transitionRunInternal writes a status of the lifecycle and touches      *)
(* neither lease nor claim.                                                *)
LEMMA SetStatusRow ==
  ASSUME NEW row \in Row, NEW to \in RunStatus, NEW why \in Reasons
  PROVE  /\ SetStatus(row, to, why) \in Row
         /\ SameClaim(row, SetStatus(row, to, why))
  BY DEF SetStatus, Row, SameClaim

(* ensureContinuationInternal inserts a pending row or nothing. *)
LEMMA EnsureContinuationRow ==
  ASSUME NEW row \in Row
  PROVE  /\ EnsureContinuation(row) \in Row
         /\ SameClaim(row, EnsureContinuation(row))
  BY DEF EnsureContinuation, Row, SameClaim, ActionStatus

(* The statuses of a Run, as the table of state-machine.ts lists them.     *)
LEMMA RunStatusNames ==
  RunStatus = {"queued", "running", "waiting_external", "paused",
               "recovering", "blocked", "budget_limited", "usage_limited",
               "failed", "completed", "cancelled"}
  BY DEF RunStatus, RunTransitions

(* transitionRun to running keeps the row well formed and its lease and    *)
(* claim as they are.                                                      *)
LEMMA StartRunningRow ==
  ASSUME NEW row \in Row
  PROVE  /\ StartRunning(row) \in Row
         /\ SameClaim(row, StartRunning(row))
  BY SetStatusRow, EnsureContinuationRow, RunStatusNames
     DEF StartRunning, SameClaim, Reasons

(* scheduleWake arms a timer and may end the running status; the lease and *)
(* the claim stay.                                                         *)
LEMMA ScheduleWakeRow ==
  ASSUME NEW row \in Row
  PROVE  /\ ScheduleWake(row) \in Row
         /\ SameClaim(row, ScheduleWake(row))
<1> DEFINE armed == [row EXCEPT !.timers = @ + 1]
<1>1. armed \in Row /\ SameClaim(row, armed) /\ armed.status = row.status
  BY DEF Row, SameClaim
<1>2. /\ SetStatus(armed, "waiting_external", "none") \in Row
      /\ SameClaim(armed, SetStatus(armed, "waiting_external", "none"))
  <2> HIDE DEF armed
  <2> QED BY <1>1, SetStatusRow, RunStatusNames DEF Reasons
<1>3. ScheduleWake(row) = IF row.status = "running"
                          THEN SetStatus(armed, "waiting_external", "none")
                          ELSE armed
  BY DEF ScheduleWake
<1> HIDE DEF armed
<1> QED BY <1>1, <1>2, <1>3 DEF SameClaim

(* wakeDueRuns may restart the Run; the lease and the claim stay.          *)
LEMMA WakeDueRunRow ==
  ASSUME NEW row \in Row
  PROVE  /\ WakeDueRun(row) \in Row
         /\ SameClaim(row, WakeDueRun(row))
<1> DEFINE woken == [row EXCEPT !.due = FALSE]
<1>1. woken \in Row /\ SameClaim(row, woken)
  BY DEF Row, SameClaim
<1>2. /\ StartRunning(woken) \in Row
      /\ SameClaim(woken, StartRunning(woken))
      /\ EnsureContinuation(woken) \in Row
      /\ SameClaim(woken, EnsureContinuation(woken))
  <2> HIDE DEF woken
  <2> QED BY <1>1, StartRunningRow, EnsureContinuationRow
<1>3. \/ WakeDueRun(row) = row
      \/ WakeDueRun(row) = StartRunning(woken)
      \/ WakeDueRun(row) = EnsureContinuation(woken)
  BY DEF WakeDueRun
<1> HIDE DEF woken
<1> QED BY <1>1, <1>2, <1>3 DEF SameClaim

(* requestApproval touches neither the lease nor the claim.                *)
LEMMA RequestApprovalRow ==
  ASSUME NEW row \in Row, NEW a \in Approvals
  PROVE  /\ RequestApproval(row, a) \in Row
         /\ SameClaim(row, RequestApproval(row, a))
  BY DEF RequestApproval, Row, SameClaim, ApprovalStatus

(* resolveApproval may end a wait; the lease and the claim stay.           *)
LEMMA ResolveApprovalRow ==
  ASSUME NEW row \in Row, NEW a \in Approvals
  PROVE  /\ ResolveApproval(row, a) \in Row
         /\ SameClaim(row, ResolveApproval(row, a))
<1> DEFINE resolved == [row EXCEPT !.approvals[a] = "resolved"]
<1>1. resolved \in Row /\ SameClaim(row, resolved)
  BY DEF Row, SameClaim, ApprovalStatus
<1>2. /\ StartRunning(resolved) \in Row
      /\ SameClaim(resolved, StartRunning(resolved))
  <2> HIDE DEF resolved
  <2> QED BY <1>1, StartRunningRow
<1>3. \/ ResolveApproval(row, a) = StartRunning(resolved)
      \/ ResolveApproval(row, a) = resolved
  BY DEF ResolveApproval
<1> HIDE DEF resolved
<1> QED BY <1>1, <1>2, <1>3 DEF SameClaim

(* Exhausting the budget (recordUsageInternal) leaves the lease and the    *)
(* claim.                                                                  *)
LEMMA ExhaustBudgetRow ==
  ASSUME NEW row \in Row
  PROVE  /\ ExhaustBudget(row) \in Row
         /\ SameClaim(row, ExhaustBudget(row))
  BY SetStatusRow, RunStatusNames DEF ExhaustBudget, SameClaim, Reasons

(* The two goal statuses the model writes are statuses of state-           *)
(* machine.ts.                                                             *)
LEMMA GoalStatusNames ==
  {"active", "blocked"} \subseteq GoalStatus
  BY DEF GoalStatus, GoalTransitions

(* blockRunForProblemInternal blocks the Run and its goal, and leaves the  *)
(* lease and the claim.                                                    *)
LEMMA BlockRunForProblemRow ==
  ASSUME NEW row \in Row
  PROVE  /\ BlockRunForProblem(row) \in Row
         /\ SameClaim(row, BlockRunForProblem(row))
<1> DEFINE stopped == IF row.goal \in {"active", "waiting_external"}
                      THEN [row EXCEPT !.goal = "blocked"]
                      ELSE row
<1>1. stopped \in Row /\ SameClaim(row, stopped)
  BY GoalStatusNames DEF Row, SameClaim
<1>2. /\ SetStatus(stopped, "blocked", "provider") \in Row
      /\ SameClaim(stopped, SetStatus(stopped, "blocked", "provider"))
  <2> HIDE DEF stopped
  <2> QED BY <1>1, SetStatusRow, RunStatusNames DEF Reasons
<1>3. \/ BlockRunForProblem(row) = SetStatus(stopped, "blocked", "provider")
      \/ BlockRunForProblem(row) = stopped
  BY DEF BlockRunForProblem
<1> HIDE DEF stopped
<1> QED BY <1>1, <1>2, <1>3 DEF SameClaim

(* recordProblem, which is not fenced, at least never touches the lease or *)
(* the claim.                                                              *)
LEMMA RecordProblemRow ==
  ASSUME NEW row \in Row, NEW retryable \in BOOLEAN
  PROVE  /\ RecordProblem(row, retryable) \in Row
         /\ SameClaim(row, RecordProblem(row, retryable))
<1> DEFINE seen == [row EXCEPT !.observed = IF @ < BlockAfter THEN @ + 1 ELSE @]
<1>1. seen \in Row /\ SameClaim(row, seen)
  BY DEF Row, SameClaim, BlockAfter
<1>2. /\ BlockRunForProblem(seen) \in Row
      /\ SameClaim(seen, BlockRunForProblem(seen))
  <2> HIDE DEF seen
  <2> QED BY <1>1, BlockRunForProblemRow
<1>3. \/ RecordProblem(row, retryable) = row
      \/ RecordProblem(row, retryable) = BlockRunForProblem(seen)
      \/ RecordProblem(row, retryable) = seen
  BY DEF RecordProblem
<1> HIDE DEF seen
<1> QED BY <1>1, <1>2, <1>3 DEF SameClaim

(* A user's command changes the Run's status and leaves the lease and the  *)
(* claim.                                                                  *)
LEMMA ExecuteCommandRow ==
  ASSUME NEW row \in Row, NEW kind \in {"pause", "resume", "cancel"}
  PROVE  /\ ExecuteCommand(row, kind) \in Row
         /\ SameClaim(row, ExecuteCommand(row, kind))
<1>1. CommandTarget(row, kind) \in {"paused", "cancelled", "running", "queued"}
  BY DEF CommandTarget
<1>2. \/ ExecuteCommand(row, kind) = row
      \/ ExecuteCommand(row, kind) = StartRunning(row)
      \/ ExecuteCommand(row, kind)
           = SetStatus(row, CommandTarget(row, kind), "none")
  BY DEF ExecuteCommand
<1> QED BY <1>1, <1>2, SetStatusRow, StartRunningRow, RunStatusNames
           DEF SameClaim, Reasons

(* settleContinuation leaves the lease alone; a claim that is still there  *)
(* afterwards was there before and is not the caller's.                    *)
LEMMA SettleContinuationRow ==
  ASSUME NEW row \in Row, NEW d \in Executors, NEW g \in Nat,
         NEW requeue \in BOOLEAN
  PROVE  LET new == SettleContinuation(row, d, g, requeue)
         IN  /\ new \in Row
             /\ new.holder = row.holder /\ new.gen = row.gen
             /\ new.live = row.live
             /\ new.act = "claimed" =>
                  /\ row.act = "claimed" /\ ~(row.by = d /\ row.epoch = g)
                  /\ new.by = row.by /\ new.epoch = row.epoch
<1> DEFINE released == IF row.act = "claimed" /\ row.by = d /\ row.epoch = g
                       THEN Unclaimed(row, "none")
                       ELSE row
<1>1. /\ released \in Row
      /\ released.holder = row.holder /\ released.gen = row.gen
      /\ released.live = row.live
      /\ released.act = "claimed" =>
           /\ row.act = "claimed" /\ ~(row.by = d /\ row.epoch = g)
           /\ released.by = row.by /\ released.epoch = row.epoch
  BY DEF Unclaimed, Row, ActionStatus
<1>2. /\ EnsureContinuation(released) \in Row
      /\ SameClaim(released, EnsureContinuation(released))
  <2> HIDE DEF released
  <2> QED BY <1>1, EnsureContinuationRow
<1>3. SettleContinuation(row, d, g, requeue)
        = IF requeue THEN EnsureContinuation(released) ELSE released
  BY DEF SettleContinuation
<1> HIDE DEF released
<1> QED BY <1>1, <1>2, <1>3 DEF SameClaim
(* A settle that requeues, and the same of it. *)
Requeued(row, d, g) == SettleContinuation(row, d, g, TRUE)

(* settleContinuation with requeue: the caller's claim is gone, the lease  *)
(* is as it was, and a claim that is left was there before.                *)
LEMMA RequeuedContinuationRow ==
  ASSUME NEW row \in Row, NEW d \in Executors, NEW g \in Nat
  PROVE  LET new == Requeued(row, d, g)
         IN  /\ new \in Row
             /\ new.holder = row.holder /\ new.gen = row.gen
             /\ new.live = row.live
             /\ new.act = "claimed" =>
                  /\ row.act = "claimed" /\ ~(row.by = d /\ row.epoch = g)
                  /\ new.by = row.by /\ new.epoch = row.epoch
<1> DEFINE released == IF row.act = "claimed" /\ row.by = d /\ row.epoch = g
                       THEN Unclaimed(row, "none")
                       ELSE row
<1>1. /\ released \in Row
      /\ released.holder = row.holder /\ released.gen = row.gen
      /\ released.live = row.live
      /\ released.act = "claimed" =>
           /\ row.act = "claimed" /\ ~(row.by = d /\ row.epoch = g)
           /\ released.by = row.by /\ released.epoch = row.epoch
  BY DEF Unclaimed, Row, ActionStatus
<1>2. /\ EnsureContinuation(released) \in Row
      /\ SameClaim(released, EnsureContinuation(released))
  <2> HIDE DEF released
  <2> QED BY <1>1, EnsureContinuationRow
<1>3. Requeued(row, d, g) = EnsureContinuation(released)
  BY DEF Requeued, SettleContinuation
<1> HIDE DEF released
<1> QED BY <1>1, <1>2, <1>3 DEF SameClaim
-----------------------------------------------------------------------------
(* The remaining rows that actions write. *)
LEMMA LeaseRows ==
  ASSUME NEW row \in Row, NEW d \in Executors, NEW g \in Nat
  PROVE  /\ AcquireLease(row, d) \in Row
         /\ AcquireLease(row, d).gen \in Nat
         /\ RecoverClaimedWork(row, g) \in Row
         /\ ClaimContinuation(row, d, g) \in Row
<1>1. AcquireLease(row, d) \in Row /\ AcquireLease(row, d).gen \in Nat
  <2> DEFINE g1 == IF row.holder = d /\ row.live
                   THEN row.gen ELSE row.gen + 1
  <2>1. g1 \in Nat
    BY DEF Row
  <2>2. AcquireLease(row, d)
          = [row EXCEPT !.gen = g1, !.holder = d, !.live = TRUE]
    BY DEF AcquireLease
  <2> HIDE DEF g1
  <2> QED BY <2>1, <2>2 DEF Row
<1>2. RecoverClaimedWork(row, g) \in Row
  BY DEF RecoverClaimedWork, Unclaimed, Row, ActionStatus
<1>3. ClaimContinuation(row, d, g) \in Row
  BY DEF ClaimContinuation, Row, ActionStatus
<1> QED BY <1>1, <1>2, <1>3

(* The database before the first createRun. *)
LEMMA NoRunRow == NoRun \in Row
  BY GoalStatusNames
     DEF NoRun, Row, Reasons, ActionStatus, ApprovalStatus, BlockAfter

(* createRun starts without a lease or a claim and adds neither.           *)
LEMMA CreateRunRow ==
  ASSUME NEW row \in Row
  PROVE  CreateRun(row) \in Row /\ SameClaim(row, CreateRun(row))
<1> DEFINE new == [row EXCEPT !.status = "queued"]
<1>1. new \in Row /\ SameClaim(row, new)
  BY RunStatusNames DEF Row, SameClaim
<1>2. CreateRun(row) = StartRunning(new)
  BY DEF CreateRun
<1> HIDE DEF new
<1> QED BY <1>1, <1>2, StartRunningRow DEF SameClaim

(* A process that ends only replaces its id by Gone. *)
LEMMA EndedRow ==
  ASSUME NEW row \in Row, NEW d \in Executors
  PROVE  [row EXCEPT !.holder = IF @ = d THEN Gone ELSE @,
                     !.by = IF @ = d THEN Gone ELSE @] \in Row
  BY DEF Row
-----------------------------------------------------------------------------
(* TypeOK in three parts, and that in tickRun the daemon's current Run is  *)
(* one.                                                                    *)
DbOK == db \in [Runs -> Row]
InTickRun(m) == m.pc \notin {"idle", "list", "next"}
MemOK == /\ mem \in [Executors -> Mem]
         /\ \A d \in Executors : InTickRun(mem[d]) => mem[d].cur \in Runs
RestOK == /\ receipts \subseteq {q.id : q \in Requests}
          /\ crashes \in Nat /\ throws \in Nat /\ storeFaults \in Nat

TypeInv == DbOK /\ MemOK /\ RestOK

(* A fresh daemon's memory. *)
LEMMA BootMem == Boot \in Mem /\ ~InTickRun(Boot)
  BY DEF Boot, Mem, Pc, InTickRun

(* No Run exists and every daemon has just started. *)
LEMMA TypeInit == Init => TypeInv
  BY NoRunRow, BootMem DEF Init, TypeInv, DbOK, MemOK, RestOK

(* What a write to one Run's row, or to one daemon's memory, preserves. *)
LEMMA WriteOK ==
  ASSUME DbOK, NEW r \in Runs, NEW row \in Row, Write(r, row)
  PROVE  DbOK'
  BY DEF DbOK, Write

(* A write to one daemon's memory preserves the type of the memories.      *)
LEMMA BecomeOK ==
  ASSUME MemOK, NEW d \in Executors, NEW m \in Mem,
         InTickRun(m) => m.cur \in Runs, Become(d, m)
  PROVE  MemOK'
<1>1. mem' = [mem EXCEPT ![d] = m]
  BY DEF Become
<1>2. mem' \in [Executors -> Mem]
  BY <1>1 DEF MemOK
<1>3. ASSUME NEW e \in Executors PROVE InTickRun(mem'[e]) => mem'[e].cur \in Runs
  <2>1. CASE e = d
    BY <1>1, <2>1 DEF MemOK
  <2>2. CASE e # d
    BY <1>1, <2>2 DEF MemOK
  <2> QED BY <2>1, <2>2
<1> QED BY <1>2, <1>3 DEF MemOK

(* Moving to another program point of the same tickRun. *)
LEMMA GotoOK ==
  ASSUME MemOK, NEW d \in Executors, NEW p \in Pc,
         p \notin {"idle", "list", "next"} => mem[d].cur \in Runs, Goto(d, p)
  PROVE  MemOK'
<1> DEFINE m == [mem[d] EXCEPT !.pc = p]
<1>1. mem[d] \in Mem
  BY DEF MemOK
<1>2. m \in Mem /\ m.pc = p /\ m.cur = mem[d].cur
  BY <1>1 DEF Mem
<1>3. Become(d, m)
  BY DEF Goto
<1> HIDE DEF m
<1> QED BY <1>2, <1>3, BecomeOK DEF InTickRun

(* The turn returns to the scheduler. *)
LEMMA ReturnOK ==
  ASSUME MemOK, NEW d \in Executors, NEW b \in BOOLEAN,
         mem[d].cur \in Runs, Return(d, b)
  PROVE  MemOK'
<1> DEFINE m == [mem[d] EXCEPT !.pc = "settle", !.requeue = b,
                               !.aborted = FALSE, !.appr = Gone]
<1>1. mem[d] \in Mem
  BY DEF MemOK
<1>2. m \in Mem /\ m.cur = mem[d].cur
  BY <1>1 DEF Mem, Pc
<1>3. Become(d, m)
  BY DEF Return
<1> HIDE DEF m
<1> QED BY <1>2, <1>3, BecomeOK DEF InTickRun

(* tickRun returns or the tick ends. *)
LEMMA TickReturnOK ==
  ASSUME MemOK, NEW d \in Executors, TickRunReturns(d) \/ TickReturns(d)
  PROVE  MemOK'
<1> DEFINE m == [Boot EXCEPT !.pc = "next", !.todo = mem[d].todo,
                             !.queued = mem[d].queued,
                             !.stopping = mem[d].stopping]
<1> DEFINE n == [Boot EXCEPT !.stopping = mem[d].stopping]
<1>1. mem[d] \in Mem
  BY DEF MemOK
<1>2. m \in Mem /\ ~InTickRun(m) /\ n \in Mem /\ ~InTickRun(n)
  BY <1>1 DEF Mem, Boot, Pc, InTickRun
<1>3. Become(d, m) \/ Become(d, n)
  BY DEF TickRunReturns, TickReturns
<1> HIDE DEF m, n
<1> QED BY <1>2, <1>3, BecomeOK

(* The tick takes up the next Run of its list. *)
LEMMA VisitOK ==
  ASSUME MemOK, NEW d \in Executors, NEW r \in Runs, Visit(d, r)
  PROVE  MemOK'
<1> DEFINE m == [mem[d] EXCEPT !.pc = "acquire", !.cur = r,
                               !.todo = @ \ {r}, !.queued = @ \ {r}]
<1>1. mem[d] \in Mem
  BY DEF MemOK
<1>2. m \in Mem /\ m.cur = r
  BY <1>1 DEF Mem, Pc
<1>3. Become(d, m)
  BY DEF Visit
<1> HIDE DEF m
<1> QED BY <1>2, <1>3, BecomeOK
(* Every action writes rows and memories of their types. *)
LEMMA TypeStep == TypeInv /\ [Next]_vars => TypeInv'
<1> SUFFICES ASSUME DbOK, MemOK, RestOK, [Next]_vars
             PROVE  DbOK' /\ MemOK' /\ RestOK'
  BY DEF TypeInv
<1>q. \A q \in Requests : /\ q.run \in Runs
                          /\ q.kind \in {"pause", "resume", "cancel"}
  BY RequestsAssumption
<1>r. \A r \in Runs : db[r] \in Row
  BY DEF DbOK
<1>c. \A d \in Executors :
        /\ mem[d] \in Mem /\ mem[d].gen \in Nat /\ mem[d].requeue \in BOOLEAN
        /\ InTickRun(mem[d]) => mem[d].cur \in Runs /\ db[mem[d].cur] \in Row
        /\ mem[d].pc \notin {"idle", "list", "next"}
             => mem[d].cur \in Runs /\ db[mem[d].cur] \in Row
  BY DEF MemOK, DbOK, Mem, InTickRun
<1>1. ASSUME NEW d \in Executors, TickWake(d)
      PROVE  DbOK' /\ MemOK' /\ RestOK'
  <2>1. DbOK'
    BY <1>1, WakeDueRunRow DEF TickWake, DbOK, At
  <2>4. MemOK'
    BY <1>1, GotoOK DEF TickWake, Pc, At
  <2>5. RestOK'
    BY <1>1 DEF TickWake, RestOK, faults
  <2> QED BY <2>1, <2>4, <2>5
<1>2. ASSUME NEW d \in Executors, TickList(d)
      PROVE  DbOK' /\ MemOK' /\ RestOK'
  <2>1. DbOK'
    BY <1>2 DEF TickList, DbOK
  <2> DEFINE m == [mem[d] EXCEPT
                 !.pc = "next",
                 !.todo = {r \in Runs : db[r].status \in {"queued", "running"}},
                 !.queued = {r \in Runs : db[r].status = "queued"}]
  <2>2. m \in Mem /\ ~InTickRun(m)
    BY <1>c DEF Mem, Pc, InTickRun
  <2>3. Become(d, m)
    BY <1>2 DEF TickList
  <2>4. MemOK'
    <3> HIDE DEF m
    <3> QED BY <2>2, <2>3, BecomeOK
  <2>5. RestOK'
    BY <1>2 DEF TickList, RestOK, faults
  <2> QED BY <2>1, <2>4, <2>5
<1>3. ASSUME NEW d \in Executors, TickEnd(d)
      PROVE  DbOK' /\ MemOK' /\ RestOK'
  <2>1. DbOK'
    BY <1>3 DEF TickEnd, DbOK
  <2>4. MemOK'
    BY <1>3, TickReturnOK DEF TickEnd, At
  <2>5. RestOK'
    BY <1>3 DEF TickEnd, RestOK, faults
  <2> QED BY <2>1, <2>4, <2>5
<1>4. ASSUME NEW d \in Executors, NEW r \in Runs, TickQueuedRun(d, r)
      PROVE  DbOK' /\ MemOK' /\ RestOK'
  <2>1. DbOK'
    BY <1>4, StartRunningRow, WriteOK, <1>r DEF TickQueuedRun, At, DbOK
  <2>4. MemOK'
    BY <1>4, TickReturnOK, VisitOK DEF TickQueuedRun, At
  <2>5. RestOK'
    BY <1>4 DEF TickQueuedRun, RestOK, faults
  <2> QED BY <2>1, <2>4, <2>5
<1>5. ASSUME NEW d \in Executors, NEW r \in Runs, TickRunningRun(d, r)
      PROVE  DbOK' /\ MemOK' /\ RestOK'
  <2>1. DbOK'
    BY <1>5 DEF TickRunningRun, DbOK
  <2>4. MemOK'
    BY <1>5, VisitOK DEF TickRunningRun, At
  <2>5. RestOK'
    BY <1>5 DEF TickRunningRun, RestOK, faults
  <2> QED BY <2>1, <2>4, <2>5
<1>6. ASSUME NEW d \in Executors, TickAcquire(d)
      PROVE  DbOK' /\ MemOK' /\ RestOK'
  <2>1. DbOK'
    BY <1>6, LeaseRows, WriteOK, <1>c DEF TickAcquire, Current, At, DbOK
  <2> DEFINE m == [mem[d] EXCEPT !.pc = "recover",
                                 !.gen = AcquireLease(Current(d), d).gen]
  <2>2. m \in Mem /\ m.cur \in Runs
    BY <1>6, <1>c, LeaseRows DEF TickAcquire, At, Mem, Pc, Current
  <2>3. TickRunReturns(d) \/ Become(d, m)
    BY <1>6 DEF TickAcquire
  <2>4. MemOK'
    <3> HIDE DEF m
    <3> QED BY <2>2, <2>3, BecomeOK, TickReturnOK
  <2>5. RestOK'
    BY <1>6 DEF TickAcquire, RestOK, faults
  <2> QED BY <2>1, <2>4, <2>5
<1>7. ASSUME NEW d \in Executors, TickRecover(d)
      PROVE  DbOK' /\ MemOK' /\ RestOK'
  <2>1. DbOK'
    BY <1>7, LeaseRows, WriteOK, <1>c DEF TickRecover, Current, At, DbOK
  <2>4. MemOK'
    BY <1>7, TickReturnOK, GotoOK, <1>c DEF TickRecover, Pc, At
  <2>5. RestOK'
    BY <1>7 DEF TickRecover, RestOK, faults
  <2> QED BY <2>1, <2>4, <2>5
<1>8. ASSUME NEW d \in Executors, TickClaim(d)
      PROVE  DbOK' /\ MemOK' /\ RestOK'
  <2>1. DbOK'
    BY <1>8, LeaseRows, WriteOK, <1>c DEF TickClaim, Current, At, DbOK
  <2>4. MemOK'
    BY <1>8, TickReturnOK, GotoOK, <1>c DEF TickClaim, Pc, At
  <2>5. RestOK'
    BY <1>8 DEF TickClaim, RestOK, faults
  <2> QED BY <2>1, <2>4, <2>5
<1>9. ASSUME NEW d \in Executors, TickCheck(d)
      PROVE  DbOK' /\ MemOK' /\ RestOK'
  <2>1. DbOK'
    BY <1>9 DEF TickCheck, DbOK
  <2>4. MemOK'
    BY <1>9, GotoOK, <1>c DEF TickCheck, Pc, At
  <2>5. RestOK'
    BY <1>9 DEF TickCheck, RestOK, faults
  <2> QED BY <2>1, <2>4, <2>5
<1>10. ASSUME NEW d \in Executors, TickUnclaim(d)
      PROVE  DbOK' /\ MemOK' /\ RestOK'
  <2>1. DbOK'
    BY <1>10, SettleContinuationRow, WriteOK, <1>c DEF TickUnclaim, Current, At, DbOK
  <2>4. MemOK'
    BY <1>10, TickReturnOK DEF TickUnclaim, At
  <2>5. RestOK'
    BY <1>10 DEF TickUnclaim, RestOK, faults
  <2> QED BY <2>1, <2>4, <2>5
<1>11. ASSUME NEW d \in Executors, Settle(d)
      PROVE  DbOK' /\ MemOK' /\ RestOK'
  <2>1. DbOK'
    BY <1>11, SettleContinuationRow, WriteOK, <1>c DEF Settle, Current, At, DbOK
  <2>4. MemOK'
    BY <1>11, TickReturnOK DEF Settle, At
  <2>5. RestOK'
    BY <1>11 DEF Settle, RestOK, faults
  <2> QED BY <2>1, <2>4, <2>5
<1>12. ASSUME NEW d \in Executors, ThrowSettle(d)
      PROVE  DbOK' /\ MemOK' /\ RestOK'
  <2>1. DbOK'
    BY <1>12, SettleContinuationRow, WriteOK, <1>c DEF ThrowSettle, Current, At, DbOK
  <2>4. MemOK'
    BY <1>12, TickReturnOK DEF ThrowSettle, At
  <2>5. RestOK'
    BY <1>12 DEF ThrowSettle, RestOK, faults
  <2> QED BY <2>1, <2>4, <2>5
<1>13. ASSUME NEW d \in Executors, TurnFenced(d)
      PROVE  DbOK' /\ MemOK' /\ RestOK'
  <2>1. DbOK'
    BY <1>13 DEF TurnFenced, DbOK
  <2>4. MemOK'
    BY <1>13, TickReturnOK DEF TurnFenced, At
  <2>5. RestOK'
    BY <1>13 DEF TurnFenced, RestOK, faults
  <2> QED BY <2>1, <2>4, <2>5
<1>14. ASSUME NEW d \in Executors, TurnContinues(d)
      PROVE  DbOK' /\ MemOK' /\ RestOK'
  <2>1. DbOK'
    BY <1>14 DEF TurnContinues, DbOK
  <2>4. MemOK'
    BY <1>14, ReturnOK, <1>c DEF TurnContinues, Turn, At
  <2>5. RestOK'
    BY <1>14 DEF TurnContinues, RestOK, faults
  <2> QED BY <2>1, <2>4, <2>5
<1>15. ASSUME NEW d \in Executors, TurnExhaustsBudget(d)
      PROVE  DbOK' /\ MemOK' /\ RestOK'
  <2>1. DbOK'
    BY <1>15, ExhaustBudgetRow, WriteOK, <1>c
      DEF TurnExhaustsBudget, Turn, Current, At, DbOK
  <2>4. MemOK'
    BY <1>15 DEF TurnExhaustsBudget, MemOK
  <2>5. RestOK'
    BY <1>15 DEF TurnExhaustsBudget, RestOK, faults
  <2> QED BY <2>1, <2>4, <2>5
<1>16. ASSUME NEW d \in Executors, TurnCompletes(d)
      PROVE  DbOK' /\ MemOK' /\ RestOK'
  <2>1. DbOK'
    BY <1>16, SetStatusRow, RunStatusNames, WriteOK, <1>c
      DEF TurnCompletes, Current, Reasons, At, DbOK
  <2>4. MemOK'
    BY <1>16, ReturnOK, <1>c DEF TurnCompletes, At
  <2>5. RestOK'
    BY <1>16 DEF TurnCompletes, RestOK, faults
  <2> QED BY <2>1, <2>4, <2>5
<1>17. ASSUME NEW d \in Executors, TurnAborts(d)
      PROVE  DbOK' /\ MemOK' /\ RestOK'
  <2>1. DbOK'
    BY <1>17 DEF TurnAborts, DbOK
  <2>4. MemOK'
    BY <1>17, ReturnOK, <1>c DEF TurnAborts, At
  <2>5. RestOK'
    BY <1>17 DEF TurnAborts, RestOK, faults
  <2> QED BY <2>1, <2>4, <2>5
<1>18. ASSUME NEW d \in Executors, TurnRetriesLater(d)
      PROVE  DbOK' /\ MemOK' /\ RestOK'
  <2>1. DbOK'
    BY <1>18, ScheduleWakeRow, WriteOK, <1>c DEF TurnRetriesLater, Turn, Current, At, DbOK
  <2>4. MemOK'
    BY <1>18, ReturnOK, <1>c DEF TurnRetriesLater, Turn, At
  <2>5. RestOK'
    BY <1>18 DEF TurnRetriesLater, RestOK, faults
  <2> QED BY <2>1, <2>4, <2>5
<1>19. ASSUME NEW d \in Executors, TurnFails(d)
      PROVE  DbOK' /\ MemOK' /\ RestOK'
  <2>1. DbOK'
    BY <1>19 DEF TurnFails, DbOK
  <2>4. MemOK'
    BY <1>19, GotoOK, <1>c DEF TurnFails, Turn, Pc, At
  <2>5. RestOK'
    BY <1>19 DEF TurnFails, RestOK, faults
  <2> QED BY <2>1, <2>4, <2>5
<1>20. ASSUME NEW d \in Executors, TurnRecordsProblem(d)
      PROVE  DbOK' /\ MemOK' /\ RestOK'
  <2>1. DbOK'
    BY <1>20, RecordProblemRow, WriteOK, <1>c DEF TurnRecordsProblem, Current, At, DbOK
  <2>4. MemOK'
    BY <1>20, GotoOK, <1>c DEF TurnRecordsProblem, Pc, At
  <2>5. RestOK'
    BY <1>20 DEF TurnRecordsProblem, RestOK, faults
  <2> QED BY <2>1, <2>4, <2>5
<1>21. ASSUME NEW d \in Executors, TurnReadsStatus(d)
      PROVE  DbOK' /\ MemOK' /\ RestOK'
  <2>1. DbOK'
    BY <1>21 DEF TurnReadsStatus, DbOK
  <2>4. MemOK'
    BY <1>21, GotoOK, ReturnOK, <1>c DEF TurnReadsStatus, Pc, At
  <2>5. RestOK'
    BY <1>21 DEF TurnReadsStatus, RestOK, faults
  <2> QED BY <2>1, <2>4, <2>5
<1>22. ASSUME NEW d \in Executors, TurnParks(d)
      PROVE  DbOK' /\ MemOK' /\ RestOK'
  <2>1. DbOK'
    BY <1>22, SetStatusRow, RunStatusNames, WriteOK, <1>c
      DEF TurnParks, ParkOrThrow, Current, Reasons, At, DbOK
  <2>4. MemOK'
    BY <1>22, TickReturnOK, GotoOK, ReturnOK, <1>c DEF TurnParks, ParkOrThrow, Pc, At
  <2>5. RestOK'
    BY <1>22 DEF TurnParks, RestOK, faults
  <2> QED BY <2>1, <2>4, <2>5
<1>23. ASSUME NEW d \in Executors, NEW a \in Approvals,
             TurnNeedsApproval(d, a)
      PROVE  DbOK' /\ MemOK' /\ RestOK'
  <2>1. DbOK'
    BY <1>23, RequestApprovalRow, WriteOK, <1>c
      DEF TurnNeedsApproval, Turn, Current, At, DbOK
  <2> DEFINE m == [mem[d] EXCEPT !.pc = "apprRead", !.appr = a]
  <2>2. m \in Mem /\ m.cur \in Runs
    BY <1>23, <1>c DEF TurnNeedsApproval, Turn, At, Mem, Pc
  <2>3. Become(d, m)
    BY <1>23 DEF TurnNeedsApproval
  <2>4. MemOK'
    <3> HIDE DEF m
    <3> QED BY <2>2, <2>3, BecomeOK
  <2>5. RestOK'
    BY <1>23 DEF TurnNeedsApproval, RestOK, faults
  <2> QED BY <2>1, <2>4, <2>5
<1>24. ASSUME NEW d \in Executors, TurnReadsApproval(d)
      PROVE  DbOK' /\ MemOK' /\ RestOK'
  <2>1. DbOK'
    BY <1>24 DEF TurnReadsApproval, DbOK
  <2>4. MemOK'
    BY <1>24, TickReturnOK, GotoOK, ReturnOK, <1>c DEF TurnReadsApproval, Pc, At
  <2>5. RestOK'
    BY <1>24 DEF TurnReadsApproval, RestOK, faults
  <2> QED BY <2>1, <2>4, <2>5
<1>25. ASSUME NEW d \in Executors, TurnAwaitsApproval(d)
      PROVE  DbOK' /\ MemOK' /\ RestOK'
  <2>1. DbOK'
    BY <1>25, SetStatusRow, RunStatusNames, WriteOK, <1>c
      DEF TurnAwaitsApproval, ParkOrThrow, Current, Reasons, At, DbOK
  <2>4. MemOK'
    BY <1>25, TickReturnOK, GotoOK, ReturnOK, <1>c
      DEF TurnAwaitsApproval, ParkOrThrow, Pc, At
  <2>5. RestOK'
    BY <1>25 DEF TurnAwaitsApproval, RestOK, faults
  <2> QED BY <2>1, <2>4, <2>5
<1>26. ASSUME NEW d \in Executors, NEW r \in Runs, PostRun(d, r)
      PROVE  DbOK' /\ MemOK' /\ RestOK'
  <2>1. DbOK'
    BY <1>26, CreateRunRow, WriteOK, <1>r DEF PostRun, At, DbOK
  <2>4. MemOK'
    BY <1>26 DEF PostRun, MemOK
  <2>5. RestOK'
    BY <1>26 DEF PostRun, RestOK, faults
  <2> QED BY <2>1, <2>4, <2>5
<1>27. ASSUME NEW d \in Executors, NEW q \in Requests, PostCommand(d, q)
      PROVE  DbOK' /\ MemOK' /\ RestOK'
  <2>1. DbOK'
    BY <1>27, ExecuteCommandRow, WriteOK, <1>q, <1>r DEF PostCommand, At, DbOK
  <2> DEFINE m == [mem[d] EXCEPT !.aborted = TRUE]
  <2>2. m \in Mem /\ m.pc = mem[d].pc /\ m.cur = mem[d].cur
    BY <1>c DEF Mem
  <2>3. UNCHANGED mem \/ Become(d, m)
    BY <1>27 DEF PostCommand, AbortRun
  <2>4. MemOK'
    <3> HIDE DEF m
    <3>1. CASE UNCHANGED mem
      BY <3>1 DEF MemOK
    <3>2. CASE Become(d, m)
      BY <3>2, <2>2, <1>c, BecomeOK DEF InTickRun
    <3> QED BY <3>1, <3>2, <2>3
  <2>5. RestOK'
    BY <1>27 DEF PostCommand, RestOK, faults
  <2> QED BY <2>1, <2>4, <2>5
<1>28. ASSUME NEW d \in Executors, NEW r \in Runs, NEW a \in Approvals,
             PostApproval(d, r, a)
      PROVE  DbOK' /\ MemOK' /\ RestOK'
  <2>1. DbOK'
    BY <1>28, ResolveApprovalRow, WriteOK, <1>r DEF PostApproval, At, DbOK
  <2>4. MemOK'
    BY <1>28 DEF PostApproval, MemOK
  <2>5. RestOK'
    BY <1>28 DEF PostApproval, RestOK, faults
  <2> QED BY <2>1, <2>4, <2>5
<1>29. ASSUME NEW d \in Executors, TurnThrows(d)
      PROVE  DbOK' /\ MemOK' /\ RestOK'
  <2>1. DbOK'
    BY <1>29 DEF TurnThrows, DbOK
  <2> DEFINE m == [mem[d] EXCEPT !.pc = "throwSettle", !.aborted = FALSE]
  <2>2. m \in Mem /\ m.cur \in Runs
    BY <1>29, <1>c DEF TurnThrows, At, Mem, Pc
  <2>3. Become(d, m)
    BY <1>29 DEF TurnThrows
  <2>4. MemOK'
    <3> HIDE DEF m
    <3> QED BY <2>2, <2>3, BecomeOK
  <2>5. RestOK'
    BY <1>29 DEF TurnThrows, RestOK, faults
  <2> QED BY <2>1, <2>4, <2>5
<1>30. ASSUME NEW d \in Executors, StoreBusy(d)
      PROVE  DbOK' /\ MemOK' /\ RestOK'
  <2>1. DbOK'
    BY <1>30 DEF StoreBusy, DbOK
  <2>4. MemOK'
    BY <1>30, TickReturnOK, GotoOK, <1>c DEF StoreBusy, Pc, At
  <2>5. RestOK'
    BY <1>30 DEF StoreBusy, RestOK, faults
  <2> QED BY <2>1, <2>4, <2>5
<1>31. ASSUME NEW d \in Executors, Crash(d)
      PROVE  DbOK' /\ MemOK' /\ RestOK'
  <2>1. DbOK'
    BY <1>31, EndedRow DEF Crash, ProcessEnds, DbOK, At
  <2>4. MemOK'
    BY <1>31, BecomeOK, BootMem DEF Crash, ProcessEnds, At
  <2>5. RestOK'
    BY <1>31 DEF Crash, RestOK, faults
  <2> QED BY <2>1, <2>4, <2>5
<1>32. ASSUME NEW d \in Executors, Stop(d)
      PROVE  DbOK' /\ MemOK' /\ RestOK'
  <2>1. DbOK'
    BY <1>32 DEF Stop, DbOK
  <2> DEFINE m == [mem[d] EXCEPT !.stopping = TRUE, !.aborted = At(d, "exec")]
  <2>2. m \in Mem /\ m.pc = mem[d].pc /\ m.cur = mem[d].cur
    BY <1>c DEF Mem, At
  <2>3. Become(d, m)
    BY <1>32 DEF Stop
  <2>4. MemOK'
    <3> HIDE DEF m
    <3> QED BY <2>2, <2>3, <1>c, BecomeOK DEF InTickRun
  <2>5. RestOK'
    BY <1>32 DEF Stop, RestOK, faults
  <2> QED BY <2>1, <2>4, <2>5
<1>33. ASSUME NEW d \in Executors, Exit(d)
      PROVE  DbOK' /\ MemOK' /\ RestOK'
  <2>1. DbOK'
    BY <1>33, EndedRow DEF Exit, ProcessEnds, DbOK, At
  <2>4. MemOK'
    BY <1>33, BecomeOK, BootMem DEF Exit, ProcessEnds, At
  <2>5. RestOK'
    BY <1>33 DEF Exit, RestOK, faults
  <2> QED BY <2>1, <2>4, <2>5
<1>34. ASSUME NEW r \in Runs, TimerDue(r)
      PROVE  DbOK' /\ MemOK' /\ RestOK'
  <2> DEFINE row == [db[r] EXCEPT !.timers = @ - 1, !.due = TRUE]
  <2>1. DbOK'
    <3>1. row \in Row
      <4>1. db[r] \in Row /\ db[r].timers - 1 \in Nat
        BY <1>34, <1>r DEF TimerDue, Row
      <4> QED BY <4>1 DEF Row
    <3>2. Write(r, row)
      BY <1>34 DEF TimerDue
    <3> HIDE DEF row
    <3> QED BY <3>1, <3>2, WriteOK
  <2>4. MemOK'
    BY <1>34 DEF TimerDue, MemOK
  <2>5. RestOK'
    BY <1>34 DEF TimerDue, RestOK, faults
  <2> QED BY <2>1, <2>4, <2>5
<1>35. ASSUME NEW r \in Runs, LeaseExpires(r)
      PROVE  DbOK' /\ MemOK' /\ RestOK'
  <2> DEFINE row == [db[r] EXCEPT !.live = FALSE]
  <2>1. DbOK'
    <3>1. row \in Row
      BY <1>r DEF Row
    <3>2. Write(r, row)
      BY <1>35 DEF LeaseExpires
    <3> HIDE DEF row
    <3> QED BY <3>1, <3>2, WriteOK
  <2>4. MemOK'
    BY <1>35 DEF LeaseExpires, MemOK
  <2>5. RestOK'
    BY <1>35 DEF LeaseExpires, RestOK, faults
  <2> QED BY <2>1, <2>4, <2>5
<1>36. CASE UNCHANGED vars
  BY <1>36 DEF vars, DbOK, MemOK, RestOK
<1> QED
  BY <1>1, <1>2, <1>3, <1>4, <1>5, <1>6, <1>7, <1>8, <1>9, <1>10, <1>11, <1>12,
     <1>13, <1>14, <1>15, <1>16, <1>17, <1>18, <1>19, <1>20, <1>21, <1>22, <1>23, <1>24,
     <1>25, <1>26, <1>27, <1>28, <1>29, <1>30, <1>31, <1>32, <1>33, <1>34, <1>35, <1>36
     DEF Next, Scheduler, Executor, User, Fault, Clock

(* The database rows and the daemons' memories keep their types            *)
(* (RunStore's transactions and RunScheduler's steps), for every number of *)
(* daemons and Runs.                                                       *)
THEOREM TypeCorrect == Spec => []TypeOK
<1>1. TypeInv => TypeOK
  BY DEF TypeInv, DbOK, MemOK, RestOK, TypeOK
<1> QED BY <1>1, TypeInit, TypeStep, PTL DEF Spec
-----------------------------------------------------------------------------
(* The lease.  A daemon that believes it owns a Run holds a generation     *)
(* that is not newer than the row's, and is the holder if it is the same.  *)
OwnedGeneration ==
  \A d \in Executors : mem[d].pc \in Owning =>
    /\ mem[d].gen <= db[mem[d].cur].gen
    /\ mem[d].gen = db[mem[d].cur].gen => db[mem[d].cur].holder = d

(* A claim is not newer than the lease it was made under. *)
ClaimedGeneration ==
  \A r \in Runs : db[r].act = "claimed" => db[r].epoch <= db[r].gen

LeaseInv ==
  /\ OwnedGeneration /\ ClaimedGeneration /\ ExclusiveGeneration
  /\ storeFaults = 0 => NoOrphanedClaim

(* A transaction that neither grants a lease nor makes a claim; it may end *)
(* either.                                                                 *)
KeepsClaim(row, new) ==
  /\ new.holder = row.holder /\ new.gen = row.gen
  /\ new.live => row.live
  /\ new.act = "claimed" => /\ row.act = "claimed"
                            /\ new.by = row.by /\ new.epoch = row.epoch

QuietDb == \A r \in Runs : KeepsClaim(db[r], db'[r])

(* The daemon holds the lease and its claim outlasts the step. *)
KeptClaim(e) ==
  /\ mem[e].pc \in Claiming /\ Holds(e)
  /\ db'[mem[e].cur].act = "claimed"
  /\ db'[mem[e].cur].by = e /\ db'[mem[e].cur].epoch = mem[e].gen

(* No daemon gains ownership, and none forgets a claim it has. *)
QuietMem ==
  \A e \in Executors :
    /\ mem'[e].pc \in Owning => /\ mem[e].pc \in Owning
                                /\ mem'[e].cur = mem[e].cur
                                /\ mem'[e].gen = mem[e].gen
    /\ KeptClaim(e) => /\ mem'[e].pc \in Claiming
                       /\ mem'[e].cur = mem[e].cur
                       /\ mem'[e].gen = mem[e].gen

(* Quiet steps keep every part of the invariant. *)
LEMMA QuietStep ==
  ASSUME TypeInv, LeaseInv, QuietDb,
         \A e \in Executors :
           mem'[e].pc \in Owning => /\ mem[e].pc \in Owning
                                    /\ mem'[e].cur = mem[e].cur
                                    /\ mem'[e].gen = mem[e].gen,
         storeFaults' = 0 => storeFaults = 0 /\ QuietMem
  PROVE  LeaseInv'
<1>1. \A e \in Executors : /\ mem[e].pc \in Owning => mem[e].cur \in Runs
                           /\ mem[e].gen \in Nat
  BY DEF TypeInv, MemOK, Mem, Owning, InTickRun
<1>2. OwnedGeneration'
  BY <1>1 DEF LeaseInv, OwnedGeneration, QuietDb, KeepsClaim
<1>3. ClaimedGeneration'
  BY DEF LeaseInv, ClaimedGeneration, QuietDb, KeepsClaim
<1>4. ExclusiveGeneration'
  BY DEF LeaseInv, ExclusiveGeneration
<1>5. ASSUME storeFaults' = 0 PROVE NoOrphanedClaim'
  <2> SUFFICES ASSUME NEW r \in Runs,
                      db'[r].act = "claimed", db'[r].live,
                      db'[r].epoch = db'[r].gen, db'[r].holder # Gone
               PROVE  /\ db'[r].by = db'[r].holder
                      /\ mem'[db'[r].holder].pc \in Claiming
                      /\ mem'[db'[r].holder].cur = r
                      /\ mem'[db'[r].holder].gen = db'[r].epoch
    BY DEF NoOrphanedClaim
  <2>1. KeepsClaim(db[r], db'[r])
    BY DEF QuietDb
  <2>2. /\ db[r].act = "claimed" /\ db[r].live
        /\ db[r].epoch = db[r].gen /\ db[r].holder # Gone
    BY <2>1 DEF KeepsClaim
  <2>3. db[r].holder \in Executors
    BY <2>2 DEF TypeInv, DbOK, Row
  <2>4. /\ db[r].by = db[r].holder
        /\ mem[db[r].holder].pc \in Claiming
        /\ mem[db[r].holder].cur = r
        /\ mem[db[r].holder].gen = db[r].epoch
    BY <1>5, <2>2 DEF LeaseInv, NoOrphanedClaim
  <2>5. KeptClaim(db[r].holder)
    BY <2>1, <2>2, <2>4 DEF KeptClaim, KeepsClaim, Holds, Current, LeaseHeld
  <2> QED BY <1>5, <2>1, <2>3, <2>4, <2>5 DEF QuietMem, KeepsClaim
<1> QED BY <1>2, <1>3, <1>4, <1>5 DEF LeaseInv

(* Writes of rows and memories that are quiet. *)
LEMMA QuietWrite ==
  ASSUME DbOK, NEW r \in Runs, NEW row \in Row, Write(r, row),
         KeepsClaim(db[r], row)
  PROVE  QuietDb
  BY DEF DbOK, Write, QuietDb, KeepsClaim

(* A step that leaves the database alone is quiet for it.                  *)
LEMMA QuietUnchanged == UNCHANGED db => QuietDb
  BY DEF QuietDb, KeepsClaim

(* A row with the same lease and claim keeps its claim.                    *)
LEMMA SameIsKept ==
  \A row, new : SameClaim(row, new) => KeepsClaim(row, new)
  BY DEF SameClaim, KeepsClaim

(* A daemon that neither starts to own a Run nor abandons a live claim     *)
(* takes a quiet step.                                                     *)
LEMMA QuietBecome ==
  ASSUME MemOK, NEW d \in Executors, NEW m, Become(d, m),
         m.pc \in Owning => /\ mem[d].pc \in Owning
                            /\ m.cur = mem[d].cur /\ m.gen = mem[d].gen,
         KeptClaim(d)
           => m.pc \in Claiming /\ m.cur = mem[d].cur /\ m.gen = mem[d].gen
  PROVE  QuietMem
<1> SUFFICES ASSUME NEW e \in Executors
             PROVE  /\ mem'[e].pc \in Owning => /\ mem[e].pc \in Owning
                                                /\ mem'[e].cur = mem[e].cur
                                                /\ mem'[e].gen = mem[e].gen
                    /\ KeptClaim(e) => /\ mem'[e].pc \in Claiming
                                       /\ mem'[e].cur = mem[e].cur
                                       /\ mem'[e].gen = mem[e].gen
  BY DEF QuietMem
<1>1. mem'[d] = m /\ (e # d => mem'[e] = mem[e])
  BY DEF Become, MemOK
<1>2. \A p : p \in Claiming => p \in Owning
  BY DEF Claiming
<1>3. KeptClaim(e) => mem[e].pc \in Claiming
  BY DEF KeptClaim
<1> QED BY <1>1, <1>2, <1>3

(* Moving on within tickRun is quiet as long as a claim in hand stays in   *)
(* hand.                                                                   *)
LEMMA QuietGoto ==
  ASSUME MemOK, NEW d \in Executors, NEW p, Goto(d, p),
         p \in Owning => mem[d].pc \in Owning,
         mem[d].pc \in Claiming => p \in Claiming
  PROVE  QuietMem
<1> DEFINE m == [mem[d] EXCEPT !.pc = p]
<1>1. m.pc = p /\ m.cur = mem[d].cur /\ m.gen = mem[d].gen
  BY DEF MemOK, Mem
<1>2. Become(d, m)
  BY DEF Goto
<1>3. KeptClaim(d) => mem[d].pc \in Claiming
  BY DEF KeptClaim
<1> HIDE DEF m
<1> QED BY <1>1, <1>2, <1>3, QuietBecome

(* The end of a turn, on the way to its settle, is quiet.                  *)
LEMMA QuietReturn ==
  ASSUME MemOK, NEW d \in Executors, NEW b, Return(d, b),
         mem[d].pc \in Claiming
  PROVE  QuietMem
<1> DEFINE m == [mem[d] EXCEPT !.pc = "settle", !.requeue = b,
                               !.aborted = FALSE, !.appr = Gone]
<1>1. m.pc = "settle" /\ m.cur = mem[d].cur /\ m.gen = mem[d].gen
  BY DEF MemOK, Mem
<1>2. Become(d, m)
  BY DEF Return
<1>3. "settle" \in Claiming /\ mem[d].pc \in Owning
  BY DEF Claiming, Owning, Pc
<1> HIDE DEF m
<1> QED BY <1>1, <1>2, <1>3, QuietBecome

(* Leaving tickRun is quiet when no live claim is left behind.             *)
LEMMA QuietTickReturn ==
  ASSUME MemOK, NEW d \in Executors, TickRunReturns(d) \/ TickReturns(d),
         ~KeptClaim(d)
  PROVE  QuietMem
<1> DEFINE m == [Boot EXCEPT !.pc = "next", !.todo = mem[d].todo,
                             !.queued = mem[d].queued,
                             !.stopping = mem[d].stopping]
<1> DEFINE n == [Boot EXCEPT !.stopping = mem[d].stopping]
<1>1. m.pc \notin Owning /\ n.pc \notin Owning
  BY DEF Boot, Owning, Pc
<1>2. Become(d, m) \/ Become(d, n)
  BY DEF TickRunReturns, TickReturns
<1> HIDE DEF m, n
<1> QED BY <1>1, <1>2, QuietBecome

(* A step that leaves every daemon's memory alone is quiet for the         *)
(* memories.                                                               *)
LEMMA QuietMemUnchanged == UNCHANGED mem => QuietMem
  BY DEF QuietMem, KeptClaim

(* A quiet step in the form the theorems use it. *)
LEMMA Quiet ==
  ASSUME TypeInv, LeaseInv, QuietDb, QuietMem, storeFaults' = storeFaults
  PROVE  LeaseInv'
  BY QuietStep DEF QuietMem

(* acquireLease starts a new generation unless its caller extends a lease  *)
(* that it holds: no other daemon has the generation it returns.           *)
LEMMA AcquireStep ==
  ASSUME TypeInv, LeaseInv, NEW d \in Executors, TickAcquire(d),
         ~LeasedByOther(Current(d), d)
  PROVE  LeaseInv'
<1> DEFINE r == mem[d].cur
           new == AcquireLease(db[r], d)
           m == [mem[d] EXCEPT !.pc = "recover", !.gen = new.gen]
<1>1. r \in Runs /\ db[r] \in Row /\ new \in Row /\ mem[d].pc = "acquire"
  BY LeaseRows DEF TickAcquire, At, TypeInv, DbOK, MemOK, InTickRun
<1>2. db' = [db EXCEPT ![r] = new]
  BY DEF TickAcquire, Write, Current
<1>3. mem' = [mem EXCEPT ![d] = m]
  BY DEF TickAcquire, Become, Current
<1>4. m.pc = "recover" /\ m.cur = r /\ m.gen = new.gen
  BY DEF TypeInv, MemOK, Mem
<1>5. /\ new.holder = d /\ new.act = db[r].act
      /\ new.by = db[r].by /\ new.epoch = db[r].epoch
      /\ \/ new.gen = db[r].gen /\ db[r].holder = d /\ db[r].live
         \/ new.gen = db[r].gen + 1
  <2>1. CASE db[r].holder = d /\ db[r].live
    BY <1>1, <2>1 DEF AcquireLease, Row
  <2>2. CASE ~(db[r].holder = d /\ db[r].live)
    <3>1. new = [db[r] EXCEPT !.gen = db[r].gen + 1, !.holder = d, !.live = TRUE]
      BY <2>2 DEF AcquireLease
    <3> HIDE DEF new
    <3> QED BY <1>1, <3>1 DEF Row
  <2> QED BY <2>1, <2>2
<1>6. db[r].gen \in Nat /\ new.gen \in Nat /\ db[r].epoch \in Nat
  BY <1>1 DEF Row
<1>7. /\ db'[r] = new /\ \A q \in Runs : q # r => db'[q] = db[q]
      /\ mem'[d] = m /\ \A e \in Executors : e # d => mem'[e] = mem[e]
  BY <1>1, <1>2, <1>3 DEF TypeInv, DbOK, MemOK
<1>8. \A e \in Executors : /\ mem[e].gen \in Nat
                           /\ mem[e].pc \in Owning => mem[e].cur \in Runs
  BY DEF TypeInv, MemOK, Mem, Owning, InTickRun
<1>9. "recover" \in Owning /\ "recover" \notin Claiming /\ "acquire" \notin Claiming
  BY DEF Owning, Claiming, Pc
<1> HIDE DEF r, new, m
<1>10. \A e \in Executors : (e # d /\ mem[e].pc \in Owning /\ mem[e].cur = r)
                            => mem[e].gen < new.gen
  BY <1>5, <1>6, <1>8 DEF LeaseInv, OwnedGeneration
<1>11. OwnedGeneration'
  <2> SUFFICES ASSUME NEW e \in Executors, mem'[e].pc \in Owning
               PROVE  /\ mem'[e].gen <= db'[mem'[e].cur].gen
                      /\ mem'[e].gen = db'[mem'[e].cur].gen
                           => db'[mem'[e].cur].holder = e
    BY DEF OwnedGeneration
  <2>1. CASE e = d
    BY <2>1, <1>4, <1>5, <1>6, <1>7
  <2>2. CASE e # d /\ mem[e].cur = r
    BY <2>2, <1>6, <1>7, <1>8, <1>10
  <2>3. CASE e # d /\ mem[e].cur # r
    BY <2>3, <1>7, <1>8 DEF LeaseInv, OwnedGeneration
  <2> QED BY <2>1, <2>2, <2>3
<1>12. ClaimedGeneration'
  BY <1>1, <1>5, <1>6, <1>7 DEF LeaseInv, ClaimedGeneration
<1>13. ExclusiveGeneration'
  BY <1>4, <1>6, <1>7, <1>8, <1>10 DEF LeaseInv, ExclusiveGeneration
<1>14. ASSUME storeFaults' = 0 PROVE NoOrphanedClaim'
  <2> SUFFICES ASSUME NEW q \in Runs,
                      db'[q].act = "claimed", db'[q].live,
                      db'[q].epoch = db'[q].gen, db'[q].holder # Gone
               PROVE  /\ db'[q].by = db'[q].holder
                      /\ mem'[db'[q].holder].pc \in Claiming
                      /\ mem'[db'[q].holder].cur = q
                      /\ mem'[db'[q].holder].gen = db'[q].epoch
    BY DEF NoOrphanedClaim
  <2>0. NoOrphanedClaim
    BY <1>14 DEF LeaseInv, TickAcquire, faults
  <2>1. CASE q = r
    <3>1. db[r].act = "claimed" /\ db[r].epoch <= db[r].gen
      BY <2>1, <1>1, <1>5, <1>7 DEF LeaseInv, ClaimedGeneration
    <3>2. new.gen = db[r].gen /\ db[r].holder = d /\ db[r].live
      BY <2>1, <3>1, <1>5, <1>6, <1>7
    <3>3. db[r].holder # Gone /\ db[r].epoch = db[r].gen
      BY <2>1, <3>2, <1>5, <1>7, ExecutorsAssumption
    <3>4. mem[d].pc \in Claiming
      BY <2>0, <3>1, <3>2, <3>3, <1>1 DEF NoOrphanedClaim
    <3> QED BY <3>4, <1>1, <1>9
  <2>2. CASE q # r
    <3>1. db'[q] = db[q] /\ db[q].holder \in Executors
      BY <2>2, <1>7 DEF TypeInv, DbOK, Row
    <3>2. /\ db[q].by = db[q].holder
          /\ mem[db[q].holder].pc \in Claiming
          /\ mem[db[q].holder].cur = q
          /\ mem[db[q].holder].gen = db[q].epoch
      BY <2>0, <3>1 DEF NoOrphanedClaim
    <3>3. db[q].holder # d
      BY <3>2, <1>1, <1>9
    <3> QED BY <3>1, <3>2, <3>3, <1>7
  <2> QED BY <2>1, <2>2
<1> QED BY <1>11, <1>12, <1>13, <1>14 DEF LeaseInv

(* claimContinuation claims under the lease its caller holds. *)
LEMMA ClaimStep ==
  ASSUME TypeInv, LeaseInv, NEW d \in Executors, TickClaim(d), Holds(d),
         Claimable(Current(d))
  PROVE  LeaseInv'
<1> DEFINE r == mem[d].cur
           new == ClaimContinuation(db[r], d, mem[d].gen)
           m == [mem[d] EXCEPT !.pc = "check"]
<1>1. r \in Runs /\ db[r] \in Row /\ mem[d].pc = "claim" /\ mem[d].gen \in Nat
  BY DEF TickClaim, At, TypeInv, DbOK, MemOK, Mem, InTickRun
<1>2. db' = [db EXCEPT ![r] = new]
  BY DEF TickClaim, Write, Current
<1>3. mem' = [mem EXCEPT ![d] = m]
  BY DEF TickClaim, Goto, Become, Current
<1>4. m.pc = "check" /\ m.cur = r /\ m.gen = mem[d].gen
  BY DEF TypeInv, MemOK, Mem
<1>5. /\ new.holder = d /\ new.gen = mem[d].gen /\ new.live = db[r].live
      /\ new.by = d /\ new.epoch = mem[d].gen
      /\ db[r].holder = d /\ db[r].gen = mem[d].gen
  BY <1>1 DEF ClaimContinuation, Row, Holds, LeaseHeld, Current
<1>6. /\ db'[r] = new /\ \A q \in Runs : q # r => db'[q] = db[q]
      /\ mem'[d] = m /\ \A e \in Executors : e # d => mem'[e] = mem[e]
  BY <1>1, <1>2, <1>3 DEF TypeInv, DbOK, MemOK
<1>7. \A e \in Executors : /\ mem[e].gen \in Nat
                           /\ mem[e].pc \in Owning => mem[e].cur \in Runs
  BY DEF TypeInv, MemOK, Mem, Owning, InTickRun
<1>8. /\ "check" \in Owning /\ "check" \in Claiming
      /\ "claim" \in Owning /\ "claim" \notin Claiming
  BY DEF Owning, Claiming, Pc
<1> HIDE DEF r, new, m
<1>9. OwnedGeneration'
  <2> SUFFICES ASSUME NEW e \in Executors, mem'[e].pc \in Owning
               PROVE  /\ mem'[e].gen <= db'[mem'[e].cur].gen
                      /\ mem'[e].gen = db'[mem'[e].cur].gen
                           => db'[mem'[e].cur].holder = e
    BY DEF OwnedGeneration
  <2>1. CASE e = d
    BY <2>1, <1>1, <1>4, <1>5, <1>6
  <2>2. CASE e # d
    BY <2>2, <1>5, <1>6, <1>7 DEF LeaseInv, OwnedGeneration
  <2> QED BY <2>1, <2>2
<1>10. ClaimedGeneration'
  BY <1>1, <1>5, <1>6 DEF LeaseInv, ClaimedGeneration
<1>11. ExclusiveGeneration'
  BY <1>1, <1>4, <1>6, <1>8 DEF LeaseInv, ExclusiveGeneration, r
<1>12. ASSUME storeFaults' = 0 PROVE NoOrphanedClaim'
  <2> SUFFICES ASSUME NEW q \in Runs,
                      db'[q].act = "claimed", db'[q].live,
                      db'[q].epoch = db'[q].gen, db'[q].holder # Gone
               PROVE  /\ db'[q].by = db'[q].holder
                      /\ mem'[db'[q].holder].pc \in Claiming
                      /\ mem'[db'[q].holder].cur = q
                      /\ mem'[db'[q].holder].gen = db'[q].epoch
    BY DEF NoOrphanedClaim
  <2>1. CASE q = r
    BY <2>1, <1>4, <1>5, <1>6, <1>8
  <2>2. CASE q # r
    <3>1. db'[q] = db[q] /\ db[q].holder \in Executors
      BY <2>2, <1>6 DEF TypeInv, DbOK, Row
    <3>2. /\ db[q].by = db[q].holder
          /\ mem[db[q].holder].pc \in Claiming
          /\ mem[db[q].holder].cur = q
          /\ mem[db[q].holder].gen = db[q].epoch
      BY <1>12, <3>1 DEF LeaseInv, NoOrphanedClaim, TickClaim, faults
    <3>3. db[q].holder # d
      BY <3>2, <1>1, <1>8
    <3> QED BY <3>1, <3>2, <3>3, <1>6
  <2> QED BY <2>1, <2>2
<1> QED BY <1>9, <1>10, <1>11, <1>12 DEF LeaseInv

(* A process that ends leaves leases and claims that nobody extends. *)
LEMMA ProcessEndsStep ==
  ASSUME TypeInv, LeaseInv, NEW d \in Executors, ProcessEnds(d),
         storeFaults' = storeFaults
  PROVE  LeaseInv'
<1>1. /\ mem'[d] = Boot /\ \A e \in Executors : e # d => mem'[e] = mem[e]
  BY DEF ProcessEnds, Become, TypeInv, MemOK
<1>2. Boot.pc \notin Owning
  BY DEF Boot, Owning
<1>3. \A r \in Runs :
        /\ db'[r].gen = db[r].gen /\ db'[r].epoch = db[r].epoch
        /\ db'[r].act = db[r].act /\ db'[r].live = db[r].live
        /\ db'[r].holder = IF db[r].holder = d THEN Gone ELSE db[r].holder
        /\ db'[r].by = IF db[r].by = d THEN Gone ELSE db[r].by
  BY DEF ProcessEnds, TypeInv, DbOK, Row
<1>4. \A e \in Executors : mem[e].pc \in Owning => mem[e].cur \in Runs
  BY DEF TypeInv, MemOK, Owning, InTickRun
<1>5. OwnedGeneration'
  BY <1>1, <1>2, <1>3, <1>4 DEF LeaseInv, OwnedGeneration
<1>6. ClaimedGeneration'
  BY <1>3 DEF LeaseInv, ClaimedGeneration
<1>7. ExclusiveGeneration'
  BY <1>1, <1>2 DEF LeaseInv, ExclusiveGeneration
<1>8. ASSUME storeFaults' = 0 PROVE NoOrphanedClaim'
  <2> SUFFICES ASSUME NEW q \in Runs,
                      db'[q].act = "claimed", db'[q].live,
                      db'[q].epoch = db'[q].gen, db'[q].holder # Gone
               PROVE  /\ db'[q].by = db'[q].holder
                      /\ mem'[db'[q].holder].pc \in Claiming
                      /\ mem'[db'[q].holder].cur = q
                      /\ mem'[db'[q].holder].gen = db'[q].epoch
    BY DEF NoOrphanedClaim
  <2>1. db'[q].holder = db[q].holder /\ db[q].holder # d
    BY <1>3
  <2>2. db[q].holder \in Executors
    BY <2>1 DEF TypeInv, DbOK, Row
  <2>3. /\ db[q].by = db[q].holder
        /\ mem[db[q].holder].pc \in Claiming
        /\ mem[db[q].holder].cur = q
        /\ mem[db[q].holder].gen = db[q].epoch
    BY <1>8, <1>3, <2>1 DEF LeaseInv, NoOrphanedClaim
  <2> QED BY <1>1, <1>3, <2>1, <2>2, <2>3
<1> QED BY <1>5, <1>6, <1>7, <1>8 DEF LeaseInv

(* Every step of the system preserves the lease invariant. *)
LEMMA LeaseStep == TypeInv /\ LeaseInv /\ [Next]_vars => LeaseInv'
<1> SUFFICES ASSUME DbOK, MemOK, RestOK, LeaseInv, [Next]_vars
             PROVE  LeaseInv'
  BY DEF TypeInv
<1>q. \A q \in Requests : /\ q.run \in Runs
                          /\ q.kind \in {"pause", "resume", "cancel"}
  BY RequestsAssumption
<1>r. \A r \in Runs : db[r] \in Row
  BY DEF DbOK
<1>c. \A d \in Executors :
        /\ mem[d] \in Mem /\ mem[d].gen \in Nat /\ mem[d].requeue \in BOOLEAN
        /\ mem[d].pc \notin {"idle", "list", "next"}
             => mem[d].cur \in Runs /\ db[mem[d].cur] \in Row
  BY DEF MemOK, DbOK, Mem, InTickRun
<1>1. ASSUME NEW d \in Executors, TickWake(d) PROVE LeaseInv'
  <2>1. QuietDb
    BY <1>1, <1>r, WakeDueRunRow, SameIsKept DEF TickWake, QuietDb
  <2>4. QuietMem
    BY <1>1, QuietGoto
       DEF TickWake, Claiming, Owning, Pc, At
  <2> QED BY <1>1, <2>1, <2>4, Quiet DEF TypeInv, TickWake, faults
<1>2. ASSUME NEW d \in Executors, TickList(d) PROVE LeaseInv'
  <2>1. QuietDb
    BY <1>2, QuietUnchanged DEF TickList
  <2> DEFINE m == [mem[d] EXCEPT
                 !.pc = "next",
                 !.todo = {r \in Runs : db[r].status \in {"queued", "running"}},
                 !.queued = {r \in Runs : db[r].status = "queued"}]
  <2>2. /\ m.pc \in Owning => /\ mem[d].pc \in Owning
                              /\ m.cur = mem[d].cur /\ m.gen = mem[d].gen
        /\ KeptClaim(d) => /\ m.pc \in Claiming
                           /\ m.cur = mem[d].cur /\ m.gen = mem[d].gen
    BY <1>2, <1>c DEF TickList, KeptClaim, At, Mem, Claiming, Owning, Pc
  <2>3. Become(d, m)
    BY <1>2 DEF TickList
  <2>4. QuietMem
    <3> HIDE DEF m
    <3> QED BY <2>2, <2>3, QuietBecome
  <2> QED BY <1>2, <2>1, <2>4, Quiet DEF TypeInv, TickList, faults
<1>3. ASSUME NEW d \in Executors, TickEnd(d) PROVE LeaseInv'
  <2>1. QuietDb
    BY <1>3, QuietUnchanged DEF TickEnd
  <2>4. QuietMem
    BY <1>3, QuietTickReturn
       DEF TickEnd, KeptClaim, Claiming, Owning, Pc, At
  <2> QED BY <1>3, <2>1, <2>4, Quiet DEF TypeInv, TickEnd, faults
<1>4. ASSUME NEW d \in Executors, NEW r \in Runs,
             TickQueuedRun(d, r)
      PROVE  LeaseInv'
  <2>1. QuietDb
    BY <1>4, <1>r, StartRunningRow, QuietUnchanged, SameIsKept, QuietWrite
       DEF TickQueuedRun, NextInList, At
  <2> DEFINE m == [mem[d] EXCEPT !.pc = "acquire", !.cur = r,
                                 !.todo = @ \ {r}, !.queued = @ \ {r}]
  <2>2. /\ m.pc \in Owning => /\ mem[d].pc \in Owning
                              /\ m.cur = mem[d].cur /\ m.gen = mem[d].gen
        /\ KeptClaim(d) => /\ m.pc \in Claiming
                           /\ m.cur = mem[d].cur /\ m.gen = mem[d].gen
    BY <1>4, <1>c DEF TickQueuedRun, NextInList, KeptClaim, At, Mem, Claiming, Owning, Pc
  <2>3. TickReturns(d) \/ Become(d, m)
    BY <1>4 DEF TickQueuedRun, Visit
  <2>4. QuietMem
    <3> HIDE DEF m
    <3>1. ~KeptClaim(d)
      BY <1>4 DEF TickQueuedRun, NextInList, At, KeptClaim, Claiming, Owning
    <3> QED BY <3>1, <2>2, <2>3, QuietBecome, QuietTickReturn
  <2> QED BY <1>4, <2>1, <2>4, Quiet DEF TypeInv, TickQueuedRun, faults
<1>5. ASSUME NEW d \in Executors, NEW r \in Runs,
             TickRunningRun(d, r)
      PROVE  LeaseInv'
  <2>1. QuietDb
    BY <1>5, QuietUnchanged DEF TickRunningRun
  <2> DEFINE m == [mem[d] EXCEPT !.pc = "acquire", !.cur = r,
                                 !.todo = @ \ {r}, !.queued = @ \ {r}]
  <2>2. /\ m.pc \in Owning => /\ mem[d].pc \in Owning
                              /\ m.cur = mem[d].cur /\ m.gen = mem[d].gen
        /\ KeptClaim(d) => /\ m.pc \in Claiming
                           /\ m.cur = mem[d].cur /\ m.gen = mem[d].gen
    BY <1>5, <1>c DEF TickRunningRun, NextInList, KeptClaim, At, Mem, Claiming, Owning, Pc
  <2>3. Become(d, m)
    BY <1>5 DEF TickRunningRun, Visit
  <2>4. QuietMem
    <3> HIDE DEF m
    <3> QED BY <2>2, <2>3, QuietBecome
  <2> QED BY <1>5, <2>1, <2>4, Quiet DEF TypeInv, TickRunningRun, faults
<1>6. ASSUME NEW d \in Executors, TickAcquire(d) PROVE LeaseInv'
  <2>1. CASE LeasedByOther(Current(d), d)
    <3>1. QuietDb
      BY <1>6, <2>1, QuietUnchanged DEF TickAcquire
    <3>2. QuietMem
      BY <1>6, <2>1, QuietTickReturn
         DEF TickAcquire, At, KeptClaim, Claiming, Owning
    <3> QED BY <1>6, <3>1, <3>2, Quiet DEF TypeInv, TickAcquire, faults
  <2>2. CASE ~LeasedByOther(Current(d), d)
    BY <1>6, <2>2, AcquireStep DEF TypeInv
  <2> QED BY <2>1, <2>2
<1>7. ASSUME NEW d \in Executors, TickRecover(d) PROVE LeaseInv'
  <2> DEFINE row == RecoverClaimedWork(Current(d), mem[d].gen)
  <2>0. Current(d) \in Row /\ mem[d].gen \in Nat
    BY <1>7, <1>c DEF TickRecover, At, Current
  <2>1. row \in Row /\ KeepsClaim(Current(d), row)
    <3>1. row \in Row
      BY <2>0, LeaseRows
    <3>2. row = Current(d) \/ row = Unclaimed(Current(d), "pending")
      BY DEF RecoverClaimedWork
    <3>3. KeepsClaim(Current(d), Unclaimed(Current(d), "pending"))
      BY <2>0 DEF KeepsClaim, Unclaimed, Row
    <3>4. KeepsClaim(Current(d), Current(d))
      BY DEF KeepsClaim
    <3> HIDE DEF row
    <3> QED BY <3>1, <3>2, <3>3, <3>4
  <2>2. QuietDb
    <3>1. UNCHANGED db \/ Write(mem[d].cur, row)
      BY <1>7 DEF TickRecover
    <3> HIDE DEF row
    <3> QED BY <1>7, <1>c, <2>1, <3>1, QuietWrite, QuietUnchanged
            DEF TickRecover, At, Current
  <2>3. QuietMem
    BY <1>7, QuietTickReturn, QuietGoto
       DEF TickRecover, At, KeptClaim, Claiming, Owning, Pc
  <2> QED BY <1>7, <2>2, <2>3, Quiet DEF TypeInv, TickRecover, faults
<1>8. ASSUME NEW d \in Executors, TickClaim(d) PROVE LeaseInv'
  <2>1. CASE Holds(d) /\ Claimable(Current(d))
    BY <1>8, <2>1, ClaimStep DEF TypeInv
  <2>2. CASE ~(Holds(d) /\ Claimable(Current(d)))
    <3>1. QuietDb
      BY <1>8, <2>2, QuietUnchanged DEF TickClaim
    <3>2. QuietMem
      BY <1>8, <2>2, QuietTickReturn
         DEF TickClaim, At, KeptClaim, Claiming, Owning
    <3> QED BY <1>8, <3>1, <3>2, Quiet DEF TypeInv, TickClaim, faults
  <2> QED BY <2>1, <2>2
<1>9. ASSUME NEW d \in Executors, TickCheck(d) PROVE LeaseInv'
  <2>1. QuietDb
    BY <1>9, QuietUnchanged DEF TickCheck
  <2>4. QuietMem
    BY <1>9, QuietGoto
       DEF TickCheck, Claiming, Owning, Pc, At
  <2> QED BY <1>9, <2>1, <2>4, Quiet DEF TypeInv, TickCheck, faults
<1>10. ASSUME NEW d \in Executors, TickUnclaim(d) PROVE LeaseInv'
  <2> DEFINE row == Requeued(Current(d), d, mem[d].gen)
  <2>1. mem[d].cur \in Runs /\ Current(d) \in Row /\ mem[d].gen \in Nat
    BY <1>10, <1>c DEF TickUnclaim, At, Current
  <2>2. /\ row \in Row /\ KeepsClaim(Current(d), row)
        /\ ~(row.act = "claimed" /\ row.by = d /\ row.epoch = mem[d].gen)
    BY <2>1, RequeuedContinuationRow DEF KeepsClaim
  <2>3. CASE ~Holds(d)
    <3>1. QuietDb /\ ~KeptClaim(d)
      BY <1>10, <2>3, QuietUnchanged DEF TickUnclaim, KeptClaim
    <3>2. QuietMem
      BY <1>10, <2>3, <3>1, QuietTickReturn DEF TickUnclaim
    <3> QED BY <1>10, <3>1, <3>2, Quiet DEF TypeInv, TickUnclaim, faults
  <2>4. CASE Holds(d)
    <3>1. Write(mem[d].cur, row)
      BY <1>10, <2>4 DEF TickUnclaim, Requeued
    <3> HIDE DEF row
    <3>2. QuietDb
      BY <2>1, <2>2, <3>1, QuietWrite DEF Current
    <3>3. ~KeptClaim(d)
      BY <2>1, <2>2, <3>1 DEF KeptClaim, Write, DbOK
    <3>4. QuietMem
      BY <1>10, <2>4, <3>3, QuietTickReturn DEF TickUnclaim
    <3> QED BY <1>10, <3>2, <3>4, Quiet DEF TypeInv, TickUnclaim, faults
  <2> QED BY <2>3, <2>4
<1>11. ASSUME NEW d \in Executors, Settle(d) PROVE LeaseInv'
  <2> DEFINE row == SettleContinuation(Current(d), d, mem[d].gen, mem[d].requeue)
  <2>0. mem[d].requeue \in BOOLEAN
    BY <1>c
  <2>1. mem[d].cur \in Runs /\ Current(d) \in Row /\ mem[d].gen \in Nat
    BY <1>11, <1>c DEF Settle, At, Current
  <2>2. /\ row \in Row /\ KeepsClaim(Current(d), row)
        /\ ~(row.act = "claimed" /\ row.by = d /\ row.epoch = mem[d].gen)
    BY <2>0, <2>1, SettleContinuationRow DEF KeepsClaim
  <2>3. CASE ~Holds(d)
    <3>1. QuietDb /\ ~KeptClaim(d)
      BY <1>11, <2>3, QuietUnchanged DEF Settle, KeptClaim
    <3>2. QuietMem
      BY <1>11, <2>3, <3>1, QuietTickReturn DEF Settle
    <3> QED BY <1>11, <3>1, <3>2, Quiet DEF TypeInv, Settle, faults
  <2>4. CASE Holds(d)
    <3>1. Write(mem[d].cur, row)
      BY <1>11, <2>4 DEF Settle
    <3> HIDE DEF row
    <3>2. QuietDb
      BY <2>1, <2>2, <3>1, QuietWrite DEF Current
    <3>3. ~KeptClaim(d)
      BY <2>1, <2>2, <3>1 DEF KeptClaim, Write, DbOK
    <3>4. QuietMem
      BY <1>11, <2>4, <3>3, QuietTickReturn DEF Settle
    <3> QED BY <1>11, <3>2, <3>4, Quiet DEF TypeInv, Settle, faults
  <2> QED BY <2>3, <2>4
<1>12. ASSUME NEW d \in Executors, ThrowSettle(d) PROVE LeaseInv'
  <2> DEFINE row == Requeued(Current(d), d, mem[d].gen)
  <2>1. mem[d].cur \in Runs /\ Current(d) \in Row /\ mem[d].gen \in Nat
    BY <1>12, <1>c DEF ThrowSettle, At, Current
  <2>2. /\ row \in Row /\ KeepsClaim(Current(d), row)
        /\ ~(row.act = "claimed" /\ row.by = d /\ row.epoch = mem[d].gen)
    BY <2>1, RequeuedContinuationRow DEF KeepsClaim
  <2>3. CASE ~Holds(d)
    <3>1. QuietDb /\ ~KeptClaim(d)
      BY <1>12, <2>3, QuietUnchanged DEF ThrowSettle, KeptClaim
    <3>2. QuietMem
      BY <1>12, <2>3, <3>1, QuietTickReturn DEF ThrowSettle
    <3> QED BY <1>12, <3>1, <3>2, Quiet DEF TypeInv, ThrowSettle, faults
  <2>4. CASE Holds(d)
    <3>1. Write(mem[d].cur, row)
      BY <1>12, <2>4 DEF ThrowSettle, Requeued
    <3> HIDE DEF row
    <3>2. QuietDb
      BY <2>1, <2>2, <3>1, QuietWrite DEF Current
    <3>3. ~KeptClaim(d)
      BY <2>1, <2>2, <3>1 DEF KeptClaim, Write, DbOK
    <3>4. QuietMem
      BY <1>12, <2>4, <3>3, QuietTickReturn DEF ThrowSettle
    <3> QED BY <1>12, <3>2, <3>4, Quiet DEF TypeInv, ThrowSettle, faults
  <2> QED BY <2>3, <2>4
<1>13. ASSUME NEW d \in Executors, TurnFenced(d) PROVE LeaseInv'
  <2>1. QuietDb
    BY <1>13, QuietUnchanged DEF TurnFenced
  <2>4. QuietMem
    BY <1>13, QuietTickReturn
       DEF TurnFenced, KeptClaim, At
  <2> QED BY <1>13, <2>1, <2>4, Quiet DEF TypeInv, TurnFenced, faults
<1>14. ASSUME NEW d \in Executors, TurnContinues(d) PROVE LeaseInv'
  <2>1. QuietDb
    BY <1>14, QuietUnchanged DEF TurnContinues
  <2>4. QuietMem
    BY <1>14, QuietReturn
       DEF TurnContinues, Turn, Claiming, Owning, Pc, At
  <2> QED BY <1>14, <2>1, <2>4, Quiet DEF TypeInv, TurnContinues, faults
<1>15. ASSUME NEW d \in Executors, TurnExhaustsBudget(d) PROVE LeaseInv'
  <2>1. QuietDb
    BY <1>15, <1>c, ExhaustBudgetRow, QuietUnchanged, SameIsKept, QuietWrite
       DEF TurnExhaustsBudget, Turn, Current, At
  <2>4. QuietMem
    BY <1>15, QuietMemUnchanged DEF TurnExhaustsBudget
  <2> QED BY <1>15, <2>1, <2>4, Quiet DEF TypeInv, TurnExhaustsBudget, faults
<1>16. ASSUME NEW d \in Executors, TurnCompletes(d) PROVE LeaseInv'
  <2>1. QuietDb
    BY <1>16, <1>c, SetStatusRow, RunStatusNames, QuietUnchanged, SameIsKept, QuietWrite
       DEF TurnCompletes, Current, Reasons, At
  <2>4. QuietMem
    BY <1>16, QuietReturn
       DEF TurnCompletes, Claiming, Owning, Pc, At
  <2> QED BY <1>16, <2>1, <2>4, Quiet DEF TypeInv, TurnCompletes, faults
<1>17. ASSUME NEW d \in Executors, TurnAborts(d) PROVE LeaseInv'
  <2>1. QuietDb
    BY <1>17, QuietUnchanged DEF TurnAborts
  <2>4. QuietMem
    BY <1>17, QuietReturn
       DEF TurnAborts, Claiming, Owning, Pc, At
  <2> QED BY <1>17, <2>1, <2>4, Quiet DEF TypeInv, TurnAborts, faults
<1>18. ASSUME NEW d \in Executors, TurnRetriesLater(d) PROVE LeaseInv'
  <2>1. QuietDb
    BY <1>18, <1>c, ScheduleWakeRow, QuietUnchanged, SameIsKept, QuietWrite
       DEF TurnRetriesLater, Turn, Current, At
  <2>4. QuietMem
    BY <1>18, QuietReturn
       DEF TurnRetriesLater, Turn, Claiming, Owning, Pc, At
  <2> QED BY <1>18, <2>1, <2>4, Quiet DEF TypeInv, TurnRetriesLater, faults
<1>19. ASSUME NEW d \in Executors, TurnFails(d) PROVE LeaseInv'
  <2>1. QuietDb
    BY <1>19, QuietUnchanged DEF TurnFails
  <2>4. QuietMem
    BY <1>19, QuietGoto
       DEF TurnFails, Turn, Claiming, Owning, Pc, At
  <2> QED BY <1>19, <2>1, <2>4, Quiet DEF TypeInv, TurnFails, faults
<1>20. ASSUME NEW d \in Executors, TurnRecordsProblem(d) PROVE LeaseInv'
  <2>1. QuietDb
    BY <1>20, <1>c, RecordProblemRow, QuietUnchanged, SameIsKept, QuietWrite
       DEF TurnRecordsProblem, Current, At
  <2>4. QuietMem
    BY <1>20, QuietGoto
       DEF TurnRecordsProblem, Claiming, Owning, Pc, At
  <2> QED BY <1>20, <2>1, <2>4, Quiet DEF TypeInv, TurnRecordsProblem, faults
<1>21. ASSUME NEW d \in Executors, TurnReadsStatus(d) PROVE LeaseInv'
  <2>1. QuietDb
    BY <1>21, QuietUnchanged DEF TurnReadsStatus
  <2>4. QuietMem
    BY <1>21, QuietGoto, QuietReturn
       DEF TurnReadsStatus, Claiming, Owning, Pc, At
  <2> QED BY <1>21, <2>1, <2>4, Quiet DEF TypeInv, TurnReadsStatus, faults
<1>22. ASSUME NEW d \in Executors, TurnParks(d) PROVE LeaseInv'
  <2>1. QuietDb
    BY <1>22, <1>c, SetStatusRow, RunStatusNames, QuietUnchanged, SameIsKept, QuietWrite
       DEF TurnParks, ParkOrThrow, Current, Reasons, At
  <2>4. QuietMem
    BY <1>22, QuietTickReturn, QuietGoto, QuietReturn
       DEF TurnParks, ParkOrThrow, KeptClaim, Claiming, Owning, Pc, At
  <2> QED BY <1>22, <2>1, <2>4, Quiet DEF TypeInv, TurnParks, faults
<1>23. ASSUME NEW d \in Executors, NEW a \in Approvals,
             TurnNeedsApproval(d, a)
      PROVE  LeaseInv'
  <2>1. QuietDb
    BY <1>23, <1>c, RequestApprovalRow, QuietUnchanged, SameIsKept, QuietWrite
       DEF TurnNeedsApproval, Turn, Current, At
  <2> DEFINE m == [mem[d] EXCEPT !.pc = "apprRead", !.appr = a]
  <2>2. /\ m.pc \in Owning => /\ mem[d].pc \in Owning
                              /\ m.cur = mem[d].cur /\ m.gen = mem[d].gen
        /\ KeptClaim(d) => /\ m.pc \in Claiming
                           /\ m.cur = mem[d].cur /\ m.gen = mem[d].gen
    BY <1>23, <1>c DEF TurnNeedsApproval, Turn, KeptClaim, At, Mem, Claiming, Owning, Pc
  <2>3. Become(d, m)
    BY <1>23 DEF TurnNeedsApproval
  <2>4. QuietMem
    <3> HIDE DEF m
    <3> QED BY <2>2, <2>3, QuietBecome
  <2> QED BY <1>23, <2>1, <2>4, Quiet DEF TypeInv, TurnNeedsApproval, faults
<1>24. ASSUME NEW d \in Executors, TurnReadsApproval(d) PROVE LeaseInv'
  <2>1. QuietDb
    BY <1>24, QuietUnchanged DEF TurnReadsApproval
  <2>4. QuietMem
    BY <1>24, QuietTickReturn, QuietGoto, QuietReturn
       DEF TurnReadsApproval, KeptClaim, Claiming, Owning, Pc, At
  <2> QED BY <1>24, <2>1, <2>4, Quiet DEF TypeInv, TurnReadsApproval, faults
<1>25. ASSUME NEW d \in Executors, TurnAwaitsApproval(d) PROVE LeaseInv'
  <2>1. QuietDb
    BY <1>25, <1>c, SetStatusRow, RunStatusNames, QuietUnchanged, SameIsKept, QuietWrite
       DEF TurnAwaitsApproval, ParkOrThrow, Current, Reasons, At
  <2>4. QuietMem
    BY <1>25, QuietTickReturn, QuietGoto, QuietReturn
       DEF TurnAwaitsApproval, ParkOrThrow, KeptClaim, Claiming, Owning, Pc, At
  <2> QED BY <1>25, <2>1, <2>4, Quiet DEF TypeInv, TurnAwaitsApproval, faults
<1>26. ASSUME NEW d \in Executors, NEW r \in Runs,
             PostRun(d, r)
      PROVE  LeaseInv'
  <2>1. QuietDb
    BY <1>26, <1>r, CreateRunRow, QuietUnchanged, SameIsKept, QuietWrite
       DEF PostRun, At
  <2>4. QuietMem
    BY <1>26, QuietMemUnchanged DEF PostRun
  <2> QED BY <1>26, <2>1, <2>4, Quiet DEF TypeInv, PostRun, faults
<1>27. ASSUME NEW d \in Executors, NEW q \in Requests,
             PostCommand(d, q)
      PROVE  LeaseInv'
  <2>1. QuietDb
    BY <1>27, <1>r, ExecuteCommandRow, <1>q, QuietUnchanged, SameIsKept, QuietWrite
       DEF PostCommand, At
  <2> DEFINE m == [mem[d] EXCEPT !.aborted = TRUE]
  <2>2. /\ m.pc \in Owning => /\ mem[d].pc \in Owning
                              /\ m.cur = mem[d].cur /\ m.gen = mem[d].gen
        /\ KeptClaim(d) => /\ m.pc \in Claiming
                           /\ m.cur = mem[d].cur /\ m.gen = mem[d].gen
    BY <1>27, <1>c DEF PostCommand, KeptClaim, At, Mem, Claiming, Owning, Pc
  <2>3. UNCHANGED mem \/ Become(d, m)
    BY <1>27 DEF PostCommand, AbortRun
  <2>4. QuietMem
    <3> HIDE DEF m
    <3> QED BY <2>2, <2>3, QuietBecome, QuietMemUnchanged
  <2> QED BY <1>27, <2>1, <2>4, Quiet DEF TypeInv, PostCommand, faults
<1>28. ASSUME NEW d \in Executors, NEW r \in Runs, NEW a \in Approvals,
             PostApproval(d, r, a)
      PROVE  LeaseInv'
  <2>1. QuietDb
    BY <1>28, <1>r, ResolveApprovalRow, QuietUnchanged, SameIsKept, QuietWrite
       DEF PostApproval, At
  <2>4. QuietMem
    BY <1>28, QuietMemUnchanged DEF PostApproval
  <2> QED BY <1>28, <2>1, <2>4, Quiet DEF TypeInv, PostApproval, faults
<1>29. ASSUME NEW d \in Executors, TurnThrows(d) PROVE LeaseInv'
  <2>1. QuietDb
    BY <1>29, QuietUnchanged DEF TurnThrows
  <2> DEFINE m == [mem[d] EXCEPT !.pc = "throwSettle", !.aborted = FALSE]
  <2>2. /\ m.pc \in Owning => /\ mem[d].pc \in Owning
                              /\ m.cur = mem[d].cur /\ m.gen = mem[d].gen
        /\ KeptClaim(d) => /\ m.pc \in Claiming
                           /\ m.cur = mem[d].cur /\ m.gen = mem[d].gen
    BY <1>29, <1>c DEF TurnThrows, KeptClaim, At, Mem, Claiming, Owning, Pc
  <2>3. Become(d, m)
    BY <1>29 DEF TurnThrows
  <2>4. QuietMem
    <3> HIDE DEF m
    <3> QED BY <2>2, <2>3, QuietBecome
  <2> QED BY <1>29, <2>1, <2>4, Quiet DEF TypeInv, TurnThrows, faults
<1>30. ASSUME NEW d \in Executors, StoreBusy(d) PROVE LeaseInv'
  <2>1. QuietDb
    BY <1>30, QuietUnchanged DEF StoreBusy
  <2>2. storeFaults' # 0
    BY <1>30 DEF StoreBusy, RestOK
  <2>3. \A e \in Executors :
          mem'[e].pc \in Owning => /\ mem[e].pc \in Owning
                                   /\ mem'[e].cur = mem[e].cur
                                   /\ mem'[e].gen = mem[e].gen
    <3>1. CASE At(d, "settle")
      BY <1>30, <3>1, QuietGoto
         DEF StoreBusy, At, QuietMem, Claiming, Owning, Pc
    <3>2. CASE ~At(d, "settle")
      <4> DEFINE n == [Boot EXCEPT !.stopping = mem[d].stopping]
      <4>1. n.pc \notin Owning
        BY DEF Boot, Owning
      <4>2. Become(d, n)
        BY <1>30, <3>2 DEF StoreBusy, TickReturns
      <4> HIDE DEF n
      <4> QED BY <4>1, <4>2 DEF Become, MemOK
    <3> QED BY <3>1, <3>2
  <2> QED BY <2>1, <2>2, <2>3, QuietStep DEF TypeInv
<1>31. ASSUME NEW d \in Executors, Crash(d) PROVE LeaseInv'
  BY <1>31, ProcessEndsStep DEF Crash, TypeInv
<1>32. ASSUME NEW d \in Executors, Stop(d) PROVE LeaseInv'
  <2>1. QuietDb
    BY <1>32, QuietUnchanged DEF Stop
  <2> DEFINE m == [mem[d] EXCEPT !.stopping = TRUE, !.aborted = At(d, "exec")]
  <2>2. /\ m.pc \in Owning => /\ mem[d].pc \in Owning
                              /\ m.cur = mem[d].cur /\ m.gen = mem[d].gen
        /\ KeptClaim(d) => /\ m.pc \in Claiming
                           /\ m.cur = mem[d].cur /\ m.gen = mem[d].gen
    BY <1>32, <1>c DEF Stop, KeptClaim, At, Mem, Claiming, Owning, Pc
  <2>3. Become(d, m)
    BY <1>32 DEF Stop
  <2>4. QuietMem
    <3> HIDE DEF m
    <3> QED BY <2>2, <2>3, QuietBecome
  <2> QED BY <1>32, <2>1, <2>4, Quiet DEF TypeInv, Stop, faults
<1>33. ASSUME NEW d \in Executors, Exit(d) PROVE LeaseInv'
  BY <1>33, ProcessEndsStep DEF Exit, TypeInv, faults
<1>34. ASSUME NEW r \in Runs, TimerDue(r) PROVE LeaseInv'
  <2> DEFINE row == [db[r] EXCEPT !.timers = @ - 1, !.due = TRUE]
  <2>1. QuietDb
    <3>1. row \in Row /\ KeepsClaim(db[r], row)
      <4>1. db[r] \in Row /\ db[r].timers - 1 \in Nat
        BY <1>34, <1>r DEF TimerDue, Row
      <4> QED BY <4>1 DEF Row, KeepsClaim
    <3>2. Write(r, row)
      BY <1>34 DEF TimerDue
    <3> HIDE DEF row
    <3> QED BY <3>1, <3>2, QuietWrite
  <2>4. QuietMem
    BY <1>34, QuietMemUnchanged DEF TimerDue
  <2> QED BY <1>34, <2>1, <2>4, Quiet DEF TypeInv, TimerDue, faults
<1>35. ASSUME NEW r \in Runs, LeaseExpires(r) PROVE LeaseInv'
  <2> DEFINE row == [db[r] EXCEPT !.live = FALSE]
  <2>1. QuietDb
    <3>1. row \in Row /\ KeepsClaim(db[r], row)
      BY <1>r DEF Row, KeepsClaim
    <3>2. Write(r, row)
      BY <1>35 DEF LeaseExpires
    <3> HIDE DEF row
    <3> QED BY <3>1, <3>2, QuietWrite
  <2>4. QuietMem
    BY <1>35, QuietMemUnchanged DEF LeaseExpires
  <2> QED BY <1>35, <2>1, <2>4, Quiet DEF TypeInv, LeaseExpires, faults
<1>36. CASE UNCHANGED vars
  BY <1>36, QuietUnchanged, QuietMemUnchanged, Quiet DEF TypeInv, vars
<1> QED
  BY <1>1, <1>2, <1>3, <1>4, <1>5, <1>6, <1>7, <1>8, <1>9, <1>10, <1>11, <1>12,
     <1>13, <1>14, <1>15, <1>16, <1>17, <1>18, <1>19, <1>20, <1>21, <1>22, <1>23, <1>24,
     <1>25, <1>26, <1>27, <1>28, <1>29, <1>30, <1>31, <1>32, <1>33, <1>34, <1>35, <1>36
     DEF Next, Scheduler, Executor, User, Fault, Clock

(* No lease, no claim and no daemon at work: the invariant holds           *)
(* initially.                                                              *)
LEMMA LeaseInit == Init => LeaseInv
  BY DEF Init, LeaseInv, OwnedGeneration, ClaimedGeneration,
         ExclusiveGeneration, NoOrphanedClaim, NoRun, Boot, Owning

(* The inductive invariant holds of every behaviour.                       *)
LEMMA LeaseInvariant == Spec => [](TypeInv /\ LeaseInv)
  BY TypeInit, TypeStep, LeaseInit, LeaseStep, PTL DEF Spec

(* Two daemons never work on a Run under the same lease generation         *)
(* (acquireLease in store.ts, tickRun in scheduler.ts), for every number of*)
(* daemons and Runs, every pattern of expiry, takeover, crash and restart. *)
THEOREM LeasesAreExclusive == Spec => []ExclusiveGeneration
<1>1. LeaseInv => ExclusiveGeneration
  BY DEF LeaseInv
<1> QED BY <1>1, LeaseInvariant, PTL

(* As long as no settle transaction is lost, a claimed continuation under  *)
(* a lease that is being extended is being worked on by that lease's       *)
(* holder (claimContinuation, recoverClaimedWork and settleContinuation in *)
(* store.ts, tickRun in scheduler.ts).                                     *)
THEOREM ClaimsAreNotOrphaned ==
  Spec => [](MaxStoreFaults = 0 => NoOrphanedClaim)
<1> DEFINE Bounded == storeFaults <= MaxStoreFaults
<1>1. Init => Bounded
  BY BoundsAssumption DEF Init
<1>2. Bounded /\ TypeInv /\ [Next]_vars => Bounded'
  <2> SUFFICES ASSUME Bounded, RestOK, [Next]_vars PROVE Bounded'
    BY DEF TypeInv
  <2>1. ASSUME NEW d \in Executors, StoreBusy(d) PROVE Bounded'
    BY <2>1, BoundsAssumption DEF StoreBusy, RestOK
  <2>2. ASSUME storeFaults' = storeFaults PROVE Bounded'
    BY <2>2
  <2>3. (\E d \in Executors : StoreBusy(d)) \/ storeFaults' = storeFaults
    BY DEF Next, Scheduler, Executor, User, Fault, Clock, vars, faults,
           TickWake, TickList, TickEnd, TickQueuedRun, TickRunningRun,
           TickAcquire, TickRecover, TickClaim, TickCheck, TickUnclaim,
           Settle, ThrowSettle, TurnFenced, TurnContinues,
           TurnExhaustsBudget, TurnCompletes, TurnAborts, TurnRetriesLater,
           TurnFails, TurnRecordsProblem, TurnReadsStatus, TurnParks,
           TurnNeedsApproval, TurnReadsApproval, TurnAwaitsApproval, PostRun,
           PostCommand, PostApproval, TurnThrows, Crash, Stop, Exit,
           TimerDue, LeaseExpires
  <2> QED BY <2>1, <2>2, <2>3
<1>3. Bounded /\ TypeInv /\ LeaseInv => (MaxStoreFaults = 0 => NoOrphanedClaim)
  BY DEF LeaseInv, TypeInv, RestOK
<1> HIDE DEF Bounded
<1> QED BY <1>1, <1>2, <1>3, LeaseInvariant, PTL DEF Spec
-----------------------------------------------------------------------------
(* One daemon.  A Run that is driven has its continuation, a Run that      *)
(* waits has what ends the wait; NoStrandedRun and WaitingHasWaker say     *)
(* that of every row.                                                      *)
Driving(row)  == row.status = "running" /\ ShouldContinueGoal(row.goal)
Driven(row)   == Driving(row) => row.act # "none"
Wakeable(row) ==
  row.status = "waiting_external" =>
    /\ row.reason = "none" => row.timers > 0 \/ row.due
    /\ row.reason = "approval" => PendingApprovals(row) # {}
Cared(row)    == Driven(row) /\ Wakeable(row)

(* transitionRunInternal to a status in which nobody drives or wakes the   *)
(* Run, and to a wait that an operator ends.                               *)
LEMMA SetStatusCared ==
  ASSUME NEW row \in Row, NEW to \in RunStatus, NEW why \in Reasons,
         to # "running",
         \/ to # "waiting_external"
         \/ why = "provider"
         \/ why = "approval" /\ PendingApprovals(row) # {}
  PROVE  Cared(SetStatus(row, to, why))
<1>1. /\ SetStatus(row, to, why).status = to
      /\ SetStatus(row, to, why).reason = why
      /\ SetStatus(row, to, why).approvals = row.approvals
  BY DEF SetStatus, Row
<1> QED BY <1>1 DEF Cared, Driven, Driving, Wakeable, PendingApprovals, Reasons

(* ensureContinuationInternal gives a driven Run its continuation and      *)
(* changes nothing that a wait depends on.                                 *)
LEMMA EnsureContinuationCared ==
  ASSUME NEW row \in Row
  PROVE  /\ Driven(EnsureContinuation(row))
         /\ Wakeable(row) => Wakeable(EnsureContinuation(row))
<1> DEFINE new == EnsureContinuation(row)
<1>1. /\ new.status = row.status /\ new.goal = row.goal
      /\ new.reason = row.reason /\ new.timers = row.timers
      /\ new.due = row.due /\ new.approvals = row.approvals
      /\ Driving(row) => new.act # "none"
  BY DEF EnsureContinuation, Row, Driving
<1> HIDE DEF new
<1>2. Driven(new) /\ (Wakeable(row) => Wakeable(new))
  BY <1>1 DEF Driven, Driving, Wakeable, PendingApprovals
<1> QED BY <1>2 DEF new

(* transitionRun to running: the continuation is made with it. *)
LEMMA StartRunningCared ==
  ASSUME NEW row \in Row
  PROVE  Cared(StartRunning(row))
<1> DEFINE run == SetStatus(row, "running", "none")
<1>1. run \in Row
  BY SetStatusRow, RunStatusNames DEF Reasons
<1>2. run.status = "running"
  BY DEF SetStatus, Row
<1>3. StartRunning(row) = EnsureContinuation(run)
  BY DEF StartRunning
<1> HIDE DEF run
<1> QED BY <1>1, <1>2, <1>3, EnsureContinuationCared DEF Cared, Wakeable

(* scheduleWake arms the timer in the same transaction that starts the     *)
(* wait.                                                                   *)
LEMMA ScheduleWakeCared ==
  ASSUME NEW row \in Row, Cared(row)
  PROVE  Cared(ScheduleWake(row)) /\ ~Driving(ScheduleWake(row))
<1> DEFINE new == ScheduleWake(row)
<1>1. /\ new.timers = row.timers + 1 /\ row.timers \in Nat
      /\ new.goal = row.goal /\ new.act = row.act
      /\ new.approvals = row.approvals
      /\ \/ row.status = "running" /\ new.status = "waiting_external"
                                   /\ new.reason = "none"
         \/ row.status # "running" /\ new.status = row.status
                                   /\ new.reason = row.reason
  BY DEF ScheduleWake, SetStatus, Row
<1> HIDE DEF new
<1>2. new.timers > 0
  BY <1>1
<1>3. Cared(new) /\ ~Driving(new)
  BY <1>1, <1>2 DEF Cared, Driven, Driving, Wakeable, PendingApprovals
<1> QED BY <1>3 DEF new

(* wakeDueRuns consumes the due timer only together with the wait.         *)
LEMMA WakeDueRunCared ==
  ASSUME NEW row \in Row, Cared(row)
  PROVE  Cared(WakeDueRun(row))
<1> DEFINE woken == [row EXCEPT !.due = FALSE]
<1>1. woken \in Row /\ woken.status = row.status
  BY DEF Row
<1>2. CASE ~row.due
  BY <1>2 DEF WakeDueRun
<1>3. CASE row.due /\ row.status = "waiting_external"
  <2>1. WakeDueRun(row) = StartRunning(woken)
    BY <1>3 DEF WakeDueRun
  <2> HIDE DEF woken
  <2> QED BY <1>1, <2>1, StartRunningCared
<1>4. CASE row.due /\ row.status # "waiting_external"
  <2>1. WakeDueRun(row) = EnsureContinuation(woken)
    BY <1>4 DEF WakeDueRun
  <2> HIDE DEF woken
  <2>2. Wakeable(woken)
    BY <1>1, <1>4 DEF Wakeable
  <2> QED BY <1>1, <2>1, <2>2, EnsureContinuationCared DEF Cared
<1> QED BY <1>2, <1>3, <1>4

(* requestApproval only adds to what may end a wait.                       *)
LEMMA RequestApprovalCared ==
  ASSUME NEW row \in Row, NEW a \in Approvals, Cared(row)
  PROVE  Cared(RequestApproval(row, a))
<1> DEFINE new == RequestApproval(row, a)
<1>1. /\ new.status = row.status /\ new.goal = row.goal
      /\ new.reason = row.reason /\ new.timers = row.timers
      /\ new.due = row.due /\ new.act = row.act
      /\ \A b \in Approvals : row.approvals[b] = "pending"
                              => new.approvals[b] = "pending"
  BY DEF RequestApproval, Row
<1> HIDE DEF new
<1>2. PendingApprovals(row) \subseteq PendingApprovals(new)
  BY <1>1 DEF PendingApprovals
<1>3. Cared(new)
  BY <1>1, <1>2 DEF Cared, Driven, Driving, Wakeable
<1> QED BY <1>3 DEF new

(* resolveApproval: the last decision ends the wait in its transaction. *)
LEMMA ResolveApprovalCared ==
  ASSUME NEW row \in Row, NEW a \in Approvals, Cared(row)
  PROVE  Cared(ResolveApproval(row, a))
<1> DEFINE resolved == [row EXCEPT !.approvals[a] = "resolved"]
<1>1. /\ resolved \in Row
      /\ resolved.status = row.status /\ resolved.goal = row.goal
      /\ resolved.reason = row.reason /\ resolved.timers = row.timers
      /\ resolved.due = row.due /\ resolved.act = row.act
  BY DEF Row, ApprovalStatus
<1>2. CASE PendingApprovals(resolved) = {} /\ row.status = "waiting_external"
  <2>1. ResolveApproval(row, a) = StartRunning(resolved)
    BY <1>2 DEF ResolveApproval
  <2> HIDE DEF resolved
  <2> QED BY <1>1, <2>1, StartRunningCared
<1>3. CASE ~(PendingApprovals(resolved) = {}
             /\ row.status = "waiting_external")
  <2>1. ResolveApproval(row, a) = resolved
    BY <1>3 DEF ResolveApproval
  <2> HIDE DEF resolved
  <2> QED BY <1>1, <1>3, <2>1 DEF Cared, Driven, Driving, Wakeable
<1> QED BY <1>2, <1>3

(* recordProblem blocks a Run or leaves its status alone. *)
LEMMA RecordProblemCared ==
  ASSUME NEW row \in Row, NEW retryable \in BOOLEAN, Cared(row)
  PROVE  Cared(RecordProblem(row, retryable))
<1> DEFINE new == RecordProblem(row, retryable)
<1>1. /\ new.act = row.act /\ new.timers = row.timers
      /\ new.due = row.due /\ new.approvals = row.approvals
      /\ \/ new.status = "blocked"
         \/ new.status = row.status /\ new.reason = row.reason
      /\ new.goal = row.goal \/ new.goal = "blocked"
  BY DEF RecordProblem, BlockRunForProblem, SetStatus, Row
<1> HIDE DEF new
<1>2. Cared(new)
  BY <1>1 DEF Cared, Driven, Driving, Wakeable, PendingApprovals,
              ShouldContinueGoal
<1> QED BY <1>2 DEF new

(* A user's command starts the Run with its continuation or stops it. *)
LEMMA ExecuteCommandCared ==
  ASSUME NEW row \in Row, NEW kind \in {"pause", "resume", "cancel"},
         Cared(row)
  PROVE  Cared(ExecuteCommand(row, kind))
<1>1. CommandTarget(row, kind) \in {"paused", "cancelled", "running", "queued"}
  BY DEF CommandTarget
<1>2. \/ ExecuteCommand(row, kind) = row
      \/ ExecuteCommand(row, kind) = StartRunning(row)
      \/ /\ CommandTarget(row, kind) # "running"
         /\ ExecuteCommand(row, kind)
              = SetStatus(row, CommandTarget(row, kind), "none")
  BY DEF ExecuteCommand
<1> QED BY <1>1, <1>2, SetStatusCared, StartRunningCared, RunStatusNames
           DEF Reasons

(* What a row keeps when its status, its wait and its continuation stay,   *)
(* or a timer becomes due.                                                 *)
LEMMA KeptCare ==
  ASSUME NEW row \in Row, Cared(row), NEW new,
         /\ new.status = row.status /\ new.goal = row.goal
         /\ new.reason = row.reason /\ new.approvals = row.approvals
         /\ new.due \/ (new.timers = row.timers /\ new.due = row.due)
         /\ new.act = row.act \/ new.act # "none"
  PROVE  Cared(new)
  BY DEF Cared, Driven, Driving, Wakeable, PendingApprovals

(* Budget, creation and the clock: none of them leaves a driven Run        *)
(* without its continuation or a wait without its end.                     *)
LEMMA UnfencedRowsCared ==
  ASSUME NEW row \in Row, Cared(row)
  PROVE  /\ Cared(ExhaustBudget(row))
         /\ Cared(CreateRun(row))
         /\ Cared([row EXCEPT !.live = FALSE])
         /\ Cared([row EXCEPT !.timers = @ - 1, !.due = TRUE])
<1>1. Cared(ExhaustBudget(row))
  BY SetStatusCared, RunStatusNames DEF ExhaustBudget, Reasons
<1>2. Cared(CreateRun(row))
  <2>1. [row EXCEPT !.status = "queued"] \in Row
    BY RunStatusNames DEF Row
  <2> QED BY <2>1, StartRunningCared DEF CreateRun
<1>3. Cared([row EXCEPT !.live = FALSE])
  <2> DEFINE new == [row EXCEPT !.live = FALSE]
  <2>1. /\ new.status = row.status /\ new.goal = row.goal
        /\ new.reason = row.reason /\ new.approvals = row.approvals
        /\ new.timers = row.timers /\ new.due = row.due
        /\ new.act = row.act
    BY DEF Row
  <2> HIDE DEF new
  <2>2. Cared(new)
    BY <2>1, KeptCare
  <2> QED BY <2>2 DEF new
<1>4. Cared([row EXCEPT !.timers = @ - 1, !.due = TRUE])
  <2> DEFINE new == [row EXCEPT !.timers = @ - 1, !.due = TRUE]
  <2>1. /\ new.status = row.status /\ new.goal = row.goal
        /\ new.reason = row.reason /\ new.approvals = row.approvals
        /\ new.due = TRUE /\ new.act = row.act
    BY DEF Row
  <2> HIDE DEF new
  <2>2. Cared(new)
    BY <2>1, KeptCare
  <2> QED BY <2>2 DEF new
<1> QED BY <1>1, <1>2, <1>3, <1>4

(* The row after its holder's or claimant's process ended. *)
Ended(row, d) == [row EXCEPT !.holder = IF @ = d THEN Gone ELSE @,
                             !.by = IF @ = d THEN Gone ELSE @]

(* acquireLease, and the end of a process that held leases and claims.     *)
LEMMA LeaseRowsCared ==
  ASSUME NEW row \in Row, NEW d \in Executors, Cared(row)
  PROVE  /\ Cared(AcquireLease(row, d))
         /\ Cared(Ended(row, d))
<1>1. Cared(AcquireLease(row, d))
  <2> DEFINE new == AcquireLease(row, d)
  <2>1. /\ new.status = row.status /\ new.goal = row.goal
        /\ new.reason = row.reason /\ new.approvals = row.approvals
        /\ new.timers = row.timers /\ new.due = row.due
        /\ new.act = row.act
    BY DEF AcquireLease, Row
  <2> HIDE DEF new
  <2>2. Cared(new)
    BY <2>1, KeptCare
  <2> QED BY <2>2 DEF new
<1>2. Cared(Ended(row, d))
  <2> DEFINE new == Ended(row, d)
  <2>1. /\ new.status = row.status /\ new.goal = row.goal
        /\ new.reason = row.reason /\ new.approvals = row.approvals
        /\ new.timers = row.timers /\ new.due = row.due
        /\ new.act = row.act
    BY DEF Ended, Row
  <2> HIDE DEF new
  <2>2. Cared(new)
    BY <2>1, KeptCare
  <2> QED BY <2>2 DEF new
<1> QED BY <1>1, <1>2

(* recoverClaimedWork and claimContinuation keep the continuation.         *)
LEMMA ClaimRowsCared ==
  ASSUME NEW row \in Row, NEW d \in Executors, NEW g \in Nat, Cared(row)
  PROVE  /\ Cared(RecoverClaimedWork(row, g))
         /\ Cared(ClaimContinuation(row, d, g))
<1>1. Cared(RecoverClaimedWork(row, g))
  <2> DEFINE new == RecoverClaimedWork(row, g)
  <2>1. /\ new.status = row.status /\ new.goal = row.goal
        /\ new.reason = row.reason /\ new.approvals = row.approvals
        /\ new.timers = row.timers /\ new.due = row.due
        /\ new.act = row.act \/ new.act # "none"
    BY DEF RecoverClaimedWork, Unclaimed, Row
  <2> HIDE DEF new
  <2>2. Cared(new)
    BY <2>1, KeptCare
  <2> QED BY <2>2 DEF new
<1>2. Cared(ClaimContinuation(row, d, g))
  <2> DEFINE new == ClaimContinuation(row, d, g)
  <2>1. /\ new.status = row.status /\ new.goal = row.goal
        /\ new.reason = row.reason /\ new.approvals = row.approvals
        /\ new.timers = row.timers /\ new.due = row.due
        /\ new.act = "claimed"
    BY DEF ClaimContinuation, Row
  <2> HIDE DEF new
  <2>2. Cared(new)
    BY <2>1, KeptCare
  <2> QED BY <2>2 DEF new
<1> QED BY <1>1, <1>2

(* settleContinuation deletes the continuation of a driven Run only to     *)
(* make it again.                                                          *)
LEMMA SettleContinuationCared ==
  ASSUME NEW row \in Row, NEW d \in Executors, NEW g \in Nat, Cared(row)
  PROVE  /\ Cared(SettleContinuation(row, d, g, TRUE))
         /\ ~Driving(row) => Cared(SettleContinuation(row, d, g, FALSE))
<1> DEFINE released == IF row.act = "claimed" /\ row.by = d /\ row.epoch = g
                       THEN Unclaimed(row, "none")
                       ELSE row
<1>1. /\ released \in Row
      /\ released.status = row.status /\ released.goal = row.goal
      /\ released.reason = row.reason /\ released.timers = row.timers
      /\ released.due = row.due /\ released.approvals = row.approvals
  BY DEF Unclaimed, Row, ActionStatus
<1>2. /\ SettleContinuation(row, d, g, TRUE) = EnsureContinuation(released)
      /\ SettleContinuation(row, d, g, FALSE) = released
  BY DEF SettleContinuation
<1> HIDE DEF released
<1>3. Wakeable(released)
  BY <1>1 DEF Cared, Wakeable, PendingApprovals
<1>4. ~Driving(row) => Driven(released)
  BY <1>1 DEF Driven, Driving
<1> QED BY <1>1, <1>2, <1>3, <1>4, EnsureContinuationCared DEF Cared

(* What the daemon's turn has seen is still true when it acts on it: it    *)
(* does not ask for a requeue only if its Run need not be driven, and it   *)
(* starts to wait for an approval only while that approval is pending.     *)
TurnCares(d) ==
  /\ mem[d].pc = "settle" /\ ~mem[d].requeue => ~Driving(Current(d))
  /\ mem[d].pc \in {"apprRead", "apprWait"} => mem[d].appr \in Approvals
  /\ mem[d].pc = "apprWait"
       => Current(d).approvals[mem[d].appr] = "pending"

RowsCared == \A r \in Runs : Cared(db[r])
CareInv   == RowsCared /\ \A d \in Executors : TurnCares(d)

(* The daemon is the only one that uses the database. *)
Alone == \A d, e \in Executors : d = e

(* What a write of a row that is cared for, or no write, means for all     *)
(* rows.                                                                   *)
LEMMA CaredWrite ==
  ASSUME DbOK, RowsCared, NEW r \in Runs, NEW row, Cared(row), Write(r, row)
  PROVE  RowsCared'
  BY DEF DbOK, RowsCared, Write

(* A turn that is not about to settle or to wait has nothing to remember.  *)
LEMMA NothingSeen ==
  ASSUME MemOK, NEW d \in Executors, NEW m, Become(d, m),
         m.pc \notin {"settle", "apprRead", "apprWait"}
  PROVE  TurnCares(d)'
<1>1. mem'[d] = m
  BY DEF MemOK, Become
<1> QED BY <1>1 DEF TurnCares

(* Goto, for every place but those.                                        *)
LEMMA GotoNothingSeen ==
  ASSUME MemOK, NEW d \in Executors, NEW p, Goto(d, p),
         p \notin {"settle", "apprRead", "apprWait"}
  PROVE  TurnCares(d)'
<1> DEFINE m == [mem[d] EXCEPT !.pc = p]
<1>1. m.pc = p
  BY DEF MemOK, Mem
<1>2. Become(d, m)
  BY DEF Goto
<1> HIDE DEF m
<1> QED BY <1>1, <1>2, NothingSeen

(* tickRun or the tick returns.                                            *)
LEMMA TickReturnNothingSeen ==
  ASSUME MemOK, NEW d \in Executors, TickRunReturns(d) \/ TickReturns(d)
  PROVE  TurnCares(d)'
<1> DEFINE m == [Boot EXCEPT !.pc = "next", !.todo = mem[d].todo,
                             !.queued = mem[d].queued,
                             !.stopping = mem[d].stopping]
           n == [Boot EXCEPT !.stopping = mem[d].stopping]
<1>1. m.pc = "next" /\ n.pc = "idle"
  BY DEF Boot
<1>2. Become(d, m) \/ Become(d, n)
  BY DEF TickRunReturns, TickReturns
<1> HIDE DEF m, n
<1> QED BY <1>1, <1>2, NothingSeen

(* The turn returns to tickRun.                                            *)
LEMMA ReturnSeen ==
  ASSUME MemOK, NEW d \in Executors, NEW requeue \in BOOLEAN,
         Return(d, requeue), ~requeue => ~Driving(db'[mem[d].cur])
  PROVE  TurnCares(d)'
<1> DEFINE m == [mem[d] EXCEPT !.pc = "settle", !.requeue = requeue,
                               !.aborted = FALSE, !.appr = Gone]
<1>1. m.pc = "settle" /\ m.requeue = requeue /\ m.cur = mem[d].cur
  BY DEF MemOK, Mem
<1>2. mem'[d] = m
  BY DEF Return, Become, MemOK
<1> HIDE DEF m
<1> QED BY <1>1, <1>2 DEF TurnCares, Current

(* The clock changes no status, goal or approval.                          *)
LEMMA ClockSeen ==
  ASSUME DbOK, NEW d \in Executors, TurnCares(d), UNCHANGED mem,
         \A r \in Runs : /\ db'[r].status = db[r].status
                         /\ db'[r].goal = db[r].goal
                         /\ db'[r].approvals = db[r].approvals,
         InTickRun(mem[d]) => mem[d].cur \in Runs
  PROVE  TurnCares(d)'
<1>1. CASE InTickRun(mem[d])
  BY <1>1 DEF TurnCares, Current, Driving
<1>2. CASE ~InTickRun(mem[d])
  BY <1>2 DEF TurnCares, InTickRun
<1> QED BY <1>1, <1>2

(* With one daemon, every step keeps every Run driven or wakeable.         *)
LEMMA CareStep ==
  ASSUME Alone, TypeInv, CareInv, [Next]_vars
  PROVE  CareInv'
<1> USE DEF TypeInv
<1> SUFFICES RowsCared' /\ \A d \in Executors : TurnCares(d)'
  BY DEF CareInv
<1>q. \A q \in Requests : /\ q.run \in Runs
                          /\ q.kind \in {"pause", "resume", "cancel"}
  BY RequestsAssumption
<1>r. \A r \in Runs : db[r] \in Row /\ Cared(db[r])
  BY DEF DbOK, CareInv, RowsCared
<1>c. \A d \in Executors :
        /\ mem[d] \in Mem /\ mem[d].gen \in Nat /\ mem[d].requeue \in BOOLEAN
        /\ mem[d].pc \notin {"idle", "list", "next"}
             => /\ mem[d].cur \in Runs
                /\ Current(d) \in Row /\ Cared(Current(d))
        /\ TurnCares(d)
  BY DEF MemOK, DbOK, Mem, InTickRun, CareInv, RowsCared, Current
<1>a. ASSUME NEW d \in Executors, TurnCares(d)'
      PROVE  \A e \in Executors : TurnCares(e)'
  BY <1>a DEF Alone
<1>w. ASSUME NEW r \in Runs, NEW row, Cared(row), Write(r, row)
      PROVE  RowsCared'
  BY <1>w, CaredWrite DEF CareInv
<1>u. UNCHANGED db => RowsCared'
  BY DEF CareInv, RowsCared
<1>1. ASSUME NEW d \in Executors, TickWake(d)
      PROVE  RowsCared' /\ \A e \in Executors : TurnCares(e)'
  <2>1. RowsCared'
    <3>1. \A r \in Runs : db'[r] = WakeDueRun(db[r])
      BY <1>1 DEF TickWake
    <3> QED BY <3>1, <1>r, WakeDueRunCared DEF RowsCared
  <2>2. TurnCares(d)'
    BY <1>1, GotoNothingSeen DEF TickWake
  <2> QED BY <2>1, <2>2, <1>a
<1>2. ASSUME NEW d \in Executors, TickList(d)
      PROVE  RowsCared' /\ \A e \in Executors : TurnCares(e)'
  <2>1. RowsCared'
    BY <1>2, <1>u DEF TickList
  <2>2. TurnCares(d)'
    <3> DEFINE m == [mem[d] EXCEPT
              !.pc = "next",
              !.todo = {r \in Runs : db[r].status \in {"queued", "running"}},
              !.queued = {r \in Runs : db[r].status = "queued"}]
    <3>1. m.pc = "next"
      BY <1>c DEF Mem
    <3>2. Become(d, m)
      BY <1>2 DEF TickList
    <3> HIDE DEF m
    <3> QED BY <3>1, <3>2, NothingSeen
  <2> QED BY <2>1, <2>2, <1>a
<1>3. ASSUME NEW d \in Executors, TickEnd(d)
      PROVE  RowsCared' /\ \A e \in Executors : TurnCares(e)'
  <2>1. RowsCared'
    BY <1>3, <1>u DEF TickEnd
  <2>2. TurnCares(d)'
    BY <1>3, TickReturnNothingSeen DEF TickEnd
  <2> QED BY <2>1, <2>2, <1>a
<1>4. ASSUME NEW d \in Executors, NEW r \in Runs, TickQueuedRun(d, r)
      PROVE  RowsCared' /\ \A e \in Executors : TurnCares(e)'
  <2>1. RowsCared'
    BY <1>4, <1>r, <1>w, <1>u, StartRunningCared DEF TickQueuedRun
  <2>2. TurnCares(d)'
    <3> DEFINE m == [mem[d] EXCEPT !.pc = "acquire", !.cur = r,
                                   !.todo = @ \ {r}, !.queued = @ \ {r}]
    <3>1. m.pc = "acquire"
      BY <1>c DEF Mem
    <3>2. TickReturns(d) \/ Become(d, m)
      BY <1>4 DEF TickQueuedRun, Visit
    <3> HIDE DEF m
    <3> QED BY <3>1, <3>2, NothingSeen, TickReturnNothingSeen
  <2> QED BY <2>1, <2>2, <1>a
<1>5. ASSUME NEW d \in Executors, NEW r \in Runs, TickRunningRun(d, r)
      PROVE  RowsCared' /\ \A e \in Executors : TurnCares(e)'
  <2>1. RowsCared'
    BY <1>5, <1>u DEF TickRunningRun
  <2>2. TurnCares(d)'
    <3> DEFINE m == [mem[d] EXCEPT !.pc = "acquire", !.cur = r,
                                   !.todo = @ \ {r}, !.queued = @ \ {r}]
    <3>1. m.pc = "acquire"
      BY <1>c DEF Mem
    <3>2. TickReturns(d) \/ Become(d, m)
      BY <1>5 DEF TickRunningRun, Visit
    <3> HIDE DEF m
    <3> QED BY <3>1, <3>2, NothingSeen, TickReturnNothingSeen
  <2> QED BY <2>1, <2>2, <1>a
<1>6. ASSUME NEW d \in Executors, TickAcquire(d)
      PROVE  RowsCared' /\ \A e \in Executors : TurnCares(e)'
  <2>1. RowsCared'
    BY <1>6, <1>c, <1>w, <1>u, LeaseRowsCared DEF TickAcquire, At
  <2>2. TurnCares(d)'
    <3> DEFINE m == [mem[d] EXCEPT !.pc = "recover",
                                   !.gen = AcquireLease(Current(d), d).gen]
    <3>1. m.pc = "recover"
      BY <1>c DEF Mem
    <3>2. TickRunReturns(d) \/ Become(d, m)
      BY <1>6 DEF TickAcquire
    <3> HIDE DEF m
    <3> QED BY <3>1, <3>2, NothingSeen, TickReturnNothingSeen
  <2> QED BY <2>1, <2>2, <1>a
<1>7. ASSUME NEW d \in Executors, TickRecover(d)
      PROVE  RowsCared' /\ \A e \in Executors : TurnCares(e)'
  <2>1. RowsCared'
    <3>1. At(d, "recover")
      BY <1>7 DEF TickRecover
    <3>2. /\ mem[d].cur \in Runs
          /\ Cared(RecoverClaimedWork(Current(d), mem[d].gen))
          /\ Cared(ClaimContinuation(Current(d), d, mem[d].gen))
      BY <1>c, <3>1, ClaimRowsCared DEF At
    <3> QED BY <1>7, <3>2, <1>w, <1>u DEF TickRecover
  <2>2. TurnCares(d)'
    BY <1>7, GotoNothingSeen, TickReturnNothingSeen DEF TickRecover
  <2> QED BY <2>1, <2>2, <1>a
<1>8. ASSUME NEW d \in Executors, TickClaim(d)
      PROVE  RowsCared' /\ \A e \in Executors : TurnCares(e)'
  <2>1. RowsCared'
    <3>1. At(d, "claim")
      BY <1>8 DEF TickClaim
    <3>2. /\ mem[d].cur \in Runs
          /\ Cared(RecoverClaimedWork(Current(d), mem[d].gen))
          /\ Cared(ClaimContinuation(Current(d), d, mem[d].gen))
      BY <1>c, <3>1, ClaimRowsCared DEF At
    <3> QED BY <1>8, <3>2, <1>w, <1>u DEF TickClaim
  <2>2. TurnCares(d)'
    BY <1>8, GotoNothingSeen, TickReturnNothingSeen DEF TickClaim
  <2> QED BY <2>1, <2>2, <1>a
<1>9. ASSUME NEW d \in Executors, TickCheck(d)
      PROVE  RowsCared' /\ \A e \in Executors : TurnCares(e)'
  <2>1. RowsCared'
    BY <1>9, <1>u DEF TickCheck
  <2>2. TurnCares(d)'
    BY <1>9, GotoNothingSeen DEF TickCheck
  <2> QED BY <2>1, <2>2, <1>a
<1>10. ASSUME NEW d \in Executors, TickUnclaim(d)
      PROVE  RowsCared' /\ \A e \in Executors : TurnCares(e)'
  <2>1. RowsCared'
    BY <1>10, <1>c, <1>w, <1>u, SettleContinuationCared DEF TickUnclaim, At
  <2>2. TurnCares(d)'
    BY <1>10, TickReturnNothingSeen DEF TickUnclaim
  <2> QED BY <2>1, <2>2, <1>a
<1>11. ASSUME NEW d \in Executors, ThrowSettle(d)
      PROVE  RowsCared' /\ \A e \in Executors : TurnCares(e)'
  <2>1. RowsCared'
    BY <1>11, <1>c, <1>w, <1>u, SettleContinuationCared DEF ThrowSettle, At
  <2>2. TurnCares(d)'
    BY <1>11, TickReturnNothingSeen DEF ThrowSettle
  <2> QED BY <2>1, <2>2, <1>a
<1>12. ASSUME NEW d \in Executors, Settle(d)
      PROVE  RowsCared' /\ \A e \in Executors : TurnCares(e)'
  <2>1. RowsCared'
    <3>1. /\ Current(d) \in Row /\ Cared(Current(d)) /\ mem[d].cur \in Runs
          /\ ~mem[d].requeue => ~Driving(Current(d))
      BY <1>12, <1>c DEF Settle, At, TurnCares
    <3>2. Cared(SettleContinuation(Current(d), d, mem[d].gen, mem[d].requeue))
      <4>1. mem[d].requeue = TRUE \/ mem[d].requeue = FALSE
        BY <1>c
      <4> QED BY <3>1, <4>1, <1>c, SettleContinuationCared
    <3> QED BY <1>12, <1>w, <1>u, <3>1, <3>2 DEF Settle
  <2>2. TurnCares(d)'
    BY <1>12, TickReturnNothingSeen DEF Settle
  <2> QED BY <2>1, <2>2, <1>a
<1>13. ASSUME NEW d \in Executors, TurnFenced(d)
      PROVE  RowsCared' /\ \A e \in Executors : TurnCares(e)'
  <2>1. RowsCared'
    BY <1>13, <1>u DEF TurnFenced
  <2>2. TurnCares(d)'
    BY <1>13, TickReturnNothingSeen DEF TurnFenced
  <2> QED BY <2>1, <2>2, <1>a
<1>14. ASSUME NEW d \in Executors, TurnContinues(d)
      PROVE  RowsCared' /\ \A e \in Executors : TurnCares(e)'
  <2>1. RowsCared'
    BY <1>14, <1>u DEF TurnContinues
  <2>2. TurnCares(d)'
    BY <1>14, ReturnSeen DEF TurnContinues
  <2> QED BY <2>1, <2>2, <1>a
<1>15. ASSUME NEW d \in Executors, TurnAborts(d)
      PROVE  RowsCared' /\ \A e \in Executors : TurnCares(e)'
  <2>1. RowsCared'
    BY <1>15, <1>u DEF TurnAborts
  <2>2. TurnCares(d)'
    BY <1>15, ReturnSeen DEF TurnAborts
  <2> QED BY <2>1, <2>2, <1>a
<1>16. ASSUME NEW d \in Executors, TurnFails(d)
      PROVE  RowsCared' /\ \A e \in Executors : TurnCares(e)'
  <2>1. RowsCared'
    BY <1>16, <1>u DEF TurnFails
  <2>2. TurnCares(d)'
    BY <1>16, GotoNothingSeen DEF TurnFails
  <2> QED BY <2>1, <2>2, <1>a
<1>17. ASSUME NEW d \in Executors, TurnExhaustsBudget(d)
      PROVE  RowsCared' /\ \A e \in Executors : TurnCares(e)'
  <2>1. RowsCared'
    BY <1>17, <1>c, <1>w, UnfencedRowsCared DEF TurnExhaustsBudget, Turn, At
  <2>2. TurnCares(d)'
    BY <1>17 DEF TurnExhaustsBudget, Turn, At, TurnCares
  <2> QED BY <2>1, <2>2, <1>a
<1>18. ASSUME NEW d \in Executors, TurnCompletes(d)
      PROVE  RowsCared' /\ \A e \in Executors : TurnCares(e)'
  <2>1. RowsCared'
    BY <1>18, <1>c, <1>w, SetStatusCared, RunStatusNames
       DEF TurnCompletes, At, Reasons
  <2>2. TurnCares(d)'
    <3>1. db'[mem[d].cur] = SetStatus(Current(d), "completed", "none") /\ Current(d) \in Row
      BY <1>18, <1>c DEF TurnCompletes, At, Write, DbOK, Current
    <3>2. ~Driving(SetStatus(Current(d), "completed", "none"))
      BY <3>1 DEF Driving, SetStatus, Row
    <3> QED BY <1>18, <3>1, <3>2, ReturnSeen DEF TurnCompletes
  <2> QED BY <2>1, <2>2, <1>a
<1>19. ASSUME NEW d \in Executors, TurnRetriesLater(d)
      PROVE  RowsCared' /\ \A e \in Executors : TurnCares(e)'
  <2>1. RowsCared'
    BY <1>19, <1>c, <1>w, ScheduleWakeCared DEF TurnRetriesLater, Turn, At
  <2>2. TurnCares(d)'
    <3>1. db'[mem[d].cur] = ScheduleWake(Current(d)) /\ Current(d) \in Row
      BY <1>19, <1>c DEF TurnRetriesLater, Turn, At, Write, DbOK, Current
    <3>2. ~Driving(ScheduleWake(Current(d)))
      BY <1>19, <1>c, ScheduleWakeCared DEF TurnRetriesLater, Turn, At
    <3> QED BY <1>19, <3>1, <3>2, ReturnSeen DEF TurnRetriesLater
  <2> QED BY <2>1, <2>2, <1>a
<1>20. ASSUME NEW d \in Executors, TurnRecordsProblem(d)
      PROVE  RowsCared' /\ \A e \in Executors : TurnCares(e)'
  <2>1. RowsCared'
    BY <1>20, <1>c, <1>w, RecordProblemCared DEF TurnRecordsProblem, At
  <2>2. TurnCares(d)'
    BY <1>20, GotoNothingSeen DEF TurnRecordsProblem
  <2> QED BY <2>1, <2>2, <1>a
<1>21. ASSUME NEW d \in Executors, TurnReadsStatus(d)
      PROVE  RowsCared' /\ \A e \in Executors : TurnCares(e)'
  <2>1. RowsCared'
    BY <1>21, <1>u DEF TurnReadsStatus
  <2>2. TurnCares(d)'
    <3>1. CASE Current(d).status = "running"
      BY <1>21, <3>1, GotoNothingSeen DEF TurnReadsStatus
    <3>2. CASE Current(d).status # "running"
      <4>1. ~Driving(db'[mem[d].cur])
        BY <1>21, <3>2 DEF TurnReadsStatus, Driving, Current
      <4> QED BY <1>21, <3>2, <4>1, ReturnSeen DEF TurnReadsStatus
    <3> QED BY <3>1, <3>2
  <2> QED BY <2>1, <2>2, <1>a
<1>22. ASSUME NEW d \in Executors, TurnParks(d)
      PROVE  RowsCared' /\ \A e \in Executors : TurnCares(e)'
  <2>1. RowsCared'
    BY <1>22, <1>c, <1>w, <1>u, SetStatusCared, RunStatusNames
       DEF TurnParks, ParkOrThrow, At, Reasons
  <2>2. TurnCares(d)'
    <3> DEFINE row == SetStatus(Current(d), "waiting_external", "provider")
    <3>1. CASE TickRunReturns(d) \/ Goto(d, "throwSettle")
      BY <3>1, GotoNothingSeen, TickReturnNothingSeen
    <3>2. CASE Return(d, FALSE) /\ Write(mem[d].cur, row)
      <4>1. db'[mem[d].cur] = row /\ Current(d) \in Row
        BY <1>22, <1>c, <3>2 DEF TurnParks, At, Write, DbOK, Current
      <4>2. ~Driving(row)
        BY <4>1 DEF Driving, SetStatus, Row
      <4> HIDE DEF row
      <4> QED BY <3>2, <4>1, <4>2, ReturnSeen
    <3> QED BY <1>22, <3>1, <3>2 DEF TurnParks, ParkOrThrow
  <2> QED BY <2>1, <2>2, <1>a
<1>23. ASSUME NEW d \in Executors, TurnAwaitsApproval(d)
      PROVE  RowsCared' /\ \A e \in Executors : TurnCares(e)'
  <2>1. RowsCared'
    <3>1. /\ Current(d) \in Row /\ mem[d].cur \in Runs
          /\ PendingApprovals(Current(d)) # {}
      BY <1>23, <1>c DEF TurnAwaitsApproval, At, TurnCares, PendingApprovals
    <3> QED BY <1>23, <1>w, <1>u, <3>1, SetStatusCared, RunStatusNames
            DEF TurnAwaitsApproval, ParkOrThrow, Reasons
  <2>2. TurnCares(d)'
    <3> DEFINE row == SetStatus(Current(d), "waiting_external", "approval")
    <3>1. CASE TickRunReturns(d) \/ Goto(d, "throwSettle")
      BY <3>1, GotoNothingSeen, TickReturnNothingSeen
    <3>2. CASE Return(d, TRUE) /\ Write(mem[d].cur, row)
      <4>1. db'[mem[d].cur] = row /\ Current(d) \in Row
        BY <1>23, <1>c, <3>2 DEF TurnAwaitsApproval, At, Write, DbOK, Current
      <4>2. ~Driving(row)
        BY <4>1 DEF Driving, SetStatus, Row
      <4> HIDE DEF row
      <4> QED BY <3>2, <4>1, <4>2, ReturnSeen
    <3> QED BY <1>23, <3>1, <3>2 DEF TurnAwaitsApproval, ParkOrThrow
  <2> QED BY <2>1, <2>2, <1>a
<1>24. ASSUME NEW d \in Executors, NEW a \in Approvals,
             TurnNeedsApproval(d, a)
      PROVE  RowsCared' /\ \A e \in Executors : TurnCares(e)'
  <2>1. RowsCared'
    BY <1>24, <1>c, <1>w, RequestApprovalCared DEF TurnNeedsApproval, Turn, At
  <2>2. TurnCares(d)'
    <3> DEFINE m == [mem[d] EXCEPT !.pc = "apprRead", !.appr = a]
    <3>1. m.pc = "apprRead" /\ m.appr = a
      BY <1>c DEF Mem
    <3>2. mem'[d] = m
      BY <1>24 DEF TurnNeedsApproval, Become, MemOK
    <3> HIDE DEF m
    <3> QED BY <3>1, <3>2 DEF TurnCares
  <2> QED BY <2>1, <2>2, <1>a
<1>25. ASSUME NEW d \in Executors, TurnReadsApproval(d)
      PROVE  RowsCared' /\ \A e \in Executors : TurnCares(e)'
  <2>1. RowsCared'
    BY <1>25, <1>u DEF TurnReadsApproval
  <2>2. TurnCares(d)'
    <3>1. CASE TickRunReturns(d) \/ Return(d, TRUE)
      BY <3>1, TickReturnNothingSeen, ReturnSeen
    <3>2. CASE /\ Goto(d, "apprWait")
               /\ Current(d).approvals[mem[d].appr] = "pending"
      <4> DEFINE m == [mem[d] EXCEPT !.pc = "apprWait"]
      <4>1. m.pc = "apprWait" /\ m.appr = mem[d].appr /\ m.cur = mem[d].cur
        BY <1>c DEF Mem
      <4>2. mem'[d] = m /\ UNCHANGED db
        BY <1>25, <3>2 DEF TurnReadsApproval, Goto, Become, MemOK
      <4>3. mem[d].appr \in Approvals
        BY <1>25, <1>c DEF TurnReadsApproval, At, TurnCares
      <4> HIDE DEF m
      <4> QED BY <3>2, <4>1, <4>2, <4>3 DEF TurnCares, Current
    <3> QED BY <1>25, <3>1, <3>2 DEF TurnReadsApproval
  <2> QED BY <2>1, <2>2, <1>a
<1>26. ASSUME NEW d \in Executors, NEW r \in Runs, PostRun(d, r)
      PROVE  RowsCared' /\ \A e \in Executors : TurnCares(e)'
  <2>1. RowsCared'
    BY <1>26, <1>r, <1>c, <1>w, UnfencedRowsCared DEF PostRun
  <2>2. TurnCares(d)'
    BY <1>26 DEF PostRun, Awaits, TurnCares
  <2> QED BY <2>1, <2>2, <1>a
<1>27. ASSUME NEW d \in Executors, NEW q \in Requests,
             PostCommand(d, q)
      PROVE  RowsCared' /\ \A e \in Executors : TurnCares(e)'
  <2>1. RowsCared'
    BY <1>27, <1>r, <1>q, <1>w, <1>u, ExecuteCommandCared DEF PostCommand
  <2>2. TurnCares(d)'
    <3> DEFINE m == [mem[d] EXCEPT !.aborted = TRUE]
    <3>1. m.pc = mem[d].pc
      BY <1>c DEF Mem
    <3>2. mem[d].pc \in {"idle", "exec"} /\ (UNCHANGED mem \/ Become(d, m))
      BY <1>27 DEF PostCommand, Awaits, AbortRun
    <3> HIDE DEF m
    <3>3. CASE UNCHANGED mem
      BY <3>2, <3>3 DEF TurnCares
    <3> QED BY <3>1, <3>2, <3>3, NothingSeen
  <2> QED BY <2>1, <2>2, <1>a
<1>28. ASSUME NEW d \in Executors, NEW r \in Runs, NEW a \in Approvals,
             PostApproval(d, r, a)
      PROVE  RowsCared' /\ \A e \in Executors : TurnCares(e)'
  <2>1. RowsCared'
    BY <1>28, <1>r, <1>w, ResolveApprovalCared DEF PostApproval
  <2>2. TurnCares(d)'
    BY <1>28 DEF PostApproval, Awaits, TurnCares
  <2> QED BY <2>1, <2>2, <1>a
<1>29. ASSUME NEW d \in Executors, TurnThrows(d)
      PROVE  RowsCared' /\ \A e \in Executors : TurnCares(e)'
  <2>1. RowsCared'
    BY <1>29, <1>u DEF TurnThrows
  <2>2. TurnCares(d)'
    <3> DEFINE m == [mem[d] EXCEPT !.pc = "throwSettle", !.aborted = FALSE]
    <3>1. m.pc = "throwSettle"
      BY <1>c DEF Mem
    <3>2. Become(d, m)
      BY <1>29 DEF TurnThrows
    <3> HIDE DEF m
    <3> QED BY <3>1, <3>2, NothingSeen
  <2> QED BY <2>1, <2>2, <1>a
<1>30. ASSUME NEW d \in Executors, StoreBusy(d)
      PROVE  RowsCared' /\ \A e \in Executors : TurnCares(e)'
  <2>1. RowsCared'
    BY <1>30, <1>u DEF StoreBusy
  <2>2. TurnCares(d)'
    BY <1>30, GotoNothingSeen, TickReturnNothingSeen DEF StoreBusy
  <2> QED BY <2>1, <2>2, <1>a
<1>31. ASSUME NEW d \in Executors, Stop(d)
      PROVE  RowsCared' /\ \A e \in Executors : TurnCares(e)'
  <2>1. RowsCared'
    BY <1>31, <1>u DEF Stop
  <2>2. TurnCares(d)'
    <3> DEFINE m == [mem[d] EXCEPT !.stopping = TRUE,
                                   !.aborted = At(d, "exec")]
    <3>1. m.pc = mem[d].pc /\ mem[d].pc \in {"idle", "exec"}
      BY <1>31, <1>c DEF Stop, Awaits, Mem
    <3>2. Become(d, m)
      BY <1>31 DEF Stop
    <3> HIDE DEF m
    <3> QED BY <3>1, <3>2, NothingSeen
  <2> QED BY <2>1, <2>2, <1>a
<1>32. ASSUME NEW d \in Executors, Crash(d) \/ Exit(d)
      PROVE  RowsCared' /\ \A e \in Executors : TurnCares(e)'
  <2>1. RowsCared'
    <3>1. \A r \in Runs : db'[r] = Ended(db[r], d)
      BY <1>32 DEF Crash, Exit, ProcessEnds, Ended
    <3> QED BY <3>1, <1>r, LeaseRowsCared DEF RowsCared
  <2>2. TurnCares(d)'
    <3>1. Boot.pc = "idle"
      BY DEF Boot
    <3> QED BY <1>32, <3>1, NothingSeen DEF Crash, Exit, ProcessEnds
  <2> QED BY <2>1, <2>2, <1>a
<1>33. ASSUME NEW r \in Runs, TimerDue(r)
      PROVE  RowsCared' /\ \A e \in Executors : TurnCares(e)'
  <2> DEFINE row == [db[r] EXCEPT !.timers = @ - 1, !.due = TRUE]
  <2>1. /\ row.status = db[r].status /\ row.goal = db[r].goal
        /\ row.approvals = db[r].approvals
    BY <1>r DEF Row
  <2>2. Write(r, row)
    BY <1>33 DEF TimerDue
  <2>3. Cared(row)
    BY <1>r, UnfencedRowsCared
  <2> HIDE DEF row
  <2>4. \A p \in Runs : /\ db'[p].status = db[p].status
                         /\ db'[p].goal = db[p].goal
                         /\ db'[p].approvals = db[p].approvals
    BY <2>1, <2>2 DEF Write, DbOK
  <2>5. \A e \in Executors : TurnCares(e)'
    BY <1>33, <1>c, <2>4, ClockSeen DEF TimerDue, InTickRun
  <2> QED BY <1>w, <2>2, <2>3, <2>5
<1>34. ASSUME NEW r \in Runs, LeaseExpires(r)
      PROVE  RowsCared' /\ \A e \in Executors : TurnCares(e)'
  <2> DEFINE row == [db[r] EXCEPT !.live = FALSE]
  <2>1. /\ row.status = db[r].status /\ row.goal = db[r].goal
        /\ row.approvals = db[r].approvals
    BY <1>r DEF Row
  <2>2. Write(r, row)
    BY <1>34 DEF LeaseExpires
  <2>3. Cared(row)
    BY <1>r, UnfencedRowsCared
  <2> HIDE DEF row
  <2>4. \A p \in Runs : /\ db'[p].status = db[p].status
                         /\ db'[p].goal = db[p].goal
                         /\ db'[p].approvals = db[p].approvals
    BY <2>1, <2>2 DEF Write, DbOK
  <2>5. \A e \in Executors : TurnCares(e)'
    BY <1>34, <1>c, <2>4, ClockSeen DEF LeaseExpires, InTickRun
  <2> QED BY <1>w, <2>2, <2>3, <2>5
<1>35. CASE UNCHANGED vars
  BY <1>35, <1>c, <1>u DEF vars, TurnCares, Current
<1> QED
  BY <1>1, <1>2, <1>3, <1>4, <1>5, <1>6, <1>7, <1>8, <1>9, <1>10, <1>11,
     <1>12, <1>13, <1>14, <1>15, <1>16, <1>17, <1>18, <1>19, <1>20,
     <1>21, <1>22, <1>23, <1>24, <1>25, <1>26, <1>27, <1>28, <1>29,
     <1>30, <1>31, <1>32, <1>33, <1>34, <1>35
     DEF Next, Scheduler, Executor, User, Fault, Clock

(* No Run exists yet. *)
LEMMA CareInit == Init => CareInv
  BY DEF Init, CareInv, RowsCared, TurnCares, Cared, Driven, Driving,
         Wakeable, NoRun, Boot

(* With one daemon the database always holds what drives a running Run or  *)
(* ends its wait.                                                          *)
LEMMA CareInvariant ==
  ASSUME Alone
  PROVE  Spec => [](TypeInv /\ CareInv)
<1>1. TypeInv /\ CareInv /\ [Next]_vars => CareInv'
  BY CareStep
<1> QED BY <1>1, TypeInit, TypeStep, CareInit, PTL DEF Spec

(* With one daemon, whatever its crashes, stops, exceptions and lost       *)
(* leases, a running Run with an active goal has its continuation row      *)
(* (ensureContinuationInternal and settleContinuation in store.ts; with a  *)
(* second daemon the run lost_wakeup shows the opposite).                  *)
THEOREM OneDaemonStrandsNoRun ==
  ASSUME Alone
  PROVE  Spec => []NoStrandedRun
<1>1. CareInv => NoStrandedRun
  BY DEF CareInv, RowsCared, Cared, Driven, Driving, NoStrandedRun
<1> QED BY <1>1, CareInvariant, PTL

(* With one daemon, a Run that waits for its timer has one that will fire, *)
(* and a Run that waits for an approval has a pending one                  *)
(* (scheduleWake, wakeDueRuns and resolveApproval in store.ts,             *)
(* handleApprovalWait in coordinator.ts).                                  *)
THEOREM OneDaemonWakesWaiters ==
  ASSUME Alone
  PROVE  Spec => []WaitingHasWaker
<1>1. CareInv => WaitingHasWaker
  BY DEF CareInv, RowsCared, Cared, Wakeable, WaitingHasWaker
<1> QED BY <1>1, CareInvariant, PTL
=============================================================================
