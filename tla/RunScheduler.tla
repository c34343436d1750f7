---------------------------- MODULE RunScheduler ----------------------------
(***************************************************************************)
(* Daemons that execute Runs over one SQLite database:                     *)
(* packages/control-plane/src/scheduler.ts (RunScheduler.tick, tickRun),   *)
(* the outcomes of a turn in packages/runtime/src/coordinator.ts           *)
(* (RunCoordinator.execute and its handlers), and the requests that        *)
(* packages/server/src/server.ts turns into store transactions.            *)
(*                                                                         *)
(* Grain.  A store transaction is one step.  A daemon is one event loop:   *)
(* its HTTP handlers run only while its scheduler is parked on a real      *)
(* await, that is between ticks ("idle") or inside a turn ("exec"); the    *)
(* other daemons and the clock interleave with every step.                 *)
(***************************************************************************)
EXTENDS Integers, RunStore

CONSTANTS Runs,           \* Run numbers in order of creation, 1 is the oldest
          Requests,       \* commands users issue: [id, run, kind]
          MaxGen,         \* bound: a lease of a live daemon lapses below it
          MaxTimers,      \* bound: wakes scheduled and not yet fired, per Run
          MaxCrashes,     \* bound: daemon processes that end, together
          MaxThrows,      \* bound: turns that end in an unexpected exception
          MaxStoreFaults  \* bound: settle transactions lost to SQLITE_BUSY

ASSUME RunsAssumption == Runs \subseteq Nat \ {0}
ASSUME RequestsAssumption ==
  Requests \subseteq [id : STRING, run : Runs,
                      kind : {"pause", "resume", "cancel"}]
ASSUME BoundsAssumption ==
  /\ MaxGen \in Nat /\ MaxTimers \in Nat /\ MaxCrashes \in Nat
  /\ MaxThrows \in Nat /\ MaxStoreFaults \in Nat

VARIABLES db,        \* the database: the row of every Run
          receipts,  \* command_receipts
          mem,       \* the memory of every daemon's scheduler
          crashes, throws, storeFaults

vars == <<db, receipts, mem, crashes, throws, storeFaults>>
faults == <<crashes, throws, storeFaults>>

(* Where a daemon's scheduler is, in program order. *)
Pc == {"idle", "list", "next", "acquire", "recover", "claim", "check",
       "unclaim", "exec", "problem", "parkRead", "parkWait", "apprRead",
       "apprWait", "settle", "throwSettle"}

Mem == [pc       : Pc,
        todo     : SUBSET Runs,   \* runnable Runs this tick has yet to visit
        queued   : SUBSET Runs,   \*   the ones the listing saw as "queued"
        cur      : Runs \cup {0}, \* Run of the tickRun in progress
        gen      : Nat,           \*   generation of the lease it returned
        aborted  : BOOLEAN,       \*   the turn's AbortSignal
        appr     : Approvals \cup {Gone}, \* approval the turn waits for
        requeue  : BOOLEAN,       \*   what the turn returned
        stopping : BOOLEAN]

Boot == [pc |-> "idle", todo |-> {}, queued |-> {}, cur |-> 0, gen |-> 0,
         aborted |-> FALSE, appr |-> Gone, requeue |-> FALSE,
         stopping |-> FALSE]

Init ==
  /\ db = [r \in Runs |-> NoRun]
  /\ receipts = {}
  /\ mem = [d \in Executors |-> Boot]
  /\ crashes = 0 /\ throws = 0 /\ storeFaults = 0
-----------------------------------------------------------------------------
(* The row the daemon's tickRun is about, and assertLease for its lease. *)
Current(d) == db[mem[d].cur]
Holds(d)   == LeaseHeld(Current(d), d, mem[d].gen)

At(d, p)     == mem[d].pc = p
Become(d, m) == mem' = [mem EXCEPT ![d] = m]
Goto(d, p)   == Become(d, [mem[d] EXCEPT !.pc = p])

(* The turn ends and tells the scheduler whether to requeue. *)
Return(d, requeue) ==
  Become(d, [mem[d] EXCEPT !.pc = "settle", !.requeue = requeue,
                           !.aborted = FALSE, !.appr = Gone])

(* Mutant of TickRunReturns: the rest of the listing is dropped with it. *)
TickRunEndsTick(d) ==
  Become(d, [Boot EXCEPT !.stopping = mem[d].stopping])

(* tickRun returns, its locals go out of scope. *)
TickRunReturns(d) ==
  Become(d, [Boot EXCEPT !.pc = "next", !.todo = mem[d].todo,
                         !.queued = mem[d].queued,
                         !.stopping = mem[d].stopping])

(* The tick is over, or an exception leaves tickRun and ends it early. *)
TickReturns(d) ==
  Become(d, [Boot EXCEPT !.stopping = mem[d].stopping])

Write(r, row) == db' = [db EXCEPT ![r] = row]

(* A real await of the event loop: macrotasks may run. *)
Awaits(d) == mem[d].pc \in {"idle", "exec"}
-----------------------------------------------------------------------------
(* RunScheduler.tick *)

(* tick: wakeDueRuns, unless stopping *)
TickWake(d) ==
  /\ At(d, "idle") /\ ~mem[d].stopping
  /\ db' = [r \in Runs |-> WakeDueRun(db[r])]
  /\ Goto(d, "list")
  /\ UNCHANGED <<receipts, faults>>

(* tick: listRuns and its filter.  `recovering` is in the filter too, but  *)
(* nothing in the daemon ever sets it.                                     *)
TickList(d) ==
  /\ At(d, "list")
  /\ Become(d, [mem[d] EXCEPT
       !.pc = "next",
       !.todo = {r \in Runs : db[r].status \in {"queued", "running"}},
       !.queued = {r \in Runs : db[r].status = "queued"}])
  /\ UNCHANGED <<db, receipts, faults>>

TickEnd(d) ==
  /\ At(d, "next")
  /\ mem[d].stopping \/ mem[d].todo = {}
  /\ TickReturns(d)
  /\ UNCHANGED <<db, receipts, faults>>

(* listRuns is ORDER BY created_at DESC: the newest Run is next. *)
NextInList(d, r) ==
  /\ At(d, "next") /\ ~mem[d].stopping
  /\ r \in mem[d].todo /\ \A q \in mem[d].todo : q <= r

Visit(d, r) ==
  Become(d, [mem[d] EXCEPT !.pc = "acquire", !.cur = r,
                           !.todo = @ \ {r}, !.queued = @ \ {r}])

(* tickRun on a Run that the listing saw as "queued" *)
TickQueuedRun(d, r) ==
  /\ NextInList(d, r) /\ r \in mem[d].queued
  /\ IF CanTransitionRun(db[r].status, "running")
     THEN /\ Write(r, StartRunning(db[r]))
          /\ Visit(d, r)
     ELSE /\ TickReturns(d)
          /\ UNCHANGED db
  /\ UNCHANGED <<receipts, faults>>

TickRunningRun(d, r) ==
  /\ NextInList(d, r) /\ r \notin mem[d].queued
  /\ Visit(d, r)
  /\ UNCHANGED <<db, receipts, faults>>

(* tickRun: acquireLease; LeaseFencedError skips the Run *)
TickAcquire(d) ==
  /\ At(d, "acquire")
  /\ IF LeasedByOther(Current(d), d)
     THEN TickRunReturns(d) /\ UNCHANGED db
     ELSE /\ Write(mem[d].cur, AcquireLease(Current(d), d))
          /\ Become(d, [mem[d] EXCEPT !.pc = "recover",
                          !.gen = AcquireLease(Current(d), d).gen])
  /\ UNCHANGED <<receipts, faults>>

(* tickRun: recoverClaimedWork; outside the try, so a lost lease ends the  *)
(* tick.                                                                   *)
TickRecover(d) ==
  /\ At(d, "recover")
  /\ IF Holds(d)
     THEN /\ Write(mem[d].cur, RecoverClaimedWork(Current(d), mem[d].gen))
          /\ Goto(d, "claim")
     ELSE TickReturns(d) /\ UNCHANGED db
  /\ UNCHANGED <<receipts, faults>>

(* tickRun: claimContinuation, undefined when there is nothing to claim *)
TickClaim(d) ==
  /\ At(d, "claim")
  /\ IF ~Holds(d)
     THEN TickReturns(d) /\ UNCHANGED db
     ELSE IF Claimable(Current(d))
          THEN /\ Write(mem[d].cur,
                        ClaimContinuation(Current(d), d, mem[d].gen))
               /\ Goto(d, "check")
          ELSE TickRunReturns(d) /\ UNCHANGED db
  /\ UNCHANGED <<receipts, faults>>

(* tickRun: re-read the status before an executor is invoked *)
TickCheck(d) ==
  /\ At(d, "check")
  /\ IF mem[d].stopping \/ Current(d).status # "running"
     THEN Goto(d, "unclaim")
     ELSE Goto(d, "exec")
  /\ UNCHANGED <<db, receipts, faults>>

TickUnclaim(d) ==
  /\ At(d, "unclaim")
  /\ IF Holds(d)
     THEN /\ Write(mem[d].cur,
                   SettleContinuation(Current(d), d, mem[d].gen, TRUE))
          /\ TickRunReturns(d)
     ELSE TickReturns(d) /\ UNCHANGED db
  /\ UNCHANGED <<receipts, faults>>
-----------------------------------------------------------------------------
(* RunCoordinator.execute: how a turn ends.  Every turn makes a fenced     *)
(* write before it returns, so a turn without the lease ends in            *)
(* LeaseFencedError, whatever else happened to it.                         *)

Turn(d) == At(d, "exec") /\ Holds(d) /\ ~mem[d].aborted

TurnFenced(d) ==
  /\ At(d, "exec") /\ ~Holds(d)
  /\ TickRunReturns(d)
  /\ UNCHANGED <<db, receipts, faults>>

(* The turn ran to its end, or overflowed the context, or the completion   *)
(* gate rejected it.                                                       *)
TurnContinues(d) ==
  /\ Turn(d)
  /\ Return(d, TRUE)
  /\ UNCHANGED <<db, receipts, faults>>

(* recordToolIntent or recordUsageFenced exhausts the budget; the turn     *)
(* itself goes on.                                                         *)
TurnExhaustsBudget(d) ==
  /\ Turn(d) /\ Current(d).status = "running"
  /\ Write(mem[d].cur, ExhaustBudget(Current(d)))
  /\ UNCHANGED <<receipts, mem, faults>>

(* proposeCompletion, accepted.  From any status but running the transition*)
(* throws, which execute handles as a provider failure or an abort.  The   *)
(* signal is not read again after a milestone checkpoint was awaited.      *)
TurnCompletes(d) ==
  /\ At(d, "exec") /\ Holds(d)
  /\ CanTransitionRun(Current(d).status, "completed")
  /\ Write(mem[d].cur, SetStatus(Current(d), "completed", "none"))
  /\ Return(d, FALSE)
  /\ UNCHANGED <<receipts, faults>>

(* handleAbort *)
TurnAborts(d) ==
  /\ At(d, "exec") /\ Holds(d) /\ mem[d].aborted
  /\ Return(d, TRUE)
  /\ UNCHANGED <<db, receipts, faults>>

(* handleFailure, retryable: scheduleWake *)
TurnRetriesLater(d) ==
  /\ Turn(d) /\ Current(d).timers < MaxTimers
  /\ Write(mem[d].cur, ScheduleWake(Current(d)))
  /\ Return(d, FALSE)
  /\ UNCHANGED <<receipts, faults>>

(* handleFailure, not retryable or out of attempts: the fenced events are  *)
(* written first...                                                        *)
TurnFails(d) ==
  /\ Turn(d)
  /\ Goto(d, "problem")
  /\ UNCHANGED <<db, receipts, faults>>

(* ... then recordProblem, which takes no lease...                         *)
TurnRecordsProblem(d) ==
  /\ At(d, "problem")
  /\ \E retryable \in BOOLEAN :
       Write(mem[d].cur, RecordProblem(Current(d), retryable))
  /\ Goto(d, "parkRead")
  /\ UNCHANGED <<receipts, faults>>

(* ... then getRun...                                                      *)
TurnReadsStatus(d) ==
  /\ At(d, "parkRead")
  /\ IF Current(d).status = "running"
     THEN Goto(d, "parkWait")
     ELSE Return(d, FALSE)
  /\ UNCHANGED <<db, receipts, faults>>

(* A fenced transitionRun to waiting_external: LeaseFencedError drops the  *)
(* turn, an illegal transition is an exception of the executor.            *)
ParkOrThrow(d, why, requeue) ==
  \/ /\ ~Holds(d)
     /\ TickRunReturns(d) /\ UNCHANGED db
  \/ /\ Holds(d) /\ ~CanTransitionRun(Current(d).status, "waiting_external")
     /\ Goto(d, "throwSettle") /\ UNCHANGED db
  \/ /\ Holds(d) /\ CanTransitionRun(Current(d).status, "waiting_external")
     /\ Write(mem[d].cur, SetStatus(Current(d), "waiting_external", why))
     /\ Return(d, requeue)

(* ... and the wait for an operator.                                       *)
TurnParks(d) ==
  /\ At(d, "parkWait")
  /\ ParkOrThrow(d, "provider", FALSE)
  /\ UNCHANGED <<receipts, faults>>

(* authorizeTool: a tool needs an approval that is pending or is requested *)
(* now; ToolApprovalRequiredError ends the turn.                           *)
TurnNeedsApproval(d, a) ==
  /\ Turn(d)
  /\ Current(d).approvals[a] \in {"none", "pending"}
  /\ Write(mem[d].cur, RequestApproval(Current(d), a))
  /\ Become(d, [mem[d] EXCEPT !.pc = "apprRead", !.appr = a])
  /\ UNCHANGED <<receipts, faults>>

(* handleApprovalWait: endSessionEpoch (fenced), listApprovals, getRun *)
TurnReadsApproval(d) ==
  /\ At(d, "apprRead")
  /\ IF ~Holds(d)
     THEN TickRunReturns(d)
     ELSE IF /\ Current(d).approvals[mem[d].appr] = "pending"
             /\ Current(d).status = "running"
          THEN Goto(d, "apprWait")
          ELSE Return(d, TRUE)
  /\ UNCHANGED <<db, receipts, faults>>

TurnAwaitsApproval(d) ==
  /\ At(d, "apprWait")
  /\ ParkOrThrow(d, "approval", TRUE)
  /\ UNCHANGED <<receipts, faults>>

(* Any other exception out of execute, and a heartbeat that failed for     *)
(* another reason than the lease.                                          *)
TurnThrows(d) ==
  /\ At(d, "exec") /\ throws < MaxThrows
  /\ throws' = throws + 1
  /\ Become(d, [mem[d] EXCEPT !.pc = "throwSettle", !.aborted = FALSE])
  /\ UNCHANGED <<db, receipts, crashes, storeFaults>>
-----------------------------------------------------------------------------
(* tickRun after the turn *)

(* renewLease and settleContinuation; LeaseFencedError is dropped *)
Settle(d) ==
  /\ At(d, "settle")
  /\ IF Holds(d)
     THEN Write(mem[d].cur, SettleContinuation(Current(d), d, mem[d].gen,
                                               mem[d].requeue))
     ELSE UNCHANGED db
  /\ TickRunReturns(d)
  /\ UNCHANGED <<receipts, faults>>

(* The catch branch: settle with requeue, then rethrow out of the tick *)
ThrowSettle(d) ==
  /\ At(d, "throwSettle")
  /\ IF Holds(d)
     THEN Write(mem[d].cur,
                SettleContinuation(Current(d), d, mem[d].gen, TRUE))
     ELSE UNCHANGED db
  /\ TickReturns(d)
  /\ UNCHANGED <<receipts, faults>>

(* SQLITE_BUSY outlasts busy_timeout in one of the two settles *)
StoreBusy(d) ==
  /\ mem[d].pc \in {"settle", "throwSettle"} /\ storeFaults < MaxStoreFaults
  /\ storeFaults' = storeFaults + 1
  /\ IF At(d, "settle") THEN Goto(d, "throwSettle") ELSE TickReturns(d)
  /\ UNCHANGED <<db, receipts, crashes, throws>>
-----------------------------------------------------------------------------
(* Requests to a daemon's HTTP server *)

(* POST /runs: createRun *)
PostRun(d, r) ==
  /\ Awaits(d)
  /\ db[r].status = "absent"
  /\ \A q \in Runs : q < r => db[q].status # "absent"
  /\ Write(r, CreateRun(db[r]))
  /\ UNCHANGED <<receipts, mem, faults>>

(* abortRun: signal this daemon's own in-flight turn of the Run *)
AbortRun(d, r) ==
  IF At(d, "exec") /\ mem[d].cur = r
  THEN Become(d, [mem[d] EXCEPT !.aborted = TRUE])
  ELSE UNCHANGED mem

(* POST /runs/:id/commands: executeCommand, then onRunCommand.  A request  *)
(* may be delivered again: its receipt answers it, and the abort is sent   *)
(* again.                                                                  *)
PostCommand(d, q) ==
  /\ Awaits(d)
  /\ IF q.id \in receipts
     THEN UNCHANGED <<db, receipts>>
     ELSE /\ db[q.run].status # "absent"
          /\ CommandLegal(db[q.run], q.kind)
          /\ Write(q.run, ExecuteCommand(db[q.run], q.kind))
          /\ receipts' = receipts \cup {q.id}
  /\ IF q.kind \in {"pause", "cancel"}
     THEN AbortRun(d, q.run)
     ELSE UNCHANGED mem
  /\ UNCHANGED faults

(* POST /approvals/:id: resolveApproval *)
PostApproval(d, r, a) ==
  /\ Awaits(d)
  /\ db[r].approvals[a] = "pending"
  /\ Write(r, ResolveApproval(db[r], a))
  /\ UNCHANGED <<receipts, mem, faults>>
-----------------------------------------------------------------------------
(* The clock and the processes *)

(* A wake condition's time comes. *)
TimerDue(r) ==
  /\ db[r].timers > 0
  /\ Write(r, [db[r] EXCEPT !.timers = @ - 1, !.due = TRUE])
  /\ UNCHANGED <<receipts, mem, faults>>

(* A lease runs out: its holder is gone, or was stalled past the TTL. *)
LeaseExpires(r) ==
  /\ db[r].live
  /\ db[r].holder = Gone \/ db[r].gen < MaxGen
  /\ Write(r, [db[r] EXCEPT !.live = FALSE])
  /\ UNCHANGED <<receipts, mem, faults>>

(* The process ends; whoever replaces it has a fresh executor id. *)
ProcessEnds(d) ==
  /\ Become(d, Boot)
  /\ db' = [r \in Runs |->
              [db[r] EXCEPT !.holder = IF @ = d THEN Gone ELSE @,
                            !.by = IF @ = d THEN Gone ELSE @]]

Crash(d) ==
  /\ crashes < MaxCrashes
  /\ crashes' = crashes + 1
  /\ ProcessEnds(d)
  /\ UNCHANGED <<receipts, throws, storeFaults>>

(* RunScheduler.stop: no further ticks, the turn in flight is aborted...   *)
Stop(d) ==
  /\ Awaits(d) /\ ~mem[d].stopping /\ crashes < MaxCrashes
  /\ crashes' = crashes + 1
  /\ Become(d, [mem[d] EXCEPT !.stopping = TRUE, !.aborted = At(d, "exec")])
  /\ UNCHANGED <<db, receipts, throws, storeFaults>>

(* ... and the process ends once the tick is over.                         *)
Exit(d) ==
  /\ At(d, "idle") /\ mem[d].stopping
  /\ ProcessEnds(d)
  /\ UNCHANGED <<receipts, faults>>
-----------------------------------------------------------------------------
Scheduler(d) ==
  \/ TickWake(d) \/ TickList(d) \/ TickEnd(d)
  \/ \E r \in Runs : TickQueuedRun(d, r) \/ TickRunningRun(d, r)
  \/ TickAcquire(d) \/ TickRecover(d) \/ TickClaim(d) \/ TickCheck(d)
  \/ TickUnclaim(d) \/ Settle(d) \/ ThrowSettle(d)

Executor(d) ==
  \/ TurnFenced(d) \/ TurnContinues(d) \/ TurnExhaustsBudget(d)
  \/ TurnCompletes(d) \/ TurnAborts(d) \/ TurnRetriesLater(d)
  \/ TurnFails(d) \/ TurnRecordsProblem(d) \/ TurnReadsStatus(d)
  \/ TurnParks(d) \/ \E a \in Approvals : TurnNeedsApproval(d, a)
  \/ TurnReadsApproval(d) \/ TurnAwaitsApproval(d)

User(d) ==
  \/ \E r \in Runs : PostRun(d, r)
  \/ \E q \in Requests : PostCommand(d, q)
  \/ \E r \in Runs, a \in Approvals : PostApproval(d, r, a)

Fault(d) == TurnThrows(d) \/ StoreBusy(d) \/ Crash(d) \/ Stop(d)

Clock(r) == TimerDue(r) \/ LeaseExpires(r)

Next ==
  \/ \E d \in Executors : Scheduler(d) \/ Executor(d) \/ User(d)
                          \/ Fault(d) \/ Exit(d)
  \/ \E r \in Runs : Clock(r)

Spec == Init /\ [][Next]_vars
-----------------------------------------------------------------------------
(* Fairness.  The poll timer keeps calling tick, and what is not an await  *)
(* of the outside goes on; time passes; a lease nobody renews runs out.  A *)
(* turn need not end: neither provider requests nor commands nor MCP calls *)
(* have a timeout.  Users, faults and the expiry of a live daemon's lease  *)
(* are never obliged to happen either.                                     *)
Fairness ==
  /\ \A d \in Executors :
       /\ WF_vars(Scheduler(d) \/ (Executor(d) /\ ~At(d, "exec")))
       /\ WF_vars(Exit(d))
  /\ \A r \in Runs : WF_vars(TimerDue(r))
                   /\ WF_vars(LeaseExpires(r) /\ db[r].holder = Gone)

FairSpec == Spec /\ Fairness
-----------------------------------------------------------------------------
(* Type invariant of the database rows and of the daemons' memory. *)
TypeOK ==
  /\ db \in [Runs -> Row]
  /\ receipts \subseteq {q.id : q \in Requests}
  /\ mem \in [Executors -> Mem]
  /\ crashes \in Nat /\ throws \in Nat /\ storeFaults \in Nat

(* Between acquireLease and the end of tickRun a daemon believes that it   *)
(* owns the Run; from claimContinuation on it also owns the continuation.  *)
Owning   == Pc \ {"idle", "list", "next", "acquire"}
Claiming == Owning \ {"recover", "claim"}

(* No two daemons ever work on the same Run under the same lease           *)
(* generation (scheduler.ts tickRun, store.ts acquireLease): whatever the  *)
(* expiries, takeovers and restarts, the generation tells them apart, so   *)
(* that at most one of them passes assertLeaseInternal.                    *)
ExclusiveGeneration ==
  \A d, e \in Executors :
    (/\ d # e
     /\ mem[d].pc \in Owning /\ mem[e].pc \in Owning
     /\ mem[d].cur = mem[e].cur)
    => mem[d].gen # mem[e].gen

(* A claimed continuation under a lease that is still being extended is    *)
(* being worked on: its holder is inside tickRun for that Run and that     *)
(* generation.  recoverClaimedWork returns only claims of older            *)
(* generations, so a claim outside this invariant would stay claimed for   *)
(* as long as its daemon keeps polling.                                    *)
NoOrphanedClaim ==
  \A r \in Runs :
    (/\ db[r].act = "claimed" /\ db[r].live
     /\ db[r].epoch = db[r].gen /\ db[r].holder # Gone)
    => LET d == db[r].holder
       IN  /\ db[r].by = d
           /\ mem[d].pc \in Claiming /\ mem[d].cur = r
           /\ mem[d].gen = db[r].epoch

(* A running Run whose goal is active has its continuation row, so some    *)
(* daemon's next tick will drive it (store.ts ensureContinuationInternal,  *)
(* settleContinuation).                                                    *)
NoStrandedRun ==
  \A r \in Runs :
    (db[r].status = "running" /\ ShouldContinueGoal(db[r].goal))
    => db[r].act # "none"

(* A Run that waits for a timer has one that will fire, and a Run that     *)
(* waits for an approval has a pending one to be resolved (coordinator.ts  *)
(* handleFailure and handleApprovalWait).                                  *)
WaitingHasWaker ==
  \A r \in Runs :
    db[r].status = "waiting_external" =>
      /\ db[r].reason = "none" => db[r].timers > 0 \/ db[r].due
      /\ db[r].reason = "approval" => PendingApprovals(db[r]) # {}

(* A paused Run leaves that status only by a user's command: "paused |     *)
(* A user/policy pause; resumption is explicit." (LONG_HORIZON.md)         *)
PauseSticks ==
  [][\A r \in Runs :
       (db[r].status = "paused" /\ db'[r].status # "paused")
       => \E q \in Requests : /\ q.run = r /\ q.kind # "pause"
                              /\ q.id \in receipts' \ receipts]_vars

(* A turn of the Run that is never answered by its provider or its tool. *)
Hangs(r) == \E d \in Executors : <>[](At(d, "exec") /\ mem[d].cur = r)

(* A Run that is running towards an active goal gets a turn or leaves that *)
(* state (scheduler.ts tick): neither crashes, stops and lease expiries    *)
(* nor a turn that throws or whose settle is lost keep it from being       *)
(* executed.  The hanging turn of another Run does: tick awaits it, and    *)
(* the code has no timeout that would end it.  So does a turn that throws  *)
(* and whose settle in the catch branch is then lost, although executor    *)
(* "failures become a fresh durable continuation" (scheduler.ts:207-208):  *)
(* the instance has at most one of these two faults.                       *)
RunningRunIsServed ==
  \A r \in Runs :
    \/ (db[r].status = "running" /\ ShouldContinueGoal(db[r].goal))
       ~> \/ db[r].status # "running"
          \/ \E d \in Executors : At(d, "exec") /\ mem[d].cur = r
    \/ \E q \in Runs \ {r} : Hangs(q)

(* A Run that waits for its retry timer is woken by some daemon's tick,     *)
(* unless the tick awaits a turn of another Run that hangs.                 *)
TimedWaitEnds ==
  \A r \in Runs :
    \/ (db[r].status = "waiting_external" /\ db[r].reason = "none")
       ~> ~(db[r].status = "waiting_external" /\ db[r].reason = "none")
    \/ \E q \in Runs \ {r} : Hangs(q)
=============================================================================
