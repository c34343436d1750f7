------------------------------ MODULE RunStore ------------------------------
(***************************************************************************)
(* The transactions of packages/control-plane/src/store.ts that decide     *)
(* whether and by whom a Run is executed.  The durable state of one Run is *)
(* a record: its runs row, the status of its current goal, its only        *)
(* scheduled_actions row, its run_leases row, its wake_conditions, its     *)
(* approvals and the observations of its provider problem.                 *)
(*                                                                         *)
(* Every operator below is the effect of one BEGIN IMMEDIATE transaction   *)
(* (or of one of its internal helpers) on that record; the guard that makes*)
(* the transaction throw is a separate predicate, since a thrown           *)
(* transaction is rolled back and leaves the record as it was.             *)
(***************************************************************************)
EXTENDS Naturals, FiniteSets, RunLifecycle

CONSTANTS Executors,  \* executor ids of the daemons that are up
          Approvals   \* approval requests one Run may make

(* The executor id of a daemon process that is no more.  Ids are           *)
(* `daemon-<randomUUID>`: no later process ever has the same one.          *)
Gone == "gone"

ASSUME ExecutorsAssumption == Gone \notin Executors

(* recordProblem: `meaningful.length >= 3` *)
BlockAfter == 3

ActionStatus   == {"none", "pending", "claimed"}
ApprovalStatus == {"none", "pending", "resolved"}
Reasons        == {"none", "approval", "provider"}

Row ==
  [status    : RunStatus \cup {"absent"},
   reason    : Reasons,                      \* blocked_reason
   goal      : GoalStatus,
   act       : ActionStatus,                 \* the scheduled_actions row
   by        : Executors \cup {Gone},        \*   claimed_by
   epoch     : Nat,                          \*   claimed_epoch
   holder    : Executors \cup {Gone},        \* the run_leases row
   gen       : Nat,                          \*   generation, 0: no row yet
   live      : BOOLEAN,                      \*   expires_at > now
   timers    : Nat,                          \* pending wakes, not yet due
   due       : BOOLEAN,                      \* some pending wake is due
   approvals : [Approvals -> ApprovalStatus],
   observed  : 0..BlockAfter]                \* problem observations, capped

NoRun ==
  [status |-> "absent", reason |-> "none", goal |-> "active",
   act |-> "none", by |-> Gone, epoch |-> 0,
   holder |-> Gone, gen |-> 0, live |-> FALSE,
   timers |-> 0, due |-> FALSE,
   approvals |-> [a \in Approvals |-> "none"], observed |-> 0]
-----------------------------------------------------------------------------
(* transitionRunInternal, once assertRunTransition has passed *)
SetStatus(row, to, why) == [row EXCEPT !.status = to, !.reason = why]

(* ensureContinuationInternal: INSERT ... ON CONFLICT(run_id) DO NOTHING *)
EnsureContinuation(row) ==
  IF /\ row.status = "running"
     /\ ShouldContinueGoal(row.goal)
     /\ row.act = "none"
  THEN [row EXCEPT !.act = "pending"]
  ELSE row

(* Mutant of StartRunning: the transition without its continuation. *)
StartRunningUnscheduled(row) == SetStatus(row, "running", "none")

(* transitionRun with to = "running" *)
StartRunning(row) == EnsureContinuation(SetStatus(row, "running", "none"))

(* createRun: queued, then running with its first continuation, in one     *)
(* transaction.                                                            *)
CreateRun(row) == StartRunning([row EXCEPT !.status = "queued"])
-----------------------------------------------------------------------------
(* The lease *)

(* assertLeaseInternal *)
LeaseHeld(row, d, g) == row.holder = d /\ row.gen = g /\ row.live

(* acquireLease: refused while another executor's lease has not expired... *)
LeasedByOther(row, d) == row.live /\ row.holder # d

(* Mutants of AcquireLease: a takeover keeps the generation; a holder's     *)
(* own expired lease is extended as if it had not lapsed.                  *)
AcquireLeaseUnfenced(row, d) ==
  [row EXCEPT !.gen = IF @ = 0 THEN 1 ELSE @, !.holder = d, !.live = TRUE]

AcquireLeaseRevived(row, d) ==
  [row EXCEPT !.gen = IF row.holder = d THEN @ ELSE @ + 1,
              !.holder = d, !.live = TRUE]

(* ... and otherwise a new generation, unless the holder extends a lease   *)
(* that is still its own.                                                  *)
AcquireLease(row, d) ==
  [row EXCEPT !.gen = IF row.holder = d /\ row.live THEN @ ELSE @ + 1,
              !.holder = d, !.live = TRUE]
-----------------------------------------------------------------------------
(* The continuation *)

(* DELETE or reset of the claimed scheduled_actions row *)
Unclaimed(row, act) ==
  [row EXCEPT !.act = act, !.by = Gone, !.epoch = 0]

(* recoverClaimedWork: only claims of an older generation are returned *)
RecoverClaimedWork(row, g) ==
  IF row.act = "claimed" /\ row.epoch < g
  THEN Unclaimed(row, "pending")
  ELSE row

(* claimContinuation: returns undefined unless all of these hold *)
Claimable(row) ==
  /\ row.act = "pending"
  /\ row.status = "running"
  /\ ShouldContinueGoal(row.goal)

ClaimContinuation(row, d, g) ==
  [row EXCEPT !.act = "claimed", !.by = d, !.epoch = g]

(* settleContinuation: delete the caller's own claim, then requeue *)
SettleContinuation(row, d, g, requeue) ==
  LET released == IF row.act = "claimed" /\ row.by = d /\ row.epoch = g
                  THEN Unclaimed(row, "none")
                  ELSE row
  IN  IF requeue THEN EnsureContinuation(released) ELSE released
-----------------------------------------------------------------------------
(* External waits *)

(* scheduleWake *)
ScheduleWake(row) ==
  LET armed == [row EXCEPT !.timers = @ + 1]
  IN  IF row.status = "running"
      THEN SetStatus(armed, "waiting_external", "none")
      ELSE armed

(* Mutant of WakeDueRun: the wait is not ended. *)
WakeDueRunAsleep(row) == EnsureContinuation([row EXCEPT !.due = FALSE])

(* wakeDueRuns, for the due conditions of one Run *)
WakeDueRun(row) ==
  LET woken == [row EXCEPT !.due = FALSE]
  IN  IF ~row.due
      THEN row
      ELSE IF row.status = "waiting_external"
           THEN StartRunning(woken)
           ELSE EnsureContinuation(woken)

(* requestApproval *)
RequestApproval(row, a) == [row EXCEPT !.approvals[a] = "pending"]

PendingApprovals(row) == {a \in Approvals : row.approvals[a] = "pending"}

(* Mutant of ResolveApproval: the decision does not end the wait. *)
ResolveApprovalSilently(row, a) == [row EXCEPT !.approvals[a] = "resolved"]

(* resolveApproval: the last pending decision ends the wait *)
ResolveApproval(row, a) ==
  LET resolved == [row EXCEPT !.approvals[a] = "resolved"]
  IN  IF PendingApprovals(resolved) = {} /\ row.status = "waiting_external"
      THEN StartRunning(resolved)
      ELSE resolved
-----------------------------------------------------------------------------
(* Limits, blockers, completion *)

(* Mutant of ExhaustBudget: a status the state machine does not have. *)
ExhaustBudgetMisspelt(row) ==
  IF row.status = "running"
  THEN SetStatus(row, "budget_exhausted", "none")
  ELSE row

(* recordUsageInternal with a delta that exhausts the budget *)
ExhaustBudget(row) ==
  IF row.status = "running"
  THEN SetStatus(row, "budget_limited", "none")
  ELSE row

(* blockRunForProblemInternal *)
BlockRunForProblem(row) ==
  LET stopped == IF row.goal \in {"active", "waiting_external"}
                 THEN [row EXCEPT !.goal = "blocked"]
                 ELSE row
  IN  IF row.status \in {"running", "waiting_external", "recovering"}
      THEN SetStatus(stopped, "blocked", "provider")
      ELSE stopped

(* recordProblem of a provider failure.  A retryable one is recorded with  *)
(* an alternate action available, under a fingerprint of its own, and      *)
(* never becomes eligible.                                                 *)
RecordProblem(row, retryable) ==
  LET seen == [row EXCEPT !.observed = IF @ < BlockAfter THEN @ + 1 ELSE @]
  IN  IF retryable
      THEN row
      ELSE IF seen.observed >= BlockAfter
           THEN BlockRunForProblem(seen)
           ELSE seen

(* executeCommand without a prior receipt *)
CommandTarget(row, kind) ==
  CASE kind = "pause"  -> "paused"
    [] kind = "cancel" -> "cancelled"
    [] kind = "resume" -> IF row.status \in {"paused", "waiting_external"}
                          THEN "running"
                          ELSE "queued"

CommandIsNoop(row, kind) == kind = "resume" /\ row.status = "running"

CommandLegal(row, kind) ==
  \/ CommandIsNoop(row, kind)
  \/ CanTransitionRun(row.status, CommandTarget(row, kind))

ExecuteCommand(row, kind) ==
  LET to == CommandTarget(row, kind)
  IN  IF CommandIsNoop(row, kind)
      THEN row
      ELSE IF to = "running"
           THEN StartRunning(row)
           ELSE SetStatus(row, to, "none")
=============================================================================
