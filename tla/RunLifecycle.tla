---------------------------- MODULE RunLifecycle ----------------------------
(***************************************************************************)
(* The durable lifecycles of packages/core/src/state-machine.ts: for each  *)
(* of Run, Goal, Task and Agent a table from a status to the statuses it   *)
(* may change to.  Every status write of the control plane goes through    *)
(* one of these tables or is one of the few raw SQL updates that the store *)
(* modules model where they occur.                                         *)
(***************************************************************************)

RunTransitions ==
  [queued           |-> {"running", "paused", "failed", "cancelled"},
   running          |-> {"waiting_external", "paused", "recovering", "blocked",
                         "budget_limited", "usage_limited", "failed",
                         "completed", "cancelled"},
   waiting_external |-> {"running", "paused", "recovering", "blocked",
                         "budget_limited", "usage_limited", "failed",
                         "cancelled"},
   paused           |-> {"queued", "running", "recovering", "cancelled"},
   recovering       |-> {"running", "waiting_external", "paused", "blocked",
                         "budget_limited", "usage_limited", "failed",
                         "cancelled"},
   blocked          |-> {"queued", "running", "paused", "cancelled"},
   budget_limited   |-> {"queued", "running", "paused", "cancelled"},
   usage_limited    |-> {"queued", "running", "paused", "cancelled"},
   failed           |-> {},
   completed        |-> {},
   cancelled        |-> {}]

GoalTransitions ==
  [active           |-> {"paused", "blocked", "waiting_external",
                         "budget_limited", "usage_limited", "complete",
                         "cancelled"},
   paused           |-> {"active", "cancelled"},
   blocked          |-> {"active", "paused", "cancelled"},
   waiting_external |-> {"active", "paused", "blocked", "budget_limited",
                         "usage_limited", "cancelled"},
   budget_limited   |-> {"active", "paused", "cancelled"},
   usage_limited    |-> {"active", "paused", "cancelled"},
   complete         |-> {},
   cancelled        |-> {}]

TaskTransitions ==
  [pending   |-> {"ready", "cancelled"},
   ready     |-> {"pending", "running", "cancelled"},
   running   |-> {"waiting", "blocked", "completed", "failed", "cancelled"},
   waiting   |-> {"ready", "running", "blocked", "cancelled"},
   blocked   |-> {"ready", "pending", "cancelled"},
   completed |-> {},
   failed    |-> {"ready", "pending", "cancelled"},
   cancelled |-> {}]

AgentTransitions ==
  [created    |-> {"queued", "stopped", "closed"},
   queued     |-> {"running", "suspended", "stopped", "failed", "closed"},
   running    |-> {"waiting", "suspended", "recovering", "completed", "failed",
                   "stopped", "closed"},
   waiting    |-> {"queued", "running", "suspended", "recovering", "stopped",
                   "failed", "closed"},
   suspended  |-> {"queued", "running", "stopped", "closed"},
   recovering |-> {"queued", "running", "waiting", "suspended", "failed",
                   "stopped", "closed"},
   completed  |-> {"closed"},
   failed     |-> {"queued", "recovering", "closed"},
   stopped    |-> {"queued", "closed"},
   closed     |-> {}]

RunStatus   == DOMAIN RunTransitions
GoalStatus  == DOMAIN GoalTransitions
TaskStatus  == DOMAIN TaskTransitions
AgentStatus == DOMAIN AgentTransitions

(* canTransition: "to" is one of the candidates listed for "from". *)
CanTransitionRun(from, to)   == to \in RunTransitions[from]
CanTransitionTask(from, to)  == to \in TaskTransitions[from]
CanTransitionAgent(from, to) == to \in AgentTransitions[from]

(* isTerminalRunStatus and its siblings: a status with no outbound edge. *)
TerminalRun  == {s \in RunStatus : RunTransitions[s] = {}}
TerminalTask == {s \in TaskStatus : TaskTransitions[s] = {}}

(* shouldContinueGoal *)
ShouldContinueGoal(goal) == goal = "active"
=============================================================================
