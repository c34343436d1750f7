------------------------------ MODULE TaskGraph ------------------------------
(***************************************************************************)
(* The durable Task Graph, Agent Graph and mailboxes of one Run, and the   *)
(* turns that change them: the task, agent and message transactions of     *)
(* packages/control-plane/src/store.ts, the part of                        *)
(* packages/runtime/src/coordinator.ts that selects the acting Agent,      *)
(* binds it to a Task and settles it, and the Task tools of                *)
(* packages/runtime/src/mission-tools.ts.                                  *)
(*                                                                         *)
(* Grain.  A store transaction is one step.  What a turn reads from the    *)
(* graph just before a transaction is read in the step of the transaction: *)
(* all writers of the graph are fenced executors of the same Run, so while *)
(* the lease is held nobody else writes, and once it is lost the           *)
(* transaction throws.  Session epochs, events, message bodies and the     *)
(* coordinator's own mailbox, which no decision reads, are left out; the   *)
(* scheduler is BeginTurn and EndTurn (module RunScheduler).               *)
(***************************************************************************)
EXTENDS Integers, FiniteSets, RunLifecycle

CONSTANTS Daemons,            \* executor ids of the daemons that are up
          Tasks,              \* task numbers in order of creation
          Delegates,          \* delegate Agents in order of creation
          MAX_TASK_ATTEMPTS,
          MaxGraphGen         \* bound: leases lapse below this generation

ASSUME TasksAssumption == Tasks \subseteq Nat \ {0}
ASSUME DelegatesAssumption == Delegates \subseteq Nat \ {0}
ASSUME AttemptsAssumption == MAX_TASK_ATTEMPTS \in Nat \ {0}
ASSUME GenAssumption == MaxGraphGen \in Nat

(* The first Agent of every Run; the owner of nobody's Task. *)
Coordinator == 0
Agents == {Coordinator} \cup Delegates
NoOwner == -1

(* The lease has no holder before the first turn. *)
NoExecutor == "none"

VARIABLES tasks,    \* tasks and task_dependencies
          agents,   \* agents and agent_edges
          inbox,    \* delegates with a pending agent_messages row
          lease,    \* the Run's run_leases row
          turn      \* the turn each daemon is executing

graphVars == <<tasks, agents, inbox, lease, turn>>
graph     == <<tasks, agents, inbox>>

TaskRow == [status  : TaskStatus \cup {"absent"},
            deps    : SUBSET Tasks,
            owner   : Agents \cup {NoOwner},
            gen     : Nat,                      \* lease_generation, 0: NULL
            attempt : Nat]

AgentRow == [status : AgentStatus \cup {"absent"},
             lead   : BOOLEAN,                  \* role = "coordinator"
             task   : Tasks \cup {0},           \* the Task it was spawned for
             parent : Agents \cup {NoOwner},
             gen    : Nat]

(* Where a turn is, in program order. *)
TurnPc == {"idle", "recover", "select", "drain", "claim", "work", "queueChild",
       "notifyChild", "settle", "retire", "stagnation", "replan", "replace"}

TurnRow == [pc       : TurnPc,
            gen      : Nat,             \* generation of the turn's lease
            agent    : Agents,          \* the acting Agent
            child    : Agents,          \* the delegate being spawned...
            task     : Tasks \cup {0},  \* ... and its Task
            back     : {"work", "idle"}]

NoTask  == [status |-> "absent", deps |-> {}, owner |-> NoOwner, gen |-> 0,
            attempt |-> 0]
NoAgent == [status |-> "absent", lead |-> FALSE, task |-> 0,
            parent |-> NoOwner, gen |-> 0]
Idle    == [pc |-> "idle", gen |-> 0, agent |-> Coordinator,
            child |-> Coordinator, task |-> 0, back |-> "idle"]

(* createRun leaves its coordinator running and unstamped. *)
GraphInit ==
  /\ tasks = [t \in Tasks |-> NoTask]
  /\ agents = [a \in Agents |->
                 IF a = Coordinator
                 THEN [NoAgent EXCEPT !.status = "running", !.lead = TRUE]
                 ELSE NoAgent]
  /\ inbox = {}
  /\ lease = [holder |-> NoExecutor, gen |-> 0, live |-> FALSE]
  /\ turn = [e \in Daemons |-> Idle]
-----------------------------------------------------------------------------
HoldsRun(e) == lease.live /\ lease.holder = e /\ lease.gen = turn[e].gen
TurnAt(e, p) == turn[e].pc = p /\ HoldsRun(e)
TurnGoes(e, p) == turn' = [turn EXCEPT ![e] = [@ EXCEPT !.pc = p]]
EndTurn(e) == turn' = [turn EXCEPT ![e] = Idle]
Acting(e) == turn[e].agent

Existing == {t \in Tasks : tasks[t].status # "absent"}
Owned(a) == {t \in Tasks : tasks[t].owner = a}
First(S) == CHOOSE x \in S : \A y \in S : x <= y

(* The Tasks an Agent still has to do, as selectActingAgent and            *)
(* settleActingAgent read them.                                            *)
Remaining(a) ==
  {t \in Owned(a) : tasks[t].status \notin {"completed", "cancelled"}}

(* Mutant of RefreshReadiness: one complete dependency is enough. *)
RefreshReadinessAny(ts) ==
  [t \in Tasks |->
     IF /\ \/ ts[t].status = "pending"
           \/ ts[t].status = "failed" /\ ts[t].attempt < MAX_TASK_ATTEMPTS
        /\ ts[t].deps # {} =>
             \E d \in ts[t].deps : ts[d].status \in {"completed", "failed"}
     THEN [ts[t] EXCEPT !.status = "ready"]
     ELSE ts[t]]

(* Mutant of RefreshReadiness: one attempt too many. *)
RefreshReadinessAgain(ts) ==
  [t \in Tasks |->
     IF /\ \/ ts[t].status = "pending"
           \/ ts[t].status = "failed" /\ ts[t].attempt <= MAX_TASK_ATTEMPTS
        /\ \A d \in ts[t].deps : ts[d].status = "completed"
     THEN [ts[t] EXCEPT !.status = "ready"]
     ELSE ts[t]]

(* refreshTaskReadinessInternal.  The rows it promotes are not complete,   *)
(* so that the order of the loop does not matter.                          *)
RefreshReadiness(ts) ==
  [t \in Tasks |->
     IF /\ \/ ts[t].status = "pending"
           \/ ts[t].status = "failed" /\ ts[t].attempt < MAX_TASK_ATTEMPTS
        /\ \A d \in ts[t].deps : ts[d].status = "completed"
     THEN [ts[t] EXCEPT !.status = "ready"]
     ELSE ts[t]]

(* transitionTask under a lease *)
TransitionTask(t, to, g) ==
  LET old == tasks[t]
      new == [old EXCEPT
                !.status = to,
                !.owner = IF to \in {"completed", "failed", "cancelled"}
                          THEN NoOwner ELSE old.owner,
                !.attempt = IF to = "failed" THEN old.attempt + 1
                                             ELSE old.attempt,
                !.gen = g]
  IN  RefreshReadiness([tasks EXCEPT ![t] = new])

(* transitionAgent under a lease *)
TransitionAgent(a, to, g) ==
  [agents EXCEPT ![a] = [@ EXCEPT !.status = to, !.gen = g]]
-----------------------------------------------------------------------------
(* The lease, as tickRun leaves it when it calls execute *)

BeginTurn(e) ==
  /\ turn[e].pc = "idle"
  /\ lease.live => lease.holder = e
  /\ LET g == IF lease.live THEN lease.gen ELSE lease.gen + 1
     IN  /\ lease' = [holder |-> e, gen |-> g, live |-> TRUE]
         /\ turn' = [turn EXCEPT ![e] = [Idle EXCEPT !.pc = "recover",
                                                     !.gen = g]]
  /\ UNCHANGED graph

(* Any transaction of a turn whose lease is lost throws LeaseFencedError,  *)
(* and so does the end of the turn.                                        *)
TurnIsFenced(e) ==
  /\ turn[e].pc # "idle" /\ ~HoldsRun(e)
  /\ EndTurn(e)
  /\ UNCHANGED <<graph, lease>>

(* The lease runs out under a daemon that stalls or has crashed.  A crash  *)
(* is a turn that takes no further step but TurnIsFenced, after which the  *)
(* same member of Daemons stands for the daemon that replaces it.          *)
LeaseLapses ==
  /\ lease.live /\ lease.gen < MaxGraphGen
  /\ lease' = [lease EXCEPT !.live = FALSE]
  /\ UNCHANGED <<graph, turn>>
-----------------------------------------------------------------------------
(* The start of a turn: RunCoordinator.execute *)

StrandedTasks(g) ==
  {t \in Tasks : tasks[t].status = "running" /\ 0 < tasks[t].gen
                 /\ tasks[t].gen < g}

StrandedAgents(g) ==
  {a \in Agents : agents[a].status \in {"running", "recovering"}
                  /\ 0 < agents[a].gen /\ agents[a].gen < g}

(* recoverGraphWork: through failed to ready, through recovering to queued *)
RecoverGraphWork(e) ==
  LET g == turn[e].gen
  IN  /\ TurnAt(e, "recover")
      /\ tasks' = [t \in Tasks |->
           IF t \in StrandedTasks(g)
           THEN [tasks[t] EXCEPT !.status = "ready", !.owner = NoOwner,
                                 !.gen = g, !.attempt = @ + 1]
           ELSE tasks[t]]
      /\ agents' = [a \in Agents |->
           IF a \in StrandedAgents(g)
           THEN [agents[a] EXCEPT !.status = "queued", !.gen = g]
           ELSE agents[a]]
      /\ TurnGoes(e, "select")
      /\ UNCHANGED <<inbox, lease>>

(* The delegates that selectActingAgent prefers to the coordinator *)
Selectable(a) ==
  /\ agents[a].status \in {"queued", "running", "waiting"}
  /\ a \in inbox \/ Remaining(a) # {}

ActingAgent ==
  IF \E a \in Delegates : Selectable(a)
  THEN First({a \in Delegates : Selectable(a)})
  ELSE Coordinator

MarkAgentActive(rows, a, g) == [rows EXCEPT ![a] = [@ EXCEPT !.gen = g]]

(* selectActingAgent: transitionAgent to running, markAgentActive *)
SelectActingAgent(e) ==
  /\ TurnAt(e, "select")
  /\ agents[ActingAgent].status = "running"
     \/ CanTransitionAgent(agents[ActingAgent].status, "running")
  /\ agents' = MarkAgentActive(TransitionAgent(ActingAgent, "running", turn[e].gen),
                               ActingAgent, turn[e].gen)
  /\ turn' = [turn EXCEPT ![e] = [@ EXCEPT !.pc = "drain",
                                           !.agent = ActingAgent]]
  /\ UNCHANGED <<tasks, inbox, lease>>

(* receiveAgentMessages *)
DrainInbox(e) ==
  /\ TurnAt(e, "drain")
  /\ inbox' = inbox \ {Acting(e)}
  /\ TurnGoes(e, "claim")
  /\ UNCHANGED <<tasks, agents, lease>>

(* nextReadyTask *)
ReadyTasks == {t \in Tasks : tasks[t].status = "ready"
                             /\ tasks[t].owner = NoOwner}

(* The Task that claimTaskFor claims for an Agent, if any *)
Candidates(a) ==
  IF agents[a].task # 0 /\ tasks[agents[a].task].status = "ready"
  THEN {agents[a].task}
  ELSE IF agents[a].lead /\ ReadyTasks # {}
       THEN {First(ReadyTasks)}
       ELSE {}

(* claimTask: a conditional UPDATE, and an error unless the Agent owns it  *)
ClaimTask(t, a, g) ==
  [tasks EXCEPT ![t] = IF @.status = "ready" /\ @.owner = NoOwner
                       THEN [@ EXCEPT !.status = "running", !.owner = a,
                                      !.gen = g]
                       ELSE @]

(* Mutant of ClaimTaskFor: the Agent's running Task is not looked up. *)
ClaimTaskForAnother(e) ==
  /\ TurnAt(e, "claim")
  /\ IF Candidates(Acting(e)) = {}
     THEN UNCHANGED tasks
     ELSE tasks' = ClaimTask(First(Candidates(Acting(e))), Acting(e),
                             turn[e].gen)
  /\ TurnGoes(e, "work")
  /\ UNCHANGED <<agents, inbox, lease>>

(* Mutant of ClaimTaskFor: the claim is not fenced. *)
ClaimTaskForUnfenced(e) ==
  /\ turn[e].pc = "claim"
  /\ IF \/ \E t \in Owned(Acting(e)) : tasks[t].status = "running"
        \/ Candidates(Acting(e)) = {}
     THEN UNCHANGED tasks
     ELSE tasks' = ClaimTask(First(Candidates(Acting(e))), Acting(e),
                             turn[e].gen)
  /\ TurnGoes(e, "work")
  /\ UNCHANGED <<agents, inbox, lease>>

(* claimTaskFor *)
ClaimTaskFor(e) ==
  /\ TurnAt(e, "claim")
  /\ IF \/ \E t \in Owned(Acting(e)) : tasks[t].status = "running"
        \/ Candidates(Acting(e)) = {}
     THEN UNCHANGED tasks
     ELSE tasks' = ClaimTask(First(Candidates(Acting(e))), Acting(e),
                             turn[e].gen)
  /\ TurnGoes(e, "work")
  /\ UNCHANGED <<agents, inbox, lease>>
-----------------------------------------------------------------------------
(* The tools of a turn: createMissionTools *)

(* createTask inserts the row and refreshes every one *)
CreateTask(t, deps) ==
  RefreshReadiness([tasks EXCEPT ![t] =
    [NoTask EXCEPT !.status = "pending", !.deps = deps]])

(* plan_tasks, one createTask; dependencies are Tasks that exist already *)
PlanTask(e, t, deps) ==
  /\ TurnAt(e, "work")
  /\ t \in Tasks \ Existing /\ \A u \in Tasks \ Existing : t <= u
  /\ deps \subseteq Existing
  /\ tasks' = CreateTask(t, deps)
  /\ UNCHANGED <<agents, inbox, lease, turn>>

(* complete_task and fail_task of a Task the acting Agent owns *)
FinishTask(e, t, to) ==
  /\ TurnAt(e, "work")
  /\ t \in Owned(Acting(e)) /\ CanTransitionTask(tasks[t].status, to)
  /\ tasks' = TransitionTask(t, to, turn[e].gen)
  /\ UNCHANGED <<agents, inbox, lease, turn>>

(* spawnAgent under a lease *)
SpawnAgent(e, c, t, lead, back) ==
  /\ agents[c].status = "absent"
  /\ \A d \in Delegates : agents[d].status = "absent" => c <= d
  /\ agents' = [agents EXCEPT ![c] =
       [status |-> "created", lead |-> lead, task |-> t,
        parent |-> Acting(e), gen |-> turn[e].gen]]
  /\ turn' = [turn EXCEPT ![e] = [@ EXCEPT !.pc = "queueChild", !.child = c,
                                           !.task = t, !.back = back]]

(* delegate_task: spawnAgent... *)
DelegateTask(e, c, t, lead) ==
  /\ TurnAt(e, "work")
  /\ t \in Existing /\ tasks[t].owner = NoOwner
  /\ SpawnAgent(e, c, t, lead, "work")
  /\ UNCHANGED <<tasks, inbox, lease>>

(* ... transitionAgent to queued... *)
QueueChild(e) ==
  /\ TurnAt(e, "queueChild")
  /\ agents' = TransitionAgent(turn[e].child, "queued", turn[e].gen)
  /\ TurnGoes(e, "notifyChild")
  /\ UNCHANGED <<tasks, inbox, lease>>

(* Back to the model with the tool's result, or the end of the turn. *)
SpawnReturns(e) ==
  turn' = [turn EXCEPT ![e] =
    IF @.back = "idle"
    THEN Idle
    ELSE [Idle EXCEPT !.pc = "work", !.gen = turn[e].gen,
                      !.agent = Acting(e)]]

(* ... and sendAgentMessage, each a transaction of its own...              *)
NotifyChild(e) ==
  /\ TurnAt(e, "notifyChild")
  /\ inbox' = inbox \cup {turn[e].child}
  /\ SpawnReturns(e)
  /\ UNCHANGED <<tasks, agents, lease>>

(* ... unless the call has no instructions, which is found out only now.   *)
InstructionsMissing(e) ==
  /\ TurnAt(e, "notifyChild") /\ turn[e].back = "work"
  /\ SpawnReturns(e)
  /\ UNCHANGED <<graph, lease>>

(* message_agent *)
MessageAgent(e, a) ==
  /\ TurnAt(e, "work")
  /\ agents[a].status # "absent"
  /\ inbox' = inbox \cup {a}
  /\ UNCHANGED <<tasks, agents, lease, turn>>
-----------------------------------------------------------------------------
(* The end of a turn *)

(* An abort, an approval, a provider failure: the Agent is not settled. *)
TurnCutShort(e) ==
  /\ TurnAt(e, "work")
  /\ EndTurn(e)
  /\ UNCHANGED <<graph, lease>>

TurnSucceeds(e) ==
  /\ TurnAt(e, "work")
  /\ TurnGoes(e, "settle")
  /\ UNCHANGED <<graph, lease>>

(* settleActingAgent: a delegate waits for its remaining Tasks, or reports *)
(* to its parent...                                                        *)
SettleActingAgent(e) ==
  LET a == Acting(e)
  IN  /\ TurnAt(e, "settle")
      /\ \/ /\ agents[a].lead
            /\ TurnGoes(e, "stagnation") /\ UNCHANGED <<agents, inbox>>
         \/ /\ ~agents[a].lead /\ Remaining(a) # {}
            /\ agents' = TransitionAgent(a, "waiting", turn[e].gen)
            /\ TurnGoes(e, "stagnation") /\ UNCHANGED inbox
         \/ /\ ~agents[a].lead /\ Remaining(a) = {}
            /\ inbox' = inbox \cup ({agents[a].parent} \cap Delegates)
            /\ TurnGoes(e, "retire") /\ UNCHANGED agents
      /\ UNCHANGED <<tasks, lease>>

(* Mutant of RetireAgent: the Goal's word for it. *)
RetireAgentMisspelt(e) ==
  /\ TurnAt(e, "retire")
  /\ agents' = TransitionAgent(Acting(e), "complete", turn[e].gen)
  /\ TurnGoes(e, "stagnation")
  /\ UNCHANGED <<tasks, inbox, lease>>

(* ... and is done.                                                        *)
RetireAgent(e) ==
  /\ TurnAt(e, "retire")
  /\ agents' = TransitionAgent(Acting(e), "completed", turn[e].gen)
  /\ TurnGoes(e, "stagnation")
  /\ UNCHANGED <<tasks, inbox, lease>>

RunningOf(a) == {t \in Owned(a) : tasks[t].status = "running"}

(* reactToStagnation: continue, or record a problem that blocks nothing *)
KeepStrategy(e) ==
  /\ TurnAt(e, "stagnation")
  /\ EndTurn(e)
  /\ UNCHANGED <<graph, lease>>

(* reactToStagnation: replan returns the Agent's running Tasks, one by one *)
Replan(e) ==
  /\ turn[e].pc \in {"stagnation", "replan"} /\ HoldsRun(e)
  /\ IF RunningOf(Acting(e)) = {}
     THEN EndTurn(e) /\ UNCHANGED tasks
     ELSE /\ tasks' = TransitionTask(First(RunningOf(Acting(e))), "failed",
                                     turn[e].gen)
          /\ TurnGoes(e, "replan")
  /\ UNCHANGED <<agents, inbox, lease>>

(* reactToStagnation: fresh_agent fails the first one (bound: there is a   *)
(* delegate left to spawn)...                                              *)
FreshAgent(e) ==
  /\ TurnAt(e, "stagnation") /\ RunningOf(Acting(e)) # {}
  /\ \E d \in Delegates : agents[d].status = "absent"
  /\ LET stuck == First(RunningOf(Acting(e)))
     IN  /\ tasks' = TransitionTask(stuck, "failed", turn[e].gen)
         /\ turn' = [turn EXCEPT ![e] = [@ EXCEPT !.pc = "replace",
                                                  !.task = stuck]]
  /\ UNCHANGED <<agents, inbox, lease>>

(* ... and spawns a delegate for it.                                       *)
SpawnReplacement(e, c) ==
  /\ TurnAt(e, "replace")
  /\ SpawnAgent(e, c, turn[e].task, FALSE, "idle")
  /\ UNCHANGED <<tasks, inbox, lease>>
-----------------------------------------------------------------------------
Tool(e) ==
  \/ \E t \in Tasks, deps \in SUBSET Tasks : PlanTask(e, t, deps)
  \/ \E t \in Tasks, to \in {"completed", "failed"} : FinishTask(e, t, to)
  \/ \E c \in Delegates, t \in Tasks, lead \in BOOLEAN :
       DelegateTask(e, c, t, lead)
  \/ QueueChild(e) \/ NotifyChild(e) \/ InstructionsMissing(e)
  \/ \E a \in Delegates : MessageAgent(e, a)

Step(e) ==
  \/ RecoverGraphWork(e) \/ SelectActingAgent(e) \/ DrainInbox(e)
  \/ ClaimTaskFor(e) \/ TurnCutShort(e) \/ TurnSucceeds(e)
  \/ SettleActingAgent(e) \/ RetireAgent(e) \/ KeepStrategy(e)
  \/ Replan(e) \/ FreshAgent(e)
  \/ \E c \in Delegates : SpawnReplacement(e, c)

GraphNext ==
  \/ \E e \in Daemons : BeginTurn(e) \/ Step(e) \/ Tool(e) \/ TurnIsFenced(e)
  \/ LeaseLapses

GraphSpec == GraphInit /\ [][GraphNext]_graphVars
-----------------------------------------------------------------------------
(* Type invariant of the graph, the lease and the turns. *)
GraphTypeOK ==
  /\ tasks \in [Tasks -> TaskRow]
  /\ agents \in [Agents -> AgentRow]
  /\ inbox \subseteq Delegates
  /\ lease \in [holder : Daemons \cup {NoExecutor}, gen : Nat, live : BOOLEAN]
  /\ turn \in [Daemons -> TurnRow]

(* No Task is offered, worked on or done before all the Tasks it depends   *)
(* on are completed, through retries, recoveries and replans (store.ts     *)
(* refreshTaskReadinessInternal, recoverGraphWork).                        *)
DependenciesFirst ==
  \A t \in Existing :
    tasks[t].status # "pending" =>
      \A d \in tasks[t].deps : tasks[d].status = "completed"

(* A Task has an owner exactly while it is running, no Agent works on two  *)
(* Tasks at once (coordinator.ts claimTaskFor: "Binds the acting Agent to  *)
(* exactly one durable Task for the turn"), and an owner can still be      *)
(* selected for a turn, so that its Task can be finished without waiting   *)
(* for a takeover: it has not been retired under it (settleActingAgent).   *)
OneTaskPerAgent ==
  /\ \A t \in Tasks : tasks[t].owner # NoOwner <=> tasks[t].status = "running"
  /\ \A a \in Agents : Cardinality(RunningOf(a)) <= 1
  /\ \A t \in Tasks : tasks[t].owner \in Delegates => Selectable(tasks[t].owner)

(* Past recoverGraphWork a turn that holds the lease meets no work of an   *)
(* older generation: every running Task and Agent is of its own one.       *)
RecoveredBeforeWork ==
  \A e \in Daemons :
    (turn[e].pc \notin {"idle", "recover"} /\ HoldsRun(e))
    => /\ \A t \in Tasks : tasks[t].status = "running"
                           => tasks[t].gen = turn[e].gen
       /\ \A a \in Agents : agents[a].status = "running"
                            => agents[a].gen \in {0, turn[e].gen}

(* A Task is attempted MAX_TASK_ATTEMPTS times, and at most once more for  *)
(* each takeover of the Run (the first lease generation is none): however  *)
(* failures, replans and recoveries alternate, it cannot spin forever      *)
(* (store.ts refreshTaskReadinessInternal, recoverGraphWork).  The cap     *)
(* without takeovers, RetriesAreCapped, is violated.                       *)
AttemptsAreBounded ==
  \A t \in Tasks : tasks[t].attempt < MAX_TASK_ATTEMPTS + lease.gen

(* "A task that has failed this many times stops being automatically       *)
(* retried." (store.ts MAX_TASK_ATTEMPTS)                                  *)
RetriesAreCapped ==
  \A t \in Tasks : tasks[t].status \in {"ready", "running"}
                   => tasks[t].attempt < MAX_TASK_ATTEMPTS
=============================================================================
