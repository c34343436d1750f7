--------------------------- MODULE TaskGraphProofs ---------------------------
(***************************************************************************)
(* Theorems about TaskGraph for any number of daemons, Tasks and delegates *)
(* and any number of attempts.                                             *)
(***************************************************************************)
EXTENDS TaskGraph, FiniteSetTheorems, TLAPS

(* The first of some Tasks or Agents is one of them (ORDER BY created_at   *)
(* in store.ts).                                                           *)
LEMMA FirstIsOne ==
  ASSUME NEW S \in SUBSET Nat, S # {}
  PROVE  First(S) \in S
<1> DEFINE R == {ss \in Nat \X Nat : ss[1] < ss[2]}
<1>1. IsWellFoundedOn(R, Nat)
  BY NatLessThanWellFounded DEF OpToRel
<1>2. \A i, j \in Nat : j < i => <<j, i>> \in R
  OBVIOUS
<1> HIDE DEF R
<1>3. PICK i \in S : \A j \in S : ~(<<j, i>> \in R)
  BY <1>1, WFMin
<1>4. ASSUME NEW j \in S PROVE i <= j
  <2>1. i \in Nat /\ j \in Nat
    OBVIOUS
  <2>2. ~(j < i)
    BY <1>2, <1>3, <2>1
  <2> QED BY <2>1, <2>2
<1> QED BY <1>4 DEF First

(* The statuses of state-machine.ts, as sets of their own.                 *)
LEMMA Statuses ==
  /\ {"pending", "ready", "running", "completed", "failed"}
       \subseteq TaskStatus
  /\ {"created", "queued", "running", "waiting", "completed"}
       \subseteq AgentStatus
  BY DEF TaskStatus, AgentStatus, TaskTransitions, AgentTransitions

(* The coordinator and the delegates are numbered; nobody is not an Agent. *)
LEMMA AgentNumbers ==
  /\ Coordinator \in Agents /\ Delegates \subseteq Agents
  /\ Agents \subseteq Nat /\ NoOwner \notin Agents
  /\ Coordinator \notin Delegates
<1>1. Delegates \subseteq Nat /\ Coordinator \in Nat /\ NoOwner \notin Nat
  BY DelegatesAssumption DEF Coordinator, NoOwner
<1>2. Coordinator \notin Delegates
  BY DelegatesAssumption DEF Coordinator
<1> QED BY <1>1, <1>2 DEF Agents
-----------------------------------------------------------------------------
(* The turn that a spawn is part of knows its delegate. *)
Children == \A e \in Daemons :
              turn[e].pc \in {"queueChild", "notifyChild"}
              => turn[e].child \in Delegates

TypeInv == GraphTypeOK /\ Children

(* A transaction of a turn: fenced, and about the turn's own Run only. *)
Writes(e) == Step(e) \/ Tool(e)

(* What a step of a daemon means for its turn and for the other ones.      *)
LEMMA BecomeShape ==
  ASSUME GraphTypeOK, NEW e \in Daemons, NEW row \in TurnRow,
         turn' = [turn EXCEPT ![e] = row]
  PROVE  /\ turn' \in [Daemons -> TurnRow] /\ turn'[e] = row
         /\ \A f \in Daemons : f # e => turn'[f] = turn[f]
  BY DEF GraphTypeOK

(* What a turn becomes in the steps that only move it on.                  *)
LEMMA GotoShape ==
  ASSUME GraphTypeOK, NEW e \in Daemons, NEW p \in TurnPc, TurnGoes(e, p)
  PROVE  /\ turn' \in [Daemons -> TurnRow]
         /\ turn'[e].pc = p /\ turn'[e].gen = turn[e].gen
         /\ turn'[e].agent = turn[e].agent /\ turn'[e].child = turn[e].child
         /\ \A f \in Daemons : f # e => turn'[f] = turn[f]
<1> DEFINE row == [turn[e] EXCEPT !.pc = p]
<1>1. turn[e] \in TurnRow
  BY DEF GraphTypeOK
<1>2. /\ row \in TurnRow /\ row.pc = p /\ row.gen = turn[e].gen
      /\ row.agent = turn[e].agent /\ row.child = turn[e].child
  BY <1>1 DEF TurnRow
<1>3. turn' = [turn EXCEPT ![e] = row]
  BY DEF TurnGoes
<1> HIDE DEF row
<1> QED BY <1>2, <1>3, BecomeShape

(* The end of a turn.                                                      *)
LEMMA EndShape ==
  ASSUME GraphTypeOK, NEW e \in Daemons, EndTurn(e)
  PROVE  /\ turn' \in [Daemons -> TurnRow] /\ turn'[e].pc = "idle"
         /\ \A f \in Daemons : f # e => turn'[f] = turn[f]
<1>1. Idle \in TurnRow /\ Idle.pc = "idle"
  BY AgentNumbers DEF Idle, TurnRow, TurnPc
<1> QED BY <1>1, BecomeShape DEF EndTurn

(* The Agent that selectActingAgent returns exists.                        *)
LEMMA ActingAgentIsOne == ActingAgent \in Agents
<1>1. {a \in Delegates : Selectable(a)} \in SUBSET Nat
  BY AgentNumbers
<1>2. CASE \E a \in Delegates : Selectable(a)
  <2>1. First({a \in Delegates : Selectable(a)})
          \in {a \in Delegates : Selectable(a)}
    BY <1>1, <1>2, FirstIsOne
  <2> QED BY <1>2, <2>1, AgentNumbers DEF ActingAgent
<1>3. CASE ~\E a \in Delegates : Selectable(a)
  BY <1>3, AgentNumbers DEF ActingAgent
<1> QED BY <1>2, <1>3

(* acquireLease starts a turn under the lease it returned.                 *)
LEMMA BeginTurnShape ==
  ASSUME GraphTypeOK, NEW e \in Daemons, BeginTurn(e)
  PROVE  /\ turn' \in [Daemons -> TurnRow]
         /\ turn'[e].pc = "recover" /\ turn'[e].gen = lease'.gen
         /\ \A f \in Daemons : f # e => turn'[f] = turn[f]
         /\ lease' \in [holder : Daemons \cup {NoExecutor}, gen : Nat,
                        live : BOOLEAN]
         /\ lease'.holder = e /\ lease'.live
         /\ lease'.gen = IF lease.live THEN lease.gen ELSE lease.gen + 1
<1> DEFINE g == IF lease.live THEN lease.gen ELSE lease.gen + 1
           row == [Idle EXCEPT !.pc = "recover", !.gen = g]
<1>1. g \in Nat
  BY DEF GraphTypeOK
<1>2. /\ lease' = [holder |-> e, gen |-> g, live |-> TRUE]
      /\ turn' = [turn EXCEPT ![e] = row]
  BY DEF BeginTurn
<1>3. row \in TurnRow /\ row.pc = "recover" /\ row.gen = g
  <2> HIDE DEF g
  <2> QED BY <1>1, AgentNumbers DEF Idle, TurnRow, TurnPc
<1>4. /\ lease'.holder = e /\ lease'.live /\ lease'.gen = g
      /\ lease' \in [holder : Daemons \cup {NoExecutor}, gen : Nat,
                     live : BOOLEAN]
  <2> HIDE DEF g
  <2> QED BY <1>1, <1>2
<1> HIDE DEF row
<1>5. /\ turn' \in [Daemons -> TurnRow] /\ turn'[e] = row
      /\ \A f \in Daemons : f # e => turn'[f] = turn[f]
  BY <1>2, <1>3, BecomeShape
<1> QED BY <1>3, <1>4, <1>5

(* What a spawn does to the turn.                                          *)
LEMMA SpawnShape ==
  ASSUME GraphTypeOK, NEW e \in Daemons, NEW c \in Delegates,
         NEW t \in Tasks \cup {0}, NEW lead \in BOOLEAN,
         NEW back \in {"work", "idle"}, SpawnAgent(e, c, t, lead, back)
  PROVE  /\ turn' \in [Daemons -> TurnRow]
         /\ turn'[e].pc = "queueChild" /\ turn'[e].gen = turn[e].gen
         /\ turn'[e].child = c
         /\ \A f \in Daemons : f # e => turn'[f] = turn[f]
         /\ agents' \in [Agents -> AgentRow]
         /\ agents[c].status = "absent" /\ agents'[c].status = "created"
         /\ \A a \in Agents : a # c => agents'[a] = agents[a]
<1> DEFINE row == [turn[e] EXCEPT !.pc = "queueChild", !.child = c,
                                  !.task = t, !.back = back]
           new == [status |-> "created", lead |-> lead, task |-> t,
                   parent |-> Acting(e), gen |-> turn[e].gen]
<1>1. turn[e] \in TurnRow /\ c \in Agents
  BY AgentNumbers DEF GraphTypeOK
<1>2. /\ row \in TurnRow /\ row.pc = "queueChild" /\ row.gen = turn[e].gen
      /\ row.child = c
  BY <1>1 DEF TurnRow, TurnPc
<1>3. new \in AgentRow /\ new.status = "created"
  BY <1>1, Statuses DEF AgentRow, TurnRow, Acting
<1>4. /\ turn' = [turn EXCEPT ![e] = row]
      /\ agents' = [agents EXCEPT ![c] = new] /\ agents[c].status = "absent"
  BY DEF SpawnAgent
<1> HIDE DEF row, new
<1>5. /\ turn' \in [Daemons -> TurnRow] /\ turn'[e] = row
      /\ \A f \in Daemons : f # e => turn'[f] = turn[f]
  BY <1>2, <1>4, BecomeShape
<1>6. /\ agents' \in [Agents -> AgentRow] /\ agents'[c] = new
      /\ \A a \in Agents : a # c => agents'[a] = agents[a]
  BY <1>1, <1>3, <1>4 DEF GraphTypeOK
<1> QED BY <1>2, <1>3, <1>4, <1>5, <1>6

(* delegate_task is over: back to the model, or the end of the turn.       *)
LEMMA SpawnReturnsShape ==
  ASSUME GraphTypeOK, NEW e \in Daemons, SpawnReturns(e)
  PROVE  /\ turn' \in [Daemons -> TurnRow]
         /\ \/ turn'[e].pc = "idle"
            \/ turn'[e].pc = "work" /\ turn'[e].gen = turn[e].gen
         /\ \A f \in Daemons : f # e => turn'[f] = turn[f]
<1> DEFINE row == IF turn[e].back = "idle" THEN Idle
                  ELSE [Idle EXCEPT !.pc = "work", !.gen = turn[e].gen,
                                    !.agent = Acting(e)]
<1>1. turn[e] \in TurnRow
  BY DEF GraphTypeOK
<1>2. Idle \in TurnRow /\ Idle.pc = "idle"
  BY AgentNumbers DEF Idle, TurnRow, TurnPc
<1>3. /\ row \in TurnRow
      /\ row.pc = "idle" \/ (row.pc = "work" /\ row.gen = turn[e].gen)
  BY <1>1, <1>2 DEF TurnRow, TurnPc, Acting
<1>4. turn' = [turn EXCEPT ![e] = row]
  BY DEF SpawnReturns, GraphTypeOK
<1> HIDE DEF row
<1> QED BY <1>3, <1>4, BecomeShape
-----------------------------------------------------------------------------
(* refreshTaskReadinessInternal changes a row's status only, and only from *)
(* pending, or from failed below the limit, to ready.                      *)
LEMMA RefreshRows ==
  ASSUME NEW ts \in [Tasks -> TaskRow]
  PROVE  /\ RefreshReadiness(ts) \in [Tasks -> TaskRow]
         /\ \A u \in Tasks :
              LET new == RefreshReadiness(ts)[u]
              IN  /\ new.deps = ts[u].deps /\ new.owner = ts[u].owner
                  /\ new.attempt = ts[u].attempt /\ new.gen = ts[u].gen
                  /\ \/ new = ts[u]
                     \/ /\ new.status = "ready"
                        /\ \/ ts[u].status = "pending"
                           \/ /\ ts[u].status = "failed"
                              /\ ts[u].attempt < MAX_TASK_ATTEMPTS
                        /\ \A d \in ts[u].deps : ts[d].status = "completed"
<1> DEFINE Due(u) == /\ \/ ts[u].status = "pending"
                        \/ /\ ts[u].status = "failed"
                           /\ ts[u].attempt < MAX_TASK_ATTEMPTS
                     /\ \A d \in ts[u].deps : ts[d].status = "completed"
           row(u) == IF Due(u) THEN [ts[u] EXCEPT !.status = "ready"] ELSE ts[u]
<1>1. RefreshReadiness(ts) = [u \in Tasks |-> row(u)]
  BY DEF RefreshReadiness
<1>2. ASSUME NEW u \in Tasks
      PROVE  /\ row(u) \in TaskRow
             /\ row(u).deps = ts[u].deps /\ row(u).owner = ts[u].owner
             /\ row(u).attempt = ts[u].attempt /\ row(u).gen = ts[u].gen
             /\ row(u) = ts[u] \/ (Due(u) /\ row(u).status = "ready")
  <2>1. ts[u] \in TaskRow
    OBVIOUS
  <2> HIDE DEF Due
  <2> QED BY <2>1, Statuses DEF TaskRow
<1> HIDE DEF row
<1> QED BY <1>1, <1>2 DEF Due

(* What one write of the Task table does to a row: nothing, the end of its *)
(* running, its promotion, or its creation.                                *)
Kept(u) == tasks'[u] = tasks[u]

Left(u, recovered) ==
  /\ tasks[u].status = "running"
  /\ tasks'[u].status \in {"completed", "failed", "ready"}
  /\ tasks'[u].owner = NoOwner /\ tasks'[u].deps = tasks[u].deps
  /\ tasks'[u].attempt <= tasks[u].attempt + 1
  /\ tasks'[u].status = "ready" =>
       \/ tasks'[u].attempt < MAX_TASK_ATTEMPTS
       \/ recovered /\ 0 < tasks[u].gen /\ tasks[u].gen < tasks'[u].gen
                    /\ tasks'[u].gen <= lease.gen

Promoted(u) ==
  /\ tasks[u].status \in {"pending", "failed"}
  /\ tasks'[u].status = "ready"
  /\ tasks'[u].deps = tasks[u].deps /\ tasks'[u].owner = tasks[u].owner
  /\ tasks'[u].attempt = tasks[u].attempt
  /\ tasks[u].status = "failed" => tasks[u].attempt < MAX_TASK_ATTEMPTS
  /\ \A d \in tasks'[u].deps : tasks'[d].status = "completed"

Created(u) ==
  /\ tasks[u].status = "absent"
  /\ tasks'[u].status \in {"pending", "ready"}
  /\ tasks'[u].owner = NoOwner /\ tasks'[u].attempt = 0
  /\ tasks'[u].status = "ready"
       => \A d \in tasks'[u].deps : tasks'[d].status = "completed"

Settled(u, recovered) ==
  Kept(u) \/ Left(u, recovered) \/ Promoted(u) \/ Created(u)

(* transitionTask of a running Task, with the refresh that ends it.        *)
LEMMA TransitionRows ==
  ASSUME GraphTypeOK, NEW t \in Tasks, NEW to \in {"completed", "failed"},
         NEW g \in Nat, tasks' = TransitionTask(t, to, g)
  PROVE  /\ tasks' \in [Tasks -> TaskRow]
         /\ tasks[t].status = "running" =>
              \A u \in Tasks : Settled(u, FALSE)
<1> DEFINE n == IF to = "failed" THEN tasks[t].attempt + 1
                                ELSE tasks[t].attempt
           row == [tasks[t] EXCEPT
             !.status = to,
             !.owner = IF to \in {"completed", "failed", "cancelled"}
                       THEN NoOwner ELSE tasks[t].owner,
             !.attempt = n,
             !.gen = g]
           ts == [tasks EXCEPT ![t] = row]
<1>0. tasks \in [Tasks -> TaskRow] /\ tasks[t] \in TaskRow
  BY DEF GraphTypeOK
<1>2. tasks' = RefreshReadiness(ts)
  BY DEF TransitionTask
<1>1. /\ row \in TaskRow /\ row.status = to /\ row.owner = NoOwner
      /\ row.deps = tasks[t].deps /\ row.attempt <= tasks[t].attempt + 1
  <2>1. n \in Nat /\ n <= tasks[t].attempt + 1
    BY <1>0 DEF TaskRow
  <2> HIDE DEF n
  <2> QED BY <1>0, <2>1, Statuses DEF TaskRow
<1> HIDE DEF row
<1>3. /\ ts \in [Tasks -> TaskRow] /\ ts[t] = row
      /\ \A u \in Tasks : u # t => ts[u] = tasks[u]
  BY <1>0, <1>1
<1> HIDE DEF ts
<1>4. /\ tasks' \in [Tasks -> TaskRow]
      /\ \A u \in Tasks :
           /\ tasks'[u].deps = ts[u].deps /\ tasks'[u].owner = ts[u].owner
           /\ tasks'[u].attempt = ts[u].attempt
           /\ \/ tasks'[u] = ts[u]
              \/ /\ tasks'[u].status = "ready"
                 /\ \/ ts[u].status = "pending"
                    \/ /\ ts[u].status = "failed"
                       /\ ts[u].attempt < MAX_TASK_ATTEMPTS
                 /\ \A d \in ts[u].deps : ts[d].status = "completed"
  BY <1>2, <1>3, RefreshRows
<1>5. ASSUME tasks[t].status = "running", NEW u \in Tasks
      PROVE  Settled(u, FALSE)
  <2>1. CASE u = t
    <3>1. Left(u, FALSE)
      BY <1>1, <1>3, <1>4, <1>5, <2>1 DEF Left
    <3> QED BY <3>1 DEF Settled
  <2>2. CASE u # t /\ tasks'[u] = ts[u]
    BY <1>3, <2>2 DEF Settled, Kept
  <2>3. CASE u # t /\ tasks'[u] # ts[u]
    <3>1. ts[u] = tasks[u] /\ tasks[u].deps \subseteq Tasks
      BY <1>0, <1>3, <2>3 DEF TaskRow
    <3>2. \A d \in Tasks :
            ts[d].status = "completed" => tasks'[d].status = "completed"
      BY <1>4
    <3>3. Promoted(u)
      BY <1>4, <2>3, <3>1, <3>2 DEF Promoted
    <3> QED BY <3>3 DEF Settled
  <2> QED BY <2>1, <2>2, <2>3
<1> QED BY <1>4, <1>5

(* createTask, with the refresh that ends it.                              *)
LEMMA CreateRows ==
  ASSUME GraphTypeOK, NEW t \in Tasks, NEW deps \in SUBSET Tasks,
         tasks[t].status = "absent", tasks' = CreateTask(t, deps)
  PROVE  /\ tasks' \in [Tasks -> TaskRow]
         /\ \A u \in Tasks : Settled(u, FALSE)
<1> DEFINE row == [NoTask EXCEPT !.status = "pending", !.deps = deps]
           ts == [tasks EXCEPT ![t] = row]
<1>0. tasks \in [Tasks -> TaskRow]
  BY DEF GraphTypeOK
<1>1. /\ row \in TaskRow /\ row.status = "pending" /\ row.owner = NoOwner
      /\ row.attempt = 0
  BY Statuses DEF TaskRow, NoTask
<1>2. tasks' = RefreshReadiness(ts)
  BY DEF CreateTask
<1> HIDE DEF row
<1>3. /\ ts \in [Tasks -> TaskRow] /\ ts[t] = row
      /\ \A u \in Tasks : u # t => ts[u] = tasks[u]
  BY <1>0, <1>1
<1> HIDE DEF ts
<1>4. /\ tasks' \in [Tasks -> TaskRow]
      /\ \A u \in Tasks :
           /\ tasks'[u].deps = ts[u].deps /\ tasks'[u].owner = ts[u].owner
           /\ tasks'[u].attempt = ts[u].attempt
           /\ \/ tasks'[u] = ts[u]
              \/ /\ tasks'[u].status = "ready"
                 /\ \/ ts[u].status = "pending"
                    \/ /\ ts[u].status = "failed"
                       /\ ts[u].attempt < MAX_TASK_ATTEMPTS
                 /\ \A d \in ts[u].deps : ts[d].status = "completed"
  BY <1>2, <1>3, RefreshRows
<1>5. ASSUME NEW u \in Tasks PROVE Settled(u, FALSE)
  <2>0. /\ ts[u].deps \subseteq Tasks
        /\ \A d \in Tasks :
             ts[d].status = "completed" => tasks'[d].status = "completed"
    BY <1>3, <1>4 DEF TaskRow
  <2>1. CASE u = t
    <3>1. Created(u)
      BY <1>1, <1>3, <1>4, <2>0, <2>1 DEF Created
    <3> QED BY <3>1 DEF Settled
  <2>2. CASE u # t /\ tasks'[u] = ts[u]
    BY <1>3, <2>2 DEF Settled, Kept
  <2>3. CASE u # t /\ tasks'[u] # ts[u]
    <3>1. Promoted(u)
      BY <1>3, <1>4, <2>0, <2>3 DEF Promoted
    <3> QED BY <3>1 DEF Settled
  <2> QED BY <2>1, <2>2, <2>3
<1> QED BY <1>4, <1>5

(* recoverGraphWork: the stranded Tasks are offered again.                 *)
LEMMA RecoverRows ==
  ASSUME GraphTypeOK, NEW e \in Daemons, RecoverGraphWork(e)
  PROVE  /\ tasks' \in [Tasks -> TaskRow]
         /\ agents' \in [Agents -> AgentRow]
         /\ \A u \in Tasks : Settled(u, TRUE)
         /\ \A u \in Tasks : tasks'[u].status = "running" =>
              /\ tasks'[u] = tasks[u]
              /\ ~(0 < tasks[u].gen /\ tasks[u].gen < turn[e].gen)
         /\ \A a \in Agents :
              \/ agents'[a] = agents[a] /\ a \notin StrandedAgents(turn[e].gen)
              \/ /\ agents'[a].status = "queued"
                 /\ agents'[a].gen = turn[e].gen
<1> DEFINE g == turn[e].gen
           task(u) == IF u \in StrandedTasks(g)
                      THEN [tasks[u] EXCEPT !.status = "ready",
                              !.owner = NoOwner, !.gen = g,
                              !.attempt = tasks[u].attempt + 1]
                      ELSE tasks[u]
           agent(a) == IF a \in StrandedAgents(g)
                       THEN [agents[a] EXCEPT !.status = "queued", !.gen = g]
                       ELSE agents[a]
<1>0. g \in Nat /\ g <= lease.gen
  <2>1. g \in Nat
    BY DEF GraphTypeOK, TurnRow
  <2>2. lease.gen = g
    BY DEF RecoverGraphWork, TurnAt, HoldsRun
  <2> QED BY <2>1, <2>2
<1>1. /\ tasks' = [u \in Tasks |-> task(u)]
      /\ agents' = [a \in Agents |-> agent(a)]
  BY DEF RecoverGraphWork
<1> HIDE DEF g
<1>2. ASSUME NEW u \in Tasks
      PROVE  /\ task(u) \in TaskRow
             /\ u \in StrandedTasks(g) =>
                  /\ task(u).status = "ready" /\ task(u).owner = NoOwner
                  /\ task(u).deps = tasks[u].deps /\ task(u).gen = g
                  /\ task(u).attempt <= tasks[u].attempt + 1
             /\ u \notin StrandedTasks(g) => task(u) = tasks[u]
  <2> DEFINE n == tasks[u].attempt + 1
             new == [tasks[u] EXCEPT !.status = "ready", !.owner = NoOwner,
                                     !.gen = g, !.attempt = n]
  <2>1. tasks[u] \in TaskRow
    BY DEF GraphTypeOK
  <2>2. n \in Nat /\ n <= tasks[u].attempt + 1
    BY <2>1 DEF TaskRow
  <2>3. task(u) = IF u \in StrandedTasks(g) THEN new ELSE tasks[u]
    OBVIOUS
  <2> HIDE DEF n
  <2>4. /\ new \in TaskRow /\ new.status = "ready" /\ new.owner = NoOwner
        /\ new.deps = tasks[u].deps /\ new.gen = g /\ new.attempt = n
    BY <1>0, <2>1, <2>2, Statuses DEF TaskRow
  <2> HIDE DEF new, task
  <2> QED BY <2>1, <2>2, <2>3, <2>4
<1>3. ASSUME NEW a \in Agents
      PROVE  /\ agent(a) \in AgentRow
             /\ a \in StrandedAgents(g) =>
                  agent(a).status = "queued" /\ agent(a).gen = g
             /\ a \notin StrandedAgents(g) => agent(a) = agents[a]
  <2>1. agents[a] \in AgentRow
    BY DEF GraphTypeOK
  <2> QED BY <1>0, <2>1, Statuses DEF AgentRow
<1> HIDE DEF task, agent
<1>4. ASSUME NEW u \in Tasks
      PROVE  /\ Settled(u, TRUE)
             /\ tasks'[u].status = "running" =>
                  tasks'[u] = tasks[u] /\ ~(0 < tasks[u].gen /\ tasks[u].gen < g)
  <2>1. CASE u \in StrandedTasks(g)
    <3>1. Left(u, TRUE)
      BY <1>0, <1>1, <1>2, <2>1 DEF Left, StrandedTasks
    <3> QED BY <3>1 DEF Settled, Left
  <2>2. CASE u \notin StrandedTasks(g)
    BY <1>1, <1>2, <2>2 DEF Settled, Kept, StrandedTasks
  <2> QED BY <2>1, <2>2
<1>5. tasks' \in [Tasks -> TaskRow] /\ agents' \in [Agents -> AgentRow]
  BY <1>1, <1>2, <1>3
<1>6. \A a \in Agents :
        \/ agents'[a] = agents[a] /\ a \notin StrandedAgents(g)
        \/ agents'[a].status = "queued" /\ agents'[a].gen = g
  BY <1>1, <1>3
<1> QED BY <1>4, <1>5, <1>6 DEF g
-----------------------------------------------------------------------------
(* A Task has an owner exactly while it is running. *)
OwnersRun ==
  \A t \in Tasks : tasks[t].owner # NoOwner <=> tasks[t].status = "running"

Claimed(u, a, g) ==
  /\ tasks[u].status = "ready" /\ tasks'[u].status = "running"
  /\ tasks'[u].owner = a /\ tasks'[u].gen = g
  /\ tasks'[u].deps = tasks[u].deps /\ tasks'[u].attempt = tasks[u].attempt

(* A transaction of a turn claims one Task for an Agent that has none, or  *)
(* settles any number of them.                                             *)
TaskStep(e) ==
  \/ \A u \in Tasks : Settled(u, turn[e].pc = "recover")
  \/ /\ turn[e].pc = "claim" /\ RunningOf(Acting(e)) = {}
     /\ \E t \in Tasks : /\ Claimed(t, Acting(e), turn[e].gen)
                         /\ \A u \in Tasks : u # t => Kept(u)

(* A transaction of a turn puts Agents to work, or makes them wait for it, *)
(* spawns one, or retires the acting one.                                  *)
Working == {"queued", "running", "waiting"}

AgentStep(e) ==
  \A a \in Agents :
    \/ agents'[a] = agents[a]
    \/ agents'[a].status \in Working /\ agents'[a].gen = turn[e].gen
    \/ agents[a].status = "absent" /\ agents'[a].status = "created"
    \/ /\ turn[e].pc = "retire" /\ a = Acting(e)
       /\ agents'[a].status = "completed"

(* Every transaction of a turn is fenced by its lease, which it keeps.     *)
LEMMA WritesAreFenced ==
  ASSUME NEW e \in Daemons, Writes(e)
  PROVE  HoldsRun(e) /\ UNCHANGED lease /\ turn[e].pc # "idle"
  BY DEF Writes, Step, Tool, TurnAt, RecoverGraphWork, SelectActingAgent,
         DrainInbox, ClaimTaskFor, TurnCutShort, TurnSucceeds,
         SettleActingAgent, RetireAgent, KeepStrategy, Replan, FreshAgent,
         SpawnReplacement, PlanTask, FinishTask, DelegateTask, QueueChild,
         NotifyChild, InstructionsMissing, MessageAgent

(* The Tasks that an Agent is working on, and the first of them.           *)
LEMMA FirstRunning ==
  ASSUME NEW a \in Agents, RunningOf(a) # {}
  PROVE  /\ First(RunningOf(a)) \in Tasks
         /\ tasks[First(RunningOf(a))].status = "running"
<1>1. RunningOf(a) \in SUBSET Nat
  BY TasksAssumption DEF RunningOf, Owned
<1>2. First(RunningOf(a)) \in RunningOf(a)
  BY <1>1, FirstIsOne
<1> QED BY <1>2 DEF RunningOf, Owned

(* claimTask claims a Task that is ready, or does nothing.                 *)
LEMMA ClaimRows ==
  ASSUME GraphTypeOK, NEW e \in Daemons, ClaimTaskFor(e)
  PROVE  tasks' \in [Tasks -> TaskRow] /\ TaskStep(e)
<1> DEFINE a == Acting(e)
           g == turn[e].gen
           t == First(Candidates(a))
<1>0. a \in Agents /\ g \in Nat /\ turn[e].pc = "claim"
  BY DEF GraphTypeOK, TurnRow, Acting, ClaimTaskFor, TurnAt
<1>1. CASE UNCHANGED tasks
  BY <1>1 DEF GraphTypeOK, TaskStep, Settled, Kept
<1>2. CASE /\ ~\E u \in Owned(a) : tasks[u].status = "running"
           /\ Candidates(a) # {} /\ tasks' = ClaimTask(t, a, g)
  <2>1. Candidates(a) \in SUBSET Tasks
    <3>1. agents[a].task \in Tasks \cup {0}
      BY <1>0 DEF GraphTypeOK, AgentRow
    <3>2. ReadyTasks \in SUBSET Tasks /\ Tasks \in SUBSET Nat
      BY TasksAssumption DEF ReadyTasks
    <3>3. ReadyTasks # {} => First(ReadyTasks) \in ReadyTasks
      BY <3>2, FirstIsOne
    <3> HIDE DEF a
    <3> QED BY <3>1, <3>2, <3>3 DEF Candidates
  <2>2. t \in Tasks
    <3>1. Candidates(a) \in SUBSET Nat
      BY <2>1, TasksAssumption
    <3>2. t \in Candidates(a)
      BY <1>2, <3>1, FirstIsOne
    <3> QED BY <2>1, <3>2
  <2>3. RunningOf(a) = {}
    BY <1>2 DEF RunningOf
  <2> DEFINE new == [tasks[t] EXCEPT !.status = "running", !.owner = a,
                                     !.gen = g]
             row == IF tasks[t].status = "ready" /\ tasks[t].owner = NoOwner
                    THEN new ELSE tasks[t]
  <2>4. tasks' = [tasks EXCEPT ![t] = row]
    BY <1>2, <2>2 DEF ClaimTask, GraphTypeOK
  <2>5. tasks[t] \in TaskRow
    BY <2>2 DEF GraphTypeOK
  <2>6. /\ new \in TaskRow /\ new.status = "running" /\ new.owner = a
        /\ new.gen = g /\ new.deps = tasks[t].deps
        /\ new.attempt = tasks[t].attempt
    <3> HIDE DEF a, g, t
    <3> QED BY <1>0, <2>5, Statuses DEF TaskRow
  <2> HIDE DEF t, new
  <2>7. /\ tasks' \in [Tasks -> TaskRow] /\ tasks'[t] = row
        /\ \A u \in Tasks : u # t => Kept(u)
    BY <2>2, <2>4, <2>5, <2>6 DEF GraphTypeOK, Kept
  <2>8. CASE row = tasks[t]
    BY <2>7, <2>8 DEF TaskStep, Settled, Kept
  <2>9. CASE row # tasks[t]
    <3>1. Claimed(t, Acting(e), turn[e].gen)
      BY <2>6, <2>7, <2>9 DEF Claimed
    <3> QED BY <1>0, <2>2, <2>3, <2>7, <3>1 DEF TaskStep
  <2> QED BY <2>8, <2>9
<1> QED BY <1>1, <1>2 DEF ClaimTaskFor

(* What a transaction of a turn does to the Tasks.                         *)
LEMMA TasksWritten ==
  ASSUME TypeInv, OwnersRun, NEW e \in Daemons, Writes(e)
  PROVE  tasks' \in [Tasks -> TaskRow] /\ TaskStep(e)
<1>0. GraphTypeOK /\ turn[e] \in TurnRow /\ turn[e].gen \in Nat /\ Acting(e) \in Agents
  BY DEF TypeInv, GraphTypeOK, TurnRow, Acting
<1>1. CASE RecoverGraphWork(e)
  <2>1. turn[e].pc = "recover"
    BY <1>1 DEF RecoverGraphWork, TurnAt
  <2> QED BY <1>0, <1>1, <2>1, RecoverRows DEF TaskStep
<1>s. ASSUME NEW t \in Tasks, NEW to \in {"completed", "failed"},
             tasks[t].status = "running",
             tasks' = TransitionTask(t, to, turn[e].gen)
      PROVE  tasks' \in [Tasks -> TaskRow] /\ TaskStep(e)
  <2>1. tasks' \in [Tasks -> TaskRow] /\ \A u \in Tasks : Settled(u, FALSE)
    BY <1>0, <1>s, TransitionRows
  <2> QED BY <2>1 DEF TaskStep, Settled, Left
<1>2. CASE ClaimTaskFor(e)
  BY <1>0, <1>2, ClaimRows
<1>3. ASSUME NEW t \in Tasks, NEW deps \in SUBSET Tasks, PlanTask(e, t, deps)
      PROVE  tasks' \in [Tasks -> TaskRow] /\ TaskStep(e)
  <2>1. tasks[t].status = "absent" /\ tasks' = CreateTask(t, deps)
    BY <1>3 DEF PlanTask, Existing
  <2>2. tasks' \in [Tasks -> TaskRow] /\ \A u \in Tasks : Settled(u, FALSE)
    BY <1>0, <2>1, CreateRows
  <2> QED BY <2>2 DEF TaskStep, Settled, Left
<1>4. ASSUME NEW t \in Tasks, NEW to \in {"completed", "failed"},
             FinishTask(e, t, to)
      PROVE  tasks' \in [Tasks -> TaskRow] /\ TaskStep(e)
  <2>1. tasks[t].owner # NoOwner
    BY <1>0, <1>4, AgentNumbers DEF FinishTask, Owned
  <2>2. tasks[t].status = "running"
    BY <2>1 DEF OwnersRun
  <2> QED BY <1>4, <1>s, <2>2 DEF FinishTask
<1>5. CASE Replan(e)
  <2>1. CASE UNCHANGED tasks
    BY <1>0, <2>1 DEF GraphTypeOK, TaskStep, Settled, Kept
  <2>2. CASE ~UNCHANGED tasks
    BY <1>0, <1>5, <1>s, <2>2, FirstRunning DEF Replan
  <2> QED BY <2>1, <2>2
<1>6. CASE FreshAgent(e)
  BY <1>0, <1>6, <1>s, FirstRunning DEF FreshAgent
<1>7. CASE UNCHANGED tasks
  BY <1>0, <1>7 DEF GraphTypeOK, TaskStep, Settled, Kept
<1> QED BY <1>1, <1>2, <1>3, <1>4, <1>5, <1>6, <1>7
        DEF Writes, Step, Tool, SelectActingAgent, DrainInbox, TurnCutShort,
            TurnSucceeds, SettleActingAgent, RetireAgent, KeepStrategy,
            SpawnReplacement, DelegateTask, QueueChild, NotifyChild,
            InstructionsMissing, MessageAgent, graph

(* transitionAgent writes one row.                                         *)
LEMMA TransitionAgentRows ==
  ASSUME GraphTypeOK, NEW a \in Agents, NEW to \in AgentStatus, NEW g \in Nat
  PROVE  LET new == TransitionAgent(a, to, g)
         IN  /\ new \in [Agents -> AgentRow]
             /\ new[a].status = to /\ new[a].gen = g
             /\ \A b \in Agents : b # a => new[b] = agents[b]
<1> DEFINE row == [agents[a] EXCEPT !.status = to, !.gen = g]
<1>1. agents[a] \in AgentRow /\ agents \in [Agents -> AgentRow]
  BY DEF GraphTypeOK
<1>2. row \in AgentRow /\ row.status = to /\ row.gen = g
  BY <1>1 DEF AgentRow
<1>3. TransitionAgent(a, to, g) = [agents EXCEPT ![a] = row]
  BY DEF TransitionAgent
<1> HIDE DEF row
<1> QED BY <1>1, <1>2, <1>3

(* So does markAgentActive.                                                *)
LEMMA MarkAgentRows ==
  ASSUME NEW rows \in [Agents -> AgentRow], NEW a \in Agents, NEW g \in Nat
  PROVE  LET new == MarkAgentActive(rows, a, g)
         IN  /\ new \in [Agents -> AgentRow]
             /\ new[a].status = rows[a].status /\ new[a].gen = g
             /\ \A b \in Agents : b # a => new[b] = rows[b]
<1> DEFINE row == [rows[a] EXCEPT !.gen = g]
<1>1. rows[a] \in AgentRow
  OBVIOUS
<1>2. row \in AgentRow /\ row.status = rows[a].status /\ row.gen = g
  BY <1>1 DEF AgentRow
<1>3. MarkAgentActive(rows, a, g) = [rows EXCEPT ![a] = row]
  BY DEF MarkAgentActive
<1> HIDE DEF row
<1> QED BY <1>2, <1>3

(* selectActingAgent puts the Agent it chose to work.                      *)
LEMMA SelectRows ==
  ASSUME GraphTypeOK, NEW e \in Daemons, SelectActingAgent(e)
  PROVE  /\ agents' \in [Agents -> AgentRow]
         /\ agents'[ActingAgent].status = "running"
         /\ agents'[ActingAgent].gen = turn[e].gen
         /\ \A b \in Agents : b # ActingAgent => agents'[b] = agents[b]
         /\ turn' \in [Daemons -> TurnRow]
         /\ turn'[e].pc = "drain" /\ turn'[e].gen = turn[e].gen
         /\ turn'[e].agent = ActingAgent
         /\ \A f \in Daemons : f # e => turn'[f] = turn[f]
<1> DEFINE a == ActingAgent
           g == turn[e].gen
           rows == TransitionAgent(a, "running", g)
           row == [turn[e] EXCEPT !.pc = "drain", !.agent = a]
<1>0. a \in Agents /\ turn[e] \in TurnRow /\ g \in Nat
  BY ActingAgentIsOne DEF GraphTypeOK, TurnRow
<1>1. /\ agents' = MarkAgentActive(rows, a, g)
      /\ turn' = [turn EXCEPT ![e] = row]
  BY DEF SelectActingAgent
<1> HIDE DEF a
<1>2. /\ row \in TurnRow /\ row.pc = "drain" /\ row.gen = g /\ row.agent = a
  BY <1>0 DEF TurnRow, TurnPc
<1> HIDE DEF g, row
<1>3. /\ rows \in [Agents -> AgentRow]
      /\ rows[a].status = "running"
      /\ \A b \in Agents : b # a => rows[b] = agents[b]
  BY <1>0, TransitionAgentRows, Statuses
<1> HIDE DEF rows
<1>4. /\ agents' \in [Agents -> AgentRow]
      /\ agents'[a].status = "running" /\ agents'[a].gen = g
      /\ \A b \in Agents : b # a => agents'[b] = agents[b]
  BY <1>0, <1>1, <1>3, MarkAgentRows
<1>5. /\ turn' \in [Daemons -> TurnRow] /\ turn'[e] = row
      /\ \A f \in Daemons : f # e => turn'[f] = turn[f]
  BY <1>1, <1>2, BecomeShape
<1> QED BY <1>2, <1>4, <1>5 DEF a, g

(* What a transaction of a turn does to the Agents and their mailboxes.    *)
LEMMA AgentsWritten ==
  ASSUME TypeInv, NEW e \in Daemons, Writes(e)
  PROVE  agents' \in [Agents -> AgentRow] /\ AgentStep(e)
<1>0. GraphTypeOK /\ turn[e].gen \in Nat /\ Acting(e) \in Agents
  BY DEF TypeInv, GraphTypeOK, TurnRow, Acting
<1>t. ASSUME NEW a \in Agents, NEW to \in AgentStatus,
             to \in Working \/ (/\ to = "completed" /\ a = Acting(e)
                                /\ turn[e].pc = "retire"),
             agents' = TransitionAgent(a, to, turn[e].gen)
      PROVE  agents' \in [Agents -> AgentRow] /\ AgentStep(e)
  <2>1. /\ agents' \in [Agents -> AgentRow]
        /\ agents'[a].status = to /\ agents'[a].gen = turn[e].gen
        /\ \A b \in Agents : b # a => agents'[b] = agents[b]
    BY <1>0, <1>t, TransitionAgentRows
  <2> QED BY <1>t, <2>1 DEF AgentStep
<1>1. CASE RecoverGraphWork(e)
  <2>1. /\ agents' \in [Agents -> AgentRow]
        /\ \A a \in Agents :
             \/ agents'[a] = agents[a]
             \/ agents'[a].status = "queued" /\ agents'[a].gen = turn[e].gen
    BY <1>0, <1>1, RecoverRows
  <2> QED BY <2>1 DEF AgentStep, Working
<1>2. CASE SelectActingAgent(e)
  BY <1>0, <1>2, SelectRows DEF AgentStep, Working
<1>3. ASSUME NEW c \in Delegates, NEW t \in Tasks \cup {0},
             NEW lead \in BOOLEAN, NEW back \in {"work", "idle"},
             SpawnAgent(e, c, t, lead, back)
      PROVE  agents' \in [Agents -> AgentRow] /\ AgentStep(e)
  BY <1>0, <1>3, SpawnShape DEF AgentStep
<1>4. ASSUME NEW c \in Delegates, NEW t \in Tasks, NEW lead \in BOOLEAN,
             DelegateTask(e, c, t, lead)
      PROVE  agents' \in [Agents -> AgentRow] /\ AgentStep(e)
  BY <1>3, <1>4 DEF DelegateTask
<1>5. ASSUME NEW c \in Delegates, SpawnReplacement(e, c)
      PROVE  agents' \in [Agents -> AgentRow] /\ AgentStep(e)
  <2>1. turn[e].task \in Tasks \cup {0}
    BY <1>0 DEF GraphTypeOK, TurnRow
  <2> QED BY <1>3, <1>5, <2>1 DEF SpawnReplacement
<1>6. CASE QueueChild(e)
  <2>1. turn[e].child \in Agents
    BY <1>0 DEF GraphTypeOK, TurnRow
  <2> QED BY <1>6, <1>t, <2>1, Statuses DEF QueueChild, Working
<1>7. CASE RetireAgent(e)
  BY <1>0, <1>7, <1>t, Statuses DEF RetireAgent, TurnAt
<1>8. CASE UNCHANGED agents
  BY <1>0, <1>8 DEF GraphTypeOK, AgentStep
<1>9. CASE SettleActingAgent(e)
  <2>1. UNCHANGED agents \/ agents' = TransitionAgent(Acting(e), "waiting",
                                                     turn[e].gen)
    BY <1>9 DEF SettleActingAgent
  <2> QED BY <1>0, <1>8, <1>t, <2>1, Statuses DEF Working
<1> QED BY <1>1, <1>2, <1>4, <1>5, <1>6, <1>7, <1>8, <1>9
        DEF Writes, Step, Tool, DrainInbox, ClaimTaskFor, TurnCutShort,
            TurnSucceeds, KeepStrategy, Replan, FreshAgent, PlanTask,
            FinishTask, NotifyChild, InstructionsMissing, MessageAgent, graph

(* Where a transaction of a turn leaves the turn.                          *)
TurnStep(e) ==
  /\ \A f \in Daemons : f # e => turn'[f] = turn[f]
  /\ turn'[e].pc # "idle" => turn'[e].gen = turn[e].gen
  /\ turn'[e].pc \in {"queueChild", "notifyChild"}
       => turn'[e].child \in Delegates
  /\ turn'[e].pc # "recover"
  /\ turn[e].pc = "recover" => RecoverGraphWork(e) /\ turn'[e].pc = "select"
  /\ turn'[e].pc = "drain" => SelectActingAgent(e)
  /\ turn'[e].pc = "claim" => /\ DrainInbox(e)
                              /\ turn'[e].agent = turn[e].agent
  /\ turn'[e].pc = "retire" => /\ SettleActingAgent(e)
                               /\ Remaining(Acting(e)) = {}
                               /\ UNCHANGED <<tasks, agents>>
                               /\ turn'[e].agent = turn[e].agent

(* A turn goes through its program in order, and leads no other turn.      *)
LEMMA TurnWritten ==
  ASSUME TypeInv, NEW e \in Daemons, Writes(e)
  PROVE  turn' \in [Daemons -> TurnRow] /\ TurnStep(e)
<1>0. GraphTypeOK /\ turn[e] \in TurnRow /\ turn[e].pc # "idle"
  BY WritesAreFenced DEF TypeInv, GraphTypeOK
<1>p. TurnPc = {"idle", "recover", "select", "drain", "claim", "work",
            "queueChild", "notifyChild", "settle", "retire", "stagnation",
            "replan", "replace"}
  BY DEF TurnPc
<1> DEFINE Goal == turn' \in [Daemons -> TurnRow] /\ TurnStep(e)
<1> SUFFICES Goal
  OBVIOUS
<1>g. ASSUME NEW p \in TurnPc, TurnGoes(e, p), turn[e].pc # "recover",
             p \notin {"queueChild", "notifyChild", "recover", "drain",
                       "claim", "retire"}
      PROVE  Goal
  <2>1. /\ turn' \in [Daemons -> TurnRow]
        /\ turn'[e].pc = p /\ turn'[e].gen = turn[e].gen
        /\ \A f \in Daemons : f # e => turn'[f] = turn[f]
    BY <1>0, <1>g, GotoShape
  <2> QED BY <1>g, <2>1 DEF TurnStep
<1>i. ASSUME EndTurn(e), turn[e].pc # "recover" PROVE Goal
  BY <1>0, <1>i, EndShape DEF TurnStep
<1>u. ASSUME UNCHANGED turn, turn[e].pc = "work" PROVE Goal
  BY <1>0, <1>u DEF TurnStep, GraphTypeOK
<1>1. CASE RecoverGraphWork(e)
  <2>1. turn' \in [Daemons -> TurnRow]
        /\ turn'[e].pc = "select" /\ turn'[e].gen = turn[e].gen
        /\ \A f \in Daemons : f # e => turn'[f] = turn[f]
    BY <1>0, <1>1, <1>p, GotoShape DEF RecoverGraphWork
  <2> QED BY <1>1, <2>1 DEF TurnStep
<1>2. CASE SelectActingAgent(e)
  <2>1. turn[e].pc = "select"
    BY <1>2 DEF SelectActingAgent, TurnAt
  <2> QED BY <1>0, <1>2, <2>1, SelectRows DEF TurnStep
<1>3. CASE DrainInbox(e)
  <2>1. turn' \in [Daemons -> TurnRow]
        /\ turn'[e].pc = "claim" /\ turn'[e].gen = turn[e].gen
        /\ turn'[e].agent = turn[e].agent
        /\ \A f \in Daemons : f # e => turn'[f] = turn[f]
    BY <1>0, <1>3, <1>p, GotoShape DEF DrainInbox
  <2>2. turn[e].pc = "drain"
    BY <1>3 DEF DrainInbox, TurnAt
  <2> QED BY <1>3, <2>1, <2>2 DEF TurnStep
<1>4. CASE ClaimTaskFor(e)
  BY <1>4, <1>g, <1>p DEF ClaimTaskFor, TurnAt
<1>5. CASE TurnCutShort(e) \/ KeepStrategy(e)
  BY <1>5, <1>i DEF TurnCutShort, KeepStrategy, TurnAt
<1>6. CASE TurnSucceeds(e) \/ RetireAgent(e)
  BY <1>6, <1>g, <1>p DEF TurnSucceeds, RetireAgent, TurnAt
<1>7. CASE SettleActingAgent(e)
  <2>1. turn[e].pc = "settle"
    BY <1>7 DEF SettleActingAgent, TurnAt
  <2>2. CASE TurnGoes(e, "stagnation")
    BY <1>g, <1>p, <2>1, <2>2
  <2>3. CASE /\ TurnGoes(e, "retire") /\ Remaining(Acting(e)) = {}
             /\ UNCHANGED <<tasks, agents>>
    <3>1. turn' \in [Daemons -> TurnRow]
          /\ turn'[e].pc = "retire" /\ turn'[e].gen = turn[e].gen
          /\ turn'[e].agent = turn[e].agent
          /\ \A f \in Daemons : f # e => turn'[f] = turn[f]
      BY <1>0, <1>p, <2>3, GotoShape
    <3> QED BY <1>7, <2>1, <2>3, <3>1 DEF TurnStep
  <2> QED BY <1>7, <2>2, <2>3 DEF SettleActingAgent
<1>8. CASE Replan(e)
  BY <1>8, <1>g, <1>i, <1>p DEF Replan
<1>9. CASE FreshAgent(e)
  <2> DEFINE stuck == First(RunningOf(Acting(e)))
             row == [turn[e] EXCEPT !.pc = "replace", !.task = stuck]
  <2>1. stuck \in Tasks /\ turn[e].pc = "stagnation"
    BY <1>0, <1>9, FirstRunning DEF FreshAgent, TurnAt, Acting, TurnRow
  <2>2. turn' = [turn EXCEPT ![e] = row]
    BY <1>9 DEF FreshAgent
  <2> HIDE DEF stuck
  <2>3. row \in TurnRow /\ row.pc = "replace" /\ row.gen = turn[e].gen
    BY <1>0, <1>p, <2>1 DEF TurnRow
  <2> HIDE DEF row
  <2>4. /\ turn' \in [Daemons -> TurnRow] /\ turn'[e] = row
        /\ \A f \in Daemons : f # e => turn'[f] = turn[f]
    BY <1>0, <2>2, <2>3, BecomeShape
  <2> QED BY <2>1, <2>3, <2>4 DEF TurnStep
<1>10. ASSUME NEW c \in Delegates, NEW t \in Tasks \cup {0},
              NEW lead \in BOOLEAN, NEW back \in {"work", "idle"},
              SpawnAgent(e, c, t, lead, back), turn[e].pc # "recover"
       PROVE  Goal
  <2>1. turn' \in [Daemons -> TurnRow]
        /\ turn'[e].pc = "queueChild" /\ turn'[e].gen = turn[e].gen
        /\ turn'[e].child = c
        /\ \A f \in Daemons : f # e => turn'[f] = turn[f]
    BY <1>0, <1>10, SpawnShape
  <2> QED BY <1>10, <2>1 DEF TurnStep
<1>11. ASSUME NEW c \in Delegates, NEW t \in Tasks, NEW lead \in BOOLEAN,
              DelegateTask(e, c, t, lead)
       PROVE  Goal
  BY <1>10, <1>11 DEF DelegateTask, TurnAt
<1>12. ASSUME NEW c \in Delegates, SpawnReplacement(e, c)
       PROVE  Goal
  BY <1>0, <1>10, <1>12 DEF SpawnReplacement, TurnAt, TurnRow
<1>13. CASE QueueChild(e)
  <2>1. turn' \in [Daemons -> TurnRow]
        /\ turn'[e].pc = "notifyChild" /\ turn'[e].gen = turn[e].gen
        /\ turn'[e].child = turn[e].child
        /\ \A f \in Daemons : f # e => turn'[f] = turn[f]
    BY <1>0, <1>13, <1>p, GotoShape DEF QueueChild
  <2>2. turn[e].pc = "queueChild"
    BY <1>13 DEF QueueChild, TurnAt
  <2>3. turn[e].child \in Delegates
    BY <2>2 DEF TypeInv, Children
  <2> QED BY <2>1, <2>2, <2>3 DEF TurnStep
<1>14. CASE NotifyChild(e) \/ InstructionsMissing(e)
  <2>1. /\ turn' \in [Daemons -> TurnRow]
        /\ \/ turn'[e].pc = "idle"
           \/ turn'[e].pc = "work" /\ turn'[e].gen = turn[e].gen
        /\ \A f \in Daemons : f # e => turn'[f] = turn[f]
    BY <1>0, <1>14, SpawnReturnsShape DEF NotifyChild, InstructionsMissing
  <2>2. turn[e].pc = "notifyChild"
    BY <1>14 DEF NotifyChild, InstructionsMissing, TurnAt
  <2> QED BY <2>1, <2>2 DEF TurnStep
<1>15. CASE \/ \E t \in Tasks, deps \in SUBSET Tasks : PlanTask(e, t, deps)
            \/ \E t \in Tasks, to \in {"completed", "failed"} :
                 FinishTask(e, t, to)
            \/ \E a \in Delegates : MessageAgent(e, a)
  BY <1>15, <1>u DEF PlanTask, FinishTask, MessageAgent, TurnAt
<1> HIDE DEF Goal
<1> QED BY <1>1, <1>2, <1>3, <1>4, <1>5, <1>6, <1>7, <1>8, <1>9, <1>11,
           <1>12, <1>13, <1>14, <1>15
        DEF Writes, Step, Tool
-----------------------------------------------------------------------------
(* A step that writes nothing to the graph and starts no turn. *)
Quiet ==
  /\ UNCHANGED graph
  /\ lease'.gen = lease.gen /\ lease'.holder = lease.holder
  /\ lease'.live => lease.live
  /\ \A f \in Daemons : turn'[f].pc # "idle" => turn'[f] = turn[f]

(* Every step is quiet, starts a turn, or is a transaction of one.         *)
LEMMA StepKinds ==
  ASSUME TypeInv, [GraphNext]_graphVars
  PROVE  \/ Quiet
         \/ \E e \in Daemons : BeginTurn(e)
         \/ \E e \in Daemons : Writes(e)
<1>1. ASSUME NEW e \in Daemons, TurnIsFenced(e) PROVE Quiet
  BY <1>1, EndShape DEF TurnIsFenced, Quiet, TypeInv
<1>2. CASE LeaseLapses
  BY <1>2 DEF LeaseLapses, Quiet, TypeInv, GraphTypeOK
<1>3. CASE UNCHANGED graphVars
  BY <1>3 DEF graphVars, graph, Quiet
<1> QED BY <1>1, <1>2, <1>3 DEF GraphNext, Writes

(* Every step keeps the rows of the graph well formed.                     *)
LEMMA TypeStep ==
  ASSUME TypeInv, OwnersRun, [GraphNext]_graphVars
  PROVE  TypeInv'
<1>0. GraphTypeOK
  BY DEF TypeInv
<1>1. ASSUME NEW e \in Daemons, Writes(e) PROVE TypeInv'
  <2>1. tasks' \in [Tasks -> TaskRow] /\ agents' \in [Agents -> AgentRow]
    BY <1>1, TasksWritten, AgentsWritten
  <2>2. turn' \in [Daemons -> TurnRow] /\ TurnStep(e)
    BY <1>1, TurnWritten
  <2>3. Children'
    BY <2>2 DEF TypeInv, Children, TurnStep
  <2>4. UNCHANGED lease
    BY <1>1, WritesAreFenced
  <2>5. inbox' \subseteq Delegates
    <3>1. CASE NotifyChild(e)
      <4>1. turn[e].child \in Delegates
        BY <3>1 DEF NotifyChild, TurnAt, TypeInv, Children
      <4> QED BY <1>0, <3>1, <4>1 DEF NotifyChild, GraphTypeOK
    <3>2. CASE DrainInbox(e) \/ SettleActingAgent(e)
      BY <1>0, <3>2 DEF DrainInbox, SettleActingAgent, GraphTypeOK
    <3>3. ASSUME NEW a \in Delegates, MessageAgent(e, a)
          PROVE  inbox' \subseteq Delegates
      BY <1>0, <3>3 DEF MessageAgent, GraphTypeOK
    <3>4. CASE UNCHANGED inbox
      BY <1>0, <3>4 DEF GraphTypeOK
    <3> QED BY <1>1, <3>1, <3>2, <3>3, <3>4
            DEF Writes, Step, Tool, RecoverGraphWork, SelectActingAgent,
                ClaimTaskFor, TurnCutShort, TurnSucceeds, RetireAgent,
                KeepStrategy, Replan, FreshAgent, SpawnReplacement, PlanTask,
                FinishTask, DelegateTask, QueueChild, InstructionsMissing,
                graph
  <2> QED BY <1>0, <2>1, <2>2, <2>3, <2>4, <2>5 DEF TypeInv, GraphTypeOK
<1>2. ASSUME NEW e \in Daemons, BeginTurn(e) PROVE TypeInv'
  <2>1. /\ turn' \in [Daemons -> TurnRow] /\ turn'[e].pc = "recover"
        /\ \A f \in Daemons : f # e => turn'[f] = turn[f]
        /\ lease' \in [holder : Daemons \cup {NoExecutor}, gen : Nat,
                       live : BOOLEAN]
    BY <1>0, <1>2, BeginTurnShape
  <2>2. UNCHANGED graph
    BY <1>2 DEF BeginTurn
  <2> QED BY <2>1, <2>2 DEF TypeInv, GraphTypeOK, Children, graph
<1>3. ASSUME NEW e \in Daemons, TurnIsFenced(e) PROVE TypeInv'
  <2>1. /\ turn' \in [Daemons -> TurnRow] /\ turn'[e].pc = "idle"
        /\ \A f \in Daemons : f # e => turn'[f] = turn[f]
    BY <1>0, <1>3, EndShape DEF TurnIsFenced
  <2> QED BY <1>3, <2>1 DEF TurnIsFenced, TypeInv, GraphTypeOK, Children, graph
<1>4. CASE LeaseLapses
  BY <1>4 DEF LeaseLapses, TypeInv, GraphTypeOK, Children, graph
<1>5. CASE UNCHANGED graphVars
  BY <1>5 DEF graphVars, TypeInv, GraphTypeOK, Children
<1> QED BY <1>1, <1>2, <1>3, <1>4, <1>5 DEF GraphNext, Writes

(* A turn past its recovery owns the Run only if it did before the step,   *)
(* and then nobody else has written.                                       *)
LEMMA HoldsStep ==
  ASSUME TypeInv, [GraphNext]_graphVars, NEW f \in Daemons, HoldsRun(f)',
         turn'[f].pc \notin {"idle", "recover"}
  PROVE  /\ HoldsRun(f) /\ turn'[f].gen = turn[f].gen /\ lease'.gen = lease.gen
         /\ (Quiet /\ turn'[f] = turn[f]) \/ Writes(f)
<1>h. lease'.live /\ lease'.holder = f /\ lease'.gen = turn'[f].gen
  BY DEF HoldsRun
<1>1. CASE Quiet
  BY <1>1, <1>h DEF Quiet, HoldsRun
<1>2. ASSUME NEW e \in Daemons, BeginTurn(e) PROVE FALSE
  <2>1. lease'.holder = e /\ turn'[e].pc = "recover"
    BY <1>2, BeginTurnShape DEF TypeInv
  <2> QED BY <1>h, <2>1
<1>3. ASSUME NEW e \in Daemons, Writes(e)
      PROVE  e = f /\ HoldsRun(f) /\ turn'[f].gen = turn[f].gen
             /\ lease'.gen = lease.gen
  <2>1. HoldsRun(e) /\ UNCHANGED lease
    BY <1>3, WritesAreFenced
  <2>2. e = f
    BY <1>h, <2>1 DEF HoldsRun
  <2>3. TurnStep(e)
    BY <1>3, TurnWritten
  <2> QED BY <2>1, <2>2, <2>3 DEF TurnStep
<1> QED BY <1>1, <1>2, <1>3, StepKinds
-----------------------------------------------------------------------------
(* The inductive invariant *)

(* Leases and turns are numbered from 1, and nothing is stamped with a     *)
(* generation to come.  A running Task is stamped, so that its successor   *)
(* can tell that it is stranded.                                           *)
LeaseGen  == lease.live => 0 < lease.gen
TurnGens  == \A e \in Daemons :
               turn[e].pc # "idle" => 0 < turn[e].gen /\ turn[e].gen <= lease.gen
TaskGens  == \A t \in Tasks :
               tasks[t].status = "running" =>
                 0 < tasks[t].gen /\ tasks[t].gen <= lease.gen
AgentGens == \A a \in Agents :
               agents[a].status = "running" => agents[a].gen <= lease.gen

(* No two Tasks have the same owner, and a delegate that owns one can be   *)
(* selected. *)
OneEach    == \A t, u \in Tasks :
                (tasks[t].owner # NoOwner /\ tasks[t].owner = tasks[u].owner)
                => t = u
OwnersWork == \A t \in Tasks :
                tasks[t].owner \in Delegates =>
                  agents[tasks[t].owner].status \in Working

(* What the turn has read still holds when it writes: the Agent it claims  *)
(* for is at work, and the one it retires has nothing left to do. *)
ActingWorks == \A e \in Daemons :
                 (HoldsRun(e) /\ turn[e].pc \in {"drain", "claim"}) =>
                   agents[Acting(e)].status = "running"
RetiredFree == \A e \in Daemons :
                 (HoldsRun(e) /\ turn[e].pc = "retire") =>
                   Remaining(Acting(e)) = {}

(* A Task that was never offered has attempts left. *)
Fresh == \A t \in Tasks :
           tasks[t].status = "pending" => tasks[t].attempt < MAX_TASK_ATTEMPTS

(* A Task that is offered or worked on has attempts left, or one for each  *)
(* takeover up to the one that last returned it. *)
Attempts == \A t \in Tasks :
              tasks[t].status \in {"ready", "running"} =>
                \/ tasks[t].attempt < MAX_TASK_ATTEMPTS
                \/ /\ tasks[t].attempt + 1 < MAX_TASK_ATTEMPTS + tasks[t].gen
                   /\ tasks[t].gen <= lease.gen

GenInv   == LeaseGen /\ TurnGens /\ TaskGens /\ AgentGens
OwnerInv == OwnersRun /\ OneEach /\ OwnersWork /\ ActingWorks /\ RetiredFree

GraphInv == TypeInv /\ GenInv /\ OwnerInv /\ RecoveredBeforeWork
            /\ DependenciesFirst /\ Fresh /\ Attempts /\ AttemptsAreBounded

(* What a transaction of a turn leaves running.                            *)
LEMMA RunningAfter ==
  ASSUME TypeInv, OwnersRun, NEW e \in Daemons, Writes(e),
         NEW t \in Tasks, tasks'[t].status = "running"
  PROVE  tasks'[t] = tasks[t] \/ tasks'[t].gen = turn[e].gen
  BY TasksWritten DEF TaskStep, Settled, Kept, Left, Promoted, Created, Claimed

(* The generations' part of the invariant (acquireLease, claimTask,        *)
(* transitionAgent).                                                       *)
LEMMA GenStep ==
  ASSUME GraphInv, [GraphNext]_graphVars
  PROVE  GenInv'
<1>0. /\ TypeInv /\ GraphTypeOK /\ OwnersRun /\ GenInv
      /\ LeaseGen /\ TurnGens /\ TaskGens /\ AgentGens
  BY DEF GraphInv, OwnerInv, GenInv, TypeInv
<1>n. /\ lease.gen \in Nat /\ \A e \in Daemons : turn[e].gen \in Nat
      /\ \A t \in Tasks : tasks[t].gen \in Nat
      /\ \A a \in Agents : agents[a].gen \in Nat
  BY <1>0 DEF GraphTypeOK, TurnRow, TaskRow, AgentRow
<1>1. CASE Quiet
  BY <1>0, <1>1 DEF Quiet, graph, GenInv, LeaseGen, TurnGens, TaskGens, AgentGens
<1>2. ASSUME NEW e \in Daemons, BeginTurn(e) PROVE GenInv'
  <2>1. /\ turn'[e].gen = lease'.gen
        /\ \A f \in Daemons : f # e => turn'[f] = turn[f]
        /\ lease'.gen = IF lease.live THEN lease.gen ELSE lease.gen + 1
    BY <1>0, <1>2, BeginTurnShape
  <2>2. lease'.gen \in Nat /\ lease.gen <= lease'.gen /\ 0 < lease'.gen
    BY <1>0, <1>n, <2>1 DEF LeaseGen
  <2>3. UNCHANGED graph
    BY <1>2 DEF BeginTurn
  <2>4. TurnGens'
    BY <1>0, <1>n, <2>1, <2>2 DEF TurnGens
  <2>5. TaskGens' /\ AgentGens'
    BY <1>0, <1>n, <2>2, <2>3 DEF TaskGens, AgentGens, graph
  <2> QED BY <2>2, <2>4, <2>5 DEF GenInv, LeaseGen
<1>3. ASSUME NEW e \in Daemons, Writes(e) PROVE GenInv'
  <2>1. UNCHANGED lease /\ turn[e].pc # "idle"
    BY <1>3, WritesAreFenced
  <2>2. 0 < turn[e].gen /\ turn[e].gen <= lease.gen
    BY <1>0, <2>1 DEF TurnGens
  <2>3. TurnGens'
    <3>1. TurnStep(e)
      BY <1>0, <1>3, TurnWritten
    <3> QED BY <1>0, <2>1, <2>2, <3>1 DEF TurnGens, TurnStep
  <2>4. TaskGens'
    BY <1>0, <1>3, <2>1, <2>2, RunningAfter DEF TaskGens
  <2>5. AgentGens'
    <3>1. AgentStep(e)
      BY <1>0, <1>3, AgentsWritten
    <3> QED BY <1>0, <2>1, <2>2, <3>1 DEF AgentGens, AgentStep
  <2> QED BY <1>0, <2>1, <2>3, <2>4, <2>5 DEF GenInv, LeaseGen
<1> QED BY <1>0, <1>1, <1>2, <1>3, StepKinds

(* A turn that has recovered meets its own generation's work only          *)
(* (recoverGraphWork).                                                     *)
LEMMA RecoveredStep ==
  ASSUME GraphInv, [GraphNext]_graphVars
  PROVE  RecoveredBeforeWork'
<1>0. /\ TypeInv /\ GraphTypeOK /\ OwnersRun /\ TaskGens /\ AgentGens
      /\ RecoveredBeforeWork
  BY DEF GraphInv, OwnerInv, GenInv, TypeInv
<1> SUFFICES ASSUME NEW f \in Daemons, HoldsRun(f)',
                    turn'[f].pc \notin {"idle", "recover"}
             PROVE  /\ \A t \in Tasks : tasks'[t].status = "running"
                         => tasks'[t].gen = turn'[f].gen
                    /\ \A a \in Agents : agents'[a].status = "running"
                         => agents'[a].gen \in {0, turn'[f].gen}
  BY DEF RecoveredBeforeWork
<1> DEFINE g == turn[f].gen
<1>1. HoldsRun(f) /\ turn'[f].gen = g /\ lease.gen = g /\ g \in Nat
  <2>1. HoldsRun(f) /\ turn'[f].gen = turn[f].gen
    BY <1>0, HoldsStep
  <2> QED BY <1>0, <2>1 DEF HoldsRun, GraphTypeOK, TurnRow
<1>2. CASE Quiet /\ turn'[f] = turn[f]
  BY <1>0, <1>1, <1>2 DEF Quiet, graph, RecoveredBeforeWork
<1>3. CASE Writes(f) /\ turn[f].pc = "recover"
  <2>1. RecoverGraphWork(f)
    BY <1>0, <1>3, TurnWritten DEF TurnStep
  <2>2. ASSUME NEW t \in Tasks, tasks'[t].status = "running"
        PROVE  tasks'[t].gen = g
    <3>1. tasks'[t] = tasks[t] /\ ~(0 < tasks[t].gen /\ tasks[t].gen < g)
      BY <1>0, <2>1, <2>2, RecoverRows
    <3>2. 0 < tasks[t].gen /\ tasks[t].gen <= g /\ tasks[t].gen \in Nat
      BY <1>0, <1>1, <2>2, <3>1 DEF TaskGens, GraphTypeOK, TaskRow
    <3> QED BY <1>1, <3>1, <3>2
  <2>3. ASSUME NEW a \in Agents, agents'[a].status = "running"
        PROVE  agents'[a].gen \in {0, g}
    <3>1. agents'[a] = agents[a] /\ a \notin StrandedAgents(g)
      BY <1>0, <2>1, <2>3, RecoverRows
    <3>2. agents[a].gen <= g /\ agents[a].gen \in Nat
      BY <1>0, <1>1, <2>3, <3>1 DEF AgentGens, GraphTypeOK, AgentRow
    <3>3. ~(0 < agents[a].gen /\ agents[a].gen < g)
      BY <2>3, <3>1 DEF StrandedAgents
    <3> QED BY <1>1, <3>1, <3>2, <3>3
  <2> QED BY <1>1, <2>2, <2>3
<1>4. CASE Writes(f) /\ turn[f].pc # "recover"
  <2>1. turn[f].pc # "idle"
    BY <1>4, WritesAreFenced
  <2>2. /\ \A t \in Tasks : tasks[t].status = "running" => tasks[t].gen = g
        /\ \A a \in Agents :
             agents[a].status = "running" => agents[a].gen \in {0, g}
    BY <1>0, <1>1, <1>4, <2>1 DEF RecoveredBeforeWork
  <2>3. AgentStep(f)
    BY <1>0, <1>4, AgentsWritten
  <2> QED BY <1>0, <1>1, <1>4, <2>2, <2>3, RunningAfter DEF AgentStep
<1> QED BY <1>0, <1>2, <1>3, <1>4, HoldsStep
-----------------------------------------------------------------------------
(* The graph before a step and after it, when no turn writes it.           *)
LEMMA GraphKept ==
  ASSUME TypeInv, [GraphNext]_graphVars, ~\E e \in Daemons : Writes(e)
  PROVE  UNCHANGED <<tasks, agents>>
  BY StepKinds DEF Quiet, BeginTurn, graph

(* A completed Task stays completed: the statuses have no way back, and    *)
(* no write of the store takes one.                                        *)
LEMMA CompletedStays ==
  ASSUME TypeInv, OwnersRun, NEW e \in Daemons, Writes(e),
         NEW d \in Tasks, tasks[d].status = "completed"
  PROVE  tasks'[d].status = "completed"
  BY TasksWritten DEF TaskStep, Settled, Kept, Left, Promoted, Created, Claimed

(* A Task that has been offered had all its dependencies completed         *)
(* (refreshTaskReadinessInternal, recoverGraphWork).                       *)
LEMMA DependenciesStep ==
  ASSUME GraphInv, [GraphNext]_graphVars
  PROVE  DependenciesFirst'
<1>0. TypeInv /\ GraphTypeOK /\ OwnersRun /\ DependenciesFirst
  BY DEF GraphInv, OwnerInv, TypeInv
<1>1. CASE UNCHANGED <<tasks, agents>>
  BY <1>0, <1>1 DEF DependenciesFirst, Existing
<1>2. ASSUME NEW e \in Daemons, Writes(e) PROVE DependenciesFirst'
  <2> SUFFICES ASSUME NEW t \in Tasks,
                      tasks'[t].status \notin {"absent", "pending"},
                      NEW d \in tasks'[t].deps
               PROVE  tasks'[d].status = "completed"
    BY DEF DependenciesFirst, Existing
  <2>1. tasks' \in [Tasks -> TaskRow] /\ TaskStep(e)
    BY <1>0, <1>2, TasksWritten
  <2>2. d \in Tasks
    BY <2>1 DEF TaskRow
  <2>3. ASSUME tasks[t].status \notin {"absent", "pending"},
               tasks'[t].deps = tasks[t].deps
        PROVE  tasks'[d].status = "completed"
    <3>1. tasks[d].status = "completed"
      BY <1>0, <2>3 DEF DependenciesFirst, Existing
    <3> QED BY <1>0, <1>2, <2>2, <3>1, CompletedStays
  <2>4. CASE Kept(t)
    BY <2>3, <2>4 DEF Kept
  <2>5. CASE Left(t, turn[e].pc = "recover")
    BY <2>3, <2>5 DEF Left
  <2>6. CASE Promoted(t) \/ Created(t)
    BY <2>6 DEF Promoted, Created
  <2>7. CASE Claimed(t, Acting(e), turn[e].gen)
    BY <2>3, <2>7 DEF Claimed
  <2> QED BY <2>1, <2>4, <2>5, <2>6, <2>7 DEF TaskStep, Settled
<1> QED BY <1>0, <1>1, <1>2, GraphKept

(* The owner a Task has after a transaction: the one it had, or the acting *)
(* Agent, which had no Task.                                               *)
LEMMA OwnerAfter ==
  ASSUME TypeInv, OwnersRun, NEW e \in Daemons, Writes(e), NEW t \in Tasks
  PROVE  /\ tasks'[t].owner # NoOwner <=> tasks'[t].status = "running"
         /\ tasks'[t].owner # NoOwner =>
              \/ Kept(t)
              \/ /\ tasks'[t].owner = Acting(e)
                 /\ turn[e].pc = "claim" /\ RunningOf(Acting(e)) = {}
                 /\ \A u \in Tasks : u # t => Kept(u)
<1>1. TaskStep(e) /\ Acting(e) # NoOwner
  BY TasksWritten, AgentNumbers DEF TypeInv, GraphTypeOK, TurnRow, Acting
<1>2. tasks[t].owner # NoOwner <=> tasks[t].status = "running"
  BY DEF OwnersRun
<1>3. CASE Settled(t, turn[e].pc = "recover")
  BY <1>2, <1>3 DEF Settled, Kept, Left, Promoted, Created
<1>4. ASSUME NEW u \in Tasks, turn[e].pc = "claim",
             RunningOf(Acting(e)) = {},
             Claimed(u, Acting(e), turn[e].gen),
             \A v \in Tasks : v # u => Kept(v)
      PROVE  /\ tasks'[t].owner # NoOwner <=> tasks'[t].status = "running"
             /\ Kept(t) \/ (t = u /\ tasks'[t].owner = Acting(e))
  <2>1. CASE t = u
    BY <1>1, <1>4, <2>1 DEF Claimed
  <2>2. CASE t # u
    BY <1>2, <1>4, <2>2 DEF Kept
  <2> QED BY <2>1, <2>2
<1> QED BY <1>1, <1>3, <1>4 DEF TaskStep

(* The owners' part of the invariant (claimTaskFor, settleActingAgent).    *)
LEMMA OwnerStep ==
  ASSUME GraphInv, [GraphNext]_graphVars
  PROVE  OwnerInv'
<1>0. /\ TypeInv /\ GraphTypeOK /\ OwnersRun /\ OneEach /\ OwnersWork
      /\ ActingWorks /\ RetiredFree
  BY DEF GraphInv, OwnerInv, TypeInv
<1>1. OwnersRun' /\ OneEach' /\ OwnersWork'
  <2>1. CASE UNCHANGED <<tasks, agents>>
    BY <1>0, <2>1 DEF OwnersRun, OneEach, OwnersWork
  <2>2. ASSUME NEW e \in Daemons, Writes(e)
        PROVE  OwnersRun' /\ OneEach' /\ OwnersWork'
    <3>o. ASSUME NEW t \in Tasks
          PROVE  /\ tasks'[t].owner # NoOwner <=> tasks'[t].status = "running"
                 /\ tasks'[t].owner # NoOwner =>
                      \/ Kept(t)
                      \/ /\ tasks'[t].owner = Acting(e)
                         /\ turn[e].pc = "claim" /\ RunningOf(Acting(e)) = {}
                         /\ \A u \in Tasks : u # t => Kept(u)
      BY <1>0, <2>2, OwnerAfter
    <3>f. ASSUME NEW u \in Tasks, tasks[u].owner = Acting(e),
                 RunningOf(Acting(e)) = {}
          PROVE  FALSE
      <4>1. Acting(e) # NoOwner
        BY <1>0, AgentNumbers DEF GraphTypeOK, TurnRow, Acting
      <4> QED BY <1>0, <3>f, <4>1 DEF OwnersRun, RunningOf, Owned
    <3>1. OwnersRun'
      BY <3>o DEF OwnersRun
    <3>2. OneEach'
      <4> SUFFICES ASSUME NEW t \in Tasks, NEW u \in Tasks, t # u,
                          tasks'[t].owner # NoOwner,
                          tasks'[t].owner = tasks'[u].owner
                   PROVE  FALSE
        BY DEF OneEach
      <4>1. CASE Kept(t) /\ Kept(u)
        BY <1>0, <4>1 DEF Kept, OneEach
      <4>2. CASE ~Kept(t)
        BY <3>o, <3>f, <4>2 DEF Kept
      <4>3. CASE ~Kept(u)
        BY <3>o, <3>f, <4>3 DEF Kept
      <4> QED BY <4>1, <4>2, <4>3
    <3>3. OwnersWork'
      <4> SUFFICES ASSUME NEW t \in Tasks, tasks'[t].owner \in Delegates
                   PROVE  agents'[tasks'[t].owner].status \in Working
        BY DEF OwnersWork
      <4> DEFINE a == tasks'[t].owner
      <4>1. a \in Agents /\ a # NoOwner
        BY AgentNumbers
      <4>2. agents[a].status \in Working
        <5>1. CASE Kept(t)
          BY <1>0, <5>1 DEF Kept, OwnersWork
        <5>2. CASE a = Acting(e) /\ turn[e].pc = "claim"
          <6>1. HoldsRun(e)
            BY <2>2, WritesAreFenced
          <6> QED BY <1>0, <5>2, <6>1 DEF ActingWorks, Working
        <5> QED BY <3>o, <4>1, <5>1, <5>2
      <4>3. ~(turn[e].pc = "retire" /\ a = Acting(e))
        <5> SUFFICES ASSUME turn[e].pc = "retire", a = Acting(e) PROVE FALSE
          OBVIOUS
        <5>1. Kept(t)
          BY <3>o, <4>1
        <5>2. tasks[t].owner = a /\ tasks[t].status = "running"
          BY <1>0, <4>1, <5>1 DEF Kept, OwnersRun
        <5>3. Remaining(Acting(e)) = {}
          BY <1>0, <2>2, WritesAreFenced DEF RetiredFree
        <5> QED BY <5>2, <5>3 DEF Remaining, Owned
      <4>4. AgentStep(e)
        BY <1>0, <2>2, AgentsWritten
      <4> HIDE DEF a
      <4>5. agents'[a].status \in Working
        BY <4>1, <4>2, <4>3, <4>4 DEF AgentStep, Working
      <4> QED BY <4>5 DEF a
    <3> QED BY <3>1, <3>2, <3>3
  <2> QED BY <1>0, <2>1, <2>2, GraphKept
<1>2. ActingWorks'
  <2> SUFFICES ASSUME NEW f \in Daemons, HoldsRun(f)',
                      turn'[f].pc \in {"drain", "claim"}
               PROVE  agents'[turn'[f].agent].status = "running"
    BY DEF ActingWorks, Acting
  <2>1. HoldsRun(f) /\ ((Quiet /\ turn'[f] = turn[f]) \/ Writes(f))
    BY <1>0, HoldsStep
  <2>2. CASE Quiet /\ turn'[f] = turn[f]
    BY <1>0, <2>1, <2>2 DEF ActingWorks, Acting, Quiet, graph
  <2>3. CASE Writes(f)
    <3>1. TurnStep(f)
      BY <1>0, <2>3, TurnWritten
    <3>2. CASE turn'[f].pc = "drain"
      BY <1>0, <3>1, <3>2, SelectRows DEF TurnStep
    <3>3. CASE turn'[f].pc = "claim"
      <4>1. DrainInbox(f) /\ turn'[f].agent = turn[f].agent
        BY <3>1, <3>3 DEF TurnStep
      <4>2. turn[f].pc = "drain" /\ UNCHANGED agents
        BY <4>1 DEF DrainInbox, TurnAt
      <4> QED BY <1>0, <2>1, <4>1, <4>2 DEF ActingWorks, Acting
    <3> QED BY <3>2, <3>3
  <2> QED BY <2>1, <2>2, <2>3
<1>3. RetiredFree'
  <2> SUFFICES ASSUME NEW f \in Daemons, HoldsRun(f)', turn'[f].pc = "retire"
               PROVE  Remaining(Acting(f))' = {}
    BY DEF RetiredFree
  <2>1. HoldsRun(f) /\ ((Quiet /\ turn'[f] = turn[f]) \/ Writes(f))
    BY <1>0, HoldsStep
  <2>2. /\ Remaining(Acting(f)) = {} /\ UNCHANGED tasks
        /\ turn'[f].agent = turn[f].agent
    <3>1. CASE Quiet /\ turn'[f] = turn[f]
      BY <1>0, <2>1, <3>1 DEF RetiredFree, Quiet, graph
    <3>2. CASE Writes(f)
      BY <1>0, <3>2, TurnWritten DEF TurnStep
    <3> QED BY <2>1, <3>1, <3>2
  <2> QED BY <2>2 DEF Remaining, Owned, Acting
<1> QED BY <1>1, <1>2, <1>3 DEF OwnerInv

(* A Task waits for its first offer with all its attempts.                 *)
LEMMA FreshStep ==
  ASSUME GraphInv, [GraphNext]_graphVars
  PROVE  Fresh'
<1>0. TypeInv /\ OwnersRun /\ Fresh
  BY DEF GraphInv, OwnerInv
<1>1. CASE UNCHANGED <<tasks, agents>>
  BY <1>0, <1>1 DEF Fresh
<1>2. ASSUME NEW e \in Daemons, Writes(e), NEW t \in Tasks,
             tasks'[t].status = "pending"
      PROVE  tasks'[t].attempt < MAX_TASK_ATTEMPTS
  <2>1. Kept(t) \/ (Created(t) /\ tasks'[t].attempt = 0)
    BY <1>0, <1>2, TasksWritten
       DEF TaskStep, Settled, Left, Promoted, Created, Claimed
  <2> QED BY <1>0, <1>2, <2>1, AttemptsAssumption DEF Kept, Fresh
<1> QED BY <1>0, <1>1, <1>2, GraphKept DEF Fresh

(* Attempts are used up by failures, and added by takeovers only           *)
(* (transitionTask, recoverGraphWork).                                     *)
LEMMA AttemptsStep ==
  ASSUME GraphInv, [GraphNext]_graphVars
  PROVE  Attempts' /\ AttemptsAreBounded'
<1>0. /\ TypeInv /\ GraphTypeOK /\ OwnersRun /\ Fresh /\ Attempts
      /\ AttemptsAreBounded /\ LeaseGen /\ TurnGens
  BY DEF GraphInv, OwnerInv, GenInv, TypeInv
<1>n. /\ lease.gen \in Nat /\ MAX_TASK_ATTEMPTS \in Nat \ {0}
      /\ \A t \in Tasks : tasks[t].gen \in Nat /\ tasks[t].attempt \in Nat
  BY <1>0, AttemptsAssumption DEF GraphTypeOK, TaskRow
<1>1. CASE UNCHANGED <<tasks, agents>>
  <2>1. lease'.gen \in Nat /\ lease.gen <= lease'.gen
    <3>1. CASE Quiet
      BY <1>n, <3>1 DEF Quiet
    <3>2. ASSUME NEW e \in Daemons, BeginTurn(e)
          PROVE  lease'.gen = lease.gen \/ lease'.gen = lease.gen + 1
      BY <1>0, <3>2, BeginTurnShape
    <3>3. ASSUME NEW e \in Daemons, Writes(e) PROVE UNCHANGED lease
      BY <3>3, WritesAreFenced
    <3> QED BY <1>0, <1>n, <3>1, <3>2, <3>3, StepKinds
  <2> QED BY <1>0, <1>n, <1>1, <2>1 DEF Attempts, AttemptsAreBounded
<1>2. ASSUME NEW e \in Daemons, Writes(e), NEW t \in Tasks
      PROVE  /\ tasks'[t].attempt < MAX_TASK_ATTEMPTS + lease'.gen
             /\ tasks'[t].status \in {"ready", "running"} =>
                  \/ tasks'[t].attempt < MAX_TASK_ATTEMPTS
                  \/ /\ tasks'[t].attempt + 1 < MAX_TASK_ATTEMPTS + tasks'[t].gen
                     /\ tasks'[t].gen <= lease'.gen
  <2>1. /\ UNCHANGED lease /\ turn[e].gen = lease.gen /\ 0 < lease.gen
    BY <1>0, <1>2, WritesAreFenced DEF HoldsRun, LeaseGen
  <2>2. /\ tasks'[t].attempt \in Nat /\ tasks'[t].gen \in Nat
        /\ \/ Kept(t) \/ Left(t, turn[e].pc = "recover") \/ Promoted(t)
           \/ Created(t) \/ Claimed(t, Acting(e), turn[e].gen)
    BY <1>0, <1>2, TasksWritten DEF TaskStep, Settled, TaskRow
  <2>3. CASE Kept(t)
    BY <1>0, <2>1, <2>3 DEF Kept, Attempts, AttemptsAreBounded
  <2>4. CASE Created(t)
    BY <1>n, <2>1, <2>4 DEF Created
  <2>5. CASE Promoted(t)
    <3>1. tasks[t].attempt < MAX_TASK_ATTEMPTS
      BY <1>0, <2>5 DEF Promoted, Fresh
    <3> QED BY <1>n, <2>1, <2>5, <3>1 DEF Promoted
  <2>6. CASE Claimed(t, Acting(e), turn[e].gen)
    BY <1>0, <1>n, <2>1, <2>6 DEF Claimed, Attempts, AttemptsAreBounded
  <2>7. CASE Left(t, turn[e].pc = "recover")
    <3>1. \/ tasks[t].attempt < MAX_TASK_ATTEMPTS
          \/ /\ tasks[t].attempt + 1 < MAX_TASK_ATTEMPTS + tasks[t].gen
             /\ tasks[t].gen <= lease.gen
      BY <1>0, <2>7 DEF Left, Attempts
    <3>2. /\ tasks'[t].attempt <= tasks[t].attempt + 1
          /\ tasks'[t].status \in {"completed", "failed", "ready"}
          /\ tasks'[t].status = "ready" =>
               \/ tasks'[t].attempt < MAX_TASK_ATTEMPTS
               \/ /\ 0 < tasks[t].gen /\ tasks[t].gen < tasks'[t].gen
                  /\ tasks'[t].gen <= lease.gen
      BY <2>7 DEF Left
    <3> QED BY <1>n, <2>1, <2>2, <3>1, <3>2
  <2> QED BY <2>2, <2>3, <2>4, <2>5, <2>6, <2>7
<1> QED BY <1>0, <1>1, <1>2, GraphKept DEF Attempts, AttemptsAreBounded

(* A new Run has no Tasks and a coordinator at work.                       *)
LEMMA GraphInvInit == GraphInit => GraphInv
<1> SUFFICES ASSUME GraphInit PROVE GraphInv
  OBVIOUS
<1>i. Idle \in TurnRow /\ Idle.pc = "idle"
  BY AgentNumbers DEF Idle, TurnRow, TurnPc
<1>n. /\ NoTask \in TaskRow /\ NoTask.status = "absent"
      /\ NoTask.owner = NoOwner /\ NoTask.attempt = 0
  BY DEF NoTask, TaskRow
<1> DEFINE chief == [NoAgent EXCEPT !.status = "running", !.lead = TRUE]
<1>a. /\ NoAgent \in AgentRow /\ NoAgent.gen = 0
      /\ chief \in AgentRow /\ chief.gen = 0
  BY Statuses DEF NoAgent, AgentRow
<1>1. /\ turn \in [Daemons -> TurnRow]
      /\ \A e \in Daemons : turn[e].pc = "idle"
  BY <1>i DEF GraphInit
<1>2. /\ tasks \in [Tasks -> TaskRow]
      /\ \A t \in Tasks : /\ tasks[t].status = "absent"
                          /\ tasks[t].owner = NoOwner
                          /\ tasks[t].attempt = 0
  BY <1>n DEF GraphInit
<1>3. /\ agents \in [Agents -> AgentRow]
      /\ \A a \in Agents : agents[a].gen = 0
  <2>1. agents = [a \in Agents |-> IF a = Coordinator THEN chief ELSE NoAgent]
    BY DEF GraphInit
  <2> HIDE DEF chief
  <2> QED BY <1>a, <2>1
<1>4. lease.gen = 0 /\ ~lease.live
  BY DEF GraphInit
<1>5. TypeInv
  BY <1>1, <1>2, <1>3 DEF GraphInit, TypeInv, GraphTypeOK, Children
<1>6. GenInv
  BY <1>1, <1>2, <1>3, <1>4
     DEF GenInv, LeaseGen, TurnGens, TaskGens, AgentGens
<1>7. OwnerInv
  <2>1. NoOwner \notin Delegates
    BY AgentNumbers
  <2> QED BY <1>1, <1>2, <2>1
     DEF OwnerInv, OwnersRun, OneEach, OwnersWork, ActingWorks, RetiredFree
<1>8. RecoveredBeforeWork /\ DependenciesFirst /\ Fresh
  BY <1>1, <1>2 DEF RecoveredBeforeWork, DependenciesFirst, Existing, Fresh
<1>9. Attempts /\ AttemptsAreBounded
  BY <1>2, <1>4, AttemptsAssumption DEF Attempts, AttemptsAreBounded
<1> QED BY <1>5, <1>6, <1>7, <1>8, <1>9 DEF GraphInv

(* The whole invariant, kept by every step of every daemon.                *)
LEMMA GraphInvariant == GraphSpec => []GraphInv
<1>1. GraphInv /\ [GraphNext]_graphVars => GraphInv'
  <2> SUFFICES ASSUME GraphInv, [GraphNext]_graphVars PROVE GraphInv'
    OBVIOUS
  <2>1. TypeInv'
    BY TypeStep DEF GraphInv, OwnerInv
  <2> QED BY <2>1, GenStep, OwnerStep, RecoveredStep, DependenciesStep,
             FreshStep, AttemptsStep
          DEF GraphInv
<1> QED BY <1>1, GraphInvInit, PTL DEF GraphSpec
-----------------------------------------------------------------------------
(* The rows of the Tasks, the Agents and their edges stay of their types:  *)
(* every status is one of state-machine.ts.                                *)
THEOREM GraphTypeCorrect == GraphSpec => []GraphTypeOK
<1>1. GraphInv => GraphTypeOK
  BY DEF GraphInv, TypeInv
<1> QED BY <1>1, GraphInvariant, PTL

(* Past recoverGraphWork, the owner of the Run meets no work that a        *)
(* predecessor left running, however often the Run was taken over.         *)
THEOREM TakeoverRecovers == GraphSpec => []RecoveredBeforeWork
<1>1. GraphInv => RecoveredBeforeWork
  BY DEF GraphInv
<1> QED BY <1>1, GraphInvariant, PTL

(* No Task is offered, worked on or done before its dependencies are       *)
(* completed (refreshTaskReadinessInternal).                               *)
THEOREM WorkFollowsDependencies == GraphSpec => []DependenciesFirst
<1>1. GraphInv => DependenciesFirst
  BY DEF GraphInv
<1> QED BY <1>1, GraphInvariant, PTL

(* An Agent works on one Task at most, the owner of a Task is the Agent    *)
(* that works on it, and it can be selected (claimTaskFor,                 *)
(* settleActingAgent).                                                     *)
THEOREM AgentsOwnOneTask == GraphSpec => []OneTaskPerAgent
<1>1. GraphInv => OneTaskPerAgent
  <2> SUFFICES ASSUME GraphInv PROVE OneTaskPerAgent
    OBVIOUS
  <2>0. OwnersRun /\ OneEach /\ OwnersWork
    BY DEF GraphInv, OwnerInv
  <2>1. ASSUME NEW a \in Agents PROVE Cardinality(RunningOf(a)) <= 1
    <3>1. \A t, u \in RunningOf(a) : t = u
      BY <2>0, AgentNumbers DEF RunningOf, Owned, OneEach
    <3>2. CASE RunningOf(a) = {}
      BY <3>2, FS_EmptySet
    <3>3. ASSUME NEW t \in RunningOf(a)
          PROVE  Cardinality(RunningOf(a)) <= 1
      <4>1. RunningOf(a) = {t}
        BY <3>1
      <4>2. Cardinality({t}) = 1
        BY FS_Singleton
      <4> QED BY <4>1, <4>2
    <3> QED BY <3>2, <3>3
  <2>2. ASSUME NEW t \in Tasks, tasks[t].owner \in Delegates
        PROVE  Selectable(tasks[t].owner)
    <3>1. agents[tasks[t].owner].status \in {"queued", "running", "waiting"}
      BY <2>0, <2>2 DEF OwnersWork, Working
    <3>2. tasks[t].status = "running"
      BY <2>0, <2>2, AgentNumbers DEF OwnersRun
    <3>3. t \in Remaining(tasks[t].owner)
      BY <3>2 DEF Remaining, Owned
    <3> QED BY <3>1, <3>3 DEF Selectable
  <2> QED BY <2>0, <2>1, <2>2 DEF OneTaskPerAgent, OwnersRun
<1> QED BY <1>1, GraphInvariant, PTL

(* A Task is attempted at most MAX_TASK_ATTEMPTS times and once more for   *)
(* each takeover of the Run: the retries of                                *)
(* refreshTaskReadinessInternal are counted, and recoverGraphWork, which   *)
(* does not look at the count, returns a Task once per lease generation.   *)
THEOREM AttemptsEnd == GraphSpec => []AttemptsAreBounded
<1>1. GraphInv => AttemptsAreBounded
  BY DEF GraphInv
<1> QED BY <1>1, GraphInvariant, PTL
==============================================================================
