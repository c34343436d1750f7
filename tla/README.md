# TLA+ models of Ottili Coder

Ottili Coder executes long missions ("Runs") with a language model. A Run lives
in a SQLite database; daemons lease it, execute one provider turn at a time and
write back what happened. Everything that makes the system durable - leases with
a generation, scheduled continuations, waits and wakes, user commands, the Task
and Agent graphs, the journal of tool calls - is a row in that database, changed
by short transactions between which processes stall, crash or race. Around that
core stand what a turn uses (providers, tools, permissions, a budget, a compiled
context), what it talks to (MCP and language servers, clients that follow its
events) and what outlives it (checkpoints, the completion gate, the local daemon
process). These modules model all of these, check them with TLC on small
instances, and prove with TLAPS, for every value of the constants, the safety
properties of the core, that it implements an abstract grant of Runs to executors,
and those of most of the components around it.

Paths below are relative to `src/`; `store.ts` is
`packages/control-plane/src/store.ts`, `scheduler.ts` is in the same directory,
`coordinator.ts`, `engine.ts` and `mission-tools.ts` are in
`packages/runtime/src/`, `state-machine.ts` in `packages/core/src/`.

## 1. Inventory

| Component | State | Operations | Modelled in |
|---|---|---|---|
| Lifecycles (`state-machine.ts`) | transition tables of Run, goal, Task, Agent | `canTransition*`, terminal and continue predicates | `RunLifecycle` |
| Run store (`store.ts`, `database.ts`) | `runs`, `goals`, `run_leases`, `scheduled_actions`, `wake_conditions`, `approvals`, `problems`, `command_receipts` | create, transition, command, lease acquire and renew, recover, claim, settle, wake, approvals, problems | `RunStore`, `RunScheduler`; what it promises: `RunGrant` |
| Scheduler (`scheduler.ts`) | the tick in progress, the turn in flight, its `AbortController` | `tick`, `tickRun`, `abortRun`, `start`, `stop` | `RunScheduler` |
| Coordinator (`coordinator.ts`) | local variables of one turn | `execute` and its handlers for aborts, failures and approvals; agent selection, claiming, settling, stagnation; tool authorization; charging; checkpoints | `RunScheduler`, `TaskGraph`, `ToolJournal`, `ToolPermission`, `RunBudget`, `ProviderTurn`, `CompletionGate`, `Checkpoints` |
| Task and Agent graph, mailboxes (`store.ts`) | `tasks`, `task_dependencies`, `agents`, `agent_edges`, `agent_messages` | create, transition, claim, recover, spawn, send, receive | `TaskGraph` |
| Mission tools (`mission-tools.ts`) | - | Task, delegation and message tools; requirement, evidence and validation tools | `TaskGraph`, `CompletionGate` |
| Tool journal and locks (`store.ts`, `coordinator.ts`) | `tool_calls`, `resource_locks`, `usage_json` | authorize, lock, intent, effect, complete, release, recover | `ToolJournal` |
| Policies (`packages/core/src/policies.ts`) | policies and sandboxes of Agents; budget and usage | evaluate a permission, narrow for a delegate, assess a budget | `ToolPermission`, `RunBudget` |
| Completion gate (`packages/validation/src`) | requirement ledger, evidence, validations, attempts | audit, `proposeCompletion`, stagnation | `CompletionGate` |
| Turn engine and failover (`engine.ts`, `failover.ts`) | conversation of one turn, candidate | ask, dispatch tools, fail over, abort, retry, park | `ProviderTurn` |
| Failure policy (`packages/recovery/src`) | - | classify an error, plan a tool's recovery | `ToolRecovery` |
| Checkpoints (`coordinator.ts`, `packages/workspace/src`, `packages/runtime/src/checkpoint-restore.ts`, `worktrees.ts`) | refs, `checkpoints` rows, worktrees, files | capture, provision, restore | `Checkpoints` |
| Transactional restore (`packages/recovery/src/checkpoint.ts`) | phase, rollback report | create, restore, roll back | `CheckpointService` |
| Agents package (`packages/agents/src`) | in-memory graph, mailbox, capacity | a library the daemon does not use yet | `AgentRuntime` |
| Context (`context.ts`, `packages/context/src`) | items and plan of a turn; memory records; the index and its builds | compile, plan, capture, promote, index, search | `ContextPlan`, `ProjectMemory`, `SemanticIndex` |
| Event log, SSE stream, SDK (`server.ts`, `packages/sdk/src/client.ts`) | event sequence, stream position, frames under way | append, history, stream, attach | `EventStream` |
| MCP servers (`packages/integrations/src/mcp.ts`, `mcp-tools.ts`) | entries, connections, reconcile loops | connect, handshake, call, lose, retry, disconnect | `McpSupervisor` |
| Language servers (`packages/integrations/src/lsp.ts`, `lsp-tools.ts`) | clients, open documents, pending requests | start, open, wait for diagnostics, ask, dispose | `LspManager` |
| Local daemon (`apps/cli/src`) | processes, descriptor, commands | start, adopt, stop, restart, crash | `DaemonControl` |
| OCF format, provider wire formats, repository map, shell and file tools | text and files | conversion and I/O | left out (section 5) |

**How the parts interact.** A daemon is one Node event loop. Its scheduler polls:
`tick` wakes due Runs, lists the executable ones once, and for each `tickRun`
acquires the lease, recovers what an older generation left, claims the
continuation, awaits one turn of the coordinator and settles the claim. HTTP
handlers of the same daemon run only while the scheduler is parked on a real
`await`; handlers of another daemon, and the clock, interleave with every
transaction. Executors protect their writes with the lease generation
(`assertLeaseInternal`), users do not.

**What is hard.** (1) A daemon stalled past its lease wakes up inside a turn that
a successor is executing too. (2) A user's pause, resume, cancel or decision
lands between two transactions of a turn, through the same daemon or through
another one. (3) Crashes between transactions leave claims, running Tasks,
running tool calls, locks and Git refs behind. (4) `ensureContinuationInternal`
inserts nothing while a claimed row exists, so that a wake during a turn depends
on how the turn is settled later. (5) `tick` works from a listing that is a whole
turn old. (6) Several operations are two or three transactions
(`handleApprovalWait`, `handleFailure`, `delegate_task`, the tool envelope), or
await something outside the store in the middle (the completion audit, a
checkpoint, a restore). (7) Connections close before, during or after the
handshake that somebody awaits, and both the callback and the awaiting code react
to it. (8) Asynchronous builds, reconcile loops and terminal commands overtake
each other. `PROJECT.json` lists these as hazards, each at its line, with the
properties that would catch it going wrong.

**What makes it correct.** A Run that should be driven is driven; a Run that waits
has something that will wake it; no two executors pass the fence; Tasks run in
dependency order, one per Agent; a tool call is authorized once, journaled and
counted before its effect, and not repeated when that is unsafe; a delegate gains
no capability; a budget stops the Run; a Run completes only on a proven and
audited ledger; a checkpoint can be restored, and a restore says truly what it
did; nobody waits for an answer that cannot come; a follower misses no event; a
stop takes the daemon it verified off the port.

## 2. Modules

`RunLifecycle` - the four tables of `state-machine.ts` as functions from a status
to the set of its successors.

`RunStore` - what one transaction of `store.ts` does to a Run: a record `Row`
(status, waiting reason, goal, the lease `holder`/`gen`/`live`, the continuation
`act`/`by`/`epoch`, timers, approvals, counted problems) and one operator per
method, from row to row. Budget usage is abstracted to whether it limits the Run.

`RunScheduler` (extends `RunStore`) - daemons over the rows. `mem[d]` is the
position of `tick`/`tickRun`/`execute` with the locals that live across a
transaction: the listing, the Run, the generation, the claim, the abort signal,
the value returned by the executor. Every transaction is one action: `TickWake`,
`TickList`, `TickQueuedRun`, `TickRunningRun`, `TickAcquire`, `TickRecover`, `TickClaim`, `TickCheck`,
`TickUnclaim`, `Settle`, `ThrowSettle` follow `scheduler.ts`; `Turn...` are the ways
a turn of `coordinator.ts` ends, with the reads and writes that are separate in
the code as separate actions; `PostRun`, `PostCommand`, `PostApproval` follow
`server.ts`, receipts included. Faults: `LeaseExpires`, `Crash`, `Stop` and `Exit`,
`TurnThrows` (an exception nobody expects), `StoreBusy` (a settle lost to
`SQLITE_BUSY`).

`TaskGraph` (extends `RunLifecycle`) - the graph of one Run and the turns that
change it, one action per transaction: recovery, selection of the acting Agent,
draining its mailbox, claiming, the Task tools, settling, stagnation. Reads that
precede a fenced write are merged into it: all writers are executors of the same
Run, and a stale one throws. A crash is a turn whose lease lapses and that never
takes another step.

`ToolJournal` - the envelope of a tool call for several Runs on one checkout:
`CallAllowedTool`/`CallGuardedTool` (`authorizeTool`), `AcquireLocks`,
`RecordIntent`, the effect, `CompleteCall`, `ReleaseLocks`, with takeovers,
crashes, pauses, approval decisions and the ceiling on tool calls. A tool is the
set of scopes it locks, each a kind and a path, and whether it writes; scopes
conflict as `resourceScopesConflict` says, of the same kind only. An effect takes
as long as it takes and a lock may expire under it, which the turn's `late` notes.
`RecordIntent` and `AcquireLocks` throw before the `try` that releases the locks, so
a refused call leaves its lock behind, in the code and in the model.

`RunGrant` and `RunGrantRefinement` - the abstract specification of what the two
modules above promise: the right to execute a Run is granted in numbered epochs,
to one executor at a time, and its work is claimed, finished or given back only
under the epoch that is granted at that moment. The refinement mapping reads the
epoch off the lease's generation, the owner off its live holder, and the work and
its claim off the continuation.

The other modules have one component each, with their own variables:

| Module | State | Actions and what they stand for |
|---|---|---|
| `ToolPermission` | `team` (Agents with policy, sandbox and worktree), `asked` | a delegation hands policy and sandbox down, a worktree is granted on a first turn, `authorizeTool` evaluates the layers; policies are data, evaluated by operators that follow `policies.ts` |
| `RunBudget` | `budget`, `usage`, entries by epoch, `turns` | a turn begins, uses tokens and tools, is charged once per epoch, is fenced or lost; the operator pauses and resumes, a limited Run by way of the queue |
| `ProviderTurn` | the kinds of the event log, `turn`, `wake`, `parked`, `aborted` | ask a candidate, fail over, answer, call tools; abort; `handleFailure`'s retry (after the jittered backoff or what the provider's `Retry-After` says), new epoch or park, from the count it reads off the log |
| `ToolRecovery` | `contract`, `call` | a tool runs, fails with an error of some source and signs, is classified and planned for |
| `CompletionGate` | `ledger`, `evidence`, `validations`, `attempts`, `work` | the requirement tools, the audit as read - await - propose, the re-check inside `proposeCompletion`, stagnation after each turn; two executors of which the older is fenced |
| `Checkpoints` | `files`, `refs`, `rows`, worktrees, `seat`, `ask` | number read, capture, ref, row as separate steps; provisioning as Git step and store step; the server's check, backup, clean, checkout and record |
| `CheckpointService` | `svc` (phase), `checkout`, `state`, `runtime`, `report`, `outcome` | the phases of `restore`, any of which fails, also half done (a runtime hook that throws may leave a runtime behind that `restore` does not know), and the steps of its rollback; any subset of the caller's hooks |
| `DaemonControl` | `proc`, `descriptor`, `cli` | the steps of `startDaemon`, `stopDaemon` and restart in two terminals; daemons boot, listen, drain, close, crash; a dead pid is reused |
| `AgentRuntime` | graph with both edge indexes, mailbox with its index, claims | every method of `AgentGraph`, `AgentMailbox` and `AgentSupervisor` that changes something, and a restart from the snapshot; receivers pass the id of their delivery or none, callers of `claim` may repeat an id |
| `ContextPlan` | the items of a turn, the plan | `fixedItems` and the dynamic ones as data, one `toPlanItem` per step in the planner's order, truncation included |
| `ProjectMemory` | `records` by scope and id | capture and promotion with redaction, merge and thresholds |
| `SemanticIndex` | status, generation, builds, fingerprints | `index` as start, stretches between yields, and end or give-up; `update`, `cancel`, `markUnavailable`; a compilation that indexes or not and searches |
| `EventStream` | `log`, `stream`, `pipe`, `follower`, `shown` | append, publish, keep-alive, reads that cut a frame, complete frames yielded one by one, history then stream, a stream that finishes or resets |
| `McpSupervisor` | `entry`, `conn`, `pass`, `turn` | spawn or dial, `initialize`, notification, calls, protocol errors, loss at any of these points, retry timers, two reconcile loops of which `main` awaits the first, disconnect, shutdown; a server may be silent for ever |
| `LspManager` | `client`, `cached`, `opened`, `caller` | spawn, handshake, open, diagnostics or their timeout, requests, loss, replacement, dispose |

`MC...` modules hold the request sets and the symmetry used by the `.cfg` files.
`MCClients`, `MCMission` and `MCHost` each check several components that share no
state: a variable `focus`, chosen at the start, says which of them a behaviour
moves, while the others keep one fixed initial state. So the states add up
instead of multiplying, every component is explored in full, and a property of
one component is checked exactly as in a run of its own. `MCTwoDaemons` (the scheduler
and the Task graph) and `MCOutside` (`MCClients` and the terminals' commands to
`DaemonControl`) put two sides next to each other in the same way, with a variable
`side`.

`...Proofs` modules hold the theorems (section 4) and extend the modules they are
about; the definitions in them are parts of inductive invariants and abbreviations
for the proofs.

Definitions whose comment begins "Mutant of" are wrong variants of the
definition that follows them; nothing uses them in the specification. They
record which fault each property catches.

## 3. Runs

| Run | Instance | Checks |
|---|---|---|
| `one_daemon` | one daemon and one Run with an approval, pause and two resumes, one crash or stop, one exception, one lapsed lease; or two Runs (pause and resume of the older, cancel of the newer) with two commands or faults, at most one of them a crash, an exception or a lost settle | `TypeOK`, `NoStrandedRun`, `WaitingHasWaker`, `NoOrphanedClaim`; live: `TimedWaitEnds`, `RunningRunIsServed` |
| `two_daemons` | two daemons, one Run, a takeover, a crash, an exception; or the turns of two daemons on a graph of two Tasks and one delegate, with a takeover | `ExclusiveGeneration`, refinement: `ImplementsGrant` (scheduler); `GraphTypeOK`, `RecoveredBeforeWork`, `DependenciesFirst`, `OneTaskPerAgent`, `AttemptsAreBounded` (graph) |
| `tool_calls` | two daemons, two Runs, three tools (a file, the folder it is in, no scope), three calls in all, one approval per Run, a ceiling of three calls | `TypeOK`, `ApprovalAuthorizesOnce`, `EffectsExclude`, `RunningCallIsExecuted` |
| `clients` | two MCP servers (one stdio, one HTTP), two reconcile loops and a turn, three faults; two callers of three language clients, one fault; three events, two attach commands; two terminals with three commands and two spawns | `ClientsTypeOK`, `CallsCanReturn`, `ServersAreSupervised`, `ShownWithoutGaps`; live: `ClientsSettle`, `FollowerCatchesUp`, `StopTakesEffect` |
| `mission` | the eight components of `MCMission` | `MissionTypeOK`; `SnapshotRestores`, `DeliveryIsOrderly` (agents); `NoCapabilityGained` (permissions); `EffectRunsOnce` (tool recovery); `OverspentTurnsAreResumed` (budget); `FailuresAreContained` (provider turn); `PlanFits` (context); `ProjectIsVetted` (memory); `IndexIsCurrent` (index) |
| `host` | the four components of `MCHost` | `HostTypeOK`; `CompletedIsJustified`, `CompletesOnAuditedLedger`, `EscalatesGradually` (gate); `CheckpointIsAsCaptured` (checkpoints); `OutcomeIsTrue` (restore) |

Each property has its meaning in the comment before it, and a mutant of the code
that breaks it in `PROJECT.json`.

Six more runs show where the code does not do what the repository says of it;
TLC prints the trace.

| Run | Property violated | What happens |
|---|---|---|
| `stale_listing` | `PauseSticks` | A queued Run is listed, paused while `tick` awaits another Run's turn, and then set running, since `transitionRun` accepts paused -> running. |
| `lost_wakeup` | `NoStrandedRun` | Another daemon restarts a Run whose claim is still there; the claim is then settled without requeue and the continuation is gone. |
| `worktree_restore` | `RestoreBringsFilesBack` | A delegate completes its Task in a worktree, which is what the checkpoint captures; the restore puts those files into the primary workspace. |
| `foreign_matches` | `MatchesAreOfWorkspace` | Two Runs alternate in two workspaces: a turn whose own files are unchanged does not index again and is shown code of the other workspace. |
| `retry_cap` | `RetriesAreCapped` | A Task in its last attempt is taken over; `recoverGraphWork` counts the attempt and offers the Task again. |
| `racing_starts` | `DescriptorNamesServer` | Of two racing starts the one whose child could not listen writes its child's pid beside the instance of the other's daemon. |

`NoStrandedRun` and `WaitingHasWaker` hold with one daemon and fail with two: a
daemon's own HTTP handlers cannot run between the two transactions in question,
another daemon's can.

**Bounds.** Every bound is a CONSTANT. `MaxGen` (leases lapse below it, so 2 gives
one takeover with the stale executor still at work), `MaxCrashes`, `MaxThrows`,
`MaxStoreFaults` (at most one of each, at any point), `MaxTimers` (two: a wake
scheduled while an older one is pending), `MAX_TASK_ATTEMPTS` = 2 instead of 5 (a
retry and then its end), one delegate in `two_daemons` (with the coordinator that is
two Agents competing for two Tasks), `MaxCalls` = 3 and `MaxToolCalls` = 3 (a Run
can make two calls, so on one approval too if the code let it, and its third is
refused). A fault is followed by unbounded behaviour of everything else; the
protocols compare only "older" with "current" generation, so a second takeover
repeats the first. Commands are a finite set of ids, each delivered any number of
times. In `clients`, two reconcile loops are one timer overtaking another, three
MCP faults spend `MaxAttempts` = 2 and leave one, and three language clients are
two replacements. In `mission`, three Agents make a chain with a grandchild, two
candidates a failover, four tool attempts and a threshold of three let either
limit come first, `Stride` = 1 makes every file a yield (32 in the code, with
larger workspaces), at most three changes of the graph in a behaviour with mail
(`MailChanges`), three epochs with one resume are a turn before, across and
after exhaustion. In `host`, one Run with one requirement and three turns gives
the audit, its overtaking and the turn after; three turns also make a full
escalation over one blocker; three checkpoint turns are a capture, a leaked ref
and the capture after it; two spawns and three commands are a start, a stop and a
start that races them, there and in `clients`. In `one_daemon`, the second Run comes
only while the first has met little (`FewEvents`): the steps this forbids are commands,
faults and outcomes of turns, none of which fairness asks for. `Retry-After` is shorter than the backoff,
longer than its cap, or absent. The problem threshold (3), the escalation thresholds, the
confidence thresholds and the status tables have the code's values.

**Deadlock** is checked in the runs over the daemon's own processes.
`clients`, `mission`, `host`, `racing_starts` and `foreign_matches` turn it off: their
components really end (a plan is finished, a tool is held for an operator, the commands are
all given, the daemon is closed).

**Symmetry** is used over daemons, executors, Runs or Agents where only safety is
checked and no property names one of them.

**Fairness** (`Fairness` of `RunScheduler`). Weak fairness of each daemon's scheduler: `start` polls with
an interval, and what is not an `await` of the outside goes on; of `Exit` once a
stopping daemon is idle; of timers; and of the expiry of a lease whose holder is
gone, since nobody renews it. That a turn ends is not assumed: no provider request,
command or MCP call has a timeout. A turn that never ends holds up the whole tick,
so `RunningRunIsServed` and `TimedWaitEnds` say what holds unless a turn of another
Run hangs.
Users, faults and the expiry of a live daemon's lease are not fair: nothing obliges
them. `one_daemon` has one daemon slot, whose process is replaced after a
crash.

In `clients` (`McpFairness`, `LspFairness`, `StreamFairness`): the reconcile timer
and loops, retry timers, the steps of a tool call and the timeout of its wait for
diagnostics, the stream's polling interval and the client's read loop go on, since
each is a timer or the continuation of a settled promise; a process starts or fails
to, and a pipe takes a notification. Servers need not answer: MCP requests and
language server requests have no timeout in the code. So `ClientsSettle` excuses what
a silent server itself owes, and the servers behind it only while `main` awaits the
first reconcile (which contradicts a comment: section 5).
That a server fails, a stream breaks or a client attaches is not fair.

For the terminals in `clients` (`CommandFairness`): the steps of a command that was
given, whose waits for a daemon are limited to 10 s (start, stop) and 5 s (after the
signal). Nothing is asked of the daemons, but `StopTakesEffect` has the hypothesis
`DaemonsDrain`, that a daemon told to stop closes in the end: `DurableDaemon.close`
waits for the turns in flight, and a turn that hangs keeps it on the port.

## 4. Proofs

Each theorem below holds for every set of daemons, Runs, Tasks, servers and so on
and for every bound. The pattern is the same throughout: an inductive invariant, a
lemma that the initial states satisfy it, lemmas that each action preserves it
(with lemmas about the operators the actions are built from), and the property
from the invariant. `PROJECT.json` lists the theorems.

**The scheduler over the store** (`RunSchedulerProofs`).

- `TypeCorrect`: `TypeOK`. One lemma per `RunStore` operator says that it maps rows
  to rows; one step per action then follows from these.
- `LeasesAreExclusive`: `ExclusiveGeneration` - however leases lapse, are taken over
  or are lost in crashes, no two daemons are inside `tickRun` for a Run with the
  same generation, so at most one passes the fence.
- `ClaimsAreNotOrphaned`: `NoOrphanedClaim` is invariant when no settle is lost to
  the database (`MaxStoreFaults = 0`). With one lost settle the catch branch of
  `tickRun` settles again (`one_daemon` shows that the Run is served); with two the
  claim is orphaned.
- `OneDaemonStrandsNoRun`, `OneDaemonWakesWaiters`: `NoStrandedRun` and
  `WaitingHasWaker`, when one daemon uses the database (`Alone`). That hypothesis is
  needed: `lost_wakeup` is the counterexample with two.

Neither `ExclusiveGeneration` nor `NoOrphanedClaim` is inductive. That two daemons
never share a generation says nothing about a generation the *lease row* is about
to hand out: the strengthening `LeaseInv` adds `OwnedGeneration` (a daemon inside
`tickRun` carries a generation not above the row's, and if equal it is the row's
holder) and `ClaimedGeneration` (a claim is never of a newer generation than the
row's lease). `AcquireLease` then either extends the holder's own generation or
makes one that is larger than all in use. The lemmas `Quiet...` state once what a
step away from lease and claim leaves alone, so that only acquire, claim, settle,
recover, expiry and the end of a process need arguments of their own. For one
daemon, `CareInv` adds to the two properties what the turn remembers between two
transactions: a settle about to drop the claim has seen a Run that needs no
continuation, and a turn about to wait for an approval has a pending one.

**The grant** (`RunGrantProofs`, extends the module above). `SchedulerImplementsGrant`:
`Spec => ImplementsGrant`. A step of the scheduler changes one Run's row or, at the
end of a process, several; on each row it is a `LeaseMove`, a `WorkMove` or no move of
`RunGrant`, and a step of `RunGrant` is a move of any number of Runs. The epoch rule
of the moves is where `LeaseInv` is needed: settle and recover compare the claim's
epoch with the generation the daemon carries, the abstract rule with the one that
is granted.

**The graph** (`TaskGraphProofs`): `GraphTypeCorrect`, `TakeoverRecovers`,
`WorkFollowsDependencies`, `AgentsOwnOneTask` and `AttemptsEnd`. `GraphInv` stamps everything that runs with a generation that
has been granted (`GenInv`), says that no two Tasks have the same owner and that an
owner is at work (`OwnerInv`), that what a turn read about its acting Agent still
holds when it writes (`ActingWorks`, `RetiredFree`), and that a Task never offered has
attempts left (`Fresh`; this needs `MAX_TASK_ATTEMPTS` >= 1), and that the attempts
above the cap are not more than the takeovers before the generation a Task was last
written under (`Attempts`). The reason why reads do not
go stale is one lemma: whatever writes the graph holds the lease, so two writers
are the same.

**The tool journal** (`ToolJournalProofs`): `JournalTypeCorrect`, `ApprovalIsUsedOnce`,
`OwnersExclude`, `JournalIsTrue`. `JournalIInv` says that a call of the current
generation in the journal is the one in its owner's hands and no older one is left
once the owner has recovered (`JournalInv`), that an owner about to record its intent or
at its effect has the locks of its tool while they last and that locks in conflict
are of one owner (`LockInv`), and that an approval named by a call is consumed
(`AuditInv`). Scopes and tools are any sets: nothing is needed of the conflict rule
but that it is symmetric.

**The completion gate** (`CompletionGateProofs`): `GateTypeCorrect`,
`CompletionIsJustified`, the action property `CompletionIsAudited`, and
`EscalationIsGradual`. `GateInv` rests on the lease: of the turns of one Run only the
latest may write, and a completion ends the turn that proposed it. So a completed
Run has no turn that may still write (`DoneInv`), what the latest turn audited is
still the ledger (`AuditInv`), and what comes after the judgement of an attempt changes
nothing it was made on, so that a reaction tells how the attempts up to it failed
(`HolderInv`, `JudgedInv`).

**What outlives a turn** (`HostProofs`). `RestoreTellsTheTruth`: each phase of `restore`
states what it relies on (`PhaseInv`), and the rollback report is never better than
what was achieved (`RollbackInv`) - of a runtime, one that its hook returned. `DaemonTypeCorrect` (two daemons never hold the
port) and `StopEndsItsTarget` (a command about to drop the descriptor has seen the
process named there end): beyond the types, that a pid known to a command or to
the descriptor was once a daemon's (`BornInv`), and that an ended process stays
ended whoever uses its pid. `CheckpointTypeCorrect` and `CheckpointsKeepFaith`: the
number a turn counted is still the next one while its lease lasts, and a ref that
is set is never set again (`SeatsInv`); that a capture is never the unset value
needs the rows as well, since a restore takes files from them (`FilesInv`, `RowsInv`).
`HostKeepsItsTypes`: with the gate's invariant these four are the invariant of the
composition `MCHost`, and give `HostTypeOK`.

**What a turn goes through** (`MissionProofs`).

- `EveryLateTurnWasResumed`, for a Run created with room in its budget: `Credit` keeps
  an account in which a resume pays for each turn begun under an exhausted budget.
  A limited Run is resumed into the queue and pays when it is resumed, not when the
  scheduler starts it. The hypothesis is needed: a Run whose budget is exhausted when it is created (a
  ceiling of zero, or no more than its reserves) runs one turn before the store
  looks.
- `ReadyIndexIsCurrent`: the build of the latest generation is of the snapshot
  requested last, and one that says "indexing" has somebody building it.
- `EffectsRunOnce`: a second run means that `decideToolRecovery` said retry, and that
  only for an effect that may be repeated; a failure that came back `Threshold` times
  is never classified as retryable, whichever rule of `classify` decides
  (`RepeatedIsFinal`).
- `ProjectMemoryIsVetted`: a merge keeps the larger confidence, so the bar of a scope
  outlives it, and finds the only record of its fact, so there stays one.
- `NoDelegateGains`: an Agent's policy and sandbox are the coordinator's, however deep
  it was delegated (`PermissionInv`). What its turn has besides, the root of its own
  worktree, lies apart from the workspace and from every other worktree, and a root
  that overlaps no part of a path changes no verdict about it (`JudgedAlikeOutside`).
  The second half rests on the intersection being no weaker than any of its layers.
- `FailuresStayContained`, an action property: failures and retries are both counted
  from the last sign of progress on, and a retry is only scheduled right after a
  failure was recorded, so the limit on the one bounds the other (`TurnInv`).
- `MailIsOrderly`: what was delivered has a positive count (`AcknowledgedWereDelivered`),
  so what is older than a message claimed for the first time is either cancelled or
  claimed with it; and a delivery id that is not repeated is the number of its
  delivery (`DeliveriesAreNamed`), so a receiver that passes one is refused once there
  was a later delivery.
- `SnapshotsRestore`: the two edge indexes list the same edges (`Parentage`), and every
  Agent has a depth below the number of Agents (the existential part of `GraphInv`: a
  spawn gives the child one more than its parent). By the depths the walk up from an
  Agent ends at a root within as many steps as `hasOpenAncestry` takes, and the walk
  down from that root meets the same edges in reverse.
- `PlanStaysInBudget`: what is shown of an item fits into what was left of the budget,
  the tokens used are the sum over the plan, what is shown once stays as it is
  (`BlockFits`, `SumGrows`, `SumStays`), and since the fixed items come first, what a
  fixed item was refused for is the fixed items alone (and what did not fit into a
  budget does not fit into a smaller one, `LessFitsLess`).
- `MissionKeepsItsTypes`: `MissionTypeOK` for the composition `MCMission`. Each component's
  own invariant gives its types; four had to be completed, of which the budget's is the
  one that needs an argument: `overspent` is bounded by the number of epochs because
  each overspent turn left a usage entry that no other turn has
  (`OverspentHasEntries`).

**What talks to the outside** (`ClientsProofs`).

- MCP servers: `ServersStaySupervised` and `NobodyWaitsInVain`. What happens to a server
  touches its entry and its connection together, so the invariant is on that pair of
  rows (`RowsInv`), and the waits of turns and reconcile loops are related to it
  (`WaitsInv`).
- `EveryWaitCanEnd`: `CallsCanReturn`, for MCP and language servers. A request that pends
  at a language server has a client past its handshake, so only a loss or a shutdown
  takes its connection; a loss rejects the request, and a shutdown begins when every
  call has returned.
- `EventsAreShownInOrder`: `ShownWithoutGaps`. The property says nothing of what is under
  way, so the invariant does: the reader's buffer and the pipe together hold, frame
  by frame, at most one keep-alive and then exactly the events that are published and
  not yet shown (`InFlight`).
- `ClientsKeepTheirTypes`: `ClientsTypeOK` for the composition `MCClients`.

**Recursion and folds.** The sum of a plan, the walks over the graph and the maximum
of a set are defined by recursion or choice, and the library's induction theorems
cannot be instantiated here. The arguments are made by least counterexample
instead: `CountUp` takes the first number a set misses (the naturals are well
founded, `WFMin`), and `IterationExists`, `SumsExist` and `LargestCut` follow from it.

**Assumptions.** Those named in the modules, which TLC evaluates for every instance:
bounds are naturals; Runs, Tasks, delegates and servers are numbers, so that "the
first" exists; requests and budgets are records of their shape; no daemon, Agent,
failure or id has the name of "nobody"; limits that the code has as positive
constants are positive (`MAX_TASK_ATTEMPTS`, `MaxToolAttempts`, `Stride`; `Threshold` at
least 2, being 3 in the code). In `PermissionAssumption` policies have the modes and
effects of the protocol and no two tools the same name (the registry throws on a
duplicate); in `ProviderTurn` there is a candidate to ask; token counts are naturals.
Three theorems have a hypothesis of their own, given above: `MaxStoreFaults = 0`,
`Alone`, and room in every budget.

**Only model-checked.**

- Liveness under fairness, which the prover does not do: `TimedWaitEnds`,
  `RunningRunIsServed`, `ClientsSettle`, `FollowerCatchesUp`, `StopTakesEffect`.
- What the code violates: `PauseSticks`, `RestoreBringsFilesBack`,
  `MatchesAreOfWorkspace`, `RetriesAreCapped`, `DescriptorNamesServer`, and
  `NoStrandedRun` with two daemons.

Every invariant and every action property that a passing run checks, and the
refinement, is also a theorem (`NoStrandedRun`, `WaitingHasWaker`, `NoOrphanedClaim` and
`OverspentTurnsAreResumed` under the hypotheses above).

## 5. What the models leave out, and what they show besides

Left out everywhere: decisions, artifacts, snapshots and milestones (no modelled
decision reads them), texts, ids and timestamps, lengths of delays. By module: in
`ToolJournal` wildcards in scopes (`EffectsExclude` excuses a tool that outlives its
locks, which last 15 minutes and are never renewed, and speaks of executors that
still hold their lease); in
`ToolPermission` the role and tool layers, which no caller passes; in `RunBudget`
metrics nobody charges; in `ContextPlan` how many tokens a text has; in
`SemanticIndex` chunking and ranking; in `McpSupervisor` and `LspManager` message
framing, what answers say, and which child processes stay behind when a connection
is given up; in `RunBudget` the age of the scheduler's listing, which `RunScheduler` has.

Not modelled: the OCF text format (`packages/context-format`), a character-level
encoding of recursive values with no state that two steps share; the three
provider wire formats, conversions of one message; the repository map's parsing
of source text; running commands, resolving paths and the file tools, which are
I/O; argument parsing and output of the CLI; `core/blockers.ts` and
`core/leases.ts`, which have no caller.

Four comments say more than the code does; the models follow the code, and the
properties say what is left:

- "This prevents two Runs from writing the same checkout concurrently while allowing
  separate repos." (`store.ts:2158-2159`): scopes of different kinds never conflict, so
  one Run may execute a command while another writes a file (`EffectsExclude`);
- "one broken server must not stop others" (`mcp.ts:889`): one that never answers
  `initialize` holds up the reconcile that `main` awaits, and the servers behind it are
  never connected (`SupervisionSettles`);
- "Mission-critical context that must never be dropped for budget reasons"
  (`context.ts:167`): a long Task takes the whole budget and the fixed items after it
  are left out (`PlanFits`);
- "Other executor failures become a fresh durable continuation for policy-level retry"
  (`scheduler.ts:207-208`): when a turn throws and the settle of the catch branch is lost
  to a busy database, the claim stays with a generation that its daemon keeps
  extending, and nobody recovers it (`RunningRunIsServed`).

Seen while modelling, without a run of their own (the weightiest are hazards in
`PROJECT.json`):

- an approval resolved by another daemon between the read and the write of
  `handleApprovalWait` leaves the Run waiting for a decision that was taken;
- `recordProblem` takes no lease, and problems of before a resume still count;
- a Run resumed after a block keeps its blocked goal and is never scheduled;
- a delegate whose turn failed after it completed its Task never reports back;
- a Run whose every turn throws keeps the Runs behind it in the list from being
  visited (`one_daemon` has one exception);
- turns that were cut off count towards a blocker without a replan or a fresh agent;
- a tool call refused by the budget keeps its lock, and a lock outlived by its
  tool excludes nobody;
- an acknowledgement without a delivery id, or with a repeated one, settles whatever
  delivery is the last;
- a runtime hook that throws half done is reported as disposed;
- a stop may signal a pid that was given to another program, and may remove the
  descriptor of a newer daemon;
- turns that are aborted, fail or stop for an approval are not charged;
- a context overflow requeues the Run without a bound;
- a validation that failed once blocks completion for good;
- a ref left behind by a crash makes the next checkpoint of its number fail.

## 6. Plan

1. OCF deltas: apply against diff over bounded values, as a run without state.
2. Wildcards in the scopes of `ToolJournal`, as matching of paths with patterns.
3. Compositions: the completion audit inside a turn of `RunScheduler`, and the
   budget of `RunBudget` in place of its one outcome there.
