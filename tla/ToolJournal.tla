----------------------------- MODULE ToolJournal -----------------------------
(***************************************************************************)
(* The durable envelope of a tool call: createDurableTools and             *)
(* authorizeTool of packages/runtime/src/coordinator.ts over the approval, *)
(* resource lock, budget and tool_calls transactions of                    *)
(* packages/control-plane/src/store.ts, for several Runs that share one    *)
(* checkout.                                                               *)
(*                                                                         *)
(* Grain.  A store transaction is one step; the effect of a tool is the    *)
(* time its executor spends at "effect", which has no limit.  A provider   *)
(* turn, wildcards in scopes and the recovery reserves of the budget are   *)
(* left out; the scheduler is BeginTurn (module RunScheduler).             *)
(***************************************************************************)
EXTENDS Integers, Sequences, FiniteSetsExt

CONSTANTS Executors,     \* executor ids of the daemons that are up
          Runs,
          Scopes,        \* resource scopes: a kind and a path in the checkout
          ToolCalls,     \* what a model may call: scopes and sideEffect
          GuardedCall,   \* the one of them the policy prompts for
          MaxToolCalls,  \* the budget of every Run
          MaxCalls,      \* bound: calls start below this many, of all Runs
          MaxApprovals,  \* bound: approvals requested by a Run
          MaxGen         \* bound: leases lapse below this sum of generations

ASSUME BoundsAssumption ==
  /\ MaxToolCalls \in Nat /\ MaxCalls \in Nat
  /\ MaxApprovals \in Nat /\ MaxGen \in Nat

ToolCall == [scopes : SUBSET Scopes, sideEffect : {"none", "workspace"}]

ASSUME ToolsAssumption == ToolCalls \subseteq ToolCall /\ GuardedCall \in ToolCalls

NoExecutor == "none"
NoTool     == [scopes |-> {}, sideEffect |-> "none"]

VARIABLES lease,      \* run_leases
          run,        \* status and usage.toolCalls of every Run
          approvals,  \* approvals with the tool's fingerprint, oldest first
          locks,      \* resource_locks
          calls,      \* tool_calls, oldest first
          turn        \* the turn each daemon is executing

db   == <<lease, run, approvals, locks, calls>>
vars == <<db, turn>>

CallRow == [status : {"absent", "running", "finished", "unknown_after_crash"},
            gen    : Nat,
            appr   : 0..MaxApprovals]       \* 0: none was needed
Lock    == [run : Runs, holder : Executors, gen : Nat, scope : Scopes]

Pc == {"idle", "recover", "work", "lock", "intent", "effect", "release",
       "park"}

TurnRow == [pc      : Pc,
            run     : Runs \cup {NoExecutor},
            gen     : Nat,
            tool    : ToolCall,         \* the tool being called...
            late    : BOOLEAN,          \* ... for longer than its locks last
            appr    : 0..MaxApprovals,  \* what authorizeTool returned
            call    : 0..MaxCalls,      \* what recordToolIntent returned
            aborted : BOOLEAN]          \* the turn's AbortSignal

NoCall == [status |-> "absent", gen |-> 0, appr |-> 0]
Idle   == [pc |-> "idle", run |-> NoExecutor, gen |-> 0, tool |-> NoTool,
           late |-> FALSE, appr |-> 0, call |-> 0, aborted |-> FALSE]

Init ==
  /\ lease = [r \in Runs |-> [holder |-> NoExecutor, gen |-> 0,
                              live |-> FALSE]]
  /\ run = [r \in Runs |-> [status |-> "running", usage |-> 0]]
  /\ approvals = [r \in Runs |-> [i \in 1..MaxApprovals |-> "absent"]]
  /\ locks = {}
  /\ calls = [r \in Runs |-> [i \in 1..MaxCalls |-> NoCall]]
  /\ turn = [d \in Executors |-> Idle]
-----------------------------------------------------------------------------
Cur(d) == turn[d].run

(* assertLeaseInternal *)
Holds(d) ==
  /\ turn[d].pc # "idle"
  /\ lease[Cur(d)] = [holder |-> d, gen |-> turn[d].gen, live |-> TRUE]

At(d, p)      == turn[d].pc = p
Become(d, t)  == turn' = [turn EXCEPT ![d] = t]
Goto(d, p)    == Become(d, [turn[d] EXCEPT !.pc = p])
SetRun(r, to) == run' = [run EXCEPT ![r].status = to]

(* The tool call is over, or its error is handed to the model. *)
BackToModel(d) ==
  Become(d, [turn[d] EXCEPT !.pc = "work", !.tool = NoTool, !.late = FALSE,
                            !.appr = 0, !.call = 0])

First(S) == CHOOSE i \in S : \A j \in S : i <= j
Last(S)  == CHOOSE i \in S : \A j \in S : j <= i

FreeCalls(r) == {i \in 1..MaxCalls : calls[r][i].status = "absent"}
Started(r)   == MaxCalls - Cardinality(FreeCalls(r))
Requested(r) == {i \in 1..MaxApprovals : approvals[r][i] # "absent"}
-----------------------------------------------------------------------------
(* tickRun: acquireLease for a runnable Run *)
BeginTurn(d, r) ==
  /\ At(d, "idle") /\ run[r].status = "running"
  /\ lease[r].live => lease[r].holder = d
  /\ LET g == IF lease[r].live THEN lease[r].gen ELSE lease[r].gen + 1
     IN  /\ lease' = [lease EXCEPT ![r] = [holder |-> d, gen |-> g,
                                           live |-> TRUE]]
         /\ Become(d, [Idle EXCEPT !.pc = "recover", !.run = r, !.gen = g])
  /\ UNCHANGED <<run, approvals, locks, calls>>

(* Mutant of RecoverCalls: the predecessor's calls stay running. *)
RecoverNothing(d) ==
  /\ At(d, "recover") /\ Holds(d)
  /\ Goto(d, "work")
  /\ UNCHANGED db

(* tickRun: recoverClaimedWork *)
RecoverCalls(d) ==
  /\ At(d, "recover") /\ Holds(d)
  /\ calls' = [calls EXCEPT ![Cur(d)] =
       [i \in 1..MaxCalls |->
          IF @[i].status = "running" /\ @[i].gen < turn[d].gen
          THEN [@[i] EXCEPT !.status = "unknown_after_crash"]
          ELSE @[i]]]
  /\ Goto(d, "work")
  /\ UNCHANGED <<lease, run, approvals, locks>>

(* The turn ends: it ran to its end, was aborted, or lost its lease. *)
EndTurn(d) ==
  /\ \/ At(d, "work")
     \/ At(d, "recover") /\ ~Holds(d)
  /\ Become(d, Idle)
  /\ UNCHANGED db
-----------------------------------------------------------------------------
(* The execute of a durable tool.  An error that reaches the model, the    *)
(* loss of the lease included, leaves the turn at work.                    *)

(* AgentTurnEngine.run: throwIfAborted before every call.  The bound on    *)
(* all Runs leaves this one a free row, which is said for the proofs.      *)
MayCall(d) ==
  /\ At(d, "work") /\ ~turn[d].aborted
  /\ FreeCalls(Cur(d)) # {} /\ MapThenSumSet(Started, Runs) < MaxCalls

(* A tool without scopes takes no locks and releases none. *)
Authorized(d, tool, a) ==
  Become(d, [turn[d] EXCEPT
               !.pc = IF tool.scopes = {} THEN "intent" ELSE "lock",
               !.tool = tool, !.appr = a])

(* authorizeTool, the policy allows the tool *)
CallAllowedTool(d, tool) ==
  /\ MayCall(d) /\ tool # GuardedCall
  /\ Authorized(d, tool, 0)
  /\ UNCHANGED db

(* authorizeTool, the policy prompts: the latest matching approval decides; *)
(* without one, or once it is consumed, another is requested.              *)
CallGuardedTool(d) ==
  LET r == Cur(d)
      latest == IF Requested(r) = {} THEN "consumed"
                ELSE approvals[r][Last(Requested(r))]
  IN  /\ MayCall(d)
      /\ \/ /\ latest = "approved"
            /\ Authorized(d, GuardedCall, Last(Requested(r)))
            /\ UNCHANGED approvals
         \/ /\ latest = "pending"
            /\ Goto(d, "park") /\ UNCHANGED approvals
         \/ /\ latest = "consumed" /\ Holds(d)
            /\ Requested(r) # 1..MaxApprovals
            /\ approvals' = [approvals EXCEPT
                 ![r][First(1..MaxApprovals \ Requested(r))] = "pending"]
            /\ Goto(d, "park")
      /\ UNCHANGED <<lease, run, locks, calls>>

(* handleApprovalWait; module RunScheduler has its read and its write as   *)
(* two steps.                                                              *)
AwaitApproval(d) ==
  LET r == Cur(d)
  IN  /\ At(d, "park")
      /\ IF /\ Holds(d) /\ run[r].status = "running"
            /\ approvals[r][Last(Requested(r))] = "pending"
         THEN SetRun(r, "waiting_external")
         ELSE UNCHANGED run
      /\ Become(d, Idle)
      /\ UNCHANGED <<lease, approvals, locks, calls>>

(* resourceIdentifiersOverlap and resourceScopesConflict.  All locks are   *)
(* for writing (runtimeScope); scopes of different kinds never conflict.   *)
Within(path, dir) ==
  Len(dir) <= Len(path) /\ SubSeq(path, 1, Len(dir)) = dir

Overlap(s, t) ==
  \/ s.path = t.path
  \/ s.kind = "file" /\ (Within(s.path, t.path) \/ Within(t.path, s.path))

Conflict(s, t) == s.kind = t.kind /\ Overlap(s, t)

(* The locks of a turn's lease, and the ones its tool asks for *)
OwnLocks(d) ==
  {l \in locks : l.run = Cur(d) /\ l.holder = d /\ l.gen = turn[d].gen}
Wanted(d) ==
  {[run |-> Cur(d), holder |-> d, gen |-> turn[d].gen, scope |-> s] :
     s \in turn[d].tool.scopes}

(* Mutant of AcquireLocks: the locks of every other lease are thought to   *)
(* be stranded.                                                            *)
AcquireLocksAnyway(d) ==
  /\ At(d, "lock")
  /\ IF Holds(d)
     THEN locks' = OwnLocks(d) \cup Wanted(d) /\ Goto(d, "intent")
     ELSE BackToModel(d) /\ UNCHANGED locks
  /\ UNCHANGED <<lease, run, approvals, calls>>

(* acquireResourceLocks: drop the Run's locks of older generations, refuse *)
(* while another lease has a lock in conflict.                             *)
AcquireLocks(d) ==
  LET left == {l \in locks : ~(l.run = Cur(d) /\ l.gen < turn[d].gen)}
  IN  /\ At(d, "lock")
      /\ IF /\ Holds(d)
            /\ \A l \in left \ OwnLocks(d), s \in turn[d].tool.scopes :
                 ~Conflict(s, l.scope)
         THEN locks' = left \cup Wanted(d) /\ Goto(d, "intent")
         ELSE BackToModel(d) /\ UNCHANGED locks
      /\ UNCHANGED <<lease, run, approvals, calls>>

(* Mutant of Charged: the limit is misspelt. *)
ChargedMisspelt(row) ==
  [usage  |-> IF row.usage < MaxToolCalls THEN row.usage + 1 ELSE row.usage,
   status |-> IF row.usage + 1 >= MaxToolCalls /\ row.status = "running"
              THEN "limited" ELSE row.status]

(* recordUsageInternal: one more tool call, counted up to the ceiling; a   *)
(* running Run that reaches it is limited.                                 *)
Charged(row) ==
  LET usage == IF row.usage < MaxToolCalls THEN row.usage + 1 ELSE row.usage
  IN  [usage  |-> usage,
       status |-> IF usage >= MaxToolCalls /\ row.status = "running"
                  THEN "budget_limited" ELSE row.status]

(* Whether recordToolIntent keeps the charge and refuses the call *)
BudgetRefuses(r) == Charged(run[r]).status = "budget_limited"

(* Mutant of Consumed: the approval stays approved. *)
ConsumedNot(r, a) == approvals[r]

(* The approvals of a Run once one of them has authorized a call *)
Consumed(r, a) ==
  IF a = 0 THEN approvals[r] ELSE [approvals[r] EXCEPT ![a] = "consumed"]

(* recordToolIntent.  A fenced call and an approval that is no longer      *)
(* approved roll everything back, a refused call has been charged; none of *)
(* the three gives its lock back.                                          *)
RecordIntent(d) ==
  LET r == Cur(d)
      i == First(FreeCalls(r))
      a == turn[d].appr
      authorized == a = 0 \/ approvals[r][a] = "approved"
  IN  /\ At(d, "intent")
      /\ IF Holds(d) /\ (BudgetRefuses(r) \/ authorized)
         THEN run' = [run EXCEPT ![r] = Charged(@)]
         ELSE UNCHANGED run
      /\ IF Holds(d) /\ ~BudgetRefuses(r) /\ authorized
         THEN /\ calls' = [calls EXCEPT ![r][i] =
                   [status |-> "running", gen |-> turn[d].gen, appr |-> a]]
              /\ approvals' = [approvals EXCEPT ![r] = Consumed(r, a)]
              /\ Become(d, [turn[d] EXCEPT !.pc = "effect", !.call = i])
         ELSE BackToModel(d) /\ UNCHANGED <<approvals, calls>>
      /\ UNCHANGED <<lease, locks>>

(* The effect is over, well or not: completeToolCall, which a stale        *)
(* executor tries twice in vain...                                         *)
CompleteCall(d) ==
  /\ At(d, "effect")
  /\ IF Holds(d)
     THEN calls' = [calls EXCEPT ![Cur(d)][turn[d].call].status = "finished"]
     ELSE UNCHANGED calls
  /\ IF turn[d].tool.scopes = {} THEN BackToModel(d) ELSE Goto(d, "release")
  /\ UNCHANGED <<lease, run, approvals, locks>>

(* ... and, fenced or not, releaseResourceLocks.                           *)
ReleaseLocks(d) ==
  /\ At(d, "release")
  /\ locks' = locks \ OwnLocks(d)
  /\ BackToModel(d)
  /\ UNCHANGED <<lease, run, approvals, calls>>
-----------------------------------------------------------------------------
(* Users, through any daemon that is parked on a real await *)
Awaits(d) == turn[d].pc \in {"idle", "work", "effect"}

(* executeCommand pause, then abortRun of this daemon's own turn *)
Pause(d, r) ==
  /\ Awaits(d) /\ run[r].status \in {"running", "waiting_external"}
  /\ SetRun(r, "paused")
  /\ IF ~At(d, "idle") /\ Cur(d) = r
     THEN Become(d, [turn[d] EXCEPT !.aborted = TRUE])
     ELSE UNCHANGED turn
  /\ UNCHANGED <<lease, approvals, locks, calls>>

(* executeCommand resume; a limited Run passes through queued *)
Resume(r) ==
  /\ run[r].status # "running"
  /\ SetRun(r, "running")
  /\ UNCHANGED <<lease, approvals, locks, calls, turn>>

(* resolveApproval; there is one pending approval at most *)
Decide(r, i, verdict) ==
  /\ approvals[r][i] = "pending"
  /\ approvals' = [approvals EXCEPT ![r][i] = verdict]
  /\ IF run[r].status = "waiting_external"
     THEN SetRun(r, "running")
     ELSE UNCHANGED run
  /\ UNCHANGED <<lease, locks, calls, turn>>

Generation(r) == lease[r].gen

(* A lease runs out under a daemon that stalls or has crashed. *)
LeaseLapses(r) ==
  /\ lease[r].live /\ MapThenSumSet(Generation, Runs) < MaxGen
  /\ lease' = [lease EXCEPT ![r].live = FALSE]
  /\ UNCHANGED <<run, approvals, locks, calls, turn>>

(* The process ends once its lease has lapsed, and another takes its place *)
(* in Executors: its turn is gone, its rows stay.                          *)
Crash(d) ==
  /\ turn[d].pc \in {"lock", "intent", "effect", "release"} /\ ~Holds(d)
  /\ Become(d, Idle)
  /\ UNCHANGED db

(* The TTL of a lock passes, and the next acquireResourceLocks deletes it. *)
(* Nobody renews it while its tool runs.                                   *)
LockExpires(l) ==
  /\ locks' = locks \ {l}
  /\ turn' = [d \in Executors |->
       IF turn[d].pc \in {"intent", "effect", "release"} /\ l \in Wanted(d)
       THEN [turn[d] EXCEPT !.late = TRUE]
       ELSE turn[d]]
  /\ UNCHANGED <<lease, run, approvals, calls>>
-----------------------------------------------------------------------------
Tool(d) ==
  \/ \E c \in ToolCalls : CallAllowedTool(d, c)
  \/ CallGuardedTool(d) \/ AwaitApproval(d)
  \/ AcquireLocks(d) \/ RecordIntent(d) \/ CompleteCall(d) \/ ReleaseLocks(d)

User ==
  \/ \E d \in Executors, r \in Runs : Pause(d, r)
  \/ \E r \in Runs : Resume(r)
  \/ \E r \in Runs, i \in 1..MaxApprovals, v \in {"approved", "rejected"} :
       Decide(r, i, v)

Next ==
  \/ \E d \in Executors : \/ \E r \in Runs : BeginTurn(d, r)
                          \/ RecoverCalls(d) \/ EndTurn(d)
                          \/ Tool(d) \/ Crash(d)
  \/ User
  \/ \E r \in Runs : LeaseLapses(r)
  \/ \E l \in locks : LockExpires(l)

Spec == Init /\ [][Next]_vars
-----------------------------------------------------------------------------
(* Type invariant of the tables and the turns. *)
TypeOK ==
  /\ lease \in [Runs -> [holder : Executors \cup {NoExecutor}, gen : Nat,
                         live : BOOLEAN]]
  /\ run \in [Runs -> [status : {"running", "waiting_external", "paused",
                                 "budget_limited"},
                       usage : 0..MaxToolCalls]]
  /\ approvals \in [Runs -> [1..MaxApprovals ->
       {"absent", "pending", "approved", "rejected", "consumed"}]]
  /\ locks \subseteq Lock
  /\ calls \in [Runs -> [1..MaxCalls -> CallRow]]
  /\ turn \in [Executors -> TurnRow]

(* An approval authorizes one tool call: no two rows of the journal rest   *)
(* on the same approval, through takeovers and retried turns               *)
(* (coordinator.ts authorizeTool, store.ts recordToolIntent).              *)
ApprovalAuthorizesOnce ==
  \A r \in Runs : \A i, j \in 1..MaxCalls :
    (i # j /\ calls[r][i].appr # 0) => calls[r][i].appr # calls[r][j].appr

(* Two tools whose scopes conflict never run at the same time under leases *)
(* that both still hold (store.ts acquireResourceLocks), whatever locks    *)
(* earlier calls, crashes and takeovers left behind, unless one of them    *)
(* has been running for longer than its locks last.  This is less than     *)
(* "prevents two Runs from writing the same checkout concurrently"         *)
(* (store.ts:2158-2159): scopes of different kinds never conflict, so that *)
(* execute_command of one Run may write beside write_file of another.      *)
EffectsExclude ==
  \A d, e \in Executors :
    (/\ d # e /\ At(d, "effect") /\ At(e, "effect") /\ Holds(d) /\ Holds(e)
     /\ \E s \in turn[d].tool.scopes, t \in turn[e].tool.scopes :
          Conflict(s, t))
    => turn[d].late \/ turn[e].late

(* A call that the journal shows as running under a live lease is being    *)
(* executed by the lease's holder: what a lost executor left is declared   *)
(* unknown before its successor calls a tool (store.ts recoverClaimedWork).*)
RunningCallIsExecuted ==
  \A d \in Executors :
    (Holds(d) /\ ~At(d, "recover")) =>
      \A i \in 1..MaxCalls :
        calls[Cur(d)][i].status = "running"
        => (turn[d].pc = "effect" /\ turn[d].call = i)
=============================================================================
