-------------------------- MODULE CheckpointService --------------------------
(***************************************************************************)
(* CheckpointService.restore and create (packages/recovery/src/checkpoint. *)
(* ts): the workspace and the durable Run state are restored together, and *)
(* a failure of any phase is answered by a rollback whose report tells the *)
(* caller what it achieved.  The caller supplies any subset of the hooks   *)
(* of RestoreLifecycle; every hook and every Git operation may fail, and   *)
(* one that changes something may fail half done.  One service instance    *)
(* restores one checkpoint at a time.                                      *)
(***************************************************************************)
EXTENDS Integers

CONSTANT MaxCalls   \* bound: calls of restore and create

ASSUME ServiceAssumption == MaxCalls \in Nat

HookNames == {"capture", "restore", "undo", "runtime", "validate", "dispose"}
(* What the workspace and the Run state hold, seen from the call under way *)
Held == {"before", "checkpoint", "partial"}

VARIABLES hooks,     \* the hooks of the caller
          svc,       \* restore: the phase it is in
          checkout,      \* the workspace
          state,     \* the durable Run state
          runtime,   \* the resumed runtime; "stray": of a hook that threw
          report,    \* what the rollback has achieved
          outcome,   \* what the last call returned
          leaked,    \* private refs no metadata names
          calls

svcVars == <<hooks, svc, checkout, state, runtime, report, outcome, leaked, calls>>

NoReport == [workspace |-> TRUE, state |-> TRUE, runtime |-> TRUE]

SvcTypeOK ==
  /\ hooks \subseteq HookNames
  /\ svc \in {"idle", "prepare", "snapshot", "apply", "runState", "resume",
              "validate", "dispose", "undoWork", "undoState", "report"}
  /\ checkout \in Held /\ state \in Held
  /\ runtime \in {"none", "stray", "live", "disposed"}
  /\ report \in [workspace : BOOLEAN, state : BOOLEAN, runtime : BOOLEAN]
  /\ outcome \in {"none", "restored", "preparation_failed", "rolled_back",
                  "rollback_failed", "created", "not_created"}
  /\ leaked \in 0 .. MaxCalls /\ calls \in 0 .. MaxCalls

SvcInit ==
  /\ hooks = {} /\ svc = "idle" /\ outcome = "none"
  /\ checkout = "before" /\ state = "before" /\ runtime = "none"
  /\ report = NoReport /\ leaked = 0 /\ calls = 0

(* create: when the metadata cannot be saved the new ref is deleted again *)
CreateCheckpoint ==
  /\ svc = "idle" /\ calls < MaxCalls
  /\ calls' = calls + 1
  /\ \/ outcome' = "created" /\ leaked' = leaked
     \/ outcome' = "not_created" /\ leaked' \in {leaked, leaked + 1}
  /\ UNCHANGED <<hooks, svc, checkout, state, runtime, report>>

(* restore: a second call throws while one is in progress *)
Restore(given) ==
  /\ svc = "idle" /\ calls < MaxCalls
  /\ calls' = calls + 1
  /\ hooks' = given /\ svc' = "prepare"
  /\ checkout' = "before" /\ state' = "before" /\ runtime' = "none"
  /\ report' = NoReport /\ outcome' = "none"
  /\ UNCHANGED leaked

Return(result) ==
  /\ svc' = "idle" /\ outcome' = result
  /\ UNCHANGED <<hooks, checkout, state, runtime, report, leaked, calls>>

(* The workspace or the metadata does not match, or a preparation fails *)
PreparationFails ==
  /\ svc \in {"prepare", "snapshot"}
  /\ Return("preparation_failed")

(* capturePreRestoreState, then the pre-restore snapshot under its own ref *)
Prepare ==
  /\ svc = "prepare" /\ svc' = "snapshot"
  /\ UNCHANGED <<hooks, checkout, state, runtime, report, outcome, leaked, calls>>
Snapshot ==
  /\ svc = "snapshot" /\ svc' = "apply"
  /\ UNCHANGED <<hooks, checkout, state, runtime, report, outcome, leaked, calls>>

(* Mutant of Fail: the Run state is taken to be as it was. *)
MutantFail(attempted) ==
  /\ svc' = "dispose"
  /\ report' = [workspace |-> TRUE, state |-> TRUE, runtime |-> runtime = "none"]

(* Where a failure of the restore goes: the runtime first, then Git, then   *)
(* the Run state if its restore was attempted                              *)
Fail(attempted) ==
  /\ svc' = "dispose"
  /\ report' = [workspace |-> TRUE, state |-> ~attempted, runtime |-> runtime = "none"]

ApplyWorkspace ==
  /\ svc = "apply"
  /\ \/ checkout' = "checkpoint" /\ svc' = "runState" /\ UNCHANGED report
     \/ checkout' \in Held /\ Fail(FALSE)
  /\ UNCHANGED <<hooks, state, runtime, outcome, leaked, calls>>

RestoreRunState ==
  /\ svc = "runState"
  /\ IF "restore" \in hooks
     THEN \/ state' = "checkpoint" /\ svc' = "resume" /\ UNCHANGED report
          \/ state' \in Held /\ Fail(TRUE)
     ELSE svc' = "resume" /\ UNCHANGED <<state, report>>
  /\ UNCHANGED <<hooks, checkout, runtime, outcome, leaked, calls>>

(* The hook may throw with a runtime half started: restore has no handle on *)
(* it and goes on as if there were none                                    *)
CreateRuntime ==
  /\ svc = "resume"
  /\ \/ /\ runtime' = IF "runtime" \in hooks THEN "live" ELSE runtime
        /\ svc' = "validate" /\ UNCHANGED report
     \/ /\ "runtime" \in hooks /\ Fail("restore" \in hooks)
        /\ runtime' \in {"none", "stray"}
  /\ UNCHANGED <<hooks, checkout, state, outcome, leaked, calls>>

ValidateRestored == svc = "validate" /\ Return("restored")
ValidationFails ==
  /\ svc = "validate" /\ "validate" \in hooks
  /\ Fail("restore" \in hooks)
  /\ UNCHANGED <<hooks, checkout, state, runtime, outcome, leaked, calls>>

-----------------------------------------------------------------------------
(* The rollback: every phase is tried, whatever became of the one before *)
DisposeRuntime ==
  /\ svc = "dispose" /\ svc' = "undoWork"
  /\ \/ /\ runtime = "live" /\ "dispose" \in hooks
        /\ runtime' = "disposed" /\ report' = [report EXCEPT !.runtime = TRUE]
     \/ UNCHANGED <<runtime, report>>
  /\ UNCHANGED <<hooks, checkout, state, outcome, leaked, calls>>

UndoWorkspace ==
  /\ svc = "undoWork" /\ svc' = "undoState"
  /\ \/ checkout' = "before" /\ UNCHANGED report
     \/ checkout' \in Held /\ report' = [report EXCEPT !.workspace = FALSE]
  /\ UNCHANGED <<hooks, state, runtime, outcome, leaked, calls>>

(* Only with both a captured state and a hook to put it back *)
UndoRunState ==
  /\ svc = "undoState" /\ svc' = "report"
  /\ IF ~report.state /\ {"capture", "undo"} \subseteq hooks
     THEN \/ state' = "before" /\ report' = [report EXCEPT !.state = TRUE]
          \/ state' \in Held /\ UNCHANGED report
     ELSE UNCHANGED <<state, report>>
  /\ UNCHANGED <<hooks, checkout, runtime, outcome, leaked, calls>>

ReportRollback ==
  /\ svc = "report"
  /\ Return(IF report = NoReport THEN "rolled_back" ELSE "rollback_failed")

SvcNext ==
  \/ CreateCheckpoint
  \/ \E given \in SUBSET HookNames : Restore(given)
  \/ PreparationFails \/ Prepare \/ Snapshot
  \/ ApplyWorkspace \/ RestoreRunState \/ CreateRuntime
  \/ ValidateRestored \/ ValidationFails
  \/ DisposeRuntime \/ UndoWorkspace \/ UndoRunState \/ ReportRollback

SvcSpec == SvcInit /\ [][SvcNext]_svcVars

-----------------------------------------------------------------------------
(* The caller need not guess: whatever phase failed, and however far it    *)
(* got, the outcome restore returns is true of the workspace, of the Run   *)
(* state and of the runtime a hook handed to it.  (A runtime that its hook *)
(* left half started is unknown to restore, which reports it disposed.)    *)
OutcomeIsTrue ==
  /\ outcome = "restored" =>
       /\ checkout = "checkpoint"
       /\ state = IF "restore" \in hooks THEN "checkpoint" ELSE "before"
  /\ outcome \in {"preparation_failed", "rolled_back"} =>
       checkout = "before" /\ state = "before" /\ runtime # "live"
  /\ outcome = "rollback_failed" =>
       ~report.workspace \/ ~report.state \/ runtime = "live"
=============================================================================
