---------------------------- MODULE ToolRecovery ----------------------------
(***************************************************************************)
(* Whether a failed tool call may be tried again: the failure classes and  *)
(* the recovery plan of packages/recovery over the tool contract rule of   *)
(* packages/core.  The caller that runs, fails, asks and runs again is     *)
(* external: it keeps the number of attempts it made and how often the     *)
(* same failure came back, as the interfaces of the package ask it to.     *)
(*                                                                         *)
(* An error is its source and the signs in it that classify() looks for: a *)
(* status code, an error code and the phrases that stand for the same      *)
(* cause are one sign.                                                     *)
(***************************************************************************)
EXTENDS Integers, Sequences, FiniteSetsExt

CONSTANTS ErrorTexts,       \* sets of signs an error may carry
          MaxToolAttempts,  \* ToolRecoveryPlanOptions.maxAttempts
          Threshold         \* repeatedFailureThreshold

ASSUME RecoveryAssumption ==
  MaxToolAttempts \in Nat \ {0} /\ Threshold \in Nat \ {0, 1}

VARIABLES contract,  \* the definition of the tool
          call       \* the calls made of it: how often it ran, how it last failed

recoveryVars == <<contract, call>>

Sources == {"provider", "tool", "daemon", "git", "runtime", "external", "budget", "unknown"}
Contracts == [effect : {"none", "workspace", "external", "destructive"},
              idempotency : {"safe", "conditional", "unsafe"},
              recovery : {"retry", "reconcile", "manual"}]
Errors == [source : Sources, signs : ErrorTexts]
NoError == [source |-> "unknown", signs |-> {}]

RecoveryTypeOK ==
  /\ contract \in Contracts
  /\ call.stage \in {"running", "failed", "done", "held"}
  /\ call.ran \in 1 .. MaxToolAttempts + 1
  /\ call.error \in Errors \cup {NoError}
  /\ call.same \in Nat

-----------------------------------------------------------------------------
(* Mutant of DecideToolRecovery: the declared strategy is believed. *)
MutantDecideToolRecovery(tool) == tool.recovery

DecideToolRecovery(tool) ==
  CASE tool.recovery \in {"manual", "reconcile"} -> tool.recovery
    [] tool.recovery = "retry" /\ tool.effect = "external" -> "reconcile"
    [] tool.recovery = "retry" /\ tool.effect = "destructive" -> "manual"
    [] OTHER -> CASE tool.idempotency = "safe" -> "retry"
                  [] tool.idempotency = "conditional" -> "reconcile"
                  [] tool.idempotency = "unsafe" -> "manual"

ValidToolDefinition(tool) ==
  tool.recovery = "retry" =>
    tool.idempotency = "safe" /\ tool.effect \in {"none", "workspace"}

Class(errors, kind, retryable, actions) ==
  [errors |-> errors, kind |-> kind, retryable |-> retryable, actions |-> actions]

Signed(sign) == {e \in Errors : sign \in e.signs}
From(source) == {e \in Errors : e.source = source}

(* The tests of classify() before the one that counts equal failures *)
SettledClasses ==
  << Class(From("budget") \cup Signed("budget"), "budget_exhausted", FALSE, {"budget_limited"}),
     Class(From("external") \cup Signed("pending"), "external_pending", FALSE,
           {"waiting_external"}) >>

(* and those after it, in their order *)
ProviderClasses ==
  << Class(Signed("rate"), "rate_limited", TRUE, {"wait", "alternate_provider"}),
     Class(Signed("context"), "context_exhausted", FALSE,
           {"compact_context", "new_session_epoch"}),
     Class(Signed("model"), "model_unavailable", TRUE, {"switch_model"}) >>

RuntimeClasses ==
  << Class(From("daemon") \cup Signed("crash"), "daemon_crash", FALSE,
           {"takeover_lease", "resume_checkpoint"}),
     Class(From("git") \cup Signed("conflict"), "git_conflict", FALSE,
           {"resolve_git_conflict"}),
     Class(Signed("timeout"), "provider_timeout", TRUE, {"retry", "alternate_provider"}) >>

ToolClasses ==
  << Class(From("tool") \cap Signed("invalid"), "tool_deterministic", FALSE, {"debug_tool"}),
     Class(From("tool") \cap Signed("transient"), "tool_transient", TRUE, {"retry"}),
     Class(From("tool"), "tool_deterministic", FALSE, {"debug_tool"}),
     Class(Errors, "unknown", FALSE, {"manual_review"}) >>

FirstClass(classes, error) ==
  classes[Min({i \in DOMAIN classes : error \in classes[i].errors})]

Classify(error, same) ==
  LET repeated == IF same >= Threshold
                  THEN << Class(Errors, "repeated_failure", FALSE, {"replan", "fresh_debugger"}) >>
                  ELSE << >>
  IN FirstClass(SettledClasses \o repeated \o ProviderClasses \o RuntimeClasses
                  \o ToolClasses, error)

(* mayRetryNow of planToolRecovery *)
MayRetryTool(tool, failure, attempts) ==
  /\ DecideToolRecovery(tool) = "retry"
  /\ failure.retryable
  /\ "retry" \in failure.actions
  /\ attempts < MaxToolAttempts

-----------------------------------------------------------------------------
RecoveryInit ==
  /\ contract \in Contracts
  /\ call = [stage |-> "running", ran |-> 1, error |-> NoError, same |-> 0]

Succeed ==
  /\ call.stage = "running"
  /\ call' = [call EXCEPT !.stage = "done"]
  /\ UNCHANGED contract

(* External: the attempt fails, and its effect may or may not be there *)
FailAttempt(error) ==
  /\ call.stage = "running"
  /\ call' = [call EXCEPT !.stage = "failed", !.error = error,
                          !.same = IF error = call.error THEN @ + 1 ELSE 1]
  /\ UNCHANGED contract

PlanToolRecovery ==
  /\ call.stage = "failed"
  /\ call' = IF MayRetryTool(contract, Classify(call.error, call.same), call.ran)
             THEN [call EXCEPT !.stage = "running", !.ran = @ + 1]
             ELSE [call EXCEPT !.stage = "held"]
  /\ UNCHANGED contract

RecoveryNext ==
  \/ Succeed
  \/ \E error \in Errors : FailAttempt(error)
  \/ PlanToolRecovery

RecoverySpec == RecoveryInit /\ [][RecoveryNext]_recoveryVars

-----------------------------------------------------------------------------
(* Whatever its contract declares and however transient its failures look, *)
(* a tool with an outside or destructive effect, or one that is not safe   *)
(* to repeat, runs once; no tool runs more often than the limit, nor again *)
(* after the same failure came back Threshold times.  A contract that      *)
(* registration accepts gets the retry it declares.                        *)
EffectRunsOnce ==
  /\ call.ran > 1 => /\ contract.effect \notin {"external", "destructive"}
                     /\ contract.idempotency = "safe"
  /\ call.ran <= MaxToolAttempts
  /\ call.stage = "running" => call.same < Threshold
  /\ ValidToolDefinition(contract) =>
       (DecideToolRecovery(contract) = "retry") = (contract.recovery = "retry")
=============================================================================
