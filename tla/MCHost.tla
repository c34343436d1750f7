------------------------------- MODULE MCHost -------------------------------
(* What ends a Run and outlives a turn, for TLC: the completion gate, the   *)
(* checkpoints and worktrees, the recovery package's restore, and the       *)
(* daemon process.  They share no state, so one behaviour is about one of   *)
(* them, its focus, while the others keep one initial state.                *)
EXTENDS CompletionGate, Checkpoints, CheckpointService, DaemonControl, TLC

VARIABLE focus

vars == <<gateVars, cpVars, svcVars, daemonVars, focus>>

Init ==
  /\ focus \in {"gate", "checkpoints", "restore", "daemon"}
  /\ GateInit /\ CpInit /\ SvcInit /\ DaemonInit
  /\ focus # "restore" => hooks = {}

Next ==
  /\ UNCHANGED focus
  /\ \/ focus = "gate" /\ GateNext /\ UNCHANGED <<cpVars, svcVars, daemonVars>>
     \/ focus = "checkpoints" /\ CpNext /\ UNCHANGED <<gateVars, svcVars, daemonVars>>
     \/ focus = "restore" /\ SvcNext /\ UNCHANGED <<gateVars, cpVars, daemonVars>>
     \/ focus = "daemon" /\ DaemonNext /\ UNCHANGED <<gateVars, cpVars, svcVars>>

Spec == Init /\ [][Next]_vars

(* Executors are alike. *)
AnyExecutor == Permutations(Executors) \cup Permutations(CpExecutors)

(* The four components' states have their types. *)
HostTypeOK == GateTypeOK /\ CpTypeOK /\ SvcTypeOK /\ DaemonTypeOK
=============================================================================
