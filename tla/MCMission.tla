----------------------------- MODULE MCMission -----------------------------
(* What an agent's turns go through, for TLC: the agent runtime, the        *)
(* permissions, tool recovery, the budget, the providers, the context plan, *)
(* the semantic index and the memory.  They share no state here, so one     *)
(* behaviour is about one of them, its focus, while the others keep one     *)
(* initial state.                                                           *)
EXTENDS AgentRuntime, ToolPermission, ToolRecovery, RunBudget, ProviderTurn,
        ContextPlan, ProjectMemory, SemanticIndex, TLC

VARIABLE focus

vars == <<agentVars, permissionVars, recoveryVars, budgetVars, turnVars, planVars,
          memoryVars, indexVars, focus>>

(* Policies: two defaults; a custom one that allows writes outside vendor   *)
(* and prompts for the shell; an autonomous one that prompts for edits of   *)
(* src.  Sandboxes: the workspace without vendor, and one that allows none. *)
Rule(action, tool, paths, effect) ==
  [action |-> action, tool |-> tool, narrowed |-> paths # {}, paths |-> paths,
   effect |-> effect]
Policy(mode, rules) == [mode |-> mode, rules |-> rules]
Vendor == <<"workspace", "vendor">>
PolicyChoices ==
  {Policy("safe", {}), Policy("unrestricted", {}),
   Policy("custom", {Rule("write", "any", {}, "allow"), Rule("*", "any", {Vendor}, "deny"),
                     Rule("execute", "shell", {}, "prompt")}),
   Policy("autonomous", {Rule("write", "edit", {<<"workspace", "src">>}, "prompt")})}

Sandbox(writable, readOnly, allowed) ==
  [writable |-> writable, readOnly |-> readOnly, network |-> allowed, process |-> allowed,
   policy |-> Policy("standard", {})]
SandboxChoices == {Sandbox({Mission}, {Vendor}, TRUE), Sandbox({}, {}, FALSE)}

ToolDef(name, effect, required, approval, scope) ==
  [name |-> name, effect |-> effect, required |-> required, approval |-> approval,
   scope |-> scope]
ToolChoices ==
  {ToolDef("edit", "workspace", {}, FALSE, "file"),
   ToolDef("shell", "workspace", {"execute", "write"}, FALSE, "file"),
   ToolDef("fetch", "external", {"network"}, TRUE, "none"),
   ToolDef("wipe", "destructive", {}, FALSE, "other")}

(* Errors with one sign, with none, and with two whose order decides. *)
ErrorChoices ==
  {{}, {"timeout"}, {"transient"}, {"pending"}, {"context"}, {"model"}, {"crash"},
   {"invalid", "transient"}, {"budget", "timeout"}, {"rate", "timeout"},
   {"conflict", "timeout"}}

(* A ceiling on the total with reserves in two metrics, and two ceilings. *)
Nothing == [m \in Metrics |-> 0]
Ceilings(max, recovery, validation) ==
  [max |-> max @@ [m \in Metrics |-> Unlimited], recovery |-> recovery @@ Nothing,
   validation |-> validation @@ Nothing]
BudgetChoices ==
  {Ceilings("total" :> 3, "input" :> 1, "total" :> 1),
   Ceilings("tools" :> 2 @@ "output" :> 2, "tools" :> 1, Nothing)}

Init ==
  /\ focus \in {"agents", "permission", "recovery", "budget", "turn", "context", "memory", "index"}
  /\ AgentInit /\ PermissionInit /\ RecoveryInit /\ BudgetInit /\ TurnInit
  /\ focus # "permission" => /\ team[1].policy = Policy("safe", {})
                             /\ team[1].sandbox = Sandbox({}, {}, FALSE)
  /\ focus # "recovery" => contract = [effect |-> "none", idempotency |-> "safe",
                                       recovery |-> "retry"]
  /\ focus # "budget" => budget = CHOOSE b \in Budgets : TRUE
  /\ ContextInit /\ MemoryInit /\ IndexInit
  /\ focus # "context" => /\ \A b \in ContextBudgets : budgetTokens <= b
                          /\ Items = {"task_active", "run_state"}
                          /\ \A i \in Items, s \in Sizes : size[i] <= s
  /\ focus # "index" => disk = [w \in Workspaces |-> [p \in Paths |-> <<1, "a">>]]

(* Bound: changes of the graph in a behaviour that sends mail. *)
MailChanges == 3

Next ==
  /\ UNCHANGED focus
  /\ \/ /\ focus = "agents" /\ AgentNext
        /\ mail' # << >> => changes' <= MailChanges
        /\ UNCHANGED <<permissionVars, recoveryVars, budgetVars, turnVars, planVars, memoryVars, indexVars>>
     \/ /\ focus = "permission" /\ PermissionNext
        /\ UNCHANGED <<agentVars, recoveryVars, budgetVars, turnVars, planVars, memoryVars, indexVars>>
     \/ /\ focus = "recovery" /\ RecoveryNext
        /\ UNCHANGED <<agentVars, permissionVars, budgetVars, turnVars, planVars, memoryVars, indexVars>>
     \/ /\ focus = "budget" /\ BudgetNext
        /\ UNCHANGED <<agentVars, permissionVars, recoveryVars, turnVars, planVars, memoryVars, indexVars>>
     \/ /\ focus = "turn" /\ TurnNext
        /\ UNCHANGED <<agentVars, permissionVars, recoveryVars, budgetVars, planVars, memoryVars, indexVars>>
     \/ /\ focus = "context" /\ ContextNext
        /\ UNCHANGED <<agentVars, permissionVars, recoveryVars, budgetVars, turnVars, memoryVars, indexVars>>
     \/ /\ focus = "memory" /\ MemoryNext
        /\ UNCHANGED <<agentVars, permissionVars, recoveryVars, budgetVars, turnVars, planVars, indexVars>>
     \/ /\ focus = "index" /\ IndexNext
        /\ UNCHANGED <<agentVars, permissionVars, recoveryVars, budgetVars, turnVars, planVars,
                       memoryVars>>

Spec == Init /\ [][Next]_vars

(* Agent ids are alike. *)
AnyAgent == Permutations(AgentIds)

(* The eight components' states have their types. *)
MissionTypeOK ==
  /\ AgentTypeOK /\ PermissionTypeOK /\ RecoveryTypeOK /\ BudgetTypeOK /\ TurnTypeOK
  /\ ContextTypeOK /\ MemoryTypeOK /\ IndexTypeOK
=============================================================================
