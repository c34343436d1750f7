--------------------------- MODULE ToolPermission ---------------------------
(***************************************************************************)
(* What a tool call of an agent is allowed to do: the layered policies and *)
(* the sandbox of packages/core policies.ts, and the way the coordinator   *)
(* applies them to a turn (authorizeTool, sandboxForTurn) and hands them   *)
(* down when an agent delegates (delegate_task).                           *)
(*                                                                         *)
(* A resource identifier is the sequence of its path segments; a rule's    *)
(* wildcard pattern is the set of identifiers it matches.  The role and    *)
(* tool layers of evaluatePermission are left out: no caller passes them.  *)
(* What happens to a prompt (the approval) is in ToolJournal.              *)
(***************************************************************************)
EXTENDS Integers, Sequences, SequencesExt, FiniteSetsExt

CONSTANTS Policies,    \* Run policies the operator may have configured
          Sandboxes,   \* and sandboxes
          ToolDefs,    \* the tools of the registry
          MaxAgents    \* bound: agents of the Run

Effects == {"allow", "prompt", "deny"}
Modes == {"safe", "standard", "autonomous", "unrestricted", "custom"}
IsPolicy(p) == p.mode \in Modes /\ \A r \in p.rules : r.effect \in Effects

(* The registry refuses a second tool of the same name *)
ASSUME PermissionAssumption ==
  /\ MaxAgents \in Nat \ {0}
  /\ \A p \in Policies : IsPolicy(p)
  /\ \A s \in Sandboxes : /\ DOMAIN s = {"writable", "readOnly", "network", "process", "policy"}
                          /\ IsPolicy(s.policy)
  /\ \A t, u \in ToolDefs : t.name = u.name => t = u

VARIABLES team,        \* the Run's agents, in the order they were spawned
          asked        \* the last authorization: tool, path and verdict

permissionVars == <<team, asked>>

Mission == <<"workspace">>
NoTree  == << >>
Tree(a) == <<"worktrees", ToString(a)>>

(* Paths a tool names, relative to the workspace of its turn *)
Relative == {<< >>, <<"src">>, <<"vendor">>}

PermissionTypeOK ==
  /\ team \in Seq([parent : 0 .. MaxAgents, policy : Policies,
                     sandbox : Sandboxes, tree : {NoTree} \cup {Tree(a) : a \in 1 .. MaxAgents}])
  /\ Len(team) \in 1 .. MaxAgents
  /\ asked.verdict \in Effects

-----------------------------------------------------------------------------
PermissionRank(effect) == CASE effect = "allow" -> 2 [] effect = "prompt" -> 1
                            [] effect = "deny" -> 0

(* The reduce over effects: the most restrictive one, `start` included *)
MostRestrictive(effects, start) ==
  CHOOSE e \in effects \cup {start} :
    \A f \in effects \cup {start} : PermissionRank(e) <= PermissionRank(f)

ResourceIdentifiersOverlap(left, right) ==
  IsPrefix(left, right) \/ IsPrefix(right, left)

RuleMatches(rule, action, tool, path) ==
  /\ rule.action \in {"*", action}
  /\ rule.tool \in {"any", tool.name}
  /\ rule.narrowed => tool.scope # "none" /\ path \in rule.paths

DefaultPermissionEffect(mode, action) ==
  CASE mode = "safe" -> (CASE action = "read" -> "allow"
                           [] action \in {"write", "execute"} -> "prompt"
                           [] OTHER -> "deny")
    [] mode = "standard" -> (CASE action = "read" -> "allow"
                               [] action = "destructive" -> "deny"
                               [] OTHER -> "prompt")
    [] mode = "autonomous" -> (CASE action \in {"destructive", "approve"} -> "deny"
                                 [] action = "external" -> "prompt"
                                 [] OTHER -> "allow")
    [] mode = "unrestricted" -> "allow"

(* A custom policy denies what no rule mentions; the others start from the *)
(* default of their mode.                                                  *)
EvaluatePolicy(policy, action, tool, path) ==
  LET matching == {r \in policy.rules : RuleMatches(r, action, tool, path)}
      effects  == {r.effect : r \in matching}
  IN IF policy.mode = "custom"
     THEN IF matching = {} THEN "deny" ELSE MostRestrictive(effects, "allow")
     ELSE MostRestrictive(effects, DefaultPermissionEffect(policy.mode, action))

(* {} when the sandbox adds no constraint; only files have roots *)
EvaluateSandboxConstraint(sandbox, action, tool, path) ==
  LET overlaps(roots) == \E root \in roots : ResourceIdentifiersOverlap(root, path)
      denied == \/ action = "network" /\ ~sandbox.network
                \/ action = "execute" /\ ~sandbox.process
                \/ /\ action = "write" /\ tool.scope = "file"
                   /\ overlaps(sandbox.readOnly) \/ ~overlaps(sandbox.writable)
  IN IF denied THEN {"deny"} ELSE {}

(* The intersection of the layers authorizeTool passes *)
EvaluatePermission(agent, action, tool, path) ==
  MostRestrictive({EvaluatePolicy(agent.policy, action, tool, path),
                   EvaluatePolicy(agent.sandbox.policy, action, tool, path)}
                  \cup EvaluateSandboxConstraint(agent.sandbox, action, tool, path)
                  \cup (IF tool.approval THEN {"prompt"} ELSE {}), "allow")

PermissionActionsForTool(tool) ==
  IF tool.required # {} THEN tool.required
  ELSE {CASE tool.effect = "none" -> "read" [] tool.effect = "workspace" -> "write"
          [] tool.effect = "external" -> "external"
          [] tool.effect = "destructive" -> "destructive"}

(* One denied action denies the call, one that prompts needs an approval *)
AuthorizeTool(agent, tool, path) ==
  MostRestrictive({EvaluatePermission(agent, action, tool, path) :
                     action \in PermissionActionsForTool(tool)}, "allow")

(* ensureAgentWorktree: the coordinator and an agent without a provisioned *)
(* worktree work in the Mission's workspace.                               *)
WorkspaceOf(a) == IF team[a].tree = NoTree THEN Mission ELSE team[a].tree

SandboxForTurn(a) ==
  IF WorkspaceOf(a) = Mission \/ WorkspaceOf(a) \in team[a].sandbox.writable
  THEN team[a]
  ELSE [team[a] EXCEPT !.sandbox.writable = @ \cup {WorkspaceOf(a)}]

NamespacedIdentifier(workspace, relative) == workspace \o relative

-----------------------------------------------------------------------------
PermissionInit ==
  /\ \E policy \in Policies, sandbox \in Sandboxes :
       team = << [parent |-> 0, policy |-> policy, sandbox |-> sandbox,
                    tree |-> NoTree] >>
  /\ asked = [tool |-> "none", path |-> << >>, verdict |-> "deny"]

(* Mutant of Delegated: the child is given the agent of this turn, with its *)
(* worktree already granted.                                                *)
MutantDelegated(p) == SandboxForTurn(p)

(* createMissionTools is given the agent of the store, not the turn's *)
Delegated(p) == team[p]

(* delegate_task: the child inherits the policy and the sandbox *)
DelegateTask(p) ==
  /\ Len(team) < MaxAgents
  /\ team' = Append(team, [parent |-> p, policy |-> Delegated(p).policy,
                               sandbox |-> Delegated(p).sandbox, tree |-> NoTree])
  /\ UNCHANGED asked

(* ensureAgentWorktree: one is made for a delegate and its place recorded  *)
EnsureAgentWorktree(a) ==
  /\ a # 1
  /\ team[a].tree = NoTree
  /\ team' = [team EXCEPT ![a].tree = Tree(a)]
  /\ UNCHANGED asked

(* The wrapped execute of a durable tool, up to the verdict *)
CallTool(a, tool, relative) ==
  LET path == NamespacedIdentifier(WorkspaceOf(a), relative)
  IN /\ asked' = [tool |-> tool.name, path |-> path,
                  verdict |-> AuthorizeTool(SandboxForTurn(a), tool, path)]
     /\ UNCHANGED team

PermissionNext ==
  \E a \in DOMAIN team :
    \/ DelegateTask(a)
    \/ EnsureAgentWorktree(a)
    \/ \E tool \in ToolDefs, relative \in Relative : CallTool(a, tool, relative)

PermissionSpec == PermissionInit /\ [][PermissionNext]_permissionVars

-----------------------------------------------------------------------------
(* However deep the delegation goes, and whichever of its ancestors had a  *)
(* worktree granted while it delegated, an agent's turn is allowed nothing *)
(* that the coordinator is not, except inside the worktree that is its own *)
(* (mission-tools.ts: "a delegate never gains capability its parent does   *)
(* not hold"); and a call was only let through if each action of its tool  *)
(* was.                                                                    *)
NoCapabilityGained ==
  /\ \A a \in DOMAIN team \ {1}, tool \in ToolDefs, relative \in Relative :
       \A w \in {Mission} \cup {Tree(b) : b \in DOMAIN team} :
         LET path == NamespacedIdentifier(w, relative)
         IN w = team[a].tree
            \/ PermissionRank(AuthorizeTool(SandboxForTurn(a), tool, path))
                 <= PermissionRank(AuthorizeTool(team[1], tool, path))
  /\ \A tool \in ToolDefs :
       tool.name = asked.tool /\ asked.verdict # "deny" =>
         \A action \in PermissionActionsForTool(tool) :
           PermissionRank(EvaluatePolicy(team[1].policy, action, tool, asked.path))
             >= PermissionRank(asked.verdict)
=============================================================================
