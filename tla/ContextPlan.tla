----------------------------- MODULE ContextPlan -----------------------------
(***************************************************************************)
(* The context of one turn: the items the runtime's compiler takes from    *)
(* the store and the workspace, and the planner of packages/context that   *)
(* fits them into a token budget, one item after the other.                *)
(*                                                                         *)
(* An item is its source, its weights and its size: the tokens of its      *)
(* header and of its text.  A separator is white space and costs nothing   *)
(* in estimateTokens, so the tokens of the plan are those of its blocks.   *)
(* Which items exist, and how large they are, is any state of the store.   *)
(***************************************************************************)
EXTENDS Integers, FiniteSetsExt

CONSTANTS ContextBudgets,  \* budgetTokens
          Sizes,           \* tokens of an item's text
          Header, Marker,  \* tokens of a block's header and of "[truncated]"
          DiffCap          \* maxTokens of the diff

ASSUME ContextAssumption ==
  /\ Header \in Nat /\ Marker \in Nat /\ DiffCap \in Nat
  /\ ContextBudgets \subseteq Nat /\ Sizes \subseteq Nat

VARIABLES budgetTokens,
          size,       \* the items of this turn and the tokens of their text
          selected,   \* items of the plan and the tokens of their blocks
          omitted,
          used        \* as the planner counts it

planVars == <<budgetTokens, size, selected, omitted, used>>

Item(source, weight, priority, relevance, required, truncate, cap, order) ==
  [weight |-> weight, priority |-> priority, relevance |-> relevance, required |-> required,
   truncate |-> truncate, cap |-> cap, order |-> order, source |-> source]

NoCap == -1

(* fixedItems: the task and the state always, the others if they exist. *)
(* `weight` is the sourceWeight, `order` the place of the id in sorting *)
FixedItems == [
  task_active  |-> Item("task", 8, 10, 10, TRUE, TRUE, NoCap, 9),
  run_state    |-> Item("run_state", 7, 8, 10, TRUE, TRUE, NoCap, 8),
  goal_active  |-> Item("goal", 9, 9, 10, TRUE, TRUE, NoCap, 4),
  requirements |-> Item("validation", 6, 9, 10, TRUE, TRUE, NoCap, 7)]

(* candidateItems: five of its eleven kinds; the others (task graph, failing *)
(* validations, snapshot, memories, diagnostics, matches) are planned in the *)
(* same way and differ in their numbers only                                 *)
CandidateItems == [
  agent_inbox |-> Item("run_state", 7, 7, 20, FALSE, FALSE, NoCap, 1),
  git_status  |-> Item("git", 5, 5, 18, FALSE, TRUE, NoCap, 3),
  git_diff    |-> Item("git", 5, 0, 17, FALSE, TRUE, DiffCap, 2),
  problems    |-> Item("run_state", 7, 0, 17, FALSE, FALSE, NoCap, 5),
  repo_map    |-> Item("repo_map", 3, 0, 12, FALSE, TRUE, NoCap, 6)]

ItemOf(id) == IF id \in DOMAIN FixedItems THEN FixedItems[id] ELSE CandidateItems[id]
Items == DOMAIN size
AllItems == DOMAIN FixedItems \cup DOMAIN CandidateItems

ContextTypeOK ==
  /\ budgetTokens \in ContextBudgets
  /\ Items \subseteq AllItems /\ {"task_active", "run_state"} \subseteq Items
  /\ DOMAIN selected \cup omitted \subseteq Items
  /\ DOMAIN selected \cap omitted = {}

-----------------------------------------------------------------------------
(* Doubled, as the relevance is in twentieths *)
Rank(i) == i.priority * 200 + i.relevance + 2 * i.weight

(* Both sorts of the planner: the fixed items first, each pool by its key *)
Before(a, b) ==
  LET i == ItemOf(a) j == ItemOf(b)
      key(x) == IF x.required THEN <<x.priority, x.weight>> ELSE <<Rank(x), 0>>
  IN \/ i.required /\ ~j.required
     \/ /\ i.required = j.required
        /\ \/ key(i)[1] > key(j)[1]
           \/ key(i)[1] = key(j)[1] /\ key(i)[2] > key(j)[2]
           \/ key(i) = key(j) /\ i.order < j.order

LocalBudget(id, budget) ==
  IF ItemOf(id).cap = NoCap THEN budget ELSE Min({budget, ItemOf(id).cap})

(* Mutant of TruncateToBudget: the item's own cap replaces the budget. *)
MutantTruncateToBudget(id, budget) ==
  LET local == IF ItemOf(id).cap = NoCap THEN budget ELSE ItemOf(id).cap
  IN IF Header + size[id] <= local THEN {Header + size[id]}
     ELSE IF ItemOf(id).truncate /\ Header + Marker <= local THEN {local} ELSE {}

(* The tokens of the block that is shown of an item, or none: the whole    *)
(* item, or the longest prefix of it that fits with the marker, which the  *)
(* planner finds by bisection.                                             *)
TruncateToBudget(id, budget) ==
  LET local == LocalBudget(id, budget)
      cuts  == {k \in 0 .. size[id] : Header + k + Marker <= local}
  IN IF Header + size[id] <= local THEN {Header + size[id]}
     ELSE IF ItemOf(id).truncate /\ cuts # {} THEN {Header + Max(cuts) + Marker}
     ELSE {}

-----------------------------------------------------------------------------
(* compile: the items of the turn *)
ContextInit ==
  /\ budgetTokens \in ContextBudgets
  /\ \E optional \in SUBSET (AllItems \ {"task_active", "run_state"}) :
       size \in [optional \cup {"task_active", "run_state"} -> Sizes]
  /\ selected = << >>
  /\ omitted = {}
  /\ used = 0

(* choose() of the next item in order *)
Choose(id) ==
  LET shown == TruncateToBudget(id, budgetTokens - used)
      left  == Items \ (DOMAIN selected \cup omitted)
  IN /\ id \in left
     /\ \A other \in left \ {id} : Before(id, other)
     /\ IF shown = {}
        THEN omitted' = omitted \cup {id} /\ UNCHANGED <<selected, used>>
        ELSE \E tokens \in shown :
               /\ selected' = [x \in DOMAIN selected \cup {id} |->
                                 IF x = id THEN tokens ELSE selected[x]]
               /\ used' = used + tokens
               /\ UNCHANGED omitted
     /\ UNCHANGED <<budgetTokens, size>>

ContextNext == \E id \in AllItems : Choose(id)

ContextSpec == ContextInit /\ [][ContextNext]_planVars

-----------------------------------------------------------------------------
Tokens(ids) == MapThenSumSet(LAMBDA id : selected[id], ids)
Fixed == DOMAIN FixedItems

(* The plan counts what it shows and stays within its budget, so the loop  *)
(* that drops the last blocks of a plan that does not is never entered;    *)
(* and a fixed item gives way to fixed items only: one that was left out   *)
(* would not fit beside the fixed ones either if no optional item were     *)
(* shown (choose, truncateToBudget).  This is less than what context.ts:167*)
(* says of fixed items, that they "must never be dropped for budget        *)
(* reasons": with a small budget the code drops them.                      *)
PlanFits ==
  /\ used = Tokens(DOMAIN selected)
  /\ used <= budgetTokens
  /\ \A id \in omitted \cap Fixed :
       TruncateToBudget(id, budgetTokens - Tokens(DOMAIN selected \cap Fixed)) = {}
=============================================================================
