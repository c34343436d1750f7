------------------------------ MODULE RunBudget ------------------------------
(***************************************************************************)
(* The shared budget of one Run: how turns and tool calls are charged to   *)
(* it by the store (recordUsageInternal, recordUsageFenced, recordCost,    *)
(* the first part of recordToolIntent), how packages/core assesses it with *)
(* its reserves, and how an exhausted Run stops and is resumed.            *)
(*                                                                         *)
(* Input and output tokens, their total and the tool calls are kept; the   *)
(* other metrics are assessed alike and never charged by a caller, or (the *)
(* cost) charged with the tokens.  A turn holds a lease generation, and a  *)
(* later turn fences it.                                                   *)
(***************************************************************************)
EXTENDS Integers, FiniteSets

CONSTANTS Workers,     \* executors
          Budgets,     \* ceilings and reserves a Run may be created with
          MaxEpochs,   \* bound: turns
          MaxResumes,  \* bound: operator resumes
          MaxUse       \* bound: provider answers and tool calls of one turn

Metrics == {"input", "output", "total", "tools"}
Unlimited == -1

ASSUME BudgetAssumption ==
  /\ MaxEpochs \in Nat /\ MaxResumes \in Nat /\ MaxUse \in Nat
  /\ Budgets \subseteq [max : [Metrics -> Nat \cup {Unlimited}],
                       recovery : [Metrics -> Nat], validation : [Metrics -> Nat]]

VARIABLES budget, status, usage,
          usageEntries,  \* usage_entries, by session epoch
          costRecords,   \* cost_records, by entry key
          epoch,         \* the latest session epoch, whose turn holds the lease
          turns,         \* what each worker's turn has used so far
          resumes,       \* resumes of the operator
          overspent      \* turns begun under an exhausted budget and charged

budgetVars == <<budget, status, usage, usageEntries, costRecords, epoch, turns,
                resumes, overspent>>

NoTurn == [stage |-> "none", epoch |-> 0, input |-> 0, output |-> 0, used |-> 0,
           late |-> FALSE]

BudgetTypeOK ==
  /\ budget \in Budgets
  /\ status \in {"queued", "running", "paused", "budget_limited"}
  /\ usage \in [{"input", "output", "tools"} -> Nat]
  /\ usageEntries \subseteq 1 .. epoch
  /\ costRecords \subseteq usageEntries
  /\ epoch \in 0 .. MaxEpochs
  /\ \A w \in Workers : turns[w].stage \in {"none", "working", "charged"}
  /\ resumes \in 0 .. MaxResumes
  /\ overspent \in 0 .. MaxEpochs

-----------------------------------------------------------------------------
(* Used so far of a metric; the total is that of both kinds of tokens *)
Used(used, metric) ==
  IF metric = "total" THEN used["input"] + used["output"] ELSE used[metric]

(* reserveForOtherPhases and the protected capacity of evaluateBudget, for *)
(* the phase "general" that every caller assesses                          *)
Reserved(b, metric) ==
  LET both(m) == b.recovery[m] + b.validation[m]
  IN IF metric = "total" THEN both("input") + both("output") + both("total")
     ELSE both(metric)

(* assessMetric: nothing left, or nothing beyond what is reserved *)
AssessMetric(b, used, metric) ==
  LET directRemaining == b.max[metric] - Used(used, metric)
  IN /\ b.max[metric] # Unlimited
     /\ directRemaining <= 0 \/ directRemaining - Reserved(b, metric) <= 0

(* evaluateBudget(...).allowed *)
EvaluateBudget(b, used) == \A metric \in Metrics : ~AssessMetric(b, used, metric)

AddBudgetUsage(used, delta) == [m \in DOMAIN used |-> used[m] + delta[m]]

(* Mutant of RecordUsageInternal: the usage is added and never assessed. *)
MutantRecordUsageInternal(delta) ==
  /\ usage' = AddBudgetUsage(usage, delta)
  /\ UNCHANGED status

RecordUsageInternal(delta) ==
  /\ usage' = AddBudgetUsage(usage, delta)
  /\ status' = IF status = "running" /\ ~EvaluateBudget(budget, usage')
               THEN "budget_limited" ELSE status

-----------------------------------------------------------------------------
BudgetInit ==
  /\ budget \in Budgets
  /\ status = "running"
  /\ usage = [m \in {"input", "output", "tools"} |-> 0]
  /\ usageEntries = {}
  /\ costRecords = {}
  /\ epoch = 0
  /\ turns = [w \in Workers |-> NoTurn]
  /\ resumes = 0
  /\ overspent = 0

Fenced(w) == turns[w].epoch # epoch

(* A worker takes the lease, from one that lost it perhaps, and opens the *)
(* session epoch of its turn.                                             *)
StartSessionEpoch(w) ==
  /\ status = "running"
  /\ turns[w].stage = "none"
  /\ epoch < MaxEpochs
  /\ epoch' = epoch + 1
  /\ turns' = [turns EXCEPT ![w] =
       [NoTurn EXCEPT !.stage = "working", !.epoch = epoch + 1,
                      !.late = ~EvaluateBudget(budget, usage)]]
  /\ UNCHANGED <<budget, status, usage, usageEntries, costRecords, resumes, overspent>>

(* mergeUsage: an answer of the provider adds to the usage of the turn *)
MergeUsage(w, input, output) ==
  /\ turns[w].stage = "working"
  /\ turns[w].used < MaxUse
  /\ turns' = [turns EXCEPT ![w].input = @ + input, ![w].output = @ + output,
                            ![w].used = @ + 1]
  /\ UNCHANGED <<budget, status, usage, usageEntries, costRecords, epoch, resumes, overspent>>

(* A tool call is charged before it starts.  If that exhausts the budget,  *)
(* or the lease is gone, the call fails and the model is told; the turn    *)
(* goes on either way.                                                     *)
RecordToolIntent(w) ==
  /\ turns[w].stage = "working"
  /\ turns[w].used < MaxUse
  /\ turns' = [turns EXCEPT ![w].used = @ + 1]
  /\ IF Fenced(w) THEN UNCHANGED <<status, usage>>
     ELSE RecordUsageInternal([input |-> 0, output |-> 0, tools |-> 1])
  /\ UNCHANGED <<budget, usageEntries, costRecords, epoch, resumes, overspent>>

(* The turn ended normally: its usage is charged, once for its epoch *)
RecordUsageFenced(w) ==
  /\ turns[w].stage = "working"
  /\ ~Fenced(w)
  /\ turns' = [turns EXCEPT ![w].stage = "charged"]
  /\ IF turns[w].epoch \in usageEntries THEN UNCHANGED <<status, usage>>
     ELSE RecordUsageInternal([input |-> turns[w].input, output |-> turns[w].output,
                               tools |-> 0])
  /\ usageEntries' = usageEntries \cup {turns[w].epoch}
  /\ overspent' = overspent + (IF turns[w].late THEN 1 ELSE 0)
  /\ UNCHANGED <<budget, costRecords, epoch, resumes>>

(* A transaction of its own, after which the epoch ends *)
RecordCost(w) ==
  /\ turns[w].stage = "charged"
  /\ ~Fenced(w)
  /\ costRecords' = costRecords \cup {turns[w].epoch}
  /\ turns' = [turns EXCEPT ![w] = NoTurn]
  /\ UNCHANGED <<budget, status, usage, usageEntries, epoch, resumes, overspent>>

(* The turn is aborted, waits for an approval, fails with its provider, is *)
(* fenced or dies with its daemon: what it used is charged to nobody.      *)
TurnLost(w) ==
  /\ turns[w].stage # "none"
  /\ turns' = [turns EXCEPT ![w] = NoTurn]
  /\ UNCHANGED <<budget, status, usage, usageEntries, costRecords, epoch, resumes, overspent>>

Pause ==
  /\ status \in {"queued", "running", "budget_limited"}
  /\ status' = "paused"
  /\ UNCHANGED <<budget, usage, usageEntries, costRecords, epoch, turns, resumes, overspent>>

Resume ==
  /\ status \in {"paused", "budget_limited"}
  /\ resumes < MaxResumes
  /\ resumes' = resumes + 1
  /\ status' = IF status = "paused" THEN "running" ELSE "queued"
  /\ UNCHANGED <<budget, usage, usageEntries, costRecords, epoch, turns, overspent>>

(* tickRun starts a queued Run.  That the scheduler acts on a listing which *)
(* may be old by then is RunScheduler's matter.                             *)
StartQueued ==
  /\ status = "queued"
  /\ status' = "running"
  /\ UNCHANGED <<budget, usage, usageEntries, costRecords, epoch, turns, resumes, overspent>>

BudgetNext ==
  \/ \E w \in Workers :
       \/ StartSessionEpoch(w)
       \/ \E input, output \in 0 .. 1 : MergeUsage(w, input, output)
       \/ RecordToolIntent(w)
       \/ RecordUsageFenced(w)
       \/ RecordCost(w)
       \/ TurnLost(w)
  \/ Pause
  \/ Resume
  \/ StartQueued

BudgetSpec == BudgetInit /\ [][BudgetNext]_budgetVars

-----------------------------------------------------------------------------
(* The budget stops the Run: a turn that begins with nothing left beyond   *)
(* the reserves and is charged all the same was let through by a resume of *)
(* the operator, and each resume lets one such turn through at most, what- *)
(* ever takeovers, pauses and lost turns come between.                     *)
OverspentTurnsAreResumed == overspent <= resumes
=============================================================================
