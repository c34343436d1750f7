---------------------------- MODULE MissionProofs ----------------------------
(***************************************************************************)
(* Theorems about what an agent's turns go through: the budget of the Run, *)
(* the semantic index, the retries of a failed tool, the project memory,   *)
(* the permissions of delegates, the provider, the agents' mailbox and     *)
(* graph, and the plan of the context.  The components share no state;     *)
(* each has its own specification and its own inductive invariant, and     *)
(* together these give the types of the composition.                       *)
(***************************************************************************)
EXTENDS MCMission, SequenceTheorems, FiniteSetTheorems, WellFoundedInduction, TLAPS

-----------------------------------------------------------------------------
(* RunBudget.  A turn is late if it began under an exhausted budget.  The   *)
(* invariant Credit keeps an account: whenever a late turn may still begin  *)
(* (the Run runs, or is about to, although its budget is exhausted) or the  *)
(* turn that holds the lease is late, a resume is left to pay for it.  The  *)
(* charge of a late turn does not stop a Run that is queued, so there the   *)
(* two need a resume each.                                                  *)

UsageKinds == {"input", "output", "tools"}
Usages == [UsageKinds -> Nat]
NoUsage == [m \in UsageKinds |-> 0]
TurnRows == [stage : {"none", "working", "charged"}, epoch : Nat, input : Nat,
             output : Nat, used : Nat, late : BOOLEAN]
BudgetRows == [max : [Metrics -> Nat \cup {Unlimited}],
               recovery : [Metrics -> Nat], validation : [Metrics -> Nat]]

Statuses == {"queued", "running", "paused", "budget_limited"}

BudgetTypes ==
  /\ budget \in Budgets
  /\ status \in Statuses
  /\ usage \in Usages
  /\ usageEntries \subseteq 1 .. epoch
  /\ costRecords \subseteq usageEntries
  /\ epoch \in 0 .. MaxEpochs
  /\ turns \in [Workers -> TurnRows]
  /\ resumes \in 0 .. MaxResumes
  /\ overspent \in Nat

Exhausted == ~EvaluateBudget(budget, usage)
LateTurn(w) == turns[w].stage = "working" /\ turns[w].late /\ turns[w].epoch = epoch

TurnEpochs ==
  /\ \A w \in Workers : turns[w].stage # "none" => turns[w].epoch \in 1 .. epoch
  /\ \A v, w \in Workers :
       /\ turns[v].stage # "none" /\ turns[w].stage # "none"
       /\ turns[v].epoch = turns[w].epoch
       => v = w
ChargedEntry == \A w \in Workers :
  /\ turns[w].stage = "charged" => turns[w].epoch \in usageEntries
  /\ turns[w].stage = "working" => turns[w].epoch \notin usageEntries
LateIsExhausted == \A w \in Workers : LateTurn(w) => Exhausted
StoppedIsExhausted == status \in {"queued", "budget_limited"} => Exhausted
Credit ==
  /\ overspent =< resumes
  /\ (status = "running" /\ Exhausted) \/ (\E w \in Workers : LateTurn(w)) =>
       overspent < resumes
  /\ status = "queued" => overspent < resumes
  /\ status = "queued" /\ (\E w \in Workers : LateTurn(w)) => overspent + 1 < resumes

BudgetCore == BudgetTypes /\ TurnEpochs /\ ChargedEntry
Accounted == LateIsExhausted /\ StoppedIsExhausted /\ Credit
BudgetInv == BudgetCore /\ Accounted

(* evaluateBudget: more usage never makes an exhausted budget allowed.      *)
LEMMA ExhaustionStays ==
  ASSUME NEW b \in BudgetRows, NEW u \in Usages, NEW v \in Usages,
         \A m \in UsageKinds : u[m] =< v[m], ~EvaluateBudget(b, u)
  PROVE  ~EvaluateBudget(b, v)
<1>1. PICK m \in Metrics : AssessMetric(b, u, m)
  BY DEF EvaluateBudget
<1>2. /\ b.max[m] \in Nat \cup {Unlimited} /\ b.max[m] \in Int
      /\ \A n \in Metrics : b.recovery[n] \in Nat /\ b.validation[n] \in Nat
  BY DEF BudgetRows, Unlimited
<1>3. \A n \in UsageKinds : u[n] \in Nat /\ v[n] \in Nat
  BY DEF Usages
<1>4. /\ Used(u, m) \in Nat /\ Used(v, m) \in Nat /\ Used(u, m) =< Used(v, m)
  BY <1>3 DEF Used, Metrics, UsageKinds
<1>5. Reserved(b, m) \in Int
  BY <1>2 DEF Reserved, Metrics
<1>6. AssessMetric(b, v, m)
  BY <1>1, <1>2, <1>4, <1>5 DEF AssessMetric
<1> QED
  BY <1>6 DEF EvaluateBudget

(* What recordUsageInternal does: the usage grows, an exhausted budget      *)
(* stays exhausted, and the Run does not run on with one.                   *)
LEMMA UsageIsAssessed ==
  ASSUME BudgetCore, NEW delta \in Usages, RecordUsageInternal(delta),
         budget' = budget
  PROVE  /\ usage' \in Usages /\ status' \in Statuses
         /\ Exhausted => Exhausted'
         /\ ~(status' = "running" /\ Exhausted')
         /\ status' = status \/ (status' = "budget_limited" /\ Exhausted')
<1>1. usage \in Usages /\ budget \in BudgetRows
  BY BudgetAssumption DEF BudgetCore, BudgetTypes, BudgetRows
<1>2. /\ usage' \in Usages /\ \A m \in UsageKinds : usage[m] =< usage'[m]
  BY <1>1 DEF RecordUsageInternal, AddBudgetUsage, Usages
<1>3. Exhausted => Exhausted'
  BY <1>1, <1>2, ExhaustionStays DEF Exhausted
<1>4. /\ status' \in Statuses
      /\ ~(status' = "running" /\ Exhausted')
      /\ status' = status \/ (status' = "budget_limited" /\ Exhausted')
  BY DEF RecordUsageInternal, Exhausted, BudgetCore, BudgetTypes, Statuses
<1> QED
  BY <1>2, <1>3, <1>4

(* A Run that is created with room starts with nothing owed. *)
LEMMA BudgetStarts ==
  ASSUME BudgetInit
  PROVE  BudgetCore /\ ((\A b \in Budgets : EvaluateBudget(b, NoUsage)) => Accounted)
<1>1. NoTurn \in TurnRows /\ NoTurn.stage = "none"
  BY DEF NoTurn, TurnRows
<1>2. usage = NoUsage /\ usage \in Usages
  BY DEF BudgetInit, NoUsage, UsageKinds, Usages
<1>3. (\A b \in Budgets : EvaluateBudget(b, NoUsage)) => ~Exhausted
  BY <1>2 DEF BudgetInit, Exhausted
<1>4. BudgetTypes
  BY <1>1, <1>2, BudgetAssumption DEF BudgetInit, BudgetTypes, Statuses
<1> QED
  BY <1>1, <1>3, <1>4
  DEF BudgetInit, BudgetCore, TurnEpochs, ChargedEntry, Accounted, LateIsExhausted,
      LateTurn, Credit, StoppedIsExhausted

(* A step that gives at most the turn of worker w another stage, in the     *)
(* same epoch, keeps what relates turns, epochs and entries.                *)
LEMMA TurnsKeepEpochs ==
  ASSUME BudgetCore, NEW w \in Workers, NEW row \in TurnRows,
         turns' = [turns EXCEPT ![w] = row], epoch' = epoch,
         row.stage = "none" \/ (turns[w].stage # "none" /\ row.epoch = turns[w].epoch)
  PROVE  TurnEpochs' /\ turns' \in [Workers -> TurnRows]
<1>1. turns \in [Workers -> TurnRows]
  BY DEF BudgetCore, BudgetTypes
<1>2. turns' \in [Workers -> TurnRows]
  BY <1>1
<1>3. turns'[w] = row /\ \A v \in Workers \ {w} : turns'[v] = turns[v]
  BY <1>1
<1> QED
  BY <1>2, <1>3 DEF BudgetCore, TurnEpochs

LEMMA StartSessionEpochKeepsBudget ==
  ASSUME BudgetCore, NEW w \in Workers, StartSessionEpoch(w)
  PROVE  BudgetCore' /\ (Accounted => Accounted')
<1>1. /\ turns \in [Workers -> TurnRows] /\ epoch \in Nat /\ epoch + 1 \in 0 .. MaxEpochs
      /\ usageEntries \subseteq 1 .. epoch
  BY BudgetAssumption DEF BudgetCore, BudgetTypes, StartSessionEpoch
<1>a. PICK x \in BOOLEAN : x = ~EvaluateBudget(budget, usage)
  BY Zenon DEF EvaluateBudget
<1> DEFINE row == [NoTurn EXCEPT !.stage = "working", !.epoch = epoch + 1, !.late = x]
<1>2. /\ row \in TurnRows /\ row.stage = "working" /\ row.epoch = epoch + 1
      /\ row.late = x
  <2>1. \A n \in Nat : \A y \in BOOLEAN :
          LET r == [NoTurn EXCEPT !.stage = "working", !.epoch = n, !.late = y]
          IN r \in TurnRows /\ r.stage = "working" /\ r.epoch = n /\ r.late = y
    BY DEF NoTurn, TurnRows
  <2>2. epoch + 1 \in Nat
    BY <1>1
  <2> QED
    BY <2>1, <2>2, Zenon
<1>b. x => Exhausted
  BY <1>a, Zenon DEF Exhausted
<1>3. turns' = [turns EXCEPT ![w] = row]
  BY <1>a, Zenon DEF StartSessionEpoch
<1> HIDE DEF row
<1>4. turns'[w] = row /\ \A v \in Workers \ {w} : turns'[v] = turns[v]
  BY <1>1, <1>3
<1>5. /\ epoch' = epoch + 1 /\ Exhausted' = Exhausted /\ status = "running"
      /\ status' = status /\ resumes' = resumes /\ overspent' = overspent
      /\ usageEntries' = usageEntries
  BY DEF StartSessionEpoch, Exhausted
<1>6. BudgetTypes'
  <2>1. turns' \in [Workers -> TurnRows]
    BY <1>1, <1>2, <1>3
  <2> QED
    BY <1>1, <2>1 DEF BudgetCore, BudgetTypes, StartSessionEpoch
<1>7. \A v \in Workers : turns[v].stage # "none" => turns[v].epoch \in 1 .. epoch
  BY DEF BudgetCore, TurnEpochs
<1>8. TurnEpochs'
  BY <1>1, <1>2, <1>4, <1>5, <1>7 DEF BudgetCore, TurnEpochs
<1>9. ChargedEntry'
  BY <1>1, <1>2, <1>4, <1>5 DEF BudgetCore, ChargedEntry
<1>10. \A v \in Workers : LateTurn(v)' => v = w /\ Exhausted
  BY <1>1, <1>b, <1>2, <1>4, <1>5, <1>7 DEF LateTurn
<1> QED
  BY <1>5, <1>6, <1>8, <1>9, <1>10 DEF BudgetCore, Accounted, LateIsExhausted, StoppedIsExhausted, Credit

LEMMA MergeUsageKeepsBudget ==
  ASSUME BudgetCore, NEW w \in Workers, NEW input \in 0 .. 1, NEW output \in 0 .. 1,
         MergeUsage(w, input, output)
  PROVE  BudgetCore' /\ (Accounted => Accounted')
<1> DEFINE row == turns'[w]
<1>1. turns \in [Workers -> TurnRows] /\ turns[w] \in TurnRows
  BY DEF BudgetCore, BudgetTypes
<1>2. /\ turns' = [turns EXCEPT ![w] = row]
      /\ row = [turns[w] EXCEPT !.input = @ + input, !.output = @ + output,
                                !.used = @ + 1]
  BY <1>1 DEF MergeUsage
<1>3. /\ row \in TurnRows /\ row.stage = turns[w].stage /\ row.epoch = turns[w].epoch
      /\ row.late = turns[w].late /\ turns[w].stage = "working"
  BY <1>1, <1>2 DEF TurnRows, MergeUsage
<1> HIDE DEF row
<1>4. turns'[w] = row /\ \A v \in Workers \ {w} : turns'[v] = turns[v]
  BY <1>1, <1>2
<1>5. /\ epoch' = epoch /\ Exhausted' = Exhausted
      /\ status' = status /\ resumes' = resumes /\ overspent' = overspent
      /\ usageEntries' = usageEntries
  BY DEF MergeUsage, Exhausted
<1>6. TurnEpochs' /\ turns' \in [Workers -> TurnRows]
  BY <1>2, <1>3, <1>5, TurnsKeepEpochs
<1>7. BudgetTypes'
  BY <1>6 DEF BudgetCore, BudgetTypes, MergeUsage
<1>8. ChargedEntry'
  BY <1>3, <1>4, <1>5 DEF BudgetCore, ChargedEntry
<1>9. \A v \in Workers : LateTurn(v)' => LateTurn(v)
  BY <1>3, <1>4, <1>5 DEF LateTurn
<1> QED
  BY <1>5, <1>6, <1>7, <1>8, <1>9 DEF BudgetCore, Accounted, LateIsExhausted, StoppedIsExhausted, Credit

LEMMA RecordToolIntentKeepsBudget ==
  ASSUME BudgetCore, NEW w \in Workers, RecordToolIntent(w)
  PROVE  BudgetCore' /\ (Accounted => Accounted')
<1> DEFINE row == turns'[w]
           delta == [input |-> 0, output |-> 0, tools |-> 1]
<1>1. turns \in [Workers -> TurnRows] /\ turns[w] \in TurnRows
  BY DEF BudgetCore, BudgetTypes
<1>2. /\ turns' = [turns EXCEPT ![w] = row]
      /\ row = [turns[w] EXCEPT !.used = @ + 1]
  BY <1>1 DEF RecordToolIntent
<1>3. /\ row \in TurnRows /\ row.stage = turns[w].stage /\ row.epoch = turns[w].epoch
      /\ row.late = turns[w].late /\ turns[w].stage = "working"
  BY <1>1, <1>2 DEF TurnRows, RecordToolIntent
<1> HIDE DEF row
<1>4. turns'[w] = row /\ \A v \in Workers \ {w} : turns'[v] = turns[v]
  BY <1>1, <1>2
<1>5. /\ epoch' = epoch /\ budget' = budget /\ resumes' = resumes
      /\ overspent' = overspent /\ usageEntries' = usageEntries
  BY DEF RecordToolIntent
<1>6. delta \in Usages
  BY DEF Usages, UsageKinds
<1>7. /\ usage' \in Usages /\ status' \in Statuses
      /\ Exhausted => Exhausted'
      /\ status' = "running" /\ Exhausted' => status = "running" /\ Exhausted
      /\ status' = status \/ (status' = "budget_limited" /\ Exhausted')
  <2>1. CASE Fenced(w)
    BY <2>1 DEF RecordToolIntent, Exhausted, BudgetCore, BudgetTypes, Usages, UsageKinds
  <2>2. CASE ~Fenced(w)
    <3>1. RecordUsageInternal(delta)
      BY <2>2 DEF RecordToolIntent
    <3> HIDE DEF delta
    <3> QED
      BY <3>1, <1>5, <1>6, UsageIsAssessed
  <2> QED
    BY <2>1, <2>2
<1>8. TurnEpochs' /\ turns' \in [Workers -> TurnRows]
  BY <1>2, <1>3, <1>5, TurnsKeepEpochs
<1>9. BudgetTypes'
  BY <1>7, <1>8 DEF BudgetCore, BudgetTypes, RecordToolIntent
<1>10. ChargedEntry'
  BY <1>3, <1>4, <1>5 DEF BudgetCore, ChargedEntry
<1>11. \A v \in Workers : LateTurn(v)' => LateTurn(v)
  BY <1>3, <1>4, <1>5 DEF LateTurn
<1> QED
  BY <1>5, <1>7, <1>8, <1>9, <1>10, <1>11 DEF BudgetCore, Accounted, LateIsExhausted, StoppedIsExhausted, Credit

(* The heart of the account: the charge of a late turn spends the resume    *)
(* that Credit kept for it, and leaves neither a late turn nor a Run that   *)
(* runs with an exhausted budget.                                           *)
LEMMA RecordUsageFencedKeepsBudget ==
  ASSUME BudgetCore, NEW w \in Workers, RecordUsageFenced(w)
  PROVE  BudgetCore' /\ (Accounted => Accounted')
<1> DEFINE row == turns'[w]
           delta == [input |-> turns[w].input, output |-> turns[w].output, tools |-> 0]
<1>1. /\ turns \in [Workers -> TurnRows] /\ turns[w] \in TurnRows
      /\ overspent \in Nat /\ resumes \in Nat /\ turns[w].late \in BOOLEAN
  BY DEF BudgetCore, BudgetTypes, TurnRows
<1>2. /\ turns' = [turns EXCEPT ![w] = row] /\ row = [turns[w] EXCEPT !.stage = "charged"]
      /\ turns[w].stage = "working" /\ turns[w].epoch = epoch
  BY <1>1 DEF RecordUsageFenced, Fenced
<1>3. row \in TurnRows /\ row.stage = "charged" /\ row.epoch = turns[w].epoch
  BY <1>1, <1>2 DEF TurnRows
<1>4. delta \in Usages
  BY <1>1 DEF Usages, UsageKinds, TurnRows
<1> HIDE DEF row
<1>5. turns'[w] = row /\ \A v \in Workers \ {w} : turns'[v] = turns[v]
  BY <1>1, <1>2
<1>6. /\ epoch' = epoch /\ budget' = budget /\ resumes' = resumes
      /\ usageEntries' = usageEntries \cup {epoch}
  BY <1>2 DEF RecordUsageFenced
<1>7. /\ usage' \in Usages /\ status' \in Statuses
      /\ Exhausted => Exhausted'
      /\ ~(status' = "running" /\ Exhausted')
      /\ status' = status \/ (status' = "budget_limited" /\ Exhausted')
  <2>1. RecordUsageInternal(delta)
    BY <1>2 DEF RecordUsageFenced, BudgetCore, ChargedEntry
  <2> HIDE DEF delta
  <2> QED
    BY <2>1, <1>4, <1>6, UsageIsAssessed
<1>8. TurnEpochs' /\ turns' \in [Workers -> TurnRows]
  BY <1>2, <1>3, <1>6, TurnsKeepEpochs
<1>9. epoch \in 1 .. epoch
  BY <1>2 DEF BudgetCore, TurnEpochs
<1>10. overspent' \in Nat
  BY <1>1 DEF RecordUsageFenced
<1>11. BudgetTypes'
  BY <1>6, <1>7, <1>8, <1>9, <1>10 DEF BudgetCore, BudgetTypes, RecordUsageFenced
<1>12. \A v \in Workers \ {w} : turns[v].stage = "working" => turns[v].epoch # epoch
  BY <1>2 DEF BudgetCore, TurnEpochs
<1>13. ChargedEntry'
  <2> SUFFICES ASSUME NEW v \in Workers
               PROVE  /\ turns'[v].stage = "charged" => turns'[v].epoch \in usageEntries'
                      /\ turns'[v].stage = "working" => turns'[v].epoch \notin usageEntries'
    BY DEF ChargedEntry
  <2>1. CASE v = w
    <3>1. turns'[w].stage = "charged" /\ turns'[w].epoch = epoch
      BY <1>2, <1>3, <1>5
    <3> QED
      BY <2>1, <3>1, <1>6
  <2>2. CASE v # w
    BY <2>2, <1>5, <1>6, <1>12 DEF BudgetCore, ChargedEntry
  <2> QED
    BY <2>1, <2>2
<1>14. \A v \in Workers : ~LateTurn(v)'
  BY <1>3, <1>5, <1>6, <1>12 DEF LateTurn
<1>15. ASSUME Accounted
       PROVE  overspent' =< resumes' /\ (status' = "queued" => overspent' < resumes')
  <2>1. CASE turns[w].late
    <3>1. overspent < resumes /\ (status = "queued" => overspent + 1 < resumes)
      BY <2>1, <1>2, <1>15 DEF Accounted, Credit, LateTurn
    <3>2. overspent' = overspent + 1
      BY <2>1 DEF RecordUsageFenced
    <3> QED
      BY <1>1, <1>6, <1>7, <3>1, <3>2
  <2>2. CASE ~turns[w].late
    <3>1. overspent' = overspent + 0
      BY <2>2 DEF RecordUsageFenced
    <3> QED
      BY <1>1, <1>6, <1>7, <3>1, <1>15 DEF Accounted, Credit
  <2> QED
    BY <2>1, <2>2
<1> QED
  BY <1>7, <1>8, <1>11, <1>13, <1>14, <1>15
  DEF BudgetCore, Accounted, LateIsExhausted, StoppedIsExhausted, Credit

(* recordCost and the loss of a turn: the turn is gone.                     *)
LEMMA TurnGoneKeepsBudget ==
  ASSUME BudgetCore, NEW w \in Workers, RecordCost(w) \/ TurnLost(w)
  PROVE  BudgetCore' /\ (Accounted => Accounted')
<1>1. turns \in [Workers -> TurnRows]
  BY DEF BudgetCore, BudgetTypes
<1>2. NoTurn \in TurnRows /\ NoTurn.stage = "none"
  BY DEF NoTurn, TurnRows
<1>3. /\ turns' = [turns EXCEPT ![w] = NoTurn] /\ epoch' = epoch /\ budget' = budget
      /\ usage' = usage /\ status' = status /\ usageEntries' = usageEntries
      /\ resumes' = resumes /\ overspent' = overspent
  BY DEF RecordCost, TurnLost
<1>4. costRecords' \subseteq usageEntries
  BY DEF RecordCost, TurnLost, BudgetCore, BudgetTypes, ChargedEntry
<1>5. turns'[w] = NoTurn /\ \A v \in Workers \ {w} : turns'[v] = turns[v]
  BY <1>1, <1>3
<1>6. TurnEpochs' /\ turns' \in [Workers -> TurnRows]
  BY <1>2, <1>3, TurnsKeepEpochs
<1>7. BudgetTypes'
  BY <1>3, <1>4, <1>6 DEF BudgetCore, BudgetTypes
<1>8. ChargedEntry'
  BY <1>2, <1>3, <1>5 DEF BudgetCore, ChargedEntry
<1>9. \A v \in Workers : LateTurn(v)' => LateTurn(v)
  BY <1>2, <1>3, <1>5 DEF LateTurn
<1>10. Exhausted' = Exhausted
  BY <1>3 DEF Exhausted
<1> QED
  BY <1>3, <1>6, <1>7, <1>8, <1>9, <1>10 DEF BudgetCore, Accounted, LateIsExhausted, StoppedIsExhausted, Credit

(* A resume adds the credit it may cost; the start of a queued Run needs    *)
(* none, for the resume that queued it has left one.                        *)
LEMMA OperatorKeepsBudget ==
  ASSUME BudgetCore, Pause \/ Resume \/ StartQueued \/ UNCHANGED budgetVars
  PROVE  BudgetCore' /\ (Accounted => Accounted')
<1>1. /\ turns' = turns /\ epoch' = epoch /\ budget' = budget /\ usage' = usage
      /\ usageEntries' = usageEntries /\ costRecords' = costRecords
      /\ overspent' = overspent
      /\ status' \in Statuses
  BY DEF Pause, Resume, StartQueued, budgetVars, BudgetCore, BudgetTypes, Statuses
<1>2. /\ resumes \in Nat /\ overspent \in Nat /\ resumes' \in 0 .. MaxResumes
      /\ \/ resumes' = resumes + 1 /\ (status' = "queued" => status = "budget_limited")
         \/ resumes' = resumes /\ (status' = "running" => status \in {"queued", "running"})
            /\ (status' = "queued" => status = "queued")
      /\ status' = "budget_limited" => status = "budget_limited"
  BY BudgetAssumption DEF Pause, Resume, StartQueued, budgetVars, BudgetCore, BudgetTypes
<1>3. BudgetTypes'
  BY <1>1, <1>2 DEF BudgetCore, BudgetTypes
<1>4. Exhausted' = Exhausted /\ \A v \in Workers : LateTurn(v)' = LateTurn(v)
  BY <1>1 DEF Exhausted, LateTurn
<1>5. Credit => overspent' =< resumes'
  BY <1>1, <1>2 DEF Credit
<1>6. ASSUME Credit PROVE Credit'
  <2>1. CASE resumes' = resumes + 1
    <3>1. overspent' < resumes'
          /\ ((\E w \in Workers : LateTurn(w)) => overspent' + 1 < resumes')
      BY <1>1, <1>2, <1>6, <2>1 DEF Credit
    <3> QED
      BY <3>1, <1>4, <1>5, <1>6 DEF Credit
  <2>2. CASE /\ resumes' = resumes /\ (status' = "running" => status \in {"queued", "running"})
             /\ (status' = "queued" => status = "queued")
    BY <2>2, <1>1, <1>4, <1>5, <1>6 DEF Credit
  <2> QED
    BY <1>2, <2>1, <2>2
<1>7. TurnEpochs' /\ ChargedEntry'
  BY <1>1 DEF BudgetCore, TurnEpochs, ChargedEntry
<1>8. LateIsExhausted => LateIsExhausted'
  BY <1>4 DEF LateIsExhausted
<1>9. StoppedIsExhausted => StoppedIsExhausted'
  BY <1>2, <1>4 DEF StoppedIsExhausted
<1> QED
  BY <1>3, <1>6, <1>7, <1>8, <1>9 DEF BudgetCore, Accounted

LEMMA BudgetStep ==
  BudgetCore /\ [BudgetNext]_budgetVars => BudgetCore' /\ (Accounted => Accounted')
BY StartSessionEpochKeepsBudget, MergeUsageKeepsBudget, RecordToolIntentKeepsBudget,
   RecordUsageFencedKeepsBudget, TurnGoneKeepsBudget, OperatorKeepsBudget
   DEF BudgetNext

(* recordUsageInternal, recordUsageFenced: in a Run created with room in    *)
(* its budget, each turn that began under an exhausted budget and was       *)
(* charged was let through by a resume of its own, for every number of      *)
(* workers and every interleaving of takeovers, pauses and lost turns.  A   *)
(* Run created with a budget that is exhausted already (a ceiling of zero,  *)
(* or no more than its reserves) runs one turn before the store looks.      *)
THEOREM EveryLateTurnWasResumed ==
  ASSUME \A b \in Budgets : EvaluateBudget(b, NoUsage)
  PROVE  BudgetSpec => []OverspentTurnsAreResumed
<1>1. BudgetInit => BudgetInv
  BY BudgetStarts DEF BudgetInv
<1>2. BudgetInv => OverspentTurnsAreResumed
  BY DEF BudgetInv, Accounted, Credit, OverspentTurnsAreResumed
<1>3. BudgetInv /\ [BudgetNext]_budgetVars => BudgetInv'
  BY BudgetStep DEF BudgetInv
<1> QED
  BY <1>1, <1>2, <1>3, PTL DEF BudgetSpec

-----------------------------------------------------------------------------
(* SemanticIndex.  The generation is what makes overtaking harmless: a      *)
(* build of the current generation builds the snapshot that was requested   *)
(* last, and a build of an older one never gets past its next look at it.   *)

BuildFields == {"pc", "gen", "files", "done"}
BuildShapes ==
  /\ generation \in Nat
  /\ DOMAIN build = Users
  /\ \A u \in Users : DOMAIN build[u] = BuildFields /\ build[u].gen \in 0 .. generation
Latest(u) == build[u].pc = "building" /\ build[u].gen = generation
LatestIsDesired == \A u \in Users : Latest(u) => build[u].files = desired
SomeoneBuilds == indexStatus = "indexing" => \E u \in Users : Latest(u)
ReadyIsDesired ==
  indexStatus = "ready" => indexed = desired /\ chunks = Chunks(desired, DOMAIN desired)
IndexInv == BuildShapes /\ LatestIsDesired /\ SomeoneBuilds /\ ReadyIsDesired

LEMMA IndexStarts == IndexInit => IndexInv
<1> SUFFICES ASSUME IndexInit PROVE IndexInv
  OBVIOUS
<1>1. /\ DOMAIN NoBuild = BuildFields /\ NoBuild.gen = 0 /\ NoBuild.pc = "idle"
  BY DEF NoBuild, BuildFields
<1>2. DOMAIN build = Users /\ \A u \in Users : build[u] = NoBuild
  BY DEF IndexInit
<1> QED
  BY <1>1, <1>2
  DEF IndexInit, IndexInv, BuildShapes, LatestIsDesired, Latest, SomeoneBuilds,
      ReadyIsDesired

(* `index` and `update` up to their first await: the new call is the only   *)
(* one of its generation.                                                   *)
LEMMA StartIndexKeepsIndex ==
  ASSUME IndexInv, NEW u \in Users, NEW files, StartIndex(u, files)
  PROVE  IndexInv'
<1> DEFINE row == [pc |-> "building", gen |-> generation + 1, files |-> files, done |-> {}]
<1>1. /\ DOMAIN row = BuildFields /\ row.gen = generation + 1 /\ row.pc = "building"
      /\ row.files = files
  BY DEF BuildFields
<1>2. /\ generation \in Nat /\ generation' = generation + 1 /\ desired' = files
      /\ indexStatus' = "indexing" /\ DOMAIN build = Users
      /\ build' = [build EXCEPT ![u] = row]
  BY DEF StartIndex, IndexInv, BuildShapes
<1> HIDE DEF row
<1>3. /\ DOMAIN build' = Users /\ build'[u] = row
      /\ \A v \in Users \ {u} : build'[v] = build[v]
  BY <1>2
<1>4. BuildShapes'
  BY <1>1, <1>2, <1>3 DEF IndexInv, BuildShapes
<1>5. \A v \in Users : Latest(v)' => v = u
  BY <1>2, <1>3 DEF IndexInv, BuildShapes, Latest
<1>6. LatestIsDesired'
  BY <1>1, <1>2, <1>3, <1>5 DEF LatestIsDesired
<1>7. SomeoneBuilds'
  BY <1>1, <1>2, <1>3 DEF SomeoneBuilds, Latest
<1> QED
  BY <1>2, <1>4, <1>6, <1>7 DEF IndexInv, ReadyIsDesired

LEMMA BuildYieldsKeepsIndex ==
  ASSUME IndexInv, NEW u \in Users, BuildYields(u)
  PROVE  IndexInv'
<1> DEFINE row == [build[u] EXCEPT !.done = @ \cup Stretch(u)]
<1>1. DOMAIN build = Users /\ DOMAIN build[u] = BuildFields
  BY DEF IndexInv, BuildShapes
<1>2. /\ DOMAIN row = BuildFields /\ row.gen = build[u].gen /\ row.pc = build[u].pc
      /\ row.files = build[u].files
  BY <1>1 DEF BuildFields
<1>3. build' = [build EXCEPT ![u] = row]
  BY <1>1 DEF BuildYields
<1> HIDE DEF row
<1>4. /\ DOMAIN build' = Users /\ build'[u] = row
      /\ \A v \in Users \ {u} : build'[v] = build[v]
  BY <1>1, <1>3
<1>5. /\ generation' = generation /\ desired' = desired /\ indexStatus' = indexStatus
      /\ indexed' = indexed /\ chunks' = chunks
  BY DEF BuildYields
<1>6. \A v \in Users : /\ Latest(v)' <=> Latest(v)
                       /\ build'[v].files = build[v].files
                       /\ DOMAIN build'[v] = BuildFields
                       /\ build'[v].gen = build[v].gen
  BY <1>1, <1>2, <1>4, <1>5 DEF IndexInv, BuildShapes, Latest
<1> QED
  BY <1>4, <1>5, <1>6
  DEF IndexInv, BuildShapes, LatestIsDesired, SomeoneBuilds, ReadyIsDesired

(* A call of `index` ends: it replaces the index only if it is the latest.  *)
LEMMA BuildOverKeepsIndex ==
  ASSUME IndexInv, NEW u \in Users, BuildEnds(u) \/ BuildGivesUp(u)
  PROVE  IndexInv'
<1>1. /\ DOMAIN NoBuild = BuildFields /\ NoBuild.gen = 0 /\ NoBuild.pc = "idle"
  BY DEF NoBuild, BuildFields
<1>2. /\ DOMAIN build = Users /\ build' = [build EXCEPT ![u] = NoBuild]
      /\ generation \in Nat /\ generation' = generation /\ desired' = desired
  BY DEF IndexInv, BuildShapes, BuildEnds, BuildGivesUp
<1>3. /\ DOMAIN build' = Users /\ build'[u] = NoBuild
      /\ \A v \in Users \ {u} : build'[v] = build[v]
  BY <1>2
<1>4. BuildShapes'
  BY <1>1, <1>2, <1>3 DEF IndexInv, BuildShapes
<1>5. \A v \in Users : Latest(v)' <=> v # u /\ Latest(v)
  BY <1>1, <1>2, <1>3 DEF Latest
<1>6. LatestIsDesired'
  BY <1>2, <1>3, <1>5 DEF IndexInv, LatestIsDesired
<1>7. CASE BuildEnds(u)
  <2>1. build[u].files = desired /\ indexStatus' = "ready"
    BY <1>7 DEF BuildEnds, Superseded, Latest, IndexInv, LatestIsDesired
  <2>2. ReadyIsDesired'
    BY <1>2, <1>7, <2>1 DEF BuildEnds, ReadyIsDesired, Chunks
  <2> QED
    BY <1>4, <1>6, <2>1, <2>2 DEF IndexInv, SomeoneBuilds
<1>8. CASE BuildGivesUp(u)
  <2>1. ~Latest(u) /\ UNCHANGED <<indexStatus, indexed, chunks>>
    BY <1>8 DEF BuildGivesUp, Superseded, Latest
  <2> QED
    BY <1>2, <1>4, <1>5, <1>6, <2>1 DEF IndexInv, SomeoneBuilds, ReadyIsDesired
<1> QED
  BY <1>7, <1>8

(* cancel and markUnavailable: whatever is being built is superseded.       *)
LEMMA WithdrawKeepsIndex ==
  ASSUME IndexInv, NEW to \in {"idle", "unavailable"}, Withdraw(to)
  PROVE  IndexInv'
<1>1. /\ generation \in Nat /\ generation' = generation + 1 /\ indexStatus' = to
      /\ build' = build
  BY DEF Withdraw, IndexInv, BuildShapes
<1>2. \A u \in Users : ~Latest(u)'
  BY <1>1 DEF IndexInv, BuildShapes, Latest
<1>3. BuildShapes'
  BY <1>1 DEF IndexInv, BuildShapes
<1> QED
  BY <1>1, <1>2, <1>3 DEF IndexInv, LatestIsDesired, SomeoneBuilds, ReadyIsDesired

LEMMA IndexUntouched ==
  ASSUME IndexInv, UNCHANGED <<indexStatus, generation, indexed, chunks, desired, build>>
  PROVE  IndexInv'
BY DEF IndexInv, BuildShapes, LatestIsDesired, Latest, SomeoneBuilds, ReadyIsDesired

LEMMA IndexStep == IndexInv /\ [IndexNext]_indexVars => IndexInv'
<1> SUFFICES ASSUME IndexInv, [IndexNext]_indexVars PROVE IndexInv'
  OBVIOUS
<1>1. \A u \in Callers : u \in Users
  BY DEF Users
<1>2. Compiler \in Users
  BY DEF Users
<1>3. ASSUME NEW u \in Users, BuildYields(u) \/ BuildEnds(u) \/ BuildGivesUp(u)
      PROVE  IndexInv'
  BY <1>3, BuildYieldsKeepsIndex, BuildOverKeepsIndex
<1>4. ASSUME NEW u \in Callers, NEW files, IndexFiles(u, files)
      PROVE  IndexInv'
  BY <1>1, <1>4, StartIndexKeepsIndex DEF IndexFiles
<1>5. ASSUME NEW u \in Callers, NEW file, NEW removed, UpdateFiles(u, file, removed)
      PROVE  IndexInv'
  BY <1>1, <1>5, StartIndexKeepsIndex DEF UpdateFiles
<1>6. ASSUME Withdraw("idle") \/ Withdraw("unavailable")
      PROVE  IndexInv'
  BY <1>6, WithdrawKeepsIndex
<1>7. ASSUME NEW w \in Workspaces, CompileIndexes(w)
      PROVE  IndexInv'
  BY <1>2, <1>7, StartIndexKeepsIndex DEF CompileIndexes
<1>8. ASSUME NEW w \in Workspaces, NEW p, NEW c, WriteFile(w, p, c) \/ CompileCached(w)
      PROVE  IndexInv'
  BY <1>8, IndexUntouched DEF WriteFile, CompileCached
<1>9. ASSUME CompileSearches \/ UNCHANGED indexVars
      PROVE  IndexInv'
  BY <1>9, IndexUntouched DEF CompileSearches, indexVars
<1> QED
  BY <1>3, <1>4, <1>5, <1>6, <1>7, <1>8, <1>9 DEF IndexNext

(* index, update, cancel and markUnavailable: for every number of callers,  *)
(* every set of files and every stride between two yields, an index that    *)
(* is ready is of the snapshot requested last, and one that says "indexing" *)
(* has a call in flight that will make it so.                               *)
THEOREM ReadyIndexIsCurrent == IndexSpec => []IndexIsCurrent
<1>1. IndexInv => IndexIsCurrent
  BY DEF IndexInv, LatestIsDesired, SomeoneBuilds, ReadyIsDesired, Latest, Superseded,
         IndexIsCurrent
<1> QED
  BY <1>1, IndexStarts, IndexStep, PTL DEF IndexSpec

-----------------------------------------------------------------------------
(* ToolRecovery.  A call that runs again was granted a retry, and a retry   *)
(* is granted only by a contract that DecideToolRecovery lets retry and for *)
(* a failure that has not come back Threshold times.                        *)

CallRows == [stage : {"running", "failed", "done", "held"}, ran : Nat,
             error : Errors \cup {NoError}, same : Nat]
RecoveryInv ==
  /\ contract \in Contracts
  /\ call \in CallRows
  /\ call.stage = "failed" => call.error \in Errors
  /\ call.ran \in 1 .. MaxToolAttempts
  /\ call.ran > 1 => DecideToolRecovery(contract) = "retry"
  /\ call.stage = "running" => call.same < Threshold

(* A sequence of three or more begins a concatenation with the same three. *)
LEMMA FrontThree ==
  ASSUME NEW X, NEW s \in Seq(X), NEW t \in Seq(X), 3 =< Len(s)
  PROVE  /\ s \o t \in Seq(X) /\ 3 =< Len(s \o t)
         /\ \A i \in 1 .. 3 : (s \o t)[i] = s[i]
OBVIOUS

(* What follows a pair in a concatenation is the first of what was appended. *)
LEMMA AfterTwo ==
  ASSUME NEW X, NEW s \in Seq(X), NEW t \in Seq(X), Len(s) = 2, Len(t) = 1
  PROVE  /\ s \o t \in Seq(X) /\ 3 =< Len(s \o t) /\ (s \o t)[3] = t[1]
         /\ \A i \in 1 .. 2 : (s \o t)[i] = s[i]
<1>1. /\ s \o t \in Seq(X) /\ Len(s \o t) = Len(s) + Len(t)
      /\ \A i \in 1 .. Len(s) + Len(t) :
           (s \o t)[i] = IF i <= Len(s) THEN s[i] ELSE t[i - Len(s)]
  BY ConcatProperties, Zenon
<1>2. ASSUME NEW i \in 1 .. 2 PROVE (s \o t)[i] = s[i]
  BY <1>1
<1>3. (s \o t)[3] = t[3 - 2]
  BY <1>1
<1> QED
  BY <1>1, <1>2, <1>3

(* If the third entry of a list of classes takes every error and none of    *)
(* the first three is retryable, the class of an error is not retryable.    *)
LEMMA EarlyClassDecides ==
  ASSUME NEW classes, NEW error, NEW n \in Nat, n >= 3, DOMAIN classes = 1 .. n,
         error \in classes[3].errors,
         \A i \in 1 .. 3 : classes[i].retryable = FALSE
  PROVE  FirstClass(classes, error).retryable = FALSE
<1> DEFINE I == {i \in DOMAIN classes : error \in classes[i].errors}
<1>1. 3 \in I /\ I \subseteq 1 .. n
  OBVIOUS
<1>2. \E x \in I : \A y \in I : x =< y
  <2>1. CASE 1 \in I
    BY <1>1, <2>1
  <2>2. CASE 1 \notin I /\ 2 \in I
    BY <1>1, <2>2
  <2>3. CASE 1 \notin I /\ 2 \notin I
    BY <1>1, <2>3
  <2> QED
    BY <2>1, <2>2, <2>3
<1>3. Min(I) \in I /\ \A y \in I : Min(I) =< y
  BY <1>2 DEF Min
<1> HIDE DEF I
<1>4. Min(I) \in 1 .. 3
  <2>1. Min(I) \in 1 .. n /\ Min(I) =< 3
    BY <1>1, <1>3, Zenon
  <2> QED
    BY <2>1
<1>5. FirstClass(classes, error) = classes[Min(I)]
  BY Zenon DEF FirstClass, I
<1> QED
  BY <1>4, <1>5

(* classify(): a failure that came back as often as the threshold is never  *)
(* retryable, since what is tested before that (an exhausted budget, an     *)
(* external wait) is not retryable either.                                  *)
LEMMA RepeatedIsFinal ==
  ASSUME NEW error \in Errors, NEW same \in Nat, same >= Threshold
  PROVE  Classify(error, same).retryable = FALSE
<1>1. PICK a, b : SettledClasses = << a, b >>
  BY Zenon DEF SettledClasses
<1>2. PICK p1, p2, p3 : ProviderClasses = << p1, p2, p3 >>
  BY Zenon DEF ProviderClasses
<1>3. PICK r1, r2, r3 : RuntimeClasses = << r1, r2, r3 >>
  BY Zenon DEF RuntimeClasses
<1>4. PICK t1, t2, t3, t4 : ToolClasses = << t1, t2, t3, t4 >>
  BY Zenon DEF ToolClasses
<1> DEFINE c == Class(Errors, "repeated_failure", FALSE, {"replan", "fresh_debugger"})
           X == {a, b, c, p1, p2, p3, r1, r2, r3, t1, t2, t3, t4}
           s1 == SettledClasses \o << c >>
           s2 == s1 \o ProviderClasses
           s3 == s2 \o RuntimeClasses
           s4 == s3 \o ToolClasses
<1>5. Classify(error, same) = FirstClass(s4, error)
  BY Zenon DEF Classify
<1>6. c.errors = Errors /\ c.retryable = FALSE
  BY Zenon DEF Class
<1>7. SettledClasses[1].retryable = FALSE /\ SettledClasses[2].retryable = FALSE
  BY DEF SettledClasses, Class
<1> HIDE DEF c
<1>8. /\ SettledClasses \in Seq(X) /\ << c >> \in Seq(X) /\ ProviderClasses \in Seq(X)
      /\ RuntimeClasses \in Seq(X) /\ ToolClasses \in Seq(X)
  BY <1>1, <1>2, <1>3, <1>4
<1>9. Len(SettledClasses) = 2
  BY <1>1
<1> HIDE DEF X
<1>10. /\ s1 \in Seq(X) /\ 3 =< Len(s1) /\ s1[3] = c
       /\ s1[1] = SettledClasses[1] /\ s1[2] = SettledClasses[2]
  <2> DEFINE t == << c >>
  <2>1. t \in Seq(X) /\ Len(t) = 1 /\ t[1] = c
    <3>1. t \in Seq(X)
      BY <1>8, Zenon
    <3>2. Len(t) = 1 /\ t[1] = c
      OBVIOUS
    <3> QED
      BY <3>1, <3>2, Zenon
  <2> HIDE DEF t
  <2>2. /\ SettledClasses \o t \in Seq(X) /\ 3 =< Len(SettledClasses \o t)
        /\ (SettledClasses \o t)[3] = t[1]
        /\ \A i \in 1 .. 2 : (SettledClasses \o t)[i] = SettledClasses[i]
    <3>1. SettledClasses \in Seq(X) /\ t \in Seq(X) /\ Len(SettledClasses) = 2 /\ Len(t) = 1
      BY <1>8, <1>9, <2>1, Zenon
    <3> QED
      BY <3>1, AfterTwo
  <2>3. s1 = SettledClasses \o t
    BY DEF t
  <2> HIDE DEF s1
  <2> QED
    BY <2>1, <2>2, <2>3
<1> HIDE DEF s1
<1>11. s2 \in Seq(X) /\ 3 =< Len(s2) /\ \A i \in 1 .. 3 : s2[i] = s1[i]
  BY <1>8, <1>10, FrontThree, Zenon
<1> HIDE DEF s2
<1>12. s3 \in Seq(X) /\ 3 =< Len(s3) /\ \A i \in 1 .. 3 : s3[i] = s2[i]
  BY <1>8, <1>11, FrontThree, Zenon
<1> HIDE DEF s3
<1>13. s4 \in Seq(X) /\ 3 =< Len(s4) /\ \A i \in 1 .. 3 : s4[i] = s3[i]
  BY <1>8, <1>12, FrontThree, Zenon
<1> HIDE DEF s4
<1>14. DOMAIN s4 = 1 .. Len(s4) /\ Len(s4) \in Nat
  BY <1>13
<1>15. \A i \in 1 .. 3 : s4[i] = s1[i]
  BY <1>11, <1>12, <1>13
<1>16. /\ error \in s4[3].errors
       /\ \A i \in 1 .. 3 : s4[i].retryable = FALSE
  BY <1>6, <1>7, <1>10, <1>15
<1> QED
  BY <1>5, <1>13, <1>14, <1>16, EarlyClassDecides

(* decideToolRecovery: only a tool that is safe to repeat and acts on       *)
(* nothing outside the workspace is retried, and such a one that declares   *)
(* it is.                                                                   *)
LEMMA RetryIsSafe ==
  ASSUME NEW tool \in Contracts
  PROVE  /\ DecideToolRecovery(tool) = "retry" =>
              /\ tool.effect \notin {"external", "destructive"}
              /\ tool.idempotency = "safe"
         /\ ValidToolDefinition(tool) =>
              (DecideToolRecovery(tool) = "retry" <=> tool.recovery = "retry")
<1>1. /\ tool.effect \in {"none", "workspace", "external", "destructive"}
      /\ tool.idempotency \in {"safe", "conditional", "unsafe"}
      /\ tool.recovery \in {"retry", "reconcile", "manual"}
  BY DEF Contracts
<1>2. CASE tool.recovery \in {"manual", "reconcile"}
  BY <1>1, <1>2 DEF DecideToolRecovery
<1>3. CASE tool.recovery = "retry"
  BY <1>1, <1>3 DEF DecideToolRecovery, ValidToolDefinition
<1> QED
  BY <1>1, <1>2, <1>3

LEMMA RecoveryStarts == RecoveryInit => RecoveryInv
<1> SUFFICES ASSUME RecoveryInit PROVE RecoveryInv
  OBVIOUS
<1>1. /\ call.stage = "running" /\ call.ran = 1 /\ call.error = NoError /\ call.same = 0
      /\ call \in CallRows
  BY DEF RecoveryInit, CallRows
<1> QED
  BY <1>1, RecoveryAssumption DEF RecoveryInit, RecoveryInv

LEMMA RecoveryStep == RecoveryInv /\ [RecoveryNext]_recoveryVars => RecoveryInv'
<1> SUFFICES ASSUME RecoveryInv, [RecoveryNext]_recoveryVars PROVE RecoveryInv'
  OBVIOUS
<1>1. /\ call \in CallRows /\ call.ran \in Nat /\ call.same \in Nat
      /\ contract \in Contracts
  BY DEF RecoveryInv, CallRows
<1>2. CASE Succeed
  <2>1. call' = [call EXCEPT !.stage = "done"] /\ contract' = contract
    BY <1>2 DEF Succeed
  <2>2. call' \in CallRows /\ call'.stage = "done" /\ call'.ran = call.ran
    BY <1>1, <2>1 DEF CallRows
  <2> QED
    BY <2>1, <2>2 DEF RecoveryInv
<1>3. ASSUME NEW error \in Errors, FailAttempt(error)
      PROVE  RecoveryInv'
  <2> DEFINE n == IF error = call.error THEN call.same + 1 ELSE 1
  <2>1. n \in Nat
    BY <1>1
  <2>2. call' = [call EXCEPT !.stage = "failed", !.error = error, !.same = n]
    BY <1>3 DEF FailAttempt
  <2> HIDE DEF n
  <2>3. /\ call' \in CallRows /\ call'.stage = "failed" /\ call'.ran = call.ran
        /\ call'.error = error
    BY <1>1, <2>1, <2>2 DEF CallRows
  <2> QED
    BY <1>3, <2>3 DEF RecoveryInv, FailAttempt
<1>4. CASE PlanToolRecovery
  <2>1. CASE MayRetryTool(contract, Classify(call.error, call.same), call.ran)
    <3> DEFINE n == call.ran + 1
    <3>1. call' = [call EXCEPT !.stage = "running", !.ran = n]
      BY <1>4, <2>1 DEF PlanToolRecovery
    <3>a. n \in Nat
      BY <1>1
    <3> HIDE DEF n
    <3>2. /\ call' \in CallRows /\ call'.stage = "running" /\ call'.ran = n
          /\ call'.same = call.same
      BY <1>1, <3>1, <3>a DEF CallRows
    <3>3. /\ DecideToolRecovery(contract) = "retry" /\ call.ran < MaxToolAttempts
          /\ Classify(call.error, call.same).retryable
      BY <2>1 DEF MayRetryTool
    <3>4. call.error \in Errors
      BY <1>4 DEF RecoveryInv, PlanToolRecovery
    <3>5. ~(call.same >= Threshold)
      BY <1>1, <3>3, <3>4, RepeatedIsFinal, Zenon
    <3>6. call.same < Threshold
      BY <1>1, <3>5, RecoveryAssumption
    <3>7. contract' = contract
      BY <1>4 DEF PlanToolRecovery
    <3>8. call'.ran \in 1 .. MaxToolAttempts
      BY <1>1, <3>2, <3>3, RecoveryAssumption DEF n
    <3> QED
      BY <3>2, <3>3, <3>6, <3>7, <3>8 DEF RecoveryInv
  <2>2. CASE ~MayRetryTool(contract, Classify(call.error, call.same), call.ran)
    <3>1. call' = [call EXCEPT !.stage = "held"] /\ contract' = contract
      BY <1>4, <2>2 DEF PlanToolRecovery
    <3>2. call' \in CallRows /\ call'.stage = "held" /\ call'.ran = call.ran
      BY <1>1, <3>1 DEF CallRows
    <3> QED
      BY <3>1, <3>2 DEF RecoveryInv
  <2> QED
    BY <2>1, <2>2
<1>5. CASE UNCHANGED recoveryVars
  BY <1>5 DEF recoveryVars, RecoveryInv
<1> QED
  BY <1>2, <1>3, <1>4, <1>5 DEF RecoveryNext

(* planToolRecovery over classify and decideToolRecovery: for every set of  *)
(* error texts, every limit and every threshold, a tool whose effect may    *)
(* not be repeated runs once, no tool runs more often than the limit, and   *)
(* none again once the same failure came back Threshold times.              *)
THEOREM EffectsRunOnce == RecoverySpec => []EffectRunsOnce
<1>1. RecoveryInv => EffectRunsOnce
  <2> SUFFICES ASSUME RecoveryInv PROVE EffectRunsOnce
    OBVIOUS
  <2>1. /\ call.ran > 1 => /\ contract.effect \notin {"external", "destructive"}
                           /\ contract.idempotency = "safe"
        /\ ValidToolDefinition(contract) =>
             (DecideToolRecovery(contract) = "retry" <=> contract.recovery = "retry")
    BY RetryIsSafe DEF RecoveryInv
  <2>2. call.ran =< MaxToolAttempts /\ (call.stage = "running" => call.same < Threshold)
    BY RecoveryAssumption DEF RecoveryInv
  <2> QED
    BY <2>1, <2>2 DEF EffectRunsOnce
<1> QED
  BY <1>1, RecoveryStarts, RecoveryStep, PTL DEF RecoverySpec

-----------------------------------------------------------------------------
(* ProjectMemory.  Of a record it matters that its confidence is a number   *)
(* (the maximum that upsert takes is then one of those that were said) and  *)
(* that its scope has no other record of the same fact.                     *)

ConfidenceTypes ==
  /\ DOMAIN records = ScopeNames
  /\ \A s \in ScopeNames : \A id \in DOMAIN records[s] :
       records[s][id].confidence \in Confidences
OneRecord == \A s \in ScopeNames : \A i, j \in DOMAIN records[s] :
  records[s][i].fact = records[s][j].fact => i = j
ProjectBar == \A id \in DOMAIN records["project"] :
  /\ records["project"][id].confidence >= MinimumProjectConfidence
  /\ records["project"][id].validated /\ records["project"][id].reusable
RunBar == \A id \in DOMAIN records["run"] :
  records["run"][id].confidence >= MinimumRunConfidence
MemoryInv == ConfidenceTypes /\ OneRecord /\ ProjectBar /\ RunBar

LEMMA ScopesAre ==
  /\ DOMAIN Scopes = 1 .. 3
  /\ Scopes[1] = "ephemeral" /\ Scopes[2] = "run" /\ Scopes[3] = "project"
  /\ ScopeNames = {"ephemeral", "run", "project"}
<1>1. /\ DOMAIN Scopes = 1 .. 3
      /\ Scopes[1] = "ephemeral" /\ Scopes[2] = "run" /\ Scopes[3] = "project"
  BY DEF Scopes
<1>2. ScopeNames = {Scopes[i] : i \in 1 .. 3}
  BY <1>1, Zenon DEF ScopeNames
<1> QED
  BY <1>1, <1>2

LEMMA MemoryStarts == MemoryInit => MemoryInv
<1> SUFFICES ASSUME MemoryInit PROVE MemoryInv
  OBVIOUS
<1>1. DOMAIN records = ScopeNames /\ \A s \in ScopeNames : DOMAIN records[s] = {}
  BY DEF MemoryInit
<1> QED
  BY <1>1, ScopesAre
  DEF MemoryInv, ConfidenceTypes, OneRecord, ProjectBar, RunBar

LEMMA ConfidencesAreNumbers == \A n \in Confidences : n \in Int
<1>1. \A n \in Confidences : n \in 0 .. 10
  BY MemoryAssumption, Zenon
<1> QED
  BY <1>1

(* upsert: the merged record keeps the fact, and is at least as confident,  *)
(* as validated and as reusable as the candidate.                           *)
LEMMA MergedIsNoWeaker ==
  ASSUME MemoryInv, NEW t \in ScopeNames, NEW c, c.confidence \in Confidences
  PROVE  /\ Merged(t, c).fact = c.fact
         /\ Merged(t, c).confidence \in Confidences
         /\ Merged(t, c).confidence >= c.confidence
         /\ c.validated => Merged(t, c).validated
         /\ c.reusable => Merged(t, c).reusable
<1> DEFINE known == {records[t][id] : id \in Existing(t, c.fact)}
           said == {k.confidence : k \in known} \cup {c.confidence}
           max == CHOOSE m \in said : \A n \in said : n <= m
<1>1. said \subseteq Confidences /\ \A n \in said : n \in Int
  <2>1. \A k \in known : k.confidence \in Confidences
    BY DEF MemoryInv, ConfidenceTypes, Existing
  <2> HIDE DEF known
  <2> QED
    BY <2>1, ConfidencesAreNumbers
<1>2. \A k, l \in known : k = l
  BY DEF MemoryInv, OneRecord, Existing
<1> HIDE DEF known
<1>3. \E m \in said : \A n \in said : n <= m
  <2>1. CASE \A k \in known : k.confidence <= c.confidence
    BY <1>1, <2>1
  <2>2. ASSUME NEW k \in known, ~(k.confidence <= c.confidence)
        PROVE  \E m \in said : \A n \in said : n <= m
    <3>1. said = {k.confidence, c.confidence}
      BY <1>2, <2>2
    <3> QED
      BY <1>1, <2>2, <3>1
  <2> QED
    BY <2>1, <2>2
<1> HIDE DEF said
<1>4. max \in said /\ \A n \in said : n <= max
  BY <1>3
<1>5. c.confidence \in said
  BY DEF said
<1> HIDE DEF max
<1>6. Merged(t, c).fact = c.fact /\ Merged(t, c).confidence = max
  BY Zenon DEF Merged, max, said, known
<1>7. c.validated => Merged(t, c).validated
  BY Zenon DEF Merged
<1>8. c.reusable => Merged(t, c).reusable
  BY Zenon DEF Merged
<1>9. max \in Confidences /\ max >= c.confidence
  BY <1>1, <1>4, <1>5
<1> QED
  BY <1>6, <1>7, <1>8, <1>9

(* upsert: no other record of the scope is of the fact that is stored.      *)
LEMMA RecordIsTheOnly ==
  ASSUME MemoryInv, NEW t \in ScopeNames, NEW c, NEW i \in DOMAIN records[t],
         i # RecordId(t, c)
  PROVE  records[t][i].fact # c.fact
<1>1. CASE Existing(t, c.fact) # {}
  <2>1. RecordId(t, c) \in Existing(t, c.fact)
    BY <1>1 DEF RecordId
  <2> QED
    BY <2>1 DEF Existing, MemoryInv, OneRecord
<1>2. CASE Existing(t, c.fact) = {}
  BY <1>2 DEF Existing
<1> QED
  BY <1>1, <1>2

LEMMA UpsertKeepsMemory ==
  ASSUME MemoryInv, NEW t \in ScopeNames, NEW c, c.confidence \in Confidences,
         records' = Upsert(records, t, c),
         t = "run" => c.confidence >= MinimumRunConfidence,
         t = "project" => /\ c.confidence >= MinimumProjectConfidence
                          /\ c.validated /\ c.reusable
  PROVE  MemoryInv'
<1> DEFINE r == RecordId(t, c)
           m == Merged(t, c)
           D == DOMAIN records[t] \cup {r}
<1>1. /\ m.fact = c.fact /\ m.confidence \in Confidences /\ m.confidence >= c.confidence
      /\ (c.validated => m.validated) /\ (c.reusable => m.reusable)
  BY MergedIsNoWeaker, Zenon
<1>2. \A i \in DOMAIN records[t] : i # r => records[t][i].fact # c.fact
  BY RecordIsTheOnly, Zenon
<1>3. records' = [records EXCEPT ![t] = [id \in D |-> IF id = r THEN m ELSE records[t][id]]]
  BY Zenon DEF Upsert
<1> HIDE DEF r, m, D
<1>4. DOMAIN records = ScopeNames
  BY DEF MemoryInv, ConfidenceTypes
<1>5. /\ DOMAIN records' = ScopeNames
      /\ \A s \in ScopeNames \ {t} : records'[s] = records[s]
      /\ DOMAIN records'[t] = D
      /\ \A id \in D : records'[t][id] = IF id = r THEN m ELSE records[t][id]
  BY <1>3, <1>4
<1>6. \A id \in D : id # r => id \in DOMAIN records[t]
  BY DEF D
<1>7. records'[t][r] = m /\ \A id \in D \ {r} : records'[t][id] = records[t][id]
  BY <1>5 DEF D
<1>8. ConfidenceTypes'
  <2> SUFFICES ASSUME NEW s \in ScopeNames, NEW id \in DOMAIN records'[s]
               PROVE  records'[s][id].confidence \in Confidences
    BY <1>5 DEF ConfidenceTypes
  <2>1. CASE s # t
    BY <2>1, <1>5 DEF MemoryInv, ConfidenceTypes
  <2>2. CASE s = t /\ id = r
    BY <2>2, <1>1, <1>7
  <2>3. CASE s = t /\ id # r
    BY <2>3, <1>5, <1>6, <1>7 DEF MemoryInv, ConfidenceTypes
  <2> QED
    BY <2>1, <2>2, <2>3
<1>9. OneRecord'
  <2> SUFFICES ASSUME NEW s \in ScopeNames, NEW i \in DOMAIN records'[s],
                      NEW j \in DOMAIN records'[s],
                      records'[s][i].fact = records'[s][j].fact
               PROVE  i = j
    BY DEF OneRecord
  <2>1. CASE s # t
    BY <2>1, <1>5 DEF MemoryInv, OneRecord
  <2>2. CASE s = t /\ i # r /\ j # r
    BY <2>2, <1>5, <1>6, <1>7 DEF MemoryInv, OneRecord
  <2>3. CASE s = t /\ i = r /\ j # r
    BY <2>3, <1>1, <1>2, <1>5, <1>6, <1>7
  <2>4. CASE s = t /\ i # r /\ j = r
    BY <2>4, <1>1, <1>2, <1>5, <1>6, <1>7
  <2> QED
    BY <2>1, <2>2, <2>3, <2>4
<1>10. "run" \in ScopeNames /\ "project" \in ScopeNames
  BY ScopesAre
<1>11. c.confidence \in Int /\ m.confidence \in Int
  BY <1>1, ConfidencesAreNumbers
<1>12. ProjectBar'
  <2>1. CASE t # "project"
    BY <2>1, <1>5, <1>10 DEF MemoryInv, ProjectBar
  <2>2. CASE t = "project"
    <3>1. m.confidence >= MinimumProjectConfidence /\ m.validated /\ m.reusable
      BY <2>2, <1>1, <1>11 DEF MinimumProjectConfidence
    <3>2. \A id \in D \ {r} : id \in DOMAIN records["project"]
      BY <2>2, <1>6
    <3> QED
      BY <2>2, <3>1, <3>2, <1>5, <1>7 DEF MemoryInv, ProjectBar
  <2> QED
    BY <2>1, <2>2
<1>13. RunBar'
  <2>1. CASE t # "run"
    BY <2>1, <1>5, <1>10 DEF MemoryInv, RunBar
  <2>2. CASE t = "run"
    <3>1. m.confidence >= MinimumRunConfidence
      BY <2>2, <1>1, <1>11 DEF MinimumRunConfidence
    <3>2. \A id \in D \ {r} : id \in DOMAIN records["run"]
      BY <2>2, <1>6
    <3> QED
      BY <2>2, <3>1, <3>2, <1>5, <1>7 DEF MemoryInv, RunBar
  <2> QED
    BY <2>1, <2>2
<1> QED
  BY <1>8, <1>9, <1>12, <1>13 DEF MemoryInv

(* findCandidate: what is found is the record of the id in some scope, its  *)
(* text redacted once more.                                                 *)
LEMMA FoundIsStored ==
  ASSUME NEW id, NEW c \in FindCandidate(records, id)
  PROVE  \E s \in ScopeNames :
           /\ id \in DOMAIN records[s]
           /\ c.id = id /\ c.fact = records[s][id].fact
           /\ c.confidence = records[s][id].confidence
           /\ c.redactions = records[s][id].redactions + RedactSecrets(records[s][id].fact)
<1> DEFINE homes == {i \in DOMAIN Scopes : id \in DOMAIN records[Scopes[i]]}
           first == CHOOSE i \in homes : \A j \in homes : i <= j
           rec == records[Scopes[first]][id]
<1>1. /\ homes # {} /\ c.id = id /\ c.fact = rec.fact /\ c.confidence = rec.confidence
      /\ c.redactions = rec.redactions + RedactSecrets(rec.fact)
  <2> DEFINE found == [id |-> id, fact |-> rec.fact, confidence |-> rec.confidence,
                       validated |-> rec.validated, reusable |-> rec.reusable,
                       redactions |-> rec.redactions + RedactSecrets(rec.fact)]
  <2>1. FindCandidate(records, id) = IF homes = {} THEN {} ELSE {found}
    BY Zenon DEF FindCandidate
  <2> HIDE DEF homes, rec
  <2>2. /\ found.id = id /\ found.fact = rec.fact /\ found.confidence = rec.confidence
        /\ found.redactions = rec.redactions + RedactSecrets(rec.fact)
    OBVIOUS
  <2> HIDE DEF found
  <2>3. homes # {} /\ c = found
    BY <2>1
  <2> QED
    BY <2>2, <2>3, Zenon
<1>2. homes \subseteq 1 .. 3
  BY ScopesAre
<1>3. \A i \in homes : Scopes[i] \in ScopeNames /\ id \in DOMAIN records[Scopes[i]]
  BY DEF ScopeNames
<1> HIDE DEF homes
<1>4. \E i \in homes : \A j \in homes : i <= j
  <2>1. CASE 1 \in homes
    BY <1>2, <2>1
  <2>2. CASE 1 \notin homes /\ 2 \in homes
    BY <1>2, <2>2
  <2>3. CASE 1 \notin homes /\ 2 \notin homes
    <3>1. \A i \in homes : i = 3
      BY <1>2, <2>3
    <3>2. 3 \in homes
      BY <1>1, <3>1
    <3> QED
      BY <3>1, <3>2
  <2> QED
    BY <2>1, <2>2, <2>3
<1>5. first \in homes
  BY <1>4
<1> HIDE DEF first
<1>6. Scopes[first] \in ScopeNames /\ id \in DOMAIN records[Scopes[first]]
  BY <1>3, <1>5
<1> QED
  BY <1>1, <1>6

(* findCandidate: what is found carries a confidence of the scale.          *)
LEMMA FoundIsTyped ==
  ASSUME MemoryInv, NEW id, NEW c \in FindCandidate(records, id)
  PROVE  c.confidence \in Confidences
  BY FoundIsStored DEF MemoryInv, ConfidenceTypes

LEMMA MemoryStep == MemoryInv /\ [MemoryNext]_memoryVars => MemoryInv'
<1> SUFFICES ASSUME MemoryInv, [MemoryNext]_memoryVars PROVE MemoryInv'
  OBVIOUS
<1>1. ASSUME NEW c \in Candidate, Capture(c)
      PROVE  MemoryInv'
  <2> DEFINE n == NormalizeCandidate(c)
  <2>1. n.confidence \in Confidences
    BY DEF NormalizeCandidate, Candidate
  <2>2. records' = Upsert(records, "ephemeral", n)
    BY <1>1 DEF Capture
  <2> HIDE DEF n
  <2>3. "ephemeral" \in ScopeNames
    BY ScopesAre
  <2> QED
    BY <2>1, <2>2, <2>3, UpsertKeepsMemory
<1>2. ASSUME NEW id \in AnyId, NEW wish \in {"none", "run", "project"}, Promote(id, wish)
      PROVE  MemoryInv'
  <2>1. PICK c \in FindCandidate(records, id) :
          LET target == IF wish # "none" THEN wish
                        ELSE IF c.reusable THEN "project" ELSE "run"
          IN MayPromote(c, target) /\ records' = Upsert(records, target, c)
    BY <1>2, Zenon DEF Promote
  <2>2. c.confidence \in Confidences
    BY FoundIsTyped
  <2>3. PICK t \in {"run", "project"} : MayPromote(c, t) /\ records' = Upsert(records, t, c)
    BY <2>1
  <2>4. t \in ScopeNames
    BY ScopesAre
  <2>5. t = "run" => c.confidence >= MinimumRunConfidence
    BY <2>3 DEF MayPromote
  <2>6. t = "project" => /\ c.confidence >= MinimumProjectConfidence
                         /\ c.validated /\ c.reusable
    BY <2>3 DEF MayPromote
  <2> QED
    BY <2>2, <2>3, <2>4, <2>5, <2>6, UpsertKeepsMemory
<1>3. CASE UNCHANGED memoryVars
  BY <1>3 DEF memoryVars, MemoryInv, ConfidenceTypes, OneRecord, ProjectBar, RunBar
<1> QED
  BY <1>1, <1>2, <1>3 DEF MemoryNext

(* capture and promote over upsert: for all facts and ids, a scope has one  *)
(* record of a fact, and what is in the project or Run memory has passed    *)
(* the promotion rules of its scope and still would.                        *)
THEOREM ProjectMemoryIsVetted == MemorySpec => []ProjectIsVetted
<1>1. MemoryInv => ProjectIsVetted
  BY Zenon DEF MemoryInv, OneRecord, ProjectBar, RunBar, ProjectIsVetted
<1> QED
  BY <1>1, MemoryStarts, MemoryStep, PTL DEF MemorySpec

-----------------------------------------------------------------------------
(* ToolPermission.  Nothing an agent is given differs from what the         *)
(* coordinator has but the worktree of its own turn, and no path outside    *)
(* that worktree overlaps it: the turn of a delegate is judged there as the *)
(* coordinator's is.  Every layer's verdict is one of the three effects,    *)
(* and the intersection is no weaker than any of its layers.                *)

AgentRows == [parent : 0 .. MaxAgents, policy : Policies, sandbox : Sandboxes,
              tree : {NoTree} \cup {Tree(a) : a \in 1 .. MaxAgents}]

(* A call was let through only if the coordinator's policy lets each action *)
(* of its tool through.                                                     *)
LastCallCovered ==
  \A tool \in ToolDefs :
    tool.name = asked.tool /\ asked.verdict # "deny" =>
      \A action \in PermissionActionsForTool(tool) :
        PermissionRank(EvaluatePolicy(team[1].policy, action, tool, asked.path))
          >= PermissionRank(asked.verdict)

Inherited(t) ==
  /\ t[1].tree = NoTree
  /\ \A a \in DOMAIN t : /\ t[a].policy = t[1].policy
                         /\ t[a].sandbox = t[1].sandbox
                         /\ t[a].tree \in {NoTree, Tree(a)}

PermissionInv ==
  /\ team \in Seq(AgentRows) /\ Len(team) \in 1 .. MaxAgents
  /\ asked.verdict \in Effects
  /\ Inherited(team)
  /\ LastCallCovered

(* A prefix agrees with what it is a prefix of. *)
LEMMA PrefixAgrees ==
  ASSUME NEW S, NEW s \in Seq(S), NEW t \in Seq(S), IsPrefix(s, t),
         NEW k \in 1 .. Len(s)
  PROVE  s[k] = t[k]
<1>1. Len(s) <= Len(t) /\ Len(s) \in Nat /\ Len(t) \in Nat
  BY DEF IsPrefix
<1>2. SubSeq(s, 1, Len(s))[k] = s[k]
  BY <1>1
<1>3. SubSeq(t, 1, Len(s))[k] = t[k]
  BY <1>1
<1> QED
  BY <1>2, <1>3 DEF IsPrefix

(* Identifiers that differ within both do not overlap. *)
LEMMA ApartDoNotOverlap ==
  ASSUME NEW S, NEW s \in Seq(S), NEW t \in Seq(S),
         NEW k \in Nat \ {0}, k <= Len(s), k <= Len(t), s[k] # t[k]
  PROVE  ~ResourceIdentifiersOverlap(s, t)
<1>1. k \in 1 .. Len(s) /\ k \in 1 .. Len(t)
  BY LenProperties
<1>2. ~IsPrefix(s, t)
  BY <1>1, PrefixAgrees
<1>3. ~IsPrefix(t, s)
  BY <1>1, PrefixAgrees
<1> QED
  BY <1>2, <1>3 DEF ResourceIdentifiersOverlap

(* The worktree of another agent, and the Mission's workspace, lie apart    *)
(* from a worktree.                                                         *)
LEMMA WorktreesLieApart ==
  ASSUME NEW x, NEW y, x # y, NEW relative \in Relative
  PROVE  /\ ~ResourceIdentifiersOverlap(<<"worktrees", x>>, <<"worktrees", y>> \o relative)
         /\ ~ResourceIdentifiersOverlap(<<"worktrees", x>>, <<"workspace">> \o relative)
<1> DEFINE S == {"worktrees", "workspace", "src", "vendor", x, y}
           t == <<"worktrees", x>>
           u == <<"worktrees", y>>
           w == <<"workspace">>
<1>1. t \in Seq(S) /\ u \in Seq(S) /\ w \in Seq(S) /\ relative \in Seq(S)
  <2>1. \A p \in S, q \in S : <<p, q>> \in Seq(S) /\ <<p>> \in Seq(S)
    <3> HIDE DEF S
    <3> QED OBVIOUS
  <2>2. << >> \in Seq(S)
    OBVIOUS
  <2>3. {x, y, "worktrees", "workspace", "src", "vendor"} \subseteq S
    OBVIOUS
  <2> HIDE DEF S
  <2> QED BY <2>1, <2>2, <2>3, Zenon DEF Relative
<1>2. Len(t) = 2 /\ Len(u) = 2 /\ Len(w) = 1 /\ t[1] = "worktrees" /\ t[2] = x
      /\ u[2] = y /\ w[1] = "workspace"
  OBVIOUS
<1> HIDE DEF S, t, u, w
<1>3. u \o relative \in Seq(S) /\ w \o relative \in Seq(S)
  BY <1>1, ConcatProperties
<1>4. Len(u \o relative) >= 2 /\ Len(w \o relative) >= 1
  BY <1>1, <1>2, ConcatProperties, LenProperties
<1>5. (u \o relative)[2] = y /\ (w \o relative)[1] = "workspace"
  BY <1>1, <1>2, ConcatProperties, LenProperties
<1>6. ~ResourceIdentifiersOverlap(t, u \o relative)
  <2>1. t[2] # (u \o relative)[2] /\ 2 <= Len(t) /\ 2 <= Len(u \o relative) /\ 2 \in Nat \ {0}
    BY <1>2, <1>4, <1>5, <1>3, LenProperties
  <2> QED BY <2>1, <1>1, <1>3, ApartDoNotOverlap
<1>7. ~ResourceIdentifiersOverlap(t, w \o relative)
  <2>1. t[1] # (w \o relative)[1] /\ 1 <= Len(t) /\ 1 <= Len(w \o relative) /\ 1 \in Nat \ {0}
    BY <1>2, <1>4, <1>5, <1>3, LenProperties
  <2> QED BY <2>1, <1>1, <1>3, ApartDoNotOverlap
<1> QED
  BY <1>6, <1>7 DEF t, u, w

-----------------------------------------------------------------------------
(* The reduce over effects returns one of them, and none is stricter. *)
LEMMA MostRestrictiveIsLeast ==
  ASSUME NEW E \in SUBSET Effects, NEW s \in Effects
  PROVE  /\ MostRestrictive(E, s) \in Effects
         /\ \A e \in E \cup {s} : PermissionRank(MostRestrictive(E, s)) <= PermissionRank(e)
<1> DEFINE all == E \cup {s}
<1>1. all \subseteq Effects /\ all # {}
  OBVIOUS
<1>2. /\ PermissionRank("allow") = 2 /\ PermissionRank("prompt") = 1
      /\ PermissionRank("deny") = 0
  BY DEF PermissionRank
<1>3. \E e \in all : \A f \in all : PermissionRank(e) <= PermissionRank(f)
  <2>1. CASE "deny" \in all
    BY <2>1, <1>1, <1>2 DEF Effects
  <2>2. CASE "deny" \notin all /\ "prompt" \in all
    BY <2>2, <1>1, <1>2 DEF Effects
  <2>3. CASE "deny" \notin all /\ "prompt" \notin all
    BY <2>3, <1>1, <1>2 DEF Effects
  <2> QED BY <2>1, <2>2, <2>3
<1>4. /\ MostRestrictive(E, s) \in all
      /\ \A f \in all : PermissionRank(MostRestrictive(E, s)) <= PermissionRank(f)
  BY <1>3 DEF MostRestrictive
<1> QED
  BY <1>4, <1>1

LEMMA RanksAreNumbers == \A e \in Effects : PermissionRank(e) \in Int
  BY DEF Effects, PermissionRank

LEMMA PolicyHasEffect ==
  ASSUME NEW p, IsPolicy(p), NEW action, NEW tool, NEW path
  PROVE  EvaluatePolicy(p, action, tool, path) \in Effects
<1> DEFINE matching == {r \in p.rules : RuleMatches(r, action, tool, path)}
           effects  == {r.effect : r \in matching}
<1>1. effects \in SUBSET Effects
  BY DEF IsPolicy
<1>2. CASE p.mode = "custom"
  <2>1. EvaluatePolicy(p, action, tool, path)
          = IF matching = {} THEN "deny" ELSE MostRestrictive(effects, "allow")
    BY <1>2 DEF EvaluatePolicy
  <2>2. "allow" \in Effects /\ "deny" \in Effects
    BY DEF Effects
  <2> QED BY <2>1, <2>2, <1>1, MostRestrictiveIsLeast
<1>3. CASE p.mode # "custom"
  <2>1. EvaluatePolicy(p, action, tool, path)
          = MostRestrictive(effects, DefaultPermissionEffect(p.mode, action))
    BY <1>3 DEF EvaluatePolicy
  <2>2. p.mode \in {"safe", "standard", "autonomous", "unrestricted"}
    BY <1>3 DEF IsPolicy, Modes
  <2>3. DefaultPermissionEffect(p.mode, action) \in Effects
    BY <2>2 DEF DefaultPermissionEffect, Effects
  <2> QED BY <2>1, <2>3, <1>1, MostRestrictiveIsLeast
<1> QED BY <1>2, <1>3

(* An agent whose policies are policies. *)
IsAgent(agent) == IsPolicy(agent.policy) /\ IsPolicy(agent.sandbox.policy)

(* The intersection of the layers is no weaker than the Run's policy. *)
LEMMA PermissionIsCovered ==
  ASSUME NEW agent, IsAgent(agent), NEW action, NEW tool, NEW path
  PROVE  /\ EvaluatePermission(agent, action, tool, path) \in Effects
         /\ PermissionRank(EvaluatePermission(agent, action, tool, path))
              <= PermissionRank(EvaluatePolicy(agent.policy, action, tool, path))
<1> DEFINE own == EvaluatePolicy(agent.policy, action, tool, path)
           box == EvaluatePolicy(agent.sandbox.policy, action, tool, path)
           walls == EvaluateSandboxConstraint(agent.sandbox, action, tool, path)
           marks == IF tool.approval THEN {"prompt"} ELSE {}
           layers == {own, box} \cup walls \cup marks
<1>1. own \in Effects /\ box \in Effects
  BY PolicyHasEffect DEF IsAgent
<1>2. walls \subseteq Effects
  BY DEF EvaluateSandboxConstraint, Effects
<1>3. marks \subseteq Effects
  BY DEF Effects
<1>4. EvaluatePermission(agent, action, tool, path) = MostRestrictive(layers, "allow")
  BY DEF EvaluatePermission
<1> HIDE DEF own, box, walls, marks
<1>5. layers \in SUBSET Effects /\ own \in layers /\ "allow" \in Effects
  BY <1>1, <1>2, <1>3 DEF Effects
<1> HIDE DEF layers
<1> QED
  BY <1>4, <1>5, MostRestrictiveIsLeast DEF own

(* A call is covered by the agent's policy, action by action. *)
LEMMA AuthorizationIsCovered ==
  ASSUME NEW agent, IsAgent(agent), NEW tool, NEW path
  PROVE  /\ AuthorizeTool(agent, tool, path) \in Effects
         /\ \A action \in PermissionActionsForTool(tool) :
              PermissionRank(EvaluatePolicy(agent.policy, action, tool, path))
                >= PermissionRank(AuthorizeTool(agent, tool, path))
<1> DEFINE actions == PermissionActionsForTool(tool)
           all == {EvaluatePermission(agent, action, tool, path) : action \in actions}
<1>1. all \in SUBSET Effects /\ "allow" \in Effects
  BY PermissionIsCovered DEF Effects
<1>2. AuthorizeTool(agent, tool, path) = MostRestrictive(all, "allow")
  BY DEF AuthorizeTool
<1> HIDE DEF actions
<1>3. /\ AuthorizeTool(agent, tool, path) \in Effects
      /\ \A action \in actions :
           PermissionRank(AuthorizeTool(agent, tool, path))
             <= PermissionRank(EvaluatePermission(agent, action, tool, path))
  <2> HIDE DEF all
  <2>1. \A e \in all : PermissionRank(MostRestrictive(all, "allow")) <= PermissionRank(e)
    BY <1>1, MostRestrictiveIsLeast
  <2> QED BY <2>1, <1>1, <1>2, MostRestrictiveIsLeast DEF all
<1>4. ASSUME NEW action \in actions
      PROVE  PermissionRank(EvaluatePolicy(agent.policy, action, tool, path))
               >= PermissionRank(AuthorizeTool(agent, tool, path))
  <2>1. /\ EvaluatePermission(agent, action, tool, path) \in Effects
        /\ PermissionRank(EvaluatePermission(agent, action, tool, path))
             <= PermissionRank(EvaluatePolicy(agent.policy, action, tool, path))
    BY PermissionIsCovered
  <2>2. EvaluatePolicy(agent.policy, action, tool, path) \in Effects
    BY PolicyHasEffect DEF IsAgent
  <2> QED BY <1>3, <2>1, <2>2, RanksAreNumbers
<1> QED
  BY <1>3, <1>4 DEF actions

-----------------------------------------------------------------------------
(* A root that does not overlap a path constrains nothing about it. *)
LEMMA FarRootAddsNothing ==
  ASSUME NEW s \in Sandboxes, NEW root, NEW action, NEW tool, NEW path,
         ~ResourceIdentifiersOverlap(root, path)
  PROVE  LET wider == [s EXCEPT !.writable = @ \cup {root}]
         IN /\ wider.policy = s.policy
            /\ EvaluateSandboxConstraint(wider, action, tool, path)
                 = EvaluateSandboxConstraint(s, action, tool, path)
<1> DEFINE wider == [s EXCEPT !.writable = @ \cup {root}]
           over(roots) == \E r \in roots : ResourceIdentifiersOverlap(r, path)
<1>1. DOMAIN s = {"writable", "readOnly", "network", "process", "policy"}
  BY PermissionAssumption
<1>2. /\ wider.policy = s.policy /\ wider.network = s.network
      /\ wider.process = s.process /\ wider.readOnly = s.readOnly
      /\ wider.writable = s.writable \cup {root}
  BY <1>1
<1> HIDE DEF wider
<1>3. over(wider.writable) <=> over(s.writable)
  BY <1>2
<1>4. EvaluateSandboxConstraint(wider, action, tool, path)
        = EvaluateSandboxConstraint(s, action, tool, path)
  BY <1>2, <1>3, Zenon DEF EvaluateSandboxConstraint
<1> QED
  BY <1>2, <1>4 DEF wider

(* What SandboxForTurn makes of a row. *)
TurnRow(row, tree) ==
  LET place == IF tree = NoTree THEN Mission ELSE tree
  IN IF place = Mission \/ place \in row.sandbox.writable THEN row
     ELSE [row EXCEPT !.sandbox.writable = @ \cup {place}]

(* Away from its worktree a turn is judged by the row it was made from. *)
LEMMA JudgedAlikeOutside ==
  ASSUME NEW row \in AgentRows, NEW tool, NEW path,
         row.tree # NoTree => ~ResourceIdentifiersOverlap(row.tree, path)
  PROVE  AuthorizeTool(TurnRow(row, row.tree), tool, path) = AuthorizeTool(row, tool, path)
<1>1. CASE TurnRow(row, row.tree) = row
  BY <1>1
<1>2. CASE TurnRow(row, row.tree) # row
  <2>1. row.tree # NoTree
    BY <1>2 DEF TurnRow
  <2>2. TurnRow(row, row.tree) = [row EXCEPT !.sandbox.writable = @ \cup {row.tree}]
    BY <1>2, <2>1, Zenon DEF TurnRow
  <2>3. row.sandbox \in Sandboxes
    BY DEF AgentRows
  <2> DEFINE mine == TurnRow(row, row.tree)
  <2>4. /\ mine.policy = row.policy
        /\ mine.sandbox = [row.sandbox EXCEPT !.writable = @ \cup {row.tree}]
    BY <2>2 DEF AgentRows
  <2>5. mine.sandbox.policy = row.sandbox.policy
    BY <2>1, <2>3, <2>4, FarRootAddsNothing
  <2>6. \A action : EvaluateSandboxConstraint(mine.sandbox, action, tool, path)
                      = EvaluateSandboxConstraint(row.sandbox, action, tool, path)
    BY <2>1, <2>3, <2>4, FarRootAddsNothing
  <2> HIDE DEF mine
  <2>7. \A action : EvaluatePermission(mine, action, tool, path)
                      = EvaluatePermission(row, action, tool, path)
    BY <2>4, <2>5, <2>6, Zenon DEF EvaluatePermission
  <2> QED
    BY <2>7, Zenon DEF AuthorizeTool, mine
<1> QED
  BY <1>1, <1>2

(* Rows with the same policy and sandbox are judged alike. *)
LEMMA SameGrantsSameVerdict ==
  ASSUME NEW row, NEW other, row.policy = other.policy, row.sandbox = other.sandbox,
         NEW tool, NEW path
  PROVE  AuthorizeTool(row, tool, path) = AuthorizeTool(other, tool, path)
  BY Zenon DEF AuthorizeTool, EvaluatePermission

(* The rows of the team are agents, and so are the rows of their turns. *)
LEMMA RowsAreAgents ==
  ASSUME NEW row \in AgentRows
  PROVE  IsAgent(row) /\ IsAgent(TurnRow(row, row.tree))
         /\ TurnRow(row, row.tree).policy = row.policy
<1>1. row.sandbox \in Sandboxes /\ row.policy \in Policies
  BY DEF AgentRows
<1>2. IsAgent(row)
  BY <1>1, PermissionAssumption DEF IsAgent
<1>3. ASSUME NEW place, TurnRow(row, row.tree) = [row EXCEPT !.sandbox.writable = @ \cup {place}]
      PROVE  IsAgent(TurnRow(row, row.tree)) /\ TurnRow(row, row.tree).policy = row.policy
  <2> DEFINE mine == TurnRow(row, row.tree)
  <2>1. DOMAIN row.sandbox = {"writable", "readOnly", "network", "process", "policy"}
    BY <1>1, PermissionAssumption
  <2>2. mine.policy = row.policy
        /\ mine.sandbox = [row.sandbox EXCEPT !.writable = @ \cup {place}]
    BY <1>3 DEF AgentRows
  <2>3. mine.sandbox.policy = row.sandbox.policy
    BY <2>1, <2>2
  <2> HIDE DEF mine
  <2>4. IsAgent(mine)
    BY <2>2, <2>3, <1>2 DEF IsAgent
  <2> QED BY <2>2, <2>4 DEF mine
<1>4. CASE TurnRow(row, row.tree) = row
  BY <1>2, <1>4
<1> QED
  BY <1>2, <1>3, <1>4, Zenon DEF TurnRow

-----------------------------------------------------------------------------
(* The coordinator starts with what the operator configured. *)
LEMMA PermissionStarts == PermissionInit => PermissionInv
<1> SUFFICES ASSUME PermissionInit PROVE PermissionInv OBVIOUS
<1>1. PICK policy \in Policies, sandbox \in Sandboxes :
        team = << [parent |-> 0, policy |-> policy, sandbox |-> sandbox, tree |-> NoTree] >>
  BY DEF PermissionInit
<1> DEFINE row == [parent |-> 0, policy |-> policy, sandbox |-> sandbox, tree |-> NoTree]
<1>2. row \in AgentRows /\ row.tree = NoTree
  BY PermissionAssumption DEF AgentRows
<1> HIDE DEF row
<1>3. team = <<row>>
  BY <1>1 DEF row
<1>4. team \in Seq(AgentRows) /\ Len(team) = 1 /\ team[1] = row /\ DOMAIN team = {1}
  BY <1>2, <1>3
<1>5. Len(team) \in 1 .. MaxAgents
  BY <1>4, PermissionAssumption
<1>6. asked.verdict = "deny" /\ asked.verdict \in Effects
  BY DEF PermissionInit, Effects
<1>7. Inherited(team)
  BY <1>2, <1>4 DEF Inherited
<1> QED
  BY <1>4, <1>5, <1>6, <1>7 DEF PermissionInv, LastCallCovered

(* Delegations, worktrees and calls keep PermissionInv. *)
LEMMA PermissionStep == PermissionInv /\ [PermissionNext]_permissionVars => PermissionInv'
<1> SUFFICES ASSUME PermissionInv, [PermissionNext]_permissionVars PROVE PermissionInv' OBVIOUS
<1>1. CASE UNCHANGED permissionVars
  BY <1>1 DEF permissionVars, PermissionInv, LastCallCovered, Inherited
<1>2. ASSUME NEW a \in DOMAIN team, DelegateTask(a) PROVE PermissionInv'
  <2> DEFINE row == [parent |-> a, policy |-> Delegated(a).policy,
                     sandbox |-> Delegated(a).sandbox, tree |-> NoTree]
  <2>1. team' = Append(team, row) /\ asked' = asked /\ Len(team) < MaxAgents
    BY <1>2 DEF DelegateTask
  <2>2. team[a] \in AgentRows /\ a \in 1 .. Len(team) /\ Len(team) \in Nat
    BY DEF PermissionInv
  <2>3. row \in AgentRows
    BY <2>1, <2>2, PermissionAssumption DEF AgentRows, Delegated
  <2>4. /\ row.policy = team[1].policy /\ row.sandbox = team[1].sandbox
        /\ row.tree = NoTree
    BY DEF Delegated, PermissionInv, Inherited
  <2> HIDE DEF row
  <2>5. /\ team' \in Seq(AgentRows) /\ Len(team') = Len(team) + 1
        /\ \A b \in DOMAIN team : team'[b] = team[b]
        /\ team'[Len(team) + 1] = row /\ DOMAIN team' = DOMAIN team \cup {Len(team) + 1}
        /\ 1 \in DOMAIN team
    BY <2>1, <2>2, <2>3 DEF PermissionInv
  <2>6. Len(team') \in 1 .. MaxAgents
    BY <2>1, <2>2, <2>5, PermissionAssumption
  <2>7. Inherited(team')
    BY <2>4, <2>5, Zenon DEF PermissionInv, Inherited
  <2>8. LastCallCovered'
    BY <2>1, <2>5 DEF PermissionInv, LastCallCovered
  <2> QED
    BY <2>1, <2>5, <2>6, <2>7, <2>8 DEF PermissionInv
<1>3. ASSUME NEW a \in DOMAIN team, EnsureAgentWorktree(a) PROVE PermissionInv'
  <2> DEFINE row == [team[a] EXCEPT !.tree = Tree(a)]
  <2>1. team' = [team EXCEPT ![a] = row] /\ asked' = asked /\ a # 1
    BY <1>3 DEF EnsureAgentWorktree
  <2>2. team[a] \in AgentRows /\ a \in 1 .. Len(team) /\ Len(team) \in 1 .. MaxAgents
    BY DEF PermissionInv
  <2>3. a \in 1 .. MaxAgents
    BY <2>2, PermissionAssumption
  <2>4. row \in AgentRows /\ row.policy = team[a].policy /\ row.sandbox = team[a].sandbox
        /\ row.tree = Tree(a)
    BY <2>2, <2>3 DEF AgentRows
  <2> HIDE DEF row
  <2>5. /\ team' \in Seq(AgentRows) /\ Len(team') = Len(team) /\ DOMAIN team' = DOMAIN team
        /\ \A b \in DOMAIN team : team'[b] = IF b = a THEN row ELSE team[b]
        /\ 1 \in DOMAIN team
    BY <2>1, <2>2, <2>4 DEF PermissionInv
  <2>6. Inherited(team')
    BY <2>1, <2>4, <2>5, Zenon DEF PermissionInv, Inherited
  <2>7. LastCallCovered'
    <3>1. team'[1] = team[1]
      BY <2>1, <2>5
    <3> QED BY <2>1, <3>1 DEF PermissionInv, LastCallCovered
  <2> QED
    BY <2>1, <2>2, <2>5, <2>6, <2>7 DEF PermissionInv
<1>4. ASSUME NEW a \in DOMAIN team, NEW tool \in ToolDefs, NEW relative \in Relative,
             CallTool(a, tool, relative)
      PROVE  PermissionInv'
  <2>1. PICK path : path = NamespacedIdentifier(WorkspaceOf(a), relative)
    OBVIOUS
  <2>2. PICK mine : mine = TurnRow(team[a], team[a].tree)
    OBVIOUS
  <2>3. SandboxForTurn(a) = mine
    BY <2>2, Zenon DEF SandboxForTurn, TurnRow, WorkspaceOf
  <2>4. PICK verdict : verdict = AuthorizeTool(mine, tool, path)
    OBVIOUS
  <2>5. asked' = [tool |-> tool.name, path |-> path, verdict |-> verdict] /\ team' = team
    BY <1>4, <2>1, <2>3, <2>4, Zenon DEF CallTool
  <2>6. team[a] \in AgentRows
    BY DEF PermissionInv
  <2>7. IsAgent(mine) /\ mine.policy = team[1].policy
    BY <2>2, <2>6, RowsAreAgents DEF PermissionInv, Inherited
  <2>8. /\ verdict \in Effects
        /\ \A action \in PermissionActionsForTool(tool) :
             PermissionRank(EvaluatePolicy(team[1].policy, action, tool, path))
               >= PermissionRank(verdict)
    BY <2>4, <2>7, AuthorizationIsCovered
  <2>9. asked'.verdict = verdict /\ asked'.path = path /\ asked'.tool = tool.name
    BY <2>5
  <2>10. LastCallCovered'
    <3> SUFFICES ASSUME NEW t \in ToolDefs, t.name = asked'.tool
                 PROVE  \A action \in PermissionActionsForTool(t) :
                          PermissionRank(EvaluatePolicy(team[1].policy, action, t, asked'.path))
                            >= PermissionRank(asked'.verdict)
      BY <2>5 DEF LastCallCovered
    <3>1. t = tool
      BY <2>9, PermissionAssumption
    <3> QED BY <3>1, <2>8, <2>9
  <2> QED
    BY <2>5, <2>8, <2>9, <2>10 DEF PermissionInv, Inherited
<1> QED
  BY <1>1, <1>2, <1>3, <1>4 DEF PermissionNext

(* A delegate's turn is judged as the coordinator's, outside its worktree. *)
LEMMA PermissionInvImplies == PermissionInv => NoCapabilityGained
<1> SUFFICES ASSUME PermissionInv PROVE NoCapabilityGained OBVIOUS
<1>1. ASSUME NEW a \in DOMAIN team \ {1}, NEW tool \in ToolDefs, NEW relative \in Relative,
             NEW w \in {Mission} \cup {Tree(b) : b \in DOMAIN team}, w # team[a].tree
      PROVE  LET path == NamespacedIdentifier(w, relative)
             IN PermissionRank(AuthorizeTool(SandboxForTurn(a), tool, path))
                  <= PermissionRank(AuthorizeTool(team[1], tool, path))
  <2> DEFINE path == NamespacedIdentifier(w, relative)
  <2>1. /\ team[a] \in AgentRows /\ team[1] \in AgentRows
        /\ team[a].policy = team[1].policy /\ team[a].sandbox = team[1].sandbox
        /\ team[a].tree \in {NoTree, Tree(a)}
    BY DEF PermissionInv, Inherited
  <2>2. team[a].tree # NoTree => ~ResourceIdentifiersOverlap(team[a].tree, path)
    <3> SUFFICES ASSUME team[a].tree = Tree(a)
                 PROVE  ~ResourceIdentifiersOverlap(Tree(a), path)
      BY <2>1
    <3>1. PICK x : x = ToString(a)
      OBVIOUS
    <3>2. Tree(a) = <<"worktrees", x>>
      BY <3>1 DEF Tree
    <3>3. CASE w = Mission
      <4>1. path = <<"workspace">> \o relative
        BY <3>3 DEF NamespacedIdentifier, Mission
      <4>2. \E y : x # y
        <5>1. CASE x = 1
          BY <5>1
        <5>2. CASE x # 1
          BY <5>2
        <5> QED BY <5>1, <5>2
      <4> QED BY <4>1, <4>2, <3>2, WorktreesLieApart
    <3>4. ASSUME NEW b \in DOMAIN team, w = Tree(b)
          PROVE  ~ResourceIdentifiersOverlap(Tree(a), path)
      <4>1. PICK y : y = ToString(b)
        OBVIOUS
      <4>2. w = <<"worktrees", y>>
        BY <3>4, <4>1 DEF Tree
      <4>3. x # y
        BY <4>2, <3>2, <1>1
      <4>4. path = <<"worktrees", y>> \o relative
        BY <4>2 DEF NamespacedIdentifier
      <4> QED BY <4>3, <4>4, <3>2, WorktreesLieApart
    <3> QED BY <3>3, <3>4
  <2> HIDE DEF path
  <2>3. SandboxForTurn(a) = TurnRow(team[a], team[a].tree)
    BY Zenon DEF SandboxForTurn, TurnRow, WorkspaceOf
  <2>4. AuthorizeTool(SandboxForTurn(a), tool, path) = AuthorizeTool(team[a], tool, path)
    BY <2>1, <2>2, <2>3, JudgedAlikeOutside
  <2>5. AuthorizeTool(team[a], tool, path) = AuthorizeTool(team[1], tool, path)
    BY <2>1, SameGrantsSameVerdict
  <2>6. PermissionRank(AuthorizeTool(team[1], tool, path)) \in Int
    BY <2>1, RowsAreAgents, AuthorizationIsCovered, RanksAreNumbers
  <2> QED
    BY <2>4, <2>5, <2>6 DEF path
<1>2. LastCallCovered
  BY DEF PermissionInv
<1> QED
  BY <1>1, <1>2 DEF NoCapabilityGained, LastCallCovered

(* PermissionInv says that the state has its type. *)
LEMMA PermissionInvTypes == PermissionInv => PermissionTypeOK
  BY DEF PermissionInv, PermissionTypeOK, AgentRows

(* However deep the delegation goes, no turn is allowed what the            *)
(* coordinator is not, except inside the agent's own worktree, and a call   *)
(* is only let through if the Run's policy lets each of its actions         *)
(* through; for any policies, sandboxes and tools and any number of agents. *)
THEOREM NoDelegateGains == PermissionSpec => []NoCapabilityGained
  BY PermissionStarts, PermissionStep, PermissionInvImplies, PTL DEF PermissionSpec

-----------------------------------------------------------------------------
(* ProviderTurn.  Both counts run from the last sign of progress in the log *)
(* on: of the failures, and of the retries.  A retry is scheduled right     *)
(* after a failure is recorded, so there are never more retries than        *)
(* failures, and the limit on the failures is one on the retries.           *)

EventKinds == ProgressEvents \cup {"provider.failed", "context.compacted", "run.retry_scheduled"}

LastProgress(log) == Max({0} \cup {i \in DOMAIN log : log[i] \in ProgressEvents})

Since(log, kind) == {i \in LastProgress(log) + 1 .. Len(log) : log[i] = kind}

Failures(log) == Cardinality(Since(log, "provider.failed"))
Retries(log)  == Cardinality(Since(log, "run.retry_scheduled"))

(* A log in which the last sign of progress can be found. *)
IsLog(log) == log \in Seq(EventKinds) /\ LastProgress(log) \in 0 .. Len(log)

TurnRowOK(t) ==
  /\ DOMAIN t = {"stage", "candidate", "calls", "made"}
  /\ t.stage \in {"idle", "ask", "answering", "tools", "executing"}
  /\ t.candidate \in 0 .. Candidates
  /\ t.calls \in 0 .. MaxReplies
  /\ t.made \in 0 .. MaxToolCalls

TurnInv ==
  /\ IsLog(events)
  /\ Retries(events) <= Failures(events)
  /\ Retries(events) <= MaxProviderAttempts
  /\ parked \in BOOLEAN /\ aborted \in BOOLEAN
  /\ wake \in Nat \cup {NoWake}
  /\ TurnRowOK(turn)
  /\ turn.stage = "idle" => ~aborted

(* The counts of a log are numbers. *)
LEMMA CountsAreNumbers ==
  ASSUME NEW log, IsLog(log), NEW kind
  PROVE  IsFiniteSet(Since(log, kind)) /\ Cardinality(Since(log, kind)) \in Nat
<1>1. LastProgress(log) + 1 \in Int /\ Len(log) \in Int
  BY DEF IsLog
<1>2. IsFiniteSet(LastProgress(log) + 1 .. Len(log))
  BY <1>1, FS_Interval
<1>3. Since(log, kind) \subseteq LastProgress(log) + 1 .. Len(log)
  BY DEF Since
<1>4. IsFiniteSet(Since(log, kind))
  BY <1>2, <1>3, FS_Subset
<1> QED BY <1>4, FS_CardinalityType

(* A sign of progress starts both counts anew. *)
LEMMA ProgressClears ==
  ASSUME NEW log, IsLog(log), NEW e \in ProgressEvents
  PROVE  /\ IsLog(Append(log, e))
         /\ \A kind : Cardinality(Since(Append(log, e), kind)) = 0
<1> DEFINE longer == Append(log, e)
           n == Len(log)
           S == {0} \cup {i \in DOMAIN longer : longer[i] \in ProgressEvents}
<1>1. /\ longer \in Seq(EventKinds) /\ Len(longer) = n + 1 /\ n \in Nat
      /\ longer[n + 1] = e /\ DOMAIN longer = 1 .. n + 1
  BY DEF IsLog, EventKinds
<1> HIDE DEF longer, n
<1>2. n + 1 \in S /\ \A y \in S : n + 1 >= y
  BY <1>1
<1>3. S \subseteq Int
  BY <1>1
<1> HIDE DEF S
<1>4. Max(S) = n + 1
  <2>1. Max(S) \in S /\ \A y \in S : Max(S) >= y
    BY <1>2 DEF Max
  <2>2. Max(S) \in Int /\ n + 1 \in Int /\ Max(S) >= n + 1 /\ n + 1 >= Max(S)
    BY <2>1, <1>1, <1>2, <1>3
  <2> QED BY <2>2
<1>5. LastProgress(longer) = n + 1
  BY <1>4 DEF LastProgress, S
<1>6. ASSUME NEW kind PROVE Cardinality(Since(longer, kind)) = 0
  <2>1. Since(longer, kind) = {}
    BY <1>1, <1>5 DEF Since
  <2> QED BY <2>1, FS_EmptySet
<1> QED
  BY <1>1, <1>5, <1>6 DEF IsLog, longer

(* Any other event adds one to the count of its kind. *)
LEMMA OtherCounts ==
  ASSUME NEW log, IsLog(log), NEW e \in EventKinds \ ProgressEvents
  PROVE  /\ IsLog(Append(log, e))
         /\ \A kind : Cardinality(Since(Append(log, e), kind))
                        = Cardinality(Since(log, kind)) + IF e = kind THEN 1 ELSE 0
<1> DEFINE longer == Append(log, e)
           n == Len(log)
<1>1. /\ longer \in Seq(EventKinds) /\ Len(longer) = n + 1 /\ n \in Nat
      /\ longer[n + 1] = e /\ DOMAIN longer = 1 .. n + 1 /\ DOMAIN log = 1 .. n
      /\ \A i \in 1 .. n : longer[i] = log[i]
  BY DEF IsLog, EventKinds
<1> HIDE DEF longer
<1>2. {i \in DOMAIN longer : longer[i] \in ProgressEvents}
        = {i \in DOMAIN log : log[i] \in ProgressEvents}
  <2> HIDE DEF n
  <2> QED BY <1>1
<1>3. LastProgress(longer) = LastProgress(log)
  BY <1>2 DEF LastProgress
<1>4. PICK last : last = LastProgress(log)
  OBVIOUS
<1>5. last \in 0 .. n
  BY <1>4 DEF IsLog
<1>6. ASSUME NEW kind
      PROVE  Cardinality(Since(longer, kind))
               = Cardinality(Since(log, kind)) + IF e = kind THEN 1 ELSE 0
  <2>1. Since(longer, kind) = {i \in last + 1 .. n + 1 : longer[i] = kind}
    BY <1>1, <1>3, <1>4 DEF Since
  <2>2. Since(log, kind) = {i \in last + 1 .. n : log[i] = kind}
    BY <1>4 DEF Since
  <2> HIDE DEF n
  <2>3. CASE e = kind
    <3>1. Since(longer, kind) = Since(log, kind) \cup {n + 1}
      BY <2>1, <2>2, <2>3, <1>1, <1>5
    <3>2. n + 1 \notin Since(log, kind)
      BY <2>2, <1>1, <1>5
    <3>3. IsFiniteSet(Since(log, kind))
      BY CountsAreNumbers
    <3> QED BY <3>1, <3>2, <3>3, <2>3, FS_AddElement
  <2>4. CASE e # kind
    <3>1. Since(longer, kind) = Since(log, kind)
      BY <2>1, <2>2, <2>4, <1>1, <1>5
    <3>2. Cardinality(Since(log, kind)) \in Nat
      BY CountsAreNumbers
    <3> QED BY <3>1, <3>2, <2>4
  <2> QED BY <2>3, <2>4
<1>7. IsLog(longer)
  <2>1. last \in 0 .. n + 1
    <3> HIDE DEF n
    <3> QED BY <1>5, <1>1
  <2> QED BY <2>1, <1>1, <1>3, <1>4 DEF IsLog
<1> QED
  BY <1>6, <1>7 DEF longer

(* The counts of the model are these. *)
LEMMA CountsAreThese ==
  /\ \A log : ConsecutiveProviderFailures(log) = Failures(log)
  /\ RetriesSinceProgress = Retries(events)
  BY DEF ConsecutiveProviderFailures, RetriesSinceProgress, Failures, Retries, Since, LastProgress

(* A retry is later by a number of quarter seconds. *)
LEMMA DelaysAreNumbers ==
  ASSUME NEW kind, NEW attempt \in Nat
  PROVE  RetryDelays(kind, attempt) \subseteq Nat
<1>1. PICK b : b = IF attempt > 6 THEN 6 ELSE attempt
  OBVIOUS
<1>2. b \in 0 .. 6
  BY <1>1
<1>3. 2 ^ b \in Nat
  <2>1. 2 ^ 0 \in Nat /\ 2 ^ 1 \in Nat /\ 2 ^ 2 \in Nat /\ 2 ^ 3 \in Nat
    OBVIOUS
  <2>2. 2 ^ 4 \in Nat /\ 2 ^ 5 \in Nat /\ 2 ^ 6 \in Nat
    OBVIOUS
  <2>3. b = 0 \/ b = 1 \/ b = 2 \/ b = 3 \/ b = 4 \/ b = 5 \/ b = 6
    BY <1>2
  <2> QED BY <2>1, <2>2, <2>3, Zenon
<1>4. \A x, y \in Nat : Min({x, y}) \in {x, y} /\ Min({x, y}) <= x /\ Min({x, y}) <= y
  <2> TAKE x, y \in Nat
  <2>1. \E m \in {x, y} : \A z \in {x, y} : m =< z
    BY (x <= y) \/ (y <= x)
  <2> QED BY <2>1 DEF Min
<1>5. PICK power \in Nat : power = 2 ^ b
  BY <1>3
<1>6. PICK base : base = Min({30, power})
  OBVIOUS
<1>7. base \in 0 .. 30
  <2>1. base \in {30, power} /\ base <= 30
    BY <1>4, <1>5, <1>6
  <2> QED BY <2>1, <1>5
<1> DEFINE afters == {after \in RetryAfters : kind \in {"rate_limited", "server"}}
<1>8. RetryDelays(kind, attempt) = {3 * base, Min({120, 5 * base})} \cup afters
  BY <1>1, <1>5, <1>6, Zenon DEF RetryDelays
<1>9. 3 * base \in Nat /\ 5 * base \in Nat
  BY <1>7
<1>10. Min({120, 5 * base}) \in Nat
  <2>1. PICK f \in Nat : f = 5 * base
    BY <1>9
  <2>2. Min({120, f}) \in {120, f} /\ Min({120, f}) <= 120
    BY <1>4
  <2> QED BY <2>1, <2>2
<1>11. afters \subseteq Nat
  BY TurnAssumption
<1> HIDE DEF afters
<1> QED
  BY <1>8, <1>9, <1>10, <1>11

-----------------------------------------------------------------------------
(* No turn has begun. *)
LEMMA TurnStarts == TurnInit => TurnInv
<1> SUFFICES ASSUME TurnInit PROVE TurnInv OBVIOUS
<1>1. events = << >> /\ events \in Seq(EventKinds) /\ Len(events) = 0 /\ DOMAIN events = {}
  BY DEF TurnInit
<1>2. Max({0}) = 0
  BY DEF Max
<1>3. LastProgress(events) = 0
  <2>1. {0} \cup {i \in DOMAIN events : events[i] \in ProgressEvents} = {0}
    BY <1>1
  <2> QED BY <2>1, <1>2 DEF LastProgress
<1>4. \A kind : Since(events, kind) = {}
  <2>1. LastProgress(events) + 1 .. Len(events) = {}
    BY <1>1, <1>3
  <2> QED BY <2>1 DEF Since
<1>5. IsLog(events) /\ Retries(events) = 0 /\ Failures(events) = 0
  <2>1. IsLog(events)
    <3>1. LastProgress(events) \in 0 .. Len(events)
      BY <1>1, <1>3
    <3> QED BY <3>1, <1>1 DEF IsLog
  <2>2. Cardinality({}) = 0
    BY FS_EmptySet
  <2> QED BY <2>1, <2>2, <1>4, Zenon DEF Retries, Failures
<1>6. TurnRowOK(turn) /\ aborted = FALSE /\ parked = FALSE /\ wake = NoWake
  <2>1. TurnRowOK(IdleTurn)
    BY TurnAssumption DEF IdleTurn, TurnRowOK
  <2>2. turn = IdleTurn /\ aborted = FALSE /\ parked = FALSE /\ wake = NoWake
    BY Zenon DEF TurnInit
  <2> QED BY <2>1, <2>2, Zenon
<1>7. Retries(events) <= Failures(events) /\ Retries(events) <= MaxProviderAttempts
  BY <1>5, TurnAssumption
<1>8. parked \in BOOLEAN /\ aborted \in BOOLEAN /\ ~aborted
  BY <1>6, Zenon
<1>9. wake \in Nat \cup {NoWake}
  BY <1>6
<1> QED
  BY <1>5, <1>6, <1>7, <1>8, <1>9, Zenon DEF TurnInv

(* What a step may do to the log and its counts. *)
LogKept == IsLog(events') /\ Retries(events') <= Failures(events')
           /\ Retries(events') <= MaxProviderAttempts

(* The invariant after a step that settled the log, the timer and the turn. *)
LEMMA TurnInvFrom ==
  ASSUME LogKept, parked' \in BOOLEAN, aborted' \in BOOLEAN, wake' \in Nat \cup {NoWake},
         TurnRowOK(turn'), turn'.stage = "idle" => ~aborted'
  PROVE  TurnInv'
  BY DEF LogKept, TurnInv

LEMMA LogUntouched ==
  ASSUME TurnInv, events' = events
  PROVE  LogKept /\ ConsecutiveProviderFailures(events') <= ConsecutiveProviderFailures(events)
<1>1. Failures(events) \in Nat
  BY CountsAreNumbers DEF TurnInv, Failures
<1>2. ConsecutiveProviderFailures(events') = Failures(events)
  BY CountsAreThese
<1>3. ConsecutiveProviderFailures(events) = Failures(events)
  BY CountsAreThese
<1> QED BY <1>1, <1>2, <1>3 DEF TurnInv, LogKept

LEMMA LogShowsProgress ==
  ASSUME TurnInv, NEW e \in ProgressEvents, events' = Append(events, e)
  PROVE  LogKept /\ ConsecutiveProviderFailures(events') <= ConsecutiveProviderFailures(events)
<1>1. IsLog(events') /\ Failures(events') = 0 /\ Retries(events') = 0
  BY ProgressClears DEF TurnInv, Failures, Retries
<1>2. Failures(events) \in Nat
  BY CountsAreNumbers DEF TurnInv, Failures
<1>3. ConsecutiveProviderFailures(events') = Failures(events')
  BY CountsAreThese
<1>4. ConsecutiveProviderFailures(events) = Failures(events)
  BY CountsAreThese
<1> QED BY <1>1, <1>2, <1>3, <1>4, TurnAssumption DEF LogKept

(* The end of a turn. *)
LEMMA TurnEnds ==
  ASSUME EndTurn PROVE TurnRowOK(turn') /\ turn'.stage = "idle" /\ aborted' = FALSE
  BY TurnAssumption DEF EndTurn, IdleTurn, TurnRowOK

(* handleFailure: a retry is counted together with the failure it follows.  *)
LEMMA FailureStep ==
  ASSUME TurnInv, NEW kind, HandleFailure(kind)
  PROVE  TurnInv'
<1> DEFINE failed == Append(events, "provider.failed")
<1>0. /\ "provider.failed" \in EventKinds \ ProgressEvents
      /\ "context.compacted" \in EventKinds \ ProgressEvents
      /\ "run.retry_scheduled" \in EventKinds \ ProgressEvents
  BY DEF EventKinds, ProgressEvents
<1>1. IsLog(failed) /\ Failures(failed) = Failures(events) + 1
      /\ Retries(failed) = Retries(events) + 0
  BY <1>0, OtherCounts DEF TurnInv, Failures, Retries
<1>2. Failures(events) \in Nat /\ Retries(events) \in Nat
  BY CountsAreNumbers DEF TurnInv, Failures, Retries
<1>3. TurnRowOK(turn') /\ aborted' = FALSE /\ turn'.stage = "idle"
  BY TurnEnds DEF HandleFailure
<1>4. PICK c : c = ConsecutiveProviderFailures(failed)
  OBVIOUS
<1>5. c = Failures(failed) /\ c \in Nat
  BY <1>1, <1>2, <1>4, CountsAreThese
<1> HIDE DEF failed
<1>6. CASE events' = Append(failed, "context.compacted") /\ UNCHANGED <<parked, wake>>
  <2>1. IsLog(events') /\ Failures(events') = Failures(failed) + 0
        /\ Retries(events') = Retries(failed) + 0
    BY <1>0, <1>1, <1>6, OtherCounts DEF Failures, Retries
  <2>2. LogKept
    BY <2>1, <1>1, <1>2 DEF LogKept, TurnInv
  <2> QED BY <2>2, <1>3, <1>6, TurnInvFrom DEF TurnInv
<1>7. CASE /\ c <= MaxProviderAttempts /\ (\E k : wake' \in RetryDelays(k, c))
           /\ events' = Append(failed, "run.retry_scheduled") /\ UNCHANGED parked
  <2>1. IsLog(events') /\ Failures(events') = Failures(failed) + 0
        /\ Retries(events') = Retries(failed) + 1
    BY <1>0, <1>1, <1>7, OtherCounts DEF Failures, Retries
  <2>2. LogKept
    BY <2>1, <1>1, <1>2, <1>5, <1>7, TurnAssumption DEF LogKept, TurnInv
  <2>3. wake' \in Nat \cup {NoWake}
    BY <1>5, <1>7, DelaysAreNumbers
  <2> QED BY <2>2, <2>3, <1>3, <1>7, TurnInvFrom DEF TurnInv
<1>8. CASE events' = failed /\ parked' = TRUE /\ UNCHANGED wake
  <2>1. LogKept
    BY <1>1, <1>2, <1>8 DEF LogKept, TurnInv
  <2> QED BY <2>1, <1>3, <1>8, TurnInvFrom DEF TurnInv
<1> QED
  BY <1>4, <1>6, <1>7, <1>8, Zenon DEF HandleFailure, failed

(* handleAbort counts, schedules and parks nothing. *)
LEMMA AbortStep ==
  ASSUME TurnInv, HandleAbort PROVE TurnInv'
<1>1. TurnRowOK(turn') /\ aborted' = FALSE /\ UNCHANGED <<events, parked, wake>>
  BY TurnEnds DEF HandleAbort
<1>2. LogKept
  BY <1>1, LogUntouched
<1> QED BY <1>1, <1>2, TurnInvFrom DEF TurnInv

(* A step within the turn. *)
LEMMA WithinTurn ==
  ASSUME TurnInv, UNCHANGED <<events, parked, wake, aborted>>,
         TurnRowOK(turn'), turn'.stage # "idle" \/ ~aborted
  PROVE  TurnInv'
<1>1. LogKept
  BY LogUntouched
<1> QED BY <1>1, TurnInvFrom DEF TurnInv

(* What the action property says of a step. *)
Contained ==
  /\ RetriesSinceProgress' <= MaxProviderAttempts
  /\ aborted => /\ turn'.stage \in {turn.stage, "idle", "ask"}
                /\ ConsecutiveProviderFailures(events')
                     <= ConsecutiveProviderFailures(events)
                /\ wake' <= wake
                /\ parked' => parked

(* Every step of the turn keeps the invariant and is contained. *)
LEMMA QuietStep ==
  ASSUME TurnInv, UNCHANGED <<events, parked, wake>>,
         aborted => turn'.stage \in {turn.stage, "idle", "ask"}
  PROVE  Contained
<1>1. LogKept /\ ConsecutiveProviderFailures(events') <= ConsecutiveProviderFailures(events)
  BY LogUntouched
<1>2. RetriesSinceProgress' = Retries(events')
  BY CountsAreThese DEF RetriesSinceProgress, Retries, Since, LastProgress
<1>3. wake' <= wake
  BY DEF TurnInv, NoWake
<1> QED BY <1>1, <1>2, <1>3 DEF Contained, LogKept

LEMMA UnabortedStep ==
  ASSUME TurnInv', ~aborted PROVE Contained
<1>1. RetriesSinceProgress' = Retries(events')
  BY DEF RetriesSinceProgress, Retries, Since, LastProgress
<1> QED BY <1>1 DEF Contained, TurnInv

LEMMA TurnStep ==
  ASSUME TurnInv, TurnNext PROVE TurnInv' /\ Contained
<1>0. turn.stage \in {"idle", "ask", "answering", "tools", "executing"}
  BY DEF TurnInv, TurnRowOK
<1>1. CASE HandleAbort
  <2>1. UNCHANGED <<events, parked, wake>> /\ turn'.stage = "idle"
    BY <1>1, TurnEnds DEF HandleAbort
  <2> QED BY <2>1, <1>1, AbortStep, QuietStep
<1>2. ASSUME NEW kind, HandleFailure(kind), ~aborted PROVE TurnInv' /\ Contained
  BY <1>2, FailureStep, UnabortedStep
<1>3. CASE StartTurn
  <2>1. turn' = [IdleTurn EXCEPT !.stage = "ask", !.candidate = 1]
        /\ UNCHANGED <<events, parked, wake, aborted>>
    BY <1>3 DEF StartTurn
  <2>2. TurnRowOK(turn') /\ turn'.stage = "ask"
    BY <2>1, TurnAssumption DEF IdleTurn, TurnRowOK
  <2> QED BY <2>1, <2>2, WithinTurn, QuietStep
<1>4. CASE Ask
  <2>1. CASE aborted
    BY <2>1, <1>4, <1>1 DEF Ask
  <2>2. CASE ~aborted
    <3>1. turn' = [turn EXCEPT !.stage = "answering"]
          /\ UNCHANGED <<events, parked, wake, aborted>>
      BY <2>2, <1>4 DEF Ask
    <3>2. TurnRowOK(turn') /\ turn'.stage = "answering"
      BY <3>1 DEF TurnInv, TurnRowOK
    <3> QED BY <2>2, <3>1, <3>2, WithinTurn, QuietStep
  <2> QED BY <2>1, <2>2
<1>5. ASSUME NEW calls \in 0 .. MaxReplies, Complete(calls) PROVE TurnInv' /\ Contained
  <2>1. CASE aborted
    BY <2>1, <1>5, <1>1 DEF Complete
  <2>2. CASE ~aborted /\ events' = Append(events, "agent.message") /\ EndTurn
             /\ UNCHANGED <<parked, wake>>
    <3>1. TurnRowOK(turn') /\ aborted' = FALSE
      BY <2>2, TurnEnds
    <3>2. LogKept
      BY <2>2, LogShowsProgress DEF ProgressEvents
    <3>3. TurnInv'
      BY <2>2, <3>1, <3>2, TurnInvFrom DEF TurnInv
    <3> QED BY <2>2, <3>3, UnabortedStep
  <2>3. CASE ~aborted /\ turn' = [turn EXCEPT !.stage = "tools", !.calls = calls]
             /\ UNCHANGED <<events, parked, wake, aborted>>
    <3>1. TurnRowOK(turn') /\ turn'.stage = "tools"
      BY <2>3 DEF TurnInv, TurnRowOK
    <3> QED BY <2>3, <3>1, WithinTurn, QuietStep
  <2> QED BY <2>1, <2>2, <2>3, <1>5 DEF Complete
<1>6. ASSUME NEW kind \in FailureKinds, CandidateFails(kind) PROVE TurnInv' /\ Contained
  <2>1. CASE Thrown(kind)
    <3>1. CASE aborted
      BY <2>1, <3>1, <1>1 DEF Thrown
    <3>2. CASE ~aborted
      BY <2>1, <3>2, <1>2 DEF Thrown
    <3> QED BY <3>1, <3>2
  <2>2. CASE turn.candidate # Candidates /\ UNCHANGED <<events, parked, wake, aborted>>
             /\ turn' = [turn EXCEPT !.stage = "ask", !.candidate = @ + 1]
    <3>1. turn.candidate + 1 \in 0 .. Candidates
      BY <2>2, TurnAssumption DEF TurnInv, TurnRowOK
    <3>2. TurnRowOK(turn') /\ turn'.stage = "ask"
      BY <2>2, <3>1 DEF TurnInv, TurnRowOK
    <3> QED BY <2>2, <3>2, WithinTurn, QuietStep
  <2> QED BY <2>1, <2>2, <1>6 DEF CandidateFails
<1>7. CASE NextToolCall
  <2>1. CASE aborted
    BY <2>1, <1>7, <1>1 DEF NextToolCall
  <2>2. CASE ~aborted /\ HandleFailure("malformed_output")
    BY <2>2, <1>2
  <2> DEFINE left == [turn EXCEPT !.calls = @ - 1, !.made = @ + 1]
  <2>3. CASE /\ ~aborted /\ turn.calls > 0 /\ turn.made < MaxToolCalls /\ turn.stage = "tools"
             /\ turn' = left \/ turn' = [left EXCEPT !.stage = "executing"]
             /\ UNCHANGED <<events, parked, wake, aborted>>
    <3>1. turn.calls - 1 \in 0 .. MaxReplies /\ turn.made + 1 \in 0 .. MaxToolCalls
      BY <2>3, TurnAssumption DEF TurnInv, TurnRowOK
    <3>2. /\ DOMAIN left = {"stage", "candidate", "calls", "made"}
          /\ left.stage = "tools" /\ left.candidate = turn.candidate
          /\ left.calls = turn.calls - 1 /\ left.made = turn.made + 1
      BY <2>3 DEF TurnInv, TurnRowOK
    <3> HIDE DEF left
    <3>3. TurnRowOK(turn') /\ turn'.stage # "idle"
      <4>1. CASE turn' = left
        BY <4>1, <3>1, <3>2 DEF TurnInv, TurnRowOK
      <4>2. CASE turn' = [left EXCEPT !.stage = "executing"]
        BY <4>2, <3>1, <3>2 DEF TurnInv, TurnRowOK
      <4> QED BY <4>1, <4>2, <2>3
    <3> QED BY <2>3, <3>3, WithinTurn, QuietStep
  <2> QED BY <2>1, <2>2, <2>3, <1>7 DEF NextToolCall
<1>8. CASE AskAgain
  <2>1. turn' = [turn EXCEPT !.stage = "ask", !.candidate = 1]
        /\ UNCHANGED <<events, parked, wake, aborted>>
    BY <1>8 DEF AskAgain
  <2>2. TurnRowOK(turn') /\ turn'.stage = "ask"
    BY <2>1, TurnAssumption DEF TurnInv, TurnRowOK
  <2> QED BY <2>1, <2>2, WithinTurn, QuietStep
<1>9. CASE ToolFinishes
  <2>1. events' = Append(events, "tool.call_finished") /\ UNCHANGED <<parked, wake>>
    BY <1>9 DEF ToolFinishes
  <2>2. LogKept /\ ConsecutiveProviderFailures(events') <= ConsecutiveProviderFailures(events)
    BY <2>1, LogShowsProgress DEF ProgressEvents
  <2>3. CASE aborted
    <3>1. TurnRowOK(turn') /\ aborted' = FALSE /\ turn'.stage = "idle"
      BY <2>3, <1>9, TurnEnds DEF ToolFinishes
    <3>2. TurnInv'
      BY <2>1, <2>2, <3>1, TurnInvFrom DEF TurnInv
    <3>3. RetriesSinceProgress' = Retries(events')
      BY DEF RetriesSinceProgress, Retries, Since, LastProgress
    <3>4. wake' <= wake
      BY <2>1 DEF TurnInv, NoWake
    <3> QED BY <2>1, <2>2, <3>1, <3>2, <3>3, <3>4 DEF Contained, LogKept
  <2>4. CASE ~aborted
    <3>1. turn' = [turn EXCEPT !.stage = "tools"] /\ aborted' = aborted
      BY <2>4, <1>9 DEF ToolFinishes
    <3>2. TurnRowOK(turn')
      BY <3>1 DEF TurnInv, TurnRowOK
    <3>3. TurnInv'
      BY <2>1, <2>2, <2>4, <3>1, <3>2, TurnInvFrom DEF TurnInv
    <3> QED BY <2>4, <3>3, UnabortedStep
  <2> QED BY <2>3, <2>4
<1>10. CASE ToolNeedsApproval
  <2>1. TurnRowOK(turn') /\ aborted' = FALSE /\ turn'.stage = "idle"
    BY <1>10, TurnEnds DEF ToolNeedsApproval
  <2>2. events' = events /\ wake' = wake /\ parked' \in BOOLEAN /\ (aborted => parked' = parked)
    <3>1. parked' = (parked \/ ~aborted) /\ UNCHANGED <<events, wake>>
      BY <1>10 DEF ToolNeedsApproval
    <3>2. parked \in BOOLEAN /\ aborted \in BOOLEAN
      BY DEF TurnInv
    <3> QED BY <3>1, <3>2, Zenon
  <2>3. TurnInv'
    BY <2>1, <2>2, LogUntouched, TurnInvFrom DEF TurnInv
  <2>4. CASE aborted
    BY <2>1, <2>2, <2>3, <2>4, QuietStep
  <2> QED BY <2>3, <2>4, UnabortedStep
<1>11. CASE Abort
  <2>1. aborted' = TRUE /\ ~aborted /\ turn.stage # "idle" /\ UNCHANGED <<events, parked, wake, turn>>
    BY <1>11 DEF Abort
  <2>2. TurnInv'
    BY <2>1, LogUntouched, TurnInvFrom DEF TurnInv
  <2> QED BY <2>1, <2>2, UnabortedStep
<1>12. CASE Wake
  <2>1. wake # NoWake /\ wake' = NoWake /\ UNCHANGED <<events, parked, turn, aborted>>
    BY <1>12 DEF Wake
  <2>2. TurnInv'
    BY <2>1, LogUntouched, TurnInvFrom DEF TurnInv
  <2>3. RetriesSinceProgress' = Retries(events')
    BY DEF RetriesSinceProgress, Retries, Since, LastProgress
  <2>4. wake' <= wake
    BY <2>1 DEF TurnInv, NoWake
  <2> QED BY <2>1, <2>2, <2>3, <2>4, LogUntouched DEF Contained, LogKept
<1>13. CASE Unpark
  <2>1. parked /\ parked' = FALSE /\ UNCHANGED <<events, wake, turn, aborted>>
    BY <1>13 DEF Unpark
  <2>2. TurnInv'
    BY <2>1, LogUntouched, TurnInvFrom DEF TurnInv
  <2>3. RetriesSinceProgress' = Retries(events')
    BY DEF RetriesSinceProgress, Retries, Since, LastProgress
  <2>4. wake' <= wake
    BY <2>1 DEF TurnInv, NoWake
  <2> QED BY <2>1, <2>2, <2>3, <2>4, LogUntouched DEF Contained, LogKept
<1> QED
  BY <1>3, <1>4, <1>5, <1>6, <1>7, <1>8, <1>9, <1>10, <1>11, <1>12, <1>13 DEF TurnNext

(* A step that leaves the turn alone keeps the invariant. *)
LEMMA TurnRests == ASSUME TurnInv, UNCHANGED turnVars PROVE TurnInv'
<1>1. UNCHANGED <<events, parked, wake, turn, aborted>>
  BY DEF turnVars
<1>2. LogKept
  BY <1>1, LogUntouched
<1> QED BY <1>1, <1>2, TurnInvFrom DEF TurnInv

(* The turn's state has its type. *)
LEMMA TurnInvTypes == TurnInv => TurnTypeOK
  BY DEF TurnInv, TurnTypeOK, TurnRowOK, IsLog, EventKinds

(* A provider that keeps failing is retried at most MaxProviderAttempts     *)
(* times between two signs that it works, whatever overflows, aborts, parks *)
(* and resumes happen in between, and a turn that was aborted counts no     *)
(* failure, schedules no retry and parks no Run; for any number of          *)
(* candidates and any limits.                                               *)
THEOREM FailuresStayContained == TurnSpec => FailuresAreContained
<1>1. TurnInv /\ [TurnNext]_turnVars => TurnInv'
  BY TurnStep, TurnRests
<1>2. TurnInv /\ [TurnNext]_turnVars => [Contained]_turnVars
  BY TurnStep
<1>3. [][Contained]_turnVars => FailuresAreContained
  BY PTL DEF FailuresAreContained, Contained
<1> QED
  BY <1>1, <1>2, <1>3, TurnStarts, PTL DEF TurnSpec

-----------------------------------------------------------------------------
(* AgentRuntime, the mailbox.  A message that was delivered or acknowledged *)
(* has been delivered once at least, so what is older than a message that   *)
(* is claimed and was never delivered is queued or cancelled: and the       *)
(* queued ones are claimed with it.                                         *)

MailShape ==
  /\ mail \in Seq(Message) /\ Len(mail) <= MaxMessages
  /\ index = KeysOfMail
  /\ MailAccepted

AcknowledgedWereDelivered ==
  \A i \in DOMAIN mail : mail[i].status = "acknowledged" => mail[i].deliveries > 0

DeliveriesAreNamed ==
  \A i \in DOMAIN mail : mail[i].delivery \in {Repeated, mail[i].deliveries}

MailInv ==
  MailShape /\ AcknowledgedWereDelivered /\ DeliveriesAreNamed /\ DeliveryIsOrderly

LEMMA MailStarts == AgentInit => MailInv
<1> SUFFICES ASSUME AgentInit PROVE MailInv OBVIOUS
<1>1. mail = << >> /\ index = {} /\ DOMAIN mail = {} /\ Len(mail) = 0 /\ mail \in Seq(Message)
  BY DEF AgentInit
<1>2. KeysOfMail = {}
  BY <1>1 DEF KeysOfMail
<1>3. MailAccepted
  BY <1>1 DEF MailAccepted
<1>4. MailShape
  BY <1>1, <1>2, <1>3, AgentAssumption DEF MailShape
<1> QED
  BY <1>1, <1>4 DEF MailInv, AcknowledgedWereDelivered, DeliveriesAreNamed, DeliveryIsOrderly

(* The messages as they are: a field at a time. *)
LEMMA MessagesAre ==
  ASSUME MailShape, NEW i \in DOMAIN mail
  PROVE  /\ mail[i] \in Message
         /\ i \in Nat /\ i \in 1 .. Len(mail) /\ Len(mail) \in Nat
         /\ mail[i].deliveries \in Nat /\ mail[i].delivery \in Nat
         /\ mail[i].acked \in Nat
<1>1. mail[i] \in Message /\ i \in 1 .. Len(mail) /\ Len(mail) \in Nat
  BY DEF MailShape
<1> QED
  BY <1>1 DEF Message

(* A step that changes no message's addressee, id or key keeps the index.   *)
Readdressed ==
  /\ DOMAIN mail' = DOMAIN mail
  /\ \A i \in DOMAIN mail :
       /\ mail'[i].to = mail[i].to /\ mail'[i].id = mail[i].id
       /\ mail'[i].key = mail[i].key

LEMMA IndexKept ==
  ASSUME MailShape, Readdressed, index' = index, mail' \in Seq(Message),
         Len(mail') = Len(mail),
         \A i \in DOMAIN mail' : mail'[i].status = "delivered" => mail'[i].deliveries > 0
  PROVE  MailShape'
<1>1. KeysOfMail' = KeysOfMail
  BY DEF KeysOfMail, Readdressed
<1>2. MailAccepted'
  BY DEF MailAccepted, MailShape, Readdressed
<1> QED
  BY <1>1, <1>2 DEF MailShape

(* sendMessage: the new message is the last, its id and its key are new. *)
LEMMA SendKeepsMail ==
  ASSUME MailInv, NEW a \in AgentIds, NEW key \in Keys \cup {NoKey}, NEW content \in Contents,
         SendMessage(a, key, content)
  PROVE  MailInv'
<1> DEFINE id == <<a, IF key = NoKey THEN Len(mail) + 1 ELSE key>>
           row == [to |-> a, id |-> id, key |-> key, content |-> content, deliveries |-> 0,
                   delivery |-> 0, acked |-> 0, status |-> "queued"]
           n == Len(mail) + 1
<1>1. /\ mail' = Append(mail, row) /\ index' = Indexed(a, key, id)
      /\ Len(mail) < MaxMessages /\ id \notin MailIds
      /\ key # NoKey => \A x \in index : <<x[1], x[2]>> # <<a, key>>
  BY DEF SendMessage
<1>2. Len(mail) \in Nat /\ key \in Nat
  BY AgentAssumption DEF MailInv, MailShape, NoKey
<1>3. id \in AgentIds \X Nat
  BY <1>2
<1> HIDE DEF id
<1>4. row \in Message
  BY <1>3 DEF Message
<1>5. row.to = a /\ row.id = id /\ row.key = key /\ row.deliveries = 0 /\ row.delivery = 0
      /\ row.status = "queued"
  OBVIOUS
<1> HIDE DEF row
<1>6. /\ mail' \in Seq(Message) /\ Len(mail') = n /\ mail'[n] = row
      /\ DOMAIN mail' = DOMAIN mail \cup {n} /\ n \notin DOMAIN mail /\ n \in Nat
      /\ \A i \in DOMAIN mail : mail'[i] = mail[i]
      /\ \A i \in DOMAIN mail : i < n /\ i \in Nat
  BY <1>1, <1>2, <1>4 DEF MailInv, MailShape
<1>7. Len(mail') <= MaxMessages
  BY <1>1, <1>2, <1>6, AgentAssumption
<1> HIDE DEF n
<1>8. \A i \in DOMAIN mail : mail[i].id # id
  BY <1>1 DEF MailIds
<1>9. key # NoKey => \A i \in DOMAIN mail : mail[i].to = a => mail[i].key # key
  <2> SUFFICES ASSUME key # NoKey, NEW i \in DOMAIN mail, mail[i].to = a, mail[i].key = key
               PROVE  FALSE
    OBVIOUS
  <2>1. <<a, key, mail[i].id>> \in index
    BY DEF MailInv, MailShape, KeysOfMail
  <2> QED BY <2>1, <1>1
<1>10. MailAccepted'
  <2>1. \A i \in DOMAIN mail' : mail'[i].status = "delivered" => mail'[i].deliveries > 0
    BY <1>5, <1>6 DEF MailInv, MailShape, MailAccepted
  <2>2. ASSUME NEW i \in DOMAIN mail', NEW j \in DOMAIN mail', i # j
        PROVE  /\ mail'[i].id # mail'[j].id
               /\ mail'[i].to = mail'[j].to /\ mail'[i].key # NoKey
                    => mail'[i].key # mail'[j].key
    <3>1. CASE i \in DOMAIN mail /\ j \in DOMAIN mail
      BY <2>2, <3>1, <1>6 DEF MailInv, MailShape, MailAccepted
    <3>2. CASE i = n /\ j \in DOMAIN mail
      BY <3>2, <1>5, <1>6, <1>8, <1>9
    <3>3. CASE i \in DOMAIN mail /\ j = n
      BY <3>3, <1>5, <1>6, <1>8, <1>9
    <3> QED BY <2>2, <3>1, <3>2, <3>3, <1>6
  <2> QED BY <2>1, <2>2 DEF MailAccepted
<1>11. index' = KeysOfMail'
  <2> DEFINE kept == {<<mail[i].to, mail[i].key, mail[i].id>> :
                        i \in {j \in DOMAIN mail : mail[j].key # NoKey}}
  <2>1. index = kept
    BY DEF MailInv, MailShape, KeysOfMail
  <2>2. KeysOfMail' = {<<mail'[i].to, mail'[i].key, mail'[i].id>> :
                         i \in {j \in DOMAIN mail' : mail'[j].key # NoKey}}
    BY DEF KeysOfMail
  <2>3. CASE key = NoKey
    <3>1. KeysOfMail' = kept
      BY <2>2, <2>3, <1>5, <1>6
    <3> QED BY <3>1, <2>1, <2>3, <1>1 DEF Indexed
  <2>4. CASE key # NoKey
    <3>1. KeysOfMail' = kept \cup {<<a, key, id>>}
      BY <2>2, <2>4, <1>5, <1>6
    <3> QED BY <3>1, <2>1, <2>4, <1>1 DEF Indexed
  <2> QED BY <2>3, <2>4
<1>12. AcknowledgedWereDelivered'
  BY <1>5, <1>6 DEF MailInv, AcknowledgedWereDelivered
<1>14. DeliveriesAreNamed'
  BY <1>5, <1>6 DEF MailInv, DeliveriesAreNamed
<1>13. DeliveryIsOrderly'
  <2>1. ASSUME NEW i \in DOMAIN mail', NEW j \in DOMAIN mail', i < j,
               mail'[i].to = mail'[j].to, mail'[j].deliveries > 0
        PROVE  mail'[i].deliveries > 0 \/ mail'[i].status = "cancelled"
    <3>1. j \in DOMAIN mail
      BY <2>1, <1>5, <1>6
    <3>2. i \in DOMAIN mail
      BY <2>1, <3>1, <1>6
    <3> QED BY <2>1, <3>1, <3>2, <1>6 DEF MailInv, DeliveryIsOrderly
  <2>2. \A i \in DOMAIN mail' :
          mail'[i].status = "acknowledged" => mail'[i].acked \in {0, mail'[i].deliveries}
    BY <1>5, <1>6 DEF MailInv, DeliveryIsOrderly
  <2> QED BY <2>1, <2>2 DEF DeliveryIsOrderly
<1> QED
  BY <1>6, <1>7, <1>10, <1>11, <1>12, <1>13, <1>14 DEF MailInv, MailShape

(* The oldest of a finite set of messages are claimed before the others. *)
LEMMA OlderIsFirst ==
  ASSUME NEW n \in Nat, NEW S \in SUBSET (1 .. n), NEW limit \in Nat,
         NEW j \in First(S, limit), NEW i \in S, i < j
  PROVE  i \in First(S, limit)
<1> DEFINE before(k) == {x \in S : x < k}
<1>1. j \in S /\ Cardinality(before(j)) < limit
  BY DEF First
<1>2. IsFiniteSet(1 .. n)
  BY FS_Interval
<1>3. IsFiniteSet(before(j))
  BY <1>2, FS_Subset
<1>4. before(i) \subseteq before(j)
  <2>1. i \in Int /\ j \in Int /\ \A x \in S : x \in Int
    BY <1>1
  <2>2. \A x \in S : x < i => x < j
    BY <2>1
  <2> QED BY <2>2
<1>5. Cardinality(before(i)) <= Cardinality(before(j)) /\ Cardinality(before(i)) \in Nat
      /\ Cardinality(before(j)) \in Nat
  BY <1>3, <1>4, FS_Subset, FS_CardinalityType
<1>6. Cardinality(before(i)) < limit
  <2> HIDE DEF before
  <2> QED BY <1>1, <1>5
<1> QED
  BY <1>6 DEF First

(* claim: the oldest queued messages of an agent. *)
LEMMA ClaimKeepsMail ==
  ASSUME MailInv, NEW a \in AgentIds, NEW limit \in 1 .. 2, NEW repeated \in BOOLEAN,
         ClaimMessages(a, limit, repeated)
  PROVE  MailInv'
<1>1. PICK claimed : claimed = First(Queued(a), limit)
  OBVIOUS
<1>2. /\ index' = index
      /\ mail' = [i \in DOMAIN mail |-> mail'[i]]
      /\ \A i \in DOMAIN mail :
           /\ i \notin claimed => mail'[i] = mail[i]
           /\ i \in claimed =>
                mail'[i] = [mail[i] EXCEPT !.status = "delivered", !.deliveries = @ + 1,
                                           !.delivery = DeliveryId(i, repeated)]
  <2> DEFINE row(i) == IF i \notin claimed THEN mail[i]
                       ELSE [mail[i] EXCEPT !.status = "delivered", !.deliveries = @ + 1,
                                            !.delivery = DeliveryId(i, repeated)]
  <2>1. index' = index /\ mail' = [i \in DOMAIN mail |-> row(i)]
    BY <1>1, Zenon DEF ClaimMessages
  <2>2. \A i \in DOMAIN mail :
          /\ i \notin claimed => row(i) = mail[i]
          /\ i \in claimed =>
               row(i) = [mail[i] EXCEPT !.status = "delivered", !.deliveries = @ + 1,
                                        !.delivery = DeliveryId(i, repeated)]
    BY Zenon
  <2> HIDE DEF row
  <2>3. \A i \in DOMAIN mail : mail'[i] = row(i)
    BY <2>1, Zenon
  <2> QED BY <2>1, <2>2, <2>3, Zenon
<1>3. Queued(a) \subseteq DOMAIN mail /\ claimed \subseteq Queued(a)
  BY <1>1 DEF Queued, First
<1>4. ASSUME NEW i \in DOMAIN mail
      PROVE  /\ mail'[i] \in Message
             /\ mail'[i].to = mail[i].to /\ mail'[i].id = mail[i].id
             /\ mail'[i].key = mail[i].key
             /\ i \notin claimed => mail'[i] = mail[i]
             /\ i \in claimed => /\ mail'[i].status = "delivered"
                                 /\ mail'[i].deliveries = mail[i].deliveries + 1
                                 /\ mail'[i].delivery \in {Repeated, mail'[i].deliveries}
  <2>1. mail[i] \in Message /\ mail[i].deliveries + 1 \in Nat
    BY MessagesAre DEF MailInv
  <2>2. CASE i \notin claimed
    <3>1. mail'[i] = mail[i]
      BY <1>2, <2>2, Zenon
    <3> QED BY <2>1, <2>2, <3>1
  <2>3. CASE i \in claimed
    <3>1. PICK id \in Nat : /\ id = DeliveryId(i, repeated)
                            /\ id \in {Repeated, mail[i].deliveries + 1}
      BY <2>1 DEF DeliveryId, Repeated
    <3>2. mail'[i] = [mail[i] EXCEPT !.status = "delivered", !.deliveries = @ + 1,
                                     !.delivery = id]
      BY <1>2, <2>3, <3>1, Zenon
    <3> QED BY <2>1, <2>3, <3>1, <3>2 DEF Message
  <2> QED BY <2>2, <2>3, Zenon
<1>5. DOMAIN mail' = DOMAIN mail
  BY <1>2, Zenon
<1>6. mail' \in Seq(Message) /\ Len(mail') = Len(mail)
  <2>1. DOMAIN mail = 1 .. Len(mail) /\ Len(mail) \in Nat
    BY DEF MailInv, MailShape
  <2>2. mail' \in [1 .. Len(mail) -> Message]
    <3>1. mail' = [i \in 1 .. Len(mail) |-> mail'[i]]
      BY <1>2, <2>1, Zenon
    <3>2. \A i \in 1 .. Len(mail) : mail'[i] \in Message
      BY <1>4, <2>1
    <3> QED BY <3>1, <3>2, Zenon
  <2> QED BY <2>1, <2>2
<1>7. \A i \in DOMAIN mail : mail[i].deliveries \in Nat
  BY MessagesAre DEF MailInv
<1>8. \A i \in DOMAIN mail' : mail'[i].status = "delivered" => mail'[i].deliveries > 0
  BY <1>4, <1>5, <1>7 DEF MailInv, MailShape, MailAccepted
<1>9. MailShape'
  <2>1. index' = index
    BY <1>2, Zenon
  <2> QED BY <2>1, <1>4, <1>5, <1>6, <1>8, IndexKept DEF Readdressed, MailInv
<1>10. AcknowledgedWereDelivered'
  BY <1>4, <1>5, <1>7 DEF MailInv, AcknowledgedWereDelivered
<1>11. ASSUME NEW i \in DOMAIN mail, NEW j \in DOMAIN mail, i < j,
              mail[i].to = mail[j].to, mail'[j].deliveries > 0
       PROVE  mail'[i].deliveries > 0 \/ mail'[i].status = "cancelled"
  <2>1. CASE i \in claimed
    BY <2>1, <1>4, <1>7
  <2>2. CASE i \notin claimed /\ j \notin claimed
    BY <2>2, <1>4, <1>11 DEF MailInv, DeliveryIsOrderly
  <2>3. CASE i \notin claimed /\ j \in claimed
    <3>1. i \notin Queued(a)
      <4> SUFFICES ASSUME i \in Queued(a) PROVE FALSE
        OBVIOUS
      <4>1. Queued(a) \in SUBSET (1 .. Len(mail)) /\ Len(mail) \in Nat /\ limit \in Nat
        BY <1>3 DEF MailInv, MailShape
      <4>2. i \in First(Queued(a), limit)
        BY <4>1, <2>3, <1>1, <1>11, OlderIsFirst
      <4> QED BY <4>2, <1>1, <2>3
    <3>2. mail[i].to = a
      BY <2>3, <1>3, <1>11 DEF Queued
    <3>3. mail[i].status # "queued"
      BY <3>1, <3>2 DEF Queued
    <3>4. mail[i].status \in {"delivered", "acknowledged", "cancelled"}
      BY <3>3, MessagesAre DEF MailInv, Message
    <3>5. mail'[i] = mail[i]
      BY <2>3, <1>4
    <3> QED BY <3>4, <3>5 DEF MailInv, MailShape, MailAccepted, AcknowledgedWereDelivered
  <2> QED BY <2>1, <2>2, <2>3
<1>12. \A i \in DOMAIN mail :
         mail'[i].status = "acknowledged" => mail'[i].acked \in {0, mail'[i].deliveries}
  BY <1>4 DEF MailInv, DeliveryIsOrderly
<1>13. DeliveryIsOrderly'
  BY <1>4, <1>5, <1>11, <1>12 DEF DeliveryIsOrderly
<1>14. DeliveriesAreNamed'
  BY <1>4, <1>5 DEF MailInv, DeliveriesAreNamed
<1> QED
  BY <1>9, <1>10, <1>13, <1>14 DEF MailInv

(* The other operations settle one message. *)
LEMMA SettleKeepsMail ==
  ASSUME MailInv, NEW i \in DOMAIN mail, NEW row \in Message, index' = index,
         mail' = [mail EXCEPT ![i] = row],
         row.to = mail[i].to, row.id = mail[i].id, row.key = mail[i].key,
         row.deliveries = mail[i].deliveries, row.delivery = mail[i].delivery,
         mail[i].status # "cancelled",
         row.status \in {"delivered", "acknowledged"} => row.deliveries > 0,
         row.status = "acknowledged" => row.acked \in {0, row.deliveries}
  PROVE  MailInv'
<1>1. DOMAIN mail' = DOMAIN mail /\ \A j \in DOMAIN mail : mail'[j] = IF j = i THEN row ELSE mail[j]
  OBVIOUS
<1>2. mail' \in Seq(Message) /\ Len(mail') = Len(mail)
  BY DEF MailInv, MailShape
<1>3. \A j \in DOMAIN mail' : mail'[j].status = "delivered" => mail'[j].deliveries > 0
  BY <1>1 DEF MailInv, MailShape, MailAccepted
<1>4. Readdressed
  BY <1>1 DEF Readdressed
<1>5. MailShape'
  BY <1>2, <1>3, <1>4, IndexKept DEF MailInv
<1>6. AcknowledgedWereDelivered'
  BY <1>1 DEF MailInv, AcknowledgedWereDelivered
<1>7. ASSUME NEW j \in DOMAIN mail, NEW k \in DOMAIN mail, j < k,
             mail'[j].to = mail'[k].to, mail'[k].deliveries > 0
      PROVE  mail'[j].deliveries > 0 \/ mail'[j].status = "cancelled"
  <2>1. mail'[k].deliveries = mail[k].deliveries /\ mail[j].to = mail[k].to
    BY <1>1, <1>7
  <2>2. mail[j].deliveries > 0 \/ mail[j].status = "cancelled"
    BY <2>1, <1>7 DEF MailInv, DeliveryIsOrderly
  <2> QED BY <2>2, <1>1
<1>8. \A j \in DOMAIN mail :
        mail'[j].status = "acknowledged" => mail'[j].acked \in {0, mail'[j].deliveries}
  BY <1>1 DEF MailInv, DeliveryIsOrderly
<1>9. DeliveryIsOrderly'
  BY <1>1, <1>7, <1>8 DEF DeliveryIsOrderly
<1>10. DeliveriesAreNamed'
  BY <1>1 DEF MailInv, DeliveriesAreNamed
<1> QED
  BY <1>5, <1>6, <1>9, <1>10 DEF MailInv

LEMMA AcknowledgeKeepsMail ==
  ASSUME MailInv, NEW i \in DOMAIN mail, NEW n \in 1 .. mail[i].deliveries,
         NEW passed \in BOOLEAN, NEW id \in {n, Repeated},
         AcknowledgeMessage(i, n, id, passed)
  PROVE  MailInv'
<1>1. mail[i] \in Message /\ mail[i].deliveries \in Nat /\ mail[i].delivery \in Nat
  BY MessagesAre DEF MailInv
<1>2. /\ mail[i].status = "delivered" /\ (passed => mail[i].delivery = id)
      /\ n \in Nat /\ n > 0 /\ mail[i].deliveries > 0
  BY <1>1 DEF AcknowledgeMessage, Current
<1>3. PICK d \in Nat : /\ d = IF passed /\ id # Repeated THEN n ELSE 0
                       /\ d \in {0, mail[i].deliveries}
  <2>1. passed /\ id # Repeated => mail[i].delivery = n
    BY <1>2
  <2>2. passed /\ id # Repeated => mail[i].deliveries = n
    BY <2>1, <1>2 DEF MailInv, DeliveriesAreNamed
  <2> QED BY <1>2, <2>2
<1> DEFINE row == [mail[i] EXCEPT !.status = "acknowledged", !.acked = d]
<1>4. mail' = [mail EXCEPT ![i] = row] /\ index' = index
  BY <1>3, Zenon DEF AcknowledgeMessage
<1>5. /\ row \in Message /\ row.to = mail[i].to /\ row.id = mail[i].id /\ row.key = mail[i].key
      /\ row.deliveries = mail[i].deliveries /\ row.delivery = mail[i].delivery
      /\ row.status = "acknowledged" /\ row.acked = d
  BY <1>1 DEF Message
<1> HIDE DEF row
<1> QED BY <1>2, <1>3, <1>4, <1>5, SettleKeepsMail

LEMMA RequeueKeepsMail ==
  ASSUME MailInv, NEW i \in DOMAIN mail, NEW n, NEW id, NEW passed,
         RequeueMessage(i, n, id, passed)
  PROVE  MailInv'
<1> DEFINE row == [mail[i] EXCEPT !.status = "queued"]
<1>1. mail[i] \in Message
  BY MessagesAre DEF MailInv
<1>2. mail' = [mail EXCEPT ![i] = row] /\ index' = index
  BY Zenon DEF RequeueMessage
<1>3. mail[i].status = "delivered"
  BY DEF RequeueMessage, Current
<1>4. /\ row \in Message /\ row.to = mail[i].to /\ row.id = mail[i].id /\ row.key = mail[i].key
      /\ row.deliveries = mail[i].deliveries /\ row.delivery = mail[i].delivery
      /\ row.status = "queued"
  BY <1>1 DEF Message
<1> HIDE DEF row
<1> QED BY <1>2, <1>3, <1>4, SettleKeepsMail

LEMMA CancelKeepsMail ==
  ASSUME MailInv, NEW i \in DOMAIN mail, CancelMessage(i)
  PROVE  MailInv'
<1> DEFINE row == [mail[i] EXCEPT !.status = "cancelled"]
<1>1. mail[i] \in Message
  BY MessagesAre DEF MailInv
<1>2. mail' = [mail EXCEPT ![i] = row] /\ index' = index
  BY Zenon DEF CancelMessage
<1>3. mail[i].status # "cancelled"
  BY DEF CancelMessage
<1>4. /\ row \in Message /\ row.to = mail[i].to /\ row.id = mail[i].id /\ row.key = mail[i].key
      /\ row.deliveries = mail[i].deliveries /\ row.delivery = mail[i].delivery
      /\ row.status = "cancelled"
  BY <1>1 DEF Message
<1> HIDE DEF row
<1> QED BY <1>2, <1>3, <1>4, SettleKeepsMail

LEMMA MailRests ==
  ASSUME MailInv, UNCHANGED <<mail, index>> PROVE MailInv'
<1>1. KeysOfMail' = KeysOfMail /\ (MailAccepted <=> MailAccepted')
  BY DEF KeysOfMail, MailAccepted
<1> QED
  BY <1>1 DEF MailInv, MailShape, AcknowledgedWereDelivered, DeliveriesAreNamed,
              DeliveryIsOrderly

(* Every operation keeps MailInv. *)
LEMMA MailStep == MailInv /\ [AgentNext]_agentVars => MailInv'
<1> SUFFICES ASSUME MailInv, [AgentNext]_agentVars PROVE MailInv' OBVIOUS
<1>1. CASE UNCHANGED agentVars
  BY <1>1, MailRests DEF agentVars
<1>2. CASE Restart
  <2>1. UNCHANGED <<mail, index>>
    BY <1>2 DEF Restart, MailInv, MailShape
  <2> QED BY <2>1, MailRests
<1>3. ASSUME NEW a \in AgentIds,
             \/ RegisterRoot(a) \/ CloseSpawnEdge(a) \/ CloseAgent(a)
             \/ ResumeAgent(a) \/ AdmitAgent(a)
             \/ \E p \in AgentIds : Spawn(p, a)
             \/ \E next \in AgentStatus : TransitionAgent(a, next)
      PROVE  MailInv'
  <2>1. UNCHANGED <<mail, index>>
    BY <1>3, Zenon DEF RegisterRoot, CloseSpawnEdge, CloseAgent, ResumeAgent, AdmitAgent, Spawn,
                TransitionAgent
  <2> QED BY <2>1, MailRests
<1> QED
  BY <1>1, <1>2, <1>3, SendKeepsMail, ClaimKeepsMail, AcknowledgeKeepsMail, RequeueKeepsMail,
     CancelKeepsMail, Zenon DEF AgentNext

(* Each agent receives its messages in the order they were sent, whatever   *)
(* is requeued or cancelled meanwhile, and a stale receiver that passes its *)
(* own delivery id settles none; for any agents, keys and bounds.           *)
THEOREM MailIsOrderly == AgentSpec => []DeliveryIsOrderly
<1>1. MailInv => DeliveryIsOrderly
  BY DEF MailInv
<1> QED BY <1>1, MailStarts, MailStep, PTL DEF AgentSpec

-----------------------------------------------------------------------------
(* AgentRuntime, the graph.  The two edge indexes list the same edges, each *)
(* edge agrees with the parent its child names, and every agent has a depth *)
(* below the number of agents: so the walk up from an agent ends at a root, *)
(* and the walk down from that root along open edges comes back to it.      *)

GraphRows == [parent : AgentIds \cup {NoAgent}, status : AgentStatus]
EdgeRows  == [parent : AgentIds, state : {"open", "closed"}]

(* edgesByParent as the constructor builds it from edgesByChild. *)
ListOf(edges) ==
  [p \in AgentIds |-> {[child |-> c, state |-> edges[c].state] :
                        c \in {x \in DOMAIN edges : edges[x].parent = p}}]

Parentage ==
  /\ DOMAIN agents \subseteq AgentIds
  /\ \A a \in DOMAIN agents : agents[a] \in GraphRows
  /\ DOMAIN byChild \subseteq DOMAIN agents
  /\ \A a \in DOMAIN byChild : byChild[a] \in EdgeRows
  /\ \A a \in DOMAIN agents :
       /\ agents[a].parent = NoAgent <=> a \notin DOMAIN byChild
       /\ agents[a].parent # NoAgent => /\ agents[a].parent \in DOMAIN agents \ {a}
                                        /\ byChild[a].parent = agents[a].parent
  /\ byParent = ListOf(byChild)
  /\ changes \in 0 .. MaxChanges

DepthsOf(rows, d) ==
  /\ d \in [DOMAIN rows -> Nat]
  /\ \A a \in DOMAIN rows :
       /\ d[a] < Cardinality(DOMAIN rows)
       /\ rows[a].parent = NoAgent => d[a] = 0
       /\ rows[a].parent # NoAgent => d[a] = d[rows[a].parent] + 1

GraphInv == Parentage /\ \E d : DepthsOf(agents, d)

LEMMA StatusesAre == {"created", "closed", "queued", "running"} \subseteq AgentStatus
  BY DEF AgentStatus, AgentTransitions

LEMMA NoAgentIsNone == NoAgent \notin AgentIds
  BY AgentAssumption DEF NoAgent

LEMMA GraphStarts == AgentInit => GraphInv
<1> SUFFICES ASSUME AgentInit PROVE GraphInv OBVIOUS
<1>1. DOMAIN agents = {} /\ DOMAIN byChild = {} /\ byParent = [a \in AgentIds |-> {}] /\ changes = 0
  BY DEF AgentInit
<1>2. ListOf(byChild) = [a \in AgentIds |-> {}]
  BY <1>1 DEF ListOf
<1>3. Parentage
  BY <1>1, <1>2, AgentAssumption DEF Parentage
<1>4. DepthsOf(agents, [x \in {} |-> 0])
  BY <1>1 DEF DepthsOf
<1> QED BY <1>3, <1>4 DEF GraphInv

(* setEdge keeps the two indexes alike, if the child has no other parent. *)
LEMMA EdgeIsListed ==
  ASSUME NEW edges, NEW p \in AgentIds, NEW c, NEW state,
         c \in DOMAIN edges => edges[c].parent = p
  PROVE  [ListOf(edges) EXCEPT ![p] =
            {e \in ListOf(edges)[p] : e.child # c} \cup {[child |-> c, state |-> state]}]
           = ListOf(With(edges, c, [parent |-> p, state |-> state]))
<1> DEFINE lists == ListOf(edges)
           row == [child |-> c, state |-> state]
           after == With(edges, c, [parent |-> p, state |-> state])
           new == [lists EXCEPT ![p] = {e \in lists[p] : e.child # c} \cup {row}]
<1>1. /\ DOMAIN after = DOMAIN edges \cup {c}
      /\ after[c].parent = p /\ after[c].state = state
      /\ \A x \in DOMAIN edges : x # c => after[x] = edges[x]
  BY DEF With
<1> HIDE DEF after
<1>2. ASSUME NEW q \in AgentIds PROVE new[q] = ListOf(after)[q]
  <2>1. ListOf(after)[q] = {[child |-> x, state |-> after[x].state] :
                              x \in {y \in DOMAIN after : after[y].parent = q}}
    BY DEF ListOf
  <2>2. lists[q] = {[child |-> x, state |-> edges[x].state] :
                      x \in {y \in DOMAIN edges : edges[y].parent = q}}
    BY DEF ListOf
  <2>3. CASE q = p
    <3>1. new[q] = {e \in lists[q] : e.child # c} \cup {row}
      BY <2>3 DEF ListOf
    <3>2. ASSUME NEW e \in lists[q], e.child # c PROVE e \in ListOf(after)[q]
      <4>1. PICK x \in DOMAIN edges : edges[x].parent = q /\ e = [child |-> x, state |-> edges[x].state]
        BY <2>2
      <4>2. x # c
        BY <4>1, <3>2
      <4> QED BY <4>1, <4>2, <1>1, <2>1
    <3>3. row \in ListOf(after)[q]
      BY <1>1, <2>1, <2>3
    <3>4. ASSUME NEW e \in ListOf(after)[q] PROVE e \in new[q]
      <4>1. PICK x \in DOMAIN after : after[x].parent = q /\ e = [child |-> x, state |-> after[x].state]
        BY <2>1
      <4>2. CASE x = c
        BY <4>1, <4>2, <1>1, <3>1
      <4>3. CASE x # c
        <5>1. x \in DOMAIN edges /\ after[x] = edges[x]
          BY <4>3, <1>1
        <5>2. e \in lists[q] /\ e.child = x
          BY <4>1, <5>1, <2>2
        <5> QED BY <5>2, <4>3, <3>1
      <4> QED BY <4>2, <4>3
    <3> QED BY <3>1, <3>2, <3>3, <3>4
  <2>4. CASE q # p
    <3>1. new[q] = lists[q]
      BY <2>4 DEF ListOf
    <3>2. {y \in DOMAIN after : after[y].parent = q} = {y \in DOMAIN edges : edges[y].parent = q}
      BY <1>1, <2>4
    <3>3. \A y \in DOMAIN edges : edges[y].parent = q => after[y] = edges[y]
      BY <1>1, <2>4
    <3> QED BY <3>1, <3>2, <3>3, <2>1, <2>2
  <2> QED BY <2>3, <2>4
<1>3. new = [q \in AgentIds |-> new[q]] /\ ListOf(after) = [q \in AgentIds |-> ListOf(after)[q]]
  BY DEF ListOf
<1>4. new = ListOf(after)
  BY <1>2, <1>3
<1> QED
  BY <1>4 DEF after

(* SetEdge, on an edge that is new or that keeps its parent. *)
LEMMA SetEdgeListed ==
  ASSUME byParent = ListOf(byChild), NEW p \in AgentIds, NEW c, NEW state,
         SetEdge(p, c, state), c \in DOMAIN byChild => byChild[c].parent = p
  PROVE  byParent' = ListOf(byChild')
<1>1. byParent' = [byParent EXCEPT ![p] = {e \in byParent[p] : e.child # c}
                                           \cup {[child |-> c, state |-> state]}]
  BY DEF SetEdge, Listed
<1>2. byChild' = With(byChild, c, [parent |-> p, state |-> state])
  BY DEF SetEdge
<1>3. ListOf(byChild') = ListOf(With(byChild, c, [parent |-> p, state |-> state]))
  BY <1>2
<1>4. [ListOf(byChild) EXCEPT ![p] =
         {e \in ListOf(byChild)[p] : e.child # c} \cup {[child |-> c, state |-> state]}]
        = ListOf(With(byChild, c, [parent |-> p, state |-> state]))
  BY EdgeIsListed
<1> QED BY <1>1, <1>3, <1>4, Zenon

(* A step that leaves every agent its parent. *)
ParentsKept ==
  /\ DOMAIN agents' = DOMAIN agents
  /\ \A a \in DOMAIN agents : agents'[a].parent = agents[a].parent /\ agents'[a] \in GraphRows

LEMMA DepthsKept ==
  ASSUME GraphInv, ParentsKept PROVE \E d : DepthsOf(agents', d)
<1>1. PICK d : DepthsOf(agents, d)
  BY DEF GraphInv
<1>2. DepthsOf(agents', d)
  BY <1>1 DEF DepthsOf, ParentsKept
<1> QED BY <1>2

LEMMA StatusSet ==
  ASSUME GraphInv, NEW a \in Known, NEW next \in AgentStatus,
         agents' = [agents EXCEPT ![a].status = next]
  PROVE  ParentsKept
  BY DEF GraphInv, Parentage, ParentsKept, GraphRows, Known

LEMMA GraphRests ==
  ASSUME GraphInv, ParentsKept, UNCHANGED <<byChild, byParent>>, changes' \in 0 .. MaxChanges
  PROVE  GraphInv'
<1>1. Parentage'
  BY DEF GraphInv, Parentage, ParentsKept
<1> QED BY <1>1, DepthsKept DEF GraphInv

(* Closing an edge: the edge stays where it is. *)
LEMMA GraphCloses ==
  ASSUME GraphInv, ParentsKept, NEW a \in DOMAIN byChild,
         SetEdge(byChild[a].parent, a, "closed"), changes' \in 0 .. MaxChanges
  PROVE  GraphInv'
<1>0. Parentage
  BY DEF GraphInv
<1>1. byChild[a] \in EdgeRows
  BY <1>0 DEF Parentage
<1>2. byChild[a].parent \in AgentIds
  BY <1>1 DEF EdgeRows
<1>3. byParent' = ListOf(byChild')
  BY <1>0, <1>2, SetEdgeListed DEF Parentage
<1> DEFINE row == [parent |-> byChild[a].parent, state |-> "closed"]
<1>4. row \in EdgeRows /\ row.parent = byChild[a].parent
  BY <1>2 DEF EdgeRows
<1>5. byChild' = With(byChild, a, row)
  BY DEF SetEdge
<1> HIDE DEF row
<1>6. /\ DOMAIN byChild' = DOMAIN byChild
      /\ \A x \in DOMAIN byChild : byChild'[x] \in EdgeRows /\ byChild'[x].parent = byChild[x].parent
  BY <1>0, <1>4, <1>5 DEF With, Parentage
<1>7. Parentage'
  BY <1>0, <1>3, <1>6 DEF Parentage, ParentsKept
<1> QED BY <1>7, DepthsKept DEF GraphInv

(* A new agent lies one below its parent, and there is one agent more. *)
LEMMA DepthsGrow ==
  ASSUME GraphInv, NEW a \in AgentIds \ Known, NEW row \in GraphRows,
         row.parent \in Known \cup {NoAgent}, agents' = With(agents, a, row)
  PROVE  \E d : DepthsOf(agents', d)
<1>1. PICK d : DepthsOf(agents, d)
  BY DEF GraphInv
<1>2. IsFiniteSet(Known) /\ Cardinality(Known) \in Nat
      /\ Cardinality(Known \cup {a}) = Cardinality(Known) + 1
  BY AgentAssumption, FS_Subset, FS_AddElement, FS_CardinalityType DEF GraphInv, Parentage, Known
<1>3. /\ DOMAIN agents' = Known \cup {a} /\ agents'[a] = row
      /\ \A x \in Known : agents'[x] = agents[x] /\ x # a
  BY DEF With, Known
<1>4. PICK own : own = IF row.parent = NoAgent THEN 0 ELSE d[row.parent] + 1
  OBVIOUS
<1>5. /\ d \in [Known -> Nat]
      /\ \A x \in Known : /\ d[x] < Cardinality(Known) /\ d[x] \in Nat
                          /\ agents[x].parent = NoAgent => d[x] = 0
                          /\ agents[x].parent # NoAgent => d[x] = d[agents[x].parent] + 1
                          /\ agents[x].parent # NoAgent => agents[x].parent \in Known
  BY <1>1 DEF DepthsOf, Known, GraphInv, Parentage
<1>6. own \in Nat /\ own < Cardinality(Known) + 1
  <2>1. CASE row.parent = NoAgent
    BY <2>1, <1>2, <1>4
  <2>2. CASE row.parent # NoAgent
    <3>1. row.parent \in Known
      BY <2>2
    <3> QED BY <3>1, <2>2, <1>2, <1>4, <1>5
  <2> QED BY <2>1, <2>2
<1> DEFINE deep == [x \in Known \cup {a} |-> IF x = a THEN own ELSE d[x]]
<1>7. deep \in [Known \cup {a} -> Nat] /\ deep[a] = own /\ \A x \in Known : deep[x] = d[x]
  BY <1>3, <1>5, <1>6
<1> HIDE DEF deep
<1>8. ASSUME NEW x \in Known \cup {a}
      PROVE  /\ deep[x] < Cardinality(Known \cup {a})
             /\ agents'[x].parent = NoAgent => deep[x] = 0
             /\ agents'[x].parent # NoAgent => deep[x] = deep[agents'[x].parent] + 1
  <2>1. CASE x = a
    <3>1. row.parent # NoAgent => deep[row.parent] = d[row.parent]
      BY <1>7
    <3> QED BY <2>1, <3>1, <1>2, <1>3, <1>4, <1>6, <1>7
  <2>2. CASE x \in Known
    BY <2>2, <1>2, <1>3, <1>5, <1>7
  <2> QED BY <2>1, <2>2
<1>9. DepthsOf(agents', deep)
  BY <1>3, <1>7, <1>8 DEF DepthsOf
<1> QED BY <1>9

LEMMA RegisterKeepsGraph ==
  ASSUME GraphInv, NEW a \in AgentIds, RegisterRoot(a) PROVE GraphInv'
<1> DEFINE row == [parent |-> NoAgent, status |-> "created"]
<1>1. /\ agents' = With(agents, a, row) /\ a \notin Known /\ UNCHANGED <<byChild, byParent>>
      /\ changes' \in 0 .. MaxChanges
  BY AgentAssumption DEF RegisterRoot, Change, GraphInv, Parentage
<1>2. row \in GraphRows /\ row.parent = NoAgent
  BY StatusesAre DEF GraphRows
<1> HIDE DEF row
<1>3. \E d : DepthsOf(agents', d)
  BY <1>1, <1>2, DepthsGrow
<1>4. /\ DOMAIN agents' = DOMAIN agents \cup {a} /\ agents'[a] = row
      /\ \A x \in DOMAIN agents : agents'[x] = agents[x] /\ x # a
  BY <1>1 DEF With, Known
<1>5. Parentage'
  BY <1>1, <1>2, <1>4 DEF GraphInv, Parentage, Known
<1> QED BY <1>3, <1>5 DEF GraphInv

LEMMA SpawnKeepsGraph ==
  ASSUME GraphInv, NEW a \in AgentIds, NEW p \in AgentIds, Spawn(p, a) PROVE GraphInv'
<1>0. Parentage
  BY DEF GraphInv
<1> DEFINE row == [parent |-> p, status |-> "created"]
           edge == [parent |-> p, state |-> "open"]
<1>1. /\ agents' = With(agents, a, row) /\ a \notin Known /\ p \in Known /\ a # p
      /\ SetEdge(p, a, "open") /\ changes' \in 0 .. MaxChanges
  BY AgentAssumption DEF Spawn, MaySpawn, Change, GraphInv, Parentage
<1>2. row \in GraphRows /\ row.parent = p
  BY StatusesAre DEF GraphRows
<1>3. edge \in EdgeRows /\ edge.parent = p
  BY DEF EdgeRows
<1>4. byChild' = With(byChild, a, edge)
  BY <1>1 DEF SetEdge
<1> HIDE DEF row, edge
<1>5. \E d : DepthsOf(agents', d)
  BY <1>1, <1>2, DepthsGrow
<1>6. /\ DOMAIN agents' = DOMAIN agents \cup {a} /\ agents'[a] = row
      /\ \A x \in DOMAIN agents : agents'[x] = agents[x] /\ x # a
  BY <1>1 DEF With, Known
<1>7. a \notin DOMAIN byChild /\ p # NoAgent
  BY <1>0, <1>1, NoAgentIsNone DEF Parentage, Known
<1>8. byParent' = ListOf(byChild')
  BY <1>0, <1>1, <1>7, SetEdgeListed DEF Parentage
<1>9. /\ DOMAIN byChild' = DOMAIN byChild \cup {a} /\ byChild'[a] = edge
      /\ \A x \in DOMAIN byChild : byChild'[x] = byChild[x] /\ x # a
  BY <1>4, <1>7 DEF With
<1>10. /\ DOMAIN agents' \subseteq AgentIds /\ \A x \in DOMAIN agents' : agents'[x] \in GraphRows
       /\ DOMAIN byChild' \subseteq DOMAIN agents'
       /\ \A x \in DOMAIN byChild' : byChild'[x] \in EdgeRows
  BY <1>0, <1>2, <1>3, <1>6, <1>9 DEF Parentage
<1>11. ASSUME NEW x \in DOMAIN agents'
       PROVE  /\ agents'[x].parent = NoAgent <=> x \notin DOMAIN byChild'
              /\ agents'[x].parent # NoAgent => /\ agents'[x].parent \in DOMAIN agents' \ {x}
                                                /\ byChild'[x].parent = agents'[x].parent
  <2>1. CASE x = a
    BY <2>1, <1>1, <1>2, <1>3, <1>6, <1>7, <1>9 DEF Known
  <2>2. CASE x \in DOMAIN agents
    BY <2>2, <1>0, <1>6, <1>9 DEF Parentage
  <2> QED BY <2>1, <2>2, <1>6
<1>12. Parentage'
  BY <1>1, <1>8, <1>10, <1>11 DEF Parentage
<1> QED BY <1>5, <1>12 DEF GraphInv

LEMMA ListedIsListOf == ListedByParent = ListOf(byChild)
  BY DEF ListedByParent, ListOf

(* Every operation keeps the graph's invariant. *)
LEMMA GraphStep == GraphInv /\ [AgentNext]_agentVars => GraphInv'
<1> SUFFICES ASSUME GraphInv, [AgentNext]_agentVars PROVE GraphInv' OBVIOUS
<1>0. ASSUME UNCHANGED agents PROVE ParentsKept
  BY <1>0 DEF ParentsKept, GraphInv, Parentage
<1>1. ASSUME Change PROVE changes' \in 0 .. MaxChanges
  BY <1>1, AgentAssumption DEF Change, GraphInv, Parentage
<1>2. ASSUME UNCHANGED <<agents, byChild, byParent, changes>> PROVE GraphInv'
  BY <1>2, <1>0, GraphRests DEF GraphInv, Parentage
<1>3. CASE UNCHANGED agentVars
  BY <1>3, <1>2 DEF agentVars
<1>4. CASE Restart
  <2>1. byParent' = byParent
    BY <1>4, ListedIsListOf DEF Restart, GraphInv, Parentage
  <2> QED BY <2>1, <1>4, <1>0, <1>1, GraphRests DEF Restart
<1>5. ASSUME NEW a \in AgentIds, CloseSpawnEdge(a) PROVE GraphInv'
  BY <1>5, <1>0, <1>1, GraphCloses DEF CloseSpawnEdge
<1>6. ASSUME NEW a \in AgentIds, CloseAgent(a) PROVE GraphInv'
  <2>1. ParentsKept
    BY <1>6, StatusSet, StatusesAre DEF CloseAgent
  <2>2. changes' \in 0 .. MaxChanges
    BY <1>6, <1>1 DEF CloseAgent
  <2> QED BY <1>6, <2>1, <2>2, GraphCloses, GraphRests DEF CloseAgent
<1>7. ASSUME NEW a \in AgentIds, ResumeAgent(a) \/ AdmitAgent(a) PROVE GraphInv'
  <2>1. ParentsKept
    BY <1>7, StatusSet, StatusesAre DEF ResumeAgent, AdmitAgent
  <2> QED BY <1>7, <2>1, <1>1, GraphRests DEF ResumeAgent, AdmitAgent
<1>8. ASSUME NEW a \in AgentIds, NEW next \in AgentStatus, TransitionAgent(a, next)
      PROVE  GraphInv'
  <2>1. ParentsKept
    BY <1>8, StatusSet DEF TransitionAgent
  <2> QED BY <1>8, <2>1, <1>1, GraphRests DEF TransitionAgent
<1>9. ASSUME \/ \E a \in AgentIds :
                  \/ \E key \in Keys \cup {NoKey}, content \in Contents :
                       SendMessage(a, key, content)
                  \/ \E limit \in 1 .. 2, repeated \in BOOLEAN :
                       ClaimMessages(a, limit, repeated)
             \/ \E i \in DOMAIN mail :
                  \/ CancelMessage(i)
                  \/ \E n \in 1 .. mail[i].deliveries, passed \in BOOLEAN :
                       \E id \in {n, Repeated} : \/ AcknowledgeMessage(i, n, id, passed)
                                                \/ RequeueMessage(i, n, id, passed)
      PROVE  GraphInv'
  <2>1. UNCHANGED <<agents, byChild, byParent, changes>>
    BY <1>9, Zenon DEF SendMessage, ClaimMessages, CancelMessage, AcknowledgeMessage, RequeueMessage
  <2> QED BY <2>1, <1>2
<1> QED
  BY <1>3, <1>4, <1>5, <1>6, <1>7, <1>8, <1>9, RegisterKeepsGraph, SpawnKeepsGraph, Zenon
  DEF AgentNext

(* The types of the runtime follow. *)
LEMMA AgentInvTypes == GraphInv /\ MailInv => AgentTypeOK
<1> SUFFICES ASSUME GraphInv, MailInv PROVE AgentTypeOK OBVIOUS
<1>0. Parentage
  BY DEF GraphInv
<1>1. byParent \in [AgentIds -> SUBSET [child : AgentIds, state : {"open", "closed"}]]
  <2>1. \A c \in DOMAIN byChild : c \in AgentIds /\ byChild[c].state \in {"open", "closed"}
    BY <1>0 DEF Parentage, EdgeRows
  <2> QED BY <1>0, <2>1 DEF Parentage, ListOf
<1>2. index \subseteq AgentIds \X Keys \X (AgentIds \X Nat)
  <2>1. \A i \in DOMAIN mail : mail[i] \in Message
    BY MessagesAre DEF MailInv
  <2>2. \A i \in DOMAIN mail : mail[i].key # NoKey =>
          mail[i].to \in AgentIds /\ mail[i].key \in Keys /\ mail[i].id \in AgentIds \X Nat
    BY <2>1 DEF Message
  <2> QED BY <2>2 DEF MailInv, MailShape, KeysOfMail
<1>3. DOMAIN byChild \subseteq AgentIds
  BY <1>0 DEF Parentage
<1> QED
  BY <1>0, <1>1, <1>2, <1>3 DEF AgentTypeOK, Parentage, MailInv, MailShape, GraphRows, EdgeRows

-----------------------------------------------------------------------------
(* Counting up to a number: the first number that is missed has a           *)
(* predecessor that is not.                                                 *)
LEMMA CountUp ==
  ASSUME NEW N \in Nat, NEW G, 0 \in G,
         \A n \in 0 .. N : n < N /\ n \in G => n + 1 \in G
  PROVE  \A n \in 0 .. N : n \in G
<1> DEFINE S == {n \in 0 .. N : n \notin G}
<1> SUFFICES ASSUME S # {} PROVE FALSE
  OBVIOUS
<1>1. S \subseteq Nat
  OBVIOUS
<1>2. PICK x \in S : \A y \in S : ~(<<y, x>> \in OpToRel(<, Nat))
  <2> HIDE DEF S
  <2> QED BY <1>1, WFMin, NatLessThanWellFounded, Zenon
<1>3. \A y \in S : ~(y < x)
  BY <1>1, <1>2 DEF OpToRel
<1>4. x \in 0 .. N /\ x \notin G /\ x # 0
  OBVIOUS
<1>5. x - 1 \in 0 .. N /\ x - 1 < N /\ x - 1 < x /\ (x - 1) + 1 = x
  BY <1>4
<1>6. x - 1 \in G
  BY <1>3, <1>5
<1> QED
  BY <1>4, <1>5, <1>6

(* f holds the first N iterates of g from a. *)
Iterates(f, V, g, a, N) ==
  f \in [0 .. N -> V] /\ f[0] = a /\ \A k \in 1 .. N : f[k] = g[f[k - 1]]

(* A function can be iterated any number of times. *)
LEMMA IterationExists ==
  ASSUME NEW V, NEW g \in [V -> V], NEW a \in V, NEW N \in Nat
  PROVE  \E f : Iterates(f, V, g, a, N)
<1> DEFINE Runs(n, f) == /\ f \in [0 .. n -> V]
                         /\ f[0] = a /\ \A k \in 1 .. n : f[k] = g[f[k - 1]]
           G == {n \in 0 .. N : \E f : Runs(n, f)}
<1>1. 0 \in G
  <2>1. Runs(0, [k \in 0 .. 0 |-> a])
    OBVIOUS
  <2>2. 0 \in 0 .. N
    OBVIOUS
  <2> HIDE DEF Runs
  <2> QED BY <2>1, <2>2, Zenon
<1>2. ASSUME NEW n \in 0 .. N, n < N, n \in G PROVE n + 1 \in G
  <2>1. PICK f : Runs(n, f)
    BY <1>2
  <2> DEFINE h == [k \in 0 .. n + 1 |-> IF k = n + 1 THEN g[f[n]] ELSE f[k]]
  <2>2. f[n] \in V /\ g[f[n]] \in V
    BY <2>1
  <2>3. /\ h \in [0 .. n + 1 -> V] /\ h[n + 1] = g[f[n]]
        /\ \A k \in 0 .. n : h[k] = f[k]
    BY <2>1, <2>2
  <2> HIDE DEF h
  <2>4. h[0] = a
    BY <2>1, <2>3
  <2>5. ASSUME NEW k \in 1 .. n + 1 PROVE h[k] = g[h[k - 1]]
    <3>1. CASE k = n + 1
      <4>1. k - 1 = n /\ n \in 0 .. n
        BY <3>1
      <4> QED BY <4>1, <3>1, <2>3
    <3>2. CASE k # n + 1
      <4>1. k \in 1 .. n /\ k \in 0 .. n /\ k - 1 \in 0 .. n
        BY <3>2
      <4> QED BY <4>1, <2>1, <2>3
    <3> QED BY <3>1, <3>2
  <2>6. Runs(n + 1, h)
    BY <2>3, <2>4, <2>5
  <2>7. n + 1 \in 0 .. N
    BY <1>2
  <2> QED BY <2>6, <2>7
<1>3. N \in G
  <2> HIDE DEF G
  <2>1. \A n \in 0 .. N : n \in G
    BY <1>1, <1>2, CountUp
  <2> QED BY <2>1
<1> QED
  BY <1>3 DEF Iterates

Highest == Cardinality(AgentIds)

LEMMA HighestIsNat == Highest \in Nat
  BY AgentAssumption, FS_CardinalityType DEF Highest

(* The walk up of Lineage. *)
UpOf(a) ==
  CHOOSE up : up = [k \in 0 .. Cardinality(AgentIds) |->
                      IF k = 0 THEN a
                      ELSE IF up[k - 1] = NoAgent THEN NoAgent ELSE agents[up[k - 1]].parent]

LEMMA WalkUp ==
  ASSUME Parentage, NEW a \in Known
  PROVE  /\ UpOf(a) \in [0 .. Highest -> Known \cup {NoAgent}]
         /\ UpOf(a)[0] = a
         /\ \A k \in 1 .. Highest :
              UpOf(a)[k] = IF UpOf(a)[k - 1] = NoAgent THEN NoAgent
                           ELSE agents[UpOf(a)[k - 1]].parent
         /\ Lineage(a) = {UpOf(a)[k] : k \in 0 .. Highest} \ {NoAgent}
<1> DEFINE V == Known \cup {NoAgent}
           N == Highest
           above(x) == IF x = NoAgent THEN NoAgent ELSE agents[x].parent
           g == [x \in V |-> above(x)]
           Up(up) == up = [k \in 0 .. N |-> IF k = 0 THEN a ELSE above(up[k - 1])]
<1>1. N \in Nat
  BY HighestIsNat
<1>2. g \in [V -> V]
  BY DEF Parentage, Known
<1>3. PICK f : /\ f \in [0 .. N -> V] /\ f[0] = a
               /\ \A k \in 1 .. N : f[k] = g[f[k - 1]]
  <2> HIDE DEF g, V, N
  <2>1. a \in V
    BY DEF V
  <2>2. \E f : Iterates(f, V, g, a, N)
    BY <1>1, <1>2, <2>1, IterationExists
  <2> QED BY <2>2, Zenon DEF Iterates
<1>4. Up(f)
  <2>1. ASSUME NEW k \in 0 .. N PROVE f[k] = IF k = 0 THEN a ELSE above(f[k - 1])
    <3>1. CASE k = 0
      BY <3>1, <1>3
    <3>2. CASE k # 0
      <4>1. k \in 1 .. N /\ k - 1 \in 0 .. N
        BY <3>2, <1>1
      <4>2. f[k - 1] \in V
        BY <4>1, <1>3
      <4> QED BY <3>2, <4>1, <4>2, <1>3
    <3> QED BY <3>1, <3>2
  <2>2. f = [k \in 0 .. N |-> f[k]]
    BY <1>3
  <2> HIDE DEF above
  <2> QED BY <2>1, <2>2
<1>5. UpOf(a) = CHOOSE up : Up(up)
  BY DEF UpOf, Highest
<1>6. Up(UpOf(a))
  <2> HIDE DEF Up
  <2> QED BY <1>4, <1>5
<1>7. PICK u : u = UpOf(a)
  OBVIOUS
<1>8. Up(u)
  BY <1>6, <1>7
<1>9. u[0] = a /\ DOMAIN u = 0 .. N /\ u = [k \in 0 .. N |-> u[k]]
      /\ \A k \in 1 .. N : u[k] = above(u[k - 1])
  <2> HIDE DEF above
  <2>1. 0 \in 0 .. N /\ \A k \in 1 .. N : k \in 0 .. N /\ k # 0
    BY <1>1
  <2> QED BY <1>8, <2>1
<1> HIDE DEF Up
<1>10. \A k \in 0 .. N : u[k] \in V
  <2> DEFINE G == {k \in 0 .. N : u[k] \in V}
  <2>1. 0 \in G
    BY <1>1, <1>9
  <2>2. ASSUME NEW n \in 0 .. N, n < N, n \in G PROVE n + 1 \in G
    <3>1. n + 1 \in 1 .. N /\ n + 1 \in 0 .. N /\ (n + 1) - 1 = n
      BY <2>2, <1>1
    <3>2. u[n + 1] = above(u[n])
      BY <3>1, <1>9
    <3>3. above(u[n]) \in V
      BY <2>2, <1>2
    <3> QED BY <3>1, <3>2, <3>3
  <2> HIDE DEF G
  <2>3. \A k \in 0 .. N : k \in G
    BY <2>1, <2>2, <1>1, CountUp
  <2> QED BY <2>3 DEF G
<1>11. u \in [0 .. N -> V]
  BY <1>9, <1>10
<1>12. Lineage(a) = {u[k] : k \in DOMAIN u} \ {NoAgent}
  BY <1>7 DEF Lineage, UpOf
<1>13. /\ u \in [0 .. Highest -> Known \cup {NoAgent}] /\ u[0] = a
       /\ \A k \in 1 .. Highest :
            u[k] = IF u[k - 1] = NoAgent THEN NoAgent ELSE agents[u[k - 1]].parent
       /\ Lineage(a) = {u[k] : k \in 0 .. Highest} \ {NoAgent}
  BY <1>9, <1>11, <1>12, Zenon
<1> QED
  BY <1>7, <1>13, Zenon

(* The walk down of Descendants. *)
OpenBelow(X) == {e.child : e \in {d \in UNION {byParent[p] : p \in X} : d.state = "open"}}

DownOf(a) ==
  CHOOSE down : down = [k \in 0 .. Cardinality(AgentIds) |->
                          IF k = 0 THEN {a}
                          ELSE down[k - 1] \cup
                               {e.child : e \in {d \in UNION {byParent[p] : p \in down[k - 1]} :
                                                   d.state = "open"}}]

(* The open edges out of a set of agents, by the first index. *)
LEMMA OpenEdges ==
  ASSUME Parentage, NEW X \in SUBSET AgentIds, NEW x
  PROVE  x \in OpenBelow(X) <=> /\ x \in DOMAIN byChild /\ byChild[x].state = "open"
                                /\ byChild[x].parent \in X
<1>1. \A p \in X : byParent[p] = {[child |-> c, state |-> byChild[c].state] :
                                    c \in {y \in DOMAIN byChild : byChild[y].parent = p}}
  BY DEF Parentage, ListOf
<1>2. ASSUME x \in OpenBelow(X)
      PROVE  x \in DOMAIN byChild /\ byChild[x].state = "open" /\ byChild[x].parent \in X
  <2>1. PICK e : e \in UNION {byParent[p] : p \in X} /\ e.state = "open" /\ e.child = x
    BY <1>2 DEF OpenBelow
  <2>3. PICK p \in X : e \in byParent[p]
    BY <2>1
  <2>2. PICK c \in DOMAIN byChild : byChild[c].parent = p /\ e = [child |-> c, state |-> byChild[c].state]
    BY <1>1, <2>3
  <2> QED BY <2>1, <2>2
<1>3. ASSUME x \in DOMAIN byChild, byChild[x].state = "open", byChild[x].parent \in X
      PROVE  x \in OpenBelow(X)
  <2> DEFINE e == [child |-> x, state |-> byChild[x].state]
  <2>1. e \in byParent[byChild[x].parent] /\ e.child = x /\ e.state = "open"
    BY <1>1, <1>3
  <2> HIDE DEF e
  <2> QED BY <2>1, <1>3 DEF OpenBelow
<1> QED BY <1>2, <1>3

LEMMA WalkDown ==
  ASSUME Parentage, NEW a \in AgentIds
  PROVE  /\ DownOf(a) \in [0 .. Highest -> SUBSET AgentIds]
         /\ DownOf(a)[0] = {a}
         /\ \A k \in 1 .. Highest : DownOf(a)[k] = DownOf(a)[k - 1] \cup OpenBelow(DownOf(a)[k - 1])
         /\ Descendants(a) = DownOf(a)[Highest] \ {a}
<1> DEFINE V == SUBSET AgentIds
           N == Highest
           below(X) == X \cup OpenBelow(X)
           g == [X \in V |-> below(X)]
           Down(down) == down = [k \in 0 .. N |-> IF k = 0 THEN {a} ELSE below(down[k - 1])]
<1>1. N \in Nat
  BY HighestIsNat
<1>2. \A X \in V : below(X) \in V
  <2> SUFFICES ASSUME NEW X \in V, NEW x \in OpenBelow(X) PROVE x \in AgentIds
    OBVIOUS
  <2>1. x \in DOMAIN byChild
    BY OpenEdges
  <2> QED BY <2>1 DEF Parentage
<1>3. g \in [V -> V]
  <2> HIDE DEF below, V
  <2> QED BY <1>2
<1>4. PICK f : /\ f \in [0 .. N -> V] /\ f[0] = {a}
               /\ \A k \in 1 .. N : f[k] = g[f[k - 1]]
  <2>1. {a} \in V
    OBVIOUS
  <2> HIDE DEF g, V, N
  <2>2. \E f : Iterates(f, V, g, {a}, N)
    BY <1>1, <1>3, <2>1, IterationExists
  <2> QED BY <2>2, Zenon DEF Iterates
<1> HIDE DEF V
<1>5. Down(f)
  <2> HIDE DEF below
  <2>1. ASSUME NEW k \in 0 .. N PROVE f[k] = IF k = 0 THEN {a} ELSE below(f[k - 1])
    <3>1. CASE k = 0
      BY <3>1, <1>4
    <3>2. CASE k # 0
      <4>1. k \in 1 .. N /\ k - 1 \in 0 .. N
        BY <3>2, <1>1
      <4>2. f[k - 1] \in V
        BY <4>1, <1>4
      <4> QED BY <3>2, <4>1, <4>2, <1>4
    <3> QED BY <3>1, <3>2
  <2>2. f = [k \in 0 .. N |-> f[k]]
    BY <1>4
  <2> QED BY <2>1, <2>2
<1>6. DownOf(a) = CHOOSE down : Down(down)
  BY DEF DownOf, OpenBelow, Highest
<1>7. Down(DownOf(a))
  <2> HIDE DEF Down
  <2> QED BY <1>5, <1>6
<1>8. PICK u : u = DownOf(a)
  OBVIOUS
<1>9. Down(u)
  BY <1>7, <1>8
<1>10. u[0] = {a} /\ DOMAIN u = 0 .. N /\ u = [k \in 0 .. N |-> u[k]]
       /\ \A k \in 1 .. N : u[k] = below(u[k - 1])
  <2> HIDE DEF below
  <2>1. 0 \in 0 .. N /\ \A k \in 1 .. N : k \in 0 .. N /\ k # 0
    BY <1>1
  <2> QED BY <1>9, <2>1
<1> HIDE DEF Down
<1>11. \A k \in 0 .. N : u[k] \in V
  <2> DEFINE G == {k \in 0 .. N : u[k] \in V}
  <2>1. 0 \in G
    BY <1>1, <1>10 DEF V
  <2>2. ASSUME NEW n \in 0 .. N, n < N, n \in G PROVE n + 1 \in G
    <3>1. n + 1 \in 1 .. N /\ n + 1 \in 0 .. N /\ (n + 1) - 1 = n
      BY <2>2, <1>1
    <3> HIDE DEF below
    <3>2. u[n + 1] = below(u[n])
      BY <3>1, <1>10
    <3>3. below(u[n]) \in V
      BY <2>2, <1>2
    <3> QED BY <3>1, <3>2, <3>3
  <2> HIDE DEF G
  <2>3. \A k \in 0 .. N : k \in G
    BY <2>1, <2>2, <1>1, CountUp
  <2> QED BY <2>3 DEF G
<1>12. u \in [0 .. N -> V]
  BY <1>10, <1>11
<1>13. Descendants(a) = u[N] \ {a}
  BY <1>8, Zenon DEF Descendants, DownOf, Highest
<1>14. /\ u \in [0 .. Highest -> SUBSET AgentIds] /\ u[0] = {a}
       /\ \A k \in 1 .. Highest : u[k] = u[k - 1] \cup OpenBelow(u[k - 1])
       /\ Descendants(a) = u[Highest] \ {a}
  BY <1>10, <1>12, <1>13, Zenon DEF V
<1> QED
  BY <1>8, <1>14, Zenon

(* The walk up from an agent takes as many steps to a root as it is deep. *)
LEMMA UpReachesRoot ==
  ASSUME Parentage, NEW d, DepthsOf(agents, d), NEW a \in Known
  PROVE  /\ d[a] \in 0 .. Highest
         /\ \A k \in 0 .. d[a] : UpOf(a)[k] \in Known /\ d[UpOf(a)[k]] = d[a] - k
         /\ agents[UpOf(a)[d[a]]].parent = NoAgent
<1>1. \A x \in Known : /\ d[x] \in Nat /\ d[x] < Cardinality(Known)
                       /\ agents[x].parent = NoAgent => d[x] = 0
                       /\ agents[x].parent # NoAgent => /\ d[x] = d[agents[x].parent] + 1
                                                        /\ agents[x].parent \in Known
                       /\ x # NoAgent
  BY NoAgentIsNone DEF DepthsOf, Known, Parentage
<1>2. Cardinality(Known) \in Nat /\ Cardinality(Known) <= Highest /\ Highest \in Nat
  BY AgentAssumption, FS_Subset, FS_CardinalityType DEF Parentage, Known, Highest
<1>3. PICK D : D = d[a]
  OBVIOUS
<1>4. D \in Nat /\ D <= Highest
  BY <1>1, <1>2, <1>3
<1>5. PICK up : up = UpOf(a)
  OBVIOUS
<1>6. up[0] = a /\ \A k \in 1 .. Highest :
        up[k] = IF up[k - 1] = NoAgent THEN NoAgent ELSE agents[up[k - 1]].parent
  BY <1>5, WalkUp
<1>7. \A k \in 0 .. D : up[k] \in Known /\ d[up[k]] = D - k
  <2> DEFINE G == {k \in 0 .. D : up[k] \in Known /\ d[up[k]] = D - k}
  <2>1. 0 \in G
    BY <1>3, <1>4, <1>6
  <2>2. ASSUME NEW n \in 0 .. D, n < D, n \in G PROVE n + 1 \in G
    <3>1. n + 1 \in 1 .. Highest /\ (n + 1) - 1 = n /\ n + 1 \in 0 .. D
      BY <2>2, <1>2, <1>4
    <3>2. up[n] \in Known /\ d[up[n]] = D - n /\ d[up[n]] # 0
      BY <2>2, <1>4
    <3>3. agents[up[n]].parent # NoAgent
      BY <3>2, <1>1
    <3>4. up[n + 1] = agents[up[n]].parent
      BY <3>1, <3>2, <1>1, <1>6
    <3>5. up[n + 1] \in Known /\ d[up[n]] = d[up[n + 1]] + 1 /\ d[up[n + 1]] \in Nat
      BY <3>2, <3>3, <3>4, <1>1
    <3>6. d[up[n + 1]] = D - (n + 1)
      BY <3>2, <3>5, <1>4
    <3> QED BY <3>1, <3>5, <3>6
  <2> HIDE DEF G
  <2>3. \A k \in 0 .. D : k \in G
    BY <2>1, <2>2, <1>4, CountUp
  <2> QED BY <2>3 DEF G
<1>8. up[D] \in Known /\ d[up[D]] = 0
  BY <1>4, <1>7
<1>9. agents[up[D]].parent = NoAgent
  BY <1>1, <1>8
<1> QED
  BY <1>2, <1>3, <1>4, <1>5, <1>7, <1>9

(* The constructor accepts the graph. *)
LEMMA GraphIsAccepted == GraphInv => GraphAccepted
<1> SUFFICES ASSUME GraphInv PROVE GraphAccepted OBVIOUS
<1>0. Parentage
  BY DEF GraphInv
<1>1. PICK d : DepthsOf(agents, d)
  BY DEF GraphInv
<1>2. ASSUME NEW a \in Known PROVE \E root \in Lineage(a) : agents[root].parent = NoAgent
  <2>1. PICK root : root = UpOf(a)[d[a]]
    OBVIOUS
  <2>2. d[a] \in 0 .. Highest /\ d[a] \in 0 .. d[a]
    BY <1>0, <1>1, UpReachesRoot
  <2>3. root \in Known /\ agents[root].parent = NoAgent
    BY <1>0, <1>1, <2>1, <2>2, UpReachesRoot
  <2>4. root # NoAgent
    BY <1>0, <2>3, NoAgentIsNone DEF Parentage, Known
  <2>5. Lineage(a) = {UpOf(a)[k] : k \in 0 .. Highest} \ {NoAgent}
    BY <1>0, WalkUp
  <2>6. root \in Lineage(a)
    BY <2>1, <2>2, <2>4, <2>5
  <2> QED BY <2>3, <2>6
<1> QED
  BY <1>0, <1>2, Zenon DEF GraphAccepted, Parentage, Known

-----------------------------------------------------------------------------
(* A root has nothing above it. *)
LEMMA RootIsOpen ==
  ASSUME Parentage, NEW a \in Known, agents[a].parent = NoAgent
  PROVE  HasOpenAncestry(a)
<1>1. PICK up : up = UpOf(a)
  OBVIOUS
<1>2. /\ up[0] = a
      /\ \A k \in 1 .. Highest :
           up[k] = IF up[k - 1] = NoAgent THEN NoAgent ELSE agents[up[k - 1]].parent
      /\ Lineage(a) = {up[k] : k \in 0 .. Highest} \ {NoAgent}
  BY <1>1, WalkUp
<1>3. Highest \in Nat
  BY HighestIsNat
<1>4. \A k \in 0 .. Highest : up[k] \in {a, NoAgent}
  <2> DEFINE G == {k \in 0 .. Highest : up[k] \in {a, NoAgent}}
  <2>1. 0 \in G
    BY <1>2, <1>3
  <2>2. ASSUME NEW n \in 0 .. Highest, n < Highest, n \in G PROVE n + 1 \in G
    <3>1. n + 1 \in 1 .. Highest /\ n + 1 \in 0 .. Highest /\ (n + 1) - 1 = n
      BY <2>2, <1>3
    <3>2. up[n + 1] = IF up[n] = NoAgent THEN NoAgent ELSE agents[up[n]].parent
      BY <3>1, <1>2
    <3> QED BY <2>2, <3>1, <3>2
  <2> HIDE DEF G
  <2>3. \A k \in 0 .. Highest : k \in G
    BY <2>1, <2>2, <1>3, CountUp
  <2> QED BY <2>3 DEF G
<1>5. Lineage(a) \subseteq {a}
  BY <1>2, <1>4
<1> QED BY <1>5 DEF HasOpenAncestry

(* Below an open edge an agent is open if its parent is. *)
LEMMA ChildIsOpen ==
  ASSUME Parentage, NEW a \in DOMAIN byChild, byChild[a].state = "open",
         HasOpenAncestry(byChild[a].parent)
  PROVE  a \in Known /\ HasOpenAncestry(a)
<1>1. PICK p : p = byChild[a].parent
  OBVIOUS
<1>2. a \in Known /\ p \in Known /\ agents[a].parent = p /\ a # NoAgent
  BY <1>1, NoAgentIsNone DEF Parentage, Known
<1>3. PICK up, above : up = UpOf(a) /\ above = UpOf(p)
  OBVIOUS
<1>4. /\ up[0] = a
      /\ \A k \in 1 .. Highest :
           up[k] = IF up[k - 1] = NoAgent THEN NoAgent ELSE agents[up[k - 1]].parent
      /\ Lineage(a) = {up[k] : k \in 0 .. Highest} \ {NoAgent}
  BY <1>2, <1>3, WalkUp
<1>5. /\ above[0] = p
      /\ \A k \in 1 .. Highest :
           above[k] = IF above[k - 1] = NoAgent THEN NoAgent ELSE agents[above[k - 1]].parent
      /\ Lineage(p) = {above[k] : k \in 0 .. Highest} \ {NoAgent}
  BY <1>2, <1>3, WalkUp
<1>6. Highest \in Nat
  BY HighestIsNat
<1>7. \A k \in 0 .. Highest : k > 0 => up[k] = above[k - 1]
  <2> DEFINE G == {k \in 0 .. Highest : k > 0 => up[k] = above[k - 1]}
  <2>1. 0 \in G
    BY <1>6
  <2>2. ASSUME NEW n \in 0 .. Highest, n < Highest, n \in G PROVE n + 1 \in G
    <3>1. n + 1 \in 1 .. Highest /\ n + 1 \in 0 .. Highest /\ (n + 1) - 1 = n
      BY <2>2, <1>6
    <3>2. up[n + 1] = IF up[n] = NoAgent THEN NoAgent ELSE agents[up[n]].parent
      BY <3>1, <1>4
    <3>3. CASE n = 0
      <4>1. up[n + 1] = p /\ above[(n + 1) - 1] = p
        BY <3>2, <3>3, <1>2, <1>4, <1>5
      <4> QED BY <4>1, <3>1
    <3>4. CASE n # 0
      <4>1. n \in 1 .. Highest /\ n > 0
        BY <3>4, <1>6
      <4>2. up[n] = above[n - 1]
        BY <2>2, <4>1
      <4>3. above[n] = IF above[n - 1] = NoAgent THEN NoAgent ELSE agents[above[n - 1]].parent
        BY <4>1, <1>5
      <4>4. up[n + 1] = above[(n + 1) - 1]
        BY <3>1, <3>2, <4>2, <4>3
      <4> QED BY <3>1, <4>4
    <3> QED BY <3>3, <3>4
  <2> HIDE DEF G
  <2>3. \A k \in 0 .. Highest : k \in G
    BY <2>1, <2>2, <1>6, CountUp
  <2> QED BY <2>3 DEF G
<1>8. Lineage(a) \subseteq {a} \cup Lineage(p)
  <2> SUFFICES ASSUME NEW x \in Lineage(a), x # a PROVE x \in Lineage(p)
    OBVIOUS
  <2>1. PICK k \in 0 .. Highest : x = up[k] /\ x # NoAgent
    BY <1>4
  <2>2. k > 0 /\ k - 1 \in 0 .. Highest
    BY <2>1, <1>4, <1>6
  <2> QED BY <2>1, <2>2, <1>5, <1>7
<1> QED BY <1>1, <1>2, <1>8 DEF HasOpenAncestry

(* What the walk down from a root finds is open. *)
LEMMA FoundIsOpen ==
  ASSUME Parentage, NEW root \in Known, agents[root].parent = NoAgent,
         NEW a, a = root \/ a \in Descendants(root)
  PROVE  HasOpenAncestry(a)
<1>1. PICK down : down = DownOf(root)
  OBVIOUS
<1>2. /\ down \in [0 .. Highest -> SUBSET AgentIds] /\ down[0] = {root}
      /\ \A k \in 1 .. Highest : down[k] = down[k - 1] \cup OpenBelow(down[k - 1])
      /\ Descendants(root) = down[Highest] \ {root}
  BY <1>1, WalkDown DEF Parentage, Known
<1>3. Highest \in Nat
  BY HighestIsNat
<1>4. \A k \in 0 .. Highest : \A x \in down[k] : HasOpenAncestry(x)
  <2> DEFINE G == {k \in 0 .. Highest : \A x \in down[k] : HasOpenAncestry(x)}
  <2>1. 0 \in G
    BY <1>2, <1>3, RootIsOpen
  <2>2. ASSUME NEW n \in 0 .. Highest, n < Highest, n \in G PROVE n + 1 \in G
    <3>1. n + 1 \in 1 .. Highest /\ n + 1 \in 0 .. Highest /\ (n + 1) - 1 = n
      BY <2>2, <1>3
    <3>2. down[n + 1] = down[n] \cup OpenBelow(down[n]) /\ down[n] \in SUBSET AgentIds
      BY <3>1, <1>2
    <3>3. ASSUME NEW x \in OpenBelow(down[n]) PROVE HasOpenAncestry(x)
      <4>1. x \in DOMAIN byChild /\ byChild[x].state = "open" /\ byChild[x].parent \in down[n]
        BY <3>2, OpenEdges
      <4>2. HasOpenAncestry(byChild[x].parent)
        BY <2>2, <4>1
      <4> QED BY <4>1, <4>2, ChildIsOpen
    <3> QED BY <2>2, <3>1, <3>2, <3>3
  <2> HIDE DEF G
  <2>3. \A k \in 0 .. Highest : k \in G
    BY <2>1, <2>2, <1>3, CountUp
  <2> QED BY <2>3 DEF G
<1> QED
  BY <1>2, <1>3, <1>4, RootIsOpen

(* An open agent is found by the walk down from the root above it. *)
LEMMA OpenIsFound ==
  ASSUME Parentage, NEW d, DepthsOf(agents, d), NEW a \in Known, HasOpenAncestry(a)
  PROVE  \E root \in Known : /\ agents[root].parent = NoAgent
                             /\ a = root \/ a \in Descendants(root)
<1>1. PICK up, D : up = UpOf(a) /\ D = d[a]
  OBVIOUS
<1>2. PICK root : root = up[D]
  OBVIOUS
<1>3. /\ D \in 0 .. Highest /\ Highest \in Nat
      /\ \A k \in 0 .. D : up[k] \in Known /\ d[up[k]] = D - k
      /\ agents[root].parent = NoAgent
  BY <1>1, <1>2, UpReachesRoot, HighestIsNat
<1>4. /\ up[0] = a
      /\ \A k \in 1 .. Highest :
           up[k] = IF up[k - 1] = NoAgent THEN NoAgent ELSE agents[up[k - 1]].parent
      /\ Lineage(a) = {up[k] : k \in 0 .. Highest} \ {NoAgent}
  BY <1>1, WalkUp
<1>5. root \in Known
  BY <1>2, <1>3
<1>6. PICK down : down = DownOf(root)
  OBVIOUS
<1>7. /\ down \in [0 .. Highest -> SUBSET AgentIds] /\ down[0] = {root}
      /\ \A k \in 1 .. Highest : down[k] = down[k - 1] \cup OpenBelow(down[k - 1])
      /\ Descendants(root) = down[Highest] \ {root}
  BY <1>5, <1>6, WalkDown DEF Parentage, Known
<1>8. \A j \in 0 .. D : up[D - j] \in down[j]
  <2> DEFINE G == {j \in 0 .. D : up[D - j] \in down[j]}
  <2>1. 0 \in G
    BY <1>2, <1>3, <1>7
  <2>2. ASSUME NEW n \in 0 .. D, n < D, n \in G PROVE n + 1 \in G
    <3>1. PICK m : m = D - n
      OBVIOUS
    <3>2. /\ m \in 1 .. Highest /\ m - 1 \in 0 .. D /\ m - 1 \in 0 .. Highest
          /\ n + 1 \in 0 .. D /\ n + 1 \in 1 .. Highest /\ (n + 1) - 1 = n
          /\ D - (n + 1) = m - 1 /\ D - (m - 1) # 0 /\ n \in 0 .. Highest
      BY <2>2, <3>1, <1>3
    <3>3. PICK x : x = up[m - 1]
      OBVIOUS
    <3>4. x \in Known /\ d[x] # 0 /\ x # NoAgent
      BY <3>2, <3>3, <1>3, NoAgentIsNone DEF Parentage, Known
    <3>5. agents[x].parent # NoAgent
      BY <3>4 DEF DepthsOf, Known
    <3>6. up[m] = agents[x].parent
      BY <3>2, <3>3, <3>4, <1>4
    <3>7. x \in Lineage(a)
      BY <3>2, <3>3, <3>4, <1>4
    <3>8. x \in DOMAIN byChild /\ byChild[x].state = "open" /\ byChild[x].parent = up[m]
      BY <3>4, <3>5, <3>6, <3>7 DEF HasOpenAncestry, Parentage, Known
    <3>9. up[m] \in down[n] /\ down[n] \in SUBSET AgentIds
      BY <2>2, <3>1, <3>2, <1>7
    <3>10. x \in OpenBelow(down[n])
      BY <3>8, <3>9, OpenEdges
    <3>11. x \in down[n + 1]
      BY <3>2, <3>10, <1>7
    <3> QED BY <3>2, <3>3, <3>11
  <2> HIDE DEF G
  <2>3. D \in Nat
    BY <1>3
  <2>4. \A j \in 0 .. D : j \in G
    BY <2>1, <2>2, <2>3, CountUp
  <2> QED BY <2>4 DEF G
<1>9. a \in down[D]
  <2>1. D \in 0 .. D /\ D - D = 0
    BY <1>3
  <2> QED BY <2>1, <1>4, <1>8
<1>10. PICK M \in Nat : M = Highest - D /\ Highest = D + M /\ D \in Nat
  BY <1>3
<1>11. \A j \in 0 .. M : a \in down[D + j]
  <2> DEFINE G == {j \in 0 .. M : a \in down[D + j]}
  <2>1. 0 \in G
    BY <1>9, <1>10
  <2>2. ASSUME NEW n \in 0 .. M, n < M, n \in G PROVE n + 1 \in G
    <3>1. /\ D + (n + 1) \in 1 .. Highest /\ (D + (n + 1)) - 1 = D + n /\ n + 1 \in 0 .. M
      BY <2>2, <1>10
    <3>2. a \in down[D + (n + 1)]
      BY <2>2, <3>1, <1>7
    <3> QED BY <3>1, <3>2
  <2> HIDE DEF G
  <2>3. \A j \in 0 .. M : j \in G
    BY <2>1, <2>2, <1>10, CountUp
  <2> QED BY <2>3 DEF G
<1>12. a \in down[Highest]
  BY <1>10, <1>11
<1> QED
  BY <1>3, <1>5, <1>7, <1>12

(* The graph's and the mailbox's invariants give SnapshotRestores. *)
LEMMA AgentInvRestores == GraphInv /\ MailInv => SnapshotRestores
<1> SUFFICES ASSUME GraphInv, MailInv PROVE SnapshotRestores OBVIOUS
<1>1. Parentage /\ GraphAccepted
  BY GraphIsAccepted DEF GraphInv
<1>2. MailAccepted /\ index = KeysOfMail
  BY DEF MailInv, MailShape
<1>3. byParent = ListedByParent
  BY <1>1, ListedIsListOf DEF Parentage
<1>4. PICK d : DepthsOf(agents, d)
  BY DEF GraphInv
<1>5. ASSUME NEW a \in Known
      PROVE  HasOpenAncestry(a) <=>
               \E root \in Known : /\ agents[root].parent = NoAgent
                                   /\ a = root \/ a \in Descendants(root)
  BY <1>1, <1>4, OpenIsFound, FoundIsOpen
<1> QED
  BY <1>1, <1>2, <1>3, <1>5 DEF SnapshotRestores

(* Whatever the operations of the graph and the mailbox leave behind, a     *)
(* restart accepts its snapshot and rebuilds both indexes as they were, and *)
(* the two readings of an active branch agree; for any number of agents and *)
(* any depth of delegation.                                                 *)
THEOREM SnapshotsRestore == AgentSpec => []SnapshotRestores
  BY GraphStarts, GraphStep, MailStarts, MailStep, AgentInvRestores, PTL DEF AgentSpec

-----------------------------------------------------------------------------
(* ContextPlan.  The sum over the selected items is a fold that takes the   *)
(* elements in an order of its own; SumGrows shows that one item more adds  *)
(* its tokens.                                                              *)

AnyOf(s) == CHOOSE x \in s : TRUE

(* h holds the sums of f over the subsets of S, as MapThenSumSet takes them.*)
Sums(h, f, S) ==
  h = [s \in SUBSET S |-> IF s = {} THEN 0 ELSE f[AnyOf(s)] + h[s \ {AnyOf(s)}]]

SumOf(f, S) == (CHOOSE h : Sums(h, f, S))[S]

LEMMA SumIsFold == \A S : Tokens(S) = SumOf(selected, S)
  BY DEF Tokens, MapThenSumSet, MapThenFoldSet, SumOf, Sums, AnyOf

(* The subsets of S with n elements at most, and a set without an element.  *)
UpTo(S, n) == {s \in SUBSET S : Cardinality(s) <= n}

LEMMA OneLess ==
  ASSUME NEW S, IsFiniteSet(S), NEW s \in SUBSET S, NEW x \in s
  PROVE  /\ Cardinality(s \ {x}) = Cardinality(s) - 1 /\ Cardinality(s) \in Nat
         /\ Cardinality(s) > 0 /\ s \ {x} \in SUBSET S
<1>1. IsFiniteSet(s)
  BY FS_Subset
<1>2. Cardinality(s \ {x}) = Cardinality(s) - 1 /\ Cardinality(s) \in Nat
  BY <1>1, FS_RemoveElement, FS_CardinalityType
<1>3. Cardinality(s) # 0
  BY <1>1, FS_EmptySet
<1> QED BY <1>2, <1>3

LEMMA FirstIsIn == ASSUME NEW s, s # {} PROVE AnyOf(s) \in s
  BY DEF AnyOf

(* The sums exist. *)
LEMMA SumsExist ==
  ASSUME NEW S, IsFiniteSet(S), NEW f, \A x \in S : f[x] \in Nat
  PROVE  \E h : h \in [SUBSET S -> Nat] /\ Sums(h, f, S)
<1> DEFINE Part(n, h) ==
             /\ h \in [UpTo(S, n) -> Nat]
             /\ \A s \in UpTo(S, n) :
                  h[s] = IF s = {} THEN 0 ELSE f[AnyOf(s)] + h[s \ {AnyOf(s)}]
           N == Cardinality(S)
           G == {n \in 0 .. N : \E h : Part(n, h)}
<1>1. N \in Nat
  BY FS_CardinalityType
<1>2. \A s \in SUBSET S : Cardinality(s) \in Nat /\ Cardinality(s) <= N
  BY FS_Subset, FS_CardinalityType
<1>3. 0 \in G
  <2> DEFINE h == [s \in UpTo(S, 0) |-> 0]
  <2>1. \A s \in UpTo(S, 0) : s = {}
    <3> SUFFICES ASSUME NEW s \in SUBSET S, Cardinality(s) <= 0 PROVE s = {}
      BY DEF UpTo
    <3>1. IsFiniteSet(s) /\ Cardinality(s) = 0
      BY <1>2, FS_Subset
    <3> QED BY <3>1, FS_EmptySet
  <2>2. Part(0, h)
    BY <2>1
  <2>3. 0 \in 0 .. N
    BY <1>1
  <2> HIDE DEF Part
  <2> QED BY <2>2, <2>3, Zenon
<1>4. ASSUME NEW n \in 0 .. N, n < N, n \in G PROVE n + 1 \in G
  <2>1. PICK h : Part(n, h)
    BY <1>4
  <2> DEFINE k == [s \in UpTo(S, n + 1) |->
                     IF s \in UpTo(S, n) THEN h[s] ELSE f[AnyOf(s)] + h[s \ {AnyOf(s)}]]
  <2>2. ASSUME NEW s \in UpTo(S, n + 1), s # {}
        PROVE  AnyOf(s) \in S /\ s \ {AnyOf(s)} \in UpTo(S, n)
    <3>1. s \in SUBSET S /\ Cardinality(s) <= n + 1
      BY DEF UpTo
    <3>2. AnyOf(s) \in s
      BY <2>2, FirstIsIn
    <3>3. Cardinality(s \ {AnyOf(s)}) = Cardinality(s) - 1 /\ s \ {AnyOf(s)} \in SUBSET S
          /\ Cardinality(s) \in Nat
      BY <3>1, <3>2, OneLess
    <3>4. Cardinality(s \ {AnyOf(s)}) <= n
      BY <3>1, <3>3
    <3> QED BY <3>1, <3>2, <3>3, <3>4 DEF UpTo
  <2>3. \A s \in UpTo(S, n) : s \in UpTo(S, n + 1)
    BY <1>2 DEF UpTo
  <2>4. {} \in UpTo(S, n)
    BY FS_EmptySet DEF UpTo
  <2>5. \A s \in UpTo(S, n) : k[s] = h[s] /\ h[s] \in Nat
    BY <2>1, <2>3
  <2>6. \A s \in UpTo(S, n + 1) : s \notin UpTo(S, n) =>
          k[s] = f[AnyOf(s)] + h[s \ {AnyOf(s)}]
    OBVIOUS
  <2>7. DOMAIN k = UpTo(S, n + 1) /\ k = [s \in UpTo(S, n + 1) |-> k[s]]
    OBVIOUS
  <2> HIDE DEF k
  <2>8. ASSUME NEW s \in UpTo(S, n + 1)
        PROVE  k[s] \in Nat /\ k[s] = IF s = {} THEN 0 ELSE f[AnyOf(s)] + k[s \ {AnyOf(s)}]
    <3>1. CASE s = {}
      BY <3>1, <2>1, <2>4, <2>5
    <3>2. CASE s # {} /\ s \in UpTo(S, n)
      <4>1. h[s] = f[AnyOf(s)] + h[s \ {AnyOf(s)}]
        BY <3>2, <2>1
      <4> QED BY <4>1, <3>2, <2>2, <2>5
    <3>3. CASE s # {} /\ s \notin UpTo(S, n)
      <4>1. k[s] = f[AnyOf(s)] + h[s \ {AnyOf(s)}]
        BY <3>3, <2>6
      <4>2. h[s \ {AnyOf(s)}] \in Nat /\ k[s \ {AnyOf(s)}] = h[s \ {AnyOf(s)}]
            /\ f[AnyOf(s)] \in Nat
        BY <3>3, <2>2, <2>5
      <4> QED BY <4>1, <4>2, <3>3
    <3> QED BY <3>1, <3>2, <3>3
  <2>9. Part(n + 1, k)
    BY <2>7, <2>8
  <2>10. n + 1 \in 0 .. N
    BY <1>4, <1>1
  <2> HIDE DEF Part
  <2> QED BY <2>9, <2>10, Zenon
<1>5. N \in G
  <2>1. \A n \in 0 .. N : n \in G
    <3> HIDE DEF G, N
    <3> QED BY <1>1, <1>3, <1>4, CountUp
  <2> HIDE DEF G, N
  <2> QED BY <1>1, <2>1
<1>6. PICK h : Part(N, h)
  BY <1>5
<1>7. UpTo(S, N) = SUBSET S
  BY <1>2 DEF UpTo
<1>8. h = [s \in SUBSET S |-> h[s]] /\ h \in [SUBSET S -> Nat]
  BY <1>6, <1>7
<1>9. \A s \in SUBSET S : h[s] = IF s = {} THEN 0 ELSE f[AnyOf(s)] + h[s \ {AnyOf(s)}]
  BY <1>6, <1>7
<1> HIDE DEF Part
<1> QED
  BY <1>8, <1>9 DEF Sums

(* The sums are a number each, and depend on nothing outside the set. *)
LEMMA SumsAgree ==
  ASSUME NEW T, IsFiniteSet(T), NEW S \in SUBSET T, NEW f, NEW g,
         \A x \in S : f[x] \in Nat /\ f[x] = g[x],
         NEW h, Sums(h, f, S), NEW k, Sums(k, g, T)
  PROVE  \A s \in SUBSET S : h[s] = k[s] /\ h[s] \in Nat
<1> DEFINE N == Cardinality(S)
           G == {n \in 0 .. N : \A s \in UpTo(S, n) : h[s] = k[s] /\ h[s] \in Nat}
<1>0. IsFiniteSet(S)
  BY FS_Subset
<1>1. N \in Nat
  BY <1>0, FS_CardinalityType
<1>2. \A s \in SUBSET S : Cardinality(s) \in Nat /\ Cardinality(s) <= N
  BY <1>0, FS_Subset, FS_CardinalityType
<1>3. ASSUME NEW s \in SUBSET S
      PROVE  /\ s = {} => h[s] = 0 /\ k[s] = 0
             /\ s # {} => /\ h[s] = f[AnyOf(s)] + h[s \ {AnyOf(s)}]
                          /\ k[s] = g[AnyOf(s)] + k[s \ {AnyOf(s)}]
  <2>1. h[s] = IF s = {} THEN 0 ELSE f[AnyOf(s)] + h[s \ {AnyOf(s)}]
    BY DEF Sums
  <2>2. k[s] = IF s = {} THEN 0 ELSE g[AnyOf(s)] + k[s \ {AnyOf(s)}]
    BY DEF Sums
  <2> QED BY <2>1, <2>2
<1>4. 0 \in G
  <2>1. ASSUME NEW s \in UpTo(S, 0) PROVE h[s] = k[s] /\ h[s] \in Nat
    <3>1. s \in SUBSET S /\ IsFiniteSet(s) /\ Cardinality(s) = 0
      BY <1>0, <1>2, FS_Subset DEF UpTo
    <3>2. s = {}
      BY <3>1, FS_EmptySet
    <3>3. h[s] = 0 /\ k[s] = 0
      BY <3>1, <3>2, <1>3
    <3> QED BY <3>3
  <2>2. 0 \in 0 .. N
    BY <1>1
  <2> QED BY <2>1, <2>2, Zenon
<1>5. ASSUME NEW n \in 0 .. N, n < N, n \in G PROVE n + 1 \in G
  <2>1. ASSUME NEW s \in UpTo(S, n + 1) PROVE h[s] = k[s] /\ h[s] \in Nat
    <3>0. s \in SUBSET S /\ Cardinality(s) <= n + 1
      BY DEF UpTo
    <3>1. CASE s = {}
      <4>1. h[s] = 0 /\ k[s] = 0
        BY <3>1, <3>0, <1>3
      <4> QED BY <4>1
    <3>2. CASE s # {}
      <4>1. PICK x : x = AnyOf(s)
        OBVIOUS
      <4>2. x \in s /\ x \in S
        BY <3>0, <3>2, <4>1, FirstIsIn
      <4>3. Cardinality(s \ {x}) = Cardinality(s) - 1 /\ Cardinality(s) \in Nat
            /\ s \ {x} \in SUBSET S
        BY <1>0, <3>0, <4>2, OneLess
      <4>4. Cardinality(s \ {x}) <= n
        BY <3>0, <4>3
      <4>5. s \ {x} \in UpTo(S, n)
        BY <4>3, <4>4 DEF UpTo
      <4>6. h[s \ {x}] = k[s \ {x}] /\ h[s \ {x}] \in Nat
        BY <1>5, <4>5
      <4>7. h[s] = f[x] + h[s \ {x}] /\ k[s] = g[x] + k[s \ {x}]
        BY <3>0, <3>2, <4>1, <1>3
      <4>8. f[x] \in Nat /\ f[x] = g[x]
        BY <4>2
      <4> QED BY <4>6, <4>7, <4>8
    <3> QED BY <3>1, <3>2
  <2>2. n + 1 \in 0 .. N
    BY <1>5, <1>1
  <2> QED BY <2>1, <2>2
<1>6. N \in G
  <2>1. \A n \in 0 .. N : n \in G
    <3> HIDE DEF G, N
    <3> QED BY <1>1, <1>4, <1>5, CountUp
  <2> QED BY <1>1, <2>1
<1>7. UpTo(S, N) = SUBSET S
  BY <1>2 DEF UpTo
<1> QED
  BY <1>6, <1>7

(* The order of summation does not matter. *)
LEMMA AnyElementFirst ==
  ASSUME NEW S, IsFiniteSet(S), NEW f, \A x \in S : f[x] \in Nat,
         NEW h, Sums(h, f, S)
  PROVE  \A s \in SUBSET S : \A y \in s : h[s] = f[y] + h[s \ {y}]
<1> DEFINE N == Cardinality(S)
           G == {n \in 0 .. N : \A s \in UpTo(S, n) : \A y \in s : h[s] = f[y] + h[s \ {y}]}
<1>1. N \in Nat
  BY FS_CardinalityType
<1>2. \A s \in SUBSET S : Cardinality(s) \in Nat /\ Cardinality(s) <= N
  BY FS_Subset, FS_CardinalityType
<1>3. \A s \in SUBSET S : h[s] \in Nat
  BY SumsAgree
<1>4. \A s \in SUBSET S : s # {} => h[s] = f[AnyOf(s)] + h[s \ {AnyOf(s)}]
  BY DEF Sums
<1>5. 0 \in G
  <2>1. ASSUME NEW s \in UpTo(S, 0) PROVE s = {}
    <3>1. s \in SUBSET S /\ IsFiniteSet(s) /\ Cardinality(s) = 0
      BY <1>2, FS_Subset DEF UpTo
    <3> QED BY <3>1, FS_EmptySet
  <2> QED BY <2>1, <1>1
<1>6. ASSUME NEW n \in 0 .. N, n < N, n \in G PROVE n + 1 \in G
  <2>1. ASSUME NEW s \in UpTo(S, n + 1), NEW y \in s PROVE h[s] = f[y] + h[s \ {y}]
    <3>0. s \in SUBSET S /\ Cardinality(s) <= n + 1
      BY DEF UpTo
    <3>1. PICK x : x = AnyOf(s)
      OBVIOUS
    <3>2. x \in s /\ h[s] = f[x] + h[s \ {x}]
      BY <3>0, <3>1, <1>4, FirstIsIn
    <3>3. CASE x = y
      BY <3>2, <3>3
    <3>4. CASE x # y
      <4>1. ASSUME NEW z \in s PROVE s \ {z} \in UpTo(S, n)
        <5>1. Cardinality(s \ {z}) = Cardinality(s) - 1 /\ Cardinality(s) \in Nat
              /\ s \ {z} \in SUBSET S
          BY <3>0, OneLess
        <5>2. Cardinality(s \ {z}) <= n
          BY <3>0, <5>1
        <5> QED BY <5>1, <5>2 DEF UpTo
      <4>2. s \ {x} \in UpTo(S, n) /\ s \ {y} \in UpTo(S, n)
        BY <3>2, <4>1
      <4>3. y \in s \ {x} /\ x \in s \ {y}
        BY <3>2, <3>4
      <4>4. PICK rest : rest = (s \ {x}) \ {y}
        OBVIOUS
      <4>5. rest = (s \ {y}) \ {x} /\ rest \in SUBSET S
        BY <4>4, <3>0
      <4>6. h[s \ {x}] = f[y] + h[rest]
        BY <1>6, <4>2, <4>3, <4>4
      <4>7. h[s \ {y}] = f[x] + h[rest]
        BY <1>6, <4>2, <4>3, <4>5
      <4>8. f[x] \in Nat /\ f[y] \in Nat /\ h[rest] \in Nat
        BY <1>3, <3>0, <3>2, <4>5
      <4> QED BY <3>2, <4>6, <4>7, <4>8
    <3> QED BY <3>3, <3>4
  <2>2. n + 1 \in 0 .. N
    BY <1>6, <1>1
  <2> QED BY <2>1, <2>2
<1>7. N \in G
  <2>1. \A n \in 0 .. N : n \in G
    <3> HIDE DEF G, N
    <3> QED BY <1>1, <1>5, <1>6, CountUp
  <2> QED BY <1>1, <2>1
<1>8. UpTo(S, N) = SUBSET S
  BY <1>2 DEF UpTo
<1> QED
  BY <1>7, <1>8

(* One item more adds its tokens. *)
LEMMA SumGrows ==
  ASSUME NEW S, IsFiniteSet(S), NEW y, y \notin S, NEW f, NEW g,
         \A x \in S : f[x] \in Nat /\ g[x] = f[x], g[y] \in Nat
  PROVE  SumOf(g, S \cup {y}) = SumOf(f, S) + g[y] /\ SumOf(f, S) \in Nat
<1>1. PICK T : T = S \cup {y}
  OBVIOUS
<1>2. IsFiniteSet(T) /\ S \in SUBSET T /\ T \in SUBSET T /\ y \in T /\ T \ {y} = S /\ S \in SUBSET S
  <2>1. IsFiniteSet(T)
    BY <1>1, FS_AddElement
  <2> QED BY <1>1, <2>1
<1>3. \A x \in T : g[x] \in Nat
  BY <1>1
<1>4. PICK h : h = CHOOSE j : Sums(j, f, S)
  OBVIOUS
<1>5. PICK k : k = CHOOSE j : Sums(j, g, T)
  OBVIOUS
<1>6. Sums(h, f, S)
  <2>1. \E j : Sums(j, f, S)
    BY SumsExist
  <2> QED BY <2>1, <1>4
<1>7. Sums(k, g, T)
  <2>1. \E j : Sums(j, g, T)
    BY <1>2, <1>3, SumsExist
  <2> QED BY <2>1, <1>5
<1>8. \A s \in SUBSET S : h[s] = k[s] /\ h[s] \in Nat
  <2>1. \A x \in S : f[x] \in Nat /\ f[x] = g[x]
    OBVIOUS
  <2> QED BY <2>1, <1>2, <1>6, <1>7, SumsAgree, Zenon
<1>9. k[T] = g[y] + k[T \ {y}]
  BY <1>2, <1>3, <1>7, AnyElementFirst
<1>10. k[T] = h[S] + g[y] /\ h[S] \in Nat
  BY <1>2, <1>8, <1>9
<1>11. SumOf(f, S) = h[S] /\ SumOf(g, T) = k[T]
  BY <1>4, <1>5 DEF SumOf
<1> QED
  BY <1>1, <1>10, <1>11

(* A sum is of the items summed. *)
LEMMA SumStays ==
  ASSUME NEW S, IsFiniteSet(S), NEW f, NEW g, \A x \in S : f[x] \in Nat /\ g[x] = f[x]
  PROVE  SumOf(f, S) = SumOf(g, S)
<1>1. PICK h : h = CHOOSE j : Sums(j, f, S)
  OBVIOUS
<1>2. PICK k : k = CHOOSE j : Sums(j, g, S)
  OBVIOUS
<1>3. S \in SUBSET S /\ \A x \in S : g[x] \in Nat
  OBVIOUS
<1>4. Sums(h, f, S)
  <2>1. \E j : Sums(j, f, S)
    BY SumsExist
  <2> QED BY <2>1, <1>1
<1>5. Sums(k, g, S)
  <2>1. \E j : Sums(j, g, S)
    BY <1>3, SumsExist
  <2> QED BY <2>1, <1>2
<1>6. \A s \in SUBSET S : h[s] = k[s] /\ h[s] \in Nat
  <2>1. \A x \in S : f[x] \in Nat /\ f[x] = g[x]
    OBVIOUS
  <2> QED BY <2>1, <1>3, <1>4, <1>5, SumsAgree, ZenonT(40)
<1> QED BY <1>1, <1>2, <1>3, <1>6 DEF SumOf

LEMMA SumOfNothing == \A f : SumOf(f, {}) = 0
<1> TAKE f
<1>1. IsFiniteSet({})
  BY FS_EmptySet
<1>2. \E h : Sums(h, f, {})
  BY <1>1, SumsExist
<1>3. PICK h : h = CHOOSE j : Sums(j, f, {})
  OBVIOUS
<1>4. Sums(h, f, {})
  BY <1>2, <1>3
<1>5. h[{}] = 0
  BY <1>4 DEF Sums
<1> QED BY <1>3, <1>5 DEF SumOf

-----------------------------------------------------------------------------
(* What an item may take of a budget, and that a smaller budget never       *)
(* shows an item that a larger one did not.                                 *)
LEMMA ItemNames ==
  /\ DOMAIN FixedItems = {"task_active", "run_state", "goal_active", "requirements"}
  /\ DOMAIN CandidateItems = {"agent_inbox", "git_status", "git_diff", "problems", "repo_map"}
  /\ IsFiniteSet(AllItems)
<1>1. DOMAIN FixedItems = {"task_active", "run_state", "goal_active", "requirements"}
  BY DEF FixedItems
<1>2. DOMAIN CandidateItems = {"agent_inbox", "git_status", "git_diff", "problems", "repo_map"}
  BY DEF CandidateItems
<1>3. IsFiniteSet({"task_active", "run_state", "goal_active", "requirements"})
  <2>1. IsFiniteSet({})
    BY FS_EmptySet
  <2>2. IsFiniteSet({} \cup {"task_active"})
    BY <2>1, FS_AddElement
  <2>3. IsFiniteSet(({} \cup {"task_active"}) \cup {"run_state"})
    BY <2>2, FS_AddElement
  <2>4. IsFiniteSet((({} \cup {"task_active"}) \cup {"run_state"}) \cup {"goal_active"})
    BY <2>3, FS_AddElement
  <2>5. IsFiniteSet(((({} \cup {"task_active"}) \cup {"run_state"}) \cup {"goal_active"})
                    \cup {"requirements"})
    BY <2>4, FS_AddElement
  <2>6. ((({} \cup {"task_active"}) \cup {"run_state"}) \cup {"goal_active"})
          \cup {"requirements"}
        = {"task_active", "run_state", "goal_active", "requirements"}
    OBVIOUS
  <2> QED BY <2>5, <2>6
<1>4. IsFiniteSet({"agent_inbox", "git_status", "git_diff", "problems", "repo_map"})
  <2>1. IsFiniteSet({})
    BY FS_EmptySet
  <2>2. IsFiniteSet({} \cup {"agent_inbox"})
    BY <2>1, FS_AddElement
  <2>3. IsFiniteSet(({} \cup {"agent_inbox"}) \cup {"git_status"})
    BY <2>2, FS_AddElement
  <2>4. IsFiniteSet((({} \cup {"agent_inbox"}) \cup {"git_status"}) \cup {"git_diff"})
    BY <2>3, FS_AddElement
  <2>5. IsFiniteSet(((({} \cup {"agent_inbox"}) \cup {"git_status"}) \cup {"git_diff"})
                    \cup {"problems"})
    BY <2>4, FS_AddElement
  <2>6. IsFiniteSet((((({} \cup {"agent_inbox"}) \cup {"git_status"}) \cup {"git_diff"})
                    \cup {"problems"}) \cup {"repo_map"})
    BY <2>5, FS_AddElement
  <2>7. (((({} \cup {"agent_inbox"}) \cup {"git_status"}) \cup {"git_diff"})
                    \cup {"problems"}) \cup {"repo_map"}
        = {"agent_inbox", "git_status", "git_diff", "problems", "repo_map"}
    OBVIOUS
  <2> QED BY <2>6, <2>7
<1>5. IsFiniteSet(AllItems)
  BY <1>1, <1>2, <1>3, <1>4, FS_Union DEF AllItems
<1> QED BY <1>1, <1>2, <1>5

LEMMA ItemCaps == \A id \in AllItems : ItemOf(id).cap = NoCap \/ ItemOf(id).cap = DiffCap
<1> SUFFICES ASSUME NEW id \in AllItems PROVE ItemOf(id).cap = NoCap \/ ItemOf(id).cap = DiffCap
  OBVIOUS
<1>1. CASE id \in DOMAIN FixedItems
  <2>1. FixedItems[id].cap = NoCap
    BY <1>1, ItemNames DEF FixedItems, Item
  <2> QED BY <1>1, <2>1 DEF ItemOf
<1>2. CASE id \notin DOMAIN FixedItems
  <2>1. id \in DOMAIN CandidateItems
    BY <1>2 DEF AllItems
  <2>2. CandidateItems[id].cap = NoCap \/ CandidateItems[id].cap = DiffCap
    BY <2>1, ItemNames DEF CandidateItems, Item
  <2> QED BY <1>2, <2>2 DEF ItemOf
<1> QED BY <1>1, <1>2

LEMMA ItemsRequired ==
  /\ \A id \in DOMAIN FixedItems : ItemOf(id).required = TRUE
  /\ \A id \in AllItems : id \notin DOMAIN FixedItems => ItemOf(id).required = FALSE
<1>1. ASSUME NEW id \in DOMAIN FixedItems PROVE ItemOf(id).required = TRUE
  <2>1. FixedItems[id].required = TRUE
    BY ItemNames DEF FixedItems, Item
  <2> QED BY <2>1 DEF ItemOf
<1>2. ASSUME NEW id \in AllItems, id \notin DOMAIN FixedItems PROVE ItemOf(id).required = FALSE
  <2>1. id \in DOMAIN CandidateItems
    BY <1>2 DEF AllItems
  <2>2. CandidateItems[id].required = FALSE
    BY <2>1, ItemNames DEF CandidateItems, Item
  <2> QED BY <1>2, <2>2 DEF ItemOf
<1> QED BY <1>1, <1>2

LEMMA LesserOfTwo ==
  ASSUME NEW a \in Nat, NEW b \in Nat
  PROVE  Min({a, b}) = IF a <= b THEN a ELSE b
  BY DEF Min

LEMMA LocalBudgetFits ==
  ASSUME NEW id \in AllItems, NEW b \in Nat
  PROVE  LocalBudget(id, b) \in Nat /\ LocalBudget(id, b) <= b
<1>1. CASE ItemOf(id).cap = NoCap
  BY <1>1 DEF LocalBudget
<1>2. CASE ItemOf(id).cap # NoCap
  <2>1. LocalBudget(id, b) = Min({b, DiffCap}) /\ DiffCap \in Nat
    BY <1>2, ItemCaps, ContextAssumption DEF LocalBudget
  <2> QED BY <2>1, LesserOfTwo
<1> QED BY <1>1, <1>2

LEMMA LocalBudgetGrows ==
  ASSUME NEW id \in AllItems, NEW b \in Nat, NEW c \in Nat, c <= b
  PROVE  LocalBudget(id, c) <= LocalBudget(id, b)
<1>1. CASE ItemOf(id).cap = NoCap
  BY <1>1 DEF LocalBudget
<1>2. CASE ItemOf(id).cap # NoCap
  <2>1. LocalBudget(id, b) = Min({b, DiffCap}) /\ LocalBudget(id, c) = Min({c, DiffCap})
        /\ DiffCap \in Nat
    BY <1>2, ItemCaps, ContextAssumption DEF LocalBudget
  <2> QED BY <2>1, LesserOfTwo
<1> QED BY <1>1, <1>2

LEMMA LargestCut ==
  ASSUME NEW n \in Nat, NEW S \in SUBSET (0 .. n), S # {}
  PROVE  Max(S) \in S
<1> DEFINE G == {k \in 0 .. n + 1 : \E x \in S : k <= x}
<1> SUFFICES ASSUME ~ \E x \in S : \A y \in S : x >= y PROVE FALSE
  BY DEF Max
<1>1. 0 \in G
  <2>1. PICK x \in S : TRUE
    OBVIOUS
  <2>2. 0 <= x /\ 0 \in 0 .. n + 1
    OBVIOUS
  <2> QED BY <2>2
<1>2. ASSUME NEW k \in 0 .. n + 1, k < n + 1, k \in G PROVE k + 1 \in G
  <2>1. PICK x \in S : k <= x
    BY <1>2
  <2>2. PICK y \in S : ~(x >= y)
    OBVIOUS
  <2>3. k + 1 <= y /\ k + 1 \in 0 .. n + 1
    BY <1>2, <2>1, <2>2
  <2> QED BY <2>3
<1>3. \A k \in 0 .. n + 1 : k \in G
  <2>1. n + 1 \in Nat
    OBVIOUS
  <2> HIDE DEF G
  <2> QED BY <1>1, <1>2, <2>1, CountUp
<1>4. n + 1 \in G
  BY <1>3
<1> QED BY <1>4

(* The tokens of a block are a number, and within the budget it was given. *)
LEMMA BlockFits ==
  ASSUME NEW id \in AllItems, NEW b \in Nat, size[id] \in Nat,
         NEW t \in TruncateToBudget(id, b)
  PROVE  t \in Nat /\ t <= b
<1>1. PICK local : local = LocalBudget(id, b)
  OBVIOUS
<1>2. local \in Nat /\ local <= b
  BY <1>1, LocalBudgetFits
<1> DEFINE cuts == {k \in 0 .. size[id] : Header + k + Marker <= local}
<1>3. CASE Header + size[id] <= local
  <2>1. t = Header + size[id]
    BY <1>1, <1>3 DEF TruncateToBudget
  <2> QED BY <2>1, <1>2, <1>3, ContextAssumption
<1>4. CASE ~(Header + size[id] <= local)
  <2>1. cuts # {} /\ t = Header + Max(cuts) + Marker
    BY <1>1, <1>4 DEF TruncateToBudget
  <2>2. Max(cuts) \in cuts
    <3>1. cuts \in SUBSET (0 .. size[id])
      OBVIOUS
    <3> HIDE DEF cuts
    <3> QED BY <2>1, <3>1, LargestCut
  <2>3. PICK m : m = Max(cuts)
    OBVIOUS
  <2>4. m \in Nat /\ Header + m + Marker <= local /\ t = Header + m + Marker
    BY <2>1, <2>2, <2>3
  <2> QED BY <2>4, <1>2, ContextAssumption
<1> QED BY <1>3, <1>4

(* What does not fit does not fit into less. *)
LEMMA LessFitsLess ==
  ASSUME NEW id \in AllItems, NEW b \in Nat, NEW c \in Nat, c <= b, size[id] \in Nat,
         TruncateToBudget(id, b) = {}
  PROVE  TruncateToBudget(id, c) = {}
<1>1. PICK large : large = LocalBudget(id, b)
  OBVIOUS
<1>2. PICK small : small = LocalBudget(id, c)
  OBVIOUS
<1>3. small \in Nat /\ large \in Nat /\ small <= large
  BY <1>1, <1>2, LocalBudgetFits, LocalBudgetGrows
<1>4. ~(Header + size[id] <= large)
  BY <1>1 DEF TruncateToBudget
<1>5. ~(Header + size[id] <= small)
  BY <1>3, <1>4, ContextAssumption
<1>6. CASE ItemOf(id).truncate /\ {k \in 0 .. size[id] : Header + k + Marker <= small} # {}
  <2>1. {k \in 0 .. size[id] : Header + k + Marker <= large} # {}
    BY <1>3, <1>6, ContextAssumption
  <2>2. TruncateToBudget(id, b) # {}
    BY <1>1, <1>4, <1>6, <2>1 DEF TruncateToBudget
  <2> QED BY <2>2
<1>7. CASE ~(ItemOf(id).truncate /\ {k \in 0 .. size[id] : Header + k + Marker <= small} # {})
  BY <1>2, <1>5, <1>7 DEF TruncateToBudget
<1> QED BY <1>6, <1>7

-----------------------------------------------------------------------------
(* The planner's invariant: PlanFits with the types of what it counts, and  *)
(* that the fixed items come first: while one is left, only fixed ones are  *)
(* shown, so what they take is all that is used.                            *)
FixedTokens == SumOf(selected, DOMAIN selected \cap Fixed)

ContextInv ==
  /\ budgetTokens \in ContextBudgets
  /\ Items \subseteq AllItems /\ {"task_active", "run_state"} \subseteq Items
  /\ \A id \in Items : size[id] \in Nat
  /\ DOMAIN selected \cup omitted \subseteq Items
  /\ DOMAIN selected \cap omitted = {}
  /\ \A id \in DOMAIN selected : selected[id] \in Nat
  /\ used \in Nat /\ used = SumOf(selected, DOMAIN selected)
  /\ used <= budgetTokens
  /\ FixedTokens \in Nat /\ FixedTokens <= used
  /\ \A id \in omitted \cap Fixed : TruncateToBudget(id, budgetTokens - FixedTokens) = {}
  /\ ~(DOMAIN selected \subseteq Fixed) => Items \cap Fixed \subseteq DOMAIN selected \cup omitted

LEMMA ContextInvTypes == ContextInv => ContextTypeOK
  BY DEF ContextInv, ContextTypeOK

LEMMA ContextInvFits == ContextInv => PlanFits
  BY SumIsFold, Zenon DEF ContextInv, PlanFits, FixedTokens

LEMMA ContextStarts == ContextInit => ContextInv
<1> SUFFICES ASSUME ContextInit PROVE ContextInv
  OBVIOUS
<1>1. PICK optional \in SUBSET (AllItems \ {"task_active", "run_state"}) :
        size \in [optional \cup {"task_active", "run_state"} -> Sizes]
  BY DEF ContextInit
<1>2. Items = optional \cup {"task_active", "run_state"} /\ \A id \in Items : size[id] \in Nat
  BY <1>1, ContextAssumption DEF Items
<1>3. Items \subseteq AllItems /\ {"task_active", "run_state"} \subseteq Items
  BY <1>1, <1>2, ItemNames DEF AllItems
<1>4. DOMAIN selected = {} /\ omitted = {} /\ used = 0
  BY DEF ContextInit
<1>5. SumOf(selected, DOMAIN selected) = 0 /\ FixedTokens = 0
  <2>1. DOMAIN selected \cap Fixed = {}
    BY <1>4
  <2> QED BY <1>4, <2>1, SumOfNothing DEF FixedTokens
<1>6. budgetTokens \in ContextBudgets /\ budgetTokens \in Nat
  BY ContextAssumption DEF ContextInit
<1> QED BY <1>2, <1>3, <1>4, <1>5, <1>6 DEF ContextInv

LEMMA ContextStep ==
  ASSUME ContextInv, ContextNext
  PROVE  ContextInv'
<1>1. PICK id \in AllItems : Choose(id)
  BY DEF ContextNext
<1> DEFINE left == Items \ (DOMAIN selected \cup omitted)
<1>2. id \in left /\ (\A other \in left \ {id} : Before(id, other))
      /\ budgetTokens' = budgetTokens /\ size' = size /\ Items' = Items
  BY <1>1 DEF Choose, Items
<1>3. budgetTokens \in Nat /\ used \in Nat /\ budgetTokens - used \in Nat
  BY ContextAssumption DEF ContextInv
<1>4. \A x, b : (TruncateToBudget(x, b))' = TruncateToBudget(x, b)
  BY <1>2 DEF TruncateToBudget
<1>5. Items \subseteq AllItems /\ \A x \in Items : size[x] \in Nat
  BY DEF ContextInv
<1>6. /\ budgetTokens' \in ContextBudgets
      /\ Items' \subseteq AllItems /\ {"task_active", "run_state"} \subseteq Items'
      /\ \A x \in Items' : size'[x] \in Nat
  BY <1>2 DEF ContextInv
<1>7. id \notin Fixed => Items \cap Fixed \subseteq DOMAIN selected \cup omitted
  <2> SUFFICES ASSUME id \notin Fixed, NEW x \in Items \cap Fixed,
                      x \notin DOMAIN selected \cup omitted
               PROVE  FALSE
    BY DEF left
  <2>1. Before(id, x)
    BY <1>2
  <2>2. ItemOf(x).required = TRUE /\ ItemOf(id).required = FALSE
    BY ItemsRequired DEF Fixed
  <2> QED BY <2>1, <2>2 DEF Before
<1>8. id \in Fixed => DOMAIN selected \subseteq Fixed /\ FixedTokens = used
  <2> SUFFICES ASSUME id \in Fixed PROVE DOMAIN selected \subseteq Fixed /\ FixedTokens = used
    OBVIOUS
  <2>1. DOMAIN selected \subseteq Fixed
    BY <1>2 DEF ContextInv
  <2>2. DOMAIN selected \cap Fixed = DOMAIN selected
    BY <2>1
  <2> QED BY <2>1, <2>2 DEF ContextInv, FixedTokens
<1>9. CASE TruncateToBudget(id, budgetTokens - used) = {}
  <2>1. omitted' = omitted \cup {id} /\ selected' = selected /\ used' = used
    BY <1>1, <1>9 DEF Choose
  <2>2. FixedTokens' = FixedTokens
    BY <2>1 DEF FixedTokens, Fixed, FixedItems, Item
  <2>3. \A x \in omitted' \cap Fixed : (TruncateToBudget(x, budgetTokens - FixedTokens))' = {}
    <3>1. \A x \in omitted' \cap Fixed : TruncateToBudget(x, budgetTokens - FixedTokens) = {}
      <4> SUFFICES ASSUME NEW x \in omitted' \cap Fixed
                   PROVE  TruncateToBudget(x, budgetTokens - FixedTokens) = {}
        OBVIOUS
      <4>1. CASE x = id
        BY <4>1, <1>8, <1>9
      <4>2. CASE x # id
        BY <4>2, <2>1 DEF ContextInv
      <4> QED BY <4>1, <4>2
    <3> QED BY <3>1, <2>2, <1>2, <1>4 DEF TruncateToBudget
  <2>4. DOMAIN selected' \cup omitted' \subseteq Items' /\ DOMAIN selected' \cap omitted' = {}
    BY <2>1, <1>2 DEF ContextInv
  <2>5. ~(DOMAIN selected' \subseteq Fixed) => Items' \cap Fixed \subseteq DOMAIN selected' \cup omitted'
    BY <2>1, <1>2 DEF ContextInv
  <2>6. /\ \A x \in DOMAIN selected' : selected'[x] \in Nat
        /\ used' \in Nat /\ used' = SumOf(selected', DOMAIN selected')
        /\ used' <= budgetTokens'
        /\ FixedTokens' \in Nat /\ FixedTokens' <= used'
    BY <2>1, <2>2, <1>2 DEF ContextInv
  <2> QED BY <1>6, <2>3, <2>4, <2>5, <2>6 DEF ContextInv
<1>10. CASE TruncateToBudget(id, budgetTokens - used) # {}
  <2>1. PICK t \in TruncateToBudget(id, budgetTokens - used) :
          /\ selected' = [x \in DOMAIN selected \cup {id} |-> IF x = id THEN t ELSE selected[x]]
          /\ used' = used + t
          /\ omitted' = omitted
    BY <1>1, <1>10 DEF Choose
  <2>2. t \in Nat /\ t <= budgetTokens - used
    BY <1>2, <1>3, <1>5, BlockFits
  <2>3. DOMAIN selected' = DOMAIN selected \cup {id} /\ selected'[id] = t
        /\ \A x \in DOMAIN selected : selected'[x] = selected[x]
    BY <2>1, <1>2
  <2>4. IsFiniteSet(DOMAIN selected) /\ id \notin DOMAIN selected
    BY <1>2, ItemNames, FS_Subset DEF ContextInv
  <2>5. \A x \in DOMAIN selected : selected[x] \in Nat /\ selected'[x] = selected[x]
    BY <2>3 DEF ContextInv
  <2>6. used' = SumOf(selected', DOMAIN selected')
    <3>1. selected'[id] \in Nat
      BY <2>2, <2>3
    <3>2. PICK f, g, S : f = selected /\ g = selected' /\ S = DOMAIN selected
      OBVIOUS
    <3>3. /\ IsFiniteSet(S) /\ id \notin S /\ g[id] \in Nat
          /\ \A x \in S : f[x] \in Nat /\ g[x] = f[x]
      BY <2>4, <2>5, <3>1, <3>2, Zenon
    <3>4. SumOf(g, S \cup {id}) = SumOf(f, S) + g[id]
      BY <3>3, SumGrows
    <3>5. SumOf(selected', DOMAIN selected \cup {id}) = SumOf(selected, DOMAIN selected) + selected'[id]
      BY <3>2, <3>4, Zenon
    <3> QED BY <2>1, <2>3, <3>5 DEF ContextInv
  <2>7. used' \in Nat /\ used' <= budgetTokens' /\ \A x \in DOMAIN selected' : selected'[x] \in Nat
    BY <1>2, <1>3, <2>1, <2>2, <2>3 DEF ContextInv
  <2>8. DOMAIN selected' \cup omitted' \subseteq Items' /\ DOMAIN selected' \cap omitted' = {}
    BY <2>1, <2>3, <1>2 DEF ContextInv
  <2>9. ~(DOMAIN selected' \subseteq Fixed) => Items' \cap Fixed \subseteq DOMAIN selected' \cup omitted'
    BY <1>7, <1>8, <1>2, <2>1, <2>3
  <2>10. FixedTokens' = IF id \in Fixed THEN FixedTokens + t ELSE FixedTokens
    <3>1. CASE id \in Fixed
      <4>1. DOMAIN selected' \cap Fixed = DOMAIN selected'
        BY <3>1, <1>8, <2>3
      <4>2. FixedTokens' = used'
        BY <4>1, <2>6 DEF FixedTokens, Fixed, FixedItems, Item
      <4> QED BY <3>1, <4>2, <1>8, <2>1
    <3>2. CASE id \notin Fixed
      <4>1. PICK f, g, S : f = selected /\ g = selected' /\ S = DOMAIN selected \cap Fixed
        OBVIOUS
      <4>2. DOMAIN selected' \cap Fixed = S
        BY <3>2, <4>1, <2>3
      <4>3. IsFiniteSet(S) /\ \A x \in S : f[x] \in Nat /\ g[x] = f[x]
        <5>1. IsFiniteSet(S)
          BY <2>4, <4>1, FS_Subset
        <5> QED BY <5>1, <2>5, <4>1
      <4>4. SumOf(f, S) = SumOf(g, S)
        BY <4>3, SumStays
      <4>5. FixedTokens = SumOf(f, S)
        BY <4>1, Zenon DEF FixedTokens
      <4>6. FixedTokens' = SumOf(g, S)
        BY <4>1, <4>2 DEF FixedTokens, Fixed, FixedItems, Item
      <4> QED BY <3>2, <4>4, <4>5, <4>6
    <3> QED BY <3>1, <3>2
  <2>11. /\ FixedTokens \in Nat /\ FixedTokens <= used
         /\ FixedTokens' \in Nat /\ FixedTokens' <= used' /\ FixedTokens <= FixedTokens'
    <3>1. PICK before, after : before = FixedTokens /\ after = FixedTokens'
      OBVIOUS
    <3>2. before \in Nat /\ before <= used /\ after \in {before, before + t}
      BY <2>10, <3>1 DEF ContextInv
    <3> QED BY <3>1, <3>2, <1>3, <2>1, <2>2
  <2>12. ASSUME NEW x \in omitted' \cap Fixed
         PROVE  (TruncateToBudget(x, budgetTokens - FixedTokens))' = {}
    <3>1. x \in AllItems /\ size[x] \in Nat /\ TruncateToBudget(x, budgetTokens - FixedTokens) = {}
      BY <2>1, <1>5 DEF ContextInv
    <3>2. PICK c : c = budgetTokens - FixedTokens'
      OBVIOUS
    <3>3. PICK b : b = budgetTokens - FixedTokens
      OBVIOUS
    <3>4. PICK before, after : before = FixedTokens /\ after = FixedTokens'
      OBVIOUS
    <3>5. b \in Nat /\ c \in Nat /\ c <= b
      <4>1. before \in Nat /\ after \in Nat /\ before <= after /\ after <= used'
            /\ used' <= budgetTokens /\ b = budgetTokens - before /\ c = budgetTokens - after
        BY <2>7, <2>11, <3>2, <3>3, <3>4, <1>2
      <4> QED BY <4>1, <1>3, <2>7
    <3>6. TruncateToBudget(x, b) = {}
      BY <3>1, <3>3
    <3>7. TruncateToBudget(x, c) = {}
      BY <3>1, <3>5, <3>6, LessFitsLess
    <3>8. (TruncateToBudget(x, c))' = {}
      BY <1>4, <3>7
    <3>9. c = budgetTokens' - FixedTokens'
      BY <1>2, <3>2
    <3> QED BY <3>8, <3>9 DEF TruncateToBudget
  <2> QED BY <1>6, <2>6, <2>7, <2>8, <2>9, <2>11, <2>12 DEF ContextInv
<1> QED
  BY <1>9, <1>10

LEMMA ContextRests == ContextInv /\ UNCHANGED planVars => ContextInv'
  BY DEF ContextInv, FixedTokens, planVars, Items, TruncateToBudget

(* The compiled context never exceeds its token budget, and a fixed item    *)
(* that it left out would not fit beside the fixed ones it shows: no        *)
(* optional item ever takes the place of a fixed one.  planner.ts, choose() *)
THEOREM PlanStaysInBudget == ContextSpec => []PlanFits
<1>1. ContextInit => ContextInv
  BY ContextStarts
<1>2. ContextInv /\ [ContextNext]_planVars => ContextInv'
  BY ContextStep, ContextRests
<1>3. ContextInv => PlanFits
  BY ContextInvFits
<1> QED
  BY <1>1, <1>2, <1>3, PTL DEF ContextSpec

-----------------------------------------------------------------------------
(* The types of a mission.  Four of the components' invariants say more of  *)
(* their state than its type; the other four are completed here.            *)

LEMMA RecoveryInvTypes == RecoveryInv => RecoveryTypeOK
<1> SUFFICES ASSUME RecoveryInv PROVE RecoveryTypeOK
  OBVIOUS
<1>1. /\ call.stage \in {"running", "failed", "done", "held"}
      /\ call.error \in Errors \cup {NoError} /\ call.same \in Nat
  BY DEF RecoveryInv, CallRows
<1>2. call.ran \in 1 .. MaxToolAttempts + 1
  BY RecoveryAssumption DEF RecoveryInv
<1> QED
  BY <1>1, <1>2 DEF RecoveryInv, RecoveryTypeOK

(* RunBudget: every overspent turn has an entry of its own in the usage     *)
(* table, so there are no more of them than epochs.                         *)
OverspentHasEntries == IsFiniteSet(usageEntries) /\ overspent =< Cardinality(usageEntries)

LEMMA OverspentStarts == BudgetInit => OverspentHasEntries
  BY FS_EmptySet DEF BudgetInit, OverspentHasEntries

LEMMA OverspentStep ==
  ASSUME BudgetCore, OverspentHasEntries, [BudgetNext]_budgetVars
  PROVE  OverspentHasEntries'
<1>1. ASSUME NEW w \in Workers, RecordUsageFenced(w) PROVE OverspentHasEntries'
  <2>1. turns[w].epoch \notin usageEntries
    BY <1>1 DEF RecordUsageFenced, BudgetCore, ChargedEntry
  <2>2. usageEntries' = usageEntries \cup {turns[w].epoch}
    BY <1>1 DEF RecordUsageFenced
  <2>3. /\ IsFiniteSet(usageEntries') /\ Cardinality(usageEntries') = Cardinality(usageEntries) + 1
        /\ Cardinality(usageEntries) \in Nat
    BY <2>1, <2>2, FS_AddElement, FS_CardinalityType DEF OverspentHasEntries
  <2>4. overspent' = overspent \/ overspent' = overspent + 1
    <3>1. overspent \in Nat
      BY DEF BudgetCore, BudgetTypes
    <3>2. PICK d \in {0, 1} : overspent' = overspent + d
      BY <1>1 DEF RecordUsageFenced
    <3> QED BY <3>1, <3>2
  <2> QED BY <2>3, <2>4 DEF OverspentHasEntries, BudgetCore, BudgetTypes
<1>2. ASSUME UNCHANGED <<usageEntries, overspent>> PROVE OverspentHasEntries'
  BY <1>2 DEF OverspentHasEntries
<1>3. ASSUME NEW w \in Workers,
             \/ StartSessionEpoch(w) \/ RecordToolIntent(w) \/ RecordCost(w) \/ TurnLost(w)
             \/ \E input, output \in 0 .. 1 : MergeUsage(w, input, output)
      PROVE  OverspentHasEntries'
  BY <1>2, <1>3 DEF StartSessionEpoch, RecordToolIntent, RecordCost, TurnLost, MergeUsage
<1>4. CASE Pause \/ Resume \/ StartQueued \/ UNCHANGED budgetVars
  BY <1>2, <1>4 DEF Pause, Resume, StartQueued, budgetVars
<1> QED
  BY <1>1, <1>3, <1>4 DEF BudgetNext

LEMMA BudgetInvTypes == BudgetCore /\ OverspentHasEntries => BudgetTypeOK
<1> SUFFICES ASSUME BudgetCore, OverspentHasEntries PROVE BudgetTypeOK
  OBVIOUS
<1>1. BudgetTypes /\ MaxEpochs \in Nat /\ epoch \in Nat
  BY BudgetAssumption DEF BudgetCore, BudgetTypes
<1>2. IsFiniteSet(1 .. epoch) /\ Cardinality(1 .. epoch) = epoch
  BY <1>1, FS_Interval
<1>3. Cardinality(usageEntries) <= epoch /\ Cardinality(usageEntries) \in Nat
  <2>1. usageEntries \in SUBSET (1 .. epoch)
    BY <1>1 DEF BudgetTypes
  <2>2. IsFiniteSet(usageEntries) /\ Cardinality(usageEntries) <= Cardinality(1 .. epoch)
    BY <1>2, <2>1, FS_Subset, Zenon
  <2>3. Cardinality(usageEntries) \in Nat
    BY <2>2, FS_CardinalityType, Zenon
  <2> QED
    BY <1>2, <2>2, <2>3
<1>4. overspent \in 0 .. MaxEpochs
  BY <1>1, <1>3 DEF BudgetTypes, OverspentHasEntries
<1>5. \A w \in Workers : turns[w].stage \in {"none", "working", "charged"}
  BY <1>1 DEF BudgetTypes, TurnRows
<1> QED
  BY <1>1, <1>4, <1>5 DEF BudgetTypes, BudgetTypeOK, Usages, UsageKinds, Statuses

(* ProjectMemory: what is stored in a scope is of the types it was given.   *)
LEMMA UpsertKeepsTypes ==
  ASSUME MemoryInv, MemoryTypeOK, NEW t \in ScopeNames, NEW c,
         c.id \in AnyId \cup {"none"}, c.fact \in Facts, c.confidence \in Confidences,
         c.redactions \in Nat, records' = Upsert(records, t, c),
         operations' \in 0 .. MaxOperations
  PROVE  MemoryTypeOK'
<1> DEFINE r == RecordId(t, c)
           m == Merged(t, c)
           D == DOMAIN records[t] \cup {r}
           known == {records[t][id] : id \in Existing(t, c.fact)}
<1>1. m.fact \in Facts /\ m.confidence \in Confidences
  BY MergedIsNoWeaker
<1>2. m.redactions \in Nat
  <2>1. \A k \in known : k.redactions \in Nat
    BY DEF MemoryTypeOK, Existing
  <2>2. m.redactions = IF known = {} THEN c.redactions
                       ELSE c.redactions + (CHOOSE k \in known : TRUE).redactions
    BY Zenon DEF Merged
  <2> HIDE DEF known, m
  <2>3. CASE known = {}
    BY <2>2, <2>3
  <2>4. CASE known # {}
    <3>1. PICK k : k = CHOOSE x \in known : TRUE
      OBVIOUS
    <3>2. k \in known /\ m.redactions = c.redactions + k.redactions
      BY <2>2, <2>4, <3>1
    <3> QED BY <2>1, <3>2
  <2> QED BY <2>3, <2>4
<1>3. r \in AnyId
  <2>1. CASE Existing(t, c.fact) # {}
    <3>1. r \in Existing(t, c.fact)
      BY <2>1 DEF RecordId
    <3> QED BY <3>1 DEF Existing, MemoryTypeOK
  <2>2. CASE Existing(t, c.fact) = {} /\ c.id # "none"
    BY <2>2 DEF RecordId
  <2>3. CASE Existing(t, c.fact) = {} /\ c.id = "none"
    BY <2>3 DEF RecordId, AnyId
  <2> QED BY <2>1, <2>2, <2>3
<1>4. records' = [records EXCEPT ![t] = [id \in D |-> IF id = r THEN m ELSE records[t][id]]]
  BY Zenon DEF Upsert
<1> HIDE DEF r, m, D, known
<1>5. /\ DOMAIN records' = ScopeNames
      /\ \A s \in ScopeNames \ {t} : records'[s] = records[s]
      /\ DOMAIN records'[t] = D
      /\ \A id \in D : records'[t][id] = IF id = r THEN m ELSE records[t][id]
  BY <1>4 DEF MemoryTypeOK
<1>6. ASSUME NEW s \in ScopeNames, NEW id \in DOMAIN records'[s]
      PROVE  /\ id \in AnyId /\ records'[s][id].fact \in Facts
             /\ records'[s][id].confidence \in Confidences
             /\ records'[s][id].redactions \in Nat
  <2>1. CASE s # t
    BY <2>1, <1>5 DEF MemoryTypeOK
  <2>2. CASE s = t /\ id = r
    BY <2>2, <1>1, <1>2, <1>3, <1>5
  <2>3. CASE s = t /\ id # r
    <3>1. id \in DOMAIN records[t] /\ records'[t][id] = records[t][id]
      BY <2>3, <1>5 DEF D
    <3> QED BY <2>3, <3>1 DEF MemoryTypeOK
  <2> QED BY <2>1, <2>2, <2>3
<1> QED
  BY <1>5, <1>6 DEF MemoryTypeOK

LEMMA FoundKeepsTypes ==
  ASSUME MemoryTypeOK, NEW id \in AnyId, NEW c \in FindCandidate(records, id)
  PROVE  c.id \in AnyId /\ c.fact \in Facts /\ c.redactions \in Nat
<1>1. PICK s \in ScopeNames :
        /\ id \in DOMAIN records[s]
        /\ c.id = id /\ c.fact = records[s][id].fact
        /\ c.redactions = records[s][id].redactions + RedactSecrets(records[s][id].fact)
  BY FoundIsStored
<1>2. records[s][id].fact \in Facts /\ records[s][id].redactions \in Nat
  BY <1>1 DEF MemoryTypeOK
<1>3. RedactSecrets(records[s][id].fact) \in Nat
  BY DEF RedactSecrets
<1> QED
  BY <1>1, <1>2, <1>3

LEMMA MemoryTypesStart == MemoryInit => MemoryTypeOK
<1> SUFFICES ASSUME MemoryInit PROVE MemoryTypeOK
  OBVIOUS
<1>1. DOMAIN records = ScopeNames /\ \A s \in ScopeNames : DOMAIN records[s] = {}
  BY DEF MemoryInit
<1>2. operations \in 0 .. MaxOperations
  BY MemoryAssumption DEF MemoryInit
<1> QED
  BY <1>1, <1>2 DEF MemoryTypeOK

LEMMA MemoryTypesStep ==
  ASSUME MemoryInv, MemoryTypeOK, [MemoryNext]_memoryVars
  PROVE  MemoryTypeOK'
<1>0. operations \in 0 .. MaxOperations /\ MaxOperations \in Nat
  BY MemoryAssumption DEF MemoryTypeOK
<1>1. ASSUME NEW c \in Candidate, Capture(c) PROVE MemoryTypeOK'
  <2> DEFINE n == NormalizeCandidate(c)
  <2>1. /\ n.id \in AnyId \cup {"none"} /\ n.fact \in Facts /\ n.confidence \in Confidences
        /\ n.redactions \in Nat
    BY DEF NormalizeCandidate, Candidate, RedactSecrets, AnyId
  <2>2. records' = Upsert(records, "ephemeral", n) /\ operations' = operations + 1
        /\ operations < MaxOperations
    BY <1>1 DEF Capture
  <2> HIDE DEF n
  <2>3. "ephemeral" \in ScopeNames /\ operations' \in 0 .. MaxOperations
    BY <1>0, <2>2, ScopesAre
  <2> QED
    BY <2>1, <2>2, <2>3, UpsertKeepsTypes
<1>2. ASSUME NEW id \in AnyId, NEW wish \in {"none", "run", "project"}, Promote(id, wish)
      PROVE  MemoryTypeOK'
  <2>1. PICK c \in FindCandidate(records, id) :
          LET target == IF wish # "none" THEN wish
                        ELSE IF c.reusable THEN "project" ELSE "run"
          IN records' = Upsert(records, target, c) /\ operations' = operations + 1
             /\ operations < MaxOperations
    BY <1>2, Zenon DEF Promote
  <2>2. c.confidence \in Confidences /\ c.id \in AnyId /\ c.fact \in Facts /\ c.redactions \in Nat
    BY FoundIsTyped, FoundKeepsTypes
  <2>3. PICK t \in {"run", "project"} : records' = Upsert(records, t, c)
    BY <2>1
  <2>4. t \in ScopeNames /\ operations' \in 0 .. MaxOperations
    BY <1>0, <2>1, ScopesAre
  <2> QED
    BY <2>2, <2>3, <2>4, UpsertKeepsTypes
<1>3. CASE UNCHANGED memoryVars
  BY <1>3 DEF memoryVars, MemoryTypeOK
<1> QED
  BY <1>1, <1>2, <1>3 DEF MemoryNext

(* SemanticIndex: snapshots, the one on disk too, are of the paths and      *)
(* contents there are.                                                      *)
BuildTypes ==
  /\ indexStatus \in {"idle", "indexing", "ready", "unavailable"}
  /\ indexed \in FileSets /\ desired \in FileSets
  /\ \A u \in Users : /\ build[u].pc \in {"idle", "building"}
                      /\ build[u].files \in FileSets /\ build[u].done \subseteq Paths
IndexTypes ==
  /\ BuildTypes
  /\ disk \in [Workspaces -> [Paths -> TextContents]]
  /\ "pc" \in DOMAIN compile /\ compile.pc \in {"idle", "indexing", "done"}
  /\ requests \in 0 .. MaxRequests

LEMMA IndexInvTypes == IndexInv /\ IndexTypes => IndexTypeOK
<1> SUFFICES ASSUME IndexInv, IndexTypes PROVE IndexTypeOK
  OBVIOUS
<1>1. \A u \in Users : build[u].gen <= generation
  BY DEF IndexInv, BuildShapes
<1> QED
  BY <1>1 DEF IndexTypes, BuildTypes, IndexTypeOK

LEMMA SnapshotIs ==
  \A f : f \in FileSets <=> /\ f = [p \in DOMAIN f |-> f[p]] /\ DOMAIN f \subseteq Paths
                            /\ \A p \in DOMAIN f : f[p] \in TextContents
<1> SUFFICES ASSUME NEW f
             PROVE  f \in FileSets <=> /\ f = [p \in DOMAIN f |-> f[p]]
                                       /\ DOMAIN f \subseteq Paths
                                       /\ \A p \in DOMAIN f : f[p] \in TextContents
  OBVIOUS
<1>1. f \in FileSets <=> \E P \in SUBSET Paths : f \in [P -> TextContents]
  BY DEF FileSets
<1>2. ASSUME NEW P \in SUBSET Paths, f \in [P -> TextContents]
      PROVE  /\ f = [p \in DOMAIN f |-> f[p]] /\ DOMAIN f \subseteq Paths
             /\ \A p \in DOMAIN f : f[p] \in TextContents
  BY <1>2
<1>3. ASSUME f = [p \in DOMAIN f |-> f[p]], DOMAIN f \subseteq Paths,
             \A p \in DOMAIN f : f[p] \in TextContents
      PROVE  \E P \in SUBSET Paths : f \in [P -> TextContents]
  <2>1. f \in [DOMAIN f -> TextContents]
    BY <1>3
  <2> QED BY <1>3, <2>1
<1> QED
  BY <1>1, <1>2, <1>3

LEMMA NothingIsASnapshot == NoFiles \in FileSets
<1>1. << >> \in Seq(TextContents) /\ Len(<< >>) = 0
  OBVIOUS
<1>2. << >> \in [1 .. 0 -> TextContents]
  BY <1>1
<1>3. 1 .. 0 = {} /\ {} \in SUBSET Paths
  OBVIOUS
<1>4. << >> \in [{} -> TextContents]
  BY <1>2, <1>3
<1> QED BY <1>3, <1>4 DEF NoFiles, FileSets

LEMMA IndexTypesStart == IndexInit => IndexTypes
<1> SUFFICES ASSUME IndexInit PROVE IndexTypes
  OBVIOUS
<1>1. NoFiles \in FileSets
  BY NothingIsASnapshot
<1>2. \A u \in Users : build[u].pc = "idle" /\ build[u].files = NoFiles /\ build[u].done = {}
  BY DEF IndexInit, NoBuild
<1>3. disk \in [Workspaces -> [Paths -> TextContents]]
  <2>1. \A g \in {[p \in Paths |-> c] : c \in TextContents} : g \in [Paths -> TextContents]
    OBVIOUS
  <2>2. disk \in [Workspaces -> {[p \in Paths |-> c] : c \in TextContents}]
    BY DEF IndexInit
  <2> QED BY <2>1, <2>2
<1>4. "pc" \in DOMAIN compile /\ compile.pc = "idle"
  BY DEF IndexInit, NoCompile
<1>5. requests \in 0 .. MaxRequests
  BY IndexAssumption DEF IndexInit
<1> QED
  BY <1>1, <1>2, <1>3, <1>4, <1>5 DEF IndexInit, IndexTypes, BuildTypes

LEMMA StartIndexKeepsTypes ==
  ASSUME IndexInv, IndexTypes, NEW u \in Users, NEW files \in FileSets, StartIndex(u, files)
  PROVE  BuildTypes'
<1> DEFINE row == [pc |-> "building", gen |-> generation + 1, files |-> files, done |-> {}]
<1>1. row.pc = "building" /\ row.files = files /\ row.done = {}
  OBVIOUS
<1>2. /\ desired' = files /\ indexStatus' = "indexing" /\ DOMAIN build = Users
      /\ build' = [build EXCEPT ![u] = row] /\ indexed' = indexed
  BY DEF StartIndex, IndexInv, BuildShapes
<1> HIDE DEF row
<1>3. build'[u] = row /\ \A v \in Users \ {u} : build'[v] = build[v]
  BY <1>2
<1> QED
  BY <1>1, <1>2, <1>3 DEF IndexTypes, BuildTypes

LEMMA BuildKeepsTypes ==
  ASSUME IndexInv, IndexTypes, NEW u \in Users,
         BuildYields(u) \/ BuildEnds(u) \/ BuildGivesUp(u)
  PROVE  IndexTypes'
<1>0. DOMAIN build = Users /\ DOMAIN build[u] = BuildFields
  BY DEF IndexInv, BuildShapes
<1>1. NoFiles \in FileSets
  BY NothingIsASnapshot
<1>2. NoBuild.pc = "idle" /\ NoBuild.files = NoFiles /\ NoBuild.done = {}
  BY DEF NoBuild
<1>3. disk' = disk /\ compile' = compile /\ requests' = requests /\ desired' = desired
  BY DEF BuildYields, BuildEnds, BuildGivesUp
<1>4. CASE BuildYields(u)
  <2> DEFINE row == [build[u] EXCEPT !.done = @ \cup Stretch(u)]
  <2>1. row.pc = build[u].pc /\ row.files = build[u].files
        /\ row.done = build[u].done \cup Stretch(u)
    BY <1>0 DEF BuildFields
  <2>2. build' = [build EXCEPT ![u] = row]
    BY <1>0, <1>4 DEF BuildYields
  <2> HIDE DEF row
  <2>3. build'[u] = row /\ \A v \in Users \ {u} : build'[v] = build[v]
    BY <1>0, <2>2
  <2>4. Stretch(u) \subseteq Paths
    <3>1. DOMAIN build[u].files \subseteq Paths
      BY SnapshotIs DEF IndexTypes, BuildTypes
    <3> QED BY <3>1 DEF Stretch
  <2>5. indexStatus' = indexStatus /\ indexed' = indexed
    BY <1>4 DEF BuildYields
  <2> QED
    BY <1>3, <2>1, <2>3, <2>4, <2>5 DEF IndexTypes, BuildTypes
<1>5. CASE BuildEnds(u) \/ BuildGivesUp(u)
  <2>1. build' = [build EXCEPT ![u] = NoBuild]
    BY <1>5 DEF BuildEnds, BuildGivesUp
  <2>2. build'[u] = NoBuild /\ \A v \in Users \ {u} : build'[v] = build[v]
    BY <1>0, <2>1
  <2>3. indexStatus' \in {"ready", indexStatus} /\ indexed' \in {indexed, build[u].files}
    BY <1>5 DEF BuildEnds, BuildGivesUp
  <2> QED
    BY <1>1, <1>2, <1>3, <2>2, <2>3 DEF IndexTypes, BuildTypes
<1> QED
  BY <1>4, <1>5

LEMMA IndexTypesStep ==
  ASSUME IndexInv, IndexTypes, [IndexNext]_indexVars
  PROVE  IndexTypes'
<1>1. \A u \in Callers : u \in Users
  BY DEF Users
<1>2. Compiler \in Users
  BY DEF Users
<1>3. ASSUME Request PROVE requests' \in 0 .. MaxRequests
  BY <1>3, IndexAssumption DEF Request, IndexTypes, BuildTypes
<1>4. ASSUME NEW u \in Users, BuildYields(u) \/ BuildEnds(u) \/ BuildGivesUp(u)
      PROVE  IndexTypes'
  BY <1>4, BuildKeepsTypes
<1>5. ASSUME NEW u \in Callers, NEW files \in FileSets, Request, StartIndex(u, files), Others
      PROVE  IndexTypes'
  BY <1>1, <1>3, <1>5, StartIndexKeepsTypes DEF Others, IndexTypes, BuildTypes
<1>6. ASSUME NEW u \in Callers, NEW P \in {{}} \cup {{p} : p \in Paths},
             NEW removed, NEW file \in [P -> TextContents], UpdateFiles(u, file, removed)
      PROVE  IndexTypes'
  <2>1. P \subseteq Paths
    OBVIOUS
  <2>2. DOMAIN desired \subseteq Paths /\ \A p \in DOMAIN desired : desired[p] \in TextContents
    BY SnapshotIs DEF IndexTypes, BuildTypes
  <2>3. Updated(file, removed) \in FileSets
    <3> DEFINE U == (DOMAIN desired \ {removed}) \cup DOMAIN file
               g == [p \in U |-> IF p \in DOMAIN file THEN file[p] ELSE desired[p]]
    <3>1. U \subseteq Paths /\ \A p \in U : g[p] \in TextContents
      BY <2>1, <2>2
    <3>2. DOMAIN g = U /\ g = [p \in DOMAIN g |-> g[p]]
      OBVIOUS
    <3>3. Updated(file, removed) = g
      BY Zenon DEF Updated
    <3> HIDE DEF g, U
    <3> QED BY <3>1, <3>2, <3>3, SnapshotIs
  <2> QED
    BY <1>5, <1>6, <2>3 DEF UpdateFiles
<1>7. ASSUME NEW to \in {"idle", "unavailable"}, Withdraw(to)
      PROVE  IndexTypes'
  BY <1>3, <1>7 DEF Withdraw, Others, IndexTypes, BuildTypes
<1>8. ASSUME NEW w \in Workspaces, NEW p \in Paths, NEW c \in TextContents, WriteFile(w, p, c)
      PROVE  IndexTypes'
  <2>1. disk' = [disk EXCEPT ![w] = [disk[w] EXCEPT ![p] = c]]
    BY <1>8 DEF WriteFile, IndexTypes, BuildTypes
  <2>2. [disk[w] EXCEPT ![p] = c] \in [Paths -> TextContents]
    BY DEF IndexTypes, BuildTypes
  <2>3. disk' \in [Workspaces -> [Paths -> TextContents]]
    BY <2>1, <2>2 DEF IndexTypes, BuildTypes
  <2>4. requests' \in 0 .. MaxRequests
    BY <1>3, <1>8 DEF WriteFile
  <2> QED
    BY <1>8, <2>3, <2>4 DEF WriteFile, IndexTypes, BuildTypes
<1>9. ASSUME NEW w \in Workspaces, CompileCached(w)
      PROVE  IndexTypes'
  <2>1. "pc" \in DOMAIN compile' /\ compile'.pc = "done"
    BY <1>9 DEF CompileCached
  <2>2. requests' \in 0 .. MaxRequests
    BY <1>3, <1>9 DEF CompileCached
  <2> QED
    BY <1>9, <2>1, <2>2 DEF CompileCached, IndexTypes, BuildTypes
<1>10. ASSUME NEW w \in Workspaces, CompileIndexes(w)
       PROVE  IndexTypes'
  <2>1. "pc" \in DOMAIN compile' /\ compile'.pc = "indexing"
    BY <1>10 DEF CompileIndexes
  <2>2. requests' \in 0 .. MaxRequests
    BY <1>3, <1>10 DEF CompileIndexes
  <2>3. disk[w] \in FileSets
    <3>1. disk[w] \in [Paths -> TextContents]
      BY DEF IndexTypes, BuildTypes
    <3> QED BY <3>1, SnapshotIs
  <2>4. StartIndex(Compiler, disk[w]) /\ disk' = disk
    BY <1>10 DEF CompileIndexes
  <2>5. BuildTypes'
    BY <1>2, <2>3, <2>4, StartIndexKeepsTypes
  <2> QED
    BY <2>1, <2>2, <2>4, <2>5 DEF BuildTypes, IndexTypes
<1>11. CASE CompileSearches
  <2>1. compile' = [compile EXCEPT !.pc = "done", !.shown = Search]
    BY <1>11 DEF CompileSearches
  <2>2. "pc" \in DOMAIN compile' /\ compile'.pc = "done"
    BY <2>1 DEF IndexTypes, BuildTypes
  <2> QED
    BY <1>11, <2>2 DEF CompileSearches, IndexTypes, BuildTypes
<1>12. CASE UNCHANGED indexVars
  BY <1>12 DEF indexVars, IndexTypes, BuildTypes
<1> QED
  BY <1>4, <1>5, <1>6, <1>7, <1>8, <1>9, <1>10, <1>11, <1>12 DEF IndexNext, IndexFiles

-----------------------------------------------------------------------------
(* The components of a mission share no variable, so each keeps its         *)
(* invariant whatever the others do.                                        *)
MissionInv ==
  /\ GraphInv /\ MailInv /\ PermissionInv /\ RecoveryInv
  /\ BudgetCore /\ OverspentHasEntries /\ TurnInv /\ ContextInv
  /\ MemoryInv /\ MemoryTypeOK /\ IndexInv /\ IndexTypes

LEMMA MissionSteps ==
  ASSUME [Next]_vars
  PROVE  /\ [AgentNext]_agentVars /\ [PermissionNext]_permissionVars
         /\ [RecoveryNext]_recoveryVars /\ [BudgetNext]_budgetVars /\ [TurnNext]_turnVars
         /\ [ContextNext]_planVars /\ [MemoryNext]_memoryVars /\ [IndexNext]_indexVars
  BY Zenon DEF Next, vars

(* The state of all eight components of a mission keeps its type, for every *)
(* value of the constants: agents and mailbox, permissions, tool recovery,  *)
(* budget, provider turns, context plan, memory and semantic index.         *)
THEOREM MissionKeepsItsTypes == Spec => []MissionTypeOK
<1>1. Init => MissionInv
  BY GraphStarts, MailStarts, PermissionStarts, RecoveryStarts, BudgetStarts, OverspentStarts,
     TurnStarts, ContextStarts, MemoryStarts, MemoryTypesStart, IndexStarts, IndexTypesStart
  DEF Init, MissionInv
<1>2. MissionInv /\ [Next]_vars => MissionInv'
  <2> SUFFICES ASSUME MissionInv, [Next]_vars PROVE MissionInv'
    OBVIOUS
  <2>1. GraphInv' /\ MailInv' /\ PermissionInv' /\ RecoveryInv'
    BY MissionSteps, GraphStep, MailStep, PermissionStep, RecoveryStep DEF MissionInv
  <2>2. BudgetCore' /\ OverspentHasEntries'
    BY MissionSteps, BudgetStep, OverspentStep DEF MissionInv
  <2>3. TurnInv' /\ ContextInv'
    BY MissionSteps, TurnStep, TurnRests, ContextStep, ContextRests DEF MissionInv
  <2>4. MemoryInv' /\ MemoryTypeOK' /\ IndexInv' /\ IndexTypes'
    BY MissionSteps, MemoryStep, MemoryTypesStep, IndexStep, IndexTypesStep DEF MissionInv
  <2> QED
    BY <2>1, <2>2, <2>3, <2>4 DEF MissionInv
<1>3. MissionInv => MissionTypeOK
  BY AgentInvTypes, PermissionInvTypes, RecoveryInvTypes, BudgetInvTypes, TurnInvTypes,
     ContextInvTypes, IndexInvTypes
  DEF MissionInv, MissionTypeOK
<1> QED
  BY <1>1, <1>2, <1>3, PTL DEF Spec
=============================================================================
