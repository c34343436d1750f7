--------------------------- MODULE CompletionGate ---------------------------
(***************************************************************************)
(* How a Run may complete: the requirement ledger and the validations in   *)
(* the store, the mission tools that write them during a turn, the audit   *)
(* of packages/validation that a completion request triggers after the     *)
(* turn, and the control-plane transition that re-checks it.  The audit    *)
(* awaits its verifier, so another executor may take the Run over between  *)
(* the read of the ledger and the transition.  After each turn the         *)
(* coordinator also judges stagnation from the events of the turns so far. *)
(*                                                                         *)
(* A turn holds a lease generation; a newer turn of the same Run means the *)
(* older lease lapsed, and every write of the older turn throws.  Titles,  *)
(* summaries and evidence kinds are left out; what an attempt is judged by *)
(* (evidence, change, blocker message) is kept.                            *)
(***************************************************************************)
EXTENDS Integers, SequencesExt

CONSTANTS GateRuns, Reqs, Executors,
          Failures,   \* messages of failed tools and providers
          MaxTurns    \* bound: turns of all Runs together

ASSUME GateAssumption ==
  "none" \notin Failures \cup GateRuns /\ MaxTurns \in Nat

VARIABLES ledger,     \* requirements: declared ids, with their Run
          evidence,   \* evidence: recording Run, requirement, strength
          validations,\* validations of each Run
          runStatus,  \* the part of the Run status the gate meets
          attempts,   \* the turns of each Run, as progressAttempts reads them
          work        \* what each executor's turn is doing

gateVars == <<ledger, evidence, validations, runStatus, attempts, work>>

Undeclared == [run |-> "none", required |-> FALSE, proven |-> FALSE]
NoWork == [pc |-> "idle", run |-> "none", turn |-> 0, asked |-> FALSE,
           audited |-> << >>]
Strengths == {"strong", "weak"}
Attempt == [progress : BOOLEAN, blocker : Failures \cup {"none"},
            reaction : {"none", "continue", "replan", "fresh_agent", "blocked"}]

GateTypeOK ==
  /\ ledger \in [Reqs -> [run : GateRuns \cup {"none"}, required : BOOLEAN,
                          proven : BOOLEAN]]
  /\ evidence \subseteq GateRuns \X Reqs \X Strengths
  /\ validations \in [GateRuns -> SUBSET {"failed", "independent"}]
  /\ runStatus \in [GateRuns -> {"running", "paused", "completed"}]
  /\ \A r \in GateRuns : attempts[r] \in Seq(Attempt)
  /\ \A e \in Executors :
       /\ work[e].pc \in {"idle", "tools", "audit", "record", "propose", "refused"}
       /\ work[e].pc # "idle" => work[e].turn \in 1 .. Len(attempts[work[e].run])

GateInit ==
  /\ ledger = [q \in Reqs |-> Undeclared]
  /\ evidence = {}
  /\ validations = [r \in GateRuns |-> {}]
  /\ runStatus = [r \in GateRuns |-> "running"]
  /\ attempts = [r \in GateRuns |-> << >>]
  /\ work = [e \in Executors |-> NoWork]

-----------------------------------------------------------------------------
(* assertLeaseInternal: no later turn of the Run has taken the lease over *)
HoldsLease(e) == work[e].turn = Len(attempts[work[e].run])
AtGate(e, pc) == work[e].pc = pc
Doing(e, pc) == work' = [work EXCEPT ![e].pc = pc]
Rest(e) == work' = [work EXCEPT ![e] = NoWork]

(* What the events of the current turn add to its attempt *)
Progress(r) ==
  attempts' = [attempts EXCEPT ![r][Len(attempts[r])].progress = TRUE]
Blocked(r, f) ==
  attempts' = [attempts EXCEPT ![r][Len(attempts[r])].blocker = f]

(* turn_started opens an attempt under a new lease *)
TurnOpens(e, r) ==
  /\ AtGate(e, "idle") /\ runStatus[r] = "running"
  /\ Len(attempts[r]) < MaxTurns
  /\ attempts' = [attempts EXCEPT ![r] = Append(@,
       [progress |-> FALSE, blocker |-> "none", reaction |-> "none"])]
  /\ work' = [work EXCEPT ![e] = [NoWork EXCEPT
       !.pc = "tools", !.run = r, !.turn = Len(attempts[r]) + 1]]
  /\ UNCHANGED <<ledger, evidence, validations, runStatus>>

(* A tool of the turn runs and its call is recorded as finished *)
Calls(e) == AtGate(e, "tools") /\ HoldsLease(e) /\ Progress(work[e].run)

(* addRequirement: an id the Run declared already is left as it is *)
Declared(r, q, required) ==
  IF ledger[q].run = "none"
  THEN [ledger EXCEPT ![q] = [run |-> r, required |-> required, proven |-> FALSE]]
  ELSE ledger

(* add_requirement: the id is the table's key, so that one of another Run   *)
(* makes the call throw                                                     *)
AddRequirement(e, q, required) ==
  /\ Calls(e)
  /\ ledger[q].run \in {"none", work[e].run}
  /\ ledger' = Declared(work[e].run, q, required)
  /\ UNCHANGED <<evidence, validations, runStatus, work>>

(* addEvidence: a row of the Run, for any id that exists *)
WithEvidence(r, q, strength) == evidence \cup {<<r, q, strength>>}

(* record_evidence and the evidence of complete_task *)
AddEvidence(e, q, strength) ==
  /\ Calls(e)
  /\ ledger[q].run # "none"
  /\ evidence' = WithEvidence(work[e].run, q, strength)
  /\ UNCHANGED <<ledger, validations, runStatus, work>>

(* setRequirementStatus looks the evidence up by requirement alone, and     *)
(* updates a row of this Run only                                           *)
HasStrongEvidence(q) == \E r \in GateRuns : <<r, q, "strong">> \in evidence
Proven(r, q) ==
  IF ledger[q].run = r THEN [ledger EXCEPT ![q].proven = TRUE] ELSE ledger

(* prove_requirement *)
ProveRequirement(e, q) ==
  /\ Calls(e)
  /\ HasStrongEvidence(q)
  /\ ledger' = Proven(work[e].run, q)
  /\ UNCHANGED <<evidence, validations, runStatus, work>>

(* recordValidation: rows are only ever added.  A set of the verdicts is   *)
(* kept, a failure being one whoever reports it; a passed validation that  *)
(* is not independent counts for nothing, so it adds nothing               *)
Verdict(passed, independent) ==
  IF ~passed THEN {"failed"} ELSE IF independent THEN {"independent"} ELSE {}

(* record_validation *)
RecordValidation(e, passed, independent) ==
  /\ Calls(e)
  /\ validations' = [validations EXCEPT
                       ![work[e].run] = @ \cup Verdict(passed, independent)]
  /\ UNCHANGED <<ledger, evidence, runStatus, work>>

(* request_completion only asks; the gate decides after the turn *)
RequestCompletion(e) ==
  /\ Calls(e)
  /\ work' = [work EXCEPT ![e].asked = TRUE]
  /\ UNCHANGED <<ledger, evidence, validations, runStatus>>

(* A tool throws: the message is the blocker, and the engine goes on *)
ToolThrows(e, f) ==
  /\ AtGate(e, "tools") /\ HoldsLease(e)
  /\ Blocked(work[e].run, f)
  /\ UNCHANGED <<ledger, evidence, validations, runStatus, work>>

-----------------------------------------------------------------------------
(* assessStagnation: how many attempts, counted back from the last, failed *)
(* on its blocker without progress                                         *)
Repeats(s) ==
  {i \in 1 .. Len(s) : \A j \in i .. Len(s) :
      /\ ~s[j].progress
      /\ s[j].blocker = Last(s).blocker /\ s[j].blocker # "none"}

(* Mutant of AssessStagnation: the fresh agent is skipped. *)
MutantAssessStagnation(s) ==
  LET n == Cardinality(Repeats(s))
  IN  CASE n = 0 -> "continue" [] n = 1 -> "replan" [] OTHER -> "blocked"

AssessStagnation(s) ==
  LET n == Cardinality(Repeats(s))
  IN  CASE n = 0 -> "continue" [] n = 1 -> "replan"
        [] n = 2 -> "fresh_agent" [] OTHER -> "blocked"

(* The provider answers without tool calls: the turn ends, stagnation is   *)
(* judged, and a completion request goes to the gate                       *)
TurnCloses(e) ==
  /\ AtGate(e, "tools") /\ HoldsLease(e)
  /\ LET r == work[e].run IN
     attempts' = [attempts EXCEPT
       ![r][Len(attempts[r])].reaction = AssessStagnation(attempts[r])]
  /\ IF work[e].asked THEN Doing(e, "audit") ELSE Rest(e)
  /\ UNCHANGED <<ledger, evidence, validations, runStatus>>

(* provider.failed and the end of the turn; an approval wait or an abort   *)
(* ends it as well, with no event that an attempt is judged by             *)
TurnBreaks(e) ==
  /\ AtGate(e, "tools") /\ HoldsLease(e)
  /\ \/ \E f \in Failures : Blocked(work[e].run, f)
     \/ UNCHANGED attempts
  /\ Rest(e)
  /\ UNCHANGED <<ledger, evidence, validations, runStatus>>

(* A daemon dies, or its turn meets the newer lease and is fenced *)
TurnVanishes(e) ==
  /\ ~AtGate(e, "idle")
  /\ Rest(e)
  /\ UNCHANGED <<ledger, evidence, validations, runStatus, attempts>>

-----------------------------------------------------------------------------

(* Mutant of Unproven: strong evidence is proof enough. *)
MutantUnproven(r) ==
  {q \in Reqs : ledger[q].run = r /\ ledger[q].required /\ ~HasStrongEvidence(q)}

(* auditRequirements over listRequirements: required ones not proven *)
Unproven(r) ==
  {q \in Reqs : /\ ledger[q].run = r /\ ledger[q].required
                /\ ~(ledger[q].proven /\ HasStrongEvidence(q))}
ValidationFailed(r) == "failed" \in validations[r]
LedgerOf(r) == [q \in {p \in Reqs : ledger[p].run = r} |-> ledger[q]]

(* CompletionGate.evaluate with the deterministic verifier, which repeats  *)
(* the audit on the same input: the input is read here, and awaited        *)
Evaluate(e) ==
  /\ AtGate(e, "audit")
  /\ LET r == work[e].run
         accepted == Unproven(r) = {} /\ ~ValidationFailed(r)
     IN  work' = [work EXCEPT
           ![e].pc = IF accepted THEN "record" ELSE "refused",
           ![e].audited = LedgerOf(r)]
  /\ UNCHANGED <<ledger, evidence, validations, runStatus, attempts>>

(* The accepted audit is recorded as an independent validation *)
RecordAudit(e) ==
  /\ AtGate(e, "record") /\ HoldsLease(e)
  /\ validations' = [validations EXCEPT ![work[e].run] =
                       @ \cup Verdict(TRUE, TRUE)]
  /\ Progress(work[e].run)
  /\ Doing(e, "propose")
  /\ UNCHANGED <<ledger, evidence, runStatus>>

(* proposeCompletion: the store checks again in the transaction that       *)
(* completes the Run; the decision is an event either way                  *)
MayComplete(e) ==
  LET r == work[e].run
  IN  /\ AtGate(e, "propose")
      /\ Unproven(r) = {} /\ ~ValidationFailed(r)
      /\ "independent" \in validations[r]

(* Mutant of ProposeCompletion: no lease is asked for. *)
MutantProposeCompletion(e) ==
  LET r == work[e].run IN
  /\ work[e].pc \in {"propose", "refused"}
  /\ IF MayComplete(e)
     THEN /\ runStatus[r] = "running"
          /\ runStatus' = [runStatus EXCEPT ![r] = "completed"]
     ELSE UNCHANGED runStatus
  /\ Progress(r) /\ Rest(e)
  /\ UNCHANGED <<ledger, evidence, validations>>

ProposeCompletion(e) ==
  LET r == work[e].run IN
  /\ work[e].pc \in {"propose", "refused"} /\ HoldsLease(e)
  /\ IF MayComplete(e)
     THEN /\ runStatus[r] = "running"
          /\ runStatus' = [runStatus EXCEPT ![r] = "completed"]
     ELSE UNCHANGED runStatus
  /\ Progress(r) /\ Rest(e)
  /\ UNCHANGED <<ledger, evidence, validations>>

(* A Run paused meanwhile cannot complete: the transition throws, the      *)
(* transaction rolls back, and the turn reports a provider failure         *)
ProposalThrows(e) ==
  LET r == work[e].run IN
  /\ work[e].pc \in {"propose", "refused"} /\ HoldsLease(e)
  /\ MayComplete(e) /\ runStatus[r] = "paused"
  /\ \E f \in Failures : Blocked(r, f)
  /\ Rest(e)
  /\ UNCHANGED <<ledger, evidence, validations, runStatus>>

(* A user's pause and resume, through any daemon *)
UserPauses(r) ==
  /\ runStatus[r] = "running" /\ runStatus' = [runStatus EXCEPT ![r] = "paused"]
  /\ UNCHANGED <<ledger, evidence, validations, attempts, work>>
UserResumes(r) ==
  /\ runStatus[r] = "paused" /\ runStatus' = [runStatus EXCEPT ![r] = "running"]
  /\ UNCHANGED <<ledger, evidence, validations, attempts, work>>

GateNext ==
  \/ \E e \in Executors :
       \/ \E r \in GateRuns : TurnOpens(e, r)
       \/ \E q \in Reqs :
            \/ \E required \in BOOLEAN : AddRequirement(e, q, required)
            \/ \E s \in Strengths : AddEvidence(e, q, s)
            \/ ProveRequirement(e, q)
       \/ \E p, i \in BOOLEAN : RecordValidation(e, p, i)
       \/ RequestCompletion(e)
       \/ \E f \in Failures : ToolThrows(e, f)
       \/ TurnCloses(e) \/ TurnBreaks(e) \/ TurnVanishes(e)
       \/ Evaluate(e) \/ RecordAudit(e) \/ ProposeCompletion(e) \/ ProposalThrows(e)
  \/ \E r \in GateRuns : UserPauses(r) \/ UserResumes(r)

GateSpec == GateInit /\ [][GateNext]_gateVars

-----------------------------------------------------------------------------
(* A completed Run stays justified: every required requirement is proven   *)
(* with strong evidence, no validation of it failed, and an independent    *)
(* one passed.  An older turn that could still write after the completion  *)
(* (proposeCompletion, addRequirement, recordValidation) would break it.   *)
CompletedIsJustified ==
  \A r \in GateRuns : runStatus[r] = "completed" =>
    /\ \A q \in Reqs : (ledger[q].run = r /\ ledger[q].required) =>
         ledger[q].proven /\ HasStrongEvidence(q)
    /\ validations[r] = {"independent"}

(* The Run completes on the ledger its verifier saw: nothing was declared  *)
(* between evaluate's read and proposeCompletion's commit.                 *)
CompletesOnAuditedLedger ==
  [][\A r \in GateRuns :
       (runStatus[r] # "completed" /\ runStatus'[r] = "completed") =>
         \E e \in Executors : work[e].run = r /\ work[e].audited = LedgerOf(r)]_gateVars

(* reactToStagnation escalates gradually: a Run is only reported blocked   *)
(* when the turns before, if they were judged, had already changed the     *)
(* strategy (replan, then a fresh agent) over the same blocker.            *)
EscalatesGradually ==
  \A r \in GateRuns : \A i \in 1 .. Len(attempts[r]) :
    attempts[r][i].reaction = "blocked" =>
      /\ i > 2
      /\ \A j \in {i - 1, i - 2} : attempts[r][j].blocker = attempts[r][i].blocker
      /\ attempts[r][i - 1].reaction \in {"none", "fresh_agent", "blocked"}
      /\ attempts[r][i - 2].reaction \in {"none", "replan", "fresh_agent", "blocked"}
=============================================================================
