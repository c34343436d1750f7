------------------------ MODULE CompletionGateProofs ------------------------
(***************************************************************************)
(* Theorems about CompletionGate for any number of Runs, requirements,     *)
(* executors, failures and turns.                                          *)
(*                                                                         *)
(* The invariant GateInv rests on the lease: of the turns of one Run only  *)
(* the latest may write (HoldsLease), and a completion ends the turn that  *)
(* proposed it.  So a completed Run has no turn that may still write       *)
(* (DoneInv), what the latest turn audited is still the ledger (AuditInv), *)
(* and an attempt that was judged stuck is never amended (HolderInv and    *)
(* JudgedInv).                                                             *)
(***************************************************************************)
EXTENDS CompletionGate, FiniteSetTheorems, TLAPS

LedgerRows == [run : GateRuns \cup {"none"}, required : BOOLEAN,
               proven : BOOLEAN]
Audits == {<< >>} \cup UNION {[S -> LedgerRows] : S \in SUBSET Reqs}
WorkSteps == {"idle", "tools", "audit", "record", "propose", "refused"}
WorkRows == [pc : WorkSteps, run : GateRuns \cup {"none"}, turn : Nat,
             asked : BOOLEAN, audited : Audits]

GateTypes ==
  /\ ledger \in [Reqs -> LedgerRows]
  /\ evidence \subseteq GateRuns \X Reqs \X Strengths
  /\ validations \in [GateRuns -> SUBSET {"failed", "independent"}]
  /\ runStatus \in [GateRuns -> {"running", "paused", "completed"}]
  /\ attempts \in [GateRuns -> Seq(Attempt)]
  /\ work \in [Executors -> WorkRows]

(* A turn under way is one of its Run, and no other executor's. *)
TurnsInv ==
  /\ \A e \in Executors : work[e].pc # "idle" =>
       work[e].run \in GateRuns /\ work[e].turn \in 1 .. Len(attempts[work[e].run])
  /\ \A e, f \in Executors :
       /\ work[e].pc # "idle" /\ work[f].pc # "idle"
       /\ work[e].run = work[f].run /\ work[e].turn = work[f].turn
       => e = f

(* No turn of a completed Run holds the lease. *)
DoneInv ==
  \A e \in Executors : work[e].pc # "idle" /\ HoldsLease(e) =>
    runStatus[work[e].run] # "completed"

(* What the latest turn audited is still what the ledger says. *)
AuditInv ==
  \A e \in Executors : work[e].pc \in {"record", "propose"} /\ HoldsLease(e) =>
    work[e].audited = LedgerOf(work[e].run)

(* The latest turn is not judged before it closes; a turn that asked for    *)
(* completion made progress, so that what comes after its judgement changes *)
(* nothing the judgement was made on.                                       *)
HolderOK(w, s) ==
  w.pc # "idle" /\ w.turn = Len(s) =>
    /\ w.pc = "tools" => s[Len(s)].reaction = "none"
    /\ w.asked \/ w.pc # "tools" => s[Len(s)].progress
    /\ w.pc # "tools" => s[Len(s)].reaction = "continue"
HolderInv == \A e \in Executors : HolderOK(work[e], attempts[work[e].run])

(* What a reaction says of the attempts up to it. *)
Failed(s, i) == ~s[i].progress /\ s[i].blocker # "none"
Again(s, i) ==
  /\ i >= 2 /\ Failed(s, i) /\ Failed(s, i - 1)
  /\ s[i].blocker = s[i - 1].blocker
JudgedOK(s, i) ==
  /\ s[i].reaction = "continue" => ~Failed(s, i)
  /\ s[i].reaction = "replan" => ~Again(s, i)
  /\ s[i].reaction = "blocked" => Again(s, i) /\ Again(s, i - 1)
JudgedInv ==
  \A r \in GateRuns : \A i \in 1 .. Len(attempts[r]) : JudgedOK(attempts[r], i)

GateInv ==
  /\ GateTypes /\ TurnsInv /\ DoneInv /\ AuditInv /\ HolderInv /\ JudgedInv
  /\ CompletedIsJustified

-----------------------------------------------------------------------------
(* Two attempts are two. *)
LEMMA PairSize ==
  ASSUME NEW a, NEW b, a # b
  PROVE  IsFiniteSet({a, b}) /\ Cardinality({a, b}) = 2
<1>1. {a, b} = {a} \cup {b} /\ b \notin {a}
  OBVIOUS
<1>2. IsFiniteSet({a}) /\ Cardinality({a}) = 1
  BY FS_Singleton
<1>3. /\ IsFiniteSet({a} \cup {b})
      /\ Cardinality({a} \cup {b}) =
           IF b \in {a} THEN Cardinality({a}) ELSE Cardinality({a}) + 1
  BY <1>2, FS_AddElement
<1> QED
  BY <1>1, <1>2, <1>3

(* What assessStagnation's answer says of the attempts, without counting:   *)
(* continue, the last one did not fail; replan, the one before it did not   *)
(* fail the same way; blocked, the last three failed the same way.          *)
LEMMA AssessSound ==
  ASSUME NEW s \in Seq(Attempt), Len(s) # 0
  PROVE  LET R == AssessStagnation(s)
         IN  /\ R \in {"continue", "replan", "fresh_agent", "blocked"}
             /\ R = "continue" => ~Failed(s, Len(s))
             /\ R = "replan" => ~Again(s, Len(s))
             /\ R = "blocked" => Again(s, Len(s)) /\ Again(s, Len(s) - 1)
             /\ s[Len(s)].progress => R = "continue"
<1> DEFINE L == Len(s)
           R == AssessStagnation(s)
           n == Cardinality(Repeats(s))
<1>0. L \in Nat \ {0} /\ L \in 1 .. L
  OBVIOUS
<1>1. Last(s) = s[L]
  BY DEF Last
<1>2. \A i : i \in Repeats(s) <=>
        /\ i \in 1 .. L
        /\ \A j \in i .. L : Failed(s, j) /\ s[j].blocker = s[L].blocker
  BY <1>1 DEF Repeats, Failed
<1>3. IsFiniteSet(1 .. L) /\ IsFiniteSet(Repeats(s))
  <2>1. IsFiniteSet(1 .. L)
    BY <1>0, FS_Interval
  <2>2. Repeats(s) \in SUBSET (1 .. L)
    BY <1>2
  <2> QED
    BY <2>1, <2>2, FS_Subset
<1>4. n \in Nat /\ (n = 0 <=> Repeats(s) = {})
  BY <1>3, FS_CardinalityType, FS_EmptySet
<1>5. /\ R = "continue" <=> n = 0
      /\ R = "replan" <=> n = 1
      /\ R = "fresh_agent" <=> n = 2
      /\ R = "blocked" <=> n >= 3
      /\ R \in {"continue", "replan", "fresh_agent", "blocked"}
  BY <1>4 DEF AssessStagnation
<1> HIDE DEF R
<1>6. Failed(s, L) => L \in Repeats(s)
  <2>1. \A j \in L .. L : j = L
    BY <1>0
  <2> QED
    BY <1>0, <1>2, <2>1
<1>7. s[L].progress => Repeats(s) = {}
  <2>1. \A i \in 1 .. L : L \in i .. L
    BY <1>0
  <2> QED
    BY <1>2, <2>1 DEF Failed
<1>8. ASSUME Again(s, L) PROVE n >= 2
  <2>1. L - 1 \in 1 .. L /\ L - 1 # L /\ L \in 1 .. L
        /\ \A j \in (L - 1) .. L : j = L - 1 \/ j = L
    BY <1>0, <1>8 DEF Again
  <2>2. {L - 1, L} \subseteq Repeats(s)
    BY <1>2, <1>6, <1>8, <2>1 DEF Again
  <2>3. IsFiniteSet({L - 1, L}) /\ Cardinality({L - 1, L}) = 2
    BY <2>1, PairSize
  <2> QED
    BY <1>3, <1>4, <2>2, <2>3, FS_Subset
<1>9. ASSUME n >= 3 PROVE Again(s, L) /\ Again(s, L - 1)
  <2>1. ASSUME L - 2 \notin Repeats(s) PROVE FALSE
    <3>1. ASSUME NEW i \in Repeats(s) PROVE i \in {L - 1, L}
      <4>1. i \in 1 .. L /\ \A j \in i .. L : Failed(s, j) /\ s[j].blocker = s[L].blocker
        BY <1>2
      <4>2. ASSUME i =< L - 2 PROVE FALSE
        <5>1. L - 2 \in 1 .. L /\ \A j \in (L - 2) .. L : j \in i .. L
          BY <1>0, <4>1, <4>2
        <5> QED
          BY <1>2, <2>1, <4>1, <5>1
      <4> QED
        BY <1>0, <4>1, <4>2
    <3>2. IsFiniteSet({L - 1, L}) /\ Cardinality({L - 1, L}) = 2
      <4>1. L - 1 # L
        BY <1>0
      <4> QED
        BY <4>1, PairSize
    <3>3. n =< 2
      BY <3>1, <3>2, FS_Subset
    <3> QED
      BY <1>4, <1>9, <3>3
  <2>2. L - 2 \in 1 .. L /\ L - 1 \in (L - 2) .. L /\ L - 2 \in (L - 2) .. L
        /\ L \in (L - 2) .. L /\ L >= 3
    BY <1>0, <1>2, <2>1
  <2>3. \A j \in (L - 2) .. L : Failed(s, j) /\ s[j].blocker = s[L].blocker
    BY <1>2, <2>1
  <2>4. (L - 1) - 1 = L - 2 /\ L >= 2 /\ L - 1 >= 2
    BY <1>0, <2>2
  <2> QED
    BY <2>2, <2>3, <2>4 DEF Again
<1> QED
  BY <1>4, <1>5, <1>6, <1>7, <1>8, <1>9 DEF R

-----------------------------------------------------------------------------
(* The attempts after a write of the turn that holds the lease: the last    *)
(* attempt of its Run is another one, the rest are as they were.            *)
Amended(r, a) ==
  /\ attempts' \in [GateRuns -> Seq(Attempt)]
  /\ \A x \in GateRuns : Len(attempts'[x]) = Len(attempts[x])
  /\ \A x \in GateRuns : \A i \in 1 .. Len(attempts[x]) :
       attempts'[x][i] = IF x = r /\ i = Len(attempts[r]) THEN a
                         ELSE attempts[x][i]

(* Progress, Blocked and the judgement amend the last attempt. *)
LEMMA LastAmended ==
  ASSUME GateTypes, NEW r \in GateRuns, Len(attempts[r]) # 0, NEW a \in Attempt,
         attempts' = [attempts EXCEPT ![r] =
                        [attempts[r] EXCEPT ![Len(attempts[r])] = a]]
  PROVE  Amended(r, a)
<1> DEFINE s == attempts[r]
           t == [s EXCEPT ![Len(s)] = a]
<1>1. s \in Seq(Attempt) /\ attempts \in [GateRuns -> Seq(Attempt)]
  BY DEF GateTypes
<1>2. Len(s) \in 1 .. Len(s) /\ Len(s) \in Nat
  BY <1>1
<1>3. /\ t \in Seq(Attempt) /\ Len(t) = Len(s)
      /\ \A i \in 1 .. Len(s) : t[i] = IF i = Len(s) THEN a ELSE s[i]
  BY <1>1, <1>2
<1> HIDE DEF t
<1>4. attempts' = [attempts EXCEPT ![r] = t]
  BY DEF t
<1>5. \A x \in GateRuns : attempts'[x] = IF x = r THEN t ELSE attempts[x]
  BY <1>1, <1>4
<1>6. attempts' \in [GateRuns -> Seq(Attempt)]
  BY <1>1, <1>3, <1>4
<1> QED
  BY <1>3, <1>5, <1>6 DEF Amended

(* A judgement depends on the attempts up to the one judged. *)
LEMMA JudgedSame ==
  ASSUME NEW s, NEW t, NEW i \in Nat \ {0}, \A j \in 1 .. i : s[j] = t[j],
         JudgedOK(s, i)
  PROVE  JudgedOK(t, i)
<1>1. s[i] = t[i]
  OBVIOUS
<1>2. i >= 2 => s[i - 1] = t[i - 1]
  OBVIOUS
<1>3. i - 1 >= 2 => s[(i - 1) - 1] = t[(i - 1) - 1]
  OBVIOUS
<1>4. (Failed(s, i) <=> Failed(t, i)) /\ (Again(s, i) <=> Again(t, i))
  BY <1>1, <1>2 DEF Failed, Again
<1>5. Again(s, i) /\ Again(s, i - 1) => Again(t, i - 1)
  BY <1>2, <1>3 DEF Failed, Again
<1> QED
  BY <1>1, <1>4, <1>5 DEF JudgedOK

(* An amended attempt leaves the judgements of the earlier ones alone. *)
LEMMA JudgementsKept ==
  ASSUME GateInv, NEW r \in GateRuns, NEW a, Amended(r, a),
         Len(attempts[r]) # 0, JudgedOK(attempts'[r], Len(attempts[r]))
  PROVE  JudgedInv'
<1> SUFFICES ASSUME NEW x \in GateRuns, NEW i \in 1 .. Len(attempts'[x])
             PROVE  JudgedOK(attempts'[x], i)
    BY DEF JudgedInv
<1>1. attempts[x] \in Seq(Attempt) /\ Len(attempts[x]) \in Nat
  BY DEF GateInv, GateTypes
<1>2. i \in 1 .. Len(attempts[x]) /\ i \in Nat \ {0}
  BY <1>1 DEF Amended
<1>3. CASE x = r /\ i = Len(attempts[r])
  BY <1>3
<1>4. CASE ~(x = r /\ i = Len(attempts[r]))
  <2>1. \A j \in 1 .. i : /\ j \in 1 .. Len(attempts[x])
                          /\ ~(x = r /\ j = Len(attempts[r]))
    BY <1>1, <1>2, <1>4
  <2>2. \A j \in 1 .. i : attempts[x][j] = attempts'[x][j]
    BY <2>1 DEF Amended
  <2>3. JudgedOK(attempts[x], i)
    BY <1>2 DEF GateInv, JudgedInv
  <2> QED
    BY <1>2, <2>2, <2>3, JudgedSame
<1> QED
  BY <1>3, <1>4

(* What HolderInv asks of the row and the attempt of the turn under way. *)
RowOK(w, a) ==
  /\ w.pc = "tools" => a.reaction = "none"
  /\ w.asked \/ w.pc # "tools" => a.progress
  /\ w.pc # "tools" => a.reaction = "continue"

(* The turn that holds the lease writes: its attempt is amended, and it     *)
(* ends or goes on under the same lease.                                    *)
HolderWrites(e, a, new) ==
  /\ work[e].pc # "idle" /\ HoldsLease(e)
  /\ Amended(work[e].run, a)
  /\ new \in WorkRows /\ work' = [work EXCEPT ![e] = new]
  /\ \/ new.pc = "idle"
     \/ /\ new.run = work[e].run /\ new.turn = work[e].turn
        /\ RowOK(new, a)

(* Such a write keeps the turns apart and the later judgements apart from   *)
(* what they were made on.                                                  *)
LEMMA HolderWriteKeeps ==
  ASSUME GateInv, NEW e \in Executors, NEW a, NEW new, HolderWrites(e, a, new)
  PROVE  work' \in [Executors -> WorkRows] /\ TurnsInv' /\ HolderInv'
<1> DEFINE r == work[e].run
<1>0. work \in [Executors -> WorkRows] /\ attempts \in [GateRuns -> Seq(Attempt)]
  BY DEF GateInv, GateTypes
<1>1. /\ r \in GateRuns /\ work[e].turn = Len(attempts[r])
      /\ work[e].turn \in 1 .. Len(attempts[r])
  BY DEF HolderWrites, HoldsLease, GateInv, TurnsInv
<1>2. work' \in [Executors -> WorkRows] /\ work'[e] = new
      /\ \A f \in Executors : f # e => work'[f] = work[f]
  BY <1>0 DEF HolderWrites
<1>3. \A x \in GateRuns : Len(attempts'[x]) = Len(attempts[x])
  BY DEF HolderWrites, Amended
<1>4. ASSUME NEW f \in Executors, work'[f].pc # "idle"
      PROVE  /\ work[f].pc # "idle" /\ work'[f].run = work[f].run
             /\ work'[f].turn = work[f].turn
  BY <1>2, <1>4 DEF HolderWrites
<1>5. TurnsInv'
  <2>1. ASSUME NEW f \in Executors, work'[f].pc # "idle"
        PROVE  /\ work'[f].run \in GateRuns
               /\ work'[f].turn \in 1 .. Len(attempts'[work'[f].run])
    BY <1>3, <1>4, <2>1 DEF GateInv, TurnsInv
  <2>2. ASSUME NEW f \in Executors, NEW g \in Executors,
               work'[f].pc # "idle", work'[g].pc # "idle",
               work'[f].run = work'[g].run, work'[f].turn = work'[g].turn
        PROVE  f = g
    BY <1>4, <2>2 DEF GateInv, TurnsInv
  <2> QED
    BY <2>1, <2>2 DEF TurnsInv
<1>6. HolderInv'
  <2> SUFFICES ASSUME NEW f \in Executors, work'[f].pc # "idle",
                      work'[f].turn = Len(attempts'[work'[f].run])
               PROVE  RowOK(work'[f], attempts'[work'[f].run]
                                        [Len(attempts'[work'[f].run])])
      BY DEF HolderInv, HolderOK, RowOK
  <2>1. CASE f = e
    <3>1. work'[f].run = r /\ attempts'[r][Len(attempts'[r])] = a
      BY <1>1, <1>3, <1>4, <2>1 DEF HolderWrites, Amended
    <3> QED
      BY <1>2, <2>1, <3>1 DEF HolderWrites
  <2>2. CASE f # e
    <3> DEFINE x == work[f].run
    <3>1. /\ work'[f] = work[f] /\ work[f].pc # "idle" /\ x \in GateRuns
          /\ work[f].turn = Len(attempts[x])
      BY <1>2, <1>3, <1>4, <2>2 DEF GateInv, TurnsInv
    <3>2. x # r
      BY <1>1, <2>2, <3>1 DEF GateInv, TurnsInv, HolderWrites
    <3>3. Len(attempts[x]) \in 1 .. Len(attempts[x])
      BY <3>1 DEF GateInv, TurnsInv
    <3>4. attempts'[x][Len(attempts[x])] = attempts[x][Len(attempts[x])]
      BY <3>1, <3>2, <3>3 DEF HolderWrites, Amended
    <3> QED
      BY <1>3, <3>1, <3>4 DEF GateInv, HolderInv, HolderOK, RowOK
  <2> QED
    BY <2>1, <2>2
<1> QED
  BY <1>2, <1>5, <1>6

-----------------------------------------------------------------------------
(* What a turn of Run r may do to the store: the ledger rows of the other   *)
(* Runs stay as they are, evidence is only added, and the validations of    *)
(* the other Runs are kept.                                                 *)
WritesOf(r) ==
  /\ ledger' \in [Reqs -> LedgerRows]
  /\ \A q \in Reqs : \/ ledger'[q] = ledger[q]
                     \/ ledger[q].run \in {"none", r} /\ ledger'[q].run = r
  /\ evidence \subseteq evidence'
  /\ evidence' \subseteq GateRuns \X Reqs \X Strengths
  /\ validations' \in [GateRuns -> SUBSET {"failed", "independent"}]
  /\ \A x \in GateRuns : x # r => validations'[x] = validations[x]

(* The audited ledger of another Run is not touched. *)
LEMMA OtherLedgers ==
  ASSUME NEW r \in GateRuns, WritesOf(r), NEW x \in GateRuns, x # r
  PROVE  LedgerOf(x)' = LedgerOf(x)
<1>1. \A q \in Reqs : ledger'[q].run = x <=> ledger[q].run = x
  BY GateAssumption DEF WritesOf
<1>2. \A q \in Reqs : ledger[q].run = x => ledger'[q] = ledger[q]
  BY GateAssumption DEF WritesOf
<1>3. {q \in Reqs : ledger'[q].run = x} = {q \in Reqs : ledger[q].run = x}
  BY <1>1
<1> QED
  BY <1>2, <1>3 DEF LedgerOf

(* A Run that was completed before the step is still justified: the turn    *)
(* that writes holds a lease, so by DoneInv it is of another Run.           *)
LEMMA JustifiedKept ==
  ASSUME GateInv, NEW r \in GateRuns, runStatus[r] # "completed", WritesOf(r),
         NEW x \in GateRuns, runStatus[x] = "completed"
  PROVE  /\ \A q \in Reqs : (ledger'[q].run = x /\ ledger'[q].required) =>
              ledger'[q].proven /\ HasStrongEvidence(q)'
         /\ validations'[x] = {"independent"}
<1>1. x # r
  OBVIOUS
<1>2. ASSUME NEW q \in Reqs, ledger'[q].run = x, ledger'[q].required
      PROVE  ledger'[q].proven /\ HasStrongEvidence(q)'
  <2>1. ledger'[q] = ledger[q]
    BY <1>1, <1>2 DEF WritesOf
  <2>2. ledger[q].proven /\ HasStrongEvidence(q)
    BY <1>2, <2>1 DEF GateInv, CompletedIsJustified
  <2> QED
    BY <2>1, <2>2 DEF HasStrongEvidence, WritesOf
<1>3. validations'[x] = {"independent"}
  BY <1>1 DEF WritesOf, GateInv, CompletedIsJustified
<1> QED
  BY <1>2, <1>3

(* The whole invariant, for a write of the turn that holds the lease; the   *)
(* Run it belongs to completes only with its justification, and then the    *)
(* turn is over.                                                            *)
LEMMA HolderStepKeeps ==
  ASSUME GateInv, NEW e \in Executors, NEW a, NEW new, HolderWrites(e, a, new),
         NEW r \in GateRuns, r = work[e].run, WritesOf(r),
         JudgedOK(attempts'[r], Len(attempts[r])),
         new.pc \in {"record", "propose"} => new.audited = LedgerOf(r)',
         \/ runStatus' = runStatus
         \/ /\ new.pc = "idle" /\ runStatus' = [runStatus EXCEPT ![r] = "completed"]
            /\ \A q \in Reqs : (ledger'[q].run = r /\ ledger'[q].required) =>
                 ledger'[q].proven /\ HasStrongEvidence(q)'
            /\ validations'[r] = {"independent"}
  PROVE  GateInv'
<1>1. work' \in [Executors -> WorkRows] /\ TurnsInv' /\ HolderInv'
  BY HolderWriteKeeps
<1>2. /\ work[e].turn = Len(attempts[r]) /\ Len(attempts[r]) # 0
      /\ runStatus[r] # "completed" /\ Amended(r, a)
      /\ runStatus \in [GateRuns -> {"running", "paused", "completed"}]
      /\ work \in [Executors -> WorkRows]
  BY DEF HolderWrites, HoldsLease, GateInv, TurnsInv, DoneInv, GateTypes
<1>3. JudgedInv'
  BY <1>2, JudgementsKept
<1>4. GateTypes'
  BY <1>1, <1>2 DEF GateTypes, WritesOf, Amended
<1>5. \A x \in GateRuns : Len(attempts'[x]) = Len(attempts[x])
  BY <1>2 DEF Amended
<1>6. ASSUME NEW f \in Executors, f # e, work'[f].pc # "idle",
             work'[f].turn = Len(attempts'[work'[f].run])
      PROVE  /\ work'[f] = work[f] /\ work[f].run \in GateRuns \ {r}
             /\ work[f].turn = Len(attempts[work[f].run])
  <2>1. work'[f] = work[f] /\ work[f].run \in GateRuns
    BY <1>2, <1>6 DEF HolderWrites, GateInv, TurnsInv
  <2> QED
    BY <1>2, <1>5, <1>6, <2>1 DEF GateInv, TurnsInv, HolderWrites
<1>7. DoneInv'
  <2> SUFFICES ASSUME NEW f \in Executors, work'[f].pc # "idle",
                      work'[f].turn = Len(attempts'[work'[f].run])
               PROVE  runStatus'[work'[f].run] # "completed"
      BY DEF DoneInv, HoldsLease
  <2>1. CASE f = e
    BY <1>2, <2>1 DEF HolderWrites
  <2>2. CASE f # e
    BY <1>2, <1>6, <2>2 DEF GateInv, DoneInv, HoldsLease
  <2> QED
    BY <2>1, <2>2
<1>8. AuditInv'
  <2> SUFFICES ASSUME NEW f \in Executors, work'[f].pc \in {"record", "propose"},
                      work'[f].turn = Len(attempts'[work'[f].run])
               PROVE  work'[f].audited =
                        [q \in {p \in Reqs : ledger'[p].run = work'[f].run} |->
                           ledger'[q]]
      BY DEF AuditInv, HoldsLease, LedgerOf
  <2>1. CASE f = e
    BY <1>2, <2>1 DEF HolderWrites, LedgerOf
  <2>2. CASE f # e
    <3> DEFINE x == work[f].run
    <3>1. work'[f] = work[f] /\ x \in GateRuns \ {r} /\ work[f].audited = LedgerOf(x)
      BY <1>6, <2>2 DEF GateInv, AuditInv, HoldsLease
    <3>2. \A y \in GateRuns \ {r} : LedgerOf(y)' = LedgerOf(y)
      BY OtherLedgers
    <3> QED
      BY <3>1, <3>2 DEF LedgerOf
  <2> QED
    BY <2>1, <2>2
<1>9. CompletedIsJustified'
  <2> SUFFICES ASSUME NEW x \in GateRuns, runStatus'[x] = "completed"
               PROVE  /\ \A q \in Reqs :
                           (ledger'[q].run = x /\ ledger'[q].required) =>
                             ledger'[q].proven /\ HasStrongEvidence(q)'
                      /\ validations'[x] = {"independent"}
      BY DEF CompletedIsJustified
  <2>1. CASE runStatus[x] = "completed"
    BY <1>2, <2>1, JustifiedKept
  <2>2. CASE runStatus[x] # "completed"
    <3>1. x = r /\ runStatus' # runStatus
      BY <1>2, <2>2
    <3> QED
      BY <3>1
  <2> QED
    BY <2>1, <2>2
<1> QED
  BY <1>1, <1>3, <1>4, <1>7, <1>8, <1>9 DEF GateInv

-----------------------------------------------------------------------------
(* The three forms in which a turn amends its attempt. *)
LEMMA ProgressAmends ==
  ASSUME GateTypes, NEW r \in GateRuns, Len(attempts[r]) # 0, Progress(r)
  PROVE  \E a \in Attempt :
           /\ Amended(r, a) /\ a.progress
           /\ a.reaction = attempts[r][Len(attempts[r])].reaction
<1> DEFINE s == attempts[r]
           L == Len(s)
           a == [s[L] EXCEPT !.progress = TRUE]
<1>1. /\ attempts \in [GateRuns -> Seq(Attempt)] /\ s \in Seq(Attempt)
      /\ L \in 1 .. L /\ s[L] \in Attempt
  BY DEF GateTypes
<1>2. a \in Attempt /\ a.progress /\ a.reaction = s[L].reaction
  BY <1>1 DEF Attempt
<1>3. attempts' = [attempts EXCEPT ![r] = [s EXCEPT ![L] = a]]
  BY <1>1 DEF Progress
<1> HIDE DEF a
<1>4. Amended(r, a)
  BY <1>2, <1>3, LastAmended
<1> QED
  BY <1>2, <1>4

(* A blocker is noted: progress and reaction stay. *)
LEMMA BlockedAmends ==
  ASSUME GateTypes, NEW r \in GateRuns, Len(attempts[r]) # 0,
         NEW f \in Failures, Blocked(r, f)
  PROVE  \E a \in Attempt :
           /\ Amended(r, a)
           /\ a.progress = attempts[r][Len(attempts[r])].progress
           /\ a.reaction = attempts[r][Len(attempts[r])].reaction
<1> DEFINE s == attempts[r]
           L == Len(s)
           a == [s[L] EXCEPT !.blocker = f]
<1>1. /\ attempts \in [GateRuns -> Seq(Attempt)] /\ s \in Seq(Attempt)
      /\ L \in 1 .. L /\ s[L] \in Attempt
  BY DEF GateTypes
<1>2. a \in Attempt /\ a.progress = s[L].progress /\ a.reaction = s[L].reaction
  BY <1>1 DEF Attempt
<1>3. attempts' = [attempts EXCEPT ![r] = [s EXCEPT ![L] = a]]
  BY <1>1 DEF Blocked
<1> HIDE DEF a
<1>4. Amended(r, a)
  BY <1>2, <1>3, LastAmended
<1> QED
  BY <1>2, <1>4

(* A closing turn is judged: what it is judged by stays. *)
LEMMA JudgementAmends ==
  ASSUME GateTypes, NEW r \in GateRuns, Len(attempts[r]) # 0,
         attempts' = [attempts EXCEPT
           ![r][Len(attempts[r])].reaction = AssessStagnation(attempts[r])]
  PROVE  \E a \in Attempt :
           /\ Amended(r, a)
           /\ a.progress = attempts[r][Len(attempts[r])].progress
           /\ a.blocker = attempts[r][Len(attempts[r])].blocker
           /\ a.reaction = AssessStagnation(attempts[r])
<1> DEFINE s == attempts[r]
           L == Len(s)
           R == AssessStagnation(s)
           a == [s[L] EXCEPT !.reaction = R]
<1>1. /\ attempts \in [GateRuns -> Seq(Attempt)] /\ s \in Seq(Attempt)
      /\ L \in 1 .. L /\ s[L] \in Attempt
  BY DEF GateTypes
<1>2. R \in {"continue", "replan", "fresh_agent", "blocked"}
  BY <1>1, AssessSound
<1> HIDE DEF R
<1>3. /\ a \in Attempt /\ a.progress = s[L].progress /\ a.blocker = s[L].blocker
      /\ a.reaction = R
  BY <1>1, <1>2 DEF Attempt
<1>4. attempts' = [attempts EXCEPT ![r] = [s EXCEPT ![L] = a]]
  BY <1>1 DEF R
<1> HIDE DEF a
<1>5. Amended(r, a)
  BY <1>3, <1>4, LastAmended
<1> QED
  BY <1>3, <1>5 DEF R

(* What the invariant says of the turn that holds the lease. *)
LEMMA HolderFacts ==
  ASSUME GateInv, NEW e \in Executors, work[e].pc # "idle", HoldsLease(e)
  PROVE  LET r == work[e].run
         IN  /\ r \in GateRuns /\ Len(attempts[r]) # 0
             /\ Len(attempts[r]) \in 1 .. Len(attempts[r])
             /\ attempts[r] \in Seq(Attempt)
             /\ RowOK(work[e], attempts[r][Len(attempts[r])])
             /\ work[e] \in WorkRows /\ work \in [Executors -> WorkRows]
<1>1. work[e].run \in GateRuns /\ work[e].turn \in 1 .. Len(attempts[work[e].run])
  BY DEF GateInv, TurnsInv
<1> QED
  BY <1>1 DEF GateInv, GateTypes, HoldsLease, HolderInv, HolderOK, RowOK

(* Tools of the turn: the attempt makes progress or notes a blocker, and    *)
(* the turn goes on.                                                        *)
LEMMA ToolStepKeeps ==
  ASSUME GateInv, NEW e \in Executors, AtGate(e, "tools"), HoldsLease(e),
         NEW r \in GateRuns, r = work[e].run, WritesOf(r), runStatus' = runStatus,
         NEW new \in WorkRows, work' = [work EXCEPT ![e] = new],
         new.pc = "tools", new.run = r, new.turn = work[e].turn,
         \/ Progress(r)
         \/ new.asked = work[e].asked /\ \E f \in Failures : Blocked(r, f)
  PROVE  GateInv'
<1> DEFINE last == attempts[r][Len(attempts[r])]
<1>1. /\ work[e].pc = "tools" /\ GateTypes
      /\ Len(attempts[r]) # 0 /\ RowOK(work[e], last)
      /\ attempts[r] \in Seq(Attempt)
  BY HolderFacts DEF AtGate, GateInv
<1>2. PICK a \in Attempt :
        /\ Amended(r, a) /\ a.reaction = last.reaction
        /\ a.progress \/ (new.asked = work[e].asked /\ a.progress = last.progress)
  BY <1>1, ProgressAmends, BlockedAmends
<1>3. a.reaction = "none" /\ RowOK(new, a)
  BY <1>1, <1>2 DEF RowOK
<1>4. HolderWrites(e, a, new)
  BY <1>1, <1>2, <1>3 DEF HolderWrites
<1>5. JudgedOK(attempts'[r], Len(attempts[r]))
  <2>1. attempts'[r][Len(attempts[r])] = a
    BY <1>1, <1>2 DEF Amended
  <2> QED
    BY <1>3, <2>1 DEF JudgedOK
<1> QED
  BY <1>4, <1>5, HolderStepKeeps

(* The store as a turn leaves it that writes nothing there. *)
LEMMA NoWrites ==
  ASSUME GateInv, UNCHANGED <<ledger, evidence, validations>>, NEW r \in GateRuns
  PROVE  WritesOf(r)
  BY DEF WritesOf, GateInv, GateTypes

(* The mission tools of a turn: add_requirement, record_evidence,           *)
(* prove_requirement, record_validation, request_completion, or one that    *)
(* throws.                                                                  *)
LEMMA ToolStep ==
  ASSUME GateInv, NEW e \in Executors,
         \/ \E q \in Reqs :
              \/ \E required \in BOOLEAN : AddRequirement(e, q, required)
              \/ \E s \in Strengths : AddEvidence(e, q, s)
              \/ ProveRequirement(e, q)
         \/ \E p, i \in BOOLEAN : RecordValidation(e, p, i)
         \/ RequestCompletion(e)
         \/ \E f \in Failures : ToolThrows(e, f)
  PROVE  GateInv'
<1>0. /\ AtGate(e, "tools") /\ HoldsLease(e) /\ runStatus' = runStatus
      /\ Progress(work[e].run) \/ \E f \in Failures : Blocked(work[e].run, f)
  BY DEF AddRequirement, AddEvidence, ProveRequirement, RecordValidation,
         RequestCompletion, ToolThrows, Calls
<1> DEFINE r == work[e].run
<1>1. /\ r \in GateRuns /\ work[e] \in WorkRows /\ work \in [Executors -> WorkRows]
      /\ work[e].pc = "tools"
  BY <1>0, HolderFacts DEF AtGate
<1>2. WritesOf(r)
  <2>0. ledger \in [Reqs -> LedgerRows] /\ GateTypes
    BY DEF GateInv, GateTypes
  <2>1. ASSUME NEW q \in Reqs, NEW required \in BOOLEAN,
               AddRequirement(e, q, required)
        PROVE  WritesOf(r)
    <3> DEFINE row == [run |-> r, required |-> required, proven |-> FALSE]
    <3>1. row \in LedgerRows /\ row.run = r
      BY <1>1 DEF LedgerRows
    <3>2. \/ ledger' = ledger
          \/ ledger[q].run = "none" /\ ledger' = [ledger EXCEPT ![q] = row]
      BY <2>1 DEF AddRequirement, Declared
    <3> HIDE DEF row
    <3> QED
      BY <2>0, <2>1, <3>1, <3>2 DEF AddRequirement, WritesOf, GateTypes
  <2>2. ASSUME NEW q \in Reqs, NEW s \in Strengths, AddEvidence(e, q, s)
        PROVE  WritesOf(r)
    BY <1>1, <2>0, <2>2 DEF AddEvidence, WithEvidence, WritesOf, GateTypes
  <2>3. ASSUME NEW q \in Reqs, ProveRequirement(e, q) PROVE WritesOf(r)
    <3> DEFINE row == [ledger[q] EXCEPT !.proven = TRUE]
    <3>1. ledger[q] \in LedgerRows
      BY <2>0
    <3>2. row \in LedgerRows /\ row.run = ledger[q].run
      BY <3>1 DEF LedgerRows
    <3>3. \/ ledger' = ledger
          \/ ledger[q].run = r /\ ledger' = [ledger EXCEPT ![q] = row]
      BY <2>3 DEF ProveRequirement, Proven
    <3> HIDE DEF row
    <3> QED
      BY <2>0, <2>3, <3>2, <3>3 DEF ProveRequirement, WritesOf, GateTypes
  <2>4. ASSUME NEW p \in BOOLEAN, NEW i \in BOOLEAN, RecordValidation(e, p, i)
        PROVE  WritesOf(r)
    <3>1. Verdict(p, i) \subseteq {"failed", "independent"}
      BY DEF Verdict
    <3> QED
      BY <1>1, <2>0, <2>4, <3>1 DEF RecordValidation, WritesOf, GateTypes
  <2>5. CASE RequestCompletion(e) \/ \E f \in Failures : ToolThrows(e, f)
    BY <1>1, <2>5, NoWrites DEF RequestCompletion, ToolThrows
  <2> QED
    BY <2>1, <2>2, <2>3, <2>4, <2>5
<1>3. CASE RequestCompletion(e)
  <2> DEFINE new == [work[e] EXCEPT !.asked = TRUE]
  <2>1. /\ new \in WorkRows /\ new.pc = "tools" /\ new.run = r
        /\ new.turn = work[e].turn
    BY <1>1 DEF WorkRows
  <2>2. work' = [work EXCEPT ![e] = new] /\ Progress(r)
    BY <1>1, <1>3 DEF RequestCompletion, Calls, WorkRows
  <2> HIDE DEF new
  <2> QED
    BY <1>0, <1>1, <1>2, <2>1, <2>2, ToolStepKeeps
<1>4. CASE work' = work
  <2>1. work' = [work EXCEPT ![e] = work[e]]
    BY <1>1, <1>4
  <2> QED
    BY <1>0, <1>1, <1>2, <2>1, ToolStepKeeps
<1> QED
  BY <1>3, <1>4 DEF AddRequirement, AddEvidence, ProveRequirement,
                    RecordValidation, ToolThrows

(* The turn ends: it is judged (TurnCloses) or it breaks off. *)
LEMMA TurnEndStep ==
  ASSUME GateInv, NEW e \in Executors, TurnCloses(e) \/ TurnBreaks(e)
  PROVE  GateInv'
<1> DEFINE r == work[e].run
           s == attempts[r]
           last == s[Len(s)]
<1>0. /\ HoldsLease(e) /\ work[e].pc = "tools" /\ runStatus' = runStatus
      /\ UNCHANGED <<ledger, evidence, validations>>
  BY DEF TurnCloses, TurnBreaks, AtGate
<1>1. /\ r \in GateRuns /\ work[e] \in WorkRows /\ work \in [Executors -> WorkRows]
      /\ Len(s) # 0 /\ s \in Seq(Attempt) /\ RowOK(work[e], last)
      /\ Len(s) \in 1 .. Len(s)
  BY <1>0, HolderFacts
<1>2. WritesOf(r)
  BY <1>0, <1>1, NoWrites
<1>3. NoWork \in WorkRows /\ NoWork.pc = "idle"
  BY DEF NoWork, WorkRows, WorkSteps, Audits
<1>4. GateTypes
  BY DEF GateInv
<1>5. CASE TurnCloses(e)
  <2>1. PICK a \in Attempt :
          /\ Amended(r, a) /\ a.progress = last.progress
          /\ a.blocker = last.blocker /\ a.reaction = AssessStagnation(s)
    BY <1>1, <1>4, <1>5, JudgementAmends DEF TurnCloses
  <2>2. JudgedOK(attempts'[r], Len(s))
    <3> DEFINE L == Len(s)
               t == attempts'[r]
    <3>1. t[L] = a /\ \A i \in 1 .. L - 1 : t[i] = s[i]
      BY <1>1, <2>1 DEF Amended
    <3>2. /\ a.reaction = "continue" => ~Failed(s, L)
          /\ a.reaction = "replan" => ~Again(s, L)
          /\ a.reaction = "blocked" => Again(s, L) /\ Again(s, L - 1)
      BY <1>1, <2>1, AssessSound
    <3>3. Failed(t, L) <=> Failed(s, L)
      BY <2>1, <3>1 DEF Failed
    <3>4. L >= 2 => t[L - 1] = s[L - 1]
      BY <1>1, <3>1
    <3>5. L - 1 >= 2 => t[(L - 1) - 1] = s[(L - 1) - 1]
      BY <1>1, <3>1
    <3>6. Again(t, L) <=> Again(s, L)
      BY <2>1, <3>1, <3>3, <3>4 DEF Again, Failed
    <3>7. L >= 2 => (Again(t, L - 1) <=> Again(s, L - 1))
      BY <3>4, <3>5 DEF Again, Failed
    <3>8. Again(s, L) => L >= 2
      BY DEF Again
    <3> QED
      BY <3>1, <3>2, <3>3, <3>6, <3>7, <3>8 DEF JudgedOK
  <2>3. CASE work[e].asked
    <3> DEFINE new == [work[e] EXCEPT !.pc = "audit"]
    <3>1. new \in WorkRows /\ new.pc = "audit" /\ new.run = r
          /\ new.turn = work[e].turn
      BY <1>1 DEF WorkRows, WorkSteps
    <3>2. work' = [work EXCEPT ![e] = new]
      BY <1>1, <1>5, <2>3 DEF TurnCloses, Doing, WorkRows
    <3> HIDE DEF new
    <3>3. last.progress
      BY <1>1, <2>3 DEF RowOK
    <3>4. a.progress /\ a.reaction = "continue"
      BY <1>1, <2>1, <3>3, AssessSound
    <3>5. HolderWrites(e, a, new)
      BY <1>0, <2>1, <3>1, <3>2, <3>4 DEF HolderWrites, RowOK
    <3> QED
      BY <1>0, <1>1, <1>2, <2>2, <3>1, <3>5, HolderStepKeeps
  <2>4. CASE ~work[e].asked
    <3>1. HolderWrites(e, a, NoWork)
      BY <1>0, <1>3, <1>5, <2>1, <2>4 DEF HolderWrites, TurnCloses, Rest
    <3> QED
      BY <1>0, <1>1, <1>2, <1>3, <2>2, <3>1, HolderStepKeeps
  <2> QED
    BY <2>3, <2>4
<1>6. CASE TurnBreaks(e)
  <2>1. PICK a \in Attempt : Amended(r, a) /\ a.reaction = last.reaction
    <3>1. ASSUME NEW f \in Failures, Blocked(r, f)
          PROVE  \E a \in Attempt : Amended(r, a) /\ a.reaction = last.reaction
      BY <1>1, <1>4, <3>1, BlockedAmends
    <3>2. ASSUME UNCHANGED attempts
          PROVE  \E a \in Attempt : Amended(r, a) /\ a.reaction = last.reaction
      <4>1. last \in Attempt
        BY <1>1
      <4>2. Amended(r, last)
        BY <1>4, <3>2 DEF Amended, GateTypes
      <4> QED
        BY <4>1, <4>2
    <3> QED
      BY <1>6, <3>1, <3>2 DEF TurnBreaks
  <2>2. a.reaction = "none"
    BY <1>0, <1>1, <2>1 DEF RowOK
  <2>3. JudgedOK(attempts'[r], Len(s))
    <3>1. attempts'[r][Len(s)] = a
      BY <1>1, <2>1 DEF Amended
    <3> QED
      BY <2>2, <3>1 DEF JudgedOK
  <2>4. HolderWrites(e, a, NoWork)
    BY <1>0, <1>3, <1>6, <2>1 DEF HolderWrites, TurnBreaks, Rest
  <2> QED
    BY <1>0, <1>1, <1>2, <1>3, <2>3, <2>4, HolderStepKeeps
<1> QED
  BY <1>5, <1>6

(* The accepted audit is recorded, and the completion proposed; the store   *)
(* completes the Run only if it finds it justified itself.                  *)
LEMMA ProposalStep ==
  ASSUME GateInv, NEW e \in Executors,
         RecordAudit(e) \/ ProposeCompletion(e) \/ ProposalThrows(e)
  PROVE  GateInv'
<1> DEFINE r == work[e].run
           s == attempts[r]
           last == s[Len(s)]
<1>0. /\ HoldsLease(e) /\ work[e].pc \in {"record", "propose", "refused"}
      /\ UNCHANGED <<ledger, evidence>>
      /\ Progress(r) \/ \E f \in Failures : Blocked(r, f)
  BY DEF RecordAudit, ProposeCompletion, ProposalThrows, AtGate
<1>1. /\ r \in GateRuns /\ work[e] \in WorkRows /\ work \in [Executors -> WorkRows]
      /\ Len(s) # 0 /\ s \in Seq(Attempt) /\ RowOK(work[e], last)
      /\ Len(s) \in 1 .. Len(s)
  BY <1>0, HolderFacts
<1>2. NoWork \in WorkRows /\ NoWork.pc = "idle"
  BY DEF NoWork, WorkRows, WorkSteps, Audits
<1>3. GateTypes
  BY DEF GateInv
<1>4. last.progress /\ last.reaction = "continue"
  BY <1>0, <1>1 DEF RowOK
<1>5. PICK a \in Attempt : /\ Amended(r, a) /\ a.reaction = "continue"
                           /\ a.progress
  BY <1>0, <1>1, <1>3, <1>4, ProgressAmends, BlockedAmends
<1>6. JudgedOK(attempts'[r], Len(s))
  <2>1. attempts'[r][Len(s)] = a
    BY <1>1, <1>5 DEF Amended
  <2> QED
    BY <1>5, <2>1 DEF JudgedOK, Failed
<1>7. CASE RecordAudit(e)
  <2> DEFINE new == [work[e] EXCEPT !.pc = "propose"]
  <2>1. /\ new \in WorkRows /\ new.pc = "propose" /\ new.run = r
        /\ new.turn = work[e].turn /\ new.audited = work[e].audited
    BY <1>1 DEF WorkRows, WorkSteps
  <2>2. work' = [work EXCEPT ![e] = new] /\ work[e].pc = "record"
    BY <1>1, <1>7 DEF RecordAudit, Doing, WorkRows, AtGate
  <2> HIDE DEF new
  <2>3. HolderWrites(e, a, new)
    BY <1>0, <1>5, <2>1, <2>2 DEF HolderWrites, RowOK
  <2>4. WritesOf(r)
    <3>1. Verdict(TRUE, TRUE) \subseteq {"failed", "independent"}
      BY DEF Verdict
    <3> QED
      BY <1>1, <1>3, <1>7, <3>1 DEF RecordAudit, WritesOf, GateTypes
  <2>5. \A x \in GateRuns : LedgerOf(x)' = LedgerOf(x)
    BY <1>0 DEF LedgerOf
  <2>6. new.audited = LedgerOf(r)
    BY <1>0, <2>1, <2>2 DEF GateInv, AuditInv
  <2>7. runStatus' = runStatus
    BY <1>7 DEF RecordAudit
  <2>8. ASSUME NEW x \in GateRuns, x = work[e].run PROVE GateInv'
    <3>1. new.audited = LedgerOf(x)'
      BY <2>5, <2>6, <2>8
    <3> QED
      BY <1>6, <2>3, <2>4, <2>7, <2>8, <3>1, HolderStepKeeps
  <2> QED
    BY <1>1, <2>8
<1>8. CASE ProposeCompletion(e) \/ ProposalThrows(e)
  <2>1. HolderWrites(e, a, NoWork)
    BY <1>0, <1>2, <1>5, <1>8
    DEF HolderWrites, ProposeCompletion, ProposalThrows, Rest
  <2>2. WritesOf(r) /\ UNCHANGED <<ledger, evidence, validations>>
    BY <1>1, <1>8, NoWrites DEF ProposeCompletion, ProposalThrows
  <2>3. CASE runStatus' = runStatus
    BY <1>1, <1>2, <1>6, <2>1, <2>2, <2>3, HolderStepKeeps
  <2>4. CASE runStatus' # runStatus
    <3>1. /\ runStatus' = [runStatus EXCEPT ![r] = "completed"] /\ MayComplete(e)
      BY <1>8, <2>4 DEF ProposeCompletion, ProposalThrows
    <3>2. \A q \in Reqs : (ledger[q].run = r /\ ledger[q].required) =>
            ledger[q].proven /\ HasStrongEvidence(q)
      BY <3>1 DEF MayComplete, Unproven
    <3>3. validations[r] = {"independent"}
      BY <1>1, <1>3, <3>1 DEF MayComplete, ValidationFailed, GateTypes
    <3>4. \A q \in Reqs : HasStrongEvidence(q)' <=> HasStrongEvidence(q)
      BY <2>2 DEF HasStrongEvidence
    <3> QED
      BY <1>1, <1>2, <1>6, <2>1, <2>2, <3>1, <3>2, <3>3, <3>4, HolderStepKeeps
  <2> QED
    BY <2>3, <2>4
<1> QED
  BY <1>7, <1>8

(* A step that writes nothing: the turn is gone, or the audit is made.      *)
LEMMA LocalStepKeeps ==
  ASSUME GateInv, NEW e \in Executors, NEW new \in WorkRows,
         UNCHANGED <<ledger, evidence, validations, runStatus, attempts>>,
         work' = [work EXCEPT ![e] = new],
         \/ new.pc = "idle"
         \/ /\ work[e].pc = "audit" /\ new.pc \in {"record", "refused"}
            /\ new.run = work[e].run /\ new.turn = work[e].turn
            /\ new.audited = LedgerOf(work[e].run)
  PROVE  GateInv'
<1>1. GateTypes' /\ JudgedInv' /\ CompletedIsJustified'
  BY DEF GateInv, GateTypes, JudgedInv, CompletedIsJustified, HasStrongEvidence
<1>2. /\ work'[e] = new /\ \A f \in Executors : f # e => work'[f] = work[f]
  BY DEF GateInv, GateTypes
<1>3. ASSUME NEW f \in Executors, work'[f].pc # "idle"
      PROVE  /\ work[f].pc # "idle" /\ work'[f].run = work[f].run
             /\ work'[f].turn = work[f].turn
  BY <1>2, <1>3
<1>4. TurnsInv'
  <2>1. ASSUME NEW f \in Executors, work'[f].pc # "idle"
        PROVE  /\ work'[f].run \in GateRuns
               /\ work'[f].turn \in 1 .. Len(attempts'[work'[f].run])
    BY <1>3, <2>1 DEF GateInv, TurnsInv
  <2>2. ASSUME NEW f \in Executors, NEW g \in Executors,
               work'[f].pc # "idle", work'[g].pc # "idle",
               work'[f].run = work'[g].run, work'[f].turn = work'[g].turn
        PROVE  f = g
    BY <1>3, <2>2 DEF GateInv, TurnsInv
  <2> QED
    BY <2>1, <2>2 DEF TurnsInv
<1>5. DoneInv'
  BY <1>3 DEF GateInv, DoneInv, HoldsLease
<1>6. AuditInv'
  BY <1>2 DEF GateInv, AuditInv, HoldsLease, LedgerOf
<1>7. HolderInv'
  <2> SUFFICES ASSUME NEW f \in Executors
               PROVE  HolderOK(work'[f], attempts[work'[f].run])
      BY DEF HolderInv
  <2>1. HolderOK(work[f], attempts[work[f].run])
    BY DEF GateInv, HolderInv
  <2> QED
    BY <1>2, <2>1 DEF HolderOK
<1> QED
  BY <1>1, <1>4, <1>5, <1>6, <1>7 DEF GateInv

(* The turn vanishes, or CompletionGate.evaluate reads the ledger. *)
LEMMA LocalStep ==
  ASSUME GateInv, NEW e \in Executors, TurnVanishes(e) \/ Evaluate(e)
  PROVE  GateInv'
<1>1. work \in [Executors -> WorkRows] /\ work[e] \in WorkRows
      /\ ledger \in [Reqs -> LedgerRows]
  BY DEF GateInv, GateTypes
<1>2. NoWork \in WorkRows /\ NoWork.pc = "idle"
  BY DEF NoWork, WorkRows, WorkSteps, Audits
<1>3. CASE TurnVanishes(e)
  BY <1>2, <1>3, LocalStepKeeps DEF TurnVanishes, Rest
<1>4. CASE Evaluate(e)
  <2> DEFINE seen == LedgerOf(work[e].run)
  <2>1. PICK pc \in {"record", "refused"} :
          work' = [work EXCEPT ![e].pc = pc, ![e].audited = seen]
    BY <1>4 DEF Evaluate
  <2> DEFINE new == [work[e] EXCEPT !.pc = pc, !.audited = seen]
  <2>2. seen \in Audits
    <3> DEFINE S == {p \in Reqs : ledger[p].run = work[e].run}
    <3>1. S \in SUBSET Reqs /\ seen \in [S -> LedgerRows]
      BY <1>1 DEF LedgerOf
    <3> HIDE DEF S, seen
    <3> QED
      BY <3>1 DEF Audits
  <2> HIDE DEF seen
  <2>3. /\ new \in WorkRows /\ new.pc = pc /\ new.run = work[e].run
        /\ new.turn = work[e].turn /\ new.audited = seen
    BY <1>1, <2>2 DEF WorkRows, WorkSteps
  <2>4. work' = [work EXCEPT ![e] = new]
    BY <1>1, <2>1 DEF WorkRows
  <2> HIDE DEF new
  <2> QED
    BY <1>4, <2>3, <2>4, LocalStepKeeps DEF Evaluate, AtGate, seen
<1> QED
  BY <1>3, <1>4

(* turn_started: a fresh attempt, and every older turn of the Run loses the *)
(* lease.                                                                   *)
LEMMA OpenStep ==
  ASSUME GateInv, NEW e \in Executors, NEW r \in GateRuns, TurnOpens(e, r)
  PROVE  GateInv'
<1> DEFINE s == attempts[r]
           a == [progress |-> FALSE, blocker |-> "none", reaction |-> "none"]
           new == [NoWork EXCEPT !.pc = "tools", !.run = r, !.turn = Len(s) + 1]
<1>0. /\ work \in [Executors -> WorkRows]
      /\ attempts \in [GateRuns -> Seq(Attempt)] /\ s \in Seq(Attempt)
      /\ Len(s) \in Nat /\ Len(s) + 1 \in Nat
  BY DEF GateInv, GateTypes
<1>1. a \in Attempt /\ a.reaction = "none"
  BY DEF Attempt
<1> HIDE DEF a
<1>2. attempts' = [attempts EXCEPT ![r] = Append(s, a)]
  BY DEF TurnOpens, a
<1>3. /\ attempts' \in [GateRuns -> Seq(Attempt)]
      /\ Len(attempts'[r]) = Len(s) + 1 /\ attempts'[r][Len(s) + 1] = a
      /\ \A i \in 1 .. Len(s) : attempts'[r][i] = s[i]
      /\ \A x \in GateRuns : x # r => attempts'[x] = attempts[x]
  BY <1>0, <1>1, <1>2
<1>4. NoWork \in WorkRows /\ NoWork.asked = FALSE
  BY DEF NoWork, WorkRows, WorkSteps, Audits
<1>5. /\ new \in WorkRows /\ new.pc = "tools" /\ new.run = r
      /\ new.turn = Len(s) + 1 /\ new.asked = FALSE
  BY <1>0, <1>4 DEF WorkRows, WorkSteps
<1>6. work' = [work EXCEPT ![e] = new]
  BY DEF TurnOpens
<1> HIDE DEF new
<1>7. /\ work' \in [Executors -> WorkRows] /\ work'[e] = new
      /\ \A f \in Executors : f # e => work'[f] = work[f]
  BY <1>0, <1>5, <1>6
<1>8. ASSUME NEW f \in Executors, f # e, work[f].pc # "idle"
      PROVE  /\ work[f].run \in GateRuns
             /\ work[f].turn \in 1 .. Len(attempts[work[f].run])
             /\ work[f].turn \in 1 .. Len(attempts'[work[f].run])
             /\ work[f].run = r => work[f].turn # Len(s) + 1
  <2>1. /\ work[f].run \in GateRuns
        /\ work[f].turn \in 1 .. Len(attempts[work[f].run])
    BY <1>8 DEF GateInv, TurnsInv
  <2>2. CASE work[f].run = r
    BY <1>0, <1>3, <2>1, <2>2
  <2>3. CASE work[f].run # r
    BY <1>3, <2>1, <2>3
  <2> QED
    BY <2>1, <2>2, <2>3
<1>9. GateTypes'
  BY <1>3, <1>7 DEF GateInv, GateTypes, TurnOpens
<1>10. TurnsInv'
  <2>1. ASSUME NEW f \in Executors, work'[f].pc # "idle"
        PROVE  /\ work'[f].run \in GateRuns
               /\ work'[f].turn \in 1 .. Len(attempts'[work'[f].run])
    <3>1. CASE f = e
      <4>1. work'[f].run = r /\ work'[f].turn = Len(s) + 1
        BY <1>5, <1>7, <3>1
      <4>2. Len(s) + 1 \in 1 .. Len(s) + 1
        BY <1>0
      <4> QED
        BY <1>3, <4>1, <4>2
    <3>2. CASE f # e
      BY <1>7, <1>8, <2>1, <3>2
    <3> QED
      BY <3>1, <3>2
  <2>2. ASSUME NEW f \in Executors, NEW g \in Executors,
               work'[f].pc # "idle", work'[g].pc # "idle",
               work'[f].run = work'[g].run, work'[f].turn = work'[g].turn
        PROVE  f = g
    <3>1. CASE f # e /\ g # e
      BY <1>7, <2>2, <3>1 DEF GateInv, TurnsInv
    <3>2. CASE f = e \/ g = e
      BY <1>5, <1>7, <1>8, <2>2, <3>2
    <3> QED
      BY <3>1, <3>2
  <2> QED
    BY <2>1, <2>2 DEF TurnsInv
<1>11. ASSUME NEW f \in Executors, f # e, work'[f].pc # "idle",
              work'[f].turn = Len(attempts'[work'[f].run])
       PROVE  /\ work'[f] = work[f] /\ work[f].pc # "idle"
              /\ attempts'[work[f].run] = attempts[work[f].run]
              /\ work[f].turn = Len(attempts[work[f].run])
  BY <1>3, <1>7, <1>8, <1>11
<1>12. DoneInv'
  <2> SUFFICES ASSUME NEW f \in Executors, work'[f].pc # "idle",
                      work'[f].turn = Len(attempts'[work'[f].run])
               PROVE  runStatus[work'[f].run] # "completed"
      BY DEF DoneInv, HoldsLease, TurnOpens
  <2>1. CASE f = e
    BY <1>5, <1>7, <2>1 DEF TurnOpens
  <2>2. CASE f # e
    BY <1>11, <2>2 DEF GateInv, DoneInv, HoldsLease
  <2> QED
    BY <2>1, <2>2
<1>13. AuditInv'
  <2> SUFFICES ASSUME NEW f \in Executors, work'[f].pc \in {"record", "propose"},
                      work'[f].turn = Len(attempts'[work'[f].run])
               PROVE  work'[f].audited =
                        [q \in {p \in Reqs : ledger[p].run = work'[f].run} |->
                           ledger[q]]
      BY DEF AuditInv, HoldsLease, LedgerOf, TurnOpens
  <2>1. f # e
    BY <1>5, <1>7
  <2> QED
    BY <1>11, <2>1 DEF GateInv, AuditInv, HoldsLease, LedgerOf
<1>14. HolderInv'
  <2> SUFFICES ASSUME NEW f \in Executors, work'[f].pc # "idle",
                      work'[f].turn = Len(attempts'[work'[f].run])
               PROVE  HolderOK(work'[f], attempts'[work'[f].run])
      BY DEF HolderInv, HolderOK
  <2>1. CASE f = e
    BY <1>1, <1>3, <1>5, <1>7, <2>1 DEF HolderOK
  <2>2. CASE f # e
    BY <1>11, <2>2 DEF GateInv, HolderInv
  <2> QED
    BY <2>1, <2>2
<1>15. JudgedInv'
  <2> SUFFICES ASSUME NEW x \in GateRuns, NEW i \in 1 .. Len(attempts'[x])
               PROVE  JudgedOK(attempts'[x], i)
      BY DEF JudgedInv
  <2>1. CASE x # r
    BY <1>3, <2>1 DEF GateInv, JudgedInv
  <2>2. CASE x = r /\ i = Len(s) + 1
    BY <1>1, <1>3, <2>2 DEF JudgedOK
  <2>3. CASE x = r /\ i # Len(s) + 1
    <3>1. i \in 1 .. Len(s) /\ i \in Nat \ {0} /\ \A j \in 1 .. i : j \in 1 .. Len(s)
      BY <1>0, <1>3, <2>3
    <3>2. JudgedOK(s, i) /\ \A j \in 1 .. i : s[j] = attempts'[r][j]
      BY <1>3, <3>1 DEF GateInv, JudgedInv
    <3> QED
      BY <2>3, <3>1, <3>2, JudgedSame
  <2> QED
    BY <2>1, <2>2, <2>3
<1>16. CompletedIsJustified'
  BY DEF GateInv, CompletedIsJustified, HasStrongEvidence, TurnOpens
<1> QED
  BY <1>9, <1>10, <1>12, <1>13, <1>14, <1>15, <1>16 DEF GateInv

(* A user pauses and resumes; a completed Run is neither. *)
LEMMA UserStep ==
  ASSUME GateInv, NEW r \in GateRuns, UserPauses(r) \/ UserResumes(r)
  PROVE  GateInv'
<1>1. /\ UNCHANGED <<ledger, evidence, validations, attempts, work>>
      /\ \A x \in GateRuns : runStatus'[x] = "completed" <=> runStatus[x] = "completed"
      /\ runStatus' \in [GateRuns -> {"running", "paused", "completed"}]
  BY DEF UserPauses, UserResumes, GateInv, GateTypes
<1>2. GateTypes' /\ TurnsInv' /\ JudgedInv' /\ HolderInv' /\ CompletedIsJustified'
  BY <1>1 DEF GateInv, GateTypes, TurnsInv, JudgedInv, HolderInv,
              CompletedIsJustified, HasStrongEvidence
<1>3. AuditInv'
  BY <1>1 DEF GateInv, AuditInv, HoldsLease, LedgerOf
<1>4. DoneInv'
  BY <1>1 DEF GateInv, DoneInv, HoldsLease, TurnsInv
<1> QED
  BY <1>2, <1>3, <1>4 DEF GateInv

(* Nothing is declared, judged or completed to begin with. *)
LEMMA GateStarts == GateInit => GateInv
<1> SUFFICES ASSUME GateInit PROVE GateInv OBVIOUS
<1>1. NoWork \in WorkRows /\ NoWork.pc = "idle"
  BY DEF NoWork, WorkRows, WorkSteps, Audits
<1>2. Undeclared \in LedgerRows
  BY DEF Undeclared, LedgerRows
<1>3. GateTypes
  BY <1>1, <1>2 DEF GateTypes, GateInit
<1>4. TurnsInv /\ DoneInv /\ AuditInv /\ HolderInv
  BY <1>1 DEF GateInit, TurnsInv, DoneInv, AuditInv, HolderInv, HolderOK
<1>5. JudgedInv /\ CompletedIsJustified
  BY DEF GateInit, JudgedInv, CompletedIsJustified
<1> QED
  BY <1>3, <1>4, <1>5 DEF GateInv

(* Every step of the turns, of the audit and of the user keeps GateInv. *)
LEMMA GateStep == GateInv /\ [GateNext]_gateVars => GateInv'
<1> SUFFICES ASSUME GateInv, [GateNext]_gateVars PROVE GateInv' OBVIOUS
<1>1. CASE UNCHANGED gateVars
  <2>1. UNCHANGED <<ledger, evidence, validations, runStatus, attempts, work>>
    BY <1>1 DEF gateVars
  <2>2. GateTypes' /\ TurnsInv' /\ HolderInv' /\ JudgedInv'
    BY <2>1 DEF GateInv, GateTypes, TurnsInv, HolderInv, JudgedInv
  <2>3. DoneInv' /\ AuditInv'
    BY <2>1 DEF GateInv, DoneInv, AuditInv, HoldsLease, LedgerOf
  <2>4. CompletedIsJustified'
    BY <2>1 DEF GateInv, CompletedIsJustified, HasStrongEvidence
  <2> QED
    BY <2>2, <2>3, <2>4 DEF GateInv
<1>2. CASE GateNext
  BY <1>2, OpenStep, ToolStep, TurnEndStep, LocalStep, ProposalStep, UserStep
  DEF GateNext
<1> QED
  BY <1>1, <1>2

-----------------------------------------------------------------------------
(* The gate's invariant says that its state has its type. *)
LEMMA GateInvTypes == GateInv => GateTypeOK
  BY DEF GateInv, GateTypes, TurnsInv, GateTypeOK, LedgerRows, WorkRows, WorkSteps

(* The gate's state has its type; a turn under way is one its Run has begun.*)
THEOREM GateTypeCorrect == GateSpec => []GateTypeOK
  BY GateInvTypes, GateStarts, GateStep, PTL DEF GateSpec

(* A completed Run stays justified: every required requirement is proven    *)
(* with strong evidence, no validation of it failed and an independent one  *)
(* passed, whatever turns that lost the lease still try to write.           *)
THEOREM CompletionIsJustified == GateSpec => []CompletedIsJustified
<1>1. GateInv => CompletedIsJustified
  BY DEF GateInv
<1> QED
  BY <1>1, GateStarts, GateStep, PTL DEF GateSpec

(* proposeCompletion completes a Run on the very ledger its verifier saw,   *)
(* although the audit is awaited between the read and the commit.           *)
THEOREM CompletionIsAudited == GateSpec => CompletesOnAuditedLedger
<1> DEFINE Audited == \A r \in GateRuns :
             (runStatus[r] # "completed" /\ runStatus'[r] = "completed") =>
               \E e \in Executors : work[e].run = r /\ work[e].audited = LedgerOf(r)
<1>1. GateInv /\ [GateNext]_gateVars => [Audited]_gateVars
  <2> SUFFICES ASSUME GateInv, GateNext, NEW r \in GateRuns,
                      runStatus[r] # "completed", runStatus'[r] = "completed"
               PROVE  \E e \in Executors :
                        work[e].run = r /\ work[e].audited = LedgerOf(r)
      OBVIOUS
  <2>0. runStatus \in [GateRuns -> {"running", "paused", "completed"}]
    BY DEF GateInv, GateTypes
  <2>1. PICK e \in Executors : ProposeCompletion(e) /\ runStatus' # runStatus
    BY <2>0
    DEF GateNext, TurnOpens, AddRequirement, AddEvidence, ProveRequirement,
        RecordValidation, RequestCompletion, ToolThrows, TurnCloses, TurnBreaks,
        TurnVanishes, Evaluate, RecordAudit, ProposalThrows, UserPauses,
        UserResumes
  <2>2. /\ work[e].pc = "propose" /\ HoldsLease(e)
        /\ runStatus' = [runStatus EXCEPT ![work[e].run] = "completed"]
    BY <2>1 DEF ProposeCompletion, MayComplete, AtGate
  <2>3. work[e].run = r
    BY <2>0, <2>2
  <2> QED
    BY <2>2, <2>3 DEF GateInv, AuditInv
<1> QED
  BY <1>1, GateStarts, GateStep, PTL DEF GateSpec, CompletesOnAuditedLedger

(* reactToStagnation escalates gradually, for any number of attempts and of *)
(* distinct failures: a Run is reported blocked only after two attempts     *)
(* that failed on the same blocker and that, if judged, had already changed *)
(* the strategy.                                                            *)
THEOREM EscalationIsGradual == GateSpec => []EscalatesGradually
<1>1. GateInv => EscalatesGradually
  <2> SUFFICES ASSUME GateInv, NEW r \in GateRuns,
                      NEW i \in 1 .. Len(attempts[r]),
                      attempts[r][i].reaction = "blocked"
               PROVE  /\ i > 2
                      /\ \A j \in {i - 1, i - 2} :
                           attempts[r][j].blocker = attempts[r][i].blocker
                      /\ attempts[r][i - 1].reaction \in
                           {"none", "fresh_agent", "blocked"}
                      /\ attempts[r][i - 2].reaction \in
                           {"none", "replan", "fresh_agent", "blocked"}
      BY DEF EscalatesGradually
  <2> DEFINE s == attempts[r]
  <2>1. s \in Seq(Attempt) /\ Len(s) \in Nat
    BY DEF GateInv, GateTypes
  <2>2. Again(s, i) /\ Again(s, i - 1)
    BY DEF GateInv, JudgedInv, JudgedOK
  <2>3. /\ i > 2 /\ i - 1 \in 1 .. Len(s) /\ i - 2 \in 1 .. Len(s)
        /\ (i - 1) - 1 = i - 2
    BY <2>1, <2>2 DEF Again
  <2>4. /\ Failed(s, i - 1) /\ Failed(s, i - 2)
        /\ s[i].blocker = s[i - 1].blocker /\ s[i - 1].blocker = s[i - 2].blocker
    BY <2>2, <2>3 DEF Again
  <2>5. JudgedOK(s, i - 1) /\ JudgedOK(s, i - 2)
    BY <2>3 DEF GateInv, JudgedInv
  <2>6. /\ s[i - 1].reaction \notin {"continue", "replan"}
        /\ s[i - 2].reaction # "continue"
    BY <2>2, <2>4, <2>5 DEF JudgedOK
  <2>7. s[i - 1] \in Attempt /\ s[i - 2] \in Attempt
    BY <2>1, <2>3
  <2> QED
    BY <2>3, <2>4, <2>6, <2>7 DEF Attempt
<1> QED
  BY <1>1, GateStarts, GateStep, PTL DEF GateSpec
=============================================================================
