-------------------------- MODULE ToolJournalProofs --------------------------
(***************************************************************************)
(* Theorems about ToolJournal for any number of daemons and Runs and any   *)
(* bounds.                                                                 *)
(***************************************************************************)
EXTENDS ToolJournal, WellFoundedInduction, TLAPS

(* A set of row numbers that is not empty has a smallest one.              *)
LEMMA SmallestNumber ==
  ASSUME NEW S \in SUBSET Nat, S # {}
  PROVE  \E i \in S : \A j \in S : i <= j
<1> DEFINE R == {ss \in Nat \X Nat : ss[1] < ss[2]}
<1>1. IsWellFoundedOn(R, Nat)
  BY NatLessThanWellFounded DEF OpToRel
<1>2. \A i, j \in Nat : j < i => <<j, i>> \in R
  OBVIOUS
<1> HIDE DEF R
<1>3. PICK i \in S : \A j \in S : ~(<<j, i>> \in R)
  BY <1>1, WFMin
<1>4. ASSUME NEW j \in S PROVE i <= j
  <2>1. i \in Nat /\ j \in Nat
    OBVIOUS
  <2>2. ~(j < i)
    BY <1>2, <1>3, <2>1
  <2> QED BY <2>1, <2>2
<1> QED BY <1>4

(* The oldest free row exists whenever there is a free row (INSERT in      *)
(* store.ts).                                                              *)
LEMMA FirstIsMember ==
  ASSUME NEW n \in Nat, NEW S \in SUBSET (1..n), S # {}
  PROVE  First(S) \in S
<1>1. S \in SUBSET Nat
  OBVIOUS
<1> QED BY <1>1, SmallestNumber DEF First

(* So does the latest approval (ORDER BY created_at DESC in store.ts).     *)
LEMMA LastIsMember ==
  ASSUME NEW n \in Nat, NEW S \in SUBSET (1..n), S # {}
  PROVE  Last(S) \in S
<1> DEFINE T == {n - i : i \in S}
<1>1. \A i \in S : i \in Int /\ n - i \in Nat
  OBVIOUS
<1>2. T \in SUBSET Nat /\ T # {}
  BY <1>1
<1>3. PICK t \in T : \A u \in T : t <= u
  <2> HIDE DEF T
  <2> QED BY <1>2, SmallestNumber
<1>4. PICK i \in S : t = n - i
  BY <1>3
<1>5. \A j \in S : j <= i
  <2> SUFFICES ASSUME NEW j \in S PROVE j <= i
    OBVIOUS
  <2>1. n - i <= n - j
    BY <1>3, <1>4
  <2> QED BY <1>1, <2>1
<1> QED BY <1>5 DEF Last
-----------------------------------------------------------------------------
(* The tables and the turns. *)
Leases  == [Runs -> [holder : Executors \cup {NoExecutor}, gen : Nat,
                     live : BOOLEAN]]
RunRows == [status : {"running", "waiting_external", "paused",
                      "budget_limited"},
            usage : 0..MaxToolCalls]
ApprovalRows == [1..MaxApprovals ->
                   {"absent", "pending", "approved", "rejected", "consumed"}]

(* A turn is about a Run, and at its effect about a row of the journal. *)
TurnRuns    == \A d \in Executors : ~At(d, "idle") => Cur(d) \in Runs
CallNumbers == \A d \in Executors :
                 At(d, "effect") => turn[d].call \in 1..MaxCalls

(* An executor that owns its Run and has decided to call a tool finds a    *)
(* row to insert.                                                          *)
RoomForCall ==
  \A d \in Executors :
    (Holds(d) /\ turn[d].pc \in {"lock", "intent"}) => FreeCalls(Cur(d)) # {}

TypeInv == TypeOK /\ TurnRuns /\ CallNumbers

(* What a change of one daemon's turn means for all of them.               *)
LEMMA BecomeShape ==
  ASSUME TypeOK, NEW d \in Executors, NEW t, Become(d, t)
  PROVE  /\ turn'[d] = t
         /\ \A e \in Executors : e # d => turn'[e] = turn[e]
         /\ t \in TurnRow => turn' \in [Executors -> TurnRow]
  BY DEF TypeOK, Become

(* Only the place in the program changes.                                  *)
LEMMA GotoShape ==
  ASSUME TypeOK, NEW d \in Executors, NEW p \in Pc, Goto(d, p)
  PROVE  /\ turn' \in [Executors -> TurnRow]
         /\ turn'[d].pc = p /\ turn'[d].run = turn[d].run
         /\ turn'[d].gen = turn[d].gen /\ turn'[d].appr = turn[d].appr
         /\ turn'[d].call = turn[d].call /\ turn'[d].tool = turn[d].tool
         /\ \A e \in Executors : e # d => turn'[e] = turn[e]
<1> DEFINE t == [turn[d] EXCEPT !.pc = p]
<1>1. /\ t \in TurnRow /\ t.pc = p /\ t.run = turn[d].run
      /\ t.gen = turn[d].gen /\ t.appr = turn[d].appr
      /\ t.call = turn[d].call /\ t.tool = turn[d].tool
  BY DEF TypeOK, TurnRow
<1>2. Become(d, t)
  BY DEF Goto
<1> HIDE DEF t
<1> QED BY <1>1, <1>2, BecomeShape

(* No tool is one without scopes.                                          *)
LEMMA NoToolOK == NoTool \in ToolCall
  BY DEF NoTool, ToolCall

(* An authorized call asks for its locks, if it has scopes.                *)
LEMMA AuthorizedShape ==
  ASSUME TypeOK, NEW d \in Executors, NEW c \in ToolCalls,
         NEW a \in 0..MaxApprovals, Authorized(d, c, a)
  PROVE  /\ turn' \in [Executors -> TurnRow]
         /\ turn'[d].pc = IF c.scopes = {} THEN "intent" ELSE "lock"
         /\ turn'[d].run = turn[d].run /\ turn'[d].gen = turn[d].gen
         /\ turn'[d].tool = c
         /\ \A e \in Executors : e # d => turn'[e] = turn[e]
<1> DEFINE p == IF c.scopes = {} THEN "intent" ELSE "lock"
           t == [turn[d] EXCEPT !.pc = p, !.tool = c, !.appr = a]
<1>1. p \in Pc /\ c \in ToolCall
  BY ToolsAssumption DEF Pc
<1>2. Become(d, t)
  BY DEF Authorized
<1> HIDE DEF p
<1>3. /\ t \in TurnRow /\ t.pc = p /\ t.run = turn[d].run
      /\ t.gen = turn[d].gen /\ t.tool = c
  BY <1>1 DEF TypeOK, TurnRow
<1> HIDE DEF t
<1> QED BY <1>2, <1>3, BecomeShape DEF p

(* The call is over or refused: the turn goes on.                          *)
LEMMA BackToModelShape ==
  ASSUME TypeOK, NEW d \in Executors, BackToModel(d)
  PROVE  /\ turn' \in [Executors -> TurnRow]
         /\ turn'[d].pc = "work" /\ turn'[d].run = turn[d].run
         /\ turn'[d].gen = turn[d].gen
         /\ \A e \in Executors : e # d => turn'[e] = turn[e]
<1> DEFINE t == [turn[d] EXCEPT !.pc = "work", !.tool = NoTool,
                                !.late = FALSE, !.appr = 0, !.call = 0]
<1>1. 0 \in 0..MaxApprovals /\ 0 \in 0..MaxCalls /\ NoTool \in ToolCall
  BY BoundsAssumption, NoToolOK
<1>2. /\ t \in TurnRow /\ t.pc = "work" /\ t.run = turn[d].run
      /\ t.gen = turn[d].gen
  BY <1>1 DEF TypeOK, TurnRow, Pc
<1>3. Become(d, t)
  BY DEF BackToModel
<1> HIDE DEF t
<1> QED BY <1>2, <1>3, BecomeShape

(* The turn ends, or its process does.                                     *)
LEMMA IdleShape ==
  ASSUME TypeOK, NEW d \in Executors, Become(d, Idle)
  PROVE  /\ turn' \in [Executors -> TurnRow] /\ turn'[d].pc = "idle"
         /\ \A e \in Executors : e # d => turn'[e] = turn[e]
<1>1. 0 \in 0..MaxApprovals /\ 0 \in 0..MaxCalls /\ NoTool \in ToolCall
  BY BoundsAssumption, NoToolOK
<1>2. Idle \in TurnRow /\ Idle.pc = "idle"
  BY <1>1 DEF Idle, TurnRow, Pc
<1> QED BY <1>2, BecomeShape

(* acquireLease starts a turn under the lease it returned.                 *)
LEMMA BeginTurnShape ==
  ASSUME TypeOK, NEW d \in Executors, NEW r \in Runs, BeginTurn(d, r)
  PROVE  /\ turn' \in [Executors -> TurnRow]
         /\ turn'[d].pc = "recover" /\ turn'[d].run = r
         /\ \A e \in Executors : e # d => turn'[e] = turn[e]
         /\ lease' \in Leases
         /\ lease'[r] = [holder |-> d, gen |-> turn'[d].gen, live |-> TRUE]
         /\ lease'[r].gen = IF lease[r].live THEN lease[r].gen
                                             ELSE lease[r].gen + 1
         /\ \A q \in Runs : q # r => lease'[q] = lease[q]
<1> DEFINE g == IF lease[r].live THEN lease[r].gen ELSE lease[r].gen + 1
           t == [Idle EXCEPT !.pc = "recover", !.run = r, !.gen = g]
<1>1. g \in Nat
  BY DEF TypeOK
<1>2. lease' = [lease EXCEPT ![r] = [holder |-> d, gen |-> g, live |-> TRUE]]
  BY DEF BeginTurn
<1>3. Become(d, t)
  BY DEF BeginTurn
<1>4. 0 \in 0..MaxApprovals /\ 0 \in 0..MaxCalls /\ NoTool \in ToolCall
  BY BoundsAssumption, NoToolOK
<1>5. t \in TurnRow /\ t.pc = "recover" /\ t.run = r /\ t.gen = g
  <2> HIDE DEF g
  <2> QED BY <1>1, <1>4 DEF Idle, TurnRow, Pc
<1>6. /\ turn'[d] = t /\ \A e \in Executors : e # d => turn'[e] = turn[e]
      /\ t \in TurnRow => turn' \in [Executors -> TurnRow]
  <2> HIDE DEF t
  <2> QED BY <1>3, BecomeShape
<1>7. /\ lease' \in Leases
      /\ lease'[r] = [holder |-> d, gen |-> g, live |-> TRUE]
      /\ \A q \in Runs : q # r => lease'[q] = lease[q]
  <2> HIDE DEF g
  <2> QED BY <1>1, <1>2 DEF TypeOK, Leases
<1>8. lease'[r].gen = g
  BY <1>7
<1> HIDE DEF t
<1>9. turn'[d].gen = g
  BY <1>5, <1>6
<1> QED BY <1>5, <1>6, <1>7, <1>8, <1>9

(* A lock that runs out changes nothing in the turns but that they are     *)
(* late.                                                                   *)
LEMMA ExpiresShape ==
  ASSUME TypeOK, NEW l, LockExpires(l), NEW e \in Executors
  PROVE  /\ turn' \in [Executors -> TurnRow]
         /\ turn'[e].pc = turn[e].pc /\ turn'[e].run = turn[e].run
         /\ turn'[e].gen = turn[e].gen /\ turn'[e].call = turn[e].call
         /\ turn'[e].tool = turn[e].tool
         /\ turn[e].late => turn'[e].late
         /\ (turn[e].pc \in {"intent", "effect"} /\ l \in Wanted(e))
              => turn'[e].late
<1> DEFINE due(d) == turn[d].pc \in {"intent", "effect", "release"}
                     /\ l \in Wanted(d)
           row(d) == IF due(d) THEN [turn[d] EXCEPT !.late = TRUE]
                               ELSE turn[d]
<1>1. turn' = [d \in Executors |-> row(d)]
  BY DEF LockExpires
<1>2. ASSUME NEW d \in Executors
      PROVE  /\ row(d) \in TurnRow
             /\ row(d).pc = turn[d].pc /\ row(d).run = turn[d].run
             /\ row(d).gen = turn[d].gen /\ row(d).call = turn[d].call
             /\ row(d).tool = turn[d].tool
             /\ turn[d].late => row(d).late
             /\ due(d) => row(d).late
  <2> DEFINE new == [turn[d] EXCEPT !.late = TRUE]
  <2>1. turn[d] \in TurnRow
    BY DEF TypeOK
  <2>2. /\ new \in TurnRow /\ new.late = TRUE
        /\ new.pc = turn[d].pc /\ new.run = turn[d].run
        /\ new.gen = turn[d].gen /\ new.call = turn[d].call
        /\ new.tool = turn[d].tool
    BY <2>1 DEF TurnRow
  <2> HIDE DEF new, due
  <2>3. CASE due(d)
    <3>1. row(d) = new
      BY <2>3 DEF new
    <3> HIDE DEF row
    <3> QED BY <2>2, <3>1
  <2>4. CASE ~due(d)
    <3>1. row(d) = turn[d]
      BY <2>4
    <3> HIDE DEF row
    <3> QED BY <2>1, <2>4, <3>1
  <2> QED BY <2>3, <2>4
<1> HIDE DEF row
<1>3. turn' \in [Executors -> TurnRow] /\ turn'[e] = row(e)
  BY <1>1, <1>2
<1> QED BY <1>2, <1>3

(* A turn that changes in one daemon keeps the turns well formed.          *)
LEMMA TurnsOK ==
  ASSUME TypeInv, NEW d \in Executors, turn' \in [Executors -> TurnRow],
         \A e \in Executors : e # d => turn'[e] = turn[e],
         turn'[d].pc # "idle" => turn'[d].run \in Runs,
         turn'[d].pc = "effect" => turn'[d].call \in 1..MaxCalls
  PROVE  TurnRuns' /\ CallNumbers'
  BY DEF TypeInv, TurnRuns, CallNumbers, At, Cur

(* Charging one more tool call keeps the Run's row well formed: the usage  *)
(* stays within its ceiling (recordUsageInternal).                         *)
LEMMA ChargedRow ==
  ASSUME NEW row \in RunRows
  PROVE  Charged(row) \in RunRows
<1> DEFINE usage == IF row.usage < MaxToolCalls THEN row.usage + 1
                                                ELSE row.usage
           status == IF usage >= MaxToolCalls /\ row.status = "running"
                     THEN "budget_limited" ELSE row.status
<1>1. usage \in 0..MaxToolCalls
  BY BoundsAssumption DEF RunRows
<1>2. Charged(row) = [usage |-> usage, status |-> status]
  BY DEF Charged
<1>3. status \in {"running", "waiting_external", "paused", "budget_limited"}
  BY DEF RunRows
<1> HIDE DEF usage, status
<1> QED BY <1>1, <1>2, <1>3 DEF RunRows

(* A status the users or a wait write.                                     *)
LEMMA SetRunOK ==
  ASSUME TypeOK, NEW r \in Runs,
         NEW to \in {"running", "waiting_external", "paused"}, SetRun(r, to)
  PROVE  run' \in [Runs -> RunRows]
  BY DEF TypeOK, SetRun, RunRows

(* The parts of TypeOK, each with a name of its own.                       *)
LEMMA TypeParts ==
  TypeOK <=> /\ lease \in Leases
             /\ run \in [Runs -> RunRows]
             /\ approvals \in [Runs -> ApprovalRows]
             /\ locks \subseteq Lock
             /\ calls \in [Runs -> [1..MaxCalls -> CallRow]]
             /\ turn \in [Executors -> TurnRow]
  BY DEF TypeOK, Leases, RunRows, ApprovalRows

(* recordToolIntent inserts a well-formed row and consumes an approval     *)
(* that exists.                                                            *)
LEMMA IntentRows ==
  ASSUME TypeInv, NEW d \in Executors, At(d, "intent"),
         FreeCalls(Cur(d)) # {}
  PROVE  LET r == Cur(d)
             i == First(FreeCalls(r))
             a == turn[d].appr
         IN  /\ r \in Runs /\ i \in 1..MaxCalls
             /\ calls[r][i].status = "absent"
             /\ a \in 0..MaxApprovals
             /\ [status |-> "running", gen |-> turn[d].gen, appr |-> a]
                  \in CallRow
             /\ Consumed(r, a) \in ApprovalRows
<1> DEFINE r == Cur(d)
           i == First(FreeCalls(r))
           a == turn[d].appr
<1>1. r \in Runs /\ a \in 0..MaxApprovals /\ turn[d].gen \in Nat
  BY DEF TypeInv, TypeOK, TurnRuns, TurnRow, At
<1>2. FreeCalls(r) \in SUBSET (1..MaxCalls)
  BY DEF FreeCalls
<1>3. i \in FreeCalls(r)
  BY <1>2, FirstIsMember, BoundsAssumption
<1>4. i \in 1..MaxCalls /\ calls[r][i].status = "absent"
  BY <1>3 DEF FreeCalls
<1>5. [status |-> "running", gen |-> turn[d].gen, appr |-> a] \in CallRow
  BY <1>1 DEF CallRow
<1>6. Consumed(r, a) \in ApprovalRows
  <2>1. approvals[r] \in ApprovalRows
    BY <1>1, TypeParts DEF TypeInv
  <2> HIDE DEF r, a
  <2> QED BY <1>1, <2>1 DEF Consumed, ApprovalRows
<1> QED BY <1>1, <1>4, <1>5, <1>6

(* completeToolCall by the owner finishes one row of the journal.          *)
LEMMA CompleteShape ==
  ASSUME TypeInv, NEW d \in Executors, CompleteCall(d), Holds(d)
  PROVE  /\ calls' \in [Runs -> [1..MaxCalls -> CallRow]]
         /\ \A r \in Runs, i \in 1..MaxCalls :
              /\ calls'[r][i].gen = calls[r][i].gen
              /\ calls'[r][i].appr = calls[r][i].appr
              /\ calls'[r][i].status = IF r = Cur(d) /\ i = turn[d].call
                                       THEN "finished"
                                       ELSE calls[r][i].status
<1> DEFINE r0 == Cur(d)
           i0 == turn[d].call
           new == [calls[r0][i0] EXCEPT !.status = "finished"]
<1>1. r0 \in Runs /\ i0 \in 1..MaxCalls
  BY DEF TypeInv, TurnRuns, CallNumbers, CompleteCall, At
<1>2. calls \in [Runs -> [1..MaxCalls -> CallRow]]
  BY DEF TypeInv, TypeOK
<1>3. /\ new \in CallRow /\ new.status = "finished"
      /\ new.gen = calls[r0][i0].gen /\ new.appr = calls[r0][i0].appr
  <2>1. calls[r0][i0] \in CallRow
    BY <1>1, <1>2
  <2> HIDE DEF r0, i0
  <2> QED BY <2>1 DEF CallRow
<1>4. calls' = [calls EXCEPT ![r0][i0] = new]
  BY DEF CompleteCall
<1> HIDE DEF r0, i0, new
<1>5. calls' \in [Runs -> [1..MaxCalls -> CallRow]]
  BY <1>1, <1>2, <1>3, <1>4
<1>6. \A r \in Runs, i \in 1..MaxCalls :
        calls'[r][i] = IF r = r0 /\ i = i0 THEN new ELSE calls[r][i]
  BY <1>1, <1>2, <1>4
<1> QED BY <1>3, <1>5, <1>6 DEF r0, i0

(* recoverClaimedWork declares the running calls of older generations      *)
(* unknown.                                                                *)
LEMMA RecoverShape ==
  ASSUME TypeInv, NEW d \in Executors, RecoverCalls(d)
  PROVE  /\ calls' \in [Runs -> [1..MaxCalls -> CallRow]]
         /\ \A r \in Runs, i \in 1..MaxCalls :
              /\ calls'[r][i].gen = calls[r][i].gen
              /\ calls'[r][i].appr = calls[r][i].appr
              /\ calls'[r][i].status =
                   IF /\ r = Cur(d) /\ calls[r][i].status = "running"
                      /\ calls[r][i].gen < turn[d].gen
                   THEN "unknown_after_crash"
                   ELSE calls[r][i].status
<1> DEFINE r0 == Cur(d)
           row(i) == IF /\ calls[r0][i].status = "running"
                        /\ calls[r0][i].gen < turn[d].gen
                     THEN [calls[r0][i] EXCEPT
                             !.status = "unknown_after_crash"]
                     ELSE calls[r0][i]
<1>1. r0 \in Runs
  BY DEF TypeInv, TurnRuns, RecoverCalls, At
<1>2. calls \in [Runs -> [1..MaxCalls -> CallRow]]
  BY DEF TypeInv, TypeOK
<1>3. \A i \in 1..MaxCalls :
        /\ row(i) \in CallRow
        /\ row(i).gen = calls[r0][i].gen /\ row(i).appr = calls[r0][i].appr
        /\ row(i).status = IF /\ calls[r0][i].status = "running"
                              /\ calls[r0][i].gen < turn[d].gen
                           THEN "unknown_after_crash"
                           ELSE calls[r0][i].status
  <2> SUFFICES ASSUME NEW i \in 1..MaxCalls
               PROVE  /\ row(i) \in CallRow
                      /\ row(i).gen = calls[r0][i].gen
                      /\ row(i).appr = calls[r0][i].appr
                      /\ row(i).status =
                           IF /\ calls[r0][i].status = "running"
                              /\ calls[r0][i].gen < turn[d].gen
                           THEN "unknown_after_crash"
                           ELSE calls[r0][i].status
    OBVIOUS
  <2>1. calls[r0][i] \in CallRow
    BY <1>1, <1>2
  <2> HIDE DEF r0
  <2> QED BY <2>1 DEF CallRow
<1>4. calls' = [calls EXCEPT ![r0] = [i \in 1..MaxCalls |-> row(i)]]
  BY <1>1, <1>2 DEF RecoverCalls
<1> HIDE DEF row, r0
<1>5. calls' \in [Runs -> [1..MaxCalls -> CallRow]]
  BY <1>1, <1>2, <1>3, <1>4
<1>6. \A r \in Runs, i \in 1..MaxCalls :
        calls'[r][i] = IF r = r0 THEN row(i) ELSE calls[r][i]
  BY <1>1, <1>2, <1>4
<1> QED BY <1>3, <1>5, <1>6 DEF r0

(* Every step keeps the tables and the turns well formed.                  *)
LEMMA TypeStep ==
  ASSUME TypeInv, RoomForCall, [Next]_vars
  PROVE  TypeInv'
<1>p. /\ lease \in Leases
      /\ run \in [Runs -> RunRows]
      /\ approvals \in [Runs -> ApprovalRows]
      /\ locks \subseteq Lock
      /\ calls \in [Runs -> [1..MaxCalls -> CallRow]]
      /\ turn \in [Executors -> TurnRow]
  BY TypeParts DEF TypeInv
<1>g. ASSUME lease' \in Leases, run' \in [Runs -> RunRows],
             approvals' \in [Runs -> ApprovalRows],
             locks' \subseteq Lock,
             calls' \in [Runs -> [1..MaxCalls -> CallRow]],
             turn' \in [Executors -> TurnRow], TurnRuns', CallNumbers'
      PROVE  TypeInv'
  BY <1>g, TypeParts DEF TypeInv, TypeOK, Leases, RunRows, ApprovalRows
<1>c. \A d \in Executors : turn[d].pc # "idle" => Cur(d) \in Runs
  BY DEF TypeInv, TurnRuns, At
<1>1. ASSUME NEW d \in Executors, NEW r \in Runs, BeginTurn(d, r)
      PROVE  TypeInv'
  <2>1. TurnRuns' /\ CallNumbers'
    BY <1>1, BeginTurnShape, TurnsOK DEF TypeInv
  <2> QED BY <1>1, <1>p, <1>g, <2>1, BeginTurnShape DEF BeginTurn, TypeInv
<1>2. ASSUME NEW d \in Executors, RecoverCalls(d) PROVE TypeInv'
  <2>0. At(d, "recover") /\ Cur(d) \in Runs /\ Goto(d, "work") /\ "work" \in Pc
    BY <1>2, <1>c DEF RecoverCalls, At, Pc
  <2>1. turn' \in [Executors -> TurnRow] /\ TurnRuns' /\ CallNumbers'
    BY <2>0, GotoShape, TurnsOK DEF TypeInv, Cur
  <2>2. calls' \in [Runs -> [1..MaxCalls -> CallRow]]
    BY <1>2, RecoverShape
  <2> QED BY <1>2, <1>p, <1>g, <2>1, <2>2 DEF RecoverCalls
<1>3. ASSUME NEW d \in Executors, EndTurn(d) PROVE TypeInv'
  <2>1. turn' \in [Executors -> TurnRow] /\ TurnRuns' /\ CallNumbers'
    BY <1>3, IdleShape, TurnsOK DEF EndTurn, TypeInv
  <2> QED BY <1>3, <1>p, <1>g, <2>1 DEF EndTurn, db
<1>4. ASSUME NEW d \in Executors, NEW c \in ToolCalls, CallAllowedTool(d, c)
      PROVE  TypeInv'
  <2>0. Authorized(d, c, 0) /\ Cur(d) \in Runs /\ 0 \in 0..MaxApprovals
    BY <1>4, <1>c, BoundsAssumption DEF CallAllowedTool, MayCall, At
  <2>1. turn' \in [Executors -> TurnRow] /\ TurnRuns' /\ CallNumbers'
    BY <2>0, AuthorizedShape, TurnsOK DEF TypeInv, Cur
  <2> QED BY <1>4, <1>p, <1>g, <2>1 DEF CallAllowedTool, db
<1>5. ASSUME NEW d \in Executors, CallGuardedTool(d) PROVE TypeInv'
  <2> DEFINE r == Cur(d)
  <2>0. r \in Runs /\ approvals[r] \in ApprovalRows
    BY <1>5, <1>c, <1>p DEF CallGuardedTool, MayCall, At
  <2>1. Requested(r) \in SUBSET (1..MaxApprovals)
    BY DEF Requested
  <2>2. CASE /\ Requested(r) # {}
             /\ Authorized(d, GuardedCall, Last(Requested(r)))
             /\ UNCHANGED approvals
    <3> DEFINE a == Last(Requested(r))
    <3>n. MaxApprovals \in Nat
      BY BoundsAssumption
    <3>0. a \in Requested(r)
      BY <3>n, <2>1, <2>2, LastIsMember
    <3>1. a \in 0..MaxApprovals
      BY <3>0, <3>n, <2>1
    <3>2. Authorized(d, GuardedCall, a) /\ GuardedCall \in ToolCalls
      BY <2>2, ToolsAssumption
    <3> HIDE DEF a
    <3>3. turn' \in [Executors -> TurnRow] /\ TurnRuns' /\ CallNumbers'
      BY <2>0, <3>1, <3>2, AuthorizedShape, TurnsOK DEF TypeInv, Cur
    <3> QED BY <1>5, <2>2, <1>p, <1>g, <3>3 DEF CallGuardedTool
  <2>3. CASE Goto(d, "park") /\ UNCHANGED approvals
    <3>1. turn' \in [Executors -> TurnRow] /\ TurnRuns' /\ CallNumbers'
      BY <2>0, <2>3, GotoShape, TurnsOK DEF TypeInv, Pc, Cur
    <3> QED BY <1>5, <2>3, <1>p, <1>g, <3>1 DEF CallGuardedTool
  <2>4. CASE /\ Goto(d, "park")
             /\ approvals' = [approvals EXCEPT
                  ![r][First(1..MaxApprovals \ Requested(r))] = "pending"]
    <3>1. turn' \in [Executors -> TurnRow] /\ TurnRuns' /\ CallNumbers'
      BY <2>0, <2>4, GotoShape, TurnsOK DEF TypeInv, Pc, Cur
    <3>2. approvals' \in [Runs -> ApprovalRows]
      BY <1>p, <2>4 DEF ApprovalRows
    <3> QED BY <1>5, <1>p, <1>g, <3>1, <3>2 DEF CallGuardedTool
  <2>5. Requested(r) = {} \/ Requested(r) # {}
    OBVIOUS
  <2> QED BY <1>5, <2>2, <2>3, <2>4 DEF CallGuardedTool
<1>6. ASSUME NEW d \in Executors, AwaitApproval(d) PROVE TypeInv'
  <2>1. turn' \in [Executors -> TurnRow] /\ TurnRuns' /\ CallNumbers'
    BY <1>6, IdleShape, TurnsOK DEF AwaitApproval, TypeInv
  <2>2. run' \in [Runs -> RunRows]
    BY <1>6, <1>c, <1>p, SetRunOK DEF AwaitApproval, TypeInv, At
  <2> QED BY <1>6, <1>p, <1>g, <2>1, <2>2 DEF AwaitApproval
<1>7. ASSUME NEW d \in Executors, AcquireLocks(d) PROVE TypeInv'
  <2>0. Cur(d) \in Runs /\ turn[d].gen \in Nat
    BY <1>7, <1>c, <1>p DEF AcquireLocks, At, TurnRow
  <2>1. Goto(d, "intent") \/ BackToModel(d)
    BY <1>7 DEF AcquireLocks
  <2>2. turn' \in [Executors -> TurnRow] /\ TurnRuns' /\ CallNumbers'
    BY <2>0, <2>1, GotoShape, BackToModelShape, TurnsOK DEF TypeInv, Pc, Cur
  <2>3. locks' \subseteq Lock
    <3>1. Wanted(d) \subseteq Lock
      <4>1. turn[d].tool \in ToolCall
        BY <1>p DEF TurnRow
      <4> QED BY <2>0, <4>1 DEF Wanted, Lock, ToolCall
    <3> QED BY <1>7, <1>p, <3>1 DEF AcquireLocks
  <2> QED BY <1>7, <1>p, <1>g, <2>2, <2>3 DEF AcquireLocks
<1>8. ASSUME NEW d \in Executors, RecordIntent(d) PROVE TypeInv'
  <2> DEFINE r == Cur(d)
             i == First(FreeCalls(r))
             a == turn[d].appr
             new == [status |-> "running", gen |-> turn[d].gen, appr |-> a]
  <2>0. r \in Runs /\ At(d, "intent")
    BY <1>8, <1>c DEF RecordIntent, At
  <2>1. run' \in [Runs -> RunRows]
    BY <1>8, <1>p, <2>0, ChargedRow DEF RecordIntent
  <2>2. CASE BackToModel(d) /\ UNCHANGED <<approvals, calls>>
    <3>1. turn' \in [Executors -> TurnRow] /\ TurnRuns' /\ CallNumbers'
      BY <2>0, <2>2, BackToModelShape, TurnsOK DEF TypeInv, Cur
    <3> QED BY <1>8, <1>p, <1>g, <2>1, <2>2, <3>1 DEF RecordIntent
  <2>3. CASE /\ Holds(d)
             /\ calls' = [calls EXCEPT ![r][i] = new]
             /\ approvals' = [approvals EXCEPT ![r] = Consumed(r, a)]
             /\ Become(d, [turn[d] EXCEPT !.pc = "effect", !.call = i])
    <3>1. FreeCalls(r) # {}
      BY <2>0, <2>3 DEF RoomForCall, At
    <3>2. /\ i \in 1..MaxCalls /\ new \in CallRow
          /\ Consumed(r, a) \in ApprovalRows
      BY <2>0, <3>1, IntentRows
    <3> DEFINE t == [turn[d] EXCEPT !.pc = "effect", !.call = i]
    <3>3. /\ t \in TurnRow /\ t.pc = "effect" /\ t.run = Cur(d)
          /\ t.call \in 1..MaxCalls
      <4>1. i \in 0..MaxCalls
        BY <3>2
      <4> HIDE DEF i
      <4> QED BY <1>p, <3>2, <4>1 DEF TurnRow, Pc, Cur
    <3>4. Become(d, t)
      BY <2>3
    <3> HIDE DEF t
    <3>5. turn' \in [Executors -> TurnRow] /\ TurnRuns' /\ CallNumbers'
      BY <2>0, <3>3, <3>4, BecomeShape, TurnsOK DEF TypeInv
    <3>6. /\ calls' \in [Runs -> [1..MaxCalls -> CallRow]]
          /\ approvals' \in [Runs -> ApprovalRows]
      <4> HIDE DEF i, new, r
      <4> QED BY <1>p, <2>0, <2>3, <3>2
    <3> QED BY <1>8, <1>p, <1>g, <2>1, <3>5, <3>6 DEF RecordIntent
  <2> QED BY <1>8, <2>2, <2>3 DEF RecordIntent
<1>9. ASSUME NEW d \in Executors, CompleteCall(d) PROVE TypeInv'
  <2>0. Cur(d) \in Runs /\ At(d, "effect") /\ turn[d].call \in 1..MaxCalls
    BY <1>9, <1>c DEF CompleteCall, At, TypeInv, CallNumbers
  <2>1. turn' \in [Executors -> TurnRow] /\ TurnRuns' /\ CallNumbers'
    BY <1>9, <2>0, GotoShape, BackToModelShape, TurnsOK
       DEF CompleteCall, TypeInv, Pc, Cur
  <2>2. calls' \in [Runs -> [1..MaxCalls -> CallRow]]
    BY <1>9, <1>p, CompleteShape DEF CompleteCall
  <2> QED BY <1>9, <1>p, <1>g, <2>1, <2>2 DEF CompleteCall
<1>10. ASSUME NEW d \in Executors, ReleaseLocks(d) PROVE TypeInv'
  <2>0. Cur(d) \in Runs
    BY <1>10, <1>c DEF ReleaseLocks, At
  <2>1. turn' \in [Executors -> TurnRow] /\ TurnRuns' /\ CallNumbers'
    BY <1>10, <2>0, BackToModelShape, TurnsOK DEF ReleaseLocks, TypeInv, Cur
  <2>2. locks' \subseteq Lock
    BY <1>10, <1>p DEF ReleaseLocks
  <2> QED BY <1>10, <1>p, <1>g, <2>1, <2>2 DEF ReleaseLocks
<1>11. ASSUME NEW d \in Executors, Crash(d) PROVE TypeInv'
  <2>1. turn' \in [Executors -> TurnRow] /\ TurnRuns' /\ CallNumbers'
    BY <1>11, IdleShape, TurnsOK DEF Crash, TypeInv
  <2> QED BY <1>11, <1>p, <1>g, <2>1 DEF Crash, db
<1>u. UNCHANGED turn
        => turn' \in [Executors -> TurnRow] /\ TurnRuns' /\ CallNumbers'
  BY <1>p DEF TypeInv, TurnRuns, CallNumbers, At, Cur
<1>12. ASSUME NEW d \in Executors, NEW r \in Runs, Pause(d, r)
       PROVE  TypeInv'
  <2>1. run' \in [Runs -> RunRows]
    BY <1>12, SetRunOK DEF Pause, TypeInv
  <2>2. turn' \in [Executors -> TurnRow] /\ TurnRuns' /\ CallNumbers'
    <3> DEFINE t == [turn[d] EXCEPT !.aborted = TRUE]
    <3>1. /\ t \in TurnRow /\ t.pc = turn[d].pc /\ t.run = turn[d].run
          /\ t.call = turn[d].call
      BY <1>p DEF TurnRow
    <3>2. Become(d, t) \/ UNCHANGED turn
      BY <1>12 DEF Pause
    <3> HIDE DEF t
    <3>3. turn[d].pc = "effect" => turn[d].call \in 1..MaxCalls
      BY DEF TypeInv, CallNumbers, At
    <3>4. CASE Become(d, t)
      BY <1>c, <3>1, <3>3, <3>4, BecomeShape, TurnsOK DEF TypeInv, Cur
    <3> QED BY <3>2, <3>4, <1>u
  <2> QED BY <1>12, <1>p, <1>g, <2>1, <2>2 DEF Pause
<1>13. ASSUME NEW r \in Runs, Resume(r) PROVE TypeInv'
  <2>1. run' \in [Runs -> RunRows]
    BY <1>13, SetRunOK DEF Resume, TypeInv
  <2> QED BY <1>13, <1>p, <1>g, <1>u, <2>1 DEF Resume
<1>14. ASSUME NEW r \in Runs, NEW i \in 1..MaxApprovals,
              NEW v \in {"approved", "rejected"}, Decide(r, i, v)
       PROVE  TypeInv'
  <2>1. run' \in [Runs -> RunRows]
    BY <1>14, <1>p, SetRunOK DEF Decide, TypeInv
  <2>2. approvals' \in [Runs -> ApprovalRows]
    BY <1>14, <1>p DEF Decide, ApprovalRows
  <2> QED BY <1>14, <1>p, <1>g, <1>u, <2>1, <2>2 DEF Decide
<1>15. ASSUME NEW r \in Runs, LeaseLapses(r) PROVE TypeInv'
  <2>1. lease' \in Leases
    BY <1>15, <1>p DEF LeaseLapses, Leases
  <2> QED BY <1>15, <1>p, <1>g, <1>u, <2>1 DEF LeaseLapses
<1>16. ASSUME NEW l \in locks, LockExpires(l) PROVE TypeInv'
  <2>1. \A e \in Executors :
          /\ turn'[e].pc = turn[e].pc /\ turn'[e].run = turn[e].run
          /\ turn'[e].call = turn[e].call
    BY <1>16, ExpiresShape DEF TypeInv
  <2>2. TurnRuns' /\ CallNumbers'
    BY <2>1 DEF TypeInv, TurnRuns, CallNumbers, At, Cur
  <2>3. turn' \in [Executors -> TurnRow]
    <3>1. CASE Executors = {}
      BY <1>16, <3>1 DEF LockExpires
    <3>2. CASE Executors # {}
      BY <1>16, <3>2, ExpiresShape DEF TypeInv
    <3> QED BY <3>1, <3>2
  <2> QED BY <1>16, <1>p, <1>g, <2>2, <2>3 DEF LockExpires
<1>17. CASE UNCHANGED vars
  BY <1>17, <1>p, <1>g, <1>u DEF vars, db
<1> QED
  BY <1>1, <1>2, <1>3, <1>4, <1>5, <1>6, <1>7, <1>8, <1>9, <1>10, <1>11,
     <1>12, <1>13, <1>14, <1>15, <1>16, <1>17
     DEF Next, Tool, User
-----------------------------------------------------------------------------
(* The inductive invariant *)

(* The approval a journal row rests on is spent. *)
ApprovalsConsumed ==
  \A r \in Runs, i \in 1..MaxCalls :
    calls[r][i].appr # 0 => approvals[r][calls[r][i].appr] = "consumed"

(* A running row is of the lease's generation or an older one.  One of the *)
(* lease's generation is what the holder is executing, and no older one is *)
(* left once the holder has recovered.                                     *)
CallGenerations ==
  \A r \in Runs, i \in 1..MaxCalls :
    calls[r][i].status = "running" => calls[r][i].gen <= lease[r].gen

Executing(h, r, i, g) ==
  /\ h \in Executors
  /\ turn[h].pc = "effect" /\ turn[h].run = r
  /\ turn[h].call = i /\ turn[h].gen = g

CurrentCalls ==
  \A r \in Runs, i \in 1..MaxCalls :
    (/\ calls[r][i].status = "running"
     /\ lease[r].live /\ calls[r][i].gen = lease[r].gen)
    => Executing(lease[r].holder, r, i, lease[r].gen)

NoOlderCalls ==
  \A d \in Executors :
    (Holds(d) /\ ~At(d, "recover")) =>
      \A i \in 1..MaxCalls :
        calls[Cur(d)][i].status = "running"
        => calls[Cur(d)][i].gen = turn[d].gen

(* An owner at its effect, or about to be, has the locks its tool asked    *)
(* for while they last.  Locks in conflict are of one owner.               *)
HolderLocks ==
  \A d \in Executors :
    (Holds(d) /\ turn[d].pc \in {"intent", "effect"} /\ ~turn[d].late)
    => Wanted(d) \subseteq locks

SameOwner(l, m) == l.run = m.run /\ l.holder = m.holder /\ l.gen = m.gen

LocksAgree ==
  \A l, m \in locks : Conflict(l.scope, m.scope) => SameOwner(l, m)

JournalInv == CallGenerations /\ CurrentCalls /\ NoOlderCalls
LockInv    == HolderLocks /\ LocksAgree
AuditInv   == ApprovalsConsumed /\ ApprovalAuthorizesOnce
-----------------------------------------------------------------------------
(* What a step that begins no turn keeps: nobody gets a lease, and a turn  *)
(* stays on its Run and its generation or ends.                            *)
KeepLeases ==
  \A r \in Runs : /\ lease'[r].gen = lease[r].gen
                  /\ lease'[r].holder = lease[r].holder
                  /\ lease'[r].live => lease[r].live
KeepTurns ==
  \A e \in Executors :
    turn'[e].pc # "idle" =>
      /\ turn[e].pc # "idle"
      /\ turn'[e].run = turn[e].run /\ turn'[e].gen = turn[e].gen

(* recordToolIntent refuses the call, or journals it: under the lease, in  *)
(* a free row, with an approval that is still unspent and then is spent.   *)
IntentRefused(d) ==
  /\ UNCHANGED <<approvals, calls>>
  /\ turn'[d].pc = "work"

IntentRecorded(d, i) ==
  LET r == Cur(d)
      a == turn[d].appr
  IN  /\ Holds(d) /\ At(d, "intent") /\ r \in Runs
      /\ i \in 1..MaxCalls /\ calls[r][i].status = "absent"
      /\ \A q \in Runs, j \in 1..MaxCalls :
           calls'[q][j] = IF q = r /\ j = i
                          THEN [status |-> "running", gen |-> turn[d].gen,
                                appr |-> a]
                          ELSE calls[q][j]
      /\ a \in 0..MaxApprovals
      /\ a = 0 \/ approvals[r][a] = "approved"
      /\ \A q \in Runs, b \in 1..MaxApprovals :
           approvals'[q][b] = IF q = r /\ b = a THEN "consumed"
                              ELSE approvals[q][b]
      /\ turn'[d].pc = "effect" /\ turn'[d].call = i
      /\ turn'[d].tool = turn[d].tool /\ (turn[d].late => turn'[d].late)

(* recordToolIntent has these two outcomes and keeps the turn's Run, its   *)
(* generation and every other turn.                                        *)
LEMMA IntentShape ==
  ASSUME TypeInv, RoomForCall, NEW d \in Executors, RecordIntent(d)
  PROVE  /\ IntentRefused(d) \/ \E i \in 1..MaxCalls : IntentRecorded(d, i)
         /\ turn'[d].run = turn[d].run /\ turn'[d].gen = turn[d].gen
         /\ \A e \in Executors : e # d => turn'[e] = turn[e]
<1> DEFINE r == Cur(d)
           i == First(FreeCalls(r))
           a == turn[d].appr
           new == [status |-> "running", gen |-> turn[d].gen, appr |-> a]
           t == [turn[d] EXCEPT !.pc = "effect", !.call = i]
<1>0. r \in Runs /\ At(d, "intent")
  BY DEF RecordIntent, At, TypeInv, TurnRuns
<1>1. CASE BackToModel(d) /\ UNCHANGED <<approvals, calls>>
  BY <1>1, BackToModelShape DEF TypeInv, IntentRefused
<1>2. CASE /\ Holds(d) /\ (a = 0 \/ approvals[r][a] = "approved")
           /\ calls' = [calls EXCEPT ![r][i] = new]
           /\ approvals' = [approvals EXCEPT ![r] = Consumed(r, a)]
           /\ Become(d, t)
  <2>1. FreeCalls(r) # {}
    BY <1>0, <1>2 DEF RoomForCall, At
  <2>2. /\ i \in 1..MaxCalls /\ calls[r][i].status = "absent"
        /\ a \in 0..MaxApprovals
    BY <1>0, <2>1, IntentRows
  <2>3. /\ t.pc = "effect" /\ t.call = i /\ t.run = turn[d].run
        /\ t.gen = turn[d].gen /\ t.tool = turn[d].tool
        /\ t.late = turn[d].late
    <3> HIDE DEF i
    <3> QED BY DEF TypeInv, TypeOK, TurnRow
  <2>4. /\ turn'[d] = t /\ \A e \in Executors : e # d => turn'[e] = turn[e]
    <3> HIDE DEF t
    <3> QED BY <1>2, BecomeShape DEF TypeInv
  <2>5. \A q \in Runs, j \in 1..MaxCalls :
          calls'[q][j] = IF q = r /\ j = i THEN new ELSE calls[q][j]
    <3> HIDE DEF i, new, r
    <3> QED BY <1>0, <1>2, <2>2 DEF TypeInv, TypeOK
  <2>6. \A q \in Runs, b \in 1..MaxApprovals :
          approvals'[q][b] = IF q = r /\ b = a THEN "consumed"
                             ELSE approvals[q][b]
    <3>1. /\ approvals \in [Runs -> ApprovalRows]
          /\ approvals' = [approvals EXCEPT ![r] = Consumed(r, a)]
      BY <1>2, TypeParts DEF TypeInv
    <3> HIDE DEF r, a
    <3>2. \A b \in 1..MaxApprovals :
            Consumed(r, a)[b] = IF b = a THEN "consumed" ELSE approvals[r][b]
      <4>1. approvals[r] \in ApprovalRows
        BY <1>0, <3>1
      <4>2. CASE a = 0
        BY <4>2 DEF Consumed
      <4>3. CASE a # 0
        BY <4>1, <4>3 DEF Consumed, ApprovalRows
      <4> QED BY <4>2, <4>3
    <3> QED BY <1>0, <3>1, <3>2
  <2> HIDE DEF t, i
  <2>7. IntentRecorded(d, i)
    BY <1>0, <1>2, <2>2, <2>3, <2>4, <2>5, <2>6 DEF IntentRecorded
  <2> QED BY <2>2, <2>3, <2>4, <2>7
<1> QED BY <1>1, <1>2 DEF RecordIntent

(* The guarded tool is called, or its approval awaited.                    *)
LEMMA GuardedShape ==
  ASSUME NEW d \in Executors, CallGuardedTool(d)
  PROVE  \/ Goto(d, "park")
         \/ \E a \in 0..MaxApprovals : Authorized(d, GuardedCall, a)
<1> DEFINE r == Cur(d)
<1>1. CASE /\ Requested(r) # {}
           /\ Authorized(d, GuardedCall, Last(Requested(r)))
  <2>1. Requested(r) \in SUBSET (1..MaxApprovals)
    BY DEF Requested
  <2>n. MaxApprovals \in Nat
    BY BoundsAssumption
  <2>2. Last(Requested(r)) \in Requested(r)
    BY <2>n, <1>1, <2>1, LastIsMember
  <2>3. Last(Requested(r)) \in 0..MaxApprovals
    BY <2>2, <2>n, <2>1
  <2> QED BY <1>1, <2>3
<1> QED BY <1>1 DEF CallGuardedTool

(* Only acquireLease gives a lease or a turn its Run and generation.       *)
LEMMA KeepStep ==
  ASSUME TypeInv, RoomForCall, [Next]_vars
  PROVE  \/ KeepLeases /\ KeepTurns
         \/ \E d \in Executors, r \in Runs : BeginTurn(d, r)
<1>t. TypeOK /\ {"work", "lock", "park", "intent", "release"} \subseteq Pc
  BY DEF TypeInv, Pc
<1>o. ASSUME NEW d \in Executors,
             \A e \in Executors : e # d => turn'[e] = turn[e],
             \/ turn'[d].pc = "idle"
             \/ /\ ~At(d, "idle") /\ turn'[d].run = turn[d].run
                /\ turn'[d].gen = turn[d].gen
      PROVE  KeepTurns
  BY <1>o DEF KeepTurns, At
<1>u. /\ UNCHANGED lease => KeepLeases
      /\ UNCHANGED turn => KeepTurns
  BY DEF KeepLeases, KeepTurns
<1>1. ASSUME NEW d \in Executors, RecoverCalls(d)
      PROVE  KeepLeases /\ KeepTurns
  BY <1>1, <1>t, <1>o, <1>u, GotoShape DEF RecoverCalls, At
<1>2. ASSUME NEW d \in Executors, EndTurn(d) \/ Crash(d)
      PROVE  KeepLeases /\ KeepTurns
  BY <1>2, <1>t, <1>o, <1>u, IdleShape DEF EndTurn, Crash, db
<1>3. ASSUME NEW d \in Executors, NEW c \in ToolCalls, CallAllowedTool(d, c)
      PROVE  KeepLeases /\ KeepTurns
  <2>1. 0 \in 0..MaxApprovals
    BY BoundsAssumption
  <2> QED BY <1>3, <1>t, <1>o, <1>u, <2>1, AuthorizedShape
          DEF CallAllowedTool, MayCall, At, db
<1>4. ASSUME NEW d \in Executors, CallGuardedTool(d)
      PROVE  KeepLeases /\ KeepTurns
  <2>1. At(d, "work") /\ UNCHANGED lease
    BY <1>4 DEF CallGuardedTool, MayCall
  <2>2. CASE Goto(d, "park")
    BY <2>1, <2>2, <1>t, <1>o, <1>u, GotoShape DEF At
  <2>3. ASSUME NEW a \in 0..MaxApprovals, Authorized(d, GuardedCall, a)
        PROVE  KeepLeases /\ KeepTurns
    BY <2>1, <2>3, <1>t, <1>o, <1>u, AuthorizedShape, ToolsAssumption DEF At
  <2> QED BY <1>4, <2>2, <2>3, GuardedShape
<1>5. ASSUME NEW d \in Executors, AwaitApproval(d)
      PROVE  KeepLeases /\ KeepTurns
  BY <1>5, <1>t, <1>o, <1>u, IdleShape DEF AwaitApproval
<1>6. ASSUME NEW d \in Executors, AcquireLocks(d)
      PROVE  KeepLeases /\ KeepTurns
  BY <1>6, <1>t, <1>o, <1>u, GotoShape, BackToModelShape
     DEF AcquireLocks, At
<1>7. ASSUME NEW d \in Executors, RecordIntent(d)
      PROVE  KeepLeases /\ KeepTurns
  BY <1>7, <1>o, <1>u, IntentShape DEF RecordIntent, At
<1>8. ASSUME NEW d \in Executors, CompleteCall(d)
      PROVE  KeepLeases /\ KeepTurns
  BY <1>8, <1>t, <1>o, <1>u, GotoShape, BackToModelShape DEF CompleteCall, At
<1>9. ASSUME NEW d \in Executors, ReleaseLocks(d)
      PROVE  KeepLeases /\ KeepTurns
  BY <1>9, <1>t, <1>o, <1>u, BackToModelShape DEF ReleaseLocks, At
<1>10. ASSUME NEW d \in Executors, NEW r \in Runs, Pause(d, r)
       PROVE  KeepLeases /\ KeepTurns
  <2> DEFINE t == [turn[d] EXCEPT !.aborted = TRUE]
  <2>1. t.pc = turn[d].pc /\ t.run = turn[d].run /\ t.gen = turn[d].gen
    BY <1>t DEF TypeOK, TurnRow
  <2>2. (~At(d, "idle") /\ Become(d, t)) \/ UNCHANGED turn
    BY <1>10 DEF Pause
  <2>3. UNCHANGED lease
    BY <1>10 DEF Pause
  <2> HIDE DEF t
  <2> QED BY <2>1, <2>2, <2>3, <1>t, <1>o, <1>u, BecomeShape
<1>11. ASSUME NEW r \in Runs, LeaseLapses(r)
       PROVE  KeepLeases /\ KeepTurns
  <2>1. KeepLeases
    BY <1>11, <1>t DEF LeaseLapses, KeepLeases, TypeOK
  <2> QED BY <1>11, <2>1, <1>u DEF LeaseLapses
<1>12. ASSUME UNCHANGED <<lease, turn>>
       PROVE  KeepLeases /\ KeepTurns
  BY <1>12, <1>u
<1>13. ASSUME NEW l \in locks, LockExpires(l)
       PROVE  KeepLeases /\ KeepTurns
  <2>1. KeepTurns
    BY <1>13, <1>t, ExpiresShape DEF KeepTurns
  <2> QED BY <1>13, <1>u, <2>1 DEF LockExpires
<1> QED
  BY <1>1, <1>2, <1>3, <1>4, <1>5, <1>6, <1>7, <1>8, <1>9, <1>10, <1>11,
     <1>12, <1>13
     DEF Next, Tool, User, Resume, Decide, vars, db

(* An executor owns its Run after a step only if it has just acquired it   *)
(* or owned it before, with the same Run and generation.                   *)
LEMMA HoldsStep ==
  ASSUME TypeInv, RoomForCall, [Next]_vars, NEW e \in Executors, Holds(e)'
  PROVE  \/ turn'[e].pc = "recover"
         \/ /\ Holds(e)
            /\ turn'[e].run = turn[e].run /\ turn'[e].gen = turn[e].gen
<1>0. /\ turn'[e].pc # "idle"
      /\ lease'[turn'[e].run]
           = [holder |-> e, gen |-> turn'[e].gen, live |-> TRUE]
  BY DEF Holds, Cur
<1>1. CASE KeepLeases /\ KeepTurns
  <2>1. /\ turn[e].pc # "idle"
        /\ turn'[e].run = turn[e].run /\ turn'[e].gen = turn[e].gen
    BY <1>0, <1>1 DEF KeepTurns
  <2> DEFINE r == turn[e].run
  <2>2. r \in Runs
    BY <2>1 DEF TypeInv, TurnRuns, At, Cur
  <2>3. /\ lease[r].gen = turn[e].gen /\ lease[r].holder = e
        /\ lease[r].live = TRUE
    BY <1>0, <1>1, <2>1, <2>2 DEF KeepLeases, TypeInv, TypeOK
  <2>4. lease[r] \in [holder : Executors \cup {NoExecutor}, gen : Nat,
                      live : BOOLEAN]
    BY <2>2 DEF TypeInv, TypeOK
  <2>5. lease[r] = [holder |-> e, gen |-> turn[e].gen, live |-> TRUE]
    <3> HIDE DEF r
    <3> QED BY <2>3, <2>4
  <2> QED BY <2>1, <2>5 DEF Holds, Cur
<1>2. ASSUME NEW d \in Executors, NEW r \in Runs, BeginTurn(d, r)
      PROVE  \/ turn'[e].pc = "recover"
             \/ /\ Holds(e)
                /\ turn'[e].run = turn[e].run /\ turn'[e].gen = turn[e].gen
  <2>1. /\ turn'[d].pc = "recover"
        /\ e # d => turn'[e] = turn[e]
        /\ lease'[r] = [holder |-> d, gen |-> turn'[d].gen, live |-> TRUE]
        /\ \A q \in Runs : q # r => lease'[q] = lease[q]
    BY <1>2, BeginTurnShape DEF TypeInv
  <2>2. CASE e # d
    <3>1. turn[e].run \in Runs
      BY <1>0, <2>1, <2>2 DEF TypeInv, TurnRuns, At, Cur
    <3>2. turn[e].run # r
      <4>1. lease'[r].holder = d
        BY <2>1
      <4>2. lease'[turn[e].run].holder = e
        BY <1>0, <2>1, <2>2
      <4> QED BY <2>2, <4>1, <4>2
    <3> QED BY <1>0, <2>1, <2>2, <3>1, <3>2 DEF Holds, Cur
  <2> QED BY <2>1, <2>2
<1> QED BY <1>1, <1>2, KeepStep

(* Two executors never own the same Run.                                   *)
LEMMA HoldersDiffer ==
  ASSUME NEW d \in Executors, NEW e \in Executors, d # e, Holds(d), Holds(e)
  PROVE  Cur(d) # Cur(e)
  BY DEF Holds

-----------------------------------------------------------------------------
(* Where a turn can go *)
SamePlace(e) ==
  /\ turn'[e].pc = turn[e].pc /\ turn'[e].run = turn[e].run
  /\ turn'[e].gen = turn[e].gen /\ turn'[e].call = turn[e].call
  /\ turn'[e].tool = turn[e].tool /\ (turn[e].late => turn'[e].late)

Acts(e) ==
  \/ \E r \in Runs : BeginTurn(e, r)
  \/ RecoverCalls(e) \/ EndTurn(e) \/ Tool(e) \/ Crash(e)

(* A daemon's turn moves by its own steps only.                            *)
LEMMA PlaceStep ==
  ASSUME TypeInv, RoomForCall, [Next]_vars, NEW e \in Executors
  PROVE  SamePlace(e) \/ Acts(e)
<1>0. TypeOK /\ turn[e] \in TurnRow
  BY DEF TypeInv, TypeOK
<1>1. ASSUME NEW d \in Executors, Acts(d) PROVE SamePlace(e) \/ Acts(e)
  <2>1. CASE d = e
    BY <1>1, <2>1
  <2>2. CASE d # e
    <3>1. turn'[e] = turn[e]
      BY <1>0, <1>1, <2>2, BecomeShape
         DEF Acts, BeginTurn, RecoverCalls, EndTurn, Tool, Crash,
             CallAllowedTool, CallGuardedTool, AwaitApproval, AcquireLocks,
             RecordIntent, CompleteCall, ReleaseLocks, Goto, BackToModel,
             Authorized
    <3> QED BY <3>1 DEF SamePlace
  <2> QED BY <2>1, <2>2
<1>2. ASSUME NEW d \in Executors, NEW r \in Runs, Pause(d, r)
      PROVE  SamePlace(e)
  <2> DEFINE t == [turn[d] EXCEPT !.aborted = TRUE]
  <2>1. /\ t.pc = turn[d].pc /\ t.run = turn[d].run
        /\ t.gen = turn[d].gen /\ t.call = turn[d].call
        /\ t.tool = turn[d].tool /\ t.late = turn[d].late
    BY <1>0 DEF TypeOK, TurnRow
  <2>2. Become(d, t) \/ UNCHANGED turn
    BY <1>2 DEF Pause
  <2> HIDE DEF t
  <2> QED BY <1>0, <2>1, <2>2, BecomeShape DEF SamePlace
<1>3. ASSUME UNCHANGED turn PROVE SamePlace(e)
  BY <1>3 DEF SamePlace
<1>4. ASSUME NEW l \in locks, LockExpires(l) PROVE SamePlace(e)
  BY <1>0, <1>4, ExpiresShape DEF SamePlace
<1> QED BY <1>1, <1>2, <1>3, <1>4
        DEF Next, User, Resume, Decide, LeaseLapses, vars, Acts

(* The places an acting daemon comes from and goes to.                     *)
LEMMA ActingPlace ==
  ASSUME TypeInv, RoomForCall, NEW e \in Executors, Acts(e)
  PROVE  /\ turn'[e].pc = "lock" => MayCall(e)
         /\ turn'[e].pc = "intent" =>
              (MayCall(e) \/ AcquireLocks(e)) /\ Wanted(e)' \subseteq locks'
         /\ turn'[e].pc = "effect" => RecordIntent(e)
         /\ At(e, "effect") => CompleteCall(e) \/ (Crash(e) /\ ~Holds(e))
         /\ At(e, "recover") => RecoverCalls(e) \/ turn'[e].pc = "idle"
<1>0. TypeOK /\ {"work", "lock", "park", "intent", "release"} \subseteq Pc
  BY DEF TypeInv, Pc
<1> DEFINE Goal ==
         /\ turn'[e].pc = "lock" => MayCall(e)
         /\ turn'[e].pc = "intent" =>
              (MayCall(e) \/ AcquireLocks(e)) /\ Wanted(e)' \subseteq locks'
         /\ turn'[e].pc = "effect" => RecordIntent(e)
         /\ At(e, "effect") => CompleteCall(e) \/ (Crash(e) /\ ~Holds(e))
         /\ At(e, "recover") => RecoverCalls(e) \/ turn'[e].pc = "idle"
<1> SUFFICES Goal
  OBVIOUS
<1>1. ASSUME NEW r \in Runs, BeginTurn(e, r) PROVE Goal
  <2>1. turn'[e].pc = "recover" /\ At(e, "idle")
    BY <1>0, <1>1, BeginTurnShape DEF BeginTurn
  <2> QED BY <2>1 DEF At
<1>2. CASE RecoverCalls(e)
  <2>1. turn'[e].pc = "work" /\ At(e, "recover")
    BY <1>0, <1>2, GotoShape DEF RecoverCalls
  <2> QED BY <1>2, <2>1 DEF At
<1>3. CASE EndTurn(e) \/ AwaitApproval(e)
  <2>1. turn'[e].pc = "idle" /\ ~At(e, "effect")
    BY <1>0, <1>3, IdleShape DEF EndTurn, AwaitApproval, At
  <2> QED BY <2>1
<1>4. CASE Crash(e)
  <2>1. turn'[e].pc = "idle" /\ ~Holds(e)
    BY <1>0, <1>4, IdleShape DEF Crash
  <2> QED BY <1>4, <2>1
<1>a. ASSUME NEW c \in ToolCalls, NEW a \in 0..MaxApprovals,
             Authorized(e, c, a), MayCall(e)
      PROVE  Goal
  <2>1. /\ turn'[e].pc = IF c.scopes = {} THEN "intent" ELSE "lock"
        /\ turn'[e].tool = c /\ At(e, "work")
    BY <1>0, <1>a, AuthorizedShape DEF MayCall
  <2>2. turn'[e].pc = "intent" => Wanted(e)' = {}
    BY <2>1 DEF Wanted
  <2> QED BY <1>a, <2>1, <2>2 DEF At
<1>5. ASSUME NEW c \in ToolCalls, CallAllowedTool(e, c) PROVE Goal
  <2>1. 0 \in 0..MaxApprovals
    BY BoundsAssumption
  <2> HIDE DEF Goal
  <2> QED BY <1>a, <1>5, <2>1 DEF CallAllowedTool
<1>6. CASE CallGuardedTool(e)
  <2>1. MayCall(e) /\ At(e, "work")
    BY <1>6 DEF CallGuardedTool, MayCall
  <2>2. CASE Goto(e, "park")
    <3>1. turn'[e].pc = "park"
      BY <1>0, <2>2, GotoShape
    <3> QED BY <2>1, <3>1 DEF At
  <2> HIDE DEF Goal
  <2> QED BY <1>a, <1>6, <2>1, <2>2, GuardedShape, ToolsAssumption
<1>7. CASE AcquireLocks(e)
  <2>1. At(e, "lock")
    BY <1>7 DEF AcquireLocks
  <2>2. CASE Wanted(e) \subseteq locks' /\ Goto(e, "intent")
    <3>1. /\ turn'[e].pc = "intent" /\ turn'[e].tool = turn[e].tool
          /\ turn'[e].run = turn[e].run /\ turn'[e].gen = turn[e].gen
      BY <1>0, <2>2, GotoShape
    <3>2. Wanted(e)' = Wanted(e)
      BY <3>1 DEF Wanted, Cur
    <3> QED BY <1>7, <2>1, <2>2, <3>1, <3>2 DEF At
  <2>3. CASE BackToModel(e)
    <3>1. turn'[e].pc = "work"
      BY <1>0, <2>3, BackToModelShape
    <3> QED BY <2>1, <3>1 DEF At
  <2> QED BY <1>7, <2>2, <2>3 DEF AcquireLocks
<1>8. CASE RecordIntent(e)
  <2>1. turn'[e].pc \in {"work", "effect"}
    BY <1>8, IntentShape DEF IntentRefused, IntentRecorded
  <2>2. At(e, "intent")
    BY <1>8 DEF RecordIntent
  <2> QED BY <1>8, <2>1, <2>2 DEF At
<1>9. CASE CompleteCall(e)
  <2>1. turn'[e].pc \in {"release", "work"} /\ At(e, "effect")
    BY <1>0, <1>9, GotoShape, BackToModelShape DEF CompleteCall
  <2> QED BY <1>9, <2>1 DEF At
<1>10. CASE ReleaseLocks(e)
  <2>1. turn'[e].pc = "work" /\ At(e, "release")
    BY <1>0, <1>10, BackToModelShape DEF ReleaseLocks
  <2> QED BY <2>1 DEF At
<1> HIDE DEF Goal
<1> QED BY <1>1, <1>2, <1>3, <1>4, <1>5, <1>6, <1>7, <1>8, <1>9, <1>10
        DEF Acts, Tool

(* The journal changes by recoverClaimedWork, completeToolCall and         *)
(* recordToolIntent, the last two under the lease.                         *)
LEMMA CallsStep ==
  ASSUME TypeInv, RoomForCall, [Next]_vars
  PROVE  \/ UNCHANGED calls
         \/ \E d \in Executors :
              \/ RecoverCalls(d)
              \/ CompleteCall(d) /\ Holds(d)
              \/ RecordIntent(d) /\ \E i \in 1..MaxCalls : IntentRecorded(d, i)
<1>1. ASSUME NEW d \in Executors, RecordIntent(d)
      PROVE  UNCHANGED calls \/ \E i \in 1..MaxCalls : IntentRecorded(d, i)
  BY <1>1, IntentShape DEF IntentRefused
<1>2. ASSUME NEW d \in Executors, CompleteCall(d)
      PROVE  UNCHANGED calls \/ Holds(d)
  BY <1>2 DEF CompleteCall
<1> QED BY <1>1, <1>2
        DEF Next, Tool, User, BeginTurn, EndTurn, Crash, CallAllowedTool,
            CallGuardedTool, AwaitApproval, AcquireLocks, ReleaseLocks,
            Pause, Resume, Decide, LeaseLapses, LockExpires, vars, db

(* A row is new, or it keeps its generation and its approval, was running  *)
(* before if it is running now, and stays absent only by staying so.       *)
LEMMA RowStep ==
  ASSUME TypeInv, RoomForCall, [Next]_vars,
         NEW r \in Runs, NEW i \in 1..MaxCalls
  PROVE  \/ /\ calls'[r][i].gen = calls[r][i].gen
            /\ calls'[r][i].appr = calls[r][i].appr
            /\ calls'[r][i].status = "running" => calls[r][i].status = "running"
         \/ \E d \in Executors :
              RecordIntent(d) /\ IntentRecorded(d, i) /\ Cur(d) = r
<1>1. CASE UNCHANGED calls
  BY <1>1
<1>2. ASSUME NEW d \in Executors, RecoverCalls(d)
      PROVE  /\ calls'[r][i].gen = calls[r][i].gen
             /\ calls'[r][i].appr = calls[r][i].appr
             /\ calls'[r][i].status = "running"
                  => calls[r][i].status = "running"
  BY <1>2, RecoverShape
<1>3. ASSUME NEW d \in Executors, CompleteCall(d), Holds(d)
      PROVE  /\ calls'[r][i].gen = calls[r][i].gen
             /\ calls'[r][i].appr = calls[r][i].appr
             /\ calls'[r][i].status = "running"
                  => calls[r][i].status = "running"
  BY <1>3, CompleteShape
<1>4. ASSUME NEW d \in Executors, NEW j \in 1..MaxCalls,
             IntentRecorded(d, j), ~(Cur(d) = r /\ j = i)
      PROVE  calls'[r][i] = calls[r][i]
  BY <1>4 DEF IntentRecorded
<1> QED BY <1>1, <1>2, <1>3, <1>4, CallsStep

(* An executor that owns its Run and is about to journal a call finds a    *)
(* row: only it can have used one up.                                      *)
LEMMA RoomStep ==
  ASSUME TypeInv, RoomForCall, [Next]_vars
  PROVE  RoomForCall'
<1> SUFFICES ASSUME NEW e \in Executors, Holds(e)',
                    turn'[e].pc \in {"lock", "intent"}
             PROVE  \E i \in 1..MaxCalls :
                      calls'[turn'[e].run][i].status = "absent"
  BY DEF RoomForCall, Cur, FreeCalls
<1> DEFINE r == turn[e].run
<1>1. Holds(e) /\ turn'[e].run = r
  BY HoldsStep
<1>2. r \in Runs
  BY <1>1 DEF TypeInv, TurnRuns, At, Cur, Holds
<1>3. FreeCalls(r) # {}
  <2>1. CASE turn[e].pc \in {"lock", "intent"}
    BY <1>1, <2>1 DEF RoomForCall, Cur
  <2>2. CASE turn[e].pc \notin {"lock", "intent"}
    <3>1. Acts(e)
      BY <2>2, PlaceStep DEF SamePlace
    <3>2. MayCall(e) \/ AcquireLocks(e)
      BY <3>1, ActingPlace
    <3> QED BY <2>2, <3>2 DEF MayCall, AcquireLocks, At, Cur
  <2> QED BY <2>1, <2>2
<1>4. PICK i \in 1..MaxCalls : calls[r][i].status = "absent"
  BY <1>3 DEF FreeCalls
<1>5. calls'[r][i].status = "absent"
  <2>1. CASE UNCHANGED calls
    BY <1>4, <2>1
  <2>2. ASSUME NEW d \in Executors, RecoverCalls(d)
        PROVE  calls'[r][i].status = "absent"
    BY <1>2, <1>4, <2>2, RecoverShape
  <2>3. ASSUME NEW d \in Executors, CompleteCall(d), Holds(d)
        PROVE  calls'[r][i].status = "absent"
    <3>1. d # e
      BY <2>3, GotoShape, BackToModelShape DEF CompleteCall, TypeInv, Pc
    <3>2. Cur(d) # r
      BY <1>1, <2>3, <3>1, HoldersDiffer DEF Cur
    <3> QED BY <1>2, <1>4, <2>3, <3>2, CompleteShape
  <2>4. ASSUME NEW d \in Executors, NEW j \in 1..MaxCalls,
               IntentRecorded(d, j)
        PROVE  calls'[r][i].status = "absent"
    <3>1. d # e /\ Holds(d)
      BY <2>4 DEF IntentRecorded
    <3>2. Cur(d) # r
      BY <1>1, <3>1, HoldersDiffer DEF Cur
    <3>3. calls'[r][i] = calls[r][i]
      BY <1>2, <2>4, <3>2 DEF IntentRecorded
    <3> QED BY <1>4, <3>3
  <2> QED BY <2>1, <2>2, <2>3, <2>4, CallsStep
<1> QED BY <1>1, <1>5
-----------------------------------------------------------------------------
(* A lease's generation never goes back (acquireLease).                    *)
LEMMA GenerationsGrow ==
  ASSUME TypeInv, RoomForCall, [Next]_vars, NEW r \in Runs
  PROVE  /\ lease[r].gen \in Nat /\ lease'[r].gen \in Nat
         /\ lease[r].gen <= lease'[r].gen
<1>1. lease[r].gen \in Nat
  BY DEF TypeInv, TypeOK
<1>2. CASE KeepLeases
  BY <1>1, <1>2 DEF KeepLeases
<1>3. ASSUME NEW d \in Executors, NEW q \in Runs, BeginTurn(d, q)
      PROVE  lease'[r].gen \in Nat /\ lease[r].gen <= lease'[r].gen
  <2>1. /\ lease'[q].gen = IF lease[q].live THEN lease[q].gen
                                            ELSE lease[q].gen + 1
        /\ \A p \in Runs : p # q => lease'[p] = lease[p]
    BY <1>3, BeginTurnShape DEF TypeInv
  <2> QED BY <1>1, <2>1
<1> QED BY <1>1, <1>2, <1>3, KeepStep

(* What an executor reads in the lease it owns.                            *)
LEMMA OwnLease ==
  ASSUME TypeInv, NEW d \in Executors, Holds(d)
  PROVE  /\ Cur(d) \in Runs
         /\ lease[Cur(d)].holder = d /\ lease[Cur(d)].gen = turn[d].gen
         /\ lease[Cur(d)].live
  BY DEF TypeInv, TurnRuns, At, Holds

(* A running row is never of a generation to come.                         *)
LEMMA CallGenerationsStep ==
  ASSUME TypeInv, RoomForCall, JournalInv, [Next]_vars
  PROVE  CallGenerations'
<1> SUFFICES ASSUME NEW r \in Runs, NEW i \in 1..MaxCalls,
                    calls'[r][i].status = "running"
             PROVE  calls'[r][i].gen <= lease'[r].gen
  BY DEF CallGenerations
<1>1. /\ lease[r].gen \in Nat /\ lease'[r].gen \in Nat
      /\ lease[r].gen <= lease'[r].gen
  BY GenerationsGrow
<1>2. calls[r][i].gen \in Nat
  BY DEF TypeInv, TypeOK, CallRow
<1>3. CASE /\ calls'[r][i].gen = calls[r][i].gen
           /\ calls[r][i].status = "running"
  <2>1. calls[r][i].gen <= lease[r].gen
    BY <1>3 DEF JournalInv, CallGenerations
  <2> QED BY <1>1, <1>2, <1>3, <2>1
<1>4. ASSUME NEW d \in Executors, IntentRecorded(d, i), Cur(d) = r
      PROVE  calls'[r][i].gen <= lease'[r].gen
  <2>1. Holds(d) /\ calls'[r][i].gen = turn[d].gen
    BY <1>4 DEF IntentRecorded
  <2>2. lease[r].gen = turn[d].gen
    BY <1>4, <2>1, OwnLease
  <2> QED BY <1>1, <2>1, <2>2
<1> QED BY <1>3, <1>4, RowStep

(* A row of a live lease's generation was already of that lease before the *)
(* step.                                                                   *)
LEMMA CurrentLeaseIsOld ==
  ASSUME TypeInv, RoomForCall, JournalInv, [Next]_vars,
         NEW r \in Runs, NEW i \in 1..MaxCalls,
         calls'[r][i].status = "running", lease'[r].live,
         calls'[r][i].gen = lease'[r].gen
  PROVE  /\ lease[r].live /\ lease'[r].gen = lease[r].gen
         /\ lease'[r].holder = lease[r].holder
<1>1. CASE KeepLeases
  BY <1>1 DEF KeepLeases
<1>2. ASSUME NEW d \in Executors, NEW q \in Runs, BeginTurn(d, q)
      PROVE  /\ lease[r].live /\ lease'[r].gen = lease[r].gen
             /\ lease'[r].holder = lease[r].holder
  <2>1. /\ lease'[q] = [holder |-> d, gen |-> turn'[d].gen, live |-> TRUE]
        /\ lease'[q].gen = IF lease[q].live THEN lease[q].gen
                                            ELSE lease[q].gen + 1
        /\ \A p \in Runs : p # q => lease'[p] = lease[p]
    BY <1>2, BeginTurnShape DEF TypeInv
  <2>2. CASE q # r
    BY <2>1, <2>2
  <2>3. CASE q = r
    <3>1. calls[r][i].gen <= lease[r].gen /\ calls[r][i].gen = lease'[r].gen
      BY <1>2 DEF BeginTurn, JournalInv, CallGenerations
    <3>2. lease[r].gen \in Nat
      BY DEF TypeInv, TypeOK
    <3>3. lease[r].live
      BY <2>1, <2>3, <3>1, <3>2
    <3>4. lease[r].holder = d
      BY <1>2, <2>3, <3>3 DEF BeginTurn
    <3>5. lease'[r].holder = d
      BY <2>1, <2>3
    <3> QED BY <2>1, <2>3, <3>3, <3>4, <3>5
  <2> QED BY <2>2, <2>3
<1> QED BY <1>1, <1>2, KeepStep

(* A row of the lease's generation is being executed by the lease's holder *)
(* (recordToolIntent, completeToolCall).                                   *)
LEMMA CurrentCallsStep ==
  ASSUME TypeInv, RoomForCall, JournalInv, [Next]_vars
  PROVE  CurrentCalls'
<1> SUFFICES ASSUME NEW r \in Runs, NEW i \in 1..MaxCalls,
                    calls'[r][i].status = "running", lease'[r].live,
                    calls'[r][i].gen = lease'[r].gen
             PROVE  LET h == lease'[r].holder
                    IN  /\ h \in Executors
                        /\ turn'[h].pc = "effect" /\ turn'[h].run = r
                        /\ turn'[h].call = i /\ turn'[h].gen = lease'[r].gen
  BY DEF CurrentCalls, Executing
<1> DEFINE h == lease[r].holder
           g == lease[r].gen
<1>1. lease[r].live /\ lease'[r].gen = g /\ lease'[r].holder = h
  BY CurrentLeaseIsOld
<1>2. CASE /\ calls'[r][i].gen = calls[r][i].gen
           /\ calls[r][i].status = "running"
  <2>1. Executing(h, r, i, g)
    BY <1>1, <1>2 DEF JournalInv, CurrentCalls
  <2>2. CASE SamePlace(h)
    BY <1>1, <2>1, <2>2 DEF Executing, SamePlace
  <2>3. CASE Acts(h)
    <3>1. Holds(h) /\ At(h, "effect") /\ h \in Executors
      <4>1. lease[r] \in [holder : Executors \cup {NoExecutor}, gen : Nat,
                          live : BOOLEAN]
        BY DEF TypeInv, TypeOK
      <4>2. lease[r] = [holder |-> h, gen |-> g, live |-> TRUE]
        BY <1>1, <4>1
      <4> QED BY <2>1, <4>2 DEF Executing, Holds, Cur, At
    <3>2. CompleteCall(h)
      BY <2>3, <3>1, ActingPlace
    <3>3. Cur(h) = r /\ turn[h].call = i
      BY <2>1 DEF Executing, Cur
    <3> HIDE DEF h
    <3>4. calls'[r][i].status = "finished"
      BY <3>1, <3>2, <3>3, CompleteShape
    <3> QED BY <3>4
  <2>4. SamePlace(h) \/ Acts(h)
    BY <2>1, PlaceStep DEF Executing
  <2> QED BY <2>2, <2>3, <2>4
<1>3. ASSUME NEW d \in Executors, RecordIntent(d), IntentRecorded(d, i),
             Cur(d) = r
      PROVE  /\ h = d
             /\ turn'[d].pc = "effect" /\ turn'[d].run = r
             /\ turn'[d].call = i /\ turn'[d].gen = g
  <2>1. Holds(d) /\ turn'[d].pc = "effect" /\ turn'[d].call = i
    BY <1>3 DEF IntentRecorded
  <2>2. h = d /\ g = turn[d].gen
    BY <1>3, <2>1, OwnLease
  <2>3. turn'[d].run = turn[d].run /\ turn'[d].gen = turn[d].gen
    BY <1>3, IntentShape
  <2> QED BY <1>3, <2>1, <2>2, <2>3 DEF Cur
<1> HIDE DEF h, g
<1> QED BY <1>1, <1>2, <1>3, RowStep

(* Once recovered, an owner's Run has no running row of an older           *)
(* generation (recoverClaimedWork).                                        *)
LEMMA NoOlderCallsStep ==
  ASSUME TypeInv, RoomForCall, JournalInv, [Next]_vars
  PROVE  NoOlderCalls'
<1> SUFFICES ASSUME NEW e \in Executors, Holds(e)', turn'[e].pc # "recover",
                    NEW i \in 1..MaxCalls,
                    calls'[turn'[e].run][i].status = "running"
             PROVE  calls'[turn'[e].run][i].gen = turn'[e].gen
  BY DEF NoOlderCalls, At, Cur
<1> DEFINE r == turn[e].run
<1>1. Holds(e) /\ turn'[e].run = r /\ turn'[e].gen = turn[e].gen
  BY HoldsStep
<1>2. r \in Runs /\ lease[r].gen = turn[e].gen /\ turn[e].gen \in Nat
  BY <1>1, OwnLease DEF Cur, TypeInv, TypeOK, TurnRow
<1>3. CASE /\ calls'[r][i].gen = calls[r][i].gen
           /\ calls[r][i].status = "running"
  <2>1. CASE ~At(e, "recover")
    BY <1>1, <1>3, <2>1 DEF JournalInv, NoOlderCalls, Cur
  <2>2. CASE At(e, "recover")
    <3>1. Acts(e)
      BY <2>2, PlaceStep DEF SamePlace, At
    <3>2. turn'[e].pc # "idle"
      BY DEF Holds
    <3>3. RecoverCalls(e)
      BY <2>2, <3>1, <3>2, ActingPlace
    <3>4. calls[r][i].gen <= lease[r].gen /\ calls[r][i].gen \in Nat
      BY <1>2, <1>3 DEF JournalInv, CallGenerations, TypeInv, TypeOK, CallRow
    <3>5. ~(calls[r][i].gen < turn[e].gen)
      BY <1>1, <1>2, <1>3, <3>3, RecoverShape DEF Cur
    <3> QED BY <1>1, <1>2, <1>3, <3>4, <3>5
  <2> QED BY <2>1, <2>2
<1>4. ASSUME NEW d \in Executors, IntentRecorded(d, i), Cur(d) = r
      PROVE  calls'[r][i].gen = turn[e].gen
  <2>1. Holds(d) /\ calls'[r][i].gen = turn[d].gen
    BY <1>2, <1>4 DEF IntentRecorded
  <2>2. d = e
    BY <1>1, <1>4, <2>1, HoldersDiffer DEF Cur
  <2> QED BY <2>1, <2>2
<1> QED BY <1>1, <1>2, <1>3, <1>4, RowStep

(* The journal's part of the invariant.                                    *)
LEMMA JournalStep ==
  ASSUME TypeInv, RoomForCall, JournalInv, [Next]_vars
  PROVE  JournalInv'
  BY CallGenerationsStep, CurrentCallsStep, NoOlderCallsStep DEF JournalInv
-----------------------------------------------------------------------------
(* Whether scopes conflict does not depend on who asks.                    *)
LEMMA ConflictIsMutual ==
  ASSUME NEW s, NEW t, Conflict(s, t)
  PROVE  Conflict(t, s)
  BY DEF Conflict, Overlap

(* acquireResourceLocks, when it grants what the tool asks for.            *)
Granted(d) ==
  LET left == {l \in locks : ~(l.run = Cur(d) /\ l.gen < turn[d].gen)}
  IN  /\ At(d, "lock") /\ Holds(d)
      /\ \A l \in left \ OwnLocks(d), s \in turn[d].tool.scopes :
           ~Conflict(s, l.scope)
      /\ locks' = left \cup Wanted(d)

(* The lock table changes by acquireResourceLocks under the lease, by      *)
(* releaseResourceLocks and by the TTL.                                    *)
LEMMA LocksStep ==
  ASSUME TypeInv, [Next]_vars
  PROVE  \/ UNCHANGED locks
         \/ \E d \in Executors : Granted(d)
         \/ \E d \in Executors : At(d, "release") /\ locks' = locks \ OwnLocks(d)
         \/ \E l \in locks : LockExpires(l)
<1>1. ASSUME NEW d \in Executors, AcquireLocks(d)
      PROVE  UNCHANGED locks \/ Granted(d)
  BY <1>1 DEF AcquireLocks, Granted
<1>2. ASSUME NEW d \in Executors, ReleaseLocks(d)
      PROVE  At(d, "release") /\ locks' = locks \ OwnLocks(d)
  BY <1>2 DEF ReleaseLocks
<1> QED BY <1>1, <1>2
        DEF Next, Tool, User, BeginTurn, RecoverCalls, EndTurn, Crash,
            CallAllowedTool, CallGuardedTool, AwaitApproval, RecordIntent,
            CompleteCall, Pause, Resume, Decide, LeaseLapses, vars, db

(* No other daemon's step takes the locks of an owner at its effect; only  *)
(* the TTL does, and then the owner is late.                               *)
LEMMA LocksKept ==
  ASSUME TypeInv, [Next]_vars, NEW e \in Executors,
         Holds(e), turn[e].pc \in {"intent", "effect"},
         Wanted(e) \subseteq locks, ~turn'[e].late
  PROVE  Wanted(e) \subseteq locks'
<1>0. \A l \in Wanted(e) : l.run = Cur(e) /\ l.holder = e
  BY DEF Wanted
<1>1. ASSUME NEW d \in Executors, Granted(d)
      PROVE  Wanted(e) \subseteq locks'
  <2>1. d # e /\ Holds(d)
    BY <1>1 DEF Granted, At
  <2>2. Cur(e) # Cur(d)
    BY <2>1, HoldersDiffer
  <2> QED BY <1>0, <1>1, <2>2 DEF Granted
<1>2. ASSUME NEW d \in Executors, At(d, "release"),
             locks' = locks \ OwnLocks(d)
      PROVE  Wanted(e) \subseteq locks'
  <2>1. d # e
    BY <1>2 DEF At
  <2> QED BY <1>0, <1>2, <2>1 DEF OwnLocks
<1>3. ASSUME NEW l \in locks, LockExpires(l)
      PROVE  Wanted(e) \subseteq locks'
  <2>1. l \notin Wanted(e)
    BY <1>3, ExpiresShape DEF TypeInv
  <2>2. locks' = locks \ {l}
    BY <1>3 DEF LockExpires
  <2> QED BY <2>1, <2>2
<1> QED BY <1>1, <1>2, <1>3, LocksStep

(* Locks in conflict stay of one owner (acquireResourceLocks).             *)
LEMMA AgreeStep ==
  ASSUME TypeInv, LocksAgree, [Next]_vars
  PROVE  LocksAgree'
<1>1. ASSUME locks' \subseteq locks PROVE LocksAgree'
  BY <1>1 DEF LocksAgree
<1>2. ASSUME NEW d \in Executors, Granted(d) PROVE LocksAgree'
  <2>0. \A l \in Wanted(d) : /\ l.run = Cur(d) /\ l.holder = d
                             /\ l.gen = turn[d].gen
                             /\ l.scope \in turn[d].tool.scopes
    BY DEF Wanted
  <2>1. ASSUME NEW l \in Wanted(d), NEW m \in locks' \ Wanted(d),
               Conflict(l.scope, m.scope)
        PROVE  SameOwner(l, m)
    <3>1. m \in OwnLocks(d)
      BY <1>2, <2>0, <2>1 DEF Granted
    <3> QED BY <2>0, <3>1 DEF OwnLocks, SameOwner
  <2>2. ASSUME NEW l \in locks', NEW m \in locks', Conflict(l.scope, m.scope)
        PROVE  SameOwner(l, m)
    <3>1. CASE l \in Wanted(d) /\ m \in Wanted(d)
      BY <2>0, <3>1 DEF SameOwner
    <3>2. CASE l \in Wanted(d) /\ m \notin Wanted(d)
      BY <2>1, <2>2, <3>2
    <3>3. CASE l \notin Wanted(d) /\ m \in Wanted(d)
      <4>1. Conflict(m.scope, l.scope)
        BY <2>2, ConflictIsMutual
      <4>2. SameOwner(m, l)
        BY <2>1, <2>2, <3>3, <4>1
      <4> QED BY <4>2 DEF SameOwner
    <3>4. CASE l \notin Wanted(d) /\ m \notin Wanted(d)
      BY <1>2, <2>2, <3>4 DEF Granted, LocksAgree
    <3> QED BY <3>1, <3>2, <3>3, <3>4
  <2> QED BY <2>2 DEF LocksAgree, SameOwner
<1> QED BY <1>1, <1>2, LocksStep DEF LockExpires

(* The locks' part of the invariant.                                       *)
LEMMA LockStep ==
  ASSUME TypeInv, RoomForCall, LockInv, [Next]_vars
  PROVE  LockInv'
<1>1. LocksAgree'
  BY AgreeStep DEF LockInv
<1>2. HolderLocks'
  <2> SUFFICES ASSUME NEW e \in Executors, Holds(e)',
                      turn'[e].pc \in {"intent", "effect"}, ~turn'[e].late
               PROVE  Wanted(e)' \subseteq locks'
    BY DEF HolderLocks
  <2>1. /\ Holds(e)
        /\ turn'[e].run = turn[e].run /\ turn'[e].gen = turn[e].gen
    BY HoldsStep
  <2>2. ASSUME turn[e].pc \in {"intent", "effect"}, ~turn[e].late,
               turn'[e].tool = turn[e].tool
        PROVE  Wanted(e)' \subseteq locks'
    <3>1. Wanted(e)' = Wanted(e)
      BY <2>1, <2>2 DEF Wanted, Cur
    <3>2. Wanted(e) \subseteq locks
      BY <2>1, <2>2 DEF LockInv, HolderLocks
    <3> QED BY <2>1, <2>2, <3>1, <3>2, LocksKept
  <2>3. CASE SamePlace(e)
    BY <2>2, <2>3 DEF SamePlace
  <2>4. CASE Acts(e) /\ turn'[e].pc = "intent"
    BY <2>4, ActingPlace
  <2>5. CASE Acts(e) /\ turn'[e].pc = "effect"
    <3>1. RecordIntent(e)
      BY <2>5, ActingPlace
    <3>2. PICK i \in 1..MaxCalls : IntentRecorded(e, i)
      BY <2>5, <3>1, IntentShape DEF IntentRefused
    <3>3. /\ turn[e].pc = "intent" /\ turn'[e].tool = turn[e].tool
          /\ ~turn[e].late
      BY <3>2 DEF IntentRecorded, At
    <3> QED BY <2>2, <3>3
  <2> QED BY <2>3, <2>4, <2>5, PlaceStep
<1> QED BY <1>1, <1>2 DEF LockInv
-----------------------------------------------------------------------------
(* A spent approval stays spent: a new request inserts a row of its own,   *)
(* and only a pending one is decided (requestApproval, resolveApproval).   *)
LEMMA SpentStaysSpent ==
  ASSUME TypeInv, RoomForCall, [Next]_vars,
         NEW r \in Runs, NEW a \in 1..MaxApprovals,
         approvals[r][a] = "consumed"
  PROVE  approvals'[r][a] = "consumed"
<1>0. approvals \in [Runs -> ApprovalRows]
  BY TypeParts DEF TypeInv
<1>1. ASSUME NEW d \in Executors, CallGuardedTool(d)
      PROVE  approvals'[r][a] = "consumed"
  <2> DEFINE q == Cur(d)
             b == First(1..MaxApprovals \ Requested(q))
  <2>1. CASE UNCHANGED approvals
    BY <2>1
  <2>2. CASE /\ Requested(q) # 1..MaxApprovals
             /\ approvals' = [approvals EXCEPT ![q][b] = "pending"]
    <3>1. q \in Runs
      BY <1>1 DEF CallGuardedTool, MayCall, TypeInv, TurnRuns, At
    <3>2. 1..MaxApprovals \ Requested(q) # {}
      BY <2>2 DEF Requested
    <3>3. b \in 1..MaxApprovals \ Requested(q)
      BY <3>2, FirstIsMember, BoundsAssumption
    <3>4. b \in 1..MaxApprovals /\ approvals[q][b] = "absent"
      BY <3>3 DEF Requested
    <3> HIDE DEF q, b
    <3>5. ~(q = r /\ b = a)
      BY <3>4
    <3> QED BY <1>0, <2>2, <3>1, <3>4, <3>5 DEF ApprovalRows
  <2> QED BY <1>1, <2>1, <2>2 DEF CallGuardedTool
<1>2. ASSUME NEW d \in Executors, RecordIntent(d)
      PROVE  approvals'[r][a] = "consumed"
  <2>1. CASE IntentRefused(d)
    BY <2>1 DEF IntentRefused
  <2>2. ASSUME NEW i \in 1..MaxCalls, IntentRecorded(d, i)
        PROVE  approvals'[r][a] = "consumed"
    <3>1. approvals'[r][a] = IF r = Cur(d) /\ a = turn[d].appr
                             THEN "consumed" ELSE approvals[r][a]
      BY <2>2 DEF IntentRecorded
    <3> QED BY <3>1
  <2> QED BY <1>2, <2>1, <2>2, IntentShape
<1>3. ASSUME NEW q \in Runs, NEW b \in 1..MaxApprovals,
             NEW v \in {"approved", "rejected"}, Decide(q, b, v)
      PROVE  approvals'[r][a] = "consumed"
  <2>1. ~(q = r /\ b = a)
    BY <1>3 DEF Decide
  <2>2. approvals' = [approvals EXCEPT ![q][b] = v]
    BY <1>3 DEF Decide
  <2> QED BY <1>0, <2>1, <2>2 DEF ApprovalRows
<1>4. CASE UNCHANGED approvals
  BY <1>4
<1> QED BY <1>1, <1>2, <1>3, <1>4
        DEF Next, Tool, User, BeginTurn, RecoverCalls, EndTurn, Crash,
            CallAllowedTool, AwaitApproval, AcquireLocks, CompleteCall,
            ReleaseLocks, Pause, Resume, LeaseLapses, LockExpires, vars, db

(* The approvals' part of the invariant (recordToolIntent).                *)
LEMMA AuditStep ==
  ASSUME TypeInv, RoomForCall, AuditInv, [Next]_vars
  PROVE  AuditInv'
<1>0. \A r \in Runs, i \in 1..MaxCalls : calls[r][i].appr \in 0..MaxApprovals
  BY DEF TypeInv, TypeOK, CallRow
<1>z. \A a \in 0..MaxApprovals : a # 0 => a \in 1..MaxApprovals
  BY BoundsAssumption
<1>1. ASSUME NEW r \in Runs, NEW i \in 1..MaxCalls, calls[r][i].appr # 0
      PROVE  /\ calls[r][i].appr \in 1..MaxApprovals
             /\ approvals[r][calls[r][i].appr] = "consumed"
             /\ approvals'[r][calls[r][i].appr] = "consumed"
  <2>1. calls[r][i].appr \in 1..MaxApprovals
    BY <1>0, <1>z, <1>1
  <2>2. approvals[r][calls[r][i].appr] = "consumed"
    BY <1>1 DEF AuditInv, ApprovalsConsumed
  <2> QED BY <2>1, <2>2, SpentStaysSpent
<1>2. ApprovalsConsumed'
  <2> SUFFICES ASSUME NEW r \in Runs, NEW i \in 1..MaxCalls,
                      calls'[r][i].appr # 0
               PROVE  approvals'[r][calls'[r][i].appr] = "consumed"
    BY DEF ApprovalsConsumed
  <2>1. CASE calls'[r][i].appr = calls[r][i].appr
    BY <1>1, <2>1
  <2>2. ASSUME NEW d \in Executors, IntentRecorded(d, i), Cur(d) = r
        PROVE  approvals'[r][calls'[r][i].appr] = "consumed"
    <3>1. /\ calls'[r][i].appr = turn[d].appr
          /\ turn[d].appr \in 0..MaxApprovals
      BY <2>2 DEF IntentRecorded
    <3>2. turn[d].appr \in 1..MaxApprovals
      BY <1>z, <3>1
    <3> QED BY <2>2, <3>1, <3>2 DEF IntentRecorded
  <2> QED BY <2>1, <2>2, RowStep
<1>3. ApprovalAuthorizesOnce'
  <2>n. ASSUME NEW r \in Runs, NEW i \in 1..MaxCalls, NEW j \in 1..MaxCalls,
               i # j, calls'[r][i].appr # 0, NEW d \in Executors,
               IntentRecorded(d, i), Cur(d) = r
        PROVE  calls'[r][i].appr # calls'[r][j].appr
    <3>1. /\ calls'[r][i].appr = turn[d].appr
          /\ calls'[r][j] = calls[r][j]
          /\ turn[d].appr = 0 \/ approvals[r][turn[d].appr] = "approved"
      BY <2>n DEF IntentRecorded
    <3>2. approvals[r][turn[d].appr] = "approved"
      BY <2>n, <3>1
    <3>3. CASE calls[r][j].appr = 0
      BY <2>n, <3>1, <3>3
    <3>4. CASE calls[r][j].appr # 0
      <4>1. approvals[r][calls[r][j].appr] = "consumed"
        BY <1>1, <3>4
      <4> QED BY <3>1, <3>2, <4>1
    <3> QED BY <3>3, <3>4
  <2> SUFFICES ASSUME NEW r \in Runs,
                      NEW i \in 1..MaxCalls, NEW j \in 1..MaxCalls,
                      i # j, calls'[r][i].appr # 0
               PROVE  calls'[r][i].appr # calls'[r][j].appr
    BY DEF ApprovalAuthorizesOnce
  <2>1. CASE /\ calls'[r][i].appr = calls[r][i].appr
             /\ calls'[r][j].appr = calls[r][j].appr
    BY <2>1 DEF AuditInv, ApprovalAuthorizesOnce
  <2>2. CASE calls'[r][j].appr = 0
    BY <2>2
  <2>3. CASE /\ calls'[r][j].appr # 0
             /\ \E d \in Executors : IntentRecorded(d, j) /\ Cur(d) = r
    BY <2>3, <2>n
  <2>4. CASE \E d \in Executors : IntentRecorded(d, i) /\ Cur(d) = r
    BY <2>4, <2>n
  <2>5. /\ \/ calls'[r][i].appr = calls[r][i].appr
           \/ \E d \in Executors : IntentRecorded(d, i) /\ Cur(d) = r
        /\ \/ calls'[r][j].appr = calls[r][j].appr
           \/ \E d \in Executors : IntentRecorded(d, j) /\ Cur(d) = r
    BY RowStep
  <2> QED BY <2>1, <2>2, <2>3, <2>4, <2>5
<1> QED BY <1>2, <1>3 DEF AuditInv
-----------------------------------------------------------------------------
JournalIInv == TypeInv /\ RoomForCall /\ JournalInv /\ LockInv /\ AuditInv

(* Before the first turn the tables are empty.                             *)
LEMMA JournalInit == Init => JournalIInv
<1> SUFFICES ASSUME Init PROVE JournalIInv
  OBVIOUS
<1>z. /\ 0 \in 0..MaxApprovals /\ 0 \in 0..MaxCalls /\ 0 \in 0..MaxToolCalls
  BY BoundsAssumption
<1>i. /\ Idle \in TurnRow /\ Idle.pc = "idle"
      /\ NoCall \in CallRow /\ NoCall.status = "absent" /\ NoCall.appr = 0
  BY <1>z, NoToolOK DEF Idle, TurnRow, Pc, NoCall, CallRow
<1>t. /\ turn \in [Executors -> TurnRow]
      /\ \A d \in Executors : turn[d].pc = "idle"
  BY <1>i DEF Init
<1>c. /\ calls \in [Runs -> [1..MaxCalls -> CallRow]]
      /\ \A r \in Runs, i \in 1..MaxCalls :
           calls[r][i].status = "absent" /\ calls[r][i].appr = 0
  BY <1>i DEF Init
<1>1. TypeOK
  <2>1. lease \in Leases
    BY DEF Init, Leases
  <2>2. run \in [Runs -> RunRows]
    BY <1>z DEF Init, RunRows
  <2>3. approvals \in [Runs -> ApprovalRows] /\ locks \subseteq Lock
    BY DEF Init, ApprovalRows
  <2> QED BY <1>t, <1>c, <2>1, <2>2, <2>3, TypeParts
<1>2. TypeInv /\ RoomForCall
  BY <1>1, <1>t DEF TypeInv, TurnRuns, CallNumbers, At, RoomForCall
<1>4. JournalInv
  BY <1>t, <1>c DEF JournalInv, CallGenerations, CurrentCalls, NoOlderCalls,
                    Holds
<1>5. LockInv
  BY <1>t DEF Init, LockInv, HolderLocks, LocksAgree, Holds
<1>6. AuditInv
  BY <1>c DEF AuditInv, ApprovalsConsumed, ApprovalAuthorizesOnce
<1> QED BY <1>2, <1>4, <1>5, <1>6 DEF JournalIInv

(* The whole invariant, kept by every step of every daemon and user.       *)
LEMMA JournalInvariant == Spec => []JournalIInv
<1>1. JournalIInv /\ [Next]_vars => JournalIInv'
  BY TypeStep, RoomStep, JournalStep, LockStep, AuditStep
     DEF JournalIInv
<1> QED BY <1>1, JournalInit, PTL DEF Spec

(* The rows of the leases, the approvals, the locks and the journal stay   *)
(* of their types, and a Run's counted tool calls within its ceiling.      *)
THEOREM JournalTypeCorrect == Spec => []TypeOK
<1>1. JournalIInv => TypeOK
  BY DEF JournalIInv, TypeInv
<1> QED BY <1>1, JournalInvariant, PTL

(* An approval authorizes one tool call at most, whichever daemon calls it *)
(* and however often the turn is taken over (authorizeTool,                *)
(* recordToolIntent).                                                      *)
THEOREM ApprovalIsUsedOnce == Spec => []ApprovalAuthorizesOnce
<1>1. JournalIInv => ApprovalAuthorizesOnce
  BY DEF JournalIInv, AuditInv
<1> QED BY <1>1, JournalInvariant, PTL

(* Two tools whose scopes conflict are never both at their effect under    *)
(* leases that hold, unless one has outlasted its locks: each owner has    *)
(* its locks until then, and locks in conflict are of one owner            *)
(* (acquireResourceLocks, releaseResourceLocks).                           *)
THEOREM OwnersExclude == Spec => []EffectsExclude
<1>1. JournalIInv => EffectsExclude
  <2> SUFFICES ASSUME JournalIInv,
                      NEW d \in Executors, NEW e \in Executors, d # e,
                      At(d, "effect"), At(e, "effect"), Holds(d), Holds(e),
                      NEW s \in turn[d].tool.scopes,
                      NEW t \in turn[e].tool.scopes, Conflict(s, t),
                      ~turn[d].late, ~turn[e].late
               PROVE  FALSE
    BY DEF EffectsExclude
  <2> DEFINE l == [run |-> Cur(d), holder |-> d, gen |-> turn[d].gen,
                   scope |-> s]
             m == [run |-> Cur(e), holder |-> e, gen |-> turn[e].gen,
                   scope |-> t]
  <2>1. l \in Wanted(d) /\ m \in Wanted(e)
    BY DEF Wanted
  <2>2. l \in locks /\ m \in locks
    BY <2>1 DEF JournalIInv, LockInv, HolderLocks, At
  <2>3. /\ l.scope = s /\ m.scope = t /\ l.holder = d /\ m.holder = e
    OBVIOUS
  <2> HIDE DEF l, m
  <2> QED BY <2>2, <2>3 DEF JournalIInv, LockInv, LocksAgree, SameOwner
<1> QED BY <1>1, JournalInvariant, PTL

(* A call that is running in the journal of a Run that is owned and        *)
(* recovered is the one its owner is executing (recoverClaimedWork,        *)
(* recordToolIntent, completeToolCall).                                    *)
THEOREM JournalIsTrue == Spec => []RunningCallIsExecuted
<1>1. JournalIInv => RunningCallIsExecuted
  <2> SUFFICES ASSUME JournalIInv, NEW d \in Executors, Holds(d),
                      ~At(d, "recover"), NEW i \in 1..MaxCalls,
                      calls[Cur(d)][i].status = "running"
               PROVE  turn[d].pc = "effect" /\ turn[d].call = i
    BY DEF RunningCallIsExecuted
  <2>1. /\ Cur(d) \in Runs /\ lease[Cur(d)].holder = d
        /\ lease[Cur(d)].gen = turn[d].gen /\ lease[Cur(d)].live
    BY OwnLease DEF JournalIInv
  <2>2. calls[Cur(d)][i].gen = turn[d].gen
    BY DEF JournalIInv, JournalInv, NoOlderCalls
  <2>3. Executing(d, Cur(d), i, turn[d].gen)
    BY <2>1, <2>2 DEF JournalIInv, JournalInv, CurrentCalls
  <2> QED BY <2>3 DEF Executing
<1> QED BY <1>1, JournalInvariant, PTL
==============================================================================
