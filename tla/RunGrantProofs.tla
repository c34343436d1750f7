--------------------------- MODULE RunGrantProofs ---------------------------
(***************************************************************************)
(* The scheduler and the store implement the abstract grant of RunGrant,   *)
(* for any number of daemons, Runs, approvals and commands.  A step of the *)
(* scheduler is followed row by row: what happens to one Run's row is a    *)
(* move of that Run in RunGrant, and a step of RunGrant is a move of any   *)
(* number of Runs.                                                         *)
(***************************************************************************)
EXTENDS RunGrantRefinement, RunSchedulerProofs

(* The owner of a Run in the refinement mapping. *)
Owner(row) == IF row.live THEN row.holder ELSE Nobody

(* One Run's move, on the two rows. *)
SameGrantRow(row, new) == new.gen = row.gen /\ Owner(new) = Owner(row)
SameWorkRow(row, new)  == new.act = row.act /\ new.epoch = row.epoch

(* The lease moves and the work stays: a new epoch, a lapse, an owner that *)
(* ended.                                                                  *)
LeaseMove(row, new) ==
  /\ SameWorkRow(row, new)
  /\ \/ /\ Owner(row) = Nobody /\ new.gen = row.gen + 1
        /\ Owner(new) \in Executors
     \/ Owner(new) = Nobody /\ new.gen = row.gen
     \/ /\ Owner(row) \in Executors /\ Owner(new) = Gone
        /\ new.gen = row.gen

(* The work moves and the lease stays: published by anyone; claimed,       *)
(* recovered or settled by the owner, the last two under the epoch rule.   *)
WorkMove(row, new) ==
  /\ SameGrantRow(row, new)
  /\ \/ row.act = "none" /\ new.act = "pending" /\ new.epoch = row.epoch
     \/ /\ Owner(row) \in Executors /\ row.act = "pending"
        /\ new.act = "claimed" /\ new.epoch = row.gen
     \/ /\ Owner(row) \in Executors /\ row.act = "claimed"
        /\ row.epoch < row.gen
        /\ new.act = "pending" /\ new.epoch = 0
     \/ /\ Owner(row) \in Executors /\ row.act = "claimed"
        /\ row.epoch = row.gen
        /\ new.act \in {"none", "pending"} /\ new.epoch = 0

RowMove(row, new) ==
  \/ SameGrantRow(row, new) /\ SameWorkRow(row, new)
  \/ LeaseMove(row, new)
  \/ WorkMove(row, new)

RowsMove == \A r \in Runs : RowMove(db[r], db'[r])

(* Rows that move as above are a step of the abstract grant under the      *)
(* refinement mapping.                                                     *)
LEMMA RowsMoveIsGrantStep == RowsMove => Grant!Next
<1> SUFFICES ASSUME RowsMove, NEW r \in Runs
             PROVE  \/ Grant!SameGrant(r) /\ Grant!SameWork(r)
                    \/ Grant!Take(r) \/ Grant!Lapse(r) \/ Grant!Abandon(r)
                    \/ Grant!Publish(r) \/ Grant!Claim(r)
                    \/ Grant!Recover(r) \/ Grant!Settle(r)
  BY DEF Grant!Next
<1>1. RowMove(db[r], db'[r])
  BY DEF RowsMove
<1>2. CASE SameGrantRow(db[r], db'[r]) /\ SameWorkRow(db[r], db'[r])
  BY <1>2 DEF SameGrantRow, SameWorkRow, Owner, Grant!SameGrant,
              Grant!SameWork
<1>3. CASE LeaseMove(db[r], db'[r])
  BY <1>3 DEF LeaseMove, SameWorkRow, Owner, Grant!SameWork, Grant!Take,
              Grant!Lapse, Grant!Abandon
<1>4. CASE WorkMove(db[r], db'[r])
  BY <1>4 DEF WorkMove, SameGrantRow, Owner, Grant!SameGrant,
              Grant!Publish, Grant!Claim, Grant!Recover, Grant!Settle
<1> QED BY <1>1, <1>2, <1>3, <1>4 DEF RowMove

(* A row that stays as it is moves by stuttering.                          *)
LEMMA NoMove ==
  ASSUME NEW row
  PROVE  RowMove(row, row)
  BY DEF RowMove, SameGrantRow, SameWorkRow

(* A transaction that leaves the lease, the claim and a pending            *)
(* continuation alone publishes work at most.                              *)
LEMMA SameClaimMove ==
  ASSUME NEW row \in Row, NEW new \in Row, SameClaim(row, new)
  PROVE  RowMove(row, new)
<1>1. SameGrantRow(row, new) /\ new.epoch = row.epoch
  BY DEF SameClaim, SameGrantRow, Owner
<1>2. new.act = row.act \/ (row.act = "none" /\ new.act = "pending")
  BY DEF SameClaim, Row, ActionStatus
<1> QED BY <1>1, <1>2 DEF RowMove, SameWorkRow, WorkMove

(* What a write to one row, no write at all, or a transaction on one row   *)
(* that leaves its claim alone means for all rows.                         *)
LEMMA WriteMoves ==
  ASSUME DbOK, NEW r \in Runs, NEW row, RowMove(db[r], row), Write(r, row)
  PROVE  RowsMove
  BY NoMove DEF DbOK, Write, RowsMove

(* No write, no move.                                                      *)
LEMMA UnchangedMoves == UNCHANGED db => RowsMove
  BY NoMove DEF RowsMove

(* A write that leaves the claim alone.                                    *)
LEMMA QuietWriteMoves ==
  ASSUME DbOK, NEW r \in Runs, NEW row \in Row, SameClaim(db[r], row),
         Write(r, row)
  PROVE  RowsMove
<1>1. db[r] \in Row
  BY DEF DbOK
<1> QED BY <1>1, SameClaimMove, WriteMoves

(* settleContinuation by the lease's owner: the work claimed under the     *)
(* owner's epoch is finished, and any other claim is left alone.           *)
LEMMA SettleMove ==
  ASSUME NEW row \in Row, NEW d \in Executors, NEW g \in Nat,
         NEW requeue \in BOOLEAN, LeaseHeld(row, d, g)
  PROVE  RowMove(row, SettleContinuation(row, d, g, requeue))
<1> DEFINE mine == row.act = "claimed" /\ row.by = d /\ row.epoch = g
           new == SettleContinuation(row, d, g, requeue)
<1>0. Owner(row) = d /\ row.gen = g /\ row.live
  BY DEF LeaseHeld, Owner
<1>1. CASE mine
  <2> DEFINE released == Unclaimed(row, "none")
  <2>1. /\ released \in Row /\ released.act = "none" /\ released.epoch = 0
        /\ released.holder = row.holder /\ released.gen = row.gen
        /\ released.live = row.live
    BY DEF Unclaimed, Row, ActionStatus
  <2>2. new = IF requeue THEN EnsureContinuation(released) ELSE released
    BY <1>1 DEF SettleContinuation
  <2> HIDE DEF released, new
  <2>3. /\ new \in Row /\ new.epoch = 0
        /\ new.holder = row.holder /\ new.gen = row.gen /\ new.live = row.live
        /\ new.act # "claimed"
    BY <2>1, <2>2, EnsureContinuationRow DEF SameClaim
  <2>4. new.act \in {"none", "pending"}
    BY <2>3 DEF Row, ActionStatus
  <2>5. SameGrantRow(row, new)
    BY <2>3 DEF SameGrantRow, Owner
  <2> QED BY <1>0, <1>1, <2>3, <2>4, <2>5 DEF RowMove, WorkMove, new
<1>2. CASE ~mine
  <2>1. new = row \/ new = EnsureContinuation(row)
    BY <1>2 DEF SettleContinuation
  <2> HIDE DEF new
  <2> QED BY <2>1, NoMove, EnsureContinuationRow, SameClaimMove DEF new
<1> QED BY <1>1, <1>2

(* acquireLease that is not refused: the owner keeps its epoch, or a new   *)
(* one begins where nobody had the Run.                                    *)
LEMMA AcquireMove ==
  ASSUME NEW row \in Row, NEW d \in Executors, ~LeasedByOther(row, d)
  PROVE  RowMove(row, AcquireLease(row, d))
<1> DEFINE new == AcquireLease(row, d)
<1>1. /\ new.act = row.act /\ new.epoch = row.epoch
      /\ new.holder = d /\ new.live = TRUE
      /\ new.gen = IF row.holder = d /\ row.live
                   THEN row.gen ELSE row.gen + 1
  BY DEF AcquireLease, Row
<1>2. CASE row.live
  <2>1. row.holder = d
    BY <1>2 DEF LeasedByOther
  <2> HIDE DEF new
  <2> QED BY <1>1, <1>2, <2>1
          DEF RowMove, SameGrantRow, SameWorkRow, Owner, new
<1>3. CASE ~row.live
  <2>1. Owner(row) = Nobody
    BY <1>3 DEF Owner
  <2>2. Owner(new) = d /\ new.gen = row.gen + 1 /\ SameWorkRow(row, new)
    BY <1>1, <1>3 DEF Owner, SameWorkRow
  <2> HIDE DEF new
  <2> QED BY <2>1, <2>2 DEF RowMove, LeaseMove, new
<1> QED BY <1>2, <1>3

(* recoverClaimedWork and claimContinuation, both under the lease.         *)
LEMMA RecoverAndClaimMove ==
  ASSUME NEW row \in Row, NEW d \in Executors, NEW g \in Nat,
         LeaseHeld(row, d, g)
  PROVE  /\ RowMove(row, RecoverClaimedWork(row, g))
         /\ Claimable(row) => RowMove(row, ClaimContinuation(row, d, g))
<1>1. Owner(row) = d /\ row.gen = g
  BY DEF LeaseHeld, Owner
<1>2. RowMove(row, RecoverClaimedWork(row, g))
  <2>1. CASE row.act = "claimed" /\ row.epoch < g
    <3> DEFINE new == Unclaimed(row, "pending")
    <3>1. /\ new.holder = row.holder /\ new.gen = row.gen
          /\ new.live = row.live /\ new.act = "pending" /\ new.epoch = 0
      BY DEF Unclaimed, Row
    <3>2. RecoverClaimedWork(row, g) = new
      BY <2>1 DEF RecoverClaimedWork
    <3> HIDE DEF new
    <3>3. SameGrantRow(row, new)
      BY <3>1 DEF SameGrantRow, Owner
    <3> QED BY <1>1, <2>1, <3>1, <3>2, <3>3 DEF RowMove, WorkMove
  <2>2. CASE ~(row.act = "claimed" /\ row.epoch < g)
    BY <2>2, NoMove DEF RecoverClaimedWork
  <2> QED BY <2>1, <2>2
<1>3. Claimable(row) => RowMove(row, ClaimContinuation(row, d, g))
  <2> DEFINE new == ClaimContinuation(row, d, g)
  <2>1. /\ new.holder = row.holder /\ new.gen = row.gen
        /\ new.live = row.live /\ new.act = "claimed" /\ new.epoch = g
    BY DEF ClaimContinuation, Row
  <2> HIDE DEF new
  <2>2. SameGrantRow(row, new)
    BY <2>1 DEF SameGrantRow, Owner
  <2>3. Claimable(row) => RowMove(row, new)
    BY <1>1, <2>1, <2>2 DEF RowMove, WorkMove, Claimable
  <2> QED BY <2>3 DEF new
<1> QED BY <1>2, <1>3

(* A process that ends abandons the Runs it owns.                          *)
LEMMA ProcessEndsMoves ==
  ASSUME DbOK, NEW d \in Executors, ProcessEnds(d)
  PROVE  RowsMove
<1> SUFFICES ASSUME NEW r \in Runs PROVE RowMove(db[r], db'[r])
  BY DEF RowsMove
<1>1. /\ db'[r].gen = db[r].gen /\ db'[r].epoch = db[r].epoch
      /\ db'[r].act = db[r].act /\ db'[r].live = db[r].live
      /\ db'[r].holder = IF db[r].holder = d THEN Gone ELSE db[r].holder
  BY DEF ProcessEnds, DbOK, Row
<1>2. SameWorkRow(db[r], db'[r])
  BY <1>1 DEF SameWorkRow
<1>3. CASE db[r].live /\ db[r].holder = d
  BY <1>1, <1>2, <1>3 DEF RowMove, LeaseMove, Owner
<1>4. CASE ~(db[r].live /\ db[r].holder = d)
  BY <1>1, <1>2, <1>4 DEF RowMove, SameGrantRow, Owner
<1> QED BY <1>3, <1>4

(* Every step of the scheduler, of a turn, of a user, of the clock and of  *)
(* a failing process moves every row as the abstract grant allows.         *)
LEMMA EveryStepMovesRows == TypeInv /\ [Next]_vars => RowsMove
<1> SUFFICES ASSUME DbOK, MemOK, [Next]_vars
             PROVE  RowsMove
  BY DEF TypeInv
<1>q. \A q \in Requests : /\ q.run \in Runs
                          /\ q.kind \in {"pause", "resume", "cancel"}
  BY RequestsAssumption
<1>r. \A r \in Runs : db[r] \in Row
  BY DEF DbOK
<1>c. \A d \in Executors :
        /\ mem[d].gen \in Nat /\ mem[d].requeue \in BOOLEAN
        /\ mem[d].pc \notin {"idle", "list", "next"}
             => mem[d].cur \in Runs /\ db[mem[d].cur] \in Row
  BY DEF MemOK, DbOK, Mem, InTickRun
<1>1. ASSUME NEW d \in Executors, TickWake(d) PROVE RowsMove
  <2>1. \A r \in Runs : db'[r] = WakeDueRun(db[r])
    BY <1>1 DEF TickWake
  <2> QED BY <1>r, <2>1, WakeDueRunRow, SameClaimMove DEF RowsMove
<1>2. ASSUME NEW d \in Executors, NEW r \in Runs, TickQueuedRun(d, r)
      PROVE  RowsMove
  BY <1>2, <1>r, StartRunningRow, QuietWriteMoves, UnchangedMoves
     DEF TickQueuedRun
<1>3. ASSUME NEW d \in Executors, TickAcquire(d) PROVE RowsMove
  BY <1>3, <1>c, AcquireMove, WriteMoves, UnchangedMoves
     DEF TickAcquire, At, Current
<1>4. ASSUME NEW d \in Executors, TickRecover(d) PROVE RowsMove
  BY <1>4, <1>c, RecoverAndClaimMove, WriteMoves, UnchangedMoves
     DEF TickRecover, At, Current, Holds
<1>5. ASSUME NEW d \in Executors, TickClaim(d) PROVE RowsMove
  BY <1>5, <1>c, RecoverAndClaimMove, WriteMoves, UnchangedMoves
     DEF TickClaim, At, Current, Holds
<1>6. ASSUME NEW d \in Executors, TickUnclaim(d) PROVE RowsMove
  <2> DEFINE row == SettleContinuation(Current(d), d, mem[d].gen, TRUE)
  <2>1. mem[d].cur \in Runs /\ Current(d) \in Row
    BY <1>6, <1>c DEF TickUnclaim, At, Current
  <2>2. Holds(d) => RowMove(Current(d), row)
    BY <2>1, <1>c, SettleMove DEF Holds
  <2>3. (Holds(d) /\ Write(mem[d].cur, row)) \/ UNCHANGED db
    BY <1>6 DEF TickUnclaim
  <2> HIDE DEF row
  <2> QED BY <2>1, <2>2, <2>3, WriteMoves, UnchangedMoves DEF Current
<1>7. ASSUME NEW d \in Executors, Settle(d) PROVE RowsMove
  <2> DEFINE row == SettleContinuation(Current(d), d, mem[d].gen, mem[d].requeue)
  <2>1. mem[d].cur \in Runs /\ Current(d) \in Row
    BY <1>7, <1>c DEF Settle, At, Current
  <2>2. Holds(d) => RowMove(Current(d), row)
    BY <2>1, <1>c, SettleMove DEF Holds
  <2>3. (Holds(d) /\ Write(mem[d].cur, row)) \/ UNCHANGED db
    BY <1>7 DEF Settle
  <2> HIDE DEF row
  <2> QED BY <2>1, <2>2, <2>3, WriteMoves, UnchangedMoves DEF Current
<1>8. ASSUME NEW d \in Executors, ThrowSettle(d) PROVE RowsMove
  <2> DEFINE row == SettleContinuation(Current(d), d, mem[d].gen, TRUE)
  <2>1. mem[d].cur \in Runs /\ Current(d) \in Row
    BY <1>8, <1>c DEF ThrowSettle, At, Current
  <2>2. Holds(d) => RowMove(Current(d), row)
    BY <2>1, <1>c, SettleMove DEF Holds
  <2>3. (Holds(d) /\ Write(mem[d].cur, row)) \/ UNCHANGED db
    BY <1>8 DEF ThrowSettle
  <2> HIDE DEF row
  <2> QED BY <2>1, <2>2, <2>3, WriteMoves, UnchangedMoves DEF Current
<1>9. ASSUME NEW d \in Executors, TurnExhaustsBudget(d) PROVE RowsMove
  BY <1>9, <1>c, ExhaustBudgetRow, QuietWriteMoves
     DEF TurnExhaustsBudget, Turn, At, Current
<1>10. ASSUME NEW d \in Executors, TurnCompletes(d) PROVE RowsMove
  BY <1>10, <1>c, SetStatusRow, RunStatusNames, QuietWriteMoves
     DEF TurnCompletes, Reasons, At, Current
<1>11. ASSUME NEW d \in Executors, TurnRetriesLater(d) PROVE RowsMove
  BY <1>11, <1>c, ScheduleWakeRow, QuietWriteMoves
     DEF TurnRetriesLater, Turn, At, Current
<1>12. ASSUME NEW d \in Executors, TurnRecordsProblem(d) PROVE RowsMove
  BY <1>12, <1>c, RecordProblemRow, QuietWriteMoves
     DEF TurnRecordsProblem, At, Current
<1>13. ASSUME NEW d \in Executors, TurnParks(d) PROVE RowsMove
  BY <1>13, <1>c, SetStatusRow, RunStatusNames, UnchangedMoves, QuietWriteMoves
     DEF TurnParks, ParkOrThrow, Reasons, At, Current
<1>14. ASSUME NEW d \in Executors, TurnAwaitsApproval(d) PROVE RowsMove
  BY <1>14, <1>c, SetStatusRow, RunStatusNames, UnchangedMoves, QuietWriteMoves
     DEF TurnAwaitsApproval, ParkOrThrow, Reasons, At, Current
<1>15. ASSUME NEW d \in Executors, NEW a \in Approvals,
             TurnNeedsApproval(d, a)
      PROVE  RowsMove
  BY <1>15, <1>c, RequestApprovalRow, QuietWriteMoves
     DEF TurnNeedsApproval, Turn, At, Current
<1>16. ASSUME NEW d \in Executors, NEW r \in Runs, PostRun(d, r)
      PROVE  RowsMove
  BY <1>16, <1>r, CreateRunRow, QuietWriteMoves DEF PostRun
<1>17. ASSUME NEW d \in Executors, NEW q \in Requests, PostCommand(d, q)
      PROVE  RowsMove
  BY <1>17, <1>r, <1>q, ExecuteCommandRow, QuietWriteMoves, UnchangedMoves
     DEF PostCommand
<1>18. ASSUME NEW d \in Executors, NEW r \in Runs, NEW a \in Approvals,
             PostApproval(d, r, a)
      PROVE  RowsMove
  BY <1>18, <1>r, ResolveApprovalRow, QuietWriteMoves DEF PostApproval
<1>19. ASSUME NEW d \in Executors, Crash(d) \/ Exit(d) PROVE RowsMove
  BY <1>19, ProcessEndsMoves DEF Crash, Exit
<1>20. ASSUME NEW r \in Runs, TimerDue(r) PROVE RowsMove
  <2> DEFINE row == [db[r] EXCEPT !.timers = @ - 1, !.due = TRUE]
  <2>1. db[r].timers - 1 \in Nat
    BY <1>20, <1>r DEF TimerDue, Row
  <2>2. row \in Row /\ SameClaim(db[r], row)
    BY <2>1, <1>r DEF Row, SameClaim
  <2>3. Write(r, row)
    BY <1>20 DEF TimerDue
  <2> HIDE DEF row
  <2> QED BY <2>2, <2>3, QuietWriteMoves
<1>21. ASSUME NEW r \in Runs, LeaseExpires(r) PROVE RowsMove
  <2> DEFINE row == [db[r] EXCEPT !.live = FALSE]
  <2>1. /\ row.gen = db[r].gen /\ row.act = db[r].act
        /\ row.epoch = db[r].epoch /\ row.live = FALSE
    BY <1>r DEF Row
  <2>2. Write(r, row)
    BY <1>21 DEF LeaseExpires
  <2> HIDE DEF row
  <2>3. RowMove(db[r], row)
    BY <2>1 DEF RowMove, LeaseMove, SameWorkRow, Owner
  <2> QED BY <2>2, <2>3, WriteMoves
<1>22. ASSUME NEW d \in Executors,
             \/ TickList(d) \/ TickEnd(d) \/ TickCheck(d) \/ TurnFenced(d)
             \/ TurnContinues(d) \/ TurnAborts(d) \/ TurnFails(d)
             \/ TurnReadsStatus(d) \/ TurnReadsApproval(d) \/ TurnThrows(d)
             \/ StoreBusy(d) \/ Stop(d)
             \/ \E r \in Runs : TickRunningRun(d, r)
      PROVE  RowsMove
  BY <1>22, UnchangedMoves
     DEF TickList, TickEnd, TickCheck, TurnFenced, TurnContinues, TurnAborts,
         TurnFails, TurnReadsStatus, TurnReadsApproval, TurnThrows, StoreBusy,
         Stop, TickRunningRun
<1>23. CASE UNCHANGED vars
  BY <1>23, UnchangedMoves DEF vars
<1> QED
  BY <1>1, <1>2, <1>3, <1>4, <1>5, <1>6, <1>7, <1>8, <1>9, <1>10, <1>11,
     <1>12, <1>13, <1>14, <1>15, <1>16, <1>17, <1>18, <1>19, <1>20,
     <1>21, <1>22, <1>23
     DEF Next, Scheduler, Executor, User, Fault, Clock

(* No epoch is granted and there is no work before the first Run.          *)
LEMMA GrantInit == Init => Grant!Init
  BY DEF Init, Grant!Init, NoRun

(* Whatever the daemons, users, clocks and crashes do, the lease and the   *)
(* continuation of every Run behave as the abstract grant: a Run's work is *)
(* claimed, recovered and settled only under the epoch that is granted,    *)
(* and an epoch is granted once (acquireLease, claimContinuation,          *)
(* recoverClaimedWork and settleContinuation in store.ts, as tickRun in    *)
(* scheduler.ts calls them).                                               *)
THEOREM SchedulerImplementsGrant == Spec => ImplementsGrant
<1>1. TypeInv /\ [Next]_vars => [Grant!Next]_(Grant!grantVars)
  BY EveryStepMovesRows, RowsMoveIsGrantStep
<1> QED BY <1>1, GrantInit, TypeInit, TypeStep, PTL
        DEF Spec, ImplementsGrant, Grant!Spec
=============================================================================
