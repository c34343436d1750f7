----------------------------- MODULE HostProofs -----------------------------
(***************************************************************************)
(* Theorems about what outlives a turn: CheckpointService.restore and its  *)
(* rollback, the command line that stops a daemon, and the milestone       *)
(* checkpoints.  The three components share no state; each has its own     *)
(* specification and its own inductive invariant.  The last section puts   *)
(* them beside the completion gate of CompletionGateProofs, as MCHost does. *)
(***************************************************************************)
EXTENDS MCHost, CompletionGateProofs, TLAPS

-----------------------------------------------------------------------------
(* CheckpointService.  The outcome speaks of the workspace, the Run state   *)
(* and the runtime, which the phases before it have set: PhaseInv says what *)
(* each phase may rely on, RollbackInv that the report is never better than *)
(* what the rollback has achieved.                                          *)

WantedState == IF "restore" \in hooks THEN "checkpoint" ELSE "before"
Rollback == {"dispose", "undoWork", "undoState", "report"}

PhaseInv ==
  /\ svc # "idle" => outcome = "none"
  /\ svc \in {"prepare", "snapshot", "apply"} =>
       checkout = "before" /\ state = "before" /\ runtime = "none"
  /\ svc = "runState" =>
       checkout = "checkpoint" /\ state = "before" /\ runtime = "none"
  /\ svc = "resume" =>
       checkout = "checkpoint" /\ state = WantedState /\ runtime = "none"
  /\ svc = "validate" =>
       /\ checkout = "checkpoint" /\ state = WantedState
       /\ runtime \in {"none", "live"}

RollbackInv ==
  svc \in Rollback =>
    /\ report.state => state = "before"
    /\ report.runtime <=> runtime # "live"
    /\ svc \in {"undoState", "report"} /\ report.workspace => checkout = "before"

SvcInv ==
  /\ SvcTypeOK /\ leaked =< calls
  /\ PhaseInv /\ RollbackInv /\ OutcomeIsTrue

(* restore starts from nothing done and nothing reported. *)
LEMMA SvcStarts == SvcInit => SvcInv
  BY ServiceAssumption
  DEF SvcInit, SvcInv, SvcTypeOK, PhaseInv, RollbackInv, OutcomeIsTrue,
      NoReport, Held, HookNames, Rollback

(* What a failed phase leaves to the rollback: the Run state counts as      *)
(* put back unless its restore was attempted, the runtime if none runs.     *)
LEMMA FailReports ==
  ASSUME NEW attempted \in BOOLEAN, Fail(attempted)
  PROVE  /\ svc' = "dispose"
         /\ report' \in [workspace : BOOLEAN, state : BOOLEAN, runtime : BOOLEAN]
         /\ report'.state <=> ~attempted
         /\ report'.runtime <=> runtime = "none"
<1>1. (runtime = "none") \in BOOLEAN /\ (~attempted) \in BOOLEAN
  OBVIOUS
<1> QED
  BY <1>1, Zenon DEF Fail

(* Every step of restore, of its rollback and of create keeps SvcInv. *)
LEMMA SvcStep == SvcInv /\ [SvcNext]_svcVars => SvcInv'
<1> SUFFICES ASSUME SvcInv, [SvcNext]_svcVars PROVE SvcInv'
    OBVIOUS
<1> USE ServiceAssumption
    DEF SvcInv, SvcTypeOK, PhaseInv, RollbackInv, OutcomeIsTrue, NoReport,
        Held, HookNames, Rollback, WantedState
<1>1. CASE CreateCheckpoint
  BY <1>1 DEF CreateCheckpoint
<1>2. ASSUME NEW given \in SUBSET HookNames, Restore(given) PROVE SvcInv'
  BY <1>2 DEF Restore
<1>3. CASE PreparationFails
  BY <1>3 DEF PreparationFails, Return
<1>4. CASE Prepare \/ Snapshot
  BY <1>4 DEF Prepare, Snapshot
<1>5. CASE ApplyWorkspace
  BY <1>5, FailReports DEF ApplyWorkspace
<1>6. CASE RestoreRunState
  BY <1>6, FailReports DEF RestoreRunState
<1> DEFINE FailedLate ==
      /\ svc' = "dispose"
      /\ report' \in [workspace : BOOLEAN, state : BOOLEAN, runtime : BOOLEAN]
      /\ report'.state <=> "restore" \notin hooks
      /\ report'.runtime <=> runtime = "none"
<1>0. ("restore" \in hooks) \in BOOLEAN
  OBVIOUS
<1>a. Fail("restore" \in hooks) => FailedLate
  BY <1>0, FailReports, Zenon
<1>7. CASE CreateRuntime
  BY <1>7, <1>a DEF CreateRuntime
<1>8. CASE ValidateRestored
  BY <1>8 DEF ValidateRestored, Return
<1>9. CASE ValidationFails
  BY <1>9, <1>a DEF ValidationFails
<1>10. CASE DisposeRuntime
  BY <1>10 DEF DisposeRuntime
<1>11. CASE UndoWorkspace
  BY <1>11 DEF UndoWorkspace
<1>12. CASE UndoRunState
  BY <1>12 DEF UndoRunState
<1>13. CASE ReportRollback
  BY <1>13 DEF ReportRollback, Return
<1>14. CASE UNCHANGED svcVars
  BY <1>14 DEF svcVars
<1> QED
  BY <1>1, <1>2, <1>3, <1>4, <1>5, <1>6, <1>7, <1>8, <1>9, <1>10, <1>11,
     <1>12, <1>13, <1>14 DEF SvcNext

(* The outcome restore returns is true of the workspace, of the Run state   *)
(* and of the runtime, whichever hooks the caller supplied, whichever phase *)
(* failed and however far the rollback got.                                 *)
THEOREM RestoreTellsTheTruth == SvcSpec => []OutcomeIsTrue
<1>1. SvcInv => OutcomeIsTrue
  BY DEF SvcInv
<1> QED
  BY <1>1, SvcStarts, SvcStep, PTL DEF SvcSpec
-----------------------------------------------------------------------------
(* DaemonControl.  "~Alive" is all that stopDaemon sees of a process that   *)
(* ended; it says so only of a process that once lived.  Hence BornInv: a   *)
(* pid in the descriptor, in a command's copy of it or in a command's child *)
(* was spawned.  A process that has ended never lives again as a daemon.    *)

Phases == {"unborn", "booting", "serving", "draining", "closed", "dead",
           "stranger"}
Ended == {"dead", "stranger"}
OnPort == {"serving", "draining"}
MaybePid == 0 .. MaxSpawns
Descriptors == [pid : MaybePid, inst : MaybePid, present : BOOLEAN]
Steps == {"idle", "probe", "adopt", "spawn", "wait", "identify", "write",
          "stop", "verify", "ask", "await", "kill", "linger", "forget"}
CliRows == [pc : Steps, restart : BOOLEAN, child : MaybePid, inst : MaybePid,
            desc : Descriptors]

DaemonTypes ==
  /\ proc \in [Pids -> Phases]
  /\ descriptor \in Descriptors
  /\ cli \in [Clis -> CliRows]

OnePort == \A p, q \in Pids : proc[p] \in OnPort /\ proc[q] \in OnPort => p = q

Born(p) == p # 0 => proc[p] # "unborn"
BornInv ==
  /\ Born(descriptor.pid)
  /\ \A c \in Clis : Born(cli[c].child) /\ Born(cli[c].desc.pid)

(* What a stop relies on when it drops the descriptor. *)
TargetHasEnded ==
  \A c \in Clis :
    cli[c].pc = "forget" /\ cli[c].desc.pid # 0 => proc[cli[c].desc.pid] \in Ended

DaemonInv == DaemonTypes /\ OnePort /\ BornInv /\ TargetHasEnded

(* Pids are the positive numbers a descriptor may hold. *)
LEMMA PidOrNone == \A p : p \in Pids <=> p \in MaybePid /\ p # 0
  BY DaemonAssumption DEF Pids, MaybePid

(* How a step treats the processes: none becomes unborn again and an ended  *)
(* one stays ended, whoever uses its pid.                                   *)
ProcessesAge ==
  /\ proc' \in [Pids -> Phases]
  /\ \A p \in Pids : proc[p] # "unborn" => proc'[p] # "unborn"
  /\ \A p \in Pids : proc[p] \in Ended => proc'[p] \in Ended

(* Commands, the signal and the processes themselves only age a process,    *)
(* and no second daemon gets the port.                                      *)
LEMMA DaemonsAge ==
  ASSUME DaemonTypes, OnePort, [DaemonNext]_daemonVars
  PROVE  ProcessesAge /\ OnePort'
<1> USE DEF DaemonTypes, OnePort, ProcessesAge, Phases, Ended, OnPort
<1>1. CASE UNCHANGED proc
  BY <1>1
<1>2. ASSUME NEW c \in Clis, SpawnDaemon(c) PROVE ProcessesAge /\ OnePort'
  BY <1>2 DEF SpawnDaemon
<1>3. ASSUME NEW c \in Clis, AskShutdown(c) PROVE ProcessesAge /\ OnePort'
  BY <1>3 DEF AskShutdown, Answering
<1>4. ASSUME NEW c \in Clis, KillDaemon(c) PROVE ProcessesAge /\ OnePort'
  <2>1. CASE ~Alive(cli[c].desc.pid)
    BY <1>4, <2>1 DEF KillDaemon
  <2>2. CASE Alive(cli[c].desc.pid)
    <3>1. cli[c].desc.pid \in Pids
      BY <2>2, PidOrNone DEF Alive, CliRows, Descriptors
    <3> QED
      BY <1>4, <2>2, <3>1 DEF KillDaemon
  <2> QED
    BY <2>1, <2>2
<1>5. ASSUME NEW p \in Pids,
             Listen(p) \/ CloseServer(p) \/ ProcessExits(p)
             \/ ProcessCrashes(p) \/ PidReused(p)
      PROVE  ProcessesAge /\ OnePort'
  BY <1>5 DEF Listen, CloseServer, ProcessExits, ProcessCrashes, PidReused,
              Becomes, Answering
<1> QED
  BY <1>1, <1>2, <1>3, <1>4, <1>5
  DEF DaemonNext, daemonVars, Command, ProbeDaemon, AdoptDaemon,
      BecomesReady, StartTimesOut, IdentifyDaemon, WriteDescriptor,
      ReadDescriptor, VerifyInstance, ShutdownFails, Stopped, StopTimesOut,
      KilledInTime, KillTimesOut, ForgetDescriptor, OnlyCli

(* What DaemonInv asks of one command, of the processes after the step. *)
BornNext(p) == p # 0 => proc'[p] # "unborn"
SoundNext(row) ==
  /\ BornNext(row.child) /\ BornNext(row.desc.pid)
  /\ row.pc = "forget" /\ row.desc.pid # 0 => proc'[row.desc.pid] \in Ended

(* What a step may do to the commands: one of them, at most, moves on, and  *)
(* it is typed and sound where it gets to.                                  *)
CliMoves(c) ==
  \E new \in CliRows : SoundNext(new) /\ cli' = [cli EXCEPT ![c] = new]

(* Ageing processes leave every other command sound. *)
LEMMA OthersStaySound ==
  ASSUME DaemonInv, ProcessesAge, NEW c \in Clis
  PROVE  SoundNext(cli[c])
<1>1. cli[c] \in CliRows /\ cli[c].desc \in Descriptors
  BY DEF DaemonInv, DaemonTypes, CliRows
<1>2. cli[c].child \in MaybePid /\ cli[c].desc.pid \in MaybePid
  BY <1>1 DEF CliRows, Descriptors
<1> QED
  BY <1>2, PidOrNone
  DEF DaemonInv, BornInv, Born, TargetHasEnded, SoundNext, BornNext,
      ProcessesAge, Ended

(* Only pc changes: sound, unless the command gets to drop the descriptor;  *)
(* then it has just seen the process not alive.                             *)
LEMMA GoesSoundly ==
  ASSUME DaemonInv, ProcessesAge, NEW c \in Clis, NEW pc \in Steps, Goes(c, pc),
         pc = "forget" => ~Alive(cli[c].desc.pid) /\ UNCHANGED proc
  PROVE  CliMoves(c)
<1> DEFINE new == [cli[c] EXCEPT !.pc = pc]
<1>1. cli[c] \in CliRows /\ cli[c].desc \in Descriptors
  BY DEF DaemonInv, DaemonTypes, CliRows
<1>2. cli[c].desc.pid \in MaybePid
  BY <1>1 DEF Descriptors
<1>3. /\ new \in CliRows /\ new.pc = pc
      /\ new.child = cli[c].child /\ new.desc = cli[c].desc
  BY <1>1 DEF CliRows
<1>4. cli' = [cli EXCEPT ![c] = new]
  BY <1>1 DEF Goes, CliRows, DaemonInv, DaemonTypes
<1>5. SoundNext(cli[c])
  BY OthersStaySound
<1> HIDE DEF new
<1>6. new.pc = "forget" /\ new.desc.pid # 0 => proc'[new.desc.pid] \in Ended
  <2> SUFFICES ASSUME pc = "forget", cli[c].desc.pid # 0
               PROVE  proc'[cli[c].desc.pid] \in Ended
      BY <1>3
  <2>1. cli[c].desc.pid \in Pids
    BY <1>2, PidOrNone
  <2> QED
    BY <2>1 DEF DaemonInv, BornInv, Born, Alive, Ended, DaemonTypes, Phases
<1>7. SoundNext(new)
  BY <1>3, <1>5, <1>6 DEF SoundNext
<1> QED
  BY <1>3, <1>4, <1>7 DEF CliMoves

(* A finished command names no process. *)
LEMMA IdleRowSound ==
  IdleCli \in CliRows /\ IdleCli.pc = "idle" /\ SoundNext(IdleCli)
<1>1. 0 \in MaybePid
  BY DaemonAssumption DEF MaybePid
<1>2. NoDescriptor \in Descriptors /\ NoDescriptor.pid = 0
  BY <1>1 DEF NoDescriptor, Descriptors
<1>3. IdleCli \in CliRows
  BY <1>1, <1>2 DEF CliRows, IdleCli, Steps
<1>4. IdleCli.child = 0 /\ IdleCli.desc = NoDescriptor /\ IdleCli.pc = "idle"
  BY DEF IdleCli
<1> QED
  BY <1>2, <1>3, <1>4 DEF SoundNext, BornNext

(* Finishes and the commands a terminal gives put a fresh row in place. *)
LEMMA FreshMoves ==
  ASSUME NEW c \in Clis,
         \/ Finishes(c)
         \/ \E pc \in Steps \ {"forget"}, b \in BOOLEAN :
              cli' = [cli EXCEPT ![c] = [IdleCli EXCEPT !.pc = pc, !.restart = b]]
         \/ cli' = [cli EXCEPT ![c] = [IdleCli EXCEPT !.pc = "probe"]]
  PROVE  CliMoves(c)
<1>1. CASE Finishes(c)
  BY <1>1, IdleRowSound DEF Finishes, CliMoves
<1>2. ASSUME NEW pc \in Steps \ {"forget"}, NEW b \in BOOLEAN,
             cli' = [cli EXCEPT ![c] = [IdleCli EXCEPT !.pc = pc, !.restart = b]]
      PROVE  CliMoves(c)
  <2> DEFINE row == [IdleCli EXCEPT !.pc = pc, !.restart = b]
  <2>1. /\ row \in CliRows /\ row.pc = pc
        /\ row.child = IdleCli.child /\ row.desc = IdleCli.desc
    BY IdleRowSound DEF CliRows
  <2> HIDE DEF row
  <2>2. row \in CliRows /\ SoundNext(row)
    BY <2>1, IdleRowSound DEF SoundNext
  <2>3. cli' = [cli EXCEPT ![c] = row]
    BY <1>2 DEF row
  <2> QED
    BY <2>2, <2>3 DEF CliMoves
<1>3. CASE cli' = [cli EXCEPT ![c] = [IdleCli EXCEPT !.pc = "probe"]]
  <2> DEFINE row == [IdleCli EXCEPT !.pc = "probe"]
  <2>1. /\ row \in CliRows /\ row.pc = "probe"
        /\ row.child = IdleCli.child /\ row.desc = IdleCli.desc
    BY IdleRowSound DEF CliRows, Steps
  <2> HIDE DEF row
  <2>2. row \in CliRows /\ SoundNext(row)
    BY <2>1, IdleRowSound DEF SoundNext
  <2>3. cli' = [cli EXCEPT ![c] = row]
    BY <1>3 DEF row
  <2> QED
    BY <2>2, <2>3 DEF CliMoves
<1> QED
  BY <1>1, <1>2, <1>3

(* startDaemon spawns an unborn pid and remembers it as its child. *)
LEMMA SpawnMoves ==
  ASSUME DaemonInv, ProcessesAge, NEW c \in Clis, SpawnDaemon(c)
  PROVE  CliMoves(c)
<1> PICK p \in Pids :
      /\ proc' = [proc EXCEPT ![p] = "booting"]
      /\ cli' = [cli EXCEPT ![c].pc = "wait", ![c].child = p]
    BY DEF SpawnDaemon
<1> DEFINE new == [cli[c] EXCEPT !.pc = "wait", !.child = p]
<1>1. cli[c] \in CliRows /\ p \in MaybePid /\ cli \in [Clis -> CliRows]
  BY PidOrNone DEF DaemonInv, DaemonTypes
<1>2. /\ new \in CliRows /\ new.pc = "wait"
      /\ new.child = p /\ new.desc = cli[c].desc
  BY <1>1 DEF CliRows, Steps
<1>3. cli' = [cli EXCEPT ![c] = new]
  BY <1>1 DEF CliRows
<1>4. SoundNext(cli[c])
  BY OthersStaySound
<1>5. proc'[p] = "booting"
  BY DEF DaemonInv, DaemonTypes
<1> HIDE DEF new
<1>6. SoundNext(new)
  BY <1>2, <1>4, <1>5 DEF SoundNext, BornNext
<1> QED
  BY <1>2, <1>3, <1>6 DEF CliMoves

(* health names the instance that answers. *)
LEMMA IdentifyMoves ==
  ASSUME DaemonInv, ProcessesAge, NEW c \in Clis, NEW p \in Pids,
         cli' = [cli EXCEPT ![c].pc = "write", ![c].inst = p]
  PROVE  CliMoves(c)
<1> DEFINE new == [cli[c] EXCEPT !.pc = "write", !.inst = p]
<1>1. cli[c] \in CliRows /\ p \in MaybePid /\ cli \in [Clis -> CliRows]
  BY PidOrNone DEF DaemonInv, DaemonTypes
<1>2. /\ new \in CliRows /\ new.pc = "write"
      /\ new.child = cli[c].child /\ new.desc = cli[c].desc
  BY <1>1 DEF CliRows, Steps
<1>3. cli' = [cli EXCEPT ![c] = new]
  BY <1>1 DEF CliRows
<1>4. SoundNext(cli[c])
  BY OthersStaySound
<1> HIDE DEF new
<1>6. SoundNext(new)
  BY <1>2, <1>4 DEF SoundNext
<1> QED
  BY <1>2, <1>3, <1>6 DEF CliMoves

(* stopDaemon keeps what the descriptor says; it goes on to drop it only    *)
(* when the process named is not alive, which by BornInv means ended.       *)
LEMMA ReadMoves ==
  ASSUME DaemonInv, ProcessesAge, NEW c \in Clis, ReadDescriptor(c)
  PROVE  CliMoves(c)
<1> DEFINE d == descriptor
           pc == CASE ~d.present -> IF cli[c].restart THEN "probe" ELSE "idle"
                   [] d.present /\ ~Alive(d.pid) -> "forget"
                   [] OTHER -> IF d.inst = 0 THEN "idle" ELSE "verify"
           new == [cli[c] EXCEPT !.desc = d, !.pc = pc]
<1>1. /\ cli[c] \in CliRows /\ cli \in [Clis -> CliRows] /\ d \in Descriptors
      /\ proc' = proc
  BY DEF DaemonInv, DaemonTypes, ReadDescriptor, OnlyCli
<1>2. pc \in Steps /\ (pc = "forget" => ~Alive(d.pid))
  BY <1>1 DEF Descriptors, Steps
<1>3. cli' = [cli EXCEPT ![c].desc = d, ![c].pc = pc]
  BY DEF ReadDescriptor
<1> HIDE DEF pc
<1>4. cli' = [cli EXCEPT ![c] = new]
  BY <1>1, <1>3 DEF CliRows
<1>5. /\ new \in CliRows /\ new.pc = pc
      /\ new.child = cli[c].child /\ new.desc = d
  BY <1>1, <1>2 DEF CliRows
<1> HIDE DEF new
<1>6. BornNext(d.pid) /\ BornNext(cli[c].child)
  BY <1>1, OthersStaySound DEF DaemonInv, BornInv, Born, BornNext, SoundNext
<1>7. pc = "forget" /\ d.pid # 0 => proc'[d.pid] \in Ended
  <2> SUFFICES ASSUME pc = "forget", d.pid # 0 PROVE proc'[d.pid] \in Ended
      OBVIOUS
  <2>1. d.pid \in Pids
    BY <1>1, PidOrNone DEF Descriptors
  <2> QED
    BY <1>1, <1>2, <2>1
    DEF DaemonInv, BornInv, Born, Alive, Ended, DaemonTypes, Phases
<1>8. SoundNext(new)
  BY <1>5, <1>6, <1>7 DEF SoundNext
<1> QED
  BY <1>4, <1>5, <1>8 DEF CliMoves

(* What DaemonInv asks of the descriptor. *)
FilesStaySound ==
  descriptor' \in Descriptors /\ BornNext(descriptor'.pid)

(* Every step of a command moves it to a sound row and leaves the files     *)
(* sound (startDaemon, stopDaemon, restart).                                *)
LEMMA StepsAreSound ==
  ASSUME DaemonInv, ProcessesAge, NEW c \in Clis,
         \/ Command(c, "probe", FALSE) \/ Command(c, "stop", FALSE)
         \/ Command(c, "stop", TRUE)
         \/ ProbeDaemon(c) \/ AdoptDaemon(c) \/ SpawnDaemon(c) \/ BecomesReady(c)
         \/ StartTimesOut(c) \/ IdentifyDaemon(c) \/ WriteDescriptor(c)
         \/ ReadDescriptor(c) \/ VerifyInstance(c) \/ AskShutdown(c)
         \/ ShutdownFails(c) \/ Stopped(c) \/ StopTimesOut(c) \/ KillDaemon(c)
         \/ KilledInTime(c) \/ KillTimesOut(c) \/ ForgetDescriptor(c)
  PROVE  CliMoves(c) /\ FilesStaySound
<1> DEFINE Goal == CliMoves(c) /\ FilesStaySound
<1> SUFFICES Goal OBVIOUS
<1>1. UNCHANGED descriptor => FilesStaySound
  <2> SUFFICES ASSUME UNCHANGED descriptor
               PROVE  FilesStaySound
      OBVIOUS
  <2>1. descriptor \in Descriptors /\ descriptor.pid \in MaybePid
    BY DEF DaemonInv, DaemonTypes, Descriptors
  <2>2. BornNext(descriptor.pid)
    BY <2>1, PidOrNone DEF DaemonInv, BornInv, Born, BornNext, ProcessesAge
  <2> QED
    BY <2>1, <2>2 DEF FilesStaySound, DaemonInv, DaemonTypes, TargetHasEnded
<1>2. CASE \/ Command(c, "probe", FALSE) \/ Command(c, "stop", FALSE)
           \/ Command(c, "stop", TRUE)
  BY <1>1, <1>2, FreshMoves DEF Command, Steps
<1>3. CASE ProbeDaemon(c)
  BY <1>1, <1>3, FreshMoves, GoesSoundly DEF ProbeDaemon, OnlyCli, Steps
<1>4. CASE AdoptDaemon(c)
  <2>1. CliMoves(c)
    BY <1>4, FreshMoves DEF AdoptDaemon
  <2>2. FilesStaySound
    BY <1>4, DaemonAssumption
    DEF AdoptDaemon, FilesStaySound, Descriptors, MaybePid, BornNext, DaemonInv,
        DaemonTypes, TargetHasEnded
  <2> QED
    BY <2>1, <2>2
<1>5. CASE SpawnDaemon(c)
  BY <1>1, <1>5, SpawnMoves DEF SpawnDaemon
<1>6. CASE BecomesReady(c) \/ VerifyInstance(c) \/ ShutdownFails(c)
           \/ StopTimesOut(c) \/ KillTimesOut(c) \/ StartTimesOut(c)
  BY <1>1, <1>6, FreshMoves, GoesSoundly
  DEF BecomesReady, VerifyInstance, ShutdownFails, StopTimesOut, KillTimesOut,
      StartTimesOut, OnlyCli, Steps
<1>7. CASE IdentifyDaemon(c)
  BY <1>1, <1>7, FreshMoves, IdentifyMoves
  DEF IdentifyDaemon, OnlyCli, Answering
<1>8. CASE WriteDescriptor(c)
  <2>1. CliMoves(c)
    BY <1>8, FreshMoves DEF WriteDescriptor
  <2>2. cli[c] \in CliRows /\ SoundNext(cli[c])
    BY OthersStaySound DEF DaemonInv, DaemonTypes
  <2>3. cli[c].child \in MaybePid /\ cli[c].inst \in MaybePid
        /\ BornNext(cli[c].child)
    BY <2>2 DEF CliRows, SoundNext
  <2>4. FilesStaySound
    BY <1>8, <2>3
    DEF WriteDescriptor, FilesStaySound, Descriptors, DaemonInv, DaemonTypes,
        TargetHasEnded
  <2> QED
    BY <2>1, <2>4
<1>9. CASE ReadDescriptor(c)
  BY <1>1, <1>9, ReadMoves DEF ReadDescriptor, OnlyCli
<1>10. CASE AskShutdown(c)
  <2>1. CliMoves(c) /\ descriptor' = descriptor
    BY <1>10, GoesSoundly DEF AskShutdown, Steps
  <2>3. descriptor \in Descriptors /\ descriptor.pid \in MaybePid
    BY DEF DaemonInv, DaemonTypes, Descriptors
  <2>4. BornNext(descriptor.pid)
    BY <2>3, PidOrNone DEF DaemonInv, BornInv, Born, BornNext, ProcessesAge
  <2> QED
    BY <2>1, <2>3, <2>4 DEF FilesStaySound
<1>11. CASE Stopped(c) \/ KilledInTime(c)
  BY <1>1, <1>11, GoesSoundly DEF Stopped, KilledInTime, OnlyCli, Steps
<1>12. CASE KillDaemon(c)
  BY <1>1, <1>12, GoesSoundly DEF KillDaemon, Steps
<1>13. CASE ForgetDescriptor(c)
  <2>1. CliMoves(c)
    BY <1>13, FreshMoves DEF ForgetDescriptor
  <2>2. FilesStaySound
    BY <1>13, DaemonAssumption
    DEF ForgetDescriptor, NoDescriptor, FilesStaySound, Descriptors, MaybePid,
        BornNext, DaemonInv, DaemonTypes, TargetHasEnded
  <2> QED
    BY <2>1, <2>2
<1> QED
  BY <1>2, <1>3, <1>4, <1>5, <1>6, <1>7, <1>8, <1>9, <1>10, <1>11, <1>12, <1>13

(* Sound commands, files and processes are DaemonInv after the step. *)
LEMMA SoundIsInv ==
  ASSUME DaemonInv, ProcessesAge, OnePort', FilesStaySound,
         cli' = cli \/ \E c \in Clis : CliMoves(c)
  PROVE  DaemonInv'
<1>1. cli' \in [Clis -> CliRows] /\ \A c \in Clis : SoundNext(cli'[c])
  BY OthersStaySound DEF DaemonInv, DaemonTypes, CliMoves
<1>2. DaemonTypes'
  BY <1>1 DEF DaemonTypes, FilesStaySound, ProcessesAge
<1>3. BornInv'
  BY <1>1 DEF BornInv, Born, SoundNext, BornNext, FilesStaySound
<1>4. TargetHasEnded'
  BY <1>1 DEF TargetHasEnded, SoundNext, FilesStaySound, Ended
<1> QED
  BY <1>2, <1>3, <1>4 DEF DaemonInv

(* No process, no descriptor and no command to begin with. *)
LEMMA DaemonStarts == DaemonInit => DaemonInv
<1> SUFFICES ASSUME DaemonInit PROVE DaemonInv OBVIOUS
<1>1. IdleCli \in CliRows /\ IdleCli.child = 0 /\ IdleCli.desc.pid = 0
      /\ IdleCli.pc = "idle"
  BY IdleRowSound DEF IdleCli, NoDescriptor
<1>2. NoDescriptor \in Descriptors /\ NoDescriptor.pid = 0
  BY DaemonAssumption DEF NoDescriptor, Descriptors, MaybePid
<1> QED
  BY <1>1, <1>2
  DEF DaemonInit, DaemonInv, DaemonTypes, OnePort, BornInv, Born, TargetHasEnded,
      Phases, OnPort

(* Every step of a command and of a process keeps DaemonInv. *)
LEMMA DaemonStep == DaemonInv /\ [DaemonNext]_daemonVars => DaemonInv'
<1> SUFFICES ASSUME DaemonInv, [DaemonNext]_daemonVars PROVE DaemonInv'
    OBVIOUS
<1>1. ProcessesAge /\ OnePort'
  BY DaemonsAge DEF DaemonInv
<1>2. CASE UNCHANGED <<descriptor, cli>>
  <2>1. descriptor \in Descriptors /\ descriptor.pid \in MaybePid
    BY DEF DaemonInv, DaemonTypes, Descriptors
  <2>2. BornNext(descriptor.pid)
    BY <1>1, <2>1, PidOrNone DEF DaemonInv, BornInv, Born, BornNext, ProcessesAge
  <2>3. FilesStaySound
    BY <1>2, <2>1, <2>2 DEF FilesStaySound, DaemonInv, DaemonTypes, TargetHasEnded
  <2> QED
    BY <1>1, <1>2, <2>3, SoundIsInv
<1>3. ASSUME NEW c \in Clis, CliMoves(c), FilesStaySound PROVE DaemonInv'
  BY <1>1, <1>3, SoundIsInv
<1>4. UNCHANGED daemonVars => UNCHANGED <<descriptor, cli>>
  BY DEF daemonVars
<1>5. ASSUME NEW p \in Pids,
             Listen(p) \/ CloseServer(p) \/ ProcessExits(p)
             \/ ProcessCrashes(p) \/ PidReused(p)
      PROVE  UNCHANGED <<descriptor, cli>>
  BY <1>5 DEF Listen, CloseServer, ProcessExits, ProcessCrashes, PidReused,
              Becomes
<1> QED
  BY <1>1, <1>2, <1>3, <1>4, <1>5, StepsAreSound DEF DaemonNext

(* The daemon's invariant says that its state has its type. *)
LEMMA DaemonInvTypes == DaemonInv => DaemonTypeOK
  BY DEF DaemonInv, DaemonTypes, OnePort, DaemonTypeOK, Descriptors, CliRows,
         MaybePid, Phases, Steps, OnPort

(* The daemon's state has its type: in particular two daemons never hold    *)
(* the port at once, however starts, crashes and signals interleave.        *)
THEOREM DaemonTypeCorrect == DaemonSpec => []DaemonTypeOK
  BY DaemonInvTypes, DaemonStarts, DaemonStep, PTL DEF DaemonSpec

(* A command of stopDaemon that is about to drop the descriptor has seen    *)
(* the process end whose pid it read there, however the request, the        *)
(* signal, a crash, the reuse of the pid and the time limits raced, for any *)
(* number of terminals, daemons and commands.                               *)
THEOREM StopEndsItsTarget == DaemonSpec => []TargetHasEnded
<1>1. DaemonInv => TargetHasEnded
  BY DEF DaemonInv
<1> QED
  BY <1>1, DaemonStarts, DaemonStep, PTL DEF DaemonSpec

-----------------------------------------------------------------------------
(* Checkpoints.  The number of a checkpoint is read (CountRows), the ref is *)
(* created (UpdateRef) and the row is recorded (RecordRow) in three steps,  *)
(* of which only the last asks for the lease.  SeatOK says what a turn may  *)
(* rely on between them.  While it holds the lease nobody else records a    *)
(* row, so the number it read is still the next one; without the lease it   *)
(* may hold any number, but a ref, once set, is never set again.  That a    *)
(* captured workspace is never Unset is what makes "set" visible; it needs  *)
(* the rows, from which a restore takes files, and is part of the invariant.*)

SeatSteps == {"idle", "provision", "record", "work", "count", "capture",
              "publish", "row"}
Numbered == {"capture", "publish", "row"}
SeatRows == [pc : SeatSteps, gen : Nat, agent : Places, place : Places,
             seq : Nat, snap : Contents, beside : Contents]
AskRows == [pc : {"idle", "backup", "clean", "checkout", "note"}, row : Nat,
            pre : Contents]
CheckpointRows == [ref : Sequence, snap : Contents, beside : Contents]

CpTypes ==
  /\ files \in [Places -> Contents]
  /\ refs \in [Sequence -> Contents]
  /\ rows \in Seq(CheckpointRows)
  /\ recorded \subseteq registered /\ registered \subseteq Helpers
  /\ cpStatus \in {"running", "paused"}
  /\ seat \in [CpExecutors -> SeatRows]
  /\ ask \in [CpClients -> AskRows]
  /\ edits \in 0 .. MaxEdits /\ turnsBegun \in 0 .. MaxCpTurns

AsksInv ==
  /\ \A c \in CpClients : ask[c].pc # "idle" => ask[c].row \in DOMAIN rows
  /\ restored \subseteq DOMAIN rows

SeatOK(s) ==
  /\ s.pc # "idle" => s.gen \in 1 .. turnsBegun
  /\ s.pc \in {"provision", "record"} => s.agent \in Helpers
  /\ s.pc = "record" => s.agent \in registered
  /\ s.pc \in Numbered => s.seq \in Sequence
  /\ s.pc \in Numbered /\ s.gen = turnsBegun => s.seq = Len(rows) + 1
  /\ s.pc \in {"publish", "row"} => s.snap # Unset
  /\ s.pc = "row" => refs[s.seq] = s.snap

SeatsInv ==
  /\ \A e \in CpExecutors : SeatOK(seat[e])
  /\ \A e, f \in CpExecutors :
       seat[e].pc # "idle" /\ seat[f].pc # "idle" /\ seat[e].gen = seat[f].gen
         => e = f

FilesInv == \A p \in Places : files[p] # Unset
RowsInv == \A n \in DOMAIN rows : rows[n].snap # Unset

CpInv == /\ CpTypes /\ AsksInv /\ SeatsInv /\ FilesInv /\ RowsInv
         /\ CheckpointIsAsCaptured

(* The Run starts without checkpoints, worktrees and requests. *)
LEMMA CpStarts == CpInit => CpInv
<1> SUFFICES ASSUME CpInit PROVE CpInv OBVIOUS
<1> USE CheckpointAssumption
    DEF CpInit, Contents, Unset, HeadFiles, Partial, Places, Chief
<1>1. EmptySeat \in SeatRows /\ EmptySeat.pc = "idle"
  BY DEF EmptySeat, SeatRows, SeatSteps
<1>2. NoAsk \in AskRows /\ NoAsk.pc = "idle"
  BY DEF NoAsk, AskRows
<1>3. CpTypes
  BY <1>1, <1>2 DEF CpTypes
<1>4. AsksInv
  BY <1>2 DEF AsksInv
<1>5. SeatsInv
  BY <1>1 DEF SeatsInv, SeatOK, Numbered
<1>6. FilesInv /\ RowsInv /\ CheckpointIsAsCaptured
  BY DEF FilesInv, RowsInv, CheckpointIsAsCaptured
<1> QED
  BY <1>3, <1>4, <1>5, <1>6 DEF CpInv

(* How any step treats what the turns rely on: turns and worktrees are only *)
(* added, a ref that is set stays as it is, and the rows of the table are   *)
(* kept when a turn begins.                                                 *)
Grows ==
  /\ turnsBegun' \in Nat /\ turnsBegun =< turnsBegun'
  /\ registered \subseteq registered'
  /\ \A n \in Sequence : refs[n] # Unset => refs'[n] = refs[n]

SeatNext(s) ==
  /\ s.pc # "idle" => s.gen \in 1 .. turnsBegun'
  /\ s.pc \in {"provision", "record"} => s.agent \in Helpers
  /\ s.pc = "record" => s.agent \in registered'
  /\ s.pc \in Numbered => s.seq \in Sequence
  /\ s.pc \in Numbered /\ s.gen = turnsBegun' => s.seq = Len(rows') + 1
  /\ s.pc \in {"publish", "row"} => s.snap # Unset
  /\ s.pc = "row" => refs'[s.seq] = s.snap

(* A turn that takes no step keeps what it relies on, provided no row is    *)
(* recorded while it holds the lease.                                       *)
LEMMA SeatKept ==
  ASSUME CpInv, Grows, NEW e \in CpExecutors,
         rows' = rows \/ (seat[e].pc # "idle" => seat[e].gen # turnsBegun)
  PROVE  SeatNext(seat[e])
<1>1. /\ SeatOK(seat[e]) /\ seat[e] \in SeatRows /\ turnsBegun \in Nat
  BY CheckpointAssumption DEF CpInv, SeatsInv, CpTypes
<1>2. seat[e].gen \in Nat
  BY <1>1 DEF SeatRows
<1>3. seat[e].pc # "idle" => seat[e].gen \in 1 .. turnsBegun'
  BY <1>1, <1>2 DEF SeatOK, Grows
<1>4. seat[e].pc \in Numbered /\ seat[e].gen = turnsBegun' =>
        seat[e].seq = Len(rows') + 1
  BY <1>1, <1>2 DEF SeatOK, Grows, Numbered
<1> QED
  BY <1>1, <1>3, <1>4 DEF SeatOK, SeatNext, Grows, Numbered

(* One executor's turn moves on: to a seat that is sound, idle or of the    *)
(* same turn, while the rows it may add are its own under the lease; or to  *)
(* a new turn.                                                              *)
LEMMA SeatMoves ==
  ASSUME CpInv, Grows, NEW e \in CpExecutors, NEW new \in SeatRows,
         SeatNext(new), seat' = [seat EXCEPT ![e] = new],
         \/ rows' = rows
         \/ seat[e].pc # "idle" /\ seat[e].gen = turnsBegun,
         \/ new.pc = "idle"
         \/ seat[e].pc # "idle" /\ new.gen = seat[e].gen
         \/ new.gen = turnsBegun + 1
  PROVE  SeatsInv' /\ seat' \in [CpExecutors -> SeatRows]
<1>1. seat \in [CpExecutors -> SeatRows] /\ turnsBegun \in Nat
  BY CheckpointAssumption DEF CpInv, CpTypes
<1>2. seat' \in [CpExecutors -> SeatRows]
  BY <1>1
<1>3. ASSUME NEW f \in CpExecutors PROVE SeatNext(seat'[f])
  <2>1. CASE f = e
    BY <1>1, <2>1
  <2>2. CASE f # e
    <3>1. seat'[f] = seat[f]
      BY <1>1, <2>2
    <3>2. rows' = rows \/ (seat[f].pc # "idle" => seat[f].gen # turnsBegun)
      BY <2>2 DEF CpInv, SeatsInv
    <3> QED
      BY <3>1, <3>2, SeatKept
  <2> QED
    BY <2>1, <2>2
<1>4. ASSUME NEW f \in CpExecutors, f # e, seat[f].pc # "idle",
             new.pc # "idle", new.gen = seat[f].gen
      PROVE  FALSE
  <2>1. seat[f].gen \in 1 .. turnsBegun
    BY <1>4 DEF CpInv, SeatsInv, SeatOK
  <2> QED
    BY <1>1, <1>4, <2>1 DEF CpInv, SeatsInv
<1>5. ASSUME NEW f \in CpExecutors, NEW g \in CpExecutors,
             seat'[f].pc # "idle", seat'[g].pc # "idle",
             seat'[f].gen = seat'[g].gen
      PROVE  f = g
  BY <1>1, <1>4, <1>5 DEF CpInv, SeatsInv
<1> QED
  BY <1>2, <1>3, <1>5 DEF SeatsInv, SeatOK, SeatNext

(* A turn moves on without new results. *)
LEMMA MoveSound ==
  ASSUME CpInv, Grows, rows' = rows, NEW e \in CpExecutors, NEW pc \in SeatSteps,
         Move(e, pc), seat[e].pc # "idle",
         \/ pc \in {"work", "count"}
         \/ /\ pc = "record" /\ seat[e].pc = "provision"
            /\ seat[e].agent \in registered'
         \/ /\ pc = "row" /\ seat[e].pc = "publish"
            /\ refs'[seat[e].seq] = seat[e].snap
  PROVE  SeatsInv' /\ seat' \in [CpExecutors -> SeatRows]
<1> DEFINE new == [seat[e] EXCEPT !.pc = pc]
<1>1. seat \in [CpExecutors -> SeatRows] /\ seat[e] \in SeatRows
  BY DEF CpInv, CpTypes
<1>2. /\ new \in SeatRows /\ new.pc = pc /\ new.gen = seat[e].gen
      /\ new.agent = seat[e].agent /\ new.seq = seat[e].seq
      /\ new.snap = seat[e].snap
  BY <1>1 DEF SeatRows
<1>3. seat' = [seat EXCEPT ![e] = new]
  BY <1>1 DEF Move, SeatRows
<1> HIDE DEF new
<1>4. SeatNext(seat[e])
  BY SeatKept
<1>5. SeatNext(new)
  BY <1>2, <1>4 DEF SeatNext, Numbered
<1> QED
  BY <1>2, <1>3, <1>5, SeatMoves

(* A turn ends or is dropped: its executor's seat is empty. *)
LEMMA LeaveSound ==
  ASSUME CpInv, Grows, NEW e \in CpExecutors, Leave(e),
         \/ rows' = rows
         \/ seat[e].pc # "idle" /\ seat[e].gen = turnsBegun
  PROVE  SeatsInv' /\ seat' \in [CpExecutors -> SeatRows]
<1>1. EmptySeat \in SeatRows /\ EmptySeat.pc = "idle"
  BY CheckpointAssumption
  DEF EmptySeat, SeatRows, SeatSteps, Places, Contents, Unset, Chief
<1>2. SeatNext(EmptySeat)
  BY <1>1 DEF SeatNext, Numbered
<1> QED
  BY <1>1, <1>2, SeatMoves DEF Leave

(* Seats nobody touches stay sound. *)
LEMMA SeatsRest ==
  ASSUME CpInv, Grows, rows' = rows, seat' = seat
  PROVE  SeatsInv' /\ seat' \in [CpExecutors -> SeatRows]
<1>1. \A e \in CpExecutors : SeatNext(seat[e])
  BY SeatKept
<1> QED
  BY <1>1 DEF CpInv, SeatsInv, SeatOK, SeatNext, CpTypes

(* Rows and refs: while no row is recorded every recorded one keeps its ref *)
(* and the ref its files.                                                   *)
LEMMA TableKept ==
  ASSUME CpInv, Grows, rows' = rows
  PROVE  RowsInv' /\ CheckpointIsAsCaptured'
<1>1. ASSUME NEW n \in DOMAIN rows PROVE n \in Sequence /\ refs[n] # Unset
  <2>1. rows[n] \in CheckpointRows /\ rows[n].ref = n /\ refs[n] = rows[n].snap
    BY DEF CpInv, CpTypes, CheckpointIsAsCaptured
  <2> QED
    BY <2>1 DEF CheckpointRows, CpInv, RowsInv
<1> QED
  BY <1>1 DEF CpInv, RowsInv, CheckpointIsAsCaptured, Grows

(* Nothing that a step leaves alone stops growing. *)
LEMMA GrowsIdle ==
  ASSUME CpInv, UNCHANGED <<refs, registered, turnsBegun>>
  PROVE  Grows
  BY CheckpointAssumption DEF Grows, CpInv, CpTypes

(* The rest of CpInv, for a step of a turn that records no row. *)
LEMMA TurnKeepsRest ==
  ASSUME CpInv, Grows, UNCHANGED <<rows, ask, restored, cpStatus>>,
         SeatsInv' /\ seat' \in [CpExecutors -> SeatRows],
         files' \in [Places -> Contents] /\ FilesInv',
         refs' \in [Sequence -> Contents],
         recorded' \subseteq registered' /\ registered' \subseteq Helpers,
         edits' \in 0 .. MaxEdits /\ turnsBegun' \in 0 .. MaxCpTurns
  PROVE  CpInv'
<1>1. CpTypes'
  BY DEF CpInv, CpTypes
<1>2. AsksInv'
  BY DEF CpInv, AsksInv
<1>3. RowsInv' /\ CheckpointIsAsCaptured'
  BY TableKept
<1> QED
  BY <1>1, <1>2, <1>3 DEF CpInv

(* A step that only moves a seat. *)
LEMMA OnlySeatKeeps ==
  ASSUME CpInv, OnlySeat, SeatsInv' /\ seat' \in [CpExecutors -> SeatRows]
  PROVE  CpInv'
<1>1. Grows
  BY GrowsIdle DEF OnlySeat
<1> QED
  BY <1>1, TurnKeepsRest DEF OnlySeat, CpInv, CpTypes, FilesInv

(* A turn begins, provisions its worktree and works in it. *)
LEMMA TurnStep ==
  ASSUME CpInv, NEW e \in CpExecutors,
         \/ \E a \in Places : BeginsTurn(e, a)
         \/ Provision(e) \/ ProvisionFails(e) \/ RecordWorktree(e) \/ EditFiles(e)
         \/ NothingToKeep(e) \/ TaskCompleted(e) \/ TurnDropped(e)
  PROVE  CpInv'
<1> DEFINE Goal == CpInv'
           Sound == SeatsInv' /\ seat' \in [CpExecutors -> SeatRows]
<1> SUFFICES Goal OBVIOUS
<1> HIDE DEF Goal, Sound
<1>0. /\ seat \in [CpExecutors -> SeatRows] /\ seat[e] \in SeatRows
      /\ turnsBegun \in Nat /\ SeatOK(seat[e]) /\ MaxCpTurns \in Nat
      /\ seat[e].agent \in Places /\ seat[e].place \in Places
  BY CheckpointAssumption DEF CpInv, CpTypes, SeatsInv, SeatRows
<1>1. ASSUME NEW a \in Places, BeginsTurn(e, a) PROVE Goal
  <2> DEFINE ready == a = Chief \/ a \in recorded
             new == [EmptySeat EXCEPT
                       !.pc = IF ready THEN "work" ELSE "provision",
                       !.gen = turnsBegun + 1, !.agent = a,
                       !.place = IF ready THEN a ELSE Chief]
  <2>1. /\ seat' = [seat EXCEPT ![e] = new] /\ turnsBegun' = turnsBegun + 1
        /\ turnsBegun < MaxCpTurns
        /\ UNCHANGED <<files, refs, rows, registered, recorded, cpStatus, ask,
                       restored, edits>>
    BY <1>1 DEF BeginsTurn
  <2>2. EmptySeat \in SeatRows /\ Chief \in Places
    BY CheckpointAssumption
    DEF EmptySeat, SeatRows, SeatSteps, Places, Contents, Unset, Chief
  <2>3. turnsBegun + 1 \in Nat /\ turnsBegun + 1 \in 0 .. MaxCpTurns
    BY <1>0, <2>1
  <2>4. /\ new \in SeatRows /\ new.gen = turnsBegun + 1 /\ new.agent = a
        /\ new.pc = IF ready THEN "work" ELSE "provision"
    BY <2>2, <2>3 DEF SeatRows, SeatSteps
  <2> HIDE DEF new
  <2>5. Grows
    BY <1>0, <2>1, <2>3 DEF Grows
  <2>6. SeatNext(new)
    BY <1>0, <2>1, <2>3, <2>4 DEF SeatNext, Numbered, Places
  <2>7. Sound
    BY <2>1, <2>4, <2>5, <2>6, SeatMoves DEF Sound
  <2> QED
    BY <2>1, <2>3, <2>5, <2>7, TurnKeepsRest
    DEF Goal, Sound, CpInv, CpTypes, FilesInv
<1>2. CASE Provision(e)
  <2> DEFINE a == seat[e].agent
  <2>1. a \in Helpers
    BY <1>0, <1>2 DEF Provision, Seated, SeatOK
  <2>2. Grows
    BY <1>0, <1>2 DEF Grows, Provision
  <2>3. Sound
    BY <1>2, <2>2, MoveSound DEF Sound, Provision, Seated, SeatSteps
  <2>4. files' \in [Places -> Contents] /\ FilesInv'
    <3>1. HeadFiles \in Contents /\ HeadFiles # Unset
      BY CheckpointAssumption DEF Contents, HeadFiles, Unset
    <3>2. files' = files \/ files' = [files EXCEPT ![a] = HeadFiles]
      BY <1>2 DEF Provision, WithWorktree
    <3>3. files \in [Places -> Contents] /\ FilesInv
      BY DEF CpInv, CpTypes
    <3> QED
      BY <3>1, <3>2, <3>3 DEF FilesInv
  <2> QED
    BY <1>2, <2>1, <2>2, <2>3, <2>4, TurnKeepsRest
    DEF Goal, Sound, Provision, CpInv, CpTypes
<1>3. CASE ProvisionFails(e) \/ TaskCompleted(e)
  <2>1. Grows
    BY <1>3, GrowsIdle DEF ProvisionFails, TaskCompleted, OnlySeat
  <2>2. Sound
    BY <1>3, <2>1, MoveSound
    DEF Sound, ProvisionFails, TaskCompleted, OnlySeat, Seated, SeatSteps
  <2> QED
    BY <1>3, <2>2, OnlySeatKeeps DEF Goal, Sound, ProvisionFails, TaskCompleted
<1>4. CASE RecordWorktree(e)
  <2> DEFINE new == [seat[e] EXCEPT !.pc = "work", !.place = seat[e].agent]
  <2>1. /\ new \in SeatRows /\ new.pc = "work" /\ new.gen = seat[e].gen
        /\ seat' = [seat EXCEPT ![e] = new]
    BY <1>0, <1>4 DEF RecordWorktree, SeatRows, SeatSteps
  <2> HIDE DEF new
  <2>2. Grows
    BY <1>4, GrowsIdle DEF RecordWorktree
  <2>3. SeatNext(seat[e]) /\ seat[e].pc = "record" /\ rows' = rows
    BY <1>4, <2>2, SeatKept DEF RecordWorktree, Seated
  <2>4. SeatNext(new)
    BY <2>1, <2>3 DEF SeatNext, Numbered
  <2>5. Sound
    BY <2>1, <2>2, <2>3, <2>4, SeatMoves DEF Sound
  <2> QED
    BY <1>0, <1>4, <2>2, <2>3, <2>5, TurnKeepsRest
    DEF Goal, Sound, RecordWorktree, SeatOK, CpInv, CpTypes, FilesInv
<1>5. CASE EditFiles(e)
  <2>1. Grows
    BY <1>5, GrowsIdle DEF EditFiles
  <2>2. Sound
    BY <1>5, <2>1, SeatsRest DEF Sound, EditFiles
  <2>3. edits + 1 \in 0 .. MaxEdits /\ edits + 1 \in Contents /\ edits + 1 # Unset
    BY <1>5, CheckpointAssumption
    DEF EditFiles, CpInv, CpTypes, Contents, Unset, Partial
  <2> QED
    BY <1>0, <1>5, <2>1, <2>2, <2>3, TurnKeepsRest
    DEF Goal, Sound, EditFiles, CpInv, CpTypes, FilesInv
<1>6. CASE NothingToKeep(e) \/ TurnDropped(e)
  <2>1. Grows
    BY <1>6, GrowsIdle DEF NothingToKeep, TurnDropped, OnlySeat
  <2>2. Sound
    BY <1>6, <2>1, LeaveSound DEF Sound, NothingToKeep, TurnDropped, OnlySeat
  <2> QED
    BY <1>6, <2>2, OnlySeatKeeps DEF Goal, Sound, NothingToKeep, TurnDropped
<1> QED
  BY <1>1, <1>2, <1>3, <1>4, <1>5, <1>6

(* The milestone checkpoint: its number is read, its tree written, its ref  *)
(* created and, under the lease, its row recorded.                          *)
LEMMA CaptureStep ==
  ASSUME CpInv, NEW e \in CpExecutors,
         CountRows(e) \/ WriteTree(e) \/ UpdateRef(e) \/ RefExists(e)
  PROVE  CpInv'
<1> DEFINE Goal == CpInv'
           Sound == SeatsInv' /\ seat' \in [CpExecutors -> SeatRows]
<1> SUFFICES Goal OBVIOUS
<1> HIDE DEF Goal, Sound
<1>0. /\ seat \in [CpExecutors -> SeatRows] /\ seat[e] \in SeatRows
      /\ turnsBegun \in Nat /\ SeatOK(seat[e]) /\ MaxCpTurns \in Nat
      /\ seat[e].place \in Places
  BY CheckpointAssumption DEF CpInv, CpTypes, SeatsInv, SeatRows
<1>1. CASE CountRows(e)
  <2> DEFINE new == [seat[e] EXCEPT !.pc = "capture", !.seq = Len(rows) + 1]
  <2>1. Len(rows) \in Nat /\ Len(rows) < MaxCpTurns
    BY <1>1 DEF CountRows, CpInv, CpTypes
  <2>2. Len(rows) + 1 \in Nat /\ Len(rows) + 1 \in Sequence
    BY <1>0, <2>1 DEF Sequence
  <2>3. seat' = [seat EXCEPT ![e] = new]
    BY <1>0, <1>1 DEF CountRows, SeatRows
  <2>4. /\ new \in SeatRows /\ new.pc = "capture" /\ new.gen = seat[e].gen
        /\ new.seq = Len(rows) + 1
    BY <1>0, <2>2 DEF SeatRows, SeatSteps
  <2> HIDE DEF new
  <2>5. Grows /\ rows' = rows /\ seat[e].pc = "count"
    BY <1>1, GrowsIdle DEF CountRows, OnlySeat, Seated
  <2>6. SeatNext(new)
    BY <2>2, <2>4, <2>5, SeatKept DEF SeatNext, Numbered
  <2>7. Sound
    BY <2>3, <2>4, <2>5, <2>6, SeatMoves DEF Sound
  <2> QED
    BY <1>1, <2>7, OnlySeatKeeps DEF Goal, Sound, CountRows
<1>2. CASE WriteTree(e)
  <2> DEFINE tree == files[seat[e].place]
             new == [seat[e] EXCEPT !.pc = "publish", !.snap = tree,
                                    !.beside = files[Chief]]
  <2>1. tree \in Contents /\ tree # Unset /\ files[Chief] \in Contents
    BY <1>0 DEF CpInv, CpTypes, FilesInv, Places
  <2>2. seat' = [seat EXCEPT ![e] = new]
    BY <1>0, <1>2 DEF WriteTree, SeatRows
  <2>3. /\ new \in SeatRows /\ new.pc = "publish" /\ new.gen = seat[e].gen
        /\ new.seq = seat[e].seq /\ new.snap = tree
    BY <1>0, <2>1 DEF SeatRows, SeatSteps
  <2> HIDE DEF new
  <2>4. Grows /\ rows' = rows /\ seat[e].pc = "capture"
    BY <1>2, GrowsIdle DEF WriteTree, OnlySeat, Seated
  <2>5. SeatNext(new)
    BY <2>1, <2>3, <2>4, SeatKept DEF SeatNext, Numbered
  <2>6. Sound
    BY <2>2, <2>3, <2>4, <2>5, SeatMoves DEF Sound
  <2> QED
    BY <1>2, <2>6, OnlySeatKeeps DEF Goal, Sound, WriteTree
<1>3. CASE UpdateRef(e)
  <2>1. /\ seat[e].seq \in Sequence /\ seat[e].snap # Unset
        /\ seat[e].snap \in Contents /\ seat[e].pc = "publish"
    BY <1>0, <1>3 DEF UpdateRef, Seated, SeatOK, Numbered, SeatRows
  <2>2. refs' \in [Sequence -> Contents] /\ refs'[seat[e].seq] = seat[e].snap
    BY <1>3, <2>1 DEF UpdateRef, CpInv, CpTypes
  <2>3. Grows
    BY <1>0, <1>3, <2>1 DEF Grows, UpdateRef, CpInv, CpTypes
  <2>4. Sound
    BY <1>3, <2>1, <2>2, <2>3, MoveSound DEF Sound, UpdateRef, SeatSteps
  <2> QED
    BY <1>3, <2>2, <2>3, <2>4, TurnKeepsRest
    DEF Goal, Sound, UpdateRef, CpInv, CpTypes, FilesInv
<1>4. CASE RefExists(e)
  <2>1. Grows
    BY <1>4, GrowsIdle DEF RefExists, OnlySeat
  <2>2. Sound
    BY <1>4, <2>1, LeaveSound DEF Sound, RefExists, OnlySeat
  <2> QED
    BY <1>4, <2>2, OnlySeatKeeps DEF Goal, Sound, RefExists
<1> QED
  BY <1>1, <1>2, <1>3, <1>4

(* createCheckpoint numbers the row it records; under the lease that is the *)
(* number the ref was created under.                                        *)
LEMMA RecordStep ==
  ASSUME CpInv, NEW e \in CpExecutors, RecordRow(e)
  PROVE  CpInv'
<1> DEFINE row == [ref |-> seat[e].seq, snap |-> seat[e].snap,
                   beside |-> seat[e].beside]
<1>0. /\ seat[e] \in SeatRows /\ SeatOK(seat[e]) /\ rows \in Seq(CheckpointRows)
      /\ seat[e].pc = "row" /\ seat[e].gen = turnsBegun
  BY DEF CpInv, CpTypes, SeatsInv, RecordRow, Seated, HasLease
<1>1. /\ seat[e].seq \in Sequence /\ seat[e].seq = Len(rows) + 1
      /\ seat[e].snap \in Contents /\ seat[e].beside \in Contents
      /\ seat[e].snap # Unset /\ refs[seat[e].seq] = seat[e].snap
  BY <1>0 DEF SeatOK, Numbered, SeatRows
<1>2. /\ row \in CheckpointRows /\ row.ref = seat[e].seq
      /\ row.snap = seat[e].snap
  BY <1>1 DEF CheckpointRows
<1>3. rows' = Append(rows, row)
  BY DEF RecordRow
<1> HIDE DEF row
<1>4. /\ rows' \in Seq(CheckpointRows) /\ Len(rows') = Len(rows) + 1
      /\ DOMAIN rows' = DOMAIN rows \cup {Len(rows) + 1}
      /\ rows'[Len(rows) + 1] = row
      /\ \A n \in DOMAIN rows : rows'[n] = rows[n]
  BY <1>0, <1>2, <1>3
<1>5. Grows
  BY GrowsIdle DEF RecordRow
<1>6. SeatsInv' /\ seat' \in [CpExecutors -> SeatRows]
  BY <1>0, <1>5, LeaveSound DEF RecordRow
<1>7. CpTypes'
  BY <1>4, <1>6 DEF CpInv, CpTypes, RecordRow
<1>8. AsksInv' /\ FilesInv'
  BY <1>4 DEF CpInv, AsksInv, FilesInv, RecordRow
<1>9. RowsInv' /\ CheckpointIsAsCaptured'
  BY <1>1, <1>2, <1>4
  DEF CpInv, RowsInv, CheckpointIsAsCaptured, RecordRow
<1> QED
  BY <1>6, <1>7, <1>8, <1>9 DEF CpInv

(* The rest of CpInv, for a step of a restore request or of the Run. *)
LEMMA RequestKeepsRest ==
  ASSUME CpInv, UNCHANGED <<refs, rows, registered, recorded, seat, edits,
                            turnsBegun>>,
         files' \in [Places -> Contents] /\ FilesInv',
         cpStatus' \in {"running", "paused"},
         ask' \in [CpClients -> AskRows], AsksInv'
  PROVE  CpInv'
<1>1. Grows
  BY GrowsIdle
<1>2. SeatsInv'
  BY <1>1, SeatsRest
<1>3. RowsInv' /\ CheckpointIsAsCaptured'
  BY <1>1, TableKept
<1>4. CpTypes'
  BY DEF CpInv, CpTypes
<1> QED
  BY <1>2, <1>3, <1>4 DEF CpInv

(* A restore request replaces or moves on its own row. *)
LEMMA AskMoves ==
  ASSUME CpInv, NEW c \in CpClients, NEW new \in AskRows,
         new.pc # "idle" => new.row \in DOMAIN rows,
         ask' = [ask EXCEPT ![c] = new], rows' = rows,
         restored' \subseteq DOMAIN rows
  PROVE  ask' \in [CpClients -> AskRows] /\ AsksInv'
  BY DEF CpInv, CpTypes, AsksInv

(* POST .../restore and its steps. *)
LEMMA RequestStep ==
  ASSUME CpInv, NEW c \in CpClients,
         \/ \E i \in DOMAIN rows : AskRestore(c, i)
         \/ BackUp(c) \/ RestoreRefused(c) \/ CleanFiles(c) \/ CheckoutFiles(c)
         \/ NoteRestore(c)
  PROVE  CpInv'
<1> DEFINE Goal == CpInv'
           Asks == ask' \in [CpClients -> AskRows] /\ AsksInv'
<1> SUFFICES Goal OBVIOUS
<1> HIDE DEF Goal, Asks
<1>0. /\ ask \in [CpClients -> AskRows] /\ ask[c] \in AskRows
      /\ restored \subseteq DOMAIN rows
      /\ ask[c].pc # "idle" => ask[c].row \in DOMAIN rows
      /\ files \in [Places -> Contents] /\ FilesInv
      /\ cpStatus \in {"running", "paused"} /\ Chief \in Places
      /\ rows \in Seq(CheckpointRows)
  BY DEF CpInv, CpTypes, AsksInv, Places
<1>a. Unset \in Contents /\ Partial \in Contents /\ Partial # Unset
  BY DEF Contents, Unset, Partial
<1>b. NoAsk \in AskRows /\ NoAsk.pc = "idle"
  BY <1>a DEF NoAsk, AskRows
<1>1. ASSUME NEW i \in DOMAIN rows, AskRestore(c, i) PROVE Goal
  <2> DEFINE new == [pc |-> "backup", row |-> i, pre |-> Unset]
  <2>1. i \in Nat
    BY <1>0
  <2>2. new \in AskRows /\ new.row = i
    BY <1>a, <2>1 DEF AskRows
  <2>3. ask' = [ask EXCEPT ![c] = new]
    BY <1>1 DEF AskRestore
  <2> HIDE DEF new
  <2>4. Asks
    BY <1>0, <1>1, <2>2, <2>3, AskMoves DEF Asks, AskRestore, OnlyAsk
  <2> QED
    BY <1>0, <1>1, <2>4, RequestKeepsRest DEF Goal, Asks, AskRestore, OnlyAsk, FilesInv
<1>2. CASE BackUp(c)
  <2> DEFINE new == [ask[c] EXCEPT !.pc = "clean", !.pre = files[Chief]]
  <2>1. new \in AskRows /\ new.row = ask[c].row
    BY <1>0 DEF AskRows
  <2>2. ask' = [ask EXCEPT ![c] = new] /\ ask[c].pc = "backup"
    BY <1>0, <1>2 DEF BackUp, AskRows
  <2> HIDE DEF new
  <2>3. Asks
    BY <1>0, <1>2, <2>1, <2>2, AskMoves DEF Asks, BackUp, OnlyAsk
  <2> QED
    BY <1>0, <1>2, <2>3, RequestKeepsRest DEF Goal, Asks, BackUp, OnlyAsk, FilesInv
<1>3. CASE RestoreRefused(c)
  <2>1. Asks
    BY <1>0, <1>3, <1>b, AskMoves DEF Asks, RestoreRefused, OnlyAsk
  <2> QED
    BY <1>0, <1>3, <2>1, RequestKeepsRest
    DEF Goal, Asks, RestoreRefused, OnlyAsk, FilesInv
<1>4. CASE CleanFiles(c)
  <2> DEFINE new == [ask[c] EXCEPT !.pc = "checkout"]
  <2>1. new \in AskRows /\ new.row = ask[c].row
    BY <1>0 DEF AskRows
  <2>2. ask' = [ask EXCEPT ![c] = new] /\ ask[c].pc = "clean"
    BY <1>0, <1>4 DEF CleanFiles, AskRows
  <2> HIDE DEF new
  <2>3. Asks
    BY <1>0, <1>4, <2>1, <2>2, AskMoves DEF Asks, CleanFiles
  <2> QED
    BY <1>0, <1>4, <1>a, <2>3, RequestKeepsRest
    DEF Goal, Asks, CleanFiles, FilesInv
<1>5. CASE CheckoutFiles(c)
  <2> DEFINE new == [ask[c] EXCEPT !.pc = "note"]
             n == ask[c].row
  <2>1. new \in AskRows /\ new.row = ask[c].row
    BY <1>0 DEF AskRows
  <2>2. ask' = [ask EXCEPT ![c] = new] /\ ask[c].pc = "checkout"
    BY <1>0, <1>5 DEF CheckoutFiles, AskRows
  <2> HIDE DEF new
  <2>3. Asks
    BY <1>0, <1>5, <2>1, <2>2, AskMoves DEF Asks, CheckoutFiles
  <2>4. n \in DOMAIN rows /\ rows[n] \in CheckpointRows
    BY <1>0, <2>2
  <2>5. SnapshotOf(rows[n]) = rows[n].snap
    BY <2>4 DEF SnapshotOf, CpInv, CheckpointIsAsCaptured
  <2>6. rows[n].snap \in Contents /\ rows[n].snap # Unset
    BY <2>4 DEF CheckpointRows, CpInv, RowsInv
  <2>7. files' = [files EXCEPT ![Chief] = rows[n].snap]
    BY <1>5, <2>5 DEF CheckoutFiles
  <2>8. files' \in [Places -> Contents] /\ FilesInv'
    BY <1>0, <2>6, <2>7 DEF FilesInv
  <2> QED
    BY <1>0, <1>5, <2>3, <2>8, RequestKeepsRest
    DEF Goal, Asks, CheckoutFiles
<1>6. CASE NoteRestore(c)
  <2>1. Asks
    BY <1>0, <1>6, <1>b, AskMoves DEF Asks, NoteRestore
  <2> QED
    BY <1>0, <1>6, <2>1, RequestKeepsRest DEF Goal, Asks, NoteRestore, FilesInv
<1> QED
  BY <1>1, <1>2, <1>3, <1>4, <1>5, <1>6

(* Every step of the turns, of the requests and of the Run keeps CpInv. *)
LEMMA CpStep == CpInv /\ [CpNext]_cpVars => CpInv'
<1> SUFFICES ASSUME CpInv, [CpNext]_cpVars PROVE CpInv' OBVIOUS
<1>1. CASE PauseOrResume \/ UNCHANGED cpVars
  <2>1. /\ UNCHANGED <<files, refs, rows, registered, recorded, seat, ask,
                       restored, edits, turnsBegun>>
        /\ cpStatus' \in {"running", "paused"}
    BY <1>1 DEF PauseOrResume, cpVars, CpInv, CpTypes
  <2>2. /\ files' \in [Places -> Contents] /\ FilesInv'
        /\ ask' \in [CpClients -> AskRows] /\ AsksInv'
    BY <2>1 DEF CpInv, CpTypes, FilesInv, AsksInv
  <2> QED
    BY <2>1, <2>2, RequestKeepsRest
<1> QED
  BY <1>1, TurnStep, CaptureStep, RecordStep, RequestStep DEF CpNext

(* The checkpoints' invariant says that their state has its type. *)
LEMMA CpInvTypes == CpInv => CpTypeOK
  BY DEF CpInv, CpTypes, AsksInv, CpTypeOK, SeatRows, SeatSteps, AskRows,
         CheckpointRows

(* The checkpoints' state has its type; a restore request and a restored    *)
(* event always name a recorded row.                                        *)
THEOREM CheckpointTypeCorrect == CpSpec => []CpTypeOK
  BY CpInvTypes, CpStarts, CpStep, PTL DEF CpSpec

(* Every recorded checkpoint can be restored as captured: row n names ref n *)
(* and that ref still holds the files of the capture, for any number of     *)
(* executors, although number, ref and row are written in three steps       *)
(* between which leases lapse and daemons crash.                            *)
THEOREM CheckpointsKeepFaith == CpSpec => []CheckpointIsAsCaptured
<1>1. CpInv => CheckpointIsAsCaptured
  BY DEF CpInv
<1> QED
  BY <1>1, CpStarts, CpStep, PTL DEF CpSpec

-----------------------------------------------------------------------------
(* MCHost: the gate, the checkpoints, the restore and the daemon together.  *)

(* The state of what ends a Run and outlives a turn has its type, whichever *)
(* component moves: they share no variable, so a component keeps its        *)
(* invariant by its own step or because nothing of it changes.              *)
THEOREM HostKeepsItsTypes == Spec => []HostTypeOK
<1> DEFINE Inv == GateInv /\ CpInv /\ SvcInv /\ DaemonInv
<1>1. Init => Inv
  BY GateStarts, CpStarts, SvcStarts, DaemonStarts DEF Init
<1>2. Inv /\ [Next]_vars => Inv'
  <2>1. [Next]_vars => /\ [GateNext]_gateVars /\ [CpNext]_cpVars
                       /\ [SvcNext]_svcVars /\ [DaemonNext]_daemonVars
    BY Zenon DEF Next, vars
  <2> QED
    BY <2>1, GateStep, CpStep, SvcStep, DaemonStep
<1>3. Inv => HostTypeOK
  BY GateInvTypes, CpInvTypes, DaemonInvTypes DEF SvcInv, HostTypeOK
<1> QED
  BY <1>1, <1>2, <1>3, PTL DEF Spec
=============================================================================
