---------------------------- MODULE DaemonControl ----------------------------
(***************************************************************************)
(* The local daemon and the command line that starts and stops it          *)
(* (apps/cli/src/daemon-client.ts, daemon-process.ts; start, close and     *)
(* /v1/daemon/shutdown of packages/server).  Daemons compete for one port; *)
(* the descriptor file names the process and the instance a later stop     *)
(* goes for.  Two commands may run at the same time, daemons crash, and    *)
(* the system may give a dead process's id to another program.             *)
(*                                                                         *)
(* A daemon's instance id is unique, so the number of its spawn stands for *)
(* both its pid and its instance.  0 is an absent pid or instance.         *)
(***************************************************************************)
EXTENDS Naturals

CONSTANTS Clis,
          MaxSpawns,     \* bound: daemons spawned
          MaxCommands    \* bound: start, stop and restart commands given

ASSUME DaemonAssumption == MaxSpawns \in Nat /\ MaxCommands \in Nat

Pids == 1 .. MaxSpawns
NoDescriptor == [pid |-> 0, inst |-> 0, present |-> FALSE]
IdleCli == [pc |-> "idle", restart |-> FALSE, child |-> 0, inst |-> 0,
            desc |-> NoDescriptor]

VARIABLES proc,        \* what each pid is: a daemon's phase, or a stranger
          descriptor,  \* daemon.json
          cli,         \* the command of each terminal
          commands

daemonVars == <<proc, descriptor, cli, commands>>

DaemonTypeOK ==
  /\ proc \in [Pids -> {"unborn", "booting", "serving", "draining", "closed",
                        "dead", "stranger"}]
  /\ descriptor.pid \in 0 .. MaxSpawns /\ descriptor.inst \in 0 .. MaxSpawns
  /\ \A c \in Clis :
       cli[c].pc \in {"idle", "probe", "adopt", "spawn", "wait", "identify", "write",
                      "stop", "verify", "ask", "await", "kill", "linger", "forget"}
  /\ \A p, q \in Pids : proc[p] \in {"serving", "draining"} /\
       proc[q] \in {"serving", "draining"} => p = q

DaemonInit ==
  /\ proc = [p \in Pids |-> "unborn"]
  /\ descriptor = NoDescriptor
  /\ cli = [c \in Clis |-> IdleCli]
  /\ commands = 0

-----------------------------------------------------------------------------
(* The port is held from listen until http.close *)
Answering == {p \in Pids : proc[p] \in {"serving", "draining"}}
(* isProcessAlive cannot tell a daemon from another program *)
Alive(p) == p # 0 /\ proc[p] \notin {"unborn", "dead"}

Cli(c, pc) == cli[c].pc = pc
Goes(c, pc) == cli' = [cli EXCEPT ![c].pc = pc]
Finishes(c) == cli' = [cli EXCEPT ![c] = IdleCli]
OnlyCli == UNCHANGED <<proc, descriptor, commands>>

(* daemon start, stop or restart *)
Command(c, pc, restart) ==
  /\ Cli(c, "idle") /\ commands < MaxCommands
  /\ commands' = commands + 1
  /\ cli' = [cli EXCEPT ![c] = [IdleCli EXCEPT !.pc = pc, !.restart = restart]]
  /\ UNCHANGED <<proc, descriptor>>

(* startDaemon asks whether a daemon is ready at the URL *)
ProbeDaemon(c) ==
  /\ Cli(c, "probe")
  /\ IF Answering = {} THEN Goes(c, "spawn")
     ELSE IF descriptor.present THEN Finishes(c) ELSE Goes(c, "adopt")
  /\ OnlyCli

(* A running daemon without a descriptor gets one with no pid, no instance *)
AdoptDaemon(c) ==
  /\ Cli(c, "adopt")
  /\ descriptor' = [pid |-> 0, inst |-> 0, present |-> TRUE]
  /\ Finishes(c)
  /\ UNCHANGED <<proc, commands>>

SpawnDaemon(c) ==
  \E p \in Pids :
    /\ Cli(c, "spawn")
    /\ proc[p] = "unborn" /\ \A q \in 1 .. p - 1 : proc[q] # "unborn"
    /\ proc' = [proc EXCEPT ![p] = "booting"]
    /\ cli' = [cli EXCEPT ![c].pc = "wait", ![c].child = p]
    /\ UNCHANGED <<descriptor, commands>>

(* waitForReady is content with whoever answers, or gives up in time *)
BecomesReady(c) ==
  Cli(c, "wait") /\ Answering # {} /\ Goes(c, "identify") /\ OnlyCli
StartTimesOut(c) == Cli(c, "wait") /\ Finishes(c) /\ OnlyCli

(* health names the instance that answers now; nobody answering throws *)
IdentifyDaemon(c) ==
  /\ Cli(c, "identify")
  /\ IF Answering = {} THEN Finishes(c)
     ELSE \E p \in Answering :
            cli' = [cli EXCEPT ![c].pc = "write", ![c].inst = p]
  /\ OnlyCli

WriteDescriptor(c) ==
  /\ Cli(c, "write")
  /\ descriptor' = [pid |-> cli[c].child, inst |-> cli[c].inst, present |-> TRUE]
  /\ Finishes(c)
  /\ UNCHANGED <<proc, commands>>

-----------------------------------------------------------------------------
(* stopDaemon: what the descriptor names must be alive and have an identity *)
ReadDescriptor(c) ==
  LET d == descriptor IN
  /\ Cli(c, "stop")
  /\ cli' = [cli EXCEPT
       ![c].desc = d,
       ![c].pc = CASE ~d.present -> IF cli[c].restart THEN "probe" ELSE "idle"
                   [] d.present /\ ~Alive(d.pid) -> "forget"
                   [] OTHER -> IF d.inst = 0 THEN "idle" ELSE "verify"]
  /\ OnlyCli

(* The endpoint must answer with the descriptor's instance, or stop throws *)
VerifyInstance(c) ==
  /\ Cli(c, "verify")
  /\ IF cli[c].desc.inst \in Answering THEN Goes(c, "ask") ELSE Finishes(c)
  /\ OnlyCli

(* POST /v1/daemon/shutdown: the daemon refuses another instance's name *)
Accepts(p, named) == p = named
AskShutdown(c) ==
  /\ Cli(c, "ask")
  /\ \E p \in Answering :
       /\ Accepts(p, cli[c].desc.inst)
       /\ proc' = [proc EXCEPT ![p] = "draining"]
  /\ Goes(c, "await")
  /\ UNCHANGED <<descriptor, commands>>
(* Mutant of ShutdownFails: a request that failed is taken for a stop. *)
MutantShutdownFails(c) == Cli(c, "ask") /\ Goes(c, "forget") /\ OnlyCli

(* Refused, nobody there, or the answer is lost: the signal is left *)
ShutdownFails(c) == Cli(c, "ask") /\ Goes(c, "kill") /\ OnlyCli

(* hasStopped, or its five seconds are over *)
Stopped(c) == Cli(c, "await") /\ ~Alive(cli[c].desc.pid) /\ Goes(c, "forget") /\ OnlyCli

StopTimesOut(c) == Cli(c, "await") /\ Alive(cli[c].desc.pid) /\ Goes(c, "kill") /\ OnlyCli

(* SIGTERM: a serving daemon closes in order, one that boots just dies *)
KillDaemon(c) ==
  LET p == cli[c].desc.pid IN
  /\ Cli(c, "kill")
  /\ IF ~Alive(p) THEN Goes(c, "forget") /\ UNCHANGED proc
     ELSE /\ Goes(c, "linger")
          /\ proc' = [proc EXCEPT ![p] =
               IF @ \in {"booting", "stranger"} THEN "dead"
               ELSE IF @ = "serving" THEN "draining" ELSE @]
  /\ UNCHANGED <<descriptor, commands>>
KilledInTime(c) ==
  Cli(c, "linger") /\ ~Alive(cli[c].desc.pid) /\ Goes(c, "forget") /\ OnlyCli
KillTimesOut(c) ==
  Cli(c, "linger") /\ Alive(cli[c].desc.pid) /\ Finishes(c) /\ OnlyCli

(* removeDaemonDescriptor removes whatever descriptor is there by now *)
ForgetDescriptor(c) ==
  /\ Cli(c, "forget")
  /\ descriptor' = NoDescriptor
  /\ IF cli[c].restart
     THEN cli' = [cli EXCEPT ![c] = [IdleCli EXCEPT !.pc = "probe"]]
     ELSE Finishes(c)
  /\ UNCHANGED <<proc, commands>>

-----------------------------------------------------------------------------
Becomes(p, phase) ==
  /\ proc' = [proc EXCEPT ![p] = phase]
  /\ UNCHANGED <<descriptor, cli, commands>>

(* Mutant of Listen: two daemons share the port. *)
MutantListen(p) == proc[p] = "booting" /\ Becomes(p, "serving")

(* main: start listens; a port in use ends the process *)
Listen(p) ==
  proc[p] = "booting" /\ Becomes(p, IF Answering = {} THEN "serving" ELSE "dead")
(* shutdown: the scheduler stops, then the server closes, then main returns *)
CloseServer(p) == proc[p] = "draining" /\ Becomes(p, "closed")
ProcessExits(p) == proc[p] = "closed" /\ Becomes(p, "dead")
ProcessCrashes(p) ==
  proc[p] \in {"booting", "serving", "draining", "closed"} /\ Becomes(p, "dead")
PidReused(p) == proc[p] = "dead" /\ Becomes(p, "stranger")

DaemonNext ==
  \/ \E c \in Clis :
       \/ Command(c, "probe", FALSE) \/ Command(c, "stop", FALSE)
       \/ Command(c, "stop", TRUE)
       \/ ProbeDaemon(c) \/ AdoptDaemon(c) \/ SpawnDaemon(c) \/ BecomesReady(c)
       \/ StartTimesOut(c) \/ IdentifyDaemon(c) \/ WriteDescriptor(c)
       \/ ReadDescriptor(c) \/ VerifyInstance(c) \/ AskShutdown(c)
       \/ ShutdownFails(c) \/ Stopped(c) \/ StopTimesOut(c) \/ KillDaemon(c)
       \/ KilledInTime(c) \/ KillTimesOut(c) \/ ForgetDescriptor(c)
  \/ \E p \in Pids :
       Listen(p) \/ CloseServer(p) \/ ProcessExits(p) \/ ProcessCrashes(p)
       \/ PidReused(p)

DaemonSpec == DaemonInit /\ [][DaemonNext]_daemonVars

(* The steps that a given command takes once it runs.  Its waits have time  *)
(* limits of 10 and 5 s, so a command whose daemon hangs goes on as well.   *)
CommandStep(c) ==
  \/ ProbeDaemon(c) \/ AdoptDaemon(c) \/ SpawnDaemon(c) \/ BecomesReady(c)
  \/ StartTimesOut(c) \/ IdentifyDaemon(c) \/ WriteDescriptor(c)
  \/ ReadDescriptor(c) \/ VerifyInstance(c) \/ AskShutdown(c) \/ ShutdownFails(c)
  \/ Stopped(c) \/ StopTimesOut(c) \/ KillDaemon(c) \/ KilledInTime(c)
  \/ KillTimesOut(c) \/ ForgetDescriptor(c)

CommandFairness == \A c \in Clis : WF_daemonVars(CommandStep(c))

-----------------------------------------------------------------------------
(* A daemon that is told to stop does so in the end: DurableDaemon.close    *)
(* waits for the turns in flight, and none of them hangs.                   *)
DaemonsDrain == \A p \in Pids : WF_daemonVars(CloseServer(p))

(* A stop that has verified the daemon its descriptor names takes it off    *)
(* the port, be the request accepted, refused or lost, whoever else starts, *)
(* stops or restarts daemons meanwhile: the signal makes up for a request   *)
(* that failed (stopDaemon, handleShutdown).  The descriptor's pid must be  *)
(* that daemon's: DescriptorNamesServer.                                    *)
StopTakesEffect ==
  DaemonsDrain =>
    \A c \in Clis, p \in Pids :
      cli[c].pc = "ask" /\ cli[c].desc.pid = p /\ cli[c].desc.inst = p
        ~> p \notin Answering

(* "so the descriptor PID always identifies the process that owns the       *)
(* server", daemon-client.ts:297-298: a descriptor whose instance answers   *)
(* holds that instance's pid.                                               *)
DescriptorNamesServer ==
  descriptor.pid # 0 /\ descriptor.inst \in Answering => descriptor.pid = descriptor.inst
=============================================================================
