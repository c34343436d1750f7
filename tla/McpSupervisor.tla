---------------------------- MODULE McpSupervisor ----------------------------
(***************************************************************************)
(* MCP servers of a daemon: McpServerSupervisor, McpClient and the stdio   *)
(* and streamable-HTTP connections of packages/integrations/src/mcp.ts,    *)
(* driven by the reconcile timer of apps/cli/src/daemon-process.ts and by  *)
(* the turns that list and call MCP tools (packages/runtime/src/           *)
(* mcp-tools.ts).                                                          *)
(*                                                                         *)
(* Grain.  One event of the JavaScript loop, with the promise chain it     *)
(* settles on the server's own entry, is one step; the reconcile loop and  *)
(* the loop of createMcpTools go on in a step of their own.  A retry delay *)
(* is "waiting" until it is "due": how long it is (1000) is left out.      *)
(***************************************************************************)
EXTENDS Integers, FiniteSetsExt

CONSTANTS Servers,      \* the ids of the catalog, numbered in its order
          Stdio,        \* the servers spoken to over the pipes of a child
          Reconcilers,  \* bound: reconcile() calls in flight at a time
          Turns,        \* turns of Runs that use MCP tools
          MaxAttempts,  \* McpReconnectPolicy.maxAttempts
          MaxFaults     \* bound: what servers and networks do wrong

ASSUME McpAssumption ==
  /\ Servers \subseteq Nat \ {0} /\ IsFiniteSet(Servers)
  /\ Stdio \subseteq Servers
  /\ MaxAttempts \in Nat /\ MaxFaults \in Nat

VARIABLES entry,   \* ManagedMcpServer, without its connection
          conn,    \* its newest connection, and how far connectEntry got
          pass,    \* the reconcile() calls
          turn,    \* the turns
          life,    \* the daemon: "boot", "up" or "closed"
          faults

mcpVars == <<entry, conn, pass, turn, life, faults>>

None == 0
Idle == [at |-> None, waits |-> None, late |-> {}]
NoTurn == [todo |-> {}, surface |-> {}, on |-> None, kind |-> "list",
           wait |-> "ended", opener |-> FALSE]

McpTypeOK ==
  /\ entry \in [Servers -> [desired : {"connected", "disconnected"},
                            state : {"disconnected", "connecting", "connected",
                                     "reconnecting", "failed"},
                            attempt : Nat,
                            retry : {"none", "waiting", "due"},
                            client : BOOLEAN]]
  /\ conn \in [Servers -> [step : {"idle", "spawning", "initialize", "notify"},
                           wire : {"none", "open", "closed"}]]
  /\ pass \in [Reconcilers -> [at : Nat, waits : Servers \cup {None},
                               late : SUBSET Servers]]
  /\ turn \in [Turns -> [todo : SUBSET Servers, surface : SUBSET Servers,
                         on : Servers \cup {None}, kind : {"list", "call"},
                         wait : {"ended", "free", "connect", "reply"},
                         opener : BOOLEAN]]
  /\ life \in {"boot", "up", "closed"}
  /\ faults \in 0 .. MaxFaults

(* main() awaits one reconcile before anything else runs. *)
McpInit ==
  /\ entry = [s \in Servers |-> [desired |-> "connected",
                                 state |-> "disconnected", attempt |-> 0,
                                 retry |-> "none", client |-> FALSE]]
  /\ conn = [s \in Servers |-> [step |-> "idle", wire |-> "none"]]
  /\ LET boot == CHOOSE r \in Reconcilers : TRUE   \* any: they are alike
     IN  pass = [r \in Reconcilers |-> IF r = boot THEN [Idle EXCEPT !.at = 1]
                                                   ELSE Idle]
  /\ turn = [t \in Turns |-> NoTurn]
  /\ life = "boot"
  /\ faults = 0

---------------------------------------------------------------------------
(* Entries and connections. *)

(* Mutant of Opening: a state the entry does not know. *)
MutantOpening(e) == [e EXCEPT !.state = "opening"]

Opening(e) ==
  [e EXCEPT !.state = IF e.attempt = 0 THEN "connecting" ELSE "reconnecting"]

(* The connection of connectEntry before the server has said anything: a   *)
(* child is being spawned, or the initialize request has been posted.      *)
Dial(s) == IF s \in Stdio
           THEN [step |-> "spawning", wire |-> "none"]
           ELSE [step |-> "initialize", wire |-> "open"]

(* open, which is not called while a client or connectEntry is there. *)
OpenedEntry(s, e) == [Opening(e) EXCEPT !.client = s \notin Stdio]

(* Mutant of RecordFailure: the dead client stays. *)
MutantRecordFailure(e, retryable) ==
  LET again == retryable /\ e.attempt + 1 < MaxAttempts
  IN  [e EXCEPT !.attempt = @ + 1,
                !.retry = IF again THEN "waiting" ELSE "none",
                !.state = IF again THEN "reconnecting" ELSE "failed"]

RecordFailure(e, retryable) ==
  LET again == /\ e.desired = "connected" /\ retryable
               /\ e.attempt + 1 < MaxAttempts
  IN  [e EXCEPT !.client = FALSE,
                !.attempt = @ + 1,
                !.retry = IF again THEN "waiting" ELSE "none",
                !.state = IF again THEN "reconnecting" ELSE "failed"]

(* close() of a connection *)
Hangup(c) == IF c.wire = "open" THEN [c EXCEPT !.wire = "closed"] ELSE c

(* What pends on the pipes of a child when they are given up is rejected;  *)
(* a request over HTTP is answered all the same.                           *)
Rejected(s, t) ==
  IF turn[t].wait = "reply" /\ turn[t].on = s /\ s \in Stdio
  THEN [turn[t] EXCEPT !.wait = "free", !.on = None] ELSE turn[t]

(* Mutant of HungUp: pending requests are forgotten. *)
MutantHungUp(s) == turn

HungUp(s) == [t \in Turns |-> Rejected(s, t)]

(* Those that await connectEntry of s go on: a turn sends its request, if  *)
(* there is a connection to send it on, and a reconcile takes the next.    *)
(* What pends on a connection that was given up is rejected.               *)
Resumed(s, sent) ==
  [t \in Turns |->
     IF turn[t].wait = "connect" /\ turn[t].on = s
     THEN [turn[t] EXCEPT !.wait = IF sent THEN "reply" ELSE "free",
                          !.on = IF sent THEN s ELSE None,
                          !.opener = FALSE]
     ELSE IF sent THEN turn[t] ELSE Rejected(s, t)]

Passed(s, e) ==
  [r \in Reconcilers |->
     LET p == IF pass[r].waits = s
              THEN [pass[r] EXCEPT !.waits = None, !.at = s + 1]
              ELSE pass[r]
     IN  IF e.retry = "waiting" /\ p.at # None
         THEN [p EXCEPT !.late = @ \cup {s}] ELSE p]

(* connectEntry settles with a failure: closeEntry, then recordFailure. *)
ConnectFails(s, e, retryable) ==
  LET failed == RecordFailure(e, retryable)
  IN  /\ entry' = [entry EXCEPT ![s] = failed]
      /\ conn' = [conn EXCEPT ![s] = [Hangup(@) EXCEPT !.step = "idle"]]
      /\ turn' = Resumed(s, FALSE)
      /\ pass' = Passed(s, failed)
      /\ UNCHANGED life

Fault == faults < MaxFaults /\ faults' = faults + 1

---------------------------------------------------------------------------
(* What happens to a connection. *)

(* The child runs: the client is installed whatever became of the desired  *)
(* state, and asks to initialize.                                          *)
SpawnOk(s) ==
  /\ conn[s].step = "spawning"
  /\ conn' = [conn EXCEPT ![s] = [step |-> "initialize", wire |-> "open"]]
  /\ entry' = [entry EXCEPT ![s].client = TRUE]
  /\ UNCHANGED <<pass, turn, life, faults>>

SpawnFails(s) ==
  /\ conn[s].step = "spawning"
  /\ Fault
  /\ ConnectFails(s, entry[s], TRUE)

(* The result of initialize: the client then notifies, which fails at once *)
(* on a connection that was closed meanwhile.                              *)
InitializeAnswered(s) ==
  /\ conn[s].step = "initialize"
  /\ UNCHANGED faults
  /\ IF conn[s].wire = "open"
     THEN /\ conn' = [conn EXCEPT ![s].step = "notify"]
          /\ UNCHANGED <<entry, pass, turn, life>>
     ELSE ConnectFails(s, entry[s], FALSE)

(* An error response, a malformed result, or an HTTP failure. *)
InitializeRefused(s) ==
  /\ conn[s].step = "initialize"
  /\ Fault
  /\ \E retryable \in BOOLEAN : ConnectFails(s, entry[s], retryable)

(* The notification is written: the server is connected, even if its       *)
(* connection was lost or closed while the write was pending.              *)
InitializedNotified(s) ==
  /\ conn[s].step = "notify"
  /\ entry' = [entry EXCEPT ![s].state = "connected", ![s].attempt = 0,
                            ![s].retry = "none"]
  /\ conn' = [conn EXCEPT ![s].step = "idle"]
  /\ turn' = Resumed(s, conn[s].wire = "open")
  /\ pass' = Passed(s, entry'[s])
  /\ UNCHANGED <<life, faults>>

(* A pipe that breaks may be tried again, a 4xx answer to the post may not. *)
NotifyFails(s) ==
  /\ conn[s].step = "notify"
  /\ Fault
  /\ \E retryable \in BOOLEAN : /\ s \in Stdio => retryable
                                /\ ConnectFails(s, entry[s], retryable)

(* finish: the child exits, or writes a line that is no JSON-RPC message.  *)
(* The close listener counts a failure; so does connectEntry, when the     *)
(* rejected request is its own.                                            *)
ConnectionLost(s) ==
  /\ s \in Stdio /\ conn[s].wire = "open"
  /\ Fault
  /\ \E retryable \in BOOLEAN :
       LET gone == [entry[s] EXCEPT !.client = FALSE]
           heard == IF gone.desired = "connected"
                    THEN RecordFailure(gone, retryable) ELSE gone
           cut == [conn[s] EXCEPT !.wire = "closed"]
       IN  IF conn[s].step = "initialize"
           THEN LET failed == RecordFailure(heard, retryable)
                IN  /\ entry' = [entry EXCEPT ![s] = failed]
                    /\ conn' = [conn EXCEPT ![s] = [cut EXCEPT !.step = "idle"]]
                    /\ turn' = Resumed(s, FALSE)
                    /\ pass' = Passed(s, failed)
           ELSE /\ entry' = [entry EXCEPT ![s] = heard]
                /\ conn' = [conn EXCEPT ![s] = cut]
                /\ turn' = HungUp(s)
                /\ pass' = [r \in Reconcilers |->
                              IF heard.retry = "waiting" /\ pass[r].at # None
                              THEN [pass[r] EXCEPT !.late = @ \cup {s}]
                              ELSE pass[r]]
  /\ UNCHANGED life

---------------------------------------------------------------------------
(* reconcile. *)

(* Time passes: a server may be tried again. *)
RetryDue(s) ==
  /\ entry[s].retry = "waiting"
  /\ entry' = [entry EXCEPT ![s].retry = "due"]
  /\ UNCHANGED <<conn, pass, turn, life, faults>>

(* The interval of main(), once the first reconcile has returned. *)
ReconcileStart(r) ==
  /\ life = "up" /\ pass[r].at = None
  /\ pass' = [pass EXCEPT ![r] =
                [at |-> 1, waits |-> None,
                 late |-> {s \in Servers : entry[s].retry = "waiting"}]]
  /\ UNCHANGED <<entry, conn, turn, life, faults>>

ToReconcile(r) ==
  {s \in Servers :
     /\ s >= pass[r].at
     /\ entry[s].desired = "connected" /\ ~entry[s].client
     /\ conn[s].step = "idle" /\ entry[s].state # "failed"
     /\ entry[s].retry # "none" => s \notin pass[r].late}

(* The loop of reconcile up to its next await, or to its end. *)
ReconcileNext(r) ==
  /\ pass[r].at # None /\ pass[r].waits = None
  /\ IF ToReconcile(r) = {}
     THEN /\ pass' = [pass EXCEPT ![r] = Idle]
          /\ life' = IF life = "boot" THEN "up" ELSE life
          /\ UNCHANGED <<entry, conn>>
     ELSE LET s == Min(ToReconcile(r))
          IN  /\ pass' = [pass EXCEPT ![r].waits = s]
              /\ entry' = [entry EXCEPT ![s] = OpenedEntry(s, @)]
              /\ conn' = [conn EXCEPT ![s] = Dial(s)]
              /\ UNCHANGED life
  /\ UNCHANGED <<turn, faults>>

---------------------------------------------------------------------------
(* Turns. *)

(* A turn builds its tools from the servers that are connected now. *)
TurnStart(t) ==
  /\ life = "up" /\ turn[t].wait = "ended"
  /\ turn' = [turn EXCEPT ![t] =
                [NoTurn EXCEPT !.wait = "free",
                   !.todo = {s \in Servers : entry[s].state = "connected"}]]
  /\ UNCHANGED <<entry, conn, pass, life, faults>>

Wanted(e) ==
  IF e.state = "failed"
  THEN [e EXCEPT !.desired = "connected", !.attempt = 0, !.retry = "none",
                 !.state = "disconnected"]
  ELSE [e EXCEPT !.desired = "connected"]

(* The client's own listTools and callTool: refused before initialize ends *)
Serves(s) == conn[s].step # "initialize"

(* listTools and callTool connect first; a client that is still waiting     *)
(* for initialize is returned as it is.                                     *)
Connect(t, s, asked) ==
  /\ \/ /\ entry[s].client
        /\ turn' = [turn EXCEPT ![t] =
             IF Serves(s) THEN [asked EXCEPT !.on = s, !.wait = "reply"]
                          ELSE [asked EXCEPT !.wait = "free"]]
        /\ entry' = [entry EXCEPT ![s] = Wanted(@)]
        /\ UNCHANGED conn
     \/ /\ ~entry[s].client /\ conn[s].step # "idle"
        /\ turn' = [turn EXCEPT ![t] = [asked EXCEPT !.on = s,
                                                     !.wait = "connect"]]
        /\ entry' = [entry EXCEPT ![s] = Wanted(@)]
        /\ UNCHANGED conn
     \/ /\ ~entry[s].client /\ conn[s].step = "idle"
        /\ turn' = [turn EXCEPT ![t] = [asked EXCEPT !.on = s, !.opener = TRUE,
                                                     !.wait = "connect"]]
        /\ entry' = [entry EXCEPT ![s] = OpenedEntry(s, Wanted(@))]
        /\ conn' = [conn EXCEPT ![s] = Dial(s)]
  /\ UNCHANGED <<pass, life, faults>>

TurnLists(t) ==
  /\ turn[t].wait = "free" /\ turn[t].todo # {}
  /\ LET s == Min(turn[t].todo)
     IN  Connect(t, s, [turn[t] EXCEPT !.todo = @ \ {s}, !.kind = "list"])

TurnCalls(t) ==
  /\ turn[t].wait = "free" /\ turn[t].todo = {}
  /\ \E s \in turn[t].surface :
       Connect(t, s, [turn[t] EXCEPT !.kind = "call"])

(* The response arrives: over a pipe only while the connection is open. *)
Answered(t) ==
  /\ turn[t].wait = "reply"
  /\ turn[t].on \in Stdio => conn[turn[t].on].wire = "open"
  /\ \E ok \in BOOLEAN :
       turn' = [turn EXCEPT ![t] =
                  [turn[t] EXCEPT !.wait = "free", !.on = None,
                     !.surface = @ \cup {s \in {turn[t].on} : ok /\ turn[t].kind = "list"}]]
  /\ UNCHANGED <<entry, conn, pass, life, faults>>

(* The Run is paused or cancelled while the turn calls a tool.  The signal *)
(* also ends the initialize request of a connection the call opened.       *)
TurnAborted(t) ==
  /\ turn[t].kind = "call" /\ Fault
  /\ \/ /\ turn[t].wait = "reply"
        /\ turn' = [turn EXCEPT ![t].wait = "free", ![t].on = None]
        /\ UNCHANGED <<entry, conn, pass, life>>
     \/ /\ turn[t].wait = "connect" /\ turn[t].opener
        /\ conn[turn[t].on].step = "initialize"
        /\ ConnectFails(turn[t].on, entry[turn[t].on], turn[t].on \notin Stdio)

TurnEnds(t) ==
  /\ turn[t].wait = "free" /\ turn[t].todo = {}
  /\ turn' = [turn EXCEPT ![t] = NoTurn]
  /\ UNCHANGED <<entry, conn, pass, life, faults>>

---------------------------------------------------------------------------
(* setDesiredState(id, "disconnected"): closeEntry, the writes of           *)
(* setDesiredState, and then the failure of a connectEntry whose request    *)
(* closeEntry rejected.                                                     *)
Disconnected(s) ==
  LET e == [entry[s] EXCEPT !.desired = "disconnected", !.client = FALSE,
                            !.state = "disconnected", !.attempt = 0,
                            !.retry = "none"]
  IN  IF entry[s].client /\ s \in Stdio /\ conn[s].step = "initialize"
      THEN RecordFailure(e, FALSE) ELSE e

(* The daemon stops: the turns have ended; every server is disconnected,   *)
(* and a reconcile that is in flight is not waited for.                    *)
Shutdown ==
  /\ life = "up" /\ \A t \in Turns : turn[t].wait = "ended"
  /\ life' = "closed"
  /\ entry' = [s \in Servers |-> Disconnected(s)]
  /\ conn' = [s \in Servers |->
                IF ~entry[s].client THEN conn[s]
                ELSE IF s \in Stdio /\ conn[s].step = "initialize"
                     THEN [Hangup(conn[s]) EXCEPT !.step = "idle"]
                     ELSE Hangup(conn[s])]
  /\ pass' = [r \in Reconcilers |->
                IF pass[r].waits # None /\ conn'[pass[r].waits].step = "idle"
                THEN [pass[r] EXCEPT !.waits = None, !.at = pass[r].waits + 1]
                ELSE pass[r]]
  /\ UNCHANGED <<turn, faults>>

McpNext ==
  \/ \E s \in Servers :
       \/ SpawnOk(s) \/ SpawnFails(s)
       \/ InitializeAnswered(s) \/ InitializeRefused(s)
       \/ InitializedNotified(s) \/ NotifyFails(s)
       \/ ConnectionLost(s) \/ RetryDue(s)
  \/ \E r \in Reconcilers : ReconcileStart(r) \/ ReconcileNext(r)
  \/ \E t \in Turns : \/ TurnStart(t) \/ TurnLists(t) \/ TurnCalls(t)
                      \/ Answered(t) \/ TurnAborted(t) \/ TurnEnds(t)
  \/ Shutdown

McpSpec == McpInit /\ [][McpNext]_mcpVars

---------------------------------------------------------------------------
(* The supervisor's client of a server is its open connection: none that   *)
(* was lost or closed stays behind in the entry, where open() would hand   *)
(* it out for ever, and no open one is left with nobody to close it.  And  *)
(* once as many failures are counted as the policy allows, reconcile does  *)
(* not try again: the entry waits for a caller that asks for it.           *)
ServersAreSupervised ==
  \A s \in Servers :
    /\ entry[s].client <=> conn[s].wire = "open"
    /\ entry[s].desired = "connected" /\ conn[s].step = "idle"
         /\ entry[s].attempt >= MaxAttempts /\ entry[s].attempt > 0
         => entry[s].state = "failed"

(* Nobody waits for what cannot come: a call that awaits a connection has  *)
(* a connectEntry that will settle, and one that awaits a response over    *)
(* pipes has the pipes.  (finish and the finally of open see to it.)       *)
McpCallsCanReturn ==
  /\ \A t \in Turns :
       /\ turn[t].wait = "connect" => conn[turn[t].on].step # "idle"
       /\ turn[t].wait = "reply" /\ turn[t].on \in Stdio
            => conn[turn[t].on].wire = "open"
  /\ \A r \in Reconcilers :
       pass[r].waits # None => conn[pass[r].waits].step # "idle"

(* A server that never answers what connectEntry sent it: no request has a *)
(* timeout.                                                                *)
Silent(s) ==
  <>[](\/ conn[s].step = "initialize"
       \/ conn[s].step = "notify" /\ s \notin Stdio)

(* It has answered initialize and its connection is there, it is given up, *)
(* or the daemon stops.                                                    *)
Settled(s) ==
  \/ entry[s].client /\ entry[s].state = "connected"
  \/ entry[s].state = "failed"
  \/ life = "closed"

(* Supervision does not lose a server: one that is to be connected is, or  *)
(* is given up, however its connections die in between (reconcile,         *)
(* recordFailure), unless it is silent itself.  Another server's silence   *)
(* holds it up only where main() awaits the first reconcile, though "one   *)
(* broken server must not stop others" (mcp.ts:889).                       *)
SupervisionSettles ==
  \A s \in Servers :
    \/ [](entry[s].desired = "connected" => <>Settled(s))
    \/ Silent(s)
    \/ [](life = "boot") /\ \E q \in Servers : Silent(q)
=============================================================================
