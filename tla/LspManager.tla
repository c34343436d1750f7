----------------------------- MODULE LspManager -----------------------------
(***************************************************************************)
(* Language servers of a daemon: LspServerManager of packages/runtime/src/ *)
(* lsp-tools.ts over LspClient and NodeLspConnection of packages/          *)
(* integrations/src/lsp.ts, for one server template, one workspace and one *)
(* document, used by the turns of several Runs.                            *)
(*                                                                         *)
(* Grain.  As in McpSupervisor: one event of the JavaScript loop with what *)
(* it does to a client is a step, and a tool call goes on in a step of its *)
(* own.  What diagnostics and symbols say is left out.                     *)
(***************************************************************************)
EXTENDS Naturals

CONSTANTS Callers,     \* turns that use the language server
          MaxClients,  \* bound: LspClients made
          MaxLspFaults \* bound: what servers do wrong

ASSUME LspAssumption == MaxClients \in Nat /\ MaxLspFaults \in Nat

Clients == 1 .. MaxClients
NoClient == 0

VARIABLES client,   \* the LspClients and their connections
          made,     \* how many there are
          cached,   \* LspServerManager.clients
          opened,   \* openDocuments holds the document
          caller,   \* the tool calls
          manager,  \* "up" or "closed"
          lspFaults

lspVars == <<client, made, cached, opened, caller, manager, lspFaults>>

NewClient == [state |-> "new", step |-> "none", wire |-> "none",
              doc |-> FALSE]
Returned == [pc |-> "idle", c |-> NoClient, then |-> "wait", tool |-> "ask"]

LspTypeOK ==
  /\ client \in [Clients ->
       [state : {"new", "initializing", "initialized", "shutting_down",
                 "stopped", "failed"},
        step : {"none", "spawning", "initialize", "notify"},
        wire : {"none", "open", "closed"}, doc : BOOLEAN]]
  /\ made \in 0 .. MaxClients
  /\ cached \in 0 .. made
  /\ opened \in BOOLEAN
  /\ caller \in [Callers ->
       [pc : {"idle", "readFile", "clientFor", "initializing", "got",
              "opening", "publish", "reply"},
        c : 0 .. made, then : {"open", "wait", "read", "ask"},
        tool : {"diagnostics", "ask", "context"}]]
  /\ manager \in {"up", "closed"}
  /\ lspFaults \in 0 .. MaxLspFaults

LspInit ==
  /\ client = [c \in Clients |-> NewClient]
  /\ made = 0 /\ cached = NoClient /\ opened = FALSE
  /\ caller = [k \in Callers |-> Returned]
  /\ manager = "up" /\ lspFaults = 0

LspFault == lspFaults < MaxLspFaults /\ lspFaults' = lspFaults + 1

---------------------------------------------------------------------------
(* Tool calls. *)

Goto(k, pc, then) == [caller[k] EXCEPT !.pc = pc, !.then = then,
                                       !.c = NoClient]

(* What comes after ensureOpenDocument. *)
AfterOpen(k) ==
  Goto(k, "clientFor", IF caller[k].tool = "diagnostics" THEN "wait" ELSE "ask")

(* lsp_diagnostics, lsp_document_symbols and lsp_definition *)
ToolStart(k, tool) ==
  /\ manager = "up" /\ caller[k].pc = "idle"
  /\ LET asked == [Returned EXCEPT !.tool = tool]
     IN  caller' = [caller EXCEPT ![k] =
           IF ~opened THEN [asked EXCEPT !.pc = "readFile"]
           ELSE [asked EXCEPT !.pc = "clientFor",
                   !.then = IF tool = "diagnostics" THEN "wait" ELSE "ask"]]
  /\ UNCHANGED <<client, made, cached, opened, manager, lspFaults>>

(* diagnostics: the context compiler reads what was published *)
ContextStart(k) ==
  /\ manager = "up" /\ caller[k].pc = "idle"
  /\ caller' = [caller EXCEPT ![k] =
       [Returned EXCEPT !.tool = "context", !.pc = "clientFor", !.then = "read"]]
  /\ UNCHANGED <<client, made, cached, opened, manager, lspFaults>>

(* ensureOpenDocument reads the file, which may be gone. *)
FileRead(k) ==
  /\ caller[k].pc = "readFile"
  /\ \E found \in BOOLEAN :
       caller' = [caller EXCEPT ![k] = IF found THEN Goto(k, "clientFor", "open")
                                                ELSE Returned]
  /\ UNCHANGED <<client, made, cached, opened, manager, lspFaults>>

(* clientFor: the client of the workspace, or a new one to initialize. *)
ClientFor(k) ==
  /\ caller[k].pc = "clientFor"
  /\ \/ /\ cached # NoClient
        /\ caller' = [caller EXCEPT ![k].pc = "got", ![k].c = cached]
        /\ UNCHANGED <<client, made>>
     \/ /\ cached = NoClient /\ made < MaxClients
        /\ made' = made + 1
        /\ client' = [client EXCEPT ![made + 1].state = "initializing",
                                    ![made + 1].step = "spawning"]
        /\ caller' = [caller EXCEPT ![k].pc = "initializing",
                                    ![k].c = made + 1]
  /\ UNCHANGED <<cached, opened, manager, lspFaults>>

Usable(c) == client[c].state = "initialized" /\ client[c].wire = "open"

(* The call has its client, or none because initialize failed. *)
Got(k, then) == caller[k].pc = "got" /\ caller[k].then = then

(* ensureOpenDocument: without a client the document counts as open, a      *)
(* client that cannot be notified is an error                               *)
OpensNowhere(k) ==
  /\ Got(k, "open") /\ caller[k].c = NoClient
  /\ opened' = TRUE
  /\ caller' = [caller EXCEPT ![k] = AfterOpen(k)]
  /\ UNCHANGED <<client, made, cached, manager, lspFaults>>

OpenRefused(k) ==
  /\ Got(k, "open") /\ caller[k].c # NoClient /\ ~Usable(caller[k].c)
  /\ caller' = [caller EXCEPT ![k] = Returned]
  /\ UNCHANGED <<client, made, cached, opened, manager, lspFaults>>

OpenDocument(k) ==
  /\ Got(k, "open") /\ caller[k].c # NoClient /\ Usable(caller[k].c)
  /\ client' = [client EXCEPT ![caller[k].c].doc = TRUE]
  /\ caller' = [caller EXCEPT ![k].pc = "opening"]
  /\ UNCHANGED <<made, cached, opened, manager, lspFaults>>

(* waitForDiagnostics listens; diagnosticsFor returns at once *)
ListenForDiagnostics(k) ==
  /\ Got(k, "wait")
  /\ caller' = [caller EXCEPT ![k].pc = "publish"]
  /\ UNCHANGED <<client, made, cached, opened, manager, lspFaults>>

ReadDiagnostics(k) ==
  /\ Got(k, "read")
  /\ caller' = [caller EXCEPT ![k] = Returned]
  /\ UNCHANGED <<client, made, cached, opened, manager, lspFaults>>

(* documentSymbols and definition: a request, or an error *)
AskServer(k) ==
  /\ Got(k, "ask")
  /\ caller' = [caller EXCEPT ![k] =
       IF caller[k].c # NoClient /\ Usable(caller[k].c)
       THEN [caller[k] EXCEPT !.pc = "reply"] ELSE Returned]
  /\ UNCHANGED <<client, made, cached, opened, manager, lspFaults>>

GotClient(k) ==
  \/ OpensNowhere(k) \/ OpenRefused(k) \/ OpenDocument(k)
  \/ ListenForDiagnostics(k) \/ ReadDiagnostics(k) \/ AskServer(k)

(* The didOpen notification is written, or its pipe is gone. *)
DidOpen(k) ==
  /\ caller[k].pc = "opening"
  /\ \/ /\ opened' = TRUE
        /\ caller' = [caller EXCEPT ![k] = AfterOpen(k)]
        /\ UNCHANGED lspFaults
     \/ /\ LspFault
        /\ caller' = [caller EXCEPT ![k] = Returned]
        /\ UNCHANGED opened
  /\ UNCHANGED <<client, made, cached, manager>>

(* Mutant of PublishTimeout: no timer is set. *)
MutantNoTimeout(k) ==
  /\ caller[k].pc = "publish" /\ caller[k].c = NoClient
  /\ caller' = [caller EXCEPT ![k] = Goto(k, "clientFor", "read")]
  /\ UNCHANGED <<client, made, cached, opened, manager, lspFaults>>

(* waitForDiagnostics gives up after diagnosticsTimeoutMs. *)
PublishTimeout(k) ==
  /\ caller[k].pc = "publish"
  /\ caller' = [caller EXCEPT ![k] = Goto(k, "clientFor", "read")]
  /\ UNCHANGED <<client, made, cached, opened, manager, lspFaults>>

(* A response, an error response, or the abort of the turn. *)
RequestSettles(k) ==
  /\ caller[k].pc = "reply" /\ client[caller[k].c].wire = "open"
  /\ caller' = [caller EXCEPT ![k] = Returned]
  /\ UNCHANGED <<client, made, cached, opened, manager, lspFaults>>

---------------------------------------------------------------------------
(* Clients. *)

Awaiting(c) == {k \in Callers : caller[k].pc = "initializing" /\ caller[k].c = c}

(* disposeConnection closes a connection; one that is closed already is     *)
(* left as it is                                                            *)
Disposed(c) ==
  [client[c] EXCEPT !.wire = IF @ = "none" THEN "none" ELSE "closed"]

(* initialize throws: the connection is disposed of; the caller of          *)
(* clientFor has no client, which lsp_diagnostics ends with at the last.    *)
InitializeFails(c) ==
  /\ client' = [client EXCEPT ![c] =
       [Disposed(c) EXCEPT !.state = "failed", !.step = "none"]]
  /\ caller' = [k \in Callers |->
       IF k \notin Awaiting(c) THEN caller[k]
       ELSE [caller[k] EXCEPT !.pc = "got", !.c = NoClient]]
  /\ UNCHANGED <<made, cached, opened, manager>>

LspSpawnOk(c) ==
  /\ client[c].step = "spawning"
  /\ client' = [client EXCEPT ![c].step = "initialize", ![c].wire = "open"]
  /\ UNCHANGED <<made, cached, opened, caller, manager, lspFaults>>

InitializeResult(c) ==
  /\ client[c].step = "initialize"
  /\ client' = [client EXCEPT ![c].step = "notify"]
  /\ UNCHANGED <<made, cached, opened, caller, manager, lspFaults>>

(* No process, an error or a malformed result, or no pipe to notify on. *)
LspInitializeRefused(c) ==
  /\ client[c].step # "none"
  /\ LspFault
  /\ InitializeFails(c)

(* "initialized" is written: the client is stored, over any other. *)
Initialized(c) ==
  /\ client[c].step = "notify"
  /\ client' = [client EXCEPT ![c].state = "initialized", ![c].step = "none"]
  /\ cached' = c
  /\ caller' = [k \in Callers |-> IF k \in Awaiting(c)
                                  THEN [caller[k] EXCEPT !.pc = "got"]
                                  ELSE caller[k]]
  /\ UNCHANGED <<made, opened, manager, lspFaults>>

(* publishDiagnostics of the document. *)
Publish(c) ==
  /\ client[c].wire = "open" /\ client[c].doc
  /\ \E k \in Callers : caller[k].pc = "publish" /\ caller[k].c = c
  /\ caller' = [k \in Callers |->
       IF caller[k].pc = "publish" /\ caller[k].c = c
       THEN Goto(k, "clientFor", "read") ELSE caller[k]]
  /\ UNCHANGED <<client, made, cached, opened, manager, lspFaults>>

(* finish: the process exits, or its output cannot be parsed.  Whatever    *)
(* pends is rejected: initialize, requests, or the shutdown request of a   *)
(* client that is being stopped.                                           *)
LspConnectionLost(c) ==
  /\ client[c].wire = "open"
  /\ LspFault
  /\ client' = [client EXCEPT ![c] =
       [client[c] EXCEPT !.wire = "closed",
          !.step = IF @ = "initialize" THEN "none" ELSE @,
          !.state = IF @ = "shutting_down" THEN "stopped" ELSE "failed"]]
  /\ caller' = [k \in Callers |->
       IF caller[k].c # c THEN caller[k]
       ELSE CASE caller[k].pc = "reply" -> Returned
              [] caller[k].pc = "initializing" /\ client[c].step = "initialize"
                   -> [caller[k] EXCEPT !.pc = "got", !.c = NoClient]
              [] OTHER -> caller[k]]
  /\ UNCHANGED <<made, cached, opened, manager>>

(* close(), when the turns have ended: the stored client is asked to shut   *)
(* down, unless its connection is gone already.                             *)
ManagerClose ==
  /\ manager = "up" /\ \A k \in Callers : caller[k].pc = "idle"
  /\ manager' = "closed"
  /\ client' = IF cached = NoClient THEN client
               ELSE [client EXCEPT ![cached].state =
                       IF client[cached].wire = "open" THEN "shutting_down"
                                                       ELSE "stopped"]
  /\ cached' = NoClient /\ opened' = FALSE
  /\ UNCHANGED <<made, caller, lspFaults>>

(* The answer to shutdown, or its error: exit, dispose, stopped. *)
ShutdownAnswered(c) ==
  /\ client[c].state = "shutting_down"
  /\ client' = [client EXCEPT ![c] = [Disposed(c) EXCEPT !.state = "stopped"]]
  /\ UNCHANGED <<made, cached, opened, caller, manager, lspFaults>>

LspNext ==
  \/ \E k \in Callers :
       \/ \E tool \in {"diagnostics", "ask"} : ToolStart(k, tool)
       \/ ContextStart(k) \/ FileRead(k) \/ ClientFor(k) \/ GotClient(k) \/ DidOpen(k)
       \/ PublishTimeout(k) \/ RequestSettles(k)
  \/ \E c \in Clients :
       \/ LspSpawnOk(c) \/ InitializeResult(c) \/ LspInitializeRefused(c)
       \/ Initialized(c) \/ Publish(c) \/ LspConnectionLost(c)
       \/ ShutdownAnswered(c)
  \/ ManagerClose

LspSpec == LspInit /\ [][LspNext]_lspVars

(* A turn goes on, the timer of waitForDiagnostics runs out, a process      *)
(* starts and a pipe takes a notification.  A server need not answer.       *)
LspFairness ==
  /\ \A k \in Callers : WF_lspVars(\/ FileRead(k) \/ ClientFor(k)
                                   \/ GotClient(k) \/ DidOpen(k)
                                   \/ PublishTimeout(k))
  /\ \A c \in Clients : WF_lspVars(LspSpawnOk(c) \/ Initialized(c))

---------------------------------------------------------------------------
(* Nobody waits for a client that will not settle: an initialize that is    *)
(* awaited is under way, a request and a shutdown that pend have a          *)
(* connection to be answered on (finish rejects them when it goes).         *)
LspCallsCanReturn ==
  /\ \A k \in Callers :
       /\ caller[k].pc = "initializing" => client[caller[k].c].step # "none"
       /\ caller[k].pc = "reply" => client[caller[k].c].wire = "open"
  /\ \A c \in Clients :
       client[c].state = "shutting_down" => client[c].wire = "open"

(* What a server owes the call: neither request has a timeout.              *)
Owed(k) ==
  \/ caller[k].pc = "reply"
  \/ caller[k].pc = "initializing" /\ client[caller[k].c].step = "initialize"

(* Every tool call returns, also when a server publishes nothing, dies or  *)
(* sends garbage while the call waits, or cannot be started (clientFor,    *)
(* waitForDiagnostics), unless it waits for ever for the answer to a       *)
(* request of its own.  (Callers and faults need no more than MaxClients.) *)
LspToolReturns ==
  \A k \in Callers :
    [](caller[k].pc # "idle" => <>(caller[k].pc = "idle")) \/ <>[]Owed(k)
=============================================================================
