----------------------------- MODULE MCClients -----------------------------
(* What talks to the outside, for TLC: the MCP supervisor, the language     *)
(* server manager, and a client that follows the event stream.  They share *)
(* no state, so one behaviour is about one of them, its focus, while the    *)
(* others keep their initial state.                                         *)
EXTENDS McpSupervisor, LspManager, EventStream

VARIABLE focus

vars == <<mcpVars, lspVars, streamVars, focus>>

Init ==
  /\ focus \in {"mcp", "lsp", "stream"}
  /\ McpInit /\ LspInit /\ StreamInit

Next ==
  /\ UNCHANGED focus
  /\ \/ focus = "mcp" /\ McpNext /\ UNCHANGED <<lspVars, streamVars>>
     \/ focus = "lsp" /\ LspNext /\ UNCHANGED <<mcpVars, streamVars>>
     \/ focus = "stream" /\ StreamNext /\ UNCHANGED <<mcpVars, lspVars>>

(* The timers and the loops of the daemon go on, a child starts or does     *)
(* not, and its pipe takes a notification.  No server need answer.          *)
McpFairness ==
  /\ \A r \in Reconcilers : WF_mcpVars(focus = "mcp" /\ ReconcileNext(r))
  /\ WF_mcpVars(focus = "mcp" /\ \E r \in Reconcilers : ReconcileStart(r))
  /\ \A s \in Servers : /\ WF_mcpVars(focus = "mcp" /\ RetryDue(s))
                        /\ WF_mcpVars(focus = "mcp" /\ SpawnOk(s))
  /\ \A s \in Stdio : WF_mcpVars(focus = "mcp" /\ InitializedNotified(s))

(* The other two ask for no step in their initial states. *)
Spec == Init /\ [][Next]_vars /\ McpFairness /\ LspFairness /\ StreamFairness

(* The three components' states have their types. *)
ClientsTypeOK == McpTypeOK /\ LspTypeOK /\ StreamTypeOK

(* Nobody waits for an answer that cannot come, from an MCP server or from *)
(* a language server.                                                      *)
CallsCanReturn == McpCallsCanReturn /\ LspCallsCanReturn

(* Supervised servers end up connected or given up, and every call of a    *)
(* language server tool returns, but for the servers that never answer     *)
(* (servers are to be connected from the start, so the first is asked of   *)
(* the behaviours that move them only).                                    *)
ClientsSettle == (focus = "mcp" => SupervisionSettles) /\ LspToolReturns
=============================================================================
