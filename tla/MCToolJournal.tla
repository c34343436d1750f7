---------------------------- MODULE MCToolJournal ----------------------------
(* Instances of ToolJournal for TLC: the tools of builtins.ts. *)
EXTENDS ToolJournal, TLC

File    == [kind |-> "file", path |-> <<"src", "main.ts">>]
Folder  == [kind |-> "file", path |-> <<"src">>]
Process == [kind |-> "process", path |-> <<"workspace">>]

AllScopes == {File, Folder, Process}

write_file      == [scopes |-> {File}, sideEffect |-> "workspace"]
execute_command == [scopes |-> {Process}, sideEffect |-> "workspace"]
echo_tool       == [scopes |-> {}, sideEffect |-> "none"]

(* A tool of an MCP server with configured scopes: McpToolSafetyMetadata *)
mcp_tool == [scopes |-> {Folder}, sideEffect |-> "workspace"]

(* Calls that conflict with themselves, with one another and with none, and *)
(* the two writing tools that every Run has.                               *)
SomeCalls    == {write_file, mcp_tool, echo_tool}
BuiltinCalls == {write_file, execute_command}

(* The daemons run the same program on Runs with the same budget. *)
AnyName == Permutations(Executors) \cup Permutations(Runs)
=============================================================================
