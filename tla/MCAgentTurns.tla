---------------------------- MODULE MCAgentTurns ----------------------------
(* A small instance of AgentTurns: a turn with an MCP server next to one   *)
(* without; a stored thread has called a tool.                             *)
EXTENDS AgentTurns

CONSTANTS t1, t2, u1, u2, gdb, read, submit

OneHasServers == (u1 :> <<gdb>>) @@ (u2 :> <<>>)
TwoAndOne == (u1 :> 2) @@ (u2 :> 1)
Calls ==
  (u1 :> {<<read>>, <<submit>>, <<gdb, submit>>}) @@ (u2 :> {<<read>>})
OneStored ==
  (t1 :> [turns |-> {}, archived |-> FALSE,
          messages |-> <<User, Assistant(1), ToolResult(TRUE), Assistant(0)>>])
    @@ (t2 :> NoThread)
=============================================================================
