---------------------------- MODULE MCActiveTurn ----------------------------
(* One turn, two concurrent MCP calls to two tools, an event channel of two *)
(* events, batches of up to two messages.                                   *)
EXTENDS ActiveTurn, TLC

CONSTANTS c1, c2, f, g

MCToolOf == c1 :> f @@ c2 :> g

MCPolicies == {AutoPolicy, [mode |-> "none", name |-> NoTool],
               [mode |-> "required", name |-> NoTool], [mode |-> "named", name |-> f]}

MCBatches == UNION {[1 .. n -> ResultMessage] : n \in 0 .. 2}
=============================================================================
