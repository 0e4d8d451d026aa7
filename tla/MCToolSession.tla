--------------------------- MODULE MCToolSession ---------------------------
(* One session, its turns one after another, calls to one tool.             *)
EXTENDS ToolSession, TLC

CONSTANT f

MCToolOf == [c \in Call |-> f]
MCPolicies == {AutoPolicy}
\* Each call answered alone, and the batch that answers nothing.
MCBatches == [1 .. 1 -> [role : {"tool"}, id : Call]]
=============================================================================
