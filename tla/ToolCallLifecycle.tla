------------------------- MODULE ToolCallLifecycle -------------------------
(***************************************************************************)
(* What the gateway promises the agent and the client about the tool calls *)
(* of one ACP turn, without goroutines, channels or HTTP exchanges.        *)
(*                                                                         *)
(* A call waits until the client has been offered it, is answered only     *)
(* while the client holds it, is answered once, and ends with the client's *)
(* result or with an error.  The client never holds two calls, and once    *)
(* the turn is closed no result is accepted any more.                      *)
(***************************************************************************)
EXTENDS Naturals

CONSTANT Call

VARIABLES
    status,     \* status[c]: none, refused, queued, offered, answered, returned, failed
    closed      \* the turn is cancelled

lifecycleVars == <<status, closed>>

Becomes(c, value) == status' = [status EXCEPT ![c] = value]

LifecycleInit == status = [c \in Call |-> "none"] /\ closed = FALSE

\* The agent calls a tool: tool_choice forbids it, or it waits for the client.
Submit(c) == /\ status[c] = "none"
             /\ Becomes(c, "queued") \/ Becomes(c, "refused")
             /\ UNCHANGED closed

\* A response hands the call to the client, who holds no other one.
Offer(c) == /\ status[c] = "queued"
            /\ \A d \in Call : status[d] # "offered"
            /\ Becomes(c, "offered")
            /\ UNCHANGED closed

\* The client's next request brings the result.
Answer(c) == /\ ~closed
             /\ status[c] = "offered"
             /\ Becomes(c, "answered")
             /\ UNCHANGED closed

Return(c) == /\ status[c] = "answered"
             /\ Becomes(c, "returned")
             /\ UNCHANGED closed

\* A call fails only with the turn: the call's own disconnect closes the turn.
Fail(c) == /\ status[c] \in {"queued", "offered", "answered"}
           /\ Becomes(c, "failed")
           /\ closed' = TRUE

CloseTurn == closed' = TRUE /\ UNCHANGED status

LifecycleNext ==
    \/ CloseTurn
    \/ \E c \in Call : Submit(c) \/ Offer(c) \/ Answer(c) \/ Return(c) \/ Fail(c)

LifecycleSpec == LifecycleInit /\ [][LifecycleNext]_lifecycleVars
=============================================================================
