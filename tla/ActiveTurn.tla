----------------------------- MODULE ActiveTurn -----------------------------
(***************************************************************************)
(* One ACP turn that outlives HTTP responses (active_turn.go) with the     *)
(* parties that act on it: the MCP call handlers, the goroutine of run,    *)
(* the exchanges of handleToolChat that attach to it one after another,    *)
(* the watcher, and every source of cancellation.  The client, the agent   *)
(* and the bridge do whatever they like.                                   *)
(*                                                                         *)
(* Each action is one step that no other goroutine of the turn can split:  *)
(* a critical section of t.mu, one case of a select, one channel           *)
(* operation.                                                              *)
(***************************************************************************)
EXTENDS TurnOps

CONSTANT Batches    \* the message lists that clients send after the history

ASSUME BatchAssumption == Batches \subseteq Seq(ResultMessage)

VARIABLE turn

Init == turn = UnbornTurn

-----------------------------------------------------------------------------
(* The exchange that creates the turn.                                     *)

\* newActiveTurn: after Server.Close the parent context is already cancelled.
NewTurn(policy) ==
    /\ turn.exchange = "none"
    /\ turn' \in {Created(turn, policy), Cancelled(Created(turn, policy), "canceled")}

StartRun == turn.exchange = "starting" /\ turn' = RunStarted(turn)
FailStart == turn.exchange = "starting" /\ turn' = StartFailed(turn)

-----------------------------------------------------------------------------
(* MCP call handlers.                                                      *)

CallTool(c) == CanCall(turn, c) /\ turn' = Called(turn, c)
EmitCall(c) == CanQueue(turn, c) /\ turn' = Queued(turn, c)
AbandonCall(c) == CanAbandon(turn, c) /\ turn' = Abandoned(turn, c)
ReturnResult(c) == CanReturn(turn, c) /\ turn' = Returned(turn, c)
HangUp(c) == CanHangUp(turn, c) /\ turn' = HungUp(turn, c)
NoticeHangUp(c) == CanNoticeHangUp(turn, c) /\ turn' = HangUpNoticed(turn, c)

CallStep(c) == EmitCall(c) \/ AbandonCall(c) \/ ReturnResult(c) \/ NoticeHangUp(c)

-----------------------------------------------------------------------------
(* The goroutine of run.                                                   *)

EmitText == CanEmitText(turn) /\ turn' = TextEmitted(turn)
RunReturn(ok) == CanRunReturn(turn) /\ turn' = RunReturned(turn, ok)
EmitDone == CanEmitDone(turn) /\ turn' = DoneEmitted(turn)
DropDone == CanDropDone(turn) /\ turn' = DoneDropped(turn)
CloseDone == CanCloseDone(turn) /\ turn' = DoneClosed(turn)

RunStep == EmitText \/ (\E ok \in BOOLEAN : RunReturn(ok)) \/ EmitDone \/ DropDone \/ CloseDone

-----------------------------------------------------------------------------
(* Exchanges.                                                              *)

TakeText(ok) == CanTake(turn, "text") /\ turn' = TextTaken(turn, ok)
TakeCall == CanTake(turn, "call") /\ turn' = CallTaken(turn)
TakeDone == CanTake(turn, "done") /\ turn' = DoneTaken(turn)
Interrupt == CanInterrupt(turn) /\ turn' = Interrupted(turn)
Respond == CanRespond(turn) /\ turn' = Responded(turn)

\* clearSession: the failed exchange itself, or, once the exchange has detached,
\* the watcher, a diverged request, eviction or shutdown.
Clear == turn.exchange \in {"failing", "detached"} /\ turn' = Cleared(turn)

\* An exchange brings tool results; a batch that is not accepted changes nothing.
Resolve(batch, policy) ==
    /\ turn.exchange = "detached"
    /\ Accepts(turn, batch)
    /\ turn' = Resolved(turn, batch, policy)

ExchangeStep ==
    \/ \E ok \in BOOLEAN : TakeText(ok)
    \/ TakeCall \/ TakeDone \/ Interrupt \/ Respond \/ Clear

-----------------------------------------------------------------------------

Cancel(cause) == turn.exchange # "none" /\ turn' = Cancelled(turn, cause)

Next ==
    \/ \E policy \in Policies : NewTurn(policy)
    \/ StartRun \/ FailStart
    \/ \E c \in Call : CallTool(c) \/ CallStep(c) \/ HangUp(c)
    \/ RunStep
    \/ ExchangeStep
    \/ \E batch \in Batches, policy \in Policies : Resolve(batch, policy)
    \/ \E cause \in Cause \ {"none", "call"} : Cancel(cause)

Spec == Init /\ [][Next]_turn

\* Goroutines run; the context has a deadline; engine.Start and RunTurn return
\* when their context is cancelled; an exchange looks at turn.ctx; the watcher
\* clears a cancelled turn.  Nobody has to answer a call or end a turn.
Fairness ==
    /\ WF_turn(Cancel("deadline"))
    /\ WF_turn(IsCancelled(turn) /\ (StartRun \/ FailStart))
    /\ WF_turn(IsCancelled(turn) /\ \E ok \in BOOLEAN : RunReturn(ok))
    /\ WF_turn(EmitDone \/ DropDone \/ CloseDone)
    /\ WF_turn(IsCancelled(turn) /\ ExchangeStep)
    /\ WF_turn(turn.exchange \in {"responding", "failing"} /\ ExchangeStep)
    /\ \A c \in Call : WF_turn(CallStep(c))

FairSpec == Spec /\ Fairness

-----------------------------------------------------------------------------
(* Properties.                                                             *)

\* Type invariant of the turn record (active_turn.go:17-34).
TypeOK == turn \in Turn

\* The send of a result in resolve (active_turn.go:119) finds room in the
\* channel of capacity 1: no call ever gets two results and no call that can
\* still be answered has one.  A blocked send would hold t.mu and state.mu.
ReleaseNeverBlocks ==
    \A c \in Call : turn.result[c] <= 1 /\ (c \in turn.pending => turn.result[c] = 0)

IsCallOf(event, c) == event.kind = "call" /\ event.id = c
InQueue(c) == \E i \in DOMAIN turn.events : IsCallOf(turn.events[i], c)

\* While the turn lives, every waiting call is in exactly one place: in the event
\* queue, with the client, or answered with the result not yet picked up.  This is
\* what "left queued for a later response segment" (active_turn.go:91-92) promises.
CallHeldOnce ==
    \A c \in Call :
        (turn.phase[c] = "waiting" /\ turn.cause = "none" /\ turn.exchange # "failing")
        => \/ InQueue(c) /\ c \in turn.pending \ turn.delivered /\ turn.result[c] = 0
           \/ ~InQueue(c) /\ c \in turn.delivered /\ turn.result[c] = 0
           \/ ~InQueue(c) /\ c \notin turn.pending /\ turn.result[c] = 1

\* A live turn between two exchanges can be continued by the client: exactly one
\* call is in its hands and the handler of that call waits for the result.
ClientCanContinue ==
    (turn.exchange = "detached" /\ turn.cause = "none")
        => \E c \in Call : turn.delivered = {c} /\ turn.phase[c] = "waiting"

\* At most one call is with the client, none while an exchange reads events, and the
\* one that is agrees with the tool_choice of the request it was returned to, also when
\* the call was queued under the choice of an earlier request (tool_chat.go:142-148).
OneAllowedOffer ==
    /\ turn.exchange = "attached" => turn.delivered = {}
    /\ \A c, d \in turn.delivered : c = d /\ Allows(turn.policy, c)

\* The inductive invariant behind the four: where a call can be in each of its
\* phases, and what the client holds in each phase of the exchange.
QueueInv ==
    \A i \in DOMAIN turn.events : turn.events[i].kind = "call" =>
        /\ turn.events[i].id \in turn.pending \ turn.delivered
        /\ turn.phase[turn.events[i].id] \in {"waiting", "failed"}
        /\ \A j \in DOMAIN turn.events : IsCallOf(turn.events[j], turn.events[i].id) => i = j

PhaseInv ==
    \A c \in Call :
        /\ turn.phase[c] \in {"none", "refused", "returned"} => c \notin turn.pending
        /\ turn.phase[c] \in {"none", "refused", "emitting"} => turn.result[c] = 0
        /\ turn.phase[c] = "emitting" => c \in turn.pending \ turn.delivered
        /\ turn.phase[c] = "failed" => turn.cause # "none"
        /\ c \in turn.delivered => c \in turn.pending

OfferInv ==
    /\ turn.exchange \in {"none", "starting", "attached"} => turn.delivered = {}
    /\ turn.exchange \in {"responding", "detached"} =>
            \E c \in Call : turn.delivered = {c} /\ turn.phase[c] \in {"waiting", "failed"}

IInv == TypeOK /\ QueueInv /\ PhaseInv /\ OfferInv /\ ReleaseNeverBlocks /\ CallHeldOnce

\* Every registered MCP call eventually gets an answer or an error, whatever the
\* client, the agent and the bridge do (active_turn.go:70-81 under the deadline).
CallsSettle ==
    \A c \in Call : turn.phase[c] \in {"emitting", "waiting"}
                        ~> turn.phase[c] \in {"returned", "failed"}

\* Every turn ends: its goroutine closes t.done, on which sessionState.stop waits
\* while it holds the session lock, and no exchange stays attached.
TurnEnds ==
    turn.exchange # "none" ~> (turn.exchange = "over" /\ turn.run = "closed")

-----------------------------------------------------------------------------
(* The turn implements the lifecycle promised for its calls.               *)

CallStatus(c) ==
    CASE turn.phase[c] = "emitting" -> "queued"
      [] turn.phase[c] = "waiting" /\ c \notin turn.pending -> "answered"
      [] turn.phase[c] = "waiting" /\ c \in turn.delivered -> "offered"
      [] turn.phase[c] = "waiting" /\ c \in turn.pending \ turn.delivered -> "queued"
      [] OTHER -> turn.phase[c]

Lifecycle == INSTANCE ToolCallLifecycle
    WITH status <- [c \in Call |-> CallStatus(c)], closed <- (turn.cause # "none")

\* Whatever the goroutines, the exchanges and the cancellations do, the calls of a
\* turn keep the contract of ToolCallLifecycle: offered one at a time, answered only
\* while offered and only before the turn is cancelled, failed only with the turn
\* (active_turn.go:57-122).
LifecycleSpec == Lifecycle!LifecycleSpec
=============================================================================
