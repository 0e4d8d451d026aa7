------------------------------ MODULE TurnOps ------------------------------
(***************************************************************************)
(* The activeTurn object (src/internal/gateway/active_turn.go) as a record *)
(* T, and every step its goroutines take as an operator from T to the next *)
(* T.  No variables here: ActiveTurn runs one turn, ToolSession runs the   *)
(* turns of a session, both with these operators.                          *)
(*                                                                         *)
(* Four parties act on a turn.                                             *)
(*   - the MCP /call handlers, one per call c (activeTurn.call);           *)
(*   - the goroutine of activeTurn.run, which relays the agent's text;     *)
(*   - the HTTP exchange that holds state.mu (the loop of handleToolChat); *)
(*   - whoever cancels its context (deadline, disconnect, stop, bridge).   *)
(* A guard named CanX(T) goes with the step X(T).                          *)
(***************************************************************************)
EXTENDS Naturals, Sequences, FiniteSets

CONSTANTS
    Call,       \* tool_call_ids: one per MCP /call request (randomID("call_"))
    Tool,       \* names of the function tools
    ToolOf,     \* ToolOf[c] is the tool that call c names
    NoTool,     \* the empty name of a policy that is not "named"
    Capacity,   \* capacity of turn.events (64 in the code)
    Policies    \* the tool_choice policies that requests carry

\* tools.go normalizeTools: Mode is auto, none, required, or named with a name.
ToolPolicy ==
    [mode : {"auto", "none", "required"}, name : {NoTool}]
        \cup [mode : {"named"}, name : Tool]

ASSUME TurnAssumption ==
    /\ NoTool \notin Tool
    /\ ToolOf \in [Call -> Tool]
    /\ Capacity \in Nat \ {0}
    /\ Policies \subseteq ToolPolicy

\* What context.Cause(t.ctx) reports; the first cancellation wins.
Cause == {"none",       \* not cancelled
          "canceled",   \* context.Canceled: stop(), a finished turn, server shutdown
          "deadline",   \* context.WithTimeout(s.ctx, TurnTimeout)
          "request",    \* AfterFunc(r.Context()): the creating request is gone
          "bridge",     \* facade.abort from /watch: the MCP bridge disconnected
          "session",    \* facade.close: "MCP session closed"
          "call"}       \* the HTTP request of a waiting MCP call is gone

Event == [kind : {"text"}] \cup [kind : {"call"}, id : Call]
            \cup [kind : {"done"}, ok : BOOLEAN]

CallPhase == {"none",       \* not called
              "refused",    \* disallowed by tool_choice, never registered
              "emitting",   \* registered in pending, in the select of emit
              "waiting",    \* in the select on p.result, t.ctx and ctx
              "returned",   \* returned the client's result to the agent
              "failed"}     \* returned an error to the agent

RunPhase == {"none",        \* goroutine not started
             "running",     \* inside agentrun.RunTurn / RunFirstTurn
             "finishing",   \* RunTurn returned, in the emit of the done event
             "leaving",     \* emit returned, close(t.done) not yet run
             "closed"}      \* t.done is closed

ExchangePhase == {"none",       \* the turn does not exist yet
                  "starting",   \* created by an exchange, inside engine.Start
                  "attached",   \* an exchange is in the event loop
                  "responding", \* left the loop with a tool call to return
                  "detached",   \* the response with the call has been returned
                  "failing",    \* left the loop with an error
                  "over"}       \* finished or cleared: no exchange will attach

Turn == [cause     : Cause,
         events    : Seq(Event),
         phase     : [Call -> CallPhase],
         pending   : SUBSET Call,         \* keys of t.pending
         delivered : SUBSET Call,         \* entries of t.pending with delivered set
         result    : [Call -> Nat],       \* values in p.result, a channel of capacity 1
         gone      : SUBSET Call,         \* running calls whose r.Context() is done
         policy    : ToolPolicy,
         run       : RunPhase,
         outcome   : BOOLEAN,             \* what RunTurn returned, until it is emitted
         exchange  : ExchangePhase]

\* The messages after the known history, as far as resolve looks at them.
ResultMessage == [role : {"tool", "other"}, id : Call]

AutoPolicy == [mode |-> "auto", name |-> NoTool]

-----------------------------------------------------------------------------
(* Creation.                                                               *)

UnbornTurn ==
    [cause |-> "none", events |-> <<>>, phase |-> [c \in Call |-> "none"],
     pending |-> {}, delivered |-> {}, result |-> [c \in Call |-> 0],
     gone |-> {}, policy |-> AutoPolicy, run |-> "none", outcome |-> FALSE,
     exchange |-> "none"]

\* newActiveTurn; the handler then starts the agent when it has none.
Created(T, policy) == [T EXCEPT !.policy = policy, !.exchange = "starting"]

\* go turn.run(...): the prompt is sent to the agent and the exchange attaches.
RunStarted(T) == [T EXCEPT !.run = "running", !.exchange = "attached"]

-----------------------------------------------------------------------------
(* Cancellation and the event channel.                                     *)

\* context.CancelCauseFunc: only the first cause is kept.
Cancelled(T, cause) ==
    IF T.cause = "none" THEN [T EXCEPT !.cause = cause] ELSE T

\* The two cases of emit's select.  With both ready Go chooses either one.
HasRoom(T) == Len(T.events) < Capacity
IsCancelled(T) == T.cause # "none"

\* engine.Start failed: close(turn.done), timeoutCancel; clearSession follows.
StartFailed(T) == [Cancelled(T, "canceled") EXCEPT !.run = "closed", !.exchange = "failing"]

Sent(T, event) == [T EXCEPT !.events = Append(@, event)]

-----------------------------------------------------------------------------
(* activeTurn.call, run by the MCP /call handler of call c.                *)

Allows(policy, c) ==
    /\ policy.mode # "none"
    /\ policy.mode = "named" => policy.name = ToolOf[c]

CanCall(T, c) == T.exchange # "none" /\ T.phase[c] = "none"

\* Lines 62-69: refused under t.mu, or registered as pending.
Called(T, c) ==
    IF Allows(T.policy, c)
    THEN [T EXCEPT !.phase[c] = "emitting", !.pending = @ \cup {c}]
    ELSE [T EXCEPT !.phase[c] = "refused"]

CanQueue(T, c) == T.phase[c] = "emitting" /\ HasRoom(T)
\* Mutant of Queued: the call's event replaces the events not yet read.
QueuedOver(T, c) ==
    [T EXCEPT !.events = <<[kind |-> "call", id |-> c]>>, !.phase[c] = "waiting"]
Queued(T, c) == [Sent(T, [kind |-> "call", id |-> c]) EXCEPT !.phase[c] = "waiting"]

\* Mutant of CanAbandon: only emit watches t.ctx.
CanAbandonEmitting(T, c) == T.phase[c] = "emitting" /\ IsCancelled(T)
\* t.ctx.Done() in emit, or in the second select.
CanAbandon(T, c) == T.phase[c] \in {"emitting", "waiting"} /\ IsCancelled(T)
Abandoned(T, c) == [T EXCEPT !.phase[c] = "failed", !.gone = @ \ {c}]

\* Mutant of CanReturn: the call takes a result that nobody sent.
CanReturnEmpty(T, c) == T.phase[c] = "waiting"
CanReturn(T, c) == T.phase[c] = "waiting" /\ T.result[c] > 0
Returned(T, c) ==
    [T EXCEPT !.phase[c] = "returned", !.result[c] = @ - 1, !.gone = @ \ {c}]

\* The bridge's HTTP request for c ends before an answer: r.Context() is done.
CanHangUp(T, c) == T.phase[c] \in {"emitting", "waiting"} /\ c \notin T.gone
HungUp(T, c) == [T EXCEPT !.gone = @ \cup {c}]

\* ctx.Done() is watched in the second select only; it cancels the whole turn.
CanNoticeHangUp(T, c) == T.phase[c] = "waiting" /\ c \in T.gone
\* Mutant of HangUpNoticed: the call fails alone and the turn goes on.
HangUpIgnored(T, c) == Abandoned(T, c)
HangUpNoticed(T, c) == Abandoned(Cancelled(T, "call"), c)

-----------------------------------------------------------------------------
(* activeTurn.run, and what agentrun.RunTurn does inside it.               *)

\* RunTurn's handler emits each message of the agent while it runs.
CanEmitText(T) == T.run = "running" /\ HasRoom(T)
TextEmitted(T) == Sent(T, [kind |-> "text"])

\* RunTurn returns: the agent ended its turn (ok), or failed, or the handler or
\* the context stopped it.
CanRunReturn(T) == T.run = "running"
RunReturned(T, ok) == [T EXCEPT !.run = "finishing", !.outcome = ok]

CanEmitDone(T) == T.run = "finishing" /\ HasRoom(T)
DoneEmitted(T) ==
    [Sent(T, [kind |-> "done", ok |-> T.outcome])
        EXCEPT !.run = "leaving", !.outcome = FALSE]

\* Mutant of CanDropDone: the done event is always sent, whoever listens.
CanNeverDropDone(T) == FALSE
CanDropDone(T) == T.run = "finishing" /\ IsCancelled(T)
DoneDropped(T) == [T EXCEPT !.run = "leaving", !.outcome = FALSE]

CanCloseDone(T) == T.run = "leaving"
DoneClosed(T) == [T EXCEPT !.run = "closed"]

-----------------------------------------------------------------------------
(* The exchange: the loop of handleToolChat on turn.events.                *)

HeadIs(T, kind) == T.events # <<>> /\ Head(T.events).kind = kind
CanTake(T, kind) == T.exchange = "attached" /\ HeadIs(T, kind)
Dropped(T) == [T EXCEPT !.events = Tail(@)]

\* collector.handle accepts the message, or returns an error (an agent error, a
\* model other than the one asked for).
TextTaken(T, ok) ==
    [Dropped(T) EXCEPT !.exchange = IF ok THEN "attached" ELSE "failing"]

\* activeTurn.deliver: marks the call unless it is no longer pending.
Delivered(T, c) ==
    IF c \in T.pending THEN [T EXCEPT !.delivered = @ \cup {c}] ELSE T

\* Mutant of CallTaken: the call is offered whatever tool_choice says now.
CallTakenUnchecked(T) ==
    [Delivered(Dropped(T), Head(T.events).id) EXCEPT !.exchange = "responding"]

\* Lines 141-149 of tool_chat.go: the policy of this exchange is T.policy, set by
\* newActiveTurn or by the resolve that attached it.
CallTaken(T) ==
    LET c == Head(T.events).id
    IN  IF Allows(T.policy, c)
        THEN [Delivered(Dropped(T), c) EXCEPT !.exchange = "responding"]
        ELSE [Dropped(T) EXCEPT !.exchange = "failing"]

\* Mutant of DoneTaken: finish() is not called.
DoneTakenUncancelled(T) ==
    [Dropped(T) EXCEPT !.exchange =
        IF Head(T.events).ok /\ T.policy.mode \notin {"required", "named"}
        THEN "over" ELSE "failing"]

\* Lines 150-163: a finished turn is cancelled and unbound; an error, or a turn
\* that made no call although tool_choice demands one, fails the exchange.
DoneTaken(T) ==
    IF Head(T.events).ok /\ T.policy.mode \notin {"required", "named"}
    THEN [Cancelled(Dropped(T), "canceled") EXCEPT !.exchange = "over"]
    ELSE [Dropped(T) EXCEPT !.exchange = "failing"]

\* r.Context().Done() or turn.ctx.Done() chosen by the select of the loop.
CanInterrupt(T) == T.exchange = "attached"
Interrupted(T) == [T EXCEPT !.exchange = "failing"]

\* Line 166: the cause is looked at once more before the call is returned.
CanRespond(T) == T.exchange = "responding"
Responded(T) ==
    [T EXCEPT !.exchange = IF IsCancelled(T) THEN "failing" ELSE "detached"]

\* clearSession -> stop: active.cancel(context.Canceled).
Cleared(T) == [Cancelled(T, "canceled") EXCEPT !.exchange = "over"]

-----------------------------------------------------------------------------
(* activeTurn.resolve.                                                     *)

BatchIds(batch) == {batch[i].id : i \in DOMAIN batch}

\* Mutant of Accepts: a result may name a call that was not delivered.
AcceptsUndelivered(T, batch) ==
    /\ ~IsCancelled(T)
    /\ batch # <<>>
    /\ \A i \in DOMAIN batch :
            /\ batch[i].role = "tool"
            /\ batch[i].id \in T.pending
            /\ \A j \in 1 .. (i - 1) : batch[j].id # batch[i].id
    /\ T.delivered \subseteq BatchIds(batch)

\* Mutant of Accepts: a result may be repeated.
AcceptsRepeated(T, batch) ==
    /\ ~IsCancelled(T)
    /\ batch # <<>>
    /\ \A i \in DOMAIN batch : batch[i].role = "tool" /\ batch[i].id \in T.delivered
    /\ T.delivered \subseteq BatchIds(batch)

\* Lines 96-114: the whole batch is validated before any call is released.
Accepts(T, batch) ==
    /\ ~IsCancelled(T)
    /\ batch # <<>>
    /\ \A i \in DOMAIN batch :
            /\ batch[i].role = "tool"
            /\ batch[i].id \in T.delivered
            /\ \A j \in 1 .. (i - 1) : batch[j].id # batch[i].id
    /\ T.delivered \subseteq BatchIds(batch)

\* Number of messages of the batch that carry a result for c.
Answers(batch, c) == Cardinality({i \in DOMAIN batch : batch[i].id = c})

\* Lines 115-120: every answered call leaves pending and gets its result.
Resolved(T, batch, policy) ==
    [T EXCEPT !.policy = policy,
              !.pending = @ \ BatchIds(batch),
              !.delivered = @ \ BatchIds(batch),
              !.result = [c \in Call |-> @[c] + Answers(batch, c)],
              !.exchange = "attached"]

=============================================================================
