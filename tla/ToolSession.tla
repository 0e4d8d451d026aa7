---------------------------- MODULE ToolSession ----------------------------
(***************************************************************************)
(* One session of the tool path: a sessionState (registry.go) whose turns  *)
(* outlive the HTTP exchanges of handleToolChat (tool_chat.go), the MCP    *)
(* facade its agent calls (mcp_facade.go), and everybody who takes         *)
(* state.mu: exchanges, the watcher of each turn, the janitor, Close.      *)
(*                                                                         *)
(* state.mu has one holder at a time, so ctl describes the holder: who it  *)
(* is, where it is (pc) and what follows sessionState.stop (then).  Steps  *)
(* that touch only what state.mu protects are joined to the step before    *)
(* them; the goroutines of the turns and of the facade, and every          *)
(* cancellation, come between the holder's other steps.                    *)
(*                                                                         *)
(* Requests that Server.handleChat sends down the plain path have a        *)
(* specification of their own, ChatSession.  Here a plain exchange is one  *)
(* step, that says what it leaves of the session and in the store.         *)
(***************************************************************************)
EXTENDS TurnOps

CONSTANTS
    TurnId,     \* turns in order of creation: 1 .. n
    Setup,      \* working directories with tool lists (state.cwd, state.toolHash)
    Bare,       \* the setup of a request without tools
    Batches,    \* the messages clients send after the known history
    Moves       \* what the environment does in a run, besides calls and requests

ASSUME SessionAssumption ==
    /\ IsFiniteSet(TurnId) /\ TurnId = 1 .. Cardinality(TurnId)
    /\ Bare \in Setup
    /\ Batches \subseteq Seq(ResultMessage)
    /\ Moves \subseteq {"text", "error", "deadline", "request", "hangup", "bridge",
                       "start", "evict", "close", "native", "plain", "write"}

VARIABLES
    turns,      \* every turn the session has had or will have
    active,     \* state.active, 0 when nil
    process,    \* state.process # nil
    facade,     \* state.facade: the turn that created it, 0 when nil
    facades,    \* the facade objects, by the turn that created them
    setup,      \* state.cwd and state.toolHash
    hist,       \* state.history: "none", "plain" or "tools" (with tool messages)
    resume,     \* state.resumeID: the native session it names, by kind
    mem,        \* the record of this session in the store: its native session,
    disk,       \* and the record in the file, which a restart reads
    captured,   \* the turn an MCP call handler read from facade.active
    firing,     \* turns whose AfterFunc has started and not yet cancelled
    ctl,        \* the holder of state.mu
    server      \* how far Server.Close has come

vars == <<turns, active, process, facade, facades, setup, hist, resume, mem, disk,
          captured, firing, ctl, server>>

store == <<resume, mem, disk>>
session == <<process, setup, hist, resume, mem, disk>>
around == <<captured, firing, server>>

NoFacade == [ctx |-> "none", active |-> 0, bridge |-> "up"]

\* matches: the messages extend the history the session has; tools: the messages
\* after it (all, if they do not extend it) include a tool message; prompt:
\* turnPrompt accepts them.
UserRequest == [kind : {"user"}, setup : Setup, matches : BOOLEAN,
                policy : Policies, tools : BOOLEAN, prompt : BOOLEAN]
ResultRequest == [kind : {"result"}, setup : Setup, matches : BOOLEAN,
                  policy : Policies, batch : Batches]
NoRequest == [kind |-> "none"]

\* tools: the transcript of this exchange has tool messages; owner: the exchange
\* created the active turn; gone: r.Context() is done.
Unlocked == [who |-> "none", pc |-> "free", then |-> "none", req |-> NoRequest,
             tools |-> FALSE, owner |-> FALSE, gone |-> FALSE]

Init ==
    /\ turns = [t \in TurnId |-> UnbornTurn]
    /\ active = 0 /\ process = FALSE /\ facade = 0
    /\ facades = [t \in TurnId |-> NoFacade]
    /\ setup = Bare
    /\ disk \in {"none", "plain"}    \* newRegistry restores the sessions of the store
    /\ mem = disk /\ resume = disk /\ hist = disk
    /\ captured = [c \in Call |-> 0]
    /\ firing = {}
    /\ ctl = Unlocked
    /\ server = "open"

-----------------------------------------------------------------------------
(* Helpers.                                                                *)

Turns(t, T) == turns' = [turns EXCEPT ![t] = T]
Born(t) == turns[t].exchange # "none"
Unborn == {t \in TurnId : ~Born(t)}
\* Mutant of NextTurn: an activeTurn object is used again.
NextTurnReused == CHOOSE t \in TurnId : \A u \in TurnId : t <= u
NextTurn == CHOOSE t \in Unborn : \A u \in Unborn : t <= u

At(who, pc) == ctl.who = who /\ ctl.pc = pc
Holding(who, then) == [Unlocked EXCEPT !.who = who, !.pc = "stop", !.then = then]

SameSetup(req) == setup = req.setup
Same(req) == SameSetup(req) /\ hist # "none" /\ req.matches

FacadeLive == facade = 0 \/ facades[facade].ctx = "live"

\* Mutant of Bound: the facade keeps the turn that has finished.
NeverUnbound(t) ==
    [f \in TurnId |-> IF f = facade /\ t # 0 THEN [facades[f] EXCEPT !.active = t] ELSE facades[f]]
\* state.facade.bind(turn), where 0 is nil; nothing when there is no facade.
Bound(t) ==
    [f \in TurnId |-> IF f = facade THEN [facades[f] EXCEPT !.active = t] ELSE facades[f]]

\* The kind of the native session of the process: one that was started with the
\* tools of a facade, which a resume would bring back without its endpoint.
Native == IF facade = 0 THEN "plain" ELSE "tools"

\* sessionStore.writeLocked: the file is replaced, or stays as it was.
Write(record) == disk' = record \/ ("write" \in Moves /\ disk' = disk)
\* sessionStore.delete, whose error is only logged; it writes nothing when there
\* is no record in memory.
Delete == mem' = "none" /\ IF mem = "none" THEN disk' = disk ELSE Write("none")

-----------------------------------------------------------------------------
(* A request takes state.mu.  What it decides on is protected by the lock, *)
(* or (a context that ends) could have changed just before.                *)

\* Mutant of Admitted: registry.close stops the states before it replaces the map.
AdmittedLate(req) ==
    /\ ctl.who = "none"
    /\ req.setup # Bare \/ facade # 0 \/ active # 0 \/ req.kind = "result"
\* registry.lock and the dispatch of Server.handleChat.  registry.close replaces
\* the session map before it stops the states in it.
Admitted(req) ==
    /\ ctl.who = "none"
    /\ server \in {"open", "cancelled"}
    /\ req.setup # Bare \/ facade # 0 \/ active # 0 \/ req.kind = "result"

\* Line 19: changing the setup while submitting a result cancels the old turn.
ResultToOtherSetup(req) ==
    /\ Admitted(req)
    /\ active # 0 /\ ~SameSetup(req)
    /\ ctl' = Holding("exchange", "reply")
    /\ UNCHANGED <<turns, active, facade, facades, session, around>>

\* Lines 22-33: no turn, another history, or a batch that resolve rejects.
ResultRejected(req) ==
    /\ Admitted(req)
    /\ \/ active = 0
       \/ SameSetup(req) /\ ~Same(req)
       \/ active # 0 /\ Same(req) /\ ~Accepts(turns[active], req.batch)
    /\ UNCHANGED vars

ResultAccepted(req) ==
    /\ Admitted(req)
    /\ active # 0 /\ Same(req)
    /\ Accepts(turns[active], req.batch)
    /\ Turns(active, Resolved(turns[active], req.batch, req.policy))
    /\ ctl' = [Unlocked EXCEPT !.who = "exchange", !.pc = "loop", !.tools = TRUE]
    /\ UNCHANGED <<active, facade, facades, session, around>>

\* Line 35: 409 while the active turn waits for results.
Pending(req) == Same(req) /\ active # 0

\* Line 40: the agent has this history, so only the new messages are sent.
Continues(req) == Same(req) /\ active = 0 /\ process /\ FacadeLive

\* Lines 47-57, on delta: all messages of the request when it starts over, else
\* the messages after the history.
Verdict(req) ==
    IF Same(req) /\ (req.tools \/ (~Continues(req) /\ hist = "tools")) THEN "unexpected"
    ELSE IF ~req.prompt THEN "reply"
    ELSE "begin"

\* 409, or 400 for what follows the history: nothing changes.
UserRejected(req) ==
    /\ Admitted(req)
    /\ Pending(req) \/ (Continues(req) /\ Verdict(req) # "begin")
    /\ UNCHANGED vars

\* Bound: the session has at most Cardinality(TurnId) turns.
HasTurnFor(req) == Verdict(req) = "begin" => Unborn # {}

\* To begin a turn the setup and the policy of the request are needed.
ToBegin(req) == [setup |-> req.setup, policy |-> req.policy]

UserContinues(req) ==
    /\ Admitted(req)
    /\ Continues(req) /\ Verdict(req) = "begin" /\ HasTurnFor(req)
    /\ ctl' = [Unlocked EXCEPT !.who = "exchange", !.pc = "begin",
                               !.req = ToBegin(req), !.tools = hist = "tools"]
    /\ UNCHANGED <<turns, active, facade, facades, session, around>>

\* Line 43: clearSession first; the verdict on all the messages follows it.
UserStartsOver(req) ==
    /\ Admitted(req)
    /\ ~Continues(req) /\ ~Pending(req) /\ HasTurnFor(req)
    /\ ctl' = [Holding("exchange", Verdict(req)) EXCEPT
                   !.req = IF Verdict(req) = "begin" THEN ToBegin(req) ELSE NoRequest,
                   !.tools = req.tools /\ Verdict(req) # "reply"]
    /\ UNCHANGED <<turns, active, facade, facades, session, around>>

ResultExchange(req) == ResultToOtherSetup(req) \/ ResultRejected(req) \/ ResultAccepted(req)
UserExchange(req) == UserRejected(req) \/ UserContinues(req) \/ UserStartsOver(req)

\* r.Context() ends before the handler returns.  context.AfterFunc runs its function on
\* a goroutine of its own, and only for the exchange that created the turn; it is
\* detached when that exchange returns (line 81).  A finished turn is cancelled already.
RequestLost ==
    /\ "request" \in Moves
    /\ ctl.who = "exchange" /\ ctl.then \in {"none", "begin"} /\ ~ctl.gone
    /\ ctl' = [ctl EXCEPT !.gone = TRUE]
    /\ firing' = IF ctl.owner /\ active # 0 THEN firing \cup {active} ELSE firing
    /\ UNCHANGED <<turns, active, facade, facades, session, captured, server>>

-----------------------------------------------------------------------------
(* handleToolChat: starting a turn.                                        *)

NeedsFacade == ~process /\ ctl.req.setup # Bare

\* Line 70: newMCPFacade fails.
FacadeFails ==
    /\ "start" \in Moves
    /\ At("exchange", "begin") /\ NeedsFacade
    /\ ctl' = Unlocked
    /\ UNCHANGED <<turns, active, facade, facades, session, around>>

\* Lines 67-87: the facade of a first turn, the turn, bind.  The contexts descend
\* from s.ctx, which Server.Close may have cancelled.
Begin ==
    /\ At("exchange", "begin")
    /\ LET t == NextTurn
           T == Created(turns[t], ctl.req.policy)
           ctx == IF server = "open" THEN "live" ELSE "done"
       IN  /\ Turns(t, IF server = "open" THEN T ELSE Cancelled(T, "canceled"))
           /\ active' = t
           /\ facade' = IF NeedsFacade THEN t ELSE facade
           /\ facades' =
                IF NeedsFacade
                THEN [facades EXCEPT ![t] = [ctx |-> ctx, active |-> t, bridge |-> "up"]]
                ELSE Bound(t)
           /\ firing' = IF ctl.gone THEN firing \cup {t} ELSE firing
    /\ setup' = ctl.req.setup
    /\ ctl' = [ctl EXCEPT !.pc = "start", !.then = "none", !.req = NoRequest, !.owner = TRUE]
    /\ UNCHANGED <<process, hist, store, captured, server>>

\* engine.Start for a first turn, then go turn.run and the watcher.
Start ==
    /\ At("exchange", "start")
    /\ Turns(active, RunStarted(turns[active]))
    /\ process' = TRUE
    /\ ctl' = [ctl EXCEPT !.pc = "loop"]
    /\ UNCHANGED <<active, facade, facades, setup, hist, store, around>>

\* Lines 98-104: close(turn.done), timeoutCancel, clearSession.
StartFails ==
    /\ "start" \in Moves
    /\ At("exchange", "start") /\ ~process
    /\ Turns(active, StartFailed(turns[active]))
    /\ ctl' = Holding("exchange", "reply")
    /\ UNCHANGED <<active, facade, facades, session, around>>

-----------------------------------------------------------------------------
(* handleToolChat: the event loop and the end of the exchange.             *)

\* One iteration that leaves the turn to this session.
LoopTo(guard, T) ==
    /\ At("exchange", "loop") /\ guard
    /\ Turns(active, T)
    /\ UNCHANGED <<active, facade, facades, session, around, ctl>>

LoopText(ok) ==
    /\ ok \/ "error" \in Moves
    /\ LoopTo(CanTake(turns[active], "text"), TextTaken(turns[active], ok))
LoopCall == LoopTo(CanTake(turns[active], "call"), CallTaken(turns[active]))

\* The select sees r.Context() or turn.ctx done.
LoopInterrupted ==
    LoopTo(CanInterrupt(turns[active]) /\ (ctl.gone \/ IsCancelled(turns[active])),
           Interrupted(turns[active]))

\* The response is to be written; deferred calls follow it.
Returning == [Unlocked EXCEPT !.who = "exchange", !.pc = "returning",
                              !.owner = ctl.owner, !.gone = ctl.gone]

\* Mutant of Recorded: a response with a tool call does not extend the history.
RecordedUnlessPending ==
    /\ hist' = IF turns'[active].exchange = "detached" THEN hist
               ELSE IF ctl.tools THEN "tools" ELSE "plain"
    /\ resume' \in {resume} \cup (IF "native" \in Moves THEN {Native} ELSE {})
    /\ Delete
    /\ ctl' = Returning
    /\ UNCHANGED <<process, facade, setup>>

\* Lines 183-196: the transcript the client is about to have is recorded, with the ID
\* of the native session if the agent has told it, and the store forgets the session.
Recorded ==
    /\ hist' = IF ctl.tools THEN "tools" ELSE "plain"
    /\ resume' \in {resume} \cup (IF "native" \in Moves THEN {Native} ELSE {})
    /\ Delete
    /\ ctl' = Returning
    /\ UNCHANGED <<process, facade, setup>>

\* Lines 197-202: the response is written to its end, the heartbeat stopped, the
\* AfterFunc detached and state.mu released.
Return ==
    /\ At("exchange", "returning")
    /\ ctl' = Unlocked
    /\ UNCHANGED <<turns, active, facade, facades, session, around>>

\* Lines 150-163: a finished turn leaves the session and the facade.
LoopDone ==
    /\ At("exchange", "loop") /\ CanTake(turns[active], "done")
    /\ LET T == DoneTaken(turns[active]) IN
        /\ Turns(active, T)
        /\ IF T.exchange = "over"
           THEN /\ active' = 0
                /\ facades' = Bound(0)
                /\ Recorded
           ELSE UNCHANGED <<active, facade, facades, session, ctl>>
    /\ UNCHANGED around

\* Lines 166-196, before the response with the call is written.
LoopRespond ==
    /\ At("exchange", "loop") /\ CanRespond(turns[active])
    /\ LET T == Responded(turns[active]) IN
        /\ Turns(active, T)
        /\ IF T.exchange = "detached" THEN Recorded ELSE UNCHANGED <<facade, session, ctl>>
    /\ UNCHANGED <<active, facades, around>>

\* Line 170.
LoopFails ==
    /\ At("exchange", "loop") /\ turns[active].exchange = "failing"
    /\ ctl' = Holding("exchange", "reply")
    /\ UNCHANGED <<turns, active, facade, facades, session, around>>

-----------------------------------------------------------------------------
(* sessionState.stop, run by whoever holds state.mu, and what follows it.  *)

\* mcpFacade.abort cancels the turn that is bound to the facade, if there is one.
Aborted(f, cause) ==
    IF facades[f].active = 0 THEN turns
    ELSE [turns EXCEPT ![facades[f].active] = Cancelled(@, cause)]

\* active.cancel, then facade.close: f.cancel and abort (no other turn is bound).
StopCancels ==
    /\ ctl.pc = "stop"
    /\ turns' = IF active # 0 THEN [turns EXCEPT ![active] = Cleared(@)]
                ELSE IF facade # 0 THEN Aborted(facade, "session")
                ELSE turns
    /\ facades' = [f \in TurnId |->
                      IF f = facade THEN [facades[f] EXCEPT !.ctx = "done"] ELSE facades[f]]
    /\ facade' = 0
    /\ ctl' = [ctl EXCEPT !.pc = "wait"]
    /\ UNCHANGED <<active, session, around>>

\* Mutant of TurnStopped: stop does not wait for t.done.
TurnLeft == TRUE
\* Line 155: <-s.active.done
TurnStopped == \A t \in TurnId : active = t => turns[t].run = "closed"

\* stopProcess has returned and t.done is closed.
Stopped ==
    /\ ctl.pc = "wait" /\ TurnStopped
    /\ active' = 0 /\ process' = FALSE
    /\ UNCHANGED <<turns, facade, facades, captured, firing>>

\* clearSession, after which an exchange begins its turn or replies and unlocks;
\* the watcher just unlocks.
ClearSession ==
    /\ ctl.who \in {"exchange", "watcher"}
    /\ Stopped
    /\ setup' = Bare /\ hist' = "none" /\ resume' = "none"
    /\ Delete
    /\ ctl' = IF ctl.then = "begin" THEN [ctl EXCEPT !.pc = "begin", !.then = "none"]
              ELSE Unlocked
    /\ UNCHANGED server

\* Mutant of Evicted: a session with tools keeps what it could be resumed by.
EvictedKeeping ==
    /\ ctl.who = "janitor"
    /\ Stopped
    /\ setup' = IF ctl.then = "hadTools" THEN Bare ELSE setup
    /\ ctl' = Unlocked
    /\ UNCHANGED <<hist, store, server>>
\* Lines 105-115 of registry.go: a session with tools cannot be resumed.
Evicted ==
    /\ ctl.who = "janitor"
    /\ Stopped
    /\ IF ctl.then = "hadTools" THEN hist' = "none" /\ setup' = Bare /\ resume' = "none"
       ELSE UNCHANGED <<hist, setup, resume>>
    /\ ctl' = Unlocked
    /\ UNCHANGED <<mem, disk, server>>

Closed ==
    /\ ctl.who = "closer"
    /\ Stopped
    /\ ctl' = Unlocked
    /\ server' = "closed"
    /\ UNCHANGED <<setup, hist, store>>

-----------------------------------------------------------------------------
(* A plain exchange of the session, whole, and other sessions.             *)

\* Server.handleChat does not go to handleToolChat (the negation of Admitted).
IsPlain ==
    /\ "plain" \in Moves
    /\ ctl.who = "none" /\ server \in {"open", "cancelled"}
    /\ active = 0 /\ facade = 0

\* Lines 461-465 of server.go: another history, or nothing to continue with.
PlainStartsOver ==
    /\ IsPlain
    /\ process' = FALSE /\ setup' = Bare /\ hist' = "none" /\ resume' = "none"
    /\ Delete
    /\ UNCHANGED <<turns, active, facade, facades, around, ctl>>

\* Lines 564-579: a turn of an agent that continues, is resumed or, when nothing is
\* left of the session, new.  A native session keeps its kind: only one whose ID the
\* gateway did not know gets the kind of this exchange.
PlainAnswered(tools, reported) ==
    /\ IsPlain /\ server = "open"
    /\ hist # "none" => process \/ resume # "none"
    /\ process' = TRUE
    /\ hist' = IF tools THEN "tools" ELSE "plain"
    /\ resume' = IF reported /\ resume = "none" THEN "plain" ELSE resume
    /\ IF resume' = "none" THEN UNCHANGED <<mem, disk>> ELSE mem' = resume' /\ Write(resume')
    /\ UNCHANGED <<turns, active, facade, facades, setup, around, ctl>>

\* Lines 547-551: the history is known by its count and hash still.
PlainFails ==
    /\ IsPlain
    /\ process' = FALSE
    /\ UNCHANGED <<turns, active, facade, facades, setup, hist, store, around, ctl>>

\* Another session's put or delete writes the records of all sessions.
OtherWrite ==
    /\ disk' = mem
    /\ UNCHANGED <<turns, active, facade, facades, process, setup, hist, resume, mem, around, ctl>>

PlainStep ==
    \/ PlainStartsOver \/ PlainFails
    \/ \E tools, reported \in BOOLEAN : PlainAnswered(tools, reported)

-----------------------------------------------------------------------------
(* The watcher of a turn, the janitor and Server.Close take state.mu.      *)

\* Mutant of WatcherOwns: the pointers are not compared.
WatcherOwnsAny(t) == active # 0
\* Mutant of WatcherOwns: a turn whose agent has ended is left to the next request.
WatcherOwnsRunning(t) == active = t /\ turns[t].run # "closed"
WatcherOwns(t) == active = t

\* A watcher that does not own the active turn unlocks at once.
Watcher(t) ==
    /\ turns[t].run # "none" /\ IsCancelled(turns[t])
    /\ ctl.who = "none" /\ WatcherOwns(t)
    /\ ctl' = Holding("watcher", "unlock")
    /\ UNCHANGED <<turns, active, facade, facades, session, around>>

\* evictIdle: TryLock succeeded and lastAccess is older than the ttl.
Evict ==
    /\ "evict" \in Moves
    /\ ctl.who = "none" /\ server \in {"open", "cancelled"}
    /\ process \/ facade # 0 \/ active # 0
    /\ ctl' = Holding("janitor", IF facade # 0 \/ active # 0 THEN "hadTools" ELSE "unlock")
    /\ UNCHANGED <<turns, active, facade, facades, session, around>>

\* s.cancel(): the contexts of all turns and facades descend from s.ctx.
CloseCancels ==
    /\ "close" \in Moves
    /\ server = "open"
    /\ server' = "cancelled"
    /\ turns' = [t \in TurnId |->
                    IF Born(t) THEN Cancelled(turns[t], "canceled") ELSE turns[t]]
    /\ facades' = [f \in TurnId |->
                    IF facades[f].ctx = "live" THEN [facades[f] EXCEPT !.ctx = "done"]
                    ELSE facades[f]]
    /\ UNCHANGED <<active, facade, session, captured, firing, ctl>>

\* registry.close: the map is replaced, then every state is locked and stopped.
CloseSwaps ==
    /\ server = "cancelled"
    /\ server' = "swapped"
    /\ UNCHANGED <<turns, active, facade, facades, session, captured, firing, ctl>>

CloseLocks ==
    /\ server = "swapped" /\ ctl.who = "none"
    /\ ctl' = Holding("closer", "unlock")
    /\ UNCHANGED <<turns, active, facade, facades, session, around>>

-----------------------------------------------------------------------------
(* The facade, the agent, and the contexts.                                *)

\* /call: the handler reads f.active; turn.call runs after the mutex is released.
CallArrives(c, f) ==
    /\ captured[c] = 0 /\ facades[f].active # 0
    /\ captured' = [captured EXCEPT ![c] = facades[f].active]
    /\ UNCHANGED <<turns, active, facade, facades, session, firing, ctl, server>>

OnTurn(t, guard, T) ==
    /\ guard
    /\ Turns(t, T)
    /\ UNCHANGED <<active, facade, facades, session, around, ctl>>

CallTool(c, t) == OnTurn(t, captured[c] = t /\ CanCall(turns[t], c), Called(turns[t], c))
EmitCall(c, t) == OnTurn(t, CanQueue(turns[t], c), Queued(turns[t], c))
AbandonCall(c, t) == OnTurn(t, CanAbandon(turns[t], c), Abandoned(turns[t], c))
ReturnResult(c, t) == OnTurn(t, CanReturn(turns[t], c), Returned(turns[t], c))
NoticeHangUp(c, t) == OnTurn(t, CanNoticeHangUp(turns[t], c), HangUpNoticed(turns[t], c))
HangUp(c, t) ==
    "hangup" \in Moves /\ OnTurn(t, CanHangUp(turns[t], c), HungUp(turns[t], c))

CallStep(c, t) ==
    \/ CallTool(c, t) \/ EmitCall(c, t) \/ AbandonCall(c, t)
    \/ ReturnResult(c, t) \/ NoticeHangUp(c, t)

EmitText(t) == "text" \in Moves /\ OnTurn(t, CanEmitText(turns[t]), TextEmitted(turns[t]))
\* An agent that fails on its own belongs to the move "error".
RunReturn(t, ok) ==
    /\ ok \/ IsCancelled(turns[t]) \/ "error" \in Moves
    /\ OnTurn(t, CanRunReturn(turns[t]), RunReturned(turns[t], ok))
EmitDone(t) == OnTurn(t, CanEmitDone(turns[t]), DoneEmitted(turns[t]))
DropDone(t) == OnTurn(t, CanDropDone(turns[t]), DoneDropped(turns[t]))
CloseDone(t) == OnTurn(t, CanCloseDone(turns[t]), DoneClosed(turns[t]))

Deadline(t) ==
    /\ "deadline" \in Moves
    /\ OnTurn(t, Born(t) /\ ~IsCancelled(turns[t]), Cancelled(turns[t], "deadline"))

\* The goroutine of context.AfterFunc, which may run after the exchange has ended.
RequestCancels(t) ==
    /\ t \in firing
    /\ firing' = firing \ {t}
    /\ Turns(t, Cancelled(turns[t], "request"))
    /\ UNCHANGED <<active, facade, facades, session, captured, ctl, server>>

\* /watch: the bridge process is gone; abort and f.cancel are two steps.  Once
\* f.ctx is done every turn of the facade is cancelled already.
BridgeAborts(f) ==
    /\ "bridge" \in Moves
    /\ facades[f].ctx = "live" /\ facades[f].bridge = "up"
    /\ turns' = Aborted(f, "bridge")
    /\ facades' = [facades EXCEPT ![f].bridge = "aborted"]
    /\ UNCHANGED <<active, facade, session, around, ctl>>

BridgeCancels(f) ==
    /\ facades[f].bridge = "aborted"
    /\ facades' = [facades EXCEPT ![f].bridge = "gone", ![f].ctx = "done"]
    /\ UNCHANGED <<turns, active, facade, session, around, ctl>>

-----------------------------------------------------------------------------

LoopStep ==
    \/ \E ok \in BOOLEAN : LoopText(ok)
    \/ LoopCall \/ LoopInterrupted \/ LoopDone \/ LoopRespond \/ LoopFails \/ Return

StartStep == Start \/ StartFails
StopStep == StopCancels \/ ClearSession \/ Evicted \/ Closed

TurnStep(t) ==
    \/ EmitText(t) \/ EmitDone(t) \/ DropDone(t) \/ CloseDone(t)
    \/ \E ok \in BOOLEAN : RunReturn(t, ok)
    \/ Deadline(t) \/ RequestCancels(t) \/ Watcher(t)
    \/ BridgeAborts(t) \/ BridgeCancels(t)

Next ==
    \/ \E req \in UserRequest : UserExchange(req)
    \/ \E req \in ResultRequest : ResultExchange(req)
    \/ RequestLost
    \/ FacadeFails \/ Begin \/ StartStep \/ LoopStep \/ StopStep
    \/ Evict \/ CloseCancels \/ CloseSwaps \/ CloseLocks
    \/ PlainStep \/ OtherWrite
    \/ \E t \in TurnId : TurnStep(t)
    \/ \E c \in Call, t \in TurnId : CallArrives(c, t) \/ CallStep(c, t) \/ HangUp(c, t)

Spec == Init /\ [][Next]_vars

\* Every goroutine that can proceed does; contexts have deadlines; engine.Start
\* and RunTurn return once their context is cancelled.  sync.Mutex does not starve
\* a waiter, which the two strong fairness conditions on state.mu say.
Fairness ==
    /\ WF_vars(FacadeFails \/ Begin) /\ WF_vars(LoopStep) /\ WF_vars(StopStep)
    /\ WF_vars(CloseSwaps) /\ SF_vars(CloseLocks)
    /\ \A t \in TurnId :
        /\ WF_vars(active = t /\ IsCancelled(turns[t]) /\ StartStep)
        /\ WF_vars(IsCancelled(turns[t]) /\ \E ok \in BOOLEAN : RunReturn(t, ok))
        /\ WF_vars(EmitDone(t) \/ DropDone(t) \/ CloseDone(t))
        /\ WF_vars(Deadline(t))
        /\ SF_vars(Watcher(t))

FairSpec == Spec /\ Fairness

-----------------------------------------------------------------------------
(* Properties.                                                             *)

\* Two prompts never run in the agent at the same time: a turn is started only
\* after the goroutine of the one before it has left RunTurn (registry.go:154-157,
\* tool_chat.go:156-162).
OnePromptAtATime ==
    \A t, u \in TurnId : turns[t].run = "running" /\ turns[u].run = "running" => t = u

\* A turn the session has left, because it finished, failed or was stopped, is cancelled
\* and its goroutine is past RunTurn (registry.go:144-157, tool_chat.go:156-162), so a
\* call handler or a watcher that comes late finds a turn that has ended.
OnlyActiveTurnLives ==
    \A t \in TurnId : Born(t) /\ t # active =>
        IsCancelled(turns[t]) /\ turns[t].run \in {"leaving", "closed"}

\* "Correctable result errors leave the pending turn available for retry"
\* (README, Client function calling): whatever was rejected before, a live pending
\* turn still has the history to match, its process, its bound facade, and one
\* call in the client's hands whose handler is waiting.
PendingTurnContinuable ==
    (ctl.who = "none" /\ active # 0 /\ ~IsCancelled(turns[active])) =>
        /\ hist # "none" /\ process
        /\ facade # 0 => facades[facade].active = active
        /\ \E c \in Call : turns[active].delivered = {c} /\ turns[active].phase[c] = "waiting"

\* A watcher only ever tears down the cancelled turn it watches: "Comparing
\* pointers prevents a late watcher from clearing a new turn" (tool_chat.go:108).
WatcherSparesNewTurn ==
    ctl.who = "watcher" /\ active # 0 => IsCancelled(turns[active])

\* "Pending turns are deliberately never persisted" (tool_chat.go:192), "Tool sessions
\* stay in memory and are not resumed across gateway restarts or idle eviction"
\* (README:139): no record ever names a native session with tools, and a session with
\* a turn has none at all, nor the file that a restart reads if writing does not fail.
\* When the write of clearSession fails the file keeps the record of the plain
\* conversation that was given up.
PendingNeverPersisted ==
    /\ mem # "tools" /\ disk # "tools"
    /\ active # 0 => mem = "none" /\ ("write" \notin Moves => disk = "none")

\* "Disconnects cancel work only while this HTTP exchange is attached. Unregister before
\* returning tool_calls so the next exchange can resume" (tool_chat.go:78-79): a client
\* that leaves when the call has been returned to it does not cancel the turn.
DisconnectCancelsOnlyWhileAttached ==
    [][\A t \in firing' \ firing : turns[t].exchange # "detached"]_vars

\* Only the session's facade accepts calls: every other facade is shut down, and
\* an idle session's facade refuses calls (409, no active turn).
OtherFacadesShut ==
    \A f \in TurnId :
        /\ f # facade => facades[f].ctx # "live"
        /\ f = facade /\ active = 0 => facades[f].active = 0

\* After Server.Close the session has no turn, process or facade, and each of its turns
\* is cancelled with its goroutine past RunTurn.
ClosedReleasesAll ==
    server = "closed" =>
        /\ active = 0 /\ facade = 0 /\ ~process
        /\ \A t \in TurnId :
              Born(t) => IsCancelled(turns[t]) /\ turns[t].run \in {"leaving", "closed"}

\* An exchange always ends, releasing state.mu: by a response, by its own
\* disconnect or by the deadline, also when it has to stop an earlier turn.
ExchangeEnds == ctl.who = "exchange" ~> ctl.who # "exchange"

\* A turn that is cancelled between two exchanges is cleared by its watcher
\* ("This watcher also cleans up a timed-out turn between HTTP exchanges").
CancelledTurnCleared ==
    \A t \in TurnId : active = t /\ IsCancelled(turns[t]) ~> active # t

\* Server.Close returns.
CloseReturns == server = "cancelled" ~> server = "closed"

\* Every turn of the session is an ActiveTurn: what is checked and proved of one
\* turn holds for each of them.
TurnOf(t) == INSTANCE ActiveTurn WITH turn <- turns[t]
EachTurnIsActiveTurn ==
    /\ \A t \in TurnId : TurnOf(t)!Init
    /\ [][\A t \in TurnId : turns'[t] = turns[t] \/ TurnOf(t)!Next]_turns
=============================================================================
