--------------------------- MODULE ResponseStream ---------------------------
(***************************************************************************)
(* From what the agent says in one turn to what the client reads: the      *)
(* collector of each response (stream.go), its heartbeat goroutine, and    *)
(* the two ways to it.  On the plain path RunTurn hands every message to   *)
(* the collector; on the tool path the messages and the tool calls go      *)
(* through turn.events and the turn is cut into one response per call      *)
(* (tool_chat.go).                                                         *)
(*                                                                         *)
(* The agent is external.  What it says on a channel is numbered 1, 2, ... *)
(* and comes in blocks: deltas followed by the whole block, or the whole   *)
(* block alone.  Old turns that a resumed agent replays are numbered 0.    *)
(***************************************************************************)
EXTENDS Naturals, Sequences, SequencesExt, FiniteSets

CONSTANTS
    Paths,      \* the paths of a run: "plain", "tools"
    Capacity,   \* capacity of turn.events
    Backlog,    \* bound: messages between the agent and RunTurn
    MaxSaid,    \* bound: pieces the agent says on a channel
    MaxBeats    \* bound: heartbeats in a response

ASSUME StreamAssumption ==
    /\ Paths \subseteq {"plain", "tools"}
    /\ Capacity \in Nat \ {0} /\ Backlog \in Nat \ {0}
    /\ MaxSaid \in Nat /\ MaxBeats \in Nat

Channel == {"text", "thinking"}
Whole == [kind : {"delta", "full"}, channel : Channel, pieces : Seq(Nat)]
Plain == [kind : {"init", "error", "call", "done"}]
Message == Whole \cup Plain
Chunk == [kind : {"role", "beat", "calls", "finish", "error", "DONE"}]
            \cup [kind : Channel, pieces : Seq(Nat)]

VARIABLES
    path,       \* the path of this turn
    agent,      \* what the agent has said and does next
    output,     \* messages of the agent that RunTurn has not taken
    events,     \* turn.events
    call,       \* the tool call the agent waits for
    c,          \* the collector of the current response
    turnSaw,    \* turn.sawDelta and turn.sawThinking
    shown,      \* what the earlier responses of the turn said
    pc,         \* where the handler is
    heartbeat   \* its goroutine: "off", "waiting" in its select, "beating"

vars == <<path, agent, output, events, call, c, turnSaw, shown, pc, heartbeat>>

\* startHeartbeat: only a stream has the goroutine.
StartHeartbeat(stream) == IF stream THEN "waiting" ELSE "off"

Nothing == [ch \in Channel |-> <<>>]

\* saw holds the channels whose last message was a delta (sawDelta, sawThinking).
NewCollector(stream, resumed, saw) ==
    [stream |-> stream, waiting |-> resumed, saw |-> saw, out |-> Nothing,
     calls |-> FALSE, closed |-> FALSE,
     wire |-> IF stream THEN <<[kind |-> "role"]>> ELSE <<>>]

Init ==
    \E p \in Paths, stream, resumed \in BOOLEAN :
        /\ resumed => p = "plain"   \* handleToolChat never resumes
        /\ path = p
        /\ agent = [pc |-> IF resumed THEN "replay" ELSE "talk", resumed |-> resumed,
                    said |-> [ch \in Channel |-> 0], open |-> [ch \in Channel |-> 0]]
        /\ output = <<>> /\ events = <<>>
        /\ call = "none"
        /\ c = NewCollector(stream, resumed, {})
        /\ turnSaw = {}
        /\ shown = Nothing
        /\ pc = "loop"
        /\ heartbeat = StartHeartbeat(stream)

-----------------------------------------------------------------------------
(* The agent.                                                              *)

Says(message) ==
    /\ Len(output) < Backlog
    /\ output' = Append(output, message)
    /\ UNCHANGED <<path, events, call, c, turnSaw, shown, pc, heartbeat>>

Replay(ch, kind) ==
    /\ agent.pc = "replay"
    /\ Says([kind |-> kind, channel |-> ch, pieces |-> <<0>>])
    /\ UNCHANGED agent

SayInit ==
    /\ agent.pc = "replay"
    /\ agent' = [agent EXCEPT !.pc = "talk"]
    /\ Says([kind |-> "init"])

SayDelta(ch) ==
    /\ agent.pc = "talk" /\ agent.said[ch] < MaxSaid
    /\ agent' = [agent EXCEPT !.said[ch] = @ + 1, !.open[ch] = @ + 1]
    /\ Says([kind |-> "delta", channel |-> ch, pieces |-> <<agent.said[ch] + 1>>])

\* The end of a block that came in deltas, or a block at once.
SayFull(ch) ==
    LET n == agent.said[ch]
        k == agent.open[ch]
    IN  /\ agent.pc = "talk"
        /\ k = 0 => n < MaxSaid
        /\ agent' = IF k = 0 THEN [agent EXCEPT !.said[ch] = @ + 1]
                    ELSE [agent EXCEPT !.open[ch] = 0]
        /\ Says([kind |-> "full", channel |-> ch,
                 pieces |-> IF k = 0 THEN <<n + 1>> ELSE [i \in 1 .. k |-> n - k + i]])

SayDone ==
    /\ agent.pc = "talk" /\ \A ch \in Channel : agent.open[ch] = 0
    /\ agent' = [agent EXCEPT !.pc = "done"]
    /\ Says([kind |-> "done"])

SayError ==
    /\ agent.pc \in {"replay", "talk"}
    /\ agent' = [agent EXCEPT !.pc = "done"]
    /\ Says([kind |-> "error"])

\* The agent calls a tool through the MCP bridge and waits for its result.
MakeCall ==
    /\ path = "tools" /\ agent.pc = "talk"
    /\ agent' = [agent EXCEPT !.pc = "waiting"]
    /\ call' = "made"
    /\ UNCHANGED <<path, output, events, c, turnSaw, shown, pc, heartbeat>>

-----------------------------------------------------------------------------
(* turn.events: the goroutine of run and the MCP call handler send to it.  *)

HasRoom == Len(events) < Capacity

Relay ==
    /\ path = "tools" /\ output # <<>> /\ HasRoom
    /\ events' = Append(events, Head(output))
    /\ output' = Tail(output)
    /\ UNCHANGED <<path, agent, call, c, turnSaw, shown, pc, heartbeat>>

QueueCall ==
    /\ call = "made" /\ HasRoom
    /\ events' = Append(events, [kind |-> "call"])
    /\ call' = "queued"
    /\ UNCHANGED <<path, agent, output, c, turnSaw, shown, pc, heartbeat>>

-----------------------------------------------------------------------------
(* The collector.                                                          *)

Written(C, chunks) == [C EXCEPT !.wire = @ \o chunks]

\* appendText and appendReasoning.
Appended(C, ch, pieces) ==
    LET D == [C EXCEPT !.out[ch] = @ \o pieces]
    IN  IF C.stream THEN Written(D, <<[kind |-> ch, pieces |-> pieces]>>) ELSE D

DeltaHandled(C, m) ==
    IF C.waiting THEN C
    ELSE [Appended(C, m.channel, m.pieces) EXCEPT !.saw = @ \cup {m.channel}]

FullHandled(C, m) ==
    IF C.waiting THEN C
    ELSE [(IF m.channel \in C.saw THEN C ELSE Appended(C, m.channel, m.pieces))
            EXCEPT !.saw = @ \ {m.channel}]

\* collector.handle, for messages that are not errors.
Handled(C, m) ==
    CASE m.kind = "init" -> [C EXCEPT !.waiting = FALSE]
      [] m.kind = "delta" -> DeltaHandled(C, m)
      [] m.kind = "full" -> FullHandled(C, m)

\* finishStream, or writeCompletion with everything at once.  The end of a response
\* that is not a stream is written as DONE too.
Finished(C) ==
    LET calls == IF C.calls THEN <<[kind |-> "calls"]>> ELSE <<>>
        all == <<[kind |-> "thinking", pieces |-> C.out["thinking"]],
                 [kind |-> "text", pieces |-> C.out["text"]]>>
        end == <<[kind |-> "finish"], [kind |-> "DONE"]>>
    IN  [Written(C, IF C.stream THEN calls \o end ELSE all \o calls \o end)
            EXCEPT !.closed = TRUE]

\* streamError, or writeError.
Errored(C) ==
    [Written(C, <<[kind |-> "error"], [kind |-> "DONE"]>>) EXCEPT !.closed = TRUE]

\* resetForFreshSession: what was written stays written.
Reset(C) == [C EXCEPT !.out = Nothing, !.saw = {}, !.waiting = FALSE]

-----------------------------------------------------------------------------
(* The heartbeat goroutine.                                                *)

Beats(C) == Cardinality({i \in DOMAIN C.wire : C.wire[i].kind = "beat"})

\* The deferred call has closed done.
\* Mutant of StopSignalled: it waits for the goroutine without telling it.
StopUnsignalled == FALSE
StopSignalled == pc \in {"ended", "failed"}

\* The ticker fires, perhaps when done is closed too: select takes either.
Tick ==
    /\ heartbeat = "waiting"
    /\ heartbeat' = "beating"
    /\ UNCHANGED <<path, agent, output, events, call, c, turnSaw, shown, pc>>

\* Mutant of CanBeat: beat does not look at closed.
CanBeatClosed == TRUE
CanBeat == ~c.closed

\* beat, and back to the select; nothing is written shortly after another write.
Beat ==
    /\ heartbeat = "beating"
    /\ heartbeat' = "waiting"
    /\ \/ CanBeat /\ Beats(c) < MaxBeats /\ c' = Written(c, <<[kind |-> "beat"]>>)
       \/ UNCHANGED c
    /\ UNCHANGED <<path, agent, output, events, call, turnSaw, shown, pc>>

HeartbeatExits ==
    /\ heartbeat = "waiting" /\ StopSignalled
    /\ heartbeat' = "off"
    /\ UNCHANGED <<path, agent, output, events, call, c, turnSaw, shown, pc>>

-----------------------------------------------------------------------------
(* The handler: handleChat on the plain path, handleToolChat with tools.   *)

\* RunTurn calls collector.handle; on the tool path the loop takes an event.
Arrives(m) ==
    /\ pc = "loop"
    /\ IF path = "plain"
       THEN output # <<>> /\ m = Head(output) /\ output' = Tail(output) /\ UNCHANGED events
       ELSE events # <<>> /\ m = Head(events) /\ events' = Tail(events) /\ UNCHANGED output

TakeMessage ==
    \E m \in ToSet(output) \cup ToSet(events) :
        /\ Arrives(m) /\ m.kind \in {"init", "delta", "full"}
        /\ c' = Handled(c, m)
        /\ UNCHANGED <<path, agent, call, turnSaw, shown, pc, heartbeat>>

\* Mutant of Saved: the next response does not know that a block has begun.
Forgotten(C) == {}
\* Lines 183-184 of tool_chat.go.
Saved(C) == C.saw

\* The response ends; the transcript of the session gets what it says.
Ends(C) ==
    /\ c' = Finished(C)
    /\ turnSaw' = Saved(C)
    /\ shown' = [ch \in Channel |-> shown[ch] \o C.out[ch]]
    /\ pc' = "ended"

TakeCall ==
    /\ Arrives([kind |-> "call"])
    /\ Ends([c EXCEPT !.calls = TRUE])
    /\ call' = "offered"
    /\ UNCHANGED <<path, agent, heartbeat>>

TakeDone ==
    /\ Arrives([kind |-> "done"])
    /\ Ends(c)
    /\ UNCHANGED <<path, agent, call, heartbeat>>

TakeError ==
    /\ Arrives([kind |-> "error"])
    /\ c' = Errored(c)
    /\ pc' = "failed"
    /\ UNCHANGED <<path, agent, call, turnSaw, shown, heartbeat>>

\* Mutant of CanStartFresh: text that was shown does not matter.
CanStartFreshLate == path = "plain" /\ pc = "loop" /\ agent.resumed
CanStartFresh ==
    path = "plain" /\ pc = "loop" /\ agent.resumed /\ c.out["text"] = <<>>

\* Lines 534-545 of server.go: the agent has no such session any more; another one is
\* told everything.
StartFresh ==
    /\ CanStartFresh
    /\ agent' = [pc |-> "talk", resumed |-> FALSE, said |-> [ch \in Channel |-> 0],
                 open |-> [ch \in Channel |-> 0]]
    /\ output' = <<>>
    /\ c' = Reset(c)
    /\ UNCHANGED <<path, events, call, turnSaw, shown, pc, heartbeat>>

\* The deferred call waits for <-stopped, then the handler returns.
Return ==
    /\ pc \in {"ended", "failed"} /\ heartbeat = "off"
    /\ pc' = IF pc = "failed" THEN "aborted" ELSE IF c.calls THEN "away" ELSE "over"
    /\ UNCHANGED <<path, agent, output, events, call, c, turnSaw, shown, heartbeat>>

\* The exchange that brings the result attaches to the turn.
Attach(stream) ==
    /\ pc = "away" /\ call = "offered"
    /\ call' = "none"
    /\ agent' = [agent EXCEPT !.pc = "talk"]
    /\ c' = NewCollector(stream, FALSE, turnSaw)
    /\ heartbeat' = StartHeartbeat(stream)
    /\ pc' = "loop"
    /\ UNCHANGED <<path, output, events, turnSaw, shown>>

-----------------------------------------------------------------------------

Next ==
    \/ \E ch \in Channel, kind \in {"delta", "full"} : Replay(ch, kind)
    \/ \E ch \in Channel : SayDelta(ch) \/ SayFull(ch)
    \/ SayInit \/ SayDone \/ SayError \/ MakeCall
    \/ Relay \/ QueueCall
    \/ Tick \/ Beat \/ HeartbeatExits
    \/ TakeMessage \/ TakeCall \/ TakeDone \/ TakeError \/ StartFresh \/ Return
    \/ \E stream \in BOOLEAN : Attach(stream)

Spec == Init /\ [][Next]_vars

\* The goroutines of the response run.  select takes at random between done and the
\* ticker, so done is not missed for ever.
Fairness == WF_vars(Beat) /\ SF_vars(HeartbeatExits) /\ WF_vars(Return)

FairSpec == Spec /\ Fairness

-----------------------------------------------------------------------------
(* Properties.                                                             *)

Answered(ch) == IF pc = "loop" THEN shown[ch] \o c.out[ch] ELSE shown[ch]

\* Every piece of text and of reasoning the agent says reaches the client once, in
\* order, and in the end completely, however its blocks are cut into deltas and its
\* turn into responses (stream.go:72-99, tool_chat.go:123-124, 183-184).
EachPieceOnce ==
    \A ch \in Channel :
        /\ Answered(ch) = [i \in 1 .. Len(Answered(ch)) |-> i]
        /\ pc = "over" => Len(Answered(ch)) = agent.said[ch]

TextOf(wire) ==
    FlattenSeq([i \in DOMAIN wire |->
                    IF wire[i].kind = "text" THEN wire[i].pieces ELSE <<>>])

\* The text the client assembles from a response is the text the gateway records, so
\* that the next request extends the session's history (server.go:564, 128-129).
ClientHasTranscript ==
    pc \in {"ended", "away", "over"} => TextOf(c.wire) = c.out["text"]

\* A stream begins with the role and ends with one [DONE]; the heartbeat writes
\* nothing after it (stream.go:177-184).
NothingAfterDone ==
    /\ c.stream => c.wire[1].kind = "role"
    /\ \A i \in DOMAIN c.wire : c.wire[i].kind = "DONE" => i = Len(c.wire)
    /\ c.closed => Last(c.wire).kind = "DONE"

\* A handler whose response is complete returns: the heartbeat it waits for, which may
\* be in a beat or see another tick first, ends (stream.go:161-174).
HandlerReturns == pc \in {"ended", "failed"} ~> pc \notin {"ended", "failed"}

\* "Text before a tool call is included in its response" (README:116-117).
TextBeforeCallIncluded ==
    pc = "ended" /\ c.calls => Len(shown["text"]) = agent.said["text"]
=============================================================================
