-------------------------- MODULE ActiveTurnProofs --------------------------
(***************************************************************************)
(* ActiveTurn satisfies its type invariant and its safety invariants, and  *)
(* implements ToolCallLifecycle, for any set of calls and tools, any       *)
(* capacity of the event channel and any batches.                          *)
(***************************************************************************)
EXTENDS ActiveTurn, FiniteSetTheorems, TLAPS

\* The parts of a turn that say where its calls are.
Places(T) == <<T.events, T.phase, T.pending, T.delivered, T.result>>

\* U follows T without moving a call: a cancelled turn stays cancelled, a failing
\* exchange ends only in a cancelled turn, and the exchange neither hands a call to
\* the client nor takes one back.
Quiet(T, U) ==
    /\ Places(U) = Places(T)
    /\ T.cause # "none" => U.cause # "none"
    /\ T.exchange = "failing" => U.exchange = "failing" \/ U.cause # "none"
    /\ U.exchange \in {"none", "starting", "attached"}
            => T.exchange \in {"none", "starting", "attached"}
    /\ U.exchange \in {"responding", "detached"}
            => T.exchange \in {"responding", "detached"}

-----------------------------------------------------------------------------
(* What the steps on a turn record do to its fields.                       *)

\* activeTurn.cancel keeps the type and the calls of a turn.
LEMMA CancelledType ==
    ASSUME NEW T \in Turn, NEW cause \in Cause \ {"none"}
    PROVE  /\ Cancelled(T, cause) \in Turn
           /\ Places(Cancelled(T, cause)) = Places(T)
           /\ Cancelled(T, cause).cause # "none"
           /\ Cancelled(T, cause).exchange = T.exchange
  BY DEF Cancelled, Turn, Places

\* A step of the exchange alone moves no call.
LEMMA SetExchange ==
    ASSUME NEW T \in Turn, NEW x \in ExchangePhase
    PROVE  /\ [T EXCEPT !.exchange = x] \in Turn
           /\ Places([T EXCEPT !.exchange = x]) = Places(T)
           /\ [T EXCEPT !.exchange = x].cause = T.cause
           /\ [T EXCEPT !.exchange = x].exchange = x
  BY DEF Turn, Places

\* Replacing the event queue leaves the calls as they are.
LEMMA SetEvents ==
    ASSUME NEW T \in Turn, NEW s \in Seq(Event)
    PROVE  /\ [T EXCEPT !.events = s] \in Turn
           /\ Places([T EXCEPT !.events = s])
                = <<s, T.phase, T.pending, T.delivered, T.result>>
           /\ [T EXCEPT !.events = s].cause = T.cause
           /\ [T EXCEPT !.events = s].exchange = T.exchange
  BY DEF Turn, Places

\* Creation, cancellation, the end of run and of an exchange are quiet steps.
LEMMA QuietActions ==
    ASSUME TypeOK,
           \/ \E p \in Policies : NewTurn(p)
           \/ StartRun \/ FailStart
           \/ \E c \in Call : HangUp(c)
           \/ \E ok \in BOOLEAN : RunReturn(ok)
           \/ DropDone \/ CloseDone
           \/ Interrupt \/ Respond \/ Clear
           \/ \E cause \in Cause \ {"none", "call"} : Cancel(cause)
    PROVE  turn' \in Turn /\ Quiet(turn, turn')
<1>. USE DEF TypeOK, Quiet
<1>1. CASE \E p \in Policies : NewTurn(p)
  <2>. PICK p \in Policies : NewTurn(p) BY <1>1
  <2>1. Created(turn, p) \in Turn /\ Quiet(turn, Created(turn, p))
    BY TurnAssumption DEF NewTurn, Created, Turn, Places, ExchangePhase
  <2>2. Created(turn, p).exchange = "starting" BY DEF Created, Turn
  <2>. QED BY <2>1, <2>2, CancelledType DEF NewTurn, Cause
<1>2. CASE StartRun
  BY <1>2 DEF StartRun, RunStarted, Turn, Places, ExchangePhase, RunPhase
<1>3. CASE FailStart
  <2>. DEFINE C == Cancelled(turn, "canceled")
  <2>1. C \in Turn /\ Places(C) = Places(turn) /\ C.cause # "none"
    BY CancelledType DEF Cause
  <2>2. turn' = [C EXCEPT !.run = "closed", !.exchange = "failing"]
    BY <1>3 DEF FailStart, StartFailed
  <2>. HIDE DEF C
  <2>. QED BY <2>1, <2>2 DEF Turn, Places, ExchangePhase, RunPhase
<1>4. CASE \E c \in Call : HangUp(c)
  <2>. PICK c \in Call : HangUp(c) BY <1>4
  <2>. DEFINE g == turn.gone \cup {c}
  <2>1. g \in SUBSET Call BY DEF Turn
  <2>2. turn' = [turn EXCEPT !.gone = g] BY DEF HangUp, HungUp
  <2>. HIDE DEF g
  <2>. QED BY <2>1, <2>2 DEF Turn, Places
<1>5. CASE \E ok \in BOOLEAN : RunReturn(ok)
  BY <1>5 DEF RunReturn, RunReturned, Turn, Places, RunPhase
<1>6. CASE DropDone
  BY <1>6 DEF DropDone, DoneDropped, Turn, Places, RunPhase
<1>7. CASE CloseDone
  BY <1>7 DEF CloseDone, DoneClosed, Turn, Places, RunPhase
<1>8. CASE Interrupt
  BY <1>8, SetExchange DEF Interrupt, Interrupted, CanInterrupt, ExchangePhase
<1>9. CASE Respond
  <2>. DEFINE x == IF IsCancelled(turn) THEN "failing" ELSE "detached"
  <2>1. turn.exchange = "responding" /\ turn' = [turn EXCEPT !.exchange = x]
    BY <1>9 DEF Respond, Responded, CanRespond
  <2>2. x \in {"failing", "detached"} OBVIOUS
  <2>. HIDE DEF x
  <2>3. x \in ExchangePhase BY <2>2 DEF ExchangePhase
  <2>4. /\ turn' \in Turn /\ Places(turn') = Places(turn)
        /\ turn'.cause = turn.cause /\ turn'.exchange = x
    BY <2>1, <2>3, SetExchange
  <2>. QED BY <2>1, <2>2, <2>4
<1>10. CASE Clear
  <2>. DEFINE C == Cancelled(turn, "canceled")
  <2>1. C \in Turn /\ Places(C) = Places(turn) /\ C.cause # "none"
    BY CancelledType DEF Cause
  <2>2. turn' = [C EXCEPT !.exchange = "over"] BY <1>10 DEF Clear, Cleared
  <2>. HIDE DEF C
  <2>. QED BY <2>1, <2>2, SetExchange DEF ExchangePhase
<1>11. CASE \E cause \in Cause \ {"none", "call"} : Cancel(cause)
  BY <1>11, CancelledType DEF Cancel
<1>. QED BY <1>1, <1>2, <1>3, <1>4, <1>5, <1>6, <1>7, <1>8, <1>9, <1>10, <1>11

\* A quiet step preserves the inductive invariant.
LEMMA QuietStep ==
    ASSUME IInv, turn' \in Turn, Quiet(turn, turn')
    PROVE  IInv'
<1>1. /\ turn'.events = turn.events /\ turn'.phase = turn.phase
      /\ turn'.pending = turn.pending /\ turn'.delivered = turn.delivered
      /\ turn'.result = turn.result
  BY DEF Quiet, Places
<1>2. QueueInv' BY <1>1 DEF IInv, QueueInv, IsCallOf
<1>3. PhaseInv' BY <1>1 DEF IInv, PhaseInv, Quiet
<1>4. OfferInv' BY <1>1 DEF IInv, OfferInv, Quiet
<1>5. ReleaseNeverBlocks' BY <1>1 DEF IInv, ReleaseNeverBlocks
<1>6. CallHeldOnce' BY <1>1 DEF IInv, CallHeldOnce, InQueue, IsCallOf, Quiet
<1>. QED BY <1>2, <1>3, <1>4, <1>5, <1>6 DEF IInv, TypeOK

-----------------------------------------------------------------------------
(* The event queue.                                                        *)

\* Appending or removing an event that is not a call leaves every call in place.
LEMMA AppendOther ==
    ASSUME IInv, NEW e \in Event, e.kind # "call",
           turn' \in Turn,
           Places(turn') = <<Append(turn.events, e), turn.phase, turn.pending,
                             turn.delivered, turn.result>>,
           turn'.cause = turn.cause, turn'.exchange = turn.exchange
    PROVE  IInv'
<1>1. /\ turn'.events = Append(turn.events, e) /\ turn'.phase = turn.phase
      /\ turn'.pending = turn.pending /\ turn'.delivered = turn.delivered
      /\ turn'.result = turn.result
  BY DEF Places
<1>. DEFINE n == Len(turn.events)
<1>2. turn.events \in Seq(Event) BY DEF IInv, TypeOK, Turn
<1>3. /\ n \in Nat /\ DOMAIN turn.events = 1 .. n /\ DOMAIN turn'.events = 1 .. (n + 1)
      /\ \A i \in 1 .. n : turn'.events[i] = turn.events[i]
      /\ turn'.events[n + 1] = e
  BY <1>1, <1>2
<1>. HIDE DEF n
<1>4. QueueInv' BY <1>1, <1>3 DEF IInv, QueueInv, IsCallOf
<1>5. \A c : InQueue(c) <=> InQueue(c)' BY <1>3 DEF InQueue, IsCallOf
<1>6. CallHeldOnce' BY <1>1, <1>5 DEF IInv, CallHeldOnce
<1>7. PhaseInv' /\ OfferInv' /\ ReleaseNeverBlocks'
  BY <1>1 DEF IInv, PhaseInv, OfferInv, ReleaseNeverBlocks
<1>. QED BY <1>4, <1>6, <1>7 DEF IInv, TypeOK

\* What the exchange reads is the first event; the rest move up by one.
LEMMA TailFacts ==
    ASSUME NEW s \in Seq(Event), s # <<>>
    PROVE  /\ Len(s) \in Nat \ {0} /\ DOMAIN s = 1 .. Len(s) /\ Head(s) = s[1]
           /\ Tail(s) \in Seq(Event) /\ DOMAIN Tail(s) = 1 .. (Len(s) - 1)
           /\ \A i \in 1 .. (Len(s) - 1) : Tail(s)[i] = s[i + 1]
  OBVIOUS

\* Taking an event that is not a call preserves the inductive invariant.
LEMMA TailOther ==
    ASSUME IInv, turn.events # <<>>, Head(turn.events).kind # "call",
           turn' \in Turn,
           Places(turn') = <<Tail(turn.events), turn.phase, turn.pending,
                             turn.delivered, turn.result>>,
           turn.exchange = "attached",
           turn'.cause = turn.cause \/ turn'.cause # "none",
           turn'.exchange \in {"attached", "failing", "over"},
           turn'.exchange = "over" => turn'.cause # "none"
    PROVE  IInv'
<1>1. /\ turn'.events = Tail(turn.events) /\ turn'.phase = turn.phase
      /\ turn'.pending = turn.pending /\ turn'.delivered = turn.delivered
      /\ turn'.result = turn.result
  BY DEF Places
<1>. DEFINE n == Len(turn.events)
<1>2. turn.events \in Seq(Event) BY DEF IInv, TypeOK, Turn
<1>3. /\ n \in Nat \ {0} /\ DOMAIN turn.events = 1 .. n /\ DOMAIN turn'.events = 1 .. (n - 1)
      /\ \A i \in 1 .. (n - 1) : turn'.events[i] = turn.events[i + 1]
      /\ turn.events[1].kind # "call"
  BY <1>1, <1>2, TailFacts
<1>. HIDE DEF n
<1>4. QueueInv'
  <2>1. ASSUME NEW i \in 1 .. (n - 1), turn'.events[i].kind = "call"
        PROVE  /\ turn'.events[i].id \in turn'.pending \ turn'.delivered
               /\ turn'.phase[turn'.events[i].id] \in {"waiting", "failed"}
               /\ \A j \in 1 .. (n - 1) :
                     IsCallOf(turn'.events[j], turn'.events[i].id) => i = j
    <3>1. i + 1 \in 1 .. n /\ turn'.events[i] = turn.events[i + 1] BY <1>3
    <3>2. /\ turn'.events[i].id \in turn.pending \ turn.delivered
          /\ turn.phase[turn'.events[i].id] \in {"waiting", "failed"}
          /\ \A j \in 1 .. n : IsCallOf(turn.events[j], turn'.events[i].id) => i + 1 = j
      BY <3>1, <2>1, <1>3 DEF IInv, QueueInv
    <3>3. ASSUME NEW j \in 1 .. (n - 1), IsCallOf(turn'.events[j], turn'.events[i].id)
          PROVE  i = j
      <4>1. j + 1 \in 1 .. n /\ turn'.events[j] = turn.events[j + 1] BY <1>3
      <4>2. i + 1 = j + 1 BY <4>1, <3>2, <3>3
      <4>. QED BY <4>2, <1>3
    <3>. QED BY <3>2, <3>3, <1>1
  <2>2. DOMAIN turn'.events = 1 .. (n - 1) BY <1>3
  <2>. QED BY <2>1, <2>2 DEF QueueInv, IsCallOf
<1>5. \A c : InQueue(c) <=> InQueue(c)'
  <2>. TAKE c
  <2>1. ASSUME InQueue(c) PROVE InQueue(c)'
    <3>1. PICK i \in 1 .. n : IsCallOf(turn.events[i], c) BY <2>1, <1>3 DEF InQueue
    <3>2. i # 1 /\ i - 1 \in 1 .. (n - 1) BY <3>1, <1>3 DEF IsCallOf
    <3>3. turn'.events[i - 1] = turn.events[i] BY <3>2, <1>3
    <3>. QED BY <3>1, <3>2, <3>3, <1>3 DEF InQueue, IsCallOf
  <2>2. ASSUME InQueue(c)' PROVE InQueue(c)
    <3>1. PICK i \in 1 .. (n - 1) : IsCallOf(turn'.events[i], c)
      BY <2>2, <1>3 DEF InQueue, IsCallOf
    <3>2. i + 1 \in 1 .. n /\ turn'.events[i] = turn.events[i + 1] BY <1>3
    <3>. QED BY <3>1, <3>2, <1>3 DEF InQueue
  <2>. QED BY <2>1, <2>2
<1>6. CallHeldOnce' BY <1>1, <1>5 DEF IInv, CallHeldOnce
<1>7. PhaseInv' /\ OfferInv' /\ ReleaseNeverBlocks'
  BY <1>1 DEF IInv, PhaseInv, OfferInv, ReleaseNeverBlocks
<1>. QED BY <1>4, <1>6, <1>7 DEF IInv, TypeOK

\* A step of the goroutine of run alone moves no call.
LEMMA SetRun ==
    ASSUME NEW T \in Turn, NEW r \in RunPhase, NEW o \in BOOLEAN
    PROVE  /\ [T EXCEPT !.run = r, !.outcome = o] \in Turn
           /\ Places([T EXCEPT !.run = r, !.outcome = o]) = Places(T)
           /\ [T EXCEPT !.run = r, !.outcome = o].cause = T.cause
           /\ [T EXCEPT !.run = r, !.outcome = o].exchange = T.exchange
  BY DEF Turn, Places

\* activeTurn.run relays a message of the agent.
LEMMA EmitTextStep ==
    ASSUME IInv, EmitText
    PROVE  IInv'
<1>. DEFINE e == [kind |-> "text"]
            s == Append(turn.events, e)
<1>1. turn \in Turn /\ e \in Event /\ s \in Seq(Event) BY DEF IInv, TypeOK, Turn, Event
<1>2. turn' = [turn EXCEPT !.events = s] BY DEF EmitText, TextEmitted, Sent
<1>3. e.kind # "call" OBVIOUS
<1>. HIDE DEF e
<1>4. /\ turn' \in Turn /\ turn'.cause = turn.cause /\ turn'.exchange = turn.exchange
      /\ Places(turn') = <<s, turn.phase, turn.pending, turn.delivered, turn.result>>
  <2>. HIDE DEF s
  <2>. QED BY <1>1, <1>2, SetEvents
<1>. QED BY <1>1, <1>3, <1>4, AppendOther

\* activeTurn.run reports that the agent ended its turn.
LEMMA EmitDoneStep ==
    ASSUME IInv, EmitDone
    PROVE  IInv'
<1>. DEFINE e == [kind |-> "done", ok |-> turn.outcome]
            s == Append(turn.events, e)
            U == [turn EXCEPT !.events = s]
<1>1. turn \in Turn /\ e \in Event /\ s \in Seq(Event) BY DEF IInv, TypeOK, Turn, Event
<1>2. turn' = [U EXCEPT !.run = "leaving", !.outcome = FALSE]
  BY DEF EmitDone, DoneEmitted, Sent
<1>3. e.kind # "call" OBVIOUS
<1>. HIDE DEF e
<1>4. /\ U \in Turn /\ U.cause = turn.cause /\ U.exchange = turn.exchange
      /\ Places(U) = <<s, turn.phase, turn.pending, turn.delivered, turn.result>>
  <2>. HIDE DEF s
  <2>. QED BY <1>1, SetEvents
<1>5. /\ turn' \in Turn /\ turn'.cause = turn.cause /\ turn'.exchange = turn.exchange
      /\ Places(turn') = <<s, turn.phase, turn.pending, turn.delivered, turn.result>>
  <2>. HIDE DEF s, U
  <2>. QED BY <1>2, <1>4, SetRun DEF RunPhase
<1>. QED BY <1>1, <1>3, <1>5, AppendOther

\* The exchange takes a message.
LEMMA TakeTextStep ==
    ASSUME IInv, NEW ok \in BOOLEAN, TakeText(ok)
    PROVE  IInv'
<1>. DEFINE s == Tail(turn.events)
            U == [turn EXCEPT !.events = s]
            x == IF ok THEN "attached" ELSE "failing"
<1>1. /\ turn \in Turn /\ turn.events # <<>> /\ turn.exchange = "attached"
      /\ Head(turn.events).kind = "text"
  BY DEF IInv, TypeOK, TakeText, CanTake, HeadIs
<1>2. s \in Seq(Event) BY <1>1, TailFacts DEF Turn
<1>3. turn' = [U EXCEPT !.exchange = x] BY DEF TakeText, TextTaken, Dropped
<1>4. /\ U \in Turn /\ U.cause = turn.cause
      /\ Places(U) = <<s, turn.phase, turn.pending, turn.delivered, turn.result>>
  <2>. HIDE DEF s
  <2>. QED BY <1>1, <1>2, SetEvents
<1>5. x \in ExchangePhase /\ x \in {"attached", "failing"} BY DEF ExchangePhase
<1>6. /\ turn' \in Turn /\ turn'.cause = turn.cause /\ turn'.exchange = x
      /\ Places(turn') = <<s, turn.phase, turn.pending, turn.delivered, turn.result>>
  <2>. HIDE DEF s, U, x
  <2>. QED BY <1>3, <1>4, <1>5, SetExchange
<1>. HIDE DEF x
<1>. QED BY <1>1, <1>5, <1>6, TailOther

\* The exchange takes the done event.
LEMMA TakeDoneStep ==
    ASSUME IInv, TakeDone
    PROVE  IInv'
<1>. DEFINE s == Tail(turn.events)
            U == [turn EXCEPT !.events = s]
<1>1. /\ turn \in Turn /\ turn.events # <<>> /\ turn.exchange = "attached"
      /\ Head(turn.events).kind = "done"
  BY DEF IInv, TypeOK, TakeDone, CanTake, HeadIs
<1>2. s \in Seq(Event) BY <1>1, TailFacts DEF Turn
<1>3. \/ turn' = [Cancelled(U, "canceled") EXCEPT !.exchange = "over"]
      \/ turn' = [U EXCEPT !.exchange = "failing"]
  BY DEF TakeDone, DoneTaken, Dropped
<1>4. /\ U \in Turn /\ U.cause = turn.cause
      /\ Places(U) = <<s, turn.phase, turn.pending, turn.delivered, turn.result>>
  <2>. HIDE DEF s
  <2>. QED BY <1>1, <1>2, SetEvents
<1>5. /\ turn' \in Turn
      /\ Places(turn') = <<s, turn.phase, turn.pending, turn.delivered, turn.result>>
      /\ \/ turn'.exchange = "failing" /\ turn'.cause = turn.cause
         \/ turn'.exchange = "over" /\ turn'.cause # "none"
  <2>. HIDE DEF s, U
  <2>1. /\ Cancelled(U, "canceled") \in Turn /\ Cancelled(U, "canceled").cause # "none"
        /\ Places(Cancelled(U, "canceled")) = Places(U)
    BY <1>4, CancelledType DEF Cause
  <2>2. "over" \in ExchangePhase /\ "failing" \in ExchangePhase BY DEF ExchangePhase
  <2>3. CASE turn' = [Cancelled(U, "canceled") EXCEPT !.exchange = "over"]
    <3>. DEFINE C == Cancelled(U, "canceled")
    <3>1. turn' = [C EXCEPT !.exchange = "over"] BY <2>3
    <3>2. C \in Turn /\ C.cause # "none" /\ Places(C) = Places(U) BY <2>1
    <3>. HIDE DEF C
    <3>. QED BY <1>4, <2>2, <3>1, <3>2, SetExchange
  <2>4. CASE turn' = [U EXCEPT !.exchange = "failing"]
    BY <1>4, <2>2, <2>4, SetExchange
  <2>. QED BY <1>3, <2>3, <2>4
<1>. QED BY <1>1, <1>5, TailOther

-----------------------------------------------------------------------------
(* Calls.                                                                  *)

\* activeTurn.call registers or refuses a call.
LEMMA CallToolStep ==
    ASSUME IInv, NEW c \in Call, CallTool(c)
    PROVE  IInv'
<1>1. turn \in Turn /\ turn.phase[c] = "none" BY DEF IInv, TypeOK, CallTool, CanCall
<1>2. turn.phase \in [Call -> CallPhase] /\ turn.result \in [Call -> Nat] BY <1>1 DEF Turn
<1>3. c \notin turn.pending /\ c \notin turn.delivered /\ turn.result[c] = 0
  BY <1>1 DEF IInv, PhaseInv
<1>4. PICK ph \in {"emitting", "refused"} :
        /\ turn' \in Turn
        /\ turn'.events = turn.events /\ turn'.delivered = turn.delivered
        /\ turn'.result = turn.result /\ turn'.cause = turn.cause
        /\ turn'.exchange = turn.exchange
        /\ turn'.phase = [turn.phase EXCEPT ![c] = ph]
        /\ turn'.pending = IF ph = "emitting" THEN turn.pending \cup {c} ELSE turn.pending
  <2>1. CASE Allows(turn.policy, c)
    <3>1. turn' = [turn EXCEPT !.phase[c] = "emitting", !.pending = @ \cup {c}]
      BY <2>1 DEF CallTool, Called
    <3>. QED BY <1>1, <3>1 DEF Turn, CallPhase
  <2>2. CASE ~Allows(turn.policy, c)
    <3>1. turn' = [turn EXCEPT !.phase[c] = "refused"] BY <2>2 DEF CallTool, Called
    <3>. QED BY <1>1, <3>1 DEF Turn, CallPhase
  <2>. QED BY <2>1, <2>2
<1>5. QueueInv' BY <1>2, <1>3, <1>4 DEF IInv, QueueInv, IsCallOf
<1>6. PhaseInv' BY <1>2, <1>3, <1>4 DEF IInv, PhaseInv
<1>7. OfferInv' BY <1>1, <1>2, <1>4 DEF IInv, OfferInv
<1>8. ReleaseNeverBlocks' BY <1>3, <1>4 DEF IInv, ReleaseNeverBlocks
<1>9. CallHeldOnce' BY <1>2, <1>4 DEF IInv, CallHeldOnce, InQueue
<1>. QED BY <1>4, <1>5, <1>6, <1>7, <1>8, <1>9 DEF IInv, TypeOK

\* A call that ends with an error, in a turn that is cancelled then.
LEMMA AbandonCallStep ==
    ASSUME IInv, NEW c \in Call, turn.phase[c] \in {"emitting", "waiting"},
           turn' \in Turn,
           Places(turn') = <<turn.events, [turn.phase EXCEPT ![c] = "failed"],
                             turn.pending, turn.delivered, turn.result>>,
           turn'.cause # "none", turn'.exchange = turn.exchange
    PROVE  IInv'
<1>1. /\ turn'.events = turn.events /\ turn'.pending = turn.pending
      /\ turn'.delivered = turn.delivered /\ turn'.result = turn.result
      /\ turn'.phase = [turn.phase EXCEPT ![c] = "failed"]
  BY DEF Places
<1>2. turn.phase \in [Call -> CallPhase] BY DEF IInv, TypeOK, Turn
<1>3. QueueInv' BY <1>1, <1>2 DEF IInv, QueueInv, IsCallOf
<1>4. PhaseInv' BY <1>1, <1>2 DEF IInv, PhaseInv
<1>5. OfferInv' BY <1>1, <1>2 DEF IInv, OfferInv
<1>6. ReleaseNeverBlocks' BY <1>1 DEF IInv, ReleaseNeverBlocks
<1>7. CallHeldOnce' BY DEF CallHeldOnce
<1>. QED BY <1>3, <1>4, <1>5, <1>6, <1>7 DEF IInv, TypeOK

\* What the error return of activeTurn.call changes.
LEMMA SetFailed ==
    ASSUME NEW T \in Turn, NEW c \in Call
    PROVE  /\ Abandoned(T, c) \in Turn
           /\ Places(Abandoned(T, c))
                = <<T.events, [T.phase EXCEPT ![c] = "failed"], T.pending,
                    T.delivered, T.result>>
           /\ Abandoned(T, c).cause = T.cause /\ Abandoned(T, c).exchange = T.exchange
  BY DEF Abandoned, Turn, CallPhase, Places

\* activeTurn.call returns the result that resolve sent.
LEMMA ReturnResultStep ==
    ASSUME IInv, NEW c \in Call, ReturnResult(c)
    PROVE  IInv'
<1>. DEFINE r == [turn.result EXCEPT ![c] = @ - 1]
            p == [turn.phase EXCEPT ![c] = "returned"]
            g == turn.gone \ {c}
<1>1. /\ turn \in Turn /\ turn.phase[c] = "waiting" /\ turn.result[c] > 0
      /\ turn' = [turn EXCEPT !.phase = p, !.result = r, !.gone = g]
  BY DEF IInv, TypeOK, ReturnResult, CanReturn, Returned
<1>2. turn.phase \in [Call -> CallPhase] /\ turn.result \in [Call -> Nat] BY <1>1 DEF Turn
<1>3. r \in [Call -> Nat] /\ p \in [Call -> CallPhase] /\ g \in SUBSET Call
  BY <1>1, <1>2 DEF CallPhase, Turn
<1>4. c \notin turn.pending /\ c \notin turn.delivered /\ turn.pending \subseteq Call
  BY <1>1, <1>2 DEF IInv, ReleaseNeverBlocks, PhaseInv, Turn
<1>5. /\ turn' \in Turn
      /\ turn'.events = turn.events /\ turn'.pending = turn.pending
      /\ turn'.delivered = turn.delivered /\ turn'.result = r /\ turn'.phase = p
      /\ turn'.cause = turn.cause /\ turn'.exchange = turn.exchange
  <2>. HIDE DEF r, p, g
  <2>. QED BY <1>1, <1>3 DEF Turn
<1>6. \A d \in Call : /\ d # c => r[d] = turn.result[d] /\ p[d] = turn.phase[d]
                      /\ p[c] = "returned" /\ r[c] <= 1
  BY <1>1, <1>2 DEF IInv, ReleaseNeverBlocks
<1>. HIDE DEF r, p, g
<1>7. QueueInv' BY <1>4, <1>5, <1>6 DEF IInv, QueueInv, IsCallOf
<1>8. PhaseInv' BY <1>4, <1>5, <1>6 DEF IInv, PhaseInv
<1>9. OfferInv' BY <1>4, <1>5, <1>6 DEF IInv, OfferInv
<1>10. ReleaseNeverBlocks' BY <1>4, <1>5, <1>6 DEF IInv, ReleaseNeverBlocks
<1>11. CallHeldOnce' BY <1>5, <1>6 DEF IInv, CallHeldOnce, InQueue
<1>. QED BY <1>5, <1>7, <1>8, <1>9, <1>10, <1>11 DEF IInv, TypeOK

\* activeTurn.call queues its event and waits.
LEMMA EmitCallStep ==
    ASSUME IInv, NEW c \in Call, EmitCall(c)
    PROVE  IInv'
<1>. DEFINE e == [kind |-> "call", id |-> c]
            s == Append(turn.events, e)
            p == [turn.phase EXCEPT ![c] = "waiting"]
            n == Len(turn.events)
<1>1. turn \in Turn /\ turn.phase[c] = "emitting"
  BY DEF IInv, TypeOK, EmitCall, CanQueue
<1>2. /\ turn.phase \in [Call -> CallPhase] /\ turn.events \in Seq(Event)
      /\ turn.pending \subseteq Call /\ e \in Event
  BY <1>1 DEF Turn, Event
<1>3. s \in Seq(Event) /\ p \in [Call -> CallPhase]
  <2>. HIDE DEF e
  <2>. QED BY <1>2 DEF CallPhase
<1>4. turn' = [turn EXCEPT !.events = s, !.phase = p] BY DEF EmitCall, Queued, Sent
<1>5. /\ c \in turn.pending \ turn.delivered /\ turn.result[c] = 0
      /\ \A i \in DOMAIN turn.events : ~IsCallOf(turn.events[i], c)
  BY <1>1 DEF IInv, PhaseInv, QueueInv, IsCallOf
<1>6. /\ n \in Nat /\ DOMAIN turn.events = 1 .. n /\ DOMAIN s = 1 .. (n + 1)
      /\ \A i \in 1 .. n : s[i] = turn.events[i]
      /\ s[n + 1] = e
  <2>. HIDE DEF e
  <2>. QED BY <1>2
<1>7. /\ p[c] = "waiting" /\ e.kind = "call" /\ e.id = c
      /\ \A d \in Call \ {c} : p[d] = turn.phase[d]
  BY <1>2
<1>8. /\ turn' \in Turn
      /\ turn'.events = s /\ turn'.phase = p
      /\ turn'.pending = turn.pending /\ turn'.delivered = turn.delivered
      /\ turn'.result = turn.result /\ turn'.cause = turn.cause
      /\ turn'.exchange = turn.exchange
  <2>. HIDE DEF s, p
  <2>. QED BY <1>1, <1>3, <1>4 DEF Turn
<1>. HIDE DEF e, s, p, n
<1>9. QueueInv'
  <2>1. ASSUME NEW i \in 1 .. (n + 1), s[i].kind = "call"
        PROVE  /\ s[i].id \in turn.pending \ turn.delivered
               /\ p[s[i].id] \in {"waiting", "failed"}
               /\ \A j \in 1 .. (n + 1) : IsCallOf(s[j], s[i].id) => i = j
    <3>1. CASE i = n + 1
      BY <3>1, <1>5, <1>6, <1>7 DEF IsCallOf
    <3>2. CASE i \in 1 .. n
      <4>1. /\ s[i] = turn.events[i] /\ s[i].id # c
            /\ s[i].id \in turn.pending \ turn.delivered
            /\ turn.phase[s[i].id] \in {"waiting", "failed"}
            /\ \A j \in 1 .. n : IsCallOf(turn.events[j], s[i].id) => i = j
        BY <3>2, <2>1, <1>5, <1>6 DEF IInv, QueueInv, IsCallOf
      <4>2. p[s[i].id] = turn.phase[s[i].id] BY <4>1, <1>2, <1>7
      <4>. QED BY <4>1, <4>2, <1>6, <1>7 DEF IsCallOf
    <3>. QED BY <3>1, <3>2, <1>6
  <2>. QED BY <2>1, <1>6, <1>8 DEF QueueInv, IsCallOf
<1>10. \A d \in Call : InQueue(d)' <=> d = c \/ InQueue(d)
  BY <1>6, <1>7, <1>8 DEF InQueue, IsCallOf
<1>11. CallHeldOnce' BY <1>5, <1>7, <1>8, <1>10 DEF IInv, CallHeldOnce
<1>12. PhaseInv' BY <1>5, <1>7, <1>8 DEF IInv, PhaseInv
<1>13. OfferInv' BY <1>1, <1>7, <1>8 DEF IInv, OfferInv
<1>14. ReleaseNeverBlocks' BY <1>8 DEF IInv, ReleaseNeverBlocks
<1>. QED BY <1>8, <1>9, <1>11, <1>12, <1>13, <1>14 DEF IInv, TypeOK

\* The exchange takes a call: the client gets it, or the exchange fails.
LEMMA TakeCallStep ==
    ASSUME IInv, TakeCall
    PROVE  IInv'
<1>. DEFINE s == Tail(turn.events)
            c == Head(turn.events).id
            n == Len(turn.events)
            U == [turn EXCEPT !.events = s]
<1>1. /\ turn \in Turn /\ turn.events # <<>> /\ turn.exchange = "attached"
      /\ Head(turn.events).kind = "call" /\ turn.events \in Seq(Event)
  BY DEF IInv, TypeOK, TakeCall, CanTake, HeadIs, Turn
<1>2. /\ s \in Seq(Event) /\ n \in Nat \ {0} /\ DOMAIN turn.events = 1 .. n
      /\ DOMAIN s = 1 .. (n - 1)
      /\ \A i \in 1 .. (n - 1) : s[i] = turn.events[i + 1]
      /\ turn.events[1].kind = "call" /\ turn.events[1].id = c
  BY <1>1, TailFacts
<1>3. turn.pending \subseteq Call /\ turn.delivered = {} BY <1>1 DEF Turn, IInv, OfferInv
<1>4. /\ U \in Turn
      /\ U.events = s /\ U.phase = turn.phase /\ U.pending = turn.pending
      /\ U.delivered = turn.delivered /\ U.result = turn.result /\ U.cause = turn.cause
  <2>. HIDE DEF s
  <2>. QED BY <1>1, <1>2, SetEvents DEF Places
<1>5. Dropped(turn) = U BY DEF Dropped
<1>6. \/ turn' = [Delivered(U, c) EXCEPT !.exchange = "responding"]
      \/ turn' = [U EXCEPT !.exchange = "failing"]
  BY <1>5 DEF TakeCall, CallTaken
<1>. HIDE DEF s, c, n, U
<1>q. ASSUME NEW i \in 1 .. n, turn.events[i].kind = "call"
      PROVE  /\ turn.events[i].id \in turn.pending
             /\ turn.phase[turn.events[i].id] \in {"waiting", "failed"}
             /\ \A j \in 1 .. n : IsCallOf(turn.events[j], turn.events[i].id) => i = j
  BY <1>2, <1>q DEF IInv, QueueInv
<1>7. /\ c \in turn.pending /\ c \in Call
      /\ turn.phase[c] \in {"waiting", "failed"}
      /\ \A i \in 2 .. n : ~IsCallOf(turn.events[i], c)
  <2>1. 1 \in 1 .. n BY <1>2
  <2>2. /\ c \in turn.pending /\ turn.phase[c] \in {"waiting", "failed"}
        /\ \A j \in 1 .. n : IsCallOf(turn.events[j], c) => 1 = j
    BY <2>1, <1>2, <1>q
  <2>3. \A j \in 2 .. n : j \in 1 .. n /\ j # 1 BY <1>2
  <2>. QED BY <2>2, <2>3, <1>3
<1>8. PICK d \in {{}, {c}} :
        /\ turn' \in Turn
        /\ turn'.events = s /\ turn'.phase = turn.phase /\ turn'.pending = turn.pending
        /\ turn'.result = turn.result /\ turn'.cause = turn.cause
        /\ turn'.delivered = d
        /\ \/ turn'.exchange = "failing" /\ d = {}
           \/ turn'.exchange = "responding" /\ d = {c}
  <2>0. "responding" \in ExchangePhase /\ "failing" \in ExchangePhase BY DEF ExchangePhase
  <2>1. CASE turn' = [Delivered(U, c) EXCEPT !.exchange = "responding"]
    <3>. DEFINE D == [U EXCEPT !.delivered = {c}]
    <3>1. Delivered(U, c) = D BY <1>3, <1>4, <1>7 DEF Delivered
    <3>2. /\ D \in Turn /\ D.delivered = {c}
          /\ D.events = s /\ D.phase = turn.phase /\ D.pending = turn.pending
          /\ D.result = turn.result /\ D.cause = turn.cause
      BY <1>4, <1>7 DEF Turn
    <3>3. turn' = [D EXCEPT !.exchange = "responding"] BY <2>1, <3>1
    <3>. HIDE DEF D
    <3>. QED BY <2>0, <3>2, <3>3, SetExchange DEF Places
  <2>2. CASE turn' = [U EXCEPT !.exchange = "failing"]
    BY <2>0, <2>2, <1>3, <1>4, SetExchange DEF Places
  <2>. QED BY <1>6, <2>1, <2>2
<1>9. QueueInv'
  <2>1. ASSUME NEW i \in 1 .. (n - 1), s[i].kind = "call"
        PROVE  /\ s[i].id \in turn.pending \ d
               /\ turn.phase[s[i].id] \in {"waiting", "failed"}
               /\ \A j \in 1 .. (n - 1) : IsCallOf(s[j], s[i].id) => i = j
    <3>1. i + 1 \in 2 .. n /\ i + 1 \in 1 .. n /\ s[i] = turn.events[i + 1] BY <1>2
    <3>2. /\ s[i].id # c
          /\ s[i].id \in turn.pending
          /\ turn.phase[s[i].id] \in {"waiting", "failed"}
          /\ \A j \in 1 .. n : IsCallOf(turn.events[j], s[i].id) => i + 1 = j
      <4>1. s[i].id # c BY <3>1, <2>1, <1>7 DEF IsCallOf
      <4>. QED BY <4>1, <3>1, <2>1, <1>q
    <3>3. ASSUME NEW j \in 1 .. (n - 1), IsCallOf(s[j], s[i].id)
          PROVE  i = j
      <4>1. j + 1 \in 1 .. n /\ s[j] = turn.events[j + 1] BY <1>2
      <4>2. i + 1 = j + 1 BY <4>1, <3>2, <3>3
      <4>. QED BY <4>2, <1>2
    <3>. QED BY <3>2, <3>3
  <2>. QED BY <2>1, <1>2, <1>8 DEF QueueInv, IsCallOf
<1>10. \A b \in Call : InQueue(b)' <=> InQueue(b) /\ b # c
  <2>. TAKE b \in Call
  <2>1. ASSUME InQueue(b), b # c PROVE InQueue(b)'
    <3>1. PICK i \in 1 .. n : IsCallOf(turn.events[i], b) BY <2>1, <1>2 DEF InQueue
    <3>2. i # 1 /\ i - 1 \in 1 .. (n - 1) BY <3>1, <2>1, <1>2 DEF IsCallOf
    <3>3. s[i - 1] = turn.events[i] BY <3>2, <1>2
    <3>. QED BY <3>1, <3>2, <3>3, <1>2, <1>8 DEF InQueue, IsCallOf
  <2>2. ASSUME InQueue(b)' PROVE InQueue(b) /\ b # c
    <3>1. PICK i \in 1 .. (n - 1) : IsCallOf(s[i], b)
      BY <2>2, <1>2, <1>8 DEF InQueue, IsCallOf
    <3>2. i + 1 \in 2 .. n /\ i + 1 \in 1 .. n /\ s[i] = turn.events[i + 1] BY <1>2
    <3>. QED BY <3>1, <3>2, <1>2, <1>7 DEF InQueue, IsCallOf
  <2>. QED BY <2>1, <2>2
<1>11. CallHeldOnce' BY <1>1, <1>3, <1>7, <1>8, <1>10 DEF IInv, CallHeldOnce, ReleaseNeverBlocks
<1>12. PhaseInv' BY <1>3, <1>7, <1>8 DEF IInv, PhaseInv
<1>13. OfferInv' BY <1>7, <1>8 DEF OfferInv
<1>14. ReleaseNeverBlocks' BY <1>8 DEF IInv, ReleaseNeverBlocks
<1>. QED BY <1>8, <1>9, <1>11, <1>12, <1>13, <1>14 DEF IInv, TypeOK

-----------------------------------------------------------------------------
(* The client's results.                                                   *)

\* A batch that resolve accepts answers the one call the client has, once.
LEMMA AcceptedBatch ==
    ASSUME NEW T \in Turn, NEW c \in Call, T.delivered = {c},
           NEW batch \in Seq(ResultMessage), Accepts(T, batch)
    PROVE  /\ ~IsCancelled(T)
           /\ BatchIds(batch) = {c}
           /\ Answers(batch, c) = 1
           /\ \A d : d # c => Answers(batch, d) = 0
<1>1. /\ batch # <<>> /\ ~IsCancelled(T)
      /\ \A i \in DOMAIN batch : batch[i].id = c
      /\ \A i \in DOMAIN batch : \A j \in 1 .. (i - 1) : batch[j].id # batch[i].id
  BY DEF Accepts
<1>. DEFINE m == Len(batch)
<1>2. m \in Nat \ {0} /\ DOMAIN batch = 1 .. m BY <1>1
<1>. HIDE DEF m
<1>3. \A i \in 1 .. m : i = 1 BY <1>1, <1>2
<1>4. DOMAIN batch = {1} /\ batch[1].id = c BY <1>1, <1>2, <1>3
<1>5. BatchIds(batch) = {c} BY <1>4 DEF BatchIds
<1>6. {i \in DOMAIN batch : batch[i].id = c} = {1} BY <1>4
<1>7. Answers(batch, c) = 1 BY <1>6, FS_Singleton DEF Answers
<1>8. ASSUME NEW d, d # c PROVE Answers(batch, d) = 0
  <2>1. {i \in DOMAIN batch : batch[i].id = d} = {} BY <1>4, <1>8
  <2>. QED BY <2>1, FS_EmptySet DEF Answers
<1>. QED BY <1>1, <1>5, <1>7, <1>8

\* activeTurn.resolve releases the call that the client answered.
LEMMA ResolveStep ==
    ASSUME IInv, NEW batch \in Batches, NEW policy \in Policies, Resolve(batch, policy)
    PROVE  IInv'
<1>1. /\ turn \in Turn /\ turn.exchange = "detached" /\ Accepts(turn, batch)
      /\ turn' = Resolved(turn, batch, policy) /\ batch \in Seq(ResultMessage)
      /\ policy \in ToolPolicy
  BY BatchAssumption, TurnAssumption DEF IInv, TypeOK, Resolve
<1>2. PICK c \in Call : turn.delivered = {c} /\ turn.phase[c] \in {"waiting", "failed"}
  BY <1>1 DEF IInv, OfferInv
<1>3. /\ turn.cause = "none" /\ BatchIds(batch) = {c} /\ Answers(batch, c) = 1
      /\ \A d : d # c => Answers(batch, d) = 0
  <2>0. turn \in Turn /\ turn.delivered = {c} /\ batch \in Seq(ResultMessage) /\ Accepts(turn, batch)
    BY <1>1, <1>2
  <2>1. /\ ~IsCancelled(turn) /\ BatchIds(batch) = {c} /\ Answers(batch, c) = 1
        /\ \A d : d # c => Answers(batch, d) = 0
    BY <2>0, AcceptedBatch, Zenon
  <2>. QED BY <2>1 DEF IsCancelled
<1>. DEFINE r == [d \in Call |-> turn.result[d] + Answers(batch, d)]
            w == turn.pending \ {c}
<1>4. turn.result \in [Call -> Nat] /\ turn.pending \subseteq Call BY <1>1 DEF Turn
<1>5. /\ c \in turn.pending /\ turn.phase[c] = "waiting" /\ turn.result[c] = 0
  BY <1>2, <1>3 DEF IInv, PhaseInv, ReleaseNeverBlocks
<1>6. /\ r[c] = 1 /\ \A d \in Call : d # c => r[d] = turn.result[d]
      /\ r \in [Call -> Nat] /\ w \in SUBSET Call
  <2>1. \A d \in Call : r[d] = IF d = c THEN 1 ELSE turn.result[d] BY <1>3, <1>4, <1>5
  <2>2. \A d \in Call : r[d] \in Nat BY <2>1, <1>4
  <2>3. r \in [Call -> Nat] BY <2>2
  <2>. QED BY <2>1, <2>3, <1>4
<1>7. turn' = [turn EXCEPT !.policy = policy, !.pending = w, !.delivered = {},
                           !.result = r, !.exchange = "attached"]
  <2>1. turn.delivered \ BatchIds(batch) = {} BY <1>2, <1>3
  <2>. QED BY <2>1, <1>1, <1>3 DEF Resolved
<1>8. /\ turn' \in Turn
      /\ turn'.events = turn.events /\ turn'.phase = turn.phase
      /\ turn'.pending = w /\ turn'.delivered = {} /\ turn'.result = r
      /\ turn'.cause = turn.cause /\ turn'.exchange = "attached"
  <2>1. "attached" \in ExchangePhase BY DEF ExchangePhase
  <2>. HIDE DEF r, w
  <2>. QED BY <2>1, <1>1, <1>6, <1>7 DEF Turn
<1>9. \A d : d \in w <=> d \in turn.pending /\ d # c OBVIOUS
<1>. HIDE DEF r, w
<1>10. QueueInv' BY <1>2, <1>8, <1>9 DEF IInv, QueueInv, IsCallOf
<1>11. PhaseInv' BY <1>2, <1>5, <1>6, <1>8, <1>9 DEF IInv, PhaseInv
<1>12. OfferInv' BY <1>8 DEF OfferInv
<1>13. ReleaseNeverBlocks' BY <1>6, <1>8, <1>9 DEF IInv, ReleaseNeverBlocks
<1>14. \A d : InQueue(d)' <=> InQueue(d) BY <1>8 DEF InQueue
<1>15. ~InQueue(c) BY <1>2 DEF IInv, QueueInv, InQueue, IsCallOf
<1>16. CallHeldOnce'
  BY <1>1, <1>2, <1>3, <1>5, <1>6, <1>8, <1>9, <1>14, <1>15 DEF IInv, CallHeldOnce
<1>. QED BY <1>8, <1>10, <1>11, <1>12, <1>13, <1>16 DEF IInv, TypeOK

-----------------------------------------------------------------------------
(* The theorems.                                                           *)

\* The inductive invariant holds of a turn that does not exist yet.
LEMMA InitIInv == Init => IInv
<1>. SUFFICES ASSUME Init PROVE IInv OBVIOUS
<1>1. turn \in Turn
  BY DEF Init, UnbornTurn, Turn, Cause, CallPhase, RunPhase, ExchangePhase, AutoPolicy,
         ToolPolicy
<1>. QED
  BY <1>1 DEF Init, UnbornTurn, IInv, TypeOK, QueueInv, PhaseInv, OfferInv,
              ReleaseNeverBlocks, CallHeldOnce

\* Every step of every party preserves the inductive invariant.
LEMMA NextIInv == IInv /\ [Next]_turn => IInv'
<1>. SUFFICES ASSUME IInv, [Next]_turn PROVE IInv' OBVIOUS
<1>0. TypeOK BY DEF IInv
<1>1. CASE \/ \E policy \in Policies : NewTurn(policy)
           \/ StartRun \/ FailStart
           \/ \E c \in Call : HangUp(c)
           \/ \E ok \in BOOLEAN : RunReturn(ok)
           \/ DropDone \/ CloseDone
           \/ Interrupt \/ Respond \/ Clear
           \/ \E cause \in Cause \ {"none", "call"} : Cancel(cause)
  BY <1>0, <1>1, QuietActions, QuietStep
<1>2. ASSUME NEW c \in Call, CallTool(c) PROVE IInv' BY <1>2, CallToolStep
<1>3. ASSUME NEW c \in Call, CallStep(c) PROVE IInv'
  <2>0. turn \in Turn BY DEF IInv, TypeOK
  <2>1. CASE EmitCall(c) BY <2>1, EmitCallStep
  <2>2. CASE AbandonCall(c)
    BY <2>0, <2>2, SetFailed, AbandonCallStep DEF AbandonCall, CanAbandon, IsCancelled
  <2>3. CASE ReturnResult(c) BY <2>3, ReturnResultStep
  <2>4. CASE NoticeHangUp(c)
    <3>. DEFINE C == Cancelled(turn, "call")
    <3>1. C \in Turn /\ Places(C) = Places(turn) /\ C.cause # "none" /\ C.exchange = turn.exchange
      BY <2>0, CancelledType DEF Cause
    <3>2. turn' = Abandoned(C, c) /\ turn.phase[c] = "waiting"
      BY <2>4 DEF NoticeHangUp, HangUpNoticed, CanNoticeHangUp
    <3>. HIDE DEF C
    <3>3. /\ turn' \in Turn /\ turn'.cause # "none" /\ turn'.exchange = turn.exchange
          /\ Places(turn') = <<C.events, [C.phase EXCEPT ![c] = "failed"], C.pending,
                               C.delivered, C.result>>
      BY <3>1, <3>2, SetFailed
    <3>4. /\ C.events = turn.events /\ C.phase = turn.phase /\ C.pending = turn.pending
          /\ C.delivered = turn.delivered /\ C.result = turn.result
      BY <3>1 DEF Places
    <3>. QED BY <3>2, <3>3, <3>4, AbandonCallStep
  <2>. QED BY <1>3, <2>1, <2>2, <2>3, <2>4 DEF CallStep
<1>4. CASE EmitText BY <1>4, EmitTextStep
<1>5. CASE EmitDone BY <1>5, EmitDoneStep
<1>6. ASSUME NEW ok \in BOOLEAN, TakeText(ok) PROVE IInv' BY <1>6, TakeTextStep
<1>7. CASE TakeCall BY <1>7, TakeCallStep
<1>8. CASE TakeDone BY <1>8, TakeDoneStep
<1>9. ASSUME NEW batch \in Batches, NEW policy \in Policies, Resolve(batch, policy)
      PROVE  IInv'
  BY <1>9, ResolveStep
<1>10. CASE UNCHANGED turn
  BY <1>10 DEF IInv, TypeOK, QueueInv, PhaseInv, OfferInv, ReleaseNeverBlocks,
               CallHeldOnce, InQueue, IsCallOf
<1>. QED
  BY <1>1, <1>2, <1>3, <1>4, <1>5, <1>6, <1>7, <1>8, <1>9, <1>10
  DEF Next, RunStep, ExchangeStep

\* The inductive invariant of a turn.
THEOREM Inductive == Spec => []IInv
  BY InitIInv, NextIInv, PTL DEF Spec

\* A turn record always has its type, so no channel holds a negative count.
THEOREM TypeCorrect == Spec => []TypeOK
<1>1. IInv => TypeOK BY DEF IInv
<1>. QED BY <1>1, Inductive, PTL

\* resolve never blocks on a result channel (active_turn.go:119).
THEOREM ReleaseSafe == Spec => []ReleaseNeverBlocks
<1>1. IInv => ReleaseNeverBlocks BY DEF IInv
<1>. QED BY <1>1, Inductive, PTL

\* No call of a live turn is lost, duplicated or answered while it is queued.
THEOREM CallsSafe == Spec => []CallHeldOnce
<1>1. IInv => CallHeldOnce BY DEF IInv
<1>. QED BY <1>1, Inductive, PTL

\* A live detached turn always has exactly one call its client can answer.
THEOREM Continuable == Spec => []ClientCanContinue
<1>1. IInv => ClientCanContinue BY DEF IInv, OfferInv, PhaseInv, ClientCanContinue
<1>. QED BY <1>1, Inductive, PTL

-----------------------------------------------------------------------------
(* What is with the client agrees with tool_choice.                        *)

AllowInv == \A c, d \in turn.delivered : c = d /\ Allows(turn.policy, c)

\* Most steps move no call to or from the client, under no other choice.
LEMMA SameOffer ==
    ASSUME TypeOK, [Next]_turn,
           ~ \E policy \in Policies : NewTurn(policy), ~TakeCall,
           ~ \E batch \in Batches, policy \in Policies : Resolve(batch, policy)
    PROVE  turn'.delivered = turn.delivered /\ turn'.policy = turn.policy
<1>. USE DEF TypeOK
<1>1. CASE StartRun \/ FailStart
  BY <1>1 DEF StartRun, FailStart, RunStarted, StartFailed, Cancelled, Turn
<1>2. ASSUME NEW c \in Call, CallTool(c) \/ CallStep(c) \/ HangUp(c)
      PROVE  turn'.delivered = turn.delivered /\ turn'.policy = turn.policy
  BY <1>2 DEF CallTool, CallStep, HangUp, EmitCall, AbandonCall, ReturnResult, NoticeHangUp,
              Called, Queued, Abandoned, Returned, HungUp, HangUpNoticed, Sent, Cancelled, Turn
<1>3. CASE RunStep
  BY <1>3 DEF RunStep, EmitText, RunReturn, EmitDone, DropDone, CloseDone,
              TextEmitted, RunReturned, DoneEmitted, DoneDropped, DoneClosed, Sent, Turn
<1>4. CASE ExchangeStep
  BY <1>4 DEF ExchangeStep, TakeText, TakeDone, Interrupt, Respond, Clear,
              TextTaken, DoneTaken, Interrupted, Responded, Cleared, Dropped, Cancelled, Turn
<1>5. CASE \E cause \in Cause \ {"none", "call"} : Cancel(cause)
  BY <1>5 DEF Cancel, Cancelled, Turn
<1>. QED  BY <1>1, <1>2, <1>3, <1>4, <1>5 DEF Next

\* A turn begins without an offer, and the loop looks at tool_choice before it makes one.
LEMMA NextAllows == IInv /\ AllowInv /\ [Next]_turn => AllowInv'
<1>. SUFFICES ASSUME IInv, AllowInv, [Next]_turn  PROVE AllowInv'  OBVIOUS
<1>0. turn \in Turn /\ TypeOK  BY DEF IInv, TypeOK
<1>1. CASE \E policy \in Policies : NewTurn(policy)
  <2>1. PICK policy \in Policies : NewTurn(policy)  BY <1>1
  <2>2. turn.exchange = "none" /\ turn.delivered = {}  BY <2>1 DEF NewTurn, IInv, OfferInv
  <2>3. turn'.delivered = turn.delivered  BY <1>0, <2>1 DEF NewTurn, Created, Cancelled, Turn
  <2>. QED  BY <2>2, <2>3 DEF AllowInv
<1>2. CASE TakeCall
  <2>. DEFINE c == Head(turn.events).id
  <2>1. turn.delivered = {} /\ turn' = CallTaken(turn)
    BY <1>2 DEF TakeCall, CanTake, IInv, OfferInv
  <2>2. CASE Allows(turn.policy, c)
    <3>1. turn'.policy = turn.policy /\ turn'.delivered \subseteq {c}
      BY <1>0, <2>1, <2>2 DEF CallTaken, Delivered, Dropped, Turn
    <3>. QED  BY <2>2, <3>1 DEF AllowInv
  <2>3. CASE ~Allows(turn.policy, c)
    BY <1>0, <2>1, <2>3 DEF CallTaken, Dropped, AllowInv, Turn
  <2>. QED  BY <2>2, <2>3
<1>3. ASSUME NEW batch \in Batches, NEW policy \in Policies, Resolve(batch, policy)
      PROVE  AllowInv'
  <2>1. turn'.exchange = "attached"  BY <1>0, <1>3 DEF Resolve, Resolved, Turn
  <2>. QED  BY <1>3, <2>1, ResolveStep DEF IInv, OfferInv, AllowInv
<1>. QED  BY <1>0, <1>1, <1>2, <1>3, SameOffer DEF AllowInv

\* The client holds at most one call, none while an exchange reads events, and none that
\* the tool_choice of its response forbids (tool_chat.go:142-148).
THEOREM OneOffer == Spec => []OneAllowedOffer
<1>1. Init => AllowInv  BY DEF Init, UnbornTurn, AllowInv
<1>2. IInv /\ AllowInv => OneAllowedOffer  BY DEF IInv, OfferInv, AllowInv, OneAllowedOffer
<1>. QED  BY <1>1, <1>2, NextAllows, Inductive, PTL DEF Spec

-----------------------------------------------------------------------------
(* An active turn implements the life of its tool calls: the goroutines,   *)
(* channels and exchanges are, for each call, the steps of                 *)
(* ToolCallLifecycle.                                                      *)
(*                                                                         *)
(* What a call is to the agent and the client depends on three fields of   *)
(* the turn only: phase, pending and delivered.                            *)

Step == [Lifecycle!LifecycleNext]_(Lifecycle!lifecycleVars)

\* The calls other than c are where they were.
OthersStay(c) ==
    \A d \in Call \ {c} :
        /\ turn'.phase[d] = turn.phase[d]
        /\ d \in turn'.pending <=> d \in turn.pending
        /\ d \in turn'.delivered <=> d \in turn.delivered

\* One call has another status, the others have not.
LEMMA OneBecomes ==
    ASSUME NEW c \in Call, NEW v, OthersStay(c), CallStatus(c)' = v
    PROVE  Lifecycle!Becomes(c, v)
<1>1. \A d \in Call \ {c} : CallStatus(d)' = CallStatus(d)
  BY DEF OthersStay, CallStatus
<1> QED  BY <1>1 DEF Lifecycle!Becomes

\* Nothing moves, and the turn may be cancelled.
LEMMA NothingMoves ==
    ASSUME \A c \in Call : CallStatus(c)' = CallStatus(c),
           turn.cause # "none" => turn'.cause # "none"
    PROVE  Step
<1>1. [c \in Call |-> CallStatus(c)]' = [c \in Call |-> CallStatus(c)]
  OBVIOUS
<1>2. CASE turn'.cause # "none"
  BY <1>1, <1>2 DEF Step, Lifecycle!LifecycleNext, Lifecycle!CloseTurn
<1>3. CASE turn'.cause = "none"
  BY <1>1, <1>3 DEF Step, Lifecycle!lifecycleVars
<1> QED  BY <1>2, <1>3

LEMMA QuietMoves ==
    ASSUME Quiet(turn, turn')
    PROVE  Step
<1>1. /\ turn'.phase = turn.phase /\ turn'.pending = turn.pending
      /\ turn'.delivered = turn.delivered
  BY DEF Quiet, Places
<1>2. \A c \in Call : CallStatus(c)' = CallStatus(c)
  BY <1>1 DEF CallStatus
<1> QED  BY <1>2, NothingMoves DEF Quiet
-----------------------------------------------------------------------------
(* Calls.                                                                  *)

\* Where a call can be: the cases of CallStatus exclude each other.
LEMMA StatusCases ==
    ASSUME IInv, NEW c \in Call
    PROVE  /\ turn.phase[c] = "emitting" => CallStatus(c) = "queued"
           /\ turn.phase[c] = "waiting" =>
                /\ c \notin turn.pending => CallStatus(c) = "answered"
                /\ c \in turn.delivered => CallStatus(c) = "offered"
                /\ c \in turn.pending \ turn.delivered => CallStatus(c) = "queued"
           /\ turn.phase[c] \notin {"emitting", "waiting"} => CallStatus(c) = turn.phase[c]
<1>1. c \in turn.delivered => c \in turn.pending
  BY DEF IInv, PhaseInv
<1> QED  BY <1>1 DEF CallStatus

\* activeTurn.call: tool_choice forbids the call, or it is registered.
LEMMA CallToolMoves ==
    ASSUME IInv, NEW c \in Call, CallTool(c)
    PROVE  Step
<1>1. turn \in Turn /\ turn.phase[c] = "none"
  BY DEF IInv, TypeOK, CallTool, CanCall
<1>2. /\ OthersStay(c) /\ turn'.cause = turn.cause
      /\ turn'.phase[c] = "refused" \/ turn'.phase[c] = "emitting"
  BY <1>1 DEF CallTool, Called, Turn, OthersStay
<1>3. CallStatus(c) = "none"
  BY <1>1, StatusCases
<1>4. CallStatus(c)' = "refused" \/ CallStatus(c)' = "queued"
  BY <1>2 DEF CallStatus
<1>5. Lifecycle!Submit(c)
  BY <1>2, <1>3, <1>4, OneBecomes DEF Lifecycle!Submit
<1> QED  BY <1>5 DEF Step, Lifecycle!LifecycleNext

\* The event of a call is queued: the call was waiting for the client before, too.
LEMMA EmitCallMoves ==
    ASSUME IInv, NEW c \in Call, EmitCall(c)
    PROVE  Step
<1>1. turn \in Turn /\ turn.phase[c] = "emitting" /\ c \in turn.pending \ turn.delivered
  BY DEF IInv, TypeOK, PhaseInv, EmitCall, CanQueue
<1>2. /\ turn'.cause = turn.cause /\ turn'.pending = turn.pending
      /\ turn'.delivered = turn.delivered
      /\ turn'.phase = [turn.phase EXCEPT ![c] = "waiting"]
  BY <1>1 DEF EmitCall, Queued, Sent, Turn
<1>3. \A d \in Call : CallStatus(d)' = CallStatus(d)
  BY <1>1, <1>2 DEF CallStatus, Turn
<1> QED  BY <1>2, <1>3, NothingMoves

\* A call returns an error in a turn that is cancelled then.
LEMMA CallFails ==
    ASSUME IInv, NEW c \in Call, turn.phase[c] \in {"emitting", "waiting"},
           Places(turn') = <<turn.events, [turn.phase EXCEPT ![c] = "failed"],
                             turn.pending, turn.delivered, turn.result>>,
           turn'.cause # "none"
    PROVE  Step
<1>1. OthersStay(c) /\ turn'.phase[c] = "failed"
  BY DEF IInv, TypeOK, Turn, OthersStay, Places
<1>2. CallStatus(c) \in {"queued", "offered", "answered"}
  BY StatusCases
<1>3. CallStatus(c)' = "failed"
  BY <1>1 DEF CallStatus
<1>4. Lifecycle!Fail(c)
  BY <1>1, <1>2, <1>3, OneBecomes DEF Lifecycle!Fail
<1> QED  BY <1>4 DEF Step, Lifecycle!LifecycleNext

\* The handler of a call picks up the result.
LEMMA ReturnResultMoves ==
    ASSUME IInv, NEW c \in Call, ReturnResult(c)
    PROVE  Step
<1>1. turn \in Turn /\ turn.phase[c] = "waiting" /\ turn.result[c] > 0
  BY DEF IInv, TypeOK, ReturnResult, CanReturn
<1>2. c \notin turn.pending
  BY <1>1 DEF IInv, ReleaseNeverBlocks
<1>3. OthersStay(c) /\ turn'.cause = turn.cause /\ turn'.phase[c] = "returned"
  BY <1>1 DEF ReturnResult, Returned, Turn, OthersStay
<1>4. CallStatus(c) = "answered"
  BY <1>1, <1>2, StatusCases
<1>5. CallStatus(c)' = "returned"
  BY <1>3 DEF CallStatus
<1>6. Lifecycle!Return(c)
  BY <1>3, <1>4, <1>5, OneBecomes DEF Lifecycle!Return
<1> QED  BY <1>6 DEF Step, Lifecycle!LifecycleNext

\* The exchange takes a call: the client is offered it and holds no other one, unless
\* tool_choice forbids it or its handler has given up.
LEMMA TakeCallMoves ==
    ASSUME IInv, IInv', TakeCall
    PROVE  Step
<1>1. turn \in Turn /\ turn.exchange = "attached"
  BY DEF IInv, TypeOK, TakeCall, CanTake
<1>2. turn.delivered = {}
  BY <1>1 DEF IInv, OfferInv
<1>3. /\ turn'.phase = turn.phase /\ turn'.pending = turn.pending /\ turn'.cause = turn.cause
      /\ turn'.delivered \in {{}, {Head(turn.events).id}}
  BY <1>1, <1>2 DEF TakeCall, CallTaken, Dropped, Delivered, Turn
<1>4. CASE turn'.delivered = {}
  <2>1. \A d \in Call : CallStatus(d)' = CallStatus(d)
    BY <1>2, <1>3, <1>4 DEF CallStatus
  <2> QED  BY <1>3, <2>1, NothingMoves
<1>5. CASE turn'.delivered # {}
  <2>1. PICK c \in Call : turn'.delivered = {c} /\ c \in turn.pending
    BY <1>3, <1>5 DEF IInv, TypeOK, Turn, PhaseInv
  <2>2. OthersStay(c)
    BY <1>2, <1>3, <2>1 DEF OthersStay
  <2>3. CASE turn.phase[c] = "waiting"
    <3>1. CallStatus(c) = "queued"
      BY <1>2, <2>1, <2>3, StatusCases
    <3>2. CallStatus(c)' = "offered"
      BY <1>3, <2>1, <2>3 DEF CallStatus
    <3>3. \A d \in Call : CallStatus(d) # "offered"
      BY <1>2, StatusCases DEF IInv, TypeOK, Turn, CallPhase
    <3>4. Lifecycle!Offer(c)
      BY <1>3, <2>2, <3>1, <3>2, <3>3, OneBecomes DEF Lifecycle!Offer
    <3> QED  BY <3>4 DEF Step, Lifecycle!LifecycleNext
  <2>4. CASE turn.phase[c] # "waiting"
    <3>1. \A d \in Call : CallStatus(d)' = CallStatus(d)
      BY <1>3, <2>2, <2>4 DEF CallStatus, OthersStay
    <3> QED  BY <1>3, <3>1, NothingMoves
  <2> QED  BY <2>3, <2>4
<1> QED  BY <1>3, <1>4, <1>5

\* activeTurn.resolve: the client answers the call it was offered, and the turn is live.
LEMMA ResolveMoves ==
    ASSUME IInv, NEW batch \in Batches, NEW policy \in Policies, Resolve(batch, policy)
    PROVE  Step
<1>1. /\ turn \in Turn /\ turn.exchange = "detached" /\ Accepts(turn, batch)
      /\ turn' = Resolved(turn, batch, policy) /\ batch \in Seq(ResultMessage)
  BY BatchAssumption DEF IInv, TypeOK, Resolve
<1>2. PICK c \in Call : turn.delivered = {c} /\ turn.phase[c] \in {"waiting", "failed"}
  BY <1>1 DEF IInv, OfferInv
<1>3. ~IsCancelled(turn) /\ BatchIds(batch) = {c}
  <2>1. turn \in Turn /\ turn.delivered = {c} /\ batch \in Seq(ResultMessage) /\ Accepts(turn, batch)
    BY <1>1, <1>2
  <2> QED  BY <2>1, AcceptedBatch, Zenon
<1>4. turn.cause = "none" /\ turn.phase[c] = "waiting"
  BY <1>2, <1>3 DEF IInv, PhaseInv, IsCancelled
<1>5. /\ turn'.cause = turn.cause /\ turn'.phase = turn.phase
      /\ turn'.pending = turn.pending \ {c} /\ turn'.delivered = {}
  BY <1>1, <1>2, <1>3 DEF Resolved, Turn
<1>6. OthersStay(c)
  BY <1>2, <1>5 DEF OthersStay
<1>7. CallStatus(c) = "offered"
  BY <1>2, <1>4, StatusCases
<1>8. CallStatus(c)' = "answered"
  BY <1>4, <1>5 DEF CallStatus
<1>9. Lifecycle!Answer(c)
  BY <1>4, <1>5, <1>6, <1>7, <1>8, OneBecomes DEF Lifecycle!Answer
<1> QED  BY <1>9 DEF Step, Lifecycle!LifecycleNext
-----------------------------------------------------------------------------
(* The theorem.                                                            *)

\* What passes through the event channel besides calls moves no call.
LEMMA OtherEventsMoves ==
    ASSUME TypeOK, EmitText \/ EmitDone \/ TakeDone \/ \E ok \in BOOLEAN : TakeText(ok)
    PROVE  Step
<1>1. /\ turn'.phase = turn.phase /\ turn'.pending = turn.pending
      /\ turn'.delivered = turn.delivered
      /\ turn.cause # "none" => turn'.cause # "none"
  <2>1. CASE EmitText
    BY <2>1 DEF TypeOK, Turn, EmitText, TextEmitted, Sent
  <2>2. CASE EmitDone
    BY <2>2 DEF TypeOK, Turn, EmitDone, DoneEmitted, Sent
  <2>3. CASE TakeDone
    BY <2>3 DEF TypeOK, Turn, TakeDone, DoneTaken, Dropped, Cancelled
  <2>4. ASSUME NEW ok \in BOOLEAN, TakeText(ok)
        PROVE  /\ turn'.phase = turn.phase /\ turn'.pending = turn.pending
               /\ turn'.delivered = turn.delivered /\ turn'.cause = turn.cause
    BY <2>4 DEF TypeOK, Turn, TakeText, TextTaken, Dropped
  <2> QED  BY <2>1, <2>2, <2>3, <2>4
<1>2. \A c \in Call : CallStatus(c)' = CallStatus(c)
  BY <1>1 DEF CallStatus
<1> QED  BY <1>1, <1>2, NothingMoves

\* A handler of a call queues it, returns its result, or gives up with the turn.
LEMMA CallStepMoves ==
    ASSUME IInv, NEW c \in Call, CallStep(c)
    PROVE  Step
<1>0. turn \in Turn
  BY DEF IInv, TypeOK
<1>1. CASE EmitCall(c)
  BY <1>1, EmitCallMoves
<1>2. CASE ReturnResult(c)
  BY <1>2, ReturnResultMoves
<1>3. CASE AbandonCall(c)
  BY <1>0, <1>3, SetFailed, CallFails DEF AbandonCall, CanAbandon, IsCancelled
<1>4. CASE NoticeHangUp(c)
  <2>1. /\ turn.phase[c] = "waiting"
        /\ turn' = Abandoned(Cancelled(turn, "call"), c)
    BY <1>4 DEF NoticeHangUp, CanNoticeHangUp, HangUpNoticed
  <2>2. /\ Cancelled(turn, "call") \in Turn
        /\ Places(Cancelled(turn, "call")) = Places(turn)
        /\ Cancelled(turn, "call").cause # "none"
    BY <1>0, CancelledType DEF Cause
  <2>3. /\ Places(turn') = <<turn.events, [turn.phase EXCEPT ![c] = "failed"],
                             turn.pending, turn.delivered, turn.result>>
        /\ turn'.cause # "none"
    BY <2>1, <2>2, SetFailed DEF Places
  <2> QED  BY <2>1, <2>3, CallFails
<1> QED  BY <1>1, <1>2, <1>3, <1>4 DEF CallStep

\* Every turn keeps the contract of ToolCallLifecycle: its calls are offered one at a time,
\* answered only while offered and before the turn is cancelled, and fail only with the turn
\* (active_turn.go:57-122).
THEOREM Implements == Spec => LifecycleSpec
<1>1. Init => Lifecycle!LifecycleInit
  BY DEF Init, UnbornTurn, Lifecycle!LifecycleInit, CallStatus
<1>2. IInv /\ IInv' /\ [Next]_turn => Step
  <2> SUFFICES ASSUME IInv, IInv', [Next]_turn PROVE Step
    OBVIOUS
  <2>0. TypeOK
    BY DEF IInv
  <2>1. CASE \/ \E policy \in Policies : NewTurn(policy)
             \/ StartRun \/ FailStart
             \/ \E c \in Call : HangUp(c)
             \/ \E ok \in BOOLEAN : RunReturn(ok)
             \/ DropDone \/ CloseDone
             \/ Interrupt \/ Respond \/ Clear
             \/ \E cause \in Cause \ {"none", "call"} : Cancel(cause)
    BY <2>0, <2>1, QuietActions, QuietMoves
  <2>2. ASSUME NEW c \in Call, CallTool(c) PROVE Step
    BY <2>2, CallToolMoves
  <2>3. ASSUME NEW c \in Call, CallStep(c) PROVE Step
    BY <2>3, CallStepMoves
  <2>4. CASE EmitText \/ EmitDone \/ TakeDone \/ \E ok \in BOOLEAN : TakeText(ok)
    BY <2>0, <2>4, OtherEventsMoves
  <2>5. CASE TakeCall
    BY <2>5, TakeCallMoves
  <2>6. ASSUME NEW batch \in Batches, NEW policy \in Policies, Resolve(batch, policy) PROVE Step
    BY <2>6, ResolveMoves
  <2>7. CASE UNCHANGED turn
    <3>1. \A c \in Call : CallStatus(c)' = CallStatus(c)
      BY <2>7 DEF CallStatus
    <3> QED  BY <2>7, <3>1, NothingMoves
  <2> QED
    BY <2>1, <2>2, <2>3, <2>4, <2>5, <2>6, <2>7 DEF Next, RunStep, ExchangeStep
<1> QED
  BY <1>1, <1>2, Inductive, PTL DEF Spec, Step, LifecycleSpec, Lifecycle!LifecycleSpec
=============================================================================
