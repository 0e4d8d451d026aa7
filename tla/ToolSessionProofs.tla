------------------------- MODULE ToolSessionProofs -------------------------
(***************************************************************************)
(* Theorems about a session of the tool path, for any turns, calls,        *)
(* setups and batches and with all the moves of the environment.           *)
(*                                                                         *)
(* The invariant ties the holder of state.mu to the turn it works on       *)
(* (LockInv) and says what becomes of a turn that is not, or no longer,    *)
(* state.active (TurnsInv).  The turns of a session are ActiveTurns, a     *)
(* pending one can be continued, and none is in the store (StoreInv).      *)
(***************************************************************************)
EXTENDS ToolSession, FiniteSetTheorems, WellFoundedInduction, TLAPS

Ended == {"leaving", "closed"}

\* The goroutine of run begins after the exchange has started the agent, and the done
\* event is the last thing it says.
Sound(T) ==
    /\ T \in Turn
    /\ T.exchange \in {"none", "starting"} => T.run = "none"
    /\ \A i \in DOMAIN T.events : T.events[i].kind = "done" => T.run \in Ended

\* Nothing makes a turn uncancelled or brings its goroutine back.
Follows(T, U) ==
    /\ Sound(U)
    /\ T.cause # "none" => U.cause # "none"
    /\ T.run \in Ended => U.run \in Ended

\* A step beside the exchange of the turn.
Beside(T, U) == Follows(T, U) /\ U.exchange = T.exchange

Begun == [setup : Setup, policy : Policies]
Control ==
    [who : {"none", "exchange", "watcher", "janitor", "closer"},
     pc : {"free", "begin", "start", "loop", "returning", "stop", "wait"},
     then : {"none", "begin", "reply", "unexpected", "unlock", "hadTools"},
     req : {NoRequest} \cup Begun, tools : BOOLEAN, owner : BOOLEAN, gone : BOOLEAN]
Facade == [ctx : {"none", "live", "done"}, active : TurnId \cup {0},
           bridge : {"up", "aborted", "gone"}]

SessionType ==
    /\ turns \in [TurnId -> Turn]
    /\ active \in TurnId \cup {0} /\ facade \in TurnId \cup {0}
    /\ process \in BOOLEAN
    /\ facades \in [TurnId -> Facade]
    /\ firing \subseteq TurnId
    /\ ctl \in Control
    /\ server \in {"open", "cancelled", "swapped", "closed"}

\* The session is between clearing and starting a turn.
Beginning == ctl.pc = "begin" \/ ctl.then = "begin"

LockInv ==
    /\ ctl.pc = "free" <=> ctl.who = "none"
    /\ ctl.pc \in {"begin", "start", "loop", "returning"} =>
        ctl.who = "exchange" /\ ctl.then = "none"
    /\ ctl.owner => ctl.pc \in {"start", "loop", "returning"}
    /\ Beginning => Unborn # {} /\ ctl.req \in Begun /\ ctl.who = "exchange"
    /\ ctl.pc = "begin" => active = 0 /\ (process \/ facade = 0)
    /\ ctl.pc = "start" => active # 0 /\ turns[active].exchange = "starting"
    /\ ctl.pc = "loop" =>
        active # 0 /\ turns[active].exchange \in {"attached", "responding", "failing"}
    /\ ctl.pc \in {"free", "returning"} /\ active # 0 => turns[active].exchange = "detached"
    /\ ctl.pc = "stop" /\ active # 0 => turns[active].exchange \in {"detached", "failing"}
    /\ ctl.pc = "wait" => facade = 0 /\ (active # 0 => IsCancelled(turns[active]))

TurnsInv ==
    /\ \A t \in TurnId : Sound(turns[t])
    /\ \A t \in TurnId : Born(t) /\ t # active => IsCancelled(turns[t]) /\ turns[t].run \in Ended
    /\ \A f \in TurnId : facades[f].active # 0 => Born(facades[f].active)
    /\ \A t \in firing : Born(t)

ServerInv ==
    /\ ctl.who = "closer" => server = "swapped"
    /\ server = "closed" => ctl.who = "none" /\ active = 0 /\ facade = 0 /\ ~process

IInv ==
    /\ SessionType /\ LockInv /\ TurnsInv /\ ServerInv
    /\ WatcherSparesNewTurn /\ OtherFacadesShut

-----------------------------------------------------------------------------
(* What the steps on a turn record keep.                                   *)

\* A cancellation.
LEMMA CancelSound ==
    ASSUME NEW T, Sound(T), NEW cause \in Cause \ {"none"}
    PROVE  /\ Beside(T, Cancelled(T, cause))
           /\ IsCancelled(Cancelled(T, cause))
           /\ Cancelled(T, cause).run = T.run
  BY DEF Sound, Turn, Beside, Follows, Cancelled, IsCancelled

\* An event that is not the done event is added to the queue.
LEMMA SentSound ==
    ASSUME NEW T, Sound(T), NEW e \in Event, e.kind # "done"
    PROVE  Beside(T, Sent(T, e)) /\ Sent(T, e).phase = T.phase
<1>1. T.events \in Seq(Event)  BY DEF Sound, Turn
<1>2. Sent(T, e).events = Append(T.events, e)  BY DEF Sent, Sound, Turn
<1>3. Append(T.events, e) \in Seq(Event)  BY <1>1
<1>4. Sent(T, e) \in Turn  BY <1>1, <1>3 DEF Sound, Turn, Sent
<1>5. ASSUME NEW i \in DOMAIN Sent(T, e).events, Sent(T, e).events[i].kind = "done"
      PROVE  T.run \in Ended
  <2>1. i \in DOMAIN T.events /\ T.events[i] = Sent(T, e).events[i]
    BY <1>1, <1>2, <1>5
  <2>. QED  BY <2>1, <1>5 DEF Sound
<1>. QED  BY <1>4, <1>5 DEF Beside, Follows, Sound, Sent, Turn

\* The MCP /call handler of a call.
LEMMA CallSound ==
    ASSUME NEW T, Sound(T), NEW c \in Call, NEW U,
           \/ U = Called(T, c)
           \/ U = Queued(T, c)
           \/ U = Abandoned(T, c)
           \/ CanReturn(T, c) /\ U = Returned(T, c)
           \/ U = HangUpNoticed(T, c)
           \/ U = HungUp(T, c)
    PROVE  Beside(T, U)
<1>1. CASE U = Called(T, c)
  BY <1>1 DEF Called, Sound, Turn, CallPhase, Beside, Follows
<1>2. CASE U = Queued(T, c)
  <2>. DEFINE S == Sent(T, [kind |-> "call", id |-> c])
  <2>1. Beside(T, S)  BY SentSound DEF Event
  <2>2. U = [S EXCEPT !.phase[c] = "waiting"]  BY <1>2 DEF Queued
  <2>. HIDE DEF S
  <2>. QED  BY <2>1, <2>2 DEF Sound, Turn, CallPhase, Beside, Follows
<1>3. ASSUME NEW V, Sound(V)  PROVE Beside(V, Abandoned(V, c))
  BY <1>3 DEF Abandoned, Sound, Turn, CallPhase, Beside, Follows
<1>4. CASE CanReturn(T, c) /\ U = Returned(T, c)
  <2>1. T.result[c] - 1 \in Nat  BY <1>4 DEF CanReturn, Sound, Turn
  <2>. QED  BY <1>4, <2>1 DEF Returned, Sound, Turn, CallPhase, Beside, Follows
<1>5. CASE U = HangUpNoticed(T, c)
  BY <1>3, <1>5, CancelSound DEF HangUpNoticed, Cause, Beside, Follows
<1>6. CASE U = HungUp(T, c)
  BY <1>6 DEF HungUp, Sound, Turn, Beside, Follows
<1>. QED  BY <1>1, <1>2, <1>3, <1>4, <1>5, <1>6

\* The goroutine of run.
LEMMA RunSound ==
    ASSUME NEW T, Sound(T), NEW U,
           \/ U = TextEmitted(T)
           \/ CanRunReturn(T) /\ \E ok \in BOOLEAN : U = RunReturned(T, ok)
           \/ CanEmitDone(T) /\ U = DoneEmitted(T)
           \/ CanDropDone(T) /\ U = DoneDropped(T)
           \/ CanCloseDone(T) /\ U = DoneClosed(T)
    PROVE  Beside(T, U)
<1>1. CASE U = TextEmitted(T)
  BY <1>1, SentSound DEF TextEmitted, Event
<1>2. CASE CanRunReturn(T) /\ \E ok \in BOOLEAN : U = RunReturned(T, ok)
  BY <1>2 DEF CanRunReturn, RunReturned, Sound, Turn, RunPhase, Beside, Follows, Ended
<1>3. CASE CanEmitDone(T) /\ U = DoneEmitted(T)
  <2>. DEFINE e == [kind |-> "done", ok |-> T.outcome]
  <2>1. T.events \in Seq(Event) /\ e \in Event  BY DEF Sound, Turn, Event
  <2>2. Append(T.events, e) \in Seq(Event)  BY <2>1
  <2>3. U = [T EXCEPT !.events = Append(T.events, e), !.run = "leaving", !.outcome = FALSE]
    BY <1>3 DEF DoneEmitted, Sent, Sound, Turn
  <2>. HIDE DEF e
  <2>. QED  BY <1>3, <2>2, <2>3 DEF CanEmitDone, Sound, Turn, RunPhase, Beside, Follows, Ended
<1>4. CASE CanDropDone(T) /\ U = DoneDropped(T)
  BY <1>4 DEF CanDropDone, DoneDropped, Sound, Turn, RunPhase, Beside, Follows, Ended
<1>5. CASE CanCloseDone(T) /\ U = DoneClosed(T)
  BY <1>5 DEF CanCloseDone, DoneClosed, Sound, Turn, RunPhase, Beside, Follows, Ended
<1>. QED  BY <1>1, <1>2, <1>3, <1>4, <1>5

\* The first event of the queue is taken out.
LEMMA DroppedSound ==
    ASSUME NEW T, Sound(T), T.events # <<>>
    PROVE  Beside(T, Dropped(T)) /\ Dropped(T).run = T.run
<1>1. T.events \in Seq(Event)  BY DEF Sound, Turn
<1>2. Dropped(T).events = Tail(T.events)  BY DEF Dropped, Sound, Turn
<1>3. Tail(T.events) \in Seq(Event)  BY <1>1
<1>4. Dropped(T) \in Turn  BY <1>3 DEF Dropped, Sound, Turn
<1>5. ASSUME NEW i \in DOMAIN Dropped(T).events, Dropped(T).events[i].kind = "done"
      PROVE  T.run \in Ended
  <2>1. i + 1 \in DOMAIN T.events /\ T.events[i + 1] = Dropped(T).events[i]
    BY <1>1, <1>2, <1>5
  <2>. QED  BY <2>1, <1>5 DEF Sound
<1>. QED  BY <1>4, <1>5 DEF Beside, Follows, Sound, Dropped, Turn

\* The exchange goes to another phase.
LEMMA SetExchangeSound ==
    ASSUME NEW T, Sound(T), NEW x \in ExchangePhase \ {"none", "starting"}
    PROVE  LET U == [T EXCEPT !.exchange = x]
           IN  Follows(T, U) /\ U.exchange = x /\ U.run = T.run /\ U.cause = T.cause
  BY DEF Sound, Turn, Follows

\* The loop takes text.
LEMMA TextTakenSound ==
    ASSUME NEW T, Sound(T), CanTake(T, "text"), NEW ok \in BOOLEAN
    PROVE  /\ Follows(T, TextTaken(T, ok))
           /\ TextTaken(T, ok).exchange \in {"attached", "failing"}
<1>. DEFINE D == Dropped(T)
            x == IF ok THEN "attached" ELSE "failing"
<1>1. Beside(T, D)  BY DroppedSound DEF CanTake, HeadIs
<1>2. TextTaken(T, ok) = [D EXCEPT !.exchange = x]  BY DEF TextTaken
<1>. HIDE DEF D
<1>. QED  BY <1>1, <1>2, SetExchangeSound DEF Beside, Follows, ExchangePhase

\* The loop takes a call.
LEMMA CallTakenSound ==
    ASSUME NEW T, Sound(T), CanTake(T, "call")
    PROVE  /\ Follows(T, CallTaken(T))
           /\ CallTaken(T).exchange \in {"responding", "failing"}
<1>. DEFINE D == Dropped(T)
            c == Head(T.events).id
            E == Delivered(D, c)
<1>1. Beside(T, D)  BY DroppedSound DEF CanTake, HeadIs
<1>2. c \in Call
  <2>1. T.events \in Seq(Event) /\ T.events # <<>> /\ Head(T.events).kind = "call"
    BY DEF CanTake, HeadIs, Sound, Turn
  <2>2. Head(T.events) \in Event  BY <2>1
  <2>. QED  BY <2>1, <2>2 DEF Event
<1>3. CallTaken(T) \in {[E EXCEPT !.exchange = "responding"], [D EXCEPT !.exchange = "failing"]}
  BY DEF CallTaken
<1>. HIDE DEF D, c
<1>4. Beside(D, E)
  BY <1>1, <1>2 DEF Delivered, Beside, Follows, Sound, Turn
<1>. HIDE DEF E
<1>5. CASE CallTaken(T) = [E EXCEPT !.exchange = "responding"]
  BY <1>1, <1>4, <1>5, SetExchangeSound DEF Beside, Follows, ExchangePhase
<1>6. CASE CallTaken(T) = [D EXCEPT !.exchange = "failing"]
  BY <1>1, <1>6, SetExchangeSound DEF Beside, Follows, ExchangePhase
<1>. QED  BY <1>3, <1>5, <1>6

\* The loop takes the done event: the goroutine has ended, and a turn that is over is
\* cancelled.
LEMMA DoneTakenSound ==
    ASSUME NEW T, Sound(T), CanTake(T, "done")
    PROVE  LET U == DoneTaken(T)
           IN  /\ Follows(T, U) /\ U.run \in Ended
               /\ U.exchange = "failing" \/ (U.exchange = "over" /\ IsCancelled(U))
<1>. DEFINE D == Dropped(T)
            C == Cancelled(D, "canceled")
<1>1. Beside(T, D) /\ D.run = T.run  BY DroppedSound DEF CanTake, HeadIs
<1>2. T.run \in Ended
  <2>1. T.events \in Seq(Event) /\ T.events # <<>> /\ Head(T.events).kind = "done"
    BY DEF CanTake, HeadIs, Sound, Turn
  <2>2. 1 \in DOMAIN T.events /\ T.events[1].kind = "done"  BY <2>1
  <2>. QED  BY <2>2 DEF Sound
<1>3. DoneTaken(T) \in {[C EXCEPT !.exchange = "over"], [D EXCEPT !.exchange = "failing"]}
  BY DEF DoneTaken
<1>. HIDE DEF D
<1>4. Beside(D, C) /\ IsCancelled(C) /\ C.run = D.run
  BY <1>1, CancelSound DEF Beside, Follows, Cause
<1>. HIDE DEF C
<1>5. CASE DoneTaken(T) = [C EXCEPT !.exchange = "over"]
  BY <1>1, <1>2, <1>4, <1>5, SetExchangeSound DEF Beside, Follows, ExchangePhase, IsCancelled
<1>6. CASE DoneTaken(T) = [D EXCEPT !.exchange = "failing"]
  BY <1>1, <1>2, <1>6, SetExchangeSound DEF Beside, Follows, ExchangePhase
<1>. QED  BY <1>3, <1>5, <1>6

\* The exchange fails, responds, or is cleared.
LEMMA LeaveSound ==
    ASSUME NEW T, Sound(T)
    PROVE  /\ Follows(T, Interrupted(T)) /\ Interrupted(T).exchange = "failing"
           /\ Follows(T, Responded(T)) /\ Responded(T).exchange \in {"failing", "detached"}
           /\ Follows(T, Cleared(T)) /\ Cleared(T).exchange = "over" /\ IsCancelled(Cleared(T))
<1>1. Follows(T, Interrupted(T)) /\ Interrupted(T).exchange = "failing"
  BY SetExchangeSound DEF Interrupted, ExchangePhase
<1>2. Follows(T, Responded(T)) /\ Responded(T).exchange \in {"failing", "detached"}
  <2>. DEFINE x == IF IsCancelled(T) THEN "failing" ELSE "detached"
  <2>1. Responded(T) = [T EXCEPT !.exchange = x]  BY DEF Responded
  <2>2. x \in {"failing", "detached"}  OBVIOUS
  <2>. HIDE DEF x
  <2>. QED  BY <2>1, <2>2, SetExchangeSound DEF ExchangePhase
<1>3. Follows(T, Cleared(T)) /\ Cleared(T).exchange = "over" /\ IsCancelled(Cleared(T))
  <2>. DEFINE C == Cancelled(T, "canceled")
  <2>1. Beside(T, C) /\ IsCancelled(C)  BY CancelSound DEF Cause
  <2>2. Cleared(T) = [C EXCEPT !.exchange = "over"]  BY DEF Cleared
  <2>. HIDE DEF C
  <2>. QED  BY <2>1, <2>2, SetExchangeSound DEF Beside, Follows, ExchangePhase, IsCancelled
<1>. QED  BY <1>1, <1>2, <1>3

\* resolve: the exchange attaches again.
LEMMA ResolveSound ==
    ASSUME NEW T, Sound(T), T.exchange = "detached",
           NEW batch \in Seq(ResultMessage), NEW policy \in Policies
    PROVE  LET U == Resolved(T, batch, policy)
           IN  Follows(T, U) /\ U.exchange = "attached"
<1>. DEFINE r == [c \in Call |-> T.result[c] + Answers(batch, c)]
<1>1. \A c : Answers(batch, c) \in Nat
  <2>1. IsFiniteSet(1 .. Len(batch))  BY FS_Interval
  <2>. QED  BY <2>1, FS_Subset, FS_CardinalityType DEF Answers
<1>2. r \in [Call -> Nat]  BY <1>1 DEF Sound, Turn
<1>3. Resolved(T, batch, policy)
        = [T EXCEPT !.policy = policy, !.pending = T.pending \ BatchIds(batch),
                    !.delivered = T.delivered \ BatchIds(batch), !.result = r,
                    !.exchange = "attached"]
  BY DEF Resolved, Sound, Turn
<1>. HIDE DEF r
<1>. QED  BY <1>2, <1>3, TurnAssumption DEF Sound, Turn, Follows, ExchangePhase

\* A turn is created.
LEMMA CreatedSound ==
    ASSUME NEW T, Sound(T), T.exchange = "none", NEW policy \in Policies
    PROVE  Sound(Created(T, policy)) /\ Created(T, policy).exchange = "starting"
  BY TurnAssumption DEF Created, Sound, Turn, ExchangePhase, Ended

\* Its goroutine starts, or the agent does not.
LEMMA StartedSound ==
    ASSUME NEW T, Sound(T), T.exchange = "starting"
    PROVE  /\ Sound(RunStarted(T)) /\ RunStarted(T).exchange = "attached"
           /\ Sound(StartFailed(T)) /\ StartFailed(T).exchange = "failing"
<1>. DEFINE C == Cancelled(T, "canceled")
<1>1. Sound(RunStarted(T)) /\ RunStarted(T).exchange = "attached"
  BY DEF RunStarted, Sound, Turn, ExchangePhase, RunPhase, Ended
<1>2. Sound(C) /\ StartFailed(T) = [C EXCEPT !.run = "closed", !.exchange = "failing"]
  BY CancelSound DEF Cause, Beside, Follows, StartFailed
<1>. HIDE DEF C
<1>3. Sound(StartFailed(T)) /\ StartFailed(T).exchange = "failing"
  BY <1>2 DEF Sound, Turn, ExchangePhase, RunPhase, Ended
<1>. QED  BY <1>1, <1>3

-----------------------------------------------------------------------------
(* The session.                                                            *)

\* 0 stands for no turn.
LEMMA ZeroIsNoTurn == 0 \notin TurnId /\ TurnId \subseteq Nat
  BY SessionAssumption, FS_CardinalityType

\* A session that may have another turn has a next one.
LEMMA NextTurnUnborn == Unborn # {} => NextTurn \in Unborn
<1>. SUFFICES ASSUME Unborn # {}  PROVE NextTurn \in Unborn  OBVIOUS
<1>. DEFINE R == OpToRel(<, Nat)
<1>1. IsWellFoundedOn(R, Nat)  BY NatLessThanWellFounded
<1>2. \A t, u \in Nat : t < u => <<t, u>> \in R  BY DEF OpToRel
<1>. HIDE DEF R
<1>3. Unborn \subseteq Nat  BY ZeroIsNoTurn DEF Unborn
<1>4. PICK t \in Unborn : \A u \in Unborn : <<u, t>> \notin R  BY <1>1, <1>3, WFMin
<1>5. \A u \in Unborn : ~ (u < t)  BY <1>2, <1>3, <1>4, Zenon
<1>6. \A u \in Unborn : t <= u  BY <1>3, <1>5
<1>. QED  BY <1>6 DEF NextTurn

\* The session is restored from the store or new.
LEMMA InitInv == Init => IInv
<1>. SUFFICES ASSUME Init  PROVE IInv  OBVIOUS
<1>1. UnbornTurn \in Turn
  BY DEF UnbornTurn, Turn, Cause, CallPhase, RunPhase, ExchangePhase, AutoPolicy, ToolPolicy
<1>2. Sound(UnbornTurn)
  BY <1>1 DEF Sound, UnbornTurn
<1>3. SessionType
  BY <1>1 DEF Init, SessionType, Facade, NoFacade, Control, Unlocked
<1>4. LockInv  BY DEF Init, LockInv, Beginning, Unlocked
<1>5. TurnsInv
  BY <1>2 DEF Init, TurnsInv, Born, UnbornTurn, NoFacade
<1>6. ServerInv /\ WatcherSparesNewTurn /\ OtherFacadesShut
  BY ZeroIsNoTurn DEF Init, ServerInv, WatcherSparesNewTurn, OtherFacadesShut, Unlocked, NoFacade
<1>. QED  BY <1>3, <1>4, <1>5, <1>6 DEF IInv

\* The goroutines of turns and facades, and what cancels them, act beside the session.
LEMMA BesideStep ==
    ASSUME IInv, turns' \in [TurnId -> Turn], \A t \in TurnId : Beside(turns[t], turns'[t]),
           facades' \in [TurnId -> Facade],
           \A f \in TurnId : /\ facades'[f].active = facades[f].active
                             /\ facades'[f].ctx \in {facades[f].ctx, "done"},
           server' = server \/ (server = "open" /\ server' = "cancelled"),
           firing' \subseteq firing,
           UNCHANGED <<active, facade, process, ctl>>
    PROVE  IInv'
<1>1. \A t \in TurnId : Born(t)' <=> Born(t)  BY DEF Born, Beside
<1>2. Unborn' = Unborn  BY <1>1 DEF Unborn
<1>3. SessionType'  BY DEF IInv, SessionType
<1>4. LockInv'
  BY <1>2 DEF IInv, SessionType, LockInv, Beginning, Beside, Follows, IsCancelled
<1>5. TurnsInv'
  BY <1>1 DEF IInv, SessionType, TurnsInv, Facade, Beside, Follows, IsCancelled
<1>6. WatcherSparesNewTurn'
  BY DEF IInv, SessionType, WatcherSparesNewTurn, Beside, Follows, IsCancelled
<1>7. ServerInv' /\ OtherFacadesShut'
  BY DEF IInv, SessionType, LockInv, ServerInv, OtherFacadesShut
<1>. QED  BY <1>3, <1>4, <1>5, <1>6, <1>7 DEF IInv

\* One turn changes.
LEMMA AsideStep ==
    ASSUME IInv, NEW t \in TurnId, NEW U, Beside(turns[t], U), Turns(t, U),
           firing' \subseteq firing,
           UNCHANGED <<active, facade, facades, process, server, ctl>>
    PROVE  IInv'
<1>1. /\ turns' \in [TurnId -> Turn]
      /\ \A u \in TurnId : Beside(turns[u], turns'[u])
  BY DEF IInv, SessionType, TurnsInv, Turns, Beside, Follows, Sound
<1>. QED  BY <1>1, BesideStep DEF IInv, SessionType

\* Everything the goroutines of a turn and the contexts do on their own.
LEMMA TurnStepInv ==
    ASSUME IInv, NEW t \in TurnId,
           \/ EmitText(t) \/ EmitDone(t) \/ DropDone(t) \/ CloseDone(t)
           \/ \E ok \in BOOLEAN : RunReturn(t, ok)
           \/ Deadline(t) \/ RequestCancels(t)
    PROVE  IInv'
<1>. DEFINE T == turns[t]
<1>0. Sound(T)  BY DEF IInv, TurnsInv
<1>1. ASSUME NEW U, NEW guard, OnTurn(t, guard, U), Beside(T, U)  PROVE IInv'
  BY <1>1, AsideStep DEF OnTurn, session, around
<1>2. CASE EmitText(t) \/ EmitDone(t) \/ DropDone(t) \/ CloseDone(t)
  BY <1>0, <1>1, <1>2, RunSound DEF EmitText, EmitDone, DropDone, CloseDone, OnTurn
<1>3. CASE \E ok \in BOOLEAN : RunReturn(t, ok)
  BY <1>0, <1>1, <1>3, RunSound DEF RunReturn, OnTurn
<1>4. CASE Deadline(t)
  BY <1>0, <1>1, <1>4, CancelSound DEF Deadline, Cause
<1>5. CASE RequestCancels(t)
  <2>1. Beside(T, Cancelled(T, "request"))  BY <1>0, CancelSound DEF Cause
  <2>. QED  BY <1>5, <2>1, AsideStep DEF RequestCancels, session
<1>. QED  BY <1>2, <1>3, <1>4, <1>5

\* Everything the handlers of the calls do.
LEMMA CallStepInv ==
    ASSUME IInv, NEW c \in Call, NEW t \in TurnId, CallStep(c, t) \/ HangUp(c, t)
    PROVE  IInv'
<1>. DEFINE T == turns[t]
<1>0. Sound(T)  BY DEF IInv, TurnsInv
<1>1. PICK U : /\ Turns(t, U)
               /\ \/ U = Called(T, c) \/ U = Queued(T, c) \/ U = Abandoned(T, c)
                  \/ CanReturn(T, c) /\ U = Returned(T, c)
                  \/ U = HangUpNoticed(T, c) \/ U = HungUp(T, c)
               /\ UNCHANGED <<active, facade, facades, session, around, ctl>>
  BY DEF CallStep, CallTool, EmitCall, AbandonCall, ReturnResult, NoticeHangUp, HangUp, OnTurn
<1>2. Beside(T, U)  BY <1>0, <1>1, CallSound
<1>. QED  BY <1>1, <1>2, AsideStep DEF session, around

\* A step of the holder of state.mu that leaves turns and facades as they are.
LEMMA HolderStep ==
    ASSUME IInv, ctl' \in Control, LockInv', ServerInv', firing' \subseteq TurnId,
           \A t \in firing' : Born(t),
           ctl'.who = "watcher" /\ active # 0 => ctl.who = "watcher" \/ IsCancelled(turns[active]),
           server' \in {"open", "cancelled", "swapped", "closed"},
           UNCHANGED <<turns, active, facade, facades, process>>
    PROVE  IInv'
<1>1. SessionType'  BY DEF IInv, SessionType
<1>2. TurnsInv'  BY DEF IInv, TurnsInv, Born
<1>3. OtherFacadesShut' /\ WatcherSparesNewTurn'
  BY DEF IInv, OtherFacadesShut, WatcherSparesNewTurn
<1>. QED  BY <1>1, <1>2, <1>3 DEF IInv

\* The lock is taken, or kept, to stop the session.
LEMMA HoldStep ==
    ASSUME IInv, NEW who \in {"exchange", "watcher", "janitor", "closer"},
           NEW then \in {"reply", "unlock", "hadTools"},
           \/ ctl.who = "none"
           \/ ctl.pc = "loop" /\ who = "exchange" /\ turns[active].exchange = "failing",
           who = "watcher" => active # 0 /\ IsCancelled(turns[active]),
           who = "closer" => server = "swapped",
           server # "closed",
           ctl' = Holding(who, then),
           UNCHANGED <<turns, active, facade, facades, session, around>>
    PROVE  IInv'
<1>1. /\ ctl' \in Control /\ ctl'.pc = "stop" /\ ctl'.who = who /\ ctl'.then = then
      /\ ~ctl'.owner
  BY DEF Holding, Unlocked, Control
<1>2. LockInv'  BY <1>1 DEF IInv, LockInv, Beginning, Unborn, Born
<1>3. ServerInv'  BY <1>1 DEF ServerInv, around
<1>. QED  BY <1>1, <1>2, <1>3, HolderStep DEF IInv, SessionType, TurnsInv, session, around

-----------------------------------------------------------------------------
(* Requests.                                                               *)

\* The exchange, alone with the session, changes its turn.
LEMMA OneTurnChanges ==
    ASSUME IInv, active # 0, NEW U, Sound(U), Turns(active, U), U.exchange # "none",
           turns[active].exchange # "none"
    PROVE  /\ active \in TurnId /\ turns' \in [TurnId -> Turn] /\ turns'[active] = U
           /\ \A t \in TurnId : t # active => turns'[t] = turns[t]
           /\ \A t \in TurnId : Sound(turns'[t]) /\ (Born(t)' <=> Born(t))
           /\ Unborn' = Unborn
<1>1. /\ active \in TurnId /\ turns' \in [TurnId -> Turn] /\ turns'[active] = U
      /\ \A t \in TurnId : t # active => turns'[t] = turns[t]
      /\ \A t \in TurnId : Sound(turns'[t])
  BY DEF IInv, SessionType, TurnsInv, Turns, Sound
<1>2. \A t \in TurnId : Born(t)' <=> Born(t)  BY <1>1 DEF Born
<1>. QED  BY <1>1, <1>2 DEF Unborn

\* It keeps the turn and, or it leaves the session.
LEMMA ExchangeStep ==
    ASSUME IInv, active # 0, NEW U, Sound(U), Turns(active, U), U.exchange # "none",
           turns[active].exchange # "none",
           ctl' \in Control, ctl'.who \in {"none", "exchange"}, LockInv',
           process' \in BOOLEAN,
           UNCHANGED <<active, facade, facades, firing, server>>
    PROVE  IInv'
<1>1. /\ turns' \in [TurnId -> Turn]
      /\ \A t \in TurnId : t # active => turns'[t] = turns[t]
      /\ \A t \in TurnId : Sound(turns'[t]) /\ (Born(t)' <=> Born(t))
  BY OneTurnChanges
<1>2. SessionType'  BY <1>1 DEF IInv, SessionType
<1>3. TurnsInv'  BY <1>1 DEF IInv, SessionType, TurnsInv, Facade
<1>4. ServerInv' /\ OtherFacadesShut' /\ WatcherSparesNewTurn'
  BY DEF IInv, ServerInv, OtherFacadesShut, WatcherSparesNewTurn
<1>. QED  BY <1>2, <1>3, <1>4 DEF IInv

\* A request that brings results.
LEMMA ResultStep ==
    ASSUME IInv, NEW req \in ResultRequest, ResultExchange(req)
    PROVE  IInv'
<1>0. req.batch \in Seq(ResultMessage) /\ req.policy \in Policies
  BY SessionAssumption DEF ResultRequest
<1>1. CASE ResultToOtherSetup(req)
  BY <1>1, HoldStep DEF ResultToOtherSetup, Admitted
<1>2. CASE ResultRejected(req)
  BY <1>2, HolderStep DEF ResultRejected, vars, IInv, SessionType, LockInv, Beginning, TurnsInv,
       ServerInv, Unborn, Born
<1>3. CASE ResultAccepted(req)
  <2>. DEFINE U == Resolved(turns[active], req.batch, req.policy)
  <2>1. /\ ctl.pc = "free" /\ active # 0 /\ turns[active].exchange = "detached"
        /\ Sound(turns[active])
    BY <1>3 DEF ResultAccepted, Admitted, IInv, SessionType, LockInv, TurnsInv
  <2>2. Sound(U) /\ U.exchange = "attached"  BY <1>0, <2>1, ResolveSound DEF Follows
  <2>3. /\ ctl' \in Control /\ ctl'.who = "exchange" /\ ctl'.pc = "loop" /\ ctl'.then = "none"
        /\ ~ctl'.owner /\ Turns(active, U)
    BY <1>3 DEF ResultAccepted, Unlocked, Control
  <2>. HIDE DEF U
  <2>4. LockInv'
    BY <1>3, <2>1, <2>2, <2>3, OneTurnChanges DEF LockInv, Beginning, ResultAccepted
  <2>. QED
    BY <1>3, <2>1, <2>2, <2>3, <2>4, ExchangeStep DEF ResultAccepted, IInv, SessionType, session, around
<1>. QED  BY <1>1, <1>2, <1>3 DEF ResultExchange

\* A request with a user message.
LEMMA UserStep ==
    ASSUME IInv, NEW req \in UserRequest, UserExchange(req)
    PROVE  IInv'
<1>1. /\ Admitted(req) /\ ctl.pc = "free" /\ server # "closed" /\ ToBegin(req) \in Begun
      /\ server \in {"open", "cancelled", "swapped", "closed"} /\ ctl.who = "none"
  BY DEF UserExchange, UserRejected, UserContinues, UserStartsOver, Admitted, UserRequest,
         ToBegin, Begun, IInv, LockInv
<1>2. CASE UserRejected(req)
  BY <1>2, HolderStep DEF UserRejected, vars, IInv, SessionType, LockInv, Beginning, TurnsInv,
       ServerInv, Unborn, Born
<1>3. CASE UserContinues(req)
  <2>1. /\ ctl' \in Control /\ ctl'.who = "exchange" /\ ctl'.pc = "begin" /\ ctl'.then = "none"
        /\ ctl'.req \in Begun /\ ~ctl'.owner
    BY <1>1, <1>3 DEF UserContinues, Unlocked, Control
  <2>2. /\ UNCHANGED <<turns, active, facade, facades, process, firing, server>>
        /\ active = 0 /\ process /\ Unborn # {}
    BY <1>3 DEF UserContinues, Continues, HasTurnFor, session, around
  <2>3. Unborn' = Unborn  BY <2>2 DEF Unborn, Born
  <2>4. LockInv'  BY <2>1, <2>2, <2>3 DEF IInv, LockInv, Beginning
  <2>5. ServerInv'  BY <1>1, <2>1, <2>2 DEF ServerInv
  <2>. QED  BY <1>1, <2>1, <2>2, <2>4, <2>5, HolderStep DEF IInv, SessionType, TurnsInv
<1>4. CASE UserStartsOver(req)
  <2>1. Verdict(req) \in {"begin", "reply", "unexpected"}  BY DEF Verdict
  <2>2. /\ ctl' \in Control /\ ctl'.who = "exchange" /\ ctl'.pc = "stop" /\ ~ctl'.owner
        /\ ctl'.then = Verdict(req) /\ (Verdict(req) = "begin" => ctl'.req \in Begun)
    BY <1>1, <1>4, <2>1 DEF UserStartsOver, Holding, Unlocked, Control, UserRequest
  <2>3. /\ UNCHANGED <<turns, active, facade, facades, process, firing, server>>
        /\ Verdict(req) = "begin" => Unborn # {}
    BY <1>4 DEF UserStartsOver, HasTurnFor, session, around
  <2>4. Unborn' = Unborn  BY <2>3 DEF Unborn, Born
  <2>5. LockInv'  BY <1>1, <2>2, <2>3, <2>4 DEF IInv, LockInv, Beginning
  <2>6. ServerInv'  BY <1>1, <2>2, <2>3 DEF ServerInv
  <2>. QED  BY <1>1, <2>2, <2>3, <2>5, <2>6, HolderStep DEF IInv, SessionType, TurnsInv
<1>. QED  BY <1>2, <1>3, <1>4 DEF UserExchange

\* The client of the exchange is gone.
LEMMA RequestLostStep == ASSUME IInv, RequestLost PROVE IInv'
<1>1. /\ ctl' \in Control /\ ctl'.who = ctl.who /\ ctl'.pc = ctl.pc /\ ctl'.then = ctl.then
      /\ ctl'.req = ctl.req /\ ctl'.owner = ctl.owner
      /\ UNCHANGED <<turns, active, facade, facades, process, server>>
  BY DEF RequestLost, IInv, SessionType, Control, session
<1>2. LockInv' /\ ServerInv'
  BY <1>1 DEF IInv, LockInv, ServerInv, Beginning, Unborn, Born
<1>3. firing' \subseteq TurnId /\ \A t \in firing' : Born(t)
  BY DEF RequestLost, IInv, SessionType, LockInv, TurnsInv, Born
<1>. QED  BY <1>1, <1>2, <1>3, HolderStep DEF IInv, SessionType

-----------------------------------------------------------------------------
(* The exchange that starts a turn.                                        *)

LEMMA FacadeFailsStep == ASSUME IInv, FacadeFails PROVE IInv'
<1>1. /\ ctl' \in Control /\ ctl'.who = "none" /\ ctl'.pc = "free" /\ ctl'.then = "none"
      /\ ~ctl'.owner /\ active = 0
      /\ UNCHANGED <<turns, active, facade, facades, process, firing, server>>
  BY DEF FacadeFails, At, Unlocked, Control, session, around, IInv, LockInv
<1>2. LockInv' /\ ServerInv'
  BY <1>1 DEF IInv, LockInv, ServerInv, Beginning
<1>. QED  BY <1>1, <1>2, HolderStep DEF IInv, SessionType, TurnsInv

\* The new turn is the only one that lives, and its facade the only one.
LEMMA BeginStep == ASSUME IInv, Begin PROVE IInv'
<1>. DEFINE t == NextTurn
            C == Created(turns[t], ctl.req.policy)
            U == IF server = "open" THEN C ELSE Cancelled(C, "canceled")
<1>1. /\ ctl.pc = "begin" /\ ctl.who = "exchange" /\ active = 0
      /\ process \/ facade = 0
      /\ ctl.req \in Begun
  BY DEF Begin, At, IInv, LockInv, Beginning
<1>2. t \in TurnId /\ t # 0 /\ turns[t].exchange = "none"
  BY <1>1, NextTurnUnborn, ZeroIsNoTurn DEF IInv, LockInv, Beginning, Unborn, Born
<1>3. Turns(t, U) /\ active' = t /\ facade' = IF NeedsFacade THEN t ELSE facade
  BY DEF Begin
<1>4. facades' = IF NeedsFacade
                 THEN [facades EXCEPT ![t] = [ctx |-> IF server = "open" THEN "live" ELSE "done",
                                              active |-> t, bridge |-> "up"]]
                 ELSE Bound(t)
  BY DEF Begin
<1>5. /\ firing' \in {firing, firing \cup {t}}
      /\ ctl' = [ctl EXCEPT !.pc = "start", !.then = "none", !.req = NoRequest, !.owner = TRUE]
      /\ UNCHANGED <<process, server>>
  BY DEF Begin
<1>. HIDE DEF t
<1>6. Sound(U) /\ U.exchange = "starting"
  <2>1. Sound(turns[t]) /\ ctl.req.policy \in Policies
    BY <1>1, <1>2 DEF IInv, TurnsInv, Begun
  <2>2. Sound(C) /\ C.exchange = "starting"  BY <1>2, <2>1, CreatedSound
  <2>. HIDE DEF C
  <2>. QED  BY <2>2, CancelSound DEF Cause, Beside, Follows
<1>. HIDE DEF U
<1>7. /\ turns' \in [TurnId -> Turn] /\ turns'[t] = U
      /\ \A u \in TurnId : u # t => turns'[u] = turns[u]
      /\ \A u \in TurnId : Sound(turns'[u]) /\ (Born(u)' <=> u = t \/ Born(u))
  BY <1>2, <1>3, <1>6 DEF IInv, SessionType, TurnsInv, Turns, Sound, Born
<1>8. ctl' \in Control /\ ctl'.who = "exchange" /\ ctl'.pc = "start" /\ ctl'.then = "none"
  BY <1>1, <1>5 DEF IInv, SessionType, Control
<1>9. /\ facades' \in [TurnId -> Facade]
      /\ \A f \in TurnId : facades'[f].active \in {facades[f].active, t}
      /\ \A f \in TurnId : facades'[f].ctx = facades[f].ctx \/ (NeedsFacade /\ f = t)
  <2>0. facades \in [TurnId -> Facade]  BY DEF IInv, SessionType
  <2>1. CASE NeedsFacade
    <3>. DEFINE F == [ctx |-> IF server = "open" THEN "live" ELSE "done",
                      active |-> t, bridge |-> "up"]
    <3>1. F \in Facade /\ F.active = t  BY <1>2 DEF Facade
    <3>2. facades' = [facades EXCEPT ![t] = F]  BY <1>4, <2>1
    <3>. HIDE DEF F
    <3>. QED  BY <2>0, <2>1, <3>1, <3>2
  <2>2. CASE ~NeedsFacade
    <3>1. facades' = [f \in TurnId |-> IF f = facade THEN [facades[f] EXCEPT !.active = t]
                                       ELSE facades[f]]
      BY <1>4, <2>2 DEF Bound
    <3>2. \A f \in TurnId : LET F == [facades[f] EXCEPT !.active = t]
                            IN  F \in Facade /\ F.active = t /\ F.ctx = facades[f].ctx
      BY <1>2, <2>0 DEF Facade
    <3>. QED  BY <2>0, <3>1, <3>2
  <2>. QED  BY <2>1, <2>2
<1>10. SessionType'
  BY <1>2, <1>3, <1>5, <1>7, <1>8, <1>9 DEF IInv, SessionType
<1>11. LockInv'  BY <1>2, <1>3, <1>6, <1>7, <1>8 DEF LockInv, Beginning
<1>12. TurnsInv'
  <2>1. \A u \in TurnId : Born(u)' /\ u # active' =>
            IsCancelled(turns[u])' /\ turns'[u].run \in Ended
    BY <1>1, <1>2, <1>3, <1>7, ZeroIsNoTurn DEF IInv, TurnsInv
  <2>2. \A f \in TurnId : facades'[f].active # 0 => Born(facades[f].active)'
    BY <1>2, <1>7, <1>9 DEF IInv, SessionType, TurnsInv, Facade, Born
  <2>3. \A u \in firing' : Born(u)'
    BY <1>2, <1>5, <1>7 DEF IInv, SessionType, TurnsInv
  <2>. QED  BY <1>7, <2>1, <2>2, <2>3 DEF TurnsInv
<1>13. OtherFacadesShut'
  <2>1. CASE NeedsFacade
    BY <1>1, <1>2, <1>3, <1>9, <2>1, ZeroIsNoTurn DEF IInv, OtherFacadesShut, NeedsFacade
  <2>2. CASE ~NeedsFacade
    BY <1>2, <1>3, <1>9, <2>2 DEF IInv, OtherFacadesShut
  <2>. QED  BY <2>1, <2>2
<1>14. ServerInv' /\ WatcherSparesNewTurn'
  BY <1>1, <1>5, <1>8 DEF IInv, ServerInv, WatcherSparesNewTurn
<1>. QED  BY <1>10, <1>11, <1>12, <1>13, <1>14 DEF IInv

\* What a step of the exchange in its loop, or of the start of its turn, has to show.
LEMMA AttachedStep ==
    ASSUME IInv, ctl.pc \in {"start", "loop"},
           NEW U, Sound(U), Turns(active, U),
           U.exchange \in {"attached", "responding", "failing"},
           ctl' \in {ctl, [ctl EXCEPT !.pc = "loop"]}, ctl'.pc = "loop",
           process' \in BOOLEAN,
           UNCHANGED <<active, facade, facades, firing, server>>
    PROVE  IInv'
<1>1. /\ active # 0 /\ turns[active].exchange # "none" /\ ctl.who = "exchange"
      /\ ctl.then = "none"
  BY DEF IInv, LockInv
<1>2. /\ ctl' \in Control /\ ctl'.who = "exchange" /\ ctl'.then = "none" /\ ctl'.owner = ctl.owner
  BY <1>1 DEF IInv, SessionType, Control
<1>3. LockInv'  BY <1>1, <1>2, OneTurnChanges DEF IInv, LockInv, Beginning
<1>. QED  BY <1>1, <1>2, <1>3, ExchangeStep DEF IInv, SessionType

LEMMA StartStepInv == ASSUME IInv, StartStep PROVE IInv'
<1>1. /\ ctl.pc = "start" /\ active \in TurnId /\ turns[active].exchange = "starting" /\ active # 0
      /\ Sound(turns[active])
  BY DEF StartStep, Start, StartFails, At, IInv, SessionType, LockInv, TurnsInv
<1>2. CASE Start
  <2>. DEFINE U == RunStarted(turns[active])
  <2>1. Sound(U) /\ U.exchange = "attached"  BY <1>1, StartedSound
  <2>2. /\ Turns(active, U) /\ process' = TRUE /\ ctl' = [ctl EXCEPT !.pc = "loop"]
        /\ UNCHANGED <<active, facade, facades, firing, server>>
    BY <1>2 DEF Start, around
  <2>3. ctl'.pc = "loop"  BY <2>2 DEF IInv, SessionType, Control
  <2>. HIDE DEF U
  <2>. QED  BY <1>1, <2>1, <2>2, <2>3, AttachedStep
<1>3. CASE StartFails
  <2>. DEFINE U == StartFailed(turns[active])
  <2>1. Sound(U) /\ U.exchange = "failing"  BY <1>1, StartedSound
  <2>2. /\ Turns(active, U) /\ ctl' = Holding("exchange", "reply")
        /\ UNCHANGED <<active, facade, facades, process, firing, server>>
    BY <1>3 DEF StartFails, session, around
  <2>3. /\ ctl' \in Control /\ ctl'.who = "exchange" /\ ctl'.pc = "stop" /\ ctl'.then = "reply"
        /\ ~ctl'.owner
    BY <2>2 DEF Holding, Unlocked, Control
  <2>. HIDE DEF U
  <2>4. LockInv'  BY <1>1, <2>1, <2>2, <2>3, OneTurnChanges DEF LockInv, Beginning
  <2>. QED  BY <1>1, <2>1, <2>2, <2>3, <2>4, ExchangeStep DEF IInv, SessionType
<1>. QED  BY <1>2, <1>3 DEF StartStep

-----------------------------------------------------------------------------
(* The loop of the exchange.                                               *)

\* A finished turn leaves the session: it is cancelled and its goroutine has ended.
LEMMA LoopDoneStep == ASSUME IInv, LoopDone PROVE IInv'
<1>. DEFINE U == DoneTaken(turns[active])
<1>1. /\ ctl.pc = "loop" /\ ctl.who = "exchange" /\ active # 0 /\ active \in TurnId
      /\ turns[active].exchange = "attached" /\ Sound(turns[active])
      /\ CanTake(turns[active], "done")
  BY DEF LoopDone, At, CanTake, IInv, SessionType, LockInv, TurnsInv
<1>2. Turns(active, U) /\ UNCHANGED <<captured, firing, server>>  BY DEF LoopDone, around
<1>3. /\ Sound(U) /\ U.run \in Ended
      /\ U.exchange = "failing" \/ (U.exchange = "over" /\ IsCancelled(U))
  BY <1>1, DoneTakenSound DEF Follows
<1>4. CASE U.exchange = "over"
  <2>1. /\ active' = 0 /\ facades' = Bound(0) /\ ctl' = Returning
        /\ UNCHANGED <<process, facade>>
    BY <1>4 DEF LoopDone, Recorded
  <2>10. /\ ctl' \in Control /\ ctl'.who = "exchange" /\ ctl'.pc = "returning"
         /\ ctl'.then = "none"
    BY <2>1 DEF Returning, Unlocked, Control, IInv, SessionType
  <2>2. IsCancelled(U)  BY <1>3, <1>4
  <2>. HIDE DEF U
  <2>3. /\ turns' \in [TurnId -> Turn] /\ turns'[active] = U
        /\ \A t \in TurnId : t # active => turns'[t] = turns[t]
        /\ \A t \in TurnId : Sound(turns'[t]) /\ (Born(t)' <=> Born(t))
    BY <1>1, <1>2, <1>3, <1>4, OneTurnChanges
  <2>4. /\ facades' \in [TurnId -> Facade]
        /\ \A f \in TurnId :
              /\ facades'[f].ctx = facades[f].ctx
              /\ facades'[f].active = IF f = facade THEN 0 ELSE facades[f].active
    BY <2>1 DEF Bound, IInv, SessionType, Facade
  <2>5. SessionType'
    BY <1>2, <2>1, <2>3, <2>4, <2>10 DEF IInv, SessionType
  <2>6. LockInv'  BY <2>1, <2>10 DEF LockInv, Beginning
  <2>7. TurnsInv'
    <3>1. \A t \in TurnId : Born(t)' => IsCancelled(turns[t])' /\ turns'[t].run \in Ended
      BY <1>3, <2>2, <2>3 DEF IInv, TurnsInv
    <3>2. \A f \in TurnId : facades'[f].active # 0 => Born(facades[f].active)'
      BY <2>3, <2>4 DEF IInv, SessionType, TurnsInv, Facade, Born
    <3>3. \A t \in firing' : Born(t)'
      BY <1>2, <2>3 DEF IInv, SessionType, TurnsInv
    <3>. QED  BY <2>3, <3>1, <3>2, <3>3 DEF TurnsInv
  <2>8. WatcherSparesNewTurn'
    BY <2>1 DEF WatcherSparesNewTurn
  <2>9. ServerInv' /\ OtherFacadesShut'
    BY <1>1, <1>2, <2>1, <2>4, <2>10 DEF IInv, ServerInv, OtherFacadesShut
  <2>. QED  BY <2>5, <2>6, <2>7, <2>8, <2>9 DEF IInv
<1>5. CASE U.exchange = "failing"
  <2>1. UNCHANGED <<active, facades, facade, process, ctl>>
    BY <1>5 DEF LoopDone, session
  <2>. HIDE DEF U
  <2>. QED  BY <1>1, <1>2, <1>3, <1>5, <2>1, AttachedStep DEF IInv, SessionType
<1>. QED  BY <1>3, <1>4, <1>5

\* The response with the call is written, unless the turn was cancelled meanwhile.
LEMMA LoopRespondStep == ASSUME IInv, LoopRespond PROVE IInv'
<1>. DEFINE U == Responded(turns[active])
<1>1. /\ ctl.pc = "loop" /\ ctl.who = "exchange" /\ active # 0
      /\ turns[active].exchange = "responding" /\ Sound(turns[active])
  BY DEF LoopRespond, At, CanRespond, IInv, SessionType, LockInv, TurnsInv
<1>2. Turns(active, U) /\ UNCHANGED <<active, facades, firing, server>>
  BY DEF LoopRespond, around
<1>3. Sound(U) /\ U.exchange \in {"failing", "detached"}
  BY <1>1, LeaveSound DEF Follows
<1>4. CASE U.exchange = "detached"
  <2>0. turns'[active] = U  BY <1>1, <1>2 DEF Turns, IInv, SessionType
  <2>1. ctl' = Returning /\ UNCHANGED <<process, facade>>
    BY <1>4, <2>0 DEF LoopRespond, Recorded
  <2>3. /\ ctl' \in Control /\ ctl'.who = "exchange" /\ ctl'.pc = "returning"
        /\ ctl'.then = "none"
    BY <2>1 DEF Returning, Unlocked, Control, IInv, SessionType
  <2>. HIDE DEF U
  <2>2. LockInv'  BY <1>2, <1>4, <2>0, <2>3 DEF LockInv, Beginning
  <2>. QED  BY <1>1, <1>2, <1>3, <1>4, <2>1, <2>2, <2>3, ExchangeStep DEF IInv, SessionType
<1>5. CASE U.exchange = "failing"
  <2>1. UNCHANGED <<facade, process, ctl>>  BY <1>5 DEF LoopRespond, session
  <2>. HIDE DEF U
  <2>. QED  BY <1>1, <1>2, <1>3, <1>5, <2>1, AttachedStep DEF IInv, SessionType
<1>. QED  BY <1>3, <1>4, <1>5

\* The handler has written its response and gives the lock back.
LEMMA ReturnStep == ASSUME IInv, Return PROVE IInv'
<1>1. /\ ctl.pc = "returning" /\ ctl' \in Control /\ ctl'.who = "none" /\ ctl'.pc = "free"
      /\ ctl'.then = "none" /\ ~ctl'.owner
      /\ UNCHANGED <<turns, active, facade, facades, process, firing, server>>
  BY DEF Return, At, Unlocked, Control, session, around
<1>2. LockInv' /\ ServerInv'
  BY <1>1 DEF IInv, LockInv, ServerInv, Beginning
<1>. QED  BY <1>1, <1>2, HolderStep DEF IInv, SessionType, TurnsInv

LEMMA LoopStepInv == ASSUME IInv, LoopStep PROVE IInv'
<1>0. CASE Return  BY <1>0, ReturnStep
<1>. SUFFICES ASSUME ~Return PROVE IInv'  BY <1>0
<1>1. /\ ctl.pc = "loop" /\ Sound(turns[active])
  BY DEF LoopStep, LoopText, LoopCall, LoopInterrupted, LoopDone, LoopRespond, LoopFails, LoopTo,
         At, IInv, SessionType, LockInv, TurnsInv
<1>2. ASSUME NEW U, Sound(U), U.exchange \in {"attached", "responding", "failing"},
             Turns(active, U), UNCHANGED <<active, facade, facades, session, around, ctl>>
      PROVE  IInv'
  BY <1>1, <1>2, AttachedStep DEF IInv, SessionType, session, around
<1>3. CASE \E ok \in BOOLEAN : LoopText(ok)
  BY <1>1, <1>2, <1>3, TextTakenSound DEF LoopText, LoopTo, Follows
<1>4. CASE LoopCall
  BY <1>1, <1>2, <1>4, CallTakenSound DEF LoopCall, LoopTo, Follows
<1>5. CASE LoopInterrupted
  BY <1>1, <1>2, <1>5, LeaveSound DEF LoopInterrupted, LoopTo, Follows
<1>6. CASE LoopFails
  BY <1>1, <1>6, HoldStep DEF LoopFails, At, IInv, ServerInv
<1>. QED  BY <1>3, <1>4, <1>5, <1>6, LoopDoneStep, LoopRespondStep DEF LoopStep

-----------------------------------------------------------------------------
(* sessionState.stop.                                                      *)

\* The turn is cancelled and the facade taken away.
LEMMA StopCancelsStep == ASSUME IInv, StopCancels PROVE IInv'
<1>1. /\ ctl.pc = "stop" /\ ctl' = [ctl EXCEPT !.pc = "wait"] /\ facade' = 0
      /\ UNCHANGED <<active, process, firing, server>>
      /\ active # 0 => turns[active].exchange \in {"detached", "failing"}
  BY DEF StopCancels, session, around, IInv, LockInv
<1>2. /\ facades' \in [TurnId -> Facade]
      /\ \A f \in TurnId : /\ facades'[f].active = facades[f].active
                           /\ facades'[f].ctx = IF f = facade THEN "done" ELSE facades[f].ctx
  BY DEF StopCancels, IInv, SessionType, Facade
<1>3. \A t \in TurnId : turns'[t] = IF t = active THEN Cleared(turns[t]) ELSE turns[t]
  <2>1. CASE active # 0
    BY <2>1 DEF StopCancels, IInv, SessionType
  <2>2. CASE active = 0
    <3>1. facade # 0 => facades[facade].active = 0
      BY <2>2 DEF IInv, SessionType, OtherFacadesShut
    <3>. QED  BY <2>2, <3>1, ZeroIsNoTurn DEF StopCancels, Aborted
  <2>. QED  BY <2>1, <2>2
<1>4. /\ \A t \in TurnId : Follows(turns[t], turns'[t]) /\ (Born(t)' <=> Born(t))
      /\ active # 0 => IsCancelled(turns[active])'
  <2>1. \A t \in TurnId : Sound(turns[t])  BY DEF IInv, TurnsInv
  <2>2. ASSUME NEW t \in TurnId, t = active
        PROVE  Follows(turns[t], turns'[t]) /\ (Born(t)' <=> Born(t)) /\ IsCancelled(turns[t])'
    <3>1. turns'[t] = Cleared(turns[t]) /\ Born(t)  BY <1>1, <1>3, <2>2, ZeroIsNoTurn DEF Born
    <3>. QED  BY <2>1, <3>1, LeaveSound DEF Born
  <2>3. ASSUME NEW t \in TurnId, t # active
        PROVE  Follows(turns[t], turns'[t]) /\ (Born(t)' <=> Born(t))
    BY <1>3, <2>1, <2>3 DEF Follows, Born
  <2>. QED  BY <1>1, <2>2, <2>3 DEF IInv, SessionType
<1>5. turns' \in [TurnId -> Turn]
  <2>1. turns' = [t \in TurnId |-> turns'[t]]  BY DEF StopCancels, Aborted, IInv, SessionType
  <2>. QED  BY <1>4, <2>1 DEF Follows, Sound
<1>6. SessionType'  BY <1>1, <1>2, <1>5 DEF IInv, SessionType, Control
<1>7. LockInv'
  <2>1. Unborn' = Unborn  BY <1>4 DEF Unborn
  <2>. QED  BY <1>1, <1>4, <2>1 DEF IInv, SessionType, LockInv, Beginning, Control
<1>8. TurnsInv'
  BY <1>1, <1>2, <1>3, <1>4 DEF IInv, SessionType, TurnsInv, Facade, Follows, IsCancelled, Born
<1>9. OtherFacadesShut'
  BY <1>1, <1>2, ZeroIsNoTurn DEF IInv, OtherFacadesShut
<1>10. ServerInv' /\ WatcherSparesNewTurn'
  BY <1>1, <1>4 DEF IInv, SessionType, LockInv, Control, ServerInv, WatcherSparesNewTurn
<1>. QED  BY <1>6, <1>7, <1>8, <1>9, <1>10 DEF IInv

\* The turn has ended; the session has none.
LEMMA StoppedStep ==
    ASSUME IInv, ClearSession \/ Evicted \/ Closed
    PROVE  IInv'
<1>1. /\ ctl.pc = "wait" /\ active' = 0 /\ process' = FALSE /\ facade = 0
      /\ UNCHANGED <<turns, facade, facades, firing>>
      /\ active # 0 => IsCancelled(turns[active]) /\ turns[active].run = "closed"
  BY DEF ClearSession, Evicted, Closed, Stopped, TurnStopped, IInv, SessionType, LockInv
<1>2. /\ \/ ctl' = Unlocked
         \/ ctl' = [ctl EXCEPT !.pc = "begin", !.then = "none"] /\ ctl.then = "begin"
      /\ server' = server \/ (server' = "closed" /\ ctl' = Unlocked)
  BY DEF ClearSession, Evicted, Closed
<1>3. Unborn' = Unborn  BY <1>1 DEF Unborn, Born
<1>0. ctl' \in Control /\ ctl'.who \in {ctl.who, "none"}
  <2>1. Unlocked \in Control /\ Unlocked.who = "none"  BY DEF Unlocked, Control
  <2>2. LET C == [ctl EXCEPT !.pc = "begin", !.then = "none"] IN C \in Control /\ C.who = ctl.who
    BY DEF IInv, SessionType, Control
  <2>. QED  BY <1>2, <2>1, <2>2
<1>4. SessionType'  BY <1>0, <1>1, <1>2 DEF IInv, SessionType
<1>5. LockInv'
  <2>1. CASE ctl' = Unlocked
    BY <1>1, <2>1 DEF LockInv, Beginning, Unlocked
  <2>2. CASE ctl' = [ctl EXCEPT !.pc = "begin", !.then = "none"] /\ ctl.then = "begin"
    BY <1>1, <1>3, <2>2 DEF IInv, SessionType, LockInv, Beginning, Control
  <2>. QED  BY <1>2, <2>1, <2>2
<1>6. TurnsInv'
  BY <1>1 DEF IInv, SessionType, TurnsInv, Born, Ended
<1>7. WatcherSparesNewTurn'  BY <1>1 DEF WatcherSparesNewTurn
<1>8. OtherFacadesShut'  BY <1>1, ZeroIsNoTurn DEF IInv, OtherFacadesShut
<1>9. ServerInv'
  <2>1. CASE server' = "closed" /\ ctl' = Unlocked
    BY <1>1, <2>1 DEF ServerInv, Unlocked
  <2>2. CASE server' = server
    <3>1. server # "closed"  BY <1>1 DEF IInv, LockInv, ServerInv
    <3>2. ctl'.who = "closer" => server = "swapped"
      BY <1>0 DEF IInv, ServerInv
    <3>. QED  BY <2>2, <3>1, <3>2 DEF ServerInv
  <2>. QED  BY <1>2, <2>1, <2>2
<1>. QED  BY <1>4, <1>5, <1>6, <1>7, <1>8, <1>9 DEF IInv

-----------------------------------------------------------------------------
(* The others who take the lock, and the facades.                          *)

\* The watcher of the active turn, the janitor, registry.close.
LEMMA TakeLockStep ==
    ASSUME IInv, (\E t \in TurnId : Watcher(t)) \/ Evict \/ CloseLocks
    PROVE  IInv'
<1>1. CASE \E t \in TurnId : Watcher(t)
  BY <1>1, HoldStep, ZeroIsNoTurn DEF Watcher, WatcherOwns, IInv, ServerInv
<1>2. CASE Evict
  BY <1>2, HoldStep DEF Evict
<1>3. CASE CloseLocks
  BY <1>3, HoldStep DEF CloseLocks
<1>. QED  BY <1>1, <1>2, <1>3

\* Server.Close cancels every context, then replaces the map.
LEMMA CloseStep == ASSUME IInv, CloseCancels \/ CloseSwaps PROVE IInv'
<1>1. CASE CloseCancels
  <2>1. /\ turns' \in [TurnId -> Turn]
        /\ \A t \in TurnId : Beside(turns[t], turns'[t])
    <3>1. \A t \in TurnId : Beside(turns[t], turns[t]) /\ Beside(turns[t], Cancelled(turns[t], "canceled"))
      BY CancelSound DEF IInv, TurnsInv, Cause, Beside, Follows
    <3>. QED  BY <1>1, <3>1 DEF CloseCancels, Beside, Follows, Sound
  <2>2. /\ facades' \in [TurnId -> Facade]
        /\ \A f \in TurnId : /\ facades'[f].active = facades[f].active
                             /\ facades'[f].ctx \in {facades[f].ctx, "done"}
    BY <1>1 DEF CloseCancels, IInv, SessionType, Facade
  <2>. QED  BY <1>1, <2>1, <2>2, BesideStep DEF CloseCancels, session
<1>2. CASE CloseSwaps
  BY <1>2, HolderStep DEF CloseSwaps, session, IInv, SessionType, LockInv, Beginning, Unborn, Born,
       TurnsInv, ServerInv
<1>. QED  BY <1>1, <1>2

\* The facade's handlers.
LEMMA FacadeStep ==
    ASSUME IInv,
           \/ \E f \in TurnId : BridgeAborts(f) \/ BridgeCancels(f)
           \/ \E c \in Call, f \in TurnId : CallArrives(c, f)
    PROVE  IInv'
<1>0. \A t \in TurnId : Beside(turns[t], turns[t])
  BY DEF IInv, TurnsInv, Beside, Follows
<1>1. ASSUME NEW f \in TurnId, BridgeAborts(f)  PROVE IInv'
  <2>1. /\ facades' \in [TurnId -> Facade]
        /\ \A g \in TurnId : facades'[g].active = facades[g].active /\ facades'[g].ctx = facades[g].ctx
    BY <1>1 DEF BridgeAborts, IInv, SessionType, Facade
  <2>2. /\ turns' \in [TurnId -> Turn]
        /\ \A t \in TurnId : Beside(turns[t], turns'[t])
    <3>1. turns' = turns \/ \E t \in TurnId : turns' = [turns EXCEPT ![t] = Cancelled(turns[t], "bridge")]
      BY <1>1 DEF BridgeAborts, Aborted, IInv, SessionType, Facade
    <3>2. \A t \in TurnId : Beside(turns[t], Cancelled(turns[t], "bridge"))
      BY CancelSound DEF IInv, TurnsInv, Cause
    <3>. QED  BY <1>0, <3>1, <3>2 DEF IInv, SessionType, Beside, Follows, Sound
  <2>. QED  BY <1>1, <2>1, <2>2, BesideStep DEF BridgeAborts, session, around
<1>2. ASSUME NEW f \in TurnId, BridgeCancels(f)  PROVE IInv'
  <2>1. /\ facades' \in [TurnId -> Facade]
        /\ \A g \in TurnId : /\ facades'[g].active = facades[g].active
                             /\ facades'[g].ctx \in {facades[g].ctx, "done"}
    BY <1>2 DEF BridgeCancels, IInv, SessionType, Facade
  <2>. QED  BY <1>0, <1>2, <2>1, BesideStep DEF BridgeCancels, session, around, IInv, SessionType
<1>3. CASE \E c \in Call, f \in TurnId : CallArrives(c, f)
  BY <1>0, <1>3, BesideStep DEF CallArrives, session, IInv, SessionType
<1>. QED  BY <1>1, <1>2, <1>3

-----------------------------------------------------------------------------

\* What neither a turn, a facade, the lock nor Server.Close knows of.
LEMMA StoreStep ==
    ASSUME IInv, UNCHANGED <<turns, active, facade, facades, process, firing, ctl, server>>
    PROVE  IInv'
  BY HolderStep DEF IInv, SessionType, LockInv, Beginning, TurnsInv, ServerInv, Unborn, Born

\* A plain exchange, of a session without a turn and a facade.
LEMMA PlainStepInv == ASSUME IInv, PlainStep PROVE IInv'
<1>1. /\ ctl.pc = "free" /\ server # "closed" /\ process' \in BOOLEAN
      /\ UNCHANGED <<turns, active, facade, facades, firing, ctl, server>>
  BY DEF PlainStep, PlainStartsOver, PlainAnswered, PlainFails, IsPlain, around, IInv, LockInv
<1>2. SessionType' /\ TurnsInv'  BY <1>1 DEF IInv, SessionType, TurnsInv, Born
<1>3. LockInv' /\ ServerInv' /\ OtherFacadesShut' /\ WatcherSparesNewTurn'
  BY <1>1 DEF IInv, LockInv, Beginning, ServerInv, OtherFacadesShut, WatcherSparesNewTurn, Unborn, Born
<1>. QED  BY <1>2, <1>3 DEF IInv

LEMMA NextInv == IInv /\ [Next]_vars => IInv'
<1>. SUFFICES ASSUME IInv, [Next]_vars  PROVE IInv'  OBVIOUS
<1>1. CASE \E req \in UserRequest : UserExchange(req)  BY <1>1, UserStep
<1>2. CASE \E req \in ResultRequest : ResultExchange(req)  BY <1>2, ResultStep
<1>3. CASE RequestLost  BY <1>3, RequestLostStep
<1>4. CASE FacadeFails \/ Begin \/ StartStep
  BY <1>4, FacadeFailsStep, BeginStep, StartStepInv
<1>5. CASE LoopStep  BY <1>5, LoopStepInv
<1>6. CASE StopStep  BY <1>6, StopCancelsStep, StoppedStep DEF StopStep
<1>7. CASE Evict \/ CloseLocks  BY <1>7, TakeLockStep
<1>8. CASE CloseCancels \/ CloseSwaps  BY <1>8, CloseStep
<1>9. ASSUME NEW t \in TurnId, TurnStep(t)  PROVE IInv'
  BY <1>9, TurnStepInv, TakeLockStep, FacadeStep DEF TurnStep
<1>10. ASSUME NEW c \in Call, NEW t \in TurnId, CallArrives(c, t) \/ CallStep(c, t) \/ HangUp(c, t)
       PROVE  IInv'
  BY <1>10, FacadeStep, CallStepInv
<1>11. CASE UNCHANGED vars \/ OtherWrite
  BY <1>11, StoreStep DEF vars, OtherWrite, around
<1>12. CASE PlainStep  BY <1>12, PlainStepInv
<1>. QED
  BY <1>1, <1>2, <1>3, <1>4, <1>5, <1>6, <1>7, <1>8, <1>9, <1>10, <1>11, <1>12 DEF Next

\* The invariant that the following theorems read off.
THEOREM Inductive == Spec => []IInv
  BY InitInv, NextInv, PTL DEF Spec

\* A new prompt is sent only after the goroutine of the turn before has left RunTurn.
THEOREM PromptsApart == Spec => []OnePromptAtATime
<1>1. IInv => OnePromptAtATime
  BY DEF IInv, TurnsInv, Sound, OnePromptAtATime, Born, Ended
<1>. QED  BY <1>1, Inductive, PTL

\* Every turn the session has left behind is cancelled and past RunTurn.
THEOREM LeftTurnsEnd == Spec => []OnlyActiveTurnLives
<1>1. IInv => OnlyActiveTurnLives  BY DEF IInv, TurnsInv, OnlyActiveTurnLives, Ended
<1>. QED  BY <1>1, Inductive, PTL

\* A late watcher clears no turn that lives.
THEOREM WatcherSpares == Spec => []WatcherSparesNewTurn
<1>1. IInv => WatcherSparesNewTurn  BY DEF IInv
<1>. QED  BY <1>1, Inductive, PTL

\* No other facade of the session lives, and its own is bound to no turn between turns.
THEOREM FacadesShut == Spec => []OtherFacadesShut
<1>1. IInv => OtherFacadesShut  BY DEF IInv
<1>. QED  BY <1>1, Inductive, PTL

\* Server.Close leaves no turn, process or facade, and only cancelled turns past RunTurn.
THEOREM CloseReleases == Spec => []ClosedReleasesAll
<1>1. IInv => ClosedReleasesAll
  BY ZeroIsNoTurn DEF IInv, SessionType, TurnsInv, ServerInv, ClosedReleasesAll, Ended
<1>. QED  BY <1>1, Inductive, PTL

-----------------------------------------------------------------------------
(* Every turn of a session is an ActiveTurn, for any turns, calls and      *)
(* batches and with all the moves: what a session does with its turns,     *)
(* from creation to eviction, is what ActiveTurn lets happen to one, and   *)
(* what is proved of ActiveTurn holds for each.                            *)

\* What TurnOf(t) says of the turn t in a step.
StepsAsTurn(t) == turns'[t] = turns[t] \/ TurnOf(t)!Next

\* The operators of TurnOps mean the same here and in TurnOf.
LEMMA SameOps ==
    ASSUME NEW t, NEW T, NEW cause
    PROVE  /\ TurnOf(t)!Cancelled(T, cause) = Cancelled(T, cause)
           /\ TurnOf(t)!Cause = Cause
           /\ TurnOf(t)!Cleared(T) = Cleared(T)
  BY DEF TurnOf!Cancelled, Cancelled, TurnOf!Cause, Cause, TurnOf!Cleared, Cleared

LEMMA SameAnswers ==
    ASSUME NEW t, NEW T, NEW batch, NEW policy
    PROVE  TurnOf(t)!Resolved(T, batch, policy) = Resolved(T, batch, policy)
<1>1. \A S : TurnOf(t)!Cardinality(S) = Cardinality(S)
  BY DEF TurnOf!Cardinality, Cardinality
<1>. QED
  BY <1>1 DEF TurnOf!Resolved, Resolved, TurnOf!Answers, Answers, TurnOf!BatchIds, BatchIds

\* A change of one turn leaves the others alone.
LEMMA OneSteps ==
    ASSUME turns \in [TurnId -> Turn], NEW t \in TurnId, NEW U, Turns(t, U),
           turns'[t] = U => TurnOf(t)!Next
    PROVE  \A u \in TurnId : StepsAsTurn(u)
  BY DEF Turns, StepsAsTurn

\* A cancellation of a turn that was born.
LEMMA CancelSteps ==
    ASSUME NEW t \in TurnId, Born(t), NEW cause \in Cause \ {"none", "call"},
           turns'[t] = Cancelled(turns[t], cause)
    PROVE  TurnOf(t)!Next
  BY SameOps DEF TurnOf!Next, TurnOf!Cancel, Born

\* The handlers of the calls.
LEMMA CallSteps ==
    ASSUME IInv, NEW c \in Call, NEW t \in TurnId, CallStep(c, t) \/ HangUp(c, t)
    PROVE  \A u \in TurnId : StepsAsTurn(u)
<1>0. turns \in [TurnId -> Turn]  BY DEF IInv, SessionType
<1>. USE DEF OnTurn
<1>1. CASE CallTool(c, t)
  <2>1. turns'[t] = Called(turns[t], c) => TurnOf(t)!CallTool(c)
    BY <1>1 DEF CallTool, TurnOf!CallTool, CanCall, TurnOf!CanCall, Called, TurnOf!Called,
         Allows, TurnOf!Allows
  <2>. QED  BY <1>0, <1>1, <2>1, OneSteps DEF CallTool, TurnOf!Next
<1>2. CASE EmitCall(c, t)
  <2>1. turns'[t] = Queued(turns[t], c) => TurnOf(t)!EmitCall(c)
    BY <1>2 DEF EmitCall, TurnOf!EmitCall, CanQueue, TurnOf!CanQueue, HasRoom, TurnOf!HasRoom,
         Queued, TurnOf!Queued, Sent, TurnOf!Sent
  <2>. QED  BY <1>0, <1>2, <2>1, OneSteps DEF EmitCall, TurnOf!Next, TurnOf!CallStep
<1>3. CASE AbandonCall(c, t)
  <2>1. turns'[t] = Abandoned(turns[t], c) => TurnOf(t)!AbandonCall(c)
    BY <1>3 DEF AbandonCall, TurnOf!AbandonCall, CanAbandon, TurnOf!CanAbandon,
         IsCancelled, TurnOf!IsCancelled, Abandoned, TurnOf!Abandoned
  <2>. QED  BY <1>0, <1>3, <2>1, OneSteps DEF AbandonCall, TurnOf!Next, TurnOf!CallStep
<1>4. CASE ReturnResult(c, t)
  <2>1. turns'[t] = Returned(turns[t], c) => TurnOf(t)!ReturnResult(c)
    BY <1>4 DEF ReturnResult, TurnOf!ReturnResult, CanReturn, TurnOf!CanReturn, Returned, TurnOf!Returned
  <2>. QED  BY <1>0, <1>4, <2>1, OneSteps DEF ReturnResult, TurnOf!Next, TurnOf!CallStep
<1>5. CASE NoticeHangUp(c, t)
  <2>1. turns'[t] = HangUpNoticed(turns[t], c) => TurnOf(t)!NoticeHangUp(c)
    BY <1>5 DEF NoticeHangUp, TurnOf!NoticeHangUp, CanNoticeHangUp, TurnOf!CanNoticeHangUp,
         HangUpNoticed, TurnOf!HangUpNoticed, Abandoned, TurnOf!Abandoned, Cancelled, TurnOf!Cancelled
  <2>. QED  BY <1>0, <1>5, <2>1, OneSteps DEF NoticeHangUp, TurnOf!Next, TurnOf!CallStep
<1>6. CASE HangUp(c, t)
  <2>1. turns'[t] = HungUp(turns[t], c) => TurnOf(t)!HangUp(c)
    BY <1>6 DEF HangUp, TurnOf!HangUp, CanHangUp, TurnOf!CanHangUp, HungUp, TurnOf!HungUp
  <2>. QED  BY <1>0, <1>6, <2>1, OneSteps DEF HangUp, TurnOf!Next
<1>. QED  BY <1>1, <1>2, <1>3, <1>4, <1>5, <1>6 DEF CallStep

\* The goroutine of a turn and its contexts.
LEMMA GoroutineSteps ==
    ASSUME IInv, NEW t \in TurnId,
           \/ EmitText(t) \/ EmitDone(t) \/ DropDone(t) \/ CloseDone(t)
           \/ \E ok \in BOOLEAN : RunReturn(t, ok)
           \/ Deadline(t) \/ RequestCancels(t)
    PROVE  \A u \in TurnId : StepsAsTurn(u)
<1>0. turns \in [TurnId -> Turn]  BY DEF IInv, SessionType
<1>. USE DEF OnTurn
<1>1. CASE EmitText(t)
  <2>1. turns'[t] = TextEmitted(turns[t]) => TurnOf(t)!EmitText
    BY <1>1 DEF EmitText, TurnOf!EmitText, CanEmitText, TurnOf!CanEmitText, HasRoom, TurnOf!HasRoom,
         TextEmitted, TurnOf!TextEmitted, Sent, TurnOf!Sent
  <2>. QED  BY <1>0, <1>1, <2>1, OneSteps DEF EmitText, TurnOf!Next, TurnOf!RunStep
<1>2. CASE EmitDone(t)
  <2>1. turns'[t] = DoneEmitted(turns[t]) => TurnOf(t)!EmitDone
    BY <1>2 DEF EmitDone, TurnOf!EmitDone, CanEmitDone, TurnOf!CanEmitDone, HasRoom, TurnOf!HasRoom,
         DoneEmitted, TurnOf!DoneEmitted, Sent, TurnOf!Sent
  <2>. QED  BY <1>0, <1>2, <2>1, OneSteps DEF EmitDone, TurnOf!Next, TurnOf!RunStep
<1>3. CASE DropDone(t)
  <2>1. turns'[t] = DoneDropped(turns[t]) => TurnOf(t)!DropDone
    BY <1>3 DEF DropDone, TurnOf!DropDone, CanDropDone, TurnOf!CanDropDone,
         IsCancelled, TurnOf!IsCancelled, DoneDropped, TurnOf!DoneDropped
  <2>. QED  BY <1>0, <1>3, <2>1, OneSteps DEF DropDone, TurnOf!Next, TurnOf!RunStep
<1>4. CASE CloseDone(t)
  <2>1. turns'[t] = DoneClosed(turns[t]) => TurnOf(t)!CloseDone
    BY <1>4 DEF CloseDone, TurnOf!CloseDone, CanCloseDone, TurnOf!CanCloseDone,
         DoneClosed, TurnOf!DoneClosed
  <2>. QED  BY <1>0, <1>4, <2>1, OneSteps DEF CloseDone, TurnOf!Next, TurnOf!RunStep
<1>5. CASE \E ok \in BOOLEAN : RunReturn(t, ok)
  <2>. PICK ok \in BOOLEAN : RunReturn(t, ok)  BY <1>5
  <2>1. turns'[t] = RunReturned(turns[t], ok) => TurnOf(t)!RunReturn(ok)
    BY DEF RunReturn, TurnOf!RunReturn, CanRunReturn, TurnOf!CanRunReturn,
         RunReturned, TurnOf!RunReturned
  <2>. QED  BY <1>0, <2>1, OneSteps DEF RunReturn, TurnOf!Next, TurnOf!RunStep
<1>6. CASE Deadline(t)
  BY <1>0, <1>6, CancelSteps, OneSteps DEF Deadline, Cause
<1>7. CASE RequestCancels(t)
  BY <1>0, <1>7, CancelSteps, OneSteps DEF RequestCancels, Cause, IInv, TurnsInv
<1>. QED  BY <1>1, <1>2, <1>3, <1>4, <1>5, <1>6, <1>7

\* The exchange in its loop.
LEMMA LoopSteps == ASSUME IInv, LoopStep PROVE \A u \in TurnId : StepsAsTurn(u)
<1>0. CASE Return  BY <1>0 DEF Return, StepsAsTurn
<1>. SUFFICES ASSUME ~Return PROVE \A u \in TurnId : StepsAsTurn(u)  BY <1>0
<1>1. /\ turns \in [TurnId -> Turn] /\ active \in TurnId
      /\ turns[active].exchange \in {"attached", "responding", "failing"}
  BY DEF LoopStep, LoopText, LoopCall, LoopInterrupted, LoopDone, LoopRespond, LoopFails, LoopTo, At,
         IInv, SessionType, LockInv
<1>. PICK a \in TurnId : a = active  BY <1>1
<1>. DEFINE T == turns[a]
<1>2. CASE \E ok \in BOOLEAN : LoopText(ok)
  <2>. PICK ok \in BOOLEAN : LoopText(ok)  BY <1>2
  <2>1. turns'[a] = TextTaken(T, ok) => TurnOf(a)!TakeText(ok)
    BY DEF LoopText, LoopTo, TurnOf!TakeText, CanTake, TurnOf!CanTake, HeadIs, TurnOf!HeadIs,
         TextTaken, TurnOf!TextTaken, Dropped, TurnOf!Dropped
  <2>. QED
    BY <1>1, <2>1, OneSteps DEF LoopText, LoopTo, TurnOf!Next, TurnOf!ExchangeStep
<1>3. CASE LoopCall
  <2>1. turns'[a] = CallTaken(T) => TurnOf(a)!TakeCall
    BY <1>3 DEF LoopCall, LoopTo, TurnOf!TakeCall, CanTake, TurnOf!CanTake, HeadIs, TurnOf!HeadIs,
         CallTaken, TurnOf!CallTaken, Dropped, TurnOf!Dropped, Delivered, TurnOf!Delivered,
         Allows, TurnOf!Allows
  <2>. QED
    BY <1>1, <1>3, <2>1, OneSteps DEF LoopCall, LoopTo, TurnOf!Next, TurnOf!ExchangeStep
<1>4. CASE LoopInterrupted
  <2>1. turns'[a] = Interrupted(T) => TurnOf(a)!Interrupt
    BY <1>4 DEF LoopInterrupted, LoopTo, TurnOf!Interrupt, CanInterrupt, TurnOf!CanInterrupt,
         Interrupted, TurnOf!Interrupted
  <2>. QED
    BY <1>1, <1>4, <2>1, OneSteps DEF LoopInterrupted, LoopTo, TurnOf!Next, TurnOf!ExchangeStep
<1>5. CASE LoopDone
  <2>1. turns'[a] = DoneTaken(T) => TurnOf(a)!TakeDone
    BY <1>5 DEF LoopDone, TurnOf!TakeDone, CanTake, TurnOf!CanTake, HeadIs, TurnOf!HeadIs,
         DoneTaken, TurnOf!DoneTaken, Dropped, TurnOf!Dropped, Cancelled, TurnOf!Cancelled
  <2>. QED  BY <1>1, <1>5, <2>1, OneSteps DEF LoopDone, TurnOf!Next, TurnOf!ExchangeStep
<1>6. CASE LoopRespond
  <2>1. turns'[a] = Responded(T) => TurnOf(a)!Respond
    BY <1>6 DEF LoopRespond, TurnOf!Respond, CanRespond, TurnOf!CanRespond,
         Responded, TurnOf!Responded, IsCancelled, TurnOf!IsCancelled
  <2>. QED  BY <1>1, <1>6, <2>1, OneSteps DEF LoopRespond, TurnOf!Next, TurnOf!ExchangeStep
<1>7. CASE LoopFails
  BY <1>7 DEF LoopFails, StepsAsTurn
<1>. QED  BY <1>2, <1>3, <1>4, <1>5, <1>6, <1>7 DEF LoopStep

\* The exchange that creates a turn and starts the agent.
LEMMA StartSteps == ASSUME IInv, Begin \/ StartStep PROVE \A u \in TurnId : StepsAsTurn(u)
<1>0. turns \in [TurnId -> Turn]  BY DEF IInv, SessionType
<1>1. CASE Begin
  <2>. PICK t \in TurnId : t = NextTurn /\ ~Born(t)
    BY <1>1, NextTurnUnborn DEF Begin, At, IInv, LockInv, Beginning, Begun, Unborn
  <2>. DEFINE C == Created(turns[t], ctl.req.policy)
              U == IF server = "open" THEN C ELSE Cancelled(C, "canceled")
  <2>1. t \in TurnId /\ turns[t].exchange = "none" /\ ctl.req.policy \in Policies
    BY <1>1, NextTurnUnborn DEF Begin, At, IInv, LockInv, Beginning, Begun, Unborn, Born
  <2>2. Turns(t, U)  BY <1>1 DEF Begin
  <2>3. turns'[t] = U => TurnOf(t)!NewTurn(ctl.req.policy)
    BY <2>1 DEF TurnOf!NewTurn, Created, TurnOf!Created, Cancelled, TurnOf!Cancelled
  <2>. HIDE DEF U
  <2>. QED  BY <1>0, <2>1, <2>2, <2>3, OneSteps DEF TurnOf!Next
<1>2. CASE StartStep
  <2>1. active \in TurnId /\ turns[active].exchange = "starting"
    BY <1>2 DEF StartStep, Start, StartFails, At, IInv, SessionType, LockInv
  <2>. PICK a \in TurnId : a = active  BY <2>1
  <2>2. CASE Start
    <3>1. turns'[a] = RunStarted(turns[a]) => TurnOf(a)!StartRun
      BY <2>1 DEF TurnOf!StartRun, RunStarted, TurnOf!RunStarted
    <3>. QED  BY <1>0, <2>1, <2>2, <3>1, OneSteps DEF Start, TurnOf!Next
  <2>3. CASE StartFails
    <3>1. turns'[a] = StartFailed(turns[a]) => TurnOf(a)!FailStart
      BY <2>1 DEF TurnOf!FailStart, StartFailed, TurnOf!StartFailed, Cancelled, TurnOf!Cancelled
    <3>. QED  BY <1>0, <2>1, <2>3, <3>1, OneSteps DEF StartFails, TurnOf!Next
  <2>. QED  BY <1>2, <2>2, <2>3 DEF StartStep
<1>. QED  BY <1>1, <1>2

\* A request resolves the calls of the turn that waits, or leaves the turns alone.
LEMMA RequestSteps ==
    ASSUME IInv,
           \/ \E req \in UserRequest : UserExchange(req)
           \/ \E req \in ResultRequest : ResultExchange(req)
    PROVE  \A u \in TurnId : StepsAsTurn(u)
<1>1. CASE \E req \in UserRequest : UserExchange(req)
  BY <1>1 DEF UserExchange, UserRejected, UserContinues, UserStartsOver, vars, StepsAsTurn
<1>2. ASSUME NEW req \in ResultRequest, ResultToOtherSetup(req) \/ ResultRejected(req)
      PROVE  \A u \in TurnId : StepsAsTurn(u)
  BY <1>2 DEF ResultToOtherSetup, ResultRejected, vars, StepsAsTurn
<1>3. ASSUME NEW req \in ResultRequest, ResultAccepted(req)
      PROVE  \A u \in TurnId : StepsAsTurn(u)
  <2>. PICK a \in TurnId : a = active
    BY <1>3 DEF ResultAccepted, IInv, SessionType
  <2>. DEFINE T == turns[a]
              U == Resolved(T, req.batch, req.policy)
  <2>1. /\ turns \in [TurnId -> Turn] /\ active \in TurnId /\ T.exchange = "detached"
        /\ Accepts(T, req.batch) /\ req.batch \in Batches /\ req.policy \in Policies
        /\ Turns(a, U)
    BY <1>3 DEF ResultAccepted, Admitted, ResultRequest, IInv, SessionType, LockInv
  <2>2. turns'[a] = U => TurnOf(a)!Resolve(req.batch, req.policy)
    BY <2>1, SameAnswers DEF TurnOf!Resolve, Accepts, TurnOf!Accepts,
         IsCancelled, TurnOf!IsCancelled, BatchIds, TurnOf!BatchIds
  <2>. HIDE DEF U
  <2>. QED  BY <2>1, <2>2, OneSteps DEF TurnOf!Next
<1>. QED  BY <1>1, <1>2, <1>3 DEF ResultExchange

\* stop clears the active turn; with none, the facade has none to cancel.
LEMMA StopSteps == ASSUME IInv, StopStep PROVE \A u \in TurnId : StepsAsTurn(u)
<1>1. CASE StopCancels
  <2>1. turns \in [TurnId -> Turn] /\ active \in TurnId \cup {0}
    BY DEF IInv, SessionType
  <2>2. CASE active # 0
    <3>. PICK a \in TurnId : a = active  BY <2>1, <2>2
    <3>1. turns[a].exchange \in {"detached", "failing"} /\ Turns(a, Cleared(turns[a]))
      BY <1>1, <2>2 DEF StopCancels, IInv, LockInv, Turns
    <3>2. turns'[a] = Cleared(turns[a]) => TurnOf(a)!Clear
      BY <3>1, SameOps DEF TurnOf!Clear
    <3>. QED  BY <2>1, <2>2, <3>1, <3>2, OneSteps DEF TurnOf!Next, TurnOf!ExchangeStep
  <2>3. CASE active = 0
    <3>1. facade # 0 => facades[facade].active = 0
      BY <2>3 DEF IInv, SessionType, OtherFacadesShut
    <3>. QED  BY <1>1, <2>3, <3>1 DEF StopCancels, Aborted, StepsAsTurn
  <2>. QED  BY <2>2, <2>3
<1>2. CASE ClearSession \/ Evicted \/ Closed
  BY <1>2 DEF ClearSession, Evicted, Closed, Stopped, StepsAsTurn
<1>. QED  BY <1>1, <1>2 DEF StopStep

\* The bridge of a facade ends, or the server.
LEMMA ShutdownSteps ==
    ASSUME IInv, CloseCancels \/ \E f \in TurnId : BridgeAborts(f) \/ BridgeCancels(f)
    PROVE  \A u \in TurnId : StepsAsTurn(u)
<1>0. turns \in [TurnId -> Turn]  BY DEF IInv, SessionType
<1>1. CASE CloseCancels
  <2>1. ASSUME NEW u \in TurnId  PROVE StepsAsTurn(u)
    <3>1. CASE Born(u)
      <4>1. turns'[u] = Cancelled(turns[u], "canceled")  BY <1>1, <3>1 DEF CloseCancels
      <4>. QED  BY <3>1, <4>1, CancelSteps DEF StepsAsTurn, Cause
    <3>2. CASE ~Born(u)
      BY <1>1, <3>2 DEF CloseCancels, StepsAsTurn
    <3>. QED  BY <3>1, <3>2
  <2>. QED  BY <2>1
<1>2. ASSUME NEW f \in TurnId, BridgeAborts(f)  PROVE \A u \in TurnId : StepsAsTurn(u)
  <2>. DEFINE t == facades[f].active
  <2>1. CASE t = 0
    BY <1>2, <2>1 DEF BridgeAborts, Aborted, StepsAsTurn
  <2>2. CASE t # 0
    <3>1. t \in TurnId /\ Born(t) /\ Turns(t, Cancelled(turns[t], "bridge"))
      BY <1>2, <2>2 DEF BridgeAborts, Aborted, Turns, IInv, SessionType, TurnsInv, Facade
    <3>. HIDE DEF t
    <3>. QED  BY <1>0, <3>1, CancelSteps, OneSteps DEF Cause
  <2>. QED  BY <2>1, <2>2
<1>3. ASSUME NEW f \in TurnId, BridgeCancels(f)  PROVE \A u \in TurnId : StepsAsTurn(u)
  BY <1>3 DEF BridgeCancels, StepsAsTurn
<1>. QED  BY <1>1, <1>2, <1>3

LEMMA NextSteps == IInv /\ [Next]_vars => \A u \in TurnId : StepsAsTurn(u)
<1>. SUFFICES ASSUME IInv, [Next]_vars  PROVE \A u \in TurnId : StepsAsTurn(u)  OBVIOUS
<1>1. CASE \/ \E req \in UserRequest : UserExchange(req)
           \/ \E req \in ResultRequest : ResultExchange(req)
  BY <1>1, RequestSteps
<1>2. CASE Begin \/ StartStep  BY <1>2, StartSteps
<1>3. CASE LoopStep  BY <1>3, LoopSteps
<1>4. CASE StopStep  BY <1>4, StopSteps
<1>5. CASE \/ RequestLost \/ FacadeFails \/ Evict \/ CloseSwaps \/ CloseLocks
           \/ PlainStep \/ OtherWrite \/ UNCHANGED vars
  BY <1>5
  DEF RequestLost, FacadeFails, Evict, CloseSwaps, CloseLocks, PlainStep, PlainStartsOver,
      PlainAnswered, PlainFails, OtherWrite, vars, StepsAsTurn
<1>6. CASE CloseCancels  BY <1>6, ShutdownSteps
<1>7. ASSUME NEW t \in TurnId, TurnStep(t)  PROVE \A u \in TurnId : StepsAsTurn(u)
  <2>1. CASE Watcher(t)  BY <2>1 DEF Watcher, StepsAsTurn
  <2>. QED  BY <1>7, <2>1, GoroutineSteps, ShutdownSteps DEF TurnStep
<1>8. ASSUME NEW c \in Call, NEW t \in TurnId, CallArrives(c, t) \/ CallStep(c, t) \/ HangUp(c, t)
      PROVE  \A u \in TurnId : StepsAsTurn(u)
  <2>1. CASE CallArrives(c, t)  BY <2>1 DEF CallArrives, StepsAsTurn
  <2>. QED  BY <1>8, <2>1, CallSteps
<1>. QED  BY <1>1, <1>2, <1>3, <1>4, <1>5, <1>6, <1>7, <1>8 DEF Next

\* Every turn of a session behaves as ActiveTurn does.
THEOREM TurnsAreActiveTurns == Spec => EachTurnIsActiveTurn
<1>1. Init => \A t \in TurnId : TurnOf(t)!Init
  BY DEF Init, TurnOf!Init, UnbornTurn, TurnOf!UnbornTurn, AutoPolicy, TurnOf!AutoPolicy
<1>2. IInv /\ [Next]_vars => [\A t \in TurnId : turns'[t] = turns[t] \/ TurnOf(t)!Next]_turns
  BY NextSteps DEF StepsAsTurn
<1>. QED  BY <1>1, <1>2, Inductive, PTL DEF Spec, EachTurnIsActiveTurn

-----------------------------------------------------------------------------
(* A pending turn of a session can be continued.  That the client holds    *)
(* exactly one call whose handler waits is the invariant of ActiveTurn,    *)
(* which the active turn keeps as it is a behaviour of ActiveTurn          *)
(* (ActiveInv).  That the session can still match and serve the request is *)
(* what its exchanges leave behind (BoundInv).                             *)

\* The active turn as the one turn that ActiveTurnProofs is about.
A == INSTANCE ActiveTurnProofs WITH turn <- turns[active]

BoundInv ==
    active # 0 =>
        /\ ctl.pc \in {"loop", "returning", "free"} => process
        /\ ctl.pc \in {"returning", "free"} => hist # "none"
        /\ ctl.pc \in {"start", "loop", "returning", "free"} /\ facade # 0 =>
              facades[facade].active = active

UnbornInv == \A t \in TurnId : Born(t) \/ turns[t] = UnbornTurn

ActiveInv == active # 0 => A!IInv

PendingInv == IInv /\ BoundInv /\ UnbornInv /\ ActiveInv
-----------------------------------------------------------------------------
(* The instance of the active turn is the instance of a turn.              *)

\* The operators of TurnOps mean the same in both instances.
LEMMA SameGuards ==
    ASSUME NEW t, NEW T, NEW c, NEW batch, NEW kind
    PROVE  /\ TurnOf(t)!CanCall(T, c) = A!CanCall(T, c)
           /\ TurnOf(t)!CanQueue(T, c) = A!CanQueue(T, c)
           /\ TurnOf(t)!CanAbandon(T, c) = A!CanAbandon(T, c)
           /\ TurnOf(t)!CanReturn(T, c) = A!CanReturn(T, c)
           /\ TurnOf(t)!CanHangUp(T, c) = A!CanHangUp(T, c)
           /\ TurnOf(t)!CanNoticeHangUp(T, c) = A!CanNoticeHangUp(T, c)
           /\ TurnOf(t)!CanEmitText(T) = A!CanEmitText(T)
           /\ TurnOf(t)!CanRunReturn(T) = A!CanRunReturn(T)
           /\ TurnOf(t)!CanEmitDone(T) = A!CanEmitDone(T)
           /\ TurnOf(t)!CanDropDone(T) = A!CanDropDone(T)
           /\ TurnOf(t)!CanCloseDone(T) = A!CanCloseDone(T)
           /\ TurnOf(t)!CanTake(T, kind) = A!CanTake(T, kind)
           /\ TurnOf(t)!CanInterrupt(T) = A!CanInterrupt(T)
           /\ TurnOf(t)!CanRespond(T) = A!CanRespond(T)
           /\ TurnOf(t)!Accepts(T, batch) = A!Accepts(T, batch)
  BY DEF TurnOf!CanCall, A!CanCall, TurnOf!CanQueue, A!CanQueue, TurnOf!CanAbandon, A!CanAbandon,
         TurnOf!CanReturn, A!CanReturn, TurnOf!CanHangUp, A!CanHangUp,
         TurnOf!CanNoticeHangUp, A!CanNoticeHangUp, TurnOf!CanEmitText, A!CanEmitText,
         TurnOf!CanRunReturn, A!CanRunReturn, TurnOf!CanEmitDone, A!CanEmitDone,
         TurnOf!CanDropDone, A!CanDropDone, TurnOf!CanCloseDone, A!CanCloseDone,
         TurnOf!CanTake, A!CanTake, TurnOf!HeadIs, A!HeadIs, TurnOf!HasRoom, A!HasRoom,
         TurnOf!CanInterrupt, A!CanInterrupt, TurnOf!CanRespond, A!CanRespond,
         TurnOf!Accepts, A!Accepts, TurnOf!BatchIds, A!BatchIds,
         TurnOf!IsCancelled, A!IsCancelled

LEMMA SameEffects ==
    ASSUME NEW t, NEW T, NEW c, NEW ok, NEW policy, NEW cause
    PROVE  /\ TurnOf(t)!Created(T, policy) = A!Created(T, policy)
           /\ TurnOf(t)!RunStarted(T) = A!RunStarted(T)
           /\ TurnOf(t)!Cancelled(T, cause) = A!Cancelled(T, cause)
           /\ TurnOf(t)!StartFailed(T) = A!StartFailed(T)
           /\ TurnOf(t)!Called(T, c) = A!Called(T, c)
           /\ TurnOf(t)!Queued(T, c) = A!Queued(T, c)
           /\ TurnOf(t)!Abandoned(T, c) = A!Abandoned(T, c)
           /\ TurnOf(t)!Returned(T, c) = A!Returned(T, c)
           /\ TurnOf(t)!HungUp(T, c) = A!HungUp(T, c)
           /\ TurnOf(t)!HangUpNoticed(T, c) = A!HangUpNoticed(T, c)
           /\ TurnOf(t)!TextEmitted(T) = A!TextEmitted(T)
           /\ TurnOf(t)!RunReturned(T, ok) = A!RunReturned(T, ok)
           /\ TurnOf(t)!DoneEmitted(T) = A!DoneEmitted(T)
           /\ TurnOf(t)!DoneDropped(T) = A!DoneDropped(T)
           /\ TurnOf(t)!DoneClosed(T) = A!DoneClosed(T)
           /\ TurnOf(t)!TextTaken(T, ok) = A!TextTaken(T, ok)
           /\ TurnOf(t)!CallTaken(T) = A!CallTaken(T)
           /\ TurnOf(t)!DoneTaken(T) = A!DoneTaken(T)
           /\ TurnOf(t)!Interrupted(T) = A!Interrupted(T)
           /\ TurnOf(t)!Responded(T) = A!Responded(T)
           /\ TurnOf(t)!Cleared(T) = A!Cleared(T)
  BY DEF TurnOf!Created, A!Created, TurnOf!RunStarted, A!RunStarted, TurnOf!Cancelled, A!Cancelled,
         TurnOf!StartFailed, A!StartFailed, TurnOf!Called, A!Called, TurnOf!Queued, A!Queued,
         TurnOf!Abandoned, A!Abandoned, TurnOf!Returned, A!Returned, TurnOf!HungUp, A!HungUp,
         TurnOf!HangUpNoticed, A!HangUpNoticed, TurnOf!TextEmitted, A!TextEmitted,
         TurnOf!RunReturned, A!RunReturned, TurnOf!DoneEmitted, A!DoneEmitted,
         TurnOf!DoneDropped, A!DoneDropped, TurnOf!DoneClosed, A!DoneClosed,
         TurnOf!TextTaken, A!TextTaken, TurnOf!CallTaken, A!CallTaken, TurnOf!DoneTaken, A!DoneTaken,
         TurnOf!Interrupted, A!Interrupted, TurnOf!Responded, A!Responded, TurnOf!Cleared, A!Cleared,
         TurnOf!Sent, A!Sent, TurnOf!Dropped, A!Dropped, TurnOf!Delivered, A!Delivered,
         TurnOf!Allows, A!Allows, TurnOf!IsCancelled, A!IsCancelled

LEMMA SameResults ==
    ASSUME NEW t, NEW T, NEW batch, NEW policy
    PROVE  TurnOf(t)!Resolved(T, batch, policy) = A!Resolved(T, batch, policy)
<1>1. \A S : TurnOf(t)!Cardinality(S) = A!Cardinality(S)
  BY DEF TurnOf!Cardinality, A!Cardinality
<1>. QED
  BY <1>1 DEF TurnOf!Resolved, A!Resolved, TurnOf!Answers, A!Answers, TurnOf!BatchIds, A!BatchIds

\* A step of the turn t is a step of A as long as t is active.
LEMMA ActiveSteps ==
    ASSUME NEW t \in TurnId, active = t, active' = t, TurnOf(t)!Next
    PROVE  A!Next
<1>1. ASSUME NEW policy \in Policies, TurnOf(t)!NewTurn(policy) PROVE A!NewTurn(policy)
  BY <1>1, SameEffects DEF TurnOf!NewTurn, A!NewTurn
<1>2. TurnOf(t)!StartRun \/ TurnOf(t)!FailStart => A!StartRun \/ A!FailStart
  BY SameEffects DEF TurnOf!StartRun, A!StartRun, TurnOf!FailStart, A!FailStart
<1>3. ASSUME NEW c \in Call, TurnOf(t)!CallTool(c) \/ TurnOf(t)!CallStep(c) \/ TurnOf(t)!HangUp(c)
      PROVE  A!CallTool(c) \/ A!CallStep(c) \/ A!HangUp(c)
  BY <1>3, SameGuards, SameEffects
  DEF TurnOf!CallTool, A!CallTool, TurnOf!CallStep, A!CallStep, TurnOf!HangUp, A!HangUp,
      TurnOf!EmitCall, A!EmitCall, TurnOf!AbandonCall, A!AbandonCall,
      TurnOf!ReturnResult, A!ReturnResult, TurnOf!NoticeHangUp, A!NoticeHangUp
<1>4. TurnOf(t)!RunStep => A!RunStep
  BY SameGuards, SameEffects
  DEF TurnOf!RunStep, A!RunStep, TurnOf!EmitText, A!EmitText, TurnOf!RunReturn, A!RunReturn,
      TurnOf!EmitDone, A!EmitDone, TurnOf!DropDone, A!DropDone, TurnOf!CloseDone, A!CloseDone
<1>5. TurnOf(t)!ExchangeStep => A!ExchangeStep
  BY SameGuards, SameEffects
  DEF TurnOf!ExchangeStep, A!ExchangeStep, TurnOf!TakeText, A!TakeText, TurnOf!TakeCall, A!TakeCall,
      TurnOf!TakeDone, A!TakeDone, TurnOf!Interrupt, A!Interrupt, TurnOf!Respond, A!Respond,
      TurnOf!Clear, A!Clear
<1>6. ASSUME NEW batch \in Batches, NEW policy \in Policies, TurnOf(t)!Resolve(batch, policy)
      PROVE  A!Resolve(batch, policy)
  BY <1>6, SameGuards, SameResults DEF TurnOf!Resolve, A!Resolve
<1>7. ASSUME NEW cause \in TurnOf(t)!Cause \ {"none", "call"}, TurnOf(t)!Cancel(cause)
      PROVE  cause \in A!Cause \ {"none", "call"} /\ A!Cancel(cause)
  BY <1>7, SameEffects DEF TurnOf!Cancel, A!Cancel, TurnOf!Cause, A!Cause
<1>. QED  BY <1>1, <1>2, <1>3, <1>4, <1>5, <1>6, <1>7 DEF TurnOf!Next, A!Next

-----------------------------------------------------------------------------
(* The invariant.                                                          *)

LEMMA InitPending == Init => BoundInv /\ UnbornInv /\ ActiveInv
  BY DEF Init, BoundInv, UnbornInv, ActiveInv

\* A session with a pending turn keeps its process, its history and its binding.
LEMMA BoundStep == ASSUME IInv, BoundInv, [Next]_vars PROVE BoundInv'
<1>0. /\ active \in TurnId \cup {0} /\ ctl \in Control /\ facades \in [TurnId -> Facade]
      /\ facade \in TurnId \cup {0}
      /\ ctl.who = "none" <=> ctl.pc = "free"
      /\ ctl.pc = "begin" => active = 0
  BY DEF IInv, SessionType, LockInv
<1>1. ASSUME NEW req, UserExchange(req) \/ ResultExchange(req) PROVE BoundInv'
  <2>1. CASE UserRejected(req) \/ ResultRejected(req)
    BY <2>1 DEF UserRejected, ResultRejected, vars, session, around, BoundInv
  <2>2. CASE UserContinues(req)
    BY <2>2 DEF UserContinues, Continues, Unlocked, BoundInv
  <2>3. CASE UserStartsOver(req) \/ ResultToOtherSetup(req)
    BY <2>3 DEF UserStartsOver, ResultToOtherSetup, Holding, Unlocked, BoundInv
  <2>4. CASE ResultAccepted(req)
    BY <1>0, <2>4 DEF ResultAccepted, Admitted, Unlocked, session, BoundInv
  <2>. QED  BY <1>1, <2>1, <2>2, <2>3, <2>4 DEF UserExchange, ResultExchange
<1>2. CASE Begin
  <2>. DEFINE t == NextTurn
  <2>1. t \in TurnId /\ t # 0 /\ active' = t /\ ctl'.pc = "start"
    BY <1>0, <1>2, NextTurnUnborn, ZeroIsNoTurn
    DEF Begin, At, Unborn, IInv, LockInv, Beginning, Control
  <2>2. facade' # 0 => facades'[facade'].active = t
    <3>1. CASE NeedsFacade
      BY <1>0, <1>2, <2>1, <3>1 DEF Begin
    <3>2. CASE ~NeedsFacade
      BY <1>0, <1>2, <2>1, <3>2 DEF Begin, Bound, Facade
    <3>. QED  BY <3>1, <3>2
  <2>. QED  BY <2>1, <2>2 DEF BoundInv
<1>3. CASE RequestLost \/ FacadeFails
  BY <1>0, <1>3 DEF RequestLost, FacadeFails, At, Unlocked, session, Control, BoundInv
<1>7. CASE StartStep
  BY <1>0, <1>7
  DEF StartStep, Start, StartFails, At, Holding, Unlocked, session, Control, BoundInv
<1>8. CASE LoopStep
  <2>1. CASE LoopDone
    BY <1>0, <2>1 DEF LoopDone, At, Recorded, session, BoundInv
  <2>2. CASE LoopRespond
    BY <1>0, <2>2 DEF LoopRespond, At, Recorded, Returning, Unlocked, session, BoundInv
  <2>3. CASE LoopFails
    BY <2>3 DEF LoopFails, Holding, Unlocked, session, BoundInv
  <2>4. CASE (\E ok \in BOOLEAN : LoopText(ok)) \/ LoopCall \/ LoopInterrupted
    BY <2>4 DEF LoopText, LoopCall, LoopInterrupted, LoopTo, session, BoundInv
  <2>5. CASE Return
    BY <2>5 DEF Return, At, Unlocked, session, BoundInv
  <2>. QED  BY <1>8, <2>1, <2>2, <2>3, <2>4, <2>5 DEF LoopStep
<1>4. CASE StopStep
  BY <1>4
  DEF StopStep, StopCancels, ClearSession, Evicted, Closed, Stopped, Unlocked, session, around,
      BoundInv, IInv, SessionType, Control
<1>5. CASE Evict \/ CloseSwaps \/ CloseLocks \/ \E t \in TurnId : Watcher(t)
  BY <1>5
  DEF Evict, CloseSwaps, CloseLocks, Watcher, Holding, Unlocked, session, around, BoundInv
<1>6. ASSUME UNCHANGED <<active, facade, process, hist>>,
             ctl'.pc = ctl.pc, facade # 0 => facades'[facade].active = facades[facade].active
      PROVE  BoundInv'
  BY <1>6 DEF BoundInv
<1>10. CASE CloseCancels \/ \E t \in TurnId : BridgeAborts(t) \/ BridgeCancels(t)
  <2>1. ASSUME facade # 0 PROVE facades'[facade].active = facades[facade].active
    <3>1. CASE CloseCancels
      BY <1>0, <2>1, <3>1 DEF CloseCancels, Facade
    <3>2. ASSUME NEW t \in TurnId, BridgeAborts(t) \/ BridgeCancels(t)
          PROVE  facades'[facade].active = facades[facade].active
      BY <1>0, <2>1, <3>2 DEF BridgeAborts, BridgeCancels, Facade
    <3>. QED  BY <1>10, <3>1, <3>2
  <2>. QED
    BY <1>6, <1>10, <2>1 DEF CloseCancels, BridgeAborts, BridgeCancels, session
<1>11. CASE (\E c \in Call, t \in TurnId : CallArrives(c, t)) \/ OtherWrite \/ UNCHANGED vars
  BY <1>6, <1>11 DEF CallArrives, OtherWrite, vars, session, around
<1>12. CASE PlainStep
  BY <1>12 DEF PlainStep, PlainStartsOver, PlainAnswered, PlainFails, IsPlain, BoundInv
<1>9. ASSUME NEW t \in TurnId,
             \/ EmitText(t) \/ EmitDone(t) \/ DropDone(t) \/ CloseDone(t)
             \/ \E ok \in BOOLEAN : RunReturn(t, ok)
             \/ Deadline(t) \/ RequestCancels(t)
             \/ \E c \in Call : CallStep(c, t) \/ HangUp(c, t)
      PROVE  BoundInv'
  BY <1>9
  DEF EmitText, EmitDone, DropDone, CloseDone, RunReturn, Deadline, RequestCancels, CallStep, HangUp,
      CallTool, EmitCall, AbandonCall, ReturnResult, NoticeHangUp, OnTurn, session, around, BoundInv
<1>. QED
  BY <1>1, <1>2, <1>3, <1>4, <1>5, <1>6, <1>7, <1>8, <1>9, <1>10, <1>11, <1>12 DEF Next, TurnStep

\* A turn exists once an exchange has created it, and not before.
LEMMA BirthStep ==
    ASSUME NEW t \in TurnId, turns[t] \in Turn, TurnOf(t)!Next,
           turns[t].exchange # "none" \/ turns[t] = UnbornTurn
    PROVE  turns'[t].exchange # "none"
<1>1. ASSUME NEW policy \in Policies, TurnOf(t)!NewTurn(policy) PROVE turns'[t].exchange # "none"
  BY <1>1 DEF TurnOf!NewTurn, TurnOf!Created, TurnOf!Cancelled, Turn
<1>2. CASE TurnOf(t)!StartRun \/ TurnOf(t)!FailStart
  BY <1>2 DEF TurnOf!StartRun, TurnOf!FailStart, TurnOf!RunStarted, TurnOf!StartFailed,
              TurnOf!Cancelled, Turn
<1>3. ASSUME NEW c \in Call, TurnOf(t)!CallTool(c) \/ TurnOf(t)!CallStep(c) \/ TurnOf(t)!HangUp(c)
      PROVE  turns'[t].exchange # "none"
  <2>1. turns[t].exchange # "none"
    BY <1>3
    DEF TurnOf!CallTool, TurnOf!CallStep, TurnOf!HangUp, TurnOf!EmitCall, TurnOf!AbandonCall,
        TurnOf!ReturnResult, TurnOf!NoticeHangUp, TurnOf!CanCall, TurnOf!CanQueue,
        TurnOf!CanAbandon, TurnOf!CanReturn, TurnOf!CanHangUp, TurnOf!CanNoticeHangUp, UnbornTurn
  <2>2. CASE TurnOf(t)!CallTool(c)
    BY <2>1, <2>2 DEF TurnOf!CallTool, TurnOf!Called, Turn
  <2>3. CASE TurnOf(t)!EmitCall(c)
    BY <2>1, <2>3 DEF TurnOf!EmitCall, TurnOf!Queued, TurnOf!Sent, Turn
  <2>4. CASE TurnOf(t)!AbandonCall(c) \/ TurnOf(t)!ReturnResult(c) \/ TurnOf(t)!HangUp(c)
    BY <2>1, <2>4
    DEF TurnOf!AbandonCall, TurnOf!Abandoned, TurnOf!ReturnResult, TurnOf!Returned,
        TurnOf!HangUp, TurnOf!HungUp, Turn
  <2>5. CASE TurnOf(t)!NoticeHangUp(c)
    BY <2>1, <2>5
    DEF TurnOf!NoticeHangUp, TurnOf!HangUpNoticed, TurnOf!Abandoned, TurnOf!Cancelled, Turn
  <2>. QED  BY <1>3, <2>2, <2>3, <2>4, <2>5 DEF TurnOf!CallStep
<1>4. CASE TurnOf(t)!RunStep
  <2>1. turns[t].exchange # "none"
    BY <1>4
    DEF TurnOf!RunStep, TurnOf!EmitText, TurnOf!RunReturn, TurnOf!EmitDone, TurnOf!DropDone,
        TurnOf!CloseDone, TurnOf!CanEmitText, TurnOf!CanRunReturn, TurnOf!CanEmitDone,
        TurnOf!CanDropDone, TurnOf!CanCloseDone, UnbornTurn
  <2>2. CASE TurnOf(t)!EmitText \/ TurnOf(t)!EmitDone
    BY <2>1, <2>2
    DEF TurnOf!EmitText, TurnOf!TextEmitted, TurnOf!EmitDone, TurnOf!DoneEmitted, TurnOf!Sent, Turn
  <2>3. CASE (\E ok \in BOOLEAN : TurnOf(t)!RunReturn(ok)) \/ TurnOf(t)!DropDone \/ TurnOf(t)!CloseDone
    BY <2>1, <2>3
    DEF TurnOf!RunReturn, TurnOf!RunReturned, TurnOf!DropDone, TurnOf!DoneDropped,
        TurnOf!CloseDone, TurnOf!DoneClosed, Turn
  <2>. QED  BY <1>4, <2>2, <2>3 DEF TurnOf!RunStep
<1>5. CASE TurnOf(t)!ExchangeStep
  <2>1. ASSUME NEW ok \in BOOLEAN, TurnOf(t)!TakeText(ok) PROVE turns'[t].exchange # "none"
    BY <2>1 DEF TurnOf!TakeText, TurnOf!TextTaken, TurnOf!Dropped, Turn
  <2>2. CASE TurnOf(t)!TakeCall
    BY <2>2 DEF TurnOf!TakeCall, TurnOf!CallTaken, TurnOf!Dropped, TurnOf!Delivered, Turn
  <2>3. CASE TurnOf(t)!TakeDone
    BY <2>3 DEF TurnOf!TakeDone, TurnOf!DoneTaken, TurnOf!Dropped, TurnOf!Cancelled, Turn
  <2>4. CASE TurnOf(t)!Interrupt \/ TurnOf(t)!Respond \/ TurnOf(t)!Clear
    BY <2>4 DEF TurnOf!Interrupt, TurnOf!Interrupted, TurnOf!Respond, TurnOf!Responded,
                TurnOf!Clear, TurnOf!Cleared, TurnOf!Cancelled, Turn
  <2>. QED  BY <1>5, <2>1, <2>2, <2>3, <2>4 DEF TurnOf!ExchangeStep
<1>6. ASSUME NEW batch \in Batches, NEW policy \in Policies, TurnOf(t)!Resolve(batch, policy)
      PROVE  turns'[t].exchange # "none"
  <2>1. turns'[t] = Resolved(turns[t], batch, policy)
    BY <1>6, SameAnswers DEF TurnOf!Resolve
  <2>. DEFINE result == [c \in Call |-> turns[t].result[c] + Answers(batch, c)]
  <2>2. turns'[t] = [turns[t] EXCEPT !.policy = policy, !.pending = @ \ BatchIds(batch),
                        !.delivered = @ \ BatchIds(batch), !.result = result, !.exchange = "attached"]
    BY <2>1 DEF Resolved
  <2>. HIDE DEF result
  <2>. QED  BY <2>2 DEF Turn
<1>7. ASSUME NEW cause \in TurnOf(t)!Cause \ {"none", "call"}, TurnOf(t)!Cancel(cause)
      PROVE  turns'[t].exchange # "none"
  BY <1>7 DEF TurnOf!Cancel, TurnOf!Cancelled, Turn
<1>. QED  BY <1>1, <1>2, <1>3, <1>4, <1>5, <1>6, <1>7 DEF TurnOf!Next

\* Nothing happens to a turn before an exchange creates it.
LEMMA UnbornStep == ASSUME IInv, UnbornInv, [Next]_vars PROVE UnbornInv'
<1>. SUFFICES ASSUME NEW t \in TurnId PROVE turns'[t].exchange # "none" \/ turns'[t] = UnbornTurn
  BY DEF UnbornInv, Born
<1>1. turns'[t] = turns[t] \/ TurnOf(t)!Next
  BY NextSteps DEF StepsAsTurn
<1>2. turns[t] \in Turn /\ (turns[t].exchange # "none" \/ turns[t] = UnbornTurn)
  BY DEF IInv, SessionType, UnbornInv, Born
<1>. QED  BY <1>1, <1>2, BirthStep

\* Only an exchange that begins a turn gives the session another one.
LEMMA ActiveChanges ==
    ASSUME IInv, [Next]_vars, active' # 0
    PROVE  active' = active \/ (active = 0 /\ Begin)
<1>1. CASE Begin  BY <1>1 DEF Begin, At, IInv, LockInv
<1>2. CASE StopStep
  BY <1>2 DEF StopStep, StopCancels, ClearSession, Evicted, Closed, Stopped
<1>3. CASE StartStep \/ LoopDone \/ LoopRespond \/ LoopFails \/ Return
  BY <1>3 DEF StartStep, Start, StartFails, LoopDone, LoopRespond, LoopFails, Return
<1>4. CASE (\E ok \in BOOLEAN : LoopText(ok)) \/ LoopCall \/ LoopInterrupted
  BY <1>4 DEF LoopText, LoopCall, LoopInterrupted, LoopTo
<1>6. ASSUME NEW req, UserExchange(req) \/ ResultExchange(req) PROVE active' = active
  BY <1>6
  DEF UserExchange, UserRejected, UserContinues, UserStartsOver, ResultExchange, ResultToOtherSetup,
      ResultRejected, ResultAccepted, vars
<1>7. CASE \/ RequestLost \/ FacadeFails \/ UNCHANGED vars
           \/ Evict \/ CloseCancels \/ CloseSwaps \/ CloseLocks \/ PlainStep \/ OtherWrite
  BY <1>7
  DEF RequestLost, FacadeFails, Evict, CloseCancels, CloseSwaps, CloseLocks, PlainStep,
      PlainStartsOver, PlainAnswered, PlainFails, OtherWrite, vars
<1>5. ASSUME NEW t \in TurnId,
             \/ TurnStep(t)
             \/ \E c \in Call : CallArrives(c, t) \/ CallStep(c, t) \/ HangUp(c, t)
      PROVE  active' = active
  BY <1>5
  DEF TurnStep, EmitText, EmitDone, DropDone, CloseDone, RunReturn, Deadline, RequestCancels, Watcher,
      BridgeAborts, BridgeCancels, CallArrives, CallStep, HangUp, CallTool, EmitCall, AbandonCall,
      ReturnResult, NoticeHangUp, OnTurn
<1>. QED  BY <1>1, <1>2, <1>3, <1>4, <1>5, <1>6, <1>7 DEF Next, LoopStep

\* The active turn keeps the invariant of ActiveTurn, and has it when it is created.
LEMMA ActiveStep == ASSUME PendingInv, [Next]_vars PROVE ActiveInv'
<1>. SUFFICES ASSUME active' # 0 PROVE A!IInv'  BY DEF ActiveInv
<1>0. IInv /\ active \in TurnId \cup {0}  BY DEF PendingInv, IInv, SessionType
<1>1. CASE active' = active
  <2>. PICK t \in TurnId : t = active  BY <1>0, <1>1
  <2>1. StepsAsTurn(t)  BY <1>0, NextSteps
  <2>2. A!Next \/ turns'[active'] = turns[active]
    BY <1>1, <2>1, ActiveSteps DEF StepsAsTurn
  <2>3. A!IInv  BY <1>1 DEF PendingInv, ActiveInv
  <2>. QED
    BY <2>2, <2>3, A!NextIInv, TurnAssumption, SessionAssumption
    DEF A!ResultMessage, ResultMessage, A!ToolPolicy, ToolPolicy
<1>2. CASE active = 0 /\ Begin
  <2>1. PICK t \in TurnId : t = NextTurn /\ turns[t] = UnbornTurn
    BY <1>0, <1>2, NextTurnUnborn
    DEF Begin, At, PendingInv, UnbornInv, Unborn, IInv, LockInv, Beginning
  <2>. DEFINE U == turns'[t]
  <2>2. ctl.req.policy \in Policies
    BY <1>2 DEF Begin, At, PendingInv, IInv, LockInv, Beginning, Begun
  <2>3. /\ U.cause \in {"none", "canceled"} /\ U.events = <<>> /\ U.phase = [c \in Call |-> "none"]
        /\ U.pending = {} /\ U.delivered = {} /\ U.result = [c \in Call |-> 0]
        /\ U.exchange = "starting"
    BY <1>0, <1>2, <2>1 DEF Begin, Turns, Created, Cancelled, UnbornTurn, IInv, SessionType
  <2>4. U \in Turn
    <3>1. turns[t] \in Turn  BY <1>0 DEF IInv, SessionType
    <3>2. U = Created(turns[t], ctl.req.policy) \/ U = Cancelled(Created(turns[t], ctl.req.policy), "canceled")
      BY <1>0, <1>2, <2>1 DEF Begin, Turns, IInv, SessionType
    <3>3. Created(turns[t], ctl.req.policy) \in Turn
      BY <2>2, <3>1, TurnAssumption DEF Created, Turn, ExchangePhase
    <3>. QED  BY <3>2, <3>3 DEF Cancelled, Turn, Cause
  <2>5. U \in A!Turn
    BY <2>4
    DEF A!Turn, Turn, A!Cause, Cause, A!Event, Event, A!CallPhase, CallPhase, A!RunPhase, RunPhase,
        A!ExchangePhase, ExchangePhase, A!ToolPolicy, ToolPolicy
  <2>6. active' = t  BY <1>2, <2>1 DEF Begin
  <2>. QED
    BY <2>3, <2>5, <2>6
    DEF A!IInv, A!TypeOK, A!QueueInv, A!PhaseInv, A!OfferInv, A!ReleaseNeverBlocks, A!CallHeldOnce
<1>. QED  BY <1>0, <1>1, <1>2, ActiveChanges

\* A live pending turn has a session to match, a process, its facade, and one call in
\* the client's hands whose handler waits.
THEOREM PendingContinues == Spec => []PendingTurnContinuable
<1>1. PendingInv /\ [Next]_vars => PendingInv'
  BY NextInv, BoundStep, UnbornStep, ActiveStep DEF PendingInv
<1>2. PendingInv => PendingTurnContinuable
  <2>. SUFFICES ASSUME PendingInv, ctl.who = "none", active # 0, ~IsCancelled(turns[active])
                PROVE  /\ hist # "none" /\ process
                       /\ facade # 0 => facades[facade].active = active
                       /\ \E c \in Call : turns[active].delivered = {c} /\ turns[active].phase[c] = "waiting"
    BY DEF PendingTurnContinuable
  <2>1. ctl.pc = "free" /\ turns[active].exchange = "detached" /\ turns[active].cause = "none"
    BY DEF PendingInv, IInv, LockInv, IsCancelled
  <2>. QED
    BY <2>1 DEF PendingInv, BoundInv, ActiveInv, A!IInv, A!OfferInv, A!PhaseInv
<1>. QED  BY <1>1, <1>2, InitInv, InitPending, PTL DEF PendingInv, Spec

-----------------------------------------------------------------------------
(* No turn of the session is ever in the store.  That rests on clearing:   *)
(* a session whose native session has tools has the facade too, until      *)
(* somebody who stops it also clears what it could be resumed by.          *)

StoreInv ==
    /\ {resume, mem, disk} \subseteq {"none", "plain", "tools"}
    /\ mem # "tools" /\ disk # "tools"
    /\ "write" \notin Moves => disk = mem
    /\ active # 0 \/ facade # 0 \/ ctl.pc = "begin" => mem = "none"
    /\ ctl.pc = "begin" /\ process => facade # 0
    /\ ctl.pc # "wait" /\ server # "closed" => (resume = "tools" \/ setup # Bare => facade # 0)
    /\ ctl.who = "janitor" /\ ctl.then # "hadTools" =>
        IF ctl.pc = "stop" THEN facade = 0 ELSE resume # "tools" /\ setup = Bare

\* The record of a session is deleted.
LEMMA DeleteStep ==
    ASSUME StoreInv, Delete
    PROVE  /\ mem' = "none" /\ disk' \in {"none", disk}
           /\ "write" \notin Moves => disk' = mem'
  BY DEF StoreInv, Delete, Write

\* The record is deleted before a facade is there, a native session with tools is known
\* only while the facade is, and who takes the facade away clears both.
LEMMA StoreNext == ASSUME IInv, StoreInv, [Next]_vars PROVE StoreInv'
<1>. USE DEF session, around, store
<1>0. /\ ctl \in Control /\ active \in TurnId \cup {0} /\ facade \in TurnId \cup {0}
      /\ ctl.who = "none" <=> ctl.pc = "free"
      /\ ctl.pc \in {"begin", "start", "loop", "returning"} => ctl.who = "exchange"
  BY DEF IInv, SessionType, LockInv
<1>1. ASSUME NEW req \in UserRequest, UserExchange(req)  PROVE StoreInv'
  <2>1. CASE UserRejected(req)
    BY <2>1 DEF UserRejected, vars, StoreInv
  <2>2. CASE UserContinues(req)
    <3>1. facade # 0
      BY <1>0, <2>2
      DEF UserContinues, Continues, Same, SameSetup, Admitted, UserRequest, StoreInv
    <3>. QED  BY <1>0, <2>2, <3>1 DEF UserContinues, Admitted, Unlocked, StoreInv
  <2>3. CASE UserStartsOver(req)
    BY <1>0, <2>3 DEF UserStartsOver, Admitted, Holding, Unlocked, StoreInv
  <2>. QED  BY <1>1, <2>1, <2>2, <2>3 DEF UserExchange
<1>2. ASSUME NEW req \in ResultRequest, ResultExchange(req)  PROVE StoreInv'
  <2>1. CASE ResultRejected(req)
    BY <2>1 DEF ResultRejected, vars, StoreInv
  <2>2. CASE ResultToOtherSetup(req) \/ ResultAccepted(req)
    BY <1>0, <2>2 DEF ResultToOtherSetup, ResultAccepted, Admitted, Holding, Unlocked, StoreInv
  <2>. QED  BY <1>2, <2>1, <2>2 DEF ResultExchange
<1>3. CASE RequestLost \/ FacadeFails
  BY <1>0, <1>3 DEF RequestLost, FacadeFails, At, Unlocked, Control, StoreInv
<1>4. CASE Begin
  <2>1. /\ UNCHANGED <<process, resume, mem, disk, server>> /\ setup' = ctl.req.setup
        /\ ctl'.pc = "start" /\ ctl'.who = "exchange" /\ ctl.pc = "begin" /\ mem = "none"
    BY <1>0, <1>4 DEF Begin, At, Control, StoreInv
  <2>2. (resume = "tools" \/ setup' # Bare) /\ server # "closed" => facade' # 0
    <3>1. NextTurn \in TurnId /\ NextTurn # 0
      BY <1>4, NextTurnUnborn, ZeroIsNoTurn DEF Begin, At, IInv, LockInv, Beginning, Unborn
    <3>. QED  BY <1>4, <2>1, <3>1 DEF Begin, NeedsFacade, StoreInv
  <2>. QED  BY <2>1, <2>2 DEF StoreInv
<1>5. CASE StartStep
  <2>1. CASE Start
    BY <1>0, <2>1 DEF Start, At, Control, StoreInv
  <2>2. CASE StartFails
    BY <1>0, <2>2 DEF StartFails, At, Holding, Unlocked, StoreInv
  <2>. QED  BY <1>5, <2>1, <2>2 DEF StartStep
<1>6. CASE LoopStep
  <2>1. ASSUME Recorded, ctl.pc = "loop", ctl.who = "exchange", server' = server,
               active' = 0 \/ active # 0
        PROVE  StoreInv'
    <3>1. /\ mem' = "none" /\ disk' \in {"none", disk} /\ ("write" \notin Moves => disk' = mem')
          /\ UNCHANGED <<process, facade, setup>> /\ resume' \in {resume, Native}
          /\ ctl'.pc = "returning" /\ ctl'.who = "exchange"
      BY <2>1, DeleteStep DEF Recorded, Returning, Unlocked
    <3>. QED  BY <2>1, <3>1 DEF StoreInv, Native
  <2>2. CASE LoopDone
    BY <2>1, <2>2, <1>0 DEF LoopDone, At, StoreInv
  <2>3. CASE LoopRespond
    BY <2>1, <2>3, <1>0 DEF LoopRespond, At, IInv, LockInv, StoreInv
  <2>4. CASE LoopFails
    BY <1>0, <2>4 DEF LoopFails, At, Holding, Unlocked, StoreInv
  <2>6. CASE Return
    BY <1>0, <2>6 DEF Return, At, Unlocked, StoreInv
  <2>5. CASE (\E ok \in BOOLEAN : LoopText(ok)) \/ LoopCall \/ LoopInterrupted
    BY <2>5 DEF LoopText, LoopCall, LoopInterrupted, LoopTo, StoreInv
  <2>. QED  BY <1>6, <2>2, <2>3, <2>4, <2>5, <2>6 DEF LoopStep
<1>7. CASE StopCancels
  <2>1. /\ facade' = 0 /\ ctl'.pc = "wait" /\ ctl'.who = ctl.who /\ ctl'.then = ctl.then
        /\ UNCHANGED <<active, session, server>> /\ ctl.pc = "stop"
    BY <1>0, <1>7 DEF StopCancels, Control
  <2>2. ctl.who = "janitor" => server # "closed"
    BY DEF IInv, ServerInv
  <2>. QED  BY <2>1, <2>2 DEF StoreInv
<1>8. CASE ClearSession
  <2>1. /\ mem' = "none" /\ disk' \in {"none", disk} /\ ("write" \notin Moves => disk' = mem')
        /\ setup' = Bare /\ resume' = "none" /\ process' = FALSE
    BY <1>8, DeleteStep DEF ClearSession, Stopped
  <2>2. ctl'.who # "janitor"
    BY <1>0, <1>8 DEF ClearSession, Unlocked, Control
  <2>. QED  BY <2>1, <2>2 DEF StoreInv
<1>9. CASE Evicted \/ Closed
  <2>1. /\ ctl' = Unlocked /\ active' = 0 /\ facade' = facade /\ facade = 0
        /\ UNCHANGED <<mem, disk>>
    BY <1>9 DEF Evicted, Closed, Stopped, IInv, LockInv
  <2>2. CASE Evicted
    BY <2>1, <2>2 DEF Evicted, Stopped, Unlocked, StoreInv
  <2>3. CASE Closed
    BY <2>1, <2>3 DEF Closed, Unlocked, StoreInv
  <2>. QED  BY <1>9, <2>2, <2>3
<1>10. CASE Evict \/ CloseSwaps \/ CloseLocks
  <2>1. CASE Evict
    <3>1. /\ ctl'.who = "janitor" /\ ctl'.pc = "stop" /\ ctl.pc = "free"
          /\ ctl'.then # "hadTools" => facade = 0
          /\ UNCHANGED <<active, facade, session, server>>
      BY <1>0, <2>1 DEF Evict, Holding, Unlocked
    <3>. QED  BY <3>1 DEF StoreInv
  <2>2. CASE CloseSwaps
    BY <2>2 DEF CloseSwaps, StoreInv
  <2>3. CASE CloseLocks
    <3>1. /\ ctl'.who = "closer" /\ ctl'.pc = "stop" /\ ctl.pc = "free"
          /\ UNCHANGED <<active, facade, session, server>>
      BY <1>0, <2>3 DEF CloseLocks, Holding, Unlocked
    <3>. QED  BY <3>1 DEF StoreInv
  <2>. QED  BY <1>10, <2>1, <2>2, <2>3
<1>11. CASE PlainStep
  <2>1. /\ ctl.who = "none" /\ ctl.pc = "free" /\ active = 0 /\ facade = 0 /\ server # "closed"
        /\ UNCHANGED <<active, facade, ctl, server>>
        /\ resume # "tools" /\ setup = Bare
    BY <1>0, <1>11
    DEF PlainStep, PlainStartsOver, PlainAnswered, PlainFails, IsPlain, StoreInv
  <2>2. CASE PlainStartsOver
    BY <2>1, <2>2, DeleteStep DEF PlainStartsOver, StoreInv
  <2>3. ASSUME NEW tools \in BOOLEAN, NEW reported \in BOOLEAN, PlainAnswered(tools, reported)
        PROVE  StoreInv'
    BY <2>1, <2>3 DEF PlainAnswered, Write, StoreInv
  <2>4. CASE PlainFails
    BY <2>1, <2>4 DEF PlainFails, StoreInv
  <2>. QED  BY <1>11, <2>2, <2>3, <2>4 DEF PlainStep
<1>12. CASE OtherWrite
  BY <1>12 DEF OtherWrite, StoreInv
<1>13. CASE CloseCancels
  BY <1>13 DEF CloseCancels, StoreInv
<1>14. ASSUME UNCHANGED <<active, facade, session, ctl, server>>  PROVE StoreInv'
  BY <1>14 DEF StoreInv
<1>15. ASSUME NEW t \in TurnId, TurnStep(t)  PROVE StoreInv'
  <2>1. CASE Watcher(t)
    BY <1>0, <2>1 DEF Watcher, Holding, Unlocked, StoreInv
  <2>. QED
    BY <1>14, <1>15, <2>1
    DEF TurnStep, EmitText, EmitDone, DropDone, CloseDone, RunReturn, Deadline, RequestCancels,
        BridgeAborts, BridgeCancels, OnTurn
<1>16. ASSUME NEW c \in Call, NEW t \in TurnId, CallArrives(c, t) \/ CallStep(c, t) \/ HangUp(c, t)
       PROVE  StoreInv'
  BY <1>14, <1>16
  DEF CallArrives, CallStep, HangUp, CallTool, EmitCall, AbandonCall, ReturnResult, NoticeHangUp, OnTurn
<1>17. CASE UNCHANGED vars
  BY <1>14, <1>17 DEF vars
<1>. QED
  BY <1>1, <1>2, <1>3, <1>4, <1>5, <1>6, <1>7, <1>8, <1>9, <1>10, <1>11, <1>12, <1>13, <1>15,
     <1>16, <1>17
  DEF Next, StopStep

\* No record names a native session with tools, whatever is written and evicted, and a
\* session with a turn has none.
THEOREM NeverPersisted == Spec => []PendingNeverPersisted
<1>1. Init => StoreInv
  BY DEF Init, StoreInv, Unlocked
<1>2. StoreInv => PendingNeverPersisted
  BY DEF StoreInv, PendingNeverPersisted
<1>. QED  BY <1>1, <1>2, StoreNext, Inductive, PTL DEF Spec
=============================================================================
