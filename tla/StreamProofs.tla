---------------------------- MODULE StreamProofs ----------------------------
(***************************************************************************)
(* Theorems about what is written to a response and about what the client  *)
(* is answered, for any number of pieces, any capacities and any number of *)
(* heartbeats.                                                             *)
(*                                                                         *)
(* Two goroutines write: the handler and the heartbeat.  A response that   *)
(* is open has no [DONE] yet, and it is open exactly as long as the        *)
(* handler is in its loop (WireOK, PhaseInv).                              *)
(*                                                                         *)
(* What the collectors have answered and what the agent has said differ by *)
(* what is on its way between them: the messages in turn.events and        *)
(* output, taken one after another, lead from the one to the other         *)
(* (Chain, FlowInv).  The text of the chunks is the text that is kept      *)
(* (TextInv).                                                              *)
(***************************************************************************)
EXTENDS ResponseStream, DataFacts, SequenceTheorems, TLAPS

Collector == [stream : BOOLEAN, waiting : BOOLEAN, saw : SUBSET Channel,
              out : [Channel -> Seq(Nat)], calls : BOOLEAN, closed : BOOLEAN,
              wire : Seq(Chunk)]

\* The agent numbers what it says, and a block in deltas is among what it said.
AgentOK ==
    /\ agent \in [pc : {"replay", "talk", "waiting", "done"}, resumed : BOOLEAN,
                  said : [Channel -> Nat], open : [Channel -> Nat]]
    /\ \A ch \in Channel : agent.open[ch] <= agent.said[ch]

StreamType ==
    /\ AgentOK
    /\ output \in Seq(Message) /\ events \in Seq(Message)
    /\ c \in Collector
    /\ turnSaw \in SUBSET Channel

\* The role first, [DONE] last, and no [DONE] as long as the response is open.
WireOK(C) ==
    /\ C.stream => C.wire # <<>> /\ C.wire[1].kind = "role"
    /\ \A i \in 1 .. Len(C.wire) : C.wire[i].kind = "DONE" => C.closed /\ i = Len(C.wire)
    /\ C.closed => C.wire # <<>> /\ C.wire[Len(C.wire)].kind = "DONE"

PhaseInv == c.closed <=> pc # "loop"

IInv == StreamType /\ WireOK(c) /\ PhaseInv
-----------------------------------------------------------------------------
(* What the collector writes.                                              *)

NoDone(chunks) == \A i \in 1 .. Len(chunks) : chunks[i].kind # "DONE"

\* Chunks other than [DONE] may follow anything an open response has.
LEMMA WrittenOpen ==
    ASSUME NEW C \in Collector, WireOK(C), ~C.closed,
           NEW chunks \in Seq(Chunk), NoDone(chunks)
    PROVE  LET D == Written(C, chunks)
           IN  D \in Collector /\ WireOK(D) /\ D.closed = C.closed /\ D.stream = C.stream
<1>. DEFINE D == Written(C, chunks)
<1>1. C.wire \in Seq(Chunk)  BY DEF Collector
<1>2. /\ C.wire \o chunks \in Seq(Chunk)
      /\ Len(C.wire \o chunks) = Len(C.wire) + Len(chunks)
      /\ \A i \in 1 .. Len(C.wire) + Len(chunks) :
            (C.wire \o chunks)[i] = IF i <= Len(C.wire) THEN C.wire[i] ELSE chunks[i - Len(C.wire)]
  BY <1>1, ConcatProperties
<1>3. D \in Collector /\ D.closed = C.closed /\ D.stream = C.stream /\ D.wire = C.wire \o chunks
  BY <1>2 DEF Collector, Written
<1>4. Len(C.wire) \in Nat /\ Len(chunks) \in Nat  BY <1>1, LenProperties
<1>5. NoDone(D.wire)
  <2>1. ASSUME NEW i \in 1 .. Len(D.wire)  PROVE D.wire[i].kind # "DONE"
    <3>1. CASE i <= Len(C.wire)  BY <1>2, <1>3, <1>4, <2>1, <3>1 DEF WireOK
    <3>2. CASE ~(i <= Len(C.wire))
      BY <1>2, <1>3, <1>4, <2>1, <3>2 DEF NoDone
    <3>. QED  BY <3>1, <3>2
  <2>. QED  BY <2>1 DEF NoDone
<1>6. C.stream => D.wire # <<>> /\ D.wire[1].kind = "role"
  <2>1. C.stream => Len(C.wire) >= 1  BY <1>1, <1>4, EmptySeq DEF WireOK
  <2>2. C.stream => Len(D.wire) >= 1 /\ D.wire[1] = C.wire[1]  BY <1>2, <1>3, <1>4, <2>1
  <2>. QED  BY <1>2, <1>3, <2>2, EmptySeq DEF WireOK
<1>. QED  BY <1>3, <1>5, <1>6 DEF WireOK, NoDone

\* The last two chunks of a response close it.
LEMMA WrittenClosing ==
    ASSUME NEW C \in Collector, WireOK(C), ~C.closed, NEW last \in {"finish", "error"},
           NEW chunks \in Seq(Chunk), NoDone(chunks)
    PROVE  LET D == [Written(C, chunks \o <<[kind |-> last], [kind |-> "DONE"]>>) EXCEPT !.closed = TRUE]
           IN  D \in Collector /\ WireOK(D) /\ D.closed
<1>. DEFINE end == <<[kind |-> last], [kind |-> "DONE"]>>
            D == [Written(C, chunks \o end) EXCEPT !.closed = TRUE]
            B == Written(C, chunks \o <<[kind |-> last]>>)
<1>1. [kind |-> last] \in Chunk /\ [kind |-> "DONE"] \in Chunk  BY DEF Chunk
<1>2. <<[kind |-> last]>> \in Seq(Chunk) /\ <<[kind |-> "DONE"]>> \in Seq(Chunk)
      /\ end = <<[kind |-> last]>> \o <<[kind |-> "DONE"]>> /\ C.wire \in Seq(Chunk)
  BY <1>1 DEF Collector
<1>3. chunks \o <<[kind |-> last]>> \in Seq(Chunk) /\ NoDone(chunks \o <<[kind |-> last]>>)
  BY <1>2, ConcatProperties, LenProperties DEF NoDone
<1>4. B \in Collector /\ WireOK(B) /\ ~B.closed /\ B.wire \in Seq(Chunk)
  BY <1>3, WrittenOpen DEF Collector
<1>5. C.wire \o (chunks \o end) = B.wire \o <<[kind |-> "DONE"]>>
  <2>0. \A s, t, u \in Seq(Chunk) : (s \o t) \o u = s \o (t \o u)  OBVIOUS
  <2>1. chunks \o end = (chunks \o <<[kind |-> last]>>) \o <<[kind |-> "DONE"]>>
    <3>. HIDE DEF end
    <3>. QED  BY <1>2, <2>0, Zenon
  <2>2. B.wire = C.wire \o (chunks \o <<[kind |-> last]>>)  BY DEF Written, Collector
  <2>3. C.wire \o ((chunks \o <<[kind |-> last]>>) \o <<[kind |-> "DONE"]>>)
        = (C.wire \o (chunks \o <<[kind |-> last]>>)) \o <<[kind |-> "DONE"]>>
    BY <1>2, <1>3, <2>0, Zenon
  <2>. HIDE DEF B, end
  <2>. QED  BY <2>1, <2>2, <2>3
<1>6. D.wire = B.wire \o <<[kind |-> "DONE"]>> /\ D.closed /\ D.stream = C.stream /\ B.stream = C.stream
  BY <1>5 DEF Written, Collector
<1>. DEFINE n == Len(B.wire)
<1>7. /\ D.wire \in Seq(Chunk) /\ Len(D.wire) = n + 1 /\ n \in Nat
      /\ \A i \in 1 .. n + 1 : D.wire[i] = IF i <= n THEN B.wire[i] ELSE [kind |-> "DONE"]
  <2>1. Len(<<[kind |-> "DONE"]>>) = 1 /\ <<[kind |-> "DONE"]>>[1] = [kind |-> "DONE"]  OBVIOUS
  <2>2. n \in Nat  BY <1>4, LenProperties
  <2>. HIDE DEF B, D
  <2>3. /\ D.wire \in Seq(Chunk) /\ Len(D.wire) = n + 1
        /\ \A i \in 1 .. n + 1 :
              D.wire[i] = IF i <= n THEN B.wire[i] ELSE <<[kind |-> "DONE"]>>[i - n]
    BY <1>2, <1>4, <1>6, <2>1, ConcatProperties
  <2>. QED  BY <2>1, <2>2, <2>3
<1>8. D \in Collector
  <2>1. chunks \o end \in Seq(Chunk)  BY <1>2, ConcatProperties
  <2>. QED  BY <1>2, <2>1, ConcatProperties DEF Collector, Written
<1>9. WireOK(D)
  <2>. HIDE DEF B, D
  <2>1. D.stream => n >= 1 /\ D.wire[1].kind = "role"
    BY <1>4, <1>6, <1>7, EmptySeq DEF WireOK
  <2>2. \A i \in 1 .. Len(D.wire) : D.wire[i].kind = "DONE" => i = Len(D.wire)
    BY <1>4, <1>7 DEF WireOK
  <2>3. D.wire # <<>> /\ D.wire[Len(D.wire)].kind = "DONE"  BY <1>7, EmptySeq
  <2>. QED  BY <1>6, <2>1, <2>2, <2>3 DEF WireOK
<1>. QED  BY <1>6, <1>8, <1>9

\* Text or reasoning is one chunk of a stream, and none of a completion.
LEMMA AppendedOK ==
    ASSUME NEW C \in Collector, WireOK(C), ~C.closed, NEW ch \in Channel, NEW pieces \in Seq(Nat)
    PROVE  LET D == Appended(C, ch, pieces) IN D \in Collector /\ WireOK(D) /\ ~D.closed
<1>. DEFINE B == [C EXCEPT !.out[ch] = @ \o pieces]
            chunks == <<[kind |-> ch, pieces |-> pieces]>>
<1>1. B \in Collector /\ B.closed = C.closed /\ B.stream = C.stream /\ B.wire = C.wire
  <2>1. C.out[ch] \o pieces \in Seq(Nat)  BY ConcatProperties DEF Collector
  <2>. QED  BY <2>1 DEF Collector
<1>2. WireOK(B)  BY <1>1 DEF WireOK
<1>3. [kind |-> ch, pieces |-> pieces] \in Chunk  BY DEF Chunk
<1>4. chunks \in Seq(Chunk) /\ NoDone(chunks)  BY <1>3 DEF NoDone, Channel
<1>5. Appended(C, ch, pieces) = IF C.stream THEN Written(B, chunks) ELSE B  BY DEF Appended
<1>. HIDE DEF B, chunks
<1>. QED  BY <1>1, <1>2, <1>4, <1>5, WrittenOpen

\* handle leaves an open response open.
LEMMA HandledOK ==
    ASSUME NEW C \in Collector, WireOK(C), ~C.closed,
           NEW m \in Message, m.kind \in {"init", "delta", "full"}
    PROVE  LET D == Handled(C, m) IN D \in Collector /\ WireOK(D) /\ ~D.closed
<1>1. CASE m.kind = "init"
  <2>1. Handled(C, m) = [C EXCEPT !.waiting = FALSE]  BY <1>1 DEF Handled
  <2>. QED  BY <2>1 DEF Collector, WireOK
<1>2. CASE m.kind \in {"delta", "full"}
  <2>. DEFINE A == Appended(C, m.channel, m.pieces)
  <2>1. m.channel \in Channel /\ m.pieces \in Seq(Nat)  BY <1>2 DEF Message, Whole, Plain
  <2>2. A \in Collector /\ WireOK(A) /\ ~A.closed  BY <2>1, AppendedOK
  <2>. HIDE DEF A
  <2>3. PICK D \in {C, A}, saw \in SUBSET Channel : Handled(C, m) = [D EXCEPT !.saw = saw] \/ Handled(C, m) = D
    BY <1>2, <2>1, <2>2 DEF Handled, DeltaHandled, FullHandled, A, Collector
  <2>4. /\ [D EXCEPT !.saw = saw] \in Collector
        /\ [D EXCEPT !.saw = saw].wire = D.wire /\ [D EXCEPT !.saw = saw].stream = D.stream
        /\ [D EXCEPT !.saw = saw].closed = D.closed
    BY <2>2 DEF Collector
  <2>5. WireOK(D) /\ ~D.closed /\ WireOK([D EXCEPT !.saw = saw])  BY <2>2, <2>4 DEF WireOK
  <2>. QED  BY <2>2, <2>3, <2>4, <2>5
<1>. QED  BY <1>1, <1>2

\* finishStream or writeCompletion, and streamError or writeError.
LEMMA FinishedOK ==
    ASSUME NEW C \in Collector, WireOK(C), ~C.closed
    PROVE  LET D == Finished(C) IN D \in Collector /\ WireOK(D) /\ D.closed
<1>. DEFINE calls == IF C.calls THEN <<[kind |-> "calls"]>> ELSE <<>>
            all == <<[kind |-> "thinking", pieces |-> C.out["thinking"]],
                     [kind |-> "text", pieces |-> C.out["text"]]>>
            chunks == IF C.stream THEN calls ELSE all \o calls
<1>1. calls \in Seq(Chunk) /\ NoDone(calls)
  <2>1. [kind |-> "calls"] \in Chunk  BY DEF Chunk
  <2>. QED  BY <2>1, EmptySeq DEF NoDone
<1>2. all \in Seq(Chunk) /\ NoDone(all)
  <2>1. all[1] \in Chunk /\ all[2] \in Chunk  BY DEF Chunk, Channel, Collector
  <2>. QED  BY <2>1 DEF NoDone
<1>. HIDE DEF all, calls
<1>3. chunks \in Seq(Chunk) /\ NoDone(chunks)
  BY <1>1, <1>2, ConcatProperties, LenProperties DEF NoDone
<1>4. Finished(C) =
        [Written(C, chunks \o <<[kind |-> "finish"], [kind |-> "DONE"]>>) EXCEPT !.closed = TRUE]
  BY DEF Finished, all, calls
<1>. HIDE DEF chunks
<1>. QED  BY <1>3, <1>4, WrittenClosing

LEMMA ErroredOK ==
    ASSUME NEW C \in Collector, WireOK(C), ~C.closed
    PROVE  LET D == Errored(C) IN D \in Collector /\ WireOK(D) /\ D.closed
<1>1. [kind |-> "error"] \in Chunk /\ [kind |-> "DONE"] \in Chunk  BY DEF Chunk
<1>2. <<>> \o <<[kind |-> "error"], [kind |-> "DONE"]>> = <<[kind |-> "error"], [kind |-> "DONE"]>>
  BY <1>1, ConcatEmptySeq
<1>3. <<>> \in Seq(Chunk) /\ NoDone(<<>>)  BY EmptySeq DEF NoDone
<1>. QED  BY <1>2, <1>3, WrittenClosing DEF Errored

\* A new response of a stream has the role and nothing else.
LEMMA NewCollectorOK ==
    ASSUME NEW stream \in BOOLEAN, NEW resumed \in BOOLEAN, NEW saw \in SUBSET Channel
    PROVE  LET D == NewCollector(stream, resumed, saw)
           IN  D \in Collector /\ WireOK(D) /\ ~D.closed
<1>. DEFINE D == NewCollector(stream, resumed, saw)
<1>1. [kind |-> "role"] \in Chunk  BY DEF Chunk
<1>2. D.wire \in Seq(Chunk) /\ D.wire = (IF stream THEN <<[kind |-> "role"]>> ELSE <<>>)
  BY <1>1, EmptySeq DEF NewCollector
<1>3. D \in Collector /\ ~D.closed /\ D.stream = stream
  <2>1. Nothing \in [Channel -> Seq(Nat)]  BY EmptySeq DEF Nothing
  <2>. QED  BY <1>2, <2>1 DEF NewCollector, Collector
<1>4. WireOK(D)
  <2>. HIDE DEF D
  <2>. QED  BY <1>2, <1>3 DEF WireOK
<1>. QED  BY <1>3, <1>4
-----------------------------------------------------------------------------
(* The steps.                                                              *)

LEMMA InitInv == Init => IInv
<1>. SUFFICES ASSUME Init  PROVE IInv  OBVIOUS
<1>. PICK p \in Paths, stream \in BOOLEAN, resumed \in BOOLEAN :
        /\ agent = [pc |-> IF resumed THEN "replay" ELSE "talk", resumed |-> resumed,
                    said |-> [ch \in Channel |-> 0], open |-> [ch \in Channel |-> 0]]
        /\ output = <<>> /\ events = <<>>
        /\ c = NewCollector(stream, resumed, {})
        /\ turnSaw = {} /\ pc = "loop"
  BY DEF Init
<1>1. AgentOK  BY DEF AgentOK
<1>2. c \in Collector /\ WireOK(c) /\ ~c.closed  BY NewCollectorOK
<1>. QED  BY <1>1, <1>2, EmptySeq DEF IInv, StreamType, PhaseInv

\* What the agent says is a message.
LEMMA SaysStep ==
    ASSUME IInv, NEW m \in Message, Says(m), AgentOK'
    PROVE  IInv'
<1>1. output' \in Seq(Message)  BY AppendProperties DEF IInv, StreamType, Says
<1>. QED  BY <1>1 DEF IInv, StreamType, PhaseInv, WireOK, Says

LEMMA AgentSteps ==
    ASSUME IInv,
           \/ \E ch \in Channel, kind \in {"delta", "full"} : Replay(ch, kind)
           \/ \E ch \in Channel : SayDelta(ch) \/ SayFull(ch)
           \/ SayInit \/ SayDone \/ SayError \/ MakeCall
    PROVE  IInv'
<1>0. AgentOK  BY DEF IInv, StreamType
<1>1. ASSUME NEW ch \in Channel, NEW kind \in {"delta", "full"}, Replay(ch, kind)  PROVE IInv'
  <2>1. [kind |-> kind, channel |-> ch, pieces |-> <<0>>] \in Message  BY DEF Message, Whole
  <2>2. AgentOK'  BY <1>0, <1>1 DEF AgentOK, Replay
  <2>. QED  BY <1>1, <2>1, <2>2, SaysStep DEF Replay
<1>2. ASSUME NEW ch \in Channel, SayDelta(ch)  PROVE IInv'
  <2>1. agent.said[ch] + 1 \in Nat  BY <1>0 DEF AgentOK
  <2>2. [kind |-> "delta", channel |-> ch, pieces |-> <<agent.said[ch] + 1>>] \in Message
    BY <2>1 DEF Message, Whole
  <2>3. AgentOK'
    <3>1. /\ agent'.said = [agent.said EXCEPT ![ch] = @ + 1]
          /\ agent'.open = [agent.open EXCEPT ![ch] = @ + 1]
          /\ agent'.pc = agent.pc /\ agent'.resumed = agent.resumed
          /\ agent' = [agent EXCEPT !.said = agent'.said, !.open = agent'.open]
      BY <1>0, <1>2 DEF AgentOK, SayDelta
    <3>2. agent'.said \in [Channel -> Nat] /\ agent'.open \in [Channel -> Nat]
      BY <1>0, <3>1 DEF AgentOK
    <3>3. \A e \in Channel : agent'.open[e] <= agent'.said[e]  BY <1>0, <3>1 DEF AgentOK
    <3>. QED  BY <1>0, <3>1, <3>2, <3>3 DEF AgentOK
  <2>. QED  BY <1>2, <2>2, <2>3, SaysStep DEF SayDelta
<1>3. ASSUME NEW ch \in Channel, SayFull(ch)  PROVE IInv'
  <2>. DEFINE n == agent.said[ch]
              k == agent.open[ch]
              pieces == IF k = 0 THEN <<n + 1>> ELSE [i \in 1 .. k |-> n - k + i]
  <2>1. n \in Nat /\ k \in Nat /\ k <= n  BY <1>0 DEF AgentOK
  <2>2. pieces \in Seq(Nat)
    <3>1. \A i \in 1 .. k : n - k + i \in Nat  BY <2>1
    <3>2. [i \in 1 .. k |-> n - k + i] \in Seq(Nat)  BY <2>1, <3>1, IsASeq
    <3>3. <<n + 1>> \in Seq(Nat)  BY <2>1
    <3>. QED  BY <3>2, <3>3
  <2>3. [kind |-> "full", channel |-> ch, pieces |-> pieces] \in Message
    BY <2>2 DEF Message, Whole
  <2>4. AgentOK'
    <3>1. CASE k = 0
      <4>1. /\ agent'.said = [agent.said EXCEPT ![ch] = @ + 1] /\ agent'.open = agent.open
            /\ agent' = [agent EXCEPT !.said = agent'.said]
        BY <1>0, <1>3, <3>1 DEF AgentOK, SayFull
      <4>2. agent'.said \in [Channel -> Nat] /\ \A e \in Channel : agent'.open[e] <= agent'.said[e]
        BY <1>0, <4>1 DEF AgentOK
      <4>. QED  BY <1>0, <4>1, <4>2 DEF AgentOK
    <3>2. CASE k # 0
      <4>1. /\ agent'.open = [agent.open EXCEPT ![ch] = 0] /\ agent'.said = agent.said
            /\ agent' = [agent EXCEPT !.open = agent'.open]
        BY <1>0, <1>3, <3>2 DEF AgentOK, SayFull
      <4>2. agent'.open \in [Channel -> Nat] /\ \A e \in Channel : agent'.open[e] <= agent'.said[e]
        BY <1>0, <4>1 DEF AgentOK
      <4>. QED  BY <1>0, <4>1, <4>2 DEF AgentOK
    <3>. QED  BY <3>1, <3>2
  <2>. QED  BY <1>3, <2>3, <2>4, SaysStep DEF SayFull
<1>4. CASE SayInit
  <2>1. [kind |-> "init"] \in Message  BY DEF Message, Plain
  <2>2. AgentOK'  BY <1>0, <1>4 DEF AgentOK, SayInit
  <2>. QED  BY <1>4, <2>1, <2>2, SaysStep DEF SayInit
<1>5. CASE SayDone
  <2>1. [kind |-> "done"] \in Message  BY DEF Message, Plain
  <2>2. AgentOK'  BY <1>0, <1>5 DEF AgentOK, SayDone
  <2>. QED  BY <1>5, <2>1, <2>2, SaysStep DEF SayDone
<1>6. CASE SayError
  <2>1. [kind |-> "error"] \in Message  BY DEF Message, Plain
  <2>2. AgentOK'  BY <1>0, <1>6 DEF AgentOK, SayError
  <2>. QED  BY <1>6, <2>1, <2>2, SaysStep DEF SayError
<1>7. CASE MakeCall
  <2>1. AgentOK'  BY <1>0, <1>7 DEF AgentOK, MakeCall
  <2>. QED  BY <1>7, <2>1 DEF IInv, StreamType, PhaseInv, WireOK, MakeCall
<1>. QED  BY <1>1, <1>2, <1>3, <1>4, <1>5, <1>6, <1>7

LEMMA QueueSteps == ASSUME IInv, Relay \/ QueueCall PROVE IInv'
<1>. USE DEF IInv, StreamType
<1>1. CASE Relay
  <2>1. Head(output) \in Message /\ output' \in Seq(Message)
    BY <1>1, HeadTailProperties DEF Relay
  <2>2. events' \in Seq(Message)  BY <1>1, <2>1, AppendProperties DEF Relay
  <2>. QED  BY <1>1, <2>1, <2>2 DEF Relay, AgentOK, PhaseInv, WireOK
<1>2. CASE QueueCall
  <2>1. [kind |-> "call"] \in Message  BY DEF Message, Plain
  <2>2. events' \in Seq(Message)  BY <1>2, <2>1, AppendProperties DEF QueueCall
  <2>. QED  BY <1>2, <2>2 DEF QueueCall, AgentOK, PhaseInv, WireOK
<1>. QED  BY <1>1, <1>2

\* The heartbeat writes to an open response only.
LEMMA BeatStep == ASSUME IInv, Tick \/ Beat \/ HeartbeatExits PROVE IInv'
<1>1. CASE UNCHANGED c
  <2>1. UNCHANGED <<agent, output, events, turnSaw, pc>>  BY DEF Tick, Beat, HeartbeatExits
  <2>. QED  BY <1>1, <2>1 DEF IInv, StreamType, AgentOK, PhaseInv, WireOK
<1>2. CASE Beat /\ c' # c
  <2>1. [kind |-> "beat"] \in Chunk  BY DEF Chunk
  <2>2. <<[kind |-> "beat"]>> \in Seq(Chunk) /\ NoDone(<<[kind |-> "beat"]>>)
    BY <2>1 DEF NoDone
  <2>3. c' \in Collector /\ WireOK(c') /\ c'.closed = c.closed
    BY <1>2, <2>2, WrittenOpen DEF Beat, CanBeat, IInv, StreamType
  <2>. QED  BY <1>2, <2>3 DEF Beat, IInv, StreamType, AgentOK, PhaseInv, WireOK
<1>. QED  BY <1>1, <1>2 DEF Tick, HeartbeatExits

\* Whatever arrives is a message, and the response it meets is open.
LEMMA ArrivesOK ==
    ASSUME IInv, NEW m, Arrives(m)
    PROVE  /\ m \in Message /\ output' \in Seq(Message) /\ events' \in Seq(Message)
           /\ c \in Collector /\ WireOK(c) /\ ~c.closed
  BY HeadTailProperties DEF IInv, StreamType, PhaseInv, Arrives

\* The handler takes a message, ends the response, or gives it up.
LEMMA HandlerSteps == ASSUME IInv, TakeMessage \/ TakeCall \/ TakeDone \/ TakeError PROVE IInv'
<1>1. CASE TakeMessage
  <2>. PICK m : Arrives(m) /\ m.kind \in {"init", "delta", "full"} /\ c' = Handled(c, m)
    BY <1>1 DEF TakeMessage
  <2>1. c' \in Collector /\ WireOK(c') /\ ~c'.closed  BY ArrivesOK, HandledOK
  <2>. QED
    BY <1>1, <2>1, ArrivesOK DEF TakeMessage, Arrives, IInv, StreamType, AgentOK, PhaseInv, WireOK
<1>2. ASSUME NEW m, Arrives(m), NEW calls \in BOOLEAN, Ends([c EXCEPT !.calls = calls]), agent' = agent
      PROVE  IInv'
  <2>. DEFINE C == [c EXCEPT !.calls = calls]
  <2>1. C \in Collector /\ WireOK(C) /\ ~C.closed  BY <1>2, ArrivesOK DEF Collector, WireOK
  <2>2. c' \in Collector /\ WireOK(c') /\ c'.closed /\ turnSaw' \in SUBSET Channel /\ pc' = "ended"
    BY <1>2, <2>1, FinishedOK DEF Ends, Saved, Collector
  <2>. QED  BY <1>2, <2>2, ArrivesOK DEF IInv, StreamType, AgentOK, PhaseInv, WireOK
<1>3. CASE TakeCall  BY <1>2, <1>3 DEF TakeCall
<1>4. CASE TakeDone
  <2>1. c = [c EXCEPT !.calls = c.calls] /\ c.calls \in BOOLEAN
    BY DEF IInv, StreamType, Collector
  <2>. QED  BY <1>2, <1>4, <2>1 DEF TakeDone
<1>5. CASE TakeError
  <2>1. c' \in Collector /\ WireOK(c') /\ c'.closed  BY <1>5, ArrivesOK, ErroredOK DEF TakeError
  <2>. QED
    BY <1>5, <2>1, ArrivesOK DEF TakeError, IInv, StreamType, AgentOK, PhaseInv, WireOK
<1>. QED  BY <1>1, <1>3, <1>4, <1>5

\* The fresh attempt goes on with the open response; the next exchange has its own.
LEMMA ResponseSteps ==
    ASSUME IInv, StartFresh \/ Return \/ \E stream \in BOOLEAN : Attach(stream)
    PROVE  IInv'
<1>1. CASE StartFresh
  <2>1. Nothing \in [Channel -> Seq(Nat)]  BY EmptySeq DEF Nothing
  <2>2. c' \in Collector /\ WireOK(c') /\ ~c'.closed
    BY <1>1, <2>1 DEF StartFresh, CanStartFresh, Reset, IInv, StreamType, PhaseInv, Collector, WireOK
  <2>3. AgentOK'  BY <1>1 DEF StartFresh, AgentOK
  <2>. QED
    BY <1>1, <2>2, <2>3, EmptySeq DEF StartFresh, CanStartFresh, IInv, StreamType, PhaseInv, WireOK
<1>2. CASE Return
  BY <1>2 DEF Return, IInv, StreamType, AgentOK, PhaseInv, WireOK
<1>3. CASE \E stream \in BOOLEAN : Attach(stream)
  <2>. PICK stream \in BOOLEAN : Attach(stream)  BY <1>3
  <2>1. c' \in Collector /\ WireOK(c') /\ ~c'.closed
    BY NewCollectorOK DEF Attach, IInv, StreamType
  <2>2. AgentOK'  BY DEF Attach, IInv, StreamType, AgentOK
  <2>. QED  BY <2>1, <2>2 DEF Attach, IInv, StreamType, PhaseInv, WireOK
<1>. QED  BY <1>1, <1>2, <1>3

THEOREM Inductive == Spec => []IInv
<1>1. IInv /\ [Next]_vars => IInv'
  <2>1. IInv /\ UNCHANGED vars => IInv'
    BY DEF vars, IInv, StreamType, AgentOK, PhaseInv, WireOK
  <2>. QED  BY <2>1, AgentSteps, QueueSteps, BeatStep, HandlerSteps, ResponseSteps DEF Next
<1>. QED  BY <1>1, InitInv, PTL DEF Spec

\* The heartbeat and the handler never write after [DONE], and [DONE] ends every response
\* (stream.go:177-184).
THEOREM DoneIsLast == Spec => []NothingAfterDone
<1>1. IInv => NothingAfterDone
  <2>1. c \in Collector => DOMAIN c.wire = 1 .. Len(c.wire)  BY LenProperties DEF Collector
  <2>. QED  BY <2>1 DEF IInv, StreamType, WireOK, NothingAfterDone, Last
<1>. QED  BY <1>1, Inductive, PTL
-----------------------------------------------------------------------------
(* What is on its way from the agent to the collector.                     *)

\* Where the collectors of a turn stand on a channel: n pieces are answered, and a block
\* of deltas is open or none is.
Standing == [n : Nat, block : {"open", "none"}, waiting : BOOLEAN]
Block(open) == IF open THEN "open" ELSE "none"

\* A message that takes them from a to b, and says no more and no less than it should.
Takes(ch, a, m, b) ==
    \/ m.kind = "init" /\ b = [n |-> a.n, block |-> a.block, waiting |-> FALSE]
    \/ m.kind \in {"error", "call", "done"} /\ b = a
    \/ m.kind \in {"delta", "full"} /\ (a.waiting \/ m.channel # ch) /\ b = a
    \/ /\ m.kind \in {"delta", "full"} /\ ~a.waiting /\ m.channel = ch
       /\ (m.kind = "full" /\ a.block = "open") \/ m.pieces = <<a.n + 1>>
       /\ b = [n |-> IF m.kind = "full" /\ a.block = "open" THEN a.n ELSE a.n + 1,
               block |-> Block(m.kind = "delta"), waiting |-> FALSE]

\* The messages Q take them from a to b.
Chain(ch, Q, a, b) ==
    \E st \in [1 .. Len(Q) + 1 -> Standing] :
        /\ st[1] = a /\ st[Len(Q) + 1] = b
        /\ \A i \in 1 .. Len(Q) : Takes(ch, st[i], Q[i], st[i + 1])

LEMMA ChainEmpty ==
    ASSUME NEW ch, NEW a, NEW b
    PROVE  /\ a \in Standing => Chain(ch, <<>>, a, a)
           /\ Chain(ch, <<>>, a, b) => a = b
<1>1. Len(<<>>) = 0  OBVIOUS
<1>2. ASSUME a \in Standing PROVE Chain(ch, <<>>, a, a)
  <2>. DEFINE st == [i \in 1 .. 1 |-> a]
  <2>1. st \in [1 .. 0 + 1 -> Standing] /\ st[1] = a /\ st[0 + 1] = a  BY <1>2
  <2>. HIDE DEF st
  <2>. QED  BY <1>1, <2>1 DEF Chain
<1>3. Chain(ch, <<>>, a, b) => a = b  BY <1>1 DEF Chain
<1>. QED  BY <1>2, <1>3

LEMMA ChainAppend ==
    ASSUME NEW ch, NEW Q \in Seq(Message), NEW m \in Message, NEW a, NEW b, NEW d \in Standing,
           Chain(ch, Q, a, b), Takes(ch, b, m, d)
    PROVE  Chain(ch, Append(Q, m), a, d)
<1>. DEFINE n == Len(Q)
<1>1. n \in Nat  BY LenProperties
<1>2. /\ Len(Append(Q, m)) = n + 1 /\ Append(Q, m)[n + 1] = m
      /\ \A i \in 1 .. n : Append(Q, m)[i] = Q[i]
  BY AppendProperties
<1>. PICK st \in [1 .. n + 1 -> Standing] :
        st[1] = a /\ st[n + 1] = b /\ \A i \in 1 .. n : Takes(ch, st[i], Q[i], st[i + 1])
  BY DEF Chain
<1>. DEFINE tt == [i \in 1 .. n + 2 |-> IF i <= n + 1 THEN st[i] ELSE d]
<1>3. /\ tt \in [1 .. n + 2 -> Standing] /\ tt[1] = a /\ tt[n + 2] = d /\ tt[n + 1] = b
      /\ \A i \in 1 .. n + 1 : tt[i] = st[i]
  BY <1>1
<1>. HIDE DEF n, tt
<1>4. ASSUME NEW i \in 1 .. n + 1  PROVE Takes(ch, tt[i], Append(Q, m)[i], tt[i + 1])
  <2>1. CASE i = n + 1  BY <1>1, <1>2, <1>3, <2>1
  <2>2. CASE i \in 1 .. n
    <3>1. tt[i] = st[i] /\ tt[i + 1] = st[i + 1] /\ Append(Q, m)[i] = Q[i]
      BY <1>1, <1>2, <1>3, <2>2
    <3>. QED  BY <2>2, <3>1
  <2>3. i = n + 1 \/ i \in 1 .. n  BY <1>1
  <2>. QED  BY <2>1, <2>2, <2>3
<1>. QED
  <2>1. (n + 1) + 1 = n + 2  BY <1>1
  <2>. QED  BY <1>2, <1>3, <1>4, <2>1 DEF Chain

LEMMA ChainTail ==
    ASSUME NEW ch, NEW Q \in Seq(Message), Q # <<>>, NEW a, NEW b, Chain(ch, Q, a, b)
    PROVE  \E d \in Standing : Takes(ch, a, Head(Q), d) /\ Chain(ch, Tail(Q), d, b)
<1>. DEFINE n == Len(Q)
<1>1. n \in Nat \ {0} /\ Head(Q) = Q[1]  BY LenProperties, EmptySeq
<1>2. Len(Tail(Q)) = n - 1 /\ \A i \in 1 .. n - 1 : Tail(Q)[i] = Q[i + 1]
  BY <1>1, HeadTailProperties
<1>. PICK st \in [1 .. n + 1 -> Standing] :
        st[1] = a /\ st[n + 1] = b /\ \A i \in 1 .. n : Takes(ch, st[i], Q[i], st[i + 1])
  BY DEF Chain
<1>. DEFINE tt == [i \in 1 .. n |-> st[i + 1]]
<1>3. /\ tt \in [1 .. n -> Standing] /\ tt[1] = st[2] /\ tt[n] = b
      /\ \A i \in 1 .. n : tt[i] = st[i + 1]
  BY <1>1
<1>. HIDE DEF n, tt
<1>4. ASSUME NEW i \in 1 .. n - 1  PROVE Takes(ch, tt[i], Tail(Q)[i], tt[i + 1])
  <2>1. i + 1 \in 1 .. n /\ i \in 1 .. n  BY <1>1
  <2>2. Takes(ch, st[i + 1], Q[i + 1], st[(i + 1) + 1])  BY <2>1
  <2>. QED  BY <1>2, <1>3, <2>1, <2>2
<1>5. Takes(ch, a, Head(Q), st[2]) /\ st[2] \in Standing  BY <1>1
<1>6. Chain(ch, Tail(Q), st[2], b)
  <2>1. Len(Tail(Q)) + 1 = n  BY <1>1, <1>2
  <2>2. \A i \in 1 .. Len(Tail(Q)) : Takes(ch, tt[i], Tail(Q)[i], tt[i + 1])  BY <1>2, <1>4
  <2>. QED  BY <1>3, <2>1, <2>2 DEF Chain
<1>. QED  BY <1>5, <1>6

\* A call comes between what was sent to turn.events and what was not.
LEMMA ChainInsert ==
    ASSUME NEW ch, NEW P \in Seq(Message), NEW R \in Seq(Message), NEW a, NEW b,
           NEW m \in Message, m.kind = "call", Chain(ch, P \o R, a, b)
    PROVE  Chain(ch, Append(P, m) \o R, a, b)
<1>. DEFINE p == Len(P)
            n == Len(P) + Len(R)
            Q == P \o R
            U == Append(P, m) \o R
<1>1. p \in Nat /\ n \in Nat /\ p <= n /\ Len(Q) = n  BY LenProperties, ConcatProperties
<1>2. \A i \in 1 .. n : Q[i] = IF i <= p THEN P[i] ELSE R[i - p]  BY ConcatProperties
<1>3. /\ Append(P, m) \in Seq(Message) /\ Len(Append(P, m)) = p + 1
      /\ Append(P, m)[p + 1] = m /\ \A i \in 1 .. p : Append(P, m)[i] = P[i]
  BY AppendProperties
<1>4. /\ Len(U) = n + 1
      /\ \A i \in 1 .. n + 1 : U[i] = IF i <= p + 1 THEN Append(P, m)[i] ELSE R[i - (p + 1)]
  <2>1. (p + 1) + Len(R) = n + 1  BY LenProperties
  <2>. QED  BY <1>3, <2>1, ConcatProperties
<1>. PICK st \in [1 .. n + 1 -> Standing] :
        st[1] = a /\ st[n + 1] = b /\ \A i \in 1 .. n : Takes(ch, st[i], Q[i], st[i + 1])
  BY <1>1 DEF Chain
<1>. DEFINE tt == [i \in 1 .. n + 2 |-> IF i <= p + 1 THEN st[i] ELSE st[i - 1]]
<1>5. /\ tt \in [1 .. n + 2 -> Standing] /\ tt[1] = a /\ tt[n + 2] = b
      /\ \A i \in 1 .. p + 1 : tt[i] = st[i]
      /\ \A i \in p + 2 .. n + 2 : tt[i] = st[i - 1]
  BY <1>1
<1>. HIDE DEF n, p, Q, U, tt
<1>6. ASSUME NEW i \in 1 .. n + 1  PROVE Takes(ch, tt[i], U[i], tt[i + 1])
  <2>1. CASE i \in 1 .. p
    <3>1. i \in 1 .. n /\ i \in 1 .. n + 1 /\ i \in 1 .. p + 1 /\ i + 1 \in 1 .. p + 1 /\ i <= p /\ i <= p + 1
      BY <1>1, <2>1
    <3>2. tt[i] = st[i] /\ tt[i + 1] = st[i + 1]  BY <1>5, <3>1
    <3>3. U[i] = Q[i]  BY <1>2, <1>3, <1>4, <2>1, <3>1
    <3>. QED  BY <3>1, <3>2, <3>3
  <2>2. CASE i = p + 1
    <3>1. tt[i] = st[i] /\ tt[i + 1] = st[i] /\ U[i] = m  BY <1>1, <1>3, <1>4, <1>5, <2>2
    <3>. QED  BY <3>1 DEF Takes
  <2>3. CASE i \in p + 2 .. n + 1
    <3>1. i - 1 \in 1 .. n /\ (i - 1) + 1 = i /\ i - 1 > p /\ i - (p + 1) = (i - 1) - p  BY <1>1, <2>3
    <3>2. tt[i] = st[i - 1] /\ tt[i + 1] = st[i]  BY <1>1, <1>5, <2>3
    <3>3. U[i] = Q[i - 1]
      <4>1. U[i] = R[i - (p + 1)]  BY <1>1, <1>4, <2>3
      <4>2. Q[i - 1] = R[(i - 1) - p]  BY <1>1, <1>2, <3>1
      <4>. QED  BY <3>1, <4>1, <4>2
    <3>. QED  BY <3>1, <3>2, <3>3
  <2>. QED  BY <1>1, <2>1, <2>2, <2>3
<1>. QED
  <2>1. (n + 1) + 1 = n + 2  BY <1>1
  <2>. QED  BY <1>4, <1>5, <1>6, <2>1 DEF Chain, U
-----------------------------------------------------------------------------
(* Every piece once.                                                       *)

OnItsWay == events \o output

Here(ch) ==
    [n |-> Len(Answered(ch)), waiting |-> c.waiting,
     block |-> Block(ch \in (IF pc = "loop" THEN c.saw ELSE turnSaw))]
There(ch, w) == [n |-> agent.said[ch], block |-> Block(agent.open[ch] # 0), waiting |-> w]

\* A collector waits for what the agent says after the replay.
Fits(w) == (agent.pc = "replay" => w) /\ (agent.pc \in {"talk", "waiting"} => ~w)

Counted(s) == \A i \in 1 .. Len(s) : s[i] = i

\* What was answered is complete up to here, and what is on its way is the rest.
FlowInv ==
    \A ch \in Channel :
        /\ Counted(Answered(ch))
        /\ pc \notin {"failed", "aborted"} =>
            \E w \in BOOLEAN : Fits(w) /\ Chain(ch, OnItsWay, Here(ch), There(ch, w))

FrameInv ==
    /\ path \in {"plain", "tools"}
    /\ shown \in [Channel -> Seq(Nat)]
    /\ path = "plain" => events = <<>> /\ call = "none" /\ (pc = "loop" => shown = Nothing)
    /\ path = "tools" => ~c.waiting
    /\ call # "none" => agent.pc = "waiting"
    /\ pc = "loop" => ~c.calls
    /\ \A i \in 1 .. Len(OnItsWay) :
            OnItsWay[i].kind = "done" => i = Len(OnItsWay) /\ agent.pc = "done"
    /\ \A i \in 1 .. Len(OnItsWay) :
            OnItsWay[i].kind = "call" =>
                call = "queued" /\ \A j \in 1 .. Len(OnItsWay) : OnItsWay[j].kind = "call" => i = j
    /\ pc = "over" \/ (pc = "ended" /\ ~c.calls) =>
            agent.pc = "done" /\ \A ch \in Channel : Len(shown[ch]) = agent.said[ch]

FullInv == IInv /\ FrameInv /\ FlowInv

LEMMA AnsweredType ==
    ASSUME IInv, FrameInv, NEW ch \in Channel
    PROVE  /\ Answered(ch) \in Seq(Nat) /\ Len(Answered(ch)) \in Nat
           /\ shown[ch] \in Seq(Nat) /\ c.out[ch] \in Seq(Nat)
           /\ Here(ch) \in Standing
<1>1. shown[ch] \in Seq(Nat) /\ c.out[ch] \in Seq(Nat) /\ c.waiting \in BOOLEAN
  BY DEF FrameInv, IInv, StreamType, Collector
<1>2. Answered(ch) \in Seq(Nat)  BY <1>1, ConcatProperties DEF Answered
<1>3. Len(Answered(ch)) \in Nat  BY <1>2, LenProperties
<1>. QED  BY <1>1, <1>2, <1>3 DEF Here, Standing, Block

LEMMA ThereType ==
    ASSUME AgentOK, NEW ch \in Channel, NEW w \in BOOLEAN
    PROVE  There(ch, w) \in Standing
  BY DEF AgentOK, There, Standing, Block

LEMMA OneMore ==
    ASSUME NEW s \in Seq(Nat), Counted(s)
    PROVE  LET t == s \o <<Len(s) + 1>> IN t \in Seq(Nat) /\ Counted(t) /\ Len(t) = Len(s) + 1
<1>. DEFINE u == <<Len(s) + 1>>
<1>1. Len(s) \in Nat /\ u \in Seq(Nat) /\ Len(u) = 1 /\ u[1] = Len(s) + 1  BY LenProperties
<1>. HIDE DEF u
<1>2. /\ s \o u \in Seq(Nat) /\ Len(s \o u) = Len(s) + Len(u)
      /\ \A i \in 1 .. Len(s) + Len(u) : (s \o u)[i] = IF i <= Len(s) THEN s[i] ELSE u[i - Len(s)]
  BY <1>1, ConcatProperties
<1>3. ASSUME NEW i \in 1 .. Len(s) + 1  PROVE (s \o u)[i] = i
  <2>1. CASE i <= Len(s)  BY <1>1, <1>2, <2>1 DEF Counted
  <2>2. CASE i = Len(s) + 1
    <3>1. i - Len(s) = 1 /\ ~(i <= Len(s))  BY <1>1, <2>2
    <3>. QED  BY <1>1, <1>2, <2>2, <3>1
  <2>3. i <= Len(s) \/ i = Len(s) + 1  BY <1>1
  <2>. QED  BY <2>1, <2>2, <2>3
<1>. QED  BY <1>1, <1>2, <1>3 DEF Counted, u

LEMMA NatConcat ==
    ASSUME NEW s \in Seq(Nat), NEW t \in Seq(Nat), NEW u \in Seq(Nat)
    PROVE  s \o (t \o u) = (s \o t) \o u
<1>. DEFINE N == Nat
<1>1. s \in Seq(N) /\ t \in Seq(N) /\ u \in Seq(N)  OBVIOUS
<1>. HIDE DEF N
<1>. QED  BY <1>1

LEMMA CountedPart ==
    ASSUME NEW s \in Seq(Nat), NEW u \in Seq(Nat), Counted(s \o u)
    PROVE  Counted(s)
<1>1. Len(s) \in Nat /\ Len(u) \in Nat  BY LenProperties
<1>2. /\ Len(s \o u) = Len(s) + Len(u)
      /\ \A i \in 1 .. Len(s) + Len(u) : (s \o u)[i] = IF i <= Len(s) THEN s[i] ELSE u[i - Len(s)]
  BY ConcatProperties
<1>3. ASSUME NEW i \in 1 .. Len(s)  PROVE s[i] = i
  <2>1. i \in 1 .. Len(s) + Len(u) /\ i <= Len(s)  BY <1>1
  <2>. QED  BY <1>2, <2>1 DEF Counted
<1>. QED  BY <1>3 DEF Counted

\* Everything stays where it is.
LEMMA StillFlow ==
    ASSUME FullInv, UNCHANGED <<path, shown, turnSaw, c, pc, call>>, OnItsWay' = OnItsWay,
           agent' = agent, path = "plain" => events' = events
    PROVE  FrameInv' /\ FlowInv'
<1>1. \A ch \in Channel :
        /\ Answered(ch)' = Answered(ch) /\ Here(ch)' = Here(ch)
        /\ \A w \in BOOLEAN : There(ch, w)' = There(ch, w) /\ (Fits(w)' <=> Fits(w))
  BY DEF Answered, Here, There, Fits, Block
<1>. QED  BY <1>1 DEF FullInv, FrameInv, FlowInv

\* The agent says m, which is what the collectors should hear next.
LEMMA SaysFlow ==
    ASSUME FullInv, NEW m \in Message, Says(m), AgentOK', agent.pc # "done", agent'.pc # "waiting",
           agent.pc # "waiting", m.kind = "done" => agent'.pc = "done", m.kind # "call",
           \A ch \in Channel, w \in BOOLEAN : Fits(w) =>
                \E v \in BOOLEAN : Fits(v)' /\ Takes(ch, There(ch, w), m, There(ch, v)')
    PROVE  FrameInv' /\ FlowInv'
<1>1. /\ OnItsWay \in Seq(Message) /\ OnItsWay' = Append(OnItsWay, m)
      /\ UNCHANGED <<path, events, call, c, turnSaw, shown, pc>>
  <2>1. events \in Seq(Message) /\ output \in Seq(Message)  BY DEF FullInv, IInv, StreamType
  <2>2. events \o Append(output, m) = Append(events \o output, m)
    BY <2>1
  <2>. QED  BY <2>1, <2>2, ConcatProperties DEF Says, OnItsWay
<1>2. FrameInv'
  <2>1. /\ Len(OnItsWay') = Len(OnItsWay) + 1 /\ OnItsWay'[Len(OnItsWay) + 1] = m
        /\ \A i \in 1 .. Len(OnItsWay) : OnItsWay'[i] = OnItsWay[i]
        /\ Len(OnItsWay) \in Nat
    BY <1>1, AppendProperties, LenProperties
  <2>2. \A i \in 1 .. Len(OnItsWay') : OnItsWay'[i].kind = "done" =>
            i = Len(OnItsWay') /\ agent'.pc = "done"
    BY <2>1 DEF FullInv, FrameInv
  <2>3. call = "none" /\ pc # "over" /\ ~(pc = "ended" /\ ~c.calls)
    BY DEF FullInv, FrameInv
  <2>4. \A i \in 1 .. Len(OnItsWay') : OnItsWay'[i].kind # "call"
    BY <2>1, <2>3 DEF FullInv, FrameInv
  <2>. HIDE DEF OnItsWay
  <2>. QED  BY <1>1, <2>2, <2>3, <2>4 DEF FullInv, FrameInv
<1>3. ASSUME NEW ch \in Channel
      PROVE  /\ Counted(Answered(ch))'
             /\ (pc \notin {"failed", "aborted"})' =>
                \E w \in BOOLEAN : Fits(w)' /\ Chain(ch, OnItsWay', Here(ch)', There(ch, w)')
  <2>1. Answered(ch)' = Answered(ch) /\ Here(ch)' = Here(ch)  BY <1>1 DEF Answered, Here, Block
  <2>2. CASE pc \notin {"failed", "aborted"}
    <3>1. PICK w \in BOOLEAN : Fits(w) /\ Chain(ch, OnItsWay, Here(ch), There(ch, w))
      BY <2>2 DEF FullInv, FlowInv
    <3>2. PICK v \in BOOLEAN : Fits(v)' /\ Takes(ch, There(ch, w), m, There(ch, v)')
      BY <3>1
    <3>3. There(ch, v)' \in Standing  BY DEF AgentOK, There, Standing, Block
    <3>4. Chain(ch, Append(OnItsWay, m), Here(ch), There(ch, v)')
      BY <1>1, <3>1, <3>2, <3>3, ChainAppend
    <3>. QED  BY <1>1, <2>1, <3>2, <3>4 DEF FullInv, FlowInv
  <2>. QED  BY <1>1, <2>1, <2>2 DEF FullInv, FlowInv
<1>4. FlowInv'  BY <1>3 DEF FlowInv
<1>. QED  BY <1>2, <1>4

LEMMA InitFlow == Init => FrameInv /\ FlowInv
<1>. SUFFICES ASSUME Init  PROVE FrameInv /\ FlowInv  OBVIOUS
<1>. PICK p \in Paths, stream \in BOOLEAN, resumed \in BOOLEAN :
        /\ resumed => p = "plain"
        /\ path = p
        /\ agent = [pc |-> IF resumed THEN "replay" ELSE "talk", resumed |-> resumed,
                    said |-> [ch \in Channel |-> 0], open |-> [ch \in Channel |-> 0]]
        /\ output = <<>> /\ events = <<>> /\ call = "none"
        /\ c = NewCollector(stream, resumed, {})
        /\ turnSaw = {} /\ shown = Nothing /\ pc = "loop"
  BY DEF Init
<1>1. OnItsWay = <<>> /\ Len(OnItsWay) = 0  BY DEF OnItsWay
<1>2. /\ c.out = Nothing /\ c.saw = {} /\ c.waiting = resumed /\ c.calls = FALSE
      /\ p \in {"plain", "tools"}
  BY StreamAssumption DEF NewCollector
<1>3. Nothing \in [Channel -> Seq(Nat)]  BY EmptySeq DEF Nothing
<1>4. FrameInv  BY <1>1, <1>2, <1>3 DEF FrameInv
<1>5. ASSUME NEW ch \in Channel
      PROVE  /\ Counted(Answered(ch))
             /\ Fits(resumed) /\ Chain(ch, OnItsWay, Here(ch), There(ch, resumed))
  <2>1. Answered(ch) = <<>> /\ Len(Answered(ch)) = 0  BY <1>2 DEF Answered, Nothing
  <2>2. Here(ch) = There(ch, resumed) /\ Here(ch) \in Standing
    BY <1>2, <2>1 DEF Here, There, Standing, Block
  <2>. QED  BY <1>1, <2>1, <2>2, ChainEmpty DEF Counted, Fits
<1>. QED  BY <1>4, <1>5 DEF FlowInv

\* What the agent says is what the collectors should hear next.
LEMMA AgentFlow ==
    ASSUME FullInv, IInv',
           \/ \E ch \in Channel, kind \in {"delta", "full"} : Replay(ch, kind)
           \/ \E ch \in Channel : SayDelta(ch) \/ SayFull(ch)
           \/ SayInit \/ SayDone \/ SayError \/ MakeCall
    PROVE  FrameInv' /\ FlowInv'
<1>0. AgentOK /\ AgentOK'  BY DEF FullInv, IInv, StreamType
<1>1. ASSUME NEW e \in Channel, NEW kind \in {"delta", "full"}, Replay(e, kind)
      PROVE  FrameInv' /\ FlowInv'
  <2>. DEFINE m == [kind |-> kind, channel |-> e, pieces |-> <<0>>]
  <2>1. m \in Message  BY DEF Message, Whole
  <2>2. ASSUME NEW ch \in Channel, NEW w \in BOOLEAN, Fits(w)
        PROVE  Fits(w)' /\ Takes(ch, There(ch, w), m, There(ch, w)')
    BY <1>1, <2>2 DEF Replay, Fits, There, Takes, Block
  <2>3. agent.pc = "replay" /\ agent' = agent /\ Says(m)  BY <1>1 DEF Replay
  <2>. QED  BY <1>0, <2>1, <2>2, <2>3, SaysFlow
<1>2. ASSUME NEW e \in Channel, SayDelta(e)  PROVE FrameInv' /\ FlowInv'
  <2>. DEFINE m == [kind |-> "delta", channel |-> e, pieces |-> <<agent.said[e] + 1>>]
  <2>1. agent.said[e] + 1 \in Nat /\ agent.said[e] \in Nat /\ agent.open[e] \in Nat
    BY <1>0 DEF AgentOK
  <2>2. m \in Message  BY <2>1 DEF Message, Whole
  <2>3. agent.pc = "talk" /\ agent'.pc = "talk" /\ Says(m)  BY <1>0, <1>2 DEF SayDelta, AgentOK
  <2>4. /\ agent'.said = [agent.said EXCEPT ![e] = @ + 1]
        /\ agent'.open = [agent.open EXCEPT ![e] = @ + 1]
    BY <1>0, <1>2 DEF SayDelta, AgentOK
  <2>5. ASSUME NEW ch \in Channel, NEW w \in BOOLEAN, Fits(w)
        PROVE  Fits(FALSE)' /\ Takes(ch, There(ch, w), m, There(ch, FALSE)')
    <3>1. w = FALSE /\ Fits(FALSE)'  BY <2>3, <2>5 DEF Fits
    <3>2. CASE ch # e
      <4>1. agent'.said[ch] = agent.said[ch] /\ agent'.open[ch] = agent.open[ch]
        BY <1>0, <2>4, <3>2 DEF AgentOK
      <4>. QED  BY <3>1, <3>2, <4>1 DEF There, Takes, Block
    <3>3. CASE ch = e
      <4>1. agent'.said[ch] = agent.said[ch] + 1 /\ agent'.open[ch] # 0
        BY <1>0, <2>1, <2>4, <3>3 DEF AgentOK
      <4>. QED  BY <3>1, <3>3, <4>1 DEF There, Takes, Block
    <3>. QED  BY <3>1, <3>2, <3>3
  <2>. QED  BY <1>0, <2>2, <2>3, <2>5, SaysFlow
<1>3. ASSUME NEW e \in Channel, SayFull(e)  PROVE FrameInv' /\ FlowInv'
  <2>. DEFINE n == agent.said[e]
              k == agent.open[e]
              pieces == IF k = 0 THEN <<n + 1>> ELSE [i \in 1 .. k |-> n - k + i]
              m == [kind |-> "full", channel |-> e, pieces |-> pieces]
  <2>1. n \in Nat /\ k \in Nat /\ k <= n  BY <1>0 DEF AgentOK
  <2>2. m \in Message
    <3>. HIDE DEF n, k
    <3>1. \A i \in 1 .. k : n - k + i \in Nat  BY <2>1
    <3>2. [i \in 1 .. k |-> n - k + i] \in Seq(Nat)  BY <2>1, <3>1, IsASeq
    <3>3. <<n + 1>> \in Seq(Nat)  BY <2>1
    <3>4. pieces \in Seq(Nat)  BY <3>2, <3>3
    <3>. HIDE DEF pieces
    <3>. QED  BY <3>4 DEF Message, Whole
  <2>3. agent.pc = "talk" /\ agent'.pc = "talk" /\ Says(m)  BY <1>0, <1>3 DEF SayFull, AgentOK
  <2>4. k = 0 => agent'.said = [agent.said EXCEPT ![e] = @ + 1] /\ agent'.open = agent.open
    BY <1>0, <1>3 DEF SayFull, AgentOK
  <2>5. k # 0 => agent'.open = [agent.open EXCEPT ![e] = 0] /\ agent'.said = agent.said
    BY <1>0, <1>3 DEF SayFull, AgentOK
  <2>6. ASSUME NEW ch \in Channel, NEW w \in BOOLEAN, Fits(w)
        PROVE  Fits(FALSE)' /\ Takes(ch, There(ch, w), m, There(ch, FALSE)')
    <3>1. w = FALSE /\ Fits(FALSE)'  BY <2>3, <2>6 DEF Fits
    <3>2. CASE ch # e
      <4>1. agent'.said[ch] = agent.said[ch] /\ agent'.open[ch] = agent.open[ch]
        BY <1>0, <2>1, <2>4, <2>5, <3>2 DEF AgentOK
      <4>. QED  BY <3>1, <3>2, <4>1 DEF There, Takes, Block
    <3>3. CASE ch = e /\ k = 0
      <4>1. agent'.said[ch] = n + 1 /\ agent'.open[ch] = 0 /\ pieces = <<n + 1>>
        BY <1>0, <2>1, <2>4, <3>3 DEF AgentOK
      <4>. QED  BY <3>1, <3>3, <4>1 DEF There, Takes, Block
    <3>4. CASE ch = e /\ k # 0
      <4>1. agent'.said[ch] = n /\ agent'.open[ch] = 0
        BY <1>0, <2>1, <2>5, <3>4 DEF AgentOK
      <4>. HIDE DEF pieces
      <4>. QED  BY <3>1, <3>4, <4>1 DEF There, Takes, Block
    <3>. QED  BY <3>1, <3>2, <3>3, <3>4
  <2>. HIDE DEF m
  <2>7. m.kind = "full"  BY DEF m
  <2>. QED  BY <1>0, <2>2, <2>3, <2>6, <2>7, SaysFlow
<1>4. CASE SayInit
  <2>. DEFINE m == [kind |-> "init"]
  <2>1. m \in Message /\ agent.pc = "replay" /\ Says(m)  BY <1>4 DEF SayInit, Message, Plain
  <2>2. agent'.pc = "talk" /\ agent'.said = agent.said /\ agent'.open = agent.open
    BY <1>0, <1>4 DEF SayInit, AgentOK
  <2>3. ASSUME NEW ch \in Channel, NEW w \in BOOLEAN, Fits(w)
        PROVE  Fits(FALSE)' /\ Takes(ch, There(ch, w), m, There(ch, FALSE)')
    <3>1. There(ch, FALSE)' = [n |-> There(ch, w).n, block |-> There(ch, w).block, waiting |-> FALSE]
      BY <2>2 DEF There, Block
    <3>2. Takes(ch, There(ch, w), m, There(ch, FALSE)')  BY <3>1 DEF Takes, Block
    <3>. QED  BY <2>2, <3>2 DEF Fits
  <2>. QED  BY <1>0, <2>1, <2>2, <2>3, SaysFlow
<1>5. CASE SayDone \/ SayError
  <2>. PICK m \in {[kind |-> "done"], [kind |-> "error"]} :
          Says(m) /\ agent.pc \in {"replay", "talk"}
    BY <1>5 DEF SayDone, SayError
  <2>1. m \in Message /\ m.kind \in {"done", "error"}  BY DEF Message, Plain
  <2>2. agent'.pc = "done" /\ agent'.said = agent.said /\ agent'.open = agent.open
    BY <1>0, <1>5 DEF SayDone, SayError, AgentOK
  <2>3. ASSUME NEW ch \in Channel, NEW w \in BOOLEAN, Fits(w)
        PROVE  Fits(w)' /\ Takes(ch, There(ch, w), m, There(ch, w)')
    BY <2>1, <2>2, <2>3 DEF Fits, There, Takes, Block
  <2>. QED  BY <1>0, <2>1, <2>2, <2>3, SaysFlow
<1>6. CASE MakeCall
  <2>1. /\ path = "tools" /\ agent.pc = "talk" /\ agent'.pc = "waiting" /\ call' = "made"
        /\ agent'.said = agent.said /\ agent'.open = agent.open
        /\ UNCHANGED <<path, events, output, c, turnSaw, shown, pc, OnItsWay>>
    BY <1>0, <1>6 DEF MakeCall, AgentOK, OnItsWay
  <2>2. \A ch \in Channel :
          /\ Answered(ch)' = Answered(ch) /\ Here(ch)' = Here(ch)
          /\ \A w \in BOOLEAN : There(ch, w)' = There(ch, w) /\ (Fits(w) => Fits(w)')
    BY <2>1 DEF Answered, Here, There, Fits, Block
  <2>3. FlowInv'  BY <2>1, <2>2 DEF FullInv, FlowInv
  <2>4. call = "none"  BY <2>1 DEF FullInv, FrameInv
  <2>. HIDE DEF OnItsWay
  <2>. QED  BY <2>1, <2>3, <2>4 DEF FullInv, FrameInv
<1>. QED  BY <1>1, <1>2, <1>3, <1>4, <1>5, <1>6

\* A message, and the tool call in front of what the agent has said since.
LEMMA QueueFlow ==
    ASSUME FullInv, Relay \/ QueueCall
    PROVE  FrameInv' /\ FlowInv'
<1>0. events \in Seq(Message) /\ output \in Seq(Message)  BY DEF FullInv, IInv, StreamType
<1>1. CASE Relay
  <2>1. Append(events, Head(output)) \o Tail(output) = events \o output
    <3>0. output # <<>> /\ Head(output) \in Message /\ Tail(output) \in Seq(Message)
      BY <1>0, <1>1, HeadTailProperties DEF Relay
    <3>1. /\ <<Head(output)>> \in Seq(Message) /\ Tail(output) \in Seq(Message)
          /\ output = <<Head(output)>> \o Tail(output)
          /\ Append(events, Head(output)) = events \o <<Head(output)>>
      <4>1. <<Head(output)>> \in Seq(Message)  BY <3>0
      <4>2. output = <<Head(output)>> \o Tail(output)  BY <1>0, <3>0
      <4>3. Append(events, Head(output)) = events \o <<Head(output)>>  BY <1>0, <3>0
      <4>. QED  BY <3>0, <4>1, <4>2, <4>3
    <3>2. \A s, t, u \in Seq(Message) : (s \o t) \o u = s \o (t \o u)  OBVIOUS
    <3>3. (events \o <<Head(output)>>) \o Tail(output) = events \o (<<Head(output)>> \o Tail(output))
      BY <1>0, <3>1, <3>2, Zenon
    <3>. QED  BY <3>1, <3>3
  <2>2. OnItsWay' = OnItsWay  BY <1>1, <2>1 DEF Relay, OnItsWay
  <2>. QED  BY <1>1, <2>2, StillFlow DEF Relay
<1>2. CASE QueueCall
  <2>. DEFINE m == [kind |-> "call"]
  <2>1. m \in Message  BY DEF Message, Plain
  <2>2. /\ OnItsWay' = Append(events, m) \o output
        /\ call = "made" /\ call' = "queued" /\ agent.pc = "waiting" /\ path = "tools"
        /\ UNCHANGED <<path, agent, output, c, turnSaw, shown, pc>>
    BY <1>2 DEF QueueCall, OnItsWay, FullInv, FrameInv
  <2>3. \A ch \in Channel :
          /\ Answered(ch)' = Answered(ch) /\ Here(ch)' = Here(ch)
          /\ \A w \in BOOLEAN : There(ch, w)' = There(ch, w) /\ (Fits(w)' <=> Fits(w))
    BY <2>2 DEF Answered, Here, There, Fits, Block
  <2>4. \A ch \in Channel, a, b \in Standing :
            Chain(ch, OnItsWay, a, b) => Chain(ch, OnItsWay', a, b)
    BY <1>0, <2>1, <2>2, ChainInsert DEF OnItsWay
  <2>5. \A ch \in Channel, w \in BOOLEAN : Here(ch) \in Standing /\ There(ch, w) \in Standing
    BY AnsweredType, ThereType DEF FullInv, IInv, StreamType
  <2>6. FlowInv'  BY <2>2, <2>3, <2>4, <2>5 DEF FullInv, FlowInv
  <2>7. \A i \in 1 .. Len(OnItsWay') :
            OnItsWay'[i].kind # "done" /\ (OnItsWay'[i].kind = "call" => i = Len(events) + 1)
    <3>. DEFINE p == Len(events)
                P == Append(events, m)
    <3>1. /\ P \in Seq(Message) /\ Len(P) = p + 1 /\ P[p + 1] = m
          /\ \A i \in 1 .. p : P[i] = events[i]
          /\ p \in Nat /\ Len(output) \in Nat
      BY <1>0, <2>1, AppendProperties, LenProperties
    <3>2. /\ Len(P \o output) = Len(P) + Len(output)
          /\ \A i \in 1 .. Len(P) + Len(output) :
                (P \o output)[i] = IF i <= Len(P) THEN P[i] ELSE output[i - Len(P)]
      BY <1>0, <3>1, ConcatProperties
    <3>3. /\ Len(OnItsWay) = p + Len(output)
          /\ \A i \in 1 .. p + Len(output) :
                OnItsWay[i] = IF i <= p THEN events[i] ELSE output[i - p]
      BY <1>0, ConcatProperties DEF OnItsWay
    <3>4. \A i \in 1 .. Len(OnItsWay) : OnItsWay[i].kind \notin {"done", "call"}
      BY <2>2 DEF FullInv, FrameInv
    <3>5. \A i \in 1 .. p : events[i].kind \notin {"done", "call"}
      BY <3>1, <3>3, <3>4
    <3>6. \A i \in 1 .. Len(output) : output[i].kind \notin {"done", "call"}
      <4>1. ASSUME NEW i \in 1 .. Len(output)  PROVE output[i].kind \notin {"done", "call"}
        <5>1. p + i \in 1 .. p + Len(output) /\ ~(p + i <= p) /\ (p + i) - p = i  BY <3>1
        <5>. QED  BY <3>3, <3>4, <5>1
      <4>. QED  BY <4>1
    <3>. HIDE DEF p, P, m, OnItsWay
    <3>7. m.kind = "call" /\ OnItsWay' = P \o output  BY <2>2 DEF m, P
    <3>8. ASSUME NEW i \in 1 .. Len(P \o output)
          PROVE  /\ (P \o output)[i].kind # "done"
                 /\ (P \o output)[i].kind = "call" => i = p + 1
      <4>1. CASE i <= p
        BY <3>1, <3>2, <3>5, <4>1
      <4>2. CASE i = p + 1  BY <3>1, <3>2, <3>7, <4>2
      <4>3. CASE i > p + 1
        <5>1. i - (p + 1) \in 1 .. Len(output) /\ (P \o output)[i] = output[i - (p + 1)]
          BY <3>1, <3>2, <4>3
        <5>. QED  BY <3>6, <5>1
      <4>. QED  BY <3>1, <4>1, <4>2, <4>3
    <3>. QED  BY <3>7, <3>8 DEF p
  <2>. HIDE DEF OnItsWay
  <2>. QED  BY <2>2, <2>6, <2>7 DEF FullInv, FrameInv
<1>. QED  BY <1>1, <1>2

\* A heartbeat says nothing.
LEMMA BeatFlow == ASSUME FullInv, Tick \/ Beat \/ HeartbeatExits PROVE FrameInv' /\ FlowInv'
<1>1. c'.out = c.out /\ c'.saw = c.saw /\ c'.waiting = c.waiting /\ c'.calls = c.calls
  BY DEF Tick, Beat, HeartbeatExits, Written, FullInv, IInv, StreamType, Collector
<1>2. OnItsWay' = OnItsWay /\ UNCHANGED <<path, agent, output, events, call, turnSaw, shown, pc>>
  BY DEF Tick, Beat, HeartbeatExits, OnItsWay
<1>3. \A ch \in Channel :
        /\ Answered(ch)' = Answered(ch) /\ Here(ch)' = Here(ch)
        /\ \A w \in BOOLEAN : There(ch, w)' = There(ch, w) /\ (Fits(w)' <=> Fits(w))
  BY <1>1, <1>2 DEF Answered, Here, There, Fits, Block
<1>4. FlowInv'  BY <1>2, <1>3 DEF FullInv, FlowInv
<1>. HIDE DEF OnItsWay
<1>. QED  BY <1>1, <1>2, <1>4 DEF FullInv, FrameInv

LEMMA ArrivesFlow ==
    ASSUME FullInv, NEW m, Arrives(m)
    PROVE  /\ OnItsWay \in Seq(Message) /\ OnItsWay # <<>> /\ m = Head(OnItsWay)
           /\ OnItsWay' = Tail(OnItsWay) /\ m = OnItsWay[1] /\ Len(OnItsWay) \in Nat \ {0}
           /\ Tail(OnItsWay) \in Seq(Message) /\ Len(Tail(OnItsWay)) = Len(OnItsWay) - 1
           /\ \A i \in 1 .. Len(OnItsWay) - 1 : Tail(OnItsWay)[i] = OnItsWay[i + 1]
           /\ path = "plain" => events' = <<>>
           /\ pc = "loop" /\ m \in Message
<1>1. events \in Seq(Message) /\ output \in Seq(Message)  BY DEF FullInv, IInv, StreamType
<1>2. OnItsWay \in Seq(Message)  BY <1>1, ConcatProperties DEF OnItsWay
<1>3. /\ OnItsWay # <<>> /\ m = Head(OnItsWay) /\ OnItsWay' = Tail(OnItsWay)
      /\ path = "plain" => events' = <<>>
  <2>1. CASE path = "plain"
    <3>1. /\ events = <<>> /\ events' = <<>> /\ output # <<>> /\ m = Head(output)
          /\ output' = Tail(output)
      BY <2>1 DEF FullInv, FrameInv, Arrives
    <3>2. OnItsWay = output /\ OnItsWay' = output'
      BY <1>1, <3>1, HeadTailProperties DEF OnItsWay
    <3>. QED  BY <3>1, <3>2
  <2>2. CASE path # "plain"
    <3>1. /\ events # <<>> /\ events' = Tail(events) /\ m = Head(events) /\ output' = output
      BY <2>2 DEF Arrives
    <3>2. /\ events \o output # <<>> /\ Head(events \o output) = Head(events)
          /\ Tail(events \o output) = Tail(events) \o output
      BY <1>1, <3>1
    <3>. QED  BY <2>2, <3>1, <3>2 DEF OnItsWay
  <2>. QED  BY <2>1, <2>2
<1>4. Len(OnItsWay) \in Nat \ {0} /\ m = OnItsWay[1]  BY <1>2, <1>3, LenProperties, EmptySeq
<1>5. /\ Tail(OnItsWay) \in Seq(Message) /\ Len(Tail(OnItsWay)) = Len(OnItsWay) - 1
      /\ \A i \in 1 .. Len(OnItsWay) - 1 : Tail(OnItsWay)[i] = OnItsWay[i + 1]
  BY <1>2, <1>3, <1>4, HeadTailProperties
<1>. HIDE DEF OnItsWay
<1>6. m \in Message  BY <1>2, <1>4
<1>. QED  BY <1>2, <1>3, <1>4, <1>5, <1>6 DEF Arrives

\* What is left on its way is no new call and no new end.
LEMMA TailFrame ==
    ASSUME FullInv, NEW m, Arrives(m), agent' = agent
    PROVE  /\ \A i \in 1 .. Len(OnItsWay') :
                OnItsWay'[i].kind = "done" => i = Len(OnItsWay') /\ agent'.pc = "done"
           /\ \A i \in 1 .. Len(OnItsWay') :
                OnItsWay'[i].kind = "call" =>
                    /\ call = "queued" /\ m.kind # "call"
                    /\ \A j \in 1 .. Len(OnItsWay') : OnItsWay'[j].kind = "call" => i = j
           /\ m.kind = "call" => call = "queued"
           /\ m.kind = "done" => OnItsWay' = <<>> /\ agent.pc = "done"
<1>. DEFINE n == Len(OnItsWay)
            Q == Tail(OnItsWay)
<1>1. /\ n \in Nat \ {0} /\ OnItsWay' = Q /\ Len(Q) = n - 1 /\ m = OnItsWay[1] /\ Q \in Seq(Message)
      /\ \A i \in 1 .. n - 1 : Q[i] = OnItsWay[i + 1]
  BY ArrivesFlow
<1>2. /\ \A i \in 1 .. n : OnItsWay[i].kind = "done" => i = n /\ agent.pc = "done"
      /\ \A i \in 1 .. n : OnItsWay[i].kind = "call" =>
            call = "queued" /\ \A j \in 1 .. n : OnItsWay[j].kind = "call" => i = j
  BY DEF FullInv, FrameInv
<1>. HIDE DEF n, Q, OnItsWay
<1>3. \A i \in 1 .. n - 1 : i + 1 \in 1 .. n /\ i + 1 # 1 /\ 1 \in 1 .. n  BY <1>1
<1>4. \A i \in 1 .. n - 1 : Q[i].kind = "done" => i = n - 1 /\ agent.pc = "done"
  BY <1>1, <1>2, <1>3
<1>5. \A i \in 1 .. n - 1 : Q[i].kind = "call" =>
        /\ call = "queued" /\ m.kind # "call"
        /\ \A j \in 1 .. n - 1 : Q[j].kind = "call" => i = j
  <2>1. ASSUME NEW i \in 1 .. n - 1, Q[i].kind = "call"
        PROVE  call = "queued" /\ m.kind # "call"
    BY <1>1, <1>2, <1>3, <2>1
  <2>2. ASSUME NEW i \in 1 .. n - 1, Q[i].kind = "call", NEW j \in 1 .. n - 1, Q[j].kind = "call"
        PROVE  i = j
    <3>1. i + 1 = j + 1  BY <1>1, <1>2, <1>3, <2>2
    <3>. QED  BY <3>1
  <2>. QED  BY <2>1, <2>2
<1>6. m.kind = "call" => call = "queued"  BY <1>1, <1>2
<1>7. m.kind = "done" => Q = <<>> /\ agent.pc = "done"
  <2>1. m.kind = "done" => n = 1 /\ agent.pc = "done"  BY <1>1, <1>2
  <2>. QED  BY <1>1, <2>1, EmptySeq
<1>. QED  BY <1>1, <1>4, <1>5, <1>6, <1>7

\* What handle does to one channel.
LEMMA HandledFlow ==
    ASSUME NEW C \in Collector, NEW m \in Message, m.kind \in {"init", "delta", "full"}
    PROVE  LET D == Handled(C, m) IN
           /\ D.calls = C.calls
           /\ m.kind = "init" => D.out = C.out /\ D.saw = C.saw /\ D.waiting = FALSE
           /\ m.kind # "init" /\ C.waiting => D = C
           /\ m.kind # "init" /\ ~C.waiting =>
                /\ m.channel \in Channel /\ m.pieces \in Seq(Nat) /\ D.waiting = FALSE
                /\ D.saw = IF m.kind = "delta" THEN C.saw \cup {m.channel} ELSE C.saw \ {m.channel}
                /\ D.out = IF m.kind = "full" /\ m.channel \in C.saw THEN C.out
                           ELSE [C.out EXCEPT ![m.channel] = @ \o m.pieces]
<1>1. CASE m.kind = "init"  BY <1>1 DEF Handled, Collector
<1>2. CASE m.kind # "init"
  <2>1. m.channel \in Channel /\ m.pieces \in Seq(Nat)  BY <1>2 DEF Message, Whole, Plain
  <2>. DEFINE A == Appended(C, m.channel, m.pieces)
  <2>2. /\ A.out = [C.out EXCEPT ![m.channel] = @ \o m.pieces]
        /\ A.saw = C.saw /\ A.waiting = C.waiting /\ A.calls = C.calls
        /\ A = [C EXCEPT !.out = A.out, !.wire = A.wire]
    BY <2>1 DEF Appended, Written, Collector
  <2>. HIDE DEF A
  <2>3. CASE m.kind = "delta"
    <3>1. Handled(C, m) = IF C.waiting THEN C ELSE [A EXCEPT !.saw = @ \cup {m.channel}]
      BY <2>3 DEF Handled, DeltaHandled, A
    <3>. QED  BY <1>2, <2>1, <2>2, <2>3, <3>1 DEF Collector
  <2>4. CASE m.kind = "full"
    <3>1. Handled(C, m) = IF C.waiting THEN C
                          ELSE [(IF m.channel \in C.saw THEN C ELSE A) EXCEPT !.saw = @ \ {m.channel}]
      BY <2>4 DEF Handled, FullHandled, A
    <3>. QED  BY <1>2, <2>1, <2>2, <2>4, <3>1 DEF Collector
  <2>. QED  BY <1>2, <2>3, <2>4
<1>. QED  BY <1>1, <1>2

\* Where a collector stands after s was answered before it.
CollectorAt(ch, s, C) ==
    [n |-> Len(s \o C.out[ch]), block |-> Block(ch \in C.saw), waiting |-> C.waiting]

LEMMA MessageTakes ==
    ASSUME NEW C \in Collector, NEW m \in Message, m.kind \in {"init", "delta", "full"},
           NEW ch \in Channel, NEW s \in Seq(Nat), Counted(s \o C.out[ch]),
           NEW d \in Standing, Takes(ch, CollectorAt(ch, s, C), m, d)
    PROVE  LET D == Handled(C, m) IN Counted(s \o D.out[ch]) /\ d = CollectorAt(ch, s, D)
<1>. DEFINE D == Handled(C, m)
            a == CollectorAt(ch, s, C)
            t == s \o C.out[ch]
<1>1. /\ D.calls = C.calls
      /\ m.kind = "init" => D.out = C.out /\ D.saw = C.saw /\ D.waiting = FALSE
      /\ m.kind # "init" /\ C.waiting => D = C
      /\ m.kind # "init" /\ ~C.waiting =>
           /\ m.channel \in Channel /\ m.pieces \in Seq(Nat) /\ D.waiting = FALSE
           /\ D.saw = IF m.kind = "delta" THEN C.saw \cup {m.channel} ELSE C.saw \ {m.channel}
           /\ D.out = IF m.kind = "full" /\ m.channel \in C.saw THEN C.out
                      ELSE [C.out EXCEPT ![m.channel] = @ \o m.pieces]
  BY HandledFlow
<1>2. a.n = Len(t) /\ a.block = Block(ch \in C.saw) /\ a.waiting = C.waiting
  BY DEF CollectorAt
<1>3. C.out \in [Channel -> Seq(Nat)] /\ C.out[ch] \in Seq(Nat) /\ C.waiting \in BOOLEAN
  BY DEF Collector
<1>4. t \in Seq(Nat) /\ Len(t) \in Nat /\ Counted(t)  BY <1>3, ConcatProperties, LenProperties
<1>. HIDE DEF D, t
<1>5. Takes(ch, a, m, d)  OBVIOUS
<1>6. CollectorAt(ch, s, D) = [n |-> Len(s \o D.out[ch]), block |-> Block(ch \in D.saw), waiting |-> D.waiting]
  BY DEF CollectorAt
<1>7. a = [n |-> Len(t), block |-> Block(ch \in C.saw), waiting |-> C.waiting]
  BY DEF CollectorAt, t
<1>. HIDE DEF a
<1>8. CASE m.kind = "init"
  <2>1. s \o D.out[ch] = t /\ D.saw = C.saw /\ D.waiting = FALSE  BY <1>1, <1>8 DEF t
  <2>2. d = [n |-> a.n, block |-> a.block, waiting |-> FALSE]  BY <1>5, <1>8 DEF Takes
  <2>. QED  BY <1>2, <1>4, <1>6, <2>1, <2>2 DEF D
<1>9. CASE m.kind # "init" /\ (C.waiting \/ m.channel # ch)
  <2>1. d = a  BY <1>2, <1>5, <1>9 DEF Takes
  <2>2. D.out[ch] = C.out[ch] /\ D.waiting = C.waiting /\ (ch \in D.saw <=> ch \in C.saw)
    BY <1>1, <1>3, <1>9
  <2>3. s \o D.out[ch] = t /\ Block(ch \in D.saw) = Block(ch \in C.saw)  BY <2>2 DEF Block, t
  <2>. QED  BY <1>4, <1>6, <1>7, <2>1, <2>2, <2>3 DEF D
<1>10. CASE m.kind = "full" /\ ~C.waiting /\ m.channel = ch /\ ch \in C.saw
  <2>1. a.block = "open" /\ ~a.waiting  BY <1>2, <1>10 DEF Block
  <2>2. d = [n |-> Len(t), block |-> "none", waiting |-> FALSE]
    BY <1>2, <1>5, <1>10, <2>1 DEF Takes, Block
  <2>3. D.out[ch] = C.out[ch] /\ ch \notin D.saw /\ D.waiting = FALSE  BY <1>1, <1>10
  <2>4. s \o D.out[ch] = t /\ Block(ch \in D.saw) = "none"  BY <2>3 DEF Block, t
  <2>. QED  BY <1>4, <1>6, <2>2, <2>3, <2>4 DEF D
<1>11. CASE m.kind # "init" /\ ~C.waiting /\ m.channel = ch /\ (m.kind = "delta" \/ ch \notin C.saw)
  <2>1. ~a.waiting /\ ~(m.kind = "full" /\ a.block = "open")  BY <1>2, <1>11 DEF Block
  <2>2. m.pieces = <<Len(t) + 1>>
        /\ d = [n |-> Len(t) + 1, block |-> Block(m.kind = "delta"), waiting |-> FALSE]
    BY <1>2, <1>5, <1>11, <2>1 DEF Takes
  <2>3. D.out[ch] = C.out[ch] \o m.pieces /\ D.waiting = FALSE /\ (ch \in D.saw <=> m.kind = "delta")
    BY <1>1, <1>3, <1>11
  <2>4. s \o D.out[ch] = t \o <<Len(t) + 1>>
    <3>1. m.pieces \in Seq(Nat)  BY <1>1, <1>11
    <3>2. s \o (C.out[ch] \o m.pieces) = (s \o C.out[ch]) \o m.pieces
      BY <1>3, <3>1, NatConcat
    <3>. QED  BY <2>2, <2>3, <3>2 DEF t
  <2>5. Counted(s \o D.out[ch]) /\ Len(s \o D.out[ch]) = Len(t) + 1  BY <1>4, <2>4, OneMore
  <2>6. Block(ch \in D.saw) = Block(m.kind = "delta")  BY <2>3 DEF Block
  <2>. QED  BY <1>6, <2>2, <2>3, <2>5, <2>6 DEF D
<1>12. m.kind # "init" => m.kind \in {"delta", "full"}  OBVIOUS
<1>. QED  BY <1>8, <1>9, <1>10, <1>11, <1>12

\* The collector takes a message: it stands where the message takes it.
LEMMA TakeMessageFlow == ASSUME FullInv, TakeMessage PROVE FrameInv' /\ FlowInv'
<1>. PICK m : /\ Arrives(m) /\ m.kind \in {"init", "delta", "full"} /\ c' = Handled(c, m)
              /\ UNCHANGED <<path, agent, call, turnSaw, shown, pc, heartbeat>>
  BY DEF TakeMessage
<1>1. /\ m \in Message /\ pc = "loop" /\ (path = "plain" => events' = <<>>)
      /\ OnItsWay \in Seq(Message) /\ OnItsWay # <<>> /\ m = Head(OnItsWay)
      /\ OnItsWay' = Tail(OnItsWay)
  BY ArrivesFlow
<1>2. c \in Collector  BY DEF FullInv, IInv, StreamType
<1>. DEFINE D == Handled(c, m)
<1>3. /\ D.calls = c.calls
      /\ m.kind = "init" => D.out = c.out /\ D.saw = c.saw /\ D.waiting = FALSE
      /\ m.kind # "init" /\ c.waiting => D = c
      /\ m.kind # "init" /\ ~c.waiting =>
           /\ m.channel \in Channel /\ m.pieces \in Seq(Nat) /\ D.waiting = FALSE
           /\ D.saw = IF m.kind = "delta" THEN c.saw \cup {m.channel} ELSE c.saw \ {m.channel}
           /\ D.out = IF m.kind = "full" /\ m.channel \in c.saw THEN c.out
                      ELSE [c.out EXCEPT ![m.channel] = @ \o m.pieces]
  BY <1>1, <1>2, HandledFlow
<1>. HIDE DEF D
<1>4. c' = D  BY DEF D
<1>5. FrameInv'
  <2>1. c.waiting = FALSE => c'.waiting = FALSE  BY <1>3, <1>4
  <2>2. c.waiting \in BOOLEAN  BY <1>2 DEF Collector
  <2>3. m.kind # "call"  OBVIOUS
  <2>. HIDE DEF OnItsWay
  <2>. QED  BY <1>1, <1>3, <1>4, <2>1, <2>2, TailFrame DEF FullInv, FrameInv
<1>6. ASSUME NEW ch \in Channel
      PROVE  /\ Counted(Answered(ch))'
             /\ \E w \in BOOLEAN : Fits(w)' /\ Chain(ch, OnItsWay', Here(ch)', There(ch, w)')
  <2>1. PICK w \in BOOLEAN : Fits(w) /\ Chain(ch, OnItsWay, Here(ch), There(ch, w))
    BY <1>1 DEF FullInv, FlowInv
  <2>2. PICK d \in Standing : Takes(ch, Here(ch), m, d) /\ Chain(ch, Tail(OnItsWay), d, There(ch, w))
    BY <1>1, <2>1, ChainTail
  <2>3. Fits(w)' /\ There(ch, w)' = There(ch, w)  BY <2>1 DEF Fits, There
  <2>4. shown[ch] \in Seq(Nat) /\ Counted(shown[ch] \o c.out[ch])
    BY <1>1, AnsweredType DEF FullInv, FlowInv, Answered
  <2>5. /\ Here(ch) = CollectorAt(ch, shown[ch], c)
        /\ Here(ch)' = CollectorAt(ch, shown[ch], c')
        /\ Answered(ch)' = shown[ch] \o c'.out[ch]
    BY <1>1 DEF Here, Answered, CollectorAt
  <2>6. Counted(shown[ch] \o c'.out[ch]) /\ d = CollectorAt(ch, shown[ch], c')
    BY <1>1, <1>2, <1>4, <2>2, <2>4, <2>5, MessageTakes DEF D
  <2>. QED  BY <1>1, <2>2, <2>3, <2>5, <2>6
<1>. QED  BY <1>5, <1>6 DEF FlowInv

\* The response ends at a call or at the end of the turn.
LEMMA EndsFlow ==
    ASSUME FullInv, NEW m, Arrives(m), m.kind \in {"call", "done"},
           NEW calls \in BOOLEAN, calls <=> m.kind = "call", Ends([c EXCEPT !.calls = calls]),
           agent' = agent, path' = path, call' = IF m.kind = "call" THEN "offered" ELSE call
    PROVE  FrameInv' /\ FlowInv'
<1>1. /\ m \in Message /\ pc = "loop" /\ (path = "plain" => events' = <<>>)
      /\ OnItsWay \in Seq(Message) /\ OnItsWay # <<>> /\ m = Head(OnItsWay)
      /\ OnItsWay' = Tail(OnItsWay)
  BY ArrivesFlow
<1>2. c \in Collector  BY DEF FullInv, IInv, StreamType
<1>3. /\ c'.out = c.out /\ c'.saw = c.saw /\ c'.waiting = c.waiting /\ c'.calls = calls
      /\ turnSaw' = c.saw /\ pc' = "ended"
      /\ shown' = [ch \in Channel |-> shown[ch] \o c.out[ch]]
  BY <1>2 DEF Ends, Finished, Written, Saved, Collector
<1>4. \A ch \in Channel : Answered(ch)' = Answered(ch) /\ Here(ch)' = Here(ch)
  BY <1>1, <1>3 DEF Answered, Here, Block
<1>5. ASSUME NEW ch \in Channel
      PROVE  \E w \in BOOLEAN : /\ Fits(w)' /\ There(ch, w)' = There(ch, w)
                                /\ Chain(ch, OnItsWay', Here(ch), There(ch, w))
  <2>1. PICK w \in BOOLEAN : Fits(w) /\ Chain(ch, OnItsWay, Here(ch), There(ch, w))
    BY <1>1 DEF FullInv, FlowInv
  <2>2. PICK d \in Standing : Takes(ch, Here(ch), m, d) /\ Chain(ch, Tail(OnItsWay), d, There(ch, w))
    BY <1>1, <2>1, ChainTail
  <2>3. d = Here(ch)  BY <2>2 DEF Takes, Block
  <2>. QED  BY <1>1, <2>1, <2>2, <2>3 DEF Fits, There, Block
<1>6. FlowInv'
  <2>1. \A ch \in Channel : Counted(Answered(ch))  BY DEF FullInv, FlowInv
  <2>. QED  BY <1>4, <1>5, <2>1 DEF FlowInv
<1>7. FrameInv'
  <2>1. shown' \in [Channel -> Seq(Nat)]
    <3>1. \A ch \in Channel : shown[ch] \o c.out[ch] \in Seq(Nat)
      BY AnsweredType, ConcatProperties DEF FullInv
    <3>. QED  BY <1>3, <3>1
  <2>2. m.kind = "done" => agent.pc = "done" /\ \A ch \in Channel : Len(shown'[ch]) = agent.said[ch]
    <3>1. ASSUME m.kind = "done", NEW ch \in Channel  PROVE Len(shown'[ch]) = agent.said[ch]
      <4>1. OnItsWay' = <<>>  BY <3>1, TailFrame
      <4>2. PICK w \in BOOLEAN : Chain(ch, <<>>, Here(ch), There(ch, w))  BY <1>5, <4>1
      <4>3. Here(ch) = There(ch, w)  BY <4>2, ChainEmpty
      <4>4. shown'[ch] = Answered(ch)  BY <1>1, <1>3 DEF Answered
      <4>. QED  BY <4>3, <4>4 DEF Here, There, Block
    <3>. QED  BY <3>1, TailFrame
  <2>3. m.kind = "call" => call = "queued"  BY TailFrame
  <2>4. path = "plain" => call = "none" /\ m.kind # "call"  BY <2>3 DEF FullInv, FrameInv
  <2>. HIDE DEF OnItsWay
  <2>5. \A i \in 1 .. Len(OnItsWay') : OnItsWay'[i].kind = "done" =>
            i = Len(OnItsWay') /\ agent'.pc = "done"
    BY TailFrame
  <2>6. \A i \in 1 .. Len(OnItsWay') : OnItsWay'[i].kind = "call" =>
            call' = "queued" /\ \A j \in 1 .. Len(OnItsWay') : OnItsWay'[j].kind = "call" => i = j
    BY TailFrame
  <2>7. call' # "none" => agent'.pc = "waiting"  BY <2>3 DEF FullInv, FrameInv
  <2>. QED  BY <1>1, <1>3, <2>1, <2>2, <2>4, <2>5, <2>6, <2>7 DEF FullInv, FrameInv
<1>. QED  BY <1>6, <1>7

\* A response that fails has said a part.
LEMMA TakeErrorFlow == ASSUME FullInv, TakeError PROVE FrameInv' /\ FlowInv'
<1>. DEFINE m == [kind |-> "error"]
<1>1. /\ Arrives(m) /\ agent' = agent /\ pc = "loop" /\ pc' = "failed"
      /\ UNCHANGED <<path, call, turnSaw, shown>>
  BY DEF TakeError, Arrives
<1>2. c'.calls = c.calls /\ c'.waiting = c.waiting
  BY DEF TakeError, Errored, Written, FullInv, IInv, StreamType, Collector
<1>3. path = "plain" => events' = <<>>  BY <1>1, ArrivesFlow
<1>4. FrameInv'
  <2>1. /\ \A i \in 1 .. Len(OnItsWay') :
                OnItsWay'[i].kind = "done" => i = Len(OnItsWay') /\ agent'.pc = "done"
        /\ \A i \in 1 .. Len(OnItsWay') :
                OnItsWay'[i].kind = "call" =>
                    call = "queued" /\ \A j \in 1 .. Len(OnItsWay') : OnItsWay'[j].kind = "call" => i = j
    <3>. HIDE DEF m, OnItsWay
    <3>. QED  BY <1>1, TailFrame
  <2>. HIDE DEF OnItsWay, m
  <2>. QED  BY <1>1, <1>2, <1>3, <2>1 DEF FullInv, FrameInv
<1>5. ASSUME NEW ch \in Channel  PROVE Counted(shown[ch])
  <2>1. shown[ch] \in Seq(Nat) /\ c.out[ch] \in Seq(Nat) /\ Counted(shown[ch] \o c.out[ch])
    BY <1>1, AnsweredType DEF FullInv, FlowInv, Answered
  <2>. QED  BY <2>1, CountedPart
<1>6. FlowInv'  BY <1>1, <1>5 DEF FlowInv, Answered
<1>. QED  BY <1>4, <1>6

\* The fresh attempt begins with nothing answered and nothing said.
LEMMA StartFreshFlow == ASSUME FullInv, StartFresh PROVE FrameInv' /\ FlowInv'
<1>1. /\ path = "plain" /\ pc = "loop" /\ events = <<>> /\ call = "none" /\ shown = Nothing
      /\ output' = <<>> /\ UNCHANGED <<path, events, call, turnSaw, shown, pc>>
      /\ agent'.pc = "talk" /\ agent'.said = [ch \in Channel |-> 0]
      /\ agent'.open = [ch \in Channel |-> 0]
  BY DEF StartFresh, CanStartFresh, FullInv, FrameInv
<1>2. OnItsWay' = <<>> /\ Len(OnItsWay') = 0  BY <1>1 DEF OnItsWay
<1>3. c'.out = Nothing /\ c'.saw = {} /\ c'.waiting = FALSE /\ c'.calls = c.calls
  BY DEF StartFresh, Reset, FullInv, IInv, StreamType, Collector
<1>4. FrameInv'  BY <1>1, <1>2, <1>3 DEF FullInv, FrameInv
<1>5. ASSUME NEW ch \in Channel
      PROVE  /\ Counted(Answered(ch))'
             /\ Fits(FALSE)' /\ Chain(ch, OnItsWay', Here(ch)', There(ch, FALSE)')
  <2>1. Answered(ch)' = <<>>  BY <1>1, <1>3 DEF Answered, Nothing
  <2>2. Here(ch)' = There(ch, FALSE)' /\ Here(ch)' \in Standing
    BY <1>1, <1>3, <2>1 DEF Here, There, Standing, Block
  <2>3. Fits(FALSE)' /\ Counted(Answered(ch))'  BY <1>1, <2>1 DEF Counted, Fits
  <2>4. Chain(ch, <<>>, Here(ch)', Here(ch)')  BY <2>2, ChainEmpty
  <2>. QED  BY <1>2, <2>2, <2>3, <2>4
<1>. QED  BY <1>4, <1>5 DEF FlowInv

\* The handler returns.
LEMMA ReturnFlow == ASSUME FullInv, Return PROVE FrameInv' /\ FlowInv'
<1>1. /\ pc \in {"ended", "failed"}
      /\ pc' = IF pc = "failed" THEN "aborted" ELSE IF c.calls THEN "away" ELSE "over"
      /\ UNCHANGED <<path, agent, output, events, call, c, turnSaw, shown, OnItsWay>>
  BY DEF Return, OnItsWay
<1>2. \A ch \in Channel :
        /\ Answered(ch)' = Answered(ch) /\ Here(ch)' = Here(ch)
        /\ \A w \in BOOLEAN : There(ch, w)' = There(ch, w) /\ (Fits(w)' <=> Fits(w))
  BY <1>1 DEF Answered, Here, There, Fits
<1>3. FlowInv'  BY <1>1, <1>2 DEF FullInv, FlowInv
<1>. HIDE DEF OnItsWay
<1>4. FrameInv'  BY <1>1 DEF FullInv, FrameInv
<1>. QED  BY <1>3, <1>4

\* The next response begins where the last one ended, in the block it left.
LEMMA AttachFlow == ASSUME FullInv, NEW stream \in BOOLEAN, Attach(stream) PROVE FrameInv' /\ FlowInv'
<1>1. /\ pc = "away" /\ pc' = "loop" /\ call = "offered" /\ call' = "none"
      /\ UNCHANGED <<path, output, events, turnSaw, shown, OnItsWay>>
      /\ agent.pc = "waiting" /\ agent'.pc = "talk" /\ agent'.said = agent.said
      /\ agent'.open = agent.open /\ path = "tools" /\ ~c.waiting
  BY DEF Attach, OnItsWay, FullInv, FrameInv, IInv, StreamType, AgentOK
<1>2. /\ c'.out = Nothing /\ c'.saw = turnSaw /\ c'.waiting = FALSE /\ c'.calls = FALSE
      /\ c.waiting = FALSE
  BY <1>1 DEF Attach, NewCollector, FullInv, IInv, StreamType, Collector
<1>3. ASSUME NEW ch \in Channel
      PROVE  /\ Answered(ch)' = Answered(ch) /\ Here(ch)' = Here(ch)
             /\ \A w \in BOOLEAN : There(ch, w)' = There(ch, w) /\ (Fits(w)' <=> Fits(w))
  <2>1. shown[ch] \o <<>> = shown[ch]
    <3>1. shown[ch] \in Seq(Nat)  BY DEF FullInv, FrameInv
    <3>. QED  BY <3>1, ConcatEmptySeq
  <2>2. Answered(ch)' = Answered(ch)  BY <1>1, <1>2, <2>1 DEF Answered, Nothing
  <2>. QED  BY <1>1, <1>2, <2>2 DEF Here, There, Fits
<1>4. FlowInv'
  <2>1. pc \notin {"failed", "aborted"}  BY <1>1
  <2>. QED  BY <1>1, <1>3, <2>1 DEF FullInv, FlowInv
<1>5. \A i \in 1 .. Len(OnItsWay) : OnItsWay[i].kind \notin {"done", "call"}
  BY <1>1 DEF FullInv, FrameInv
<1>. HIDE DEF OnItsWay
<1>6. FrameInv'  BY <1>1, <1>2, <1>5 DEF FullInv, FrameInv
<1>. QED  BY <1>4, <1>6

LEMMA Flow == Spec => [](FrameInv /\ FlowInv)
<1>. DEFINE Flowing == FrameInv /\ FlowInv
<1>1. Init => Flowing  BY InitFlow
<1>2. IInv /\ IInv' /\ Flowing /\ [Next]_vars => Flowing'
  <2>. SUFFICES ASSUME FullInv, IInv', [Next]_vars  PROVE Flowing'  BY DEF FullInv
  <2>1. CASE UNCHANGED vars
    <3>1. UNCHANGED <<path, shown, turnSaw, c, pc, call, agent, events, OnItsWay>>
      BY <2>1 DEF vars, OnItsWay
    <3>. QED  BY <3>1, StillFlow
  <2>2. CASE \E stream \in BOOLEAN : Attach(stream)  BY <2>2, AttachFlow
  <2>3. CASE TakeCall
    <3>. DEFINE m == [kind |-> "call"]
    <3>1. Arrives(m) /\ Ends([c EXCEPT !.calls = TRUE]) /\ call' = "offered"
          /\ UNCHANGED <<path, agent>>
      BY <2>3 DEF TakeCall
    <3>2. m.kind = "call"  OBVIOUS
    <3>. HIDE DEF m
    <3>. QED  BY <3>1, <3>2, EndsFlow
  <2>4. CASE TakeDone
    <3>. DEFINE m == [kind |-> "done"]
    <3>1. Arrives(m) /\ Ends(c) /\ UNCHANGED <<path, agent, call>>  BY <2>4 DEF TakeDone
    <3>2. m.kind = "done"  OBVIOUS
    <3>. HIDE DEF m
    <3>3. c.calls = FALSE /\ c = [c EXCEPT !.calls = FALSE]
      <4>1. pc = "loop"  BY <3>1 DEF Arrives
      <4>. QED  BY <4>1 DEF FullInv, FrameInv, IInv, StreamType, Collector
    <3>4. Ends([c EXCEPT !.calls = FALSE])  BY <3>1, <3>3
    <3>. QED  BY <3>1, <3>2, <3>4, EndsFlow
  <2>. HIDE DEF Flowing
  <2>5. FrameInv' /\ FlowInv' => Flowing'  BY DEF Flowing
  <2>. QED
    BY <2>1, <2>2, <2>3, <2>4, <2>5, AgentFlow, QueueFlow, BeatFlow, TakeMessageFlow, TakeErrorFlow,
       StartFreshFlow, ReturnFlow
    DEF Next
<1>. QED  BY <1>1, <1>2, Inductive, PTL DEF Spec

\* However the agent cuts its blocks and the tool calls cut its turn, every piece reaches
\* the client once and in order, and a turn that ended has said them all
\* (stream.go:72-99, tool_chat.go:123-124, 183-184).
THEOREM PiecesOnce == Spec => []EachPieceOnce
<1>1. IInv /\ FrameInv /\ FlowInv => EachPieceOnce
  <2>. SUFFICES ASSUME IInv, FrameInv, FlowInv, NEW ch \in Channel
                PROVE  /\ Answered(ch) = [i \in 1 .. Len(Answered(ch)) |-> i]
                       /\ pc = "over" => Len(Answered(ch)) = agent.said[ch]
    BY DEF EachPieceOnce
  <2>1. Answered(ch) \in Seq(Nat) /\ Counted(Answered(ch))  BY AnsweredType DEF FlowInv
  <2>2. Answered(ch) = [i \in 1 .. Len(Answered(ch)) |-> i]
    <3>. DEFINE s == Answered(ch)
                n == Len(s)
    <3>1. s = [i \in 1 .. n |-> s[i]]  BY <2>1, LenProperties
    <3>2. \A i \in 1 .. n : s[i] = i  BY <2>1 DEF Counted
    <3>. HIDE DEF s, n
    <3>3. s = [i \in 1 .. n |-> i]  BY <3>1, <3>2
    <3>. QED  BY <3>3 DEF s, n
  <2>3. pc = "over" => Answered(ch) = shown[ch] /\ Len(shown[ch]) = agent.said[ch]
    BY DEF Answered, FrameInv
  <2>. QED  BY <2>2, <2>3
<1>. QED  BY <1>1, Inductive, Flow, PTL
-----------------------------------------------------------------------------
(* What the client assembles.                                              *)

TextIn(chunk) == IF chunk.kind = "text" THEN chunk.pieces ELSE <<>>

\* The text of chunks is put together in their order.
LEMMA TextTogether ==
    ASSUME NEW w \in Seq(Chunk), NEW chunks \in Seq(Chunk)
    PROVE  TextOf(w) \in Seq(Nat) /\ TextOf(w \o chunks) = TextOf(w) \o TextOf(chunks)
<1>. DEFINE texts(v) == [i \in DOMAIN v |-> TextIn(v[i])]
<1>1. ASSUME NEW v \in Seq(Chunk)  PROVE texts(v) \in Seq(Seq(Nat)) /\ TextOf(v) = FlattenSeq(texts(v))
  <2>1. \A i \in DOMAIN v : TextIn(v[i]) \in Seq(Nat)
    <3>1. \A x \in Chunk : x.kind = "text" => x.pieces \in Seq(Nat)  BY DEF Chunk, Channel
    <3>2. \A i \in DOMAIN v : v[i] \in Chunk  OBVIOUS
    <3>. QED  BY <3>1, <3>2, EmptySeq DEF TextIn
  <2>2. Len(v) \in Nat /\ DOMAIN v = 1 .. Len(v)  BY LenProperties
  <2>. QED  BY <2>1, <2>2, IsASeq DEF TextOf, TextIn
<1>2. texts(w \o chunks) = texts(w) \o texts(chunks)
  <2>1. /\ w \o chunks \in Seq(Chunk) /\ Len(w \o chunks) = Len(w) + Len(chunks)
        /\ \A i \in 1 .. Len(w) + Len(chunks) :
              (w \o chunks)[i] = IF i <= Len(w) THEN w[i] ELSE chunks[i - Len(w)]
    BY ConcatProperties
  <2>2. /\ Len(w) \in Nat /\ Len(chunks) \in Nat /\ DOMAIN w = 1 .. Len(w)
        /\ DOMAIN chunks = 1 .. Len(chunks) /\ DOMAIN (w \o chunks) = 1 .. Len(w \o chunks)
    BY <2>1, LenProperties
  <2>3. Len(texts(w)) = Len(w) /\ Len(texts(chunks)) = Len(chunks)  BY <1>1, <2>2
  <2>4. /\ texts(w) \o texts(chunks) \in Seq(Seq(Nat))
        /\ Len(texts(w) \o texts(chunks)) = Len(w) + Len(chunks)
        /\ \A i \in 1 .. Len(w) + Len(chunks) :
              (texts(w) \o texts(chunks))[i] = IF i <= Len(w) THEN texts(w)[i] ELSE texts(chunks)[i - Len(w)]
    <3>. DEFINE a == texts(w)
                b == texts(chunks)
    <3>1. a \in Seq(Seq(Nat)) /\ b \in Seq(Seq(Nat)) /\ Len(a) = Len(w) /\ Len(b) = Len(chunks)
      BY <1>1, <2>3
    <3>. HIDE DEF a, b
    <3>2. /\ a \o b \in Seq(Seq(Nat)) /\ Len(a \o b) = Len(a) + Len(b)
          /\ \A i \in 1 .. Len(a) + Len(b) : (a \o b)[i] = IF i <= Len(a) THEN a[i] ELSE b[i - Len(a)]
      <4>. DEFINE S == Seq(Nat)
      <4>1. a \in Seq(S) /\ b \in Seq(S)  BY <3>1
      <4>. HIDE DEF S
      <4>2. /\ a \o b \in Seq(S) /\ Len(a \o b) = Len(a) + Len(b)
            /\ \A i \in 1 .. Len(a) + Len(b) : (a \o b)[i] = IF i <= Len(a) THEN a[i] ELSE b[i - Len(a)]
        BY <4>1, ConcatProperties
      <4>. QED  BY <4>2 DEF S
    <3>. QED  BY <3>1, <3>2 DEF a, b
  <2>5. ASSUME NEW i \in 1 .. Len(w) + Len(chunks)
        PROVE  texts(w \o chunks)[i] = (texts(w) \o texts(chunks))[i]
    <3>1. texts(w \o chunks)[i] = TextIn((w \o chunks)[i])  BY <2>1, <2>2
    <3>2. CASE i <= Len(w)
      <4>1. i \in DOMAIN w  BY <2>2, <3>2
      <4>. QED  BY <2>1, <2>4, <3>1, <3>2, <4>1
    <3>3. CASE ~(i <= Len(w))
      <4>1. i - Len(w) \in DOMAIN chunks  BY <2>2, <3>3
      <4>. QED  BY <2>1, <2>4, <3>1, <3>3, <4>1
    <3>. QED  BY <3>2, <3>3
  <2>6. Len(texts(w \o chunks)) = Len(w) + Len(chunks) /\ texts(w \o chunks) \in Seq(Seq(Nat))
    <3>. DEFINE v == w \o chunks
    <3>1. v \in Seq(Chunk) /\ Len(v) = Len(w) + Len(chunks) /\ Len(v) \in Nat /\ DOMAIN v = 1 .. Len(v)
      BY <2>1, <2>2
    <3>. HIDE DEF v
    <3>2. texts(v) \in Seq(Seq(Nat)) /\ DOMAIN texts(v) = 1 .. Len(v)  BY <1>1, <3>1
    <3>3. Len(texts(v)) = Len(v)  BY <3>1, <3>2, LenProperties
    <3>. QED  BY <3>1, <3>2, <3>3 DEF v
  <2>. HIDE DEF texts
  <2>. QED  BY <2>4, <2>5, <2>6, SeqEqual
<1>3. w \o chunks \in Seq(Chunk)  BY ConcatProperties
<1>. HIDE DEF texts
<1>4. \A v \in Seq(Chunk) : TextOf(v) \in Seq(Nat)
  <2>. TAKE v \in Seq(Chunk)
  <2>. QED  BY <1>1, EmptySeq, FlattenAppend
<1>5. TextOf(w \o chunks) = TextOf(w) \o TextOf(chunks)
  <2>. DEFINE a == texts(w)
              b == texts(chunks)
  <2>1. a \in Seq(Seq(Nat)) /\ b \in Seq(Seq(Nat))  BY <1>1
  <2>2. TextOf(w) = FlattenSeq(a) /\ TextOf(chunks) = FlattenSeq(b)  BY <1>1
  <2>3. TextOf(w \o chunks) = FlattenSeq(a \o b)  BY <1>1, <1>2, <1>3
  <2>. HIDE DEF a, b
  <2>4. FlattenSeq(a \o b) = FlattenSeq(a) \o FlattenSeq(b)  BY <2>1, FlattenConcat
  <2>. QED  BY <2>2, <2>3, <2>4
<1>. QED  BY <1>4, <1>5

\* One chunk has its own text.
LEMMA TextOfOne ==
    ASSUME NEW x \in Chunk
    PROVE  TextOf(<<x>>) = TextIn(x) /\ TextOf(<<>>) = <<>>
<1>. DEFINE one == [i \in DOMAIN <<x>> |-> TextIn(<<x>>[i])]
<1>1. TextOf(<<x>>) = FlattenSeq(one)  BY DEF TextOf, TextIn
<1>2. one = <<TextIn(x)>> /\ <<TextIn(x)>> = Append(<<>>, TextIn(x))  OBVIOUS
<1>3. TextIn(x) \in Seq(Nat)  BY EmptySeq DEF TextIn, Chunk, Channel
<1>4. FlattenSeq(<<>>) = <<>> /\ <<>> \in Seq(Seq(Nat))  BY DEF FlattenSeq
<1>5. FlattenSeq(Append(<<>>, TextIn(x))) = <<>> \o TextIn(x)  BY <1>3, <1>4, FlattenAppend
<1>6. TextOf(<<x>>) = TextIn(x)
  <2>1. <<>> \o TextIn(x) = TextIn(x)  BY <1>3
  <2>. HIDE DEF one
  <2>. QED  BY <1>1, <1>2, <1>5, <2>1
<1>7. [i \in DOMAIN <<>> |-> IF <<>>[i].kind = "text" THEN <<>>[i].pieces ELSE <<>>] = <<>>  OBVIOUS
<1>8. TextOf(<<>>) = <<>>  BY <1>4, <1>7 DEF TextOf
<1>. QED  BY <1>6, <1>8

\* Chunks that are not text do not change the text.
LEMMA NoTextAfter ==
    ASSUME NEW w \in Seq(Chunk), NEW x \in Chunk, x.kind # "text"
    PROVE  w \o <<x>> \in Seq(Chunk) /\ TextOf(w \o <<x>>) = TextOf(w)
<1>1. <<x>> \in Seq(Chunk)  OBVIOUS
<1>2. TextOf(<<x>>) = <<>>  BY TextOfOne DEF TextIn
<1>3. TextOf(w) \in Seq(Nat) /\ TextOf(w \o <<x>>) = TextOf(w) \o <<>>  BY <1>1, <1>2, TextTogether
<1>. QED  BY <1>1, <1>3, ConcatProperties, ConcatEmptySeq

LEMMA PairAfter ==
    ASSUME NEW S, NEW w \in Seq(S), NEW x \in S, NEW y \in S
    PROVE  w \o <<x, y>> = (w \o <<x>>) \o <<y>>
<1>1. <<x>> \in Seq(S) /\ <<y>> \in Seq(S)  OBVIOUS
<1>2. <<x, y>> = <<x>> \o <<y>>
  <2>1. <<x, y>> \in Seq(S) /\ Len(<<x, y>>) = 2 /\ <<x, y>>[1] = x /\ <<x, y>>[2] = y  OBVIOUS
  <2>2. /\ <<x>> \o <<y>> \in Seq(S) /\ Len(<<x>> \o <<y>>) = 2
        /\ (<<x>> \o <<y>>)[1] = x /\ (<<x>> \o <<y>>)[2] = y
    BY <1>1
  <2>. DEFINE a == <<x, y>>
              b == <<x>> \o <<y>>
  <2>3. a \in Seq(S) /\ b \in Seq(S) /\ Len(a) = Len(b) /\ \A i \in 1 .. Len(a) : a[i] = b[i]
    BY <2>1, <2>2
  <2>. HIDE DEF a, b
  <2>4. a = b  BY <2>3, SeqEqual
  <2>. QED  BY <2>4 DEF a, b
<1>3. w \o (<<x>> \o <<y>>) = (w \o <<x>>) \o <<y>>
  <2>. DEFINE a == <<x>>
              b == <<y>>
  <2>1. a \in Seq(S) /\ b \in Seq(S)  BY <1>1
  <2>. HIDE DEF a, b
  <2>2. w \o (a \o b) = (w \o a) \o b  BY <2>1
  <2>. QED  BY <2>2 DEF a, b
<1>. QED  BY <1>2, <1>3

\* No more do the last two chunks of a response.
LEMMA NoTextEnd ==
    ASSUME NEW w \in Seq(Chunk), NEW x \in Chunk, NEW y \in Chunk, x.kind # "text", y.kind # "text"
    PROVE  w \o <<x, y>> \in Seq(Chunk) /\ TextOf(w \o <<x, y>>) = TextOf(w)
<1>. DEFINE v == w \o <<x>>
<1>1. v \in Seq(Chunk) /\ TextOf(v) = TextOf(w)  BY NoTextAfter
<1>2. w \o <<x, y>> = v \o <<y>>
  <2>. DEFINE S == Chunk
  <2>1. w \in Seq(S) /\ x \in S /\ y \in S  OBVIOUS
  <2>. HIDE DEF S
  <2>2. w \o <<x, y>> = (w \o <<x>>) \o <<y>>  BY <2>1, PairAfter
  <2>. QED  BY <2>2 DEF v
<1>. HIDE DEF v
<1>3. v \o <<y>> \in Seq(Chunk) /\ TextOf(v \o <<y>>) = TextOf(v)  BY <1>1, NoTextAfter
<1>. QED  BY <1>1, <1>2, <1>3

\* A stream has the text that is recorded; anything else is written at the end.
TextInv ==
    /\ heartbeat # "off" => c.stream
    /\ c.stream => TextOf(c.wire) = c.out["text"]
    /\ ~c.stream /\ pc = "loop" => c.wire = <<>>
    /\ pc \in {"ended", "away", "over"} => TextOf(c.wire) = c.out["text"]

LEMMA TextHandled ==
    ASSUME NEW C \in Collector, NEW m \in Message, m.kind \in {"init", "delta", "full"},
           C.stream => TextOf(C.wire) = C.out["text"], ~C.stream => C.wire = <<>>
    PROVE  LET D == Handled(C, m)
           IN  /\ D.stream = C.stream
               /\ D.stream => TextOf(D.wire) = D.out["text"]
               /\ ~D.stream => D.wire = <<>>
<1>1. ASSUME NEW ch \in Channel, NEW pieces \in Seq(Nat)
      PROVE  LET D == Appended(C, ch, pieces)
             IN  /\ D \in [stream : BOOLEAN, waiting : BOOLEAN, saw : SUBSET Channel,
                           out : [Channel -> Seq(Nat)], calls : BOOLEAN, closed : BOOLEAN,
                           wire : Seq(Chunk)]
                 /\ D.stream = C.stream
                 /\ D.stream => TextOf(D.wire) = D.out["text"]
                 /\ ~D.stream => D.wire = <<>>
  <2>. DEFINE x == [kind |-> ch, pieces |-> pieces]
              B == [C EXCEPT !.out[ch] = @ \o pieces]
              D == Appended(C, ch, pieces)
  <2>1. /\ C.out[ch] \o pieces \in Seq(Nat) /\ C.wire \in Seq(Chunk) /\ C.out["text"] \in Seq(Nat)
        /\ x \in Chunk /\ <<x>> \in Seq(Chunk)
    <3>1. x \in Chunk  BY DEF Chunk
    <3>. QED  BY <3>1, ConcatProperties DEF Collector, Channel
  <2>2. /\ B \in Collector /\ B.stream = C.stream /\ B.wire = C.wire
        /\ B.out["text"] = IF ch = "text" THEN C.out["text"] \o pieces ELSE C.out["text"]
    BY <2>1 DEF Collector, Channel
  <2>3. D = IF C.stream THEN [B EXCEPT !.wire = @ \o <<x>>] ELSE B  BY DEF Appended, Written
  <2>4. TextOf(C.wire \o <<x>>) = TextOf(C.wire) \o (IF ch = "text" THEN pieces ELSE <<>>)
    BY <2>1, TextTogether, TextOfOne DEF TextIn
  <2>5. C.wire \o <<x>> \in Seq(Chunk) /\ C.out["text"] \o <<>> = C.out["text"]
    BY <2>1, ConcatProperties, ConcatEmptySeq
  <2>. HIDE DEF B, D, x
  <2>6. D \in Collector /\ D.stream = C.stream /\ D.out = B.out
        /\ D.wire = IF C.stream THEN C.wire \o <<x>> ELSE C.wire
    BY <2>2, <2>3, <2>5 DEF Collector
  <2>. QED  BY <2>2, <2>4, <2>5, <2>6 DEF D, Collector
<1>2. CASE m.kind = "init"
  <2>1. Handled(C, m) = [C EXCEPT !.waiting = FALSE]  BY <1>2 DEF Handled
  <2>. QED  BY <2>1 DEF Collector
<1>3. CASE m.kind \in {"delta", "full"}
  <2>. DEFINE A == Appended(C, m.channel, m.pieces)
  <2>1. m.channel \in Channel /\ m.pieces \in Seq(Nat)  BY <1>3 DEF Message, Whole, Plain
  <2>2. /\ A \in Collector /\ A.stream = C.stream
        /\ A.stream => TextOf(A.wire) = A.out["text"]
        /\ ~A.stream => A.wire = <<>>
    BY <1>1, <2>1 DEF Collector
  <2>. HIDE DEF A
  <2>3. PICK D \in {C, A}, saw \in SUBSET Channel : Handled(C, m) = [D EXCEPT !.saw = saw] \/ Handled(C, m) = D
    BY <1>3, <2>1, <2>2 DEF Handled, DeltaHandled, FullHandled, A, Collector
  <2>4. /\ [D EXCEPT !.saw = saw].wire = D.wire /\ [D EXCEPT !.saw = saw].stream = D.stream
        /\ [D EXCEPT !.saw = saw].out = D.out
    BY <2>2 DEF Collector
  <2>. QED  BY <2>2, <2>3, <2>4
<1>. QED  BY <1>2, <1>3

\* At the end the client has what is recorded.
LEMMA TextFinished ==
    ASSUME NEW C \in Collector,
           C.stream => TextOf(C.wire) = C.out["text"], ~C.stream => C.wire = <<>>
    PROVE  LET D == Finished(C)
           IN  D.stream = C.stream /\ D.out = C.out /\ TextOf(D.wire) = C.out["text"]
<1>. DEFINE calls == IF C.calls THEN <<[kind |-> "calls"]>> ELSE <<>>
            thinking == [kind |-> "thinking", pieces |-> C.out["thinking"]]
            text == [kind |-> "text", pieces |-> C.out["text"]]
            finish == [kind |-> "finish"]
            done == [kind |-> "DONE"]
            chunks == IF C.stream THEN calls \o <<finish, done>>
                      ELSE <<thinking, text>> \o calls \o <<finish, done>>
            D == Finished(C)
<1>1. /\ thinking \in Chunk /\ text \in Chunk /\ finish \in Chunk /\ done \in Chunk
      /\ [kind |-> "calls"] \in Chunk /\ C.wire \in Seq(Chunk) /\ C.out["text"] \in Seq(Nat)
  BY DEF Chunk, Channel, Collector
<1>2. D.stream = C.stream /\ D.out = C.out /\ D.wire = C.wire \o chunks
  BY DEF Finished, Written, Collector
<1>3. calls \in Seq(Chunk) /\ TextOf(calls) = <<>>
  <2>1. TextOf(<<[kind |-> "calls"]>>) = <<>> /\ TextOf(<<>>) = <<>>
    BY <1>1, TextOfOne DEF TextIn
  <2>. QED  BY <1>1, <2>1, EmptySeq
<1>4. ASSUME NEW w \in Seq(Chunk)
      PROVE  w \o <<finish, done>> \in Seq(Chunk) /\ TextOf(w \o <<finish, done>>) = TextOf(w)
  <2>1. finish.kind # "text" /\ done.kind # "text" /\ finish \in Chunk /\ done \in Chunk  BY <1>1
  <2>. HIDE DEF finish, done
  <2>. QED  BY <2>1, NoTextEnd
<1>5. <<thinking, text>> \in Seq(Chunk) /\ TextOf(<<thinking, text>>) = C.out["text"]
  <2>1. <<thinking, text>> = <<thinking>> \o <<text>> /\ <<thinking>> \in Seq(Chunk) /\ <<text>> \in Seq(Chunk)
        /\ <<thinking, text>> \in Seq(Chunk)
    BY <1>1
  <2>2. TextOf(<<thinking>>) = <<>> /\ TextOf(<<text>>) = C.out["text"]
    BY <1>1, TextOfOne DEF TextIn
  <2>3. TextOf(<<thinking>> \o <<text>>) = <<>> \o C.out["text"]  BY <2>1, <2>2, TextTogether
  <2>. HIDE DEF thinking, text
  <2>. QED  BY <1>1, <2>1, <2>3, ConcatEmptySeq
<1>. HIDE DEF calls, thinking, text, finish, done, D
<1>6. CASE C.stream
  <2>1. calls \o <<finish, done>> \in Seq(Chunk) /\ TextOf(calls \o <<finish, done>>) = <<>>
    BY <1>3, <1>4
  <2>2. chunks \in Seq(Chunk) /\ TextOf(chunks) = <<>>  BY <1>6, <2>1
  <2>. HIDE DEF chunks
  <2>3. TextOf(C.wire \o chunks) = TextOf(C.wire) \o TextOf(chunks)  BY <1>1, <2>2, TextTogether
  <2>4. TextOf(D.wire) = C.out["text"] \o <<>>
    BY <1>2, <1>6, <2>2, <2>3 DEF D
  <2>. QED  BY <1>1, <1>2, <2>4, ConcatEmptySeq DEF D
<1>7. CASE ~C.stream
  <2>1. /\ <<thinking, text>> \o calls \in Seq(Chunk)
        /\ TextOf(<<thinking, text>> \o calls) = C.out["text"] \o <<>>
    BY <1>3, <1>5, TextTogether, ConcatProperties
  <2>2. /\ chunks \in Seq(Chunk) /\ TextOf(chunks) = C.out["text"] \o <<>>
    BY <1>4, <1>7, <2>1
  <2>3. D.wire = chunks
    BY <1>2, <1>7, <2>2, ConcatEmptySeq
  <2>. QED  BY <1>1, <1>2, <2>2, <2>3, ConcatEmptySeq DEF D
<1>. QED  BY <1>6, <1>7

\* Whatever writes, the text stays the recorded one.
LEMMA TextStep == ASSUME IInv, TextInv, [Next]_vars PROVE TextInv'
<1>0. /\ c \in Collector /\ c.wire \in Seq(Chunk) /\ (c.closed <=> pc # "loop")
      /\ c.out["text"] \in Seq(Nat)
  BY DEF IInv, StreamType, PhaseInv, Collector, Channel
<1>1. CASE UNCHANGED <<c, pc, heartbeat>>  BY <1>1 DEF TextInv
<1>2. CASE Beat /\ c' # c
  <2>1. [kind |-> "beat"] \in Chunk  BY DEF Chunk
  <2>2. TextOf(c.wire \o <<[kind |-> "beat"]>>) = TextOf(c.wire)  BY <1>0, <2>1, NoTextAfter
  <2>3. /\ c'.wire = c.wire \o <<[kind |-> "beat"]>> /\ c'.out = c.out /\ c'.stream = c.stream
        /\ heartbeat = "beating" /\ UNCHANGED pc
    BY <1>0, <1>2 DEF Beat, CanBeat, Written, Collector
  <2>. QED  BY <2>2, <2>3 DEF TextInv
<1>3. CASE TakeMessage
  <2>. PICK m : Arrives(m) /\ m.kind \in {"init", "delta", "full"} /\ c' = Handled(c, m)
    BY <1>3 DEF TakeMessage
  <2>1. m \in Message /\ pc = "loop"  BY ArrivesOK DEF Arrives
  <2>2. /\ c'.stream = c.stream
        /\ c'.stream => TextOf(c'.wire) = c'.out["text"]
        /\ ~c'.stream => c'.wire = <<>>
    BY <1>0, <2>1, TextHandled DEF TextInv
  <2>. QED  BY <1>3, <2>1, <2>2 DEF TakeMessage, TextInv
<1>4. ASSUME pc = "loop", NEW calls \in BOOLEAN, Ends([c EXCEPT !.calls = calls]), heartbeat' = heartbeat
      PROVE  TextInv'
  <2>. DEFINE C == [c EXCEPT !.calls = calls]
  <2>1. C \in Collector /\ C.stream = c.stream /\ C.wire = c.wire /\ C.out = c.out
    BY <1>0 DEF Collector
  <2>. HIDE DEF C
  <2>2. c'.stream = c.stream /\ c'.out = c.out /\ TextOf(c'.wire) = c.out["text"]
    BY <1>4, <2>1, TextFinished DEF Ends, TextInv, C
  <2>3. pc' = "ended"  BY <1>4 DEF Ends
  <2>. QED  BY <1>4, <2>2, <2>3 DEF TextInv
<1>5. CASE TakeCall  BY <1>4, <1>5 DEF TakeCall, Arrives
<1>6. CASE TakeDone
  <2>1. c = [c EXCEPT !.calls = c.calls] /\ c.calls \in BOOLEAN  BY <1>0 DEF Collector
  <2>. QED  BY <1>4, <1>6, <2>1 DEF TakeDone, Arrives
<1>7. CASE TakeError
  <2>. DEFINE error == [kind |-> "error"]
              done == [kind |-> "DONE"]
  <2>1. error \in Chunk /\ done \in Chunk  BY DEF Chunk
  <2>2. /\ c'.wire = c.wire \o <<error, done>> /\ c'.out = c.out /\ c'.stream = c.stream
        /\ pc' = "failed" /\ heartbeat' = heartbeat
    BY <1>0, <1>7 DEF TakeError, Errored, Written, Collector
  <2>3. TextOf(c.wire \o <<error, done>>) = TextOf(c.wire)
    <3>1. error.kind # "text" /\ done.kind # "text"  OBVIOUS
    <3>. HIDE DEF error, done
    <3>. QED  BY <1>0, <2>1, <3>1, NoTextEnd
  <2>. HIDE DEF error, done
  <2>. QED  BY <2>2, <2>3 DEF TextInv
<1>8. CASE StartFresh
  <2>1. /\ c'.wire = c.wire /\ c'.stream = c.stream /\ c'.out = Nothing
        /\ c.out["text"] = <<>> /\ pc = "loop" /\ UNCHANGED <<pc, heartbeat>>
    BY <1>0, <1>8 DEF StartFresh, CanStartFresh, Reset, Collector
  <2>2. Nothing["text"] = <<>>  BY DEF Nothing, Channel
  <2>. QED  BY <2>1, <2>2 DEF TextInv
<1>9. CASE Return
  <2>1. heartbeat' = "off" /\ c' = c /\ pc \in {"ended", "failed"} /\ pc' # "loop"
        /\ (pc' \in {"away", "over"} => pc = "ended") /\ pc' # "ended"
    BY <1>9 DEF Return
  <2>. QED  BY <2>1 DEF TextInv
<1>10. ASSUME NEW stream \in BOOLEAN, Attach(stream)  PROVE TextInv'
  <2>1. /\ c'.stream = stream /\ heartbeat' = StartHeartbeat(stream) /\ pc' = "loop" /\ c'.out["text"] = <<>>
        /\ c'.wire = IF stream THEN <<[kind |-> "role"]>> ELSE <<>>
    BY <1>10 DEF Attach, NewCollector, Nothing, Channel
  <2>2. TextOf(<<[kind |-> "role"]>>) = <<>>
    <3>1. [kind |-> "role"] \in Chunk  BY DEF Chunk
    <3>. QED  BY <3>1, TextOfOne DEF TextIn
  <2>. QED  BY <2>1, <2>2 DEF StartHeartbeat, TextInv
<1>11. ASSUME NEW ch \in Channel, NEW kind \in {"delta", "full"}, Replay(ch, kind)
       PROVE  UNCHANGED <<c, pc, heartbeat>>
  BY <1>11 DEF Replay, Says
<1>12. ASSUME NEW ch \in Channel, SayDelta(ch) \/ SayFull(ch)  PROVE UNCHANGED <<c, pc, heartbeat>>
  BY <1>12 DEF SayDelta, SayFull, Says
<1>13. CASE SayInit \/ SayDone \/ SayError \/ MakeCall \/ Relay \/ QueueCall \/ UNCHANGED vars
  <2>1. UNCHANGED <<c, pc, heartbeat>>
    BY <1>13 DEF SayInit, SayDone, SayError, MakeCall, Says, Relay, QueueCall, vars
  <2>. QED  BY <1>1, <2>1
<1>14. CASE (Tick \/ Beat \/ HeartbeatExits) /\ UNCHANGED c
  <2>1. UNCHANGED <<c, pc>> /\ (heartbeat' # "off" => heartbeat # "off")
    BY <1>14 DEF Tick, Beat, HeartbeatExits
  <2>. QED  BY <2>1 DEF TextInv
<1>. QED
  BY <1>1, <1>2, <1>3, <1>5, <1>6, <1>7, <1>8, <1>9, <1>10, <1>11, <1>12, <1>13, <1>14
  DEF Next, Tick, HeartbeatExits

\* The text the client assembles is the text the gateway records (server.go:564,
\* tool_chat.go:128-129), however it is streamed and wherever the turn is cut.
THEOREM TranscriptIsWhatWasSent == Spec => []ClientHasTranscript
<1>1. Init => TextInv
  <2>. SUFFICES ASSUME Init  PROVE TextInv  OBVIOUS
  <2>. PICK stream \in BOOLEAN, resumed \in BOOLEAN :
          c = NewCollector(stream, resumed, {}) /\ pc = "loop"
          /\ heartbeat = StartHeartbeat(stream)
    BY DEF Init
  <2>1. /\ c.stream = stream /\ c.out["text"] = <<>>
        /\ c.wire = IF stream THEN <<[kind |-> "role"]>> ELSE <<>>
    BY DEF NewCollector, Nothing, Channel
  <2>2. TextOf(<<[kind |-> "role"]>>) = <<>>
    <3>1. [kind |-> "role"] \in Chunk  BY DEF Chunk
    <3>. QED  BY <3>1, TextOfOne DEF TextIn
  <2>. QED  BY <2>1, <2>2 DEF StartHeartbeat, TextInv
<1>2. TextInv => ClientHasTranscript  BY DEF TextInv, ClientHasTranscript
<1>. QED  BY <1>1, <1>2, TextStep, Inductive, PTL DEF Spec
=============================================================================
