----------------------------- MODULE ChatProofs -----------------------------
(***************************************************************************)
(* Theorems about a session of the plain path, for conversations of any    *)
(* length, any directories and any number of native sessions.              *)
(*                                                                         *)
(* Whatever goes wrong, the records in memory are those of the session     *)
(* (StoreInv), and so is the file while no write fails (FileInv).  While   *)
(* turns succeed as well, everything the gateway knows of a conversation   *)
(* is also what its native session was told (KnownInv): then the agent     *)
(* sees what the client sent, and what is stored is resumed.               *)
(***************************************************************************)
EXTENDS ChatSession, FiniteSetTheorems, WellFoundedInduction, SequenceTheorems, TLAPS

Control == [pc : {"idle", "start", "run", "save"}, history : Seq(Exchange),
            user : User \cup {Nil}, cwd : Cwd \cup {NoCwd}, resume : BOOLEAN,
            delta : Seq(Exchange)]

ChatType ==
    /\ TypeOK
    /\ ctl \in Control
    /\ ctl.pc # "idle" => ctl.user \in User /\ ctl.cwd \in Cwd

\* A request that resumes has the session to resume, one that starts over has none,
\* and one that runs is in the directory it asked for.
RequestInv ==
    /\ session.resumeID # 0 => session.cwd \in Cwd
    /\ ctl.pc = "start" =>
        /\ session.process = 0
        /\ IF ctl.resume THEN session.resumeID # 0 /\ session.cwd = ctl.cwd ELSE session.resumeID = 0
    /\ ctl.pc \in {"run", "save"} => session.process # 0 /\ session.cwd = ctl.cwd

\* Only between a turn and its Save is the store behind.
StoreInv ==
    server = "open" =>
        /\ ctl.pc # "save" => mem = RecordOf(session)
        /\ ctl.pc = "save" /\ session.resumeID = 0 => mem = Nil

\* The file is behind the memory only if a write has failed.
FileInv == "write" \notin Moves => disk = mem

IInv == ChatType /\ RequestInv /\ StoreInv

\* Turns and writes succeed and no request comes after Server.Close; agents may lose
\* their sessions.
Reliable == Moves \subseteq {"evict", "restart", "lose", "silent"}

\* What the native session n was told, if the agent still has it.
Knows(n, told, cwd) == n \notin lost => native[n].context = told /\ native[n].cwd = cwd

KnownInv ==
    /\ server = "closing" => ctl.pc = "idle"
    /\ disk = mem
    /\ \A n \in NativeId : native[n].cwd = NoCwd => native[n].context = <<>>
    /\ mem # Nil =>
        /\ mem.known # <<>>
        /\ ctl.pc # "save" => Knows(mem.resumeID, mem.known, mem.cwd)
    /\ session.history # Nil => session.history = session.known
    /\ session.resumeID # 0 => session.known # <<>> /\ session.process \in {0, session.resumeID}
    /\ session.process # 0 /\ ctl.pc \in {"idle", "save"} =>
        /\ session.known # <<>>
        /\ Knows(session.process, session.known, session.cwd)
    /\ ctl.pc = "start" => ctl.history = IF ctl.resume THEN session.known \o ctl.delta ELSE ctl.delta
    /\ ctl.pc = "run" /\ session.process \notin lost =>
        /\ native[session.process].context \o ctl.delta = ctl.history
        /\ native[session.process].cwd = ctl.cwd

KInv == IInv /\ KnownInv
-----------------------------------------------------------------------------
(* Sequences, native sessions and records.                                 *)

LEMMA HistoriesAreSeq == Histories \subseteq Seq(Exchange)
<1>1. Histories = UNION {[1 .. m -> Exchange] : m \in 0 .. MaxTurns}
  BY DEF Histories, BoundedSeq, SeqOf
<1>2. 0 .. MaxTurns \subseteq Nat  BY ChatAssumption
<1>. QED  BY <1>1, <1>2, SeqDef

\* What the agent knows and what it is sent make the history.
LEMMA PrefixSplit ==
    ASSUME NEW S, NEW s \in Seq(S), NEW t \in Seq(S), IsPrefix(s, t)
    PROVE  s \o SubSeq(t, Len(s) + 1, Len(t)) = t
<1>1. Len(s) \in Nat /\ Len(t) \in Nat /\ Len(s) <= Len(t)  BY LenProperties DEF IsPrefix
<1>2. s = SubSeq(t, 1, Len(s))  BY SubSeqFull DEF IsPrefix
<1>3. SubSeq(t, 1, Len(s)) \o SubSeq(t, Len(s) + 1, Len(t)) = SubSeq(t, 1, Len(t))
  <2>1. 1 \in 1 .. Len(t) + 1 /\ Len(s) \in (1 - 1) .. Len(t) /\ Len(t) \in Len(s) .. Len(t)
    BY <1>1
  <2>. QED  BY ONLY <2>1, t \in Seq(S), ConcatAdjacentSubSeq
<1>. QED  BY <1>2, <1>3, SubSeqFull

LEMMA NextNativeNew == Made # NativeId => NextNative \in NativeId \ Made
<1>. SUFFICES ASSUME Made # NativeId  PROVE NextNative \in NativeId \ Made  OBVIOUS
<1>. DEFINE R == OpToRel(<, Nat)
            New == NativeId \ Made
<1>1. IsWellFoundedOn(R, Nat)  BY NatLessThanWellFounded
<1>2. \A n, k \in Nat : n < k => <<n, k>> \in R  BY DEF OpToRel
<1>. HIDE DEF R
<1>3. New \subseteq Nat /\ New # {}  BY ChatAssumption, FS_CardinalityType DEF Made
<1>. HIDE DEF New
<1>4. PICK n \in New : \A k \in New : <<k, n>> \notin R  BY <1>1, <1>3, WFMin
<1>5. \A k \in New : ~ (k < n)  BY <1>2, <1>3, <1>4, Zenon
<1>6. \A k \in New : n <= k  BY <1>3, <1>5
<1>. QED  BY <1>6 DEF NextNative, New

LEMMA ZeroIsNoNative == 0 \notin NativeId /\ NativeId \subseteq Nat
  BY ChatAssumption, FS_CardinalityType

\* A session with a resume ID has a record, and a record restores the session.
LEMMA RecordType ==
    ASSUME ChatType, RequestInv, session.resumeID # 0
    PROVE  RecordOf(session) \in Record /\ RecordOf(session) # Nil
  BY ChatAssumption DEF ChatType, TypeOK, RequestInv, RecordOf, Record

LEMMA RestoredRecord ==
    ASSUME NEW r \in Record \cup {Nil}
    PROVE  /\ RecordOf(Restored(r)) = r
           /\ Restored(r) \in [process : {0}, history : {Nil}, known : Seq(Exchange),
                               resumeID : NativeId \cup {0}, cwd : Cwd \cup {NoCwd}]
           /\ Restored(r).resumeID # 0 => r # Nil /\ Restored(r).cwd \in Cwd
  BY ChatAssumption, ZeroIsNoNative, EmptySeq DEF RecordOf, Restored, FreshSession, Record

\* clearSession leaves neither a session nor a record.
LEMMA Cleared ==
    ASSUME ChatType, ClearSession
    PROVE  /\ session' = FreshSession(session.cwd) /\ mem' = Nil /\ disk' \in Record \cup {Nil}
           /\ FreshSession(session.cwd) \in
                [process : {0}, history : {Nil}, known : {<<>>}, resumeID : {0}, cwd : Cwd \cup {NoCwd}]
           /\ RecordOf(FreshSession(session.cwd)) = Nil
  BY DEF ChatType, TypeOK, ClearSession, Delete, Write, FreshSession, RecordOf
-----------------------------------------------------------------------------
(* The store follows the session.                                          *)

LEMMA InitInv == Init => IInv
<1>. SUFFICES ASSUME Init  PROVE IInv  OBVIOUS
<1>1. ChatType
  BY EmptySeq DEF Init, ChatType, TypeOK, FreshSession, Idle, Control
<1>2. RequestInv /\ StoreInv
  BY DEF Init, RequestInv, StoreInv, FreshSession, Idle, RecordOf
<1>. QED  BY <1>1, <1>2 DEF IInv

LEMMA RequestStep ==
    ASSUME IInv, NEW h \in Histories, NEW u \in User, NEW cwd \in Cwd, NEW valid \in BOOLEAN,
           Request(h, u, cwd, valid)
    PROVE  IInv'
<1>. DEFINE continuation == session.cwd = cwd /\ Matches(h)
            resume == session.process = 0 /\ session.resumeID # 0 /\ continuation
            reset == ~continuation \/ (session.process = 0 /\ ~resume)
            delta == IF reset THEN h ELSE SubSeq(h, HistoryCount + 1, Len(h))
            C == [pc |-> IF session'.process = 0 THEN "start" ELSE "run",
                  history |-> h, user |-> u, cwd |-> cwd, resume |-> resume, delta |-> delta]
<1>1. /\ ctl.pc = "idle"
      /\ IF reset THEN ClearSession ELSE UNCHANGED <<session, mem, disk>>
      /\ ctl' = IF ~valid THEN Idle ELSE C
      /\ UNCHANGED <<native, lost, server>>
  BY DEF Request
<1>2. ChatType /\ RequestInv /\ StoreInv /\ h \in Seq(Exchange)
  BY HistoriesAreSeq DEF IInv
<1>3. HistoryCount \in Nat
  BY <1>2, LenProperties DEF ChatType, TypeOK, HistoryCount
<1>4. SubSeq(h, HistoryCount + 1, Len(h)) \in Seq(Exchange)
  <2>1. Len(h) \in Nat /\ \A i \in HistoryCount + 1 .. Len(h) : h[i] \in Exchange
    BY <1>2, <1>3, LenProperties, ElementOfSeq
  <2>. QED  BY <1>3, <2>1, SubSeqProperties
<1>5. delta \in Seq(Exchange)  BY <1>2, <1>4
<1>6. /\ session' \in [process : NativeId \cup {0}, history : Seq(Exchange) \cup {Nil},
                       known : Seq(Exchange), resumeID : NativeId \cup {0}, cwd : Cwd \cup {NoCwd}]
      /\ mem' \in Record \cup {Nil} /\ disk' \in Record \cup {Nil}
  BY <1>1, <1>2, Cleared, EmptySeq DEF ChatType, TypeOK
<1>. HIDE DEF delta
<1>7. C \in Control  BY <1>2, <1>5 DEF Control
<1>8. Idle \in Control /\ Idle.pc = "idle"  BY EmptySeq DEF Idle, Control
<1>9. ChatType'
  <2>1. ctl' \in Control /\ (ctl'.pc # "idle" => ctl'.user \in User /\ ctl'.cwd \in Cwd)
    BY <1>1, <1>7, <1>8
  <2>. QED  BY <1>1, <1>2, <1>6, <2>1 DEF ChatType, TypeOK, Control
<1>10. StoreInv'
  BY <1>1, <1>2, <1>8, Cleared DEF StoreInv, RecordOf
<1>11. RequestInv'
  BY <1>1, <1>2, <1>8, Cleared DEF RequestInv
<1>. QED  BY <1>9, <1>10, <1>11 DEF IInv

\* The one retry: the session is cleared and all the messages will be sent.
LEMMA StartsOver ==
    ASSUME IInv, ClearSession, StartOver, ctl.pc # "idle", UNCHANGED <<native, lost, server>>
    PROVE  IInv'
<1>. USE DEF IInv
<1>1. ctl' = [ctl EXCEPT !.pc = "start", !.resume = FALSE, !.delta = ctl.history]  BY DEF StartOver
<1>2. ctl' \in Control /\ ctl'.pc = "start" /\ ~ctl'.resume /\ ctl'.user \in User /\ ctl'.cwd \in Cwd
  BY <1>1 DEF ChatType, Control
<1>3. /\ session'.process = 0 /\ session'.resumeID = 0
      /\ session' \in [process : NativeId \cup {0}, history : Seq(Exchange) \cup {Nil},
                       known : Seq(Exchange), resumeID : NativeId \cup {0}, cwd : Cwd \cup {NoCwd}]
      /\ mem' = Nil /\ disk' \in Record \cup {Nil}
  BY Cleared, EmptySeq
<1>4. ChatType'  BY <1>2, <1>3 DEF ChatType, TypeOK
<1>5. RequestInv' /\ StoreInv'  BY <1>2, <1>3 DEF RequestInv, StoreInv, RecordOf
<1>. QED  BY <1>4, <1>5

LEMMA StartSteps == ASSUME IInv, StartOk \/ StartMissing \/ StartFails PROVE IInv'
<1>. USE DEF IInv
<1>1. CASE StartOk
  <2>. DEFINE n == IF ctl.resume THEN session.resumeID ELSE NextNative
  <2>1. n \in NativeId /\ n # 0
    BY <1>1, NextNativeNew, ZeroIsNoNative DEF StartOk, RequestInv, ChatType, TypeOK
  <2>2. /\ session' = [session EXCEPT !.process = n, !.cwd = ctl.cwd]
        /\ native' = IF ctl.resume THEN native ELSE [native EXCEPT ![n].cwd = ctl.cwd]
        /\ ctl' = [ctl EXCEPT !.pc = "run"] /\ ctl.pc = "start"
        /\ UNCHANGED <<lost, mem, disk, server>>
    BY <1>1 DEF StartOk
  <2>. HIDE DEF n
  <2>3. native' \in [NativeId -> [context : Seq([user : User, answer : Answer \cup {Cut}]),
                                 cwd : Cwd \cup {NoCwd}]]
    BY <2>1, <2>2 DEF ChatType, TypeOK
  <2>4. ChatType'  BY <2>1, <2>2, <2>3 DEF ChatType, TypeOK, Control
  <2>5. RequestInv'  BY <2>1, <2>2 DEF ChatType, TypeOK, Control, RequestInv
  <2>6. StoreInv'  BY <2>1, <2>2 DEF ChatType, TypeOK, Control, RequestInv, StoreInv, RecordOf
  <2>. QED  BY <2>4, <2>5, <2>6
<1>2. CASE StartMissing
  BY <1>2, StartsOver DEF StartMissing
<1>3. CASE StartFails
  BY <1>3, EmptySeq DEF StartFails, Idle, ChatType, TypeOK, Control, RequestInv, StoreInv
<1>. QED  BY <1>1, <1>2, <1>3

\* What the agent has been told when a turn ends.
LEMMA ToldType ==
    ASSUME ChatType, RequestInv, Running, NEW a \in Answer \cup {Cut}
    PROVE  /\ session.process \in NativeId
           /\ Told(a) \in Seq([user : User, answer : Answer \cup {Cut}])
           /\ [native EXCEPT ![session.process].context = Told(a)]
                \in [NativeId -> [context : Seq([user : User, answer : Answer \cup {Cut}]),
                                 cwd : Cwd \cup {NoCwd}]]
<1>. DEFINE E == [user : User, answer : Answer \cup {Cut}]
            e == [user |-> ctl.user, answer |-> a]
<1>1. session.process \in NativeId /\ ctl.user \in User
  BY DEF ChatType, TypeOK, RequestInv, Running
<1>2. native[session.process].context \in Seq(E)  BY <1>1 DEF ChatType, TypeOK
<1>3. ctl.delta \in Seq(E)
  <2>1. ctl.delta \in Seq(Exchange) /\ Exchange \subseteq E  BY DEF ChatType, Control, Exchange
  <2>. QED  BY <2>1, SeqMonotonic
<1>4. <<e>> \in Seq(E)  BY <1>1
<1>5. Told(a) \in Seq(E)  BY <1>2, <1>3, <1>4, ConcatProperties DEF Told
<1>. QED  BY <1>1, <1>5 DEF ChatType, TypeOK

LEMMA InterruptedType ==
    ASSUME ChatType, RequestInv, Running, Interrupted
    PROVE  native' \in [NativeId -> [context : Seq([user : User, answer : Answer \cup {Cut}]),
                                    cwd : Cwd \cup {NoCwd}]]
<1>1. CASE native' = native  BY <1>1 DEF ChatType, TypeOK
<1>2. CASE native' = [native EXCEPT ![session.process].context = Told(Cut)]  BY <1>2, ToldType
<1>. QED  BY <1>1, <1>2 DEF Interrupted

LEMMA RunSteps ==
    ASSUME IInv,
           \/ \E answer \in Answer, reported \in BOOLEAN : RunOk(answer, reported)
           \/ RunMissing \/ RunFails
    PROVE  IInv'
<1>. USE DEF IInv
<1>1. ASSUME NEW answer \in Answer, NEW reported \in BOOLEAN, RunOk(answer, reported)  PROVE IInv'
  <2>. DEFINE history == Append(ctl.history, [user |-> ctl.user, answer |-> answer])
  <2>1. history \in Seq(Exchange)
    <3>1. ctl.history \in Seq(Exchange) /\ [user |-> ctl.user, answer |-> answer] \in Exchange
      BY <1>1 DEF RunOk, Running, ChatType, Control, Exchange
    <3>. QED  BY <3>1, AppendProperties
  <2>2. /\ Running /\ server = "open"
        /\ native' = [native EXCEPT ![session.process].context = Told(answer)]
        /\ session' = [session EXCEPT !.history = history, !.known = history,
                                     !.resumeID = IF reported THEN session.process ELSE @]
        /\ ctl' = [ctl EXCEPT !.pc = "save"]
        /\ UNCHANGED <<lost, mem, disk, server>>
    BY <1>1 DEF RunOk
  <2>. HIDE DEF history
  <2>3. ChatType'
    <3>1. native' \in [NativeId -> [context : Seq([user : User, answer : Answer \cup {Cut}]),
                                   cwd : Cwd \cup {NoCwd}]]
      BY <2>2, ToldType
    <3>. QED  BY <2>1, <2>2, <3>1 DEF ChatType, TypeOK, Control, Running
  <2>4. RequestInv'  BY <2>2 DEF ChatType, TypeOK, Control, RequestInv, Running
  <2>5. StoreInv'
    BY <2>2 DEF ChatType, TypeOK, Control, RequestInv, StoreInv, RecordOf, Running
  <2>. QED  BY <2>3, <2>4, <2>5
<1>2. CASE RunMissing
  BY <1>2, StartsOver DEF RunMissing, Running
<1>3. CASE RunFails
  <2>1. ChatType'
    BY <1>3, InterruptedType, EmptySeq DEF RunFails, ChatType, TypeOK, Control, Idle
  <2>2. RequestInv' /\ StoreInv'
    BY <1>3 DEF RunFails, Running, ChatType, TypeOK, RequestInv, StoreInv, RecordOf, Idle
  <2>. QED  BY <2>1, <2>2
<1>. QED  BY <1>1, <1>2, <1>3

\* The store catches up with the session.
LEMMA SaveStep == ASSUME IInv, Save PROVE IInv'
<1>. USE DEF IInv
<1>1. mem' \in Record \cup {Nil} /\ disk' \in Record \cup {Nil}
  BY RecordType DEF Save, Put, Write, RecordOf, ChatType, TypeOK
<1>2. ChatType'  BY <1>1, EmptySeq DEF Save, ChatType, TypeOK, Control, Idle
<1>3. RequestInv'  BY DEF Save, RequestInv, Idle
<1>4. StoreInv'
  BY RecordType DEF Save, Put, StoreInv, RecordOf, Idle
<1>. QED  BY <1>2, <1>3, <1>4

LEMMA OtherSteps ==
    ASSUME IInv, Evict \/ Close \/ OtherWrite \/ (\E n \in NativeId : Lose(n)) \/ UNCHANGED vars
    PROVE  IInv'
<1>. USE DEF IInv
<1>1. CASE Evict
  BY <1>1 DEF Evict, Evicted, ChatType, TypeOK, Control, RequestInv, StoreInv, RecordOf
<1>2. CASE Close
  BY <1>2, EmptySeq DEF Close, FreshSession, ChatType, TypeOK, Control, RequestInv, StoreInv
<1>3. CASE OtherWrite
  BY <1>3 DEF OtherWrite, ChatType, TypeOK, Control, RequestInv, StoreInv, RecordOf
<1>4. CASE \E n \in NativeId : Lose(n)
  BY <1>4 DEF Lose, Made, ChatType, TypeOK, Control, RequestInv, StoreInv, RecordOf
<1>5. CASE UNCHANGED vars
  <2>1. ChatType'  BY <1>5 DEF vars, ChatType, TypeOK
  <2>2. RequestInv' /\ StoreInv'  BY <1>5 DEF vars, RequestInv, StoreInv, RecordOf
  <2>. QED  BY <2>1, <2>2
<1>. QED  BY <1>1, <1>2, <1>3, <1>4, <1>5

\* A new process of the gateway goes on with what the file has.
LEMMA BootSteps == ASSUME IInv, Restart \/ Crash PROVE IInv'
<1>. USE DEF IInv
<1>1. Boot /\ UNCHANGED <<lost, disk>>  BY DEF Restart, Crash
<1>2. native' \in [NativeId -> [context : Seq([user : User, answer : Answer \cup {Cut}]),
                               cwd : Cwd \cup {NoCwd}]]
  BY InterruptedType DEF Restart, Crash, ChatType, TypeOK
<1>3. disk \in Record \cup {Nil}  BY DEF ChatType, TypeOK
<1>4. ctl' = Idle /\ Idle \in Control /\ Idle.pc = "idle"  BY <1>1, EmptySeq DEF Boot, Idle, Control
<1>5. ChatType'
  BY <1>1, <1>2, <1>3, <1>4, RestoredRecord DEF Boot, ChatType, TypeOK
<1>6. RequestInv' /\ StoreInv'
  BY <1>1, <1>3, <1>4, RestoredRecord DEF Boot, RequestInv, StoreInv, RecordOf
<1>. QED  BY <1>5, <1>6

THEOREM Inductive == Spec => []IInv
<1>1. IInv /\ [Next]_vars => IInv'
  BY RequestStep, StartSteps, RunSteps, SaveStep, OtherSteps, BootSteps DEF Next
<1>. QED  BY <1>1, InitInv, PTL DEF Spec

\* The type invariant of the run ChatSession.
THEOREM TypeCorrect == Spec => []TypeOK
<1>1. IInv => TypeOK  BY DEF IInv, ChatType
<1>. QED  BY <1>1, Inductive, PTL

\* Every write, of this session or another one, leaves the records in memory in the file,
\* and a new process of the gateway begins with what it reads there.
LEMMA FileFollows == Spec => []FileInv
<1>1. Init => FileInv  BY DEF Init, FileInv
<1>2. ASSUME FileInv, [Next]_vars  PROVE FileInv'
  <2>. SUFFICES ASSUME "write" \notin Moves  PROVE disk' = mem'  BY DEF FileInv
  <2>1. disk = mem  BY <1>2 DEF FileInv
  <2>2. ClearSession => disk' = mem'  BY <2>1 DEF ClearSession, Delete, Write
  <2>3. ASSUME NEW h \in Histories, NEW u \in User, NEW cwd \in Cwd, NEW valid \in BOOLEAN,
               Request(h, u, cwd, valid)
        PROVE  disk' = mem'
    <3>1. ClearSession \/ UNCHANGED <<session, mem, disk>>  BY <2>3 DEF Request
    <3>. QED  BY <2>1, <2>2, <3>1
  <2>4. StartOk \/ StartMissing \/ StartFails => disk' = mem'
    BY <2>1, <2>2 DEF StartOk, StartMissing, StartFails
  <2>5. (\E answer \in Answer, reported \in BOOLEAN : RunOk(answer, reported))
           \/ RunMissing \/ RunFails => disk' = mem'
    BY <2>1, <2>2 DEF RunOk, RunMissing, RunFails
  <2>6. Save => disk' = mem'  BY <2>1 DEF Save, Put, Write
  <2>7. Restart \/ Crash => disk' = mem'  BY DEF Restart, Crash, Boot
  <2>8. Evict \/ Close \/ OtherWrite \/ (\E n \in NativeId : Lose(n)) \/ UNCHANGED vars
           => disk' = mem'
    BY <2>1 DEF Evict, Close, OtherWrite, Lose, vars
  <2>. QED  BY <1>2, <2>3, <2>4, <2>5, <2>6, <2>7, <2>8 DEF Next
<1>. QED  BY <1>1, <1>2, PTL DEF Spec

\* Between two requests the records in memory are those of the session, whatever fails,
\* and those of the file are too if no write fails (server.go:572-579, 587-599).
THEOREM StoreFollows == Spec => []StoreFollowsSession
<1>1. IInv /\ FileInv => StoreFollowsSession  BY DEF IInv, StoreInv, FileInv, StoreFollowsSession
<1>. QED  BY <1>1, Inductive, FileFollows, PTL
-----------------------------------------------------------------------------
(* What is known of a conversation is what its native session was told.    *)

LEMMA InitKnown == Init => KnownInv
  BY DEF Init, KnownInv, FreshSession, Idle

\* A request that continues sends what the agent does not know yet.
LEMMA Continuation ==
    ASSUME ChatType, session.history # Nil => session.history = session.known,
           NEW h \in Seq(Exchange), Matches(h)
    PROVE  session.known \o SubSeq(h, HistoryCount + 1, Len(h)) = h
<1>1. session.known \in Seq(Exchange)  BY DEF ChatType, TypeOK
<1>2. IsPrefix(session.known, h) /\ HistoryCount = Len(session.known)
  BY DEF Matches, HistoryCount
<1>. QED  BY <1>1, <1>2, PrefixSplit

\* clearSession leaves nothing that could be wrong.
LEMMA ClearedKnows ==
    ASSUME KInv, Reliable, ClearSession, UNCHANGED <<native, lost, server>>, server = "open",
           \/ ctl'.pc = "idle"
           \/ ctl'.pc = "start" /\ ~ctl'.resume /\ ctl'.history = ctl'.delta
    PROVE  KnownInv'
<1>1. session'.process = 0 /\ session'.history = Nil /\ session'.resumeID = 0 /\ mem' = Nil
  BY DEF ClearSession, FreshSession, Delete
<1>2. disk' = Nil
  BY DEF KInv, KnownInv, Reliable, ClearSession, Delete, Write
<1>. QED  BY <1>1, <1>2 DEF KInv, KnownInv, Knows

LEMMA RequestKnows ==
    ASSUME KInv, Reliable, NEW h \in Histories, NEW u \in User, NEW cwd \in Cwd,
           NEW valid \in BOOLEAN, Request(h, u, cwd, valid)
    PROVE  KnownInv'
<1>. DEFINE continuation == session.cwd = cwd /\ Matches(h)
            resume == session.process = 0 /\ session.resumeID # 0 /\ continuation
            reset == ~continuation \/ (session.process = 0 /\ ~resume)
            delta == IF reset THEN h ELSE SubSeq(h, HistoryCount + 1, Len(h))
            C == [pc |-> IF session'.process = 0 THEN "start" ELSE "run",
                  history |-> h, user |-> u, cwd |-> cwd, resume |-> resume, delta |-> delta]
<1>1. /\ ctl.pc = "idle" /\ server = "open"
      /\ IF reset THEN ClearSession ELSE UNCHANGED <<session, mem, disk>>
      /\ ctl' = IF ~valid THEN Idle ELSE C
      /\ UNCHANGED <<native, lost, server>>
  BY DEF Request, Reliable
<1>2. h \in Seq(Exchange)  BY HistoriesAreSeq
<1>3. CASE reset
  <2>1. session'.process = 0 /\ ClearSession  BY <1>1, <1>3 DEF ClearSession, FreshSession
  <2>2. ~resume /\ delta = h  BY <1>3
  <2>. HIDE DEF reset, resume, delta
  <2>. QED  BY <1>1, <2>1, <2>2, ClearedKnows DEF Idle
<1>4. CASE ~reset
  <2>1. UNCHANGED <<session, mem, disk, native, lost, server>>  BY <1>1, <1>4
  <2>2. session.known \o delta = h /\ session.cwd = cwd  BY <1>2, <1>4, Continuation DEF KInv, IInv, KnownInv
  <2>3. resume = (session.process = 0)  BY <1>4
  <2>. HIDE DEF reset, resume, delta
  <2>4. CASE ~valid
    BY <1>1, <2>1, <2>4 DEF KInv, KnownInv, Knows, Idle
  <2>5. CASE valid
    <3>1. /\ ctl'.pc = (IF session.process = 0 THEN "start" ELSE "run")
          /\ ctl'.history = h /\ ctl'.cwd = cwd /\ ctl'.resume = resume /\ ctl'.delta = delta
      BY <1>1, <2>1, <2>5
    <3>2. session.process # 0 => Knows(session.process, session.known, session.cwd)
      BY <1>1 DEF KInv, KnownInv
    <3>. QED  BY <1>1, <2>1, <2>2, <2>3, <3>1, <3>2 DEF KInv, KnownInv, Knows
  <2>. QED  BY <2>4, <2>5
<1>. QED  BY <1>3, <1>4

LEMMA StartKnows == ASSUME KInv, Reliable, StartOk \/ StartMissing \/ StartFails PROVE KnownInv'
<1>. USE DEF KInv, IInv
<1>0. ctl.pc = "start" /\ server = "open"
  BY DEF StartOk, StartMissing, StartFails, KnownInv, ChatType, TypeOK
<1>1. CASE StartOk
  <2>. DEFINE n == IF ctl.resume THEN session.resumeID ELSE NextNative
  <2>1. /\ session' = [session EXCEPT !.process = n, !.cwd = ctl.cwd]
        /\ native' = IF ctl.resume THEN native ELSE [native EXCEPT ![n].cwd = ctl.cwd]
        /\ ctl' = [ctl EXCEPT !.pc = "run"]
        /\ UNCHANGED <<lost, mem, disk, server>>
    BY <1>1 DEF StartOk
  <2>2. /\ session'.process = n /\ session'.history = session.history /\ session'.known = session.known
        /\ session'.resumeID = session.resumeID
        /\ ctl'.pc = "run" /\ ctl'.history = ctl.history /\ ctl'.delta = ctl.delta /\ ctl'.cwd = ctl.cwd
    BY <2>1 DEF ChatType, TypeOK, Control
  <2>3. CASE ctl.resume
    <3>1. session.resumeID # 0 /\ session.cwd = ctl.cwd /\ mem = RecordOf(session)
      BY <1>0, <2>3 DEF RequestInv, StoreInv
    <3>2. mem # Nil /\ mem = [resumeID |-> session.resumeID, cwd |-> session.cwd, known |-> session.known]
      BY <3>1, RecordType DEF RecordOf
    <3>3. Knows(session.resumeID, session.known, ctl.cwd)
      BY <1>0, <3>1, <3>2 DEF KnownInv
    <3>4. native' = native /\ n = session.resumeID  BY <2>1, <2>3
    <3>5. session'.process = session.resumeID  BY <2>2, <3>4
    <3>. HIDE DEF n
    <3>6. /\ native' = native /\ lost' = lost /\ mem' = mem /\ disk' = disk /\ server' = server
          /\ session'.history = session.history /\ session'.known = session.known
          /\ session'.resumeID = session.resumeID /\ ctl'.pc = "run"
          /\ ctl'.history = ctl.history /\ ctl'.delta = ctl.delta /\ ctl'.cwd = ctl.cwd
      BY <2>1, <2>2, <3>4
    <3>7. ctl.history = session.known \o ctl.delta  BY <1>0, <2>3 DEF KnownInv
    <3>8. session'.process \notin lost' =>
            /\ native'[session'.process].context \o ctl'.delta = ctl'.history
            /\ native'[session'.process].cwd = ctl'.cwd
      BY ONLY <3>3, <3>5, <3>6, <3>7 DEF Knows
    <3>. QED  BY ONLY KnownInv, <1>0, <3>5, <3>6, <3>8 DEF KnownInv, Knows
  <2>4. CASE ~ctl.resume
    <3>1. session.resumeID = 0 /\ mem = Nil
      BY <1>0, <2>4 DEF RequestInv, StoreInv, RecordOf
    <3>2. n \in NativeId /\ native[n].cwd = NoCwd
      BY <1>1, <2>4, NextNativeNew DEF StartOk, Made
    <3>3. native[n].context = <<>> /\ ctl.delta = ctl.history /\ ctl.delta \in Seq(Exchange)
          /\ ctl.cwd \in Cwd
      BY <1>0, <2>4, <3>2 DEF KnownInv, ChatType, Control
    <3>4. /\ native'[n].context = <<>> /\ native'[n].cwd = ctl.cwd
          /\ \A k \in NativeId : k # n => native'[k] = native[k]
      BY <2>1, <2>4, <3>2, <3>3 DEF ChatType, TypeOK
    <3>5. <<>> \o ctl.delta = ctl.delta  BY <3>3, ConcatEmptySeq
    <3>6. \A k \in NativeId : native'[k].cwd = NoCwd => native'[k].context = <<>>
      BY <3>4 DEF KnownInv
    <3>7. /\ lost' = lost /\ mem' = Nil /\ disk' = disk /\ server' = server
          /\ session'.process = n /\ session'.resumeID = 0
          /\ session'.history = session.history /\ session'.known = session.known
      BY <2>1, <2>2, <3>1
    <3>. HIDE DEF n
    <3>8. /\ native'[session'.process].context \o ctl'.delta = ctl'.history
          /\ native'[session'.process].cwd = ctl'.cwd
      BY <2>2, <3>3, <3>4, <3>5, <3>7
    <3>9. disk' = mem' /\ ctl'.pc = "run" /\ server' = "open"  BY <1>0, <2>2, <3>1, <3>7 DEF KnownInv
    <3>. QED  BY ONLY KnownInv, <3>6, <3>7, <3>8, <3>9 DEF KnownInv
  <2>. QED  BY <2>3, <2>4
<1>2. CASE StartMissing
  <2>1. ctl' = [ctl EXCEPT !.pc = "start", !.resume = FALSE, !.delta = ctl.history]
    BY <1>2 DEF StartMissing, StartOver
  <2>2. ctl'.pc = "start" /\ ~ctl'.resume /\ ctl'.history = ctl'.delta  BY <2>1 DEF ChatType, Control
  <2>. QED  BY <1>0, <1>2, <2>2, ClearedKnows DEF StartMissing
<1>3. CASE StartFails
  BY <1>0, <1>3 DEF StartFails, Reliable
<1>. QED  BY <1>1, <1>2, <1>3

LEMMA RunKnows ==
    ASSUME KInv, Reliable,
           \/ \E answer \in Answer, reported \in BOOLEAN : RunOk(answer, reported)
           \/ RunMissing \/ RunFails
    PROVE  KnownInv'
<1>. USE DEF KInv, IInv
<1>0. ctl.pc = "run" /\ server = "open" /\ session.process \in NativeId /\ session.process # 0
  BY DEF RunOk, RunMissing, RunFails, Running, KnownInv, ChatType, TypeOK, RequestInv
<1>1. ASSUME NEW answer \in Answer, NEW reported \in BOOLEAN, RunOk(answer, reported)
      PROVE  KnownInv'
  <2>. DEFINE e == [user |-> ctl.user, answer |-> answer]
              history == Append(ctl.history, e)
              p == session.process
  <2>1. /\ p \notin lost
        /\ native' = [native EXCEPT ![p].context = Told(answer)]
        /\ session' = [session EXCEPT !.history = history, !.known = history,
                                     !.resumeID = IF reported THEN p ELSE @]
        /\ ctl' = [ctl EXCEPT !.pc = "save"]
        /\ UNCHANGED <<lost, mem, disk, server>>
    BY <1>1 DEF RunOk
  <2>2. e \in Exchange /\ ctl.history \in Seq(Exchange) /\ ctl.cwd \in Cwd
    BY <1>0 DEF ChatType, Control, Exchange
  <2>3. Told(answer) = history
    BY <1>0, <2>1, <2>2, AppendIsConcat DEF KnownInv, Told
  <2>4. history # <<>>  BY <2>2, AppendProperties
  <2>5. native[p].cwd = ctl.cwd /\ session.cwd = ctl.cwd
    BY <1>0, <2>1 DEF KnownInv, RequestInv
  <2>. HIDE DEF history
  <2>6. /\ native'[p].context = history /\ native'[p].cwd = ctl.cwd
        /\ \A k \in NativeId : k # p => native'[k] = native[k]
    BY <1>0, <2>1, <2>3, <2>5 DEF ChatType, TypeOK
  <2>7. /\ session'.process = p /\ session'.history = history /\ session'.known = history
        /\ session'.cwd = session.cwd /\ session'.resumeID \in {p, session.resumeID}
        /\ ctl'.pc = "save"
    BY <2>1 DEF ChatType, TypeOK, Control
  <2>8. \A k \in NativeId : native'[k].cwd = NoCwd => native'[k].context = <<>>
    BY <2>2, <2>6, ChatAssumption DEF KnownInv
  <2>. QED
    BY <1>0, <2>1, <2>4, <2>5, <2>6, <2>7, <2>8 DEF KnownInv, Knows
<1>2. CASE RunMissing
  <2>1. ctl' = [ctl EXCEPT !.pc = "start", !.resume = FALSE, !.delta = ctl.history]
    BY <1>2 DEF RunMissing, StartOver
  <2>2. ctl'.pc = "start" /\ ~ctl'.resume /\ ctl'.history = ctl'.delta  BY <2>1 DEF ChatType, Control
  <2>. QED  BY <1>0, <1>2, <2>2, ClearedKnows DEF RunMissing
<1>3. CASE RunFails
  <2>1. native' = native  BY <1>0, <1>3 DEF RunFails, Reliable, Interrupted
  <2>2. /\ session'.process = 0 /\ session'.history = Nil /\ session'.known = session.known
        /\ session'.resumeID = session.resumeID /\ ctl'.pc = "idle"
        /\ UNCHANGED <<lost, mem, disk, server>>
    BY <1>3 DEF RunFails, ChatType, TypeOK, Idle
  <2>. QED  BY <1>0, <2>1, <2>2 DEF KnownInv, Knows
<1>. QED  BY <1>1, <1>2, <1>3

LEMMA SaveKnows == ASSUME KInv, Reliable, Save PROVE KnownInv'
<1>. USE DEF KInv, IInv
<1>0. /\ ctl.pc = "save" /\ server = "open" /\ ctl'.pc = "idle"
      /\ UNCHANGED <<session, native, lost, server>>
  BY DEF Save, KnownInv, ChatType, TypeOK, Idle
<1>1. CASE session.resumeID = 0
  <2>1. UNCHANGED <<mem, disk>> /\ mem = Nil  BY <1>0, <1>1 DEF Save, RecordOf, StoreInv
  <2>. QED  BY <1>0, <1>1, <2>1 DEF KnownInv, Knows
<1>2. CASE session.resumeID # 0
  <2>1. mem' = RecordOf(session) /\ disk' = mem'
    BY <1>2, RecordType DEF Save, Put, Write, Reliable
  <2>2. mem' = [resumeID |-> session.resumeID, cwd |-> session.cwd, known |-> session.known]
    BY <1>2, <2>1 DEF RecordOf
  <2>3. session.process = session.resumeID /\ session.known # <<>>
        /\ Knows(session.process, session.known, session.cwd)
    BY <1>0, <1>2 DEF KnownInv, RequestInv
  <2>. QED  BY <1>0, <2>1, <2>2, <2>3 DEF KnownInv, Knows
<1>. QED  BY <1>1, <1>2

LEMMA OtherKnows ==
    ASSUME KInv, Reliable,
           \/ Evict \/ Close \/ Restart \/ Crash \/ OtherWrite
           \/ \E n \in NativeId : Lose(n)
           \/ UNCHANGED vars
    PROVE  KnownInv'
<1>. USE DEF KInv, IInv
<1>1. CASE Evict
  BY <1>1 DEF Evict, Evicted, KnownInv, Knows, ChatType, TypeOK
<1>2. CASE Close
  BY <1>2 DEF Close, FreshSession, KnownInv, Knows
<1>3. CASE Restart
  <2>1. /\ session' = Restored(disk) /\ mem' = disk /\ ctl'.pc = "idle" /\ server' = "open"
        /\ ctl.pc = "idle" /\ UNCHANGED <<native, lost, disk>>
    BY <1>3 DEF Restart, Boot, Idle
  <2>2. session'.process = 0 /\ session'.history = Nil
        /\ (session'.resumeID # 0 => disk # Nil /\ session'.known = disk.known)
    BY <2>1 DEF Restored, FreshSession
  <2>. QED  BY <2>1, <2>2 DEF KnownInv, Knows
<1>4. CASE Crash  BY <1>4 DEF Crash, Reliable
<1>5. CASE OtherWrite  BY <1>5 DEF OtherWrite, KnownInv, Knows
<1>6. CASE \E n \in NativeId : Lose(n)  BY <1>6 DEF Lose, KnownInv, Knows
<1>7. CASE UNCHANGED vars  BY <1>7 DEF vars, KnownInv, Knows
<1>. QED  BY <1>1, <1>2, <1>3, <1>4, <1>5, <1>6, <1>7

LEMMA Known == Reliable => (Spec => []KInv)
<1>. SUFFICES ASSUME Reliable  PROVE Spec => []KInv  OBVIOUS
<1>1. KInv /\ IInv' /\ [Next]_vars => KnownInv'
  BY RequestKnows, StartKnows, RunKnows, SaveKnows, OtherKnows DEF Next
<1>2. Init => KnownInv  BY InitKnown
<1>3. KInv <=> IInv /\ KnownInv  BY DEF KInv
<1>. QED  BY <1>1, <1>2, <1>3, Inductive, PTL DEF Spec

\* While turns and writes succeed, the agent is in the directory of the request and has
\* been told exactly what the client sent (server.go:459-468).
THEOREM SeesConversation == Reliable => (Spec => []AgentSeesConversation)
<1>1. KInv => AgentSeesConversation
  BY DEF KInv, KnownInv, AgentSeesConversation, AgentHere, Running, Seen
<1>. QED  BY <1>1, Known, PTL

\* And a request that extends the stored conversation resumes its native session.
THEOREM StoredIsResumed == Reliable => (Spec => MatchingHistoryResumes)
<1>. SUFFICES ASSUME Reliable  PROVE Spec => MatchingHistoryResumes  OBVIOUS
<1>. DEFINE Resumes ==
        (/\ ctl.pc = "idle" /\ ctl'.pc = "start"
         /\ disk # Nil /\ disk.cwd = ctl'.cwd /\ IsPrefix(disk.known, ctl'.history)) => ctl'.resume
<1>1. KInv /\ [Next]_vars => [Resumes]_vars
  <2>. SUFFICES ASSUME KInv, Next, ctl.pc = "idle", ctl'.pc = "start", disk # Nil,
                       disk.cwd = ctl'.cwd, IsPrefix(disk.known, ctl'.history)
                PROVE  ctl'.resume
    OBVIOUS
  <2>1. PICK h \in Histories, u \in User, cwd \in Cwd, valid \in BOOLEAN : Request(h, u, cwd, valid)
    BY DEF Next, StartOk, StartMissing, StartFails, RunOk, RunMissing, RunFails, Running, Save,
           Evict, Close, Restart, Crash, Boot, OtherWrite, Lose, Idle
  <2>2. server = "open" /\ disk = RecordOf(session)
    BY <2>1 DEF Request, Reliable, KInv, IInv, KnownInv, StoreInv
  <2>3. session.resumeID # 0 /\ disk.cwd = session.cwd /\ disk.known = session.known
    BY <2>2 DEF RecordOf
  <2>4. valid /\ ctl'.history = h /\ ctl'.cwd = cwd
    BY <2>1 DEF Request, Idle
  <2>5. session.cwd = cwd /\ Matches(h)
    BY <2>3, <2>4 DEF Matches, KInv, KnownInv
  <2>6. session' = session /\ ctl'.resume = (session.process = 0)
        /\ ctl'.pc = (IF session.process = 0 THEN "start" ELSE "run")
    BY <2>1, <2>3, <2>4, <2>5 DEF Request
  <2>. QED  BY <2>6
<1>. QED  BY <1>1, Known, PTL DEF Spec, MatchingHistoryResumes
-----------------------------------------------------------------------------
(* Subsequences.                                                           *)

LEMMA SubsequenceGrows ==
    ASSUME NEW S, NEW s \in Seq(S), NEW t \in Seq(S), NEW v \in Seq(S), IsSubsequence(s, t)
    PROVE  IsSubsequence(s, t \o v)
<1>1. PICK f \in [DOMAIN s -> DOMAIN t] :
        /\ \A i \in DOMAIN s : s[i] = t[f[i]]
        /\ \A i, j \in DOMAIN s : i < j => f[i] < f[j]
  BY DEF IsSubsequence
<1>2. /\ DOMAIN t = 1 .. Len(t) /\ DOMAIN (t \o v) = 1 .. Len(t) + Len(v)
      /\ Len(t) \in Nat /\ Len(v) \in Nat
      /\ \A i \in 1 .. Len(t) : (t \o v)[i] = t[i]
  BY ConcatProperties, LenProperties
<1>3. f \in [DOMAIN s -> DOMAIN (t \o v)]  BY <1>2
<1>4. \A i \in DOMAIN s : s[i] = (t \o v)[f[i]]  BY <1>1, <1>2
<1>. QED  BY <1>1, <1>3, <1>4 DEF IsSubsequence

LEMMA SubsequenceExtends ==
    ASSUME NEW S, NEW s \in Seq(S), NEW t \in Seq(S), NEW v \in Seq(S), IsSubsequence(s, t)
    PROVE  IsSubsequence(s \o v, t \o v)
<1>1. PICK f \in [DOMAIN s -> DOMAIN t] :
        /\ \A i \in DOMAIN s : s[i] = t[f[i]]
        /\ \A i, j \in DOMAIN s : i < j => f[i] < f[j]
  BY DEF IsSubsequence
<1>. DEFINE m == Len(s)
            n == Len(t)
            k == Len(v)
            g == [i \in 1 .. m + k |-> IF i <= m THEN f[i] ELSE i - m + n]
<1>2. /\ m \in Nat /\ n \in Nat /\ k \in Nat
      /\ DOMAIN s = 1 .. m /\ DOMAIN t = 1 .. n
      /\ DOMAIN (s \o v) = 1 .. m + k /\ DOMAIN (t \o v) = 1 .. n + k
  BY ConcatProperties, LenProperties
<1>3. /\ \A i \in 1 .. m + k : (s \o v)[i] = IF i <= m THEN s[i] ELSE v[i - m]
      /\ \A i \in 1 .. n + k : (t \o v)[i] = IF i <= n THEN t[i] ELSE v[i - n]
  BY ConcatProperties
<1>4. \A i \in 1 .. m : f[i] \in 1 .. n  BY <1>2
<1>. HIDE DEF m, n, k
<1>5. \A i \in 1 .. m + k : g[i] = IF i <= m THEN f[i] ELSE i - m + n  OBVIOUS
<1>6. g \in [1 .. m + k -> 1 .. n + k]
  <2>1. \A i \in 1 .. m + k : (IF i <= m THEN f[i] ELSE i - m + n) \in 1 .. n + k
    BY <1>2, <1>4
  <2>. QED  BY <2>1
<1>. HIDE DEF g
<1>7. \A i \in 1 .. m + k : (s \o v)[i] = (t \o v)[g[i]]
  <2>. SUFFICES ASSUME NEW i \in 1 .. m + k  PROVE (s \o v)[i] = (t \o v)[g[i]]  OBVIOUS
  <2>1. CASE i <= m
    <3>1. i \in 1 .. m /\ g[i] = f[i] /\ f[i] \in 1 .. n  BY <1>2, <1>4, <1>5, <2>1
    <3>2. (t \o v)[g[i]] = t[f[i]]  BY <1>2, <1>3, <3>1
    <3>. QED  BY <1>1, <1>2, <1>3, <2>1, <3>1, <3>2
  <2>2. CASE ~(i <= m)
    <3>1. g[i] = i - m + n /\ g[i] \in 1 .. n + k /\ ~(g[i] <= n) /\ g[i] - n = i - m
      BY <1>2, <1>5, <1>6, <2>2
    <3>2. (s \o v)[i] = v[i - m]  BY <1>3, <2>2
    <3>. QED  BY <1>3, <3>1, <3>2
  <2>. QED  BY <2>1, <2>2
<1>8. \A i, j \in 1 .. m + k : i < j => g[i] < g[j]
  <2>. SUFFICES ASSUME NEW i \in 1 .. m + k, NEW j \in 1 .. m + k, i < j  PROVE g[i] < g[j]
    OBVIOUS
  <2>1. CASE j <= m
    <3>0. i \in 1 .. m /\ j \in 1 .. m  BY <1>2, <2>1
    <3>1. i <= m /\ g[i] = f[i] /\ g[j] = f[j]  BY <1>5, <2>1, <3>0
    <3>2. f[i] < f[j]  BY <1>1, <1>2, <3>0
    <3>. QED  BY <3>1, <3>2
  <2>2. CASE i <= m /\ ~(j <= m)
    <3>1. g[i] \in 1 .. n /\ g[j] = j - m + n  BY <1>2, <1>4, <1>5, <2>2
    <3>. QED  BY <1>2, <2>2, <3>1
  <2>3. CASE ~(i <= m)  BY <1>2, <1>5, <2>3
  <2>. QED  BY <2>1, <2>2, <2>3
<1>. QED  BY <1>2, <1>6, <1>7, <1>8 DEF IsSubsequence

LEMMA SubsequenceSuffix ==
    ASSUME NEW S, NEW t \in Seq(S), NEW v \in Seq(S)
    PROVE  IsSubsequence(v, t \o v) /\ IsSubsequence(<<>>, t)
<1>1. IsSubsequence(<<>>, t)
  <2>. DEFINE f == [i \in {} |-> 0]
  <2>1. DOMAIN <<>> = {} /\ f \in [DOMAIN <<>> -> DOMAIN t]  OBVIOUS
  <2>. QED  BY <2>1 DEF IsSubsequence
<1>2. <<>> \in Seq(S) /\ <<>> \o v = v  BY EmptySeq, ConcatEmptySeq
<1>3. IsSubsequence(<<>> \o v, t \o v)  BY <1>1, <1>2, SubsequenceExtends
<1>. QED  BY <1>1, <1>2, <1>3
-----------------------------------------------------------------------------
(* Whatever fails, a native session was told at least what is known of it. *)

ToldExchange == [user : User, answer : Answer \cup {Cut}]

\* The native session n was told everything in known, in this order.
Holds(n, known, cwd) == IsSubsequence(known, native[n].context) /\ native[n].cwd = cwd

ToldInv ==
    /\ \A r \in {mem, disk} : r # Nil => Holds(r.resumeID, r.known, r.cwd)
    /\ session.resumeID # 0 =>
        /\ Holds(session.resumeID, session.known, session.cwd)
        /\ session.process \in {0, session.resumeID}
    /\ session.process # 0 /\ ctl.pc \in {"idle", "save"} =>
            Holds(session.process, session.known, session.cwd)
    /\ session.history # Nil => session.history = session.known
    /\ ctl.pc = "start" => ctl.history = IF ctl.resume THEN session.known \o ctl.delta ELSE ctl.delta
    /\ ctl.pc = "run" =>
        /\ IsSubsequence(ctl.history, native[session.process].context \o ctl.delta)
        /\ native[session.process].cwd = ctl.cwd

TInv == IInv /\ ToldInv

\* The context of a native session only grows and its directory never changes.
Grows ==
    \A n \in NativeId :
        /\ native[n].cwd \in Cwd => native'[n].cwd = native[n].cwd
        /\ \E v \in Seq(ToldExchange) : native'[n].context = native[n].context \o v

LEMMA ContextType ==
    ASSUME ChatType
    PROVE  /\ \A n \in NativeId : native[n].context \in Seq(ToldExchange)
           /\ ctl.delta \in Seq(ToldExchange) /\ ctl.history \in Seq(ToldExchange)
           /\ session.known \in Seq(ToldExchange)
           /\ \A r \in {mem, disk} : r # Nil => /\ r.resumeID \in NativeId /\ r.cwd \in Cwd
                                               /\ r.known \in Seq(ToldExchange)
<1>1. Seq(Exchange) \subseteq Seq(ToldExchange)
  <2>1. Exchange \subseteq ToldExchange  BY DEF Exchange, ToldExchange
  <2>. QED  BY <2>1, SeqMonotonic
<1>2. \A n \in NativeId : native[n].context \in Seq(ToldExchange)
  BY DEF ChatType, TypeOK, ToldExchange
<1>. QED  BY <1>1, <1>2 DEF ChatType, TypeOK, Control, Record

LEMMA HoldsKept ==
    ASSUME ChatType, Grows, NEW n \in NativeId, NEW known \in Seq(ToldExchange), NEW cwd \in Cwd,
           Holds(n, known, cwd)
    PROVE  IsSubsequence(known, native'[n].context) /\ native'[n].cwd = cwd
<1>1. PICK v \in Seq(ToldExchange) : native'[n].context = native[n].context \o v  BY DEF Grows
<1>2. IsSubsequence(known, native[n].context \o v)
  BY ContextType, SubsequenceGrows DEF Holds
<1>. QED  BY <1>1, <1>2 DEF Holds, Grows

\* What the records say stays true, and so does what the session knows.
LEMMA RecordsKept ==
    ASSUME TInv, Grows
    PROVE  /\ \A r \in {mem, disk} : r # Nil =>
                IsSubsequence(r.known, native'[r.resumeID].context) /\ native'[r.resumeID].cwd = r.cwd
           /\ session.resumeID # 0 =>
                /\ IsSubsequence(session.known, native'[session.resumeID].context)
                /\ native'[session.resumeID].cwd = session.cwd
<1>. USE DEF TInv, IInv, ToldInv
<1>1. \A r \in {mem, disk} : r # Nil =>
        IsSubsequence(r.known, native'[r.resumeID].context) /\ native'[r.resumeID].cwd = r.cwd
  BY ContextType, HoldsKept
<1>2. ASSUME session.resumeID # 0
      PROVE  /\ IsSubsequence(session.known, native'[session.resumeID].context)
             /\ native'[session.resumeID].cwd = session.cwd
  <2>1. session.resumeID \in NativeId /\ session.cwd \in Cwd /\ Holds(session.resumeID, session.known, session.cwd)
    BY <1>2 DEF ChatType, TypeOK, RequestInv
  <2>. QED  BY <2>1, ContextType, HoldsKept
<1>. QED  BY <1>1, <1>2

LEMMA SameGrows == ASSUME ChatType, native' = native PROVE Grows
<1>1. \A n \in NativeId : native[n].context \o <<>> = native[n].context /\ <<>> \in Seq(ToldExchange)
  BY ContextType, ConcatEmptySeq, EmptySeq
<1>. QED  BY <1>1 DEF Grows

LEMMA TellGrows ==
    ASSUME ChatType, RequestInv, Running, NEW a \in Answer \cup {Cut},
           native' = [native EXCEPT ![session.process].context = Told(a)]
    PROVE  Grows
<1>. DEFINE p == session.process
            e == [user |-> ctl.user, answer |-> a]
<1>1. p \in NativeId /\ e \in ToldExchange
  BY DEF ChatType, TypeOK, RequestInv, Running, ToldExchange
<1>2. ctl.delta \in Seq(ToldExchange) /\ <<e>> \in Seq(ToldExchange)
      /\ native[p].context \in Seq(ToldExchange)
  BY <1>1, ContextType
<1>3. ctl.delta \o <<e>> \in Seq(ToldExchange)
      /\ Told(a) = native[p].context \o (ctl.delta \o <<e>>)
  <2>1. Told(a) = (native[p].context \o ctl.delta) \o <<e>>  BY DEF Told
  <2>2. ctl.delta \o <<e>> \in Seq(ToldExchange)  BY <1>2, ConcatProperties
  <2>3. \A s, t, v \in Seq(ToldExchange) : (s \o t) \o v = s \o (t \o v)  OBVIOUS
  <2>. HIDE DEF e
  <2>. QED  BY <1>2, <2>1, <2>2, <2>3
<1>4. /\ native'[p].context = Told(a) /\ native'[p].cwd = native[p].cwd
      /\ \A n \in NativeId : n # p => native'[n] = native[n]
  BY <1>1 DEF ChatType, TypeOK
<1>5. \A n \in NativeId : native[n].context \o <<>> = native[n].context /\ <<>> \in Seq(ToldExchange)
  BY ContextType, ConcatEmptySeq, EmptySeq
<1>. HIDE DEF e, p
<1>. QED  BY <1>1, <1>3, <1>4, <1>5 DEF Grows

LEMMA InterruptedGrows == ASSUME ChatType, RequestInv, Running, Interrupted PROVE Grows
  BY SameGrows, TellGrows DEF Interrupted

LEMMA InitTold == Init => ToldInv
  BY DEF Init, ToldInv, FreshSession, Idle

LEMMA ClearedTold ==
    ASSUME TInv, ClearSession, UNCHANGED native,
           \/ ctl'.pc = "idle"
           \/ ctl'.pc = "start" /\ ~ctl'.resume /\ ctl'.history = ctl'.delta
    PROVE  ToldInv'
<1>1. session'.process = 0 /\ session'.history = Nil /\ session'.resumeID = 0 /\ mem' = Nil
  BY DEF ClearSession, FreshSession, Delete
<1>2. disk' \in {Nil, disk}  BY DEF ClearSession, Delete, Write
<1>. QED  BY <1>1, <1>2 DEF TInv, ToldInv, Holds

LEMMA RequestTold ==
    ASSUME TInv, NEW h \in Histories, NEW u \in User, NEW cwd \in Cwd,
           NEW valid \in BOOLEAN, Request(h, u, cwd, valid)
    PROVE  ToldInv'
<1>. DEFINE continuation == session.cwd = cwd /\ Matches(h)
            resume == session.process = 0 /\ session.resumeID # 0 /\ continuation
            reset == ~continuation \/ (session.process = 0 /\ ~resume)
            delta == IF reset THEN h ELSE SubSeq(h, HistoryCount + 1, Len(h))
            C == [pc |-> IF session'.process = 0 THEN "start" ELSE "run",
                  history |-> h, user |-> u, cwd |-> cwd, resume |-> resume, delta |-> delta]
<1>1. /\ ctl.pc = "idle"
      /\ IF reset THEN ClearSession ELSE UNCHANGED <<session, mem, disk>>
      /\ ctl' = IF ~valid THEN Idle ELSE C
      /\ UNCHANGED <<native, lost, server>>
  BY DEF Request
<1>2. h \in Seq(Exchange)  BY HistoriesAreSeq
<1>3. CASE reset
  <2>1. session'.process = 0 /\ ClearSession  BY <1>1, <1>3 DEF ClearSession, FreshSession
  <2>2. ~resume /\ delta = h  BY <1>3
  <2>. HIDE DEF reset, resume, delta
  <2>. QED  BY <1>1, <2>1, <2>2, ClearedTold DEF Idle
<1>4. CASE ~reset
  <2>1. UNCHANGED <<session, mem, disk, native>>  BY <1>1, <1>4
  <2>2. session.known \o delta = h /\ session.cwd = cwd
    BY <1>2, <1>4, Continuation DEF TInv, IInv, ToldInv
  <2>3. resume = (session.process = 0)  BY <1>4
  <2>4. valid => delta \in Seq(ToldExchange)
    <3>1. TInv /\ valid => ChatType'  BY RequestStep DEF TInv, IInv
    <3>2. valid => ctl'.delta = delta  BY <1>1
    <3>3. ChatType' => ctl'.delta \in Seq(Exchange)  BY DEF ChatType, Control
    <3>4. Exchange \subseteq ToldExchange  BY DEF Exchange, ToldExchange
    <3>. HIDE DEF delta
    <3>. QED  BY <3>1, <3>2, <3>3, <3>4, SeqMonotonic
  <2>. HIDE DEF reset, resume, delta
  <2>5. CASE ~valid
    BY <1>1, <2>1, <2>5 DEF TInv, ToldInv, Holds, Idle
  <2>6. CASE valid
    <3>1. /\ ctl'.pc = (IF session.process = 0 THEN "start" ELSE "run")
          /\ ctl'.history = h /\ ctl'.cwd = cwd /\ ctl'.resume = resume /\ ctl'.delta = delta
      BY <1>1, <2>1, <2>6
    <3>2. session.process # 0 =>
            /\ IsSubsequence(h, native[session.process].context \o delta)
            /\ native[session.process].cwd = cwd
      <4>. SUFFICES ASSUME session.process # 0
                    PROVE  /\ IsSubsequence(h, native[session.process].context \o delta)
                           /\ native[session.process].cwd = cwd
        OBVIOUS
      <4>1. Holds(session.process, session.known, cwd) /\ session.process \in NativeId
        BY <1>1, <2>2 DEF TInv, IInv, ToldInv, ChatType, TypeOK
      <4>2. IsSubsequence(session.known \o delta, native[session.process].context \o delta)
        BY <2>4, <2>6, <4>1, ContextType, SubsequenceExtends DEF Holds, TInv, IInv
      <4>. QED  BY <2>2, <4>1, <4>2 DEF Holds
    <3>. QED  BY <1>1, <2>1, <2>2, <2>3, <3>1, <3>2 DEF TInv, ToldInv, Holds
  <2>. QED  BY <2>5, <2>6
<1>. QED  BY <1>3, <1>4

LEMMA StartTold == ASSUME TInv, StartOk \/ StartMissing \/ StartFails PROVE ToldInv'
<1>. USE DEF TInv, IInv
<1>0. ctl.pc = "start"  BY DEF StartOk, StartMissing, StartFails
<1>1. CASE StartOk
  <2>. DEFINE n == IF ctl.resume THEN session.resumeID ELSE NextNative
  <2>1. /\ session' = [session EXCEPT !.process = n, !.cwd = ctl.cwd]
        /\ native' = IF ctl.resume THEN native ELSE [native EXCEPT ![n].cwd = ctl.cwd]
        /\ ctl' = [ctl EXCEPT !.pc = "run"]
        /\ UNCHANGED <<mem, disk>>
    BY <1>1 DEF StartOk
  <2>2. n \in NativeId /\ (~ctl.resume => native[n].cwd = NoCwd)
    BY <1>0, <1>1, NextNativeNew DEF StartOk, Made, RequestInv, ChatType, TypeOK
  <2>3. /\ session'.process = n /\ session'.history = session.history /\ session'.known = session.known
        /\ session'.resumeID = session.resumeID /\ session'.cwd = ctl.cwd
        /\ ctl'.pc = "run" /\ ctl'.history = ctl.history /\ ctl'.delta = ctl.delta /\ ctl'.cwd = ctl.cwd
    BY <2>1 DEF ChatType, TypeOK, Control
  <2>4. n = IF ctl.resume THEN session.resumeID ELSE NextNative  OBVIOUS
  <2>. HIDE DEF n
  <2>5. Grows
    <3>1. \A k \in NativeId : native[k].context \o <<>> = native[k].context /\ <<>> \in Seq(ToldExchange)
      BY ContextType, ConcatEmptySeq, EmptySeq
    <3>2. \A k \in NativeId : native'[k].context = native[k].context
      BY <2>1, <2>2 DEF ChatType, TypeOK
    <3>3. \A k \in NativeId : native[k].cwd # NoCwd => native'[k].cwd = native[k].cwd
      BY <2>1, <2>2 DEF ChatType, TypeOK
    <3>4. \A k \in NativeId : native[k].cwd \in Cwd => native'[k].cwd = native[k].cwd
      BY ONLY <3>3, ChatAssumption
    <3>5. \A k \in NativeId : native'[k].context = native[k].context \o <<>>
      BY ONLY <3>1, <3>2
    <3>. QED  BY ONLY <3>1, <3>4, <3>5 DEF Grows
  <2>6. IsSubsequence(ctl.history, native'[n].context \o ctl.delta) /\ native'[n].cwd = ctl.cwd
    <3>1. CASE ctl.resume
      <4>1. native' = native /\ n = session.resumeID /\ Holds(n, session.known, ctl.cwd)
        BY <1>0, <2>1, <2>4, <3>1 DEF RequestInv, ToldInv
      <4>2. IsSubsequence(session.known \o ctl.delta, native[n].context \o ctl.delta)
        BY <2>2, <4>1, ContextType, SubsequenceExtends DEF Holds
      <4>. QED  BY <1>0, <3>1, <4>1, <4>2 DEF Holds, ToldInv
    <3>2. CASE ~ctl.resume
      <4>1. native'[n].context = native[n].context /\ native'[n].cwd = ctl.cwd
        BY <2>1, <2>2, <3>2 DEF ChatType, TypeOK
      <4>2. IsSubsequence(ctl.delta, native[n].context \o ctl.delta)
        BY <2>2, ContextType, SubsequenceSuffix
      <4>. QED  BY <1>0, <3>2, <4>1, <4>2 DEF ToldInv
    <3>. QED  BY <3>1, <3>2
  <2>7. session.resumeID # 0 => session.cwd = ctl.cwd /\ n = session.resumeID
    BY <1>0, <2>4 DEF RequestInv
  <2>. QED
    BY <2>1, <2>3, <2>5, <2>6, <2>7, RecordsKept DEF ToldInv, Holds
<1>2. CASE StartMissing
  <2>1. ctl' = [ctl EXCEPT !.pc = "start", !.resume = FALSE, !.delta = ctl.history]
    BY <1>2 DEF StartMissing, StartOver
  <2>2. ctl'.pc = "start" /\ ~ctl'.resume /\ ctl'.history = ctl'.delta  BY <2>1 DEF ChatType, Control
  <2>. QED  BY <1>2, <2>2, ClearedTold DEF StartMissing
<1>3. CASE StartFails
  BY <1>0, <1>3 DEF StartFails, ToldInv, Holds, Idle, RequestInv
<1>. QED  BY <1>1, <1>2, <1>3

LEMMA RunTold ==
    ASSUME TInv,
           \/ \E answer \in Answer, reported \in BOOLEAN : RunOk(answer, reported)
           \/ RunMissing \/ RunFails
    PROVE  ToldInv'
<1>. USE DEF TInv, IInv
<1>0. ctl.pc = "run" /\ Running /\ session.process \in NativeId /\ session.process # 0
  BY DEF RunOk, RunMissing, RunFails, Running, ChatType, TypeOK, RequestInv
<1>1. ASSUME NEW answer \in Answer, NEW reported \in BOOLEAN, RunOk(answer, reported)
      PROVE  ToldInv'
  <2>. DEFINE e == [user |-> ctl.user, answer |-> answer]
              history == Append(ctl.history, e)
              p == session.process
  <2>1. /\ native' = [native EXCEPT ![p].context = Told(answer)]
        /\ session' = [session EXCEPT !.history = history, !.known = history,
                                     !.resumeID = IF reported THEN p ELSE @]
        /\ ctl' = [ctl EXCEPT !.pc = "save"]
        /\ UNCHANGED <<mem, disk>>
    BY <1>1 DEF RunOk
  <2>2. e \in Exchange /\ ctl.history \in Seq(Exchange) /\ e \in ToldExchange
    BY <1>0 DEF ChatType, Control, Exchange, ToldExchange
  <2>3. history = ctl.history \o <<e>>  BY <2>2, AppendIsConcat
  <2>4. Grows  BY <1>0, <2>1, TellGrows
  <2>5. IsSubsequence(history, Told(answer))
    <3>1. native[p].context \o ctl.delta \in Seq(ToldExchange) /\ ctl.history \in Seq(ToldExchange)
          /\ <<e>> \in Seq(ToldExchange)
      BY <1>0, <2>2, ContextType, ConcatProperties
    <3>2. IsSubsequence(ctl.history, native[p].context \o ctl.delta)  BY <1>0 DEF ToldInv
    <3>3. Told(answer) = (native[p].context \o ctl.delta) \o <<e>>  BY DEF Told
    <3>. HIDE DEF e, history
    <3>. QED  BY <2>3, <3>1, <3>2, <3>3, SubsequenceExtends
  <2>6. native[p].cwd = ctl.cwd /\ session.cwd = ctl.cwd
    BY <1>0 DEF ToldInv, RequestInv
  <2>. HIDE DEF history
  <2>7. native'[p].context = Told(answer) /\ native'[p].cwd = ctl.cwd
    BY <1>0, <2>1, <2>6 DEF ChatType, TypeOK
  <2>8. /\ session'.process = p /\ session'.history = history /\ session'.known = history
        /\ session'.cwd = session.cwd /\ session'.resumeID \in {p, session.resumeID}
        /\ ctl'.pc = "save"
    BY <2>1 DEF ChatType, TypeOK, Control
  <2>9. session'.resumeID # 0 => session'.resumeID = p
    BY <1>0, <2>8 DEF ToldInv
  <2>. QED
    BY <1>0, <2>1, <2>4, <2>5, <2>6, <2>7, <2>8, <2>9, RecordsKept DEF ToldInv, Holds
<1>2. CASE RunMissing
  <2>1. ctl' = [ctl EXCEPT !.pc = "start", !.resume = FALSE, !.delta = ctl.history]
    BY <1>2 DEF RunMissing, StartOver
  <2>2. ctl'.pc = "start" /\ ~ctl'.resume /\ ctl'.history = ctl'.delta  BY <2>1 DEF ChatType, Control
  <2>. QED  BY <1>2, <2>2, ClearedTold DEF RunMissing
<1>3. CASE RunFails
  <2>1. Grows  BY <1>0, <1>3, InterruptedGrows DEF RunFails
  <2>2. /\ session'.process = 0 /\ session'.history = Nil /\ session'.known = session.known
        /\ session'.resumeID = session.resumeID /\ session'.cwd = session.cwd /\ ctl'.pc = "idle"
        /\ UNCHANGED <<mem, disk>>
    BY <1>3 DEF RunFails, ChatType, TypeOK, Idle
  <2>. QED  BY <2>1, <2>2, RecordsKept DEF ToldInv, Holds
<1>. QED  BY <1>1, <1>2, <1>3

LEMMA SaveTold == ASSUME TInv, Save PROVE ToldInv'
<1>. USE DEF TInv, IInv
<1>0. ctl.pc = "save" /\ ctl'.pc = "idle" /\ UNCHANGED <<session, native>>
  BY DEF Save, Idle
<1>1. CASE RecordOf(session) = Nil
  BY <1>0, <1>1 DEF Save, ToldInv, Holds
<1>2. CASE RecordOf(session) # Nil
  <2>1. mem' = RecordOf(session) /\ disk' \in {mem', disk}  BY <1>2 DEF Save, Put, Write
  <2>2. /\ session.resumeID # 0
        /\ mem' = [resumeID |-> session.resumeID, cwd |-> session.cwd, known |-> session.known]
    BY <1>2, <2>1 DEF RecordOf
  <2>. QED  BY <1>0, <2>1, <2>2 DEF ToldInv, Holds
<1>. QED  BY <1>1, <1>2

LEMMA BootTold == ASSUME TInv, Restart \/ Crash PROVE ToldInv'
<1>. USE DEF TInv, IInv
<1>1. /\ session' = Restored(disk) /\ mem' = disk /\ disk' = disk /\ ctl'.pc = "idle"
  BY DEF Restart, Crash, Boot, Idle
<1>2. Grows
  BY SameGrows, InterruptedGrows DEF Restart, Crash
<1>3. session'.process = 0 /\ session'.history = Nil
      /\ (session'.resumeID # 0 => disk # Nil /\ session'.known = disk.known
                                   /\ session'.resumeID = disk.resumeID /\ session'.cwd = disk.cwd)
  BY <1>1 DEF Restored, FreshSession
<1>. QED  BY <1>1, <1>2, <1>3, RecordsKept DEF ToldInv, Holds

LEMMA OtherTold ==
    ASSUME TInv, Evict \/ Close \/ OtherWrite \/ (\E n \in NativeId : Lose(n)) \/ UNCHANGED vars
    PROVE  ToldInv'
<1>. USE DEF TInv, IInv
<1>1. CASE Evict
  BY <1>1 DEF Evict, Evicted, ToldInv, Holds, ChatType, TypeOK
<1>2. CASE Close
  BY <1>2 DEF Close, FreshSession, ToldInv, Holds
<1>3. CASE OtherWrite  BY <1>3 DEF OtherWrite, ToldInv, Holds
<1>4. CASE \E n \in NativeId : Lose(n)  BY <1>4 DEF Lose, ToldInv, Holds
<1>5. CASE UNCHANGED vars  BY <1>5 DEF vars, ToldInv, Holds
<1>. QED  BY <1>1, <1>2, <1>3, <1>4, <1>5

\* Whatever fails, a prompt reaches only an agent that was told every exchange of the
\* conversation, in order and in the directory of the request (server.go:467).
THEOREM KnowsConversation == Spec => []AgentKnowsConversation
<1>1. TInv /\ IInv' /\ [Next]_vars => ToldInv'
  BY RequestTold, StartTold, RunTold, SaveTold, BootTold, OtherTold DEF Next
<1>2. Init => ToldInv  BY InitTold
<1>3. TInv <=> IInv /\ ToldInv  BY DEF TInv
<1>4. TInv => AgentKnowsConversation
  BY DEF TInv, ToldInv, AgentKnowsConversation, AgentHere, Running, Seen
<1>. QED  BY <1>1, <1>2, <1>3, <1>4, Inductive, PTL DEF Spec
=============================================================================
