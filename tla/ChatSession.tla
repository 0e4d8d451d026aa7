---------------------------- MODULE ChatSession ----------------------------
(***************************************************************************)
(* A session of the plain path: Server.handleChat for requests without     *)
(* tools (server.go), the session store that outlives the gateway          *)
(* (session_store.go), eviction, shutdown and restart (registry.go).       *)
(*                                                                         *)
(* Message lists are sequences of exchanges, a user message with its       *)
(* answer, followed by the new user message.  The agent is external: its   *)
(* native sessions hold the exchanges they were told of.  The question is  *)
(* whether the context the agent works in is the one the client sent.      *)
(***************************************************************************)
EXTENDS Naturals, Sequences, SequencesExt, FiniteSets

CONSTANTS
    User,       \* user messages
    Answer,     \* answers of the agent
    Cut,        \* what a native session keeps of a turn that did not finish
    Cwd,        \* working directories
    NativeId,   \* native sessions in order of creation: 1 .. n
    Nil,        \* state.history = nil, no record
    MaxTurns,   \* bound: exchanges in the messages of a request
    MaxContext, \* bound: exchanges in a native session
    Moves       \* what goes wrong in a run, besides diverging clients

Exchange == [user : User, answer : Answer]
Histories == BoundedSeq(Exchange, MaxTurns)
NoCwd == "no cwd"
\* What the store holds of a session.
Record == [resumeID : NativeId, cwd : Cwd, known : Seq(Exchange)]

ASSUME ChatAssumption ==
    /\ Cut \notin Answer
    /\ IsFiniteSet(NativeId) /\ NativeId = 1 .. Cardinality(NativeId)
    /\ NoCwd \notin Cwd /\ Nil \notin Record
    /\ MaxTurns \in Nat /\ MaxContext \in Nat
    /\ Moves \subseteq {"evict", "restart", "crash", "lose", "fail", "write", "silent", "late"}

VARIABLES
    session,    \* the sessionState of the key
    native,     \* the agent's sessions: what they were told, and where they run
    lost,       \* native sessions the agent no longer has
    mem,        \* sessionStore.records[key]
    disk,       \* the record of the key in the file
    ctl,        \* the request that holds state.mu
    server      \* "open", or "closing": registry.close has replaced the map

vars == <<session, native, lost, mem, disk, ctl, server>>

\* history is compared when there is one, known stands for historyCount and
\* historyHash.
FreshSession(cwd) ==
    [process |-> 0, history |-> Nil, known |-> <<>>, resumeID |-> 0, cwd |-> cwd]

Idle == [pc |-> "idle", history |-> <<>>, user |-> Nil, cwd |-> NoCwd,
         resume |-> FALSE, delta |-> <<>>]

\* newRegistry restores one state for each record of the file.
Restored(record) ==
    IF record = Nil THEN FreshSession(NoCwd)
    ELSE [FreshSession(record.cwd) EXCEPT !.known = record.known, !.resumeID = record.resumeID]

Init ==
    /\ session = FreshSession(NoCwd)
    /\ native = [n \in NativeId |-> [context |-> <<>>, cwd |-> NoCwd]]
    /\ lost = {}
    /\ mem = Nil /\ disk = Nil
    /\ ctl = Idle
    /\ server = "open"

-----------------------------------------------------------------------------
(* The session store.                                                      *)

\* writeLocked: the file is replaced by a rename, or stays as it is.
Write(record) == disk' = record \/ ("write" \in Moves /\ disk' = disk)

Put(record) == mem' = record /\ Write(record)

\* Mutant of Delete: the record is left to the next put.
DeleteNothing == UNCHANGED <<mem, disk>>
\* delete: nothing is written when the key has no record.
Delete == mem' = Nil /\ IF mem = Nil THEN disk' = disk ELSE Write(Nil)

\* Another session's put or delete writes the records of all the keys.
OtherWrite ==
    /\ disk' = mem
    /\ UNCHANGED <<session, native, lost, mem, ctl, server>>

-----------------------------------------------------------------------------
(* handleChat: the request decides between continuing, resuming and        *)
(* starting over.                                                          *)

\* Mutant of Matches: the number of messages is compared, not what they say.
MatchesByCount(h) ==
    IF session.history # Nil THEN Len(session.history) <= Len(h)
    ELSE session.known # <<>> /\ Len(session.known) <= Len(h)
\* matchesHistoryPrefix.
Matches(h) ==
    IF session.history # Nil THEN IsPrefix(session.history, h)
    ELSE session.known # <<>> /\ IsPrefix(session.known, h)

\* persistedHistoryCount.
HistoryCount == IF session.history # Nil THEN Len(session.history) ELSE Len(session.known)

\* clearSession: stop, forget, delete the record.
ClearSession ==
    /\ session' = FreshSession(session.cwd)
    /\ Delete

\* Lines 453-478.  valid: turnPrompt accepts the messages to send; when it does not
\* the request ends with 400, after clearSession if the history did not match.
Request(h, u, cwd, valid) ==
    LET continuation == session.cwd = cwd /\ Matches(h)
        resume == session.process = 0 /\ session.resumeID # 0 /\ continuation
        reset == ~continuation \/ (session.process = 0 /\ ~resume)
    IN  /\ ctl.pc = "idle"
        /\ server = "open" \/ "late" \in Moves
        /\ IF reset THEN ClearSession ELSE UNCHANGED <<session, mem, disk>>
        /\ ctl' = IF ~valid THEN Idle
                  ELSE [pc |-> IF session'.process = 0 THEN "start" ELSE "run",
                        history |-> h, user |-> u, cwd |-> cwd, resume |-> resume,
                        delta |-> IF reset THEN h ELSE SubSeq(h, HistoryCount + 1, Len(h))]
        /\ UNCHANGED <<native, lost, server>>

-----------------------------------------------------------------------------
(* handleChat: engine.Start.                                               *)

Made == {n \in NativeId : native[n].cwd # NoCwd}
NextNative == CHOOSE n \in NativeId \ Made : \A k \in NativeId \ Made : n <= k

\* start: a native session is resumed, or a new one made.  An agent may find out
\* that it lost the session only when the first prompt arrives.
StartOk ==
    /\ ctl.pc = "start"
    /\ ~ctl.resume => Made # NativeId
    /\ LET n == IF ctl.resume THEN session.resumeID ELSE NextNative IN
        /\ session' = [session EXCEPT !.process = n, !.cwd = ctl.cwd]
        /\ native' = IF ctl.resume THEN native ELSE [native EXCEPT ![n].cwd = ctl.cwd]
    /\ ctl' = [ctl EXCEPT !.pc = "run"]
    /\ UNCHANGED <<lost, mem, disk, server>>

\* Mutant of StartOver: the fresh agent gets the new messages only.
StartOverWithDelta == ctl' = [ctl EXCEPT !.pc = "start", !.resume = FALSE]
\* The one retry, with all the messages, in a session of its own.
StartOver == ctl' = [ctl EXCEPT !.pc = "start", !.resume = FALSE, !.delta = ctl.history]

\* Lines 502-511: the native session is gone, and engine.Start says so.
StartMissing ==
    /\ ctl.pc = "start" /\ ctl.resume /\ session.resumeID \in lost
    /\ ClearSession
    /\ StartOver
    /\ UNCHANGED <<native, lost, server>>

\* Lines 512-516: 502; what is known of the session stays.
StartFails ==
    /\ "fail" \in Moves \/ server = "closing"
    /\ ctl.pc = "start"
    /\ ctl' = Idle
    /\ UNCHANGED <<session, native, lost, mem, disk, server>>

-----------------------------------------------------------------------------
(* handleChat: RunTurn and what follows.                                   *)

Running == ctl.pc = "run"
Told(answer) == native[session.process].context \o ctl.delta
                    \o <<[user |-> ctl.user, answer |-> answer]>>

\* Lines 564-571.  reported: the init message of this run had a resume ID.  During
\* shutdown the context is cancelled and no turn succeeds.
RunOk(answer, reported) ==
    LET history == Append(ctl.history, [user |-> ctl.user, answer |-> answer]) IN
    /\ Running /\ server = "open"
    /\ session.process \notin lost
    /\ reported \/ "silent" \in Moves
    /\ Len(Told(answer)) <= MaxContext
    /\ native' = [native EXCEPT ![session.process].context = Told(answer)]
    /\ session' = [session EXCEPT
                      !.history = history, !.known = history,
                      !.resumeID = IF reported THEN session.process ELSE @]
    /\ ctl' = [ctl EXCEPT !.pc = "save"]
    /\ UNCHANGED <<lost, mem, disk, server>>

\* Lines 534-542: no text came and the agent says the session is gone.
RunMissing ==
    /\ Running /\ ctl.resume /\ session.process \in lost
    /\ ClearSession
    /\ StartOver
    /\ UNCHANGED <<native, lost, server>>

\* The agent may have taken in a prompt whose turn did not finish.
Interrupted ==
    \/ native' = native
    \/ /\ session.process \notin lost /\ Len(Told(Cut)) <= MaxContext
       /\ native' = [native EXCEPT ![session.process].context = Told(Cut)]

\* Lines 547-551: an error of the agent, the deadline, the client is gone.
RunFails ==
    /\ Running
    /\ "fail" \in Moves \/ server = "closing" \/ session.process \in lost
    /\ Interrupted
    /\ session' = [session EXCEPT !.process = 0, !.history = Nil]
    /\ ctl' = Idle
    /\ UNCHANGED <<lost, mem, disk, server>>

\* Mutant of RecordOf: a session without resume ID is stored as well.
RecordOfAny(s) == [resumeID |-> s.resumeID, cwd |-> s.cwd, known |-> s.known]
RecordOf(s) ==
    IF s.resumeID = 0 THEN Nil
    ELSE [resumeID |-> s.resumeID, cwd |-> s.cwd, known |-> s.known]

\* Lines 572-584: an agent without resume ID is not stored; a write that fails is
\* only logged.
Save ==
    /\ ctl.pc = "save"
    /\ IF RecordOf(session) # Nil THEN Put(RecordOf(session)) ELSE UNCHANGED <<mem, disk>>
    /\ ctl' = Idle
    /\ UNCHANGED <<session, native, lost, server>>

-----------------------------------------------------------------------------
(* Eviction, shutdown, restart, and the agent's own housekeeping.          *)

\* Mutant of Evicted: eviction forgets the resume ID, as it does after tools.
EvictedAll == FreshSession(session.cwd)
Evicted == [session EXCEPT !.process = 0]

\* evictIdle of a session that never had tools.
Evict ==
    /\ "evict" \in Moves /\ server = "open"
    /\ ctl.pc = "idle" /\ session.process # 0
    /\ session' = Evicted
    /\ UNCHANGED <<native, lost, mem, disk, ctl, server>>

\* Server.Close: the map is empty from now on and the session in it was stopped.
Close ==
    /\ "restart" \in Moves /\ server = "open"
    /\ ctl.pc = "idle"
    /\ session' = FreshSession(NoCwd)
    /\ server' = "closing"
    /\ UNCHANGED <<native, lost, mem, disk, ctl>>

\* The next process of the gateway reads the file.
Boot == session' = Restored(disk) /\ mem' = disk /\ ctl' = Idle /\ server' = "open"

Restart ==
    /\ server = "closing" /\ ctl.pc = "idle"
    /\ Boot
    /\ UNCHANGED <<native, lost, disk>>

Crash ==
    /\ "crash" \in Moves
    /\ IF Running THEN Interrupted ELSE native' = native
    /\ Boot
    /\ UNCHANGED <<lost, disk>>

Lose(n) ==
    /\ "lose" \in Moves /\ n \in Made \ lost
    /\ lost' = lost \cup {n}
    /\ UNCHANGED <<session, native, mem, disk, ctl, server>>

-----------------------------------------------------------------------------

Next ==
    \/ \E h \in Histories, u \in User, cwd \in Cwd, valid \in BOOLEAN : Request(h, u, cwd, valid)
    \/ StartOk \/ StartMissing \/ StartFails
    \/ \E answer \in Answer, reported \in BOOLEAN : RunOk(answer, reported)
    \/ RunMissing \/ RunFails \/ Save
    \/ Evict \/ Close \/ Restart \/ Crash \/ OtherWrite
    \/ \E n \in NativeId : Lose(n)

Spec == Init /\ [][Next]_vars

-----------------------------------------------------------------------------
(* Properties.                                                             *)

\* Type invariant: what newSessionStore accepts is what the store holds, a record
\* always has a resume ID and a directory (session_store.go:49-53).
TypeOK ==
    /\ session \in [process : NativeId \cup {0}, history : Seq(Exchange) \cup {Nil},
                    known : Seq(Exchange), resumeID : NativeId \cup {0}, cwd : Cwd \cup {NoCwd}]
    /\ native \in [NativeId -> [context : Seq([user : User, answer : Answer \cup {Cut}]),
                                cwd : Cwd \cup {NoCwd}]]
    /\ lost \subseteq NativeId
    /\ mem \in Record \cup {Nil} /\ disk \in Record \cup {Nil}
    /\ ctl.pc \in {"idle", "start", "run", "save"}
    /\ server \in {"open", "closing"}

\* The agent that gets the prompt, and what it has been told with this prompt.
Seen == native[session.process].context \o ctl.delta
AgentHere == Running /\ session.process \notin lost

\* When a turn runs, the agent is in the directory of the request and has been told
\* exactly the conversation the client sent, whether its process was kept, resumed
\* or replaced (server.go:459-468, README:259).
AgentSeesConversation ==
    AgentHere => Seen = ctl.history /\ native[session.process].cwd = ctl.cwd

IsSubsequence(s, t) ==
    \E f \in [DOMAIN s -> DOMAIN t] :
        /\ \A i \in DOMAIN s : s[i] = t[f[i]]
        /\ \A i, j \in DOMAIN s : i < j => f[i] < f[j]

\* Whatever fails, a prompt never reaches an agent that misses part of the
\* conversation: sending only the new messages is safe (server.go:467).
AgentKnowsConversation ==
    AgentHere =>
        IsSubsequence(ctl.history, Seen) /\ native[session.process].cwd = ctl.cwd

\* Between requests the records in memory say what a restart has to restore, and while
\* no write fails the file says it too, so that a restart changes nothing for the client
\* (server.go:572-579, 587-599, registry.go:37-39).  After a failed write the file lags
\* behind until any session's next one, which writes the records in memory.
StoreFollowsSession ==
    ctl.pc = "idle" /\ server = "open" =>
        /\ mem = RecordOf(session)
        /\ "write" \notin Moves => disk = mem

\* "After idle eviction or a restart, a matching history resumes the native session"
\* (README:259): no request that extends the stored conversation starts over.
MatchingHistoryResumes ==
    [][ (/\ ctl.pc = "idle" /\ ctl'.pc = "start"
         /\ disk # Nil /\ disk.cwd = ctl'.cwd /\ IsPrefix(disk.known, ctl'.history))
        => ctl'.resume ]_vars

\* The same sentence, for the last requests before a restart: what is stored when the
\* gateway shuts down is still there when it starts again.
ShutdownKeepsStore == [][server = "closing" => disk' = disk]_vars
=============================================================================
