----------------------------- MODULE Registry -----------------------------
(***************************************************************************)
(* The session registry (registry.go) and everybody who meets in it: the   *)
(* requests that lock a session, the watchers of its turns, the janitor,   *)
(* and Server.Close (server.go).                                           *)
(*                                                                         *)
(* Two kinds of mutexes are taken: r.mu of the registry and state.mu of    *)
(* each session.  A step is what happens between two points where a        *)
(* goroutine may have to wait.  What an exchange does with its session is  *)
(* specified elsewhere; here it ends and leaves something running or not.  *)
(***************************************************************************)
EXTENDS Naturals

CONSTANTS
    Key,        \* session keys
    Client,     \* goroutines that serve HTTP requests
    Nobody      \* holder of a free mutex

ASSUME RegistryAssumption ==
    /\ Nobody \notin Client \cup {"janitor", "closer"}
    /\ Client \cap {"janitor", "closer"} = {}

\* A sessionState is known by its key and the map it was made for: map 1 is the
\* one of newRegistry, map 2 the one that close puts in its place.
Session == Key \X {1, 2}

VARIABLES
    rmu,        \* holder of r.mu
    map,        \* which map r.sessions is
    sessions,   \* the keys r.sessions has
    mu,         \* holder of state.mu, by session
    runs,       \* sessions with an agent, in a turn perhaps
    expired,    \* sessions with lastAccess before the cutoff of the janitor
    client,     \* what each request is doing, with which session
    janitor,    \* evictIdle: keys to look at, sessions to stop
    closer,     \* registry.close: sessions to stop, the one it is at
    server      \* "open", "cancelled" (s.ctx), or "closed" (Close has returned)

vars == <<rmu, map, sessions, mu, runs, expired, client, janitor, closer, server>>

Server == {"open", "cancelled", "closed"}

\* since: the server when the exchange began.
NoRequest == [pc |-> "idle"]
Request ==
    {NoRequest} \cup [pc : {"admitted"}, key : Key] \cup [pc : {"locking"}, state : Session]
        \cup [pc : {"exchange"}, state : Session, since : Server]
NoSession == <<>>

Init ==
    /\ rmu = Nobody
    /\ map = 1
    /\ sessions \in SUBSET Key      \* newRegistry restores the stored sessions
    /\ mu = [s \in Session |-> Nobody]
    /\ runs = {}
    /\ expired = {}
    /\ client = [c \in Client |-> NoRequest]
    /\ janitor = [pc |-> "waiting", look |-> {}, stop |-> {}]
    /\ closer = [left |-> {}, at |-> NoSession]
    /\ server = "open"

-----------------------------------------------------------------------------
(* Requests.                                                               *)

\* ServeHTTP: after s.cancel a request gets 503.  It may still have passed before.
Arrive(c, k) ==
    /\ client[c].pc = "idle" /\ server = "open"
    /\ client' = [client EXCEPT ![c] = [pc |-> "admitted", key |-> k]]
    /\ UNCHANGED <<rmu, map, sessions, mu, runs, expired, janitor, closer, server>>

\* lock, first half: r.mu, the lookup, and a new state for a new key.
LockRegistry(c) ==
    /\ client[c].pc = "admitted" /\ rmu = Nobody
    /\ rmu' = c
    /\ sessions' = sessions \cup {client[c].key}
    /\ expired' = IF client[c].key \in sessions THEN expired ELSE expired \ {<<client[c].key, map>>}
    /\ client' = [client EXCEPT ![c] = [pc |-> "locking", state |-> <<@.key, map>>]]
    /\ UNCHANGED <<map, mu, runs, janitor, closer, server>>

\* lock, second half: state.mu is waited for with r.mu held.  handleChat then sets
\* lastAccess.
LockState(c) ==
    /\ client[c].pc = "locking" /\ mu[client[c].state] = Nobody
    /\ mu' = [mu EXCEPT ![client[c].state] = c]
    /\ rmu' = Nobody
    /\ expired' = expired \ {client[c].state}
    /\ client' = [client EXCEPT ![c] = [pc |-> "exchange", state |-> @.state, since |-> server]]
    /\ UNCHANGED <<map, sessions, runs, janitor, closer, server>>

Stops(s) == runs' = runs \ {s}
\* Mutant of Unlocks: a path that returns without it.
UnlocksNothing(s) == UNCHANGED mu
Unlocks(s) == mu' = [mu EXCEPT ![s] = Nobody]

EndExchange(c) ==
    /\ client[c].pc = "exchange"
    /\ Unlocks(client[c].state)
    /\ client' = [client EXCEPT ![c] = NoRequest]
    /\ UNCHANGED <<rmu, map, sessions, janitor, closer, server>>

\* A response was written: the agent stays, and lastAccess is set again.  Nothing
\* succeeds with a context that was cancelled from the start.
Succeed(c) ==
    /\ EndExchange(c)
    /\ client[c].since = "open"
    /\ runs' = runs \cup {client[c].state}
    /\ expired' = expired \ {client[c].state}

\* An error that clears the session, or a request that changes nothing (400, 409).
Fail(c) ==
    /\ EndExchange(c)
    /\ Stops(client[c].state) \/ UNCHANGED runs
    /\ UNCHANGED expired

\* The watcher of a turn that is cancelled: by its deadline, its bridge, or s.ctx.  It
\* takes no other mutex, so its critical section is one step.
Watcher(s) ==
    /\ s \in runs /\ mu[s] = Nobody
    /\ Stops(s)
    /\ UNCHANGED <<rmu, map, sessions, mu, expired, client, janitor, closer, server>>

-----------------------------------------------------------------------------
(* The janitor.                                                            *)

\* Time passes.  While a session is locked nobody looks at its lastAccess.
Expire(s) ==
    /\ mu[s] = Nobody /\ s \notin expired /\ s[1] \in sessions /\ s[2] = map
    /\ expired' = expired \cup {s}
    /\ UNCHANGED <<rmu, map, sessions, mu, runs, client, janitor, closer, server>>

\* What follows a turn of the loop: the next key, or r.mu is released.
LooksOn(look, stop) ==
    /\ janitor' = [pc |-> IF look # {} THEN "looking" ELSE IF stop # {} THEN "stopping" ELSE "waiting",
                   look |-> look, stop |-> stop]
    /\ rmu' = IF look # {} THEN "janitor" ELSE Nobody

\* evictIdle takes r.mu.  The ticker may still be served after s.stop was closed.
JanitorLocks ==
    /\ janitor.pc = "waiting" /\ rmu = Nobody /\ sessions # {}
    /\ LooksOn(sessions, {})
    /\ UNCHANGED <<map, sessions, mu, runs, expired, client, closer, server>>

IsIdle(s) == mu[s] = Nobody /\ s \in expired

\* Mutant of Inspect: the session is only noted, its mutex is released.
InspectUnlocked(s) ==
    /\ LooksOn(janitor.look \ {s[1]}, IF IsIdle(s) THEN janitor.stop \cup {s} ELSE janitor.stop)
    /\ mu' = mu
\* Mutant of Inspect: the mutex of a session in use is not released.
InspectForgets(s) ==
    /\ LooksOn(janitor.look \ {s[1]}, IF IsIdle(s) THEN janitor.stop \cup {s} ELSE janitor.stop)
    /\ mu' = [mu EXCEPT ![s] = IF @ = Nobody THEN "janitor" ELSE @]
\* Mutant of Inspect: a busy session ends the search.
InspectReturns(s) ==
    /\ LooksOn(IF mu[s] # Nobody THEN {} ELSE janitor.look \ {s[1]},
               IF IsIdle(s) THEN janitor.stop \cup {s} ELSE janitor.stop)
    /\ mu' = IF IsIdle(s) THEN [mu EXCEPT ![s] = "janitor"] ELSE mu
\* One turn of the loop: a busy session is left alone, one in use is unlocked again,
\* the mutex of an idle one is kept.
Inspect(s) ==
    /\ LooksOn(janitor.look \ {s[1]}, IF IsIdle(s) THEN janitor.stop \cup {s} ELSE janitor.stop)
    /\ mu' = IF IsIdle(s) THEN [mu EXCEPT ![s] = "janitor"] ELSE mu

JanitorInspects(k) ==
    /\ janitor.pc = "looking" /\ k \in janitor.look
    /\ Inspect(<<k, map>>)
    /\ UNCHANGED <<map, sessions, runs, expired, client, closer, server>>

\* The sessions are stopped one after the other, with the mutexes of the rest held.
JanitorStops(s) ==
    /\ janitor.pc = "stopping" /\ s \in janitor.stop
    /\ Stops(s) /\ Unlocks(s)
    /\ janitor' = [janitor EXCEPT !.stop = @ \ {s},
                                  !.pc = IF janitor.stop = {s} THEN "waiting" ELSE @]
    /\ UNCHANGED <<rmu, map, sessions, expired, client, closer, server>>

-----------------------------------------------------------------------------
(* Server.Close.                                                           *)

Cancel ==
    /\ server = "open"
    /\ server' = "cancelled"
    /\ UNCHANGED <<rmu, map, sessions, mu, runs, expired, client, janitor, closer>>

\* Mutant of ReadyToSwap: registry.close runs before s.cancel.
ReadyAtOnce == rmu = Nobody /\ map = 1
ReadyToSwap == rmu = Nobody /\ map = 1 /\ server = "cancelled"

\* The order in which close visits the sessions is the order of a map.
GoesTo(left) ==
    \/ left = {} /\ closer' = [left |-> {}, at |-> NoSession]
    \/ \E s \in left : closer' = [left |-> left \ {s}, at |-> s]

CloserSwaps ==
    /\ ReadyToSwap
    /\ GoesTo({<<k, map>> : k \in sessions})
    /\ map' = 2 /\ sessions' = {}
    /\ UNCHANGED <<rmu, mu, runs, expired, client, janitor, server>>

CanStop(s) == mu[s] = Nobody

CloserLocks ==
    /\ closer.at # NoSession /\ mu[closer.at] # "closer" /\ CanStop(closer.at)
    /\ mu' = [mu EXCEPT ![closer.at] = "closer"]
    /\ UNCHANGED <<rmu, map, sessions, runs, expired, client, janitor, closer, server>>

CloserStops ==
    /\ closer.at # NoSession /\ mu[closer.at] = "closer"
    /\ Stops(closer.at) /\ Unlocks(closer.at)
    /\ GoesTo(closer.left)
    /\ UNCHANGED <<rmu, map, sessions, expired, client, janitor, server>>

CloseReturns ==
    /\ server = "cancelled" /\ map = 2 /\ closer.at = NoSession
    /\ server' = "closed"
    /\ UNCHANGED <<rmu, map, sessions, mu, runs, expired, client, janitor, closer>>

\* Server.janitor returns, s.stop being closed.
JanitorReturns ==
    /\ janitor.pc = "waiting" /\ server # "open"
    /\ janitor' = [janitor EXCEPT !.pc = "returned"]
    /\ UNCHANGED <<rmu, map, sessions, mu, runs, expired, client, closer, server>>

-----------------------------------------------------------------------------

ClientStep(c) ==
    \/ \E k \in Key : Arrive(c, k)
    \/ LockRegistry(c) \/ LockState(c) \/ Succeed(c) \/ Fail(c)

JanitorStep ==
    \/ \E k \in Key : JanitorInspects(k)
    \/ \E s \in Session : JanitorStops(s)

CloserStep == CloserStops \/ CloseReturns

Next ==
    \/ \E c \in Client : ClientStep(c)
    \/ \E s \in Session : Watcher(s) \/ Expire(s)
    \/ JanitorLocks \/ JanitorStep \/ JanitorReturns
    \/ Cancel \/ CloserSwaps \/ CloserLocks \/ CloserStep

Spec == Init /\ [][Next]_vars

\* Every exchange ends: its turn has a deadline, its request may be cancelled, and
\* stopProcess waits five seconds.  The ticker ticks.  r.mu is taken again and again: that
\* a sync.Mutex does not starve a waiter gives strong fairness.  Nobody takes a
\* state.mu again and again while another one waits for it, since all but the first
\* wait for r.mu.
Fairness ==
    /\ \A c \in Client :
        SF_vars(LockRegistry(c)) /\ WF_vars(LockState(c)) /\ WF_vars(Succeed(c) \/ Fail(c))
    /\ SF_vars(JanitorLocks) /\ WF_vars(JanitorStep)
    /\ SF_vars(CloserSwaps) /\ WF_vars(CloserLocks) /\ WF_vars(CloserStep)

FairSpec == Spec /\ Fairness

-----------------------------------------------------------------------------
(* Properties.                                                             *)

Uses(c, s) == client[c].pc = "exchange" /\ client[c].state = s

\* Type invariant: pointers name sessions, and whoever holds a mutex is at a point from
\* which it releases it (the deferred and explicit unlocks of registry.go, server.go:453).
TypeOK ==
    /\ rmu \in Client \cup {Nobody, "janitor"}
    /\ map \in {1, 2}
    /\ sessions \subseteq Key
    /\ mu \in [Session -> Client \cup {Nobody, "janitor", "closer"}]
    /\ \A s \in Session :
        /\ mu[s] \in Client => Uses(mu[s], s)
        /\ mu[s] = "janitor" => s \in janitor.stop
        /\ mu[s] = "closer" => s = closer.at
    /\ runs \subseteq Session /\ expired \subseteq Session
    /\ client \in [Client -> Request]
    /\ janitor \in [pc : {"waiting", "looking", "stopping", "returned"},
                    look : SUBSET Key, stop : SUBSET Session]
    /\ closer \in [left : SUBSET Session, at : Session \cup {NoSession}]
    /\ server \in Server

\* Nobody stops the agent of a session under an exchange that is using it, neither the
\* janitor nor a late watcher nor Close ("stop is called under mu", registry.go:143), and
\* the janitor stops none that was used since its cutoff: "Taking the state lock while the
\* registry lock is held prevents the janitor from evicting a state between lookup and use"
\* (registry.go:71-73), and it keeps the mutex from the look at lastAccess to the stop.
NotStoppedInUse ==
    [][\A s \in runs \ runs' :
        /\ \A c \in Client : Uses(c, s) => ~Uses(c, s)'
        /\ s \in janitor.stop => s \in expired]_vars

\* One conversation is served by one exchange at a time, as long as the server is open,
\* also when the requests for a new key come together (registry.go:74-84).
OneExchangePerKey ==
    server = "open" =>
        \A c, d \in Client, s, t \in Session :
            Uses(c, s) /\ Uses(d, t) /\ s[1] = t[1] => c = d

\* After Close and the last request nothing is left running, whichever map the request
\* took its session from: registry.close does not know the sessions of requests that
\* come after it (server.go:112-118, registry.go:119-132, main.go:140-141).
NothingLeftBehind ==
    (server = "closed" /\ \A c \in Client : client[c].pc = "idle") => runs = {}

\* A request that was admitted gets its session and ends, though registry.lock waits for
\* a busy session with r.mu held and the janitor keeps the mutexes of all the sessions it
\* stops (registry.go:81, 104): the waiting never goes in a circle.
RequestEnds == \A c \in Client : client[c].pc = "admitted" ~> client[c].pc = "idle"

\* The agent of a session nobody uses any more is released (README, Sessions: "An idle
\* agent process is kept for 10 minutes"), however busy the other sessions are.
IdleSessionReleased ==
    \A k \in Key : <<k, 1>> \in expired \cap runs ~> <<k, 1>> \notin expired \cap runs
=============================================================================
