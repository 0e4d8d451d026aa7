-------------------------- MODULE RegistryProofs --------------------------
(***************************************************************************)
(* Theorems about the session registry, for any keys and any requests.     *)
(*                                                                         *)
(* Who uses or stops a session holds its mutex (LockInv).  The swap of     *)
(* the map in close divides the sessions: before it all are in the map of  *)
(* newRegistry, after it whatever runs is on the list of close (CloseInv). *)
(***************************************************************************)
EXTENDS Registry, TLAPS

\* The sessions close has still to stop.
Listed == closer.left \cup {closer.at}

LockInv ==
    /\ \A c \in Client :
        /\ client[c].pc = "locking" <=> rmu = c
        /\ client[c].pc = "exchange" => mu[client[c].state] = c
    /\ \A s \in janitor.stop :
        mu[s] = "janitor" /\ s \in expired /\ (s[2] = map => s[1] \in sessions)
    /\ janitor.pc = "waiting" => janitor.stop = {}
    /\ janitor.look # {} => rmu = "janitor" /\ janitor.look \subseteq sessions
    /\ rmu = "janitor" => janitor.pc = "looking" /\ janitor.look # {}

CloseInv ==
    /\ map = 1 =>
        /\ closer = [left |-> {}, at |-> NoSession]
        /\ runs \subseteq sessions \X {1}
        /\ janitor.stop \subseteq Key \X {1}
        /\ \A c \in Client : client[c].pc \in {"locking", "exchange"} => client[c].state \in sessions \X {1}
    /\ map = 2 =>
        /\ runs \subseteq Listed
        /\ \A c \in Client : client[c].pc = "exchange" /\ client[c].since = "open" => client[c].state \in Listed
    /\ closer.at = NoSession => closer.left = {}
    /\ server = "open" => map = 1
    /\ server = "closed" => map = 2 /\ closer.at = NoSession

IInv == TypeOK /\ LockInv /\ CloseInv
-----------------------------------------------------------------------------

\* The server starts with stored sessions, none of which runs or is in use.
LEMMA InitInv == Init => IInv
<1>1. Init => TypeOK
  BY RegistryAssumption DEF TypeOK, Server, Request, Init
<1>2. Init => LockInv
  BY RegistryAssumption DEF LockInv, NoRequest, Init
<1>3. Init => CloseInv
  BY DEF CloseInv, NoRequest, Init
<1> QED  BY <1>1, <1>2, <1>3 DEF IInv

\* A request is admitted: it has no session yet.
LEMMA ArriveStep == ASSUME IInv, NEW c \in Client, NEW k \in Key, Arrive(c, k) PROVE IInv'
<1>1. TypeOK'  BY DEF IInv, TypeOK, Uses, Request, Arrive
<1>2. LockInv'  BY DEF IInv, LockInv, Arrive
<1>3. CloseInv'  BY DEF IInv, CloseInv, Arrive
<1> QED  BY <1>1, <1>2, <1>3 DEF IInv

\* A new state is made under r.mu: the janitor cannot have it on its list.
LEMMA LockRegistryStep == ASSUME IInv, NEW c \in Client, LockRegistry(c) PROVE IInv'
<1>1. TypeOK'  BY DEF IInv, TypeOK, Uses, Session, Request, NoRequest, LockRegistry
<1>2. LockInv'  BY RegistryAssumption DEF IInv, TypeOK, LockInv, LockRegistry
<1>3. CloseInv'  BY DEF IInv, CloseInv, Listed, LockRegistry
<1> QED  BY <1>1, <1>2, <1>3 DEF IInv

\* A session nobody held is held by the exchange.  Before the swap it is one of map 1.
LEMMA LockStateStep == ASSUME IInv, NEW c \in Client, LockState(c) PROVE IInv'
<1>1. TypeOK'  BY RegistryAssumption DEF IInv, TypeOK, Uses, Request, NoRequest, LockState
<1>2. LockInv'  BY RegistryAssumption DEF IInv, TypeOK, LockInv, Request, NoRequest, LockState
<1>3. CloseInv'  BY DEF IInv, CloseInv, Listed, LockState
<1> QED  BY <1>1, <1>2, <1>3 DEF IInv

\* An agent stays in a session of sessions, or in one that close will visit.
LEMMA SucceedStep == ASSUME IInv, NEW c \in Client, Succeed(c) PROVE IInv'
<1>1. TypeOK'
  BY RegistryAssumption DEF IInv, TypeOK, Uses, Request, NoRequest, Succeed, EndExchange, Unlocks
<1>2. LockInv'
  BY RegistryAssumption DEF IInv, TypeOK, LockInv, NoRequest, Succeed, EndExchange, Unlocks
<1>3. CloseInv'  BY DEF IInv, CloseInv, Listed, NoRequest, Succeed, EndExchange
<1> QED  BY <1>1, <1>2, <1>3 DEF IInv

\* The mutex of one exchange is released, those of the others are not.
LEMMA FailStep == ASSUME IInv, NEW c \in Client, Fail(c) PROVE IInv'
<1>1. TypeOK'
  BY RegistryAssumption DEF IInv, TypeOK, Uses, Request, NoRequest, Fail, EndExchange, Unlocks,
     Stops
<1>2. LockInv'
  BY RegistryAssumption DEF IInv, TypeOK, LockInv, NoRequest, Fail, EndExchange, Unlocks
<1>3. CloseInv'  BY DEF IInv, CloseInv, Listed, NoRequest, Fail, EndExchange, Stops
<1> QED  BY <1>1, <1>2, <1>3 DEF IInv

\* A watcher stops a session and holds nothing afterwards.
LEMMA WatcherStep == ASSUME IInv, NEW s \in Session, Watcher(s) PROVE IInv'
<1>1. TypeOK'  BY DEF IInv, TypeOK, Uses, Watcher, Stops
<1>2. LockInv'  BY DEF IInv, LockInv, Watcher
<1>3. CloseInv'  BY DEF IInv, CloseInv, Listed, Watcher, Stops
<1> QED  BY <1>1, <1>2, <1>3 DEF IInv

\* Time passes.
LEMMA ExpireStep == ASSUME IInv, NEW s \in Session, Expire(s) PROVE IInv'
<1>1. TypeOK'  BY DEF IInv, TypeOK, Uses, Expire
<1>2. LockInv'  BY DEF IInv, LockInv, Expire
<1>3. CloseInv'  BY DEF IInv, CloseInv, Listed, Expire
<1> QED  BY <1>1, <1>2, <1>3 DEF IInv

\* The janitor begins with an empty list.
LEMMA JanitorLocksStep == ASSUME IInv, JanitorLocks PROVE IInv'
<1>1. TypeOK'  BY DEF IInv, TypeOK, LockInv, Uses, JanitorLocks, LooksOn
<1>2. LockInv'  BY RegistryAssumption DEF IInv, LockInv, JanitorLocks, LooksOn
<1>3. CloseInv'  BY DEF IInv, CloseInv, Listed, JanitorLocks, LooksOn
<1> QED  BY <1>1, <1>2, <1>3 DEF IInv

\* Who is on the janitor's list is locked by it, was idle, and is in the map as long as r.mu
\* is held.
LEMMA JanitorInspectsStep == ASSUME IInv, NEW k \in Key, JanitorInspects(k) PROVE IInv'
<1>1. TypeOK'
  BY RegistryAssumption DEF IInv, TypeOK, Uses, JanitorInspects, Inspect, LooksOn, IsIdle
<1>2. LockInv'
  <2> DEFINE s == <<k, map>>
  <2>1. /\ s \in Session /\ s[1] = k /\ s[2] = map /\ k \in sessions
        /\ UNCHANGED <<map, sessions, client, expired>>
        /\ janitor'.look = janitor.look \ {k}
    BY DEF IInv, TypeOK, LockInv, Session, JanitorInspects, Inspect, LooksOn
  <2>2. \A c \in Client : client[c].pc # "locking"
    BY RegistryAssumption DEF IInv, LockInv, JanitorInspects
  <2>3. ASSUME NEW c \in Client, client[c].pc = "exchange"
        PROVE  mu'[client[c].state] = c
    <3>1. client[c].state \in Session /\ mu[client[c].state] = c
      BY <2>3 DEF IInv, TypeOK, LockInv, Request, NoRequest, Session
    <3>2. CASE IsIdle(s)
      BY <2>1, <3>1, <3>2, RegistryAssumption DEF IInv, TypeOK, JanitorInspects, Inspect, IsIdle
    <3>3. CASE ~IsIdle(s)
      BY <3>1, <3>3 DEF JanitorInspects, Inspect
    <3> QED  BY <3>2, <3>3
  <2>4. ASSUME NEW t \in janitor'.stop
        PROVE  mu'[t] = "janitor" /\ t \in expired' /\ (t[2] = map' => t[1] \in sessions')
    <3>1. CASE t \in janitor.stop
      BY <3>1 DEF IInv, LockInv, JanitorInspects, Inspect
    <3>2. CASE t = s /\ IsIdle(s)
      BY <2>1, <3>2 DEF IInv, TypeOK, JanitorInspects, Inspect, IsIdle
    <3> QED  BY <3>1, <3>2 DEF JanitorInspects, Inspect, LooksOn
  <2>5. janitor'.pc = "waiting" => janitor'.stop = {}
    BY DEF JanitorInspects, Inspect, LooksOn
  <2>6. janitor'.look # {} => rmu' = "janitor" /\ janitor'.look \subseteq sessions'
    BY DEF IInv, LockInv, JanitorInspects, Inspect, LooksOn
  <2>7. rmu' = "janitor" => janitor'.pc = "looking" /\ janitor'.look # {}
    BY RegistryAssumption DEF JanitorInspects, Inspect, LooksOn
  <2>8. \A c \in Client : rmu' # c
    BY RegistryAssumption DEF JanitorInspects, Inspect, LooksOn
  <2> QED  BY <2>1, <2>2, <2>3, <2>4, <2>5, <2>6, <2>7, <2>8 DEF LockInv
<1>3. CloseInv'  BY DEF IInv, CloseInv, Listed, JanitorInspects, Inspect, LooksOn
<1> QED  BY <1>1, <1>2, <1>3 DEF IInv

\* One session is stopped, the others remain locked.
LEMMA JanitorStopsStep == ASSUME IInv, NEW s \in Session, JanitorStops(s) PROVE IInv'
<1>1. TypeOK'  BY RegistryAssumption DEF IInv, TypeOK, Uses, Session, JanitorStops, Stops, Unlocks
<1>2. LockInv'  BY RegistryAssumption DEF IInv, LockInv, JanitorStops, Unlocks
<1>3. CloseInv'  BY DEF IInv, CloseInv, Listed, JanitorStops, Stops
<1> QED  BY <1>1, <1>2, <1>3 DEF IInv

\* The janitor returns between two searches.
LEMMA JanitorReturnsStep == ASSUME IInv, JanitorReturns PROVE IInv'
<1>1. TypeOK'  BY DEF IInv, TypeOK, Uses, JanitorReturns
<1>2. LockInv'  BY DEF IInv, LockInv, JanitorReturns
<1>3. CloseInv'  BY DEF IInv, CloseInv, Listed, JanitorReturns
<1> QED  BY <1>1, <1>2, <1>3 DEF IInv

\* s.cancel.
LEMMA CancelStep == ASSUME IInv, Cancel PROVE IInv'
<1>1. TypeOK'  BY DEF IInv, TypeOK, Uses, Server, Cancel
<1>2. LockInv'  BY DEF IInv, LockInv, Cancel
<1>3. CloseInv'  BY DEF IInv, CloseInv, Cancel
<1> QED  BY <1>1, <1>2, <1>3 DEF IInv

\* r.mu is free, so no request is between its lookup and its session: whatever runs or will
\* run from before the swap is on the list of close.
LEMMA CloserSwapsStep == ASSUME IInv, CloserSwaps PROVE IInv'
<1>1. TypeOK'
  BY DEF IInv, TypeOK, CloseInv, Uses, Session, NoSession, CloserSwaps, ReadyToSwap, GoesTo
<1>2. LockInv'  BY RegistryAssumption DEF IInv, LockInv, CloseInv, CloserSwaps, ReadyToSwap
<1>3. CloseInv'  BY DEF IInv, CloseInv, Listed, NoSession, CloserSwaps, ReadyToSwap, GoesTo
<1> QED  BY <1>1, <1>2, <1>3 DEF IInv

\* Close holds the session it is at.
LEMMA CloserLocksStep == ASSUME IInv, CloserLocks PROVE IInv'
<1>1. TypeOK'  BY RegistryAssumption DEF IInv, TypeOK, Uses, CloserLocks
<1>2. LockInv'  BY RegistryAssumption DEF IInv, LockInv, CloserLocks, CanStop
<1>3. CloseInv'  BY DEF IInv, CloseInv, Listed, CloserLocks
<1> QED  BY <1>1, <1>2, <1>3 DEF IInv

\* The session that leaves the list is not in use, since close held it.
LEMMA CloserStopsStep == ASSUME IInv, CloserStops PROVE IInv'
<1>1. TypeOK'  BY RegistryAssumption DEF IInv, TypeOK, Uses, CloserStops, Stops, Unlocks, GoesTo
<1>2. LockInv'  BY RegistryAssumption DEF IInv, LockInv, CloserStops, Unlocks
<1>3. CloseInv'
  BY RegistryAssumption DEF IInv, TypeOK, LockInv, CloseInv, Listed, Session, NoSession,
     CloserStops, Stops, GoesTo
<1> QED  BY <1>1, <1>2, <1>3 DEF IInv

\* Close returns with an empty list.
LEMMA CloseReturnsStep == ASSUME IInv, CloseReturns PROVE IInv'
<1>1. TypeOK'  BY DEF IInv, TypeOK, Uses, Server, CloseReturns
<1>2. LockInv'  BY DEF IInv, LockInv, CloseReturns
<1>3. CloseInv'  BY DEF IInv, CloseInv, Listed, CloseReturns
<1> QED  BY <1>1, <1>2, <1>3 DEF IInv

-----------------------------------------------------------------------------

\* Whatever requests, watchers, janitor and closer do, who uses or stops a session holds it, and
\* what runs is in the map or on the list of close (registry.go:71-132).
THEOREM Inductive == Spec => []IInv
<1>1. IInv /\ [Next]_vars => IInv'
  <2> SUFFICES ASSUME IInv, [Next]_vars PROVE IInv'
    OBVIOUS
  <2>1. ASSUME NEW c \in Client, ClientStep(c) PROVE IInv'
    BY <2>1, ArriveStep, LockRegistryStep, LockStateStep, SucceedStep, FailStep DEF ClientStep
  <2>2. ASSUME NEW s \in Session, Watcher(s) \/ Expire(s) PROVE IInv'
    BY <2>2, WatcherStep, ExpireStep
  <2>3. CASE JanitorLocks \/ JanitorStep \/ JanitorReturns
    BY <2>3, JanitorLocksStep, JanitorInspectsStep, JanitorStopsStep, JanitorReturnsStep DEF
       JanitorStep
  <2>4. CASE Cancel \/ CloserSwaps \/ CloserLocks \/ CloserStep
    BY <2>4, CancelStep, CloserSwapsStep, CloserLocksStep, CloserStopsStep, CloseReturnsStep DEF
       CloserStep
  <2>5. CASE UNCHANGED vars
    BY <2>5 DEF vars, IInv, TypeOK, LockInv, CloseInv, Listed, Uses
  <2> QED  BY <2>1, <2>2, <2>3, <2>4, <2>5 DEF Next
<1> QED  BY <1>1, InitInv, PTL DEF Spec

\* The registry keeps its types, and whoever holds the mutex of a session is at a point from
\* which it releases it (registry.go:71-132).
THEOREM TypeCorrect == Spec => []TypeOK
<1>1. IInv => TypeOK
  BY DEF IInv
<1> QED  BY <1>1, Inductive, PTL

\* A session whose mutex no request holds is not in use.
LEMMA Unused ==
  ASSUME IInv, NEW s \in Session, mu[s] \notin Client
  PROVE  \A c \in Client : ~Uses(c, s)
BY DEF IInv, LockInv, Uses

\* One step of NotStoppedInUse: four actions stop a session, and each holds its mutex.
LEMMA StopsUnused ==
  ASSUME IInv, [Next]_vars, NEW s \in runs \ runs'
  PROVE  /\ \A c \in Client : Uses(c, s) => ~Uses(c, s)'
         /\ s \in janitor.stop => s \in expired
<1>0. s \in Session
  BY DEF IInv, TypeOK
<1>1. s \in janitor.stop => s \in expired
  BY DEF IInv, LockInv
<1>2. ASSUME NEW d \in Client, ClientStep(d)
      PROVE  \A c \in Client : Uses(c, s) => ~Uses(c, s)'
  <2>1. CASE Fail(d)
    <3>1. client[d].state = s /\ client[d].pc = "exchange"
      BY <2>1 DEF Fail, EndExchange, Stops
    <3>2. \A c \in Client : Uses(c, s) => c = d
      BY <3>1 DEF IInv, LockInv, Uses
    <3>3. ~Uses(d, s)'
      BY <2>1 DEF Fail, EndExchange, Uses, IInv, TypeOK, NoRequest
    <3> QED  BY <3>2, <3>3
  <2>2. CASE ~Fail(d)
    BY <1>2, <2>2 DEF ClientStep, Arrive, LockRegistry, LockState, Succeed
  <2> QED  BY <2>1, <2>2
<1>3. CASE Watcher(s)
  <2>1. mu[s] \notin Client
    BY <1>3, RegistryAssumption DEF Watcher
  <2> QED  BY <2>1, <1>0, <1>1, Unused
<1>4. CASE JanitorStops(s)
  <2>1. mu[s] \notin Client
    BY <1>4, RegistryAssumption DEF JanitorStops, IInv, LockInv
  <2> QED  BY <2>1, <1>0, <1>1, Unused
<1>5. CASE CloserStops /\ closer.at = s
  <2>1. mu[s] \notin Client
    BY <1>5, RegistryAssumption DEF CloserStops
  <2> QED  BY <2>1, <1>0, <1>1, Unused
<1>6. \/ \E d \in Client : ClientStep(d)
      \/ Watcher(s)
      \/ JanitorStops(s)
      \/ (CloserStops /\ closer.at = s)
  BY DEF Next, vars, Watcher, Expire, JanitorLocks, JanitorStep, JanitorInspects, JanitorStops,
         JanitorReturns, Cancel, CloserSwaps, CloserLocks, CloserStep, CloserStops, CloseReturns, Stops
<1> QED  BY <1>1, <1>2, <1>3, <1>4, <1>5, <1>6

\* Whoever stops an agent leaves no exchange with a stopped session, for any number of sessions
\* and requests ("stop is called under mu", registry.go:71-73, 143).
THEOREM StoppedSafely == Spec => NotStoppedInUse
<1>1. IInv /\ [Next]_vars =>
        [\A s \in runs \ runs' :
            /\ \A c \in Client : Uses(c, s) => ~Uses(c, s)'
            /\ s \in janitor.stop => s \in expired]_vars
  BY StopsUnused
<1> QED  BY <1>1, Inductive, PTL DEF Spec, NotStoppedInUse

\* While the server is open a conversation has one exchange at a time: there is one map, and the
\* mutex of a session has one holder (registry.go:74-84).
THEOREM OneExchange == Spec => []OneExchangePerKey
<1>1. IInv => OneExchangePerKey
  <2> SUFFICES ASSUME IInv, server = "open",
                      NEW c \in Client, NEW d \in Client, NEW s \in Session, NEW t \in Session,
                      Uses(c, s), Uses(d, t), s[1] = t[1]
               PROVE  c = d
    BY DEF OneExchangePerKey
  <2>1. s \in sessions \X {1} /\ t \in sessions \X {1}
    BY DEF IInv, CloseInv, Uses
  <2>2. s = t
    BY <2>1
  <2> QED  BY <2>2 DEF IInv, LockInv, Uses
<1> QED  BY <1>1, Inductive, PTL

\* Server.Close leaves nothing running, though requests go on beside it: what could still
\* run is on the list of close, and the list is empty when it returns (registry.go:119-132).
THEOREM CloseComplete == Spec => []NothingLeftBehind
<1>1. IInv => NothingLeftBehind
  BY DEF IInv, TypeOK, CloseInv, Listed, NothingLeftBehind, Session, NoSession
<1> QED  BY <1>1, Inductive, PTL
-----------------------------------------------------------------------------

Goroutine == Client \cup {"janitor", "closer"}

\* a waits in a Lock of r.mu or of a session (registry.go:74-84, 94, 120, 128) and b holds it.
\* The TryLock of the janitor waits for nobody.
Waits(a, b) ==
    \/ a \in Client /\ client[a].pc = "admitted" /\ rmu = b
    \/ a \in Client /\ client[a].pc = "locking" /\ mu[client[a].state] = b
    \/ a = "janitor" /\ janitor.pc = "waiting" /\ rmu = b
    \/ a = "closer" /\ server = "cancelled" /\ map = 1 /\ rmu = b
    \/ a = "closer" /\ closer.at # NoSession /\ b # "closer" /\ mu[closer.at] = b

\* Waiting goes over at most one goroutine that waits itself, the request that holds r.mu: who
\* holds the mutex of a session never waits for another (registry.go:71-84, 98-115, 127-131).
WaitingEnds ==
    \A a, b, d, e \in Goroutine : ~(Waits(a, b) /\ Waits(b, d) /\ Waits(d, e))

\* Who holds r.mu is a request that waits for its session, or the janitor, which looks on.
LEMMA RegistryHolder ==
  ASSUME IInv, NEW a \in Goroutine, rmu = a
  PROVE  \/ a \in Client /\ client[a].pc = "locking"
         \/ a = "janitor" /\ janitor.pc = "looking"
BY RegistryAssumption DEF IInv, TypeOK, LockInv, Goroutine

\* Who holds the mutex of a session waits for nobody, close not for the session it holds either.
LEMMA SessionHolder ==
  ASSUME IInv, NEW a \in Goroutine, NEW s \in Session, mu[s] = a
  PROVE  \A b \in Goroutine : ~Waits(a, b)
<1>1. CASE a \in Client
  <2>1. client[a].pc = "exchange"
    BY <1>1 DEF IInv, TypeOK, Uses
  <2> QED  BY <1>1, <2>1, RegistryAssumption DEF Waits
<1>2. CASE a = "janitor"
  <2>1. janitor.pc # "waiting"
    BY <1>2 DEF IInv, TypeOK, LockInv
  <2> QED  BY <1>2, <2>1, RegistryAssumption DEF Waits
<1>3. CASE a = "closer"
  <2>1. s = closer.at /\ s # NoSession
    BY <1>3 DEF IInv, TypeOK, Session, NoSession
  <2>2. map # 1
    BY <2>1 DEF IInv, CloseInv
  <2> QED  BY <1>3, <2>1, <2>2, RegistryAssumption DEF Waits, Goroutine
<1> QED  BY <1>1, <1>2, <1>3 DEF Goroutine

\* No deadlock between the two kinds of mutexes: whoever waits, waits for a goroutine that goes
\* on, or for a request that waits for one that goes on (registry.go:71-132).
THEOREM WaitingNeverCircles == Spec => []WaitingEnds
<1>1. IInv => WaitingEnds
  <2> SUFFICES ASSUME IInv, NEW a \in Goroutine, NEW b \in Goroutine, NEW d \in Goroutine,
                      NEW e \in Goroutine, Waits(a, b), Waits(b, d), Waits(d, e)
               PROVE  FALSE
    BY DEF WaitingEnds
  <2>1. ASSUME NEW p \in Goroutine, NEW q \in Goroutine, Waits(p, q)
        PROVE  rmu = q \/ \E s \in Session : mu[s] = q
    <3>1. closer.at \in Session \cup {NoSession}
      BY DEF IInv, TypeOK
    <3>2. \A c \in Client : client[c].pc = "locking" => client[c].state \in Session
      BY DEF IInv, TypeOK, Request, NoRequest
    <3> QED  BY <2>1, <3>1, <3>2 DEF Waits
  <2>2. \A p, q, r \in Goroutine : Waits(p, q) /\ Waits(q, r) => rmu = q
    BY <2>1, SessionHolder
  <2>3. rmu = b /\ b = d
    BY <2>2
  <2>4. b \in Client /\ client[b].pc = "locking" /\ client[b].state \in Session
    <3>1. b \in Client /\ client[b].pc = "locking"
      BY <2>3, RegistryHolder, RegistryAssumption DEF Waits
    <3> QED  BY <3>1 DEF IInv, TypeOK, Request, NoRequest
  <2>5. mu[client[b].state] = b
    BY <2>3, <2>4, RegistryAssumption DEF Waits
  <2> QED  BY <2>3, <2>4, <2>5, SessionHolder
<1> QED  BY <1>1, Inductive, PTL
=============================================================================
