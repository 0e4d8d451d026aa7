--------------------------- MODULE ModelCatalog ---------------------------
(***************************************************************************)
(* The models of the backends (server.go): what discoverModels makes of    *)
(* their catalogs, and how handleChat chooses the backend model and the    *)
(* session key of a request.  Requests for /models and chat requests for a *)
(* model that is not advertised refresh the routes at the same time, while *)
(* the backends change what they advertise.                                *)
(*                                                                         *)
(* A model ID is a pair: its base, and its effort in brackets or NoEffort. *)
(* An ID without a valid suffix is all base.  Names are sequences of       *)
(* symbols, since the key of a session joins them with colons, which they  *)
(* may contain.                                                            *)
(***************************************************************************)
EXTENDS Naturals, Sequences, FiniteSets, SequencesExt

CONSTANTS
    Symbol,     \* the symbols of names and texts
    SessionID,  \* session IDs of the clients
    Engines,    \* the configured backends, in sorted order (s.models)
    Base,       \* model IDs without effort
    Effort,     \* efforts
    NoEffort,   \* no suffix, no reasoning_effort in the request
    Published,  \* the catalogs (sequences of model IDs) each backend may have
    Client,     \* goroutines that serve HTTP requests
    MaxChanges  \* bound: how often backends change their catalogs

Engine == ToSet(Engines)
ModelID == Base \X (Effort \cup {NoEffort})

\* The ID of a backend has no slash (acp_backend.go:33-44).
ASSUME CatalogAssumption ==
    /\ Engines \in Seq(Engine)
    /\ SessionID \subseteq Seq(Symbol) /\ Engine \subseteq Seq(Symbol)
    /\ Base \subseteq Seq(Symbol) /\ Effort \subseteq Seq(Symbol)
    /\ \A e \in Engine : "/" \notin ToSet(e)
    /\ Published \in [Engine -> SUBSET Seq(ModelID)]
    /\ NoEffort \notin Effort
    /\ MaxChanges \in Nat

VARIABLES
    catalog,    \* what each backend advertises now
    changes,    \* how often that has changed
    routes,     \* s.routes: from <<engine, base>> to route
    client      \* the request of each goroutine

vars == <<catalog, changes, routes, client>>

-----------------------------------------------------------------------------
(* Routes.                                                                 *)

\* A modelRoute: the base as backend model, the IDs the backend may report, the
\* variants in order.
Route == [backend : Base, effective : SUBSET ModelID, variants : Seq(Effort)]

WithVariant(variants, effort) ==
    IF effort \in ToSet(variants) THEN variants ELSE Append(variants, effort)

\* One model of the catalog.  A route without variants is made anew: by a model without
\* effort with this ID alone, by a variant with no IDs of its own.
Grouped(grouped, model) ==
    LET base == model[1]
        effort == model[2]
        old == IF base \in DOMAIN grouped THEN grouped[base].variants ELSE <<>>
        route == IF effort # NoEffort
                 THEN [backend |-> base, effective |-> {}, variants |-> WithVariant(old, effort)]
                 ELSE IF old # <<>> THEN grouped[base]
                 ELSE [backend |-> base, effective |-> {model}, variants |-> <<>>]
    IN  [b \in DOMAIN grouped \cup {base} |-> IF b = base THEN route ELSE grouped[b]]

GroupedBracketRoutes(models) == FoldLeft(Grouped, <<>>, models)

\* resolveModel for <engine>/<base>: the route, or one that no catalog has.
Unadvertised(base) == [backend |-> base, effective |-> {}, variants |-> <<>>]
ResolveModel(id) == IF id \in DOMAIN routes THEN routes[id] ELSE Unadvertised(id[2])

\* handleChat asks the backends before it uses a route that no catalog has.
IsUnadvertised(route) == route.effective = {} /\ route.variants = <<>>

Accepted(route, requested) ==
    IF route.variants = <<>> THEN requested = NoEffort
    ELSE requested \in ToSet(route.variants) \cup {NoEffort}

\* Mutant of SelectedEffort: no effort is chosen for the client.
SelectedEffortNone(route, requested) == requested
\* selectReasoningEffort, for a request that is accepted: the first variant by default.
SelectedEffort(route, requested) ==
    IF requested = NoEffort /\ route.variants # <<>> THEN Head(route.variants) ELSE requested

\* The model of a request.
ModelName(id) == id[1] \o <<"/">> \o id[2]

SessionKey(session, id, effort) ==
    session \o <<":">> \o ModelName(id) \o (IF effort = NoEffort THEN <<>> ELSE <<":">> \o effort)

\* Mutant of StateKey: the effort the client asked for, not the one it gets.
StateKeyRequested(session, id, requested, selected) == SessionKey(session, id, requested)
\* The session of a client has one state for each model and effort.
StateKey(session, id, requested, selected) == SessionKey(session, id, selected)

-----------------------------------------------------------------------------
(* Requests.                                                               *)

NoRequest == [pc |-> "idle"]

Init ==
    /\ catalog \in [Engine -> UNION {Published[e] : e \in Engine}]
    /\ \A e \in Engine : catalog[e] \in Published[e]
    /\ changes = 0
    /\ routes = <<>>
    /\ client = [c \in Client |-> NoRequest]

Becomes(c, r) == client' = [client EXCEPT ![c] = r]

\* discoverModels asks one backend after the other.
Asking(for, left) == [pc |-> "asking", for |-> for, left |-> left]

\* What a chat request ends with: the key of its session and the model for its agent, or
\* an error for its effort.
Routed(session, id, requested) ==
    LET route == ResolveModel(id)
        selected == SelectedEffort(route, requested)
    IN  IF Accepted(route, requested)
        THEN [pc |-> "routed", session |-> session, id |-> id,
              key |-> StateKey(session, id, requested, selected),
              model |-> <<route.backend, selected>>]
        ELSE [pc |-> "rejected", id |-> id]

\* GET /models.
Models(c) ==
    /\ client[c].pc = "idle"
    /\ Becomes(c, Asking(<<>>, Engines))
    /\ UNCHANGED <<catalog, changes, routes>>

\* A chat request for <engine>/<base>, until its session is looked up.
Chat(c, session, id, requested) ==
    /\ client[c].pc = "idle"
    /\ Becomes(c, IF IsUnadvertised(ResolveModel(id))
                  THEN Asking(<<session, id, requested>>, Engines)
                  ELSE Routed(session, id, requested))
    /\ UNCHANGED <<catalog, changes, routes>>

\* ListModels: the answer is on its way from here on; no lock is held.
Answer(c) ==
    /\ client[c].pc = "asking" /\ client[c].left # <<>>
    /\ Becomes(c, [pc |-> "answered", for |-> client[c].for, left |-> client[c].left,
                   answer |-> catalog[Head(client[c].left)]])
    /\ UNCHANGED <<catalog, changes, routes>>

\* Mutant of Failed: an error counts as an empty catalog.
FailedEmpty(e) == routes' = [id \in {id \in DOMAIN routes : id[1] # e} |-> routes[id]]
Failed(e) == UNCHANGED routes

\* ListModels fails or takes more than 15 seconds: the routes stay.
AnswerFails(c) ==
    /\ client[c].pc = "asking" /\ client[c].left # <<>>
    /\ Failed(Head(client[c].left))
    /\ Becomes(c, [client[c] EXCEPT !.left = Tail(@)])
    /\ UNCHANGED <<catalog, changes>>

\* Mutant of Kept: routes of the backend that are no longer advertised stay.
KeptAll(e) == DOMAIN routes
\* The routes of the other backends.
Kept(e) == {id \in DOMAIN routes : id[1] # e}

\* Under routesMu the routes of the backend are replaced by those of the answer.
Install(c) ==
    /\ client[c].pc = "answered"
    /\ LET e == Head(client[c].left)
           fresh == GroupedBracketRoutes(client[c].answer)
           new == {e} \X DOMAIN fresh
       IN  routes' = [id \in Kept(e) \cup new |-> IF id \in new THEN fresh[id[2]] ELSE routes[id]]
    /\ Becomes(c, Asking(client[c].for, Tail(client[c].left)))
    /\ UNCHANGED <<catalog, changes>>

\* All backends were asked: /models lists the routes, a chat request resolves again.
Asked(c) ==
    /\ client[c].pc = "asking" /\ client[c].left = <<>>
    /\ Becomes(c, IF client[c].for = <<>> THEN NoRequest
                  ELSE Routed(client[c].for[1], client[c].for[2], client[c].for[3]))
    /\ UNCHANGED <<catalog, changes, routes>>

Leave(c) ==
    /\ client[c].pc \in {"routed", "rejected"}
    /\ Becomes(c, NoRequest)
    /\ UNCHANGED <<catalog, changes, routes>>

\* A backend changes what it advertises.
Publish(e, models) ==
    /\ changes < MaxChanges /\ models # catalog[e]
    /\ catalog' = [catalog EXCEPT ![e] = models]
    /\ changes' = changes + 1
    /\ UNCHANGED <<routes, client>>

Next ==
    \/ \E c \in Client :
        \/ Models(c) \/ Answer(c) \/ AnswerFails(c) \/ Install(c) \/ Asked(c) \/ Leave(c)
        \/ \E session \in SessionID, id \in Engine \X Base, requested \in Effort \cup {NoEffort} :
                Chat(c, session, id, requested)
    \/ \E e \in Engine : \E models \in Published[e] : Publish(e, models)

Spec == Init /\ [][Next]_vars

-----------------------------------------------------------------------------
(* Properties.                                                             *)

RoutesOf(e) ==
    [b \in {id[2] : id \in {i \in DOMAIN routes : i[1] = e}} |-> routes[<<e, b>>]]

\* The routes of a backend are those of one catalog that it really had, never a mixture of
\* two, also when refreshes overlap; and they do not disappear because it fails ("if
\* discovery fails the last known catalog is kept", README:16; server.go:221-240).
KnownCatalogKept ==
    [][\A e \in Engine : RoutesOf(e)' # RoutesOf(e) =>
          \E c \in Client : /\ client[c].pc = "answered" /\ Head(client[c].left) = e
                            /\ RoutesOf(e)' = GroupedBracketRoutes(client[c].answer)]_vars

HasColon(request) == ":" \in ToSet(request.session \o ModelName(request.id))

\* Two requests that are led to one state of a session want one model of its agent, whatever
\* was advertised in the meantime and whichever variant was first when they were routed: "a
\* conversation never silently keeps the old effort" (README:255; server.go:361, 447-450).
\* And they are of one session.  Excepted are different sessions or models with a colon in
\* their names, which the key does not always tell apart: a/m at effort x has the key of a/m:x.
KeyFixesModel ==
    \A c, d \in Client :
        LET one == client[c]
            other == client[d]
        IN  /\ one.pc = "routed" /\ other.pc = "routed" /\ one.key = other.key
            /\ \/ one.session = other.session /\ one.id = other.id
               \/ ~HasColon(one) /\ ~HasColon(other)
            => one.session = other.session /\ one.id = other.id /\ one.model = other.model

\* If backends stop changing, the routes become what they advertise and stay so, as long as
\* refreshes that succeed go on: an older answer may overwrite a newer one (server.go:231),
\* not for good.
RoutesCatchUp ==
    \A e \in Engine :
        []<><<\E c \in Client : Install(c) /\ Head(client[c].left) = e>>_vars
            => <>[](RoutesOf(e) = GroupedBracketRoutes(catalog[e]))
=============================================================================
