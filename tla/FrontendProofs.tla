--------------------------- MODULE FrontendProofs ---------------------------
(***************************************************************************)
(* What the gateway makes of lists of backends, of catalogs and of the     *)
(* bodies of requests, for any backends, models, catalogs, clients,        *)
(* conversations and tools.                                                *)
(***************************************************************************)
EXTENDS CommandLineProofs, FiniteSetTheorems

-----------------------------------------------------------------------------
(* The routes of a catalog.                                                *)

IDs(B, E) == B \X (E \cup {NoEffort})
RouteOf(B, E) == [backend : B, effective : SUBSET IDs(B, E), variants : Seq(E)]
RoutesFor(B, E) == UNION {[D -> RouteOf(B, E)] : D \in SUBSET B}

\* The element of a sequence, and a sequence with one element more.
LEMMA WithVariantOf ==
    ASSUME NEW E, NEW variants \in Seq(E), NEW effort \in E
    PROVE  /\ WithVariant(variants, effort) \in Seq(E)
           /\ ToSet(WithVariant(variants, effort)) = ToSet(variants) \cup {effort}
           /\ WithVariant(variants, effort) # <<>>
           /\ Head(WithVariant(variants, effort)) = IF variants = <<>> THEN effort ELSE Head(variants)
<1>1. CASE effort \in ToSet(variants)
  BY <1>1 DEF WithVariant, ToSet
<1>2. CASE effort \notin ToSet(variants)
  <2> DEFINE w == Append(variants, effort)
  <2>1. WithVariant(variants, effort) = w
    BY <1>2 DEF WithVariant
  <2>2. w \in Seq(E) /\ w # <<>> /\ Head(w) = IF variants = <<>> THEN effort ELSE Head(variants)
    <3>1. w \in Seq(E) /\ Len(w) = Len(variants) + 1
      OBVIOUS
    <3>0. w # <<>>
      <4> HIDE DEF w
      <4> QED BY <3>1
    <3>2. Head(w) = w[1]
      BY <3>1, <3>0
    <3>3. CASE variants = <<>>
      BY <3>2, <3>3
    <3>4. CASE variants # <<>>
      BY <3>2, <3>4
    <3> QED BY <3>1, <3>0, <3>3, <3>4
  <2>3. /\ DOMAIN w = DOMAIN variants \cup {Len(variants) + 1} /\ w[Len(variants) + 1] = effort
        /\ \A i \in DOMAIN variants : w[i] = variants[i]
    OBVIOUS
  <2>4. ToSet(w) = ToSet(variants) \cup {effort}
    <3> HIDE DEF w
    <3> QED BY <2>3 DEF ToSet
  <2> QED BY <2>1, <2>2, <2>4
<1> QED BY <1>1, <1>2

\* One more model keeps the type of the routes.
LEMMA GroupedType ==
    ASSUME NEW B, NEW E, NEW grouped \in RoutesFor(B, E), NEW model \in IDs(B, E)
    PROVE  Grouped(grouped, model) \in RoutesFor(B, E)
<1> DEFINE D == DOMAIN grouped
           base == model[1]
           effort == model[2]
           old == IF base \in D THEN grouped[base].variants ELSE <<>>
           route == IF effort # NoEffort
                    THEN [backend |-> base, effective |-> {}, variants |-> WithVariant(old, effort)]
                    ELSE IF old # <<>> THEN grouped[base]
                    ELSE [backend |-> base, effective |-> {model}, variants |-> <<>>]
<1>1. D \in SUBSET B /\ grouped \in [D -> RouteOf(B, E)]
  BY DEF RoutesFor
<1>2. base \in B /\ effort \in E \cup {NoEffort}
  BY DEF IDs
<1>3. old \in Seq(E) /\ (old # <<>> => base \in D)
  BY <1>1 DEF RouteOf
<1>4. route \in RouteOf(B, E)
  <2>1. CASE effort # NoEffort
    <3>1. WithVariant(old, effort) \in Seq(E)
      BY <1>2, <1>3, <2>1, WithVariantOf
    <3> QED BY <1>2, <2>1, <3>1 DEF RouteOf
  <2>2. CASE effort = NoEffort /\ old # <<>>
    BY <1>1, <1>3, <2>2
  <2>3. CASE effort = NoEffort /\ old = <<>>
    BY <1>2, <2>3 DEF RouteOf
  <2> QED BY <2>1, <2>2, <2>3
<1>5. Grouped(grouped, model) = [b \in D \cup {base} |-> IF b = base THEN route ELSE grouped[b]]
  BY DEF Grouped
<1> HIDE DEF D, base, route
<1>6. Grouped(grouped, model) \in [D \cup {base} -> RouteOf(B, E)]
  BY <1>1, <1>4, <1>5
<1>7. D \cup {base} \in SUBSET B
  BY <1>1, <1>2
<1> QED BY <1>6, <1>7 DEF RoutesFor

\* A fold that groups a catalog has groups of its models up to each position: those of no
\* models at first, then with one model more.
Groups(g, models) ==
    /\ g[0] = <<>>
    /\ \A n \in 0 .. Len(models) : n < Len(models) => g[n + 1] = Grouped(g[n], models[n + 1])
    /\ g[Len(models)] = GroupedBracketRoutes(models)

LEMMA GroupsExist ==
    ASSUME NEW B, NEW E, NEW models \in Seq(IDs(B, E))
    PROVE  \E g : Groups(g, models)
<1> DEFINE V == RoutesFor(B, E)
           N == Len(models)
           step == [i \in 1 .. N |-> [v \in V |-> Grouped(v, models[i])]]
           it == CHOOSE f : f = [s \in SUBSET (DOMAIN models) |->
                    IF s = {} THEN <<>> ELSE Grouped(f[s \ {Max(s)}], models[Max(s)])]
           g == [n \in 0 .. N |-> it[1 .. n]]
<1>1. N \in Nat /\ DOMAIN models = 1 .. N
  OBVIOUS
<1>2. <<>> \in V
  <2>1. <<>> \in [{} -> RouteOf(B, E)] /\ {} \in SUBSET B
    OBVIOUS
  <2> QED BY <2>1 DEF RoutesFor
<1>3. \A i \in 1 .. N, v \in V : step[i][v] = Grouped(v, models[i]) /\ step[i][v] \in V
  <2> SUFFICES ASSUME NEW i \in 1 .. N, NEW v \in V
               PROVE  step[i][v] = Grouped(v, models[i]) /\ step[i][v] \in V
    OBVIOUS
  <2>1. models[i] \in IDs(B, E)
    BY <1>1
  <2> HIDE DEF V
  <2>2. step[i][v] = Grouped(v, models[i])
    OBVIOUS
  <2>3. Grouped(v, models[i]) \in V
    BY <2>1, GroupedType DEF V
  <2> QED BY <2>2, <2>3
<1>4. PICK f : FoldOf(f, V, <<>>, N, step)
  <2>1. StepsWithin(V, N, step)
    BY <1>3 DEF StepsWithin
  <2> HIDE DEF V, N, step, it, g
  <2> QED BY <1>1, <1>2, <2>1, FoldExists
<1>5. f = [s \in SUBSET (DOMAIN models) |->
              IF s = {} THEN <<>> ELSE Grouped(f[s \ {Max(s)}], models[Max(s)])]
  <2> HIDE DEF V, N, step
  <2> USE DEF FoldOf
  <2> SUFFICES ASSUME NEW s \in SUBSET (1 .. N)
               PROVE  f[s] = IF s = {} THEN <<>> ELSE Grouped(f[s \ {Max(s)}], models[Max(s)])
    BY <1>1, <1>4
  <2>1. CASE s = {}
    BY <1>4, <2>1
  <2>2. CASE s # {}
    <3>1. Max(s) \in 1 .. N
      BY <1>1, <2>2, MaxExists
    <3>2. f[s \ {Max(s)}] \in V
      BY <1>4
    <3> QED BY <1>3, <1>4, <2>2, <3>1, <3>2
  <2> QED BY <2>1, <2>2
<1>6. it = [s \in SUBSET (DOMAIN models) |->
              IF s = {} THEN <<>> ELSE Grouped(it[s \ {Max(s)}], models[Max(s)])]
  BY <1>5, Zenon
<1>7. GroupedBracketRoutes(models) = it[DOMAIN models]
  BY Zenon DEF GroupedBracketRoutes, FoldLeft, MapThenFoldSet
<1> HIDE DEF it, N
<1>8. g[0] = <<>>
  <2>1. 1 .. 0 = {} /\ 0 \in 0 .. N /\ {} \in SUBSET (DOMAIN models)
    BY <1>1
  <2>2. it[{}] = <<>>
    BY <1>6, <2>1
  <2> QED BY <2>1, <2>2
<1>9. ASSUME NEW n \in 0 .. N, n < N
      PROVE  g[n + 1] = Grouped(g[n], models[n + 1])
  <2>1. n \in Nat /\ n + 1 \in 0 .. N /\ 1 .. n + 1 \in SUBSET (DOMAIN models)
    BY <1>1, <1>9
  <2>2. it[1 .. n + 1] = Grouped(it[1 .. n], models[n + 1])
    <3>1. /\ 1 .. n + 1 # {} /\ Max(1 .. n + 1) = n + 1
          /\ (1 .. n + 1) \ {n + 1} = 1 .. n
      BY <2>1, FoldPrefix
    <3>2. it[1 .. n + 1] = Grouped(it[(1 .. n + 1) \ {Max(1 .. n + 1)}], models[Max(1 .. n + 1)])
      BY <1>6, <2>1, <3>1
    <3> QED BY <3>1, <3>2
  <2> QED BY <2>1, <2>2
<1>10. g[N] = GroupedBracketRoutes(models)
  BY <1>1, <1>7
<1> HIDE DEF g
<1> QED BY <1>8, <1>9, <1>10 DEF N, Groups

\* Where the first n models have a variant of a base.
VariantsAt(models, n, base) == {i \in 1 .. n : models[i][1] = base /\ models[i][2] # NoEffort}

\* The routes of the first n models: one for each base, with the efforts of its variants, the
\* first one first; with the ID of the model itself if there are none.
DescribesRoute(route, models, at, base) ==
    /\ route.backend = base
    /\ ToSet(route.variants) = {models[i][2] : i \in at}
    /\ \A i \in at : (\A j \in at : i <= j) => Head(route.variants) = models[i][2]
    /\ route.effective = IF at = {} THEN {<<base, NoEffort>>} ELSE {}
Describes(grouped, models, n) ==
    /\ DOMAIN grouped = {models[i][1] : i \in 1 .. n}
    /\ \A base \in DOMAIN grouped : DescribesRoute(grouped[base], models, VariantsAt(models, n, base), base)

LEMMA NonemptyToSet ==
    ASSUME NEW E, NEW s \in Seq(E)
    PROVE  s = <<>> <=> ToSet(s) = {}
<1>1. CASE s = <<>>
  BY <1>1 DEF ToSet
<1>2. CASE s # <<>>
  <2>1. 1 \in DOMAIN s
    BY <1>2
  <2> QED BY <1>2, <2>1 DEF ToSet
<1> QED BY <1>1, <1>2

LEMMA DescribesNext ==
    ASSUME NEW B, NEW E, NoEffort \notin E, NEW models \in Seq(IDs(B, E)),
           NEW n \in 0 .. Len(models), n < Len(models),
           NEW grouped \in RoutesFor(B, E), Describes(grouped, models, n)
    PROVE  Describes(Grouped(grouped, models[n + 1]), models, n + 1)
<1> DEFINE D == DOMAIN grouped
           model == models[n + 1]
           base == model[1]
           effort == model[2]
           old == IF base \in D THEN grouped[base].variants ELSE <<>>
           route == IF effort # NoEffort
                    THEN [backend |-> base, effective |-> {}, variants |-> WithVariant(old, effort)]
                    ELSE IF old # <<>> THEN grouped[base]
                    ELSE [backend |-> base, effective |-> {model}, variants |-> <<>>]
           new == Grouped(grouped, model)
<1>1. grouped \in [D -> RouteOf(B, E)]
  BY DEF RoutesFor
<1>2. model \in IDs(B, E) /\ n \in Nat
  OBVIOUS
<1>3. base \in B /\ effort \in E \cup {NoEffort} /\ model = <<base, effort>>
  BY <1>2 DEF IDs
<1>4. new = [b \in D \cup {base} |-> IF b = base THEN route ELSE grouped[b]]
  BY DEF Grouped
<1>5. old \in Seq(E)
  BY <1>1 DEF RouteOf
<1>6. ToSet(old) = {models[i][2] : i \in VariantsAt(models, n, base)}
  <2>1. CASE base \in D
    BY <2>1 DEF Describes, DescribesRoute
  <2>2. CASE base \notin D
    <3>1. VariantsAt(models, n, base) = {}
      BY <2>2 DEF Describes, VariantsAt
    <3> QED BY <2>2, <3>1 DEF ToSet
  <2> QED BY <2>1, <2>2
<1>7. old = <<>> <=> VariantsAt(models, n, base) = {}
  BY <1>5, <1>6, NonemptyToSet
<1>8. \A b : VariantsAt(models, n + 1, b) =
                IF b = base /\ effort # NoEffort THEN VariantsAt(models, n, b) \cup {n + 1}
                ELSE VariantsAt(models, n, b)
  BY <1>2 DEF VariantsAt
<1>9. ASSUME NEW b \in D, b # base PROVE DescribesRoute(new[b], models, VariantsAt(models, n + 1, b), b)
  <2>1. new[b] = grouped[b] /\ VariantsAt(models, n + 1, b) = VariantsAt(models, n, b)
    BY <1>4, <1>8, <1>9
  <2> HIDE DEF base, new
  <2> QED BY <2>1 DEF Describes
<1>10. DescribesRoute(new[base], models, VariantsAt(models, n + 1, base), base)
  <2>1. new[base] = route
    BY <1>4
  <2>2. CASE effort # NoEffort
    <3> DEFINE at == VariantsAt(models, n, base)
               variants == WithVariant(old, effort)
    <3>1. VariantsAt(models, n + 1, base) = at \cup {n + 1}
      BY <1>8, <2>2
    <3>2. /\ ToSet(variants) = ToSet(old) \cup {effort}
          /\ Head(variants) = IF old = <<>> THEN effort ELSE Head(old)
      <4>1. effort \in E
        BY <1>3, <2>2
      <4> HIDE DEF effort, old
      <4> QED BY <1>5, <4>1, WithVariantOf
    <3>3. ToSet(variants) = {models[i][2] : i \in at \cup {n + 1}}
      BY <1>6, <3>2
    <3>4. ASSUME NEW i \in at \cup {n + 1}, \A j \in at \cup {n + 1} : i <= j
          PROVE  Head(variants) = models[i][2]
      <4>1. \A j \in at : j <= n /\ j \in Nat
        BY <1>2 DEF VariantsAt
      <4>2. CASE old = <<>>
        BY <1>7, <3>2, <4>2
      <4>3. CASE old # <<>>
        <5>1. PICK j \in at : TRUE
          BY <1>7, <4>3
        <5>2. i \in at
          BY <1>2, <3>4, <4>1, <5>1
        <5>3. base \in D /\ old = grouped[base].variants
          BY <4>3
        <5>4. DescribesRoute(grouped[base], models, at, base)
          BY <5>3 DEF Describes
        <5>5. Head(old) = models[i][2]
          <6> HIDE DEF at, base, old
          <6> QED BY <3>4, <5>2, <5>3, <5>4 DEF DescribesRoute
        <5> QED BY <3>2, <4>3, <5>5
      <4> QED BY <4>2, <4>3
    <3> HIDE DEF variants, at, old, base, effort
    <3>5. route = [backend |-> base, effective |-> {}, variants |-> variants]
      BY <2>2 DEF variants
    <3> HIDE DEF route
    <3>6. route.backend = base /\ route.effective = {} /\ route.variants = variants
      BY <3>5
    <3> QED BY <2>1, <3>1, <3>3, <3>4, <3>6 DEF DescribesRoute
  <2>3. CASE effort = NoEffort /\ old # <<>>
    <3>1. base \in D /\ route = grouped[base]
      BY <2>3
    <3>2. VariantsAt(models, n + 1, base) = VariantsAt(models, n, base)
      BY <1>8, <2>3
    <3> HIDE DEF base, route, new
    <3> QED BY <2>1, <3>1, <3>2 DEF Describes
  <2>4. CASE effort = NoEffort /\ old = <<>>
    <3>1. VariantsAt(models, n + 1, base) = {}
      BY <1>7, <1>8, <2>4
    <3>2. route = [backend |-> base, effective |-> {<<base, NoEffort>>}, variants |-> <<>>]
      BY <1>3, <2>4
    <3>3. ToSet(<<>>) = {}
      BY DEF ToSet
    <3> QED BY <2>1, <3>1, <3>2, <3>3 DEF DescribesRoute
  <2> QED BY <1>3, <2>2, <2>3, <2>4
<1>11. DOMAIN new = {models[i][1] : i \in 1 .. n + 1}
  <2>1. DOMAIN new = D \cup {base}
    BY <1>4
  <2>2. D = {models[i][1] : i \in 1 .. n}
    BY DEF Describes
  <2>3. 1 .. n + 1 = (1 .. n) \cup {n + 1}
    BY <1>2
  <2> QED BY <2>1, <2>2, <2>3
<1> HIDE DEF new, base
<1> QED BY <1>4, <1>9, <1>10, <1>11 DEF Describes, new, base

\* What groupedBracketRoutes makes of a catalog of any length (server.go:254-306): a route for
\* each base of a model in it and for no other; the efforts of a route are those of the
\* base's variants, the first of the catalog first; a base without variants stands for
\* itself.
THEOREM RoutesOfCatalog ==
    ASSUME NEW B, NEW E, NoEffort \notin E, NEW models \in Seq(IDs(B, E))
    PROVE  /\ GroupedBracketRoutes(models) \in RoutesFor(B, E)
           /\ Describes(GroupedBracketRoutes(models), models, Len(models))
<1>1. PICK g : Groups(g, models)
  BY GroupsExist
<1> DEFINE N == Len(models)
           T == {n \in 0 .. N : g[n] \in RoutesFor(B, E) /\ Describes(g[n], models, n)}
<1>2. N \in Nat
  OBVIOUS
<1>3. 0 \in T
  <2>1. g[0] = <<>> /\ DOMAIN <<>> = {} /\ 1 .. 0 = {} /\ 0 \in 0 .. N
    BY <1>1 DEF Groups
  <2>2. <<>> \in [{} -> RouteOf(B, E)] /\ {} \in SUBSET B
    OBVIOUS
  <2>3. g[0] \in RoutesFor(B, E)
    BY <2>1, <2>2 DEF RoutesFor
  <2>4. Describes(g[0], models, 0)
    BY <2>1 DEF Describes
  <2> QED BY <2>1, <2>3, <2>4
<1>4. ASSUME NEW n \in 0 .. N, n \in T, n < N PROVE n + 1 \in T
  <2>1. g[n + 1] = Grouped(g[n], models[n + 1]) /\ n + 1 \in 0 .. N
    BY <1>1, <1>4 DEF Groups
  <2>2. models[n + 1] \in IDs(B, E)
    BY <1>4
  <2>3. g[n + 1] \in RoutesFor(B, E)
    BY <1>4, <2>1, <2>2, GroupedType
  <2>4. Describes(g[n + 1], models, n + 1)
    BY <1>4, <2>1, DescribesNext
  <2> QED BY <2>1, <2>3, <2>4
<1>5. 0 .. N \subseteq T
  <2> HIDE DEF T
  <2> QED BY <1>2, <1>3, <1>4, UpToInduction
<1>6. g[N] \in RoutesFor(B, E) /\ Describes(g[N], models, N)
  BY <1>2, <1>5
<1> QED BY <1>1, <1>6 DEF Groups

-----------------------------------------------------------------------------
(* The catalogs, the routes and the requests of the clients.               *)

Efforts == Effort \cup {NoEffort}
\* What a chat request asked for, or <<>> for GET /models.
For == {<<>>} \cup (SessionID \X (Engine \X Base) \X Efforts)
Request ==
    [pc : {"idle"}]
        \cup [pc : {"asking"}, for : For, left : Seq(Engine)]
        \cup [pc : {"answered"}, for : For, left : Seq(Engine) \ {<<>>}, answer : Seq(ModelID)]
        \cup [pc : {"routed"}, session : SessionID, id : Engine \X Base,
              key : {SessionKey(s, id, x) : s \in SessionID, id \in Engine \X Base, x \in Efforts},
              model : ModelID]
        \cup [pc : {"rejected"}, id : Engine \X Base]

CatalogTypeOK ==
    /\ catalog \in [Engine -> Seq(ModelID)]
    /\ changes \in Nat
    /\ \E D \in SUBSET (Engine \X Base) : routes \in [D -> RouteOf(Base, Effort)]
    /\ client \in [Client -> Request]

\* The agent's model of a route has the name under which the route is stored.
BackendInv == \A id \in DOMAIN routes : routes[id].backend = id[2]

\* The key of a routed request is made of its session and of the model it is sent to.
KeyAgrees(r) ==
    /\ r.model[1] = r.id[2]
    /\ r.key = SessionKey(r.session, r.id, r.model[2])
KeyInv == \A c \in Client : client[c].pc = "routed" => KeyAgrees(client[c])

CatalogInv == CatalogTypeOK /\ BackendInv /\ KeyInv

LEMMA CatalogStart == Init => CatalogInv
<1> SUFFICES ASSUME Init PROVE CatalogInv
  OBVIOUS
<1> USE DEF Init
<1>1. catalog \in [Engine -> Seq(ModelID)]
  <2>1. \A e \in Engine : catalog[e] \in Published[e] /\ Published[e] \in SUBSET Seq(ModelID)
    BY CatalogAssumption DEF CatalogAssumption
  <2>2. \A e \in Engine : catalog[e] \in Seq(ModelID)
    BY <2>1
  <2> HIDE DEF ModelID
  <2> QED BY <2>2
<1>2. client \in [Client -> Request] /\ \A c \in Client : client[c].pc = "idle"
  BY DEF NoRequest, Request
<1>3. routes \in [{} -> RouteOf(Base, Effort)] /\ {} \in SUBSET (Engine \X Base)
  OBVIOUS
<1>4. DOMAIN routes = {} /\ changes \in Nat
  OBVIOUS
<1> QED BY <1>1, <1>2, <1>3, <1>4 DEF CatalogInv, CatalogTypeOK, BackendInv, KeyInv

\* What a chat request ends with.
LEMMA RoutedRequest ==
    ASSUME CatalogTypeOK, BackendInv,
           NEW session \in SessionID, NEW id \in Engine \X Base, NEW requested \in Efforts
    PROVE  LET r == Routed(session, id, requested)
           IN  r \in Request /\ r.pc \in {"routed", "rejected"} /\ (r.pc = "routed" => KeyAgrees(r))
<1> DEFINE route == ResolveModel(id)
           selected == SelectedEffort(route, requested)
<1>1. route.backend = id[2] /\ route.variants \in Seq(Effort)
  BY DEF ResolveModel, Unadvertised, BackendInv, CatalogTypeOK, RouteOf
<1>2. selected \in Efforts
  <2>1. CASE requested = NoEffort /\ route.variants # <<>>
    <3>1. Head(route.variants) \in Effort
      BY <1>1, <2>1
    <3> QED BY <2>1, <3>1 DEF SelectedEffort, Efforts
  <2>2. CASE ~(requested = NoEffort /\ route.variants # <<>>)
    BY <2>2 DEF SelectedEffort
  <2> QED BY <2>1, <2>2
<1> HIDE DEF route, selected
<1> DEFINE key == SessionKey(session, id, selected)
<1>3. Routed(session, id, requested) =
        IF Accepted(route, requested)
        THEN [pc |-> "routed", session |-> session, id |-> id, key |-> key, model |-> <<id[2], selected>>]
        ELSE [pc |-> "rejected", id |-> id]
  BY <1>1 DEF Routed, StateKey, route, selected
<1>4. /\ key \in {SessionKey(s, i, x) : s \in SessionID, i \in Engine \X Base, x \in Efforts}
      /\ <<id[2], selected>> \in ModelID
  BY <1>2 DEF ModelID, Efforts
<1> HIDE DEF key
<1>5. CASE Accepted(route, requested)
  BY <1>3, <1>4, <1>5 DEF Request, KeyAgrees, key
<1>6. CASE ~Accepted(route, requested)
  BY <1>3, <1>6 DEF Request
<1> QED BY <1>5, <1>6

\* One request is replaced, the routes stay.
LEMMA RequestBecomes ==
    ASSUME CatalogInv, NEW c \in Client, NEW r \in Request, Becomes(c, r), UNCHANGED routes,
           r.pc = "routed" => KeyAgrees(r),
           catalog' \in [Engine -> Seq(ModelID)], changes' \in Nat
    PROVE  CatalogInv'
<1>1. client' \in [Client -> Request] /\ client'[c] = r /\ \A d \in Client \ {c} : client'[d] = client[d]
  BY DEF CatalogInv, CatalogTypeOK, Becomes
<1>2. KeyInv'
  BY <1>1 DEF CatalogInv, KeyInv
<1> QED BY <1>1, <1>2 DEF CatalogInv, CatalogTypeOK, BackendInv

\* The request of a client that has asked, and what it has left to ask.
LEMMA AskingRequest ==
    ASSUME CatalogTypeOK, NEW c \in Client, client[c].pc \in {"asking", "answered"}
    PROVE  /\ client[c].for \in For /\ client[c].left \in Seq(Engine)
           /\ client[c].pc = "answered" => client[c].left # <<>> /\ client[c].answer \in Seq(ModelID)
<1>1. client[c] \in Request
  BY DEF CatalogTypeOK
<1> QED BY <1>1 DEF Request

\* A request that asks is one.
LEMMA AskingIsRequest ==
    ASSUME NEW for \in For, NEW left \in Seq(Engine)
    PROVE  Asking(for, left) \in Request /\ Asking(for, left).pc = "asking"
BY DEF Asking, Request

\* Install: the routes of one backend are those of the answer, the others stay.
LEMMA InstallRoutes ==
    ASSUME CatalogInv, NEW c \in Client, Install(c)
    PROVE  LET e == Head(client[c].left)
               fresh == GroupedBracketRoutes(client[c].answer)
               new == {e} \X DOMAIN fresh
           IN  /\ fresh \in RoutesFor(Base, Effort)
               /\ \A b \in DOMAIN fresh : fresh[b].backend = b
               /\ routes' = [id \in Kept(e) \cup new |-> IF id \in new THEN fresh[id[2]] ELSE routes[id]]
<1> DEFINE fresh == GroupedBracketRoutes(client[c].answer)
<1>1. client[c].answer \in Seq(IDs(Base, Effort)) /\ NoEffort \notin Effort
  BY CatalogAssumption, AskingRequest DEF Install, CatalogInv, CatalogAssumption, IDs, ModelID
<1>2. fresh \in RoutesFor(Base, Effort) /\ Describes(fresh, client[c].answer, Len(client[c].answer))
  BY <1>1, RoutesOfCatalog
<1>3. \A b \in DOMAIN fresh : fresh[b].backend = b
  BY <1>2 DEF Describes, DescribesRoute
<1> HIDE DEF fresh
<1> QED BY <1>2, <1>3 DEF Install, fresh

LEMMA CatalogStep == CatalogInv /\ [Next]_vars => CatalogInv'
<1> SUFFICES ASSUME CatalogInv, [Next]_vars PROVE CatalogInv'
  OBVIOUS
<1>0. CatalogTypeOK /\ BackendInv
  BY DEF CatalogInv
<1>1. ASSUME NEW c \in Client, Models(c) PROVE CatalogInv'
  <2>1. <<>> \in For /\ Engines \in Seq(Engine)
    BY CatalogAssumption DEF For, CatalogAssumption
  <2> QED BY <1>0, <1>1, <2>1, AskingIsRequest, RequestBecomes DEF Models, CatalogTypeOK
<1>2. ASSUME NEW c \in Client, Answer(c) PROVE CatalogInv'
  <2> DEFINE r == [pc |-> "answered", for |-> client[c].for, left |-> client[c].left,
                   answer |-> catalog[Head(client[c].left)]]
  <2>1. client[c].for \in For /\ client[c].left \in Seq(Engine) /\ client[c].left # <<>>
    BY <1>0, <1>2, AskingRequest DEF Answer
  <2>2. Head(client[c].left) \in Engine
    BY <2>1
  <2>3. catalog[Head(client[c].left)] \in Seq(ModelID)
    BY <1>0, <2>2 DEF CatalogTypeOK
  <2>4. r \in Request /\ r.pc = "answered"
    BY <2>1, <2>3 DEF Request
  <2>5. Becomes(c, r) /\ UNCHANGED <<catalog, changes, routes>>
    BY <1>2 DEF Answer
  <2> HIDE DEF r
  <2> QED BY <1>0, <2>4, <2>5, RequestBecomes DEF CatalogTypeOK
<1>3. ASSUME NEW c \in Client, AnswerFails(c) PROVE CatalogInv'
  <2> DEFINE r == [client[c] EXCEPT !.left = Tail(@)]
  <2>1. client[c].for \in For /\ client[c].left \in Seq(Engine) /\ client[c].left # <<>>
    BY <1>0, <1>3, AskingRequest DEF AnswerFails
  <2>2. client[c] \in [pc : {"asking"}, for : For, left : Seq(Engine)]
    BY <1>0, <1>3 DEF AnswerFails, CatalogTypeOK, Request
  <2>3. Tail(client[c].left) \in Seq(Engine)
    BY <2>1
  <2>4. r \in Request /\ r.pc = "asking"
    BY <2>2, <2>3 DEF Request
  <2>5. Becomes(c, r) /\ UNCHANGED <<catalog, changes, routes>>
    BY <1>3 DEF AnswerFails, Failed
  <2> HIDE DEF r
  <2> QED BY <1>0, <2>4, <2>5, RequestBecomes DEF CatalogTypeOK
<1>4. ASSUME NEW c \in Client, Install(c) PROVE CatalogInv'
  <2> DEFINE e == Head(client[c].left)
             fresh == GroupedBracketRoutes(client[c].answer)
             new == {e} \X DOMAIN fresh
             r == Asking(client[c].for, Tail(client[c].left))
  <2>1. /\ fresh \in RoutesFor(Base, Effort) /\ \A b \in DOMAIN fresh : fresh[b].backend = b
        /\ routes' = [id \in Kept(e) \cup new |-> IF id \in new THEN fresh[id[2]] ELSE routes[id]]
    BY <1>4, InstallRoutes
  <2>2. client[c].pc = "answered" /\ client[c].for \in For /\ client[c].left \in Seq(Engine)
    BY <1>0, <1>4, AskingRequest DEF Install
  <2>3. e \in Engine /\ Tail(client[c].left) \in Seq(Engine)
    <3>1. client[c].left # <<>>
      BY <1>0, <1>4, AskingRequest DEF Install
    <3> QED BY <2>2, <3>1
  <2>4. r \in Request /\ r.pc = "asking"
    BY <2>2, <2>3, AskingIsRequest
  <2>5. Becomes(c, r) /\ UNCHANGED <<catalog, changes>>
    BY <1>4 DEF Install
  <2>6. PICK D \in SUBSET Base : fresh \in [D -> RouteOf(Base, Effort)]
    BY <2>1 DEF RoutesFor
  <2>7. PICK E \in SUBSET (Engine \X Base) : routes \in [E -> RouteOf(Base, Effort)]
    BY <1>0 DEF CatalogTypeOK
  <2> HIDE DEF e, fresh, r
  <2>8. \E F \in SUBSET (Engine \X Base) : routes' \in [F -> RouteOf(Base, Effort)]
    <3> DEFINE F == Kept(e) \cup new
    <3>1. Kept(e) \subseteq E /\ DOMAIN fresh = D
      BY <2>6, <2>7 DEF Kept
    <3>2. F \in SUBSET (Engine \X Base)
      BY <2>3, <2>6, <2>7, <3>1
    <3>3. ASSUME NEW id \in F
          PROVE  (IF id \in new THEN fresh[id[2]] ELSE routes[id]) \in RouteOf(Base, Effort)
      <4>1. CASE id \in new
        BY <2>6, <3>1, <4>1
      <4>2. CASE id \notin new
        BY <2>7, <3>1, <4>2
      <4> QED BY <4>1, <4>2
    <3> HIDE DEF new
    <3>4. routes' \in [F -> RouteOf(Base, Effort)]
      BY <2>1, <3>3
    <3> HIDE DEF F
    <3> QED BY <3>2, <3>4
  <2>9. BackendInv'
    <3> SUFFICES ASSUME NEW id \in DOMAIN routes' PROVE routes'[id].backend = id[2]
      BY DEF BackendInv
    <3>1. CASE id \in new
      BY <2>1, <3>1
    <3>2. CASE id \notin new
      <4>1. id \in Kept(e) /\ routes'[id] = routes[id]
        BY <2>1, <3>2
      <4> QED BY <1>0, <4>1 DEF Kept, BackendInv
    <3> QED BY <3>1, <3>2
  <2>10. /\ client' \in [Client -> Request] /\ client'[c] = r
         /\ \A d \in Client \ {c} : client'[d] = client[d]
    BY <1>0, <2>4, <2>5 DEF CatalogTypeOK, Becomes
  <2>11. KeyInv'
    BY <2>4, <2>10 DEF CatalogInv, KeyInv
  <2> QED BY <1>0, <2>5, <2>8, <2>9, <2>10, <2>11 DEF CatalogInv, CatalogTypeOK
<1>5. ASSUME NEW c \in Client, Asked(c) PROVE CatalogInv'
  <2> DEFINE r == IF client[c].for = <<>> THEN NoRequest
                  ELSE Routed(client[c].for[1], client[c].for[2], client[c].for[3])
  <2>1. client[c].for \in For
    BY <1>0, <1>5, AskingRequest DEF Asked
  <2>2. r \in Request /\ (r.pc = "routed" => KeyAgrees(r))
    <3>1. CASE client[c].for = <<>>
      BY <3>1 DEF NoRequest, Request
    <3>2. CASE client[c].for # <<>>
      <4>1. /\ client[c].for[1] \in SessionID /\ client[c].for[2] \in Engine \X Base
            /\ client[c].for[3] \in Efforts
        BY <2>1, <3>2 DEF For
      <4> QED BY <1>0, <3>2, <4>1, RoutedRequest
    <3> QED BY <3>1, <3>2
  <2>3. Becomes(c, r) /\ UNCHANGED <<catalog, changes, routes>>
    BY <1>5 DEF Asked
  <2> HIDE DEF r
  <2> QED BY <1>0, <2>2, <2>3, RequestBecomes DEF CatalogTypeOK
<1>6. ASSUME NEW c \in Client, Leave(c) PROVE CatalogInv'
  <2>1. NoRequest \in Request /\ NoRequest.pc = "idle"
    BY DEF NoRequest, Request
  <2> HIDE DEF NoRequest
  <2> QED BY <1>0, <1>6, <2>1, RequestBecomes DEF Leave, CatalogTypeOK
<1>7. ASSUME NEW c \in Client, NEW session \in SessionID, NEW id \in Engine \X Base,
             NEW requested \in Efforts, Chat(c, session, id, requested)
      PROVE  CatalogInv'
  <2> DEFINE r == IF IsUnadvertised(ResolveModel(id)) THEN Asking(<<session, id, requested>>, Engines)
                  ELSE Routed(session, id, requested)
  <2>1. r \in Request /\ (r.pc = "routed" => KeyAgrees(r))
    <3>1. CASE IsUnadvertised(ResolveModel(id))
      <4>1. <<session, id, requested>> \in For /\ Engines \in Seq(Engine)
        BY CatalogAssumption DEF For, CatalogAssumption
      <4> QED BY <3>1, <4>1, AskingIsRequest
    <3>2. CASE ~IsUnadvertised(ResolveModel(id))
      BY <1>0, <3>2, RoutedRequest
    <3> QED BY <3>1, <3>2
  <2>2. Becomes(c, r) /\ UNCHANGED <<catalog, changes, routes>>
    BY <1>7 DEF Chat
  <2> HIDE DEF r
  <2> QED BY <1>0, <2>1, <2>2, RequestBecomes DEF CatalogTypeOK
<1>8. ASSUME NEW e \in Engine, NEW models \in Published[e], Publish(e, models) PROVE CatalogInv'
  <2>1. models \in Seq(ModelID)
    BY CatalogAssumption DEF CatalogAssumption
  <2>2. catalog' \in [Engine -> Seq(ModelID)] /\ changes' \in Nat /\ UNCHANGED <<routes, client>>
    BY <1>0, <1>8, <2>1 DEF Publish, CatalogTypeOK
  <2> QED BY <2>2 DEF CatalogInv, CatalogTypeOK, BackendInv, KeyInv
<1>9. CASE UNCHANGED vars
  BY <1>9 DEF vars, CatalogInv, CatalogTypeOK, BackendInv, KeyInv
<1> QED
  BY <1>1, <1>2, <1>3, <1>4, <1>5, <1>6, <1>7, <1>8, <1>9 DEF Next, Efforts

\* The start of a behaviour that reads an input has no routes either.
LEMMA FrontendStart == FrontendInit => CatalogInv
<1>1. CASE Init
  BY <1>1, CatalogStart
<1>2. CASE /\ catalog = [e \in Engine |-> <<>>]
           /\ changes = MaxChanges
           /\ routes = <<>>
           /\ client = [c \in Client |-> NoRequest]
  <2>1. catalog \in [Engine -> Seq(ModelID)] /\ changes \in Nat
    BY <1>2, CatalogAssumption DEF CatalogAssumption
  <2>2. client \in [Client -> Request] /\ \A c \in Client : client[c].pc = "idle"
    BY <1>2 DEF NoRequest, Request
  <2>3. routes \in [{} -> RouteOf(Base, Effort)] /\ {} \in SUBSET (Engine \X Base) /\ DOMAIN routes = {}
    BY <1>2
  <2> QED BY <2>1, <2>2, <2>3 DEF CatalogInv, CatalogTypeOK, BackendInv, KeyInv
<1> QED BY <1>1, <1>2 DEF FrontendInit

LEMMA FrontendStep == CatalogInv /\ [FrontendNext]_<<vars, input>> => CatalogInv'
<1>1. CatalogInv /\ Next => CatalogInv'
  BY CatalogStep
<1>2. CatalogInv /\ UNCHANGED vars => CatalogInv'
  BY CatalogStep
<1> QED BY <1>1, <1>2 DEF FrontendNext

\* The inductive invariant of the catalogs: what a route is stored under and what a routed
\* request was promised agree (server.go:221-240, 354-375, 428-450).
THEOREM CatalogInductive == FrontendSpec => []CatalogInv
BY FrontendStart, FrontendStep, PTL DEF FrontendSpec

Symbols == Symbol \cup {":", "/"}
\* What a key has behind the model.
Suffix(effort) == IF effort = NoEffort THEN <<>> ELSE <<":">> \o effort

ModelWith(model, effort) == model \o Suffix(effort)

\* The parts of a key are texts.
LEMMA KeyParts ==
    ASSUME NEW session \in SessionID, NEW id \in Engine \X Base, NEW effort \in Efforts
    PROVE  LET model == ModelName(id)
               suffix == Suffix(effort)
           IN  /\ session \in Seq(Symbols) /\ model \in Seq(Symbols) /\ suffix \in Seq(Symbols)
               /\ id[1] \in Seq(Symbols) /\ id[2] \in Seq(Symbols) /\ "/" \notin ToSet(id[1])
               /\ effort # NoEffort => effort \in Seq(Symbols)
               /\ model = id[1] \o (<<"/">> \o id[2])
               /\ SessionKey(session, id, effort) = session \o (<<":">> \o (model \o suffix))
<1> DEFINE S == Symbols
           slash == <<"/">>
           colon == <<":">>
           model == ModelName(id)
           suffix == Suffix(effort)
<1>1. /\ session \in Seq(Symbol) /\ id[1] \in Seq(Symbol) /\ id[2] \in Seq(Symbol)
      /\ effort # NoEffort => effort \in Seq(Symbol)
      /\ "/" \notin ToSet(id[1])
  BY CatalogAssumption DEF CatalogAssumption, Efforts
<1>2. Seq(Symbol) \subseteq Seq(S)
  BY DEF Symbols
<1>3. /\ session \in Seq(S) /\ id[1] \in Seq(S) /\ id[2] \in Seq(S)
      /\ effort # NoEffort => effort \in Seq(S)
  BY <1>1, <1>2
<1>4. slash \in Seq(S) /\ colon \in Seq(S) /\ <<>> \in Seq(S)
  BY DEF Symbols
<1>5. model = (id[1] \o slash) \o id[2] /\ suffix = IF effort = NoEffort THEN <<>> ELSE colon \o effort
  BY DEF ModelName, Suffix
<1>6. SessionKey(session, id, effort) = ((session \o colon) \o model) \o suffix
  BY DEF SessionKey, Suffix
<1> HIDE DEF S, slash, colon, model, suffix
<1>7. model = id[1] \o (slash \o id[2]) /\ model \in Seq(S)
  <2>1. id[1] \in Seq(S) /\ slash \in Seq(S) /\ id[2] \in Seq(S)
    BY <1>3, <1>4
  <2>2. (id[1] \o slash) \o id[2] = id[1] \o (slash \o id[2])
    BY ONLY <2>1, ConcatAssociative
  <2>3. slash \o id[2] \in Seq(S)
    BY ONLY <2>1, ConcatProperties
  <2>4. id[1] \o (slash \o id[2]) \in Seq(S)
    BY ONLY <2>1, <2>3, ConcatProperties
  <2> QED BY <1>5, <2>2, <2>4
<1>8. suffix \in Seq(S)
  BY <1>3, <1>4, <1>5, ConcatProperties
<1>9. ((session \o colon) \o model) \o suffix = session \o (colon \o (model \o suffix))
  <2> DEFINE head == session \o colon
             tail == model \o suffix
  <2>1. head \in Seq(S) /\ tail \in Seq(S)
    BY <1>3, <1>4, <1>7, <1>8, ConcatProperties
  <2>2. session \in Seq(S) /\ colon \in Seq(S) /\ model \in Seq(S) /\ suffix \in Seq(S)
    BY <1>3, <1>4, <1>7, <1>8
  <2>3. (session \o colon) \o tail = session \o (colon \o tail)
    <3> HIDE DEF tail
    <3> QED BY ONLY <2>1, <2>2, ConcatAssociative
  <2>4. (head \o model) \o suffix = head \o (model \o suffix)
    <3>1. head \in Seq(S) /\ model \in Seq(S) /\ suffix \in Seq(S)
      BY <2>1, <2>2
    <3> HIDE DEF head
    <3> QED BY ONLY <3>1, ConcatAssociative
  <2> QED BY <2>3, <2>4
<1> QED BY <1>1, <1>3, <1>6, <1>7, <1>8, <1>9 DEF S, slash, colon, model, suffix

\* The effort behind a model can be read.
LEMMA SuffixRead ==
    ASSUME NEW x \in Efforts, NEW y \in Efforts, Suffix(x) = Suffix(y)
    PROVE  x = y
<1>1. \A e \in Effort : e \in Seq(Symbols)
  <2>1. Seq(Symbol) \subseteq Seq(Symbols)
    BY DEF Symbols
  <2> QED BY <2>1, CatalogAssumption DEF CatalogAssumption
<1>2. <<":">> \in Seq(Symbols)
  BY DEF Symbols
<1>3. \A e \in Effort : <<":">> \o e # <<>>
  BY <1>1, <1>2
<1>4. CASE x = NoEffort \/ y = NoEffort
  BY <1>3, <1>4 DEF Suffix, Efforts
<1>5. CASE x # NoEffort /\ y # NoEffort
  <2>1. x \in Seq(Symbols) /\ y \in Seq(Symbols) /\ <<":">> \o x = <<":">> \o y
    BY <1>1, <1>5 DEF Suffix, Efforts
  <2> QED BY <1>2, <2>1, SameParts
<1> QED BY <1>4, <1>5

\* Without colons in front of the effort, it is the rest behind the second one.
LEMMA ModelRead ==
    ASSUME NEW m \in Seq(Symbols), NEW n \in Seq(Symbols), ":" \notin ToSet(m), ":" \notin ToSet(n),
           NEW x \in Efforts, NEW y \in Efforts, ModelWith(m, x) = ModelWith(n, y)
    PROVE  m = n /\ x = y
<1>1. \A e \in Effort : e \in Seq(Symbols)
  <2>1. Seq(Symbol) \subseteq Seq(Symbols)
    BY DEF Symbols
  <2> QED BY <2>1, CatalogAssumption DEF CatalogAssumption
<1>2. ":" \in Symbols
  BY DEF Symbols
<1>3. m \o <<>> = m /\ n \o <<>> = n
  BY ConcatEmptySeq
<1>4. CASE x = NoEffort /\ y = NoEffort
  BY <1>3, <1>4 DEF ModelWith, Suffix
<1>5. CASE x = NoEffort /\ y # NoEffort
  <2>1. m = n \o (<<":">> \o y) /\ y \in Seq(Symbols)
    BY <1>1, <1>3, <1>5 DEF ModelWith, Suffix, Efforts
  <2> QED BY <1>2, <2>1, HasMiddle
<1>6. CASE x # NoEffort /\ y = NoEffort
  <2>1. n = m \o (<<":">> \o x) /\ x \in Seq(Symbols)
    BY <1>1, <1>3, <1>6 DEF ModelWith, Suffix, Efforts
  <2> QED BY <1>2, <2>1, HasMiddle
<1>7. CASE x # NoEffort /\ y # NoEffort
  <2>1. m \o (<<":">> \o x) = n \o (<<":">> \o y) /\ x \in Seq(Symbols) /\ y \in Seq(Symbols)
    BY <1>1, <1>7 DEF ModelWith, Suffix, Efforts
  <2> QED BY <1>2, <2>1, SameCut
<1> QED BY <1>4, <1>5, <1>6, <1>7

\* Requests with one key are of one session and sent to the same model of the same backend:
\* those of the same session for the same name, and all those that have no colon in the names
\* of their sessions and models, whatever was advertised when they were routed (server.go:361,
\* 447-450).
THEOREM KeysFixModels == FrontendSpec => []KeyFixesModel
<1>1. CatalogInv => KeyFixesModel
  <2> SUFFICES ASSUME CatalogInv, NEW c \in Client, NEW d \in Client,
                      client[c].pc = "routed", client[d].pc = "routed", client[c].key = client[d].key,
                      \/ client[c].session = client[d].session /\ client[c].id = client[d].id
                      \/ ~HasColon(client[c]) /\ ~HasColon(client[d])
               PROVE  /\ client[c].session = client[d].session /\ client[c].id = client[d].id
                      /\ client[c].model = client[d].model
    BY DEF KeyFixesModel
  <2> DEFINE s == client[c].session
             t == client[d].session
             i == client[c].id
             j == client[d].id
             x == client[c].model[2]
             y == client[d].model[2]
             m == ModelName(i)
             n == ModelName(j)
  <2>1. /\ s \in SessionID /\ i \in Engine \X Base /\ x \in Efforts
        /\ client[c].model = <<i[2], x>> /\ client[c].key = SessionKey(s, i, x)
    <3>1. client[c].session \in SessionID /\ client[c].id \in Engine \X Base /\ client[c].model \in ModelID
      <4>1. client[c] \in Request
        BY DEF CatalogInv, CatalogTypeOK
      <4> QED BY <4>1 DEF Request
    <3> QED BY <3>1 DEF CatalogInv, KeyInv, KeyAgrees, ModelID, Efforts
  <2>2. /\ t \in SessionID /\ j \in Engine \X Base /\ y \in Efforts
        /\ client[d].model = <<j[2], y>> /\ client[d].key = SessionKey(t, j, y)
    <3>1. client[d].session \in SessionID /\ client[d].id \in Engine \X Base /\ client[d].model \in ModelID
      <4>1. client[d] \in Request
        BY DEF CatalogInv, CatalogTypeOK
      <4> QED BY <4>1 DEF Request
    <3> QED BY <3>1 DEF CatalogInv, KeyInv, KeyAgrees, ModelID, Efforts
  <2>3. \/ s = t /\ i = j
        \/ ":" \notin ToSet(s \o m) /\ ":" \notin ToSet(t \o n)
    BY DEF HasColon
  <2> HIDE DEF s, t, i, j, x, y, m, n
  <2>4. /\ s \in Seq(Symbols) /\ m \in Seq(Symbols) /\ Suffix(x) \in Seq(Symbols)
        /\ i[1] \in Seq(Symbols) /\ i[2] \in Seq(Symbols) /\ "/" \notin ToSet(i[1])
        /\ m = i[1] \o (<<"/">> \o i[2])
        /\ SessionKey(s, i, x) = s \o (<<":">> \o (m \o Suffix(x)))
    BY <2>1, KeyParts DEF m
  <2>5. /\ t \in Seq(Symbols) /\ n \in Seq(Symbols) /\ Suffix(y) \in Seq(Symbols)
        /\ j[1] \in Seq(Symbols) /\ j[2] \in Seq(Symbols) /\ "/" \notin ToSet(j[1])
        /\ n = j[1] \o (<<"/">> \o j[2])
        /\ SessionKey(t, j, y) = t \o (<<":">> \o (n \o Suffix(y)))
    BY <2>2, KeyParts DEF n
  <2>6. s \o (<<":">> \o (m \o Suffix(x))) = t \o (<<":">> \o (n \o Suffix(y)))
    BY <2>1, <2>2, <2>4, <2>5
  <2>7. /\ m \o Suffix(x) \in Seq(Symbols) /\ n \o Suffix(y) \in Seq(Symbols)
        /\ ":" \in Symbols /\ "/" \in Symbols /\ <<":">> \in Seq(Symbols)
    BY <2>4, <2>5, ConcatProperties DEF Symbols
  <2> DEFINE a == m \o Suffix(x)
             b == n \o Suffix(y)
  <2>8. CASE s = t /\ i = j
    <3>1. m = n
      BY <2>8 DEF m, n
    <3>2. a = b
      <4>1. Len(s) = Len(t)
        BY <2>8
      <4>2. <<":">> \o a \in Seq(Symbols) /\ <<":">> \o b \in Seq(Symbols)
        BY <2>7, ConcatProperties
      <4>3. s \in Seq(Symbols) /\ t \in Seq(Symbols) /\ s \o (<<":">> \o a) = t \o (<<":">> \o b)
        BY <2>4, <2>5, <2>6
      <4>4. <<":">> \o a = <<":">> \o b
        <5> DEFINE v == <<":">> \o a
                   w == <<":">> \o b
        <5> HIDE DEF a, b
        <5>1. s \o v = t \o w /\ v \in Seq(Symbols) /\ w \in Seq(Symbols)
          BY <4>2, <4>3
        <5> HIDE DEF v, w
        <5>2. v = w
          BY ONLY <4>1, <4>3, <5>1, SameParts
        <5> QED BY <5>2 DEF v, w
      <4>5. a \in Seq(Symbols) /\ b \in Seq(Symbols)
        BY <2>7
      <4> HIDE DEF a, b
      <4> QED BY ONLY <2>7, <4>4, <4>5, SameParts
    <3>3. Suffix(x) = Suffix(y)
      <4>1. Len(m) = Len(n)
        BY <3>1
      <4>2. /\ m \in Seq(Symbols) /\ Suffix(x) \in Seq(Symbols)
            /\ n \in Seq(Symbols) /\ Suffix(y) \in Seq(Symbols)
        BY <2>4, <2>5
      <4>3. m \o Suffix(x) = n \o Suffix(y)
        BY <3>2
      <4> QED BY ONLY <4>1, <4>2, <4>3, SameParts
    <3>4. x = y
      BY <2>1, <2>2, <3>3, SuffixRead
    <3> QED BY <2>1, <2>2, <2>8, <3>4 DEF s, t, i, j
  <2>9. CASE ":" \notin ToSet(s \o m) /\ ":" \notin ToSet(t \o n)
    <3>1. ":" \notin ToSet(s) /\ ":" \notin ToSet(m)
      <4>1. s \in Seq(Symbols) /\ m \in Seq(Symbols)
        BY <2>4
      <4> QED BY ONLY <4>1, <2>9, InParts
    <3>2. ":" \notin ToSet(t) /\ ":" \notin ToSet(n)
      <4>1. t \in Seq(Symbols) /\ n \in Seq(Symbols)
        BY <2>5
      <4> QED BY ONLY <4>1, <2>9, InParts
    <3>3. s = t /\ a = b
      <4>1. s \in Seq(Symbols) /\ t \in Seq(Symbols) /\ a \in Seq(Symbols) /\ b \in Seq(Symbols)
            /\ s \o (<<":">> \o a) = t \o (<<":">> \o b)
        BY <2>4, <2>5, <2>6, <2>7
      <4> HIDE DEF a, b
      <4>2. ":" \in Symbols /\ ":" \notin ToSet(s) /\ ":" \notin ToSet(t)
        BY <2>7, <3>1, <3>2
      <4> QED BY ONLY <4>1, <4>2, SameCut
    <3>4. m = n /\ x = y
      <4>1. m \in Seq(Symbols) /\ n \in Seq(Symbols) /\ x \in Efforts /\ y \in Efforts
        BY <2>1, <2>2, <2>4, <2>5
      <4>2. ":" \notin ToSet(m) /\ ":" \notin ToSet(n) /\ ModelWith(m, x) = ModelWith(n, y)
        BY <3>1, <3>2, <3>3 DEF ModelWith
      <4> QED BY ONLY <4>1, <4>2, ModelRead
    <3>5. i[1] = j[1] /\ i[2] = j[2]
      <4> DEFINE p == i[1]
                 q == j[1]
                 v == i[2]
                 w == j[2]
      <4>1. /\ p \in Seq(Symbols) /\ q \in Seq(Symbols) /\ v \in Seq(Symbols) /\ w \in Seq(Symbols)
            /\ p \o (<<"/">> \o v) = q \o (<<"/">> \o w)
        BY <2>4, <2>5, <3>4
      <4>2. "/" \in Symbols /\ "/" \notin ToSet(p) /\ "/" \notin ToSet(q)
        BY <2>4, <2>5, <2>7
      <4> HIDE DEF p, q, v, w
      <4>3. p = q /\ v = w
        BY ONLY <4>1, <4>2, SameCut
      <4> QED BY <4>3 DEF p, q, v, w
    <3>6. i = j
      BY <2>1, <2>2, <3>5
    <3> QED BY <2>1, <2>2, <3>3, <3>4, <3>6 DEF s, t, i, j
  <2> QED BY <2>3, <2>8, <2>9
<1> QED BY <1>1, CatalogInductive, PTL

\* The routes of the backend that was asked become those of its answer, the routes of the
\* other backends stay.
LEMMA InstallRoutesOf ==
    ASSUME CatalogInv, NEW c \in Client, Install(c), NEW e
    PROVE  RoutesOf(e)' = IF e = Head(client[c].left) THEN GroupedBracketRoutes(client[c].answer)
                          ELSE RoutesOf(e)
<1> DEFINE asked == Head(client[c].left)
           fresh == GroupedBracketRoutes(client[c].answer)
           new == {asked} \X DOMAIN fresh
           Bases(r) == {id[2] : id \in {i \in DOMAIN r : i[1] = e}}
<1>1. /\ fresh \in RoutesFor(Base, Effort)
      /\ routes' = [id \in Kept(asked) \cup new |-> IF id \in new THEN fresh[id[2]] ELSE routes[id]]
  BY InstallRoutes
<1>2. fresh = [b \in DOMAIN fresh |-> fresh[b]]
  BY <1>1 DEF RoutesFor
<1>3. RoutesOf(e)' = [b \in Bases(routes') |-> routes'[<<e, b>>]] /\ RoutesOf(e) = [b \in Bases(routes) |-> routes[<<e, b>>]]
  BY DEF RoutesOf
<1>4. PICK E \in SUBSET (Engine \X Base) : DOMAIN routes = E
  BY DEF CatalogInv, CatalogTypeOK
<1> HIDE DEF asked, fresh
<1>5. CASE e = asked
  <2>1. Bases(routes') = DOMAIN fresh
    <3>1. {i \in DOMAIN routes' : i[1] = e} = new
      BY <1>1, <1>4, <1>5 DEF Kept
    <3>2. \A b \in DOMAIN fresh : <<asked, b>> \in new /\ <<asked, b>>[2] = b
      OBVIOUS
    <3>3. \A id \in new : id[2] \in DOMAIN fresh
      OBVIOUS
    <3> HIDE DEF new
    <3> QED BY <3>1, <3>2, <3>3
  <2>2. \A b \in DOMAIN fresh : routes'[<<e, b>>] = fresh[b]
    BY <1>1, <1>5
  <2>3. RoutesOf(e)' = fresh
    BY <1>2, <1>3, <2>1, <2>2
  <2> QED BY <1>5, <2>3 DEF asked, fresh
<1>6. CASE e # asked
  <2>1. {i \in DOMAIN routes' : i[1] = e} = {i \in DOMAIN routes : i[1] = e}
    BY <1>1, <1>4, <1>6 DEF Kept
  <2>2. \A i \in DOMAIN routes : i[1] = e => routes'[i] = routes[i]
    BY <1>1, <1>4, <1>6 DEF Kept
  <2>3. \A b \in Bases(routes) : <<e, b>> \in DOMAIN routes
    BY <1>4
  <2>4. \A b \in Bases(routes) : routes'[<<e, b>>] = routes[<<e, b>>]
    BY <2>2, <2>3
  <2>5. RoutesOf(e)' = RoutesOf(e)
    BY <1>3, <2>1, <2>4
  <2> QED BY <1>6, <2>5 DEF asked
<1> QED BY <1>5, <1>6

\* Only Install changes routes.
LEMMA OnlyInstall ==
    ASSUME [Next]_vars
    PROVE  routes' = routes \/ \E c \in Client : Install(c)
BY DEF Next, vars, Models, Chat, Answer, AnswerFails, Failed, Asked, Leave, Publish

\* The routes of a backend change only to those of one of its answers, and a backend that fails keeps its own
\* ("if discovery fails the last known catalog is kept", README:16; server.go:221-240), for
\* any number of refreshes at the same time.
THEOREM CatalogKept == FrontendSpec => KnownCatalogKept
<1> DEFINE Kept1 == \A e \in Engine : RoutesOf(e)' # RoutesOf(e) =>
              \E c \in Client : /\ client[c].pc = "answered" /\ Head(client[c].left) = e
                                /\ RoutesOf(e)' = GroupedBracketRoutes(client[c].answer)
<1>1. CatalogInv /\ [Next]_vars => Kept1
  <2> SUFFICES ASSUME CatalogInv, [Next]_vars, NEW e \in Engine, RoutesOf(e)' # RoutesOf(e)
               PROVE  \E c \in Client : /\ client[c].pc = "answered" /\ Head(client[c].left) = e
                                        /\ RoutesOf(e)' = GroupedBracketRoutes(client[c].answer)
    OBVIOUS
  <2>1. routes' # routes
    BY DEF RoutesOf
  <2>2. PICK c \in Client : Install(c)
    BY <2>1, OnlyInstall
  <2>3. Head(client[c].left) = e /\ RoutesOf(e)' = GroupedBracketRoutes(client[c].answer)
    BY <2>2, InstallRoutesOf
  <2> QED BY <2>2, <2>3 DEF Install
<1>2. CatalogInv /\ [FrontendNext]_<<vars, input>> => [Kept1]_vars
  BY <1>1 DEF FrontendNext
<1> HIDE DEF Kept1
<1>3. FrontendSpec => [][Kept1]_vars
  BY <1>2, CatalogInductive, PTL DEF FrontendSpec
<1> QED BY <1>3 DEF Kept1, KnownCatalogKept

-----------------------------------------------------------------------------
(* The routes of a backend are those of one catalog.                       *)

\* The routes of a backend are those of a catalog it has had, or none while it has not answered.
OneCatalog ==
    \A e \in Engine :
        RoutesOf(e) = <<>> \/ \E models \in Published[e] : RoutesOf(e) = GroupedBracketRoutes(models)

\* An answer that is on its way is a catalog of the backend that is asked.
AnswerInv ==
    /\ \A e \in Engine : catalog[e] \in Published[e]
    /\ \A c \in Client : client[c].pc = "answered" => client[c].answer \in Published[Head(client[c].left)]

\* A request that replaces another and is not on the way from a backend.
LEMMA NoNewAnswer ==
    ASSUME CatalogInv, AnswerInv, NEW c \in Client, NEW r, Becomes(c, r),
           r.pc = "answered" => r.answer \in Published[Head(r.left)], UNCHANGED catalog
    PROVE  AnswerInv'
<1>1. client'[c] = r /\ \A d \in Client \ {c} : client'[d] = client[d]
  BY DEF CatalogInv, CatalogTypeOK, Becomes
<1> QED BY <1>1 DEF AnswerInv

\* Never a mixture of two catalogs, and never one of another backend, however the refreshes of
\* different requests overlap (server.go:221-240).
THEOREM RoutesOfOneCatalog == Spec => []OneCatalog
<1> DEFINE I == CatalogInv /\ AnswerInv /\ OneCatalog
<1>1. Init => I
  <2> SUFFICES ASSUME Init PROVE I
    OBVIOUS
  <2>1. AnswerInv
    BY DEF Init, NoRequest, AnswerInv
  <2>2. OneCatalog
    <3> SUFFICES ASSUME NEW e \in Engine PROVE RoutesOf(e) = <<>>
      BY DEF OneCatalog
    <3>1. DOMAIN routes = {}
      BY DEF Init
    <3> QED BY <3>1 DEF RoutesOf
  <2> QED BY <2>1, <2>2, CatalogStart
<1>2. I /\ [Next]_vars => I'
  <2> SUFFICES ASSUME I, [Next]_vars PROVE I'
    OBVIOUS
  <2>0. CatalogInv'
    BY CatalogStep
  <2>1. AnswerInv'
    <3>1. ASSUME NEW c \in Client, Models(c) PROVE AnswerInv'
      BY <3>1, NoNewAnswer DEF Models, Asking
    <3>2. ASSUME NEW c \in Client, Answer(c) PROVE AnswerInv'
      <4>1. /\ client[c].left \in Seq(Engine) /\ client[c].left # <<>>
        BY <3>2, AskingRequest DEF Answer, CatalogInv
      <4>2. Head(client[c].left) \in Engine
        BY <4>1
      <4>3. catalog[Head(client[c].left)] \in Published[Head(client[c].left)]
        BY <4>2 DEF AnswerInv
      <4> QED BY <3>2, <4>3, NoNewAnswer DEF Answer
    <3>3. ASSUME NEW c \in Client, AnswerFails(c) PROVE AnswerInv'
      <4>1. client[c] \in [pc : {"asking"}, for : For, left : Seq(Engine)]
        BY <3>3 DEF AnswerFails, CatalogInv, CatalogTypeOK, Request
      <4>2. [client[c] EXCEPT !.left = Tail(@)].pc = "asking"
        BY <4>1
      <4> QED BY <3>3, <4>2, NoNewAnswer DEF AnswerFails
    <3>4. ASSUME NEW c \in Client, Install(c) PROVE AnswerInv'
      BY <3>4, NoNewAnswer DEF Install, Asking
    <3>5. ASSUME NEW c \in Client, Asked(c) PROVE AnswerInv'
      BY <3>5, NoNewAnswer DEF Asked, NoRequest, Routed
    <3>6. ASSUME NEW c \in Client, Leave(c) PROVE AnswerInv'
      BY <3>6, NoNewAnswer DEF Leave, NoRequest
    <3>7. ASSUME NEW c \in Client, NEW session, NEW id, NEW requested, Chat(c, session, id, requested)
          PROVE  AnswerInv'
      BY <3>7, NoNewAnswer DEF Chat, Asking, Routed
    <3>8. ASSUME NEW e \in Engine, NEW models \in Published[e], Publish(e, models) PROVE AnswerInv'
      BY <3>8 DEF Publish, AnswerInv, CatalogInv, CatalogTypeOK
    <3>9. CASE UNCHANGED vars
      BY <3>9 DEF vars, AnswerInv
    <3> QED BY <3>1, <3>2, <3>3, <3>4, <3>5, <3>6, <3>7, <3>8, <3>9 DEF Next
  <2>2. OneCatalog'
    <3> SUFFICES ASSUME NEW e \in Engine
                 PROVE  RoutesOf(e)' = <<>> \/ \E models \in Published[e] : RoutesOf(e)' = GroupedBracketRoutes(models)
      BY DEF OneCatalog
    <3>1. CASE routes' = routes
      <4>1. RoutesOf(e)' = RoutesOf(e)
        BY <3>1 DEF RoutesOf
      <4> QED BY <4>1 DEF OneCatalog
    <3>2. ASSUME NEW c \in Client, Install(c)
          PROVE  RoutesOf(e)' = <<>> \/ \E models \in Published[e] : RoutesOf(e)' = GroupedBracketRoutes(models)
      <4>1. client[c].answer \in Published[Head(client[c].left)]
        BY <3>2 DEF AnswerInv, Install
      <4>2. CASE e = Head(client[c].left)
        BY <3>2, <4>1, <4>2, InstallRoutesOf
      <4>3. CASE e # Head(client[c].left)
        BY <3>2, <4>3, InstallRoutesOf DEF OneCatalog
      <4> QED BY <4>2, <4>3
    <3> QED BY <3>1, <3>2, OnlyInstall
  <2> QED BY <2>0, <2>1, <2>2
<1> QED BY <1>1, <1>2, PTL DEF Spec

-----------------------------------------------------------------------------
(* What is read.                                                           *)

InputInv == input \in Inputs \cup {NoInput}

\* A behaviour reads one input or none.
LEMMA InputType == FrontendSpec => []InputInv
<1>1. FrontendInit => InputInv
  BY DEF FrontendInit, InputInv
<1>2. InputInv /\ [FrontendNext]_<<vars, input>> => InputInv'
  BY DEF FrontendNext, InputInv
<1> QED BY <1>1, <1>2, PTL DEF FrontendSpec

\* The backends of a list are those it was put together from, however their commands are
\* quoted and whatever their symbols are, or the list is refused (acp_backend.go,
\* main.go:170-183, server.go:338).
THEOREM BackendsAreAsConfigured == FrontendSpec => []BackendsAsConfigured
<1>1. InputInv => BackendsAsConfigured
  BY ListAsConfigured DEF InputInv
<1> QED BY <1>1, InputType, PTL

-----------------------------------------------------------------------------
(* What a catalog gives.                                                   *)

Text == Seq(Symbol)
SuffixEffort == {effort \in Text : Trim(effort) # <<>>}

LEMMA NoSuffixEffort == NoEffort \notin SuffixEffort
BY FrontendAssumption DEF FrontendAssumption, SuffixEffort, Text

\* A model ID of a catalog is the text of what it is read as: its base and its effort, or
\* itself (server.go:315-324).
LEMMA TextOfModel ==
    ASSUME NEW text \in Text
    PROVE  /\ AsModel(text) \in IDs(Text, SuffixEffort)
           /\ AsText(AsModel(text)[1], AsModel(text)[2]) = text
<1> DEFINE I == {i \in 1 .. Len(text) : text[i] = "["}
           open == SelectLastInSeq(text, LAMBDA s : s = "[")
           base == SubSeq(text, 1, open - 1)
           effort == SubSeq(text, open + 1, Len(text) - 1)
           split == SplitEffortModelID(text)
<1>1. open = IF I # {} THEN Max(I) ELSE 0
  BY DEF SelectLastInSeq
<1>2. split = IF open > 0 /\ Last(text) = "]" /\ ValidSuffix(base, effort)
              THEN [ok |-> TRUE, base |-> base, effort |-> effort] ELSE Invalid
  BY DEF SplitEffortModelID
<1> HIDE DEF open, split
<1>3. CASE open > 0 /\ Last(text) = "]" /\ ValidSuffix(base, effort)
  <2>1. I # {}
    BY <1>1, <1>3
  <2>2. open \in 1 .. Len(text) /\ text[open] = "["
    <3>1. Len(text) \in Nat /\ I \in SUBSET (1 .. Len(text))
      BY DEF Text
    <3>2. Max(I) \in I
      BY <2>1, <3>1, MaxExists
    <3> QED BY <1>1, <2>1, <3>2
  <2>3. text[Len(text)] = "]" /\ open < Len(text)
    <3>1. text[Len(text)] = "]"
      BY <1>3 DEF Last
    <3> QED BY <2>2, <3>1 DEF Text
  <2>4. text = base \o <<"[">> \o effort \o <<"]">>
    BY <2>2, <2>3, CutAt DEF Text
  <2>5. base \in Text /\ effort \in Text
    BY <2>2, <2>3, SubSeqProperties DEF Text
  <2>6. effort \in SuffixEffort
    BY <1>3, <2>5 DEF ValidSuffix, SuffixEffort
  <2>7. effort # NoEffort
    BY <2>6, NoSuffixEffort
  <2> HIDE DEF base, effort
  <2>8. AsModel(text) = <<base, effort>>
    BY <1>2, <1>3 DEF AsModel, split
  <2>9. AsText(base, effort) = text
    BY <2>4, <2>7 DEF AsText
  <2>10. <<base, effort>> \in IDs(Text, SuffixEffort)
    BY <2>5, <2>6 DEF IDs
  <2> QED BY <2>8, <2>9, <2>10
<1>4. CASE ~(open > 0 /\ Last(text) = "]" /\ ValidSuffix(base, effort))
  <2>1. AsModel(text) = <<text, NoEffort>>
    BY <1>2, <1>4 DEF AsModel, split, Invalid
  <2> QED BY <2>1 DEF AsText, IDs
<1> QED BY <1>3, <1>4

\* What a request for a base gets: the first variant or the one that was asked for, or the
\* model without variants (server.go:354-375).
LEMMA SentForRoute ==
    ASSUME NEW B, NEW E, NoEffort \notin E, NEW models \in Seq(IDs(B, E)),
           NEW base \in DOMAIN GroupedBracketRoutes(models), NEW requested
    PROVE  LET route == GroupedBracketRoutes(models)[base]
               at == VariantsAt(models, Len(models), base)
           IN  /\ route.variants = <<>> <=> at = {}
               /\ at = {} => /\ Accepted(route, requested) <=> requested = NoEffort
                             /\ SentFor(route, NoEffort) = AsText(base, NoEffort)
               /\ at # {} =>
                    /\ Accepted(route, requested) <=>
                            requested \in {models[i][2] : i \in at} \cup {NoEffort}
                    /\ requested # NoEffort => SentFor(route, requested) = AsText(base, requested)
                    /\ \E first \in at : /\ \A i \in at : first <= i
                                         /\ SentFor(route, NoEffort) = AsText(base, models[first][2])
<1> DEFINE R == GroupedBracketRoutes(models)
           route == R[base]
           at == VariantsAt(models, Len(models), base)
<1>1. R \in RoutesFor(B, E) /\ Describes(R, models, Len(models))
  BY RoutesOfCatalog
<1>2. /\ route.backend = base
      /\ ToSet(route.variants) = {models[i][2] : i \in at}
      /\ \A i \in at : (\A j \in at : i <= j) => Head(route.variants) = models[i][2]
  BY <1>1 DEF Describes, DescribesRoute
<1>3. route.variants \in Seq(E)
  BY <1>1 DEF RoutesFor, RouteOf
<1> HIDE DEF R, route, at
<1>4. route.variants = <<>> <=> at = {}
  <2>1. {models[i][2] : i \in at} = {} <=> at = {}
    OBVIOUS
  <2> QED BY <1>2, <1>3, <2>1, NonemptyToSet
<1>5. CASE at = {}
  BY <1>2, <1>4, <1>5 DEF Accepted, SentFor, SelectedEffort, R, route, at
<1>6. CASE at # {}
  <2>1. at \in SUBSET Nat
    BY DEF at, VariantsAt
  <2>2. Min(at) \in at /\ \A i \in at : Min(at) <= i
    BY <1>6, <2>1, MinExists
  <2>3. Head(route.variants) = models[Min(at)][2]
    BY <1>2, <2>2
  <2>4. SentFor(route, NoEffort) = AsText(base, models[Min(at)][2])
    BY <1>2, <1>4, <1>6, <2>3 DEF SentFor, SelectedEffort
  <2>5. Accepted(route, requested) <=> requested \in {models[i][2] : i \in at} \cup {NoEffort}
    BY <1>2, <1>4, <1>6 DEF Accepted
  <2>6. requested # NoEffort => SentFor(route, requested) = AsText(base, requested)
    BY <1>2 DEF SentFor, SelectedEffort
  <2> QED BY <1>4, <1>6, <2>2, <2>4, <2>5, <2>6 DEF R, route, at
<1> QED BY <1>5, <1>6

\* Every model that is listed leads back to a model ID of the catalog, every model ID of the
\* catalog can be chosen, unless it has no effort and its base has variants, and without an effort it is the first variant (README:16;
\* server.go:254-324, 354-375), for catalogs of any length and any texts in them.
THEOREM CatalogsReachable == FrontendSpec => []CatalogReachable
<1>1. InputInv => CatalogReachable
  <2> DEFINE texts == ToSet(input.of)
             models == [i \in DOMAIN input.of |-> AsModel(input.of[i])]
             listed == GroupedBracketRoutes(models)
             efforts == {model[2] : model \in ToSet(models)} \cup {NoEffort}
             Reached(base) ==
                {SentFor(listed[base], r) : r \in {r \in efforts : Accepted(listed[base], r)}}
             N == Len(models)
             At(base) == VariantsAt(models, N, base)
  <2> SUFFICES ASSUME InputInv, input.kind = "catalog"
               PROVE  /\ \A base \in DOMAIN listed : Reached(base) \subseteq texts
                      /\ texts \ UNION {Reached(base) : base \in DOMAIN listed}
                            \subseteq {base \in DOMAIN listed : listed[base].variants # <<>>}
                      /\ \A base \in DOMAIN listed :
                            LET first == SelectInSeq(models, LAMBDA m : m[1] = base /\ m[2] # NoEffort)
                            IN  first > 0 => SentFor(listed[base], NoEffort) = input.of[first]
    BY DEF CatalogReachable
  <2>1. input.of \in Seq(Text)
    <3>1. input.of \in Catalogs
      BY DEF InputInv, Inputs, NoInput
    <3> QED BY <3>1, FrontendAssumption DEF FrontendAssumption, Text
  <2>2. /\ models \in Seq(IDs(Text, SuffixEffort)) /\ N = Len(input.of)
        /\ \A i \in 1 .. N : models[i] = AsModel(input.of[i])
    <3>1. \A i \in DOMAIN input.of : AsModel(input.of[i]) \in IDs(Text, SuffixEffort)
      BY <2>1, TextOfModel
    <3> QED BY <2>1, <3>1
  <2>3. NoEffort \notin SuffixEffort
    BY NoSuffixEffort
  <2>4. /\ N \in Nat /\ texts = {input.of[i] : i \in 1 .. N}
        /\ \A i \in 1 .. N : /\ AsText(models[i][1], models[i][2]) = input.of[i]
                            /\ input.of[i] \in texts /\ models[i][2] \in efforts
    <3>1. \A i \in 1 .. N : AsText(models[i][1], models[i][2]) = input.of[i]
      BY <2>1, <2>2, TextOfModel
    <3>2. N \in Nat /\ DOMAIN input.of = 1 .. N /\ DOMAIN models = 1 .. N
      BY <2>1, <2>2
    <3> HIDE DEF models, N
    <3> QED BY <3>1, <3>2 DEF ToSet
  <2>5. /\ DOMAIN listed = {models[i][1] : i \in 1 .. N}
        /\ \A i \in 1 .. N : models[i][1] \in DOMAIN listed
    <3>1. Describes(listed, models, N)
      <4> HIDE DEF models
      <4> QED BY <2>2, <2>3, RoutesOfCatalog
    <3> HIDE DEF models, listed, N
    <3> QED BY <3>1 DEF Describes
  <2> HIDE DEF models, listed, N, texts, efforts
  <2>6. ASSUME NEW base \in DOMAIN listed, NEW r, Accepted(listed[base], r)
        PROVE  SentFor(listed[base], r) \in texts
    <3>1. CASE At(base) = {}
      <4>1. r = NoEffort /\ SentFor(listed[base], r) = AsText(base, NoEffort)
        BY <2>2, <2>3, <2>6, <3>1, SentForRoute DEF listed, N
      <4>2. PICK i \in 1 .. N : models[i][1] = base
        BY <2>5
      <4>3. models[i][2] = NoEffort
        BY <3>1, <4>2 DEF VariantsAt
      <4> QED BY <2>4, <4>1, <4>2, <4>3
    <3>2. CASE At(base) # {}
      <4>1. \E i \in At(base) : SentFor(listed[base], r) = AsText(base, models[i][2])
        BY <2>2, <2>3, <2>6, <3>2, SentForRoute DEF listed, N
      <4>2. \A i \in At(base) : i \in 1 .. N /\ models[i][1] = base
        BY DEF VariantsAt
      <4> QED BY <2>4, <4>1, <4>2
    <3> QED BY <3>1, <3>2
  <2>7. \A base \in DOMAIN listed : Reached(base) \subseteq texts
    BY <2>6
  <2>8. ASSUME NEW text \in texts, \A base \in DOMAIN listed : text \notin Reached(base)
        PROVE  text \in DOMAIN listed /\ listed[text].variants # <<>>
    <3>1. PICK i \in 1 .. N : input.of[i] = text
      BY <2>4
    <3> DEFINE base == models[i][1]
               effort == models[i][2]
    <3>2. base \in DOMAIN listed /\ text = AsText(base, effort) /\ effort \in efforts
      BY <2>4, <2>5, <3>1
    <3>3. i \in At(base) <=> effort # NoEffort
      BY DEF VariantsAt
    <3> HIDE DEF base, effort
    <3>4. effort = NoEffort
      <4> SUFFICES ASSUME effort # NoEffort PROVE FALSE
        OBVIOUS
      <4>1. At(base) # {} /\ effort \in {models[j][2] : j \in At(base)}
        BY <3>3 DEF effort
      <4>2. Accepted(listed[base], effort) /\ SentFor(listed[base], effort) = text
        BY <2>2, <2>3, <3>2, <4>1, SentForRoute DEF listed, N
      <4> QED BY <2>8, <3>2, <4>2
    <3>5. text = base
      BY <3>2, <3>4 DEF AsText
    <3>6. At(base) # {}
      <4> SUFFICES ASSUME At(base) = {} PROVE FALSE
        OBVIOUS
      <4>1. Accepted(listed[base], effort) /\ SentFor(listed[base], effort) = text
        BY <2>2, <2>3, <3>2, <3>4, SentForRoute DEF listed, N
      <4> QED BY <2>8, <3>2, <4>1
    <3>7. listed[base].variants # <<>>
      BY <2>2, <2>3, <3>2, <3>6, SentForRoute DEF listed, N
    <3> QED BY <3>2, <3>5, <3>7
  <2>9. ASSUME NEW base \in DOMAIN listed,
               NEW first, first = SelectInSeq(models, LAMBDA m : m[1] = base /\ m[2] # NoEffort), first > 0
        PROVE  SentFor(listed[base], NoEffort) = input.of[first]
    <3>1. first = IF At(base) # {} THEN Min(At(base)) ELSE 0
      BY <2>9 DEF SelectInSeq, VariantsAt, N
    <3>2. At(base) # {} /\ first = Min(At(base))
      BY <2>9, <3>1
    <3>3. PICK i \in At(base) : /\ \A j \in At(base) : i <= j
                               /\ SentFor(listed[base], NoEffort) = AsText(base, models[i][2])
      BY <2>2, <2>3, <3>2, SentForRoute DEF listed, N
    <3>4. At(base) \in SUBSET Nat /\ \A j \in At(base) : j \in 1 .. N /\ models[j][1] = base
      BY DEF VariantsAt
    <3>5. first = i
      BY <3>2, <3>3, <3>4, MinIs
    <3> QED BY <2>4, <3>3, <3>4, <3>5
  <2>10. texts \ UNION {Reached(base) : base \in DOMAIN listed}
           \subseteq {base \in DOMAIN listed : listed[base].variants # <<>>}
    <3> HIDE DEF Reached
    <3> QED BY <2>8
  <2>11. \A base \in DOMAIN listed :
           LET first == SelectInSeq(models, LAMBDA m : m[1] = base /\ m[2] # NoEffort)
           IN  first > 0 => SentFor(listed[base], NoEffort) = input.of[first]
    BY <2>9
  <2> QED BY <2>7, <2>10, <2>11, Zenon
<1> QED BY <1>1, InputType, PTL

-----------------------------------------------------------------------------
(* Prompts.                                                                *)

\* A fold that picks the messages of a kind has those picked up to each position.
Picks(g, messages, kind) ==
    /\ g[0] = <<>>
    /\ \A n \in 0 .. Len(messages) : n < Len(messages) =>
        g[n + 1] = IF messages[n + 1] \in kind THEN Append(g[n], messages[n + 1]) ELSE g[n]
    /\ g[Len(messages)] = Picked(messages, kind)

LEMMA PicksExist ==
    ASSUME NEW M, NEW kind, NEW messages \in Seq(M)
    PROVE  \E g : Picks(g, messages, kind)
<1> DEFINE V == Seq(M)
           N == Len(messages)
           next(v, m) == IF m \in kind THEN Append(v, m) ELSE v
           step == [i \in 1 .. N |-> [v \in V |-> next(v, messages[i])]]
           it == CHOOSE f : f = [s \in SUBSET (DOMAIN messages) |->
                    IF s = {} THEN <<>> ELSE next(f[s \ {Max(s)}], messages[Max(s)])]
           g == [n \in 0 .. N |-> it[1 .. n]]
<1>1. N \in Nat /\ DOMAIN messages = 1 .. N
  OBVIOUS
<1>2. <<>> \in V
  OBVIOUS
<1>3. \A i \in 1 .. N, v \in V : step[i][v] = next(v, messages[i]) /\ step[i][v] \in V
  <2> SUFFICES ASSUME NEW i \in 1 .. N, NEW v \in V
               PROVE  step[i][v] = next(v, messages[i]) /\ step[i][v] \in V
    OBVIOUS
  <2>1. messages[i] \in M
    BY <1>1
  <2>2. step[i][v] = next(v, messages[i])
    OBVIOUS
  <2>3. next(v, messages[i]) \in V
    BY <2>1
  <2> QED BY <2>2, <2>3
<1>4. PICK f : FoldOf(f, V, <<>>, N, step)
  <2>1. StepsWithin(V, N, step)
    BY <1>3 DEF StepsWithin
  <2> HIDE DEF V, N, step, it, g
  <2> QED BY <1>1, <1>2, <2>1, FoldExists
<1>5. f = [s \in SUBSET (DOMAIN messages) |->
              IF s = {} THEN <<>> ELSE next(f[s \ {Max(s)}], messages[Max(s)])]
  <2> HIDE DEF V, N, step, next
  <2> USE DEF FoldOf
  <2> SUFFICES ASSUME NEW s \in SUBSET (1 .. N)
               PROVE  f[s] = IF s = {} THEN <<>> ELSE next(f[s \ {Max(s)}], messages[Max(s)])
    BY <1>1, <1>4
  <2>1. CASE s = {}
    BY <1>4, <2>1
  <2>2. CASE s # {}
    <3>1. Max(s) \in 1 .. N
      BY <1>1, <2>2, MaxExists
    <3>2. f[s \ {Max(s)}] \in V
      BY <1>4
    <3> QED BY <1>3, <1>4, <2>2, <3>1, <3>2
  <2> QED BY <2>1, <2>2
<1>6. it = [s \in SUBSET (DOMAIN messages) |->
              IF s = {} THEN <<>> ELSE next(it[s \ {Max(s)}], messages[Max(s)])]
  BY <1>5, Zenon
<1>7. Picked(messages, kind) = it[DOMAIN messages]
  BY Zenon DEF Picked, FoldLeft, MapThenFoldSet
<1> HIDE DEF it, N
<1>8. g[0] = <<>>
  <2>1. 1 .. 0 = {} /\ 0 \in 0 .. N /\ {} \in SUBSET (DOMAIN messages)
    BY <1>1
  <2>2. it[{}] = <<>>
    BY <1>6, <2>1
  <2> QED BY <2>1, <2>2
<1>9. ASSUME NEW n \in 0 .. N, n < N
      PROVE  g[n + 1] = next(g[n], messages[n + 1])
  <2>1. n \in Nat /\ n + 1 \in 0 .. N /\ 1 .. n + 1 \in SUBSET (DOMAIN messages)
    BY <1>1, <1>9
  <2>2. it[1 .. n + 1] = next(it[1 .. n], messages[n + 1])
    <3>1. /\ 1 .. n + 1 # {} /\ Max(1 .. n + 1) = n + 1
          /\ (1 .. n + 1) \ {n + 1} = 1 .. n
      BY <2>1, FoldPrefix
    <3> HIDE DEF next
    <3>2. it[1 .. n + 1] = next(it[(1 .. n + 1) \ {Max(1 .. n + 1)}], messages[Max(1 .. n + 1)])
      BY <1>6, <2>1, <3>1
    <3> QED BY <3>1, <3>2
  <2> QED BY <2>1, <2>2
<1>10. g[N] = Picked(messages, kind)
  BY <1>1, <1>7
<1> HIDE DEF g
<1> QED BY <1>8, <1>9, <1>10 DEF N, Picks

\* The messages of a kind are picked, in their order: the last one that is of the kind is
\* the last one picked.
LEMMA PickedOf ==
    ASSUME NEW M, NEW kind, NEW messages \in Seq(M)
    PROVE  /\ Picked(messages, kind) \in Seq(M)
           /\ ToSet(Picked(messages, kind)) = {messages[i] : i \in {i \in DOMAIN messages : messages[i] \in kind}}
           /\ \A i \in DOMAIN messages :
                messages[i] \in kind /\ (\A j \in DOMAIN messages : j > i => messages[j] \notin kind) =>
                    Picked(messages, kind) # <<>> /\ Last(Picked(messages, kind)) = messages[i]
<1> DEFINE N == Len(messages)
           Of(n) == {i \in 1 .. n : messages[i] \in kind}
           LastOf(picked, n) ==
                \A i \in 1 .. n : messages[i] \in kind /\ (\A j \in 1 .. n : j > i => messages[j] \notin kind) =>
                    picked # <<>> /\ picked[Len(picked)] = messages[i]
<1>1. PICK g : Picks(g, messages, kind)
  BY PicksExist
<1> DEFINE T == {n \in 0 .. N : /\ g[n] \in Seq(M)
                                /\ ToSet(g[n]) = {messages[i] : i \in Of(n)}
                                /\ LastOf(g[n], n)}
<1>2. N \in Nat /\ DOMAIN messages = 1 .. N
  OBVIOUS
<1>3. 0 \in T
  <2>1. g[0] = <<>> /\ 0 \in 0 .. N /\ 1 .. 0 = {}
    BY <1>1 DEF Picks
  <2>2. ToSet(g[0]) = {} /\ Of(0) = {} /\ g[0] \in Seq(M)
    BY <2>1 DEF ToSet
  <2> QED BY <2>1, <2>2
<1>4. ASSUME NEW n \in 0 .. N, n \in T, n < N PROVE n + 1 \in T
  <2> DEFINE m == messages[n + 1]
  <2>1. /\ n \in Nat /\ n + 1 \in 0 .. N /\ m \in M
        /\ g[n + 1] = IF m \in kind THEN Append(g[n], m) ELSE g[n]
    BY <1>1, <1>2, <1>4 DEF Picks
  <2>2. g[n] \in Seq(M) /\ ToSet(g[n]) = {messages[i] : i \in Of(n)} /\ LastOf(g[n], n)
    BY <1>4
  <2>3. 1 .. n + 1 = (1 .. n) \cup {n + 1}
    BY <2>1
  <2>4. CASE m \in kind
    <3>1. g[n + 1] = Append(g[n], m)
      BY <2>1, <2>4
    <3>2. ToSet(Append(g[n], m)) = ToSet(g[n]) \cup {m}
      <4>1. /\ Len(Append(g[n], m)) = Len(g[n]) + 1 /\ Len(g[n]) \in Nat
            /\ \A k \in 1 .. Len(g[n]) : Append(g[n], m)[k] = g[n][k]
            /\ Append(g[n], m)[Len(g[n]) + 1] = m
            /\ DOMAIN Append(g[n], m) = 1 .. Len(g[n]) + 1 /\ DOMAIN g[n] = 1 .. Len(g[n])
        BY <2>1, <2>2
      <4> HIDE DEF m, T
      <4> QED BY <4>1 DEF ToSet
    <3>3. Of(n + 1) = Of(n) \cup {n + 1}
      BY <2>3, <2>4
    <3>4. LastOf(g[n + 1], n + 1)
      BY <2>1, <2>2, <2>4, <3>1
    <3>5. g[n + 1] \in Seq(M)
      BY <2>1, <2>2, <3>1
    <3>6. ToSet(g[n + 1]) = {messages[i] : i \in Of(n + 1)}
      <4> HIDE DEF Of
      <4> QED BY <2>2, <3>1, <3>2, <3>3
    <3> QED BY <2>1, <3>4, <3>5, <3>6
  <2>5. CASE m \notin kind
    <3>1. g[n + 1] = g[n]
      BY <2>1, <2>5
    <3>2. Of(n + 1) = Of(n)
      BY <2>3, <2>5
    <3>3. LastOf(g[n + 1], n + 1)
      <4> SUFFICES ASSUME NEW i \in 1 .. n + 1, messages[i] \in kind,
                          \A j \in 1 .. n + 1 : j > i => messages[j] \notin kind
                   PROVE  g[n] # <<>> /\ g[n][Len(g[n])] = messages[i]
        BY <3>1
      <4>1. i \in 1 .. n
        BY <2>3, <2>5
      <4> QED BY <2>2, <2>3, <4>1
    <3> QED BY <2>1, <2>2, <3>1, <3>2, <3>3
  <2> QED BY <2>4, <2>5
<1>5. 0 .. N \subseteq T
  <2> HIDE DEF T
  <2> QED BY <1>2, <1>3, <1>4, UpToInduction
<1>6. N \in T /\ g[N] = Picked(messages, kind)
  <2> HIDE DEF T
  <2> QED BY <1>1, <1>2, <1>5 DEF Picks
<1> HIDE DEF N
<1> QED BY <1>2, <1>6 DEF Last

\* What the checked messages of a conversation are, and the ones that are new to the agent.
LEMMA ReadMessages ==
    ASSUME NEW c \in Conversations, Read(c).ok
    PROVE  \E M :
            LET messages == Read(c).messages
                delta == Delta(messages, c.known)
            IN  /\ messages \in Seq(M) /\ delta \in Seq(M) /\ c.known \in 0 .. Len(messages)
                /\ \A i \in DOMAIN messages : messages[i].calls # <<>> => messages[i].role = "assistant"
                /\ Len(delta) = Len(messages) - c.known
                /\ \A i \in DOMAIN delta : delta[i] = messages[c.known + i]
<1> DEFINE given == c.messages
           messages == Read(c).messages
           delta == Delta(messages, c.known)
           M == {NormalMessage(m) : m \in ToSet(given)}
           N == Len(given)
<1>1. given \in Seq(ToSet(given)) /\ c.known \in 0 .. N
  BY FrontendAssumption DEF FrontendAssumption
<1>2. N \in Nat /\ DOMAIN given = 1 .. N /\ \A i \in 1 .. N : given[i] \in ToSet(given)
  BY <1>1
<1>3. /\ messages = [i \in DOMAIN given |-> NormalMessage(given[i])]
      /\ \A i \in DOMAIN given : ValidCalls(given[i])
  BY DEF Read, NormalizeMessages, Refused
<1>4. messages \in Seq(M) /\ Len(messages) = N
  <2>1. \A i \in 1 .. N : NormalMessage(given[i]) \in M
    BY <1>2
  <2> HIDE DEF M, given, N, messages
  <2> QED BY <1>2, <1>3, <2>1
<1>5. \A i \in DOMAIN messages : messages[i].calls # <<>> => messages[i].role = "assistant"
  <2> SUFFICES ASSUME NEW i \in 1 .. N, messages[i].calls # <<>>
               PROVE  messages[i].role = "assistant"
    BY <1>2, <1>3
  <2>1. messages[i].role = given[i].role /\ messages[i].calls = NormalCalls(given[i].calls)
    BY <1>2, <1>3 DEF NormalMessage
  <2>2. given[i].calls # <<>>
    BY <2>1 DEF NormalCalls
  <2> QED BY <1>2, <1>3, <2>1, <2>2 DEF ValidCalls
<1>6. /\ delta \in Seq(M) /\ Len(delta) = Len(messages) - c.known
      /\ \A i \in DOMAIN delta : delta[i] = messages[c.known + i]
  <2> HIDE DEF M, given, messages
  <2> QED BY <1>1, <1>4 DEF Delta
<1> HIDE DEF messages, delta, M
<1> QED BY <1>1, <1>4, <1>5, <1>6 DEF messages, delta

\* A prompt ends with the message the client ended with, and nothing the agent does not know
\* is left out (history.go:91-148, server.go:466-493), for every conversation.
THEOREM PromptsComplete == FrontendSpec => []PromptComplete
<1>1. InputInv => PromptComplete
  <2> DEFINE c == input.of
             messages == Read(c).messages
             delta == Delta(messages, c.known)
             last == SelectLastInSeq(delta, LAMBDA m : ~IsSystem(m))
             filtered == Filtered(delta)
             Plain == {m \in ToSet(delta) : IsPlain(m)}
             System == {m \in ToSet(messages) : IsSystem(m)}
             I == {i \in 1 .. Len(delta) : ~IsSystem(delta[i])}
  <2> SUFFICES ASSUME InputInv, Prompted
               PROVE  /\ Last(TurnPrompt(delta).messages) = delta[last] /\ delta[last].role = "user"
                      /\ \A i \in c.known + 1 .. Len(messages) :
                            \/ messages[i] \in Given(messages, c.known, c.starts)
                            \/ messages[i].role = "tool" \/ messages[i].calls # <<>>
                            \/ IsSystem(messages[i]) /\ ~c.starts
    BY DEF PromptComplete
  <2>1. c \in Conversations /\ Read(c).ok
    BY DEF InputInv, Inputs, NoInput, Prompted
  <2>2. PICK M :
          /\ messages \in Seq(M) /\ delta \in Seq(M) /\ c.known \in 0 .. Len(messages)
          /\ \A i \in DOMAIN messages : messages[i].calls # <<>> => messages[i].role = "assistant"
          /\ Len(delta) = Len(messages) - c.known
          /\ \A i \in DOMAIN delta : delta[i] = messages[c.known + i]
    BY <2>1, ReadMessages
  <2>3. /\ TurnPrompt(delta).messages = filtered
        /\ EndsWithUser(delta) /\ filtered # <<>>
    <3>1. TurnPrompt(delta).ok
      BY DEF Prompted
    <3> HIDE DEF delta
    <3> QED BY <3>1 DEF TurnPrompt, Refused
  <2> HIDE DEF c, messages, delta, filtered
  <2>4. /\ Len(delta) \in Nat /\ DOMAIN delta = 1 .. Len(delta)
        /\ Len(messages) \in Nat /\ DOMAIN messages = 1 .. Len(messages)
        /\ \A i \in 1 .. Len(delta) : delta[i] \in ToSet(delta)
        /\ \A i \in 1 .. Len(messages) : messages[i] \in ToSet(messages)
    BY <2>2 DEF ToSet
  <2>5. /\ filtered \in Seq(M)
        /\ ToSet(filtered) = {delta[i] : i \in {i \in DOMAIN delta : delta[i] \in Plain}}
        /\ \A i \in DOMAIN delta :
                delta[i] \in Plain /\ (\A j \in DOMAIN delta : j > i => delta[j] \notin Plain) =>
                    filtered # <<>> /\ Last(filtered) = delta[i]
    <3> HIDE DEF Plain
    <3>1. filtered = Picked(delta, Plain)
      BY DEF filtered, Filtered, Plain
    <3> QED BY <2>2, <3>1, PickedOf
  <2>6. ToSet(SystemPrompt(messages)) =
            {messages[i] : i \in {i \in DOMAIN messages : messages[i] \in System}}
    <3> HIDE DEF System
    <3>1. SystemPrompt(messages) = Picked(messages, System)
      BY DEF SystemPrompt, System
    <3> QED BY <2>2, <3>1, PickedOf
  <2>7. last \in I /\ last > 0 /\ \A i \in I : i <= last
    <3>1. PICK k \in DOMAIN delta : delta[k] \in Plain
      <4>1. ToSet(filtered) # {}
        BY <2>3, <2>5, NonemptyToSet
      <4> HIDE DEF Plain
      <4> QED BY <2>5, <4>1
    <3>2. k \in I
      BY <2>4, <3>1 DEF IsPlain
    <3>3. last = Max(I)
      <4>1. last = IF I # {} THEN Max(I) ELSE 0
        BY DEF SelectLastInSeq
      <4> HIDE DEF last, I
      <4> QED BY <3>2, <4>1
    <3>4. I \in SUBSET (1 .. Len(delta)) /\ I # {}
      BY <3>2
    <3> HIDE DEF I, last
    <3>5. Max(I) \in I /\ \A i \in I : i <= Max(I)
      BY <2>4, <3>4, MaxExists
    <3>6. last \in I /\ \A i \in I : i <= last
      BY <3>3, <3>5
    <3>7. last > 0
      BY <3>4, <3>6, <2>4
    <3> QED BY <3>6, <3>7
  <2>8. delta[last].role = "user"
    <3> HIDE DEF I
    <3> QED BY <2>3, <2>7 DEF EndsWithUser
  <2> HIDE DEF last
  <2>9. last \in 1 .. Len(delta) /\ \A j \in 1 .. Len(delta) : j > last => IsSystem(delta[j])
    BY <2>4, <2>7
  <2>10. delta[last] \in Plain
    <3>1. delta[last].calls = <<>>
      BY <2>2, <2>4, <2>8, <2>9
    <3> QED BY <2>4, <2>8, <2>9, <3>1 DEF IsPlain, IsSystem
  <2>11. Last(filtered) = delta[last]
    <3>1. \A j \in DOMAIN delta : j > last => delta[j] \notin Plain
      BY <2>4, <2>9 DEF IsPlain
    <3> HIDE DEF Plain
    <3> QED BY <2>4, <2>5, <2>9, <2>10, <3>1
  <2>12. ASSUME NEW i \in c.known + 1 .. Len(messages),
                messages[i].role # "tool", messages[i].calls = <<>>,
                IsSystem(messages[i]) => c.starts
         PROVE  messages[i] \in Given(messages, c.known, c.starts)
    <3>1. /\ i \in 1 .. Len(messages) /\ i - c.known \in 1 .. Len(delta)
          /\ delta[i - c.known] = messages[i]
      <4>1. /\ i \in 1 .. Len(messages) /\ i - c.known \in 1 .. Len(delta)
            /\ c.known + (i - c.known) = i
        BY <2>2, <2>4
      <4> QED BY <2>2, <2>4, <4>1
    <3>2. Given(messages, c.known, c.starts) =
            ToSet(filtered) \cup (IF c.starts THEN ToSet(SystemPrompt(messages)) ELSE {})
      BY <2>3 DEF Given, delta
    <3>3. CASE IsSystem(messages[i])
      <4>1. messages[i] \in System
        BY <2>4, <3>1, <3>3
      <4>2. messages[i] \in ToSet(SystemPrompt(messages))
        <5> HIDE DEF System
        <5> QED BY <2>4, <2>6, <3>1, <4>1
      <4> QED BY <2>12, <3>2, <3>3, <4>2
    <3>4. CASE ~IsSystem(messages[i])
      <4>1. messages[i] \in Plain
        BY <2>4, <2>12, <3>1, <3>4 DEF IsPlain
      <4>2. messages[i] \in ToSet(filtered)
        <5> HIDE DEF Plain
        <5> QED BY <2>4, <2>5, <3>1, <4>1
      <4> QED BY <3>2, <4>2
    <3> QED BY <3>3, <3>4
  <2> QED BY <2>3, <2>8, <2>11, <2>12
<1>2. FrontendSpec => []InputInv
  BY InputType
<1> QED BY <1>1, <1>2, PTL

-----------------------------------------------------------------------------
(* Tools.                                                                  *)

\* Every name has a place in the order.
LEMMA NamesOrdered == NameOrder \in Seq(ToolName) /\ ToSet(NameOrder) = ToolName
<1> DEFINE N == Cardinality(ToolName)
<1>1. N \in Nat /\ ExistsBijection(1 .. N, ToolName) /\ IsFiniteSet(ToolName)
  BY RequestFormAssumption, FS_CardinalityType DEF RequestFormAssumption
<1>2. PICK f \in [1 .. N -> ToolName] : IsInjective(f)
  BY <1>1 DEF ExistsBijection, Bijection, Injection, IsInjective
<1>3. NameOrder \in [1 .. N -> ToolName] /\ IsInjective(NameOrder)
  BY <1>2 DEF NameOrder, SetToSeq
<1>4. NameOrder \in Surjection(1 .. N, ToolName)
  <2>1. IsFiniteSet(1 .. N) /\ Cardinality(1 .. N) = N
    BY <1>1, FS_Interval
  <2>2. NameOrder \in Injection(1 .. N, ToolName)
    BY <1>3 DEF Injection, IsInjective
  <2> HIDE DEF N
  <2> QED BY <1>1, <2>1, <2>2, FS_Injection DEF N
<1>5. \A name \in ToolName : \E i \in 1 .. N : NameOrder[i] = name
  BY <1>4 DEF Surjection
<1> HIDE DEF N
<1>6. DOMAIN NameOrder = 1 .. N /\ NameOrder \in Seq(ToolName)
  BY <1>1, <1>3
<1> QED BY <1>3, <1>5, <1>6 DEF ToSet

\* Which tools are ordered is all that the order depends on, and no tool is lost.
LEMMA OrderedOf ==
    ASSUME NEW tools,
           \A i, j \in DOMAIN tools : tools[i].name = tools[j].name => i = j,
           \A i \in DOMAIN tools : tools[i].name \in ToolName
    PROVE  ToSet(Ordered(tools)) = ToSet(tools)
<1> DEFINE names == Picked(NameOrder, Names(tools))
           Of(i) == CHOOSE tool \in ToSet(tools) : tool.name = names[i]
<1>1. names \in Seq(ToolName) /\ ToSet(names) = Names(tools)
  <2>1. names \in Seq(ToolName)
    BY NamesOrdered, PickedOf
  <2>2. ToSet(names) = {NameOrder[i] : i \in {i \in DOMAIN NameOrder : NameOrder[i] \in Names(tools)}}
    BY NamesOrdered, PickedOf
  <2>3. Names(tools) \subseteq ToSet(NameOrder)
    BY NamesOrdered DEF Names
  <2> HIDE DEF names
  <2>4. ToSet(names) \subseteq Names(tools)
    BY <2>2
  <2>5. ASSUME NEW name \in Names(tools) PROVE name \in ToSet(names)
    <3>1. PICK i \in DOMAIN NameOrder : NameOrder[i] = name
      BY <2>3 DEF ToSet
    <3> QED BY <2>2, <3>1
  <2> QED BY <2>1, <2>4, <2>5
<1>2. ToSet(Ordered(tools)) = {Of(i) : i \in DOMAIN names}
  BY DEF Ordered, ToSet
<1> HIDE DEF names
<1>3. \A i \in DOMAIN names : Of(i) \in ToSet(tools) /\ Of(i).name = names[i]
  <2> SUFFICES ASSUME NEW i \in DOMAIN names
               PROVE  \E tool \in ToSet(tools) : tool.name = names[i]
    OBVIOUS
  <2>1. names[i] \in Names(tools)
    BY <1>1 DEF ToSet
  <2> QED BY <2>1 DEF Names, ToSet
<1>4. \A t, u \in ToSet(tools) : t.name = u.name => t = u
  BY DEF ToSet
<1>5. ASSUME NEW t \in ToSet(tools)
      PROVE  \E i \in DOMAIN names : Of(i) = t
  <2>1. t.name \in ToSet(names)
    BY <1>1 DEF Names, ToSet
  <2>2. PICK i \in DOMAIN names : names[i] = t.name
    BY <2>1 DEF ToSet
  <2> HIDE DEF Of
  <2> QED BY <1>3, <1>4, <2>2
<1> HIDE DEF Of
<1> QED BY <1>2, <1>3, <1>5

\* A session continues with the same tools and with no others (README:128; tools.go:50-81):
\* the hash is that of the set of definitions, for tools of any number.
THEOREM ToolHashes == FrontendSpec => []ToolHashOfSet
<1> DEFINE Normal(tools) == [i \in DOMAIN tools |-> NormalTool(tools[i])]
           Made(meaning) == {[name |-> d[1], schema |-> <<d[2], Canonical>>] : d \in meaning}
           Meant(set) == {<<t.name, t.schema[1]>> : t \in set}
<1>1. ASSUME NEW tools
      PROVE  ToSet(Normal(tools)) = Made(Meaning(tools)) /\ Meant(ToSet(Normal(tools))) = Meaning(tools)
  <2> DEFINE means(tool) == <<tool.name, IF tool.schema = NoSchema THEN EmptyObject ELSE tool.schema[1]>>
             made(d) == [name |-> d[1], schema |-> <<d[2], Canonical>>]
  <2>1. ToSet(Normal(tools)) = {NormalTool(tools[i]) : i \in DOMAIN tools}
    BY DEF ToSet
  <2>2. Meaning(tools) = {means(tools[i]) : i \in DOMAIN tools}
    BY DEF Meaning
  <2>3. \A i \in DOMAIN tools :
            /\ NormalTool(tools[i]) = made(means(tools[i]))
            /\ <<NormalTool(tools[i]).name, NormalTool(tools[i]).schema[1]>> = means(tools[i])
    BY DEF NormalTool
  <2> HIDE DEF means, made, Normal
  <2>4. Made(Meaning(tools)) = {made(d) : d \in Meaning(tools)}
    BY DEF made
  <2> HIDE DEF Made
  <2> QED BY <2>1, <2>2, <2>3, <2>4
<1>2. ASSUME NEW tools, NEW choice, NormalizeTools(tools, choice).ok
      PROVE  /\ NormalizeTools(tools, choice).hash = Ordered(Normal(tools))
             /\ ToSet(Ordered(Normal(tools))) = ToSet(Normal(tools))
  <2>1. ValidTools(tools) /\ NormalizeTools(tools, choice).hash = Ordered(Normal(tools))
    BY <1>2 DEF NormalizeTools, Refused, ToolHash
  <2>2. /\ DOMAIN Normal(tools) = DOMAIN tools
        /\ \A i \in DOMAIN tools : Normal(tools)[i].name = tools[i].name
    BY DEF NormalTool
  <2>3. \A i, j \in DOMAIN tools : tools[i].name = tools[j].name => i = j
    BY <2>1 DEF ValidTools
  <2>4. \A i \in DOMAIN tools : tools[i].name \in ToolName
    BY <2>1 DEF ValidTools
  <2> HIDE DEF Normal
  <2>5. ToSet(Ordered(Normal(tools))) = ToSet(Normal(tools))
    BY <2>2, <2>3, <2>4, OrderedOf
  <2> QED BY <2>1, <2>5
<1>3. ASSUME NEW A, NEW B, ToSet(Normal(A)) = ToSet(Normal(B))
      PROVE  Ordered(Normal(A)) = Ordered(Normal(B))
  <2> HIDE DEF Normal
  <2>1. \A tools : Names(tools) = {t.name : t \in ToSet(tools)}
    BY DEF Names, ToSet
  <2>2. Names(Normal(A)) = Names(Normal(B))
    BY <1>3, <2>1
  <2> QED BY <1>3, <2>2 DEF Ordered
<1> HIDE DEF Normal, Made, Meant
<1>4. ToolHashOfSet
  <2> DEFINE A == input.of.tools
             B == input.and.tools
             a == NormalizeTools(A, input.of.choice)
             b == NormalizeTools(B, input.and.choice)
  <2> SUFFICES ASSUME a.ok, b.ok
               PROVE  a.hash = b.hash <=> Meaning(A) = Meaning(B)
    BY DEF ToolHashOfSet
  <2>1. /\ a.hash = Ordered(Normal(A)) /\ ToSet(Ordered(Normal(A))) = ToSet(Normal(A))
        /\ b.hash = Ordered(Normal(B)) /\ ToSet(Ordered(Normal(B))) = ToSet(Normal(B))
    BY <1>2
  <2> HIDE DEF A, B, a, b
  <2>2. ASSUME a.hash = b.hash PROVE Meaning(A) = Meaning(B)
    BY <1>1, <2>1, <2>2
  <2>3. ASSUME Meaning(A) = Meaning(B) PROVE a.hash = b.hash
    BY <1>1, <1>3, <2>1, <2>3
  <2> QED BY <2>2, <2>3
<1> QED BY <1>4, PTL
=============================================================================
