# Verification of agentrun-openai

agentrun-openai is a gateway: an OpenAI chat-completions API in front of coding agents that
run as processes and speak ACP (through the `agentrun` library). One HTTP request is one
message of a conversation; the agent, its native session and the tool calls it makes outlive
the request. This directory holds TLA+ modules of the parts where that is hard, TLC
configurations that check them on small instances, and TLAPS proofs that lift all safety
properties to every value of the constants. File and line numbers refer to
`src/internal/gateway/` unless a path is given.

## The system

| Component | State it keeps | Operations | Hard behaviour | Correct when |
|---|---|---|---|---|
| active turn (`active_turn.go`) | context, bounded event channel, pending calls with their result channels, policy | `run`, `emit`, `call`, `deliver`, `resolve` | three kinds of goroutines, five sources of cancellation, a bounded channel nobody reads between responses | no call is lost, doubled, blocked or offered against tool_choice; a live detached turn can be continued; everything ends |
| tool session (`tool_chat.go`) | `sessionState`: active turn, facade, process, history, tool hash | a request with tools: decide, start, loop, record; the watcher of each turn | the turn outlives its exchanges; watchers and AfterFuncs run late | the right turn is continued, replaced or cleared; no turn is left behind |
| MCP facade (`mcp_facade.go`) | context, bound turn | `bind`, `abort`, `close`, `/watch`, `/call` | reads the bound turn and uses it after the unlock; abort and cancel are two steps | only the session's turn gets calls; other facades are shut down |
| plain session (`server.go`, `handleChat`) | process, history or its count and hash, resume ID, directory | continue, resume, start over, retry once, fail | what is sent depends on what the agent is believed to know | the agent works in exactly the conversation the client sent |
| registry (`registry.go`) | map of sessions | `lock`, `evictIdle`, `close` | TryLock, lock order, shutdown beside requests | no session is used while it is torn down; shutdown leaves nothing running |
| session store (`session_store.go`) | records in memory and in a file | `put`, `delete`, load | write fails, crash, another session's write | what is restored belongs to a conversation the agent knows |
| collector and heartbeat (`stream.go`) | text so far, which blocks came as deltas, closed | `handle`, `startHeartbeat`, `finishStream`, `streamError`, `resetForFreshSession` | two goroutines write; one block may be cut by a tool call | every piece is shown once; nothing after `[DONE]` |
| history (`history.go`), tools (`tools.go`) | none | normalisation, prefix test, prompts, tool hash, policy | filters that drop messages; identity of what is spelled differently | nothing said is lost, nothing is sent twice; a session goes on with the same tools only |
| model catalog (`server.go`) | routes by model | `discoverModels`, `groupedBracketRoutes`, `resolveModel`, effort selection, session key | concurrent discoveries, failing backends, catalogs that change under a conversation | routes are those of one catalog and catch up; a session goes on with one model |
| ACP backend (`acp_backend.go`) and the list of backends (`src/cmd`) | none | a scanner, three forms of a specification | quoting, empty arguments | what was configured is executed; IDs tell backends apart |
| MCP bridge (`src/internal/mcpbridge`), other flags (`src/cmd`) | - | a stdio proxy, flags | - | - |

How they interact. `handleChat` locks the session of the key (session ID, model, effort) for
the whole exchange and goes down the plain path, or down the tool path when there are tools,
a facade or an active turn. On the tool path the exchange creates a turn (or finds the one
that waits for results), reads its event channel, and returns at the first tool call; the
turn, its goroutine in `RunTurn`, its `/call` handlers and its watcher go on without it. The
next exchange brings the results to `resolve`. The janitor, `Server.Close` and the watchers
compete for the same session lock; `sessionState.stop` waits for the turn's goroutine while
it holds the lock. The store is written at the end of plain exchanges and cleared by
`clearSession` and by every tool exchange.

## Modules

| Module | Models |
|---|---|
| `TurnOps` | the `activeTurn` object as a record and every step on it as an operator; no variables |
| `ToolCallLifecycle` | abstract: what a turn promises for its calls (queued, offered one at a time, answered once while offered, returned or failed with the turn) |
| `ActiveTurn` | one turn with all parties acting on it; implements `ToolCallLifecycle` |
| `ActiveTurnProofs` | the theorems about `ActiveTurn`, also that it implements `ToolCallLifecycle` |
| `ToolSession` | a session of the tool path: turns one after another, exchanges, facades, watchers, janitor, `Server.Close`; composes `TurnOps` |
| `ToolSessionProofs` | the theorems about `ToolSession`, also that each of its turns is an `ActiveTurn` |
| `ChatSession` | a session of the plain path with store, eviction, restart, crash and an agent that loses sessions |
| `ChatProofs` | the theorems about `ChatSession` |
| `ResponseStream` | what the agent says, through `turn.events`, collector and heartbeat, to the client |
| `StreamProofs` | the theorems about `ResponseStream` |
| `Registry` | the mutexes of registry and sessions: requests, watchers, the janitor and `Server.Close` over several sessions |
| `RegistryProofs` | the theorems about `Registry` |
| `ModelCatalog` | the routes: overlapping refreshes, backends that change and fail, the model and the session key of a request |
| `CommandLine` | pure: the scanner and the forms of a backend's specification, the suffix of a model ID |
| `RequestForm` | pure: messages, prompts, tools and tool_choice of a request |
| `Frontend` | composes `ModelCatalog` with the two, and states what a text or a body becomes on its way to an agent |
| `CommandLineProofs` | what the readers of `CommandLine` make of the lists that `Frontend` writes |
| `FrontendProofs` | the theorems about `ModelCatalog` and `Frontend` |
| `DataFacts` | lemmas on sequences that the proofs share: induction with a set, smallest and largest numbers, folds, flattened sequences, sequences put together; not about this system |
| `MC*` | values for the constants of the runs |

**Turns.** A field of the record is a field of `activeTurn` or, for `phase`, `run` and
`exchange`, the program counter of a goroutine. An action is a critical section of `t.mu`, a
case of a `select`, or a channel operation. Where Go's `select` has several ready cases all
of them are possible steps: `emit` may drop an event of a cancelled turn although there is
room, `call` may return a result or the cancellation. Result channels have capacity 1 in
the code; the model counts their values without a bound, so that a blocked send would show.

**Tool sessions.** `state.mu` has one holder, so one variable, `ctl`, says who holds it and
where it is. Steps on data that only the lock protects are joined to the step before them;
between the holder's remaining steps come the goroutines of all turns (also of replaced
ones), `/call`, `/watch`, AfterFuncs that fire late, deadlines and `Server.Close`. Requests
are records of what the decisions look at: same setup, matching prefix, tool messages after
it, acceptable prompt, result batch. A response with a tool call is on its way (`pc` is
"returning") until the deferred calls of the handler detach its AfterFunc and release the lock;
the client may have the call, and hang up, before that. Every turn is checked to be a behaviour of
`ActiveTurn` (`EachTurnIsActiveTurn`), so its theorems hold for all turns of a session.
What a restart would resume is the record of the session in the store (`mem`, and `disk`, the file)
and its resume ID; of each only the kind of its native session is kept, with tools or without. A
deletion whose write fails leaves the record in the file. Exchanges of the plain path are single
steps here (`PlainStep`), which say what they leave of the session and in the store.

**Plain sessions.** Messages are sequences of exchanges (user message, answer). Histories are
compared for equality, where the code after a restart compares a count and a SHA-256 of the
same messages. The agent is external: a native session is what it was told. The store's
memory and file are two variables; a write may fail, and the write of another session may
later bring the file up to date. A restart reads the file.

**Streams.** What the agent says is numbered, so that loss, repetition and reordering show. A
turn on the tool path is cut into responses by its calls; each has a new collector which
inherits two flags from the turn. The heartbeat is a goroutine of its own with a tick, a beat and
an exit; a handler that returns closes `done` and waits for it on `stopped`, and the heartbeat may be
in a beat then, or take another tick before it sees `done`, as Go's `select` allows.

**Registry.** A step is what a goroutine does between two points where it may wait for a
mutex: `lock` is two steps (`r.mu` is held in between), `evictIdle` one per session it looks at
and one per session it stops, `close` one for the swap and two per session. A session is known
by its key and its map, since requests after the swap make new sessions. The exchange itself
is a black box that leaves something running or not; `ToolSession` and `ChatSession` open it.

**The catalog.** A model ID is a pair of base and effort. Session IDs and the names of backends,
models and efforts are sequences of symbols, since the key of a session joins them with colons,
which they may contain. Asking a backend is three steps: the
answer is taken from the backend, it arrives, it is installed under `routesMu`; another
refresh may come between any two. Details of models and aliases are left out.

**Readers.** Texts are sequences of symbols; a symbol is a character the parser looks at, or a
word. JSON is a pair of meaning and spelling, SHA-256 is the value it is taken of. The readers
are applied to every input of a small set, one initial state for each.

## Runs

| Run | Question | Properties | Instance | Distinct states |
|---|---|---|---|---|
| `ActiveTurn` | one turn against every order of its parties | `TypeOK`, `ReleaseNeverBlocks`, `CallHeldOnce`, `ClientCanContinue`, `OneAllowedOffer`, `LifecycleSpec`, `CallsSettle`, `TurnEnds` | 2 calls to 2 tools, channel of 2, 4 policies, all batches of up to 2 messages | 245,478 |
| `ToolSession` | deadlines, disconnects, eviction and failures against two turns of a session | `OnePromptAtATime`, `OnlyActiveTurnLives`, `PendingTurnContinuable`, `WatcherSparesNewTurn` | 2 turns, 1 call, 2 setups, channel of 1 | 682,212 |
| `ToolSessionShutdown` | `Server.Close`, a dying bridge and failing starts | `OtherFacadesShut`, `ClosedReleasesAll`, `EachTurnIsActiveTurn` | the same, moves close, bridge, hangup, start | 872,458 |
| `ToolSessionLive` | does everybody give the session back, and what is stored of it | `ExchangeEnds`, `CancelledTurnCleared`, `CloseReturns`, `PendingNeverPersisted` | 1 turn between plain exchanges, moves deadline, request, close, evict, native, plain, write | 127,668 |
| `ChatSession` | does the agent work in the client's conversation, and is it resumed | `TypeOK`, `AgentSeesConversation`, `MatchingHistoryResumes`, `StoreFollowsSession` | histories of up to 2 exchanges that branch, 2 directories, 2 native sessions | 167,930 |
| `ChatSessionFailures` | the same when turns, writes and the process fail | `AgentKnowsConversation` | 1 directory | 415,778 |
| `ResponseStream` | does the client read what the agent said, once | `EachPieceOnce`, `ClientHasTranscript`, `NothingAfterDone`, `HandlerReturns` | 2 pieces on each of 2 channels, event channel of 2, 1 beat | 534,125 |
| `Registry` | who may use a session, and does the waiting end | `TypeOK`, `NothingLeftBehind`, `NotStoppedInUse`, `RequestEnds`, `IdleSessionReleased` | 2 sessions, 2 requests at a time | 56,107 |
| `Frontend` | does what is configured, advertised and said reach the agent | `KnownCatalogKept`, `KeyFixesModel`, `RoutesCatchUp`; `BackendsAsConfigured`, `CatalogReachable`, `PromptComplete`, `ToolHashOfSet` | 2 backends with 2 catalogs each, 1 change, 2 requests, 2 sessions, a model `m` and a model `m:low`; 46,231 inputs | 926,635 |

Three more runs end in a violation; each states a sentence of the repository that the code
does not keep.

| Run | Sentence | What happens |
|---|---|---|
| `ResponseStreamOrder` | `src/README.md:116-117` "Text before a tool call is included in its response" | text and calls enter `turn.events` from two goroutines; the call can be first |
| `ToolSessionDisconnect` | `tool_chat.go:78-79` "Disconnects cancel work only while this HTTP exchange is attached. Unregister before returning tool_calls so the next exchange can resume" | the AfterFunc is detached by a deferred call, after the response is written: a client that has its tool call and hangs up at once cancels the turn it is to continue |
| `ChatSessionShutdown` | `src/README.md:259` "After idle eviction or a restart, a matching history resumes the native session" | a request that locks after `registry.close` swapped the map deletes the stored record |

Bounds and why they are enough. Two calls show every interference of a call with another
one, since `resolve` and the loop treat calls alike; two messages cover repeated, incomplete
and foreign batches; the channel of two events (64 in the code) is filled by text and calls.
Two sessions and two requests let one
request wait for a session of another with `r.mu` held, with the janitor and the closer at any
point; for the safety properties the theorems lift the bound. The model `m:low` gets the key that
`m` has at the effort low. One change of a catalog lets an
old answer meet a new one. Commands have up to two tokens of up to two symbols in three ways of
quoting, conversations up to four messages of nine kinds, catalogs up to three IDs, tool lists
up to two tools: each reader decides by at most two neighbours. Two turns suffice for a late goroutine of one to meet the next: nothing in the code relates
turns that are further apart. The moves of a tool-session run (what the environment may do)
are split over three runs because their product is too large; each run has the moves its
properties concern, and the theorems have all of them at once. One turn is enough for the store, which does not look
at turns, and for the liveness properties: a second one is met as the first is, and stopping an earlier turn waits for
its goroutine only. `MaxTurns` and `MaxContext` in `ChatSession` allow one branch point, a
context that is longer than the history, and a second native session. Two pieces per channel
let a block be cut at any point. `CHECK_DEADLOCK FALSE` appears everywhere: a turn ends for
good, the bounds on turns and native sessions are reached, a closed server does nothing.

Fairness. Goroutines that can run do (weak fairness of `emit`, of the loop, of the calls).
`context.WithTimeout` fires. `engine.Start` and `RunTurn` return once their context is
cancelled, on which `sessionState.stop` relies ("cancellation unblocks both MCP and ACP before
Stop", `registry.go:143`). The heartbeat's `select` takes at random between the ticker and `done`, so it does
not miss `done` for ever (strong fairness of `HeartbeatExits`). A Go mutex hands over to a waiter
that has waited long, hence strong fairness for the watcher, for `registry.close`, for the
janitor and for a request at `r.mu`. `RoutesCatchUp` needs none: it speaks of behaviours in
which refreshes go on to succeed. No request ever has to come and no agent has to finish on
its own. One thing is assumed of clients: that a write to them ends. The server sets no
`WriteTimeout` (`src/cmd/agentrun-openai/main.go:114`), so a client that stops reading
keeps its handler, with the session's lock, for as long as TCP does.

## Proofs

**One turn.** `ActiveTurnProofs` proves for every set of calls and tools, every capacity, any
policies and any batches (assumptions `TurnAssumption` and `BatchAssumption`):

- `Inductive`: `Spec => []IInv`;
- `TypeCorrect`, `ReleaseSafe`, `CallsSafe`, `Continuable`, `OneOffer`: the type
  invariant and the four safety invariants of the run `ActiveTurn`.

None of the four is inductive. Whether a call's event, the call's entry in `pending`, its
`delivered` mark and its result agree is only known together, so `IInv` adds: `QueueInv`, an
event in the queue belongs to one call that is pending, not delivered, and whose handler has
passed `emit`, and no call is queued twice; `PhaseInv`, in each phase of a call's handler
where its entry and result can be, and that a call fails only in a cancelled turn;
`OfferInv`, nothing is delivered while an exchange is attached, and exactly one call is once
it has left the loop with a call. The proof has one lemma per step; the two that carry the
argument are `TakeCallStep` (taking the call from the queue moves it to the client and leaves
no second one) and `ResolveStep`, which rests on `AcceptedBatch`: a batch that passes the
validation answers exactly the delivered call, once. `OneOffer` needs one invariant more, `AllowInv`:
the call that is delivered is one that the tool_choice of its response allows.

**The life of a call.** The same module proves `Implements`: `Spec => LifecycleSpec`, the
refinement the run `ActiveTurn` checks for two calls. The status of a call depends on `phase`,
`pending` and `delivered` only; a lemma per step says which status changes and that the others
do not (`OneBecomes`, `NothingMoves`). `IInv` is needed where the abstract guard is not that of
the code: an exchange that takes a call does not look whether the client holds another one
(`OfferInv` says it does not), and `resolve` looks at entries, not at handlers (`PhaseInv` says
the handler still waits).

**The registry.** `RegistryProofs` proves for any keys and any number of requests (assumption
`RegistryAssumption`: the janitor, the closer and nobody are no requests): `TypeCorrect`;
`StoppedSafely`, that is `NotStoppedInUse`; `CloseComplete`, that is `NothingLeftBehind`;
`OneExchange`, that a conversation has one exchange at a time while the server is open; and
`WaitingNeverCircles`, the part of `RequestEnds` that needs no fairness: a chain of goroutines
that wait for each other's mutexes goes over at most one that waits itself, the request that
holds `r.mu`, so there is no deadlock among requests, janitor and `close`. The
invariant has two parts. `LockInv` ties what a goroutine is doing to the mutex it holds: an
exchange to its session, a request in the second half of `lock` and a searching janitor to
`r.mu`, and whatever is on the janitor's list to the janitor. `CloseInv` follows the swap of the
map: before it all states are those of the map; at the swap `r.mu` is free, so no request is
between its lookup and its session; after it, what runs or may still be left running by an
exchange that began before `s.cancel` is on the list of `close`, which waits for it.

**Tool sessions.** `ToolSessionProofs` proves, for any turns, calls, setups and batches and for
all moves of the environment at once (which the runs have to split), `PromptsApart`,
`LeftTurnsEnd`, `WatcherSpares`, `NeverPersisted`, `FacadesShut` and `CloseReleases`
(assumptions `TurnAssumption` and `SessionAssumption`). `LockInv` says at which
turn the holder of `state.mu` is and in which phase that turn's exchange can be; `TurnsInv`
says that a turn the session has left is cancelled and its goroutine is past `RunTurn` (it may still
have to close `t.done`), which is what
`stop` waits for before it lets go. Call handlers and watchers of such a turn may still be about; they
find it cancelled. The facade of such a turn is shut but stays bound to it. `StoreInv`, for `NeverPersisted`, says that a session whose native session
has tools has a facade until somebody clears it, which every path does before it saves; that the
record in memory is gone while there is a turn or a facade; and that the file agrees with memory
unless a write failed. After a failed write the file may keep the record of the plain conversation
that was given up, never one with tools. The lemmas about the operators of `TurnOps` (`Sound`, `Follows`) say that no step
on a turn revives it or brings its goroutine back.

It also proves `TurnsAreActiveTurns`, the composition the run `ToolSessionShutdown`
checks: each step of a session, of a facade or of `Server.Close` is, for each turn, a step of
`ActiveTurn` or a stutter. Together with the theorems of `ActiveTurnProofs` no call of any turn
of a session is lost, doubled or blocked.

On this rests `PendingContinues`: the active turn, being a behaviour of
`ActiveTurn`, keeps the inductive invariant of `ActiveTurnProofs` (`ActiveInv`, by an instance of
that module for `turns[active]`), so a turn that waits for its client has one delivered call whose
handler waits; `BoundInv` adds what its exchanges leave in the session: a process, a history to
match, and a facade bound to the turn.

**Plain sessions.** `ChatProofs` proves for conversations of any length, any directories and any
number of native sessions (assumption `ChatAssumption`):

- `TypeCorrect`, `StoreFollows` and `KnowsConversation`, whatever fails. `StoreFollows` says that
  between requests the records in memory are those of the session; that the file has them too,
  and that a restart so changes nothing, it says only where no write fails (`FileInv`). For the last one
  `ToldInv` says that a native session's context only grows and that what session, memory and
  file know of a conversation is a subsequence of it; the lemmas on subsequences carry it from
  one prompt to the next.
- `SeesConversation` and `StoredIsResumed` under `Reliable`, which names the moves of the run
  `ChatSession`: evictions, restarts, agents that lose sessions, silent turns. With failing
  turns the first one does not hold: a turn that fails keeps the resume ID of a native session
  that may have taken in its prompt (`server.go:549`). No text promises otherwise.
  `KnownInv` says that what the gateway knows is exactly what the native session was told,
  wherever it keeps it: in the session, in memory, in the file.

**Streams.** `StreamProofs` proves `DoneIsLast` for any pieces, capacities and
number of heartbeats: a response is open exactly while its handler is in the loop (`PhaseInv`),
and a response that is open has no `[DONE]` (`WireOK`). It also proves `PiecesOnce`, however the
agent cuts its blocks and its calls cut the turn. `FlowInv` is the invariant: on each channel the
messages in `turn.events` and before it lead, one after another (`Chain`), from where the
collectors stand to where the agent stands, each saying the next piece or one that a delta has
said already. `EachPieceOnce` itself says nothing of those messages and is not inductive.
`FrameInv` has what the two paths and the one open call allow on the way.

`TranscriptIsWhatWasSent`, that is `ClientHasTranscript`, compares what the client puts together
from the chunks of a response, which is a flattened sequence, with what the collector keeps for the
history. `TextInv` says that they agree all the time in a stream, and that without one nothing is
written before the end; a lemma per way of writing to the client (a message, a beat, the end of
a response) says what it adds to the text.

**The catalog.** `FrontendProofs` proves, for any engines, models, catalogs and clients:

- `RoutesOfCatalog`: what a catalog of any length is grouped into (`server.go:254-306`): a route
  for each base and for nothing else, its efforts those of the base's variants, the first variant
  first, and the base itself as the only ID of a model without variants. The theorems below rest on
  it, as does `CatalogsReachable`, that is `CatalogReachable`: what `/models` lists leads to
  exactly the texts of the catalog (with the exception named below). For the latter the bracket that `SplitEffortModelID` looks
  for is shown to be where the two halves of a text meet again.
- `CatalogKept`, `RoutesOfOneCatalog`: a step that changes the routes of a backend installs an
  answer of this backend; an answer under way is a catalog that the backend had when it was asked, so no
  mixture of two is ever routed, however refreshes overlap.
- `KeysFixModels`, that is `KeyFixesModel`: requests with one key are of one session and are sent to one model,
  if they name the same session and model or have no colon in those names. By
  itself the property says nothing of the routes; `CatalogInductive` adds that a route is to the
  model in its name (`BackendInv`), and that the key of a request is made of the route it was given (`KeyInv`).
  A key without colons in the names is taken apart at its first colon (`KeyParts`), and the name of
  the model at its first slash (`ModelRead`), which the ID of a backend cannot have (`acp_backend.go:33-44`).

**Lists of backends.** `BackendsAreAsConfigured`, that is `BackendsAsConfigured`: a list of
backends in the standard or the structured form, with any symbols in IDs and tokens and each token
written in double quotes, in single quotes or with escapes, is read as what it was written from, or
refused as a whole. A writer (`CommandOf`, `Specification`) and four readers on top of each other
meet here, and `CommandLineProofs` proves about the readers one by one:

- the scanner (`CommandsSplit`): what is escaped is read as it was, in or out of quotes
  (`EscapedScan`), a written token brings the scanner from between two tokens to behind this one
  (`WrittenScan`), and so on from token to token (`CommandScan`). The property itself is not
  inductive over the text; the scanner's states in between (`Scans`) are;
- trimming (`TrimOf`, `TrimBehind`, `TrimBefore`): which blanks go, and that those inside stay;
- cutting at the first `=` or `/` (`CutFirst`);
- dividing at `;` and `,` (`DivideText`, `DividePart`), from which a list has the specifications
  it was joined from (`ListParts`) and a structured specification its three fields
  (`ThreeParts`, `FieldsOf`).

**Requests.** `PromptsComplete`, that is `PromptComplete`, for conversations of any length;
`ReadMessages` says what the normalisation leaves of a message and in which order.
`ToolHashes`, that is `ToolHashOfSet`, for any finite set of tool names: the order by name is one
order of a set, so lists that define the same set are hashed alike, and the hash gives the set
back (`NamesOrdered`, `OrderedOf`).

**Induction over data.** The theorems of the library that take a predicate as a parameter cannot
be used by the provers here. `DataFacts` states induction for a set instead: a set of numbers
that has 0, and with n also n + 1, has them all (`NatSetInduction`), and likewise for sequences
(`SeqSetInduction`); a proof by induction defines the set of those for which its claim holds. Folds of the community modules are
recursive functions behind a CHOOSE; `FoldExists` shows that such a function exists and what it
says of one more element, and the proofs about a fold then follow its steps.

**Assumptions.** Those on constants are named `...Assumption`, stand in the module that declares
the constants, and are evaluated by the runs. Those of
the readers are: the engines form a sequence (`server.go:67`) and their IDs have no slash
(`acp_backend.go:33-44`), names and texts are sequences of symbols, tool names are finitely many, since
they have at most 64 characters (`tools.go:34`), a backend has a command of at least one token
whose empty tokens are quoted, a catalog is a sequence of texts, the agent knows
at most what a conversation has, and the effort of a model without one is blank
(`FrontendAssumption`).

**Only model-checked.** Liveness: `CallsSettle`, `TurnEnds`, `ExchangeEnds`, `CancelledTurnCleared`,
`CloseReturns`, `HandlerReturns`, `RequestEnds`, `IdleSessionReleased` (fairness and ENABLED are out of the prover's
reach) and `RoutesCatchUp`, whose argument (the catalog changes finitely often, and so do old
answers overwrite new ones) is an induction with a temporal claim.

## What the readers do not promise

The following is what the code does, and no text of the repository promises otherwise. The
properties of `Frontend` and `ModelCatalog` state the first five as exceptions (`Ambiguous` the
first two); the last one is why `RoutesCatchUp` asks for refreshes that go on.

- A command that begins with one quoted word and ends with another in the same quotes loses
  the outer two (`acp_backend.go:72`, meant for a command that is quoted as a whole). An escaped
  space at the end of a command is trimmed, and its escape is then incomplete. Commas in a
  structured specification, and semicolons and newlines in `AGENTRUN_ACP`, separate also inside
  quotes; commas alone separate the arguments of a command of one token (`acp_backend.go:84`).
- A backend with the ID `id` whose command has `,binary=` or `,bin=` in it is taken for the
  structured form (`acp_backend.go:57`), and an ID ends at its first `=`.
- A model that is advertised both without effort and with efforts is listed with its efforts
  only; the one without cannot be chosen (`server.go:293`).
- A system message that comes while the process of a session runs reaches no one: the prompt
  leaves it out, the system prompt is given at the start (`server.go:489`, `history.go:115`).
- Session keys are joined with `:`, which session IDs and model names may contain: model `a/m` at the
  effort `x` and model `a/m:x` without effort share the session of a conversation
  (`server.go:447-450`).
- A list that was fetched before a later refresh may overwrite its routes (`server.go:231`), and an
  effort that `/models` has just listed may be rejected; the next refresh mends it.

One more on the tool path: when the bridge died between two turns, the next request of the
conversation is not a continuation, all its messages are scanned, and it is rejected with
"unexpected tool result" because of the tool messages of its own history (`tool_chat.go:47`).

## Not modelled

Authentication, session IDs and allowed directories; the layout of JSON and of prompts; the
wording of errors, on which `isMissingNativeSession` depends; details and aliases of models;
flags other than the backends. The MCP bridge process: it keeps no state beside the descriptors
it was given, and its calls, hang-ups and death are steps of `TurnOps` and `ToolSession`. The
agent is assumed to end a block of deltas with the whole block. A `put` that is in flight when
`Server.Close` runs is not combined with a later request for the same key. Data races are not
modelled: the code guards every shared field with the mutex the models show.

## Plan

Done: `TurnOps`, `ToolCallLifecycle`, `ActiveTurn` with its proofs and the refinement, `ToolSession`
with its proofs and the composition, `ChatSession` and `ResponseStream` with their proofs, `Registry`
with its proofs, `ModelCatalog` with `CommandLine`, `RequestForm` and `Frontend`, and the proofs about them.

Left: the MCP bridge process (`src/internal/mcpbridge/bridge.go`), as far as its calls and its
death go beyond what `ToolSession` has.
