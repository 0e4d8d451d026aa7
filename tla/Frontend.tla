----------------------------- MODULE Frontend -----------------------------
(***************************************************************************)
(* The way of a text, a catalog or the body of a request into the          *)
(* gateway, up to the lock of a session: composes ModelCatalog with the    *)
(* readers of CommandLine and RequestForm.  The readers have no state: a   *)
(* behaviour is either one of the catalog or the reading of one input.     *)
(***************************************************************************)
EXTENDS ModelCatalog, CommandLine, RequestForm

Style == Quotes \cup {"plain"}

CONSTANTS
    Lists,          \* sequences of backends [id, tokens, styles, structured]: the tokens of
                    \* the command, and how they are written
    Catalogs,       \* sequences of texts: the model IDs of a backend
    Conversations,  \* [messages, known, starts]: the messages, how many of them the agent
                    \* knows, whether its process is started for the turn
    Toolsets        \* [tools, choice]

\* An empty token can only be written in quotes.  The effort in a suffix is not blank
\* (server.go:315-324).  What the agent knows is a part
\* of the history (server.go:463-473).
ASSUME FrontendAssumption ==
    /\ \A list \in Lists :
        /\ list \in Seq(ToSet(list))
        /\ \A b \in ToSet(list) :
            /\ b.id \in Seq(Symbol) /\ b.structured \in BOOLEAN
            /\ b.tokens \in Seq(Seq(Symbol)) \ {<<>>}
            /\ b.styles \in Seq(Style) /\ Len(b.styles) = Len(b.tokens)
            /\ \A i \in DOMAIN b.tokens : b.tokens[i] = <<>> => b.styles[i] \in Quotes
    /\ Catalogs \subseteq Seq(Seq(Symbol))
    /\ \A c \in Conversations :
        c.messages \in Seq(ToSet(c.messages)) /\ c.known \in 0 .. Len(c.messages)
    /\ NoEffort \in Seq(Symbol) => Trim(NoEffort) = <<>>

VARIABLE input

NoInput == [kind |-> "none"]
Inputs ==
    [kind : {"list"}, of : Lists] \cup [kind : {"catalog"}, of : Catalogs]
        \cup [kind : {"conversation"}, of : Conversations]
        \cup [kind : {"tools"}, of : Toolsets, and : Toolsets]

FrontendInit ==
    \/ Init /\ input = NoInput
    \/ /\ catalog = [e \in Engine |-> <<>>]
       /\ changes = MaxChanges
       /\ routes = <<>>
       /\ client = [c \in Client |-> NoRequest]
       /\ input \in Inputs

FrontendNext == input = NoInput /\ Next /\ UNCHANGED input

FrontendSpec == FrontendInit /\ [][FrontendNext]_<<vars, input>>

-----------------------------------------------------------------------------
(* Command lines.                                                          *)

\* How a token may be written so that it is one token.
Escaped(token, symbols) ==
    FlattenSeq([i \in DOMAIN token |-> IF token[i] \in symbols THEN <<Escape, token[i]>> ELSE <<token[i]>>])
Written(token, style) ==
    IF style \in Quotes THEN <<style>> \o Escaped(token, {style, Escape}) \o <<style>>
    ELSE Escaped(token, Quotes \cup {Escape, Space})
CommandOf(tokens, styles) ==
    FlattenSeq([i \in DOMAIN tokens |->
        (IF i = 1 THEN <<>> ELSE <<Space>>) \o Written(tokens[i], styles[i])])

Specification(b) ==
    IF b.structured
    THEN <<"id", "=">> \o b.id \o <<Comma, "binary", "=">> \o b.tokens[1]
            \o <<Comma, "args", "=">> \o CommandOf(Tail(b.tokens), Tail(b.styles))
    ELSE b.id \o <<"=">> \o CommandOf(b.tokens, b.styles)

\* The forms the parser gives another meaning: separators where they separate, an escaped
\* space at the end, the beginning of the structured form, a command that begins and ends
\* with the same quote (acp_backend.go:51-99, 117; main.go:174).
Ambiguous(b) ==
    LET spec == Specification(b)
        cmd == CommandOf(b.tokens, b.styles)
        args == CommandOf(Tail(b.tokens), Tail(b.styles))
    IN  \/ Has(spec, {Semicolon}) \/ Last(spec) = Space
        \/ IF b.structured THEN Has(b.id \o b.tokens[1] \o args, {Comma})
           ELSE Has(b.id, {"="}) \/ IsStructured(Trim(spec)) \/ Wrapped(cmd) \/ CommaStyle(cmd, b.tokens)

\* "Command and arguments are passed directly to exec" (README:162): from AGENTRUN_ACP or -acp
\* each token of a command becomes one argument, also an empty one and one with spaces and
\* quotes, unless it is ambiguous.  If a specification is refused, they all are; if they are
\* not, the first slash of a model ID ends the ID of one backend and of no other
\* (acp_backend.go, main.go:170-183, server.go:338).
BackendsAsConfigured ==
    input.kind = "list" =>
        LET list == input.of
            parsed == ParseACPBackends(SplitACPList(
                FlattenSeq([i \in DOMAIN list |-> Specification(list[i]) \o <<Semicolon, Space>>])))
            Refusable(b) == ~ValidACPID(Trim(b.id)) \/ Trim(b.tokens[1]) = <<>>
        IN  \/ \E i \in DOMAIN list : Ambiguous(list[i])
            \/ /\ parsed = <<>>
               /\ \/ \E i \in DOMAIN list : Refusable(list[i])
                  \/ \E i, j \in DOMAIN list : i # j /\ Trim(list[i].id) = Trim(list[j].id)
            \/ /\ parsed = [i \in DOMAIN list |->
                    [ok |-> TRUE, id |-> Trim(list[i].id), binary |-> Trim(list[i].tokens[1]),
                     args |-> Tail(list[i].tokens)]]
               /\ \A i, j \in DOMAIN parsed :
                    LET model == parsed[i].id \o <<"/", "m", "/", "m">>
                    IN  (Before(model, "/") = parsed[j].id) <=> (i = j)

-----------------------------------------------------------------------------
(* Catalogs as the backend sends them.                                     *)

AsModel(text) ==
    LET split == SplitEffortModelID(text)
    IN  IF split.ok THEN <<split.base, split.effort>> ELSE <<text, NoEffort>>
AsText(base, effort) == IF effort = NoEffort THEN base ELSE base \o <<"[">> \o effort \o <<"]">>

\* The model ID that is sent to the agent.
SentFor(route, requested) == AsText(route.backend, SelectedEffort(route, requested))

\* "the selected bracketed model ID is sent to ACP", "if omitted, the first variant in the
\* backend catalog is selected" (README:16): what the gateway lists for a catalog leads to
\* exactly the models of this catalog.  Excepted is a model without effort beside variants
\* of the same base, which cannot be chosen (server.go:254-324, 354-375).
CatalogReachable ==
    input.kind = "catalog" =>
        LET texts == ToSet(input.of)
            models == [i \in DOMAIN input.of |-> AsModel(input.of[i])]
            listed == GroupedBracketRoutes(models)
            efforts == {model[2] : model \in ToSet(models)} \cup {NoEffort}
            Reached(base) ==
                {SentFor(listed[base], r) : r \in {r \in efforts : Accepted(listed[base], r)}}
        IN  /\ \A base \in DOMAIN listed : Reached(base) \subseteq texts
            /\ texts \ UNION {Reached(base) : base \in DOMAIN listed}
                 \subseteq {base \in DOMAIN listed : listed[base].variants # <<>>}
            /\ \A base \in DOMAIN listed :
                 LET first == SelectInSeq(models, LAMBDA m : m[1] = base /\ m[2] # NoEffort)
                 IN  first > 0 => SentFor(listed[base], NoEffort) = input.of[first]

-----------------------------------------------------------------------------
(* Messages.                                                               *)

Read(conversation) == NormalizeMessages(conversation.messages)
Prompted ==
    /\ input.kind = "conversation"
    /\ Read(input.of).ok
    /\ TurnPrompt(Delta(Read(input.of).messages, input.of.known)).ok

\* A prompt ends with the message the client ended with, apart from system messages: "a
\* trailing assistant tool call could accidentally resend an earlier user"
\* (history.go:102-103).  Nothing the agent does not know is left out of what it is given,
\* except tool traffic, and system messages that come while its process runs
\* (history.go:91-148, server.go:466-493).
PromptComplete ==
    Prompted =>
        LET messages == Read(input.of).messages
            delta == Delta(messages, input.of.known)
            last == SelectLastInSeq(delta, LAMBDA m : ~IsSystem(m))
        IN  /\ Last(TurnPrompt(delta).messages) = delta[last] /\ delta[last].role = "user"
            /\ \A i \in input.of.known + 1 .. Len(messages) :
                \/ messages[i] \in Given(messages, input.of.known, input.of.starts)
                \/ messages[i].role = "tool" \/ messages[i].calls # <<>>
                \/ IsSystem(messages[i]) /\ ~input.of.starts

-----------------------------------------------------------------------------
(* Tools.                                                                  *)

Meaning(tools) ==
    {<<tools[i].name, IF tools[i].schema = NoSchema THEN EmptyObject ELSE tools[i].schema[1]>> : i \in DOMAIN tools}

\* A session continues with the same tools and with no others: the hash is that of the set
\* of definitions, "JSON object key order and tool list order do not" matter (README:128;
\* tools.go:50-81).
ToolHashOfSet ==
    input.kind = "tools" =>
        LET a == NormalizeTools(input.of.tools, input.of.choice)
            b == NormalizeTools(input.and.tools, input.and.choice)
        IN  a.ok /\ b.ok => (a.hash = b.hash <=> Meaning(input.of.tools) = Meaning(input.and.tools))
=============================================================================
