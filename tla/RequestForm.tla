---------------------------- MODULE RequestForm ----------------------------
(***************************************************************************)
(* What handleChat makes of the body of a request before it looks at the   *)
(* session: its messages (history.go), its tools and its tool_choice       *)
(* (tools.go); and the prompts the agent gets of the messages.             *)
(*                                                                         *)
(* A content is a word, Blank, or NoContent (no text at all); the parts    *)
(* of a content are joined.  A JSON value is a pair of what it means and   *)
(* how it is spelled (the order of keys, white space).                     *)
(***************************************************************************)
EXTENDS Naturals, Sequences, FiniteSets, SequencesExt

CONSTANTS
    Blank,      \* a content of white space alone
    NoContent,  \* missing, null or not text
    NoID,       \* the empty ID
    ToolName,   \* names that functionName matches
    NoName,     \* any other name
    Canonical   \* the spelling of canonicalJSON

\* A name has at most 64 letters, digits, underscores and hyphens (tools.go:34).
ASSUME RequestFormAssumption == IsFiniteSet(ToolName)

-----------------------------------------------------------------------------
(* Messages: [role, content, calls, result]; calls: [id, name, arguments]. *)

Refused == [ok |-> FALSE]
NotObject == "not an object"

ValidRole(message) == message.role \in {"system", "developer", "user", "assistant", "tool"}

\* Arguments of calls are objects; they are compared in canonical form.
ValidCalls(message) ==
    /\ message.calls # <<>> => message.role = "assistant"
    /\ \A i \in DOMAIN message.calls :
        /\ message.calls[i].id # NoID /\ message.calls[i].name \in ToolName
        /\ message.calls[i].arguments[1] # NotObject
        /\ \A j \in DOMAIN message.calls : message.calls[j].id = message.calls[i].id => j = i
NormalCalls(calls) ==
    [i \in DOMAIN calls |-> [calls[i] EXCEPT !.arguments = <<@[1], Canonical>>]]

ValidResult(message) == (message.role = "tool") <=> (message.result # NoID)

\* An assistant that only calls tools says nothing.
NormalContent(message) ==
    IF message.content = NoContent /\ message.calls # <<>> THEN Blank ELSE message.content

NormalMessage(message) ==
    [role |-> message.role, content |-> NormalContent(message),
     calls |-> NormalCalls(message.calls), result |-> message.result]

NormalizeMessages(messages) ==
    IF /\ messages # <<>>
       /\ \A i \in DOMAIN messages :
            /\ ValidRole(messages[i]) /\ ValidCalls(messages[i]) /\ ValidResult(messages[i])
            /\ NormalContent(messages[i]) # NoContent
    THEN [ok |-> TRUE, messages |-> [i \in DOMAIN messages |-> NormalMessage(messages[i])]]
    ELSE Refused

IsSystem(message) == message.role \in {"system", "developer"}
IsPlain(message) == ~IsSystem(message) /\ message.role # "tool" /\ message.calls = <<>>

\* Both prompts are appended to, message by message.
Picked(messages, kind) ==
    FoldLeft(LAMBDA found, m : IF m \in kind THEN Append(found, m) ELSE found, <<>>, messages)

SystemPrompt(messages) == Picked(messages, {m \in ToSet(messages) : IsSystem(m)})
Filtered(messages) == Picked(messages, {m \in ToSet(messages) : IsPlain(m)})

\* Mutant of EndsWithUser: only the filtered messages are looked at.
EndsWithUserFiltered(messages) == TRUE
\* The boundary is checked before native tool history is left out.
EndsWithUser(messages) ==
    LET last == SelectLastInSeq(messages, LAMBDA m : ~IsSystem(m))
    IN  last > 0 => messages[last].role = "user"

\* The messages of the prompt; a single one is sent without its role.
TurnPrompt(messages) ==
    LET filtered == Filtered(messages)
    IN  IF /\ EndsWithUser(messages) /\ filtered # <<>>
           /\ Last(filtered).role = "user"
           /\ Len(filtered) = 1 => filtered[1].content # Blank
        THEN [ok |-> TRUE, messages |-> filtered] ELSE Refused

\* A turn: the messages after those the agent knows are the prompt; a process that starts
\* also gets the system prompt of the whole conversation.
Delta(messages, known) == SubSeq(messages, known + 1, Len(messages))
Given(messages, known, starts) ==
    ToSet(TurnPrompt(Delta(messages, known)).messages)
        \cup (IF starts THEN ToSet(SystemPrompt(messages)) ELSE {})

-----------------------------------------------------------------------------
(* Tools: [name, schema]; a schema is JSON.  The description and strict    *)
(* are copied and compared as they are.                                    *)

EmptyObject == "object"
NoSchema == <<"none", Canonical>>

NormalTool(tool) ==
    [name |-> tool.name,
     schema |-> <<IF tool.schema = NoSchema THEN EmptyObject ELSE tool.schema[1], Canonical>>]

ValidTools(tools) ==
    \A i \in DOMAIN tools :
        /\ tools[i].name \in ToolName /\ tools[i].schema[1] # NotObject
        /\ \A j \in DOMAIN tools : tools[j].name = tools[i].name => j = i

Names(tools) == {tools[i].name : i \in DOMAIN tools}

\* Tools with different names in the order of the names, which is any enumeration of them.
NameOrder == SetToSeq(ToolName)
\* Mutant of Ordered: the tools stay in the order of the request.
OrderedAsGiven(tools) == tools
Ordered(tools) ==
    LET names == Picked(NameOrder, Names(tools))
    IN  [i \in DOMAIN names |-> CHOOSE tool \in ToSet(tools) : tool.name = names[i]]

\* SHA-256 of the tools, which are what they are told apart by; no hash without tools.
ToolHash(tools) == Ordered([i \in DOMAIN tools |-> NormalTool(tools[i])])

\* tool_choice: absent (missing or null), a string, an object that names a function, or
\* other JSON.
Absent == [kind |-> "absent"]
String(mode) == [kind |-> "string", mode |-> mode]
Function(name) == [kind |-> "function", name |-> name]
Other == [kind |-> "other"]

ValidMode(mode) == mode \in {"auto", "none", "required"}

Policy(tools, choice) ==
    CASE choice.kind = "absent" -> [mode |-> "auto", name |-> NoName]
      [] choice.kind = "string" -> [mode |-> choice.mode, name |-> NoName]
      [] choice.kind = "function" -> [mode |-> "named", name |-> choice.name]
      [] OTHER -> [mode |-> "invalid", name |-> NoName]

ValidChoice(tools, choice) ==
    CASE choice.kind = "string" -> ValidMode(choice.mode) /\ (choice.mode = "required" => tools # <<>>)
      [] choice.kind = "function" -> choice.name \in Names(tools)
      [] OTHER -> choice.kind = "absent"

NormalizeTools(tools, choice) ==
    IF ValidTools(tools) /\ ValidChoice(tools, choice)
    THEN [ok |-> TRUE, hash |-> ToolHash(tools), policy |-> Policy(tools, choice)]
    ELSE Refused
=============================================================================
