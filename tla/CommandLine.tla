---------------------------- MODULE CommandLine ----------------------------
(***************************************************************************)
(* What the program reads out of texts: the list of backends in            *)
(* AGENTRUN_ACP or -acp (main.go, acp_backend.go) and the effort in a      *)
(* model ID (server.go).                                                   *)
(*                                                                         *)
(* A text is a sequence of symbols: a character that is looked at, or a    *)
(* word: the keys id, binary and args, or any text without such a          *)
(* character.  All white space is " ", but for the newlines that separate  *)
(* specifications as ";" does.                                             *)
(***************************************************************************)
EXTENDS Naturals, Sequences, SequencesExt

Quotes == {"\"", "'"}
Escape == "\\"
Space == " "
Comma == ","
Semicolon == ";"

Has(text, symbols) == \E i \in DOMAIN text : text[i] \in symbols

\* strings.TrimSpace
Trim(text) ==
    LET ink == {i \in DOMAIN text : text[i] # Space}
    IN  IF ink = {} THEN <<>> ELSE SubSeq(text, Min(ink), Max(ink))

\* The parts between the separators, trimmed, without the empty ones.
Trimmed(part) == IF Trim(part) = <<>> THEN <<>> ELSE <<Trim(part)>>
Divided(s, r, separators) ==
    IF r \in separators THEN [parts |-> s.parts \o Trimmed(s.rest), rest |-> <<>>]
    ELSE [parts |-> s.parts, rest |-> Append(s.rest, r)]
PartsSoFar(text, separators) ==
    FoldLeft(LAMBDA s, r : Divided(s, r, separators), [parts |-> <<>>, rest |-> <<>>], text)
Parts(text, separators) ==
    LET s == PartsSoFar(text, separators) IN s.parts \o Trimmed(s.rest)

\* strings.Cut at the first such symbol, for a text that has it.
Before(text, symbol) == SubSeq(text, 1, SelectInSeq(text, LAMBDA s : s = symbol) - 1)
After(text, symbol) == SubSeq(text, SelectInSeq(text, LAMBDA s : s = symbol) + 1, Len(text))

-----------------------------------------------------------------------------
(* splitCommandLine: a scanner over the symbols.                           *)

NoQuote == ""
Scanner(tokens, current, hasToken, inQuote) ==
    [tokens |-> tokens, current |-> current, hasToken |-> hasToken, inQuote |-> inQuote, escaped |-> FALSE]
Unscanned == Scanner(<<>>, <<>>, FALSE, NoQuote)

Write(s, r) == Scanner(s.tokens, Append(s.current, r), TRUE, s.inQuote)
TokenEnds(s) ==
    IF s.hasToken THEN Scanner(Append(s.tokens, s.current), <<>>, FALSE, s.inQuote) ELSE s

\* Mutant of Toggled: only characters make a token.
ToggledOnly(s, quote) == Scanner(s.tokens, s.current, s.hasToken, quote)
\* Quotes make a token, also an empty one.
Toggled(s, quote) == Scanner(s.tokens, s.current, TRUE, quote)

Scanned(s, r) ==
    CASE s.escaped -> Write(s, r)
      [] ~s.escaped /\ r = Escape -> [s EXCEPT !.escaped = TRUE]
      [] ~s.escaped /\ r # Escape /\ s.inQuote # NoQuote ->
            IF r = s.inQuote THEN Toggled(s, NoQuote) ELSE Write(s, r)
      [] ~s.escaped /\ s.inQuote = NoQuote /\ r \in Quotes -> Toggled(s, r)
      [] ~s.escaped /\ s.inQuote = NoQuote /\ r = Space -> TokenEnds(s)
      [] OTHER -> Write(s, r)

SplitCommandLine(cmd) ==
    LET end == FoldLeft(Scanned, Unscanned, cmd)
    IN  [ok |-> ~end.escaped /\ end.inQuote = NoQuote, tokens |-> TokenEnds(end).tokens]

-----------------------------------------------------------------------------
(* Backends.                                                               *)

Invalid == [ok |-> FALSE]

ValidACPID(id) == id # <<>> /\ ~Has(id, {"/", Space, ":"})

\* The configuration, or an error.
Backend(id, binary, args) ==
    IF ValidACPID(id) /\ binary # <<>> THEN [ok |-> TRUE, id |-> id, binary |-> binary, args |-> args]
    ELSE Invalid

\* The whole command is taken for quoted.
Wrapped(cmd) == Len(cmd) >= 2 /\ Head(cmd) \in Quotes /\ Last(cmd) = Head(cmd)
Unwrapped(cmd) == IF Wrapped(cmd) THEN Trim(Tail(Front(cmd))) ELSE cmd

\* Commas separate arguments in a command of one token without quotes.
CommaStyle(cmd, tokens) == Len(tokens) = 1 /\ Has(tokens[1], {Comma}) /\ ~Has(cmd, Quotes \cup {Space})
Argv(cmd, tokens) ==
    IF CommaStyle(cmd, tokens) /\ Parts(tokens[1], {Comma}) # <<>> THEN Parts(tokens[1], {Comma}) ELSE tokens

\* id=command [args...]
ParseStandard(spec) ==
    LET cmd == Unwrapped(Trim(After(spec, "=")))
        split == SplitCommandLine(cmd)
        argv == Argv(cmd, split.tokens)
    IN  IF ~Has(spec, {"="}) \/ ~split.ok \/ argv = <<>> THEN Invalid
        ELSE Backend(Trim(Before(spec, "=")), Trim(argv[1]), Tail(argv))

\* One key=value of the structured form.
KeyOf(part) == Trim(Before(part, "="))
ValueOf(part) == Trim(After(part, "="))
Known(part) ==
    /\ Has(part, {"="}) /\ KeyOf(part) \in {<<"id">>, <<"binary">>, <<"bin">>, <<"args">>}
    /\ KeyOf(part) = <<"args">> => SplitCommandLine(ValueOf(part)).ok

\* The last part with such a key counts.
Field(parts, keys) ==
    LET at == {i \in DOMAIN parts : KeyOf(parts[i]) \in keys}
    IN  IF at = {} THEN <<>> ELSE ValueOf(parts[Max(at)])

\* id=...,binary=...,args=...; bin is another spelling of binary.
ParseStructured(spec) ==
    LET parts == Parts(spec, {Comma})
    IN  IF \A i \in DOMAIN parts : Known(parts[i])
        THEN Backend(Field(parts, {<<"id">>}), Field(parts, {<<"binary">>, <<"bin">>}),
                     SplitCommandLine(Field(parts, {<<"args">>})).tokens)
        ELSE Invalid

IsStructured(spec) ==
    /\ IsPrefix(<<"id", "=">>, spec)
    /\ \E i \in DOMAIN spec, key \in {"binary", "bin"} : SubSeq(spec, i, i + 2) = <<Comma, key, "=">>

ParseACPBackend(text) ==
    LET spec == Trim(text) IN IF IsStructured(spec) THEN ParseStructured(spec) ELSE ParseStandard(spec)

DistinctIDs(backends) == \A i, j \in DOMAIN backends : backends[i].id = backends[j].id => i = j

SplitACPList(value) == Parts(value, {Semicolon})

\* The backends of a list of specifications, or none if one is wrong (main.go).
ParseACPBackends(specs) ==
    LET backends == [i \in DOMAIN specs |-> ParseACPBackend(specs[i])]
    IN  IF specs # <<>> /\ (\A i \in DOMAIN specs : backends[i].ok) /\ DistinctIDs(backends)
        THEN backends ELSE <<>>

-----------------------------------------------------------------------------
(* Model IDs.                                                              *)

ValidSuffix(base, effort) ==
    /\ base # <<>> /\ Trim(effort) # <<>>
    /\ ~Has(base, {"[", "]"}) /\ ~Has(effort, {"[", "]"})

SplitEffortModelID(id) ==
    LET open == SelectLastInSeq(id, LAMBDA s : s = "[")
        base == SubSeq(id, 1, open - 1)
        effort == SubSeq(id, open + 1, Len(id) - 1)
    IN  IF open > 0 /\ Last(id) = "]" /\ ValidSuffix(base, effort)
        THEN [ok |-> TRUE, base |-> base, effort |-> effort] ELSE Invalid
=============================================================================
