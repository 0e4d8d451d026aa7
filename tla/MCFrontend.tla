---------------------------- MODULE MCFrontend ----------------------------
(* Small catalogs of two backends, and the inputs that are read. *)
EXTENDS Frontend

e1 == <<"a">>
e2 == <<"b">>
low == <<"low">>
high == <<"high">>

MCSessionID == {<<"s">>, <<"t">>}
MCEngines == <<e1, e2>>
\* The model of the one name has the key of the other model at the effort low.
MCBase == {<<"m">>, <<"m", ":", "low">>}
MCEffort == {low, high}
MCPublished ==
    LET model(effort) == << <<"m">>, effort>>
    IN  [e \in {e1, e2} |->
            IF e = e1 THEN {<<model(low), model(high)>>,
                            <<model(high), model(low), << <<"m", ":", "low">>, NoEffort>>, model(high)>>}
            ELSE {<<model(NoEffort)>>, <<>>}]

MCSymbols ==
    {"a", "b", "m", "n", "s", "t", "pi", "bin", "low", "high", "id", "binary", "args", " ", "\"", "'", "\\",
     "/", ":", ",", ";", "=", "[", "]"}

MCLists ==
    LET token == BoundedSeq({"a", " ", "\"", "\\"}, 2) \cup {<<"a", ",", "b">>, <<"'">>}
        backends(n, ids, tokens, styles) ==
            {b \in [id : ids, tokens : [1 .. n -> tokens], styles : [1 .. n -> styles], structured : BOOLEAN] :
                \A i \in DOMAIN b.tokens : b.tokens[i] = <<>> => b.styles[i] # "plain"}
        ids == {<<>>, <<"a">>, <<"b">>, <<"a", "/", "b">>, <<"a", ":", "b">>, <<"a", " ", "b">>, <<" ", "a">>}
        named == backends(2, ids, {<<>>, <<"bin">>}, {"'"})
    IN  {<<b>> : b \in backends(1, {<<"pi">>}, token, {"\"", "'", "plain"})
                        \cup backends(2, {<<"pi">>}, token, {"\"", "'", "plain"})}
            \cup {<<b, c>> : b \in named, c \in named}

MCCatalogs ==
    BoundedSeq({<<"m">>, <<"m", "[", "low", "]">>, <<"m", "[", "high", "]">>, <<"m", "[", "]">>,
                <<"[", "low", "]">>, <<"m", "[", "low", "]", "[", "high", "]">>, <<"n", "[", " ", "]">>}, 3)

MCConversations ==
    LET call == [id |-> "1", name |-> "f", arguments |-> <<EmptyObject, "spaced">>]
        message(role, content) == [role |-> role, content |-> content, calls |-> <<>>, result |-> NoID]
        kinds == {message("system", "x"), message("developer", "y"), message("user", "x"),
                  message("user", Blank), message("assistant", "x"), message("user", NoContent),
                  [message("assistant", NoContent) EXCEPT !.calls = <<call>>],
                  [message("assistant", "y") EXCEPT !.calls = <<call, call>>],
                  [message("tool", "x") EXCEPT !.result = "1"]}
    IN  {c \in [messages : BoundedSeq(kinds, 4), known : 0 .. 3, starts : BOOLEAN] :
            /\ c.known <= Len(c.messages)
            /\ IF c.known = 0 THEN c.starts ELSE c.messages[c.known].role = "assistant"}

MCToolsets ==
    LET tool == [name : {"f", "g"}, schema : {NoSchema, <<EmptyObject, "spaced">>, <<"closed", "spaced">>}]
        choice == {Absent, String("auto"), String("none"), String("required"), String("named"),
                   String("no mode"), Function("f"), Function("g"), Function("h"), Other}
        wrong == {<<[name |-> NoName, schema |-> NoSchema]>>, <<[name |-> "f", schema |-> <<NotObject, Canonical>>]>>}
    IN  [tools : BoundedSeq(tool, 2) \cup wrong, choice : {Absent, String("none")}]
            \cup [tools : {<<>>, <<[name |-> "f", schema |-> NoSchema]>>}, choice : choice]
=============================================================================
