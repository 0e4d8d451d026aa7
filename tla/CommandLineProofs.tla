-------------------------- MODULE CommandLineProofs --------------------------
(***************************************************************************)
(* A list of backends is read as the backends it was put together from,    *)
(* for any symbols, commands, quotes and lists: texts are trimmed, cut,    *)
(* divided and scanned by four readers, which are proved about one by one  *)
(* and then together.                                                      *)
(***************************************************************************)
EXTENDS Frontend, DataFacts

-----------------------------------------------------------------------------
(* Command lines: the scanner.                                             *)

\* The symbols of a text, with those that the parser and the writer know.
Sign == Symbol \cup Quotes \cup {Escape, Space, Comma, Semicolon, "=", "id", "binary", "args"}

\* The symbols that the parser and the writer know are among them, and are different.
LEMMA Signs ==
    /\ Quotes \subseteq Sign /\ {Escape, Space, Comma, Semicolon, "=", "id", "binary", "args"} \subseteq Sign
    /\ Symbol \subseteq Sign /\ <<>> \in Seq(Sign)
<1>1. <<>> \in Seq(Sign)
  BY EmptySeq
<1> QED BY <1>1, Zenon DEF Sign

LEMMA SignsDiffer ==
    /\ NoQuote \notin Quotes /\ Escape \notin Quotes /\ Space \notin Quotes
    /\ Escape # Space /\ Space # "=" /\ Comma # "=" /\ Space # Semicolon /\ Comma # Space
BY Zenon DEF NoQuote, Quotes, Escape, Space, Comma, Semicolon

\* Whether there is a token.
Yes == TRUE
No == FALSE
ScanState == [tokens : Seq(Seq(Sign)), current : Seq(Sign), hasToken : BOOLEAN,
              inQuote : Quotes \cup {NoQuote}, escaped : BOOLEAN]

\* The scanner keeps its type.
LEMMA ScannedType == ASSUME NEW s \in ScanState, NEW r \in Sign PROVE Scanned(s, r) \in ScanState
<1>1. /\ s.tokens \in Seq(Seq(Sign)) /\ s.current \in Seq(Sign) /\ s.hasToken \in BOOLEAN
      /\ s.inQuote \in Quotes \cup {NoQuote} /\ s.escaped \in BOOLEAN
  BY DEF ScanState
<1>2. Write(s, r) \in ScanState
  <2>1. Append(s.current, r) \in Seq(Sign)
    BY <1>1
  <2> QED BY <2>1 DEF Write, Scanner, ScanState
<1>3. TokenEnds(s) \in ScanState
  <2>1. Append(s.tokens, s.current) \in Seq(Seq(Sign)) /\ <<>> \in Seq(Sign)
    BY <1>1
  <2> QED BY <2>1 DEF TokenEnds, Scanner, ScanState
<1>4. \A q \in Quotes \cup {NoQuote} : Toggled(s, q) \in ScanState
  BY DEF Toggled, Scanner, ScanState
<1>5. [s EXCEPT !.escaped = TRUE] \in ScanState
  BY DEF ScanState
<1>6. Scanned(s, r) \in {Write(s, r), TokenEnds(s), [s EXCEPT !.escaped = TRUE]}
                           \cup {Toggled(s, q) : q \in Quotes \cup {NoQuote}}
  <2> HIDE DEF Write, TokenEnds, Toggled
  <2> QED BY Zenon DEF Scanned
<1> QED BY <1>2, <1>3, <1>4, <1>5, <1>6

\* The scanner's states after each symbol of a text.
Scan(b, text) == FoldLeft(Scanned, b, text)
Scans(g, b, text) ==
    /\ g[0] = b
    /\ \A n \in 0 .. Len(text) : n < Len(text) => g[n + 1] = Scanned(g[n], text[n + 1])
    /\ g[Len(text)] = Scan(b, text)

\* A text is scanned symbol by symbol.
LEMMA ScansExist ==
    ASSUME NEW b \in ScanState, NEW text \in Seq(Sign)
    PROVE  \E g : Scans(g, b, text)
<1> DEFINE V == ScanState
           N == Len(text)
           step == [i \in 1 .. N |-> [v \in V |-> Scanned(v, text[i])]]
           it == CHOOSE f : f = [s \in SUBSET (DOMAIN text) |->
                    IF s = {} THEN b ELSE Scanned(f[s \ {Max(s)}], text[Max(s)])]
           g == [n \in 0 .. N |-> it[1 .. n]]
<1>1. N \in Nat /\ DOMAIN text = 1 .. N /\ \A i \in 1 .. N : text[i] \in Sign
  OBVIOUS
<1>2. \A i \in 1 .. N, v \in V : step[i][v] = Scanned(v, text[i]) /\ step[i][v] \in V
  <2> HIDE DEF N
  <2> QED BY <1>1, ScannedType
<1>3. PICK f : FoldOf(f, V, b, N, step)
  <2>1. StepsWithin(V, N, step)
    BY <1>2 DEF StepsWithin
  <2> HIDE DEF V, N, step, it, g
  <2>2. b \in V
    BY DEF V
  <2> QED BY <1>1, <2>1, <2>2, FoldExists
<1>4. f = [s \in SUBSET (DOMAIN text) |->
              IF s = {} THEN b ELSE Scanned(f[s \ {Max(s)}], text[Max(s)])]
  <2> HIDE DEF V, N, step
  <2> USE DEF FoldOf
  <2> SUFFICES ASSUME NEW s \in SUBSET (1 .. N)
               PROVE  f[s] = IF s = {} THEN b ELSE Scanned(f[s \ {Max(s)}], text[Max(s)])
    BY <1>1, <1>3
  <2>1. CASE s = {}
    BY <1>3, <2>1
  <2>2. CASE s # {}
    <3>1. Max(s) \in 1 .. N
      BY <1>1, <2>2, MaxExists
    <3>2. f[s \ {Max(s)}] \in V
      BY <1>3
    <3> QED BY <1>2, <1>3, <2>2, <3>1, <3>2
  <2> QED BY <2>1, <2>2
<1>5. it = [s \in SUBSET (DOMAIN text) |->
              IF s = {} THEN b ELSE Scanned(it[s \ {Max(s)}], text[Max(s)])]
  BY <1>4, Zenon
<1>6. Scan(b, text) = it[DOMAIN text]
  BY Zenon DEF Scan, FoldLeft, MapThenFoldSet
<1> HIDE DEF it, N
<1>7. g[0] = b
  <2>1. 1 .. 0 = {} /\ 0 \in 0 .. N /\ {} \in SUBSET (DOMAIN text)
    BY <1>1
  <2>2. it[{}] = b
    BY <1>5, <2>1
  <2> QED BY <2>1, <2>2
<1>8. ASSUME NEW n \in 0 .. N, n < N
      PROVE  g[n + 1] = Scanned(g[n], text[n + 1])
  <2>1. n \in Nat /\ n + 1 \in 0 .. N /\ 1 .. n + 1 \in SUBSET (DOMAIN text)
    BY <1>1, <1>8
  <2>2. it[1 .. n + 1] = Scanned(it[1 .. n], text[n + 1])
    <3>1. /\ 1 .. n + 1 # {} /\ Max(1 .. n + 1) = n + 1
          /\ (1 .. n + 1) \ {n + 1} = 1 .. n
      BY <2>1, FoldPrefix
    <3>2. it[1 .. n + 1] = Scanned(it[(1 .. n + 1) \ {Max(1 .. n + 1)}], text[Max(1 .. n + 1)])
      BY <1>5, <2>1, <3>1
    <3> QED BY <3>1, <3>2
  <2> QED BY <2>1, <2>2
<1>9. g[N] = Scan(b, text)
  BY <1>1, <1>6
<1> HIDE DEF g
<1> QED BY <1>7, <1>8, <1>9 DEF N, Scans

\* No symbol changes nothing, one more takes one more step.
LEMMA ScanAppend ==
    ASSUME NEW b \in ScanState, NEW text \in Seq(Sign), NEW r \in Sign
    PROVE  /\ Scan(b, <<>>) = b
           /\ Scan(b, text) \in ScanState
           /\ Scan(b, Append(text, r)) = Scanned(Scan(b, text), r)
<1> DEFINE N == Len(text)
           more == Append(text, r)
<1>1. /\ N \in Nat /\ more \in Seq(Sign) /\ Len(more) = N + 1 /\ more[N + 1] = r
      /\ \A i \in 1 .. N : more[i] = text[i] /\ text[i] \in Sign
  OBVIOUS
<1> HIDE DEF more
<1>2. PICK f : Scans(f, b, text)
  BY ScansExist
<1>3. PICK g : Scans(g, b, more)
  BY <1>1, ScansExist
<1>4. Scan(b, <<>>) = b
  <2>1. <<>> \in Seq(Sign) /\ Len(<<>>) = 0
    OBVIOUS
  <2>2. PICK h : Scans(h, b, <<>>)
    BY <2>1, ScansExist
  <2> QED BY <2>1, <2>2 DEF Scans
<1> DEFINE T == {n \in 0 .. N : f[n] \in ScanState /\ g[n] = f[n]}
<1>5. 0 \in T
  BY <1>1, <1>2, <1>3 DEF Scans
<1>6. ASSUME NEW n \in 0 .. N, n \in T, n < N PROVE n + 1 \in T
  <2>1. n + 1 \in 0 .. N /\ n + 1 \in 1 .. N /\ n \in 0 .. N + 1 /\ n < N + 1
    BY <1>1, <1>6
  <2> HIDE DEF N
  <2>2. f[n + 1] = Scanned(f[n], text[n + 1]) /\ g[n + 1] = Scanned(g[n], more[n + 1])
    BY <1>1, <1>2, <1>3, <1>6, <2>1 DEF Scans, N
  <2>3. f[n + 1] \in ScanState
    BY <1>1, <1>6, <2>1, <2>2, ScannedType
  <2> QED BY <1>1, <1>6, <2>1, <2>2, <2>3
<1>7. N \in T
  <2> HIDE DEF T
  <2>1. 0 .. N \subseteq T
    BY <1>1, <1>5, <1>6, UpToInduction
  <2> QED BY <1>1, <2>1
<1>8. f[N] = Scan(b, text) /\ g[N + 1] = Scan(b, more) /\ g[N + 1] = Scanned(g[N], r)
  <2>1. N \in 0 .. N + 1 /\ N < N + 1
    BY <1>1
  <2> HIDE DEF N
  <2> QED BY <1>1, <1>2, <1>3, <2>1 DEF Scans, N
<1> QED BY <1>4, <1>7, <1>8 DEF more

\* A text behind another is scanned from the state in which that one leaves the scanner.
LEMMA ScanConcat ==
    ASSUME NEW b \in ScanState, NEW t \in Seq(Sign), NEW u \in Seq(Sign)
    PROVE  Scan(b, t \o u) = Scan(Scan(b, t), u)
<1> DEFINE T == {v \in Seq(Sign) : Scan(b, t \o v) = Scan(Scan(b, t), v)}
<1>1. Scan(b, t) \in ScanState
  BY Signs, ScanAppend
<1>2. <<>> \in T
  <2>1. t \o <<>> = t
    OBVIOUS
  <2> QED BY <1>1, <2>1, Signs, ScanAppend
<1>3. ASSUME NEW v \in Seq(Sign), NEW x \in Sign, v \in T PROVE Append(v, x) \in T
  <2>1. Append(v, x) \in Seq(Sign) /\ t \o v \in Seq(Sign) /\ t \o Append(v, x) = Append(t \o v, x)
    OBVIOUS
  <2>2. Scan(b, Append(t \o v, x)) = Scanned(Scan(b, t \o v), x)
    BY <2>1, ScanAppend
  <2>3. Scan(Scan(b, t), Append(v, x)) = Scanned(Scan(Scan(b, t), v), x)
    BY <1>1, ScanAppend
  <2> QED BY <1>3, <2>1, <2>2, <2>3
<1>4. Seq(Sign) \subseteq T
  <2> HIDE DEF T
  <2> QED BY <1>2, <1>3, SeqSetInduction
<1> QED BY <1>4

\* What a symbol does in and out of quotes, and behind a backslash.
LEMMA ScannedAt ==
    ASSUME NEW ts, NEW c, NEW h, NEW q \in Quotes \cup {NoQuote}, NEW x
    PROVE  /\ x # Escape /\ (IF q \in Quotes THEN x # q ELSE x \notin Quotes \cup {Space}) =>
                Scanned(Scanner(ts, c, h, q), x) = Scanner(ts, Append(c, x), Yes, q)
           /\ Scanned(Scanned(Scanner(ts, c, h, q), Escape), x) = Scanner(ts, Append(c, x), Yes, q)
           /\ q = NoQuote /\ x \in Quotes => Scanned(Scanner(ts, c, h, q), x) = Scanner(ts, c, Yes, x)
           /\ q \in Quotes => Scanned(Scanner(ts, c, h, q), q) = Scanner(ts, c, Yes, NoQuote)
<1> DEFINE s == Scanner(ts, c, h, q)
           e == [s EXCEPT !.escaped = TRUE]
<1>1. s.escaped = FALSE /\ s.inQuote = q /\ s.hasToken = h /\ s.tokens = ts /\ s.current = c
  BY DEF Scanner
<1>2. Write(s, x) = Scanner(ts, Append(c, x), Yes, q)
  BY <1>1 DEF Write, Yes
<1>5. e.escaped = TRUE /\ e.inQuote = q /\ e.tokens = ts /\ e.current = c
  BY DEF Scanner
<1> HIDE DEF e
<1>13. Write(e, x) = Scanner(ts, Append(c, x), Yes, q)
  BY <1>5 DEF Write, Yes
<1>3. \A r : Toggled(s, r) = Scanner(ts, c, Yes, r)
  BY <1>1 DEF Toggled, Yes
<1>6. NoQuote \notin Quotes /\ Escape \notin Quotes /\ Space \notin Quotes /\ Escape # Space
  BY SignsDiffer
<1> HIDE DEF s
<1>7. x # Escape /\ (IF q \in Quotes THEN x # q ELSE x \notin Quotes \cup {Space}) => Scanned(s, x) = Write(s, x)
  <2>1. CASE q \in Quotes
    BY <1>1, <1>6, <2>1 DEF Scanned
  <2>2. CASE q = NoQuote
    BY <1>1, <1>6, <2>2 DEF Scanned
  <2> QED BY <2>1, <2>2
<1>8. Scanned(s, Escape) = e
  BY <1>1, <1>6 DEF Scanned, e
<1>9. Scanned(e, x) = Write(e, x)
  BY <1>5 DEF Scanned
<1>10. q = NoQuote /\ x \in Quotes => Scanned(s, x) = Toggled(s, x)
  BY <1>1, <1>6 DEF Scanned
<1>11. q \in Quotes => Scanned(s, q) = Toggled(s, NoQuote)
  BY <1>1, <1>6 DEF Scanned
<1> QED BY <1>2, <1>3, <1>7, <1>8, <1>9, <1>10, <1>11, <1>13 DEF s

\* A space behind a token ends it.
LEMMA SpaceEnds ==
    ASSUME NEW ts, NEW c
    PROVE  Scanned(Scanner(ts, c, Yes, NoQuote), Space) = Scanner(Append(ts, c), <<>>, No, NoQuote)
<1> DEFINE s == Scanner(ts, c, Yes, NoQuote)
<1>1. s.escaped = FALSE /\ s.inQuote = NoQuote /\ s.hasToken = TRUE /\ s.tokens = ts /\ s.current = c
  BY DEF Scanner, Yes
<1>2. NoQuote \notin Quotes /\ Space \notin Quotes /\ Escape # Space
  BY SignsDiffer
<1> HIDE DEF s
<1>3. Scanned(s, Space) = TokenEnds(s)
  BY <1>1, <1>2 DEF Scanned
<1>4. TokenEnds(s) = Scanner(Append(ts, c), <<>>, No, NoQuote)
  BY <1>1 DEF TokenEnds, No
<1> QED BY <1>3, <1>4 DEF s

LEMMA AtState ==
    ASSUME NEW ts \in Seq(Seq(Sign)), NEW c \in Seq(Sign), NEW h \in {Yes, No}, NEW q \in Quotes \cup {NoQuote}
    PROVE  Scanner(ts, c, h, q) \in ScanState
BY DEF Scanner, ScanState, Yes, No

-----------------------------------------------------------------------------
(* Command lines: the writer.                                              *)

EscapedSign(x, symbols) == IF x \in symbols THEN <<Escape, x>> ELSE <<x>>

\* A symbol more is escaped behind the others.
LEMMA EscapedAppend ==
    ASSUME NEW symbols, NEW token \in Seq(Sign), NEW x \in Sign
    PROVE  /\ Escaped(<<>>, symbols) = <<>>
           /\ Escaped(token, symbols) \in Seq(Sign)
           /\ EscapedSign(x, symbols) \in Seq(Sign)
           /\ Escaped(Append(token, x), symbols) = Escaped(token, symbols) \o EscapedSign(x, symbols)
<1> DEFINE of(t) == [i \in DOMAIN t |-> EscapedSign(t[i], symbols)]
           T == Seq(Sign)
           more == Append(token, x)
<1>1. \A y \in Sign : EscapedSign(y, symbols) \in T
  <2> SUFFICES ASSUME NEW y \in Sign PROVE EscapedSign(y, symbols) \in T
    OBVIOUS
  <2>1. Escape \in Sign
    BY Signs
  <2>2. <<Escape, y>> \in T /\ <<y>> \in T
    BY <2>1
  <2> QED BY <2>2 DEF EscapedSign
<1>2. \A t : Escaped(t, symbols) = FlattenSeq(of(t))
  BY DEF Escaped, EscapedSign
<1>3. Escaped(<<>>, symbols) = <<>>
  <2>1. of(<<>>) = <<>>
    OBVIOUS
  <2> QED BY <1>2, <2>1 DEF FlattenSeq
<1>4. of(token) \in Seq(T)
  <2>1. \A i \in DOMAIN token : token[i] \in Sign
    OBVIOUS
  <2> HIDE DEF T
  <2> QED BY <1>1, <2>1
<1>5. of(more) = Append(of(token), EscapedSign(x, symbols))
  <2> DEFINE y == EscapedSign(x, symbols)
  <2>1. of(more) = [i \in 1 .. Len(token) + 1 |-> IF i = Len(token) + 1 THEN y ELSE EscapedSign(token[i], symbols)]
    OBVIOUS
  <2>2. Append(of(token), y) = [i \in 1 .. Len(token) + 1 |-> IF i = Len(token) + 1 THEN y ELSE EscapedSign(token[i], symbols)]
    <3> HIDE DEF y
    <3> QED OBVIOUS
  <2> QED BY <2>1, <2>2
<1> HIDE DEF of, T
<1>6. /\ FlattenSeq(of(token)) \in Seq(Sign)
      /\ FlattenSeq(Append(of(token), EscapedSign(x, symbols))) = FlattenSeq(of(token)) \o EscapedSign(x, symbols)
  BY <1>1, <1>4, FlattenAppend DEF T
<1> QED BY <1>1, <1>2, <1>3, <1>5, <1>6 DEF T, more

\* Whether there is a token once there is more text.
Grown(h, text) == IF text = <<>> THEN h ELSE Yes

\* What has to be escaped in these quotes, or without quotes.
ToEscape(q) == IF q \in Quotes THEN {q, Escape} ELSE Quotes \cup {Escape, Space}

\* What is escaped is read as it was.
LEMMA EscapedScan ==
    ASSUME NEW ts \in Seq(Seq(Sign)), NEW c \in Seq(Sign), NEW h \in {Yes, No}, NEW q \in Quotes \cup {NoQuote},
           NEW token \in Seq(Sign)
    PROVE  Scan(Scanner(ts, c, h, q), Escaped(token, ToEscape(q)))
             = Scanner(ts, c \o token, Grown(h, token), q)
<1> DEFINE b == Scanner(ts, c, h, q)
           after(t) == Scanner(ts, c \o t, Grown(h, t), q)
           T == {t \in Seq(Sign) : Scan(b, Escaped(t, ToEscape(q))) = after(t)}
<1>1. b \in ScanState
  BY AtState
<1> HIDE DEF b
<1>2. <<>> \in T
  <2>1. c \o <<>> = c
    OBVIOUS
  <2>2. Escaped(<<>>, ToEscape(q)) = <<>> /\ Scan(b, <<>>) = b
    BY <1>1, Signs, EscapedAppend, ScanAppend
  <2> QED BY <2>1, <2>2 DEF b, Grown
<1>3. ASSUME NEW t \in Seq(Sign), NEW x \in Sign, t \in T PROVE Append(t, x) \in T
  <2> DEFINE w == Escaped(t, ToEscape(q))
             g == Grown(h, t)
  <2>1. /\ w \in Seq(Sign) /\ Escaped(Append(t, x), ToEscape(q)) = w \o EscapedSign(x, ToEscape(q))
        /\ Scan(b, w) = Scanner(ts, c \o t, g, q) /\ g \in {Yes, No}
    BY <1>3, EscapedAppend DEF Grown
  <2> HIDE DEF w, g, T
  <2>2. /\ c \o Append(t, x) = Append(c \o t, x) /\ Append(t, x) # <<>> /\ Append(t, x) \in Seq(Sign)
        /\ w \o <<x>> = Append(w, x) /\ Escape \in Sign /\ Append(w, Escape) \in Seq(Sign)
        /\ w \o <<Escape, x>> = Append(Append(w, Escape), x)
    <3>1. Escape \in Sign
      BY Signs
    <3>2. c \o Append(t, x) = Append(c \o t, x) /\ Append(t, x) # <<>> /\ Append(t, x) \in Seq(Sign)
      BY AppendBehind
    <3>3. w \o <<x>> = Append(w, x) /\ Append(w, Escape) \in Seq(Sign)
      BY <2>1, <3>1
    <3>4. w \o <<Escape, x>> = Append(Append(w, Escape), x)
      BY <2>1, <3>1
    <3> QED BY <3>1, <3>2, <3>3, <3>4
  <2>3. Scan(b, w \o EscapedSign(x, ToEscape(q))) = Scanner(ts, Append(c \o t, x), Yes, q)
    <3>1. CASE x \in ToEscape(q)
      <4>1. /\ Scan(b, Append(w, Escape)) = Scanned(Scan(b, w), Escape)
            /\ Scan(b, Append(Append(w, Escape), x)) = Scanned(Scan(b, Append(w, Escape)), x)
        BY <1>1, <2>1, <2>2, ScanAppend
      <4>2. Scanned(Scanned(Scanner(ts, c \o t, g, q), Escape), x) = Scanner(ts, Append(c \o t, x), Yes, q)
        BY <2>1, ScannedAt
      <4> QED BY <2>1, <2>2, <3>1, <4>1, <4>2 DEF EscapedSign
    <3>2. CASE x \notin ToEscape(q)
      <4>1. Scan(b, Append(w, x)) = Scanned(Scan(b, w), x)
        BY <1>1, <2>1, ScanAppend
      <4>2. x # Escape /\ (IF q \in Quotes THEN x # q ELSE x \notin Quotes \cup {Space})
        BY <3>2, SignsDiffer DEF ToEscape
      <4>3. Scanned(Scanner(ts, c \o t, g, q), x) = Scanner(ts, Append(c \o t, x), Yes, q)
        BY <2>1, <4>2, ScannedAt
      <4> QED BY <2>1, <2>2, <3>2, <4>1, <4>3 DEF EscapedSign
    <3> QED BY <3>1, <3>2
  <2> QED BY <2>1, <2>2, <2>3 DEF T, Grown
<1>4. Seq(Sign) \subseteq T
  <2> HIDE DEF T
  <2> QED BY <1>2, <1>3, SeqSetInduction
<1> QED BY <1>4 DEF b

\* What is escaped for the outside of quotes begins with no space.
LEMMA EscapedFirst ==
    ASSUME NEW token \in Seq(Sign), token # <<>>, NEW symbols, Space \in symbols
    PROVE  Escaped(token, symbols) # <<>> /\ Escaped(token, symbols)[1] # Space
<1> DEFINE T == {t \in Seq(Sign) : t # <<>> => Escaped(t, symbols) # <<>> /\ Escaped(t, symbols)[1] # Space}
<1>1. <<>> \in T
  BY Signs
<1>2. ASSUME NEW t \in Seq(Sign), NEW x \in Sign, t \in T PROVE Append(t, x) \in T
  <2> DEFINE w == Escaped(t, symbols)
  <2>1. /\ w \in Seq(Sign) /\ Escaped(Append(t, x), symbols) = w \o EscapedSign(x, symbols)
        /\ EscapedSign(x, symbols) \in Seq(Sign) /\ Append(t, x) \in Seq(Sign)
    BY EscapedAppend
  <2>2. EscapedSign(x, symbols) # <<>> /\ EscapedSign(x, symbols)[1] # Space
    BY SignsDiffer DEF EscapedSign
  <2>3. CASE t = <<>>
    <3>1. w = <<>>
      BY <2>3, EscapedAppend
    <3> HIDE DEF w
    <3>2. w \o EscapedSign(x, symbols) = EscapedSign(x, symbols)
      BY <2>1, <3>1
    <3> QED BY <2>1, <2>2, <3>2
  <2>4. CASE t # <<>>
    <3>1. w # <<>> /\ w[1] # Space
      BY <1>2, <2>4
    <3> HIDE DEF w
    <3>2. w \o EscapedSign(x, symbols) # <<>> /\ (w \o EscapedSign(x, symbols))[1] = w[1]
      BY <2>1, <3>1, EndsOf
    <3> QED BY <2>1, <3>1, <3>2
  <2> QED BY <2>3, <2>4
<1>3. Seq(Sign) \subseteq T
  <2> HIDE DEF T
  <2> QED BY <1>1, <1>2, SeqSetInduction
<1> QED BY <1>3

\* A token is read as it was, however it is written.
LEMMA WrittenScan ==
    ASSUME NEW ts \in Seq(Seq(Sign)), NEW token \in Seq(Sign), NEW style, token = <<>> => style \in Quotes
    PROVE  /\ Written(token, style) \in Seq(Sign)
           /\ Written(token, style) # <<>> /\ Written(token, style)[1] # Space
           /\ Scan(Scanner(ts, <<>>, No, NoQuote), Written(token, style)) = Scanner(ts, token, Yes, NoQuote)
<1> DEFINE b == Scanner(ts, <<>>, No, NoQuote)
<1>1. b \in ScanState /\ <<>> \in Seq(Sign) /\ <<>> \o token = token
  <2>1. <<>> \o token = token
    OBVIOUS
  <2> QED BY <2>1, Signs, AtState
<1> HIDE DEF b
<1>2. CASE style \in Quotes
  <2> DEFINE w == Escaped(token, {style, Escape})
             q == <<style>>
  <2>1. Written(token, style) = (q \o w) \o q
    BY <1>2 DEF Written
  <2>2. style \in Sign /\ q \in Seq(Sign) /\ q = Append(<<>>, style) /\ q # <<>> /\ q[1] = style /\ style # Space
    BY <1>2, Signs, SignsDiffer
  <2>3. w \in Seq(Sign)
    BY <2>2, EscapedAppend
  <2> HIDE DEF w, q
  <2>4. Scan(b, q) = Scanner(ts, <<>>, Yes, style)
    <3>1. Scan(b, q) = Scanned(Scan(b, <<>>), style) /\ Scan(b, <<>>) = b
      BY <1>1, <2>2, ScanAppend
    <3>2. Scanned(b, style) = Scanner(ts, <<>>, Yes, style)
      BY <1>2, ScannedAt DEF b
    <3> QED BY <3>1, <3>2
  <2>5. Scan(b, q \o w) = Scanner(ts, token, Yes, style)
    <3>1. Scan(b, q \o w) = Scan(Scanner(ts, <<>>, Yes, style), w)
      <4>1. q \in Seq(Sign)
        BY <2>2
      <4>2. Scan(b, q \o w) = Scan(Scan(b, q), w)
        BY <1>1, <2>3, <4>1, ScanConcat
      <4> QED BY <2>4, <4>2
    <3>2. Scan(Scanner(ts, <<>>, Yes, style), w) = Scanner(ts, <<>> \o token, Grown(Yes, token), style)
      <4>1. style \in Quotes \cup {NoQuote} /\ Yes \in {Yes, No} /\ w = Escaped(token, ToEscape(style))
        BY <1>2 DEF w, ToEscape
      <4> QED BY <1>1, <4>1, EscapedScan
    <3> QED BY <1>1, <3>1, <3>2 DEF Grown
  <2>6. q \o w \in Seq(Sign) /\ q \o w # <<>> /\ (q \o w)[1] = style
    BY <2>2, <2>3, EndsOf
  <2>7. (q \o w) \o q \in Seq(Sign) /\ (q \o w) \o q # <<>> /\ ((q \o w) \o q)[1] = style
    BY <2>2, <2>6, EndsOf
  <2>8. Scan(b, (q \o w) \o q) = Scanner(ts, token, Yes, NoQuote)
    <3>1. (q \o w) \o q = Append(q \o w, style)
      BY <2>2, <2>6 DEF q
    <3>2. Scan(b, Append(q \o w, style)) = Scanned(Scan(b, q \o w), style)
      BY <1>1, <2>2, <2>6, ScanAppend
    <3>3. Scanned(Scanner(ts, token, Yes, style), style) = Scanner(ts, token, Yes, NoQuote)
      BY <1>2, ScannedAt
    <3> QED BY <2>5, <3>1, <3>2, <3>3
  <2> QED BY <2>1, <2>2, <2>7, <2>8 DEF b
<1>3. CASE style \notin Quotes
  <2> DEFINE w == Escaped(token, ToEscape(NoQuote))
  <2>1. Written(token, style) = w /\ token # <<>>
    BY <1>3, SignsDiffer DEF Written, ToEscape
  <2>2. NoQuote \in Quotes \cup {NoQuote} /\ No \in {Yes, No} /\ Space \in ToEscape(NoQuote)
    BY SignsDiffer DEF ToEscape
  <2>3. Scan(b, w) = Scanner(ts, <<>> \o token, Grown(No, token), NoQuote)
    BY <1>1, <2>2, EscapedScan DEF b
  <2>4. w \in Seq(Sign)
    BY Signs, EscapedAppend
  <2> QED BY <1>1, <2>1, <2>2, <2>3, <2>4, EscapedFirst DEF b, Grown
<1> QED BY <1>2, <1>3

Between(tokens) == IF tokens = <<>> THEN <<>> ELSE <<Space>>
Quotable(tokens, styles) == \A i \in DOMAIN tokens : tokens[i] = <<>> => styles[i] \in Quotes

\* A token more is written behind the others.
LEMMA CommandAppend ==
    ASSUME NEW tokens \in Seq(Seq(Sign)), NEW t \in Seq(Sign), NEW styles, Quotable(Append(tokens, t), styles)
    PROVE  LET style == styles[Len(tokens) + 1]
           IN  /\ CommandOf(<<>>, styles) = <<>>
               /\ Quotable(tokens, styles) /\ (t = <<>> => style \in Quotes)
               /\ CommandOf(tokens, styles) \in Seq(Sign)
               /\ CommandOf(Append(tokens, t), styles)
                    = CommandOf(tokens, styles) \o (Between(tokens) \o Written(t, style))
<1> DEFINE N == Len(tokens)
           T == Seq(Sign)
           more == Append(tokens, t)
           style == styles[N + 1]
           piece(i, x) == (IF i = 1 THEN <<>> ELSE <<Space>>) \o Written(x, styles[i])
           of(s) == [i \in DOMAIN s |-> piece(i, s[i])]
<1>1. /\ N \in Nat /\ DOMAIN tokens = 1 .. N /\ DOMAIN more = 1 .. N + 1 /\ more[N + 1] = t
      /\ \A i \in 1 .. N : more[i] = tokens[i] /\ tokens[i] \in T
  OBVIOUS
<1>2. \A i \in 1 .. N + 1 : more[i] \in T /\ (more[i] = <<>> => styles[i] \in Quotes)
  <2>1. \A i \in 1 .. N + 1 : i \in 1 .. N \/ i = N + 1
    BY <1>1
  <2>2. \A i \in 1 .. N + 1 : more[i] \in T
    <3> HIDE DEF N, more, T
    <3>1. t \in T
      BY DEF T
    <3> QED BY <1>1, <2>1, <3>1
  <2>3. \A i \in 1 .. N + 1 : more[i] = <<>> => styles[i] \in Quotes
    <3>1. \A i \in DOMAIN more : more[i] = <<>> => styles[i] \in Quotes
      BY DEF Quotable
    <3> HIDE DEF N, more
    <3> QED BY <1>1, <3>1
  <2> QED BY <2>2, <2>3
<1>3. Quotable(tokens, styles) /\ (t = <<>> => style \in Quotes)
  <2>1. \A i \in 1 .. N : i \in 1 .. N + 1
    BY <1>1
  <2>2. N + 1 \in 1 .. N + 1
    BY <1>1
  <2> HIDE DEF N, more
  <2> QED BY <1>1, <1>2, <2>1, <2>2 DEF Quotable
<1>4. \A i \in 1 .. N + 1 : piece(i, more[i]) \in T
  <2> SUFFICES ASSUME NEW i \in 1 .. N + 1 PROVE piece(i, more[i]) \in T
    OBVIOUS
  <2> HIDE DEF N, more
  <2>1. Written(more[i], styles[i]) \in Seq(Sign)
    <3>1. <<>> \in Seq(Seq(Sign))
      BY EmptySeq
    <3> QED BY <1>2, <3>1, WrittenScan
  <2>2. <<>> \in Seq(Sign) /\ <<Space>> \in Seq(Sign)
    <3>1. Space \in Sign
      BY Signs
    <3> QED BY <3>1, Signs
  <2> QED BY <2>1, <2>2, ConcatProperties
<1>5. \A s, f : CommandOf(s, styles) = FlattenSeq(of(s))
  BY DEF CommandOf
<1>6. CommandOf(<<>>, styles) = <<>>
  <2>1. of(<<>>) = <<>>
    OBVIOUS
  <2> QED BY <1>5, <2>1 DEF FlattenSeq
<1> HIDE DEF piece
<1>7. of(tokens) \in Seq(T)
  <2>1. of(tokens) = [i \in 1 .. N |-> piece(i, tokens[i])] /\ \A i \in 1 .. N : piece(i, tokens[i]) \in T
    <3>1. \A i \in 1 .. N : i \in 1 .. N + 1
      BY <1>1
    <3> HIDE DEF T
    <3> QED BY <1>1, <1>4, <3>1
  <2> HIDE DEF of, T, N
  <2> QED BY <1>1, <2>1
<1>8. of(more) = Append(of(tokens), piece(N + 1, t))
  <2>1. of(more) = [i \in 1 .. N + 1 |-> IF i = N + 1 THEN piece(N + 1, t) ELSE piece(i, tokens[i])]
    BY <1>1
  <2>2. Append(of(tokens), piece(N + 1, t))
          = [i \in 1 .. N + 1 |-> IF i = N + 1 THEN piece(N + 1, t) ELSE piece(i, tokens[i])]
    OBVIOUS
  <2> QED BY <2>1, <2>2
<1>9. piece(N + 1, t) = Between(tokens) \o Written(t, style)
  <2>1. N + 1 = 1 <=> tokens = <<>>
    OBVIOUS
  <2> QED BY <2>1 DEF piece, Between
<1>10. piece(N + 1, t) \in T
  <2>1. N + 1 \in 1 .. N + 1
    BY <1>1
  <2> QED BY <1>1, <1>4, <2>1
<1> HIDE DEF of, T
<1>11. /\ FlattenSeq(of(tokens)) \in Seq(Sign)
       /\ FlattenSeq(Append(of(tokens), piece(N + 1, t))) = FlattenSeq(of(tokens)) \o piece(N + 1, t)
  BY <1>7, <1>10, FlattenAppend DEF T
<1> QED BY <1>3, <1>5, <1>6, <1>8, <1>9, <1>11 DEF more, style, N

\* The scanner is at the last of the tokens that it has read.
LastRead(s, tokens) ==
    \E front \in Seq(Seq(Sign)), token \in Seq(Sign) :
        tokens = Append(front, token) /\ s = Scanner(front, token, Yes, NoQuote)
LEMMA CommandScan ==
    ASSUME NEW tokens \in Seq(Seq(Sign)), NEW styles, Quotable(tokens, styles)
    PROVE  /\ CommandOf(tokens, styles) \in Seq(Sign)
           /\ IF tokens = <<>> THEN CommandOf(tokens, styles) = <<>>
              ELSE /\ CommandOf(tokens, styles) # <<>> /\ CommandOf(tokens, styles)[1] # Space
                   /\ LastRead(Scan(Unscanned, CommandOf(tokens, styles)), tokens)
<1> DEFINE S == Seq(Sign)
           Good(ts) == /\ CommandOf(ts, styles) \in Seq(Sign)
                       /\ IF ts = <<>> THEN CommandOf(ts, styles) = <<>>
                          ELSE /\ CommandOf(ts, styles) # <<>> /\ CommandOf(ts, styles)[1] # Space
                               /\ LastRead(Scan(Unscanned, CommandOf(ts, styles)), ts)
           T == {ts \in Seq(S) : Quotable(ts, styles) => Good(ts)}
<1>1. <<>> \in T
  <2>1. CommandOf(<<>>, styles) = <<>>
    <3>1. [i \in DOMAIN <<>> |->
              (IF i = 1 THEN <<>> ELSE <<Space>>) \o Written(<<>>[i], styles[i])] = <<>>
      OBVIOUS
    <3> QED BY <3>1 DEF CommandOf, FlattenSeq
  <2>2. <<>> \in Seq(S)
    BY EmptySeq
  <2> QED BY <2>1, <2>2, Signs
<1>2. Unscanned \in ScanState /\ Unscanned = Scanner(<<>>, <<>>, No, NoQuote)
  <2>1. <<>> \in Seq(Seq(Sign)) /\ <<>> \in Seq(Sign)
    BY EmptySeq
  <2>2. Unscanned = Scanner(<<>>, <<>>, No, NoQuote)
    BY DEF Unscanned, No
  <2> QED BY <2>1, <2>2, AtState
<1>3. ASSUME NEW ts \in Seq(S), NEW t \in S, ts \in T, Quotable(Append(ts, t), styles)
      PROVE  Good(Append(ts, t))
  <2> DEFINE cmd == CommandOf(ts, styles)
             style == styles[Len(ts) + 1]
             w == Written(t, style)
             more == CommandOf(Append(ts, t), styles)
  <2>1. /\ Quotable(ts, styles) /\ (t = <<>> => style \in Quotes) /\ cmd \in Seq(Sign)
        /\ more = cmd \o (Between(ts) \o w)
    BY <1>3, CommandAppend
  <2>2. Good(ts)
    BY <1>3, <2>1
  <2> HIDE DEF T
  <2>3. /\ w \in Seq(Sign) /\ w # <<>> /\ w[1] # Space
        /\ \A f \in Seq(Seq(Sign)) : Scan(Scanner(f, <<>>, No, NoQuote), w) = Scanner(f, t, Yes, NoQuote)
    BY <2>1, WrittenScan
  <2>6. Append(ts, t) # <<>> /\ LastRead(Scanner(ts, t, Yes, NoQuote), Append(ts, t))
    <3>1. ts \in Seq(Seq(Sign)) /\ t \in Seq(Sign)
      OBVIOUS
    <3>2. Append(ts, t) # <<>>
      <4>1. ts \in Seq(S) /\ t \in S
        OBVIOUS
      <4> HIDE DEF S
      <4> QED BY ONLY <4>1, AppendProperties
    <3>3. LastRead(Scanner(ts, t, Yes, NoQuote), Append(ts, t))
      BY ONLY <3>1, Zenon DEF LastRead
    <3> QED BY <3>2, <3>3
  <2>4. CASE ts = <<>>
    <3>1. cmd = <<>> /\ Between(ts) = <<>>
      BY <2>2, <2>4 DEF Between
    <3> HIDE DEF w, cmd, more
    <3>2. more = w
      BY <2>1, <2>3, <3>1
    <3>3. Scan(Unscanned, more) = Scanner(ts, t, Yes, NoQuote)
      BY <1>2, <2>3, <2>4, <3>2
    <3> QED BY <2>3, <2>6, <3>2, <3>3 DEF more
  <2>5. CASE ts # <<>>
    <3>1. cmd # <<>> /\ cmd[1] # Space /\ Between(ts) = <<Space>>
      BY <2>2, <2>5 DEF Between
    <3>2. PICK front \in Seq(Seq(Sign)), token \in Seq(Sign) :
              ts = Append(front, token) /\ Scan(Unscanned, cmd) = Scanner(front, token, Yes, NoQuote)
      BY <2>2, <2>5 DEF LastRead
    <3> HIDE DEF w, cmd, more
    <3>3. more = Append(cmd, Space) \o w /\ Append(cmd, Space) \in Seq(Sign)
      <4>1. Space \in Sign
        BY Signs
      <4>2. cmd \o (<<Space>> \o w) = Append(cmd, Space) \o w /\ Append(cmd, Space) \in Seq(Sign)
        <5>1. cmd \in Seq(Sign) /\ w \in Seq(Sign)
          BY <2>1, <2>3
        <5> QED BY <4>1, <5>1, ThenMore
      <4> QED BY <2>1, <3>1, <4>2
    <3>4. Scan(Unscanned, Append(cmd, Space)) = Scanner(ts, <<>>, No, NoQuote)
      <4>1. Scan(Unscanned, Append(cmd, Space)) = Scanned(Scan(Unscanned, cmd), Space)
        BY <1>2, <2>1, Signs, ScanAppend
      <4> QED BY <3>2, <4>1, SpaceEnds
    <3>5. Scan(Unscanned, more) = Scanner(ts, t, Yes, NoQuote)
      <4>1. Scan(Unscanned, Append(cmd, Space) \o w) = Scan(Scan(Unscanned, Append(cmd, Space)), w)
        BY <1>2, <2>3, <3>3, ScanConcat
      <4>2. ts \in Seq(Seq(Sign))
        OBVIOUS
      <4> QED BY <2>3, <3>3, <3>4, <4>1, <4>2
    <3>6. more \in Seq(Sign) /\ more # <<>> /\ more[1] = cmd[1]
      <4>1. Append(cmd, Space) # <<>> /\ Append(cmd, Space)[1] = cmd[1]
        BY <2>1, <3>1, Signs, ThenMore
      <4> QED BY <2>3, <3>3, <4>1, EndsOf
    <3> QED BY <2>6, <3>1, <3>5, <3>6 DEF more
  <2> QED BY <2>4, <2>5
<1>4. ASSUME NEW ts \in Seq(S), NEW t \in S, ts \in T PROVE Append(ts, t) \in T
  <2>1. Append(ts, t) \in Seq(S)
    BY AppendBehind
  <2> HIDE DEF Good, S
  <2> QED BY <1>3, <1>4, <2>1
<1>5. Seq(S) \subseteq T
  <2> HIDE DEF T, S
  <2> QED BY <1>1, <1>4, SeqSetInduction
<1> QED BY <1>5

\* A command line is split into the tokens it was put together from, whatever symbols they are
\* made of and however each of them is quoted (acp_backend.go:182-236).
THEOREM CommandsSplit ==
    ASSUME NEW tokens \in Seq(Seq(Sign)), NEW styles, Quotable(tokens, styles)
    PROVE  LET split == SplitCommandLine(CommandOf(tokens, styles))
           IN  split.ok /\ split.tokens = tokens
<1> DEFINE cmd == CommandOf(tokens, styles)
           end == FoldLeft(Scanned, Unscanned, cmd)
           split == SplitCommandLine(cmd)
<1>1. end = Scan(Unscanned, cmd)
  BY DEF Scan
<1>2. split.tokens = TokenEnds(end).tokens /\ (~end.escaped /\ end.inQuote = NoQuote => split.ok)
  <2> HIDE DEF cmd
  <2>1. split = [ok |-> ~end.escaped /\ end.inQuote = NoQuote, tokens |-> TokenEnds(end).tokens]
    BY DEF SplitCommandLine
  <2> HIDE DEF end, split
  <2> QED BY <2>1
<1> HIDE DEF cmd, end, split
<1>3. CASE tokens = <<>>
  <2>1. cmd = <<>>
    BY <1>3, CommandScan DEF cmd
  <2>2. Unscanned \in ScanState
    <3>1. <<>> \in Seq(Seq(Sign)) /\ <<>> \in Seq(Sign) /\ Unscanned = Scanner(<<>>, <<>>, No, NoQuote)
      BY EmptySeq DEF Unscanned, No
    <3> QED BY <3>1, AtState
  <2>3. end = Unscanned
    BY <1>1, <2>1, <2>2, Signs, ScanAppend
  <2>4. ~Unscanned.escaped /\ Unscanned.inQuote = NoQuote /\ TokenEnds(Unscanned) = Unscanned /\ Unscanned.tokens = <<>>
    BY DEF Unscanned, Scanner, TokenEnds
  <2> QED BY <1>2, <1>3, <2>3, <2>4 DEF split, cmd
<1>4. CASE tokens # <<>>
  <2>1. LastRead(end, tokens)
    BY <1>1, <1>4, CommandScan DEF cmd
  <2>2. PICK front \in Seq(Seq(Sign)), token \in Seq(Sign) :
            tokens = Append(front, token) /\ end = Scanner(front, token, Yes, NoQuote)
    BY <2>1 DEF LastRead
  <2>3. ~end.escaped /\ end.inQuote = NoQuote /\ end.hasToken = TRUE /\ end.tokens = front /\ end.current = token
    BY <2>2 DEF Scanner, Yes
  <2>4. TokenEnds(end) = Scanner(tokens, <<>>, FALSE, NoQuote)
    BY <2>2, <2>3 DEF TokenEnds
  <2>5. TokenEnds(end).tokens = tokens
    BY <2>4 DEF Scanner
  <2> QED BY <1>2, <2>3, <2>5 DEF split, cmd
<1> QED BY <1>3, <1>4

-----------------------------------------------------------------------------
(* Trimmed texts.                                                          *)

Blanks(S) == {s \in Seq(S) : \A i \in 1 .. Len(s) : s[i] = Space}
Inked(s) == s # <<>> => s[1] # Space /\ s[Len(s)] # Space

\* What stands between blanks is what a trimmed text is.
LEMMA TrimOf ==
    ASSUME NEW S, NEW a \in Blanks(S), NEW m \in Seq(S), NEW c \in Blanks(S), Inked(m)
    PROVE  Trim(a \o (m \o c)) = m
<1> DEFINE s == a \o (m \o c)
           A == Len(a)
           M == Len(m)
           C == Len(c)
           ink == {i \in DOMAIN s : s[i] # Space}
<1>1. a \in Seq(S) /\ c \in Seq(S) /\ A \in Nat /\ M \in Nat /\ C \in Nat
  BY DEF Blanks
<1>2. /\ s \in Seq(S) /\ Len(s) = A + M + C
      /\ \A i \in 1 .. A : s[i] = Space
      /\ \A i \in 1 .. M : s[A + i] = m[i]
      /\ \A i \in 1 .. C : s[A + M + i] = Space
  BY <1>1, ThreeTogether DEF Blanks
<1>3. Trim(s) = IF ink = {} THEN <<>> ELSE SubSeq(s, Min(ink), Max(ink))
  BY DEF Trim
<1> HIDE DEF s, A, M, C
<1>4. ASSUME NEW i \in ink PROVE i \in A + 1 .. A + M
  <2>1. i \in 1 .. A + M + C /\ s[i] # Space
    BY <1>2
  <2>2. i \notin 1 .. A
    BY <1>2, <2>1
  <2>3. ~(i > A + M)
    <3> SUFFICES ASSUME i > A + M PROVE FALSE
      OBVIOUS
    <3>1. i - (A + M) \in 1 .. C /\ A + M + (i - (A + M)) = i
      BY <1>1, <2>1
    <3> QED BY <1>2, <2>1, <3>1
  <2> QED BY <1>1, <2>1, <2>2, <2>3
<1>5. CASE m = <<>>
  <2>1. M = 0
    BY <1>5 DEF M
  <2>2. ink = {}
    <3>1. A + 1 .. A + M = {}
      BY <1>1, <2>1
    <3> HIDE DEF ink
    <3> QED BY <1>4, <3>1
  <2> HIDE DEF ink
  <2> QED BY <1>3, <1>5, <2>2 DEF s
<1>6. CASE m # <<>>
  <2>1. M # 0 /\ m[1] # Space /\ m[M] # Space
    BY <1>6 DEF M, Inked
  <2>2. A + 1 \in ink /\ A + M \in ink
    <3>1. 1 \in 1 .. M /\ M \in 1 .. M /\ A + 1 \in 1 .. Len(s) /\ A + M \in 1 .. Len(s)
      BY <1>1, <1>2, <2>1
    <3>2. s[A + 1] = m[1] /\ s[A + M] = m[M]
      BY <1>2, <3>1
    <3> QED BY <1>2, <2>1, <3>1, <3>2
  <2>3. ink \in SUBSET Nat
    BY <1>2
  <2>4. \A i \in ink : A + 1 <= i /\ A + M >= i
    <3> HIDE DEF ink
    <3> QED BY <1>1, <1>4
  <2> HIDE DEF ink
  <2>5. Min(ink) = A + 1 /\ Max(ink) = A + M
    BY <2>2, <2>3, <2>4, MinIs, MaxIs
  <2> DEFINE t == SubSeq(s, A + 1, A + M)
  <2>6. t \in Seq(S) /\ Len(t) = M /\ \A i \in 1 .. M : t[i] = s[A + i]
    <3>1. \A i \in A + 1 .. A + M : s[i] \in S
      BY <1>1, <1>2
    <3>2. A + 1 \in Int /\ A + M \in Int /\ (A + M) - (A + 1) + 1 = M /\ A + 1 <= (A + M) + 1
      BY <1>1
    <3>3. /\ t \in Seq(S) /\ Len(t) = M
          /\ \A i \in 1 .. M : t[i] = s[A + 1 + i - 1]
      BY <1>1, <3>1, <3>2, SubSeqProperties
    <3>4. \A i \in 1 .. M : A + 1 + i - 1 = A + i
      BY <1>1
    <3> HIDE DEF t
    <3> QED BY <3>3, <3>4
  <2> HIDE DEF t
  <2>7. \A i \in 1 .. Len(t) : t[i] = m[i]
    BY <1>2, <2>6
  <2>8. t = m
    BY <2>6, <2>7, SeqEqual DEF M
  <2> QED BY <1>3, <2>2, <2>5, <2>8 DEF t, s
<1> QED BY <1>5, <1>6

\* A text is what is trimmed with blanks around it.
LEMMA TrimParts ==
    ASSUME NEW S, NEW s \in Seq(S)
    PROVE  /\ Trim(s) \in Seq(S) /\ Inked(Trim(s))
           /\ \E a \in Blanks(S), c \in Blanks(S) :
                /\ s = a \o (Trim(s) \o c)
                /\ Trim(s) = <<>> => c = <<>>
<1> DEFINE N == Len(s)
           ink == {i \in DOMAIN s : s[i] # Space}
<1>1. N \in Nat /\ DOMAIN s = 1 .. N /\ ink \in SUBSET (1 .. N) /\ \A i \in 1 .. N : s[i] \in S
  OBVIOUS
<1>2. Trim(s) = IF ink = {} THEN <<>> ELSE SubSeq(s, Min(ink), Max(ink))
  BY DEF Trim
<1>3. CASE ink = {}
  <2>1. s \in Blanks(S)
    BY <1>3 DEF Blanks
  <2>2. <<>> \in Blanks(S) /\ s = s \o (<<>> \o <<>>) /\ <<>> \in Seq(S)
    BY DEF Blanks
  <2> QED BY <1>2, <1>3, <2>1, <2>2 DEF Inked
<1>4. CASE ink # {}
  <2> DEFINE p == Min(ink)
             q == Max(ink)
             a == SubSeq(s, 1, p - 1)
             m == SubSeq(s, p, q)
             c == SubSeq(s, q + 1, N)
  <2>1. p \in ink /\ q \in ink /\ \A i \in ink : p <= i /\ i <= q
    <3>1. ink \in SUBSET Nat
      OBVIOUS
    <3> HIDE DEF ink
    <3> QED BY <1>1, <1>4, <3>1, MinExists, MaxExists
  <2> HIDE DEF p, q
  <2>2. p \in 1 .. N /\ q \in p .. N /\ s[p] # Space /\ s[q] # Space
    BY <2>1
  <2>3. \A i \in 1 .. N : i < p \/ i > q => s[i] = Space
    <3> SUFFICES ASSUME NEW i \in 1 .. N, i < p \/ i > q, s[i] # Space PROVE FALSE
      OBVIOUS
    <3>1. i \in ink
      OBVIOUS
    <3>2. p <= i /\ i <= q
      BY <2>1, <3>1
    <3> QED BY <2>2, <3>2
  <2>4. a \in Blanks(S)
    <3>1. a \in Seq(S) /\ Len(a) = p - 1 /\ \A i \in 1 .. p - 1 : a[i] = s[i]
      BY <1>1, <2>2
    <3>2. \A i \in 1 .. p - 1 : i \in 1 .. N /\ i < p
      BY <1>1, <2>2
    <3> HIDE DEF a
    <3> QED BY <2>3, <3>1, <3>2 DEF Blanks
  <2>5. c \in Blanks(S)
    <3>1. c \in Seq(S) /\ Len(c) = N - q /\ \A i \in 1 .. N - q : c[i] = s[q + i]
      <4>1. \A i \in q + 1 .. N : s[i] \in S
        BY <1>1, <2>2
      <4>2. q + 1 \in Int /\ N \in Int /\ N - (q + 1) + 1 = N - q /\ q + 1 <= N + 1
        BY <1>1, <2>2
      <4>3. c \in Seq(S) /\ Len(c) = N - q /\ \A i \in 1 .. N - q : c[i] = s[q + 1 + i - 1]
        BY <1>1, <4>1, <4>2, SubSeqProperties
      <4>4. \A i \in 1 .. N - q : q + 1 + i - 1 = q + i
        BY <1>1, <2>2
      <4> HIDE DEF c
      <4> QED BY <4>3, <4>4
    <3>2. \A i \in 1 .. N - q : q + i \in 1 .. N /\ q + i > q
      BY <1>1, <2>2
    <3> HIDE DEF c
    <3> QED BY <2>3, <3>1, <3>2 DEF Blanks
  <2>6. m \in Seq(S) /\ Len(m) = q - p + 1 /\ m # <<>> /\ m[1] = s[p] /\ m[Len(m)] = s[q]
    <3>1. m \in Seq(S) /\ Len(m) = q - p + 1 /\ \A i \in 1 .. q - p + 1 : m[i] = s[p + i - 1]
      BY <1>1, <2>2
    <3>2. 1 \in 1 .. q - p + 1 /\ q - p + 1 \in 1 .. q - p + 1 /\ p + 1 - 1 = p /\ p + (q - p + 1) - 1 = q
      BY <1>1, <2>2
    <3> HIDE DEF m
    <3> QED BY <3>1, <3>2
  <2>7. s = a \o (m \o c)
    <3>1. m \o c = SubSeq(s, p, N)
      <4>1. p \in 1 .. N + 1 /\ q \in p - 1 .. N /\ N \in q .. N
        BY <1>1, <2>2
      <4> QED BY <4>1, ConcatAdjacentSubSeq
    <3>2. a \o SubSeq(s, (p - 1) + 1, N) = SubSeq(s, 1, N)
      <4>1. 1 \in 1 .. N + 1 /\ p - 1 \in 1 - 1 .. N /\ N \in p - 1 .. N
        BY <1>1, <2>2
      <4> QED BY <4>1, ConcatAdjacentSubSeq
    <3>3. (p - 1) + 1 = p /\ SubSeq(s, 1, N) = s
      BY <1>1, <2>2, SubSeqFull
    <3> HIDE DEF a, m, c
    <3> QED BY <3>1, <3>2, <3>3
  <2>8. Trim(s) = m
    BY <1>2, <1>4 DEF p, q
  <2> HIDE DEF a, m, c
  <2> QED BY <2>2, <2>4, <2>5, <2>6, <2>7, <2>8 DEF Inked
<1> QED BY <1>3, <1>4

\* What is trimmed already stays.
LEMMA TrimInked ==
    ASSUME NEW S, NEW m \in Seq(S), Inked(m)
    PROVE  Trim(m) = m
<1>1. <<>> \in Blanks(S) /\ <<>> \o (m \o <<>>) = m
  <2>1. m \o <<>> = m /\ <<>> \o m = m
    OBVIOUS
  <2>2. <<>> \in Blanks(S)
    BY DEF Blanks
  <2> QED BY <2>1, <2>2
<1> QED BY <1>1, TrimOf

\* Where blanks stand before a text, they stand before what is trimmed.
LEMMA BlanksTogether ==
    ASSUME NEW S, NEW a \in Blanks(S), NEW b \in Blanks(S)
    PROVE  a \o b \in Blanks(S)
<1>1. a \in Seq(S) /\ b \in Seq(S)
  BY DEF Blanks
<1> DEFINE s == a \o b
<1>2. /\ s \in Seq(S) /\ Len(s) = Len(a) + Len(b)
      /\ \A i \in 1 .. Len(a) + Len(b) : s[i] = IF i <= Len(a) THEN a[i] ELSE b[i - Len(a)]
  BY <1>1, ConcatProperties, Zenon
<1> HIDE DEF s
<1>3. ASSUME NEW i \in 1 .. Len(s) PROVE s[i] = Space
  <2>1. CASE i <= Len(a)
    <3>1. i \in 1 .. Len(a) /\ i \in 1 .. Len(a) + Len(b)
      BY <1>1, <1>2, <2>1
    <3>2. a[i] = Space
      BY <3>1 DEF Blanks
    <3> QED BY <1>2, <2>1, <3>1, <3>2
  <2>2. CASE ~(i <= Len(a))
    <3>1. i - Len(a) \in 1 .. Len(b) /\ i \in 1 .. Len(a) + Len(b)
      BY <1>1, <1>2, <2>2
    <3>2. b[i - Len(a)] = Space
      BY <3>1 DEF Blanks
    <3> QED BY <1>2, <2>2, <3>1, <3>2
  <2> QED BY <2>1, <2>2
<1> QED BY <1>2, <1>3 DEF Blanks, s

\* A space before a text is trimmed.
LEMMA TrimSpace ==
    ASSUME NEW S, Space \in S, NEW s \in Seq(S)
    PROVE  Trim(<<Space>> \o s) = Trim(s)
<1> DEFINE b == <<Space>>
           m == Trim(s)
<1>1. b \in Blanks(S)
  BY DEF Blanks
<1>2. PICK a \in Blanks(S), c \in Blanks(S) : s = a \o (m \o c) /\ (m = <<>> => c = <<>>)
  BY TrimParts
<1>3. m \in Seq(S) /\ Inked(m)
  BY TrimParts
<1> HIDE DEF b, m
<1>4. b \o s = (b \o a) \o (m \o c) /\ b \o a \in Blanks(S)
  <2>1. b \in Seq(S) /\ a \in Seq(S) /\ m \o c \in Seq(S)
    BY <1>1, <1>3 DEF Blanks
  <2>2. b \o (a \o (m \o c)) = (b \o a) \o (m \o c)
    <3> DEFINE t == m \o c
    <3> HIDE DEF t
    <3>1. b \o (a \o t) = (b \o a) \o t
      <4>1. b \in Seq(S) /\ a \in Seq(S) /\ t \in Seq(S)
        BY <2>1 DEF t
      <4> QED BY ONLY <4>1, SMTT(30)
    <3> QED BY <3>1 DEF t
  <2> QED BY <1>1, <1>2, <2>2, BlanksTogether
<1>5. Trim(b \o s) = m
  BY <1>3, <1>4, TrimOf
<1> QED BY <1>5 DEF b, m

\* Two texts together begin with the first and end with the last symbol of one of them.
LEMMA InkedTogether ==
    ASSUME NEW S, NEW s \in Seq(S), NEW t \in Seq(S), s # <<>>, s[1] # Space, t # <<>> => t[Len(t)] # Space,
           t = <<>> => s[Len(s)] # Space
    PROVE  Inked(s \o t) /\ s \o t # <<>>
<1> DEFINE u == s \o t
<1>1. /\ u # <<>> /\ u[1] = s[1] /\ (t # <<>> => u[Len(u)] = t[Len(t)]) /\ (t = <<>> => u = s)
  BY EndsOf
<1> HIDE DEF u
<1>2. CASE t = <<>>
  BY <1>1, <1>2 DEF Inked, u
<1>3. CASE t # <<>>
  BY <1>1, <1>3 DEF Inked, u
<1> QED BY <1>2, <1>3

\* A text behind symbols that are no blanks is trimmed at its end only.
LEMMA TrimBehind ==
    ASSUME NEW S, NEW k \in Seq(S), k # <<>>, Inked(k), NEW v \in Seq(S)
    PROVE  \E w \in Seq(S) : Trim(k \o v) = k \o w /\ Trim(w) = Trim(v)
<1> DEFINE m == Trim(v)
<1>1. PICK a \in Blanks(S), c \in Blanks(S) : v = a \o (m \o c) /\ (m = <<>> => c = <<>>)
  BY TrimParts
<1>2. m \in Seq(S) /\ Inked(m) /\ a \in Seq(S) /\ c \in Seq(S) /\ <<>> \in Blanks(S) /\ <<>> \in Seq(S)
  <2>1. m \in Seq(S) /\ Inked(m)
    BY TrimParts
  <2> HIDE DEF m
  <2> QED BY <2>1 DEF Blanks
<1> HIDE DEF m
<1>3. k[1] # Space /\ k[Len(k)] # Space
  BY DEF Inked
<1>4. CASE m = <<>>
  <2>1. v = a
    BY <1>1, <1>2, <1>4, EndsOf
  <2>2. <<>> \o (k \o v) = k \o v
    BY EndsOf
  <2>3. Trim(<<>> \o (k \o v)) = k
    BY <1>2, <2>1, TrimOf
  <2>4. k \o <<>> = k /\ Trim(<<>>) = <<>>
    <3>1. Inked(<<>>)
      BY DEF Inked
    <3> QED BY <1>2, <3>1, TrimInked, EndsOf
  <2> QED BY <1>2, <1>4, <2>2, <2>3, <2>4 DEF m
<1>5. CASE m # <<>>
  <2> DEFINE w == a \o m
  <2>1. w \in Seq(S) /\ w # <<>> /\ w[Len(w)] = m[Len(m)] /\ m[Len(m)] # Space
    BY <1>2, <1>5, EndsOf DEF Inked
  <2>2. v = w \o c /\ m \o <<>> = m
    <3>1. a \in Seq(S) /\ m \in Seq(S) /\ c \in Seq(S)
      BY <1>2
    <3>2. a \o (m \o c) = w \o c /\ m \o <<>> = m
      BY ONLY <3>1, SMTT(30) DEF w
    <3> QED BY <1>1, <3>2
  <2>3. Trim(w) = m
    <3>1. Trim(a \o (m \o <<>>)) = m
      BY <1>2, TrimOf
    <3> QED BY <2>2, <3>1
  <2> HIDE DEF w
  <2>4. k \o v = <<>> \o ((k \o w) \o c)
    <3>1. k \o v = (k \o w) \o c /\ (k \o w) \o c \in Seq(S)
      <4>1. k \in Seq(S) /\ w \in Seq(S) /\ c \in Seq(S)
        BY <1>2, <2>1
      <4>2. k \o (w \o c) = (k \o w) \o c /\ (k \o w) \o c \in Seq(S)
        BY ONLY <4>1, SMTT(30)
      <4> QED BY <2>2, <4>2
    <3>2. <<>> \o ((k \o w) \o c) = (k \o w) \o c
      BY <3>1, ConcatEmptySeq
    <3> QED BY <3>1, <3>2
  <2>5. Inked(k \o w) /\ k \o w \in Seq(S)
    BY <1>3, <2>1, InkedTogether, EndsOf
  <2>6. Trim(<<>> \o ((k \o w) \o c)) = k \o w
    BY <1>2, <2>5, TrimOf
  <2> QED BY <2>1, <2>3, <2>4, <2>6 DEF m
<1> QED BY <1>4, <1>5

\* A text before symbols that are no blanks is trimmed at its beginning only.
TrimmedBefore(v, k, d, w) == v = d \o w /\ Trim(v \o k) = w \o k /\ Trim(w) = Trim(v)
LEMMA TrimBefore ==
    ASSUME NEW S, NEW k \in Seq(S), k # <<>>, Inked(k), NEW v \in Seq(S)
    PROVE  \E w \in Seq(S), d \in Seq(S) : TrimmedBefore(v, k, d, w)
<1> SUFFICES \E w \in Seq(S), d \in Seq(S) : v = d \o w /\ Trim(v \o k) = w \o k /\ Trim(w) = Trim(v)
  BY DEF TrimmedBefore
<1> DEFINE m == Trim(v)
<1>1. PICK a \in Blanks(S), c \in Blanks(S) : v = a \o (m \o c) /\ (m = <<>> => c = <<>>)
  BY TrimParts
<1>2. m \in Seq(S) /\ Inked(m) /\ a \in Seq(S) /\ c \in Seq(S) /\ <<>> \in Blanks(S) /\ <<>> \in Seq(S)
  <2>1. m \in Seq(S) /\ Inked(m)
    BY TrimParts
  <2> HIDE DEF m
  <2> QED BY <2>1 DEF Blanks
<1> HIDE DEF m
<1>3. k[1] # Space /\ k[Len(k)] # Space
  BY DEF Inked
<1>4. CASE m = <<>>
  <2>1. v = a /\ v = v \o <<>>
    BY <1>1, <1>2, <1>4, EndsOf
  <2>2. k \o <<>> = k /\ <<>> \o k = k
    BY <1>2, EndsOf
  <2>3. Trim(a \o (k \o <<>>)) = k
    BY <1>2, TrimOf
  <2>4. Trim(<<>>) = <<>>
    <3>1. Inked(<<>>)
      BY DEF Inked
    <3> QED BY <1>2, <3>1, TrimInked
  <2> QED BY <1>2, <1>4, <2>1, <2>2, <2>3, <2>4 DEF m
<1>5. CASE m # <<>>
  <2> DEFINE w == m \o c
  <2>1. w \in Seq(S) /\ w # <<>> /\ w[1] = m[1] /\ m[1] # Space
    BY <1>2, <1>5, EndsOf DEF Inked
  <2>2. Trim(w) = m
    <3>1. Trim(<<>> \o (m \o c)) = m
      BY <1>2, TrimOf
    <3>2. <<>> \o (m \o c) = w
      BY <1>2, <2>1, EndsOf
    <3> QED BY <3>1, <3>2
  <2>3. v = a \o w
    BY <1>1
  <2> HIDE DEF w
  <2>4. v \o k = a \o ((w \o k) \o <<>>)
    <3>1. v \o k = a \o (w \o k) /\ w \o k \in Seq(S)
      <4>1. a \in Seq(S) /\ w \in Seq(S) /\ k \in Seq(S)
        BY <1>2, <2>1
      <4>2. a \o (w \o k) = (a \o w) \o k /\ w \o k \in Seq(S)
        BY ONLY <4>1, SMTT(30)
      <4> QED BY <2>3, <4>2
    <3>2. (w \o k) \o <<>> = w \o k
      BY <1>2, <3>1, EndsOf
    <3> QED BY <3>1, <3>2
  <2>5. Inked(w \o k) /\ w \o k \in Seq(S)
    BY <1>3, <2>1, InkedTogether, EndsOf
  <2>6. Trim(a \o ((w \o k) \o <<>>)) = w \o k
    BY <1>2, <2>5, TrimOf
  <2> QED BY <1>2, <2>1, <2>2, <2>3, <2>4, <2>6 DEF m
<1> QED BY <1>4, <1>5

-----------------------------------------------------------------------------
(* Cut texts.                                                              *)

\* A text is cut at a symbol into what stands before and what stands after it.
CutInto(s, x, a, c) == Has(s, {x}) /\ Before(s, x) = a /\ After(s, x) = c

\* A text is cut at the first such symbol.
LEMMA CutFirst ==
    ASSUME NEW S, NEW a \in Seq(S), NEW x \in S, NEW c \in Seq(S), ~Has(a, {x})
    PROVE  CutInto(a \o (<<x>> \o c), x, a, c)
<1> DEFINE b == <<x>>
           s == a \o (b \o c)
           A == Len(a)
           C == Len(c)
           at == {i \in 1 .. Len(s) : s[i] = x}
           k == SelectInSeq(s, LAMBDA y : y = x)
<1>1. b \in Seq(S) /\ Len(b) = 1 /\ b[1] = x /\ A \in Nat /\ C \in Nat
  OBVIOUS
<1>2. k = IF at # {} THEN Min(at) ELSE 0
  BY Zenon DEF SelectInSeq
<1>3. Before(s, x) = SubSeq(s, 1, k - 1) /\ After(s, x) = SubSeq(s, k + 1, Len(s))
  BY Zenon DEF Before, After
<1> HIDE DEF b, k
<1>4. /\ s \in Seq(S) /\ Len(s) = A + 1 + C
      /\ \A i \in 1 .. A : s[i] = a[i]
      /\ s[A + 1] = x
      /\ \A i \in 1 .. C : s[A + 1 + i] = c[i]
  <2>1. /\ s \in Seq(S) /\ Len(s) = A + Len(b) + C
        /\ \A i \in 1 .. A : s[i] = a[i]
        /\ \A i \in 1 .. Len(b) : s[A + i] = b[i]
        /\ \A i \in 1 .. C : s[A + Len(b) + i] = c[i]
    <3>1. a \in Seq(S) /\ b \in Seq(S) /\ c \in Seq(S)
      BY <1>1
    <3> QED BY <3>1, ThreeTogether
  <2>2. 1 \in 1 .. 1
    OBVIOUS
  <2> HIDE DEF s, A, C
  <2> QED BY <1>1, <2>1, <2>2
<1> HIDE DEF s
<1>5. \A i \in 1 .. A : a[i] # x
  BY DEF Has
<1>6. A + 1 \in at /\ at \in SUBSET Nat /\ \A i \in at : A + 1 <= i
  <2> HIDE DEF A, C
  <2>1. A + 1 \in at
    <3>1. A + 1 \in 1 .. Len(s)
      BY <1>1, <1>4
    <3> QED BY <1>4, <3>1
  <2>2. at \in SUBSET Nat
    OBVIOUS
  <2>3. ASSUME NEW i \in at PROVE A + 1 <= i
    <3>1. i \in 1 .. A + 1 + C /\ s[i] = x
      BY <1>4
    <3>2. i \notin 1 .. A
      BY <1>4, <1>5, <3>1
    <3> QED BY <1>1, <3>1, <3>2
  <2> QED BY <2>1, <2>2, <2>3
<1>7. k = A + 1
  <2> HIDE DEF at, A
  <2>1. Min(at) = A + 1
    BY <1>6, MinIs
  <2> QED BY <1>2, <1>6, <2>1
<1> HIDE DEF A, C, at
<1>8. \A i \in 1 .. A + 1 + C : s[i] \in S
  BY <1>1, <1>4
<1>9. SubSeq(s, 1, A) = a
  <2> DEFINE t == SubSeq(s, 1, A)
  <2>1. t \in Seq(S) /\ Len(t) = A /\ \A i \in 1 .. A : t[i] = s[i]
    <3>1. \A i \in 1 .. A : s[i] \in S
      BY <1>1, <1>8
    <3>2. 1 \in Int /\ A \in Int /\ A - 1 + 1 = A /\ (1 <= A \/ A = 0)
      BY <1>1
    <3>3. t \in Seq(S) /\ Len(t) = (IF 1 <= A THEN A - 1 + 1 ELSE 0) /\ \A i \in 1 .. A - 1 + 1 : t[i] = s[1 + i - 1]
      BY <3>1, <3>2, SubSeqProperties
    <3>4. \A i \in 1 .. A : 1 + i - 1 = i
      BY <1>1
    <3> HIDE DEF t
    <3> QED BY <3>2, <3>3, <3>4
  <2> HIDE DEF t
  <2>2. \A i \in 1 .. Len(t) : t[i] = a[i]
    BY <1>4, <2>1
  <2>3. t = a
    BY <2>1, <2>2, SeqEqual DEF A
  <2> QED BY <2>3 DEF t
<1>10. SubSeq(s, A + 2, Len(s)) = c
  <2> DEFINE t == SubSeq(s, A + 2, A + 1 + C)
  <2>1. t \in Seq(S) /\ Len(t) = C /\ \A i \in 1 .. C : t[i] = s[A + 1 + i]
    <3>1. \A i \in A + 2 .. A + 1 + C : s[i] \in S
      BY <1>1, <1>8
    <3>2. A + 2 \in Int /\ A + 1 + C \in Int /\ (A + 1 + C) - (A + 2) + 1 = C /\ (A + 2 <= A + 1 + C \/ C = 0)
      BY <1>1
    <3>3. /\ t \in Seq(S) /\ Len(t) = (IF A + 2 <= A + 1 + C THEN (A + 1 + C) - (A + 2) + 1 ELSE 0)
          /\ \A i \in 1 .. (A + 1 + C) - (A + 2) + 1 : t[i] = s[A + 2 + i - 1]
      BY <3>1, <3>2, SubSeqProperties
    <3>4. \A i \in 1 .. C : A + 2 + i - 1 = A + 1 + i
      BY <1>1
    <3> HIDE DEF t
    <3> QED BY <3>2, <3>3, <3>4
  <2> HIDE DEF t
  <2>2. \A i \in 1 .. Len(t) : t[i] = c[i]
    BY <1>4, <2>1
  <2>3. t = c
    BY <2>1, <2>2, SeqEqual DEF C
  <2> QED BY <1>4, <2>3 DEF t
<1>11. Has(s, {x})
  <2>1. A + 1 \in DOMAIN s
    BY <1>1, <1>4
  <2> QED BY <1>4, <2>1 DEF Has
<1>12. k - 1 = A /\ k + 1 = A + 2
  BY <1>1, <1>7
<1> QED BY <1>3, <1>9, <1>10, <1>11, <1>12 DEF s, b, CutInto

\* Which symbols two texts have together.
LEMMA HasTogether ==
    ASSUME NEW S, NEW s \in Seq(S), NEW t \in Seq(S), NEW symbols
    PROVE  Has(s \o t, symbols) <=> Has(s, symbols) \/ Has(t, symbols)
<1> DEFINE u == s \o t
<1>1. /\ u \in Seq(S) /\ Len(u) = Len(s) + Len(t)
      /\ \A i \in 1 .. Len(s) + Len(t) : u[i] = IF i <= Len(s) THEN s[i] ELSE t[i - Len(s)]
  BY ConcatProperties, Zenon
<1> HIDE DEF u
<1>2. ASSUME Has(s, symbols) PROVE Has(u, symbols)
  <2>1. PICK i \in 1 .. Len(s) : s[i] \in symbols
    BY <1>2 DEF Has
  <2>2. i \in 1 .. Len(u) /\ u[i] = s[i]
    BY <1>1
  <2> QED BY <1>1, <2>1, <2>2 DEF Has
<1>3. ASSUME Has(t, symbols) PROVE Has(u, symbols)
  <2>1. PICK i \in 1 .. Len(t) : t[i] \in symbols
    BY <1>3 DEF Has
  <2>2. Len(s) + i \in 1 .. Len(u) /\ u[Len(s) + i] = t[i]
    <3>1. Len(s) + i \in 1 .. Len(s) + Len(t) /\ ~(Len(s) + i <= Len(s)) /\ Len(s) + i - Len(s) = i
      OBVIOUS
    <3> QED BY <1>1, <3>1
  <2>3. DOMAIN u = 1 .. Len(u)
    BY <1>1
  <2>4. u[Len(s) + i] \in symbols
    BY <2>1, <2>2
  <2> QED BY <2>2, <2>3, <2>4 DEF Has
<1>4. ASSUME Has(u, symbols) PROVE Has(s, symbols) \/ Has(t, symbols)
  <2>1. PICK i \in 1 .. Len(s) + Len(t) : u[i] \in symbols
    BY <1>1, <1>4 DEF Has
  <2>2. CASE i <= Len(s)
    <3>1. i \in 1 .. Len(s) /\ u[i] = s[i]
      BY <1>1, <2>2
    <3> QED BY <2>1, <3>1 DEF Has
  <2>3. CASE ~(i <= Len(s))
    <3>1. i - Len(s) \in 1 .. Len(t) /\ u[i] = t[i - Len(s)]
      BY <1>1, <2>3
    <3> QED BY <2>1, <3>1 DEF Has
  <2> QED BY <2>2, <2>3
<1> QED BY <1>2, <1>3, <1>4 DEF u

-----------------------------------------------------------------------------
(* Divided texts.                                                          *)

PartState == [parts : Seq(Seq(Sign)), rest : Seq(Sign)]
PartsAt(parts, rest) == [parts |-> parts, rest |-> rest]

\* Parts are texts.
LEMMA TrimmedType == ASSUME NEW s \in Seq(Sign) PROVE Trimmed(s) \in Seq(Seq(Sign))
<1> DEFINE T == Seq(Sign)
           m == Trim(s)
<1>1. m \in T
  BY TrimParts
<1> HIDE DEF T, m
<1>2. <<m>> \in Seq(T) /\ <<>> \in Seq(T)
  BY <1>1, EmptySeq
<1> QED BY <1>2 DEF Trimmed, T, m

LEMMA DividedType ==
    ASSUME NEW s \in PartState, NEW r \in Sign, NEW separators
    PROVE  Divided(s, r, separators) \in PartState
<1>1. s.parts \in Seq(Seq(Sign)) /\ s.rest \in Seq(Sign)
  BY DEF PartState
<1>2. PartsAt(s.parts \o Trimmed(s.rest), <<>>) \in PartState
  <2>1. s.parts \o Trimmed(s.rest) \in Seq(Seq(Sign))
    BY <1>1, TrimmedType, ConcatProperties
  <2> QED BY <2>1, Signs DEF PartsAt, PartState
<1>3. PartsAt(s.parts, Append(s.rest, r)) \in PartState
  <2>1. Append(s.rest, r) \in Seq(Sign)
    BY <1>1, AppendProperties
  <2> QED BY <1>1, <2>1 DEF PartsAt, PartState
<1>4. Divided(s, r, separators) \in {PartsAt(s.parts \o Trimmed(s.rest), <<>>), PartsAt(s.parts, Append(s.rest, r))}
  BY Zenon DEF Divided, PartsAt
<1> QED BY <1>2, <1>3, <1>4

\* The states after each symbol of a text.
Divide(b, text, separators) == FoldLeft(LAMBDA s, r : Divided(s, r, separators), b, text)
Divides(g, b, text, separators) ==
    /\ g[0] = b
    /\ \A n \in 0 .. Len(text) : n < Len(text) => g[n + 1] = Divided(g[n], text[n + 1], separators)
    /\ g[Len(text)] = Divide(b, text, separators)

\* A text is divided symbol by symbol.
LEMMA DividesExist ==
    ASSUME NEW b \in PartState, NEW text \in Seq(Sign), NEW separators
    PROVE  \E g : Divides(g, b, text, separators)
<1> DEFINE V == PartState
           N == Len(text)
           D(s, r) == Divided(s, r, separators)
           step == [i \in 1 .. N |-> [v \in V |-> D(v, text[i])]]
           it == CHOOSE f : f = [s \in SUBSET (DOMAIN text) |->
                    IF s = {} THEN b ELSE Divided(f[s \ {Max(s)}], text[Max(s)], separators)]
           g == [n \in 0 .. N |-> it[1 .. n]]
<1>1. N \in Nat /\ DOMAIN text = 1 .. N /\ \A i \in 1 .. N : text[i] \in Sign
  OBVIOUS
<1>2. \A i \in 1 .. N, v \in V : step[i][v] = D(v, text[i]) /\ step[i][v] \in V
  <2> HIDE DEF N
  <2> QED BY <1>1, DividedType
<1>3. PICK f : FoldOf(f, V, b, N, step)
  <2>1. StepsWithin(V, N, step)
    BY <1>2 DEF StepsWithin
  <2> HIDE DEF V, N, step, it, g
  <2>2. b \in V
    BY DEF V
  <2> QED BY <1>1, <2>1, <2>2, FoldExists
<1>4. f = [s \in SUBSET (DOMAIN text) |->
              IF s = {} THEN b ELSE D(f[s \ {Max(s)}], text[Max(s)])]
  <2> HIDE DEF V, N, step, D
  <2> USE DEF FoldOf
  <2> SUFFICES ASSUME NEW s \in SUBSET (1 .. N)
               PROVE  f[s] = IF s = {} THEN b ELSE D(f[s \ {Max(s)}], text[Max(s)])
    BY <1>1, <1>3
  <2>1. CASE s = {}
    BY <1>3, <2>1
  <2>2. CASE s # {}
    <3>1. Max(s) \in 1 .. N
      BY <1>1, <2>2, MaxExists
    <3>2. f[s \ {Max(s)}] \in V
      BY <1>3
    <3> QED BY <1>2, <1>3, <2>2, <3>1, <3>2
  <2> QED BY <2>1, <2>2
<1>5. it = [s \in SUBSET (DOMAIN text) |->
              IF s = {} THEN b ELSE D(it[s \ {Max(s)}], text[Max(s)])]
  BY <1>4, Zenon
<1>6. Divide(b, text, separators) = it[DOMAIN text]
  BY Zenon DEF Divide, FoldLeft, MapThenFoldSet
<1> HIDE DEF it, N
<1>7. g[0] = b
  <2>1. 1 .. 0 = {} /\ 0 \in 0 .. N /\ {} \in SUBSET (DOMAIN text)
    BY <1>1
  <2>2. it[{}] = b
    BY <1>5, <2>1
  <2> QED BY <2>1, <2>2
<1>8. ASSUME NEW n \in 0 .. N, n < N
      PROVE  g[n + 1] = D(g[n], text[n + 1])
  <2>1. n \in Nat /\ n + 1 \in 0 .. N /\ 1 .. n + 1 \in SUBSET (DOMAIN text)
    BY <1>1, <1>8
  <2>2. it[1 .. n + 1] = D(it[1 .. n], text[n + 1])
    <3>1. /\ 1 .. n + 1 # {} /\ Max(1 .. n + 1) = n + 1
          /\ (1 .. n + 1) \ {n + 1} = 1 .. n
      BY <2>1, FoldPrefix
    <3> HIDE DEF D
    <3>2. it[1 .. n + 1] = D(it[(1 .. n + 1) \ {Max(1 .. n + 1)}], text[Max(1 .. n + 1)])
      BY <1>5, <2>1, <3>1
    <3> QED BY <3>1, <3>2
  <2> QED BY <2>1, <2>2
<1>9. g[N] = Divide(b, text, separators)
  BY <1>1, <1>6
<1> HIDE DEF g
<1> QED BY <1>7, <1>8, <1>9 DEF N, Divides

\* No symbol changes nothing, one more takes one more step.
LEMMA DivideAppend ==
    ASSUME NEW b \in PartState, NEW text \in Seq(Sign), NEW r \in Sign, NEW separators
    PROVE  /\ Divide(b, <<>>, separators) = b
           /\ Divide(b, text, separators) \in PartState
           /\ Divide(b, Append(text, r), separators) = Divided(Divide(b, text, separators), r, separators)
<1> DEFINE N == Len(text)
           more == Append(text, r)
<1>1. /\ N \in Nat /\ more \in Seq(Sign) /\ Len(more) = N + 1 /\ more[N + 1] = r
      /\ \A i \in 1 .. N : more[i] = text[i] /\ text[i] \in Sign
  OBVIOUS
<1> HIDE DEF more
<1>2. PICK f : Divides(f, b, text, separators)
  BY DividesExist
<1>3. PICK g : Divides(g, b, more, separators)
  BY <1>1, DividesExist
<1>4. Divide(b, <<>>, separators) = b
  <2>1. <<>> \in Seq(Sign) /\ Len(<<>>) = 0
    OBVIOUS
  <2>2. PICK h : Divides(h, b, <<>>, separators)
    BY <2>1, DividesExist
  <2> QED BY <2>1, <2>2 DEF Divides
<1> DEFINE T == {n \in 0 .. N : f[n] \in PartState /\ g[n] = f[n]}
<1>5. 0 \in T
  BY <1>1, <1>2, <1>3 DEF Divides
<1>6. ASSUME NEW n \in 0 .. N, n \in T, n < N PROVE n + 1 \in T
  <2>1. n + 1 \in 0 .. N /\ n + 1 \in 1 .. N /\ n \in 0 .. N + 1 /\ n < N + 1
    BY <1>1, <1>6
  <2> HIDE DEF N
  <2>2. /\ f[n + 1] = Divided(f[n], text[n + 1], separators)
        /\ g[n + 1] = Divided(g[n], more[n + 1], separators)
    BY <1>1, <1>2, <1>3, <1>6, <2>1 DEF Divides, N
  <2>3. f[n + 1] \in PartState
    BY <1>1, <1>6, <2>1, <2>2, DividedType
  <2> QED BY <1>1, <1>6, <2>1, <2>2, <2>3
<1>7. N \in T
  <2> HIDE DEF T
  <2>1. 0 .. N \subseteq T
    BY <1>1, <1>5, <1>6, UpToInduction
  <2> QED BY <1>1, <2>1
<1>8. /\ f[N] = Divide(b, text, separators) /\ g[N + 1] = Divide(b, more, separators)
      /\ g[N + 1] = Divided(g[N], r, separators)
  <2>1. N \in 0 .. N + 1 /\ N < N + 1
    BY <1>1
  <2> HIDE DEF N
  <2> QED BY <1>1, <1>2, <1>3, <2>1 DEF Divides, N
<1> QED BY <1>4, <1>7, <1>8 DEF more

\* A text behind another is divided from the state in which that one leaves it.
LEMMA DivideConcat ==
    ASSUME NEW b \in PartState, NEW t \in Seq(Sign), NEW u \in Seq(Sign), NEW separators
    PROVE  Divide(b, t \o u, separators) = Divide(Divide(b, t, separators), u, separators)
<1> DEFINE T == {v \in Seq(Sign) : Divide(b, t \o v, separators) = Divide(Divide(b, t, separators), v, separators)}
<1>1. Divide(b, t, separators) \in PartState
  BY Signs, DivideAppend
<1>2. <<>> \in T
  <2>1. t \o <<>> = t
    OBVIOUS
  <2> QED BY <1>1, <2>1, Signs, DivideAppend
<1>3. ASSUME NEW v \in Seq(Sign), NEW x \in Sign, v \in T PROVE Append(v, x) \in T
  <2>1. Append(v, x) \in Seq(Sign) /\ t \o v \in Seq(Sign) /\ t \o Append(v, x) = Append(t \o v, x)
    OBVIOUS
  <2>2. Divide(b, Append(t \o v, x), separators) = Divided(Divide(b, t \o v, separators), x, separators)
    <3> DEFINE w == t \o v
    <3>1. w \in Seq(Sign)
      BY <2>1
    <3> HIDE DEF w
    <3>2. Divide(b, Append(w, x), separators) = Divided(Divide(b, w, separators), x, separators)
      BY <3>1, DivideAppend
    <3> QED BY <3>2 DEF w
  <2>3. Divide(Divide(b, t, separators), Append(v, x), separators)
          = Divided(Divide(Divide(b, t, separators), v, separators), x, separators)
    BY <1>1, DivideAppend
  <2> QED BY <1>3, <2>1, <2>2, <2>3
<1>4. Seq(Sign) \subseteq T
  <2> HIDE DEF T
  <2> QED BY <1>2, <1>3, SeqSetInduction
<1> QED BY <1>4

\* A text without a separator is a part, or the beginning of one.
LEMMA DivideText ==
    ASSUME NEW parts \in Seq(Seq(Sign)), NEW rest \in Seq(Sign), NEW text \in Seq(Sign), NEW separators,
           ~Has(text, separators)
    PROVE  Divide(PartsAt(parts, rest), text, separators) = PartsAt(parts, rest \o text)
<1> DEFINE b == PartsAt(parts, rest)
           T == {t \in Seq(Sign) : ~Has(t, separators) =>
                    Divide(b, t, separators) = PartsAt(parts, rest \o t)}
<1>1. b \in PartState
  BY DEF PartState, PartsAt
<1> HIDE DEF b
<1>2. <<>> \in T
  <2>1. rest \o <<>> = rest
    OBVIOUS
  <2>2. Divide(b, <<>>, separators) = b
    BY <1>1, Signs, DivideAppend
  <2> QED BY <2>1, <2>2, Signs DEF b
<1>3. ASSUME NEW t \in Seq(Sign), NEW x \in Sign, t \in T PROVE Append(t, x) \in T
  <2>1. Append(t, x) \in Seq(Sign) /\ rest \o Append(t, x) = Append(rest \o t, x)
    BY AppendBehind
  <2>2. ASSUME ~Has(Append(t, x), separators)
        PROVE  ~Has(t, separators) /\ x \notin separators
    <3>1. /\ Len(Append(t, x)) = Len(t) + 1 /\ Append(t, x)[Len(t) + 1] = x
          /\ \A i \in 1 .. Len(t) : Append(t, x)[i] = t[i]
      OBVIOUS
    <3>2. DOMAIN Append(t, x) = 1 .. Len(t) + 1 /\ DOMAIN t = 1 .. Len(t)
      OBVIOUS
    <3>3. Len(t) + 1 \in 1 .. Len(t) + 1 /\ \A i \in 1 .. Len(t) : i \in 1 .. Len(t) + 1
      OBVIOUS
    <3> QED BY <2>2, <3>1, <3>2, <3>3 DEF Has
  <2>3. Divide(b, Append(t, x), separators) = Divided(Divide(b, t, separators), x, separators)
    BY <1>1, DivideAppend
  <2>4. x \notin separators => Divided(PartsAt(parts, rest \o t), x, separators) = PartsAt(parts, Append(rest \o t, x))
    BY DEF Divided, PartsAt
  <2> QED BY <1>3, <2>1, <2>2, <2>3, <2>4
<1>4. Seq(Sign) \subseteq T
  <2> HIDE DEF T
  <2> QED BY <1>2, <1>3, SeqSetInduction
<1> QED BY <1>4 DEF b

\* A separator ends it.
LEMMA DividePart ==
    ASSUME NEW parts \in Seq(Seq(Sign)), NEW rest \in Seq(Sign), NEW text \in Seq(Sign), NEW separators,
           ~Has(text, separators), NEW r \in Sign, r \in separators
    PROVE  /\ Divide(PartsAt(parts, rest), Append(text, r), separators) = PartsAt(parts \o Trimmed(rest \o text), <<>>)
           /\ PartsAt(parts, rest) \in PartState
<1>1. PartsAt(parts, rest) \in PartState
  BY DEF PartState, PartsAt
<1>2. Divide(PartsAt(parts, rest), Append(text, r), separators)
        = Divided(PartsAt(parts, rest \o text), r, separators)
  BY <1>1, DivideAppend, DivideText
<1>3. Divided(PartsAt(parts, rest \o text), r, separators) = PartsAt(parts \o Trimmed(rest \o text), <<>>)
  BY DEF Divided, PartsAt
<1> QED BY <1>1, <1>2, <1>3

\* What a division gives.
LEMMA PartsRead ==
    ASSUME NEW text, NEW separators, NEW parts, NEW rest,
           Divide(PartsAt(<<>>, <<>>), text, separators) = PartsAt(parts, rest)
    PROVE  Parts(text, separators) = parts \o Trimmed(rest)
<1>1. PartsSoFar(text, separators) = Divide(PartsAt(<<>>, <<>>), text, separators)
  BY Zenon DEF PartsSoFar, Divide, PartsAt
<1>2. Parts(text, separators) = PartsAt(parts, rest).parts \o Trimmed(PartsAt(parts, rest).rest)
  BY <1>1, Zenon DEF Parts
<1>3. PartsAt(parts, rest).parts = parts /\ PartsAt(parts, rest).rest = rest
  BY DEF PartsAt
<1> QED BY <1>2, <1>3

\* A part where one begins.
LEMMA DivideNext ==
    ASSUME NEW parts \in Seq(Seq(Sign)), NEW text \in Seq(Sign), NEW separators, ~Has(text, separators),
           NEW r \in Sign, r \in separators
    PROVE  /\ PartsAt(parts, <<>>) \in PartState
           /\ Divide(PartsAt(parts, <<>>), Append(text, r), separators) = PartsAt(parts \o Trimmed(text), <<>>)
           /\ Divide(PartsAt(parts, <<>>), text, separators) = PartsAt(parts, text)
<1> DEFINE o == <<>>
<1>1. o \in Seq(Sign) /\ o \o text = text
  BY Signs, ConcatEmptySeq
<1> HIDE DEF o
<1>2. /\ Divide(PartsAt(parts, o), Append(text, r), separators) = PartsAt(parts \o Trimmed(o \o text), <<>>)
      /\ PartsAt(parts, o) \in PartState
  BY <1>1, DividePart
<1>3. Divide(PartsAt(parts, o), text, separators) = PartsAt(parts, o \o text)
  BY <1>1, DivideText
<1> QED BY <1>1, <1>2, <1>3 DEF o

\* The parts of a text with two separators.
Separated(a, m, c, r) == Append(a, r) \o (Append(m, r) \o c)
LEMMA ThreeParts ==
    ASSUME NEW a \in Seq(Sign), NEW m \in Seq(Sign), NEW c \in Seq(Sign), NEW separators,
           ~Has(a, separators), ~Has(m, separators), ~Has(c, separators), NEW r \in Sign, r \in separators
    PROVE  Parts(Separated(a, m, c, r), separators) = Together(Trimmed(a), Trimmed(m), Trimmed(c))
<1> DEFINE none == <<>>
           b == PartsAt(none, <<>>)
           p == Trimmed(a)
           q == p \o Trimmed(m)
<1>1. none \in Seq(Seq(Sign)) /\ p \in Seq(Seq(Sign)) /\ q \in Seq(Seq(Sign)) /\ none \o p = p
  <2>1. none \in Seq(Seq(Sign))
    BY EmptySeq
  <2>2. p \in Seq(Seq(Sign)) /\ Trimmed(m) \in Seq(Seq(Sign))
    BY TrimmedType
  <2> HIDE DEF p
  <2>3. q \in Seq(Seq(Sign)) /\ <<>> \o p = p
    <3> DEFINE S == Seq(Sign)
               n == Trimmed(m)
    <3>1. p \in Seq(S) /\ n \in Seq(S)
      BY <2>2
    <3> HIDE DEF S, n
    <3>2. p \o n \in Seq(S) /\ <<>> \o p = p
      BY ONLY <3>1, ConcatProperties, ConcatEmptySeq
    <3> QED BY <3>2 DEF S, n
  <2> QED BY <2>1, <2>2, <2>3
<1> HIDE DEF none, p, q
<1>2. Divide(b, Append(a, r), separators) = PartsAt(p, <<>>) /\ b \in PartState
  <2>0. none \in Seq(Seq(Sign))
    BY <1>1
  <2>1. Divide(b, Append(a, r), separators) = PartsAt(none \o p, <<>>) /\ b \in PartState
    BY <2>0, DivideNext, Zenon DEF p
  <2> QED BY <1>1, <2>1
<1>3. Divide(PartsAt(p, <<>>), Append(m, r), separators) = PartsAt(q, <<>>) /\ PartsAt(p, <<>>) \in PartState
  BY <1>1, DivideNext DEF q
<1>4. Divide(PartsAt(q, <<>>), c, separators) = PartsAt(q, c)
  BY <1>1, DivideNext
<1> HIDE DEF b
<1> DEFINE t == Append(a, r)
           u == Append(m, r)
           v == u \o c
<1>5. t \in Seq(Sign) /\ u \in Seq(Sign) /\ v \in Seq(Sign)
  <2>1. t \in Seq(Sign) /\ u \in Seq(Sign)
    BY AppendProperties
  <2> HIDE DEF t, u
  <2> QED BY <2>1, ConcatProperties
<1>6. Divide(b, t \o v, separators) = PartsAt(q, c)
  <2> HIDE DEF t, u, v
  <2>1. Divide(b, t \o v, separators) = Divide(Divide(b, t, separators), v, separators)
    BY <1>2, <1>5, DivideConcat
  <2>2. Divide(PartsAt(p, <<>>), u \o c, separators) = Divide(Divide(PartsAt(p, <<>>), u, separators), c, separators)
    BY <1>3, <1>5, DivideConcat
  <2> QED BY <1>2, <1>3, <1>4, <2>1, <2>2 DEF t, u, v
<1> DEFINE w == t \o v
<1> HIDE DEF w
<1>7. Divide(PartsAt(<<>>, <<>>), w, separators) = PartsAt(q, c)
  BY <1>6 DEF w, b, none
<1>8. Parts(w, separators) = q \o Trimmed(c)
  BY <1>7, PartsRead
<1> QED BY <1>8 DEF w, q, p, Separated, Together

-----------------------------------------------------------------------------
(* The list of specifications.                                             *)

Listed(text) == text \o <<Semicolon, Space>>
ListText(texts) == FlattenSeq([i \in DOMAIN texts |-> Listed(texts[i])])
Trims(texts) == [i \in DOMAIN texts |-> Trim(texts[i])]

\* A specification more stands behind the others.
LEMMA ListAppend ==
    ASSUME NEW texts \in Seq(Seq(Sign)), NEW t \in Seq(Sign)
    PROVE  /\ ListText(<<>>) = <<>>
           /\ ListText(texts) \in Seq(Sign) /\ Listed(t) \in Seq(Sign)
           /\ ListText(Append(texts, t)) = ListText(texts) \o Listed(t)
           /\ Listed(t) = Append(Append(t, Semicolon), Space)
           /\ Trims(texts) \in Seq(Seq(Sign))
           /\ Trims(Append(texts, t)) = Append(Trims(texts), Trim(t))
<1> DEFINE T == Seq(Sign)
           of(ts) == [i \in DOMAIN ts |-> Listed(ts[i])]
<1>1. \A s \in T : Listed(s) \in T /\ Listed(s) = Append(Append(s, Semicolon), Space)
  <2> SUFFICES ASSUME NEW s \in Seq(Sign)
               PROVE  Listed(s) \in Seq(Sign) /\ Listed(s) = Append(Append(s, Semicolon), Space)
    BY DEF T
  <2>1. Semicolon \in Sign /\ Space \in Sign
    BY Signs
  <2> QED BY <2>1 DEF Listed
<1>2. \A s \in T : Trim(s) \in T
  BY TrimParts
<1>3. ListText(<<>>) = <<>>
  <2>1. of(<<>>) = <<>>
    OBVIOUS
  <2> QED BY <2>1 DEF ListText, FlattenSeq
<1>4. of(texts) \in Seq(T) /\ Trims(texts) \in Seq(T)
  <2>1. \A i \in DOMAIN texts : texts[i] \in T
    OBVIOUS
  <2>2. of(texts) \in Seq(T)
    <3> HIDE DEF T
    <3> QED BY <1>1, <2>1
  <2>3. Trims(texts) = [i \in 1 .. Len(texts) |-> Trim(texts[i])] /\ \A i \in 1 .. Len(texts) : Trim(texts[i]) \in T
    <3>1. DOMAIN texts = 1 .. Len(texts)
      OBVIOUS
    <3> HIDE DEF T
    <3> QED BY <1>2, <2>1, <3>1 DEF Trims
  <2>4. Trims(texts) \in Seq(T)
    <3>1. Len(texts) \in Nat
      OBVIOUS
    <3> HIDE DEF T
    <3> QED BY <2>3, <3>1
  <2> QED BY <2>2, <2>4
<1>5. of(Append(texts, t)) = Append(of(texts), Listed(t))
  <2> DEFINE y == Listed(t)
  <2>1. of(Append(texts, t)) = [i \in 1 .. Len(texts) + 1 |-> IF i = Len(texts) + 1 THEN y ELSE Listed(texts[i])]
    OBVIOUS
  <2>2. Append(of(texts), y) = [i \in 1 .. Len(texts) + 1 |-> IF i = Len(texts) + 1 THEN y ELSE Listed(texts[i])]
    <3> HIDE DEF y
    <3> QED OBVIOUS
  <2> QED BY <2>1, <2>2
<1>6. Trims(Append(texts, t)) = Append(Trims(texts), Trim(t))
  <2> DEFINE y == Trim(t)
  <2>1. Trims(Append(texts, t)) = [i \in 1 .. Len(texts) + 1 |-> IF i = Len(texts) + 1 THEN y ELSE Trim(texts[i])]
    BY DEF Trims
  <2>2. Append(Trims(texts), y) = [i \in 1 .. Len(texts) + 1 |-> IF i = Len(texts) + 1 THEN y ELSE Trim(texts[i])]
    <3> HIDE DEF y
    <3> QED BY DEF Trims
  <2> QED BY <2>1, <2>2
<1> HIDE DEF of
<1>7. /\ FlattenSeq(of(texts)) \in Seq(Sign)
      /\ FlattenSeq(Append(of(texts), Listed(t))) = FlattenSeq(of(texts)) \o Listed(t)
  <2>1. Listed(t) \in Seq(Sign)
    BY <1>1
  <2> QED BY <1>4, <2>1, FlattenAppend DEF T
<1>8. \A ts : ListText(ts) = FlattenSeq(of(ts))
  BY DEF ListText, of
<1> QED BY <1>1, <1>3, <1>4, <1>5, <1>6, <1>7, <1>8

\* Each specification is a part of the list.
LEMMA ListParts ==
    ASSUME NEW texts \in Seq(Seq(Sign)),
           \A i \in DOMAIN texts : ~Has(texts[i], {Semicolon}) /\ Trim(texts[i]) # <<>>
    PROVE  SplitACPList(ListText(texts)) = Trims(texts)
<1> DEFINE S == Seq(Sign)
           b == PartsAt(<<>>, <<>>)
           sep == {Semicolon}
           Fine(ts) == \A i \in DOMAIN ts : ~Has(ts[i], sep) /\ Trim(ts[i]) # <<>>
           T == {ts \in Seq(S) : Fine(ts) => Divide(b, ListText(ts), sep) = PartsAt(Trims(ts), Between(ts))}
<1>1. b \in PartState
  <2>1. <<>> \in Seq(Seq(Sign)) /\ <<>> \in Seq(Sign)
    BY EmptySeq
  <2> QED BY <2>1 DEF PartState, PartsAt
<1>2. <<>> \in T
  <2>1. <<>> \in Seq(S) /\ Trims(<<>>) = <<>> /\ Between(<<>>) = <<>>
    BY EmptySeq DEF Trims, Between
  <2>2. ListText(<<>>) = <<>>
    BY Signs, ListAppend, EmptySeq
  <2>3. Divide(b, <<>>, sep) = b
    BY <1>1, Signs, DivideAppend
  <2> QED BY <2>1, <2>2, <2>3
<1> HIDE DEF b, S
<1>3. ASSUME NEW ts \in Seq(S), NEW t \in S, ts \in T, Fine(Append(ts, t))
      PROVE  Divide(b, ListText(Append(ts, t)), sep) = PartsAt(Trims(Append(ts, t)), Between(Append(ts, t)))
  <2>1. Fine(ts) /\ ~Has(t, sep) /\ Trim(t) # <<>>
    <3> DEFINE more == Append(ts, t)
    <3>1. /\ DOMAIN more = 1 .. Len(ts) + 1 /\ DOMAIN ts = 1 .. Len(ts) /\ more[Len(ts) + 1] = t
          /\ \A i \in 1 .. Len(ts) : i \in 1 .. Len(ts) + 1 /\ more[i] = ts[i]
          /\ Len(ts) + 1 \in 1 .. Len(ts) + 1
      OBVIOUS
    <3> HIDE DEF more, sep
    <3> QED BY <1>3, <3>1 DEF more
  <2>2. Divide(b, ListText(ts), sep) = PartsAt(Trims(ts), Between(ts))
    BY <1>3, <2>1
  <2> HIDE DEF T, sep, Fine
  <2> DEFINE w == ListText(ts)
             v == Listed(t)
             p == Trims(ts)
             q == Between(ts)
  <2>3. /\ w \in Seq(Sign) /\ v \in Seq(Sign) /\ ListText(Append(ts, t)) = w \o v
        /\ v = Append(Append(t, Semicolon), Space) /\ p \in Seq(Seq(Sign))
        /\ Trims(Append(ts, t)) = Append(p, Trim(t))
    BY ListAppend DEF S
  <2>4. q \in Seq(Sign) /\ Trim(q \o t) = Trim(t) /\ Between(Append(ts, t)) = <<Space>>
    <3>1. Append(ts, t) # <<>> /\ <<>> \o t = t /\ <<Space>> \in Seq(Sign) /\ Space \in Sign
      <4>1. t \in Seq(Sign) /\ ts \in Seq(S) /\ Space \in Sign
        BY Signs DEF S
      <4>2. Append(ts, t) # <<>>
        BY <4>1, AppendProperties
      <4>3. <<>> \o t = t /\ <<Space>> \in Seq(Sign)
        BY <4>1
      <4> QED BY <4>1, <4>2, <4>3
    <3>2. Trim(<<Space>> \o t) = Trim(t)
      BY <3>1, TrimSpace DEF S
    <3> QED BY <3>1, <3>2, Signs DEF Between
  <2> HIDE DEF w, v, p, q
  <2>5. Divide(b, w \o v, sep) = Divide(PartsAt(p, q), v, sep)
    <3>1. Divide(b, w \o v, sep) = Divide(Divide(b, w, sep), v, sep)
      <4>1. w \in Seq(Sign) /\ v \in Seq(Sign)
        BY <2>3
      <4> QED BY <1>1, <4>1, DivideConcat
    <3> QED BY <2>2, <3>1 DEF w, p, q
  <2>6. Semicolon \in Sign /\ Space \in Sign /\ Semicolon \in sep /\ Space \notin sep
    BY Signs, SignsDiffer DEF sep
  <2>7. Divide(PartsAt(p, q), Append(t, Semicolon), sep) = PartsAt(Append(p, Trim(t)), <<>>)
        /\ PartsAt(p, q) \in PartState
    <3>1. /\ Divide(PartsAt(p, q), Append(t, Semicolon), sep) = PartsAt(p \o Trimmed(q \o t), <<>>)
          /\ PartsAt(p, q) \in PartState
      BY <2>1, <2>3, <2>4, <2>6, DividePart DEF S
    <3>2. Trimmed(q \o t) = <<Trim(t)>>
      BY <2>1, <2>4 DEF Trimmed
    <3>3. p \o <<Trim(t)>> = Append(p, Trim(t))
      <4> DEFINE y == Trim(t)
      <4>1. y \in S
        BY TrimParts DEF S
      <4> HIDE DEF y
      <4> QED BY <2>3, <4>1, AppendBehind DEF S
    <3> QED BY <3>1, <3>2, <3>3
  <2>8. Divide(PartsAt(p, q), v, sep) = PartsAt(Append(p, Trim(t)), <<Space>>)
    <3>1. Append(t, Semicolon) \in Seq(Sign)
      BY <2>6, AppendProperties DEF S
    <3>2. Divide(PartsAt(p, q), Append(Append(t, Semicolon), Space), sep)
            = Divided(Divide(PartsAt(p, q), Append(t, Semicolon), sep), Space, sep)
      <4> DEFINE s == PartsAt(p, q)
                 u == Append(t, Semicolon)
      <4>1. s \in PartState /\ u \in Seq(Sign) /\ Space \in Sign
        BY <2>6, <2>7, <3>1
      <4> HIDE DEF s, u
      <4>2. Divide(s, Append(u, Space), sep) = Divided(Divide(s, u, sep), Space, sep)
        BY <4>1, DivideAppend
      <4> QED BY <4>2 DEF s, u
    <3>3. Divided(PartsAt(Append(p, Trim(t)), <<>>), Space, sep) = PartsAt(Append(p, Trim(t)), <<Space>>)
      <4>1. Append(<<>>, Space) = <<Space>>
        OBVIOUS
      <4> QED BY <2>6, <4>1 DEF Divided, PartsAt
    <3> QED BY <2>3, <2>7, <3>2, <3>3
  <2> QED BY <2>3, <2>4, <2>5, <2>8
<1>4. ASSUME NEW ts \in Seq(S), NEW t \in S, ts \in T PROVE Append(ts, t) \in T
  <2>1. Append(ts, t) \in Seq(S)
    BY AppendBehind
  <2> HIDE DEF Fine
  <2> QED BY <1>3, <1>4, <2>1
<1>5. Seq(S) \subseteq T
  <2> HIDE DEF T
  <2> QED BY <1>2, <1>4, SeqSetInduction
<1>6. Divide(b, ListText(texts), sep) = PartsAt(Trims(texts), Between(texts))
  <2>1. texts \in Seq(S)
    BY DEF S
  <2> QED BY <1>5, <2>1
<1>7. SplitACPList(ListText(texts)) = Trims(texts) \o Trimmed(Between(texts))
  <2>1. SplitACPList(ListText(texts)) = Parts(ListText(texts), sep)
    BY DEF SplitACPList
  <2> HIDE DEF sep
  <2>2. Parts(ListText(texts), sep) = Trims(texts) \o Trimmed(Between(texts))
    BY <1>6, PartsRead DEF b
  <2> QED BY <2>1, <2>2
<1>8. Trimmed(Between(texts)) = <<>>
  <2>1. Trim(<<Space>>) = <<>> /\ Trim(<<>>) = <<>>
    <3>1. <<>> \in Seq(Sign) /\ Space \in Sign /\ <<Space>> \o <<>> = <<Space>>
      BY Signs
    <3>2. Trim(<<>>) = <<>>
      BY <3>1, TrimInked DEF Inked
    <3>3. Trim(<<Space>> \o <<>>) = Trim(<<>>)
      BY <3>1, TrimSpace
    <3> QED BY <3>1, <3>2, <3>3
  <2> QED BY <2>1 DEF Trimmed, Between
<1>9. Trims(texts) \o <<>> = Trims(texts)
  <2>1. Trims(texts) \in Seq(Seq(Sign))
    BY Signs, ListAppend
  <2> DEFINE p == Trims(texts)
  <2> HIDE DEF p
  <2> QED BY <2>1, ConcatEmptySeq DEF p
<1> QED BY <1>7, <1>8, <1>9

\* What is read out of a key and its value.
LEMMA KeyValue ==
    ASSUME NEW k \in Sign, k # Space, k # "=", NEW v \in Seq(Sign)
    PROVE  LET p == Trim(<<k, "=">> \o v)
           IN  Trimmed(<<k, "=">> \o v) = <<p>> /\ Has(p, {"="}) /\ KeyOf(p) = <<k>> /\ ValueOf(p) = Trim(v)
<1> DEFINE e == "="
           key == <<k, e>>
           p == Trim(key \o v)
<1>1. e \in Sign /\ e # Space
  BY Signs, SignsDiffer
<1> HIDE DEF e
<1>2. /\ key \in Seq(Sign) /\ key # <<>> /\ Inked(key) /\ key = <<k>> \o <<e>>
      /\ <<k>> \in Seq(Sign) /\ Inked(<<k>>) /\ ~Has(<<k>>, {e}) /\ <<e>> \in Seq(Sign)
  <2>1. /\ key \in Seq(Sign) /\ key # <<>> /\ Len(key) = 2 /\ key[1] = k /\ key[2] = e /\ key = <<k>> \o <<e>>
        /\ <<k>> \in Seq(Sign) /\ Len(<<k>>) = 1 /\ <<k>>[1] = k /\ <<e>> \in Seq(Sign)
    BY <1>1, OneTwo
  <2>2. Inked(key)
    <3> HIDE DEF key
    <3> QED BY <1>1, <2>1 DEF Inked
  <2>3. Inked(<<k>>) /\ ~Has(<<k>>, {e})
    <3> DEFINE s == <<k>>
    <3>1. s \in Seq(Sign) /\ Len(s) = 1 /\ s[1] = k
      BY <2>1
    <3> HIDE DEF s
    <3>2. Inked(s)
      BY <3>1 DEF Inked
    <3>3. ~Has(s, {e})
      BY <3>1 DEF Has, e
    <3> QED BY <3>2, <3>3 DEF s
  <2> QED BY <2>1, <2>2, <2>3
<1>3. PICK w \in Seq(Sign) : p = key \o w /\ Trim(w) = Trim(v)
  <2> HIDE DEF key
  <2> QED BY <1>2, TrimBehind
<1>4. p = <<k>> \o (<<e>> \o w)
  <2> DEFINE x == <<k>>
             y == <<e>>
  <2>1. x \in Seq(Sign) /\ y \in Seq(Sign) /\ key = x \o y
    BY <1>2
  <2> HIDE DEF x, y, key, p
  <2>2. x \o (y \o w) = (x \o y) \o w
    <3>1. x \in Seq(Sign) /\ y \in Seq(Sign) /\ w \in Seq(Sign)
      BY <2>1
    <3> QED BY ONLY <3>1, SMTT(30)
  <2> QED BY <1>3, <2>1, <2>2 DEF x, y
<1>5. Has(p, {e}) /\ Before(p, e) = <<k>> /\ After(p, e) = w
  <2> HIDE DEF p
  <2> DEFINE x == <<k>>
  <2>1. x \in Seq(Sign) /\ ~Has(x, {e}) /\ p = x \o (<<e>> \o w)
    BY <1>2, <1>4
  <2> HIDE DEF x
  <2>2. CutInto(x \o (<<e>> \o w), e, x, w)
    BY <1>1, <2>1, CutFirst
  <2> QED BY <2>1, <2>2 DEF x, CutInto
<1>6. p # <<>>
  <2>1. key \o w # <<>>
    <3> HIDE DEF key
    <3> QED BY <1>2, EndsOf
  <2> QED BY <1>3, <2>1
<1> HIDE DEF p
<1>7. KeyOf(p) = <<k>> /\ ValueOf(p) = Trim(v)
  <2>1. Trim(<<k>>) = <<k>>
    BY <1>2, TrimInked
  <2> QED BY <1>3, <1>5, <2>1 DEF KeyOf, ValueOf, e
<1>8. Trimmed(key \o v) = <<p>>
  BY <1>6 DEF Trimmed, p
<1> QED BY <1>5, <1>7, <1>8 DEF e, p

\* What is read out of a specification that is not structured.
LEMMA StandardParsed ==
    ASSUME NEW id \in Seq(Sign), ~Has(id, {"="}), NEW cmd \in Seq(Sign), cmd # <<>>, Inked(cmd), ~Wrapped(cmd),
           NEW tokens \in Seq(Seq(Sign)), tokens # <<>>,
           SplitCommandLine(cmd).ok, SplitCommandLine(cmd).tokens = tokens, ~CommaStyle(cmd, tokens)
    PROVE  LET spec == Trim(id \o (<<"=">> \o cmd))
           IN  spec # <<>> /\ ParseStandard(spec) = Backend(Trim(id), Trim(tokens[1]), Tail(tokens))
<1> DEFINE e == "="
           k == <<e>> \o cmd
           spec == Trim(id \o k)
<1>1. e \in Sign /\ e # Space /\ <<e>> \in Seq(Sign) /\ <<e>> # <<>> /\ <<e>>[1] = e
  <2>1. e \in Sign /\ e # Space
    BY Signs, SignsDiffer
  <2> HIDE DEF e
  <2> QED BY <2>1, OneTwo
<1> HIDE DEF e
<1>2. k \in Seq(Sign) /\ k # <<>> /\ Inked(k)
  <2> DEFINE y == <<e>>
  <2>1. y \in Seq(Sign) /\ y # <<>> /\ y[1] # Space
    BY <1>1
  <2> HIDE DEF y
  <2>2. y \o cmd \in Seq(Sign)
    BY <2>1, ConcatProperties
  <2>3. y \o cmd # <<>> /\ Inked(y \o cmd)
    <3>1. y \in Seq(Sign) /\ y # <<>> /\ y[1] # Space /\ cmd \in Seq(Sign) /\ cmd # <<>> /\ cmd[Len(cmd)] # Space
      BY <2>1 DEF Inked
    <3> QED BY ONLY <3>1, InkedTogether
  <2> QED BY <2>2, <2>3 DEF y
<1>3. PICK w \in Seq(Sign), d \in Seq(Sign) : id = d \o w /\ spec = w \o k /\ Trim(w) = Trim(id)
  <2> HIDE DEF k
  <2>1. id \in Seq(Sign) /\ k \in Seq(Sign) /\ k # <<>> /\ Inked(k)
    BY <1>2
  <2>2. PICK w \in Seq(Sign), d \in Seq(Sign) : TrimmedBefore(id, k, d, w)
    BY ONLY <2>1, TrimBefore
  <2> QED BY <2>2 DEF TrimmedBefore
<1>4. ~Has(w, {e})
  BY <1>3, HasTogether DEF e
<1>5. Has(spec, {e}) /\ Before(spec, e) = w /\ After(spec, e) = cmd
  <2> HIDE DEF spec
  <2>1. w \in Seq(Sign) /\ cmd \in Seq(Sign) /\ e \in Sign /\ ~Has(w, {e}) /\ spec = w \o (<<e>> \o cmd)
    BY <1>1, <1>3, <1>4
  <2>2. CutInto(w \o (<<e>> \o cmd), e, w, cmd)
    BY <2>1, CutFirst
  <2> QED BY <2>1, <2>2 DEF CutInto
<1>6. spec # <<>>
  <2> HIDE DEF k, spec
  <2>1. w \o k # <<>>
    BY <1>2, EndsOf
  <2> QED BY <1>3, <2>1
<1> HIDE DEF spec, k
<1>7. Unwrapped(Trim(After(spec, e))) = cmd
  <2>1. Trim(cmd) = cmd
    BY TrimInked
  <2> QED BY <1>5, <2>1 DEF Unwrapped
<1>8. Argv(cmd, tokens) = tokens
  BY DEF Argv
<1>9. ParseStandard(spec) =
        IF ~Has(spec, {e}) \/ ~SplitCommandLine(cmd).ok \/ Argv(cmd, SplitCommandLine(cmd).tokens) = <<>> THEN Invalid
        ELSE Backend(Trim(Before(spec, e)), Trim(Argv(cmd, SplitCommandLine(cmd).tokens)[1]),
                     Tail(Argv(cmd, SplitCommandLine(cmd).tokens)))
  BY <1>7, Zenon DEF ParseStandard, e
<1>10. ParseStandard(spec) = Backend(Trim(w), Trim(tokens[1]), Tail(tokens))
  BY <1>5, <1>8, <1>9
<1> QED BY <1>3, <1>6, <1>10 DEF spec, k, e

\* The text of a structured specification, put together from its three parts.
ThreeFields(x, id, y, t, z, args, k) ==
    ((((x \o id) \o (<<k>> \o y)) \o t) \o (<<k>> \o z)) \o args = Separated(x \o id, y \o t, z \o args, k)
LEMMA StructuredText ==
    ASSUME NEW S, NEW x \in Seq(S), NEW id \in Seq(S), NEW y \in Seq(S), NEW t \in Seq(S), NEW z \in Seq(S),
           NEW args \in Seq(S), NEW k \in S
    PROVE  ThreeFields(x, id, y, t, z, args, k)
<1> DEFINE a == x \o id
           m == y \o t
           p == Append(a, k)
           q == Append(m, k)
           c == z \o args
<1>1. a \in Seq(S) /\ m \in Seq(S) /\ c \in Seq(S)
  BY ConcatProperties
<1> HIDE DEF a, m, c
<1>2. p \in Seq(S) /\ q \in Seq(S)
  BY <1>1, AppendProperties
<1>3. a \o (<<k>> \o y) = p \o y
  BY <1>1, ThenMore
<1> HIDE DEF p, q
<1>4. (p \o y) \o t = p \o m
  <2>1. p \in Seq(S) /\ y \in Seq(S) /\ t \in Seq(S)
    BY <1>2
  <2>2. (p \o y) \o t = p \o (y \o t)
    BY ONLY <2>1, SMTT(30)
  <2> QED BY <2>2 DEF m
<1>5. p \o m \in Seq(S) /\ p \o q \in Seq(S)
  BY <1>1, <1>2, ConcatProperties
<1>6. (p \o m) \o (<<k>> \o z) = (p \o q) \o z
  <2>1. (p \o m) \o (<<k>> \o z) = Append(p \o m, k) \o z
    <3> DEFINE v == p \o m
    <3> HIDE DEF v
    <3>1. v \in Seq(S) /\ z \in Seq(S) /\ k \in S
      BY <1>5 DEF v
    <3>2. v \o (<<k>> \o z) = Append(v, k) \o z
      BY ONLY <3>1, ThenMore
    <3> QED BY <3>2 DEF v
  <2>2. p \o q = Append(p \o m, k)
    BY <1>1, <1>2, AppendBehind DEF q
  <2> QED BY <2>1, <2>2
<1>7. ((p \o q) \o z) \o args = (p \o q) \o c
  <2> DEFINE v == p \o q
  <2> HIDE DEF v
  <2>1. v \in Seq(S) /\ z \in Seq(S) /\ args \in Seq(S)
    BY <1>5 DEF v
  <2>2. (v \o z) \o args = v \o (z \o args)
    BY ONLY <2>1, SMTT(30)
  <2> QED BY <2>2 DEF v, c
<1>8. (p \o q) \o c = p \o (q \o c)
  <2>1. p \in Seq(S) /\ q \in Seq(S) /\ c \in Seq(S)
    BY <1>1, <1>2
  <2>2. (p \o q) \o c = p \o (q \o c)
    BY ONLY <2>1, SMTT(30)
  <2> QED BY <2>2
<1>9. (((a \o (<<k>> \o y)) \o t) \o (<<k>> \o z)) \o args = p \o (q \o c)
  BY <1>3, <1>4, <1>6, <1>7, <1>8
<1> QED BY <1>9 DEF a, p, q, m, c, Separated, ThreeFields

\* What the last of the parts with such a key gives, if only one of three has one.
LEMMA FieldAt ==
    ASSUME NEW a, NEW b, NEW c, NEW keys, NEW n \in 1 .. 3,
           \A i \in 1 .. 3 : KeyOf(<<a, b, c>>[i]) \in keys <=> i = n
    PROVE  Field(<<a, b, c>>, keys) = ValueOf(<<a, b, c>>[n])
<1> DEFINE parts == <<a, b, c>>
           at == {i \in DOMAIN parts : KeyOf(parts[i]) \in keys}
<1>1. DOMAIN parts = 1 .. 3
  OBVIOUS
<1>2. Field(parts, keys) = IF at = {} THEN <<>> ELSE ValueOf(parts[Max(at)])
  BY DEF Field
<1> HIDE DEF parts
<1>3. at = {n}
  BY <1>1 DEF parts
<1> HIDE DEF at
<1>4. Max(at) = n
  <2>1. n \in at /\ at \in SUBSET Nat /\ \A i \in at : n >= i
    BY <1>3
  <2> QED BY <2>1, MaxIs
<1> QED BY <1>2, <1>3, <1>4 DEF parts

\* The fields of three parts with the three keys.
LEMMA FieldsOf ==
    ASSUME NEW a, NEW b, NEW c,
           KeyOf(a) = <<"id">>, KeyOf(b) = <<"binary">>, KeyOf(c) = <<"args">>,
           Has(a, {"="}), Has(b, {"="}), Has(c, {"="}), SplitCommandLine(ValueOf(c)).ok
    PROVE  /\ \A i \in DOMAIN <<a, b, c>> : Known(<<a, b, c>>[i])
           /\ Field(<<a, b, c>>, {<<"id">>}) = ValueOf(a)
           /\ Field(<<a, b, c>>, {<<"binary">>, <<"bin">>}) = ValueOf(b)
           /\ Field(<<a, b, c>>, {<<"args">>}) = ValueOf(c)
<1> DEFINE parts == <<a, b, c>>
           I == <<"id">>
           B == <<"binary">>
           C == <<"bin">>
           A == <<"args">>
<1>1. DOMAIN parts = 1 .. 3 /\ parts[1] = a /\ parts[2] = b /\ parts[3] = c
  OBVIOUS
<1>2. I # B /\ I # A /\ B # A /\ C # I /\ C # A
  OBVIOUS
<1>3. \A i \in 1 .. 3 : i = 1 \/ i = 2 \/ i = 3
  OBVIOUS
<1> HIDE DEF parts, I, B, C, A
<1>4. KeyOf(a) = I /\ KeyOf(b) = B /\ KeyOf(c) = A
  BY DEF I, B, A
<1>5. Known(a) /\ Known(b) /\ Known(c)
  BY <1>2, <1>4 DEF Known, I, B, A
<1>6. \A i \in DOMAIN parts : Known(parts[i])
  BY <1>1, <1>3, <1>5
<1>7. Field(parts, {I}) = ValueOf(a)
  <2>1. \A i \in 1 .. 3 : KeyOf(parts[i]) \in {I} <=> i = 1
    BY <1>1, <1>2, <1>3, <1>4
  <2>2. Field(parts, {I}) = ValueOf(parts[1])
    BY <2>1, FieldAt DEF parts
  <2> QED BY <1>1, <2>2
<1>8. Field(parts, {B, C}) = ValueOf(b)
  <2>1. \A i \in 1 .. 3 : KeyOf(parts[i]) \in {B, C} <=> i = 2
    BY <1>1, <1>2, <1>3, <1>4
  <2>2. Field(parts, {B, C}) = ValueOf(parts[2])
    BY <2>1, FieldAt DEF parts
  <2> QED BY <1>1, <2>2
<1>9. Field(parts, {A}) = ValueOf(c)
  <2>1. \A i \in 1 .. 3 : KeyOf(parts[i]) \in {A} <=> i = 3
    BY <1>1, <1>2, <1>3, <1>4
  <2>2. Field(parts, {A}) = ValueOf(parts[3])
    BY <2>1, FieldAt DEF parts
  <2> QED BY <1>1, <2>2
<1> QED BY <1>6, <1>7, <1>8, <1>9 DEF parts, I, B, C, A

\* What is read out of the three parts of a structured specification.
LEMMA StructuredParsed ==
    ASSUME NEW id \in Seq(Sign), NEW t \in Seq(Sign), NEW args \in Seq(Sign),
           ~Has(id, {Comma}), ~Has(t, {Comma}), ~Has(args, {Comma}), Inked(args), SplitCommandLine(args).ok
    PROVE  LET spec == Separated(<<"id", "=">> \o id, <<"binary", "=">> \o t, <<"args", "=">> \o args, Comma)
           IN  ParseStructured(spec) = Backend(Trim(id), Trim(t), SplitCommandLine(args).tokens)
<1> DEFINE x == <<"id", "=">>
           y == <<"binary", "=">>
           z == <<"args", "=">>
           a == x \o id
           m == y \o t
           c == z \o args
           spec == Separated(a, m, c, Comma)
           sep == {Comma}
<1>1. /\ x \in Seq(Sign) /\ y \in Seq(Sign) /\ z \in Seq(Sign)
      /\ ~Has(x, sep) /\ ~Has(y, sep) /\ ~Has(z, sep)
  <2>1. "id" \in Sign /\ "binary" \in Sign /\ "args" \in Sign /\ "=" \in Sign
    BY Signs
  <2>2. "id" # Comma /\ "binary" # Comma /\ "args" # Comma /\ "=" # Comma
    BY Zenon DEF Comma
  <2>3. \A s : s \in {x, y, z} => DOMAIN s = 1 .. 2 /\ s[1] \in {"id", "binary", "args"} /\ s[2] = "="
    OBVIOUS
  <2>4. \A s : s \in {x, y, z} => ~Has(s, sep)
    <3> HIDE DEF x, y, z
    <3>1. \A i \in 1 .. 2 : i = 1 \/ i = 2
      OBVIOUS
    <3> QED BY <2>2, <2>3, <3>1 DEF Has
  <2>5. x \in Seq(Sign) /\ y \in Seq(Sign) /\ z \in Seq(Sign)
    BY <2>1
  <2> QED BY <2>4, <2>5
<1>2. /\ a \in Seq(Sign) /\ m \in Seq(Sign) /\ c \in Seq(Sign)
      /\ ~Has(a, sep) /\ ~Has(m, sep) /\ ~Has(c, sep)
  <2> HIDE DEF x, y, z, sep
  <2>1. ~Has(id, sep) /\ ~Has(t, sep) /\ ~Has(args, sep)
    BY DEF sep
  <2> QED BY <1>1, <2>1, HasTogether, ConcatProperties
<1> DEFINE key == Trim(a)
           binary == Trim(m)
           last == Trim(c)
<1>3. /\ Trimmed(a) = <<key>> /\ Has(key, {"="}) /\ KeyOf(key) = <<"id">> /\ ValueOf(key) = Trim(id)
      /\ Trimmed(m) = <<binary>> /\ Has(binary, {"="}) /\ KeyOf(binary) = <<"binary">> /\ ValueOf(binary) = Trim(t)
      /\ Trimmed(c) = <<last>> /\ Has(last, {"="}) /\ KeyOf(last) = <<"args">> /\ ValueOf(last) = Trim(args)
  <2>1. "id" \in Sign /\ "binary" \in Sign /\ "args" \in Sign
    BY Signs
  <2>2. /\ "id" # Space /\ "binary" # Space /\ "args" # Space
        /\ "id" # "=" /\ "binary" # "=" /\ "args" # "="
    BY Zenon DEF Space
  <2>3. Trimmed(a) = <<key>> /\ Has(key, {"="}) /\ KeyOf(key) = <<"id">> /\ ValueOf(key) = Trim(id)
    BY <2>1, <2>2, KeyValue
  <2>4. Trimmed(m) = <<binary>> /\ Has(binary, {"="}) /\ KeyOf(binary) = <<"binary">> /\ ValueOf(binary) = Trim(t)
    BY <2>1, <2>2, KeyValue
  <2>5. Trimmed(c) = <<last>> /\ Has(last, {"="}) /\ KeyOf(last) = <<"args">> /\ ValueOf(last) = Trim(args)
    BY <2>1, <2>2, KeyValue
  <2> QED BY <2>3, <2>4, <2>5
<1>4. Trim(args) = args
  BY TrimInked
<1> HIDE DEF x, y, z
<1>5. Parts(spec, sep) = <<key, binary, last>>
  <2>1. Comma \in Sign /\ Comma \in sep
    BY Signs
  <2> HIDE DEF a, m, c, sep
  <2>2. Parts(spec, sep) = Together(Trimmed(a), Trimmed(m), Trimmed(c))
    <3>1. /\ a \in Seq(Sign) /\ m \in Seq(Sign) /\ c \in Seq(Sign) /\ Comma \in Sign
          /\ ~Has(a, sep) /\ ~Has(m, sep) /\ ~Has(c, sep) /\ Comma \in sep
      BY <1>2, <2>1
    <3> QED BY <3>1, ThreeParts
  <2>3. key \in Seq(Sign) /\ binary \in Seq(Sign) /\ last \in Seq(Sign)
    BY <1>2, TrimParts
  <2> HIDE DEF key, binary, last
  <2>4. Together(<<key>>, <<binary>>, <<last>>) = <<key, binary, last>>
    <3> DEFINE S == Seq(Sign)
    <3>1. key \in S /\ binary \in S /\ last \in S
      BY <2>3
    <3> HIDE DEF S
    <3> QED BY <3>1, Tripled
  <2> QED BY <1>3, <2>2, <2>4
<1> HIDE DEF key, binary, last
<1>6. /\ \A i \in DOMAIN <<key, binary, last>> : Known(<<key, binary, last>>[i])
      /\ Field(<<key, binary, last>>, {<<"id">>}) = Trim(id)
      /\ Field(<<key, binary, last>>, {<<"binary">>, <<"bin">>}) = Trim(t)
      /\ Field(<<key, binary, last>>, {<<"args">>}) = args
  <2>1. SplitCommandLine(ValueOf(last)).ok
    BY <1>3, <1>4
  <2>2. /\ \A i \in DOMAIN <<key, binary, last>> : Known(<<key, binary, last>>[i])
        /\ Field(<<key, binary, last>>, {<<"id">>}) = ValueOf(key)
        /\ Field(<<key, binary, last>>, {<<"binary">>, <<"bin">>}) = ValueOf(binary)
        /\ Field(<<key, binary, last>>, {<<"args">>}) = ValueOf(last)
    BY <1>3, <2>1, FieldsOf
  <2> QED BY <1>3, <1>4, <2>2
<1>7. ParseStructured(spec) = Backend(Trim(id), Trim(t), SplitCommandLine(args).tokens)
  <2> HIDE DEF spec
  <2> DEFINE parts == Parts(spec, sep)
  <2>1. ParseStructured(spec) =
          IF \A i \in DOMAIN parts : Known(parts[i])
          THEN Backend(Field(parts, {<<"id">>}), Field(parts, {<<"binary">>, <<"bin">>}),
                       SplitCommandLine(Field(parts, {<<"args">>})).tokens)
          ELSE Invalid
    BY DEF ParseStructured
  <2>2. parts = <<key, binary, last>>
    BY <1>5
  <2> HIDE DEF parts
  <2> QED BY <1>6, <2>1, <2>2
<1> QED BY <1>7 DEF x, y, z

\* The two forms of a specification.
StandardText(id, cmd) == id \o <<"=">> \o cmd
StructuredTextOf(id, t, args) ==
    <<"id", "=">> \o id \o <<Comma, "binary", "=">> \o t \o <<Comma, "args", "=">> \o args

\* How the standard form is read (acp_backend.go:51-99).
LEMMA StandardRead ==
    ASSUME NEW id \in Seq(Sign), ~Has(id, {"="}), NEW tokens \in Seq(Seq(Sign)), tokens # <<>>,
           NEW styles, Quotable(tokens, styles),
           Last(StandardText(id, CommandOf(tokens, styles))) # Space,
           ~IsStructured(Trim(StandardText(id, CommandOf(tokens, styles)))),
           ~Wrapped(CommandOf(tokens, styles)), ~CommaStyle(CommandOf(tokens, styles), tokens)
    PROVE  LET spec == StandardText(id, CommandOf(tokens, styles))
           IN  /\ spec \in Seq(Sign) /\ Trim(spec) # <<>>
               /\ ParseACPBackend(Trim(spec)) = Backend(Trim(id), Trim(tokens[1]), Tail(tokens))
<1> DEFINE cmd == CommandOf(tokens, styles)
           y == <<"=">>
           spec == StandardText(id, cmd)
           k == y \o cmd
<1>1. y \in Seq(Sign)
  <2>1. "=" \in Sign
    BY Signs
  <2> QED BY <2>1, OneTwo
<1>2. cmd \in Seq(Sign) /\ cmd # <<>> /\ cmd[1] # Space
  BY CommandScan
<1> HIDE DEF cmd
<1>3. k \in Seq(Sign) /\ spec = id \o k
  <2> HIDE DEF y
  <2>1. id \in Seq(Sign) /\ y \in Seq(Sign) /\ cmd \in Seq(Sign)
    BY <1>1, <1>2
  <2>2. k \in Seq(Sign)
    BY <2>1, ConcatProperties
  <2>3. (id \o y) \o cmd = id \o k
    BY ONLY <2>1, SMTT(30)
  <2>4. spec = (id \o y) \o cmd
    BY DEF StandardText, y
  <2> QED BY <2>2, <2>3, <2>4
<1>4. cmd[Len(cmd)] # Space
  <2> HIDE DEF spec
  <2>1. k # <<>> /\ k[Len(k)] = cmd[Len(cmd)]
    <3> HIDE DEF y
    <3> QED BY <1>1, <1>2, EndsOf
  <2>2. spec[Len(spec)] = k[Len(k)]
    <3> HIDE DEF k
    <3>1. (id \o k)[Len(id \o k)] = k[Len(k)]
      BY <1>3, <2>1, EndsOf
    <3> QED BY <1>3, <3>1
  <2>3. spec[Len(spec)] # Space
    BY DEF Last, spec, cmd
  <2> QED BY <2>1, <2>2, <2>3
<1>5. SplitCommandLine(cmd).ok /\ SplitCommandLine(cmd).tokens = tokens
  BY CommandsSplit DEF cmd
<1>6. Trim(spec) # <<>> /\ ParseStandard(Trim(spec)) = Backend(Trim(id), Trim(tokens[1]), Tail(tokens))
  <2>1. Inked(cmd)
    BY <1>2, <1>4 DEF Inked
  <2>2. ~Wrapped(cmd) /\ ~CommaStyle(cmd, tokens)
    BY DEF cmd
  <2>3. LET s == Trim(id \o (<<"=">> \o cmd))
        IN  s # <<>> /\ ParseStandard(s) = Backend(Trim(id), Trim(tokens[1]), Tail(tokens))
    BY <1>2, <1>5, <2>1, <2>2, StandardParsed
  <2> QED BY <1>3, <2>3
<1> HIDE DEF k, y
<1>7. spec \in Seq(Sign)
  BY <1>3, EndsOf
<1> HIDE DEF spec
<1>8. Trim(Trim(spec)) = Trim(spec)
  <2>1. Trim(spec) \in Seq(Sign) /\ Inked(Trim(spec))
    BY <1>7, TrimParts
  <2> QED BY <2>1, TrimInked
<1>9. ~IsStructured(Trim(spec))
  BY DEF spec, cmd
<1>10. ParseACPBackend(Trim(spec)) = ParseStandard(Trim(spec))
  BY <1>8, <1>9 DEF ParseACPBackend
<1> QED BY <1>6, <1>7, <1>10 DEF spec, cmd

\* The structured form is recognised, and has its three parts.
LEMMA StructuredIs ==
    ASSUME NEW id \in Seq(Sign), NEW t \in Seq(Sign), NEW args \in Seq(Sign)
    PROVE  LET spec == StructuredTextOf(id, t, args)
           IN  /\ spec \in Seq(Sign) /\ spec # <<>> /\ spec[1] # Space /\ IsStructured(spec)
               /\ spec = Separated(<<"id", "=">> \o id, <<"binary", "=">> \o t, <<"args", "=">> \o args, Comma)
               /\ args # <<>> => spec[Len(spec)] = args[Len(args)]
               /\ args = <<>> => spec[Len(spec)] # Space
<1> DEFINE e == "="
           x == <<"id", e>>
           y == <<"binary", e>>
           z == <<"args", e>>
           by == <<Comma, "binary", e>>
           ay == <<Comma, "args", e>>
           a == x \o id
           spec == StructuredTextOf(id, t, args)
<1>1. e \in Sign /\ "id" \in Sign /\ "binary" \in Sign /\ "args" \in Sign /\ Comma \in Sign
      /\ e # Space /\ "id" # Space
  <2>1. e # Space /\ "id" # Space
    BY Zenon DEF Space
  <2> QED BY <2>1, Signs
<1> HIDE DEF e
<1>2. /\ x \in Seq(Sign) /\ x # <<>> /\ Len(x) = 2 /\ x[1] = "id" /\ x[2] = e
      /\ y \in Seq(Sign) /\ z \in Seq(Sign)
  BY <1>1, OneTwo
<1>3. /\ by \in Seq(Sign) /\ Len(by) = 3 /\ ay \in Seq(Sign) /\ ay # <<>> /\ Len(ay) = 3 /\ ay[3] = e
  BY <1>1
<1>4. by = <<Comma>> \o y /\ ay = <<Comma>> \o z
  <2>1. \A w \in {"binary", "args"} : <<Comma, w, e>> = <<Comma>> \o <<w, e>>
    <3> SUFFICES ASSUME NEW w \in {"binary", "args"} PROVE <<Comma, w, e>> = <<Comma>> \o <<w, e>>
      OBVIOUS
    <3> DEFINE p == <<Comma>>
               q == <<w>>
               r == <<e>>
    <3>1. w \in Sign
      BY <1>1
    <3>2. p \in Seq(Sign) /\ q \in Seq(Sign) /\ r \in Seq(Sign) /\ <<w, e>> = q \o r
      BY <1>1, <3>1, OneTwo
    <3>3. (p \o q) \o r = <<Comma, w, e>>
      <4>1. Together(p, q, r) = <<Comma, w, e>>
        BY <1>1, <3>1, Tripled
      <4> QED BY <4>1 DEF Together
    <3> HIDE DEF p, q, r
    <3>4. p \o (q \o r) = (p \o q) \o r
      <4>1. p \in Seq(Sign) /\ q \in Seq(Sign) /\ r \in Seq(Sign)
        BY <3>2
      <4> QED BY ONLY <4>1, SMTT(30)
    <3> QED BY <3>2, <3>3, <3>4 DEF p
  <2> QED BY <2>1
<1> HIDE DEF x, y, z, by, ay
<1>5. spec = ((((x \o id) \o by) \o t) \o ay) \o args
  BY DEF StructuredTextOf, x, by, ay, e
<1>6. spec = Separated(x \o id, y \o t, z \o args, Comma)
  <2>1. ((((x \o id) \o (<<Comma>> \o y)) \o t) \o (<<Comma>> \o z)) \o args
          = Separated(x \o id, y \o t, z \o args, Comma)
    <3>1. /\ x \in Seq(Sign) /\ y \in Seq(Sign) /\ z \in Seq(Sign) /\ Comma \in Sign
          /\ id \in Seq(Sign) /\ t \in Seq(Sign) /\ args \in Seq(Sign)
      BY <1>1, <1>2
    <3>2. ThreeFields(x, id, y, t, z, args, Comma)
      BY ONLY <3>1, StructuredText
    <3> QED BY <3>2 DEF ThreeFields
  <2> QED BY <1>4, <1>5, <2>1
<1> DEFINE b == a \o by
           c == b \o t
           d == c \o ay
<1>7. /\ a \in Seq(Sign) /\ a # <<>> /\ a[1] = x[1]
  BY <1>2, EndsOf
<1> HIDE DEF a
<1>8. b \in Seq(Sign) /\ b # <<>> /\ b[1] = a[1]
  BY <1>3, <1>7, EndsOf
<1> HIDE DEF b
<1>9. c \in Seq(Sign) /\ c # <<>> /\ c[1] = b[1]
  BY <1>8, EndsOf
<1> HIDE DEF c
<1>10. d \in Seq(Sign) /\ d # <<>> /\ d[1] = c[1] /\ d[Len(d)] = ay[Len(ay)]
  <2>1. c \in Seq(Sign) /\ c # <<>> /\ ay \in Seq(Sign) /\ ay # <<>>
    BY <1>3, <1>9
  <2> QED BY ONLY <2>1, EndsOf
<1> HIDE DEF d
<1>11. spec = d \o args
  BY <1>5 DEF a, b, c, d
<1> HIDE DEF spec
<1>12. /\ spec \in Seq(Sign) /\ spec # <<>> /\ spec[1] = d[1]
       /\ args # <<>> => spec[Len(spec)] = args[Len(args)]
       /\ args = <<>> => spec = d
  BY <1>10, <1>11, EndsOf
<1>13. spec[1] # Space /\ (args = <<>> => spec[Len(spec)] # Space)
  BY <1>1, <1>2, <1>3, <1>7, <1>8, <1>9, <1>10, <1>12
<1>14. IsPrefix(x, spec)
  <2> DEFINE r == id \o (by \o (t \o (ay \o args)))
             r1 == ay \o args
             r2 == t \o r1
             r3 == by \o r2
  <2>1. r1 \in Seq(Sign)
    BY <1>3, ConcatProperties
  <2> HIDE DEF r1
  <2>2. r2 \in Seq(Sign)
    BY <2>1, ConcatProperties
  <2> HIDE DEF r2
  <2>3. r3 \in Seq(Sign)
    BY <1>3, <2>2, ConcatProperties
  <2> DEFINE r4 == id \o r3
  <2>4. d \o args = c \o r1
    <3>1. (c \o ay) \o args = c \o (ay \o args)
      <4>1. c \in Seq(Sign) /\ ay \in Seq(Sign) /\ args \in Seq(Sign)
        BY <1>3, <1>9
      <4> QED BY ONLY <4>1, SMTT(30)
    <3> QED BY <3>1 DEF d, r1
  <2>5. c \o r1 = b \o r2
    <3>1. (b \o t) \o r1 = b \o (t \o r1)
      <4>1. b \in Seq(Sign) /\ t \in Seq(Sign) /\ r1 \in Seq(Sign)
        BY <1>8, <2>1
      <4> QED BY ONLY <4>1, SMTT(30)
    <3> QED BY <3>1 DEF c, r2
  <2>6. b \o r2 = a \o r3
    <3>1. (a \o by) \o r2 = a \o (by \o r2)
      <4>1. a \in Seq(Sign) /\ by \in Seq(Sign) /\ r2 \in Seq(Sign)
        BY <1>3, <1>7, <2>2
      <4> QED BY ONLY <4>1, SMTT(30)
    <3> QED BY <3>1 DEF b
  <2> HIDE DEF r3
  <2>7. a \o r3 = x \o r4
    <3>1. (x \o id) \o r3 = x \o (id \o r3)
      <4>1. x \in Seq(Sign) /\ id \in Seq(Sign) /\ r3 \in Seq(Sign)
        BY <1>2, <2>3
      <4> QED BY ONLY <4>1, SMTT(30)
    <3> QED BY <3>1 DEF a
  <2>8. r4 \in Seq(Sign)
    BY <2>3, ConcatProperties
  <2> HIDE DEF r4
  <2>9. spec = x \o r4
    BY <1>11, <2>4, <2>5, <2>6, <2>7
  <2>10. IsPrefix(x, x \o r4)
    BY <1>2, <2>8, PrefixOf
  <2> QED BY <2>9, <2>10
<1>15. \E i \in DOMAIN spec : SubSeq(spec, i, i + 2) = by
  <2> DEFINE r == t \o (ay \o args)
  <2>1. ay \o args \in Seq(Sign)
    BY <1>3, ConcatProperties
  <2>2. r \in Seq(Sign)
    BY <2>1, ConcatProperties
  <2>3. spec = a \o (by \o r)
    <3> DEFINE w == ay \o args
    <3> HIDE DEF w
    <3>1. w \in Seq(Sign)
      BY <2>1 DEF w
    <3>2. (c \o ay) \o args = c \o (ay \o args)
      <4>1. c \in Seq(Sign) /\ ay \in Seq(Sign) /\ args \in Seq(Sign)
        BY <1>3, <1>9
      <4> QED BY ONLY <4>1, SMTT(30)
    <3>3. (b \o t) \o w = b \o (t \o w)
      <4>1. b \in Seq(Sign) /\ t \in Seq(Sign) /\ w \in Seq(Sign)
        BY <1>8, <3>1
      <4> QED BY ONLY <4>1, SMTT(30)
    <3> HIDE DEF r
    <3>4. (a \o by) \o r = a \o (by \o r)
      <4>1. a \in Seq(Sign) /\ by \in Seq(Sign) /\ r \in Seq(Sign)
        BY <1>3, <1>7, <2>2
      <4> QED BY ONLY <4>1, SMTT(30)
    <3>5. r = t \o w
      BY DEF r, w
    <3> QED BY <1>11, <3>2, <3>3, <3>4, <3>5 DEF d, c, b, w
  <2> HIDE DEF r
  <2>4. SubSeq(spec, Len(a) + 1, Len(a) + Len(by)) = by
    <3>1. SubSeq(a \o (by \o r), Len(a) + 1, Len(a) + Len(by)) = by
      BY <1>3, <1>7, <2>2, MiddleOf
    <3> QED BY <2>3, <3>1
  <2>5. Len(spec) = Len(a) + Len(by) + Len(r)
    <3>1. Len(a \o (by \o r)) = Len(a) + Len(by) + Len(r)
      <4>1. a \in Seq(Sign) /\ by \in Seq(Sign) /\ r \in Seq(Sign)
        BY <1>3, <1>7, <2>2
      <4> QED BY ONLY <4>1, ThreeTogether
    <3> QED BY <2>3, <3>1
  <2>6. Len(a) + 1 \in DOMAIN spec /\ Len(a) + Len(by) = (Len(a) + 1) + 2
    <3>1. Len(a) \in Nat /\ Len(r) \in Nat /\ DOMAIN spec = 1 .. Len(spec)
      BY <1>7, <1>12, <2>2
    <3> QED BY <1>3, <2>5, <3>1
  <2> QED BY <2>4, <2>6
<1>16. IsStructured(spec)
  <2>1. \E i \in DOMAIN spec, key \in {"binary", "bin"} : SubSeq(spec, i, i + 2) = <<Comma, key, e>>
    BY <1>15 DEF by
  <2> QED BY <1>14, <2>1 DEF IsStructured, x, e
<1> QED BY <1>6, <1>12, <1>13, <1>16 DEF spec, x, y, z, e

\* How the structured form is read (acp_backend.go:116-159).
LEMMA StructuredRead ==
    ASSUME NEW id \in Seq(Sign), NEW t \in Seq(Sign), NEW tokens \in Seq(Seq(Sign)),
           NEW styles, Quotable(tokens, styles),
           Last(StructuredTextOf(id, t, CommandOf(tokens, styles))) # Space,
           ~Has(id, {Comma}), ~Has(t, {Comma}), ~Has(CommandOf(tokens, styles), {Comma})
    PROVE  LET spec == StructuredTextOf(id, t, CommandOf(tokens, styles))
           IN  /\ spec \in Seq(Sign) /\ Trim(spec) # <<>>
               /\ ParseACPBackend(Trim(spec)) = Backend(Trim(id), Trim(t), tokens)
<1> DEFINE args == CommandOf(tokens, styles)
           spec == StructuredTextOf(id, t, args)
<1>1. args \in Seq(Sign) /\ (args # <<>> => args[1] # Space)
  BY CommandScan
<1>2. SplitCommandLine(args).ok /\ SplitCommandLine(args).tokens = tokens
  BY CommandsSplit
<1>3. ~Has(args, {Comma}) /\ spec[Len(spec)] # Space
  BY DEF Last
<1> HIDE DEF args
<1>4. /\ spec \in Seq(Sign) /\ spec # <<>> /\ spec[1] # Space /\ IsStructured(spec)
      /\ spec = Separated(<<"id", "=">> \o id, <<"binary", "=">> \o t, <<"args", "=">> \o args, Comma)
      /\ args # <<>> => spec[Len(spec)] = args[Len(args)]
  BY <1>1, StructuredIs
<1>5. Inked(args)
  <2> HIDE DEF spec
  <2> QED BY <1>1, <1>3, <1>4 DEF Inked
<1>6. ParseStructured(spec) = Backend(Trim(id), Trim(t), tokens)
  <2> HIDE DEF spec
  <2>1. LET s == Separated(<<"id", "=">> \o id, <<"binary", "=">> \o t, <<"args", "=">> \o args, Comma)
        IN  ParseStructured(s) = Backend(Trim(id), Trim(t), SplitCommandLine(args).tokens)
    BY <1>1, <1>2, <1>3, <1>5, StructuredParsed
  <2> QED BY <1>2, <1>4, <2>1
<1> HIDE DEF spec
<1>7. Trim(spec) = spec
  <2>1. Inked(spec)
    BY <1>3, <1>4 DEF Inked
  <2> QED BY <1>4, <2>1, TrimInked
<1>8. ParseACPBackend(Trim(spec)) = ParseStructured(spec)
  BY <1>4, <1>7 DEF ParseACPBackend
<1> QED BY <1>4, <1>6, <1>7, <1>8 DEF spec, args

\* What is assumed of a configured backend.
Configured(b) ==
    /\ b.id \in Seq(Sign) /\ b.tokens \in Seq(Seq(Sign)) /\ b.tokens # <<>>
    /\ Quotable(b.tokens, b.styles) /\ Quotable(Tail(b.tokens), Tail(b.styles))
BackendOf(b) == Backend(Trim(b.id), Trim(b.tokens[1]), Tail(b.tokens))

\* What is assumed of lists.
LEMMA ListsConfigured ==
    ASSUME NEW list \in Lists
    PROVE  Len(list) \in Nat /\ DOMAIN list = 1 .. Len(list) /\ \A i \in DOMAIN list : Configured(list[i])
<1>1. list \in Seq(ToSet(list))
  BY FrontendAssumption
<1>2. Len(list) \in Nat /\ DOMAIN list = 1 .. Len(list)
  BY <1>1
<1>3. ASSUME NEW i \in DOMAIN list PROVE Configured(list[i])
  <2> DEFINE b == list[i]
             tokens == b.tokens
             styles == b.styles
             N == Len(tokens)
  <2>1. b \in ToSet(list)
    BY DEF ToSet
  <2>2. /\ b.id \in Seq(Symbol) /\ tokens \in Seq(Seq(Symbol)) \ {<<>>}
        /\ styles \in Seq(Style) /\ Len(styles) = Len(tokens)
        /\ \A j \in DOMAIN tokens : tokens[j] = <<>> => styles[j] \in Quotes
    BY <2>1, FrontendAssumption
  <2> HIDE DEF b, tokens, styles
  <2>3. b.id \in Seq(Sign) /\ tokens \in Seq(Seq(Sign)) /\ tokens # <<>>
    <3>1. Symbol \subseteq Sign
      BY Signs
    <3>2. \A s \in Seq(Symbol) : s \in Seq(Sign)
      BY <3>1
    <3>3. Seq(Symbol) \subseteq Seq(Sign)
      BY <3>2
    <3>4. tokens \in Seq(Seq(Sign))
      <4> DEFINE A == Seq(Symbol)
                 B == Seq(Sign)
      <4>1. A \subseteq B /\ tokens \in Seq(A)
        BY <2>2, <3>3
      <4> HIDE DEF A, B
      <4>2. tokens \in Seq(B)
        BY <4>1
      <4> QED BY <4>2 DEF B
    <3> QED BY <2>2, <3>2, <3>4
  <2>4. Quotable(tokens, styles)
    BY <2>2 DEF Quotable
  <2>5. Quotable(Tail(tokens), Tail(styles))
    <3> DEFINE S == Seq(Sign)
    <3>1. tokens \in Seq(S) /\ tokens # <<>> /\ styles \in Seq(Style) /\ Len(styles) = Len(tokens)
      BY <2>2, <2>3
    <3> HIDE DEF S
    <3>2. N \in Nat \ {0} /\ DOMAIN tokens = 1 .. N /\ styles # <<>>
      <4>1. N \in Nat /\ N # 0 /\ DOMAIN tokens = 1 .. N
        BY <3>1
      <4>2. Len(<<>>) = 0
        OBVIOUS
      <4> QED BY <3>1, <4>1, <4>2
    <3>3. /\ DOMAIN Tail(tokens) = 1 .. N - 1
          /\ \A j \in 1 .. N - 1 : Tail(tokens)[j] = tokens[j + 1] /\ Tail(styles)[j] = styles[j + 1]
      BY <3>1, <3>2
    <3>4. \A j \in 1 .. N - 1 : j + 1 \in 1 .. N
      BY <3>2
    <3> QED BY <2>2, <3>2, <3>3, <3>4 DEF Quotable
  <2> QED BY <2>3, <2>4, <2>5 DEF Configured, b, tokens, styles
<1> QED BY <1>2, <1>3

\* A specification that is not ambiguous is a part of a list, and is read as what it was put
\* together from (acp_backend.go:24-236).
LEMMA SpecificationRead ==
    ASSUME NEW b, Configured(b), ~Ambiguous(b)
    PROVE  LET spec == Specification(b)
           IN  /\ spec \in Seq(Sign) /\ ~Has(spec, {Semicolon}) /\ Trim(spec) # <<>>
               /\ ParseACPBackend(Trim(spec)) = BackendOf(b)
<1> DEFINE spec == Specification(b)
           cmd == CommandOf(b.tokens, b.styles)
           t == b.tokens[1]
           rest == Tail(b.tokens)
           args == CommandOf(rest, Tail(b.styles))
<1>1. ~Has(spec, {Semicolon}) /\ Last(spec) # Space
  BY DEF Ambiguous
<1>2. /\ b.id \in Seq(Sign) /\ b.tokens \in Seq(Seq(Sign)) /\ b.tokens # <<>>
      /\ Quotable(b.tokens, b.styles) /\ Quotable(rest, Tail(b.styles))
  BY DEF Configured
<1>3. t \in Seq(Sign) /\ rest \in Seq(Seq(Sign))
  <2> DEFINE S == Seq(Sign)
             s == b.tokens
  <2>1. s \in Seq(S) /\ s # <<>>
    BY <1>2
  <2> HIDE DEF S, s
  <2>2. s[1] \in S /\ Tail(s) \in Seq(S)
    BY <2>1
  <2> QED BY <2>2 DEF S, s
<1>4. CASE b.structured
  <2>1. spec = StructuredTextOf(b.id, t, args)
    BY <1>4 DEF Specification, StructuredTextOf
  <2>2. ~Has(b.id \o t \o args, {Comma})
    BY <1>4 DEF Ambiguous
  <2>3. args \in Seq(Sign)
    BY <1>2, <1>3, CommandScan
  <2> HIDE DEF t, args, spec, rest
  <2>4. ~Has(b.id, {Comma}) /\ ~Has(t, {Comma}) /\ ~Has(args, {Comma})
    <3> DEFINE v == b.id \o t
    <3>1. v \in Seq(Sign)
      BY <1>2, <1>3, ConcatProperties
    <3>2. Has(v, {Comma}) <=> Has(b.id, {Comma}) \/ Has(t, {Comma})
      <4>1. b.id \in Seq(Sign) /\ t \in Seq(Sign)
        BY <1>2, <1>3
      <4> QED BY ONLY <4>1, HasTogether
    <3> HIDE DEF v
    <3>3. Has(v \o args, {Comma}) <=> Has(v, {Comma}) \/ Has(args, {Comma})
      <4>1. v \in Seq(Sign) /\ args \in Seq(Sign)
        BY <2>3, <3>1
      <4> QED BY ONLY <4>1, HasTogether
    <3> QED BY <2>2, <3>2, <3>3 DEF v
  <2>5. LET s == StructuredTextOf(b.id, t, CommandOf(rest, Tail(b.styles)))
        IN  /\ s \in Seq(Sign) /\ Trim(s) # <<>>
            /\ ParseACPBackend(Trim(s)) = Backend(Trim(b.id), Trim(t), rest)
    BY <1>1, <1>2, <1>3, <2>1, <2>4, StructuredRead DEF args
  <2> QED BY <1>1, <2>1, <2>5 DEF args, BackendOf, t, rest, spec
<1>5. CASE ~b.structured
  <2>1. spec = StandardText(b.id, cmd)
    BY <1>5 DEF Specification, StandardText
  <2>2. ~Has(b.id, {"="}) /\ ~IsStructured(Trim(spec)) /\ ~Wrapped(cmd) /\ ~CommaStyle(cmd, b.tokens)
    BY <1>5 DEF Ambiguous
  <2> HIDE DEF spec
  <2>3. LET s == StandardText(b.id, CommandOf(b.tokens, b.styles))
        IN  /\ s \in Seq(Sign) /\ Trim(s) # <<>>
            /\ ParseACPBackend(Trim(s)) = Backend(Trim(b.id), Trim(b.tokens[1]), Tail(b.tokens))
    BY <1>1, <1>2, <2>1, <2>2, StandardRead
  <2> QED BY <1>1, <2>1, <2>3 DEF spec, BackendOf
<1> QED BY <1>4, <1>5

\* The specifications of a list are read one by one.
LEMMA ListRead ==
    ASSUME NEW list \in Lists, \A i \in DOMAIN list : ~Ambiguous(list[i])
    PROVE  LET specs == SplitACPList(FlattenSeq([i \in DOMAIN list |-> Specification(list[i]) \o <<Semicolon, Space>>]))
           IN  specs = [i \in DOMAIN list |-> Trim(Specification(list[i]))]
<1> DEFINE texts == [i \in DOMAIN list |-> Specification(list[i])]
<1>1. \A i \in DOMAIN list : texts[i] \in Seq(Sign) /\ ~Has(texts[i], {Semicolon}) /\ Trim(texts[i]) # <<>>
  BY ListsConfigured, SpecificationRead
<1>2. DOMAIN texts = DOMAIN list /\ DOMAIN list = 1 .. Len(list) /\ Len(list) \in Nat
  BY ListsConfigured
<1>3. texts \in Seq(Seq(Sign))
  <2> DEFINE S == Seq(Sign)
  <2>1. texts = [i \in 1 .. Len(list) |-> Specification(list[i])] /\ \A i \in 1 .. Len(list) : Specification(list[i]) \in S
    BY <1>1, <1>2
  <2> HIDE DEF S, texts
  <2>2. texts \in Seq(S)
    BY <1>2, <2>1
  <2> QED BY <2>2 DEF S
<1>4. SplitACPList(ListText(texts)) = Trims(texts)
  <2> HIDE DEF texts
  <2> QED BY <1>1, <1>2, <1>3, ListParts
<1>5. ListText(texts) = FlattenSeq([i \in DOMAIN list |-> Specification(list[i]) \o <<Semicolon, Space>>])
  BY DEF ListText, Listed
<1>6. Trims(texts) = [i \in DOMAIN list |-> Trim(Specification(list[i]))]
  BY DEF Trims
<1> QED BY <1>4, <1>5, <1>6

\* The first slash of a model ID ends the ID of a backend.
LEMMA BackendOfModel ==
    ASSUME NEW id \in Seq(Sign), ValidACPID(id)
    PROVE  Before(id \o <<"/", "m", "/", "m">>, "/") = id
<1> DEFINE x == "/"
           S == Sign \cup {x, "m"}
           c == <<"m", x, "m">>
           r == <<x, "m", x, "m">>
<1>1. ~Has(id, {x})
  BY DEF ValidACPID, Has
<1>2. id \in Seq(S) /\ x \in S /\ "m" \in S
  OBVIOUS
<1> HIDE DEF x, S
<1>3. c \in Seq(S) /\ r \in Seq(S) /\ Len(c) = 3 /\ Len(r) = 4
      /\ c[1] = "m" /\ c[2] = x /\ c[3] = "m" /\ r[1] = x /\ r[2] = "m" /\ r[3] = x /\ r[4] = "m"
  BY <1>2
<1>4. r = <<x>> \o c
  <2> DEFINE y == <<x>>
             d == y \o c
  <2>1. y \in Seq(S) /\ Len(y) = 1 /\ y[1] = x
    BY <1>2
  <2> HIDE DEF y, c, r
  <2>2. d \in Seq(S) /\ Len(d) = 4 /\ \A i \in 1 .. 4 : d[i] = IF i <= 1 THEN y[i] ELSE c[i - 1]
    <3>1. /\ d \in Seq(S) /\ Len(d) = Len(y) + Len(c)
          /\ \A i \in 1 .. Len(y) + Len(c) : d[i] = IF i <= Len(y) THEN y[i] ELSE c[i - Len(y)]
      BY <1>3, <2>1, ConcatProperties, Zenon
    <3>2. 1 + 3 = 4
      OBVIOUS
    <3> QED BY <1>3, <2>1, <3>1, <3>2
  <2> HIDE DEF d
  <2>3. \A i \in 1 .. Len(r) : d[i] = r[i]
    <3>1. \A i \in 1 .. 4 : i = 1 \/ i = 2 \/ i = 3 \/ i = 4
      OBVIOUS
    <3>2. d[1] = y[1] /\ d[2] = c[1] /\ d[3] = c[2] /\ d[4] = c[3]
      BY <2>2
    <3> QED BY <1>3, <2>1, <3>1, <3>2
  <2>4. d = r
    BY <1>3, <2>2, <2>3, SeqEqual
  <2> QED BY <2>4 DEF d, y
<1> HIDE DEF c, r
<1>5. CutInto(id \o (<<x>> \o c), x, id, c)
  BY <1>1, <1>2, <1>3, CutFirst
<1>6. Before(id \o r, x) = id
  BY <1>4, <1>5 DEF CutInto
<1> QED BY <1>6 DEF r, x

Refusable(b) == ~ValidACPID(Trim(b.id)) \/ Trim(b.tokens[1]) = <<>>

\* Which specification gives a backend.
LEMMA BackendOk ==
    ASSUME NEW b
    PROVE  /\ Refusable(b) => BackendOf(b).ok = No
           /\ ~Refusable(b) => BackendOf(b) = [ok |-> Yes, id |-> Trim(b.id), binary |-> Trim(b.tokens[1]),
                                               args |-> Tail(b.tokens)]
<1>1. Refusable(b) => BackendOf(b) = Invalid
  BY DEF BackendOf, Backend, Refusable
<1>2. Invalid.ok = No
  BY DEF Invalid, No
<1>3. ~Refusable(b) => BackendOf(b) = [ok |-> Yes, id |-> Trim(b.id), binary |-> Trim(b.tokens[1]),
                                       args |-> Tail(b.tokens)]
  BY DEF BackendOf, Backend, Refusable, Yes
<1> QED BY <1>1, <1>2, <1>3

\* What a list gives, if none of its specifications is ambiguous.
LEMMA ListParsed ==
    ASSUME NEW list \in Lists, \A i \in DOMAIN list : ~Ambiguous(list[i])
    PROVE  LET parsed == ParseACPBackends([i \in DOMAIN list |-> Trim(Specification(list[i]))])
           IN  IF \E i \in DOMAIN list : Refusable(list[i]) THEN parsed = <<>>
               ELSE \/ parsed = <<>> /\ \E i, j \in DOMAIN list : i # j /\ Trim(list[i].id) = Trim(list[j].id)
                    \/ /\ parsed = [i \in DOMAIN list |-> BackendOf(list[i])]
                       /\ \A i, j \in DOMAIN list : Trim(list[i].id) = Trim(list[j].id) => i = j
<1> DEFINE specs == [i \in DOMAIN list |-> Trim(Specification(list[i]))]
           backends == [i \in DOMAIN specs |-> ParseACPBackend(specs[i])]
           parsed == ParseACPBackends(specs)
<1>1. DOMAIN list = 1 .. Len(list) /\ Len(list) \in Nat /\ list \in Seq(ToSet(list))
  BY ListsConfigured, FrontendAssumption
<1>2. DOMAIN specs = DOMAIN list /\ DOMAIN backends = DOMAIN list
  OBVIOUS
<1>3. \A i \in DOMAIN list : backends[i] = BackendOf(list[i])
  BY ListsConfigured, SpecificationRead
<1>4. parsed = IF specs # <<>> /\ (\A i \in DOMAIN specs : backends[i].ok) /\ DistinctIDs(backends)
               THEN backends ELSE <<>>
  BY DEF ParseACPBackends
<1>5. specs = <<>> => backends = <<>>
  <2>1. specs = <<>> => DOMAIN list = {}
    <3> HIDE DEF specs
    <3>1. DOMAIN <<>> = {}
      OBVIOUS
    <3> QED BY <1>2, <3>1
  <2> QED BY <2>1
<1>6. backends = [i \in DOMAIN list |-> BackendOf(list[i])]
  <2> HIDE DEF specs
  <2>1. \A i \in DOMAIN list : i \in DOMAIN specs
    BY <1>2
  <2> QED BY <1>2, <1>3
<1> HIDE DEF specs, backends, parsed
<1>7. CASE \E i \in DOMAIN list : Refusable(list[i])
  <2>1. PICK i \in DOMAIN list : Refusable(list[i])
    BY <1>7
  <2>2. backends[i].ok = No
    BY <1>3, <2>1, BackendOk
  <2>3. ~backends[i].ok
    BY <2>2 DEF No
  <2>4. parsed = <<>>
    BY <1>2, <1>4, <2>3
  <2> QED BY <1>7, <2>4 DEF parsed, specs
<1>8. CASE ~\E i \in DOMAIN list : Refusable(list[i])
  <2>1. \A i \in DOMAIN list : backends[i] = [ok |-> Yes, id |-> Trim(list[i].id),
                                  binary |-> Trim(list[i].tokens[1]), args |-> Tail(list[i].tokens)]
    BY <1>3, <1>8, BackendOk
  <2>2. ASSUME NEW i \in DOMAIN list PROVE backends[i].ok = Yes /\ backends[i].id = Trim(list[i].id)
    <3> DEFINE id == Trim(list[i].id)
               binary == Trim(list[i].tokens[1])
               args == Tail(list[i].tokens)
    <3>1. backends[i] = [ok |-> Yes, id |-> id, binary |-> binary, args |-> args]
      BY <2>1
    <3> HIDE DEF id, binary, args
    <3>2. backends[i].ok = Yes /\ backends[i].id = id
      BY <3>1
    <3> QED BY <3>2 DEF id
  <2>3. \A i \in DOMAIN specs : backends[i].ok
    BY <1>2, <2>2 DEF Yes
  <2>4. DistinctIDs(backends) <=> \A i, j \in DOMAIN list : Trim(list[i].id) = Trim(list[j].id) => i = j
    BY <1>2, <2>2 DEF DistinctIDs
  <2>5. CASE DistinctIDs(backends)
    <3>1. parsed = backends
      BY <1>4, <1>5, <2>3, <2>5
    <3> QED BY <1>6, <1>8, <2>4, <2>5, <3>1 DEF parsed, specs
  <2>6. CASE ~DistinctIDs(backends)
    <3>1. parsed = <<>>
      BY <1>4, <2>6
    <3> QED BY <1>8, <2>4, <2>6, <3>1 DEF parsed, specs
  <2> QED BY <2>5, <2>6
<1> QED BY <1>7, <1>8

\* The backends of every list, if none of its specifications is ambiguous.
LEMMA ListAsConfigured ==
    ASSUME input \in Inputs \cup {NoInput} PROVE BackendsAsConfigured
<1> SUFFICES ASSUME input.kind = "list" PROVE BackendsAsConfigured
  BY DEF BackendsAsConfigured
<1> DEFINE list == input.of
           parsed == ParseACPBackends(SplitACPList(
                FlattenSeq([i \in DOMAIN list |-> Specification(list[i]) \o <<Semicolon, Space>>])))
           slash == "/"
           model == <<slash, "m", slash, "m">>
<1>1. list \in Lists
  BY DEF Inputs, NoInput
<1> HIDE DEF list
<1>2. CASE \E i \in DOMAIN list : Ambiguous(list[i])
  BY <1>2 DEF BackendsAsConfigured, list
<1>3. CASE ~\E i \in DOMAIN list : Ambiguous(list[i])
  <2>1. parsed = ParseACPBackends([i \in DOMAIN list |-> Trim(Specification(list[i]))])
    BY <1>1, <1>3, ListRead
  <2>2. IF \E i \in DOMAIN list : Refusable(list[i]) THEN parsed = <<>>
        ELSE \/ parsed = <<>> /\ \E i, j \in DOMAIN list : i # j /\ Trim(list[i].id) = Trim(list[j].id)
             \/ /\ parsed = [i \in DOMAIN list |-> BackendOf(list[i])]
                /\ \A i, j \in DOMAIN list : Trim(list[i].id) = Trim(list[j].id) => i = j
    BY <1>1, <1>3, <2>1, ListParsed
  <2> HIDE DEF parsed
  <2>3. CASE \E i \in DOMAIN list : Refusable(list[i])
    BY <2>2, <2>3 DEF BackendsAsConfigured, list, parsed, Refusable
  <2>4. CASE parsed = <<>> /\ \E i, j \in DOMAIN list : i # j /\ Trim(list[i].id) = Trim(list[j].id)
    BY <2>4 DEF BackendsAsConfigured, list, parsed
  <2>5. CASE /\ ~\E i \in DOMAIN list : Refusable(list[i])
             /\ parsed = [i \in DOMAIN list |-> BackendOf(list[i])]
             /\ \A i, j \in DOMAIN list : Trim(list[i].id) = Trim(list[j].id) => i = j
    <3>1. \A i \in DOMAIN list : BackendOf(list[i]) = [ok |-> TRUE, id |-> Trim(list[i].id),
                binary |-> Trim(list[i].tokens[1]), args |-> Tail(list[i].tokens)]
      BY <2>5, BackendOk DEF Yes
    <3>2. parsed = [i \in DOMAIN list |-> [ok |-> TRUE, id |-> Trim(list[i].id),
                        binary |-> Trim(list[i].tokens[1]), args |-> Tail(list[i].tokens)]]
      BY <2>5, <3>1
    <3>3. DOMAIN parsed = DOMAIN list /\ \A i \in DOMAIN list : parsed[i].id = Trim(list[i].id)
      BY <3>2
    <3>4. \A i \in DOMAIN list : ValidACPID(Trim(list[i].id)) /\ Trim(list[i].id) \in Seq(Sign)
      <4>1. \A i \in DOMAIN list : list[i].id \in Seq(Sign)
        BY <1>1, ListsConfigured DEF Configured
      <4> QED BY <2>5, <4>1, TrimParts DEF Refusable
    <3>5. \A i \in DOMAIN parsed : Before(parsed[i].id \o model, slash) = parsed[i].id
      BY <3>3, <3>4, BackendOfModel
    <3>6. \A i, j \in DOMAIN parsed : (Before(parsed[i].id \o model, slash) = parsed[j].id) <=> (i = j)
      <4> HIDE DEF model, slash
      <4> QED BY <2>5, <3>3, <3>5
    <3> QED BY <3>2, <3>6 DEF BackendsAsConfigured, list, parsed, model, slash
  <2> QED BY <2>2, <2>3, <2>4, <2>5
<1> QED BY <1>2, <1>3
=============================================================================
