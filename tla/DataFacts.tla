----------------------------- MODULE DataFacts -----------------------------
(***************************************************************************)
(* Facts about data that the proofs of several components need: induction  *)
(* over sets of numbers and of sequences, the largest element of a set,    *)
(* the function that a fold runs through, flattened sequences, and         *)
(* sequences put together.                                                 *)
(*                                                                         *)
(* The induction theorems of the library have a predicate as a parameter.  *)
(* Here a set takes its place, so that they can be cited: to show P(n) for *)
(* every n, take the set of the n that have P.                             *)
(***************************************************************************)
EXTENDS Naturals, Sequences, SequencesExt, WellFoundedInduction, SequenceTheorems, TLAPS

\* Induction: a set with 0 and with the successor of each of its numbers has every number.
LEMMA NatSetInduction ==
    ASSUME NEW T, 0 \in T, \A n \in Nat : n \in T => n + 1 \in T
    PROVE  Nat \subseteq T
<1>1. SUFFICES ASSUME Nat \ T # {} PROVE FALSE
  OBVIOUS
<1>2. PICK x \in Nat \ T : \A y \in Nat \ T : <<y, x>> \notin OpToRel(<, Nat)
  <2>1. Nat \ T \subseteq Nat
    OBVIOUS
  <2> QED BY <1>1, <2>1, NatLessThanWellFounded, WFMin
<1>3. x # 0 /\ x \in Nat
  BY <1>2
<1>4. x - 1 \in Nat /\ x - 1 < x /\ x = (x - 1) + 1
  BY <1>3
<1>5. <<x - 1, x>> \in OpToRel(<, Nat)
  BY <1>3, <1>4 DEF OpToRel
<1>6. x - 1 \in T
  BY <1>2, <1>4, <1>5
<1> QED BY <1>2, <1>4, <1>6

\* The same up to a bound.
LEMMA UpToInduction ==
    ASSUME NEW N \in Nat, NEW T, 0 \in T, \A n \in 0 .. N : n \in T /\ n < N => n + 1 \in T
    PROVE  0 .. N \subseteq T
<1> DEFINE U == {n \in Nat : n <= N => n \in T}
<1>1. 0 \in U /\ \A n \in Nat : n \in U => n + 1 \in U
  OBVIOUS
<1>2. Nat \subseteq U
  <2> HIDE DEF U
  <2> QED BY <1>1, NatSetInduction
<1> QED BY <1>2

\* Induction: a set with the empty sequence and with every extension of each of its
\* sequences by one element has every sequence.
LEMMA SeqSetInduction ==
    ASSUME NEW S, NEW T, <<>> \in T, \A s \in Seq(S), x \in S : s \in T => Append(s, x) \in T
    PROVE  Seq(S) \subseteq T
<1> DEFINE U == {n \in Nat : \A s \in Seq(S) : Len(s) = n => s \in T}
<1>1. 0 \in U
  <2>1. \A s \in Seq(S) : Len(s) = 0 => s = <<>>
    OBVIOUS
  <2> QED BY <2>1
<1>2. ASSUME NEW n \in Nat, n \in U PROVE n + 1 \in U
  <2> SUFFICES ASSUME NEW s \in Seq(S), Len(s) = n + 1 PROVE s \in T
    OBVIOUS
  <2> DEFINE front == SubSeq(s, 1, n)
             x == s[n + 1]
  <2>1. front \in Seq(S) /\ Len(front) = n /\ x \in S /\ \A i \in 1 .. n : front[i] = s[i]
    OBVIOUS
  <2>2. front \in T
    BY <1>2, <2>1
  <2>3. Append(front, x) \in T
    <3> HIDE DEF front, x
    <3> QED BY <2>1, <2>2
  <2>4. Append(front, x) = s
    <3> DEFINE a == Append(front, x)
    <3>1. a \in Seq(S) /\ Len(a) = n + 1 /\ a[n + 1] = x /\ \A i \in 1 .. n : a[i] = front[i]
      <4> HIDE DEF front, x
      <4> QED BY <2>1
    <3>2. \A i \in 1 .. Len(a) : a[i] = s[i]
      BY <2>1, <3>1
    <3> HIDE DEF a
    <3>3. a = s
      BY <3>1, <3>2, SeqEqual
    <3> QED BY <3>3 DEF a
  <2> QED BY <2>3, <2>4
<1>3. Nat \subseteq U
  <2> HIDE DEF U
  <2> QED BY <1>1, <1>2, NatSetInduction
<1> SUFFICES ASSUME NEW s \in Seq(S) PROVE s \in T
  OBVIOUS
<1>4. Len(s) \in Nat
  OBVIOUS
<1> QED BY <1>3, <1>4

-----------------------------------------------------------------------------
(* Largest and smallest elements.                                          *)

\* Max and Min are what their names say.
LEMMA MaxIs ==
    ASSUME NEW S \in SUBSET Nat, NEW m \in S, \A y \in S : m >= y
    PROVE  Max(S) = m
<1> DEFINE x == Max(S)
<1>1. x \in S /\ \A y \in S : x >= y
  BY Zenon DEF Max
<1> HIDE DEF x
<1>2. x = m
  BY <1>1
<1> QED BY <1>2 DEF x

LEMMA MinIs ==
    ASSUME NEW S \in SUBSET Nat, NEW m \in S, \A y \in S : m <= y
    PROVE  Min(S) = m
<1> DEFINE x == Min(S)
<1>1. x \in S /\ \A y \in S : x <= y
  BY Zenon DEF Min
<1> HIDE DEF x
<1>2. x = m
  BY <1>1
<1> QED BY <1>2 DEF x

\* A set of numbers up to a bound has a largest and a smallest element.
LEMMA MaxExists ==
    ASSUME NEW N \in Nat, NEW S \in SUBSET (1 .. N), S # {}
    PROVE  Max(S) \in S /\ \A y \in S : y <= Max(S)
<1> DEFINE T == {n \in Nat : (\E y \in S : y >= N - n) => \E m \in S : \A y \in S : y <= m}
<1>1. 0 \in T
  OBVIOUS
<1>2. ASSUME NEW n \in Nat, n \in T PROVE n + 1 \in T
  <2>1. SUFFICES ASSUME NEW z \in S, z >= N - (n + 1)
                 PROVE  \E m \in S : \A y \in S : y <= m
    OBVIOUS
  <2>2. CASE \E y \in S : y >= N - n
    BY <1>2, <2>2
  <2>3. CASE \A y \in S : ~(y >= N - n)
    <3>1. \A y \in S : y <= z
      BY <2>1, <2>3
    <3> QED BY <3>1
  <2> QED BY <2>2, <2>3
<1>3. Nat \subseteq T
  <2> HIDE DEF T
  <2> QED BY <1>1, <1>2, NatSetInduction
<1>4. PICK m \in S : \A y \in S : y <= m
  <2>1. N \in T
    <3> HIDE DEF T
    <3> QED BY <1>3
  <2>2. \E y \in S : y >= N - N
    <3>1. PICK y \in S : TRUE
      OBVIOUS
    <3>2. y \in 1 .. N
      OBVIOUS
    <3>3. y >= N - N
      BY <3>2
    <3> QED BY <3>3
  <2> QED BY <2>1, <2>2
<1>5. Max(S) = m
  BY <1>4, MaxIs
<1> QED BY <1>4, <1>5

LEMMA MinExists ==
    ASSUME NEW S \in SUBSET Nat, S # {}
    PROVE  Min(S) \in S /\ \A y \in S : Min(S) <= y
<1>1. PICK m \in S : \A y \in S : <<y, m>> \notin OpToRel(<, Nat)
  BY NatLessThanWellFounded, WFMin
<1>2. \A y \in S : m <= y
  <2> SUFFICES ASSUME NEW y \in S, ~(m <= y) PROVE FALSE
    OBVIOUS
  <2>1. <<y, m>> \in OpToRel(<, Nat)
    BY DEF OpToRel
  <2> QED BY <1>1, <2>1
<1>3. Min(S) = m
  BY <1>2, MinIs
<1> QED BY <1>2, <1>3

\* The pieces of a sequence around a position and its last element.
LEMMA CutAt ==
    ASSUME NEW S, NEW s \in Seq(S), NEW k \in 1 .. Len(s), k < Len(s)
    PROVE  s = SubSeq(s, 1, k - 1) \o <<s[k]>> \o SubSeq(s, k + 1, Len(s) - 1) \o <<s[Len(s)]>>
<1>1. SubSeq(s, 1, k) = SubSeq(s, 1, k - 1) \o <<s[k]>>
  BY SubSeqRecursiveSecond
<1>2. SubSeq(s, 1, Len(s) - 1) = SubSeq(s, 1, k) \o SubSeq(s, k + 1, Len(s) - 1)
  <2>1. 1 \in 1 .. Len(s) + 1 /\ k \in 1 - 1 .. Len(s) /\ Len(s) - 1 \in k .. Len(s)
    OBVIOUS
  <2> QED BY <2>1, ConcatAdjacentSubSeq
<1>3. SubSeq(s, 1, Len(s)) = SubSeq(s, 1, Len(s) - 1) \o <<s[Len(s)]>>
  <2>1. 1 \in 1 .. Len(s) /\ Len(s) \in 1 .. Len(s)
    OBVIOUS
  <2> QED BY <2>1, SubSeqRecursiveSecond
<1>4. SubSeq(s, 1, Len(s)) = s
  BY SubSeqFull
<1> QED BY <1>1, <1>2, <1>3, <1>4

-----------------------------------------------------------------------------
(* Folds.                                                                  *)

\* FoldLeft is defined by a function on the sets of positions: with each of them it applies
\* the operator, here the functions step[i], to the last position and to what the others give.
FoldOf(f, V, b, N, step) ==
    /\ f \in [SUBSET (1 .. N) -> V]
    /\ \A s \in SUBSET (1 .. N) : f[s] = IF s = {} THEN b ELSE step[Max(s)][f[s \ {Max(s)}]]

StepsWithin(V, N, step) == \A i \in 1 .. N, v \in V : step[i][v] \in V

\* If the operator stays in a set of values, there is such a function.
LEMMA FoldExists ==
    ASSUME NEW V, NEW b \in V, NEW N \in Nat, NEW step, StepsWithin(V, N, step)
    PROVE  \E f : FoldOf(f, V, b, N, step)
<1> USE DEF StepsWithin
<1> DEFINE Good(n, f) ==
        \A s \in SUBSET (1 .. n) : f[s] = IF s = {} THEN b ELSE step[Max(s)][f[s \ {Max(s)}]]
    T == {n \in 0 .. N : \E f \in [SUBSET (1 .. n) -> V] : Good(n, f)}
<1>1. 0 \in T
  <2> DEFINE f == [s \in SUBSET (1 .. 0) |-> b]
  <2>1. f \in [SUBSET (1 .. 0) -> V] /\ Good(0, f)
    OBVIOUS
  <2>2. 0 \in 0 .. N
    OBVIOUS
  <2> HIDE DEF f, Good
  <2> QED BY <2>1, <2>2
<1>2. ASSUME NEW n \in 0 .. N, n \in T, n < N PROVE n + 1 \in T
  <2>1. PICK f \in [SUBSET (1 .. n) -> V] : Good(n, f)
    BY <1>2
  <2> DEFINE g == [s \in SUBSET (1 .. n + 1) |->
                      IF n + 1 \in s THEN step[n + 1][f[s \ {n + 1}]] ELSE f[s]]
  <2>2. g \in [SUBSET (1 .. n + 1) -> V]
    <3> SUFFICES ASSUME NEW s \in SUBSET (1 .. n + 1) PROVE g[s] \in V
      OBVIOUS
    <3>1. CASE n + 1 \in s
      <4>1. s \ {n + 1} \in SUBSET (1 .. n)
        OBVIOUS
      <4> QED BY <1>2, <3>1, <4>1
    <3>2. CASE n + 1 \notin s
      <4>1. s \in SUBSET (1 .. n)
        BY <3>2
      <4> QED BY <3>2, <4>1
    <3> QED BY <3>1, <3>2
  <2>3. Good(n + 1, g)
    <3> SUFFICES ASSUME NEW s \in SUBSET (1 .. n + 1)
                 PROVE  g[s] = IF s = {} THEN b ELSE step[Max(s)][g[s \ {Max(s)}]]
      OBVIOUS
    <3>1. CASE n + 1 \in s
      <4>1. s \ {n + 1} \in SUBSET (1 .. n) /\ s \ {n + 1} \in SUBSET (1 .. n + 1)
        OBVIOUS
      <4>2. Max(s) = n + 1
        <5>1. s \in SUBSET Nat /\ \A y \in s : n + 1 >= y
          OBVIOUS
        <5> QED BY <3>1, <5>1, MaxIs
      <4>3. g[s \ {n + 1}] = f[s \ {n + 1}]
        BY <4>1
      <4> QED BY <3>1, <4>1, <4>2, <4>3
    <3>2. CASE n + 1 \notin s
      <4>1. s \in SUBSET (1 .. n)
        BY <3>2
      <4>2. CASE s = {}
        BY <4>2, <4>1, <2>1
      <4>3. CASE s # {}
        <5> DEFINE m == Max(s)
        <5> HIDE DEF m
        <5>1. f[s] = step[m][f[s \ {m}]]
          BY <4>1, <4>3, <2>1 DEF m
        <5>2. /\ s \ {m} \in SUBSET (1 .. n) /\ s \ {m} \in SUBSET (1 .. n + 1)
              /\ n + 1 \notin s \ {m}
          <6>1. \A i \in 1 .. n : i \in 1 .. n + 1 /\ i # n + 1
            OBVIOUS
          <6> QED BY <4>1, <6>1
        <5>3. g[s \ {m}] = f[s \ {m}] /\ g[s] = f[s]
          BY <5>2, <3>2
        <5> QED BY <5>1, <5>3, <4>3 DEF m
      <4> QED BY <4>2, <4>3
    <3> QED BY <3>1, <3>2
  <2> HIDE DEF g, Good
  <2> QED BY <1>2, <2>2, <2>3
<1>3. 0 .. N \subseteq T
  <2> HIDE DEF T
  <2> QED BY <1>1, <1>2, UpToInduction
<1>4. N \in T
  <2> HIDE DEF T
  <2> QED BY <1>3
<1> QED BY <1>4 DEF FoldOf

\* What such a function has for the first n positions.
LEMMA FoldPrefix ==
    ASSUME NEW n \in Nat
    PROVE  /\ 1 .. n + 1 # {} /\ Max(1 .. n + 1) = n + 1
           /\ (1 .. n + 1) \ {n + 1} = 1 .. n
<1>1. n + 1 \in 1 .. n + 1 /\ 1 .. n + 1 \in SUBSET Nat /\ \A y \in 1 .. n + 1 : n + 1 >= y
  OBVIOUS
<1>2. Max(1 .. n + 1) = n + 1
  BY <1>1, MaxIs
<1> QED BY <1>1, <1>2

-----------------------------------------------------------------------------
(* Flattened sequences.                                                    *)

\* The sequences flattened up to each position.
Flattens(f, seqs) ==
    \A i \in 1 .. Len(seqs) : f[i] = IF i = 1 THEN seqs[i] ELSE f[i - 1] \o seqs[i]

LEMMA FlattensExists ==
    ASSUME NEW E, NEW seqs \in Seq(Seq(E)), Len(seqs) # 0
    PROVE  \E f \in [1 .. Len(seqs) -> Seq(E)] : Flattens(f, seqs) /\ FlattenSeq(seqs) = f[Len(seqs)]
<1> DEFINE N == Len(seqs)
           Good(n, f) == \A i \in 1 .. n : f[i] = IF i = 1 THEN seqs[i] ELSE f[i - 1] \o seqs[i]
           T == {n \in 0 .. N : \E f \in [1 .. n -> Seq(E)] : Good(n, f)}
           it == CHOOSE f : f = [i \in 1 .. N |-> IF i = 1 THEN seqs[i] ELSE f[i - 1] \o seqs[i]]
<1>1. N \in Nat /\ \A i \in 1 .. N : seqs[i] \in Seq(E)
  OBVIOUS
<1>2. 0 \in T
  <2> DEFINE f == [i \in 1 .. 0 |-> <<>>]
  <2>1. f \in [1 .. 0 -> Seq(E)] /\ Good(0, f)
    OBVIOUS
  <2>2. 0 \in 0 .. N
    BY <1>1
  <2> HIDE DEF f, Good, N
  <2> QED BY <2>1, <2>2
<1>3. ASSUME NEW n \in 0 .. N, n \in T, n < N PROVE n + 1 \in T
  <2>1. PICK f \in [1 .. n -> Seq(E)] : Good(n, f)
    BY <1>3
  <2> DEFINE new == IF n = 0 THEN seqs[n + 1] ELSE f[n] \o seqs[n + 1]
             g == [i \in 1 .. n + 1 |-> IF i = n + 1 THEN new ELSE f[i]]
  <2>2. new \in Seq(E)
    <3>1. seqs[n + 1] \in Seq(E) /\ (n # 0 => f[n] \in Seq(E))
      BY <1>1, <1>3
    <3> QED BY <3>1
  <2>3. g \in [1 .. n + 1 -> Seq(E)]
    <3> HIDE DEF new
    <3> QED BY <1>3, <2>2
  <2>4. ASSUME NEW i \in 1 .. n + 1
        PROVE  g[i] = IF i = 1 THEN seqs[i] ELSE g[i - 1] \o seqs[i]
    <3>1. CASE i = n + 1
      <4>1. g[i] = new /\ (n # 0 => g[i - 1] = f[n])
        BY <1>3, <3>1
      <4> QED BY <1>3, <3>1, <4>1
    <3>2. CASE i # n + 1
      <4>1. i \in 1 .. n /\ g[i] = f[i] /\ (i # 1 => g[i - 1] = f[i - 1])
        BY <1>3, <3>2
      <4> QED BY <2>1, <4>1
    <3> QED BY <3>1, <3>2
  <2>5. n + 1 \in 0 .. N
    BY <1>1, <1>3
  <2>6. Good(n + 1, g)
    BY <2>4
  <2> HIDE DEF g, Good
  <2> QED BY <2>3, <2>5, <2>6
<1>4. N \in T
  <2> HIDE DEF T
  <2>1. 0 .. N \subseteq T
    BY <1>1, <1>2, <1>3, UpToInduction
  <2> QED BY <1>1, <2>1
<1>5. PICK f \in [1 .. N -> Seq(E)] : Good(N, f)
  BY <1>4
<1>6. f = [i \in 1 .. N |-> IF i = 1 THEN seqs[i] ELSE f[i - 1] \o seqs[i]]
  BY <1>5
<1>7. it = [i \in 1 .. N |-> IF i = 1 THEN seqs[i] ELSE it[i - 1] \o seqs[i]]
  <2> HIDE DEF N
  <2> QED BY <1>6, Zenon
<1>8. FlattenSeq(seqs) = it[N]
  BY Zenon DEF FlattenSeq
<1> HIDE DEF it
<1>9. N \in Nat /\ N # 0 /\ Flattens(it, seqs)
  BY <1>1, <1>7 DEF Flattens
<1> DEFINE U == {n \in 0 .. N : \A i \in 1 .. n : it[i] = f[i]}
<1>10. 0 \in U
  BY <1>1
<1>11. ASSUME NEW n \in 0 .. N, n \in U, n < N PROVE n + 1 \in U
  <2>1. n + 1 \in 1 .. N /\ (n # 0 => n \in 1 .. n) /\ n \in Nat /\ (n + 1) - 1 = n
    BY <1>1, <1>11
  <2>2. /\ it[n + 1] = IF n + 1 = 1 THEN seqs[n + 1] ELSE it[n] \o seqs[n + 1]
        /\ f[n + 1] = IF n + 1 = 1 THEN seqs[n + 1] ELSE f[n] \o seqs[n + 1]
    <3> HIDE DEF N
    <3> QED BY <1>6, <1>7, <2>1
  <2>3. it[n + 1] = f[n + 1]
    BY <1>11, <2>1, <2>2
  <2> QED BY <1>11, <2>1, <2>3
<1>12. N \in U
  <2> HIDE DEF U, N
  <2>1. 0 .. N \subseteq U
    BY <1>1, <1>10, <1>11, UpToInduction
  <2> QED BY <1>1, <2>1
<1>13. it \in [1 .. N -> Seq(E)]
  <2>1. \A i \in 1 .. N : it[i] = f[i]
    BY <1>12
  <2>2. it = f
    <3>1. DOMAIN it = 1 .. N /\ it = [i \in 1 .. N |-> it[i]]
      BY <1>7, Zenon
    <3>2. f = [i \in 1 .. N |-> f[i]]
      BY <1>5
    <3> HIDE DEF N
    <3> QED BY <2>1, <3>1, <3>2
  <2> QED BY <1>5, <2>2
<1> QED BY <1>8, <1>9, <1>13

\* A sequence more is appended to what the others give.
LEMMA FlattenAppend ==
    ASSUME NEW E, NEW seqs \in Seq(Seq(E)), NEW s \in Seq(E)
    PROVE  /\ FlattenSeq(seqs) \in Seq(E)
           /\ FlattenSeq(Append(seqs, s)) = FlattenSeq(seqs) \o s
<1> DEFINE N == Len(seqs)
           more == Append(seqs, s)
<1>1. /\ N \in Nat /\ more \in Seq(Seq(E)) /\ Len(more) = N + 1 /\ more[N + 1] = s
      /\ \A i \in 1 .. N : more[i] = seqs[i]
  OBVIOUS
<1> HIDE DEF more
<1>2. PICK g \in [1 .. N + 1 -> Seq(E)] : Flattens(g, more) /\ FlattenSeq(more) = g[N + 1]
  <2>1. Len(more) # 0
    BY <1>1
  <2> QED BY <1>1, <2>1, FlattensExists
<1>3. CASE N = 0
  <2>1. FlattenSeq(seqs) = <<>> /\ seqs = <<>>
    BY <1>3 DEF FlattenSeq
  <2>2. g[N + 1] = s
    BY <1>1, <1>2, <1>3 DEF Flattens
  <2>3. <<>> \o s = s
    OBVIOUS
  <2> QED BY <1>2, <2>1, <2>2, <2>3 DEF more
<1>4. CASE N # 0
  <2>1. PICK f \in [1 .. N -> Seq(E)] : Flattens(f, seqs) /\ FlattenSeq(seqs) = f[N]
    BY <1>4, FlattensExists
  <2> DEFINE U == {n \in 0 .. N : \A i \in 1 .. n : g[i] = f[i]}
  <2>2. 0 \in U
    BY <1>1
  <2>3. ASSUME NEW n \in 0 .. N, n \in U, n < N PROVE n + 1 \in U
    <3>1. /\ n + 1 \in 1 .. N /\ n + 1 \in 1 .. N + 1 /\ (n # 0 => n \in 1 .. n)
          /\ n \in Nat /\ (n + 1) - 1 = n
      BY <1>1, <2>3
    <3> HIDE DEF N, U
    <3>2. g[n + 1] = IF n + 1 = 1 THEN more[n + 1] ELSE g[n] \o more[n + 1]
      BY <1>1, <1>2, <3>1 DEF Flattens
    <3>3. f[n + 1] = IF n + 1 = 1 THEN seqs[n + 1] ELSE f[n] \o seqs[n + 1]
      BY <2>1, <3>1 DEF Flattens, N
    <3>4. g[n + 1] = f[n + 1]
      BY <1>1, <2>3, <3>1, <3>2, <3>3 DEF U
    <3> QED BY <1>1, <2>3, <3>1, <3>4 DEF U
  <2>4. N \in U
    <3> HIDE DEF U, N
    <3>1. 0 .. N \subseteq U
      BY <1>1, <2>2, <2>3, UpToInduction
    <3> QED BY <1>1, <3>1
  <2>5. g[N] = f[N] /\ g[N + 1] = g[N] \o more[N + 1] /\ f[N] \in Seq(E)
    <3>1. N \in 1 .. N /\ N + 1 \in 1 .. N + 1 /\ N + 1 # 1 /\ (N + 1) - 1 = N
      BY <1>1, <1>4
    <3>2. g[N + 1] = g[N] \o more[N + 1]
      BY <1>1, <1>2, <3>1 DEF Flattens
    <3>3. g[N] = f[N]
      BY <2>4, <3>1
    <3> QED BY <2>1, <3>1, <3>2, <3>3
  <2> QED BY <1>1, <1>2, <2>1, <2>5 DEF more
<1> QED BY <1>3, <1>4

\* What two sequences of sequences give together.
LEMMA FlattenConcat ==
    ASSUME NEW E, NEW r \in Seq(Seq(E)), NEW s \in Seq(Seq(E))
    PROVE  FlattenSeq(r \o s) = FlattenSeq(r) \o FlattenSeq(s)
<1> DEFINE N == Len(s)
           p == [n \in 0 .. N |-> SubSeq(s, 1, n)]
           T == {n \in 0 .. N : FlattenSeq(r \o p[n]) = FlattenSeq(r) \o FlattenSeq(p[n])}
<1>1. N \in Nat /\ \A n \in 0 .. N : p[n] \in Seq(Seq(E)) /\ Len(p[n]) = n
  OBVIOUS
<1>2. FlattenSeq(r) \in Seq(E)
  <2>1. <<>> \in Seq(E)
    OBVIOUS
  <2> QED BY <2>1, FlattenAppend
<1>3. 0 \in T
  <2>1. p[0] = <<>> /\ 0 \in 0 .. N
    OBVIOUS
  <2>2. FlattenSeq(<<>>) = <<>> /\ r \o <<>> = r /\ FlattenSeq(r) \o <<>> = FlattenSeq(r)
    BY <1>2 DEF FlattenSeq
  <2> QED BY <2>1, <2>2
<1>4. ASSUME NEW n \in 0 .. N, n \in T, n < N PROVE n + 1 \in T
  <2> DEFINE x == s[n + 1]
             q == p[n]
  <2>1. x \in Seq(E) /\ q \in Seq(Seq(E)) /\ n + 1 \in 0 .. N /\ r \o q \in Seq(Seq(E))
    BY <1>1, <1>4
  <2>2. p[n + 1] = Append(q, x)
    <3>1. /\ Len(p[n + 1]) = Len(Append(q, x)) /\ Len(q) = n /\ n + 1 \in 0 .. N
          /\ p[n + 1] \in Seq(Seq(E)) /\ Append(q, x) \in Seq(Seq(E))
      BY <1>1, <2>1
    <3>2. \A i \in 1 .. n + 1 : p[n + 1][i] = s[i] /\ Append(q, x)[i] = s[i]
      BY <1>1, <2>1, <3>1
    <3> DEFINE a == p[n + 1]
               b == Append(q, x)
    <3>3. a \in Seq(Seq(E)) /\ b \in Seq(Seq(E)) /\ Len(a) = Len(b) /\ \A i \in 1 .. Len(a) : a[i] = b[i]
      BY <1>1, <3>1, <3>2
    <3> HIDE DEF a, b
    <3>4. a = b
      BY <3>3, SeqEqual
    <3> QED BY <3>4 DEF a, b
  <2>3. r \o Append(q, x) = Append(r \o q, x)
    BY <2>1
  <2>4. FlattenSeq(r \o q) = FlattenSeq(r) \o FlattenSeq(q)
    BY <1>4
  <2> HIDE DEF p, T, x, q
  <2>5. /\ FlattenSeq(Append(q, x)) = FlattenSeq(q) \o x /\ FlattenSeq(q) \in Seq(E)
        /\ FlattenSeq(Append(r \o q, x)) = FlattenSeq(r \o q) \o x
    BY <2>1, FlattenAppend
  <2>6. (FlattenSeq(r) \o FlattenSeq(q)) \o x = FlattenSeq(r) \o (FlattenSeq(q) \o x)
    <3> DEFINE a == FlattenSeq(r)
               b == FlattenSeq(q)
    <3>1. a \in Seq(E) /\ b \in Seq(E) /\ x \in Seq(E)
      BY <1>2, <2>1, <2>5
    <3> HIDE DEF a, b
    <3>2. (a \o b) \o x = a \o (b \o x)
      BY <3>1
    <3> QED BY <3>2 DEF a, b
  <2>7. FlattenSeq(r \o p[n + 1]) = FlattenSeq(r) \o FlattenSeq(p[n + 1])
    BY <2>2, <2>3, <2>4, <2>5, <2>6
  <2> QED BY <2>1, <2>7 DEF T
<1>5. N \in T
  <2> HIDE DEF T
  <2>1. 0 .. N \subseteq T
    BY <1>1, <1>3, <1>4, UpToInduction
  <2> QED BY <1>1, <2>1
<1>6. p[N] = s
  OBVIOUS
<1> QED BY <1>5, <1>6
-----------------------------------------------------------------------------
(* Sequences one after another.                                            *)

\* One element more at the end of the second of two sequences.
LEMMA AppendBehind ==
    ASSUME NEW S, NEW s \in Seq(S), NEW t \in Seq(S), NEW x \in S
    PROVE  /\ s \o Append(t, x) = Append(s \o t, x)
           /\ s \o <<>> = s /\ <<>> \o s = s
           /\ Append(t, x) = t \o <<x>> /\ Append(t, x) # <<>> /\ Append(t, x) \in Seq(S)
OBVIOUS

LEMMA ThenMore ==
    ASSUME NEW S, NEW s \in Seq(S), NEW t \in Seq(S), NEW x \in S
    PROVE  /\ s \o (<<x>> \o t) = Append(s, x) \o t
           /\ Append(s, x) \in Seq(S) /\ Append(s, x) # <<>>
           /\ s # <<>> => Append(s, x)[1] = s[1]
<1>1. s \o (<<x>> \o t) = (s \o <<x>>) \o t /\ s \o <<x>> = Append(s, x)
  <2>1. <<x>> \in Seq(S)
    OBVIOUS
  <2> DEFINE y == <<x>>
  <2>2. s \o y = Append(s, x)
    OBVIOUS
  <2> HIDE DEF y
  <2>3. s \o (y \o t) = (s \o y) \o t
    BY <2>1 DEF y
  <2> QED BY <2>2, <2>3 DEF y
<1> QED BY <1>1

\* The first and the last symbol of two texts.
LEMMA EndsOf ==
    ASSUME NEW S, NEW s \in Seq(S), NEW t \in Seq(S)
    PROVE  /\ s \o t \in Seq(S)
           /\ s # <<>> => s \o t # <<>> /\ (s \o t)[1] = s[1]
           /\ t # <<>> => s \o t # <<>> /\ (s \o t)[Len(s \o t)] = t[Len(t)]
           /\ t = <<>> => s \o t = s
           /\ s = <<>> => s \o t = t
<1> DEFINE u == s \o t
<1>1. /\ u \in Seq(S) /\ Len(u) = Len(s) + Len(t)
      /\ \A i \in 1 .. Len(s) + Len(t) : u[i] = IF i <= Len(s) THEN s[i] ELSE t[i - Len(s)]
  BY ConcatProperties, Zenon
<1>2. (t = <<>> => u = s) /\ (s = <<>> => u = t)
  BY ConcatEmptySeq
<1> HIDE DEF u
<1>3. ASSUME s # <<>> PROVE u # <<>> /\ u[1] = s[1]
  <2>1. 1 \in 1 .. Len(s) + Len(t) /\ 1 <= Len(s)
    BY <1>3
  <2> QED BY <1>1, <2>1
<1>4. ASSUME t # <<>> PROVE u # <<>> /\ u[Len(u)] = t[Len(t)]
  <2>1. Len(u) \in 1 .. Len(s) + Len(t) /\ ~(Len(u) <= Len(s)) /\ Len(u) - Len(s) = Len(t)
    BY <1>1, <1>4
  <2> QED BY <1>1, <2>1
<1> QED BY <1>1, <1>2, <1>3, <1>4 DEF u

\* The symbols of three texts one after another.
LEMMA ThreeTogether ==
    ASSUME NEW S, NEW a \in Seq(S), NEW m \in Seq(S), NEW c \in Seq(S)
    PROVE  LET s == a \o (m \o c)
           IN  /\ s \in Seq(S) /\ Len(s) = Len(a) + Len(m) + Len(c)
               /\ \A i \in 1 .. Len(a) : s[i] = a[i]
               /\ \A i \in 1 .. Len(m) : s[Len(a) + i] = m[i]
               /\ \A i \in 1 .. Len(c) : s[Len(a) + Len(m) + i] = c[i]
<1> DEFINE t == m \o c
<1>1. /\ t \in Seq(S) /\ Len(t) = Len(m) + Len(c)
      /\ \A i \in 1 .. Len(m) : t[i] = m[i]
      /\ \A i \in 1 .. Len(c) : t[Len(m) + i] = c[i]
  OBVIOUS
<1> HIDE DEF t
<1> DEFINE s == a \o t
<1>2. /\ s \in Seq(S) /\ Len(s) = Len(a) + Len(t)
      /\ \A i \in 1 .. Len(a) : s[i] = a[i]
      /\ \A i \in 1 .. Len(t) : s[Len(a) + i] = t[i]
  <2>1. /\ s \in Seq(S) /\ Len(s) = Len(a) + Len(t)
        /\ \A i \in 1 .. Len(a) + Len(t) : s[i] = IF i <= Len(a) THEN a[i] ELSE t[i - Len(a)]
    <3>1. t \in Seq(S)
      BY <1>1
    <3> QED BY <3>1, ConcatProperties, Zenon
  <2>2. /\ \A i \in 1 .. Len(a) : i \in 1 .. Len(a) + Len(t) /\ i <= Len(a)
        /\ \A i \in 1 .. Len(t) : Len(a) + i \in 1 .. Len(a) + Len(t) /\ ~(Len(a) + i <= Len(a))
                                   /\ Len(a) + i - Len(a) = i
    BY <1>1
  <2> HIDE DEF s
  <2> QED BY <2>1, <2>2
<1> HIDE DEF s
<1>3. ASSUME NEW i \in 1 .. Len(m) PROVE s[Len(a) + i] = m[i]
  <2>1. i \in 1 .. Len(t) /\ t[i] = m[i]
    BY <1>1
  <2> QED BY <1>2, <2>1
<1>4. ASSUME NEW i \in 1 .. Len(c) PROVE s[Len(a) + Len(m) + i] = c[i]
  <2>1. Len(m) + i \in 1 .. Len(t) /\ t[Len(m) + i] = c[i]
    BY <1>1
  <2>2. Len(a) + Len(m) + i = Len(a) + (Len(m) + i)
    OBVIOUS
  <2> QED BY <1>2, <2>1, <2>2
<1>5. s \in Seq(S) /\ Len(s) = Len(a) + Len(m) + Len(c) /\ \A i \in 1 .. Len(a) : s[i] = a[i]
  BY <1>1, <1>2
<1> QED BY <1>3, <1>4, <1>5 DEF s, t

\* Sequences of one and of two elements.
LEMMA OneTwo ==
    ASSUME NEW S, NEW x \in S, NEW y \in S
    PROVE  /\ <<x>> \in Seq(S) /\ <<x>> # <<>> /\ Len(<<x>>) = 1 /\ <<x>>[1] = x
           /\ <<x, y>> \in Seq(S) /\ <<x, y>> # <<>> /\ Len(<<x, y>>) = 2
           /\ <<x, y>>[1] = x /\ <<x, y>>[2] = y
           /\ <<x, y>> = <<x>> \o <<y>>
<1> DEFINE a == <<x>>
           b == <<x, y>>
           c == a \o <<y>>
<1>1. /\ a \in Seq(S) /\ a # <<>> /\ Len(a) = 1 /\ a[1] = x
      /\ b \in Seq(S) /\ b # <<>> /\ Len(b) = 2 /\ b[1] = x /\ b[2] = y
  OBVIOUS
<1> HIDE DEF a, b
<1>2. c \in Seq(S) /\ Len(c) = 2 /\ c[1] = x /\ c[2] = y
  <2>1. Append(a, y) = c /\ Append(a, y) \in Seq(S)
    BY <1>1, AppendBehind
  <2>2. Len(Append(a, y)) = 2 /\ Append(a, y)[1] = x /\ Append(a, y)[2] = y
    BY <1>1
  <2> QED BY <2>1, <2>2
<1> HIDE DEF c
<1>3. \A i \in 1 .. Len(b) : b[i] = c[i]
  BY <1>1, <1>2
<1>4. b = c
  BY <1>1, <1>2, <1>3, SeqEqual
<1> QED BY <1>1, <1>4 DEF a, b, c

Together(p, q, r) == (p \o q) \o r
\* The elements of three sequences of one element.
LEMMA Tripled ==
    ASSUME NEW S, NEW p \in S, NEW q \in S, NEW r \in S
    PROVE  Together(<<p>>, <<q>>, <<r>>) = <<p, q, r>>
<1> DEFINE u == <<p, q>>
           v == u \o <<r>>
           w == <<p, q, r>>
<1>1. <<p>> \o <<q>> = u /\ u \in Seq(S) /\ Len(u) = 2 /\ u[1] = p /\ u[2] = q
  BY OneTwo
<1>2. w \in Seq(S) /\ Len(w) = 3 /\ w[1] = p /\ w[2] = q /\ w[3] = r
  OBVIOUS
<1> HIDE DEF u, w
<1>3. v \in Seq(S) /\ Len(v) = 3 /\ v[1] = p /\ v[2] = q /\ v[3] = r
  <2>1. Append(u, r) = v /\ Append(u, r) \in Seq(S)
    BY <1>1, AppendBehind
  <2> HIDE DEF v
  <2>2. Len(Append(u, r)) = 3 /\ Append(u, r)[1] = p /\ Append(u, r)[2] = q /\ Append(u, r)[3] = r
    <3>1. u \in Seq(S) /\ Len(u) = 2 /\ u[1] = p /\ u[2] = q /\ r \in S
      BY <1>1
    <3>2. 1 \in 1 .. 3 /\ 2 \in 1 .. 3 /\ 3 \in 1 .. 3 /\ 2 + 1 = 3
      OBVIOUS
    <3> QED BY <3>1, <3>2, AppendProperties
  <2> QED BY <2>1, <2>2
<1> HIDE DEF v
<1>4. \A i \in 1 .. 3 : v[i] = w[i]
  <2>1. \A i \in 1 .. 3 : i = 1 \/ i = 2 \/ i = 3
    OBVIOUS
  <2> QED BY <1>2, <1>3, <2>1
<1>5. v = w
  BY <1>2, <1>3, <1>4, SeqEqual
<1> QED BY <1>1, <1>5 DEF v, w, Together

\* The piece of a text that stands in the middle.
LEMMA MiddleOf ==
    ASSUME NEW S, NEW a \in Seq(S), NEW m \in Seq(S), NEW c \in Seq(S)
    PROVE  SubSeq(a \o (m \o c), Len(a) + 1, Len(a) + Len(m)) = m
<1> DEFINE s == a \o (m \o c)
           A == Len(a)
           M == Len(m)
           t == SubSeq(s, A + 1, A + M)
<1>1. A \in Nat /\ M \in Nat /\ \A i \in 1 .. M : m[i] \in S
  OBVIOUS
<1>2. \A i \in 1 .. M : s[A + i] = m[i]
  BY ThreeTogether
<1> HIDE DEF s, A, M
<1>3. t \in Seq(S) /\ Len(t) = M /\ \A i \in 1 .. M : t[i] = m[i]
  <2>1. \A i \in A + 1 .. A + M : s[i] \in S
    <3> SUFFICES ASSUME NEW i \in A + 1 .. A + M PROVE s[i] \in S
      OBVIOUS
    <3>1. i - A \in 1 .. M /\ A + (i - A) = i
      BY <1>1
    <3>2. s[A + (i - A)] = m[i - A]
      BY <1>2, <3>1
    <3> QED BY <1>1, <3>1, <3>2
  <2>2. A + 1 \in Int /\ A + M \in Int /\ (A + M) - (A + 1) + 1 = M /\ (A + 1 <= A + M \/ M = 0)
    BY <1>1
  <2>3. /\ t \in Seq(S) /\ Len(t) = (IF A + 1 <= A + M THEN (A + M) - (A + 1) + 1 ELSE 0)
        /\ \A i \in 1 .. (A + M) - (A + 1) + 1 : t[i] = s[A + 1 + i - 1]
    BY <2>1, <2>2, SubSeqProperties
  <2>4. \A i \in 1 .. M : A + 1 + i - 1 = A + i
    BY <1>1
  <2> HIDE DEF t
  <2> QED BY <1>1, <1>2, <2>2, <2>3, <2>4
<1> HIDE DEF t
<1>4. t = m
  BY <1>3, SeqEqual DEF M
<1> QED BY <1>4 DEF t, s, A, M

\* What stands in front is a prefix.
LEMMA PrefixOf ==
    ASSUME NEW S, NEW s \in Seq(S), NEW t \in Seq(S)
    PROVE  IsPrefix(s, s \o t)
<1> DEFINE u == s \o t
           o == <<>>
<1>1. u \in Seq(S) /\ Len(s) \in Nat /\ Len(t) \in Nat /\ Len(u) = Len(s) + Len(t) /\ o \in Seq(S) /\ Len(o) = 0
  OBVIOUS
<1>2. o \o u = u
  BY <1>1, ConcatEmptySeq
<1> HIDE DEF o
<1>3. SubSeq(o \o (s \o t), Len(o) + 1, Len(o) + Len(s)) = s
  BY <1>1, MiddleOf
<1>4. SubSeq(s, 1, Len(s)) = s
  BY SubSeqFull
<1>5. SubSeq(u, 1, Len(s)) = s
  <2>1. 0 + 1 = 1 /\ 0 + Len(s) = Len(s)
    BY <1>1
  <2> QED BY <1>1, <1>2, <1>3, <2>1
<1> HIDE DEF u
<1> QED BY <1>1, <1>4, <1>5 DEF IsPrefix, u

\* Texts whose first parts are equally long are put together of equal parts.
LEMMA SameParts ==
    ASSUME NEW S, NEW s \in Seq(S), NEW t \in Seq(S), NEW u \in Seq(S), NEW v \in Seq(S),
           s \o t = u \o v, Len(s) = Len(u)
    PROVE  s = u /\ t = v
<1> DEFINE w == s \o t
           A == Len(s)
           x == u \o v
<1>1. /\ Len(w) = A + Len(t)
      /\ \A i \in 1 .. A + Len(t) : w[i] = IF i <= A THEN s[i] ELSE t[i - A]
  BY ConcatProperties, Zenon
<1>2. /\ Len(x) = A + Len(v)
      /\ \A i \in 1 .. A + Len(v) : x[i] = IF i <= A THEN u[i] ELSE v[i - A]
  <2>1. /\ Len(x) = Len(u) + Len(v)
        /\ \A i \in 1 .. Len(u) + Len(v) : x[i] = IF i <= Len(u) THEN u[i] ELSE v[i - Len(u)]
    BY ConcatProperties, Zenon
  <2> HIDE DEF x
  <2> QED BY <2>1
<1>3. w = x /\ A \in Nat /\ Len(t) \in Nat /\ Len(v) \in Nat /\ A = Len(s) /\ A = Len(u)
  OBVIOUS
<1> HIDE DEF w, x, A
<1>4. Len(t) = Len(v)
  BY <1>1, <1>2, <1>3
<1>5. \A i \in 1 .. A : s[i] = u[i]
  <2>1. \A i \in 1 .. A : i \in 1 .. A + Len(t) /\ i \in 1 .. A + Len(v) /\ i <= A
    BY <1>3
  <2> QED BY <1>1, <1>2, <1>3, <2>1
<1>6. \A i \in 1 .. Len(t) : t[i] = v[i]
  <2> SUFFICES ASSUME NEW i \in 1 .. Len(t) PROVE t[i] = v[i]
    OBVIOUS
  <2>1. A + i \in 1 .. A + Len(t) /\ ~(A + i <= A) /\ A + i - A = i
    BY <1>3
  <2>2. w[A + i] = t[i]
    BY <1>1, <1>3, <2>1
  <2>3. x[A + i] = v[i]
    <3>1. A + i \in 1 .. A + Len(v)
      BY <1>4, <2>1
    <3>2. x[A + i] = IF A + i <= A THEN u[A + i] ELSE v[A + i - A]
      BY <1>2, <1>3, <3>1
    <3> QED BY <2>1, <3>2
  <2> QED BY <1>3, <2>2, <2>3
<1> QED BY <1>3, <1>4, <1>5, <1>6, SeqEqual

\* A symbol between two texts.
SymbolBetween(w, s, x, t) ==
    /\ Len(w) = Len(s) + 1 + Len(t)
    /\ w[Len(s) + 1] = x
    /\ \A i \in 1 .. Len(s) : w[i] = s[i]

LEMMA ReadBetween ==
    ASSUME NEW S, NEW s \in Seq(S), NEW x \in S, NEW t \in Seq(S)
    PROVE  s \o (<<x>> \o t) \in Seq(S) /\ SymbolBetween(s \o (<<x>> \o t), s, x, t)
<1> DEFINE m == <<x>>
           w == s \o (m \o t)
<1>1. m \in Seq(S) /\ Len(m) = 1 /\ m[1] = x
  OBVIOUS
<1> HIDE DEF m
<1>2. m \in Seq(S)
  BY <1>1
<1>3. \A i \in 1 .. Len(m) : w[Len(s) + i] = m[i]
  BY <1>2, ThreeTogether
<1>4. \A i \in 1 .. Len(s) : w[i] = s[i]
  BY <1>2, ThreeTogether
<1>5. Len(w) = Len(s) + Len(m) + Len(t) /\ w \in Seq(S)
  BY <1>2, ThreeTogether
<1> HIDE DEF w
<1>6. 1 \in 1 .. Len(m)
  BY <1>1
<1> QED BY <1>1, <1>3, <1>4, <1>5, <1>6 DEF SymbolBetween, w, m

\* A symbol that two texts do not have is found at one place behind them.
LEMMA SameCut ==
    ASSUME NEW S, NEW s \in Seq(S), NEW t \in Seq(S), NEW u \in Seq(S), NEW v \in Seq(S),
           NEW x \in S, x \notin ToSet(s), x \notin ToSet(u),
           s \o (<<x>> \o t) = u \o (<<x>> \o v)
    PROVE  s = u /\ t = v
<1> DEFINE w == s \o (<<x>> \o t)
<1>1. /\ \A i \in 1 .. Len(s) : s[i] # x
      /\ \A i \in 1 .. Len(u) : u[i] # x
      /\ Len(s) \in Nat /\ Len(u) \in Nat
  BY DEF ToSet
<1>2. SymbolBetween(w, s, x, t)
  BY ReadBetween
<1>3. SymbolBetween(w, u, x, v)
  BY ReadBetween
<1> HIDE DEF w
<1>4. ASSUME Len(s) < Len(u) PROVE FALSE
  <2>1. Len(s) + 1 \in 1 .. Len(u)
    BY <1>1, <1>4
  <2> QED BY <1>1, <1>2, <1>3, <2>1 DEF SymbolBetween
<1>5. ASSUME Len(u) < Len(s) PROVE FALSE
  <2>1. Len(u) + 1 \in 1 .. Len(s)
    BY <1>1, <1>5
  <2> QED BY <1>1, <1>2, <1>3, <2>1 DEF SymbolBetween
<1>6. Len(s) = Len(u)
  BY <1>1, <1>4, <1>5
<1>7. <<x>> \in Seq(S) /\ <<x>> \o t \in Seq(S) /\ <<x>> \o v \in Seq(S)
  OBVIOUS
<1>8. s = u /\ <<x>> \o t = <<x>> \o v
  BY <1>6, <1>7, SameParts
<1>9. t = v
  BY <1>7, <1>8, SameParts
<1> QED BY <1>8, <1>9

\* A text with a symbol is not one without it.
LEMMA HasMiddle ==
    ASSUME NEW S, NEW s \in Seq(S), NEW t \in Seq(S), NEW x \in S
    PROVE  x \in ToSet(s \o (<<x>> \o t))
<1> DEFINE w == s \o (<<x>> \o t)
<1>1. w \in Seq(S) /\ SymbolBetween(w, s, x, t)
  BY ReadBetween
<1> HIDE DEF w
<1>2. Len(s) + 1 \in 1 .. Len(w) /\ w[Len(s) + 1] = x /\ DOMAIN w = 1 .. Len(w)
  BY <1>1 DEF SymbolBetween
<1>3. x \in ToSet(w)
  BY <1>2 DEF ToSet
<1> QED BY <1>3 DEF w

\* A symbol that two texts together do not have is in neither.
LEMMA InParts ==
    ASSUME NEW S, NEW s \in Seq(S), NEW t \in Seq(S), NEW x, x \notin ToSet(s \o t)
    PROVE  x \notin ToSet(s) /\ x \notin ToSet(t)
<1> DEFINE w == s \o t
<1>0. Len(s) \in Nat /\ Len(t) \in Nat
  OBVIOUS
<1>1. /\ w \in Seq(S) /\ Len(w) = Len(s) + Len(t)
      /\ \A i \in 1 .. Len(s) + Len(t) : w[i] = IF i <= Len(s) THEN s[i] ELSE t[i - Len(s)]
  BY ConcatProperties, Zenon
<1>2. \A i \in 1 .. Len(w) : w[i] # x
  BY <1>1 DEF ToSet
<1> HIDE DEF w
<1>3. ASSUME NEW i \in 1 .. Len(s) PROVE s[i] # x
  BY <1>0, <1>1, <1>2
<1>4. ASSUME NEW i \in 1 .. Len(t) PROVE t[i] # x
  <2>1. Len(s) + i \in 1 .. Len(w) /\ ~(Len(s) + i <= Len(s)) /\ Len(s) + i - Len(s) = i
    BY <1>0, <1>1
  <2> QED BY <1>0, <1>1, <1>2, <2>1
<1> QED BY <1>3, <1>4 DEF ToSet

=============================================================================
