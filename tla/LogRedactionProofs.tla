-------------------------- MODULE LogRedactionProofs --------------------------
(***************************************************************************)
(* The safety invariants of LogRedaction, for every token, alphabet, line    *)
(* of the agent and bound.                                                   *)
(*                                                                          *)
(* The argument has two halves.  What the writer does to one line: a pass    *)
(* over a sequence is computed from its end, so what holds of its result is  *)
(* shown from the last position to the first (Backwards), and gives that     *)
(* strings.ReplaceAll leaves no secret without an asterisk (NoOccurrence):   *)
(* what it leaves between two masks is a piece of the line.  And what the    *)
(* writer does to the stream: the buffer is the stream from behind a line    *)
(* end on, and as many lines have left it as end there (BufferIsTheRest), so *)
(* the first line of the buffer is the next line of the stream (CutNext).    *)
(***************************************************************************)
EXTENDS LogRedaction, SequenceTheorems, FiniteSetTheorems, WellFoundedInduction, TLAPS

-----------------------------------------------------------------------------
(* Induction *)

\* Every set of natural numbers that is not empty has a least element.
LEMMA LeastNatural ==
    ASSUME NEW T, T \subseteq Nat, T # {}
    PROVE  \E x \in T : \A y \in T : x <= y
<1> DEFINE R == OpToRel(<, Nat)
<1>1. IsWellFoundedOn(R, Nat)
  BY NatLessThanWellFounded
<1>2. \A x, y \in Nat : <<y, x>> \in R <=> y < x
  BY DEF OpToRel
<1> HIDE DEF R
<1>3. PICK x \in T : \A y \in T : ~ (<<y, x>> \in R)
  BY <1>1, WFMin
<1>4. \A y \in T : ~(y < x)
  BY <1>2, <1>3
<1>5. \A y \in T : x <= y
  BY <1>4
<1> QED
  BY <1>5

\* Induction from the end of a sequence to its beginning: T is the set of the
\* positions of which something holds.
LEMMA Backwards ==
    ASSUME NEW n \in Nat, NEW T, n + 1 \in T,
           \A i \in 1 .. n : (\A j \in i + 1 .. n + 1 : j \in T) => i \in T
    PROVE  \A i \in 1 .. n + 1 : i \in T
<1> SUFFICES ASSUME NEW k \in 1 .. n + 1, k \notin T
             PROVE  FALSE
  OBVIOUS
<1> DEFINE D == {d \in Nat : d <= n /\ n + 1 - d \notin T}
<1>1. n + 1 - k \in D
  OBVIOUS
<1>2. PICK d \in D : \A e \in D : d <= e
  BY <1>1, LeastNatural
<1> DEFINE i == n + 1 - d
<1>3. i \in 1 .. n + 1 /\ i \notin T
  OBVIOUS
<1>4. i \in 1 .. n
  BY <1>3
<1>5. ASSUME NEW j \in i + 1 .. n + 1
      PROVE  j \in T
  <2>1. n + 1 - j \in Nat /\ n + 1 - j < d
    OBVIOUS
  <2>2. n + 1 - j \notin D
    BY <1>2, <2>1
  <2>3. n + 1 - (n + 1 - j) = j
    OBVIOUS
  <2> QED
    BY <2>1, <2>2, <2>3
<1> QED
  BY <1>3, <1>4, <1>5

\* A recursive definition of a function on 1..n+1 with values in V: its value at
\* the end, and at every other position by the value at a later one.
Recursive(n, V, last, next, step) ==
    /\ n \in Nat /\ last \in V
    /\ next \in [1 .. n -> Nat] /\ step \in [1 .. n -> [V -> V]]
    /\ \A i \in 1 .. n : next[i] \in i + 1 .. n + 1

Solves(g, n, last, next, step) ==
    g[n + 1] = last /\ \A i \in 1 .. n : g[i] = step[i][g[next[i]]]

\* Such a definition has a solution.
LEMMA Recursion ==
    ASSUME NEW n, NEW V, NEW last, NEW next, NEW step, Recursive(n, V, last, next, step)
    PROVE  \E g \in [1 .. n + 1 -> V] : Solves(g, n, last, next, step)
<1> USE DEF Recursive
<1> DEFINE F == [1 .. n + 1 -> V]
           Good(g, k) == g[n + 1] = last /\ \A i \in k .. n : g[i] = step[i][g[next[i]]]
           T == {k \in 1 .. n + 1 : \E g \in F : Good(g, k)}
<1>1. n + 1 \in T
  <2> DEFINE g == [i \in 1 .. n + 1 |-> last]
  <2>1. g \in F /\ Good(g, n + 1)
    OBVIOUS
  <2> QED
    BY <2>1
<1>2. ASSUME NEW k \in 1 .. n, k + 1 \in T
      PROVE  k \in T
  <2>1. PICK g \in F : Good(g, k + 1)
    BY <1>2
  <2> DEFINE h == [g EXCEPT ![k] = step[k][g[next[k]]]]
  <2>2. next[k] \in 1 .. n + 1
    OBVIOUS
  <2>3. g[next[k]] \in V
    BY <2>2
  <2>4. step[k][g[next[k]]] \in V
    BY <2>3
  <2>5. h \in F
    BY <2>4
  <2>6. h[k] = step[k][g[next[k]]] /\ \A i \in k + 1 .. n + 1 : h[i] = g[i]
    OBVIOUS
  <2> HIDE DEF h
  <2>7. ASSUME NEW i \in k .. n
        PROVE  h[i] = step[i][h[next[i]]]
    <3>1. h[next[i]] = g[next[i]]
      BY <2>6
    <3>2. CASE i = k
      BY <2>6, <3>1, <3>2
    <3>3. CASE i # k
      <4>1. i \in k + 1 .. n /\ h[i] = g[i]
        BY <2>6, <3>3
      <4>2. g[i] = step[i][g[next[i]]]
        BY <2>1, <4>1
      <4> QED
        BY <3>1, <4>1, <4>2
    <3> QED
      BY <3>2, <3>3
  <2>8. h[n + 1] = last
    BY <2>1, <2>6
  <2>9. Good(h, k)
    BY <2>7, <2>8
  <2> QED
    BY <2>5, <2>9
<1>3. \A k \in 1 .. n : (\A j \in k + 1 .. n + 1 : j \in T) => k \in T
  <2> HIDE DEF T
  <2> QED
    BY <1>2
<1>4. 1 \in T
  <2> HIDE DEF T
  <2>1. \A i \in 1 .. n + 1 : i \in T
    BY <1>1, <1>3, Backwards
  <2> QED
    BY <2>1
<1>5. PICK g \in F : Good(g, 1)
  BY <1>4
<1> QED
  BY <1>5 DEF Solves

-----------------------------------------------------------------------------
(* Passes *)

\* A function on 1..n is a sequence of length n.
LEMMA AFunctionIsASequence ==
    ASSUME NEW S, NEW n \in Nat, NEW q \in [1 .. n -> S]
    PROVE  q \in Seq(S) /\ Len(q) = n
<1>1. q \in Seq(S)
  BY SeqDef
<1>2. DOMAIN q = 1 .. n /\ DOMAIN q = 1 .. Len(q) /\ Len(q) \in Nat
  BY <1>1, LenProperties
<1> QED
  BY <1>1, <1>2

\* A pass that goes on at every position and not beyond the end.
Paced(piece, skip) ==
    \A i \in 1 .. Len(piece) : /\ skip[i] \in Nat \ {0}
                               /\ i + skip[i] <= Len(piece) + 1

Passable(S, piece, skip) == piece \in Seq(Seq(S)) /\ Paced(piece, skip)

\* f is what its recursive definition says.
IsTails(f, S, piece, skip) ==
    /\ f \in [1 .. Len(piece) + 1 -> Seq(S)]
    /\ f[Len(piece) + 1] = <<>>
    /\ \A i \in 1 .. Len(piece) : f[i] = piece[i] \o f[i + skip[i]]

\* Tails, with a pass that does not go beyond the end, is such a function.
LEMMA TailsFacts ==
    ASSUME NEW S, NEW piece, NEW skip, Passable(S, piece, skip)
    PROVE  IsTails(Tails(piece, skip), S, piece, skip)
<1>0. piece \in Seq(Seq(S)) /\ Paced(piece, skip)
  BY DEF Passable
<1> DEFINE n == Len(piece)
           f == Tails(piece, skip)
           Step(g, i) == IF i > n THEN <<>> ELSE piece[i] \o g[i + skip[i]]
           next == [i \in 1 .. n |-> i + skip[i]]
           step == [i \in 1 .. n |-> [v \in Seq(S) |-> piece[i] \o v]]
<1>1. n \in Nat /\ \A i \in 1 .. n : piece[i] \in Seq(S)
  BY <1>0
<1>2. \A i \in 1 .. n : i + skip[i] \in i + 1 .. n + 1
  BY <1>0, <1>1 DEF Paced
<1>3. f = CHOOSE g : g = [i \in 1 .. n + 1 |-> Step(g, i)]
  BY DEF Tails
<1>4. <<>> \in Seq(S)
  OBVIOUS
<1>5. \A i \in 1 .. n : \A v \in Seq(S) : piece[i] \o v \in Seq(S)
  BY <1>1
<1> HIDE DEF n, f
<1>6. next \in [1 .. n -> Nat] /\ \A i \in 1 .. n : next[i] \in i + 1 .. n + 1
  BY <1>1, <1>2
<1>7. step \in [1 .. n -> [Seq(S) -> Seq(S)]]
  BY <1>5
<1>8. PICK g \in [1 .. n + 1 -> Seq(S)] :
        g[n + 1] = <<>> /\ \A i \in 1 .. n : g[i] = step[i][g[next[i]]]
  <2> DEFINE V == Seq(S)
             empty == <<>>
  <2>1. empty \in V /\ step \in [1 .. n -> [V -> V]] /\ n \in Nat
    BY <1>1, <1>4, <1>7
  <2>2. Recursive(n, V, empty, next, step)
    BY <1>6, <2>1, Zenon DEF Recursive
  <2> HIDE DEF next, step, V, empty
  <2>3. \E g \in [1 .. n + 1 -> V] : Solves(g, n, empty, next, step)
    BY <2>2, Recursion
  <2> QED
    BY <2>3 DEF V, empty, Solves
<1>9. \A i \in 1 .. n : g[i] = piece[i] \o g[i + skip[i]]
  <2> SUFFICES ASSUME NEW i \in 1 .. n
               PROVE  g[i] = piece[i] \o g[i + skip[i]]
    OBVIOUS
  <2>1. g[next[i]] \in Seq(S) /\ next[i] = i + skip[i]
    BY <1>1, <1>6
  <2>2. step[i][g[next[i]]] = piece[i] \o g[next[i]]
    BY <2>1
  <2> QED
    BY <1>8, <2>1, <2>2
<1>10. g = [i \in 1 .. n + 1 |-> Step(g, i)]
  <2>1. \A i \in 1 .. n + 1 : g[i] = Step(g, i)
    <3> SUFFICES ASSUME NEW i \in 1 .. n + 1
                 PROVE  g[i] = Step(g, i)
      OBVIOUS
    <3>1. CASE i \in 1 .. n
      <4>1. ~(i > n)
        BY <1>1, <3>1
      <4> QED
        BY <1>9, <3>1, <4>1, Zenon
    <3>2. CASE i = n + 1
      <4>1. i > n
        BY <1>1, <3>2
      <4> QED
        BY <1>8, <3>2, <4>1, Zenon
    <3>3. i \in 1 .. n \/ i = n + 1
      BY <1>1
    <3> HIDE DEF Step
    <3> QED
      BY <3>1, <3>2, <3>3
  <2> HIDE DEF Step
  <2> QED
    BY <2>1
<1>11. f = [i \in 1 .. n + 1 |-> Step(f, i)]
  <2> HIDE DEF Step
  <2> QED
    BY <1>3, <1>10
<1>12. f[n + 1] = <<>> /\ \A i \in 1 .. n : f[i] = piece[i] \o f[i + skip[i]]
  <2>1. \A i \in 1 .. n + 1 : f[i] = Step(f, i)
    <3> HIDE DEF Step
    <3> QED
      BY <1>11
  <2>2. Step(f, n + 1) = <<>>
    BY <1>1, n + 1 > n
  <2>3. ASSUME NEW i \in 1 .. n
        PROVE  Step(f, i) = piece[i] \o f[i + skip[i]]
    <3>1. ~(i > n)
      BY <1>1
    <3> QED
      BY <3>1, Zenon
  <2> HIDE DEF Step
  <2>4. f[n + 1] = <<>>
    BY <1>1, <2>1, <2>2
  <2>5. ASSUME NEW i \in 1 .. n
        PROVE  f[i] = piece[i] \o f[i + skip[i]]
    <3>1. i \in 1 .. n + 1
      BY <1>1
    <3> QED
      BY <2>1, <2>3, <3>1
  <2> QED
    BY <2>4, <2>5
<1>13. \A i \in 1 .. n + 1 : f[i] \in Seq(S)
  <2> DEFINE T == {i \in 1 .. n + 1 : f[i] \in Seq(S)}
  <2>1. n + 1 \in T
    <3>1. f[n + 1] \in Seq(S)
      BY <1>4, <1>12, Zenon
    <3>2. n + 1 \in 1 .. n + 1
      BY <1>1
    <3> QED
      BY <3>1, <3>2
  <2>2. ASSUME NEW k \in 1 .. n, \A j \in k + 1 .. n + 1 : j \in T
        PROVE  k \in T
    <3>1. f[k + skip[k]] \in Seq(S)
      BY <1>2, <2>2
    <3>2. piece[k] \o f[k + skip[k]] \in Seq(S)
      BY <1>5, <3>1
    <3>3. f[k] \in Seq(S)
      BY <1>12, <3>2, Zenon
    <3>4. k \in 1 .. n + 1
      BY <1>1
    <3> QED
      BY <3>3, <3>4
  <2>3. \A i \in 1 .. n + 1 : i \in T
    <3> HIDE DEF T
    <3> QED
      BY <1>1, <2>1, <2>2, Backwards
  <2> QED
    BY <2>3
<1>14. f \in [1 .. n + 1 -> Seq(S)]
  <2> HIDE DEF Step
  <2> QED
    BY <1>11, <1>13
<1> QED
  BY <1>12, <1>14 DEF n, f, IsTails

-----------------------------------------------------------------------------
(* ReplaceAll *)

\* secret is found in line at position i.
LEMMA OccursFacts ==
    ASSUME NEW S, NEW s \in Seq(S), NEW line \in Seq(S), NEW i \in 1 .. Len(line)
    PROVE  OccursAt(s, line, i) <=> /\ i + Len(s) - 1 <= Len(line)
                                    /\ \A r \in 1 .. Len(s) : s[r] = line[i + r - 1]
<1> DEFINE u == SubSeq(line, i, Len(line))
<1>1. /\ u \in Seq(S) /\ Len(u) = Len(line) - i + 1
      /\ \A r \in 1 .. Len(u) : u[r] = line[i + r - 1]
  OBVIOUS
<1>2. SubSeq(s, 1, Len(s)) = s
  OBVIOUS
<1> HIDE DEF u
<1>3. CASE Len(s) <= Len(u)
  <2>1. /\ SubSeq(u, 1, Len(s)) \in Seq(S)
        /\ Len(SubSeq(u, 1, Len(s))) = Len(s)
        /\ \A r \in 1 .. Len(s) : SubSeq(u, 1, Len(s))[r] = u[r]
    BY <1>1, <1>3
  <2>2. s = SubSeq(u, 1, Len(s)) <=> \A r \in 1 .. Len(s) : s[r] = u[r]
    BY <2>1, SeqEqual
  <2> QED
    BY <1>1, <1>2, <1>3, <2>2 DEF OccursAt, IsPrefix, u
<1>4. CASE ~(Len(s) <= Len(u))
  BY <1>1, <1>4 DEF OccursAt, IsPrefix, u
<1> QED
  BY <1>3, <1>4

\* t is c followed by u.
IsCons(t, c, u) == /\ Len(t) = Len(u) + 1
                 /\ t[1] = c
                 /\ \A r \in 1 .. Len(u) : t[r + 1] = u[r]

\* <<c>> \o u is c followed by u.
LEMMA ConsFacts ==
    ASSUME NEW S, NEW c \in S, NEW u \in Seq(S)
    PROVE  IsCons(<<c>> \o u, c, u)
BY DEF IsCons

\* t is the mask followed by u.
IsMasked(t, u) == /\ Len(t) = Len(u) + 4
                  /\ \A r \in 1 .. 4 : t[r] = Star
                  /\ \A r \in 1 .. Len(u) : t[r + 4] = u[r]

\* Mask \o u is the mask followed by u.
LEMMA MaskFacts ==
    ASSUME NEW S, Star \in S, NEW u \in Seq(S)
    PROVE  Mask \in Seq(S) /\ IsMasked(Mask \o u, u)
<1>1. Mask \in Seq(S) /\ Len(Mask) = 4 /\ \A r \in 1 .. 4 : Mask[r] = Star
  BY DEF Mask
<1>2. /\ Len(Mask \o u) = 4 + Len(u)
      /\ \A r \in 1 .. 4 + Len(u) : (Mask \o u)[r] = IF r <= 4 THEN Mask[r] ELSE u[r - 4]
  <2> DEFINE m == Mask
  <2>1. m \in Seq(S) /\ Len(m) = 4
    BY <1>1
  <2> HIDE DEF m
  <2>2. /\ Len(m \o u) = Len(m) + Len(u)
        /\ \A r \in 1 .. Len(m) + Len(u) :
              (m \o u)[r] = IF r <= Len(m) THEN m[r] ELSE u[r - Len(m)]
    BY <2>1, ConcatProperties
  <2>3. /\ Len(m \o u) = 4 + Len(u)
        /\ \A r \in 1 .. 4 + Len(u) : (m \o u)[r] = IF r <= 4 THEN m[r] ELSE u[r - 4]
    BY <2>1, <2>2
  <2> QED
    BY <2>3 DEF m
<1> QED
  BY <1>1, <1>2 DEF IsMasked

\* What strings.ReplaceAll does at each position i of a line, f[i] being the
\* result for the bytes from the i-th on.
Replaces(f, line, secret) ==
    /\ f[Len(line) + 1] = <<>>
    /\ \A i \in 1 .. Len(line) :
          /\ OccursAt(secret, line, i) =>
                /\ i + Len(secret) \in i + 1 .. Len(line) + 1
                /\ IsMasked(f[i], f[i + Len(secret)])
          /\ ~OccursAt(secret, line, i) => IsCons(f[i], line[i], f[i + 1])

\* strings.ReplaceAll with a secret that is not empty: what Tails computes for it.
LEMMA ReplaceFacts ==
    ASSUME NEW S, Star \in S, NEW line \in Seq(S), NEW secret \in Seq(S), secret # <<>>
    PROVE  LET f == Tails(Pieces(line, secret), Skips(line, secret))
           IN  /\ f \in [1 .. Len(line) + 1 -> Seq(S)]
               /\ Replaces(f, line, secret)
               /\ ReplaceAllIn(line, secret) = f[1]
<1> DEFINE n == Len(line)
           piece == Pieces(line, secret)
           skip == Skips(line, secret)
           f == Tails(piece, skip)
<1>1. n \in Nat /\ Len(secret) \in Nat \ {0} /\ \A i \in 1 .. n : line[i] \in S
  OBVIOUS
<1>2. piece \in Seq(Seq(S)) /\ Len(piece) = n
  <2>1. \A i \in 1 .. n : Mask \in Seq(S) /\ <<line[i]>> \in Seq(S)
    BY <1>1 DEF Mask
  <2>2. piece \in [1 .. n -> Seq(S)]
    BY <2>1 DEF Pieces
  <2> HIDE DEF piece, n
  <2> QED
    BY <1>1, <2>2, AFunctionIsASequence
<1>3. \A i \in 1 .. n : OccursAt(secret, line, i) => i + Len(secret) \in i + 1 .. n + 1
  BY <1>1, OccursFacts
<1>4. Paced(piece, skip)
  BY <1>1, <1>2, <1>3 DEF Paced, Skips
<1>5. /\ f \in [1 .. n + 1 -> Seq(S)]
      /\ f[n + 1] = <<>>
      /\ \A i \in 1 .. n : f[i] = piece[i] \o f[i + skip[i]]
  <2> DEFINE V == S
  <2>1. Passable(V, piece, skip)
    BY <1>2, <1>4 DEF Passable
  <2> HIDE DEF piece, skip, n, V
  <2>2. IsTails(f, V, piece, skip)
    BY <2>1, TailsFacts
  <2> HIDE DEF f
  <2> QED
    BY <1>2, <2>2, Zenon DEF V, IsTails
<1>6. \A i \in 1 .. n : /\ OccursAt(secret, line, i) =>
                              piece[i] = Mask /\ skip[i] = Len(secret)
                        /\ ~OccursAt(secret, line, i) => piece[i] = <<line[i]>> /\ skip[i] = 1
  BY DEF Pieces, Skips
<1>7. Replaces(f, line, secret)
  <2> HIDE DEF piece, skip, f
  <2>1. ASSUME NEW i \in 1 .. n, OccursAt(secret, line, i)
        PROVE  IsMasked(f[i], f[i + Len(secret)])
    <3>1. piece[i] = Mask /\ skip[i] = Len(secret)
      BY <1>6, <2>1
    <3>2. f[i] = piece[i] \o f[i + skip[i]]
      BY <1>5, Zenon
    <3>3. f[i + Len(secret)] \in Seq(S)
      BY <1>1, <1>3, <1>5, <2>1
    <3>4. f[i] = Mask \o f[i + Len(secret)]
      BY <3>1, <3>2
    <3> QED
      BY <3>3, <3>4, MaskFacts
  <2>2. ASSUME NEW i \in 1 .. n, ~OccursAt(secret, line, i)
        PROVE  IsCons(f[i], line[i], f[i + 1])
    <3>1. piece[i] = <<line[i]>> /\ skip[i] = 1
      BY <1>6, <2>2
    <3>2. f[i] = piece[i] \o f[i + skip[i]]
      BY <1>5, Zenon
    <3>3. f[i + 1] \in Seq(S) /\ line[i] \in S
      BY <1>1, <1>5
    <3>4. f[i] = <<line[i]>> \o f[i + 1]
      BY <3>1, <3>2
    <3> QED
      BY <3>3, <3>4, ConsFacts
  <2>3. f[n + 1] = <<>>
    BY <1>5, Zenon
  <2> QED
    BY <1>3, <2>1, <2>2, <2>3, Zenon DEF Replaces
<1>8. ReplaceAllIn(line, secret) = f[1]
  BY DEF ReplaceAllIn, Pass
<1> QED
  BY <1>5, <1>7, <1>8

\* f is the result of ReplaceAll, from each position of line on.
Replacement(f, S, line, secret) ==
    /\ Star \in S
    /\ line \in Seq(S) /\ secret \in Seq(S) /\ secret # <<>>
    /\ f \in [1 .. Len(line) + 1 -> Seq(S)]
    /\ Replaces(f, line, secret)

\* Up to its first asterisk, the result is the line.
LEMMA UnmaskedPrefix ==
    ASSUME NEW S, NEW line, NEW secret, NEW f, Replacement(f, S, line, secret)
    PROVE  \A i \in 1 .. Len(line) + 1 : \A q \in 1 .. Len(f[i]) :
              (\A r \in 1 .. q : f[i][r] # Star) =>
                 i + q - 1 <= Len(line) /\ f[i][q] = line[i + q - 1]
<1> DEFINE n == Len(line)
           Good(i) == \A q \in 1 .. Len(f[i]) :
                         (\A r \in 1 .. q : f[i][r] # Star) =>
                            i + q - 1 <= n /\ f[i][q] = line[i + q - 1]
           T == {i \in 1 .. n + 1 : Good(i)}
<1>1. n \in Nat /\ \A i \in 1 .. n + 1 : f[i] \in Seq(S)
  BY DEF Replacement
<1>2. n + 1 \in T
  <2>1. Len(f[n + 1]) = 0
    BY DEF Replacement, Replaces
  <2> QED
    BY <1>1, <2>1
<1>3. ASSUME NEW i \in 1 .. n, \A j \in i + 1 .. n + 1 : j \in T
      PROVE  i \in T
  <2>1. CASE OccursAt(secret, line, i)
    <3>1. f[i][1] = Star
      BY <2>1 DEF Replacement, Replaces, IsMasked
    <3> QED
      BY <1>1, <3>1
  <2>2. CASE ~OccursAt(secret, line, i)
    <3>1. IsCons(f[i], line[i], f[i + 1])
      BY <2>2 DEF Replacement, Replaces
    <3>2. i + 1 \in 1 .. n + 1 /\ Good(i + 1)
      <4> HIDE DEF Good
      <4> QED
        BY <1>1, <1>3
    <3>3. Len(f[i + 1]) \in Nat
      BY <1>1, <3>2
    <3>4. ASSUME NEW q \in 1 .. Len(f[i]), \A r \in 1 .. q : f[i][r] # Star
          PROVE  i + q - 1 <= n /\ f[i][q] = line[i + q - 1]
      <4>1. CASE q = 1
        BY <1>1, <3>1, <4>1 DEF IsCons
      <4>2. CASE q > 1
        <5>1. q - 1 \in 1 .. Len(f[i + 1])
          BY <3>1, <3>3, <4>2 DEF IsCons
        <5>2. f[i][q] = f[i + 1][q - 1]
          <6>1. f[i][(q - 1) + 1] = f[i + 1][q - 1]
            BY <3>1, <5>1 DEF IsCons
          <6> QED
            BY <6>1
        <5>3. \A r \in 1 .. q - 1 : f[i + 1][r] # Star
          <6> SUFFICES ASSUME NEW r \in 1 .. q - 1
                       PROVE  f[i + 1][r] # Star
            OBVIOUS
          <6>1. r \in 1 .. Len(f[i + 1]) /\ r + 1 \in 1 .. q
            BY <3>3, <5>1
          <6>2. f[i][r + 1] = f[i + 1][r]
            BY <3>1, <6>1 DEF IsCons
          <6> QED
            BY <3>4, <6>1, <6>2
        <5>4. /\ (i + 1) + (q - 1) - 1 <= n
              /\ f[i + 1][q - 1] = line[(i + 1) + (q - 1) - 1]
          BY <3>2, <5>1, <5>3
        <5>5. (i + 1) + (q - 1) - 1 = i + q - 1
          OBVIOUS
        <5> QED
          BY <5>2, <5>4, <5>5
      <4> QED
        BY <1>1, <4>1, <4>2
    <3> QED
      BY <1>1, <3>4
  <2> QED
    BY <2>1, <2>2
<1>4. \A i \in 1 .. n + 1 : i \in T
  <2> HIDE DEF T
  <2> QED
    BY <1>1, <1>2, <1>3, Backwards
<1> QED
  BY <1>4

\* The result does not hold a secret without an asterisk: an occurrence would lie
\* between masks, hence in the line, where it was replaced.
LEMMA NoOccurrence ==
    ASSUME NEW S, NEW line, NEW secret, NEW f, Replacement(f, S, line, secret),
           \A r \in 1 .. Len(secret) : secret[r] # Star
    PROVE  \A i \in 1 .. Len(line) + 1 : \A p \in 1 .. Len(f[i]) : ~OccursAt(secret, f[i], p)
<1> DEFINE n == Len(line)
           V == S
           Found(s, q, p) == /\ p + Len(s) - 1 <= Len(q)
                             /\ \A r \in 1 .. Len(s) : s[r] = q[p + r - 1]
           Good(i) == \A p \in 1 .. Len(f[i]) : ~Found(secret, f[i], p)
           T == {i \in 1 .. n + 1 : Good(i)}
<1>1. /\ n \in Nat /\ line \in Seq(V) /\ secret \in Seq(V) /\ Len(secret) \in Nat \ {0}
      /\ \A i \in 1 .. n + 1 : f[i] \in Seq(V)
      /\ \A r \in 1 .. Len(secret) : secret[r] # Star
  BY DEF Replacement
<1>2. \A q \in Seq(V) : \A p \in 1 .. Len(q) : OccursAt(secret, q, p) <=> Found(secret, q, p)
  <2> HIDE DEF V
  <2> QED
    BY <1>1, OccursFacts
<1>3. n + 1 \in T
  <2>1. Len(f[n + 1]) = 0
    BY DEF Replacement, Replaces
  <2> QED
    BY <1>1, <2>1
<1>4. ASSUME NEW i \in 1 .. n, \A j \in i + 1 .. n + 1 : j \in T
      PROVE  i \in T
  <2>1. PICK j \in i + 1 .. n + 1, w \in {1, 4} :
          /\ Len(f[i]) = Len(f[j]) + w
          /\ \A r \in 1 .. Len(f[j]) : f[i][r + w] = f[j][r]
          /\ w = 4 => \A r \in 1 .. 4 : f[i][r] = Star
          /\ OccursAt(secret, line, i) => w = 4
    <3>1. CASE OccursAt(secret, line, i)
      <4>1. i + Len(secret) \in i + 1 .. n + 1 /\ IsMasked(f[i], f[i + Len(secret)])
        BY <3>1 DEF Replacement, Replaces
      <4> QED
        BY <4>1 DEF IsMasked
    <3>2. CASE ~OccursAt(secret, line, i)
      <4>1. i + 1 \in i + 1 .. n + 1 /\ IsCons(f[i], line[i], f[i + 1])
        BY <1>1, <3>2 DEF Replacement, Replaces
      <4> QED
        BY <3>2, <4>1 DEF IsCons
    <3> QED
      BY <3>1, <3>2
  <2>2. j \in 1 .. n + 1 /\ Good(j) /\ f[j] \in Seq(V) /\ f[i] \in Seq(V)
    <3> HIDE DEF Good
    <3> QED
      BY <1>1, <1>4
  <2>3. Len(f[j]) \in Nat /\ Len(f[i]) \in Nat
    BY <2>2
  <2>4. ~Found(secret, f[i], 1)
    <3> SUFFICES ASSUME Found(secret, f[i], 1)
                 PROVE  FALSE
      OBVIOUS
    <3>1. Len(secret) <= Len(f[i]) /\ \A r \in 1 .. Len(secret) : secret[r] = f[i][r]
      BY <1>1, <2>3
    <3>2. \A r \in 1 .. Len(secret) : f[i][r] # Star
      BY <1>1, <3>1
    <3>3. \A q \in 1 .. Len(secret) : i + q - 1 <= n /\ f[i][q] = line[i + q - 1]
      <4> SUFFICES ASSUME NEW q \in 1 .. Len(secret)
                   PROVE  i + q - 1 <= n /\ f[i][q] = line[i + q - 1]
        OBVIOUS
      <4>1. q \in 1 .. Len(f[i]) /\ \A r \in 1 .. q : f[i][r] # Star
        BY <1>1, <2>3, <3>1, <3>2
      <4>2. i \in 1 .. n + 1
        BY <1>1
      <4> QED
        BY <4>1, <4>2, UnmaskedPrefix
    <3>4. Found(secret, line, i)
      BY <1>1, <3>1, <3>3
    <3>5. OccursAt(secret, line, i)
      BY <1>1, <1>2, <3>4
    <3>6. f[i][1] = Star
      BY <2>1, <3>5, 1 \in 1 .. 4
    <3> QED
      BY <1>1, <3>2, <3>6
  <2>5. ASSUME NEW p \in 1 .. Len(f[i]), p > 1, Found(secret, f[i], p)
        PROVE  FALSE
    <3>1. CASE p <= w
      <4>1. w = 4 /\ p \in 1 .. 4 /\ 1 \in 1 .. Len(secret) /\ p + 1 - 1 = p
        BY <1>1, <2>5, <3>1
      <4>2. f[i][p] = Star
        BY <2>1, <4>1
      <4>3. secret[1] = f[i][p]
        BY <2>5, <4>1
      <4> QED
        BY <1>1, <4>1, <4>2, <4>3
    <3>2. CASE p > w
      <4>1. p - w \in 1 .. Len(f[j]) /\ (p - w) + Len(secret) - 1 <= Len(f[j])
        BY <1>1, <2>1, <2>3, <2>5, <3>2
      <4>2. ASSUME NEW r \in 1 .. Len(secret)
            PROVE  secret[r] = f[j][(p - w) + r - 1]
        <5>1. (p - w) + r - 1 \in 1 .. Len(f[j]) /\ ((p - w) + r - 1) + w = p + r - 1
          BY <1>1, <2>3, <2>5, <4>1
        <5>2. f[i][p + r - 1] = f[j][(p - w) + r - 1]
          BY <2>1, <5>1
        <5> QED
          BY <2>5, <5>2
      <4> QED
        BY <2>2, <4>1, <4>2
    <3> QED
      BY <3>1, <3>2
  <2>6. Good(i)
    <3> HIDE DEF Found
    <3> QED
      BY <2>3, <2>4, <2>5
  <2> QED
    BY <1>1, <2>6
<1>5. \A i \in 1 .. n + 1 : i \in T
  <2> HIDE DEF T
  <2> QED
    BY <1>1, <1>3, <1>4, Backwards
<1> QED
  <2> HIDE DEF Found
  <2> QED
    BY <1>1, <1>2, <1>5

-----------------------------------------------------------------------------
(* The writer's own redaction *)

\* newLineRedactingWriter keeps the token, if there is one.
Configured(t) == IF t = <<>> THEN <<>> ELSE <<t>>

\* The loop of newLineRedactingWriter over its one secret.
LEMMA FilteredFacts ==
    ASSUME NEW S, NEW t \in Seq(S)
    PROVE  Filtered(<<t>>) = Configured(t)
<1> DEFINE p == Configured(t)
           piece == <<p>>
           skip == Ones(1)
           f == Tails(piece, skip)
           g == [i \in 1 .. Len(<<t>>) |-> IF <<t>>[i] = <<>> THEN <<>> ELSE <<<<t>>[i]>>]
<1>1. p \in Seq(Seq(S))
  BY DEF Configured
<1>2. Len(<<t>>) = 1 /\ <<t>>[1] = t
  OBVIOUS
<1>3. g = piece
  <2>1. g = [i \in 1 .. 1 |-> p]
    BY <1>2 DEF Configured
  <2> HIDE DEF p, g
  <2> QED
    BY <2>1
<1>4. Filtered(<<t>>) = f[1]
  BY <1>2, <1>3 DEF Filtered, Pass
<1>5. skip[1] = 1
  BY DEF Ones
<1>6. piece \in Seq(Seq(Seq(S))) /\ Len(piece) = 1 /\ piece[1] = p
  <2> HIDE DEF p
  <2> QED
    BY <1>1
<1> HIDE DEF piece, skip, p
<1>7. Paced(piece, skip)
  BY <1>5, <1>6 DEF Paced
<1>8. /\ f[Len(piece) + 1] = <<>>
      /\ \A i \in 1 .. Len(piece) : f[i] = piece[i] \o f[i + skip[i]]
  <2> DEFINE V == Seq(S)
  <2>1. Passable(V, piece, skip)
    BY <1>6, <1>7 DEF Passable
  <2> HIDE DEF V
  <2>2. IsTails(f, V, piece, skip)
    BY <2>1, TailsFacts
  <2> HIDE DEF f
  <2> QED
    BY <2>2, Zenon DEF IsTails
<1> HIDE DEF f
<1>9. 1 \in 1 .. Len(piece) /\ Len(piece) + 1 = 2 /\ 1 + skip[1] = 2
  BY <1>5, <1>6
<1>10. f[1] = piece[1] \o f[1 + skip[1]] /\ f[2] = <<>>
  BY <1>8, <1>9, Zenon
<1>11. f[1] = p \o <<>>
  BY <1>6, <1>9, <1>10, Zenon
<1>12. p \o <<>> = p
  BY <1>1
<1> QED
  BY <1>4, <1>11, <1>12 DEF p

\* The loop of Write over no secret and over one.
LEMMA RedactFacts ==
    ASSUME NEW line
    PROVE  /\ secrets = <<>> => Redact(line) = line
           /\ \A t : secrets = <<t>> => Redact(line) = ReplaceAllIn(line, t)
<1> DEFINE n == Len(secrets)
           Step(h, k) == IF k = 0 THEN line ELSE ReplaceAllIn(h[k - 1], secrets[k])
           after == CHOOSE h : h = [k \in 0 .. n |-> Step(h, k)]
<1>1. Redact(line) = after[n]
  BY DEF Redact
<1>2. CASE secrets = <<>>
  <2>1. n = 0
    BY <1>2
  <2> DEFINE h == [k \in 0 .. 0 |-> line]
  <2>2. h = [k \in 0 .. n |-> Step(h, k)]
    BY <2>1
  <2>3. after = [k \in 0 .. n |-> Step(after, k)]
    <3> HIDE DEF h, Step
    <3> QED
      BY <2>2
  <2> HIDE DEF after
  <2>4. after[0] = line
    BY <2>1, <2>3
  <2>5. secrets # <<0>>
    BY <1>2
  <2> QED
    BY <1>1, <1>2, <2>1, <2>4
<1>3. ASSUME NEW t, secrets = <<t>>
      PROVE  Redact(line) = ReplaceAllIn(line, t)
  <2>1. n = 1 /\ secrets[1] = t
    BY <1>3
  <2> DEFINE r == ReplaceAllIn(line, t)
             h == [k \in 0 .. 1 |-> IF k = 0 THEN line ELSE r]
  <2>2. h = [k \in 0 .. n |-> Step(h, k)]
    BY <2>1
  <2>3. after = [k \in 0 .. n |-> Step(after, k)]
    <3> HIDE DEF h, Step
    <3> QED
      BY <2>2
  <2> HIDE DEF after
  <2>4. after[0] = line /\ after[1] = Step(after, 1)
    BY <2>1, <2>3
  <2> QED
    BY <1>1, <2>1, <2>4
<1> QED
  BY <1>2, <1>3

\* What the loop over the secrets does with a line of Vault's or the agent's: it
\* replaces the token, if there is one, and nothing of a token without an
\* asterisk is left.
LEMMA RedactedLine ==
    ASSUME NEW S, Star \in S, NEW line \in Seq(S), token \in Seq(S),
           secrets = Configured(token)
    PROVE  /\ Redact(line) \in Seq(S)
           /\ Redact(line) = Logged(line)
           /\ token # <<>> /\ ~Contains(token, Star) =>
                 \A i \in 1 .. Len(Redact(line)) : ~OccursAt(token, Redact(line), i)
<1>1. CASE token = <<>>
  <2>1. Redact(line) = line
    BY <1>1, RedactFacts DEF Configured
  <2> QED
    BY <1>1, <2>1 DEF Logged
<1>2. CASE token # <<>>
  <2> DEFINE f == Tails(Pieces(line, token), Skips(line, token))
  <2>1. Redact(line) = ReplaceAllIn(line, token)
    <3>1. secrets = <<token>>
      BY <1>2 DEF Configured
    <3> QED
      BY <3>1, RedactFacts, Zenon
  <2>2. /\ f \in [1 .. Len(line) + 1 -> Seq(S)]
        /\ Replaces(f, line, token)
        /\ ReplaceAllIn(line, token) = f[1]
    BY <1>2, ReplaceFacts
  <2> HIDE DEF f
  <2>3. Replacement(f, S, line, token)
    BY <1>2, <2>2, Zenon DEF Replacement
  <2>4. 1 \in 1 .. Len(line) + 1
    OBVIOUS
  <2>5. f[1] \in Seq(S)
    BY <2>2, <2>4
  <2>6. ASSUME ~Contains(token, Star)
        PROVE  \A i \in 1 .. Len(f[1]) : ~OccursAt(token, f[1], i)
    <3>1. \A r \in 1 .. Len(token) : token[r] # Star
      BY <2>6 DEF Contains
    <3> QED
      BY <2>3, <2>4, <3>1, NoOccurrence, Zenon
  <2>7. Logged(line) = ReplaceAllIn(line, token)
    BY <1>2 DEF Logged
  <2> QED
    BY <2>1, <2>2, <2>5, <2>6, <2>7, Zenon
<1> QED
  BY <1>1, <1>2

-----------------------------------------------------------------------------
(* Lines of a stream *)

\* The line ends of a stream are finitely many of its positions.
LEMMA LineEndsFacts ==
    ASSUME NEW S, NEW s \in Seq(S)
    PROVE  /\ LineEnds(s) \subseteq 1 .. Len(s) /\ IsFiniteSet(LineEnds(s))
           /\ \A i : /\ IsFiniteSet({j \in LineEnds(s) : j <= i})
                     /\ EndedBy(s, i) \in Nat
<1>1. IsFiniteSet(1 .. Len(s))
  BY FS_Interval
<1>2. LineEnds(s) \subseteq 1 .. Len(s)
  BY DEF LineEnds
<1>3. IsFiniteSet(LineEnds(s))
  BY <1>1, <1>2, FS_Subset
<1>4. ASSUME NEW i
      PROVE  IsFiniteSet({j \in LineEnds(s) : j <= i}) /\ EndedBy(s, i) \in Nat
  <2> DEFINE E == {j \in LineEnds(s) : j <= i}
  <2>1. E \in SUBSET LineEnds(s)
    OBVIOUS
  <2>2. IsFiniteSet(E)
    BY <1>3, <2>1, FS_Subset
  <2> QED
    BY <2>2, FS_CardinalityType DEF EndedBy
<1> QED
  BY <1>2, <1>3, <1>4

\* A later line end has more lines before it.
LEMMA EndedByGrows ==
    ASSUME NEW S, NEW s \in Seq(S), NEW i \in 0 .. Len(s), NEW j \in i .. Len(s)
    PROVE  /\ EndedBy(s, i) <= EndedBy(s, j)
           /\ j # i /\ j \in LineEnds(s) => EndedBy(s, i) < EndedBy(s, j)
<1> DEFINE A == {k \in LineEnds(s) : k <= i}
           B == {k \in LineEnds(s) : k <= j}
<1>1. LineEnds(s) \subseteq 1 .. Len(s) /\ IsFiniteSet(B) /\ EndedBy(s, i) \in Nat /\ EndedBy(s, j) \in Nat
  BY LineEndsFacts
<1>2. A \in SUBSET B
  BY <1>1
<1>3. Cardinality(A) = EndedBy(s, i) /\ Cardinality(B) = EndedBy(s, j)
  BY DEF EndedBy
<1>4. j # i /\ j \in LineEnds(s) => j \in B /\ j \notin A
  OBVIOUS
<1> HIDE DEF A, B
<1>5. Cardinality(A) <= Cardinality(B) /\ (Cardinality(B) = Cardinality(A) => B = A)
  BY <1>1, <1>2, FS_Subset
<1> QED
  BY <1>1, <1>3, <1>4, <1>5

\* Nothing has ended at the beginning, and no more lines than symbols later.
LEMMA EndedByBounds ==
    ASSUME NEW S, NEW s \in Seq(S), NEW i \in 0 .. Len(s)
    PROVE  EndedBy(s, 0) = 0 /\ EndedBy(s, i) <= i
<1>1. LineEnds(s) \subseteq 1 .. Len(s)
  BY LineEndsFacts
<1>2. EndedBy(s, 0) = 0
  <2>1. {j \in LineEnds(s) : j <= 0} = {}
    BY <1>1
  <2> QED
    BY <2>1, FS_EmptySet DEF EndedBy
<1>3. EndedBy(s, i) <= i
  <2> DEFINE E == {j \in LineEnds(s) : j <= i}
  <2>1. E \in SUBSET (1 .. i)
    BY <1>1
  <2>2. IsFiniteSet(1 .. i) /\ Cardinality(1 .. i) = i
    BY FS_Interval
  <2>3. Cardinality(E) <= i
    <3> HIDE DEF E
    <3> QED
      BY <2>1, <2>2, FS_Subset
  <2> QED
    BY <2>3 DEF EndedBy
<1> QED
  BY <1>2, <1>3

\* From one line end, or the beginning, to the next.
LEMMA NextLineEnd ==
    ASSUME NEW S, NEW s \in Seq(S), NEW i \in 0 .. Len(s), NEW j \in i + 1 .. Len(s),
           s[j] = LF, \A k \in i + 1 .. j - 1 : s[k] # LF
    PROVE  j \in LineEnds(s) /\ EndedBy(s, j) = EndedBy(s, i) + 1
<1> DEFINE A == {k \in LineEnds(s) : k <= i}
           B == {k \in LineEnds(s) : k <= j}
<1>1. j \in LineEnds(s)
  BY DEF LineEnds
<1>2. B = A \cup {j} /\ j \notin A
  <2>1. \A k \in LineEnds(s) : k <= j => k <= i \/ k = j
    BY DEF LineEnds
  <2>2. \A k \in LineEnds(s) : k <= i => k <= j /\ k # j
    BY DEF LineEnds
  <2>3. j <= j
    OBVIOUS
  <2> QED
    BY <1>1, <2>1, <2>2, <2>3, Zenon
<1>3. IsFiniteSet(A)
  BY LineEndsFacts
<1> HIDE DEF A, B
<1>4. Cardinality(B) = Cardinality(A) + 1
  BY <1>2, <1>3, FS_AddElement
<1> QED
  BY <1>1, <1>4 DEF A, B, EndedBy

\* After the last line end.
LEMMA NoMoreLineEnds ==
    ASSUME NEW S, NEW s \in Seq(S), NEW i \in 0 .. Len(s),
           \A k \in i + 1 .. Len(s) : s[k] # LF
    PROVE  EndedBy(s, Len(s)) = EndedBy(s, i)
<1>1. {k \in LineEnds(s) : k <= Len(s)} = {k \in LineEnds(s) : k <= i}
  BY DEF LineEnds
<1> QED
  BY <1>1 DEF EndedBy

\* The lines that have ended are the same in a longer stream.
LEMMA Prolonged ==
    ASSUME NEW S, NEW s \in Seq(S), NEW p \in Seq(S)
    PROVE  /\ \A k \in 1 .. Len(s) : (s \o p)[k] = s[k]
           /\ Len(s \o p) = Len(s) + Len(p)
           /\ LineEnds(s) \subseteq LineEnds(s \o p)
           /\ \A i \in 0 .. Len(s) : EndedBy(s \o p, i) = EndedBy(s, i)
<1> DEFINE t == s \o p
<1>1. /\ t \in Seq(S) /\ Len(t) = Len(s) + Len(p) /\ Len(s) \in Nat /\ Len(p) \in Nat
      /\ \A k \in 1 .. Len(s) : t[k] = s[k]
  OBVIOUS
<1> HIDE DEF t
<1>2. LineEnds(s) \subseteq LineEnds(t)
  BY <1>1 DEF LineEnds
<1>3. ASSUME NEW i \in 0 .. Len(s)
      PROVE  EndedBy(t, i) = EndedBy(s, i)
  <2>1. {k \in LineEnds(t) : k <= i} = {k \in LineEnds(s) : k <= i}
    BY <1>1 DEF LineEnds
  <2> QED
    BY <2>1 DEF EndedBy
<1> QED
  BY <1>1, <1>2, <1>3 DEF t

\* The k-th line end is the only one by which k lines have ended.
LEMMA EndOfFacts ==
    ASSUME NEW S, NEW s \in Seq(S), NEW i \in {0} \cup LineEnds(s)
    PROVE  EndOf(s, EndedBy(s, i)) = i
<1> DEFINE e == EndOf(s, EndedBy(s, i))
<1>1. e \in {0} \cup LineEnds(s) /\ EndedBy(s, e) = EndedBy(s, i)
  BY DEF EndOf
<1>2. LineEnds(s) \subseteq 1 .. Len(s)
  BY LineEndsFacts
<1> HIDE DEF e
<1>3. ASSUME NEW a \in {0} \cup LineEnds(s), NEW b \in {0} \cup LineEnds(s), a < b
      PROVE  EndedBy(s, a) # EndedBy(s, b)
  <2>1. a \in 0 .. Len(s) /\ b \in a .. Len(s) /\ b # a /\ b \in LineEnds(s)
    BY <1>2, <1>3
  <2>2. EndedBy(s, a) < EndedBy(s, b)
    BY <2>1, EndedByGrows
  <2>3. EndedBy(s, a) \in Nat /\ EndedBy(s, b) \in Nat
    BY LineEndsFacts
  <2> QED
    BY <2>2, <2>3
<1>4. e \in Nat /\ i \in Nat
  BY <1>1, <1>2
<1> QED
  BY <1>1, <1>3, <1>4 DEF e

\* Where bytes.IndexByte finds the line feed.
LEMMA FirstLineFeed ==
    ASSUME NEW S, NEW q \in Seq(S), Contains(q, LF)
    PROVE  /\ IndexByte(q) \in 1 .. Len(q) /\ q[IndexByte(q)] = LF
           /\ \A j \in 1 .. IndexByte(q) - 1 : q[j] # LF
<1> DEFINE I == {i \in 1 .. Len(q) : q[i] = LF}
<1>1. I \subseteq Nat /\ I # {}
  BY DEF Contains
<1>2. IndexByte(q) = Min(I)
  BY <1>1 DEF SelectInSeq, IndexByte
<1>3. Min(I) \in I /\ \A j \in I : Min(I) <= j
  <2> HIDE DEF I
  <2> QED
    BY <1>1, LeastNatural DEF Min
<1> DEFINE m == IndexByte(q)
<1>4. m \in 1 .. Len(q) /\ q[m] = LF
  BY <1>2, <1>3, Zenon
<1>5. \A j \in 1 .. Len(q) : q[j] = LF => m <= j
  BY <1>2, <1>3, Zenon
<1> HIDE DEF m
<1>6. \A j \in 1 .. m - 1 : q[j] # LF
  BY <1>4, <1>5
<1> QED
  BY <1>4, <1>6 DEF m

\* k lines of stream s end by position r, the k-th of them at r.
Cut(s, r, k) ==
    /\ r \in {0} \cup LineEnds(s)
    /\ EndedBy(s, r) = k
    /\ \A m \in 0 .. k : \E i \in {0} \cup LineEnds(s) : i <= r /\ EndedBy(s, i) = m

\* A stream that goes on keeps its lines.
LEMMA CutProlonged ==
    ASSUME NEW S, NEW s \in Seq(S), NEW p \in Seq(S), NEW r, NEW k \in Nat, Cut(s, r, k)
    PROVE  Cut(s \o p, r, k) /\ \A n \in 1 .. k : Line(s \o p, n) = Line(s, n)
<1> DEFINE t == s \o p
           Ends == {0} \cup LineEnds(s)
<1>1. t \in Seq(S) /\ Len(t) = Len(s) + Len(p) /\ Len(s) \in Nat /\ Len(p) \in Nat
  OBVIOUS
<1>2. /\ LineEnds(s) \subseteq LineEnds(t) /\ LineEnds(s) \subseteq 1 .. Len(s)
      /\ \A i \in 1 .. Len(s) : t[i] = s[i]
      /\ \A i \in 0 .. Len(s) : EndedBy(t, i) = EndedBy(s, i)
  BY Prolonged, LineEndsFacts
<1> HIDE DEF t
<1>3. \A i \in Ends : i \in 0 .. Len(s) /\ i \in {0} \cup LineEnds(t) /\ EndedBy(t, i) = EndedBy(s, i)
  BY <1>1, <1>2
<1>4. Cut(t, r, k)
  BY <1>3 DEF Cut
<1>5. ASSUME NEW m \in 0 .. k
      PROVE  EndOf(t, m) = EndOf(s, m) /\ EndOf(s, m) \in 0 .. Len(s)
  <2>1. PICK i \in Ends : EndedBy(s, i) = m
    BY DEF Cut
  <2>2. EndOf(s, m) = i
    BY <2>1, EndOfFacts
  <2>3. EndOf(t, m) = i
    BY <1>1, <1>3, <2>1, EndOfFacts
  <2> QED
    BY <1>3, <2>2, <2>3
<1>6. ASSUME NEW n \in 1 .. k
      PROVE  Line(t, n) = Line(s, n)
  <2> DEFINE a == EndOf(s, n - 1) + 1
             b == EndOf(s, n) - 1
  <2>1. n \in 0 .. k /\ n - 1 \in 0 .. k
    OBVIOUS
  <2>2. /\ a \in 1 .. Len(s) + 1 /\ b \in Int /\ b <= Len(s)
        /\ EndOf(t, n - 1) + 1 = a /\ EndOf(t, n) - 1 = b
    BY <1>1, <1>5, <2>1
  <2> HIDE DEF a, b
  <2>3. SubSeq(t, a, b) = SubSeq(s, a, b)
    <3>1. \A i \in a .. b : t[i] = s[i] /\ s[i] \in S
      BY <1>1, <1>2, <2>2
    <3>2. /\ SubSeq(s, a, b) \in Seq(S) /\ SubSeq(t, a, b) \in Seq(S)
          /\ Len(SubSeq(s, a, b)) = IF a <= b THEN b - a + 1 ELSE 0
          /\ Len(SubSeq(t, a, b)) = IF a <= b THEN b - a + 1 ELSE 0
          /\ \A i \in 1 .. b - a + 1 : SubSeq(s, a, b)[i] = s[a + i - 1]
          /\ \A i \in 1 .. b - a + 1 : SubSeq(t, a, b)[i] = t[a + i - 1]
      BY <2>2, <3>1, SubSeqProperties
    <3>3. \A i \in 1 .. Len(SubSeq(s, a, b)) : SubSeq(t, a, b)[i] = SubSeq(s, a, b)[i]
      BY <2>2, <3>1, <3>2
    <3> QED
      BY <3>2, <3>3, SeqEqual
  <2> QED
    BY <2>2, <2>3 DEF Line, a, b
<1> QED
  BY <1>4, <1>6 DEF t

\* The next line of a stream.
LEMMA CutNext ==
    ASSUME NEW S, NEW s \in Seq(S), NEW r \in 0 .. Len(s), NEW k \in Nat, Cut(s, r, k),
           NEW j \in r + 1 .. Len(s), s[j] = LF, \A i \in r + 1 .. j - 1 : s[i] # LF
    PROVE  Cut(s, j, k + 1) /\ Line(s, k + 1) = SubSeq(s, r + 1, j - 1)
<1>1. j \in LineEnds(s) /\ EndedBy(s, j) = k + 1
  BY NextLineEnd DEF Cut
<1>2. Cut(s, j, k + 1)
  <2>1. ASSUME NEW m \in 0 .. k + 1
        PROVE  \E i \in {0} \cup LineEnds(s) : i <= j /\ EndedBy(s, i) = m
    <3>1. CASE m = k + 1
      BY <1>1, <3>1
    <3>2. CASE m # k + 1
      <4>1. PICK i \in {0} \cup LineEnds(s) : i <= r /\ EndedBy(s, i) = m
        BY <3>2 DEF Cut
      <4>2. i \in Nat /\ i <= j
        BY <4>1, LineEndsFacts
      <4> QED
        BY <4>1, <4>2
    <3> QED
      BY <3>1, <3>2
  <2> QED
    BY <1>1, <2>1 DEF Cut
<1>3. EndOf(s, k) = r /\ EndOf(s, k + 1) = j
  BY <1>1, EndOfFacts DEF Cut
<1> QED
  BY <1>2, <1>3 DEF Line

-----------------------------------------------------------------------------
(* The inductive invariant *)

\* Symbols of the stream that have left the buffer.
Gone == Len(sent) - Len(buf)

\* The buffer is the end of the stream, from behind a line end on: the one of
\* the last line that was logged or refused.
BufferIsTheRest ==
    /\ Len(buf) <= Len(sent)
    /\ buf = SubSeq(sent, Gone + 1, Len(sent))
    /\ Cut(sent, Gone, Taken)

\* What LogIsTheStream says of the log, and that the places are in it.
LogIsFaithful ==
    /\ refused \subseteq 1 .. Taken
    /\ \A n \in (1 .. Taken) \ refused :
          Place(n) \in 1 .. Len(log) /\ log[Place(n)] = Logged(Line(sent, n))

\* A Write that returned has emptied the buffer of lines, or has met an error.
NothingWaits == mu = "free" => ~Contains(buf, LF) \/ refused # {}

IndInv ==
    /\ TypeOK
    /\ secrets = Configured(token)
    /\ Len(sent) <= MaxOutput + AgentOutput
    /\ BufferIsTheRest
    /\ LogIsFaithful
    /\ NothingWaits
    /\ NoTokenLogged

-----------------------------------------------------------------------------
(* It is preserved *)

\* The symbols of the stream.
LEMMA Alphabet ==
    /\ Star \in Raw
    /\ AgentLine \in Seq(Raw) /\ Len(AgentLine) \in Nat
    /\ Tokens \subseteq Seq(Raw) /\ <<>> \notin Tokens
BY SymbolsAssumption DEF Raw

\* What TypeOK says of the quantities the invariant is about.
LEMMA TypeFacts ==
    ASSUME TypeOK
    PROVE  /\ token \in Seq(Raw)
           /\ IsFiniteSet(refused) /\ Cardinality(refused) \in Nat
           /\ Len(log) \in Nat /\ Len(sent) \in Nat /\ Len(buf) \in Nat /\ Taken \in Nat
<1>1. token \in Seq(Raw)
  <2>1. <<>> \in Seq(Raw)
    OBVIOUS
  <2>2. token = <<>> \/ token \in Tokens
    BY DEF TypeOK
  <2> QED
    BY <2>1, <2>2, Alphabet, Zenon
<1>2. IsFiniteSet(Position)
  BY Alphabet, BoundsAssumption, FS_Interval DEF Position
<1>3. IsFiniteSet(refused) /\ Cardinality(refused) \in Nat
  BY <1>2, FS_Subset, FS_CardinalityType DEF TypeOK
<1>4. Len(log) \in Nat /\ Len(sent) \in Nat /\ Len(buf) \in Nat
  BY DEF TypeOK
<1> QED
  BY <1>1, <1>3, <1>4 DEF Taken

\* The rest of a sequence.
LEMMA RestFacts ==
    ASSUME NEW S, NEW s \in Seq(S), NEW g \in 0 .. Len(s), NEW q, q = SubSeq(s, g + 1, Len(s))
    PROVE  /\ q \in Seq(S) /\ Len(q) = Len(s) - g
           /\ \A m \in 1 .. Len(q) : q[m] = s[g + m]
<1>1. \A i \in g + 1 .. Len(s) : s[i] \in S
  OBVIOUS
<1>2. /\ q \in Seq(S)
      /\ Len(q) = IF g + 1 <= Len(s) THEN Len(s) - (g + 1) + 1 ELSE 0
      /\ \A i \in 1 .. Len(s) - (g + 1) + 1 : q[i] = s[(g + 1) + i - 1]
  BY <1>1, SubSeqProperties
<1> QED
  BY <1>2

\* A part of the rest of a sequence is a part of the sequence.
LEMMA RestPart ==
    ASSUME NEW S, NEW s \in Seq(S), NEW g \in 0 .. Len(s), NEW q, q = SubSeq(s, g + 1, Len(s))
    PROVE  \A a \in 1 .. Len(q) + 1 : \A b \in a - 1 .. Len(q) :
              SubSeq(q, a, b) = SubSeq(s, g + a, g + b)
<1> SUFFICES ASSUME NEW a \in 1 .. Len(q) + 1, NEW b \in a - 1 .. Len(q)
             PROVE  SubSeq(q, a, b) = SubSeq(s, g + a, g + b)
  OBVIOUS
<1>1. /\ q \in Seq(S) /\ Len(q) = Len(s) - g /\ Len(s) \in Nat
      /\ \A m \in 1 .. Len(q) : q[m] = s[g + m]
  BY RestFacts
<1> DEFINE u == SubSeq(q, a, b)
           v == SubSeq(s, g + a, g + b)
<1>2. /\ \A i \in a .. b : q[i] \in S
      /\ \A i \in g + a .. g + b : s[i] \in S
  BY <1>1
<1>3. /\ u \in Seq(S) /\ Len(u) = IF a <= b THEN b - a + 1 ELSE 0
      /\ \A i \in 1 .. b - a + 1 : u[i] = q[a + i - 1]
  BY <1>2, SubSeqProperties
<1>4. /\ v \in Seq(S) /\ Len(v) = IF g + a <= g + b THEN (g + b) - (g + a) + 1 ELSE 0
      /\ \A i \in 1 .. (g + b) - (g + a) + 1 : v[i] = s[(g + a) + i - 1]
  BY <1>2, SubSeqProperties
<1> HIDE DEF u, v
<1>5. ASSUME NEW i \in 1 .. Len(u)
      PROVE  u[i] = v[i]
  <2>1. i \in 1 .. b - a + 1 /\ i \in 1 .. (g + b) - (g + a) + 1 /\ a + i - 1 \in 1 .. Len(q)
    BY <1>1, <1>3
  <2>2. u[i] = q[a + i - 1] /\ q[a + i - 1] = s[g + (a + i - 1)] /\ v[i] = s[(g + a) + i - 1]
    BY <1>1, <1>3, <1>4, <2>1
  <2>3. g + (a + i - 1) = (g + a) + i - 1
    OBVIOUS
  <2> QED
    BY <2>2, <2>3
<1>6. Len(u) = Len(v)
  BY <1>3, <1>4
<1>7. u = v
  BY <1>3, <1>4, <1>5, <1>6, SeqEqual
<1> QED
  BY <1>7 DEF u, v

\* The symbols of two sequences put together.
LEMMA Joined ==
    ASSUME NEW S, NEW s \in Seq(S), NEW p \in Seq(S)
    PROVE  /\ s \o p \in Seq(S) /\ Len(s \o p) = Len(s) + Len(p)
           /\ \A i \in 1 .. Len(s) : (s \o p)[i] = s[i]
           /\ \A i \in 1 .. Len(p) : (s \o p)[Len(s) + i] = p[i]
OBVIOUS

\* The rest of a sequence grows with it.
LEMMA RestGrows ==
    ASSUME NEW S, NEW s \in Seq(S), NEW p \in Seq(S), NEW g \in 0 .. Len(s)
    PROVE  SubSeq(s, g + 1, Len(s)) \o p = SubSeq(s \o p, g + 1, Len(s \o p))
<1> DEFINE q == SubSeq(s, g + 1, Len(s))
           t == s \o p
           u == q \o p
           v == SubSeq(t, g + 1, Len(t))
<1>1. /\ t \in Seq(S) /\ Len(t) = Len(s) + Len(p) /\ Len(s) \in Nat /\ Len(p) \in Nat
      /\ \A i \in 1 .. Len(s) : t[i] = s[i]
      /\ \A i \in 1 .. Len(p) : t[Len(s) + i] = p[i]
  OBVIOUS
<1>2. /\ q \in Seq(S) /\ Len(q) = Len(s) - g
      /\ \A m \in 1 .. Len(q) : q[m] = s[g + m]
  BY RestFacts
<1> HIDE DEF q, t
<1>3. /\ u \in Seq(S) /\ Len(u) = Len(q) + Len(p)
      /\ \A i \in 1 .. Len(q) : u[i] = q[i]
      /\ \A i \in 1 .. Len(p) : u[Len(q) + i] = p[i]
  <2>1. q \in Seq(S)
    BY <1>2
  <2> QED
    BY <2>1, Joined
<1>4. /\ v \in Seq(S) /\ Len(v) = Len(t) - g
      /\ \A m \in 1 .. Len(v) : v[m] = t[g + m]
  <2>1. g \in 0 .. Len(t)
    BY <1>1
  <2> QED
    BY <1>1, <2>1, RestFacts
<1> HIDE DEF u, v
<1>5. ASSUME NEW i \in 1 .. Len(u)
      PROVE  u[i] = v[i]
  <2>1. Len(q) \in Nat /\ i \in 1 .. Len(v) /\ v[i] = t[g + i]
    BY <1>1, <1>2, <1>3, <1>4
  <2>2. CASE i <= Len(q)
    <3>1. i \in 1 .. Len(q) /\ g + i \in 1 .. Len(s)
      BY <1>1, <1>2, <2>1, <2>2
    <3> QED
      BY <1>1, <1>2, <1>3, <2>1, <3>1
  <2>3. CASE ~(i <= Len(q))
    <3> DEFINE m == i - Len(q)
    <3>1. m \in 1 .. Len(p) /\ Len(q) + m = i /\ Len(s) + m = g + i
      BY <1>1, <1>2, <1>3, <2>1, <2>3
    <3> HIDE DEF m
    <3>2. u[Len(q) + m] = p[m] /\ t[Len(s) + m] = p[m]
      BY <1>1, <1>3, <3>1
    <3> QED
      BY <2>1, <3>1, <3>2
  <2> QED
    BY <2>2, <2>3
<1>6. Len(u) = Len(v)
  BY <1>1, <1>2, <1>3, <1>4
<1>7. u = v
  BY <1>3, <1>4, <1>5, <1>6, SeqEqual
<1> QED
  BY <1>7 DEF q, t, u, v

\* A writer that has just been made.
LEMMA InitIndInv ==
    ASSUME Init
    PROVE  IndInv
<1> USE DEF Init
<1>1. token \in Tokens \cup {<<>>} /\ token \in Seq(Raw)
  <2>1. <<>> \in Seq(Raw)
    OBVIOUS
  <2>2. token = <<>> \/ token \in Tokens
    OBVIOUS
  <2> QED
    BY <2>1, <2>2, Alphabet, Zenon
<1>2. secrets = Configured(token)
  BY <1>1, FilteredFacts
<1>3. secrets \in Seq(Tokens)
  <2> HIDE DEF Init
  <2>1. CASE token = <<>>
    BY <1>2, <2>1 DEF Configured
  <2>2. CASE token \in Tokens /\ token # <<>>
    BY <1>2, <2>2 DEF Configured
  <2> QED
    BY <1>1, <2>1, <2>2
<1>4. Taken = 0 /\ Len(sent) = 0 /\ Len(buf) = 0 /\ Len(log) = 0
  BY FS_EmptySet DEF Taken
<1>5. TypeOK
  <2>1. buf \in Seq(Raw) /\ sent \in Seq(Raw) /\ log \in Seq(Seq(Raw))
    OBVIOUS
  <2> QED
    BY <1>1, <1>3, <2>1 DEF TypeOK
<1>6. Len(sent) <= MaxOutput + AgentOutput
  BY <1>4, BoundsAssumption DEF AgentOutput
<1>7. BufferIsTheRest
  <2>1. Gone = 0
    BY <1>4 DEF Gone
  <2>2. buf = SubSeq(sent, Gone + 1, Len(sent))
    BY <1>4, <2>1
  <2>3. EndedBy(sent, 0) = 0
    <3>1. sent \in Seq(Raw) /\ 0 \in 0 .. Len(sent)
      BY <1>4, <1>5 DEF TypeOK
    <3> QED
      BY <3>1, EndedByBounds
  <2>4. Cut(sent, 0, 0)
    BY <2>3 DEF Cut
  <2> QED
    BY <1>4, <2>1, <2>2, <2>4 DEF BufferIsTheRest
<1>8. LogIsFaithful
  BY <1>4 DEF LogIsFaithful
<1>9. NothingWaits
  BY <1>4 DEF NothingWaits, Contains
<1>10. NoTokenLogged
  BY DEF NoTokenLogged
<1> QED
  BY <1>2, <1>5, <1>6, <1>7, <1>8, <1>9, <1>10 DEF IndInv

\* Write takes the mutex: the stream and the buffer grow alike.
LEMMA EnterIndInv ==
    ASSUME IndInv, NEW writer \in {"vault", "agent"}, NEW p \in Seq(Raw), Enter(writer, p),
           agent' \in BOOLEAN, (Len(sent) <= MaxOutput + AgentOutput)'
    PROVE  IndInv'
<1>1. TypeOK /\ secrets = Configured(token) /\ BufferIsTheRest /\ LogIsFaithful /\ NoTokenLogged
  BY DEF IndInv
<1>2. /\ mu' = writer /\ buf' = buf \o p /\ sent' = sent \o p
      /\ token' = token /\ secrets' = secrets /\ log' = log /\ refused' = refused
  BY DEF Enter
<1>3. /\ sent \in Seq(Raw) /\ buf \in Seq(Raw)
      /\ Len(log) \in Nat /\ Len(sent) \in Nat /\ Len(buf) \in Nat /\ Taken \in Nat
  BY <1>1, TypeFacts DEF TypeOK
<1>4. /\ sent' \in Seq(Raw) /\ buf' \in Seq(Raw)
      /\ Len(sent') = Len(sent) + Len(p) /\ Len(buf') = Len(buf) + Len(p) /\ Len(p) \in Nat
  BY <1>2, <1>3, Joined
<1>5. TypeOK'
  BY <1>1, <1>2, <1>4 DEF TypeOK
<1>6. Taken' = Taken /\ Gone' = Gone
  BY <1>2, <1>3, <1>4 DEF Taken, Gone
<1>7. /\ Cut(sent \o p, Gone, Taken)
      /\ \A n \in 1 .. Taken : Line(sent \o p, n) = Line(sent, n)
  BY <1>1, <1>3, CutProlonged DEF BufferIsTheRest
<1>8. BufferIsTheRest'
  <2>1. Gone \in 0 .. Len(sent)
    BY <1>1, <1>3 DEF Gone, BufferIsTheRest
  <2>2. buf \o p = SubSeq(sent \o p, Gone + 1, Len(sent \o p))
    <3> DEFINE g == Gone
    <3>1. g \in 0 .. Len(sent) /\ buf = SubSeq(sent, g + 1, Len(sent))
      BY <1>1, <2>1 DEF BufferIsTheRest
    <3> HIDE DEF g
    <3>2. SubSeq(sent, g + 1, Len(sent)) \o p = SubSeq(sent \o p, g + 1, Len(sent \o p))
      BY <1>3, <3>1, RestGrows
    <3>3. buf \o p = SubSeq(sent \o p, g + 1, Len(sent \o p))
      BY <3>1, <3>2, Zenon
    <3> QED
      BY <3>3 DEF g
  <2>3. buf' = SubSeq(sent', Gone' + 1, Len(sent'))
    BY <1>2, <1>6, <2>2, Zenon
  <2>4. Cut(sent', Gone', Taken')
    BY <1>2, <1>6, <1>7, Zenon
  <2>5. Len(buf') <= Len(sent')
    BY <1>1, <1>3, <1>4 DEF BufferIsTheRest
  <2> QED
    BY <2>3, <2>4, <2>5 DEF BufferIsTheRest
<1>9. LogIsFaithful'
  <2>1. refused' \subseteq 1 .. Taken'
    BY <1>1, <1>2, <1>6 DEF LogIsFaithful
  <2>2. ASSUME NEW n \in (1 .. Taken') \ refused'
        PROVE  (Place(n) \in 1 .. Len(log) /\ log[Place(n)] = Logged(Line(sent, n)))'
    <3>1. n \in (1 .. Taken) \ refused /\ n \in 1 .. Taken
      BY <1>2, <1>6
    <3>2. Place(n) \in 1 .. Len(log) /\ log[Place(n)] = Logged(Line(sent, n))
      BY <1>1, <3>1 DEF LogIsFaithful
    <3>3. Place(n)' = Place(n)
      BY <1>2 DEF Place
    <3>4. Line(sent', n) = Line(sent, n)
      BY <1>2, <1>7, <3>1, Zenon
    <3>5. Logged(Line(sent, n))' = Logged(Line(sent, n))
      BY <1>2, <3>4, Zenon DEF Logged
    <3> QED
      BY <1>2, <3>2, <3>3, <3>5, Zenon
  <2> QED
    BY <2>1, <2>2 DEF LogIsFaithful
<1>10. NothingWaits'
  BY <1>2 DEF NothingWaits
<1>11. NoTokenLogged'
  BY <1>1, <1>2, Zenon DEF NoTokenLogged
<1> QED
  BY <1>1, <1>2, <1>5, <1>8, <1>9, <1>10, <1>11 DEF IndInv

\* The forwarder's Write.
LEMMA VaultWritesIndInv ==
    ASSUME IndInv, VaultWrites
    PROVE  IndInv'
<1>1. PICK p \in BoundedSeq(Raw, MaxChunk) \ {<<>>} :
        Len(sent) + Len(p) <= MaxOutput + AgentOutput /\ Enter("vault", p)
  BY DEF VaultWrites
<1>2. agent' = agent /\ AgentOutput' = AgentOutput
  BY DEF VaultWrites, AgentOutput
<1>3. p \in Seq(Raw)
  <2>1. PICK m \in 0 .. MaxChunk : p \in [1 .. m -> Raw]
    BY DEF BoundedSeq, SeqOf
  <2>2. m \in Nat /\ p \in [1 .. m -> Raw]
    BY <2>1, BoundsAssumption
  <2> QED
    BY <2>2, AFunctionIsASequence
<1>4. sent' = sent \o p /\ sent \in Seq(Raw) /\ agent \in BOOLEAN
  BY <1>1 DEF Enter, IndInv, TypeOK
<1>5. Len(sent') = Len(sent) + Len(p)
  BY <1>3, <1>4
<1>6. (Len(sent) <= MaxOutput + AgentOutput)'
  BY <1>1, <1>2, <1>5
<1> QED
  BY <1>1, <1>2, <1>3, <1>4, <1>6, EnterIndInv

\* The agent's Write.
LEMMA AgentWritesIndInv ==
    ASSUME IndInv, AgentWrites
    PROVE  IndInv'
<1>1. ~agent /\ agent' = TRUE /\ Enter("agent", AgentLine)
  BY DEF AgentWrites
<1>2. AgentOutput = 0 /\ AgentOutput' = Len(AgentLine)
  BY <1>1 DEF AgentOutput
<1>3. sent' = sent \o AgentLine /\ sent \in Seq(Raw) /\ Len(sent) <= MaxOutput + AgentOutput
  BY <1>1 DEF Enter, IndInv, TypeOK
<1>4. Len(sent') = Len(sent) + Len(AgentLine)
  BY <1>3, Alphabet
<1>5. (Len(sent) <= MaxOutput + AgentOutput)'
  BY <1>2, <1>3, <1>4, Alphabet, BoundsAssumption
<1> QED
  BY <1>1, <1>5, Alphabet, EnterIndInv

\* One round of the loop: the line is the next one of the stream.
LEMMA EmitLineIndInv ==
    ASSUME IndInv, EmitLine
    PROVE  IndInv'
<1> DEFINE g == Gone
           i == IndexByte(buf)
           line == SubSeq(buf, 1, i - 1)
           r == Redact(line)
<1>1. /\ TypeOK /\ secrets = Configured(token) /\ Len(sent) <= MaxOutput + AgentOutput
      /\ BufferIsTheRest /\ LogIsFaithful /\ NoTokenLogged
  BY DEF IndInv
<1>2. /\ mu # "free" /\ Contains(buf, LF)
      /\ buf' = SubSeq(buf, i + 1, Len(buf))
      /\ token' = token /\ secrets' = secrets /\ sent' = sent /\ agent' = agent
      /\ \/ log' = Append(log, r) /\ mu' = mu /\ refused' = refused
         \/ refused' = refused \cup {Taken + 1} /\ mu' = "free" /\ log' = log
  BY DEF EmitLine
<1>3. /\ sent \in Seq(Raw) /\ buf \in Seq(Raw) /\ log \in Seq(Seq(Raw))
      /\ Len(log) \in Nat /\ Len(sent) \in Nat /\ Len(buf) \in Nat /\ Taken \in Nat
      /\ IsFiniteSet(refused) /\ Cardinality(refused) \in Nat /\ token \in Seq(Raw)
  BY <1>1, TypeFacts DEF TypeOK
<1>4. /\ g \in 0 .. Len(sent) /\ buf = SubSeq(sent, g + 1, Len(sent)) /\ Len(buf) = Len(sent) - g
      /\ Cut(sent, g, Taken)
  BY <1>1, <1>3 DEF Gone, BufferIsTheRest
<1> HIDE DEF g
<1>5. i \in 1 .. Len(buf) /\ buf[i] = LF /\ \A m \in 1 .. i - 1 : buf[m] # LF
  BY <1>2, <1>3, FirstLineFeed
<1> HIDE DEF i
<1> DEFINE j == g + i
<1>6. \A m \in 1 .. Len(buf) : buf[m] = sent[g + m]
  BY <1>3, <1>4, RestFacts
<1>7. /\ j \in g + 1 .. Len(sent) /\ sent[j] = LF
      /\ \A m \in g + 1 .. j - 1 : sent[m] # LF
  <2>1. j \in g + 1 .. Len(sent) /\ sent[j] = LF
    BY <1>3, <1>4, <1>5, <1>6
  <2>2. ASSUME NEW m \in g + 1 .. j - 1
        PROVE  sent[m] # LF
    <3>1. m - g \in 1 .. i - 1 /\ m - g \in 1 .. Len(buf) /\ g + (m - g) = m
      BY <1>3, <1>4, <1>5
    <3> QED
      BY <1>5, <1>6, <3>1
  <2> QED
    BY <2>1, <2>2
<1>8. Cut(sent, j, Taken + 1) /\ Line(sent, Taken + 1) = SubSeq(sent, g + 1, j - 1)
  <2> HIDE DEF j
  <2> QED
    BY <1>3, <1>4, <1>7, CutNext
<1>9. /\ SubSeq(buf, 1, i - 1) = SubSeq(sent, g + 1, g + (i - 1))
      /\ SubSeq(buf, i + 1, Len(buf)) = SubSeq(sent, g + (i + 1), g + Len(buf))
  <2>1. /\ 1 \in 1 .. Len(buf) + 1 /\ i - 1 \in 1 - 1 .. Len(buf)
        /\ i + 1 \in 1 .. Len(buf) + 1 /\ Len(buf) \in (i + 1) - 1 .. Len(buf)
    BY <1>3, <1>5
  <2>2. \A a \in 1 .. Len(buf) + 1 : \A b \in a - 1 .. Len(buf) :
           SubSeq(buf, a, b) = SubSeq(sent, g + a, g + b)
    BY <1>3, <1>4, RestPart
  <2> QED
    BY <2>1, <2>2, Zenon
<1>10. line = Line(sent, Taken + 1) /\ buf' = SubSeq(sent, j + 1, Len(sent))
  <2>1. g + (i - 1) = j - 1 /\ g + (i + 1) = j + 1 /\ g + Len(buf) = Len(sent)
    BY <1>3, <1>4, <1>5
  <2> HIDE DEF j
  <2> QED
    BY <1>2, <1>8, <1>9, <2>1, Zenon
<1>11. line \in Seq(Raw)
  <2>1. \A m \in 1 .. i - 1 : buf[m] \in Raw
    BY <1>3, <1>5
  <2> QED
    BY <1>5, <2>1, SubSeqProperties
<1> HIDE DEF line
<1>12. /\ r \in Seq(Raw) /\ r = Logged(line)
       /\ token # <<>> /\ ~Contains(token, Star) => \A m \in 1 .. Len(r) : ~OccursAt(token, r, m)
  BY <1>1, <1>3, <1>11, Alphabet, RedactedLine
<1> HIDE DEF r
<1>13. /\ log' \in Seq(Seq(Raw)) /\ DOMAIN log = 1 .. Len(log) /\ DOMAIN log' = 1 .. Len(log')
       /\ \A k \in 1 .. Len(log) : k \in 1 .. Len(log') /\ log'[k] = log[k]
       /\ \A k \in 1 .. Len(log') : k \in 1 .. Len(log) \/ log'[k] = r
       /\ log' = Append(log, r) => Len(log') = Len(log) + 1 /\ log'[Len(log) + 1] = r
  <2> DEFINE V == Seq(Raw)
  <2>1. log \in Seq(V) /\ r \in V /\ Len(log) \in Nat
    BY <1>3, <1>12
  <2> HIDE DEF V
  <2>2. /\ Append(log, r) \in Seq(V) /\ Len(Append(log, r)) = Len(log) + 1
        /\ \A k \in 1 .. Len(log) : Append(log, r)[k] = log[k]
        /\ Append(log, r)[Len(log) + 1] = r
    BY <2>1, AppendProperties
  <2>3. CASE log' = log
    BY <2>1, <2>2, <2>3 DEF V
  <2>4. CASE log' = Append(log, r)
    BY <2>1, <2>2, <2>4 DEF V
  <2> QED
    BY <1>2, <2>3, <2>4
<1>14. /\ buf' \in Seq(Raw) /\ Len(buf') = Len(sent) - j /\ Gone' = j
  <2>1. j \in 0 .. Len(sent)
    BY <1>3, <1>4, <1>7
  <2>2. buf' \in Seq(Raw) /\ Len(buf') = Len(sent) - j
    <3> HIDE DEF j
    <3> QED
      BY <1>3, <1>10, <2>1, RestFacts
  <2>3. Gone' = Len(sent) - Len(buf')
    BY <1>2 DEF Gone
  <2> QED
    BY <1>3, <2>1, <2>2, <2>3
<1>15. Taken + 1 \in Position /\ Taken + 1 \notin refused /\ refused \subseteq 1 .. Taken
  <2>1. EndedBy(sent, j) = Taken + 1
    BY <1>8 DEF Cut
  <2>2. j \in 0 .. Len(sent)
    BY <1>3, <1>4, <1>7
  <2>3. Taken + 1 <= j
    <3> HIDE DEF j
    <3> QED
      BY <1>3, <2>1, <2>2, EndedByBounds
  <2>4. AgentOutput \in Nat /\ AgentOutput <= Len(AgentLine)
    BY Alphabet DEF AgentOutput
  <2>5. Taken + 1 <= MaxOutput + Len(AgentLine)
    BY <1>1, <1>3, <1>7, <2>2, <2>3, <2>4, BoundsAssumption, Alphabet
  <2>6. refused \subseteq 1 .. Taken
    BY <1>1, Zenon DEF LogIsFaithful
  <2> QED
    BY <1>3, <2>5, <2>6, Alphabet, BoundsAssumption DEF Position
<1>16. Taken' = Taken + 1
  <2>1. CASE log' = Append(log, r) /\ refused' = refused
    BY <1>3, <1>13, <2>1 DEF Taken
  <2>2. CASE refused' = refused \cup {Taken + 1} /\ log' = log
    <3>1. Cardinality(refused') = Cardinality(refused) + 1
      BY <1>3, <1>15, <2>2, FS_AddElement
    <3> QED
      BY <1>3, <2>2, <3>1 DEF Taken
  <2> QED
    BY <1>2, <2>1, <2>2
<1>17. TypeOK'
  <2>1. log' \in Seq(Seq(Raw))
    BY <1>13
  <2>2. refused' \subseteq Position
    BY <1>1, <1>2, <1>15 DEF TypeOK
  <2>3. mu' \in {"free", "vault", "agent"}
    BY <1>1, <1>2 DEF TypeOK
  <2> QED
    BY <1>1, <1>2, <1>14, <2>1, <2>2, <2>3 DEF TypeOK
<1>18. BufferIsTheRest'
  <2>1. Len(buf') <= Len(sent')
    BY <1>2, <1>3, <1>4, <1>7, <1>14
  <2> HIDE DEF j
  <2>2. buf' = SubSeq(sent', Gone' + 1, Len(sent')) /\ Cut(sent', Gone', Taken')
    BY <1>2, <1>8, <1>10, <1>14, <1>16, Zenon
  <2> QED
    BY <2>1, <2>2 DEF BufferIsTheRest
<1>19. ASSUME NEW n \in (1 .. Taken) \ refused
       PROVE  /\ Place(n)' = Place(n)
              /\ Place(n)' \in 1 .. Len(log') /\ log'[Place(n)'] = Logged(Line(sent, n))'
  <2>1. Place(n) \in 1 .. Len(log) /\ log[Place(n)] = Logged(Line(sent, n))
    BY <1>1 DEF LogIsFaithful
  <2>2. {m \in refused' : m < n} = {m \in refused : m < n}
    BY <1>2, <1>3
  <2>3. Place(n)' = Place(n)
    BY <2>2 DEF Place
  <2>4. Place(n) \in 1 .. Len(log') /\ log'[Place(n)] = log[Place(n)]
    BY <1>13, <2>1
  <2>5. Logged(Line(sent, n))' = Logged(Line(sent, n))
    BY <1>2, Zenon DEF Logged
  <2> QED
    BY <1>2, <2>1, <2>3, <2>4, <2>5, Zenon
<1>20. LogIsFaithful'
  <2>1. refused' \subseteq 1 .. Taken'
    <3>1. 1 .. Taken' = (1 .. Taken) \cup {Taken + 1}
      BY <1>3, <1>16
    <3> QED
      BY <1>2, <1>15, <3>1
  <2>2. ASSUME NEW n \in (1 .. Taken') \ refused'
        PROVE  Place(n)' \in 1 .. Len(log') /\ log'[Place(n)'] = Logged(Line(sent, n))'
    <3>1. CASE n \in 1 .. Taken
      <4>1. n \in (1 .. Taken) \ refused
        BY <1>2, <2>2, <3>1
      <4> QED
        BY <1>19, <4>1
    <3>2. CASE n = Taken + 1
      <4>1. log' = Append(log, r) /\ refused' = refused
        BY <1>2, <2>2, <3>2
      <4>2. {m \in refused : m < n} = refused
        <5>1. \A m \in refused : m < n
          BY <1>3, <1>15, <3>2
        <5> QED
          BY <5>1
      <4>3. Place(n)' = Len(log) + 1
        <5>1. Place(n)' = n - Cardinality(refused)
          BY <4>1, <4>2 DEF Place
        <5> QED
          BY <1>3, <3>2, <5>1 DEF Taken
      <4>4. Len(log) + 1 \in 1 .. Len(log') /\ log'[Len(log) + 1] = r
        BY <1>3, <1>13, <4>1
      <4>5. Logged(Line(sent, n))' = Logged(line)
        BY <1>2, <1>10, <3>2, Zenon DEF Logged
      <4> QED
        BY <1>12, <4>3, <4>4, <4>5, Zenon
    <3> QED
      BY <1>3, <1>16, <3>1, <3>2
  <2> QED
    BY <2>1, <2>2 DEF LogIsFaithful
<1>21. NothingWaits'
  BY <1>2 DEF NothingWaits
<1>22. NoTokenLogged'
  <2> SUFFICES ASSUME token # <<>>, ~Contains(token, Star), NEW k \in DOMAIN log', NEW m \in DOMAIN log'[k]
               PROVE  ~OccursAt(token, log'[k], m)
    BY <1>2 DEF NoTokenLogged
  <2>1. CASE k \in DOMAIN log /\ log'[k] = log[k]
    BY <1>1, <2>1 DEF NoTokenLogged
  <2>2. CASE log'[k] = r
    <3>1. m \in 1 .. Len(r)
      BY <1>12, <2>2
    <3> QED
      BY <1>12, <2>2, <3>1
  <2>3. (k \in DOMAIN log /\ log'[k] = log[k]) \/ log'[k] = r
    BY <1>13
  <2> QED
    BY <2>1, <2>2, <2>3
<1>23. (Len(sent) <= MaxOutput + AgentOutput)'
  BY <1>1, <1>2 DEF AgentOutput
<1> QED
  BY <1>1, <1>2, <1>17, <1>18, <1>20, <1>21, <1>22, <1>23 DEF IndInv

\* Every step, one action at a time; Return and stuttering change no more than mu.
LEMMA StepIndInv ==
    ASSUME IndInv, [Next]_vars
    PROVE  IndInv'
<1>1. CASE VaultWrites
  BY <1>1, VaultWritesIndInv
<1>2. CASE AgentWrites
  BY <1>2, AgentWritesIndInv
<1>3. CASE EmitLine
  BY <1>3, EmitLineIndInv
<1>4. ASSUME UNCHANGED <<token, secrets, buf, log, sent, refused, agent>>,
             (~Contains(buf, LF) /\ mu' = "free") \/ mu' = mu
      PROVE  IndInv'
  <2>1. /\ TypeOK /\ secrets = Configured(token) /\ Len(sent) <= MaxOutput + AgentOutput
        /\ BufferIsTheRest /\ LogIsFaithful /\ NothingWaits /\ NoTokenLogged
    BY DEF IndInv
  <2>2. TypeOK'
    BY <1>4, <2>1 DEF TypeOK
  <2>3. Taken' = Taken /\ Gone' = Gone /\ AgentOutput' = AgentOutput
    BY <1>4 DEF Taken, Gone, AgentOutput
  <2>4. BufferIsTheRest'
    BY <1>4, <2>1, <2>3, Zenon DEF BufferIsTheRest
  <2>5. \A n : Place(n)' = Place(n)
    BY <1>4 DEF Place
  <2>6. LogIsFaithful'
    BY <1>4, <2>1, <2>3, <2>5, Zenon DEF LogIsFaithful, Logged
  <2>7. NothingWaits'
    BY <1>4, <2>1 DEF NothingWaits
  <2>8. NoTokenLogged'
    BY <1>4, <2>1, Zenon DEF NoTokenLogged
  <2> QED
    BY <1>4, <2>1, <2>2, <2>3, <2>4, <2>6, <2>7, <2>8 DEF IndInv
<1>5. CASE Return
  BY <1>4, <1>5 DEF Return
<1>6. CASE UNCHANGED vars
  BY <1>4, <1>6 DEF vars
<1> QED
  BY <1>1, <1>2, <1>3, <1>5, <1>6 DEF Next

-----------------------------------------------------------------------------
(* Theorems *)

\* The invariant holds in every reachable state.
LEMMA Inductive == Spec => []IndInv
BY InitIndInv, StepIndInv, PTL DEF Spec

\* In every reachable state the variables of the log writer have their types:
\* in particular no empty secret is kept, and a refused line is one of the stream.
THEOREM TypeCorrect == Spec => []TypeOK
<1>1. IndInv => TypeOK
  BY DEF IndInv
<1> QED
  BY <1>1, Inductive, PTL

\* However the writes are cut and interleaved, and whatever the destination
\* refuses, the log is the stream's lines, in order, whole and once each, with
\* the configured token replaced.
THEOREM LogFaithful == Spec => []LogIsTheStream
<1>1. ASSUME IndInv
      PROVE  LogIsTheStream
  <2> DEFINE lines == EndedBy(sent, Len(sent))
  <2>1. TypeOK /\ BufferIsTheRest /\ LogIsFaithful /\ NothingWaits
    BY <1>1 DEF IndInv
  <2>2. sent \in Seq(Raw) /\ buf \in Seq(Raw) /\ Taken \in Nat /\ Len(sent) \in Nat /\ Len(buf) \in Nat
    BY <2>1, TypeFacts DEF TypeOK
  <2>3. /\ Gone \in 0 .. Len(sent) /\ buf = SubSeq(sent, Gone + 1, Len(sent))
        /\ Len(buf) = Len(sent) - Gone
        /\ Gone \in {0} \cup LineEnds(sent) /\ EndedBy(sent, Gone) = Taken
    BY <2>1, <2>2 DEF BufferIsTheRest, Gone, Cut
  <2>4. Taken <= lines
    <3>1. Len(sent) \in Gone .. Len(sent)
      BY <2>2, <2>3
    <3> QED
      BY <2>2, <2>3, <3>1, EndedByGrows
  <2>5. \A n \in (1 .. Taken) \ refused : log[Place(n)] = Logged(Line(sent, n))
    BY <2>1 DEF LogIsFaithful
  <2>6. ASSUME mu = "free", refused = {}
        PROVE  Taken = lines /\ buf = SubSeq(sent, EndOf(sent, lines) + 1, Len(sent))
    <3>1. \A m \in 1 .. Len(buf) : buf[m] # LF
      BY <2>1, <2>6 DEF NothingWaits, Contains
    <3> DEFINE g == Gone
    <3>2. g \in 0 .. Len(sent) /\ buf = SubSeq(sent, g + 1, Len(sent))
      BY <2>3
    <3>3. \A m \in 1 .. Len(buf) : buf[m] = sent[g + m]
      <4> HIDE DEF g
      <4> QED
        BY <2>2, <3>2, RestFacts
    <3>4. \A m \in g + 1 .. Len(sent) : sent[m] # LF
      <4> SUFFICES ASSUME NEW m \in g + 1 .. Len(sent)
                   PROVE  sent[m] # LF
        OBVIOUS
      <4>1. m - g \in 1 .. Len(buf) /\ g + (m - g) = m
        BY <2>2, <2>3
      <4> QED
        BY <3>1, <3>3, <4>1
    <3>5. lines = Taken
      BY <2>2, <2>3, <3>4, NoMoreLineEnds
    <3>6. EndOf(sent, Taken) = Gone
      BY <2>2, <2>3, EndOfFacts
    <3> HIDE DEF g
    <3> QED
      BY <2>3, <3>5, <3>6, Zenon
  <2> QED
    BY <2>4, <2>5, <2>6 DEF LogIsTheStream
<1> QED
  BY <1>1, Inductive, PTL

\* A configured token without an asterisk is in no line of the log, for every such
\* token, chunking and refusal: ReplaceAll sees whole lines only, and a mask adds
\* nothing but asterisks.
THEOREM TokenNeverLogged == Spec => []NoTokenLogged
<1>1. IndInv => NoTokenLogged
  BY DEF IndInv
<1> QED
  BY <1>1, Inductive, PTL
===============================================================================
