--------------------------- MODULE TreeLayoutProofs ---------------------------
(***************************************************************************)
(* Theorems about the tree page, for every file, every target, every       *)
(* number of levels and every order of siblings.                           *)
(*                                                                         *)
(* The measures and the rows are recursive functions.  A recursion over    *)
(* the levels has a solution (Recursion), so each definition obeys its     *)
(* equation, and what a recursion computes is proved by induction on the   *)
(* set of levels where it holds.  One level further is the same            *)
(* relation seen from the next generation (Maps, NextGeneration): with it  *)
(* the rows of fillATree and fillDTree are compared with Above and Below,  *)
(* and the widths of a row with the width of the one below it.             *)
(***************************************************************************)
EXTENDS TreeLayout, PersonRelationsProofs, SequenceTheorems

\* A recursion that goes up to N: g[n + 1] is made of g[n].
Recurs(g, N, V, base, step) ==
    /\ g \in [0..N -> V]
    /\ g[0] = base
    /\ \A n \in 0..(N - 1) : g[n + 1] = step[n][g[n]]

LEMMA RecursionUpTo ==
    ASSUME NEW V, NEW base \in V, NEW step \in [Nat -> [V -> V]], NEW N \in Nat
    PROVE  \E g : Recurs(g, N, V, base, step)
<1> DEFINE S == {n \in 0..N : \E g : Recurs(g, n, V, base, step)}
<1>1. 0 \in S
  <2>1. Recurs([i \in 0..0 |-> base], 0, V, base, step)
    BY DEF Recurs
  <2>2. QED
    BY <2>1
<1>2. ASSUME NEW n \in 0..(N - 1), n \in S
      PROVE  n + 1 \in S
  <2>1. PICK g : Recurs(g, n, V, base, step)
    BY <1>2
  <2> DEFINE last == step[n][g[n]]
             h == [i \in 0..(n + 1) |-> IF i = n + 1 THEN last ELSE g[i]]
  <2>2. last \in V
    <3>1. g[n] \in V
      BY <2>1 DEF Recurs
    <3>2. step[n] \in [V -> V]
      OBVIOUS
    <3>3. QED
      BY <3>1, <3>2
  <2> HIDE DEF last
  <2>3. h \in [0..(n + 1) -> V] /\ h[0] = base
    BY <2>1, <2>2 DEF Recurs
  <2>4. ASSUME NEW i \in 0..n
        PROVE  h[i + 1] = step[i][h[i]]
    <3>1. h[i] = g[i]
      OBVIOUS
    <3>2. CASE i = n
      <4>1. h[n + 1] = last
        OBVIOUS
      <4>2. QED
        BY <3>1, <3>2, <4>1 DEF last
    <3>3. CASE i # n
      <4>1. i \in 0..(n - 1) /\ i + 1 \in 0..n /\ i + 1 # n + 1
        BY <3>3
      <4>2. h[i + 1] = g[i + 1]
        BY <4>1
      <4>3. g[i + 1] = step[i][g[i]]
        BY <2>1, <4>1 DEF Recurs
      <4>4. QED
        BY <3>1, <4>2, <4>3
    <3>4. QED
      BY <3>2, <3>3
  <2> HIDE DEF h
  <2>5. (n + 1) - 1 = n /\ n + 1 \in 0..N
    BY <1>2
  <2>6. Recurs(h, n + 1, V, base, step)
    BY <2>3, <2>4, <2>5 DEF Recurs
  <2>7. QED
    BY <2>5, <2>6
<1> HIDE DEF S
<1>3. \A n \in 0..N : n \in S
  BY <1>1, <1>2, Induction
<1>4. N \in 0..N
  OBVIOUS
<1>5. QED
  BY <1>3, <1>4 DEF S

LEMMA RecursionsAgree ==
    ASSUME NEW V, NEW base \in V, NEW step \in [Nat -> [V -> V]],
           NEW M \in Nat, NEW N \in Nat, NEW g, NEW h,
           Recurs(g, M, V, base, step), Recurs(h, N, V, base, step), M =< N
    PROVE  g[M] = h[M]
<1> DEFINE S == {n \in 0..M : g[n] = h[n]}
<1>1. 0 \in S
  BY DEF Recurs
<1>2. ASSUME NEW n \in 0..(M - 1), n \in S
      PROVE  n + 1 \in S
  <2>1. n \in 0..(N - 1) /\ n + 1 \in 0..M
    OBVIOUS
  <2>2. g[n + 1] = step[n][g[n]] /\ h[n + 1] = step[n][h[n]]
    BY <2>1 DEF Recurs
  <2>3. QED
    BY <1>2, <2>1, <2>2
<1> HIDE DEF S
<1>3. \A n \in 0..M : n \in S
  BY <1>1, <1>2, Induction
<1>4. M \in 0..M
  OBVIOUS
<1>5. QED
  BY <1>3, <1>4 DEF S

\* Every recursion over the numbers has a solution.
Solves(g, V, base, step) ==
    /\ g \in [Nat -> V]
    /\ g[0] = base
    /\ \A n \in Nat : g[n + 1] = step[n][g[n]]

LEMMA Recursion ==
    ASSUME NEW V, NEW base \in V, NEW step \in [Nat -> [V -> V]]
    PROVE  \E g : Solves(g, V, base, step)
<1> DEFINE up(n) == CHOOSE g : Recurs(g, n, V, base, step)
           G == [n \in Nat |-> up(n)[n]]
<1>1. \A n \in Nat : Recurs(up(n), n, V, base, step)
  BY RecursionUpTo
<1> HIDE DEF up
<1>2. \A n \in Nat : G[n] \in V
  BY <1>1 DEF Recurs
<1>3. G[0] = base
  BY <1>1 DEF Recurs
<1>4. ASSUME NEW n \in Nat
      PROVE  G[n + 1] = step[n][G[n]]
  <2> DEFINE g == up(n)
             h == up(n + 1)
             N == n + 1
  <2>1. N \in Nat /\ n =< N /\ n \in 0..(N - 1)
    OBVIOUS
  <2>2. Recurs(g, n, V, base, step) /\ Recurs(h, N, V, base, step)
    BY <1>1, <2>1
  <2>3. G[n] = g[n] /\ G[n + 1] = h[n + 1]
    BY <2>1
  <2> HIDE DEF g, h, N, G
  <2>4. h[n + 1] = step[n][h[n]]
    BY <2>1, <2>2 DEF Recurs
  <2>5. g[n] = h[n]
    BY <2>1, <2>2, RecursionsAgree
  <2>6. QED
    BY <2>3, <2>4, <2>5
<1>5. G \in [Nat -> V]
  BY <1>2
<1>6. Solves(G, V, base, step)
  BY <1>3, <1>4, <1>5 DEF Solves
<1>7. QED
  BY <1>6

\* Induction over all numbers.
LEMMA AllNumbers ==
    ASSUME NEW S, 0 \in S, \A n \in Nat : n \in S => n + 1 \in S
    PROVE  \A n \in Nat : n \in S
<1> SUFFICES ASSUME NEW N \in Nat
             PROVE  N \in S
  OBVIOUS
<1>1. \A n \in 0..(N - 1) : n \in S => n + 1 \in S
  OBVIOUS
<1>2. \A n \in 0..N : n \in S
  BY <1>1, Induction
<1>3. QED
  BY <1>2
-----------------------------------------------------------------------------
\* The width of the ancestors doubles with each level.
Doubles(w) == w = [n \in Nat |-> IF n = 0 THEN 1 ELSE 2 * w[n - 1]]

LEMMA ATreeWidth ==
    /\ getATreeWidth(0) = 1
    /\ \A n \in Nat : /\ getATreeWidth(n) \in Nat \ {0}
                      /\ getATreeWidth(n + 1) = getATreeWidth(n) + getATreeWidth(n)
<1> DEFINE V == Nat \ {0}
           step == [n \in Nat |-> [x \in V |-> 2 * x]]
           w == CHOOSE w : Doubles(w)
<1>1. \E g : Doubles(g)
  <2>1. \A x \in V : 2 * x \in V
    OBVIOUS
  <2>0. 1 \in V
    OBVIOUS
  <2> HIDE DEF V
  <2>2. /\ step \in [Nat -> [V -> V]]
        /\ \A n \in Nat : \A x \in V : step[n][x] = 2 * x
    <3> DEFINE twice == [x \in V |-> 2 * x]
    <3>1. twice \in [V -> V] /\ \A x \in V : twice[x] = 2 * x
      BY <2>1
    <3>2. step = [n \in Nat |-> twice]
      OBVIOUS
    <3> HIDE DEF twice, step
    <3>3. QED
      BY <3>1, <3>2
  <2> HIDE DEF step
  <2>3. PICK g : Solves(g, V, 1, step)
    BY <2>0, <2>2, Recursion
  <2>4. ASSUME NEW n \in Nat, n # 0
        PROVE  g[n] = 2 * g[n - 1]
    <3>1. n - 1 \in Nat /\ (n - 1) + 1 = n
      BY <2>4
    <3>2. g[(n - 1) + 1] = step[n - 1][g[n - 1]]
      BY <2>3, <3>1 DEF Solves
    <3>3. QED
      BY <2>2, <2>3, <3>1, <3>2 DEF Solves
  <2>5. Doubles(g)
    BY <2>3, <2>4 DEF Doubles, Solves
  <2>6. QED
    BY <2>5
<1>2. Doubles(w)
  BY <1>1
<1>3. \A n : getATreeWidth(n) = w[n]
  BY DEF getATreeWidth, Doubles
<1> HIDE DEF w
<1>4. w[0] = 1 /\ \A n \in Nat : w[n + 1] = 2 * w[n]
  <2>1. \A n \in Nat : w[n] = IF n = 0 THEN 1 ELSE 2 * w[n - 1]
    BY <1>2 DEF Doubles
  <2>2. \A n \in Nat : n + 1 \in Nat /\ n + 1 # 0 /\ (n + 1) - 1 = n
    OBVIOUS
  <2>3. QED
    BY <2>1, <2>2
<1>5. \A n \in Nat : w[n] \in V
  <2> DEFINE S == {n \in Nat : w[n] \in V}
  <2>1. 0 \in S /\ \A n \in Nat : n \in S => n + 1 \in S
    BY <1>4
  <2> HIDE DEF S
  <2>2. \A n \in Nat : n \in S
    BY <2>1, AllNumbers
  <2>3. QED
    BY <2>2 DEF S
<1>6. QED
  BY <1>3, <1>4, <1>5
-----------------------------------------------------------------------------
\* Induction over sequences: from nothing, by one more element at a time.
LEMMA AllSequences ==
    ASSUME NEW T, NEW S, <<>> \in S,
           \A s \in Seq(T) : \A x \in T : s \in S => Append(s, x) \in S
    PROVE  \A s \in Seq(T) : s \in S
<1> SUFFICES ASSUME NEW s \in Seq(T)
             PROVE  s \in S
  OBVIOUS
<1> DEFINE N == Len(s)
           I == {n \in 0..N : SubSeq(s, 1, n) \in S}
<1>1. N \in Nat
  OBVIOUS
<1>full. SubSeq(s, 1, N) = s
  BY SubSeqFull
<1>2. 0 \in I
  <2>1. SubSeq(s, 1, 0) = <<>>
    BY SubSeqEmpty
  <2>2. SubSeq(s, 1, 0) \in S
    BY <2>1, Zenon
  <2>3. QED
    BY <1>1, <2>2
<1>3. ASSUME NEW n \in 0..(N - 1), n \in I
      PROVE  n + 1 \in I
  <2>1. /\ n \in 0..N /\ n + 1 \in 1..N /\ (n + 1) - 1 = n /\ 1 \in 1..N
        /\ SubSeq(s, 1, n) \in Seq(T)
        /\ s[n + 1] \in T
    BY <1>1, SubSeqProperties
  <2>4. SubSeq(s, 1, n + 1) = SubSeq(s, 1, n) \o <<s[n + 1]>>
    BY <2>1, SubSeqRecursiveSecond
  <2>5. SubSeq(s, 1, n + 1) = Append(SubSeq(s, 1, n), s[n + 1])
    BY <2>1, <2>4, AppendIsConcat
  <2>2. SubSeq(s, 1, n) \in S
    BY <1>3
  <2> HIDE DEF N
  <2>3. SubSeq(s, 1, n + 1) \in S
    BY <2>1, <2>2, <2>5
  <2>6. QED
    BY <2>1, <2>3
<1> HIDE DEF I
<1>4. \A n \in 0..N : n \in I
  BY <1>1, <1>2, <1>3, Induction
<1>5. N \in I
  BY <1>1, <1>4
<1>6. SubSeq(s, 1, N) \in S
  BY <1>5 DEF I
<1>7. QED
  BY <1>6, <1>full, Zenon

\* The sum of no cells, and of one more.
Sums(sum, s) == sum = [n \in 0..Len(s) |-> IF n = 0 THEN 0 ELSE sum[n - 1] + s[n]]

\* What is added up one at a time has a sum.
LEMMA SumExists ==
    ASSUME NEW add \in [Nat -> Nat]
    PROVE  \E g \in [Nat -> Nat] : /\ g[0] = 0
                                   /\ \A n \in Nat : g[n + 1] = g[n] + add[n]
<1> DEFINE V == Nat
           step == [n \in Nat |-> [x \in Nat |-> x + add[n]]]
<1>1. ASSUME NEW n \in Nat, NEW x \in Nat
      PROVE  step[n][x] = x + add[n]
  <2> DEFINE more == [y \in Nat |-> y + add[n]]
  <2>1. step[n] = more
    OBVIOUS
  <2> HIDE DEF step
  <2>2. more[x] = x + add[n]
    OBVIOUS
  <2>3. QED
    BY <2>1, <2>2
<1>2. step \in [Nat -> [V -> V]]
  OBVIOUS
<1>3. 0 \in V
  OBVIOUS
<1> HIDE DEF V, step
<1>4. PICK g : Solves(g, V, 0, step)
  BY <1>2, <1>3, Recursion
<1>5. g \in [Nat -> Nat] /\ g[0] = 0 /\ \A n \in Nat : g[n + 1] = step[n][g[n]]
  BY <1>4 DEF Solves, V
<1>6. ASSUME NEW n \in Nat
      PROVE  g[n + 1] = g[n] + add[n]
  <2>1. g[n] \in Nat
    BY <1>5
  <2>2. QED
    BY <1>1, <1>5, <2>1
<1>7. QED
  BY <1>5, <1>6

LEMMA TotalIsSummed ==
    ASSUME NEW s \in Seq(Nat)
    PROVE  \E sum : /\ sum[0] = 0
                    /\ \A n \in 1..Len(s) : sum[n] = sum[n - 1] + s[n]
                    /\ \A n \in 0..Len(s) : sum[n] \in Nat
                    /\ Total(s) = sum[Len(s)]
<1> DEFINE N == Len(s)
           add(n) == IF n + 1 \in 1..N THEN s[n + 1] ELSE 0
           total == CHOOSE sum : Sums(sum, s)
<1>1. N \in Nat
  OBVIOUS
<1>2. \E sum : Sums(sum, s)
  <2>1. \A n \in Nat : add(n) \in Nat
    OBVIOUS
  <2>2. \A n \in 1..N : n - 1 \in Nat /\ (n - 1) + 1 = n /\ add(n - 1) = s[n]
    OBVIOUS
  <2> HIDE DEF add
  <2>3. PICK g \in [Nat -> Nat] : /\ g[0] = 0
                                  /\ \A n \in Nat : g[n + 1] = g[n] + add(n)
    <3> DEFINE more == [n \in Nat |-> add(n)]
    <3>1. more \in [Nat -> Nat] /\ \A n \in Nat : more[n] = add(n)
      BY <2>1
    <3> HIDE DEF more
    <3>2. QED
      BY <3>1, SumExists
  <2> DEFINE h == [n \in 0..N |-> g[n]]
  <2>7. ASSUME NEW n \in 0..N, n # 0
        PROVE  h[n] = h[n - 1] + s[n]
    <3>1. n \in 1..N /\ n - 1 \in 0..N /\ n - 1 \in Nat /\ (n - 1) + 1 = n
      BY <1>1, <2>7
    <3>2. g[(n - 1) + 1] = g[n - 1] + add(n - 1)
      BY <2>3, <3>1
    <3>3. QED
      BY <2>2, <3>1, <3>2
  <2>8. 0 \in 0..N /\ h[0] = 0
    BY <1>1, <2>3
  <2>9. DOMAIN h = 0..N /\ h = [n \in 0..N |-> h[n]]
    OBVIOUS
  <2> HIDE DEF h
  <2>10. Sums(h, s)
    BY <2>7, <2>8, <2>9 DEF Sums
  <2>11. QED
    BY <2>10
<1>3. Sums(total, s)
  BY <1>2
<1>4. Total(s) = total[N]
  BY DEF Total, Sums
<1> HIDE DEF total
<1>5. \A n \in 0..N : total[n] = IF n = 0 THEN 0 ELSE total[n - 1] + s[n]
  BY <1>3 DEF Sums
<1>6. total[0] = 0 /\ \A n \in 1..N : total[n] = total[n - 1] + s[n]
  BY <1>1, <1>5
<1>7. \A n \in 0..N : total[n] \in Nat
  <2> DEFINE S == {n \in 0..N : total[n] \in Nat}
  <2>1. 0 \in S
    BY <1>1, <1>6
  <2>2. ASSUME NEW n \in 0..(N - 1), n \in S
        PROVE  n + 1 \in S
    <3>1. n + 1 \in 1..N /\ n + 1 \in 0..N /\ (n + 1) - 1 = n
      BY <1>1
    <3>2. total[n + 1] = total[n] + s[n + 1] /\ s[n + 1] \in Nat
      BY <1>6, <3>1
    <3>3. QED
      BY <2>2, <3>1, <3>2
  <2> HIDE DEF S
  <2>3. \A n \in 0..N : n \in S
    BY <1>1, <2>1, <2>2, Induction
  <2>4. QED
    BY <2>3 DEF S
<1>8. QED
  BY <1>4, <1>6, <1>7

LEMMA TotalOfMore ==
    /\ Total(<<>>) = 0
    /\ \A s \in Seq(Nat) : \A x \in Nat :
          /\ Total(s) \in Nat
          /\ Total(Append(s, x)) = Total(s) + x
<1>1. Total(<<>>) = 0
  <2>1. <<>> \in Seq(Nat) /\ Len(<<>>) = 0
    OBVIOUS
  <2>2. PICK sum : sum[0] = 0 /\ Total(<<>>) = sum[0]
    BY <2>1, TotalIsSummed
  <2>3. QED
    BY <2>2
<1>2. ASSUME NEW s \in Seq(Nat), NEW x \in Nat
      PROVE  /\ Total(s) \in Nat
             /\ Total(Append(s, x)) = Total(s) + x
  <2> DEFINE N == Len(s)
             a == Append(s, x)
  <2>1. /\ N \in Nat
        /\ a \in Seq(Nat) /\ Len(a) = N + 1
        /\ \A n \in 1..N : a[n] = s[n]
        /\ a[N + 1] = x
    OBVIOUS
  <2>2. PICK g : /\ g[0] = 0
                 /\ \A n \in 1..N : g[n] = g[n - 1] + s[n]
                 /\ \A n \in 0..N : g[n] \in Nat
                 /\ Total(s) = g[N]
    BY TotalIsSummed
  <2>3. PICK h : /\ h[0] = 0
                 /\ \A n \in 1..Len(a) : h[n] = h[n - 1] + a[n]
                 /\ Total(a) = h[Len(a)]
    BY <2>1, TotalIsSummed
  <2> HIDE DEF N, a
  <2> DEFINE S == {n \in 0..N : h[n] = g[n]}
  <2>4. 0 \in S
    BY <2>1, <2>2, <2>3
  <2>5. ASSUME NEW n \in 0..(N - 1), n \in S
        PROVE  n + 1 \in S
    <3>1. /\ n + 1 \in 1..N /\ n + 1 \in 0..N /\ n + 1 \in 1..Len(a)
          /\ (n + 1) - 1 = n
      BY <2>1
    <3>2. h[n + 1] = h[n] + a[n + 1] /\ g[n + 1] = g[n] + s[n + 1] /\ a[n + 1] = s[n + 1]
      BY <2>1, <2>2, <2>3, <3>1
    <3>3. QED
      BY <2>5, <3>1, <3>2
  <2> HIDE DEF S
  <2>6. \A n \in 0..N : n \in S
    BY <2>1, <2>4, <2>5, Induction
  <2>7. h[N] = g[N] /\ g[N] \in Nat
    BY <2>1, <2>2, <2>6 DEF S
  <2>8. N + 1 \in 1..Len(a) /\ (N + 1) - 1 = N
    BY <2>1
  <2>9. h[N + 1] = h[N] + x
    BY <2>1, <2>3, <2>8
  <2>10. QED
    BY <2>1, <2>2, <2>3, <2>7, <2>9 DEF a
<1>3. QED
  BY <1>1, <1>2
-----------------------------------------------------------------------------
\* What is joined one sequence at a time.
LEMMA JoinExists ==
    ASSUME NEW T, NEW add \in [Nat -> Seq(T)]
    PROVE  \E g \in [Nat -> Seq(T)] : /\ g[0] = <<>>
                                      /\ \A n \in Nat : g[n + 1] = g[n] \o add[n]
<1> DEFINE V == Seq(T)
           step == [n \in Nat |-> [x \in V |-> x \o add[n]]]
<1>1. ASSUME NEW n \in Nat
      PROVE  step[n] \in [V -> V] /\ \A x \in V : step[n][x] = x \o add[n]
  <2> DEFINE more == [y \in V |-> y \o add[n]]
  <2>1. step[n] = more
    OBVIOUS
  <2> HIDE DEF step
  <2>2. more \in [V -> V] /\ \A x \in V : more[x] = x \o add[n]
    OBVIOUS
  <2> HIDE DEF more
  <2>3. QED
    BY <2>1, <2>2
<1>2. step \in [Nat -> [V -> V]]
  <2>1. \E f : step = [n \in Nat |-> f[n]]
    <3>1. step = [n \in Nat |-> step[n]]
      OBVIOUS
    <3> HIDE DEF step
    <3>2. QED
      BY <3>1
  <2> HIDE DEF step
  <2>2. QED
    BY <1>1, <2>1
<1>3. <<>> \in V
  OBVIOUS
<1> HIDE DEF V, step
<1>4. PICK g : Solves(g, V, <<>>, step)
  BY <1>2, <1>3, Recursion
<1>5. g \in [Nat -> V] /\ g[0] = <<>> /\ \A n \in Nat : g[n + 1] = step[n][g[n]]
  BY <1>4 DEF Solves
<1>6. ASSUME NEW n \in Nat
      PROVE  g[n + 1] = g[n] \o add[n]
  <2>1. g[n] \in V
    BY <1>5
  <2>2. QED
    BY <1>1, <1>5, <2>1
<1>7. QED
  BY <1>5, <1>6 DEF V

\* The recursion of FlattenSeq.
Flattens(f, ss) ==
    f = [i \in 1..Len(ss) |-> IF i = 1 THEN ss[i] ELSE f[i - 1] \o ss[i]]

LEMMA FlattenIsJoined ==
    ASSUME NEW T, NEW ss \in Seq(Seq(T))
    PROVE  \E g : /\ g[0] = <<>>
                  /\ \A n \in 1..Len(ss) : g[n] = g[n - 1] \o ss[n]
                  /\ \A n \in 0..Len(ss) : g[n] \in Seq(T)
                  /\ FlattenSeq(ss) = g[Len(ss)]
<1> DEFINE N == Len(ss)
           add(n) == IF n + 1 \in 1..N THEN ss[n + 1] ELSE <<>>
           flat == CHOOSE f : Flattens(f, ss)
<1>1. N \in Nat /\ \A n \in 1..N : ss[n] \in Seq(T)
  OBVIOUS
<1>2. \A n \in Nat : add(n) \in Seq(T)
  BY <1>1
<1>3. \A n \in 1..N : n - 1 \in Nat /\ (n - 1) + 1 = n /\ add(n - 1) = ss[n]
  BY <1>1
<1> HIDE DEF add
<1>4. PICK g \in [Nat -> Seq(T)] : g[0] = <<>> /\ \A n \in Nat : g[n + 1] = g[n] \o add(n)
  <2> DEFINE more == [n \in Nat |-> add(n)]
  <2>1. more \in [Nat -> Seq(T)] /\ \A n \in Nat : more[n] = add(n)
    BY <1>2
  <2> HIDE DEF more
  <2>2. \E g \in [Nat -> Seq(T)] : /\ g[0] = <<>>
                                   /\ \A n \in Nat : g[n + 1] = g[n] \o more[n]
    BY <2>1, JoinExists, Zenon
  <2>3. QED
    BY <2>1, <2>2, Zenon
<1>5. \A n \in 1..N : g[n] = g[n - 1] \o ss[n]
  <2> TAKE n \in 1..N
  <2>1. g[(n - 1) + 1] = g[n - 1] \o add(n - 1)
    BY <1>3, <1>4
  <2>2. QED
    BY <1>3, <2>1
<1>6. \A n \in 0..N : g[n] \in Seq(T)
  BY <1>1, <1>4
<1>7. ASSUME N # 0
      PROVE  FlattenSeq(ss) = g[N]
  <2> DEFINE h == [n \in 1..N |-> g[n]]
  <2>1. 1 \in 1..N /\ g[1] = ss[1]
    <3>1. 1 \in 1..N
      BY <1>1, <1>7
    <3> DEFINE none == 1 - 1
    <3>0. g[1] = g[none] \o ss[1]
      BY <1>5, <3>1, Zenon
    <3>2. none = 0
      OBVIOUS
    <3> HIDE DEF none
    <3>3. ss[1] \in Seq(T)
      BY <1>1, <3>1
    <3>4. <<>> \o ss[1] = ss[1]
      BY <3>3, ConcatEmptySeq
    <3>5. QED
      BY <1>4, <3>0, <3>1, <3>2, <3>4, Zenon
  <2>2. ASSUME NEW n \in 1..N
        PROVE  h[n] = IF n = 1 THEN ss[n] ELSE h[n - 1] \o ss[n]
    <3>1. n = 1 \/ n - 1 \in 1..N
      BY <1>1
    <3>2. QED
      BY <1>5, <2>1, <3>1
  <2>3. h = [n \in 1..N |-> h[n]]
    OBVIOUS
  <2> HIDE DEF h
  <2>4. Flattens(h, ss)
    BY <2>2, <2>3 DEF Flattens
  <2>5. Flattens(flat, ss)
    BY <2>4
  <2>6. FlattenSeq(ss) = flat[N]
    BY <1>7 DEF FlattenSeq, Flattens
  <2> HIDE DEF flat
  <2>7. ASSUME NEW n \in 1..N
        PROVE  flat[n] = IF n = 1 THEN ss[n] ELSE flat[n - 1] \o ss[n]
    BY <2>5 DEF Flattens
  <2> DEFINE S == {n \in 0..N : n = 0 \/ flat[n] = g[n]}
  <2>8. 0 \in S
    BY <1>1
  <2>9. ASSUME NEW n \in 0..(N - 1), n \in S
        PROVE  n + 1 \in S
    <3>1. n + 1 \in 1..N /\ n + 1 \in 0..N /\ (n + 1) - 1 = n
      BY <1>1
    <3>2. CASE n = 0
      BY <2>1, <2>7, <3>1, <3>2
    <3>3. CASE n # 0
      <4>1. flat[n] = g[n] /\ n + 1 # 1
        BY <2>9, <3>3
      <4>2. flat[n + 1] = flat[n] \o ss[n + 1]
        BY <2>7, <3>1, <4>1
      <4>3. g[n + 1] = g[n] \o ss[n + 1]
        BY <1>5, <3>1
      <4>4. QED
        BY <3>1, <4>1, <4>2, <4>3
    <3>4. QED
      BY <3>2, <3>3
  <2> HIDE DEF S
  <2>10. \A n \in 0..N : n \in S
    BY <1>1, <2>8, <2>9, Induction
  <2>11. N \in S
    BY <1>1, <2>10
  <2>12. QED
    BY <1>7, <2>6, <2>11 DEF S
<1>8. CASE N = 0
  <2>1. ss = <<>>
    BY <1>8
  <2>2. FlattenSeq(ss) = ss
    BY <1>8 DEF FlattenSeq
  <2>3. QED
    BY <1>4, <1>5, <1>6, <1>8, <2>1, <2>2
<1>9. QED
  BY <1>4, <1>5, <1>6, <1>7, <1>8

\* Nothing, and one more sequence.
LEMMA FlattenOfMore ==
    /\ FlattenSeq(<<>>) = <<>>
    /\ \A T : \A ss \in Seq(Seq(T)) : \A s \in Seq(T) :
          /\ FlattenSeq(ss) \in Seq(T)
          /\ FlattenSeq(Append(ss, s)) = FlattenSeq(ss) \o s
<1>1. FlattenSeq(<<>>) = <<>>
  BY DEF FlattenSeq
<1>2. ASSUME NEW T, NEW ss \in Seq(Seq(T)), NEW s \in Seq(T)
      PROVE  /\ FlattenSeq(ss) \in Seq(T)
             /\ FlattenSeq(Append(ss, s)) = FlattenSeq(ss) \o s
  <2> DEFINE N == Len(ss)
             a == Append(ss, s)
  <2>1. /\ N \in Nat
        /\ a \in Seq(Seq(T)) /\ Len(a) = N + 1
        /\ \A n \in 1..N : a[n] = ss[n]
        /\ a[N + 1] = s
    OBVIOUS
  <2>2. PICK g : /\ g[0] = <<>>
                 /\ \A n \in 1..N : g[n] = g[n - 1] \o ss[n]
                 /\ \A n \in 0..N : g[n] \in Seq(T)
                 /\ FlattenSeq(ss) = g[N]
    BY FlattenIsJoined
  <2> HIDE DEF a
  <2>3. PICK h : /\ h[0] = <<>>
                 /\ \A n \in 1..Len(a) : h[n] = h[n - 1] \o a[n]
                 /\ FlattenSeq(a) = h[Len(a)]
    BY <2>1, FlattenIsJoined
  <2> HIDE DEF N
  <2> DEFINE S == {n \in 0..N : h[n] = g[n]}
  <2>4. 0 \in S
    BY <2>1, <2>2, <2>3
  <2>5. ASSUME NEW n \in 0..(N - 1), n \in S
        PROVE  n + 1 \in S
    <3>1. /\ n + 1 \in 1..N /\ n + 1 \in 0..N /\ n + 1 \in 1..Len(a)
          /\ (n + 1) - 1 = n
      BY <2>1
    <3>2. h[n + 1] = h[n] \o a[n + 1] /\ g[n + 1] = g[n] \o ss[n + 1] /\ a[n + 1] = ss[n + 1]
      BY <2>1, <2>2, <2>3, <3>1
    <3>3. QED
      BY <2>5, <3>1, <3>2
  <2> HIDE DEF S
  <2>6. \A n \in 0..N : n \in S
    BY <2>1, <2>4, <2>5, Induction
  <2>7. h[N] = g[N] /\ g[N] \in Seq(T)
    BY <2>1, <2>2, <2>6 DEF S
  <2>8. N + 1 \in 1..Len(a) /\ (N + 1) - 1 = N
    BY <2>1
  <2>9. h[N + 1] = h[N] \o s
    BY <2>1, <2>3, <2>8
  <2>10. QED
    BY <2>1, <2>2, <2>3, <2>7, <2>9 DEF a
<1>3. QED
  BY <1>1, <1>2
-----------------------------------------------------------------------------
\* f of each element of s, what they are together, and what they add up to.
\* (Opaque, for the provers to recognise.)
Maps(T, W) == [T -> W]
Join(s, t) == s \o t
Mapped(f, s) == [i \in DOMAIN s |-> f[s[i]]]
Flat(f, s) == FlattenSeq(Mapped(f, s))
Sum(w, s) == Total(Mapped(w, s))

LEMMA MappedNone ==
    ASSUME NEW f
    PROVE  Mapped(f, <<>>) = <<>> /\ Flat(f, <<>>) = <<>> /\ Sum(f, <<>>) = 0
<1>1. Mapped(f, <<>>) = <<>>
  BY DEF Mapped
<1>2. QED
  BY <1>1, FlattenOfMore, TotalOfMore DEF Flat, Sum

LEMMA MappedType ==
    ASSUME NEW T, NEW W, NEW f \in Maps(T, W), NEW s \in Seq(T)
    PROVE  Mapped(f, s) \in Seq(W) /\ Len(Mapped(f, s)) = Len(s)
BY DEF Mapped, Maps

\* One more element.
LEMMA MappedAppend ==
    ASSUME NEW T, NEW W, NEW f \in Maps(T, W), NEW s \in Seq(T), NEW x \in T
    PROVE  Mapped(f, Append(s, x)) = Append(Mapped(f, s), f[x])
<1> DEFINE a == Append(s, x)
           m == Mapped(f, s)
           l == Mapped(f, a)
           r == Append(m, f[x])
           N == Len(s)
<1>1. /\ N \in Nat
      /\ a \in Seq(T) /\ Len(a) = N + 1
      /\ \A n \in 1..N : a[n] = s[n]
      /\ a[N + 1] = x
  OBVIOUS
<1>2. m \in Seq(W) /\ Len(m) = N /\ \A n \in 1..N : m[n] = f[s[n]]
  BY DEF Mapped, Maps
<1> HIDE DEF a, m
<1>3. l \in Seq(W) /\ Len(l) = N + 1 /\ \A n \in 1..(N + 1) : l[n] = f[a[n]]
  BY <1>1 DEF Mapped, Maps
<1>4. /\ r \in Seq(W) /\ Len(r) = N + 1
      /\ \A n \in 1..N : r[n] = m[n]
      /\ r[N + 1] = f[x]
  BY <1>2 DEF Maps
<1> HIDE DEF l, r, N
<1>5. ASSUME NEW n \in 1..(N + 1)
      PROVE  l[n] = r[n]
  <2>1. n \in 1..N \/ n = N + 1
    BY <1>1
  <2>2. QED
    BY <1>1, <1>2, <1>3, <1>4, <2>1
<1>6. l = r
  BY <1>3, <1>4, <1>5
<1>7. QED
  BY <1>6 DEF l, r, a, m

LEMMA FlatType ==
    ASSUME NEW T, NEW W, NEW f \in Maps(T, Seq(W)), NEW s \in Seq(T)
    PROVE  Flat(f, s) \in Seq(W)
<1>1. Mapped(f, s) \in Seq(Seq(W)) /\ <<>> \in Seq(W)
  BY MappedType
<1>2. QED
  BY <1>1, FlattenOfMore DEF Flat

LEMMA FlatAppend ==
    ASSUME NEW T, NEW W, NEW f \in Maps(T, Seq(W)), NEW s \in Seq(T), NEW x \in T
    PROVE  Flat(f, Append(s, x)) = Join(Flat(f, s), f[x])
<1>1. Mapped(f, s) \in Seq(Seq(W)) /\ f[x] \in Seq(W)
  BY MappedType DEF Maps
<1>2. Mapped(f, Append(s, x)) = Append(Mapped(f, s), f[x])
  BY MappedAppend
<1>3. QED
  BY <1>1, <1>2, FlattenOfMore DEF Flat, Join

LEMMA SumType ==
    ASSUME NEW T, NEW w \in Maps(T, Nat), NEW s \in Seq(T)
    PROVE  Sum(w, s) \in Nat
<1>1. Mapped(w, s) \in Seq(Nat) /\ 0 \in Nat
  BY MappedType
<1>2. QED
  BY <1>1, TotalOfMore DEF Sum

LEMMA SumAppend ==
    ASSUME NEW T, NEW w \in Maps(T, Nat), NEW s \in Seq(T), NEW x \in T
    PROVE  Sum(w, Append(s, x)) = Sum(w, s) + w[x]
<1>1. Mapped(w, s) \in Seq(Nat) /\ w[x] \in Nat
  BY MappedType DEF Maps
<1>2. Mapped(w, Append(s, x)) = Append(Mapped(w, s), w[x])
  BY MappedAppend
<1>3. QED
  BY <1>1, <1>2, TotalOfMore DEF Sum

\* One more at the end of the second of two sequences.
LEMMA JoinAppend ==
    ASSUME NEW T, NEW s \in Seq(T), NEW t \in Seq(T), NEW x \in T
    PROVE  Join(s, Append(t, x)) = Append(Join(s, t), x) /\ Join(s, t) \in Seq(T)
<1>1. s \o t \in Seq(T) /\ <<x>> \in Seq(T)
  OBVIOUS
<1>2. Append(t, x) = t \o <<x>> /\ Append(s \o t, x) = (s \o t) \o <<x>>
  BY <1>1, AppendIsConcat
<1>3. (s \o t) \o <<x>> = s \o (t \o <<x>>)
  BY <1>1, ConcatAssociative
<1>4. QED
  BY <1>1, <1>2, <1>3, Zenon DEF Join

LEMMA JoinNone ==
    ASSUME NEW T, NEW s \in Seq(T)
    PROVE  Join(s, <<>>) = s /\ Join(<<>>, s) = s
BY ConcatEmptySeq DEF Join

LEMMA JoinAssociative ==
    ASSUME NEW T, NEW s \in Seq(T), NEW t \in Seq(T), NEW u \in Seq(T)
    PROVE  Join(Join(s, t), u) = Join(s, Join(t, u))
BY ConcatAssociative DEF Join

\* What is mapped, joined or added up over two sequences is so over each.
LEMMA MappedJoin ==
    ASSUME NEW T, NEW W, NEW f \in Maps(T, W), NEW s \in Seq(T), NEW t \in Seq(T)
    PROVE  Mapped(f, Join(s, t)) = Join(Mapped(f, s), Mapped(f, t))
<1> DEFINE S == {u \in Seq(T) : Mapped(f, Join(s, u)) = Join(Mapped(f, s), Mapped(f, u))}
<1>1. <<>> \in S
  <2>1. Join(s, <<>>) = s /\ Join(Mapped(f, s), <<>>) = Mapped(f, s)
    BY MappedType, JoinNone
  <2>2. Mapped(f, <<>>) = <<>>
    BY MappedNone
  <2>3. <<>> \in Seq(T)
    OBVIOUS
  <2>4. QED
    BY <2>1, <2>2, <2>3
<1>2. ASSUME NEW u \in Seq(T), NEW x \in T, u \in S
      PROVE  Append(u, x) \in S
  <2> DEFINE m == Mapped(f, u)
             r == Mapped(f, s)
             j == Join(s, u)
             y == f[x]
  <2>1. Join(s, Append(u, x)) = Append(j, x) /\ j \in Seq(T)
    BY JoinAppend
  <2>2. m \in Seq(W) /\ r \in Seq(W) /\ y \in W
    BY MappedType DEF Maps
  <2>3. Mapped(f, j) = Join(r, m)
    BY <1>2
  <2>4. Mapped(f, Append(u, x)) = Append(m, y)
    BY MappedAppend
  <2> HIDE DEF j
  <2>5. Mapped(f, Append(j, x)) = Append(Mapped(f, j), y)
    BY <2>1, MappedAppend
  <2> HIDE DEF m, r, y
  <2>6. Join(r, Append(m, y)) = Append(Join(r, m), y)
    BY <2>2, JoinAppend
  <2>7. Mapped(f, Join(s, Append(u, x))) = Join(r, Mapped(f, Append(u, x)))
    BY <2>1, <2>3, <2>4, <2>5, <2>6, Zenon
  <2>8. Append(u, x) \in Seq(T)
    OBVIOUS
  <2>9. QED
    BY <2>7, <2>8 DEF r
<1> HIDE DEF S
<1>3. t \in S
  BY <1>1, <1>2, AllSequences
<1>4. QED
  BY <1>3 DEF S

LEMMA FlatJoin ==
    ASSUME NEW T, NEW W, NEW f \in Maps(T, Seq(W)), NEW s \in Seq(T), NEW t \in Seq(T)
    PROVE  Flat(f, Join(s, t)) = Join(Flat(f, s), Flat(f, t))
<1> DEFINE S == {u \in Seq(T) : Flat(f, Join(s, u)) = Join(Flat(f, s), Flat(f, u))}
<1>1. <<>> \in S
  <2>1. Join(s, <<>>) = s /\ Join(Flat(f, s), <<>>) = Flat(f, s)
    BY FlatType, JoinNone
  <2>2. Flat(f, <<>>) = <<>>
    BY MappedNone
  <2>3. <<>> \in Seq(T)
    OBVIOUS
  <2>4. QED
    BY <2>1, <2>2, <2>3
<1>2. ASSUME NEW u \in Seq(T), NEW x \in T, u \in S
      PROVE  Append(u, x) \in S
  <2> DEFINE m == Flat(f, u)
             r == Flat(f, s)
             j == Join(s, u)
             y == f[x]
  <2>1. Join(s, Append(u, x)) = Append(j, x) /\ j \in Seq(T)
    BY JoinAppend
  <2>2. m \in Seq(W) /\ r \in Seq(W) /\ y \in Seq(W)
    BY FlatType DEF Maps
  <2>3. Flat(f, j) = Join(r, m)
    BY <1>2
  <2>4. Flat(f, Append(u, x)) = Join(m, y)
    BY FlatAppend
  <2> HIDE DEF j
  <2>5. Flat(f, Append(j, x)) = Join(Flat(f, j), y)
    BY <2>1, FlatAppend
  <2> HIDE DEF m, r, y
  <2>6. Join(Join(r, m), y) = Join(r, Join(m, y))
    BY <2>2, JoinAssociative
  <2>7. Flat(f, Join(s, Append(u, x))) = Join(r, Flat(f, Append(u, x)))
    BY <2>1, <2>3, <2>4, <2>5, <2>6, Zenon
  <2>8. Append(u, x) \in Seq(T)
    OBVIOUS
  <2>9. QED
    BY <2>7, <2>8 DEF r
<1> HIDE DEF S
<1>3. t \in S
  BY <1>1, <1>2, AllSequences
<1>4. QED
  BY <1>3 DEF S

LEMMA SumJoin ==
    ASSUME NEW T, NEW w \in Maps(T, Nat), NEW s \in Seq(T), NEW t \in Seq(T)
    PROVE  Sum(w, Join(s, t)) = Sum(w, s) + Sum(w, t)
<1> DEFINE S == {u \in Seq(T) : Sum(w, Join(s, u)) = Sum(w, s) + Sum(w, u)}
<1>1. <<>> \in S
  <2>1. Join(s, <<>>) = s /\ Sum(w, s) \in Nat
    BY SumType, JoinNone
  <2>2. Sum(w, <<>>) = 0
    BY MappedNone
  <2>3. <<>> \in Seq(T)
    OBVIOUS
  <2>4. QED
    BY <2>1, <2>2, <2>3
<1>2. ASSUME NEW u \in Seq(T), NEW x \in T, u \in S
      PROVE  Append(u, x) \in S
  <2> DEFINE j == Join(s, u)
  <2>1. Join(s, Append(u, x)) = Append(j, x) /\ j \in Seq(T)
    BY JoinAppend
  <2>2. Sum(w, u) \in Nat /\ Sum(w, s) \in Nat /\ w[x] \in Nat
    BY SumType DEF Maps
  <2>3. Sum(w, j) = Sum(w, s) + Sum(w, u)
    BY <1>2
  <2>4. Sum(w, Append(u, x)) = Sum(w, u) + w[x]
    BY SumAppend
  <2> HIDE DEF j
  <2>5. Sum(w, Append(j, x)) = Sum(w, j) + w[x]
    BY <2>1, SumAppend
  <2>6. Sum(w, Join(s, Append(u, x))) = Sum(w, s) + Sum(w, Append(u, x))
    BY <2>1, <2>2, <2>3, <2>4, <2>5
  <2>7. Append(u, x) \in Seq(T)
    OBVIOUS
  <2>8. QED
    BY <2>6, <2>7
<1> HIDE DEF S
<1>3. t \in S
  BY <1>1, <1>2, AllSequences
<1>4. QED
  BY <1>3 DEF S

\* What is mapped, joined or added up over all that u gives of s.
LEMMA MappedOfFlat ==
    ASSUME NEW T, NEW W, NEW u \in Maps(T, Seq(T)), NEW f \in Maps(T, W),
           NEW g \in Maps(T, Seq(W)), \A x \in T : g[x] = Mapped(f, u[x]),
           NEW s \in Seq(T)
    PROVE  Mapped(f, Flat(u, s)) = Flat(g, s)
<1> DEFINE S == {t \in Seq(T) : Mapped(f, Flat(u, t)) = Flat(g, t)}
<1>1. <<>> \in S
  BY MappedNone
<1>2. ASSUME NEW t \in Seq(T), NEW x \in T, t \in S
      PROVE  Append(t, x) \in S
  <2> DEFINE l == Flat(u, t)
             r == u[x]
  <2>1. l \in Seq(T) /\ r \in Seq(T)
    BY FlatType DEF Maps
  <2>2. Flat(u, Append(t, x)) = Join(l, r)
    BY FlatAppend
  <2>3. Flat(g, Append(t, x)) = Join(Flat(g, t), g[x])
    BY FlatAppend
  <2>4. Mapped(f, l) = Flat(g, t) /\ Mapped(f, r) = g[x]
    BY <1>2
  <2> HIDE DEF l, r
  <2>5. Mapped(f, Join(l, r)) = Join(Mapped(f, l), Mapped(f, r))
    BY <2>1, MappedJoin
  <2>6. Append(t, x) \in Seq(T)
    OBVIOUS
  <2>7. Mapped(f, Flat(u, Append(t, x))) = Flat(g, Append(t, x))
    BY <2>2, <2>3, <2>4, <2>5, Zenon
  <2>8. QED
    BY <2>6, <2>7
<1> HIDE DEF S
<1>3. s \in S
  BY <1>1, <1>2, AllSequences
<1>4. QED
  BY <1>3 DEF S

LEMMA FlatOfFlat ==
    ASSUME NEW T, NEW W, NEW u \in Maps(T, Seq(T)), NEW f \in Maps(T, Seq(W)),
           NEW g \in Maps(T, Seq(W)), \A x \in T : g[x] = Flat(f, u[x]),
           NEW s \in Seq(T)
    PROVE  Flat(f, Flat(u, s)) = Flat(g, s)
<1> DEFINE S == {t \in Seq(T) : Flat(f, Flat(u, t)) = Flat(g, t)}
<1>1. <<>> \in S
  BY MappedNone
<1>2. ASSUME NEW t \in Seq(T), NEW x \in T, t \in S
      PROVE  Append(t, x) \in S
  <2> DEFINE l == Flat(u, t)
             r == u[x]
  <2>1. l \in Seq(T) /\ r \in Seq(T)
    BY FlatType DEF Maps
  <2>2. Flat(u, Append(t, x)) = Join(l, r)
    BY FlatAppend
  <2>3. Flat(g, Append(t, x)) = Join(Flat(g, t), g[x])
    BY FlatAppend
  <2>4. Flat(f, l) = Flat(g, t) /\ Flat(f, r) = g[x]
    BY <1>2
  <2> HIDE DEF l, r
  <2>5. Flat(f, Join(l, r)) = Join(Flat(f, l), Flat(f, r))
    BY <2>1, FlatJoin
  <2>6. Append(t, x) \in Seq(T)
    OBVIOUS
  <2>7. Flat(f, Flat(u, Append(t, x))) = Flat(g, Append(t, x))
    BY <2>2, <2>3, <2>4, <2>5, Zenon
  <2>8. QED
    BY <2>6, <2>7
<1> HIDE DEF S
<1>3. s \in S
  BY <1>1, <1>2, AllSequences
<1>4. QED
  BY <1>3 DEF S

LEMMA SumOfFlat ==
    ASSUME NEW T, NEW u \in Maps(T, Seq(T)), NEW w \in Maps(T, Nat),
           NEW g \in Maps(T, Nat), \A x \in T : g[x] = Sum(w, u[x]),
           NEW s \in Seq(T)
    PROVE  Sum(w, Flat(u, s)) = Sum(g, s)
<1> DEFINE S == {t \in Seq(T) : Sum(w, Flat(u, t)) = Sum(g, t)}
<1>1. <<>> \in S
  BY MappedNone
<1>2. ASSUME NEW t \in Seq(T), NEW x \in T, t \in S
      PROVE  Append(t, x) \in S
  <2> DEFINE l == Flat(u, t)
             r == u[x]
  <2>1. l \in Seq(T) /\ r \in Seq(T)
    BY FlatType DEF Maps
  <2>2. Flat(u, Append(t, x)) = Join(l, r)
    BY FlatAppend
  <2>3. Sum(g, Append(t, x)) = Sum(g, t) + g[x]
    BY SumAppend
  <2>4. Sum(w, l) = Sum(g, t) /\ Sum(w, r) = g[x]
    BY <1>2
  <2> HIDE DEF l, r
  <2>5. Sum(w, Join(l, r)) = Sum(w, l) + Sum(w, r)
    BY <2>1, SumJoin
  <2>6. Append(t, x) \in Seq(T)
    OBVIOUS
  <2>7. Sum(w, Flat(u, Append(t, x))) = Sum(g, Append(t, x))
    BY <2>2, <2>3, <2>4, <2>5, Zenon
  <2>8. QED
    BY <2>6, <2>7
<1> HIDE DEF S
<1>3. s \in S
  BY <1>1, <1>2, AllSequences
<1>4. QED
  BY <1>3 DEF S

\* Whoever is in a joined list is in one of its parts.
LEMMA MembersJoin ==
    ASSUME NEW T, NEW s \in Seq(T), NEW t \in Seq(T)
    PROVE  ToSet(Join(s, t)) = ToSet(s) \cup ToSet(t)
<1> DEFINE j == Join(s, t)
           M == Len(s)
           N == Len(t)
<1>1. /\ M \in Nat /\ N \in Nat
      /\ DOMAIN s = 1..M /\ DOMAIN t = 1..N /\ DOMAIN j = 1..(M + N)
      /\ \A i \in 1..(M + N) : j[i] = IF i =< M THEN s[i] ELSE t[i - M]
  BY DEF Join
<1> HIDE DEF j, M, N
<1>2. ASSUME NEW x \in ToSet(j)
      PROVE  x \in ToSet(s) \cup ToSet(t)
  <2>1. PICK i \in 1..(M + N) : j[i] = x
    BY <1>1 DEF ToSet
  <2>2. CASE i =< M
    <3>1. i \in 1..M /\ x = s[i]
      BY <1>1, <2>1, <2>2
    <3>2. QED
      BY <1>1, <3>1 DEF ToSet
  <2>3. CASE ~(i =< M)
    <3>1. i - M \in 1..N /\ x = t[i - M]
      BY <1>1, <2>1, <2>3
    <3>2. QED
      BY <1>1, <3>1 DEF ToSet
  <2>4. QED
    BY <2>2, <2>3
<1>3. ASSUME NEW x \in ToSet(s)
      PROVE  x \in ToSet(j)
  <2>1. PICK i \in 1..M : s[i] = x
    BY <1>1 DEF ToSet
  <2>2. i \in 1..(M + N) /\ j[i] = x
    BY <1>1, <2>1
  <2>3. QED
    BY <1>1, <2>2 DEF ToSet
<1>4. ASSUME NEW x \in ToSet(t)
      PROVE  x \in ToSet(j)
  <2>1. PICK i \in 1..N : t[i] = x
    BY <1>1 DEF ToSet
  <2>2. M + i \in 1..(M + N) /\ ~(M + i =< M) /\ (M + i) - M = i
    BY <1>1, <2>1
  <2>3. j[M + i] = x
    BY <1>1, <2>1, <2>2
  <2>4. QED
    BY <1>1, <2>2, <2>3 DEF ToSet
<1>5. ToSet(j) = ToSet(s) \cup ToSet(t)
  BY <1>2, <1>3, <1>4
<1>6. QED
  BY <1>5 DEF j

LEMMA MembersAppend ==
    ASSUME NEW T, NEW s \in Seq(T), NEW x \in T
    PROVE  ToSet(Append(s, x)) = ToSet(s) \cup {x}
<1> DEFINE a == Append(s, x)
           N == Len(s)
<1>1. /\ N \in Nat /\ DOMAIN s = 1..N /\ DOMAIN a = (1..N) \cup {N + 1}
      /\ \A n \in 1..N : a[n] = s[n]
      /\ a[N + 1] = x
  OBVIOUS
<1> HIDE DEF a, N
<1>2. ToSet(a) = ToSet(s) \cup {x}
  BY <1>1 DEF ToSet
<1>3. QED
  BY <1>2 DEF a

LEMMA MembersOfFlat ==
    ASSUME NEW T, NEW u \in Maps(T, Seq(T)), NEW s \in Seq(T)
    PROVE  ToSet(Flat(u, s)) = UNION {ToSet(u[x]) : x \in ToSet(s)}
<1> DEFINE S == {t \in Seq(T) : ToSet(Flat(u, t)) = UNION {ToSet(u[x]) : x \in ToSet(t)}}
<1>1. <<>> \in S
  <2>1. ToSet(<<>>) = {} /\ <<>> \in Seq(T)
    BY DEF ToSet
  <2>2. Flat(u, <<>>) = <<>>
    BY MappedNone
  <2>3. QED
    BY <2>1, <2>2
<1>2. ASSUME NEW t \in Seq(T), NEW x \in T, t \in S
      PROVE  Append(t, x) \in S
  <2> DEFINE l == Flat(u, t)
             r == u[x]
  <2>1. l \in Seq(T) /\ r \in Seq(T)
    BY FlatType DEF Maps
  <2>2. Flat(u, Append(t, x)) = Join(l, r)
    BY FlatAppend
  <2>3. ToSet(l) = UNION {ToSet(u[y]) : y \in ToSet(t)}
    BY <1>2
  <2>4. ToSet(Append(t, x)) = ToSet(t) \cup {x}
    BY MembersAppend
  <2>5. UNION {ToSet(u[y]) : y \in ToSet(t) \cup {x}} = ToSet(l) \cup ToSet(r)
    BY <2>3
  <2> HIDE DEF l, r
  <2>6. ToSet(Join(l, r)) = ToSet(l) \cup ToSet(r)
    BY <2>1, MembersJoin
  <2>7. Append(t, x) \in Seq(T)
    OBVIOUS
  <2>8. ToSet(Flat(u, Append(t, x))) = UNION {ToSet(u[y]) : y \in ToSet(Append(t, x))}
    BY <2>2, <2>4, <2>5, <2>6, Zenon
  <2>9. QED
    BY <2>7, <2>8
<1> HIDE DEF S
<1>3. s \in S
  BY <1>1, <1>2, AllSequences
<1>4. QED
  BY <1>3 DEF S

LEMMA MappedAlike ==
    ASSUME NEW T, NEW s \in Seq(T), NEW f, NEW g,
           \A x \in ToSet(s) : f[x] = g[x]
    PROVE  Mapped(f, s) = Mapped(g, s) /\ Flat(f, s) = Flat(g, s) /\ Sum(f, s) = Sum(g, s)
<1>1. \A i \in DOMAIN s : f[s[i]] = g[s[i]]
  BY DEF ToSet
<1>2. Mapped(f, s) = Mapped(g, s)
  BY <1>1 DEF Mapped
<1>3. QED
  BY <1>2 DEF Flat, Sum

LEMMA FlatOne ==
    ASSUME NEW T, NEW W, NEW f \in Maps(T, Seq(W)), NEW x \in T
    PROVE  Flat(f, <<x>>) = f[x]
<1>1. <<x>> = Append(<<>>, x) /\ <<>> \in Seq(T)
  OBVIOUS
<1>2. Flat(f, Append(<<>>, x)) = Join(Flat(f, <<>>), f[x])
  BY <1>1, FlatAppend
<1>3. f[x] \in Seq(W)
  BY DEF Maps
<1>4. QED
  BY <1>1, <1>2, <1>3, MappedNone, JoinNone

LEMMA SumOne ==
    ASSUME NEW T, NEW w \in Maps(T, Nat), NEW x \in T
    PROVE  Sum(w, <<x>>) = w[x]
<1>1. <<x>> = Append(<<>>, x) /\ <<>> \in Seq(T)
  OBVIOUS
<1>2. Sum(w, Append(<<>>, x)) = Sum(w, <<>>) + w[x]
  BY <1>1, SumAppend
<1>3. w[x] \in Nat
  BY DEF Maps
<1>4. QED
  BY <1>1, <1>2, <1>3, MappedNone

LEMMA FlatOnes ==
    ASSUME NEW T, NEW f \in Maps(T, Seq(T)), \A x \in T : f[x] = <<x>>, NEW s \in Seq(T)
    PROVE  Flat(f, s) = s
<1> DEFINE S == {t \in Seq(T) : Flat(f, t) = t}
<1>1. <<>> \in S
  BY MappedNone
<1>2. ASSUME NEW t \in Seq(T), NEW x \in T, t \in S
      PROVE  Append(t, x) \in S
  <2>1. Flat(f, Append(t, x)) = Join(Flat(f, t), f[x])
    BY FlatAppend
  <2>2. Flat(f, t) = t /\ f[x] = <<x>>
    BY <1>2
  <2>3. Join(t, <<x>>) = Append(t, x)
    BY AppendIsConcat DEF Join
  <2>4. Append(t, x) \in Seq(T)
    OBVIOUS
  <2>5. Flat(f, Append(t, x)) = Append(t, x)
    BY <2>1, <2>2, <2>3, Zenon
  <2>6. QED
    BY <2>4, <2>5
<1> HIDE DEF S
<1>3. s \in S
  BY <1>1, <1>2, AllSequences
<1>4. QED
  BY <1>3 DEF S
-----------------------------------------------------------------------------
\* The generations of everybody in T, u giving the next one: g[n][q] is the
\* n-th of q, made of the generations before it of those next to q.
Generations(g, T, u) ==
    /\ g \in Maps(Nat, Maps(T, Seq(T)))
    /\ \A q \in T : g[0][q] = <<q>>
    /\ \A n \in Nat : \A q \in T : g[n + 1][q] = Flat(g[n], u[q])

LEMMA GenerationsExist ==
    ASSUME NEW T, NEW u \in Maps(T, Seq(T))
    PROVE  \E g : Generations(g, T, u)
<1> DEFINE V == Maps(T, Seq(T))
           base == [q \in T |-> <<q>>]
           step == [n \in Nat |-> [f \in V |-> [q \in T |-> Flat(f, u[q])]]]
<1>1. base \in V /\ \A q \in T : base[q] = <<q>>
  BY DEF Maps
<1>2. ASSUME NEW n \in Nat, NEW f \in V
      PROVE  step[n][f] \in V /\ \A q \in T : step[n][f][q] = Flat(f, u[q])
  <2> DEFINE next == [q \in T |-> Flat(f, u[q])]
             nexts == [h \in V |-> [q \in T |-> Flat(h, u[q])]]
  <2>1. step[n] = nexts
    OBVIOUS
  <2> HIDE DEF step
  <2>2. nexts[f] = next
    OBVIOUS
  <2> HIDE DEF nexts
  <2>3. \A q \in T : Flat(f, u[q]) \in Seq(T)
    <3>1. \A q \in T : u[q] \in Seq(T)
      BY DEF Maps
    <3>2. QED
      BY <3>1, FlatType
  <2>4. next \in V /\ \A q \in T : next[q] = Flat(f, u[q])
    BY <2>3 DEF Maps
  <2> HIDE DEF next
  <2>5. QED
    BY <2>1, <2>2, <2>4
<1>3. ASSUME NEW n \in Nat
      PROVE  step[n] \in [V -> V]
  <2>1. \A f \in V : step[n][f] \in V
    BY <1>2
  <2>2. step[n] = [f \in V |-> step[n][f]]
    <3> DEFINE nexts == [h \in V |-> [q \in T |-> Flat(h, u[q])]]
    <3>1. step[n] = nexts
      OBVIOUS
    <3> HIDE DEF step
    <3>2. nexts = [f \in V |-> nexts[f]]
      OBVIOUS
    <3>3. QED
      BY <3>1, <3>2
  <2> HIDE DEF step
  <2>3. QED
    BY <2>1, <2>2
<1>4. step = [n \in Nat |-> step[n]]
  OBVIOUS
<1> HIDE DEF V, base, step
<1>5. step \in [Nat -> [V -> V]]
  BY <1>3, <1>4
<1>6. PICK g : Solves(g, V, base, step)
  BY <1>1, <1>5, Recursion
<1>7. /\ g \in [Nat -> V]
      /\ g[0] = base
      /\ \A n \in Nat : g[n + 1] = step[n][g[n]]
  BY <1>6 DEF Solves
<1>8. \A n \in Nat : g[n] \in V
  BY <1>7
<1>9. ASSUME NEW n \in Nat, NEW q \in T
      PROVE  g[n + 1][q] = Flat(g[n], u[q])
  <2> DEFINE f == g[n]
  <2>1. f \in V /\ g[n + 1] = step[n][f]
    BY <1>7, <1>8
  <2> HIDE DEF f
  <2>2. step[n][f][q] = Flat(f, u[q])
    BY <1>2, <2>1
  <2>3. QED
    BY <2>1, <2>2 DEF f
<1>10. \A q \in T : g[0][q] = <<q>>
  BY <1>1, <1>7
<1>11. g \in Maps(Nat, Maps(T, Seq(T)))
  BY <1>7 DEF V, Maps
<1>12. Generations(g, T, u)
  BY <1>9, <1>10, <1>11 DEF Generations
<1>13. QED
  BY <1>12

\* Every generation is made as well of those next to the one before it.
LEMMA NextGeneration ==
    ASSUME NEW T, NEW u \in Maps(T, Seq(T)), NEW g, Generations(g, T, u)
    PROVE  \A n \in Nat : /\ g[n] \in Maps(T, Seq(T))
                          /\ \A q \in T : /\ g[n][q] \in Seq(T)
                                          /\ g[n + 1][q] = Flat(u, g[n][q])
<1>1. \A n \in Nat : g[n] \in Maps(T, Seq(T))
  BY DEF Generations, Maps
<1>2. ASSUME NEW n \in Nat, NEW q \in T
      PROVE  g[n][q] \in Seq(T) /\ u[q] \in Seq(T)
  BY <1>1 DEF Maps
<1> DEFINE S == {n \in Nat : \A q \in T : g[n + 1][q] = Flat(u, g[n][q])}
<1>3. 0 \in S
  <2>1. ASSUME NEW q \in T
        PROVE  g[0 + 1][q] = Flat(u, g[0][q])
    <3>1. g[0 + 1][q] = Flat(g[0], u[q]) /\ 0 \in Nat
      BY DEF Generations
    <3>2. g[0] \in Maps(T, Seq(T)) /\ u[q] \in Seq(T) /\ \A x \in T : g[0][x] = <<x>>
      BY <1>1, <1>2, <3>1 DEF Generations
    <3>3. Flat(g[0], u[q]) = u[q]
      BY <3>2, FlatOnes
    <3>4. Flat(u, <<q>>) = u[q]
      BY FlatOne
    <3>5. QED
      BY <3>1, <3>2, <3>3, <3>4
  <2>2. QED
    BY <2>1
<1>4. ASSUME NEW n \in Nat, n \in S
      PROVE  n + 1 \in S
  <2>1. ASSUME NEW q \in T
        PROVE  g[(n + 1) + 1][q] = Flat(u, g[n + 1][q])
    <3> DEFINE f == g[n]
               h == g[n + 1]
    <3>1. f \in Maps(T, Seq(T)) /\ h \in Maps(T, Seq(T)) /\ u[q] \in Seq(T) /\ n + 1 \in Nat
      BY <1>1, <1>2
    <3>2. h[q] = Flat(f, u[q]) /\ \A x \in T : h[x] = Flat(u, f[x])
      BY <1>4 DEF Generations
    <3>3. g[(n + 1) + 1][q] = Flat(h, u[q])
      BY <3>1 DEF Generations
    <3> HIDE DEF f, h
    <3>4. Flat(u, Flat(f, u[q])) = Flat(h, u[q])
      BY <3>1, <3>2, FlatOfFlat
    <3>5. QED
      BY <3>2, <3>3, <3>4 DEF h
  <2>2. QED
    BY <2>1
<1> HIDE DEF S
<1>5. \A n \in Nat : n \in S
  BY <1>3, <1>4, AllNumbers
<1>6. QED
  BY <1>1, <1>2, <1>5 DEF S

\* Those of K next to somebody of S.
Reached(u, K, S) == UNION {ToSet(u[x]) \cap K : x \in S}
Reaches(r, u, K, p) == r[0] = {p} /\ \A n \in Nat : r[n + 1] = Reached(u, K, r[n])
Apart(u, K, T) == \A x \in T \ K : ToSet(u[x]) \cap K = {}

\* Those of K in a generation are reached through those of K alone, when
\* nobody else has somebody of K next to them.
LEMMA GenerationMembers ==
    ASSUME NEW T, NEW u \in Maps(T, Seq(T)), NEW g, Generations(g, T, u),
           NEW K, K \subseteq T, NEW r, NEW p \in K,
           Reaches(r, u, K, p),
           Apart(u, K, T)
    PROVE  \A n \in Nat : ToSet(g[n][p]) \cap K = r[n]
<1>0. /\ r[0] = {p} /\ \A n \in Nat : r[n + 1] = Reached(u, K, r[n])
      /\ \A x \in T \ K : ToSet(u[x]) \cap K = {}
  BY DEF Reaches, Apart
<1> DEFINE S == {n \in Nat : ToSet(g[n][p]) \cap K = r[n]}
<1>1. 0 \in S
  <2>1. g[0][p] = <<p>>
    BY DEF Generations
  <2>2. ToSet(<<p>>) = {p}
    BY DEF ToSet
  <2>3. QED
    BY <1>0, <2>1, <2>2
<1>2. ASSUME NEW n \in Nat, n \in S
      PROVE  n + 1 \in S
  <2> DEFINE s == g[n][p]
  <2>1. s \in Seq(T) /\ g[n + 1][p] = Flat(u, s)
    BY NextGeneration
  <2>2. ToSet(s) \cap K = r[n]
    BY <1>2
  <2> HIDE DEF s
  <2>3. ToSet(Flat(u, s)) = UNION {ToSet(u[x]) : x \in ToSet(s)}
    BY <2>1, MembersOfFlat
  <2>4. ToSet(s) \subseteq T
    BY <2>1 DEF ToSet
  <2>5. \A x \in ToSet(s) \ r[n] : ToSet(u[x]) \cap K = {}
    BY <1>0, <2>2, <2>4
  <2>6. ToSet(Flat(u, s)) \cap K = Reached(u, K, r[n])
    BY <2>2, <2>3, <2>5 DEF Reached
  <2>7. ToSet(g[n + 1][p]) \cap K = r[n + 1]
    BY <1>0, <2>1, <2>6
  <2>8. QED
    BY <2>7
<1> HIDE DEF S
<1>3. \A n \in Nat : n \in S
  BY <1>1, <1>2, AllNumbers
<1>4. QED
  BY <1>3 DEF S

\* Everybody is as wide as those next to them together.
AddsUp(w, T, u) == \A n \in Nat : \A x \in T : w[n + 1][x] = Sum(w[n], u[x])

\* Then a generation is as wide as the one it comes from.
LEMMA GenerationWidth ==
    ASSUME NEW T, NEW u \in Maps(T, Seq(T)), NEW g, Generations(g, T, u),
           NEW w \in Maps(Nat, Maps(T, Nat)), AddsUp(w, T, u)
    PROVE  \A k \in Nat : \A n \in Nat : \A q \in T : Sum(w[n], g[k][q]) = w[n + k][q]
<1>1. \A n \in Nat : w[n] \in Maps(T, Nat)
  BY DEF Maps
<1> DEFINE S == {k \in Nat : \A n \in Nat : \A q \in T : Sum(w[n], g[k][q]) = w[n + k][q]}
<1>2. 0 \in S
  <2>1. ASSUME NEW n \in Nat, NEW q \in T
        PROVE  Sum(w[n], g[0][q]) = w[n + 0][q]
    <3>1. g[0][q] = <<q>> /\ n + 0 = n
      BY DEF Generations
    <3>2. QED
      BY <1>1, <3>1, SumOne
  <2>2. QED
    BY <2>1
<1>3. ASSUME NEW k \in Nat, k \in S
      PROVE  k + 1 \in S
  <2>1. ASSUME NEW n \in Nat, NEW q \in T
        PROVE  Sum(w[n], g[k + 1][q]) = w[n + (k + 1)][q]
    <3> DEFINE f == w[n]
               h == w[n + 1]
               s == g[k][q]
    <3>0. n + 1 \in Nat /\ (n + 1) + k = n + (k + 1)
      OBVIOUS
    <3>1. f \in Maps(T, Nat) /\ h \in Maps(T, Nat)
      BY <1>1, <3>0
    <3>2. s \in Seq(T) /\ g[k + 1][q] = Flat(u, s)
      BY NextGeneration
    <3>3. \A x \in T : h[x] = Sum(f, u[x])
      BY DEF AddsUp
    <3>4. Sum(h, s) = w[(n + 1) + k][q]
      BY <1>3, <3>0
    <3> HIDE DEF f, h, s
    <3>5. Sum(f, Flat(u, s)) = Sum(h, s)
      BY <3>1, <3>2, <3>3, SumOfFlat
    <3>6. QED
      BY <3>0, <3>2, <3>4, <3>5 DEF f
  <2>2. QED
    BY <2>1
<1> HIDE DEF S
<1>4. \A k \in Nat : k \in S
  BY <1>2, <1>3, AllNumbers
<1>5. QED
  BY <1>4 DEF S
-----------------------------------------------------------------------------
\* What can always be followed by something of R goes on forever.
LEMMA Steps ==
    ASSUME NEW V, NEW base \in V, NEW R, \A f \in V : \E h \in V : <<f, h>> \in R
    PROVE  \E g \in Maps(Nat, V) : /\ g[0] = base
                                   /\ \A n \in Nat : <<g[n], g[n + 1]>> \in R
<1> DEFINE next == [f \in V |-> CHOOSE h \in V : <<f, h>> \in R]
           step == [n \in Nat |-> next]
<1>1. next \in [V -> V] /\ \A f \in V : <<f, next[f]>> \in R
  OBVIOUS
<1>2. step \in [Nat -> [V -> V]] /\ \A n \in Nat : step[n] = next
  BY <1>1
<1> HIDE DEF next, step
<1>3. PICK g : Solves(g, V, base, step)
  BY <1>2, Recursion
<1>4. g \in [Nat -> V] /\ g[0] = base /\ \A n \in Nat : g[n + 1] = step[n][g[n]]
  BY <1>3 DEF Solves
<1>5. \A n \in Nat : <<g[n], g[n + 1]>> \in R
  BY <1>1, <1>2, <1>4
<1>6. g \in Maps(Nat, V)
  BY <1>4 DEF Maps
<1>7. QED
  BY <1>4, <1>5, <1>6

LEMMA MaxOfBounded ==
    ASSUME NEW N \in Nat, NEW S, S \subseteq 0..N, S # {}
    PROVE  Max(S) \in S /\ \A x \in S : x =< Max(S)
<1> DEFINE B == {m \in Nat : \A x \in S : x =< m}
<1>1. B \subseteq Nat /\ B # {}
  <2>1. N \in B
    OBVIOUS
  <2>2. QED
    BY <2>1
<1>2. PICK m \in B : \A k \in B : m =< k
  BY <1>1, LeastNumber
<1>3. m \in S
  <2> SUFFICES ASSUME m \notin S
               PROVE  FALSE
    OBVIOUS
  <2>0. PICK y \in S : TRUE
    OBVIOUS
  <2>1. m \in Nat /\ \A x \in S : x \in Nat /\ x =< m /\ x # m
    BY <1>2
  <2>2. m - 1 \in Nat /\ \A x \in S : x =< m - 1
    <3>1. y \in Nat /\ y =< m /\ y # m
      BY <2>0, <2>1
    <3>2. QED
      BY <2>1, <3>1
  <2>3. m - 1 \in B
    BY <2>2
  <2>4. m =< m - 1
    BY <1>2, <2>3
  <2>5. QED
    BY <2>1, <2>4
<1>4. \E x \in S : \A y \in S : x >= y
  BY <1>2, <1>3
<1>5. Max(S) \in S /\ \A y \in S : Max(S) >= y
  BY <1>4 DEF Max
<1>6. QED
  BY <1>5

LEMMA MaxOfTwo ==
    ASSUME NEW a \in Nat, NEW b \in Nat
    PROVE  Max({a, b}) \in {a, b} /\ Max({a, b}) \in Nat /\ a =< Max({a, b}) /\ b =< Max({a, b})
<1>1. \E x \in {a, b} : \A y \in {a, b} : x >= y
  OBVIOUS
<1>2. Max({a, b}) \in {a, b} /\ \A y \in {a, b} : Max({a, b}) >= y
  BY <1>1 DEF Max
<1>3. QED
  BY <1>2
-----------------------------------------------------------------------------
\* The tables in which u of the generations above and below is looked up.
Lower == [q \in Drawable |-> Under(q)]
Upper == [q \in Drawable |-> Over(q)]

\* Everybody a page can hold has somebody to draw above and below, and those
\* of them who are known are their family.
LEMMA Families ==
    ASSUME IInv
    PROVE  /\ Known \subseteq ID /\ NIL \notin Drawable /\ Known \cap Unknown = {}
           /\ Lower \in Maps(Drawable, Seq(Drawable))
           /\ Upper \in Maps(Drawable, Seq(Drawable))
           /\ \A q \in Known : /\ Children(q) = people[q].children
                               /\ Children(q) \in Seq(Known)
                               /\ ToSet(Lower[q]) \cap Known = ToSet(Children(q))
                               /\ ToSet(Upper[q]) \cap Known = Parents(q)
                               /\ Father(q) = people[q].father
                               /\ Mother(q) = people[q].mother
                               /\ Father(q) \in Known \cup {NIL}
                               /\ Mother(q) \in Known \cup {NIL}
           /\ \A q \in Unknown : /\ Children(q) = <<>>
                                 /\ ToSet(Lower[q]) \cap Known = {}
                                 /\ ToSet(Upper[q]) \cap Known = {}
<1>1. Known \subseteq ID /\ NIL \notin Drawable /\ Known \cap Unknown = {}
  BY UnknownAssumption, DistinctAssumption DEF Known, Drawable
<1>2. ASSUME NEW q \in Known
      PROVE  /\ Children(q) = people[q].children
             /\ Children(q) \in Seq(Known)
             /\ Father(q) = people[q].father /\ Mother(q) = people[q].mother
             /\ Father(q) \in Known \cup {NIL} /\ Mother(q) \in Known \cup {NIL}
  <2>1. q \notin Unknown
    BY <1>1
  <2>2. /\ people[q].children \in Seq(ID)
        /\ ToSet(people[q].children) \subseteq Known
        /\ people[q].father # NIL => people[q].father \in Known
        /\ people[q].mother # NIL => people[q].mother \in Known
    BY FamilyIsKnown DEF IInv
  <2>3. people[q].children \in Seq(Known)
    BY <2>2 DEF ToSet
  <2>4. QED
    BY <2>1, <2>2, <2>3 DEF Children, Father, Mother
<1>3. ASSUME NEW q \in Unknown
      PROVE  Children(q) = <<>> /\ Father(q) = unknown_male /\ Mother(q) = unknown_female
  BY DEF Children, Father, Mother
<1>4. unknown_male \in Unknown /\ unknown_female \in Unknown /\ NIL \notin Unknown
  BY UnknownAssumption DEF Unknown
<1>5. ToSet(<<unknown_female>>) = {unknown_female}
  BY DEF ToSet
<1>6. ASSUME NEW q \in Drawable
      PROVE  /\ Under(q) \in Seq(Drawable)
             /\ q \in Known => ToSet(Under(q)) \cap Known = ToSet(Children(q))
             /\ q \in Unknown => ToSet(Under(q)) \cap Known = {}
  <2>1. CASE Children(q) = <<>>
    <3>1. Under(q) = <<unknown_female>> /\ ToSet(Under(q)) = {unknown_female}
      BY <1>5, <2>1 DEF Under
    <3>2. ToSet(<<>>) = {}
      BY DEF ToSet
    <3>3. Under(q) \in Seq(Drawable)
      BY <1>4, <3>1 DEF Drawable
    <3>4. ToSet(Under(q)) \cap Known = {}
      BY <1>1, <1>4, <3>1
    <3>5. QED
      BY <2>1, <3>2, <3>3, <3>4
  <2>2. CASE Children(q) # <<>>
    <3>1. q \in Known /\ q \notin Unknown
      BY <1>1, <1>3, <2>2 DEF Drawable
    <3>2. Under(q) = Children(q) /\ Children(q) \in Seq(Known)
      BY <1>2, <2>2, <3>1 DEF Under
    <3>3. ToSet(Children(q)) \subseteq Known
      BY <3>2 DEF ToSet
    <3>4. Under(q) \in Seq(Drawable)
      BY <3>2 DEF Drawable
    <3>5. QED
      BY <3>1, <3>2, <3>3, <3>4
  <2>3. QED
    BY <2>1, <2>2
<1>7. ASSUME NEW q \in Drawable
      PROVE  /\ Over(q) \in Seq(Drawable)
             /\ q \in Known => ToSet(Over(q)) \cap Known = Parents(q)
             /\ q \in Unknown => ToSet(Over(q)) \cap Known = {}
  <2> DEFINE f == IF Father(q) = NIL THEN unknown_male ELSE Father(q)
             m == IF Mother(q) = NIL THEN unknown_female ELSE Mother(q)
  <2>1. Over(q) = <<f, m>>
    BY DEF Over
  <2>2. /\ f \in Drawable /\ m \in Drawable
        /\ q \in Known => {f, m} \cap Known = Parents(q)
        /\ q \in Unknown => {f, m} \cap Known = {}
    <3>1. CASE q \in Known
      BY <1>1, <1>2, <1>4, <3>1 DEF Drawable, Parents
    <3>2. CASE q \in Unknown
      BY <1>1, <1>3, <1>4, <3>2 DEF Drawable
    <3>3. QED
      BY <3>1, <3>2 DEF Drawable
  <2> HIDE DEF f, m
  <2>3. ToSet(<<f, m>>) = {f, m} /\ <<f, m>> \in Seq(Drawable)
    BY <2>2 DEF ToSet
  <2>4. QED
    BY <2>1, <2>2, <2>3
<1>8. Lower \in Maps(Drawable, Seq(Drawable)) /\ Upper \in Maps(Drawable, Seq(Drawable))
  BY <1>6, <1>7 DEF Lower, Upper, Maps
<1>9. \A q \in Drawable : Lower[q] = Under(q) /\ Upper[q] = Over(q)
  BY DEF Lower, Upper
<1>10. QED
  BY <1>1, <1>2, <1>3, <1>6, <1>7, <1>8, <1>9 DEF Drawable

LEMMA JoinAt ==
    ASSUME NEW T, NEW s \in Seq(T), NEW t \in Seq(T)
    PROVE  /\ Join(s, t) \in Seq(T) /\ Len(Join(s, t)) = Len(s) + Len(t)
           /\ \A i \in 1..(Len(s) + Len(t)) :
                 Join(s, t)[i] = IF i =< Len(s) THEN s[i] ELSE t[i - Len(s)]
  BY DEF Join

\* One element before the others.
LEMMA FirstAndRest ==
    ASSUME NEW V, NEW m \in Nat, NEW c \in [1..(m + 1) -> V], NEW e \in [1..m -> V],
           \A k \in 1..m : e[k] = c[k + 1]
    PROVE  <<c[1]>> \o e = c
<1> DEFINE a == <<c[1]>>
           j == a \o e
<1>1. c[1] \in V /\ a \in Seq(V) /\ Len(a) = 1 /\ a[1] = c[1]
  OBVIOUS
<1>2. e \in Seq(V) /\ Len(e) = m
  OBVIOUS
<1> HIDE DEF a
<1>3. j \in Seq(V) /\ Len(j) = 1 + m
      /\ \A i \in 1..(1 + m) : j[i] = IF i =< 1 THEN a[i] ELSE e[i - 1]
  <2>1. /\ j \in Seq(V) /\ Len(j) = Len(a) + Len(e)
        /\ \A i \in 1..(Len(a) + Len(e)) :
              j[i] = IF i =< Len(a) THEN a[i] ELSE e[i - Len(a)]
    <3> DEFINE t == Join(a, e)
    <3>1. t = j
      BY DEF Join
    <3>2. /\ t \in Seq(V) /\ Len(t) = Len(a) + Len(e)
          /\ \A i \in 1..(Len(a) + Len(e)) :
                t[i] = IF i =< Len(a) THEN a[i] ELSE e[i - Len(a)]
      <4>1. a \in Seq(V) /\ e \in Seq(V)
        BY <1>1, <1>2
      <4>2. QED
        BY <4>1, JoinAt, Zenon
    <3> HIDE DEF t, j
    <3>3. QED
      BY <3>1, <3>2
  <2> HIDE DEF j
  <2>2. QED
    BY <1>1, <1>2, <2>1
<1> HIDE DEF j
<1>4. ASSUME NEW i \in 1..(m + 1)
      PROVE  j[i] = c[i]
  <2>1. CASE i = 1
    BY <1>1, <1>3, <2>1
  <2>2. CASE i # 1
    <3>1. i - 1 \in 1..m /\ (i - 1) + 1 = i /\ ~(i =< 1)
      BY <2>2
    <3>2. QED
      BY <1>3, <3>1
  <2>3. QED
    BY <2>1, <2>2
<1>5. DOMAIN j = 1..(m + 1) /\ j = [i \in DOMAIN j |-> j[i]]
  BY <1>3
<1>6. c = [i \in 1..(m + 1) |-> c[i]]
  OBVIOUS
<1>7. j = c
  BY <1>4, <1>5, <1>6
<1>8. QED
  BY <1>7 DEF j, a

\* The rows of fillATree: those above q, made of those above the couple above.
Rise(r, q, n) ==
    <<Over(q)>> \o [k \in 1..n |-> r[Over(q)[1]][k] \o r[Over(q)[2]][k]]
Rises(r) == r = [m \in Nat |-> [q \in Drawable |->
                    IF m = 0 THEN <<>> ELSE Rise(r[m - 1], q, m - 1)]]

LEMMA RisesEach ==
    ASSUME NEW r, Rises(r)
    PROVE  \A q \in Drawable : /\ r[0][q] = <<>>
                               /\ \A m \in Nat : r[m + 1][q] = Rise(r[m], q, m)
<1>1. ASSUME NEW q \in Drawable, NEW m \in Nat
      PROVE  r[m][q] = IF m = 0 THEN <<>> ELSE Rise(r[m - 1], q, m - 1)
  <2> DEFINE row == [x \in Drawable |-> IF m = 0 THEN <<>> ELSE Rise(r[m - 1], x, m - 1)]
  <2>1. r[m] = row
    BY DEF Rises
  <2>2. QED
    BY <2>1
<1>2. \A m \in Nat : m + 1 \in Nat /\ m + 1 # 0 /\ (m + 1) - 1 = m
  OBVIOUS
<1>3. 0 \in Nat
  OBVIOUS
<1>4. ASSUME NEW q \in Drawable, NEW m \in Nat
      PROVE  r[m + 1][q] = Rise(r[m], q, m)
  <2>1. r[m + 1][q] = IF m + 1 = 0 THEN <<>> ELSE Rise(r[(m + 1) - 1], q, (m + 1) - 1)
    BY <1>1, <1>2, Zenon
  <2>2. QED
    BY <1>2, <2>1, Zenon
<1>5. QED
  BY <1>1, <1>3, <1>4

\* They are the generations of Upper.
LEMMA ATreeRows ==
    ASSUME IInv, NEW g, Generations(g, Drawable, Upper)
    PROVE  \A n \in Nat : \A q \in Drawable : fillATree(q, n) = [k \in 1..n |-> g[k][q]]
<1> DEFINE R == [m \in Nat |-> [q \in Drawable |-> [k \in 1..m |-> g[k][q]]]]
           r == CHOOSE r : Rises(r)
<1>1. /\ Upper \in Maps(Drawable, Seq(Drawable))
      /\ \A q \in Drawable : /\ Upper[q] = Over(q)
                             /\ Over(q) \in Seq(Drawable)
                             /\ Over(q) = <<Over(q)[1], Over(q)[2]>>
                             /\ Over(q)[1] \in Drawable /\ Over(q)[2] \in Drawable
  <2>1. Upper \in Maps(Drawable, Seq(Drawable))
    BY Families
  <2>2. ASSUME NEW q \in Drawable
        PROVE  Upper[q] = Over(q) /\ Over(q) \in Seq(Drawable)
    BY <2>1 DEF Upper, Maps
  <2>3. ASSUME NEW q \in Drawable
        PROVE  /\ Over(q) = <<Over(q)[1], Over(q)[2]>>
               /\ Over(q)[1] \in Drawable /\ Over(q)[2] \in Drawable
    <3>1. PICK x, y : Over(q) = <<x, y>>
      BY DEF Over
    <3>2. <<x, y>> \in Seq(Drawable)
      BY <2>2, <3>1
    <3>3. x \in Drawable /\ y \in Drawable
      BY <3>2
    <3>4. QED
      BY <3>1, <3>3
  <2>4. QED
    BY <2>1, <2>2, <2>3
<1>2. ASSUME NEW m \in Nat, NEW q \in Drawable
      PROVE  R[m][q] = [k \in 1..m |-> g[k][q]]
  <2> DEFINE row == [x \in Drawable |-> [k \in 1..m |-> g[k][x]]]
  <2>1. R[m] = row
    OBVIOUS
  <2> HIDE DEF R
  <2>2. QED
    BY <2>1
<1>3. R = [m \in Nat |-> [q \in Drawable |-> R[m][q]]]
  <2>1. ASSUME NEW m \in Nat
        PROVE  R[m] = [q \in Drawable |-> R[m][q]]
    <3> DEFINE row == [x \in Drawable |-> [k \in 1..m |-> g[k][x]]]
    <3>1. R[m] = row
      OBVIOUS
    <3> HIDE DEF R
    <3>2. row = [q \in Drawable |-> row[q]]
      OBVIOUS
    <3>3. QED
      BY <3>1, <3>2
  <2>2. R = [m \in Nat |-> R[m]]
    OBVIOUS
  <2> HIDE DEF R
  <2>3. QED
    BY <2>1, <2>2
<1> HIDE DEF R
<1>4. ASSUME NEW n \in Nat, NEW q \in Drawable
      PROVE  R[n + 1][q] = Rise(R[n], q, n)
  <2> DEFINE f == Over(q)[1]
             h == Over(q)[2]
             c == [k \in 1..(n + 1) |-> g[k][q]]
             e == [k \in 1..n |-> R[n][f][k] \o R[n][h][k]]
             V == Seq(Drawable)
  <2>1. f \in Drawable /\ h \in Drawable /\ Upper[q] = <<f, h>> /\ Over(q) = <<f, h>>
    BY <1>1
  <2> HIDE DEF f, h
  <2>2. \A k \in Nat : g[k] \in Maps(Drawable, Seq(Drawable))
        /\ \A x \in Drawable : g[k][x] \in V
    BY <1>1, NextGeneration
  <2>3. ASSUME NEW k \in 1..n
        PROVE  R[n][f][k] \o R[n][h][k] = g[k + 1][q]
    <3>1. R[n][f][k] = g[k][f] /\ R[n][h][k] = g[k][h]
      <4>1. \A x \in Drawable : R[n][x] = [i \in 1..n |-> g[i][x]]
        BY <1>2
      <4>2. \A x \in Drawable : R[n][x][k] = g[k][x]
        BY <4>1
      <4>3. QED
        BY <2>1, <4>2
    <3>2. k \in Nat /\ g[k] \in Maps(Drawable, Seq(Drawable))
      <4>1. k \in Nat
        OBVIOUS
      <4>2. QED
        BY <2>2, <4>1
    <3>3. g[k + 1][q] = Flat(g[k], <<f, h>>)
      BY <2>1, <3>2 DEF Generations
    <3>4. <<f, h>> = Append(<<f>>, h) /\ <<f>> \in Seq(Drawable)
      BY <2>1
    <3>5. Flat(g[k], Append(<<f>>, h)) = Join(Flat(g[k], <<f>>), g[k][h])
      BY <2>1, <3>2, <3>4, FlatAppend
    <3>6. Flat(g[k], <<f>>) = g[k][f]
      BY <2>1, <3>2, FlatOne
    <3>7. QED
      BY <3>1, <3>3, <3>4, <3>5, <3>6, Zenon DEF Join
  <2>4. g[1][q] = Over(q)
    <3>0. 0 \in Nat /\ 0 + 1 = 1
      OBVIOUS
    <3>1. g[1][q] = Flat(Upper, g[0][q]) /\ g[0][q] = <<q>>
      <4>1. \A m \in Nat : \A x \in Drawable : g[m + 1][x] = Flat(Upper, g[m][x])
        BY <1>1, NextGeneration
      <4>2. g[0 + 1][q] = Flat(Upper, g[0][q])
        BY <3>0, <4>1, Zenon
      <4>3. QED
        BY <3>0, <4>2 DEF Generations
    <3>2. Flat(Upper, <<q>>) = Upper[q]
      BY <1>1, FlatOne
    <3>3. QED
      BY <1>1, <3>1, <3>2
  <2>a. \A k \in Nat : g[k][q] \in V
    BY <2>2
  <2>5. c \in [1..(n + 1) -> V]
    BY <2>a
  <2>6. \A k \in 1..n : e[k] = c[k + 1] /\ c[k + 1] \in V
    <3>1. \A k \in 1..n : k + 1 \in 1..(n + 1) /\ k + 1 \in Nat
      OBVIOUS
    <3>2. \A k \in 1..n : e[k] = g[k + 1][q] /\ c[k + 1] = g[k + 1][q]
      BY <2>3, <3>1
    <3>3. QED
      BY <2>a, <3>1, <3>2
  <2>7. e \in [1..n -> V]
    BY <2>6
  <2>8. c[1] = Over(q)
    BY <2>4
  <2>9. R[n + 1][q] = c
    BY <1>2
  <2>10. Rise(R[n], q, n) = <<Over(q)>> \o e
    BY DEF Rise, f, h
  <2> HIDE DEF c, e, V
  <2>11. <<c[1]>> \o e = c
    BY <2>5, <2>6, <2>7, FirstAndRest
  <2>12. QED
    BY <2>8, <2>9, <2>10, <2>11
<1>5. \A q \in Drawable : R[0][q] = <<>>
  <2>1. \A q \in Drawable : R[0][q] = [k \in 1..0 |-> g[k][q]]
    BY <1>2
  <2>2. QED
    BY <2>1
<1>6. Rises(R)
  <2>1. ASSUME NEW m \in Nat, NEW q \in Drawable
        PROVE  R[m][q] = IF m = 0 THEN <<>> ELSE Rise(R[m - 1], q, m - 1)
    <3>1. CASE m = 0
      BY <1>5, <3>1
    <3>2. CASE m # 0
      <4> DEFINE n == m - 1
      <4>1. n \in Nat /\ n + 1 = m
        BY <3>2
      <4> HIDE DEF n
      <4>2. R[n + 1][q] = Rise(R[n], q, n)
        BY <1>4, <4>1
      <4>3. QED
        BY <3>2, <4>1, <4>2 DEF n
    <3>3. QED
      BY <3>1, <3>2
  <2>2. QED
    BY <1>3, <2>1 DEF Rises
<1>7. Rises(r)
  BY <1>6
<1>8. \A q, n : fillATree(q, n) = r[n][q]
  BY DEF fillATree, Rises, Rise
<1> HIDE DEF r
<1> DEFINE S == {n \in Nat : \A q \in Drawable : r[n][q] = R[n][q]}
<1>9. 0 \in S
  BY <1>5, <1>7, RisesEach
<1>10. ASSUME NEW n \in Nat, n \in S
       PROVE  n + 1 \in S
  <2>1. ASSUME NEW q \in Drawable
        PROVE  r[n + 1][q] = R[n + 1][q]
    <3>1. r[n][Over(q)[1]] = R[n][Over(q)[1]] /\ r[n][Over(q)[2]] = R[n][Over(q)[2]]
      BY <1>1, <1>10
    <3>2. Rise(r[n], q, n) = Rise(R[n], q, n)
      BY <3>1 DEF Rise
    <3>3. QED
      BY <1>6, <1>7, <3>2, RisesEach
  <2>2. QED
    BY <2>1
<1> HIDE DEF S
<1>11. \A n \in Nat : n \in S
  BY <1>9, <1>10, AllNumbers
<1>12. QED
  BY <1>2, <1>8, <1>11 DEF S
-----------------------------------------------------------------------------
\* The rows of fillDTree: those below q, made of those below the ones below.
Fall(r, q, n) ==
    <<Under(q)>> \o [k \in 1..n |-> FlattenSeq([i \in DOMAIN Under(q) |-> r[Under(q)[i]][k]])]
Falls(r) == r = [m \in Nat |-> [q \in Drawable |->
                    IF m = 0 THEN <<>> ELSE Fall(r[m - 1], q, m - 1)]]

LEMMA FallsEach ==
    ASSUME NEW r, Falls(r)
    PROVE  \A q \in Drawable : /\ r[0][q] = <<>>
                               /\ \A m \in Nat : r[m + 1][q] = Fall(r[m], q, m)
<1>1. ASSUME NEW q \in Drawable, NEW m \in Nat
      PROVE  r[m][q] = IF m = 0 THEN <<>> ELSE Fall(r[m - 1], q, m - 1)
  <2> DEFINE row == [x \in Drawable |-> IF m = 0 THEN <<>> ELSE Fall(r[m - 1], x, m - 1)]
  <2>1. r[m] = row
    BY DEF Falls
  <2>2. QED
    BY <2>1
<1>2. \A m \in Nat : m + 1 \in Nat /\ m + 1 # 0 /\ (m + 1) - 1 = m
  OBVIOUS
<1>3. 0 \in Nat
  OBVIOUS
<1>4. ASSUME NEW q \in Drawable, NEW m \in Nat
      PROVE  r[m + 1][q] = Fall(r[m], q, m)
  <2>1. r[m + 1][q] = IF m + 1 = 0 THEN <<>> ELSE Fall(r[(m + 1) - 1], q, (m + 1) - 1)
    BY <1>1, <1>2, Zenon
  <2>2. QED
    BY <1>2, <2>1, Zenon
<1>5. QED
  BY <1>1, <1>3, <1>4

\* They are the generations of Lower.
LEMMA DTreeRows ==
    ASSUME IInv, NEW g, Generations(g, Drawable, Lower)
    PROVE  \A n \in Nat : \A q \in Drawable : fillDTree(q, n) = [k \in 1..n |-> g[k][q]]
<1> DEFINE R == [m \in Nat |-> [q \in Drawable |-> [k \in 1..m |-> g[k][q]]]]
           r == CHOOSE r : Falls(r)
<1>1. /\ Lower \in Maps(Drawable, Seq(Drawable))
      /\ \A q \in Drawable : /\ Lower[q] = Under(q)
                             /\ Under(q) \in Seq(Drawable)
                             /\ \A i \in DOMAIN Under(q) : Under(q)[i] \in Drawable
  <2>1. Lower \in Maps(Drawable, Seq(Drawable))
    BY Families
  <2>2. ASSUME NEW q \in Drawable
        PROVE  Lower[q] = Under(q) /\ Under(q) \in Seq(Drawable)
    BY <2>1 DEF Lower, Maps
  <2>3. ASSUME NEW q \in Drawable, NEW i \in DOMAIN Under(q)
        PROVE  Under(q)[i] \in Drawable
    BY <2>2
  <2>4. QED
    BY <2>1, <2>2, <2>3
<1>2. ASSUME NEW m \in Nat, NEW q \in Drawable
      PROVE  R[m][q] = [k \in 1..m |-> g[k][q]]
  <2> DEFINE row == [x \in Drawable |-> [k \in 1..m |-> g[k][x]]]
  <2>1. R[m] = row
    OBVIOUS
  <2> HIDE DEF R
  <2>2. QED
    BY <2>1
<1>3. R = [m \in Nat |-> [q \in Drawable |-> R[m][q]]]
  <2>1. ASSUME NEW m \in Nat
        PROVE  R[m] = [q \in Drawable |-> R[m][q]]
    <3> DEFINE row == [x \in Drawable |-> [k \in 1..m |-> g[k][x]]]
    <3>1. R[m] = row
      OBVIOUS
    <3> HIDE DEF R
    <3>2. row = [q \in Drawable |-> row[q]]
      OBVIOUS
    <3>3. QED
      BY <3>1, <3>2
  <2>2. R = [m \in Nat |-> R[m]]
    OBVIOUS
  <2> HIDE DEF R
  <2>3. QED
    BY <2>1, <2>2
<1> HIDE DEF R
<1>4. ASSUME NEW n \in Nat, NEW q \in Drawable
      PROVE  R[n + 1][q] = Fall(R[n], q, n)
  <2> DEFINE u == Under(q)
             c == [k \in 1..(n + 1) |-> g[k][q]]
             e == [k \in 1..n |-> FlattenSeq([i \in DOMAIN u |-> R[n][u[i]][k]])]
             V == Seq(Drawable)
  <2>1. u \in V /\ Lower[q] = u /\ \A i \in DOMAIN u : u[i] \in Drawable
    BY <1>1
  <2>2. \A k \in Nat : g[k] \in Maps(Drawable, Seq(Drawable))
        /\ \A x \in Drawable : g[k][x] \in V
    BY <1>1, NextGeneration
  <2> HIDE DEF u
  <2>3. ASSUME NEW k \in 1..n
        PROVE  FlattenSeq([i \in DOMAIN u |-> R[n][u[i]][k]]) = g[k + 1][q]
    <3>1. \A x \in Drawable : R[n][x][k] = g[k][x]
      <4>1. \A x \in Drawable : R[n][x] = [i \in 1..n |-> g[i][x]]
        BY <1>2
      <4>2. QED
        BY <4>1
    <3>2. k \in Nat /\ g[k] \in Maps(Drawable, Seq(Drawable))
      <4>1. k \in Nat
        OBVIOUS
      <4>2. QED
        BY <2>2, <4>1
    <3>3. g[k + 1][q] = Flat(g[k], u)
      BY <2>1, <3>2 DEF Generations
    <3>4. [i \in DOMAIN u |-> R[n][u[i]][k]] = [i \in DOMAIN u |-> g[k][u[i]]]
      BY <2>1, <3>1
    <3>5. QED
      BY <3>3, <3>4, Zenon DEF Flat, Mapped
  <2>4. g[1][q] = u
    <3>0. 0 \in Nat /\ 0 + 1 = 1
      OBVIOUS
    <3>1. g[1][q] = Flat(Lower, g[0][q]) /\ g[0][q] = <<q>>
      <4>1. \A m \in Nat : \A x \in Drawable : g[m + 1][x] = Flat(Lower, g[m][x])
        BY <1>1, NextGeneration
      <4>2. g[0 + 1][q] = Flat(Lower, g[0][q])
        BY <3>0, <4>1, Zenon
      <4>3. QED
        BY <3>0, <4>2 DEF Generations
    <3>2. Flat(Lower, <<q>>) = Lower[q]
      BY <1>1, FlatOne
    <3>3. QED
      BY <2>1, <3>1, <3>2
  <2>5. \A k \in Nat : g[k][q] \in V
    BY <2>2
  <2>6. c \in [1..(n + 1) -> V]
    BY <2>5
  <2>7. \A k \in 1..n : e[k] = c[k + 1] /\ c[k + 1] \in V
    <3>1. \A k \in 1..n : k + 1 \in 1..(n + 1) /\ k + 1 \in Nat
      OBVIOUS
    <3>2. \A k \in 1..n : e[k] = g[k + 1][q] /\ c[k + 1] = g[k + 1][q]
      BY <2>3, <3>1
    <3>3. QED
      BY <2>5, <3>1, <3>2
  <2>8. e \in [1..n -> V]
    BY <2>7
  <2>9. c[1] = u
    BY <2>4
  <2>10. R[n + 1][q] = c
    BY <1>2
  <2>11. Fall(R[n], q, n) = <<u>> \o e
    BY DEF Fall, u
  <2> HIDE DEF c, e, V
  <2>12. <<c[1]>> \o e = c
    BY <2>6, <2>7, <2>8, FirstAndRest
  <2>13. QED
    BY <2>9, <2>10, <2>11, <2>12
<1>5. \A q \in Drawable : R[0][q] = <<>>
  <2>1. \A q \in Drawable : R[0][q] = [k \in 1..0 |-> g[k][q]]
    BY <1>2
  <2>2. QED
    BY <2>1
<1>6. Falls(R)
  <2>1. ASSUME NEW m \in Nat, NEW q \in Drawable
        PROVE  R[m][q] = IF m = 0 THEN <<>> ELSE Fall(R[m - 1], q, m - 1)
    <3>1. CASE m = 0
      BY <1>5, <3>1
    <3>2. CASE m # 0
      <4> DEFINE n == m - 1
      <4>1. n \in Nat /\ n + 1 = m
        BY <3>2
      <4> HIDE DEF n
      <4>2. R[n + 1][q] = Fall(R[n], q, n)
        BY <1>4, <4>1
      <4>3. QED
        BY <3>2, <4>1, <4>2 DEF n
    <3>3. QED
      BY <3>1, <3>2
  <2>2. QED
    BY <1>3, <2>1 DEF Falls
<1>7. Falls(r)
  BY <1>6
<1>8. \A q, n : fillDTree(q, n) = r[n][q]
  BY DEF fillDTree, Falls, Fall
<1> HIDE DEF r
<1> DEFINE S == {n \in Nat : \A q \in Drawable : r[n][q] = R[n][q]}
<1>9. 0 \in S
  BY <1>5, <1>7, FallsEach
<1>10. ASSUME NEW n \in Nat, n \in S
       PROVE  n + 1 \in S
  <2>1. ASSUME NEW q \in Drawable
        PROVE  r[n + 1][q] = R[n + 1][q]
    <3>1. \A i \in DOMAIN Under(q) : r[n][Under(q)[i]] = R[n][Under(q)[i]]
      BY <1>1, <1>10
    <3>2. \A k \in 1..n : [i \in DOMAIN Under(q) |-> r[n][Under(q)[i]][k]]
                          = [i \in DOMAIN Under(q) |-> R[n][Under(q)[i]][k]]
      BY <3>1
    <3>3. Fall(r[n], q, n) = Fall(R[n], q, n)
      BY <3>2 DEF Fall
    <3>4. QED
      BY <1>6, <1>7, <3>3, FallsEach
  <2>2. QED
    BY <2>1
<1> HIDE DEF S
<1>11. \A n \in Nat : n \in S
  BY <1>9, <1>10, AllNumbers
<1>12. QED
  BY <1>2, <1>8, <1>11 DEF S
-----------------------------------------------------------------------------
\* The cells of q are those of everybody below it, and one below nobody.
Wide(w, q, m) ==
    IF m = 0 \/ Children(q) = <<>> THEN 1
    ELSE Total([i \in DOMAIN Children(q) |-> w[m - 1][Children(q)[i]]])
Widths(w) == w = [m \in Nat |-> [q \in Drawable |-> Wide(w, q, m)]]

LEMMA DTreeWidths ==
    ASSUME IInv
    PROVE  \E w \in Maps(Nat, Maps(Drawable, Nat)) :
              /\ \A n \in Nat : \A q \in Drawable : getDTreeWidth(n, q) = w[n][q]
              /\ \A q \in Drawable : w[0][q] = 1
              /\ \A n \in Nat : \A q \in Drawable : w[n + 1][q] = Sum(w[n], Lower[q])
<1> DEFINE V == {f \in Maps(Drawable, Nat) : f[unknown_female] = 1}
           base == [q \in Drawable |-> 1]
           next(f) == [q \in Drawable |-> Sum(f, Lower[q])]
           R == {<<f, next(f)>> : f \in V}
<1>1. unknown_female \in Drawable /\ Children(unknown_female) = <<>>
  BY DEF Drawable, Unknown, Children
<1>2. /\ Lower \in Maps(Drawable, Seq(Drawable))
      /\ \A q \in Drawable : /\ Lower[q] = Under(q)
                             /\ Children(q) = <<>> => Lower[q] = <<unknown_female>>
                             /\ Children(q) # <<>> => Lower[q] = Children(q)
  <2>1. Lower \in Maps(Drawable, Seq(Drawable))
    BY Families
  <2>2. \A q \in Drawable : Lower[q] = Under(q)
    BY DEF Lower
  <2>3. QED
    BY <2>1, <2>2 DEF Under
<1>3. base \in V
  BY <1>1 DEF Maps
<1>4. ASSUME NEW f \in V
      PROVE  next(f) \in V
  <2>0. f \in Maps(Drawable, Nat) /\ f[unknown_female] = 1
    OBVIOUS
  <2>1. ASSUME NEW q \in Drawable
        PROVE  Sum(f, Lower[q]) \in Nat
    <3>1. Lower[q] \in Seq(Drawable)
      BY <1>2 DEF Maps
    <3>2. QED
      BY <2>0, <3>1, SumType
  <2>2. Sum(f, Lower[unknown_female]) = 1
    <3>1. Lower[unknown_female] = <<unknown_female>>
      BY <1>1, <1>2
    <3>2. QED
      BY <1>1, <2>0, <3>1, SumOne
  <2>3. QED
    BY <1>1, <2>1, <2>2 DEF Maps
<1>5. \A f \in V : \E h \in V : <<f, h>> \in R
  BY <1>4
<1>6. \A f, h : <<f, h>> \in R => h = next(f)
  OBVIOUS
<1> HIDE DEF V, base, next, R
<1>7. PICK W \in Maps(Nat, V) : W[0] = base /\ \A n \in Nat : <<W[n], W[n + 1]>> \in R
  BY <1>3, <1>5, Steps
<1>8. \A n \in Nat : W[n] \in V /\ W[n + 1] = next(W[n])
  BY <1>6, <1>7 DEF Maps
<1>9. \A n \in Nat : W[n] \in Maps(Drawable, Nat) /\ W[n][unknown_female] = 1
  BY <1>8 DEF V
<1>10. W \in Maps(Nat, Maps(Drawable, Nat))
  BY <1>7, <1>9 DEF Maps
<1>11. \A q \in Drawable : W[0][q] = 1
  BY <1>7 DEF base
<1>12. ASSUME NEW n \in Nat, NEW q \in Drawable
       PROVE  W[n + 1][q] = Sum(W[n], Lower[q])
  BY <1>8 DEF next
<1>13. ASSUME NEW m \in Nat, NEW q \in Drawable
       PROVE  W[m][q] = Wide(W, q, m)
  <2>1. CASE m = 0
    BY <1>11, <2>1 DEF Wide
  <2>2. CASE m # 0
    <3> DEFINE n == m - 1
    <3>1. n \in Nat /\ n + 1 = m
      BY <2>2
    <3>2. W[m][q] = Sum(W[n], Lower[q])
      BY <1>12, <3>1
    <3>3. CASE Children(q) = <<>>
      <4>1. Sum(W[n], <<unknown_female>>) = W[n][unknown_female]
        BY <1>1, <1>9, <3>1, SumOne
      <4>2. W[m][q] = 1
        BY <1>2, <1>9, <3>1, <3>2, <3>3, <4>1
      <4>3. QED
        BY <3>3, <4>2 DEF Wide
    <3>4. CASE Children(q) # <<>>
      <4>1. W[m][q] = Sum(W[n], Children(q))
        BY <1>2, <3>2, <3>4
      <4>2. QED
        BY <2>2, <3>4, <4>1 DEF Wide, Sum, Mapped
    <3>5. QED
      BY <3>3, <3>4
  <2>3. QED
    BY <2>1, <2>2
<1>14. Widths(W)
  <2>1. ASSUME NEW m \in Nat
        PROVE  W[m] = [q \in Drawable |-> Wide(W, q, m)]
    <3>1. W[m] = [q \in Drawable |-> W[m][q]]
      BY <1>9 DEF Maps
    <3>2. QED
      BY <1>13, <3>1
  <2>2. W = [m \in Nat |-> W[m]]
    BY <1>10 DEF Maps
  <2>3. QED
    BY <2>1, <2>2 DEF Widths
<1> DEFINE w == CHOOSE w : Widths(w)
<1>15. Widths(w)
  BY <1>14
<1>16. \A n, q : getDTreeWidth(n, q) = w[n][q]
  BY DEF getDTreeWidth, Widths, Wide
<1> HIDE DEF w
<1> DEFINE S == {n \in Nat : w[n] = W[n]}
<1>17. ASSUME NEW m \in Nat, m = 0 \/ w[m - 1] = W[m - 1]
       PROVE  m \in S
  <2>1. w[m] = [q \in Drawable |-> Wide(w, q, m)]
    BY <1>15 DEF Widths
  <2>2. W[m] = [q \in Drawable |-> Wide(W, q, m)]
    BY <1>14 DEF Widths
  <2>3. \A q \in Drawable : Wide(w, q, m) = Wide(W, q, m)
    BY <1>17 DEF Wide
  <2>4. w[m] = W[m]
    BY <2>1, <2>2, <2>3
  <2>5. QED
    BY <2>4
<1>18. 0 \in S
  <2>1. 0 \in Nat
    OBVIOUS
  <2>2. QED
    BY <1>17, <2>1
<1>19. ASSUME NEW n \in Nat, n \in S
       PROVE  n + 1 \in S
  <2>1. n + 1 \in Nat /\ (n + 1) - 1 = n /\ w[n] = W[n]
    BY <1>19
  <2> HIDE DEF S
  <2>2. QED
    BY <1>17, <2>1
<1> HIDE DEF S
<1>20. \A n \in Nat : n \in S
  BY <1>18, <1>19, AllNumbers
<1>21. \A n \in Nat : \A q \in Drawable : getDTreeWidth(n, q) = W[n][q]
  BY <1>16, <1>20 DEF S
<1>22. QED
  BY <1>10, <1>11, <1>12, <1>21
-----------------------------------------------------------------------------
\* The generations of the store are counted one by one.
Ascends(a, p) == a = [n \in Nat |-> IF n = 0 THEN {p} ELSE UNION {Parents(q) : q \in a[n - 1]}]
Descends(b, p) == b = [n \in Nat |-> IF n = 0 THEN {p}
                                     ELSE UNION {ToSet(Children(q)) : q \in b[n - 1]}]

LEMMA ParentsAreKnown ==
    ASSUME IInv, NEW q \in Known
    PROVE  Parents(q) \subseteq Known /\ Parents(q) = {Father(q), Mother(q)} \ {NIL}
BY Families DEF Parents

LEMMA AboveByOne ==
    ASSUME IInv, NEW p \in Known
    PROVE  /\ Above(p, 0) = {p}
           /\ \A n \in Nat : /\ Above(p, n) \subseteq Known
                             /\ Above(p, n + 1) = UNION {Parents(q) : q \in Above(p, n)}
<1> DEFINE V == SUBSET Known
           next(s) == UNION {Parents(q) : q \in s}
           R == {<<s, next(s)>> : s \in V}
           a == CHOOSE a : Ascends(a, p)
<1>1. \A s \in V : next(s) \in V
  BY ParentsAreKnown
<1>2. \A s \in V : \E t \in V : <<s, t>> \in R
  BY <1>1
<1>3. \A s, t : <<s, t>> \in R => t = next(s)
  OBVIOUS
<1>4. {p} \in V
  OBVIOUS
<1> HIDE DEF V, next, R
<1>5. PICK W \in Maps(Nat, V) : W[0] = {p} /\ \A n \in Nat : <<W[n], W[n + 1]>> \in R
  BY <1>2, <1>4, Steps
<1>6. \A n \in Nat : W[n] \in V /\ W[n + 1] = next(W[n])
  BY <1>3, <1>5 DEF Maps
<1>7. ASSUME NEW n \in Nat
      PROVE  W[n] = IF n = 0 THEN {p} ELSE next(W[n - 1])
  <2>1. CASE n = 0
    BY <1>5, <2>1
  <2>2. CASE n # 0
    <3>1. n - 1 \in Nat /\ (n - 1) + 1 = n
      BY <2>2
    <3>2. W[(n - 1) + 1] = next(W[n - 1])
      BY <1>6, <3>1
    <3>3. QED
      BY <2>2, <3>1, <3>2
  <2>3. QED
    BY <2>1, <2>2
<1>8. W = [n \in Nat |-> W[n]]
  BY <1>5 DEF Maps
<1>9. Ascends(W, p)
  BY <1>7, <1>8 DEF Ascends, next
<1>10. Ascends(a, p)
  BY <1>9
<1>11. \A n : Above(p, n) = a[n]
  BY DEF Above, Ascends
<1> HIDE DEF a
<1>12. ASSUME NEW n \in Nat
       PROVE  a[n] = IF n = 0 THEN {p} ELSE next(a[n - 1])
  BY <1>10 DEF Ascends, next
<1> DEFINE S == {n \in Nat : a[n] = W[n]}
<1>13. 0 \in S
  BY <1>5, <1>12
<1>14. ASSUME NEW n \in Nat, n \in S
       PROVE  n + 1 \in S
  <2>1. n + 1 \in Nat /\ n + 1 # 0 /\ (n + 1) - 1 = n /\ a[n] = W[n]
    BY <1>14
  <2>2. a[n + 1] = IF n + 1 = 0 THEN {p} ELSE next(a[(n + 1) - 1])
    BY <1>12, <2>1, Zenon
  <2>3. a[n + 1] = W[n + 1]
    BY <1>6, <2>1, <2>2
  <2>4. QED
    BY <2>1, <2>3
<1> HIDE DEF S
<1>15. \A n \in Nat : n \in S
  BY <1>13, <1>14, AllNumbers
<1>16. \A n \in Nat : Above(p, n) = W[n]
  BY <1>11, <1>15 DEF S
<1>17. 0 \in Nat /\ \A n \in Nat : n + 1 \in Nat
  OBVIOUS
<1>18. QED
  BY <1>5, <1>6, <1>16, <1>17 DEF V, next

LEMMA BelowByOne ==
    ASSUME IInv, NEW p \in Known
    PROVE  /\ Below(p, 0) = {p}
           /\ \A n \in Nat : /\ Below(p, n) \subseteq Known
                             /\ Below(p, n + 1) = UNION {ToSet(Children(q)) : q \in Below(p, n)}
<1> DEFINE V == SUBSET Known
           next(s) == UNION {ToSet(Children(q)) : q \in s}
           R == {<<s, next(s)>> : s \in V}
           b == CHOOSE b : Descends(b, p)
<1>1. \A s \in V : next(s) \in V
  <2>1. \A q \in Known : ToSet(Children(q)) \subseteq Known
    BY Families
  <2>2. QED
    BY <2>1
<1>2. \A s \in V : \E t \in V : <<s, t>> \in R
  BY <1>1
<1>3. \A s, t : <<s, t>> \in R => t = next(s)
  OBVIOUS
<1>4. {p} \in V
  OBVIOUS
<1> HIDE DEF V, next, R
<1>5. PICK W \in Maps(Nat, V) : W[0] = {p} /\ \A n \in Nat : <<W[n], W[n + 1]>> \in R
  BY <1>2, <1>4, Steps
<1>6. \A n \in Nat : W[n] \in V /\ W[n + 1] = next(W[n])
  BY <1>3, <1>5 DEF Maps
<1>7. ASSUME NEW n \in Nat
      PROVE  W[n] = IF n = 0 THEN {p} ELSE next(W[n - 1])
  <2>1. CASE n = 0
    BY <1>5, <2>1
  <2>2. CASE n # 0
    <3>1. n - 1 \in Nat /\ (n - 1) + 1 = n
      BY <2>2
    <3>2. W[(n - 1) + 1] = next(W[n - 1])
      BY <1>6, <3>1
    <3>3. QED
      BY <2>2, <3>1, <3>2
  <2>3. QED
    BY <2>1, <2>2
<1>8. W = [n \in Nat |-> W[n]]
  BY <1>5 DEF Maps
<1>9. Descends(W, p)
  BY <1>7, <1>8 DEF Descends, next
<1>10. Descends(b, p)
  BY <1>9
<1>11. \A n : Below(p, n) = b[n]
  BY DEF Below, Descends
<1> HIDE DEF b
<1>12. ASSUME NEW n \in Nat
       PROVE  b[n] = IF n = 0 THEN {p} ELSE next(b[n - 1])
  BY <1>10 DEF Descends, next
<1> DEFINE S == {n \in Nat : b[n] = W[n]}
<1>13. 0 \in S
  BY <1>5, <1>12
<1>14. ASSUME NEW n \in Nat, n \in S
       PROVE  n + 1 \in S
  <2>1. n + 1 \in Nat /\ n + 1 # 0 /\ (n + 1) - 1 = n /\ b[n] = W[n]
    BY <1>14
  <2>2. b[n + 1] = IF n + 1 = 0 THEN {p} ELSE next(b[(n + 1) - 1])
    BY <1>12, <2>1, Zenon
  <2>3. b[n + 1] = W[n + 1]
    BY <1>6, <2>1, <2>2
  <2>4. QED
    BY <2>1, <2>3
<1> HIDE DEF S
<1>15. \A n \in Nat : n \in S
  BY <1>13, <1>14, AllNumbers
<1>16. \A n \in Nat : Below(p, n) = W[n]
  BY <1>11, <1>15 DEF S
<1>17. 0 \in Nat /\ \A n \in Nat : n + 1 \in Nat
  OBVIOUS
<1>18. QED
  BY <1>5, <1>6, <1>16, <1>17 DEF V, next

\* Those above somebody are those above their parents.
LEMMA AboveThroughParents ==
    ASSUME IInv, NEW p \in Known
    PROVE  \A k \in Nat : Above(p, k + 1) = UNION {Above(q, k) : q \in Parents(p)}
<1>0. Parents(p) \subseteq Known /\ 0 \in Nat /\ 0 + 1 = 1
  BY ParentsAreKnown
<1> DEFINE S == {k \in Nat : Above(p, k + 1) = UNION {Above(q, k) : q \in Parents(p)}}
<1>1. 0 \in S
  <2>1. Above(p, 0) = {p}
    BY AboveByOne
  <2>2. \A n \in Nat : Above(p, n + 1) = UNION {Parents(q) : q \in Above(p, n)}
    BY AboveByOne
  <2>3. Above(p, 0 + 1) = UNION {Parents(q) : q \in Above(p, 0)}
    BY <1>0, <2>2
  <2>4. Above(p, 0 + 1) = Parents(p)
    BY <2>1, <2>3
  <2>5. \A q \in Parents(p) : Above(q, 0) = {q}
    BY <1>0, AboveByOne
  <2>6. UNION {Above(q, 0) : q \in Parents(p)} = Parents(p)
    BY <2>5
  <2>7. QED
    BY <1>0, <2>4, <2>6
<1>2. ASSUME NEW k \in Nat, k \in S
      PROVE  k + 1 \in S
  <2>1. k + 1 \in Nat /\ Above(p, k + 1) = UNION {Above(q, k) : q \in Parents(p)}
    BY <1>2
  <2>2. \A n \in Nat : Above(p, n + 1) = UNION {Parents(x) : x \in Above(p, n)}
    BY AboveByOne
  <2>3. Above(p, (k + 1) + 1) = UNION {Parents(x) : x \in Above(p, k + 1)}
    BY <2>1, <2>2
  <2>4. \A q \in Parents(p) : Above(q, k + 1) = UNION {Parents(x) : x \in Above(q, k)}
    BY <1>0, AboveByOne
  <2>5. UNION {Parents(x) : x \in Above(p, k + 1)}
        = UNION {Above(q, k + 1) : q \in Parents(p)}
    BY <2>1, <2>4
  <2>6. QED
    BY <2>1, <2>3, <2>5
<1> HIDE DEF S
<1>3. \A k \in Nat : k \in S
  BY <1>1, <1>2, AllNumbers
<1>4. QED
  BY <1>3 DEF S
-----------------------------------------------------------------------------
\* One level more than the higher of the parents, none above nobody.
Higher(l, q, n) ==
    IF n = 0 \/ q = NIL \/ Parents(q) = {} THEN 0
    ELSE 1 + Max({l[n - 1][people[q].father], l[n - 1][people[q].mother]})
Climbs(l) == l = [n \in Nat |-> [q \in Known \cup {NIL} |-> Higher(l, q, n)]]

LEMMA ATreeLevels ==
    ASSUME IInv
    PROVE  \E l \in Maps(Nat, Maps(Known \cup {NIL}, Nat)) :
              /\ \A n, q : getATreeLevels(q, n) = l[n][q]
              /\ \A n \in Nat : \A q \in Known \cup {NIL} : l[n][q] = Higher(l, q, n)
<1> DEFINE K == Known \cup {NIL}
           V == Maps(K, Nat)
           base == [q \in K |-> 0]
           up(f, q) == IF q = NIL \/ Parents(q) = {} THEN 0
                       ELSE 1 + Max({f[people[q].father], f[people[q].mother]})
           next(f) == [q \in K |-> up(f, q)]
           R == {<<f, next(f)>> : f \in V}
<1>1. base \in V
  BY DEF Maps
<1>2. ASSUME NEW f \in V
      PROVE  next(f) \in V
  <2>1. ASSUME NEW q \in K
        PROVE  up(f, q) \in Nat
    <3>1. CASE q = NIL \/ Parents(q) = {}
      BY <3>1
    <3>2. CASE ~(q = NIL \/ Parents(q) = {})
      <4> DEFINE x == f[people[q].father]
                 y == f[people[q].mother]
      <4>1. people[q].father \in K /\ people[q].mother \in K
        BY <3>2, Families
      <4>2. x \in Nat /\ y \in Nat
        BY <4>1 DEF Maps
      <4>3. up(f, q) = 1 + Max({x, y})
        BY <3>2
      <4> HIDE DEF x, y
      <4>4. Max({x, y}) \in Nat
        BY <4>2, MaxOfTwo
      <4>5. QED
        BY <4>3, <4>4
    <3>3. QED
      BY <3>1, <3>2
  <2> HIDE DEF up
  <2>2. QED
    BY <2>1 DEF Maps
<1>3. \A f \in V : \E h \in V : <<f, h>> \in R
  BY <1>2
<1>4. \A f, h : <<f, h>> \in R => h = next(f)
  OBVIOUS
<1> HIDE DEF V, base, next, R, up
<1>5. PICK W \in Maps(Nat, V) : W[0] = base /\ \A n \in Nat : <<W[n], W[n + 1]>> \in R
  BY <1>1, <1>3, Steps
<1>6. \A n \in Nat : W[n] \in V /\ W[n + 1] = next(W[n])
  BY <1>4, <1>5 DEF Maps
<1>7. W \in Maps(Nat, Maps(K, Nat)) /\ \A n \in Nat : W[n] \in Maps(K, Nat)
  BY <1>5, <1>6 DEF Maps, V
<1>8. ASSUME NEW n \in Nat, NEW q \in K
      PROVE  W[n][q] = Higher(W, q, n)
  <2>1. CASE n = 0
    BY <1>5, <2>1 DEF Higher, base
  <2>2. CASE n # 0
    <3>1. n - 1 \in Nat /\ (n - 1) + 1 = n
      BY <2>2
    <3>2. W[(n - 1) + 1] = next(W[n - 1])
      BY <1>6, <3>1
    <3>3. W[n][q] = up(W[n - 1], q)
      BY <3>1, <3>2 DEF next
    <3>4. QED
      BY <2>2, <3>3 DEF Higher, up
  <2>3. QED
    BY <2>1, <2>2
<1>9. Climbs(W)
  <2>1. ASSUME NEW n \in Nat
        PROVE  W[n] = [q \in K |-> Higher(W, q, n)]
    <3>1. W[n] = [q \in K |-> W[n][q]]
      BY <1>7 DEF Maps
    <3>2. QED
      BY <1>8, <3>1
  <2>2. W = [n \in Nat |-> W[n]]
    BY <1>7 DEF Maps
  <2>3. QED
    BY <2>1, <2>2 DEF Climbs
<1> DEFINE l == CHOOSE l : Climbs(l)
<1>10. Climbs(l)
  BY <1>9
<1>11. \A n, q : getATreeLevels(q, n) = l[n][q]
  BY DEF getATreeLevels, Climbs, Higher
<1> HIDE DEF l
<1> DEFINE S == {n \in Nat : l[n] = W[n]}
<1>12. ASSUME NEW n \in Nat, n = 0 \/ l[n - 1] = W[n - 1]
       PROVE  n \in S
  <2>1. l[n] = [q \in K |-> Higher(l, q, n)]
    BY <1>10 DEF Climbs
  <2>2. W[n] = [q \in K |-> Higher(W, q, n)]
    BY <1>9 DEF Climbs
  <2>3. \A q \in K : Higher(l, q, n) = Higher(W, q, n)
    BY <1>12 DEF Higher
  <2>4. l[n] = W[n]
    BY <2>1, <2>2, <2>3
  <2>5. QED
    BY <2>4
<1>13. 0 \in S
  <2>1. 0 \in Nat
    OBVIOUS
  <2>2. QED
    BY <1>12, <2>1
<1>14. ASSUME NEW n \in Nat, n \in S
       PROVE  n + 1 \in S
  <2>1. n + 1 \in Nat /\ (n + 1) - 1 = n /\ l[n] = W[n]
    BY <1>14
  <2> HIDE DEF S
  <2>2. QED
    BY <1>12, <2>1
<1> HIDE DEF S
<1>15. \A n \in Nat : n \in S
  BY <1>13, <1>14, AllNumbers
<1>16. l = W
  <2>1. l = [n \in Nat |-> l[n]]
    <3>1. DOMAIN l = Nat /\ l = [n \in DOMAIN l |-> l[n]]
      <4> DEFINE c == [n \in Nat |-> [q \in Known \cup {NIL} |-> Higher(l, q, n)]]
      <4>1. l = c
        BY <1>10 DEF Climbs
      <4>2. DOMAIN c = Nat /\ c = [n \in DOMAIN c |-> c[n]]
        OBVIOUS
      <4> HIDE DEF c
      <4>3. QED
        BY <4>1, <4>2
    <3>2. QED
      BY <3>1
  <2>2. W = [n \in Nat |-> W[n]]
    BY <1>7 DEF Maps
  <2>3. QED
    BY <1>15, <2>1, <2>2 DEF S
<1>17. QED
  BY <1>7, <1>8, <1>11, <1>16

\* The levels asked for end where nobody is further up.
LEMMA LevelsCount ==
    ASSUME IInv
    PROVE  \A n \in Nat : \A p \in Known :
              /\ getATreeLevels(p, n) \in 0..n
              /\ Above(p, getATreeLevels(p, n)) # {}
              /\ \A k \in Nat : getATreeLevels(p, n) < k /\ k =< n => Above(p, k) = {}
<1> DEFINE Ends(p, n) ==
              /\ getATreeLevels(p, n) \in 0..n
              /\ Above(p, getATreeLevels(p, n)) # {}
              /\ \A k \in Nat : getATreeLevels(p, n) < k /\ k =< n => Above(p, k) = {}
           S == {n \in Nat : \A p \in Known : Ends(p, n)}
<1>1. PICK l \in Maps(Nat, Maps(Known \cup {NIL}, Nat)) :
         /\ \A n, q : getATreeLevels(q, n) = l[n][q]
         /\ \A n \in Nat : \A q \in Known \cup {NIL} : l[n][q] = Higher(l, q, n)
  BY ATreeLevels
<1>2. 0 \in S
  <2>1. ASSUME NEW p \in Known
        PROVE  Ends(p, 0)
    <3>1. 0 \in Nat
      OBVIOUS
    <3>2. getATreeLevels(p, 0) = 0
      BY <1>1, <3>1 DEF Higher
    <3>3. Above(p, 0) = {p}
      BY AboveByOne
    <3>4. QED
      BY <3>2, <3>3
  <2>2. QED
    BY <2>1
<1>3. ASSUME NEW n \in Nat, n \in S
      PROVE  n + 1 \in S
  <2>1. ASSUME NEW p \in Known
        PROVE  Ends(p, n + 1)
    <3> DEFINE L == getATreeLevels(p, n + 1)
    <3>1. \A k \in Nat : Above(p, k + 1) = UNION {Above(q, k) : q \in Parents(p)}
      BY AboveThroughParents
    <3>2. /\ n + 1 \in Nat /\ n + 1 # 0 /\ (n + 1) - 1 = n
          /\ p # NIL
      <4>1. p # NIL
        BY Families DEF Drawable
      <4>2. QED
        BY <4>1
    <3>3. L = IF Parents(p) = {} THEN 0
              ELSE 1 + Max({l[n][people[p].father], l[n][people[p].mother]})
      <4>1. L = Higher(l, p, n + 1)
        BY <1>1, <3>2
      <4>2. QED
        BY <3>2, <4>1, Zenon DEF Higher
    <3> HIDE DEF L
    <3>4. Above(p, 0) = {p}
      BY AboveByOne
    <3>5. CASE Parents(p) = {}
      <4>1. \A k \in Nat : Above(p, k + 1) = {}
        BY <3>1, <3>5
      <4>2. ASSUME NEW k \in Nat, 0 < k
            PROVE  Above(p, k) = {}
        <5>1. k - 1 \in Nat /\ (k - 1) + 1 = k
          BY <4>2
        <5>2. Above(p, (k - 1) + 1) = {}
          BY <4>1, <5>1
        <5>3. QED
          BY <5>1, <5>2
      <4>3. L = 0
        BY <3>3, <3>5
      <4>4. QED
        BY <3>4, <4>2, <4>3 DEF L
    <3>6. CASE Parents(p) # {}
      <4> DEFINE f == people[p].father
                 m == people[p].mother
                 M == Max({l[n][f], l[n][m]})
      <4>1. /\ f \in Known \cup {NIL} /\ m \in Known \cup {NIL}
            /\ Parents(p) = {f, m} \ {NIL}
            /\ Parents(p) \subseteq Known
        BY Families, ParentsAreKnown
      <4>2. l[n] \in Maps(Known \cup {NIL}, Nat)
        BY <1>1 DEF Maps
      <4>3. l[n][f] \in Nat /\ l[n][m] \in Nat
        BY <4>1, <4>2 DEF Maps
      <4>4. M \in {l[n][f], l[n][m]} /\ M \in Nat /\ l[n][f] =< M /\ l[n][m] =< M
        BY <4>3, MaxOfTwo
      <4>5. L = 1 + M
        BY <3>3, <3>6
      <4> HIDE DEF M
      <4>6. l[n][NIL] = 0
        BY <1>1 DEF Higher
      <4>7. \E q \in Parents(p) : l[n][q] = M
        <5>1. CASE f = NIL
          <6>1. m \in Parents(p)
            BY <3>6, <4>1, <5>1
          <6>2. l[n][f] = 0
            BY <4>6, <5>1
          <6>3. l[n][m] = M
            BY <4>3, <4>4, <6>2
          <6>4. QED
            BY <6>1, <6>3
        <5>2. CASE m = NIL
          <6>1. f \in Parents(p)
            BY <3>6, <4>1, <5>2
          <6>2. l[n][m] = 0
            BY <4>6, <5>2
          <6>3. l[n][f] = M
            BY <4>3, <4>4, <6>2
          <6>4. QED
            BY <6>1, <6>3
        <5>3. CASE f # NIL /\ m # NIL
          BY <4>1, <4>4, <5>3
        <5>4. QED
          BY <5>1, <5>2, <5>3
      <4>8. PICK q \in Parents(p) : l[n][q] = M
        BY <4>7
      <4>9. \A x \in Parents(p) : Ends(x, n)
        BY <1>3, <4>1
      <4>10. \A x \in Parents(p) : getATreeLevels(x, n) = l[n][x] /\ l[n][x] =< M
        BY <1>1, <4>1, <4>4
      <4> HIDE DEF f, m
      <4>11. M \in 0..n /\ Above(q, M) # {}
        BY <4>8, <4>9, <4>10
      <4>12. Above(p, M + 1) = UNION {Above(x, M) : x \in Parents(p)}
        BY <3>1, <4>4
      <4>13. Above(p, L) # {}
        <5>1. L = M + 1
          BY <4>4, <4>5
        <5>2. QED
          BY <4>8, <4>11, <4>12, <5>1
      <4>14. ASSUME NEW k \in Nat, L < k, k =< n + 1
             PROVE  Above(p, k) = {}
        <5> DEFINE j == k - 1
        <5>1. j \in Nat /\ j + 1 = k /\ M < j /\ j =< n
          BY <4>4, <4>5, <4>14
        <5> HIDE DEF j
        <5>2. ASSUME NEW x \in Parents(p)
              PROVE  Above(x, j) = {}
          <6>1. getATreeLevels(x, n) =< M /\ getATreeLevels(x, n) \in Nat
            BY <4>9, <4>10
          <6>2. getATreeLevels(x, n) < j
            BY <4>4, <5>1, <6>1
          <6>3. QED
            BY <4>9, <5>1, <6>2
        <5>3. Above(p, j + 1) = UNION {Above(x, j) : x \in Parents(p)}
          BY <3>1, <5>1
        <5>4. Above(p, j + 1) = {}
          BY <5>2, <5>3
        <5>5. QED
          BY <5>1, <5>4
      <4>15. L \in 0..(n + 1)
        BY <4>5, <4>11
      <4>16. QED
        BY <4>13, <4>14, <4>15 DEF L
    <3>7. QED
      BY <3>5, <3>6
  <2>2. n + 1 \in Nat
    OBVIOUS
  <2> HIDE DEF Ends
  <2>3. QED
    BY <2>1, <2>2
<1> HIDE DEF S
<1>4. \A n \in Nat : n \in S
  BY <1>2, <1>3, AllNumbers
<1>5. QED
  BY <1>4 DEF S
-----------------------------------------------------------------------------
LEMMA NobodyFurther ==
    ASSUME IInv, NEW p \in Known, NEW n \in Nat
    PROVE  /\ Above(p, n) = {} => Above(p, n + 1) = {}
           /\ Below(p, n) = {} => Below(p, n + 1) = {}
<1>1. Above(p, n + 1) = UNION {Parents(q) : q \in Above(p, n)}
  BY AboveByOne
<1>2. Below(p, n + 1) = UNION {ToSet(Children(q)) : q \in Below(p, n)}
  BY BelowByOne
<1>3. QED
  BY <1>1, <1>2

\* The rows of the page hold the generations of the store.
LEMMA RowsHoldGenerations ==
    ASSUME IInv, NEW p \in Known, NEW n \in Nat
    PROVE  /\ DOMAIN fillATree(p, n) = 1..n
           /\ DOMAIN fillDTree(p, n) = 1..n
           /\ \A k \in 1..n : /\ fillATree(p, n)[k] \in Seq(Drawable)
                              /\ fillDTree(p, n)[k] \in Seq(Drawable)
                              /\ KnownIn(fillATree(p, n)[k]) = Above(p, k)
                              /\ KnownIn(fillDTree(p, n)[k]) = Below(p, k)
<1>1. /\ Known \cap Unknown = {}
      /\ p \in Drawable
      /\ Known \subseteq Drawable
      /\ Drawable \ Known = Unknown
      /\ Lower \in Maps(Drawable, Seq(Drawable))
      /\ Upper \in Maps(Drawable, Seq(Drawable))
  BY Families DEF Drawable
<1>2. PICK a : Generations(a, Drawable, Upper)
  BY <1>1, GenerationsExist
<1>3. PICK b : Generations(b, Drawable, Lower)
  BY <1>1, GenerationsExist
<1>4. fillATree(p, n) = [k \in 1..n |-> a[k][p]]
  BY <1>1, <1>2, ATreeRows
<1>5. fillDTree(p, n) = [k \in 1..n |-> b[k][p]]
  BY <1>1, <1>3, DTreeRows
<1>6. \A k \in Nat : a[k][p] \in Seq(Drawable) /\ b[k][p] \in Seq(Drawable)
  <2>1. \A k \in Nat : a[k][p] \in Seq(Drawable)
    BY <1>1, <1>2, NextGeneration
  <2>2. \A k \in Nat : b[k][p] \in Seq(Drawable)
    BY <1>1, <1>3, NextGeneration
  <2>3. QED
    BY <2>1, <2>2
<1>7. \A s \in Seq(Drawable) : KnownIn(s) = ToSet(s) \cap Known
  <2>1. \A s \in Seq(Drawable) : ToSet(s) \subseteq Drawable
    BY DEF ToSet
  <2>2. QED
    BY <1>1, <2>1 DEF KnownIn
<1> DEFINE above == [k \in Nat |-> Above(p, k)]
           below == [k \in Nat |-> Below(p, k)]
<1>8. /\ above[0] = {p} /\ below[0] = {p}
      /\ \A k \in Nat : above[k] = Above(p, k) /\ below[k] = Below(p, k)
  BY AboveByOne, BelowByOne
<1>9. ASSUME NEW k \in Nat
      PROVE  above[k + 1] = Reached(Upper, Known, above[k])
  <2>1. Above(p, k) \subseteq Known /\ Above(p, k + 1) = UNION {Parents(x) : x \in Above(p, k)}
    BY AboveByOne
  <2>2. \A x \in Known : ToSet(Upper[x]) \cap Known = Parents(x)
    BY Families
  <2>3. k + 1 \in Nat
    OBVIOUS
  <2>4. QED
    BY <1>8, <2>1, <2>2, <2>3 DEF Reached
<1>10. ASSUME NEW k \in Nat
       PROVE  below[k + 1] = Reached(Lower, Known, below[k])
  <2>1. Below(p, k) \subseteq Known
        /\ Below(p, k + 1) = UNION {ToSet(Children(x)) : x \in Below(p, k)}
    BY BelowByOne
  <2>2. \A x \in Known : ToSet(Lower[x]) \cap Known = ToSet(Children(x))
    BY Families
  <2>3. k + 1 \in Nat
    OBVIOUS
  <2>4. QED
    BY <1>8, <2>1, <2>2, <2>3 DEF Reached
<1>11. \A x \in Drawable \ Known : ToSet(Upper[x]) \cap Known = {} /\ ToSet(Lower[x]) \cap Known = {}
  BY <1>1, Families
<1> HIDE DEF above, below
<1>12. \A k \in Nat : ToSet(a[k][p]) \cap Known = above[k]
  <2>1. /\ Upper \in Maps(Drawable, Seq(Drawable)) /\ Generations(a, Drawable, Upper)
        /\ Known \subseteq Drawable
    BY <1>1, <1>2
  <2>2. Reaches(above, Upper, Known, p)
    BY <1>8, <1>9 DEF Reaches
  <2>3. Apart(Upper, Known, Drawable)
    BY <1>11 DEF Apart
  <2>4. QED
    BY <2>1, <2>2, <2>3, GenerationMembers
<1>13. \A k \in Nat : ToSet(b[k][p]) \cap Known = below[k]
  <2>1. /\ Lower \in Maps(Drawable, Seq(Drawable)) /\ Generations(b, Drawable, Lower)
        /\ Known \subseteq Drawable
    BY <1>1, <1>3
  <2>2. Reaches(below, Lower, Known, p)
    BY <1>8, <1>10 DEF Reaches
  <2>3. Apart(Lower, Known, Drawable)
    BY <1>11 DEF Apart
  <2>4. QED
    BY <2>1, <2>2, <2>3, GenerationMembers
<1>14. \A k \in 1..n : k \in Nat
  OBVIOUS
<1>15. \A k \in 1..n : KnownIn(a[k][p]) = Above(p, k) /\ KnownIn(b[k][p]) = Below(p, k)
  BY <1>6, <1>7, <1>8, <1>12, <1>13, <1>14
<1>16. QED
  BY <1>4, <1>5, <1>6, <1>14, <1>15

\* The last row drawn below p is the last one of the rows asked for that has
\* somebody known.
LEMMA DLevelsCount ==
    ASSUME IInv, NEW p \in Known, NEW n \in Nat
    PROVE  /\ DLevels(fillDTree(p, n)) \in 0..n
           /\ \A k \in 1..n : DLevels(fillDTree(p, n)) < k => Below(p, k) = {}
<1> DEFINE rows == fillDTree(p, n)
           S == {0} \cup {k \in DOMAIN rows : ToSet(rows[k]) \notin SUBSET Unknown}
<1>1. DOMAIN rows = 1..n /\ \A k \in 1..n : KnownIn(rows[k]) = Below(p, k)
  BY RowsHoldGenerations
<1> HIDE DEF rows
<1>2. S \subseteq 0..n /\ S # {}
  BY <1>1
<1>3. \A k \in 1..n : k \notin S => Below(p, k) = {}
  BY <1>1 DEF KnownIn
<1>4. DLevels(rows) = Max(S)
  BY DEF DLevels
<1> HIDE DEF S
<1>5. Max(S) \in S /\ \A x \in S : x =< Max(S)
  BY <1>2, MaxOfBounded
<1> DEFINE m == Max(S)
<1>a. m \in 0..n /\ \A x \in S : x =< m
  BY <1>2, <1>5
<1> HIDE DEF m
<1>b. ASSUME NEW k \in 1..n, m < k
      PROVE  k \notin S
  BY <1>a, <1>b
<1>6. \A k \in 1..n : Max(S) < k => k \notin S
  BY <1>b DEF m
<1>7. DLevels(rows) \in 0..n
  BY <1>2, <1>4, <1>5
<1>8. \A k \in 1..n : DLevels(rows) < k => Below(p, k) = {}
  BY <1>3, <1>4, <1>6
<1>9. QED
  BY <1>7, <1>8 DEF rows

LEMMA EveryoneIsDrawn == IInv => EveryoneInReachIsDrawn
<1> SUFFICES ASSUME IInv, NEW p \in Known, NEW req \in Levels, NEW k \in 1..req
             PROVE  LET levels == getATreeLevels(p, req)
                        above == fillATree(p, levels)
                        below == fillDTree(p, req)
                    IN /\ Above(p, k) = IF k \in 1..levels THEN KnownIn(above[k]) ELSE {}
                       /\ Below(p, k) = IF k \in 1..DLevels(below) THEN KnownIn(below[k])
                                        ELSE {}
  BY DEF EveryoneInReachIsDrawn
<1> DEFINE levels == getATreeLevels(p, req)
           above == fillATree(p, levels)
           below == fillDTree(p, req)
           low == DLevels(below)
<1>1. req \in Nat /\ k \in Nat /\ 1 =< k /\ k =< req
  BY LevelsAssumption
<1>2. levels \in 0..req /\ \A j \in Nat : levels < j /\ j =< req => Above(p, j) = {}
  BY <1>1, LevelsCount
<1>3. levels \in Nat
  BY <1>2
<1>4. low \in 0..req /\ \A j \in 1..req : low < j => Below(p, j) = {}
  BY <1>1, DLevelsCount
<1>5. \A j \in 1..levels : KnownIn(above[j]) = Above(p, j)
  BY <1>3, RowsHoldGenerations
<1>6. \A j \in 1..req : KnownIn(below[j]) = Below(p, j)
  BY <1>1, RowsHoldGenerations
<1> HIDE DEF levels, above, below, low
<1>7. Above(p, k) = IF k \in 1..levels THEN KnownIn(above[k]) ELSE {}
  <2>1. CASE k \in 1..levels
    BY <1>5, <2>1
  <2>2. CASE k \notin 1..levels
    <3>1. levels < k
      BY <1>1, <1>3, <2>2
    <3>2. QED
      BY <1>1, <1>2, <2>2, <3>1
  <2>3. QED
    BY <2>1, <2>2
<1>8. Below(p, k) = IF k \in 1..low THEN KnownIn(below[k]) ELSE {}
  <2>1. CASE k \in 1..low
    BY <1>6, <2>1
  <2>2. CASE k \notin 1..low
    <3>1. low < k
      BY <1>1, <1>4, <2>2
    <3>2. QED
      BY <1>4, <2>2, <3>1
  <2>3. QED
    BY <2>1, <2>2
<1>9. QED
  BY <1>7, <1>8 DEF levels, above, below, low

LEMMA NothingIsHidden == IInv => NothingIsHiddenWithoutZoom
<1> SUFFICES ASSUME IInv, NEW p \in Known, NEW req \in Levels, ~ZoomsOut(p, req)
             PROVE  Above(p, req + 1) = {} /\ Below(p, req + 1) = {}
  BY DEF NothingIsHiddenWithoutZoom
<1> DEFINE levels == getATreeLevels(p, req)
           low == DLevels(fillDTree(p, req))
<1>1. req \in Nat /\ req \in 1..req
  BY LevelsAssumption
<1>2. levels \in 0..req /\ \A j \in Nat : levels < j /\ j =< req => Above(p, j) = {}
  BY <1>1, LevelsCount
<1>3. low \in 0..req /\ \A j \in 1..req : low < j => Below(p, j) = {}
  BY <1>1, DLevelsCount
<1>4. ~(req =< Max({levels, low}))
  BY DEF ZoomsOut
<1> HIDE DEF levels, low
<1>5. levels \in Nat /\ low \in Nat
  BY <1>2, <1>3
<1>6. Max({levels, low}) \in Nat /\ levels =< Max({levels, low}) /\ low =< Max({levels, low})
  BY <1>5, MaxOfTwo
<1>7. levels < req /\ low < req
  BY <1>1, <1>4, <1>5, <1>6
<1>8. Above(p, req) = {} /\ Below(p, req) = {}
  BY <1>1, <1>2, <1>3, <1>7
<1>9. QED
  BY <1>1, <1>8, NobodyFurther
-----------------------------------------------------------------------------
LEMMA MaxOfInts ==
    ASSUME NEW a \in Int, NEW b \in Int, NEW c \in Int
    PROVE  /\ Max({a, b, c}) \in {a, b, c}
           /\ a =< Max({a, b, c}) /\ b =< Max({a, b, c}) /\ c =< Max({a, b, c})
<1> DEFINE S == {a, b, c}
<1>1. \E x \in S : \A y \in S : x >= y
  <2>1. CASE a >= b /\ a >= c
    BY <2>1
  <2>2. CASE b >= a /\ b >= c
    BY <2>2
  <2>3. CASE c >= a /\ c >= b
    BY <2>3
  <2>4. QED
    BY <2>1, <2>2, <2>3
<1> HIDE DEF S
<1>2. Max(S) \in S /\ \A y \in S : Max(S) >= y
  BY <1>1 DEF Max
<1>3. QED
  BY <1>2 DEF S

LEMMA CellsOfNumber == ASSUME NEW n \in Nat PROVE Cells(n) = n
<1>1. Max({0, n}) \in {0, n} /\ Max({0, n}) \in Nat /\ n =< Max({0, n})
  BY MaxOfTwo
<1>2. QED
  BY <1>1 DEF Cells

\* A row no wider than the grid is filled up to it, whatever is left first.
LEMMA RowIsFilled ==
    ASSUME NEW grid \in Nat, NEW used \in Nat, used =< grid,
           NEW left \in Nat, left =< grid - used, NEW widths, Total(widths) = used
    PROVE  RowCells(grid, used, left, widths) = grid
<1>1. grid - used - left \in Nat
  OBVIOUS
<1>2. Cells(left) = left /\ Cells(grid - used - left) = grid - used - left
  BY <1>1, CellsOfNumber
<1>3. RowCells(grid, used, left, widths) = left + used + (grid - used - left)
  BY <1>2 DEF RowCells
<1>4. QED
  BY <1>3

LEMMA PeersType ==
    ASSUME IInv, NEW p \in Known
    PROVE  get_peers(p) \in Seq(ID)
<1> DEFINE m == people[p].mother
           f == people[p].father
<1>1. \A r \in Known \cup {NIL} : HasChildren(r) => people[r].children \in Seq(ID)
  BY FamilyIsKnown DEF HasChildren, IInv
<1>2. m \in Known \cup {NIL} /\ f \in Known \cup {NIL} /\ p \in ID
  BY FamilyIsKnown DEF IInv, Known
<1> HIDE DEF m, f
<1>3. CASE HasChildren(m)
  <2>1. people[m].children \in Seq(ID)
    BY <1>1, <1>2, <1>3
  <2>2. get_peers(p) = Those(people[m].children, Having("father", f))
    BY <1>3 DEF get_peers, m, f
  <2>3. QED
    BY <2>1, <2>2, ThoseMembers
<1>4. CASE ~HasChildren(m) /\ HasChildren(f)
  <2>1. people[f].children \in Seq(ID)
    BY <1>1, <1>2, <1>4
  <2>2. get_peers(p) = Those(people[f].children, Having("mother", NIL))
    BY <1>4 DEF get_peers, m, f
  <2>3. QED
    BY <2>1, <2>2, ThoseMembers
<1>5. CASE ~HasChildren(m) /\ ~HasChildren(f)
  <2>1. get_peers(p) = <<p>>
    BY <1>5 DEF get_peers, m, f
  <2>2. QED
    BY <1>2, <2>1
<1>6. QED
  BY <1>3, <1>4, <1>5

\* Where the target is among its peers.
LEMMA TargetPosition ==
    ASSUME IInv, NEW p \in Known
    PROVE  /\ Len(get_peers(p)) \in Nat
           /\ NodePos(p) \in -1..(Len(get_peers(p)) - 1)
           /\ p \in ToSet(get_peers(p)) => NodePos(p) >= 0
<1> DEFINE s == get_peers(p)
           I == {i \in 1..Len(s) : s[i] = p}
<1>1. s \in Seq(ID)
  BY PeersType
<1>2. NodePos(p) = (IF I # {} THEN Min(I) ELSE 0) - 1
  BY DEF NodePos, SelectInSeq
<1> HIDE DEF s
<1>3. Len(s) \in Nat /\ DOMAIN s = 1..Len(s)
  BY <1>1
<1>4. p \in ToSet(s) => I # {}
  BY <1>3 DEF ToSet
<1>5. I # {} => Min(I) \in I
  <2>1. ASSUME I # {}
        PROVE  \E x \in I : \A y \in I : x =< y
    <3>1. I \subseteq Nat
      BY <1>3
    <3>2. QED
      BY <2>1, <3>1, LeastNumber
  <2>2. QED
    BY <2>1 DEF Min
<1>6. I \subseteq 1..Len(s)
  OBVIOUS
<1> HIDE DEF I
<1>7. CASE I = {}
  BY <1>2, <1>3, <1>4, <1>7 DEF s
<1>8. CASE I # {}
  <2>1. Min(I) \in 1..Len(s) /\ NodePos(p) = Min(I) - 1
    BY <1>2, <1>5, <1>6, <1>8
  <2>2. QED
    BY <1>3, <2>1 DEF s
<1>9. QED
  BY <1>7, <1>8

\* The grid is at least as wide as each of its three parts.
LEMMA GridHoldsItsParts ==
    ASSUME IInv, NEW p \in Known, NEW req \in Nat
    PROVE  /\ gridWidth(p, req) \in Nat
           /\ getATreeWidth(getATreeLevels(p, req)) =< gridWidth(p, req)
           /\ getDTreeWidth(req, p) =< gridWidth(p, req)
           /\ getDTreeWidth(req, p) \in Nat
           /\ getPTreeWidth(p) =< gridWidth(p, req)
           /\ \E half \in Int : /\ getPTreeWidth(p) = half * 2 + 1
                                /\ NodePos(p) =< half
                                /\ Len(get_peers(p)) - 1 - NodePos(p) =< half
<1> DEFINE A == getATreeWidth(getATreeLevels(p, req))
           P == getPTreeWidth(p)
           D == getDTreeWidth(req, p)
           n == NodePos(p)
           right == Len(get_peers(p)) - 1 - NodePos(p)
           half == Max({n, right})
<1>1. A \in Nat
  <2>1. getATreeLevels(p, req) \in Nat
    BY LevelsCount
  <2>2. QED
    BY <2>1, ATreeWidth
<1>2. D \in Nat
  <2>1. PICK w \in Maps(Nat, Maps(Drawable, Nat)) :
           \A m \in Nat : \A q \in Drawable : getDTreeWidth(m, q) = w[m][q]
    BY DTreeWidths
  <2>2. p \in Drawable
    BY DEF Drawable
  <2>3. QED
    BY <2>1, <2>2 DEF Maps
<1>3. n \in Int /\ right \in Int
  BY TargetPosition
<1>4. P = half * 2 + 1
  BY DEF getPTreeWidth
<1>5. gridWidth(p, req) = Max({A, P, D})
  BY DEF gridWidth
<1> HIDE DEF A, D, P
<1>6. half \in Int /\ n =< half /\ right =< half
  <2> HIDE DEF n, right
  <2>1. {n, right} = {n, right, right}
    OBVIOUS
  <2>2. Max({n, right, right}) \in {n, right, right}
        /\ n =< Max({n, right, right}) /\ right =< Max({n, right, right})
    BY <1>3, MaxOfInts
  <2>3. QED
    BY <1>3, <2>1, <2>2
<1> HIDE DEF half
<1>7. P \in Int
  BY <1>4, <1>6
<1>8. Max({A, P, D}) \in {A, P, D} /\ A =< Max({A, P, D}) /\ P =< Max({A, P, D})
      /\ D =< Max({A, P, D})
  <2>1. A \in Int /\ P \in Int /\ D \in Int
    BY <1>1, <1>2, <1>7
  <2>2. QED
    BY <2>1, MaxOfInts, Zenon
<1>9. Max({A, P, D}) \in Nat
  BY <1>1, <1>2, <1>7, <1>8
<1>10. QED
  BY <1>1, <1>2, <1>4, <1>5, <1>6, <1>8, <1>9 DEF A, D, P

LEMMA PeersFit == (NoIdTwice /\ NoSexConflict => Orderly) => PeersFitTheGrid
<1> SUFFICES ASSUME Orderly, NEW p \in Known, NEW req \in Levels
             PROVE  /\ NodePos(p) >= 0
                    /\ PLeftFill(p, req) >= 0
                    /\ PLeftFill(p, req) + Len(get_peers(p)) =< gridWidth(p, req)
  BY DEF PeersFitTheGrid
<1>1. req \in Nat /\ IInv
  BY LevelsAssumption DEF Orderly
<1> DEFINE n == NodePos(p)
           N == Len(get_peers(p))
           G == gridWidth(p, req)
<1>2. N \in Nat /\ n \in Int /\ n >= 0
  BY <1>1, PeersOfPeers, TargetPosition
<1>3. PICK half \in Int : /\ getPTreeWidth(p) = half * 2 + 1
                          /\ n =< half /\ N - 1 - n =< half
  BY <1>1, GridHoldsItsParts
<1>4. G \in Nat /\ half * 2 + 1 =< G
  BY <1>1, <1>3, GridHoldsItsParts
<1>5. PLeftFill(p, req) = (G - 1) \div 2 - n
  BY DEF PLeftFill
<1> HIDE DEF n, N, G
<1> DEFINE h == (G - 1) \div 2
<1>6. h \in Int /\ half =< h /\ 2 * h + 1 =< G
  BY <1>2, <1>3, <1>4
<1>7. h - n >= 0 /\ h - n + N =< G
  <2> HIDE DEF h
  <2>1. QED
    BY <1>2, <1>3, <1>4, <1>6
<1>8. QED
  BY <1>2, <1>5, <1>7 DEF n, N, G

\* Above somebody drawn stand two.
LEMMA CouplesAbove ==
    ASSUME IInv, NEW w \in Maps(Drawable, Nat), NEW a \in Nat, \A x \in Drawable : w[x] = a,
           NEW q \in Drawable
    PROVE  Sum(w, Upper[q]) = a + a
<1>1. Upper \in Maps(Drawable, Seq(Drawable)) /\ Upper[q] = Over(q)
  BY Families DEF Upper
<1>2. PICK x, y : Over(q) = <<x, y>>
  BY DEF Over
<1>3. <<x, y>> \in Seq(Drawable)
  BY <1>1, <1>2 DEF Maps
<1>4. x \in Drawable /\ y \in Drawable
  BY <1>3
<1>5. <<x, y>> = Append(<<x>>, y) /\ <<x>> \in Seq(Drawable)
  BY <1>4
<1>6. Sum(w, Append(<<x>>, y)) = Sum(w, <<x>>) + w[y]
  BY <1>4, <1>5, SumAppend
<1>7. Sum(w, <<x>>) = w[x]
  BY <1>4, SumOne
<1>8. QED
  BY <1>1, <1>2, <1>4, <1>5, <1>6, <1>7

LEMMA AncestorsFillTheGrid ==
    ASSUME IInv, NEW p \in Known, NEW req \in Nat, NEW k \in DOMAIN ARowCells(p, req)
    PROVE  ARowCells(p, req)[k] = gridWidth(p, req)
<1> DEFINE levels == getATreeLevels(p, req)
           rows == fillATree(p, levels)
           grid == gridWidth(p, req)
           used == getATreeWidth(levels)
           left == (grid - used + 1) \div 2
           widths == [i \in DOMAIN rows[k] |-> getATreeWidth(levels - k)]
           w == [n \in Nat |-> [q \in Drawable |-> getATreeWidth(n)]]
<1>1. levels \in Nat
  BY LevelsCount
<1>2. /\ p \in Drawable
      /\ Upper \in Maps(Drawable, Seq(Drawable))
  BY Families DEF Drawable
<1>3. PICK g : Generations(g, Drawable, Upper)
  BY <1>2, GenerationsExist
<1>4. rows = [j \in 1..levels |-> g[j][p]]
  BY <1>1, <1>2, <1>3, ATreeRows
<1>5. k \in 1..levels /\ ARowCells(p, req)[k] = RowCells(grid, used, left, widths)
  BY DEF ARowCells
<1>6. used \in Nat /\ grid \in Nat /\ used =< grid
  <2>1. used \in Nat
    BY <1>1, ATreeWidth
  <2>2. QED
    BY <2>1, GridHoldsItsParts
<1>7. \A n \in Nat : /\ w[n] \in Maps(Drawable, Nat)
                     /\ \A q \in Drawable : w[n][q] = getATreeWidth(n)
  <2>1. ASSUME NEW n \in Nat
        PROVE  w[n] \in Maps(Drawable, Nat) /\ \A q \in Drawable : w[n][q] = getATreeWidth(n)
    <3> DEFINE alike == [q \in Drawable |-> getATreeWidth(n)]
    <3>1. w[n] = alike
      OBVIOUS
    <3>2. getATreeWidth(n) \in Nat
      BY ATreeWidth
    <3> HIDE DEF w
    <3>3. QED
      BY <3>1, <3>2 DEF Maps
  <2>2. QED
    BY <2>1
<1>8. w \in Maps(Nat, Maps(Drawable, Nat))
  <2>1. w = [n \in Nat |-> w[n]]
    OBVIOUS
  <2> HIDE DEF w
  <2>2. QED
    BY <1>7, <2>1 DEF Maps
<1> HIDE DEF w, levels, rows, grid, used
<1>9. AddsUp(w, Drawable, Upper)
  <2>1. ASSUME NEW n \in Nat, NEW x \in Drawable
        PROVE  w[n + 1][x] = Sum(w[n], Upper[x])
    <3> DEFINE f == w[n]
    <3>1. n + 1 \in Nat /\ w[n + 1][x] = getATreeWidth(n + 1)
      BY <1>7
    <3>2. getATreeWidth(n) \in Nat /\ getATreeWidth(n + 1) = getATreeWidth(n) + getATreeWidth(n)
      BY ATreeWidth
    <3>3. f \in Maps(Drawable, Nat) /\ \A q \in Drawable : f[q] = getATreeWidth(n)
      BY <1>7
    <3> HIDE DEF f
    <3>4. Sum(f, Upper[x]) = getATreeWidth(n) + getATreeWidth(n)
      BY <3>2, <3>3, CouplesAbove
    <3>5. QED
      BY <3>1, <3>2, <3>4 DEF f
  <2>2. QED
    BY <2>1 DEF AddsUp
<1>10. \A j \in Nat : \A n \in Nat : \A q \in Drawable : Sum(w[n], g[j][q]) = w[n + j][q]
  BY <1>2, <1>3, <1>8, <1>9, GenerationWidth
<1> DEFINE n == levels - k
<1>11. k \in Nat /\ n \in Nat /\ n + k = levels
  BY <1>1, <1>5
<1>12. Sum(w[n], g[k][p]) = w[n + k][p]
  BY <1>2, <1>10, <1>11
<1>13. w[n + k][p] = used
  BY <1>1, <1>2, <1>7, <1>11 DEF used
<1>14. widths = Mapped(w[n], rows[k])
  <2>1. rows[k] = g[k][p]
    BY <1>4, <1>5
  <2>2. g[k][p] \in Seq(Drawable)
    BY <1>2, <1>3, <1>11, NextGeneration
  <2>3. \A i \in DOMAIN rows[k] : rows[k][i] \in Drawable
    BY <2>1, <2>2
  <2>4. \A i \in DOMAIN rows[k] : w[n][rows[k][i]] = getATreeWidth(n)
    BY <1>7, <1>11, <2>3
  <2> HIDE DEF n
  <2>5. QED
    BY <2>4 DEF Mapped, n
<1>15. Total(widths) = used
  <2>1. rows[k] = g[k][p]
    BY <1>4, <1>5
  <2>2. QED
    BY <1>12, <1>13, <1>14, <2>1 DEF Sum
<1> HIDE DEF widths, n
<1>16. left \in Nat /\ left =< grid - used
  BY <1>6
<1> HIDE DEF left
<1>17. RowCells(grid, used, left, widths) = grid
  BY <1>6, <1>15, <1>16, RowIsFilled
<1>18. QED
  BY <1>5, <1>17 DEF grid

LEMMA DescendantsFillTheGrid ==
    ASSUME IInv, NEW p \in Known, NEW req \in Nat, NEW k \in DOMAIN DRowCells(p, req)
    PROVE  DRowCells(p, req)[k] = gridWidth(p, req)
<1> DEFINE rows == fillDTree(p, req)
           grid == gridWidth(p, req)
           used == getDTreeWidth(req, p)
           left == (grid - used) \div 2
           widths == [i \in DOMAIN rows[k] |-> getDTreeWidth(req - k, rows[k][i])]
<1>1. DLevels(rows) \in 0..req
  BY DLevelsCount
<1>2. /\ p \in Drawable
      /\ Lower \in Maps(Drawable, Seq(Drawable))
  BY Families DEF Drawable
<1>3. PICK g : Generations(g, Drawable, Lower)
  BY <1>2, GenerationsExist
<1>4. rows = [j \in 1..req |-> g[j][p]]
  BY <1>2, <1>3, DTreeRows
<1>5. k \in 1..req /\ DRowCells(p, req)[k] = RowCells(grid, used, left, widths)
  <2>1. k \in 1..DLevels(rows) /\ DRowCells(p, req)[k] = RowCells(grid, used, left, widths)
    BY DEF DRowCells
  <2> HIDE DEF rows, grid, used, left, widths
  <2>2. QED
    BY <1>1, <2>1
<1>6. used \in Nat /\ grid \in Nat /\ used =< grid
  BY GridHoldsItsParts
<1>7. PICK w \in Maps(Nat, Maps(Drawable, Nat)) :
         /\ \A n \in Nat : \A q \in Drawable : getDTreeWidth(n, q) = w[n][q]
         /\ \A q \in Drawable : w[0][q] = 1
         /\ \A n \in Nat : \A q \in Drawable : w[n + 1][q] = Sum(w[n], Lower[q])
  BY DTreeWidths
<1> HIDE DEF rows, grid, used
<1>8. \A j \in Nat : \A n \in Nat : \A q \in Drawable : Sum(w[n], g[j][q]) = w[n + j][q]
  <2>1. AddsUp(w, Drawable, Lower)
    BY <1>7 DEF AddsUp
  <2>2. QED
    BY <1>2, <1>3, <2>1, GenerationWidth
<1> DEFINE n == req - k
<1>9. k \in Nat /\ n \in Nat /\ n + k = req
  BY <1>5
<1>10. Sum(w[n], g[k][p]) = w[n + k][p]
  BY <1>2, <1>8, <1>9
<1>11. w[n + k][p] = used
  BY <1>2, <1>7, <1>9 DEF used
<1>12. widths = Mapped(w[n], rows[k]) /\ rows[k] = g[k][p]
  <2>1. rows[k] = g[k][p]
    BY <1>4, <1>5
  <2>2. g[k][p] \in Seq(Drawable)
    BY <1>2, <1>3, <1>9, NextGeneration
  <2>3. \A i \in DOMAIN rows[k] : rows[k][i] \in Drawable
    BY <2>1, <2>2
  <2>4. \A i \in DOMAIN rows[k] : getDTreeWidth(n, rows[k][i]) = w[n][rows[k][i]]
    BY <1>7, <1>9, <2>3
  <2> HIDE DEF n
  <2>5. QED
    BY <2>1, <2>4 DEF Mapped, n
<1>13. Total(widths) = used
  BY <1>10, <1>11, <1>12 DEF Sum
<1> HIDE DEF widths, n
<1>14. left \in Nat /\ left =< grid - used
  BY <1>6
<1> HIDE DEF left
<1>15. RowCells(grid, used, left, widths) = grid
  BY <1>6, <1>13, <1>14, RowIsFilled
<1>16. QED
  BY <1>5, <1>15 DEF grid

LEMMA RowsFill == IInv => RowsFillTheGrid
<1>1. ASSUME IInv, NEW p \in Known, NEW req \in Levels,
             NEW row \in {ARowCells(p, req), DRowCells(p, req)}, NEW k \in DOMAIN row
      PROVE  row[k] = gridWidth(p, req)
  <2>1. req \in Nat
    BY LevelsAssumption
  <2>2. CASE row = ARowCells(p, req)
    BY <1>1, <2>1, <2>2, AncestorsFillTheGrid
  <2>3. CASE row = DRowCells(p, req)
    BY <1>1, <2>1, <2>3, DescendantsFillTheGrid
  <2>4. QED
    BY <1>1, <2>2, <2>3
<1>2. QED
  BY <1>1 DEF RowsFillTheGrid
-----------------------------------------------------------------------------
\* Somebody known in a row below the first is a child of somebody known in the
\* row before it.
LEMMA ChildOfTheRowAbove ==
    ASSUME IInv, NEW p \in Known, NEW n \in Nat, NEW k \in 2..n,
           NEW q \in KnownIn(fillDTree(p, n)[k])
    PROVE  /\ q \in Known
           /\ \E x \in KnownIn(fillDTree(p, n)[k - 1]) : x \in Known /\ q \in ToSet(Children(x))
<1> DEFINE j == k - 1
<1>1. j \in Nat /\ j \in 1..n /\ k \in 1..n /\ j + 1 = k
  OBVIOUS
<1>2. \A i \in 1..n : KnownIn(fillDTree(p, n)[i]) = Below(p, i)
  BY RowsHoldGenerations
<1>3. \A i \in Nat : Below(p, i) \subseteq Known
  BY BelowByOne
<1>4. \A i \in Nat : Below(p, i + 1) = UNION {ToSet(Children(x)) : x \in Below(p, i)}
  BY BelowByOne
<1> HIDE DEF j
<1>5. Below(p, k) = UNION {ToSet(Children(x)) : x \in Below(p, j)}
  <2>1. Below(p, j + 1) = UNION {ToSet(Children(x)) : x \in Below(p, j)}
    BY <1>1, <1>4
  <2>2. QED
    BY <1>1, <2>1
<1>6. q \in Below(p, k) /\ KnownIn(fillDTree(p, n)[j]) = Below(p, j)
  BY <1>1, <1>2
<1>7. PICK x \in Below(p, j) : q \in ToSet(Children(x))
  BY <1>5, <1>6
<1>8. x \in Known
  BY <1>1, <1>3, <1>7
<1>9. ToSet(Children(x)) \subseteq Known
  BY <1>8, Families
<1>10. QED
  BY <1>6, <1>7, <1>8, <1>9 DEF j

\* Who is listed as a child and has rows that agree on the parents has the
\* parent that lists it: the row that put it on the list is like the last one.
LEMMA ListedByItsParents ==
    ASSUME IInv, HInv, NEW x \in Known, NEW q \in Known,
           q \in ToSet(people[x].children), KeepsParents(q)
    PROVE  x \in Parents(q)
<1>1. /\ x \in ID /\ x # NIL /\ q \in ID
      /\ people[x].children \in Seq(ID)
      /\ log \in Seq(Row)
  BY FamilyIsKnown DEF IInv, Consistent, Known
<1>2. PICK i \in 1..Len(log) :
         log[i].id = q /\ x \in {log[i].father_id, log[i].mother_id}
  <2>1. Occurs(q, people[x].children) /\ Old(people, x) = people[x]
    BY <1>1 DEF Occurs, ToSet, Known, Old
  <2>2. QED
    BY <1>1, <2>1 DEF IInv, Consistent, Declared
<1>3. /\ Says(WithFather(log, q), Fathers(log), people[q].father)
      /\ Says(WithMother(log, q), Mothers(log), people[q].mother)
  BY KnownAsDeclared DEF PersonAsDeclared
<1>4. \A j \in 1..Len(log) : log[j].id = q => j \in RowsOf(q)
  BY <1>1 DEF RowsOf
<1>5. CASE log[i].father_id = x
  <2>1. i \in WithFather(log, q)
    BY <1>1, <1>2, <1>5 DEF WithFather
  <2>2. PICK j \in WithFather(log, q) : people[q].father = Fathers(log)[j]
    BY <1>3, <2>1 DEF Says
  <2>3. j \in 1..Len(log) /\ log[j].id = q /\ log[j].father_id \in ID
        /\ people[q].father = log[j].father_id
    BY <2>2 DEF WithFather, Fathers
  <2>4. log[j].father_id = log[i].father_id
    BY <1>1, <1>2, <1>4, <1>5, <2>3 DEF KeepsParents
  <2>5. QED
    BY <1>1, <1>5, <2>3, <2>4 DEF Parents
<1>6. CASE log[i].mother_id = x
  <2>1. i \in WithMother(log, q)
    BY <1>1, <1>2, <1>6 DEF WithMother
  <2>2. PICK j \in WithMother(log, q) : people[q].mother = Mothers(log)[j]
    BY <1>3, <2>1 DEF Says
  <2>3. j \in 1..Len(log) /\ log[j].id = q /\ log[j].mother_id \in ID
        /\ people[q].mother = log[j].mother_id
    BY <2>2 DEF WithMother, Mothers
  <2>4. log[j].mother_id = log[i].mother_id
    BY <1>1, <1>2, <1>4, <1>6, <2>3 DEF KeepsParents
  <2>5. QED
    BY <1>1, <1>6, <2>3, <2>4 DEF Parents
<1>7. QED
  BY <1>2, <1>5, <1>6

LEMMA LinesFind ==
    IInv /\ HInv => LinesFindTheirParent
<1> SUFFICES ASSUME IInv, HInv,
                    NEW p \in Known, NEW req \in Levels,
                    NEW k \in 1..DLevels(fillDTree(p, req)),
                    NEW q \in KnownIn(fillDTree(p, req)[k]), KeepsParents(q)
             PROVE  ThisParent(p, fillDTree(p, req), k, q) # NIL
  BY DEF LinesFindTheirParent
<1> DEFINE rows == fillDTree(p, req)
<1>1. req \in Nat
  BY LevelsAssumption
<1>2. DLevels(rows) \in 0..req
  BY <1>1, DLevelsCount
<1>3. k \in 1..req
  BY <1>1, <1>2
<1>4. p # NIL
  BY Families DEF Drawable
<1>5. CASE k = 1
  BY <1>4, <1>5 DEF ThisParent
<1>6. CASE k # 1
  <2> DEFINE above == ToSet(rows[k - 1])
  <2>1. k \in 2..req
    BY <1>3, <1>6
  <2>2. q \in Known
    BY <1>1, <2>1, ChildOfTheRowAbove
  <2>3. \E x \in KnownIn(rows[k - 1]) : x \in Known /\ q \in ToSet(Children(x))
    BY <1>1, <2>1, ChildOfTheRowAbove
  <2>4. PICK x \in Known : x \in above /\ q \in ToSet(Children(x))
    BY <2>3 DEF KnownIn
  <2>5. Children(x) = people[x].children /\ x # NIL
    BY Families DEF Drawable
  <2>6. q \in ToSet(people[x].children)
    BY <2>4, <2>5
  <2>7. x \in Parents(q)
    BY <2>2, <2>4, <2>6, ListedByItsParents
  <2>8. x = Father(q) \/ x = Mother(q)
    BY <2>2, <2>7, ParentsAreKnown
  <2>9. NIL \notin above
    <3>1. k - 1 \in 1..req
      BY <1>1, <2>1
    <3>2. rows[k - 1] \in Seq(Drawable)
      BY <1>1, <3>1, RowsHoldGenerations
    <3>3. NIL \notin Drawable
      BY Families
    <3> HIDE DEF rows
    <3>4. QED
      BY <3>2, <3>3 DEF ToSet
  <2>10. ThisParent(p, rows, k, q) = IF Father(q) \in above THEN Father(q)
                                     ELSE IF Mother(q) \in above THEN Mother(q) ELSE NIL
    BY <1>6 DEF ThisParent
  <2> HIDE DEF above, rows
  <2>11. ThisParent(p, rows, k, q) # NIL
    BY <2>4, <2>8, <2>9, <2>10
  <2>12. QED
    BY <2>11 DEF rows
<1>7. QED
  BY <1>5, <1>6
-----------------------------------------------------------------------------
\* Every row adds at most three people, so that there are finitely many.
FInv == IsFiniteSet(Known)

LEMMA StoresAreFinite == Spec => []FInv
<1>1. ASSUME Init
      PROVE  FInv
  <2>1. Known = {}
    BY <1>1 DEF Init, Known
  <2>2. QED
    BY <2>1, FS_EmptySet DEF FInv
<1>2. ASSUME IInv, FInv, [Next]_vars
      PROVE  FInv'
  <2>1. ASSUME NEW row \in Rows, AddPerson(row)
        PROVE  IsFiniteSet(Known')
    <3> DEFINE a == row.id
               b == row.father_id
               c == row.mother_id
    <3>1. RowStep(people, people', row)
      BY <1>2, <2>1, AddPersonStep DEF IInv
    <3>2. \A q \in ID : people'[q] # NIL => people[q] # NIL \/ q \in {a, b, c}
      BY <3>1 DEF RowStep
    <3> HIDE DEF a, b, c
    <3>3. Known' \subseteq ((Known \cup {a}) \cup {b}) \cup {c}
      BY <3>2 DEF Known
    <3>4. IsFiniteSet(Known \cup {a})
      BY <1>2, FS_AddElement DEF FInv
    <3>5. IsFiniteSet((Known \cup {a}) \cup {b})
      BY <3>4, FS_AddElement
    <3>6. IsFiniteSet(((Known \cup {a}) \cup {b}) \cup {c})
      BY <3>5, FS_AddElement
    <3>7. QED
      BY <3>3, <3>6, FS_Subset
  <2>2. CASE people' = people
    BY <1>2, <2>2 DEF Known, FInv
  <2>3. QED
    BY <1>2, <2>1, <2>2, StepCases DEF FInv
<1>3. QED
  BY <1>1, <1>2, Invariance, PTL DEF Spec

\* A line of n generations up from p.
Line(c, p, n) == /\ c \in [0..n -> Known]
                 /\ c[0] = p
                 /\ \A i \in 0..(n - 1) : c[i + 1] \in Parents(c[i])

LEMMA LinesExist ==
    ASSUME IInv
    PROVE  \A n \in Nat : \A p \in Known : Above(p, n) # {} => \E c : Line(c, p, n)
<1> DEFINE S == {n \in Nat : \A p \in Known : Above(p, n) # {} => \E c : Line(c, p, n)}
<1>1. 0 \in S
  <2>1. ASSUME NEW p \in Known
        PROVE  \E c : Line(c, p, 0)
    <3>1. Line([i \in 0..0 |-> p], p, 0)
      BY DEF Line
    <3>2. QED
      BY <3>1
  <2>2. QED
    BY <2>1
<1>2. ASSUME NEW n \in Nat, n \in S
      PROVE  n + 1 \in S
  <2>1. ASSUME NEW p \in Known, Above(p, n + 1) # {}
        PROVE  \E c : Line(c, p, n + 1)
    <3>1. Above(p, n + 1) = UNION {Above(q, n) : q \in Parents(p)}
      BY AboveThroughParents
    <3>2. PICK q \in Parents(p) : Above(q, n) # {}
      BY <2>1, <3>1
    <3>3. q \in Known
      BY ParentsAreKnown
    <3>4. PICK d : Line(d, q, n)
      BY <1>2, <3>2, <3>3
    <3>5. /\ \A i \in 0..n : d[i] \in Known
          /\ d[0] = q
          /\ \A i \in 0..(n - 1) : d[i + 1] \in Parents(d[i])
      BY <3>4 DEF Line
    <3> DEFINE c == [i \in 0..(n + 1) |-> IF i = 0 THEN p ELSE d[i - 1]]
    <3>6. c \in [0..(n + 1) -> Known] /\ c[0] = p
      <4>1. \A i \in 0..(n + 1) : i # 0 => i - 1 \in 0..n
        OBVIOUS
      <4>2. \A i \in 0..(n + 1) : (IF i = 0 THEN p ELSE d[i - 1]) \in Known
        BY <3>5, <4>1
      <4>3. QED
        BY <4>2
    <3>7. ASSUME NEW i \in 0..n
          PROVE  c[i + 1] \in Parents(c[i])
      <4>1. c[i + 1] = d[i] /\ (i # 0 => c[i] = d[i - 1])
        OBVIOUS
      <4>2. CASE i = 0
        BY <3>2, <3>5, <3>6, <4>1, <4>2
      <4>3. CASE i # 0
        <5>1. i - 1 \in 0..(n - 1) /\ (i - 1) + 1 = i
          BY <4>3
        <5>2. d[(i - 1) + 1] \in Parents(d[i - 1])
          BY <3>5, <5>1
        <5> HIDE DEF c
        <5>3. QED
          BY <4>1, <4>3, <5>1, <5>2
      <4>4. QED
        BY <4>2, <4>3
    <3> HIDE DEF c
    <3>8. (n + 1) - 1 = n
      OBVIOUS
    <3>9. Line(c, p, n + 1)
      BY <3>6, <3>7, <3>8 DEF Line
    <3>10. QED
      BY <3>9
  <2>2. n + 1 \in Nat
    OBVIOUS
  <2>3. QED
    BY <2>1, <2>2
<1> HIDE DEF S
<1>3. \A n \in Nat : n \in S
  BY <1>1, <1>2, AllNumbers
<1>4. QED
  BY <1>3 DEF S

LEMMA FurtherUpTheLine ==
    ASSUME IInv, NEW n \in Nat, NEW c, NEW p, Line(c, p, n), NEW i \in 0..n
    PROVE  \A d \in Nat : i + d =< n => c[i + d] \in Above(c[i], d)
<1> DEFINE S == {d \in Nat : i + d =< n => c[i + d] \in Above(c[i], d)}
<1>1. c[i] \in Known /\ \A j \in 0..(n - 1) : c[j + 1] \in Parents(c[j])
  BY DEF Line
<1>2. 0 \in S
  <2>1. Above(c[i], 0) = {c[i]} /\ i + 0 = i
    BY <1>1, AboveByOne
  <2>2. QED
    BY <2>1
<1>3. ASSUME NEW d \in Nat, d \in S
      PROVE  d + 1 \in S
  <2>1. ASSUME i + (d + 1) =< n
        PROVE  c[i + (d + 1)] \in Above(c[i], d + 1)
    <3>1. i + d \in 0..(n - 1) /\ i + d =< n /\ (i + d) + 1 = i + (d + 1)
      BY <2>1
    <3>2. c[i + d] \in Above(c[i], d)
      BY <1>3, <3>1
    <3>3. c[(i + d) + 1] \in Parents(c[i + d])
      BY <1>1, <3>1
    <3>4. Above(c[i], d + 1) = UNION {Parents(x) : x \in Above(c[i], d)}
      BY <1>1, AboveByOne
    <3>5. QED
      BY <3>1, <3>2, <3>3, <3>4
  <2>2. QED
    BY <2>1
<1> HIDE DEF S
<1>4. \A d \in Nat : d \in S
  BY <1>2, <1>3, AllNumbers
<1>5. QED
  BY <1>4 DEF S

LEMMA GridEnds == IInv /\ FInv => GridEndsWithTheFamily
<1> SUFFICES ASSUME IInv, IsFiniteSet(Known), NEW p \in Known, NEW req \in Levels,
                    \A k \in 1..Cardinality(Known) : \A q \in Known : q \notin Above(q, k),
                    ~(getATreeLevels(p, req) < Cardinality(Known))
             PROVE  FALSE
  BY DEF GridEndsWithTheFamily, FInv
<1> DEFINE N == Cardinality(Known)
           levels == getATreeLevels(p, req)
<1>1. req \in Nat /\ N \in Nat
  BY LevelsAssumption, FS_CardinalityType
<1>2. levels \in Nat /\ Above(p, levels) # {} /\ N =< levels
  BY <1>1, LevelsCount
<1> HIDE DEF N, levels
<1>3. PICK c : Line(c, p, levels)
  BY <1>2, LinesExist
<1> DEFINE f == [i \in 0..N |-> c[i]]
<1>4. \A i \in 0..N : i \in 0..levels /\ c[i] \in Known
  BY <1>1, <1>2, <1>3 DEF Line
<1>5. f \in [0..N -> Known] /\ \A i \in 0..N : f[i] = c[i]
  BY <1>4
<1>6. IsFiniteSet(0..N) /\ Cardinality(0..N) = N + 1
  <2>1. 0 \in Int /\ N \in Int /\ ~(0 > N)
    BY <1>1
  <2>2. Cardinality(0..N) = IF 0 > N THEN 0 ELSE N - 0 + 1
    BY <2>1, FS_Interval
  <2>3. IsFiniteSet(0..N)
    BY <2>1, FS_Interval
  <2>4. QED
    BY <1>1, <2>2, <2>3
<1> HIDE DEF f
<1>7. Cardinality(Known) < Cardinality(0..N)
  BY <1>1, <1>6 DEF N
<1>8. PICK x, y \in 0..N : x # y /\ f[x] = f[y]
  <2>1. /\ IsFiniteSet(0..N) /\ IsFiniteSet(Known)
        /\ Cardinality(Known) < Cardinality(0..N) /\ f \in [0..N -> Known]
    BY <1>5, <1>6, <1>7
  <2>2. QED
    BY <2>1, FS_PigeonHole, Zenon
<1>9. PICK i, j \in 0..N : i < j /\ c[i] = c[j]
  BY <1>1, <1>5, <1>8
<1>10. j - i \in Nat /\ i + (j - i) = j /\ j =< levels /\ j - i \in 1..N /\ i \in 0..levels
  BY <1>1, <1>2, <1>9
<1>11. c[i + (j - i)] \in Above(c[i], j - i)
  BY <1>2, <1>3, <1>10, FurtherUpTheLine
<1>12. c[i] \in Above(c[i], j - i) /\ c[i] \in Known
  BY <1>4, <1>9, <1>10, <1>11
<1>13. QED
  BY <1>10, <1>12 DEF N
-----------------------------------------------------------------------------
\* The pictures above the family of q, one for each place below it; those
\* above a row; and who stands in the row before it.
Family(q) ==
    LET n == Len(Children(q)) IN
        CASE n = 0 -> <<"none">>
          [] n = 1 -> <<"hone">>
          [] OTHER -> <<"hleft">> \o [i \in 1..(n - 2) |-> "hbranch"] \o <<"hright">>
Picture(q, parent) == IF q = unknown_female THEN "none" ELSE Branch(q, parent)
Pictures(p, rows, k) ==
    [i \in DOMAIN rows[k] |->
        IF rows[k][i] = unknown_female THEN "none"
        ELSE Branch(rows[k][i], ThisParent(p, rows, k, rows[k][i]))]
UpperRow(p, rows, k) == IF k = 1 THEN <<p>> ELSE rows[k - 1]
OneParent(rows) ==
    \A k \in 2..DLevels(rows) : \A q \in KnownIn(rows[k]) :
        Cardinality(Parents(q) \cap ToSet(rows[k - 1])) = 1

Image == {"none", "hone", "hleft", "hbranch", "hright"}

\* A line that opens, goes on and closes.
LEMMA FirstMiddleLast ==
    ASSUME NEW n \in Nat, n >= 2
    PROVE  /\ <<"hleft">> \o [i \in 1..(n - 2) |-> "hbranch"] \o <<"hright">> \in Seq(Image)
           /\ Len(<<"hleft">> \o [i \in 1..(n - 2) |-> "hbranch"] \o <<"hright">>) = n
           /\ \A i \in 1..n :
                 (<<"hleft">> \o [j \in 1..(n - 2) |-> "hbranch"] \o <<"hright">>)[i] =
                    IF i = 1 THEN "hleft" ELSE IF i = n THEN "hright" ELSE "hbranch"
<1> DEFINE first == <<"hleft">>
           middle == [i \in 1..(n - 2) |-> "hbranch"]
           last == <<"hright">>
           start == Join(first, middle)
           line == Join(start, last)
<1>1. /\ first \in Seq(Image) /\ Len(first) = 1 /\ first[1] = "hleft"
      /\ last \in Seq(Image) /\ Len(last) = 1 /\ last[1] = "hright"
  BY DEF Image
<1>2. /\ middle \in Seq(Image) /\ Len(middle) = n - 2 /\ n - 2 \in Nat
      /\ \A i \in 1..(n - 2) : middle[i] = "hbranch"
  <2>1. n - 2 \in Nat /\ "hbranch" \in Image
    BY DEF Image
  <2>2. middle \in [1..(n - 2) -> Image]
    BY <2>1
  <2>3. \A i \in 1..(n - 2) : middle[i] = "hbranch"
    OBVIOUS
  <2> HIDE DEF middle
  <2>4. middle \in Seq(Image) /\ Len(middle) = n - 2
    BY <2>1, <2>2
  <2>5. QED
    BY <2>1, <2>3, <2>4
<1> HIDE DEF first, middle, last
<1>3. /\ start \in Seq(Image) /\ Len(start) = Len(first) + Len(middle)
      /\ \A i \in 1..(Len(first) + Len(middle)) :
            start[i] = IF i =< Len(first) THEN first[i] ELSE middle[i - Len(first)]
  BY <1>1, <1>2, JoinAt, Zenon
<1> HIDE DEF start
<1>4. /\ line \in Seq(Image) /\ Len(line) = Len(start) + Len(last)
      /\ \A i \in 1..(Len(start) + Len(last)) :
            line[i] = IF i =< Len(start) THEN start[i] ELSE last[i - Len(start)]
  <2>1. start \in Seq(Image) /\ last \in Seq(Image)
    BY <1>1, <1>3
  <2>2. QED
    BY <2>1, JoinAt, Zenon
<1> HIDE DEF line
<1>5. Len(line) = n /\ Len(start) = n - 1
  BY <1>1, <1>2, <1>3, <1>4
<1>6. ASSUME NEW i \in 1..n
      PROVE  line[i] = IF i = 1 THEN "hleft" ELSE IF i = n THEN "hright" ELSE "hbranch"
  <2>1. line[i] = IF i =< n - 1 THEN start[i] ELSE last[i - (n - 1)]
    BY <1>1, <1>4, <1>5
  <2>2. CASE i = 1
    <3>1. start[1] = first[1] /\ i =< n - 1
      <4>1. 1 \in 1..(Len(first) + Len(middle)) /\ 1 =< Len(first)
        BY <1>1, <1>2
      <4>2. QED
        BY <1>3, <2>2, <4>1
    <3>2. QED
      BY <1>1, <2>1, <2>2, <3>1
  <2>3. CASE i = n
    <3>1. ~(i =< n - 1) /\ i - (n - 1) = 1 /\ i # 1
      BY <2>3
    <3>2. QED
      BY <1>1, <2>1, <2>3, <3>1
  <2>4. CASE i # 1 /\ i # n
    <3>1. i =< n - 1 /\ i - 1 \in 1..(n - 2) /\ ~(i =< 1) /\ i \in 1..(1 + (n - 2))
      BY <2>4
    <3>2. start[i] = middle[i - 1]
      BY <1>1, <1>2, <1>3, <3>1
    <3>3. QED
      BY <1>2, <2>1, <2>4, <3>1, <3>2
  <2>5. QED
    BY <2>2, <2>3, <2>4
<1>7. line = <<"hleft">> \o [i \in 1..(n - 2) |-> "hbranch"] \o <<"hright">>
  BY DEF line, start, first, middle, last, Join
<1>8. QED
  BY <1>4, <1>5, <1>6, <1>7

\* Each of several children has the picture of its place.
LEMMA PicturesOfFamily ==
    ASSUME Orderly, NEW q \in Drawable, NEW t \in Maps(Drawable, Image),
           \A y \in ToSet(Lower[q]) : t[y] = Picture(y, q)
    PROVE  Mapped(t, Lower[q]) = Family(q)
<1> DEFINE s == Children(q)
           n == Len(Children(q))
<1>1. /\ IInv
      /\ Lower \in Maps(Drawable, Seq(Drawable)) /\ Lower[q] = Under(q)
      /\ unknown_female \notin Known
      /\ unknown_female \in Drawable
      /\ Known \subseteq Drawable
  BY Families DEF Orderly, Lower, Drawable, Unknown
<1>2. CASE s = <<>>
  <2>1. Lower[q] = <<unknown_female>> /\ Family(q) = <<"none">>
    BY <1>1, <1>2 DEF Under, Family
  <2>2. ToSet(<<unknown_female>>) = {unknown_female}
    BY DEF ToSet
  <2>3. t[unknown_female] = "none"
    BY <2>1, <2>2 DEF Picture
  <2>4. Mapped(t, <<unknown_female>>) = <<"none">>
    BY <2>3 DEF Mapped
  <2>5. QED
    BY <2>1, <2>4
<1>3. CASE s # <<>>
  <2>1. q \in Known
    BY <1>1, <1>3, Families DEF Drawable
  <2>2. Lower[q] = s /\ s = people[q].children /\ s \in Seq(Known)
    BY <1>1, <1>3, <2>1, Families DEF Under
  <2>3. \A i, j \in DOMAIN s : s[i] = s[j] => i = j
    BY <2>1, <2>2, NoChildTwice
  <2> HIDE DEF s
  <2>4. /\ n \in Nat /\ n # 0 /\ DOMAIN s = 1..n /\ n = Len(s)
        /\ \A i \in 1..n : s[i] \in Known /\ s[i] \in ToSet(s)
    BY <1>3, <2>2 DEF s, ToSet
  <2> HIDE DEF n
  <2>5. Head(s) = s[1] /\ Last(s) = s[n]
    BY <1>3, <2>2, <2>4 DEF Last
  <2>6. 1 \in 1..n /\ n \in 1..n
    BY <2>4
  <2>7. ASSUME NEW i \in 1..n
        PROVE  t[s[i]] = IF n = 1 THEN "hone"
                         ELSE IF i = 1 THEN "hleft" ELSE IF i = n THEN "hright" ELSE "hbranch"
    <3>1. t[s[i]] = Branch(s[i], q) /\ s[i] # unknown_female
      BY <1>1, <2>2, <2>4 DEF Picture
    <3>2. (s[i] = Head(s) <=> i = 1) /\ (s[i] = Last(s) <=> i = n)
      BY <2>3, <2>4, <2>5, <2>6
    <3>3. Branch(s[i], q) =
            CASE n = 1 -> "hone"
              [] n # 1 /\ s[i] = Head(s) -> "hleft"
              [] n # 1 /\ s[i] # Head(s) /\ s[i] = Last(s) -> "hright"
              [] OTHER -> "hbranch"
      BY <3>1 DEF Branch, s, n
    <3>4. QED
      BY <3>1, <3>2, <3>3
  <2>8. Mapped(t, s) = [i \in 1..n |-> t[s[i]]]
    BY <2>4 DEF Mapped
  <2>9. CASE n = 1
    <3>1. Family(q) = <<"hone">>
      BY <2>9 DEF Family, n
    <3>2. Mapped(t, s) = [i \in 1..1 |-> "hone"]
      BY <2>7, <2>8, <2>9
    <3>3. QED
      BY <2>2, <3>1, <3>2
  <2>10. CASE n # 1
    <3> DEFINE line == <<"hleft">> \o [i \in 1..(n - 2) |-> "hbranch"] \o <<"hright">>
    <3>1. Family(q) = line
      BY <2>4, <2>10 DEF Family, n
    <3>2. /\ line \in Seq(Image) /\ Len(line) = n
          /\ \A i \in 1..n : line[i] = IF i = 1 THEN "hleft"
                                       ELSE IF i = n THEN "hright" ELSE "hbranch"
      <4>1. n >= 2
        BY <2>4, <2>10
      <4>2. QED
        BY <2>4, <4>1, FirstMiddleLast
    <3> HIDE DEF line
    <3>3. line = [i \in 1..n |-> line[i]]
      BY <3>2
    <3>4. \A i \in 1..n : line[i] = t[s[i]]
      BY <2>7, <2>10, <3>2
    <3>5. QED
      BY <2>2, <2>8, <3>1, <3>3, <3>4
  <2>11. QED
    BY <2>9, <2>10
<1>4. QED
  BY <1>2, <1>3

\* Everybody in a row is counted among the children of the one above, when
\* nobody has both parents there.
LEMMA ThisParentIsAbove ==
    ASSUME Orderly, NEW p \in Known, NEW req \in Nat,
           OneParent(fillDTree(p, req)),
           NEW k \in 1..DLevels(fillDTree(p, req)),
           NEW x \in ToSet(UpperRow(p, fillDTree(p, req), k)),
           NEW y \in ToSet(Lower[x]), y # unknown_female,
           y \in ToSet(fillDTree(p, req)[k])
    PROVE  ThisParent(p, fillDTree(p, req), k, y) = x
<1> DEFINE rows == fillDTree(p, req)
           above == ToSet(rows[k - 1])
<1>1. /\ IInv /\ ParentsListTheirChildren /\ ChildListedOncePerRole
      /\ NoIdTwice /\ NoSexConflict
  BY DEF Orderly
<1>2. DLevels(rows) \in 0..req
  BY <1>1, DLevelsCount
<1>3. CASE k = 1
  <2>1. UpperRow(p, rows, k) = <<p>> /\ ToSet(<<p>>) = {p}
    BY <1>3 DEF UpperRow, ToSet
  <2>2. QED
    BY <1>3, <2>1 DEF ThisParent
<1>4. CASE k # 1
  <2>1. k \in 2..req /\ k - 1 \in 1..req /\ k \in 2..DLevels(rows) /\ k \in 1..req
    BY <1>2, <1>4
  <2>2. x \in above
    BY <1>4 DEF UpperRow
  <2>3. above \subseteq Drawable
    <3>1. rows[k - 1] \in Seq(Drawable)
      BY <1>1, <2>1, RowsHoldGenerations
    <3> HIDE DEF rows
    <3>2. QED
      BY <3>1 DEF ToSet
  <2>4. NIL \notin above
    BY <1>1, <2>3, Families
  <2>5. y \in Known
    <3>1. rows[k] \in Seq(Drawable)
      BY <1>1, <2>1, RowsHoldGenerations
    <3>2. y \in Drawable
      BY <3>1 DEF ToSet
    <3>3. ASSUME y \in Unknown
          PROVE  FALSE
      <4>1. Lower[x] = Under(x)
        BY <2>2, <2>3 DEF Lower
      <4>2. CASE Children(x) = <<>>
        <5>1. ToSet(<<unknown_female>>) = {unknown_female}
          BY DEF ToSet
        <5>2. QED
          BY <4>1, <4>2, <5>1 DEF Under
      <4>3. CASE Children(x) # <<>>
        <5>1. x \in Known
          BY <1>1, <2>2, <2>3, <4>3, Families DEF Drawable
        <5>2. Lower[x] = Children(x) /\ Children(x) \in Seq(Known)
          BY <1>1, <4>1, <4>3, <5>1, Families DEF Under
        <5>3. y \in Known
          BY <5>2 DEF ToSet
        <5>4. QED
          BY <1>1, <3>3, <5>3, Families
      <4>4. QED
        BY <4>2, <4>3
    <3>4. QED
      BY <3>2, <3>3 DEF Drawable
  <2>6. x \in Known
    <3>1. x \in Unknown => ToSet(Lower[x]) \cap Known = {}
      BY <1>1, Families
    <3>2. QED
      BY <2>2, <2>3, <2>5, <3>1 DEF Drawable
  <2>7. y \in ToSet(people[x].children)
    <3>1. ToSet(Lower[x]) \cap Known = ToSet(Children(x)) /\ Children(x) = people[x].children
      BY <1>1, <2>6, Families
    <3>2. QED
      BY <2>5, <3>1
  <2>8. ToSet(people[x].children) = {c \in Known : x \in Parents(c)}
    BY <1>1, <2>6, ChildrenAreOfTheirParents
  <2>9. x \in Parents(y) \cap above
    BY <2>2, <2>7, <2>8
  <2>10. Parents(y) = {Father(y), Mother(y)} \ {NIL}
    BY <1>1, <2>5, ParentsAreKnown
  <2>11. y \in KnownIn(rows[k])
    BY <1>1, <2>5, Families DEF KnownIn
  <2>12. Cardinality(Parents(y) \cap above) = 1
    BY <2>1, <2>11 DEF OneParent
  <2>13. IsFiniteSet(Parents(y) \cap above)
    <3>1. IsFiniteSet({Father(y)} \cup {Mother(y)})
      BY FS_Singleton, FS_AddElement
    <3>2. Parents(y) \cap above \in SUBSET ({Father(y)} \cup {Mother(y)})
      BY <2>10
    <3>3. QED
      BY <3>1, <3>2, FS_Subset
  <2>14. \E z : Parents(y) \cap above = {z}
    BY <2>12, <2>13, FS_Singleton
  <2>15. Parents(y) \cap above = {x}
    BY <2>9, <2>14
  <2>16. ThisParent(p, rows, k, y) = IF Father(y) \in above THEN Father(y)
                                     ELSE IF Mother(y) \in above THEN Mother(y) ELSE NIL
    BY <1>4 DEF ThisParent
  <2> HIDE DEF above, rows
  <2>17. ThisParent(p, rows, k, y) = x
    BY <2>4, <2>10, <2>15, <2>16
  <2>18. QED
    BY <2>17 DEF rows
<1>5. QED
  BY <1>3, <1>4

LEMMA RowOfTheRowAbove ==
    ASSUME IInv, NEW p \in Known, NEW req \in Nat, NEW k \in 1..req
    PROVE  /\ UpperRow(p, fillDTree(p, req), k) \in Seq(Drawable)
           /\ fillDTree(p, req)[k] = Flat(Lower, UpperRow(p, fillDTree(p, req), k))
<1>1. /\ p \in Drawable
      /\ Lower \in Maps(Drawable, Seq(Drawable))
  BY Families DEF Drawable
<1>2. PICK g : Generations(g, Drawable, Lower)
  BY <1>1, GenerationsExist
<1> DEFINE rows == fillDTree(p, req)
           j == k - 1
<1>3. rows = [i \in 1..req |-> g[i][p]]
  BY <1>1, <1>2, DTreeRows
<1>4. j \in Nat /\ j + 1 = k /\ k \in Nat
  OBVIOUS
<1> HIDE DEF rows
<1>5. UpperRow(p, rows, k) = g[j][p]
  <2>1. CASE k = 1
    <3>1. g[0][p] = <<p>> /\ j = 0
      BY <1>1, <1>2, <2>1 DEF Generations
    <3>2. QED
      BY <2>1, <3>1 DEF UpperRow
  <2>2. CASE k # 1
    <3>1. j \in 1..req
      BY <2>2
    <3>2. rows[j] = g[j][p]
      BY <1>3, <3>1
    <3>3. QED
      BY <2>2, <3>2 DEF UpperRow
  <2>3. QED
    BY <2>1, <2>2
<1>6. rows[k] = g[k][p]
  BY <1>3
<1> HIDE DEF j
<1>7. g[j][p] \in Seq(Drawable) /\ g[j + 1][p] = Flat(Lower, g[j][p])
  BY <1>1, <1>2, <1>4, NextGeneration
<1>8. QED
  BY <1>4, <1>5, <1>6, <1>7 DEF rows

LEMMA BranchIsImage == \A q, parent : Picture(q, parent) \in Image
BY DEF Picture, Branch, Image

LEMMA BranchesJoin == (NoIdTwice /\ NoSexConflict => Orderly) => BranchesJoinTheFamilies
<1>1. ASSUME Orderly, NEW p \in Known, NEW req \in Levels,
             OneParent(fillDTree(p, req)), NEW k \in 1..DLevels(fillDTree(p, req))
      PROVE  Pictures(p, fillDTree(p, req), k)
             = FlattenSeq([i \in DOMAIN UpperRow(p, fillDTree(p, req), k) |->
                              Family(UpperRow(p, fillDTree(p, req), k)[i])])
  <2> DEFINE rows == fillDTree(p, req)
             s == UpperRow(p, rows, k)
             t == [y \in Drawable |-> Picture(y, ThisParent(p, rows, k, y))]
             h == [x \in Drawable |-> Mapped(t, Lower[x])]
             f == [x \in Drawable |-> Family(x)]
  <2>1. IInv /\ req \in Nat
    BY <1>1, LevelsAssumption DEF Orderly
  <2>2. k \in 1..req
    <3>1. DLevels(rows) \in 0..req
      BY <2>1, DLevelsCount
    <3> HIDE DEF rows
    <3>2. k \in 1..DLevels(rows)
      BY DEF rows
    <3>3. QED
      BY <2>1, <3>1, <3>2
  <2>3. s \in Seq(Drawable) /\ rows[k] = Flat(Lower, s)
    BY <2>1, <2>2, RowOfTheRowAbove
  <2>4. Lower \in Maps(Drawable, Seq(Drawable))
    BY <2>1, Families
  <2>5. ASSUME NEW x \in ToSet(s), NEW y \in ToSet(Lower[x])
        PROVE  y \in ToSet(rows[k]) /\ x \in Drawable /\ y \in Drawable
    <3>1. ToSet(rows[k]) = UNION {ToSet(Lower[z]) : z \in ToSet(s)}
      <4>1. ToSet(Flat(Lower, s)) = UNION {ToSet(Lower[z]) : z \in ToSet(s)}
        BY <2>3, <2>4, MembersOfFlat
      <4>2. QED
        BY <2>3, <4>1
    <3> HIDE DEF s, rows
    <3>2. x \in Drawable
      BY <2>3 DEF ToSet
    <3>3. Lower[x] \in Seq(Drawable)
      BY <2>4, <3>2 DEF Maps
    <3>4. y \in Drawable
      BY <3>3 DEF ToSet
    <3>5. y \in ToSet(rows[k])
      BY <3>1
    <3>6. QED
      BY <3>2, <3>4, <3>5
  <2>6. t \in Maps(Drawable, Image)
    BY BranchIsImage DEF Maps
  <2>7. ASSUME NEW x \in ToSet(s), NEW y \in ToSet(Lower[x])
        PROVE  t[y] = Picture(y, x)
    <3>1. t[y] = Picture(y, ThisParent(p, rows, k, y))
      BY <2>5
    <3>2. CASE y = unknown_female
      BY <3>1, <3>2 DEF Picture
    <3>3. CASE y # unknown_female
      <4>1. y \in ToSet(rows[k])
        BY <2>5
      <4>2. ThisParent(p, rows, k, y) = x
        BY <1>1, <2>1, <3>3, <4>1, ThisParentIsAbove
      <4>3. QED
        BY <3>1, <4>2
    <3>4. QED
      BY <3>2, <3>3
  <2>8. \A x \in Drawable : h[x] = Mapped(t, Lower[x]) /\ f[x] = Family(x)
    OBVIOUS
  <2>9. h \in Maps(Drawable, Seq(Image))
    <3>1. ASSUME NEW x \in Drawable
          PROVE  Mapped(t, Lower[x]) \in Seq(Image)
      <4>1. Lower[x] \in Seq(Drawable)
        BY <2>4 DEF Maps
      <4> HIDE DEF t
      <4>2. QED
        BY <2>6, <4>1, MappedType
    <3> HIDE DEF t
    <3>2. QED
      BY <3>1 DEF Maps
  <2>10. Pictures(p, rows, k) = Mapped(t, rows[k])
    <3>1. rows[k] \in Seq(Drawable)
      BY <2>1, <2>2, RowsHoldGenerations
    <3> DEFINE row == rows[k]
    <3>2. \A i \in DOMAIN row : row[i] \in Drawable
      <4> HIDE DEF row
      <4>1. row \in Seq(Drawable)
        BY <3>1 DEF row
      <4>2. QED
        BY <4>1
    <3>3. \A i \in DOMAIN row : t[row[i]] = Picture(row[i], ThisParent(p, rows, k, row[i]))
      <4> HIDE DEF rows, row
      <4>1. QED
        BY <3>2
    <3>4. Pictures(p, rows, k) =
            [i \in DOMAIN row |-> Picture(row[i], ThisParent(p, rows, k, row[i]))]
      BY DEF Pictures, Picture
    <3> HIDE DEF rows, row, t
    <3>5. Pictures(p, rows, k) = Mapped(t, row)
      BY <3>3, <3>4 DEF Mapped
    <3>6. QED
      BY <3>5 DEF row
  <2>11. \A x \in ToSet(s) : h[x] = f[x]
    <3>1. ASSUME NEW x \in ToSet(s)
          PROVE  h[x] = f[x]
      <4>1. x \in Drawable
        <5> HIDE DEF s
        <5>1. QED
          BY <2>3 DEF ToSet
      <4>2. \A y \in ToSet(Lower[x]) : t[y] = Picture(y, x)
        BY <2>7
      <4> HIDE DEF t, h, f
      <4>3. Mapped(t, Lower[x]) = Family(x)
        BY <1>1, <2>6, <4>1, <4>2, PicturesOfFamily
      <4>4. QED
        BY <2>8, <4>1, <4>3
    <3>2. QED
      BY <3>1
  <2>12. Flat(f, s) = FlattenSeq([i \in DOMAIN s |-> Family(s[i])])
    <3>1. \A i \in DOMAIN s : s[i] \in Drawable
      <4> HIDE DEF s
      <4>1. QED
        BY <2>3
    <3>2. \A i \in DOMAIN s : f[s[i]] = Family(s[i])
      <4> HIDE DEF f, s
      <4>1. QED
        BY <2>8, <3>1
    <3> HIDE DEF f, s
    <3>3. Mapped(f, s) = [i \in DOMAIN s |-> Family(s[i])]
      BY <3>2 DEF Mapped
    <3>4. QED
      BY <3>3 DEF Flat
  <2> HIDE DEF t, h, f, rows, s
  <2>13. Mapped(t, Flat(Lower, s)) = Flat(h, s)
    <3>1. \A x \in Drawable : h[x] = Mapped(t, Lower[x])
      BY <2>8
    <3>2. QED
      BY <2>3, <2>4, <2>6, <2>9, <3>1, MappedOfFlat
  <2>14. Flat(h, s) = Flat(f, s)
    BY <2>3, <2>11, MappedAlike
  <2>15. Pictures(p, rows, k) = FlattenSeq([i \in DOMAIN s |-> Family(s[i])])
    BY <2>3, <2>10, <2>12, <2>13, <2>14
  <2>16. QED
    BY <2>15 DEF rows, s
<1>2. QED
  BY <1>1 DEF BranchesJoinTheFamilies, Pictures, Family, UpperRow, OneParent
-----------------------------------------------------------------------------
\* The three recursions of the tree page agree: the rows that are measured and
\* counted hold exactly the known of each generation, and end with the family.
THEOREM EveryoneInReachIsAlwaysDrawn == Spec => []EveryoneInReachIsDrawn
BY EveryoneIsDrawn, Invariance, PTL

\* A page that offers no further level has nobody further up or down.
THEOREM NothingIsEverHiddenWithoutZoom == Spec => []NothingIsHiddenWithoutZoom
BY NothingIsHidden, Invariance, PTL

\* The rows of buildDestroyAGrid and buildDGrid are as wide as the grid.
THEOREM RowsAlwaysFillTheGrid == Spec => []RowsFillTheGrid
BY RowsFill, Invariance, PTL

\* The row of buildPGrid has the target in the middle and fits the grid.
THEOREM PeersAlwaysFitTheGrid == Spec => []PeersFitTheGrid
BY PeersFit, StoresAreOrderly, PTL

\* getDGridLineG finds a parent in the row above for everybody whose rows
\* agree on the parents, in every file.
THEOREM LinesAlwaysFindTheirParent == Spec => []LinesFindTheirParent
BY LinesFind, Invariance, HistoryIsKept, PTL

\* The pictures above a row open and close with the children of each of the
\* row before, when everybody has one parent there.
THEOREM BranchesAlwaysJoinTheFamilies == Spec => []BranchesJoinTheFamilies
BY BranchesJoin, StoresAreOrderly, PTL

\* The levels of ancestors are fewer than the people, so that the grid is
\* bounded by the file, when nobody is their own ancestor.
THEOREM GridAlwaysEndsWithTheFamily == Spec => []GridEndsWithTheFamily
BY GridEnds, Invariance, StoresAreFinite, PTL
=============================================================================
