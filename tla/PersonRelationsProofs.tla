----------------------- MODULE PersonRelationsProofs -----------------------
(***************************************************************************)
(* How often a child is listed, who is whose spouse and sibling, who links *)
(* whom, and which pages die, for every file.                              *)
(*                                                                         *)
(* What a filter returns is told by induction on the set of lengths up to  *)
(* which it holds, on the recursive function that the filter is (Keeps).   *)
(***************************************************************************)
EXTENDS PersonRelations, FamilyTreeHistoryProofs, FiniteSetTheorems,
        WellFoundedInduction

\* A set of numbers that is not empty has a least one.  The induction theorems
\* of the library take a predicate; this one takes a set, and so do the
\* inductions below.
LEMMA LeastNumber ==
    ASSUME NEW S, S \subseteq Nat, S # {}
    PROVE \E n \in S : \A m \in S : n =< m
<1> DEFINE R == {s \in Nat \X Nat : s[1] < s[2]}
<1>1. OpToRel(<, Nat) = R
  BY DEF OpToRel
<1>2. IsWellFoundedOn(R, Nat)
  BY <1>1, NatLessThanWellFounded
<1> HIDE DEF R
<1>3. PICK n \in S : \A m \in S : <<m, n>> \notin R
  BY <1>2, WFMin
<1>4. \A m \in S : ~(m < n)
  BY <1>3 DEF R
<1>5. QED
  BY <1>4

\* What holds of 0 and is passed on below N holds up to N.
LEMMA Induction ==
    ASSUME NEW N \in Nat, NEW S, 0 \in S,
           \A n \in 0..(N - 1) : n \in S => n + 1 \in S
    PROVE  \A n \in 0..N : n \in S
<1> SUFFICES ASSUME {n \in 0..N : n \notin S} # {}
             PROVE  FALSE
  OBVIOUS
<1>1. PICK m \in {n \in 0..N : n \notin S} : \A k \in {n \in 0..N : n \notin S} : m =< k
  <2>1. {n \in 0..N : n \notin S} \subseteq Nat
    OBVIOUS
  <2>2. QED
    BY <2>1, LeastNumber
<1>2. m # 0 /\ m - 1 \in 0..(N - 1)
  BY <1>1
<1>3. m - 1 \in S
  BY <1>1, <1>2
<1>4. QED
  BY <1>1, <1>2, <1>3

\* k holds, for every n, those of the first n elements of s.
Keeps(k, s, S, N) ==
    k = [n \in 0..N |-> IF n = 0 THEN <<>>
                        ELSE IF s[n] \in S THEN Append(k[n - 1], s[n]) ELSE k[n - 1]]

\* The recursion in Those has a solution, made one element at a time.
LEMMA KeepsExists ==
    ASSUME NEW s, NEW S, NEW N \in Nat
    PROVE  \E k : Keeps(k, s, S, N)
<1> DEFINE T == {n \in Nat : \E k : Keeps(k, s, S, n)}
<1>1. 0 \in T
  <2>1. Keeps([n \in 0..0 |-> <<>>], s, S, 0)
    BY DEF Keeps
  <2>2. QED
    BY <2>1
<1>2. ASSUME NEW n \in Nat, n \in T
      PROVE  n + 1 \in T
  <2>1. PICK k : Keeps(k, s, S, n)
    BY <1>2
  <2> DEFINE last == IF s[n + 1] \in S THEN Append(k[n], s[n + 1]) ELSE k[n]
             j == [i \in 0..(n + 1) |-> IF i = n + 1 THEN last ELSE k[i]]
  <2>2. ASSUME NEW i \in 0..(n + 1)
        PROVE  j[i] = IF i = 0 THEN <<>>
                      ELSE IF s[i] \in S THEN Append(j[i - 1], s[i]) ELSE j[i - 1]
    <3>1. CASE i = n + 1
      <4>1. j[n + 1] = last /\ j[n] = k[n] /\ n + 1 # 0 /\ (n + 1) - 1 = n
        OBVIOUS
      <4> HIDE DEF j
      <4>2. QED
        BY <3>1, <4>1
    <3>2. CASE i \in 1..n
      <4>1. j[i] = k[i] /\ j[i - 1] = k[i - 1] /\ i # 0 /\ i \in 0..n
        BY <3>2
      <4> HIDE DEF j
      <4>2. QED
        BY <2>1, <4>1 DEF Keeps
    <3>3. CASE i = 0
      <4>1. j[0] = k[0] /\ 0 \in 0..n
        OBVIOUS
      <4> HIDE DEF j
      <4>2. QED
        BY <2>1, <3>3, <4>1 DEF Keeps
    <3>4. QED
      BY <3>1, <3>2, <3>3
  <2>3. Keeps(j, s, S, n + 1)
    <3>1. j = [i \in 0..(n + 1) |-> j[i]]
      OBVIOUS
    <3> HIDE DEF j
    <3>2. QED
      BY <2>2, <3>1 DEF Keeps
  <2>4. QED
    BY <2>3
<1>3. N \in T
  <2> HIDE DEF T
  <2>1. QED
    BY <1>1, <1>2, Induction
<1>4. QED
  BY <1>3

\* Those is what is kept in the end.
LEMMA ThoseAreKept ==
    ASSUME NEW s, NEW S, Len(s) \in Nat
    PROVE  \E k : Keeps(k, s, S, Len(s)) /\ Those(s, S) = k[Len(s)]
<1> DEFINE k == CHOOSE k : Keeps(k, s, S, Len(s))
<1>1. Keeps(k, s, S, Len(s))
  BY KeepsExists
<1>2. Those(s, S) = k[Len(s)]
  BY DEF Those, Keeps
<1>3. QED
  BY <1>1, <1>2

\* What is kept of one more element.
LEMMA KeepsEach ==
    ASSUME NEW k, NEW s, NEW S, NEW N \in Nat, Keeps(k, s, S, N)
    PROVE  /\ k[0] = <<>>
           /\ \A n \in 1..N : k[n] = IF s[n] \in S THEN Append(k[n - 1], s[n])
                                     ELSE k[n - 1]
<1>1. ASSUME NEW n \in 0..N
      PROVE  k[n] = IF n = 0 THEN <<>>
                    ELSE IF s[n] \in S THEN Append(k[n - 1], s[n]) ELSE k[n - 1]
  BY DEF Keeps
<1>2. 0 \in 0..N /\ \A n \in 1..N : n \in 0..N /\ n # 0
  OBVIOUS
<1>3. QED
  BY <1>1, <1>2

\* t has exactly those of the first n elements of s that are in S.
AreThose(t, s, S, n) ==
    \A x : (\E i \in 1..Len(t) : t[i] = x) <=> x \in S /\ \E i \in 1..n : s[i] = x

\* It is a sequence of exactly the elements that are in S.
LEMMA KeptMembers ==
    ASSUME NEW T, NEW s \in Seq(T), NEW S, NEW k, Keeps(k, s, S, Len(s))
    PROVE  \A n \in 0..Len(s) :
              k[n] \in Seq(T) /\ AreThose(k[n], s, S, n)
<1> DEFINE P == {n \in 0..Len(s) : k[n] \in Seq(T) /\ AreThose(k[n], s, S, n)}
<1>1. Len(s) \in Nat /\ \A i \in 1..Len(s) : s[i] \in T
  OBVIOUS
<1>2. 0 \in P
  <2>1. k[0] = <<>>
    BY <1>1, KeepsEach
  <2>2. /\ <<>> \in Seq(T)
        /\ Len(<<>>) = 0
        /\ 1..0 = {}
        /\ 0 \in 0..Len(s)
    BY <1>1
  <2>3. AreThose(k[0], s, S, 0)
    BY <2>1, <2>2 DEF AreThose
  <2>4. QED
    BY <2>1, <2>2, <2>3
<1>3. ASSUME NEW n \in 0..(Len(s) - 1), n \in P
      PROVE  n + 1 \in P
  <2>1. n + 1 \in 1..Len(s) /\ (n + 1) - 1 = n
    BY <1>1
  <2>2. k[n + 1] = IF s[n + 1] \in S THEN Append(k[n], s[n + 1]) ELSE k[n]
    BY <1>1, <2>1, KeepsEach
  <2>3. k[n] \in Seq(T) /\ AreThose(k[n], s, S, n)
    BY <1>3
  <2>4. s[n + 1] \in T /\ 1..(n + 1) = (1..n) \cup {n + 1}
    BY <1>1, <2>1
  <2>5. k[n + 1] \in Seq(T)
    BY <2>2, <2>3, <2>4
  <2>6. CASE s[n + 1] \in S
    <3> DEFINE a == Append(k[n], s[n + 1])
               l == Len(k[n])
    <3>1. /\ l \in Nat
          /\ 1..Len(a) = (1..l) \cup {l + 1}
          /\ \A i \in 1..l : a[i] = k[n][i]
          /\ a[l + 1] = s[n + 1]
      BY <2>3, <2>4
    <3>2. k[n + 1] = a
      BY <2>2, <2>6
    <3> HIDE DEF a
    <3>3. ASSUME NEW x
          PROVE  (\E i \in 1..Len(a) : a[i] = x)
                 <=> x = s[n + 1] \/ (\E i \in 1..l : k[n][i] = x)
      BY <3>1
    <3>4. ASSUME NEW x
          PROVE  (\E i \in 1..(n + 1) : s[i] = x)
                 <=> x = s[n + 1] \/ (\E i \in 1..n : s[i] = x)
      BY <2>4
    <3>5. AreThose(k[n + 1], s, S, n + 1)
      BY <2>3, <2>6, <3>2, <3>3, <3>4 DEF AreThose
    <3>6. QED
      BY <2>1, <2>5, <3>5
  <2>7. CASE s[n + 1] \notin S
    <3>1. k[n + 1] = k[n]
      BY <2>2, <2>7
    <3>2. ASSUME NEW x \in S
          PROVE  (\E i \in 1..(n + 1) : s[i] = x) <=> (\E i \in 1..n : s[i] = x)
      BY <2>4, <2>7
    <3>3. AreThose(k[n + 1], s, S, n + 1)
      BY <2>3, <3>1, <3>2 DEF AreThose
    <3>4. QED
      BY <2>1, <2>5, <3>3
  <2>8. QED
    BY <2>6, <2>7
<1>4. \A n \in 0..Len(s) : n \in P
  <2> HIDE DEF P
  <2>1. QED
    BY <1>1, <1>2, <1>3, Induction
<1>5. QED
  BY <1>4

\* The elements of a sequence that are in S, and only those.
LEMMA ThoseMembers ==
    ASSUME NEW T, NEW s \in Seq(T), NEW S
    PROVE  /\ Those(s, S) \in Seq(T)
           /\ ToSet(Those(s, S)) = ToSet(s) \cap S
<1>1. Len(s) \in Nat /\ DOMAIN s = 1..Len(s) /\ Len(s) \in 0..Len(s)
  OBVIOUS
<1>2. PICK k : Keeps(k, s, S, Len(s)) /\ Those(s, S) = k[Len(s)]
  BY <1>1, ThoseAreKept
<1>3. k[Len(s)] \in Seq(T) /\ AreThose(k[Len(s)], s, S, Len(s))
  <2>1. \A n \in 0..Len(s) : k[n] \in Seq(T) /\ AreThose(k[n], s, S, n)
    BY <1>2, KeptMembers
  <2>2. QED
    BY <1>1, <2>1
<1> DEFINE t == Those(s, S)
<1>4. DOMAIN t = 1..Len(t) /\ t \in Seq(T)
  BY <1>2, <1>3
<1>5. \A x : (\E i \in DOMAIN t : t[i] = x) <=> x \in S /\ \E i \in DOMAIN s : s[i] = x
  BY <1>1, <1>2, <1>3, <1>4 DEF AreThose
<1> HIDE DEF t
<1>6. ToSet(t) = ToSet(s) \cap S
  BY <1>5 DEF ToSet
<1>7. QED
  BY <1>4, <1>6 DEF t

\* Nothing is kept of nothing.
LEMMA ThoseOfNothing == \A S : Those(<<>>, S) = <<>>
<1> SUFFICES ASSUME NEW S PROVE Those(<<>>, S) = <<>>
  OBVIOUS
<1>1. Len(<<>>) = 0 /\ 0 \in Nat
  OBVIOUS
<1>2. PICK k : Keeps(k, <<>>, S, 0) /\ Those(<<>>, S) = k[0]
  BY <1>1, ThoseAreKept
<1>3. QED
  BY <1>1, <1>2, KeepsEach
-----------------------------------------------------------------------------
\* Where a list of children has c, and how often a row makes p a parent.
Places(s, c) == {i \in DOMAIN s : s[i] = c}
One(holds) == IF holds THEN 1 ELSE 0
Mentions(row, p) == One(row.father_id = p) + One(row.mother_id = p)

\* A child without a row is listed nowhere, and one with one row as often as
\* the row names the parent.  That a child without a row is listed nowhere is
\* what makes the count right when its row comes.
Counted(t, l) ==
    /\ t \in Store
    /\ l \in Seq(Row)
    /\ \A p, c \in ID :
          LET copies == Cardinality(Places(Old(t, p).children, c))
          IN /\ Own(l, c) = {} => copies = 0
             /\ \A i \in 1..Len(l) : Own(l, c) = {i} => copies = Mentions(l[i], p)

CInv == Counted(people, log)

\* A list that grows by one has one more copy of what it grew by.
LEMMA CopiesGrow ==
    ASSUME NEW s \in Seq(ID), NEW e \in ID, NEW c
    PROVE  /\ IsFiniteSet(Places(s, c))
           /\ Cardinality(Places(s, c)) \in Nat
           /\ Cardinality(Places(Append(s, e), c)) = Cardinality(Places(s, c)) + One(e = c)
<1> DEFINE n == Len(s)
           a == Append(s, e)
<1>1. /\ n \in Nat
      /\ DOMAIN s = 1..n
      /\ DOMAIN a = (1..n) \cup {n + 1}
      /\ \A i \in 1..n : a[i] = s[i]
      /\ a[n + 1] = e
      /\ n + 1 \notin 1..n
  OBVIOUS
<1> HIDE DEF n, a
<1>2. IsFiniteSet(Places(s, c))
  <2>1. IsFiniteSet(1..n)
    BY <1>1, FS_Interval
  <2>2. Places(s, c) \in SUBSET (1..n)
    BY <1>1 DEF Places
  <2>3. QED
    BY <2>1, <2>2, FS_Subset
<1>3. Cardinality(Places(s, c)) \in Nat
  BY <1>2, FS_CardinalityType
<1>4. CASE e = c
  <2>1. Places(a, c) = Places(s, c) \cup {n + 1} /\ n + 1 \notin Places(s, c)
    BY <1>1, <1>4 DEF Places
  <2>2. Cardinality(Places(a, c)) = Cardinality(Places(s, c)) + 1
    BY <1>2, <2>1, FS_AddElement
  <2>3. QED
    BY <1>2, <1>3, <1>4, <2>2 DEF One, a
<1>5. CASE e # c
  <2>1. Places(a, c) = Places(s, c)
    BY <1>1, <1>5 DEF Places
  <2>2. QED
    BY <1>2, <1>3, <1>5, <2>1 DEF One, a
<1>6. QED
  BY <1>4, <1>5

\* A row lists its person once more for each of its parent columns with p.
LEMMA RowCopies ==
    ASSUME NEW t \in Store, NEW u, NEW row, row.id \in ID, RowStep(t, u, row),
           NEW p \in ID, NEW c \in ID
    PROVE  /\ Cardinality(Places(Old(t, p).children, c)) \in Nat
           /\ Cardinality(Places(Old(u, p).children, c)) =
                 Cardinality(Places(Old(t, p).children, c))
                 + (IF c = row.id THEN Mentions(row, p) ELSE 0)
<1> DEFINE old == Old(t, p).children
           once == IF p = row.father_id THEN Append(old, row.id) ELSE old
           new == Old(u, p).children
<1>1. old \in Seq(ID)
  BY OldType DEF Person
<1>2. new = IF p = row.mother_id THEN Append(once, row.id) ELSE once
  BY DEF RowStep
<1> HIDE DEF old, new
<1>3. Cardinality(Places(old, c)) \in Nat
  BY <1>1, CopiesGrow
<1>4. /\ once \in Seq(ID)
      /\ Cardinality(Places(once, c)) =
            Cardinality(Places(old, c)) + One(row.father_id = p /\ row.id = c)
  <2>1. CASE p = row.father_id
    BY <1>1, <2>1, CopiesGrow DEF One
  <2>2. CASE p # row.father_id
    BY <1>1, <1>3, <2>2 DEF One
  <2>3. QED
    BY <2>1, <2>2
<1> HIDE DEF once
<1>5. Cardinality(Places(new, c)) =
         Cardinality(Places(once, c)) + One(row.mother_id = p /\ row.id = c)
  <2>1. Cardinality(Places(once, c)) \in Nat
    BY <1>4, CopiesGrow
  <2>2. CASE p = row.mother_id
    BY <1>2, <1>4, <2>2, CopiesGrow DEF One
  <2>3. CASE p # row.mother_id
    BY <1>2, <2>1, <2>3 DEF One
  <2>4. QED
    BY <2>2, <2>3
<1>6. QED
  BY <1>3, <1>4, <1>5 DEF One, Mentions, old, new

\* Every row, stored or refused, keeps the count.
LEMMA RowKeepsCounted ==
    ASSUME NEW t, NEW l, Counted(t, l), NEW row \in Row, row.id \in ID
    PROVE  Counted(Stored(t, row), Append(l, row))
<1> DEFINE u == Stored(t, row)
           m == Append(l, row)
           n == Len(l)
<1>1. /\ t \in Store
      /\ l \in Seq(Row)
      /\ RowStep(t, u, row)
  BY StoredEffect DEF Counted
<1>2. /\ n \in Nat
      /\ m \in Seq(Row)
      /\ 1..Len(m) = (1..n) \cup {n + 1}
      /\ \A i \in 1..n : m[i] = l[i]
      /\ m[n + 1] = row
  BY <1>1, AppendLog
<1> HIDE DEF u
<1>3. ASSUME NEW p \in ID, NEW c \in ID
      PROVE  LET copies == Cardinality(Places(Old(u, p).children, c))
             IN /\ Own(m, c) = {} => copies = 0
                /\ \A i \in 1..Len(m) : Own(m, c) = {i} => copies = Mentions(m[i], p)
  <2> DEFINE before == Cardinality(Places(Old(t, p).children, c))
             after == Cardinality(Places(Old(u, p).children, c))
  <2>1. Own(m, c) = IF row.id = c THEN Own(l, c) \cup {n + 1} ELSE Own(l, c)
    BY <1>1, PlacesGrow
  <2>2. Own(l, c) \subseteq 1..n
    BY DEF Own
  <2>3. before \in Nat /\ after = before + (IF c = row.id THEN Mentions(row, p) ELSE 0)
    BY <1>1, RowCopies
  <2>4. /\ Own(l, c) = {} => before = 0
        /\ \A i \in 1..n : Own(l, c) = {i} => before = Mentions(l[i], p)
    BY DEF Counted
  <2>5. Mentions(row, p) \in Nat
    BY DEF Mentions, One
  <2> HIDE DEF m, n, before, after
  <2>6. /\ Own(m, c) = {} => after = 0
        /\ \A i \in 1..Len(m) : Own(m, c) = {i} => after = Mentions(m[i], p)
    <3>1. CASE c # row.id
      <4>1. Own(m, c) = Own(l, c) /\ after = before
        BY <2>1, <2>3, <3>1
      <4>2. ASSUME NEW i \in 1..Len(m), Own(m, c) = {i}
            PROVE  i \in 1..n
        BY <2>2, <4>1, <4>2
      <4>3. QED
        BY <1>2, <2>4, <4>1, <4>2
    <3>2. CASE c = row.id
      <4>1. n + 1 \in Own(m, c)
        BY <2>1, <3>2
      <4>2. ASSUME NEW i \in 1..Len(m), Own(m, c) = {i}
            PROVE  i = n + 1 /\ Own(l, c) = {}
        <5>1. i = n + 1
          BY <4>1, <4>2
        <5>2. n + 1 \notin 1..n
          BY <1>2
        <5>3. QED
          BY <2>1, <2>2, <3>2, <4>2, <5>1, <5>2
      <4>3. QED
        BY <1>2, <2>3, <2>4, <2>5, <3>2, <4>1, <4>2
    <3>3. QED
      BY <3>1, <3>2
  <2>7. QED
    BY <2>6 DEF after
<1> HIDE DEF m, n
<1>4. Counted(u, m)
  BY <1>1, <1>2, <1>3 DEF Counted, RowStep
<1>5. QED
  BY <1>4 DEF u, m

\* A refused row lists nobody, although it is read.
LEMMA RefusedRowKeepsCounted ==
    ASSUME NEW t, NEW l, Counted(t, l), NEW row \in Row, row.id \notin ID
    PROVE  Counted(t, Append(l, row))
<1> DEFINE m == Append(l, row)
<1>1. l \in Seq(Row) /\ m \in Seq(Row)
  BY AppendLog DEF Counted
<1>2. \A i \in 1..Len(l) : m[i] = l[i]
  BY <1>1, AppendLog
<1>3. \A c \in ID : Own(m, c) = Own(l, c) /\ Own(l, c) \subseteq 1..Len(l)
  BY <1>1, PlacesGrow DEF Own
<1> HIDE DEF m
<1>4. ASSUME NEW p \in ID, NEW c \in ID
      PROVE  LET copies == Cardinality(Places(Old(t, p).children, c))
             IN /\ Own(m, c) = {} => copies = 0
                /\ \A i \in 1..Len(m) : Own(m, c) = {i} => copies = Mentions(m[i], p)
  BY <1>2, <1>3 DEF Counted
<1>5. Counted(t, m)
  BY <1>1, <1>4 DEF Counted
<1>6. QED
  BY <1>5 DEF m

\* The count is right of the empty store.
LEMMA EmptyIsCounted == Counted([p \in ID |-> NIL], <<>>)
<1> DEFINE t == [p \in ID |-> NIL]
<1>1. t \in Store /\ <<>> \in Seq(Row) /\ Len(<<>>) = 0 /\ 1..0 = {}
  BY DEF Store
<1>2. ASSUME NEW p \in ID, NEW c \in ID
      PROVE  Cardinality(Places(Old(t, p).children, c)) = 0
  <2>1. Old(t, p).children = <<>>
    BY DEF Old, NewPerson
  <2>2. Places(<<>>, c) = {}
    BY DEF Places
  <2>3. QED
    BY <2>1, <2>2, FS_EmptySet
<1> HIDE DEF t
<1>3. QED
  BY <1>1, <1>2 DEF Counted, t

\* The count is right after every row.
LEMMA CopiesAreCounted == Spec => []CInv
<1>1. ASSUME Init
      PROVE  CInv
  BY <1>1, EmptyIsCounted DEF Init, CInv
<1>2. ASSUME CInv, [Next]_vars
      PROVE  CInv'
  <2>1. ASSUME NEW row \in Rows, AddPerson(row)
        PROVE  CInv'
    BY <1>2, <2>1, RowKeepsCounted, RowsAssumption DEF CInv, AddPerson
  <2>2. CASE people' = people /\ log' = log
    BY <1>2, <2>2 DEF CInv
  <2>3. ASSUME people' = people,
               NEW row \in Rows, row.id \notin ID, log' = Append(log, row)
        PROVE  CInv'
    BY <1>2, <2>3, RefusedRowKeepsCounted, RowsAssumption DEF CInv
  <2>4. QED
    BY <1>2, <2>1, <2>2, <2>3, StepCases
<1>3. QED
  BY <1>1, <1>2, PTL DEF Spec

\* The roles p has for c, counted.
LEMMA RolesAreCounted ==
    ASSUME NEW p, NEW c
    PROVE  Roles(p, c) = One(people[c].father = p) + One(people[c].mother = p)
<1> DEFINE roles == {r \in {"father", "mother"} : people[c][r] = p}
<1>1. /\ people[c]["father"] = people[c].father
      /\ people[c]["mother"] = people[c].mother
  OBVIOUS
<1>2. Cardinality({}) = 0 /\ IsFiniteSet({})
  BY FS_EmptySet
<1>3. /\ Cardinality({"father"}) = 1 /\ IsFiniteSet({"father"})
      /\ Cardinality({"mother"}) = 1
  BY FS_Singleton
<1>4. Cardinality({"father"} \cup {"mother"}) = 2
  <2>1. "mother" \notin {"father"}
    OBVIOUS
  <2>2. Cardinality({"father"} \cup {"mother"}) = Cardinality({"father"}) + 1
    BY <1>3, <2>1, FS_AddElement, Zenon
  <2>3. QED
    BY <1>3, <2>2
<1>5. roles = (IF people[c].father = p THEN {"father"} ELSE {})
              \cup (IF people[c].mother = p THEN {"mother"} ELSE {})
  BY <1>1
<1> HIDE DEF roles
<1>6. Cardinality(roles) = One(people[c].father = p) + One(people[c].mother = p)
  <2>1. CASE people[c].father = p /\ people[c].mother = p
    <3>1. roles = {"father"} \cup {"mother"}
      BY <1>5, <2>1
    <3>2. QED
      BY <1>4, <2>1, <3>1 DEF One
  <2>2. CASE people[c].father = p /\ people[c].mother # p
    <3>1. roles = {"father"}
      BY <1>5, <2>2
    <3>2. QED
      BY <1>3, <2>2, <3>1 DEF One
  <2>3. CASE people[c].father # p /\ people[c].mother = p
    <3>1. roles = {"mother"}
      BY <1>5, <2>3
    <3>2. QED
      BY <1>3, <2>3, <3>1 DEF One
  <2>4. CASE people[c].father # p /\ people[c].mother # p
    <3>1. roles = {}
      BY <1>5, <2>4
    <3>2. QED
      BY <1>2, <2>4, <3>1 DEF One
  <2>5. QED
    BY <2>1, <2>2, <2>3, <2>4
<1>7. QED
  BY <1>6 DEF Roles, roles

\* Somebody with one row is listed once for each role the row names.
LEMMA ListedOncePerRole ==
    ASSUME NEW l, Consistent(people, l), Told(people, l), Counted(people, l),
           NEW c \in ID, NEW i \in 1..Len(l), Own(l, c) = {i}, NEW p \in Known
    PROVE  Copies(p, c) = Roles(p, c)
<1>1. /\ p \in ID /\ p # NIL
      /\ Old(people, p) = people[p]
      /\ l[i].id = c
  BY DistinctAssumption DEF Known, Old, Own
<1>2. Copies(p, c) = Mentions(l[i], p)
  BY <1>1 DEF Counted, Copies, Places
<1>3. people[c] # NIL /\ Old(people, c) = people[c]
  BY <1>1 DEF Consistent, RowsAreKnown, Old
<1>4. PersonAsDeclared(people[c], l, c)
  BY <1>3 DEF Told
<1>5. people[c].father = p <=> l[i].father_id = p
  <2>1. WithFather(l, c) = IF l[i].father_id \in ID THEN {i} ELSE {}
    BY DEF WithFather, Own
  <2>2. Says(WithFather(l, c), Fathers(l), people[c].father)
    BY <1>4 DEF PersonAsDeclared
  <2>3. QED
    BY <1>1, <2>1, <2>2 DEF Says, Fathers
<1>6. people[c].mother = p <=> l[i].mother_id = p
  <2>1. WithMother(l, c) = IF l[i].mother_id \in ID THEN {i} ELSE {}
    BY DEF WithMother, Own
  <2>2. Says(WithMother(l, c), Mothers(l), people[c].mother)
    BY <1>4 DEF PersonAsDeclared
  <2>3. QED
    BY <1>1, <2>1, <2>2 DEF Says, Mothers
<1>7. QED
  BY <1>2, <1>5, <1>6, RolesAreCounted DEF Mentions, One

\* A parent lists a child once for each role it has in the child's only row,
\* and nobody else lists the child.
THEOREM ChildrenAreAlwaysListedOncePerRole == Spec => []ChildListedOncePerRole
<1>1. ASSUME IInv, HInv, CInv, NEW c \in LoadedOnce, NEW p \in Known
      PROVE  Copies(p, c) = Roles(p, c)
  <2>1. log \in Seq(Row) /\ DOMAIN log = 1..Len(log) /\ c \in ID
    BY <1>1 DEF CInv, Counted, LoadedOnce
  <2>2. PICK i \in 1..Len(log) : RowsOf(c) = {i}
    BY <2>1 DEF LoadedOnce
  <2>3. Own(log, c) = {i}
    BY <2>1, <2>2 DEF RowsOf, Own
  <2>4. QED
    BY <1>1, <2>1, <2>3, ListedOncePerRole DEF IInv, HInv, CInv
<1>2. IInv /\ HInv /\ CInv => ChildListedOncePerRole
  BY <1>1 DEF ChildListedOncePerRole
<1>3. QED
  BY <1>2, Invariance, HistoryIsKept, CopiesAreCounted, PTL

-----------------------------------------------------------------------------
\* Two sexes that the rows give one person are the same.
LEMMA OneSex ==
    ASSUME NoSexConflict, NEW p \in ID, NEW x \in Sexes(p), NEW y \in Sexes(p)
    PROVE  x = y
<1>1. Cardinality(Sexes(p)) =< 1
  BY DEF NoSexConflict
<1>2. IsFiniteSet(Sexes(p))
  <2>1. IsFiniteSet({Male} \cup {Female})
    BY FS_Singleton, FS_AddElement
  <2>2. Sexes(p) \in SUBSET ({Male} \cup {Female})
    BY DEF Sexes
  <2>3. QED
    BY <2>1, <2>2, FS_Subset
<1>3. Cardinality(Sexes(p)) \in Nat /\ Cardinality(Sexes(p)) # 0
  BY <1>2, FS_CardinalityType, FS_EmptySet
<1>4. \E z : Sexes(p) = {z}
  BY <1>1, <1>2, <1>3, FS_Singleton
<1>5. QED
  BY <1>4

\* The gender of somebody whom a row uses as a parent is one that rows gave.
LEMMA GenderWasGiven ==
    ASSUME HInv, NEW p \in Known, Uses(log, p) # {}
    PROVE  people[p].gender \in Sexes(p)
<1>1. /\ GenderSaid(people[p].gender, log, p)
      /\ DOMAIN log = 1..Len(log)
      /\ p \in ID
  <2>1. log \in Seq(Row) /\ GenderSaid(people[p].gender, log, p) /\ p \in ID
    BY KnownAsDeclared
  <2>2. QED
    BY <2>1
<1>2. CASE WithGender(log, p) # {}
  <2>1. PICK i \in WithGender(log, p) : people[p].gender = Genders(log)[i]
    BY <1>1, <1>2 DEF GenderSaid, Says
  <2>2. i \in RowsOf(p) /\ people[p].gender = log[i].gender
        /\ log[i].gender \in {Male, Female}
    BY <1>1, <2>1 DEF WithGender, Genders, RowsOf
  <2>3. QED
    BY <2>2 DEF Sexes
<1>3. CASE WithGender(log, p) = {}
  <2>1. PICK i \in Uses(log, p) : people[p].gender = Slots(log, p)[i]
    BY <1>1, <1>3 DEF GenderSaid, SaysFirst
  <2>2. /\ i \in DOMAIN log /\ log[i].id \in ID
        /\ people[p].gender = IF log[i].father_id = p THEN Male ELSE Female
        /\ p \in {log[i].father_id, log[i].mother_id}
    BY <1>1, <2>1 DEF Uses, Slots
  <2>3. CASE log[i].father_id = p
    BY <2>2, <2>3 DEF Sexes
  <2>4. CASE log[i].father_id # p
    BY <2>2, <2>4 DEF Sexes
  <2>5. QED
    BY <2>3, <2>4
<1>4. QED
  BY <1>2, <1>3

\* In a file that never contradicts itself about a sex, whoever is a father is
\* a man with that child on the list, and whoever is a mother a woman.
LEMMA ParentsHaveTheirSex ==
    ASSUME HInv, ParentsListTheirChildren, NoSexConflict, NEW c \in Known
    PROVE  /\ people[c].father # NIL =>
                 /\ people[c].father \in Known
                 /\ people[people[c].father].gender = Male
                 /\ c \in ToSet(people[people[c].father].children)
           /\ people[c].mother # NIL =>
                 /\ people[c].mother \in Known
                 /\ people[people[c].mother].gender = Female
                 /\ c \in ToSet(people[people[c].mother].children)
<1>1. /\ c \in ID
      /\ DOMAIN log = 1..Len(log)
      /\ Says(WithFather(log, c), Fathers(log), people[c].father)
      /\ Says(WithMother(log, c), Mothers(log), people[c].mother)
  <2>1. log \in Seq(Row) /\ PersonAsDeclared(people[c], log, c) /\ c \in ID
    BY KnownAsDeclared
  <2>2. QED
    BY <2>1 DEF PersonAsDeclared
<1>2. ASSUME NEW p \in Parents(c)
      PROVE  p \in Known /\ p \in ID /\ c \in ToSet(people[p].children)
  <2>1. p \in Known /\ Lists(p, c)
    BY <1>2 DEF ParentsListTheirChildren
  <2>2. people[p] \in Person
    BY <2>1 DEF HInv, TypeOK, Known
  <2>3. DOMAIN people[p].children = 1..Len(people[p].children)
    BY <2>2 DEF Person
  <2>4. QED
    BY <2>1, <2>3 DEF Lists, Occurs, ToSet, Known
<1>3. ASSUME people[c].father # NIL
      PROVE  people[people[c].father].gender = Male
  <2> DEFINE f == people[c].father
  <2>1. f \in Known /\ f \in ID
    BY <1>2, <1>3 DEF Parents
  <2>2. PICK i \in WithFather(log, c) : f = Fathers(log)[i]
    BY <1>1, <1>3 DEF Says
  <2>3. i \in DOMAIN log /\ log[i].id \in ID /\ log[i].father_id = f
    BY <1>1, <2>2 DEF WithFather, Fathers
  <2> HIDE DEF f
  <2>4. Male \in Sexes(f)
    BY <2>3 DEF Sexes
  <2>5. i \in Uses(log, f)
    BY <1>1, <2>3 DEF Uses
  <2>6. people[f].gender \in Sexes(f)
    BY <2>1, <2>5, GenderWasGiven
  <2>7. people[f].gender = Male
    BY <2>1, <2>4, <2>6, OneSex
  <2>8. QED
    BY <2>7 DEF f
<1>4. ASSUME people[c].mother # NIL
      PROVE  people[people[c].mother].gender = Female
  <2> DEFINE m == people[c].mother
  <2>1. m \in Known /\ m \in ID
    BY <1>2, <1>4 DEF Parents
  <2>2. PICK i \in WithMother(log, c) : m = Mothers(log)[i]
    BY <1>1, <1>4 DEF Says
  <2>3. i \in DOMAIN log /\ log[i].id \in ID /\ log[i].mother_id = m
    BY <1>1, <2>2 DEF WithMother, Mothers
  <2> HIDE DEF m
  <2>4. Female \in Sexes(m)
    BY <2>3 DEF Sexes
  <2>5. i \in Uses(log, m)
    BY <1>1, <2>3 DEF Uses
  <2>6. people[m].gender \in Sexes(m)
    BY <2>1, <2>5, GenderWasGiven
  <2>7. people[m].gender = Female
    BY <2>1, <2>4, <2>6, OneSex
  <2>8. QED
    BY <2>7 DEF m
<1>5. QED
  BY <1>2, <1>3, <1>4 DEF Parents

\* Everybody in the store is a Person with a list of ids, and a listed child
\* and a parent are in the store.
LEMMA FamilyIsKnown ==
    ASSUME NEW l, Consistent(people, l), NEW p \in Known
    PROVE  /\ p \in ID /\ p # NIL
           /\ people[p].children \in Seq(ID)
           /\ ToSet(people[p].children) \subseteq Known
           /\ people[p].father # NIL => people[p].father \in Known
           /\ people[p].mother # NIL => people[p].mother \in Known
<1>1. p \in ID /\ people[p] \in Person /\ Old(people, p) = people[p] /\ p # NIL
  BY DistinctAssumption DEF Consistent, Store, Known, Old
<1>2. people[p].children \in Seq(ID)
  BY <1>1 DEF Person
<1>3. ASSUME NEW c \in ToSet(people[p].children)
      PROVE  c \in Known
  <2>1. c \in ID /\ Occurs(c, people[p].children)
    BY <1>2 DEF ToSet, Occurs
  <2>2. QED
    BY <1>1, <2>1 DEF Consistent, Declared, Known
<1>4. \A q \in Parents(p) : q \in Known
  BY MeetsIsTheProperty DEF Consistent, ParentsListTheirChildren
<1>5. QED
  BY <1>1, <1>2, <1>3, <1>4 DEF Parents

\* In such a file every spouse that get_spouses finds from one side, through
\* the person's own gender, is found from the other side too.
THEOREM SpousesAreAlwaysMutual == Spec => []SpousesAreMutual
<1>1. ASSUME IInv, HInv, ParentsListTheirChildren, NoSexConflict,
             NEW p \in Known, NEW q \in get_spouses(p)
      PROVE  p \in get_spouses(q)
  <2> DEFINE role == IF people[p].gender \in {Male, NIL} THEN "father" ELSE "mother"
  <2>1. PICK c \in ToSet(people[p].children) :
           /\ people[c][role] = p
           /\ q = people[c][OtherParent(role)]
           /\ q # NIL
    BY <1>1 DEF get_spouses
  <2>2. c \in Known /\ p # NIL
    BY <1>1, <2>1, FamilyIsKnown DEF IInv
  <2>3. CASE people[p].gender \in {Male, NIL}
    <3>1. people[c].father = p /\ people[c].mother = q
      BY <2>1, <2>3 DEF OtherParent
    <3>2. people[q].gender = Female /\ c \in ToSet(people[q].children)
      BY <1>1, <2>1, <2>2, <3>1, ParentsHaveTheirSex
    <3>3. Female \notin {Male, NIL}
      BY DistinctAssumption DEF Male, Female
    <3>4. QED
      BY <2>2, <3>1, <3>2, <3>3 DEF get_spouses, OtherParent
  <2>4. CASE people[p].gender \notin {Male, NIL}
    <3>1. people[c].mother = p /\ people[c].father = q
      BY <2>1, <2>4 DEF OtherParent
    <3>2. people[q].gender = Male /\ c \in ToSet(people[q].children)
      BY <1>1, <2>1, <2>2, <3>1, ParentsHaveTheirSex
    <3>3. QED
      BY <2>2, <3>1, <3>2 DEF get_spouses, OtherParent
  <2>5. QED
    BY <2>3, <2>4
<1>2. IInv /\ HInv /\ ParentsListTheirChildren => SpousesAreMutual
  BY <1>1 DEF SpousesAreMutual
<1>3. QED
  BY <1>2, Invariance, HistoryIsKept, ParentsAlwaysListTheirChildren, PTL

\* And no couple that has a child is missed.
THEOREM SpousesAreAlwaysComplete == Spec => []SpousesAreComplete
<1>1. ASSUME HInv, ParentsListTheirChildren, NoSexConflict, NEW c \in Known,
             people[c].father # NIL, people[c].mother # NIL
      PROVE  people[c].mother \in get_spouses(people[c].father)
  <2>1. /\ people[people[c].father].gender = Male
        /\ c \in ToSet(people[people[c].father].children)
    BY <1>1, ParentsHaveTheirSex
  <2>2. QED
    BY <1>1, <2>1 DEF get_spouses, OtherParent
<1>2. HInv /\ ParentsListTheirChildren => SpousesAreComplete
  BY <1>1 DEF SpousesAreComplete
<1>3. QED
  BY <1>2, HistoryIsKept, ParentsAlwaysListTheirChildren, PTL

-----------------------------------------------------------------------------
\* The children that somebody lists have the one row that an id can have.
LEMMA ChildrenAreLoadedOnce ==
    ASSUME IInv, NoIdTwice, NEW p \in Known, NEW c \in ToSet(people[p].children)
    PROVE  c \in LoadedOnce
<1>1. /\ p \in ID /\ p # NIL
      /\ people[p].children \in Seq(ID)
      /\ c \in Known /\ c \in ID
      /\ log \in Seq(Row)
  BY FamilyIsKnown DEF IInv, Consistent, Known
<1>2. PICK i \in 1..Len(log) : log[i].id = c
  <2>1. Occurs(c, people[p].children) /\ Old(people, p) = people[p]
    BY <1>1 DEF Occurs, ToSet, Known, Old
  <2>2. QED
    BY <1>1, <2>1 DEF IInv, Consistent, Declared
<1>3. i \in RowsOf(c) /\ i \in DOMAIN log
  BY <1>1, <1>2 DEF RowsOf
<1>4. IsFiniteSet(RowsOf(c)) /\ Cardinality(RowsOf(c)) \in Nat
  <2>1. Len(log) \in Nat /\ DOMAIN log = 1..Len(log)
    BY <1>1
  <2>2. RowsOf(c) \in SUBSET (1..Len(log))
    BY <2>1 DEF RowsOf
  <2>3. IsFiniteSet(1..Len(log))
    BY <2>1, FS_Interval
  <2>4. IsFiniteSet(RowsOf(c))
    BY <2>2, <2>3, FS_Subset
  <2>5. QED
    BY <2>4, FS_CardinalityType
<1>5. Cardinality(RowsOf(c)) = 1
  <2>1. Cardinality(RowsOf(c)) =< 1
    BY <1>1 DEF NoIdTwice
  <2>2. Cardinality(RowsOf(c)) # 0
    BY <1>3, <1>4, FS_EmptySet
  <2>3. QED
    BY <1>4, <2>1, <2>2
<1>6. PICK x : RowsOf(c) = {x}
  BY <1>4, <1>5, FS_Singleton
<1>7. QED
  BY <1>1, <1>3, <1>6 DEF LoadedOnce

\* When no id has two rows the children of somebody are those who have that
\* parent: nobody is left on a list that a later row has taken them off.
LEMMA ChildrenAreOfTheirParents ==
    ASSUME IInv, ParentsListTheirChildren, ChildListedOncePerRole, NoIdTwice,
           NEW p \in Known
    PROVE  ToSet(people[p].children) = {c \in Known : p \in Parents(c)}
<1>1. /\ p \in ID /\ p # NIL
      /\ people[p].children \in Seq(ID)
      /\ ToSet(people[p].children) \subseteq Known
      /\ log \in Seq(Row)
  BY FamilyIsKnown DEF IInv, Consistent
<1>2. ASSUME NEW c \in Known, p \in Parents(c)
      PROVE  c \in ToSet(people[p].children)
  <2>1. Occurs(c, people[p].children)
    BY <1>2 DEF ParentsListTheirChildren, Lists
  <2>2. QED
    BY <1>1, <2>1 DEF Occurs, ToSet
<1>3. ASSUME NEW c \in ToSet(people[p].children)
      PROVE  p \in Parents(c)
  <2>1. c \in Known /\ c \in ID
    BY <1>1, <1>3 DEF Known
  <2>2. c \in LoadedOnce
    BY <1>3, ChildrenAreLoadedOnce
  <2>3. Copies(p, c) = Roles(p, c)
    BY <2>2 DEF ChildListedOncePerRole
  <2>4. Copies(p, c) # 0
    <3>1. PICK i \in DOMAIN people[p].children : people[p].children[i] = c
      BY <1>3 DEF ToSet
    <3>2. i \in Places(people[p].children, c)
      BY <3>1 DEF Places
    <3>3. /\ IsFiniteSet(Places(people[p].children, c))
          /\ Copies(p, c) = Cardinality(Places(people[p].children, c))
      <4>1. IsFiniteSet(Places(people[p].children, c))
        BY <1>1, <2>1, CopiesGrow
      <4>2. QED
        BY <4>1 DEF Copies, Places
    <3>4. QED
      BY <3>2, <3>3, FS_EmptySet
  <2>5. CASE people[c].father # p /\ people[c].mother # p
    <3>1. people[c]["father"] = people[c].father /\ people[c]["mother"] = people[c].mother
      OBVIOUS
    <3>2. {r \in {"father", "mother"} : people[c][r] = p} = {}
      BY <2>5, <3>1
    <3>3. QED
      BY <2>3, <2>4, <3>2, FS_EmptySet DEF Roles
  <2>6. QED
    BY <1>1, <2>5 DEF Parents
<1>4. QED
  BY <1>1, <1>2, <1>3

\* When no sex is contradicted either, the children of a father are those who
\* call him father, and the children of a mother those who call her mother.
LEMMA ChildrenByRole ==
    ASSUME IInv, HInv, ParentsListTheirChildren, ChildListedOncePerRole,
           NoIdTwice, NoSexConflict, NEW p \in Known
    PROVE  /\ people[p].father # NIL =>
                 ToSet(people[people[p].father].children) = Having("father", people[p].father)
           /\ people[p].mother # NIL =>
                 ToSet(people[people[p].mother].children) = Having("mother", people[p].mother)
<1>1. /\ \A q, x : q \in Having("father", x) <=> q \in Known /\ people[q].father = x
      /\ \A q, x : q \in Having("mother", x) <=> q \in Known /\ people[q].mother = x
  BY DEF Having
<1>2. ASSUME NEW f, f = people[p].father, f # NIL
      PROVE  ToSet(people[f].children) = Having("father", f)
  <2>1. f \in Known /\ people[f].gender = Male
    BY <1>2, ParentsHaveTheirSex
  <2>2. ToSet(people[f].children) = {c \in Known : f \in Parents(c)}
    BY <2>1, ChildrenAreOfTheirParents
  <2>3. ASSUME NEW c \in Known, people[c].mother = f
        PROVE  FALSE
    <3>1. people[f].gender = Female
      BY <1>2, <2>3, ParentsHaveTheirSex
    <3>2. QED
      BY <2>1, <3>1 DEF Male, Female
  <2>4. \A c \in Known : f \in Parents(c) <=> people[c].father = f
    BY <1>2, <2>3 DEF Parents
  <2>5. QED
    BY <1>1, <2>2, <2>4
<1>3. ASSUME NEW m, m = people[p].mother, m # NIL
      PROVE  ToSet(people[m].children) = Having("mother", m)
  <2>1. m \in Known /\ people[m].gender = Female
    BY <1>3, ParentsHaveTheirSex
  <2>2. ToSet(people[m].children) = {c \in Known : m \in Parents(c)}
    BY <2>1, ChildrenAreOfTheirParents
  <2>3. ASSUME NEW c \in Known, people[c].father = m
        PROVE  FALSE
    <3>1. people[m].gender = Male
      BY <1>3, <2>3, ParentsHaveTheirSex
    <3>2. QED
      BY <2>1, <3>1 DEF Male, Female
  <2>4. \A c \in Known : m \in Parents(c) <=> people[c].mother = m
    BY <1>3, <2>3 DEF Parents
  <2>5. QED
    BY <1>1, <2>2, <2>4
<1>4. QED
  BY <1>2, <1>3

\* The file contradicts nothing, and the store has what the rows declare.
Orderly ==
    /\ IInv /\ HInv
    /\ ParentsListTheirChildren
    /\ ChildListedOncePerRole
    /\ NoIdTwice
    /\ NoSexConflict

\* The full siblings of somebody have the same two parents, a missing one
\* included, and somebody without parents is alone.
LEMMA PeersHaveTheSameParents ==
    ASSUME Orderly, NEW p \in Known
    PROVE  ToSet(get_peers(p)) =
              IF Parents(p) = {} THEN {p}
              ELSE Having("father", people[p].father) \cap Having("mother", people[p].mother)
<1> DEFINE m == people[p].mother
           f == people[p].father
<1>1. /\ m # NIL => /\ m \in Known
                    /\ people[m].children \in Seq(ID)
                    /\ ToSet(people[m].children) = Having("mother", m)
      /\ f # NIL => /\ f \in Known
                    /\ people[f].children \in Seq(ID)
                    /\ ToSet(people[f].children) = Having("father", f)
  BY FamilyIsKnown, ChildrenByRole DEF Orderly, IInv
<1>2. ASSUME NEW q \in {m, f}, q # NIL
      PROVE  HasChildren(q)
  <2>1. p \in ToSet(people[q].children)
    BY <1>1, <1>2 DEF Having
  <2>2. ToSet(<<>>) = {}
    BY DEF ToSet
  <2>3. QED
    BY <1>2, <2>1, <2>2 DEF HasChildren
<1>3. ~HasChildren(NIL)
  BY DEF HasChildren
<1>4. CASE m # NIL
  <2>1. get_peers(p) = Those(people[m].children, Having("father", f))
    BY <1>2, <1>4 DEF get_peers
  <2>2. ToSet(get_peers(p)) = Having("mother", m) \cap Having("father", f)
    BY <1>1, <1>4, <2>1, ThoseMembers
  <2>3. QED
    BY <1>4, <2>2 DEF Parents
<1>5. CASE m = NIL /\ f # NIL
  <2>1. get_peers(p) = Those(people[f].children, Having("mother", NIL))
    BY <1>2, <1>3, <1>5 DEF get_peers
  <2>2. ToSet(get_peers(p)) = Having("father", f) \cap Having("mother", NIL)
    BY <1>1, <1>5, <2>1, ThoseMembers
  <2>3. QED
    BY <1>5, <2>2 DEF Parents
<1>6. CASE m = NIL /\ f = NIL
  <2>1. get_peers(p) = <<p>>
    BY <1>3, <1>6 DEF get_peers
  <2>2. ToSet(<<p>>) = {p}
    BY DEF ToSet
  <2>3. QED
    BY <1>6, <2>1, <2>2 DEF Parents
<1>7. QED
  BY <1>4, <1>5, <1>6

\* Half siblings share one parent and not the other.
LEMMA SoftPeersShareOneParent ==
    ASSUME Orderly, NEW p \in Known
    PROVE  /\ ToSet(get_soft_peers(p, "father")) =
                 IF people[p].father = NIL THEN {}
                 ELSE Having("father", people[p].father) \ Having("mother", people[p].mother)
           /\ ToSet(get_soft_peers(p, "mother")) =
                 IF people[p].mother = NIL THEN {}
                 ELSE Having("mother", people[p].mother) \ Having("father", people[p].father)
<1> DEFINE m == people[p].mother
           f == people[p].father
<1>1. /\ OtherParent("father") = "mother" /\ OtherParent("mother") = "father"
      /\ people[p]["father"] = f /\ people[p]["mother"] = m
      /\ ToSet(<<>>) = {}
  BY DEF OtherParent, ToSet
<1>2. /\ m # NIL => /\ people[m].children \in Seq(ID)
                    /\ ToSet(people[m].children) = Having("mother", m)
                    /\ Having("mother", m) \subseteq Known
      /\ f # NIL => /\ people[f].children \in Seq(ID)
                    /\ ToSet(people[f].children) = Having("father", f)
                    /\ Having("father", f) \subseteq Known
  BY FamilyIsKnown, ChildrenByRole DEF Orderly, IInv, Having
<1>3. ASSUME f # NIL
      PROVE  ToSet(get_soft_peers(p, "father")) = Having("father", f) \ Having("mother", m)
  <2>1. get_soft_peers(p, "father") = Those(people[f].children, Known \ Having("mother", m))
    BY <1>1, <1>3 DEF get_soft_peers
  <2>2. ToSet(Those(people[f].children, Known \ Having("mother", m))) =
           Having("father", f) \cap (Known \ Having("mother", m))
    BY <1>2, <1>3, ThoseMembers
  <2>3. QED
    BY <1>2, <1>3, <2>1, <2>2
<1>4. ASSUME m # NIL
      PROVE  ToSet(get_soft_peers(p, "mother")) = Having("mother", m) \ Having("father", f)
  <2>1. get_soft_peers(p, "mother") = Those(people[m].children, Known \ Having("father", f))
    BY <1>1, <1>4 DEF get_soft_peers
  <2>2. ToSet(Those(people[m].children, Known \ Having("father", f))) =
           Having("mother", m) \cap (Known \ Having("father", f))
    BY <1>2, <1>4, ThoseMembers
  <2>3. QED
    BY <1>2, <1>4, <2>1, <2>2
<1>5. /\ f = NIL => get_soft_peers(p, "father") = <<>>
      /\ m = NIL => get_soft_peers(p, "mother") = <<>>
  BY <1>1 DEF get_soft_peers
<1>6. QED
  BY <1>1, <1>3, <1>4, <1>5

\* Everybody is a peer of itself, and peers have the same peers.
LEMMA PeersOfPeers ==
    ASSUME Orderly, NEW p \in Known
    PROVE  /\ p \in ToSet(get_peers(p))
           /\ \A q \in ToSet(get_peers(p)) : q \in Known /\ get_peers(q) = get_peers(p)
<1>1. \A q, x : /\ q \in Having("father", x) <=> q \in Known /\ people[q].father = x
                /\ q \in Having("mother", x) <=> q \in Known /\ people[q].mother = x
  BY DEF Having
<1>2. p \in ToSet(get_peers(p))
  BY <1>1, PeersHaveTheSameParents
<1>3. ASSUME NEW q \in ToSet(get_peers(p))
      PROVE  q \in Known /\ get_peers(q) = get_peers(p)
  <2>1. CASE Parents(p) = {}
    BY <1>3, <2>1, PeersHaveTheSameParents
  <2>2. CASE Parents(p) # {}
    <3>1. /\ q \in Known
          /\ people[q].father = people[p].father
          /\ people[q].mother = people[p].mother
      BY <1>1, <1>3, <2>2, PeersHaveTheSameParents
    <3>2. HasChildren(people[p].mother) \/ HasChildren(people[p].father)
      <4>1. PICK r \in Parents(p) : r # NIL
        BY <2>2 DEF Parents
      <4>2. Occurs(p, people[r].children)
        BY DEF Orderly, ParentsListTheirChildren, Lists
      <4>3. people[r].children # <<>>
        <5>1. Len(<<>>) = 0 /\ 1..0 = {}
          OBVIOUS
        <5>2. ~Occurs(p, <<>>)
          BY <5>1 DEF Occurs
        <5>3. QED
          BY <4>2, <5>2
      <4>4. QED
        BY <4>1, <4>3 DEF Parents, HasChildren
    <3>3. QED
      BY <3>1, <3>2 DEF get_peers
  <2>3. QED
    BY <2>1, <2>2
<1>4. QED
  BY <1>2, <1>3

\* The file of a run is orderly whenever it contradicts nothing.
LEMMA StoresAreOrderly == Spec => [](NoIdTwice /\ NoSexConflict => Orderly)
<1>1. /\ IInv /\ HInv /\ ParentsListTheirChildren /\ ChildListedOncePerRole
      => (NoIdTwice /\ NoSexConflict => Orderly)
  BY DEF Orderly
<1>2. QED
  BY <1>1, Invariance, HistoryIsKept, ParentsAlwaysListTheirChildren,
     ChildrenAreAlwaysListedOncePerRole, PTL

\* Full siblings are an equivalence in every file that contradicts nothing.
THEOREM PeersAreAlwaysEquivalent == Spec => []PeersAreEquivalent
<1>1. (NoIdTwice /\ NoSexConflict => Orderly) => PeersAreEquivalent
  BY PeersOfPeers DEF PeersAreEquivalent
<1>2. QED
  BY <1>1, StoresAreOrderly, PTL

\* Nobody stands twice on a list of children in such a file.
LEMMA NoChildTwice ==
    ASSUME Orderly, NEW p \in Known,
           NEW i \in DOMAIN people[p].children, NEW j \in DOMAIN people[p].children,
           people[p].children[i] = people[p].children[j]
    PROVE  i = j
<1> DEFINE s == people[p].children
           c == s[i]
           P == Places(s, c)
<1>1. /\ IInv /\ HInv /\ ParentsListTheirChildren /\ ChildListedOncePerRole
      /\ NoIdTwice /\ NoSexConflict
  BY DEF Orderly
<1>2. s \in Seq(ID) /\ ToSet(s) \subseteq Known /\ p # NIL
  BY <1>1, FamilyIsKnown DEF IInv
<1>3. c \in ToSet(s) /\ c \in Known /\ c \in ID
  BY <1>2 DEF ToSet, Known
<1>4. c \in LoadedOnce
  BY <1>1, <1>3, ChildrenAreLoadedOnce
<1>5. Copies(p, c) = Roles(p, c)
  BY <1>1, <1>4 DEF ChildListedOncePerRole
<1>6. ~(people[c].father = p /\ people[c].mother = p)
  <2>1. Male # Female
    BY DEF Male, Female
  <2>2. QED
    BY <1>1, <1>2, <1>3, <2>1, ParentsHaveTheirSex
<1>7. Roles(p, c) \in {0, 1}
  BY <1>6, RolesAreCounted DEF One
<1>8. i \in P /\ j \in P
  BY DEF Places
<1>9. IsFiniteSet(P) /\ Copies(p, c) = Cardinality(P)
  <2>1. IsFiniteSet(P)
    BY <1>2, <1>3, CopiesGrow
  <2>2. QED
    BY <2>1 DEF Copies, Places
<1> HIDE DEF P
<1>10. Cardinality(P) = 1
  BY <1>5, <1>7, <1>8, <1>9, FS_EmptySet
<1>11. PICK x : P = {x}
  BY <1>9, <1>10, FS_Singleton
<1>12. QED
  BY <1>8, <1>11

\* The three lists of siblings never share anybody and miss no child of
\* either parent.
THEOREM SiblingsAreAlwaysPartitioned == Spec => []SiblingsArePartitioned
<1>1. ASSUME Orderly, NEW p \in Known
      PROVE  LET full == ToSet(get_peers(p))
                 paternal == ToSet(get_soft_peers(p, "father"))
                 maternal == ToSet(get_soft_peers(p, "mother"))
             IN /\ full \cap (paternal \cup maternal) = {}
                /\ paternal \cap maternal = {}
                /\ full \cup paternal \cup maternal =
                      {p} \cup UNION {ToSet(people[q].children) : q \in Parents(p)}
  <2> DEFINE m == people[p].mother
             f == people[p].father
             full == ToSet(get_peers(p))
             paternal == ToSet(get_soft_peers(p, "father"))
             maternal == ToSet(get_soft_peers(p, "mother"))
             all == UNION {ToSet(people[q].children) : q \in Parents(p)}
             F == Having("father", f)
             M == Having("mother", m)
  <2>1. p \in F /\ p \in M
    BY DEF Having
  <2>2. /\ full = IF f = NIL /\ m = NIL THEN {p} ELSE F \cap M
        /\ paternal = IF f = NIL THEN {} ELSE F \ M
        /\ maternal = IF m = NIL THEN {} ELSE M \ F
    BY <1>1, PeersHaveTheSameParents, SoftPeersShareOneParent DEF Parents
  <2>3. /\ f # NIL => ToSet(people[f].children) = F
        /\ m # NIL => ToSet(people[m].children) = M
    BY <1>1, ChildrenByRole DEF Orderly
  <2>4. all = (IF f = NIL THEN {} ELSE F) \cup (IF m = NIL THEN {} ELSE M)
    BY <2>3 DEF Parents
  <2> HIDE DEF full, paternal, maternal, all, F, M, f, m
  <2>5. /\ full \cap (paternal \cup maternal) = {}
        /\ paternal \cap maternal = {}
        /\ full \cup paternal \cup maternal = {p} \cup all
    BY <2>1, <2>2, <2>4
  <2>6. QED
    BY <2>5 DEF full, paternal, maternal, all
<1>2. (NoIdTwice /\ NoSexConflict => Orderly) => SiblingsArePartitioned
  BY <1>1 DEF SiblingsArePartitioned
<1>3. QED
  BY <1>2, StoresAreOrderly, PTL

\* Spouses share a child: both are in the store.
LEMMA SpousesAreKnown ==
    ASSUME NEW l, Consistent(people, l), NEW p \in Known, NEW q \in get_spouses(p)
    PROVE  q \in Known
<1> DEFINE role == IF people[p].gender \in {Male, NIL} THEN "father" ELSE "mother"
<1>1. PICK c \in ToSet(people[p].children) : q = people[c][OtherParent(role)] /\ q # NIL
  BY DEF get_spouses
<1>2. c \in Known
  BY FamilyIsKnown
<1>3. q \in {people[c].father, people[c].mother}
  BY <1>1 DEF OtherParent
<1>4. QED
  BY <1>1, <1>2, <1>3, FamilyIsKnown

\* A link is to a parent, a child, a spouse, or a sibling of one of three kinds.
LEMMA LinkKinds ==
    ASSUME NEW p, NEW q
    PROVE  q \in Linked(p) <=>
              /\ q # p
              /\ \/ q \in Parents(p)
                 \/ q \in get_spouses(p)
                 \/ q \in ToSet(get_peers(p)) /\ Len(get_peers(p)) > 1
                 \/ q \in ToSet(get_soft_peers(p, "father"))
                 \/ q \in ToSet(get_soft_peers(p, "mother"))
                 \/ q \in ToSet(people[p].children)
BY DEF Linked, Siblings

\* Every link of a page has a link that leads back.
THEOREM LinksAreAlwaysMutual == Spec => []LinksAreMutual
<1>1. ASSUME Orderly, SpousesAreMutual, NEW p \in Known, NEW q \in Linked(p)
      PROVE  q \in Known /\ p \in Linked(q)
  <2>1. /\ \A r, x : r \in Having("father", x) <=> r \in Known /\ people[r].father = x
        /\ \A r, x : r \in Having("mother", x) <=> r \in Known /\ people[r].mother = x
    BY DEF Having
  <2>2. q # p
    BY <1>1, LinkKinds
  <2>3. CASE q \in Parents(p)
    <3>1. q \in Known
      BY <1>1, <2>3 DEF Orderly, ParentsListTheirChildren
    <3>2. p \in ToSet(people[q].children)
      BY <1>1, <2>3, <3>1, ChildrenAreOfTheirParents DEF Orderly
    <3>3. QED
      BY <2>2, <3>1, <3>2, LinkKinds
  <2>4. CASE q \in ToSet(people[p].children)
    <3>1. q \in Known /\ p \in Parents(q)
      BY <1>1, <2>4, ChildrenAreOfTheirParents DEF Orderly
    <3>2. QED
      BY <2>2, <3>1, LinkKinds
  <2>5. CASE q \in get_spouses(p)
    <3>1. q \in Known
      BY <1>1, <2>5, SpousesAreKnown DEF Orderly, IInv
    <3>2. p \in get_spouses(q)
      BY <1>1, <2>5 DEF Orderly, SpousesAreMutual
    <3>3. QED
      BY <2>2, <3>1, <3>2, LinkKinds
  <2>6. CASE q \in ToSet(get_peers(p)) /\ Len(get_peers(p)) > 1
    <3>1. q \in Known /\ get_peers(q) = get_peers(p) /\ p \in ToSet(get_peers(p))
      BY <1>1, <2>6, PeersOfPeers
    <3>2. p \in ToSet(get_peers(q)) /\ Len(get_peers(q)) > 1
      BY <2>6, <3>1
    <3>3. QED
      BY <2>2, <3>1, <3>2, LinkKinds
  <2>7. CASE q \in ToSet(get_soft_peers(p, "father"))
    <3>1. /\ people[p].father # NIL
          /\ q \in Having("father", people[p].father) \ Having("mother", people[p].mother)
      BY <1>1, <2>7, SoftPeersShareOneParent
    <3>2. /\ q \in Known
          /\ people[q].father = people[p].father
          /\ people[q].mother # people[p].mother
      BY <2>1, <3>1
    <3>3. p \in ToSet(get_soft_peers(q, "father"))
      BY <1>1, <2>1, <3>1, <3>2, SoftPeersShareOneParent
    <3>4. QED
      BY <2>2, <3>2, <3>3, LinkKinds
  <2>8. CASE q \in ToSet(get_soft_peers(p, "mother"))
    <3>1. /\ people[p].mother # NIL
          /\ q \in Having("mother", people[p].mother) \ Having("father", people[p].father)
      BY <1>1, <2>8, SoftPeersShareOneParent
    <3>2. /\ q \in Known
          /\ people[q].mother = people[p].mother
          /\ people[q].father # people[p].father
      BY <2>1, <3>1
    <3>3. p \in ToSet(get_soft_peers(q, "mother"))
      BY <1>1, <2>1, <3>1, <3>2, SoftPeersShareOneParent
    <3>4. QED
      BY <2>2, <3>2, <3>3, LinkKinds
  <2>9. QED
    BY <1>1, <2>3, <2>4, <2>5, <2>6, <2>7, <2>8, LinkKinds
<1>2. (NoIdTwice /\ NoSexConflict => Orderly) /\ SpousesAreMutual => LinksAreMutual
  BY <1>1 DEF LinksAreMutual
<1>3. QED
  BY <1>2, StoresAreOrderly, SpousesAreAlwaysMutual, PTL

\* Nobody outside the store is linked, in whatever file.
LEMMA LinksStayInTheStore ==
    ASSUME NEW l, Consistent(people, l), NEW p \in Known, NEW q \in Linked(p)
    PROVE  q \in Known
<1>1. \A r, x : Having(r, x) \subseteq Known
  BY DEF Having
<1>2. \A r \in Known \cup {NIL} : HasChildren(r) => r # NIL /\ people[r].children \in Seq(ID)
  BY FamilyIsKnown DEF HasChildren
<1>3. \A r \in {people[p].father, people[p].mother} : r \in Known \cup {NIL}
  BY FamilyIsKnown
<1>4. ToSet(get_peers(p)) \subseteq Known
  <2> DEFINE m == people[p].mother
             f == people[p].father
  <2>1. CASE HasChildren(m)
    <3>1. get_peers(p) = Those(people[m].children, Having("father", f))
      BY <2>1 DEF get_peers
    <3>2. ToSet(get_peers(p)) = ToSet(people[m].children) \cap Having("father", f)
      BY <1>2, <1>3, <2>1, <3>1, ThoseMembers
    <3>3. QED
      BY <1>1, <3>2
  <2>2. CASE ~HasChildren(m) /\ HasChildren(f)
    <3>1. get_peers(p) = Those(people[f].children, Having("mother", NIL))
      BY <2>2 DEF get_peers
    <3>2. ToSet(get_peers(p)) = ToSet(people[f].children) \cap Having("mother", NIL)
      BY <1>2, <1>3, <2>2, <3>1, ThoseMembers
    <3>3. QED
      BY <1>1, <3>2
  <2>3. CASE ~HasChildren(m) /\ ~HasChildren(f)
    <3>1. get_peers(p) = <<p>>
      BY <2>3 DEF get_peers
    <3>2. ToSet(<<p>>) = {p}
      BY DEF ToSet
    <3>3. QED
      BY <3>1, <3>2
  <2>4. QED
    BY <2>1, <2>2, <2>3
<1>5. ASSUME NEW role \in {"father", "mother"}
      PROVE  ToSet(get_soft_peers(p, role)) \subseteq Known
  <2> DEFINE parent == people[p][role]
             others == Known \ Having(OtherParent(role), people[p][OtherParent(role)])
  <2>1. parent \in {people[p].father, people[p].mother}
    OBVIOUS
  <2>2. CASE parent = NIL
    <3>1. get_soft_peers(p, role) = <<>> /\ ToSet(<<>>) = {}
      BY <2>2 DEF get_soft_peers, ToSet
    <3>2. QED
      BY <3>1
  <2>3. CASE parent # NIL
    <3>1. get_soft_peers(p, role) = Those(people[parent].children, others)
      BY <2>3 DEF get_soft_peers
    <3>2. people[parent].children \in Seq(ID)
      <4>1. parent \in Known
        BY <1>3, <2>1, <2>3
      <4> HIDE DEF parent
      <4>2. QED
        BY <4>1, FamilyIsKnown
    <3> HIDE DEF parent
    <3>3. ToSet(get_soft_peers(p, role)) = ToSet(people[parent].children) \cap others
      BY <3>1, <3>2, ThoseMembers
    <3>4. QED
      BY <3>3
  <2>4. QED
    BY <2>2, <2>3
<1>6. Parents(p) \subseteq Known /\ ToSet(people[p].children) \subseteq Known
  BY FamilyIsKnown DEF Parents
<1>7. get_spouses(p) \subseteq Known
  BY SpousesAreKnown
<1>8. QED
  BY <1>4, <1>5, <1>6, <1>7, LinkKinds

\* When everybody has a row, everybody has a name, and so has everybody that a
\* page of theirs links: no page dies, whatever else the file says.
THEOREM PagesDieAlwaysNearPlaceholders == Spec => []PagesDieOnlyNearPlaceholders
<1>1. ASSUME IInv, ParentsListTheirChildren, PlaceholdersAreParents,
             \A p \in Known : RowsOf(p) # {},
             NEW p \in Known, NEW q \in Linked(p) \cup {p}
      PROVE  people[q].name # NIL
  <2>1. q \in Known
    BY <1>1, LinksStayInTheStore DEF IInv
  <2>2. PICK i \in DOMAIN log : log[i].id = q
    BY <1>1, <2>1 DEF RowsOf
  <2>3. i \in 1..Len(log)
    BY <1>1, <2>2 DEF IInv, TypeOK
  <2>4. QED
    BY <1>1, <2>1, <2>2, <2>3 DEF PlaceholdersAreParents
<1>2. IInv /\ ParentsListTheirChildren /\ PlaceholdersAreParents
      => PagesDieOnlyNearPlaceholders
  BY <1>1 DEF PagesDieOnlyNearPlaceholders, PageDies
<1>3. QED
  BY <1>2, Invariance, ParentsAlwaysListTheirChildren, PlaceholdersAreAlwaysParents, PTL
=============================================================================
