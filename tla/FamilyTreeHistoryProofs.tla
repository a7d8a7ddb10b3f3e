---------------------- MODULE FamilyTreeHistoryProofs ----------------------
(***************************************************************************)
(* What the store has become, told from the rows alone, for every file.    *)
(*                                                                         *)
(* Each property looks for the last row (or the first) of some kind.  That *)
(* a set of places has a last one is not proved: it is part of the         *)
(* invariant, since every row either is the new last one or leaves it.     *)
(***************************************************************************)
EXTENDS FamilyTreeHistory, FamilyTreeDataProofs

\* x is what g says at the last (the first) of the places I, NIL when there
\* is none.
Says(I, g, x) ==
    \/ I = {} /\ x = NIL
    \/ \E i \in I : (\A j \in I : j =< i) /\ x = g[i]

SaysFirst(I, g, x) ==
    \/ I = {} /\ x = NIL
    \/ \E i \in I : (\A j \in I : i =< j) /\ x = g[i]

\* A row that passes has the last word; one that does not leaves it alone.
LEMMA LastStep ==
    ASSUME NEW n \in Nat, NEW I \in SUBSET (1..n), NEW J, NEW g, NEW h, NEW x, NEW y,
           \A i \in I : h[i] = g[i], Says(I, g, x),
           \/ J = I /\ y = x
           \/ J = I \cup {n + 1} /\ y = h[n + 1]
    PROVE  Says(J, h, y)
<1>1. CASE J = I /\ y = x
  BY <1>1 DEF Says
<1>2. CASE J = I \cup {n + 1} /\ y = h[n + 1]
  <2>1. \A j \in J : j =< n + 1
    BY <1>2
  <2>2. QED
    BY <1>2, <2>1 DEF Says
<1>3. QED
  BY <1>1, <1>2

\* The first row to pass has the word for good.
LEMMA FirstStep ==
    ASSUME NEW n \in Nat, NEW I \in SUBSET (1..n), NEW J, NEW g, NEW h, NEW x, NEW y,
           \A i \in I : h[i] = g[i], SaysFirst(I, g, x),
           J = I \/ J = I \cup {n + 1},
           y = IF I = {} /\ J # {} THEN h[n + 1] ELSE x
    PROVE  SaysFirst(J, h, y)
<1>1. CASE J = I
  BY <1>1 DEF SaysFirst
<1>2. CASE J = I \cup {n + 1} /\ I = {}
  BY <1>2 DEF SaysFirst
<1>3. CASE J = I \cup {n + 1} /\ I # {}
  <2>1. PICK i \in I : (\A j \in I : i =< j) /\ x = g[i]
    BY <1>3 DEF SaysFirst
  <2>2. \A j \in J : i =< j
    BY <1>3, <2>1
  <2>3. QED
    BY <1>3, <2>1, <2>2 DEF SaysFirst
<1>4. QED
  BY <1>1, <1>2, <1>3

\* The last word is at the maximum of the places, the first at the minimum.
LEMMA LastIsMax ==
    ASSUME NEW I \in SUBSET Nat, I # {}, NEW g, NEW x, Says(I, g, x)
    PROVE  Max(I) \in I /\ x = g[Max(I)]
<1>1. PICK i \in I : (\A j \in I : j =< i) /\ x = g[i]
  BY DEF Says
<1>2. \E k \in I : \A j \in I : k >= j
  BY <1>1
<1>3. Max(I) \in I /\ \A j \in I : Max(I) >= j
  BY <1>2, Zenon DEF Max
<1>4. Max(I) = i
  <2>1. Max(I) \in Nat /\ i \in Nat
    BY <1>3
  <2>2. Max(I) >= i /\ i >= Max(I)
    BY <1>1, <1>3
  <2>3. QED
    BY <2>1, <2>2
<1>5. QED
  BY <1>1, <1>3, <1>4

\* What the first of some rows says is what the row of the least number says.
LEMMA FirstIsMin ==
    ASSUME NEW I \in SUBSET Nat, I # {}, NEW g, NEW x, SaysFirst(I, g, x)
    PROVE  Min(I) \in I /\ x = g[Min(I)]
<1>1. PICK i \in I : (\A j \in I : i =< j) /\ x = g[i]
  BY DEF SaysFirst
<1>2. \E k \in I : \A j \in I : k =< j
  BY <1>1
<1>3. Min(I) \in I /\ \A j \in I : Min(I) =< j
  BY <1>2, Zenon DEF Min
<1>4. Min(I) = i
  <2>1. Min(I) \in Nat /\ i \in Nat
    BY <1>3
  <2>2. Min(I) =< i /\ i =< Min(I)
    BY <1>1, <1>3
  <2>3. QED
    BY <2>1, <2>2
<1>5. QED
  BY <1>1, <1>3, <1>4

-----------------------------------------------------------------------------
\* The places of the rows that say something about p, and what they say.
Own(l, p) == {i \in 1..Len(l) : l[i].id = p}
WithFather(l, p) == {i \in 1..Len(l) : l[i].id = p /\ l[i].father_id \in ID}
WithMother(l, p) == {i \in 1..Len(l) : l[i].id = p /\ l[i].mother_id \in ID}
WithFact(l, p, f) == {i \in 1..Len(l) : l[i].id = p /\ l[i].facts[f] \in Value}
WithGender(l, p) == {i \in 1..Len(l) : l[i].id = p /\ l[i].gender \in {Male, Female}}
Uses(l, p) ==
    {i \in 1..Len(l) : l[i].id \in ID /\ p \in {l[i].father_id, l[i].mother_id}}

Names(l) == [i \in 1..Len(l) |-> l[i].name]
Fathers(l) == [i \in 1..Len(l) |-> l[i].father_id]
Mothers(l) == [i \in 1..Len(l) |-> l[i].mother_id]
Facts(l, f) == [i \in 1..Len(l) |-> l[i].facts[f]]
Livings(l) == [i \in 1..Len(l) |-> RowIsLiving(l[i])]
Genders(l) == [i \in 1..Len(l) |-> l[i].gender]
Slots(l, p) == [i \in 1..Len(l) |-> IF l[i].father_id = p THEN Male ELSE Female]

\* The invariant about one person, read through Old.
PersonAsDeclared(q, l, p) ==
    /\ Says(WithFather(l, p), Fathers(l), q.father)
    /\ Says(WithMother(l, p), Mothers(l), q.mother)
    /\ Says(Own(l, p), Names(l), q.name)
    /\ Says(Own(l, p), Livings(l), q.is_living)
    /\ \A f \in CheckedField : Says(WithFact(l, p, f), Facts(l, f), q.facts[f])

GenderSaid(x, l, p) ==
    IF WithGender(l, p) # {} THEN Says(WithGender(l, p), Genders(l), x)
    ELSE SaysFirst(Uses(l, p), Slots(l, p), x)

\* What the rows l say of everybody is what the store t holds.
Told(t, l) ==
    /\ t \in Store
    /\ l \in Seq(Row)
    /\ \A p \in ID : /\ PersonAsDeclared(Old(t, p), l, p)
                     /\ GenderSaid(Old(t, p).gender, l, p)

HInv == TypeOK /\ Told(people, log)

\* How one more row changes the places of p and what is said there.
LEMMA PlacesGrow ==
    ASSUME NEW l \in Seq(Row), NEW row \in Row, NEW p \in ID, NEW f
    PROVE  LET m == Append(l, row)
               n == Len(l)
               Grown(I, passes) == IF passes THEN I \cup {n + 1} ELSE I
           IN /\ Own(m, p) = Grown(Own(l, p), row.id = p)
              /\ WithFather(m, p) =
                    Grown(WithFather(l, p), row.id = p /\ row.father_id \in ID)
              /\ WithMother(m, p) =
                    Grown(WithMother(l, p), row.id = p /\ row.mother_id \in ID)
              /\ WithFact(m, p, f) =
                    Grown(WithFact(l, p, f), row.id = p /\ row.facts[f] \in Value)
              /\ WithGender(m, p) =
                    Grown(WithGender(l, p), row.id = p /\ row.gender \in {Male, Female})
              /\ Uses(m, p) =
                    Grown(Uses(l, p), row.id \in ID
                                      /\ p \in {row.father_id, row.mother_id})
<1> DEFINE m == Append(l, row)
           n == Len(l)
<1>1. /\ n \in Nat
      /\ Len(m) = n + 1
      /\ 1..Len(m) = (1..n) \cup {n + 1}
      /\ \A i \in 1..n : m[i] = l[i]
      /\ m[n + 1] = row
      /\ n + 1 \notin 1..n
  BY AppendLog
<1> HIDE DEF m, n
<1>2. Own(m, p) = IF row.id = p THEN Own(l, p) \cup {n + 1} ELSE Own(l, p)
  BY <1>1 DEF Own, n
<1>3. WithFather(m, p) = IF row.id = p /\ row.father_id \in ID
                         THEN WithFather(l, p) \cup {n + 1} ELSE WithFather(l, p)
  BY <1>1 DEF WithFather, n
<1>4. WithMother(m, p) = IF row.id = p /\ row.mother_id \in ID
                         THEN WithMother(l, p) \cup {n + 1} ELSE WithMother(l, p)
  BY <1>1 DEF WithMother, n
<1>5. WithFact(m, p, f) = IF row.id = p /\ row.facts[f] \in Value
                          THEN WithFact(l, p, f) \cup {n + 1} ELSE WithFact(l, p, f)
  BY <1>1 DEF WithFact, n
<1>6. WithGender(m, p) = IF row.id = p /\ row.gender \in {Male, Female}
                         THEN WithGender(l, p) \cup {n + 1} ELSE WithGender(l, p)
  BY <1>1 DEF WithGender, n
<1>7. Uses(m, p) = IF row.id \in ID /\ p \in {row.father_id, row.mother_id}
                   THEN Uses(l, p) \cup {n + 1} ELSE Uses(l, p)
  BY <1>1 DEF Uses, n
<1>8. QED
  BY <1>2, <1>3, <1>4, <1>5, <1>6, <1>7 DEF m, n

\* A further row adds its own words after those of the earlier rows.
LEMMA WordsGrow ==
    ASSUME NEW l \in Seq(Row), NEW row \in Row, NEW p
    PROVE  LET m == Append(l, row)
               n == Len(l)
           IN /\ \A i \in 1..n : /\ Names(m)[i] = Names(l)[i]
                                 /\ Fathers(m)[i] = Fathers(l)[i]
                                 /\ Mothers(m)[i] = Mothers(l)[i]
                                 /\ \A f : Facts(m, f)[i] = Facts(l, f)[i]
                                 /\ Livings(m)[i] = Livings(l)[i]
                                 /\ Genders(m)[i] = Genders(l)[i]
                                 /\ Slots(m, p)[i] = Slots(l, p)[i]
              /\ Names(m)[n + 1] = row.name
              /\ Fathers(m)[n + 1] = row.father_id
              /\ Mothers(m)[n + 1] = row.mother_id
              /\ \A f : Facts(m, f)[n + 1] = row.facts[f]
              /\ Livings(m)[n + 1] = RowIsLiving(row)
              /\ Genders(m)[n + 1] = row.gender
              /\ Slots(m, p)[n + 1] = IF row.father_id = p THEN Male ELSE Female
<1> DEFINE m == Append(l, row)
           n == Len(l)
<1>1. /\ 1..Len(m) = (1..n) \cup {n + 1}
      /\ \A i \in 1..n : m[i] = l[i]
      /\ m[n + 1] = row
  BY AppendLog
<1>2. \A i \in 1..n : i \in 1..Len(m) /\ m[i] = l[i]
  BY <1>1
<1>3. n + 1 \in 1..Len(m)
  BY <1>1
<1> HIDE DEF m
<1>4. \A i \in 1..n : /\ Names(m)[i] = Names(l)[i]
                      /\ Fathers(m)[i] = Fathers(l)[i]
                      /\ Mothers(m)[i] = Mothers(l)[i]
                      /\ \A f : Facts(m, f)[i] = Facts(l, f)[i]
                      /\ Livings(m)[i] = Livings(l)[i]
                      /\ Genders(m)[i] = Genders(l)[i]
                      /\ Slots(m, p)[i] = Slots(l, p)[i]
  BY <1>2 DEF Names, Fathers, Mothers, Facts, Livings, Genders, Slots
<1>5. /\ Names(m)[n + 1] = row.name
      /\ Fathers(m)[n + 1] = row.father_id
      /\ Mothers(m)[n + 1] = row.mother_id
      /\ \A f : Facts(m, f)[n + 1] = row.facts[f]
      /\ Livings(m)[n + 1] = RowIsLiving(row)
      /\ Genders(m)[n + 1] = row.gender
      /\ Slots(m, p)[n + 1] = IF row.father_id = p THEN Male ELSE Female
  BY <1>1, <1>3 DEF Names, Fathers, Mothers, Facts, Livings, Genders, Slots
<1>6. QED
  BY <1>4, <1>5 DEF m
-----------------------------------------------------------------------------
\* Before the first row nobody has said anything.
LEMMA EmptyIsTold == Told([p \in ID |-> NIL], <<>>)
<1> DEFINE t == [p \in ID |-> NIL]
<1>1. \A p \in ID : Old(t, p) = NewPerson
  BY DEF Old
<1>2. t \in Store /\ <<>> \in Seq(Row) /\ Len(<<>>) = 0 /\ 1..0 = {}
  BY DEF Store
<1>3. ASSUME NEW p \in ID
      PROVE  PersonAsDeclared(NewPerson, <<>>, p)
  <2>1. /\ Own(<<>>, p) = {} /\ WithFather(<<>>, p) = {} /\ WithMother(<<>>, p) = {}
        /\ \A f : WithFact(<<>>, p, f) = {}
    BY <1>2 DEF Own, WithFather, WithMother, WithFact
  <2>2. /\ NewPerson.father = NIL /\ NewPerson.mother = NIL
        /\ NewPerson.name = NIL /\ NewPerson.is_living = NIL
        /\ \A f \in CheckedField : NewPerson.facts[f] = NIL
    BY DEF NewPerson, Field
  <2>3. QED
    BY <2>1, <2>2 DEF PersonAsDeclared, Says
<1>4. ASSUME NEW p \in ID
      PROVE  GenderSaid(NewPerson.gender, <<>>, p)
  <2>1. WithGender(<<>>, p) = {} /\ Uses(<<>>, p) = {}
    BY <1>2 DEF WithGender, Uses
  <2>2. NewPerson.gender = NIL
    BY DEF NewPerson
  <2>3. QED
    BY <2>1, <2>2 DEF GenderSaid, SaysFirst
<1> HIDE DEF t
<1>5. QED
  BY <1>1, <1>2, <1>3, <1>4 DEF Told, t

\* The part of a row that concerns one person: the person q becomes r.
LEMMA DeclarationStep ==
    ASSUME NEW l \in Seq(Row), NEW row \in Row, NEW p \in ID, NEW q, NEW r,
           PersonAsDeclared(q, l, p),
           r.father = IF row.id = p /\ row.father_id \in ID THEN row.father_id
                      ELSE q.father,
           r.mother = IF row.id = p /\ row.mother_id \in ID THEN row.mother_id
                      ELSE q.mother,
           r.name = IF row.id = p THEN row.name ELSE q.name,
           r.is_living = IF row.id = p THEN RowIsLiving(row) ELSE q.is_living,
           \A f \in CheckedField :
               r.facts[f] = IF row.id = p /\ row.facts[f] \in Value THEN row.facts[f]
                            ELSE q.facts[f]
    PROVE  PersonAsDeclared(r, Append(l, row), p)
<1> DEFINE m == Append(l, row)
           n == Len(l)
<1>1. n \in Nat
  BY AppendLog
<1>2. /\ Own(l, p) \in SUBSET (1..n) /\ WithFather(l, p) \in SUBSET (1..n)
      /\ WithMother(l, p) \in SUBSET (1..n)
      /\ \A f : WithFact(l, p, f) \in SUBSET (1..n)
  BY DEF Own, WithFather, WithMother, WithFact
<1> HIDE DEF m, n
<1>3. Says(WithFather(m, p), Fathers(m), r.father)
  <2>1. Says(WithFather(l, p), Fathers(l), q.father)
    BY DEF PersonAsDeclared
  <2>2. /\ \A i \in WithFather(l, p) : Fathers(m)[i] = Fathers(l)[i]
        /\ Fathers(m)[n + 1] = row.father_id
    BY <1>2, WordsGrow DEF m, n
  <2>3. WithFather(m, p) = IF row.id = p /\ row.father_id \in ID
                           THEN WithFather(l, p) \cup {n + 1} ELSE WithFather(l, p)
    BY PlacesGrow DEF m, n
  <2>4. QED
    BY <1>1, <1>2, <2>1, <2>2, <2>3, LastStep
<1>4. Says(WithMother(m, p), Mothers(m), r.mother)
  <2>1. Says(WithMother(l, p), Mothers(l), q.mother)
    BY DEF PersonAsDeclared
  <2>2. /\ \A i \in WithMother(l, p) : Mothers(m)[i] = Mothers(l)[i]
        /\ Mothers(m)[n + 1] = row.mother_id
    BY <1>2, WordsGrow DEF m, n
  <2>3. WithMother(m, p) = IF row.id = p /\ row.mother_id \in ID
                           THEN WithMother(l, p) \cup {n + 1} ELSE WithMother(l, p)
    BY PlacesGrow DEF m, n
  <2>4. QED
    BY <1>1, <1>2, <2>1, <2>2, <2>3, LastStep
<1>5. Says(Own(m, p), Names(m), r.name) /\ Says(Own(m, p), Livings(m), r.is_living)
  <2>1. Says(Own(l, p), Names(l), q.name) /\ Says(Own(l, p), Livings(l), q.is_living)
    BY DEF PersonAsDeclared
  <2>2. /\ \A i \in Own(l, p) : Names(m)[i] = Names(l)[i] /\ Livings(m)[i] = Livings(l)[i]
        /\ Names(m)[n + 1] = row.name
        /\ Livings(m)[n + 1] = RowIsLiving(row)
    BY <1>2, WordsGrow DEF m, n
  <2>3. Own(m, p) = IF row.id = p THEN Own(l, p) \cup {n + 1} ELSE Own(l, p)
    BY PlacesGrow DEF m, n
  <2>4. Says(Own(m, p), Names(m), r.name)
    BY <1>1, <1>2, <2>1, <2>2, <2>3, LastStep
  <2>5. Says(Own(m, p), Livings(m), r.is_living)
    BY <1>1, <1>2, <2>1, <2>2, <2>3, LastStep
  <2>6. QED
    BY <2>4, <2>5
<1>6. ASSUME NEW f \in CheckedField
      PROVE  Says(WithFact(m, p, f), Facts(m, f), r.facts[f])
  <2>1. Says(WithFact(l, p, f), Facts(l, f), q.facts[f])
    BY DEF PersonAsDeclared
  <2>2. /\ \A i \in WithFact(l, p, f) : Facts(m, f)[i] = Facts(l, f)[i]
        /\ Facts(m, f)[n + 1] = row.facts[f]
    BY <1>2, WordsGrow DEF m, n
  <2>3. WithFact(m, p, f) = IF row.id = p /\ row.facts[f] \in Value
                            THEN WithFact(l, p, f) \cup {n + 1} ELSE WithFact(l, p, f)
    BY PlacesGrow DEF m, n
  <2>4. QED
    BY <1>1, <1>2, <2>1, <2>2, <2>3, LastStep
<1>7. QED
  BY <1>3, <1>4, <1>5, <1>6 DEF PersonAsDeclared, m

\* The same for the gender: the own column, once given, keeps the word, and
\* before it the first use as a parent, father before mother.
LEMMA GenderStep ==
    ASSUME NEW l \in Seq(Row), NEW row \in Row, row.id \in ID, NEW p \in ID,
           NEW x, GenderSaid(x, l, p)
    PROVE  GenderSaid(LET bySlot == GenderBySlot(row, p, x)
                      IN IF p = row.id THEN RowGender(row, bySlot) ELSE bySlot,
                      Append(l, row), p)
<1> DEFINE m == Append(l, row)
           n == Len(l)
           bySlot == GenderBySlot(row, p, x)
           y == IF p = row.id THEN RowGender(row, bySlot) ELSE bySlot
           own == WithGender(l, p)
           use == Uses(l, p)
           given == row.id = p /\ row.gender \in {Male, Female}
           used == p \in {row.father_id, row.mother_id}
<1>1. /\ n \in Nat
      /\ own \in SUBSET (1..n)
      /\ use \in SUBSET (1..n)
      /\ Male # NIL /\ Female # NIL
  BY AppendLog, DistinctAssumption DEF WithGender, Uses, Male, Female
<1>2. /\ WithGender(m, p) = IF given THEN own \cup {n + 1} ELSE own
      /\ Uses(m, p) = IF used THEN use \cup {n + 1} ELSE use
  BY PlacesGrow
<1>3. /\ \A i \in 1..n : /\ Genders(m)[i] = Genders(l)[i]
                         /\ Slots(m, p)[i] = Slots(l, p)[i]
      /\ Genders(m)[n + 1] = row.gender
      /\ Slots(m, p)[n + 1] = IF row.father_id = p THEN Male ELSE Female
  BY WordsGrow, SMTT(30)
<1>4. y = CASE given -> row.gender
            [] ~given /\ x # NIL -> x
            [] ~given /\ x = NIL /\ used ->
                  IF row.father_id = p THEN Male ELSE Female
            [] OTHER -> NIL
  BY DEF GenderBySlot, RowGender
<1>5. own # {} => x \in {Male, Female}
  <2>1. \A i \in own : Genders(l)[i] \in {Male, Female}
    BY DEF WithGender, Genders
  <2>2. QED
    BY <2>1 DEF GenderSaid, Says
<1>6. own = {} => (x = NIL <=> use = {})
  <2>1. \A i \in use : Slots(l, p)[i] # NIL
    BY <1>1 DEF Uses, Slots
  <2>2. QED
    BY <2>1 DEF GenderSaid, SaysFirst
<1> HIDE DEF m, n, bySlot, y, own, use
<1>7. CASE given
  <2>1. own # {} => Says(own, Genders(l), x)
    BY DEF GenderSaid, own
  <2>2. WithGender(m, p) = own \cup {n + 1} /\ y = Genders(m)[n + 1]
    BY <1>2, <1>3, <1>4, <1>7
  <2>3. \A j \in own \cup {n + 1} : j =< n + 1
    BY <1>1
  <2>4. Says(WithGender(m, p), Genders(m), y)
    BY <2>2, <2>3 DEF Says
  <2>5. QED
    BY <2>2, <2>4 DEF GenderSaid, m, y, bySlot
<1>8. CASE ~given /\ own # {}
  <2>1. Says(own, Genders(l), x)
    BY <1>8 DEF GenderSaid, own
  <2>2. WithGender(m, p) = own /\ y = x
    BY <1>1, <1>2, <1>4, <1>5, <1>8
  <2>3. \A i \in own : Genders(m)[i] = Genders(l)[i]
    BY <1>1, <1>3
  <2>4. Says(WithGender(m, p), Genders(m), y)
    BY <1>1, <2>1, <2>2, <2>3, LastStep
  <2>5. QED
    BY <1>8, <2>2, <2>4 DEF GenderSaid, m, y, bySlot
<1>9. CASE ~given /\ own = {}
  <2>1. SaysFirst(use, Slots(l, p), x)
    BY <1>9 DEF GenderSaid, own, use
  <2>2. WithGender(m, p) = {}
    BY <1>2, <1>9
  <2>3. Uses(m, p) = use \/ Uses(m, p) = use \cup {n + 1}
    BY <1>2
  <2>4. y = IF use = {} /\ Uses(m, p) # {} THEN Slots(m, p)[n + 1] ELSE x
    BY <1>2, <1>3, <1>4, <1>6, <1>9
  <2>5. \A i \in use : Slots(m, p)[i] = Slots(l, p)[i]
    BY <1>1, <1>3
  <2>6. SaysFirst(Uses(m, p), Slots(m, p), y)
    BY <1>1, <2>1, <2>3, <2>4, <2>5, FirstStep
  <2>7. QED
    BY <2>2, <2>6 DEF GenderSaid, m, y, bySlot
<1>10. QED
  BY <1>7, <1>8, <1>9
-----------------------------------------------------------------------------
\* An accepted row keeps the invariant of everybody.
LEMMA RowKeepsTold ==
    ASSUME NEW t, NEW l, Told(t, l), NEW row \in Row, row.id \in ID
    PROVE  Told(Stored(t, row), Append(l, row))
<1> DEFINE u == Stored(t, row)
           m == Append(l, row)
<1>1. /\ t \in Store
      /\ l \in Seq(Row)
      /\ m \in Seq(Row)
      /\ RowStep(t, u, row)
  BY StoredEffect, AppendLog DEF Told
<1> HIDE DEF u
<1>2. ASSUME NEW p \in ID
      PROVE  PersonAsDeclared(Old(u, p), m, p)
  <2> DEFINE q == Old(t, p)
             r == Old(u, p)
  <2>1. PersonAsDeclared(q, l, p)
    BY DEF Told
  <2>2. /\ r.father = IF row.id = p /\ row.father_id \in ID THEN row.father_id
                      ELSE q.father
        /\ r.mother = IF row.id = p /\ row.mother_id \in ID THEN row.mother_id
                      ELSE q.mother
        /\ r.name = IF row.id = p THEN row.name ELSE q.name
        /\ r.is_living = IF row.id = p THEN RowIsLiving(row) ELSE q.is_living
        /\ r.facts = IF row.id = p THEN RowFacts(row, q.facts) ELSE q.facts
    BY <1>1 DEF RowStep
  <2>3. ASSUME NEW f \in CheckedField
        PROVE  RowFacts(row, q.facts)[f] =
                  IF row.facts[f] \in Value THEN row.facts[f] ELSE q.facts[f]
    <3>1. /\ f \in Field /\ f # "place_of_death"
          /\ row.facts[f] \in Value \cup {NIL, Malformed}
      BY <1>1 DEF CheckedField, Field, Row, Argument
    <3>2. StoredFact(f, q.facts[f], row.facts[f]) =
             IF row.facts[f] \in Value THEN row.facts[f] ELSE q.facts[f]
      BY <3>1, DistinctAssumption DEF StoredFact
    <3>3. QED
      BY <3>1, <3>2 DEF RowFacts
  <2> HIDE DEF q, r
  <2>4. \A f \in CheckedField :
           r.facts[f] = IF row.id = p /\ row.facts[f] \in Value THEN row.facts[f]
                        ELSE q.facts[f]
    BY <2>2, <2>3
  <2>5. PersonAsDeclared(r, m, p)
    BY <1>1, <2>1, <2>2, <2>4, DeclarationStep
  <2>6. QED
    BY <2>5 DEF r
<1>3. ASSUME NEW p \in ID
      PROVE  GenderSaid(Old(u, p).gender, m, p)
  <2>1. GenderSaid(Old(t, p).gender, l, p)
    BY DEF Told
  <2>2. GenderSaid(LET bySlot == GenderBySlot(row, p, Old(t, p).gender)
                   IN IF p = row.id THEN RowGender(row, bySlot) ELSE bySlot,
                   m, p)
    BY <1>1, <2>1, GenderStep
  <2>3. QED
    BY <1>1, <2>2 DEF RowStep
<1> HIDE DEF m
<1>4. Told(u, m)
  BY <1>1, <1>2, <1>3 DEF Told, RowStep
<1>5. QED
  BY <1>4 DEF u, m

\* A row whose id is refused says nothing about anybody, although it is read.
LEMMA RefusedRowKeepsTold ==
    ASSUME NEW t, NEW l, Told(t, l), NEW row \in Row, row.id \notin ID
    PROVE  Told(t, Append(l, row))
<1> DEFINE m == Append(l, row)
<1>1. t \in Store /\ l \in Seq(Row) /\ m \in Seq(Row)
  BY AppendLog DEF Told
<1>2. ASSUME NEW p \in ID
      PROVE  PersonAsDeclared(Old(t, p), m, p)
  <2>1. PersonAsDeclared(Old(t, p), l, p) /\ row.id # p
    BY DEF Told
  <2>2. QED
    BY <1>1, <2>1, DeclarationStep
<1>3. ASSUME NEW p \in ID
      PROVE  GenderSaid(Old(t, p).gender, m, p)
  <2> DEFINE x == Old(t, p).gender
  <2>1. GenderSaid(x, l, p)
    BY DEF Told
  <2>2. WithGender(m, p) = WithGender(l, p) /\ Uses(m, p) = Uses(l, p)
    BY <1>1, PlacesGrow
  <2>3. \A i \in 1..Len(l) : /\ Genders(m)[i] = Genders(l)[i]
                             /\ Slots(m, p)[i] = Slots(l, p)[i]
    BY <1>1, WordsGrow
  <2>4. WithGender(l, p) \subseteq 1..Len(l) /\ Uses(l, p) \subseteq 1..Len(l)
    BY DEF WithGender, Uses
  <2> HIDE DEF x, m
  <2>5. WithGender(l, p) # {} => Says(WithGender(l, p), Genders(m), x)
    BY <2>1, <2>3, <2>4 DEF GenderSaid, Says
  <2>6. WithGender(l, p) = {} => SaysFirst(Uses(l, p), Slots(m, p), x)
    BY <2>1, <2>3, <2>4 DEF GenderSaid, SaysFirst
  <2>7. GenderSaid(x, m, p)
    BY <2>2, <2>5, <2>6 DEF GenderSaid
  <2>8. QED
    BY <2>7 DEF x
<1> HIDE DEF m
<1>4. Told(t, m)
  BY <1>1, <1>2, <1>3 DEF Told
<1>5. QED
  BY <1>4 DEF m

\* What the rows have said of everybody is what the store holds, always.
LEMMA HistoryIsKept == Spec => []HInv
<1>1. ASSUME Init
      PROVE  Told(people, log)
  BY <1>1, EmptyIsTold DEF Init
<1>2. ASSUME HInv, [Next]_vars
      PROVE  Told(people', log')
  <2>1. ASSUME NEW row \in Rows, AddPerson(row)
        PROVE  Told(people', log')
    BY <1>2, <2>1, RowKeepsTold, RowsAssumption DEF HInv, AddPerson
  <2>2. CASE people' = people /\ log' = log
    BY <1>2, <2>2 DEF HInv
  <2>3. ASSUME people' = people,
               NEW row \in Rows, row.id \notin ID, log' = Append(log, row)
        PROVE  Told(people', log')
    BY <1>2, <2>3, RefusedRowKeepsTold, RowsAssumption DEF HInv
  <2>4. QED
    BY <1>2, <2>1, <2>2, <2>3, StepCases
<1>3. TypeOK /\ Init => HInv
  BY <1>1 DEF HInv
<1>4. TypeOK' /\ HInv /\ [Next]_vars => HInv'
  BY <1>2 DEF HInv
<1>5. QED
  BY <1>3, <1>4, TypeCorrect, PTL DEF Spec

-----------------------------------------------------------------------------
\* The place that SelectLastInSeq, or SelectInSeq, finds.
LastPlace(I) == IF I # {} THEN Max(I) ELSE 0
FirstPlace(I) == IF I # {} THEN Min(I) ELSE 0

\* The last word, or the first, is what is said at the place that is found.
LEMMA LastWord ==
    ASSUME NEW I, I \subseteq Nat \ {0}, NEW g, NEW x, Says(I, g, x)
    PROVE  /\ LastPlace(I) # 0 => LastPlace(I) \in I /\ x = g[LastPlace(I)]
           /\ LastPlace(I) = 0 => I = {} /\ x = NIL
<1>1. I \in SUBSET Nat /\ 0 \notin I
  OBVIOUS
<1>2. CASE I = {}
  BY <1>2 DEF LastPlace, Says
<1>3. CASE I # {}
  <2>1. Max(I) \in I /\ x = g[Max(I)]
    BY <1>1, <1>3, LastIsMax
  <2>2. QED
    BY <1>1, <1>3, <2>1 DEF LastPlace
<1>4. QED
  BY <1>2, <1>3

\* The first word in any role stands at the first place, if there is one.
LEMMA FirstWord ==
    ASSUME NEW I, I \subseteq Nat \ {0}, NEW g, NEW x, SaysFirst(I, g, x)
    PROVE  /\ FirstPlace(I) # 0 => FirstPlace(I) \in I /\ x = g[FirstPlace(I)]
           /\ FirstPlace(I) = 0 => I = {} /\ x = NIL
<1>1. I \in SUBSET Nat /\ 0 \notin I
  OBVIOUS
<1>2. CASE I = {}
  BY <1>2 DEF FirstPlace, SaysFirst
<1>3. CASE I # {}
  <2>1. Min(I) \in I /\ x = g[Min(I)]
    BY <1>1, <1>3, FirstIsMin
  <2>2. QED
    BY <1>1, <1>3, <2>1 DEF FirstPlace
<1>4. QED
  BY <1>2, <1>3

\* What the invariant says of somebody in the hash.
LEMMA KnownAsDeclared ==
    ASSUME HInv, NEW p \in Known
    PROVE  /\ log \in Seq(Row) /\ Len(log) \in Nat /\ p \in ID
           /\ PersonAsDeclared(people[p], log, p)
           /\ GenderSaid(people[p].gender, log, p)
<1>1. p \in ID /\ Old(people, p) = people[p]
  BY DEF Known, Old
<1>2. log \in Seq(Row) /\ Len(log) \in Nat
  BY DEF HInv, Told
<1>3. QED
  BY <1>1, <1>2 DEF HInv, Told

\* Father, mother and name are always those of the last row that gave them,
\* whatever came before and whatever is said of others.
THEOREM LineageIsAlwaysAsDeclared == Spec => []LineageAsDeclared
<1>1. ASSUME HInv, NEW p \in Known
      PROVE  /\ LET i == LastRow(p, LAMBDA r : r.father_id \in ID)
                IN people[p].father = IF i = 0 THEN NIL ELSE log[i].father_id
             /\ LET i == LastRow(p, LAMBDA r : r.mother_id \in ID)
                IN people[p].mother = IF i = 0 THEN NIL ELSE log[i].mother_id
             /\ LET i == LastRow(p, LAMBDA r : TRUE)
                IN people[p].name = IF i = 0 THEN NIL ELSE log[i].name
  <2>1. Len(log) \in Nat /\ PersonAsDeclared(people[p], log, p)
    BY <1>1, KnownAsDeclared
  <2>2. LET i == LastPlace(WithFather(log, p))
        IN people[p].father = IF i = 0 THEN NIL ELSE log[i].father_id
    <3> DEFINE I == WithFather(log, p)
               g == Fathers(log)
               x == people[p].father
    <3>1. /\ I \subseteq 1..Len(log)
          /\ I \subseteq Nat \ {0}
          /\ Says(I, g, x)
          /\ \A i \in 1..Len(log) : g[i] = log[i].father_id
      BY <2>1 DEF PersonAsDeclared, WithFather, Fathers
    <3> HIDE DEF I, g, x
    <3>2. /\ LastPlace(I) # 0 => LastPlace(I) \in I /\ x = g[LastPlace(I)]
          /\ LastPlace(I) = 0 => I = {} /\ x = NIL
      BY <3>1, LastWord, Zenon
    <3>3. QED
      BY <3>1, <3>2 DEF I, x
  <2>3. LET i == LastPlace(WithMother(log, p))
        IN people[p].mother = IF i = 0 THEN NIL ELSE log[i].mother_id
    <3> DEFINE I == WithMother(log, p)
               g == Mothers(log)
               x == people[p].mother
    <3>1. /\ I \subseteq 1..Len(log)
          /\ I \subseteq Nat \ {0}
          /\ Says(I, g, x)
          /\ \A i \in 1..Len(log) : g[i] = log[i].mother_id
      BY <2>1 DEF PersonAsDeclared, WithMother, Mothers
    <3> HIDE DEF I, g, x
    <3>2. /\ LastPlace(I) # 0 => LastPlace(I) \in I /\ x = g[LastPlace(I)]
          /\ LastPlace(I) = 0 => I = {} /\ x = NIL
      BY <3>1, LastWord, Zenon
    <3>3. QED
      BY <3>1, <3>2 DEF I, x
  <2>4. LET i == LastPlace(Own(log, p))
        IN people[p].name = IF i = 0 THEN NIL ELSE log[i].name
    <3> DEFINE I == Own(log, p)
               g == Names(log)
               x == people[p].name
    <3>1. /\ I \subseteq 1..Len(log)
          /\ I \subseteq Nat \ {0}
          /\ Says(I, g, x)
          /\ \A i \in 1..Len(log) : g[i] = log[i].name
      BY <2>1 DEF PersonAsDeclared, Own, Names
    <3> HIDE DEF I, g, x
    <3>2. /\ LastPlace(I) # 0 => LastPlace(I) \in I /\ x = g[LastPlace(I)]
          /\ LastPlace(I) = 0 => I = {} /\ x = NIL
      BY <3>1, LastWord, Zenon
    <3>3. QED
      BY <3>1, <3>2 DEF I, x
  <2>5. LastRow(p, LAMBDA r : r.father_id \in ID) = LastPlace(WithFather(log, p))
    BY DEF LastRow, SelectLastInSeq, WithFather, LastPlace
  <2>6. LastRow(p, LAMBDA r : r.mother_id \in ID) = LastPlace(WithMother(log, p))
    BY DEF LastRow, SelectLastInSeq, WithMother, LastPlace
  <2>7. LastRow(p, LAMBDA r : TRUE) = LastPlace(Own(log, p))
    BY DEF LastRow, SelectLastInSeq, Own, LastPlace
  <2>8. QED
    BY <2>2, <2>3, <2>4, <2>5, <2>6, <2>7, Zenon
<1>2. HInv => LineageAsDeclared
  BY <1>1 DEF LineageAsDeclared
<1>3. QED
  BY <1>2, HistoryIsKept, PTL

\* A checked field always holds the last well-formed value of its person's
\* rows.
THEOREM CheckedFactsAreAlwaysAsDeclared == Spec => []CheckedFactsAsDeclared
<1>1. ASSUME HInv, NEW p \in Known, NEW f \in CheckedField
      PROVE  LET i == LastRow(p, LAMBDA r : r.facts[f] \in Value)
             IN people[p].facts[f] = IF i = 0 THEN NIL ELSE log[i].facts[f]
  <2>1. Len(log) \in Nat /\ PersonAsDeclared(people[p], log, p)
    BY <1>1, KnownAsDeclared
  <2>2. /\ WithFact(log, p, f) \subseteq 1..Len(log)
        /\ WithFact(log, p, f) \subseteq Nat \ {0}
        /\ Says(WithFact(log, p, f), Facts(log, f), people[p].facts[f])
        /\ \A i \in 1..Len(log) : Facts(log, f)[i] = log[i].facts[f]
    <3>1. Says(WithFact(log, p, f), Facts(log, f), people[p].facts[f])
      BY <1>1, <2>1 DEF PersonAsDeclared
    <3>2. /\ WithFact(log, p, f) \subseteq 1..Len(log)
          /\ WithFact(log, p, f) \subseteq Nat \ {0}
          /\ \A i \in 1..Len(log) : Facts(log, f)[i] = log[i].facts[f]
      BY <2>1 DEF WithFact, Facts
    <3>3. QED
      BY <3>1, <3>2
  <2> DEFINE I == WithFact(log, p, f)
             g == Facts(log, f)
             x == people[p].facts[f]
             i == LastPlace(I)
  <2> HIDE DEF I, g, x
  <2>3. /\ LastPlace(I) # 0 => LastPlace(I) \in I /\ x = g[LastPlace(I)]
        /\ LastPlace(I) = 0 => I = {} /\ x = NIL
    <3>1. I \subseteq Nat \ {0} /\ Says(I, g, x)
      BY <2>2 DEF I, g, x
    <3>2. QED
      BY <3>1, LastWord, Zenon
  <2>4. LastRow(p, LAMBDA r : r.facts[f] \in Value) = i
    BY DEF LastRow, SelectLastInSeq, WithFact, LastPlace, I
  <2> HIDE DEF i
  <2>5. people[p].facts[f] = IF i = 0 THEN NIL ELSE log[i].facts[f]
    BY <2>2, <2>3 DEF I, g, x, i
  <2>6. QED
    BY <2>4, <2>5, Zenon
<1>2. HInv => CheckedFactsAsDeclared
  BY <1>1 DEF CheckedFactsAsDeclared
<1>3. QED
  BY <1>2, HistoryIsKept, PTL

\* A gender never depends on more than this: the last gender column of the
\* person's own rows or, without one, the first row that uses the person as
\* a parent; the order of all other rows does not matter.
THEOREM GenderIsAlwaysAsDeclared == Spec => []GenderAsDeclared
<1>1. ASSUME HInv, NEW p \in Known
      PROVE  LET own == LastRow(p, LAMBDA r : r.gender \in {Male, Female})
                 use == SelectInSeq(log, LAMBDA r : r.id \in ID
                                             /\ p \in {r.father_id, r.mother_id})
             IN people[p].gender =
                   IF own # 0 THEN log[own].gender
                   ELSE IF use = 0 THEN NIL
                   ELSE IF log[use].father_id = p THEN Male
                   ELSE Female
  <2> DEFINE own == LastPlace(WithGender(log, p))
             use == FirstPlace(Uses(log, p))
  <2>1. Len(log) \in Nat /\ GenderSaid(people[p].gender, log, p)
    BY <1>1, KnownAsDeclared
  <2>2. /\ WithGender(log, p) \subseteq (1..Len(log)) \cap (Nat \ {0})
        /\ Uses(log, p) \subseteq (1..Len(log)) \cap (Nat \ {0})
        /\ \A i \in 1..Len(log) :
              /\ Genders(log)[i] = log[i].gender
              /\ Slots(log, p)[i] = IF log[i].father_id = p THEN Male ELSE Female
    BY <2>1 DEF WithGender, Uses, Genders, Slots
  <2>3. /\ LastRow(p, LAMBDA r : r.gender \in {Male, Female}) = own
        /\ SelectInSeq(log, LAMBDA r : r.id \in ID
                                /\ p \in {r.father_id, r.mother_id}) = use
    BY DEF LastRow, SelectLastInSeq, SelectInSeq, WithGender, Uses, LastPlace,
           FirstPlace
  <2>4. CASE WithGender(log, p) # {}
    <3>1. Says(WithGender(log, p), Genders(log), people[p].gender)
      BY <2>1, <2>4 DEF GenderSaid
    <3>2. own # 0 /\ own \in WithGender(log, p) /\ people[p].gender = Genders(log)[own]
      BY <2>1, <2>2, <2>4, <3>1, LastWord
    <3> HIDE DEF own
    <3>3. own # 0 /\ people[p].gender = log[own].gender
      BY <2>2, <3>2
    <3>4. QED
      BY <2>3, <3>3, Zenon
  <2>5. CASE WithGender(log, p) = {}
    <3>1. SaysFirst(Uses(log, p), Slots(log, p), people[p].gender)
      BY <2>1, <2>5 DEF GenderSaid
    <3>2. own = 0
      BY <2>5 DEF LastPlace
    <3>3. /\ use # 0 => use \in Uses(log, p) /\ people[p].gender = Slots(log, p)[use]
          /\ use = 0 => people[p].gender = NIL
      BY <2>1, <2>2, <3>1, FirstWord
    <3> HIDE DEF own, use
    <3>4. people[p].gender = IF use = 0 THEN NIL
                             ELSE IF log[use].father_id = p THEN Male ELSE Female
      BY <2>2, <3>3
    <3>5. QED
      BY <2>3, <3>2, <3>4, Zenon
  <2>6. QED
    BY <2>4, <2>5
<1>2. HInv => GenderAsDeclared
  BY <1>1 DEF GenderAsDeclared
<1>3. QED
  BY <1>2, HistoryIsKept, PTL

\* Nobody with a single row is shown as living once a death or a cemetery is
\* stored, nor as dead without one or a column that says so.
THEOREM LivingIsAlwaysAsDeclared == Spec => []LivingAsDeclared
<1>1. ASSUME HInv, NEW p \in LoadedOnce \cap Known
      PROVE  LET row == log[LastRow(p, LAMBDA r : TRUE)]
                 dead == \E f \in {"date_of_death", "cemetery"} :
                             people[p].facts[f] # NIL
             IN people[p].is_living = 0 <=> dead \/ row.is_living = 0
  <2>1. PICK i \in DOMAIN log : RowsOf(p) = {i}
    BY <1>1 DEF LoadedOnce
  <2>2. /\ log \in Seq(Row) /\ Len(log) \in Nat
        /\ PersonAsDeclared(people[p], log, p)
    BY <1>1, KnownAsDeclared
  <2>3. DOMAIN log = 1..Len(log)
    BY <2>2
  <2>4. Own(log, p) = {i} /\ i \in 1..Len(log) /\ i # 0 /\ log[i].id = p
    BY <2>1, <2>3 DEF RowsOf, Own
  <2> DEFINE row == log[i]
  <2>5. row \in Row
    BY <2>2, <2>4, RowsAssumption
  <2>6. people[p].is_living = RowIsLiving(row)
    <3>1. Says({i}, Livings(log), people[p].is_living)
      BY <2>2, <2>4 DEF PersonAsDeclared
    <3>2. QED
      BY <2>4, <3>1 DEF Says, Livings
  <2>7. ASSUME NEW f \in CheckedField
        PROVE  people[p].facts[f] # NIL <=> row.facts[f] \in Value
    <3>1. Says(WithFact(log, p, f), Facts(log, f), people[p].facts[f])
      BY <2>2 DEF PersonAsDeclared
    <3>2. WithFact(log, p, f) = IF row.facts[f] \in Value THEN {i} ELSE {}
      BY <2>4 DEF WithFact, Own
    <3>3. Facts(log, f)[i] = row.facts[f]
      BY <2>4 DEF Facts
    <3>4. NIL \notin Value
      BY DistinctAssumption
    <3> HIDE DEF row
    <3>5. QED
      BY <3>1, <3>2, <3>3, <3>4 DEF Says
  <2>8. LastRow(p, LAMBDA r : TRUE) = i
    <3>1. LastRow(p, LAMBDA r : TRUE) = LastPlace(Own(log, p))
      BY DEF LastRow, SelectLastInSeq, Own, LastPlace
    <3>2. {i} \subseteq Nat \ {0} /\ Says({i}, log, log[i])
      BY <2>2, <2>4 DEF Says
    <3>3. /\ LastPlace({i}) # 0 => LastPlace({i}) \in {i} /\ log[i] = log[LastPlace({i})]
          /\ LastPlace({i}) = 0 => {i} = {} /\ log[i] = NIL
      BY <3>2, LastWord, Zenon
    <3>4. QED
      BY <2>4, <3>1, <3>3
  <2> HIDE DEF row
  <2>9. RowDied(row) <=> \E f \in {"date_of_death", "cemetery"} : people[p].facts[f] # NIL
    BY <2>7 DEF RowDied, CheckedField
  <2>10. RowIsLiving(row) = 0 <=> RowDied(row) \/ row.is_living = 0
    BY <2>5 DEF RowIsLiving, Row, Argument
  <2>11. people[p].is_living = 0 <=>
            \/ \E f \in {"date_of_death", "cemetery"} : people[p].facts[f] # NIL
            \/ row.is_living = 0
    BY <2>6, <2>9, <2>10
  <2>12. QED
    BY <2>8, <2>11, Zenon DEF row
<1>2. HInv => LivingAsDeclared
  BY <1>1 DEF LivingAsDeclared
<1>3. QED
  BY <1>2, HistoryIsKept, PTL
=============================================================================
