------------------------ MODULE FamilyTreeDataProofs ------------------------
(***************************************************************************)
(* Theorems about FamilyTreeData, for every set of ids, every file and     *)
(* every bound: the invariants of the model-checked runs.                  *)
(*                                                                         *)
(* The effect of set_parent and of a whole row is first stated attribute   *)
(* by attribute (lemmas AnyParent and StoredEffect); the invariants are    *)
(* then proved from these facts without expanding the updates again.       *)
(***************************************************************************)
EXTENDS FamilyTreeData, TLAPS

Store == [ID -> Person \cup {NIL}]

\* The Person of q, or the one that Ensure would create.
Old(t, q) == IF t[q] = NIL THEN NewPerson ELSE t[q]

\* Person->new has the type of every other Person.
LEMMA NewPersonType == NewPerson \in Person
BY DEF NewPerson, Person

\* Whoever is there or would be created is a Person.
LEMMA OldType ==
    ASSUME NEW t \in Store, NEW q \in ID
    PROVE  Old(t, q) \in Person
BY NewPersonType DEF Old, Store

\* Ensure puts a Person at its id and touches no other entry.
LEMMA EnsureEffect ==
    ASSUME NEW t \in Store, NEW id \in ID
    PROVE  /\ Ensure(t, id) \in Store
           /\ Ensure(t, id)[id] \in Person
           /\ Ensure(t, id)[id] = Old(t, id)
           /\ \A q \in ID : q # id => Ensure(t, id)[q] = t[q]
BY NewPersonType, DistinctAssumption DEF Ensure, Store, Old

\* The child's side of set_parent changes one parent slot and nothing else.
LEMMA PointToEffect ==
    ASSUME NEW p \in Person, NEW id \in ID, NEW g \in {Male, Female}
    PROVE  /\ PointTo(p, id, g) \in Person
           /\ PointTo(p, id, g).father = IF g = Male THEN id ELSE p.father
           /\ PointTo(p, id, g).mother = IF g = Female THEN id ELSE p.mother
           /\ PointTo(p, id, g).children = p.children
           /\ PointTo(p, id, g).gender = p.gender
           /\ PointTo(p, id, g).name = p.name
           /\ PointTo(p, id, g).facts = p.facts
           /\ PointTo(p, id, g).is_living = p.is_living
BY DEF PointTo, Person, Male, Female

\* The parent's side changes its gender and children and nothing else.
LEMMA AdoptEffect ==
    ASSUME NEW p \in Person, NEW child \in ID, NEW g \in {Male, Female}
    PROVE  /\ Adopt(p, child, g) \in Person
           /\ Adopt(p, child, g).father = p.father
           /\ Adopt(p, child, g).mother = p.mother
           /\ Adopt(p, child, g).children = Append(p.children, child)
           /\ Adopt(p, child, g).gender = IF p.gender = NIL THEN g ELSE p.gender
           /\ Adopt(p, child, g).name = p.name
           /\ Adopt(p, child, g).facts = p.facts
           /\ Adopt(p, child, g).is_living = p.is_living
<1>1. Append(p.children, child) \in Seq(ID)
  BY DEF Person
<1>2. (IF p.gender = NIL THEN g ELSE p.gender) \in {Male, Female, NIL}
  BY DEF Person
<1> DEFINE grown == Append(p.children, child)
           sex == IF p.gender = NIL THEN g ELSE p.gender
<1>3. Adopt(p, child, g) = [p EXCEPT !.gender = sex, !.children = grown]
  BY DEF Adopt, Person
<1> HIDE DEF grown, sex
<1>4. QED
  BY <1>1, <1>2, <1>3 DEF Person, grown, sex

\* u is t after set_parent for this child, id and gender: who is in the hash,
\* and what each attribute of each person has become.  Attributes are read
\* through Old, so that steps compose whoever was there before.
LinkStep(t, u, child, id, g) ==
    /\ u \in Store
    /\ \A q \in ID : u[q] # NIL <=> t[q] # NIL \/ q = id
    /\ \A q \in ID :
          /\ Old(u, q).father = IF q = child /\ g = Male /\ id \in ID
                                THEN id ELSE Old(t, q).father
          /\ Old(u, q).mother = IF q = child /\ g = Female /\ id \in ID
                                THEN id ELSE Old(t, q).mother
          /\ Old(u, q).children = IF q = id THEN Append(Old(t, q).children, child)
                                  ELSE Old(t, q).children
          /\ Old(u, q).gender = IF q = id /\ Old(t, q).gender = NIL THEN g
                                ELSE Old(t, q).gender
          /\ Old(u, q).name = Old(t, q).name
          /\ Old(u, q).facts = Old(t, q).facts
          /\ Old(u, q).is_living = Old(t, q).is_living

\* set_parent with an id that is accepted.
LEMMA AcceptedParent ==
    ASSUME NEW t \in Store, NEW child \in ID, t[child] # NIL,
           NEW id \in ID, NEW g \in {Male, Female}
    PROVE  LinkStep(t, SetParent(t, child, id, g), child, id, g)
<1> DEFINE with == Ensure(t, id)
           pointed == [with EXCEPT ![child] = PointTo(@, id, g)]
           u == [pointed EXCEPT ![id] = Adopt(@, child, g)]
<1>1. /\ with \in Store
      /\ \A q \in ID : with[q] # NIL <=> t[q] # NIL \/ q = id
      /\ \A q \in ID : with[q] # NIL => with[q] = Old(t, q) /\ with[q] \in Person
  BY EnsureEffect, OldType, DistinctAssumption, SMTT(30) DEF Old
<1>2. /\ pointed = [with EXCEPT ![child] = PointTo(with[child], id, g)]
      /\ u = [pointed EXCEPT ![id] = Adopt(pointed[id], child, g)]
  OBVIOUS
<1>3. u = SetParent(t, child, id, g)
  BY DEF SetParent
<1> HIDE DEF with, pointed, u
<1>4. /\ pointed \in Store
      /\ pointed[child] = PointTo(with[child], id, g)
      /\ pointed[child] \in Person
      /\ \A q \in ID : q # child => pointed[q] = with[q]
  BY <1>1, <1>2, PointToEffect DEF Store
<1>5. pointed[id] \in Person
  BY <1>1, <1>4
<1>6. /\ u \in Store
      /\ u[id] = Adopt(pointed[id], child, g)
      /\ u[id] \in Person
      /\ \A q \in ID : q # id => u[q] = pointed[q]
  BY <1>2, <1>4, <1>5, AdoptEffect DEF Store
<1>7. \A q \in ID : u[q] # NIL <=> t[q] # NIL \/ q = id
  BY <1>1, <1>4, <1>6, DistinctAssumption
<1>8. ASSUME NEW q \in ID, u[q] # NIL
      PROVE  /\ with[q] = Old(t, q) /\ with[q] \in Person
             /\ u[q] = LET p == IF q = child THEN PointTo(Old(t, q), id, g)
                                             ELSE Old(t, q)
                       IN IF q = id THEN Adopt(p, child, g) ELSE p
  BY <1>1, <1>4, <1>6, <1>7, <1>8
<1>9. ASSUME NEW q \in ID, u[q] # NIL
      PROVE  /\ u[q].father = IF q = child /\ g = Male THEN id ELSE Old(t, q).father
             /\ u[q].mother = IF q = child /\ g = Female THEN id ELSE Old(t, q).mother
             /\ u[q].children = IF q = id THEN Append(Old(t, q).children, child)
                                ELSE Old(t, q).children
             /\ u[q].gender = IF q = id /\ Old(t, q).gender = NIL THEN g
                              ELSE Old(t, q).gender
             /\ u[q].name = Old(t, q).name
             /\ u[q].facts = Old(t, q).facts
             /\ u[q].is_living = Old(t, q).is_living
  <2> DEFINE old == Old(t, q)
             p == IF q = child THEN PointTo(old, id, g) ELSE old
  <2>1. old \in Person
    BY OldType
  <2>2. u[q] = IF q = id THEN Adopt(p, child, g) ELSE p
    BY <1>8, <1>9
  <2> HIDE DEF old
  <2>3. /\ p \in Person
        /\ p.father = IF q = child /\ g = Male THEN id ELSE old.father
        /\ p.mother = IF q = child /\ g = Female THEN id ELSE old.mother
        /\ p.children = old.children
        /\ p.gender = old.gender
        /\ p.name = old.name
        /\ p.facts = old.facts
        /\ p.is_living = old.is_living
    <3>1. CASE q = child
      <4>1. p = PointTo(old, id, g)
        BY <3>1
      <4>2. /\ PointTo(old, id, g) \in Person
            /\ PointTo(old, id, g).father = IF g = Male THEN id ELSE old.father
            /\ PointTo(old, id, g).mother = IF g = Female THEN id ELSE old.mother
            /\ PointTo(old, id, g).children = old.children
            /\ PointTo(old, id, g).gender = old.gender
            /\ PointTo(old, id, g).name = old.name
            /\ PointTo(old, id, g).facts = old.facts
            /\ PointTo(old, id, g).is_living = old.is_living
        BY <2>1, PointToEffect, Zenon
      <4>3. QED
        BY <3>1, <4>1, <4>2
    <3>2. CASE q # child
      BY <2>1, <3>2
    <3>3. QED
      BY <3>1, <3>2
  <2> HIDE DEF p
  <2>4. CASE q = id
    <3>1. u[q] = Adopt(p, child, g)
      BY <2>2, <2>4
    <3>2. /\ Adopt(p, child, g).father = p.father
          /\ Adopt(p, child, g).mother = p.mother
          /\ Adopt(p, child, g).children = Append(p.children, child)
          /\ Adopt(p, child, g).gender = IF p.gender = NIL THEN g ELSE p.gender
          /\ Adopt(p, child, g).name = p.name
          /\ Adopt(p, child, g).facts = p.facts
          /\ Adopt(p, child, g).is_living = p.is_living
      <4>1. p \in Person
        BY <2>3
      <4>2. QED
        BY <4>1, AdoptEffect, Zenon
    <3>3. QED
      BY <2>3, <2>4, <3>1, <3>2, SMTT(30) DEF old
  <2>5. CASE q # id
    BY <2>2, <2>3, <2>5 DEF old
  <2>6. QED
    BY <2>4, <2>5
<1>10. ASSUME NEW q \in ID, u[q] = NIL
       PROVE  Old(u, q) = Old(t, q) /\ q # child /\ q # id
  BY <1>7, <1>10 DEF Old
<1>11. ASSUME NEW q \in ID, u[q] # NIL
       PROVE  Old(u, q) = u[q]
  BY <1>11 DEF Old
<1>12. LinkStep(t, u, child, id, g)
  BY <1>6, <1>7, <1>9, <1>10, <1>11 DEF LinkStep
<1>13. QED
  BY <1>3, <1>12

\* set_parent with any father_id or mother_id.
LEMMA AnyParent ==
    ASSUME NEW t \in Store, NEW child \in ID, t[child] # NIL,
           NEW id \in Argument(ID), NEW g \in {Male, Female}
    PROVE  LinkStep(t, SetParent(t, child, id, g), child, id, g)
<1>1. CASE id \notin ID
  BY <1>1 DEF SetParent, LinkStep
<1>2. CASE id \in ID
  BY <1>2, AcceptedParent
<1>3. QED
  BY <1>1, <1>2

\* The facts of a person after its row.
RowFacts(row, old) == [f \in Field |-> StoredFact(f, old[f], row.facts[f])]

\* What the columns of the row itself do to its person.
LEMMA DescribeEffect ==
    ASSUME NEW p \in Person, NEW row \in Row
    PROVE  /\ Describe(p, row) \in Person
           /\ Describe(p, row).father = p.father
           /\ Describe(p, row).mother = p.mother
           /\ Describe(p, row).children = p.children
           /\ Describe(p, row).name = p.name
           /\ Describe(p, row).gender = RowGender(row, p.gender)
           /\ Describe(p, row).facts = RowFacts(row, p.facts)
           /\ Describe(p, row).is_living = RowIsLiving(row)
<1> DEFINE sex == RowGender(row, p.gender)
           facts == RowFacts(row, p.facts)
           living == RowIsLiving(row)
<1>1. sex \in {Male, Female, NIL}
  BY DEF RowGender, Person, Male, Female
<1>2. facts \in [Field -> Value \cup {NIL}]
  BY DEF RowFacts, StoredFact, Person, Row, Argument
<1>3. living \in {0, 1, NIL}
  BY DEF RowIsLiving
<1>4. Describe(p, row) = [p EXCEPT !.gender = sex, !.facts = facts,
                                   !.is_living = living]
  BY DEF Describe, RowFacts, Person
<1> HIDE DEF sex, facts, living
<1>5. /\ Describe(p, row) \in Person
      /\ Describe(p, row).father = p.father
      /\ Describe(p, row).mother = p.mother
      /\ Describe(p, row).children = p.children
      /\ Describe(p, row).name = p.name
      /\ Describe(p, row).gender = sex
      /\ Describe(p, row).facts = facts
      /\ Describe(p, row).is_living = living
  BY <1>1, <1>2, <1>3, <1>4 DEF Person
<1>6. QED
  BY <1>5 DEF sex, facts, living

\* The gender of q by the row: its own column or, when it has none, its slot.
GenderBySlot(row, q, old) ==
    CASE old # NIL -> old
      [] old = NIL /\ q = row.father_id -> Male
      [] old = NIL /\ q # row.father_id /\ q = row.mother_id -> Female
      [] OTHER -> NIL

\* u is t after add_person with this row, attribute by attribute.
RowStep(t, u, row) ==
    /\ u \in Store
    /\ \A q \in ID : u[q] # NIL <=>
          t[q] # NIL \/ q \in {row.id, row.father_id, row.mother_id}
    /\ \A q \in ID :
          /\ Old(u, q).father = IF q = row.id /\ row.father_id \in ID
                                THEN row.father_id ELSE Old(t, q).father
          /\ Old(u, q).mother = IF q = row.id /\ row.mother_id \in ID
                                THEN row.mother_id ELSE Old(t, q).mother
          /\ Old(u, q).name = IF q = row.id THEN row.name ELSE Old(t, q).name
          /\ Old(u, q).children =
                LET fathered == IF q = row.father_id
                                THEN Append(Old(t, q).children, row.id)
                                ELSE Old(t, q).children
                IN IF q = row.mother_id THEN Append(fathered, row.id) ELSE fathered
          /\ Old(u, q).gender =
                LET bySlot == GenderBySlot(row, q, Old(t, q).gender)
                IN IF q = row.id THEN RowGender(row, bySlot) ELSE bySlot
          /\ Old(u, q).facts = IF q = row.id THEN RowFacts(row, Old(t, q).facts)
                                 ELSE Old(t, q).facts
          /\ Old(u, q).is_living = IF q = row.id THEN RowIsLiving(row)
                                   ELSE Old(t, q).is_living

\* The four parts of add_person compose to RowStep.
LEMMA StoredEffect ==
    ASSUME NEW t \in Store, NEW row \in Row, row.id \in ID
    PROVE  RowStep(t, Stored(t, row), row)
<1> DEFINE ensured == Ensure(t, row.id)
           named == [ensured EXCEPT ![row.id].name = row.name]
           fathered == SetParent(named, row.id, row.father_id, Male)
           linked == SetParent(fathered, row.id, row.mother_id, Female)
           u == [linked EXCEPT ![row.id] = Describe(@, row)]
<1>1. /\ row.name \in Name
      /\ row.father_id \in Argument(ID)
      /\ row.mother_id \in Argument(ID)
  BY DEF Row
<1>2. /\ ensured \in Store
      /\ ensured[row.id] = Old(t, row.id)
      /\ ensured[row.id] \in Person
      /\ \A q \in ID : q # row.id => ensured[q] = t[q]
  BY EnsureEffect
<1>3. /\ named = [ensured EXCEPT ![row.id] = [ensured[row.id] EXCEPT !.name = row.name]]
      /\ u = [linked EXCEPT ![row.id] = Describe(linked[row.id], row)]
  BY <1>2 DEF Store, Person
<1>4. u = Stored(t, row)
  BY DEF Stored
<1> HIDE DEF ensured, named, fathered, linked, u
<1>5. /\ named \in Store
      /\ \A q \in ID : named[q] # NIL <=> t[q] # NIL \/ q = row.id
      /\ \A q \in ID :
            /\ Old(named, q).father = Old(t, q).father
            /\ Old(named, q).mother = Old(t, q).mother
            /\ Old(named, q).children = Old(t, q).children
            /\ Old(named, q).gender = Old(t, q).gender
            /\ Old(named, q).facts = Old(t, q).facts
            /\ Old(named, q).is_living = Old(t, q).is_living
            /\ Old(named, q).name = IF q = row.id THEN row.name ELSE Old(t, q).name
  <2> DEFINE person == [ensured[row.id] EXCEPT !.name = row.name]
  <2>1. /\ person \in Person
        /\ person.father = Old(t, row.id).father
        /\ person.mother = Old(t, row.id).mother
        /\ person.children = Old(t, row.id).children
        /\ person.gender = Old(t, row.id).gender
        /\ person.facts = Old(t, row.id).facts
        /\ person.is_living = Old(t, row.id).is_living
        /\ person.name = row.name
    BY <1>1, <1>2 DEF Person
  <2>2. named = [ensured EXCEPT ![row.id] = person]
    BY <1>3
  <2> HIDE DEF person
  <2>3. /\ named \in Store
        /\ named[row.id] = person
        /\ \A q \in ID : q # row.id => named[q] = t[q]
    BY <1>2, <2>1, <2>2 DEF Store
  <2>4. /\ Old(named, row.id) = person
        /\ \A q \in ID : q # row.id => Old(named, q) = Old(t, q)
    BY <2>1, <2>3, DistinctAssumption DEF Old
  <2>5. QED
    BY <2>1, <2>3, <2>4, DistinctAssumption
<1>6. LinkStep(named, fathered, row.id, row.father_id, Male)
  BY <1>1, <1>5, AnyParent DEF fathered
<1>7. fathered \in Store /\ fathered[row.id] # NIL
  BY <1>5, <1>6 DEF LinkStep
<1>8. LinkStep(fathered, linked, row.id, row.mother_id, Female)
  BY <1>1, <1>7, AnyParent DEF linked
<1>9. linked \in Store /\ linked[row.id] \in Person /\ Old(linked, row.id) = linked[row.id]
  BY <1>7, <1>8 DEF LinkStep, Store, Old
<1>10. /\ u \in Store
       /\ \A q \in ID : u[q] # NIL <=> linked[q] # NIL
       /\ \A q \in ID :
             /\ Old(u, q).father = Old(linked, q).father
             /\ Old(u, q).mother = Old(linked, q).mother
             /\ Old(u, q).children = Old(linked, q).children
             /\ Old(u, q).name = Old(linked, q).name
             /\ Old(u, q).gender = IF q = row.id
                                   THEN RowGender(row, Old(linked, q).gender)
                                   ELSE Old(linked, q).gender
             /\ Old(u, q).facts = IF q = row.id THEN RowFacts(row, Old(linked, q).facts)
                                    ELSE Old(linked, q).facts
             /\ Old(u, q).is_living = IF q = row.id THEN RowIsLiving(row)
                                      ELSE Old(linked, q).is_living
  <2> DEFINE person == Describe(linked[row.id], row)
  <2>1. /\ person \in Person
        /\ person.father = Old(linked, row.id).father
        /\ person.mother = Old(linked, row.id).mother
        /\ person.children = Old(linked, row.id).children
        /\ person.name = Old(linked, row.id).name
        /\ person.gender = RowGender(row, Old(linked, row.id).gender)
        /\ person.facts = RowFacts(row, Old(linked, row.id).facts)
        /\ person.is_living = RowIsLiving(row)
    BY <1>9, DescribeEffect
  <2>2. u = [linked EXCEPT ![row.id] = person]
    BY <1>3
  <2> HIDE DEF person
  <2>3. /\ u \in Store
        /\ u[row.id] = person
        /\ \A q \in ID : q # row.id => u[q] = linked[q]
    BY <1>9, <2>1, <2>2 DEF Store
  <2>4. /\ Old(u, row.id) = person
        /\ \A q \in ID : q # row.id => Old(u, q) = Old(linked, q)
    BY <2>1, <2>3, DistinctAssumption DEF Old
  <2>5. QED
    BY <1>9, <2>1, <2>3, <2>4, DistinctAssumption
<1>11. \A q \in ID : u[q] # NIL <=>
          t[q] # NIL \/ q \in {row.id, row.father_id, row.mother_id}
  BY <1>5, <1>6, <1>8, <1>10 DEF LinkStep
<1>12. Male # NIL /\ Female # NIL /\ Male # Female
  BY DistinctAssumption DEF Male, Female
<1>13. ASSUME NEW q \in ID
       PROVE  /\ Old(u, q).father = IF q = row.id /\ row.father_id \in ID
                                    THEN row.father_id ELSE Old(t, q).father
              /\ Old(u, q).mother = IF q = row.id /\ row.mother_id \in ID
                                    THEN row.mother_id ELSE Old(t, q).mother
              /\ Old(u, q).name = IF q = row.id THEN row.name ELSE Old(t, q).name
              /\ Old(u, q).children =
                    LET c == IF q = row.father_id
                             THEN Append(Old(t, q).children, row.id)
                             ELSE Old(t, q).children
                    IN IF q = row.mother_id THEN Append(c, row.id) ELSE c
              /\ Old(u, q).gender =
                    LET bySlot == GenderBySlot(row, q, Old(t, q).gender)
                    IN IF q = row.id THEN RowGender(row, bySlot) ELSE bySlot
              /\ Old(u, q).facts = IF q = row.id THEN RowFacts(row, Old(t, q).facts)
                                     ELSE Old(t, q).facts
              /\ Old(u, q).is_living = IF q = row.id THEN RowIsLiving(row)
                                       ELSE Old(t, q).is_living
  <2>1. /\ Old(fathered, q).father = IF q = row.id /\ row.father_id \in ID
                                     THEN row.father_id ELSE Old(named, q).father
        /\ Old(fathered, q).mother = Old(named, q).mother
        /\ Old(fathered, q).children = IF q = row.father_id
                                       THEN Append(Old(named, q).children, row.id)
                                       ELSE Old(named, q).children
        /\ Old(fathered, q).gender = IF q = row.father_id /\ Old(named, q).gender = NIL
                                     THEN Male ELSE Old(named, q).gender
        /\ Old(fathered, q).name = Old(named, q).name
        /\ Old(fathered, q).facts = Old(named, q).facts
        /\ Old(fathered, q).is_living = Old(named, q).is_living
    BY <1>6, <1>12 DEF LinkStep
  <2>2. /\ Old(linked, q).father = Old(fathered, q).father
        /\ Old(linked, q).mother = IF q = row.id /\ row.mother_id \in ID
                                   THEN row.mother_id ELSE Old(fathered, q).mother
        /\ Old(linked, q).children = IF q = row.mother_id
                                     THEN Append(Old(fathered, q).children, row.id)
                                     ELSE Old(fathered, q).children
        /\ Old(linked, q).gender = IF q = row.mother_id /\ Old(fathered, q).gender = NIL
                                   THEN Female ELSE Old(fathered, q).gender
        /\ Old(linked, q).name = Old(fathered, q).name
        /\ Old(linked, q).facts = Old(fathered, q).facts
        /\ Old(linked, q).is_living = Old(fathered, q).is_living
    BY <1>8, <1>12 DEF LinkStep
  <2>3. /\ Old(u, q).father = IF q = row.id /\ row.father_id \in ID
                              THEN row.father_id ELSE Old(t, q).father
        /\ Old(u, q).mother = IF q = row.id /\ row.mother_id \in ID
                              THEN row.mother_id ELSE Old(t, q).mother
        /\ Old(u, q).name = IF q = row.id THEN row.name ELSE Old(t, q).name
    BY <1>5, <1>10, <2>1, <2>2
  <2>4. Old(u, q).children =
           LET c == IF q = row.father_id THEN Append(Old(t, q).children, row.id)
                    ELSE Old(t, q).children
           IN IF q = row.mother_id THEN Append(c, row.id) ELSE c
    <3>1. Old(u, q).children = Old(linked, q).children
      BY <1>10
    <3>2. Old(named, q).children = Old(t, q).children
      BY <1>5
    <3>3. QED
      BY <2>1, <2>2, <3>1, <3>2
  <2>5. Old(linked, q).gender = GenderBySlot(row, q, Old(t, q).gender)
    BY <1>5, <1>12, <2>1, <2>2 DEF GenderBySlot
  <2>6. Old(linked, q).facts = Old(t, q).facts
        /\ Old(linked, q).is_living = Old(t, q).is_living
    BY <1>5, <2>1, <2>2
  <2>7. QED
    BY <1>10, <2>3, <2>4, <2>5, <2>6
<1>14. RowStep(t, u, row)
  BY <1>10, <1>11, <1>13 DEF RowStep
<1>15. QED
  BY <1>4, <1>14

\* What the invariants need of it: a gender is kept, and parents have one.
LEMMA RowGenders ==
    ASSUME NEW t, NEW u, NEW row, RowStep(t, u, row), NEW q \in ID
    PROVE  /\ Old(t, q).gender # NIL => Old(u, q).gender # NIL
           /\ q \in {row.father_id, row.mother_id} => Old(u, q).gender # NIL
<1>1. /\ Old(t, q).gender # NIL => GenderBySlot(row, q, Old(t, q).gender) # NIL
      /\ q \in {row.father_id, row.mother_id} =>
            GenderBySlot(row, q, Old(t, q).gender) # NIL
  BY DistinctAssumption DEF GenderBySlot, Male, Female
<1>2. \A old : old # NIL => RowGender(row, old) # NIL
  BY DistinctAssumption DEF RowGender, Male, Female
<1>3. \/ Old(u, q).gender = GenderBySlot(row, q, Old(t, q).gender)
      \/ Old(u, q).gender = RowGender(row, GenderBySlot(row, q, Old(t, q).gender))
  BY DEF RowStep
<1>4. QED
  BY <1>1, <1>2, <1>3

-----------------------------------------------------------------------------
\* A list that grows at its end keeps what it listed.
LEMMA AppendOccurs ==
    ASSUME NEW s \in Seq(ID), NEW e \in ID
    PROVE  /\ Append(s, e) \in Seq(ID)
           /\ Append(s, e) # <<>>
           /\ Len(s) =< Len(Append(s, e))
           /\ \A i \in 1..Len(s) : Append(s, e)[i] = s[i]
           /\ \A x : Occurs(x, Append(s, e)) <=> Occurs(x, s) \/ x = e
<1> DEFINE a == Append(s, e)
<1>1. /\ a \in Seq(ID)
      /\ Len(a) = Len(s) + 1
      /\ \A i \in 1..Len(s) : a[i] = s[i]
      /\ a[Len(s) + 1] = e
      /\ Len(s) \in Nat
  OBVIOUS
<1> HIDE DEF a
<1>2. a # <<>>
  BY <1>1
<1>3. ASSUME NEW x
      PROVE  Occurs(x, a) <=> Occurs(x, s) \/ x = e
  <2>1. 1..Len(a) = (1..Len(s)) \cup {Len(s) + 1}
    BY <1>1
  <2>2. QED
    BY <1>1, <2>1 DEF Occurs
<1>4. QED
  BY <1>1, <1>2, <1>3 DEF a

\* A row changes the children of its two parents only, at the end, and lists
\* nobody there but the row's person.
LEMMA RowChildren ==
    ASSUME NEW t \in Store, NEW u, NEW row, row.id \in ID,
           RowStep(t, u, row), NEW q \in ID
    PROVE  LET old == Old(t, q).children
               new == Old(u, q).children
           IN /\ \A x : Occurs(x, new) <=>
                    Occurs(x, old) \/ (x = row.id /\ q \in {row.father_id, row.mother_id})
              /\ new # <<>> <=> old # <<>> \/ q \in {row.father_id, row.mother_id}
              /\ Len(old) =< Len(new)
              /\ \A i \in 1..Len(old) : new[i] = old[i]
<1> DEFINE old == Old(t, q).children
           once == IF q = row.father_id THEN Append(old, row.id) ELSE old
           new == Old(u, q).children
<1>1. old \in Seq(ID)
  BY OldType DEF Person
<1>2. new = IF q = row.mother_id THEN Append(once, row.id) ELSE once
  BY DEF RowStep
<1> HIDE DEF old, new
<1>3. /\ once \in Seq(ID)
      /\ \A x : Occurs(x, once) <=> Occurs(x, old) \/ (x = row.id /\ q = row.father_id)
      /\ once # <<>> <=> old # <<>> \/ q = row.father_id
      /\ Len(old) =< Len(once)
      /\ \A i \in 1..Len(old) : once[i] = old[i]
  <2>1. CASE q = row.father_id
    BY <1>1, <2>1, AppendOccurs
  <2>2. CASE q # row.father_id
    BY <1>1, <2>2
  <2>3. QED
    BY <2>1, <2>2
<1> HIDE DEF once
<1>4. /\ \A x : Occurs(x, new) <=> Occurs(x, once) \/ (x = row.id /\ q = row.mother_id)
      /\ new # <<>> <=> once # <<>> \/ q = row.mother_id
      /\ Len(once) =< Len(new)
      /\ \A i \in 1..Len(once) : new[i] = once[i]
  <2>1. CASE q = row.mother_id
    BY <1>2, <1>3, <2>1, AppendOccurs
  <2>2. CASE q # row.mother_id
    BY <1>2, <1>3, <2>2
  <2>3. QED
    BY <2>1, <2>2
<1>5. /\ Len(old) =< Len(new)
      /\ \A i \in 1..Len(old) : new[i] = old[i]
  <2>1. Len(old) \in Nat /\ Len(once) \in Nat /\ Len(old) =< Len(once)
    BY <1>1, <1>3
  <2>2. new \in Seq(ID)
    BY <1>2, <1>3, AppendOccurs
  <2>3. Len(new) \in Nat
    BY <2>2
  <2>4. QED
    BY <1>3, <1>4, <2>1, <2>3
<1>6. QED
  BY <1>3, <1>4, <1>5 DEF old, new

-----------------------------------------------------------------------------
\* The step of add_person, in the terms of the lemmas above.
LEMMA AddPersonStep ==
    ASSUME TypeOK, NEW row \in Rows, AddPerson(row)
    PROVE  RowStep(people, people', row)
BY StoredEffect, RowsAssumption DEF AddPerson, TypeOK, Store

\* Every entry of the hash is undefined or a Person with attributes of the
\* types that the pages read, whatever the rows and their order.
THEOREM TypeCorrect == Spec => []TypeOK
<1>1. Init => TypeOK
  <2>1. <<>> \in Seq(Rows)
    OBVIOUS
  <2>2. QED
    BY <2>1 DEF Init, TypeOK
<1>2. ASSUME TypeOK, [Next]_vars
      PROVE  TypeOK'
  <2>1. ASSUME NEW row \in Rows, AddPerson(row)
        PROVE  TypeOK'
    BY <1>2, <2>1, AddPersonStep DEF TypeOK, AddPerson, RowStep, Store
  <2>2. ASSUME NEW row \in Rows, RefuseId(row)
        PROVE  TypeOK'
    BY <1>2, <2>2 DEF TypeOK, RefuseId
  <2>3. ASSUME NEW row \in Rows, MissingId(row)
        PROVE  TypeOK'
    BY <1>2, <2>3 DEF TypeOK, MissingId
  <2>4. CASE UNCHANGED vars
    BY <1>2, <2>4 DEF TypeOK, vars
  <2>5. QED
    BY <1>2, <2>1, <2>2, <2>3, <2>4 DEF Next
<1>3. QED
  BY <1>1, <1>2, PTL DEF Spec

\* One way to finish all invariants about people alone: rows that are refused
\* and the row that dies leave the store as it was.
LEMMA StepCases ==
    ASSUME [Next]_vars
    PROVE  \/ \E row \in Rows : AddPerson(row)
           \/ people' = people /\ log' = log
           \/ people' = people /\ \E row \in Rows : row.id \notin ID /\ log' = Append(log, row)
<1>1. ASSUME NEW row \in Rows, RefuseId(row)
      PROVE  people' = people /\ row.id \notin ID /\ log' = Append(log, row)
  BY <1>1, DistinctAssumption DEF RefuseId
<1>2. ASSUME NEW row \in Rows, MissingId(row)
      PROVE  people' = people /\ log' = log
  BY <1>2 DEF MissingId
<1>3. QED
  BY <1>1, <1>2 DEF Next, vars

\* ParentsListTheirChildren read through Old, for any store.
Meets(t) ==
    \A c, p \in ID : p \in {Old(t, c).father, Old(t, c).mother} =>
        t[p] # NIL /\ Occurs(c, Old(t, p).children)

\* The two ways to state it agree on typed stores.
LEMMA MeetsIsTheProperty ==
    people \in Store => (ParentsListTheirChildren <=> Meets(people))
<1> SUFFICES ASSUME people \in Store
             PROVE  ParentsListTheirChildren <=> Meets(people)
  OBVIOUS
<1>1. \A q \in ID : people[q] # NIL => Old(people, q) = people[q]
  BY DEF Old
<1>2. \A q \in ID : people[q] = NIL => /\ Old(people, q).father = NIL
                                       /\ Old(people, q).mother = NIL
  BY DEF Old, NewPerson
<1>3. NIL \notin ID
  BY DistinctAssumption
<1>4. \A q \in Known : {people[q].father, people[q].mother} \subseteq ID \cup {NIL}
  BY DistinctAssumption DEF Store, Known, Person
<1>5. QED
  BY <1>1, <1>2, <1>3, <1>4
     DEF ParentsListTheirChildren, Meets, Parents, Lists, Known

-----------------------------------------------------------------------------
\* The strengthening under which what the file says of a person is inductive:
\* a person that has a row is in the hash.  Without it a parent created by a
\* later row could be one whose own row has already been read.
RowsAreKnown(t, l) == \A i \in 1..Len(l) : l[i].id \in ID => t[l[i].id] # NIL

\* PlaceholdersAreParents and ChildrenWereDeclared, read through Old.
Placeholders(t, l) ==
    \A q \in ID :
        /\ t[q] # NIL /\ Old(t, q).name = NIL =>
              /\ Old(t, q).children # <<>>
              /\ \A i \in 1..Len(l) : l[i].id # q
        /\ Old(t, q).children # <<>> => Old(t, q).gender # NIL

Declared(t, l) ==
    \A p, c \in ID :
        Occurs(c, Old(t, p).children) =>
            /\ t[c] # NIL
            /\ \E i \in 1..Len(l) : /\ l[i].id = c
                                    /\ p \in {l[i].father_id, l[i].mother_id}

\* A store and the rows it was made of.  This is about any store and any rows,
\* so that it holds of every loader, whatever it does around add_person.
Consistent(t, l) ==
    /\ t \in Store
    /\ l \in Seq(Row)
    /\ Meets(t)
    /\ RowsAreKnown(t, l)
    /\ Placeholders(t, l)
    /\ Declared(t, l)

IInv == TypeOK /\ Consistent(people, log)

\* The rows read so far only grow, so facts about one of them stay.
LEMMA AppendLog ==
    ASSUME NEW l \in Seq(Row), NEW row \in Row
    PROVE  /\ Append(l, row) \in Seq(Row)
           /\ Len(l) \in Nat
           /\ Len(Append(l, row)) = Len(l) + 1
           /\ 1..Len(Append(l, row)) = (1..Len(l)) \cup {Len(l) + 1}
           /\ \A i \in 1..Len(l) : Append(l, row)[i] = l[i]
           /\ Append(l, row)[Len(l) + 1] = row
OBVIOUS

\* The log of a file is a sequence of rows.
LEMMA LogType == TypeOK => people \in Store /\ log \in Seq(Row)
BY RowsAssumption DEF TypeOK, Store

\* The empty store is consistent with the empty file.
LEMMA EmptyIsConsistent == Consistent([p \in ID |-> NIL], <<>>)
<1> DEFINE t == [p \in ID |-> NIL]
<1>1. t \in Store /\ <<>> \in Seq(Row) /\ Len(<<>>) = 0 /\ 1..0 = {}
  BY DEF Store
<1>2. RowsAreKnown(t, <<>>)
  BY <1>1 DEF RowsAreKnown
<1>3. \A q \in ID : t[q] = NIL /\ Old(t, q) = NewPerson
  BY DEF Old
<1>4. /\ NewPerson.children = <<>> /\ NewPerson.father = NIL /\ NewPerson.mother = NIL
      /\ \A x : ~Occurs(x, <<>>)
      /\ NIL \notin ID
  BY <1>1, DistinctAssumption DEF NewPerson, Occurs
<1> HIDE DEF t
<1>5. QED
  BY <1>1, <1>2, <1>3, <1>4 DEF Consistent, Meets, Placeholders, Declared, t

\* An accepted row keeps each of its parts.
LEMMA RowKeepsConsistent ==
    ASSUME NEW t, NEW l, Consistent(t, l), NEW row \in Row, row.id \in ID
    PROVE  Consistent(Stored(t, row), Append(l, row))
<1> DEFINE u == Stored(t, row)
           m == Append(l, row)
<1>1. /\ row.name \in Name
      /\ t \in Store
      /\ l \in Seq(Row)
      /\ RowStep(t, u, row)
  BY StoredEffect DEF Consistent, Row
<1>2. NIL \notin ID /\ NIL \notin Name
  BY DistinctAssumption
<1>3. ASSUME NEW i \in 1..Len(m)
      PROVE  (i \in 1..Len(l) /\ m[i] = l[i]) \/ m[i] = row
  BY <1>1, AppendLog
<1>4. ASSUME NEW i \in 1..Len(l)
      PROVE  i \in 1..Len(m) /\ m[i] = l[i]
  BY <1>1, AppendLog
<1>5. Len(l) + 1 \in 1..Len(m) /\ m[Len(l) + 1] = row /\ m \in Seq(Row)
  BY <1>1, AppendLog
<1> HIDE DEF m, u
<1>6. u \in Store /\ \A q \in ID : t[q] # NIL => u[q] # NIL
  BY <1>1 DEF RowStep
<1>7. RowsAreKnown(u, m)
  BY <1>1, <1>3, <1>6 DEF RowsAreKnown, Consistent, RowStep
<1>8. ASSUME NEW q \in ID
      PROVE  /\ \A x : Occurs(x, Old(u, q).children) <=>
                   \/ Occurs(x, Old(t, q).children)
                   \/ x = row.id /\ q \in {row.father_id, row.mother_id}
             /\ Old(u, q).children # <<>> <=>
                   \/ Old(t, q).children # <<>>
                   \/ q \in {row.father_id, row.mother_id}
  <2>1. ASSUME NEW x
        PROVE  Occurs(x, Old(u, q).children) <=>
                  \/ Occurs(x, Old(t, q).children)
                  \/ x = row.id /\ q \in {row.father_id, row.mother_id}
    BY <1>1, RowChildren
  <2>2. Old(u, q).children # <<>> <=>
           Old(t, q).children # <<>> \/ q \in {row.father_id, row.mother_id}
    BY <1>1, RowChildren
  <2>3. QED
    BY <2>1, <2>2
<1>9. Meets(u)
  <2> SUFFICES ASSUME NEW c \in ID, NEW p \in ID,
                      p \in {Old(u, c).father, Old(u, c).mother}
               PROVE  u[p] # NIL /\ Occurs(c, Old(u, p).children)
    BY DEF Meets
  <2>1. Meets(t)
    BY DEF Consistent
  <2>2. \/ p \in {Old(t, c).father, Old(t, c).mother}
        \/ c = row.id /\ p \in {row.father_id, row.mother_id}
    BY <1>1 DEF RowStep
  <2>3. u[p] # NIL
    BY <1>1, <2>1, <2>2 DEF Meets, RowStep
  <2>4. QED
    BY <1>8, <2>1, <2>2, <2>3 DEF Meets
<1>10. Placeholders(u, m)
  <2>1. ASSUME NEW q \in ID, u[q] # NIL, Old(u, q).name = NIL
        PROVE  /\ Old(u, q).children # <<>>
               /\ \A i \in 1..Len(m) : m[i].id # q
    <3>1. q # row.id /\ Old(t, q).name = NIL
      BY <1>1, <1>2, <2>1 DEF RowStep
    <3>2. t[q] # NIL \/ q \in {row.father_id, row.mother_id}
      BY <1>1, <2>1, <3>1 DEF RowStep
    <3>3. Old(u, q).children # <<>>
      BY <1>8, <3>1, <3>2 DEF Consistent, Placeholders
    <3>4. \A i \in 1..Len(l) : l[i].id # q
      BY <3>1 DEF Consistent, Placeholders, RowsAreKnown
    <3>5. QED
      BY <1>3, <3>1, <3>3, <3>4
  <2>2. ASSUME NEW q \in ID, Old(u, q).children # <<>>
        PROVE  Old(u, q).gender # NIL
    BY <1>1, <1>8, <2>2, RowGenders DEF Consistent, Placeholders
  <2>3. QED
    BY <2>1, <2>2 DEF Placeholders
<1>11. Declared(u, m)
  <2> SUFFICES ASSUME NEW p \in ID, NEW c \in ID, Occurs(c, Old(u, p).children)
               PROVE  /\ u[c] # NIL
                      /\ \E i \in 1..Len(m) :
                            m[i].id = c /\ p \in {m[i].father_id, m[i].mother_id}
    BY DEF Declared
  <2>1. CASE Occurs(c, Old(t, p).children)
    BY <1>4, <1>6, <2>1 DEF Consistent, Declared
  <2>2. CASE c = row.id /\ p \in {row.father_id, row.mother_id}
    BY <1>1, <1>5, <2>2 DEF RowStep
  <2>3. QED
    BY <1>8, <2>1, <2>2
<1>12. Consistent(u, m)
  BY <1>5, <1>6, <1>7, <1>9, <1>10, <1>11 DEF Consistent
<1>13. QED
  BY <1>12 DEF u, m

\* A row whose id is refused is read, and tells the store nothing.
LEMMA RefusedRowKeepsConsistent ==
    ASSUME NEW t, NEW l, Consistent(t, l), NEW row \in Row, row.id \notin ID
    PROVE  Consistent(t, Append(l, row))
<1> DEFINE m == Append(l, row)
<1>1. l \in Seq(Row)
  BY DEF Consistent
<1>2. ASSUME NEW i \in 1..Len(m)
      PROVE  (i \in 1..Len(l) /\ m[i] = l[i]) \/ m[i].id \notin ID
  BY <1>1, AppendLog
<1>3. ASSUME NEW i \in 1..Len(l)
      PROVE  i \in 1..Len(m) /\ m[i] = l[i]
  BY <1>1, AppendLog
<1>4. m \in Seq(Row)
  BY <1>1, AppendLog
<1> HIDE DEF m
<1>5. RowsAreKnown(t, m)
  BY <1>2 DEF Consistent, RowsAreKnown
<1>6. Placeholders(t, m)
  BY <1>2 DEF Consistent, Placeholders
<1>7. Declared(t, m)
  BY <1>3 DEF Consistent, Declared
<1>8. Consistent(t, m)
  BY <1>4, <1>5, <1>6, <1>7 DEF Consistent
<1>9. QED
  BY <1>8 DEF m

\* The strengthened invariant holds of every store that rows can build.
LEMMA Invariance == Spec => []IInv
<1>1. ASSUME Init
      PROVE  Consistent(people, log)
  BY <1>1, EmptyIsConsistent DEF Init
<1>2. ASSUME IInv, [Next]_vars
      PROVE  Consistent(people', log')
  <2>1. ASSUME NEW row \in Rows, AddPerson(row)
        PROVE  Consistent(people', log')
    BY <1>2, <2>1, RowKeepsConsistent, RowsAssumption DEF IInv, AddPerson
  <2>2. CASE people' = people /\ log' = log
    BY <1>2, <2>2 DEF IInv
  <2>3. ASSUME people' = people,
               NEW row \in Rows, row.id \notin ID, log' = Append(log, row)
        PROVE  Consistent(people', log')
    BY <1>2, <2>3, RefusedRowKeepsConsistent, RowsAssumption DEF IInv
  <2>4. QED
    BY <1>2, <2>1, <2>2, <2>3, StepCases
<1>3. TypeOK /\ Init => IInv
  BY <1>1 DEF IInv
<1>4. TypeOK' /\ IInv /\ [Next]_vars => IInv'
  BY <1>2 DEF IInv
<1>5. QED
  BY <1>3, <1>4, TypeCorrect, PTL DEF Spec

\* The pointers to parents and the lists of children never disagree: this is
\* what lets the pages climb by one and come down by the other.
THEOREM ParentsAlwaysListTheirChildren == Spec => []ParentsListTheirChildren
<1>1. IInv => ParentsListTheirChildren
  BY MeetsIsTheProperty, LogType DEF IInv, Consistent
<1>2. QED
  BY <1>1, Invariance, PTL

\* Only parents without a row are nameless, and every parent has a gender.
THEOREM PlaceholdersAreAlwaysParents == Spec => []PlaceholdersAreParents
<1>1. IInv => PlaceholdersAreParents
  BY DEF IInv, Consistent, Placeholders, PlaceholdersAreParents, Known, Old
<1>2. QED
  BY <1>1, Invariance, PTL

\* Every listed child was declared by a row of its own.
THEOREM ChildrenWereAlwaysDeclared == Spec => []ChildrenWereDeclared
<1>1. IInv => ChildrenWereDeclared
  BY DEF IInv, Consistent, Declared, ChildrenWereDeclared, Known, Old, Lists
<1>2. QED
  BY <1>1, Invariance, PTL

\* No row, not even one that contradicts an earlier one, makes the store
\* forget a person, a parent, a name, a gender or a listed child.
THEOREM NothingIsEverForgotten == Spec => NothingIsForgotten
<1>1. ASSUME TypeOK, TypeOK', [Next]_vars
      PROVE  KeepsPeople \/ UNCHANGED people
  <2>1. ASSUME NEW row \in Rows, AddPerson(row), NEW p \in Known
        PROVE  /\ people'[p] # NIL
               /\ \A a \in {"father", "mother", "name", "gender"} :
                     people[p][a] # NIL => people'[p][a] # NIL
               /\ Len(people[p].children) =< Len(people'[p].children)
               /\ \A i \in 1..Len(people[p].children) :
                     people'[p].children[i] = people[p].children[i]
    <3>1. /\ p \in ID /\ people[p] # NIL
          /\ row.id \in ID /\ row.name # NIL
          /\ people \in Store
          /\ RowStep(people, people', row)
      BY <1>1, <2>1, AddPersonStep, RowsAssumption, DistinctAssumption
         DEF Known, AddPerson, TypeOK, Store, Row
    <3>2. people'[p] # NIL
      BY <3>1 DEF RowStep
    <3>3. Old(people, p) = people[p] /\ Old(people', p) = people'[p]
      BY <3>1, <3>2 DEF Old
    <3>4. /\ people[p].father # NIL => people'[p].father # NIL
          /\ people[p].mother # NIL => people'[p].mother # NIL
          /\ people[p].name # NIL => people'[p].name # NIL
      BY <3>1, <3>3, DistinctAssumption DEF RowStep
    <3>5. people[p].gender # NIL => people'[p].gender # NIL
      BY <3>1, <3>3, RowGenders
    <3>6. /\ Len(people[p].children) =< Len(people'[p].children)
          /\ \A i \in 1..Len(people[p].children) :
                people'[p].children[i] = people[p].children[i]
      BY <3>1, <3>3, RowChildren
    <3>7. QED
      BY <3>2, <3>4, <3>5, <3>6
  <2>2. QED
    BY <1>1, <2>1, StepCases DEF KeepsPeople
<1>2. ASSUME TypeOK, UNCHANGED people
      PROVE  KeepsPeople
  BY <1>2 DEF KeepsPeople, Known, TypeOK, Person
<1>3. QED
  BY <1>1, <1>2, TypeCorrect, PTL DEF Spec, NothingIsForgotten
=============================================================================
