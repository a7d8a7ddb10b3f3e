---------------------- MODULE FamilyTreeKinshipProofs ----------------------
(***************************************************************************)
(* The store of persons implements Kinship, for every set of ids, every    *)
(* file and every bound.                                                   *)
(***************************************************************************)
EXTENDS FamilyTreeKinship, FamilyTreeDataProofs

\* The mapping, read through Old.
LEMMA PointersThroughOld ==
    /\ Pointers("father") = [p \in ID |-> Old(people, p).father]
    /\ Pointers("mother") = [p \in ID |-> Old(people, p).mother]
BY DEF Pointers, Old, NewPerson

\* A person that is not there has no children, so they need no test.
LEMMA ListedThroughOld ==
    Listed = {pair \in ID \X ID : Occurs(pair[2], Old(people, pair[1]).children)}
<1>1. ASSUME NEW p \in ID, NEW c \in ID
      PROVE  people[p] # NIL /\ Lists(p, c) <=> Occurs(c, Old(people, p).children)
  BY DEF Lists, Old, NewPerson, Occurs
<1>2. QED
  BY <1>1 DEF Listed

\* The empty hash is the empty register.
LEMMA InitRefines == Init => K!Init
<1> SUFFICES ASSUME Init PROVE K!Init
  OBVIOUS
<1>1. \A p \in ID : people[p] = NIL
  BY DEF Init
<1>2. Known = {} /\ Listed = {}
  BY <1>1 DEF Known, Listed
<1>3. Pointers("father") = [p \in ID |-> NIL] /\ Pointers("mother") = [p \in ID |-> NIL]
  BY <1>1 DEF Pointers
<1>4. QED
  BY <1>2, <1>3 DEF K!Init

\* An accepted row declares the parents whose ids are accepted.
LEMMA AddPersonRefines ==
    ASSUME TypeOK, TypeOK', NEW row \in Rows, AddPerson(row)
    PROVE  K!Next
<1> DEFINE c == row.id
           f == IF row.father_id \in ID THEN row.father_id ELSE NIL
           m == IF row.mother_id \in ID THEN row.mother_id ELSE NIL
           parents == {f, m} \ {NIL}
<1>1. /\ c \in ID
      /\ f \in ID \cup {NIL} /\ m \in ID \cup {NIL}
      /\ people \in Store
      /\ RowStep(people, people', row)
  BY AddPersonStep DEF AddPerson, TypeOK, Store
<1>2. \A p \in ID : p \in {row.father_id, row.mother_id} <=> p \in parents
  BY DistinctAssumption
<1>3. parents \subseteq ID
  OBVIOUS
<1>4. Known' = Known \cup {c} \cup parents
  BY <1>1, <1>2, <1>3 DEF Known, RowStep
<1>5. /\ Pointers("father")' = [p \in ID |-> Old(people', p).father]
      /\ Pointers("mother")' = [p \in ID |-> Old(people', p).mother]
      /\ Listed' = {pair \in ID \X ID : Occurs(pair[2], Old(people', pair[1]).children)}
  <2>1. (Pointers("father") = [p \in ID |-> Old(people, p).father])'
    BY PointersThroughOld, PTL
  <2>2. (Pointers("mother") = [p \in ID |-> Old(people, p).mother])'
    BY PointersThroughOld, PTL
  <2>3. (Listed = {pair \in ID \X ID : Occurs(pair[2], Old(people, pair[1]).children)})'
    BY ListedThroughOld, PTL
  <2>4. QED
    BY <2>1, <2>2, <2>3
<1>6. Pointers("father")' =
         [Pointers("father") EXCEPT ![c] = IF f = NIL THEN @ ELSE f]
  <2>1. \A p \in ID : Old(people', p).father =
           IF p = c /\ f # NIL THEN f ELSE Old(people, p).father
    BY <1>1, DistinctAssumption DEF RowStep
  <2>2. QED
    BY <1>1, <1>5, <2>1, PointersThroughOld
<1>7. Pointers("mother")' =
         [Pointers("mother") EXCEPT ![c] = IF m = NIL THEN @ ELSE m]
  <2>1. \A p \in ID : Old(people', p).mother =
           IF p = c /\ m # NIL THEN m ELSE Old(people, p).mother
    BY <1>1, DistinctAssumption DEF RowStep
  <2>2. QED
    BY <1>1, <1>5, <2>1, PointersThroughOld
<1>8. Listed' = Listed \cup {<<p, c>> : p \in parents}
  <2>1. ASSUME NEW p \in ID, NEW x \in ID
        PROVE  Occurs(x, Old(people', p).children) <=>
                  Occurs(x, Old(people, p).children) \/ (x = c /\ p \in parents)
    <3>1. Occurs(x, Old(people', p).children) <=>
             \/ Occurs(x, Old(people, p).children)
             \/ x = row.id /\ p \in {row.father_id, row.mother_id}
      BY <1>1, RowChildren
    <3>2. QED
      BY <1>2, <3>1
  <2>2. \A p \in ID, x \in ID :
           <<p, x>> \in Listed' <=> <<p, x>> \in Listed \/ (x = c /\ p \in parents)
    BY <1>5, <2>1, ListedThroughOld
  <2>3. Listed \subseteq ID \X ID /\ Listed' \subseteq ID \X ID
    BY <1>5 DEF Listed
  <2>4. {<<p, c>> : p \in parents} \subseteq ID \X ID
    BY <1>1, <1>3
  <2> HIDE DEF c, parents
  <2>5. QED
    BY <2>2, <2>3, <2>4
<1>9. K!Declare(c, f, m)
  BY <1>4, <1>6, <1>7, <1>8 DEF K!Declare
<1>10. QED
  BY <1>1, <1>9 DEF K!Next

\* Rows come in any order, several to an id, with ids that are refused: the
\* pages that read the hash may think of it as the register.
THEOREM TheStoreIsARegisterOfKinship == Spec => ImplementsKinship
<1>1. ASSUME TypeOK, TypeOK', [Next]_vars
      PROVE  [K!Next]_(K!kinship)
  <2>1. ASSUME NEW row \in Rows, AddPerson(row)
        PROVE  K!Next
    BY <1>1, <2>1, AddPersonRefines
  <2>2. CASE people' = people
    BY <2>2 DEF K!kinship, Known, Pointers, Listed, Lists
  <2>3. QED
    BY <1>1, <2>1, <2>2, StepCases
<1>2. QED
  BY <1>1, InitRefines, TypeCorrect, PTL DEF Spec, K!Spec, ImplementsKinship
=============================================================================
