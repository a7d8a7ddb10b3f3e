-------------------------- MODULE MCFamilyTreeData --------------------------
(* Instances of FamilyTreeData for TLC. *)
EXTENDS PersonRelations, FamilyTreeKinship

CONSTANTS a, b, c, d, e, alice, v, w

NoFacts == [f \in Field |-> NIL]

GraphRow(id, father, mother, gender) ==
    [id |-> id, name |-> alice, father_id |-> father, mother_id |-> mother,
     gender |-> gender, is_living |-> NIL, facts |-> NoFacts]

\* Every way three ids can be each other's (or their own) parents, genders of
\* their own next to no or one parent, and the rows with an id that is missing
\* or refused.
GraphRows ==
    {GraphRow(id, f, m, NIL) : id \in ID, f \in ID \cup {NIL}, m \in ID \cup {NIL}}
    \cup {GraphRow(id, f, NIL, g) : id \in ID, f \in ID \cup {NIL}, g \in {Male, Female}}
    \cup {GraphRow(id, NIL, m, g) : id \in ID, m \in ID, g \in {Male, Female}}
    \cup {GraphRow(id, Malformed, Malformed, Malformed) : id \in ID}
    \cup {GraphRow(Malformed, f, NIL, NIL) : f \in ID}
    \cup {GraphRow(NIL, NIL, NIL, NIL)}

\* One person told by several rows, in every combination of the columns that
\* describe a death.
FactRows ==
    {[GraphRow(a, NIL, NIL, NIL) EXCEPT
        !.is_living = l, !.facts["date_of_death"] = dd, !.facts["cemetery"] = k,
        !.facts["place_of_birth"] = pb, !.facts["place_of_death"] = pd] :
     l \in {0, 1, NIL}, dd \in {NIL, Malformed, v, w}, k \in {NIL, v},
     pb \in {NIL, Malformed, v}, pd \in {NIL, v}}

\* Enough persons for full and half siblings on either side: five ids, rows
\* that name parents, and rows that only give a gender.
FamilyRows ==
    {GraphRow(id, f, m, NIL) : id \in ID, f \in ID \cup {NIL}, m \in ID \cup {NIL}}
    \cup {GraphRow(id, NIL, NIL, g) : id \in ID, g \in {Male, Female}}

GraphSymmetry == Permutations(ID)
=============================================================================
