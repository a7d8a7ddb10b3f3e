-------------------------- MODULE FamilyTreeHistory --------------------------
(***************************************************************************)
(* What the store of FamilyTreeData has become, told from the rows alone:  *)
(* each property reads the whole file (log) and says what one attribute    *)
(* must be, without following add_person.                                  *)
(***************************************************************************)
EXTENDS FamilyTreeData, SequencesExt

\* The place of p's last row that passes Test, 0 when there is none.
LastRow(p, Test(_)) == SelectLastInSeq(log, LAMBDA r : r.id = p /\ Test(r))

RowsOf(p) == {i \in DOMAIN log : log[i].id = p}
LoadedOnce == {p \in ID : \E i \in DOMAIN log : RowsOf(p) = {i}}

Copies(p, c) == Cardinality({i \in DOMAIN people[p].children :
                                people[p].children[i] = c})
Roles(p, c) == Cardinality({r \in {"father", "mother"} : people[c][r] = p})

\* A parent lists a child once for each role it has in the child's only row,
\* twice when a row names the same id as father and mother, and nobody else
\* lists the child.  Ids with several rows break this: the old parent keeps
\* the child, and the same parent lists it again.
ChildListedOncePerRole ==
    \A c \in LoadedOnce : \A p \in Known : Copies(p, c) = Roles(p, c)

\* Whether p's gender is right depends on rows that may come in any order:
\* the last gender column of p's own rows decides, and without one the first
\* row that uses p as a parent, the father column before the mother column.
GenderAsDeclared ==
    \A p \in Known :
        LET own == LastRow(p, LAMBDA r : r.gender \in {Male, Female})
            use == SelectInSeq(log, LAMBDA r : r.id \in ID
                                        /\ p \in {r.father_id, r.mother_id})
        IN people[p].gender =
              IF own # 0 THEN log[own].gender
              ELSE IF use = 0 THEN NIL
              ELSE IF log[use].father_id = p THEN Male
              ELSE Female

\* Father, mother and name are those of the last row that gave them.
LineageAsDeclared ==
    \A p \in Known :
        /\ LET i == LastRow(p, LAMBDA r : r.father_id \in ID)
           IN people[p].father = IF i = 0 THEN NIL ELSE log[i].father_id
        /\ LET i == LastRow(p, LAMBDA r : r.mother_id \in ID)
           IN people[p].mother = IF i = 0 THEN NIL ELSE log[i].mother_id
        /\ LET i == LastRow(p, LAMBDA r : TRUE)
           IN people[p].name = IF i = 0 THEN NIL ELSE log[i].name

\* A checked field holds the last well-formed value of the person's rows; a
\* later empty or malformed one does not harm it.
CheckedFactsAsDeclared ==
    \A p \in Known : \A f \in CheckedField :
        LET i == LastRow(p, LAMBDA r : r.facts[f] \in Value)
        IN people[p].facts[f] = IF i = 0 THEN NIL ELSE log[i].facts[f]

\* Somebody whose only row records a death or a cemetery is shown as dead
\* whatever the is_living column says, and everybody else loaded once as the
\* column says, living when it says nothing.
LivingAsDeclared ==
    \A p \in LoadedOnce \cap Known :
        LET row == log[LastRow(p, LAMBDA r : TRUE)]
            dead == \E f \in {"date_of_death", "cemetery"} :
                        people[p].facts[f] # NIL
        IN people[p].is_living = 0 <=> dead \/ row.is_living = 0

\* The documentation of both file formats, of the is_living column:
\* "0 for live 1 for dead".
LivingAsDocumented ==
    \A p \in LoadedOnce \cap Known :
        LET row == log[LastRow(p, LAMBDA r : TRUE)]
        IN ~RowDied(row) /\ row.is_living \in {0, 1} =>
              people[p].is_living = 1 - row.is_living

\* The documentation lists "place of death" among the fields of a row, and
\* add_person takes it: a place of death that was given is there to be shown.
PlaceOfDeathIsStored ==
    \A p \in Known :
        LastRow(p, LAMBDA r : r.facts["place_of_death"] \in Value) # 0 =>
            people[p].facts["place_of_death"] # NIL
=============================================================================
