-------------------------- MODULE FamilyTreeKinship --------------------------
(***************************************************************************)
(* FamilyTreeData implements Kinship: the pointers of the Person objects    *)
(* are the register's father and mother, and their lists of children are   *)
(* its record of all declarations.                                         *)
(***************************************************************************)
EXTENDS FamilyTreeData

\* The father or the mother of everybody, NIL for who is not in the hash.
Pointers(slot) == [p \in ID |-> IF people[p] = NIL THEN NIL ELSE people[p][slot]]

\* Whom the lists of children hold.
Listed == {pair \in ID \X ID :
              people[pair[1]] # NIL /\ Lists(pair[1], pair[2])}

K == INSTANCE Kinship WITH known <- Known, father <- Pointers("father"),
                           mother <- Pointers("mother"), ever <- Listed

\* Every row is one declaration or nothing at all: after each add_person the
\* pointers are those of the last rows that named a parent, and the lists of
\* children together hold exactly the pairs that rows have declared, although
\* the code spreads a row over up to three objects.
ImplementsKinship == K!Spec
=============================================================================
