--------------------------- MODULE FamilyTreeData ---------------------------
(***************************************************************************)
(* The store of persons that every page of the program is drawn from       *)
(* (lib/FamilyTreeData.pm): a hash of Person objects, filled by a loader   *)
(* that calls add_person once per row of the data file.  A row names its   *)
(* parents by id, so a parent may be created by a child's row long before  *)
(* (or without ever) having a row of its own, and an id may have several   *)
(* rows.  Rows come in any order.                                          *)
(*                                                                         *)
(* An id, a name or a text is a model value.  An argument of add_person is *)
(* NIL when it is undefined, and Malformed when it is given but refused by *)
(* the field's validator (lib/DataParsers/FieldValidatorParser.pm).  Empty *)
(* text is NIL where the code skips it; in an id, a place or a note it is  *)
(* given and says nothing, so it is Malformed there.  Operators that a     *)
(* comment calls mutants are wrong on purpose: each is a slip somebody     *)
(* could make in the definition below it, which some property must notice. *)
(***************************************************************************)
EXTENDS Integers, Sequences

CONSTANTS
    ID,         \* the ids that pass validIDEntry
    Name,       \* the Name objects a row can describe
    Value,      \* the well-formed values of the other fields
    NIL,        \* Perl's undef
    Malformed,  \* an argument its validator refuses
    Rows,       \* the rows a file may hold
    MaxRows     \* bound on the rows of one file

Male == 0
Female == 1

\* email and homepage behave alike and are one field, "contact"; so do
\* schools, jobs, work_places and general, "notes".
CheckedField == {"contact", "date_of_birth", "date_of_death", "cemetery"}
Field == CheckedField \cup
    {"place_of_birth", "place_of_death", "places_of_living", "notes"}

Argument(S) == S \cup {NIL, Malformed}

Row == [id : Argument(ID), name : Name,
        father_id : Argument(ID), mother_id : Argument(ID),
        gender : Argument({Male, Female}), is_living : Argument({0, 1}),
        facts : [Field -> Argument(Value)]]

Person == [name : Name \cup {NIL}, gender : {Male, Female, NIL},
           father : ID \cup {NIL}, mother : ID \cup {NIL},
           children : Seq(ID), is_living : {0, 1, NIL},
           facts : [Field -> Value \cup {NIL}]]

\* NIL and Malformed are told apart from every value of the program.
ASSUME DistinctAssumption ==
    /\ NIL # Malformed
    /\ {NIL, Malformed} \cap (ID \cup Name \cup Value \cup {0, 1}) = {}
    /\ NIL \notin Person

ASSUME RowsAssumption == Rows \subseteq Row /\ MaxRows \in Nat

VARIABLES
    people,     \* $self->{people}: the Person of an id, NIL when there is none
    log,        \* history: the rows add_person has returned from
    died        \* validate has raised: the load is abandoned

vars == <<people, log, died>>

Known == {p \in ID : people[p] # NIL}
-----------------------------------------------------------------------------
\* Person->new
NewPerson == [name |-> NIL, gender |-> NIL, father |-> NIL, mother |-> NIL,
              children |-> <<>>, is_living |-> NIL,
              facts |-> [f \in Field |-> NIL]]

\* Mutant: the test that the person is there is lost.
EnsureAnew(t, id) == [t EXCEPT ![id] = NewPerson]

Ensure(t, id) == IF t[id] = NIL THEN [t EXCEPT ![id] = NewPerson] ELSE t

\* The child's side of set_parent: it points to the parent in the role's slot.
\* (PointToFirst is a mutant: only an undefined slot is set.)
PointToFirst(person, id, gender) ==
    IF gender = Male
    THEN [person EXCEPT !.father = IF @ = NIL THEN id ELSE @]
    ELSE [person EXCEPT !.mother = IF @ = NIL THEN id ELSE @]

PointTo(person, id, gender) ==
    IF gender = Male THEN [person EXCEPT !.father = id]
                     ELSE [person EXCEPT !.mother = id]

\* The parent's side: the role gives it a gender only when it has none (a
\* contradiction is only a warning), and the child is pushed on its children.
\* (Mutants: only the first child is listed; a child is not listed twice; the
\* parent's gender is left alone.)
AdoptFirst(person, child, gender) ==
    [person EXCEPT !.gender = IF @ = NIL THEN gender ELSE @,
                   !.children = IF @ = <<>> THEN <<child>> ELSE @]
AdoptUnlisted(person, child, gender) ==
    [person EXCEPT !.gender = IF @ = NIL THEN gender ELSE @,
                   !.children = IF \E i \in DOMAIN @ : @[i] = child THEN @
                                ELSE Append(@, child)]
AdoptGenderless(person, child, gender) ==
    [person EXCEPT !.children = Append(@, child)]

Adopt(person, child, gender) ==
    [person EXCEPT !.gender = IF @ = NIL THEN gender ELSE @,
                   !.children = Append(@, child)]

\* set_parent: an id that is undefined or refused changes nothing, and a
\* parent that is not there is created.  The child is not taken off the list
\* of a parent it had before.
\* (SetParentSwapped is a mutant: the parent is pushed on the child's list.)
SetParentSwapped(t, child, id, gender) ==
    IF id \notin ID
    THEN t
    ELSE LET with == Ensure(t, id)
             pointed == [with EXCEPT ![child] = PointTo(@, id, gender)]
         IN [pointed EXCEPT ![child] = Adopt(@, id, gender)]

SetParent(t, child, id, gender) ==
    IF id \notin ID
    THEN t
    ELSE LET with == Ensure(t, id)
             pointed == [with EXCEPT ![child] = PointTo(@, id, gender)]
         IN [pointed EXCEPT ![id] = Adopt(@, child, gender)]

\* A field keeps its value unless the row gives one.  A malformed place and an
\* empty note erase the old one, other malformed values are ignored, and
\* place_of_death is accepted but stored by nobody.
\* (StoredFactErasing is a mutant: every malformed value erases.)
StoredFactErasing(f, old, given) ==
    CASE given = NIL \/ f = "place_of_death" -> old
      [] given = Malformed -> NIL
      [] OTHER -> given

StoredFact(f, old, given) ==
    CASE given = NIL \/ f = "place_of_death" -> old
      [] given = Malformed /\ f \in CheckedField -> old
      [] given = Malformed /\ f \notin CheckedField -> NIL
      [] OTHER -> given

RowDied(row) == \/ row.facts["date_of_death"] \in Value
                \/ row.facts["cemetery"] \in Value

\* is_living starts at 1 in every row, drops to 0 with a death in this row,
\* and then takes the is_living column unless that would revive the dead.
\* (RowIsLivingByColumn is a mutant: the column has the last word.)
RowIsLivingByColumn(row) ==
    CASE row.is_living \in {0, 1} -> row.is_living
      [] row.is_living \notin {0, 1} /\ RowDied(row) -> 0
      [] OTHER -> 1

RowIsLiving(row) ==
    CASE RowDied(row) -> 0
      [] ~RowDied(row) /\ row.is_living \in {0, 1} -> row.is_living
      [] OTHER -> 1

\* (Mutants: the column is not validated; a gender that is set is not changed.)
RowGenderUnchecked(row, old) == IF row.gender # NIL THEN row.gender ELSE old
RowGenderFirst(row, old) ==
    IF row.gender \in {Male, Female} /\ old = NIL THEN row.gender ELSE old

RowGender(row, old) == IF row.gender \in {Male, Female} THEN row.gender ELSE old

\* The part of add_person after the parents are set.
Describe(person, row) ==
    [person EXCEPT
        !.gender = RowGender(row, @),
        !.facts = [f \in Field |-> StoredFact(f, person.facts[f], row.facts[f])],
        !.is_living = RowIsLiving(row)]

\* The whole of add_person for an accepted id, in its order: the person is
\* found or created and named, linked to its father, then to its mother, and
\* described.
\* (StoredUnnamed is a mutant: only a person created here gets its name.)
StoredUnnamed(t, row) ==
    LET named == [Ensure(t, row.id) EXCEPT
                     ![row.id].name = IF t[row.id] = NIL THEN row.name ELSE @]
        fathered == SetParent(named, row.id, row.father_id, Male)
        linked == SetParent(fathered, row.id, row.mother_id, Female)
    IN [linked EXCEPT ![row.id] = Describe(@, row)]

Stored(t, row) ==
    LET named == [Ensure(t, row.id) EXCEPT ![row.id].name = row.name]
        fathered == SetParent(named, row.id, row.father_id, Male)
        linked == SetParent(fathered, row.id, row.mother_id, Female)
    IN [linked EXCEPT ![row.id] = Describe(@, row)]
-----------------------------------------------------------------------------
Init ==
    /\ people = [p \in ID |-> NIL]
    /\ log = <<>>
    /\ died = FALSE

Loading == ~died /\ Len(log) < MaxRows

\* add_person with an id that the regular expression accepts
AddPerson(row) ==
    /\ Loading
    /\ row.id \in ID
    /\ people' = Stored(people, row)
    /\ log' = Append(log, row)
    /\ UNCHANGED died

\* add_person carps and returns undef
RefuseId(row) ==
    /\ Loading
    /\ row.id = Malformed
    /\ log' = Append(log, row)
    /\ UNCHANGED <<people, died>>

\* Params::Validate dies: id is the one mandatory argument
MissingId(row) ==
    /\ Loading
    /\ row.id = NIL
    /\ died' = TRUE
    /\ UNCHANGED <<people, log>>

Next == \E row \in Rows : AddPerson(row) \/ RefuseId(row) \/ MissingId(row)

Spec == Init /\ [][Next]_vars
-----------------------------------------------------------------------------
\* Type correctness: every entry of the hash is undefined or a Person whose
\* attributes have the types the pages read them with.
TypeOK ==
    /\ people \in [ID -> Person \cup {NIL}]
    /\ log \in Seq(Rows)
    /\ died \in BOOLEAN

Occurs(x, s) == \E i \in 1..Len(s) : s[i] = x
Lists(p, c) == Occurs(c, people[p].children)

Parents(c) == {people[c].father, people[c].mother} \ {NIL}

\* Whoever a person calls father or mother is in the hash and lists that
\* person among its children, whichever of the two rows came first, however
\* often either was loaded and whatever else those rows said: the pages climb
\* by father and mother and come down by children.
ParentsListTheirChildren ==
    \A c \in Known : \A p \in Parents(c) : p \in Known /\ Lists(p, c)

\* A listed child is in the hash, and some row of that child did name the
\* lister as a parent: nobody is listed by accident, even by the stale
\* entries that a second row with another parent leaves behind.
ChildrenWereDeclared ==
    \A p \in Known : \A c \in ID :
        Lists(p, c) =>
            /\ c \in Known
            /\ \E i \in 1..Len(log) : /\ log[i].id = c
                                      /\ p \in {log[i].father_id, log[i].mother_id}

\* Only a parent without a row of its own has no Name, and every parent has
\* a gender: get_spouses and the couple drawing ask the gender of anybody
\* with children, and the pages that need a name may only meet parents here.
PlaceholdersAreParents ==
    \A p \in Known :
        /\ people[p].name = NIL =>
              /\ people[p].children # <<>>
              /\ \A i \in 1..Len(log) : log[i].id # p
        /\ people[p].children # <<>> => people[p].gender # NIL

\* Loading never forgets: an entry stays, a parent, a name or a gender is
\* never undefined again, and a list of children only grows at its end.
KeepsPeople ==
    \A p \in Known :
        /\ people'[p] # NIL
        /\ \A a \in {"father", "mother", "name", "gender"} :
              people[p][a] # NIL => people'[p][a] # NIL
        /\ Len(people[p].children) =< Len(people'[p].children)
        /\ \A i \in 1..Len(people[p].children) :
              people'[p].children[i] = people[p].children[i]

NothingIsForgotten == [][KeepsPeople]_vars
=============================================================================
