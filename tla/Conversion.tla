----------------------------- MODULE Conversion -----------------------------
(***************************************************************************)
(* The conversion the documentation recommends (scripts/convertFormat.pl,  *)
(* external): a data file is loaded, lib/Exporters/ExcelExporter.pm writes  *)
(* the store to a sheet, and the site then loads the sheet.                *)
(***************************************************************************)
EXTENDS Loaders

\* The cells of father and mother, and of gender and is_living.
\* (Mutants: the parents are swapped; nobody is written as dead.)
ParentCellsSwapped(person) == <<person.mother, person.father>>
ParentCells(person) == <<person.father, person.mother>>

LifeCellsOfTheLiving(person) == <<person.gender, NIL>>
LifeCells(person) == <<person.gender, person.is_living>>

\* export: the row of p.  The three lists of texts, the homepage and the parts
\* of a name that the model leaves out are empty; a cell that is undefined or
\* an empty text is not written by Spreadsheet::WriteExcel.
ExportRow(p) ==
    LET person == people[p]
        name == IF person.name = NIL THEN NameOf(NIL, NIL) ELSE person.name
    IN <<p, name[2], NIL, name[1], NIL, NIL, NIL, NIL>>
       \o ParentCells(person)
       \o <<person.facts["contact"], NIL,
            person.facts["date_of_birth"], person.facts["date_of_death"]>>
       \o LifeCells(person)
       \o <<person.facts["place_of_birth"], person.facts["place_of_death"],
            person.facts["cemetery"], NIL, NIL, NIL,
            person.facts["places_of_living"], person.facts["notes"]>>

\* A name has a text and a title, and no text of the store is only blanks: the
\* sheet would lose the row it is written to.
ASSUME ExportAssumption ==
    /\ \A name \in Name : /\ name = NameOf(name[1], name[2])
                          /\ Blank \notin {name[1], name[2]}
    /\ NameOf(NIL, NIL) \in Name
    /\ Blank \notin ID \cup Value \cup {NIL, Malformed, 0, 1}

\* The people are written in the order of the hash, which is any order.
Orders == {s \in [1..Cardinality(Known) -> Known] : Range(s) = Known}

Header == <<>>

Convert ==
    /\ Loaded
    /\ original = NIL
    /\ \E order \in Orders :
          file' = <<Header>> \o [i \in DOMAIN order |-> ExportRow(order[i])]
    /\ original' = people
    /\ format' = "excel"
    /\ current' = FirstLine("excel")
    /\ people' = [p \in ID |-> NIL]
    /\ log' = <<>>
    /\ UNCHANGED <<died, mapping>>

ConversionNext == Load \/ Convert

ConversionSpec == LoaderInit /\ [][ConversionNext]_allVars
-----------------------------------------------------------------------------
Converted == original # NIL /\ Loaded

\* In whatever order the people are written, the sheet loads into the same
\* family: the same people with the same parents, genders and names, a parent
\* known only from its children getting an empty name.  The lists of children
\* are made anew from the pointers, so that what several rows of one id left
\* in them is gone: a child is listed once per role and by nobody else.
ConversionKeepsTheFamily ==
    Converted =>
        \A p \in ID :
            /\ people[p] = NIL <=> original[p] = NIL
            /\ p \in Known =>
                  /\ \A attribute \in {"father", "mother", "gender"} :
                        people[p][attribute] = original[p][attribute]
                  /\ people[p].name = IF original[p].name = NIL THEN NameOf(NIL, NIL)
                                      ELSE original[p].name
                  /\ \A c \in Known : Copies(p, c) = Roles(p, c)

\* Every fact survives the conversion, nobody is revived by it, and it takes
\* for dead only somebody whose death was recorded: the is_living of a person
\* that a second row had revived is corrected.
ConversionKeepsTheDead ==
    Converted =>
        \A p \in Known :
            /\ people[p].facts = original[p].facts
            /\ people[p].is_living = 0 <=>
                  \/ original[p].is_living = 0
                  \/ \E f \in {"date_of_death", "cemetery"} : original[p].facts[f] # NIL
=============================================================================
