---------------------------- MODULE LoadersProofs ----------------------------
(***************************************************************************)
(* Theorems about the csv and the database loader, for every file.         *)
(*                                                                         *)
(* The csv loader names the parents of a line after add_person has stored  *)
(* it: the proof composes the effect of add_person (RowStep) with that of  *)
(* naming two parents, and accounts for every line: stored, a comment, or  *)
(* the reason why the load failed.  The database loader follows a mapping  *)
(* of columns: the proof follows every row of the table into the log.      *)
(***************************************************************************)
EXTENDS Conversion, PersonRelationsProofs

\* Whom the rows name is called what the last of them says, and somebody
\* without a row by the bare name.
NamedAs(l, p, x) ==
    IF Own(l, p) = {} THEN x = NameOf(p, NIL) ELSE Says(Own(l, p), Names(l), x)

\* Everybody in the store is named so, nobody outside it has a row, and no
\* parent is outside.
NamedStore(t, l) ==
    /\ t \in Store
    /\ l \in Seq(Row)
    /\ \A p \in ID : /\ t[p] = NIL => Own(l, p) = {}
                     /\ t[p] # NIL => NamedAs(l, p, t[p].name)
                     /\ Old(t, p).father # NIL => t[Old(t, p).father] # NIL
                     /\ Old(t, p).mother # NIL => t[Old(t, p).mother] # NIL

NamesAreNames == \A i \in 1..Len(file) : CsvRow(file[i]).name \in Name

NInv == format = "csv" => NamedStore(people, log) /\ NamesAreNames

\* A line whose name is a name makes a row, and a parent that the row has is
\* the text in the line's cell.
LEMMA CsvRowType ==
    ASSUME NEW line, CsvRow(line).name \in Name
    PROVE  /\ CsvRow(line) \in Row
           /\ CsvRow(line).father_id \in ID =>
                 CsvRow(line).father_id = Cell(CsvColumns, line, "father_id")
           /\ CsvRow(line).mother_id \in ID =>
                 CsvRow(line).mother_id = Cell(CsvColumns, line, "mother_id")
<1>1. \A S : \A cell : /\ As(S, cell) \in Argument(S)
                       /\ As(S, cell) # Malformed => As(S, cell) = cell
  BY DEF As, Argument
<1>2. PICK cells : /\ CsvRow(line) = RowFrom(cells, CsvRow(line).name)
                   /\ cells["father_id"] = Cell(CsvColumns, line, "father_id")
                   /\ cells["mother_id"] = Cell(CsvColumns, line, "mother_id")
  <2> DEFINE dates == Cell(CsvColumns, line, "dates")
             Part(i) == IF dates = NIL THEN NIL ELSE dates[i]
             cells == [f \in Column |-> CASE f = "date_of_birth" -> Part(1)
                                          [] f = "date_of_death" -> Part(2)
                                          [] OTHER -> Cell(CsvColumns, line, f)]
             name == NameOf(Cell(CsvColumns, line, "id"), Cell(CsvColumns, line, "title"))
  <2>1. CsvRow(line) = RowFrom(cells, name)
    BY DEF CsvRow
  <2>2. /\ cells["father_id"] = Cell(CsvColumns, line, "father_id")
        /\ cells["mother_id"] = Cell(CsvColumns, line, "mother_id")
    BY DEF Column
  <2> HIDE DEF cells, name
  <2>3. RowFrom(cells, name).name = name
    BY DEF RowFrom
  <2>4. QED
    BY <2>1, <2>2, <2>3
<1>3. CsvRow(line) \in Row
  BY <1>1, <1>2 DEF RowFrom, Row
<1>4. /\ CsvRow(line).father_id = As(ID, Cell(CsvColumns, line, "father_id"))
      /\ CsvRow(line).mother_id = As(ID, Cell(CsvColumns, line, "mother_id"))
  BY <1>2 DEF RowFrom
<1>5. Malformed \notin ID
  BY DistinctAssumption
<1>6. QED
  BY <1>1, <1>3, <1>4, <1>5

\* The store u is t but for the names.
SameButNames(t, u) ==
    /\ u \in Store
    /\ \A q \in ID : /\ u[q] = NIL <=> t[q] = NIL
                     /\ Old(u, q).father = Old(t, q).father
                     /\ Old(u, q).mother = Old(t, q).mother
                     /\ Old(u, q).gender = Old(t, q).gender
                     /\ Old(u, q).children = Old(t, q).children
                     /\ Old(u, q).facts = Old(t, q).facts

\* Naming a parent by its id names that person, if it has no name, and changes
\* nothing else.
LEMMA NameParentEffect ==
    ASSUME NEW t \in Store, NEW p \in ID \cup {NIL}, NEW text,
           p # NIL => t[p] # NIL,
           p # NIL /\ t[p].name = NIL => text = p
    PROVE  LET u == NameParent(t, p, text)
           IN /\ SameButNames(t, u)
              /\ \A q \in ID :
                    t[q] # NIL => u[q].name = IF q = p /\ t[q].name = NIL
                                              THEN NameOf(q, NIL) ELSE t[q].name
<1> DEFINE u == NameParent(t, p, text)
<1>1. CASE p # NIL /\ t[p].name = NIL
  <2> DEFINE named == [t[p] EXCEPT !.name = NameOf(p, NIL)]
  <2>1. p \in ID /\ t[p] \in Person
    BY <1>1 DEF Store
  <2>2. /\ named \in Person
        /\ named.name = NameOf(p, NIL)
        /\ named.father = t[p].father
        /\ named.mother = t[p].mother
        /\ named.gender = t[p].gender
        /\ named.children = t[p].children
        /\ named.facts = t[p].facts
    BY <2>1, CsvNamesAssumption DEF Person
  <2>3. u = [t EXCEPT ![p] = named]
    BY <1>1 DEF NameParent
  <2> HIDE DEF named
  <2>4. u \in Store /\ u[p] = named /\ \A q \in ID : q # p => u[q] = t[q]
    BY <2>1, <2>2, <2>3 DEF Store
  <2>5. named # NIL /\ t[p] # NIL
    BY <2>1, <2>2, DistinctAssumption
  <2>6. Old(u, p) = named /\ Old(t, p) = t[p]
    BY <2>4, <2>5 DEF Old
  <2>7. \A q \in ID : q # p => Old(u, q) = Old(t, q)
    BY <2>4 DEF Old
  <2> HIDE DEF u
  <2>8. SameButNames(t, u)
    BY <2>1, <2>2, <2>4, <2>5, <2>6, <2>7 DEF SameButNames
  <2>9. QED
    BY <1>1, <2>1, <2>2, <2>4, <2>5, <2>8 DEF u
<1>2. CASE ~(p # NIL /\ t[p].name = NIL)
  <2>1. u = t
    BY <1>2 DEF NameParent
  <2>2. \A q \in ID : t[q] # NIL => ~(q = p /\ t[q].name = NIL)
    BY <1>2, DistinctAssumption
  <2>3. SameButNames(t, t)
    BY DEF SameButNames
  <2> HIDE DEF u
  <2>4. QED
    BY <2>1, <2>2, <2>3 DEF u
<1>3. QED
  BY <1>1, <1>2

\* Everybody in a named store has a name.
LEMMA Everybody ==
    ASSUME NEW t, NEW l, NamedStore(t, l), NEW p \in ID, t[p] # NIL
    PROVE  t[p].name # NIL
<1>1. NamedAs(l, p, t[p].name)
  BY DEF NamedStore
<1>2. CASE Own(l, p) = {}
  <2>1. t[p].name = NameOf(p, NIL)
    BY <1>1, <1>2 DEF NamedAs
  <2>2. QED
    BY <2>1, CsvNamesAssumption, DistinctAssumption
<1>3. CASE Own(l, p) # {}
  <2>1. PICK i \in Own(l, p) : t[p].name = Names(l)[i]
    BY <1>1, <1>3 DEF NamedAs, Says
  <2>2. i \in 1..Len(l) /\ l \in Seq(Row)
    BY <2>1 DEF Own, NamedStore
  <2>3. l[i] \in Row /\ t[p].name = l[i].name
    BY <2>1, <2>2 DEF Names
  <2>4. QED
    BY <2>3, DistinctAssumption DEF Row
<1>4. QED
  BY <1>2, <1>3

-----------------------------------------------------------------------------
\* One more row adds its place to those of its person and to no others.
LEMMA RowIsAdded ==
    ASSUME NEW l \in Seq(Row), NEW row \in Row, NEW p
    PROVE  LET m == Append(l, row)
           IN /\ m \in Seq(Row)
              /\ row.id # p => Own(m, p) = Own(l, p)
              /\ row.id = p => Own(m, p) # {}
              /\ row.id = p => Says(Own(m, p), Names(m), row.name)
              /\ \A x : row.id # p /\ NamedAs(l, p, x) => NamedAs(m, p, x)
<1> DEFINE m == Append(l, row)
           n == Len(l)
<1>1. /\ n \in Nat
      /\ m \in Seq(Row)
      /\ 1..Len(m) = (1..n) \cup {n + 1}
      /\ \A i \in 1..n : m[i] = l[i]
      /\ m[n + 1] = row
  OBVIOUS
<1> HIDE DEF m
<1>2. Own(m, p) = IF row.id = p THEN Own(l, p) \cup {n + 1} ELSE Own(l, p)
  BY <1>1 DEF Own, n
<1>3. Own(l, p) \subseteq 1..n
  BY DEF Own, n
<1>4. /\ \A i \in 1..n : Names(m)[i] = Names(l)[i]
      /\ Names(m)[n + 1] = row.name
  <2>1. \A i \in 1..n : i \in 1..Len(m)
    BY <1>1
  <2>2. n + 1 \in 1..Len(m)
    BY <1>1
  <2>3. QED
    BY <1>1, <2>1, <2>2 DEF Names, n
<1> HIDE DEF n
<1>5. ASSUME row.id = p
      PROVE  Own(m, p) # {} /\ Says(Own(m, p), Names(m), row.name)
  <2>1. \A j \in Own(m, p) : j =< n + 1
    BY <1>1, <1>2, <1>3
  <2>2. QED
    BY <1>2, <1>4, <1>5, <2>1 DEF Says
<1>6. ASSUME NEW x, row.id # p, NamedAs(l, p, x)
      PROVE  NamedAs(m, p, x)
  BY <1>2, <1>3, <1>4, <1>6 DEF NamedAs, Says
<1>7. QED
  BY <1>1, <1>2, <1>5, <1>6 DEF m

\* A csv line leaves a named store named: add_person names the line's person,
\* and the loader names the parents that the line has made.
LEMMA LineKeepsNames ==
    ASSUME NEW t, NEW l, NamedStore(t, l), NEW line,
           CsvRow(line).name \in Name, CsvRow(line).id \in ID
    PROVE  LET u == Stored(t, CsvRow(line))
               w == NameParents(u, CsvRow(line).id, line)
           IN NamedStore(w, Append(l, CsvRow(line))) /\ SameButNames(u, w)
<1> DEFINE row == CsvRow(line)
           u == Stored(t, row)
           m == Append(l, row)
           f == u[row.id].father
           g == u[row.id].mother
           fathered == NameParent(u, f, Cell(CsvColumns, line, "father_id"))
           w == NameParents(u, row.id, line)
<1>1. /\ row \in Row
      /\ row.id \in ID
      /\ row.name \in Name
      /\ row.father_id \in ID => row.father_id = Cell(CsvColumns, line, "father_id")
      /\ row.mother_id \in ID => row.mother_id = Cell(CsvColumns, line, "mother_id")
  BY CsvRowType
<1>2. w = NameParent(fathered, g, Cell(CsvColumns, line, "mother_id"))
  BY DEF NameParents
<1> HIDE DEF row
<1>3. t \in Store /\ l \in Seq(Row)
  BY DEF NamedStore
<1>4. RowStep(t, u, row)
  BY <1>1, <1>3, StoredEffect
<1> HIDE DEF u
<1>5. /\ u \in Store
      /\ \A q \in ID : /\ Old(t, q).father # NIL => t[Old(t, q).father] # NIL
                       /\ Old(t, q).mother # NIL => t[Old(t, q).mother] # NIL
      /\ NIL \notin ID /\ NIL \notin Name
  BY <1>4, DistinctAssumption DEF RowStep, NamedStore
<1>6. \A q \in ID : u[q] # NIL <=>
          t[q] # NIL \/ q \in {row.id, row.father_id, row.mother_id}
  BY <1>4 DEF RowStep
<1>7. \A q \in ID :
          /\ Old(u, q).father = IF q = row.id /\ row.father_id \in ID
                                THEN row.father_id ELSE Old(t, q).father
          /\ Old(u, q).mother = IF q = row.id /\ row.mother_id \in ID
                                THEN row.mother_id ELSE Old(t, q).mother
          /\ Old(u, q).name = IF q = row.id THEN row.name ELSE Old(t, q).name
  BY <1>4, Zenon DEF RowStep
<1>8. \A q \in ID : /\ Old(u, q) \in Person
                    /\ Old(u, q).father # NIL => Old(u, q).father \in ID
                    /\ Old(u, q).mother # NIL => Old(u, q).mother \in ID
  BY <1>5, OldType DEF Person
<1>9. \A q \in ID : /\ Old(u, q).father # NIL => u[Old(u, q).father] # NIL
                    /\ Old(u, q).mother # NIL => u[Old(u, q).mother] # NIL
  BY <1>5, <1>6, <1>7, <1>8
<1>10. /\ f = Old(u, row.id).father
       /\ g = Old(u, row.id).mother
       /\ f \in ID \cup {NIL}
       /\ g \in ID \cup {NIL}
       /\ f # NIL => u[f] # NIL
       /\ g # NIL => u[g] # NIL
  <2>1. u[row.id] # NIL
    BY <1>1, <1>6
  <2>2. f = Old(u, row.id).father /\ g = Old(u, row.id).mother
    BY <2>1 DEF Old
  <2>3. QED
    BY <1>1, <1>8, <1>9, <2>2
<1>11. \A q \in ID : t[q] # NIL => Old(t, q).name # NIL
  BY Everybody DEF Old
<1>12. \A q \in ID : u[q] # NIL => u[q].name = Old(u, q).name
  BY DEF Old
<1>13. \A q \in ID : t[q] = NIL => Old(t, q).name = NIL
  BY DEF Old, NewPerson
<1>14. \A q \in ID : u[q] # NIL => (u[q].name = NIL <=> t[q] = NIL /\ q # row.id)
  BY <1>1, <1>5, <1>7, <1>11, <1>12, <1>13
<1>15. f # NIL /\ u[f].name = NIL => Cell(CsvColumns, line, "father_id") = f
  <2> SUFFICES ASSUME f # NIL, u[f].name = NIL
               PROVE  Cell(CsvColumns, line, "father_id") = f
    OBVIOUS
  <2>1. t[f] = NIL
    BY <1>10, <1>14
  <2>2. row.father_id \in ID /\ f = row.father_id
    BY <1>1, <1>5, <1>7, <1>10, <2>1
  <2>3. QED
    BY <1>1, <2>2
<1>16. g # NIL /\ u[g].name = NIL => Cell(CsvColumns, line, "mother_id") = g
  <2> SUFFICES ASSUME g # NIL, u[g].name = NIL
               PROVE  Cell(CsvColumns, line, "mother_id") = g
    OBVIOUS
  <2>1. t[g] = NIL
    BY <1>10, <1>14
  <2>2. row.mother_id \in ID /\ g = row.mother_id
    BY <1>1, <1>5, <1>7, <1>10, <2>1
  <2>3. QED
    BY <1>1, <2>2
<1> HIDE DEF f, g
<1>17. /\ SameButNames(u, fathered)
       /\ \A q \in ID :
             u[q] # NIL => fathered[q].name = IF q = f /\ u[q].name = NIL
                                              THEN NameOf(q, NIL) ELSE u[q].name
  BY <1>5, <1>10, <1>15, NameParentEffect
<1> HIDE DEF fathered
<1>18. \A q \in ID : NameOf(q, NIL) # NIL
  BY <1>5, CsvNamesAssumption
<1>19. g # NIL => fathered[g] # NIL
  BY <1>10, <1>17 DEF SameButNames
<1>20. g # NIL /\ fathered[g].name = NIL => Cell(CsvColumns, line, "mother_id") = g
  BY <1>10, <1>16, <1>17, <1>18
<1>21. /\ SameButNames(fathered, w)
       /\ \A q \in ID :
             fathered[q] # NIL =>
                 w[q].name = IF q = g /\ fathered[q].name = NIL
                             THEN NameOf(q, NIL) ELSE fathered[q].name
  <2>1. fathered \in Store
    BY <1>17 DEF SameButNames
  <2>2. QED
    BY <1>2, <1>10, <1>19, <1>20, <2>1, NameParentEffect
<1> HIDE DEF w
<1>22. /\ SameButNames(u, w)
       /\ \A q \in ID : u[q] # NIL =>
             w[q].name = IF u[q].name = NIL /\ q \in {f, g}
                         THEN NameOf(q, NIL) ELSE u[q].name
  <2>1. SameButNames(u, w)
    BY <1>17, <1>21 DEF SameButNames
  <2>2. \A q \in ID : fathered[q] = NIL <=> u[q] = NIL
    BY <1>17 DEF SameButNames
  <2>3. QED
    BY <1>17, <1>18, <1>21, <2>1, <2>2
<1>23. m \in Seq(Row)
  BY <1>1, <1>3, RowIsAdded
<1>24. ASSUME NEW q \in ID, w[q] = NIL
       PROVE  Own(m, q) = {}
  <2>1. t[q] = NIL /\ q # row.id
    BY <1>6, <1>22, <1>24 DEF SameButNames
  <2>2. Own(l, q) = {}
    BY <2>1 DEF NamedStore
  <2>3. QED
    BY <1>1, <1>3, <2>1, <2>2, RowIsAdded
<1>25. ASSUME NEW q \in ID, w[q] # NIL
       PROVE  NamedAs(m, q, w[q].name)
  <2>1. u[q] # NIL
    BY <1>22, <1>25 DEF SameButNames
  <2>2. CASE q = row.id
    <3>1. w[q].name = row.name
      BY <1>1, <1>5, <1>7, <1>12, <1>22, <2>1, <2>2
    <3>2. Own(m, q) # {} /\ Says(Own(m, q), Names(m), row.name)
      BY <1>1, <1>3, <2>2, RowIsAdded
    <3>3. QED
      BY <3>1, <3>2 DEF NamedAs
  <2>3. CASE q # row.id /\ t[q] # NIL
    <3>1. w[q].name = t[q].name
      BY <1>7, <1>14, <1>12, <1>22, <2>1, <2>3 DEF Old
    <3>2. NamedAs(l, q, t[q].name)
      BY <2>3 DEF NamedStore
    <3>3. QED
      BY <1>1, <1>3, <2>3, <3>1, <3>2, RowIsAdded
  <2>4. CASE q # row.id /\ t[q] = NIL
    <3>1. q \in {row.father_id, row.mother_id}
      BY <1>6, <2>1, <2>4
    <3>2. q \in {f, g}
      BY <1>1, <1>7, <1>10, <3>1
    <3>3. w[q].name = NameOf(q, NIL)
      BY <1>14, <1>22, <2>1, <2>4, <3>2
    <3>4. Own(m, q) = {}
      <4>1. Own(l, q) = {}
        BY <2>4 DEF NamedStore
      <4>2. QED
        BY <1>1, <1>3, <2>4, <4>1, RowIsAdded
    <3>5. QED
      BY <3>3, <3>4 DEF NamedAs
  <2>5. QED
    BY <2>2, <2>3, <2>4
<1>26. \A q \in ID : /\ Old(w, q).father # NIL => w[Old(w, q).father] # NIL
                     /\ Old(w, q).mother # NIL => w[Old(w, q).mother] # NIL
  <2>1. \A q \in ID : /\ Old(w, q).father = Old(u, q).father
                      /\ Old(w, q).mother = Old(u, q).mother
                      /\ w[q] = NIL <=> u[q] = NIL
    BY <1>22 DEF SameButNames
  <2>2. ASSUME NEW q \in ID, NEW x, x \in {Old(w, q).father, Old(w, q).mother}, x # NIL
        PROVE  w[x] # NIL
    <3>1. x \in {Old(u, q).father, Old(u, q).mother}
      BY <2>1, <2>2
    <3>2. x \in ID /\ u[x] # NIL
      BY <1>8, <1>9, <2>2, <3>1
    <3>3. QED
      BY <2>1, <3>2
  <2>3. QED
    BY <2>2
<1>27. NamedStore(w, m)
  BY <1>22, <1>23, <1>24, <1>25, <1>26 DEF NamedStore, SameButNames
<1>28. QED
  BY <1>22, <1>27 DEF w, m, u, row

\* Nobody is in the empty store.
LEMMA InitNInv == LoaderInit => NInv
<1> SUFFICES ASSUME LoaderInit, format = "csv" PROVE NamedStore(people, log) /\ NamesAreNames
  BY DEF NInv
<1>1. people = [p \in ID |-> NIL] /\ log = <<>>
  BY DEF LoaderInit, Init
<1>2. people \in Store /\ log \in Seq(Row)
  BY <1>1 DEF Store
<1>3. \A p \in ID : people[p] = NIL /\ Old(people, p) = NewPerson /\ Own(log, p) = {}
  <2>1. Len(log) = 0 /\ 1..0 = {}
    BY <1>1
  <2>2. QED
    BY <1>1, <2>1 DEF Old, Own
<1>4. NewPerson.father = NIL /\ NewPerson.mother = NIL
  BY DEF NewPerson
<1>5. NamedStore(people, log)
  BY <1>2, <1>3, <1>4 DEF NamedStore
<1>6. NamesAreNames
  BY CsvNamesAssumption DEF LoaderInit, NamesAreNames
<1>7. QED
  BY <1>5, <1>6

\* Every line keeps the names; the other loaders and the conversion are not
\* about a csv file.
LEMMA StepKeepsNInv == NInv /\ [ConversionNext]_allVars => NInv'
<1> SUFFICES ASSUME NInv, [ConversionNext]_allVars, format' = "csv"
             PROVE  NamedStore(people', log') /\ NamesAreNames'
  BY DEF NInv
<1>1. CASE ReadCsvLine
  <2> DEFINE line == file[current]
  <2>1. /\ NamedStore(people, log)
        /\ NamesAreNames
        /\ current \in 1..Len(file)
        /\ file' = file
        /\ CsvRow(line).id \in ID
        /\ people' = NameParents(Stored(people, CsvRow(line)), CsvRow(line).id, line)
        /\ log' = Append(log, CsvRow(line))
    BY <1>1 DEF NInv, ReadCsvLine, Reading, HasNext
  <2>2. CsvRow(line).name \in Name
    BY <2>1 DEF NamesAreNames
  <2>3. NamesAreNames'
    BY <2>1 DEF NamesAreNames
  <2> HIDE DEF line
  <2>4. QED
    BY <2>1, <2>2, <2>3, LineKeepsNames
<1>2. CASE AbandonCsv
  <2> DEFINE row == CsvRow(file[current])
  <2>1. /\ NamedStore(people, log)
        /\ NamesAreNames
        /\ current \in 1..Len(file)
        /\ file' = file
        /\ people' = people
        /\ row.id \notin ID
        /\ log' = log \/ log' = Append(log, row)
    BY <1>2 DEF NInv, AbandonCsv, Reading, HasNext
  <2>2. row \in Row
    BY <2>1, CsvRowType DEF NamesAreNames
  <2>3. NamesAreNames'
    BY <2>1 DEF NamesAreNames
  <2> HIDE DEF row
  <2>4. CASE log' = Append(log, row)
    <3>1. log \in Seq(Row)
      BY <2>1 DEF NamedStore
    <3>2. log' \in Seq(Row)
      BY <2>2, <2>4, <3>1, RowIsAdded
    <3>3. \A p \in ID : /\ Own(log', p) = Own(log, p)
                        /\ \A x : NamedAs(log, p, x) => NamedAs(log', p, x)
      BY <2>1, <2>2, <2>4, <3>1, RowIsAdded
    <3>4. QED
      BY <2>1, <2>3, <3>2, <3>3 DEF NamedStore
  <2>5. QED
    BY <2>1, <2>3, <2>4
<1>3. CASE ReadExcelRow \/ SkipBlankRow \/ ReadIndividual \/ FetchRow
  <2>1. format # "csv" /\ format' = format
    <3>1. CASE ReadExcelRow
      BY <3>1 DEF ReadExcelRow, Reading
    <3>2. CASE SkipBlankRow
      BY <3>2 DEF SkipBlankRow, Reading
    <3>3. CASE ReadIndividual
      BY <3>3 DEF ReadIndividual, Reading
    <3>4. CASE FetchRow
      BY <3>4 DEF FetchRow, Reading
    <3>5. QED
      BY <1>3, <3>1, <3>2, <3>3, <3>4
  <2>2. QED
    BY <2>1
<1>4. CASE Convert
  BY <1>4 DEF Convert
<1>5. CASE UNCHANGED allVars
  BY <1>5 DEF allVars, vars, loaderVars, NInv, NamesAreNames
<1>6. QED
  BY <1>1, <1>2, <1>3, <1>4, <1>5 DEF ConversionNext, Load

\* Whatever the order of the lines of a csv file, a person's own lines name it
\* and a child's line never renames it; nobody is left without a name.
THEOREM OwnLinesAlwaysNameTheirPersons == ConversionSpec => []OwnLinesNameTheirPersons
<1>1. ASSUME NInv, format = "csv", NEW p \in Known
      PROVE  LET i == LastRow(p, LAMBDA r : TRUE)
             IN people[p].name = IF i = 0 THEN NameOf(p, NIL) ELSE log[i].name
  <2>1. p \in ID /\ NamedAs(log, p, people[p].name)
    BY <1>1 DEF NInv, NamedStore, Known
  <2>2. LastRow(p, LAMBDA r : TRUE) = LastPlace(Own(log, p))
    BY DEF LastRow, SelectLastInSeq, Own, LastPlace
  <2>3. LET i == LastPlace(Own(log, p))
        IN people[p].name = IF i = 0 THEN NameOf(p, NIL) ELSE log[i].name
    <3> DEFINE I == Own(log, p)
               g == Names(log)
               x == people[p].name
    <3>1. /\ I \subseteq 1..Len(log)
          /\ \A i \in 1..Len(log) : g[i] = log[i].name
      BY DEF Own, Names
    <3>2. log \in Seq(Row)
      BY <1>1 DEF NInv, NamedStore
    <3>3. I \subseteq Nat \ {0}
      BY <3>1, <3>2
    <3>4. IF I = {} THEN x = NameOf(p, NIL) ELSE Says(I, g, x)
      BY <2>1 DEF NamedAs
    <3> HIDE DEF I, g, x
    <3>5. CASE I = {}
      BY <3>4, <3>5 DEF LastPlace, I, x
    <3>6. CASE I # {}
      <4>1. /\ LastPlace(I) # 0 => LastPlace(I) \in I /\ x = g[LastPlace(I)]
            /\ LastPlace(I) = 0 => I = {}
        BY <3>3, <3>4, <3>6, LastWord, Zenon
      <4>2. QED
        BY <3>1, <3>6, <4>1 DEF I, x
    <3>7. QED
      BY <3>5, <3>6
  <2>4. QED
    BY <2>2, <2>3, Zenon
<1>2. NInv => OwnLinesNameTheirPersons
  BY <1>1 DEF OwnLinesNameTheirPersons
<1>3. QED
  BY <1>2, InitNInv, StepKeepsNInv, PTL DEF ConversionSpec
-----------------------------------------------------------------------------
\* Elements that are not kept change nothing.
LEMMA NothingKept ==
    ASSUME NEW s, NEW S, NEW N \in Nat, NEW k, Keeps(k, s, S, N),
           NEW a \in 0..N, NEW b \in a..N, \A n \in (a + 1)..b : s[n] \notin S
    PROVE  k[b] = k[a]
<1> DEFINE P == {d \in 0..(b - a) : k[a + d] = k[a]}
<1>1. 0 \in P /\ b - a \in Nat
  OBVIOUS
<1>2. ASSUME NEW d \in 0..((b - a) - 1), d \in P
      PROVE  d + 1 \in P
  <2>1. /\ a + (d + 1) \in 1..N
        /\ a + (d + 1) \in (a + 1)..b
        /\ (a + (d + 1)) - 1 = a + d
        /\ d + 1 \in 0..(b - a)
    OBVIOUS
  <2>2. s[a + (d + 1)] \notin S
    BY <2>1
  <2>3. k[a + (d + 1)] = IF s[a + (d + 1)] \in S
                         THEN Append(k[a + d], s[a + (d + 1)]) ELSE k[a + d]
    <3>1. \A n \in 1..N : k[n] = IF s[n] \in S THEN Append(k[n - 1], s[n]) ELSE k[n - 1]
      BY KeepsEach
    <3>2. QED
      BY <2>1, <3>1
  <2>4. QED
    BY <1>2, <2>1, <2>2, <2>3
<1>3. b - a \in P
  <2>1. b - a \in 0..(b - a)
    BY <1>1
  <2> HIDE DEF P
  <2>2. \A d \in 0..(b - a) : d \in P
    BY <1>1, <1>2, Induction
  <2>3. QED
    BY <2>1, <2>2
<1>4. a + (b - a) = b
  OBVIOUS
<1>5. QED
  BY <1>3, <1>4

\* The reader goes on to the next line that is no comment, or to the end.
LEMMA NextLine ==
    ASSUME Len(file) \in Nat, NEW i \in 1..Len(file)
    PROVE  /\ SkipComments(i) \in (i + 1)..(Len(file) + 1)
           /\ SkipComments(i) =< Len(file) => ~IsComment(file[SkipComments(i)])
           /\ \A n \in (i + 1)..(SkipComments(i) - 1) : IsComment(file[n])
<1> DEFINE L == {j \in (i + 1)..Len(file) : ~IsComment(file[j])} \cup {Len(file) + 1}
           j == SkipComments(i)
<1>1. L \subseteq Nat /\ L # {} /\ L \subseteq (i + 1)..(Len(file) + 1)
  OBVIOUS
<1>2. \E n \in L : \A m \in L : n =< m
  <2> HIDE DEF L
  <2>1. QED
    BY <1>1, LeastNumber
<1>3. j \in L /\ \A m \in L : j =< m
  <2>1. j = Min(L)
    BY DEF SkipComments
  <2> HIDE DEF L, j
  <2>2. QED
    BY <1>2, <2>1 DEF Min
<1>4. j \in (i + 1)..(Len(file) + 1)
  BY <1>1, <1>3
<1> HIDE DEF j
<1>5. j =< Len(file) => ~IsComment(file[j])
  BY <1>3, <1>4
<1>6. ASSUME NEW n \in (i + 1)..(j - 1)
      PROVE  IsComment(file[n])
  <2>1. n \in (i + 1)..Len(file) /\ ~(j =< n)
    BY <1>4
  <2>2. QED
    BY <1>3, <2>1
<1>7. QED
  BY <1>4, <1>5, <1>6 DEF j

\* The log of a csv file is its first line and the lines kept of the others.
NoComments == {l \in Range(file) : ~IsComment(l)}

Taken(l, first, kept) ==
    /\ Len(l) = Len(kept) + 1
    /\ l[1] = CsvRow(first)
    /\ \A i \in 1..Len(kept) : l[i + 1] = CsvRow(kept[i])

TakenUpTo(l, s, i) ==
    \A k : Keeps(k, Tail(s), {c \in Range(s) : ~IsComment(c)}, Len(s) - 1)
          => Taken(l, s[1], k[i])

Reached ==
    /\ current = 1 => log = <<>>
    /\ current > 1 => TakenUpTo(log, file, current - 2)

AInv ==
    format = "csv" =>
        /\ file \in Seq(Range(file))
        /\ current \in 1..(Len(file) + 1)
        /\ current \in 2..Len(file) => ~IsComment(file[current])
        /\ ~died => /\ \A i \in 1..Len(log) : log[i].id \in ID
                    /\ Reached

\* A line that is stored is the next that is kept, and the comments after it
\* are not.
LEMMA LineIsTaken ==
    ASSUME AInv, NInv, ReadCsvLine
    PROVE  Reached'
<1> DEFINE line == file[current]
           row == CsvRow(line)
           N == Len(file) - 1
           next == SkipComments(current)
           rest == Tail(file)
<1>1. /\ file \in Seq(Range(file)) /\ Len(file) \in Nat
      /\ current \in 1..Len(file)
      /\ current \in 2..Len(file) => ~IsComment(line)
      /\ Reached
      /\ NamedStore(people, log)
      /\ NamesAreNames
      /\ log' = Append(log, row)
      /\ file' = file
      /\ current' = next
  BY DEF AInv, NInv, ReadCsvLine, Reading, HasNext
<1>2. row \in Row /\ log \in Seq(Row)
  BY <1>1, CsvRowType DEF NamesAreNames, NamedStore
<1>3. /\ next \in (current + 1)..(Len(file) + 1)
      /\ \A n \in (current + 1)..(next - 1) : IsComment(file[n])
  BY <1>1, NextLine
<1>4. \A n \in 1..N : rest[n] = file[n + 1]
  BY <1>1
<1>6. N \in Nat /\ current - 1 \in 0..N /\ next - 2 \in (current - 1)..N
  BY <1>1, <1>3
<1> HIDE DEF next, row, N, rest
<1>5. SUFFICES TakenUpTo(log', file, next - 2)
  BY <1>1, <1>3 DEF Reached
<1> SUFFICES ASSUME NEW k, Keeps(k, rest, NoComments, N)
             PROVE  Taken(log', file[1], k[next - 2])
  BY DEF TakenUpTo, NoComments, N, rest
<1>7. k[next - 2] = k[current - 1]
  <2>1. ASSUME NEW n \in ((current - 1) + 1)..(next - 2)
        PROVE  rest[n] \notin NoComments
    <3>1. n \in 1..N /\ n + 1 \in (current + 1)..(next - 1)
      BY <1>1, <1>3, <1>6
    <3>2. QED
      BY <1>3, <1>4, <3>1 DEF NoComments
  <2> DEFINE a == current - 1
             b == next - 2
  <2>2. a \in 0..N /\ b \in a..N
    BY <1>6
  <2> HIDE DEF a, b
  <2>3. \A n \in (a + 1)..b : rest[n] \notin NoComments
    BY <2>1 DEF a, b
  <2>4. k[b] = k[a]
    BY <1>6, <2>2, <2>3, NothingKept
  <2>5. QED
    BY <2>4 DEF a, b
<1>kept. /\ k[0] = <<>>
      /\ \A n \in 1..N : k[n] = IF rest[n] \in NoComments
                             THEN Append(k[n - 1], rest[n]) ELSE k[n - 1]
  BY <1>6, KeepsEach
<1>8. CASE current = 1
  <2>1. k[0] = <<>> /\ log = <<>>
    BY <1>1, <1>kept, <1>8 DEF Reached
  <2>2. k[next - 2] = <<>> /\ log' = <<row>>
    BY <1>1, <1>2, <1>7, <1>8, <2>1
  <2>3. Taken(log', file[1], <<>>)
    <3>1. row = CsvRow(file[1])
      BY <1>8 DEF row
    <3>2. QED
      BY <2>2, <3>1 DEF Taken
  <2>4. QED
    BY <2>2, <2>3
<1>9. CASE current > 1
  <2>1. /\ current - 1 \in 1..N
        /\ (current - 1) - 1 = current - 2
        /\ current - 2 \in 0..N
        /\ (current - 1) + 1 = current
        /\ current \in 2..Len(file)
    BY <1>1, <1>6, <1>9
  <2>2. rest[current - 1] = line /\ line \in NoComments
    <3>1. rest[current - 1] = file[current]
      BY <1>4, <2>1 DEF N
    <3>2. file[current] \in Range(file)
      BY <1>1
    <3>3. QED
      BY <1>1, <2>1, <3>1, <3>2 DEF NoComments
  <2>3. k[current - 1] = Append(k[current - 2], line)
    BY <1>kept, <2>1, <2>2
  <2> DEFINE kept == k[current - 2]
  <2>4. Taken(log, file[1], kept)
    BY <1>1, <1>9 DEF Reached, TakenUpTo, NoComments, N, rest
  <2>5. kept \in Seq(Range(file))
    <3>1. rest \in Seq(Range(file)) /\ Len(rest) = N
      BY <1>1, <2>1 DEF N, rest
    <3>2. \A n \in 0..N : k[n] \in Seq(Range(file))
      BY <3>1, KeptMembers
    <3>3. QED
      BY <2>1, <3>2
  <2> HIDE DEF kept, line
  <2>6. file[current] = line /\ line \in Range(file) /\ row = CsvRow(line)
    BY <1>1, <2>2 DEF line, NoComments, row
  <2>7. Taken(log', file[1], Append(kept, line))
    <3> DEFINE a == Append(kept, line)
    <3>1. /\ Len(kept) \in Nat
          /\ Len(a) = Len(kept) + 1
          /\ \A i \in 1..Len(kept) : a[i] = kept[i]
          /\ a[Len(kept) + 1] = line
      BY <2>5, <2>6
    <3>2. /\ Len(log') = Len(log) + 1
          /\ \A i \in 1..Len(log) : log'[i] = log[i]
          /\ log'[Len(log) + 1] = row
      BY <1>1, <1>2
    <3> HIDE DEF a
    <3>3. /\ Len(log') = Len(a) + 1
          /\ log'[1] = CsvRow(file[1])
      BY <1>1, <2>4, <3>1, <3>2 DEF Taken
    <3>4. ASSUME NEW i \in 1..Len(a)
          PROVE  log'[i + 1] = CsvRow(a[i])
      <4>1. CASE i \in 1..Len(kept)
        <5>1. i + 1 \in 1..Len(log) /\ a[i] = kept[i]
          BY <2>4, <3>1, <4>1 DEF Taken
        <5>2. QED
          BY <2>4, <3>2, <4>1, <5>1 DEF Taken
      <4>2. CASE i = Len(kept) + 1
        <5>1. i + 1 = Len(log) + 1 /\ a[i] = line
          BY <2>4, <3>1, <4>2 DEF Taken
        <5>2. QED
          BY <2>6, <3>2, <5>1
      <4>3. QED
        BY <3>1, <4>1, <4>2
    <3>5. QED
      BY <3>3, <3>4 DEF Taken, a
  <2>8. QED
    BY <1>7, <2>3, <2>7 DEF kept, line
<1>10. QED
  BY <1>1, <1>8, <1>9

\* A load that has not died has taken every line before the current one that
\* it should take.
LEMMA LinesAreTaken == ConversionSpec => []AInv
<1>1. ASSUME LoaderInit
      PROVE  AInv
  <2> SUFFICES ASSUME format = "csv"
               PROVE  /\ file \in Seq(Range(file))
                      /\ current = 1
                      /\ log = <<>>
    BY DEF AInv, Reached
  <2>1. PICK source \in Files["csv"] : file = source.lines /\ "csv" \in DOMAIN Files
    BY <1>1 DEF LoaderInit
  <2>2. file \in Seq(Range(file))
    BY <2>1, FilesAssumption
  <2>3. QED
    BY <1>1, <2>2 DEF LoaderInit, Init, FirstLine
<1>2. ASSUME AInv, NInv, [ConversionNext]_allVars
      PROVE  AInv'
  <2> SUFFICES ASSUME format' = "csv"
               PROVE  /\ (file \in Seq(Range(file)))'
                      /\ (current \in 1..(Len(file) + 1))'
                      /\ (current \in 2..Len(file) => ~IsComment(file[current]))'
                      /\ ~died' => /\ \A i \in 1..Len(log') : log'[i].id \in ID
                                   /\ Reached'
    BY DEF AInv
  <2>1. CASE ReadCsvLine \/ AbandonCsv
    <3>1. /\ file \in Seq(Range(file)) /\ Len(file) \in Nat
          /\ current \in 1..Len(file)
          /\ file' = file
          /\ current' = SkipComments(current)
      <4>1. CASE ReadCsvLine
        BY <1>2, <4>1 DEF AInv, ReadCsvLine, Reading, HasNext
      <4>2. CASE AbandonCsv
        BY <1>2, <4>2 DEF AInv, AbandonCsv, Reading, HasNext
      <4>3. QED
        BY <2>1, <4>1, <4>2
    <3>2. /\ current' \in (current + 1)..(Len(file) + 1)
          /\ current' =< Len(file) => ~IsComment(file[current'])
      BY <3>1, NextLine
    <3>3. ASSUME ~died'
          PROVE  \A i \in 1..Len(log') : log'[i].id \in ID
      <4>1. /\ ReadCsvLine
            /\ \A i \in 1..Len(log) : log[i].id \in ID
            /\ CsvRow(file[current]).id \in ID
            /\ log' = Append(log, CsvRow(file[current]))
            /\ log \in Seq(Row)
            /\ NamesAreNames
        BY <1>2, <2>1, <3>3 DEF AInv, NInv, NamedStore, ReadCsvLine, AbandonCsv, Reading
      <4>2. CsvRow(file[current]) \in Row
        BY <3>1, <4>1, CsvRowType DEF NamesAreNames
      <4>3. QED
        BY <4>1, <4>2
    <3>4. ASSUME ~died'
          PROVE  Reached'
      <4>1. ReadCsvLine
        BY <2>1, <3>4 DEF AbandonCsv
      <4>2. QED
        BY <1>2, <4>1, LineIsTaken
    <3>5. (file \in Seq(Range(file)))' /\ (current \in 1..(Len(file) + 1))'
      BY <3>1, <3>2
    <3>6. (current \in 2..Len(file) => ~IsComment(file[current]))'
      BY <3>1, <3>2 DEF IsComment
    <3>7. QED
      BY <3>3, <3>4, <3>5, <3>6
  <2>2. CASE ReadExcelRow \/ SkipBlankRow \/ ReadIndividual \/ FetchRow
    <3>1. format # "csv" /\ format' = format
      <4>1. CASE ReadExcelRow
        BY <4>1 DEF ReadExcelRow, Reading
      <4>2. CASE SkipBlankRow
        BY <4>2 DEF SkipBlankRow, Reading
      <4>3. CASE ReadIndividual
        BY <4>3 DEF ReadIndividual, Reading
      <4>4. CASE FetchRow
        BY <4>4 DEF FetchRow, Reading
      <4>5. QED
        BY <2>2, <4>1, <4>2, <4>3, <4>4
    <3>2. QED
      BY <3>1
  <2>3. CASE Convert
    BY <2>3 DEF Convert
  <2>4. CASE UNCHANGED allVars
    BY <1>2, <2>4 DEF allVars, vars, loaderVars, AInv, Reached, TakenUpTo, Taken, IsComment
  <2>5. QED
    BY <1>2, <2>1, <2>2, <2>3, <2>4 DEF ConversionNext, Load
<1>3. QED
  BY <1>1, <1>2, InitNInv, StepKeepsNInv, PTL DEF ConversionSpec

\* A csv file whose load ends has lost no line, wherever its comments stand,
\* and has no line that could not be stored.
THEOREM CsvIsAlwaysAllOrNothing == ConversionSpec => []CsvIsAllOrNothing
<1>1. ASSUME AInv, NInv, format = "csv", Loaded, file # <<>>
      PROVE  LET lines == <<Head(file)>> \o Those(Tail(file), {l \in Range(file) : ~IsComment(l)})
             IN /\ log = [i \in DOMAIN lines |-> CsvRow(lines[i])]
                /\ \A i \in DOMAIN log : log[i].id \in ID
  <2> DEFINE kept == Those(Tail(file), NoComments)
             lines == <<Head(file)>> \o kept
             N == Len(file) - 1
  <2>1. /\ file \in Seq(Range(file)) /\ Len(file) \in Nat /\ Len(file) # 0
        /\ current = Len(file) + 1
        /\ log \in Seq(Row)
        /\ \A i \in 1..Len(log) : log[i].id \in ID
        /\ Reached
    BY <1>1 DEF AInv, NInv, NamedStore, Loaded, HasNext
  <2>2. /\ Tail(file) \in Seq(Range(file))
        /\ Len(Tail(file)) = N
        /\ N \in Nat
        /\ Head(file) = file[1]
        /\ file[1] \in Range(file)
    BY <2>1
  <2>3. PICK k : Keeps(k, Tail(file), NoComments, N) /\ kept = k[N]
    BY <2>2, ThoseAreKept
  <2>4. Taken(log, file[1], kept)
    <3>1. Taken(log, file[1], k[current - 2])
      BY <2>1, <2>2, <2>3 DEF Reached, TakenUpTo, NoComments
    <3>2. current - 2 = N
      BY <2>1
    <3>3. QED
      BY <2>3, <3>1, <3>2
  <2>5. kept \in Seq(Range(file))
    BY <2>2, ThoseMembers
  <2> HIDE DEF kept, N
  <2>6. /\ DOMAIN lines = 1..(Len(kept) + 1)
        /\ lines[1] = file[1]
        /\ \A i \in 1..Len(kept) : lines[i + 1] = kept[i]
        /\ Len(kept) \in Nat
    BY <2>2, <2>5
  <2> HIDE DEF lines
  <2>7. ASSUME NEW i \in 1..(Len(kept) + 1)
        PROVE  log[i] = CsvRow(lines[i])
    <3>1. CASE i = 1
      BY <2>4, <2>6, <3>1 DEF Taken
    <3>2. CASE i # 1
      <4>1. i - 1 \in 1..Len(kept) /\ (i - 1) + 1 = i
        BY <2>6, <3>2
      <4>2. log[(i - 1) + 1] = CsvRow(kept[i - 1]) /\ lines[(i - 1) + 1] = kept[i - 1]
        BY <2>4, <2>6, <4>1 DEF Taken
      <4>3. QED
        BY <4>1, <4>2
    <3>3. QED
      BY <3>1, <3>2
  <2>8. DOMAIN log = DOMAIN lines /\ DOMAIN log = 1..Len(log)
    BY <2>1, <2>4, <2>6 DEF Taken
  <2>9. log = [i \in DOMAIN lines |-> CsvRow(lines[i])]
    BY <2>1, <2>6, <2>7, <2>8
  <2>10. QED
    BY <2>1, <2>8, <2>9 DEF lines, kept, NoComments
<1>2. AInv /\ NInv => CsvIsAllOrNothing
  BY <1>1 DEF CsvIsAllOrNothing
<1>3. QED
  BY <1>2, LinesAreTaken, InitNInv, StepKeepsNInv, PTL DEF ConversionSpec
-----------------------------------------------------------------------------
\* The facts of a person told by one row are those of that row.
FactsOf(t, l, p) ==
    /\ Own(l, p) # {} => t[p] # NIL
    /\ Own(l, p) = {} => Old(t, p).facts = NewPerson.facts
    /\ \A j \in 1..Len(l) :
          Own(l, p) = {j} => Old(t, p).facts = RowFacts(l[j], NewPerson.facts)

FactStore(t, l) ==
    /\ t \in Store
    /\ l \in Seq(Row)
    /\ \A p \in ID : FactsOf(t, l, p)

\* The rows of the table before the current one have been given to add_person.
WasRead(i) ==
    file[i]["id"] \in ID => \E j \in 1..Len(log) : log[j] = DbRow(file[i])

Table ==
    /\ DOMAIN file = 1..Len(file)
    /\ Len(file) \in Nat
    /\ \A i \in 1..Len(file) : \A title \in {file[i]["title"], NIL} :
          NameOf(file[i]["first_name"], title) \in Name

MInv ==
    format = "dbi" =>
        /\ FactStore(people, log)
        /\ Table
        /\ current \in Nat \ {0}
        /\ ~died => \A i \in 1..Len(file) : i < current => WasRead(i)

\* What a database row gives to add_person is a row, with the id in its
\* column and the checked facts in its mapped columns.
LEMMA DbRowType ==
    ASSUME NEW line, \A title \in {line["title"], NIL} :
                         NameOf(line["first_name"], title) \in Name
    PROVE  /\ DbRow(line) \in Row
           /\ DbRow(line).id = As(ID, line["id"])
           /\ \A f \in Field : DbRow(line).facts[f] = As(Value, DbColumn(line, f))
<1>1. \A S : \A cell : As(S, cell) \in Argument(S)
  BY DEF As, Argument
<1> DEFINE cells == [f \in Column |-> DbColumn(line, f)]
           name == NameOf(line["first_name"], DbColumn(line, "title"))
<1>2. /\ cells["id"] = line["id"]
      /\ \A f \in Field : cells[f] = DbColumn(line, f)
  BY DEF Column, DbColumn
<1>3. name \in Name
  <2>1. DbColumn(line, "title") \in {line["title"], NIL}
    BY DEF DbColumn
  <2>2. QED
    BY <2>1
<1>4. DbRow(line) = RowFrom(cells, name)
  BY DEF DbRow
<1> HIDE DEF cells, name
<1>5. QED
  BY <1>1, <1>2, <1>3, <1>4 DEF RowFrom, Row

\* A row stores its facts, and those of nobody else.
LEMMA RowKeepsFacts ==
    ASSUME NEW t, NEW l, FactStore(t, l), NEW row \in Row, row.id \in ID
    PROVE  FactStore(Stored(t, row), Append(l, row))
<1> DEFINE u == Stored(t, row)
           m == Append(l, row)
           n == Len(l)
<1>1. t \in Store /\ l \in Seq(Row)
  BY DEF FactStore
<1>2. RowStep(t, u, row)
  BY <1>1, StoredEffect
<1>3. /\ n \in Nat
      /\ m \in Seq(Row)
      /\ 1..Len(m) = (1..n) \cup {n + 1}
      /\ \A i \in 1..n : m[i] = l[i]
      /\ m[n + 1] = row
  BY <1>1
<1> HIDE DEF u, m
<1>4. ASSUME NEW p \in ID
      PROVE  /\ Old(u, p).facts = IF p = row.id THEN RowFacts(row, Old(t, p).facts)
                                  ELSE Old(t, p).facts
             /\ t[p] # NIL \/ p = row.id => u[p] # NIL
             /\ FactsOf(t, l, p)
             /\ Own(l, p) \subseteq 1..n
             /\ Own(m, p) = IF row.id = p THEN Own(l, p) \cup {n + 1} ELSE Own(l, p)
  <2>1. Old(u, p).facts = IF p = row.id THEN RowFacts(row, Old(t, p).facts)
                          ELSE Old(t, p).facts
    BY <1>2, Zenon DEF RowStep
  <2>2. FactsOf(t, l, p) /\ (t[p] # NIL \/ p = row.id => u[p] # NIL)
    BY <1>2 DEF FactStore, RowStep
  <2>3. Own(m, p) = IF row.id = p THEN Own(l, p) \cup {n + 1} ELSE Own(l, p)
    BY <1>3 DEF Own
  <2>4. Own(l, p) \subseteq 1..n
    BY DEF Own
  <2>5. QED
    BY <2>1, <2>2, <2>3, <2>4
<1> HIDE DEF n
<1>5. ASSUME NEW p \in ID
      PROVE  FactsOf(u, m, p)
  <2>1. CASE p = row.id
    <3>1. n + 1 \in Own(m, p) /\ n + 1 \notin Own(l, p)
      BY <1>3, <1>4, <2>1
    <3>2. ASSUME NEW j \in 1..Len(m), Own(m, p) = {j}
          PROVE  Old(u, p).facts = RowFacts(m[j], NewPerson.facts)
      <4>1. j = n + 1 /\ Own(l, p) = {}
        BY <1>4, <2>1, <3>1, <3>2
      <4>2. QED
        BY <1>3, <1>4, <2>1, <4>1 DEF FactsOf
    <3>3. QED
      BY <1>4, <2>1, <3>1, <3>2 DEF FactsOf
  <2>2. CASE p # row.id
    <3>1. Own(m, p) = Own(l, p) /\ Old(u, p).facts = Old(t, p).facts
      BY <1>4, <2>2
    <3>2. ASSUME NEW j \in 1..Len(m), Own(m, p) = {j}
          PROVE  Old(u, p).facts = RowFacts(m[j], NewPerson.facts)
      <4>1. j \in 1..n /\ m[j] = l[j]
        BY <1>3, <1>4, <3>1, <3>2
      <4>2. j \in 1..Len(l) /\ Own(l, p) = {j}
        BY <3>1, <3>2, <4>1 DEF n
      <4>3. QED
        BY <1>4, <3>1, <4>1, <4>2 DEF FactsOf
    <3>3. Own(m, p) = {} => Old(u, p).facts = NewPerson.facts
      BY <1>4, <3>1 DEF FactsOf
    <3>4. QED
      BY <1>4, <3>1, <3>2, <3>3 DEF FactsOf
  <2>3. QED
    BY <2>1, <2>2
<1>6. u \in Store
  BY <1>2 DEF RowStep
<1>7. FactStore(u, m)
  BY <1>3, <1>5, <1>6 DEF FactStore
<1>8. QED
  BY <1>7 DEF u, m

\* A row with a refused id says nothing of anybody's facts.
LEMMA RefusalKeepsFacts ==
    ASSUME NEW t, NEW l, FactStore(t, l), NEW row \in Row, row.id \notin ID
    PROVE  FactStore(t, Append(l, row))
<1> DEFINE m == Append(l, row)
<1>1. t \in Store /\ l \in Seq(Row)
  BY DEF FactStore
<1>2. m \in Seq(Row) /\ \A i \in 1..Len(l) : m[i] = l[i]
  BY <1>1
<1>3. \A p \in ID : Own(m, p) = Own(l, p)
  BY <1>1, RowIsAdded
<1> HIDE DEF m
<1>4. ASSUME NEW p \in ID
      PROVE  FactsOf(t, m, p)
  <2>1. FactsOf(t, l, p) /\ Own(m, p) = Own(l, p) /\ Own(l, p) \subseteq 1..Len(l)
    BY <1>3 DEF FactStore, Own
  <2>2. ASSUME NEW j \in 1..Len(m), Own(m, p) = {j}
        PROVE  Old(t, p).facts = RowFacts(m[j], NewPerson.facts)
    <3>1. j \in 1..Len(l) /\ Own(l, p) = {j}
      BY <2>1, <2>2
    <3>2. QED
      BY <1>2, <2>1, <3>1 DEF FactsOf
  <2>3. QED
    BY <2>1, <2>2 DEF FactsOf
<1>5. FactStore(t, m)
  BY <1>1, <1>2, <1>4 DEF FactStore
<1>6. QED
  BY <1>5 DEF m

\* Nothing of the table has been read yet.
LEMMA InitMInv == LoaderInit => MInv
<1> SUFFICES ASSUME LoaderInit, format = "dbi"
             PROVE  /\ FactStore(people, log)
                    /\ Table
                    /\ current = 1
  BY DEF MInv
<1>1. people = [p \in ID |-> NIL] /\ log = <<>>
  BY DEF LoaderInit, Init
<1>2. people \in Store /\ log \in Seq(Row)
  BY <1>1 DEF Store
<1>3. \A p \in ID : Old(people, p) = NewPerson
  BY <1>1 DEF Old
<1>4. 1..Len(log) = {} /\ \A p \in ID : Own(log, p) = {}
  <2>1. Len(log) = 0 /\ 1..0 = {}
    BY <1>1
  <2>2. QED
    BY <2>1 DEF Own
<1>5. FactStore(people, log)
  BY <1>2, <1>3, <1>4 DEF FactStore, FactsOf
<1>6. Table
  <2>1. PICK source \in Files["dbi"] : file = source.lines /\ "dbi" \in DOMAIN Files
    BY DEF LoaderInit
  <2>2. DOMAIN file = 1..Len(file) /\ Len(file) \in Nat
    <3>1. file \in Seq(Range(file))
      BY <2>1, FilesAssumption
    <3>2. QED
      BY <3>1
  <2>3. \A i \in 1..Len(file) : \A title \in {file[i]["title"], NIL} :
            NameOf(file[i]["first_name"], title) \in Name
    BY <2>1, DbNamesAssumption
  <2>4. QED
    BY <2>2, <2>3 DEF Table
<1>7. current = 1
  BY DEF LoaderInit, FirstLine
<1>8. QED
  BY <1>5, <1>6, <1>7

\* Every row of the table is given to add_person in its turn.
LEMMA StepKeepsMInv == MInv /\ [ConversionNext]_allVars => MInv'
<1> SUFFICES ASSUME MInv, [ConversionNext]_allVars, format' = "dbi"
             PROVE  /\ FactStore(people', log')
                    /\ Table'
                    /\ current' \in Nat \ {0}
                    /\ ~died' => \A i \in 1..Len(file') : i < current' => WasRead(i)'
  BY DEF MInv
<1>1. CASE FetchRow
  <2> DEFINE row == DbRow(file[current])
  <2>1. /\ FactStore(people, log)
        /\ Table
        /\ current \in 1..Len(file)
        /\ current \in Nat \ {0}
        /\ \A i \in 1..Len(file) : i < current => WasRead(i)
        /\ AddRow(row)
        /\ file' = file
        /\ mapping' = mapping
        /\ current' = current + 1
    BY <1>1 DEF FetchRow, Reading, HasNext, MInv
  <2>2. row \in Row /\ row.id = As(ID, file[current]["id"])
    BY <2>1, DbRowType DEF Table
  <2>3. Table'
    BY <2>1 DEF Table
  <2>4. log \in Seq(Row)
    BY <2>1 DEF FactStore
  <2>5. \A i : DbRow(file[i])' = DbRow(file[i])
    BY <2>1 DEF DbRow, DbColumn
  <2>6. ASSUME log' = log \/ log' = Append(log, row), NEW i \in 1..Len(file), i < current
        PROVE  WasRead(i)'
    <3>1. 1..Len(log) \subseteq 1..Len(log') /\ \A j \in 1..Len(log) : log'[j] = log[j]
      BY <2>2, <2>4, <2>6
    <3>2. WasRead(i)
      BY <2>1, <2>6
    <3>3. QED
      BY <2>1, <2>5, <3>1, <3>2 DEF WasRead
  <2> HIDE DEF row
  <2>7. CASE AddPerson(row)
    <3>1. /\ row.id \in ID
          /\ people' = Stored(people, row)
          /\ log' = Append(log, row)
      BY <2>7 DEF AddPerson
    <3>2. FactStore(people', log')
      BY <2>1, <2>2, <3>1, RowKeepsFacts
    <3>3. ASSUME NEW k, k = current
          PROVE  WasRead(k)'
      <4>1. Len(log') \in 1..Len(log') /\ log'[Len(log')] = row
        BY <2>2, <2>4, <3>1
      <4>2. DbRow(file[k])' = row
        BY <2>5, <3>3 DEF row
      <4>3. QED
        BY <4>1, <4>2 DEF WasRead
    <3>4. QED
      BY <2>1, <2>3, <2>6, <3>1, <3>2, <3>3
  <2>8. CASE RefuseId(row)
    <3>1. /\ row.id = Malformed
          /\ people' = people
          /\ log' = Append(log, row)
      BY <2>8 DEF RefuseId
    <3>2. row.id \notin ID /\ file[current]["id"] \notin ID
      BY <2>2, <3>1, DistinctAssumption DEF As
    <3>3. FactStore(people', log')
      BY <2>1, <2>2, <3>1, <3>2, RefusalKeepsFacts
    <3>4. ASSUME NEW k, k = current
          PROVE  WasRead(k)'
      BY <2>1, <3>2, <3>4 DEF WasRead
    <3>5. QED
      BY <2>1, <2>3, <2>6, <3>1, <3>3, <3>4
  <2>9. CASE MissingId(row)
    <3>1. died' /\ people' = people /\ log' = log
      BY <2>9 DEF MissingId
    <3>2. QED
      BY <2>1, <2>3, <3>1
  <2>10. QED
    BY <2>1, <2>7, <2>8, <2>9 DEF AddRow
<1>2. CASE ReadCsvLine \/ AbandonCsv \/ ReadExcelRow \/ SkipBlankRow \/ ReadIndividual
  <2>1. format # "dbi" /\ format' = format
    <3>1. CASE ReadCsvLine
      BY <3>1 DEF ReadCsvLine, Reading
    <3>2. CASE AbandonCsv
      BY <3>2 DEF AbandonCsv, Reading
    <3>3. CASE ReadExcelRow
      BY <3>3 DEF ReadExcelRow, Reading
    <3>4. CASE SkipBlankRow
      BY <3>4 DEF SkipBlankRow, Reading
    <3>5. CASE ReadIndividual
      BY <3>5 DEF ReadIndividual, Reading
    <3>6. QED
      BY <1>2, <3>1, <3>2, <3>3, <3>4, <3>5
  <2>2. QED
    BY <2>1
<1>3. CASE Convert
  BY <1>3 DEF Convert
<1>4. CASE UNCHANGED allVars
  <2>1. /\ UNCHANGED <<people, log, died, format, mapping, file, current>>
        /\ \A i : DbRow(file[i])' = DbRow(file[i])
    BY <1>4 DEF allVars, vars, loaderVars, DbRow, DbColumn
  <2>2. QED
    BY <2>1 DEF MInv, Table, WasRead
<1>5. QED
  BY <1>1, <1>2, <1>3, <1>4 DEF ConversionNext, Load

\* Whatever the mapping and the table, somebody with one row has exactly the
\* facts of the mapped columns of that row, but for the cemetery, which is
\* read from another column, and the place of death, which nobody stores.
THEOREM MappedColumnsAreAlwaysStored == ConversionSpec => []MappedColumnsAreStored
<1>1. ASSUME MInv, format = "dbi", Loaded, NEW i \in DOMAIN file,
             file[i]["id"] \in LoadedOnce,
             NEW f \in Field \ {"cemetery", "place_of_death"}
      PROVE  people[file[i]["id"]].facts[f] =
                IF f \in mapping /\ file[i][f] \in Value THEN file[i][f] ELSE NIL
  <2> DEFINE p == file[i]["id"]
             row == DbRow(file[i])
  <2>1. /\ FactStore(people, log)
        /\ Table
        /\ current \in Nat \ {0}
        /\ current \notin 1..Len(file)
        /\ \A k \in 1..Len(file) : k < current => WasRead(k)
    BY <1>1 DEF MInv, Loaded, HasNext
  <2>2. p \in ID /\ people \in Store /\ log \in Seq(Row)
    BY <1>1, <2>1 DEF LoadedOnce, FactStore
  <2>3. i \in 1..Len(file) /\ i < current
    BY <1>1, <2>1 DEF Table
  <2>4. row \in Row /\ row.id = p /\ row.facts[f] = As(Value, DbColumn(file[i], f))
    <3>1. f \in Field
      BY DEF Field
    <3>2. row \in Row /\ row.id = As(ID, p) /\ row.facts[f] = As(Value, DbColumn(file[i], f))
      BY <2>1, <2>3, <3>1, DbRowType DEF Table
    <3>3. QED
      BY <2>2, <3>2 DEF As
  <2>5. PICK j \in 1..Len(log) : log[j] = row
    BY <2>1, <2>2, <2>3 DEF WasRead
  <2> HIDE DEF p, row
  <2>6. Own(log, p) = {j}
    <3>1. PICK k \in DOMAIN log : RowsOf(p) = {k}
      BY <1>1 DEF LoadedOnce, p
    <3>2. Own(log, p) = {k}
      BY <2>2, <3>1 DEF RowsOf, Own
    <3>3. j \in Own(log, p)
      BY <2>4, <2>5 DEF Own
    <3>4. QED
      BY <3>2, <3>3
  <2>7. Old(people, p).facts = RowFacts(row, NewPerson.facts)
    BY <2>1, <2>2, <2>5, <2>6 DEF FactStore, FactsOf
  <2>8. NewPerson.facts[f] = NIL
    BY DEF NewPerson, Field
  <2>9. Old(people, p).facts[f] = StoredFact(f, NIL, row.facts[f])
    BY <2>7, <2>8 DEF RowFacts, Field
  <2>10. f \notin {"place_of_death", "cemetery", "id", "father_id", "mother_id"}
    BY DEF Field, CheckedField
  <2>11. NIL \notin Value /\ Malformed \notin Value /\ NIL # Malformed
    BY DistinctAssumption
  <2>12. DbColumn(file[i], f) \in Value =>
            f \in mapping /\ DbColumn(file[i], f) = file[i][f]
    BY <2>10, <2>11 DEF DbColumn
  <2>13. f \in mapping /\ file[i][f] \in Value => DbColumn(file[i], f) = file[i][f]
    BY <2>10, <2>11 DEF DbColumn
  <2>14. StoredFact(f, NIL, row.facts[f]) =
            IF f \in mapping /\ file[i][f] \in Value THEN file[i][f] ELSE NIL
    <3>1. StoredFact(f, NIL, row.facts[f]) =
             IF DbColumn(file[i], f) \in Value THEN DbColumn(file[i], f) ELSE NIL
      BY <2>4, <2>10, <2>11 DEF StoredFact, As
    <3>2. QED
      BY <2>12, <2>13, <3>1
  <2>15. people[p].facts[f] = Old(people, p).facts[f]
    <3>1. people[p] # NIL
      BY <2>1, <2>2, <2>6 DEF FactStore, FactsOf
    <3>2. QED
      BY <3>1 DEF Old
  <2>16. QED
    BY <2>9, <2>14, <2>15 DEF p
<1>2. MInv => MappedColumnsAreStored
  BY <1>1 DEF MappedColumnsAreStored
<1>3. QED
  BY <1>2, InitMInv, StepKeepsMInv, PTL DEF ConversionSpec
=============================================================================
