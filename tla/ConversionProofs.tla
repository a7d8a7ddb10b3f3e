--------------------------- MODULE ConversionProofs ---------------------------
(***************************************************************************)
(* Theorems about the sheets, the GEDCOM files and the conversion to a     *)
(* sheet, for every file and every order in which people are written.      *)
(*                                                                         *)
(* Every loader builds a store that is Consistent with the rows it gave to *)
(* add_person, and all but the csv loader one that is also Told and        *)
(* Counted by them: the lemmas about one row were proved for any store and *)
(* any rows.  A conversion writes one row for everybody in such a store,   *)
(* so that what it loads again is what was written.                        *)
(***************************************************************************)
EXTENDS LoadersProofs

\* What every loader keeps of a store and the rows given to add_person.
Sound(t, l) ==
    /\ Consistent(t, l)
    /\ IsFiniteSet({p \in ID : t[p] # NIL})
    /\ \A p \in ID : Old(t, p).facts["place_of_death"] = NIL

\* What the loaders keep that do nothing with what add_person returns.
Exact(t, l) == Told(t, l) /\ Counted(t, l) /\ FactStore(t, l)

\* An accepted row keeps a store sound: it makes three persons at most, and
\* nobody stores a place of death.
LEMMA RowKeepsSound ==
    ASSUME NEW t, NEW l, Sound(t, l), NEW row \in Row, row.id \in ID
    PROVE  Sound(Stored(t, row), Append(l, row))
<1> DEFINE u == Stored(t, row)
           there == {p \in ID : t[p] # NIL}
           now == {p \in ID : u[p] # NIL}
<1>1. Consistent(u, Append(l, row))
  BY RowKeepsConsistent DEF Sound
<1>2. RowStep(t, u, row)
  BY StoredEffect DEF Sound, Consistent
<1> HIDE DEF u
<1>3. IsFiniteSet(now)
  <2>1. now \subseteq there \cup {row.id, row.father_id, row.mother_id}
    BY <1>2 DEF RowStep
  <2>2. IsFiniteSet(there \cup {row.id, row.father_id, row.mother_id})
    <3>1. IsFiniteSet(there)
      BY DEF Sound
    <3>2. IsFiniteSet(there \cup {row.id})
      BY <3>1, FS_AddElement
    <3>3. IsFiniteSet((there \cup {row.id}) \cup {row.father_id})
      BY <3>2, FS_AddElement
    <3>4. IsFiniteSet(((there \cup {row.id}) \cup {row.father_id}) \cup {row.mother_id})
      BY <3>3, FS_AddElement
    <3>5. there \cup {row.id, row.father_id, row.mother_id}
             = ((there \cup {row.id}) \cup {row.father_id}) \cup {row.mother_id}
      OBVIOUS
    <3>6. QED
      BY <3>4, <3>5
  <2>3. QED
    BY <2>1, <2>2, FS_Subset
<1>4. ASSUME NEW p \in ID
      PROVE  Old(u, p).facts["place_of_death"] = NIL
  <2>1. Old(t, p).facts["place_of_death"] = NIL
    BY DEF Sound
  <2>2. Old(u, p).facts = IF p = row.id THEN RowFacts(row, Old(t, p).facts)
                          ELSE Old(t, p).facts
    BY <1>2, Zenon DEF RowStep
  <2>3. RowFacts(row, Old(t, p).facts)["place_of_death"] = NIL
    BY <2>1 DEF RowFacts, StoredFact, Field
  <2>4. QED
    BY <2>1, <2>2, <2>3
<1>5. Sound(u, Append(l, row))
  BY <1>1, <1>3, <1>4 DEF Sound
<1>6. QED
  BY <1>5 DEF u

\* A loader that gives a row to add_person and does nothing else.
LEMMA AddRowStep ==
    ASSUME NEW row \in Row, AddRow(row), Sound(people, log), Exact(people, log)
    PROVE  /\ Sound(people', log') /\ Exact(people', log')
           /\ log' = log \/ log' = Append(log, row)
           /\ row.id \in ID => log' = Append(log, row)
           /\ ~died' => log' = Append(log, row)
           /\ row.id \in ID => died' = died
<1>1. NIL \notin ID /\ Malformed \notin ID
  BY DistinctAssumption
<1>2. CASE AddPerson(row)
  <2>1. row.id \in ID /\ people' = Stored(people, row) /\ log' = Append(log, row)
        /\ died' = died
    BY <1>2 DEF AddPerson
  <2>2. Sound(people', log')
    BY <2>1, RowKeepsSound
  <2>3. Exact(people', log')
    BY <2>1, RowKeepsTold, RowKeepsCounted, RowKeepsFacts DEF Exact
  <2>4. QED
    BY <2>1, <2>2, <2>3
<1>3. CASE RefuseId(row)
  <2>1. row.id \notin ID /\ people' = people /\ log' = Append(log, row)
    BY <1>1, <1>3 DEF RefuseId
  <2>2. Sound(people', log')
    BY <2>1, RefusedRowKeepsConsistent DEF Sound
  <2>3. Exact(people', log')
    BY <2>1, RefusedRowKeepsTold, RefusedRowKeepsCounted, RefusalKeepsFacts DEF Exact
  <2>4. QED
    BY <2>1, <2>2, <2>3
<1>4. CASE MissingId(row)
  <2>1. row.id \notin ID /\ people' = people /\ log' = log /\ died'
    BY <1>1, <1>4 DEF MissingId
  <2>2. QED
    BY <2>1
<1>5. QED
  BY <1>2, <1>3, <1>4 DEF AddRow

\* The store before the first row.
LEMMA EmptyIsSound ==
    LET t == [p \in ID |-> NIL]
    IN Sound(t, <<>>) /\ Exact(t, <<>>)
<1> DEFINE t == [p \in ID |-> NIL]
<1>1. Consistent(t, <<>>) /\ Told(t, <<>>) /\ Counted(t, <<>>)
  BY EmptyIsConsistent, EmptyIsTold, EmptyIsCounted
<1>2. \A p \in ID : t[p] = NIL /\ Old(t, p) = NewPerson
  BY DEF Old
<1>3. t \in Store /\ <<>> \in Seq(Row)
  BY DEF Store
<1> HIDE DEF t
<1>4. IsFiniteSet({p \in ID : t[p] # NIL})
  <2>1. {p \in ID : t[p] # NIL} = {}
    BY <1>2
  <2>2. QED
    BY <2>1, FS_EmptySet
<1>5. NewPerson.facts["place_of_death"] = NIL
  BY DEF NewPerson, Field
<1>6. \A p : Own(<<>>, p) = {}
  BY DEF Own
<1>7. Len(<<>>) = 0 /\ 1..0 = {}
  OBVIOUS
<1>8. FactStore(t, <<>>)
  BY <1>2, <1>3, <1>6, <1>7 DEF FactStore, FactsOf
<1>9. QED
  BY <1>1, <1>2, <1>4, <1>5, <1>8 DEF Sound, Exact, t

\* A csv line: what naming the parents does to the store is not against it.
LEMMA LineKeepsSound ==
    ASSUME NEW u, NEW l, Sound(u, l), NEW w, SameButNames(u, w), NamedStore(w, l)
    PROVE  Sound(w, l)
<1>1. /\ w \in Store
      /\ l \in Seq(Row)
      /\ \A q \in ID : /\ w[q] = NIL <=> u[q] = NIL
                       /\ Old(w, q).father = Old(u, q).father
                       /\ Old(w, q).mother = Old(u, q).mother
                       /\ Old(w, q).gender = Old(u, q).gender
                       /\ Old(w, q).children = Old(u, q).children
                       /\ Old(w, q).facts = Old(u, q).facts
  BY DEF SameButNames, Sound, Consistent
<1>2. Meets(w)
  BY <1>1 DEF Sound, Consistent, Meets
<1>3. RowsAreKnown(w, l)
  BY <1>1 DEF Sound, Consistent, RowsAreKnown
<1>4. Placeholders(w, l)
  <2>1. \A q \in ID : w[q] # NIL => Old(w, q).name # NIL
    BY Everybody DEF Old
  <2>2. QED
    BY <1>1, <2>1 DEF Sound, Consistent, Placeholders
<1>5. Declared(w, l)
  BY <1>1 DEF Sound, Consistent, Declared
<1>6. {p \in ID : w[p] # NIL} = {p \in ID : u[p] # NIL}
  BY <1>1
<1>7. QED
  BY <1>1, <1>2, <1>3, <1>4, <1>5, <1>6 DEF Sound, Consistent
-----------------------------------------------------------------------------
\* A row of cells with a name is a row.
LEMMA RowFromType ==
    ASSUME NEW cells, NEW name \in Name
    PROVE  RowFrom(cells, name) \in Row
<1>1. \A S : \A cell : As(S, cell) \in Argument(S)
  BY DEF As, Argument
<1>2. QED
  BY <1>1 DEF RowFrom, Row

\* Their names make the lines of a file rows.
LEMMA LineTypes ==
    ASSUME NEW line
    PROVE  /\ ExcelRow(line).name \in Name => ExcelRow(line) \in Row
           /\ GedcomRow(line).name \in Name => GedcomRow(line) \in Row
<1>1. \A cells : \A name : RowFrom(cells, name).name = name
  BY DEF RowFrom
<1>2. \E cells : \E name : ExcelRow(line) = RowFrom(cells, name)
  BY DEF ExcelRow
<1>3. \E cells : \E name : GedcomRow(line) = RowFrom(cells, name)
  BY DEF GedcomRow
<1>4. QED
  BY <1>1, <1>2, <1>3, RowFromType

\* What the loaders are given: the lines of the file as rows.  The header of
\* a sheet and the rows that are dropped are none.
LinesAreRows ==
    /\ format = "excel" => \A i \in 2..Len(file) :
                               Blank \notin Range(file[i]) => ExcelRow(file[i]) \in Row
    /\ format = "gedcom" => \A i \in 1..Len(file) : GedcomRow(file[i]) \in Row
    /\ format = "dbi" => \A i \in 1..Len(file) : DbRow(file[i]) \in Row

LInv ==
    /\ format \in Format
    /\ file \in Seq(Range(file))
    /\ current \in Nat \ {0}
    /\ format = "excel" => current >= 2
    /\ LinesAreRows
    /\ Sound(people, log)
    /\ format # "csv" => Exact(people, log)

\* Every data source has lines of its kind, and a load begins with nobody.
LEMMA InitLInv == LoaderInit => LInv
<1> SUFFICES ASSUME LoaderInit
             PROVE  LInv
  OBVIOUS
<1>1. PICK source \in Files[format] : /\ mapping = source.mapping
                                      /\ file = source.lines
                                      /\ format \in DOMAIN Files
  BY DEF LoaderInit
<1>2. format \in Format /\ file \in Seq(Range(file))
  BY <1>1, FilesAssumption
<1>3. current \in Nat \ {0} /\ (format = "excel" => current >= 2)
  BY DEF LoaderInit, FirstLine
<1>4. Sound(people, log) /\ Exact(people, log)
  BY EmptyIsSound DEF LoaderInit, Init
<1>5. format = "excel" => \A i \in 2..Len(file) :
                              Blank \notin Range(file[i]) => ExcelRow(file[i]) \in Row
  BY <1>1, <1>2, ExcelNamesAssumption, LineTypes
<1>6. format = "gedcom" => \A i \in 1..Len(file) : GedcomRow(file[i]) \in Row
  BY <1>1, GedcomAssumption, LineTypes
<1>7. format = "dbi" => \A i \in 1..Len(file) : DbRow(file[i]) \in Row
  BY <1>1, DbNamesAssumption, DbRowType
<1>8. QED
  BY <1>2, <1>3, <1>4, <1>5, <1>6, <1>7 DEF LInv, LinesAreRows

\* Every line keeps what the loaders keep.
LEMMA LoadKeepsLInv == LInv /\ NInv /\ Load => LInv'
<1> SUFFICES ASSUME LInv, NInv, Load
             PROVE  LInv'
  OBVIOUS
<1>1. /\ format \in Format
      /\ file \in Seq(Range(file)) /\ Len(file) \in Nat
      /\ current \in Nat \ {0}
      /\ format = "excel" => current >= 2
      /\ LinesAreRows
      /\ Sound(people, log)
      /\ format # "csv" => Exact(people, log)
  BY DEF LInv
<1>2. ASSUME format' = format, file' = file, mapping' = mapping
      PROVE  LinesAreRows'
  <2>1. \A i : DbRow(file[i])' = DbRow(file[i])
    BY <1>2 DEF DbRow, DbColumn
  <2>2. QED
    BY <1>1, <1>2, <2>1 DEF LinesAreRows
<1>3. CASE ReadCsvLine
  <2> DEFINE line == file[current]
             row == CsvRow(line)
             u == Stored(people, row)
             w == NameParents(u, row.id, line)
             m == Append(log, row)
  <2>1. /\ format = "csv"
        /\ current \in 1..Len(file)
        /\ row.id \in ID
        /\ people' = w /\ log' = m
        /\ format' = format /\ file' = file /\ mapping' = mapping
        /\ current' = SkipComments(current)
    BY <1>3 DEF ReadCsvLine, Reading, HasNext
  <2>2. NamedStore(people, log) /\ row.name \in Name
    BY <2>1 DEF NInv, NamesAreNames
  <2>3. row \in Row
    BY <2>2, CsvRowType
  <2>4. NamedStore(w, m) /\ SameButNames(u, w)
    BY <2>1, <2>2, LineKeepsNames
  <2>5. Sound(u, m)
    BY <1>1, <2>1, <2>3, RowKeepsSound
  <2>6. Sound(w, m)
    <3> HIDE DEF u, w, m
    <3>1. QED
      BY <2>4, <2>5, LineKeepsSound
  <2>7. current' \in Nat \ {0}
    BY <1>1, <2>1, NextLine
  <2> HIDE DEF u, w, m, row
  <2>8. QED
    BY <1>1, <1>2, <2>1, <2>6, <2>7 DEF LInv
<1>4. CASE AbandonCsv
  <2> DEFINE row == CsvRow(file[current])
  <2>1. /\ format = "csv"
        /\ current \in 1..Len(file)
        /\ row.id \notin ID
        /\ people' = people
        /\ log' = log \/ log' = Append(log, row)
        /\ format' = format /\ file' = file /\ mapping' = mapping
        /\ current' = SkipComments(current)
    BY <1>4 DEF AbandonCsv, Reading, HasNext
  <2>2. row \in Row
    BY <2>1, CsvRowType DEF NInv, NamesAreNames
  <2>3. Sound(people', log')
    BY <1>1, <2>1, <2>2, RefusedRowKeepsConsistent DEF Sound
  <2>4. current' \in Nat \ {0}
    BY <1>1, <2>1, NextLine
  <2>5. QED
    BY <1>1, <1>2, <2>1, <2>3, <2>4 DEF LInv
<1>5. ASSUME NEW row \in Row, AddRow(row), format # "csv", current' = current + 1,
             UNCHANGED <<format, mapping, file>>
      PROVE  LInv'
  BY <1>1, <1>2, <1>5, AddRowStep DEF LInv
<1>6. CASE ReadExcelRow
  <2>1. /\ format = "excel" /\ current \in 2..Len(file)
        /\ Blank \notin Range(file[current])
    BY <1>1, <1>6 DEF ReadExcelRow, Reading, HasNext
  <2>2. ExcelRow(file[current]) \in Row
    BY <1>1, <2>1 DEF LinesAreRows
  <2>3. QED
    BY <1>5, <1>6, <2>1, <2>2 DEF ReadExcelRow
<1>7. CASE ReadIndividual
  <2>1. format = "gedcom" /\ current \in 1..Len(file)
    BY <1>7 DEF ReadIndividual, Reading, HasNext
  <2>2. GedcomRow(file[current]) \in Row
    BY <1>1, <2>1 DEF LinesAreRows
  <2>3. QED
    BY <1>5, <1>7, <2>1, <2>2 DEF ReadIndividual
<1>8. CASE FetchRow
  <2>1. format = "dbi" /\ current \in 1..Len(file)
    BY <1>8 DEF FetchRow, Reading, HasNext
  <2>2. DbRow(file[current]) \in Row
    BY <1>1, <2>1 DEF LinesAreRows
  <2>3. QED
    BY <1>5, <1>8, <2>1, <2>2 DEF FetchRow
<1>9. CASE SkipBlankRow
  <2>1. /\ UNCHANGED <<people, log, format, mapping, file>>
        /\ current' = current + 1
        /\ format = "excel"
    BY <1>9 DEF SkipBlankRow, NextRow, vars, Reading
  <2>2. QED
    BY <1>1, <1>2, <2>1 DEF LInv
<1>10. QED
  BY <1>3, <1>4, <1>6, <1>7, <1>8, <1>9 DEF Load
-----------------------------------------------------------------------------
\* The 24 columns of a sheet have different names.
LEMMA ColumnsDiffer ==
    /\ Len(ExcelColumns) = 24
    /\ \A i, j \in 1..24 : ExcelColumns[i] = ExcelColumns[j] => i = j
BY DEF ExcelColumns

\* The cell of a column is the one at its place.
LEMMA CellAt ==
    ASSUME NEW line, NEW n \in 1..24
    PROVE  Cell(ExcelColumns, line, ExcelColumns[n]) =
              IF n \in DOMAIN line THEN line[n] ELSE NIL
<1> DEFINE I == {i \in 1..Len(ExcelColumns) : ExcelColumns[i] = ExcelColumns[n]}
<1>1. I = {n}
  BY ColumnsDiffer
<1>2. SelectInSeq(ExcelColumns, LAMBDA c : c = ExcelColumns[n]) = n
  <2>1. SelectInSeq(ExcelColumns, LAMBDA c : c = ExcelColumns[n]) =
           IF I # {} THEN Min(I) ELSE 0
    BY DEF SelectInSeq
  <2>2. Min({n}) = n
    BY DEF Min
  <2> HIDE DEF I
  <2>3. QED
    BY <1>1, <2>1, <2>2
<1>3. QED
  BY <1>2 DEF Cell

\* What is written for a person is given to add_person when the sheet is read.
Wrote(row, person, p) ==
    /\ row \in Row
    /\ row.id = p
    /\ row.name = IF person.name = NIL THEN NameOf(NIL, NIL) ELSE person.name
    /\ row.father_id = person.father
    /\ row.mother_id = person.mother
    /\ row.gender = person.gender
    /\ row.is_living = person.is_living
    /\ \A f \in Field : row.facts[f] = person.facts[f]

\* s and then t: the elements up to the end of s, and those after.
Begins(w, s) == \A i \in 1..Len(s) : w[i] = s[i]
Follows(w, n, t) == \A i \in 1..Len(t) : w[n + i] = t[i]

LEMMA Follow ==
    ASSUME NEW T, NEW s \in Seq(T), NEW t \in Seq(T)
    PROVE  /\ s \o t \in Seq(T)
           /\ Len(s \o t) = Len(s) + Len(t)
           /\ Begins(s \o t, s)
           /\ Follows(s \o t, Len(s), t)
BY DEF Begins, Follows

\* What a sequence has it still has as the beginning of another.
LEMMA StillFollows ==
    ASSUME NEW T, NEW w \in Seq(T), NEW v, Begins(v, w),
           NEW n \in Nat, NEW t \in Seq(T), n + Len(t) =< Len(w), Follows(w, n, t)
    PROVE  Follows(v, n, t)
<1> SUFFICES ASSUME NEW i \in 1..Len(t)
             PROVE  v[n + i] = t[i]
  BY DEF Follows
<1>1. n + i \in 1..Len(w)
  OBVIOUS
<1>2. v[n + i] = w[n + i]
  BY <1>1 DEF Begins
<1>3. w[n + i] = t[i]
  BY DEF Follows
<1>4. QED
  BY <1>2, <1>3

\* Five sequences put together.
Join(T, s, a, b, c, d, e) ==
    /\ DOMAIN s = 1..Len(s)
    /\ \A i \in DOMAIN s : s[i] \in T
    /\ Len(s) = Len(a) + Len(b) + Len(c) + Len(d) + Len(e)
    /\ Follows(s, 0, a)
    /\ Follows(s, Len(a), b)
    /\ Follows(s, Len(a) + Len(b), c)
    /\ Follows(s, Len(a) + Len(b) + Len(c), d)
    /\ Follows(s, Len(a) + Len(b) + Len(c) + Len(d), e)

LEMMA FiveJoined ==
    ASSUME NEW T, NEW a \in Seq(T), NEW b \in Seq(T), NEW c \in Seq(T),
           NEW d \in Seq(T), NEW e \in Seq(T)
    PROVE  Join(T, (((a \o b) \o c) \o d) \o e, a, b, c, d, e)
<1>1. PICK ab : ab = a \o b
  OBVIOUS
<1>2. PICK abc : abc = ab \o c
  OBVIOUS
<1>3. PICK abcd : abcd = abc \o d
  OBVIOUS
<1>4. PICK s : s = abcd \o e
  OBVIOUS
<1>5. /\ Len(a) \in Nat /\ Len(b) \in Nat /\ Len(c) \in Nat
      /\ Len(d) \in Nat /\ Len(e) \in Nat
  OBVIOUS
<1>6. /\ ab \in Seq(T) /\ Len(ab) = Len(a) + Len(b)
      /\ Begins(ab, a) /\ Follows(ab, Len(a), b)
  BY <1>1, Follow, Zenon
<1>7. /\ abc \in Seq(T) /\ Len(abc) = Len(ab) + Len(c)
      /\ Begins(abc, ab) /\ Follows(abc, Len(ab), c)
  BY <1>2, <1>6, Follow, Zenon
<1>8. /\ abcd \in Seq(T) /\ Len(abcd) = Len(abc) + Len(d)
      /\ Begins(abcd, abc) /\ Follows(abcd, Len(abc), d)
  BY <1>3, <1>7, Follow, Zenon
<1>9. /\ s \in Seq(T) /\ Len(s) = Len(abcd) + Len(e)
      /\ Begins(s, abcd) /\ Follows(s, Len(abcd), e)
  BY <1>4, <1>8, Follow, Zenon
<1>10. Follows(ab, 0, a)
  BY <1>6 DEF Begins, Follows
<1>11. Follows(abc, 0, a) /\ Follows(abc, Len(a), b)
  BY <1>5, <1>6, <1>7, <1>10, StillFollows
<1>12. /\ Follows(abcd, 0, a) /\ Follows(abcd, Len(a), b)
       /\ Follows(abcd, Len(ab), c)
  BY <1>5, <1>6, <1>7, <1>8, <1>11, StillFollows
<1>13. /\ Follows(s, 0, a) /\ Follows(s, Len(a), b)
       /\ Follows(s, Len(ab), c) /\ Follows(s, Len(abc), d)
  BY <1>5, <1>6, <1>7, <1>8, <1>9, <1>12, StillFollows
<1>14. QED
  <2>1. s = (((a \o b) \o c) \o d) \o e
    BY <1>1, <1>2, <1>3, <1>4, Zenon
  <2>2. /\ Len(s) = Len(a) + Len(b) + Len(c) + Len(d) + Len(e)
        /\ Len(ab) = Len(a) + Len(b)
        /\ Len(abc) = Len(a) + Len(b) + Len(c)
        /\ Len(abcd) = Len(a) + Len(b) + Len(c) + Len(d)
    BY <1>5, <1>6, <1>7, <1>8, <1>9
  <2>3. DOMAIN s = 1..Len(s) /\ \A i \in DOMAIN s : s[i] \in T
    BY <1>9
  <2>4. QED
    BY <1>9, <1>13, <2>1, <2>2, <2>3, Zenon DEF Join

\* The cells of a person's row, each at the place of its column.
LEMMA ExportCells ==
    ASSUME NEW p \in ID, people[p] \in Person
    PROVE  LET line == ExportRow(p)
               person == people[p]
               name == IF person.name = NIL THEN NameOf(NIL, NIL) ELSE person.name
               At(column) == Cell(ExcelColumns, line, column)
           IN /\ Blank \notin Range(line)
              /\ At("id") = p
              /\ At("first_name") = name[1]
              /\ At("title") = name[2]
              /\ At("father_id") = person.father
              /\ At("mother_id") = person.mother
              /\ At("gender") = person.gender
              /\ At("is_living") = person.is_living
              /\ At("contact") = person.facts["contact"]
              /\ At("date_of_birth") = person.facts["date_of_birth"]
              /\ At("date_of_death") = person.facts["date_of_death"]
              /\ At("cemetery") = person.facts["cemetery"]
              /\ At("place_of_birth") = person.facts["place_of_birth"]
              /\ At("place_of_death") = person.facts["place_of_death"]
              /\ At("places_of_living") = person.facts["places_of_living"]
              /\ At("notes") = person.facts["notes"]
<1> DEFINE line == ExportRow(p)
           person == people[p]
           name == IF person.name = NIL THEN NameOf(NIL, NIL) ELSE person.name
           facts == person.facts
           T == ID \cup Value \cup {NIL, 0, 1, name[1], name[2]}
           a == <<p, name[2], NIL, name[1], NIL, NIL, NIL, NIL>>
           b == <<person.father, person.mother>>
           c == <<facts["contact"], NIL, facts["date_of_birth"], facts["date_of_death"]>>
           d == <<person.gender, person.is_living>>
           e == <<facts["place_of_birth"], facts["place_of_death"], facts["cemetery"],
                  NIL, NIL, NIL, facts["places_of_living"], facts["notes"]>>
<1>1. line = (((a \o b) \o c) \o d) \o e
  BY DEF ExportRow, ParentCells, LifeCells
<1>2. /\ p \in T /\ NIL \in T /\ name[1] \in T /\ name[2] \in T
      /\ person.father \in T /\ person.mother \in T
      /\ person.gender \in T /\ person.is_living \in T
      /\ \A f \in Field : facts[f] \in T
  BY DEF Person, Male, Female
<1>3. {"contact", "date_of_birth", "date_of_death", "cemetery", "place_of_birth",
       "place_of_death", "places_of_living", "notes"} \subseteq Field
  BY DEF Field, CheckedField
<1>4. Blank \notin T
  <2>1. Blank \notin {name[1], name[2]}
    <3>1. name \in Name
      BY ExportAssumption DEF Person
    <3>2. QED
      BY <3>1, ExportAssumption
  <2>2. QED
    BY <2>1, ExportAssumption
<1> HIDE DEF T, person, name, facts, line
<1>5. a \in Seq(T) /\ b \in Seq(T) /\ c \in Seq(T) /\ d \in Seq(T) /\ e \in Seq(T)
  BY <1>2, <1>3
<1>6. /\ Len(a) = 8 /\ Len(b) = 2 /\ Len(c) = 4 /\ Len(d) = 2 /\ Len(e) = 8
  OBVIOUS
<1> HIDE DEF a, b, c, d, e
<1>7. /\ DOMAIN line = 1..24
      /\ \A i \in 1..24 : line[i] \in T
      /\ Follows(line, 0, a) /\ Follows(line, 8, b) /\ Follows(line, 10, c)
      /\ Follows(line, 14, d) /\ Follows(line, 16, e)
  <2>1. Join(T, line, a, b, c, d, e)
    BY <1>1, <1>5, FiveJoined
  <2>2. QED
    BY <1>6, <2>1 DEF Join
<1>8. /\ line[1] = p /\ line[2] = name[2] /\ line[4] = name[1]
  <2>1. line[0 + 1] = a[1] /\ line[0 + 2] = a[2] /\ line[0 + 4] = a[4]
    BY <1>6, <1>7 DEF Follows
  <2>2. QED
    BY <2>1 DEF a
<1>9. /\ line[9] = person.father /\ line[10] = person.mother
  <2>1. line[8 + 1] = b[1] /\ line[8 + 2] = b[2]
    BY <1>6, <1>7 DEF Follows
  <2>2. QED
    BY <2>1 DEF b
<1>10. /\ line[11] = facts["contact"] /\ line[13] = facts["date_of_birth"]
       /\ line[14] = facts["date_of_death"]
  <2>1. line[10 + 1] = c[1] /\ line[10 + 3] = c[3] /\ line[10 + 4] = c[4]
    BY <1>6, <1>7 DEF Follows
  <2>2. QED
    BY <2>1 DEF c
<1>11. line[15] = person.gender /\ line[16] = person.is_living
  <2>1. line[14 + 1] = d[1] /\ line[14 + 2] = d[2]
    BY <1>6, <1>7 DEF Follows
  <2>2. QED
    BY <2>1 DEF d
<1>12. /\ line[17] = facts["place_of_birth"] /\ line[18] = facts["place_of_death"]
       /\ line[19] = facts["cemetery"] /\ line[23] = facts["places_of_living"]
       /\ line[24] = facts["notes"]
  <2>1. /\ line[16 + 1] = e[1] /\ line[16 + 2] = e[2] /\ line[16 + 3] = e[3]
        /\ line[16 + 7] = e[7] /\ line[16 + 8] = e[8]
    BY <1>6, <1>7 DEF Follows
  <2>2. QED
    BY <2>1 DEF e
<1>13. DOMAIN line = 1..24 /\ Blank \notin Range(line)
  BY <1>4, <1>7 DEF Range
<1>14. \A n \in 1..24 : Cell(ExcelColumns, line, ExcelColumns[n]) = line[n]
  BY <1>13, CellAt
<1>15. /\ ExcelColumns[1] = "id" /\ ExcelColumns[2] = "title"
       /\ ExcelColumns[4] = "first_name"
       /\ ExcelColumns[9] = "father_id" /\ ExcelColumns[10] = "mother_id"
       /\ ExcelColumns[11] = "contact"
       /\ ExcelColumns[13] = "date_of_birth" /\ ExcelColumns[14] = "date_of_death"
       /\ ExcelColumns[15] = "gender" /\ ExcelColumns[16] = "is_living"
       /\ ExcelColumns[17] = "place_of_birth" /\ ExcelColumns[18] = "place_of_death"
       /\ ExcelColumns[19] = "cemetery" /\ ExcelColumns[23] = "places_of_living"
       /\ ExcelColumns[24] = "notes"
  BY DEF ExcelColumns
<1> DEFINE At(column) == Cell(ExcelColumns, line, column)
<1> HIDE DEF At
<1>16. \A n \in 1..24 : At(ExcelColumns[n]) = line[n]
  BY <1>14 DEF At
<1>17. /\ At("id") = line[1] /\ At("title") = line[2] /\ At("first_name") = line[4]
       /\ At("father_id") = line[9] /\ At("mother_id") = line[10]
       /\ At("contact") = line[11]
       /\ At("date_of_birth") = line[13] /\ At("date_of_death") = line[14]
       /\ At("gender") = line[15] /\ At("is_living") = line[16]
       /\ At("place_of_birth") = line[17] /\ At("place_of_death") = line[18]
       /\ At("cemetery") = line[19] /\ At("places_of_living") = line[23]
       /\ At("notes") = line[24]
  BY <1>15, <1>16
<1>18. QED
  BY <1>8, <1>9, <1>10, <1>11, <1>12, <1>13, <1>17
     DEF At, line, person, name, facts

\* The row of a person says all there is to say of the person.
LEMMA ExportedRow ==
    ASSUME NEW p \in ID, people[p] \in Person
    PROVE  /\ Wrote(ExcelRow(ExportRow(p)), people[p], p)
           /\ Blank \notin Range(ExportRow(p))
<1> DEFINE line == ExportRow(p)
           person == people[p]
           name == IF person.name = NIL THEN NameOf(NIL, NIL) ELSE person.name
           At(column) == Cell(ExcelColumns, line, column)
           cells == [f \in Column |-> At(f)]
<1>1. /\ Blank \notin Range(line)
      /\ At("id") = p
      /\ At("first_name") = name[1]
      /\ At("title") = name[2]
      /\ At("father_id") = person.father
      /\ At("mother_id") = person.mother
      /\ At("gender") = person.gender
      /\ At("is_living") = person.is_living
      /\ \A f \in Field : At(f) = person.facts[f]
  BY ExportCells, Zenon DEF Field, CheckedField
<1>2. name \in Name /\ name = NameOf(name[1], name[2])
  BY ExportAssumption DEF Person
<1>3. ExcelRow(line) = RowFrom(cells, name)
  BY <1>1, <1>2 DEF ExcelRow
<1>4. /\ cells["id"] = At("id")
      /\ cells["father_id"] = At("father_id") /\ cells["mother_id"] = At("mother_id")
      /\ cells["gender"] = At("gender") /\ cells["is_living"] = At("is_living")
      /\ \A f \in Field : cells[f] = At(f)
  BY DEF Column
<1>5. \A S, cell : cell \in S \cup {NIL} => As(S, cell) = cell
  BY DEF As
<1>6. /\ person.father \in ID \cup {NIL} /\ person.mother \in ID \cup {NIL}
      /\ person.gender \in {Male, Female} \cup {NIL}
      /\ person.is_living \in {0, 1} \cup {NIL}
      /\ \A f \in Field : person.facts[f] \in Value \cup {NIL}
  BY DEF Person
<1>7. RowFrom(cells, name) \in Row
  BY <1>2, RowFromType
<1> HIDE DEF cells, name, person, At, line
<1>8. /\ RowFrom(cells, name).id = p
      /\ RowFrom(cells, name).name = name
      /\ RowFrom(cells, name).father_id = person.father
      /\ RowFrom(cells, name).mother_id = person.mother
      /\ RowFrom(cells, name).gender = person.gender
      /\ RowFrom(cells, name).is_living = person.is_living
      /\ \A f \in Field : RowFrom(cells, name).facts[f] = person.facts[f]
  BY <1>1, <1>4, <1>5, <1>6 DEF RowFrom
<1>9. QED
  BY <1>1, <1>3, <1>7, <1>8 DEF Wrote, name, person, line
-----------------------------------------------------------------------------
\* Whoever is written in the order of the hash is written once.
LEMMA OrdersNameEverybodyOnce ==
    ASSUME IsFiniteSet(Known), NEW order \in Orders
    PROVE  /\ Cardinality(Known) \in Nat
           /\ \A i \in 1..Cardinality(Known) : order[i] \in Known
           /\ \A i, j \in 1..Cardinality(Known) : order[i] = order[j] => i = j
           /\ \A p \in Known : \E i \in 1..Cardinality(Known) : order[i] = p
<1> DEFINE n == Cardinality(Known)
<1>1. n \in Nat
  BY FS_CardinalityType
<1> HIDE DEF n
<1>2. order \in [1..n -> Known] /\ Range(order) = Known
  BY DEF Orders, n
<1>3. \A p \in Known : \E i \in 1..n : order[i] = p
  BY <1>2 DEF Range
<1>4. order \in Surjection(1..n, Known)
  BY <1>2, <1>3 DEF Surjection
<1>5. IsFiniteSet(1..n) /\ Cardinality(1..n) = n
  BY <1>1, FS_Interval
<1>6. order \in Injection(1..n, Known)
  BY <1>4, <1>5, FS_SurjSameCardinalityImpliesInj DEF n
<1>7. \A i, j \in 1..n : order[i] = order[j] => i = j
  BY <1>6 DEF Injection, IsInjective
<1>8. QED
  BY <1>1, <1>2, <1>3, <1>7 DEF n

\* The rows of the sheet s, from the second on, tell everybody in t once.
Sheet(s, t) ==
    /\ \A i \in 2..Len(s) :
          /\ Blank \notin Range(s[i])
          /\ \E p \in ID : t[p] # NIL /\ Wrote(ExcelRow(s[i]), t[p], p)
    /\ \A i, j \in 2..Len(s) : ExcelRow(s[i]).id = ExcelRow(s[j]).id => i = j
    /\ \A p \in ID : t[p] # NIL => \E i \in 2..Len(s) : ExcelRow(s[i]).id = p

\* What is known of a store when it is written.
Original(t) ==
    /\ t \in Store
    /\ Meets(t)
    /\ \A q \in ID : /\ Old(t, q).children # <<>> => Old(t, q).gender # NIL
                     /\ Old(t, q).facts["place_of_death"] = NIL

\* A converted file has been taken row by row.
RInv ==
    original # NIL =>
        /\ format = "excel"
        /\ ~died
        /\ Original(original)
        /\ Sheet(file, original)
        /\ Len(file) >= 1
        /\ current \in 2..(Len(file) + 1)
        /\ Len(log) = current - 2
        /\ \A j \in 1..Len(log) : log[j] = ExcelRow(file[j + 1])

\* A store that is sound is one that can be written.
LEMMA SoundIsOriginal == Sound(people, log) => Original(people)
BY DEF Sound, Consistent, Placeholders, Original

\* A sequence is one of its own elements.
LEMMA SeqOfItsRange ==
    ASSUME NEW T, NEW s \in Seq(T)
    PROVE  s \in Seq(Range(s))
<1>1. DOMAIN s = 1..Len(s) /\ Len(s) \in Nat
  OBVIOUS
<1>2. \A i \in 1..Len(s) : s[i] \in Range(s)
  BY <1>1 DEF Range
<1>3. s = [i \in 1..Len(s) |-> s[i]]
  BY <1>1
<1>4. QED
  BY <1>1, <1>2, <1>3

\* The conversion makes a sheet of the store and begins to load it.
LEMMA ConvertStep ==
    ASSUME LInv, Convert
    PROVE  LInv' /\ RInv'
<1>1. PICK order \in Orders :
          file' = <<Header>> \o [i \in DOMAIN order |-> ExportRow(order[i])]
  BY DEF Convert
<1>2. /\ original' = people
      /\ format' = "excel"
      /\ current' = 2
      /\ people' = [p \in ID |-> NIL]
      /\ log' = <<>>
      /\ died' = FALSE
  BY DEF Convert, FirstLine, Loaded
<1> DEFINE n == Cardinality(Known)
<1>3. Sound(people, log) /\ IsFiniteSet(Known) /\ people \in Store
  BY DEF LInv, Sound, Known, Consistent
<1>4. /\ n \in Nat
      /\ \A i \in 1..n : order[i] \in Known
      /\ \A i, j \in 1..n : order[i] = order[j] => i = j
      /\ \A p \in Known : \E i \in 1..n : order[i] = p
  BY <1>3, OrdersNameEverybodyOnce
<1> HIDE DEF n
<1>5. DOMAIN order = 1..n
  BY DEF Orders, n
<1>6. PICK T : T = {Header} \cup {ExportRow(p) : p \in Known}
  OBVIOUS
<1>7. PICK rows : rows = [i \in 1..n |-> ExportRow(order[i])]
  OBVIOUS
<1>8. /\ rows \in Seq(T) /\ Len(rows) = n
      /\ \A i \in 1..n : rows[i] = ExportRow(order[i])
  BY <1>4, <1>6, <1>7
<1>9. PICK s : s = <<Header>> \o rows
  OBVIOUS
<1>10. /\ s \in Seq(T) /\ Len(s) = n + 1
       /\ \A i \in 2..(n + 1) : s[i] = ExportRow(order[i - 1])
  <2>1. <<Header>> \in Seq(T) /\ Len(<<Header>>) = 1
    BY <1>6
  <2>2. /\ s \in Seq(T) /\ Len(s) = 1 + n
        /\ Follows(s, 1, rows)
    BY <1>8, <1>9, <2>1, Follow
  <2>3. ASSUME NEW i \in 2..(n + 1)
        PROVE  s[i] = ExportRow(order[i - 1])
    <3>1. i - 1 \in 1..n /\ 1 + (i - 1) = i
      BY <1>4, <2>3
    <3>2. s[1 + (i - 1)] = rows[i - 1]
      BY <1>8, <2>2, <3>1 DEF Follows
    <3>3. QED
      BY <1>8, <3>1, <3>2
  <2>4. QED
    BY <1>4, <2>2, <2>3
<1>11. file' = s
  BY <1>1, <1>5, <1>7, <1>9
<1>12. ASSUME NEW i \in 2..Len(s)
       PROVE  /\ i - 1 \in 1..n
              /\ order[i - 1] \in ID /\ people[order[i - 1]] # NIL
              /\ Wrote(ExcelRow(s[i]), people[order[i - 1]], order[i - 1])
              /\ Blank \notin Range(s[i])
  <2>1. i - 1 \in 1..n /\ s[i] = ExportRow(order[i - 1])
    BY <1>4, <1>10, <1>12
  <2>2. order[i - 1] \in ID /\ people[order[i - 1]] # NIL
    BY <1>4, <2>1 DEF Known
  <2>3. people[order[i - 1]] \in Person
    BY <1>3, <2>2 DEF Store
  <2>4. QED
    BY <2>1, <2>2, <2>3, ExportedRow
<1>13. Sheet(s, people)
  <2>1. ASSUME NEW i \in 2..Len(s), NEW j \in 2..Len(s),
               ExcelRow(s[i]).id = ExcelRow(s[j]).id
        PROVE  i = j
    <3>1. /\ ExcelRow(s[i]).id = order[i - 1] /\ i - 1 \in 1..n
          /\ ExcelRow(s[j]).id = order[j - 1] /\ j - 1 \in 1..n
      BY <1>12 DEF Wrote
    <3>2. i - 1 = j - 1
      BY <1>4, <2>1, <3>1
    <3>3. QED
      BY <3>2
  <2>2. ASSUME NEW p \in ID, people[p] # NIL
        PROVE  \E i \in 2..Len(s) : ExcelRow(s[i]).id = p
    <3>1. PICK i \in 1..n : order[i] = p
      BY <1>4, <2>2 DEF Known
    <3>2. i + 1 \in 2..Len(s) /\ (i + 1) - 1 = i
      BY <1>4, <1>10
    <3>3. ExcelRow(s[i + 1]).id = order[(i + 1) - 1]
      BY <1>12, <3>2 DEF Wrote
    <3>4. QED
      BY <3>1, <3>2, <3>3
  <2>3. QED
    BY <1>12, <2>1, <2>2 DEF Sheet
<1>14. RInv'
  <2>1. Len(log') = 0 /\ 1..0 = {}
    BY <1>2
  <2>2. Len(file') >= 1 /\ current' \in 2..(Len(file') + 1)
    BY <1>2, <1>4, <1>10, <1>11
  <2>3. QED
    BY <1>2, <1>3, <1>11, <1>13, <2>1, <2>2, SoundIsOriginal DEF RInv
<1>15. LInv'
  <2>1. (file \in Seq(Range(file)))'
    <3>1. s \in Seq(Range(s))
      BY <1>10, SeqOfItsRange
    <3>2. QED
      BY <1>11, <3>1
  <2>2. \A i \in 2..Len(s) : ExcelRow(s[i]) \in Row
    BY <1>12 DEF Wrote
  <2>3. LinesAreRows'
    BY <1>2, <1>11, <2>2 DEF LinesAreRows
  <2>4. Sound(people', log') /\ Exact(people', log')
    BY <1>2, EmptyIsSound
  <2>5. QED
    BY <1>2, <2>1, <2>3, <2>4 DEF LInv, Format
<1>16. QED
  BY <1>14, <1>15

\* What a step of a load keeps, by the conversion's place in it.
LEMMA LoadKeepsRInv ==
    ASSUME LInv, RInv, Load
    PROVE  RInv'
<1> SUFFICES ASSUME original # NIL
             PROVE  /\ format' = "excel" /\ ~died'
                    /\ original' = original /\ file' = file
                    /\ current' \in 2..(Len(file) + 1)
                    /\ Len(log') = current' - 2
                    /\ \A j \in 1..Len(log') : log'[j] = ExcelRow(file[j + 1])
  <2>1. original' = original
    <3>1. CASE ReadCsvLine \/ AbandonCsv
      BY <3>1 DEF ReadCsvLine, AbandonCsv
    <3>2. CASE ReadExcelRow \/ SkipBlankRow
      BY <3>2 DEF ReadExcelRow, SkipBlankRow
    <3>3. CASE ReadIndividual \/ FetchRow
      BY <3>3 DEF ReadIndividual, FetchRow
    <3>4. QED
      BY <3>1, <3>2, <3>3 DEF Load
  <2>2. QED
    BY <2>1 DEF RInv
<1>1. /\ format = "excel" /\ ~died
      /\ Sheet(file, original)
      /\ Len(file) >= 1 /\ file \in Seq(Range(file)) /\ Len(file) \in Nat
      /\ current \in 2..(Len(file) + 1)
      /\ Len(log) = current - 2
      /\ \A j \in 1..Len(log) : log[j] = ExcelRow(file[j + 1])
      /\ Sound(people, log) /\ Exact(people, log) /\ log \in Seq(Row)
      /\ LinesAreRows
  BY DEF RInv, LInv, Sound, Consistent
<1>2. ReadExcelRow /\ current \in 2..Len(file)
  <2>1. ~ReadCsvLine /\ ~AbandonCsv /\ ~ReadIndividual /\ ~FetchRow
    BY <1>1 DEF ReadCsvLine, AbandonCsv, ReadIndividual, FetchRow, Reading
  <2>2. ReadExcelRow \/ SkipBlankRow
    BY <2>1 DEF Load
  <2>3. current \in 2..Len(file)
    BY <1>1, <2>2 DEF ReadExcelRow, SkipBlankRow, Reading, HasNext
  <2>4. ~SkipBlankRow
    BY <1>1, <2>3 DEF SkipBlankRow, Sheet
  <2>5. QED
    BY <2>2, <2>3, <2>4
<1> DEFINE row == ExcelRow(file[current])
<1>3. /\ AddRow(row) /\ current' = current + 1
      /\ format' = format /\ file' = file /\ original' = original
  BY <1>2 DEF ReadExcelRow
<1>4. row \in Row /\ row.id \in ID
  BY <1>1, <1>2 DEF Sheet, Wrote
<1> HIDE DEF row
<1>5. log' = Append(log, row) /\ died' = died
  BY <1>1, <1>3, <1>4, AddRowStep
<1>6. ASSUME NEW j \in 1..Len(log')
      PROVE  log'[j] = ExcelRow(file[j + 1])
  <2>1. CASE j \in 1..Len(log)
    BY <1>1, <1>4, <1>5, <2>1
  <2>2. CASE j = Len(log) + 1
    <3>1. log'[j] = row /\ j + 1 = current
      BY <1>1, <1>2, <1>4, <1>5, <2>2
    <3>2. QED
      BY <3>1 DEF row
  <2>3. QED
    BY <1>1, <1>4, <1>5, <2>1, <2>2
<1>7. Len(log') = current' - 2 /\ current' \in 2..(Len(file) + 1)
  BY <1>1, <1>2, <1>3, <1>4, <1>5
<1>8. QED
  BY <1>1, <1>3, <1>5, <1>6, <1>7

\* Every behaviour keeps what the loaders keep, and what a conversion wrote.
LEMMA LoadsAreSound == ConversionSpec => [](LInv /\ RInv)
<1>1. LoaderInit => LInv /\ RInv
  BY InitLInv DEF LoaderInit, RInv
<1>2. ASSUME LInv, RInv, NInv, [ConversionNext]_allVars
      PROVE  LInv' /\ RInv'
  <2>1. CASE Load
    BY <1>2, <2>1, LoadKeepsLInv, LoadKeepsRInv
  <2>2. CASE Convert
    BY <1>2, <2>2, ConvertStep
  <2>3. CASE UNCHANGED allVars
    <3>1. /\ UNCHANGED <<people, log, died, format, mapping, file, current, original>>
          /\ \A i : DbRow(file[i])' = DbRow(file[i])
      BY <2>3 DEF allVars, vars, loaderVars, DbRow, DbColumn
    <3>2. LInv'
      BY <1>2, <3>1 DEF LInv, LinesAreRows
    <3>3. RInv'
      BY <1>2, <3>1 DEF RInv
    <3>4. QED
      BY <3>2, <3>3
  <2>4. QED
    BY <1>2, <2>1, <2>2, <2>3 DEF ConversionNext
<1>3. QED
  BY <1>1, <1>2, InitNInv, StepKeepsNInv, PTL DEF ConversionSpec
-----------------------------------------------------------------------------
\* Once the sheet is loaded, whoever was in the store has one row in the log,
\* with all there was to say, and nobody else has one.
LEMMA OneRowEach ==
    ASSUME LInv, RInv, Converted
    PROVE  /\ \A j \in 1..Len(log) : \E p \in ID : original[p] # NIL /\ Wrote(log[j], original[p], p)
           /\ \A p \in ID : original[p] # NIL =>
                 \E j \in 1..Len(log) : Own(log, p) = {j} /\ Wrote(log[j], original[p], p)
           /\ \A p \in ID : original[p] = NIL => Own(log, p) = {}
<1>1. /\ Sheet(file, original)
      /\ Len(file) \in Nat
      /\ current = Len(file) + 1
      /\ Len(log) = Len(file) - 1 /\ Len(log) \in Nat
      /\ \A j \in 1..Len(log) : log[j] = ExcelRow(file[j + 1])
  BY DEF LInv, RInv, Converted, Loaded, HasNext, Sound, Consistent
<1>2. ASSUME NEW j \in 1..Len(log)
      PROVE  /\ j + 1 \in 2..Len(file)
             /\ log[j] = ExcelRow(file[j + 1])
             /\ \E p \in ID : original[p] # NIL /\ Wrote(log[j], original[p], p)
  <2>1. j + 1 \in 2..Len(file) /\ log[j] = ExcelRow(file[j + 1])
    BY <1>1
  <2>2. QED
    BY <1>1, <2>1 DEF Sheet
<1>3. ASSUME NEW p \in ID, original[p] # NIL
      PROVE  \E j \in 1..Len(log) : Own(log, p) = {j} /\ Wrote(log[j], original[p], p)
  <2>1. PICK i \in 2..Len(file) : ExcelRow(file[i]).id = p
    BY <1>1, <1>3 DEF Sheet
  <2>2. i - 1 \in 1..Len(log) /\ (i - 1) + 1 = i
    BY <1>1
  <2>3. log[i - 1].id = p
    BY <1>2, <2>1, <2>2
  <2>4. ASSUME NEW j \in 1..Len(log), log[j].id = p
        PROVE  j = i - 1
    <3>1. j + 1 \in 2..Len(file) /\ ExcelRow(file[j + 1]).id = ExcelRow(file[i]).id
      BY <1>2, <2>1, <2>4
    <3>2. j + 1 = i
      BY <1>1, <3>1 DEF Sheet
    <3>3. QED
      BY <3>2
  <2>5. Own(log, p) = {i - 1}
    BY <2>2, <2>3, <2>4 DEF Own
  <2>6. Wrote(log[i - 1], original[p], p)
    BY <1>2, <2>2, <2>3 DEF Wrote
  <2>7. QED
    BY <2>2, <2>5, <2>6
<1>4. ASSUME NEW p \in ID, original[p] = NIL
      PROVE  Own(log, p) = {}
  BY <1>2, <1>4 DEF Own, Wrote
<1>5. QED
  BY <1>2, <1>3, <1>4

\* Nobody is there who was not: a parent in the sheet has a row of its own.
LEMMA SamePeople ==
    ASSUME LInv, RInv, Converted, NEW p \in ID
    PROVE  people[p] = NIL <=> original[p] = NIL
<1>1. /\ Sound(people, log) /\ Exact(people, log)
      /\ Original(original)
  BY DEF LInv, RInv, Converted
<1>2. ASSUME original[p] # NIL
      PROVE  people[p] # NIL
  <2>1. PICK j \in 1..Len(log) : Own(log, p) = {j}
    BY <1>2, OneRowEach
  <2>2. log[j].id = p
    BY <2>1 DEF Own
  <2>3. QED
    BY <1>1, <2>2 DEF Sound, Consistent, RowsAreKnown
<1>3. ASSUME original[p] = NIL, people[p] # NIL
      PROVE  FALSE
  <2>1. Own(log, p) = {}
    BY <1>3, OneRowEach
  <2>2. Old(people, p).name = NIL
    BY <1>1, <2>1 DEF Exact, Told, PersonAsDeclared, Says
  <2>3. Old(people, p).children # <<>> /\ people \in Store
    BY <1>1, <1>3, <2>2 DEF Sound, Consistent, Placeholders
  <2>4. PICK c \in ID : Occurs(c, Old(people, p).children)
    <3>1. Old(people, p).children \in Seq(ID)
      BY <2>3, OldType DEF Person
    <3>2. 1 \in 1..Len(Old(people, p).children) /\ Old(people, p).children[1] \in ID
      BY <2>3, <3>1
    <3>3. QED
      BY <3>2 DEF Occurs
  <2>5. PICK i \in 1..Len(log) : p \in {log[i].father_id, log[i].mother_id}
    BY <1>1, <2>4 DEF Sound, Consistent, Declared
  <2>6. PICK q \in ID : original[q] # NIL /\ Wrote(log[i], original[q], q)
    BY OneRowEach
  <2>7. p \in {Old(original, q).father, Old(original, q).mother}
    BY <2>5, <2>6 DEF Wrote, Old
  <2>8. QED
    BY <1>1, <1>3, <2>7 DEF Original, Meets
<1>4. QED
  BY <1>2, <1>3

\* One row says who somebody's parents are.
LEMMA OneRowTells ==
    ASSUME NEW l, NEW q, NEW p \in ID, PersonAsDeclared(q, l, p),
           NEW j \in 1..Len(l), Own(l, p) = {j},
           NEW person \in Person, Wrote(l[j], person, p)
    PROVE  /\ q.father = person.father
           /\ q.mother = person.mother
           /\ q.name = IF person.name = NIL THEN NameOf(NIL, NIL) ELSE person.name
           /\ q.is_living = RowIsLiving(l[j])
<1>1. NIL \notin ID /\ person.father \in ID \cup {NIL} /\ person.mother \in ID \cup {NIL}
  BY DistinctAssumption DEF Person
<1>2. q.father = person.father
  <2>1. WithFather(l, p) = IF person.father \in ID THEN {j} ELSE {}
    BY DEF WithFather, Own, Wrote
  <2>2. Fathers(l)[j] = person.father
    BY DEF Fathers, Wrote
  <2>3. Says(WithFather(l, p), Fathers(l), q.father)
    BY DEF PersonAsDeclared
  <2>4. QED
    BY <1>1, <2>1, <2>2, <2>3 DEF Says
<1>3. q.mother = person.mother
  <2>1. WithMother(l, p) = IF person.mother \in ID THEN {j} ELSE {}
    BY DEF WithMother, Own, Wrote
  <2>2. Mothers(l)[j] = person.mother
    BY DEF Mothers, Wrote
  <2>3. Says(WithMother(l, p), Mothers(l), q.mother)
    BY DEF PersonAsDeclared
  <2>4. QED
    BY <1>1, <2>1, <2>2, <2>3 DEF Says
<1>4. q.name = IF person.name = NIL THEN NameOf(NIL, NIL) ELSE person.name
  <2>1. Says(Own(l, p), Names(l), q.name)
    BY DEF PersonAsDeclared
  <2>2. Names(l)[j] = l[j].name
    BY DEF Names
  <2>3. QED
    BY <2>1, <2>2 DEF Says, Wrote
<1>5. q.is_living = RowIsLiving(l[j])
  <2>1. Says(Own(l, p), Livings(l), q.is_living)
    BY DEF PersonAsDeclared
  <2>2. Livings(l)[j] = RowIsLiving(l[j])
    BY DEF Livings
  <2>3. QED
    BY <2>1, <2>2 DEF Says
<1>6. QED
  BY <1>2, <1>3, <1>4, <1>5

\* And what somebody's gender is: without one in the row nobody is a parent.
LEMMA SameGender ==
    ASSUME LInv, RInv, Converted, NEW p \in ID, original[p] # NIL
    PROVE  people[p].gender = original[p].gender
<1>1. Exact(people, log) /\ Original(original)
  BY DEF LInv, RInv, Converted
<1>2. PICK j \in 1..Len(log) : Own(log, p) = {j} /\ Wrote(log[j], original[p], p)
  BY OneRowEach
<1>3. people[p] # NIL /\ original[p] \in Person
  BY <1>1, SamePeople DEF Original, Store
<1>4. GenderSaid(people[p].gender, log, p)
  BY <1>1, <1>3 DEF Exact, Told, Old
<1>5. log[j].gender = original[p].gender
  BY <1>2 DEF Wrote
<1>6. original[p].gender \in {Male, Female, NIL} /\ NIL \notin {Male, Female}
  BY <1>3, DistinctAssumption DEF Person, Male, Female
<1>7. CASE original[p].gender \in {Male, Female}
  <2>1. WithGender(log, p) = {j}
    BY <1>2, <1>5, <1>7 DEF WithGender, Own
  <2>2. Genders(log)[j] = original[p].gender
    BY <1>5 DEF Genders
  <2>3. QED
    BY <1>4, <2>1, <2>2 DEF GenderSaid, Says
<1>8. CASE original[p].gender = NIL
  <2>1. WithGender(log, p) = {}
    BY <1>2, <1>5, <1>6, <1>8 DEF WithGender, Own
  <2>2. Old(original, p).children = <<>>
    BY <1>1, <1>3, <1>8 DEF Original, Old
  <2>3. ASSUME NEW i \in Uses(log, p)
        PROVE  FALSE
    <3>1. i \in 1..Len(log) /\ p \in {log[i].father_id, log[i].mother_id}
      BY <2>3 DEF Uses
    <3>2. PICK q \in ID : original[q] # NIL /\ Wrote(log[i], original[q], q)
      BY <3>1, OneRowEach
    <3>3. p \in {Old(original, q).father, Old(original, q).mother}
      BY <3>1, <3>2 DEF Wrote, Old
    <3>4. Occurs(q, Old(original, p).children)
      BY <1>1, <3>2, <3>3 DEF Original, Meets
    <3>5. QED
      BY <2>2, <3>4 DEF Occurs
  <2>4. Uses(log, p) = {}
    BY <2>3
  <2>5. people[p].gender = NIL
    BY <1>4, <2>1, <2>4 DEF GenderSaid, SaysFirst
  <2>6. QED
    BY <1>8, <2>5
<1>9. QED
  BY <1>6, <1>7, <1>8

\* In whatever order the hash is written, the sheet loads into the same
\* family, with every list of children made anew.
THEOREM ConversionAlwaysKeepsTheFamily == ConversionSpec => []ConversionKeepsTheFamily
<1>1. ASSUME LInv, RInv, Converted, NEW p \in ID
      PROVE  /\ people[p] = NIL <=> original[p] = NIL
             /\ p \in Known =>
                   /\ people[p].father = original[p].father
                   /\ people[p].mother = original[p].mother
                   /\ people[p].gender = original[p].gender
                   /\ people[p].name = IF original[p].name = NIL THEN NameOf(NIL, NIL)
                                       ELSE original[p].name
                   /\ \A c \in Known : Copies(p, c) = Roles(p, c)
  <2>1. people[p] = NIL <=> original[p] = NIL
    BY <1>1, SamePeople
  <2>2. Sound(people, log) /\ Exact(people, log) /\ Original(original)
    BY <1>1 DEF LInv, RInv, Converted
  <2> SUFFICES ASSUME p \in Known
               PROVE  /\ people[p].father = original[p].father
                      /\ people[p].mother = original[p].mother
                      /\ people[p].gender = original[p].gender
                      /\ people[p].name = IF original[p].name = NIL THEN NameOf(NIL, NIL)
                                          ELSE original[p].name
                      /\ \A c \in Known : Copies(p, c) = Roles(p, c)
    BY <2>1
  <2>3. people[p] # NIL /\ original[p] # NIL /\ original[p] \in Person
    BY <2>1, <2>2 DEF Known, Original, Store
  <2>4. PICK j \in 1..Len(log) : Own(log, p) = {j} /\ Wrote(log[j], original[p], p)
    BY <1>1, <2>3, OneRowEach
  <2>5. PersonAsDeclared(people[p], log, p)
    BY <2>2, <2>3 DEF Exact, Told, Old
  <2>6. /\ people[p].father = original[p].father
        /\ people[p].mother = original[p].mother
        /\ people[p].name = IF original[p].name = NIL THEN NameOf(NIL, NIL)
                            ELSE original[p].name
    BY <2>3, <2>4, <2>5, OneRowTells
  <2>7. people[p].gender = original[p].gender
    BY <1>1, <2>3, SameGender
  <2>8. ASSUME NEW c \in Known
        PROVE  Copies(p, c) = Roles(p, c)
    <3>1. c \in ID /\ original[c] # NIL
      BY <1>1, SamePeople DEF Known
    <3>2. PICK i \in 1..Len(log) : Own(log, c) = {i}
      BY <1>1, <3>1, OneRowEach
    <3>3. QED
      BY <2>2, <3>1, <3>2, ListedOncePerRole DEF Sound, Exact
  <2>9. QED
    BY <2>6, <2>7, <2>8
<1>2. ASSUME NEW p \in ID
      PROVE  \A attribute \in {"father", "mother", "gender"} :
                /\ people[p].father = original[p].father
                /\ people[p].mother = original[p].mother
                /\ people[p].gender = original[p].gender
                => people[p][attribute] = original[p][attribute]
  OBVIOUS
<1>3. LInv /\ RInv => ConversionKeepsTheFamily
  BY <1>1, <1>2 DEF ConversionKeepsTheFamily
<1>4. QED
  BY <1>3, LoadsAreSound, PTL

\* Every fact comes back, the dead stay dead, and nobody else is.
THEOREM ConversionAlwaysKeepsTheDead == ConversionSpec => []ConversionKeepsTheDead
<1>1. ASSUME LInv, RInv, Converted, NEW p \in Known
      PROVE  /\ people[p].facts = original[p].facts
             /\ people[p].is_living = 0 <=>
                   \/ original[p].is_living = 0
                   \/ \E f \in {"date_of_death", "cemetery"} : original[p].facts[f] # NIL
  <2>1. Sound(people, log) /\ Exact(people, log) /\ Original(original)
    BY <1>1 DEF LInv, RInv, Converted
  <2>2. p \in ID /\ people[p] # NIL /\ original[p] # NIL
    BY <1>1, SamePeople DEF Known
  <2>3. /\ people[p] \in Person /\ original[p] \in Person
        /\ Old(people, p) = people[p] /\ Old(original, p) = original[p]
    BY <2>1, <2>2 DEF Sound, Consistent, Original, Store, Old
  <2>4. PICK j \in 1..Len(log) : Own(log, p) = {j} /\ Wrote(log[j], original[p], p)
    BY <1>1, <2>2, OneRowEach
  <2>5. people[p].facts = RowFacts(log[j], NewPerson.facts)
    BY <2>1, <2>2, <2>3, <2>4 DEF Exact, FactStore, FactsOf
  <2>6. NIL \notin Value /\ Malformed \notin Value /\ NIL # Malformed
    BY DistinctAssumption
  <2>7. \A f \in Field : /\ original[p].facts[f] \in Value \cup {NIL}
                         /\ log[j].facts[f] = original[p].facts[f]
                         /\ NewPerson.facts[f] = NIL
    BY <2>3, <2>4 DEF Person, Wrote, NewPerson
  <2>8. original[p].facts["place_of_death"] = NIL
    BY <2>1, <2>2, <2>3 DEF Original
  <2>9. \A f \in Field : people[p].facts[f] = original[p].facts[f]
    BY <2>5, <2>6, <2>7, <2>8 DEF RowFacts, StoredFact
  <2>10. people[p].facts = original[p].facts
    BY <2>3, <2>9 DEF Person
  <2>11. people[p].is_living = RowIsLiving(log[j])
    <3>1. PersonAsDeclared(people[p], log, p)
      BY <2>1, <2>2, <2>3 DEF Exact, Told
    <3>2. QED
      BY <2>2, <2>3, <2>4, <3>1, OneRowTells
  <2>12. RowDied(log[j]) <=> \E f \in {"date_of_death", "cemetery"} : original[p].facts[f] # NIL
    BY <2>6, <2>7 DEF RowDied, Field, CheckedField
  <2>13. log[j].is_living = original[p].is_living /\ original[p].is_living \in {0, 1, NIL}
    BY <2>3, <2>4 DEF Wrote, Person
  <2>14. NIL \notin {0, 1}
    BY DistinctAssumption
  <2>15. QED
    BY <2>10, <2>11, <2>12, <2>13, <2>14 DEF RowIsLiving
<1>2. LInv /\ RInv => ConversionKeepsTheDead
  BY <1>1 DEF ConversionKeepsTheDead
<1>3. QED
  BY <1>2, LoadsAreSound, PTL
-----------------------------------------------------------------------------
\* The log of a sheet is the rows without a blank cell, as far as it is read.
FullRows(s) == {cells \in Range(s) : Blank \notin Range(cells)}

Offered(l, kept) ==
    /\ Len(l) = Len(kept)
    /\ \A i \in 1..Len(kept) : l[i] = ExcelRow(kept[i])

OfferedUpTo(l, s, i) ==
    \A k : Keeps(k, SubSeq(s, 2, Len(s)), FullRows(s), Len(s) - 1) => Offered(l, k[i])

BInv ==
    format = "excel" =>
        /\ current # 2 => current \in 2..(Len(file) + 1)
        /\ ~died => /\ current = 2 => log = <<>>
                    /\ current # 2 => OfferedUpTo(log, file, current - 2)

\* A row that is kept makes one more row of the log.
LEMMA OneMoreOffered ==
    ASSUME NEW T, NEW kept \in Seq(T), NEW cells \in T,
           NEW l \in Seq(Row), ExcelRow(cells) \in Row, Offered(l, kept)
    PROVE  Offered(Append(l, ExcelRow(cells)), Append(kept, cells))
<1> DEFINE row == ExcelRow(cells)
           a == Append(kept, cells)
           m == Append(l, row)
<1>1. /\ Len(kept) \in Nat
      /\ Len(a) = Len(kept) + 1
      /\ \A i \in 1..Len(kept) : a[i] = kept[i]
      /\ a[Len(kept) + 1] = cells
  OBVIOUS
<1>2. /\ Len(l) = Len(kept)
      /\ \A i \in 1..Len(kept) : l[i] = ExcelRow(kept[i])
  BY DEF Offered
<1> HIDE DEF row
<1>3. /\ Len(m) = Len(l) + 1
      /\ \A i \in 1..Len(l) : m[i] = l[i]
      /\ m[Len(l) + 1] = row
  BY DEF row
<1> HIDE DEF a, m
<1>4. ASSUME NEW i \in 1..Len(a)
      PROVE  m[i] = ExcelRow(a[i])
  <2>1. CASE i \in 1..Len(kept)
    BY <1>1, <1>2, <1>3, <2>1
  <2>2. CASE i = Len(kept) + 1
    BY <1>1, <1>2, <1>3, <2>2 DEF row
  <2>3. QED
    BY <1>1, <2>1, <2>2
<1>5. Offered(m, a)
  BY <1>1, <1>2, <1>3, <1>4 DEF Offered
<1>6. QED
  BY <1>5 DEF a, m, row

\* What is kept of a sheet with one more row: the row or nothing.
LEMMA RowIsOffered ==
    ASSUME LInv, BInv, Load, format = "excel", ~died'
    PROVE  OfferedUpTo(log', file, current - 1)
<1> DEFINE line == file[current]
           N == Len(file) - 1
           rest == SubSeq(file, 2, Len(file))
<1>1. ReadExcelRow \/ SkipBlankRow
  BY DEF Load, ReadCsvLine, AbandonCsv, ReadIndividual, FetchRow, Reading
<1>2. /\ file \in Seq(Range(file)) /\ Len(file) \in Nat
      /\ current \in 2..Len(file)
      /\ ~died
      /\ LinesAreRows /\ Sound(people, log) /\ Exact(people, log)
      /\ log \in Seq(Row)
      /\ current = 2 => log = <<>>
      /\ current # 2 => OfferedUpTo(log, file, current - 2)
  <2>1. current \in 1..Len(file) /\ ~died
    BY <1>1 DEF ReadExcelRow, SkipBlankRow, Reading, HasNext
  <2>2. QED
    BY <2>1 DEF LInv, BInv, Sound, Consistent
<1>3. /\ N \in Nat /\ current - 1 \in 1..N
      /\ (current - 1) - 1 = current - 2 /\ current - 2 \in 0..N
      /\ current \in 1..Len(file)
  BY <1>2
<1>4. rest[current - 1] = line /\ line \in Range(file)
  <2>1. (current - 1) + 1 = current /\ current - 1 \in 1..((Len(file) - 2) + 1)
    BY <1>2
  <2>2. rest[current - 1] = file[((current - 1) + 2) - 1]
    BY <1>2, <2>1
  <2>3. ((current - 1) + 2) - 1 = current
    BY <1>2
  <2>4. QED
    BY <1>2, <1>3, <2>2, <2>3
<1>5. rest \in Seq(Range(file)) /\ Len(rest) = N
  BY <1>2
<1>6. /\ Blank \notin Range(line) => line \in FullRows(file)
      /\ Blank \in Range(line) => line \notin FullRows(file)
  BY <1>4 DEF FullRows
<1> HIDE DEF line, N, rest
<1> SUFFICES ASSUME NEW k, Keeps(k, rest, FullRows(file), N)
             PROVE  Offered(log', k[current - 1])
  BY DEF OfferedUpTo, N, rest
<1>kept. /\ k[0] = <<>>
         /\ \A n \in 1..N : k[n] = IF rest[n] \in FullRows(file)
                                   THEN Append(k[n - 1], rest[n]) ELSE k[n - 1]
  BY <1>3, KeepsEach
<1> DEFINE kept == k[current - 2]
<1>7. k[current - 1] = IF line \in FullRows(file) THEN Append(kept, line) ELSE kept
  BY <1>kept, <1>3, <1>4
<1>8. kept \in Seq(Range(file))
  <2>1. \A n \in 0..N : k[n] \in Seq(Range(file))
    BY <1>3, <1>5, KeptMembers
  <2>2. QED
    BY <1>3, <2>1
<1>9. Offered(log, kept)
  <2>1. CASE current = 2
    <3>1. log = <<>> /\ kept = <<>>
      BY <1>2, <1>kept, <2>1
    <3>2. QED
      BY <3>1 DEF Offered
  <2>2. CASE current # 2
    BY <1>2, <2>2 DEF OfferedUpTo, N, rest
  <2>3. QED
    BY <2>1, <2>2
<1> HIDE DEF kept
<1>10. CASE ReadExcelRow
  <2>1. Blank \notin Range(line) /\ AddRow(ExcelRow(line))
    BY <1>10 DEF ReadExcelRow, line
  <2>2. ExcelRow(line) \in Row
    BY <1>2, <2>1 DEF LinesAreRows, line
  <2>3. log' = Append(log, ExcelRow(line))
    BY <1>2, <2>1, <2>2, AddRowStep
  <2>4. Offered(log', Append(kept, line))
    BY <1>2, <1>4, <1>8, <1>9, <2>2, <2>3, OneMoreOffered
  <2>5. QED
    BY <1>6, <1>7, <2>1, <2>4
<1>11. CASE SkipBlankRow
  <2>1. Blank \in Range(line) /\ log' = log
    BY <1>11 DEF SkipBlankRow, line, vars
  <2>2. QED
    BY <1>6, <1>7, <1>9, <2>1
<1>12. QED
  BY <1>1, <1>10, <1>11

\* Every row of a sheet is taken or dropped in its turn.
LEMMA RowsAreOffered == ConversionSpec => []BInv
<1>1. LoaderInit => BInv
  BY DEF LoaderInit, Init, BInv, FirstLine
<1>2. ASSUME LInv, BInv, [ConversionNext]_allVars
      PROVE  BInv'
  <2>1. CASE Load
    <3>1. CASE format = "excel"
      <4>1. ReadExcelRow \/ SkipBlankRow
        BY <2>1, <3>1 DEF Load, ReadCsvLine, AbandonCsv, ReadIndividual, FetchRow, Reading
      <4>2. /\ file' = file /\ format' = format
            /\ current' = current + 1
            /\ current \in 1..Len(file)
        <5>1. CASE ReadExcelRow
          BY <5>1 DEF ReadExcelRow, Reading, HasNext
        <5>2. CASE SkipBlankRow
          BY <5>2 DEF SkipBlankRow, NextRow, Reading, HasNext
        <5>3. QED
          BY <4>1, <5>1, <5>2
      <4>3. current >= 2 /\ current \in Nat /\ Len(file) \in Nat
        BY <1>2, <3>1 DEF LInv
      <4>4. current' # 2 /\ current' \in 2..(Len(file') + 1) /\ current' - 2 = current - 1
        BY <4>2, <4>3
      <4>5. ~died' => OfferedUpTo(log', file', current' - 2)
        BY <1>2, <2>1, <3>1, <4>2, <4>4, RowIsOffered
      <4>6. QED
        BY <4>4, <4>5 DEF BInv
    <3>2. CASE format # "excel"
      <4>1. format' = format
        BY <2>1 DEF Load, ReadCsvLine, AbandonCsv, ReadExcelRow, SkipBlankRow,
                    ReadIndividual, FetchRow
      <4>2. QED
        BY <3>2, <4>1 DEF BInv
    <3>3. QED
      BY <3>1, <3>2
  <2>2. CASE Convert
    BY <2>2 DEF Convert, BInv, FirstLine
  <2>3. CASE UNCHANGED allVars
    BY <1>2, <2>3 DEF allVars, vars, loaderVars, BInv, OfferedUpTo, Offered, FullRows
  <2>4. QED
    BY <1>2, <2>1, <2>2, <2>3 DEF ConversionNext
<1>3. QED
  BY <1>1, <1>2, LoadsAreSound, PTL DEF ConversionSpec

\* Whatever the sheet, exactly its rows with a blank cell are lost, and the
\* others are given to add_person in their order.
THEOREM BlankCellsAlwaysLoseTheirRowOnly == ConversionSpec => []BlankCellsLoseTheirRowOnly
<1>1. ASSUME LInv, BInv, format = "excel", Loaded
      PROVE  LET kept == Those(SubSeq(file, 2, Len(file)),
                               {cells \in Range(file) : Blank \notin Range(cells)})
             IN log = [i \in DOMAIN kept |-> ExcelRow(kept[i])]
  <2> DEFINE rest == SubSeq(file, 2, Len(file))
             kept == Those(rest, FullRows(file))
             N == Len(file) - 1
  <2>1. /\ file \in Seq(Range(file)) /\ Len(file) \in Nat
        /\ current \notin 1..Len(file) /\ current \in Nat /\ current >= 2
        /\ log \in Seq(Row)
        /\ current # 2 => current \in 2..(Len(file) + 1)
        /\ current = 2 => log = <<>>
        /\ current # 2 => OfferedUpTo(log, file, current - 2)
    BY <1>1 DEF LInv, BInv, Sound, Consistent, Loaded, HasNext
  <2>2. rest \in Seq(Range(file)) /\ Len(rest) = IF Len(file) = 0 THEN 0 ELSE N
    BY <2>1
  <2>3. kept \in Seq(Range(file))
    BY <2>2, ThoseMembers
  <2>4. Offered(log, kept)
    <3>1. CASE current = 2
      <4>1. rest = <<>> /\ log = <<>>
        BY <2>1, <3>1
      <4>2. kept = <<>>
        BY <4>1, ThoseOfNothing
      <4>3. QED
        BY <4>1, <4>2 DEF Offered
    <3>2. CASE current # 2
      <4>1. current - 2 = N /\ Len(rest) = N /\ N \in Nat
        BY <2>1, <2>2, <3>2
      <4>2. PICK k : Keeps(k, rest, FullRows(file), N) /\ kept = k[N]
        BY <4>1, ThoseAreKept
      <4>3. QED
        BY <2>1, <3>2, <4>1, <4>2 DEF OfferedUpTo
    <3>3. QED
      BY <3>1, <3>2
  <2> HIDE DEF kept
  <2>5. DOMAIN log = 1..Len(log) /\ DOMAIN kept = 1..Len(kept)
    BY <2>1, <2>3
  <2>6. log = [i \in DOMAIN kept |-> ExcelRow(kept[i])]
    BY <2>1, <2>4, <2>5 DEF Offered
  <2>7. QED
    BY <2>6 DEF kept, FullRows
<1>2. LInv /\ BInv => BlankCellsLoseTheirRowOnly
  BY <1>1 DEF BlankCellsLoseTheirRowOnly
<1>3. QED
  BY <1>2, LoadsAreSound, RowsAreOffered, PTL
-----------------------------------------------------------------------------
\* The individuals before the current one have been given to add_person, and
\* nobody else; the parents of an individual are in the file too.
GivenTo(l, individual) == \E j \in 1..Len(l) : l[j] = GedcomRow(individual)

ParentsAreIndividuals ==
    \A i \in 1..Len(file) :
        \A parent \in {GedcomRow(file[i]).father_id, GedcomRow(file[i]).mother_id} \cap ID :
            \E j \in 1..Len(file) : GedcomRow(file[j]).id = parent

GInv ==
    format = "gedcom" =>
        /\ ParentsAreIndividuals
        /\ \A j \in 1..Len(log) : \E i \in 1..Len(file) : log[j] = GedcomRow(file[i])
        /\ ~died => \A i \in 1..Len(file) :
                        i < current /\ GedcomRow(file[i]).id \in ID => GivenTo(log, file[i])

\* Every individual is given to add_person in its turn.
LEMMA IndividualsAreGiven == ConversionSpec => []GInv
<1>1. ASSUME LoaderInit
      PROVE  GInv
  <2> SUFFICES ASSUME format = "gedcom"
               PROVE  ParentsAreIndividuals /\ current = 1 /\ log = <<>>
    BY DEF GInv
  <2>1. PICK source \in Files["gedcom"] : file = source.lines /\ "gedcom" \in DOMAIN Files
    BY <1>1 DEF LoaderInit
  <2>2. ParentsAreIndividuals
    BY <2>1, GedcomAssumption DEF ParentsAreIndividuals
  <2>3. QED
    BY <1>1, <2>2 DEF LoaderInit, Init, FirstLine
<1>2. ASSUME LInv, GInv, [ConversionNext]_allVars
      PROVE  GInv'
  <2> SUFFICES ASSUME format' = "gedcom"
               PROVE  GInv'
    BY DEF GInv
  <2>1. CASE ReadIndividual
    <3> DEFINE row == GedcomRow(file[current])
    <3>1. /\ format = "gedcom"
          /\ current \in 1..Len(file)
          /\ ~died
          /\ AddRow(row)
          /\ file' = file
          /\ current' = current + 1
          /\ Sound(people, log) /\ Exact(people, log)
          /\ log \in Seq(Row)
          /\ row \in Row
      BY <1>2, <2>1 DEF ReadIndividual, Reading, HasNext, LInv, LinesAreRows, Sound, Consistent
    <3>2. /\ log' = log \/ log' = Append(log, row)
          /\ row.id \in ID => log' = Append(log, row)
      BY <3>1, AddRowStep
    <3>3. /\ ParentsAreIndividuals
          /\ \A j \in 1..Len(log) : \E i \in 1..Len(file) : log[j] = GedcomRow(file[i])
          /\ \A i \in 1..Len(file) :
                i < current /\ GedcomRow(file[i]).id \in ID => GivenTo(log, file[i])
      BY <1>2, <3>1 DEF GInv
    <3>4. ParentsAreIndividuals'
      BY <3>1, <3>3 DEF ParentsAreIndividuals
    <3>5. ASSUME NEW j \in 1..Len(log')
          PROVE  \E i \in 1..Len(file) : log'[j] = GedcomRow(file[i])
      <4>1. CASE j \in 1..Len(log)
        <5>1. log'[j] = log[j]
          BY <3>1, <3>2, <4>1
        <5>2. QED
          BY <3>3, <4>1, <5>1
      <4>2. CASE j \notin 1..Len(log)
        <5>1. log'[j] = row
          BY <3>1, <3>2, <4>2
        <5>2. QED
          BY <3>1, <5>1
      <4>3. QED
        BY <4>1, <4>2
    <3>6. ASSUME NEW i \in 1..Len(file), i < current + 1, GedcomRow(file[i]).id \in ID
          PROVE  GivenTo(log', file[i])
      <4>1. CASE i < current
        <5>1. PICK j \in 1..Len(log) : log[j] = GedcomRow(file[i])
          BY <3>3, <3>6, <4>1 DEF GivenTo
        <5>2. j \in 1..Len(log') /\ log'[j] = log[j]
          BY <3>1, <3>2, <5>1
        <5>3. QED
          BY <5>1, <5>2 DEF GivenTo
      <4>2. CASE i = current
        <5>1. log' = Append(log, row)
          BY <3>2, <3>6, <4>2
        <5>2. Len(log') \in 1..Len(log') /\ log'[Len(log')] = row
          BY <3>1, <5>1
        <5>3. QED
          BY <4>2, <5>2 DEF GivenTo
      <4>3. QED
        BY <3>1, <3>6, <4>1, <4>2
    <3> HIDE DEF row
    <3>7. /\ \A j \in 1..Len(log') : \E i \in 1..Len(file') : log'[j] = GedcomRow(file'[i])
          /\ ~died' => \A i \in 1..Len(file') :
                i < current' /\ GedcomRow(file'[i]).id \in ID => GivenTo(log', file'[i])
      BY <3>1, <3>5, <3>6
    <3>8. QED
      BY <3>4, <3>7 DEF GInv, GivenTo, GedcomRow, RowFrom, As, NameOf
  <2>2. CASE ReadCsvLine \/ AbandonCsv \/ ReadExcelRow \/ SkipBlankRow \/ FetchRow
    <3>1. format # "gedcom" /\ format' = format
      <4>1. CASE ReadCsvLine
        BY <4>1 DEF ReadCsvLine, Reading
      <4>2. CASE AbandonCsv
        BY <4>2 DEF AbandonCsv, Reading
      <4>3. CASE ReadExcelRow
        BY <4>3 DEF ReadExcelRow, Reading
      <4>4. CASE SkipBlankRow
        BY <4>4 DEF SkipBlankRow, Reading
      <4>5. CASE FetchRow
        BY <4>5 DEF FetchRow, Reading
      <4>6. QED
        BY <2>2, <4>1, <4>2, <4>3, <4>4, <4>5
    <3>2. QED
      BY <3>1
  <2>3. CASE Convert
    BY <2>3 DEF Convert
  <2>4. CASE UNCHANGED allVars
    BY <1>2, <2>4 DEF allVars, vars, loaderVars, GInv, ParentsAreIndividuals, GivenTo
  <2>5. QED
    BY <1>2, <2>1, <2>2, <2>3, <2>4 DEF ConversionNext, Load
<1>3. QED
  BY <1>1, <1>2, LoadsAreSound, PTL DEF ConversionSpec

\* Everybody that a GEDCOM file puts in the store has a name: a parent in it
\* is an individual that was read.
LEMMA IndividualsAreNamed ==
    ASSUME LInv, GInv, format = "gedcom", Loaded, NEW p \in Known
    PROVE  people[p].name # NIL
<1> SUFFICES ASSUME people[p].name = NIL
             PROVE  FALSE
  OBVIOUS
<1>1. /\ Consistent(people, log) /\ people \in Store
      /\ p \in ID /\ people[p] # NIL
      /\ Old(people, p) = people[p]
  BY DEF LInv, Sound, Consistent, Known, Old
<1>2. /\ Old(people, p).children # <<>>
      /\ \A j \in 1..Len(log) : log[j].id # p
  BY <1>1 DEF Consistent, Placeholders
<1>3. PICK c \in ID : Occurs(c, Old(people, p).children)
  <2>1. Old(people, p).children \in Seq(ID)
    BY <1>1, OldType DEF Person
  <2>2. 1 \in 1..Len(Old(people, p).children) /\ Old(people, p).children[1] \in ID
    BY <1>2, <2>1
  <2>3. QED
    BY <2>2 DEF Occurs
<1>4. PICK j \in 1..Len(log) : p \in {log[j].father_id, log[j].mother_id}
  BY <1>1, <1>3 DEF Consistent, Declared
<1>5. PICK i \in 1..Len(file) : log[j] = GedcomRow(file[i])
  BY DEF GInv
<1>6. PICK n \in 1..Len(file) : GedcomRow(file[n]).id = p
  BY <1>1, <1>4, <1>5 DEF GInv, ParentsAreIndividuals
<1>7. n < current
  BY DEF LInv, Loaded, HasNext
<1>8. PICK m \in 1..Len(log) : log[m] = GedcomRow(file[n])
  BY <1>1, <1>6, <1>7 DEF GInv, Loaded, GivenTo
<1>9. QED
  BY <1>2, <1>6, <1>8

\* No page of a site whose data is a csv or a GEDCOM file ever dies of a
\* missing name, whatever the file.
THEOREM NamedFormatsAlwaysHaveEveryPage == ConversionSpec => []NamedFormatsHaveEveryPage
<1>1. ASSUME LInv, NInv, GInv, format \in {"csv", "gedcom"}, Loaded,
             NEW p \in Known, NEW q \in Linked(p) \cup {p}
      PROVE  people[q].name # NIL
  <2>1. q \in Known
    BY <1>1, LinksStayInTheStore DEF LInv, Sound
  <2>2. CASE format = "csv"
    <3>1. q \in ID /\ people[q] # NIL /\ NamedStore(people, log)
      BY <1>1, <2>1, <2>2 DEF NInv, Known
    <3>2. QED
      BY <3>1, Everybody
  <2>3. CASE format = "gedcom"
    BY <1>1, <2>1, <2>3, IndividualsAreNamed
  <2>4. QED
    BY <1>1, <2>2, <2>3
<1>2. LInv /\ NInv /\ GInv => NamedFormatsHaveEveryPage
  BY <1>1 DEF NamedFormatsHaveEveryPage, PageDies
<1>3. QED
  BY <1>2, LoadsAreSound, IndividualsAreGiven, InitNInv, StepKeepsNInv, PTL
     DEF ConversionSpec
=============================================================================
