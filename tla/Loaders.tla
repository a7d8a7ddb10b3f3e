------------------------------- MODULE Loaders -------------------------------
(***************************************************************************)
(* The loaders (lib/DataParsers/) read a data file line by line, turn      *)
(* every line into the arguments of add_person, and differ in what they    *)
(* do around that call: the csv loader skips comments, gives parents a     *)
(* name and dies of a refused id; the Excel loader drops a row with a      *)
(* blank cell; the database loader follows a mapping of columns.           *)
(*                                                                         *)
(* A line of a csv file or of a sheet is the sequence of its cells, shorter *)
(* than the columns when the last ones are empty; NIL is a cell that is not *)
(* there, and a csv cell with nothing between two semicolons is Malformed, *)
(* the dates excepted.  A database row or an individual of a GEDCOM file   *)
(* is a function of the names of its columns.  A name is the text it is    *)
(* made of and a title, which stands for prefix, suffix and nickname too.  *)
(***************************************************************************)
EXTENDS PersonRelations

CONSTANTS
    Blank,      \* a cell of a sheet that holds only blanks
    Comments,   \* the texts that begin with a hash; as ids they are valid
    Files       \* for every format its data sources: a mapping and the lines

Format == {"csv", "excel", "gedcom", "dbi"}

ASSUME FilesAssumption ==
    /\ Comments \subseteq ID
    /\ DOMAIN Files \subseteq Format
    /\ \A kind \in DOMAIN Files : \A source \in Files[kind] :
          source.lines \in Seq(Range(source.lines))

VARIABLES
    format,     \* $config->{type}
    mapping,    \* the optional columns that column_mapping names
    file,       \* the lines
    current,    \* the place of the next line; in a csv file current_line
    original    \* history: the store a conversion was made from, NIL before

loaderVars == <<format, mapping, file, current, original>>
allVars == <<vars, loaderVars>>

NameOf(text, title) == <<text, title>>

\* The columns in the order the code reads them (fields[0], Cells[$row][0]).
CsvColumns == <<"id", "father_id", "mother_id", "contact", "homepage", "dates",
    "gender", "title", "prefix", "suffix", "nickname", "is_living",
    "place_of_birth", "place_of_death", "cemetery", "schools", "jobs",
    "work_places", "places_of_living", "notes">>

ExcelColumns == <<"id", "title", "prefix", "first_name", "mid_name", "last_name",
    "suffix", "nickname", "father_id", "mother_id", "contact", "homepage",
    "date_of_birth", "date_of_death", "gender", "is_living", "place_of_birth",
    "place_of_death", "cemetery", "schools", "jobs", "work_places",
    "places_of_living", "notes">>

Cell(columns, line, column) ==
    LET i == SelectInSeq(columns, LAMBDA c : c = column)
    IN IF i \in DOMAIN line THEN line[i] ELSE NIL

\* What add_person makes of a cell: what is not of the kind asked for is
\* refused by its validator.
As(S, cell) == IF cell \in S \cup {NIL} THEN cell ELSE Malformed

Column == Field \cup {"id", "father_id", "mother_id", "gender", "is_living"}

RowFrom(cells, name) ==
    [id |-> As(ID, cells["id"]), name |-> name,
     father_id |-> As(ID, cells["father_id"]),
     mother_id |-> As(ID, cells["mother_id"]),
     gender |-> As({Male, Female}, cells["gender"]),
     is_living |-> As({0, 1}, cells["is_living"]),
     facts |-> [f \in Field |-> As(Value, cells[f])]]

\* The name and the id of a csv line are the same cell, and so are the dates,
\* which a hyphen parts.
CsvRow(line) ==
    LET dates == Cell(CsvColumns, line, "dates")
        Part(i) == IF dates = NIL THEN NIL ELSE dates[i]
    IN RowFrom([f \in Column |-> CASE f = "date_of_birth" -> Part(1)
                                   [] f = "date_of_death" -> Part(2)
                                   [] OTHER -> Cell(CsvColumns, line, f)],
               NameOf(Cell(CsvColumns, line, "id"), Cell(CsvColumns, line, "title")))

\* The names a csv file gives are names: those of its lines, and the bare
\* ones of parents.
ASSUME CsvNamesAssumption ==
    /\ \A id \in ID : NameOf(id, NIL) \in Name
    /\ "csv" \in DOMAIN Files =>
          \A source \in Files["csv"] : \A i \in 1..Len(source.lines) :
              CsvRow(source.lines[i]).name \in Name

ExcelRow(line) ==
    RowFrom([f \in Column |-> Cell(ExcelColumns, line, f)],
            NameOf(Cell(ExcelColumns, line, "first_name"),
                   Cell(ExcelColumns, line, "title")))

\* The names of a sheet are names, but for those of a row that is dropped.
ASSUME ExcelNamesAssumption ==
    "excel" \in DOMAIN Files =>
        \A source \in Files["excel"] : \A i \in 1..Len(source.lines) :
            Blank \notin Range(source.lines[i]) => ExcelRow(source.lines[i]).name \in Name

\* An individual has no is_living column, and sex U is no gender.
GedcomRow(individual) ==
    RowFrom([f \in Column |->
                CASE f = "gender" -> (CASE individual["sex"] = "M" -> Male
                                        [] individual["sex"] = "F" -> Female
                                        [] OTHER -> NIL)
                  [] f \in DOMAIN individual -> individual[f]
                  [] OTHER -> NIL],
            NameOf(individual["first_name"], NIL))

\* So are the names of individuals; Gedcom.pm finds father and mother among the
\* individuals of the file.
ASSUME GedcomAssumption ==
    "gedcom" \in DOMAIN Files =>
        \A source \in Files["gedcom"] : \A i \in 1..Len(source.lines) :
            LET row == GedcomRow(source.lines[i])
            IN /\ row.name \in Name
               /\ \A parent \in {row.father_id, row.mother_id} \cap ID :
                     \E j \in 1..Len(source.lines) :
                         GedcomRow(source.lines[j]).id = parent

\* Ids, names and parents are read always, other columns when they are mapped,
\* and the cemetery is read from the column of the title when that is mapped.
\* A date that is not one is undefined; a list is split from its text, so that
\* no text is an empty list, which is given and says nothing.  (Of the notes
\* general is no list: it is read as places_of_living is.)
\* (DbColumnAlways is a mutant: the mapping is not asked.)
DbColumnAlways(row, f) ==
    IF f = "cemetery" THEN row["title"] ELSE row[f]

DbColumn(row, f) ==
    CASE f \in {"id", "father_id", "mother_id"} -> row[f]
      [] f = "cemetery" -> IF "title" \in mapping THEN row["title"] ELSE NIL
      [] f \in {"date_of_birth", "date_of_death"} ->
            IF f \in mapping /\ row[f] \in Value THEN row[f] ELSE NIL
      [] f = "notes" /\ f \in mapping /\ row[f] = NIL -> Malformed
      [] OTHER -> IF f \in mapping THEN row[f] ELSE NIL

DbRow(row) == RowFrom([f \in Column |-> DbColumn(row, f)],
                      NameOf(row["first_name"], DbColumn(row, "title")))

\* So are the names of a table, with a title and without.
ASSUME DbNamesAssumption ==
    "dbi" \in DOMAIN Files =>
        \A source \in Files["dbi"] : \A i \in 1..Len(source.lines) :
            \A title \in {source.lines[i]["title"], NIL} :
                NameOf(source.lines[i]["first_name"], title) \in Name
-----------------------------------------------------------------------------
HasNext == current \in 1..Len(file)
Reading(kind) == format = kind /\ HasNext /\ ~died
Loaded == ~HasNext /\ ~died

IsComment(line) == line # <<>> /\ line[1] \in Comments

\* CSVArrayImporter::next reads on until a line is no comment.
\* (SkipOneComment is a mutant: it reads on once.)
SkipOneComment(i) ==
    IF i + 1 \in DOMAIN file /\ IsComment(file[i + 1]) THEN i + 2 ELSE i + 1

SkipComments(i) ==
    Min({j \in (i + 1)..Len(file) : ~IsComment(file[j])} \cup {Len(file) + 1})

\* A parent without a name is given the one its child's line has for it.
\* (Mutants: the test is lost; a father is named, a mother is not.)
NameParentAnew(t, p, text) ==
    IF p # NIL THEN [t EXCEPT ![p].name = NameOf(text, NIL)] ELSE t

NameParent(t, p, text) ==
    IF p # NIL /\ t[p].name = NIL
    THEN [t EXCEPT ![p].name = NameOf(text, NIL)]
    ELSE t

NameFather(t, id, line) ==
    NameParent(t, t[id].father, Cell(CsvColumns, line, "father_id"))

NameParents(t, id, line) ==
    LET fathered == NameParent(t, t[id].father, Cell(CsvColumns, line, "father_id"))
    IN NameParent(fathered, t[id].mother, Cell(CsvColumns, line, "mother_id"))

ReadCsvLine ==
    /\ Reading("csv")
    /\ LET line == file[current]
           row == CsvRow(line)
       IN /\ row.id \in ID
          /\ people' = NameParents(Stored(people, row), row.id, line)
          /\ log' = Append(log, row)
    /\ current' = SkipComments(current)
    /\ UNCHANGED <<died, format, mapping, file, original>>

\* add_person returns nothing for a refused id and dies of a missing one, and
\* get_father is called on nothing: the load is abandoned either way.
AbandonCsv ==
    /\ Reading("csv")
    /\ LET row == CsvRow(file[current])
       IN /\ row.id \notin ID
          /\ log' = IF row.id = NIL THEN log ELSE Append(log, row)
    /\ died' = TRUE
    /\ current' = SkipComments(current)
    /\ UNCHANGED <<people, format, mapping, file, original>>

\* The loaders that do nothing with what add_person returns.
AddRow(row) == AddPerson(row) \/ RefuseId(row) \/ MissingId(row)

ReadExcelRow ==
    /\ Reading("excel")
    /\ Blank \notin Range(file[current])
    /\ AddRow(ExcelRow(file[current]))
    /\ current' = current + 1
    /\ UNCHANGED <<format, mapping, file, original>>

\* A cell of blanks calls next in convertCell, which goes on with the
\* next row of the caller's loop.
\* (NoNextRow is a mutant: last in place of next.)
NoNextRow(i) == Len(file) + 1

NextRow(i) == i + 1

SkipBlankRow ==
    /\ Reading("excel")
    /\ Blank \in Range(file[current])
    /\ current' = NextRow(current)
    /\ UNCHANGED <<vars, format, mapping, file, original>>

ReadIndividual ==
    /\ Reading("gedcom")
    /\ AddRow(GedcomRow(file[current]))
    /\ current' = current + 1
    /\ UNCHANGED <<format, mapping, file, original>>

FetchRow ==
    /\ Reading("dbi")
    /\ AddRow(DbRow(file[current]))
    /\ current' = current + 1
    /\ UNCHANGED <<format, mapping, file, original>>

\* The first row of a sheet is its header.
FirstLine(kind) == IF kind = "excel" THEN 2 ELSE 1

LoaderInit ==
    /\ Init
    /\ format \in DOMAIN Files
    /\ \E source \in Files[format] :
          /\ mapping = source.mapping
          /\ file = source.lines
    /\ current = FirstLine(format)
    /\ original = NIL

Load == ReadCsvLine \/ AbandonCsv \/ ReadExcelRow \/ SkipBlankRow
        \/ ReadIndividual \/ FetchRow
-----------------------------------------------------------------------------
\* A csv file is taken whole or not at all: a load that ends has stored, in
\* order, its first line, comment or not, and every later line that is no
\* comment; one line that cannot be stored fails the whole file.
CsvIsAllOrNothing ==
    format = "csv" /\ Loaded /\ file # <<>> =>
        LET lines == <<Head(file)>> \o Those(Tail(file), {l \in Range(file) : ~IsComment(l)})
        IN /\ log = [i \in DOMAIN lines |-> CsvRow(lines[i])]
           /\ \A i \in DOMAIN log : log[i].id \in ID

\* Somebody's own csv line names them, wherever it stands in the file; only
\* somebody without a line has the bare name that a child's line gives.
OwnLinesNameTheirPersons ==
    format = "csv" =>
        \A p \in Known :
            LET i == LastRow(p, LAMBDA r : TRUE)
            IN people[p].name = IF i = 0 THEN NameOf(p, NIL) ELSE log[i].name

\* A sheet loses exactly its rows with a blank cell, without a word, and every
\* other row is offered to add_person in order.
BlankCellsLoseTheirRowOnly ==
    format = "excel" /\ Loaded =>
        LET kept == Those(SubSeq(file, 2, Len(file)),
                          {cells \in Range(file) : Blank \notin Range(cells)})
        IN log = [i \in DOMAIN kept |-> ExcelRow(kept[i])]

\* Once a csv or a GEDCOM file is loaded every person page can be drawn: the
\* one names the parents without a line, the other has an individual for
\* each.  The pages of the other formats die near such parents.
NamedFormatsHaveEveryPage ==
    format \in {"csv", "gedcom"} /\ Loaded => \A p \in Known : ~PageDies(p)

\* A person with one database row has what the mapped columns of that row hold
\* and nothing else: no column that is not mapped slips in, and no mapped one
\* is lost on the way, neither in the loader's list of columns nor in
\* add_person.  Two are excepted: the cemetery, which is read from another
\* column, and the place of death, which add_person stores nowhere.
MappedColumnsAreStored ==
    format = "dbi" /\ Loaded =>
        \A i \in DOMAIN file : file[i]["id"] \in LoadedOnce =>
            \A f \in Field \ {"cemetery", "place_of_death"} :
                people[file[i]["id"]].facts[f] =
                    IF f \in mapping /\ file[i][f] \in Value THEN file[i][f] ELSE NIL

\* "cemetery => 'CEMETERY'" (the sample of a column mapping in the settings):
\* the cemetery of a person is the one in the column mapped to it.
MappedCemeteryIsStored ==
    format = "dbi" /\ Loaded =>
        \A i \in DOMAIN file :
            /\ file[i]["id"] \in LoadedOnce
            /\ "cemetery" \in mapping
            /\ file[i]["cemetery"] \in Value
            => people[file[i]["id"]].facts["cemetery"] = file[i]["cemetery"]

\* "12. place of birth", says the documentation of the csv columns, in a list
\* that counts from 1 and has no nickname.
PlaceOfBirthAsDocumented ==
    format = "csv" /\ Loaded =>
        \A i \in DOMAIN file :
            /\ Len(file[i]) >= 12
            /\ file[i][12] \in Value
            /\ file[i][1] \in LoadedOnce
            => people[file[i][1]].facts["place_of_birth"] = file[i][12]
=============================================================================
