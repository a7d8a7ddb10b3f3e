------------------------------ MODULE MCLoaders ------------------------------
(* Instances of Conversion for TLC: small data files of every format. *)
EXTENDS Conversion

CONSTANTS a, b, c, hash, v, w, Dr

Names == (ID \cup {NIL, Malformed}) \X {NIL, Dr, Malformed}
NoRows == {}
Nobody == ID \ Comments
Optional(S) == S \cup {NIL}

\* A line with the given cells, cut after the last of them.
Line(columns, cells) ==
    LET last == Max({i \in DOMAIN columns : columns[i] \in DOMAIN cells} \cup {0})
    IN [i \in 1..last |-> IF columns[i] \in DOMAIN cells THEN cells[columns[i]] ELSE NIL]

\* In a csv line the cells between two given ones are empty texts.
CsvLine(cells) ==
    LET line == Line(CsvColumns, cells)
    IN [i \in DOMAIN line |-> IF line[i] = NIL /\ CsvColumns[i] # "dates"
                              THEN Malformed ELSE line[i]]

Source(lines) == [mapping |-> {}, lines |-> lines]

\* Lines that name parents, with and without a title; comments; lines whose
\* id is refused, and the empty line.
CsvLines ==
    {CsvLine("id" :> id @@ "father_id" :> f @@ "mother_id" :> m) :
        id \in Nobody, f \in Nobody \cup {Malformed}, m \in Optional(Nobody)}
    \cup {CsvLine("id" :> id @@ "father_id" :> f @@ "title" :> Dr) :
        id \in Nobody, f \in Nobody \cup {Malformed}}
    \cup {CsvLine("id" :> hash), CsvLine("id" :> Malformed), <<>>}

\* One person told twice in a csv file, with every record of a death.
CsvDeaths ==
    {CsvLine("id" :> a @@ "dates" :> <<born, dead>> @@ "is_living" :> l
                      @@ "cemetery" :> k) :
        born \in {v, Malformed}, dead \in {v, Malformed}, l \in {0, 1, Malformed},
        k \in Optional({v})}

CsvFiles ==
    {Source(lines) : lines \in CsvLines \X CsvLines}
    \cup {Source(lines) : lines \in CsvDeaths \X CsvDeaths}
    \cup {Source(<<first>> \o comments \o <<last>>) :
             first \in CsvLines, last \in CsvLines,
             comments \in {<<<<hash>>>>, <<<<hash>>, <<hash>>>>}}

\* Rows with a parent, with a blank cell here or there, and with bad ids.
ExcelLines ==
    {Line(ExcelColumns, "id" :> id @@ "father_id" :> f @@ "notes" :> n) :
        id \in Nobody \cup {NIL, Malformed}, f \in Optional(Nobody),
        n \in {v, Blank}}

\* One person in every combination of the columns about birth, death, burial
\* and is_living, told by two rows.
FactLines ==
    {Line(ExcelColumns, "id" :> a @@ "first_name" :> a @@ "is_living" :> l
                        @@ "date_of_death" :> dead @@ "cemetery" :> k
                        @@ "place_of_birth" :> born @@ "place_of_death" :> at) :
        l \in {0, 1, NIL}, dead \in {NIL, Malformed, v, w}, k \in {NIL, v},
        born \in {NIL, Malformed, v}, at \in {NIL, v}}

ExcelFiles ==
    {Source(<<Header>> \o lines) :
        lines \in (ExcelLines \X ExcelLines) \cup (FactLines \X FactLines)}

\* GEDCOM: every individual once, and every parent is an individual.
Individual(id, f, m, sex) ==
    "id" :> id @@ "father_id" :> f @@ "mother_id" :> m @@ "sex" :> sex
    @@ "date_of_death" :> v @@ "first_name" :> id

GedcomFiles ==
    {Source(<<Individual(a, f, m, s), Individual(b, NIL, NIL, "M"),
                        Individual(c, g, NIL, "F")>>) :
        f \in {NIL, b}, m \in {NIL, c}, g \in {NIL, a, b}, s \in {"M", "F", "U"}}

DbColumns == CheckedField \cup {"title", "is_living", "gender", "place_of_birth",
                                "place_of_death", "places_of_living", "notes"}

DbLines ==
    {"id" :> id @@ "father_id" :> NIL @@ "mother_id" :> m @@ "title" :> t
     @@ "first_name" :> id @@
     [f \in DbColumns |-> IF f = blank THEN NIL ELSE
                          IF f \in {"is_living", "gender"} THEN 1 ELSE v] :
        id \in {a, b}, m \in {NIL, b}, t \in {Dr, NIL}, blank \in {"contact", "date_of_death", "cemetery", "notes"}}

DbiFiles ==
    {[mapping |-> DbColumns \ without, lines |-> <<line, other>>] :
        without \in {{}, {"title"}, {"cemetery"}, {"date_of_death", "notes"}},
        line \in DbLines, other \in DbLines}

\* Persons with a title or a cemetery, in columns that are all mapped.
CemeteryFiles == [dbi |->
    {[mapping |-> DbColumns, lines |-> <<line, other>>] :
        line \in DbLines, other \in DbLines}]

AllFiles == [csv |-> CsvFiles, excel |-> ExcelFiles, gedcom |-> GedcomFiles,
             dbi |-> DbiFiles]

\* A csv line as documented: the eleventh field is the is_living bit and the
\* twelfth the place of birth; the code reads them as columns of its own.
DocumentedFiles == [csv |->
    {Source([i \in DOMAIN ids |->
                 CsvLine("id" :> ids[i] @@ "gender" :> 1 @@ "nickname" :> 1
                         @@ "is_living" :> v)]) :
        ids \in Nobody \X Nobody}]
=============================================================================
