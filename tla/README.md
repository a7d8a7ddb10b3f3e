# Ftree, a family tree generator: formal models, checks and proofs

This directory holds TLA+ models of Ftree (`src/`), a Perl program that reads
a file about a family and serves it as web pages: lists of people, family
trees and a page for each person.  `PROJECT.json` is the machine-readable
index: which definition models which lines, what each run checks, and which
deliberate slip in a definition each property notices.

All paths of source files below are relative to `src/`; `lib/` is `src/lib/`.

## 1. The system

    browser --> app.psgi --> ftree.cgi -----> FamilyTreeInfo      (list pages)
                   |             \----------> FamilyTreeGraphics  (tree page)
                   \------> person_page.cgi -> PersonPage         (one person)
                                  each request |
                                               v
         data file --> loader (DataParsers/*) --> FamilyTreeData --> Person

`app.psgi` compiles the two scripts once, into one process that serves one
request after the other.  Each request builds the page object, loads the
*whole* data file into a fresh `FamilyTreeData`, checks the password and the
target, and prints the page.  Nothing is written back.  What outlives a request
is the package globals of the modules, among them the language and the order of
names in `lib/TextGeneratorFactory.pm`.

| Component | State | Operations | Hard behaviours | What makes it correct |
|---|---|---|---|---|
| Store, `lib/FamilyTreeData.pm` | hash from id to Person | `new`, `add_person`, `set_parent`, `get_person`, `get_all_people` | rows in any order; a parent created by a child's row; several rows of one id; refused and missing ids | pointers and child lists agree; nothing is forgotten; each attribute is what the rows said |
| Person, `lib/Person.pm` | father, mother, children, name, gender, is_living, facts | setters; `get_spouses`, `get_peers`, `get_soft_peers` | relations recomputed from one side; unknown parents; contradictory sexes | couples are mutual and complete; siblings are an equivalence; the three lists of siblings partition |
| Validators, `lib/DataParsers/FieldValidatorParser.pm` | none | one function per field | absent, empty and malformed values take different ways | no value harms what an earlier row gave |
| Person page, `lib/PersonPage.pm` | target | draw | nameless people; the ends of a link drawn by different code | links lead back; when a page dies |
| Tree page, `lib/FamilyTreeGraphics.pm` | target, levels, grid | measure, fill and print three parts; lines between rows; zoom; redirection | measured by one recursion, filled by another, printed by a third; cyclic ancestry; stale child lists | everybody in reach is drawn; every row fills the grid; the lines join the families; a missing button hides nobody |
| List pages, `lib/FamilyTreeInfo.pm` | page type | index, surnames, faces, emails, homepages, birthdays | search for the month; closing of table rows | links lead somewhere; requests end |
| Request handling, `app.psgi`, `*.cgi`, `lib/FamilyTreeBase.pm`, `lib/TextGeneratorFactory.pm` | globals `$language`, `$reverse_name` | parameters, password, links, flags | globals shared by all visitors; scripts that exit or die; a file edited between two pages | a page is in the language of its request; everybody is answered |
| Loaders, `lib/DataParsers/*` | line or row | read rows, call `add_person`, name parents | comments, skipped rows, abandoned loads, naming of placeholders, columns by number or by mapping | every row reaches the store once, or the load fails; own rows win |
| Exporters, `lib/Exporters/*` | none | write a store | placeholders, any order of people, empty cells | loading the export gives the same family |
| Settings, value objects, text generators | constants | none to speak of | none | not modelled, see section 8 |

Components interact by plain calls inside a request.  Requests interact only
through the globals and through the visitors, who follow links that an earlier
request printed; the data file may have been edited in the meantime.

The hazards, each at its line, are in `PROJECT.json`; the properties below are
aimed at them.

## 2. Modules

| Module | What it is |
|---|---|
| `FamilyTreeData` | the store: state machine of `add_person`, with the safety properties that follow step by step from its invariants |
| `FamilyTreeHistory` | properties that read the whole file and say, without following `add_person`, what each attribute must be |
| `PersonRelations` | the relations of `Person` and the links of `PersonPage` as operators on a loaded store, and their properties |
| `Kinship` | the abstract specification of the store: a register of who is whose child |
| `FamilyTreeKinship` | the refinement mapping from `FamilyTreeData` to `Kinship` |
| `MCFamilyTreeData` | instances of the above for TLC |
| `TreeLayout`, `MCTreeLayout` | the tree page drawn from a loaded store, and its instance |
| `Loaders` | the csv, Excel, GEDCOM and database loaders over the store |
| `Conversion`, `MCLoaders` | a loaded store written to a sheet and loaded again, and the instances |
| `FtreeServer`, `MCFtreeServer` | the process, its globals, its visitors and their links, and the instances |
| `FamilyTreeDataProofs`, `FamilyTreeHistoryProofs`, `FamilyTreeKinshipProofs`, `PersonRelationsProofs` | theorems about the store |
| `TreeLayoutProofs` | theorems about the tree page |
| `LoadersProofs`, `ConversionProofs` | theorems about the loaders and the conversion |
| `FtreeServerLinkProofs` | theorems about the process |

`Loaders` composes a loader with the store (its actions call `AddPerson` of
`FamilyTreeData`), `Conversion` composes a loader, the exporter and a second
loader, and `TreeLayout` and `PersonRelations` read the store that any of them
leaves.

Definitions marked as mutants are wrong on purpose and used by nothing: each is
a plausible slip in the definition under it.  `PROJECT.json` pairs each with the
property that notices the slip, and a property that notices none would not be
worth keeping.

### The store (`FamilyTreeData`)

`people` is `$self->{people}`; an id without an entry is `NIL`.  A `Person`
record has the attributes the code sets.  References to Person objects are ids:
the objects are created in the hash, never copied and never removed, so an id
identifies one.

`Next` takes any row of the constant `Rows`, in any order and any number of
times up to `MaxRows`:

* `AddPerson(row)` is the whole of `add_person` for an accepted id.  `Stored`
  composes its steps in the order of the code: create or find and name the
  person, `set_parent` for the father, `set_parent` for the mother, then gender,
  facts and `is_living` (`Describe`).
* `RefuseId(row)`: the id does not match the regular expression; `add_person`
  carps and returns.
* `MissingId(row)`: the one mandatory argument is undefined, `validate` raises,
  and the load is abandoned (`died`).

`log` is a history variable, the rows that were accepted or refused so far.  It
has no counterpart in the code; the properties need it to say what the file said.

Data are abstracted to what the properties tell apart.  An argument is a value,
`NIL` (undefined) or `Malformed` (refused by its validator).  Fields with the
same treatment are merged: `contact` for email and homepage, `notes` for
schools, jobs, work places and general.  `gender` and `is_living` take 0 and 1;
their regular expressions also let longer strings pass that start with such a
digit, which the models leave out.  A malformed list of places of living becomes
an empty list, which the models identify with undefined: the pages draw an empty
row for one and none for the other.

### Relations and person pages (`PersonRelations`)

`get_spouses`, `get_peers` and `get_soft_peers` are operators with the names and
the case distinctions of the code.  `Linked` is what `_draw_single_person_page`
links, `PageDies` whether it calls a method on an undefined name.

### The register (`Kinship`, `FamilyTreeKinship`)

What the pages may believe of the store: a set of known persons, a father and a
mother each, and the record of all pairs ever declared.  One `Declare` is one
row.  The mapping reads the pointers off the Person objects and the record off
their lists of children, which the code keeps in up to three objects.

### The tree page (`TreeLayout`)

The page has no state of its own: everything is a function of the store, the
target and the levels asked for.  `getATreeLevels`, `fillATree`,
`getDTreeWidth`, `fillDTree` and `getPTreeWidth` are the recursions of the
code; `ARowCells` and `DRowCells` count the cells that `drawRow` and `putNTD`
print; they are recursive functions on the levels that are left and the persons a
row can hold (`Drawable`), where the code counts upwards to the levels asked for.
`ThisParent` and `Branch` are the search for the parent in the row above
and the picture over a child; `ZoomsOut` is the button for one more level.  The
two static unknown persons fill the gaps and are members of the rows, as in the
code.  The properties compare them with `Above` and `Below`, the generations
told from pointers and lists alone; a property that holds for every file is
therefore about the code's recursions and not about its own shape.

### Loaders and conversion (`Loaders`, `Conversion`)

`file` is the data source, `current` the next line, and each action is one turn
of a loader's loop with all it does around `add_person`:

| Action | Code |
|---|---|
| `ReadCsvLine` | a csv line is stored, nameless parents are given the name in the child's line, and comments are skipped up to the next line |
| `AbandonCsv` | `get_father` is called on nothing, for a refused or a missing id |
| `ReadExcelRow`, `SkipBlankRow` | a row of the sheet, or one whose blank cell makes `convertCell` go on with the next row |
| `ReadIndividual` | one individual of a GEDCOM file |
| `FetchRow` | one database row, read through the mapping of columns |
| `Convert` | `ExcelExporter` writes the store in the order of the hash, and a new load begins |

A csv line is its cells in the order of the code's numbers.  Nothing between two
semicolons is an empty text, which every validator refuses, and a line may be
shorter than the columns.  A name is the text it is made of and a title, which
stands for prefix, suffix and nickname.  Texts that begin with a hash are
`Comments`; as ids they are well formed, which matters for the first line of a
csv file, which is read without a test for comments.  The conversion is the one
`lib/FamilyTreeInfo.pm` recommends to its readers; the script that does it,
`scripts/convertFormat.pl`, and the writer `Spreadsheet::WriteExcel` are not in
the repository and are external.  The serialized format has no actions: Storable
gives back the hash it was given.

### The process (`FtreeServer`)

A request is a record of the parameters; `view[v]` is the page a visitor looks
at, with the request, the file, the language and the order of names it was drawn
with.  The actions follow a request through the process:

| Action | Code |
|---|---|
| `Ask` | a visitor types an address or follows a link of the page in view; `Offered` is the set of links the page prints (`_endpage`, `language_chooser`, `aref_tree`, the surname links, the form of months) |
| `EditFile` | somebody edits the data file |
| `Accept` | the process turns to the next request |
| `FailToLoad` | `FamilyTreeInfo->new` dies on the file, before the parameters are read |
| `ProcessParameters` | `_process_parameters`: sets both globals |
| `Fail` | a check ends in `exit 1`, or something dies |
| `Draw` | the page is printed |
| `Redirect` | a tree of no levels sends the browser to the person page |
| `SearchMonth`, `NextMonth`, `FindMonth` | the loop of the birthday page |

The drawing is one step, because the process does nothing else meanwhile; the
loop over the months is spelled out because it may not end.  `EditFile` happens
between requests: a request reads the file once, so an edit during a request is
the same as one before or after it.  A script that exits with 1 becomes an
internal error under CGI::Compile, as one that dies; both are `Broken`.  The
behaviour of CGI::Compile, CGI::Emulate::PSGI and Plack is modelled from how
`app.psgi` uses them.

Any loaded file is one of the constant `Families`: who is stored, who has a name
and who a first name, whom the page of a person shows, whom the tree of a person
with so many levels draws, and the trees whose lines find no parent for somebody.
`DrawingDies` says of which request the drawing dies:

* a person page dies of anybody without a name on it;
* a tree of more than one level dies of a drawn person, other than the target, who
  has a name without a first name: `html_name` hands the first name to
  `aref_tree`, which refuses an undefined one.  A placeholder without any name is
  drawn as unknown.  Such names come from database rows and sheets, and from
  placeholders that were exported and loaded again;
* a tree dies at a line without a parent (`lost`), which `LinesFindTheirParent` of
  `TreeLayout` shows to happen only for somebody whose rows disagree on a parent.

`validIDEntry` accepts any id with a letter or a digit in it, and `aref_tree` and
the flags paste ids into addresses as they are.  The constant `Read` maps an id to
the id that a script finds in such an address (a semicolon ends it), and `Cutting` is
the set of the ids with a hash, which takes away what comes after it: `Pasted` and
`CutShort` say what is left.  The hash in which the flags find the parameters has any
order, so `Chooser` offers every remainder.  Left out are ids that spell another
parameter.

## 3. Properties

Of the store, for every file and every order of its rows:

* `TypeOK`; `ParentsListTheirChildren`; `ChildrenWereDeclared`;
  `PlaceholdersAreParents`; `NothingIsForgotten` (an action property).
* `ChildListedOncePerRole`, `GenderAsDeclared`, `LineageAsDeclared`,
  `CheckedFactsAsDeclared`, `LivingAsDeclared`: each attribute told from the
  rows.  `ChildListedOncePerRole` and `LivingAsDeclared` speak of ids with one row; for
  several rows the code keeps stale children and recomputes `is_living` from the
  last row alone.
* `ImplementsKinship` (refinement): every row is one declaration or nothing.

Of the relations, in files without contradictory sexes (and, for the last three
of these, without an id that has two rows): `SpousesAreMutual`,
`SpousesAreComplete`, `PeersAreEquivalent`, `SiblingsArePartitioned`,
`LinksAreMutual`; and `PagesDieOnlyNearPlaceholders` in every file whose parents
have rows of their own.

Of the tree page, for every target and every number of levels:

* `EveryoneInReachIsDrawn`: exactly the known ancestors and descendants of each
  generation stand in the row of their generation.
* `RowsFillTheGrid`, `PeersFitTheGrid`: every row is as wide as the grid; the
  target is found among its own siblings, and they fit on both sides of it.
* `LinesFindTheirParent`: the search for a parent in the row above succeeds for
  everybody whose rows agree on the parents, whatever the rows of the others
  say.  A tree page may still die elsewhere (`DrawingDies`, section 2).
* `BranchesJoinTheFamilies`: the pictures above a row open at the first child of
  each family and close at its last.
* `NothingIsHiddenWithoutZoom`: without the button there is nobody further.
* `GridEndsWithTheFamily`: a grid of 2 to the levels is bounded by the family,
  unless somebody is their own ancestor.

Of the loaders and the conversion:

* `CsvIsAllOrNothing`: a csv load stores every line in order, or fails.
* `OwnLinesNameTheirPersons`: a person's own csv line names it, wherever it stands.
* `NamedFormatsHaveEveryPage`: no person page of a csv or a GEDCOM file dies.
* `BlankCellsLoseTheirRowOnly`: a sheet loses the rows with a blank cell and no
  others.
* `MappedColumnsAreStored`: of the checked facts a database row stores those of its
  mapped columns and nothing else.  Two mapped columns are lost and excepted: the
  cemetery, which is read from another column, and the place of death, which
  `add_person` stores nowhere (section 5).
* `ConversionKeepsTheFamily`, `ConversionKeepsTheDead`: the sheet loads into the
  same people, pointers, names, genders and facts; the lists of children are
  made anew, and nobody is revived.

Of the process:

* `LinksLeadToPages`: a link followed while the file is unchanged never ends in
  an internal error, the doubtful ones excepted.  `Doubtful` names them: the links
  the code builds without the password, on a protected site; those that an
  id spoils (`Garbled`), and no other link of the same page; and those to a
  page that dies of somebody it shows.  The flags of a page that was drawn are
  not doubtful.
* `LinksKeepTheLanguage`: only the flags change a visitor's language, and the
  links that an id spoils.  Five functions make links, each on its own.
* `HungarianNamesAreReversed`: whoever was served before.
* `OnlyFlagsLoseMonths`: the only links that start a search without end are the
  flags of a birthday page, which keep the month's name and change its language.
* `EveryoneIsAnswered` (liveness): everybody is answered, unless such a search
  runs, which then blocks the one process for good.

## 4. Runs

| Run | Instance | Distinct states | Shows |
|---|---|---|---|
| `graph` | 3 ids, 3 rows, every choice of father and mother, a gender column next to at most one of them, malformed arguments, refused and missing ids, symmetry of ids | 151582 | the structure of the store, and that it implements `Kinship` |
| `relations` | 5 ids, 3 rows, symmetry of ids | 72787 | couples, siblings, links |
| `layout` | 5 ids, 3 rows that name up to two parents, 1 to 3 levels each way, symmetry of ids | 18210 | the tree page of everybody |
| `loaders` | 3 ids and a comment; csv files of 2 to 4 lines, sheets of 2 rows, among them one person told twice in all combinations of the columns about birth, death, burial and living, GEDCOM files of 3 individuals, tables of 2 rows under 4 mappings; each store is converted in every order of its people | 164763 | the attributes, the four loaders and the conversion |
| `living_doc` | the store; 1 id, 1 row with these columns | violation | the documented meaning of `is_living` is the opposite of the code's |
| `place_of_death` | as `living_doc` | violation | a documented column is dropped |
| `server_links` | 1 visitor, password, 4 persons of whom two have odd ids, 6 contents of the file and none that loads, 3 languages of which one has no generator | 99748 | links of every kind and their language, edits in between |
| `server_turns` | 2 visitors, 2 languages, no password, 1 person | about 405000 | interleaving, order of names, liveness |
| `fresh_interpreter` | 1 visitor | violation | the order of names outlives a Hungarian request |
| `documented_languages` | 1 visitor | violation | the documented language `en` is an internal error |
| `place_of_birth_doc` | csv files of 2 lines | violation | a line with its fields where they are documented loses the place of birth |
| `mapped_cemetery` | tables of 2 rows, all columns mapped | violation | the cemetery of the sample mapping is not stored |

Why the bounds are enough.  Three rows over three ids contain every order of a
child's row and those of its two parents, a second row with another parent
before or after, self-parents and cycles of two and three.  A property of the
store relates at most a person, a parent and the rows of both.  Couples and
siblings of every kind need two children, two fathers and a mother: five ids and
two rows, and the third row makes a parent known or contradicts.  Five
persons and three rows also make every shape of a tree page up to three
generations: a target with no, one or several siblings, in the middle or at an
end; cousins whose widths differ; cycles; and levels one short of, equal to and
beyond the family.  Two lines of a data file suffice for a parent before and
after its child and for the second row of an id; the third and fourth line of a
csv file are comments, one and two in a row, and a comment as the first or the
last line occurs among the files of two.  In the server,
two visitors suffice for one to set the globals between any two steps of the
other's path; a year of one or two months has a month that is the same in both languages,
one that differs and an end; the six contents of the file lack in turn a person, a
name, a first name and the parent of a line, and have an id with a semicolon or
a hash next to one without; trees of 1 to 3 levels have a zoom button to the
person page, one to a tree, and a default.  `Listed` is a bound: in `server_turns`
the menu has the birthday page only, and the other list pages are met in `server_links`.
There the links of the surname page end in a refusal; that they keep the language of an
open site is shown by the theorem only.
In `NextMonth` one value of `index` stands for all beyond the last month.

Symmetry is used in `graph`, `relations` and `layout`: their sets of rows are closed under
permutations of the ids, and no liveness is checked there.  `CHECK_DEADLOCK FALSE` is set for the
store and the loaders only: a file has an end, and a load may be abandoned.

Fairness.  `Spec` of the server is weakly fair for `Serve`, the steps of the
process: it runs one request to its end with no waiting for anything, and takes
the next one when there is one.  Nothing is assumed of visitors and editors.  The store has
no liveness property: a loader reads its file in a loop.

## 5. Where the code and its documentation disagree

1. `lib/FamilyTreeData.pm:184` stores `is_living` as it is, 1 for living; the
   documentation of both file formats says 0 for living (`living_doc`).
2. `add_person` takes `place_of_death` and stores it nowhere (`place_of_death`).
3. `lib/TextGeneratorFactory.pm:61`: the order of names, once Hungarian, stays;
   the documentation counts on one interpreter per request
   (`fresh_interpreter`).
4. `lib/TextGeneratorFactory.pm:93`: the branch for other languages does not
   return its generator, so `en`, which the scripts' headers list, fails
   (`documented_languages`).
5. `lib/DataParsers/ExtendedSimonWardFormat.pm:166` reads a nickname before
   `is_living` and the place of birth; the documentation of the csv columns
   (`lib/FamilyTreeInfo.pm:564`) has no nickname, so that every later field of a
   line written as documented is one column off (`place_of_birth_doc`).
6. `lib/DataParsers/DBIFormat.pm:100` reads the cemetery from the column mapped
   to the title; the sample of the settings (`lib/PerlSettingsImporter.pm:110`)
   maps `cemetery => 'CEMETERY'` (`mapped_cemetery`).

## 6. Proofs

Each theorem holds for all values of the constants that satisfy the named
assumptions of the module, which the runs evaluate too: for any number of
persons, rows, levels, visitors and languages, where a run has three or five.

| Module | Theorems | About |
|---|---|---|
| `FamilyTreeDataProofs` | `TypeCorrect`, `ParentsAlwaysListTheirChildren`, `PlaceholdersAreAlwaysParents`, `ChildrenWereAlwaysDeclared`, `NothingIsEverForgotten` | the structure of the store |
| `FamilyTreeHistoryProofs` | `LineageIsAlwaysAsDeclared`, `CheckedFactsAreAlwaysAsDeclared`, `GenderIsAlwaysAsDeclared`, `LivingIsAlwaysAsDeclared` | the attributes against the file |
| `FamilyTreeKinshipProofs` | `TheStoreIsARegisterOfKinship` | the refinement |
| `PersonRelationsProofs` | `ChildrenAreAlwaysListedOncePerRole`, `SpousesAreAlwaysMutual`, `SpousesAreAlwaysComplete`, `PeersAreAlwaysEquivalent`, `SiblingsAreAlwaysPartitioned`, `LinksAreAlwaysMutual`, `PagesDieAlwaysNearPlaceholders` | lists of children, couples, siblings, person pages |
| `TreeLayoutProofs` | `EveryoneInReachIsAlwaysDrawn`, `NothingIsEverHiddenWithoutZoom`, `RowsAlwaysFillTheGrid`, `PeersAlwaysFitTheGrid`, `LinesAlwaysFindTheirParent`, `BranchesAlwaysJoinTheFamilies`, `GridAlwaysEndsWithTheFamily` | the tree page |
| `LoadersProofs` | `OwnLinesAlwaysNameTheirPersons`, `MappedColumnsAreAlwaysStored`, `CsvIsAlwaysAllOrNothing` | the csv and the database loader, of `ConversionSpec` |
| `ConversionProofs` | `BlankCellsAlwaysLoseTheirRowOnly`, `NamedFormatsAlwaysHaveEveryPage`, `ConversionAlwaysKeepsTheFamily`, `ConversionAlwaysKeepsTheDead` | sheets, GEDCOM files and the conversion, of `ConversionSpec` |
| `FtreeServerLinkProofs` | `TypeCorrect`, `OnlyFlagsEverLoseMonths`, `LinksAlwaysKeepTheLanguage`, `LinksAlwaysLeadToPages`, `HungarianNamesAreAlwaysReversed` | every link of every page, and the order of names |

Assumptions.

* Of the store: `NIL` and `Malformed` differ from each other and from all data,
  `NIL` is no Person, and `Rows` are rows.
* Of the tree page: levels are positive (`LevelsAssumption`): the links of the pages
  ask for no others, and a tree of no levels is redirected before anything is
  measured.  The two static persons are two, and neither comes
  from a file (`UnknownAssumption`): they are objects of their own that no hash
  of a store contains.
* Of the loaders: a file is a sequence of lines (`FilesAssumption`), and what
  its cells give as a name is one (`CsvNamesAssumption`, `ExcelNamesAssumption`,
  `DbNamesAssumption`), which only fixes the constant `Name`.
  `GedcomAssumption` says that a parent in a GEDCOM file is an individual of
  the file: `lib/DataParsers/GedcomFormat.pm` gets individuals and their parents
  as objects from the same parsed file.
* Of the conversion: `ExportAssumption`.  A name is written as its text and title, and
  no stored text is one that `convertCell` takes for blank.  The second part is
  not for free: a csv title of blanks is stored as it is, its row would be
  skipped when the sheet is loaded again, and a person would be lost.  The instances
  have no such text, and the theorems of the conversion say nothing of
  files that have.
* Of the process: `ServerAssumption` (types; the default language and "gb" have
  generators; all languages have equally many months; a tree has at least its two
  default levels; an id is read as some id, and one that cuts its address short is
  not read as it was) and `DistinctAssumption` (`NIL` and `Broken` are nothing
  else).  Nothing is assumed of which ids are odd, or of whom a page shows.

The structure.  `LinkStep` says what one `set_parent` may change in the store,
and `RowStep` what a whole row may: a parent slot is new only if the row says
so, and then the parent lists the child; children are only appended; a gender is
never lost.  The lemmas about `Ensure`, `PointTo`, `Adopt`, `SetParent`,
`Describe` and `Stored` establish them, once.  The invariants, the refinement and
the count of children follow from `RowStep` alone, without opening `add_person`
again.  `PlaceholdersAreParents` is not inductive: that a nameless person has no
row needs that every person with a row is named and known (`RowsAreKnown`), which
has to be carried along, and so does the declaration of each child, in a form
that survives appending to `log`; together they are `IInv`.  The facts that the
conversion needs of a loaded store are stated of any store `t` and any rows `l`
that made it (`Consistent(t, l)`, `Told(t, l)`, `Counted(t, l)`): the state machine
of the store has them of `people` and `log`, and so have the loaders.

The history.  The properties look for the last row that says something.  A search from
the end of a growing file is awkward in an induction, so the invariant `HInv`
describes the same row (`Says(I, g, x)`: if any place of `I` counts, `x` is what
its greatest place says; `SaysFirst` likewise for the smallest), for each
attribute and for the log as it grows by one.  That a greatest place exists is part
of the invariant.  A gender needs both: the last gender column, or else the first
mention as a parent.

The lists of children.  `ChildListedOncePerRole` counts, so its invariant
`CInv` follows the number of copies of a child in a parent's list: none before
the child's first row, and the number of the row's columns with the parent after
it.  From this, `HInv` and `ParentsListTheirChildren` the couples follow: in a
file without contradictory sexes a father is male and a mother female, so that
`get_spouses` looks through the right slot from either side.

Filters and siblings.  `get_peers` and `get_soft_peers` filter a parent's list.
What a filter returns is an induction over a list; the induction theorems of the
library cannot be used, but the least element of a set of numbers can
(`LeastNumber`), and with it `Induction` on the set of lengths for which a claim
holds.  It is applied to the recursive function a filter is (`Keeps`), and so are all
inductions that follow.  Then all full siblings filter the same list by the same parent
(`PeersAreEquivalent`), a child of either parent has the other parent in common
or not (`SiblingsArePartitioned`), and who is in a list of somebody has them in the
list that answers to it (`LinksAreMutual`).

The loaders.  For csv files `NamedStore` says of everybody in the store that
their own last line named them or, if they have no line, that they have the bare name;
`LineKeepsNames` composes `RowStep` with the effect of naming a parent.  It
needs that every parent pointer leads into the store, and that whoever is
nameless after `add_person` was created by this very line, so that the text in
its cell is that parent's.  That no line is lost is `AInv`: the log is what the
lines before the current one leave after the comments have been taken out
(`Taken`), as far as the load has come, and the current line is no comment; a
line that cannot be stored ends the load.  `BInv` says the same of the sheets and
their rows without a blank cell.  `GInv` follows every individual of a GEDCOM
file into the log, so that at the end everybody has a row and a name.  For tables `MInv`
follows each row before the current one into the log, and the facts of a person
with one row back to it.

The conversion.  `LInv` is what every loader keeps of its store (`Sound`, and
`Exact` unless the loader names parents itself).  At `Convert` the store becomes
the `original`, which `RInv` keeps: the sheet has one row for everybody in it, in
some order, each with the cells of `ExportRow`, and the log is the rows read so far.  A
column read back is the cell that was written (nothing for an undefined value), so
no id has two rows and no sex is contradicted, whatever the first file was like.
At the end every person has exactly one row: `Told` then gives the parents,
names, genders and facts, and `Counted` the children of the new lists.

The tree page.  `Recursion` shows once that a recursion on the levels has a solution, so
that each measure obeys its equation at every level; the rest is induction on the
set of levels where a relation holds.

* A row below is the row above with everybody replaced by those under them, and
  so is a row of couples upwards.  `Generations` is that relation for any such
  replacement, and `NextGeneration` that going one level further from a person is
  going down from each member of the next generation.  `GenerationMembers` then
  compares the rows with `Above` and `Below`, and `GenerationWidth` says that the widths
  of a row add up to the width of the whole, whence `RowsFillTheGrid`.
* `LevelsCount`: `getATreeLevels` is the number of generations above that are not
  empty, up to the levels asked for, and `DLevels` is that below; a missing
  button therefore hides nobody.
* `GridEndsWithTheFamily` is a pigeonhole: a line of ancestors as long as the
  store is finite has somebody in it twice, who is then their own ancestor.
* `LinesFindTheirParent` and `BranchesJoinTheFamilies` rest on
  `ChildrenWereDeclared` and `LineageAsDeclared`: whoever is on a list was declared
  by some row, and points back to the list's owner unless a later row gave another
  parent (`ListedByItsParents`).  For the pictures a child must
  stand on that list once (`NoChildTwice`), so that only the first is drawn as first and
  only the last as last.

The process.  `HungarianNamesAreReversed` is strengthened by the global's state
while a Hungarian request is handled (`Reversed`).  The links rest on `SInv`: types;
nobody waits twice or while being served (`Queue`); the language is the request's
once the parameters are read and only requests that pass the checks search
months (`Progress`); and a page in view is one that its request can draw from its
family (`PagesAreDrawn`).  `GoodLinksSurvive` is the heart of it: every link that
`Offered` puts on a page that was drawn, the doubtful ones excepted, passes the checks on the same
family, whichever page it is.  `SoundLinks` sorts the links that no id spoils; those
to persons keep what `aref_tree` pasted (`PastedType`), and a flag asks for the drawing
that has just succeeded.  The flags of the birthday page are the only ones
that may ask for a month the new language does not have.

Only model-checked: `EveryoneIsAnswered`, which is liveness under fairness and out
of the prover's reach.  Every other property of the passing runs, invariant,
action property or refinement, is a theorem.  The violations of section 5 are
counterexamples that TLC finds, and nothing is proved of them.  Two
limits shaped the models: the provers know nothing of `RECURSIVE` operators, so
every recursion is a recursive function, and they cannot use an induction theorem
whose parameter is an operator, so every induction is on a set.

## 7. Plan

Done: the store with its history, relations and refinement; the tree page; the
loaders and the conversion; the process; and theorems for every safety property
of them.  What could follow, in this order:

1. An abstract specification of the process (a visitor asks, and gets a page of the
   request in its language or an error) that `FtreeServer` implements, proved as
   a refinement.
2. The safety half of `EveryoneIsAnswered` as theorems: the process is
   idle, searches a month, or has a step that brings the answer nearer, and the queue
   is served in its order.
3. The families of `FtreeServer` computed from the stores of `Loaders`, by the
   operators of `PersonRelations` and `TreeLayout`, in place of a constant.
4. `FieldValidators`: dates of two or three parts and their order over a small calendar.
5. The tables of the list pages with their rows of several cells and counters.

## 8. Not modelled, and why

* Settings (`ftree.config`, `SettingsFactory.pm`): read with Config::General and
  handed over as they are; constants of the models.
* `Place`, `Cemetery`, `Picture`, `StringUtils`: immutable records and a trim
  function; members of `Value`.
* The text generators: fixed sentences per language, wording only.
* The HTML of the pages, `brief_info`, the spelling of names, the picture gallery and the
  third-party scripts on each page: text without state.  So are the two lines
  above each row of ancestors (`getAGridLineG`), which depend on the number of cells
  only and look nobody up.
* The regular expressions of the validators and the parsing of dates: a value is
  well formed or not, and no property tells two dates apart.  The directories of
  pictures that the loaders scan: they depend on files, not on rows.
* The serialized format and `Exporters/Serializer.pm`: Storable both ways.
* What depends on the external libraries of the Excel formats: more than one
  sheet in a file, and texts that `Spreadsheet::WriteExcel` takes for numbers
  (leading zeros) or formulas.
* Ids that spell a parameter of their own (`a;lang=hu`), and surnames with a hash
  or a semicolon, whose page is one list in `FtreeServer`.
* Oddities of the code met on the way that no run is about: a second row that names
  an earlier parent again lists the child a second time
  (`lib/FamilyTreeData.pm:235`), and one without a death column revives its
  person (`lib/FamilyTreeData.pm:105`); in a file that contradicts somebody's sex a
  spouse is found from one side only (`lib/Person.pm:58`); the properties of these
  exclude such files.  The birthday page counts the dead without a date of death as living
  (`lib/FamilyTreeInfo.pm:246`); the closing of the last table row
  (`lib/FamilyTreeInfo.pm:99`); a refused visitor gets an internal error in
  place of the form (`lib/FamilyTreeBase.pm:249`).
* The bundled Perl distribution (`lib/CORE`, `lib/auto` and their C headers)
  and the CPAN modules of the repository: third-party code that nothing in Ftree
  was written for.  They make up nearly all of the repository's files, and the C
  headers all of its lines of C; Ftree itself is the few thousand lines of
  Perl that the components above name, and the map counts only against those.
