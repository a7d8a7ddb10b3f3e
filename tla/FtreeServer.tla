---------------------------- MODULE FtreeServer ----------------------------
(***************************************************************************)
(* The program as app.psgi runs it: one process that takes requests one    *)
(* after the other, compiles the two scripts once and keeps their package  *)
(* globals from request to request.  A request is an address with its      *)
(* parameters; a page is drawn from it and offers links to other pages.    *)
(* The data file is read again by each request and may be edited between   *)
(* two of them.                                                            *)
(*                                                                         *)
(* The drawing of a page is abstract: which persons it names and whether   *)
(* it dies on one of them.  The index, faces, emails and hpages pages are  *)
(* lists that behave alike and are one type, "".                           *)
(*                                                                         *)
(* An id is pasted into an address as it is, and validIDEntry lets more    *)
(* through than a parameter can hold: Read is the id that a script finds   *)
(* there.  (Ids that spell another parameter, as in "a;lang=hu", are left  *)
(* out, and so are surnames, whose page is one list here.)                 *)
(***************************************************************************)
EXTENDS Integers, Sequences, Functions

CONSTANTS
    Visitor,        \* who asks for pages
    Id,             \* the ids a request may name
    Read,           \* the id that is read where an id was pasted
    Cutting,        \* the ids with a hash, which ends the address
    Lang,           \* the values of a lang parameter
    Known,          \* the languages that have a text generator
    Reversing,      \* those that put the last name first
    DefaultLang,    \* default_language of the configuration
    MonthsOf,       \* months_array of each known language
    Password,       \* password of the configuration
    PasswordReq,    \* passwordReq of the configuration is not empty
    Passwd,         \* the values of a passwd parameter
    Families,       \* the contents the data file may have
    Typed,          \* the addresses a visitor may type in
    Listed,         \* bound: the list pages of the menu
    MaxLevels,      \* bound on the levels of a tree
    NIL,            \* an absent parameter, Perl's undef
    Broken          \* what a visitor sees of a script that exits with 1 or dies

Type == {"", "tree", "snames", "subfamily", "bdays", "other"}
Month == {""} \cup UNION {Range(MonthsOf[l]) : l \in Known}

Request == [script : {"ftree", "person_page"}, type : Type \cup {NIL},
            lang : Lang \cup {NIL}, passwd : Passwd \cup {NIL},
            target : Id \cup {NIL}, levels : 0..MaxLevels \cup {NIL},
            month : Month \cup {NIL}]

\* What the pages need of a loaded store: who is stored, who has a name and who
\* a first name, whom the page of a person shows and whom its tree of so many
\* levels, and the trees whose lines find no parent for somebody.
Family == {f \in [stored : SUBSET Id, named : SUBSET Id, first : SUBSET Id,
                  near : [Id -> SUBSET Id],
                  tree : [Id -> [1..MaxLevels -> SUBSET Id]],
                  lost : SUBSET (Id \X (1..MaxLevels))] :
              /\ f.first \subseteq f.named
              /\ f.named \subseteq f.stored
              /\ \A p \in Id : f.near[p] \subseteq f.stored
              /\ \A p \in Id : \A n \in 1..MaxLevels : f.tree[p][n] \subseteq f.stored}

\* The ids that are another id when they are read again.
Misread == {p \in Id : Read[p] # p}

ASSUME ServerAssumption ==
    /\ Reversing \subseteq Known
    /\ Known \subseteq Lang
    /\ {DefaultLang, "gb"} \subseteq Known
    /\ {"", Password} \subseteq Passwd
    /\ Families \subseteq Family
    /\ Typed \subseteq Request
    /\ Listed \subseteq {"", "snames", "bdays"}
    /\ \A l \in Known : /\ DOMAIN MonthsOf[l] = 1..Len(MonthsOf[l])
                        /\ Len(MonthsOf[l]) = Len(MonthsOf[DefaultLang])
    /\ Len(MonthsOf[DefaultLang]) \in Nat
    /\ MaxLevels \in Nat /\ MaxLevels >= 2
    /\ Read \in [Id -> Id]
    /\ Cutting \subseteq Misread

\* What a visitor may look at: a page, with what it was drawn from.
Drawing == [request : Request, family : Families, lang : Lang, reversed : BOOLEAN]

\* NIL and Broken are told apart from everything else.
ASSUME DistinctAssumption ==
    /\ NIL \notin Visitor
    /\ NIL \notin Type \cup Lang \cup Passwd \cup Id
    /\ NIL \notin Families
    /\ NIL \notin Request
    /\ Broken \notin Drawing

VARIABLES
    family,         \* what a load would find, NIL when it would die
    language,       \* $TextGeneratorFactory::language
    reverse_name,   \* $TextGeneratorFactory::reverse_name
    backlog,        \* visitors waiting for the process, in their order
    asked,          \* the request a visitor waits for, NIL when none
    view,           \* what a visitor looks at: NIL, Broken or a page
    serving,        \* the visitor whose request is handled, NIL when none
    phase,          \* how far it has come
    index           \* $index of the birthday page

globals == <<language, reverse_name>>
vars == <<family, globals, backlog, asked, view, serving, phase, index>>

Shown(v) == view[v] \notin {NIL, Broken}
-----------------------------------------------------------------------------
\* What a request means to the scripts.

Handler(r) ==
    CASE r.script = "person_page" -> "PersonPage"
      [] r.script = "ftree" /\ r.type = "tree" -> "FamilyTreeGraphics"
      [] OTHER -> "FamilyTreeInfo"

\* (LangGiven is a mutant: the default is forgotten.)
LangGiven(r) == r.lang
LangOf(r) == IF r.lang = NIL THEN DefaultLang ELSE r.lang
PasswdOf(r) == IF r.passwd = NIL THEN "" ELSE r.passwd
LevelsOf(r) == IF r.levels = NIL THEN 2 ELSE r.levels

Refused(r) == PasswordReq /\ PasswdOf(r) # Password

WantsMonth(r) == /\ Handler(r) = "FamilyTreeInfo"
                 /\ r.type = "bdays"
                 /\ r.month # NIL
WantsRedirect(r) == Handler(r) = "FamilyTreeGraphics" /\ LevelsOf(r) = 0

\* html_name hands the first name of everybody but the target to aref_tree when
\* the tree has several levels, and aref_tree dies of an undefined one; who
\* has no name at all is Unknown.
TreeDies(f, p, n) ==
    \/ <<p, n>> \in f.lost
    \/ n > 1 /\ \E q \in f.tree[p][n] \ {p} : q \in f.named \ f.first

\* The drawings that die of somebody they show.
DrawingDies(f, r) ==
    \/ /\ Handler(r) = "PersonPage"
       /\ \E q \in {r.target} \cup f.near[r.target] : q \notin f.named
    \/ /\ Handler(r) = "FamilyTreeGraphics"
       /\ LevelsOf(r) > 0
       /\ TreeDies(f, r.target, LevelsOf(r))

\* The checks and drawings that do not end in exit 1 or die: the target is
\* there, the password right, the type valid, every name there, and the
\* language has a text generator unless no sentence is needed.
Survives(r) ==
    /\ family # NIL
    /\ Handler(r) # "FamilyTreeInfo" => r.target \in family.stored
    /\ ~Refused(r)
    /\ Handler(r) = "FamilyTreeInfo" => r.type # "other"
    /\ ~DrawingDies(family, r)
    /\ ~WantsMonth(r) /\ ~WantsRedirect(r) => LangOf(r) \in Known
-----------------------------------------------------------------------------
\* The links of a page.

Address == [script |-> "ftree", type |-> NIL, lang |-> NIL, passwd |-> NIL,
            target |-> NIL, levels |-> NIL, month |-> NIL]

\* What is read of an address that a script has pasted together.  The target
\* comes after the type and before everything else.
Pasted(r) ==
    IF r.target \in Cutting
    THEN [Address EXCEPT !.script = r.script, !.type = r.type, !.target = Read[r.target]]
    ELSE [r EXCEPT !.target = Read[@]]

\* aref_tree: a tree, or the person page for no levels
\* (Mutants: the password or the language is left off.)
PersonLinkOpen(p, levels, l) ==
    LET to == [Address EXCEPT !.target = p, !.lang = l]
    IN Pasted(IF levels > 0 THEN [to EXCEPT !.type = "tree", !.levels = levels]
              ELSE [to EXCEPT !.script = "person_page"])
PersonLinkMute(p, levels, l) ==
    LET to == [Address EXCEPT !.target = p, !.passwd = Password]
    IN Pasted(IF levels > 0 THEN [to EXCEPT !.type = "tree", !.levels = levels]
              ELSE [to EXCEPT !.script = "person_page"])

PersonLink(p, levels, l) ==
    LET to == [Address EXCEPT !.target = p, !.passwd = Password, !.lang = l]
    IN Pasted(IF levels > 0 THEN [to EXCEPT !.type = "tree", !.levels = levels]
              ELSE [to EXCEPT !.script = "person_page"])

\* _endpage
Menu(l) == {[Address EXCEPT !.type = t, !.passwd = Password, !.lang = l] :
            t \in Listed}

\* language_chooser: the page's own parameters with another language.  They are
\* pasted in the order of a hash and the language comes last: a hash in the
\* target takes it and any of the others.
CutShort(r) == [script : {r.script}, target : {Read[r.target]}, lang : {NIL},
                type : {r.type, NIL}, passwd : {r.passwd, NIL},
                levels : {r.levels, NIL}, month : {r.month, NIL}]

Chooser(page) ==
    LET r == page.request
    IN IF r.target \in Cutting THEN CutShort(r)
       ELSE {[r EXCEPT !.lang = l, !.target = IF @ = NIL THEN NIL ELSE Read[@]] :
             l \in Known}

\* _draw_surname_page, without the password
SurnameLinks(page) ==
    IF page.request.type = "snames" /\ Handler(page.request) = "FamilyTreeInfo"
    THEN {[Address EXCEPT !.type = "subfamily", !.lang = page.lang]} ELSE {}

\* The form of _draw_birthday_page, whose password field has another name
\* (MonthFormOfDefault is a mutant: the months of another language are offered.)
MonthFormOfDefault(page) ==
    IF page.request.type = "bdays" /\ Handler(page.request) = "FamilyTreeInfo"
    THEN {[Address EXCEPT !.type = "bdays", !.lang = page.lang, !.month = m] :
          m \in Range(MonthsOf[DefaultLang])}
    ELSE {}

MonthForm(page) ==
    IF page.request.type = "bdays" /\ Handler(page.request) = "FamilyTreeInfo"
    THEN {[Address EXCEPT !.type = "bdays", !.lang = page.lang, !.month = m] :
          m \in Range(MonthsOf[page.lang])}
    ELSE {}

\* The persons a page links, each with the levels of the link: those the page
\* of a target shows; those its tree draws, and its two zoom buttons; and
\* those of a list.
Linked(page) ==
    LET p == page.request.target
        n == LevelsOf(page.request)
    IN CASE Handler(page.request) = "PersonPage" ->
              (page.family.near[p] \X {0}) \cup {<<p, 2>>}
         [] Handler(page.request) = "FamilyTreeGraphics" ->
              ((page.family.tree[p][n] \ {p}) \X {n})
              \cup ({p} \X ({n - 1, n + 1} \cap 0..MaxLevels))
         [] OTHER -> page.family.named \X {2}

LinksTo(page, S) == {PersonLink(x[1], x[2], page.lang) :
                     x \in {y \in Linked(page) : y[1] \in S}}
PeopleLinks(page) == LinksTo(page, Id)

Offered(page) == Menu(page.lang) \cup Chooser(page) \cup SurnameLinks(page)
                 \cup MonthForm(page) \cup PeopleLinks(page)
-----------------------------------------------------------------------------
Init ==
    /\ family \in Families
    /\ language = "gb"
    /\ reverse_name = FALSE
    /\ backlog = <<>>
    /\ asked = [v \in Visitor |-> NIL]
    /\ view = [v \in Visitor |-> NIL]
    /\ serving = NIL
    /\ phase = "idle"
    /\ index = 0

\* A visitor follows a link of the page in view or types an address.
Ask(v, r) ==
    /\ asked[v] = NIL
    /\ \/ r \in Typed
       \/ Shown(v) /\ r \in Offered(view[v])
    /\ asked' = [asked EXCEPT ![v] = r]
    /\ backlog' = Append(backlog, v)
    /\ UNCHANGED <<family, globals, view, serving, phase, index>>

\* Somebody edits the data file, possibly into one that no load survives.
EditFile(f) ==
    /\ serving = NIL
    /\ f # family
    /\ family' = f
    /\ UNCHANGED <<globals, backlog, asked, view, serving, phase, index>>

\* The process turns to the next request.
Accept ==
    /\ serving = NIL
    /\ backlog # <<>>
    /\ serving' = Head(backlog)
    /\ backlog' = Tail(backlog)
    /\ phase' = "parameters"
    /\ UNCHANGED <<family, globals, asked, view, index>>

\* getTextGenerator sets the order of names for Hungarian; nothing resets it.
\* (ReversalToggled is a mutant: every Hungarian request turns the order.)
ReversalToggled(l) == l \in Reversing /\ ~reverse_name
Reversal(l) == l \in Reversing \/ reverse_name

\* _process_parameters.  The list pages have loaded the file before.
ProcessParameters ==
    LET l == LangOf(asked[serving])
    IN /\ phase = "parameters"
       /\ Handler(asked[serving]) = "FamilyTreeInfo" => family # NIL
       /\ language' = l
       /\ reverse_name' = Reversal(l)
       /\ phase' = "checks"
       /\ UNCHANGED <<family, backlog, asked, view, serving, index>>

Reply(what) ==
    /\ view' = [view EXCEPT ![serving] = what]
    /\ asked' = [asked EXCEPT ![serving] = NIL]
    /\ serving' = NIL
    /\ phase' = "idle"
    /\ index' = 0
    /\ UNCHANGED <<family, globals, backlog>>

Page == [request |-> asked[serving], family |-> family,
         lang |-> language, reversed |-> reverse_name]

\* The load of a list page dies, before the parameters are looked at.
FailToLoad ==
    /\ phase = "parameters"
    /\ Handler(asked[serving]) = "FamilyTreeInfo"
    /\ family = NIL
    /\ Reply(Broken)

\* The script exits with 1 or dies: the visitor gets an internal error.
Fail ==
    /\ phase = "checks"
    /\ ~Survives(asked[serving])
    /\ Reply(Broken)

Draw ==
    LET r == asked[serving]
    IN /\ phase = "checks"
       /\ Survives(r)
       /\ ~WantsMonth(r)
       /\ ~WantsRedirect(r)
       /\ Reply(Page)

\* A tree of no levels is a redirection to the person page, which the
\* visitor's browser asks for at once.
Redirect ==
    LET r == asked[serving]
        to == Pasted([Address EXCEPT !.script = "person_page", !.target = r.target,
                                     !.lang = language])
    IN /\ phase = "checks"
       /\ Survives(r)
       /\ WantsRedirect(r)
       /\ asked' = [asked EXCEPT ![serving] = to]
       /\ backlog' = Append(backlog, serving)
       /\ serving' = NIL
       /\ phase' = "idle"
       /\ UNCHANGED <<family, globals, view, index>>

\* The search for the month's number on the birthday page.
\* (FirstIndexOne is a mutant: it starts at the second month.)
FirstIndexOne == 1
FirstIndex == 0

SearchMonth ==
    /\ phase = "checks"
    /\ Survives(asked[serving])
    /\ WantsMonth(asked[serving])
    /\ phase' = "month"
    /\ index' = FirstIndex
    /\ UNCHANGED <<family, globals, backlog, asked, view, serving>>

\* $months->[$index]: undefined, equal to "", beyond the last month and in a
\* language that has no months.
MonthAt(i) == IF language \in Known /\ i < Len(MonthsOf[language])
              THEN MonthsOf[language][i + 1] ELSE ""

\* The count goes on beyond the last month; one place stands for them all.
NextMonth ==
    /\ phase = "month"
    /\ MonthAt(index) # asked[serving].month
    /\ index' = IF index =< Len(MonthsOf[DefaultLang]) THEN index + 1 ELSE index
    /\ UNCHANGED <<family, globals, backlog, asked, view, serving, phase>>

FindMonth ==
    /\ phase = "month"
    /\ MonthAt(index) = asked[serving].month
    /\ Reply(IF language \in Known THEN Page ELSE Broken)

Serve == \/ Accept \/ ProcessParameters \/ FailToLoad \/ Fail \/ Draw
         \/ Redirect \/ SearchMonth \/ NextMonth \/ FindMonth

Next ==
    \/ \E v \in Visitor :
          \/ \E r \in Typed : Ask(v, r)
          \/ Shown(v) /\ \E r \in Offered(view[v]) : Ask(v, r)
    \/ \E f \in Families \cup {NIL} : EditFile(f)
    \/ Serve

\* The process is never suspended in the middle of its work.
Spec == Init /\ [][Next]_vars /\ WF_vars(Serve)
-----------------------------------------------------------------------------
\* Type correctness of the process, its visitors and the pages they see.
TypeOK ==
    /\ family \in Families \cup {NIL}
    /\ language \in Lang
    /\ reverse_name \in BOOLEAN
    /\ backlog \in Seq(Visitor)
    /\ \A v \in Visitor : /\ asked[v] \in Request \cup {NIL}
                          /\ Shown(v) => view[v].lang \in Known
    /\ serving \in Visitor \cup {NIL}
    /\ phase \in {"idle", "parameters", "checks", "month"}
    /\ serving = NIL <=> phase = "idle"
    /\ index \in 0..Len(MonthsOf[DefaultLang]) + 1

Answered(v) == asked[v] # NIL /\ asked'[v] = NIL

\* The links that an id of the page spoils: aref_tree and the flags pasted it,
\* and another one is read.
Garbled(page) ==
    (LinksTo(page, Misread)
     \cup IF page.request.target \in Misread THEN Chooser(page) ELSE {})
    \ LinksTo(page, Id \ Misread)

\* The links that a page offers and that may fail: with a password required,
\* those of the surname page and of the month form, which leave it off; those
\* with an id that is misread; and those to a page that dies of somebody
\* without a name or a first name, or of a line without a parent.
Doubtful(page) ==
    (IF PasswordReq THEN SurnameLinks(page) \cup MonthForm(page) ELSE {})
    \cup Garbled(page)
    \cup {r \in PeopleLinks(page) : DrawingDies(page.family, r)}

\* A link of a page, followed while the file is as it was, leads to a page and
\* never to an internal error: the target exists, and the type, the password
\* and the language are handed on by every link but the doubtful ones.  The
\* flags of a page that could be drawn are not doubtful.
LinksLeadToPages ==
    [][\A v \in Visitor :
          /\ Answered(v)
          /\ Shown(v)
          /\ family = view[v].family
          /\ asked[v] \in Offered(view[v]) \ Doubtful(view[v])
          => view'[v] # Broken]_vars

\* A visitor changes language with the flags only: every other link, unless an
\* id spoils it, leads to a page in the language of the page it is on.  Five
\* functions make the links, each with a language of its own making.
LinksKeepTheLanguage ==
    [][\A v \in Visitor :
          /\ Answered(v)
          /\ Shown(v)
          /\ asked[v] \in Offered(view[v]) \ (Chooser(view[v]) \cup Garbled(view[v]))
          /\ view'[v] # Broken
          => view'[v].lang = view[v].lang]_vars

\* A page in Hungarian has the last names first, whoever was served before.
HungarianNamesAreReversed ==
    \A v \in Visitor : Shown(v) /\ view[v].lang \in Reversing => view[v].reversed

\* The birthday page looks for a month that its language does not have: the
\* count never ends.
LostMonth ==
    /\ phase = "month"
    /\ asked[serving].month # ""
    /\ language \in Known => asked[serving].month \notin Range(MonthsOf[language])

\* No link but the flags of a birthday page can start such a search: they
\* keep the month's name and change its language.
OnlyFlagsLoseMonths ==
    LostMonth /\ Shown(serving) /\ asked[serving] \in Offered(view[serving]) =>
        /\ asked[serving] \in Chooser(view[serving])
        /\ language # view[serving].lang

\* Everybody who asks is answered, redirections included, unless some request
\* has lost its month: then the one process serves nobody any more.
EveryoneIsAnswered ==
    \A v \in Visitor : asked[v] # NIL ~> (asked[v] = NIL \/ LostMonth)

\* "perl interpreter is starts for every request" (the documentation, on
\* performance): the order of names on a page depends on its language only.
FreshInterpreter ==
    \A v \in Visitor : Shown(v) =>
        (view[v].reversed <=> view[v].lang \in Reversing)

\* "lang (languages, i.e en, de, hu, it, fr)" (the scripts' header): the index
\* page is there in each of them.
DocumentedLanguagesWork ==
    [][\A v \in Visitor :
          /\ Answered(v)
          /\ family # NIL
          /\ ~Refused(asked[v])
          /\ asked[v].script = "ftree"
          /\ asked[v].type \in {NIL, ""}
          /\ asked[v].lang \in {"en", "de", "hu", "it", "fr"}
          => view'[v] # Broken]_vars
=============================================================================
