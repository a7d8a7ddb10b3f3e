----------------------- MODULE FtreeServerLinkProofs -----------------------
(***************************************************************************)
(* Theorems about the persistent process, for any visitors, languages and  *)
(* files.  The links of the pages: what the process needs to know of every *)
(* page in view, of every request that waits and of the one it serves.     *)
(* The order of names: what outlives a request in the globals.             *)
(***************************************************************************)
EXTENDS FtreeServer, TLAPS

\* What is true of every page that was ever drawn.  It is why its links work:
\* the request that led to it had survived the checks.
Drawn(page) ==
    /\ page.request \in Request
    /\ page.family \in Families
    /\ page.lang \in Known
    /\ ~Refused(page.request)
    /\ Handler(page.request) # "FamilyTreeInfo" =>
          page.request.target \in page.family.stored
    /\ Handler(page.request) = "FamilyTreeInfo" => page.request.type # "other"
    /\ Handler(page.request) = "FamilyTreeGraphics" => LevelsOf(page.request) # 0
    /\ ~DrawingDies(page.family, page.request)
    /\ WantsMonth(page.request) =>
          page.request.month \in {""} \cup Range(MonthsOf[page.lang])

Typing ==
    /\ family \in Families \cup {NIL}
    /\ language \in Lang
    /\ reverse_name \in BOOLEAN
    /\ backlog \in Seq(Visitor)
    /\ asked \in [Visitor -> Request \cup {NIL}]
    /\ view = [v \in Visitor |-> view[v]]
    /\ serving \in Visitor \cup {NIL}
    /\ phase \in {"idle", "parameters", "checks", "month"}
    /\ serving = NIL <=> phase = "idle"
    /\ index \in 0..Len(MonthsOf[DefaultLang]) + 1

\* Whoever waits has asked, waits once, and is not being served: without this
\* the process could turn to a visitor who has an answer already.
Queue ==
    /\ \A i \in 1..Len(backlog) : asked[backlog[i]] # NIL /\ backlog[i] # serving
    /\ \A i, j \in 1..Len(backlog) : backlog[i] = backlog[j] => i = j
    /\ serving # NIL => asked[serving] # NIL

\* How far the request that is served has come.
Progress ==
    /\ phase \in {"checks", "month"} => language = LangOf(asked[serving])
    /\ phase = "month" => Survives(asked[serving]) /\ WantsMonth(asked[serving])

PagesAreDrawn == \A v \in Visitor : Shown(v) => Drawn(view[v])

SInv == Typing /\ Queue /\ Progress /\ PagesAreDrawn

-----------------------------------------------------------------------------
\* The parameters of a language that is known.
LEMMA Languages ==
    /\ Known \subseteq Lang
    /\ DefaultLang \in Known
    /\ NIL \notin Known
    /\ \A r \in Request : LangOf(r) \in Lang
BY ServerAssumption, DistinctAssumption DEF LangOf, Request

\* The bounds on months and levels.
LEMMA Bounds ==
    /\ Len(MonthsOf[DefaultLang]) \in Nat
    /\ \A l \in Known : /\ DOMAIN MonthsOf[l] = 1..Len(MonthsOf[l])
                        /\ Len(MonthsOf[l]) = Len(MonthsOf[DefaultLang])
    /\ MaxLevels \in Nat
BY ServerAssumption

\* An id is read as an id, and as another one when it cuts its address short.
LEMMA Ids ==
    /\ \A p \in Id : Read[p] \in Id
    /\ \A p \in Id : p \notin Misread => Read[p] = p /\ p \notin Cutting
    /\ NIL \notin Id /\ NIL \notin Misread /\ NIL \notin Cutting
    /\ Cutting \subseteq Id
BY ServerAssumption, DistinctAssumption DEF Misread

\* A pasted address is read as a request, and as it was unless its id spoils it.
LEMMA PastedType ==
    ASSUME NEW r \in Request, r.target \in Id
    PROVE  /\ Pasted(r) \in Request
           /\ Pasted(r).script = r.script
           /\ Pasted(r).type = r.type
           /\ Pasted(r).lang \in {r.lang, NIL}
           /\ Pasted(r).month \in {r.month, NIL}
           /\ r.target \notin Misread => Pasted(r) = r
<1>1. Read[r.target] \in Id
  BY Ids
<1>2. CASE r.target \in Cutting
  <2>1. r.target \in Misread
    BY <1>2, Ids
  <2>2. QED
    BY <1>1, <1>2, <2>1 DEF Pasted, Address, Request
<1>3. CASE r.target \notin Cutting
  <2>1. Pasted(r) = [r EXCEPT !.target = Read[r.target]]
    BY <1>3 DEF Pasted
  <2>2. r.target \notin Misread => Read[r.target] = r.target
    BY Ids
  <2>3. QED
    BY <1>1, <2>1, <2>2 DEF Request
<1>4. QED
  BY <1>2, <1>3

\* The links to persons are requests, and those that no id spoils carry it, the
\* password and the language.
LEMMA PersonLinkType ==
    ASSUME NEW p \in Id, NEW n \in 0..MaxLevels, NEW l \in Lang
    PROVE  /\ PersonLink(p, n, l) \in Request
           /\ PersonLink(p, n, l).lang \in {l, NIL}
           /\ PersonLink(p, n, l).month = NIL
           /\ PersonLink(p, n, l).script = "ftree" => PersonLink(p, n, l).type = "tree"
           /\ p \notin Misread => /\ PersonLink(p, n, l).target = p
                                  /\ PersonLink(p, n, l).lang = l
                                  /\ PersonLink(p, n, l).passwd = Password
<1> DEFINE base == [Address EXCEPT !.target = p, !.passwd = Password, !.lang = l]
           to == IF n > 0 THEN [base EXCEPT !.type = "tree", !.levels = n]
                 ELSE [base EXCEPT !.script = "person_page"]
<1>1. Password \in Passwd
  BY ServerAssumption
<1>2. /\ to \in Request
      /\ to.target = p /\ to.lang = l /\ to.passwd = Password /\ to.month = NIL
      /\ to.script = "ftree" => to.type = "tree"
  <2>1. CASE n > 0
    BY <1>1, <2>1 DEF Address, Request, Type
  <2>2. CASE ~(n > 0)
    BY <1>1, <2>2 DEF Address, Request, Type
  <2>3. QED
    BY <2>1, <2>2
<1>3. PersonLink(p, n, l) = Pasted(to)
  BY DEF PersonLink
<1> HIDE DEF to
<1>4. QED
  BY <1>2, <1>3, PastedType

\* The persons whom a page links are stored, and the levels of the links are
\* within the bound.
LEMMA LinkedAreStored ==
    ASSUME NEW page, Drawn(page), NEW x \in Linked(page)
    PROVE  x[1] \in page.family.stored /\ x[1] \in Id /\ x[2] \in 0..MaxLevels
<1> DEFINE p == page.request.target
           n == LevelsOf(page.request)
           people == page.family
<1>0. MaxLevels \in Nat /\ MaxLevels >= 2
  BY ServerAssumption
<1>1. /\ people.named \subseteq people.stored
      /\ people.stored \subseteq Id
      /\ \A q \in Id : people.near[q] \subseteq people.stored
      /\ \A q \in Id : \A k \in 1..MaxLevels : people.tree[q][k] \subseteq people.stored
  <2>1. people \in Family
    BY ServerAssumption DEF Drawn
  <2> HIDE DEF people
  <2>2. QED
    BY <2>1 DEF Family
<1>2. CASE Handler(page.request) = "PersonPage"
  <2>1. p \in people.stored /\ p \in Id
    BY <1>1, <1>2 DEF Drawn
  <2>2. x \in (people.near[p] \X {0}) \cup {<<p, 2>>}
    BY <1>2 DEF Linked
  <2> HIDE DEF people, p
  <2>3. x[1] \in people.stored /\ x[2] \in {0, 2}
    BY <1>1, <2>1, <2>2
  <2>4. QED
    BY <1>0, <1>1, <2>3 DEF people
<1>3. CASE Handler(page.request) = "FamilyTreeGraphics"
  <2>1. p \in people.stored /\ p \in Id
    BY <1>1, <1>3 DEF Drawn
  <2>2. n \in 1..MaxLevels
    <3>1. n # 0
      BY <1>3 DEF Drawn
    <3>2. page.request.levels \in 0..MaxLevels \cup {NIL}
      BY DEF Drawn, Request
    <3>3. n \in 0..MaxLevels
      BY <1>0, <3>2 DEF LevelsOf
    <3> HIDE DEF n
    <3>4. QED
      BY <1>0, <3>1, <3>3
  <2>3. x \in ((people.tree[p][n] \ {p}) \X {n})
              \cup ({p} \X ({n - 1, n + 1} \cap 0..MaxLevels))
    BY <1>3 DEF Linked
  <2> HIDE DEF n, people, p
  <2>4. people.tree[p][n] \subseteq people.stored
    BY <1>1, <2>1, <2>2
  <2>5. CASE x \in (people.tree[p][n] \ {p}) \X {n}
    <3>1. x[1] \in people.stored /\ x[2] = n
      BY <2>4, <2>5
    <3>2. QED
      BY <1>0, <1>1, <2>2, <3>1 DEF people
  <2>6. CASE x \in {p} \X ({n - 1, n + 1} \cap 0..MaxLevels)
    <3>1. x[1] = p /\ x[2] \in 0..MaxLevels
      BY <2>6
    <3>2. QED
      BY <2>1, <3>1 DEF people
  <2>7. QED
    BY <2>3, <2>5, <2>6
<1>4. CASE Handler(page.request) = "FamilyTreeInfo"
  <2>1. x \in people.named \X {2}
    BY <1>4 DEF Linked
  <2> HIDE DEF people
  <2>2. x[1] \in people.named /\ x[2] = 2
    BY <2>1
  <2>3. QED
    BY <1>0, <1>1, <2>2 DEF people
<1>5. QED
  BY <1>2, <1>3, <1>4 DEF Handler

\* The links to persons of a set are made for those of it that are stored.
LEMMA LinksReach ==
    ASSUME NEW page, Drawn(page), NEW S, NEW r \in LinksTo(page, S)
    PROVE  \E p \in page.family.stored \cap S \cap Id, n \in 0..MaxLevels :
              r = PersonLink(p, n, page.lang)
<1>1. PICK x \in Linked(page) : x[1] \in S /\ r = PersonLink(x[1], x[2], page.lang)
  BY DEF LinksTo
<1>2. QED
  BY <1>1, LinkedAreStored

\* The links that no id spoils: those with no person, those to a person who is
\* read as such, and the flags of a page of such a person or of none.
LEMMA SoundLinks ==
    ASSUME NEW page, NEW r \in Offered(page) \ Garbled(page)
    PROVE  \/ r \in Menu(page.lang) \/ r \in SurnameLinks(page) \/ r \in MonthForm(page)
           \/ r \in LinksTo(page, Id \ Misread)
           \/ r \in Chooser(page) /\ page.request.target \notin Misread
<1>1. PeopleLinks(page) \subseteq LinksTo(page, Misread) \cup LinksTo(page, Id \ Misread)
  BY DEF PeopleLinks, LinksTo
<1>2. QED
  BY <1>1 DEF Offered, Garbled

\* Every link but the flags carries the language of its page, unless an id
\* spoils it.
LEMMA LinksCarryTheLanguage ==
    ASSUME NEW page, Drawn(page),
           NEW r \in Offered(page) \ (Chooser(page) \cup Garbled(page))
    PROVE  r \in Request /\ r.lang = page.lang
<1>1. page.lang \in Lang /\ page.lang \in Known
  BY Languages DEF Drawn
<1>2. CASE r \in Menu(page.lang)
  BY <1>1, <1>2, ServerAssumption DEF Menu, Address, Request, Type
<1>3. CASE r \in SurnameLinks(page)
  BY <1>1, <1>3 DEF SurnameLinks, Address, Request, Type
<1>4. CASE r \in MonthForm(page)
  <2>1. Range(MonthsOf[page.lang]) \subseteq Month
    BY <1>1 DEF Month
  <2>2. QED
    BY <1>1, <1>4, <2>1 DEF MonthForm, Address, Request, Type
<1>5. CASE r \in LinksTo(page, Id \ Misread)
  <2>1. PICK p \in Id \ Misread, n \in 0..MaxLevels : r = PersonLink(p, n, page.lang)
    BY <1>5, LinksReach
  <2>2. QED
    BY <1>1, <2>1, PersonLinkType
<1>6. QED
  BY <1>2, <1>3, <1>4, <1>5, SoundLinks

\* A flag is a request in a known language or in none, and changes nothing
\* else of its page's request but the id; a parameter may be cut off.
LEMMA FlagsAreRequests ==
    ASSUME NEW page, Drawn(page), NEW r \in Chooser(page)
    PROVE  /\ r \in Request
           /\ r.lang \in Known \cup {NIL}
           /\ r.script = page.request.script
           /\ r.type \in {page.request.type, NIL}
           /\ r.month \in {page.request.month, NIL}
<1> DEFINE q == page.request
<1>1. q \in Request
  BY DEF Drawn
<1>2. CASE q.target \in Cutting
  <2>1. Read[q.target] \in Id
    BY <1>2, Ids
  <2>2. r \in CutShort(q)
    BY <1>2 DEF Chooser
  <2> HIDE DEF q
  <2>3. QED
    BY <1>1, <2>1, <2>2 DEF CutShort, Request, q
<1>3. CASE q.target \notin Cutting
  <2>1. PICK l \in Known :
           r = [q EXCEPT !.lang = l, !.target = IF @ = NIL THEN NIL ELSE Read[@]]
    BY <1>3 DEF Chooser
  <2>2. l \in Lang
    BY Languages
  <2>3. (IF q.target = NIL THEN NIL ELSE Read[q.target]) \in Id \cup {NIL}
    <3>1. q.target \in Id \cup {NIL}
      BY <1>1 DEF Request
    <3>2. QED
      BY <3>1, Ids
  <2> HIDE DEF q
  <2>4. QED
    BY <1>1, <2>1, <2>2, <2>3 DEF Request, q
<1>4. QED
  BY <1>2, <1>3

\* The flags of a page whose target is read as it is change the language of
\* its request and nothing else.
LEMMA FlagsKeepTheRest ==
    ASSUME NEW page, Drawn(page), NEW r \in Chooser(page),
           page.request.target \notin Misread
    PROVE  \E l \in Known : r = [page.request EXCEPT !.lang = l]
<1> DEFINE q == page.request
<1>1. q \in Request /\ q.target \in Id \cup {NIL}
  BY DEF Drawn, Request
<1>2. q.target \notin Cutting /\ (q.target # NIL => Read[q.target] = q.target)
  BY <1>1, Ids
<1>3. PICK l \in Known :
         r = [q EXCEPT !.lang = l, !.target = IF @ = NIL THEN NIL ELSE Read[@]]
  BY <1>2 DEF Chooser
<1>4. (IF q.target = NIL THEN NIL ELSE Read[q.target]) = q.target
  BY <1>2
<1>5. r = [q EXCEPT !.lang = l]
  <2> HIDE DEF q
  <2>1. QED
    BY <1>1, <1>3, <1>4 DEF Request
<1>6. QED
  BY <1>5

\* Whatever a page offers is a request, in a known language or in none.
LEMMA LinksAreRequests ==
    ASSUME NEW page, Drawn(page), NEW r \in Offered(page)
    PROVE  r \in Request /\ LangOf(r) \in Known
<1>1. page.lang \in Known /\ page.lang \in Lang
  BY Languages DEF Drawn
<1>2. CASE r \in Chooser(page)
  BY <1>2, FlagsAreRequests, Languages DEF LangOf
<1>3. CASE r \in PeopleLinks(page)
  <2>1. PICK p \in Id, n \in 0..MaxLevels : r = PersonLink(p, n, page.lang)
    BY <1>3, LinksReach DEF PeopleLinks
  <2>2. r \in Request /\ r.lang \in {page.lang, NIL}
    BY <1>1, <2>1, PersonLinkType
  <2>3. QED
    BY <1>1, <2>2, Languages DEF LangOf
<1>4. CASE r \in Offered(page) \ (Chooser(page) \cup Garbled(page))
  <2>1. r \in Request /\ r.lang = page.lang
    BY <1>4, LinksCarryTheLanguage
  <2>2. QED
    BY <1>1, <2>1, Languages DEF LangOf
<1>5. CASE r \in Garbled(page)
  <2>1. r \in PeopleLinks(page) \cup Chooser(page)
    BY <1>5 DEF Garbled, PeopleLinks, LinksTo, Misread
  <2>2. QED
    BY <1>2, <1>3, <2>1
<1>6. QED
  BY <1>2, <1>4, <1>5

-----------------------------------------------------------------------------
\* Nobody waits in a queue twice, when who joins is not in it.
LEMMA Joins ==
    ASSUME NEW s \in Seq(Visitor), NEW v \in Visitor,
           \A i \in 1..Len(s) : s[i] # v,
           \A i, j \in 1..Len(s) : s[i] = s[j] => i = j
    PROVE  LET t == Append(s, v)
           IN /\ t \in Seq(Visitor)
              /\ \A i \in 1..Len(t) : t[i] = v \/ \E j \in 1..Len(s) : t[i] = s[j]
              /\ \A i, j \in 1..Len(t) : t[i] = t[j] => i = j
<1> DEFINE t == Append(s, v)
<1>1. /\ t \in Seq(Visitor)
      /\ Len(s) \in Nat
      /\ 1..Len(t) = (1..Len(s)) \cup {Len(s) + 1}
      /\ \A i \in 1..Len(s) : t[i] = s[i]
      /\ t[Len(s) + 1] = v
  OBVIOUS
<1> HIDE DEF t
<1>2. QED
  BY <1>1 DEF t

\* The first of a queue leaves it.
LEMMA Leaves ==
    ASSUME NEW s \in Seq(Visitor), s # <<>>,
           \A i, j \in 1..Len(s) : s[i] = s[j] => i = j
    PROVE  /\ Head(s) \in Visitor
           /\ 1 \in 1..Len(s) /\ Head(s) = s[1]
           /\ Tail(s) \in Seq(Visitor)
           /\ \A i \in 1..Len(Tail(s)) : /\ i + 1 \in 1..Len(s)
                                         /\ Tail(s)[i] = s[i + 1]
                                         /\ Tail(s)[i] # Head(s)
           /\ \A i, j \in 1..Len(Tail(s)) : Tail(s)[i] = Tail(s)[j] => i = j
<1> DEFINE t == Tail(s)
<1>1. /\ Head(s) \in Visitor
      /\ 1 \in 1..Len(s) /\ Head(s) = s[1]
      /\ t \in Seq(Visitor)
      /\ Len(t) = Len(s) - 1 /\ Len(s) \in Nat
      /\ \A i \in 1..Len(t) : i + 1 \in 1..Len(s) /\ t[i] = s[i + 1]
  OBVIOUS
<1> HIDE DEF t
<1>2. \A i \in 1..Len(t) : t[i] # Head(s)
  <2> SUFFICES ASSUME NEW i \in 1..Len(t) PROVE t[i] # Head(s)
    OBVIOUS
  <2>1. i + 1 # 1
    OBVIOUS
  <2>2. QED
    BY <1>1, <2>1
<1>3. \A i, j \in 1..Len(t) : t[i] = t[j] => i = j
  <2> SUFFICES ASSUME NEW i \in 1..Len(t), NEW j \in 1..Len(t), t[i] = t[j]
               PROVE  i = j
    OBVIOUS
  <2>1. i + 1 = j + 1
    BY <1>1
  <2>2. QED
    BY <2>1
<1>4. QED
  BY <1>1, <1>2, <1>3 DEF t

\* An answer ends the wait of the one that was served.
LEMMA ReplyKeepsSInv ==
    ASSUME SInv, serving # NIL, NEW what, Reply(what), what = Broken \/ Drawn(what)
    PROVE  SInv'
<1>1. /\ serving \in Visitor
      /\ view' = [view EXCEPT ![serving] = what]
      /\ asked' = [asked EXCEPT ![serving] = NIL]
      /\ serving' = NIL /\ phase' = "idle" /\ index' = 0
      /\ UNCHANGED <<family, language, reverse_name, backlog>>
  BY DEF SInv, Typing, Reply, globals
<1>2. /\ view' = [v \in Visitor |-> view'[v]]
      /\ view'[serving] = what
      /\ \A v \in Visitor : v # serving => view'[v] = view[v]
  BY <1>1 DEF SInv, Typing
<1>3. /\ asked' \in [Visitor -> Request \cup {NIL}]
      /\ \A v \in Visitor : v # serving => asked'[v] = asked[v]
  BY <1>1 DEF SInv, Typing
<1>4. Typing'
  <2>1. 0 \in 0..Len(MonthsOf[DefaultLang]) + 1
    BY Bounds
  <2>2. QED
    BY <1>1, <1>2, <1>3, <2>1 DEF SInv, Typing
<1>5. Queue'
  <2>1. \A i \in 1..Len(backlog) : backlog[i] \in Visitor
    BY DEF SInv, Typing
  <2>2. QED
    BY <1>1, <1>3, <2>1, DistinctAssumption DEF SInv, Queue
<1>6. Progress'
  BY <1>1 DEF Progress
<1>7. PagesAreDrawn'
  <2> SUFFICES ASSUME NEW v \in Visitor, Shown(v)'
               PROVE  Drawn(view[v])'
    BY DEF PagesAreDrawn
  <2>1. CASE v = serving
    <3>1. Drawn(what)
      BY <1>2, <2>1 DEF Shown
    <3>2. QED
      BY <1>2, <2>1, <3>1 DEF Drawn
  <2>2. CASE v # serving
    <3>1. view'[v] = view[v] /\ Drawn(view[v])
      BY <1>2, <2>2 DEF SInv, PagesAreDrawn, Shown
    <3>2. QED
      BY <3>1 DEF Drawn
  <2>3. QED
    BY <2>1, <2>2
<1>8. QED
  BY <1>4, <1>5, <1>6, <1>7 DEF SInv

\* What survives the checks is drawn in the language of its request.
LEMMA SurvivorsAreDrawn ==
    ASSUME SInv, phase \in {"checks", "month"}, language \in Known,
           Survives(asked[serving]), ~WantsRedirect(asked[serving]),
           WantsMonth(asked[serving]) =>
               asked[serving].month \in {""} \cup Range(MonthsOf[language])
    PROVE  Drawn(Page) /\ Page # Broken
<1>1. /\ serving \in Visitor
      /\ asked[serving] \in Request
      /\ family \in Families
  BY DEF SInv, Typing, Queue, Survives
<1>2. Page \in Drawing
  BY <1>1 DEF SInv, Typing, Page, Drawing
<1>3. /\ Page.request = asked[serving] /\ Page.family = family /\ Page.lang = language
  BY DEF Page
<1>4. Drawn(Page)
  BY <1>1, <1>3 DEF Drawn, Survives, WantsRedirect
<1>5. QED
  BY <1>2, <1>4, DistinctAssumption

\* The months that the search finds.
LEMMA FoundMonths ==
    ASSUME SInv, language \in Known
    PROVE  MonthAt(index) \in {""} \cup Range(MonthsOf[language])
<1>1. CASE index < Len(MonthsOf[language])
  <2>1. /\ index \in Nat
        /\ Len(MonthsOf[language]) \in Nat
        /\ DOMAIN MonthsOf[language] = 1..Len(MonthsOf[language])
    BY Bounds DEF SInv, Typing
  <2>2. index + 1 \in DOMAIN MonthsOf[language]
    BY <1>1, <2>1
  <2>3. QED
    BY <1>1, <2>2 DEF MonthAt, Range
<1>2. CASE ~(index < Len(MonthsOf[language]))
  BY <1>2 DEF MonthAt
<1>3. QED
  BY <1>1, <1>2

-----------------------------------------------------------------------------
\* Nothing is asked or drawn before the first request.
LEMMA InitSInv == Init => SInv
<1> SUFFICES ASSUME Init PROVE SInv
  OBVIOUS
<1>1. Typing
  <2>1. "gb" \in Lang
    BY ServerAssumption
  <2>2. 0 \in 0..Len(MonthsOf[DefaultLang]) + 1
    BY Bounds
  <2>3. <<>> \in Seq(Visitor)
    OBVIOUS
  <2>4. QED
    BY <2>1, <2>2, <2>3 DEF Init, Typing
<1>2. Queue /\ Progress
  BY DEF Init, Queue, Progress
<1>3. PagesAreDrawn
  BY DEF Init, PagesAreDrawn, Shown
<1>4. QED
  BY <1>1, <1>2, <1>3 DEF SInv

\* A visitor who asks joins the queue with a request.
LEMMA AskKeepsSInv ==
    ASSUME SInv, NEW v \in Visitor, NEW r, Ask(v, r)
    PROVE  SInv'
<1>1. /\ asked[v] = NIL
      /\ asked' = [asked EXCEPT ![v] = r]
      /\ backlog' = Append(backlog, v)
      /\ UNCHANGED <<family, language, reverse_name, view, serving, phase, index>>
  BY DEF Ask, globals
<1>2. r \in Request
  <2>1. CASE r \in Typed
    BY <2>1, ServerAssumption
  <2>2. CASE Shown(v) /\ r \in Offered(view[v])
    BY <2>2, LinksAreRequests DEF SInv, PagesAreDrawn
  <2>3. QED
    BY <2>1, <2>2 DEF Ask
<1>3. /\ asked' \in [Visitor -> Request \cup {NIL}]
      /\ asked'[v] = r
      /\ \A u \in Visitor : u # v => asked'[u] = asked[u]
  BY <1>1, <1>2 DEF SInv, Typing
<1>4. \A i \in 1..Len(backlog) : backlog[i] \in Visitor /\ backlog[i] # v
  BY <1>1 DEF SInv, Typing, Queue
<1>5. serving # v
  BY <1>1, DistinctAssumption DEF SInv, Queue
<1>6. /\ backlog' \in Seq(Visitor)
      /\ \A i \in 1..Len(backlog') :
            backlog'[i] = v \/ \E j \in 1..Len(backlog) : backlog'[i] = backlog[j]
      /\ \A i, j \in 1..Len(backlog') : backlog'[i] = backlog'[j] => i = j
  BY <1>1, <1>4, Joins DEF SInv, Typing, Queue
<1>7. Typing'
  BY <1>1, <1>3, <1>6 DEF SInv, Typing
<1>8. Queue'
  <2>1. r # NIL
    BY <1>2, DistinctAssumption
  <2>2. \A i \in 1..Len(backlog') : asked'[backlog'[i]] # NIL /\ backlog'[i] # serving
    BY <1>3, <1>4, <1>5, <1>6, <2>1 DEF SInv, Queue
  <2>3. serving # NIL => asked'[serving] # NIL
    BY <1>3, <1>5 DEF SInv, Queue, Typing
  <2>4. QED
    BY <1>1, <1>6, <2>2, <2>3 DEF Queue
<1>9. Progress'
  <2>1. CASE serving = NIL
    BY <1>1, <2>1 DEF SInv, Typing, Progress
  <2>2. CASE serving # NIL
    <3>1. asked'[serving] = asked[serving]
      BY <1>3, <1>5, <2>2 DEF SInv, Typing
    <3>2. QED
      BY <1>1, <3>1 DEF SInv, Progress, Survives
  <2>3. QED
    BY <2>1, <2>2
<1>10. PagesAreDrawn'
  BY <1>1 DEF SInv, PagesAreDrawn, Shown
<1>11. QED
  BY <1>7, <1>8, <1>9, <1>10 DEF SInv

\* The process takes the first of the queue, who has asked.
LEMMA AcceptKeepsSInv ==
    ASSUME SInv, Accept
    PROVE  SInv'
<1>1. /\ backlog # <<>>
      /\ serving' = Head(backlog)
      /\ backlog' = Tail(backlog)
      /\ phase' = "parameters"
      /\ UNCHANGED <<family, language, reverse_name, asked, view, index>>
  BY DEF Accept, globals
<1>2. /\ serving' \in Visitor
      /\ 1 \in 1..Len(backlog) /\ serving' = backlog[1]
      /\ backlog' \in Seq(Visitor)
      /\ \A i \in 1..Len(backlog') : /\ i + 1 \in 1..Len(backlog)
                                     /\ backlog'[i] = backlog[i + 1]
                                     /\ backlog'[i] # serving'
      /\ \A i, j \in 1..Len(backlog') : backlog'[i] = backlog'[j] => i = j
  BY <1>1, Leaves, SMTT(30) DEF SInv, Typing, Queue
<1>3. Typing'
  BY <1>1, <1>2, DistinctAssumption DEF SInv, Typing
<1>4. Queue'
  <2>1. \A i \in 1..Len(backlog) : asked[backlog[i]] # NIL
    BY DEF SInv, Queue
  <2>2. asked[serving'] # NIL
    BY <1>2, <2>1
  <2>3. ASSUME NEW i \in 1..Len(backlog')
        PROVE  asked[backlog'[i]] # NIL /\ backlog'[i] # serving'
    <3>1. i + 1 \in 1..Len(backlog) /\ backlog'[i] = backlog[i + 1] /\ backlog'[i] # serving'
      BY <1>2
    <3>2. asked[backlog[i + 1]] # NIL
      BY <2>1, <3>1
    <3>3. QED
      BY <3>1, <3>2
  <2>4. asked' = asked
    BY <1>1
  <2>5. \A i, j \in 1..Len(backlog') : backlog'[i] = backlog'[j] => i = j
    BY <1>2
  <2>6. QED
    BY <2>2, <2>3, <2>4, <2>5 DEF Queue
<1>5. Progress'
  BY <1>1 DEF Progress
<1>6. PagesAreDrawn'
  BY <1>1 DEF SInv, PagesAreDrawn, Shown
<1>7. QED
  BY <1>3, <1>4, <1>5, <1>6 DEF SInv

\* The address of a redirection is a request.
LEMMA RedirectionType ==
    ASSUME SInv, Redirect
    PROVE  Pasted([Address EXCEPT !.script = "person_page",
                                  !.target = asked[serving].target,
                                  !.lang = language]) \in Request
<1> DEFINE to == [Address EXCEPT !.script = "person_page",
                                 !.target = asked[serving].target, !.lang = language]
<1>1. /\ asked[serving].target \in family.stored
      /\ family \in Families
      /\ language \in Lang
  BY DEF SInv, Typing, Redirect, Survives, WantsRedirect
<1>2. asked[serving].target \in Id
  BY <1>1, ServerAssumption DEF Family
<1>3. to \in Request /\ to.target \in Id
  BY <1>1, <1>2 DEF Address, Request
<1> HIDE DEF to
<1>4. Pasted(to) \in Request
  BY <1>3, PastedType
<1>5. QED
  BY <1>4 DEF to

\* A redirection puts the one that is served at the end of the queue.
LEMMA RedirectKeepsSInv ==
    ASSUME SInv, Redirect
    PROVE  SInv'
<1> DEFINE r == asked[serving]
           to == Pasted([Address EXCEPT !.script = "person_page", !.target = r.target,
                                        !.lang = language])
<1>1. /\ serving \in Visitor
      /\ r \in Request
  BY DEF SInv, Typing, Queue, Redirect
<1>2. /\ asked' = [asked EXCEPT ![serving] = to]
      /\ backlog' = Append(backlog, serving)
      /\ serving' = NIL /\ phase' = "idle"
      /\ UNCHANGED <<family, language, reverse_name, view, index>>
  BY DEF Redirect, globals
<1>3. to \in Request
  BY RedirectionType
<1> HIDE DEF to, r
<1>4. /\ asked' \in [Visitor -> Request \cup {NIL}]
      /\ asked'[serving] # NIL
      /\ \A u \in Visitor : u # serving => asked'[u] = asked[u]
  BY <1>1, <1>2, <1>3, DistinctAssumption DEF SInv, Typing
<1>5. \A i \in 1..Len(backlog) : backlog[i] \in Visitor /\ backlog[i] # serving
  BY DEF SInv, Typing, Queue
<1>6. /\ backlog' \in Seq(Visitor)
      /\ \A i \in 1..Len(backlog') :
            backlog'[i] = serving \/ \E j \in 1..Len(backlog) : backlog'[i] = backlog[j]
      /\ \A i, j \in 1..Len(backlog') : backlog'[i] = backlog'[j] => i = j
  BY <1>1, <1>2, <1>5, Joins DEF SInv, Typing, Queue
<1>7. Typing'
  BY <1>2, <1>4, <1>6 DEF SInv, Typing
<1>8. Queue'
  <2>1. \A i \in 1..Len(backlog') : backlog'[i] \in Visitor /\ asked'[backlog'[i]] # NIL
    BY <1>1, <1>4, <1>5, <1>6 DEF SInv, Queue
  <2>2. QED
    BY <1>2, <1>6, <2>1, DistinctAssumption DEF Queue
<1>9. Progress'
  BY <1>2 DEF Progress
<1>10. PagesAreDrawn'
  BY <1>2 DEF SInv, PagesAreDrawn, Shown
<1>11. QED
  BY <1>7, <1>8, <1>9, <1>10 DEF SInv

\* The steps inside a request touch neither visitors nor pages.
LEMMA InsideKeepsSInv ==
    ASSUME SInv, serving # NIL,
           UNCHANGED <<family, backlog, asked, view, serving>>,
           language' \in Lang, reverse_name' \in BOOLEAN,
           phase' \in {"checks", "month"},
           index' \in 0..Len(MonthsOf[DefaultLang]) + 1,
           language' = LangOf(asked[serving]),
           phase' = "month" => /\ language' = language
                               /\ Survives(asked[serving])
                               /\ WantsMonth(asked[serving])
    PROVE  SInv'
<1>1. Typing'
  BY DEF SInv, Typing
<1>2. Queue'
  BY DEF SInv, Queue
<1>3. Progress'
  BY DEF SInv, Progress, Survives
<1>4. PagesAreDrawn'
  BY DEF SInv, PagesAreDrawn, Shown
<1>5. QED
  BY <1>1, <1>2, <1>3, <1>4 DEF SInv

\* Every step of visitors, editors and the process keeps the invariant.
LEMMA StepKeepsSInv ==
    ASSUME SInv, [Next]_vars
    PROVE  SInv'
<1>1. /\ language \in Lang /\ reverse_name \in BOOLEAN
      /\ index \in 0..Len(MonthsOf[DefaultLang]) + 1
      /\ serving # NIL => asked[serving] \in Request
      /\ phase # "idle" <=> serving # NIL
  BY DEF SInv, Typing, Queue
<1>2. ASSUME NEW v \in Visitor, NEW r, Ask(v, r)
      PROVE  SInv'
  BY <1>2, AskKeepsSInv
<1>3. ASSUME NEW f \in Families \cup {NIL}, EditFile(f)
      PROVE  SInv'
  <2>1. /\ serving = NIL /\ phase = "idle"
        /\ family' = f
        /\ UNCHANGED <<language, reverse_name, backlog, asked, view, serving, phase, index>>
    BY <1>1, <1>3 DEF EditFile, globals
  <2>2. Typing' /\ Queue' /\ Progress' /\ PagesAreDrawn'
    BY <2>1 DEF SInv, Typing, Queue, Progress, PagesAreDrawn, Shown
  <2>3. QED
    BY <2>2 DEF SInv
<1>4. CASE Accept
  BY <1>4, AcceptKeepsSInv
<1>5. CASE ProcessParameters
  <2>1. /\ serving # NIL
        /\ language' = LangOf(asked[serving])
        /\ reverse_name' = Reversal(LangOf(asked[serving]))
        /\ phase' = "checks"
        /\ UNCHANGED <<family, backlog, asked, view, serving, index>>
    BY <1>1, <1>5 DEF ProcessParameters
  <2>2. language' \in Lang
    BY <1>1, <2>1, Languages
  <2>3. reverse_name' \in BOOLEAN
    BY <1>1, <2>1 DEF Reversal
  <2>4. QED
    BY <1>1, <2>1, <2>2, <2>3, InsideKeepsSInv
<1>6. CASE FailToLoad
  BY <1>1, <1>6, ReplyKeepsSInv DEF FailToLoad
<1>7. CASE Fail
  BY <1>1, <1>7, ReplyKeepsSInv DEF Fail
<1>8. CASE Draw
  <2>1. /\ serving # NIL /\ phase = "checks"
        /\ Survives(asked[serving])
        /\ ~WantsMonth(asked[serving]) /\ ~WantsRedirect(asked[serving])
        /\ Reply(Page)
    BY <1>1, <1>8 DEF Draw
  <2>2. language \in Known
    BY <2>1 DEF SInv, Progress, Survives
  <2>3. Drawn(Page)
    BY <2>1, <2>2, SurvivorsAreDrawn
  <2>4. QED
    BY <2>1, <2>3, ReplyKeepsSInv
<1>9. CASE Redirect
  BY <1>9, RedirectKeepsSInv
<1>10. CASE SearchMonth
  <2>1. /\ serving # NIL /\ phase = "checks" /\ phase' = "month"
        /\ Survives(asked[serving]) /\ WantsMonth(asked[serving])
        /\ index' = 0
        /\ UNCHANGED <<family, language, reverse_name, backlog, asked, view, serving>>
    BY <1>1, <1>10 DEF SearchMonth, FirstIndex, globals
  <2>2. language = LangOf(asked[serving])
    BY <2>1 DEF SInv, Progress
  <2>3. 0 \in 0..Len(MonthsOf[DefaultLang]) + 1
    BY Bounds
  <2>4. QED
    BY <1>1, <2>1, <2>2, <2>3, InsideKeepsSInv
<1>11. CASE NextMonth
  <2>1. /\ serving # NIL /\ phase = "month" /\ phase' = "month"
        /\ index' = IF index =< Len(MonthsOf[DefaultLang]) THEN index + 1 ELSE index
        /\ UNCHANGED <<family, language, reverse_name, backlog, asked, view, serving>>
    BY <1>1, <1>11 DEF NextMonth, globals
  <2>2. /\ language = LangOf(asked[serving])
        /\ Survives(asked[serving]) /\ WantsMonth(asked[serving])
    BY <2>1 DEF SInv, Progress
  <2>3. index' \in 0..Len(MonthsOf[DefaultLang]) + 1
    BY <1>1, <2>1, Bounds
  <2>4. QED
    BY <1>1, <2>1, <2>2, <2>3, InsideKeepsSInv
<1>12. CASE FindMonth
  <2>1. /\ serving # NIL /\ phase = "month"
        /\ MonthAt(index) = asked[serving].month
        /\ Reply(IF language \in Known THEN Page ELSE Broken)
    BY <1>1, <1>12 DEF FindMonth
  <2>2. Survives(asked[serving]) /\ ~WantsRedirect(asked[serving])
    BY <2>1 DEF SInv, Progress, WantsMonth, WantsRedirect
  <2>3. CASE language \in Known
    <3>1. asked[serving].month \in {""} \cup Range(MonthsOf[language])
      BY <2>1, <2>3, FoundMonths
    <3>2. Drawn(Page)
      BY <2>1, <2>2, <2>3, <3>1, SurvivorsAreDrawn
    <3>3. QED
      BY <2>1, <2>3, <3>2, ReplyKeepsSInv
  <2>4. CASE language \notin Known
    BY <2>1, <2>4, ReplyKeepsSInv
  <2>5. QED
    BY <2>3, <2>4
<1>13. CASE UNCHANGED vars
  <2>1. UNCHANGED <<family, language, reverse_name, backlog, asked, view, serving,
                    phase, index>>
    BY <1>13 DEF vars, globals
  <2>2. Typing' /\ Queue' /\ Progress' /\ PagesAreDrawn'
    BY <2>1 DEF SInv, Typing, Queue, Progress, PagesAreDrawn, Shown, Survives
  <2>3. QED
    BY <2>2 DEF SInv
<1>14. QED
  BY <1>2, <1>3, <1>4, <1>5, <1>6, <1>7, <1>8, <1>9, <1>10, <1>11, <1>12, <1>13
     DEF Next, Serve

\* The invariant of the process, of its visitors and of their pages.
LEMMA SInvIsInvariant == Spec => []SInv
BY InitSInv, StepKeepsSInv, PTL DEF Spec

-----------------------------------------------------------------------------
\* Types, and that whoever looks at a page looks at one in a known language.
THEOREM TypeCorrect == Spec => []TypeOK
<1>1. SInv => TypeOK
  BY DEF SInv, Typing, PagesAreDrawn, Drawn, TypeOK
<1>2. QED
  BY <1>1, SInvIsInvariant, PTL

\* No link but a flag of the birthday page itself can make the process search
\* for a month without end, whatever anybody asked before.
THEOREM OnlyFlagsEverLoseMonths == Spec => []OnlyFlagsLoseMonths
<1>1. ASSUME SInv, LostMonth, Shown(serving), asked[serving] \in Offered(view[serving])
      PROVE  /\ asked[serving] \in Chooser(view[serving])
             /\ language # view[serving].lang
  <2> DEFINE r == asked[serving]
             page == view[serving]
  <2>1. /\ phase = "month"
        /\ r.month # ""
        /\ language \in Known => r.month \notin Range(MonthsOf[language])
    BY <1>1 DEF LostMonth
  <2>2. /\ serving \in Visitor
        /\ Drawn(page)
        /\ language = LangOf(r)
        /\ WantsMonth(r)
    BY <1>1, <2>1 DEF SInv, Typing, Progress, PagesAreDrawn
  <2>3. page.lang \in Known
    BY <2>2 DEF Drawn
  <2> HIDE DEF r, page
  <2>4. ASSUME r \notin Chooser(page)
        PROVE  FALSE
    <3>1. r.month # NIL
      BY <2>2 DEF WantsMonth
    <3>2. r \notin Menu(page.lang) /\ r \notin SurnameLinks(page)
      BY <3>1 DEF Menu, SurnameLinks, Address
    <3>3. r \notin PeopleLinks(page)
      <4> SUFFICES ASSUME r \in PeopleLinks(page) PROVE FALSE
        OBVIOUS
      <4>1. PICK p \in Id, n \in 0..MaxLevels : r = PersonLink(p, n, page.lang)
        BY <2>2, LinksReach DEF PeopleLinks
      <4>2. page.lang \in Lang
        BY <2>3, Languages
      <4>3. QED
        BY <3>1, <4>1, <4>2, PersonLinkType
    <3>4. r \in MonthForm(page)
      BY <1>1, <2>4, <3>2, <3>3 DEF Offered, r, page
    <3>5. r.month \in Range(MonthsOf[page.lang]) /\ r.lang = page.lang
      BY <3>4 DEF MonthForm, Address
    <3>6. language = page.lang
      BY <2>2, <2>3, <3>5, Languages DEF LangOf
    <3>7. QED
      BY <2>1, <2>3, <3>5, <3>6
  <2>5. ASSUME r \in Chooser(page), language = page.lang
        PROVE  FALSE
    <3>1. /\ r.script = page.request.script
          /\ r.type \in {page.request.type, NIL}
          /\ r.month \in {page.request.month, NIL}
      BY <2>2, <2>5, FlagsAreRequests
    <3>2. r.month # NIL /\ r.type = "bdays"
      BY <2>2 DEF WantsMonth
    <3>3. r.month = page.request.month
      BY <3>1, <3>2
    <3>4. r.type = page.request.type
      BY <3>1, <3>2, DistinctAssumption DEF Type
    <3>5. WantsMonth(page.request)
      BY <2>2, <3>1, <3>2, <3>3, <3>4 DEF WantsMonth, Handler
    <3>6. r.month \in {""} \cup Range(MonthsOf[page.lang])
      BY <2>2, <3>3, <3>5 DEF Drawn
    <3>7. QED
      BY <2>1, <2>3, <2>5, <3>6
  <2>6. QED
    BY <2>4, <2>5 DEF r, page
<1>2. SInv => OnlyFlagsLoseMonths
  BY <1>1 DEF OnlyFlagsLoseMonths
<1>3. QED
  BY <1>2, SInvIsInvariant, PTL

-----------------------------------------------------------------------------
\* Who gets an answer is the one that is served, and the answer ends it.
LEMMA AnswersAreReplies ==
    ASSUME SInv, [Next]_vars, NEW v \in Visitor, Answered(v)
    PROVE  /\ v = serving
           /\ FailToLoad \/ Fail \/ Draw \/ FindMonth
<1>1. /\ asked \in [Visitor -> Request \cup {NIL}]
      /\ asked[v] # NIL /\ asked'[v] = NIL
      /\ serving \in Visitor \cup {NIL}
  BY DEF SInv, Typing, Answered
<1>2. ASSUME NEW what, serving # NIL, Reply(what)
      PROVE  v = serving
  BY <1>1, <1>2 DEF Reply
<1>3. ASSUME NEW u \in Visitor, NEW r, Ask(u, r)
      PROVE  FALSE
  <2>1. asked[u] = NIL /\ asked' = [asked EXCEPT ![u] = r]
    BY <1>3 DEF Ask
  <2>2. QED
    BY <1>1, <2>1
<1>4. CASE asked' = asked
  BY <1>1, <1>4
<1>5. CASE Redirect
  <2> DEFINE to == Pasted([Address EXCEPT !.script = "person_page",
                                          !.target = asked[serving].target,
                                          !.lang = language])
  <2>1. serving \in Visitor
    BY <1>5 DEF Redirect, SInv, Typing
  <2>2. asked' = [asked EXCEPT ![serving] = to]
    BY <1>5 DEF Redirect
  <2>3. to \in Request
    BY <1>5, RedirectionType
  <2>4. to # NIL /\ asked' = [asked EXCEPT ![serving] = to]
    BY <2>2, <2>3, DistinctAssumption
  <2> HIDE DEF to
  <2>5. QED
    BY <1>1, <2>1, <2>4
<1>6. CASE FailToLoad \/ Fail \/ Draw \/ FindMonth
  <2>1. serving # NIL /\ \E what : Reply(what)
    BY <1>6 DEF SInv, Typing, FailToLoad, Fail, Draw, FindMonth
  <2>2. QED
    BY <1>2, <1>6, <2>1
<1>7. ASSUME NEW f, EditFile(f)
      PROVE  asked' = asked
  BY <1>7 DEF EditFile
<1>8. Accept \/ ProcessParameters \/ SearchMonth \/ NextMonth => asked' = asked
  BY DEF Accept, ProcessParameters, SearchMonth, NextMonth
<1>9. UNCHANGED vars => asked' = asked
  BY DEF vars
<1>10. QED
  BY <1>3, <1>4, <1>5, <1>6, <1>7, <1>8, <1>9 DEF Next, Serve

\* An answer in a known language to a request that passed the checks is a page.
LEMMA AnswersOfSurvivors ==
    ASSUME SInv, Draw \/ FindMonth, language \in Known
    PROVE  Reply(Page) /\ Page # Broken
<1>1. CASE Draw
  BY <1>1, SurvivorsAreDrawn DEF Draw
<1>2. CASE FindMonth
  <2>1. /\ phase = "month"
        /\ MonthAt(index) = asked[serving].month
        /\ Reply(Page)
    BY <1>2 DEF FindMonth
  <2>2. Survives(asked[serving]) /\ ~WantsRedirect(asked[serving])
    BY <2>1 DEF SInv, Progress, WantsMonth, WantsRedirect
  <2>3. asked[serving].month \in {""} \cup Range(MonthsOf[language])
    BY <2>1, FoundMonths
  <2>4. QED
    BY <2>1, <2>2, <2>3, SurvivorsAreDrawn
<1>3. QED
  BY <1>1, <1>2

\* The links that are not doubtful pass every check while the file is the one
\* their page was drawn from.
LEMMA GoodLinksSurvive ==
    ASSUME NEW page, Drawn(page), family = page.family,
           NEW r \in Offered(page) \ Doubtful(page)
    PROVE  Survives(r)
<1>1. /\ family # NIL
      /\ r \in Request
      /\ LangOf(r) \in Known
  BY LinksAreRequests, DistinctAssumption DEF Drawn
<1>2. Password \in Passwd /\ Password # NIL
  BY ServerAssumption, DistinctAssumption
<1>3. r \notin Garbled(page)
  BY DEF Doubtful
<1>4. /\ Handler(r) # "FamilyTreeInfo" => r.target \in family.stored
      /\ ~Refused(r)
      /\ Handler(r) = "FamilyTreeInfo" => r.type # "other"
      /\ ~DrawingDies(family, r)
  <2>1. CASE r \in Menu(page.lang)
    <3>1. PICK t \in Listed :
             r = [Address EXCEPT !.type = t, !.passwd = Password, !.lang = page.lang]
      BY <2>1 DEF Menu
    <3>2. /\ r.script = "ftree" /\ r.type = t /\ r.passwd = Password
          /\ t \in {"", "snames", "bdays"}
      BY <3>1, ServerAssumption DEF Address
    <3>3. Handler(r) = "FamilyTreeInfo"
      BY <3>2 DEF Handler
    <3>4. QED
      BY <1>2, <3>2, <3>3 DEF Refused, PasswdOf, DrawingDies
  <2>2. CASE r \in SurnameLinks(page) \cup MonthForm(page)
    <3>1. r.script = "ftree" /\ r.type \in {"subfamily", "bdays"}
      BY <2>2 DEF SurnameLinks, MonthForm, Address
    <3>2. ~PasswordReq
      BY <2>2 DEF Doubtful
    <3>3. Handler(r) = "FamilyTreeInfo"
      BY <3>1 DEF Handler
    <3>4. QED
      BY <3>1, <3>2, <3>3 DEF Refused, DrawingDies
  <2>3. CASE r \in Chooser(page) /\ page.request.target \notin Misread
    <3>1. PICK l \in Known : r = [page.request EXCEPT !.lang = l]
      BY <2>3, FlagsKeepTheRest
    <3>2. page.request \in Request
      BY DEF Drawn
    <3>3. /\ r.script = page.request.script /\ r.type = page.request.type
          /\ r.passwd = page.request.passwd /\ r.target = page.request.target
          /\ r.levels = page.request.levels
      BY <3>1, <3>2 DEF Request
    <3>4. /\ Handler(r) = Handler(page.request)
          /\ LevelsOf(r) = LevelsOf(page.request)
          /\ Refused(r) <=> Refused(page.request)
      BY <3>3 DEF Handler, LevelsOf, Refused, PasswdOf
    <3>5. DrawingDies(family, r) <=> DrawingDies(page.family, page.request)
      BY <3>3, <3>4 DEF DrawingDies
    <3>6. QED
      BY <3>3, <3>4, <3>5 DEF Drawn
  <2>4. CASE r \in LinksTo(page, Id \ Misread)
    <3>1. PICK p \in page.family.stored \cap (Id \ Misread), n \in 0..MaxLevels :
             r = PersonLink(p, n, page.lang)
      BY <2>4, LinksReach
    <3>2. p \in Id /\ p \notin Misread /\ page.lang \in Lang
      BY <3>1, Languages DEF Drawn
    <3>3. /\ r.target = p /\ r.passwd = Password
          /\ r.script = "ftree" => r.type = "tree"
      BY <3>1, <3>2, PersonLinkType
    <3>4. Handler(r) # "FamilyTreeInfo"
      BY <1>1, <3>3 DEF Handler, Request
    <3>5. ~DrawingDies(family, r)
      <4>1. r \in PeopleLinks(page)
        BY <2>4 DEF PeopleLinks, LinksTo
      <4>2. QED
        BY <4>1 DEF Doubtful
    <3>6. QED
      BY <1>2, <3>1, <3>3, <3>4, <3>5 DEF Refused, PasswdOf
  <2>5. QED
    BY <1>3, <2>1, <2>2, <2>3, <2>4, SoundLinks
<1>5. QED
  BY <1>1, <1>4 DEF Survives

\* Every link but the flags, unless an id spoils it, leads to a page in the
\* language of the page it is on, whatever the requests of other visitors set
\* in between.
THEOREM LinksAlwaysKeepTheLanguage == Spec => LinksKeepTheLanguage
<1>1. ASSUME SInv, [Next]_vars, NEW v \in Visitor, Answered(v), Shown(v),
             asked[v] \in Offered(view[v]) \ (Chooser(view[v]) \cup Garbled(view[v])),
             view'[v] # Broken
      PROVE  view'[v].lang = view[v].lang
  <2>1. v = serving /\ (FailToLoad \/ Fail \/ Draw \/ FindMonth)
    BY <1>1, AnswersAreReplies
  <2>2. view = [u \in Visitor |-> view[u]]
    BY <1>1 DEF SInv, Typing
  <2>3. ASSUME NEW what, Reply(what)
        PROVE  view'[v] = what
    BY <1>1, <2>1, <2>2, <2>3 DEF Reply
  <2>4. phase \in {"checks", "month"} /\ view'[v] = Page
    BY <1>1, <2>1, <2>3 DEF FailToLoad, Fail, Draw, FindMonth
  <2>5. Page.lang = LangOf(asked[v])
    BY <1>1, <2>1, <2>4 DEF SInv, Progress, Page
  <2>6. Drawn(view[v])
    BY <1>1 DEF SInv, PagesAreDrawn
  <2>7. asked[v].lang = view[v].lang /\ view[v].lang # NIL
    BY <1>1, <2>6, LinksCarryTheLanguage, Languages DEF Drawn
  <2>8. QED
    BY <2>4, <2>5, <2>7 DEF LangOf
<1> DEFINE A == \A v \in Visitor :
                   /\ Answered(v)
                   /\ Shown(v)
                   /\ asked[v] \in Offered(view[v]) \ (Chooser(view[v]) \cup Garbled(view[v]))
                   /\ view'[v] # Broken
                   => view'[v].lang = view[v].lang
<1>2. SInv /\ [Next]_vars => A
  BY <1>1
<1> HIDE DEF A
<1>3. Spec => [][A]_vars
  BY <1>2, SInvIsInvariant, PTL DEF Spec
<1>4. QED
  BY <1>3 DEF LinksKeepTheLanguage, A

\* A link that is not doubtful, followed while the file is as it was, leads to
\* a page and never to an internal error: none of those to a page that dies of
\* somebody without a name, a first name or a parent, none that an id spoils,
\* and with a password none of the two kinds that leave it off.
THEOREM LinksAlwaysLeadToPages == Spec => LinksLeadToPages
<1>1. ASSUME SInv, [Next]_vars, NEW v \in Visitor, Answered(v), Shown(v),
             family = view[v].family,
             asked[v] \in Offered(view[v]) \ Doubtful(view[v])
      PROVE  view'[v] # Broken
  <2>1. v = serving /\ (FailToLoad \/ Fail \/ Draw \/ FindMonth)
    BY <1>1, AnswersAreReplies
  <2>2. Drawn(view[v])
    BY <1>1 DEF SInv, PagesAreDrawn
  <2>3. /\ Survives(asked[v])
        /\ LangOf(asked[v]) \in Known
    BY <1>1, <2>2, GoodLinksSurvive, LinksAreRequests
  <2>4. Draw \/ FindMonth
    BY <2>1, <2>3 DEF FailToLoad, Fail, Survives
  <2>5. language \in Known
    BY <1>1, <2>1, <2>3, <2>4 DEF SInv, Progress, Draw, FindMonth
  <2>6. Reply(Page) /\ Page # Broken
    BY <1>1, <2>4, <2>5, AnswersOfSurvivors
  <2>7. view'[v] = Page
    BY <1>1, <2>1, <2>6 DEF Reply, SInv, Typing
  <2>8. QED
    BY <2>6, <2>7
<1> DEFINE A == \A v \in Visitor :
                   /\ Answered(v)
                   /\ Shown(v)
                   /\ family = view[v].family
                   /\ asked[v] \in Offered(view[v]) \ Doubtful(view[v])
                   => view'[v] # Broken
<1>2. SInv /\ [Next]_vars => A
  BY <1>1
<1> HIDE DEF A
<1>3. Spec => [][A]_vars
  BY <1>2, SInvIsInvariant, PTL DEF Spec
<1>4. QED
  BY <1>3 DEF LinksLeadToPages, A

-----------------------------------------------------------------------------
\* From the parameters on, a request in a reversing language is drawn with the
\* global set, and every such page in view was drawn so.
Reversed == phase \in {"checks", "month"} /\ language \in Reversing => reverse_name

RInv == /\ view = [v \in Visitor |-> view[v]]
        /\ Reversed
        /\ HungarianNamesAreReversed

\* An answer keeps the invariant: it is an error or drawn from the globals.
LEMMA ReplyKeepsRInv ==
    ASSUME RInv, NEW what, what \in {Page, Broken}, Reply(what),
           phase \in {"checks", "month"} \/ what = Broken
    PROVE  RInv'
<1>1. view' = [v \in Visitor |-> view'[v]]
  BY DEF RInv, Reply
<1>2. Reversed'
  BY DEF Reply, Reversed
<1>3. HungarianNamesAreReversed'
  <2> SUFFICES ASSUME NEW v \in Visitor, Shown(v)', view'[v].lang \in Reversing
               PROVE  view'[v].reversed
    BY DEF HungarianNamesAreReversed, Reply
  <2>1. CASE v # serving
    <3>1. view'[v] = view[v]
      BY <2>1 DEF RInv, Reply
    <3> QED BY <3>1 DEF RInv, HungarianNamesAreReversed, Shown
  <2>2. CASE v = serving
    <3>1. view'[v] = what
      BY <2>2 DEF RInv, Reply
    <3>2. what = Page
      BY <3>1 DEF Shown
    <3> QED BY <3>1, <3>2 DEF Shown, Page, RInv, Reversed
  <2> QED BY <2>1, <2>2
<1> QED BY <1>1, <1>2, <1>3 DEF RInv

\* A Hungarian page has the last names first, whatever requests of whichever
\* visitors the process has served before: getTextGenerator sets the order of
\* names in every request of the language.
THEOREM HungarianNamesAreAlwaysReversed == Spec => []HungarianNamesAreReversed
<1>1. Init => RInv
  BY DEF Init, RInv, Reversed, HungarianNamesAreReversed, Shown
<1>2. ASSUME RInv, [Next]_vars
      PROVE  RInv'
  <2>1. ASSUME NEW v \in Visitor, NEW r, Ask(v, r)
        PROVE  RInv'
    BY <1>2, <2>1 DEF Ask, globals, RInv, Reversed, HungarianNamesAreReversed, Shown
  <2>2. ASSUME NEW f \in Families \cup {NIL}, EditFile(f)
        PROVE  RInv'
    BY <1>2, <2>2 DEF EditFile, globals, RInv, Reversed, HungarianNamesAreReversed, Shown
  <2>3. CASE Accept
    BY <1>2, <2>3 DEF Accept, globals, RInv, Reversed, HungarianNamesAreReversed, Shown
  <2>4. CASE ProcessParameters
    BY <1>2, <2>4 DEF ProcessParameters, Reversal, RInv, Reversed,
                      HungarianNamesAreReversed, Shown
  <2>5. CASE FailToLoad
    BY <1>2, <2>5, ReplyKeepsRInv DEF FailToLoad
  <2>6. CASE Fail
    BY <1>2, <2>6, ReplyKeepsRInv DEF Fail
  <2>7. CASE Draw
    BY <1>2, <2>7, ReplyKeepsRInv DEF Draw
  <2>8. CASE Redirect
    BY <1>2, <2>8 DEF Redirect, globals, RInv, Reversed, HungarianNamesAreReversed, Shown
  <2>9. CASE SearchMonth
    BY <1>2, <2>9 DEF SearchMonth, globals, RInv, Reversed, HungarianNamesAreReversed, Shown
  <2>10. CASE NextMonth
    BY <1>2, <2>10 DEF NextMonth, globals, RInv, Reversed, HungarianNamesAreReversed, Shown
  <2>11. CASE FindMonth
    BY <1>2, <2>11, ReplyKeepsRInv DEF FindMonth
  <2>12. CASE UNCHANGED vars
    BY <1>2, <2>12 DEF vars, globals, RInv, Reversed, HungarianNamesAreReversed, Shown
  <2> QED
    BY <1>2, <2>1, <2>2, <2>3, <2>4, <2>5, <2>6, <2>7, <2>8, <2>9, <2>10,
       <2>11, <2>12 DEF Next, Serve
<1>3. RInv => HungarianNamesAreReversed
  BY DEF RInv
<1> QED BY <1>1, <1>2, <1>3, PTL DEF Spec
=============================================================================
