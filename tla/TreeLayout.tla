----------------------------- MODULE TreeLayout -----------------------------
(***************************************************************************)
(* The tree page (lib/FamilyTreeGraphics.pm): a table drawn around a       *)
(* target person from three parts that are measured by one family of       *)
(* functions, filled by another and printed by a third: the ancestors      *)
(* (ATree), the row of peers, and the descendants (DTree).  What is        *)
(* modelled is who stands in which row, how many cells everybody takes,    *)
(* which pictures join the rows, and the zoom button; not the HTML.        *)
(***************************************************************************)
EXTENDS PersonRelations

CONSTANTS
    unknown_male, unknown_female,   \* the two static persons of Person.pm
    Levels                          \* the levels a request asks for

ASSUME LevelsAssumption == Levels \subseteq Nat \ {0}

Unknown == {unknown_male, unknown_female}

ASSUME UnknownAssumption ==
    unknown_male # unknown_female /\ Unknown \cap (ID \cup {NIL}) = {}

\* Whom a row of the page can hold.
Drawable == Known \cup Unknown

\* The unknown persons have no children, and each other as parents.
Children(p) == IF p \in Unknown THEN <<>> ELSE people[p].children
Father(p) == IF p \in Unknown THEN unknown_male ELSE people[p].father
Mother(p) == IF p \in Unknown THEN unknown_female ELSE people[p].mother

\* $width += ... for the cells of a row.
Total(s) ==
    LET sum[n \in 0..Len(s)] == IF n = 0 THEN 0 ELSE sum[n - 1] + s[n]
    IN sum[Len(s)]
-----------------------------------------------------------------------------
\* How many levels of ancestors there are above p, at most req; of the code's
\* two counters n is what is left of the levels.
\* (Mutants: only the father's side is climbed; nobody asks whether there are
\* parents.)
getATreeLevelsOfFathers(p, req) ==
    LET levels[n \in Nat] == [q \in Known \cup {NIL} |->
            IF n = 0 \/ q = NIL \/ people[q].father = NIL THEN 0
            ELSE 1 + levels[n - 1][people[q].father]]
    IN levels[req][p]
getATreeLevelsAll(p, req) == req

getATreeLevels(p, req) ==
    LET levels[n \in Nat] == [q \in Known \cup {NIL} |->
            IF n = 0 \/ q = NIL \/ Parents(q) = {} THEN 0
            ELSE 1 + Max({levels[n - 1][people[q].father],
                          levels[n - 1][people[q].mother]})]
    IN levels[req][p]

getATreeWidth(levels) ==
    LET width[n \in Nat] == IF n = 0 THEN 1 ELSE 2 * width[n - 1]
    IN width[levels]

\* The couple above p: a missing parent is one of the unknown persons, so
\* that every row is full.
Over(p) == <<IF Father(p) = NIL THEN unknown_male ELSE Father(p),
             IF Mother(p) = NIL THEN unknown_female ELSE Mother(p)>>

\* fillATree: the n rows above p, the nearest first.
fillATree(p, n) ==
    LET rows[m \in Nat] == [q \in Drawable |->
            IF m = 0 THEN <<>>
            ELSE <<Over(q)>>
                 \o [k \in 1..(m - 1) |->
                        rows[m - 1][Over(q)[1]][k] \o rows[m - 1][Over(q)[2]][k]]]
    IN rows[n][p]

\* getDTreeWidth: the cells p takes when n levels are drawn below it.
\* (getDTreeWidthLoose is a mutant: somebody without children takes none.)
getDTreeWidthLoose(n, p) ==
    LET width[m \in Nat] == [q \in Drawable |->
            IF m = 0 THEN 1
            ELSE Total([i \in DOMAIN Children(q) |-> width[m - 1][Children(q)[i]]])]
    IN width[n][p]

getDTreeWidth(n, p) ==
    LET width[m \in Nat] == [q \in Drawable |->
            IF m = 0 \/ Children(q) = <<>> THEN 1
            ELSE Total([i \in DOMAIN Children(q) |-> width[m - 1][Children(q)[i]]])]
    IN width[n][p]

\* Who is drawn below p: the unknown woman fills the place below somebody
\* without children, and the places below her.
Under(p) == IF Children(p) = <<>> THEN <<unknown_female>> ELSE Children(p)

\* fillDTree: the n rows below p, the nearest first.
fillDTree(p, n) ==
    LET rows[m \in Nat] == [q \in Drawable |->
            IF m = 0 THEN <<>>
            ELSE <<Under(q)>>
                 \o [k \in 1..(m - 1) |->
                        FlattenSeq([i \in DOMAIN Under(q) |-> rows[m - 1][Under(q)[i]][k]])]]
    IN rows[n][p]

\* $self->{DLevels} once the tree is filled: the last row with a known person,
\* which is the last row that is drawn.
DLevels(rows) == Max({0} \cup {k \in DOMAIN rows : ToSet(rows[k]) \notin SUBSET Unknown})
-----------------------------------------------------------------------------
\* first_index: 0-based, -1 when the target is not among its peers.
NodePos(p) == SelectInSeq(get_peers(p), LAMBDA q : q = p) - 1

\* (getPTreeWidthLeft is a mutant: only the left side is measured.)
getPTreeWidthLeft(p) == NodePos(p) * 2 + 1

getPTreeWidth(p) ==
    LET right_side == Len(get_peers(p)) - 1 - NodePos(p)
    IN Max({NodePos(p), right_side}) * 2 + 1

\* _draw_familytree_page: the measures of the page of p.
gridWidth(p, req) ==
    Max({getATreeWidth(getATreeLevels(p, req)), getPTreeWidth(p), getDTreeWidth(req, p)})

\* drawRow and putNTD: a negative number of cells is none.
Cells(n) == Max({0, n})
RowCells(grid, used_width, left_fill, widths) ==
    Cells(left_fill) + Total(widths) + Cells(grid - used_width - left_fill)

\* The cells of the rows of buildDestroyAGrid, buildPGrid and buildDGrid.
ARowCells(p, req) ==
    LET levels == getATreeLevels(p, req)
        rows == fillATree(p, levels)
        grid == gridWidth(p, req)
    IN [k \in 1..levels |->
           RowCells(grid, getATreeWidth(levels), (grid - getATreeWidth(levels) + 1) \div 2,
                    [i \in DOMAIN rows[k] |-> getATreeWidth(levels - k)])]

PLeftFill(p, req) == (gridWidth(p, req) - 1) \div 2 - NodePos(p)

DRowCells(p, req) ==
    LET rows == fillDTree(p, req)
        width == getDTreeWidth(req, p)
        grid == gridWidth(p, req)
    IN [k \in 1..DLevels(rows) |->
           RowCells(grid, width, (grid - width) \div 2,
                    [i \in DOMAIN rows[k] |-> getDTreeWidth(req - k, rows[k][i])])]

\* getDGridLineG: the parent whose children q is counted among; NIL when
\* neither parent is in the row above, and then the page dies.
\* (ThisParentFather is a mutant: only fathers are looked for.)
ThisParentFather(p, rows, k, q) ==
    IF k = 1 THEN p
    ELSE IF Father(q) \in ToSet(rows[k - 1]) THEN Father(q) ELSE NIL

ThisParent(p, rows, k, q) ==
    IF k = 1 THEN p
    ELSE LET above == ToSet(rows[k - 1])
         IN IF Father(q) \in above THEN Father(q)
            ELSE IF Mother(q) \in above THEN Mother(q) ELSE NIL

\* The picture above q.
\* (BranchUnclosed is a mutant: the last child is not told from the others.)
BranchUnclosed(q, parent) ==
    CASE q = unknown_female -> "none"
      [] q # unknown_female /\ Len(Children(parent)) = 1 -> "hone"
      [] q # unknown_female /\ Len(Children(parent)) # 1 /\ q = Head(Children(parent))
           -> "hleft"
      [] OTHER -> "hbranch"

Branch(q, parent) ==
    IF q = unknown_female THEN "none"
    ELSE LET siblings == Children(parent)
         IN CASE Len(siblings) = 1 -> "hone"
              [] Len(siblings) # 1 /\ q = Head(siblings) -> "hleft"
              [] Len(siblings) # 1 /\ q # Head(siblings) /\ q = Last(siblings)
                   -> "hright"
              [] OTHER -> "hbranch"

\* print_zoom_buttons: one more level is offered.
\* (ZoomsOutStrictly is a mutant: an off-by-one.)
ZoomsOutStrictly(p, req) ==
    req < Max({getATreeLevels(p, req), DLevels(fillDTree(p, req))})

ZoomsOut(p, req) ==
    req =< Max({getATreeLevels(p, req), DLevels(fillDTree(p, req))})
-----------------------------------------------------------------------------
\* Who is k generations above or below p, told from the store alone.
Above(p, k) ==
    LET above[n \in Nat] == IF n = 0 THEN {p} ELSE UNION {Parents(q) : q \in above[n - 1]}
    IN above[k]

Below(p, k) ==
    LET below[n \in Nat] == IF n = 0 THEN {p}
                            ELSE UNION {ToSet(Children(q)) : q \in below[n - 1]}
    IN below[k]

KnownIn(row) == ToSet(row) \ Unknown

\* The page measures the tree with one recursion, fills it with another and
\* counts the levels with a third: together they draw exactly the known
\* ancestors and descendants of each generation asked for, in the row of
\* their generation, and stop only where there is nobody further.
EveryoneInReachIsDrawn ==
    \A p \in Known : \A req \in Levels :
        LET levels == getATreeLevels(p, req)
            above == fillATree(p, levels)
            below == fillDTree(p, req)
        IN \A k \in 1..req :
            /\ Above(p, k) = IF k \in 1..levels THEN KnownIn(above[k]) ELSE {}
            /\ Below(p, k) = IF k \in 1..DLevels(below) THEN KnownIn(below[k]) ELSE {}

\* Every row of ancestors and of descendants is exactly as wide as the grid,
\* fills included: everybody's cells add up to those measured for the person
\* they stand above or below, so that families stay under their parents.
RowsFillTheGrid ==
    \A p \in Known : \A req \in Levels :
        \A row \in {ARowCells(p, req), DRowCells(p, req)} : \A k \in DOMAIN row :
            row[k] = gridWidth(p, req)

\* The row of peers is drawn with the target in the middle of the page: the
\* target must be found among its peers, and the siblings on both sides must
\* fit the grid wherever it stands.  (With two rows of one id the target may
\* not be among its peers at all.)
PeersFitTheGrid ==
    NoIdTwice /\ NoSexConflict =>
        \A p \in Known : \A req \in Levels :
            /\ NodePos(p) >= 0
            /\ PLeftFill(p, req) >= 0
            /\ PLeftFill(p, req) + Len(get_peers(p)) =< gridWidth(p, req)

\* All rows of q that give a father give the same one, and so with the mother.
KeepsParents(q) ==
    \A i, j \in RowsOf(q) :
        /\ {log[i].father_id, log[j].father_id} \subseteq ID =>
              log[i].father_id = log[j].father_id
        /\ {log[i].mother_id, log[j].mother_id} \subseteq ID =>
              log[i].mother_id = log[j].mother_id

\* The lines between two rows need a parent in the upper one for everybody in
\* the lower one: the search finds it for everybody whose rows agree on the
\* parents, whatever the rows of the others say.  A second row that names
\* another parent leaves its person below the old one, and the page of a
\* grandparent dies in get_children.  (A tree page may still die elsewhere:
\* in html_name, at a name without a first name.)
LinesFindTheirParent ==
    \A p \in Known : \A req \in Levels :
        LET rows == fillDTree(p, req)
        IN \A k \in 1..DLevels(rows) : \A q \in KnownIn(rows[k]) :
              KeepsParents(q) => ThisParent(p, rows, k, q) # NIL

\* The line above a row opens on the left at somebody's first child, closes
\* on the right at the last, and stands alone above an only child: each is
\* looked up again among the children of a parent found in the row above.
\* (When both parents stand in that row, the father is found for the copy
\* drawn below the mother too, and her branch may be drawn open.)
BranchesJoinTheFamilies ==
    NoIdTwice /\ NoSexConflict =>
        \A p \in Known : \A req \in Levels :
            LET rows == fillDTree(p, req)
                oneParent == \A k \in 2..DLevels(rows) : \A q \in KnownIn(rows[k]) :
                                Cardinality(Parents(q) \cap ToSet(rows[k - 1])) = 1
                pictures(k) == [i \in DOMAIN rows[k] |->
                    IF rows[k][i] = unknown_female THEN "none"
                    ELSE Branch(rows[k][i], ThisParent(p, rows, k, rows[k][i]))]
                family(q) == LET n == Len(Children(q)) IN
                    CASE n = 0 -> <<"none">>
                      [] n = 1 -> <<"hone">>
                      [] OTHER -> <<"hleft">> \o [i \in 1..(n - 2) |-> "hbranch"]
                                              \o <<"hright">>
                upper(k) == IF k = 1 THEN <<p>> ELSE rows[k - 1]
            IN oneParent => \A k \in 1..DLevels(rows) :
                pictures(k) = FlattenSeq([i \in DOMAIN upper(k) |-> family(upper(k)[i])])

\* A visitor who sees no button for one more level has seen everybody: nobody
\* is left further up or further down.
NothingIsHiddenWithoutZoom ==
    \A p \in Known : \A req \in Levels :
        ~ZoomsOut(p, req) => Above(p, req + 1) = {} /\ Below(p, req + 1) = {}

\* The grid doubles with every level of ancestors.  When nobody is their own
\* ancestor the levels end with the family, whatever a link asks for; a
\* cycle, which no loader refuses, gives the levels asked for.
GridEndsWithTheFamily ==
    \A p \in Known : \A req \in Levels :
        (\A k \in 1..Cardinality(Known) : \A q \in Known : q \notin Above(q, k)) =>
            getATreeLevels(p, req) < Cardinality(Known)
=============================================================================
