-------------------------- MODULE PersonRelations --------------------------
(***************************************************************************)
(* The relations of lib/Person.pm, computed on demand from the pointers    *)
(* and child lists of the loaded store, and what the person page           *)
(* (lib/PersonPage.pm) shows and links of them.                            *)
(***************************************************************************)
EXTENDS FamilyTreeHistory

OtherParent(role) == IF role = "father" THEN "mother" ELSE "father"

\* grep: the elements of s that are in S, in their order.
Those(s, S) ==
    LET kept[n \in 0..Len(s)] ==
            IF n = 0 THEN <<>>
            ELSE IF s[n] \in S THEN Append(kept[n - 1], s[n]) ELSE kept[n - 1]
    IN kept[Len(s)]

\* Whoever has x in the slot of this role.
Having(role, x) == {q \in Known : people[q][role] = x}

\* get_spouses: whoever shares a child with p, p being in the slot of its own
\* gender and the spouse in the other; an undefined gender counts as male.
\* (Mutants: the test that the child is p's is lost; the roles are swapped.)
get_spouses_unchecked(p) ==
    LET role == IF people[p].gender \in {Male, NIL} THEN "father" ELSE "mother"
    IN {people[c][OtherParent(role)] : c \in ToSet(people[p].children)} \ {NIL}
get_spouses_swapped(p) ==
    LET role == IF people[p].gender \in {Male, NIL} THEN "mother" ELSE "father"
        shared == {c \in ToSet(people[p].children) : people[c][role] = p}
    IN {people[c][OtherParent(role)] : c \in shared} \ {NIL}

get_spouses(p) ==
    LET role == IF people[p].gender \in {Male, NIL} THEN "father" ELSE "mother"
        shared == {c \in ToSet(people[p].children) : people[c][role] = p}
    IN {people[c][OtherParent(role)] : c \in shared} \ {NIL}

HasChildren(p) == p # NIL /\ people[p].children # <<>>

\* get_peers: the children of p's mother with p's father, or none like p;
\* without a mother the motherless children of p's father; else p alone.
\* (get_peers_loose is a mutant: the motherless test is lost.)
get_peers_loose(p) ==
    LET mother == people[p].mother
        father == people[p].father
    IN CASE HasChildren(mother) ->
              Those(people[mother].children, Having("father", father))
         [] ~HasChildren(mother) /\ HasChildren(father) -> people[father].children
         [] OTHER -> <<p>>

get_peers(p) ==
    LET mother == people[p].mother
        father == people[p].father
    IN CASE HasChildren(mother) ->
              Those(people[mother].children, Having("father", father))
         [] ~HasChildren(mother) /\ HasChildren(father) ->
              Those(people[father].children, Having("mother", NIL))
         [] OTHER -> <<p>>

\* get_soft_peers: the children of p's parent in this role whose other parent
\* is another one, or is known of only one of the two.
\* (get_soft_peers_known is a mutant: only two known parents can differ.)
get_soft_peers_known(p, role) ==
    LET parent == people[p][role]
        other == OtherParent(role)
    IN IF parent = NIL \/ people[p][other] = NIL THEN <<>>
       ELSE Those(people[parent].children,
                  Known \ (Having(other, NIL) \cup Having(other, people[p][other])))

get_soft_peers(p, role) ==
    LET parent == people[p][role]
        other == OtherParent(role)
    IN IF parent = NIL THEN <<>>
       ELSE Those(people[parent].children, Known \ Having(other, people[p][other]))

\* The siblings of the page: nobody when the only peer is p itself.
Siblings(p) == IF Len(get_peers(p)) > 1 THEN ToSet(get_peers(p)) ELSE {}

\* _draw_single_person_page: the parents, the spouses and the four lists.
\* Everyone but the person is printed as a link to their own page.
\* (LinkedUpwards is a mutant: the children are not listed.)
LinkedUpwards(p) ==
    (Parents(p) \cup get_spouses(p) \cup Siblings(p)
     \cup ToSet(get_soft_peers(p, "father")) \cup ToSet(get_soft_peers(p, "mother")))
    \ {p}

Linked(p) ==
    (Parents(p) \cup get_spouses(p) \cup Siblings(p)
     \cup ToSet(get_soft_peers(p, "father")) \cup ToSet(get_soft_peers(p, "mother"))
     \cup ToSet(people[p].children)) \ {p}

\* The page calls a method on the name of p and of everyone it links, and dies
\* when one of these names is undefined.
PageDies(p) == \E q \in Linked(p) \cup {p} : people[q].name = NIL
-----------------------------------------------------------------------------
\* The sexes the rows give p, by its gender column or by the parent slots.
Sexes(p) == ({log[i].gender : i \in RowsOf(p)} \cap {Male, Female})
    \cup {Male : i \in {j \in DOMAIN log : log[j].id \in ID /\ log[j].father_id = p}}
    \cup {Female : i \in {j \in DOMAIN log : log[j].id \in ID /\ log[j].mother_id = p}}

NoSexConflict == \A p \in ID : Cardinality(Sexes(p)) =< 1
NoIdTwice == \A p \in ID : Cardinality(RowsOf(p)) =< 1

\* In a file that never contradicts itself about a sex, spouses are mutual:
\* get_spouses looks from one side only, through the person's own gender.
SpousesAreMutual ==
    NoSexConflict =>
        \A p \in Known : \A q \in get_spouses(p) : p \in get_spouses(q)

\* The same file: get_spouses misses no couple that has a child.
SpousesAreComplete ==
    NoSexConflict =>
        \A c \in Known : NIL \notin {people[c].father, people[c].mother} =>
            people[c].mother \in get_spouses(people[c].father)

\* Full siblings are an equivalence when no id has two rows and no sex is
\* contradicted: everybody is a peer of itself, and peers have the same peers
\* in the same order.  The tree page draws the target's row from its peers
\* and looks the target up in it.
PeersAreEquivalent ==
    NoIdTwice /\ NoSexConflict =>
        \A p \in Known :
            /\ p \in ToSet(get_peers(p))
            /\ \A q \in ToSet(get_peers(p)) : get_peers(q) = get_peers(p)

\* The three sibling lists of a person page are disjoint, and together they
\* show every child of either parent, when no id has two rows and no sex is
\* contradicted.
SiblingsArePartitioned ==
    NoIdTwice /\ NoSexConflict =>
        \A p \in Known :
            LET full == ToSet(get_peers(p))
                paternal == ToSet(get_soft_peers(p, "father"))
                maternal == ToSet(get_soft_peers(p, "mother"))
            IN /\ full \cap (paternal \cup maternal) = {}
               /\ paternal \cap maternal = {}
               /\ full \cup paternal \cup maternal =
                     {p} \cup UNION {ToSet(people[q].children) : q \in Parents(p)}

\* Whoever is linked from a page links back: a visitor can always return by
\* a link of the page itself.
LinksAreMutual ==
    NoIdTwice /\ NoSexConflict =>
        \A p \in Known : \A q \in Linked(p) : q \in Known /\ p \in Linked(q)

\* A person page dies only near a placeholder: in a file where every parent
\* has a row of its own every page can be shown.
PagesDieOnlyNearPlaceholders ==
    (\A p \in Known : RowsOf(p) # {}) => \A p \in Known : ~PageDies(p)
=============================================================================
