--------------------------- MODULE MCFtreeServer ---------------------------
(* Instances of FtreeServer for TLC. *)
EXTENDS FtreeServer

CONSTANTS ann, bob, bart, lisa, hash, semi

\* "lisa;" is read as lisa, and so is "lisa#", which also ends the address.
MCRead == [p \in Id |-> IF p \in {hash, semi} THEN lisa ELSE p]
MCAsIs == [p \in Id |-> p]

\* A year of two months stands for one of twelve; April is a month in both
\* languages, the other one is not.
MCMonthsOf == [l \in Known |-> IF l = "hu" THEN <<"April", "majus">>
                               ELSE <<"April", "May">>]
MCOneMonth == [l \in Known |-> IF l = "hu" THEN <<"majus">> ELSE <<"May">>]

\* Everybody is near everybody else and drawn by every tree.
Household(stored, named, first, lost) ==
    [stored |-> stored, named |-> named, first |-> first, lost |-> lost,
     near |-> [p \in Id |-> stored \ {p}],
     tree |-> [p \in Id |-> [n \in 1..MaxLevels |-> stored]]]

Alone == Household({bart}, {bart}, {bart}, {})

\* Families that lose a person, a name, a first name and the parent of a line,
\* and families with each of the odd ids.
ManyFamilies ==
    LET both == {bart, lisa}
    IN {Household(both, both, both, {}), Alone,
        Household(both, {bart}, {bart}, {}),
        Household(both, both, {bart}, {<<lisa, 1>>}),
        Household({lisa, semi}, {lisa, semi}, {lisa, semi}, {}),
        Household({bart, hash}, {bart, hash}, {bart, hash}, {})}
OneFamily == {Alone}

Open(r, l) == [r EXCEPT !.lang = l, !.passwd = Password]

\* The entrances of the site with the password, and addresses of every kind
\* that fails.
Entrances == {Open(Address, l) : l \in Lang}
    \cup {Address,
          Open([Address EXCEPT !.type = "other"], DefaultLang),
          Open([Address EXCEPT !.type = "tree", !.target = bart, !.levels = 0], "hu"),
          Open([Address EXCEPT !.type = "tree", !.target = lisa], "hu"),
          Open([Address EXCEPT !.type = "tree", !.target = hash, !.levels = 3], "hu"),
          Open([Address EXCEPT !.script = "person_page", !.target = semi], "hu"),
          Open([Address EXCEPT !.type = "bdays", !.month = ""], "gb"),
          Open([Address EXCEPT !.type = "bdays", !.month = ""], "en")}

\* The start page in each language, and a redirected tree.
FrontDoors == {Open(Address, l) : l \in Lang}
    \cup {Open([Address EXCEPT !.type = "tree", !.target = bart, !.levels = 0], "hu")}
=============================================================================
