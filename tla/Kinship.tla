------------------------------- MODULE Kinship -------------------------------
(***************************************************************************)
(* What the store of persons promises to the pages, without its hash, its  *)
(* objects and its lists: a register of who is known, who is whose father  *)
(* and mother now, and who was ever declared to be whose child.  The one   *)
(* operation is what a row of the data file says of a child.               *)
(***************************************************************************)
CONSTANTS
    ID,     \* the persons there can be
    NIL     \* no parent

VARIABLES
    known,      \* the persons the register has heard of
    father,     \* of everybody, the last father declared, NIL before
    mother,     \* the same for the mother
    ever        \* all pairs <<parent, child>> ever declared

kinship == <<known, father, mother, ever>>

Init ==
    /\ known = {}
    /\ father = [p \in ID |-> NIL]
    /\ mother = [p \in ID |-> NIL]
    /\ ever = {}

\* One declaration is one step: the child and the parents it names become
\* known, the parents it names replace the former ones, and the former ones
\* stay on record as its parents.
Declare(c, f, m) ==
    LET parents == {f, m} \ {NIL}
    IN /\ known' = known \cup {c} \cup parents
       /\ father' = [father EXCEPT ![c] = IF f = NIL THEN @ ELSE f]
       /\ mother' = [mother EXCEPT ![c] = IF m = NIL THEN @ ELSE m]
       /\ ever' = ever \cup {<<p, c>> : p \in parents}

Next == \E c \in ID, f, m \in ID \cup {NIL} : Declare(c, f, m)

Spec == Init /\ [][Next]_kinship
=============================================================================
