\* Five persons, three rows: couples, full siblings and half siblings.
SPECIFICATION Spec
CONSTANTS
    a = a  b = b  c = c  d = d  e = e  alice = alice  v = v  w = w
    ID = {a, b, c, d, e}
    Name = {alice}
    Value = {v}
    NIL = NIL
    Malformed = Malformed
    Rows <- FamilyRows
    MaxRows = 3
SYMMETRY GraphSymmetry
INVARIANTS
    SpousesAreMutual
    SpousesAreComplete
    PeersAreEquivalent
    SiblingsArePartitioned
    LinksAreMutual
    PagesDieOnlyNearPlaceholders
CHECK_DEADLOCK FALSE
