\* Three persons, three rows: every small family, in every order.
SPECIFICATION Spec
CONSTANTS
    a = a  b = b  c = c  d = d  e = e  alice = alice  v = v  w = w
    ID = {a, b, c}
    Name = {alice}
    Value = {v}
    NIL = NIL
    Malformed = Malformed
    Rows <- GraphRows
    MaxRows = 3
SYMMETRY GraphSymmetry
INVARIANTS
    TypeOK
    ParentsListTheirChildren
    ChildrenWereDeclared
    PlaceholdersAreParents
    ChildListedOncePerRole
    GenderAsDeclared
    LineageAsDeclared
PROPERTIES
    NothingIsForgotten
    ImplementsKinship
CHECK_DEADLOCK FALSE
