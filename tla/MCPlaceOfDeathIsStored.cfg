\* The place of death that every file format documents.
SPECIFICATION Spec
CONSTANTS
    a = a  b = b  c = c  d = d  e = e  alice = alice  v = v  w = w
    ID = {a}
    Name = {alice}
    Value = {v, w}
    NIL = NIL
    Malformed = Malformed
    Rows <- FactRows
    MaxRows = 1
INVARIANT PlaceOfDeathIsStored
CHECK_DEADLOCK FALSE
