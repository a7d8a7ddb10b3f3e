\* The is_living column as both file formats document it.
SPECIFICATION Spec
CONSTANTS
    a = a  b = b  c = c  d = d  e = e  alice = alice  v = v  w = w
    ID = {a}
    Name = {alice}
    Value = {v, w}
    NIL = NIL
    Malformed = Malformed
    Rows <- FactRows
    MaxRows = 1
INVARIANT LivingAsDocumented
CHECK_DEADLOCK FALSE
