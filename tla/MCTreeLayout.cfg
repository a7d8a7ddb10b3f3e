\* Five persons, three rows, up to three levels up and down.
SPECIFICATION Spec
CONSTANTS
    a = a  b = b  c = c  d = d  e = e  alice = alice  v = v  w = w
    unknown_male = unknown_male  unknown_female = unknown_female
    ID = {a, b, c, d, e}
    Name = {alice}
    Value = {v}
    NIL = NIL
    Malformed = Malformed
    Rows <- LineageRows
    MaxRows = 3
    Levels = {1, 2, 3}
SYMMETRY GraphSymmetry
INVARIANTS
    EveryoneInReachIsDrawn
    RowsFillTheGrid
    PeersFitTheGrid
    LinesFindTheirParent
    BranchesJoinTheFamilies
    NothingIsHiddenWithoutZoom
    GridEndsWithTheFamily
CHECK_DEADLOCK FALSE
