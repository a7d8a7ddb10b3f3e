\* Tables whose columns are all mapped, as in the sample of the settings.
SPECIFICATION ConversionSpec
CONSTANTS
    a = a  b = b  c = c  hash = hash  v = v  w = w  Dr = Dr
    ID = {a, b, c, hash}
    Name <- Names
    Value = {v, w}
    NIL = NIL
    Malformed = Malformed
    Rows <- NoRows
    MaxRows = 9
    Blank = Blank
    Comments = {hash}
    Files <- CemeteryFiles
INVARIANT MappedCemeteryIsStored
CHECK_DEADLOCK FALSE
