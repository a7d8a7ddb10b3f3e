\* Lines written after the documentation of the csv columns.
SPECIFICATION ConversionSpec
CONSTANTS
    a = a  b = b  c = c  hash = hash  v = v  w = w  Dr = Dr
    ID = {a, b, c, hash}
    Name <- Names
    Value = {v, w}
    NIL = NIL
    Malformed = Malformed
    Rows <- NoRows
    MaxRows = 9
    Blank = Blank
    Comments = {hash}
    Files <- DocumentedFiles
INVARIANT PlaceOfBirthAsDocumented
CHECK_DEADLOCK FALSE
