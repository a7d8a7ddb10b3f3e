\* Files of every format, each converted to a sheet once it is loaded.
SPECIFICATION ConversionSpec
CONSTANTS
    a = a  b = b  c = c  hash = hash  v = v  w = w  Dr = Dr
    ID = {a, b, c, hash}
    Name <- Names
    Value = {v, w}
    NIL = NIL
    Malformed = Malformed
    Rows <- NoRows
    MaxRows = 9
    Blank = Blank
    Comments = {hash}
    Files <- AllFiles
INVARIANTS
    CheckedFactsAsDeclared
    LivingAsDeclared
    CsvIsAllOrNothing
    OwnLinesNameTheirPersons
    BlankCellsLoseTheirRowOnly
    NamedFormatsHaveEveryPage
    MappedColumnsAreStored
    ConversionKeepsTheFamily
    ConversionKeepsTheDead
CHECK_DEADLOCK FALSE
