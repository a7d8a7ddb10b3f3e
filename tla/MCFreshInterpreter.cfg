\* One visitor of an open site.
SPECIFICATION Spec
CONSTANTS
    bart = bart
    lisa = lisa
    hash = hash
    semi = semi
    Visitor = {ann}
    ann = ann
    bob = bob
    Id = {bart}
    Read <- MCAsIs
    Cutting = {}
    Lang = {"gb", "hu", "en"}
    Known = {"gb", "hu"}
    Reversing = {"hu"}
    DefaultLang = "gb"
    MonthsOf <- MCMonthsOf
    Password = "secret"
    PasswordReq = FALSE
    Passwd = {"", "secret"}
    Families <- OneFamily
    Typed <- FrontDoors
    Listed = {"", "snames", "bdays"}
    MaxLevels = 2
    NIL = NIL
    Broken = Broken
INVARIANT FreshInterpreter
