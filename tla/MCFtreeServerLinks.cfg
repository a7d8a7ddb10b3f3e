\* One visitor of a protected site, who follows links while the file changes.
SPECIFICATION Spec
CONSTANTS
    bart = bart
    lisa = lisa
    hash = hash
    semi = semi
    Visitor = {ann}
    ann = ann
    bob = bob
    Id = {bart, lisa, hash, semi}
    Read <- MCRead
    Cutting = {hash}
    Lang = {"gb", "hu", "en"}
    Known = {"gb", "hu"}
    Reversing = {"hu"}
    DefaultLang = "gb"
    MonthsOf <- MCMonthsOf
    Password = "secret"
    PasswordReq = TRUE
    Passwd = {"", "secret"}
    Families <- ManyFamilies
    Typed <- Entrances
    Listed = {"", "snames", "bdays"}
    MaxLevels = 3
    NIL = NIL
    Broken = Broken
INVARIANTS
    TypeOK
PROPERTIES
    
    LinksKeepTheLanguage
