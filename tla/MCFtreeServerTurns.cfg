\* Two visitors of an open site, whose requests alternate in two languages.
SPECIFICATION Spec
CONSTANTS
    bart = bart
    lisa = lisa
    hash = hash
    semi = semi
    Visitor = {ann, bob}
    ann = ann
    bob = bob
    Id = {bart}
    Read <- MCAsIs
    Cutting = {}
    Lang = {"gb", "hu"}
    Known = {"gb", "hu"}
    Reversing = {"hu"}
    DefaultLang = "gb"
    MonthsOf <- MCOneMonth
    Password = "secret"
    PasswordReq = FALSE
    Passwd = {"", "secret"}
    Families <- OneFamily
    Typed <- FrontDoors
    Listed = {"bdays"}
    MaxLevels = 2
    NIL = NIL
    Broken = Broken
INVARIANTS
    HungarianNamesAreReversed
    OnlyFlagsLoseMonths
PROPERTIES
    LinksKeepTheLanguage
    EveryoneIsAnswered
