SPECIFICATION Spec
CONSTANTS
    NoCategory = NoCategory
    Categories = {shoes, hats, books}
    WithProducts = {books}
    Names = {n1, n2}
    Slugs = {s1, s2}
    Requests = {r1, r2}
    Life = 1
    Faults = {"get", "read", "set", "del", "check", "abort"}
SYMMETRY Symmetries
INVARIANTS
    TypeOK
    StaleHasReason
    SlugsDistinct
