SPECIFICATION FairSpec
CONSTANTS
    NoKey = NoKey
    Keys = {login, register}
    SerialKeys = {register}
    Requests = {r1, r2, r3}
    Max = 2
    Window = 2
    Faults = {"get", "set", "incr"}
INVARIANTS
    TypeOK
    WithinLimit
    BelowTwiceMax
    NotRefusedEarly
    OverrunBounded
PROPERTIES
    RefusalEnds
