SPECIFICATION Spec
CONSTANTS
    Requests = {r1, r2}
    MaxCodes = 2
    MaxAttempts = 2
    Life = 1
    Faults = {"get", "set", "ttl", "round", "del", "mark", "mail", "abort", "slow"}
SYMMETRY RequestSymmetry
INVARIANTS
    TypeOK
    ActiveHasRole
PROPERTIES
    NotLockedOutEarly
