SPECIFICATION Spec
CONSTANTS
    NoUser = NoUser
    Users = {anna}
    EndUsers = {anna}
    Requests = {r1, r2}
    MaxLogins = 2
    RedisEnabled = TRUE
    Faults = {}
SYMMETRY RequestSymmetry
INVARIANTS
    AtMostOneSession
