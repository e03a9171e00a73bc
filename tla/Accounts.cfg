CONSTANTS
    Requests = {r1, r2}
    Links = {l1, l2}
    Invitation = inv
    NoCredential = none
    MaxFailures = 1
SPECIFICATION Spec
INVARIANTS TypeOK LinksBounded UsesBounded ResetEndsSessions DeactivationHolds
SYMMETRY Sym
