SPECIFICATION Spec
CONSTANTS
    anna = anna
    staff = staff
    r0 = r0
    r1 = r1
    r2 = r2
    NoUser = NoUser
VIEW View
SYMMETRY RequestSymmetry
CHECK_DEADLOCK FALSE
INVARIANTS
    AdmittedWasLive
    LogoutIsFinal
    EndedNeverLive
    SessionKept
PROPERTIES
    ImplementsSingleSession
