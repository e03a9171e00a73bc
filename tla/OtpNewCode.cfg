SPECIFICATION Spec
CONSTANTS
    Requests = {r1}
    MaxCodes = 2
    MaxAttempts = 3
    Life = 2
    Faults = {"typo"}
INVARIANTS
    NewCodeWorks
