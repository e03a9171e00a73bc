SPECIFICATION FairSpec
CONSTANTS
    Requests = {r1}
    MaxCodes = 2
    MaxAttempts = 3
    Life = 2
    Faults = {"ttl", "round", "del", "mark", "mail", "typo"}
PROPERTIES
    AcceptedInTime
    AttemptsEnforced
    RegistrationSucceeds
