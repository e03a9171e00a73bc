SPECIFICATION FairSpec
CONSTANTS
    NoUser = NoUser
    Users = {staff}
    EndUsers = {}
    Requests = {r1}
    MaxLogins = 2
    RedisEnabled = TRUE
    Faults = {"clearDel", "clearRow", "abort", "redisRestart"}
CHECK_DEADLOCK FALSE
INVARIANTS
    TypeOK
    LogoutIsFinal
PROPERTIES
    RevocationsAreForgotten
