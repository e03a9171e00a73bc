------------------------- MODULE MCSessionsSettings -------------------------
(***************************************************************************)
(* Sessions in three settings, checked together: the setting is chosen in  *)
(* the initial state and never changes.  Each is an instance of Sessions,  *)
(* taken with the theorems of SessionsProofs.                              *)
(*                                                                         *)
(*   "serial"        one request at a time, of an end user and an internal *)
(*                   user: what each request does by itself                *)
(*   "concurrent"    two requests at a time, everything failing but a      *)
(*                   restart of Redis (which has a run of its own)         *)
(*   "withoutRedis"  two requests at a time in a process without a Redis   *)
(*                   client                                                *)
(***************************************************************************)
EXTENDS Naturals, FiniteSets, TLC

CONSTANTS anna, staff, r0, r1, r2, NoUser

ASSUME SettingsAssumption == NoUser \notin {anna, staff}

VARIABLES
    setting,
    users, activeSessions, redis, rdb, revoked, owner, delivered, expired,
    req, claimed, ended

Serial == INSTANCE SessionsProofs WITH
    Users <- {anna, staff}, EndUsers <- {anna}, Requests <- {r0},
    MaxLogins <- 2, RedisEnabled <- TRUE,
    Faults <- {"revokeOld", "setNew", "getSession", "abort"}

Concurrent == INSTANCE SessionsProofs WITH
    Users <- {anna}, EndUsers <- {anna}, Requests <- {r1, r2},
    MaxLogins <- 2, RedisEnabled <- TRUE,
    Faults <- {"getOld", "revokeOld", "delOld", "setNew", "getSession",
               "clearLookup", "clearDel", "clearRow", "abort"}

WithoutRedis == INSTANCE SessionsProofs WITH
    Users <- {staff}, EndUsers <- {}, Requests <- {r1, r2},
    MaxLogins <- 2, RedisEnabled <- FALSE,
    Faults <- {"getOld", "revokeOld", "abort"}

Init ==
    \/ setting = "serial"       /\ Serial!Init
    \/ setting = "concurrent"   /\ Concurrent!Init
    \/ setting = "withoutRedis" /\ WithoutRedis!Init

Next ==
    \/ setting = "serial"       /\ Serial!Next       /\ UNCHANGED setting
    \/ setting = "concurrent"   /\ Concurrent!Next   /\ UNCHANGED setting
    \/ setting = "withoutRedis" /\ WithoutRedis!Next /\ UNCHANGED setting

vars == <<setting, users, activeSessions, redis, rdb, revoked, owner,
          delivered, expired, req, claimed, ended>>

Spec == Init /\ [][Next]_vars

RequestSymmetry == Permutations({r1, r2})

(* Which states are told apart.  No action reads claimed, ended or the     *)
(* field ends, so states that differ only in what no property of their     *)
(* setting reads of those go on alike.                                     *)
View ==
    CASE setting = "serial" -> vars
      [] setting = "concurrent" ->
           <<setting, users, activeSessions, redis, rdb, revoked, owner,
             delivered, expired, [r \in {r1, r2} |-> [req[r] EXCEPT !.ends = {}]],
             ended["logout"]>>
      [] setting = "withoutRedis" ->
           <<setting, users, activeSessions, redis, rdb, revoked, owner,
             delivered, expired, req, ended["logout"],
             UNION {ended[k] : k \in DOMAIN ended}>>

-----------------------------------------------------------------------------
(* Nobody is admitted on a token that was no session when the request came *)
(* to JWTProtected, in any setting.                                        *)
AdmittedWasLive ==
    CASE setting = "serial"       -> Serial!AdmittedWasLive
      [] setting = "concurrent"   -> Concurrent!AdmittedWasLive
      [] setting = "withoutRedis" -> WithoutRedis!AdmittedWasLive

(* A logged out token is never admitted again, in any setting.             *)
LogoutIsFinal ==
    CASE setting = "serial"       -> Serial!LogoutIsFinal
      [] setting = "concurrent"   -> Concurrent!LogoutIsFinal
      [] setting = "withoutRedis" -> WithoutRedis!LogoutIsFinal

(* What a login, a logout, a ban, a deactivation or a deletion ended stays *)
(* ended.  Two logins at a time leave a token behind in Redis (see         *)
(* AtMostOneSession), so this is asked of one request at a time, or of the *)
(* row alone.                                                              *)
EndedNeverLive ==
    CASE setting = "serial"       -> Serial!EndedNeverLive
      [] setting = "withoutRedis" -> WithoutRedis!EndedNeverLive
      [] OTHER                    -> TRUE

(* A session nobody ended is admitted until it expires: SetActiveSession   *)
(* leaves it in the row whatever Redis does.  A late clearing removes the  *)
(* session of a login that overtook it, so this is asked of one request at *)
(* a time.                                                                 *)
SessionKept == setting = "serial" => Serial!SessionKept

(* What the setting says is open, as SingleSession sees it; with Redis and *)
(* two logins at a time nothing is claimed.                                *)
OneSession == INSTANCE SingleSession WITH
    Users    <- {anna, staff},
    Jti      <- 1 .. 2,
    sessions <- CASE setting = "serial"       -> Serial!OpenSessions
                  [] setting = "withoutRedis" -> WithoutRedis!OpenSessions
                  [] OTHER                    -> {},
    used     <- CASE setting = "serial"       -> Serial!UsedTokens
                  [] setting = "withoutRedis" -> WithoutRedis!UsedTokens
                  [] OTHER                    -> {}

(* The row, the key and the revocations together behave as one session per *)
(* user that is opened and closed in one go.                               *)
ImplementsSingleSession == OneSession!SingleSessionSpec
=============================================================================
