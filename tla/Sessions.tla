------------------------------ MODULE Sessions ------------------------------
(***************************************************************************)
(* Access tokens and the single active session of a user.                  *)
(*                                                                         *)
(* A login writes the JTI of its token in the row of the user in the table *)
(* active_sessions (Postgres) and in a key session:<jti> (Redis), after it *)
(* has revoked the JTI it found in the row.  The middleware admits a       *)
(* request by asking, in this order, the table revoked_tokens, Redis or    *)
(* else the row, and the row of the user.  Every one of these accesses is  *)
(* a round trip of its own: nothing runs in a transaction, and any number  *)
(* of API instances serve requests at once.  So each access is an action   *)
(* here, and the requests in Requests interleave between accesses.         *)
(*                                                                         *)
(* Left out: the token string (a token is its JTI), roles (a user keeps    *)
(* the one it has: EndUsers or back office) and the authentication of the  *)
(* operator who bans, deactivates or deletes a user.                       *)
(***************************************************************************)
EXTENDS Naturals, FiniteSets

CONSTANTS
    Users,          \* rows of the table users
    EndUsers,       \* those with the role end_user; the others are internal
    Requests,       \* slots: how many requests are served at the same time
    MaxLogins,      \* BOUND: number of tokens ever issued
    RedisEnabled,   \* cache.Client # nil
    Faults,         \* the calls that may fail in this instance
    NoUser

Jti   == 1 .. MaxLogins
NoJti == 0

(* The calls whose failure the code survives, by ignoring the error or by  *)
(* falling back.  Besides, "abort" is a request that ends early at any     *)
(* point (a database error answered with 500, a crash of the instance),    *)
(* "slow" a token that expires while a request is using it, and            *)
(* "redisRestart" Redis coming back with its last snapshot.                *)
FaultKinds == {"getOld", "revokeOld", "delOld", "setNew", "getSession",
               "clearLookup", "clearDel", "clearRow", "abort", "slow",
               "redisRestart"}

ASSUME SessionsAssumption ==
    /\ EndUsers \subseteq Users
    /\ NoUser \notin Users
    /\ MaxLogins \in Nat
    /\ RedisEnabled \in BOOLEAN
    /\ Faults \subseteq FaultKinds

VARIABLES
    users,          \* is_active, is_banned and deleted_at of each user
    activeSessions, \* the row of the user in active_sessions, or NoJti
    redis,          \* the UserID stored under session:<jti>, or NoUser
    rdb,            \* the snapshot Redis restarts from
    revoked,        \* JTIs in revoked_tokens
    owner,          \* the user a token was issued to, or NoUser
    delivered,      \* tokens that reached a client
    expired,        \* tokens past their exp (24 hours)
    req,            \* the requests being served
    claimed,        \* history: tokens some request set out to end
    ended           \* history: tokens a request said it had ended, by kind

dbVars   == <<users, activeSessions, revoked>>
tokVars  == <<owner, delivered, expired>>
histVars == <<claimed, ended>>
vars     == <<users, activeSessions, redis, rdb, revoked, owner, delivered,
              expired, req, claimed, ended>>

-----------------------------------------------------------------------------
AuthKinds   == {"use", "logout", "logoutAll"}
AdminKinds  == {"ban", "unban", "deactivate", "activate", "delete"}
Ending      == {"login", "logout", "logoutAll", "ban", "deactivate", "delete"}
Kinds       == {"none", "login"} \cup AuthKinds \cup AdminKinds
Steps       == {"idle", "getOld", "revokeOld", "delOld", "upsert", "setNew",
                "revoked", "session", "rowSession", "status", "handler",
                "update", "clearLookup", "clearDel", "clearRow", "softDelete"}

(* One request: what it does, where it is, its user and token, the token   *)
(* it looked up, the tokens it is to end, and whether its own token was    *)
(* the session of its user when it arrived (history).                      *)
Request == [kind : Kinds, pc : Steps, user : Users \cup {NoUser},
            jti : Jti \cup {NoJti}, found : Jti \cup {NoJti},
            ends : SUBSET Jti, live : BOOLEAN]

Idle == [kind |-> "none", pc |-> "idle", user |-> NoUser, jti |-> NoJti,
         found |-> NoJti, ends |-> {}, live |-> FALSE]

TypeOK ==
    /\ users \in [Users -> [isActive : BOOLEAN, isBanned : BOOLEAN,
                            isDeleted : BOOLEAN]]
    /\ activeSessions \in [Users -> Jti \cup {NoJti}]
    /\ redis \in [Jti -> Users \cup {NoUser}]
    /\ rdb \in [Jti -> Users \cup {NoUser}]
    /\ revoked \subseteq Jti
    /\ owner \in [Jti -> Users \cup {NoUser}]
    /\ delivered \subseteq Jti
    /\ expired \subseteq Jti
    /\ req \in [Requests -> Request]
    /\ claimed \subseteq Jti
    /\ ended \in [Ending -> SUBSET Jti]

Init ==
    /\ users = [u \in Users |->
                  [isActive |-> TRUE, isBanned |-> FALSE, isDeleted |-> FALSE]]
    /\ activeSessions = [u \in Users |-> NoJti]
    /\ redis = [j \in Jti |-> NoUser]
    /\ rdb = redis
    /\ revoked = {}
    /\ owner = [j \in Jti |-> NoUser]
    /\ delivered = {}
    /\ expired = {}
    /\ req = [r \in Requests |-> Idle]
    /\ claimed = {}
    /\ ended = [k \in Ending |-> {}]

-----------------------------------------------------------------------------
(* What a token is worth.                                                  *)

UserOK(u) == users[u].isActive /\ ~users[u].isBanned /\ ~users[u].isDeleted

(* The answer IsActiveSession gives when Redis answers.                    *)
IsActiveSession(j) ==
    /\ owner[j] # NoUser
    /\ \/ RedisEnabled /\ redis[j] = owner[j]
       \/ redis[j] = NoUser /\ activeSessions[owner[j]] = j

SessionLive(j) == j \notin expired /\ j \notin revoked /\ IsActiveSession(j)

(* Presented now, and with nothing else going on, the token is admitted.   *)
Admissible(j) == SessionLive(j) /\ UserOK(owner[j])

TokensOf(u) == {j \in delivered : owner[j] = u}

-----------------------------------------------------------------------------
(* Moving a request.                                                       *)

At(r, pc) == req[r].pc = pc

Goto(r, pc) == req' = [req EXCEPT ![r].pc = pc]

Reject(r) == req' = [req EXCEPT ![r] = Idle] /\ UNCHANGED histVars

Respond(r) ==
    /\ req' = [req EXCEPT ![r] = Idle]
    /\ ended' = IF req[r].kind \in Ending
                THEN [ended EXCEPT ![req[r].kind] = @ \cup req[r].ends]
                ELSE ended
    /\ UNCHANGED claimed

(* A request arrives.  What it is to end is the tokens the user holds now. *)
Arrive(r, kind, pc, u, j, ends) ==
    /\ At(r, "idle")
    /\ req' = [req EXCEPT ![r] =
                 [kind |-> kind, pc |-> pc, user |-> u, jti |-> j,
                  found |-> NoJti, ends |-> ends,
                  live |-> kind \in AuthKinds /\ SessionLive(j)]]
    /\ claimed' = claimed \cup ends
    /\ UNCHANGED ended

Fails(call) == call \in Faults

-----------------------------------------------------------------------------
(* Login: LoginHandler and SetActiveSession.                               *)

(* The next unused JTI; uuid.New() never repeats one.                      *)
Fresh(j) == owner[j] = NoUser /\ \A k \in 1 .. (j - 1) : owner[k] # NoUser

(* LoginHandler up to the call of SetActiveSession: the row of the user is *)
(* read once (is_active, and neither is_banned nor deleted_at), the        *)
(* password is right, the token is made.                                   *)
LoginHandler(r, u, j) ==
    /\ users[u].isActive
    /\ Fresh(j)
    /\ owner' = [owner EXCEPT ![j] = u]
    /\ Arrive(r, "login", "getOld", u, j, TokensOf(u))
    /\ UNCHANGED <<dbVars, redis, rdb, delivered, expired>>

(* Mutant: the test oldJTI != "" is missing.                               *)
GetOldSessionUntested(r) ==
    /\ At(r, "getOld")
    /\ req' = [req EXCEPT ![r].found = activeSessions[req[r].user],
                          ![r].pc = "revokeOld"]
    /\ UNCHANGED <<dbVars, redis, rdb, tokVars, histVars>>

(* SetActiveSession reads the old row; an error counts as "no row".        *)
GetOldSession(r) ==
    /\ At(r, "getOld")
    /\ \E old \in {activeSessions[req[r].user]}
                    \cup (IF Fails("getOld") THEN {NoJti} ELSE {}) :
         req' = [req EXCEPT ![r].found = old,
                            ![r].pc = IF old = NoJti THEN "upsert"
                                                     ELSE "revokeOld"]
    /\ UNCHANGED <<dbVars, redis, rdb, tokVars, histVars>>

RevokeOldToken(r) ==
    /\ At(r, "revokeOld")
    /\ \/ revoked' = revoked \cup {req[r].found}
       \/ Fails("revokeOld") /\ UNCHANGED revoked
    /\ Goto(r, IF RedisEnabled THEN "delOld" ELSE "upsert")
    /\ UNCHANGED <<users, activeSessions, redis, rdb, tokVars, histVars>>

(* Mutant: the key is built without its prefix.                            *)
DeleteOldSessionWrongKey(r) ==
    /\ At(r, "delOld")
    /\ Goto(r, "upsert")
    /\ UNCHANGED <<dbVars, redis, rdb, tokVars, histVars>>

DeleteOldSession(r) ==
    /\ At(r, "delOld")
    /\ \/ redis' = [redis EXCEPT ![req[r].found] = NoUser]
       \/ Fails("delOld") /\ UNCHANGED redis
    /\ Goto(r, "upsert")
    /\ UNCHANGED <<dbVars, rdb, tokVars, histVars>>

(* Mutant: ON CONFLICT DO NOTHING.                                         *)
UpsertSessionDoNothing(r) ==
    /\ At(r, "upsert")
    /\ activeSessions' = [activeSessions EXCEPT ![req[r].user] =
                            IF @ = NoJti THEN req[r].jti ELSE @]
    /\ Goto(r, "setNew")
    /\ UNCHANGED <<users, revoked, redis, rdb, tokVars, histVars>>

UpsertSession(r) ==
    /\ At(r, "upsert")
    /\ activeSessions' = [activeSessions EXCEPT ![req[r].user] = req[r].jti]
    /\ Goto(r, "setNew")
    /\ UNCHANGED <<users, revoked, redis, rdb, tokVars, histVars>>

(* The new session goes to Redis if there is one, and the token to the     *)
(* client.                                                                 *)
SetNewSession(r) ==
    /\ At(r, "setNew")
    /\ \/ RedisEnabled /\ redis' = [redis EXCEPT ![req[r].jti] = req[r].user]
       \/ (~RedisEnabled \/ Fails("setNew")) /\ UNCHANGED redis
    /\ delivered' = delivered \cup {req[r].jti}
    /\ Respond(r)
    /\ UNCHANGED <<dbVars, rdb, owner, expired>>

Login(r) ==
    \/ \E u \in Users, j \in Jti : LoginHandler(r, u, j)
    \/ GetOldSession(r)
    \/ RevokeOldToken(r)
    \/ DeleteOldSession(r)
    \/ UpsertSession(r)
    \/ SetNewSession(r)

-----------------------------------------------------------------------------
(* JWTProtected: a request that presents a token.                          *)

(* ParseToken accepts a token that has not expired.                        *)
ParseToken(r, kind, j) ==
    /\ j \in delivered \ expired
    /\ Arrive(r, kind, "revoked", owner[j], j,
              CASE kind = "logout"    -> {j}
                [] kind = "logoutAll" -> TokensOf(owner[j])
                [] OTHER              -> {})
    /\ UNCHANGED <<dbVars, redis, rdb, tokVars>>

(* Mutant: the middleware relies on the active session alone.              *)
IsTokenRevokedUnasked(r) ==
    /\ At(r, "revoked")
    /\ Goto(r, IF RedisEnabled THEN "session" ELSE "rowSession")
    /\ UNCHANGED <<dbVars, redis, rdb, tokVars, histVars>>

IsTokenRevoked(r) ==
    /\ At(r, "revoked")
    /\ IF req[r].jti \in revoked
       THEN Reject(r)
       ELSE /\ Goto(r, IF RedisEnabled THEN "session" ELSE "rowSession")
            /\ UNCHANGED histVars
    /\ UNCHANGED <<dbVars, redis, rdb, tokVars>>

(* A hit in Redis decides by the UserID alone; a miss or an error asks the *)
(* row.                                                                    *)
GetSession(r) ==
    /\ At(r, "session")
    /\ \/ /\ redis[req[r].jti] # NoUser
          /\ IF redis[req[r].jti] = req[r].user
             THEN Goto(r, "status") /\ UNCHANGED histVars
             ELSE Reject(r)
       \/ /\ redis[req[r].jti] = NoUser \/ Fails("getSession")
          /\ Goto(r, "rowSession")
          /\ UNCHANGED histVars
    /\ UNCHANGED <<dbVars, redis, rdb, tokVars>>

GetSessionRow(r) ==
    /\ At(r, "rowSession")
    /\ IF activeSessions[req[r].user] = req[r].jti
       THEN Goto(r, "status") /\ UNCHANGED histVars
       ELSE Reject(r)
    /\ UNCHANGED <<dbVars, redis, rdb, tokVars>>

CheckUserStatus(r) ==
    /\ At(r, "status")
    /\ IF UserOK(req[r].user)
       THEN Goto(r, "handler") /\ UNCHANGED histVars
       ELSE Reject(r)
    /\ UNCHANGED <<dbVars, redis, rdb, tokVars>>

(* A handler that leaves the session alone.                                *)
UseHandler(r) ==
    /\ At(r, "handler")
    /\ req[r].kind = "use"
    /\ Respond(r)
    /\ UNCHANGED <<dbVars, redis, rdb, tokVars>>

(* Mutant: logging out clears the session without revoking the token.      *)
RevokeOwnTokenNot(r) ==
    /\ At(r, "handler")
    /\ req[r].kind \in {"logout", "logoutAll"}
    /\ req' = [req EXCEPT ![r].found = req[r].jti,
                          ![r].pc = IF RedisEnabled THEN "clearDel"
                                                    ELSE "clearRow"]
    /\ UNCHANGED <<dbVars, redis, rdb, tokVars, histVars>>

(* LogoutHandler and LogoutAllHandler: revoke the own token, then clear.   *)
RevokeOwnToken(r) ==
    /\ At(r, "handler")
    /\ req[r].kind \in {"logout", "logoutAll"}
    /\ revoked' = revoked \cup {req[r].jti}
    /\ req' = [req EXCEPT ![r].found = req[r].jti,
                          ![r].pc = IF RedisEnabled THEN "clearDel"
                                                    ELSE "clearRow"]
    /\ UNCHANGED <<users, activeSessions, redis, rdb, tokVars, histVars>>

Authenticated(r) ==
    \/ \E kind \in AuthKinds, j \in Jti : ParseToken(r, kind, j)
    \/ IsTokenRevoked(r)
    \/ GetSession(r)
    \/ GetSessionRow(r)
    \/ CheckUserStatus(r)
    \/ UseHandler(r)
    \/ RevokeOwnToken(r)

-----------------------------------------------------------------------------
(* ClearActiveSession, called by the logouts and by the operations below.  *)

StartClear == IF RedisEnabled THEN "clearLookup" ELSE "clearRow"

(* Called with an empty JTI it reads the row; an error counts as "no row". *)
ClearLookup(r) ==
    /\ At(r, "clearLookup")
    /\ \E j \in {activeSessions[req[r].user]}
                  \cup (IF Fails("clearLookup") THEN {NoJti} ELSE {}) :
         req' = [req EXCEPT ![r].found = j,
                            ![r].pc = IF j = NoJti THEN "clearRow"
                                                   ELSE "clearDel"]
    /\ UNCHANGED <<dbVars, redis, rdb, tokVars, histVars>>

ClearRedis(r) ==
    /\ At(r, "clearDel")
    /\ \/ redis' = [redis EXCEPT ![req[r].found] = NoUser]
       \/ Fails("clearDel") /\ UNCHANGED redis
    /\ Goto(r, "clearRow")
    /\ UNCHANGED <<dbVars, rdb, tokVars, histVars>>

(* Mutant: DELETE ... WHERE user_id = $1 AND jti = $2, with the JTI that   *)
(* the caller passed.                                                      *)
ClearRowOfJti(r) ==
    /\ At(r, "clearRow")
    /\ activeSessions' = [activeSessions EXCEPT ![req[r].user] =
                            IF @ = req[r].jti THEN NoJti ELSE @]
    /\ IF req[r].kind = "delete"
       THEN Goto(r, "softDelete") /\ UNCHANGED histVars
       ELSE Respond(r)
    /\ UNCHANGED <<users, revoked, redis, rdb, tokVars>>

(* The row goes whatever JTI it holds by now.  A logout answers 500 when   *)
(* this fails; the other callers ignore the error.                         *)
ClearRow(r) ==
    /\ At(r, "clearRow")
    /\ \/ /\ activeSessions' = [activeSessions EXCEPT ![req[r].user] = NoJti]
          /\ IF req[r].kind = "delete"
             THEN Goto(r, "softDelete") /\ UNCHANGED histVars
             ELSE Respond(r)
       \/ /\ Fails("clearRow")
          /\ UNCHANGED activeSessions
          /\ CASE req[r].kind = "delete" ->
                    Goto(r, "softDelete") /\ UNCHANGED histVars
               [] req[r].kind \in AuthKinds -> Reject(r)
               [] OTHER -> Respond(r)
    /\ UNCHANGED <<users, revoked, redis, rdb, tokVars>>

ClearActiveSession(r) == ClearLookup(r) \/ ClearRedis(r) \/ ClearRow(r)

-----------------------------------------------------------------------------
(* Operations on an account by an operator.  Each first reads that the     *)
(* user is not deleted and is, or is not, an end user.                     *)

AdminRequest(r, kind, u) ==
    /\ ~users[u].isDeleted
    /\ (u \in EndUsers) = (kind \in {"ban", "unban"})
    /\ Arrive(r, kind, IF kind = "delete" THEN StartClear ELSE "update", u, NoJti,
              IF kind \in Ending THEN TokensOf(u) ELSE {})
    /\ UNCHANGED <<dbVars, redis, rdb, tokVars>>

(* UPDATE users SET is_banned or is_active; banning and deactivating go on *)
(* to clear the session.                                                   *)
SetStatus(r) ==
    /\ At(r, "update")
    /\ users' = [users EXCEPT ![req[r].user] =
                   CASE req[r].kind = "ban"        -> [@ EXCEPT !.isBanned = TRUE]
                     [] req[r].kind = "unban"      -> [@ EXCEPT !.isBanned = FALSE]
                     [] req[r].kind = "deactivate" -> [@ EXCEPT !.isActive = FALSE]
                     [] OTHER                      -> [@ EXCEPT !.isActive = TRUE]]
    /\ IF req[r].kind \in Ending
       THEN Goto(r, StartClear) /\ UNCHANGED histVars
       ELSE Respond(r)
    /\ UNCHANGED <<activeSessions, revoked, redis, rdb, tokVars>>

(* DeleteUserHandler clears the session first and deletes the user last.   *)
SoftDelete(r) ==
    /\ At(r, "softDelete")
    /\ users' = [users EXCEPT ![req[r].user].isDeleted = TRUE]
    /\ Respond(r)
    /\ UNCHANGED <<activeSessions, revoked, redis, rdb, tokVars>>

Admin(r) ==
    \/ \E kind \in AdminKinds, u \in Users : AdminRequest(r, kind, u)
    \/ SetStatus(r)
    \/ SoftDelete(r)

-----------------------------------------------------------------------------
(* Time, the cleanup goroutine, Redis, and requests that end early.        *)

(* Every token lives 24 hours, so tokens expire in the order of issue.     *)
Expire(j) ==
    /\ owner[j] # NoUser
    /\ j \notin expired
    /\ Fails("slow") \/ ~\E r \in Requests : req[r].jti = j
    /\ \A k \in 1 .. (j - 1) : k \in expired
    /\ expired' = expired \cup {j}
    /\ UNCHANGED <<dbVars, redis, rdb, owner, delivered, req, histVars>>

(* Mutant: the cleanup empties the table.                                  *)
CleanupAllTokens ==
    /\ revoked # {}
    /\ revoked' = {}
    /\ UNCHANGED <<users, activeSessions, redis, rdb, tokVars, req, histVars>>

(* Mutant: the cleanup compares the wrong way round.                       *)
CleanupUnexpiredTokens ==
    /\ revoked \ expired # {}
    /\ revoked' = revoked \cap expired
    /\ UNCHANGED <<users, activeSessions, redis, rdb, tokVars, req, histVars>>

CleanupExpiredTokens ==
    /\ revoked \cap expired # {}
    /\ revoked' = revoked \ expired
    /\ UNCHANGED <<users, activeSessions, redis, rdb, tokVars, req, histVars>>

(* The TTL of session:<jti> starts when the key is set, after the token    *)
(* was made, and is as long as the life of the token.                      *)
RedisTTL(j) ==
    /\ j \in expired
    /\ redis[j] # NoUser
    /\ redis' = [redis EXCEPT ![j] = NoUser]
    /\ UNCHANGED <<dbVars, rdb, tokVars, req, histVars>>

RedisSave ==
    /\ Fails("redisRestart")
    /\ rdb # redis
    /\ rdb' = redis
    /\ UNCHANGED <<dbVars, redis, tokVars, req, histVars>>

RedisRestart ==
    /\ Fails("redisRestart")
    /\ redis' = rdb
    /\ UNCHANGED <<dbVars, rdb, tokVars, req, histVars>>

Abort(r) ==
    /\ Fails("abort")
    /\ ~At(r, "idle")
    /\ Reject(r)
    /\ UNCHANGED <<dbVars, redis, rdb, tokVars>>

Environment ==
    \/ \E j \in Jti : Expire(j) \/ RedisTTL(j)
    \/ CleanupExpiredTokens
    \/ RedisSave
    \/ RedisRestart

Next ==
    \/ \E r \in Requests :
         Login(r) \/ Authenticated(r) \/ ClearActiveSession(r) \/ Admin(r)
           \/ Abort(r)
    \/ Environment

Spec == Init /\ [][Next]_vars

-----------------------------------------------------------------------------
(* Fairness.  Time passes, also for a token that is used again and again,  *)
(* and the ticker of the cleanup goroutine fires; a request that has       *)
(* arrived is carried through, for every call returns.  Nobody is obliged  *)
(* to send a request.                                                      *)
Serve(r) == ~At(r, "idle") /\ (Login(r) \/ Authenticated(r)
                                 \/ ClearActiveSession(r) \/ Admin(r))

Fairness ==
    /\ \A j \in Jti : SF_vars(Expire(j))
    /\ WF_vars(CleanupExpiredTokens)
    /\ \A r \in Requests : WF_vars(Serve(r))

FairSpec == Spec /\ Fairness
-----------------------------------------------------------------------------
(* Properties.                                                             *)

(* A request whose token was not the session of its user when it arrived   *)
(* never reaches a handler, in whatever order logins, clearings, failures  *)
(* and cleanups fall between the checks of JWTProtected.  (A token that    *)
(* expires between ParseToken and the checks is past caring about.)        *)
AdmittedWasLive ==
    \A r \in Requests : At(r, "handler") => req[r].live \/ req[r].jti \in expired

(* A token whose logout was answered with success is never admitted again: *)
(* not after a failed deletion in Redis, not after Redis came back with an *)
(* older state, not after the cleanup, which must not forget a revocation  *)
(* before the token has expired.                                           *)
LogoutIsFinal == \A j \in ended["logout"] : ~SessionLive(j)

(* Of all the tokens a user was given, at most one is admitted.            *)
AtMostOneSession ==
    \A u \in Users : Cardinality({j \in TokensOf(u) : Admissible(j)}) <= 1

(* Whatever ended a session with success, a login, a logout, a ban, a      *)
(* deactivation or a deletion, the tokens it set out to end are dead for   *)
(* good, also after the user is unbanned or activated again.               *)
EndedNeverLive == \A k \in Ending : \A j \in ended[k] : ~SessionLive(j)

(* No session is lost: a token that reached its client is admitted until   *)
(* it expires or some request sets out to end it, whatever fails meanwhile.*)
SessionKept == \A j \in delivered \ (claimed \cup expired) : SessionLive(j)

(* revoked_tokens does not grow for ever: every entry is removed again.    *)
RevocationsAreForgotten == \A j \in Jti : j \in revoked ~> j \notin revoked

(* The sessions the two stores agree to, as SingleSession sees them.  A    *)
(* token is used up when its login has written the row or has given up.    *)
Issuing(j) == \E r \in Requests :
    /\ req[r].kind = "login"
    /\ req[r].jti = j
    /\ req[r].pc \in {"getOld", "revokeOld", "delOld", "upsert"}

OpenSessions == {<<owner[j], j>> : j \in {k \in Jti : SessionLive(k)}}
UsedTokens   == {j \in Jti : owner[j] # NoUser /\ ~Issuing(j)}

Abstract == INSTANCE SingleSession WITH
    sessions <- OpenSessions, used <- UsedTokens

(* The two stores and the steps between them behave as one session per     *)
(* user that is opened and closed in one go.                               *)
ImplementsSingleSession == Abstract!SingleSessionSpec
=============================================================================
