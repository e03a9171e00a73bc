---------------------------- MODULE SessionsProofs ----------------------------
(***************************************************************************)
(* What holds of Sessions for any number of users, requests, tokens and    *)
(* failures.                                                               *)
(*                                                                         *)
(* The first part is about everything at once: types, logouts, deletions   *)
(* and admission.  The second shows that Sessions implements SingleSession *)
(* wherever the row of active_sessions decides, which it does without      *)
(* Redis however requests overtake each other, and with Redis for one      *)
(* request at a time; and what follows for the tokens that were ended and  *)
(* for those that were not.                                                *)
(***************************************************************************)
EXTENDS Sessions, FiniteSetTheorems, TLAPS

-----------------------------------------------------------------------------
(* The inductive invariant.  Each conjunct is named; the theorems at the   *)
(* end say which property needs which.                                     *)

LoginSteps  == {"getOld", "revokeOld", "delOld", "upsert", "setNew"}
CheckSteps  == {"revoked", "session", "rowSession", "status", "handler"}
LogoutSteps == {"clearDel", "clearRow"}
AdminSteps  == {"update", "clearLookup", "clearDel", "clearRow", "softDelete"}

(* What a request is doing fits where it is, and a login revokes only a    *)
(* token it has found.                                                     *)
Shape ==
    \A r \in Requests :
      /\ req[r].pc = "revokeOld" => req[r].found # NoJti
      /\ \/ req[r].kind = "none"  /\ req[r].pc = "idle"
         \/ req[r].kind = "login" /\ req[r].pc \in LoginSteps
         \/ req[r].kind = "use"   /\ req[r].pc \in CheckSteps
         \/ /\ req[r].kind \in {"logout", "logoutAll"}
            /\ req[r].pc \in CheckSteps \cup LogoutSteps
         \/ req[r].kind \in AdminKinds /\ req[r].pc \in AdminSteps

(* A request that presents a token holds one that was delivered; a login   *)
(* holds one that nobody else has seen.                                    *)
Tokens ==
    /\ \A j \in delivered : owner[j] # NoUser
    /\ \A r \in Requests :
         /\ req[r].kind # "none" => req[r].user \in Users
         /\ req[r].kind \in AuthKinds =>
              req[r].jti \in delivered /\ owner[req[r].jti] = req[r].user
         /\ req[r].kind = "login" =>
              /\ req[r].jti \in Jti \ delivered
              /\ owner[req[r].jti] = req[r].user
    /\ \A r, s \in Requests :
         req[r].kind = "login" /\ req[s].kind = "login" /\ r # s
           => req[r].jti # req[s].jti

(* Redis, its snapshot and the rows hold tokens under the name of their    *)
(* owner, so that the comparison of the UserID in IsActiveSession never    *)
(* refuses anybody.                                                        *)
Stores ==
    /\ \A j \in Jti : /\ redis[j] \in {NoUser, owner[j]}
                      /\ rdb[j] \in {NoUser, owner[j]}
                      /\ ~RedisEnabled => redis[j] = NoUser /\ rdb[j] = NoUser
    /\ \A u \in Users : activeSessions[u] # NoJti => owner[activeSessions[u]] = u

(* A logout that was answered, or is past RevokeToken, has revoked its     *)
(* token, and the cleanup has not forgotten it before it expired.          *)
LoggedOut ==
    /\ ended["logout"] \subseteq revoked \cup expired
    /\ \A r \in Requests : req[r].kind = "logout" =>
         /\ req[r].ends = {req[r].jti}
         /\ req[r].pc \in LogoutSteps => req[r].jti \in revoked \cup expired

(* Neither store knows the token.  For a delivered token this is for good. *)
Forgotten(j) == redis[j] = NoUser /\ activeSessions[owner[j]] # j

(* A request that arrived with a dead token is stopped by one of the       *)
(* checks that are still ahead of it.                                      *)
Stopped ==
    \A r \in Requests :
        req[r].kind \in AuthKinds /\ ~req[r].live =>
          \/ req[r].jti \in expired
          \/ req[r].pc = "revoked"
               /\ (req[r].jti \in revoked \/ Forgotten(req[r].jti))
          \/ req[r].pc \in {"session", "rowSession"} /\ Forgotten(req[r].jti)

-----------------------------------------------------------------------------
(* Requests as records.                                                    *)

(* The record of an idle slot is a request.                                *)
LEMMA IdleType == Idle \in Request
  BY DEF Idle, Request, Kinds, AuthKinds, AdminKinds, Steps, NoJti

(* Moving a request to another step keeps it a request.                    *)
LEMMA GotoType ==
  ASSUME TypeOK, NEW r \in Requests, NEW pc \in Steps, Goto(r, pc)
  PROVE  req' \in [Requests -> Request]
  <1>1. req[r] \in Request
    BY DEF TypeOK
  <1>2. [req[r] EXCEPT !.pc = pc] \in Request
    BY <1>1 DEF Request
  <1> QED BY <1>2 DEF TypeOK, Goto

(* Refusing a request leaves its slot idle and the history as it is.       *)
LEMMA RejectType ==
  ASSUME TypeOK, NEW r \in Requests, Reject(r)
  PROVE  /\ req' \in [Requests -> Request]
         /\ claimed' \subseteq Jti
         /\ ended' \in [Ending -> SUBSET Jti]
  BY IdleType DEF TypeOK, Reject, histVars

(* Answering a request with success adds to the history what it ended.     *)
LEMMA RespondType ==
  ASSUME TypeOK, NEW r \in Requests, Respond(r)
  PROVE  /\ req' \in [Requests -> Request]
         /\ claimed' \subseteq Jti
         /\ ended' \in [Ending -> SUBSET Jti]
  <1>1. req' \in [Requests -> Request]
    BY IdleType DEF TypeOK, Respond
  <1>2. claimed' \subseteq Jti
    BY DEF TypeOK, Respond
  <1>3. req[r].ends \subseteq Jti /\ ended \in [Ending -> SUBSET Jti]
    BY DEF TypeOK, Request
  <1>4. ended' \in [Ending -> SUBSET Jti]
    BY <1>3 DEF Respond
  <1> QED BY <1>1, <1>2, <1>4

(* A request that arrives is a request.                                    *)
LEMMA ArriveType ==
  ASSUME TypeOK, NEW r \in Requests, NEW kind \in Kinds, NEW pc \in Steps,
         NEW u \in Users, NEW j \in Jti \cup {NoJti}, NEW ends \in SUBSET Jti,
         Arrive(r, kind, pc, u, j, ends)
  PROVE  /\ req' \in [Requests -> Request]
         /\ claimed' \subseteq Jti
         /\ ended' \in [Ending -> SUBSET Jti]
  <1>1. (kind \in AuthKinds /\ SessionLive(j)) \in BOOLEAN
    OBVIOUS
  <1> DEFINE live == kind \in AuthKinds /\ SessionLive(j)
  <1>2. [kind |-> kind, pc |-> pc, user |-> u, jti |-> j, found |-> NoJti,
         ends |-> ends, live |-> live] \in Request
    <2> HIDE DEF live
    <2> QED BY <1>1 DEF Request, live
  <1> QED BY <1>2 DEF TypeOK, Arrive

(* Moving on with a looked-up token keeps it a request.                    *)
LEMMA FoundType ==
  ASSUME TypeOK, NEW r \in Requests, NEW pc \in Steps, NEW j \in Jti \cup {NoJti},
         req' = [req EXCEPT ![r].found = j, ![r].pc = pc]
  PROVE  req' \in [Requests -> Request]
  <1>1. req[r] \in Request
    BY DEF TypeOK
  <1>2. [req[r] EXCEPT !.found = j, !.pc = pc] \in Request
    BY <1>1 DEF Request
  <1> QED BY <1>2 DEF TypeOK

(* The fields of a request have their types.                               *)
LEMMA ReqFields ==
  ASSUME TypeOK, NEW r \in Requests
  PROVE  /\ req[r].kind \in Kinds /\ req[r].pc \in Steps
         /\ req[r].user \in Users \cup {NoUser}
         /\ req[r].jti \in Jti \cup {NoJti} /\ req[r].found \in Jti \cup {NoJti}
         /\ req[r].ends \subseteq Jti /\ req[r].live \in BOOLEAN
  BY DEF TypeOK, Request

(* What a step does to the fields of the requests: the slot r either keeps *)
(* the fields that say what it is about, or is idle again; all other slots *)
(* stay as they are.                                                       *)
Others(r) == \A s \in Requests : s # r => req'[s] = req[s]

Keeps(r) ==
    /\ Others(r)
    /\ req'[r].kind = req[r].kind /\ req'[r].user = req[r].user
    /\ req'[r].jti = req[r].jti /\ req'[r].ends = req[r].ends
    /\ req'[r].live = req[r].live

Frees(r) == Others(r) /\ req'[r] = Idle

(* Moving a request to another step changes only its pc.                   *)
LEMMA GotoKeeps ==
  ASSUME TypeOK, NEW r \in Requests, NEW pc \in Steps, Goto(r, pc)
  PROVE  Keeps(r) /\ req'[r].pc = pc
  BY DEF TypeOK, Request, Goto, Keeps, Others

(* So does moving it on with a token that was looked up.                   *)
LEMMA FoundKeeps ==
  ASSUME TypeOK, NEW r \in Requests, NEW pc \in Steps, NEW j \in Jti \cup {NoJti},
         req' = [req EXCEPT ![r].found = j, ![r].pc = pc]
  PROVE  Keeps(r) /\ req'[r].pc = pc
  BY DEF TypeOK, Request, Keeps, Others

(* A refused request has ended nothing.                                    *)
LEMMA RejectFrees ==
  ASSUME TypeOK, NEW r \in Requests, Reject(r)
  PROVE  Frees(r) /\ ended' = ended
  BY DEF TypeOK, Reject, Frees, Others, histVars

(* An answered request has ended what it set out to end.                   *)
LEMMA RespondFrees ==
  ASSUME TypeOK, NEW r \in Requests, Respond(r)
  PROVE  /\ Frees(r)
         /\ \A k \in Ending :
              ended'[k] \subseteq ended[k] \cup (IF req[r].kind = k THEN req[r].ends
                                                                ELSE {})
  BY DEF TypeOK, Respond, Frees, Others

(* A busy slot has a user.                                                 *)
LEMMA BusyUser ==
  ASSUME Shape, Tokens, NEW r \in Requests, req[r].pc # "idle"
  PROVE  req[r].user \in Users
  BY DEF Shape, Tokens, AdminKinds

(* A status update leaves every row a row.                                 *)
LEMMA SetStatusEffect ==
  ASSUME TypeOK, NEW r \in Requests, req[r].user \in Users, SetStatus(r)
  PROVE  users' \in [Users -> [isActive : BOOLEAN, isBanned : BOOLEAN,
                               isDeleted : BOOLEAN]]
  <1>1. PICK row \in {[users[req[r].user] EXCEPT !.isBanned = TRUE],
                      [users[req[r].user] EXCEPT !.isBanned = FALSE],
                      [users[req[r].user] EXCEPT !.isActive = TRUE],
                      [users[req[r].user] EXCEPT !.isActive = FALSE]} :
          users' = [users EXCEPT ![req[r].user] = row]
    BY DEF SetStatus
  <1>2. row \in [isActive : BOOLEAN, isBanned : BOOLEAN, isDeleted : BOOLEAN]
    <2>1. users[req[r].user] \in [isActive : BOOLEAN, isBanned : BOOLEAN, isDeleted : BOOLEAN]
      BY DEF TypeOK
    <2> QED BY <1>1, <2>1
  <1> QED BY <1>1, <1>2 DEF TypeOK

(* Next, one disjunct per action.                                          *)
LEMMA NextCases ==
  ASSUME Next
  PROVE  \/ \E r \in Requests :
              \/ \E u \in Users, j \in Jti : LoginHandler(r, u, j)
              \/ \E kind \in AuthKinds, j \in Jti : ParseToken(r, kind, j)
              \/ \E kind \in AdminKinds, u \in Users : AdminRequest(r, kind, u)
              \/ GetOldSession(r) \/ RevokeOldToken(r) \/ DeleteOldSession(r)
              \/ UpsertSession(r) \/ SetNewSession(r) \/ IsTokenRevoked(r)
              \/ GetSession(r) \/ GetSessionRow(r) \/ CheckUserStatus(r)
              \/ UseHandler(r) \/ RevokeOwnToken(r) \/ ClearLookup(r)
              \/ ClearRedis(r) \/ ClearRow(r) \/ SetStatus(r)
              \/ SoftDelete(r) \/ Abort(r)
         \/ \E j \in Jti : Expire(j) \/ RedisTTL(j)
         \/ CleanupExpiredTokens \/ RedisSave \/ RedisRestart
  BY DEF Next, Login, Authenticated, ClearActiveSession, Admin, Environment


-----------------------------------------------------------------------------
(* Types.                                                                  *)

(* The types hold at the start.                                            *)
LEMMA TypeInit == Init => TypeOK
  BY IdleType DEF Init, TypeOK

(* Every step keeps the types.                                             *)
LEMMA TypeStep ==
  ASSUME TypeOK, Shape, Tokens, [Next]_vars
  PROVE  TypeOK'
  <1> USE DEF dbVars, tokVars, histVars
  <1>1. ASSUME NEW r \in Requests, NEW u \in Users, NEW j \in Jti,
               LoginHandler(r, u, j)
        PROVE  TypeOK'
    <2>1. /\ TokensOf(u) \in SUBSET Jti
          /\ "login" \in Kinds /\ "getOld" \in Steps
      BY DEF TypeOK, TokensOf, Kinds, Steps
    <2>2. /\ req' \in [Requests -> Request]
          /\ claimed' \subseteq Jti
          /\ ended' \in [Ending -> SUBSET Jti]
      BY <1>1, <2>1, ArriveType DEF LoginHandler
    <2> QED BY <1>1, <2>2 DEF LoginHandler, TypeOK
  <1>2. ASSUME NEW r \in Requests, NEW kind \in AuthKinds, NEW j \in Jti,
               ParseToken(r, kind, j)
        PROVE  TypeOK'
    <2> DEFINE ends == CASE kind = "logout"    -> {j}
                         [] kind = "logoutAll" -> TokensOf(owner[j])
                         [] OTHER              -> {}
    <2>1. ends \in SUBSET Jti
      BY DEF TypeOK, TokensOf, AuthKinds
    <2>2. kind \in Kinds /\ "revoked" \in Steps /\ owner[j] \in Users
      BY <1>2 DEF ParseToken, Kinds, Steps, Tokens, TypeOK
    <2>3. Arrive(r, kind, "revoked", owner[j], j, ends)
      BY <1>2 DEF ParseToken
    <2> HIDE DEF ends
    <2>4. /\ req' \in [Requests -> Request]
          /\ claimed' \subseteq Jti
          /\ ended' \in [Ending -> SUBSET Jti]
      BY <2>1, <2>2, <2>3, ArriveType
    <2> QED BY <1>2, <2>4 DEF ParseToken, TypeOK
  <1>3. ASSUME NEW r \in Requests, NEW kind \in AdminKinds, NEW u \in Users,
               AdminRequest(r, kind, u)
        PROVE  TypeOK'
    <2> DEFINE ends == IF kind \in Ending THEN TokensOf(u) ELSE {}
    <2> DEFINE pc == IF kind = "delete" THEN StartClear ELSE "update"
    <2>1. ends \in SUBSET Jti /\ kind \in Kinds /\ pc \in Steps /\ NoJti \in Jti \cup {NoJti}
      BY DEF TypeOK, TokensOf, Kinds, Steps, StartClear
    <2>2. Arrive(r, kind, pc, u, NoJti, ends)
      BY <1>3 DEF AdminRequest
    <2> HIDE DEF ends, pc
    <2>3. /\ req' \in [Requests -> Request]
          /\ claimed' \subseteq Jti
          /\ ended' \in [Ending -> SUBSET Jti]
      BY <2>1, <2>2, ArriveType
    <2> QED BY <1>3, <2>3 DEF AdminRequest, TypeOK
  <1>4. ASSUME NEW r \in Requests, GetOldSession(r)
        PROVE  TypeOK'
    <2>1. activeSessions[req[r].user] \in Jti \cup {NoJti}
      BY <1>4, BusyUser DEF GetOldSession, At, TypeOK
    <2>2. PICK old \in Jti \cup {NoJti} :
            req' = [req EXCEPT ![r].found = old,
                               ![r].pc = IF old = NoJti THEN "upsert"
                                                        ELSE "revokeOld"]
      BY <1>4, <2>1 DEF GetOldSession
    <2>3. req' \in [Requests -> Request]
      BY <2>2, FoundType DEF Steps
    <2> QED BY <1>4, <2>3 DEF GetOldSession, TypeOK
  <1>5. ASSUME NEW r \in Requests, RevokeOldToken(r)
        PROVE  TypeOK'
    <2>1. req[r].found \in Jti
      BY <1>5, ReqFields DEF RevokeOldToken, At, Shape
    <2>2. req' \in [Requests -> Request]
      BY <1>5, GotoType DEF RevokeOldToken, Steps
    <2> QED BY <1>5, <2>1, <2>2 DEF RevokeOldToken, TypeOK
  <1>6. ASSUME NEW r \in Requests, DeleteOldSession(r)
        PROVE  TypeOK'
    <2>1. req' \in [Requests -> Request]
      BY <1>6, GotoType DEF DeleteOldSession, Steps
    <2> QED BY <1>6, <2>1 DEF DeleteOldSession, TypeOK
  <1>7. ASSUME NEW r \in Requests, UpsertSession(r)
        PROVE  TypeOK'
    <2>1. req' \in [Requests -> Request]
      BY <1>7, GotoType DEF UpsertSession, Steps
    <2> QED BY <1>7, <2>1, ReqFields DEF UpsertSession, TypeOK
  <1>8. ASSUME NEW r \in Requests, SetNewSession(r)
        PROVE  TypeOK'
    <2>1. req[r].jti \in Jti
      BY <1>8 DEF SetNewSession, At, Shape, Tokens, LoginSteps, CheckSteps,
                  LogoutSteps, AdminSteps
    <2>2. redis' \in [Jti -> Users \cup {NoUser}]
      BY <1>8, ReqFields DEF SetNewSession, TypeOK
    <2> QED BY <1>8, <2>1, <2>2, RespondType DEF SetNewSession, TypeOK
  <1>9. ASSUME NEW r \in Requests,
               IsTokenRevoked(r) \/ GetSession(r) \/ GetSessionRow(r)
                 \/ CheckUserStatus(r)
        PROVE  TypeOK'
    <2>1. CASE Reject(r)
      BY <1>9, <2>1, RejectType DEF IsTokenRevoked, GetSession, GetSessionRow,
                                    CheckUserStatus, TypeOK
    <2>2. CASE ~Reject(r)
      <3>1. PICK pc \in Steps : Goto(r, pc) /\ UNCHANGED histVars
        BY <1>9, <2>2 DEF IsTokenRevoked, GetSession, GetSessionRow,
                          CheckUserStatus, Steps
      <3>2. req' \in [Requests -> Request]
        BY <3>1, GotoType
      <3> QED BY <1>9, <3>1, <3>2 DEF IsTokenRevoked, GetSession, GetSessionRow,
                                      CheckUserStatus, TypeOK
    <2> QED BY <2>1, <2>2
  <1>10. ASSUME NEW r \in Requests, UseHandler(r)
         PROVE  TypeOK'
    BY <1>10, RespondType DEF UseHandler, TypeOK
  <1>11. ASSUME NEW r \in Requests, RevokeOwnToken(r)
         PROVE  TypeOK'
    <2>1. req[r].jti \in Jti
      BY <1>11 DEF RevokeOwnToken, Tokens, AuthKinds, TypeOK
    <2>2. req' \in [Requests -> Request]
      BY <1>11, <2>1, FoundType DEF RevokeOwnToken, Steps
    <2> QED BY <1>11, <2>1, <2>2 DEF RevokeOwnToken, TypeOK
  <1>12. ASSUME NEW r \in Requests, ClearLookup(r)
         PROVE  TypeOK'
    <2>1. activeSessions[req[r].user] \in Jti \cup {NoJti}
      BY <1>12, BusyUser DEF ClearLookup, At, TypeOK
    <2>2. PICK j \in Jti \cup {NoJti} :
            req' = [req EXCEPT ![r].found = j,
                               ![r].pc = IF j = NoJti THEN "clearRow"
                                                      ELSE "clearDel"]
      BY <1>12, <2>1 DEF ClearLookup
    <2>3. req' \in [Requests -> Request]
      BY <2>2, FoundType DEF Steps
    <2> QED BY <1>12, <2>3 DEF ClearLookup, TypeOK
  <1>13. ASSUME NEW r \in Requests, ClearRedis(r)
         PROVE  TypeOK'
    <2>1. req' \in [Requests -> Request]
      BY <1>13, GotoType DEF ClearRedis, Steps
    <2> QED BY <1>13, <2>1 DEF ClearRedis, TypeOK
  <1>14. ASSUME NEW r \in Requests, ClearRow(r)
         PROVE  TypeOK'
    <2>1. \/ Goto(r, "softDelete") /\ UNCHANGED histVars
          \/ Reject(r) \/ Respond(r)
      BY <1>14 DEF ClearRow
    <2>2. /\ req' \in [Requests -> Request]
          /\ claimed' \subseteq Jti
          /\ ended' \in [Ending -> SUBSET Jti]
      BY <2>1, GotoType, RejectType, RespondType DEF Steps, TypeOK
    <2> QED BY <1>14, <2>2 DEF ClearRow, TypeOK
  <1>15. ASSUME NEW r \in Requests, SetStatus(r)
         PROVE  TypeOK'
    <2>1. \/ Goto(r, StartClear) /\ UNCHANGED histVars
          \/ Respond(r)
      BY <1>15 DEF SetStatus
    <2>2. StartClear \in Steps
      BY DEF StartClear, Steps
    <2>3. /\ req' \in [Requests -> Request]
          /\ claimed' \subseteq Jti
          /\ ended' \in [Ending -> SUBSET Jti]
      BY <2>1, <2>2, GotoType, RespondType DEF TypeOK
    <2>4. req[r].user \in Users
      BY <1>15, BusyUser DEF SetStatus, At
    <2>5. users' \in [Users -> [isActive : BOOLEAN, isBanned : BOOLEAN,
                                isDeleted : BOOLEAN]]
      BY <1>15, <2>4, SetStatusEffect DEF TypeOK
    <2> QED BY <1>15, <2>3, <2>5 DEF SetStatus, TypeOK
  <1>16. ASSUME NEW r \in Requests, SoftDelete(r)
         PROVE  TypeOK'
    <2>1. users' \in [Users -> [isActive : BOOLEAN, isBanned : BOOLEAN,
                                isDeleted : BOOLEAN]]
      BY <1>16 DEF SoftDelete, TypeOK
    <2> QED BY <1>16, <2>1, RespondType DEF SoftDelete, TypeOK
  <1>17. ASSUME NEW r \in Requests, Abort(r)
         PROVE  TypeOK'
    BY <1>17, RejectType DEF Abort, TypeOK
  <1>18. ASSUME NEW j \in Jti, Expire(j) \/ RedisTTL(j)
         PROVE  TypeOK'
    BY <1>18 DEF Expire, RedisTTL, TypeOK
  <1>19. CASE CleanupExpiredTokens \/ RedisSave \/ RedisRestart
    BY <1>19 DEF CleanupExpiredTokens, RedisSave, RedisRestart, TypeOK
  <1>20. CASE UNCHANGED vars
    BY <1>20 DEF vars, TypeOK
  <1> QED
    BY <1>1, <1>2, <1>3, <1>4, <1>5, <1>6, <1>7, <1>8, <1>9, <1>10, <1>11,
       <1>12, <1>13, <1>14, <1>15, <1>16, <1>17, <1>18, <1>19, <1>20, NextCases

-----------------------------------------------------------------------------
(* Where a step can take a request.                                        *)

(* A request is at a step only for what leads there.                       *)
LEMMA KindAt ==
  ASSUME Shape, NEW r \in Requests
  PROVE  /\ req[r].pc \in LoginSteps => req[r].kind = "login"
         /\ req[r].pc \in CheckSteps => req[r].kind \in AuthKinds
         /\ req[r].pc \in {"update", "clearLookup", "softDelete"} => req[r].kind \in AdminKinds
         /\ req[r].pc \in LogoutSteps =>
              req[r].kind \in {"logout", "logoutAll"} \cup AdminKinds
  BY DEF Shape, LoginSteps, CheckSteps, LogoutSteps, AdminSteps, AuthKinds

(* These steps neither refuse nor answer.                                  *)
LEMMA MovesOn ==
  ASSUME TypeOK, Shape, Tokens, NEW r \in Requests,
         \/ GetOldSession(r) \/ RevokeOldToken(r) \/ DeleteOldSession(r)
         \/ UpsertSession(r) \/ ClearLookup(r) \/ RevokeOwnToken(r)
         \/ ClearRedis(r)
  PROVE  Keeps(r) /\ ended' = ended
  <1> USE DEF At, histVars
  <1>1. CASE GetOldSession(r)
    <2>1. activeSessions[req[r].user] \in Jti \cup {NoJti}
      BY <1>1, BusyUser DEF GetOldSession, TypeOK
    <2> QED BY <1>1, <2>1, FoundKeeps DEF GetOldSession, Steps
  <1>2. CASE ClearLookup(r)
    <2>1. activeSessions[req[r].user] \in Jti \cup {NoJti}
      BY <1>2, BusyUser DEF ClearLookup, TypeOK
    <2> QED BY <1>2, <2>1, FoundKeeps DEF ClearLookup, Steps
  <1>3. CASE RevokeOwnToken(r)
    BY <1>3, FoundKeeps, ReqFields DEF RevokeOwnToken, Steps
  <1>4. CASE RevokeOldToken(r) \/ DeleteOldSession(r) \/ UpsertSession(r) \/ ClearRedis(r)
    BY <1>4, GotoKeeps DEF RevokeOldToken, DeleteOldSession, UpsertSession,
                           ClearRedis, Steps
  <1> QED BY <1>1, <1>2, <1>3, <1>4

(* Every step of a request that is being served moves it on or ends it.    *)
LEMMA MoveKeeps ==
  ASSUME TypeOK, Shape, Tokens, NEW r \in Requests,
         \/ GetOldSession(r) \/ RevokeOldToken(r) \/ DeleteOldSession(r)
         \/ UpsertSession(r) \/ SetNewSession(r) \/ IsTokenRevoked(r)
         \/ GetSession(r) \/ GetSessionRow(r) \/ CheckUserStatus(r)
         \/ UseHandler(r) \/ RevokeOwnToken(r) \/ ClearLookup(r)
         \/ ClearRedis(r) \/ ClearRow(r) \/ SetStatus(r)
         \/ SoftDelete(r) \/ Abort(r)
  PROVE  /\ Keeps(r) \/ Frees(r)
         /\ req[r].pc # "idle"
  <1> USE DEF At
  <1>1. CASE \/ GetOldSession(r) \/ RevokeOldToken(r) \/ DeleteOldSession(r)
             \/ UpsertSession(r) \/ ClearLookup(r) \/ RevokeOwnToken(r)
             \/ ClearRedis(r)
    BY <1>1, MovesOn DEF GetOldSession, RevokeOldToken, DeleteOldSession, UpsertSession,
                         ClearLookup, RevokeOwnToken, ClearRedis
  <1>2. CASE SetNewSession(r) \/ UseHandler(r) \/ SoftDelete(r)
    BY <1>2, RespondFrees DEF SetNewSession, UseHandler, SoftDelete
  <1>3. CASE IsTokenRevoked(r) \/ GetSession(r) \/ GetSessionRow(r) \/ CheckUserStatus(r)
    BY <1>3, GotoKeeps, RejectFrees DEF IsTokenRevoked, GetSession,
                                        GetSessionRow, CheckUserStatus, Steps
  <1>4. CASE ClearRow(r)
    <2>1. Goto(r, "softDelete") \/ Reject(r) \/ Respond(r)
      BY <1>4 DEF ClearRow
    <2> QED BY <1>4, <2>1, GotoKeeps, RejectFrees, RespondFrees DEF ClearRow, Steps
  <1>5. CASE SetStatus(r)
    <2>1. Goto(r, StartClear) \/ Respond(r)
      BY <1>5 DEF SetStatus
    <2>2. StartClear \in Steps
      BY DEF StartClear, Steps
    <2> QED BY <1>5, <2>1, <2>2, GotoKeeps, RespondFrees DEF SetStatus
  <1>6. CASE Abort(r)
    BY <1>6, RejectFrees DEF Abort
  <1> QED BY <1>1, <1>2, <1>3, <1>4, <1>5, <1>6

(* A step of the environment leaves every request where it is.             *)
LEMMA EnvironmentKeeps ==
  ASSUME \/ \E j \in Jti : Expire(j) \/ RedisTTL(j)
         \/ CleanupExpiredTokens \/ RedisSave \/ RedisRestart
         \/ UNCHANGED vars
  PROVE  UNCHANGED <<req, histVars, owner, delivered, users, activeSessions>>
  BY DEF Expire, RedisTTL, CleanupExpiredTokens, RedisSave, RedisRestart, vars,
         dbVars, tokVars, histVars

(* A new request takes an idle slot.                                       *)
LEMMA ArriveTakes ==
  ASSUME TypeOK, NEW r \in Requests, NEW kind, NEW pc, NEW u, NEW j, NEW ends,
         Arrive(r, kind, pc, u, j, ends)
  PROVE  /\ Others(r) /\ req[r].pc = "idle" /\ ended' = ended
         /\ req'[r].kind = kind /\ req'[r].pc = pc /\ req'[r].user = u
         /\ req'[r].jti = j /\ req'[r].found = NoJti /\ req'[r].ends = ends
         /\ req'[r].live = (kind \in AuthKinds /\ SessionLive(j))
  BY DEF TypeOK, Arrive, At, Others

(* At the start every slot is idle.                                        *)
LEMMA ShapeInit == Init => Shape
  BY DEF Init, Shape, Idle

(* Every step of a request leads to a step of the same kind of request.    *)
LEMMA ShapeStep ==
  ASSUME TypeOK, Shape, Tokens, [Next]_vars
  PROVE  Shape'
  <1> USE DEF LoginSteps, CheckSteps, LogoutSteps, AdminSteps, At
  <1> DEFINE Fits(q) ==
        /\ q.pc = "revokeOld" => q.found # NoJti
        /\ \/ q.kind = "none"  /\ q.pc = "idle"
           \/ q.kind = "login" /\ q.pc \in LoginSteps
           \/ q.kind = "use"   /\ q.pc \in CheckSteps
           \/ q.kind \in {"logout", "logoutAll"} /\ q.pc \in CheckSteps \cup LogoutSteps
           \/ q.kind \in AdminKinds /\ q.pc \in AdminSteps
  <1>1. \A r \in Requests : Fits(req[r])
    BY DEF Shape
  <1>2. ASSUME NEW r \in Requests, Others(r), Fits(req'[r])
        PROVE  Shape'
    BY <1>1, <1>2 DEF Others, Shape
  <1>3. Fits(Idle)
    BY DEF Idle
  <1>4. ASSUME NEW r \in Requests, Frees(r)
        PROVE  Shape'
    BY <1>2, <1>3, <1>4 DEF Frees
  <1>5. ASSUME NEW r \in Requests, NEW pc \in Steps, Keeps(r), req'[r].pc = pc,
               pc # "revokeOld",
               \/ req[r].kind = "login" /\ pc \in LoginSteps
               \/ req[r].kind = "use" /\ pc \in CheckSteps
               \/ req[r].kind \in {"logout", "logoutAll"} /\ pc \in CheckSteps \cup LogoutSteps
               \/ req[r].kind \in AdminKinds /\ pc \in AdminSteps
        PROVE  Shape'
    BY <1>2, <1>5 DEF Keeps
  <1>6. ASSUME NEW r \in Requests,
               \/ \E u \in Users, j \in Jti : LoginHandler(r, u, j)
               \/ \E kind \in AuthKinds, j \in Jti : ParseToken(r, kind, j)
               \/ \E kind \in AdminKinds, u \in Users : AdminRequest(r, kind, u)
        PROVE  Shape'
    <2>1. CASE \E u \in Users, j \in Jti : LoginHandler(r, u, j)
      BY <1>2, <2>1, ArriveTakes DEF LoginHandler
    <2>2. CASE \E kind \in AuthKinds, j \in Jti : ParseToken(r, kind, j)
      BY <1>2, <2>2, ArriveTakes DEF ParseToken, AuthKinds
    <2>3. CASE \E kind \in AdminKinds, u \in Users : AdminRequest(r, kind, u)
      BY <1>2, <2>3, ArriveTakes DEF AdminRequest, StartClear
    <2> QED BY <1>6, <2>1, <2>2, <2>3
  <1>7. ASSUME NEW r \in Requests, GetOldSession(r)
        PROVE  Shape'
    <2>1. activeSessions[req[r].user] \in Jti \cup {NoJti}
      BY <1>7, BusyUser DEF GetOldSession, TypeOK
    <2>2. PICK old \in Jti \cup {NoJti} :
            req' = [req EXCEPT ![r].found = old,
                               ![r].pc = IF old = NoJti THEN "upsert"
                                                        ELSE "revokeOld"]
      BY <1>7, <2>1 DEF GetOldSession
    <2>3. Keeps(r) /\ req'[r].found = old
            /\ req'[r].pc = IF old = NoJti THEN "upsert" ELSE "revokeOld"
      BY <2>2 DEF TypeOK, Request, Keeps, Others
    <2>4. req[r].kind = "login"
      BY <1>1, <1>7 DEF GetOldSession, AdminKinds
    <2> QED BY <1>2, <2>3, <2>4 DEF Keeps
  <1>8. ASSUME NEW r \in Requests, RevokeOldToken(r) \/ DeleteOldSession(r) \/ UpsertSession(r)
        PROVE  Shape'
    <2>1. req[r].kind = "login"
      BY <1>1, <1>8 DEF RevokeOldToken, DeleteOldSession, UpsertSession
    <2> QED BY <1>5, <1>8, <2>1, GotoKeeps DEF RevokeOldToken, DeleteOldSession,
                                              UpsertSession, Steps
  <1>9. ASSUME NEW r \in Requests,
               IsTokenRevoked(r) \/ GetSession(r) \/ GetSessionRow(r) \/ CheckUserStatus(r)
        PROVE  Shape'
    <2>1. req[r].kind \in {"use", "logout", "logoutAll"}
      BY <1>1, <1>9 DEF IsTokenRevoked, GetSession, GetSessionRow, CheckUserStatus
    <2>2. Reject(r) \/ \E pc \in CheckSteps : Goto(r, pc)
      BY <1>9 DEF IsTokenRevoked, GetSession, GetSessionRow, CheckUserStatus
    <2> QED BY <1>4, <1>5, <2>1, <2>2, GotoKeeps, RejectFrees DEF Steps
  <1>10. ASSUME NEW r \in Requests, RevokeOwnToken(r)
         PROVE  Shape'
    BY <1>5, <1>10, FoundKeeps, ReqFields DEF RevokeOwnToken, Steps
  <1>11. ASSUME NEW r \in Requests, ClearLookup(r)
         PROVE  Shape'
    <2>1. activeSessions[req[r].user] \in Jti \cup {NoJti}
      BY <1>11, BusyUser DEF ClearLookup, TypeOK
    <2>2. PICK j \in Jti \cup {NoJti} :
            req' = [req EXCEPT ![r].found = j,
                               ![r].pc = IF j = NoJti THEN "clearRow"
                                                      ELSE "clearDel"]
      BY <1>11, <2>1 DEF ClearLookup
    <2>3. req[r].kind \in AdminKinds
      BY <1>1, <1>11 DEF ClearLookup
    <2> QED BY <1>5, <2>2, <2>3, FoundKeeps DEF Steps
  <1>12. ASSUME NEW r \in Requests, ClearRedis(r)
         PROVE  Shape'
    <2>1. req[r].kind \in {"logout", "logoutAll"} \cup AdminKinds
      BY <1>1, <1>12 DEF ClearRedis
    <2> QED BY <1>5, <1>12, <2>1, GotoKeeps DEF ClearRedis, Steps
  <1>13. ASSUME NEW r \in Requests, ClearRow(r)
         PROVE  Shape'
    <2>1. \/ req[r].kind = "delete" /\ Goto(r, "softDelete")
          \/ Reject(r) \/ Respond(r)
      BY <1>13 DEF ClearRow
    <2> QED BY <1>4, <1>5, <2>1, GotoKeeps, RejectFrees, RespondFrees
            DEF Steps, AdminKinds
  <1>14. ASSUME NEW r \in Requests, SetStatus(r)
         PROVE  Shape'
    <2>1. req[r].kind \in AdminKinds
      BY <1>1, <1>14 DEF SetStatus
    <2>2. Goto(r, StartClear) \/ Respond(r)
      BY <1>14 DEF SetStatus
    <2> QED BY <1>4, <1>5, <2>1, <2>2, GotoKeeps, RespondFrees DEF StartClear, Steps
  <1>15. ASSUME NEW r \in Requests,
                SetNewSession(r) \/ UseHandler(r) \/ SoftDelete(r) \/ Abort(r)
         PROVE  Shape'
    BY <1>4, <1>15, RespondFrees, RejectFrees DEF SetNewSession, UseHandler,
                                                 SoftDelete, Abort
  <1>16. CASE \/ \E j \in Jti : Expire(j) \/ RedisTTL(j)
              \/ CleanupExpiredTokens \/ RedisSave \/ RedisRestart
              \/ UNCHANGED vars
    BY <1>16, EnvironmentKeeps DEF Shape
  <1> QED
    BY <1>6, <1>7, <1>8, <1>9, <1>10, <1>11, <1>12, <1>13, <1>14, <1>15, <1>16,
       NextCases

-----------------------------------------------------------------------------
(* Who holds which token.                                                  *)

(* No token exists at the start.                                           *)
LEMMA TokensInit == Init => Tokens
  BY DEF Init, Tokens, Idle, AuthKinds

(* Only LoginHandler makes a token, a fresh one, and only the login that   *)
(* made it delivers it.                                                    *)
LEMMA TokensStep ==
  ASSUME TypeOK, Shape, Tokens, [Next]_vars
  PROVE  Tokens'
  <1> USE SessionsAssumption
  <1>1. ASSUME NEW r \in Requests, UNCHANGED <<owner, delivered>>,
               Keeps(r) \/ Frees(r)
        PROVE  Tokens'
    BY <1>1 DEF Tokens, Keeps, Frees, Others, Idle, AuthKinds
  <1>2. ASSUME NEW r \in Requests, NEW u \in Users, NEW j \in Jti,
               LoginHandler(r, u, j)
        PROVE  Tokens'
    <2>1. /\ owner[j] = NoUser /\ delivered' = delivered
          /\ owner' = [owner EXCEPT ![j] = u]
          /\ Arrive(r, "login", "getOld", u, j, TokensOf(u))
      BY <1>2 DEF LoginHandler, Fresh
    <2>2. /\ Others(r) /\ req'[r].kind = "login"
          /\ req'[r].user = u /\ req'[r].jti = j
      BY <2>1, ArriveTakes
    <2>3. owner'[j] = u /\ \A k \in Jti : k # j => owner'[k] = owner[k]
      BY <2>1 DEF TypeOK
    <2>4. j \notin delivered
      BY <2>1 DEF Tokens
    <2>5. \A k \in delivered' : owner'[k] # NoUser
      BY <2>1, <2>3 DEF Tokens, TypeOK
    <2>6. ASSUME NEW s \in Requests
          PROVE  /\ req'[s].kind # "none" => req'[s].user \in Users
                 /\ req'[s].kind \in AuthKinds =>
                      req'[s].jti \in delivered' /\ owner'[req'[s].jti] = req'[s].user
                 /\ req'[s].kind = "login" =>
                      /\ req'[s].jti \in Jti \ delivered'
                      /\ owner'[req'[s].jti] = req'[s].user
      <3>1. CASE s = r
        BY <2>1, <2>2, <2>3, <2>4, <3>1 DEF AuthKinds
      <3>2. CASE s # r
        <4>1. req'[s] = req[s]
          BY <2>2, <3>2 DEF Others
        <4>2. req[s].kind \in AuthKinds => req[s].jti # j
          BY <2>4 DEF Tokens
        <4>3. req[s].kind = "login" => req[s].jti # j
          BY <2>1 DEF Tokens, AuthKinds
        <4> QED BY <2>1, <2>3, <4>1, <4>2, <4>3 DEF Tokens, TypeOK
      <3> QED BY <3>1, <3>2
    <2>7. \A s \in Requests : req[s].kind = "login" => req[s].jti # j
      BY <2>1 DEF Tokens
    <2>8. \A s, t \in Requests :
            req'[s].kind = "login" /\ req'[t].kind = "login" /\ s # t
              => req'[s].jti # req'[t].jti
      BY <2>2, <2>7 DEF Tokens, Others
    <2> QED BY <2>5, <2>6, <2>8 DEF Tokens
  <1>3. ASSUME NEW r \in Requests,
               \/ \E kind \in AuthKinds, j \in Jti : ParseToken(r, kind, j)
               \/ \E kind \in AdminKinds, u \in Users : AdminRequest(r, kind, u)
        PROVE  Tokens'
    <2>1. CASE \E kind \in AuthKinds, j \in Jti : ParseToken(r, kind, j)
      <3>1. PICK kind \in AuthKinds, j \in Jti : ParseToken(r, kind, j)
        BY <2>1
      <3>2. /\ Others(r) /\ req'[r].kind = kind /\ req'[r].user = owner[j]
            /\ req'[r].jti = j /\ j \in delivered
            /\ owner' = owner /\ delivered' = delivered
        BY <3>1, ArriveTakes DEF ParseToken, tokVars
      <3>3. owner[j] \in Users /\ kind # "login"
        BY <3>2 DEF Tokens, TypeOK, AuthKinds
      <3> QED BY <3>2, <3>3 DEF Tokens, Others
    <2>2. CASE \E kind \in AdminKinds, u \in Users : AdminRequest(r, kind, u)
      <3>1. PICK kind \in AdminKinds, u \in Users : AdminRequest(r, kind, u)
        BY <2>2
      <3>2. /\ Others(r) /\ req'[r].kind = kind /\ req'[r].user = u
            /\ owner' = owner /\ delivered' = delivered
        BY <3>1, ArriveTakes DEF AdminRequest, tokVars
      <3>3. kind \notin AuthKinds /\ kind # "login"
        BY DEF AuthKinds, AdminKinds
      <3> QED BY <3>2, <3>3 DEF Tokens, Others
    <2> QED BY <1>3, <2>1, <2>2
  <1>4. ASSUME NEW r \in Requests, SetNewSession(r)
        PROVE  Tokens'
    <2>1. /\ Frees(r) /\ owner' = owner
          /\ delivered' = delivered \cup {req[r].jti}
      BY <1>4, RespondFrees DEF SetNewSession
    <2>2. req[r].kind = "login"
      BY <1>4 DEF SetNewSession, At, Shape, CheckSteps, LogoutSteps, AdminSteps
    <2>3. owner[req[r].jti] # NoUser
      BY <2>2 DEF Tokens
    <2>4. \A s \in Requests : s # r /\ req[s].kind = "login" => req[s].jti # req[r].jti
      BY <2>2 DEF Tokens
    <2> QED BY <2>1, <2>3, <2>4 DEF Tokens, Frees, Others, Idle, AuthKinds
  <1>5. ASSUME NEW r \in Requests,
               \/ GetOldSession(r) \/ RevokeOldToken(r) \/ DeleteOldSession(r)
               \/ UpsertSession(r) \/ IsTokenRevoked(r)
               \/ GetSession(r) \/ GetSessionRow(r) \/ CheckUserStatus(r)
               \/ UseHandler(r) \/ RevokeOwnToken(r) \/ ClearLookup(r)
               \/ ClearRedis(r) \/ ClearRow(r) \/ SetStatus(r)
               \/ SoftDelete(r) \/ Abort(r)
        PROVE  Tokens'
    <2>1. UNCHANGED <<owner, delivered>>
      BY <1>5 DEF GetOldSession, RevokeOldToken, DeleteOldSession, UpsertSession,
                  IsTokenRevoked, GetSession, GetSessionRow, CheckUserStatus,
                  UseHandler, RevokeOwnToken, ClearLookup, ClearRedis, ClearRow,
                  SetStatus, SoftDelete, Abort, tokVars
    <2> QED BY <1>1, <1>5, <2>1, MoveKeeps
  <1>6. CASE \/ \E j \in Jti : Expire(j) \/ RedisTTL(j)
             \/ CleanupExpiredTokens \/ RedisSave \/ RedisRestart
             \/ UNCHANGED vars
    BY <1>6, EnvironmentKeeps DEF Tokens
  <1> QED BY <1>2, <1>3, <1>4, <1>5, <1>6, NextCases

-----------------------------------------------------------------------------
(* What the stores hold.                                                   *)

(* No store holds a token at the start.                                    *)
LEMMA StoresInit == Init => Stores
  BY DEF Init, Stores

(* A token enters a store only by the login it was made for.               *)
LEMMA StoresStep ==
  ASSUME TypeOK, Shape, Tokens, Stores, [Next]_vars
  PROVE  Stores'
  <1> USE SessionsAssumption DEF dbVars, tokVars
  <1>1. ASSUME NEW r \in Requests, NEW u \in Users, NEW j \in Jti,
               LoginHandler(r, u, j)
        PROVE  Stores'
    <2>1. owner[j] = NoUser /\ owner' = [owner EXCEPT ![j] = u]
      BY <1>1 DEF LoginHandler, Fresh
    <2>2. owner'[j] = u /\ \A k \in Jti : k # j => owner'[k] = owner[k]
      BY <2>1 DEF TypeOK
    <2>3. redis[j] = NoUser /\ rdb[j] = NoUser /\ \A v \in Users : activeSessions[v] # j
      BY <2>1 DEF Stores, NoJti, Jti
    <2>4. UNCHANGED <<redis, rdb, activeSessions>>
      BY <1>1 DEF LoginHandler
    <2>5. \A v \in Users : activeSessions[v] # NoJti => activeSessions[v] \in Jti
      BY DEF TypeOK
    <2> QED BY <2>2, <2>3, <2>4, <2>5 DEF Stores
  <1>2. ASSUME NEW r \in Requests, SetNewSession(r)
        PROVE  Stores'
    <2>1. req[r].kind = "login"
      BY <1>2 DEF SetNewSession, At, Shape, CheckSteps, LogoutSteps, AdminSteps
    <2>2. req[r].jti \in Jti /\ owner[req[r].jti] = req[r].user
      BY <2>1 DEF Tokens
    <2> QED BY <1>2, <2>2 DEF SetNewSession, Stores, TypeOK
  <1>3. ASSUME NEW r \in Requests, UpsertSession(r)
        PROVE  Stores'
    <2>1. req[r].kind = "login"
      BY <1>3 DEF UpsertSession, At, Shape, CheckSteps, LogoutSteps, AdminSteps
    <2>2. owner[req[r].jti] = req[r].user
      BY <2>1 DEF Tokens
    <2> QED BY <1>3, <2>2 DEF UpsertSession, Stores, TypeOK
  <1>4. ASSUME NEW r \in Requests,
               DeleteOldSession(r) \/ ClearRedis(r)
        PROVE  Stores'
    BY <1>4 DEF DeleteOldSession, ClearRedis, Stores, TypeOK
  <1>5. ASSUME NEW r \in Requests, ClearRow(r)
        PROVE  Stores'
    BY <1>5 DEF ClearRow, Stores, TypeOK
  <1>6. ASSUME NEW r \in Requests,
               \/ \E kind \in AuthKinds, j \in Jti : ParseToken(r, kind, j)
               \/ \E kind \in AdminKinds, u \in Users : AdminRequest(r, kind, u)
               \/ GetOldSession(r) \/ RevokeOldToken(r) \/ IsTokenRevoked(r)
               \/ GetSession(r) \/ GetSessionRow(r) \/ CheckUserStatus(r)
               \/ UseHandler(r) \/ RevokeOwnToken(r) \/ ClearLookup(r)
               \/ SetStatus(r) \/ SoftDelete(r) \/ Abort(r)
        PROVE  Stores'
    <2>1. UNCHANGED <<redis, rdb, activeSessions, owner>>
      BY <1>6 DEF ParseToken, AdminRequest, GetOldSession, RevokeOldToken,
                  IsTokenRevoked, GetSession, GetSessionRow, CheckUserStatus,
                  UseHandler, RevokeOwnToken, ClearLookup, SetStatus, SoftDelete,
                  Abort
    <2> QED BY <2>1 DEF Stores
  <1>7. CASE \/ \E j \in Jti : Expire(j) \/ RedisTTL(j)
             \/ CleanupExpiredTokens \/ RedisSave \/ RedisRestart
             \/ UNCHANGED vars
    BY <1>7 DEF Expire, RedisTTL, CleanupExpiredTokens, RedisSave, RedisRestart,
                vars, Stores, TypeOK
  <1> QED BY <1>1, <1>2, <1>3, <1>4, <1>5, <1>6, <1>7, NextCases

-----------------------------------------------------------------------------
(* Logouts.                                                                *)

(* Nobody has logged out at the start.                                     *)
LEMMA LoggedOutInit == Init => LoggedOut
  BY DEF Init, LoggedOut, Idle, Ending

(* Only the cleanup takes a token out of revoked_tokens, and only one that *)
(* has expired.                                                            *)
LEMMA RevokedStays ==
  ASSUME TypeOK, [Next]_vars
  PROVE  revoked \cup expired \subseteq revoked' \cup expired'
  <1> USE DEF dbVars, tokVars
  <1>1. ASSUME NEW r \in Requests,
               \/ \E u \in Users, j \in Jti : LoginHandler(r, u, j)
               \/ \E kind \in AuthKinds, j \in Jti : ParseToken(r, kind, j)
               \/ \E kind \in AdminKinds, u \in Users : AdminRequest(r, kind, u)
               \/ GetOldSession(r) \/ RevokeOldToken(r) \/ DeleteOldSession(r)
               \/ UpsertSession(r) \/ SetNewSession(r) \/ IsTokenRevoked(r)
               \/ GetSession(r) \/ GetSessionRow(r) \/ CheckUserStatus(r)
               \/ UseHandler(r) \/ RevokeOwnToken(r) \/ ClearLookup(r)
               \/ ClearRedis(r) \/ ClearRow(r) \/ SetStatus(r)
               \/ SoftDelete(r) \/ Abort(r)
        PROVE  revoked \subseteq revoked' /\ expired' = expired
    BY <1>1 DEF LoginHandler, ParseToken, AdminRequest, GetOldSession,
                RevokeOldToken, DeleteOldSession, UpsertSession, SetNewSession,
                IsTokenRevoked, GetSession, GetSessionRow, CheckUserStatus,
                UseHandler, RevokeOwnToken, ClearLookup, ClearRedis, ClearRow,
                SetStatus, SoftDelete, Abort
  <1>2. CASE \/ \E j \in Jti : Expire(j) \/ RedisTTL(j)
             \/ CleanupExpiredTokens \/ RedisSave \/ RedisRestart
             \/ UNCHANGED vars
    BY <1>2 DEF Expire, RedisTTL, CleanupExpiredTokens, RedisSave, RedisRestart,
                vars
  <1> QED BY <1>1, <1>2, NextCases

(* An expired token stays expired.                                         *)
LEMMA ExpiredStays ==
  ASSUME [Next]_vars
  PROVE  expired \subseteq expired'
  <1> USE DEF dbVars, tokVars
  <1>1. ASSUME NEW r \in Requests,
               \/ \E u \in Users, j \in Jti : LoginHandler(r, u, j)
               \/ \E kind \in AuthKinds, j \in Jti : ParseToken(r, kind, j)
               \/ \E kind \in AdminKinds, u \in Users : AdminRequest(r, kind, u)
               \/ GetOldSession(r) \/ RevokeOldToken(r) \/ DeleteOldSession(r)
               \/ UpsertSession(r) \/ SetNewSession(r) \/ IsTokenRevoked(r)
               \/ GetSession(r) \/ GetSessionRow(r) \/ CheckUserStatus(r)
               \/ UseHandler(r) \/ RevokeOwnToken(r) \/ ClearLookup(r)
               \/ ClearRedis(r) \/ ClearRow(r) \/ SetStatus(r)
               \/ SoftDelete(r) \/ Abort(r)
        PROVE  expired' = expired
    BY <1>1 DEF LoginHandler, ParseToken, AdminRequest, GetOldSession,
                RevokeOldToken, DeleteOldSession, UpsertSession, SetNewSession,
                IsTokenRevoked, GetSession, GetSessionRow, CheckUserStatus,
                UseHandler, RevokeOwnToken, ClearLookup, ClearRedis, ClearRow,
                SetStatus, SoftDelete, Abort
  <1>2. CASE \/ \E j \in Jti : Expire(j) \/ RedisTTL(j)
             \/ CleanupExpiredTokens \/ RedisSave \/ RedisRestart
             \/ UNCHANGED vars
    BY <1>2 DEF Expire, RedisTTL, CleanupExpiredTokens, RedisSave, RedisRestart,
                vars
  <1> QED BY <1>1, <1>2, NextCases

(* A logout is answered only after it has revoked its token.               *)
LEMMA LoggedOutStep ==
  ASSUME TypeOK, Shape, Tokens, LoggedOut, [Next]_vars
  PROVE  LoggedOut'
  <1>1. revoked \cup expired \subseteq revoked' \cup expired'
    BY RevokedStays
  <1>2. "logout" \in Ending /\ "logout" \notin AdminKinds
    BY DEF Ending, AdminKinds
  <1>3. ASSUME NEW r \in Requests, Frees(r), ended' = ended
        PROVE  LoggedOut'
    BY <1>1, <1>3 DEF LoggedOut, Frees, Others, Idle
  <1>4. ASSUME NEW r \in Requests, Keeps(r), ended' = ended,
               req'[r].pc \in LogoutSteps /\ req[r].kind = "logout"
                 => req[r].jti \in revoked' \cup expired'
        PROVE  LoggedOut'
    BY <1>1, <1>4 DEF LoggedOut, Keeps, Others
  <1>5. ASSUME NEW r \in Requests, Respond(r),
               req[r].kind = "logout" => req[r].jti \in revoked \cup expired
        PROVE  LoggedOut'
    <2>1. /\ Frees(r)
          /\ ended'["logout"] \subseteq
                ended["logout"] \cup (IF req[r].kind = "logout" THEN req[r].ends ELSE {})
      BY <1>2, <1>5, RespondFrees
    <2>2. req[r].kind = "logout" => req[r].ends = {req[r].jti}
      BY DEF LoggedOut
    <2>3. ended'["logout"] \subseteq revoked' \cup expired'
      BY <1>1, <1>5, <2>1, <2>2 DEF LoggedOut
    <2> QED BY <1>1, <2>1, <2>3 DEF LoggedOut, Frees, Others, Idle
  <1>6. ASSUME NEW r \in Requests, NEW kind, NEW pc, NEW u, NEW j, NEW ends,
               Arrive(r, kind, pc, u, j, ends), pc \notin LogoutSteps \/ kind # "logout",
               kind = "logout" => ends = {j}
        PROVE  LoggedOut'
    BY <1>1, <1>6, ArriveTakes DEF LoggedOut, Others
  <1>7. ASSUME NEW r \in Requests,
               \/ \E u \in Users, j \in Jti : LoginHandler(r, u, j)
               \/ \E kind \in AuthKinds, j \in Jti : ParseToken(r, kind, j)
               \/ \E kind \in AdminKinds, u \in Users : AdminRequest(r, kind, u)
        PROVE  LoggedOut'
    <2>1. CASE \E u \in Users, j \in Jti : LoginHandler(r, u, j)
      BY <1>6, <2>1 DEF LoginHandler
    <2>2. CASE \E kind \in AuthKinds, j \in Jti : ParseToken(r, kind, j)
      <3>1. PICK kind \in AuthKinds, j \in Jti : ParseToken(r, kind, j)
        BY <2>2
      <3> DEFINE ends == CASE kind = "logout"    -> {j}
                           [] kind = "logoutAll" -> TokensOf(owner[j])
                           [] OTHER              -> {}
      <3>2. Arrive(r, kind, "revoked", owner[j], j, ends)
        BY <3>1 DEF ParseToken
      <3>3. kind = "logout" => ends = {j}
        OBVIOUS
      <3>4. "revoked" \notin LogoutSteps
        BY DEF LogoutSteps
      <3> HIDE DEF ends
      <3> QED BY <1>6, <3>2, <3>3, <3>4
    <2>3. CASE \E kind \in AdminKinds, u \in Users : AdminRequest(r, kind, u)
      <3>1. PICK kind \in AdminKinds, u \in Users : AdminRequest(r, kind, u)
        BY <2>3
      <3> DEFINE ends == IF kind \in Ending THEN TokensOf(u) ELSE {}
      <3> DEFINE pc == IF kind = "delete" THEN StartClear ELSE "update"
      <3>2. Arrive(r, kind, pc, u, NoJti, ends)
        BY <3>1 DEF AdminRequest
      <3>3. kind # "logout"
        BY <1>2
      <3> HIDE DEF ends, pc
      <3> QED BY <1>6, <3>2, <3>3
    <2> QED BY <1>7, <2>1, <2>2, <2>3
  <1>8. ASSUME NEW r \in Requests,
               GetOldSession(r) \/ RevokeOldToken(r) \/ DeleteOldSession(r)
                 \/ UpsertSession(r) \/ ClearLookup(r) \/ RevokeOwnToken(r)
                 \/ ClearRedis(r)
        PROVE  LoggedOut'
    <2>1. Keeps(r) /\ ended' = ended
      BY <1>8, MovesOn
    <2>2. CASE RevokeOwnToken(r)
      <3>1. req[r].jti \in revoked'
        BY <2>2 DEF RevokeOwnToken
      <3> QED BY <1>4, <2>1, <3>1
    <2>3. CASE ClearRedis(r)
      <3>1. req[r].pc \in LogoutSteps
        BY <2>3 DEF ClearRedis, At, LogoutSteps
      <3>2. req[r].kind = "logout" => req[r].jti \in revoked' \cup expired'
        BY <1>1, <3>1 DEF LoggedOut
      <3> QED BY <1>4, <2>1, <3>2
    <2>4. CASE ~RevokeOwnToken(r) /\ ~ClearRedis(r)
      <3>1. req[r].kind # "logout"
        BY <1>2, <1>8, <2>4, KindAt DEF At, GetOldSession, RevokeOldToken,
                     DeleteOldSession, UpsertSession, ClearLookup, LoginSteps
      <3> QED BY <1>4, <2>1, <3>1
    <2> QED BY <2>2, <2>3, <2>4
  <1>9. ASSUME NEW r \in Requests,
               IsTokenRevoked(r) \/ GetSession(r) \/ GetSessionRow(r) \/ CheckUserStatus(r)
        PROVE  LoggedOut'
    <2>1. Reject(r) \/ \E pc \in CheckSteps : Goto(r, pc) /\ UNCHANGED histVars
      BY <1>9 DEF IsTokenRevoked, GetSession, GetSessionRow, CheckUserStatus, CheckSteps
    <2>2. CASE Reject(r)
      BY <1>3, <2>2, RejectFrees
    <2>3. ASSUME NEW pc \in CheckSteps, Goto(r, pc), UNCHANGED histVars
          PROVE  LoggedOut'
      <3>1. Keeps(r) /\ req'[r].pc = pc
        BY <2>3, GotoKeeps DEF CheckSteps, Steps
      <3>2. pc \notin LogoutSteps /\ ended' = ended
        BY <2>3 DEF CheckSteps, LogoutSteps, histVars
      <3> QED BY <1>4, <3>1, <3>2
    <2> QED BY <2>1, <2>2, <2>3
  <1>10. ASSUME NEW r \in Requests, SetNewSession(r) \/ UseHandler(r) \/ SoftDelete(r)
         PROVE  LoggedOut'
    <2>1. Respond(r) /\ req[r].kind # "logout"
      BY <1>2, <1>10, KindAt DEF SetNewSession, UseHandler, SoftDelete, At, LoginSteps
    <2> QED BY <1>5, <2>1
  <1>11. ASSUME NEW r \in Requests, ClearRow(r)
         PROVE  LoggedOut'
    <2>1. \/ req[r].kind = "delete" /\ Goto(r, "softDelete") /\ UNCHANGED histVars
          \/ Reject(r) \/ Respond(r)
      BY <1>11 DEF ClearRow
    <2>2. req[r].kind = "logout" => req[r].jti \in revoked \cup expired
      BY <1>11 DEF ClearRow, At, LoggedOut, LogoutSteps
    <2>3. CASE req[r].kind = "delete" /\ Goto(r, "softDelete") /\ UNCHANGED histVars
      BY <1>4, <2>3, GotoKeeps DEF Steps, histVars
    <2> QED BY <1>3, <1>5, <2>1, <2>2, <2>3, RejectFrees
  <1>12. ASSUME NEW r \in Requests, SetStatus(r)
         PROVE  LoggedOut'
    <2>1. req[r].kind # "logout"
      BY <1>2, <1>12, KindAt DEF SetStatus, At
    <2>2. CASE Goto(r, StartClear) /\ UNCHANGED histVars
      <3>1. StartClear \in Steps
        BY DEF StartClear, Steps
      <3> QED BY <1>4, <2>1, <2>2, <3>1, GotoKeeps DEF histVars
    <2> QED BY <1>5, <1>12, <2>1, <2>2 DEF SetStatus
  <1>13. ASSUME NEW r \in Requests, Abort(r)
         PROVE  LoggedOut'
    BY <1>3, <1>13, RejectFrees DEF Abort
  <1>14. CASE \/ \E j \in Jti : Expire(j) \/ RedisTTL(j)
              \/ CleanupExpiredTokens \/ RedisSave \/ RedisRestart
              \/ UNCHANGED vars
    BY <1>1, <1>14, EnvironmentKeeps DEF LoggedOut, histVars
  <1> QED
    BY <1>7, <1>8, <1>9, <1>10, <1>11, <1>12, <1>13, <1>14, NextCases

-----------------------------------------------------------------------------
(* A token keeps the user it was issued to.                                *)
LEMMA OwnerStays ==
  ASSUME TypeOK, [Next]_vars, NEW j \in Jti, owner[j] # NoUser
  PROVE  owner'[j] = owner[j]
  <1> USE DEF dbVars, tokVars
  <1>1. ASSUME NEW r \in Requests, NEW u \in Users, NEW k \in Jti,
               LoginHandler(r, u, k)
        PROVE  owner'[j] = owner[j]
    BY <1>1 DEF LoginHandler, Fresh, TypeOK
  <1>2. ASSUME NEW r \in Requests,
               \/ \E kind \in AuthKinds, k \in Jti : ParseToken(r, kind, k)
               \/ \E kind \in AdminKinds, u \in Users : AdminRequest(r, kind, u)
               \/ GetOldSession(r) \/ RevokeOldToken(r) \/ DeleteOldSession(r)
               \/ UpsertSession(r) \/ SetNewSession(r) \/ IsTokenRevoked(r)
               \/ GetSession(r) \/ GetSessionRow(r) \/ CheckUserStatus(r)
               \/ UseHandler(r) \/ RevokeOwnToken(r) \/ ClearLookup(r)
               \/ ClearRedis(r) \/ ClearRow(r) \/ SetStatus(r)
               \/ SoftDelete(r) \/ Abort(r)
        PROVE  owner' = owner
    BY <1>2 DEF ParseToken, AdminRequest, GetOldSession,
                RevokeOldToken, DeleteOldSession, UpsertSession, SetNewSession,
                IsTokenRevoked, GetSession, GetSessionRow, CheckUserStatus,
                UseHandler, RevokeOwnToken, ClearLookup, ClearRedis, ClearRow,
                SetStatus, SoftDelete, Abort
  <1>3. CASE \/ \E k \in Jti : Expire(k) \/ RedisTTL(k)
             \/ CleanupExpiredTokens \/ RedisSave \/ RedisRestart
             \/ UNCHANGED vars
    BY <1>3, EnvironmentKeeps
  <1> QED BY <1>1, <1>2, <1>3, NextCases

-----------------------------------------------------------------------------
(* Dead tokens.                                                            *)

(* A delivered token that both stores have forgotten stays forgotten, for  *)
(* only the login of a token puts it in a store, and it delivers the token *)
(* last.  Redis coming back with a snapshot could bring it back.           *)
LEMMA ForgottenStays ==
  ASSUME TypeOK, Shape, Tokens, [Next]_vars, "redisRestart" \notin Faults,
         NEW j \in delivered, Forgotten(j)
  PROVE  Forgotten(j)'
  <1> USE SessionsAssumption DEF dbVars, tokVars
  <1>1. j \in Jti /\ owner[j] \in Users /\ j # NoJti
    <2>1. j \in Jti /\ owner[j] \in Users \cup {NoUser} /\ owner[j] # NoUser
      BY DEF TypeOK, Tokens
    <2>2. \A k \in Jti : k # NoJti
      BY DEF Jti, NoJti
    <2> QED BY <2>1, <2>2
  <1>2. owner'[j] = owner[j]
    BY <1>1, OwnerStays
  <1>3. redis[j] = NoUser /\ activeSessions[owner[j]] # j
    BY DEF Forgotten
  <1>4. ASSUME redis'[j] = NoUser, activeSessions'[owner[j]] # j
        PROVE  Forgotten(j)'
    BY <1>2, <1>4 DEF Forgotten
  <1>5. ASSUME NEW r \in Requests, SetNewSession(r) \/ UpsertSession(r)
        PROVE  Forgotten(j)'
    <2>1. req[r].kind = "login"
      BY <1>5, KindAt DEF SetNewSession, UpsertSession, At, LoginSteps
    <2>2. req[r].jti # j
      BY <2>1 DEF Tokens
    <2> QED BY <1>1, <1>3, <1>4, <1>5, <2>2 DEF SetNewSession, UpsertSession, TypeOK
  <1>6. ASSUME NEW r \in Requests, DeleteOldSession(r) \/ ClearRedis(r) \/ ClearRow(r)
        PROVE  Forgotten(j)'
    BY <1>1, <1>3, <1>4, <1>6 DEF DeleteOldSession, ClearRedis, ClearRow, TypeOK
  <1>7. ASSUME NEW r \in Requests,
               \/ \E u \in Users, k \in Jti : LoginHandler(r, u, k)
               \/ \E kind \in AuthKinds, k \in Jti : ParseToken(r, kind, k)
               \/ \E kind \in AdminKinds, u \in Users : AdminRequest(r, kind, u)
               \/ GetOldSession(r) \/ RevokeOldToken(r) \/ IsTokenRevoked(r)
               \/ GetSession(r) \/ GetSessionRow(r) \/ CheckUserStatus(r)
               \/ UseHandler(r) \/ RevokeOwnToken(r) \/ ClearLookup(r)
               \/ SetStatus(r) \/ SoftDelete(r) \/ Abort(r)
        PROVE  Forgotten(j)'
    <2>1. redis' = redis /\ activeSessions' = activeSessions
      BY <1>7 DEF LoginHandler, ParseToken, AdminRequest, GetOldSession,
                  RevokeOldToken, IsTokenRevoked, GetSession, GetSessionRow,
                  CheckUserStatus, UseHandler, RevokeOwnToken, ClearLookup,
                  SetStatus, SoftDelete, Abort
    <2> QED BY <1>3, <1>4, <2>1
  <1>8. CASE \/ \E k \in Jti : Expire(k) \/ RedisTTL(k)
             \/ CleanupExpiredTokens \/ RedisSave \/ UNCHANGED vars
    BY <1>1, <1>3, <1>4, <1>8 DEF Expire, RedisTTL, CleanupExpiredTokens, RedisSave,
                                  vars, TypeOK
  <1>9. ~RedisRestart
    BY DEF RedisRestart, Fails
  <1> QED BY <1>5, <1>6, <1>7, <1>8, <1>9, NextCases

(* At the start nobody presents a token.                                   *)
LEMMA StoppedInit == Init => Stopped
  BY DEF Init, Stopped, Idle, AuthKinds

(* A check that a request with a dead token passes leaves it to a later    *)
(* one to stop it.                                                         *)
LEMMA StoppedStep ==
  ASSUME TypeOK, Shape, Tokens, Stores, Stopped, [Next]_vars,
         "redisRestart" \notin Faults
  PROVE  Stopped'
  <1> USE SessionsAssumption
  <1> DEFINE Dead(j) == j \in revoked \cup expired \/ Forgotten(j)
  <1>1. ASSUME NEW r \in Requests, req[r].kind \in AuthKinds
        PROVE  /\ req[r].jti \in delivered /\ req[r].jti \in Jti
               /\ owner[req[r].jti] = req[r].user
    BY <1>1 DEF Tokens, TypeOK
  <1>2. ASSUME NEW j \in delivered
        PROVE  /\ j \in revoked \cup expired => j \in revoked' \cup expired'
               /\ Forgotten(j) => Forgotten(j)'
    BY <1>2, RevokedStays, ForgottenStays
  <1>3. expired \subseteq expired'
    BY ExpiredStays
  <1> DEFINE Safe(r) ==
        req[r].kind \in AuthKinds /\ ~req[r].live =>
          \/ req[r].jti \in expired
          \/ req[r].pc = "revoked"
               /\ (req[r].jti \in revoked \/ Forgotten(req[r].jti))
          \/ req[r].pc \in {"session", "rowSession"} /\ Forgotten(req[r].jti)
  <1>4. ASSUME NEW r \in Requests
        PROVE  Safe(r)
    BY <1>4 DEF Stopped
  <1>5. ASSUME NEW r \in Requests, req'[r] = req[r]
        PROVE  Safe(r)'
    BY <1>1, <1>2, <1>3, <1>4, <1>5
  <1>6. ASSUME NEW r \in Requests, Others(r), Safe(r)'
        PROVE  Stopped'
    <2>1. \A s \in Requests : Safe(s)'
      BY <1>5, <1>6 DEF Others
    <2> QED BY <2>1 DEF Stopped
  <1>7. ASSUME NEW r \in Requests, Frees(r)
        PROVE  Stopped'
    BY <1>6, <1>7 DEF Frees, Idle, AuthKinds
  <1>8. ASSUME NEW r \in Requests, Keeps(r),
               \/ req[r].kind \notin AuthKinds
               \/ req[r].pc \notin {"revoked", "session", "rowSession"}
        PROVE  Stopped'
    BY <1>1, <1>3, <1>4, <1>6, <1>8 DEF Keeps
  <1>9. ASSUME NEW r \in Requests,
               \/ \E u \in Users, j \in Jti : LoginHandler(r, u, j)
               \/ \E kind \in AdminKinds, u \in Users : AdminRequest(r, kind, u)
        PROVE  Stopped'
    <2>1. CASE \E u \in Users, j \in Jti : LoginHandler(r, u, j)
      BY <1>6, <2>1, ArriveTakes DEF LoginHandler, AuthKinds
    <2>2. CASE \E kind \in AdminKinds, u \in Users : AdminRequest(r, kind, u)
      <3>1. PICK kind \in AdminKinds : Others(r) /\ req'[r].kind = kind
        BY <2>2, ArriveTakes DEF AdminRequest
      <3>2. kind \notin AuthKinds
        BY DEF AdminKinds, AuthKinds
      <3> QED BY <1>6, <3>1, <3>2
    <2> QED BY <1>9, <2>1, <2>2
  <1>10. ASSUME NEW r \in Requests, NEW kind \in AuthKinds, NEW j \in Jti,
                ParseToken(r, kind, j)
         PROVE  Stopped'
    <2> DEFINE ends == CASE kind = "logout"    -> {j}
                         [] kind = "logoutAll" -> TokensOf(owner[j])
                         [] OTHER              -> {}
    <2>1. Arrive(r, kind, "revoked", owner[j], j, ends) /\ j \in delivered
      BY <1>10 DEF ParseToken
    <2> HIDE DEF ends
    <2>2. /\ Others(r) /\ req'[r].jti = j /\ req'[r].pc = "revoked"
          /\ req'[r].live = (kind \in AuthKinds /\ SessionLive(j))
      BY <2>1, ArriveTakes
    <2>3. owner[j] # NoUser /\ owner[j] \in Users
      BY <2>1 DEF Tokens, TypeOK
    <2>4. ~SessionLive(j) => Dead(j)
      BY <2>3 DEF SessionLive, IsActiveSession, Stores, Forgotten
    <2>5. ~SessionLive(j) => \/ j \in expired'
                            \/ j \in revoked' \/ Forgotten(j)'
      BY <1>2, <2>1, <2>4
    <2> QED BY <1>6, <2>2, <2>5
  <1>11. ASSUME NEW r \in Requests, IsTokenRevoked(r)
         PROVE  Stopped'
    <2>1. CASE req[r].jti \in revoked
      BY <1>7, <1>11, <2>1, RejectFrees DEF IsTokenRevoked
    <2>2. CASE req[r].jti \notin revoked
      <3>1. /\ req[r].pc = "revoked" /\ Keeps(r)
            /\ req'[r].pc \in {"session", "rowSession"}
        BY <1>11, <2>2, GotoKeeps DEF IsTokenRevoked, At, Steps
      <3>2. Safe(r)'
        BY <1>1, <1>2, <1>3, <1>4, <2>2, <3>1 DEF Keeps
      <3> QED BY <1>6, <3>1, <3>2 DEF Keeps
    <2> QED BY <2>1, <2>2
  <1>12. ASSUME NEW r \in Requests, GetSession(r)
         PROVE  Stopped'
    <2>1. req[r].pc = "session"
      BY <1>12 DEF GetSession, At
    <2>2. CASE Reject(r)
      BY <1>7, <2>2, RejectFrees
    <2>3. CASE redis[req[r].jti] # NoUser /\ Goto(r, "status")
      <3>1. Keeps(r) /\ req'[r].pc = "status"
        BY <2>3, GotoKeeps DEF Steps
      <3>2. ~Forgotten(req[r].jti)
        BY <2>3 DEF Forgotten
      <3>3. Safe(r)'
        BY <1>1, <1>3, <1>4, <2>1, <3>1, <3>2 DEF Keeps
      <3> QED BY <1>6, <3>1, <3>3 DEF Keeps
    <2>4. CASE Goto(r, "rowSession")
      <3>1. Keeps(r) /\ req'[r].pc = "rowSession"
        BY <2>4, GotoKeeps DEF Steps
      <3>2. Safe(r)'
        BY <1>1, <1>2, <1>3, <1>4, <2>1, <3>1 DEF Keeps
      <3> QED BY <1>6, <3>1, <3>2 DEF Keeps
    <2> QED BY <1>12, <2>2, <2>3, <2>4 DEF GetSession
  <1>13. ASSUME NEW r \in Requests, GetSessionRow(r)
         PROVE  Stopped'
    <2>1. req[r].pc = "rowSession"
      BY <1>13 DEF GetSessionRow, At
    <2>2. CASE Reject(r)
      BY <1>7, <2>2, RejectFrees
    <2>3. CASE activeSessions[req[r].user] = req[r].jti /\ Goto(r, "status")
      <3>1. Keeps(r) /\ req'[r].pc = "status"
        BY <2>3, GotoKeeps DEF Steps
      <3>2. req[r].kind \in AuthKinds => ~Forgotten(req[r].jti)
        BY <1>1, <2>3 DEF Forgotten
      <3>3. Safe(r)'
        BY <1>1, <1>3, <1>4, <2>1, <3>1, <3>2 DEF Keeps
      <3> QED BY <1>6, <3>1, <3>3 DEF Keeps
    <2> QED BY <1>13, <2>2, <2>3 DEF GetSessionRow
  <1>14. ASSUME NEW r \in Requests, CheckUserStatus(r)
         PROVE  Stopped'
    <2>1. req[r].pc = "status" /\ (Reject(r) \/ Goto(r, "handler"))
      BY <1>14 DEF CheckUserStatus, At
    <2> QED BY <1>7, <1>8, <2>1, RejectFrees, GotoKeeps DEF Steps
  <1>15. ASSUME NEW r \in Requests,
                \/ GetOldSession(r) \/ RevokeOldToken(r) \/ DeleteOldSession(r)
                \/ UpsertSession(r) \/ ClearLookup(r) \/ RevokeOwnToken(r)
                \/ ClearRedis(r) \/ SetNewSession(r) \/ UseHandler(r)
                \/ ClearRow(r) \/ SetStatus(r) \/ SoftDelete(r)
         PROVE  Stopped'
    <2>1. req[r].pc \notin {"revoked", "session", "rowSession"}
      BY <1>15 DEF At, GetOldSession, RevokeOldToken, DeleteOldSession,
                   UpsertSession, ClearLookup, RevokeOwnToken, ClearRedis,
                   SetNewSession, UseHandler, ClearRow, SetStatus, SoftDelete
    <2>2. Keeps(r) \/ Frees(r)
      BY <1>15, MoveKeeps
    <2> QED BY <1>7, <1>8, <2>1, <2>2
  <1>16. ASSUME NEW r \in Requests, Abort(r)
         PROVE  Stopped'
    BY <1>7, <1>16, RejectFrees DEF Abort
  <1>17. CASE \/ \E j \in Jti : Expire(j) \/ RedisTTL(j)
              \/ CleanupExpiredTokens \/ RedisSave \/ RedisRestart
              \/ UNCHANGED vars
    <2>1. req' = req
      BY <1>17, EnvironmentKeeps
    <2>2. \A r \in Requests : Safe(r)'
      BY <1>5, <2>1
    <2> QED BY <2>2 DEF Stopped
  <1> QED
    BY <1>9, <1>10, <1>11, <1>12, <1>13, <1>14, <1>15, <1>16, <1>17, NextCases

-----------------------------------------------------------------------------
(* The theorems.                                                           *)

(* What holds whatever fails.                                              *)
IInv == TypeOK /\ Shape /\ Tokens /\ Stores /\ LoggedOut

(* The invariant is inductive.                                             *)
LEMMA Invariance == Spec => []IInv
  <1>1. Init => IInv
    BY TypeInit, ShapeInit, TokensInit, StoresInit, LoggedOutInit DEF IInv
  <1>2. IInv /\ [Next]_vars => IInv'
    BY TypeStep, ShapeStep, TokensStep, StoresStep, LoggedOutStep DEF IInv
  <1> QED BY <1>1, <1>2, PTL DEF Spec

(* Every state has its type: in particular no step revokes, deletes or     *)
(* clears "no token", whichever lookups have failed.                       *)
THEOREM TypeCorrect == Spec => []TypeOK
  <1>1. IInv => TypeOK
    BY DEF IInv
  <1> QED BY <1>1, Invariance, PTL

(* A token whose logout was answered with success is never admitted again, *)
(* under every combination of the failures and any number of requests: the *)
(* revocation alone carries it, and the cleanup keeps it long enough.      *)
THEOREM LogoutTheorem == Spec => []LogoutIsFinal
  <1>1. IInv => LogoutIsFinal
    BY DEF IInv, LoggedOut, LogoutIsFinal, SessionLive
  <1> QED BY <1>1, Invariance, PTL

(* As long as Redis does not come back with an older state, a request with *)
(* a dead token does not get past the three checks, however the steps of   *)
(* the other requests fall between them.                                   *)
THEOREM AdmissionTheorem ==
  ASSUME "redisRestart" \notin Faults
  PROVE  Spec => []AdmittedWasLive
  <1>1. Init => Stopped
    BY StoppedInit
  <1>2. IInv /\ Stopped /\ [Next]_vars => Stopped'
    BY StoppedStep DEF IInv
  <1>3. IInv /\ Stopped => AdmittedWasLive
    <2> SUFFICES ASSUME IInv, Stopped, NEW r \in Requests, At(r, "handler")
                 PROVE  req[r].live \/ req[r].jti \in expired
      BY DEF AdmittedWasLive
    <2>1. req[r].kind \in AuthKinds
      BY KindAt DEF IInv, At, CheckSteps
    <2> QED BY <2>1 DEF Stopped, At
  <1> QED BY <1>1, <1>2, <1>3, Invariance, PTL DEF Spec

-----------------------------------------------------------------------------
(* The second part.  Where the row decides, any number of logins, logouts, *)
(* bans and clearings, whichever calls fail and requests end early, look   *)
(* like sessions that are opened and closed in one go.                     *)

IssueSteps == {"getOld", "revokeOld", "delOld", "upsert"}

(* The login of r has not written the row yet.                             *)
IsIssuing(r) == req[r].kind = "login" /\ req[r].pc \in IssueSteps

(* Nobody has come across the token: no row holds it, no request has       *)
(* looked it up, and it is not revoked.                                    *)
Unseen(j) ==
    /\ j \notin revoked
    /\ \A u \in Users : activeSessions[u] # j
    /\ \A r \in Requests : req[r].found # j

(* A token is unseen until its login writes the row, and does not expire   *)
(* before that login is over.                                              *)
New ==
    /\ \A j \in Jti : owner[j] = NoUser => Unseen(j) /\ j \notin expired
    /\ \A r \in Requests : IsIssuing(r) => Unseen(req[r].jti)
    /\ \A r \in Requests : req[r].kind = "login" => req[r].jti \notin expired

INew == IInv /\ New

-----------------------------------------------------------------------------
(* The invariant.                                                          *)

(* No token was issued at the start.                                       *)
LEMMA NewInit == Init => New
  BY SessionsAssumption DEF Init, New, Unseen, Idle, IsIssuing, Jti, NoJti

(* Only the login of a token lets others come across it.                   *)
LEMMA UnseenStays ==
  ASSUME IInv, [Next]_vars, NEW j \in Jti, j \notin delivered, Unseen(j),
         \A r \in Requests : UpsertSession(r) => req[r].jti # j
  PROVE  Unseen(j)'
  <1> USE DEF dbVars, tokVars
  <1>1. /\ TypeOK /\ Shape /\ Tokens
        /\ req \in [Requests -> Request]
        /\ activeSessions \in [Users -> Jti \cup {NoJti}]
        /\ j # NoJti
    BY DEF IInv, TypeOK, Jti, NoJti
  <1>2. ASSUME NEW r \in Requests,
               \/ \E u \in Users, k \in Jti : LoginHandler(r, u, k)
               \/ \E kind \in AuthKinds, k \in Jti : ParseToken(r, kind, k)
               \/ \E kind \in AdminKinds, u \in Users : AdminRequest(r, kind, u)
        PROVE  Unseen(j)'
    <2>1. UNCHANGED <<revoked, activeSessions>>
      BY <1>2 DEF LoginHandler, ParseToken, AdminRequest
    <2>2. PICK kind, pc, u, k, ends : Arrive(r, kind, pc, u, k, ends)
      <3>1. CASE \E u \in Users, k \in Jti : LoginHandler(r, u, k)
        BY <3>1 DEF LoginHandler
      <3>2. CASE \E kind \in AuthKinds, k \in Jti : ParseToken(r, kind, k)
        BY <3>2 DEF ParseToken
      <3>3. CASE \E kind \in AdminKinds, u \in Users : AdminRequest(r, kind, u)
        BY <3>3 DEF AdminRequest
      <3> QED BY <1>2, <3>1, <3>2, <3>3
    <2>3. Others(r) /\ req'[r].found = NoJti
      BY <1>1, <2>2, ArriveTakes
    <2> QED BY <1>1, <2>1, <2>3 DEF Unseen, Others
  <1>3. ASSUME NEW r \in Requests, GetOldSession(r) \/ ClearLookup(r)
        PROVE  Unseen(j)'
    <2>1. req[r].user \in Users
      BY <1>1, <1>3, BusyUser DEF GetOldSession, ClearLookup, At
    <2>2. UNCHANGED <<revoked, activeSessions>>
      BY <1>3 DEF GetOldSession, ClearLookup
    <2>3. PICK old \in {activeSessions[req[r].user], NoJti} :
            \E pc : req' = [req EXCEPT ![r].found = old, ![r].pc = pc]
      <3>1. CASE GetOldSession(r)
        BY <3>1 DEF GetOldSession
      <3>2. CASE ClearLookup(r)
        BY <3>2 DEF ClearLookup
      <3> QED BY <1>3, <3>1, <3>2
    <2>4. /\ \A s \in Requests \ {r} : req'[s].found = req[s].found
          /\ req'[r].found = old
      BY <1>1, <2>3 DEF Request
    <2> QED BY <1>1, <2>1, <2>2, <2>3, <2>4 DEF Unseen
  <1>4. ASSUME NEW r \in Requests, RevokeOldToken(r)
        PROVE  Unseen(j)'
    <2>1. /\ revoked' \subseteq revoked \cup {req[r].found}
          /\ activeSessions' = activeSessions
      BY <1>4 DEF RevokeOldToken
    <2>2. \A s \in Requests : req'[s].found = req[s].found
      BY <1>1, <1>4 DEF RevokeOldToken, Goto, Request
    <2> QED BY <2>1, <2>2 DEF Unseen
  <1>5. ASSUME NEW r \in Requests, RevokeOwnToken(r)
        PROVE  Unseen(j)'
    <2>1. req[r].jti # j
      BY <1>1, <1>5 DEF RevokeOwnToken, Tokens, AuthKinds
    <2>2. /\ revoked' = revoked \cup {req[r].jti}
          /\ activeSessions' = activeSessions
      BY <1>5 DEF RevokeOwnToken
    <2>3. /\ \A s \in Requests \ {r} : req'[s].found = req[s].found
          /\ req'[r].found = req[r].jti
      BY <1>1, <1>5 DEF RevokeOwnToken, Request
    <2> QED BY <2>1, <2>2, <2>3 DEF Unseen
  <1>6. ASSUME NEW r \in Requests, UpsertSession(r)
        PROVE  Unseen(j)'
    <2>1. req[r].jti # j
      BY <1>6
    <2>2. /\ revoked' = revoked
          /\ \A u \in Users : activeSessions'[u] \in {activeSessions[u], req[r].jti}
      BY <1>1, <1>6 DEF UpsertSession
    <2>3. \A s \in Requests : req'[s].found = req[s].found
      BY <1>1, <1>6 DEF UpsertSession, Goto, Request
    <2> QED BY <2>1, <2>2, <2>3 DEF Unseen
  <1>7. ASSUME NEW r \in Requests,
               \/ DeleteOldSession(r) \/ ClearRedis(r) \/ IsTokenRevoked(r)
               \/ GetSession(r) \/ GetSessionRow(r) \/ CheckUserStatus(r)
               \/ SetNewSession(r) \/ UseHandler(r) \/ ClearRow(r)
               \/ SetStatus(r) \/ SoftDelete(r) \/ Abort(r)
        PROVE  Unseen(j)'
    <2>1. /\ revoked' = revoked
          /\ \A u \in Users : activeSessions'[u] \in {activeSessions[u], NoJti}
      BY <1>1, <1>7 DEF DeleteOldSession, ClearRedis, IsTokenRevoked, GetSession,
                        GetSessionRow, CheckUserStatus, SetNewSession, UseHandler,
                        ClearRow, SetStatus, SoftDelete, Abort
    <2>2. (\E pc \in Steps : Goto(r, pc)) \/ Reject(r) \/ Respond(r)
      <3>1. StartClear \in Steps
        BY DEF StartClear, Steps
      <3> QED
        BY <1>7, <3>1 DEF DeleteOldSession, ClearRedis, IsTokenRevoked, GetSession,
                          GetSessionRow, CheckUserStatus, SetNewSession, UseHandler,
                          ClearRow, SetStatus, SoftDelete, Abort, Steps
    <2>3. \A s \in Requests : req'[s].found \in {req[s].found, NoJti}
      BY <1>1, <2>2 DEF Goto, Reject, Respond, Idle, Request
    <2> QED BY <1>1, <2>1, <2>3 DEF Unseen
  <1>8. CASE \/ \E k \in Jti : Expire(k) \/ RedisTTL(k)
             \/ CleanupExpiredTokens \/ RedisSave \/ RedisRestart
             \/ UNCHANGED vars
    <2>1. UNCHANGED <<req, activeSessions>> /\ revoked' \subseteq revoked
      BY <1>8 DEF Expire, RedisTTL, CleanupExpiredTokens, RedisSave, RedisRestart, vars
    <2> QED BY <2>1 DEF Unseen
  <1> QED BY <1>2, <1>3, <1>4, <1>5, <1>6, <1>7, <1>8, NextCases

(* A token expires once it was issued and, in time, while nobody uses it.  *)
LEMMA ExpiryInTime ==
  ASSUME [Next]_vars, "slow" \notin Faults, NEW j \in expired', j \notin expired
  PROVE  owner[j] # NoUser /\ \A r \in Requests : req[r].jti # j
  <1> USE DEF dbVars, tokVars
  <1>1. ASSUME NEW r \in Requests,
               \/ \E u \in Users, k \in Jti : LoginHandler(r, u, k)
               \/ \E kind \in AuthKinds, k \in Jti : ParseToken(r, kind, k)
               \/ \E kind \in AdminKinds, u \in Users : AdminRequest(r, kind, u)
               \/ GetOldSession(r) \/ RevokeOldToken(r) \/ DeleteOldSession(r)
               \/ UpsertSession(r) \/ SetNewSession(r) \/ IsTokenRevoked(r)
               \/ GetSession(r) \/ GetSessionRow(r) \/ CheckUserStatus(r)
               \/ UseHandler(r) \/ RevokeOwnToken(r) \/ ClearLookup(r)
               \/ ClearRedis(r) \/ ClearRow(r) \/ SetStatus(r)
               \/ SoftDelete(r) \/ Abort(r)
        PROVE  expired' = expired
    BY <1>1 DEF LoginHandler, ParseToken, AdminRequest, GetOldSession,
                RevokeOldToken, DeleteOldSession, UpsertSession, SetNewSession,
                IsTokenRevoked, GetSession, GetSessionRow, CheckUserStatus,
                UseHandler, RevokeOwnToken, ClearLookup, ClearRedis, ClearRow,
                SetStatus, SoftDelete, Abort
  <1>2. CASE \/ \E k \in Jti : RedisTTL(k)
             \/ CleanupExpiredTokens \/ RedisSave \/ RedisRestart
             \/ UNCHANGED vars
    BY <1>2 DEF RedisTTL, CleanupExpiredTokens, RedisSave, RedisRestart, vars
  <1>3. ASSUME NEW k \in Jti, Expire(k)
        PROVE  owner[j] # NoUser /\ \A r \in Requests : req[r].jti # j
    BY <1>3 DEF Expire, Fails
  <1> QED BY <1>1, <1>2, <1>3, NextCases

(* A login after a step was one before, or has just taken a token that     *)
(* belonged to nobody.                                                     *)
LEMMA LoginBefore ==
  ASSUME IInv, [Next]_vars, NEW r \in Requests, req'[r].kind = "login"
  PROVE  \/ /\ req[r].kind = "login" /\ req'[r].jti = req[r].jti
            /\ IsIssuing(r)' => IsIssuing(r) /\ ~UpsertSession(r)
         \/ req'[r].jti \in Jti /\ owner[req'[r].jti] = NoUser
  <1>1. TypeOK /\ Shape /\ Tokens /\ req \in [Requests -> Request]
    BY DEF IInv, TypeOK
  <1>2. ASSUME req'[r] = req[r]
        PROVE  ~UpsertSession(r)
    BY <1>1, <1>2 DEF UpsertSession, Goto, At, Request
  <1>3. ASSUME NEW s \in Requests, Others(s), s # r
        PROVE  req'[r] = req[r]
    BY <1>3 DEF Others
  <1>4. ASSUME NEW s \in Requests, NEW u \in Users, NEW j \in Jti, LoginHandler(s, u, j)
        PROVE  req'[r] = req[r] \/ (req'[r].jti = j /\ owner[j] = NoUser)
    <2>1. Others(s) /\ req'[s].jti = j /\ owner[j] = NoUser
      BY <1>1, <1>4, ArriveTakes DEF LoginHandler, Fresh
    <2> QED BY <1>3, <2>1
  <1>5. ASSUME NEW s \in Requests,
               \/ \E kind \in AuthKinds, k \in Jti : ParseToken(s, kind, k)
               \/ \E kind \in AdminKinds, u \in Users : AdminRequest(s, kind, u)
        PROVE  req'[r] = req[r]
    <2>1. PICK kind \in AuthKinds \cup AdminKinds :
            \E pc, u, j, ends : Arrive(s, kind, pc, u, j, ends)
      <3>1. ASSUME NEW kind \in AuthKinds, NEW k \in Jti, ParseToken(s, kind, k)
            PROVE  \E pc, u, j, ends : Arrive(s, kind, pc, u, j, ends)
        BY <3>1 DEF ParseToken
      <3>2. ASSUME NEW kind \in AdminKinds, NEW u \in Users, AdminRequest(s, kind, u)
            PROVE  \E pc, v, j, ends : Arrive(s, kind, pc, v, j, ends)
        BY <3>2 DEF AdminRequest
      <3> QED BY <1>5, <3>1, <3>2
    <2>2. Others(s) /\ req'[s].kind = kind
      BY <1>1, <2>1, ArriveTakes
    <2>3. r # s
      BY <2>1, <2>2 DEF AuthKinds, AdminKinds
    <2> QED BY <1>3, <2>2, <2>3
  <1>6. ASSUME NEW s \in Requests,
               \/ GetOldSession(s) \/ RevokeOldToken(s) \/ DeleteOldSession(s)
               \/ UpsertSession(s) \/ SetNewSession(s) \/ IsTokenRevoked(s)
               \/ GetSession(s) \/ GetSessionRow(s) \/ CheckUserStatus(s)
               \/ UseHandler(s) \/ RevokeOwnToken(s) \/ ClearLookup(s)
               \/ ClearRedis(s) \/ ClearRow(s) \/ SetStatus(s)
               \/ SoftDelete(s) \/ Abort(s)
        PROVE  \/ req'[r] = req[r]
               \/ /\ req[r].kind = "login" /\ req'[r].jti = req[r].jti
                  /\ IsIssuing(r)' => IsIssuing(r) /\ ~UpsertSession(r)
    <2>1. Keeps(s) \/ Frees(s)
      BY <1>1, <1>6, MoveKeeps
    <2>2. CASE s # r
      BY <1>3, <2>1, <2>2 DEF Keeps, Frees
    <2>3. CASE s = r
      <3>1. Keeps(r)
        BY <2>1, <2>3 DEF Frees, Idle
      <3>2. req[r].kind = "login" /\ req'[r].jti = req[r].jti
        BY <3>1 DEF Keeps
      <3>3. req[r].pc \in LoginSteps
        BY <1>1, <3>2 DEF Shape, AdminKinds
      <3>4. ASSUME req[r].pc = "setNew"
            PROVE  FALSE
        <4>1. SetNewSession(r) \/ Abort(r)
          BY <1>6, <2>3, <3>4 DEF At, GetOldSession, RevokeOldToken, DeleteOldSession,
             UpsertSession, IsTokenRevoked, GetSession, GetSessionRow, CheckUserStatus,
             UseHandler, RevokeOwnToken, ClearLookup, ClearRedis, ClearRow, SetStatus,
             SoftDelete
        <4>2. Frees(r)
          BY <1>1, <4>1, RejectFrees, RespondFrees DEF SetNewSession, Abort
        <4> QED BY <3>1, <3>2, <4>2 DEF Keeps, Frees, Idle
      <3>5. UpsertSession(r) => req'[r].pc = "setNew"
        BY <1>1, GotoKeeps DEF UpsertSession, Steps
      <3> QED BY <3>2, <3>3, <3>4, <3>5 DEF IsIssuing, IssueSteps, LoginSteps
    <2> QED BY <2>2, <2>3
  <1>7. ASSUME \/ \E k \in Jti : Expire(k) \/ RedisTTL(k)
               \/ CleanupExpiredTokens \/ RedisSave \/ RedisRestart
               \/ UNCHANGED vars
        PROVE  req'[r] = req[r]
    BY <1>7, EnvironmentKeeps
  <1>8. req'[r] = req[r] => /\ req[r].kind = "login" /\ req'[r].jti = req[r].jti
                            /\ IsIssuing(r)' => IsIssuing(r) /\ ~UpsertSession(r)
    BY <1>2 DEF IsIssuing
  <1> QED BY <1>4, <1>5, <1>6, <1>7, <1>8, NextCases

LEMMA NewStep ==
  ASSUME INew, [Next]_vars, "slow" \notin Faults
  PROVE  New'
  <1> USE SessionsAssumption
  <1>1. IInv /\ TypeOK /\ Shape /\ Tokens
    BY DEF INew, IInv
  <1>2. ASSUME NEW r \in Requests, UpsertSession(r)
        PROVE  req[r].kind = "login" /\ owner[req[r].jti] # NoUser
    <2>1. req[r].kind = "login" /\ owner[req[r].jti] = req[r].user /\ req[r].user \in Users
      BY <1>1, <1>2, KindAt DEF UpsertSession, At, LoginSteps, Tokens
    <2> QED BY <2>1
  <1>3. ASSUME NEW j \in Jti, owner[j] = NoUser
        PROVE  Unseen(j)' /\ j \notin expired'
    <2>1. j \notin delivered /\ Unseen(j) /\ j \notin expired
      BY <1>1, <1>3 DEF Tokens, INew, New
    <2>2. Unseen(j)'
      BY <1>1, <1>2, <1>3, <2>1, UnseenStays
    <2> QED BY <1>3, <2>1, <2>2, ExpiryInTime
  <1>4. ASSUME NEW j \in Jti, owner'[j] = NoUser
        PROVE  owner[j] = NoUser
    BY <1>1, <1>4, OwnerStays
  <1>5. ASSUME NEW r \in Requests, IsIssuing(r)', NEW j, j = req'[r].jti
        PROVE  Unseen(j)'
    <2>1. CASE j \in Jti /\ owner[j] = NoUser
      BY <1>3, <2>1
    <2>2. CASE req[r].kind = "login" /\ j = req[r].jti
               /\ IsIssuing(r) /\ ~UpsertSession(r)
      <3>1. j \in Jti /\ j \notin delivered /\ Unseen(j)
        BY <1>1, <2>2 DEF Tokens, INew, New
      <3>2. ASSUME NEW s \in Requests, UpsertSession(s)
            PROVE  req[s].jti # j
        BY <1>1, <1>2, <2>2, <3>2 DEF Tokens
      <3> QED BY <1>1, <3>1, <3>2, UnseenStays
    <2> QED BY <1>1, <1>5, <2>1, <2>2, LoginBefore DEF IsIssuing
  <1>6. ASSUME NEW r \in Requests, req'[r].kind = "login"
        PROVE  req'[r].jti \notin expired'
    <2>1. CASE req'[r].jti \in Jti /\ owner[req'[r].jti] = NoUser
      BY <1>3, <2>1
    <2>2. CASE req[r].kind = "login" /\ req'[r].jti = req[r].jti
      <3>1. req[r].jti \notin expired
        BY <2>2 DEF INew, New
      <3> QED BY <2>2, <3>1, ExpiryInTime
    <2> QED BY <1>1, <1>6, <2>1, <2>2, LoginBefore
  <1>7. \A j \in Jti : owner'[j] = NoUser => Unseen(j)' /\ j \notin expired'
    BY <1>3, <1>4
  <1>8. ASSUME NEW r \in Requests, IsIssuing(r)'
        PROVE  Unseen(req[r].jti)'
    BY <1>5, <1>8 DEF Unseen
  <1> QED BY <1>6, <1>7, <1>8 DEF New

(* What holds without Redis whenever no token expires while in use.        *)
LEMMA NewInvariance ==
  ASSUME "slow" \notin Faults
  PROVE  Spec => []INew
  <1>1. INew /\ [Next]_vars => New'
    BY NewStep
  <1> QED BY <1>1, NewInit, Invariance, PTL DEF Spec, INew

-----------------------------------------------------------------------------
(* What a step looks like to SingleSession.                                *)

(* A token that Redis would admit is in the row of its user as well.       *)
RowDecides ==
    \A j \in Jti : redis[j] # NoUser /\ j \notin revoked \cup expired
                     => activeSessions[owner[j]] = j

ByRow == TypeOK /\ Stores /\ RowDecides

(* Without Redis there is nothing in it.                                   *)
LEMMA NothingInRedis ==
  ASSUME TypeOK, Stores, ~RedisEnabled
  PROVE  ByRow
  BY DEF ByRow, RowDecides, Stores

(* Then a token is a session when its row says so.                         *)
RowLive(j) ==
    /\ j \in Jti /\ j \notin expired /\ j \notin revoked
    /\ owner[j] \in Users /\ activeSessions[owner[j]] = j

LEMMA LiveByRow == ByRow => \A j \in Jti : SessionLive(j) <=> RowLive(j)
  <1> SUFFICES ASSUME ByRow, NEW j \in Jti
               PROVE  SessionLive(j) <=> RowLive(j)
    OBVIOUS
  <1>1. /\ redis[j] \in {NoUser, owner[j]} /\ owner[j] \in Users \cup {NoUser}
        /\ ~RedisEnabled => redis[j] = NoUser
        /\ redis[j] # NoUser /\ j \notin revoked \cup expired
             => activeSessions[owner[j]] = j
    BY DEF ByRow, RowDecides, Stores, TypeOK
  <1> QED BY <1>1, SessionsAssumption DEF SessionLive, IsActiveSession, RowLive

(* The same of the state after a step.                                     *)
LEMMA LiveByRowNext == (ByRow => \A j \in Jti : SessionLive(j) <=> RowLive(j))'
  BY LiveByRow, PTL

LEMMA OpenByRow ==
  ASSUME ByRow
  PROVE  OpenSessions = {<<owner[j], j>> : j \in {k \in Jti : RowLive(k)}}
  BY LiveByRow DEF OpenSessions

LEMMA OpenByRowNext ==
  ASSUME ByRow'
  PROVE  OpenSessions' = {<<owner'[j], j>> : j \in {k \in Jti : RowLive(k)'}}
  BY LiveByRowNext DEF OpenSessions

LEMMA UsedByIssuing ==
  UsedTokens = {j \in Jti : /\ owner[j] # NoUser
                            /\ ~\E r \in Requests : IsIssuing(r) /\ req[r].jti = j}
  BY DEF UsedTokens, Issuing, IsIssuing, IssueSteps

(* The tokens that are used up stay the same unless a login writes its row *)
(* or gives up.                                                            *)
LEMMA UsedStays ==
  ASSUME NEW r \in Requests, Others(r), owner' = owner, IsIssuing(r) <=> IsIssuing(r)',
         IsIssuing(r) => req'[r].jti = req[r].jti
  PROVE  UsedTokens' = UsedTokens
  <1>1. ASSUME NEW s \in Requests, NEW j \in Jti
        PROVE  (IsIssuing(s) /\ req[s].jti = j) <=> (IsIssuing(s)' /\ req'[s].jti = j)
    BY <1>1 DEF Others, IsIssuing
  <1>2. UsedTokens' =
          {j \in Jti : /\ owner'[j] # NoUser
                       /\ ~\E s \in Requests : IsIssuing(s)' /\ req'[s].jti = j}
    BY UsedByIssuing DEF UsedTokens, Issuing, IsIssuing, IssueSteps
  <1> QED BY <1>1, <1>2, UsedByIssuing

LEMMA NotIssuing ==
  ASSUME NEW r \in Requests, Others(r), owner' = owner,
         ~IsIssuing(r), ~IsIssuing(r)'
  PROVE  UsedTokens' = UsedTokens
  BY UsedStays

Simulated == [Abstract!SpecNext]_(Abstract!specVars)

(* At most one session ends, and nothing else changes.                     *)
LEMMA EndsOne ==
  ASSUME ByRow, ByRow', UsedTokens' = UsedTokens,
         \A j \in Jti : owner[j] # NoUser => owner'[j] = owner[j],
         NEW k,
         \A j \in Jti : RowLive(j)' => RowLive(j),
         \A j \in Jti \ {k} : RowLive(j) => RowLive(j)'
  PROVE  Simulated
  <1> DEFINE S == {<<owner[j], j>> : j \in {i \in Jti : RowLive(i)}}
             T == {<<owner'[j], j>> : j \in {i \in Jti : RowLive(i)'}}
  <1>1. OpenSessions = S
    BY OpenByRow
  <1>2. OpenSessions' = T
    BY OpenByRowNext
  <1>3. \A j \in Jti : RowLive(j) => owner'[j] = owner[j]
    BY SessionsAssumption DEF RowLive
  <1>4. CASE k \in Jti /\ RowLive(k) /\ ~RowLive(k)'
    <2>1. <<owner[k], k>> \in S /\ T = S \ {<<owner[k], k>>}
      BY <1>3, <1>4
    <2>2. Abstract!Close(<<owner[k], k>>)
      BY <1>1, <1>2, <2>1 DEF Abstract!Close
    <2>3. Abstract!SpecNext
      BY <1>1, <2>1, <2>2 DEF Abstract!SpecNext
    <2> QED BY <2>3 DEF Simulated
  <1>5. CASE ~(k \in Jti /\ RowLive(k) /\ ~RowLive(k)')
    <2>1. T = S
      BY <1>3, <1>5
    <2> QED BY <1>1, <1>2, <2>1 DEF Simulated, Abstract!specVars
  <1> QED BY <1>4, <1>5

(* The stores stay as they are.                                            *)
LEMMA EndsNone ==
  ASSUME ByRow, ByRow', UsedTokens' = UsedTokens,
         UNCHANGED <<owner, activeSessions, revoked, expired>>
  PROVE  Simulated
  <1>1. \A j \in Jti : RowLive(j)' <=> RowLive(j)
    BY DEF RowLive
  <1> QED BY <1>1, EndsOne

(* A login that has not written the row gives up.                          *)
LEMMA GivesUp ==
  ASSUME ByRow, ByRow', Tokens,
         UNCHANGED <<owner, activeSessions, revoked, expired>>,
         NEW r \in Requests, Frees(r), IsIssuing(r)
  PROVE  Simulated
  <1> DEFINE j == req[r].jti
  <1>1. j \in Jti /\ owner[j] # NoUser /\ req[r].kind = "login"
    BY SessionsAssumption DEF Tokens, IsIssuing
  <1>2. UsedTokens' =
          {k \in Jti : /\ owner'[k] # NoUser
                       /\ ~\E s \in Requests : IsIssuing(s)' /\ req'[s].jti = k}
    BY UsedByIssuing DEF UsedTokens, Issuing, IsIssuing, IssueSteps
  <1>3. ASSUME NEW s \in Requests, NEW k \in Jti
        PROVE  (IsIssuing(s)' /\ req'[s].jti = k) <=>
                  (IsIssuing(s) /\ req[s].jti = k /\ k # j)
    BY <1>1 DEF Frees, Others, Idle, IsIssuing, Tokens
  <1>4. j \notin UsedTokens /\ UsedTokens' = UsedTokens \cup {j}
    BY <1>1, <1>2, <1>3, UsedByIssuing
  <1>5. OpenSessions' = OpenSessions
    BY OpenByRow, OpenByRowNext DEF RowLive
  <1>6. Abstract!Waste(j)
    BY <1>4, <1>5 DEF Abstract!Waste
  <1>7. Abstract!SpecNext
    BY <1>1, <1>6 DEF Abstract!SpecNext
  <1> QED BY <1>7 DEF Simulated

(* A login writes its row, and whatever the row held before is closed.     *)
LEMMA OpensOne ==
  ASSUME INew, ByRow, ByRow', NEW r \in Requests, UpsertSession(r)
  PROVE  Simulated
  <1> DEFINE j == req[r].jti
             u == req[r].user
  <1>1. /\ TypeOK /\ Shape /\ Tokens /\ Stores
        /\ activeSessions \in [Users -> Jti \cup {NoJti}]
    BY DEF INew, IInv, TypeOK
  <1>2. req[r].kind = "login" /\ IsIssuing(r)
    BY <1>1, KindAt DEF UpsertSession, At, LoginSteps, IsIssuing, IssueSteps
  <1>3. /\ u \in Users /\ j \in Jti /\ owner[j] = u
        /\ j \notin revoked /\ j \notin expired
    BY <1>1, <1>2 DEF Tokens, INew, New, Unseen
  <1>4. /\ activeSessions' = [activeSessions EXCEPT ![u] = j]
        /\ UNCHANGED <<owner, revoked, expired>>
    BY DEF UpsertSession, tokVars
  <1>5. Keeps(r) /\ req'[r].pc = "setNew"
    BY <1>1, GotoKeeps DEF UpsertSession, Steps
  <1>6. ASSUME NEW k \in Jti
        PROVE  RowLive(k)' <=> (k = j \/ (RowLive(k) /\ owner[k] # u))
    BY <1>1, <1>3, <1>4, <1>6 DEF RowLive
  <1> DEFINE S == {<<owner[k], k>> : k \in {i \in Jti : RowLive(i)}}
             T == {<<owner'[k], k>> : k \in {i \in Jti : RowLive(i)'}}
  <1>7. OpenSessions = S
    BY <1>1, OpenByRow
  <1>8. OpenSessions' = T
    BY OpenByRowNext
  <1>9. T = (S \ {s \in S : s[1] = u}) \cup {<<u, j>>}
    BY <1>3, <1>4, <1>6
  <1>10. ASSUME NEW s \in Requests, NEW k \in Jti
         PROVE  (IsIssuing(s)' /\ req'[s].jti = k) <=>
                   (IsIssuing(s) /\ req[s].jti = k /\ k # j)
    BY <1>1, <1>2, <1>5 DEF Keeps, Others, IsIssuing, IssueSteps, Tokens
  <1>11. UsedTokens' =
          {k \in Jti : /\ owner'[k] # NoUser
                       /\ ~\E s \in Requests : IsIssuing(s)' /\ req'[s].jti = k}
    BY UsedByIssuing DEF UsedTokens, Issuing, IsIssuing, IssueSteps
  <1>12. owner[j] # NoUser
    BY <1>3, SessionsAssumption
  <1>13. j \notin UsedTokens /\ UsedTokens' = UsedTokens \cup {j}
    BY <1>2, <1>3, <1>4, <1>10, <1>11, <1>12, UsedByIssuing
  <1>14. Abstract!Open(u, j)
    BY <1>7, <1>8, <1>9, <1>13 DEF Abstract!Open, Abstract!SessionsOf
  <1>15. Abstract!SpecNext
    BY <1>3, <1>14 DEF Abstract!SpecNext
  <1> QED BY <1>15 DEF Simulated

(* A login begins with a token that nobody has seen.                       *)
LEMMA LoginHidden ==
  ASSUME INew, ByRow, ByRow', NEW r \in Requests, NEW u \in Users, NEW j \in Jti,
         LoginHandler(r, u, j)
  PROVE  Simulated
  <1>1. TypeOK /\ Shape /\ Tokens /\ Stores
    BY DEF INew, IInv
  <1>2. /\ owner[j] = NoUser /\ owner' = [owner EXCEPT ![j] = u]
        /\ UNCHANGED <<activeSessions, revoked, expired>>
    BY DEF LoginHandler, Fresh, dbVars
  <1>3. /\ Others(r) /\ req[r].pc = "idle"
        /\ req'[r].kind = "login" /\ req'[r].pc = "getOld" /\ req'[r].jti = j
    BY <1>1, ArriveTakes DEF LoginHandler
  <1>4. \A v \in Users : activeSessions[v] # j
    BY <1>2 DEF INew, New, Unseen
  <1>5. /\ owner \in [Jti -> Users \cup {NoUser}]
        /\ \A k \in Jti \ {j} : owner'[k] = owner[k]
        /\ owner'[j] = u
    BY <1>1, <1>2 DEF TypeOK
  <1>6. \A k \in Jti : RowLive(k)' <=> RowLive(k)
    BY <1>2, <1>4, <1>5, SessionsAssumption DEF RowLive
  <1>7. ~IsIssuing(r) /\ IsIssuing(r)'
    BY <1>3 DEF IsIssuing, IssueSteps
  <1>8. ASSUME NEW s \in Requests
        PROVE  s # r => (IsIssuing(s)' <=> IsIssuing(s)) /\ req'[s] = req[s]
    BY <1>3 DEF Others, IsIssuing
  <1>9. UsedTokens' =
          {k \in Jti : /\ owner'[k] # NoUser
                       /\ ~\E s \in Requests : IsIssuing(s)' /\ req'[s].jti = k}
    BY UsedByIssuing DEF UsedTokens, Issuing, IsIssuing, IssueSteps
  <1>10. UsedTokens' = UsedTokens
    BY <1>2, <1>3, <1>5, <1>7, <1>8, <1>9, UsedByIssuing
  <1>11. \A k \in Jti : owner[k] # NoUser => owner'[k] = owner[k]
    BY <1>2, <1>5
  <1> QED BY <1>1, <1>6, <1>10, <1>11, EndsOne

(* Every step of Sessions is one of SingleSession, or none.                *)
LEMMA StepSimulation ==
  ASSUME INew, ByRow, ByRow', [Next]_vars
  PROVE  Simulated
  <1> USE SessionsAssumption DEF dbVars, tokVars
  <1>1. /\ TypeOK /\ Shape /\ Tokens
        /\ activeSessions \in [Users -> Jti \cup {NoJti}]
    BY DEF INew, IInv, TypeOK
  <1>2. ASSUME NEW r \in Requests, NEW u \in Users, NEW j \in Jti, LoginHandler(r, u, j)
        PROVE  Simulated
    BY <1>1, <1>2, LoginHidden
  <1>3. ASSUME NEW r \in Requests,
               \/ \E kind \in AuthKinds, k \in Jti : ParseToken(r, kind, k)
               \/ \E kind \in AdminKinds, u \in Users : AdminRequest(r, kind, u)
        PROVE  Simulated
    <2>1. UNCHANGED <<owner, activeSessions, revoked, expired>>
      BY <1>3 DEF ParseToken, AdminRequest
    <2>2. PICK kind \in AuthKinds \cup AdminKinds :
            \E pc, u, j, ends : Arrive(r, kind, pc, u, j, ends)
      <3>1. ASSUME NEW kind \in AuthKinds, NEW k \in Jti, ParseToken(r, kind, k)
            PROVE  \E pc, u, j, ends : Arrive(r, kind, pc, u, j, ends)
        BY <3>1 DEF ParseToken
      <3>2. ASSUME NEW kind \in AdminKinds, NEW u \in Users, AdminRequest(r, kind, u)
            PROVE  \E pc, v, j, ends : Arrive(r, kind, pc, v, j, ends)
        BY <3>2 DEF AdminRequest
      <3> QED BY <1>3, <3>1, <3>2
    <2>3. Others(r) /\ req'[r].kind = kind /\ req[r].pc = "idle"
      BY <1>1, <2>2, ArriveTakes
    <2>4. ~IsIssuing(r) /\ ~IsIssuing(r)'
      BY <2>2, <2>3 DEF IsIssuing, IssueSteps, AuthKinds, AdminKinds
    <2> QED BY <1>1, <2>1, <2>3, <2>4, NotIssuing, EndsNone
  <1>4. ASSUME NEW r \in Requests, GetOldSession(r) \/ RevokeOldToken(r) \/ DeleteOldSession(r)
        PROVE  UsedTokens' = UsedTokens
    <2>1. Keeps(r) /\ owner' = owner
      BY <1>1, <1>4, MovesOn DEF GetOldSession, RevokeOldToken, DeleteOldSession
    <2>2. req[r].pc \in IssueSteps /\ req'[r].pc \in IssueSteps
      <3>1. CASE GetOldSession(r)
        <4>1. PICK old : req' = [req EXCEPT ![r].found = old,
                                            ![r].pc = IF old = NoJti THEN "upsert"
                                                                     ELSE "revokeOld"]
          BY <3>1 DEF GetOldSession
        <4> QED BY <1>1, <3>1, <4>1 DEF GetOldSession, At, IssueSteps, TypeOK, Request
      <3>2. CASE RevokeOldToken(r) \/ DeleteOldSession(r)
        <4>1. Goto(r, "delOld") \/ Goto(r, "upsert")
          BY <3>2 DEF RevokeOldToken, DeleteOldSession
        <4> QED BY <1>1, <3>2, <4>1, GotoKeeps
                DEF RevokeOldToken, DeleteOldSession, At, IssueSteps, Steps
      <3> QED BY <1>4, <3>1, <3>2
    <2>3. IsIssuing(r) <=> IsIssuing(r)'
      BY <2>1, <2>2 DEF IsIssuing, Keeps
    <2> QED BY <2>1, <2>3, UsedStays DEF Keeps
  <1>5. ASSUME NEW r \in Requests, GetOldSession(r) \/ DeleteOldSession(r)
        PROVE  Simulated
    <2>1. UNCHANGED <<owner, activeSessions, revoked, expired>>
      BY <1>5 DEF GetOldSession, DeleteOldSession
    <2> QED BY <1>1, <1>4, <1>5, <2>1, EndsNone
  <1>6. ASSUME NEW r \in Requests, RevokeOldToken(r)
        PROVE  Simulated
    <2>1. /\ UNCHANGED <<owner, activeSessions, expired>>
          /\ revoked' = revoked \/ revoked' = revoked \cup {req[r].found}
      BY <1>6 DEF RevokeOldToken
    <2>2. /\ \A j \in Jti : RowLive(j)' => RowLive(j)
          /\ \A j \in Jti \ {req[r].found} : RowLive(j) => RowLive(j)'
      BY <2>1 DEF RowLive
    <2> QED BY <1>1, <1>4, <1>6, <2>1, <2>2, EndsOne
  <1>7. ASSUME NEW r \in Requests, UpsertSession(r)
        PROVE  Simulated
    BY <1>1, <1>7, OpensOne
  <1>8. ASSUME NEW r \in Requests,
               \/ SetNewSession(r) \/ IsTokenRevoked(r) \/ GetSession(r)
               \/ GetSessionRow(r) \/ CheckUserStatus(r) \/ UseHandler(r)
               \/ RevokeOwnToken(r) \/ ClearLookup(r) \/ ClearRedis(r)
               \/ ClearRow(r) \/ SetStatus(r) \/ SoftDelete(r)
        PROVE  UsedTokens' = UsedTokens
    <2>1. req[r].pc \notin IssueSteps
      BY <1>8 DEF SetNewSession, IsTokenRevoked, GetSession, GetSessionRow,
         CheckUserStatus, UseHandler, RevokeOwnToken, ClearLookup, ClearRedis,
         ClearRow, SetStatus, SoftDelete, At, IssueSteps
    <2>2. Keeps(r) \/ Frees(r)
      BY <1>1, <1>8, MoveKeeps
    <2>3. ~IsIssuing(r)'
      <3>1. CASE SetNewSession(r)
        BY <1>1, <3>1, RespondFrees DEF SetNewSession, Frees, Idle, IsIssuing
      <3>2. CASE ~SetNewSession(r)
        <4>1. req[r].pc \in CheckSteps \cup {"clearLookup", "clearDel", "clearRow",
                                             "update", "softDelete"}
          BY <1>8, <3>2 DEF At, CheckSteps, IsTokenRevoked, GetSession, GetSessionRow,
             CheckUserStatus, UseHandler, RevokeOwnToken, ClearLookup, ClearRedis,
             ClearRow, SetStatus, SoftDelete
        <4>2. req[r].kind # "login"
          BY <1>1, <4>1 DEF Shape, LoginSteps, CheckSteps, AdminKinds
        <4> QED BY <2>2, <4>2 DEF Keeps, Frees, Idle, IsIssuing
      <3> QED BY <3>1, <3>2
    <2>4. owner' = owner
      BY <1>8 DEF SetNewSession, IsTokenRevoked, GetSession, GetSessionRow,
         CheckUserStatus, UseHandler, RevokeOwnToken, ClearLookup, ClearRedis,
         ClearRow, SetStatus, SoftDelete
    <2>5. ~IsIssuing(r) /\ Others(r)
      BY <2>1, <2>2 DEF IsIssuing, Keeps, Frees
    <2> QED BY <2>3, <2>4, <2>5, NotIssuing
  <1>9. ASSUME NEW r \in Requests,
               \/ SetNewSession(r) \/ IsTokenRevoked(r) \/ GetSession(r)
               \/ GetSessionRow(r) \/ CheckUserStatus(r) \/ UseHandler(r)
               \/ ClearLookup(r) \/ ClearRedis(r) \/ SetStatus(r) \/ SoftDelete(r)
        PROVE  Simulated
    <2>1. UNCHANGED <<owner, activeSessions, revoked, expired>>
      BY <1>9 DEF SetNewSession, IsTokenRevoked, GetSession, GetSessionRow,
         CheckUserStatus, UseHandler, ClearLookup, ClearRedis, SetStatus, SoftDelete
    <2> QED BY <1>1, <1>8, <1>9, <2>1, EndsNone
  <1>10. ASSUME NEW r \in Requests, RevokeOwnToken(r)
         PROVE  Simulated
    <2>1. /\ UNCHANGED <<owner, activeSessions, expired>>
          /\ revoked' = revoked \cup {req[r].jti}
      BY <1>10 DEF RevokeOwnToken
    <2>2. /\ \A j \in Jti : RowLive(j)' => RowLive(j)
          /\ \A j \in Jti \ {req[r].jti} : RowLive(j) => RowLive(j)'
      BY <2>1 DEF RowLive
    <2> QED BY <1>1, <1>8, <1>10, <2>1, <2>2, EndsOne
  <1>11. ASSUME NEW r \in Requests, ClearRow(r)
         PROVE  Simulated
    <2>1. /\ UNCHANGED <<owner, revoked, expired>>
          /\ \/ activeSessions' = [activeSessions EXCEPT ![req[r].user] = NoJti]
             \/ activeSessions' = activeSessions
      BY <1>11 DEF ClearRow
    <2>2. \A j \in Jti : j # NoJti
      BY DEF Jti, NoJti
    <2>3. /\ \A j \in Jti : RowLive(j)' => RowLive(j)
          /\ \A j \in Jti \ {activeSessions[req[r].user]} : RowLive(j) => RowLive(j)'
      BY <1>1, <2>1, <2>2 DEF RowLive
    <2> QED BY <1>1, <1>8, <1>11, <2>1, <2>3, EndsOne
  <1>12. ASSUME NEW r \in Requests, Abort(r)
         PROVE  Simulated
    <2>1. /\ Frees(r)
          /\ UNCHANGED <<owner, activeSessions, revoked, expired>>
      BY <1>1, <1>12, RejectFrees DEF Abort
    <2>2. CASE IsIssuing(r)
      BY <1>1, <2>1, <2>2, GivesUp
    <2>3. CASE ~IsIssuing(r)
      <3>1. ~IsIssuing(r)'
        BY <2>1 DEF Frees, Idle, IsIssuing
      <3> QED BY <1>1, <2>1, <2>3, <3>1, NotIssuing, EndsNone DEF Frees
    <2> QED BY <2>2, <2>3
  <1>13. ASSUME \/ \E k \in Jti : Expire(k) \/ RedisTTL(k)
                \/ CleanupExpiredTokens \/ RedisSave \/ RedisRestart
                \/ UNCHANGED vars
         PROVE  /\ UsedTokens' = UsedTokens
                /\ UNCHANGED <<owner, activeSessions>>
    <2>1. UNCHANGED <<req, owner, activeSessions>>
      BY <1>13, EnvironmentKeeps
    <2> QED BY <2>1 DEF UsedTokens, Issuing
  <1>14. ASSUME NEW k \in Jti, Expire(k)
         PROVE  Simulated
    <2>1. revoked' = revoked /\ expired' = expired \cup {k}
      BY <1>14 DEF Expire
    <2>2. /\ \A j \in Jti : RowLive(j)' => RowLive(j)
          /\ \A j \in Jti \ {k} : RowLive(j) => RowLive(j)'
      BY <1>13, <1>14, <2>1 DEF RowLive
    <2> QED BY <1>1, <1>13, <1>14, <2>2, EndsOne
  <1>15. CASE CleanupExpiredTokens
    <2>1. revoked' = revoked \ expired /\ expired' = expired
      BY <1>15 DEF CleanupExpiredTokens
    <2>2. \A j \in Jti : RowLive(j)' <=> RowLive(j)
      BY <1>13, <1>15, <2>1 DEF RowLive
    <2> QED BY <1>1, <1>13, <1>15, <2>2, EndsOne
  <1>16. CASE (\E k \in Jti : RedisTTL(k)) \/ RedisSave \/ RedisRestart \/ UNCHANGED vars
    <2>1. revoked' = revoked /\ expired' = expired
      BY <1>16 DEF RedisTTL, RedisSave, RedisRestart, vars
    <2> QED BY <1>1, <1>13, <1>16, <2>1, EndsNone
  <1> QED
    BY <1>2, <1>3, <1>5, <1>6, <1>7, <1>9, <1>10, <1>11, <1>12, <1>14, <1>15, <1>16,
       NextCases

(* At the start nothing is open.                                           *)
LEMMA OpensNothing == Init => Abstract!SpecInit
  BY SessionsAssumption
     DEF Init, Abstract!SpecInit, OpenSessions, UsedTokens, SessionLive, IsActiveSession

(* Without Redis, and as long as requests are done before their token      *)
(* expires, Sessions implements one session per user: whichever logins,    *)
(* logouts, bans and clearings overtake each other, a session is opened by *)
(* the write of the row, closes the one before in that very step, and is   *)
(* never open again once it was closed.                                    *)
THEOREM RefinementWithoutRedis ==
  ASSUME ~RedisEnabled, "slow" \notin Faults
  PROVE  Spec => ImplementsSingleSession
  <1>1. INew => ByRow
    BY NothingInRedis DEF INew, IInv
  <1>2. INew /\ ByRow /\ ByRow' /\ [Next]_vars => [Abstract!SpecNext]_(Abstract!specVars)
    BY StepSimulation DEF Simulated
  <1> QED
    BY <1>1, <1>2, OpensNothing, NewInvariance, PTL
       DEF Spec, ImplementsSingleSession, Abstract!SingleSessionSpec

-----------------------------------------------------------------------------
(* What was ended stays ended.                                             *)

RowGone(j) == activeSessions[owner[j]] # j

(* A delivered token that is out of the row of its user stays out: the row *)
(* is only ever given a token that was not delivered yet.                  *)
LEMMA RowGoneStays ==
  ASSUME IInv, [Next]_vars, NEW j \in delivered, RowGone(j)
  PROVE  RowGone(j)'
  <1> USE DEF dbVars, tokVars
  <1>1. /\ TypeOK /\ Shape /\ Tokens
        /\ activeSessions \in [Users -> Jti \cup {NoJti}]
    BY DEF IInv, TypeOK
  <1>2. /\ j \in Jti /\ owner[j] \in Users /\ j # NoJti /\ owner'[j] = owner[j]
    <2>1. j \in Jti /\ owner[j] \in Users \cup {NoUser} /\ owner[j] # NoUser
      BY <1>1 DEF TypeOK, Tokens
    <2> QED BY <1>1, <2>1, OwnerStays DEF Jti, NoJti
  <1>3. ASSUME \A u \in Users : activeSessions'[u] \in {activeSessions[u], NoJti}
        PROVE  RowGone(j)'
    BY <1>2, <1>3 DEF RowGone
  <1>4. ASSUME NEW r \in Requests, UpsertSession(r)
        PROVE  RowGone(j)'
    <2>1. req[r].jti # j
      BY <1>1, <1>4, KindAt DEF UpsertSession, At, LoginSteps, Tokens
    <2>2. \A u \in Users : activeSessions'[u] \in {activeSessions[u], req[r].jti}
      BY <1>1, <1>4 DEF UpsertSession
    <2> QED BY <1>2, <2>1, <2>2 DEF RowGone
  <1>5. ASSUME NEW r \in Requests,
               \/ \E u \in Users, k \in Jti : LoginHandler(r, u, k)
               \/ \E kind \in AuthKinds, k \in Jti : ParseToken(r, kind, k)
               \/ \E kind \in AdminKinds, u \in Users : AdminRequest(r, kind, u)
               \/ GetOldSession(r) \/ RevokeOldToken(r) \/ DeleteOldSession(r)
               \/ SetNewSession(r) \/ IsTokenRevoked(r)
               \/ GetSession(r) \/ GetSessionRow(r) \/ CheckUserStatus(r)
               \/ UseHandler(r) \/ RevokeOwnToken(r) \/ ClearLookup(r)
               \/ ClearRedis(r) \/ SetStatus(r) \/ SoftDelete(r) \/ Abort(r)
        PROVE  RowGone(j)'
    <2>1. activeSessions' = activeSessions
      BY <1>5 DEF LoginHandler, ParseToken, AdminRequest, GetOldSession,
         RevokeOldToken, DeleteOldSession, SetNewSession, IsTokenRevoked, GetSession,
         GetSessionRow, CheckUserStatus, UseHandler, RevokeOwnToken, ClearLookup,
         ClearRedis, SetStatus, SoftDelete, Abort
    <2> QED BY <1>3, <2>1
  <1>6. ASSUME NEW r \in Requests, ClearRow(r)
        PROVE  RowGone(j)'
    <2>1. \A u \in Users : activeSessions'[u] \in {activeSessions[u], NoJti}
      BY <1>1, <1>6 DEF ClearRow
    <2> QED BY <1>3, <2>1
  <1>7. CASE \/ \E k \in Jti : Expire(k) \/ RedisTTL(k)
             \/ CleanupExpiredTokens \/ RedisSave \/ RedisRestart
             \/ UNCHANGED vars
    BY <1>3, <1>7, EnvironmentKeeps
  <1> QED BY <1>4, <1>5, <1>6, <1>7, NextCases

(* What a request is to end are delivered tokens of its user, and they are *)
(* out of the row before it says that it has ended them.                   *)
EndsFit(r) ==
    \A j \in req[r].ends :
        /\ j \in delivered /\ owner[j] = req[r].user
        /\ req[r].pc \in {"setNew", "softDelete"} => RowGone(j)

Ended ==
    /\ \A k \in Ending : \A j \in ended[k] : j \in delivered /\ RowGone(j)
    /\ \A r \in Requests : EndsFit(r)

LEMMA EndedInit == Init => Ended
  BY DEF Init, Ended, EndsFit, Idle

LEMMA DeliveredStays ==
  ASSUME [Next]_vars
  PROVE  delivered \subseteq delivered'
  <1> USE DEF dbVars, tokVars
  <1>1. ASSUME NEW r \in Requests, SetNewSession(r)
        PROVE  delivered \subseteq delivered'
    BY <1>1 DEF SetNewSession
  <1>2. ASSUME NEW r \in Requests,
               \/ \E u \in Users, k \in Jti : LoginHandler(r, u, k)
               \/ \E kind \in AuthKinds, k \in Jti : ParseToken(r, kind, k)
               \/ \E kind \in AdminKinds, u \in Users : AdminRequest(r, kind, u)
               \/ GetOldSession(r) \/ RevokeOldToken(r) \/ DeleteOldSession(r)
               \/ UpsertSession(r) \/ IsTokenRevoked(r)
               \/ GetSession(r) \/ GetSessionRow(r) \/ CheckUserStatus(r)
               \/ UseHandler(r) \/ RevokeOwnToken(r) \/ ClearLookup(r)
               \/ ClearRedis(r) \/ ClearRow(r) \/ SetStatus(r)
               \/ SoftDelete(r) \/ Abort(r)
        PROVE  delivered' = delivered
    BY <1>2 DEF LoginHandler, ParseToken, AdminRequest, GetOldSession,
       RevokeOldToken, DeleteOldSession, UpsertSession, IsTokenRevoked, GetSession,
       GetSessionRow, CheckUserStatus, UseHandler, RevokeOwnToken, ClearLookup,
       ClearRedis, ClearRow, SetStatus, SoftDelete, Abort
  <1>3. CASE \/ \E j \in Jti : Expire(j) \/ RedisTTL(j)
             \/ CleanupExpiredTokens \/ RedisSave \/ RedisRestart
             \/ UNCHANGED vars
    BY <1>3, EnvironmentKeeps
  <1> QED BY <1>1, <1>2, <1>3, NextCases

LEMMA EndedStep ==
  ASSUME IInv, Ended, [Next]_vars, "clearRow" \notin Faults
  PROVE  Ended'
  <1> USE SessionsAssumption DEF dbVars, tokVars
  <1>1. /\ TypeOK /\ Shape /\ Tokens
        /\ activeSessions \in [Users -> Jti \cup {NoJti}]
    BY DEF IInv, TypeOK
  <1>2. ASSUME NEW j \in delivered
        PROVE  /\ j \in delivered' /\ owner'[j] = owner[j]
               /\ RowGone(j) => RowGone(j)'
    <2>1. j \in Jti /\ owner[j] # NoUser
      BY <1>1 DEF TypeOK, Tokens
    <2> QED BY <1>1, <2>1, DeliveredStays, OwnerStays, RowGoneStays
  <1>3. \A k \in Ending : \A j \in ended[k] : j \in delivered' /\ RowGone(j)'
    BY <1>2 DEF Ended
  <1>4. ASSUME NEW r \in Requests, req'[r] = req[r]
        PROVE  EndsFit(r)'
    BY <1>2, <1>4 DEF Ended, EndsFit, RowGone
  <1>5. ASSUME NEW r \in Requests, Frees(r), ended' = ended
        PROVE  Ended'
    <2>1. EndsFit(r)'
      BY <1>5 DEF Frees, Idle, EndsFit
    <2> QED BY <1>3, <1>4, <1>5, <2>1 DEF Frees, Others, Ended
  <1>6. ASSUME NEW r \in Requests, Keeps(r), ended' = ended,
               \/ req'[r].pc \notin {"setNew", "softDelete"}
               \/ \A j \in req[r].ends : RowGone(j)'
        PROVE  Ended'
    <2>1. EndsFit(r)'
      BY <1>2, <1>6 DEF Keeps, Ended, EndsFit, RowGone
    <2> QED BY <1>3, <1>4, <1>6, <2>1 DEF Keeps, Others, Ended
  <1>7. ASSUME NEW r \in Requests, Respond(r),
               req[r].kind \in Ending => \A j \in req[r].ends : RowGone(j)'
        PROVE  Ended'
    <2>1. /\ Frees(r)
          /\ \A k \in Ending :
               ended'[k] \subseteq ended[k] \cup (IF req[r].kind = k THEN req[r].ends
                                                                  ELSE {})
      BY <1>1, <1>7, RespondFrees
    <2>2. \A j \in req[r].ends : j \in delivered'
      BY <1>2 DEF Ended, EndsFit
    <2>3. \A k \in Ending : \A j \in ended'[k] : j \in delivered' /\ RowGone(j)'
      BY <1>3, <1>7, <2>1, <2>2
    <2>4. EndsFit(r)'
      BY <2>1 DEF Frees, Idle, EndsFit
    <2> QED BY <1>4, <2>1, <2>3, <2>4 DEF Frees, Others, Ended
  <1>8. ASSUME NEW r \in Requests, NEW kind, NEW pc, NEW u, NEW j, NEW ends,
               Arrive(r, kind, pc, u, j, ends), pc \notin {"setNew", "softDelete"},
               \A k \in ends : k \in delivered' /\ owner'[k] = u
        PROVE  Ended'
    <2>1. Others(r) /\ ended' = ended /\ EndsFit(r)'
      BY <1>1, <1>8, ArriveTakes DEF EndsFit
    <2> QED BY <1>3, <1>4, <2>1 DEF Others, Ended
  <1>9. ASSUME NEW r \in Requests, NEW u \in Users, NEW j \in Jti, LoginHandler(r, u, j)
        PROVE  Ended'
    <2>1. \A k \in TokensOf(u) : k \in delivered' /\ owner'[k] = u
      BY <1>2 DEF TokensOf
    <2> QED BY <1>8, <1>9, <2>1 DEF LoginHandler
  <1>10. ASSUME NEW r \in Requests, NEW kind \in AuthKinds, NEW j \in Jti,
                ParseToken(r, kind, j)
         PROVE  Ended'
    <2> DEFINE ends == CASE kind = "logout"    -> {j}
                         [] kind = "logoutAll" -> TokensOf(owner[j])
                         [] OTHER              -> {}
    <2>1. Arrive(r, kind, "revoked", owner[j], j, ends) /\ j \in delivered
      BY <1>10 DEF ParseToken
    <2>2. \A k \in ends : k \in delivered /\ owner[k] = owner[j]
      BY <2>1 DEF TokensOf, AuthKinds
    <2> HIDE DEF ends
    <2> QED BY <1>2, <1>8, <2>1, <2>2
  <1>11. ASSUME NEW r \in Requests, NEW kind \in AdminKinds, NEW u \in Users,
                AdminRequest(r, kind, u)
         PROVE  Ended'
    <2> DEFINE ends == IF kind \in Ending THEN TokensOf(u) ELSE {}
               pc   == IF kind = "delete" THEN StartClear ELSE "update"
    <2>1. Arrive(r, kind, pc, u, NoJti, ends)
      BY <1>11 DEF AdminRequest
    <2>2. pc \notin {"setNew", "softDelete"}
      BY DEF StartClear
    <2>3. \A k \in ends : k \in delivered /\ owner[k] = u
      BY DEF TokensOf
    <2> HIDE DEF ends, pc
    <2> QED BY <1>2, <1>8, <2>1, <2>2, <2>3
  <1>12. ASSUME NEW r \in Requests, UpsertSession(r)
         PROVE  Ended'
    <2>1. Keeps(r) /\ ended' = ended
      BY <1>1, <1>12, MovesOn
    <2>2. req[r].kind = "login" /\ req[r].jti \notin delivered /\ req[r].user \in Users
      BY <1>1, <1>12, KindAt DEF UpsertSession, At, LoginSteps, Tokens
    <2>3. activeSessions'[req[r].user] = req[r].jti /\ owner' = owner
      BY <1>1, <1>12, <2>2 DEF UpsertSession
    <2>4. \A j \in req[r].ends : j \in delivered /\ owner[j] = req[r].user
      BY DEF Ended, EndsFit
    <2>5. \A j \in req[r].ends : RowGone(j)'
      BY <2>2, <2>3, <2>4 DEF RowGone
    <2> QED BY <1>6, <2>1, <2>5
  <1>13. ASSUME NEW r \in Requests,
                \/ GetOldSession(r) \/ RevokeOldToken(r) \/ DeleteOldSession(r)
                \/ ClearLookup(r) \/ RevokeOwnToken(r) \/ ClearRedis(r)
         PROVE  Ended'
    <2>1. Keeps(r) /\ ended' = ended
      BY <1>1, <1>13, MovesOn
    <2>2. req'[r].pc \notin {"setNew", "softDelete"}
      <3>1. CASE GetOldSession(r)
        <4>1. PICK old : req' = [req EXCEPT ![r].found = old,
                                            ![r].pc = IF old = NoJti THEN "upsert"
                                                                     ELSE "revokeOld"]
          BY <3>1 DEF GetOldSession
        <4> QED BY <1>1, <4>1 DEF TypeOK, Request
      <3>2. CASE ClearLookup(r)
        <4>1. PICK old : req' = [req EXCEPT ![r].found = old,
                                            ![r].pc = IF old = NoJti THEN "clearRow"
                                                                     ELSE "clearDel"]
          BY <3>2 DEF ClearLookup
        <4> QED BY <1>1, <4>1 DEF TypeOK, Request
      <3>3. CASE RevokeOwnToken(r)
        BY <1>1, <3>3 DEF RevokeOwnToken, TypeOK, Request
      <3>4. CASE RevokeOldToken(r) \/ DeleteOldSession(r) \/ ClearRedis(r)
        <4>1. PICK pc \in {"delOld", "upsert", "clearRow"} : Goto(r, pc)
          BY <3>4 DEF RevokeOldToken, DeleteOldSession, ClearRedis
        <4> QED BY <1>1, <4>1, GotoKeeps DEF Steps
      <3> QED BY <1>13, <3>1, <3>2, <3>3, <3>4
    <2> QED BY <1>6, <2>1, <2>2
  <1>14. ASSUME NEW r \in Requests,
                IsTokenRevoked(r) \/ GetSession(r) \/ GetSessionRow(r) \/ CheckUserStatus(r)
         PROVE  Ended'
    <2>1. \/ Reject(r)
          \/ \E pc \in {"session", "rowSession", "status", "handler"} :
                Goto(r, pc) /\ UNCHANGED histVars
      BY <1>14 DEF IsTokenRevoked, GetSession, GetSessionRow, CheckUserStatus
    <2>2. CASE Reject(r)
      BY <1>1, <1>5, <2>2, RejectFrees
    <2>3. ASSUME NEW pc \in {"session", "rowSession", "status", "handler"},
                 Goto(r, pc), UNCHANGED histVars
          PROVE  Ended'
      <3>1. Keeps(r) /\ req'[r].pc = pc /\ ended' = ended
        BY <1>1, <2>3, GotoKeeps DEF Steps, histVars
      <3> QED BY <1>6, <3>1
    <2> QED BY <2>1, <2>2, <2>3
  <1>15. ASSUME NEW r \in Requests, SetNewSession(r)
         PROVE  Ended'
    <2>1. \A j \in req[r].ends : j \in delivered /\ RowGone(j)
      BY <1>15 DEF SetNewSession, At, Ended, EndsFit
    <2>2. \A j \in req[r].ends : RowGone(j)'
      BY <1>2, <2>1
    <2> QED BY <1>7, <1>15, <2>2 DEF SetNewSession
  <1>16. ASSUME NEW r \in Requests, UseHandler(r)
         PROVE  Ended'
    BY <1>7, <1>16 DEF UseHandler, Ending
  <1>17. ASSUME NEW r \in Requests, ClearRow(r)
         PROVE  Ended'
    <2>1. req[r].user \in Users
      BY <1>1, <1>17, BusyUser DEF ClearRow, At
    <2>2. /\ activeSessions' = [activeSessions EXCEPT ![req[r].user] = NoJti]
          /\ (Goto(r, "softDelete") /\ UNCHANGED histVars) \/ Respond(r)
          /\ owner' = owner
      <3>1. ~Fails("clearRow")
        BY DEF Fails
      <3>2. activeSessions' = [activeSessions EXCEPT ![req[r].user] = NoJti]
        BY <1>17, <3>1 DEF ClearRow
      <3>3. (Goto(r, "softDelete") /\ UNCHANGED histVars) \/ Respond(r)
        BY <1>17, <3>1 DEF ClearRow
      <3>4. owner' = owner
        BY <1>17 DEF ClearRow, tokVars
      <3> QED BY <3>2, <3>3, <3>4
    <2>3. activeSessions'[req[r].user] = NoJti
      BY <1>1, <2>1, <2>2
    <2>4. \A j \in req[r].ends : j \in Jti /\ j # NoJti /\ owner[j] = req[r].user
      <3>1. \A j \in req[r].ends : j \in delivered /\ owner[j] = req[r].user
        BY DEF Ended, EndsFit
      <3>2. delivered \subseteq Jti /\ NoJti \notin Jti
        BY <1>1 DEF TypeOK, Jti, NoJti
      <3> QED BY <3>1, <3>2
    <2>5. \A j \in req[r].ends : RowGone(j)'
      BY <2>2, <2>3, <2>4 DEF RowGone
    <2>6. CASE Goto(r, "softDelete") /\ UNCHANGED histVars
      <3>1. Keeps(r) /\ ended' = ended
        BY <1>1, <2>6, GotoKeeps DEF Steps, histVars
      <3> QED BY <1>6, <2>5, <3>1
    <2> QED BY <1>7, <2>2, <2>5, <2>6
  <1>18. ASSUME NEW r \in Requests, SetStatus(r)
         PROVE  Ended'
    <2>1. CASE req[r].kind \in Ending
      <3>1. Goto(r, StartClear) /\ UNCHANGED histVars
        BY <1>18, <2>1 DEF SetStatus
      <3>2. StartClear \in Steps \ {"setNew", "softDelete"}
        BY DEF StartClear, Steps
      <3>3. Keeps(r) /\ req'[r].pc = StartClear /\ ended' = ended
        BY <1>1, <3>1, <3>2, GotoKeeps DEF histVars
      <3> QED BY <1>6, <3>2, <3>3
    <2>2. CASE req[r].kind \notin Ending
      BY <1>7, <1>18, <2>2 DEF SetStatus
    <2> QED BY <2>1, <2>2
  <1>19. ASSUME NEW r \in Requests, SoftDelete(r)
         PROVE  Ended'
    <2>1. \A j \in req[r].ends : j \in delivered /\ RowGone(j)
      BY <1>19 DEF SoftDelete, At, Ended, EndsFit
    <2>2. \A j \in req[r].ends : RowGone(j)'
      BY <1>2, <2>1
    <2> QED BY <1>7, <1>19, <2>2 DEF SoftDelete
  <1>20. ASSUME NEW r \in Requests, Abort(r)
         PROVE  Ended'
    BY <1>1, <1>5, <1>20, RejectFrees DEF Abort
  <1>21. CASE \/ \E j \in Jti : Expire(j) \/ RedisTTL(j)
              \/ CleanupExpiredTokens \/ RedisSave \/ RedisRestart
              \/ UNCHANGED vars
    <2>1. req' = req /\ ended' = ended
      BY <1>21, EnvironmentKeeps DEF histVars
    <2> QED BY <1>3, <1>4, <2>1 DEF Ended
  <1> QED
    BY <1>9, <1>10, <1>11, <1>12, <1>13, <1>14, <1>15, <1>16, <1>17, <1>18, <1>19,
       <1>20, <1>21, NextCases

(* Where the row decides, a token that is out of it is no session.         *)
LEMMA EndedByRow ==
  ASSUME IInv, ByRow, Ended
  PROVE  EndedNeverLive
  <1> SUFFICES ASSUME NEW k \in Ending, NEW j \in ended[k]
               PROVE  ~SessionLive(j)
    BY DEF EndedNeverLive
  <1>1. j \in Jti /\ RowGone(j)
    BY DEF Ended, IInv, TypeOK
  <1> QED BY <1>1, LiveByRow DEF RowGone, RowLive

(* Without Redis every login, logout, ban, deactivation and deletion that  *)
(* was answered with success has ended what it set out to end for good,    *)
(* provided that the row can be deleted (errors of that are ignored).      *)
THEOREM EndedWithoutRedis ==
  ASSUME ~RedisEnabled, "clearRow" \notin Faults
  PROVE  Spec => []EndedNeverLive
  <1>1. IInv /\ Ended /\ [Next]_vars => Ended'
    BY EndedStep
  <1>2. IInv /\ Ended => EndedNeverLive
    BY NothingInRedis, EndedByRow DEF IInv
  <1> QED
    BY <1>1, <1>2, EndedInit, Invariance, PTL DEF Spec

-----------------------------------------------------------------------------
(* Redis, and one request at a time.                                       *)

(* What may fail then is what leaves no key behind in Redis.               *)
OneAtATime ==
    /\ \A r, s \in Requests : r = s
    /\ Faults \cap {"getOld", "delOld", "clearLookup", "clearDel", "slow",
                    "redisRestart"} = {}

(* How far a request has brought the row and Redis.                        *)
InStep(r) ==
    LET row == activeSessions[req[r].user] IN
    /\ req[r].pc \in {"revokeOld", "delOld", "clearDel"} => req[r].found = row
    /\ req[r].pc \in {"upsert", "clearRow"} /\ row # NoJti => redis[row] = NoUser
    /\ req[r].pc = "setNew" => req[r].jti = row
    /\ req[r].kind \in AuthKinds =>
         /\ req[r].jti \notin expired
         /\ req[r].pc \in {"session", "rowSession"} => req[r].jti \notin revoked
         /\ req[r].pc \in {"status", "handler", "clearDel", "clearRow"} =>
              req[r].jti = row

Synced == RowDecides /\ \A r \in Requests : InStep(r)

(* No store holds anything at the start.                                   *)
LEMMA SyncedInit == Init => Synced
  BY DEF Init, Synced, RowDecides, InStep, Idle, AuthKinds

(* The row is written or deleted only once Redis has lost what it held.    *)
LEMMA RowDecidesStep ==
  ASSUME INew, Synced, [Next]_vars, OneAtATime
  PROVE  RowDecides'
  <1> USE SessionsAssumption DEF dbVars, tokVars
  <1>1. /\ TypeOK /\ Shape /\ Tokens /\ Stores
        /\ activeSessions \in [Users -> Jti \cup {NoJti}]
        /\ redis \in [Jti -> Users \cup {NoUser}]
    BY DEF INew, IInv, TypeOK
  <1>2. revoked \cup expired \subseteq revoked' \cup expired'
    BY <1>1, RevokedStays
  <1>3. ASSUME NEW j \in Jti, redis[j] # NoUser, j \notin revoked' \cup expired'
        PROVE  /\ owner[j] \in Users /\ owner'[j] = owner[j]
               /\ activeSessions[owner[j]] = j
    <2>1. owner[j] = redis[j]
      BY <1>3 DEF INew, IInv, Stores
    <2> QED BY <1>1, <1>2, <1>3, <2>1, OwnerStays DEF Synced, RowDecides
  <1>4. ASSUME \A j \in Jti : redis'[j] \in {redis[j], NoUser},
               \A j \in Jti, u \in Users : activeSessions[u] = j /\ redis'[j] # NoUser
                  => activeSessions'[u] = j
        PROVE  RowDecides'
    BY <1>3, <1>4 DEF RowDecides
  <1>5. ASSUME NEW r \in Requests, UpsertSession(r) \/ ClearRow(r)
        PROVE  RowDecides'
    <2>1. /\ req[r].pc \in {"upsert", "clearRow"}
          /\ req[r].user \in Users
      BY <1>1, <1>5, BusyUser DEF UpsertSession, ClearRow, At
    <2>2. activeSessions[req[r].user] # NoJti => redis[activeSessions[req[r].user]] = NoUser
      BY <2>1 DEF Synced, InStep
    <2>3. /\ redis' = redis
          /\ \A u \in Users : u # req[r].user => activeSessions'[u] = activeSessions[u]
      BY <1>1, <1>5 DEF UpsertSession, ClearRow
    <2>4. \A j \in Jti : j # NoJti
      BY DEF Jti, NoJti
    <2> QED BY <1>4, <2>2, <2>3, <2>4
  <1>6. ASSUME NEW r \in Requests, SetNewSession(r)
        PROVE  RowDecides'
    <2>1. req[r].kind = "login" /\ req[r].jti \in Jti /\ owner[req[r].jti] = req[r].user
      BY <1>1, <1>6, KindAt DEF SetNewSession, At, LoginSteps, Tokens
    <2>2. activeSessions[req[r].user] = req[r].jti
      BY <1>6 DEF SetNewSession, At, Synced, InStep
    <2>3. /\ UNCHANGED <<owner, activeSessions>>
          /\ \A j \in Jti : j # req[r].jti => redis'[j] = redis[j]
      BY <1>1, <1>6 DEF SetNewSession
    <2> QED BY <1>3, <2>1, <2>2, <2>3 DEF RowDecides
  <1>7. ASSUME NEW r \in Requests, DeleteOldSession(r) \/ ClearRedis(r)
        PROVE  RowDecides'
    <2>1. /\ activeSessions' = activeSessions
          /\ \A j \in Jti : redis'[j] \in {redis[j], NoUser}
      BY <1>1, <1>7 DEF DeleteOldSession, ClearRedis
    <2> QED BY <1>4, <2>1
  <1>8. ASSUME NEW r \in Requests,
               \/ \E u \in Users, k \in Jti : LoginHandler(r, u, k)
               \/ \E kind \in AuthKinds, k \in Jti : ParseToken(r, kind, k)
               \/ \E kind \in AdminKinds, u \in Users : AdminRequest(r, kind, u)
               \/ GetOldSession(r) \/ RevokeOldToken(r) \/ IsTokenRevoked(r)
               \/ GetSession(r) \/ GetSessionRow(r) \/ CheckUserStatus(r)
               \/ UseHandler(r) \/ RevokeOwnToken(r) \/ ClearLookup(r)
               \/ SetStatus(r) \/ SoftDelete(r) \/ Abort(r)
        PROVE  RowDecides'
    <2>1. redis' = redis /\ activeSessions' = activeSessions
      BY <1>8 DEF LoginHandler, ParseToken, AdminRequest, GetOldSession,
                  RevokeOldToken, IsTokenRevoked, GetSession, GetSessionRow,
                  CheckUserStatus, UseHandler, RevokeOwnToken, ClearLookup,
                  SetStatus, SoftDelete, Abort
    <2> QED BY <1>4, <2>1
  <1>9. CASE \/ \E k \in Jti : Expire(k) \/ RedisTTL(k)
             \/ CleanupExpiredTokens \/ RedisSave \/ UNCHANGED vars
    <2>1. /\ activeSessions' = activeSessions
          /\ \A j \in Jti : redis'[j] \in {redis[j], NoUser}
      BY <1>1, <1>9 DEF Expire, RedisTTL, CleanupExpiredTokens, RedisSave, vars
    <2> QED BY <1>4, <2>1
  <1>10. ~RedisRestart
    BY DEF RedisRestart, Fails, OneAtATime
  <1> QED BY <1>5, <1>6, <1>7, <1>8, <1>9, <1>10, NextCases

(* Every step of the one request leaves it in step with the stores.        *)
LEMMA SyncedStep ==
  ASSUME INew, Synced, [Next]_vars, OneAtATime
  PROVE  Synced'
  <1> USE SessionsAssumption DEF dbVars, tokVars
  <1>1. /\ TypeOK /\ Shape /\ Tokens /\ Stores
        /\ activeSessions \in [Users -> Jti \cup {NoJti}]
        /\ redis \in [Jti -> Users \cup {NoUser}]
        /\ req \in [Requests -> Request]
    BY DEF INew, IInv, TypeOK
  <1>2. /\ \A r, s \in Requests : r = s
        /\ ~Fails("getOld") /\ ~Fails("delOld") /\ ~Fails("clearLookup")
        /\ ~Fails("clearDel") /\ "slow" \notin Faults
    BY DEF OneAtATime, Fails
  <1>3. ASSUME NEW r \in Requests, InStep(r)'
        PROVE  Synced'
    BY <1>2, <1>3, RowDecidesStep DEF Synced
  <1>4. ASSUME NEW r \in Requests
        PROVE  /\ InStep(r)
               /\ req[r].kind \in AuthKinds =>
                    /\ req[r].jti \in Jti /\ req[r].user \in Users
                    /\ owner[req[r].jti] = req[r].user
    BY <1>1, <1>4 DEF Synced, Tokens, TypeOK, AuthKinds
  <1>5. ASSUME NEW r \in Requests, Frees(r)
        PROVE  Synced'
    BY <1>3, <1>5 DEF Frees, Idle, InStep, AuthKinds
  <1>6. ASSUME ~RedisEnabled, NEW j \in Jti
        PROVE  redis[j] = NoUser
    BY <1>1, <1>6 DEF Stores
  <1>7. ASSUME NEW r \in Requests, NEW u \in Users, NEW j \in Jti, LoginHandler(r, u, j)
        PROVE  Synced'
    <2>1. req'[r].kind = "login" /\ req'[r].pc = "getOld"
      BY <1>1, <1>7, ArriveTakes DEF LoginHandler
    <2> QED BY <1>3, <1>7, <2>1 DEF InStep, AuthKinds
  <1>8. ASSUME NEW r \in Requests, NEW kind \in AuthKinds, NEW j \in Jti,
               ParseToken(r, kind, j)
        PROVE  Synced'
    <2> DEFINE ends == CASE kind = "logout"    -> {j}
                         [] kind = "logoutAll" -> TokensOf(owner[j])
                         [] OTHER              -> {}
    <2>1. /\ Arrive(r, kind, "revoked", owner[j], j, ends)
          /\ j \notin expired /\ expired' = expired
      BY <1>8 DEF ParseToken
    <2> HIDE DEF ends
    <2>2. req'[r].pc = "revoked" /\ req'[r].jti = j
      BY <1>1, <2>1, ArriveTakes
    <2> QED BY <1>3, <2>1, <2>2 DEF InStep
  <1>9. ASSUME NEW r \in Requests, NEW kind \in AdminKinds, NEW u \in Users,
               AdminRequest(r, kind, u)
        PROVE  Synced'
    <2> DEFINE ends == IF kind \in Ending THEN TokensOf(u) ELSE {}
               pc   == IF kind = "delete" THEN StartClear ELSE "update"
    <2>1. Arrive(r, kind, pc, u, NoJti, ends) /\ UNCHANGED <<redis, activeSessions>>
      BY <1>9 DEF AdminRequest
    <2>2. pc \in {"update", "clearLookup"} \/ (pc = "clearRow" /\ ~RedisEnabled)
      BY DEF StartClear
    <2> HIDE DEF ends, pc
    <2>3. req'[r].pc = pc /\ req'[r].kind = kind /\ req'[r].user = u
      BY <1>1, <2>1, ArriveTakes
    <2>4. kind \notin AuthKinds
      BY DEF AdminKinds, AuthKinds
    <2> QED BY <1>1, <1>3, <1>6, <2>1, <2>2, <2>3, <2>4 DEF InStep
  <1>10. ASSUME NEW r \in Requests, GetOldSession(r)
         PROVE  Synced'
    <2>1. Keeps(r) /\ req[r].kind = "login" /\ UNCHANGED <<redis, activeSessions>>
      BY <1>1, <1>10, MovesOn, KindAt DEF GetOldSession, At, LoginSteps
    <2>2. req' = [req EXCEPT ![r].found = activeSessions[req[r].user],
                             ![r].pc = IF activeSessions[req[r].user] = NoJti
                                       THEN "upsert" ELSE "revokeOld"]
      BY <1>2, <1>10 DEF GetOldSession
    <2>3. /\ req'[r].found = activeSessions[req[r].user]
          /\ req'[r].pc = IF activeSessions[req[r].user] = NoJti THEN "upsert"
                                                                 ELSE "revokeOld"
      BY <1>1, <2>2 DEF Request
    <2> QED BY <1>3, <2>1, <2>3 DEF InStep, Keeps, AuthKinds
  <1>11. ASSUME NEW r \in Requests, RevokeOldToken(r)
         PROVE  Synced'
    <2>1. /\ Keeps(r) /\ req[r].kind = "login" /\ UNCHANGED <<redis, activeSessions>>
          /\ req[r].pc = "revokeOld"
      BY <1>1, <1>11, MovesOn, KindAt DEF RevokeOldToken, At, LoginSteps
    <2>2. /\ req'[r].found = req[r].found
          /\ req'[r].pc = IF RedisEnabled THEN "delOld" ELSE "upsert"
      BY <1>1, <1>11 DEF RevokeOldToken, Goto, Request
    <2>3. activeSessions[req[r].user] \in Jti \cup {NoJti}
      BY <1>1, <2>1, BusyUser
    <2>4. InStep(r)
      BY <1>4
    <2> QED BY <1>3, <1>6, <2>1, <2>2, <2>3, <2>4 DEF InStep, Keeps, AuthKinds
  <1>12. ASSUME NEW r \in Requests, DeleteOldSession(r)
         PROVE  Synced'
    <2>1. /\ Keeps(r) /\ req[r].kind = "login" /\ activeSessions' = activeSessions
          /\ req[r].pc = "delOld"
      BY <1>1, <1>12, MovesOn, KindAt DEF DeleteOldSession, At, LoginSteps
    <2>2. req'[r].pc = "upsert" /\ redis' = [redis EXCEPT ![req[r].found] = NoUser]
      BY <1>1, <1>2, <1>12 DEF DeleteOldSession, Goto, Request
    <2>3. req[r].found = activeSessions[req[r].user]
      BY <1>4, <2>1 DEF InStep
    <2>4. activeSessions[req[r].user] \in Jti \cup {NoJti}
      BY <1>1, <2>1, BusyUser
    <2> QED BY <1>1, <1>3, <2>1, <2>2, <2>3, <2>4 DEF InStep, Keeps, AuthKinds
  <1>13. ASSUME NEW r \in Requests, UpsertSession(r)
         PROVE  Synced'
    <2>1. /\ Keeps(r) /\ req[r].kind = "login" /\ req[r].user \in Users
      BY <1>1, <1>13, MovesOn, KindAt, BusyUser DEF UpsertSession, At, LoginSteps
    <2>2. /\ req'[r].pc = "setNew"
          /\ activeSessions' = [activeSessions EXCEPT ![req[r].user] = req[r].jti]
      BY <1>1, <1>13, GotoKeeps DEF UpsertSession, Steps
    <2> QED BY <1>1, <1>3, <2>1, <2>2 DEF InStep, Keeps, AuthKinds
  <1>14. ASSUME NEW r \in Requests, IsTokenRevoked(r)
         PROVE  Synced'
    <2>1. CASE Reject(r)
      BY <1>1, <1>5, <2>1, RejectFrees
    <2>2. CASE ~Reject(r)
      <3>1. /\ Goto(r, IF RedisEnabled THEN "session" ELSE "rowSession")
            /\ req[r].jti \notin revoked
            /\ UNCHANGED <<revoked, expired>>
        BY <1>14, <2>2 DEF IsTokenRevoked
      <3>2. Keeps(r) /\ req'[r].pc \in {"session", "rowSession"}
        BY <1>1, <3>1, GotoKeeps DEF Steps
      <3> QED BY <1>3, <1>4, <3>1, <3>2 DEF InStep, Keeps
    <2> QED BY <2>1, <2>2
  <1>15. ASSUME NEW r \in Requests, GetSession(r)
         PROVE  Synced'
    <2>1. /\ req[r].pc = "session" /\ req[r].kind \in AuthKinds
          /\ UNCHANGED <<redis, activeSessions, revoked, expired>>
      BY <1>1, <1>15, KindAt DEF GetSession, At, CheckSteps
    <2>2. req[r].jti \notin revoked \cup expired
      BY <1>4, <2>1 DEF InStep
    <2>3. CASE Reject(r)
      BY <1>1, <1>5, <2>3, RejectFrees
    <2>4. CASE redis[req[r].jti] # NoUser /\ Goto(r, "status")
      <3>1. Keeps(r) /\ req'[r].pc = "status"
        BY <1>1, <2>4, GotoKeeps DEF Steps
      <3>2. activeSessions[req[r].user] = req[r].jti
        BY <1>4, <2>1, <2>2, <2>4 DEF Synced, RowDecides
      <3> QED BY <1>3, <2>1, <2>2, <3>1, <3>2 DEF InStep, Keeps
    <2>5. CASE Goto(r, "rowSession")
      <3>1. Keeps(r) /\ req'[r].pc = "rowSession"
        BY <1>1, <2>5, GotoKeeps DEF Steps
      <3> QED BY <1>3, <2>1, <2>2, <3>1 DEF InStep, Keeps
    <2> QED BY <1>15, <2>3, <2>4, <2>5 DEF GetSession
  <1>16. ASSUME NEW r \in Requests, GetSessionRow(r) \/ CheckUserStatus(r)
         PROVE  Synced'
    <2>1. /\ req[r].pc \in {"rowSession", "status"} /\ req[r].kind \in AuthKinds
          /\ UNCHANGED <<redis, activeSessions, revoked, expired>>
      BY <1>1, <1>16, KindAt DEF GetSessionRow, CheckUserStatus, At, CheckSteps
    <2>2. CASE Reject(r)
      BY <1>1, <1>5, <2>2, RejectFrees
    <2>3. CASE ~Reject(r)
      <3>1. \E pc \in {"status", "handler"} : Goto(r, pc)
        BY <1>16, <2>3 DEF GetSessionRow, CheckUserStatus
      <3>2. Keeps(r) /\ req'[r].pc \in {"status", "handler"}
        BY <1>1, <3>1, GotoKeeps DEF Steps
      <3>3. activeSessions[req[r].user] = req[r].jti
        <4>1. CASE GetSessionRow(r)
          BY <2>3, <4>1 DEF GetSessionRow
        <4>2. CASE CheckUserStatus(r)
          BY <1>4, <2>1, <4>2 DEF CheckUserStatus, At, InStep
        <4> QED BY <1>16, <4>1, <4>2
      <3> QED BY <1>3, <1>4, <2>1, <3>2, <3>3 DEF InStep, Keeps
    <2> QED BY <2>2, <2>3
  <1>17. ASSUME NEW r \in Requests, RevokeOwnToken(r)
         PROVE  Synced'
    <2>1. /\ Keeps(r) /\ req[r].kind \in AuthKinds /\ req[r].pc = "handler"
          /\ UNCHANGED <<redis, activeSessions, expired>>
      BY <1>1, <1>17, MovesOn DEF RevokeOwnToken, At, AuthKinds
    <2>2. /\ req'[r].found = req[r].jti
          /\ req'[r].pc = IF RedisEnabled THEN "clearDel" ELSE "clearRow"
      BY <1>1, <1>17 DEF RevokeOwnToken, Request
    <2> QED BY <1>3, <1>4, <1>6, <2>1, <2>2 DEF InStep, Keeps
  <1>18. ASSUME NEW r \in Requests, ClearLookup(r)
         PROVE  Synced'
    <2>1. /\ Keeps(r) /\ req[r].kind \in AdminKinds
          /\ UNCHANGED <<redis, activeSessions>>
      BY <1>1, <1>18, MovesOn, KindAt DEF ClearLookup, At
    <2>2. req' = [req EXCEPT ![r].found = activeSessions[req[r].user],
                             ![r].pc = IF activeSessions[req[r].user] = NoJti
                                       THEN "clearRow" ELSE "clearDel"]
      BY <1>2, <1>18 DEF ClearLookup
    <2>3. /\ req'[r].found = activeSessions[req[r].user]
          /\ req'[r].pc = IF activeSessions[req[r].user] = NoJti THEN "clearRow"
                                                                 ELSE "clearDel"
      BY <1>1, <2>2 DEF Request
    <2> QED BY <1>3, <2>1, <2>3 DEF InStep, Keeps, AuthKinds, AdminKinds
  <1>19. ASSUME NEW r \in Requests, ClearRedis(r)
         PROVE  Synced'
    <2>1. /\ Keeps(r) /\ UNCHANGED <<activeSessions, expired>> /\ req[r].pc = "clearDel"
      BY <1>1, <1>19, MovesOn DEF ClearRedis, At
    <2>2. req'[r].pc = "clearRow" /\ redis' = [redis EXCEPT ![req[r].found] = NoUser]
      BY <1>1, <1>2, <1>19 DEF ClearRedis, Goto, Request
    <2>3. req[r].found = activeSessions[req[r].user]
      BY <1>4, <2>1 DEF InStep
    <2>4. activeSessions[req[r].user] \in Jti \cup {NoJti}
      BY <1>1, <2>1, BusyUser
    <2> QED BY <1>1, <1>3, <1>4, <2>1, <2>2, <2>3, <2>4 DEF InStep, Keeps
  <1>20. ASSUME NEW r \in Requests, ClearRow(r)
         PROVE  Synced'
    <2>1. (Goto(r, "softDelete") /\ req[r].kind = "delete") \/ Reject(r) \/ Respond(r)
      BY <1>20 DEF ClearRow
    <2>2. CASE Goto(r, "softDelete") /\ req[r].kind = "delete"
      <3>1. Keeps(r) /\ req'[r].pc = "softDelete"
        BY <1>1, <2>2, GotoKeeps DEF Steps
      <3> QED BY <1>3, <2>2, <3>1 DEF InStep, Keeps, AuthKinds
    <2> QED BY <1>1, <1>5, <2>1, <2>2, RejectFrees, RespondFrees
  <1>21. ASSUME NEW r \in Requests, SetStatus(r)
         PROVE  Synced'
    <2>1. CASE Goto(r, StartClear)
      <3>1. /\ req[r].kind \in AdminKinds /\ req[r].user \in Users
            /\ UNCHANGED <<redis, activeSessions>>
        BY <1>1, <1>21, KindAt, BusyUser DEF SetStatus, At
      <3>2. /\ StartClear \in Steps
            /\ StartClear = "clearLookup" \/ (StartClear = "clearRow" /\ ~RedisEnabled)
        BY DEF StartClear, Steps
      <3>3. Keeps(r) /\ req'[r].pc = StartClear
        BY <1>1, <2>1, <3>2, GotoKeeps
      <3>4. req[r].kind \notin AuthKinds
        BY <3>1 DEF AuthKinds, AdminKinds
      <3> QED BY <1>1, <1>3, <1>6, <3>1, <3>2, <3>3, <3>4 DEF InStep, Keeps
    <2>2. CASE ~Goto(r, StartClear)
      BY <1>1, <1>5, <1>21, <2>2, RespondFrees DEF SetStatus
    <2> QED BY <2>1, <2>2
  <1>22. ASSUME NEW r \in Requests,
                SetNewSession(r) \/ UseHandler(r) \/ SoftDelete(r) \/ Abort(r)
         PROVE  Synced'
    BY <1>1, <1>5, <1>22, RespondFrees, RejectFrees DEF SetNewSession, UseHandler,
                                                       SoftDelete, Abort
  <1>23. ASSUME \/ \E k \in Jti : Expire(k) \/ RedisTTL(k)
                \/ CleanupExpiredTokens \/ RedisSave \/ UNCHANGED vars
         PROVE  Synced'
    <2>1. /\ UNCHANGED <<req, activeSessions>> /\ revoked' \subseteq revoked
          /\ \A j \in Jti : redis'[j] \in {redis[j], NoUser}
      BY <1>1, <1>23 DEF Expire, RedisTTL, CleanupExpiredTokens, RedisSave, vars
    <2>2. ASSUME NEW r \in Requests
          PROVE  InStep(r)'
      <3>1. req[r].jti \notin expired => req[r].jti \notin expired'
        BY <1>2, ExpiryInTime
      <3>2. req[r].pc # "idle" => activeSessions[req[r].user] \in Jti \cup {NoJti}
        BY <1>1, BusyUser
      <3> QED BY <1>4, <2>1, <3>1, <3>2 DEF InStep
    <2> QED BY <2>2, RowDecidesStep DEF Synced
  <1>24. ~RedisRestart
    BY DEF RedisRestart, Fails, OneAtATime
  <1> QED
    BY <1>7, <1>8, <1>9, <1>10, <1>11, <1>12, <1>13, <1>14, <1>15, <1>16, <1>17, <1>18,
       <1>19, <1>20, <1>21, <1>22, <1>23, <1>24, NextCases

(* Redis and the row agree at every step of a single request.              *)
LEMMA SyncedInvariance ==
  ASSUME OneAtATime
  PROVE  Spec => [](INew /\ Synced /\ ByRow)
  <1>1. "slow" \notin Faults
    BY DEF OneAtATime
  <1>2. INew /\ Synced /\ [Next]_vars => Synced'
    BY SyncedStep
  <1>3. INew /\ Synced => ByRow
    BY DEF INew, IInv, Synced, ByRow
  <1> QED BY <1>1, <1>2, <1>3, SyncedInit, NewInvariance, PTL DEF Spec

(* One request at a time, and as long as what fails leaves no key behind,  *)
(* the row, the key in Redis and the revocations together implement one    *)
(* session per user: every request opens or closes a session in one of its *)
(* steps, and no other step shows.                                         *)
THEOREM RefinementOneAtATime ==
  ASSUME OneAtATime
  PROVE  Spec => ImplementsSingleSession
  <1>1. INew /\ ByRow /\ ByRow' /\ [Next]_vars => [Abstract!SpecNext]_(Abstract!specVars)
    BY StepSimulation DEF Simulated
  <1> QED
    BY <1>1, OpensNothing, SyncedInvariance, PTL
       DEF Spec, ImplementsSingleSession, Abstract!SingleSessionSpec

(* Of all the tokens of a user at most one is admitted: without Redis for  *)
(* any number of requests at a time, with Redis for one.                   *)
THEOREM AtMostOneTheorem ==
  ASSUME OneAtATime \/ ~RedisEnabled
  PROVE  Spec => []AtMostOneSession
  <1>1. ByRow => AtMostOneSession
    <2> SUFFICES ASSUME ByRow, NEW u \in Users
                 PROVE  Cardinality({j \in TokensOf(u) : Admissible(j)}) <= 1
      BY DEF AtMostOneSession
    <2> DEFINE Admitted == {j \in TokensOf(u) : Admissible(j)}
    <2>1. Admitted \subseteq {activeSessions[u]}
      BY LiveByRow DEF TokensOf, Admissible, RowLive, ByRow, TypeOK
    <2>2. IsFiniteSet({activeSessions[u]}) /\ Cardinality({activeSessions[u]}) = 1
      BY FS_Singleton
    <2>3. Cardinality(Admitted) <= Cardinality({activeSessions[u]})
      BY <2>1, <2>2, FS_Subset
    <2> QED BY <2>2, <2>3
  <1>2. CASE OneAtATime
    BY <1>1, <1>2, SyncedInvariance, PTL
  <1>3. CASE ~RedisEnabled
    <2>1. IInv => ByRow
      BY <1>3, NothingInRedis DEF IInv
    <2> QED BY <1>1, <2>1, Invariance, PTL
  <1> QED BY <1>2, <1>3

(* One request at a time ends what it was answered to have ended for good, *)
(* also when the revocation of the old token fails.                        *)
THEOREM EndedOneAtATime ==
  ASSUME OneAtATime, "clearRow" \notin Faults
  PROVE  Spec => []EndedNeverLive
  <1>1. IInv /\ Ended /\ [Next]_vars => Ended'
    BY EndedStep
  <1>2. IInv /\ ByRow /\ Ended => EndedNeverLive
    BY EndedByRow
  <1> QED
    BY <1>1, <1>2, EndedInit, Invariance, SyncedInvariance, PTL DEF Spec

-----------------------------------------------------------------------------
(* No session is lost.                                                     *)

ClearSteps == {"clearLookup", "clearDel", "clearRow"}

(* What a request may take away it has set out to end.                     *)
KeepsOff(r) ==
    /\ req[r].pc \in ClearSteps => req[r].kind \in Ending
    /\ req[r].kind = "login" => req[r].jti \notin revoked
    /\ req[r].kind = "logout" => req[r].jti \in claimed
    /\ req[r].kind \in Ending \ {"logout"} => TokensOf(req[r].user) \subseteq claimed

InPlace(j) == j \notin revoked /\ activeSessions[owner[j]] = j

Kept ==
    /\ \A j \in delivered \ (claimed \cup expired) : InPlace(j)
    /\ \A r \in Requests : KeepsOff(r)

(* At the start there is nothing to keep.                                  *)
LEMMA KeptInit == Init => Kept
  BY DEF Init, Kept, KeepsOff, Idle, ClearSteps, Ending

(* No step of the one request takes away what it has not set out to end.   *)
LEMMA KeptStep ==
  ASSUME INew, Synced, Kept, [Next]_vars, OneAtATime
  PROVE  Kept'
  <1> USE SessionsAssumption DEF dbVars, tokVars
  <1>1. /\ TypeOK /\ Shape /\ Tokens /\ Stores
        /\ activeSessions \in [Users -> Jti \cup {NoJti}]
        /\ owner \in [Jti -> Users \cup {NoUser}]
        /\ req \in [Requests -> Request]
    BY DEF INew, IInv, TypeOK
  <1>2. \A r, s \in Requests : r = s
    BY DEF OneAtATime
  <1>3. ASSUME NEW j \in delivered
        PROVE  /\ j \in Jti /\ j # NoJti /\ owner[j] \in Users
               /\ owner'[j] = owner[j]
    <2>1. j \in Jti /\ owner[j] # NoUser
      BY <1>1 DEF TypeOK, Tokens
    <2> QED BY <1>1, <2>1, OwnerStays DEF Jti, NoJti
  <1>4. ASSUME NEW r \in Requests
        PROVE  KeepsOff(r) /\ InStep(r)
    BY DEF Kept, Synced
  <1>5. expired \subseteq expired'
    BY ExpiredStays
  <1>6. ASSUME delivered' = delivered, claimed \subseteq claimed',
               \A j \in delivered \ claimed : InPlace(j) => InPlace(j)'
        PROVE  \A j \in delivered' \ (claimed' \cup expired') : InPlace(j)'
    BY <1>5, <1>6 DEF Kept
  <1>7. ASSUME NEW r \in Requests, Frees(r)
        PROVE  \A s \in Requests : KeepsOff(s)'
    <2>1. KeepsOff(r)'
      BY <1>7 DEF Frees, Idle, KeepsOff, ClearSteps, Ending
    <2> QED BY <1>2, <2>1
  <1>8. ASSUME NEW r \in Requests, Keeps(r), UNCHANGED <<delivered, owner, claimed>>,
               req'[r].pc \in ClearSteps => req[r].kind \in Ending,
               req[r].kind = "login" => req[r].jti \notin revoked'
        PROVE  \A s \in Requests : KeepsOff(s)'
    <2>1. KeepsOff(r)'
      BY <1>4, <1>8 DEF Keeps, KeepsOff, TokensOf
    <2> QED BY <1>2, <2>1
  <1>9. ASSUME NEW r \in Requests, NEW kind, NEW pc, NEW u, NEW j, NEW ends,
               Arrive(r, kind, pc, u, j, ends), UNCHANGED <<delivered, dbVars>>,
               pc \in ClearSteps => kind \in Ending,
               kind = "login" => j \notin revoked,
               kind = "logout" => j \in ends,
               kind \in Ending \ {"logout"} => TokensOf(u) \subseteq ends
        PROVE  Kept'
    <2>1. /\ req'[r].kind = kind /\ req'[r].pc = pc /\ req'[r].user = u
          /\ req'[r].jti = j
      BY <1>1, <1>9, ArriveTakes
    <2>2. claimed' = claimed \cup ends
      BY <1>9 DEF Arrive
    <2>3. kind \in Ending \ {"logout"} => TokensOf(u)' \subseteq claimed'
      BY <1>3, <1>9, <2>2 DEF TokensOf
    <2>4. KeepsOff(r)'
      BY <1>9, <2>1, <2>2, <2>3 DEF KeepsOff, TokensOf
    <2>5. \A k \in delivered \ claimed : InPlace(k) => InPlace(k)'
      BY <1>3, <1>9 DEF InPlace
    <2> QED BY <1>2, <1>6, <1>9, <2>2, <2>4, <2>5 DEF Kept
  <1>10. ASSUME NEW r \in Requests, NEW u \in Users, NEW j \in Jti, LoginHandler(r, u, j)
         PROVE  Kept'
    <2>1. j \notin revoked
      BY <1>10 DEF LoginHandler, Fresh, INew, New, Unseen
    <2> QED BY <1>9, <1>10, <2>1 DEF LoginHandler, ClearSteps
  <1>11. ASSUME NEW r \in Requests, NEW kind \in AuthKinds, NEW j \in Jti,
                ParseToken(r, kind, j)
         PROVE  Kept'
    <2> DEFINE ends == CASE kind = "logout"    -> {j}
                         [] kind = "logoutAll" -> TokensOf(owner[j])
                         [] OTHER              -> {}
    <2>1. /\ Arrive(r, kind, "revoked", owner[j], j, ends)
          /\ UNCHANGED <<delivered, dbVars>>
      BY <1>11 DEF ParseToken
    <2>2. /\ kind = "logout" => j \in ends
          /\ kind \in Ending \ {"logout"} => TokensOf(owner[j]) \subseteq ends
          /\ kind # "login"
      BY DEF AuthKinds, Ending
    <2> HIDE DEF ends
    <2> QED BY <1>9, <2>1, <2>2 DEF ClearSteps
  <1>12. ASSUME NEW r \in Requests, NEW kind \in AdminKinds, NEW u \in Users,
                AdminRequest(r, kind, u)
         PROVE  Kept'
    <2> DEFINE ends == IF kind \in Ending THEN TokensOf(u) ELSE {}
               pc   == IF kind = "delete" THEN StartClear ELSE "update"
    <2>1. Arrive(r, kind, pc, u, NoJti, ends) /\ UNCHANGED <<delivered, dbVars>>
      BY <1>12 DEF AdminRequest
    <2>2. /\ pc \in ClearSteps => kind \in Ending
          /\ kind # "login" /\ kind # "logout"
          /\ kind \in Ending \ {"logout"} => TokensOf(u) \subseteq ends
      BY DEF AdminKinds, Ending, ClearSteps
    <2> HIDE DEF ends, pc
    <2> QED BY <1>9, <2>1, <2>2
  <1>13. ASSUME NEW r \in Requests, NEW pc \in Steps, Goto(r, pc), UNCHANGED histVars,
                UNCHANGED <<activeSessions, revoked, owner, delivered>>,
                pc \in ClearSteps => req[r].kind \in Ending
         PROVE  Kept'
    <2>1. Keeps(r) /\ req'[r].pc = pc
      BY <1>1, <1>13, GotoKeeps
    <2>2. \A s \in Requests : KeepsOff(s)'
      BY <1>4, <1>8, <1>13, <2>1 DEF KeepsOff, histVars
    <2> QED BY <1>6, <1>13, <2>2 DEF Kept, InPlace, histVars
  <1>14. ASSUME NEW r \in Requests, Reject(r) \/ Respond(r),
                UNCHANGED <<revoked, owner, delivered>>,
                \A j \in delivered \ claimed : InPlace(j) => activeSessions'[owner[j]] = j
         PROVE  Kept'
    <2>1. Frees(r) /\ claimed' = claimed
      BY <1>1, <1>14, RejectFrees, RespondFrees DEF Reject, Respond, histVars
    <2> QED BY <1>6, <1>7, <1>14, <2>1 DEF Kept, InPlace
  <1>15. ASSUME NEW r \in Requests, GetOldSession(r) \/ ClearLookup(r)
         PROVE  Kept'
    <2>1. /\ Keeps(r)
          /\ UNCHANGED <<activeSessions, revoked, owner, delivered, claimed>>
      BY <1>1, <1>15, MovesOn DEF GetOldSession, ClearLookup, histVars
    <2>2. req'[r].pc \in ClearSteps => req[r].kind \in Ending
      <3>1. CASE GetOldSession(r)
        BY <1>1, <3>1, KindAt DEF GetOldSession, At, LoginSteps, Ending
      <3>2. CASE ClearLookup(r)
        BY <1>4, <3>2 DEF ClearLookup, At, KeepsOff, ClearSteps
      <3> QED BY <1>15, <3>1, <3>2
    <2>3. \A s \in Requests : KeepsOff(s)'
      BY <1>4, <1>8, <2>1, <2>2 DEF KeepsOff
    <2> QED BY <1>6, <2>1, <2>3 DEF Kept, InPlace
  <1>16. ASSUME NEW r \in Requests, NEW j, revoked' \subseteq revoked \cup {j},
                j \in delivered => j \in claimed,
                req[r].kind = "login" => req[r].jti # j,
                Keeps(r), UNCHANGED <<activeSessions, owner, delivered, claimed>>,
                req'[r].pc \in ClearSteps => req[r].kind \in Ending
         PROVE  Kept'
    <2>1. \A s \in Requests : KeepsOff(s)'
      BY <1>4, <1>8, <1>16 DEF KeepsOff
    <2> QED BY <1>6, <1>16, <2>1 DEF Kept, InPlace
  <1>17. ASSUME NEW r \in Requests, RevokeOldToken(r)
         PROVE  Kept'
    <2>1. /\ req[r].kind = "login" /\ req[r].pc = "revokeOld" /\ Keeps(r)
          /\ req[r].user \in Users
          /\ UNCHANGED <<activeSessions, owner, delivered, claimed>>
      BY <1>1, <1>17, MovesOn, KindAt, BusyUser
         DEF RevokeOldToken, At, LoginSteps, histVars
    <2>2. /\ revoked' \subseteq revoked \cup {req[r].found}
          /\ req'[r].pc \notin ClearSteps
      <3>1. Goto(r, "delOld") \/ Goto(r, "upsert")
        BY <1>17 DEF RevokeOldToken
      <3> QED BY <1>1, <1>17, <3>1, GotoKeeps DEF RevokeOldToken, Steps, ClearSteps
    <2>3. req[r].found = activeSessions[req[r].user] /\ req[r].found # NoJti
      BY <1>1, <1>4, <2>1 DEF InStep, Shape
    <2>4. owner[req[r].found] = req[r].user
      BY <1>1, <2>1, <2>3 DEF Stores
    <2>5. req[r].found \in delivered => req[r].found \in claimed
      BY <1>4, <2>1, <2>4 DEF KeepsOff, Ending, TokensOf
    <2>6. req[r].jti # req[r].found
      BY <2>1 DEF INew, New, IsIssuing, IssueSteps, Unseen
    <2> QED BY <1>16, <2>1, <2>2, <2>5, <2>6
  <1>18. ASSUME NEW r \in Requests, RevokeOwnToken(r)
         PROVE  Kept'
    <2>1. /\ req[r].kind \in {"logout", "logoutAll"} /\ Keeps(r)
          /\ revoked' \subseteq revoked \cup {req[r].jti}
          /\ UNCHANGED <<activeSessions, owner, delivered, claimed>>
      BY <1>1, <1>18, MovesOn DEF RevokeOwnToken, histVars
    <2>2. req[r].jti \in claimed
      BY <1>1, <1>4, <2>1 DEF KeepsOff, Ending, TokensOf, Tokens, AuthKinds
    <2> QED BY <1>16, <2>1, <2>2 DEF Ending
  <1>19. ASSUME NEW r \in Requests, UpsertSession(r)
         PROVE  Kept'
    <2>1. /\ req[r].kind = "login" /\ Keeps(r) /\ req'[r].pc = "setNew"
          /\ UNCHANGED <<revoked, owner, delivered, claimed>>
          /\ \A u \in Users : u # req[r].user => activeSessions'[u] = activeSessions[u]
      <3>1. req[r].kind = "login" /\ Keeps(r)
        BY <1>1, <1>19, MovesOn, KindAt DEF UpsertSession, At, LoginSteps
      <3> QED BY <1>1, <1>19, <3>1, GotoKeeps DEF UpsertSession, Steps, histVars
    <2>2. \A j \in delivered \ claimed : owner[j] # req[r].user
      BY <1>4, <2>1 DEF KeepsOff, Ending, TokensOf
    <2>3. \A j \in delivered \ claimed : InPlace(j) => InPlace(j)'
      BY <1>3, <2>1, <2>2 DEF InPlace
    <2>4. \A s \in Requests : KeepsOff(s)'
      BY <1>4, <1>8, <2>1 DEF KeepsOff, ClearSteps
    <2> QED BY <1>6, <2>1, <2>3, <2>4 DEF Kept
  <1>20. ASSUME NEW r \in Requests, SetNewSession(r)
         PROVE  Kept'
    <2>1. req[r].kind = "login" /\ req[r].pc = "setNew"
      BY <1>1, <1>20, KindAt DEF SetNewSession, At, LoginSteps
    <2>2. /\ Frees(r) /\ delivered' = delivered \cup {req[r].jti}
          /\ UNCHANGED <<revoked, activeSessions, owner, claimed>>
      BY <1>1, <1>20, RespondFrees DEF SetNewSession, Respond
    <2>3. InPlace(req[r].jti)
      BY <1>1, <1>4, <2>1 DEF InPlace, KeepsOff, InStep, Tokens
    <2>4. \A j \in delivered' \ (claimed' \cup expired') : InPlace(j)
      BY <1>5, <2>2, <2>3 DEF Kept
    <2> QED BY <1>7, <2>2, <2>4 DEF Kept, InPlace
  <1>21. ASSUME NEW r \in Requests, ClearRow(r)
         PROVE  Kept'
    <2>1. /\ req[r].pc = "clearRow" /\ req[r].user \in Users /\ req[r].kind \in Ending
          /\ UNCHANGED <<revoked, owner, delivered>>
      BY <1>1, <1>4, <1>21, BusyUser DEF ClearRow, At, KeepsOff, ClearSteps
    <2>2. ASSUME NEW j \in delivered \ claimed, InPlace(j)
          PROVE  activeSessions'[owner[j]] = j
      <3>1. CASE owner[j] = req[r].user
        <4>1. req[r].kind = "logout"
          BY <1>4, <2>1, <2>2, <3>1 DEF KeepsOff, TokensOf
        <4>2. req[r].jti = j
          BY <1>4, <2>1, <2>2, <3>1, <4>1 DEF InStep, InPlace, AuthKinds
        <4> QED BY <1>4, <2>2, <4>1, <4>2 DEF KeepsOff
      <3>2. CASE owner[j] # req[r].user
        BY <1>1, <1>3, <1>21, <2>2, <3>2 DEF ClearRow, InPlace
      <3> QED BY <3>1, <3>2
    <2>3. CASE Reject(r) \/ Respond(r)
      BY <1>14, <2>1, <2>2, <2>3
    <2>4. CASE Goto(r, "softDelete") /\ UNCHANGED histVars
      <3>1. Keeps(r) /\ req'[r].pc = "softDelete" /\ claimed' = claimed
        BY <1>1, <2>4, GotoKeeps DEF Steps, histVars
      <3>2. \A s \in Requests : KeepsOff(s)'
        BY <1>4, <1>8, <2>1, <3>1 DEF KeepsOff, ClearSteps
      <3> QED BY <1>6, <2>1, <2>2, <3>1, <3>2 DEF Kept, InPlace
    <2> QED BY <1>21, <2>3, <2>4 DEF ClearRow
  <1>22. ASSUME NEW r \in Requests, SetStatus(r)
         PROVE  Kept'
    <2>1. UNCHANGED <<activeSessions, revoked, owner, delivered>>
      BY <1>22 DEF SetStatus
    <2>2. CASE req[r].kind \in Ending
      <3>1. Goto(r, StartClear) /\ UNCHANGED histVars
        BY <1>22, <2>2 DEF SetStatus
      <3>2. StartClear \in Steps
        BY DEF StartClear, Steps
      <3> QED BY <1>13, <2>1, <2>2, <3>1, <3>2
    <2>3. CASE req[r].kind \notin Ending
      BY <1>14, <1>22, <2>1, <2>3 DEF SetStatus, InPlace
    <2> QED BY <2>2, <2>3
  <1>23. ASSUME NEW r \in Requests, DeleteOldSession(r)
         PROVE  Kept'
    BY <1>13, <1>23 DEF DeleteOldSession, Steps, ClearSteps
  <1>24. ASSUME NEW r \in Requests, ClearRedis(r)
         PROVE  Kept'
    <2>1. req[r].kind \in Ending
      BY <1>4, <1>24 DEF ClearRedis, At, KeepsOff, ClearSteps
    <2> QED BY <1>13, <1>24, <2>1 DEF ClearRedis, Steps
  <1>25. ASSUME NEW r \in Requests,
                \/ IsTokenRevoked(r) \/ GetSession(r) \/ GetSessionRow(r)
                \/ CheckUserStatus(r)
         PROVE  Kept'
    <2>1. UNCHANGED <<activeSessions, revoked, owner, delivered>>
      BY <1>25 DEF IsTokenRevoked, GetSession, GetSessionRow, CheckUserStatus
    <2>2. CASE Reject(r)
      BY <1>14, <2>1, <2>2 DEF InPlace
    <2>3. CASE ~Reject(r)
      <3>1. PICK pc \in {"session", "rowSession", "status", "handler"} :
              Goto(r, pc) /\ UNCHANGED histVars
        BY <1>25, <2>3 DEF IsTokenRevoked, GetSession, GetSessionRow, CheckUserStatus
      <3> QED BY <1>13, <2>1, <3>1 DEF Steps, ClearSteps
    <2> QED BY <2>2, <2>3
  <1>26. ASSUME NEW r \in Requests, UseHandler(r) \/ SoftDelete(r) \/ Abort(r)
         PROVE  Kept'
    <2>1. /\ Reject(r) \/ Respond(r)
          /\ UNCHANGED <<activeSessions, revoked, owner, delivered>>
      BY <1>26 DEF UseHandler, SoftDelete, Abort
    <2> QED BY <1>14, <2>1 DEF InPlace
  <1>27. CASE \/ \E k \in Jti : Expire(k) \/ RedisTTL(k)
              \/ CleanupExpiredTokens \/ RedisSave \/ RedisRestart
              \/ UNCHANGED vars
    <2>1. /\ UNCHANGED <<req, histVars, owner, delivered, activeSessions>>
          /\ revoked' \subseteq revoked
      <3>1. revoked' \subseteq revoked
        BY <1>27 DEF Expire, RedisTTL, CleanupExpiredTokens, RedisSave, RedisRestart, vars
      <3> QED BY <1>27, <3>1, EnvironmentKeeps
    <2>2. ASSUME NEW r \in Requests
          PROVE  KeepsOff(r)'
      BY <1>4, <2>1 DEF KeepsOff, TokensOf, histVars
    <2> QED BY <1>6, <2>1, <2>2 DEF Kept, InPlace, histVars
  <1> QED
    BY <1>10, <1>11, <1>12, <1>15, <1>17, <1>18, <1>19, <1>20, <1>21, <1>22, <1>23,
       <1>24, <1>25, <1>26, <1>27, NextCases

(* One request at a time, a token that reached its client is admitted      *)
(* until it expires or a request sets out to end it, whether or not Redis  *)
(* answers and whichever requests end early.                               *)
THEOREM KeptOneAtATime ==
  ASSUME OneAtATime
  PROVE  Spec => []SessionKept
  <1>1. INew /\ Synced /\ Kept /\ [Next]_vars => Kept'
    BY KeptStep
  <1>2. INew /\ ByRow /\ Kept => SessionKept
    <2> SUFFICES ASSUME INew, ByRow, Kept, NEW j \in delivered \ (claimed \cup expired)
                 PROVE  SessionLive(j)
      BY DEF SessionKept
    <2>1. j \in Jti /\ owner[j] \in Users
      BY DEF INew, IInv, TypeOK, Tokens
    <2>2. RowLive(j)
      BY <2>1 DEF Kept, InPlace, RowLive
    <2> QED BY <2>1, <2>2, LiveByRow
  <1> QED BY <1>1, <1>2, KeptInit, SyncedInvariance, PTL DEF Spec

=============================================================================
