--------------------------- MODULE AccountsProofs ---------------------------
(***************************************************************************)
(* What holds of Accounts for any number of requests, links and failures.  *)
(***************************************************************************)
EXTENDS Accounts, FiniteSetTheorems, TLAPS

(* A handler that writes a password or marks a token holds a token.        *)
HoldsCredential ==
    \A r \in Requests : req[r].pc \in {"write", "markUsed"} =>
                           req[r].cred \in Credentials

IType == TypeOK /\ HoldsCredential

LEMMA InitType == Init => IType
  <1> SUFFICES ASSUME Init
               PROVE  IType
    OBVIOUS
  <1>1. Idle \in Request
          /\ Idle.pc = "idle"
    BY DEF Idle, Steps, Request
  <1>2. req \in [Requests -> Request]
    BY <1>1 DEF Init
  <1>3. HoldsCredential
    BY <1>1 DEF Init, HoldsCredential
  <1>4. uses \in [Credentials -> Nat] /\ cred \in [Credentials -> {"dead", "lost", "sent"}]
    BY DEF Init
  <1>5. failures \in 0 .. MaxFailures /\ roles \subseteq {"end_user", "internal"}
    BY AccountsAssumption DEF Init
  <1> QED BY <1>2, <1>3, <1>4, <1>5 DEF Init, IType, TypeOK

(* A request is handed on, or answered.                                    *)
LEMMA GotoType ==
  ASSUME IType, NEW r \in Requests, NEW pc \in Steps, Goto(r, pc),
         pc \notin {"write", "markUsed"}
  PROVE  /\ req' \in [Requests -> Request]
         /\ HoldsCredential'
  BY DEF Goto, IType, TypeOK, Request, HoldsCredential

LEMMA RespondType ==
  ASSUME IType, NEW r \in Requests, Respond(r)
  PROVE  /\ req' \in [Requests -> Request]
         /\ HoldsCredential'
  BY DEF Respond, Idle, Steps, IType, TypeOK, Request, HoldsCredential

(* The hashes read before are outdated.                                    *)
LEMMA ReadersType ==
  ASSUME IType
  PROVE  /\ ReadersOutdated \in [Requests -> Request]
         /\ \A r \in Requests : /\ ReadersOutdated[r].pc = req[r].pc
                                /\ ReadersOutdated[r].cred = req[r].cred
  <1>1. ASSUME NEW r \in Requests
        PROVE  /\ ReadersOutdated[r] \in Request
               /\ ReadersOutdated[r].pc = req[r].pc
               /\ ReadersOutdated[r].cred = req[r].cred
    <2>1. req[r] \in Request /\ ReadersOutdated[r] = [req[r] EXCEPT !.newest = FALSE]
      BY DEF IType, TypeOK, ReadersOutdated
    <2> QED BY <2>1 DEF Request
  <1> QED BY <1>1 DEF ReadersOutdated

LEMMA AskType ==
  ASSUME IType, NEW r \in Requests, Ask(r)
  PROVE  IType'
  <1> USE DEF IType, TypeOK, Request, rowVars, credVars, Arrive
  <1>1. CASE Register(r)
    BY <1>1, GotoType DEF Register, Steps
  <1>2. CASE VerifyOTP(r)
    BY <1>2, GotoType DEF VerifyOTP, Steps
  <1>3. CASE AdminRegister(r)
    BY <1>3, GotoType DEF AdminRegister, Steps
  <1>4. CASE InviteUser(r)
    BY <1>4, GotoType DEF InviteUser, Steps
  <1>5. CASE ForgotPassword(r)
    BY <1>5, GotoType DEF ForgotPassword, Steps
  <1>6. ASSUME NEW c \in Credentials, UseCredential(r, c)
        PROVE  IType'
    BY <1>6 DEF UseCredential, Steps, HoldsCredential
  <1>7. CASE ChangePassword(r)
    BY <1>7, GotoType DEF ChangePassword, Steps
  <1>8. CASE Login(r)
    BY <1>8 DEF Login, Idle, Steps, HoldsCredential
  <1>9. CASE AdminRequest(r)
    BY <1>9, GotoType DEF AdminRequest, Steps
  <1> QED
    BY <1>1, <1>2, <1>3, <1>4, <1>5, <1>6, <1>7, <1>8, <1>9 DEF Ask

LEMMA HandleType ==
  ASSUME IType, NEW r \in Requests, Handle(r)
  PROVE  IType'
  <1> USE DEF IType, TypeOK, Request, rowVars, credVars
  <1>1. CASE InsertUser(r)
    <2>1. Goto(r, "addRole") \/ Respond(r)
      BY <1>1 DEF InsertUser
    <2>2. req' \in [Requests -> Request] /\ HoldsCredential'
      BY <2>1, GotoType, RespondType DEF Steps
    <2> QED BY <1>1, <2>2 DEF InsertUser
  <1>2. CASE AddRole(r)
    BY <1>2, GotoType DEF AddRole, Steps
  <1>3. CASE IssueCode(r)
    BY <1>3, RespondType DEF IssueCode
  <1>4. CASE ActivateVerified(r)
    BY <1>4, RespondType DEF ActivateVerified
  <1>5. CASE InsertAdmin(r)
    <2>1. Goto(r, "grantAdmin") \/ Respond(r)
      BY <1>5 DEF InsertAdmin
    <2>2. req' \in [Requests -> Request] /\ HoldsCredential'
      BY <2>1, GotoType, RespondType DEF Steps
    <2> QED BY <1>5, <2>2 DEF InsertAdmin
  <1>6. CASE GrantAdmin(r)
    BY <1>6, RespondType DEF GrantAdmin
  <1>7. CASE InviteRole(r)
    BY <1>7, GotoType, RespondType DEF InviteRole, Steps
  <1>8. CASE InviteToken(r)
    BY <1>8, RespondType DEF InviteToken
  <1>9. CASE CheckLink(r)
    BY <1>9, GotoType, RespondType DEF CheckLink, Steps
  <1>10. CASE InsertLink(r)
    BY <1>10, RespondType DEF InsertLink, Credentials
  <1>11. CASE WritePassword(r)
    <2>1. /\ req' = [ReadersOutdated EXCEPT ![r].pc = "markUsed"]
          /\ req[r].cred \in Credentials
      BY <1>11 DEF WritePassword, At, HoldsCredential
    <2>2. /\ req' \in [Requests -> Request]
          /\ HoldsCredential'
      BY <2>1, ReadersType DEF Steps, HoldsCredential
    <2>3. uses' \in [Credentials -> Nat]
      BY <1>11, <2>1 DEF WritePassword
    <2>4. /\ row' \in {"absent", "inactive", "active"} /\ barred' \in BOOLEAN
          /\ session' \in {"none", "current", "outdated", "kept"}
      BY <1>11 DEF WritePassword, Keep
    <2> QED BY <1>11, <2>2, <2>3, <2>4 DEF WritePassword
  <1>12. CASE MarkUsed(r)
    <2>1. Goto(r, "clearSession") \/ Respond(r)
      BY <1>12 DEF MarkUsed
    <2>2. req' \in [Requests -> Request] /\ HoldsCredential'
      BY <2>1, GotoType, RespondType DEF Steps
    <2> QED BY <1>12, <2>2 DEF MarkUsed
  <1>13. CASE UpdatePassword(r)
    <2>1. req' = [ReadersOutdated EXCEPT ![r] = Idle]
      BY <1>13 DEF UpdatePassword
    <2>2. /\ req' \in [Requests -> Request]
          /\ HoldsCredential'
      BY <2>1, ReadersType DEF Idle, Steps, HoldsCredential
    <2> QED BY <1>13, <2>2 DEF UpdatePassword, Keep
  <1>14. CASE OpenSession(r)
    BY <1>14, RespondType DEF OpenSession
  <1>15. CASE Deactivate(r)
    BY <1>15, GotoType DEF Deactivate, Steps
  <1>16. CASE Activate(r)
    BY <1>16, RespondType DEF Activate
  <1>17. CASE ClearSession(r)
    BY <1>17, GotoType, RespondType DEF ClearSession, Cleared, Steps
  <1>18. CASE SoftDelete(r)
    BY <1>18, RespondType DEF SoftDelete
  <1> QED
    BY <1>1, <1>2, <1>3, <1>4, <1>5, <1>6, <1>7, <1>8, <1>9, <1>10, <1>11,
       <1>12, <1>13, <1>14, <1>15, <1>16, <1>17, <1>18 DEF Handle

LEMMA TypeStep == IType /\ [Next]_vars => IType'
  <1> SUFFICES ASSUME IType, [Next]_vars
               PROVE  IType'
    OBVIOUS
  <1> USE DEF IType, TypeOK, Request, rowVars, credVars
  <1>1. ASSUME NEW r \in Requests, ClearFails(r)
        PROVE  IType'
    BY <1>1, AccountsAssumption, GotoType, RespondType
    DEF ClearFails, Fail, Cleared, Spared, Steps
  <1>2. ASSUME NEW r \in Requests, Abort(r)
        PROVE  IType'
    BY <1>2, AccountsAssumption, RespondType DEF Abort, Fail, Spared
  <1>3. ASSUME NEW c \in Credentials, Expire(c)
        PROVE  IType'
    BY <1>3 DEF Expire, HoldsCredential
  <1>4. CASE ExpireCode \/ EndSession \/ UNCHANGED vars
    BY <1>4 DEF ExpireCode, EndSession, vars, HoldsCredential
  <1> QED BY <1>1, <1>2, <1>3, <1>4, AskType, HandleType DEF Next

LEMMA TypeInvariant == Spec => []IType
  BY InitType, TypeStep, PTL DEF Spec

(* Types for any number of requests, links and failures.                   *)
THEOREM TypeCorrect == Spec => []TypeOK
  <1>1. IType => TypeOK
    BY DEF IType
  <1> QED BY <1>1, TypeInvariant, PTL
-----------------------------------------------------------------------------
(* What a step of one request is to the others: at most the hash they have *)
(* read is outdated by it.                                                 *)
SameRequest(q) == req'[q].pc = req[q].pc /\ req'[q].cred = req[q].cred

OthersSame(r) == \A q \in Requests \ {r} : SameRequest(q)

LEMMA OneMoves ==
  ASSUME IType, NEW r \in Requests, NEW pc, Goto(r, pc) \/ Respond(r)
  PROVE  OthersSame(r)
  BY DEF IType, TypeOK, Goto, Respond, OthersSame, SameRequest

LEMMA OthersAfterAsk ==
  ASSUME IType, NEW r \in Requests, Ask(r)
  PROVE  OthersSame(r)
  <1>1. CASE \E c \in Credentials : UseCredential(r, c)
    BY <1>1 DEF UseCredential, OthersSame, SameRequest, IType, TypeOK
  <1>2. CASE Login(r)
    BY <1>2 DEF Login, OthersSame, SameRequest, IType, TypeOK
  <1>3. CASE Register(r) \/ VerifyOTP(r) \/ AdminRegister(r) \/ InviteUser(r)
               \/ ForgotPassword(r) \/ ChangePassword(r) \/ AdminRequest(r)
    BY <1>3, OneMoves
    DEF Register, VerifyOTP, AdminRegister, InviteUser, ForgotPassword,
        ChangePassword, AdminRequest, Arrive
  <1> QED BY <1>1, <1>2, <1>3 DEF Ask

LEMMA OthersAfterHandle ==
  ASSUME IType, NEW r \in Requests, Handle(r)
  PROVE  OthersSame(r)
  <1>1. CASE WritePassword(r)
    BY <1>1, ReadersType DEF WritePassword, OthersSame, SameRequest
  <1>2. CASE UpdatePassword(r)
    BY <1>2, ReadersType DEF UpdatePassword, OthersSame, SameRequest
  <1>3. CASE InsertUser(r) \/ AddRole(r) \/ IssueCode(r) \/ ActivateVerified(r)
    BY <1>3, OneMoves DEF InsertUser, AddRole, IssueCode, ActivateVerified
  <1>4. CASE InsertAdmin(r) \/ GrantAdmin(r) \/ InviteRole(r) \/ InviteToken(r)
    BY <1>4, OneMoves DEF InsertAdmin, GrantAdmin, InviteRole, InviteToken
  <1>5. CASE CheckLink(r) \/ InsertLink(r) \/ MarkUsed(r) \/ OpenSession(r)
    BY <1>5, OneMoves DEF CheckLink, InsertLink, MarkUsed, OpenSession
  <1>6. CASE Deactivate(r) \/ Activate(r) \/ ClearSession(r) \/ SoftDelete(r)
    BY <1>6, OneMoves DEF Deactivate, Activate, ClearSession, Cleared, SoftDelete
  <1> QED BY <1>1, <1>2, <1>3, <1>4, <1>5, <1>6 DEF Handle

LEMMA OthersAfterFault ==
  ASSUME IType, NEW r \in Requests, ClearFails(r) \/ Abort(r)
  PROVE  OthersSame(r)
  BY OneMoves DEF ClearFails, Abort, Cleared
-----------------------------------------------------------------------------
(* A reset that has written the password stays on its way to the session   *)
(* until it has cleared it, or left it where a statement failed.           *)
LEMMA StillEnding ==
  ASSUME IType, ResetEndsSessions, NEW r \in Requests, OthersSame(r),
         \/ session' # "outdated"
         \/ session' = session /\ req[r].pc \notin {"markUsed", "clearSession"}
  PROVE  ResetEndsSessions'
  BY DEF ResetEndsSessions, OthersSame, SameRequest

LEMMA EndingAfterHandle ==
  ASSUME IType, ResetEndsSessions, NEW r \in Requests, Handle(r)
  PROVE  ResetEndsSessions'
  <1>0. OthersSame(r)
    BY OthersAfterHandle
  <1>1. CASE WritePassword(r)
    <2>1. req[r].cred \in Credentials /\ req'[r].pc = "markUsed"
            /\ req'[r].cred = req[r].cred
      BY <1>1, ReadersType DEF WritePassword, At, IType, HoldsCredential
    <2>2. CASE req[r].cred = Invitation
      <3>1. session' = session \/ session' # "outdated"
        BY <1>1, <2>2 DEF WritePassword, Keep
      <3> QED BY <1>0, <1>1, <3>1, StillEnding DEF WritePassword, At
    <2>3. CASE req[r].cred # Invitation
      <3>1. req'[r].cred \in Links
        BY <2>1, <2>3 DEF Credentials
      <3> QED BY <2>1, <3>1 DEF ResetEndsSessions
    <2> QED BY <2>2, <2>3
  <1>2. CASE MarkUsed(r)
    <2>1. CASE req[r].cred = Invitation
      <3>1. ~(req[r].cred \in Links)
        BY <2>1, AccountsAssumption
      <3>2. session' = session
        BY <1>2 DEF MarkUsed
      <3> QED BY <1>0, <3>1, <3>2 DEF ResetEndsSessions, OthersSame, SameRequest
    <2>2. CASE req[r].cred # Invitation
      <3>1. /\ req'[r].pc = "clearSession"
            /\ req'[r].cred = req[r].cred
            /\ session' = session
        BY <1>2, <2>2 DEF MarkUsed, Goto, IType, TypeOK, Request
      <3> QED BY <1>0, <3>1 DEF ResetEndsSessions, OthersSame, SameRequest
    <2> QED BY <2>1, <2>2
  <1>3. CASE UpdatePassword(r)
    <2>1. session' = session \/ session' # "outdated"
      BY <1>3 DEF UpdatePassword, Keep
    <2> QED BY <1>0, <1>3, <2>1, StillEnding DEF UpdatePassword, At
  <1>4. CASE OpenSession(r)
    BY <1>0, <1>4, StillEnding DEF OpenSession, At
  <1>5. CASE ClearSession(r)
    BY <1>0, <1>5, StillEnding DEF ClearSession
  <1>6. CASE InsertUser(r) \/ AddRole(r) \/ IssueCode(r) \/ ActivateVerified(r)
    BY <1>0, <1>6, StillEnding
    DEF InsertUser, AddRole, IssueCode, ActivateVerified, At
  <1>7. CASE InsertAdmin(r) \/ GrantAdmin(r) \/ InviteRole(r) \/ InviteToken(r)
    BY <1>0, <1>7, StillEnding
    DEF InsertAdmin, GrantAdmin, InviteRole, InviteToken, At
  <1>8. CASE CheckLink(r) \/ InsertLink(r) \/ Deactivate(r) \/ Activate(r)
               \/ SoftDelete(r)
    BY <1>0, <1>8, StillEnding
    DEF CheckLink, InsertLink, Deactivate, Activate, SoftDelete, At
  <1> QED
    BY <1>1, <1>2, <1>3, <1>4, <1>5, <1>6, <1>7, <1>8 DEF Handle

LEMMA EndingAfterAsk ==
  ASSUME IType, ResetEndsSessions, NEW r \in Requests, Ask(r)
  PROVE  ResetEndsSessions'
  <1>1. OthersSame(r)
    BY OthersAfterAsk
  <1>2. session' = session /\ req[r].pc = "idle"
    BY DEF Ask, Register, VerifyOTP, AdminRegister, InviteUser, ForgotPassword,
           UseCredential, ChangePassword, Login, AdminRequest, Arrive, At
  <1> QED BY <1>1, <1>2, StillEnding

(* A reset ends the sessions that were open before it, however many        *)
(* requests run at the same time.                                          *)
THEOREM ResetEndsSessionsTheorem == Spec => []ResetEndsSessions
  <1>1. Init => ResetEndsSessions
    BY DEF Init, ResetEndsSessions
  <1>2. IType /\ ResetEndsSessions /\ [Next]_vars => ResetEndsSessions'
    <2> SUFFICES ASSUME IType, ResetEndsSessions, [Next]_vars
                 PROVE  ResetEndsSessions'
      OBVIOUS
    <2>1. ASSUME NEW r \in Requests, ClearFails(r) \/ Abort(r)
          PROVE  ResetEndsSessions'
      BY <2>1, OthersAfterFault, StillEnding DEF ClearFails, Abort, Spared
    <2>2. CASE \/ \E c \in Credentials : Expire(c)
               \/ ExpireCode \/ EndSession \/ UNCHANGED vars
      BY <2>2 DEF Expire, ExpireCode, EndSession, vars, ResetEndsSessions
    <2> QED BY <2>1, <2>2, EndingAfterAsk, EndingAfterHandle DEF Next
  <1> QED BY <1>1, <1>2, TypeInvariant, PTL DEF Spec
-----------------------------------------------------------------------------
(* Whoever can verify a registration has been made an end user by it.      *)
EndUser == "end_user" \in roles

Registered ==
    /\ barred => row # "absent"
    /\ code => EndUser
    /\ \A r \in Requests : req[r].pc \in {"issueCode", "verified"} => EndUser
    /\ DeactivationHolds

LEMMA StillRegistered ==
  ASSUME IType, Registered, NEW r \in Requests, OthersSame(r),
         roles \subseteq roles', code' => code \/ EndUser,
         barred' => row' # "absent",
         barred' /\ row' = "active" => EndUser' \/ (barred /\ row = "active"),
         req'[r].pc \in {"issueCode", "verified"} => EndUser'
  PROVE  Registered'
  BY DEF Registered, EndUser, DeactivationHolds, OthersSame, SameRequest

LEMMA RegisteredAfterAsk ==
  ASSUME IType, Registered, NEW r \in Requests, Ask(r)
  PROVE  Registered'
  <1> USE DEF IType, TypeOK, Request, Arrive, Goto, rowVars
  <1>1. OthersSame(r)
    BY OthersAfterAsk
  <1>2. CASE InviteUser(r)
    BY <1>1, <1>2, StillRegistered DEF InviteUser
  <1>3. CASE VerifyOTP(r)
    BY <1>1, <1>3, StillRegistered DEF VerifyOTP, Registered, EndUser
  <1>4. CASE \E c \in Credentials : UseCredential(r, c)
    BY <1>1, <1>4, StillRegistered DEF UseCredential, Registered
  <1>5. CASE Login(r)
    BY <1>1, <1>5, StillRegistered DEF Login, Idle, Registered
  <1>6. CASE Register(r) \/ AdminRegister(r) \/ ForgotPassword(r)
               \/ ChangePassword(r) \/ AdminRequest(r)
    BY <1>1, <1>6, StillRegistered
    DEF Register, AdminRegister, ForgotPassword, ChangePassword, AdminRequest,
        Registered
  <1> QED BY <1>2, <1>3, <1>4, <1>5, <1>6 DEF Ask

LEMMA RegisteredAfterHandle ==
  ASSUME IType, Registered, NEW r \in Requests, Handle(r)
  PROVE  Registered'
  <1> USE DEF IType, TypeOK, Request, Goto, Respond, Idle, rowVars
  <1>1. OthersSame(r)
    BY OthersAfterHandle
  <1>2. CASE AddRole(r)
    BY <1>1, <1>2, StillRegistered DEF AddRole, Registered, EndUser
  <1>3. CASE IssueCode(r)
    BY <1>1, <1>3, StillRegistered DEF IssueCode, At, Registered
  <1>4. CASE ActivateVerified(r)
    BY <1>1, <1>4, StillRegistered DEF ActivateVerified, At, Registered, EndUser
  <1>5. CASE WritePassword(r)
    <2>1. req'[r].pc = "markUsed"
      BY <1>5, ReadersType DEF WritePassword
    <2>2. /\ roles' = roles /\ code' = code
          /\ \/ row' = row /\ barred' = barred
             \/ barred' = FALSE
      BY <1>5 DEF WritePassword
    <2> QED BY <1>1, <2>1, <2>2, StillRegistered DEF Registered
  <1>6. CASE UpdatePassword(r)
    BY <1>1, <1>6, ReadersType, StillRegistered DEF UpdatePassword, Registered
  <1>7. CASE InsertUser(r) \/ InsertAdmin(r)
    BY <1>1, <1>7, StillRegistered DEF InsertUser, InsertAdmin, Registered
  <1>8. CASE GrantAdmin(r) \/ InviteRole(r) \/ InviteToken(r)
    BY <1>1, <1>8, StillRegistered DEF GrantAdmin, InviteRole, InviteToken, Registered
  <1>9. CASE CheckLink(r) \/ InsertLink(r) \/ MarkUsed(r) \/ OpenSession(r)
               \/ ClearSession(r) \/ SoftDelete(r)
    BY <1>1, <1>9, StillRegistered
    DEF CheckLink, InsertLink, MarkUsed, OpenSession, ClearSession, Cleared,
        SoftDelete, Registered
  <1>10. CASE Deactivate(r) \/ Activate(r)
    BY <1>1, <1>10, StillRegistered DEF Deactivate, Activate, Registered
  <1> QED
    BY <1>2, <1>3, <1>4, <1>5, <1>6, <1>7, <1>8, <1>9, <1>10 DEF Handle

(* A deactivated account comes back only through an administrator, an      *)
(* invitation or a registration as an end user.                            *)
THEOREM DeactivationHoldsTheorem == Spec => []DeactivationHolds
  <1>1. Init => Registered
    BY DEF Init, Registered, DeactivationHolds, Idle
  <1>2. IType /\ Registered /\ [Next]_vars => Registered'
    <2> SUFFICES ASSUME IType, Registered, [Next]_vars
                 PROVE  Registered'
      OBVIOUS
    <2>1. ASSUME NEW r \in Requests, ClearFails(r) \/ Abort(r)
          PROVE  Registered'
      <3>1. OthersSame(r)
        BY <2>1, OthersAfterFault
      <3> QED BY <2>1, <3>1, StillRegistered
              DEF ClearFails, Abort, Cleared, Goto, Respond, Idle, rowVars,
                  IType, TypeOK, Request, Registered
    <2>2. CASE \/ \E c \in Credentials : Expire(c)
               \/ ExpireCode \/ EndSession \/ UNCHANGED vars
      BY <2>2 DEF Expire, ExpireCode, EndSession, vars, rowVars,
                  Registered, EndUser, DeactivationHolds
    <2> QED BY <2>1, <2>2, RegisteredAfterAsk, RegisteredAfterHandle DEF Next
  <1>3. Registered => DeactivationHolds
    BY DEF Registered
  <1> QED BY <1>1, <1>2, <1>3, TypeInvariant, PTL DEF Spec
-----------------------------------------------------------------------------
(* The links that are usable, and those about to be inserted.              *)
UsableLinks == {c \in Links : Usable(c)}

LEMMA FiniteLinks ==
  /\ IsFiniteSet(UsableLinks) /\ Cardinality(UsableLinks) \in Nat
  /\ IsFiniteSet(Inserting) /\ Cardinality(Inserting) \in Nat
  /\ Cardinality(Inserting) <= Cardinality(Requests)
  /\ Cardinality(Requests) \in Nat
  <1>1. UsableLinks \in SUBSET Links /\ Inserting \in SUBSET Requests
    BY DEF UsableLinks, Inserting
  <1> QED BY <1>1, AccountsAssumption, FS_Subset, FS_CardinalityType

(* Nothing is added by a step that makes no token usable and goes to no    *)
(* insertion.                                                              *)
LEMMA NoNewLink ==
  ASSUME IType, LinksBounded, NEW r \in Requests, OthersSame(r),
         req'[r].pc # "insertLink",
         \A c \in Links : Usable(c)' => Usable(c)
  PROVE  LinksBounded'
  <1>1. UsableLinks' \in SUBSET UsableLinks /\ Inserting' \in SUBSET Inserting
    BY DEF UsableLinks, Inserting, At, OthersSame, SameRequest
  <1>2. /\ Cardinality(UsableLinks') \in Nat
        /\ Cardinality(UsableLinks') <= Cardinality(UsableLinks)
        /\ Cardinality(Inserting') \in Nat
        /\ Cardinality(Inserting') <= Cardinality(Inserting)
    BY <1>1, FiniteLinks, FS_Subset, FS_CardinalityType
  <1> QED BY <1>2, FiniteLinks DEF LinksBounded, UsableLinks

LEMMA LinksAfterCheck ==
  ASSUME IType, LinksBounded, NEW r \in Requests, CheckLink(r)
  PROVE  LinksBounded'
  <1>1. cred' = cred
    BY DEF CheckLink, credVars
  <1>2. CASE \E c \in Links : Usable(c)
    <2>1. OthersSame(r) /\ req'[r].pc # "insertLink"
      BY <1>2, OneMoves DEF CheckLink, Respond, Idle, IType, TypeOK
    <2> QED BY <1>1, <2>1, NoNewLink DEF Usable
  <1>3. CASE ~\E c \in Links : Usable(c)
    <2>1. UsableLinks' = {}
      BY <1>1, <1>3 DEF UsableLinks, Usable
    <2>2. Inserting' \in SUBSET Requests
      BY DEF Inserting
    <2>3. Cardinality(Inserting') <= Cardinality(Requests) /\ Cardinality(Inserting') \in Nat
      BY <2>2, AccountsAssumption, FS_Subset, FS_CardinalityType
    <2>4. Cardinality(UsableLinks') = 0
      BY <2>1, FS_EmptySet
    <2> QED BY <2>3, <2>4 DEF LinksBounded, UsableLinks
  <1> QED BY <1>2, <1>3

LEMMA LinksAfterInsert ==
  ASSUME IType, LinksBounded, NEW r \in Requests, InsertLink(r)
  PROVE  LinksBounded'
  <1>1. PICK c \in Links : ~Usable(c) /\ cred'[c] # "dead"
                           /\ \A d \in Links \ {c} : cred'[d] = cred[d]
    BY DEF InsertLink, IType, TypeOK, Credentials
  <1>2. UsableLinks' = UsableLinks \cup {c} /\ c \notin UsableLinks
    BY <1>1 DEF UsableLinks, Usable
  <1>3. Inserting' = Inserting \ {r} /\ r \in Inserting
    BY DEF InsertLink, Respond, Idle, Inserting, At, IType, TypeOK
  <1>4. /\ Cardinality(UsableLinks') = Cardinality(UsableLinks) + 1
        /\ Cardinality(Inserting') = Cardinality(Inserting) - 1
    BY <1>2, <1>3, FiniteLinks, FS_AddElement, FS_RemoveElement
  <1> QED BY <1>4, FiniteLinks DEF LinksBounded, UsableLinks

LEMMA LinksAfterAsk ==
  ASSUME IType, LinksBounded, NEW r \in Requests, Ask(r)
  PROVE  LinksBounded'
  <1> USE DEF IType, TypeOK, Request
  <1>1. OthersSame(r)
    BY OthersAfterAsk
  <1>2. cred' = cred
    BY DEF Ask, Register, VerifyOTP, AdminRegister, InviteUser, ForgotPassword,
           UseCredential, ChangePassword, Login, AdminRequest, credVars
  <1>3. req'[r].pc # "insertLink"
    <2>1. CASE \E c \in Credentials : UseCredential(r, c)
      BY <2>1 DEF UseCredential
    <2>2. CASE Login(r)
      BY <2>2 DEF Login, Idle
    <2>3. CASE AdminRequest(r)
      BY <2>3 DEF AdminRequest, Arrive, Goto
    <2>4. CASE Register(r) \/ VerifyOTP(r) \/ AdminRegister(r) \/ InviteUser(r)
                 \/ ForgotPassword(r) \/ ChangePassword(r)
      BY <2>4 DEF Register, VerifyOTP, AdminRegister, InviteUser, ForgotPassword,
                  ChangePassword, Arrive, Goto
    <2> QED BY <2>1, <2>2, <2>3, <2>4 DEF Ask
  <1> QED BY <1>1, <1>2, <1>3, NoNewLink DEF Usable

LEMMA LinksAfterHandle ==
  ASSUME IType, LinksBounded, NEW r \in Requests, Handle(r)
  PROVE  LinksBounded'
  <1> USE DEF IType, TypeOK, Request, Goto, Respond, Idle, credVars
  <1>1. OthersSame(r)
    BY OthersAfterHandle
  <1>2. CASE WritePassword(r)
    <2>1. req'[r].pc = "markUsed" /\ cred' = cred
      BY <1>2, ReadersType DEF WritePassword
    <2> QED BY <1>1, <2>1, NoNewLink DEF Usable
  <1>3. CASE UpdatePassword(r)
    <2>1. req'[r].pc = "idle" /\ cred' = cred
      BY <1>3, ReadersType DEF UpdatePassword
    <2> QED BY <1>1, <2>1, NoNewLink DEF Usable
  <1>4. CASE MarkUsed(r)
    <2>1. req'[r].pc # "insertLink" /\ \A c \in Credentials : cred'[c] \in {cred[c], "dead"}
      BY <1>4 DEF MarkUsed
    <2> QED BY <1>1, <2>1, NoNewLink DEF Usable, Credentials
  <1>5. CASE InviteToken(r)
    <2>1. req'[r].pc = "idle" /\ \A c \in Links : cred'[c] = cred[c]
      BY <1>5, AccountsAssumption DEF InviteToken, Credentials
    <2> QED BY <1>1, <2>1, NoNewLink DEF Usable
  <1>6. CASE InsertUser(r) \/ AddRole(r) \/ IssueCode(r) \/ ActivateVerified(r)
               \/ InsertAdmin(r) \/ GrantAdmin(r) \/ InviteRole(r)
    <2>1. req'[r].pc # "insertLink" /\ cred' = cred
      BY <1>6 DEF InsertUser, AddRole, IssueCode, ActivateVerified, InsertAdmin,
                  GrantAdmin, InviteRole
    <2> QED BY <1>1, <2>1, NoNewLink DEF Usable
  <1>7. CASE OpenSession(r) \/ Deactivate(r) \/ Activate(r) \/ ClearSession(r)
               \/ SoftDelete(r)
    <2>1. req'[r].pc # "insertLink" /\ cred' = cred
      BY <1>7 DEF OpenSession, Deactivate, Activate, ClearSession, Cleared, SoftDelete
    <2> QED BY <1>1, <2>1, NoNewLink DEF Usable
  <1> QED
    BY <1>2, <1>3, <1>4, <1>5, <1>6, <1>7, LinksAfterCheck, LinksAfterInsert
    DEF Handle

(* However often a link is asked for, no more are usable than requests run *)
(* at a time.                                                              *)
THEOREM LinksBoundedTheorem == Spec => []LinksBounded
  <1>1. Init => LinksBounded
    <2> SUFFICES ASSUME Init
                 PROVE  LinksBounded
      OBVIOUS
    <2>1. UsableLinks = {} /\ Inserting = {}
      BY DEF Init, UsableLinks, Usable, Inserting, At, Idle, Credentials
    <2>2. Cardinality(UsableLinks) = 0 /\ Cardinality(Inserting) = 0
      BY <2>1, FS_EmptySet
    <2> QED BY <2>2, FiniteLinks DEF LinksBounded, UsableLinks
  <1>2. IType /\ LinksBounded /\ [Next]_vars => LinksBounded'
    <2> SUFFICES ASSUME IType, LinksBounded, [Next]_vars
                 PROVE  LinksBounded'
      OBVIOUS
    <2>1. ASSUME NEW r \in Requests, ClearFails(r) \/ Abort(r)
          PROVE  LinksBounded'
      <3>1. OthersSame(r) /\ req'[r].pc # "insertLink" /\ cred' = cred
        BY <2>1, OthersAfterFault
        DEF ClearFails, Abort, Cleared, Goto, Respond, Idle, credVars, IType,
            TypeOK, Request
      <3> QED BY <3>1, NoNewLink DEF Usable
    <2>2. ASSUME NEW c \in Credentials, Expire(c)
          PROVE  LinksBounded'
      <3>1. UsableLinks' \in SUBSET UsableLinks /\ Inserting' = Inserting
        BY <2>2 DEF Expire, UsableLinks, Usable, Inserting, At, IType, TypeOK,
                    Credentials
      <3>2. Cardinality(UsableLinks') \in Nat
              /\ Cardinality(UsableLinks') <= Cardinality(UsableLinks)
        BY <3>1, FiniteLinks, FS_Subset, FS_CardinalityType
      <3> QED BY <3>1, <3>2, FiniteLinks DEF LinksBounded, UsableLinks
    <2>3. CASE ExpireCode \/ EndSession \/ UNCHANGED vars
      <3>1. UsableLinks' = UsableLinks /\ Inserting' = Inserting
        BY <2>3 DEF ExpireCode, EndSession, vars, credVars, UsableLinks, Usable,
                    Inserting, At
      <3> QED BY <3>1 DEF LinksBounded, UsableLinks
    <2> QED BY <2>1, <2>2, <2>3, LinksAfterAsk, LinksAfterHandle DEF Next
  <1> QED BY <1>1, <1>2, TypeInvariant, PTL DEF Spec
-----------------------------------------------------------------------------
(* How many passwords a token writes.                                      *)
Writing(c) == {r \in Requests : req[r].pc = "write" /\ req[r].cred = c}
Marking(c) == {r \in Requests : req[r].pc = "markUsed" /\ req[r].cred = c}

(* While it is usable, whoever wrote is about to mark it or has failed;    *)
(* once it is dead, only those write that had found it usable.             *)
CountedCredential(c) ==
    IF Usable(c)
    THEN uses[c] <= Cardinality(Marking(c)) + failures
    ELSE uses[c] + Cardinality(Writing(c)) <= Cardinality(Requests) + failures

Counted == \A c \in Credentials : CountedCredential(c)

LEMMA FiniteParts ==
  ASSUME NEW c \in Credentials
  PROVE  /\ IsFiniteSet(Writing(c)) /\ Cardinality(Writing(c)) \in Nat
         /\ IsFiniteSet(Marking(c)) /\ Cardinality(Marking(c)) \in Nat
         /\ Cardinality(Requests) \in Nat
         /\ Cardinality(Writing(c)) + Cardinality(Marking(c)) <= Cardinality(Requests)
  <1> USE AccountsAssumption
  <1>1. Writing(c) \in SUBSET Requests /\ Marking(c) \in SUBSET (Requests \ Writing(c))
    BY DEF Writing, Marking
  <1>2. /\ IsFiniteSet(Writing(c)) /\ IsFiniteSet(Requests \ Writing(c))
        /\ Cardinality(Requests \ Writing(c)) = Cardinality(Requests) - Cardinality(Writing(c))
    <2>1. IsFiniteSet(Writing(c)) /\ IsFiniteSet(Requests \ Writing(c))
      BY <1>1, FS_Subset
    <2>2. Requests \cap Writing(c) = Writing(c)
      BY <1>1
    <2> QED BY <2>1, <2>2, FS_Difference
  <1>3. IsFiniteSet(Marking(c))
          /\ Cardinality(Marking(c)) <= Cardinality(Requests \ Writing(c))
    BY <1>1, <1>2, FS_Subset
  <1> QED BY <1>2, <1>3, FS_CardinalityType

(* A step that writes no password and leaves the tokens alone: it gives up *)
(* marking a usable token at the price of a failure only, and goes to      *)
(* write with none but a usable one.                                       *)
LEMMA StillCounted ==
  ASSUME IType, Counted, NEW r \in Requests, OthersSame(r),
         cred' = cred, uses' = uses, failures' \in Nat, failures' >= failures,
         req'[r].pc # "markUsed",
         req'[r].pc = "write" => Usable(req'[r].cred),
         req[r].pc = "markUsed" => failures' = failures + 1
  PROVE  Counted'
  <1> SUFFICES ASSUME NEW c \in Credentials
               PROVE  CountedCredential(c)'
    BY DEF Counted
  <1>1. CountedCredential(c) /\ uses[c] \in Nat /\ failures \in Nat
          /\ (Usable(c)' <=> Usable(c))
    BY AccountsAssumption DEF Counted, IType, TypeOK, Usable
  <1>2. CASE Usable(c)
    <2>1. Marking(c)' = Marking(c) \ {r}
      BY DEF Marking, OthersSame, SameRequest
    <2>2. Cardinality(Marking(c)') =
            IF r \in Marking(c) THEN Cardinality(Marking(c)) - 1
                                ELSE Cardinality(Marking(c))
      BY <2>1, FiniteParts, FS_RemoveElement
    <2>3. r \in Marking(c) => failures' = failures + 1
      BY DEF Marking
    <2> QED BY <1>1, <1>2, <2>2, <2>3, FiniteParts DEF CountedCredential
  <1>3. CASE ~Usable(c)
    <2>1. Writing(c)' \in SUBSET Writing(c)
      BY <1>3 DEF Writing, OthersSame, SameRequest
    <2>2. Cardinality(Writing(c)') <= Cardinality(Writing(c))
            /\ Cardinality(Writing(c)') \in Nat
      BY <2>1, FiniteParts, FS_Subset, FS_CardinalityType
    <2> QED BY <1>1, <1>3, <2>2, FiniteParts DEF CountedCredential
  <1> QED BY <1>2, <1>3

LEMMA CountedAfterWrite ==
  ASSUME IType, Counted, NEW r \in Requests, WritePassword(r)
  PROVE  Counted'
  <1> SUFFICES ASSUME NEW c \in Credentials
               PROVE  CountedCredential(c)'
    BY DEF Counted
  <1>1. /\ req[r].pc = "write" /\ req'[r].pc = "markUsed"
        /\ req'[r].cred = req[r].cred
        /\ uses' = [uses EXCEPT ![req[r].cred] = @ + 1]
        /\ UNCHANGED <<cred, failures>>
    BY ReadersType DEF WritePassword, At
  <1>2. OthersSame(r)
    BY OthersAfterHandle DEF Handle
  <1>3. CountedCredential(c) /\ uses[c] \in Nat /\ failures \in Nat
          /\ (Usable(c)' <=> Usable(c))
    BY <1>1, AccountsAssumption DEF Counted, IType, TypeOK, Usable
  <1>4. CASE req[r].cred = c
    <2>1. /\ Writing(c)' = Writing(c) \ {r} /\ r \in Writing(c)
          /\ Marking(c)' = Marking(c) \cup {r} /\ r \notin Marking(c)
      BY <1>1, <1>2, <1>4 DEF Writing, Marking, OthersSame, SameRequest
    <2>2. /\ Cardinality(Writing(c)') = Cardinality(Writing(c)) - 1
          /\ Cardinality(Marking(c)') = Cardinality(Marking(c)) + 1
      <3>1. IsFiniteSet(Writing(c)) /\ IsFiniteSet(Marking(c))
        BY FiniteParts
      <3>2. Cardinality(Writing(c) \ {r}) = Cardinality(Writing(c)) - 1
        BY <2>1, <3>1, FS_RemoveElement
      <3>3. Cardinality(Marking(c) \cup {r}) = Cardinality(Marking(c)) + 1
        BY <2>1, <3>1, FS_AddElement
      <3> QED BY <2>1, <3>2, <3>3
    <2>3. uses'[c] = uses[c] + 1
      BY <1>1, <1>4 DEF IType, TypeOK
    <2> QED BY <1>1, <1>3, <2>2, <2>3, FiniteParts DEF CountedCredential
  <1>5. CASE req[r].cred # c
    <2>1. Writing(c)' = Writing(c) /\ Marking(c)' = Marking(c)
      BY <1>1, <1>2, <1>5 DEF Writing, Marking, OthersSame, SameRequest
    <2>2. uses'[c] = uses[c]
      BY <1>1, <1>5 DEF IType, TypeOK
    <2> QED BY <1>1, <1>3, <2>1, <2>2 DEF CountedCredential
  <1> QED BY <1>4, <1>5

(* A token dies: what it wrote is bounded by those that are marking it,    *)
(* and they are not writing.                                               *)
LEMMA CountedAfterDeath ==
  ASSUME IType, Counted, NEW c \in Credentials, Usable(c),
         uses' = uses, failures' = failures,
         ~Usable(c)', Writing(c)' = Writing(c)
  PROVE  CountedCredential(c)'
  <1>1. CountedCredential(c) /\ uses[c] \in Nat /\ failures \in Nat
    BY AccountsAssumption DEF Counted, IType, TypeOK
  <1> QED BY <1>1, FiniteParts DEF CountedCredential

LEMMA CountedAfterMark ==
  ASSUME IType, Counted, NEW r \in Requests, MarkUsed(r)
  PROVE  Counted'
  <1> SUFFICES ASSUME NEW c \in Credentials
               PROVE  CountedCredential(c)'
    BY DEF Counted
  <1>1. /\ req[r].pc = "markUsed" /\ req'[r].pc \in {"idle", "clearSession"}
        /\ cred' = [cred EXCEPT ![req[r].cred] = "dead"]
        /\ UNCHANGED <<uses, failures>>
    BY DEF MarkUsed, At, Goto, Respond, Idle, IType, TypeOK, Request
  <1>2. OthersSame(r)
    BY OthersAfterHandle DEF Handle
  <1>3. Writing(c)' = Writing(c)
    BY <1>1, <1>2 DEF Writing, OthersSame, SameRequest
  <1>4. CASE req[r].cred = c
    <2>1. ~Usable(c)'
      BY <1>1, <1>4 DEF Usable, IType, TypeOK
    <2>2. CASE Usable(c)
      BY <1>1, <1>3, <2>1, <2>2, CountedAfterDeath
    <2>3. CASE ~Usable(c)
      BY <1>1, <1>3, <2>1, <2>3 DEF Counted, CountedCredential
    <2> QED BY <2>2, <2>3
  <1>5. CASE req[r].cred # c
    <2>1. Marking(c)' = Marking(c)
      BY <1>1, <1>2, <1>5 DEF Marking, OthersSame, SameRequest
    <2>2. Usable(c)' <=> Usable(c)
      BY <1>1, <1>5 DEF Usable, IType, TypeOK
    <2> QED BY <1>1, <1>3, <2>1, <2>2 DEF Counted, CountedCredential
  <1> QED BY <1>4, <1>5

(* A token is issued: it has written nothing yet.                          *)
LEMMA CountedAfterIssue ==
  ASSUME IType, Counted, NEW r \in Requests, InsertLink(r) \/ InviteToken(r)
  PROVE  Counted'
  <1> SUFFICES ASSUME NEW c \in Credentials
               PROVE  CountedCredential(c)'
    BY DEF Counted
  <1>1. PICK d \in Credentials :
           /\ cred'[d] # "dead" /\ \A e \in Credentials \ {d} : cred'[e] = cred[e]
           /\ uses' = [uses EXCEPT ![d] = 0]
    BY DEF InsertLink, InviteToken, IType, TypeOK, Credentials
  <1>2. /\ req[r].pc \in {"insertLink", "inviteToken"} /\ req'[r].pc = "idle"
        /\ failures' = failures
    BY DEF InsertLink, InviteToken, At, Respond, Idle, IType, TypeOK
  <1>3. OthersSame(r)
    BY OthersAfterHandle DEF Handle
  <1>4. Writing(c)' = Writing(c) /\ Marking(c)' = Marking(c)
    BY <1>2, <1>3 DEF Writing, Marking, OthersSame, SameRequest
  <1>5. CASE c = d
    <2>1. Usable(c)' /\ uses'[c] = 0 /\ failures \in Nat
      BY <1>1, <1>5, AccountsAssumption DEF Usable, IType, TypeOK
    <2> QED BY <1>2, <1>4, <2>1, FiniteParts DEF CountedCredential
  <1>6. CASE c # d
    <2>1. (Usable(c)' <=> Usable(c)) /\ uses'[c] = uses[c]
      BY <1>1, <1>6 DEF Usable, IType, TypeOK
    <2> QED BY <1>2, <1>4, <2>1 DEF Counted, CountedCredential
  <1> QED BY <1>5, <1>6

LEMMA CountedAfterAsk ==
  ASSUME IType, Counted, NEW r \in Requests, Ask(r)
  PROVE  Counted'
  <1> USE DEF IType, TypeOK, Request
  <1>1. OthersSame(r)
    BY OthersAfterAsk
  <1>2. UNCHANGED <<cred, uses, failures>> /\ req[r].pc = "idle"
    BY DEF Ask, Register, VerifyOTP, AdminRegister, InviteUser, ForgotPassword,
           UseCredential, ChangePassword, Login, AdminRequest, Arrive, At, credVars
  <1>3. failures \in Nat
    BY AccountsAssumption
  <1>4. req'[r].pc # "markUsed" /\ (req'[r].pc = "write" => Usable(req'[r].cred))
    <2>1. CASE \E c \in Credentials : UseCredential(r, c)
      BY <2>1 DEF UseCredential, Usable
    <2>2. CASE Login(r)
      BY <2>2 DEF Login, Idle
    <2>3. CASE AdminRequest(r)
      BY <2>3 DEF AdminRequest, Arrive, Goto
    <2>4. CASE Register(r) \/ VerifyOTP(r) \/ AdminRegister(r) \/ InviteUser(r)
                 \/ ForgotPassword(r) \/ ChangePassword(r)
      BY <2>4 DEF Register, VerifyOTP, AdminRegister, InviteUser, ForgotPassword,
                  ChangePassword, Arrive, Goto
    <2> QED BY <2>1, <2>2, <2>3, <2>4 DEF Ask
  <1> QED BY <1>1, <1>2, <1>3, <1>4, StillCounted

LEMMA CountedAfterHandle ==
  ASSUME IType, Counted, NEW r \in Requests, Handle(r)
  PROVE  Counted'
  <1> USE DEF IType, TypeOK, Request, Goto, Respond, Idle, At, credVars
  <1>1. OthersSame(r) /\ failures \in Nat
    BY OthersAfterHandle, AccountsAssumption
  <1>2. CASE UpdatePassword(r)
    <2>1. /\ req[r].pc = "change" /\ req'[r].pc = "idle"
          /\ UNCHANGED <<cred, uses, failures>>
      BY <1>2, ReadersType DEF UpdatePassword
    <2> QED BY <1>1, <2>1, StillCounted
  <1>3. CASE InsertUser(r) \/ AddRole(r) \/ IssueCode(r) \/ ActivateVerified(r)
               \/ InsertAdmin(r) \/ GrantAdmin(r) \/ InviteRole(r)
    <2>1. /\ req[r].pc # "markUsed" /\ req'[r].pc \notin {"markUsed", "write"}
          /\ UNCHANGED <<cred, uses, failures>>
      BY <1>3 DEF InsertUser, AddRole, IssueCode, ActivateVerified, InsertAdmin,
                  GrantAdmin, InviteRole
    <2> QED BY <1>1, <2>1, StillCounted
  <1>4. CASE CheckLink(r) \/ OpenSession(r) \/ Deactivate(r) \/ Activate(r)
               \/ ClearSession(r) \/ SoftDelete(r)
    <2>1. /\ req[r].pc # "markUsed" /\ req'[r].pc \notin {"markUsed", "write"}
          /\ UNCHANGED <<cred, uses, failures>>
      BY <1>4 DEF CheckLink, OpenSession, Deactivate, Activate, ClearSession,
                  Cleared, SoftDelete
    <2> QED BY <1>1, <2>1, StillCounted
  <1> QED
    BY <1>2, <1>3, <1>4, CountedAfterWrite, CountedAfterMark, CountedAfterIssue
    DEF Handle

(* A token writes no more passwords than requests run at a time and        *)
(* requests fail: it cannot be used again once its use is done.            *)
THEOREM UsesBoundedTheorem == Spec => []UsesBounded
  <1>1. Init => Counted
    <2> SUFFICES ASSUME Init, NEW c \in Credentials
                 PROVE  CountedCredential(c)
      BY DEF Counted
    <2>1. uses[c] = 0 /\ failures = 0
      BY DEF Init
    <2> QED BY <2>1, FiniteParts DEF CountedCredential
  <1>2. IType /\ Counted /\ [Next]_vars => Counted'
    <2> SUFFICES ASSUME IType, Counted, [Next]_vars
                 PROVE  Counted'
      OBVIOUS
    <2>1. ASSUME NEW r \in Requests, ClearFails(r) \/ Abort(r)
          PROVE  Counted'
      <3>1. /\ failures \in Nat /\ failures' = failures + 1
            /\ UNCHANGED <<cred, uses>>
            /\ req'[r].pc \notin {"markUsed", "write"}
        BY <2>1, AccountsAssumption
        DEF ClearFails, Abort, Fail, Cleared, Goto, Respond, Idle, credVars,
            IType, TypeOK, Request
      <3>2. failures' \in Nat /\ failures' >= failures
        BY <3>1
      <3> QED BY <2>1, <3>1, <3>2, OthersAfterFault, StillCounted
    <2>2. ASSUME NEW c \in Credentials, Expire(c)
          PROVE  Counted'
      <3> SUFFICES ASSUME NEW d \in Credentials
                   PROVE  CountedCredential(d)'
        BY DEF Counted
      <3>1. /\ Usable(c) /\ cred' = [cred EXCEPT ![c] = "dead"]
            /\ UNCHANGED <<uses, failures, req>>
        BY <2>2 DEF Expire
      <3>2. Writing(d)' = Writing(d) /\ Marking(d)' = Marking(d)
        BY <3>1 DEF Writing, Marking
      <3>3. CASE d = c
        <4>1. ~Usable(d)'
          BY <3>1, <3>3 DEF Usable, IType, TypeOK
        <4> QED BY <3>1, <3>2, <3>3, <4>1, CountedAfterDeath
      <3>4. CASE d # c
        <4>1. Usable(d)' <=> Usable(d)
          BY <3>1, <3>4 DEF Usable, IType, TypeOK
        <4> QED BY <3>1, <3>2, <4>1 DEF Counted, CountedCredential
      <3> QED BY <3>3, <3>4
    <2>3. CASE ExpireCode \/ EndSession \/ UNCHANGED vars
      BY <2>3 DEF ExpireCode, EndSession, vars, credVars, Counted,
                  CountedCredential, Usable, Writing, Marking
    <2> QED BY <2>1, <2>2, <2>3, CountedAfterAsk, CountedAfterHandle DEF Next
  <1>3. IType /\ Counted => UsesBounded
    <2> SUFFICES ASSUME IType, Counted, NEW c \in Credentials
                 PROVE  uses[c] <= Cardinality(Requests) + failures
      BY DEF UsesBounded
    <2>1. CountedCredential(c) /\ uses[c] \in Nat /\ failures \in Nat
      BY AccountsAssumption DEF Counted, IType, TypeOK
    <2> QED BY <2>1, FiniteParts DEF CountedCredential
  <1> QED BY <1>1, <1>2, <1>3, TypeInvariant, PTL DEF Spec
=============================================================================
