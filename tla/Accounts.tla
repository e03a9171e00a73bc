------------------------------ MODULE Accounts ------------------------------
(***************************************************************************)
(* The life of one account: how the row of one e-mail address in the table *)
(* users comes to be, is activated, gets its password and is shut out      *)
(* again, while the requests of its owner and of administrators run at the *)
(* same time.                                                              *)
(*                                                                         *)
(* Every action is one SQL statement together with the checks before it    *)
(* and the answer after it.  Three things are of another module's detail   *)
(* and are one step here: the session (Sessions), the one-time code (Otp)  *)
(* and the request's admission.  The password itself is abstracted to      *)
(* whether a session, or a hash a handler has read, is older than the row. *)
(***************************************************************************)
EXTENDS Naturals, FiniteSets

CONSTANTS
    Requests,       \* handlers that run at a time
    Links,          \* reset tokens; one is used anew once it is dead
    Invitation,     \* the invite token
    NoCredential,
    MaxFailures     \* BOUND: failing statements and ended requests

Credentials == Links \cup {Invitation}

ASSUME AccountsAssumption ==
    /\ IsFiniteSet(Requests)
    /\ IsFiniteSet(Links)
    /\ Invitation \notin Links
    /\ NoCredential \notin Credentials
    /\ MaxFailures \in Nat

VARIABLES
    row,        \* users: absent, or is_active
    deleted,    \* deleted_at is set
    password,   \* password_hash is not NULL
    roles,      \* user_roles: end_user, internal (every other role)
    cred,       \* password_reset_tokens and invite_tokens
    code,       \* a register token is out whose code verification accepts
    session,    \* active_sessions, by the password it was opened with
    req,        \* the handlers at work
    uses,       \* history: passwords written with each credential
    barred,     \* history: deactivated, and not admitted again since
    failures    \* counts what MaxFailures bounds

vars == <<row, deleted, password, roles, cred, code, session, req,
          uses, barred, failures>>

Idle == [pc |-> "idle", cred |-> NoCredential, newest |-> FALSE]

Steps == {"idle", "insertUser", "addRole", "issueCode", "verified",
          "insertAdmin", "grantAdmin", "inviteRole", "inviteToken",
          "checkLink", "insertLink", "write", "markUsed", "change",
          "openSession", "clearSession",
          "deactivate", "activate", "clearFirst", "softDelete"}

(* What a handler holds: the token it was sent, and whether the password   *)
(* hash it has read is still the row's.                                    *)
Request == [pc : Steps, cred : Credentials \cup {NoCredential}, newest : BOOLEAN]

(* cred: "lost" is a token whose mail did not arrive, "dead" one that is   *)
(* used, expired or not issued yet.                                        *)
(* session: "outdated" once a reset has replaced the password it was       *)
(* opened with, "kept" where the code lets it live on: see Keep.           *)
TypeOK ==
    /\ row \in {"absent", "inactive", "active"}
    /\ deleted \in BOOLEAN
    /\ password \in BOOLEAN
    /\ roles \subseteq {"end_user", "internal"}
    /\ cred \in [Credentials -> {"dead", "lost", "sent"}]
    /\ code \in BOOLEAN
    /\ session \in {"none", "current", "outdated", "kept"}
    /\ req \in [Requests -> Request]
    /\ uses \in [Credentials -> Nat]
    /\ barred \in BOOLEAN
    /\ failures \in 0 .. MaxFailures

Init ==
    /\ row = "absent"
    /\ deleted = FALSE
    /\ password = FALSE
    /\ roles = {}
    /\ cred = [c \in Credentials |-> "dead"]
    /\ code = FALSE
    /\ session = "none"
    /\ req = [r \in Requests |-> Idle]
    /\ uses = [c \in Credentials |-> 0]
    /\ barred = FALSE
    /\ failures = 0

-----------------------------------------------------------------------------
At(r, pc) == req[r].pc = pc

Usable(c) == cred[c] # "dead"

Goto(r, pc) == req' = [req EXCEPT ![r].pc = pc]

Respond(r) == req' = [req EXCEPT ![r] = Idle]

Arrive(r, pc) == At(r, "idle") /\ Goto(r, pc)

rowVars == <<row, deleted, password, roles, barred>>
credVars == <<cred, uses>>

-----------------------------------------------------------------------------
(* RegisterHandler: an e-mail address that is taken but not active is      *)
(* registered on, its password left as it is.                              *)
Register(r) ==
    /\ row # "active"
    /\ Arrive(r, IF row = "absent" THEN "insertUser" ELSE "addRole")
    /\ UNCHANGED <<rowVars, credVars, code, session, failures>>

InsertUser(r) ==
    /\ At(r, "insertUser")
    /\ IF row = "absent"
       THEN row' = "inactive" /\ password' = TRUE /\ Goto(r, "addRole")
       ELSE Respond(r) /\ UNCHANGED <<row, password>>
    /\ UNCHANGED <<deleted, roles, barred, credVars, code, session, failures>>

(* Mutant: only a row that was just inserted gets the role.                *)
AddRoleIfNone(r) ==
    /\ At(r, "addRole")
    /\ roles' = IF roles = {} THEN {"end_user"} ELSE roles
    /\ Goto(r, "issueCode")
    /\ UNCHANGED <<row, deleted, password, barred, credVars, code, session,
                   failures>>

AddRole(r) ==
    /\ At(r, "addRole")
    /\ roles' = roles \cup {"end_user"}
    /\ Goto(r, "issueCode")
    /\ UNCHANGED <<row, deleted, password, barred, credVars, code, session,
                   failures>>

IssueCode(r) ==
    /\ At(r, "issueCode")
    /\ code' = TRUE
    /\ Respond(r)
    /\ UNCHANGED <<rowVars, credVars, session, failures>>

(* VerifyOTPHandler: neither the row's state nor its roles are looked at.  *)
VerifyOTP(r) ==
    /\ code
    /\ Arrive(r, "verified")
    /\ UNCHANGED <<rowVars, credVars, code, session, failures>>

ActivateVerified(r) ==
    /\ At(r, "verified")
    /\ row' = "active"
    /\ Respond(r)
    /\ UNCHANGED <<deleted, password, roles, barred, credVars, code, session,
                   failures>>

-----------------------------------------------------------------------------
(* AdminRegisterHandler                                                    *)
AdminRegister(r) ==
    /\ row = "absent"
    /\ Arrive(r, "insertAdmin")
    /\ UNCHANGED <<rowVars, credVars, code, session, failures>>

InsertAdmin(r) ==
    /\ At(r, "insertAdmin")
    /\ IF row = "absent"
       THEN row' = "active" /\ password' = TRUE /\ Goto(r, "grantAdmin")
       ELSE Respond(r) /\ UNCHANGED <<row, password>>
    /\ UNCHANGED <<deleted, roles, barred, credVars, code, session, failures>>

GrantAdmin(r) ==
    /\ At(r, "grantAdmin")
    /\ roles' = roles \cup {"internal"}
    /\ Respond(r)
    /\ UNCHANGED <<row, deleted, password, barred, credVars, code, session,
                   failures>>

(* Mutant: any role_id is taken.                                           *)
InviteRoleUnknown(r) ==
    /\ At(r, "inviteRole")
    /\ \E role \in {"end_user", "internal", "unknown"} \ roles :
          roles' = roles \cup {role}
    /\ Goto(r, "inviteToken")
    /\ UNCHANGED <<row, deleted, password, barred, credVars, code, session,
                   failures>>

(* InviteUserHandler: the row first, then its role, then the token.  The   *)
(* invited role may be end_user too, which a registration on the row may   *)
(* have added by then: the request fails without a token.                  *)
InviteUser(r) ==
    /\ row = "absent"
    /\ row' = "inactive"
    /\ Arrive(r, "inviteRole")
    /\ UNCHANGED <<deleted, password, roles, barred, credVars, code, session,
                   failures>>

InviteRole(r) ==
    /\ At(r, "inviteRole")
    /\ \E role \in {"end_user", "internal"} :
          /\ roles' = roles \cup {role}
          /\ IF role \in roles THEN Respond(r) ELSE Goto(r, "inviteToken")
    /\ UNCHANGED <<row, deleted, password, barred, credVars, code, session,
                   failures>>

(* The mail is sent before the answer; whether it was is not looked at.    *)
InviteToken(r) ==
    /\ At(r, "inviteToken")
    /\ \E mail \in {"lost", "sent"} : cred' = [cred EXCEPT ![Invitation] = mail]
    /\ uses' = [uses EXCEPT ![Invitation] = 0]
    /\ Respond(r)
    /\ UNCHANGED <<rowVars, code, session, failures>>

-----------------------------------------------------------------------------
(* ForgotPasswordHandler                                                   *)
ForgotPassword(r) ==
    /\ row = "active"
    /\ Arrive(r, "checkLink")
    /\ UNCHANGED <<rowVars, credVars, code, session, failures>>

(* Mutant: a link is sent although one is usable.                          *)
CheckLinkNot(r) ==
    /\ At(r, "checkLink")
    /\ Goto(r, "insertLink")
    /\ UNCHANGED <<rowVars, credVars, code, session, failures>>

CheckLink(r) ==
    /\ At(r, "checkLink")
    /\ IF \E c \in Links : Usable(c) THEN Respond(r) ELSE Goto(r, "insertLink")
    /\ UNCHANGED <<rowVars, credVars, code, session, failures>>

(* A link nobody holds stands for a new one.  The mail is sent from a      *)
(* goroutine that may fail, or die with the process.                       *)
InsertLink(r) ==
    /\ At(r, "insertLink")
    /\ \E c \in Links :
          /\ ~Usable(c)
          /\ \A q \in Requests : req[q].cred # c
          /\ \E mail \in {"lost", "sent"} : cred' = [cred EXCEPT ![c] = mail]
          /\ uses' = [uses EXCEPT ![c] = 0]
    /\ Respond(r)
    /\ UNCHANGED <<rowVars, code, session, failures>>

(* ResetPasswordHandler and AcceptInviteHandler: the token is looked up,   *)
(* the password written, the token marked.                                 *)
UseCredential(r, c) ==
    /\ At(r, "idle")
    /\ cred[c] = "sent"
    /\ req' = [req EXCEPT ![r] = [pc |-> "write", cred |-> c, newest |-> FALSE]]
    /\ UNCHANGED <<rowVars, credVars, code, session, failures>>

-----------------------------------------------------------------------------
(* What becomes of an open session when the password changes.  Neither     *)
(* ChangePasswordHandler nor AcceptInviteHandler ends it.                  *)
Keep == IF session = "current" THEN "kept" ELSE session

(* A hash that was read before is now older than the row.                  *)
ReadersOutdated == [r \in Requests |-> [req[r] EXCEPT !.newest = FALSE]]

WritePassword(r) ==
    /\ At(r, "write")
    /\ password' = TRUE
    /\ IF req[r].cred = Invitation
       THEN row' = "active" /\ barred' = FALSE /\ session' = Keep
       ELSE /\ session' = IF session = "none" THEN "none" ELSE "outdated"
            /\ UNCHANGED <<row, barred>>
    /\ req' = [ReadersOutdated EXCEPT ![r].pc = "markUsed"]
    /\ uses' = [uses EXCEPT ![req[r].cred] = @ + 1]
    /\ UNCHANGED <<deleted, roles, cred, code, failures>>

(* Mutant: the invitation is not marked.                                   *)
MarkLinkUsed(r) ==
    /\ At(r, "markUsed")
    /\ IF req[r].cred = Invitation
       THEN Respond(r) /\ UNCHANGED cred
       ELSE /\ cred' = [cred EXCEPT ![req[r].cred] = "dead"]
            /\ Goto(r, "clearSession")
    /\ UNCHANGED <<rowVars, uses, code, session, failures>>

(* Mutant: when the token is marked already, the request is refused there. *)
MarkUsedOnce(r) ==
    /\ At(r, "markUsed")
    /\ cred' = [cred EXCEPT ![req[r].cred] = "dead"]
    /\ IF req[r].cred = Invitation \/ ~Usable(req[r].cred)
       THEN Respond(r) ELSE Goto(r, "clearSession")
    /\ UNCHANGED <<rowVars, uses, code, session, failures>>

MarkUsed(r) ==
    /\ At(r, "markUsed")
    /\ cred' = [cred EXCEPT ![req[r].cred] = "dead"]
    /\ IF req[r].cred = Invitation THEN Respond(r) ELSE Goto(r, "clearSession")
    /\ UNCHANGED <<rowVars, uses, code, session, failures>>

(* ChangePasswordHandler: the session is admitted, the row's hash read and *)
(* compared with the old password.                                         *)
ChangePassword(r) ==
    /\ session # "none" /\ row = "active" /\ ~deleted
    /\ password
    /\ Arrive(r, "change")
    /\ UNCHANGED <<rowVars, credVars, code, session, failures>>

UpdatePassword(r) ==
    /\ At(r, "change")
    /\ session' = Keep
    /\ req' = [ReadersOutdated EXCEPT ![r] = Idle]
    /\ UNCHANGED <<rowVars, credVars, code, failures>>

-----------------------------------------------------------------------------
(* LoginHandler: the row is read and the password compared with its hash;  *)
(* deleted_at is not asked for.                                            *)
Login(r) ==
    /\ At(r, "idle")
    /\ row = "active" /\ password
    /\ req' = [req EXCEPT ![r] = [Idle EXCEPT !.pc = "openSession", !.newest = TRUE]]
    /\ UNCHANGED <<rowVars, credVars, code, session, failures>>

(* One of the roles is picked, and must be one of the login's mode.        *)
OpenSession(r) ==
    /\ At(r, "openSession")
    /\ \/ /\ roles # {}
          /\ session' = IF req[r].newest THEN "current" ELSE "kept"
       \/ UNCHANGED session
    /\ Respond(r)
    /\ UNCHANGED <<rowVars, credVars, code, failures>>

-----------------------------------------------------------------------------
(* DeactivateUserHandler, ActivateUserHandler, DeleteUserHandler           *)
AdminRequest(r) ==
    /\ row # "absent" /\ ~deleted
    /\ "end_user" \notin roles
    /\ \E pc \in {"deactivate", "activate", "clearFirst"} : Arrive(r, pc)
    /\ UNCHANGED <<rowVars, credVars, code, session, failures>>

Deactivate(r) ==
    /\ At(r, "deactivate")
    /\ row' = "inactive"
    /\ barred' = TRUE
    /\ Goto(r, "clearSession")
    /\ UNCHANGED <<deleted, password, roles, credVars, code, session, failures>>

Activate(r) ==
    /\ At(r, "activate")
    /\ row' = "active"
    /\ barred' = FALSE
    /\ Respond(r)
    /\ UNCHANGED <<deleted, password, roles, credVars, code, session, failures>>

(* ClearActiveSession, whose error nobody looks at.                        *)
Cleared(r) == IF At(r, "clearFirst") THEN Goto(r, "softDelete") ELSE Respond(r)

ClearSession(r) ==
    /\ At(r, "clearSession") \/ At(r, "clearFirst")
    /\ session' = "none"
    /\ Cleared(r)
    /\ UNCHANGED <<rowVars, credVars, code, failures>>

SoftDelete(r) ==
    /\ At(r, "softDelete")
    /\ deleted' = TRUE
    /\ Respond(r)
    /\ UNCHANGED <<row, password, roles, barred, credVars, code, session,
                   failures>>

-----------------------------------------------------------------------------
(* Time: fifteen minutes for a link, a day for the invitation.             *)
Expire(c) ==
    /\ Usable(c)
    /\ cred' = [cred EXCEPT ![c] = "dead"]
    /\ UNCHANGED <<rowVars, uses, code, session, req, failures>>

ExpireCode ==
    /\ code
    /\ code' = FALSE
    /\ UNCHANGED <<rowVars, credVars, session, req, failures>>

(* LogoutHandler, or the end of the token's day.                           *)
EndSession ==
    /\ session # "none"
    /\ session' = "none"
    /\ UNCHANGED <<rowVars, credVars, code, req, failures>>

Fail == failures < MaxFailures /\ failures' = failures + 1

(* Where the session a request was about to end is left open.              *)
Spared == IF session = "outdated" THEN "kept" ELSE session

ClearFails(r) ==
    /\ At(r, "clearSession") \/ At(r, "clearFirst")
    /\ Fail
    /\ session' = Spared
    /\ Cleared(r)
    /\ UNCHANGED <<rowVars, credVars, code>>

(* A statement fails or the process dies: what is done stays done.         *)
Abort(r) ==
    /\ ~At(r, "idle")
    /\ Fail
    /\ session' = IF req[r].pc \in {"markUsed", "clearSession"} THEN Spared
                  ELSE session
    /\ Respond(r)
    /\ UNCHANGED <<rowVars, credVars, code>>

-----------------------------------------------------------------------------
Handle(r) ==
    \/ InsertUser(r) \/ AddRole(r) \/ IssueCode(r) \/ ActivateVerified(r)
    \/ InsertAdmin(r) \/ GrantAdmin(r) \/ InviteRole(r) \/ InviteToken(r)
    \/ CheckLink(r) \/ InsertLink(r)
    \/ WritePassword(r) \/ MarkUsed(r) \/ UpdatePassword(r)
    \/ OpenSession(r)
    \/ Deactivate(r) \/ Activate(r) \/ ClearSession(r) \/ SoftDelete(r)

Ask(r) ==
    \/ Register(r) \/ VerifyOTP(r)
    \/ AdminRegister(r) \/ InviteUser(r)
    \/ ForgotPassword(r) \/ \E c \in Credentials : UseCredential(r, c)
    \/ ChangePassword(r) \/ Login(r) \/ AdminRequest(r)

Next ==
    \/ \E r \in Requests :
          Ask(r) \/ Handle(r) \/ ClearFails(r) \/ Abort(r)
    \/ \E c \in Credentials : Expire(c)
    \/ ExpireCode
    \/ EndSession

Spec == Init /\ [][Next]_vars
-----------------------------------------------------------------------------
Inserting == {r \in Requests : At(r, "insertLink")}

(* password.go:50: the look for a usable link and the insertion of a new   *)
(* one are two statements, so requests at the same time get one each; but  *)
(* the links that are usable and those on their way never outnumber the    *)
(* requests that run at a time, however often one asks.                    *)
LinksBounded ==
    Cardinality({c \in Links : Usable(c)}) + Cardinality(Inserting)
        <= Cardinality(Requests)

(* password.go:104, admin_auth.go:131: a token is found unused, the        *)
(* password written, and only then is the token marked.  One token writes  *)
(* no more passwords than requests ran at the same time and requests       *)
(* failed: a reset that is done cannot be done again.                      *)
UsesBounded ==
    \A c \in Credentials : uses[c] <= Cardinality(Requests) + failures

(* password.go:119: once a reset has replaced the password, a session that *)
(* was open before is on its way out.  What lives on are sessions that a   *)
(* change of password keeps, those of a login that had compared the old    *)
(* password, and those a failing statement spares.                         *)
ResetEndsSessions ==
    session = "outdated" =>
       \E r \in Requests : /\ req[r].pc \in {"markUsed", "clearSession"}
                           /\ req[r].cred \in Links

(* user.go:476, app_auth.go:195: a deactivated account is active again     *)
(* only by an administrator or an invitation that is out, or as an end     *)
(* user who has registered on it.                                          *)
DeactivationHolds == barred /\ row = "active" => "end_user" \in roles
=============================================================================
