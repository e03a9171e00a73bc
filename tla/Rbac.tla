-------------------------------- MODULE Rbac --------------------------------
(***************************************************************************)
(* Roles and permissions: the tables roles, permissions, user_roles and    *)
(* role_permissions, the handlers that write them, and the middleware that *)
(* reads them for every request of the back office.                        *)
(*                                                                         *)
(* A role and a permission are created, renamed and deleted alike, and a   *)
(* permission is given to a role like a role to a user; entry stands for a *)
(* role or a permission, holder for a user or a role.  Every statement is  *)
(* an action of its own, and any of them may fail (Refuse).                *)
(*                                                                         *)
(* Left out: descriptions and the module of a permission, which no check   *)
(* reads; lists; JWTProtected and the deletion of users (see Sessions); the*)
(* rest of an invitation, and the registration of end users (see Accounts).*)
(***************************************************************************)
EXTENDS Naturals, FiniteSets

CONSTANTS
    Users,          \* BOUND: the rows that users may ever hold
    RoleIds,        \* BOUND: the rows that roles may ever hold
    PermIds,        \* BOUND: the rows that permissions may ever hold
    SystemRoles,    \* rows of migration 008, is_system
    SuperAdmin,     \* the one called super_admin
    RoleNames,
    SuperAdminName,
    PermNames,
    Covering,       \* those that grant role.assign: itself and role.*
    Requests,       \* slots: how many requests are served at the same time
    CheckFails,     \* whether the query of CheckName may fail
    Nothing

ASSUME RbacAssumption ==
    /\ SuperAdmin \in SystemRoles
    /\ SystemRoles \subseteq RoleIds
    /\ RoleIds \cap PermIds = {}
    /\ RoleIds \cap Users = {}
    /\ SuperAdminName \in RoleNames
    /\ RoleNames \cap PermNames = {}
    /\ Covering \subseteq PermNames
    /\ CheckFails \in BOOLEAN
    /\ Nothing \notin Users \cup RoleIds \cup PermIds \cup RoleNames \cup PermNames

VARIABLES
    users,          \* users
    rows,           \* roles and permissions
    grants,         \* user_roles and role_permissions
    req,            \* the requests being served
    barred,         \* history: requests whose user was no super admin so far
    late            \* history: entries granted to somebody too late, see Grant

vars == <<users, rows, grants, req, barred, late>>

-----------------------------------------------------------------------------
Entries == RoleIds \cup PermIds
Holders == Users \cup RoleIds
Names   == RoleNames \cup PermNames
Scopes  == {"app", "dashboard"}

Row == [name : Names \cup {Nothing}, scope : Scopes \cup {Nothing},
        status : {"absent", "live", "deleted"}]

Checks == {"role", "scope", "group"}
Steps  == Checks \cup {"idle", "insertAdmin", "findRole", "handler", "insert", "checkName", "writeName", "writeScope",
                       "count", "delete", "each", "grant", "find", "remove"}

(* InviteUser; roleAssign; roleWrite and permWrite.                       *)
Routes == {"invite", "assign", "write"}

Request == [pc : Steps, by : Users \cup {Nothing}, route : Routes,
            holder : Holders \cup {Nothing}, entry : Entries \cup {Nothing},
            name : Names \cup {Nothing}]

Idle == [pc |-> "idle", by |-> Nothing, route |-> "write",
         holder |-> Nothing, entry |-> Nothing, name |-> Nothing]

TypeOK ==
    /\ users \subseteq Users
    /\ rows \in [Entries -> Row]
    /\ grants \subseteq (Users \X RoleIds) \cup (RoleIds \X PermIds)
    /\ req \in [Requests -> Request]
    /\ barred \subseteq Requests
    /\ late \subseteq Entries

Live(x) == rows[x].status = "live"

(* The unique index on the name counts deleted rows, the queries do not.   *)
Free(n, x) == \A y \in Entries \ {x} : rows[y].name # n

Unused(n, x) == \A y \in Entries \ {x} : Live(y) => rows[y].name # n

Absent == [name |-> Nothing, scope |-> Nothing, status |-> "absent"]

(* Migration 008; nobody has registered.                                   *)
Init ==
    /\ users = {}
    /\ rows \in {seed \in [Entries -> Row] :
                  /\ \A x \in SystemRoles : /\ seed[x].status = "live"
                                            /\ seed[x].name \in RoleNames
                                            /\ seed[x].scope \in Scopes
                  /\ \A x, y \in SystemRoles : x # y => seed[x].name # seed[y].name
                  /\ seed[SuperAdmin].name = SuperAdminName
                  /\ seed[SuperAdmin].scope = "dashboard"
                  /\ \A x \in Entries \ SystemRoles : seed[x] = Absent}
    /\ grants = {}
    /\ req = [r \in Requests |-> Idle]
    /\ barred = {}
    /\ late = {}

-----------------------------------------------------------------------------
(* The middleware.                                                         *)

LiveRoles(u) == {x \in RoleIds : <<u, x>> \in grants /\ Live(x)}

(* RoleRequired(db, {"super_admin"}).                                      *)
IsSuperAdmin(u) == \E x \in LiveRoles(u) : rows[x].name = SuperAdminName

HasScope(u, s) == \E x \in LiveRoles(u) : rows[x].scope = s

(* PermissionRequired(db, {"role.assign"}).  It asks whether the permission*)
(* was deleted, and not whether the role was.                              *)
HasPermission(u) ==
    \/ IsSuperAdmin(u)
    \/ \E x \in RoleIds, p \in PermIds :
         /\ <<u, x>> \in grants
         /\ <<x, p>> \in grants
         /\ Live(p)
         /\ rows[p].name \in Covering

-----------------------------------------------------------------------------
At(r, pc) == req[r].pc = pc

Goto(r, pc) == req' = [req EXCEPT ![r].pc = pc]

Leave(r) == req' = [req EXCEPT ![r] = Idle]

tables == <<users, rows, grants, late>>

(* A step that reads only.                                                 *)
Read(r, pc) == Goto(r, pc) /\ UNCHANGED tables

(* The handler holds on to what it was asked for and to what it found.     *)
Hold(r, pc, holder, entry, name) ==
    req' = [req EXCEPT ![r] = [Idle EXCEPT !.pc = pc, !.holder = holder,
                                           !.entry = entry, !.name = name]]

Take(r, pc, holder, entry, name) ==
    /\ Hold(r, pc, holder, entry, name)
    /\ UNCHANGED tables

Begin(r, route) == At(r, "handler") /\ req[r].route = route

(* What stands in front of the handlers, in the order of the routes.  The  *)
(* groups of routes.go have no prefix, so that their middleware applies to *)
(* whatever is registered after them: RoleRequired of superAdminAuth comes *)
(* first, for the assignment of roles too.  Of checks in a row that ask the*)
(* same, the last is modelled.                                             *)
Arrive(r, u, route) ==
    /\ At(r, "idle")
    /\ req' = [req EXCEPT ![r].pc = "role", ![r].by = u, ![r].route = route]
    /\ UNCHANGED tables

(* Mutant: the group for super admins gets a prefix of its own.            *)
RoleRequiredElsewhere(r) == At(r, "role") /\ Read(r, "scope")

RoleRequired(r) ==
    /\ At(r, "role")
    /\ IsSuperAdmin(req[r].by)
    /\ \/ req[r].route = "invite" /\ Read(r, "handler")
       \/ req[r].route # "invite" /\ Read(r, "scope")

ScopeRequired(r) ==
    /\ At(r, "scope")
    /\ HasScope(req[r].by, "dashboard")
    /\ Read(r, "group")

GroupRequired(r) ==
    /\ At(r, "group")
    /\ \/ req[r].route = "assign" /\ HasPermission(req[r].by)
       \/ req[r].route = "write" /\ IsSuperAdmin(req[r].by)
    /\ req' = [req EXCEPT ![r].pc = "handler", ![r].by = Nothing]
    /\ UNCHANGED tables

(* A request is answered: a check refused it, something was not found or   *)
(* in the way, a statement failed, or there was nothing left to write.     *)
Refuse(r) ==
    /\ ~At(r, "idle")
    /\ Leave(r)
    /\ UNCHANGED tables

-----------------------------------------------------------------------------
(* AdminRegisterHandler, in front of which nothing stands.                 *)

(* Whoever is not in users yet, whether or not there is an administrator.  *)
AdminRegister(r) ==
    /\ At(r, "idle")
    /\ \E u \in Users \ users : Take(r, "insertAdmin", u, Nothing, Nothing)

(* The e-mail address is unique.                                           *)
InsertAdmin(r) ==
    /\ At(r, "insertAdmin")
    /\ req[r].holder \notin users
    /\ users' = users \cup {req[r].holder}
    /\ Goto(r, "findRole")
    /\ UNCHANGED <<rows, grants, late>>

(* By its name, deleted or not.                                            *)
FindSuperAdmin(r) ==
    /\ At(r, "findRole")
    /\ \E x \in RoleIds :
         rows[x].name = SuperAdminName /\ Take(r, "grant", req[r].holder, x, Nothing)

Registration(r) == AdminRegister(r) \/ InsertAdmin(r) \/ FindSuperAdmin(r)

-----------------------------------------------------------------------------
(* Creating.                                                               *)

Create(r, names) ==
    /\ Begin(r, "write")
    /\ \E n \in names : Unused(n, Nothing) /\ Take(r, "insert", Nothing, Nothing, n)

Insert(r, ids, scopes) ==
    /\ At(r, "insert")
    /\ Free(req[r].name, Nothing)
    /\ \E x \in ids, s \in scopes :
         /\ rows[x].status = "absent"
         /\ rows' = [rows EXCEPT ![x] = [name |-> req[r].name, scope |-> s, status |-> "live"]]
    /\ Leave(r)
    /\ UNCHANGED <<users, grants, late>>

CreateRole(r) == Create(r, RoleNames)

InsertRole(r) == req[r].name \in RoleNames /\ Insert(r, RoleIds, Scopes)

CreatePermission(r) == Create(r, PermNames)

InsertPermission(r) == req[r].name \in PermNames /\ Insert(r, PermIds, {Nothing})

-----------------------------------------------------------------------------
(* Updating.                                                               *)

Pick(r, pc, ids) ==
    /\ Begin(r, "write")
    /\ \E x \in ids : Live(x) /\ Take(r, pc, Nothing, x, Nothing)

(* Mutant: a system role may be given a new scope.                         *)
UpdateAnyRole(r) == Pick(r, "checkName", RoleIds)

(* Nothing is modelled that a system role may be updated with.             *)
UpdateRole(r) == Pick(r, "checkName", RoleIds \ SystemRoles)

UpdatePermission(r) == Pick(r, "checkName", PermIds)

NamesOf(x) == IF x \in RoleIds THEN RoleNames ELSE PermNames

(* If a name is given.  An error of the query is overwritten by the next.  *)
CheckName(r) ==
    /\ At(r, "checkName")
    /\ \/ \E n \in NamesOf(req[r].entry) :
            /\ Unused(n, req[r].entry) \/ CheckFails
            /\ Take(r, "writeName", Nothing, req[r].entry, n)
       \/ req[r].entry \in RoleIds /\ Read(r, "writeScope")

Set(x, row) == rows' = [rows EXCEPT ![x] = row] /\ UNCHANGED <<users, grants, late>>

(* Mutant: no unique index, the query before it decides.                   *)
WriteAnyName(r) ==
    /\ At(r, "writeName")
    /\ Set(req[r].entry, [rows[req[r].entry] EXCEPT !.name = req[r].name])
    /\ Leave(r)

WriteName(r) ==
    /\ At(r, "writeName")
    /\ Free(req[r].name, req[r].entry)
    /\ Set(req[r].entry, [rows[req[r].entry] EXCEPT !.name = req[r].name])
    /\ \/ req[r].entry \in RoleIds /\ Goto(r, "writeScope")
       \/ req[r].entry \in PermIds /\ Leave(r)

(* A role that is to get neither scope leaves with its new name (Refuse).  *)
WriteScope(r) ==
    /\ At(r, "writeScope")
    /\ \E s \in Scopes : Set(req[r].entry, [rows[req[r].entry] EXCEPT !.scope = s])
    /\ Leave(r)

-----------------------------------------------------------------------------
(* Deleting.                                                               *)

Granted(x) == \E h \in Holders : <<h, x>> \in grants

Count(r, ids) ==
    /\ At(r, "count")
    /\ req[r].entry \in ids
    /\ ~Granted(req[r].entry)
    /\ Read(r, "delete")

SoftDelete(r, ids) ==
    /\ At(r, "delete")
    /\ req[r].entry \in ids
    /\ Set(req[r].entry, [rows[req[r].entry] EXCEPT !.status = "deleted"])
    /\ Leave(r)

DeleteRole(r) == Pick(r, "count", RoleIds \ SystemRoles)

(* Mutant: the users of a role are not counted.                            *)
CountNoUsers(r) ==
    /\ At(r, "count")
    /\ req[r].entry \in RoleIds
    /\ Read(r, "delete")

CountUsers(r) == Count(r, RoleIds)

SoftDeleteRole(r) == SoftDelete(r, RoleIds)

DeletePermission(r) == Pick(r, "count", PermIds)

CountRoles(r) == Count(r, PermIds)

SoftDeletePermission(r) == SoftDelete(r, PermIds)

-----------------------------------------------------------------------------
(* Granting and revoking.                                                  *)

(* Mutant: the two ids are inserted in the wrong order.                    *)
GrantSwapped(h, x) == grants' = grants \cup {<<x, h>>} /\ UNCHANGED <<users, rows, late>>

(* Too late is what is granted once its entry was deleted, or when whoever *)
(* deletes it has counted already.                                         *)
Grant(h, x) ==
    /\ grants' = grants \cup {<<h, x>>}
    /\ late' = late \cup {y \in {x} : ~Live(y) \/ \E s \in Requests : At(s, "delete") /\ req[s].entry = y}
    /\ UNCHANGED <<users, rows>>

AssignPermissions(r) ==
    /\ Begin(r, "write")
    /\ \E x \in RoleIds : Live(x) /\ Take(r, "each", x, Nothing, Nothing)

(* One of the permissions asked for; those not found are passed over.      *)
EachPermission(r) ==
    /\ At(r, "each")
    /\ \E p \in PermIds : Live(p) /\ Take(r, "grant", req[r].holder, p, Nothing)

InsertRolePermission(r) ==
    /\ At(r, "grant")
    /\ req[r].entry \in PermIds
    /\ Grant(req[r].holder, req[r].entry)
    /\ Goto(r, "each")

AssignRole(r) ==
    /\ Begin(r, "assign")
    /\ \E u \in users, x \in RoleIds : Live(x) /\ Take(r, "grant", u, x, Nothing)

(* The user is inserted first.  The role is given by its id, and nothing   *)
(* asks whether it was deleted.                                            *)
InviteUser(r) ==
    /\ Begin(r, "invite")
    /\ \E u \in Users \ users, x \in RoleIds :
         /\ rows[x].status # "absent"
         /\ users' = users \cup {u}
         /\ Hold(r, "grant", u, x, Nothing)
    /\ UNCHANGED <<rows, grants, late>>

InsertUserRole(r) ==
    /\ At(r, "grant")
    /\ req[r].entry \in RoleIds
    /\ Grant(req[r].holder, req[r].entry)
    /\ Leave(r)

Revoke(r, ids) ==
    /\ At(r, "remove")
    /\ req[r].entry \in ids
    /\ grants' = grants \ {<<req[r].holder, req[r].entry>>}
    /\ Leave(r)
    /\ UNCHANGED <<users, rows, late>>

RemovePermission(r) ==
    /\ Begin(r, "write")
    /\ \E x \in RoleIds : Live(x) /\ Take(r, "find", x, Nothing, Nothing)

FindPermission(r) ==
    /\ At(r, "find")
    /\ \E p \in PermIds : Live(p) /\ Take(r, "remove", req[r].holder, p, Nothing)

DeleteRolePermission(r) == Revoke(r, PermIds)

RemoveRole(r) ==
    /\ Begin(r, "assign")
    /\ \E u \in users, x \in RoleIds : Live(x) /\ Take(r, "remove", u, x, Nothing)

DeleteUserRole(r) == Revoke(r, RoleIds)

-----------------------------------------------------------------------------
Protected(r) ==
    \/ \E u \in users, route \in Routes : Arrive(r, u, route)
    \/ RoleRequired(r)
    \/ ScopeRequired(r)
    \/ GroupRequired(r)
    \/ Refuse(r)

Roles(r) ==
    \/ CreateRole(r) \/ InsertRole(r)
    \/ UpdateRole(r) \/ WriteScope(r)
    \/ DeleteRole(r) \/ CountUsers(r) \/ SoftDeleteRole(r)

Permissions(r) ==
    \/ CreatePermission(r) \/ InsertPermission(r)
    \/ UpdatePermission(r)
    \/ DeletePermission(r) \/ CountRoles(r) \/ SoftDeletePermission(r)

Assignments(r) ==
    \/ AssignPermissions(r) \/ EachPermission(r) \/ InsertRolePermission(r)
    \/ RemovePermission(r) \/ FindPermission(r) \/ DeleteRolePermission(r)
    \/ AssignRole(r) \/ InviteUser(r) \/ InsertUserRole(r)
    \/ RemoveRole(r) \/ DeleteUserRole(r)

(* Requests that arrived at the middleware from a user who was no super    *)
(* admin, as long as the user has not become one.                          *)
Remember ==
    barred' = {s \in Requests : /\ req'[s].pc # "idle"
                                /\ s \in barred \/ (At(s, "idle") /\ req'[s].pc = "role")
                                /\ ~IsSuperAdmin(req[s].by)'}

Next ==
    /\ \E r \in Requests :
         \/ Registration(r)
         \/ Protected(r)
         \/ Roles(r)
         \/ Permissions(r)
         \/ CheckName(r) \/ WriteName(r)
         \/ Assignments(r)
    /\ Remember

Spec == Init /\ [][Next]_vars

-----------------------------------------------------------------------------
(* The middleware finds the role super_admin by its name.  That name means *)
(* one role, the seeded one, which is live and of the back office, however *)
(* roles are created, renamed and deleted.  Otherwise nobody, or somebody  *)
(* else, would get past RoleRequired (jwt.go:109).                         *)
SuperAdminResolves ==
    /\ Live(SuperAdmin)
    /\ rows[SuperAdmin].scope = "dashboard"
    /\ \A x \in RoleIds : rows[x].name = SuperAdminName <=> x = SuperAdmin

(* A system role keeps its name and scope and is never deleted, whatever   *)
(* the requests had read before (role.go:247, role.go:309).                *)
SystemRolesStay == [][\A x \in SystemRoles : rows'[x] = rows[x]]_vars

(* "Cannot delete role that is assigned to users" (role.go:321), and the   *)
(* same for permissions (permission.go:330): what is deleted is held by    *)
(* nobody, unless it was granted after it had been counted.                *)
DeletedUnassigned ==
    \A x \in Entries : rows[x].status = "deleted" /\ Granted(x) => x \in late

(* "Super admin only" (routes.go:140, 162, 180): no request gets to one of *)
(* the handlers behind the middleware whose user was not a super admin at  *)
(* any time since it arrived, although the assignment of roles asks for a  *)
(* permission only.                                                        *)
SuperAdminOnly == \A s \in barred : req[s].pc \in Checks
=============================================================================
