SPECIFICATION Spec
CONSTANTS
    Nothing = Nothing
    Users = {ann, bob}
    RoleIds = {superAdmin, other}
    PermIds = {perm}
    SystemRoles = {superAdmin}
    SuperAdmin = superAdmin
    RoleNames = {super_admin, clerk}
    SuperAdminName = super_admin
    PermNames = {role_any, other_any}
    Covering = {role_any}
    Requests = {r1, r2}
    CheckFails = TRUE
SYMMETRY Symmetries
INVARIANTS
    TypeOK
    SuperAdminResolves
    DeletedUnassigned
    SuperAdminOnly
PROPERTIES
    SystemRolesStay
